-------------------------- MODULE ParquetWriterInv --------------------------
(***************************************************************************)
(* What the proofs about Parquet writers say of them: the inductive        *)
(* invariants and the predicates they are made of.                         *)
(*                                                                         *)
(* The writers, for any number of them, any schemas and any dissections    *)
(* that are IsDissection. ParquetOK says that between calls a column is    *)
(* settled: aligned, its counters zero or those of an accepted record. In  *)
(* the middle of a dissection it is settled and untouched, or the column   *)
(* before the record with as many items added as its counters say          *)
(* (Underway), which is what a rollback takes off. A reader finds in it    *)
(* what it found before the record, and the entries added since (Reads),   *)
(* though in bytes lies also what was rolled back. So the entries of the   *)
(* columns are those of the accepted dissections. If all of these are      *)
(* whole, by ReaderAssumption a row group is read back as what they mean;  *)
(* if not, some column is too short for the row group to be written.       *)
(***************************************************************************)
EXTENDS ParquetWriter

-----------------------------------------------------------------------------
(* Parquet: one column in the course of a dissection.                      *)

\* What steps give to columns, and positions in bytes.
Dissections == UNION {Schemas[s].records \cup Schemas[s].messages : s \in DOMAIN Schemas}

Datum == Nat \cup {NULL} \cup {d.steps[k].x : d \in Dissections, k \in Nat}

ColumnEntry == [r : Nat, d : Nat, x : Datum]

Column ==
  [rlevels : Seq(Nat), dlevels : Seq(Nat), values : Seq(Datum), bytes : Seq(Datum),
   num_values : Nat, rec_num : Nat, rec_r_items : Nat, rec_d_items : Nat, rec_v_items : Nat]

LeafOK(n) == n.rl \in Nat /\ n.dl \in Nat /\ n.rl <= n.dl

EntryOK(s, n) ==
  s.r \in Nat /\ s.d \in 0 .. n.dl /\ s.x \in Datum /\ (s.x # NULL <=> s.d = n.dl)

\* Definition levels and positions in bytes are in range.
Readable(col, n) ==
  /\ n.dl > 0 => \A i \in 1 .. col.num_values : col.dlevels[i] <= n.dl
  /\ n.name \in ByRef => \A p \in 1 .. Len(col.values) : col.values[p] \in 1 .. Len(col.bytes)

\* A column between calls, after num records of which "started" gave it an entry: if
\* the counters are those of the record to come, they are zero.
Settled(col, n, num, started) ==
  /\ col \in Column
  /\ ColumnAligned(col, n, started) /\ Readable(col, n)
  /\ col.rec_num <= num
  /\ col.rec_num = num =>
       col.rec_r_items = 0 /\ col.rec_d_items = 0 /\ col.rec_v_items = 0

Extends(t, s, k) == Len(t) = Len(s) + k /\ SubSeq(t, 1, Len(s)) = s

\* Column b in the course of the record after num: the counters say what was added,
\* and the entries are those of so many records, this one perhaps included.
InFlight(col, b, n, num, started) ==
  LET added == col.num_values - b.num_values
  IN /\ col \in Column
     /\ col.rec_num = num
     /\ ColumnAligned(col, n, started)
     /\ Extends(col.rlevels, b.rlevels, col.rec_r_items)
     /\ Extends(col.dlevels, b.dlevels, col.rec_d_items)
     /\ Extends(col.values, b.values, col.rec_v_items)
     /\ added \in Nat
     /\ col.rec_r_items = IF n.rl > 0 THEN added ELSE 0
     /\ col.rec_d_items = IF n.dl > 0 THEN added ELSE 0
     /\ col.rec_v_items <= added
     /\ n.dl = 0 => col.rec_v_items = added

\* Sequence u is t with x after it.
Longer(u, t, x) ==
  /\ Len(u) = Len(t) + 1 /\ u[Len(t) + 1] = x
  /\ \A i \in 1 .. Len(t) : u[i] = t[i]

StoredAs(v, new, col, n, s) ==
  IF n.name \in ByRef THEN v = Len(col.bytes) + 1 /\ new.bytes = Append(col.bytes, s.x)
  ELSE v = s.x /\ new.bytes = col.bytes

AddedOK(new, col, n, s) ==
  /\ new \in Column
  /\ new.num_values = col.num_values + 1 /\ new.rec_num = col.rec_num
  /\ new.rlevels = IF n.rl > 0 THEN Append(col.rlevels, s.r) ELSE col.rlevels
  /\ new.rec_r_items = IF n.rl > 0 THEN col.rec_r_items + 1 ELSE col.rec_r_items
  /\ new.dlevels = IF n.dl > 0 THEN Append(col.dlevels, s.d) ELSE col.dlevels
  /\ new.rec_d_items = IF n.dl > 0 THEN col.rec_d_items + 1 ELSE col.rec_d_items
  /\ s.x = NULL => /\ new.values = col.values /\ new.bytes = col.bytes
                   /\ new.rec_v_items = col.rec_v_items
  /\ s.x # NULL => /\ \E v \in Datum :
                         new.values = Append(col.values, v) /\ StoredAs(v, new, col, n, s)
                   /\ new.rec_v_items = col.rec_v_items + 1

-----------------------------------------------------------------------------
(* What a reader finds in it.                                              *)

\* Column "new" has what col has, and perhaps more.
Keeps(new, col, n) ==
  /\ new.num_values >= col.num_values
  /\ n.rl > 0 => \A i \in 1 .. col.num_values : new.rlevels[i] = col.rlevels[i]
  /\ n.dl > 0 => \A i \in 1 .. col.num_values : new.dlevels[i] = col.dlevels[i]
  /\ \A p \in 1 .. Len(col.values) : new.values[p] = col.values[p]
  /\ \A v \in 1 .. Len(col.bytes) : new.bytes[v] = col.bytes[v]

\* The entries up to i that have a value.
DefinedBy(col, n, i) == {j \in 1 .. i : n.dl = 0 \/ col.dlevels[j] = n.dl}

\* Column b with more entries: what a reader finds are those of b, and es.
Reads(col, b, n, es) ==
  /\ Readable(col, n)
  /\ Len(b.bytes) <= Len(col.bytes)
  /\ \A v \in 1 .. Len(b.bytes) : col.bytes[v] = b.bytes[v]
  /\ ColumnEntries(col, n) = ColumnEntries(b, n) \o es

-----------------------------------------------------------------------------
(* All columns, and a whole dissection.                                    *)

ColumnIds == 0 .. Len(Schemas[sid].leaves) - 1

Offered == Schemas[sid].records \cup Schemas[sid].messages

\* The columns after num records, of which st[c] gave column c an entry.
AllSettled(cols, num, st) ==
  /\ cols = [c \in ColumnIds |-> cols[c]]
  /\ \A c \in ColumnIds : st[c] \in Nat /\ Settled(cols[c], Leaf(c), num, st[c])

\* What k steps of dissection d give column c, and those of them that start a record.
EntriesBy(d, k, c) == SubSeq(d.entries[c], 1, Cardinality(AddsBy(d, k, c)))

Begun(d, k, c) == StartsBy(d, Schemas[sid].leaves, k, c)

\* The columns after k steps of dissection d: those it touched are in the course
\* of its record, the others are as they were.
Underway(cols, base, num, st, d, k) ==
  /\ cols = [c \in ColumnIds |-> cols[c]]
  /\ \A c \in ColumnIds :
       IF TouchedBy(d, k, c)
       THEN /\ InFlight(cols[c], base[c], Leaf(c), num, st[c] + Cardinality(Begun(d, k, c)))
            /\ Reads(cols[c], base[c], Leaf(c), EntriesBy(d, k, c))
       ELSE cols[c] = base[c]

\* What the assumption says of the schema in use.
StepOK(d, k) ==
  LET s == d.steps[k]
  IN /\ s.op \in {"touch", "add"} /\ s.column \in ColumnIds
     /\ \A c \in 0 .. s.column - 1 : TouchedBy(d, k, c)
     /\ s.op = "add" => TouchedBy(d, k, s.column) /\ EntryOK(s, Leaf(s.column))

EntriesOK(d, c) ==
  LET n == Len(d.steps)
  IN /\ d.entries[c] \in Seq(ColumnEntry) /\ Len(d.entries[c]) = Cardinality(AddsBy(d, n, c))
     /\ \A k \in 1 .. n : k \in AddsBy(d, n, c) =>
          d.entries[c][Cardinality(AddsBy(d, k, c))] = EntryOf(d.steps[k], Leaf(c))

\* The first elements of a sequence, and one more.
NextPrefix(u, t, e, p) ==
  /\ p < Len(e) => u = Append(t, e[p + 1])
  /\ p = Len(e) => t = e

\* The columns after each number of steps.
Course(h, start, num, steps) ==
  h = [k \in 0 .. Len(steps) |-> IF k = 0 THEN start ELSE Step(h[k - 1], num, steps[k])]

-----------------------------------------------------------------------------
(* The entries of several dissections.                                     *)

\* The entries of column c after each of the dissections ds.
Gathered(h, ds, c) ==
  h = [k \in 0 .. Len(ds) |-> IF k = 0 THEN <<>> ELSE h[k - 1] \o ds[k].entries[c]]

-----------------------------------------------------------------------------
(* Writers and their schema.                                               *)

Complete == {d \in Offered : d.ok}

Owners == {w \in Writers : writer[w].state \in {"open", "failed", "closed"}}

\* The count of the schema is that of its owners; no writer has it before it is final.
SchemaOK ==
  /\ sid \in DOMAIN Schemas /\ handle \in BOOLEAN
  /\ ref_cnt = (IF handle THEN 1 ELSE 0) + Cardinality(Owners)
  /\ node \in {"freed", "crashed"} <=> ref_cnt = 0
  /\ node \in {"open", "partial", "corrupt"} => Owners = {}

\* How many of the dissections ds gave each column an entry.
StartsOf(ds) == [c \in ColumnIds |-> Cardinality({i \in DOMAIN ds : ds[i].entries[c] # <<>>})]

\* The columns hold the entries of dissections ds.
HoldsAll(cols, ds) ==
  \A c \in ColumnIds : ColumnEntries(cols[c], Leaf(c)) = AllEntries(ds, c)

\* A writer, and the dissections it accepted.
WriterOK(wr, ds) ==
  /\ wr = [state |-> wr.state, num_records |-> wr.num_records, columns |-> wr.columns]
  /\ ds \in Seq(Complete)
  /\ IF wr.state = "open"
     THEN /\ wr.num_records = Len(ds)
          /\ AllSettled(wr.columns, Len(ds), StartsOf(ds)) /\ HoldsAll(wr.columns, ds)
     ELSE ds = <<>>

WritersOK ==
  /\ writer = [w \in Writers |-> writer[w]] /\ accepted = [w \in Writers |-> accepted[w]]
  /\ \A w \in Writers : WriterOK(writer[w], accepted[w])

\* No more was accepted than was dissected.
CallsOK ==
  /\ calls \in Nat /\ calls <= MaxCalls
  /\ \A w \in Writers : Len(accepted[w]) <= calls

ParquetOK == SchemaOK /\ WritersOK /\ CallsOK

\* What a dissection makes of a writer, and of what it accepted.
Dissected(wr, d) ==
  LET num == wr.num_records
      after == Applied(wr.columns, num, d.steps)
  IN IF d.ok THEN [state |-> "open", num_records |-> num + 1, columns |-> after]
     ELSE [state |-> "open", num_records |-> num, columns |-> rollback_record(after, num)]

Taken(ds, d) == IF d.ok THEN Append(ds, d) ELSE ds

-----------------------------------------------------------------------------
(* What is in the columns, and in the files.                               *)

\* In the columns of a writer are the entries of the records it accepted, in order,
\* and of no other.
HoldsAccepted ==
  \A w \in Writers : writer[w].state = "open" => HoldsAll(writer[w].columns, accepted[w])

\* The writers are record files.
FileStep == [RF!Next]_(RF!vars)
=============================================================================
