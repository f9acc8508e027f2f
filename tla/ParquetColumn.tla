---------------------------- MODULE ParquetColumn ----------------------------
(***************************************************************************)
(* parquet/parquet.cpp: one column of a row group under construction, its  *)
(* levels, values and bytes, with the counters from which it is rolled     *)
(* back; and what a column may rely on in the steps of a dissection.       *)
(***************************************************************************)
EXTENDS Integers, Sequences, FiniteSets

CONSTANTS NULL,   \* no value
          ByRef   \* names of binary columns: values are positions in bytes

EmptyColumn ==
  [rlevels |-> <<>>, dlevels |-> <<>>, values |-> <<>>, bytes |-> <<>>, num_values |-> 0,
   rec_num |-> 0, rec_r_items |-> 0, rec_d_items |-> 0, rec_v_items |-> 0]

\* reset_record: the first touch of a column in a record.
reset_record(c, num_records) ==
  IF c.rec_num = num_records THEN c
  ELSE [c EXCEPT !.rec_num = num_records, !.rec_r_items = 0, !.rec_d_items = 0,
                 !.rec_v_items = 0]

\* update_levels; a column without a level of a kind keeps no list of it.
update_levels(c, n, step) ==
  [c EXCEPT !.num_values = @ + 1,
            !.rlevels = IF n.rl > 0 THEN Append(@, step.r) ELSE @,
            !.rec_r_items = IF n.rl > 0 THEN @ + 1 ELSE @,
            !.dlevels = IF n.dl > 0 THEN Append(@, step.d) ELSE @,
            !.rec_d_items = IF n.dl > 0 THEN @ + 1 ELSE @]

\* mutant: counts the values, though what was rolled back stays in bytes
AddDataByValues(c, n, x) ==
  IF x = NULL THEN c
  ELSE [c EXCEPT !.bytes  = IF n.name \in ByRef THEN Append(@, x) ELSE @,
                 !.values = Append(@, IF n.name \in ByRef THEN Len(c.values) + 1 ELSE x),
                 !.rec_v_items = @ + 1]

\* add_string and the other add functions: binary data goes to bytes, and the
\* value is its position there.
AddData(c, n, x) ==
  IF x = NULL THEN c
  ELSE [c EXCEPT !.bytes  = IF n.name \in ByRef THEN Append(@, x) ELSE @,
                 !.values = Append(@, IF n.name \in ByRef THEN Len(c.bytes) + 1 ELSE x),
                 !.rec_v_items = @ + 1]

Shortened(seq, n) == SubSeq(seq, 1, Len(seq) - n)

\* mutant: nulls are not counted
RolledBackValues(c) ==
  [c EXCEPT !.rlevels = Shortened(@, c.rec_r_items), !.dlevels = Shortened(@, c.rec_d_items),
            !.values = Shortened(@, c.rec_v_items), !.num_values = @ - c.rec_v_items,
            !.rec_r_items = 0, !.rec_d_items = 0, !.rec_v_items = 0]

\* One column rolled back; what it had in bytes stays there.
RolledBack(c) ==
  LET nv == CASE c.rec_d_items # 0 -> c.rec_d_items
              [] c.rec_d_items = 0 /\ c.rec_r_items # 0 -> c.rec_r_items
              [] OTHER -> c.rec_v_items
  IN [c EXCEPT !.rlevels = Shortened(@, c.rec_r_items), !.dlevels = Shortened(@, c.rec_d_items),
               !.values = Shortened(@, c.rec_v_items), !.num_values = @ - nv,
               !.rec_r_items = 0, !.rec_d_items = 0, !.rec_v_items = 0]

-----------------------------------------------------------------------------
(* What it holds.                                                          *)

\* What a reader finds in a column: its entries.
ColumnEntries(col, n) ==
  [i \in 1 .. col.num_values |->
     LET d   == IF n.dl > 0 THEN col.dlevels[i] ELSE 0
         pos == Cardinality({j \in 1 .. i : n.dl = 0 \/ col.dlevels[j] = n.dl})
         v   == col.values[pos]
     IN [r |-> IF n.rl > 0 THEN col.rlevels[i] ELSE 0, d |-> d,
         x |-> IF d < n.dl THEN NULL ELSE IF n.name \in ByRef THEN col.bytes[v] ELSE v]]

\* Levels and values of a column agree, and so many of its entries start a record.
ColumnAligned(col, n, started) ==
  /\ n.rl > 0 => Len(col.rlevels) = col.num_values
  /\ n.dl > 0 => Len(col.dlevels) = col.num_values
  /\ Len(col.values) = Cardinality({i \in 1 .. col.num_values : n.dl = 0 \/ col.dlevels[i] = n.dl})
  /\ Cardinality({i \in 1 .. col.num_values : n.rl = 0 \/ col.rlevels[i] = 0}) = started

-----------------------------------------------------------------------------
(* Dissections.                                                            *)

\* Entry [r, d, x] of a column with leaf n that step s gives it.
EntryOf(s, n) ==
  [r |-> IF n.rl > 0 THEN s.r ELSE 0, d |-> IF n.dl > 0 THEN s.d ELSE 0, x |-> s.x]

\* The steps up to k that give column c an entry, and those of them that start a record.
AddsBy(d, k, c) == {i \in 1 .. k : d.steps[i].op = "add" /\ d.steps[i].column = c}

StartsBy(d, leaves, k, c) ==
  {i \in AddsBy(d, k, c) : leaves[c + 1].rl = 0 \/ d.steps[i].r = 0}

TouchedBy(d, k, c) == \E i \in 1 .. k : d.steps[i].op = "touch" /\ d.steps[i].column = c

\* The steps of a dissection: a column is touched before it is given entries;
\* columns are touched in their order; a value has the definition level of its
\* column, and a null a lower one; if a record that was dissected to its end gives
\* a column entries, one of them starts it.  Its entries are what its steps give.
IsDissection(d, leaves) ==
  LET n == Len(d.steps)
      columns == 0 .. Len(leaves) - 1
  IN /\ n \in Nat /\ DOMAIN d.steps = 1 .. n
     /\ \A k \in 1 .. n :
          LET s == d.steps[k]
          IN /\ s.op \in {"touch", "add"} /\ s.column \in columns
             /\ \A c \in 0 .. s.column - 1 : TouchedBy(d, k, c)
             /\ s.op = "add" =>
                  LET dl == leaves[s.column + 1].dl
                  IN /\ TouchedBy(d, k, s.column) /\ s.r \in Nat /\ s.d \in 0 .. dl
                     /\ s.x # NULL <=> s.d = dl
     /\ \A c \in columns :
          /\ d.entries[c] \in [1 .. Cardinality(AddsBy(d, n, c)) ->
                                {EntryOf(d.steps[k], leaves[c + 1]) : k \in AddsBy(d, n, c)}]
          /\ \A k \in AddsBy(d, n, c) :
               d.entries[c][Cardinality(AddsBy(d, k, c))] = EntryOf(d.steps[k], leaves[c + 1])
          /\ d.ok /\ AddsBy(d, n, c) # {} => \E k \in 1 .. n : StartsBy(d, leaves, n, c) = {k}

\* A dissection that gives every column entries.  A field of a message that is there
\* without values gives its column none, and the record is accepted.
Whole(d, leaves) == \A c \in 0 .. Len(leaves) - 1 : d.entries[c] # <<>>

\* The entries that column c has of dissections ds.
AllEntries(ds, c) ==
  LET all[k \in 0 .. Len(ds)] == IF k = 0 THEN <<>> ELSE all[k - 1] \o ds[k].entries[c]
  IN all[Len(ds)]
=============================================================================
