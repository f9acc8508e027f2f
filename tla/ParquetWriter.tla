---------------------------- MODULE ParquetWriter ----------------------------
(***************************************************************************)
(* parquet/parquet.cpp: writers that share a schema, each with a collector *)
(* per column.  A record is dissected straight into the collectors; when   *)
(* that throws half way the record is rolled back with the counters the    *)
(* columns keep.  The row group is written and cleared as a whole.  What   *)
(* the schema's tree and the dissections are made of is in ParquetRecord:  *)
(* here a schema is what build_nested makes of it, and a dissection the    *)
(* list of its steps on columns up to the first exception.                 *)
(***************************************************************************)
EXTENDS ParquetColumn

CONSTANTS Writers,
          Schemas,   \* sequence of [ok, built, leaves, records, messages]
          Assembly(_, _, _),  \* of a schema: the records a reader makes of entries
          MaxCalls   \* dissections (bound of the model)

ASSUME WriterAssumption == IsFiniteSet(Writers) /\ MaxCalls \in Nat

ASSUME SchemaAssumption ==
  \A s \in DOMAIN Schemas :
    LET leaves == Schemas[s].leaves
    IN /\ Len(leaves) \in Nat /\ DOMAIN leaves = 1 .. Len(leaves)
       /\ \A c \in DOMAIN leaves :
            leaves[c].rl \in Nat /\ leaves[c].dl \in Nat /\ leaves[c].rl <= leaves[c].dl
       /\ \A d \in Schemas[s].records \cup Schemas[s].messages : IsDissection(d, leaves)

\* A reader makes the records of the entries of their dissections, if every column has some.
ASSUME ReaderAssumption ==
  \A s \in DOMAIN Schemas : \A m \in 1 .. MaxCalls :
    \A ds \in [1 .. m -> {d \in Schemas[s].records \cup Schemas[s].messages :
                            d.ok /\ Whole(d, Schemas[s].leaves)}] :
      Assembly(Schemas[s], [c \in 0 .. Len(Schemas[s].leaves) - 1 |-> AllEntries(ds, c)], m)
        = [i \in 1 .. m |-> ds[i].content]

VARIABLES
  sid,       \* the schema in use
  node,      \* of its root: "open", "partial", "corrupt", "final", "freed", "crashed"
  handle,    \* Lua still has the schema
  ref_cnt,
  writer,    \* per writer: state, num_records, columns
  file,      \* per writer: row groups that were written
  accepted,  \* per writer: the dissections of the row group's records (history)
  calls

schemavars == <<sid, node, handle, ref_cnt>>
parquetvars == <<schemavars, writer, file, accepted, calls>>

Leaf(c) == Schemas[sid].leaves[c + 1]

\* add_columns and clear_columns.
clear_columns == [c \in 0 .. Len(Schemas[sid].leaves) - 1 |-> EmptyColumn]

NoWriter == [state |-> "none", num_records |-> 0, columns |-> <<>>]

ParquetInit ==
  /\ sid \in DOMAIN Schemas
  /\ node = "open" /\ handle = TRUE /\ ref_cnt = 1
  /\ writer = [w \in Writers |-> NoWriter]
  /\ file = [w \in Writers |-> <<>>] /\ accepted = [w \in Writers |-> <<>>]
  /\ calls = 0

-----------------------------------------------------------------------------
(* Schema.                                                                 *)

\* A second call after a failed one takes a group that has its node for a
\* column and overwrites the union that holds its fields.
Finalize ==
  /\ handle /\ node \in {"open", "partial", "corrupt"}
  /\ node' = CASE node \in {"partial", "corrupt"} -> "corrupt"
               [] Schemas[sid].ok               -> "final"
               [] ~Schemas[sid].ok /\ Schemas[sid].built -> "partial"
               [] OTHER                         -> "open"
  /\ UNCHANGED <<sid, handle, ref_cnt, writer, file, accepted, calls>>

ReleaseAlways == ref_cnt' = ref_cnt - 1 /\ node' = "freed"  \* mutant

\* One owner less; the last one frees the tree.
Release ==
  /\ ref_cnt' = ref_cnt - 1
  /\ node' = IF ref_cnt = 1 THEN "freed" ELSE node

pq_schema_gc ==
  /\ handle
  /\ handle' = FALSE
  /\ Release
  /\ UNCHANGED <<sid, writer, file, accepted, calls>>

\* The destructor walks the tree, and so does a new writer: fields of a corrupt group
\* are where its column number points to, which is nowhere.
SchemaCrash ==
  /\ handle /\ node = "corrupt"
  /\ node' = "crashed" /\ handle' = FALSE /\ ref_cnt' = 0
  /\ UNCHANGED <<sid, writer, file, accepted, calls>>

\* pq_new_writer: the reference is taken before the file may fail to open.
pq_new_writer(w, opened) ==
  /\ handle /\ node = "final" /\ writer[w].state = "none"
  /\ writer' = [writer EXCEPT ![w] = [state |-> IF opened THEN "open" ELSE "failed",
                                      num_records |-> 0, columns |-> clear_columns]]
  /\ ref_cnt' = ref_cnt + 1
  /\ UNCHANGED <<sid, node, handle, file, accepted, calls>>

-----------------------------------------------------------------------------
(* Columns.                                                                *)

\* The columns after one step of a dissection, and after all of them.
Step(columns, num_records, s) ==
  [columns EXCEPT ![s.column] =
     IF s.op = "touch" THEN reset_record(@, num_records)
     ELSE update_levels(AddData(@, Leaf(s.column), s.x), Leaf(s.column), s)]

Applied(columns, num_records, steps) ==
  LET after[k \in 0 .. Len(steps)] ==
        IF k = 0 THEN columns ELSE Step(after[k - 1], num_records, steps[k])
  IN after[Len(steps)]

\* rollback_record: up to the first column the record has not touched.
rollback_record(columns, num_records) ==
  [c \in DOMAIN columns |->
     IF \A b \in 0 .. c : columns[b].rec_num = num_records
     THEN RolledBack(columns[c]) ELSE columns[c]]

\* A dissection: the record is in the columns, or what there is of it goes.
Dissect(w, d) ==
  /\ writer[w].state = "open" /\ calls < MaxCalls
  /\ calls' = calls + 1
  /\ LET num == writer[w].num_records
         after == Applied(writer[w].columns, num, d.steps)
     IN IF d.ok
        THEN /\ writer' = [writer EXCEPT ![w].num_records = num + 1, ![w].columns = after]
             /\ accepted' = [accepted EXCEPT ![w] = Append(@, d)]
        ELSE /\ writer' = [writer EXCEPT ![w].columns = rollback_record(after, num)]
             /\ UNCHANGED accepted
  /\ UNCHANGED <<schemavars, file>>

pq_writer_dissect(w) == \E d \in Schemas[sid].records : Dissect(w, d)

pq_writer_dissect_message(w) == \E d \in Schemas[sid].messages : Dissect(w, d)

-----------------------------------------------------------------------------
(* Row groups.                                                             *)

\* Every column has a start for each record, which the library demands of it.
Aligned(wr) ==
  \A c \in DOMAIN wr.columns : ColumnAligned(wr.columns[c], Leaf(c), wr.num_records)

RowGroup(wr) ==
  Assembly(Schemas[sid], [c \in DOMAIN wr.columns |-> ColumnEntries(wr.columns[c], Leaf(c))],
           wr.num_records)

\* write_rowgroup on writer w, left in the given state: it is written, or the
\* library throws, misaligned columns included; the columns are cleared either way.
write_rowgroup(w, state) ==
  LET wr == writer[w]
      empty == [state |-> state, num_records |-> 0, columns |-> clear_columns]
  IN IF wr.num_records = 0
     THEN /\ writer' = [writer EXCEPT ![w].state = state]
          /\ UNCHANGED <<file, accepted>>
     ELSE /\ writer' = [writer EXCEPT ![w] = empty]
          /\ accepted' = [accepted EXCEPT ![w] = <<>>]
          /\ \/ Aligned(wr) /\ file' = [file EXCEPT ![w] = Append(@, RowGroup(wr))]
             \/ UNCHANGED file

pq_writer_rowgroup(w) ==
  /\ writer[w].state = "open"
  /\ write_rowgroup(w, "open")
  /\ UNCHANGED <<schemavars, calls>>

\* The row group is written or lost; the file writer stays if closing it throws.
pq_writer_close(w) ==
  /\ writer[w].state = "open"
  /\ \E state \in {"open", "closed"} : write_rowgroup(w, state)
  /\ UNCHANGED <<schemavars, calls>>

pq_writer_gc(w) ==
  /\ writer[w].state \in {"open", "failed", "closed"}
  /\ IF writer[w].state = "open" THEN write_rowgroup(w, "gone")
     ELSE /\ writer' = [writer EXCEPT ![w].state = "gone"]
          /\ UNCHANGED <<file, accepted>>
  /\ Release
  /\ UNCHANGED <<sid, handle, calls>>

-----------------------------------------------------------------------------
ParquetNext ==
  \/ Finalize \/ pq_schema_gc \/ SchemaCrash
  \/ \E w \in Writers :
       \/ \E opened \in BOOLEAN : pq_new_writer(w, opened)
       \/ pq_writer_dissect(w) \/ pq_writer_dissect_message(w)
       \/ pq_writer_rowgroup(w) \/ pq_writer_close(w) \/ pq_writer_gc(w)

ParquetSpec == ParquetInit /\ [][ParquetNext]_parquetvars

-----------------------------------------------------------------------------
(* Properties.                                                             *)

\* The accepted records of writer w's row group that gave column c an entry: all of
\* them, but for messages with a field without values (parquet.cpp:1720-1774).
Began(w, c) == {i \in DOMAIN accepted[w] : accepted[w][i].entries[c] # <<>>}

\* Between calls the levels and values of every column agree, and are those of the
\* accepted records that gave it an entry and of no other, whatever was dissected half
\* way and rolled back in between (parquet.cpp:1591-1647, from the counters alone).
ColumnsAligned ==
  \A w \in Writers : writer[w].state = "open" =>
    \A c \in DOMAIN writer[w].columns :
      ColumnAligned(writer[w].columns[c], Leaf(c), Cardinality(Began(w, c)))

\* Unless a corrupt one ended the program, a schema is freed when neither Lua nor a
\* writer holds it, and not before: a writer uses its tree to the end
\* (parquet.cpp:230-290, 1164-1224).
SchemaAlive ==
  LET owners == {w \in Writers : writer[w].state \in {"open", "failed", "closed"}}
  IN node = "crashed" \/ (node = "freed" <=> ~handle /\ owners = {})

\* What dissections mean, and those of the row groups under construction.
Contents(ds) == [i \in DOMAIN ds |-> ds[i].content]

Pending == [w \in Writers |-> Contents(accepted[w])]

\* The writers are RecordFiles: what one writes is what it accepted, as read back
\* from its columns.  No null, element or group is shifted into another record,
\* group or list, and no row group is cut (parquet.cpp:1119-1128, 1447-1588).  A row
\* group with a field without values is given up as a whole.
RF == INSTANCE RecordFile WITH pending <- Pending, file <- file
ImplementsRecordFile == RF!Spec
=============================================================================
