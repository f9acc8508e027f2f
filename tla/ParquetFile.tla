----------------------------- MODULE ParquetFile -----------------------------
(***************************************************************************)
(* Writers and dissection together: what the writers are given are the     *)
(* dissections of ParquetRecord, and their files, read back with the same  *)
(* schema, hold the records that were accepted.                            *)
(***************************************************************************)
EXTENDS ParquetWriter, ParquetRecord

\* What a writer of a schema with these leaves is given: a dissection d, what it
\* gives each column, and what the record means.
Dissection(d, leaves, content) ==
  LET adds(c) == SelectSeq(d.steps, LAMBDA s : s.op = "add" /\ s.column = c)
  IN [ok |-> d.ok, steps |-> d.steps, content |-> content,
      entries |-> [c \in 0 .. Len(leaves) - 1 |->
                     [i \in DOMAIN adds(c) |-> EntryOf(adds(c)[i], leaves[c + 1])]]]

TableResult(root, leaves, v) ==
  LET d == dissect_record(root, v, 0, 0)
  IN Dissection(d, leaves, IF d.ok THEN Instance(root, v) ELSE NULL)

MessageResult(root, leaves, m) ==
  LET d == dissect_message(root, m)
  IN Dissection(d, leaves, IF d.ok THEN Instance(root, MessageTable(root, m)) ELSE NULL)

\* The schema with the given root, finalized, and what its writers are given.
SchemaOf(root, records, messages) ==
  LET built == build_nested(root, 0, 0, 0)
      final == [root EXCEPT !.fields = built.fields]
      leaves == Columns(final)
  IN [ok |-> built.ok, built |-> built.built, root |-> final, leaves |-> leaves,
      records |-> IF built.ok THEN {TableResult(final, leaves, v) : v \in records} ELSE {},
      messages |-> IF built.ok THEN {MessageResult(final, leaves, m) : m \in messages} ELSE {}]

\* The records a reader makes of the entries of a row group.
Read(schema, entries, num_records) ==
  LET row(k) == [c \in DOMAIN entries |-> Piece(entries[c], 0, k)]
      root == schema.root
  IN [k \in 1 .. num_records |->
        [i \in DOMAIN root.fields |-> Assembled(root.fields[i], row(k))]]
=============================================================================
