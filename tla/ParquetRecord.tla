---------------------------- MODULE ParquetRecord ----------------------------
(***************************************************************************)
(* parquet/parquet.cpp, the pure part: the levels of a schema and the      *)
(* dissection of a Lua table, or of a Heka message, into entries of its    *)
(* columns.  A schema node is a record [name, kind, rep, lt, fields]; names *)
(* are those of Lua fields.  A Lua value is [t |-> "nil"], a scalar         *)
(* [t |-> "val", x |-> ..], or a table with an array and a hash part,       *)
(* [t |-> "table", arr |-> .., fld |-> ..].  A scalar that does not fit its *)
(* column stands as BAD.                                                   *)
(*                                                                         *)
(* The last section is the reference: what a table means under a schema,   *)
(* and how the entries of one record are put together again.               *)
(***************************************************************************)
EXTENDS ParquetColumn, SequencesExt

CONSTANT BAD   \* a scalar of a type or length its column does not take

Nil == [t |-> "nil"]

Lookup(v, name) == IF name \in DOMAIN v.fld THEN v.fld[name] ELSE Nil

-----------------------------------------------------------------------------
(* build_nested: levels and column numbers, and what finalize refuses.     *)

IsColumn(n) == n.kind = "column"

\* check_mapkv and check_list, on the single field of an annotated group.
check_mapkv(n) ==
  /\ n.rep = "repeated" /\ ~IsColumn(n) /\ n.name = "key_value"
  /\ Len(n.fields) = 2
  /\ n.fields[1].rep = "required" /\ IsColumn(n.fields[1]) /\ n.fields[1].name = "key"
  /\ n.fields[2].rep # "repeated" /\ n.fields[2].name = "value"

check_list(n) ==
  /\ n.rep = "repeated" /\ ~IsColumn(n) /\ n.name = "list"
  /\ Len(n.fields) = 1
  /\ n.fields[1].rep # "repeated" /\ n.fields[1].name = "element"

check_nested(n) ==
  n.lt \in {"map", "list"} =>
    /\ n.rep # "repeated" /\ Len(n.fields) = 1
    /\ IF n.lt = "map" THEN check_mapkv(n.fields[1]) ELSE check_list(n.fields[1])

NextLevel(level, counts) == IF counts THEN level + 1 ELSE level

\* The fields of group n with their levels (rl, dl) and columns, cid being the
\* next free column; columns are numbered depth first.  After an exception
\* "built" tells whether a group already has its node.
RECURSIVE build_nested(_, _, _, _)
build_nested(n, r, d, cid) ==
  FoldLeft(
    LAMBDA acc, f :
      LET cr  == NextLevel(r, f.rep = "repeated")
          cd  == NextLevel(d, f.rep # "required")
          sub == IF IsColumn(f) THEN [fields |-> <<>>, cid |-> acc.cid + 1, ok |-> TRUE,
                                   built |-> FALSE]
                 ELSE build_nested(f, cr, cd, acc.cid)
          node == [name |-> f.name, kind |-> f.kind, rep |-> f.rep, lt |-> f.lt,
                   fields |-> sub.fields, rl |-> cr, dl |-> cd, column |-> acc.cid]
      IN [fields |-> Append(acc.fields, node), cid |-> sub.cid,
          ok |-> acc.ok /\ sub.ok /\ (IsColumn(f) \/ check_nested(f)),
          built |-> acc.built \/ (acc.ok /\ (sub.built \/ (sub.ok /\ ~IsColumn(f))))],
    [fields |-> <<>>, cid |-> cid, ok |-> n.fields # <<>>, built |-> FALSE], n.fields)

\* The columns below a node, in order (add_columns).
RECURSIVE Columns(_)
Columns(n) == IF IsColumn(n) THEN <<n>>
              ELSE FoldLeft(LAMBDA acc, f : acc \o Columns(f), <<>>, n.fields)

-----------------------------------------------------------------------------
(* Dissection.  A result is the list of steps on columns up to the first   *)
(* exception: a column is touched (reset_record) or given an entry.        *)

Nothing   == [ok |-> TRUE, steps |-> <<>>]
Exception == [ok |-> FALSE, steps |-> <<>>]

InOrder(results) ==
  FoldLeft(LAMBDA a, b : IF a.ok THEN [ok |-> b.ok, steps |-> a.steps \o b.steps] ELSE a,
           Nothing, results)

\* reset_record, and the entry of update_levels.
Touch(n) == [ok |-> TRUE, steps |-> <<[op |-> "touch", column |-> n.column]>>]
Entry(n, r, d, x) ==
  [ok |-> TRUE, steps |-> <<[op |-> "add", column |-> n.column, r |-> r, d |-> d, x |-> x]>>]

add_value(n, v, r, d) ==
  IF ~IsColumn(n) \/ v.t # "val" THEN Exception
  ELSE IF v.x = BAD THEN Exception ELSE Entry(n, r, d, v.x)

add_null(n, r, d) ==
  IF n.dl = 0 \/ (n.dl = d /\ n.rep = "required") THEN Exception
  ELSE Entry(n, r, d, NULL)

\* A group that is missing: a null in each of its columns.
RECURSIVE dissect_null(_, _, _)
dissect_null(n, r, d) ==
  IF n.dl = 0 THEN Exception
  ELSE InOrder([i \in DOMAIN n.fields |->
         LET f == n.fields[i]
         IN IF IsColumn(f) THEN InOrder(<<Touch(f), add_null(f, r, d)>>)
            ELSE dissect_null(f, r, d)])

\* The repetition level of the j-th element of a repeated node.
Level(n, j, r) == IF j = 1 THEN r ELSE n.rl

\* The fields of a group, by name or (a tuple) by position.
RECURSIVE dissect_field(_, _, _, _)
dissect_record(n, v, r, d) ==
  InOrder([i \in DOMAIN n.fields |->
             dissect_field(n.fields[i], Lookup(v, n.fields[i].name), r, d)])

dissect_tuple(n, v, r, d) ==
  InOrder([i \in DOMAIN n.fields |->
             dissect_field(n.fields[i], IF i \in DOMAIN v.arr THEN v.arr[i] ELSE Nil, r, d)])

\* The pairs of a table as lua_next meets them: positions of the array, then names.
Pairs(v) ==
  LET names == SetToSeq(DOMAIN v.fld)
      places == SelectSeq([j \in DOMAIN v.arr |-> j], LAMBDA j : v.arr[j].t # "nil")
  IN [j \in DOMAIN places |-> [number |-> TRUE, key |-> places[j], value |-> v.arr[places[j]]]]
     \o [j \in DOMAIN names |-> [number |-> FALSE, key |-> names[j], value |-> v.fld[names[j]]]]

\* Binary columns take names, the others numbers.
Key(n, pair) == [t |-> "val", x |-> IF pair.number = (n.name \in ByRef) THEN BAD ELSE pair.key]

\* The value of each pair before its key.
dissect_map(n, v, r, d) ==
  LET pairs == Pairs(v)
      pair(j) == LET cr == Level(n, j, r)
                 IN InOrder(<<dissect_field(n.fields[2], pairs[j].value, cr, n.dl),
                              add_value(n.fields[1], Key(n.fields[1], pairs[j]), cr,
                                        n.fields[1].dl)>>)
  IN InOrder(<<Touch(n.fields[1]),
               IF pairs = <<>> THEN dissect_null(n, r, d)
               ELSE InOrder([j \in DOMAIN pairs |-> pair(j)])>>)

dissect_list(n, v, r, d) ==
  IF v.arr = <<>> THEN dissect_null(n, r, d)
  ELSE InOrder([j \in DOMAIN v.arr |->
                  dissect_field(n.fields[1], v.arr[j], Level(n, j, r), n.dl)])

\* A table given for group n: an array of groups, or one group.
dissect_group(n, v, r) ==
  IF n.rep = "repeated" /\ v.arr # <<>>
  THEN InOrder([j \in DOMAIN v.arr |->
         IF v.arr[j].t # "table" THEN Exception
         ELSE dissect_record(n, v.arr[j], Level(n, j, r), n.dl)])
  ELSE CASE n.lt = "map"   -> dissect_map(n.fields[1], v, r, n.dl)
         [] n.lt = "list"  -> dissect_list(n.fields[1], v, r, n.dl)
         [] n.lt = "tuple" -> dissect_tuple(n, v, r, n.dl)
         [] OTHER          -> dissect_record(n, v, r, n.dl)

\* A table given for column n: an array of values.
dissect_array(n, v, r, d) ==
  IF n.rep # "repeated" THEN Exception
  ELSE IF v.arr = <<>> THEN add_null(n, r, d)
  ELSE InOrder([j \in DOMAIN v.arr |-> add_value(n, v.arr[j], Level(n, j, r), n.dl)])

dissect_field(n, v, r, d) ==
  IF IsColumn(n)
  THEN InOrder(<<Touch(n), CASE v.t = "table" -> dissect_array(n, v, r, d)
                             [] v.t = "nil"   -> add_null(n, r, d)
                             [] OTHER         -> add_value(n, v, r, n.dl)>>)
  ELSE CASE v.t = "table" -> dissect_group(n, v, r)
         [] v.t = "nil"   -> dissect_null(n, r, d)
         [] OTHER         -> add_value(n, v, r, n.dl)

-----------------------------------------------------------------------------
(* dissect_message: the headers of a Heka message (m.hdr) and its fields   *)
(* (m.fields: name and values, the first of a name counts).                *)

\* One column of the Fields group.  A field that is there without values is found,
\* and gives the column no entry.
dissect_heka_field(n, f, m) ==
  LET same == SelectSeq(m.fields, LAMBDA e : e.name = f.name)
      vals == same[1].values
  IN IF same = <<>> THEN add_null(f, n.rl, n.dl)
     ELSE InOrder([j \in DOMAIN vals |->
            IF j > 1 /\ f.rep # "repeated" THEN Exception
            ELSE add_value(f, vals[j], Level(f, j, 0), f.dl)])

dissect_fields(n, m) ==
  InOrder([i \in DOMAIN n.fields |->
    IF IsColumn(n.fields[i])
    THEN InOrder(<<Touch(n.fields[i]), dissect_heka_field(n, n.fields[i], m)>>)
    ELSE Exception])

\* A header column that is none of the message's is an invalid schema.
dissect_header(n, m) ==
  InOrder(<<Touch(n),
            IF n.name \notin DOMAIN m.hdr THEN Exception
            ELSE IF m.hdr[n.name].t = "nil" THEN add_null(n, 0, 0)
            ELSE add_value(n, m.hdr[n.name], n.rl, n.dl)>>)

dissect_message(root, m) ==
  InOrder([i \in DOMAIN root.fields |->
    LET n == root.fields[i]
    IN CASE IsColumn(n) /\ n.rep # "repeated"        -> dissect_header(n, m)
         [] n.name = "Fields" /\ n.rep # "repeated"  -> dissect_fields(n, m)
         [] OTHER                                    -> Exception])

-----------------------------------------------------------------------------
(* The reference.  The content of a field is the sequence of its           *)
(* instances: none or one, or any number of a repeated one.  An instance   *)
(* of a group is the sequence of the contents of its fields.               *)

RECURSIVE Means(_, _)

\* One instance of group n, made of the table v.
Instance(n, v) ==
  [i \in DOMAIN n.fields |->
     LET f == n.fields[i]
     IN CASE n.lt = "tuple" /\ n.rep # "repeated" ->
               Means(f, IF i \in DOMAIN v.arr THEN v.arr[i] ELSE Nil)
          [] n.lt = "list" -> [j \in DOMAIN v.arr |-> <<Means(f.fields[1], v.arr[j])>>]
          [] n.lt = "map"  ->
               [j \in DOMAIN Pairs(v) |-> <<<<Pairs(v)[j].key>>, Means(f.fields[2], Pairs(v)[j].value)>>]
          [] OTHER -> Means(f, Lookup(v, f.name))]

Means(n, v) ==
  LET group(w) == Instance(n, IF w.t = "nil" THEN [arr |-> <<>>, fld |-> <<>>] ELSE w)
      one(w)   == IF IsColumn(n) THEN w.x ELSE group(w)
  IN CASE v.t = "nil" -> IF n.rep = "required" /\ ~IsColumn(n) THEN <<one(v)>> ELSE <<>>
       [] v.t = "table" /\ n.rep = "repeated" /\ (IsColumn(n) \/ v.arr # <<>>) ->
            [j \in DOMAIN v.arr |-> one(v.arr[j])]
       [] OTHER -> <<one(v)>>

\* A message as the table it stands for: a field without values is missing, and a
\* Fields group that is missing is the group of missing fields.
MessageTable(root, m) ==
  [t |-> "table", arr |-> <<>>, fld |->
    [name \in {root.fields[i].name : i \in DOMAIN root.fields} |->
       IF name # "Fields" THEN m.hdr[name]
       ELSE [t |-> "table", arr |-> <<>>, fld |->
              [g \in {m.fields[i].name : i \in DOMAIN m.fields} |->
                 LET vals == SelectSeq(m.fields, LAMBDA e : e.name = g)[1].values
                 IN CASE vals = <<>>   -> Nil
                      [] Len(vals) = 1 -> vals[1]
                      [] OTHER         -> [t |-> "table", arr |-> vals, fld |-> <<>>]]]]]

\* The entries of a column cut where a new instance at level rl starts.
Pieces(entries, rl) ==
  LET starts == SelectSeq([i \in DOMAIN entries |-> i],
                          LAMBDA i : i = 1 \/ entries[i].r <= rl)
      end(k) == IF k = Len(starts) THEN Len(entries) ELSE starts[k + 1] - 1
  IN [k \in DOMAIN starts |-> SubSeq(entries, starts[k], end(k))]

Piece(entries, rl, k) ==
  LET p == Pieces(entries, rl) IN IF k \in DOMAIN p THEN p[k] ELSE <<>>

\* The content of field n from entries[c], those of each column c below it
\* that belong to one instance of the parent.
RECURSIVE Assembled(_, _)
Assembled(n, entries) ==
  LET lead == entries[Columns(n)[1].column]
      one(es) == IF IsColumn(n) THEN es[n.column][1].x
                 ELSE [i \in DOMAIN n.fields |-> Assembled(n.fields[i], es)]
  IN IF lead = <<>> THEN <<>>
     ELSE IF lead[1].d < n.dl THEN <<>>
     ELSE IF n.rep # "repeated" THEN <<one(entries)>>
     ELSE [k \in DOMAIN Pieces(lead, n.rl) |->
             one([c \in DOMAIN entries |-> Piece(entries[c], n.rl, k)])]
=============================================================================
