--------------------------- MODULE MCParquetWriter ---------------------------
(* Five schemas with records for each: the document of the module's          *)
(* documentation in small (nested repeated groups), a map of lists with a    *)
(* tuple, messages, and two that finalize refuses.                           *)
EXTENDS ParquetFile

Col(name, rep) == [name |-> name, kind |-> "column", rep |-> rep, lt |-> "none", fields |-> <<>>]
Grp(name, rep, lt, fields) ==
  [name |-> name, kind |-> "group", rep |-> rep, lt |-> lt, fields |-> fields]

V(x) == [t |-> "val", x |-> x]
Arr(seq) == [t |-> "table", arr |-> seq, fld |-> <<>>]
Tab(fld) == [t |-> "table", arr |-> <<>>, fld |-> fld]
Vals(seq) == Arr([i \in DOMAIN seq |-> V(seq[i])])

\* Id; Names repeated, with Codes repeated and Url optional.
Doc == Grp("doc", "required", "none",
  <<Col("Id", "required"),
    Grp("Name", "repeated", "none",
        <<Grp("Lang", "repeated", "none", <<Col("Code", "required"), Col("Country", "optional")>>),
          Col("Url", "optional")>>)>>)

Code(c) == Tab([Code |-> V(c)])
DocRecords ==
  {Tab([Id |-> V(1),
        Name |-> Arr(<<Tab([Lang |-> Arr(<<Tab([Code |-> V(2), Country |-> V(3)]), Code(4)>>),
                            Url |-> V(5)]),
                       Tab([Url |-> V(6)]),
                       Tab([Lang |-> Code(7)])>>)]),
   Tab([Id |-> V(2)]),
   Tab([Id |-> V(3), Name |-> Arr(<<>>)]),
   Tab([Id |-> V(4), Name |-> Arr(<<Tab([Lang |-> Arr(<<Code(1), Tab([Country |-> V(2)])>>)])>>)]),
   Tab([Id |-> V(5), Name |-> Arr(<<Tab([Lang |-> Code(3), Url |-> V(BAD)])>>)]),
   Tab([Name |-> Arr(<<>>)])}

\* An optional map from a key to a list, a tuple, and a repeated column.
Map == Grp("nested", "required", "none",
  <<Grp("map", "optional", "map",
        <<Grp("key_value", "repeated", "none",
              <<Col("key", "required"),
                Grp("value", "optional", "list",
                    <<Grp("list", "repeated", "none", <<Col("element", "optional")>>)>>)>>)>>),
    Grp("pair", "optional", "tuple", <<Col("x", "required"), Col("y", "optional")>>),
    Col("many", "repeated")>>)

MapRecords ==
  {Tab([map |-> Tab([a |-> Vals(<<1, 2>>), b |-> Arr(<<>>)]), pair |-> Vals(<<1>>)]),
   Tab([map |-> Tab(<<>>), many |-> Vals(<<1, 2, 3>>)]),
   Tab([map |-> Tab([a |-> Arr(<<Nil, V(3)>>)]), pair |-> Vals(<<1, 2>>), many |-> V(4)]),
   Tab([map |-> Tab([a |-> Vals(<<1>>), b |-> V(2)])]),
   Tab([map |-> Tab([a |-> Vals(<<1, 2>>)]), pair |-> Arr(<<Nil, V(2)>>)]),
   Tab([pair |-> Vals(<<5, 6>>), many |-> Vals(<<7, BAD>>)]),
   Tab([map |-> [t |-> "table", arr |-> <<Nil, Vals(<<1>>)>>, fld |-> [a |-> Vals(<<2>>)]]])}

Heka == Grp("heka", "required", "none",
  <<Col("Type", "required"), Col("Pid", "optional"),
    Grp("Fields", "optional", "none", <<Col("one", "optional"), Col("many", "repeated")>>)>>)

Message(type, pid, fields) == [hdr |-> [Type |-> type, Pid |-> pid], fields |-> fields]
Field(name, vals) == [name |-> name, values |-> [i \in DOMAIN vals |-> V(vals[i])]]
Messages ==
  {Message(V(1), Nil, <<Field("many", <<1, 2>>)>>),
   Message(V(2), V(3), <<Field("one", <<4>>), Field("one", <<5>>)>>),
   Message(Nil, V(1), <<>>),
   Message(V(3), V(1), <<Field("one", <<1, 2>>)>>),
   Message(V(5), Nil, <<Field("one", <<>>), Field("many", <<6>>)>>),
   Message(V(4), Nil, <<Field("one", <<1>>), Field("many", <<2, BAD>>)>>)}

\* A good group before an annotated one without its list.
Bad == Grp("bad", "required", "none",
  <<Grp("good", "optional", "none", <<Col("a", "required")>>),
    Grp("list", "optional", "list", <<Col("element", "optional")>>)>>)

\* The same without a group that is built before the empty one.
Empty == Grp("empty", "required", "none", <<Grp("nested", "optional", "none", <<>>)>>)

Inputs ==
  <<[root |-> Doc,   records |-> DocRecords, messages |-> {}],
    [root |-> Map,   records |-> MapRecords, messages |-> {}],
    [root |-> Heka,  records |-> {},         messages |-> Messages],
    [root |-> Bad,   records |-> {},         messages |-> {}],
    [root |-> Empty, records |-> {},         messages |-> {}]>>

InputSchemas ==
  [s \in DOMAIN Inputs |-> SchemaOf(Inputs[s].root, Inputs[s].records, Inputs[s].messages)]

MCSchemas == InputSchemas

MCByRef == {"Code", "key", "element", "Type", "many"}
=============================================================================
