-------------------------------- MODULE RJson --------------------------------
(***************************************************************************)
(* rjson/rjson.cpp: documents, the handles Lua gets to their values (the   *)
(* addresses of RapidJSON values, kept in refs), and the removal of values *)
(* into a new document or as a value the document owns.  A text is a       *)
(* function from the paths of its values to their kinds.  A value is       *)
(* [id, kind, base, size, chars]: the path it was parsed at, the block of   *)
(* its members, their number, and the buffer its characters are in.        *)
(*                                                                         *)
(* Addresses are Root, <<"slot", block, position>> in the pool of the      *)
(* document, or <<"own", id>> for a value that was removed.  A pool that   *)
(* was cleared gives the same addresses again.  Lua uses a handle only      *)
(* while no removal has moved another value to its address, and none that  *)
(* an iterator found where its container has no member (stray).            *)
(***************************************************************************)
EXTENDS Naturals, Sequences, Functions, FiniteSets

CONSTANTS Docs,        \* userdata
          JsonTexts,   \* set of JSON texts
          MaxParses, MaxRemovals,  \* bounds of the model
          MaxRefs      \* references of a document (bound of the model)

VARIABLES
  doc,       \* per userdata: state, root, pool, refs, owned
  insitu,    \* per userdata: the parse its buffer holds the text of, 0 if none
  stray,     \* per userdata: the rest of its refs, of no member of an iterator's container
  iter,      \* the iterator Lua holds
  latest,    \* per userdata: what each address was last handed out for (history)
  moved,     \* per userdata: addresses a removal has put another value at (history)
  gone,      \* per userdata: what was removed (history)
  text,      \* per userdata: the text its values are from (history)
  parses, removals

history == <<latest, moved, gone, text>>
rjsonVars == <<doc, insitu, stray, iter, history, parses, removals>>

Root == <<"root">>
Null == [id |-> <<0>>, kind |-> "null", base |-> <<>>, size |-> 0, chars |-> <<>>]
NoDoc == [state |-> "none", root |-> Null, pool |-> <<>>, refs |-> <<>>, owned |-> <<>>]
NoIter == [d |-> "none", a |-> Root, kind |-> "array", base |-> <<>>, pos |-> 0, end |-> 0]

RJsonInit ==
  /\ doc = [d \in Docs |-> NoDoc]
  /\ insitu = [d \in Docs |-> 0]
  /\ stray = [d \in Docs |-> {}]
  /\ iter = NoIter
  /\ latest = [d \in Docs |-> <<>>] /\ moved = [d \in Docs |-> {}]
  /\ gone = [d \in Docs |-> {}] /\ text = [d \in Docs |-> <<>>]
  /\ parses = 0 /\ removals = 0

-----------------------------------------------------------------------------
(* Values in memory (RapidJSON).                                           *)

ValueAt(j, a) == CASE a = Root       -> j.root
                   [] a[1] = "own"   -> j.owned[a]
                   [] a[1] = "slot"  -> j.pool[a[2]][a[3]]

PoolSlots(pool) == UNION {{<<"slot", b, i>> : i \in DOMAIN pool[b]} : b \in DOMAIN pool}

\* The addresses of memory in use.
Alive(j) == {Root} \cup DOMAIN j.owned \cup PoolSlots(j.pool)

\* Map f with x for a.
With(f, a, x) == [y \in DOMAIN f \cup {a} |-> IF y = a THEN x ELSE f[y]]

\* j with value v at address a.
Stored(j, a, v) == CASE a = Root      -> [j EXCEPT !.root = v]
                     [] a[1] = "own"  -> [j EXCEPT !.owned[a] = v]
                     [] a[1] = "slot" -> [j EXCEPT !.pool[a[2]][a[3]] = v]

Members(t, p) == {i \in 1 .. 9 : Append(p, i) \in DOMAIN t}

ASSUME TextAssumption ==
  \A t \in JsonTexts :
    /\ t = [p \in DOMAIN t |-> t[p]] /\ <<>> \in DOMAIN t /\ DOMAIN t \subseteq Seq(Nat)
    /\ \A p \in DOMAIN t : \E n \in 0 .. 9 : Members(t, p) = 1 .. n

\* The value at path p of text t; its characters are copied to the pool, or
\* left in buffer n of userdata d when the text is parsed in place.
Parsed(t, p, chars) ==
  [id |-> p, kind |-> t[p], base |-> p, size |-> Cardinality(Members(t, p)),
   chars |-> IF t[p] = "string" THEN chars ELSE <<>>]

Pool(t, chars) ==
  [p \in {q \in DOMAIN t : Members(t, q) # {}} |->
     [i \in Members(t, p) |-> Parsed(t, Append(p, i), chars)]]

\* What SetNull leaves of a document.
NullText == [p \in {<<>>} |-> "null"]

NullRoot == Parsed(NullText, <<>>, <<>>)

\* The values that Accept visits and CopyFrom copies: v, its members, theirs and
\* so on, that is those in every set that has v and is closed under membership.
MembersOf(j, w) == {j.pool[w.base][i] : i \in 1 .. w.size}

Held(j, v) == {v} \cup UNION {Range(j.pool[b]) : b \in DOMAIN j.pool}

Containers(j, v) == {w \in Held(j, v) : w.size > 0 /\ w.base \in DOMAIN j.pool}

Reached(j, v) ==
  LET containers == Containers(j, v)
      Closed(S) == containers \cap ({v} \cup UNION {MembersOf(j, w) : w \in S}) \subseteq S
      closed == {S \in SUBSET containers : Closed(S)}
  IN {w \in containers : \A S \in closed : w \in S}

\* Blocks of the values below v, v included.
Below(j, v) == {w.base : w \in Reached(j, v)}

\* RemoveMember fills the gap with the last member, Erase closes it up (and
\* leaves a copy of the last element behind).
WithoutMember(block, n, i) == [block EXCEPT ![i] = IF i = n THEN Null ELSE block[n], ![n] = Null]
WithoutElement(block, n, i) ==
  [k \in DOMAIN block |-> IF k < i \/ k > n THEN block[k]
                          ELSE IF k < n THEN block[k + 1] ELSE IF i = n THEN Null ELSE block[n]]

-----------------------------------------------------------------------------
(* Parsing.                                                                *)

RefsKept(j) == j.refs  \* mutant: the references are not cleared

RefsCleared(j) == <<>>

\* What parsing into an existing document does first: delete_owned_refs, the
\* pool, the tree.
Cleared(j) ==
  [j EXCEPT !.root = NullRoot, !.pool = <<>>, !.refs = RefsCleared(j), !.owned = <<>>]

Loaded(j, t, chars) ==
  [j EXCEPT !.state = "doc", !.root = Parsed(t, <<>>, chars), !.pool = Pool(t, chars),
            !.refs = With(@, Root, FALSE)]

Forget(d, t) ==
  /\ stray' = [stray EXCEPT ![d] = {}]
  /\ latest' = [latest EXCEPT ![d] = With(<<>>, Root, <<>>)]
  /\ moved' = [moved EXCEPT ![d] = {}]
  /\ gone' = [gone EXCEPT ![d] = {}]
  /\ text' = [text EXCEPT ![d] = t]

MayParse == parses < MaxParses /\ parses' = parses + 1

\* rjson.parse: a document that fails to parse is not returned.
rjson_parse(d, t) ==
  /\ doc[d].state = "none" /\ MayParse
  /\ doc' = [doc EXCEPT ![d] = Loaded(NoDoc, t, <<>>)]
  /\ Forget(d, t)
  /\ UNCHANGED <<insitu, iter, removals>>

\* Parses in the document's own buffer, into which a gzipped text is inflated and
\* any other copied; a text that does not parse leaves a null root.
json_decode(j, t, chars, result) == IF result = "ok" THEN Loaded(j, t, chars) ELSE j

rjson_parse_message(d, t) ==
  /\ doc[d].state = "none" /\ MayParse
  /\ insitu' = [insitu EXCEPT ![d] = parses + 1]
  /\ doc' = [doc EXCEPT ![d] = json_decode(NoDoc, t, <<d, parses + 1>>, "ok")]
  /\ Forget(d, t)
  /\ UNCHANGED <<iter, removals>>

\* The program ends.
Died ==
  /\ doc' = [d \in Docs |-> [NoDoc EXCEPT !.state = "gone"]]
  /\ iter' = NoIter
  /\ UNCHANGED <<insitu, stray, history, parses, removals>>

\* A document that was removed from another has no j->doc to parse into.
NullDocument(d) == doc[d].state = "val" /\ Died

\* doc:parse: a text that does not parse leaves an empty document.
rjson_dparse(d, t, ok) ==
  \/ NullDocument(d)
  \/ /\ doc[d].state = "doc" /\ MayParse
     /\ doc' = [doc EXCEPT ![d] = IF ok THEN Loaded(Cleared(@), t, <<>>) ELSE Cleared(@)]
     /\ Forget(d, IF ok THEN t ELSE NullText)
     /\ UNCHANGED <<insitu, iter, removals>>

\* doc:parse_message: clears the document before it looks for the field, which
\* may be missing ("missing"), fail to inflate half way into the buffer
\* ("inflate"), or not parse ("parse").
rjson_dparse_message(d, t, result) ==
  \/ NullDocument(d)
  \/ /\ doc[d].state = "doc" /\ MayParse
     /\ insitu' = [insitu EXCEPT ![d] = IF result = "missing" THEN @ ELSE parses + 1]
     /\ doc' = [doc EXCEPT ![d] = json_decode(Cleared(@), t, <<d, parses + 1>>, result)]
     /\ Forget(d, IF result = "ok" THEN t ELSE NullText)
     /\ UNCHANGED <<iter, removals>>

-----------------------------------------------------------------------------
(* Handles.                                                                *)

\* check_value: the values a method of the document may be given; without one
\* it takes the root, which need not be in refs.
check_value(d) ==
  {a \in DOMAIN doc[d].refs \cup {Root} : a \notin moved[d]}

InUse(d) == doc[d].state \in {"doc", "val"}

\* The addresses in j->refs.
Refs(d) == DOMAIN doc[d].refs \cup stray[d]

MayRefer(d, a) == a \in Refs(d) \/ Cardinality(Refs(d)) < MaxRefs

HandedOut(d, j, a) ==
  /\ MayRefer(d, a)
  /\ doc' = [doc EXCEPT ![d] = [j EXCEPT !.refs = IF a \in DOMAIN @ THEN @ ELSE With(@, a, FALSE)]]
  /\ stray' = [stray EXCEPT ![d] = @ \ {a}]
  /\ latest' = [latest EXCEPT ![d] = With(@, a, ValueAt(j, a).id)]
  /\ moved' = [moved EXCEPT ![d] = @ \ {a}]
  /\ UNCHANGED <<gone, text, insitu, parses, removals>>

Member(v, i) == <<"slot", v.base, i>>

MembersAt(j, a) == {Member(ValueAt(j, a), i) : i \in 1 .. ValueAt(j, a).size}

\* Without a key it hands out the value it was given.
rjson_find(d, a, b) ==
  /\ b \in {a} \cup MembersAt(doc[d], a)
  /\ HandedOut(d, doc[d], b)
  /\ UNCHANGED iter

(* What Lua and the message writer read of a value: its type, its size, the  *)
(* text of a string (in place: while the buffer holds it), and the values    *)
(* that Accept visits (output_rjson, validate).                              *)

rjson_type(v) == v.kind

rjson_size(v) == CASE v.kind \in {"array", "object"} -> v.size
                   [] v.kind = "string"              -> 1
                   [] OTHER                          -> 0  \* an error

rjson_value(d, v) ==
  IF v.chars = <<>> \/ v.chars = <<d, insitu[d]>> THEN v.id ELSE <<"lost">>

Accept(j, v) ==
  IF v.size = 0 THEN {v} ELSE {v} \cup UNION {MembersOf(j, w) : w \in Reached(j, v)}

\* A field made of a value holds its address, which is looked up when written.
rjson_make_field(d, a) == [value |-> a, userdata |-> d]

output_rjson(field) ==
  LET j == doc[field.userdata]
  IN IF field.value \in DOMAIN j.refs THEN Accept(j, ValueAt(j, field.value)) ELSE {}

rjson_iter(d, a) ==
  LET v == ValueAt(doc[d], a)
  IN /\ v.kind \in {"array", "object"}
     /\ iter' = [d |-> d, a |-> a, kind |-> v.kind, base |-> v.base, pos |-> 1, end |-> v.size]
     /\ UNCHANGED <<doc, insitu, stray, history, parses, removals>>

\* The address an iterator is at: of an object's in the block it began with, of an
\* array's in the block of the value that is there now, whatever it is.
Upcoming(j) ==
  LET v == ValueAt(j, iter.a)
  IN CASE iter.kind = "object"                                         -> <<"slot", iter.base, iter.pos>>
       [] iter.kind = "array" /\ iter.a \in Alive(j) /\ v.kind = "array"  -> Member(v, iter.pos)
       [] OTHER                                                       -> <<"elsewhere">>

\* rjson_object_iter and rjson_array_iter look no further than whether the address
\* of the container is in refs: neither what is there now nor its size is checked.
IterStep(d, a) ==
  /\ iter.pos <= iter.end /\ iter' = [iter EXCEPT !.pos = @ + 1]
  /\ IF iter.a \in check_value(d) /\ a \in MembersAt(doc[d], iter.a)
     THEN HandedOut(d, doc[d], a)
     ELSE /\ MayRefer(d, a)
          /\ stray' = [stray EXCEPT ![d] = @ \cup ({a} \ DOMAIN doc[d].refs)]
          /\ UNCHANGED <<doc, history, insitu, parses, removals>>

IterEnd ==
  /\ iter.pos > iter.end /\ iter' = NoIter
  /\ UNCHANGED <<doc, insitu, stray, history, parses, removals>>

\* The name of a member that was freed is read, which may end the program.
IterNext ==
  /\ iter.d # "none"
  /\ LET d == iter.d
         a == Upcoming(doc[d])
     IN /\ InUse(d) /\ iter.a \in Refs(d)
        /\ \/ IterStep(d, a)
           \/ IterEnd
           \/ iter.pos <= iter.end /\ a \notin Alive(doc[d]) /\ Died

-----------------------------------------------------------------------------
(* Removal.                                                                *)

NotErased(refs, a) == refs  \* mutant

Erased(refs, a) == Restrict(refs, DOMAIN refs \ {a})

\* remove_value: document j without member i of the value at a.
Removed(j, a, i) ==
  LET v == ValueAt(j, a)
      n == v.size
      block == j.pool[v.base]
      cut == [j EXCEPT !.refs = Erased(@, Member(v, i)),
                       !.pool[v.base] = IF v.kind = "array" THEN WithoutElement(block, n, i)
                                        ELSE WithoutMember(block, n, i)]
  IN Stored(cut, a, [v EXCEPT !.size = n - 1])

\* The references whose value was moved by that; that of the member is erased.
MovedBy(j, a, i) ==
  LET v == ValueAt(j, a)
  IN {Member(v, k) : k \in IF v.kind = "array" THEN i + 1 .. v.size ELSE {v.size} \ {i}}

remove_value(d, a, i) ==
  /\ removals < MaxRemovals /\ removals' = removals + 1
  /\ a \in check_value(d)
  /\ i \in 1 .. ValueAt(doc[d], a).size
  /\ stray' = [stray EXCEPT ![d] = @ \ {Member(ValueAt(doc[d], a), i)}]
  /\ UNCHANGED <<insitu, iter, parses>>

FirstBlock(j, v) == {v.base} \cap Below(j, v)  \* mutant: only the value itself

CopiedBlocks(j, v) == Below(j, v)

\* rjson_remove: a deep copy with a pool of its own, except for characters in
\* place, which are not copied.
rjson_remove(d, a, i, new) ==
  /\ remove_value(d, a, i)
  /\ doc[new].state = "none"
  /\ LET j == doc[d]
         rv == ValueAt(j, Member(ValueAt(j, a), i))
     IN /\ doc' = [doc EXCEPT ![d] = Removed(j, a, i),
                              ![new] = [NoDoc EXCEPT !.state = "val", !.root = rv,
                                          !.pool = Restrict(j.pool, CopiedBlocks(j, rv)),
                                          !.refs = With(<<>>, Root, FALSE)]]
        /\ moved' = [moved EXCEPT ![d] = @ \cup MovedBy(j, a, i), ![new] = {}]
        /\ latest' = [latest EXCEPT ![new] = With(<<>>, Root, rv.id)]
        /\ gone' = [gone EXCEPT ![d] = @ \cup {rv.id}, ![new] = gone[d]]
        /\ text' = [text EXCEPT ![new] = text[d]]

rjson_remove_shallow(d, a, i) ==
  /\ remove_value(d, a, i)
  /\ LET j == doc[d]
         rv == ValueAt(j, Member(ValueAt(j, a), i))
         own == <<"own", rv.id>>
         k == Removed(j, a, i)
     IN /\ own \notin DOMAIN j.owned
        /\ doc' = [doc EXCEPT ![d] = [k EXCEPT !.refs = With(@, own, TRUE),
                                               !.owned = With(@, own, rv)]]
        /\ moved' = [moved EXCEPT ![d] = @ \cup MovedBy(j, a, i)]
        /\ latest' = [latest EXCEPT ![d] = With(@, own, rv.id)]
        /\ gone' = [gone EXCEPT ![d] = @ \cup {rv.id}]
  /\ UNCHANGED text

\* rjson_gc: owned values, tree, pool and buffer are freed.
rjson_gc(d) ==
  /\ InUse(d)
  /\ doc' = [doc EXCEPT ![d] = [NoDoc EXCEPT !.state = "gone"]]
  /\ insitu' = [insitu EXCEPT ![d] = 0]
  /\ iter' = IF iter.d = d THEN NoIter ELSE iter
  /\ UNCHANGED <<stray, history, parses, removals>>

-----------------------------------------------------------------------------
OnDocument(d) ==
  \/ \E a \in check_value(d) :
       \/ \E b \in {a} \cup MembersAt(doc[d], a) : rjson_find(d, a, b)
       \/ \E i \in 1 .. ValueAt(doc[d], a).size :
            \/ \E new \in Docs : rjson_remove(d, a, i, new)
            \/ rjson_remove_shallow(d, a, i)
       \/ rjson_iter(d, a)
  \/ \E t \in JsonTexts :
       \/ \E ok \in BOOLEAN : rjson_dparse(d, t, ok)
       \/ \E result \in {"ok", "missing", "inflate", "parse"} : rjson_dparse_message(d, t, result)
  \/ rjson_gc(d)

RJsonNext ==
  \/ \E d \in Docs, t \in JsonTexts : rjson_parse(d, t) \/ rjson_parse_message(d, t)
  \/ \E d \in {e \in Docs : InUse(e)} : OnDocument(d)
  \/ IterNext

RJsonSpec == RJsonInit /\ [][RJsonNext]_rjsonVars

-----------------------------------------------------------------------------
(* Properties.                                                             *)

\* What a document accepts as a value is in memory it has not freed, but for what
\* an iterator found where its container has no member (stray), and it owns exactly
\* the values removed from it that nobody has freed: none is leaked or freed twice,
\* whatever failed in between (rjson.cpp:129-151, 578-582, 635).
RefsAlive ==
  \A d \in Docs : InUse(d) =>
    LET j == doc[d]
    IN /\ DOMAIN j.refs \subseteq Alive(j)
       /\ {a \in DOMAIN j.refs : j.refs[a]} = DOMAIN j.owned

\* An accepted handle names the value it was last handed out for, by an iterator
\* too, unless a removal has moved another one there or it is stray: the handle of
\* a removed value, or of a document parsed again, is refused (rjson.cpp:104, 578,
\* 600; test.lua:252).
HandlesCurrent ==
  \A d \in Docs : InUse(d) =>
    \A a \in DOMAIN doc[d].refs \ moved[d] :
      a \in DOMAIN latest[d] /\ ValueAt(doc[d], a).id = latest[d][a]

\* The members of path p in text t that are left when the paths of set g are gone,
\* and the position in it of the member with path q.
Left(t, g, p) == {Append(p, i) : i \in Members(t, p)} \ g

PositionOf(q) == q[Len(q)]

\* What is written of an accepted value is what its text has there less what was
\* removed, each value once, the elements of arrays in order, in copies too: one
\* removal leaves the others' values alone (rjson.cpp:583-606, 630).  The strings
\* of a parsed document are read from the buffer while it holds the text they
\* were parsed from, after failed parses too (rjson.cpp:884-985).
TreesIntact ==
  \A d \in {e \in Docs : InUse(e)} :
    \A v \in UNION {output_rjson(rjson_make_field(d, a)) : a \in check_value(d)} :
      LET j == doc[d]
          members == [i \in 1 .. v.size |->
                        IF v.base \in DOMAIN j.pool THEN j.pool[v.base][i].id ELSE Null.id]
          left == Left(text[d], gone[d], v.base)
      IN /\ rjson_type(v) = text[d][v.id]
         /\ v.kind \in {"array", "object"} =>
              /\ rjson_size(v) = Cardinality(left) /\ Range(members) = left
              /\ v.kind = "array" =>
                   \A i, k \in 1 .. v.size : i < k => PositionOf(members[i]) < PositionOf(members[k])
         /\ v.kind = "string" /\ j.state = "doc" => rjson_value(d, v) = v.id
=============================================================================
