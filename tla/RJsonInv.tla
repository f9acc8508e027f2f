------------------------------ MODULE RJsonInv ------------------------------
(***************************************************************************)
(* What the proofs about JSON documents say of them: the inductive         *)
(* invariants and the predicates they are made of.                         *)
(*                                                                         *)
(* The documents, for any texts, any number of them and of removals.       *)
(* RJsonOK says that whatever can be reached from the addresses Lua may    *)
(* use is in memory (Rooted), that the references that own their value are *)
(* those of the owned values (RefsOK), and that the others name what they  *)
(* were handed out for (Current). Rooted speaks of a set of addresses      *)
(* closed under membership: a removal keeps it, as the block it writes     *)
(* holds members of that block or nothing, and the addresses of a deep     *)
(* copy are those of the values visited.                                   *)
(*                                                                         *)
(* TreesOK says that below the handles lie trees (Trees): the values at    *)
(* different addresses are different ones of the text, and each has as     *)
(* its members what the text has there less what was removed, those of     *)
(* arrays in order (Intact).                                               *)
(* Each change of a document makes a tree of addresses from one that was   *)
(* there: a removal drops the addresses below the value and shifts those   *)
(* of its block (Shift), a deep copy takes the addresses of the values     *)
(* visited, and parsing makes a new one.                                   *)
(***************************************************************************)
EXTENDS RJson

-----------------------------------------------------------------------------
(* JSON documents.                                                         *)

\* A map.
IsFcn(f) == f = [x \in DOMAIN f |-> f[x]]

\* A value in memory.
IsValue(w) ==
  /\ w = [id |-> w.id, kind |-> w.kind, base |-> w.base, size |-> w.size, chars |-> w.chars]
  /\ w.size \in Nat

\* A document in memory.
IsJson(j) ==
  /\ j = [state |-> j.state, root |-> j.root, pool |-> j.pool,
          refs |-> j.refs, owned |-> j.owned]
  /\ IsValue(j.root)
  /\ IsFcn(j.pool)
  /\ \A b \in DOMAIN j.pool :
       /\ IsFcn(j.pool[b]) /\ DOMAIN j.pool[b] \subseteq Nat
       /\ \A i \in DOMAIN j.pool[b] : IsValue(j.pool[b][i])
  /\ IsFcn(j.owned)
  /\ \A a \in DOMAIN j.owned : IsValue(j.owned[a]) /\ a[1] = "own"
  /\ j.refs \in [DOMAIN j.refs -> BOOLEAN]

\* The members of the values at the addresses S are at addresses in S.
Closed(j, S) ==
  /\ S \subseteq Alive(j)
  /\ \A a \in S : \A i \in 1 .. ValueAt(j, a).size : Member(ValueAt(j, a), i) \in S

Usable(j, mv) == {Root} \cup DOMAIN j.owned \cup (DOMAIN j.refs \ mv)

\* Whatever can be reached from the addresses Lua may use is in memory.
Rooted(j, mv) == \E S : Closed(j, S) /\ Usable(j, mv) \subseteq S

\* The references are in memory; those that own their value are the owned ones.
RefsOK(j) ==
  /\ DOMAIN j.refs \subseteq Alive(j)
  /\ {a \in DOMAIN j.refs : j.refs[a]} = DOMAIN j.owned

\* The references Lua may use name what they were handed out for.
Current(j, mv, lt) ==
  \A a \in DOMAIN j.refs \ mv : a \in DOMAIN lt /\ ValueAt(j, a).id = lt[a]

\* A document Lua may use.
DocOK(j, mv, lt) == IsJson(j) /\ Rooted(j, mv) /\ RefsOK(j) /\ Current(j, mv, lt)

-----------------------------------------------------------------------------
(* Parsing.                                                                *)

\* Document k holds the values of text t, each where its path says.
LoadedOK(k, t, chars) ==
  /\ k.state = "doc" /\ DOMAIN k.refs = {Root} /\ Root \in Alive(k) /\ Closed(k, Alive(k))
  /\ <<>> \in DOMAIN t /\ ValueAt(k, Root) = Parsed(t, <<>>, chars)
  /\ \A p \in DOMAIN t : \A i \in Members(t, p) :
       ValueAt(k, <<"slot", p, i>>) = Parsed(t, Append(p, i), chars)
  /\ \A x \in Alive(k) \ {Root} :
       \E p \in DOMAIN t : \E i \in Members(t, p) : x = <<"slot", p, i>>

-----------------------------------------------------------------------------
(* Removal.                                                                *)

\* Document k is document j without reference m and with another block b of the
\* same size.
Recut(j, k, b, m) ==
  /\ k = [state |-> k.state, root |-> k.root, pool |-> k.pool,
          refs |-> k.refs, owned |-> k.owned]
  /\ k.state = j.state /\ k.root = j.root /\ k.owned = j.owned
  /\ k.refs = Erased(j.refs, m)
  /\ IsFcn(k.pool) /\ DOMAIN k.pool = DOMAIN j.pool
  /\ \A c \in DOMAIN j.pool : c # b => k.pool[c] = j.pool[c]
  /\ IsFcn(k.pool[b]) /\ DOMAIN k.pool[b] = DOMAIN j.pool[b]
  /\ \A y \in DOMAIN k.pool[b] : IsValue(k.pool[b][y])

\* Block block of n members without member i.
Without(isArray, block, n, i) ==
  IF isArray THEN WithoutElement(block, n, i) ELSE WithoutMember(block, n, i)

\* Document k is document j without member i of the value at a.
CutValues(j, a, i, k) ==
  LET v == ValueAt(j, a)
      nb == Without(v.kind = "array", j.pool[v.base], v.size, i)
  IN /\ k.state = j.state /\ Alive(k) = Alive(j)
     /\ DOMAIN k.refs = DOMAIN j.refs \ {Member(v, i)}
     /\ \A x \in Alive(j) :
          ValueAt(k, x) = IF x = a THEN [v EXCEPT !.size = v.size - 1]
                          ELSE IF x[1] = "slot" /\ x[2] = v.base THEN nb[x[3]]
                          ELSE ValueAt(j, x)

\* Document j after member i of the value at a was removed: the addresses Lua may
\* use are closed under membership, before and after.
RemovalOK(j, a, i, mv, lt) ==
  LET k == Removed(j, a, i)
      left == mv \cup MovedBy(j, a, i)
  IN /\ k.state = j.state /\ DOMAIN k.owned = DOMAIN j.owned /\ DocOK(k, left, lt)
     /\ CutValues(j, a, i, k)
     /\ \E S : /\ Closed(j, S) /\ Closed(k, S) /\ Member(ValueAt(j, a), i) \in S
               /\ Usable(k, left) \subseteq S

OwnerOf(j, own, w) == [j EXCEPT !.refs = With(@, own, TRUE), !.owned = With(@, own, w)]

\* Document o is document k with the value w it owns at own.
OwnedOK(k, own, w, o) ==
  /\ o.state = k.state /\ o.root = k.root /\ DOMAIN o.refs = DOMAIN k.refs \cup {own}
  /\ own \notin Alive(k) /\ Alive(o) = Alive(k) \cup {own} /\ ValueAt(o, own) = w
  /\ \A x \in Alive(k) : ValueAt(o, x) = ValueAt(k, x)

CopyOf(j, rv) ==
  [NoDoc EXCEPT !.state = "val", !.root = rv, !.pool = Restrict(j.pool, CopiedBlocks(j, rv)),
                !.refs = With(<<>>, Root, FALSE)]

\* Document k has rv for its root, and the members of what Accept visits where
\* document j has them.
CopyOK(j, S, rv, k) ==
  \E T : /\ Closed(k, T) /\ Root \in T /\ ValueAt(k, Root) = rv
         /\ DOMAIN k.refs = {Root} /\ k.state = "val"
         /\ \A x \in T \ {Root} :
              /\ x \in S /\ ValueAt(k, x) = ValueAt(j, x)
              /\ \E w \in Reached(j, rv) : \E i \in 1 .. w.size : x = Member(w, i)

-----------------------------------------------------------------------------
(* The specification.                                                      *)

\* The iterator is one over a value of a document, whatever became of that.
IterOK ==
  /\ iter = [d |-> iter.d, a |-> iter.a, kind |-> iter.kind, base |-> iter.base,
             pos |-> iter.pos, end |-> iter.end]
  /\ iter.d # "none" => iter.d \in Docs

\* What every step keeps.
RJsonOK ==
  /\ doc = [d \in Docs |-> doc[d]]
  /\ latest = [d \in Docs |-> latest[d]]
  /\ moved = [d \in Docs |-> moved[d]]
  /\ \A d \in Docs : InUse(d) => DocOK(doc[d], moved[d], latest[d])
  /\ IterOK

-----------------------------------------------------------------------------
(* Documents: their values are those of their text.                        *)

\* The texts documents are of.
Texts == JsonTexts \cup {NullText}

\* The path of member i of a value.
MemberId(j, w, i) == ValueAt(j, Member(w, i)).id

InOrder(j, w) ==
  \A i, k \in 1 .. w.size : i < k => PositionOf(MemberId(j, w, i)) < PositionOf(MemberId(j, w, k))

\* A value as its text has it, less what was removed.
Intact(j, t, g, buf, w) ==
  /\ w.id \in DOMAIN t /\ w.base = w.id /\ w.kind = t[w.id]
  /\ {MemberId(j, w, i) : i \in 1 .. w.size} = Left(t, g, w.id)
  /\ w.kind = "array" => InOrder(j, w)
  /\ w.kind = "string" /\ j.state = "doc" => w.chars \in {<<>>, buf}

\* The values at the addresses A are different ones of the text, and intact.
Trees(j, A, t, g, buf) ==
  /\ Closed(j, A)
  /\ \A x, y \in A : ValueAt(j, x).id = ValueAt(j, y).id => x = y
  /\ \A x \in A : Intact(j, t, g, buf, ValueAt(j, x))

\* So are the values at the addresses Lua may use, and those below them.
TreeOK(j, mv, t, g, buf) ==
  /\ t \in Texts
  /\ \E A : Trees(j, A, t, g, buf) /\ DOMAIN j.refs \ mv \subseteq A /\ Root \in A

-----------------------------------------------------------------------------
(* Documents: what a removal does to the trees.                            *)

\* The places the members that are left had before member i of n was removed.
Shift(isArray, n, i) ==
  [y \in 1 .. n - 1 |-> IF isArray THEN (IF y < i THEN y ELSE y + 1) ELSE (IF y = i THEN n ELSE y)]

\* They are all but i, and in order in an array.
ShiftOK(isArray, n, i, s) ==
  /\ \A y \in 1 .. n - 1 : s[y] \in 1 .. n /\ s[y] # i
  /\ \A y, z \in 1 .. n - 1 : s[y] = s[z] => y = z
  /\ \A z \in 1 .. n : z # i => \E y \in 1 .. n - 1 : s[y] = z
  /\ isArray => \A y, z \in 1 .. n - 1 : y < z => s[y] < s[z]

\* The trees at A after the removal of member i of v are those at B, and the one
\* removed.
PrunedOK(j, k, A, B, v, i, t, g, buf) ==
  LET rv == ValueAt(j, Member(v, i))
  IN /\ B = A \ {Member(v, v.size)} /\ Trees(k, B, t, g \cup {rv.id}, buf)
     /\ \A x \in B : ValueAt(k, x).id # rv.id
     /\ Intact(k, t, g \cup {rv.id}, buf, rv) /\ \A y \in 1 .. rv.size : Member(rv, y) \in B

\* The trees before and after the removal of member i of the value at a.
RemovalTrees(j, k, a, i, mv, t, g, buf) ==
  \E A, B : /\ a \in A /\ Trees(j, A, t, g, buf) /\ PrunedOK(j, k, A, B, ValueAt(j, a), i, t, g, buf)
            /\ DOMAIN k.refs \ mv \subseteq B /\ Root \in B

-----------------------------------------------------------------------------
(* Documents: the trees of the specification.                              *)

Buffer(d) == <<d, insitu[d]>>

\* What every step keeps of the trees.
TreesOK ==
  /\ insitu = [d \in Docs |-> insitu[d]]
  /\ text = [d \in Docs |-> text[d]]
  /\ gone = [d \in Docs |-> gone[d]]
  /\ \A d \in Docs : InUse(d) => TreeOK(doc[d], moved[d], text[d], gone[d], Buffer(d))
=============================================================================
