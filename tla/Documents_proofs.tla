--------------------------- MODULE Documents_proofs ---------------------------
(***************************************************************************)
(* Proofs about JSON documents, for any texts, any number of them and of   *)
(* removals, and about the columns of Parquet writers, for any number of   *)
(* them, any schemas and any dissections that are IsDissection: RJsonInv   *)
(* and ParquetWriterInv state their invariants.                            *)
(***************************************************************************)
EXTENDS RJsonInv, ParquetWriterInv, TLAPS, WellFoundedInduction, FiniteSetTheorems

\* A set of natural numbers that is not empty has a least element.
LEMMA LeastNatural ==
  ASSUME NEW S, S \subseteq Nat, S # {}
  PROVE  \E x \in S : \A y \in S : x <= y
<1> DEFINE R == OpToRel(<, Nat)
<1>1. PICK x \in S : \A y \in S : ~ (<<y, x>> \in R)
  <2>1. IsWellFoundedOn(R, Nat)
    BY NatLessThanWellFounded
  <2> HIDE DEF R
  <2> QED
    BY <2>1, WFMin
<1>2. \A y \in S : x <= y
  <2> SUFFICES ASSUME NEW y \in S PROVE x <= y
    OBVIOUS
  <2>1. x \in Nat /\ y \in Nat
    OBVIOUS
  <2>2. y < x => <<y, x>> \in R
    BY <2>1 DEF OpToRel
  <2> HIDE DEF R
  <2> QED
    BY <1>1, <2>1, <2>2
<1> QED
  BY <1>2

-----------------------------------------------------------------------------
(* JSON documents.                                                         *)

\* A map with one value set.
LEMMA WithFacts ==
  ASSUME NEW f, NEW a, NEW x
  PROVE  /\ IsFcn(With(f, a, x)) /\ DOMAIN With(f, a, x) = DOMAIN f \cup {a}
         /\ With(f, a, x)[a] = x
         /\ \A y \in DOMAIN f : y # a => With(f, a, x)[y] = f[y]
BY DEF With, IsFcn

\* The empty map.
LEMMA EmptyMap == IsFcn(<<>>) /\ DOMAIN <<>> = {}
BY DEF IsFcn

\* Addresses tell what they are the address of.
LEMMA AddressKinds ==
  /\ Root[1] = "root"
  /\ \A b, i : <<"slot", b, i>>[1] = "slot" /\ <<"slot", b, i>>[2] = b /\ <<"slot", b, i>>[3] = i
  /\ \A x : <<"own", x>>[1] = "own"
BY DEF Root

\* The value at an address in memory.
LEMMA ValueFacts ==
  ASSUME NEW j, IsJson(j), NEW a \in Alive(j)
  PROVE  /\ \/ a = Root /\ ValueAt(j, a) = j.root
            \/ a[1] = "own" /\ a \in DOMAIN j.owned /\ ValueAt(j, a) = j.owned[a]
            \/ /\ a = <<"slot", a[2], a[3]>> /\ a[2] \in DOMAIN j.pool
               /\ a[3] \in DOMAIN j.pool[a[2]] /\ ValueAt(j, a) = j.pool[a[2]][a[3]]
         /\ IsValue(ValueAt(j, a))
<1>1. CASE a = Root
  BY <1>1, AddressKinds DEF ValueAt, IsJson
<1>2. CASE a \in DOMAIN j.owned
  <2>1. a[1] = "own" /\ IsValue(j.owned[a])
    BY <1>2 DEF IsJson
  <2>2. ValueAt(j, a) = j.owned[a]
    BY <2>1, AddressKinds DEF ValueAt
  <2> QED
    BY <1>2, <2>1, <2>2
<1>3. CASE a \in PoolSlots(j.pool)
  <2>1. PICK b \in DOMAIN j.pool : \E i \in DOMAIN j.pool[b] : a = <<"slot", b, i>>
    BY <1>3 DEF PoolSlots
  <2>2. PICK i \in DOMAIN j.pool[b] : a = <<"slot", b, i>>
    BY <2>1
  <2>3. a[1] = "slot" /\ a[2] = b /\ a[3] = i
    BY <2>2
  <2>4. a # Root
    BY <2>3, AddressKinds
  <2>5. ValueAt(j, a) = j.pool[a[2]][a[3]]
    BY <2>3, <2>4 DEF ValueAt
  <2>6. IsValue(j.pool[b][i])
    BY <2>1, <2>2 DEF IsJson
  <2> QED
    BY <2>2, <2>3, <2>5, <2>6
<1> QED
  BY <1>1, <1>2, <1>3 DEF Alive

\* The addresses in a pool.
LEMMA SlotAlive ==
  ASSUME NEW j, NEW b, NEW i
  PROVE  <<"slot", b, i>> \in PoolSlots(j.pool) <=> b \in DOMAIN j.pool /\ i \in DOMAIN j.pool[b]
<1>1. ASSUME b \in DOMAIN j.pool, i \in DOMAIN j.pool[b]
      PROVE  <<"slot", b, i>> \in PoolSlots(j.pool)
  BY <1>1 DEF PoolSlots
<1>2. ASSUME <<"slot", b, i>> \in PoolSlots(j.pool)
      PROVE  b \in DOMAIN j.pool /\ i \in DOMAIN j.pool[b]
  <2>1. PICK c \in DOMAIN j.pool : \E k \in DOMAIN j.pool[c] : <<"slot", b, i>> = <<"slot", c, k>>
    BY <1>2 DEF PoolSlots
  <2> QED
    BY <2>1
<1> QED
  BY <1>1, <1>2

-----------------------------------------------------------------------------
(* Parsing.                                                                *)

\* The members of a value of a text are numbered from one.
LEMMA TextFacts ==
  ASSUME NEW t \in JsonTexts, NEW p \in DOMAIN t, NEW chars
  PROVE  LET v == Parsed(t, p, chars)
         IN /\ IsValue(v) /\ v.id = p /\ v.base = p
            /\ Members(t, p) \subseteq Nat /\ Members(t, p) = 1 .. v.size
            /\ \A i \in 1 .. v.size : Append(p, i) \in DOMAIN t
<1>1. PICK n \in 0 .. 9 : Members(t, p) = 1 .. n
  BY TextAssumption
<1>2. Cardinality(1 .. n) = n
  <2>1. Cardinality(1 .. n) = IF 1 <= n THEN n - 1 + 1 ELSE 0
    BY <1>1, FS_Interval
  <2> QED
    BY <1>1, <2>1
<1>3. Parsed(t, p, chars).size = n /\ Parsed(t, p, chars).id = p /\ Parsed(t, p, chars).base = p
  BY <1>1, <1>2 DEF Parsed
<1>4. IsValue(Parsed(t, p, chars))
  <2>1. Cardinality(Members(t, p)) \in Nat
    BY <1>1, <1>2
  <2> QED
    BY <2>1 DEF Parsed, IsValue
<1>5. \A i \in Members(t, p) : Append(p, i) \in DOMAIN t
  BY DEF Members
<1> QED
  BY <1>1, <1>3, <1>4, <1>5

\* What is left of a document whose text did not parse is the value of NullText.
LEMMA NullTextFacts ==
  /\ DOMAIN NullText = {<<>>} /\ Members(NullText, <<>>) = {}
  /\ IsValue(NullRoot) /\ NullRoot.size = 0 /\ NullRoot.id = <<>> /\ NullRoot.base = <<>>
  /\ NullRoot.kind = NullText[<<>>] /\ NullRoot.kind = "null"
<1>1. DOMAIN NullText = {<<>>} /\ NullText[<<>>] = "null"
  BY DEF NullText
<1>2. \A i \in 1 .. 9 : Append(<<>>, i) # <<>>
  OBVIOUS
<1>3. Members(NullText, <<>>) = {}
  BY <1>1, <1>2 DEF Members
<1>4. Cardinality(Members(NullText, <<>>)) = 0
  BY <1>3, FS_EmptySet
<1>5. NullRoot = [id |-> <<>>, kind |-> "null", base |-> <<>>, size |-> 0, chars |-> <<>>]
  BY <1>1, <1>4 DEF NullRoot, Parsed
<1> QED
  BY <1>1, <1>3, <1>5 DEF IsValue

\* An empty document.
LEMMA NoDocFacts ==
  /\ IsJson(NoDoc) /\ DOMAIN NoDoc.refs = {} /\ DOMAIN NoDoc.owned = {}
  /\ IsValue(Null) /\ Null.size = 0
<1>1. IsValue(Null) /\ Null.size = 0
  BY DEF Null, IsValue
<1>2. /\ NoDoc.root = Null /\ NoDoc.pool = <<>> /\ NoDoc.refs = <<>> /\ NoDoc.owned = <<>>
      /\ NoDoc = [state |-> NoDoc.state, root |-> NoDoc.root,
                  pool |-> NoDoc.pool, refs |-> NoDoc.refs, owned |-> NoDoc.owned]
  BY DEF NoDoc
<1>3. <<>> \in [DOMAIN <<>> -> BOOLEAN]
  BY EmptyMap
<1> QED
  BY <1>1, <1>2, <1>3, EmptyMap DEF IsJson

\* What is left of a document before it is parsed again.
LEMMA ClearedFacts ==
  ASSUME NEW j, IsJson(j)
  PROVE  LET k == Cleared(j)
         IN /\ IsJson(k) /\ DOMAIN k.refs = {} /\ DOMAIN k.owned = {}
            /\ k.state = j.state /\ k.root = NullRoot
<1> DEFINE k == Cleared(j)
<1>1. j = [state |-> j.state, root |-> j.root, pool |-> j.pool,
           refs |-> j.refs, owned |-> j.owned]
  BY DEF IsJson
<1> DEFINE none == <<>>
<1>2. k = [state |-> j.state, root |-> NullRoot, pool |-> none, refs |-> none, owned |-> none]
  <2>1. k = [j EXCEPT !.root = NullRoot, !.pool = none, !.refs = none, !.owned = none]
    BY DEF Cleared, RefsCleared
  <2> HIDE DEF none, k
  <2> QED
    BY <1>1, <2>1
<1>3. /\ k.state = j.state /\ k.root = NullRoot /\ k.pool = <<>> /\ k.refs = <<>> /\ k.owned = <<>>
      /\ k = [state |-> k.state, root |-> k.root, pool |-> k.pool,
              refs |-> k.refs, owned |-> k.owned]
  BY <1>2
<1> HIDE DEF k
<1>4. <<>> \in [DOMAIN <<>> -> BOOLEAN]
  BY EmptyMap
<1> QED
  BY <1>3, <1>4, EmptyMap, NullTextFacts DEF IsJson, k

\* Without handles and owned values there is only the root to look at.
LEMMA EmptyOK ==
  ASSUME NEW j, IsJson(j), DOMAIN j.refs = {}, DOMAIN j.owned = {}, j.root = NullRoot,
         NEW mv, NEW lt
  PROVE  DocOK(j, mv, lt)
<1>1. Root \in Alive(j) /\ ValueAt(j, Root) = NullRoot
  <2>1. Root \in Alive(j)
    BY DEF Alive
  <2>2. ValueAt(j, Root) = j.root
    BY AddressKinds DEF ValueAt
  <2> QED
    BY <2>1, <2>2
<1>2. Closed(j, {Root})
  <2>1. \A i \in 1 .. NullRoot.size : FALSE
    BY NullTextFacts
  <2> QED
    BY <1>1, <2>1 DEF Closed
<1>3. Rooted(j, mv)
  BY <1>2 DEF Rooted, Usable
<1> QED
  BY <1>3 DEF DocOK, RefsOK, Current

\* The blocks of a text.
LEMMA PoolFacts ==
  ASSUME NEW t \in JsonTexts, NEW chars
  PROVE  LET pool == Pool(t, chars)
         IN /\ IsFcn(pool)
            /\ DOMAIN pool = {q \in DOMAIN t : Members(t, q) # {}}
            /\ \A b \in DOMAIN pool :
                 /\ IsFcn(pool[b]) /\ DOMAIN pool[b] = Members(t, b)
                 /\ \A i \in Members(t, b) :
                      pool[b][i] = Parsed(t, Append(b, i), chars) /\ Append(b, i) \in DOMAIN t
<1>1. \A b \in DOMAIN t : \A i \in Members(t, b) : Append(b, i) \in DOMAIN t
  BY DEF Members
<1> QED
  BY <1>1 DEF Pool, IsFcn

\* A document that was parsed: all of its values are in its pool.
LEMMA LoadedFacts ==
  ASSUME NEW j, IsJson(j), DOMAIN j.refs = {}, DOMAIN j.owned = {}, NEW t \in JsonTexts, NEW chars
  PROVE  DocOK(Loaded(j, t, chars), {}, With(<<>>, Root, <<>>)) /\ LoadedOK(Loaded(j, t, chars), t, chars)
<1> DEFINE k == Loaded(j, t, chars)
           pool == Pool(t, chars)
           v == Parsed(t, <<>>, chars)
           refs == With(j.refs, Root, FALSE)
<1>1. j = [state |-> j.state, root |-> j.root, pool |-> j.pool,
           refs |-> j.refs, owned |-> j.owned]
  BY DEF IsJson
<1>2. k = [state |-> "doc", root |-> v, pool |-> pool,
           refs |-> refs, owned |-> j.owned]
  <2> HIDE DEF v, pool, refs
  <2>1. Loaded(j, t, chars) = [j EXCEPT !.state = "doc", !.root = v, !.pool = pool, !.refs = refs]
    BY DEF Loaded, v, pool, refs
  <2> QED
    BY <1>1, <2>1
<1> HIDE DEF v, pool, refs
<1>3. /\ k.root = v /\ k.pool = pool /\ k.refs = refs /\ k.owned = j.owned
      /\ k = [state |-> k.state, root |-> k.root, pool |-> k.pool,
              refs |-> k.refs, owned |-> k.owned]
  BY <1>2
<1> HIDE DEF k
<1>4. <<>> \in DOMAIN t
  BY TextAssumption
<1>5. /\ IsValue(v) /\ v.id = <<>> /\ v.base = <<>> /\ Members(t, <<>>) = 1 .. v.size
  BY <1>4, TextFacts DEF v
<1>6. /\ IsFcn(pool) /\ DOMAIN pool = {q \in DOMAIN t : Members(t, q) # {}}
      /\ \A b \in DOMAIN pool :
           /\ IsFcn(pool[b]) /\ DOMAIN pool[b] = Members(t, b)
           /\ \A i \in Members(t, b) :
                pool[b][i] = Parsed(t, Append(b, i), chars) /\ Append(b, i) \in DOMAIN t
  BY PoolFacts DEF pool
<1>7. \A p \in DOMAIN t : LET w == Parsed(t, p, chars)
                          IN /\ IsValue(w) /\ w.base = p /\ Members(t, p) \subseteq Nat
                             /\ Members(t, p) = 1 .. w.size
  BY TextFacts
<1>8. /\ refs \in [DOMAIN refs -> BOOLEAN] /\ DOMAIN refs = {Root} /\ refs[Root] = FALSE
  <2>1. IsFcn(refs) /\ DOMAIN refs = DOMAIN j.refs \cup {Root} /\ refs[Root] = FALSE
    BY DEF refs, With, IsFcn
  <2>2. DOMAIN refs = {Root}
    BY <2>1
  <2> QED
    BY <2>1, <2>2 DEF IsFcn
<1>9. IsJson(k)
  <2>1. \A b \in DOMAIN pool : DOMAIN pool[b] \subseteq Nat
    BY <1>6, <1>7
  <2>2. \A b \in DOMAIN pool : \A i \in DOMAIN pool[b] : IsValue(pool[b][i])
    BY <1>6, <1>7
  <2> QED
    BY <1>3, <1>5, <1>6, <1>8, <2>1, <2>2 DEF IsJson
<1>10. ASSUME NEW p \in DOMAIN t, NEW w, w = Parsed(t, p, chars), NEW i \in 1 .. w.size
       PROVE  Member(w, i) \in Alive(k)
  <2>1. w.base = p /\ Members(t, p) = 1 .. w.size
    BY <1>7, <1>10
  <2>2. p \in DOMAIN pool /\ i \in DOMAIN pool[p]
    BY <1>6, <2>1
  <2> QED
    BY <1>3, <2>1, <2>2, SlotAlive DEF Member, Alive
<1>11. Closed(k, Alive(k))
  <2> SUFFICES ASSUME NEW a \in Alive(k), NEW i \in 1 .. ValueAt(k, a).size
               PROVE  Member(ValueAt(k, a), i) \in Alive(k)
    BY DEF Closed
  <2>1. \E p \in DOMAIN t : ValueAt(k, a) = Parsed(t, p, chars)
    <3>1. CASE a = Root /\ ValueAt(k, a) = k.root
      BY <1>3, <1>4, <3>1 DEF v
    <3>2. CASE a \in DOMAIN k.owned
      BY <1>3, <3>2
    <3>3. CASE /\ a[2] \in DOMAIN k.pool
               /\ a[3] \in DOMAIN k.pool[a[2]] /\ ValueAt(k, a) = k.pool[a[2]][a[3]]
      BY <1>3, <1>6, <3>3
    <3> QED
      BY <1>9, <3>1, <3>2, <3>3, ValueFacts
  <2> QED
    BY <1>10, <2>1
<1>12. Root \in Alive(k) /\ ValueAt(k, Root).id = <<>>
  <2>1. Root \in Alive(k)
    BY DEF Alive
  <2>2. ValueAt(k, Root) = k.root
    BY AddressKinds DEF ValueAt
  <2> QED
    BY <1>3, <1>5, <2>1, <2>2
<1>13. Rooted(k, {})
  <2>1. Usable(k, {}) \subseteq Alive(k)
    BY <1>3, <1>8, <1>12 DEF Usable
  <2> QED
    BY <1>11, <2>1 DEF Rooted
<1>14. RefsOK(k)
  BY <1>3, <1>8, <1>12 DEF RefsOK
<1>15. Current(k, {}, With(<<>>, Root, <<>>))
  <2>1. /\ DOMAIN With(<<>>, Root, <<>>) = DOMAIN <<>> \cup {Root}
        /\ With(<<>>, Root, <<>>)[Root] = <<>>
    BY DEF With
  <2> QED
    BY <1>3, <1>8, <1>12, <2>1 DEF Current
<1>16. LoadedOK(k, t, chars)
  <2>1. k.state = "doc" /\ DOMAIN k.refs = {Root} /\ ValueAt(k, Root) = v
    <3>1. ValueAt(k, Root) = k.root
      BY AddressKinds DEF ValueAt
    <3> QED
      BY <1>2, <1>3, <1>8, <3>1 DEF k
  <2>2. ASSUME NEW p \in DOMAIN t, NEW i \in Members(t, p)
        PROVE  ValueAt(k, <<"slot", p, i>>) = Parsed(t, Append(p, i), chars)
    <3>1. p \in DOMAIN pool
      BY <1>6
    <3>2. ValueAt(k, <<"slot", p, i>>) = k.pool[p][i]
      BY AddressKinds DEF ValueAt
    <3> QED
      BY <1>3, <1>6, <3>1, <3>2
  <2>3. ASSUME NEW x \in Alive(k) \ {Root}
        PROVE  \E p \in DOMAIN t : \E i \in Members(t, p) : x = <<"slot", p, i>>
    <3>1. x \notin DOMAIN k.owned
      BY <1>3
    <3>2. PICK p \in DOMAIN pool : \E i \in DOMAIN pool[p] : x = <<"slot", p, i>>
      BY <1>3, <3>1 DEF Alive, PoolSlots
    <3>3. p \in DOMAIN t /\ DOMAIN pool[p] = Members(t, p)
      BY <1>6
    <3> QED
      BY <3>2, <3>3
  <2> QED
    BY <1>4, <1>11, <1>12, <2>1, <2>2, <2>3 DEF LoadedOK, v
<1> QED
  BY <1>9, <1>13, <1>14, <1>15, <1>16 DEF DocOK, k

-----------------------------------------------------------------------------
(* Handles.                                                                *)

\* Documents with the same values have the same addresses.
LEMMA SameTree ==
  ASSUME NEW j, NEW k, k.root = j.root, k.pool = j.pool, k.owned = j.owned
  PROVE  /\ \A a : ValueAt(k, a) = ValueAt(j, a)
         /\ Alive(k) = Alive(j)
         /\ \A S : Closed(k, S) <=> Closed(j, S)
<1>1. \A a : ValueAt(k, a) = ValueAt(j, a)
  BY DEF ValueAt
<1>2. Alive(k) = Alive(j)
  BY DEF Alive
<1> QED
  BY <1>1, <1>2 DEF Closed

\* The member of a value lies in the value's block.
LEMMA MemberAlive ==
  ASSUME NEW j, IsJson(j), NEW v, NEW i, Member(v, i) \in Alive(j)
  PROVE  v.base \in DOMAIN j.pool /\ i \in DOMAIN j.pool[v.base]
<1>1. Member(v, i)[1] = "slot" /\ Member(v, i) = <<"slot", v.base, i>>
  BY DEF Member
<1>2. Member(v, i) # Root
  BY <1>1, AddressKinds
<1>3. Member(v, i) \notin DOMAIN j.owned
  BY <1>1 DEF IsJson
<1> QED
  BY <1>1, <1>2, <1>3, SlotAlive DEF Alive

\* A handle to a value Lua may use, or to a member of it.
LEMMA HandedOutFacts ==
  ASSUME NEW j, NEW mv, NEW lt, DocOK(j, mv, lt), NEW a0 \in (DOMAIN j.refs \ mv) \cup {Root},
         NEW a \in {a0} \cup MembersAt(j, a0)
  PROVE  DocOK([j EXCEPT !.refs = IF a \in DOMAIN @ THEN @ ELSE With(@, a, FALSE)],
               mv \ {a}, With(lt, a, ValueAt(j, a).id))
<1> DEFINE refs == IF a \in DOMAIN j.refs THEN j.refs ELSE With(j.refs, a, FALSE)
           k == [j EXCEPT !.refs = IF a \in DOMAIN @ THEN @ ELSE With(@, a, FALSE)]
           id == ValueAt(j, a).id
<1>1. j = [state |-> j.state, root |-> j.root, pool |-> j.pool,
           refs |-> j.refs, owned |-> j.owned] /\ IsJson(j)
  BY DEF DocOK, IsJson
<1>2. k = [state |-> j.state, root |-> j.root, pool |-> j.pool,
           refs |-> refs, owned |-> j.owned]
  <2>1. k = [j EXCEPT !.refs = refs]
    OBVIOUS
  <2> HIDE DEF refs, k
  <2> QED
    BY <1>1, <2>1
<1>3. /\ k.root = j.root /\ k.pool = j.pool /\ k.owned = j.owned /\ k.refs = refs
      /\ k = [state |-> k.state, root |-> k.root, pool |-> k.pool,
              refs |-> k.refs, owned |-> k.owned]
  BY <1>2
<1>4. /\ refs \in [DOMAIN refs -> BOOLEAN] /\ DOMAIN refs = DOMAIN j.refs \cup {a}
      /\ \A x \in DOMAIN j.refs : refs[x] = j.refs[x]
      /\ a \notin DOMAIN j.refs => refs[a] = FALSE
  <2>1. j.refs \in [DOMAIN j.refs -> BOOLEAN]
    BY <1>1 DEF IsJson
  <2>2. CASE a \in DOMAIN j.refs
    BY <2>1, <2>2
  <2>3. CASE a \notin DOMAIN j.refs
    BY <2>1, <2>3 DEF With
  <2> QED
    BY <2>2, <2>3
<1> HIDE DEF refs, k
<1>5. PICK S : Closed(j, S) /\ Usable(j, mv) \subseteq S
  BY DEF DocOK, Rooted
<1>6. a \in S /\ a \in Alive(j)
  BY <1>5 DEF Closed, Usable, MembersAt
<1>7. IsJson(k)
  BY <1>1, <1>3, <1>4 DEF IsJson
<1>8. Rooted(k, mv \ {a})
  <2>1. Closed(k, S)
    BY <1>3, <1>5, SameTree
  <2>2. Usable(k, mv \ {a}) \subseteq S
    BY <1>3, <1>4, <1>5, <1>6 DEF Usable
  <2> QED
    BY <2>1, <2>2 DEF Rooted
<1>9. RefsOK(k)
  <2>1. DOMAIN k.refs \subseteq Alive(k)
    BY <1>3, <1>4, <1>6, SameTree DEF DocOK, RefsOK
  <2>2. {x \in DOMAIN k.refs : k.refs[x]} = {x \in DOMAIN j.refs : j.refs[x]}
    BY <1>3, <1>4
  <2> QED
    BY <1>3, <2>1, <2>2 DEF DocOK, RefsOK
<1>10. Current(k, mv \ {a}, With(lt, a, id))
  <2> SUFFICES ASSUME NEW x \in DOMAIN k.refs \ (mv \ {a})
               PROVE  x \in DOMAIN With(lt, a, id) /\ ValueAt(k, x).id = With(lt, a, id)[x]
    BY DEF Current
  <2>1. ValueAt(k, x) = ValueAt(j, x)
    BY <1>3, SameTree
  <2>2. CASE x = a
    <3> HIDE DEF id
    <3>1. With(lt, a, id)[a] = id /\ a \in DOMAIN With(lt, a, id)
      BY DEF With
    <3> QED
      BY <2>1, <2>2, <3>1 DEF id
  <2>3. CASE x # a
    <3>1. x \in DOMAIN lt /\ ValueAt(j, x).id = lt[x]
      BY <1>3, <1>4, <2>3 DEF DocOK, Current
    <3> HIDE DEF id
    <3>2. With(lt, a, id)[x] = lt[x] /\ x \in DOMAIN With(lt, a, id)
      BY <2>3, <3>1 DEF With
    <3> QED
      BY <2>1, <3>1, <3>2
  <2> QED
    BY <2>2, <2>3
<1> QED
  BY <1>7, <1>8, <1>9, <1>10 DEF DocOK, k

-----------------------------------------------------------------------------
(* Removal.                                                                *)

\* The block of a value without its member i: each place holds what it held, or
\* what another member held, or nothing.
LEMMA BlockFacts ==
  ASSUME NEW block, IsFcn(block), DOMAIN block \subseteq Nat, NEW n \in Nat, NEW i \in 1 .. n,
         1 .. n \subseteq DOMAIN block, NEW isArray \in BOOLEAN
  PROVE  LET nb == IF isArray THEN WithoutElement(block, n, i) ELSE WithoutMember(block, n, i)
         IN /\ IsFcn(nb) /\ DOMAIN nb = DOMAIN block
            /\ \A x \in DOMAIN block :
                 \/ nb[x] = block[x]
                 \/ x \in 1 .. n /\ (nb[x] = Null \/ \E y \in 1 .. n : nb[x] = block[y])
            /\ \A x \in DOMAIN block :
                 x # i /\ x \notin (IF isArray THEN i + 1 .. n ELSE {n} \ {i}) => nb[x] = block[x]
<1>1. CASE isArray
  <2> DEFINE nb == WithoutElement(block, n, i)
  <2>1. IsFcn(nb) /\ DOMAIN nb = DOMAIN block
    BY DEF WithoutElement, IsFcn
  <2>2. \A x \in DOMAIN block :
          nb[x] = IF x < i \/ x > n THEN block[x]
                  ELSE IF x < n THEN block[x + 1] ELSE IF i = n THEN Null ELSE block[n]
    BY DEF WithoutElement
  <2> HIDE DEF nb
  <2>3. ASSUME NEW x \in DOMAIN block
        PROVE  /\ \/ nb[x] = block[x]
                  \/ x \in 1 .. n /\ (nb[x] = Null \/ \E y \in 1 .. n : nb[x] = block[y])
               /\ x # i /\ x \notin i + 1 .. n => nb[x] = block[x]
    <3>1. x \in Nat
      OBVIOUS
    <3>2. CASE x < i \/ x > n
      BY <2>2, <3>2
    <3>3. CASE ~(x < i \/ x > n) /\ x < n
      <4>1. nb[x] = block[x + 1] /\ x + 1 \in 1 .. n /\ x \in 1 .. n /\ (x = i \/ x \in i + 1 .. n)
        BY <2>2, <3>1, <3>3
      <4> QED
        BY <4>1
    <3>4. CASE ~(x < i \/ x > n) /\ ~(x < n)
      <4>1. x = n /\ x \in 1 .. n /\ (x = i \/ x \in i + 1 .. n)
        BY <3>1, <3>4
      <4>2. nb[x] = IF i = n THEN Null ELSE block[n]
        BY <2>2, <3>4
      <4> QED
        BY <4>1, <4>2
    <3> QED
      BY <3>2, <3>3, <3>4
  <2> QED
    BY <1>1, <2>1, <2>3 DEF nb
<1>2. CASE ~isArray
  <2> DEFINE nb == WithoutMember(block, n, i)
  <2>0. i \in DOMAIN block /\ n \in DOMAIN block /\ n \in 1 .. n
    OBVIOUS
  <2>1. IsFcn(nb) /\ DOMAIN nb = DOMAIN block
    BY DEF WithoutMember, IsFcn
  <2>2. \A x \in DOMAIN block :
          nb[x] = IF x = n THEN Null ELSE IF x = i THEN block[n] ELSE block[x]
    BY <2>0 DEF WithoutMember
  <2> HIDE DEF nb
  <2>3. ASSUME NEW x \in DOMAIN block
        PROVE  /\ \/ nb[x] = block[x]
                  \/ x \in 1 .. n /\ (nb[x] = Null \/ \E y \in 1 .. n : nb[x] = block[y])
               /\ x # i /\ x \notin {n} \ {i} => nb[x] = block[x]
    BY <2>0, <2>2
  <2> QED
    BY <1>2, <2>1, <2>3 DEF nb
<1> QED
  BY <1>1, <1>2

\* A value put at an address in memory.
LEMMA StoredFacts ==
  ASSUME NEW j, IsJson(j), NEW a \in Alive(j), NEW w, IsValue(w)
  PROVE  LET k == Stored(j, a, w)
         IN /\ IsJson(k) /\ k.state = j.state /\ k.refs = j.refs
            /\ DOMAIN k.owned = DOMAIN j.owned /\ Alive(k) = Alive(j)
            /\ \A x \in Alive(j) : ValueAt(k, x) = IF x = a THEN w ELSE ValueAt(j, x)
<1> DEFINE k == Stored(j, a, w)
<1>1. j = [state |-> j.state, root |-> j.root, pool |-> j.pool,
           refs |-> j.refs, owned |-> j.owned]
  BY DEF IsJson
<1>2. CASE a = Root
  <2>1. k = [j EXCEPT !.root = w]
    BY AddressKinds, <1>2 DEF Stored
  <2> HIDE DEF k
  <2>2. /\ k = [state |-> j.state, root |-> w, pool |-> j.pool,
                refs |-> j.refs, owned |-> j.owned]
    BY <1>1, <2>1
  <2>3. /\ k.state = j.state /\ k.refs = j.refs /\ k.root = w
        /\ k.pool = j.pool /\ k.owned = j.owned
        /\ k = [state |-> k.state, root |-> k.root, pool |-> k.pool,
                refs |-> k.refs, owned |-> k.owned]
    BY <2>2
  <2>4. IsJson(k)
    BY <2>3 DEF IsJson
  <2>5. Alive(k) = Alive(j)
    BY <2>3 DEF Alive
  <2>6. ASSUME NEW x \in Alive(j)
        PROVE  ValueAt(k, x) = IF x = a THEN w ELSE ValueAt(j, x)
    <3>1. CASE x = Root
      BY AddressKinds, <1>2, <2>3, <3>1 DEF ValueAt
    <3>2. CASE x # Root /\ x[1] = "own"
      BY <1>2, <2>3, <3>2 DEF ValueAt
    <3>3. CASE x # Root /\ x[1] # "own"
      <4>1. x = <<"slot", x[2], x[3]>>
        BY <3>3, ValueFacts
      <4>2. x[1] = "slot"
        BY <4>1
      <4> QED
        BY <1>2, <2>3, <3>3, <4>2 DEF ValueAt
    <3> QED
      BY <3>1, <3>2, <3>3
  <2> QED
    BY <2>3, <2>4, <2>5, <2>6 DEF k
<1>3. CASE a # Root /\ a \in DOMAIN j.owned
  <2>1. a[1] = "own"
    BY <1>3 DEF IsJson
  <2> DEFINE owned == [j.owned EXCEPT ![a] = w]
  <2>2. k = [j EXCEPT !.owned = owned]
    BY <1>3, <2>1 DEF Stored
  <2>3. /\ IsFcn(owned) /\ DOMAIN owned = DOMAIN j.owned /\ owned[a] = w
        /\ \A x \in DOMAIN j.owned : x # a => owned[x] = j.owned[x]
    BY <1>3 DEF IsFcn
  <2> HIDE DEF k, owned
  <2>4. k = [state |-> j.state, root |-> j.root, pool |-> j.pool,
             refs |-> j.refs, owned |-> owned]
    BY <1>1, <2>2
  <2>5. /\ k.state = j.state /\ k.refs = j.refs /\ k.root = j.root
        /\ k.pool = j.pool /\ k.owned = owned
        /\ k = [state |-> k.state, root |-> k.root, pool |-> k.pool,
                refs |-> k.refs, owned |-> k.owned]
    BY <2>4
  <2>6. IsJson(k)
    <3>1. \A x \in DOMAIN owned : IsValue(owned[x]) /\ x[1] = "own"
      BY <2>3 DEF IsJson
    <3> QED
      BY <2>3, <2>5, <3>1 DEF IsJson
  <2>7. Alive(k) = Alive(j)
    BY <2>3, <2>5 DEF Alive
  <2>8. ASSUME NEW x \in Alive(j)
        PROVE  ValueAt(k, x) = IF x = a THEN w ELSE ValueAt(j, x)
    <3>1. CASE x = Root
      BY AddressKinds, <1>3, <2>5, <3>1 DEF ValueAt
    <3>2. CASE x # Root /\ x[1] = "own"
      <4>1. x \in DOMAIN j.owned
        BY <3>2, ValueFacts
      <4> QED
        BY <2>3, <2>5, <3>2, <4>1 DEF ValueAt
    <3>3. CASE x # Root /\ x[1] # "own"
      <4>1. x = <<"slot", x[2], x[3]>>
        BY <3>3, ValueFacts
      <4>2. x[1] = "slot" /\ x # a
        BY <2>1, <3>3, <4>1
      <4> QED
        BY <2>5, <3>3, <4>2 DEF ValueAt
    <3> QED
      BY <3>1, <3>2, <3>3
  <2> QED
    BY <2>3, <2>5, <2>6, <2>7, <2>8 DEF k
<1>4. CASE a # Root /\ a \notin DOMAIN j.owned
  <2>1. a \in PoolSlots(j.pool)
    BY <1>4 DEF Alive
  <2>2. PICK b \in DOMAIN j.pool : \E i \in DOMAIN j.pool[b] : a = <<"slot", b, i>>
    BY <2>1 DEF PoolSlots
  <2>3. PICK i \in DOMAIN j.pool[b] : a = <<"slot", b, i>>
    BY <2>2
  <2>4. a[1] = "slot" /\ a[2] = b /\ a[3] = i
    BY <2>3
  <2> DEFINE pool == [j.pool EXCEPT ![b][i] = w]
  <2>5. k = [j EXCEPT !.pool = pool]
    BY <1>4, <2>4 DEF Stored
  <2>6. /\ IsFcn(pool) /\ DOMAIN pool = DOMAIN j.pool
        /\ \A c \in DOMAIN j.pool :
             /\ IsFcn(pool[c]) /\ DOMAIN pool[c] = DOMAIN j.pool[c]
             /\ \A y \in DOMAIN j.pool[c] :
                  pool[c][y] = IF c = b /\ y = i THEN w ELSE j.pool[c][y]
    BY DEF IsJson, IsFcn
  <2> HIDE DEF k, pool
  <2>7. k = [state |-> j.state, root |-> j.root, pool |-> pool,
             refs |-> j.refs, owned |-> j.owned]
    BY <1>1, <2>5
  <2>8. /\ k.state = j.state /\ k.refs = j.refs /\ k.root = j.root
        /\ k.pool = pool /\ k.owned = j.owned
        /\ k = [state |-> k.state, root |-> k.root, pool |-> k.pool,
                refs |-> k.refs, owned |-> k.owned]
    BY <2>7
  <2>9. IsJson(k)
    <3>1. \A c \in DOMAIN pool :
            /\ IsFcn(pool[c]) /\ DOMAIN pool[c] \subseteq Nat
            /\ \A y \in DOMAIN pool[c] : IsValue(pool[c][y])
      BY <2>6 DEF IsJson
    <3> QED
      BY <2>6, <2>8, <3>1 DEF IsJson
  <2>10. Alive(k) = Alive(j)
    <3>1. PoolSlots(pool) = PoolSlots(j.pool)
      BY <2>6 DEF PoolSlots
    <3> QED
      BY <2>8, <3>1 DEF Alive
  <2>11. ASSUME NEW x \in Alive(j)
         PROVE  ValueAt(k, x) = IF x = a THEN w ELSE ValueAt(j, x)
    <3>1. CASE x = Root
      BY AddressKinds, <1>4, <2>8, <3>1 DEF ValueAt
    <3>2. CASE x # Root /\ x[1] = "own"
      BY <2>4, <2>8, <3>2 DEF ValueAt
    <3>3. CASE x # Root /\ x[1] # "own"
      <4>1. x = <<"slot", x[2], x[3]>> /\ x[2] \in DOMAIN j.pool /\ x[3] \in DOMAIN j.pool[x[2]]
        BY <3>3, ValueFacts
      <4>2. x[1] = "slot"
        BY <4>1
      <4>3. ValueAt(k, x) = pool[x[2]][x[3]] /\ ValueAt(j, x) = j.pool[x[2]][x[3]]
        BY <2>8, <3>3, <4>2 DEF ValueAt
      <4>4. x = a <=> (x[2] = b /\ x[3] = i)
        BY <2>3, <2>4, <4>1
      <4> QED
        BY <2>6, <4>1, <4>3, <4>4
    <3> QED
      BY <3>1, <3>2, <3>3
  <2> QED
    BY <2>8, <2>9, <2>10, <2>11 DEF k
<1> QED
  BY <1>2, <1>3, <1>4

\* A block put in the place of another of the same size.
LEMMA CutFacts ==
  ASSUME NEW j, IsJson(j), NEW b \in DOMAIN j.pool, NEW m, NEW k, Recut(j, k, b, m)
  PROVE  /\ IsJson(k) /\ DOMAIN k.refs = DOMAIN j.refs \ {m}
         /\ \A x \in DOMAIN k.refs : k.refs[x] = j.refs[x]
         /\ Alive(k) = Alive(j)
         /\ \A x \in Alive(j) :
              ValueAt(k, x) = IF x[1] = "slot" /\ x[2] = b THEN k.pool[b][x[3]] ELSE ValueAt(j, x)
<1> DEFINE refs == Erased(j.refs, m)
<1>1. /\ refs \in [DOMAIN refs -> BOOLEAN] /\ DOMAIN refs = DOMAIN j.refs \ {m}
      /\ \A x \in DOMAIN refs : refs[x] = j.refs[x]
  <2>1. refs = [x \in DOMAIN j.refs \ {m} |-> j.refs[x]]
    BY DEF Erased, Restrict
  <2>2. j.refs \in [DOMAIN j.refs -> BOOLEAN]
    BY DEF IsJson
  <2> HIDE DEF refs
  <2> QED
    BY <2>1, <2>2
<1> HIDE DEF refs
<1>2. k.refs = refs
  BY DEF refs, Recut
<1>3. IsJson(k)
  <2>1. \A c \in DOMAIN k.pool :
          /\ IsFcn(k.pool[c]) /\ DOMAIN k.pool[c] \subseteq Nat
          /\ \A y \in DOMAIN k.pool[c] : IsValue(k.pool[c][y])
    BY DEF IsJson, Recut
  <2> QED
    BY <1>1, <1>2, <2>1 DEF IsJson, Recut
<1>4. Alive(k) = Alive(j)
  <2>1. PoolSlots(k.pool) = PoolSlots(j.pool)
    BY DEF PoolSlots, Recut
  <2> QED
    BY <2>1 DEF Alive, Recut
<1>5. ASSUME NEW x \in Alive(j)
      PROVE  ValueAt(k, x) = IF x[1] = "slot" /\ x[2] = b THEN k.pool[b][x[3]] ELSE ValueAt(j, x)
  <2>1. CASE x = Root
    <3>1. x[1] # "slot"
      BY <2>1, AddressKinds
    <3> QED
      BY <2>1, <3>1 DEF ValueAt, Recut
  <2>2. CASE x # Root /\ x[1] = "own"
    BY <2>2 DEF ValueAt, Recut
  <2>3. CASE x # Root /\ x[1] # "own"
    <3>1. x = <<"slot", x[2], x[3]>> /\ x[2] \in DOMAIN j.pool
      BY <2>3, ValueFacts
    <3>2. x[1] = "slot"
      BY <3>1
    <3>3. ValueAt(k, x) = k.pool[x[2]][x[3]] /\ ValueAt(j, x) = j.pool[x[2]][x[3]]
      BY <2>3, <3>2 DEF ValueAt, Recut
    <3> QED
      BY <3>1, <3>2, <3>3 DEF Recut
  <2> QED
    BY <2>1, <2>2, <2>3
<1> QED
  BY <1>1, <1>2, <1>3, <1>4, <1>5

\* A document a member was removed from.
LEMMA RemovedFacts ==
  ASSUME NEW j, NEW mv, NEW lt, DocOK(j, mv, lt), NEW a \in (DOMAIN j.refs \ mv) \cup {Root},
         NEW i \in 1 .. ValueAt(j, a).size
  PROVE  RemovalOK(j, a, i, mv, lt)
<1> DEFINE v == ValueAt(j, a)
           n == v.size
           m == Member(v, i)
           block == j.pool[v.base]
           isArray == v.kind = "array"
           nb == IF isArray THEN WithoutElement(block, n, i) ELSE WithoutMember(block, n, i)
           cut == [j EXCEPT !.refs = Erased(@, m), !.pool[v.base] = nb]
           w == [v EXCEPT !.size = n - 1]
           k == Removed(j, a, i)
           others == IF isArray THEN i + 1 .. n ELSE {n} \ {i}
           mv2 == mv \cup MovedBy(j, a, i)
<1>1. k = Stored(cut, a, w)
  BY DEF Removed
<1>2. IsJson(j) /\ a \in Usable(j, mv)
  BY DEF DocOK, Usable
<1>3. PICK S : Closed(j, S) /\ Usable(j, mv) \subseteq S
  BY DEF DocOK, Rooted
<1>4. a \in S /\ a \in Alive(j) /\ IsValue(v) /\ n \in Nat
  <2>1. a \in S /\ a \in Alive(j)
    BY <1>2, <1>3 DEF Closed
  <2>2. IsValue(v)
    BY <1>2, <2>1, ValueFacts
  <2> QED
    BY <2>1, <2>2 DEF IsValue
<1>5. \A y \in 1 .. n : Member(v, y) \in S /\ v.base \in DOMAIN j.pool /\ y \in DOMAIN block
  <2> HIDE DEF v
  <2> TAKE y \in 1 .. n
  <2>1. Member(v, y) \in S /\ Member(v, y) \in Alive(j)
    BY <1>3, <1>4 DEF Closed, v
  <2> QED
    BY <1>2, <2>1, MemberAlive
<1>6. /\ v.base \in DOMAIN j.pool /\ IsFcn(block) /\ DOMAIN block \subseteq Nat
      /\ \A y \in DOMAIN block : IsValue(block[y])
  BY <1>2, <1>5 DEF IsJson
<1>7. others = (IF isArray THEN i + 1 .. n ELSE {n} \ {i}) /\ isArray \in BOOLEAN
  OBVIOUS
<1>8. MovedBy(j, a, i) = {Member(v, y) : y \in others}
  BY DEF MovedBy
<1> HIDE DEF v, n, isArray, block
<1>9. /\ IsFcn(nb) /\ DOMAIN nb = DOMAIN block
      /\ \A x \in DOMAIN block :
           \/ nb[x] = block[x]
           \/ x \in 1 .. n /\ (nb[x] = Null \/ \E y \in 1 .. n : nb[x] = block[y])
      /\ \A x \in DOMAIN block : x # i /\ x \notin others => nb[x] = block[x]
  <2>1. i \in 1 .. n /\ 1 .. n \subseteq DOMAIN block
    BY <1>5 DEF n, v
  <2> QED
    BY <1>4, <1>6, <1>7, <2>1, BlockFacts
<1> HIDE DEF nb, w, others, m
<1>10. \A y \in DOMAIN nb : IsValue(nb[y])
  BY <1>5, <1>6, <1>9, NoDocFacts
<1>11. /\ IsJson(cut) /\ cut.state = j.state
       /\ DOMAIN cut.refs = DOMAIN j.refs \ {m}
       /\ \A x \in DOMAIN cut.refs : cut.refs[x] = j.refs[x]
       /\ DOMAIN cut.owned = DOMAIN j.owned /\ Alive(cut) = Alive(j)
       /\ \A x \in Alive(j) :
            ValueAt(cut, x) = IF x[1] = "slot" /\ x[2] = v.base THEN nb[x[3]] ELSE ValueAt(j, x)
  <2> DEFINE b == v.base
             refs == Erased(j.refs, m)
             pool == [j.pool EXCEPT ![b] = nb]
  <2>1. b \in DOMAIN j.pool /\ DOMAIN nb = DOMAIN j.pool[b]
    BY <1>6, <1>9 DEF block
  <2>2. cut = [j EXCEPT !.refs = refs, !.pool = pool]
    OBVIOUS
  <2>3. j = [state |-> j.state, root |-> j.root, pool |-> j.pool,
             refs |-> j.refs, owned |-> j.owned]
    BY <1>2 DEF IsJson
  <2>4. /\ IsFcn(pool) /\ DOMAIN pool = DOMAIN j.pool /\ pool[b] = nb
        /\ \A c \in DOMAIN j.pool : c # b => pool[c] = j.pool[c]
    BY <1>2, <2>1 DEF IsJson, IsFcn
  <2> HIDE DEF cut, b, refs, pool
  <2>5. cut = [state |-> j.state, root |-> j.root, pool |-> pool,
               refs |-> refs, owned |-> j.owned]
    BY <2>2, <2>3
  <2>6. /\ cut = [state |-> cut.state, root |-> cut.root, pool |-> cut.pool,
                  refs |-> cut.refs, owned |-> cut.owned]
        /\ cut.state = j.state /\ cut.root = j.root
        /\ cut.owned = j.owned /\ cut.pool = pool /\ cut.refs = Erased(j.refs, m)
    BY <2>5 DEF refs
  <2>7. /\ cut.pool[b] = nb /\ IsFcn(cut.pool) /\ DOMAIN cut.pool = DOMAIN j.pool
        /\ \A c \in DOMAIN j.pool : c # b => cut.pool[c] = j.pool[c]
        /\ IsFcn(cut.pool[b]) /\ DOMAIN cut.pool[b] = DOMAIN j.pool[b]
        /\ \A y \in DOMAIN cut.pool[b] : IsValue(cut.pool[b][y])
    BY <1>9, <1>10, <2>1, <2>4, <2>6
  <2>8. /\ IsJson(cut) /\ DOMAIN cut.refs = DOMAIN j.refs \ {m}
        /\ \A x \in DOMAIN cut.refs : cut.refs[x] = j.refs[x]
        /\ Alive(cut) = Alive(j)
        /\ \A x \in Alive(j) : ValueAt(cut, x) = IF x[1] = "slot" /\ x[2] = b
                                                THEN cut.pool[b][x[3]] ELSE ValueAt(j, x)
    <3>1. Recut(j, cut, b, m)
      BY <2>6, <2>7 DEF Recut
    <3> QED
      BY <1>2, <2>1, <3>1, CutFacts
  <2> QED
    BY <2>6, <2>7, <2>8 DEF b
<1> HIDE DEF cut, k
<1>12. IsValue(w) /\ w.id = v.id /\ w.base = v.base /\ w.size = n - 1
  <2>1. i \in 1 .. n
    BY DEF n, v
  <2>2. v = [id |-> v.id, kind |-> v.kind, base |-> v.base, size |-> v.size, chars |-> v.chars]
    BY <1>4 DEF IsValue
  <2> DEFINE less == n - 1
  <2>3. less \in Nat
    BY <1>4, <2>1
  <2>4. w = [v EXCEPT !.size = less]
    BY DEF w
  <2> HIDE DEF less
  <2>5. w = [id |-> v.id, kind |-> v.kind, base |-> v.base, size |-> less, chars |-> v.chars]
    BY <2>2, <2>4
  <2> QED
    BY <2>3, <2>5 DEF IsValue, less
<1>13. /\ IsJson(k) /\ k.state = cut.state /\ k.refs = cut.refs
       /\ DOMAIN k.owned = DOMAIN cut.owned /\ Alive(k) = Alive(cut)
       /\ \A x \in Alive(cut) : ValueAt(k, x) = IF x = a THEN w ELSE ValueAt(cut, x)
  BY <1>1, <1>4, <1>11, <1>12, StoredFacts
<1>14. ASSUME NEW x \in S
       PROVE  \/ x = a /\ ValueAt(k, x) = w
              \/ ValueAt(k, x) = Null
              \/ \E y \in S : ValueAt(k, x) = ValueAt(j, y)
  <2>1. x \in Alive(j)
    BY <1>3 DEF Closed
  <2>2. CASE x = a
    BY <1>11, <1>13, <2>1, <2>2
  <2>3. CASE x # a /\ ~(x[1] = "slot" /\ x[2] = v.base)
    BY <1>11, <1>13, <2>1, <2>3
  <2>4. CASE x # a /\ x[1] = "slot" /\ x[2] = v.base
    <3>1. ValueAt(k, x) = nb[x[3]]
      BY <1>11, <1>13, <2>1, <2>4
    <3>2. x[3] \in DOMAIN block /\ ValueAt(j, x) = block[x[3]]
      BY <1>2, <2>1, <2>4, ValueFacts, AddressKinds DEF block
    <3>3. CASE nb[x[3]] = block[x[3]]
      BY <3>1, <3>2, <3>3
    <3>4. CASE nb[x[3]] = Null
      BY <3>1, <3>4
    <3>5. CASE \E y \in 1 .. n : nb[x[3]] = block[y]
      <4>1. PICK y \in 1 .. n : nb[x[3]] = block[y]
        BY <3>5
      <4>2. Member(v, y) \in S /\ ValueAt(j, Member(v, y)) = block[y]
        BY <1>5, AddressKinds DEF Member, ValueAt, block
      <4> QED
        BY <3>1, <4>1, <4>2
    <3> QED
      BY <1>9, <3>2, <3>3, <3>4, <3>5
  <2> QED
    BY <2>2, <2>3, <2>4
<1>15. Closed(k, S)
  <2>1. S \subseteq Alive(k)
    BY <1>3, <1>11, <1>13 DEF Closed
  <2>2. ASSUME NEW x \in S, NEW y \in 1 .. ValueAt(k, x).size
        PROVE  Member(ValueAt(k, x), y) \in S
    <3>1. CASE ValueAt(k, x) = w
      <4>1. y \in 1 .. n
        BY <1>4, <1>12, <2>2, <3>1
      <4>2. Member(v, y) = Member(w, y)
        BY <1>12 DEF Member
      <4> QED
        BY <1>5, <3>1, <4>1, <4>2
    <3>2. CASE ValueAt(k, x) = Null
      BY <2>2, <3>2, NoDocFacts
    <3>3. CASE \E z \in S : ValueAt(k, x) = ValueAt(j, z)
      BY <1>3, <2>2, <3>3 DEF Closed
    <3> QED
      BY <1>14, <3>1, <3>2, <3>3
  <2> QED
    BY <2>1, <2>2 DEF Closed
<1>16. m \in S
  BY <1>5 DEF m, n, v
<1>17. Usable(k, mv2) \subseteq S
  BY <1>3, <1>11, <1>13 DEF Usable
<1>18. RefsOK(k)
  <2>1. DOMAIN k.refs \subseteq Alive(k)
    BY <1>11, <1>13 DEF DocOK, RefsOK
  <2>2. {x \in DOMAIN j.refs : j.refs[x]} = DOMAIN j.owned
    BY DEF DocOK, RefsOK
  <2>3. m \notin DOMAIN j.owned
    <3>1. m[1] = "slot"
      BY DEF m, Member
    <3> QED
      BY <1>2, <3>1 DEF IsJson
  <2>4. {x \in DOMAIN k.refs : k.refs[x]} = {x \in DOMAIN j.refs : j.refs[x]}
    BY <1>11, <1>13, <2>2, <2>3
  <2> QED
    BY <1>11, <1>13, <2>1, <2>2, <2>4 DEF RefsOK
<1>19. Current(k, mv2, lt)
  <2> SUFFICES ASSUME NEW x \in DOMAIN k.refs \ mv2
               PROVE  x \in DOMAIN lt /\ ValueAt(k, x).id = lt[x]
    BY DEF Current
  <2>1. x \in DOMAIN j.refs \ mv /\ x # m
    BY <1>11, <1>13
  <2>2. x \in DOMAIN lt /\ ValueAt(j, x).id = lt[x] /\ x \in Alive(j)
    BY <2>1 DEF DocOK, Current, RefsOK
  <2>3. CASE x = a
    BY <1>11, <1>12, <1>13, <2>2, <2>3 DEF v
  <2>4. CASE x # a /\ ~(x[1] = "slot" /\ x[2] = v.base)
    BY <1>11, <1>13, <2>2, <2>4
  <2>5. CASE x # a /\ x[1] = "slot" /\ x[2] = v.base
    <3>1. ValueAt(k, x) = nb[x[3]]
      BY <1>11, <1>13, <2>2, <2>5
    <3>2. /\ x[3] \in DOMAIN block /\ ValueAt(j, x) = block[x[3]]
          /\ x = Member(v, x[3])
      BY <1>2, <2>2, <2>5, ValueFacts, AddressKinds DEF block, Member
    <3>3. x[3] # i /\ x[3] \notin others
      BY <1>8, <2>1, <3>2 DEF m
    <3> QED
      BY <1>9, <2>2, <3>1, <3>2, <3>3
  <2> QED
    BY <2>3, <2>4, <2>5
<1>20. DocOK(k, mv2, lt)
  BY <1>13, <1>15, <1>17, <1>18, <1>19 DEF DocOK, Rooted
<1>21. CutValues(j, a, i, k)
  <2>1. nb = Without(v.kind = "array", j.pool[v.base], v.size, i)
    BY DEF Without, nb, isArray, block, n
  <2>2. w = [v EXCEPT !.size = v.size - 1] /\ m = Member(v, i)
    BY DEF w, n, m
  <2>3. /\ k.state = j.state /\ Alive(k) = Alive(j) /\ DOMAIN k.refs = DOMAIN j.refs \ {m}
        /\ \A x \in Alive(j) : ValueAt(k, x) = IF x = a THEN w
                                               ELSE IF x[1] = "slot" /\ x[2] = v.base THEN nb[x[3]]
                                               ELSE ValueAt(j, x)
    BY <1>11, <1>13
  <2> HIDE DEF nb, w, m
  <2> QED
    BY <2>1, <2>2, <2>3 DEF CutValues, v
<1> QED
  BY <1>3, <1>11, <1>13, <1>15, <1>16, <1>17, <1>20, <1>21 DEF k, m, v, RemovalOK

\* A value taken out of a document, which then owns it.
LEMMA OwnedFacts ==
  ASSUME NEW j, NEW mv, NEW lt, DocOK(j, mv, lt),
         NEW S, Closed(j, S), Usable(j, mv) \subseteq S,
         NEW w, IsValue(w), \A y \in 1 .. w.size : Member(w, y) \in S,
         NEW own, own[1] = "own", own \notin DOMAIN j.owned
  PROVE  DocOK(OwnerOf(j, own, w), mv, With(lt, own, w.id)) /\ OwnedOK(j, own, w, OwnerOf(j, own, w))
<1> DEFINE refs == With(j.refs, own, TRUE)
           owned == With(j.owned, own, w)
           k == OwnerOf(j, own, w)
           id == w.id
<1>1. IsJson(j) /\ j = [state |-> j.state, root |-> j.root, pool |-> j.pool,
                        refs |-> j.refs, owned |-> j.owned]
  BY DEF DocOK, IsJson
<1>2. k = [j EXCEPT !.refs = refs, !.owned = owned]
  BY DEF OwnerOf
<1>3. /\ refs \in [DOMAIN refs -> BOOLEAN] /\ DOMAIN refs = DOMAIN j.refs \cup {own}
      /\ refs[own] = TRUE /\ \A x \in DOMAIN j.refs : x # own => refs[x] = j.refs[x]
  <2>1. j.refs \in [DOMAIN j.refs -> BOOLEAN]
    BY <1>1 DEF IsJson
  <2> QED
    BY <2>1 DEF With
<1>4. /\ IsFcn(owned) /\ DOMAIN owned = DOMAIN j.owned \cup {own} /\ owned[own] = w
      /\ \A x \in DOMAIN j.owned : owned[x] = j.owned[x]
  BY DEF With, IsFcn
<1> HIDE DEF refs, owned, k, id
<1>5. k = [state |-> j.state, root |-> j.root, pool |-> j.pool,
           refs |-> refs, owned |-> owned]
  BY <1>1, <1>2
<1>6. /\ k = [state |-> k.state, root |-> k.root, pool |-> k.pool,
              refs |-> k.refs, owned |-> k.owned]
      /\ k.root = j.root /\ k.pool = j.pool /\ k.refs = refs /\ k.owned = owned
  BY <1>5
<1>7. IsJson(k)
  <2>1. \A x \in DOMAIN owned : IsValue(owned[x]) /\ x[1] = "own"
    BY <1>1, <1>4 DEF IsJson
  <2> QED
    BY <1>1, <1>3, <1>4, <1>6, <2>1 DEF IsJson
<1>8. Alive(k) = Alive(j) \cup {own}
  BY <1>4, <1>6 DEF Alive
<1>9. own \notin Alive(j)
  <2>1. own # Root
    BY AddressKinds
  <2>2. own \notin PoolSlots(j.pool)
    BY DEF PoolSlots
  <2> QED
    BY <2>1, <2>2 DEF Alive
<1>10. ValueAt(k, own) = w /\ \A x \in Alive(j) : ValueAt(k, x) = ValueAt(j, x)
  <2>1. ValueAt(k, own) = w
    <3>1. own # Root
      BY AddressKinds
    <3> QED
      BY <1>4, <1>6, <3>1 DEF ValueAt
  <2>2. ASSUME NEW x \in Alive(j)
        PROVE  ValueAt(k, x) = ValueAt(j, x)
    <3>1. CASE x = Root
      BY <1>6, <3>1 DEF ValueAt
    <3>2. CASE x # Root /\ x[1] = "own"
      <4>1. x \in DOMAIN j.owned
        BY <1>1, <3>2, ValueFacts
      <4> QED
        BY <1>4, <1>6, <3>2, <4>1 DEF ValueAt
    <3>3. CASE x # Root /\ x[1] # "own"
      <4>1. x = <<"slot", x[2], x[3]>>
        BY <1>1, <3>3, ValueFacts
      <4>2. x[1] = "slot"
        BY <4>1
      <4> QED
        BY <1>6, <3>3, <4>2 DEF ValueAt
    <3> QED
      BY <3>1, <3>2, <3>3
  <2> QED
    BY <2>1, <2>2
<1>11. Rooted(k, mv)
  <2>1. Closed(k, S \cup {own})
    BY <1>8, <1>10 DEF Closed
  <2>2. Usable(k, mv) \subseteq S \cup {own}
    BY <1>3, <1>4, <1>6 DEF Usable
  <2> QED
    BY <2>1, <2>2 DEF Rooted
<1>12. RefsOK(k)
  <2>1. DOMAIN j.refs \subseteq Alive(j) /\ {x \in DOMAIN j.refs : j.refs[x]} = DOMAIN j.owned
    BY DEF DocOK, RefsOK
  <2>2. {x \in DOMAIN refs : refs[x]} = {x \in DOMAIN j.refs : j.refs[x]} \cup {own}
    BY <1>3, <1>9, <2>1
  <2> QED
    BY <1>3, <1>4, <1>6, <1>8, <2>1, <2>2 DEF RefsOK
<1>13. Current(k, mv, With(lt, own, id))
  <2> SUFFICES ASSUME NEW x \in DOMAIN k.refs \ mv
               PROVE  x \in DOMAIN With(lt, own, id) /\ ValueAt(k, x).id = With(lt, own, id)[x]
    BY DEF Current
  <2>1. CASE x = own
    BY <1>10, <2>1 DEF With, id
  <2>2. CASE x # own
    <3>1. x \in DOMAIN j.refs \ mv
      BY <1>3, <1>6, <2>2
    <3>2. x \in DOMAIN lt /\ ValueAt(j, x).id = lt[x] /\ x \in Alive(j)
      BY <3>1 DEF DocOK, Current, RefsOK
    <3> QED
      BY <1>10, <2>2, <3>2 DEF With
  <2> QED
    BY <2>1, <2>2
<1>14. OwnedOK(j, own, w, k)
  BY <1>3, <1>5, <1>6, <1>8, <1>9, <1>10 DEF OwnedOK
<1> QED
  BY <1>7, <1>11, <1>12, <1>13, <1>14 DEF DocOK, k, id

\* Every value Accept visits is at one of the addresses that hold the members.
LEMMA ReachedFacts ==
  ASSUME NEW j, IsJson(j), NEW S, Closed(j, S), NEW m \in S, NEW rv, rv = ValueAt(j, m)
  PROVE  /\ rv.size > 0 => rv \in Reached(j, rv)
         /\ \A w \in Reached(j, rv) : \A i \in 1 .. w.size :
              /\ Member(w, i) \in S /\ ValueAt(j, Member(w, i)) = j.pool[w.base][i]
              /\ w.base \in DOMAIN j.pool /\ i \in DOMAIN j.pool[w.base]
              /\ LET x == j.pool[w.base][i] IN x.size > 0 => x \in Reached(j, rv)
<1> DEFINE C == Containers(j, rv)
           IsClosed(T) == C \cap ({rv} \cup UNION {MembersOf(j, w) : w \in T}) \subseteq T
           R == Reached(j, rv)
           T0 == {w \in C : \E x \in S : ValueAt(j, x) = w}
<1>1. R = {w \in C : \A T \in SUBSET C : IsClosed(T) => w \in T}
  BY DEF Reached
<1> HIDE DEF C, R
<1>2. ASSUME NEW x \in S, ValueAt(j, x).size > 0
      PROVE  /\ ValueAt(j, x).base \in DOMAIN j.pool
             /\ \A i \in 1 .. ValueAt(j, x).size :
                  /\ Member(ValueAt(j, x), i) \in S
                  /\ i \in DOMAIN j.pool[ValueAt(j, x).base]
                  /\ ValueAt(j, Member(ValueAt(j, x), i)) = j.pool[ValueAt(j, x).base][i]
  <2>1. IsValue(ValueAt(j, x))
    BY ValueFacts DEF Closed
  <2>2. 1 \in 1 .. ValueAt(j, x).size
    BY <1>2, <2>1 DEF IsValue
  <2> DEFINE v == ValueAt(j, x)
  <2> HIDE DEF v
  <2>3. \A i \in 1 .. v.size : Member(v, i) \in S /\ Member(v, i) \in Alive(j)
    BY DEF Closed, v
  <2>4. \A i \in 1 .. v.size : v.base \in DOMAIN j.pool /\ i \in DOMAIN j.pool[v.base]
    BY <2>3, MemberAlive
  <2>5. \A i \in 1 .. v.size : ValueAt(j, Member(v, i)) = j.pool[v.base][i]
    BY AddressKinds DEF Member, ValueAt
  <2> QED
    BY <2>2, <2>3, <2>4, <2>5 DEF v
<1>3. \A w : w \in C <=> w \in Held(j, rv) /\ w.size > 0 /\ w.base \in DOMAIN j.pool
  BY DEF Containers, C
<1>4. rv \in Held(j, rv)
  BY DEF Held
<1>5. rv.size > 0 => rv \in C
  BY <1>2, <1>3, <1>4
<1>6. IsClosed(T0)
  <2> SUFFICES ASSUME NEW w \in C, w = rv \/ \E u \in T0 : w \in MembersOf(j, u)
               PROVE  w \in T0
    OBVIOUS
  <2>1. CASE w = rv
    BY <2>1
  <2>2. CASE \E u \in T0 : w \in MembersOf(j, u)
    <3>1. PICK u \in T0 : w \in MembersOf(j, u)
      BY <2>2
    <3>2. PICK i \in 1 .. u.size : w = j.pool[u.base][i]
      BY <3>1 DEF MembersOf
    <3>3. PICK x \in S : ValueAt(j, x) = u
      BY <3>1
    <3>4. u.size > 0
      BY <1>3, <3>1
    <3>5. Member(u, i) \in S /\ ValueAt(j, Member(u, i)) = w
      BY <1>2, <3>2, <3>3, <3>4
    <3> QED
      BY <3>5
  <2> QED
    BY <2>1, <2>2
<1>7. R \subseteq T0
  BY <1>1, <1>6
<1>8. rv.size > 0 => rv \in R
  BY <1>1, <1>5
<1>9. ASSUME NEW w \in R, NEW i \in 1 .. w.size
      PROVE  /\ Member(w, i) \in S /\ ValueAt(j, Member(w, i)) = j.pool[w.base][i]
             /\ w.base \in DOMAIN j.pool /\ i \in DOMAIN j.pool[w.base]
             /\ j.pool[w.base][i].size > 0 => j.pool[w.base][i] \in R
  <2> DEFINE x == j.pool[w.base][i]
  <2>1. w \in C /\ w.size > 0 /\ w.base \in DOMAIN j.pool
    BY <1>1, <1>3
  <2>2. PICK y \in S : ValueAt(j, y) = w
    BY <1>7
  <2>3. Member(w, i) \in S /\ ValueAt(j, Member(w, i)) = x /\ i \in DOMAIN j.pool[w.base]
    BY <1>2, <2>1, <2>2
  <2>4. x \in MembersOf(j, w)
    BY DEF MembersOf
  <2>5. x \in Held(j, rv)
    <3>1. x \in Range(j.pool[w.base])
      BY <2>3 DEF Range
    <3> QED
      BY <2>1, <3>1 DEF Held
  <2> HIDE DEF x
  <2>6. ASSUME x.size > 0
        PROVE  x \in R
    <3>1. x.base \in DOMAIN j.pool
      BY <1>2, <2>3, <2>6
    <3>2. x \in C
      BY <1>3, <2>5, <2>6, <3>1
    <3>3. ASSUME NEW T \in SUBSET C, IsClosed(T)
          PROVE  x \in T
      <4>1. w \in T
        BY <1>1, <3>3
      <4> QED
        BY <2>4, <3>2, <3>3, <4>1
    <3> QED
      BY <1>1, <3>2, <3>3
  <2> QED
    BY <2>1, <2>3, <2>6 DEF x
<1> QED
  BY <1>8, <1>9 DEF R

\* A document made of the deep copy of a value.
LEMMA CopyFacts ==
  ASSUME NEW j, IsJson(j), NEW S, Closed(j, S), NEW m \in S, NEW rv, rv = ValueAt(j, m)
  PROVE  DocOK(CopyOf(j, rv), {}, With(<<>>, Root, rv.id)) /\ CopyOK(j, S, rv, CopyOf(j, rv))
<1> DEFINE pool == Restrict(j.pool, CopiedBlocks(j, rv))
           refs == With(<<>>, Root, FALSE)
           id == rv.id
           k == CopyOf(j, rv)
           R == Reached(j, rv)
           T == {Root} \cup UNION {{Member(w, i) : i \in 1 .. w.size} : w \in R}
<1>1. k = [NoDoc EXCEPT !.state = "val", !.root = rv, !.pool = pool, !.refs = refs]
  BY DEF CopyOf
<1>2. /\ IsFcn(pool) /\ DOMAIN pool = {w.base : w \in R}
      /\ \A b \in DOMAIN pool : pool[b] = j.pool[b]
  BY DEF IsFcn, Restrict, CopiedBlocks, Below
<1>3. refs \in [DOMAIN refs -> BOOLEAN] /\ DOMAIN refs = {Root} /\ refs[Root] = FALSE
  <2>1. IsFcn(refs) /\ DOMAIN refs = DOMAIN <<>> \cup {Root} /\ refs[Root] = FALSE
    BY DEF With, IsFcn
  <2>2. DOMAIN refs = {Root}
    BY <2>1, EmptyMap
  <2> QED
    BY <2>1, <2>2 DEF IsFcn
<1> HIDE DEF pool, refs, k, id
<1>4. k = [state |-> "val", root |-> rv, pool |-> pool, refs |-> refs, owned |-> <<>>]
  BY <1>1 DEF NoDoc
<1>5. /\ k = [state |-> k.state, root |-> k.root, pool |-> k.pool,
              refs |-> k.refs, owned |-> k.owned]
      /\ k.root = rv /\ k.pool = pool /\ k.refs = refs /\ k.owned = <<>>
  BY <1>4
<1>6. IsValue(rv)
  BY ValueFacts DEF Closed
<1>7. /\ rv.size > 0 => rv \in R
      /\ \A w \in R : \A i \in 1 .. w.size :
           /\ Member(w, i) \in S /\ ValueAt(j, Member(w, i)) = j.pool[w.base][i]
           /\ w.base \in DOMAIN j.pool /\ i \in DOMAIN j.pool[w.base]
           /\ j.pool[w.base][i].size > 0 => j.pool[w.base][i] \in R
  BY ReachedFacts
<1>8. \A w \in R : w.size > 0 /\ w.base \in DOMAIN j.pool
  BY DEF Reached, Containers
<1> HIDE DEF R
<1>9. IsJson(k)
  <2>1. \A b \in DOMAIN pool :
          /\ IsFcn(pool[b]) /\ DOMAIN pool[b] \subseteq Nat
          /\ \A i \in DOMAIN pool[b] : IsValue(pool[b][i])
    BY <1>2, <1>8 DEF IsJson
  <2> QED
    BY <1>2, <1>3, <1>5, <1>6, <2>1, EmptyMap DEF IsJson
<1>10. Root \in Alive(k) /\ ValueAt(k, Root) = rv
  <2>1. ValueAt(k, Root) = k.root
    BY AddressKinds DEF ValueAt
  <2> QED
    BY <1>5, <2>1 DEF Alive
<1>11. ASSUME NEW w \in R, NEW i \in 1 .. w.size
       PROVE  Member(w, i) \in Alive(k) /\ ValueAt(k, Member(w, i)) = j.pool[w.base][i]
  <2>1. w.base \in DOMAIN pool /\ i \in DOMAIN pool[w.base]
    BY <1>2, <1>7
  <2>2. <<"slot", w.base, i>> \in PoolSlots(k.pool)
    BY <1>5, <2>1, SlotAlive
  <2>3. ValueAt(k, Member(w, i)) = k.pool[w.base][i]
    BY AddressKinds DEF Member, ValueAt
  <2> QED
    BY <1>2, <1>5, <2>1, <2>2, <2>3 DEF Member, Alive
<1>12. Closed(k, T)
  <2>1. T \subseteq Alive(k)
    BY <1>10, <1>11
  <2>2. \A x \in T : ValueAt(k, x) = rv \/ \E w \in R : \E i \in 1 .. w.size :
                                             ValueAt(k, x) = j.pool[w.base][i]
    BY <1>10, <1>11
  <2>3. ASSUME NEW x \in T, NEW y \in 1 .. ValueAt(k, x).size
        PROVE  ValueAt(k, x) \in R
    <3>1. CASE ValueAt(k, x) = rv
      <4>1. rv.size > 0
        BY <1>6, <2>3, <3>1 DEF IsValue
      <4> QED
        BY <1>7, <3>1, <4>1
    <3>2. CASE \E w \in R : \E i \in 1 .. w.size : ValueAt(k, x) = j.pool[w.base][i]
      <4>1. PICK w \in R : \E i \in 1 .. w.size : ValueAt(k, x) = j.pool[w.base][i]
        BY <3>2
      <4>2. PICK i \in 1 .. w.size : ValueAt(k, x) = j.pool[w.base][i]
        BY <4>1
      <4>3. j.pool[w.base][i].size \in Nat
        BY <1>7, <4>2 DEF IsJson, IsValue
      <4>4. j.pool[w.base][i].size > 0
        BY <2>3, <4>2, <4>3
      <4> QED
        BY <1>7, <4>2, <4>4
    <3> QED
      BY <2>2, <3>1, <3>2
  <2>4. \A w \in R : \A y \in 1 .. w.size : Member(w, y) \in T
    OBVIOUS
  <2> HIDE DEF T
  <2> QED
    BY <2>1, <2>3, <2>4 DEF Closed
<1>13. Rooted(k, {})
  <2>1. Usable(k, {}) \subseteq T
    BY <1>3, <1>5 DEF Usable
  <2> QED
    BY <1>12, <2>1 DEF Rooted
<1>14. RefsOK(k)
  BY <1>3, <1>5, <1>10 DEF RefsOK
<1>15. Current(k, {}, With(<<>>, Root, id))
  <2>1. With(<<>>, Root, id)[Root] = id /\ Root \in DOMAIN With(<<>>, Root, id)
    BY DEF With
  <2> QED
    BY <1>3, <1>5, <1>10, <2>1 DEF Current, id
<1>16. CopyOK(j, S, rv, k)
  <2>1. Root \in T /\ ValueAt(k, Root) = rv /\ DOMAIN k.refs = {Root} /\ k.state = "val"
    BY <1>3, <1>4, <1>5, <1>10
  <2>2. ASSUME NEW x \in T \ {Root}
        PROVE  /\ x \in S /\ ValueAt(k, x) = ValueAt(j, x)
               /\ \E w \in R : \E i \in 1 .. w.size : x = Member(w, i)
    <3>1. PICK w \in R : \E i \in 1 .. w.size : x = Member(w, i)
      BY <2>2
    <3>2. PICK i \in 1 .. w.size : x = Member(w, i)
      BY <3>1
    <3> QED
      BY <1>7, <1>11, <3>2
  <2> HIDE DEF T
  <2> QED
    BY <1>12, <2>1, <2>2 DEF CopyOK, R
<1> QED
  BY <1>9, <1>13, <1>14, <1>15, <1>16 DEF DocOK, k, id

-----------------------------------------------------------------------------
(* The specification.                                                      *)

\* A step that changes one document.
LEMMA OneChanged ==
  ASSUME RJsonOK, IterOK', NEW d \in Docs, NEW j, NEW mv, NEW lt,
         doc' = [doc EXCEPT ![d] = j], moved' = [moved EXCEPT ![d] = mv],
         latest' = [latest EXCEPT ![d] = lt],
         j.state \in {"doc", "val"} => DocOK(j, mv, lt)
  PROVE  RJsonOK'
<1>1. /\ doc' = [e \in Docs |-> doc'[e]] /\ doc'[d] = j
      /\ latest' = [e \in Docs |-> latest'[e]] /\ latest'[d] = lt
      /\ moved' = [e \in Docs |-> moved'[e]] /\ moved'[d] = mv
      /\ \A e \in Docs \ {d} : doc'[e] = doc[e] /\ latest'[e] = latest[e] /\ moved'[e] = moved[e]
  BY DEF RJsonOK
<1>2. ASSUME NEW e \in Docs, InUse(e)'
      PROVE  DocOK(doc'[e], moved'[e], latest'[e])
  <2>1. CASE e = d
    BY <1>1, <1>2, <2>1 DEF InUse
  <2>2. CASE e # d
    <3>1. InUse(e)
      BY <1>1, <1>2, <2>2 DEF InUse
    <3> QED
      BY <1>1, <2>2, <3>1 DEF RJsonOK
  <2> QED
    BY <2>1, <2>2
<1> QED
  BY <1>1, <1>2 DEF RJsonOK

\* Parsing into a new document.
LEMMA ParseNew ==
  ASSUME RJsonOK, NEW d \in Docs, NEW t \in JsonTexts,
         rjson_parse(d, t) \/ rjson_parse_message(d, t)
  PROVE  RJsonOK'
<1>1. PICK chars : doc' = [doc EXCEPT ![d] = Loaded(NoDoc, t, chars)]
  <2>1. CASE rjson_parse(d, t)
    BY <2>1 DEF rjson_parse
  <2>2. CASE rjson_parse_message(d, t)
    BY <2>2 DEF rjson_parse_message, json_decode
  <2> QED
    BY <2>1, <2>2
<1>2. Forget(d, t) /\ iter' = iter
  BY DEF rjson_parse, rjson_parse_message
<1>3. DocOK(Loaded(NoDoc, t, chars), {}, With(<<>>, Root, <<>>))
  BY NoDocFacts, LoadedFacts
<1>4. IterOK'
  BY <1>2 DEF RJsonOK, IterOK
<1>5. /\ latest' = [latest EXCEPT ![d] = With(<<>>, Root, <<>>)]
      /\ moved' = [moved EXCEPT ![d] = {}]
  BY <1>2 DEF Forget
<1> QED
  BY <1>1, <1>3, <1>4, <1>5, OneChanged

\* The program ends.
LEMMA Dying ==
  ASSUME RJsonOK, Died
  PROVE  RJsonOK'
<1>1. /\ doc' = [d \in Docs |-> [NoDoc EXCEPT !.state = "gone"]]
      /\ iter' = NoIter /\ UNCHANGED <<latest, moved>>
  BY DEF Died, history
<1>2. \A d \in Docs : ~InUse(d)'
  BY <1>1 DEF InUse, NoDoc
<1>3. IterOK'
  BY <1>1 DEF IterOK, NoIter
<1>4. doc' = [d \in Docs |-> doc'[d]]
  BY <1>1
<1> QED
  BY <1>1, <1>2, <1>3, <1>4 DEF RJsonOK

\* Parsing into a document there is already.
LEMMA ParseAgain ==
  ASSUME RJsonOK, NEW d \in Docs, NEW t \in JsonTexts, NEW ok, NEW result,
         rjson_dparse(d, t, ok) \/ rjson_dparse_message(d, t, result), ~Died
  PROVE  RJsonOK'
<1> DEFINE k == Cleared(doc[d])
<1>1. PICK j : /\ doc' = [doc EXCEPT ![d] = j]
               /\ j = k \/ \E chars : j = Loaded(k, t, chars)
  <2>1. CASE rjson_dparse(d, t, ok)
    BY <2>1 DEF rjson_dparse, NullDocument, RJsonOK
  <2>2. CASE rjson_dparse_message(d, t, result)
    BY <2>2 DEF rjson_dparse_message, NullDocument, json_decode, RJsonOK
  <2> QED
    BY <2>1, <2>2
<1>2. (\E u : Forget(d, u)) /\ iter' = iter /\ InUse(d)
  BY DEF rjson_dparse, rjson_dparse_message, NullDocument, InUse
<1>3. IsJson(k) /\ DOMAIN k.refs = {} /\ DOMAIN k.owned = {} /\ k.root = NullRoot
  <2>1. IsJson(doc[d])
    BY <1>2 DEF RJsonOK, DocOK
  <2> QED
    BY <2>1, ClearedFacts
<1> HIDE DEF k
<1>4. DocOK(j, {}, With(<<>>, Root, <<>>))
  BY <1>1, <1>3, EmptyOK, LoadedFacts
<1>5. IterOK'
  BY <1>2 DEF RJsonOK, IterOK
<1>6. /\ latest' = [latest EXCEPT ![d] = With(<<>>, Root, <<>>)]
      /\ moved' = [moved EXCEPT ![d] = {}]
  BY <1>2 DEF Forget
<1> QED
  BY <1>1, <1>4, <1>5, <1>6, OneChanged

\* Handing out a value Lua may use, or a member of it.
LEMMA ValueHandedOut ==
  ASSUME RJsonOK, IterOK', NEW d \in Docs, InUse(d), NEW a \in check_value(d),
         NEW m \in {a} \cup MembersAt(doc[d], a), HandedOut(d, doc[d], m)
  PROVE  RJsonOK'
<1> DEFINE j == [doc[d] EXCEPT !.refs = IF m \in DOMAIN @ THEN @ ELSE With(@, m, FALSE)]
           mv == moved[d] \ {m}
           lt == With(latest[d], m, ValueAt(doc[d], m).id)
<1>1. DocOK(doc[d], moved[d], latest[d]) /\ a \in (DOMAIN doc[d].refs \ moved[d]) \cup {Root}
  BY DEF RJsonOK, check_value
<1>2. DocOK(j, mv, lt)
  BY <1>1, HandedOutFacts
<1>3. /\ doc' = [doc EXCEPT ![d] = j] /\ moved' = [moved EXCEPT ![d] = mv]
      /\ latest' = [latest EXCEPT ![d] = lt]
  BY DEF HandedOut, RJsonOK
<1> HIDE DEF j, mv, lt
<1> QED
  BY <1>2, <1>3, OneChanged

\* What a method of a document may be given is what Lua may use.
LEMMA Checked ==
  ASSUME NEW d, NEW a \in check_value(d)
  PROVE  a \in (DOMAIN doc[d].refs \ moved[d]) \cup {Root}
BY DEF check_value

\* Removing a member into a document of its own.
LEMMA RemoveDeep ==
  ASSUME RJsonOK, NEW d \in Docs, InUse(d), NEW a \in check_value(d),
         NEW i \in 1 .. ValueAt(doc[d], a).size, NEW new \in Docs, rjson_remove(d, a, i, new)
  PROVE  RJsonOK'
<1> DEFINE j == doc[d]
           m == Member(ValueAt(j, a), i)
           rv == ValueAt(j, m)
           id == rv.id
           k == Removed(j, a, i)
           mv == moved[d] \cup MovedBy(j, a, i)
           copy == CopyOf(j, rv)
           lt == With(<<>>, Root, id)
<1>1. DocOK(j, moved[d], latest[d]) /\ a \in (DOMAIN j.refs \ moved[d]) \cup {Root}
  BY Checked DEF RJsonOK
<1>2. /\ DocOK(k, mv, latest[d])
      /\ \E S : Closed(j, S) /\ m \in S
  <2>1. RemovalOK(j, a, i, moved[d], latest[d])
    BY <1>1, RemovedFacts
  <2> QED
    BY <2>1 DEF RemovalOK
<1>3. DocOK(copy, {}, lt)
  <2>1. PICK S : Closed(j, S) /\ m \in S
    BY <1>2
  <2>2. IsJson(j)
    BY <1>1 DEF DocOK
  <2> QED
    BY <2>1, <2>2, CopyFacts
<1>4. d # new
  BY DEF rjson_remove, InUse
<1>5. /\ doc' = [doc EXCEPT ![d] = k, ![new] = copy]
      /\ moved' = [moved EXCEPT ![d] = mv, ![new] = {}]
      /\ latest' = [latest EXCEPT ![new] = lt] /\ iter' = iter
  BY DEF rjson_remove, remove_value, RJsonOK, CopyOf
<1> HIDE DEF j, k, mv, copy, lt
<1>6. /\ doc' = [e \in Docs |-> doc'[e]] /\ doc'[d] = k /\ doc'[new] = copy
      /\ latest' = [e \in Docs |-> latest'[e]] /\ latest'[d] = latest[d] /\ latest'[new] = lt
      /\ moved' = [e \in Docs |-> moved'[e]] /\ moved'[d] = mv /\ moved'[new] = {}
      /\ \A e \in Docs \ {d, new} :
           doc'[e] = doc[e] /\ latest'[e] = latest[e] /\ moved'[e] = moved[e]
  BY <1>4, <1>5 DEF RJsonOK
<1>7. ASSUME NEW e \in Docs, InUse(e)'
      PROVE  DocOK(doc'[e], moved'[e], latest'[e])
  <2>1. CASE e = d
    BY <1>2, <1>6, <2>1
  <2>2. CASE e = new
    BY <1>3, <1>6, <2>2
  <2>3. CASE e \notin {d, new}
    <3>1. InUse(e)
      BY <1>6, <1>7, <2>3 DEF InUse
    <3> QED
      BY <1>6, <2>3, <3>1 DEF RJsonOK
  <2> QED
    BY <2>1, <2>2, <2>3
<1>8. IterOK'
  BY <1>5 DEF RJsonOK, IterOK
<1> QED
  BY <1>6, <1>7, <1>8 DEF RJsonOK

\* Removing a member into a value the document owns.
LEMMA RemoveShallow ==
  ASSUME RJsonOK, NEW d \in Docs, InUse(d), NEW a \in check_value(d),
         NEW i \in 1 .. ValueAt(doc[d], a).size, rjson_remove_shallow(d, a, i)
  PROVE  RJsonOK'
<1> DEFINE j == doc[d]
           m == Member(ValueAt(j, a), i)
           rv == ValueAt(j, m)
           own == <<"own", rv.id>>
           k == Removed(j, a, i)
           mv == moved[d] \cup MovedBy(j, a, i)
           owner == OwnerOf(k, own, rv)
           lt == With(latest[d], own, rv.id)
<1>1. DocOK(j, moved[d], latest[d]) /\ a \in (DOMAIN j.refs \ moved[d]) \cup {Root}
  BY Checked DEF RJsonOK
<1>2. /\ DocOK(k, mv, latest[d])
      /\ \E S : Closed(j, S) /\ Closed(k, S) /\ m \in S /\ Usable(k, mv) \subseteq S
      /\ DOMAIN k.owned = DOMAIN j.owned
  <2>1. RemovalOK(j, a, i, moved[d], latest[d])
    BY <1>1, RemovedFacts
  <2> QED
    BY <2>1 DEF RemovalOK
<1>3. PICK S : Closed(j, S) /\ Closed(k, S) /\ m \in S /\ Usable(k, mv) \subseteq S
  BY <1>2
<1>4. IsValue(rv) /\ \A y \in 1 .. rv.size : Member(rv, y) \in S
  BY <1>1, <1>3, ValueFacts DEF DocOK, Closed
<1>5. own[1] = "own" /\ own \notin DOMAIN k.owned
  BY <1>2, AddressKinds DEF rjson_remove_shallow
<1>6. /\ doc' = [doc EXCEPT ![d] = owner] /\ moved' = [moved EXCEPT ![d] = mv]
      /\ latest' = [latest EXCEPT ![d] = lt] /\ iter' = iter
  BY DEF rjson_remove_shallow, remove_value, RJsonOK, OwnerOf
<1> HIDE DEF rv, own, k, mv
<1>7. DocOK(owner, mv, lt)
  BY <1>2, <1>3, <1>4, <1>5, OwnedFacts
<1>8. IterOK'
  BY <1>6 DEF RJsonOK, IterOK
<1> HIDE DEF owner, lt
<1> QED
  BY <1>6, <1>7, <1>8, OneChanged

\* A document is freed.
LEMMA Collect ==
  ASSUME RJsonOK, NEW d \in Docs, rjson_gc(d)
  PROVE  RJsonOK'
<1> DEFINE j == [NoDoc EXCEPT !.state = "gone"]
<1>1. j.state = "gone"
  BY DEF NoDoc
<1>2. /\ doc' = [doc EXCEPT ![d] = j] /\ moved' = [moved EXCEPT ![d] = moved[d]]
      /\ latest' = [latest EXCEPT ![d] = latest[d]]
  BY DEF rjson_gc, history, RJsonOK
<1>3. IterOK'
  BY DEF rjson_gc, RJsonOK, IterOK, NoIter
<1> HIDE DEF j
<1> QED
  BY <1>1, <1>2, <1>3, OneChanged

\* An iterator hands out the next address, whatever is there, and comes to its end.
LEMMA Iterate ==
  ASSUME RJsonOK, IterNext
  PROVE  RJsonOK'
<1> DEFINE d == iter.d
           a == Upcoming(doc[d])
<1>1. d \in Docs /\ InUse(d)
  BY DEF IterNext, RJsonOK, IterOK
<1>2. CASE IterStep(d, a)
  <2>1. IterOK'
    <3> DEFINE next == iter.pos + 1
    <3>1. iter' = [iter EXCEPT !.pos = next]
      BY <1>2 DEF IterStep
    <3>2. iter = [d |-> iter.d, a |-> iter.a, kind |-> iter.kind, base |-> iter.base,
                  pos |-> iter.pos, end |-> iter.end]
      BY DEF RJsonOK, IterOK
    <3> HIDE DEF next
    <3>3. iter' = [d |-> iter.d, a |-> iter.a, kind |-> iter.kind, base |-> iter.base,
                   pos |-> next, end |-> iter.end]
      BY <3>1, <3>2
    <3> QED
      BY <1>1, <3>3 DEF IterOK
  <2>2. CASE iter.a \in check_value(d) /\ a \in MembersAt(doc[d], iter.a)
    <3>1. HandedOut(d, doc[d], a)
      BY <1>2, <2>2 DEF IterStep
    <3> HIDE DEF d, a
    <3> QED
      BY <1>1, <2>1, <2>2, <3>1, ValueHandedOut
  <2>3. CASE ~(iter.a \in check_value(d) /\ a \in MembersAt(doc[d], iter.a))
    <3>1. UNCHANGED <<doc, latest, moved>>
      BY <1>2, <2>3 DEF IterStep, history
    <3> QED
      BY <2>1, <3>1 DEF RJsonOK, InUse
  <2> QED
    BY <2>2, <2>3
<1>3. CASE IterEnd
  <2>1. iter' = NoIter /\ UNCHANGED <<doc, latest, moved>>
    BY <1>3 DEF IterEnd, history
  <2>2. IterOK'
    BY <2>1 DEF IterOK, NoIter
  <2> QED
    BY <2>1, <2>2 DEF RJsonOK, InUse
<1>4. CASE Died
  BY <1>4, Dying
<1> QED
  BY <1>2, <1>3, <1>4 DEF IterNext

\* Every step keeps the documents in order.
LEMMA RJsonStep ==
  ASSUME RJsonOK, [RJsonNext]_rjsonVars
  PROVE  RJsonOK'
<1>1. ASSUME NEW d \in Docs, NEW t \in JsonTexts, rjson_parse(d, t) \/ rjson_parse_message(d, t)
      PROVE  RJsonOK'
  BY <1>1, ParseNew
<1>2. ASSUME NEW d \in Docs, InUse(d), OnDocument(d)
      PROVE  RJsonOK'
  <2>1. ASSUME NEW a \in check_value(d), NEW b \in {a} \cup MembersAt(doc[d], a), rjson_find(d, a, b)
        PROVE  RJsonOK'
    <3>1. HandedOut(d, doc[d], b) /\ iter' = iter
      BY <2>1 DEF rjson_find
    <3>2. IterOK'
      BY <3>1 DEF RJsonOK, IterOK
    <3> QED
      BY <1>2, <2>1, <3>1, <3>2, ValueHandedOut
  <2>2. ASSUME NEW a \in check_value(d), NEW i \in 1 .. ValueAt(doc[d], a).size,
               NEW new \in Docs, rjson_remove(d, a, i, new)
        PROVE  RJsonOK'
    BY <1>2, <2>2, RemoveDeep
  <2>3. ASSUME NEW a \in check_value(d), NEW i \in 1 .. ValueAt(doc[d], a).size,
               rjson_remove_shallow(d, a, i)
        PROVE  RJsonOK'
    BY <1>2, <2>3, RemoveShallow
  <2>4. ASSUME NEW a \in check_value(d), rjson_iter(d, a)
        PROVE  RJsonOK'
    <3>1. /\ iter' = [d |-> d, a |-> a, kind |-> ValueAt(doc[d], a).kind,
                      base |-> ValueAt(doc[d], a).base, pos |-> 1, end |-> ValueAt(doc[d], a).size]
          /\ UNCHANGED <<doc, latest, moved>>
      BY <2>4 DEF rjson_iter, history
    <3>2. IterOK'
      BY <3>1 DEF IterOK
    <3> QED
      BY <3>1, <3>2 DEF RJsonOK, InUse
  <2>5. ASSUME NEW t \in JsonTexts, NEW ok \in BOOLEAN, rjson_dparse(d, t, ok)
        PROVE  RJsonOK'
    BY <2>5, ParseAgain, Dying
  <2>6. ASSUME NEW t \in JsonTexts, NEW result \in {"ok", "missing", "inflate", "parse"},
               rjson_dparse_message(d, t, result)
        PROVE  RJsonOK'
    BY <2>6, ParseAgain, Dying
  <2>7. ASSUME rjson_gc(d)
        PROVE  RJsonOK'
    BY <2>7, Collect
  <2> QED
    BY <1>2, <2>1, <2>2, <2>3, <2>4, <2>5, <2>6, <2>7 DEF OnDocument
<1>3. CASE IterNext
  BY <1>3, Iterate
<1>4. CASE UNCHANGED rjsonVars
  BY <1>4 DEF rjsonVars, history, RJsonOK, IterOK, InUse
<1> QED
  BY <1>1, <1>2, <1>3, <1>4 DEF RJsonNext

\* No document is in use at first.
LEMMA RJsonStart == RJsonInit => RJsonOK
BY DEF RJsonInit, RJsonOK, IterOK, NoIter, NoDoc, InUse

\* What is accepted or owned is in memory, and nothing is leaked or freed twice.
THEOREM DocumentsSafe == RJsonSpec => []RefsAlive
<1>1. RJsonOK => RefsAlive
  BY DEF RJsonOK, DocOK, RefsOK, RefsAlive
<1> QED
  BY RJsonStart, RJsonStep, <1>1, PTL DEF RJsonSpec

\* An accepted handle names the value it was handed out for.
THEOREM HandlesSafe == RJsonSpec => []HandlesCurrent
<1>1. RJsonOK => HandlesCurrent
  BY DEF RJsonOK, DocOK, Current, HandlesCurrent
<1> QED
  BY RJsonStart, RJsonStep, <1>1, PTL DEF RJsonSpec

-----------------------------------------------------------------------------
(* Documents: their values are those of their text.                        *)

\* The paths of a text.
LEMMA TextsFacts ==
  ASSUME NEW t \in Texts
  PROVE  <<>> \in DOMAIN t /\ DOMAIN t \subseteq Seq(Nat)
<1>1. CASE t \in JsonTexts
  BY <1>1, TextAssumption
<1>2. CASE t = NullText
  <2>1. <<>> \in Seq(Nat)
    OBVIOUS
  <2> QED
    BY <1>2, <2>1, NullTextFacts
<1> QED
  BY <1>1, <1>2 DEF Texts

\* The path of a member is one longer than that of the value.
LEMMA ChildFacts ==
  ASSUME NEW p \in Seq(Nat), NEW i \in Nat
  PROVE  /\ Append(p, i) \in Seq(Nat) /\ Len(p) \in Nat /\ Len(Append(p, i)) = Len(p) + 1
         /\ PositionOf(Append(p, i)) = i /\ Append(p, i) # p
<1>1. Append(p, i) \in Seq(Nat) /\ Len(p) \in Nat /\ Len(Append(p, i)) = Len(p) + 1
  OBVIOUS
<1>2. Append(p, i)[Len(p) + 1] = i
  OBVIOUS
<1>3. Append(p, i) # p
  <2>1. Len(p) + 1 # Len(p)
    BY <1>1
  <2> QED
    BY <1>1, <2>1
<1> QED
  BY <1>1, <1>2, <1>3 DEF PositionOf

\* A path tells whose member it is of.
LEMMA ParentUnique ==
  ASSUME NEW p \in Seq(Nat), NEW q \in Seq(Nat), NEW i \in Nat, NEW k \in Nat,
         Append(p, i) = Append(q, k)
  PROVE  p = q
<1>1. Len(p) = Len(q) /\ Len(p) \in Nat
  <2>1. /\ Len(p) \in Nat /\ Len(Append(p, i)) = Len(p) + 1
        /\ Len(q) \in Nat /\ Len(Append(q, k)) = Len(q) + 1
    BY ChildFacts
  <2> QED
    BY <2>1
<1>2. ASSUME NEW x \in 1 .. Len(p) PROVE p[x] = q[x]
  <2>1. Append(p, i)[x] = p[x]
    BY <1>1
  <2>2. Append(q, k)[x] = q[x]
    BY <1>1
  <2> QED
    BY <2>1, <2>2
<1> DEFINE P == [x \in 1 .. Len(p) |-> p[x]]
           Q == [x \in 1 .. Len(q) |-> q[x]]
<1>3. p = P /\ q = Q
  OBVIOUS
<1>4. P = Q
  BY <1>1, <1>2
<1> HIDE DEF P, Q
<1> QED
  BY <1>3, <1>4

\* The members left of a path of a text.
LEMMA LeftFacts ==
  ASSUME NEW t \in Texts, NEW g, NEW p \in DOMAIN t, NEW q \in Left(t, g, p)
  PROVE  /\ p \in Seq(Nat) /\ Len(p) \in Nat /\ \E i \in Nat : q = Append(p, i)
         /\ q \in DOMAIN t /\ q \in Seq(Nat) /\ Len(q) = Len(p) + 1 /\ q # p
<1>1. PICK i \in Members(t, p) : q = Append(p, i)
  BY DEF Left
<1>2. p \in Seq(Nat) /\ i \in Nat /\ q \in DOMAIN t
  BY <1>1, TextsFacts DEF Members
<1> QED
  BY <1>1, <1>2, ChildFacts

\* They are members of that path only.
LEMMA LeftParent ==
  ASSUME NEW t \in Texts, NEW g, NEW h, NEW p \in DOMAIN t, NEW r \in DOMAIN t,
         NEW q \in Left(t, g, p), q \in Left(t, h, r)
  PROVE  p = r
<1>1. PICK i \in Nat : q = Append(p, i)
  BY LeftFacts
<1>2. PICK k \in Nat : q = Append(r, k)
  BY LeftFacts
<1>3. p \in Seq(Nat) /\ r \in Seq(Nat)
  BY LeftFacts
<1> QED
  BY <1>1, <1>2, <1>3, ParentUnique

\* A member of a value that is intact.
LEMMA TreeMember ==
  ASSUME NEW j, NEW A, NEW t \in Texts, NEW g, NEW buf, Trees(j, A, t, g, buf),
         NEW x \in A, NEW v, v = ValueAt(j, x), NEW i \in 1 .. v.size, NEW m, m = Member(v, i)
  PROVE  /\ m \in A /\ v.id \in DOMAIN t /\ v.base = v.id
         /\ ValueAt(j, m).id \in Left(t, g, v.id) /\ ValueAt(j, m).id # v.id /\ m # x
<1>1. Intact(j, t, g, buf, v) /\ Closed(j, A)
  BY DEF Trees
<1>2. m \in A
  BY <1>1 DEF Closed
<1>3. v.id \in DOMAIN t /\ v.base = v.id
  BY <1>1 DEF Intact
<1>4. ValueAt(j, m).id \in Left(t, g, v.id)
  <2>1. {MemberId(j, v, y) : y \in 1 .. v.size} = Left(t, g, v.id)
    BY <1>1 DEF Intact
  <2>2. MemberId(j, v, i) = ValueAt(j, m).id
    BY DEF MemberId
  <2> QED
    BY <2>1, <2>2
<1>5. ValueAt(j, m).id # v.id
  BY <1>3, <1>4, LeftFacts
<1> QED
  BY <1>2, <1>3, <1>4, <1>5

-----------------------------------------------------------------------------
(* Documents: what a removal does to the trees.                            *)

\* Shift takes the places that are left to all but i, in order in an array.
LEMMA ShiftFacts ==
  ASSUME NEW n \in Nat, NEW i \in 1 .. n, NEW isArray \in BOOLEAN, NEW s, s = Shift(isArray, n, i)
  PROVE  ShiftOK(isArray, n, i, s)
<1>1. CASE isArray
  <2>1. \A y \in 1 .. n - 1 : s[y] = IF y < i THEN y ELSE y + 1
    BY <1>1 DEF Shift
  <2>2. ASSUME NEW z \in 1 .. n, z # i
        PROVE  \E y \in 1 .. n - 1 : s[y] = z
    <3>1. CASE z < i
      BY <2>1, <3>1
    <3>2. CASE z > i
      <4>1. z - 1 \in 1 .. n - 1 /\ ~(z - 1 < i) /\ z - 1 + 1 = z
        BY <3>2
      <4> QED
        BY <2>1, <4>1
    <3> QED
      BY <2>2, <3>1, <3>2
  <2>3. \A y \in 1 .. n - 1 : s[y] \in 1 .. n /\ s[y] # i
    BY <2>1
  <2>4. \A y, z \in 1 .. n - 1 : y < z => s[y] < s[z]
    BY <2>1
  <2>5. \A y, z \in 1 .. n - 1 : s[y] = s[z] => y = z
    BY <2>1
  <2> QED
    BY <2>2, <2>3, <2>4, <2>5 DEF ShiftOK
<1>2. CASE ~isArray
  <2>1. \A y \in 1 .. n - 1 : s[y] = IF y = i THEN n ELSE y
    BY <1>2 DEF Shift
  <2>2. ASSUME NEW z \in 1 .. n, z # i
        PROVE  \E y \in 1 .. n - 1 : s[y] = z
    <3>1. CASE z = n
      <4>1. i \in 1 .. n - 1
        BY <2>2, <3>1
      <4> QED
        BY <2>1, <3>1, <4>1
    <3>2. CASE z # n
      <4>1. z \in 1 .. n - 1
        BY <3>2
      <4> QED
        BY <2>1, <2>2, <4>1
    <3> QED
      BY <3>1, <3>2
  <2>3. \A y \in 1 .. n - 1 : s[y] \in 1 .. n /\ s[y] # i
    BY <2>1
  <2>5. \A y, z \in 1 .. n - 1 : s[y] = s[z] => y = z
    BY <2>1
  <2> QED
    BY <1>2, <2>2, <2>3, <2>5 DEF ShiftOK
<1> QED
  BY <1>1, <1>2

\* Each place but the last holds what the place it was moved from held.
LEMMA ShiftedBlock ==
  ASSUME NEW block, IsFcn(block), NEW n \in Nat, NEW i \in 1 .. n, 1 .. n \subseteq DOMAIN block,
         DOMAIN block \subseteq Nat, NEW isArray \in BOOLEAN, NEW s, s = Shift(isArray, n, i),
         NEW nb, nb = Without(isArray, block, n, i)
  PROVE  /\ \A y \in 1 .. n - 1 : nb[y] = block[s[y]]
         /\ \A x \in DOMAIN block : x \notin 1 .. n => nb[x] = block[x]
<1>1. CASE isArray
  <2>1. \A y \in 1 .. n - 1 : s[y] = IF y < i THEN y ELSE y + 1
    BY <1>1 DEF Shift
  <2>2. \A x \in DOMAIN block :
          nb[x] = IF x < i \/ x > n THEN block[x]
                  ELSE IF x < n THEN block[x + 1] ELSE IF i = n THEN Null ELSE block[n]
    BY <1>1 DEF Without, WithoutElement
  <2>3. ASSUME NEW y \in 1 .. n - 1 PROVE nb[y] = block[s[y]]
    <3>1. y \in DOMAIN block /\ y < n /\ ~(y > n)
      OBVIOUS
    <3>2. CASE y < i
      BY <2>1, <2>2, <3>1, <3>2
    <3>3. CASE ~(y < i)
      BY <2>1, <2>2, <3>1, <3>3
    <3> QED
      BY <3>2, <3>3
  <2>4. ASSUME NEW x \in DOMAIN block, x \notin 1 .. n PROVE nb[x] = block[x]
    <3>1. x < i \/ x > n
      BY <2>4
    <3> QED
      BY <2>2, <3>1
  <2> QED
    BY <2>3, <2>4
<1>2. CASE ~isArray
  <2>0. i \in DOMAIN block /\ n \in DOMAIN block
    OBVIOUS
  <2>1. \A y \in 1 .. n - 1 : s[y] = IF y = i THEN n ELSE y
    BY <1>2 DEF Shift
  <2>2. \A x \in DOMAIN block :
          nb[x] = IF x = n THEN Null ELSE IF x = i THEN block[n] ELSE block[x]
    BY <1>2, <2>0 DEF Without, WithoutMember
  <2>3. ASSUME NEW y \in 1 .. n - 1 PROVE nb[y] = block[s[y]]
    <3>1. y \in DOMAIN block /\ y # n
      OBVIOUS
    <3> QED
      BY <2>1, <2>2, <3>1
  <2>4. ASSUME NEW x \in DOMAIN block, x \notin 1 .. n PROVE nb[x] = block[x]
    <3>1. x # n /\ x # i
      BY <2>4
    <3> QED
      BY <2>2, <3>1
  <2> QED
    BY <2>3, <2>4
<1> QED
  BY <1>1, <1>2

\* A removal takes one tree off, and moves others as they are.
LEMMA PrunedTrees ==
  ASSUME NEW j, IsJson(j), NEW A, NEW t \in Texts, NEW g, NEW buf, Trees(j, A, t, g, buf),
         NEW a \in A, NEW v, v = ValueAt(j, a), NEW i \in 1 .. v.size,
         NEW k, CutValues(j, a, i, k), NEW B, B = A \ {Member(v, v.size)}
  PROVE  PrunedOK(j, k, A, B, v, i, t, g, buf)
<1> DEFINE n == v.size
           b == v.base
           m == Member(v, i)
           rv == ValueAt(j, m)
           id == rv.id
           final == Member(v, n)
           isArray == v.kind = "array"
           s == Shift(isArray, n, i)
           nb == Without(isArray, j.pool[b], n, i)
           w == [v EXCEPT !.size = n - 1]
           Filled == {Member(v, y) : y \in 1 .. n - 1}
           Source(x) == IF x \in Filled THEN Member(v, s[x[3]]) ELSE x
           h == g \cup {id}
<1>1. /\ A \subseteq Alive(j) /\ IsValue(v) /\ n \in Nat /\ Intact(j, t, g, buf, v)
      /\ v.id \in DOMAIN t /\ b = v.id
  <2>1. A \subseteq Alive(j)
    BY DEF Trees, Closed
  <2>2. IsValue(v)
    BY <2>1, ValueFacts
  <2> QED
    BY <2>1, <2>2 DEF IsValue, Trees, Intact
<1>2. ASSUME NEW y \in 1 .. n
      PROVE  /\ Member(v, y) \in A /\ ValueAt(j, Member(v, y)).id \in Left(t, g, v.id)
             /\ ValueAt(j, Member(v, y)).id # v.id /\ Member(v, y) # a
             /\ b \in DOMAIN j.pool /\ y \in DOMAIN j.pool[b]
  <2>1. /\ Member(v, y) \in A /\ ValueAt(j, Member(v, y)).id \in Left(t, g, v.id)
        /\ ValueAt(j, Member(v, y)).id # v.id /\ Member(v, y) # a
    BY TreeMember
  <2> QED
    BY <1>1, <2>1, MemberAlive
<1>3. \A y, z : /\ Member(v, y) = Member(v, z) => y = z
                /\ Member(v, y) = <<"slot", b, y>> /\ Member(v, y)[1] = "slot"
                /\ Member(v, y)[2] = b /\ Member(v, y)[3] = y
  BY DEF Member
<1>4. /\ \A y \in 1 .. n - 1 : s[y] \in 1 .. n /\ s[y] # i
      /\ \A y, z \in 1 .. n - 1 : s[y] = s[z] => y = z
      /\ \A z \in 1 .. n : z # i => \E y \in 1 .. n - 1 : s[y] = z
      /\ isArray => \A y, z \in 1 .. n - 1 : y < z => s[y] < s[z]
  <2>1. isArray \in BOOLEAN
    OBVIOUS
  <2>2. i \in 1 .. n /\ s = Shift(isArray, n, i)
    OBVIOUS
  <2> HIDE DEF isArray, s, n
  <2>3. ShiftOK(isArray, n, i, s)
    BY <1>1, <2>1, <2>2, ShiftFacts
  <2> QED
    BY <2>3 DEF ShiftOK
<1>5. /\ \A y \in 1 .. n - 1 : nb[y] = j.pool[b][s[y]]
      /\ \A x \in DOMAIN j.pool[b] : x \notin 1 .. n => nb[x] = j.pool[b][x]
      /\ DOMAIN j.pool[b] \subseteq Nat
  <2>1. isArray \in BOOLEAN /\ i \in 1 .. n
    OBVIOUS
  <2>2. 1 .. n \subseteq DOMAIN j.pool[b] /\ b \in DOMAIN j.pool
    BY <1>2
  <2>3. IsFcn(j.pool[b]) /\ DOMAIN j.pool[b] \subseteq Nat
    BY <2>2 DEF IsJson
  <2> DEFINE block == j.pool[b]
  <2> HIDE DEF isArray, s, n, nb, block
  <2>4. s = Shift(isArray, n, i) /\ nb = Without(isArray, block, n, i)
    BY DEF s, nb, block
  <2>5. IsFcn(block) /\ 1 .. n \subseteq DOMAIN block /\ DOMAIN block \subseteq Nat
    BY <2>2, <2>3 DEF block
  <2>6. /\ \A y \in 1 .. n - 1 : nb[y] = block[s[y]]
        /\ \A x \in DOMAIN block : x \notin 1 .. n => nb[x] = block[x]
    BY <1>1, <2>1, <2>4, <2>5, ShiftedBlock
  <2> QED
    BY <2>5, <2>6 DEF block
<1>6. /\ k.state = j.state /\ Alive(k) = Alive(j)
      /\ \A x \in Alive(j) :
           ValueAt(k, x) = IF x = a THEN w ELSE IF x[1] = "slot" /\ x[2] = b THEN nb[x[3]]
                           ELSE ValueAt(j, x)
  BY DEF CutValues
<1>7. \A x \in A : /\ x[1] = "slot" /\ x[2] = b =>
                        x = Member(v, x[3]) /\ x[3] \in DOMAIN j.pool[b] /\ ValueAt(j, x) = j.pool[b][x[3]]
  <2> SUFFICES ASSUME NEW x \in A, x[1] = "slot", x[2] = b
               PROVE  /\ x = Member(v, x[3]) /\ x[3] \in DOMAIN j.pool[b]
                      /\ ValueAt(j, x) = j.pool[b][x[3]]
    OBVIOUS
  <2>1. x \in Alive(j) /\ x[1] # "own" /\ x # Root
    BY <1>1, AddressKinds
  <2>2. x = <<"slot", x[2], x[3]>> /\ x[3] \in DOMAIN j.pool[x[2]] /\ ValueAt(j, x) = j.pool[x[2]][x[3]]
    BY <2>1, ValueFacts
  <2> QED
    BY <2>2 DEF Member
<1> HIDE DEF n, b, isArray, s, nb, w
<1>8. /\ w.id = v.id /\ w.base = v.base /\ w.kind = v.kind /\ w.chars = v.chars /\ w.size = n - 1
  <2> DEFINE less == n - 1
  <2>1. v = [id |-> v.id, kind |-> v.kind, base |-> v.base, size |-> v.size, chars |-> v.chars]
    BY <1>1 DEF IsValue
  <2>2. w = [v EXCEPT !.size = less]
    BY DEF w
  <2> HIDE DEF less
  <2>3. w = [id |-> v.id, kind |-> v.kind, base |-> v.base, size |-> less, chars |-> v.chars]
    BY <2>1, <2>2
  <2> QED
    BY <2>3 DEF less
<1>9. n \in 1 .. n /\ i \in 1 .. n /\ final \in A /\ m \in A /\ n \in Nat \ {0}
      /\ \A y \in 1 .. n - 1 : y \in 1 .. n /\ y # n
  <2>1. i \in 1 .. n
    BY DEF n
  <2>2. n \in 1 .. n /\ n \in Nat \ {0} /\ \A y \in 1 .. n - 1 : y \in 1 .. n /\ y # n
    BY <1>1, <2>1
  <2> QED
    BY <1>2, <2>1, <2>2
<1>10. ASSUME NEW y \in 1 .. n - 1
       PROVE  /\ Member(v, y) \in B /\ Member(v, y) # a /\ Member(v, s[y]) \in A
              /\ Member(v, s[y]) # m /\ Member(v, s[y]) # a
              /\ ValueAt(k, Member(v, y)) = ValueAt(j, Member(v, s[y]))
  <2>1. y \in 1 .. n /\ y # n /\ s[y] \in 1 .. n /\ s[y] # i
    BY <1>4, <1>9
  <2>2. Member(v, y) \in B /\ Member(v, y) # a
    BY <1>2, <1>3, <2>1 DEF n
  <2>3. Member(v, s[y]) \in A /\ Member(v, s[y]) # m /\ Member(v, s[y]) # a
    BY <1>2, <1>3, <2>1
  <2>4. ValueAt(k, Member(v, y)) = nb[y]
    BY <1>1, <1>2, <1>3, <1>6, <2>1, <2>2
  <2>5. ValueAt(j, Member(v, s[y])) = j.pool[b][s[y]]
    BY <1>3, <1>7, <2>3
  <2> QED
    BY <1>5, <2>2, <2>3, <2>4, <2>5
<1>11. ASSUME NEW x \in B, x \notin Filled, x # a
       PROVE  ValueAt(k, x) = ValueAt(j, x)
  <2>1. CASE x[1] = "slot" /\ x[2] = b
    <3>1. /\ x = Member(v, x[3]) /\ x[3] \in DOMAIN j.pool[b] /\ ValueAt(j, x) = j.pool[b][x[3]]
          /\ x[3] \in Nat
      BY <1>5, <1>7, <2>1
    <3>2. x[3] \notin 1 .. n - 1 /\ x[3] # n
      BY <1>11, <3>1 DEF n
    <3>3. x[3] \notin 1 .. n
      BY <1>1, <3>1, <3>2
    <3>4. ValueAt(k, x) = nb[x[3]]
      BY <1>1, <1>6, <1>11, <2>1
    <3> QED
      BY <1>5, <3>1, <3>3, <3>4
  <2>2. CASE ~(x[1] = "slot" /\ x[2] = b)
    BY <1>1, <1>6, <1>11, <2>2
  <2> QED
    BY <2>1, <2>2
<1>12. a \in B /\ a \notin Filled /\ ValueAt(k, a) = w /\ B \subseteq A /\ m \notin {Source(x) : x \in B}
  <2>1. a # final /\ a \notin Filled
    BY <1>2, <1>9
  <2>2. a \in B /\ ValueAt(k, a) = w
    BY <1>1, <1>6, <2>1 DEF n
  <2>3. ASSUME NEW x \in B PROVE Source(x) # m
    <3>1. CASE x \in Filled
      BY <1>3, <1>10, <3>1
    <3>2. CASE x \notin Filled
      <4>1. i \in 1 .. n - 1 \/ i = n
        BY <1>9
      <4>2. m \in Filled \/ m = final
        BY <4>1
      <4> QED
        BY <3>2, <4>2 DEF n
    <3> QED
      BY <3>1, <3>2
  <2> QED
    BY <2>1, <2>2, <2>3
<1>13. ASSUME NEW x \in B
       PROVE  /\ Source(x) \in A /\ ValueAt(k, x).id = ValueAt(j, Source(x)).id
              /\ x # a => ValueAt(k, x) = ValueAt(j, Source(x)) /\ Source(x) # a
  <2>1. CASE x \in Filled
    <3>1. PICK y \in 1 .. n - 1 : x = Member(v, y)
      BY <2>1
    <3>2. Source(x) = Member(v, s[y])
      BY <1>3, <2>1, <3>1
    <3> HIDE DEF Source, Filled
    <3> QED
      BY <1>10, <3>1, <3>2
  <2>2. CASE x \notin Filled /\ x # a
    BY <1>11, <1>12, <2>2
  <2>3. CASE x = a
    BY <1>8, <1>12, <2>3
  <2> QED
    BY <2>1, <2>2, <2>3
<1>14. ASSUME NEW x \in B, NEW y \in B, Source(x) = Source(y)
       PROVE  x = y
  <2>1. ASSUME NEW p \in B, NEW q \in B, p \in Filled, q \notin Filled PROVE Source(p) # Source(q)
    <3>1. PICK z \in 1 .. n - 1 : p = Member(v, z)
      BY <2>1
    <3>2. Source(p) = Member(v, s[z]) /\ s[z] \in 1 .. n
      BY <1>3, <1>4, <2>1, <3>1
    <3>3. s[z] \in 1 .. n - 1 \/ s[z] = n
      BY <1>9, <3>2
    <3>4. q # Member(v, s[z])
      BY <2>1, <3>3 DEF n
    <3> QED
      BY <2>1, <3>2, <3>4
  <2>2. CASE x \in Filled /\ y \in Filled
    <3>1. PICK z \in 1 .. n - 1 : x = Member(v, z)
      BY <2>2
    <3>2. PICK u \in 1 .. n - 1 : y = Member(v, u)
      BY <2>2
    <3>3. Source(x) = Member(v, s[z]) /\ Source(y) = Member(v, s[u])
      BY <1>3, <2>2, <3>1, <3>2
    <3>4. s[z] = s[u]
      BY <1>3, <1>14, <3>3
    <3> QED
      BY <1>4, <3>1, <3>2, <3>4
  <2>3. CASE x \notin Filled /\ y \notin Filled
    BY <1>14, <2>3
  <2> QED
    BY <1>14, <2>1, <2>2, <2>3
<1> HIDE DEF Source
<1>15. \A x, y \in B : ValueAt(k, x).id = ValueAt(k, y).id => x = y
  <2> SUFFICES ASSUME NEW x \in B, NEW y \in B, ValueAt(k, x).id = ValueAt(k, y).id
               PROVE  x = y
    OBVIOUS
  <2>1. ValueAt(j, Source(x)).id = ValueAt(j, Source(y)).id /\ Source(x) \in A /\ Source(y) \in A
    BY <1>13
  <2>2. Source(x) = Source(y)
    BY <2>1 DEF Trees
  <2> QED
    BY <1>14, <2>2
<1>16. \A x \in B : ValueAt(k, x).id # id
  <2> SUFFICES ASSUME NEW x \in B, ValueAt(k, x).id = id
               PROVE  FALSE
    OBVIOUS
  <2>1. ValueAt(j, Source(x)).id = ValueAt(j, m).id /\ Source(x) \in A /\ Source(x) # m
    BY <1>12, <1>13
  <2> QED
    BY <1>9, <2>1 DEF Trees
<1>17. ASSUME NEW u, u.base # b, NEW y, Member(u, y) \in A
       PROVE  Member(u, y) \in B /\ MemberId(k, u, y) = MemberId(j, u, y)
  <2>1. Member(u, y)[2] = u.base
    BY DEF Member
  <2>2. Member(u, y) \notin Filled /\ Member(u, y) # final
    BY <1>3, <1>17, <2>1
  <2>3. Member(u, y) \in B
    BY <1>17, <2>2 DEF n
  <2>4. CASE Member(u, y) = a
    BY <1>8, <1>12, <2>4 DEF MemberId
  <2>5. CASE Member(u, y) # a
    BY <1>11, <2>2, <2>3, <2>5 DEF MemberId
  <2> QED
    BY <2>3, <2>4, <2>5
<1>18. id \in Left(t, g, v.id)
  BY <1>2, <1>9
<1>19. ASSUME NEW z \in A, z # a, NEW u, u = ValueAt(j, z)
       PROVE  Intact(k, t, h, buf, u) /\ \A y \in 1 .. u.size : Member(u, y) \in B
  <2>1. Intact(j, t, g, buf, u)
    BY <1>19 DEF Trees
  <2>2. u.id \in DOMAIN t /\ u.base = u.id /\ u.id # v.id
    BY <1>19, <2>1 DEF Intact, Trees
  <2>3. \A y \in 1 .. u.size : Member(u, y) \in A
    BY <1>19 DEF Trees, Closed
  <2>4. \A y \in 1 .. u.size : Member(u, y) \in B /\ MemberId(k, u, y) = MemberId(j, u, y)
    BY <1>1, <1>17, <2>2, <2>3
  <2>5. Left(t, h, u.id) = Left(t, g, u.id)
    <3>1. id \notin Left(t, g, u.id)
      BY <1>1, <1>18, <2>2, LeftParent
    <3> QED
      BY <3>1 DEF Left
  <2>6. {MemberId(k, u, y) : y \in 1 .. u.size} = {MemberId(j, u, y) : y \in 1 .. u.size}
    BY <2>4
  <2>7. InOrder(j, u) => InOrder(k, u)
    BY <2>4 DEF InOrder
  <2> QED
    BY <1>6, <2>1, <2>2, <2>4, <2>5, <2>6, <2>7 DEF Intact
<1>20. Intact(k, t, h, buf, w)
  <2>1. \A y : MemberId(k, w, y) = ValueAt(k, Member(v, y)).id
    BY <1>8 DEF MemberId, Member
  <2>2. \A y \in 1 .. n - 1 : MemberId(k, w, y) = MemberId(j, v, s[y])
    BY <1>10, <2>1 DEF MemberId
  <2>3. {MemberId(j, v, y) : y \in 1 .. n} = Left(t, g, v.id)
    BY <1>1 DEF Intact, n
  <2>4. MemberId(j, v, i) = id
    BY DEF MemberId
  <2>5. ASSUME NEW y \in 1 .. n - 1 PROVE MemberId(k, w, y) \in Left(t, h, v.id)
    <3>1. s[y] \in 1 .. n /\ MemberId(j, v, s[y]) # id
      <4>1. Member(v, s[y]) \in A /\ Member(v, s[y]) # m
        BY <1>10
      <4>2. ValueAt(j, Member(v, s[y])).id # ValueAt(j, m).id
        BY <1>9, <4>1 DEF Trees
      <4> QED
        BY <1>4, <4>2 DEF MemberId
    <3>2. MemberId(j, v, s[y]) \in Left(t, g, v.id)
      BY <2>3, <3>1
    <3> QED
      BY <2>2, <3>1, <3>2 DEF Left
  <2>6. ASSUME NEW q \in Left(t, h, v.id) PROVE \E y \in 1 .. n - 1 : MemberId(k, w, y) = q
    <3>1. q \in Left(t, g, v.id) /\ q # id
      BY <2>6 DEF Left
    <3>2. PICK z \in 1 .. n : MemberId(j, v, z) = q
      BY <2>3, <3>1
    <3>3. z # i
      BY <2>4, <3>1, <3>2
    <3>4. PICK y \in 1 .. n - 1 : s[y] = z
      BY <1>4, <3>3
    <3> QED
      BY <2>2, <3>2, <3>4
  <2>7. {MemberId(k, w, y) : y \in 1 .. w.size} = Left(t, h, w.id)
    BY <1>8, <2>5, <2>6
  <2>8. w.kind = "array" => InOrder(k, w)
    <3> SUFFICES ASSUME w.kind = "array", NEW y \in 1 .. n - 1, NEW z \in 1 .. n - 1, y < z
                 PROVE  PositionOf(MemberId(k, w, y)) < PositionOf(MemberId(k, w, z))
      BY <1>8 DEF InOrder
    <3>1. s[y] < s[z] /\ s[y] \in 1 .. n /\ s[z] \in 1 .. n
      BY <1>4, <1>8 DEF isArray
    <3>2. InOrder(j, v)
      BY <1>1, <1>8 DEF Intact
    <3>3. PositionOf(MemberId(j, v, s[y])) < PositionOf(MemberId(j, v, s[z]))
      BY <3>1, <3>2 DEF InOrder, n
    <3> QED
      BY <2>2, <3>3
  <2> QED
    BY <1>1, <1>6, <1>8, <2>7, <2>8 DEF Intact
<1>21. ASSUME NEW x \in B
       PROVE  /\ Intact(k, t, h, buf, ValueAt(k, x))
              /\ \A y \in 1 .. ValueAt(k, x).size : Member(ValueAt(k, x), y) \in B
  <2>1. CASE x = a
    <3>1. \A y \in 1 .. n - 1 : Member(w, y) \in B
      BY <1>8, <1>10 DEF Member
    <3> QED
      BY <1>8, <1>12, <1>20, <2>1, <3>1
  <2>2. CASE x # a
    <3>1. Source(x) \in A /\ Source(x) # a /\ ValueAt(k, x) = ValueAt(j, Source(x))
      BY <1>13, <2>2
    <3> QED
      BY <1>19, <3>1
  <2> QED
    BY <2>1, <2>2
<1>22. Trees(k, B, t, h, buf)
  <2>1. Closed(k, B)
    BY <1>1, <1>6, <1>12, <1>21 DEF Closed
  <2> QED
    BY <1>15, <1>21, <2>1 DEF Trees
<1>23. Intact(k, t, h, buf, rv) /\ \A y \in 1 .. rv.size : Member(rv, y) \in B
  <2>1. m # a
    BY <1>2, <1>9
  <2> QED
    BY <1>9, <1>19, <2>1
<1> QED
  BY <1>16, <1>22, <1>23 DEF PrunedOK

\* Documents with the same values have the same trees.
LEMMA SameTrees ==
  ASSUME NEW j, NEW k, k.root = j.root, k.pool = j.pool, k.owned = j.owned, k.state = j.state,
         NEW A, NEW t, NEW g, NEW buf, Trees(j, A, t, g, buf)
  PROVE  Trees(k, A, t, g, buf)
<1>1. /\ \A x : ValueAt(k, x) = ValueAt(j, x)
      /\ Closed(k, A)
  BY SameTree DEF Trees
<1>2. \A w, i : MemberId(k, w, i) = MemberId(j, w, i)
  BY <1>1 DEF MemberId
<1>3. ASSUME NEW w, Intact(j, t, g, buf, w)
      PROVE  Intact(k, t, g, buf, w)
  <2>1. {MemberId(k, w, i) : i \in 1 .. w.size} = {MemberId(j, w, i) : i \in 1 .. w.size}
    BY <1>2
  <2>2. InOrder(j, w) => InOrder(k, w)
    BY <1>2 DEF InOrder
  <2> QED
    BY <1>3, <2>1, <2>2 DEF Intact
<1> QED
  BY <1>1, <1>3 DEF Trees

\* The tree of a document that did not parse is the null it was left with.
LEMMA EmptyTree ==
  ASSUME NEW j, DOMAIN j.refs = {}, j.root = NullRoot, NEW mv, NEW g, NEW buf
  PROVE  TreeOK(j, mv, NullText, g, buf)
<1>1. Root \in Alive(j) /\ ValueAt(j, Root) = NullRoot
  <2>1. ValueAt(j, Root) = j.root
    BY AddressKinds DEF ValueAt
  <2> QED
    BY <2>1 DEF Alive
<1>2. \A i \in 1 .. NullRoot.size : FALSE
  BY NullTextFacts
<1>3. Intact(j, NullText, g, buf, NullRoot)
  <2>1. Left(NullText, g, <<>>) = {}
    BY NullTextFacts DEF Left
  <2>2. {MemberId(j, NullRoot, i) : i \in 1 .. NullRoot.size} = {}
    BY <1>2
  <2> QED
    BY <2>1, <2>2, NullTextFacts DEF Intact
<1>4. Closed(j, {Root})
  BY <1>1, <1>2 DEF Closed
<1>5. Trees(j, {Root}, NullText, g, buf)
  BY <1>1, <1>3, <1>4 DEF Trees
<1> QED
  BY <1>5 DEF TreeOK, Texts

\* Those of a document that was parsed are all of its text.
LEMMA LoadedTree ==
  ASSUME NEW j, IsJson(j), DOMAIN j.refs = {}, DOMAIN j.owned = {}, NEW t \in JsonTexts, NEW chars,
         NEW buf, chars \in {<<>>, buf}
  PROVE  TreeOK(Loaded(j, t, chars), {}, t, {}, buf)
<1> DEFINE k == Loaded(j, t, chars)
           A == Alive(k)
<1>1. LoadedOK(k, t, chars)
  BY LoadedFacts
<1> HIDE DEF k
<1>2. /\ k.state = "doc" /\ DOMAIN k.refs = {Root} /\ Root \in A /\ Closed(k, A)
      /\ <<>> \in DOMAIN t /\ ValueAt(k, Root) = Parsed(t, <<>>, chars)
  BY <1>1 DEF LoadedOK
<1>3. \A p \in DOMAIN t : p \in Seq(Nat) /\ \A i \in Members(t, p) : i \in Nat
  BY TextAssumption DEF Members
<1>4. ASSUME NEW p \in DOMAIN t, NEW i \in Members(t, p)
      PROVE  /\ Append(p, i) \in DOMAIN t
             /\ ValueAt(k, <<"slot", p, i>>) = Parsed(t, Append(p, i), chars)
             /\ ValueAt(k, <<"slot", p, i>>).id = Append(p, i)
  <2>1. ValueAt(k, <<"slot", p, i>>) = Parsed(t, Append(p, i), chars)
    BY <1>1 DEF LoadedOK
  <2> DEFINE q == Append(p, i)
  <2>2. q \in DOMAIN t
    BY DEF Members
  <2> HIDE DEF q
  <2>3. Parsed(t, q, chars).id = q
    BY <2>2, TextFacts
  <2> QED
    BY <2>1, <2>2, <2>3 DEF q
<1>5. ASSUME NEW x \in A \ {Root}
      PROVE  \E p \in DOMAIN t : \E i \in Members(t, p) : x = <<"slot", p, i>>
  BY <1>1 DEF LoadedOK
<1>6. \A x, y \in A : ValueAt(k, x).id = ValueAt(k, y).id => x = y
  <2>1. ValueAt(k, Root).id = <<>>
    BY <1>2, TextFacts
  <2>2. ASSUME NEW x \in A \ {Root} PROVE ValueAt(k, x).id # <<>>
    <3>1. PICK p \in DOMAIN t : \E i \in Members(t, p) : x = <<"slot", p, i>>
      BY <1>5
    <3>2. PICK i \in Members(t, p) : x = <<"slot", p, i>>
      BY <3>1
    <3>3. p \in Seq(Nat) /\ i \in Nat
      BY <1>3
    <3>4. Len(Append(p, i)) = Len(p) + 1 /\ Len(p) \in Nat
      BY <3>3, ChildFacts
    <3>5. Append(p, i) # <<>>
      <4>1. Len(<<>>) = 0
        OBVIOUS
      <4>2. Len(Append(p, i)) # 0
        BY <3>4
      <4> QED
        BY ONLY <4>1, <4>2
    <3> QED
      BY <1>4, <3>2, <3>5
  <2>3. ASSUME NEW x \in A \ {Root}, NEW y \in A \ {Root}, ValueAt(k, x).id = ValueAt(k, y).id
        PROVE  x = y
    <3>1. PICK p \in DOMAIN t : \E i \in Members(t, p) : x = <<"slot", p, i>>
      BY <1>5
    <3>2. PICK i \in Members(t, p) : x = <<"slot", p, i>>
      BY <3>1
    <3>3. PICK q \in DOMAIN t : \E l \in Members(t, q) : y = <<"slot", q, l>>
      BY <1>5
    <3>4. PICK l \in Members(t, q) : y = <<"slot", q, l>>
      BY <3>3
    <3>5. p \in Seq(Nat) /\ i \in Nat /\ q \in Seq(Nat) /\ l \in Nat
      BY <1>3
    <3>6. Append(p, i) = Append(q, l)
      BY <1>4, <2>3, <3>2, <3>4
    <3>7. p = q /\ i = l
      <4>1. p = q
        BY <3>5, <3>6, ParentUnique
      <4>2. PositionOf(Append(p, i)) = i /\ PositionOf(Append(q, l)) = l
        BY <3>5, ChildFacts
      <4> QED
        BY <3>6, <4>1, <4>2
    <3> QED
      BY <3>2, <3>4, <3>7
  <2> QED
    BY <2>1, <2>2, <2>3
<1>7. ASSUME NEW p \in DOMAIN t, NEW w, w = Parsed(t, p, chars)
      PROVE  Intact(k, t, {}, buf, w)
  <2>1. w.id = p /\ w.base = p /\ Members(t, p) = 1 .. w.size
    BY <1>7, TextFacts
  <2>2. w.kind = t[p] /\ w.chars = IF t[p] = "string" THEN chars ELSE <<>>
    BY <1>7 DEF Parsed
  <2>3. \A i \in 1 .. w.size : MemberId(k, w, i) = Append(p, i)
    BY <1>4, <2>1 DEF MemberId, Member
  <2>4. {MemberId(k, w, i) : i \in 1 .. w.size} = Left(t, {}, p)
    BY <2>1, <2>3 DEF Left
  <2>5. InOrder(k, w)
    <3> SUFFICES ASSUME NEW i \in 1 .. w.size, NEW l \in 1 .. w.size, i < l
                 PROVE  PositionOf(MemberId(k, w, i)) < PositionOf(MemberId(k, w, l))
      BY DEF InOrder
    <3>1. PositionOf(Append(p, i)) = i /\ PositionOf(Append(p, l)) = l
      BY <1>3, <2>1, ChildFacts
    <3> QED
      BY <2>3, <3>1
  <2> QED
    BY <2>1, <2>2, <2>4, <2>5 DEF Intact
<1>8. ASSUME NEW x \in A PROVE Intact(k, t, {}, buf, ValueAt(k, x))
  <2>1. CASE x = Root
    BY <1>2, <1>7, <2>1
  <2>2. CASE x # Root
    <3>1. PICK p \in DOMAIN t : \E i \in Members(t, p) : x = <<"slot", p, i>>
      BY <1>5, <2>2
    <3>2. PICK i \in Members(t, p) : x = <<"slot", p, i>>
      BY <3>1
    <3> QED
      BY <1>4, <1>7, <3>2
  <2> QED
    BY <2>1, <2>2
<1>9. Trees(k, A, t, {}, buf)
  BY <1>2, <1>6, <1>8 DEF Trees
<1>10. DOMAIN k.refs \ {} \subseteq A
  BY <1>2
<1> HIDE DEF A
<1> QED
  BY <1>2, <1>9, <1>10 DEF TreeOK, Texts, k

\* Handing out a value or a member of it leaves the trees.
LEMMA HandedOutTree ==
  ASSUME NEW j, IsJson(j), NEW mv, NEW t, NEW g, NEW buf, TreeOK(j, mv, t, g, buf),
         NEW a0 \in (DOMAIN j.refs \ mv) \cup {Root}, NEW a \in {a0} \cup MembersAt(j, a0),
         NEW k, k.root = j.root, k.pool = j.pool, k.owned = j.owned, k.state = j.state,
         DOMAIN k.refs = DOMAIN j.refs \cup {a}
  PROVE  TreeOK(k, mv \ {a}, t, g, buf)
<1>1. PICK A : /\ Trees(j, A, t, g, buf) /\ DOMAIN j.refs \ mv \subseteq A
               /\ Root \in A
  BY DEF TreeOK
<1>2. a0 \in A
  BY <1>1
<1>3. a \in A
  BY <1>1, <1>2 DEF Trees, Closed, MembersAt
<1>4. Trees(k, A, t, g, buf)
  BY <1>1, SameTrees
<1>5. DOMAIN k.refs \ (mv \ {a}) \subseteq A
  BY <1>1, <1>3
<1> QED
  BY <1>1, <1>4, <1>5 DEF TreeOK

\* Before and after a removal there are trees (RemovalTrees).
LEMMA RemovedTree ==
  ASSUME NEW j, IsJson(j), NEW mv, NEW t, NEW g, NEW buf, TreeOK(j, mv, t, g, buf),
         NEW a \in (DOMAIN j.refs \ mv) \cup {Root}, NEW i \in 1 .. ValueAt(j, a).size,
         NEW k, CutValues(j, a, i, k)
  PROVE  RemovalTrees(j, k, a, i, mv \cup MovedBy(j, a, i), t, g, buf)
<1> DEFINE v == ValueAt(j, a)
           n == v.size
           final == Member(v, n)
           mv2 == mv \cup MovedBy(j, a, i)
<1>1. PICK A : /\ Trees(j, A, t, g, buf) /\ DOMAIN j.refs \ mv \subseteq A
               /\ Root \in A
  BY DEF TreeOK
<1>2. a \in A /\ a \in Alive(j)
  BY <1>1 DEF Trees, Closed
<1>3. n \in Nat /\ n \in 1 .. n
  <2>1. n \in Nat
    BY <1>2, ValueFacts DEF IsValue
  <2> QED
    BY <2>1
<1> DEFINE B == A \ {final}
<1>4. PrunedOK(j, k, A, B, v, i, t, g, buf)
  <2>1. t \in Texts
    BY DEF TreeOK
  <2> QED
    BY <1>1, <1>2, <2>1, PrunedTrees
<1>5. DOMAIN k.refs = DOMAIN j.refs \ {Member(v, i)}
  BY DEF CutValues
<1>6. final = Member(v, i) \/ final \in MovedBy(j, a, i)
  <2> DEFINE others == IF v.kind = "array" THEN i + 1 .. v.size ELSE {v.size} \ {i}
  <2>1. MovedBy(j, a, i) = {Member(v, y) : y \in others}
    BY DEF MovedBy
  <2>2. n = i \/ n \in others
    BY <1>3
  <2> HIDE DEF others
  <2> QED
    BY <2>1, <2>2
<1>7. DOMAIN k.refs \ mv2 \subseteq B
  BY <1>1, <1>5, <1>6
<1>8. Root \in B
  <2>1. Root # final
    BY AddressKinds DEF Member
  <2> QED
    BY <1>1, <2>1
<1> HIDE DEF B, mv2
<1> QED
  BY <1>1, <1>2, <1>4, <1>7, <1>8 DEF RemovalTrees, mv2

\* The tree that was taken off is one of the document again when it owns it.
LEMMA OwnedTree ==
  ASSUME NEW k, NEW B, NEW t, NEW g, NEW buf, Trees(k, B, t, g, buf),
         NEW w, Intact(k, t, g, buf, w), \A y \in 1 .. w.size : Member(w, y) \in B,
         \A x \in B : ValueAt(k, x).id # w.id,
         NEW own, NEW o, OwnedOK(k, own, w, o)
  PROVE  Trees(o, B \cup {own}, t, g, buf)
<1>1. /\ B \subseteq Alive(k) /\ own \notin B /\ ValueAt(o, own) = w /\ o.state = k.state
      /\ \A x \in B : ValueAt(o, x) = ValueAt(k, x)
      /\ B \cup {own} \subseteq Alive(o)
  BY DEF OwnedOK, Trees, Closed
<1>2. ASSUME NEW u, Intact(k, t, g, buf, u), \A y \in 1 .. u.size : Member(u, y) \in B
      PROVE  Intact(o, t, g, buf, u)
  <2>1. \A y \in 1 .. u.size : MemberId(o, u, y) = MemberId(k, u, y)
    BY <1>1, <1>2 DEF MemberId
  <2>2. {MemberId(o, u, y) : y \in 1 .. u.size} = {MemberId(k, u, y) : y \in 1 .. u.size}
    BY <2>1
  <2>3. InOrder(k, u) => InOrder(o, u)
    BY <2>1 DEF InOrder
  <2> QED
    BY <1>1, <1>2, <2>2, <2>3 DEF Intact
<1>3. ASSUME NEW x \in B \cup {own}
      PROVE  /\ Intact(o, t, g, buf, ValueAt(o, x))
             /\ \A y \in 1 .. ValueAt(o, x).size : Member(ValueAt(o, x), y) \in B
  <2>1. CASE x = own
    BY <1>1, <1>2, <2>1
  <2>2. CASE x \in B
    <3>1. Intact(k, t, g, buf, ValueAt(k, x))
      BY <2>2 DEF Trees
    <3>2. \A y \in 1 .. ValueAt(k, x).size : Member(ValueAt(k, x), y) \in B
      BY <2>2 DEF Trees, Closed
    <3> QED
      BY <1>1, <1>2, <2>2, <3>1, <3>2
  <2> QED
    BY <2>1, <2>2
<1>4. ASSUME NEW x \in B \cup {own}, NEW y \in B \cup {own}, ValueAt(o, x).id = ValueAt(o, y).id
      PROVE  x = y
  <2>1. \A p, q \in B : ValueAt(k, p).id = ValueAt(k, q).id => p = q
    BY DEF Trees
  <2> QED
    BY <1>1, <1>4, <2>1
<1>5. Closed(o, B \cup {own})
  BY <1>1, <1>3 DEF Closed
<1> QED
  BY <1>3, <1>4, <1>5 DEF Trees

-----------------------------------------------------------------------------
(* Documents: the trees of a copy.                                         *)

\* What Accept visits is not above the value it starts from.
LEMMA ReachedDeeper ==
  ASSUME NEW j, IsJson(j), NEW t \in Texts, NEW A, NEW g, NEW buf, Trees(j, A, t, g, buf),
         NEW m \in A, NEW rv, rv = ValueAt(j, m), NEW w \in Reached(j, rv)
  PROVE  /\ Len(w.id) >= Len(rv.id) /\ Len(w.id) \in Nat /\ Len(rv.id) \in Nat
         /\ \E x \in A : ValueAt(j, x) = w
<1> DEFINE C == Containers(j, rv)
           IsClosed(T) == C \cap ({rv} \cup UNION {MembersOf(j, u) : u \in T}) \subseteq T
           T0 == {u \in C : /\ \E x \in A : ValueAt(j, x) = u
                            /\ Len(u.id) \in Nat /\ Len(u.id) >= Len(rv.id)}
<1>1. w \in C /\ \A T \in SUBSET C : IsClosed(T) => w \in T
  BY DEF Reached
<1>2. ASSUME NEW x \in A PROVE ValueAt(j, x).id \in DOMAIN t /\ Len(ValueAt(j, x).id) \in Nat
  <2>1. ValueAt(j, x).id \in DOMAIN t
    BY DEF Trees, Intact
  <2>2. ValueAt(j, x).id \in Seq(Nat)
    BY <2>1, TextsFacts
  <2> QED
    BY <2>1, <2>2, ChildFacts
<1> HIDE DEF C
<1>3. IsClosed(T0)
  <2> SUFFICES ASSUME NEW u \in C, u = rv \/ \E p \in T0 : u \in MembersOf(j, p)
               PROVE  u \in T0
    OBVIOUS
  <2>1. CASE u = rv
    BY <1>2, <2>1
  <2>2. CASE \E p \in T0 : u \in MembersOf(j, p)
    <3>1. PICK p \in T0 : u \in MembersOf(j, p)
      BY <2>2
    <3>2. PICK i \in 1 .. p.size : u = j.pool[p.base][i]
      BY <3>1 DEF MembersOf
    <3>3. PICK x \in A : ValueAt(j, x) = p
      BY <3>1
    <3>4. /\ Member(p, i) \in A /\ p.id \in DOMAIN t
          /\ ValueAt(j, Member(p, i)).id \in Left(t, g, p.id)
      BY <3>3, TreeMember
    <3>5. ValueAt(j, Member(p, i)) = u
      BY <3>2, AddressKinds DEF Member, ValueAt
    <3>6. Len(u.id) = Len(p.id) + 1
      BY <3>4, <3>5, LeftFacts
    <3>7. Len(u.id) \in Nat /\ Len(p.id) \in Nat /\ Len(p.id) >= Len(rv.id) /\ Len(rv.id) \in Nat
      BY <1>2, <3>1, <3>4, <3>5
    <3>8. Len(u.id) >= Len(rv.id)
      BY <3>6, <3>7
    <3> QED
      BY <3>4, <3>5, <3>7, <3>8
  <2> QED
    BY <2>1, <2>2
<1>4. T0 \in SUBSET C
  OBVIOUS
<1>5. w \in T0
  <2> HIDE DEF T0
  <2> QED
    BY <1>1, <1>3, <1>4
<1> QED
  BY <1>2, <1>5

\* The trees of a copy are those below its root.
LEMMA CopyTree ==
  ASSUME NEW j, IsJson(j), NEW t \in Texts, NEW A, NEW g, NEW buf, Trees(j, A, t, g, buf),
         NEW a \in A, NEW v, v = ValueAt(j, a), NEW i \in 1 .. v.size, NEW m, m = Member(v, i),
         NEW rv, rv = ValueAt(j, m), NEW k, CopyOK(j, A, rv, k), NEW other
  PROVE  TreeOK(k, {}, t, g, other)
<1>1. PICK T : /\ Closed(k, T) /\ Root \in T /\ ValueAt(k, Root) = rv
               /\ DOMAIN k.refs = {Root} /\ k.state = "val"
               /\ \A x \in T \ {Root} :
                    /\ x \in A /\ ValueAt(k, x) = ValueAt(j, x)
                    /\ \E w \in Reached(j, rv) : \E y \in 1 .. w.size : x = Member(w, y)
  BY DEF CopyOK
<1>2. /\ m \in A /\ v.id \in DOMAIN t /\ v.base = v.id
      /\ ValueAt(j, m).id \in Left(t, g, v.id)
  BY TreeMember
<1>3. m \notin T
  <2> SUFFICES ASSUME m \in T PROVE FALSE
    OBVIOUS
  <2>1. m # Root /\ m[2] = v.base
    BY AddressKinds DEF Member
  <2>2. PICK w \in Reached(j, rv) : \E y \in 1 .. w.size : m = Member(w, y)
    BY <1>1, <2>1
  <2>3. w.base = v.base
    BY <2>1, <2>2 DEF Member
  <2>4. Len(w.id) >= Len(rv.id) /\ \E x \in A : ValueAt(j, x) = w
    BY <1>2, ReachedDeeper
  <2>5. w.base = w.id
    BY <2>4 DEF Trees, Intact
  <2>6. Len(rv.id) = Len(v.id) + 1 /\ Len(v.id) \in Nat
    BY <1>2, LeftFacts
  <2>7. w.id = v.id
    BY <1>2, <2>3, <2>5
  <2>8. Len(v.id) >= Len(v.id) + 1
    BY <2>4, <2>6, <2>7
  <2> QED
    BY <2>6, <2>8
<1>4. ASSUME NEW u, u.id \in DOMAIN t, \A y \in 1 .. u.size : Member(u, y) \in T,
             Intact(j, t, g, buf, u)
      PROVE  Intact(k, t, g, other, u)
  <2>1. \A y \in 1 .. u.size : MemberId(k, u, y) = MemberId(j, u, y)
    <3> SUFFICES ASSUME NEW y \in 1 .. u.size PROVE MemberId(k, u, y) = MemberId(j, u, y)
      OBVIOUS
    <3>1. Member(u, y) # Root
      BY AddressKinds DEF Member
    <3>2. Member(u, y) \in T \ {Root}
      BY <1>4, <3>1
    <3> QED
      BY <1>1, <3>2 DEF MemberId
  <2>2. {MemberId(k, u, y) : y \in 1 .. u.size} = {MemberId(j, u, y) : y \in 1 .. u.size}
    BY <2>1
  <2>3. InOrder(j, u) => InOrder(k, u)
    BY <2>1 DEF InOrder
  <2>4. k.state # "doc"
    BY <1>1
  <2> QED
    BY <1>4, <2>2, <2>3, <2>4 DEF Intact
<1>5. ASSUME NEW x \in T
      PROVE  \E z \in A : /\ ValueAt(k, x) = ValueAt(j, z) /\ (x = Root => z = m)
                          /\ (x # Root => z = x)
  BY <1>1, <1>2
<1>6. ASSUME NEW x \in T PROVE Intact(k, t, g, other, ValueAt(k, x))
  <2>1. PICK z \in A : ValueAt(k, x) = ValueAt(j, z)
    BY <1>5
  <2>2. Intact(j, t, g, buf, ValueAt(k, x))
    BY <2>1 DEF Trees
  <2>3. \A y \in 1 .. ValueAt(k, x).size : Member(ValueAt(k, x), y) \in T
    BY <1>1 DEF Closed
  <2>4. ValueAt(k, x).id \in DOMAIN t
    BY <2>2 DEF Intact
  <2> QED
    BY <1>4, <2>2, <2>3, <2>4
<1>7. ASSUME NEW x \in T, NEW y \in T, ValueAt(k, x).id = ValueAt(k, y).id
      PROVE  x = y
  <2>1. PICK p \in A : /\ ValueAt(k, x) = ValueAt(j, p) /\ (x = Root => p = m)
                       /\ (x # Root => p = x)
    BY <1>5
  <2>2. PICK q \in A : /\ ValueAt(k, y) = ValueAt(j, q) /\ (y = Root => q = m)
                       /\ (y # Root => q = y)
    BY <1>5
  <2>3. p = q
    BY <1>7, <2>1, <2>2 DEF Trees
  <2> QED
    BY <1>3, <2>1, <2>2, <2>3
<1>8. Trees(k, T, t, g, other)
  BY <1>1, <1>6, <1>7 DEF Trees
<1>9. DOMAIN k.refs \ {} \subseteq T
  BY <1>1
<1> QED
  BY <1>1, <1>8, <1>9 DEF TreeOK

-----------------------------------------------------------------------------
(* Documents: the trees of the specification.                              *)

\* A step that changes one document.
LEMMA OneTreeChanged ==
  ASSUME RJsonOK, TreesOK, NEW d \in Docs, NEW j, NEW mv, NEW t, NEW g, NEW n,
         doc' = [doc EXCEPT ![d] = j], moved' = [moved EXCEPT ![d] = mv],
         text' = [text EXCEPT ![d] = t], gone' = [gone EXCEPT ![d] = g],
         insitu' = [insitu EXCEPT ![d] = n],
         j.state \in {"doc", "val"} => TreeOK(j, mv, t, g, <<d, n>>)
  PROVE  TreesOK'
<1>1. /\ doc'[d] = j /\ moved'[d] = mv /\ text'[d] = t /\ gone'[d] = g /\ insitu'[d] = n
      /\ \A e \in Docs \ {d} : /\ doc'[e] = doc[e] /\ moved'[e] = moved[e] /\ text'[e] = text[e]
                               /\ gone'[e] = gone[e] /\ insitu'[e] = insitu[e]
  BY DEF RJsonOK, TreesOK
<1>2. /\ insitu' = [e \in Docs |-> insitu'[e]] /\ text' = [e \in Docs |-> text'[e]]
      /\ gone' = [e \in Docs |-> gone'[e]]
  BY DEF TreesOK
<1>3. ASSUME NEW e \in Docs, InUse(e)'
      PROVE  TreeOK(doc'[e], moved'[e], text'[e], gone'[e], <<e, insitu'[e]>>)
  <2>1. CASE e = d
    BY <1>1, <1>3, <2>1 DEF InUse
  <2>2. CASE e # d
    <3>1. InUse(e)
      BY <1>1, <1>3, <2>2 DEF InUse
    <3> QED
      BY <1>1, <2>2, <3>1 DEF TreesOK, Buffer
  <2> QED
    BY <2>1, <2>2
<1> QED
  BY <1>2, <1>3 DEF TreesOK, Buffer

\* Parsing into a new document.
LEMMA ParseNewTree ==
  ASSUME RJsonOK, TreesOK, NEW d \in Docs, NEW t \in JsonTexts,
         rjson_parse(d, t) \/ rjson_parse_message(d, t)
  PROVE  TreesOK'
<1>1. PICK chars, n : /\ doc' = [doc EXCEPT ![d] = Loaded(NoDoc, t, chars)]
                      /\ insitu' = [insitu EXCEPT ![d] = n] /\ chars \in {<<>>, <<d, n>>}
  <2>1. CASE rjson_parse(d, t)
    <3>1. insitu' = [insitu EXCEPT ![d] = insitu[d]]
      BY <2>1 DEF rjson_parse, TreesOK
    <3>2. doc' = [doc EXCEPT ![d] = Loaded(NoDoc, t, <<>>)]
      BY <2>1 DEF rjson_parse
    <3> QED
      BY <3>1, <3>2
  <2>2. CASE rjson_parse_message(d, t)
    BY <2>2 DEF rjson_parse_message, json_decode
  <2> QED
    BY <2>1, <2>2
<1>2. Forget(d, t)
  BY DEF rjson_parse, rjson_parse_message
<1>3. TreeOK(Loaded(NoDoc, t, chars), {}, t, {}, <<d, n>>)
  BY <1>1, NoDocFacts, LoadedTree
<1>4. /\ moved' = [moved EXCEPT ![d] = {}] /\ gone' = [gone EXCEPT ![d] = {}]
      /\ text' = [text EXCEPT ![d] = t]
  BY <1>2 DEF Forget
<1> QED
  BY <1>1, <1>3, <1>4, OneTreeChanged

\* The program ends.
LEMMA DyingTree ==
  ASSUME TreesOK, Died
  PROVE  TreesOK'
<1>1. /\ doc' = [d \in Docs |-> [NoDoc EXCEPT !.state = "gone"]]
      /\ UNCHANGED <<insitu, text, gone>>
  BY DEF Died, history
<1>2. \A d \in Docs : ~InUse(d)'
  BY <1>1 DEF InUse, NoDoc
<1> QED
  BY <1>1, <1>2 DEF TreesOK

\* Parsing into a document there is already.
LEMMA ParseAgainTree ==
  ASSUME RJsonOK, TreesOK, NEW d \in Docs, NEW t \in JsonTexts, NEW ok, NEW result,
         rjson_dparse(d, t, ok) \/ rjson_dparse_message(d, t, result), ~Died
  PROVE  TreesOK'
<1> DEFINE k == Cleared(doc[d])
<1>1. PICK j, n, u : /\ doc' = [doc EXCEPT ![d] = j] /\ insitu' = [insitu EXCEPT ![d] = n]
                     /\ Forget(d, u)
                     /\ \/ j = k /\ u = NullText
                        \/ u = t /\ \E chars \in {<<>>, <<d, n>>} : j = Loaded(k, t, chars)
  <2>1. CASE rjson_dparse(d, t, ok)
    <3>1. insitu' = [insitu EXCEPT ![d] = insitu[d]]
      BY <2>1 DEF rjson_dparse, NullDocument, TreesOK
    <3>2. /\ doc' = [doc EXCEPT ![d] = IF ok THEN Loaded(k, t, <<>>) ELSE k]
          /\ Forget(d, IF ok THEN t ELSE NullText)
      BY <2>1 DEF rjson_dparse, NullDocument, RJsonOK
    <3> HIDE DEF k
    <3>3. CASE ok
      BY <3>1, <3>2, <3>3
    <3>4. CASE ~ok
      BY <3>1, <3>2, <3>4
    <3> QED
      BY <3>3, <3>4
  <2>2. CASE rjson_dparse_message(d, t, result)
    <3> DEFINE n == IF result = "missing" THEN insitu[d] ELSE parses + 1
               chars == <<d, parses + 1>>
    <3>1. insitu' = [insitu EXCEPT ![d] = n]
      BY <2>2 DEF rjson_dparse_message, NullDocument, TreesOK
    <3>2. /\ doc' = [doc EXCEPT ![d] = IF result = "ok" THEN Loaded(k, t, chars) ELSE k]
          /\ Forget(d, IF result = "ok" THEN t ELSE NullText)
      BY <2>2 DEF rjson_dparse_message, NullDocument, json_decode, RJsonOK
    <3>3. result = "ok" => chars = <<d, n>>
      OBVIOUS
    <3> HIDE DEF k, n, chars
    <3>4. CASE result = "ok"
      BY <3>1, <3>2, <3>3, <3>4
    <3>5. CASE result # "ok"
      BY <3>1, <3>2, <3>5
    <3> QED
      BY <3>4, <3>5
  <2> QED
    BY <2>1, <2>2
<1>2. InUse(d)
  BY DEF rjson_dparse, rjson_dparse_message, NullDocument, InUse
<1>3. IsJson(k) /\ DOMAIN k.refs = {} /\ DOMAIN k.owned = {} /\ k.root = NullRoot
  <2>1. IsJson(doc[d])
    BY <1>2 DEF RJsonOK, DocOK
  <2> QED
    BY <2>1, ClearedFacts
<1> HIDE DEF k
<1>4. TreeOK(j, {}, u, {}, <<d, n>>)
  BY <1>1, <1>3, EmptyTree, LoadedTree
<1>5. /\ moved' = [moved EXCEPT ![d] = {}] /\ gone' = [gone EXCEPT ![d] = {}]
      /\ text' = [text EXCEPT ![d] = u]
  BY <1>1 DEF Forget
<1> QED
  BY <1>1, <1>4, <1>5, OneTreeChanged

\* Handing out a value Lua may use, or a member of it.
LEMMA HandOutTree ==
  ASSUME RJsonOK, TreesOK, NEW d \in Docs, InUse(d), NEW a \in check_value(d),
         NEW m \in {a} \cup MembersAt(doc[d], a), HandedOut(d, doc[d], m)
  PROVE  TreesOK'
<1> DEFINE refs == IF m \in DOMAIN doc[d].refs THEN doc[d].refs ELSE With(doc[d].refs, m, FALSE)
           j == [doc[d] EXCEPT !.refs = refs]
           mv == moved[d] \ {m}
<1>1. /\ IsJson(doc[d]) /\ TreeOK(doc[d], moved[d], text[d], gone[d], Buffer(d))
      /\ a \in (DOMAIN doc[d].refs \ moved[d]) \cup {Root}
  BY DEF RJsonOK, DocOK, TreesOK, check_value
<1>2. /\ doc' = [doc EXCEPT ![d] = j] /\ moved' = [moved EXCEPT ![d] = mv]
      /\ text' = [text EXCEPT ![d] = text[d]] /\ gone' = [gone EXCEPT ![d] = gone[d]]
      /\ insitu' = [insitu EXCEPT ![d] = insitu[d]]
  BY DEF HandedOut, RJsonOK, TreesOK
<1>3. DOMAIN refs = DOMAIN doc[d].refs \cup {m}
  BY WithFacts
<1> HIDE DEF refs
<1>4. /\ j.root = doc[d].root /\ j.pool = doc[d].pool /\ j.owned = doc[d].owned
      /\ j.state = doc[d].state /\ j.refs = refs
  <2>1. doc[d] = [state |-> doc[d].state, root |-> doc[d].root,
                  pool |-> doc[d].pool, refs |-> doc[d].refs, owned |-> doc[d].owned]
    BY <1>1 DEF IsJson
  <2> QED
    BY <2>1
<1> HIDE DEF j, mv
<1>5. TreeOK(j, mv, text[d], gone[d], <<d, insitu[d]>>)
  BY <1>1, <1>3, <1>4, HandedOutTree DEF mv, Buffer
<1> QED
  BY <1>2, <1>5, OneTreeChanged

\* Removing a member into a document of its own.
LEMMA RemoveDeepTree ==
  ASSUME RJsonOK, TreesOK, NEW d \in Docs, InUse(d), NEW a \in check_value(d),
         NEW i \in 1 .. ValueAt(doc[d], a).size, NEW new \in Docs, rjson_remove(d, a, i, new)
  PROVE  TreesOK'
<1> DEFINE j == doc[d]
           v == ValueAt(j, a)
           m == Member(v, i)
           rv == ValueAt(j, m)
           k == Removed(j, a, i)
           mv == moved[d] \cup MovedBy(j, a, i)
           copy == CopyOf(j, rv)
           g == gone[d] \cup {rv.id}
<1>1. /\ DocOK(j, moved[d], latest[d]) /\ a \in (DOMAIN j.refs \ moved[d]) \cup {Root}
      /\ IsJson(j) /\ TreeOK(j, moved[d], text[d], gone[d], Buffer(d)) /\ text[d] \in Texts
  BY Checked DEF RJsonOK, TreesOK, TreeOK, DocOK
<1>2. d # new
  BY DEF rjson_remove, InUse
<1>3. /\ doc' = [doc EXCEPT ![d] = k, ![new] = copy]
      /\ moved' = [moved EXCEPT ![d] = mv, ![new] = {}]
      /\ gone' = [gone EXCEPT ![d] = g, ![new] = gone[d]]
      /\ text' = [text EXCEPT ![new] = text[d]] /\ insitu' = insitu
  BY DEF rjson_remove, remove_value, RJsonOK, TreesOK, CopyOf
<1> HIDE DEF j, k, mv, copy, v
<1>4. CutValues(j, a, i, k)
  <2>1. RemovalOK(j, a, i, moved[d], latest[d])
    BY <1>1, RemovedFacts DEF v, j
  <2> QED
    BY <2>1 DEF RemovalOK, k
<1>5. PICK A, B : /\ a \in A /\ Trees(j, A, text[d], gone[d], Buffer(d))
                  /\ PrunedOK(j, k, A, B, v, i, text[d], gone[d], Buffer(d))
                  /\ DOMAIN k.refs \ mv \subseteq B /\ Root \in B
  <2>1. RemovalTrees(j, k, a, i, mv, text[d], gone[d], Buffer(d))
    BY <1>1, <1>4, RemovedTree DEF v, mv, j
  <2> QED
    BY <2>1 DEF RemovalTrees, v
<1>6. TreeOK(k, mv, text[d], g, Buffer(d))
  BY <1>1, <1>5 DEF PrunedOK, TreeOK
<1>7. TreeOK(copy, {}, text[d], gone[d], Buffer(new))
  <2>1. i \in 1 .. v.size /\ v = ValueAt(j, a)
    BY DEF v, j
  <2>2. m \in A
    BY <1>5, <2>1 DEF Trees, Closed
  <2>3. CopyOK(j, A, rv, copy)
    BY <1>1, <1>5, <2>2, CopyFacts DEF Trees, copy
  <2> QED
    BY <1>1, <1>5, <2>1, <2>3, CopyTree
<1> HIDE DEF g
<1>8. /\ doc'[d] = k /\ doc'[new] = copy /\ moved'[d] = mv /\ moved'[new] = {}
      /\ gone'[d] = g /\ gone'[new] = gone[d] /\ text'[d] = text[d] /\ text'[new] = text[d]
      /\ \A e \in Docs \ {d, new} :
           doc'[e] = doc[e] /\ moved'[e] = moved[e] /\ text'[e] = text[e] /\ gone'[e] = gone[e]
  BY <1>2, <1>3 DEF RJsonOK, TreesOK
<1>9. text' = [e \in Docs |-> text'[e]] /\ gone' = [e \in Docs |-> gone'[e]]
  BY <1>3 DEF TreesOK
<1>10. ASSUME NEW e \in Docs, InUse(e)'
       PROVE  TreeOK(doc'[e], moved'[e], text'[e], gone'[e], Buffer(e))
  <2>1. CASE e = d
    BY <1>6, <1>8, <2>1
  <2>2. CASE e = new
    BY <1>7, <1>8, <2>2
  <2>3. CASE e \notin {d, new}
    <3>1. InUse(e)
      BY <1>8, <1>10, <2>3 DEF InUse
    <3> QED
      BY <1>8, <2>3, <3>1 DEF TreesOK
  <2> QED
    BY <2>1, <2>2, <2>3
<1> QED
  BY <1>3, <1>9, <1>10 DEF TreesOK, Buffer

\* Removing a member into a value the document owns.
LEMMA RemoveShallowTree ==
  ASSUME RJsonOK, TreesOK, NEW d \in Docs, InUse(d), NEW a \in check_value(d),
         NEW i \in 1 .. ValueAt(doc[d], a).size, rjson_remove_shallow(d, a, i)
  PROVE  TreesOK'
<1> DEFINE j == doc[d]
           v == ValueAt(j, a)
           m == Member(v, i)
           rv == ValueAt(j, m)
           own == <<"own", rv.id>>
           k == Removed(j, a, i)
           mv == moved[d] \cup MovedBy(j, a, i)
           owner == OwnerOf(k, own, rv)
           g == gone[d] \cup {rv.id}
<1>1. /\ DocOK(j, moved[d], latest[d]) /\ a \in (DOMAIN j.refs \ moved[d]) \cup {Root}
      /\ IsJson(j) /\ TreeOK(j, moved[d], text[d], gone[d], Buffer(d)) /\ text[d] \in Texts
  BY Checked DEF RJsonOK, TreesOK, TreeOK, DocOK
<1>2. /\ doc' = [doc EXCEPT ![d] = owner] /\ moved' = [moved EXCEPT ![d] = mv]
      /\ text' = [text EXCEPT ![d] = text[d]] /\ gone' = [gone EXCEPT ![d] = g]
      /\ insitu' = [insitu EXCEPT ![d] = insitu[d]] /\ own \notin DOMAIN j.owned
  BY DEF rjson_remove_shallow, remove_value, RJsonOK, TreesOK, OwnerOf
<1> HIDE DEF j, k, mv, owner, v
<1>3. RemovalOK(j, a, i, moved[d], latest[d])
  BY <1>1, RemovedFacts DEF v, j
<1>4. /\ CutValues(j, a, i, k) /\ DOMAIN k.owned = DOMAIN j.owned /\ DocOK(k, mv, latest[d])
      /\ \E S : Closed(j, S) /\ Closed(k, S) /\ m \in S /\ Usable(k, mv) \subseteq S
  BY <1>3 DEF RemovalOK, k, mv, v
<1>5. PICK A, B : /\ a \in A /\ Trees(j, A, text[d], gone[d], Buffer(d))
                  /\ PrunedOK(j, k, A, B, v, i, text[d], gone[d], Buffer(d))
                  /\ DOMAIN k.refs \ mv \subseteq B /\ Root \in B
  <2>1. RemovalTrees(j, k, a, i, mv, text[d], gone[d], Buffer(d))
    BY <1>1, <1>4, RemovedTree DEF v, mv, j
  <2> QED
    BY <2>1 DEF RemovalTrees, v
<1>6. /\ Trees(k, B, text[d], g, Buffer(d)) /\ \A x \in B : ValueAt(k, x).id # rv.id
      /\ Intact(k, text[d], g, Buffer(d), rv) /\ \A y \in 1 .. rv.size : Member(rv, y) \in B
  BY <1>5 DEF PrunedOK
<1> HIDE DEF g
<1>7. OwnedOK(k, own, rv, owner)
  <2>1. PICK S : Closed(j, S) /\ Closed(k, S) /\ m \in S /\ Usable(k, mv) \subseteq S
    BY <1>4
  <2>2. IsValue(rv) /\ \A y \in 1 .. rv.size : Member(rv, y) \in S
    BY <1>1, <2>1, ValueFacts DEF Closed
  <2>3. own[1] = "own" /\ own \notin DOMAIN k.owned
    BY <1>2, <1>4, AddressKinds
  <2> HIDE DEF rv, own
  <2> QED
    BY <1>4, <2>1, <2>2, <2>3, OwnedFacts DEF owner
<1> HIDE DEF rv, own
<1>8. Trees(owner, B \cup {own}, text[d], g, Buffer(d))
  BY <1>6, <1>7, OwnedTree
<1>9. /\ DOMAIN owner.refs \ mv \subseteq B \cup {own}
      /\ Root \in B \cup {own}
  BY <1>5, <1>7 DEF OwnedOK
<1>10. TreeOK(owner, mv, text[d], g, <<d, insitu[d]>>)
  BY <1>1, <1>8, <1>9 DEF TreeOK, Buffer
<1> QED
  BY <1>2, <1>10, OneTreeChanged

\* Every step keeps the trees.
LEMMA TreesStep ==
  ASSUME RJsonOK, TreesOK, [RJsonNext]_rjsonVars
  PROVE  TreesOK'
<1>1. ASSUME NEW d \in Docs, NEW t \in JsonTexts, rjson_parse(d, t) \/ rjson_parse_message(d, t)
      PROVE  TreesOK'
  BY <1>1, ParseNewTree
<1>2. ASSUME NEW d \in Docs, InUse(d), OnDocument(d)
      PROVE  TreesOK'
  <2>1. ASSUME NEW a \in check_value(d), NEW b \in {a} \cup MembersAt(doc[d], a), rjson_find(d, a, b)
        PROVE  TreesOK'
    <3>1. HandedOut(d, doc[d], b)
      BY <2>1 DEF rjson_find
    <3> QED
      BY <1>2, <2>1, <3>1, HandOutTree
  <2>2. ASSUME NEW a \in check_value(d), NEW i \in 1 .. ValueAt(doc[d], a).size,
               NEW new \in Docs, rjson_remove(d, a, i, new)
        PROVE  TreesOK'
    BY <1>2, <2>2, RemoveDeepTree
  <2>3. ASSUME NEW a \in check_value(d), NEW i \in 1 .. ValueAt(doc[d], a).size,
               rjson_remove_shallow(d, a, i)
        PROVE  TreesOK'
    BY <1>2, <2>3, RemoveShallowTree
  <2>4. ASSUME NEW a \in check_value(d), rjson_iter(d, a)
        PROVE  TreesOK'
    <3>1. UNCHANGED <<doc, moved, text, gone, insitu>>
      BY <2>4 DEF rjson_iter, history
    <3> QED
      BY <3>1 DEF TreesOK, InUse, Buffer
  <2>5. ASSUME NEW t \in JsonTexts, NEW ok \in BOOLEAN, rjson_dparse(d, t, ok)
        PROVE  TreesOK'
    BY <2>5, ParseAgainTree, DyingTree
  <2>6. ASSUME NEW t \in JsonTexts, NEW result \in {"ok", "missing", "inflate", "parse"},
               rjson_dparse_message(d, t, result)
        PROVE  TreesOK'
    BY <2>6, ParseAgainTree, DyingTree
  <2>7. ASSUME rjson_gc(d)
        PROVE  TreesOK'
    <3> DEFINE j == [NoDoc EXCEPT !.state = "gone"]
    <3>1. j.state = "gone"
      BY DEF NoDoc
    <3>2. /\ doc' = [doc EXCEPT ![d] = j] /\ moved' = [moved EXCEPT ![d] = moved[d]]
          /\ text' = [text EXCEPT ![d] = text[d]] /\ gone' = [gone EXCEPT ![d] = gone[d]]
          /\ insitu' = [insitu EXCEPT ![d] = 0]
      BY <2>7 DEF rjson_gc, history, RJsonOK, TreesOK
    <3> HIDE DEF j
    <3> QED
      BY <3>1, <3>2, OneTreeChanged
  <2> QED
    BY <1>2, <2>1, <2>2, <2>3, <2>4, <2>5, <2>6, <2>7 DEF OnDocument
<1>3. CASE IterNext
  <2> DEFINE d == iter.d
             a == Upcoming(doc[d])
  <2>1. d \in Docs /\ InUse(d)
    BY <1>3 DEF IterNext, RJsonOK, IterOK
  <2>2. CASE IterStep(d, a)
    <3>1. CASE iter.a \in check_value(d) /\ a \in MembersAt(doc[d], iter.a)
      <4>1. HandedOut(d, doc[d], a)
        BY <2>2, <3>1 DEF IterStep
      <4> HIDE DEF d, a
      <4> QED
        BY <2>1, <3>1, <4>1, HandOutTree
    <3>2. CASE ~(iter.a \in check_value(d) /\ a \in MembersAt(doc[d], iter.a))
      <4>1. UNCHANGED <<doc, moved, text, gone, insitu>>
        BY <2>2, <3>2 DEF IterStep, history
      <4> QED
        BY <4>1 DEF TreesOK, InUse, Buffer
    <3> QED
      BY <3>1, <3>2
  <2>3. CASE IterEnd
    <3>1. UNCHANGED <<doc, moved, text, gone, insitu>>
      BY <2>3 DEF IterEnd, history
    <3> QED
      BY <3>1 DEF TreesOK, InUse, Buffer
  <2>4. CASE Died
    BY <2>4, DyingTree
  <2> QED
    BY <1>3, <2>2, <2>3, <2>4 DEF IterNext
<1>4. CASE UNCHANGED rjsonVars
  BY <1>4 DEF rjsonVars, history, TreesOK, InUse, Buffer
<1> QED
  BY <1>1, <1>2, <1>3, <1>4 DEF RJsonNext

\* What Accept visits is in the trees.
LEMMA Accepted ==
  ASSUME NEW j, IsJson(j), NEW t \in Texts, NEW A, NEW g, NEW buf, Trees(j, A, t, g, buf),
         NEW a \in A, NEW v \in Accept(j, ValueAt(j, a))
  PROVE  \E x \in A : ValueAt(j, x) = v
<1> DEFINE rv == ValueAt(j, a)
<1>1. CASE v = rv
  BY <1>1
<1>2. CASE v # rv
  <2>1. PICK w \in Reached(j, rv) : v \in MembersOf(j, w)
    BY <1>2 DEF Accept
  <2>2. PICK i \in 1 .. w.size : v = j.pool[w.base][i]
    BY <2>1 DEF MembersOf
  <2>3. PICK x \in A : ValueAt(j, x) = w
    BY <2>1, ReachedDeeper
  <2>4. Member(w, i) \in A
    BY <2>3 DEF Trees, Closed
  <2>5. ValueAt(j, Member(w, i)) = v
    BY <2>2, AddressKinds DEF Member, ValueAt
  <2> QED
    BY <2>4, <2>5
<1> QED
  BY <1>1, <1>2

\* A value in the trees has as many members as are left of it.
LEMMA TreeSize ==
  ASSUME NEW j, IsJson(j), NEW t \in Texts, NEW A, NEW g, NEW buf, Trees(j, A, t, g, buf),
         NEW a \in A, NEW v, v = ValueAt(j, a)
  PROVE  Cardinality(Left(t, g, v.id)) = v.size
<1> DEFINE n == v.size
           left == Left(t, g, v.id)
           f == [i \in 1 .. n |-> MemberId(j, v, i)]
<1>1. n \in Nat
  BY ValueFacts DEF Trees, Closed, IsValue
<1>2. {MemberId(j, v, i) : i \in 1 .. n} = left
  BY DEF Trees, Intact
<1>3. ASSUME NEW i \in 1 .. n, NEW k \in 1 .. n, MemberId(j, v, i) = MemberId(j, v, k)
      PROVE  i = k
  <2>1. Member(v, i) \in A /\ Member(v, k) \in A
    BY DEF Trees, Closed
  <2>2. Member(v, i) = Member(v, k)
    BY <1>3, <2>1 DEF Trees, MemberId
  <2> QED
    BY <2>2 DEF Member
<1> HIDE DEF n, left
<1>4. ExistsBijection(1 .. n, left)
  <2>1. f \in [1 .. n -> left]
    BY <1>2
  <2>2. f \in Injection(1 .. n, left)
    BY <1>3, <2>1 DEF Injection, IsInjective
  <2>3. f \in Surjection(1 .. n, left)
    BY <1>2, <2>1 DEF Surjection
  <2> QED
    BY <2>2, <2>3 DEF ExistsBijection, Bijection
<1>5. IsFiniteSet(1 .. n) /\ Cardinality(1 .. n) = n
  <2>1. IsFiniteSet(1 .. n) /\ Cardinality(1 .. n) = IF 1 <= n THEN n - 1 + 1 ELSE 0
    BY <1>1, FS_Interval
  <2> QED
    BY <1>1, <2>1
<1> QED
  BY <1>4, <1>5, FS_Bijection DEF n, left

\* What is written of a value in the trees is what its text has.
LEMMA TreeWritten ==
  ASSUME RJsonOK, TreesOK, NEW d \in Docs, InUse(d), NEW a \in check_value(d),
         NEW v \in output_rjson(rjson_make_field(d, a)),
         NEW j, j = doc[d],
         NEW members, members = [i \in 1 .. v.size |->
                                   IF v.base \in DOMAIN j.pool THEN j.pool[v.base][i].id ELSE Null.id],
         NEW left, left = Left(text[d], gone[d], v.base)
  PROVE  /\ rjson_type(v) = text[d][v.id]
         /\ v.kind \in {"array", "object"} =>
              /\ rjson_size(v) = Cardinality(left) /\ Range(members) = left
              /\ v.kind = "array" =>
                   \A i, k \in 1 .. v.size : i < k => PositionOf(members[i]) < PositionOf(members[k])
         /\ v.kind = "string" /\ j.state = "doc" => rjson_value(d, v) = v.id
<1> DEFINE t == text[d]
           g == gone[d]
           buf == Buffer(d)
<1>1. IsJson(j) /\ TreeOK(j, moved[d], t, g, buf) /\ t \in Texts
  BY DEF RJsonOK, DocOK, TreesOK, TreeOK
<1>2. a \in DOMAIN j.refs \ moved[d] /\ v \in Accept(j, ValueAt(j, a))
  <2>1. output_rjson(rjson_make_field(d, a)) =
          IF a \in DOMAIN j.refs THEN Accept(j, ValueAt(j, a)) ELSE {}
    BY DEF output_rjson, rjson_make_field
  <2> QED
    BY <2>1 DEF check_value
<1>3. PICK A : Trees(j, A, t, g, buf) /\ DOMAIN j.refs \ moved[d] \subseteq A
  BY <1>1 DEF TreeOK
<1> HIDE DEF t, g, buf
<1>4. PICK x \in A : v = ValueAt(j, x)
  <2>1. a \in A
    BY <1>2, <1>3
  <2> QED
    BY <1>1, <1>2, <1>3, <2>1, Accepted
<1>5. Intact(j, t, g, buf, v)
  BY <1>3, <1>4 DEF Trees
<1>6. left = Left(t, g, v.id) /\ v.kind = t[v.id]
  BY <1>5 DEF Intact, t, g
<1>7. ASSUME NEW i \in 1 .. v.size PROVE members[i] = MemberId(j, v, i)
  <2>1. Member(v, i) \in Alive(j)
    BY <1>3, <1>4 DEF Trees, Closed
  <2>2. v.base \in DOMAIN j.pool
    BY <1>1, <2>1, MemberAlive
  <2>3. MemberId(j, v, i) = j.pool[v.base][i].id
    BY AddressKinds DEF MemberId, Member, ValueAt
  <2> QED
    BY <2>2, <2>3
<1>8. Range(members) = left
  <2>1. DOMAIN members = 1 .. v.size
    OBVIOUS
  <2>2. {MemberId(j, v, i) : i \in 1 .. v.size} = left
    BY <1>5, <1>6 DEF Intact
  <2>3. Range(members) = {members[i] : i \in 1 .. v.size}
    BY <2>1 DEF Range
  <2>4. {members[i] : i \in 1 .. v.size} = {MemberId(j, v, i) : i \in 1 .. v.size}
    BY <1>7
  <2> QED
    BY <2>2, <2>3, <2>4
<1>9. v.kind = "array" =>
        \A i, k \in 1 .. v.size : i < k => PositionOf(members[i]) < PositionOf(members[k])
  BY <1>5, <1>7 DEF Intact, InOrder
<1>10. v.kind \in {"array", "object"} => rjson_size(v) = Cardinality(left)
  <2>1. Cardinality(left) = v.size
    BY <1>1, <1>3, <1>4, <1>6, TreeSize
  <2> QED
    BY <2>1 DEF rjson_size
<1>11. v.kind = "string" /\ j.state = "doc" => rjson_value(d, v) = v.id
  BY <1>5 DEF Intact, rjson_value, buf, Buffer
<1>12. rjson_type(v) = text[d][v.id]
  BY <1>6 DEF rjson_type, t
<1> QED
  BY <1>8, <1>9, <1>10, <1>11, <1>12

\* No document is in use at first.
LEMMA TreesStart == RJsonInit => TreesOK
BY DEF RJsonInit, TreesOK, NoDoc, InUse

\* What is written of an accepted value is what its text has there, less what was
\* removed.
THEOREM TreesSafe == RJsonSpec => []TreesIntact
<1>1. RJsonInit => RJsonOK /\ TreesOK
  BY RJsonStart, TreesStart
<1>2. (RJsonOK /\ TreesOK) /\ [RJsonNext]_rjsonVars => (RJsonOK /\ TreesOK)'
  BY RJsonStep, TreesStep
<1>3. RJsonOK /\ TreesOK => TreesIntact
  BY TreeWritten DEF TreesIntact
<1> QED
  BY <1>1, <1>2, <1>3, PTL DEF RJsonSpec

-----------------------------------------------------------------------------
(* Parquet: one column in the course of a dissection.                      *)

\* A column field by field.
LEMMA ColumnFields ==
  ASSUME NEW col \in Column
  PROVE  /\ col.rlevels \in Seq(Nat) /\ col.dlevels \in Seq(Nat)
         /\ col.values \in Seq(Datum) /\ col.bytes \in Seq(Datum)
         /\ col.num_values \in Nat /\ col.rec_num \in Nat
         /\ col.rec_r_items \in Nat /\ col.rec_d_items \in Nat /\ col.rec_v_items \in Nat
BY DEF Column

\* T is S, perhaps with the next number.
Grown(n, S, T) ==
  S \subseteq 1 .. n /\ T \subseteq 1 .. n + 1 /\ \A i \in 1 .. n : i \in T <=> i \in S

\* Counting the numbers up to one more.
LEMMA CountMore ==
  ASSUME NEW n \in Nat, NEW S, NEW T, Grown(n, S, T)
  PROVE  /\ Cardinality(S) \in Nat
         /\ n + 1 \in T => Cardinality(T) = Cardinality(S) + 1
         /\ n + 1 \notin T => Cardinality(T) = Cardinality(S)
<1> USE DEF Grown
<1>1. IsFiniteSet(S)
  <2>1. IsFiniteSet(1 .. n)
    BY FS_Interval
  <2> QED
    BY <2>1, FS_Subset
<1>2. \A i \in 1 .. n + 1 : i \in 1 .. n \/ i = n + 1
  OBVIOUS
<1>3. n + 1 \notin S
  OBVIOUS
<1>4. CASE n + 1 \in T
  <2>1. T = S \cup {n + 1}
    BY <1>2, <1>4
  <2> QED
    BY <1>1, <1>3, <1>4, <2>1, FS_AddElement, FS_CardinalityType
<1>5. CASE n + 1 \notin T
  <2>1. T = S
    BY <1>2, <1>5
  <2> QED
    BY <1>1, <1>5, <2>1, FS_CardinalityType
<1> QED
  BY <1>4, <1>5

\* What Append does.
LEMMA AppendFacts ==
  ASSUME NEW A, NEW t \in Seq(A), NEW x \in A
  PROVE  Longer(Append(t, x), t, x) /\ Append(t, x) \in Seq(A) /\ Len(t) \in Nat
BY DEF Longer

\* A sequence that extends another one still does with one more element.
LEMMA ExtendsMore ==
  ASSUME NEW A, NEW s \in Seq(A), NEW t \in Seq(A), NEW k \in Nat, Extends(t, s, k), NEW x \in A
  PROVE  Longer(Append(t, x), t, x) /\ Extends(Append(t, x), s, k + 1)
<1>1. /\ Append(t, x) \in Seq(A) /\ Len(Append(t, x)) = Len(t) + 1
      /\ \A i \in 1 .. Len(t) : Append(t, x)[i] = t[i]
      /\ Append(t, x)[Len(t) + 1] = x
  OBVIOUS
<1>2. Len(t) = Len(s) + k /\ SubSeq(t, 1, Len(s)) = s /\ Len(s) \in Nat /\ Len(t) \in Nat
  BY DEF Extends
<1>3. SubSeq(Append(t, x), 1, Len(s)) = SubSeq(t, 1, Len(s))
  BY <1>1, <1>2
<1> QED
  BY <1>1, <1>2, <1>3 DEF Extends, Longer
\* The column after an entry was added, and what that is field by field.
Added(col, n, s) == update_levels(AddData(col, n, s.x), n, s)

\* An added entry changes the fields as AddedOK says.
LEMMA AddedFields ==
  ASSUME NEW col \in Column, NEW n, LeafOK(n), NEW s, EntryOK(s, n)
  PROVE  AddedOK(Added(col, n, s), col, n, s)
<1> DEFINE data == AddData(col, n, s.x)
<1>1. /\ data \in Column
      /\ data.rlevels = col.rlevels /\ data.dlevels = col.dlevels
      /\ data.num_values = col.num_values /\ data.rec_num = col.rec_num
      /\ data.rec_r_items = col.rec_r_items /\ data.rec_d_items = col.rec_d_items
      /\ s.x = NULL => /\ data.values = col.values /\ data.bytes = col.bytes
                       /\ data.rec_v_items = col.rec_v_items
      /\ s.x # NULL => /\ \E v \in Datum : data.values = Append(col.values, v)
                                           /\ StoredAs(v, data, col, n, s)
                       /\ data.rec_v_items = col.rec_v_items + 1
  <2>1. CASE s.x = NULL
    BY <2>1 DEF AddData
  <2>2. CASE s.x # NULL
    <3> DEFINE bytes == IF n.name \in ByRef THEN Append(col.bytes, s.x) ELSE col.bytes
               v == IF n.name \in ByRef THEN Len(col.bytes) + 1 ELSE s.x
    <3>1. bytes \in Seq(Datum)
      BY DEF Column, EntryOK
    <3>2. v \in Datum
      <4>1. Len(col.bytes) \in Nat
        BY DEF Column
      <4> QED
        BY <4>1 DEF Datum, EntryOK
    <3>3. data = [col EXCEPT !.bytes = bytes, !.values = Append(@, v), !.rec_v_items = @ + 1]
      BY <2>2 DEF AddData
    <3> HIDE DEF data, bytes, v
    <3>4. Append(col.values, v) \in Seq(Datum)
      BY <3>2 DEF Column
    <3>5. data = [rlevels |-> col.rlevels, dlevels |-> col.dlevels,
                  values |-> Append(col.values, v), bytes |-> bytes,
                  num_values |-> col.num_values, rec_num |-> col.rec_num,
                  rec_r_items |-> col.rec_r_items, rec_d_items |-> col.rec_d_items,
                  rec_v_items |-> col.rec_v_items + 1]
      BY <3>3 DEF Column
    <3>6. data \in Column
      BY <3>1, <3>4, <3>5 DEF Column
    <3>7. StoredAs(v, data, col, n, s)
      BY <3>5 DEF StoredAs, v, bytes
    <3> QED
      BY <2>2, <3>2, <3>5, <3>6, <3>7
  <2> QED
    BY <2>1, <2>2
<1> DEFINE rl == IF n.rl > 0 THEN Append(data.rlevels, s.r) ELSE data.rlevels
           rr == IF n.rl > 0 THEN data.rec_r_items + 1 ELSE data.rec_r_items
           dls == IF n.dl > 0 THEN Append(data.dlevels, s.d) ELSE data.dlevels
           rd == IF n.dl > 0 THEN data.rec_d_items + 1 ELSE data.rec_d_items
           new == Added(col, n, s)
<1>2. new = [data EXCEPT !.num_values = @ + 1, !.rlevels = rl, !.rec_r_items = rr,
                         !.dlevels = dls, !.rec_d_items = rd]
  BY DEF Added, update_levels
<1> HIDE DEF data
<1>3. rl \in Seq(Nat) /\ dls \in Seq(Nat) /\ rr \in Nat /\ rd \in Nat
  <2>1. /\ data.rlevels \in Seq(Nat) /\ data.dlevels \in Seq(Nat)
        /\ data.rec_r_items \in Nat /\ data.rec_d_items \in Nat
    BY <1>1, ColumnFields
  <2>2. s.r \in Nat /\ s.d \in Nat
    BY DEF EntryOK, LeafOK
  <2>3. rl \in Seq(Nat)
    BY <2>1, <2>2
  <2>4. dls \in Seq(Nat)
    BY <2>1, <2>2
  <2>5. rr \in Nat /\ rd \in Nat
    BY <2>1
  <2> QED
    BY <2>3, <2>4, <2>5
<1>4. /\ rl = IF n.rl > 0 THEN Append(col.rlevels, s.r) ELSE col.rlevels
      /\ rr = IF n.rl > 0 THEN col.rec_r_items + 1 ELSE col.rec_r_items
      /\ dls = IF n.dl > 0 THEN Append(col.dlevels, s.d) ELSE col.dlevels
      /\ rd = IF n.dl > 0 THEN col.rec_d_items + 1 ELSE col.rec_d_items
  BY <1>1
<1> HIDE DEF rl, rr, dls, rd, new
<1>7. new = [rlevels |-> rl, dlevels |-> dls, values |-> data.values, bytes |-> data.bytes,
             num_values |-> data.num_values + 1, rec_num |-> data.rec_num,
             rec_r_items |-> rr, rec_d_items |-> rd, rec_v_items |-> data.rec_v_items]
  BY <1>1, <1>2 DEF Column
<1>5. /\ new \in Column /\ new.num_values = data.num_values + 1 /\ new.rec_num = data.rec_num
      /\ new.rlevels = rl /\ new.rec_r_items = rr /\ new.dlevels = dls /\ new.rec_d_items = rd
      /\ new.values = data.values /\ new.rec_v_items = data.rec_v_items
      /\ new.bytes = data.bytes
  <2>1. /\ data.values \in Seq(Datum) /\ data.bytes \in Seq(Datum)
        /\ data.num_values + 1 \in Nat /\ data.rec_num \in Nat /\ data.rec_v_items \in Nat
    BY <1>1, ColumnFields
  <2>2. new \in Column
    BY <1>3, <1>7, <2>1 DEF Column
  <2> QED
    BY <1>7, <2>2
<1>6. new = Added(col, n, s)
  BY DEF new
<1>8. \A v : StoredAs(v, data, col, n, s) => StoredAs(v, new, col, n, s)
  BY <1>5 DEF StoredAs
<1> QED
  BY <1>1, <1>4, <1>5, <1>6, <1>8 DEF AddedOK

\* An entry more: the counters and the levels go on together.
LEMMA EntryAdded ==
  ASSUME NEW b \in Column, NEW col, NEW n, LeafOK(n), NEW num \in Nat, NEW started \in Nat,
         InFlight(col, b, n, num, started), NEW s, EntryOK(s, n)
  PROVE  InFlight(Added(col, n, s), b, n, num,
                  IF n.rl = 0 \/ s.r = 0 THEN started + 1 ELSE started)
<1> DEFINE new == Added(col, n, s)
           m == col.num_values
           more == IF n.rl = 0 \/ s.r = 0 THEN started + 1 ELSE started
           Def(c) == {i \in 1 .. c.num_values : n.dl = 0 \/ c.dlevels[i] = n.dl}
           Sta(c) == {i \in 1 .. c.num_values : n.rl = 0 \/ c.rlevels[i] = 0}
<1>1. /\ col \in Column /\ col.rec_num = num /\ ColumnAligned(col, n, started)
      /\ Extends(col.rlevels, b.rlevels, col.rec_r_items)
      /\ Extends(col.dlevels, b.dlevels, col.rec_d_items)
      /\ Extends(col.values, b.values, col.rec_v_items)
      /\ m - b.num_values \in Nat
      /\ col.rec_r_items = IF n.rl > 0 THEN m - b.num_values ELSE 0
      /\ col.rec_d_items = IF n.dl > 0 THEN m - b.num_values ELSE 0
      /\ col.rec_v_items <= m - b.num_values
      /\ n.dl = 0 => col.rec_v_items = m - b.num_values
  BY DEF InFlight
<1>2. /\ new \in Column
      /\ new.num_values = m + 1 /\ new.rec_num = col.rec_num
      /\ new.rlevels = IF n.rl > 0 THEN Append(col.rlevels, s.r) ELSE col.rlevels
      /\ new.rec_r_items = IF n.rl > 0 THEN col.rec_r_items + 1 ELSE col.rec_r_items
      /\ new.dlevels = IF n.dl > 0 THEN Append(col.dlevels, s.d) ELSE col.dlevels
      /\ new.rec_d_items = IF n.dl > 0 THEN col.rec_d_items + 1 ELSE col.rec_d_items
      /\ s.x = NULL => new.values = col.values /\ new.rec_v_items = col.rec_v_items
      /\ s.x # NULL => /\ \E v \in Datum : new.values = Append(col.values, v)
                       /\ new.rec_v_items = col.rec_v_items + 1
  <2>1. AddedOK(new, col, n, s)
    BY <1>1, AddedFields
  <2> HIDE DEF new
  <2> QED
    BY <2>1 DEF AddedOK
<1>3. /\ m \in Nat /\ b.num_values \in Nat /\ n.rl \in Nat /\ n.dl \in Nat /\ n.rl <= n.dl
      /\ s.r \in Nat /\ s.d \in Nat /\ (s.x # NULL <=> n.dl = 0 \/ n.dl = s.d)
      /\ col.rec_r_items \in Nat /\ col.rec_d_items \in Nat /\ col.rec_v_items \in Nat
  <2>1. /\ m \in Nat /\ b.num_values \in Nat
        /\ col.rec_r_items \in Nat /\ col.rec_d_items \in Nat /\ col.rec_v_items \in Nat
    BY <1>1 DEF Column
  <2>2. n.rl \in Nat /\ n.dl \in Nat /\ n.rl <= n.dl
    BY DEF LeafOK
  <2>3. s.r \in Nat /\ s.d \in 0 .. n.dl /\ (s.x # NULL <=> s.d = n.dl)
    BY DEF EntryOK
  <2>4. n.dl = 0 => s.d = n.dl
    BY <2>2, <2>3
  <2> QED
    BY <2>1, <2>2, <2>3, <2>4
<1>4. /\ b.rlevels \in Seq(Nat) /\ b.dlevels \in Seq(Nat) /\ b.values \in Seq(Datum)
      /\ col.rlevels \in Seq(Nat) /\ col.dlevels \in Seq(Nat) /\ col.values \in Seq(Datum)
  BY <1>1 DEF Column
<1>5. /\ n.rl > 0 => Len(col.rlevels) = m
      /\ n.dl > 0 => Len(col.dlevels) = m
      /\ Len(col.values) = Cardinality(Def(col)) /\ Cardinality(Sta(col)) = started
  BY <1>1 DEF ColumnAligned
<1> HIDE DEF new, m
<1>6. n.rl > 0 => /\ Len(new.rlevels) = m + 1 /\ new.rlevels[m + 1] = s.r
                  /\ \A i \in 1 .. m : new.rlevels[i] = col.rlevels[i]
                  /\ Extends(new.rlevels, b.rlevels, new.rec_r_items)
  <2> SUFFICES ASSUME n.rl > 0
               PROVE  /\ Longer(new.rlevels, col.rlevels, s.r)
                      /\ Extends(new.rlevels, b.rlevels, new.rec_r_items)
    BY <1>5 DEF Longer
  <2>1. new.rlevels = Append(col.rlevels, s.r) /\ new.rec_r_items = col.rec_r_items + 1
    BY <1>2
  <2>2. /\ b.rlevels \in Seq(Nat) /\ col.rlevels \in Seq(Nat)
        /\ col.rec_r_items \in Nat /\ s.r \in Nat
        /\ Extends(col.rlevels, b.rlevels, col.rec_r_items)
    BY <1>1, <1>3, <1>4
  <2> QED
    BY <2>1, <2>2, ExtendsMore
<1>7. n.dl > 0 => /\ Len(new.dlevels) = m + 1 /\ new.dlevels[m + 1] = s.d
                  /\ \A i \in 1 .. m : new.dlevels[i] = col.dlevels[i]
                  /\ Extends(new.dlevels, b.dlevels, new.rec_d_items)
  <2> SUFFICES ASSUME n.dl > 0
               PROVE  /\ Longer(new.dlevels, col.dlevels, s.d)
                      /\ Extends(new.dlevels, b.dlevels, new.rec_d_items)
    BY <1>5 DEF Longer
  <2>1. new.dlevels = Append(col.dlevels, s.d) /\ new.rec_d_items = col.rec_d_items + 1
    BY <1>2
  <2>2. /\ b.dlevels \in Seq(Nat) /\ col.dlevels \in Seq(Nat)
        /\ col.rec_d_items \in Nat /\ s.d \in Nat
        /\ Extends(col.dlevels, b.dlevels, col.rec_d_items)
    BY <1>1, <1>3, <1>4
  <2> QED
    BY <2>1, <2>2, ExtendsMore
<1>8. /\ Extends(new.values, b.values, new.rec_v_items)
      /\ Len(new.values) = IF s.x = NULL THEN Len(col.values) ELSE Len(col.values) + 1
  <2>1. CASE s.x = NULL
    BY <1>1, <1>2, <2>1
  <2>2. CASE s.x # NULL
    <3>1. PICK v \in Datum : new.values = Append(col.values, v)
      BY <1>2, <2>2
    <3>2. /\ Longer(new.values, col.values, v)
          /\ Extends(new.values, b.values, col.rec_v_items + 1)
      BY <1>1, <1>3, <1>4, <3>1, ExtendsMore
    <3> QED
      BY <1>2, <2>2, <3>2 DEF Longer
  <2> QED
    BY <2>1, <2>2
<1>9. Extends(new.rlevels, b.rlevels, new.rec_r_items)
  BY <1>1, <1>2, <1>3, <1>6
<1>10. Extends(new.dlevels, b.dlevels, new.rec_d_items)
  BY <1>1, <1>2, <1>3, <1>7
<1>11. Len(new.values) = Cardinality(Def(new))
  <2>1. Def(col) \subseteq 1 .. m /\ Def(new) \subseteq 1 .. m + 1
    BY <1>2 DEF m
  <2>2. \A i \in 1 .. m : i \in Def(new) <=> i \in Def(col)
    <3>1. \A i \in 1 .. m : i \in 1 .. col.num_values /\ i \in 1 .. new.num_values
      BY <1>2, <1>3 DEF m
    <3>2. n.dl = 0 \/ \A i \in 1 .. m : new.dlevels[i] = col.dlevels[i]
      BY <1>3, <1>7
    <3> QED
      BY <3>1, <3>2
  <2>3. m + 1 \in Def(new) <=> s.x # NULL
    <3>1. m + 1 \in 1 .. new.num_values
      BY <1>2, <1>3
    <3>2. n.dl = 0 \/ new.dlevels[m + 1] = s.d
      BY <1>3, <1>7
    <3> QED
      BY <1>3, <3>1, <3>2
  <2> HIDE DEF Def
  <2>4. /\ m + 1 \in Def(new) => Cardinality(Def(new)) = Cardinality(Def(col)) + 1
        /\ m + 1 \notin Def(new) => Cardinality(Def(new)) = Cardinality(Def(col))
    BY <1>3, <2>1, <2>2, CountMore DEF Grown
  <2> QED
    BY <1>5, <1>8, <2>3, <2>4
<1>12. Cardinality(Sta(new)) = more
  <2>1. Sta(col) \subseteq 1 .. m /\ Sta(new) \subseteq 1 .. m + 1
    BY <1>2 DEF m
  <2>2. \A i \in 1 .. m : i \in Sta(new) <=> i \in Sta(col)
    <3>1. \A i \in 1 .. m : i \in 1 .. col.num_values /\ i \in 1 .. new.num_values
      BY <1>2, <1>3 DEF m
    <3>2. n.rl = 0 \/ \A i \in 1 .. m : new.rlevels[i] = col.rlevels[i]
      BY <1>3, <1>6
    <3> QED
      BY <3>1, <3>2
  <2>3. m + 1 \in Sta(new) <=> n.rl = 0 \/ s.r = 0
    <3>1. m + 1 \in 1 .. new.num_values
      BY <1>2, <1>3
    <3>2. n.rl = 0 \/ new.rlevels[m + 1] = s.r
      BY <1>3, <1>6
    <3> QED
      BY <1>3, <3>1, <3>2
  <2> HIDE DEF Sta
  <2>4. /\ m + 1 \in Sta(new) => Cardinality(Sta(new)) = Cardinality(Sta(col)) + 1
        /\ m + 1 \notin Sta(new) => Cardinality(Sta(new)) = Cardinality(Sta(col))
    BY <1>3, <2>1, <2>2, CountMore DEF Grown
  <2> QED
    BY <1>5, <2>3, <2>4
<1>13. ColumnAligned(new, n, more)
  <2>1. n.rl > 0 => Len(new.rlevels) = new.num_values
    BY <1>2, <1>6
  <2>2. n.dl > 0 => Len(new.dlevels) = new.num_values
    BY <1>2, <1>7
  <2> HIDE DEF more
  <2> QED
    BY <2>1, <2>2, <1>11, <1>12 DEF ColumnAligned
<1>14. /\ new.num_values - b.num_values \in Nat
       /\ new.num_values - b.num_values = (m - b.num_values) + 1
  <2>1. new.num_values = m + 1 /\ m - b.num_values \in Nat
    BY <1>1, <1>2
  <2> QED
    BY <1>3, <2>1
<1>15. /\ new.rec_r_items = IF n.rl > 0 THEN new.num_values - b.num_values ELSE 0
       /\ new.rec_d_items = IF n.dl > 0 THEN new.num_values - b.num_values ELSE 0
       /\ new.rec_v_items <= new.num_values - b.num_values
       /\ n.dl = 0 => new.rec_v_items = new.num_values - b.num_values
  <2> DEFINE added == m - b.num_values
  <2>1. /\ col.rec_r_items = IF n.rl > 0 THEN added ELSE 0
        /\ col.rec_d_items = IF n.dl > 0 THEN added ELSE 0
        /\ col.rec_v_items <= added /\ (n.dl = 0 => col.rec_v_items = added)
        /\ added \in Nat /\ new.num_values - b.num_values = added + 1
    BY <1>1, <1>14
  <2>2. /\ n.rl \in Nat /\ n.dl \in Nat /\ col.rec_v_items \in Nat
        /\ s.x # NULL <=> n.dl = 0 \/ n.dl = s.d
    BY <1>3
  <2> HIDE DEF added
  <2>3. new.rec_r_items = IF n.rl > 0 THEN added + 1 ELSE 0
    BY <1>2, <2>1, <2>2
  <2>4. new.rec_d_items = IF n.dl > 0 THEN added + 1 ELSE 0
    BY <1>2, <2>1, <2>2
  <2>5. new.rec_v_items <= added + 1 /\ (n.dl = 0 => new.rec_v_items = added + 1)
    <3>1. CASE s.x = NULL
      BY <1>2, <2>1, <2>2, <3>1
    <3>2. CASE s.x # NULL
      BY <1>2, <2>1, <2>2, <3>2
    <3> QED
      BY <3>1, <3>2
  <2> QED
    BY <2>1, <2>3, <2>4, <2>5
<1> HIDE DEF more
<1>16. InFlight(new, b, n, num, more)
  BY <1>1, <1>2, <1>8, <1>9, <1>10, <1>13, <1>14, <1>15 DEF InFlight
<1> QED
  BY <1>16 DEF new, more

\* The first touch of a column in a record.
LEMMA TouchedFirst ==
  ASSUME NEW b, NEW n, LeafOK(n), NEW num \in Nat, NEW started,
         Settled(b, n, num, started)
  PROVE  InFlight(reset_record(b, num), b, n, num, started)
<1> DEFINE new == reset_record(b, num)
<1>1. b \in Column /\ ColumnAligned(b, n, started)
  BY DEF Settled
<1>2. new = [rlevels |-> b.rlevels, dlevels |-> b.dlevels, values |-> b.values,
             bytes |-> b.bytes, num_values |-> b.num_values, rec_num |-> num,
             rec_r_items |-> 0, rec_d_items |-> 0, rec_v_items |-> 0]
  <2>1. CASE b.rec_num = num
    <3>1. b.rec_r_items = 0 /\ b.rec_d_items = 0 /\ b.rec_v_items = 0
      BY <2>1 DEF Settled
    <3> QED
      BY <1>1, <2>1, <3>1 DEF reset_record, Column
  <2>2. CASE b.rec_num # num
    BY <1>1, <2>2 DEF reset_record, Column
  <2> QED
    BY <2>1, <2>2
<1> HIDE DEF new
<1>3. new \in Column
  BY <1>1, <1>2 DEF Column
<1>4. ColumnAligned(new, n, started)
  BY <1>1, <1>2 DEF ColumnAligned
<1>5. /\ Extends(new.rlevels, b.rlevels, 0) /\ Extends(new.dlevels, b.dlevels, 0)
      /\ Extends(new.values, b.values, 0)
  BY <1>1, <1>2 DEF Extends, Column
<1>6. new.num_values - b.num_values = 0 /\ b.num_values \in Nat
  BY <1>1, <1>2 DEF Column
<1>7. InFlight(new, b, n, num, started)
  BY <1>2, <1>3, <1>4, <1>5, <1>6 DEF InFlight
<1> QED
  BY <1>7 DEF new

-----------------------------------------------------------------------------
(* What a reader finds in it.                                              *)

\* An entry with a value has one.
LEMMA PositionInValues ==
  ASSUME NEW col \in Column, NEW n, NEW m, ColumnAligned(col, n, m),
         NEW i \in 1 .. col.num_values, n.dl = 0 \/ col.dlevels[i] = n.dl
  PROVE  Cardinality(DefinedBy(col, n, i)) \in 1 .. Len(col.values)
<1> DEFINE D(k) == DefinedBy(col, n, k)
<1>1. col.num_values \in Nat /\ i \in Nat /\ Len(col.values) = Cardinality(D(col.num_values))
  BY DEF Column, ColumnAligned, DefinedBy
<1>2. IsFiniteSet(D(col.num_values)) /\ D(i) \subseteq D(col.num_values)
  <2>1. IsFiniteSet(1 .. col.num_values) /\ D(col.num_values) \subseteq 1 .. col.num_values
    <3>1. IsFiniteSet(1 .. col.num_values)
      BY <1>1, FS_Interval
    <3>2. D(col.num_values) \subseteq 1 .. col.num_values
      BY DEF DefinedBy
    <3> QED
      BY <3>1, <3>2
  <2>2. D(i) \subseteq D(col.num_values)
    BY <1>1 DEF DefinedBy
  <2> QED
    BY <2>1, <2>2, FS_Subset
<1>3. i \in D(i)
  BY <1>1 DEF DefinedBy
<1> HIDE DEF D
<1>4. IsFiniteSet(D(i)) /\ Cardinality(D(i)) <= Cardinality(D(col.num_values))
  BY <1>2, FS_Subset
<1>5. Cardinality(D(i)) \in Nat /\ Cardinality(D(i)) # 0 /\ Cardinality(D(col.num_values)) \in Nat
  BY <1>2, <1>3, <1>4, FS_CardinalityType, FS_EmptySet
<1>6. Cardinality(D(i)) \in 1 .. Len(col.values)
  BY <1>1, <1>4, <1>5
<1> QED
  BY <1>6 DEF D

\* The levels at i.
LEMMA LevelFacts ==
  ASSUME NEW col \in Column, NEW n, LeafOK(n), NEW m, ColumnAligned(col, n, m), Readable(col, n),
         NEW i \in 1 .. col.num_values
  PROVE  /\ n.dl \in Nat /\ (n.dl > 0 => col.dlevels[i] \in Nat /\ col.dlevels[i] <= n.dl)
         /\ n.rl \in Nat /\ (n.rl > 0 => col.rlevels[i] \in Nat)
<1>1. n.dl \in Nat /\ n.rl \in Nat
  BY DEF LeafOK
<1>2. col.dlevels \in Seq(Nat) /\ col.rlevels \in Seq(Nat)
  BY ColumnFields
<1>3. n.dl > 0 => col.dlevels[i] \in Nat /\ col.dlevels[i] <= n.dl
  <2>1. n.dl > 0 => Len(col.dlevels) = col.num_values /\ col.dlevels[i] <= n.dl
    BY DEF ColumnAligned, Readable
  <2> QED
    BY <1>2, <2>1
<1>4. n.rl > 0 => col.rlevels[i] \in Nat
  <2>1. n.rl > 0 => Len(col.rlevels) = col.num_values
    BY DEF ColumnAligned
  <2> QED
    BY <1>2, <2>1
<1> QED
  BY <1>1, <1>3, <1>4

\* What a reader finds at i, field by field.
LEMMA EntryFields ==
  ASSUME NEW col \in Column, NEW n, LeafOK(n), NEW m, ColumnAligned(col, n, m), Readable(col, n),
         NEW i \in 1 .. col.num_values
  PROVE  LET defined == n.dl = 0 \/ col.dlevels[i] = n.dl
             v == col.values[Cardinality(DefinedBy(col, n, i))]
         IN ColumnEntries(col, n)[i] =
              [r |-> IF n.rl > 0 THEN col.rlevels[i] ELSE 0,
               d |-> IF n.dl > 0 THEN col.dlevels[i] ELSE 0,
               x |-> IF ~defined THEN NULL ELSE IF n.name \in ByRef THEN col.bytes[v] ELSE v]
<1> DEFINE d == IF n.dl > 0 THEN col.dlevels[i] ELSE 0
           r == IF n.rl > 0 THEN col.rlevels[i] ELSE 0
           v == col.values[Cardinality(DefinedBy(col, n, i))]
           w == IF n.name \in ByRef THEN col.bytes[v] ELSE v
           defined == n.dl = 0 \/ col.dlevels[i] = n.dl
<1>1. d < n.dl <=> ~defined
  <2>1. n.dl \in Nat /\ (n.dl > 0 => col.dlevels[i] \in Nat /\ col.dlevels[i] <= n.dl)
    BY LevelFacts
  <2>2. CASE n.dl = 0
    BY <2>2
  <2>3. CASE n.dl > 0
    BY <2>1, <2>3
  <2> QED
    BY <2>1, <2>2, <2>3
<1>2. ColumnEntries(col, n)[i] = [r |-> r, d |-> d, x |-> IF d < n.dl THEN NULL ELSE w]
  BY DEF ColumnEntries, DefinedBy
<1> HIDE DEF d, r, w, defined
<1>3. ColumnEntries(col, n)[i] = [r |-> r, d |-> d, x |-> IF ~defined THEN NULL ELSE w]
  BY <1>1, <1>2
<1> QED
  BY <1>3 DEF d, r, w, defined

\* The entries are entries.
LEMMA EntriesTyped ==
  ASSUME NEW col \in Column, NEW n, LeafOK(n), NEW m, ColumnAligned(col, n, m), Readable(col, n)
  PROVE  ColumnEntries(col, n) \in Seq(ColumnEntry) /\ Len(ColumnEntries(col, n)) = col.num_values
<1>0. col.num_values \in Nat
  BY DEF Column
<1>1. ASSUME NEW i \in 1 .. col.num_values PROVE ColumnEntries(col, n)[i] \in ColumnEntry
  <2> DEFINE defined == n.dl = 0 \/ col.dlevels[i] = n.dl
             v == col.values[Cardinality(DefinedBy(col, n, i))]
             r == IF n.rl > 0 THEN col.rlevels[i] ELSE 0
             d == IF n.dl > 0 THEN col.dlevels[i] ELSE 0
             x == IF ~defined THEN NULL ELSE IF n.name \in ByRef THEN col.bytes[v] ELSE v
  <2>1. r \in Nat
    BY LevelFacts
  <2>2. d \in Nat
    BY LevelFacts
  <2>3. x \in Datum
    <3>1. CASE ~defined
      BY <3>1 DEF Datum
    <3>2. CASE defined
      <4>1. Cardinality(DefinedBy(col, n, i)) \in 1 .. Len(col.values)
        BY <3>2, PositionInValues
      <4>2. v \in Datum /\ (n.name \in ByRef => v \in 1 .. Len(col.bytes))
        BY <4>1 DEF Readable, Column
      <4> HIDE DEF v
      <4>3. n.name \in ByRef => col.bytes[v] \in Datum
        BY <4>2 DEF Column
      <4> QED
        BY <3>2, <4>2, <4>3
    <3> QED
      BY <3>1, <3>2
  <2>4. ColumnEntries(col, n)[i] = [r |-> r, d |-> d, x |-> x]
    BY EntryFields
  <2> HIDE DEF r, d, x
  <2> QED
    BY <2>1, <2>2, <2>3, <2>4 DEF ColumnEntry
<1>2. ColumnEntries(col, n) = [i \in 1 .. col.num_values |-> ColumnEntries(col, n)[i]]
  BY DEF ColumnEntries
<1> DEFINE es == ColumnEntries(col, n)
<1>3. es \in Seq(ColumnEntry) /\ Len(es) = col.num_values
  <2>1. /\ \A i \in 1 .. col.num_values : es[i] \in ColumnEntry
        /\ es = [i \in 1 .. col.num_values |-> es[i]]
    BY <1>1, <1>2
  <2> HIDE DEF es
  <2>2. es \in [1 .. col.num_values -> ColumnEntry]
    BY <2>1
  <2> QED
    BY <1>0, <2>2
<1> QED
  BY <1>3

\* They are not changed by what comes after them.
LEMMA EntriesKept ==
  ASSUME NEW col \in Column, NEW n, LeafOK(n), NEW m, ColumnAligned(col, n, m), Readable(col, n),
         NEW new \in Column, NEW m2, ColumnAligned(new, n, m2), Readable(new, n),
         Keeps(new, col, n)
  PROVE  \A i \in 1 .. col.num_values : ColumnEntries(new, n)[i] = ColumnEntries(col, n)[i]
<1> SUFFICES ASSUME NEW i \in 1 .. col.num_values
             PROVE  ColumnEntries(new, n)[i] = ColumnEntries(col, n)[i]
  OBVIOUS
<1>1. i \in 1 .. new.num_values /\ i \in Nat /\ n.dl \in Nat /\ n.rl \in Nat
  <2>1. col.num_values \in Nat /\ new.num_values \in Nat
    BY ColumnFields
  <2>2. col.num_values <= new.num_values
    BY DEF Keeps
  <2> QED
    BY <2>1, <2>2 DEF LeafOK
<1>2. n.dl = 0 \/ \A j \in 1 .. i : new.dlevels[j] = col.dlevels[j]
  <2>1. 1 .. i \subseteq 1 .. col.num_values
    <3>1. col.num_values \in Nat
      BY DEF Column
    <3> QED
      BY <1>1, <3>1
  <2> QED
    BY <1>1, <2>1 DEF Keeps
<1>3. DefinedBy(new, n, i) = DefinedBy(col, n, i)
  BY <1>2 DEF DefinedBy
<1> DEFINE defined(c) == n.dl = 0 \/ c.dlevels[i] = n.dl
           v(c) == c.values[Cardinality(DefinedBy(c, n, i))]
           r(c) == IF n.rl > 0 THEN c.rlevels[i] ELSE 0
           d(c) == IF n.dl > 0 THEN c.dlevels[i] ELSE 0
           x(c) == IF ~defined(c) THEN NULL
                   ELSE IF n.name \in ByRef THEN c.bytes[v(c)] ELSE v(c)
<1>4. r(new) = r(col) /\ d(new) = d(col) /\ (defined(new) <=> defined(col))
  BY <1>1 DEF Keeps
<1>5. x(new) = x(col)
  <2>1. CASE ~defined(col)
    BY <1>4, <2>1
  <2>2. CASE defined(col)
    <3>1. Cardinality(DefinedBy(col, n, i)) \in 1 .. Len(col.values)
      BY <2>2, PositionInValues
    <3>2. v(new) = v(col) /\ (n.name \in ByRef => v(col) \in 1 .. Len(col.bytes))
      BY <1>3, <3>1 DEF Keeps, Readable
    <3> HIDE DEF v
    <3>3. n.name \in ByRef => new.bytes[v(new)] = col.bytes[v(col)]
      BY <3>2 DEF Keeps
    <3> QED
      BY <1>4, <2>2, <3>2, <3>3
  <2> QED
    BY <2>1, <2>2
<1>6. ColumnEntries(new, n)[i] = [r |-> r(new), d |-> d(new), x |-> x(new)]
  BY <1>1, EntryFields
<1>7. ColumnEntries(col, n)[i] = [r |-> r(col), d |-> d(col), x |-> x(col)]
  BY EntryFields
<1> HIDE DEF r, d, x
<1> QED
  BY <1>4, <1>5, <1>6, <1>7

\* To touch a column changes nothing of what a reader finds in it.
LEMMA TouchedReads ==
  ASSUME NEW b, NEW n, LeafOK(n), NEW num \in Nat, NEW started,
         Settled(b, n, num, started)
  PROVE  Reads(reset_record(b, num), b, n, <<>>)
<1> DEFINE new == reset_record(b, num)
<1>1. b \in Column /\ ColumnAligned(b, n, started) /\ Readable(b, n)
  BY DEF Settled
<1>2. /\ new.rlevels = b.rlevels /\ new.dlevels = b.dlevels /\ new.values = b.values
      /\ new.bytes = b.bytes /\ new.num_values = b.num_values
  BY <1>1 DEF reset_record, Column
<1> HIDE DEF new
<1>3. ColumnEntries(new, n) = ColumnEntries(b, n)
  BY <1>2 DEF ColumnEntries
<1>4. ColumnEntries(b, n) = ColumnEntries(b, n) \o <<>>
  <2>1. ColumnEntries(b, n) \in Seq(ColumnEntry)
    BY <1>1, EntriesTyped
  <2> QED
    BY <2>1
<1>5. Readable(new, n)
  BY <1>1, <1>2 DEF Readable
<1>6. Len(b.bytes) \in Nat
  BY <1>1 DEF Column
<1>7. Reads(new, b, n, <<>>)
  BY <1>2, <1>3, <1>4, <1>5, <1>6 DEF Reads
<1> QED
  BY <1>7 DEF new

\* An added entry is read after those before it.
LEMMA AddedReads ==
  ASSUME NEW b \in Column, NEW col, NEW n, LeafOK(n), NEW m, ColumnAligned(b, n, m),
         Readable(b, n), NEW num \in Nat, NEW started \in Nat, InFlight(col, b, n, num, started),
         NEW es \in Seq(ColumnEntry), Reads(col, b, n, es), NEW s, EntryOK(s, n)
  PROVE  Reads(Added(col, n, s), b, n, Append(es, EntryOf(s, n)))
<1> DEFINE new == Added(col, n, s)
           k == col.num_values
           more == IF n.rl = 0 \/ s.r = 0 THEN started + 1 ELSE started
<1>1. col \in Column /\ ColumnAligned(col, n, started) /\ Readable(col, n)
  BY DEF InFlight, Reads
<1>2. AddedOK(new, col, n, s)
  BY <1>1, AddedFields
<1>3. new \in Column /\ ColumnAligned(new, n, more)
  <2>1. InFlight(new, b, n, num, more)
    BY EntryAdded
  <2> HIDE DEF new, more
  <2> QED
    BY <2>1 DEF InFlight
<1> HIDE DEF new, more
<1>4. /\ k \in Nat /\ new.num_values = k + 1
      /\ n.rl > 0 => new.rlevels = Append(col.rlevels, s.r) /\ Len(col.rlevels) = k
      /\ n.dl > 0 => new.dlevels = Append(col.dlevels, s.d) /\ Len(col.dlevels) = k
      /\ s.x = NULL => new.values = col.values /\ new.bytes = col.bytes
      /\ s.x # NULL => \E v \in Datum : new.values = Append(col.values, v)
                                      /\ StoredAs(v, new, col, n, s)
  BY <1>1, <1>2 DEF AddedOK, Column, ColumnAligned
<1>5. /\ n.rl \in Nat /\ n.dl \in Nat /\ s.r \in Nat /\ s.d \in Nat /\ s.d <= n.dl
      /\ s.x \in Datum /\ (s.x # NULL <=> s.d = n.dl)
  BY DEF LeafOK, EntryOK
<1>6. /\ col.rlevels \in Seq(Nat) /\ col.dlevels \in Seq(Nat)
      /\ col.values \in Seq(Datum) /\ col.bytes \in Seq(Datum)
  BY <1>1 DEF Column
<1>7. n.rl > 0 => /\ \A i \in 1 .. k : new.rlevels[i] = col.rlevels[i]
                  /\ new.rlevels[k + 1] = s.r
  <2> SUFFICES ASSUME n.rl > 0 PROVE Longer(new.rlevels, col.rlevels, s.r)
    BY <1>4 DEF Longer
  <2>1. new.rlevels = Append(col.rlevels, s.r)
    BY <1>4
  <2>2. col.rlevels \in Seq(Nat) /\ s.r \in Nat
    BY <1>5, <1>6
  <2> QED
    BY <2>1, <2>2, AppendFacts
<1>8. n.dl > 0 => /\ \A i \in 1 .. k : new.dlevels[i] = col.dlevels[i]
                  /\ new.dlevels[k + 1] = s.d
  <2> SUFFICES ASSUME n.dl > 0 PROVE Longer(new.dlevels, col.dlevels, s.d)
    BY <1>4 DEF Longer
  <2>1. new.dlevels = Append(col.dlevels, s.d)
    BY <1>4
  <2>2. col.dlevels \in Seq(Nat) /\ s.d \in Nat
    BY <1>5, <1>6
  <2> QED
    BY <2>1, <2>2, AppendFacts
<1>9. /\ Len(new.bytes) >= Len(col.bytes) /\ Len(col.bytes) \in Nat /\ Len(new.bytes) \in Nat
      /\ \A v \in 1 .. Len(col.bytes) : new.bytes[v] = col.bytes[v]
      /\ \A p \in 1 .. Len(col.values) : new.values[p] = col.values[p]
  <2>1. CASE s.x = NULL
    BY <1>4, <1>6, <2>1
  <2>2. CASE s.x # NULL
    <3>1. PICK v \in Datum : new.values = Append(col.values, v) /\ StoredAs(v, new, col, n, s)
      BY <1>4, <2>2
    <3>2. new.bytes = col.bytes \/ new.bytes = Append(col.bytes, s.x)
      BY <3>1 DEF StoredAs
    <3>3. /\ Len(new.bytes) >= Len(col.bytes) /\ Len(col.bytes) \in Nat /\ Len(new.bytes) \in Nat
          /\ \A i \in 1 .. Len(col.bytes) : new.bytes[i] = col.bytes[i]
      <4>1. CASE new.bytes = col.bytes
        BY <1>6, <4>1
      <4>2. CASE new.bytes = Append(col.bytes, s.x)
        <5>1. Longer(new.bytes, col.bytes, s.x) /\ Len(col.bytes) \in Nat
          BY <1>5, <1>6, <4>2, AppendFacts
        <5> QED
          BY <5>1 DEF Longer
      <4> QED
        BY <3>2, <4>1, <4>2
    <3>4. \A p \in 1 .. Len(col.values) : new.values[p] = col.values[p]
      BY <1>6, <3>1
    <3> QED
      BY <3>3, <3>4
  <2> QED
    BY <2>1, <2>2
<1>10. Keeps(new, col, n)
  BY <1>4, <1>7, <1>8, <1>9 DEF Keeps
<1>11. s.x # NULL => /\ Len(new.values) = Len(col.values) + 1 /\ Len(col.values) \in Nat
                     /\ IF n.name \in ByRef
                        THEN /\ new.values[Len(col.values) + 1] \in 1 .. Len(new.bytes)
                             /\ new.bytes[new.values[Len(col.values) + 1]] = s.x
                        ELSE new.values[Len(col.values) + 1] = s.x
  <2> SUFFICES ASSUME s.x # NULL
               PROVE  /\ Len(new.values) = Len(col.values) + 1 /\ Len(col.values) \in Nat
                      /\ IF n.name \in ByRef
                         THEN /\ new.values[Len(col.values) + 1] \in 1 .. Len(new.bytes)
                              /\ new.bytes[new.values[Len(col.values) + 1]] = s.x
                         ELSE new.values[Len(col.values) + 1] = s.x
    OBVIOUS
  <2>1. PICK v \in Datum : new.values = Append(col.values, v) /\ StoredAs(v, new, col, n, s)
    BY <1>4
  <2>2. /\ Len(new.values) = Len(col.values) + 1 /\ Len(col.values) \in Nat
        /\ new.values[Len(col.values) + 1] = v
    BY <1>6, <2>1
  <2>3. CASE n.name \in ByRef
    <3>1. v = Len(col.bytes) + 1 /\ new.bytes = Append(col.bytes, s.x)
      BY <2>1, <2>3 DEF StoredAs
    <3>2. v \in 1 .. Len(new.bytes) /\ new.bytes[v] = s.x
      BY <1>5, <1>6, <3>1
    <3> QED
      BY <2>2, <2>3, <3>2
  <2>4. CASE n.name \notin ByRef
    BY <2>1, <2>2, <2>4 DEF StoredAs
  <2> QED
    BY <2>3, <2>4
<1>12. Readable(new, n)
  <2>1. ASSUME n.dl > 0, NEW i \in 1 .. new.num_values PROVE new.dlevels[i] <= n.dl
    <3>1. i \in 1 .. k \/ i = k + 1
      BY <1>4
    <3>2. i \in 1 .. k => new.dlevels[i] <= n.dl
      BY <1>1, <1>8, <2>1 DEF Readable
    <3> QED
      BY <1>5, <1>8, <2>1, <3>1, <3>2
  <2>2. ASSUME n.name \in ByRef, NEW p \in 1 .. Len(new.values)
        PROVE  new.values[p] \in 1 .. Len(new.bytes)
    <3>1. p \in 1 .. Len(col.values) \/ (s.x # NULL /\ p = Len(col.values) + 1)
      BY <1>4, <1>6, <1>11
    <3>2. p \in 1 .. Len(col.values) => new.values[p] \in 1 .. Len(new.bytes)
      <4>1. p \in 1 .. Len(col.values) => new.values[p] \in 1 .. Len(col.bytes)
        BY <1>1, <1>9, <2>2 DEF Readable
      <4> QED
        BY <1>9, <4>1
    <3> QED
      BY <1>11, <2>2, <3>1, <3>2
  <2> QED
    BY <2>1, <2>2 DEF Readable
<1> DEFINE es1 == ColumnEntries(col, n)
           es2 == ColumnEntries(new, n)
           e == EntryOf(s, n)
<1>13. es1 \in Seq(ColumnEntry) /\ Len(es1) = k /\ es2 \in Seq(ColumnEntry) /\ Len(es2) = k + 1
  BY <1>1, <1>3, <1>4, <1>12, EntriesTyped
<1>14. \A i \in 1 .. k : es2[i] = es1[i]
  BY <1>1, <1>3, <1>10, <1>12, EntriesKept
<1>15. es2[k + 1] = e
  <2> DEFINE defined == n.dl = 0 \/ new.dlevels[k + 1] = n.dl
             v == new.values[Cardinality(DefinedBy(new, n, k + 1))]
             r == IF n.rl > 0 THEN new.rlevels[k + 1] ELSE 0
             d == IF n.dl > 0 THEN new.dlevels[k + 1] ELSE 0
             x == IF ~defined THEN NULL ELSE IF n.name \in ByRef THEN new.bytes[v] ELSE v
  <2>1. es2[k + 1] = [r |-> r, d |-> d, x |-> x]
    <3>1. k + 1 \in 1 .. new.num_values
      BY <1>4
    <3> QED
      BY <1>3, <1>12, <3>1, EntryFields
  <2>2. /\ r = IF n.rl > 0 THEN s.r ELSE 0
        /\ d = IF n.dl > 0 THEN s.d ELSE 0
    BY <1>7, <1>8
  <2>3. defined <=> s.x # NULL
    BY <1>5, <1>8
  <2>4. x = s.x
    <3>1. CASE s.x = NULL
      BY <2>3, <3>1
    <3>2. CASE s.x # NULL
      <4>1. Cardinality(DefinedBy(new, n, k + 1)) = Len(new.values)
        BY <1>3, <1>4 DEF ColumnAligned, DefinedBy
      <4> QED
        BY <1>11, <2>3, <3>2, <4>1
    <3> QED
      BY <3>1, <3>2
  <2> HIDE DEF r, d, x
  <2> QED
    BY <2>1, <2>2, <2>4 DEF EntryOf
<1>16. e \in ColumnEntry
  BY <1>5 DEF EntryOf, ColumnEntry
<1> HIDE DEF es1, es2, e
<1>17. es2 = Append(es1, e)
  BY <1>4, <1>13, <1>14, <1>15, <1>16
<1>18. es2 = ColumnEntries(b, n) \o Append(es, e)
  <2>1. es1 = ColumnEntries(b, n) \o es
    BY DEF es1, Reads
  <2>2. ColumnEntries(b, n) \in Seq(ColumnEntry)
    BY EntriesTyped
  <2> QED
    BY <1>16, <1>17, <2>1, <2>2
<1>19. /\ Len(b.bytes) <= Len(new.bytes)
       /\ \A v \in 1 .. Len(b.bytes) : new.bytes[v] = b.bytes[v]
  <2>1. /\ Len(b.bytes) <= Len(col.bytes) /\ Len(b.bytes) \in Nat
        /\ \A v \in 1 .. Len(b.bytes) : col.bytes[v] = b.bytes[v]
    BY ColumnFields DEF Reads
  <2>2. /\ Len(col.bytes) <= Len(new.bytes) /\ Len(col.bytes) \in Nat /\ Len(new.bytes) \in Nat
        /\ \A v \in 1 .. Len(col.bytes) : new.bytes[v] = col.bytes[v]
    BY <1>9
  <2>3. \A v \in 1 .. Len(b.bytes) : v \in 1 .. Len(col.bytes)
    BY <2>1, <2>2
  <2>4. Len(b.bytes) <= Len(new.bytes)
    BY <2>1, <2>2
  <2> QED
    BY <2>1, <2>2, <2>3, <2>4
<1>20. Reads(new, b, n, Append(es, e))
  BY <1>12, <1>18, <1>19 DEF Reads, es2
<1> QED
  BY <1>20 DEF new, e

-----------------------------------------------------------------------------
(* Rollback and the end of a record.                                       *)

\* What rollback makes of a column in the course of a record: what it was, but for
\* what bytes have got.
LEMMA RollbackFields ==
  ASSUME NEW b, NEW col, NEW n, LeafOK(n), NEW num \in Nat, NEW was, NEW started,
         Settled(b, n, num, was), InFlight(col, b, n, num, started)
  PROVE  RolledBack(col) =
           [rlevels |-> b.rlevels, dlevels |-> b.dlevels, values |-> b.values,
            bytes |-> col.bytes, num_values |-> b.num_values, rec_num |-> num,
            rec_r_items |-> 0, rec_d_items |-> 0, rec_v_items |-> 0]
<1> DEFINE new == RolledBack(col)
           added == col.num_values - b.num_values
<1>1. b \in Column
  BY DEF Settled
<1>2. /\ col \in Column /\ col.rec_num = num
      /\ Extends(col.rlevels, b.rlevels, col.rec_r_items)
      /\ Extends(col.dlevels, b.dlevels, col.rec_d_items)
      /\ Extends(col.values, b.values, col.rec_v_items)
      /\ added \in Nat
      /\ col.rec_r_items = IF n.rl > 0 THEN added ELSE 0
      /\ col.rec_d_items = IF n.dl > 0 THEN added ELSE 0
      /\ col.rec_v_items <= added
      /\ n.dl = 0 => col.rec_v_items = added
  BY DEF InFlight
<1>3. n.rl \in Nat /\ n.dl \in Nat /\ n.rl <= n.dl /\ col.rec_v_items \in Nat
  BY <1>2 DEF LeafOK, Column
<1>4. /\ Shortened(col.rlevels, col.rec_r_items) = b.rlevels
      /\ Shortened(col.dlevels, col.rec_d_items) = b.dlevels
      /\ Shortened(col.values, col.rec_v_items) = b.values
  <2>1. ASSUME NEW t, NEW s, NEW k \in Nat, Len(s) \in Nat, Extends(t, s, k)
        PROVE  Shortened(t, k) = s
    <3>1. Len(t) - k = Len(s)
      BY <2>1 DEF Extends
    <3> QED
      BY <2>1, <3>1 DEF Extends, Shortened
  <2>2. /\ Len(b.rlevels) \in Nat /\ Len(b.dlevels) \in Nat /\ Len(b.values) \in Nat
        /\ col.rec_r_items \in Nat /\ col.rec_d_items \in Nat
    <3>1. b \in Column /\ col \in Column
      BY <1>1, <1>2
    <3>2. b.rlevels \in Seq(Nat) /\ b.dlevels \in Seq(Nat) /\ b.values \in Seq(Datum)
      BY <3>1, ColumnFields
    <3>3. col.rec_r_items \in Nat /\ col.rec_d_items \in Nat
      BY <3>1, ColumnFields
    <3> QED
      BY <3>2, <3>3
  <2> QED
    BY <1>2, <1>3, <2>1, <2>2
<1> DEFINE nv == CASE col.rec_d_items # 0 -> col.rec_d_items
                   [] col.rec_d_items = 0 /\ col.rec_r_items # 0 -> col.rec_r_items
                   [] OTHER -> col.rec_v_items
<1>5. nv = added
  <2> HIDE DEF added
  <2> QED
    BY <1>2, <1>3
<1>6. new = [rlevels |-> b.rlevels, dlevels |-> b.dlevels, values |-> b.values,
             bytes |-> col.bytes, num_values |-> b.num_values, rec_num |-> num,
             rec_r_items |-> 0, rec_d_items |-> 0, rec_v_items |-> 0]
  <2>1. new = [col EXCEPT !.rlevels = Shortened(@, col.rec_r_items),
                          !.dlevels = Shortened(@, col.rec_d_items),
                          !.values = Shortened(@, col.rec_v_items), !.num_values = @ - nv,
                          !.rec_r_items = 0, !.rec_d_items = 0, !.rec_v_items = 0]
    BY DEF RolledBack
  <2> HIDE DEF new, nv
  <2>2. col.num_values - nv = b.num_values
    <3>1. col.num_values \in Nat /\ b.num_values \in Nat
      BY <1>1, <1>2 DEF Column
    <3> QED
      BY <1>5, <3>1
  <2> QED
    BY <1>2, <1>4, <2>1, <2>2 DEF Column
<1> QED
  BY <1>6

\* It is as settled as before, and reads as before.
LEMMA RollbackRestores ==
  ASSUME NEW b, NEW col, NEW n, LeafOK(n), NEW num \in Nat, NEW was, NEW started, NEW es,
         Settled(b, n, num, was), InFlight(col, b, n, num, started), Reads(col, b, n, es)
  PROVE  /\ Settled(RolledBack(col), n, num, was)
         /\ ColumnEntries(RolledBack(col), n) = ColumnEntries(b, n)
<1> DEFINE new == RolledBack(col)
<1>1. b \in Column /\ col \in Column /\ ColumnAligned(b, n, was) /\ Readable(b, n)
  BY DEF Settled, InFlight
<1>2. new = [rlevels |-> b.rlevels, dlevels |-> b.dlevels, values |-> b.values,
             bytes |-> col.bytes, num_values |-> b.num_values, rec_num |-> num,
             rec_r_items |-> 0, rec_d_items |-> 0, rec_v_items |-> 0]
  BY RollbackFields
<1> HIDE DEF new
<1>3. new \in Column
  BY <1>1, <1>2 DEF Column
<1>4. ColumnAligned(new, n, was)
  BY <1>1, <1>2 DEF ColumnAligned
<1>5. /\ Len(b.bytes) <= Len(new.bytes) /\ Len(b.bytes) \in Nat /\ Len(new.bytes) \in Nat
      /\ \A v \in 1 .. Len(b.bytes) : new.bytes[v] = b.bytes[v]
  <2>1. new.bytes = col.bytes /\ b.bytes \in Seq(Datum) /\ col.bytes \in Seq(Datum)
    BY <1>1, <1>2 DEF Column
  <2>2. Len(b.bytes) <= Len(col.bytes) /\ \A v \in 1 .. Len(b.bytes) : col.bytes[v] = b.bytes[v]
    BY DEF Reads
  <2> QED
    BY <2>1, <2>2
<1>6. Readable(new, n)
  <2>1. n.dl > 0 => \A i \in 1 .. new.num_values : new.dlevels[i] <= n.dl
    BY <1>1, <1>2 DEF Readable
  <2>2. n.name \in ByRef =>
          \A p \in 1 .. Len(new.values) : new.values[p] \in 1 .. Len(b.bytes)
    BY <1>1, <1>2 DEF Readable
  <2> QED
    BY <1>5, <2>1, <2>2 DEF Readable
<1>7. Keeps(new, b, n)
  <2>1. b.num_values \in Nat
    BY <1>1 DEF Column
  <2> QED
    BY <1>2, <1>5, <2>1 DEF Keeps
<1>8. ColumnEntries(new, n) = ColumnEntries(b, n)
  <2>1. \A i \in 1 .. b.num_values : ColumnEntries(new, n)[i] = ColumnEntries(b, n)[i]
    BY <1>1, <1>3, <1>4, <1>6, <1>7, EntriesKept
  <2>2. /\ ColumnEntries(new, n) = [i \in 1 .. b.num_values |-> ColumnEntries(new, n)[i]]
        /\ ColumnEntries(b, n) = [i \in 1 .. b.num_values |-> ColumnEntries(b, n)[i]]
    BY <1>2 DEF ColumnEntries
  <2> QED
    BY <2>1, <2>2
<1>9. Settled(new, n, num, was)
  BY <1>2, <1>3, <1>4, <1>6 DEF Settled
<1> QED
  BY <1>8, <1>9 DEF new

\* A record that reached its end leaves the column settled.
LEMMA RecordSettled ==
  ASSUME NEW b, NEW col, NEW n, NEW num \in Nat, NEW started, NEW es,
         InFlight(col, b, n, num, started), Reads(col, b, n, es)
  PROVE  Settled(col, n, num + 1, started)
BY DEF InFlight, Reads, Settled

-----------------------------------------------------------------------------
(* All columns, and a whole dissection.                                    *)

\* The steps that add to a column are finite in number.
LEMMA AddsFinite ==
  ASSUME NEW d, NEW k \in Nat, NEW c
  PROVE  IsFiniteSet(AddsBy(d, k, c)) /\ Cardinality(AddsBy(d, k, c)) \in Nat
<1>1. IsFiniteSet(1 .. k) /\ AddsBy(d, k, c) \subseteq 1 .. k
  <2>1. IsFiniteSet(1 .. k)
    BY FS_Interval
  <2>2. AddsBy(d, k, c) \subseteq 1 .. k
    BY DEF AddsBy
  <2> QED
    BY <2>1, <2>2
<1> QED
  BY <1>1, FS_Subset, FS_CardinalityType

\* An entry is an entry.
LEMMA EntryOfTyped ==
  ASSUME NEW s, NEW n, LeafOK(n), EntryOK(s, n)
  PROVE  EntryOf(s, n) \in ColumnEntry
<1>1. s.r \in Nat /\ s.d \in Nat /\ s.x \in Datum
  BY DEF EntryOK, LeafOK
<1> QED
  BY <1>1 DEF EntryOf, ColumnEntry

\* Its columns have levels, and its dissections the steps and entries that are relied on.
LEMMA OfferedFacts ==
  ASSUME sid \in DOMAIN Schemas
  PROVE  /\ Len(Schemas[sid].leaves) \in Nat
         /\ \A c \in ColumnIds : LeafOK(Leaf(c))
         /\ \A d \in Offered :
              /\ Len(d.steps) \in Nat /\ \A k \in 1 .. Len(d.steps) : StepOK(d, k)
              /\ \A c \in ColumnIds : EntriesOK(d, c)
              /\ d.ok => \A c \in ColumnIds : AddsBy(d, Len(d.steps), c) # {} =>
                           \E k \in 1 .. Len(d.steps) : Begun(d, Len(d.steps), c) = {k}
<1> DEFINE leaves == Schemas[sid].leaves
<1>1. /\ Len(leaves) \in Nat /\ DOMAIN leaves = 1 .. Len(leaves)
      /\ \A c \in DOMAIN leaves :
           leaves[c].rl \in Nat /\ leaves[c].dl \in Nat /\ leaves[c].rl <= leaves[c].dl
      /\ \A d \in Offered : IsDissection(d, leaves)
  BY SchemaAssumption DEF Offered
<1>2. \A c \in ColumnIds : LeafOK(Leaf(c))
  <2>1. \A c \in ColumnIds : c + 1 \in DOMAIN leaves
    BY <1>1 DEF ColumnIds
  <2> QED
    BY <1>1, <2>1 DEF Leaf, LeafOK
<1>3. ASSUME NEW d \in Offered
      PROVE  /\ Len(d.steps) \in Nat /\ \A k \in 1 .. Len(d.steps) : StepOK(d, k)
             /\ \A c \in ColumnIds : EntriesOK(d, c)
             /\ d.ok => \A c \in ColumnIds : AddsBy(d, Len(d.steps), c) # {} =>
                          \E k \in 1 .. Len(d.steps) : Begun(d, Len(d.steps), c) = {k}
  <2> DEFINE m == Len(d.steps)
  <2>0. IsDissection(d, leaves)
    BY <1>1
  <2>1. m \in Nat
    BY <2>0 DEF IsDissection
  <2>2. ASSUME NEW k \in 1 .. m PROVE StepOK(d, k)
    <3> DEFINE s == d.steps[k]
    <3>1. /\ s.op \in {"touch", "add"} /\ s.column \in ColumnIds
          /\ \A c \in 0 .. s.column - 1 : TouchedBy(d, k, c)
          /\ s.op = "add" => /\ TouchedBy(d, k, s.column) /\ s.r \in Nat
                             /\ s.d \in 0 .. Leaf(s.column).dl
                             /\ s.x # NULL <=> s.d = Leaf(s.column).dl
      BY <2>0 DEF IsDissection, ColumnIds, Leaf
    <3>2. s.x \in Datum
      <4>1. d \in Dissections /\ k \in Nat
        BY <2>1 DEF Dissections, Offered
      <4> QED
        BY <4>1 DEF Datum
    <3> QED
      BY <3>1, <3>2 DEF StepOK, EntryOK
  <2>3. ASSUME NEW c \in ColumnIds
        PROVE  /\ d.entries[c] \in [1 .. Cardinality(AddsBy(d, m, c)) ->
                                      {EntryOf(d.steps[k], Leaf(c)) : k \in AddsBy(d, m, c)}]
               /\ \A k \in AddsBy(d, m, c) :
                    d.entries[c][Cardinality(AddsBy(d, k, c))] = EntryOf(d.steps[k], Leaf(c))
               /\ d.ok /\ AddsBy(d, m, c) # {} => \E k \in 1 .. m : Begun(d, m, c) = {k}
    BY <2>0, <2>3 DEF IsDissection, ColumnIds, Leaf, Begun
  <2>4. ASSUME NEW c \in ColumnIds PROVE EntriesOK(d, c)
    <3> DEFINE adds == AddsBy(d, m, c)
    <3>1. ASSUME NEW k \in adds PROVE EntryOf(d.steps[k], Leaf(c)) \in ColumnEntry
      <4>1. k \in 1 .. m /\ d.steps[k].op = "add" /\ d.steps[k].column = c
        BY <3>1 DEF AddsBy
      <4>2. EntryOK(d.steps[k], Leaf(c))
        BY <2>2, <4>1 DEF StepOK
      <4> QED
        BY <1>2, <4>2, EntryOfTyped
    <3>2. Cardinality(adds) \in Nat
      BY <2>1, AddsFinite
    <3> DEFINE size == Cardinality(adds)
               given == {EntryOf(d.steps[k], Leaf(c)) : k \in adds}
    <3>3. given \subseteq ColumnEntry /\ d.entries[c] \in [1 .. size -> given]
      BY <2>3, <3>1
    <3>4. d.entries[c] \in Seq(ColumnEntry) /\ Len(d.entries[c]) = size
      <4> HIDE DEF given, size
      <4>1. d.entries[c] \in [1 .. size -> ColumnEntry] /\ size \in Nat
        BY <3>2, <3>3 DEF size
      <4> QED
        BY <4>1
    <3> QED
      BY <2>3, <3>4 DEF EntriesOK
  <2> QED
    BY <2>1, <2>2, <2>3, <2>4
<1> QED
  BY <1>1, <1>2, <1>3

\* The first p elements of a sequence, and the prefix with the element after them.
LEMMA Prefixes ==
  ASSUME NEW A, NEW e \in Seq(A), NEW p \in Nat, p <= Len(e)
  PROVE  SubSeq(e, 1, p) \in Seq(A) /\ NextPrefix(SubSeq(e, 1, p + 1), SubSeq(e, 1, p), e, p)
BY DEF NextPrefix

\* What one step more gives a column.
LEMMA MoreEntries ==
  ASSUME sid \in DOMAIN Schemas, NEW d \in Offered, NEW k \in 1 .. Len(d.steps),
         NEW c \in ColumnIds
  PROVE  /\ EntriesBy(d, k - 1, c) \in Seq(ColumnEntry)
         /\ EntriesBy(d, k, c) = IF k \in AddsBy(d, k, c)
                                 THEN Append(EntriesBy(d, k - 1, c), EntryOf(d.steps[k], Leaf(c)))
                                 ELSE EntriesBy(d, k - 1, c)
<1> DEFINE n == Len(d.steps)
           e == d.entries[c]
           A(i) == AddsBy(d, i, c)
           p == Cardinality(A(k - 1))
<1>1. n \in Nat /\ k \in Nat /\ k - 1 \in Nat /\ (k - 1) + 1 = k
  BY OfferedFacts
<1>2. /\ e \in Seq(ColumnEntry) /\ Len(e) = Cardinality(A(n))
      /\ \A i \in 1 .. n : i \in A(n) => e[Cardinality(A(i))] = EntryOf(d.steps[i], Leaf(c))
  BY OfferedFacts DEF EntriesOK
<1>3. /\ A(k - 1) \subseteq 1 .. k - 1 /\ A(k) \subseteq 1 .. (k - 1) + 1
      /\ \A i \in 1 .. k - 1 : i \in A(k) <=> i \in A(k - 1)
      /\ A(k - 1) \subseteq A(n) /\ A(k) \subseteq A(n)
  BY <1>1 DEF AddsBy
<1>4. IsFiniteSet(A(n))
  BY <1>1, AddsFinite
<1> HIDE DEF A
<1>5. p \in Nat /\ Cardinality(A(k)) = IF k \in A(k) THEN p + 1 ELSE p
  <2>1. /\ Cardinality(A(k - 1)) \in Nat
        /\ (k - 1) + 1 \in A(k) => Cardinality(A(k)) = Cardinality(A(k - 1)) + 1
        /\ (k - 1) + 1 \notin A(k) => Cardinality(A(k)) = Cardinality(A(k - 1))
    BY <1>1, <1>3, CountMore DEF Grown
  <2> QED
    BY <1>1, <2>1
<1>6. p <= Len(e) /\ Cardinality(A(k)) <= Len(e)
  BY <1>2, <1>3, <1>4, FS_Subset
<1> HIDE DEF p, e
<1>7. SubSeq(e, 1, p) \in Seq(ColumnEntry) /\ NextPrefix(SubSeq(e, 1, p + 1), SubSeq(e, 1, p), e, p)
  BY <1>2, <1>5, <1>6, Prefixes
<1>8. /\ EntriesBy(d, k - 1, c) = SubSeq(e, 1, p)
      /\ EntriesBy(d, k, c) = SubSeq(e, 1, Cardinality(A(k)))
  BY DEF EntriesBy, e, p, A
<1>9. CASE k \in A(k)
  <2>1. p < Len(e) /\ Cardinality(A(k)) = p + 1
    BY <1>2, <1>5, <1>6, <1>9
  <2>2. SubSeq(e, 1, p + 1) = Append(SubSeq(e, 1, p), e[p + 1])
    BY <1>7, <2>1 DEF NextPrefix
  <2>3. e[p + 1] = EntryOf(d.steps[k], Leaf(c))
    <3>1. k \in A(n)
      BY <1>3, <1>9
    <3> QED
      BY <1>2, <2>1, <3>1
  <2> QED
    BY <1>7, <1>8, <1>9, <2>1, <2>2, <2>3 DEF A
<1>10. CASE k \notin A(k)
  BY <1>5, <1>7, <1>8, <1>10 DEF A
<1> QED
  BY <1>9, <1>10

\* In the end a column has got its entries.
LEMMA WholeEntries ==
  ASSUME sid \in DOMAIN Schemas, NEW d \in Offered, NEW c \in ColumnIds
  PROVE  EntriesBy(d, Len(d.steps), c) = d.entries[c] /\ d.entries[c] \in Seq(ColumnEntry)
<1>1. /\ d.entries[c] \in Seq(ColumnEntry)
      /\ Len(d.entries[c]) = Cardinality(AddsBy(d, Len(d.steps), c))
  BY OfferedFacts DEF EntriesOK
<1>2. SubSeq(d.entries[c], 1, Len(d.entries[c])) = d.entries[c]
  BY <1>1
<1> QED
  BY <1>1, <1>2 DEF EntriesBy

\* One step more of a dissection.
LEMMA StepUnderway ==
  ASSUME sid \in DOMAIN Schemas, NEW d \in Offered, NEW base, NEW num \in Nat,
         NEW st, AllSettled(base, num, st), NEW k \in 1 .. Len(d.steps), NEW cols,
         Underway(cols, base, num, st, d, k - 1)
  PROVE  Underway(Step(cols, num, d.steps[k]), base, num, st, d, k)
<1> DEFINE s == d.steps[k]
           new == Step(cols, num, s)
           Count(i, c) == Cardinality(Begun(d, i, c))
           Es(i, c) == EntriesBy(d, i, c)
<1>1. /\ Len(d.steps) \in Nat /\ \A i \in 1 .. Len(d.steps) : StepOK(d, i)
      /\ \A c \in ColumnIds : LeafOK(Leaf(c))
  BY OfferedFacts
<1>2. k \in Nat /\ k - 1 \in Nat /\ (k - 1) + 1 = k /\ \A i \in 1 .. k : i \in 1 .. k - 1 \/ i = k
  BY <1>1
<1>3. /\ s.op \in {"touch", "add"} /\ s.column \in ColumnIds
      /\ s.op = "add" => TouchedBy(d, k, s.column) /\ EntryOK(s, Leaf(s.column))
  BY <1>1 DEF StepOK
<1>4. /\ new = [c \in ColumnIds |-> new[c]]
      /\ \A c \in ColumnIds \ {s.column} : new[c] = cols[c]
      /\ new[s.column] = IF s.op = "touch" THEN reset_record(cols[s.column], num)
                         ELSE Added(cols[s.column], Leaf(s.column), s)
  <2>1. cols = [c \in ColumnIds |-> cols[c]]
    BY DEF Underway
  <2> QED
    BY <1>3, <2>1 DEF Step, Added
<1>5. ASSUME NEW c \in ColumnIds
      PROVE  /\ Count(k - 1, c) \in Nat
             /\ k \in Begun(d, k, c) => Count(k, c) = Count(k - 1, c) + 1
             /\ k \notin Begun(d, k, c) => Count(k, c) = Count(k - 1, c)
             /\ Es(k - 1, c) \in Seq(ColumnEntry)
             /\ Es(k, c) = IF k \in AddsBy(d, k, c) THEN Append(Es(k - 1, c), EntryOf(s, Leaf(c)))
                           ELSE Es(k - 1, c)
  <2>1. /\ Begun(d, k - 1, c) \subseteq 1 .. k - 1 /\ Begun(d, k, c) \subseteq 1 .. (k - 1) + 1
        /\ \A i \in 1 .. k - 1 : i \in Begun(d, k, c) <=> i \in Begun(d, k - 1, c)
    BY <1>2 DEF Begun, StartsBy, AddsBy
  <2>2. /\ Count(k - 1, c) \in Nat
        /\ (k - 1) + 1 \in Begun(d, k, c) => Count(k, c) = Count(k - 1, c) + 1
        /\ (k - 1) + 1 \notin Begun(d, k, c) => Count(k, c) = Count(k - 1, c)
    BY <1>2, <2>1, CountMore DEF Grown
  <2> QED
    BY <1>2, <2>2, MoreEntries
<1>6. ASSUME NEW c \in ColumnIds, c # s.column
      PROVE  IF TouchedBy(d, k, c)
             THEN /\ InFlight(new[c], base[c], Leaf(c), num, st[c] + Count(k, c))
                  /\ Reads(new[c], base[c], Leaf(c), Es(k, c))
             ELSE new[c] = base[c]
  <2>1. TouchedBy(d, k, c) <=> TouchedBy(d, k - 1, c)
    BY <1>2, <1>6 DEF TouchedBy
  <2>2. k \notin AddsBy(d, k, c) /\ k \notin Begun(d, k, c)
    BY <1>6 DEF Begun, StartsBy, AddsBy
  <2>3. Count(k, c) = Count(k - 1, c) /\ Es(k, c) = Es(k - 1, c)
    BY <1>5, <2>2
  <2>4. IF TouchedBy(d, k - 1, c)
        THEN /\ InFlight(cols[c], base[c], Leaf(c), num, st[c] + Count(k - 1, c))
             /\ Reads(cols[c], base[c], Leaf(c), Es(k - 1, c))
        ELSE cols[c] = base[c]
    BY DEF Underway
  <2> QED
    BY <1>4, <1>6, <2>1, <2>3, <2>4
<1> DEFINE c == s.column
<1>7. TouchedBy(d, k, c)
  <2>1. s.op = "touch" => TouchedBy(d, k, c)
    BY <1>2 DEF TouchedBy
  <2> QED
    BY <1>3, <2>1
<1>8. TouchedBy(d, k - 1, c) => /\ InFlight(cols[c], base[c], Leaf(c), num, st[c] + Count(k - 1, c))
                                /\ Reads(cols[c], base[c], Leaf(c), Es(k - 1, c))
  BY <1>3 DEF Underway
<1>9. ~TouchedBy(d, k - 1, c) => cols[c] = base[c] /\ Count(k - 1, c) = 0 /\ Es(k - 1, c) = <<>>
  <2> SUFFICES ASSUME ~TouchedBy(d, k - 1, c)
               PROVE  cols[c] = base[c] /\ Count(k - 1, c) = 0 /\ Es(k - 1, c) = <<>>
    OBVIOUS
  <2>1. cols[c] = base[c]
    BY <1>3 DEF Underway
  <2>2. ASSUME NEW i \in AddsBy(d, k - 1, c) PROVE FALSE
    <3>1. i \in 1 .. k - 1 /\ d.steps[i].op = "add" /\ d.steps[i].column = c
      BY <2>2 DEF AddsBy
    <3>2. TouchedBy(d, i, c)
      BY <1>1, <1>2, <3>1 DEF StepOK
    <3>3. TouchedBy(d, k - 1, c)
      BY <1>2, <3>1, <3>2 DEF TouchedBy
    <3> QED
      BY <3>3
  <2>3. AddsBy(d, k - 1, c) = {} /\ Begun(d, k - 1, c) = {}
    <3>1. AddsBy(d, k - 1, c) = {}
      BY <2>2
    <3> QED
      BY <3>1 DEF Begun, StartsBy
  <2>4. Cardinality(AddsBy(d, k - 1, c)) = 0 /\ Count(k - 1, c) = 0
    BY <2>3, FS_EmptySet
  <2>5. Es(k - 1, c) = SubSeq(d.entries[c], 1, 0)
    BY <2>4 DEF EntriesBy
  <2>6. d.entries[c] \in Seq(ColumnEntry)
    BY <1>3, WholeEntries
  <2> HIDE DEF Es, Count
  <2>7. SubSeq(d.entries[c], 1, 0) = <<>>
    BY <2>6
  <2> QED
    BY <2>1, <2>4, <2>5, <2>7
<1>10. /\ InFlight(new[c], base[c], Leaf(c), num, st[c] + Count(k, c))
       /\ Reads(new[c], base[c], Leaf(c), Es(k, c))
  <2>0. LeafOK(Leaf(c)) /\ st[c] \in Nat /\ Settled(base[c], Leaf(c), num, st[c])
    BY <1>1, <1>3 DEF AllSettled
  <2>1. CASE s.op = "touch"
    <3>1. /\ new[c] = reset_record(cols[c], num)
          /\ Count(k, c) = Count(k - 1, c) /\ Es(k, c) = Es(k - 1, c)
      <4>1. k \notin AddsBy(d, k, c) /\ k \notin Begun(d, k, c)
        BY <2>1 DEF Begun, StartsBy, AddsBy
      <4>2. new[c] = reset_record(cols[c], num)
        BY <1>4, <2>1
      <4> QED
        BY <1>3, <1>5, <4>1, <4>2
    <3>2. CASE TouchedBy(d, k - 1, c)
      <4>1. cols[c].rec_num = num
        BY <1>8, <3>2 DEF InFlight
      <4>2. new[c] = cols[c]
        BY <3>1, <4>1 DEF reset_record
      <4> QED
        BY <1>8, <3>1, <3>2, <4>2
    <3>3. CASE ~TouchedBy(d, k - 1, c)
      <4>1. /\ InFlight(reset_record(base[c], num), base[c], Leaf(c), num, st[c])
            /\ Reads(reset_record(base[c], num), base[c], Leaf(c), <<>>)
        BY <2>0, TouchedFirst, TouchedReads
      <4>2. st[c] + Count(k, c) = st[c]
        BY <1>9, <2>0, <3>1, <3>3
      <4> QED
        BY <1>9, <3>1, <3>3, <4>1, <4>2
    <3> QED
      BY <3>2, <3>3
  <2>2. CASE s.op = "add"
    <3>1. TouchedBy(d, k - 1, c)
      BY <1>2, <1>7, <2>2 DEF TouchedBy
    <3>2. new[c] = Added(cols[c], Leaf(c), s) /\ EntryOK(s, Leaf(c)) /\ Count(k - 1, c) \in Nat
      BY <1>3, <1>4, <1>5, <2>2
    <3>3. /\ k \in AddsBy(d, k, c)
          /\ k \in Begun(d, k, c) <=> Leaf(c).rl = 0 \/ s.r = 0
      BY <1>2, <2>2 DEF Begun, StartsBy, AddsBy, Leaf
    <3>4. /\ Count(k, c) = IF Leaf(c).rl = 0 \/ s.r = 0 THEN Count(k - 1, c) + 1
                           ELSE Count(k - 1, c)
          /\ Es(k, c) = Append(Es(k - 1, c), EntryOf(s, Leaf(c)))
          /\ Es(k - 1, c) \in Seq(ColumnEntry)
      BY <1>3, <1>5, <3>3
    <3>5. base[c] \in Column /\ ColumnAligned(base[c], Leaf(c), st[c]) /\ Readable(base[c], Leaf(c))
      BY <2>0 DEF Settled
    <3> DEFINE was == st[c] + Count(k - 1, c)
    <3>9. was \in Nat
      BY <2>0, <3>2
    <3>10. st[c] + Count(k, c) = IF Leaf(c).rl = 0 \/ s.r = 0 THEN was + 1 ELSE was
      BY <2>0, <3>2, <3>4
    <3>6. /\ InFlight(cols[c], base[c], Leaf(c), num, was)
          /\ Reads(cols[c], base[c], Leaf(c), Es(k - 1, c))
      BY <1>8, <3>1
    <3> HIDE DEF Count, Es, s, c, new, was
    <3>7. InFlight(Added(cols[c], Leaf(c), s), base[c], Leaf(c), num,
                   IF Leaf(c).rl = 0 \/ s.r = 0 THEN was + 1 ELSE was)
      BY <2>0, <3>2, <3>5, <3>6, <3>9, EntryAdded
    <3>8. Reads(Added(cols[c], Leaf(c), s), base[c], Leaf(c),
                Append(Es(k - 1, c), EntryOf(s, Leaf(c))))
      BY <2>0, <3>2, <3>4, <3>5, <3>6, <3>9, AddedReads
    <3> QED
      BY <3>2, <3>4, <3>7, <3>8, <3>10
  <2> QED
    BY <1>3, <2>1, <2>2
<1>11. \A e \in ColumnIds :
         IF TouchedBy(d, k, e)
         THEN /\ InFlight(new[e], base[e], Leaf(e), num, st[e] + Count(k, e))
              /\ Reads(new[e], base[e], Leaf(e), Es(k, e))
         ELSE new[e] = base[e]
  BY <1>6, <1>7, <1>10
<1> HIDE DEF new
<1>12. Underway(new, base, num, st, d, k)
  BY <1>4, <1>11 DEF Underway
<1> QED
  BY <1>12 DEF new

\* The recursive function of Applied exists: the least number of steps for which
\* it does not would be preceded by one for which it does, and a step extends it.
LEMMA StepsExist ==
  ASSUME NEW start, NEW num, NEW steps, Len(steps) \in Nat
  PROVE  \E h : Course(h, start, num, steps)
<1> DEFINE n == Len(steps)
           step(x, k) == Step(x, num, steps[k])
           fits(h, m) == h = [k \in 0 .. m |-> IF k = 0 THEN start ELSE step(h[k - 1], k)]
           none == {m \in 0 .. n : ~ \E h : fits(h, m)}
<1> HIDE DEF step
<1>1. SUFFICES ASSUME none # {} PROVE FALSE
  <2>1. n \in 0 .. n
    OBVIOUS
  <2> QED
    BY <2>1 DEF step, Course
<1>2. PICK m \in none : \A k \in none : m <= k
  <2>1. none \subseteq Nat
    OBVIOUS
  <2> HIDE DEF none
  <2> QED
    BY <1>1, <2>1, LeastNatural
<1>3. m \in 0 .. n /\ m \in Nat /\ ~ \E h : fits(h, m)
  BY <1>2
<1>4. CASE m = 0
  <2> DEFINE h == [k \in 0 .. m |-> start]
  <2>1. fits(h, m)
    BY <1>4
  <2> QED
    BY <1>3, <2>1
<1>5. CASE m # 0
  <2>1. m - 1 \in 0 .. n /\ m - 1 \in Nat /\ ~(m <= m - 1)
    BY <1>3, <1>5
  <2>2. PICK g : fits(g, m - 1)
    <3>1. m - 1 \notin none
      BY <1>2, <2>1
    <3> QED
      BY <2>1, <3>1
  <2> DEFINE h == [k \in 0 .. m |-> IF k = 0 THEN start ELSE step(g[k - 1], k)]
  <2>3. ASSUME NEW k \in 0 .. m - 1 PROVE h[k] = g[k]
    <3>1. k \in 0 .. m /\ k \in 0 .. m - 1
      BY <1>3, <2>1, <2>3
    <3>2. g[k] = IF k = 0 THEN start ELSE step(g[k - 1], k)
      <4>1. g = [i \in 0 .. m - 1 |-> IF i = 0 THEN start ELSE step(g[i - 1], i)]
        BY <2>2
      <4> QED
        BY <4>1, <3>1
    <3> QED
      BY <3>1, <3>2
  <2>4. h = [k \in 0 .. m |-> IF k = 0 THEN start ELSE step(h[k - 1], k)]
    <3>1. ASSUME NEW k \in 0 .. m, k # 0 PROVE h[k - 1] = g[k - 1]
      <4>1. k - 1 \in 0 .. m - 1
        BY <1>3, <3>1
      <4> HIDE DEF h
      <4> QED
        BY <2>3, <4>1
    <3> QED
      BY <3>1
  <2>5. fits(h, m)
    BY <2>4
  <2> HIDE DEF h, fits
  <2> QED
    BY <1>3, <2>5
<1> QED
  BY <1>4, <1>5

\* After all of its steps.
LEMMA AppliedUnderway ==
  ASSUME sid \in DOMAIN Schemas, NEW d \in Offered, NEW base, NEW num \in Nat,
         NEW st, AllSettled(base, num, st)
  PROVE  Underway(Applied(base, num, d.steps), base, num, st, d, Len(d.steps))
<1> DEFINE n == Len(d.steps)
           after == CHOOSE h : Course(h, base, num, d.steps)
<1>0. n \in Nat
  BY OfferedFacts
<1>1. Applied(base, num, d.steps) = after[n]
  BY DEF Applied, Course
<1>2. Course(after, base, num, d.steps)
  BY <1>0, StepsExist
<1> HIDE DEF after
<1>3. after[0] = base /\ \A k \in 1 .. n : after[k] = Step(after[k - 1], num, d.steps[k])
  <2>1. after = [k \in 0 .. n |-> IF k = 0 THEN base ELSE Step(after[k - 1], num, d.steps[k])]
    BY <1>2 DEF Course
  <2>2. 0 \in 0 .. n /\ \A k \in 1 .. n : k \in 0 .. n /\ k # 0
    BY <1>0
  <2> QED
    BY <2>1, <2>2
<1>4. Underway(after[0], base, num, st, d, 0)
  <2>1. \A c \in ColumnIds : ~TouchedBy(d, 0, c)
    BY DEF TouchedBy
  <2> QED
    BY <1>3, <2>1 DEF Underway, AllSettled
<1>5. \A k \in 0 .. n : Underway(after[k], base, num, st, d, k)
  <2> DEFINE bad == {k \in 0 .. n : ~Underway(after[k], base, num, st, d, k)}
  <2> SUFFICES ASSUME bad # {} PROVE FALSE
    OBVIOUS
  <2>1. PICK k \in bad : \A i \in bad : k <= i
    <3>1. bad \subseteq Nat
      BY <1>0
    <3> HIDE DEF bad
    <3> QED
      BY <3>1, LeastNatural
  <2>2. k \in 1 .. n /\ k - 1 \in 0 .. n /\ ~(k <= k - 1)
    BY <1>0, <1>4, <2>1
  <2>3. Underway(after[k - 1], base, num, st, d, k - 1)
    BY <2>1, <2>2
  <2>4. Underway(Step(after[k - 1], num, d.steps[k]), base, num, st, d, k)
    BY <2>2, <2>3, StepUnderway
  <2> QED
    BY <1>3, <2>1, <2>2, <2>4
<1>6. n \in 0 .. n
  BY <1>0
<1> QED
  BY <1>1, <1>5, <1>6

\* A column without an entry has no step that adds to it.
LEMMA AddsNone ==
  ASSUME sid \in DOMAIN Schemas, NEW d \in Offered, NEW c \in ColumnIds
  PROVE  AddsBy(d, Len(d.steps), c) = {} <=> d.entries[c] = <<>>
<1> DEFINE adds == AddsBy(d, Len(d.steps), c)
<1>1. /\ Len(d.steps) \in Nat /\ d.entries[c] \in Seq(ColumnEntry)
      /\ Len(d.entries[c]) = Cardinality(adds)
  BY OfferedFacts DEF EntriesOK
<1>2. IsFiniteSet(adds)
  BY <1>1, AddsFinite
<1>3. Cardinality(adds) = 0 <=> adds = {}
  BY <1>2, FS_EmptySet
<1>4. Len(d.entries[c]) = 0 <=> d.entries[c] = <<>>
  BY <1>1
<1> QED
  BY <1>1, <1>3, <1>4

\* One dissection more, by column: what it gave entries.
OneStart(d, c) == IF d.entries[c] = <<>> THEN 0 ELSE 1

MoreStarts(st, d) == [c \in ColumnIds |-> st[c] + OneStart(d, c)]

\* A dissection to the end leaves the columns with one record more, and its entries.
LEMMA DissectedSettled ==
  ASSUME sid \in DOMAIN Schemas, NEW d \in Offered, d.ok, NEW base, NEW num \in Nat,
         NEW st, AllSettled(base, num, st)
  PROVE  /\ AllSettled(Applied(base, num, d.steps), num + 1, MoreStarts(st, d))
         /\ \A c \in ColumnIds : ColumnEntries(Applied(base, num, d.steps)[c], Leaf(c)) =
              ColumnEntries(base[c], Leaf(c)) \o d.entries[c]
<1> DEFINE n == Len(d.steps)
           after == Applied(base, num, d.steps)
<1>1. Underway(after, base, num, st, d, n)
  BY AppliedUnderway
<1>0. n \in Nat /\ \A k \in 1 .. n : StepOK(d, k)
  BY OfferedFacts
<1> HIDE DEF after
<1>2. ASSUME NEW c \in ColumnIds
      PROVE  /\ st[c] + OneStart(d, c) \in Nat
             /\ Settled(after[c], Leaf(c), num + 1, st[c] + OneStart(d, c))
             /\ ColumnEntries(after[c], Leaf(c)) = ColumnEntries(base[c], Leaf(c)) \o d.entries[c]
  <2>0. st[c] \in Nat /\ LeafOK(Leaf(c)) /\ Settled(base[c], Leaf(c), num, st[c])
    BY OfferedFacts DEF AllSettled
  <2>1. Cardinality(Begun(d, n, c)) = OneStart(d, c)
    <3>1. CASE AddsBy(d, n, c) = {}
      <4>1. Begun(d, n, c) = {}
        BY <3>1 DEF Begun, StartsBy
      <4> QED
        BY <3>1, <4>1, AddsNone, FS_EmptySet DEF OneStart
    <3>2. CASE AddsBy(d, n, c) # {}
      <4>1. PICK k \in 1 .. n : Begun(d, n, c) = {k}
        BY <3>2, OfferedFacts
      <4> QED
        BY <3>2, <4>1, AddsNone, FS_Singleton DEF OneStart
    <3> QED
      BY <3>1, <3>2
  <2>2. st[c] + OneStart(d, c) \in Nat
    BY <2>0 DEF OneStart
  <2>3. CASE TouchedBy(d, n, c)
    <3>1. EntriesBy(d, n, c) = d.entries[c]
      BY WholeEntries
    <3>2. /\ InFlight(after[c], base[c], Leaf(c), num, st[c] + OneStart(d, c))
          /\ Reads(after[c], base[c], Leaf(c), d.entries[c])
      BY <1>1, <2>1, <2>3, <3>1 DEF Underway
    <3>3. Settled(after[c], Leaf(c), num + 1, st[c] + OneStart(d, c))
      BY <3>2, RecordSettled
    <3> QED
      BY <2>2, <3>2, <3>3 DEF Reads
  <2>4. CASE ~TouchedBy(d, n, c)
    <3>1. AddsBy(d, n, c) = {}
      <4> SUFFICES ASSUME NEW k \in AddsBy(d, n, c) PROVE FALSE
        OBVIOUS
      <4>1. k \in 1 .. n /\ d.steps[k].op = "add" /\ d.steps[k].column = c
        BY DEF AddsBy
      <4>2. TouchedBy(d, k, c)
        BY <1>0, <4>1 DEF StepOK
      <4> QED
        BY <1>0, <2>4, <4>1, <4>2 DEF TouchedBy
    <3>2. d.entries[c] = <<>>
      BY <3>1, AddsNone
    <3>3. st[c] + OneStart(d, c) = st[c]
      BY <2>0, <3>2 DEF OneStart
    <3>4. after[c] = base[c]
      BY <1>1, <2>4 DEF Underway
    <3>5. Settled(base[c], Leaf(c), num + 1, st[c])
      <4>1. base[c] \in Column /\ base[c].rec_num <= num
        BY <2>0 DEF Settled
      <4>2. base[c].rec_num \in Nat
        BY <4>1 DEF Column
      <4>3. base[c].rec_num <= num + 1 /\ base[c].rec_num # num + 1
        BY <4>1, <4>2
      <4> QED
        BY <2>0, <4>3 DEF Settled
    <3>6. ColumnEntries(base[c], Leaf(c)) \in Seq(ColumnEntry)
      <4>1. /\ base[c] \in Column /\ ColumnAligned(base[c], Leaf(c), st[c])
            /\ Readable(base[c], Leaf(c))
        BY <2>0 DEF Settled
      <4> QED
        BY <2>0, <4>1, EntriesTyped
    <3>7. ColumnEntries(base[c], Leaf(c)) \o <<>> = ColumnEntries(base[c], Leaf(c))
      BY <3>6
    <3> QED
      BY <2>2, <3>2, <3>3, <3>4, <3>5, <3>7
  <2> QED
    BY <2>3, <2>4
<1>3. AllSettled(after, num + 1, MoreStarts(st, d))
  <2>1. \A c \in ColumnIds : MoreStarts(st, d)[c] = st[c] + OneStart(d, c)
    BY DEF MoreStarts
  <2>2. after = [c \in ColumnIds |-> after[c]]
    BY <1>1 DEF Underway
  <2> QED
    BY <1>2, <2>1, <2>2 DEF AllSettled
<1> QED
  BY <1>2, <1>3 DEF after

\* One that was cut short is rolled back: the columns it touched, which are all up to
\* the first it did not, are as before.
LEMMA RolledBackSettled ==
  ASSUME sid \in DOMAIN Schemas, NEW d \in Offered, NEW base, NEW num \in Nat,
         NEW st, AllSettled(base, num, st)
  PROVE  LET new == rollback_record(Applied(base, num, d.steps), num)
         IN /\ AllSettled(new, num, st)
            /\ \A c \in ColumnIds :
                 ColumnEntries(new[c], Leaf(c)) = ColumnEntries(base[c], Leaf(c))
<1> DEFINE n == Len(d.steps)
           after == Applied(base, num, d.steps)
           new == rollback_record(after, num)
           Same(col, c) == /\ Settled(col, Leaf(c), num, st[c])
                           /\ ColumnEntries(col, Leaf(c)) = ColumnEntries(base[c], Leaf(c))
<1>1. Underway(after, base, num, st, d, n)
  BY AppliedUnderway
<1>2. Len(Schemas[sid].leaves) \in Nat /\ \A c \in ColumnIds : LeafOK(Leaf(c))
  BY OfferedFacts
<1> HIDE DEF after
<1>3. /\ new = [c \in ColumnIds |-> new[c]]
      /\ \A c \in ColumnIds : new[c] = IF \A b \in 0 .. c : after[b].rec_num = num
                                       THEN RolledBack(after[c]) ELSE after[c]
  <2>1. DOMAIN after = ColumnIds
    BY <1>1 DEF Underway
  <2> QED
    BY <2>1 DEF rollback_record
<1>4. ASSUME NEW c \in ColumnIds PROVE Same(new[c], c)
  <2>0. st[c] \in Nat /\ Settled(base[c], Leaf(c), num, st[c]) /\ LeafOK(Leaf(c))
    BY <1>2 DEF AllSettled
  <2>1. CASE TouchedBy(d, n, c)
    <3>1. ASSUME NEW b \in 0 .. c PROVE after[b].rec_num = num
      <4>1. b \in ColumnIds
        BY <1>2 DEF ColumnIds
      <4>2. TouchedBy(d, n, b)
        <5>1. CASE b = c
          BY <2>1, <5>1
        <5>2. CASE b # c
          <6>1. PICK i \in 1 .. n : d.steps[i].op = "touch" /\ d.steps[i].column = c
            BY <2>1 DEF TouchedBy
          <6>2. n \in Nat /\ StepOK(d, i)
            BY OfferedFacts
          <6>3. b \in 0 .. c - 1
            BY <1>2, <5>2 DEF ColumnIds
          <6>4. TouchedBy(d, i, b)
            BY <6>1, <6>2, <6>3 DEF StepOK
          <6> QED
            BY <6>2, <6>4 DEF TouchedBy
        <5> QED
          BY <5>1, <5>2
      <4> QED
        BY <1>1, <4>1, <4>2 DEF Underway, InFlight
    <3>2. new[c] = RolledBack(after[c])
      BY <1>3, <3>1
    <3>3. /\ InFlight(after[c], base[c], Leaf(c), num, st[c] + Cardinality(Begun(d, n, c)))
          /\ Reads(after[c], base[c], Leaf(c), EntriesBy(d, n, c))
      BY <1>1, <2>1 DEF Underway
    <3> HIDE DEF new
    <3>4. /\ Settled(RolledBack(after[c]), Leaf(c), num, st[c])
          /\ ColumnEntries(RolledBack(after[c]), Leaf(c)) = ColumnEntries(base[c], Leaf(c))
      <4> DEFINE col == after[c]
                 b == base[c]
                 leaf == Leaf(c)
                 was == st[c]
                 started == st[c] + Cardinality(Begun(d, n, c))
                 es == EntriesBy(d, n, c)
      <4>1. /\ LeafOK(leaf) /\ num \in Nat /\ Settled(b, leaf, num, was)
            /\ InFlight(col, b, leaf, num, started) /\ Reads(col, b, leaf, es)
        BY <1>2, <2>0, <3>3
      <4> HIDE DEF col, b, leaf, was, started, es
      <4>2. /\ Settled(RolledBack(col), leaf, num, was)
            /\ ColumnEntries(RolledBack(col), leaf) = ColumnEntries(b, leaf)
        BY <4>1, RollbackRestores
      <4> QED
        BY <4>2 DEF col, b, leaf, was
    <3> QED
      BY <3>2, <3>4
  <2>2. CASE ~TouchedBy(d, n, c)
    <3>1. after[c] = base[c]
      BY <1>1, <2>2 DEF Underway
    <3>2. CASE \A b \in 0 .. c : after[b].rec_num = num
      <4>1. base[c].rec_num = num
        <5>1. c \in 0 .. c
          BY <1>2 DEF ColumnIds
        <5> QED
          BY <3>1, <3>2, <5>1
      <4>2. reset_record(base[c], num) = base[c]
        BY <4>1 DEF reset_record
      <4>3. /\ InFlight(base[c], base[c], Leaf(c), num, st[c])
            /\ Reads(base[c], base[c], Leaf(c), <<>>)
        BY <2>0, <4>2, TouchedFirst, TouchedReads
      <4>4. /\ Settled(RolledBack(base[c]), Leaf(c), num, st[c])
            /\ ColumnEntries(RolledBack(base[c]), Leaf(c)) = ColumnEntries(base[c], Leaf(c))
        BY <2>0, <4>3, RollbackRestores
      <4>5. new[c] = RolledBack(base[c])
        BY <1>3, <3>1, <3>2
      <4> QED
        BY <4>4, <4>5
    <3>3. CASE ~ \A b \in 0 .. c : after[b].rec_num = num
      <4>1. new[c] = after[c]
        BY <1>3, <3>3
      <4> HIDE DEF new
      <4> QED
        BY <2>0, <3>1, <4>1
    <3> QED
      BY <3>2, <3>3
  <2> QED
    BY <2>1, <2>2
<1> HIDE DEF new
<1>5. AllSettled(new, num, st)
  BY <1>3, <1>4 DEF AllSettled
<1>6. \A c \in ColumnIds : ColumnEntries(new[c], Leaf(c)) = ColumnEntries(base[c], Leaf(c))
  BY <1>4
<1> QED
  BY <1>5, <1>6 DEF new, after

\* Columns that were cleared hold no record, and no entries.
LEMMA ClearedSettled ==
  ASSUME sid \in DOMAIN Schemas
  PROVE  /\ AllSettled(clear_columns, 0, StartsOf(<<>>))
         /\ \A c \in ColumnIds : ColumnEntries(clear_columns[c], Leaf(c)) = <<>>
<1>1. ASSUME NEW c \in ColumnIds
      PROVE  Settled(EmptyColumn, Leaf(c), 0, 0) /\ ColumnEntries(EmptyColumn, Leaf(c)) = <<>>
  <2>1. EmptyColumn \in Column
    BY DEF EmptyColumn, Column
  <2>2. /\ EmptyColumn.num_values = 0 /\ Len(EmptyColumn.rlevels) = 0
        /\ Len(EmptyColumn.dlevels) = 0 /\ Len(EmptyColumn.values) = 0
    BY DEF EmptyColumn
  <2>3. 1 .. EmptyColumn.num_values = {} /\ 1 .. Len(EmptyColumn.values) = {}
    BY <2>2
  <2>4. ColumnAligned(EmptyColumn, Leaf(c), 0)
    <3>1. /\ {i \in 1 .. EmptyColumn.num_values :
                Leaf(c).dl = 0 \/ EmptyColumn.dlevels[i] = Leaf(c).dl} = {}
          /\ {i \in 1 .. EmptyColumn.num_values :
                Leaf(c).rl = 0 \/ EmptyColumn.rlevels[i] = 0} = {}
      BY <2>3
    <3> QED
      BY <2>2, <3>1, FS_EmptySet DEF ColumnAligned
  <2>5. Readable(EmptyColumn, Leaf(c))
    BY <2>3 DEF Readable
  <2>6. ColumnEntries(EmptyColumn, Leaf(c)) = <<>>
    <3>1. /\ ColumnEntries(EmptyColumn, Leaf(c)) \in Seq(ColumnEntry)
          /\ Len(ColumnEntries(EmptyColumn, Leaf(c))) = 0
      <4>1. LeafOK(Leaf(c))
        BY OfferedFacts
      <4> QED
        BY <2>1, <2>2, <2>4, <2>5, <4>1, EntriesTyped
    <3> QED
      BY <3>1
  <2> QED
    BY <2>1, <2>4, <2>5, <2>6 DEF Settled, EmptyColumn
<1>2. clear_columns = [c \in ColumnIds |-> EmptyColumn]
  BY DEF clear_columns, ColumnIds
<1>3. \A c \in ColumnIds : StartsOf(<<>>)[c] = 0
  <2>1. \A c : {i \in DOMAIN <<>> : <<>>[i].entries[c] # <<>>} = {}
    OBVIOUS
  <2> QED
    BY <2>1, FS_EmptySet DEF StartsOf
<1> QED
  BY <1>1, <1>2, <1>3 DEF AllSettled

-----------------------------------------------------------------------------
(* The entries of several dissections.                                     *)

\* The entries Gathered exist, for the same reason as the columns of Applied.
LEMMA GatheredExist ==
  ASSUME NEW ds, Len(ds) \in Nat, NEW c
  PROVE  \E h : Gathered(h, ds, c)
<1> DEFINE n == Len(ds)
           start == <<>>
           step(x, k) == x \o ds[k].entries[c]
           fits(h, m) == h = [k \in 0 .. m |-> IF k = 0 THEN start ELSE step(h[k - 1], k)]
           none == {m \in 0 .. n : ~ \E h : fits(h, m)}
<1> HIDE DEF step, start
<1>1. SUFFICES ASSUME none # {} PROVE FALSE
  <2>1. n \in 0 .. n
    OBVIOUS
  <2> QED
    BY <2>1 DEF step, start, Gathered
<1>2. PICK m \in none : \A k \in none : m <= k
  <2>1. none \subseteq Nat
    OBVIOUS
  <2> HIDE DEF none
  <2> QED
    BY <1>1, <2>1, LeastNatural
<1>3. m \in 0 .. n /\ m \in Nat /\ ~ \E h : fits(h, m)
  BY <1>2
<1>4. CASE m = 0
  <2> DEFINE h == [k \in 0 .. m |-> start]
  <2>1. fits(h, m)
    BY <1>4
  <2> QED
    BY <1>3, <2>1
<1>5. CASE m # 0
  <2>1. m - 1 \in 0 .. n /\ m - 1 \in Nat /\ ~(m <= m - 1)
    BY <1>3, <1>5
  <2>2. PICK g : fits(g, m - 1)
    <3>1. m - 1 \notin none
      BY <1>2, <2>1
    <3> QED
      BY <2>1, <3>1
  <2> DEFINE h == [k \in 0 .. m |-> IF k = 0 THEN start ELSE step(g[k - 1], k)]
  <2>3. ASSUME NEW k \in 0 .. m - 1 PROVE h[k] = g[k]
    <3>1. k \in 0 .. m /\ k \in 0 .. m - 1
      BY <1>3, <2>1, <2>3
    <3>2. g[k] = IF k = 0 THEN start ELSE step(g[k - 1], k)
      <4>1. g = [i \in 0 .. m - 1 |-> IF i = 0 THEN start ELSE step(g[i - 1], i)]
        BY <2>2
      <4> QED
        BY <4>1, <3>1
    <3> QED
      BY <3>1, <3>2
  <2>4. h = [k \in 0 .. m |-> IF k = 0 THEN start ELSE step(h[k - 1], k)]
    <3>1. ASSUME NEW k \in 0 .. m, k # 0 PROVE h[k - 1] = g[k - 1]
      <4>1. k - 1 \in 0 .. m - 1
        BY <1>3, <3>1
      <4> HIDE DEF h
      <4> QED
        BY <2>3, <4>1
    <3> QED
      BY <3>1
  <2>5. fits(h, m)
    BY <2>4
  <2> HIDE DEF h, fits
  <2> QED
    BY <1>3, <2>5
<1> QED
  BY <1>4, <1>5

\* AllEntries is the last of them.
LEMMA AllEntriesIs ==
  ASSUME NEW ds, Len(ds) \in Nat, NEW c
  PROVE  \E h : /\ AllEntries(ds, c) = h[Len(ds)] /\ h[0] = <<>>
               /\ \A k \in 1 .. Len(ds) : h[k] = h[k - 1] \o ds[k].entries[c]
<1> DEFINE n == Len(ds)
           h == CHOOSE all : Gathered(all, ds, c)
<1>1. AllEntries(ds, c) = h[n]
  BY DEF AllEntries, Gathered
<1>2. Gathered(h, ds, c)
  BY GatheredExist
<1> HIDE DEF h
<1>3. h = [k \in 0 .. n |-> IF k = 0 THEN <<>> ELSE h[k - 1] \o ds[k].entries[c]]
  BY <1>2 DEF Gathered
<1>4. 0 \in 0 .. n /\ \A k \in 1 .. n : k \in 0 .. n /\ k # 0
  OBVIOUS
<1>5. h[0] = <<>> /\ \A k \in 1 .. n : h[k] = h[k - 1] \o ds[k].entries[c]
  BY <1>3, <1>4
<1> QED
  BY <1>1, <1>5

\* Without dissections there are none.
LEMMA NoEntries == \A c : AllEntries(<<>>, c) = <<>>
<1> SUFFICES ASSUME NEW c PROVE AllEntries(<<>>, c) = <<>>
  OBVIOUS
<1>1. Len(<<>>) = 0
  OBVIOUS
<1> QED
  BY <1>1, AllEntriesIs

\* One dissection more adds its entries.
LEMMA AllEntriesMore ==
  ASSUME NEW D, NEW ds \in Seq(D), NEW d \in D, NEW c
  PROVE  AllEntries(Append(ds, d), c) = AllEntries(ds, c) \o d.entries[c]
<1> DEFINE n == Len(ds)
           more == Append(ds, d)
<1>1. /\ n \in Nat /\ Len(more) = n + 1 /\ more[n + 1] = d
      /\ \A k \in 1 .. n : more[k] = ds[k]
  OBVIOUS
<1> HIDE DEF more
<1>2. PICK h : /\ AllEntries(ds, c) = h[n] /\ h[0] = <<>>
               /\ \A k \in 1 .. n : h[k] = h[k - 1] \o ds[k].entries[c]
  <2>1. Len(ds) \in Nat
    BY <1>1
  <2>2. \E h : /\ AllEntries(ds, c) = h[Len(ds)] /\ h[0] = <<>>
              /\ \A k \in 1 .. Len(ds) : h[k] = h[k - 1] \o ds[k].entries[c]
    BY ONLY <2>1, AllEntriesIs
  <2> QED
    BY <2>2
<1>3. PICK g : /\ AllEntries(more, c) = g[n + 1] /\ g[0] = <<>>
               /\ \A k \in 1 .. n + 1 : g[k] = g[k - 1] \o more[k].entries[c]
  <2>1. Len(more) \in Nat
    BY <1>1
  <2>2. \E g : /\ AllEntries(more, c) = g[Len(more)] /\ g[0] = <<>>
              /\ \A k \in 1 .. Len(more) : g[k] = g[k - 1] \o more[k].entries[c]
    BY ONLY <2>1, AllEntriesIs
  <2> QED
    BY <1>1, <2>2
<1>4. \A k \in 0 .. n : g[k] = h[k]
  <2> DEFINE bad == {k \in 0 .. n : g[k] # h[k]}
  <2> SUFFICES ASSUME bad # {} PROVE FALSE
    OBVIOUS
  <2>1. PICK k \in bad : \A i \in bad : k <= i
    <3>1. bad \subseteq Nat
      BY <1>1
    <3> HIDE DEF bad
    <3> QED
      BY <3>1, LeastNatural
  <2>2. k \in 1 .. n /\ k \in 1 .. n + 1 /\ k - 1 \in 0 .. n /\ ~(k <= k - 1)
    BY <1>1, <1>2, <1>3, <2>1
  <2>3. g[k - 1] = h[k - 1]
    BY <2>1, <2>2
  <2>4. g[k] = g[k - 1] \o more[k].entries[c] /\ h[k] = h[k - 1] \o ds[k].entries[c]
    BY <1>2, <1>3, <2>2
  <2> QED
    BY <1>1, <2>1, <2>2, <2>3, <2>4
<1>5. g[n + 1] = g[n] \o d.entries[c]
  <2>1. n + 1 \in 1 .. n + 1 /\ (n + 1) - 1 = n
    BY <1>1
  <2> QED
    BY <1>1, <1>3, <2>1
<1>6. g[n] = h[n]
  BY <1>1, <1>4
<1> QED
  BY <1>2, <1>3, <1>5, <1>6 DEF more

-----------------------------------------------------------------------------
(* Writers and their schema.                                               *)

\* The number of owners is a number, and zero if there is none.
LEMMA OwnersFinite ==
  IsFiniteSet(Owners) /\ Cardinality(Owners) \in Nat /\ (Cardinality(Owners) = 0 <=> Owners = {})
<1>1. IsFiniteSet(Owners)
  BY WriterAssumption, FS_Subset DEF Owners
<1> QED
  BY <1>1, FS_CardinalityType, FS_EmptySet

\* With the same schema, what is said of a writer and its records is the same.
LEMMA SameSchema ==
  ASSUME sid' = sid, NEW w \in Writers, WriterOK(writer'[w], accepted'[w])
  PROVE  WriterOK(writer[w], accepted[w])'
<1>1. /\ ColumnIds' = ColumnIds /\ Complete' = Complete /\ \A c : Leaf(c)' = Leaf(c)
  BY DEF ColumnIds, Leaf, Complete, Offered
<1> QED
  BY <1>1 DEF WriterOK, AllSettled, HoldsAll, StartsOf

\* What one dissection more means.
LEMMA ContentsMore ==
  ASSUME NEW ds \in Seq(Complete), NEW d \in Complete
  PROVE  LET u == Contents(Append(ds, d))
         IN u = Append(Contents(ds), d.content) /\ u # <<>> /\ u[Len(u)] = d.content
<1> DEFINE more == Append(ds, d)
           n == Len(ds)
           acc == Contents(ds)
           u == Contents(more)
<1>2. /\ DOMAIN ds = 1 .. n /\ DOMAIN more = 1 .. n + 1 /\ n \in Nat /\ more[n + 1] = d
      /\ \A i \in 1 .. n : more[i] = ds[i]
  OBVIOUS
<1> HIDE DEF more
<1>3. acc = [i \in 1 .. n |-> ds[i].content] /\ u = [i \in 1 .. n + 1 |-> more[i].content]
  BY <1>2 DEF Contents
<1> DEFINE C == {e.content : e \in Complete}
<1>4. acc \in Seq(C) /\ Len(acc) = n /\ d.content \in C
  <2>1. \A i \in 1 .. n : ds[i].content \in C
    OBVIOUS
  <2>2. d.content \in C
    OBVIOUS
  <2> HIDE DEF C, acc
  <2>3. acc \in [1 .. n -> C]
    BY <1>3, <2>1
  <2> QED
    BY <1>2, <2>2, <2>3
<1> HIDE DEF C, acc, u
<1>5. \A i \in 1 .. n : more[i].content = acc[i]
  BY <1>2, <1>3
<1>6. Append(acc, d.content) = [i \in 1 .. n + 1 |-> IF i = n + 1 THEN d.content ELSE acc[i]]
  BY <1>2, <1>4
<1>7. \A i \in 1 .. n + 1 : more[i].content = IF i = n + 1 THEN d.content ELSE acc[i]
  BY <1>2, <1>5
<1>8. u = Append(acc, d.content)
  BY <1>3, <1>6, <1>7
<1>9. Len(u) = n + 1 /\ u[n + 1] = d.content
  BY <1>2, <1>3
<1>10. u # <<>>
  BY <1>2, <1>9
<1> QED
  BY <1>8, <1>9, <1>10 DEF u, acc, more

\* A step that changes one writer keeps the others, and it if it is right.
LEMMA OneWriter ==
  ASSUME WritersOK, NEW w \in Writers, NEW wr, NEW ds, WriterOK(wr, ds), sid' = sid,
         writer' = [writer EXCEPT ![w] = wr], accepted' = [accepted EXCEPT ![w] = ds]
  PROVE  /\ WritersOK' /\ writer'[w] = wr /\ accepted'[w] = ds
         /\ \A v \in Writers \ {w} : writer'[v] = writer[v] /\ accepted'[v] = accepted[v]
<1>1. /\ writer' = [v \in Writers |-> writer'[v]] /\ writer'[w] = wr
      /\ \A v \in Writers \ {w} : writer'[v] = writer[v]
  BY DEF WritersOK
<1>2. /\ accepted' = [v \in Writers |-> accepted'[v]] /\ accepted'[w] = ds
      /\ \A v \in Writers \ {w} : accepted'[v] = accepted[v]
  BY DEF WritersOK
<1>3. ASSUME NEW v \in Writers PROVE WriterOK(writer[v], accepted[v])'
  <2>1. WriterOK(writer'[v], accepted'[v])
    BY <1>1, <1>2 DEF WritersOK
  <2> QED
    BY <2>1, SameSchema
<1> QED
  BY <1>1, <1>2, <1>3 DEF WritersOK

\* A new schema has one owner, its handle.
LEMMA ParquetInitOK == ParquetInit => ParquetOK /\ RF!Init
<1> SUFFICES ASSUME ParquetInit PROVE ParquetOK /\ RF!Init
  OBVIOUS
<1>1. \A w \in Writers : writer[w] = NoWriter /\ accepted[w] = <<>>
  BY DEF ParquetInit
<1>2. Owners = {}
  BY <1>1 DEF Owners, NoWriter
<1>3. SchemaOK
  BY <1>2, FS_EmptySet DEF ParquetInit, SchemaOK
<1>4. WritersOK
  BY <1>1 DEF ParquetInit, WritersOK, WriterOK, NoWriter
<1>5. CallsOK
  BY <1>1, WriterAssumption DEF ParquetInit, CallsOK
<1>6. RF!Init
  <2>1. Contents(<<>>) = <<>>
    BY DEF Contents
  <2> QED
    BY <1>1, <2>1 DEF ParquetInit, RF!Init, Pending
<1> QED
  BY <1>3, <1>4, <1>5, <1>6 DEF ParquetOK

\* What changes in the files when one writer changes what it accepted.
LEMMA PendingOne ==
  ASSUME WritersOK, NEW w \in Writers, NEW ds, accepted' = [accepted EXCEPT ![w] = ds]
  PROVE  /\ Pending' = [Pending EXCEPT ![w] = Contents(ds)]
         /\ Pending[w] = Contents(accepted[w]) /\ Pending'[w] = Contents(ds)
<1>1. /\ accepted' = [v \in Writers |-> accepted'[v]] /\ accepted'[w] = ds
      /\ \A v \in Writers \ {w} : accepted'[v] = accepted[v]
  BY DEF WritersOK
<1> QED
  BY <1>1 DEF Pending

\* A writer goes on: the schema is not concerned.
LEMMA WriterGoesOn ==
  ASSUME ParquetOK, NEW w \in Writers, NEW wr, NEW ds, WriterOK(wr, ds), UNCHANGED schemavars,
         writer' = [writer EXCEPT ![w] = wr], accepted' = [accepted EXCEPT ![w] = ds],
         writer[w].state = "open", wr.state \in {"open", "closed"}
  PROVE  SchemaOK' /\ WritersOK'
<1>1. /\ WritersOK' /\ writer'[w] = wr /\ \A v \in Writers \ {w} : writer'[v] = writer[v]
  BY OneWriter DEF ParquetOK, schemavars
<1>2. Owners' = Owners
  BY <1>1 DEF Owners
<1> QED
  BY <1>1, <1>2 DEF ParquetOK, SchemaOK, schemavars

\* write_rowgroup leaves a writer that is as settled as before, and has accepted nothing.
LEMMA RowGroupWritten ==
  ASSUME ParquetOK, NEW w \in Writers, writer[w].state = "open", NEW state, write_rowgroup(w, state)
  PROVE  \E wr : /\ WriterOK(wr, <<>>) /\ wr.state = state
                /\ writer' = [writer EXCEPT ![w] = wr] /\ accepted' = [accepted EXCEPT ![w] = <<>>]
<1> DEFINE wr == writer[w]
           kept == [state |-> state, num_records |-> wr.num_records, columns |-> wr.columns]
           empty == [state |-> state, num_records |-> 0, columns |-> clear_columns]
<1>1. /\ WriterOK(wr, accepted[w]) /\ sid \in DOMAIN Schemas
      /\ accepted = [v \in Writers |-> accepted[v]]
  BY DEF ParquetOK, WritersOK, SchemaOK
<1>2. CASE wr.num_records = 0
  <2>0. accepted[w] = <<>>
    <3>1. accepted[w] \in Seq(Complete) /\ Len(accepted[w]) = 0
      BY <1>1, <1>2 DEF WriterOK
    <3> QED
      BY <3>1
  <2>1. writer' = [writer EXCEPT ![w] = kept]
    <3>1. writer' = [writer EXCEPT ![w].state = state]
      BY <1>2 DEF write_rowgroup
    <3>2. wr = [state |-> wr.state, num_records |-> wr.num_records, columns |-> wr.columns]
      BY <1>1 DEF WriterOK
    <3>3. [wr EXCEPT !.state = state] = kept
      BY <3>2
    <3> QED
      BY <3>1, <3>3
  <2>2. WriterOK(kept, <<>>)
    BY <1>1, <2>0 DEF WriterOK
  <2>3. accepted' = [accepted EXCEPT ![w] = <<>>]
    BY <1>1, <1>2, <2>0 DEF write_rowgroup
  <2> QED
    BY <2>1, <2>2, <2>3
<1>3. CASE wr.num_records # 0
  <2>1. writer' = [writer EXCEPT ![w] = empty] /\ accepted' = [accepted EXCEPT ![w] = <<>>]
    BY <1>3 DEF write_rowgroup
  <2>2. WriterOK(empty, <<>>)
    <3>1. AllSettled(clear_columns, 0, StartsOf(<<>>)) /\ HoldsAll(clear_columns, <<>>)
      BY <1>1, ClearedSettled, NoEntries DEF HoldsAll
    <3>2. <<>> \in Seq(Complete) /\ Len(<<>>) = 0
      OBVIOUS
    <3> QED
      BY <3>1, <3>2 DEF WriterOK
  <2> QED
    BY <2>1, <2>2
<1> QED
  BY <1>2, <1>3

\* The assignments of Dissect amount to Dissected and Taken.
LEMMA DissectedWriter ==
  ASSUME ParquetOK, NEW w \in Writers, NEW d \in Offered, Dissect(w, d)
  PROVE  /\ sid \in DOMAIN Schemas /\ writer[w].state = "open" /\ UNCHANGED schemavars
         /\ writer' = [writer EXCEPT ![w] = Dissected(writer[w], d)]
         /\ accepted' = [accepted EXCEPT ![w] = Taken(accepted[w], d)]
<1> DEFINE wr == writer[w]
           num == wr.num_records
           after == Applied(wr.columns, num, d.steps)
           more == [state |-> "open", num_records |-> num + 1, columns |-> after]
           same == [state |-> "open", num_records |-> num,
                    columns |-> rollback_record(after, num)]
<1>1. /\ sid \in DOMAIN Schemas /\ wr.state = "open"
      /\ wr = [state |-> "open", num_records |-> num, columns |-> wr.columns]
      /\ UNCHANGED schemavars
  BY DEF Dissect, ParquetOK, SchemaOK, WritersOK, WriterOK
<1>2. CASE d.ok
  <2>1. writer' = [writer EXCEPT ![w].num_records = num + 1, ![w].columns = after]
    BY <1>2 DEF Dissect
  <2> HIDE DEF after
  <2>2. [[wr EXCEPT !.num_records = num + 1] EXCEPT !.columns = after] = more
    <3> DEFINE cols == wr.columns
    <3>1. wr = [state |-> "open", num_records |-> num, columns |-> cols]
      BY <1>1
    <3> HIDE DEF wr, num, cols
    <3>2. [wr EXCEPT !.num_records = num + 1]
            = [state |-> "open", num_records |-> num + 1, columns |-> cols]
      BY <3>1
    <3>3. [[state |-> "open", num_records |-> num + 1, columns |-> cols]
             EXCEPT !.columns = after] = more
      OBVIOUS
    <3> QED
      BY ONLY <3>2, <3>3
  <2>3. w \in DOMAIN writer
    BY DEF ParquetOK, WritersOK
  <2>4. writer' = [writer EXCEPT ![w] = more]
    BY <2>1, <2>2, <2>3
  <2>5. Dissected(wr, d) = more
    BY <1>2 DEF Dissected, after
  <2>6. accepted' = [accepted EXCEPT ![w] = Taken(accepted[w], d)]
    BY <1>2 DEF Dissect, Taken
  <2> QED
    BY <1>1, <2>4, <2>5, <2>6
<1>3. CASE ~d.ok
  <2>1. writer' = [writer EXCEPT ![w].columns = rollback_record(after, num)]
    BY <1>3 DEF Dissect
  <2> HIDE DEF after
  <2>2. [wr EXCEPT !.columns = rollback_record(after, num)] = same
    BY <1>1
  <2>3. writer' = [writer EXCEPT ![w] = same]
    BY <2>1, <2>2
  <2>4. Dissected(wr, d) = same
    BY <1>3 DEF Dissected, after
  <2>5. accepted' = [accepted EXCEPT ![w] = Taken(accepted[w], d)]
    BY <1>3 DEF Dissect, Taken, ParquetOK, WritersOK
  <2> QED
    BY <1>1, <2>3, <2>4, <2>5
<1> QED
  BY <1>2, <1>3

\* A dissection more, and those of them that gave a column entries.
LEMMA StartsMore ==
  ASSUME NEW D, NEW ds \in Seq(D), NEW d \in D
  PROVE  StartsOf(Append(ds, d)) = MoreStarts(StartsOf(ds), d)
<1> DEFINE n == Len(ds)
           more == Append(ds, d)
<1>1. /\ n \in Nat /\ DOMAIN ds = 1 .. n /\ DOMAIN more = 1 .. n + 1 /\ more[n + 1] = d
      /\ \A i \in 1 .. n : more[i] = ds[i]
  OBVIOUS
<1> HIDE DEF more
<1>2. ASSUME NEW c \in ColumnIds
      PROVE  StartsOf(more)[c] = StartsOf(ds)[c] + OneStart(d, c)
  <2> DEFINE S == {i \in DOMAIN ds : ds[i].entries[c] # <<>>}
             T == {i \in DOMAIN more : more[i].entries[c] # <<>>}
  <2>1. S \subseteq 1 .. n /\ T \subseteq 1 .. n + 1 /\ \A i \in 1 .. n : i \in T <=> i \in S
    BY <1>1
  <2>2. n + 1 \in T <=> d.entries[c] # <<>>
    BY <1>1
  <2>3. StartsOf(ds)[c] = Cardinality(S) /\ StartsOf(more)[c] = Cardinality(T)
    BY DEF StartsOf
  <2> HIDE DEF n, S, T
  <2>4. /\ Cardinality(S) \in Nat
        /\ n + 1 \in T => Cardinality(T) = Cardinality(S) + 1
        /\ n + 1 \notin T => Cardinality(T) = Cardinality(S)
    <3>1. n \in Nat
      BY <1>1
    <3>2. Grown(n, S, T)
      BY <2>1 DEF Grown
    <3> QED
      BY <3>1, <3>2, CountMore
  <2> QED
    BY <2>2, <2>3, <2>4 DEF OneStart
<1>3. StartsOf(more) = [c \in ColumnIds |-> StartsOf(more)[c]]
  BY DEF StartsOf
<1>4. StartsOf(more) = MoreStarts(StartsOf(ds), d)
  BY <1>2, <1>3 DEF MoreStarts
<1> QED
  BY <1>4 DEF more

\* A dissection, to its end or rolled back.
LEMMA DissectedOK ==
  ASSUME sid \in DOMAIN Schemas, NEW wr, NEW ds, WriterOK(wr, ds), wr.state = "open",
         NEW d \in Offered
  PROVE  WriterOK(Dissected(wr, d), Taken(ds, d)) /\ Dissected(wr, d).state = "open"
<1> DEFINE num == wr.num_records
           after == Applied(wr.columns, num, d.steps)
           new == Dissected(wr, d)
<1>1. /\ ds \in Seq(Complete) /\ num = Len(ds) /\ num \in Nat
      /\ AllSettled(wr.columns, num, StartsOf(ds)) /\ HoldsAll(wr.columns, ds)
  BY DEF WriterOK
<1>2. CASE d.ok
  <2>1. /\ AllSettled(after, num + 1, MoreStarts(StartsOf(ds), d))
        /\ \A c \in ColumnIds :
             ColumnEntries(after[c], Leaf(c)) = ColumnEntries(wr.columns[c], Leaf(c)) \o d.entries[c]
    BY <1>1, <1>2, DissectedSettled
  <2> HIDE DEF after
  <2>2. new = [state |-> "open", num_records |-> num + 1, columns |-> after]
    BY <1>2 DEF Dissected, after
  <2>3. d \in Complete /\ Taken(ds, d) = Append(ds, d)
    BY <1>2 DEF Complete, Taken
  <2>4. StartsOf(Append(ds, d)) = MoreStarts(StartsOf(ds), d)
    BY <1>1, <2>3, StartsMore
  <2>5. HoldsAll(after, Append(ds, d))
    <3>1. \A c : AllEntries(Append(ds, d), c) = AllEntries(ds, c) \o d.entries[c]
      BY <1>1, <2>3, AllEntriesMore
    <3> QED
      BY <1>1, <2>1, <3>1 DEF HoldsAll
  <2>6. Append(ds, d) \in Seq(Complete) /\ Len(Append(ds, d)) = num + 1
    BY <1>1, <2>3
  <2> HIDE DEF new
  <2>7. WriterOK(new, Append(ds, d))
    BY <2>1, <2>2, <2>4, <2>5, <2>6 DEF WriterOK
  <2> QED
    BY <2>2, <2>3, <2>7 DEF new
<1>3. CASE ~d.ok
  <2> DEFINE left == rollback_record(after, num)
  <2>1. /\ AllSettled(left, num, StartsOf(ds))
        /\ \A c \in ColumnIds :
             ColumnEntries(left[c], Leaf(c)) = ColumnEntries(wr.columns[c], Leaf(c))
    BY <1>1, RolledBackSettled
  <2>2. new = [state |-> "open", num_records |-> num, columns |-> left]
    BY <1>3 DEF Dissected
  <2> HIDE DEF left, new
  <2>3. HoldsAll(left, ds)
    BY <1>1, <2>1 DEF HoldsAll
  <2>4. WriterOK(new, ds)
    BY <1>1, <2>1, <2>2, <2>3 DEF WriterOK
  <2>5. Taken(ds, d) = ds
    BY <1>3 DEF Taken
  <2> QED
    BY <2>2, <2>4, <2>5 DEF new
<1> QED
  BY <1>2, <1>3

\* A record is accepted whole, or leaves nothing.
LEMMA DissectOK ==
  ASSUME ParquetOK, NEW w \in Writers, NEW d \in Offered, Dissect(w, d)
  PROVE  ParquetOK' /\ FileStep
<1> DEFINE old == accepted[w]
<1>1. /\ sid \in DOMAIN Schemas /\ writer[w].state = "open" /\ UNCHANGED schemavars
      /\ writer' = [writer EXCEPT ![w] = Dissected(writer[w], d)]
      /\ accepted' = [accepted EXCEPT ![w] = Taken(old, d)]
  BY DissectedWriter
<1>2. WriterOK(writer[w], old)
  BY DEF ParquetOK, WritersOK
<1>3. WriterOK(Dissected(writer[w], d), Taken(old, d)) /\ Dissected(writer[w], d).state = "open"
  BY <1>1, <1>2, DissectedOK
<1>4. SchemaOK' /\ WritersOK'
  BY <1>1, <1>3, WriterGoesOn
<1>5. old \in Seq(Complete) /\ Len(Taken(old, d)) <= Len(old) + 1 /\ Len(old) \in Nat
  <2>1. old \in Seq(Complete)
    BY <1>2 DEF WriterOK
  <2> HIDE DEF old
  <2>2. d.ok => d \in Complete
    BY DEF Complete
  <2>3. CASE d.ok
    BY <2>1, <2>2, <2>3 DEF Taken
  <2>4. CASE ~d.ok
    BY <2>1, <2>4 DEF Taken
  <2> QED
    BY <2>1, <2>3, <2>4
<1>6. calls' = calls + 1 /\ calls < MaxCalls /\ file' = file
  BY DEF Dissect
<1>7. CallsOK'
  <2>1. calls \in Nat /\ MaxCalls \in Nat /\ \A v \in Writers : Len(accepted[v]) <= calls
    BY WriterAssumption DEF ParquetOK, CallsOK
  <2>2. \A v \in Writers : accepted[v] \in Seq(Complete)
    BY DEF ParquetOK, WritersOK, WriterOK
  <2>3. /\ accepted'[w] = Taken(old, d)
        /\ \A v \in Writers \ {w} : accepted'[v] = accepted[v]
    BY <1>1 DEF ParquetOK, WritersOK
  <2>4. Len(Taken(old, d)) \in Nat
    BY <1>3 DEF WriterOK
  <2>5. Len(accepted'[w]) <= calls + 1
    BY <1>5, <2>1, <2>3, <2>4
  <2>6. \A v \in Writers \ {w} : Len(accepted'[v]) <= calls + 1
    <3>1. \A v \in Writers : Len(accepted[v]) \in Nat
      BY <2>2
    <3> QED
      BY <2>1, <2>3, <3>1
  <2>7. calls + 1 \in Nat /\ calls + 1 <= MaxCalls
    BY <1>6, <2>1
  <2> QED
    BY <1>6, <2>5, <2>6, <2>7 DEF CallsOK
<1>8. FileStep
  <2>0. WritersOK
    BY DEF ParquetOK
  <2>1. /\ Pending' = [Pending EXCEPT ![w] = Contents(Taken(old, d))]
        /\ Pending[w] = Contents(old) /\ Pending'[w] = Contents(Taken(old, d))
    BY <1>1, <2>0, PendingOne
  <2> HIDE DEF old
  <2>2. CASE d.ok
    <3> DEFINE u == Contents(Append(old, d))
    <3>1. Contents(Taken(old, d)) = u /\ d \in Complete
      BY <2>2 DEF Taken, Complete
    <3>2. u = Append(Contents(old), d.content) /\ u # <<>> /\ u[Len(u)] = d.content
      BY <1>5, <3>1, ContentsMore
    <3> HIDE DEF u
    <3>3. RF!Accept(w)
      BY <1>6, <2>1, <3>1, <3>2 DEF RF!Accept
    <3> QED
      BY <3>3 DEF FileStep, RF!Next
  <2>3. CASE ~d.ok
    <3>1. Taken(old, d) = old
      BY <2>3 DEF Taken
    <3>2. Pending' = Pending
      BY <2>1, <3>1 DEF Pending
    <3> QED
      BY <1>6, <3>2 DEF FileStep, RF!vars
  <2> QED
    BY <2>2, <2>3
<1> QED
  BY <1>4, <1>7, <1>8 DEF ParquetOK

\* What a row group is read back as, if it can be written.
LEMMA RowGroupRead ==
  ASSUME ParquetOK, NEW w \in Writers, writer[w].state = "open",
         writer[w].num_records # 0, Aligned(writer[w])
  PROVE  RowGroup(writer[w]) = Contents(accepted[w])
<1> DEFINE wr == writer[w]
           ds == accepted[w]
           m == wr.num_records
<1>1. /\ sid \in DOMAIN Schemas /\ ds \in Seq(Complete) /\ m = Len(ds)
      /\ AllSettled(wr.columns, m, StartsOf(ds)) /\ HoldsAll(wr.columns, ds)
  BY DEF ParquetOK, SchemaOK, WritersOK, WriterOK
<1>2. m \in 1 .. MaxCalls
  <2>1. Len(ds) <= calls /\ calls <= MaxCalls /\ calls \in Nat
    BY DEF ParquetOK, CallsOK
  <2>2. MaxCalls \in Nat /\ m # 0
    BY WriterAssumption
  <2>3. Len(ds) \in Nat
    BY <1>1
  <2> HIDE DEF m, ds
  <2> QED
    BY <1>1, <2>1, <2>2, <2>3
<1> HIDE DEF ds
<1>3. ds \in [1 .. m -> Complete]
  BY <1>1, <1>2
<1> DEFINE leaves == Schemas[sid].leaves
<1>4. ASSUME NEW i \in 1 .. m PROVE Whole(ds[i], leaves)
  <2>1. ASSUME NEW c \in ColumnIds PROVE ds[i].entries[c] # <<>>
    <3> DEFINE S == {j \in DOMAIN ds : ds[j].entries[c] # <<>>}
    <3>1. ColumnAligned(wr.columns[c], Leaf(c), m)
      BY <1>1 DEF Aligned, AllSettled
    <3>2. ColumnAligned(wr.columns[c], Leaf(c), StartsOf(ds)[c])
      BY <1>1 DEF AllSettled, Settled
    <3>3. StartsOf(ds)[c] = Cardinality(S)
      BY DEF StartsOf
    <3>4. Cardinality(S) = m
      BY <3>1, <3>2, <3>3 DEF ColumnAligned
    <3>5. DOMAIN ds = 1 .. m /\ m \in Nat
      BY <1>2, <1>3
    <3>6. S \subseteq 1 .. m
      BY <3>5
    <3> HIDE DEF S, m
    <3>7. 1 .. m = S
      <4>1. IsFiniteSet(1 .. m) /\ Cardinality(1 .. m) = m
        BY <3>5, FS_Interval
      <4> QED
        BY <3>4, <3>6, <4>1, FS_Subset
    <3> QED
      BY <3>7 DEF S
  <2> QED
    BY <2>1 DEF Whole, ColumnIds
<1> DEFINE cols == [c \in 0 .. Len(leaves) - 1 |-> AllEntries(ds, c)]
<1>5. [c \in DOMAIN wr.columns |-> ColumnEntries(wr.columns[c], Leaf(c))] = cols
  <2>1. DOMAIN wr.columns = ColumnIds
    BY <1>1 DEF AllSettled
  <2>2. \A c \in ColumnIds : ColumnEntries(wr.columns[c], Leaf(c)) = AllEntries(ds, c)
    BY <1>1 DEF HoldsAll
  <2> QED
    BY <2>1, <2>2 DEF ColumnIds
<1>6. Assembly(Schemas[sid], cols, m) = [i \in 1 .. m |-> ds[i].content]
  <2>1. ds \in [1 .. m -> {d \in Schemas[sid].records \cup Schemas[sid].messages :
                            d.ok /\ Whole(d, Schemas[sid].leaves)}]
    BY <1>3, <1>4 DEF Complete, Offered
  <2> QED
    BY <1>1, <1>2, <2>1, ReaderAssumption
<1>7. RowGroup(wr) = Assembly(Schemas[sid], cols, m)
  BY <1>5 DEF RowGroup
<1>8. Contents(ds) = [i \in 1 .. m |-> ds[i].content]
  BY <1>3 DEF Contents
<1> QED
  BY <1>6, <1>7, <1>8 DEF ds

\* A row group is written as its writer accepted it, or given up.
LEMMA RowGroupOK ==
  ASSUME ParquetOK, NEW w \in Writers, writer[w].state = "open", NEW state,
         write_rowgroup(w, state)
  PROVE  FileStep
<1> DEFINE wr == writer[w]
<1>1. /\ WritersOK /\ WriterOK(wr, accepted[w])
  BY DEF ParquetOK, WritersOK
<1>2. /\ Pending' = [Pending EXCEPT ![w] = Contents(<<>>)] /\ Pending[w] = Contents(accepted[w])
      /\ Contents(<<>>) = <<>>
  <2>1. accepted' = [accepted EXCEPT ![w] = <<>>]
    BY RowGroupWritten
  <2>2. Pending' = [Pending EXCEPT ![w] = Contents(<<>>)] /\ Pending[w] = Contents(accepted[w])
    BY <1>1, <2>1, PendingOne
  <2>3. Contents(<<>>) = <<>>
    BY DEF Contents
  <2> QED
    BY <2>2, <2>3
<1>3. CASE wr.num_records = 0
  <2>1. accepted' = accepted /\ file' = file
    BY <1>3 DEF write_rowgroup
  <2> QED
    BY <2>1 DEF FileStep, RF!vars, Pending
<1>4. CASE wr.num_records # 0
  <2>1. \/ Aligned(wr) /\ file' = [file EXCEPT ![w] = Append(@, RowGroup(wr))]
        \/ file' = file
    BY <1>4 DEF write_rowgroup
  <2>2. CASE file' = file
    BY <1>2, <2>2 DEF FileStep, RF!Next, RF!GiveUp
  <2>3. CASE Aligned(wr) /\ file' = [file EXCEPT ![w] = Append(@, RowGroup(wr))]
    <3>1. RowGroup(wr) = Contents(accepted[w])
      BY <1>4, <2>3, RowGroupRead
    <3>2. Contents(accepted[w]) # <<>>
      <4>1. accepted[w] \in Seq(Complete) /\ Len(accepted[w]) # 0
        BY <1>1, <1>4 DEF WriterOK
      <4>2. DOMAIN Contents(accepted[w]) = 1 .. Len(accepted[w]) /\ 1 \in 1 .. Len(accepted[w])
        BY <4>1 DEF Contents
      <4>3. DOMAIN <<>> = {}
        OBVIOUS
      <4> QED
        BY <4>2, <4>3
    <3>3. RF!Write(w)
      BY <1>2, <2>3, <3>1, <3>2 DEF RF!Write
    <3> QED
      BY <3>3 DEF FileStep, RF!Next
  <2> QED
    BY <2>1, <2>2, <2>3
<1> QED
  BY <1>3, <1>4

\* When nothing is accepted, the bound on what was is kept.
LEMMA CallsKept ==
  ASSUME ParquetOK, NEW w \in Writers, calls' = calls,
         accepted' = [accepted EXCEPT ![w] = <<>>] \/ accepted' = accepted
  PROVE  CallsOK'
<1>1. calls \in Nat /\ calls <= MaxCalls /\ \A v \in Writers : Len(accepted[v]) <= calls
  BY DEF ParquetOK, CallsOK
<1>2. \A v \in Writers : accepted'[v] = <<>> \/ accepted'[v] = accepted[v]
  BY DEF ParquetOK, WritersOK
<1> QED
  BY <1>1, <1>2 DEF CallsOK

\* A new writer is one owner more, also when its file does not open.
LEMMA NewWriterOK ==
  ASSUME ParquetOK, NEW w \in Writers, NEW opened \in BOOLEAN, pq_new_writer(w, opened)
  PROVE  ParquetOK' /\ FileStep
<1> DEFINE wr == [state |-> IF opened THEN "open" ELSE "failed", num_records |-> 0,
                  columns |-> clear_columns]
<1>1. WriterOK(wr, <<>>)
  <2>1. sid \in DOMAIN Schemas
    BY DEF ParquetOK, SchemaOK
  <2>2. AllSettled(clear_columns, 0, StartsOf(<<>>)) /\ HoldsAll(clear_columns, <<>>)
    BY <2>1, ClearedSettled, NoEntries DEF HoldsAll
  <2>3. <<>> \in Seq(Complete) /\ Len(<<>>) = 0
    OBVIOUS
  <2> QED
    BY <2>2, <2>3 DEF WriterOK
<1>2. /\ writer' = [writer EXCEPT ![w] = wr] /\ sid' = sid /\ node' = node /\ handle' = handle
      /\ handle /\ node = "final" /\ writer[w].state = "none" /\ ref_cnt' = ref_cnt + 1
      /\ UNCHANGED <<file, accepted, calls>>
  BY DEF pq_new_writer
<1>7. accepted' = [accepted EXCEPT ![w] = <<>>]
  <2>1. accepted[w] = <<>> /\ accepted = [v \in Writers |-> accepted[v]]
    BY <1>2 DEF ParquetOK, WritersOK, WriterOK
  <2> QED
    BY <1>2, <2>1
<1> HIDE DEF wr
<1>3. /\ WritersOK' /\ writer'[w] = wr /\ \A v \in Writers \ {w} : writer'[v] = writer[v]
  BY <1>1, <1>2, <1>7, OneWriter DEF ParquetOK
<1>4. Owners' = Owners \cup {w} /\ w \notin Owners
  <2>1. wr.state \in {"open", "failed"}
    BY DEF wr
  <2> QED
    BY <1>2, <1>3, <2>1 DEF Owners
<1>5. Cardinality(Owners') = Cardinality(Owners) + 1
  BY <1>4, OwnersFinite, FS_AddElement
<1>6. SchemaOK'
  <2>1. ref_cnt = 1 + Cardinality(Owners) /\ Cardinality(Owners) \in Nat
    BY <1>2, OwnersFinite DEF ParquetOK, SchemaOK
  <2> QED
    BY <1>2, <1>5, <2>1 DEF ParquetOK, SchemaOK
<1>8. CallsOK' /\ FileStep
  BY <1>2, CallsKept DEF FileStep, RF!vars, Pending
<1> QED
  BY <1>3, <1>6, <1>8 DEF ParquetOK

\* A collected writer is one owner less.
LEMMA WriterGcOK ==
  ASSUME ParquetOK, NEW w \in Writers, pq_writer_gc(w)
  PROVE  ParquetOK' /\ FileStep
<1>1. /\ writer[w].state \in {"open", "failed", "closed"} /\ Release
      /\ sid' = sid /\ handle' = handle /\ calls' = calls
  BY DEF pq_writer_gc
<1>2. PICK wr : /\ WriterOK(wr, <<>>) /\ wr.state = "gone" /\ writer' = [writer EXCEPT ![w] = wr]
                /\ accepted' = [accepted EXCEPT ![w] = <<>>] /\ FileStep
  <2>1. CASE writer[w].state = "open"
    BY <2>1, RowGroupWritten, RowGroupOK DEF pq_writer_gc
  <2>2. CASE writer[w].state # "open"
    <3> DEFINE left == [state |-> "gone", num_records |-> writer[w].num_records,
                        columns |-> writer[w].columns]
    <3>1. writer' = [writer EXCEPT ![w].state = "gone"] /\ UNCHANGED <<file, accepted>>
      BY <2>2 DEF pq_writer_gc
    <3>2. /\ writer[w] = [state |-> writer[w].state, num_records |-> writer[w].num_records,
                          columns |-> writer[w].columns]
          /\ accepted[w] = <<>> /\ accepted = [v \in Writers |-> accepted[v]]
      BY <2>2 DEF ParquetOK, WritersOK, WriterOK
    <3>3. [writer[w] EXCEPT !.state = "gone"] = left
      BY <3>2
    <3>4. writer' = [writer EXCEPT ![w] = left]
      BY <3>1, <3>3
    <3>5. accepted' = [accepted EXCEPT ![w] = <<>>]
      BY <3>1, <3>2
    <3>6. FileStep
      BY <3>1 DEF FileStep, RF!vars, Pending
    <3>7. WriterOK(left, <<>>)
      BY DEF WriterOK
    <3> QED
      BY <3>4, <3>5, <3>6, <3>7
  <2> QED
    BY <2>1, <2>2
<1>3. /\ WritersOK' /\ writer'[w] = wr /\ \A v \in Writers \ {w} : writer'[v] = writer[v]
  BY <1>1, <1>2, OneWriter DEF ParquetOK
<1>4. Owners' = Owners \ {w} /\ w \in Owners
  BY <1>1, <1>2, <1>3 DEF Owners
<1>5. Cardinality(Owners') = Cardinality(Owners) - 1
  BY <1>4, OwnersFinite, FS_RemoveElement
<1>6. SchemaOK'
  <2>1. /\ ref_cnt = (IF handle THEN 1 ELSE 0) + Cardinality(Owners)
        /\ Cardinality(Owners) \in Nat /\ Cardinality(Owners) # 0 /\ handle \in BOOLEAN
        /\ ref_cnt' = ref_cnt - 1 /\ node' = (IF ref_cnt = 1 THEN "freed" ELSE node)
        /\ node \in {"freed", "crashed"} <=> ref_cnt = 0
    BY <1>1, <1>4, OwnersFinite DEF ParquetOK, SchemaOK, Release
  <2>2. node \notin {"open", "partial", "corrupt"}
    BY <1>4 DEF ParquetOK, SchemaOK
  <2>3. ref_cnt' = (IF handle THEN 1 ELSE 0) + Cardinality(Owners')
    BY <1>5, <2>1
  <2>4. node' \in {"freed", "crashed"} <=> ref_cnt' = 0
    <3>1. ref_cnt \in Nat /\ ref_cnt # 0
      BY <2>1
    <3> QED
      BY <2>1, <3>1
  <2>5. node' \notin {"open", "partial", "corrupt"}
    BY <2>1, <2>2
  <2> QED
    BY <1>1, <2>3, <2>4, <2>5 DEF ParquetOK, SchemaOK
<1>7. CallsOK'
  BY <1>1, <1>2, CallsKept
<1> QED
  BY <1>2, <1>3, <1>6, <1>7 DEF ParquetOK

\* Nothing but the schema changes.
LEMMA WritersUnchanged ==
  ASSUME ParquetOK, UNCHANGED <<sid, writer, accepted, calls, file>>
  PROVE  WritersOK' /\ CallsOK' /\ Owners' = Owners /\ FileStep
<1>1. ASSUME NEW w \in Writers PROVE WriterOK(writer[w], accepted[w])'
  <2>1. WriterOK(writer'[w], accepted'[w])
    BY DEF ParquetOK, WritersOK
  <2> QED
    BY <2>1, SameSchema
<1>2. WritersOK'
  BY <1>1 DEF ParquetOK, WritersOK
<1>3. CallsOK'
  BY DEF ParquetOK, CallsOK
<1>4. Owners' = Owners /\ FileStep
  BY DEF Owners, FileStep, RF!vars, Pending
<1> QED
  BY <1>2, <1>3, <1>4

\* The invariant is kept, and every step is one of record files, or none.
LEMMA ParquetNextOK == ParquetOK /\ [ParquetNext]_parquetvars => ParquetOK' /\ FileStep
<1> SUFFICES ASSUME ParquetOK, [ParquetNext]_parquetvars PROVE ParquetOK' /\ FileStep
  OBVIOUS
<1>1. CASE Finalize
  <2>1. /\ handle /\ node' \notin {"freed", "crashed"} /\ node \in {"open", "partial", "corrupt"}
        /\ UNCHANGED <<sid, handle, ref_cnt, writer, accepted, calls, file>>
    BY <1>1 DEF Finalize
  <2>2. ref_cnt # 0 /\ Owners = {}
    BY <2>1, OwnersFinite DEF ParquetOK, SchemaOK
  <2>3. WritersOK' /\ CallsOK' /\ Owners' = Owners /\ FileStep
    BY <2>1, WritersUnchanged
  <2>4. SchemaOK'
    BY <2>1, <2>2, <2>3 DEF ParquetOK, SchemaOK
  <2> QED
    BY <2>3, <2>4 DEF ParquetOK
<1>2. CASE pq_schema_gc
  <2>1. /\ handle /\ handle' = FALSE /\ UNCHANGED <<sid, writer, accepted, calls, file>>
        /\ ref_cnt' = ref_cnt - 1 /\ node' = (IF ref_cnt = 1 THEN "freed" ELSE node)
    BY <1>2 DEF pq_schema_gc, Release
  <2>2. /\ ref_cnt = 1 + Cardinality(Owners) /\ Cardinality(Owners) \in Nat
        /\ node \notin {"freed", "crashed"} /\ (Cardinality(Owners) = 0 <=> Owners = {})
        /\ node \in {"open", "partial", "corrupt"} => Owners = {}
    BY <2>1, OwnersFinite DEF ParquetOK, SchemaOK
  <2>3. WritersOK' /\ CallsOK' /\ Owners' = Owners /\ FileStep
    BY <2>1, WritersUnchanged
  <2>4. ref_cnt' = Cardinality(Owners) /\ (node' \in {"freed", "crashed"} <=> ref_cnt' = 0)
    BY <2>1, <2>2
  <2>5. SchemaOK'
    <3>1. sid' \in DOMAIN Schemas
      BY <2>1 DEF ParquetOK, SchemaOK
    <3>2. handle' \in BOOLEAN /\ (IF handle' THEN 1 ELSE 0) = 0
      BY <2>1
    <3>3. ref_cnt' = (IF handle' THEN 1 ELSE 0) + Cardinality(Owners')
      BY <2>2, <2>3, <2>4, <3>2
    <3>4. node' \in {"open", "partial", "corrupt"} => Owners' = {}
      BY <2>1, <2>2, <2>3
    <3> QED
      BY <2>4, <3>1, <3>2, <3>3, <3>4 DEF SchemaOK
  <2> QED
    BY <2>3, <2>5 DEF ParquetOK
<1>5. CASE SchemaCrash
  <2>1. /\ node = "corrupt" /\ node' = "crashed" /\ handle' = FALSE /\ ref_cnt' = 0
        /\ UNCHANGED <<sid, writer, accepted, calls, file>>
    BY <1>5 DEF SchemaCrash
  <2>2. Owners = {} /\ Cardinality(Owners) = 0 /\ sid \in DOMAIN Schemas
    BY <2>1, OwnersFinite DEF ParquetOK, SchemaOK
  <2>3. WritersOK' /\ CallsOK' /\ Owners' = Owners /\ FileStep
    BY <2>1, WritersUnchanged
  <2>4. SchemaOK'
    <3>1. sid' \in DOMAIN Schemas /\ handle' \in BOOLEAN
      BY <2>1, <2>2
    <3>2. ref_cnt' = (IF handle' THEN 1 ELSE 0) + Cardinality(Owners')
      BY <2>1, <2>2, <2>3
    <3>3. /\ node' \in {"freed", "crashed"} <=> ref_cnt' = 0
          /\ node' \in {"open", "partial", "corrupt"} => Owners' = {}
      BY <2>1, <2>2, <2>3
    <3> QED
      BY <3>1, <3>2, <3>3 DEF SchemaOK
  <2> QED
    BY <2>3, <2>4 DEF ParquetOK
<1>3. CASE \E w \in Writers :
             \/ \E opened \in BOOLEAN : pq_new_writer(w, opened)
             \/ pq_writer_dissect(w) \/ pq_writer_dissect_message(w)
             \/ pq_writer_rowgroup(w) \/ pq_writer_close(w) \/ pq_writer_gc(w)
  <2>1. PICK w \in Writers :
             \/ \E opened \in BOOLEAN : pq_new_writer(w, opened)
             \/ pq_writer_dissect(w) \/ pq_writer_dissect_message(w)
             \/ pq_writer_rowgroup(w) \/ pq_writer_close(w) \/ pq_writer_gc(w)
    BY <1>3
  <2>2. CASE \E opened \in BOOLEAN : pq_new_writer(w, opened)
    BY <2>2, NewWriterOK
  <2>3. CASE pq_writer_dissect(w) \/ pq_writer_dissect_message(w)
    BY <2>3, DissectOK DEF pq_writer_dissect, pq_writer_dissect_message, Offered
  <2>4. CASE pq_writer_rowgroup(w) \/ pq_writer_close(w)
    <3>1. PICK state \in {"open", "closed"} : write_rowgroup(w, state)
      BY <2>4 DEF pq_writer_rowgroup, pq_writer_close
    <3>2. writer[w].state = "open" /\ UNCHANGED schemavars /\ calls' = calls
      BY <2>4 DEF pq_writer_rowgroup, pq_writer_close
    <3>3. PICK wr : /\ WriterOK(wr, <<>>) /\ wr.state = state
                    /\ writer' = [writer EXCEPT ![w] = wr]
                    /\ accepted' = [accepted EXCEPT ![w] = <<>>]
      BY <3>1, <3>2, RowGroupWritten
    <3>4. FileStep
      BY <3>1, <3>2, RowGroupOK
    <3>5. SchemaOK' /\ WritersOK'
      BY <3>2, <3>3, WriterGoesOn
    <3>6. CallsOK'
      BY <3>2, <3>3, CallsKept
    <3> QED
      BY <3>4, <3>5, <3>6 DEF ParquetOK
  <2>5. CASE pq_writer_gc(w)
    BY <2>5, WriterGcOK
  <2> QED
    BY <2>1, <2>2, <2>3, <2>4, <2>5
<1>4. CASE UNCHANGED parquetvars
  <2>1. UNCHANGED <<sid, node, handle, ref_cnt, writer, accepted, calls, file>>
    BY <1>4 DEF parquetvars, schemavars
  <2>2. WritersOK' /\ CallsOK' /\ Owners' = Owners /\ FileStep
    BY <2>1, WritersUnchanged
  <2> QED
    BY <2>1, <2>2 DEF ParquetOK, SchemaOK
<1> QED
  BY <1>1, <1>2, <1>3, <1>4, <1>5 DEF ParquetNext

\* The writers' columns are settled and hold what was accepted, fields without values
\* included, and the schema's owners are counted.
THEOREM WritersCorrect == ParquetSpec => []ParquetOK
<1>1. ParquetInit => ParquetOK
  BY ParquetInitOK
<1>2. ParquetOK /\ [ParquetNext]_parquetvars => ParquetOK'
  BY ParquetNextOK
<1> QED
  BY <1>1, <1>2, PTL DEF ParquetSpec

\* For any schema and any dissections that throw anywhere, or leave a column without an
\* entry: what is rolled back from the counters alone leaves every column with levels
\* and values of the accepted records that gave it some.
THEOREM ColumnsStayAligned == ParquetSpec => []ColumnsAligned
<1>1. ParquetOK => ColumnsAligned
  <2> SUFFICES ASSUME ParquetOK, NEW w \in Writers, writer[w].state = "open",
                      NEW c \in DOMAIN writer[w].columns
               PROVE  ColumnAligned(writer[w].columns[c], Leaf(c), Cardinality(Began(w, c)))
    BY DEF ColumnsAligned
  <2>1. AllSettled(writer[w].columns, Len(accepted[w]), StartsOf(accepted[w]))
    BY DEF ParquetOK, WritersOK, WriterOK
  <2>2. c \in ColumnIds
    BY <2>1 DEF AllSettled
  <2>3. StartsOf(accepted[w])[c] = Cardinality(Began(w, c))
    BY <2>2 DEF StartsOf, Began
  <2> QED
    BY <2>1, <2>2, <2>3 DEF AllSettled, Settled
<1> QED
  BY <1>1, WritersCorrect, PTL

\* For any number of writers: the tree is freed when its last owner goes, not before.
THEOREM SchemaLives == ParquetSpec => []SchemaAlive
<1>1. ParquetOK => SchemaAlive
  <2> SUFFICES ASSUME ParquetOK, node # "crashed" PROVE node = "freed" <=> ~handle /\ Owners = {}
    BY DEF SchemaAlive, Owners
  <2>1. /\ ref_cnt = (IF handle THEN 1 ELSE 0) + Cardinality(Owners) /\ handle \in BOOLEAN
        /\ node = "freed" <=> ref_cnt = 0
    BY DEF ParquetOK, SchemaOK
  <2>2. ref_cnt = 0 <=> ~handle /\ Cardinality(Owners) = 0
    BY <2>1, OwnersFinite
  <2> QED
    BY <2>1, <2>2, OwnersFinite
<1> QED
  BY <1>1, WritersCorrect, PTL

-----------------------------------------------------------------------------
(* What is in the columns, and in the files.                               *)

\* In the columns of a row group under construction are, entry by entry, those that the
\* accepted records gave them and no trace of those rolled back, wherever these threw.
THEOREM ColumnsHoldRecords == ParquetSpec => []HoldsAccepted
<1>1. ParquetOK => HoldsAccepted
  BY DEF ParquetOK, WritersOK, WriterOK, HoldsAccepted
<1> QED
  BY <1>1, WritersCorrect, PTL

\* The writers implement RecordFile: what one writes is what it accepted, as read back;
\* a row group with a column that lacks an entry is given up.
THEOREM RecordFilesImplemented == ParquetSpec => ImplementsRecordFile
<1>1. ParquetInit => ParquetOK /\ RF!Init
  BY ParquetInitOK
<1>2. ParquetOK /\ [ParquetNext]_parquetvars => ParquetOK' /\ [RF!Next]_(RF!vars)
  BY ParquetNextOK DEF FileStep
<1> QED
  BY <1>1, <1>2, PTL DEF ParquetSpec, ImplementsRecordFile, RF!Spec

=============================================================================
