------------------------- MODULE CuckooFilterExpire -------------------------
(***************************************************************************)
(* cuckoo_filter/cuckoo_filter_expire.c: a cuckoo filter whose entries     *)
(* carry the time interval they were last added in, modulo MAX_INTERVALS,  *)
(* and expire when their interval leaves the window or when the filter     *)
(* becomes too full.  A key stands for its fingerprint, and times are      *)
(* counted in intervals.  A bucket is the set of its entries: their places *)
(* do not matter, because the entry to displace is drawn at random.        *)
(***************************************************************************)
EXTENDS Integers, FiniteSets, FiniteSetsExt

CONSTANTS
  Keys,
  Home,      \* first bucket of a key: h % num_buckets
  Partner,   \* other bucket of a key, from either one: ri ^ hash of fp
  num_buckets,
  BUCKET_SIZE, MAX_INTERVALS,  \* 4 and 256 in the code
  Kicks,     \* the 512 displacements tried
  Capacity,  \* percentage of the places above which entries expire, the 0.8
  LastTime,  \* latest time used (bound of the model)
  MaxRestarts  \* restarts of the plugin (bound of the model)

Buckets == 0 .. num_buckets - 1
Intervals == 0 .. MAX_INTERVALS - 1
Entry == [fp: Keys, interval: Intervals]

ASSUME SizeAssumption ==
  /\ num_buckets \in Nat \ {0} /\ BUCKET_SIZE \in Nat \ {0}
  /\ MAX_INTERVALS \in Nat \ {0, 1} /\ Kicks \in Nat /\ Capacity \in 1 .. 100
  /\ LastTime \in Nat /\ MaxRestarts \in Nat
ASSUME HashAssumption ==
  /\ IsFiniteSet(Keys)
  /\ Home \in [Keys -> Buckets] /\ Partner \in [Keys -> [Buckets -> Buckets]]
  /\ \A k \in Keys, b \in Buckets : Partner[k][Partner[k][b]] = b

VARIABLES
  cf,          \* [buckets, cnt, timet, interval, lru_interval]
  last,        \* time each key was last added, -1 if that is too long ago, or
               \* it was deleted or removed for lack of room
  newest,      \* latest time added
  overdue,     \* history: keys whose entry may outlive their time (see Outlives)
  misled,      \* history: a time older than the newest was added while the
               \* clock of the filter was behind the newest
  restarts

remembered == <<last, newest, overdue, misled>>
filterVars == <<cf, remembered, restarts>>

NewFilter == [buckets |-> [b \in Buckets |-> {}], cnt |-> 0,
        timet |-> MAX_INTERVALS - 1, interval |-> MAX_INTERVALS - 1,
        lru_interval |-> -1]

Entries(f) == UNION {f.buckets[b] : b \in Buckets}
KeysIn(f) == {e.fp : e \in Entries(f)}

FilterInit ==
  /\ cf = NewFilter
  /\ last = [k \in Keys |-> -1] /\ newest = MAX_INTERVALS - 1
  /\ overdue = {} /\ misled = FALSE
  /\ restarts = 0

-----------------------------------------------------------------------------
(* Intervals and expiry.                                                   *)

\* Virtual indices count from the oldest interval of the window.
index_r2v(f, idx) == (idx - (f.interval + 1)) % MAX_INTERVALS
index_v2r(f, idx) == (idx + f.interval + 1) % MAX_INTERVALS

InIntervals(i, start, end) == IF end >= start THEN start <= i /\ i <= end
                                          ELSE start <= i \/ i <= end

\* mutant: a range that wraps around is taken for an empty one
prune_range_straight(f, start, end) ==
  LET Gone(b) == {e \in f.buckets[b] : start <= e.interval /\ e.interval <= end}
  IN [f EXCEPT !.buckets = [b \in Buckets |-> f.buckets[b] \ Gone(b)],
               !.cnt = @ - Cardinality(UNION {{b} \X Gone(b) : b \in Buckets})]

\* prune_range: the entries of the intervals are removed, and the oldest
\* interval found, those just removed included, becomes lru_interval.
prune_range(f, start, end) ==
  LET Gone(b) == {e \in f.buckets[b] : InIntervals(e.interval, start, end)}
      found == {index_r2v(f, e.interval) : e \in Entries(f)} \cup {MAX_INTERVALS - 1}
  IN [f EXCEPT !.buckets = [b \in Buckets |-> f.buckets[b] \ Gone(b)],
               !.cnt = @ - Cardinality(UNION {{b} \X Gone(b) : b \in Buckets}),
               !.lru_interval = index_v2r(f, Min(found))]

\* The time moves on: the intervals it moves over are expired.  A time that
\* falls in the same interval of a later window changes nothing.
ExpireByTime(f, t) ==
  LET interval == t % MAX_INTERVALS
      oldest   == (f.interval + 1) % MAX_INTERVALS
      pruned   == IF f.cnt > 0 THEN prune_range(f, oldest, interval) ELSE f
  IN IF f.interval # interval /\ t > f.timet
     THEN [pruned EXCEPT !.interval = interval, !.timet = t]
     ELSE f

\* The filter is too full: the interval in lru_interval is expired.
ExpireByCapacity(f) ==
  LET lru == IF f.lru_interval = -1 THEN (f.interval + 1) % MAX_INTERVALS
             ELSE f.lru_interval
  IN IF f.cnt * 100 >= Capacity * num_buckets * BUCKET_SIZE
     THEN prune_range(f, lru, lru) ELSE f

-----------------------------------------------------------------------------
(* bucket_insert.                                                          *)

Holds(f, b, k) == \E e \in f.buckets[b] : e.fp = k

HasRoom(f, b) == Cardinality(f.buckets[b]) < BUCKET_SIZE

WithBucket(f, b, entries) ==
  [f EXCEPT !.buckets = [x \in Buckets |-> IF x = b THEN entries ELSE f.buckets[x]]]

Put(f, b, e) == WithBucket(f, b, f.buckets[b] \cup {e})

\* mutant: the interval of a duplicate is always the one added last
RefreshAlways(f, b, k, interval) ==
  WithBucket(f, b, {IF e.fp = k THEN [e EXCEPT !.interval = interval] ELSE e : e \in f.buckets[b]})

\* bucket_insert_lookup on a bucket that holds k: its interval moves forward.
Refresh(f, b, k, interval) ==
  LET Later(e) == index_r2v(f, interval) > index_r2v(f, e.interval)
  IN WithBucket(f, b, {IF e.fp = k /\ Later(e) THEN [e EXCEPT !.interval = interval] ELSE e
                         : e \in f.buckets[b]})

Done(f, result) == [cf |-> f, result |-> result]

\* One pass of the loop in which the entry e has no place yet: it takes that of
\* an entry drawn from its bucket ri, and the one displaced moves to its other
\* bucket or, if that is full too, is the one to place in the next pass.
Kick(s) ==
  IF s.result # "full" THEN {s}
  ELSE {LET displaced == WithBucket(s.cf, s.ri, (s.cf.buckets[s.ri] \ {out}) \cup {s.e})
            to == Partner[out.fp][s.ri]
            Ends(f, result) == [cf |-> f, ri |-> to, e |-> out, result |-> result]
        IN IF Holds(displaced, to, out.fp)
           THEN Ends(Refresh(displaced, to, out.fp, out.interval), "duplicate")
           ELSE IF HasRoom(displaced, to) THEN Ends(Put(displaced, to, out), "added")
           ELSE Ends(displaced, "full")
        : out \in s.cf.buckets[s.ri]}

\* The entry left over after the last pass is dropped.
Displace(f, ri, e) ==
  LET after[n \in 0 .. Kicks] ==
        IF n = 0 THEN {[cf |-> f, ri |-> ri, e |-> e, result |-> "full"]}
        ELSE UNION {Kick(s) : s \in after[n - 1]}
  IN {Done(s.cf, s.result) : s \in after[Kicks]}

\* mutant: only the first bucket is looked at for a duplicate
bucket_insert_first(f, k, interval) ==
  LET i1 == Home[k]
      i2 == Partner[k][i1]
      e == [fp |-> k, interval |-> interval]
  IN CASE Holds(f, i1, k) -> {Done(Refresh(f, i1, k, interval), "duplicate")}
       [] ~Holds(f, i1, k) /\ HasRoom(f, i1) -> {Done(Put(f, i1, e), "added")}
       [] ~Holds(f, i1, k) /\ ~HasRoom(f, i1) /\ HasRoom(f, i2) ->
            {Done(Put(f, i2, e), "added")}
       [] OTHER -> UNION {Displace(f, ri, e) : ri \in {i1, i2}}

\* What adding a key may make of the filter.
bucket_insert(f, k, interval) ==
  LET i1 == Home[k]
      i2 == Partner[k][i1]
      e == [fp |-> k, interval |-> interval]
  IN IF Holds(f, i1, k) THEN {Done(Refresh(f, i1, k, interval), "duplicate")}
     ELSE IF Holds(f, i2, k) THEN {Done(Refresh(f, i2, k, interval), "duplicate")}
     ELSE IF HasRoom(f, i1) THEN {Done(Put(f, i1, e), "added")}
     ELSE IF HasRoom(f, i2) THEN {Done(Put(f, i2, e), "added")}
     ELSE UNION {Displace(f, ri, e) : ri \in {i1, i2}}

-----------------------------------------------------------------------------
(* The operations.                                                         *)

TooOld(t) == t < cf.timet - (MAX_INTERVALS - 1)

AddTooOld == (\E t \in 0 .. LastTime : TooOld(t)) /\ UNCHANGED filterVars

\* Only a key that was added is counted, not one that made the filter full.
Counted(done) ==
  IF done.result = "added" THEN [done.cf EXCEPT !.cnt = @ + 1] ELSE done.cf

\* cf_query: the interval of the entry found, none if there is none; the second
\* bucket is looked at when the first one does not hold the key.
bucket_lookup(f, b, k) == {e.interval : e \in {x \in f.buckets[b] : x.fp = k}}
cf_query(f, k) == LET i1 == Home[k]
                  IN IF Holds(f, i1, k) THEN bucket_lookup(f, i1, k)
                     ELSE bucket_lookup(f, Partner[k][i1], k)

\* What adding k at the time t makes of last: f is the filter after expiry by
\* time, g after expiry by capacity and h at the end.
LastAdded(f, g, h, k, t, latest) == [x \in Keys |->
  LET before == IF x \in KeysIn(f) \ KeysIn(g) THEN -1 ELSE last[x]
      added  == IF x = k /\ t > before THEN t ELSE before
  IN IF x \in (KeysIn(g) \cup {k}) \ KeysIn(h) \/ added <= latest - MAX_INTERVALS
     THEN -1 ELSE added]

\* The entries a time leaves in the filter f though it is a whole window or more
\* after the newest, and those that did not expire before: until they do, or
\* their key is added again and gets a later interval.
Outlives(f, h, k, t) ==
  LET left == IF t >= newest + MAX_INTERVALS THEN KeysIn(f) ELSE overdue
  IN {x \in left \cap KeysIn(h) : x = k => cf_query(h, k) # {t % MAX_INTERVALS}}

AddKey(k, t) ==
  /\ ~TooOld(t)
  /\ LET f == ExpireByTime(cf, t)
         g == ExpireByCapacity(f)
     IN \E done \in bucket_insert(g, k, t % MAX_INTERVALS) :
          /\ cf' = Counted(done)
          /\ newest' = IF t > newest THEN t ELSE newest
          /\ last' = LastAdded(f, g, cf', k, t, newest')
          /\ overdue' = Outlives(f, cf', k, t)
  /\ misled' = (misled \/ (cf.timet < newest /\ t < newest))
  /\ UNCHANGED restarts

Remove(f, b, k) ==
  [WithBucket(f, b, {e \in f.buckets[b] : e.fp # k}) EXCEPT !.cnt = @ - 1]

Delete(k) ==
  LET i1 == Home[k]
      i2 == Partner[k][i1]
  IN /\ cf' = CASE Holds(cf, i1, k) -> Remove(cf, i1, k)
                [] ~Holds(cf, i1, k) /\ Holds(cf, i2, k) -> Remove(cf, i2, k)
                [] OTHER -> cf
     /\ last' = [last EXCEPT ![k] = -1] /\ overdue' = overdue \ {k}
     /\ UNCHANGED <<newest, misled, restarts>>

Clear ==
  /\ cf' = NewFilter
  /\ last' = [k \in Keys |-> -1] /\ newest' = NewFilter.timet
  /\ overdue' = {} /\ misled' = FALSE
  /\ UNCHANGED restarts

\* serialize_cuckoo_filter and cf_fromstring on a new filter: the entries and
\* their number are restored, the time and the intervals are not.
FilterRestart ==
  /\ restarts < MaxRestarts /\ restarts' = restarts + 1
  /\ cf' = [NewFilter EXCEPT !.buckets = cf.buckets, !.cnt = cf.cnt]
  /\ UNCHANGED remembered

FilterNext ==
  \/ \E k \in Keys, t \in 0 .. LastTime : AddKey(k, t)
  \/ AddTooOld
  \/ \E k \in Keys : Delete(k)
  \/ Clear \/ FilterRestart

FilterSpec == FilterInit /\ [][FilterNext]_filterVars

-----------------------------------------------------------------------------
(* Properties.                                                             *)

\* A key has at most one entry, and has it in one of its two buckets, however
\* often it was displaced: otherwise delete leaves a copy behind.
AtMostOnce ==
  \A b1, b2 \in Buckets : \A e1 \in cf.buckets[b1], e2 \in cf.buckets[b2] :
     /\ b1 \in {Home[e1.fp], Partner[e1.fp][Home[e1.fp]]}
     /\ e1.fp = e2.fp => b1 = b2 /\ e1 = e2

\* The clock of the filter stands in the interval of the newest time.  A time
\* that falls in the same interval of a later window leaves the clock behind
\* (cf_add:259); an older time then sets it back, or is not too old for it.  A
\* restart forgets the clock.
ClockRight == restarts = 0 /\ ~misled

\* A key that was added within the window is found by a query, unless it was
\* deleted or removed for lack of room, however far the time jumped: with the
\* interval it was last added in, or a later one that its entry had already
\* (index.md: "query").
NothingExpiresEarly ==
  ClockRight =>
    \A k \in Keys : last[k] # -1 =>
      \E i \in Intervals :
         /\ cf_query(cf, k) = {i}
         /\ index_r2v(cf, i) >= index_r2v(cf, last[k] % MAX_INTERVALS)
         /\ k \notin overdue => i = last[k] % MAX_INTERVALS

\* A key that was not added within the window is not found, unless a jump over a
\* whole window left its entry behind: the code expires the intervals the time
\* moves over modulo MAX_INTERVALS (cf_add:259-268).
EverythingExpires ==
  ClockRight => \A k \in Keys \ overdue : last[k] = -1 => cf_query(cf, k) = {}

\* index.md:129-130: "It supports a window of 256 minutes, hours, or days after
\* which time entries expire": a key not added within the window is not found.
EntriesExpire ==
  ClockRight => \A k \in Keys : last[k] = -1 => cf_query(cf, k) = {}
=============================================================================
