--------------------------- MODULE CimdLookupProofs ---------------------------
(***************************************************************************)
(* Proofs about CimdLookup: the variables have their types and the cache   *)
(* its bound, answers are recent, and a live entry is evicted only after   *)
(* the churn the code promises.                                            *)
(*                                                                         *)
(* What Keep makes of the cache is computed by recursion over positions.   *)
(* It is reasoned about by induction over sets of naturals, which rests on *)
(* their well-foundedness.                                                 *)
(***************************************************************************)
EXTENDS CimdLookup, FiniteSetTheorems, FunctionTheorems, SequenceTheorems,
        WellFoundedInduction, TLAPS

-----------------------------------------------------------------------------
(* Naturals.                                                                *)

\* A non-empty set of naturals has a least member.
LEMMA LeastNatural ==
  ASSUME NEW T \in SUBSET Nat, T # {}
  PROVE  \E n \in T : \A m \in T : n <= m
<1> DEFINE R == OpToRel(<, Nat)
<1>1. IsWellFoundedOn(R, Nat)
  BY NatLessThanWellFounded
<1>2. R = {ss \in Nat \X Nat : ss[1] < ss[2]}
  BY DEF OpToRel
<1> HIDE DEF R
<1>3. PICK x \in T : \A y \in T : <<y, x>> \notin R
  BY <1>1, WFMin, Zenon
<1>4. \A y \in T : ~(y < x)
  BY <1>2, <1>3
<1> QED
  BY <1>4

\* A set that holds 0 and the successor of each of its members holds every natural.
LEMMA InductiveSet ==
  ASSUME NEW P, 0 \in P, \A n \in Nat : n \in P => n + 1 \in P
  PROVE  \A n \in Nat : n \in P
<1> SUFFICES ASSUME NEW k \in Nat, k \notin P
             PROVE  FALSE
  OBVIOUS
<1>1. PICK n \in {j \in Nat : j \notin P} : \A m \in {j \in Nat : j \notin P} : n <= m
  BY LeastNatural
<1>2. n # 0 /\ n - 1 \in Nat /\ ~(n <= n - 1)
  BY <1>1
<1>3. n - 1 \in P
  BY <1>1, <1>2
<1> QED
  BY <1>1, <1>2, <1>3

-----------------------------------------------------------------------------
(* What is kept of the cache.                                               *)

\* The recursive function of Keep obeys its equation: there is one up to each
\* position.
LEMMA KeepObeys ==
  ASSUME NEW positions, Len(cache) \in Nat
  PROVE  \E keep :
           /\ Keep(positions) = keep[Len(cache)]
           /\ keep[0] = <<>>
           /\ \A i \in 1 .. Len(cache) :
                keep[i] = IF i \in positions THEN Append(keep[i - 1], cache[i])
                          ELSE keep[i - 1]
<1> DEFINE Body(g, i) == IF i = 0 THEN <<>>
                         ELSE IF i \in positions THEN Append(g[i - 1], cache[i])
                         ELSE g[i - 1]
           Solves(g, n) == g = [i \in 0 .. n |-> Body(g, i)]
           P == {n \in Nat : \E g : Solves(g, n)}
<1>1. 0 \in P
  <2>1. Solves([i \in 0 .. 0 |-> <<>>], 0)
    OBVIOUS
  <2> QED
    BY <2>1
<1>2. ASSUME NEW n \in Nat, n \in P
      PROVE  n + 1 \in P
  <2>1. PICK g : Solves(g, n)
    BY <1>2
  <2> DEFINE h == [i \in 0 .. n + 1 |-> IF i <= n THEN g[i] ELSE Body(g, n + 1)]
  <2>2. ASSUME NEW i \in 0 .. n + 1
        PROVE  h[i] = Body(h, i)
    <3>1. CASE i = 0
      BY <2>1, <3>1
    <3>2. CASE i # 0
      <4>1. i - 1 \in 0 .. n /\ h[i - 1] = g[i - 1]
        BY <3>2
      <4>2. Body(h, i) = Body(g, i)
        BY <4>1
      <4>3. CASE i <= n
        <5>1. i \in 0 .. n /\ h[i] = g[i]
          BY <4>3
        <5>2. g[i] = Body(g, i)
          <6> HIDE DEF Body
          <6> QED
            BY <2>1, <5>1
        <5> QED
          BY <4>2, <5>1, <5>2
      <4>4. CASE i = n + 1
        BY <4>2, <4>4
      <4> QED
        BY <4>3, <4>4
    <3> QED
      BY <3>1, <3>2
  <2>3. Solves(h, n + 1)
    BY <2>2
  <2> HIDE DEF h, Solves
  <2> QED
    BY <2>3
<1>3. Len(cache) \in P
  <2> HIDE DEF P
  <2> QED
    BY <1>1, <1>2, InductiveSet
<1> DEFINE keep == CHOOSE g : Solves(g, Len(cache))
<1>4. Solves(keep, Len(cache))
  BY <1>3
<1>5. Keep(positions) = keep[Len(cache)]
  BY DEF Keep
<1>6. \A i \in 0 .. Len(cache) : keep[i] = Body(keep, i)
  <2> HIDE DEF keep, Body
  <2> QED
    BY <1>4
<1> HIDE DEF keep
<1> QED
  BY <1>5, <1>6

\* t is what s has at some of its positions, in their order: at says where each
\* entry of t comes from.
Selects(t, s, at, positions) ==
  /\ at \in [1 .. Len(t) -> positions]
  /\ \A i \in 1 .. Len(t) : t[i] = s[at[i]]
  /\ \A i, j \in 1 .. Len(t) : i < j => at[i] < at[j]
  /\ \A k \in positions : \E i \in 1 .. Len(t) : at[i] = k

\* What is kept is a sequence of as many entries as there are positions, and it is
\* the entries at those, in their order.
LEMMA KeepSelects ==
  ASSUME NEW S, cache \in Seq(S), NEW positions \in SUBSET (DOMAIN cache)
  PROVE  /\ Keep(positions) \in Seq(S)
         /\ Len(Keep(positions)) = Cardinality(positions)
         /\ \E at : Selects(Keep(positions), cache, at, positions)
<1>1. Len(cache) \in Nat /\ DOMAIN cache = 1 .. Len(cache)
  BY LenProperties
<1>2. PICK keep :
        /\ Keep(positions) = keep[Len(cache)]
        /\ keep[0] = <<>>
        /\ \A i \in 1 .. Len(cache) :
             keep[i] = IF i \in positions THEN Append(keep[i - 1], cache[i])
                       ELSE keep[i - 1]
  BY <1>1, KeepObeys
<1> DEFINE Upto(n) == positions \cap (1 .. n)
           Good(n) == /\ keep[n] \in Seq(S)
                      /\ IsFiniteSet(Upto(n))
                      /\ Len(keep[n]) = Cardinality(Upto(n))
                      /\ \E at : Selects(keep[n], cache, at, Upto(n))
           P == {n \in Nat : n <= Len(cache) => Good(n)}
<1>3. 0 \in P
  <2>1. Upto(0) = {}
    OBVIOUS
  <2>2. Len(keep[0]) = 0 /\ keep[0] \in Seq(S)
    BY <1>2, EmptySeq
  <2>3. Selects(keep[0], cache, <<>>, Upto(0))
    BY <1>2, <2>1, <2>2 DEF Selects
  <2> QED
    BY <2>1, <2>2, <2>3, FS_EmptySet
<1>4. ASSUME NEW n \in Nat, n \in P
      PROVE  n + 1 \in P
  <2> SUFFICES ASSUME n + 1 <= Len(cache)
               PROVE  Good(n + 1)
    <3> HIDE DEF Good
    <3> QED
      OBVIOUS
  <2>1. n + 1 \in 1 .. Len(cache) /\ n <= Len(cache) /\ (n + 1) - 1 = n
    BY <1>1
  <2>2. Good(n)
    <3> HIDE DEF Good
    <3> QED
      BY <1>4, <2>1
  <2>3. Good(n) /\ n + 1 \in 1 .. Len(cache) /\ cache[n + 1] \in S
    BY <2>1, <2>2, ElementOfSeq
  <2>4. PICK at : Selects(keep[n], cache, at, Upto(n))
    BY <2>3
  <2>5. CASE n + 1 \notin positions
    <3>1. Upto(n + 1) = Upto(n)
      BY <2>5
    <3>2. keep[n + 1] = keep[n]
      BY <1>2, <2>1, <2>5
    <3> QED
      BY <2>3, <3>1, <3>2
  <2>6. CASE n + 1 \in positions
    <3>1. Upto(n + 1) = Upto(n) \cup {n + 1} /\ n + 1 \notin Upto(n)
      BY <2>6
    <3>2. keep[n + 1] = Append(keep[n], cache[n + 1])
      BY <1>2, <2>1, <2>6
    <3> DEFINE t == keep[n + 1]
               m == Len(keep[n])
               to == [i \in 1 .. m + 1 |-> IF i <= m THEN at[i] ELSE n + 1]
    <3>3. /\ m \in Nat /\ t \in Seq(S) /\ Len(t) = m + 1
          /\ \A i \in 1 .. m : t[i] = keep[n][i]
          /\ t[m + 1] = cache[n + 1]
      <4>1. keep[n] \in Seq(S) /\ cache[n + 1] \in S
        BY <2>3
      <4> QED
        BY <3>2, <4>1, AppendProperties, LenProperties
    <3>4. /\ IsFiniteSet(Upto(n + 1))
          /\ Len(t) = Cardinality(Upto(n + 1))
      <4>1. IsFiniteSet(Upto(n)) /\ m = Cardinality(Upto(n))
        BY <2>3
      <4> HIDE DEF Upto, t, m
      <4> QED
        BY <3>1, <3>3, <4>1, FS_AddElement
    <3>5. Selects(t, cache, to, Upto(n + 1))
      <4>1. /\ at \in [1 .. m -> Upto(n)]
            /\ \A i \in 1 .. m : keep[n][i] = cache[at[i]]
            /\ \A i, j \in 1 .. m : i < j => at[i] < at[j]
            /\ \A k \in Upto(n) : \E i \in 1 .. m : at[i] = k
        BY <2>4 DEF Selects
      <4> HIDE DEF t, m, Upto
      <4>2. to \in [1 .. Len(t) -> Upto(n + 1)]
        BY <3>1, <3>3, <4>1
      <4>3. \A i \in 1 .. Len(t) : t[i] = cache[to[i]]
        BY <3>3, <4>1
      <4>4. \A k \in Upto(n) : k < n + 1
        BY DEF Upto
      <4>5. \A i, j \in 1 .. Len(t) : i < j => to[i] < to[j]
        BY <3>3, <4>1, <4>4
      <4>6. \A k \in Upto(n + 1) : \E i \in 1 .. Len(t) : to[i] = k
        BY <3>1, <3>3, <4>1
      <4> QED
        BY <4>2, <4>3, <4>5, <4>6 DEF Selects
    <3> QED
      BY <3>3, <3>4, <3>5
  <2> QED
    BY <2>5, <2>6
<1>5. Len(cache) \in P
  <2> HIDE DEF P
  <2> QED
    BY <1>1, <1>3, <1>4, InductiveSet
<1>6. Upto(Len(cache)) = positions
  BY <1>1
<1>7. Good(Len(cache))
  <2> HIDE DEF Good
  <2> QED
    BY <1>1, <1>5
<1> QED
  BY <1>2, <1>6, <1>7

\* The newest of finitely many positions are fewer than the cache holds.
LEMMA NewestAreFew ==
  ASSUME NEW T \in SUBSET Nat, IsFiniteSet(T)
  PROVE  IsFiniteSet(Newest(T)) /\ Cardinality(Newest(T)) < Cap
<1>1. CASE Newest(T) = {}
  BY <1>1, CapAssumption, FS_EmptySet
<1>2. CASE Newest(T) # {}
  <2>1. PICK m \in Newest(T) : \A n \in Newest(T) : m <= n
    <3>1. Newest(T) \in SUBSET Nat
      BY DEF Newest
    <3> QED
      BY <1>2, <3>1, LeastNatural
  <2> DEFINE up == {j \in T : j >= m}
  <2>2. Newest(T) \subseteq up
    BY <2>1 DEF Newest
  <2>3. IsFiniteSet(up)
    BY FS_Subset
  <2>4. Cardinality(up) < Cap
    BY <2>1 DEF Newest
  <2>5. Cardinality(up) \in Nat
    BY <2>3, FS_CardinalityType
  <2> HIDE DEF up
  <2>6. /\ IsFiniteSet(Newest(T))
        /\ Cardinality(Newest(T)) \in Nat /\ Cardinality(Newest(T)) <= Cardinality(up)
    BY <2>2, <2>3, FS_Subset, FS_CardinalityType
  <2> QED
    BY <2>4, <2>5, <2>6, CapAssumption
<1> QED
  BY <1>1, <1>2

\* A write finds room for its entry: what is left is the newest of what was not
\* trimmed, and none of it is its client's.
LEMMA RoomIsMade ==
  ASSUME cache \in Seq(Entries), NEW id, NEW at
  PROVE  /\ Room(id, at) \in Seq(Entries) /\ Len(Room(id, at)) < Cap
         /\ \E from : Selects(Room(id, at), cache, from, Newest(Trimmed(id, at)))
         /\ Newest(Trimmed(id, at)) \subseteq Others(id)
<1>1. Len(cache) \in Nat /\ DOMAIN cache = 1 .. Len(cache)
  BY LenProperties
<1>2. Newest(Trimmed(id, at)) \subseteq Trimmed(id, at)
  BY DEF Newest
<1>3. Trimmed(id, at) \subseteq Others(id) /\ Others(id) \subseteq DOMAIN cache
  BY DEF Trimmed, Others
<1>4. IsFiniteSet(DOMAIN cache)
  BY <1>1, FS_Interval
<1>5. IsFiniteSet(Trimmed(id, at)) /\ Trimmed(id, at) \subseteq Nat
  BY <1>1, <1>3, <1>4, FS_Subset
<1>6. Cardinality(Newest(Trimmed(id, at))) < Cap
  BY <1>5, NewestAreFew
<1>7. Newest(Trimmed(id, at)) \in SUBSET (DOMAIN cache)
  BY <1>2, <1>3
<1> QED
  BY <1>2, <1>3, <1>6, <1>7, KeepSelects DEF Room

-----------------------------------------------------------------------------
(* Writes of the cache.                                                     *)

Fresh(id, at, outcome, seen) ==
  [id |-> id, exp |-> at + Lifetime(outcome), outcome |-> outcome, seen |-> seen]

\* A write keeps the shape of the cache: its bound, one entry of each client, the
\* order of writing.  Every entry is the new one or was there.
LEMMA WriteKeepsShape ==
  ASSUME TypeOK, Ordered,
         NEW id \in Ids, NEW at \in Times, NEW outcome \in Docs \cup {"outage"},
         NEW seen \in Times, Cache(id, at, outcome, seen)
  PROVE  /\ cache' \in Seq(Entries) /\ Len(cache') <= Cap
         /\ \A i, j \in DOMAIN cache' : cache'[i].id = cache'[j].id => i = j
         /\ churn' \in [Ids -> SUBSET Ids]
         /\ Ordered'
         /\ \A j \in DOMAIN cache' :
              \/ cache'[j] = Fresh(id, at, outcome, seen)
              \/ \E i \in DOMAIN cache : cache'[j] = cache[i]
<1> DEFINE r == Room(id, at)
           e == Fresh(id, at, outcome, seen)
           n == Len(r)
           kept == Newest(Trimmed(id, at))
<1>1. PICK from : Selects(r, cache, from, kept)
  BY RoomIsMade DEF TypeOK
<1>2. r \in Seq(Entries) /\ n \in Nat /\ n < Cap
  BY RoomIsMade, LenProperties DEF TypeOK
<1>3. e \in Entries
  BY TimesAssumption DEF Fresh, Entries, Lifetime, Times
<1>4. cache' = Append(r, e)
  BY DEF Cache, Written, Fresh
<1>5. churn' = [i \in Ids |-> IF i = id THEN {} ELSE churn[i] \cup {id}]
  BY DEF Cache
<1>6. kept \subseteq DOMAIN cache /\ \A i \in kept : cache[i].id # id
  BY RoomIsMade DEF TypeOK, Others
<1> HIDE DEF r, e, n, kept
<1>7. /\ cache' \in Seq(Entries) /\ Len(cache') = n + 1 /\ DOMAIN cache' = 1 .. n + 1
      /\ \A i \in 1 .. n : cache'[i] = r[i]
      /\ cache'[n + 1] = e
  BY <1>2, <1>3, <1>4, AppendProperties, LenProperties DEF n
<1>8. \A i \in 1 .. n : from[i] \in kept /\ cache'[i] = cache[from[i]]
  BY <1>1, <1>7 DEF Selects, n
<1>9. \A i, j \in 1 .. n : i < j => from[i] < from[j]
  BY <1>1 DEF Selects, n
<1>10. e.id = id
  BY DEF e, Fresh
<1>11. \A i \in DOMAIN cache' : i = n + 1 \/ i \in 1 .. n
  BY <1>2, <1>7
<1>12. DOMAIN cache \subseteq Nat /\ \A i \in DOMAIN cache : cache[i].id \in Ids
  <2>1. cache \in Seq(Entries)
    BY DEF TypeOK
  <2>2. DOMAIN cache = 1 .. Len(cache) /\ Len(cache) \in Nat
    BY <2>1, LenProperties
  <2>3. \A i \in DOMAIN cache : cache[i] \in Entries
    BY <2>1, <2>2, ElementOfSeq
  <2> QED
    BY <2>2, <2>3 DEF Entries
<1>13. ASSUME NEW i \in DOMAIN cache', NEW j \in DOMAIN cache', cache'[i].id = cache'[j].id
       PROVE  i = j
  <2>1. CASE i \in 1 .. n /\ j \in 1 .. n
    <3>1. from[i] = from[j]
      BY <1>6, <1>8, <1>13, <2>1 DEF TypeOK
    <3>2. from[i] \in Nat /\ from[j] \in Nat
      BY <1>6, <1>8, <1>12, <2>1
    <3> QED
      BY <1>2, <1>9, <2>1, <3>1, <3>2
  <2>2. CASE i = n + 1 \/ j = n + 1
    BY <1>6, <1>7, <1>8, <1>10, <1>11, <1>13, <2>2
  <2> QED
    BY <1>11, <2>1, <2>2
<1>14. ASSUME NEW i \in DOMAIN cache', NEW j \in DOMAIN cache', i < j
       PROVE  cache'[j].id \in churn'[cache'[i].id]
  <2>1. i \in 1 .. n
    BY <1>2, <1>7, <1>14
  <2>2. /\ cache'[i] = cache[from[i]] /\ from[i] \in DOMAIN cache
        /\ cache'[i].id \in Ids /\ cache'[i].id # id
    BY <1>6, <1>8, <1>12, <2>1
  <2>3. churn'[cache'[i].id] = churn[cache[from[i]].id] \cup {id}
    BY <1>5, <2>2
  <2>4. CASE j = n + 1
    BY <1>7, <1>10, <2>3, <2>4
  <2>5. CASE j \in 1 .. n
    <3>1. cache'[j] = cache[from[j]] /\ from[j] \in DOMAIN cache /\ from[i] < from[j]
      BY <1>6, <1>8, <1>9, <1>14, <2>1, <2>5
    <3> QED
      BY <2>2, <2>3, <3>1 DEF Ordered
  <2> QED
    BY <1>11, <2>4, <2>5
<1>15. \A i \in Ids : IsFiniteSet(churn'[i])
  BY <1>5, FS_EmptySet, FS_AddElement DEF Ordered
<1>16. Ordered'
  BY <1>14, <1>15 DEF Ordered
<1>17. churn' \in [Ids -> SUBSET Ids]
  BY <1>5 DEF TypeOK
<1>18. Len(cache') <= Cap
  BY <1>2, <1>7, CapAssumption
<1>19. ASSUME NEW j \in DOMAIN cache'
       PROVE  cache'[j] = e \/ \E i \in DOMAIN cache : cache'[j] = cache[i]
  BY <1>6, <1>7, <1>8, <1>11
<1> QED
  BY <1>7, <1>13, <1>16, <1>17, <1>18, <1>19 DEF e

\* The parts of the invariant that are about the cache alone
CacheOK ==
  /\ cache \in Seq(Entries) /\ Len(cache) <= Cap
  /\ \A i, j \in DOMAIN cache : cache[i].id = cache[j].id => i = j
  /\ churn \in [Ids -> SUBSET Ids]
  /\ Ordered /\ Aging

\* A write in time keeps the cache as it should be.
LEMMA WriteKeepsCache ==
  ASSUME Inv, UNCHANGED now,
         NEW id \in Ids, NEW at \in Times, NEW outcome \in Docs \cup {"outage"},
         NEW seen \in Times, at <= seen, seen <= now, Keeps(outcome),
         Cache(id, at, outcome, seen)
  PROVE  CacheOK'
<1> DEFINE e == Fresh(id, at, outcome, seen)
<1>1. TypeOK /\ Ordered /\ Aging
  BY DEF Inv
<1>2. /\ cache' \in Seq(Entries) /\ Len(cache') <= Cap
      /\ \A i, j \in DOMAIN cache' : cache'[i].id = cache'[j].id => i = j
      /\ churn' \in [Ids -> SUBSET Ids]
      /\ Ordered'
      /\ \A j \in DOMAIN cache' : cache'[j] = e \/ \E i \in DOMAIN cache : cache'[j] = cache[i]
  BY <1>1, WriteKeepsShape
<1>3. e.exp <= e.seen + Lifetime(e.outcome) /\ e.seen <= now /\ Keeps(e.outcome)
  BY TimesAssumption DEF Fresh, Lifetime, Times
<1> HIDE DEF e
<1>4. Aging'
  BY <1>1, <1>2, <1>3 DEF Aging, Lifetime, Keeps
<1> QED
  BY <1>2, <1>4 DEF CacheOK

\* A cache nobody writes stays as it should be while the clock goes on.
LEMMA UnwrittenKeepsCache ==
  ASSUME Inv, UNCHANGED <<cache, churn>>, now' \in Times, now <= now'
  PROVE  CacheOK'
<1>1. \A i \in DOMAIN cache : cache[i].seen \in Int
  <2>1. cache \in Seq(Entries)
    BY DEF Inv, TypeOK
  <2>2. DOMAIN cache = 1 .. Len(cache)
    BY <2>1, LenProperties
  <2>3. \A i \in DOMAIN cache : cache[i] \in Entries
    BY <2>1, <2>2, ElementOfSeq
  <2> QED
    BY <2>3 DEF Entries, Times
<1>2. now \in Int /\ now' \in Int
  BY DEF Inv, TypeOK, Times
<1>3. Aging'
  BY <1>1, <1>2 DEF Inv, Aging, Lifetime, Keeps
<1>4. Ordered'
  BY DEF Inv, Ordered
<1> QED
  BY <1>3, <1>4 DEF Inv, TypeOK, CacheOK

-----------------------------------------------------------------------------
(* The requests.                                                            *)

RequestStates == {Idle} \cup Pending \cup Connecting \cup Reading

\* What is known of a request by its stage.
LEMMA RequestShape ==
  ASSUME TypeOK, NEW l \in Lookups
  PROVE  /\ Started(l) => lookup[l].id \in Ids /\ lookup[l].start \in Times
         /\ lookup[l].stage = "queued" => lookup[l] \in Pending
         /\ lookup[l].stage = "resolving" => lookup[l] \in Pending
         /\ lookup[l].stage = "connecting" => lookup[l] \in Connecting
         /\ lookup[l].stage = "reading" => lookup[l] \in Reading
         /\ lookup[l].stage \in {"queued", "resolving", "connecting", "reading"} => Started(l)
<1>1. lookup[l] \in RequestStates
  BY DEF TypeOK, RequestStates
<1>2. CASE lookup[l] = Idle
  BY <1>2 DEF Idle, Started
<1>3. CASE lookup[l] \in Pending
  BY <1>3 DEF Pending, Idle, Started
<1>4. CASE lookup[l] \in Connecting
  BY <1>4 DEF Connecting, Idle, Started
<1>5. CASE lookup[l] \in Reading
  BY <1>5 DEF Reading, Idle, Started
<1> QED
  BY <1>1, <1>2, <1>3, <1>4, <1>5 DEF RequestStates

\* A request that goes on and keeps to its time leaves the others to theirs.
LEMMA RequestGoesOn ==
  ASSUME Inv, UNCHANGED now, NEW l \in Lookups, NEW r \in RequestStates,
         lookup' = [lookup EXCEPT ![l] = r],
         r # Idle =>
           /\ r.start <= now /\ now <= r.start + Deadline
           /\ r.stage = "reading" => r.start <= r.seen /\ r.seen <= now
  PROVE  lookup' \in [Lookups -> RequestStates] /\ Timely'
<1>1. lookup \in [Lookups -> RequestStates]
  BY DEF Inv, TypeOK, RequestStates
<1>2. lookup' \in [Lookups -> RequestStates] /\ lookup'[l] = r
  BY <1>1
<1>3. \A k \in Lookups \ {l} : lookup'[k] = lookup[k]
  BY <1>1
<1>4. Timely'
  BY <1>2, <1>3 DEF Inv, Timely, Started
<1> QED
  BY <1>2, <1>4

\* The invariant of the next state from that of its parts.
LEMMA Together ==
  ASSUME now' \in Times, CacheOK', lookup' \in [Lookups -> RequestStates], Timely',
         (answer \in Answers \cup {NoAnswer} /\ AnswersAreRecent)'
  PROVE  Inv'
BY DEF Inv, TypeOK, CacheOK, RequestStates

-----------------------------------------------------------------------------
(* The steps.                                                               *)

LEMMA InitInv == Init => Inv
<1> SUFFICES ASSUME Init
             PROVE  Inv
  OBVIOUS
<1>1. now \in Times
  BY TimesAssumption DEF Init, Times
<1>2. cache \in Seq(Entries) /\ Len(cache) = 0 /\ DOMAIN cache = {}
  BY EmptySeq, LenProperties DEF Init
<1>3. \A id \in Ids : churn[id] = {} /\ IsFiniteSet(churn[id])
  BY FS_EmptySet DEF Init
<1>4. CacheOK
  BY <1>2, <1>3, CapAssumption DEF CacheOK, Ordered, Aging, Init
<1>5. lookup \in [Lookups -> RequestStates] /\ Timely
  BY DEF Init, RequestStates, Timely, Started
<1>6. answer \in Answers \cup {NoAnswer} /\ AnswersAreRecent
  BY DEF Init, AnswersAreRecent
<1> QED
  BY <1>1, <1>4, <1>5, <1>6 DEF Inv, TypeOK, CacheOK, RequestStates

\* A step that answers nothing, writes nothing and takes no time.
LEMMA SilentStep ==
  ASSUME Inv, UNCHANGED <<now, cache, churn>>, Silent,
         lookup' \in [Lookups -> RequestStates], Timely'
  PROVE  Inv'
<1>1. now' \in Times /\ now <= now'
  BY DEF Inv, TypeOK, Times
<1>2. CacheOK'
  BY <1>1, UnwrittenKeepsCache
<1>3. (answer \in Answers \cup {NoAnswer} /\ AnswersAreRecent)'
  BY DEF Silent, AnswersAreRecent
<1> QED
  BY <1>1, <1>2, <1>3, Together

\* An answer in time is recent.
LEMMA AnswerIsRecent ==
  ASSUME now \in Times, UNCHANGED now,
         NEW id \in Ids, NEW outcome \in Outcomes, NEW seen \in Times,
         Answer(id, outcome, seen),
         IF outcome = "invalid" THEN now - seen <= Deadline ELSE now - seen < Lifetime(outcome)
  PROVE  (answer \in Answers \cup {NoAnswer} /\ AnswersAreRecent)'
BY DEF Answer, Answers, AnswersAreRecent, Lifetime

LEMMA HitStep ==
  ASSUME Inv, NEW l \in Lookups, NEW id \in Ids, Hit(l, id)
  PROVE  Inv'
<1>1. PICK i \in DOMAIN cache :
        /\ cache[i].id = id /\ cache[i].exp > now
        /\ Answer(id, cache[i].outcome, cache[i].seen)
  BY DEF Hit
<1>2. cache[i] \in Entries
  BY LenProperties, ElementOfSeq DEF Inv, TypeOK
<1>3. /\ cache[i].exp <= cache[i].seen + Lifetime(cache[i].outcome)
      /\ Keeps(cache[i].outcome)
  BY DEF Inv, Aging
<1>4. /\ cache[i].outcome \in Outcomes /\ cache[i].seen \in Times /\ cache[i].exp \in Int
      /\ now \in Times /\ Lifetime(cache[i].outcome) \in Int
  BY <1>2, TimesAssumption DEF Inv, TypeOK, Entries, Outcomes, Lifetime, Times
<1>5. now - cache[i].seen < Lifetime(cache[i].outcome)
  BY <1>1, <1>3, <1>4 DEF Times
<1>6. UNCHANGED <<now, cache, lookup, churn>>
  BY DEF Hit
<1>7. (answer \in Answers \cup {NoAnswer} /\ AnswersAreRecent)'
  <2>1. cache[i].outcome # "invalid"
    BY <1>3 DEF Keeps
  <2> QED
    BY <1>1, <1>4, <1>5, <1>6, <2>1, AnswerIsRecent
<1>8. CacheOK'
  BY <1>4, <1>6, UnwrittenKeepsCache DEF Times
<1>9. lookup' \in [Lookups -> RequestStates] /\ Timely'
  BY <1>6 DEF Inv, TypeOK, RequestStates, Timely, Started
<1> QED
  <2>1. now' \in Times
    BY <1>4, <1>6
  <2> QED
    BY <1>7, <1>8, <1>9, <2>1, Together

\* A request that waits, resolves, connects or reads.
LEMMA WaitingStep ==
  ASSUME Inv, NEW l \in Lookups,
         \/ \E id \in Ids : Miss(l, id)
         \/ Admit(l) \/ Resolve(l) \/ HostAnswers(l) \/ AddressFails(l) \/ SessionClosed(l)
  PROVE  Inv'
<1>1. TypeOK /\ now \in Times /\ Timely
  BY DEF Inv, TypeOK
<1>2. UNCHANGED <<now, cache, churn>> /\ Silent
  BY DEF Miss, Admit, Resolve, HostAnswers, AddressFails, SessionClosed
<1> DEFINE Good(r) ==
      /\ r \in RequestStates /\ lookup' = [lookup EXCEPT ![l] = r]
      /\ r # Idle =>
           /\ r.start <= now /\ now <= r.start + Deadline
           /\ r.stage = "reading" => r.start <= r.seen /\ r.seen <= now
<1>3. ASSUME NEW id \in Ids, Miss(l, id)
      PROVE  \E r : Good(r)
  <2>1. Good([stage |-> "queued", id |-> id, start |-> now])
    BY <1>1, <1>3, TimesAssumption DEF Miss, RequestStates, Pending, Times
  <2> QED
    BY <2>1
<1>4. ASSUME lookup[l].stage \in {"queued", "resolving", "connecting", "reading"}
      PROVE  /\ Started(l) /\ lookup[l].id \in Ids /\ lookup[l].start \in Times
             /\ lookup[l].start <= now /\ now <= lookup[l].start + Deadline
  BY <1>1, <1>4, RequestShape DEF Timely
<1>5. ASSUME Admit(l)
      PROVE  \E r : Good(r)
  <2>1. lookup[l] \in Pending /\ lookup[l].stage = "queued"
    BY <1>1, <1>5, RequestShape DEF Admit
  <2>2. Good([lookup[l] EXCEPT !.stage = "resolving"])
    BY <1>4, <1>5, <2>1 DEF Admit, RequestStates, Pending
  <2> QED
    BY <2>2
<1>6. ASSUME Resolve(l)
      PROVE  \E r : Good(r)
  <2>1. PICK n \in 0 .. Addresses :
          lookup' = [lookup EXCEPT ![l] = [stage |-> "connecting", id |-> lookup[l].id,
                                           start |-> lookup[l].start, left |-> n]]
    BY <1>6 DEF Resolve
  <2>2. Good([stage |-> "connecting", id |-> lookup[l].id, start |-> lookup[l].start,
              left |-> n])
    BY <1>4, <1>6, <2>1 DEF Resolve, RequestStates, Connecting
  <2> QED
    BY <2>2
<1>7. ASSUME HostAnswers(l)
      PROVE  \E r : Good(r)
  <2>1. PICK outcome \in Docs \cup {"invalid"} :
          lookup' = [lookup EXCEPT ![l] = [stage |-> "reading", id |-> lookup[l].id,
                       start |-> lookup[l].start, left |-> lookup[l].left,
                       outcome |-> outcome, seen |-> now]]
    BY <1>7 DEF HostAnswers
  <2>2. lookup[l].left \in 0 .. Addresses
    BY <1>1, <1>7, RequestShape DEF HostAnswers, Connecting
  <2> DEFINE r == [stage |-> "reading", id |-> lookup[l].id, start |-> lookup[l].start,
                   left |-> lookup[l].left, outcome |-> outcome, seen |-> now]
  <2>3. r \in Reading
    BY <1>1, <1>4, <1>7, <2>2 DEF HostAnswers, Reading
  <2>4. r.start <= now /\ now <= r.start + Deadline /\ r.start <= r.seen /\ r.seen <= now
    BY <1>1, <1>4, <1>7 DEF HostAnswers, Times
  <2>5. lookup' = [lookup EXCEPT ![l] = r]
    BY <2>1
  <2>6. Good(r)
    <3> HIDE DEF r
    <3> QED
      BY <2>3, <2>4, <2>5 DEF RequestStates
  <2> QED
    BY <2>6
<1>8. ASSUME AddressFails(l)
      PROVE  \E r : Good(r)
  <2>1. lookup[l].left \in 0 .. Addresses /\ lookup[l].left > 0
    BY <1>1, <1>8, RequestShape DEF AddressFails, Connecting, Reading
  <2>2. lookup[l].left - 1 \in 0 .. Addresses
    BY <2>1, TimesAssumption
  <2>3. Good([stage |-> "connecting", id |-> lookup[l].id, start |-> lookup[l].start,
              left |-> lookup[l].left - 1])
    BY <1>4, <1>8, <2>2 DEF AddressFails, RequestStates, Connecting
  <2> QED
    BY <2>3
<1>9. ASSUME SessionClosed(l)
      PROVE  \E r : Good(r)
  <2>1. Good(Idle)
    BY <1>9 DEF SessionClosed, Finish, RequestStates
  <2> QED
    BY <2>1
<1>10. PICK r : Good(r)
  <2> HIDE DEF Good
  <2> QED
    BY <1>3, <1>5, <1>6, <1>7, <1>8, <1>9
<1>11. lookup' \in [Lookups -> RequestStates] /\ Timely'
  BY <1>2, <1>10, RequestGoesOn
<1> QED
  BY <1>2, <1>11, SilentStep

\* A request that ends with an outage, written and answered as it is found.
LEMMA OutageStep ==
  ASSUME Inv, NEW l \in Lookups, OutOfAddresses(l) \/ DeadlinePasses(l)
  PROVE  Inv'
<1>1. TypeOK /\ now \in Times /\ Timely
  BY DEF Inv, TypeOK
<1>2. /\ UNCHANGED now /\ Finish(l)
      /\ Cache(lookup[l].id, lookup[l].start, "outage", now)
      /\ Answer(lookup[l].id, "outage", now)
  BY DEF OutOfAddresses, DeadlinePasses
<1>3. Started(l)
  BY <1>1, RequestShape DEF OutOfAddresses, DeadlinePasses, Late
<1>4. lookup[l].id \in Ids /\ lookup[l].start \in Times /\ lookup[l].start <= now
  BY <1>1, <1>3, RequestShape DEF Timely
<1>5. CacheOK'
  <2>1. Keeps("outage") /\ "outage" \in Docs \cup {"outage"} /\ now <= now
    BY <1>1 DEF Keeps, Times
  <2> QED
    BY <1>1, <1>2, <1>4, <2>1, WriteKeepsCache
<1>6. (answer \in Answers \cup {NoAnswer} /\ AnswersAreRecent)'
  <2>1. now - now < Lifetime("outage") /\ "outage" \in Outcomes
    BY <1>1, TimesAssumption DEF Lifetime, Outcomes, Times
  <2> QED
    BY <1>1, <1>2, <1>4, <2>1, AnswerIsRecent
<1>7. lookup' \in [Lookups -> RequestStates] /\ Timely'
  <2>1. Idle \in RequestStates
    BY DEF RequestStates
  <2> QED
    BY <1>2, <2>1, RequestGoesOn DEF Finish
<1>8. now' \in Times
  BY <1>1, <1>2
<1> QED
  BY <1>5, <1>6, <1>7, <1>8, Together

\* A request that has read its document.
LEMMA ReadStep ==
  ASSUME Inv, NEW l \in Lookups, DocumentRead(l)
  PROVE  Inv'
<1> DEFINE k == lookup[l]
<1>1. TypeOK /\ now \in Times /\ Timely
  BY DEF Inv, TypeOK
<1>2. k.stage = "reading" /\ UNCHANGED now /\ Finish(l) /\ Answer(k.id, k.outcome, k.seen)
  BY DEF DocumentRead
<1>3. k \in Reading /\ Started(l)
  BY <1>1, <1>2, RequestShape
<1>4. /\ k.id \in Ids /\ k.start \in Times /\ k.seen \in Times
      /\ k.outcome \in Docs \cup {"invalid"}
  BY <1>3 DEF Reading
<1>5. k.start <= k.seen /\ k.seen <= now /\ now <= k.start + Deadline
  BY <1>1, <1>2, <1>3 DEF Timely
<1>6. CacheOK'
  <2>1. CASE Keeps(k.outcome)
    <3>1. Cache(k.id, k.start, k.outcome, k.seen) /\ k.outcome \in Docs \cup {"outage"}
      BY <1>4, <2>1 DEF DocumentRead, Keeps
    <3> HIDE DEF k
    <3> QED
      BY <1>2, <1>4, <1>5, <2>1, <3>1, WriteKeepsCache
  <2>2. CASE ~Keeps(k.outcome)
    <3>1. UNCHANGED <<cache, churn>> /\ now' \in Times /\ now <= now'
      BY <1>1, <1>2, <2>2 DEF DocumentRead, Times
    <3> QED
      BY <3>1, UnwrittenKeepsCache
  <2> QED
    BY <2>1, <2>2
<1>7. (answer \in Answers \cup {NoAnswer} /\ AnswersAreRecent)'
  <2>1. k.outcome \in Outcomes
    BY <1>4 DEF Outcomes
  <2>2. now - k.seen <= Deadline /\ now - k.seen < Lifetime(k.outcome)
    BY <1>1, <1>4, <1>5, TimesAssumption DEF Times, Lifetime
  <2> HIDE DEF k
  <2> QED
    BY <1>1, <1>2, <1>4, <2>1, <2>2, AnswerIsRecent
<1>8. lookup' \in [Lookups -> RequestStates] /\ Timely'
  <2>1. Idle \in RequestStates
    BY DEF RequestStates
  <2> QED
    BY <1>2, <2>1, RequestGoesOn DEF Finish
<1>9. now' \in Times
  BY <1>1, <1>2
<1> QED
  BY <1>6, <1>7, <1>8, <1>9, Together

\* The clock waits for the timers that are due.
LEMMA TickStep ==
  ASSUME Inv, Tick
  PROVE  Inv'
<1>1. TypeOK /\ now \in Times /\ Timely
  BY DEF Inv, TypeOK
<1>2. now' \in Times /\ now <= now' /\ now' = now + 1
  BY <1>1, TimesAssumption DEF Tick, Times
<1>3. CacheOK'
  BY <1>2, UnwrittenKeepsCache DEF Tick
<1>4. lookup' \in [Lookups -> RequestStates]
  BY <1>1 DEF Tick, TypeOK, RequestStates
<1>5. Timely'
  <2> SUFFICES ASSUME NEW l \in Lookups, Started(l)
               PROVE  /\ lookup[l].start <= now' /\ now' <= lookup[l].start + Deadline
                      /\ lookup[l].stage = "reading" =>
                           lookup[l].start <= lookup[l].seen /\ lookup[l].seen <= now'
    BY DEF Tick, Timely, Started
  <2>1. lookup[l].start \in Times /\ now < lookup[l].start + Deadline
    BY <1>1, RequestShape DEF Tick
  <2>2. lookup[l].stage = "reading" => lookup[l].seen \in Times
    BY <1>1, RequestShape DEF Reading
  <2> QED
    BY <1>1, <1>2, <2>1, <2>2, TimesAssumption DEF Timely, Times
<1>6. (answer \in Answers \cup {NoAnswer} /\ AnswersAreRecent)'
  BY DEF Tick, Silent, AnswersAreRecent
<1> QED
  BY <1>2, <1>3, <1>4, <1>5, <1>6, Together

LEMMA NextInv == Inv /\ [Next]_vars => Inv'
<1> SUFFICES ASSUME Inv, [Next]_vars
             PROVE  Inv'
  OBVIOUS
<1>1. CASE Tick
  BY <1>1, TickStep
<1>2. ASSUME NEW l \in Lookups, NEW id \in Ids, Hit(l, id)
      PROVE  Inv'
  BY <1>2, HitStep
<1>3. ASSUME NEW l \in Lookups,
             \/ \E id \in Ids : Miss(l, id)
             \/ Admit(l) \/ Resolve(l) \/ HostAnswers(l) \/ AddressFails(l)
             \/ SessionClosed(l)
      PROVE  Inv'
  BY <1>3, WaitingStep
<1>4. ASSUME NEW l \in Lookups, DocumentRead(l)
      PROVE  Inv'
  BY <1>4, ReadStep
<1>5. ASSUME NEW l \in Lookups, OutOfAddresses(l) \/ DeadlinePasses(l)
      PROVE  Inv'
  BY <1>5, OutageStep
<1>6. CASE UNCHANGED vars
  BY <1>6 DEF vars, Inv, TypeOK, Timely, Started, Aging, Ordered, AnswersAreRecent
<1> QED
  BY <1>1, <1>2, <1>3, <1>4, <1>5, <1>6 DEF Next

-----------------------------------------------------------------------------
(* Evictions.                                                               *)

\* A live entry that a write drops was the oldest of a full cache: what is behind
\* it, and the client written, are as many as the cache holds.
LEMMA EvictedAfterChurn ==
  ASSUME Inv, NEW id \in Ids, NEW at \in Times, at <= now,
         NEW outcome, NEW seen, Cache(id, at, outcome, seen),
         NEW i \in DOMAIN cache, cache[i].exp > now,
         \A j \in DOMAIN cache' : cache'[j].id # cache[i].id
  PROVE  Cardinality(churn'[cache[i].id]) >= Cap
<1> DEFINE left == Trimmed(id, at)
           up == {j \in left : j >= i}
           ids == {cache[j].id : j \in up}
<1>1. /\ cache \in Seq(Entries) /\ DOMAIN cache = 1 .. Len(cache) /\ Len(cache) \in Nat
      /\ now \in Int
  BY LenProperties DEF Inv, TypeOK, Times
<1>2. \A j \in DOMAIN cache : cache[j] \in Entries
  BY <1>1, ElementOfSeq
<1>3. cache[i].id \in Ids /\ cache[i].exp \in Int /\ at \in Int
  BY <1>2 DEF Entries, Times
<1>4. /\ Room(id, at) \in Seq(Entries) /\ Len(Room(id, at)) \in Nat
      /\ \E from : Selects(Room(id, at), cache, from, Newest(left))
  BY <1>1, RoomIsMade, LenProperties
<1>5. cache' = Append(Room(id, at), Fresh(id, at, outcome, seen))
  BY DEF Cache, Written, Fresh
<1>6. /\ DOMAIN cache' = 1 .. Len(Room(id, at)) + 1
      /\ \A j \in 1 .. Len(Room(id, at)) : cache'[j] = Room(id, at)[j]
      /\ cache'[Len(Room(id, at)) + 1] = Fresh(id, at, outcome, seen)
  BY <1>4, <1>5
<1>7. cache[i].id # id
  BY <1>4, <1>6 DEF Fresh
<1>8. i \in left
  BY <1>1, <1>3, <1>7 DEF Trimmed, Others
<1>9. i \notin Newest(left)
  <2> SUFFICES ASSUME i \in Newest(left)
               PROVE  FALSE
    OBVIOUS
  <2>1. PICK from : Selects(Room(id, at), cache, from, Newest(left))
    BY <1>4
  <2>2. PICK j \in 1 .. Len(Room(id, at)) : from[j] = i
    BY <2>1 DEF Selects
  <2>3. cache'[j] = cache[i] /\ j \in DOMAIN cache'
    BY <1>4, <1>6, <2>1, <2>2 DEF Selects
  <2> QED
    BY <2>3
<1>10. left \subseteq DOMAIN cache /\ \A j \in left : cache[j].id # id
  BY DEF Trimmed, Others
<1>11. IsFiniteSet(up) /\ Cardinality(up) \in Nat
  <2>1. IsFiniteSet(DOMAIN cache)
    BY <1>1, FS_Interval
  <2> QED
    BY <1>10, <2>1, FS_Subset, FS_CardinalityType
<1>12. Cardinality(up) >= Cap
  BY <1>8, <1>9, <1>11, CapAssumption DEF Newest
<1> HIDE DEF left
<1>13. IsFiniteSet(ids) /\ Cardinality(ids) = Cardinality(up)
  <2> DEFINE f == [j \in up |-> cache[j].id]
  <2>1. f \in Bijection(up, ids)
    <3>1. \A j, k \in up : cache[j].id = cache[k].id => j = k
      BY <1>10 DEF Inv, TypeOK
    <3> QED
      BY <3>1, Fun_IsBij
  <2> HIDE DEF f, up, ids
  <2> QED
    BY <1>11, <2>1, FS_Bijection DEF ExistsBijection
<1>14. cache[i].id \in ids
  BY <1>1, <1>8
<1>15. ids \ {cache[i].id} \subseteq churn[cache[i].id]
  <2> SUFFICES ASSUME NEW j \in up, cache[j].id # cache[i].id
               PROVE  cache[j].id \in churn[cache[i].id]
    OBVIOUS
  <2>1. j \in DOMAIN cache /\ i < j
    BY <1>1, <1>10
  <2> QED
    BY <2>1 DEF Inv, Ordered
<1>16. churn'[cache[i].id] = churn[cache[i].id] \cup {id}
  BY <1>3, <1>7 DEF Cache
<1>17. id \notin ids
  BY <1>10
<1> DEFINE some == (ids \ {cache[i].id}) \cup {id}
<1>18. IsFiniteSet(some) /\ Cardinality(some) = Cardinality(ids)
  <2> HIDE DEF ids, up
  <2>1. /\ IsFiniteSet(ids \ {cache[i].id})
        /\ Cardinality(ids \ {cache[i].id}) = Cardinality(ids) - 1
    BY <1>13, <1>14, FS_RemoveElement
  <2>2. id \notin ids \ {cache[i].id}
    BY <1>17
  <2>3. /\ IsFiniteSet(some)
        /\ Cardinality(some) = Cardinality(ids \ {cache[i].id}) + 1
    BY <2>1, <2>2, FS_AddElement
  <2>4. Cardinality(ids) \in Nat
    BY <1>11, <1>13
  <2> QED
    BY <2>1, <2>3, <2>4
<1>19. some \subseteq churn'[cache[i].id]
  BY <1>15, <1>16
<1>20. IsFiniteSet(churn'[cache[i].id])
  BY <1>3, <1>16, FS_AddElement DEF Inv, Ordered
<1> HIDE DEF some, ids, up
<1>21. Cardinality(some) <= Cardinality(churn'[cache[i].id])
  BY <1>19, <1>20, FS_Subset
<1>22. Cardinality(churn'[cache[i].id]) \in Nat
  BY <1>20, FS_CardinalityType
<1> QED
  BY <1>11, <1>12, <1>13, <1>18, <1>21, <1>22, CapAssumption

-----------------------------------------------------------------------------
(* The theorems.                                                            *)

THEOREM Invariance == Spec => []Inv
<1>1. Init => Inv
  BY InitInv
<1>2. Inv /\ [Next]_vars => Inv'
  BY NextInv
<1> QED
  BY <1>1, <1>2, PTL DEF Spec

\* The variables have their types, and the cache holds no more than its bound and
\* one entry of each client, for every number of clients, requests and slots, in
\* whatever order overlapping lookups write (_cache_cimd).
THEOREM TypeCorrect == Spec => []TypeOK
<1>1. Inv => TypeOK
  BY DEF Inv
<1> QED
  BY <1>1, Invariance, PTL

\* No answer is older than its outcome may live, although lifetimes are counted
\* from when the lookup began and the outcome was seen later (_lookup_cimd).
THEOREM Recency == Spec => []AnswersAreRecent
<1>1. Inv => AnswersAreRecent
  BY DEF Inv
<1> QED
  BY <1>1, Invariance, PTL

\* A live entry leaves the cache only after as many writes for other clients as
\* the cache holds entries (_cache_cimd).
THEOREM ChurnEvicts == Spec => EvictionNeedsChurn
<1> DEFINE Kept == \A i \in DOMAIN cache :
             cache[i].exp > now /\ (\A j \in DOMAIN cache' : cache'[j].id # cache[i].id) =>
               Cardinality(churn'[cache[i].id]) >= Cap
<1>1. Inv /\ [Next]_vars => [Kept]_vars
  <2> SUFFICES ASSUME Inv, Next,
                      NEW i \in DOMAIN cache, cache[i].exp > now,
                      \A j \in DOMAIN cache' : cache'[j].id # cache[i].id
               PROVE  Cardinality(churn'[cache[i].id]) >= Cap
    OBVIOUS
  <2>1. ~ UNCHANGED cache
    OBVIOUS
  <2>2. PICK l \in Lookups : DocumentRead(l) \/ OutOfAddresses(l) \/ DeadlinePasses(l)
    BY <2>1 DEF Next, Tick, Hit, Miss, Admit, Resolve, HostAnswers, AddressFails,
               SessionClosed
  <2>3. Started(l)
    BY <2>2, RequestShape
       DEF Inv, DocumentRead, OutOfAddresses, DeadlinePasses, Late
  <2>4. lookup[l].id \in Ids /\ lookup[l].start \in Times /\ lookup[l].start <= now
    BY <2>3, RequestShape DEF Inv, Timely
  <2>5. \E outcome, seen : Cache(lookup[l].id, lookup[l].start, outcome, seen)
    BY <2>1, <2>2 DEF DocumentRead, OutOfAddresses, DeadlinePasses
  <2> QED
    BY <2>4, <2>5, EvictedAfterChurn
<1> QED
  BY <1>1, Invariance, PTL DEF Spec, EvictionNeedsChurn
=============================================================================
