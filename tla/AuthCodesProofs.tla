--------------------------- MODULE AuthCodesProofs ---------------------------
(* Proofs about AuthCodes, for every cap, lifetime and set of clients. *)
EXTENDS AuthCodes, FiniteSetTheorems, TLAPS

USE CodesAssumption, BoundsAssumption, VerifierAssumption

LEMMA GrantNotEmpty == ASSUME NEW g \in Grants PROVE g # NoEntry /\ g.provider \in Providers
  BY DEF Grants, NoEntry, NoProvider, Providers

LEMMA InitInv == Init => Inv
<1> SUFFICES ASSUME Init PROVE Inv
  OBVIOUS
<1>1. TypeOK
  BY DEF Init, TypeOK, NoProvider
<1>2. StoreBounded
  <2>1. \A p \in Providers : Store(p) = {}
    BY DEF Init, Store
  <2> QED
    BY <2>1, FS_EmptySet DEF StoreBounded
<1>3. Ledger
  BY DEF Init, Ledger
<1> QED
  BY <1>1, <1>2, <1>3 DEF Inv

\* What a request that consumes a code may do to the stores
LEMMA ConsumeEffect ==
  ASSUME NEW q \in Requests, NEW c \in Codes, NEW r \in Redirects,
         NEW v \in Verifiers \cup {Malformed}, Consume(q, c, r, v)
  PROVE  /\ UNCHANGED <<live, built, age, issued>>
         /\ arrived' = [arrived EXCEPT ![q] = NoProvider]
         /\ \/ UNCHANGED <<stored, redeemed>>
            \/ /\ c \in stored /\ v \in Verifiers
               /\ issued[c].provider = arrived[q]
               /\ stored' = stored \ {c}
               /\ \/ redeemed' = redeemed
                  \/ redeemed' = redeemed \cup {c} /\ Redeemable(c, r, v)
  BY DEF Consume, Store

\* The state is well typed after every step.
LEMMA TypeStep == Inv /\ [Next]_vars => TypeOK'
<1> SUFFICES ASSUME Inv, [Next]_vars PROVE TypeOK'
  OBVIOUS
<1>0. TypeOK
  BY DEF Inv
<1>1. CASE Register \/ Unregister
  BY <1>1, <1>0 DEF Register, Unregister, TypeOK, Providers, NoProvider
<1>2. CASE Tick
  BY <1>2, <1>0 DEF Tick, TypeOK
<1>3. CASE \E r \in Redirects, v \in Verifiers : Authorize(r, Challenge(v))
  <2>1. PICK r \in Redirects, v \in Verifiers : Authorize(r, Challenge(v))
    BY <1>3
  <2>2. live \in Providers
    BY <2>1, <1>0 DEF Authorize, TypeOK
  <2>3. [provider |-> live, redirect |-> r, challenge |-> Challenge(v)] \in Grants
    BY <2>2 DEF Grants
  <2>4. Store(live) \subseteq stored /\ Kept(live) \subseteq stored
    BY DEF Store, Kept
  <2> QED
    BY <2>1, <2>3, <2>4, <1>0 DEF Authorize, TypeOK
<1>4. CASE \E q \in Requests : TokenArrives(q) \/ TokenRefused(q)
  BY <1>4, <1>0 DEF TokenArrives, TokenRefused, TypeOK
<1>5. CASE \E q \in Requests, c \in Codes, r \in Redirects, v \in Verifiers \cup {Malformed} :
             Consume(q, c, r, v)
  <2>1. PICK q \in Requests, c \in Codes, r \in Redirects, v \in Verifiers \cup {Malformed} :
          Consume(q, c, r, v)
    BY <1>5
  <2> QED
    BY <2>1, <1>0, ConsumeEffect DEF TypeOK
<1>6. CASE UNCHANGED vars
  BY <1>6, <1>0 DEF vars, TypeOK
<1> QED
  BY <1>1, <1>2, <1>3, <1>4, <1>5, <1>6 DEF Next

\* Only issued codes are stored or redeemed, after every step too.
LEMMA LedgerStep == Inv /\ [Next]_vars => Ledger'
<1> SUFFICES ASSUME Inv, [Next]_vars PROVE Ledger'
  OBVIOUS
<1>0. TypeOK /\ Ledger
  BY DEF Inv
<1>1. CASE Register \/ Unregister \/ Tick \/ UNCHANGED vars
  BY <1>1, <1>0 DEF Register, Unregister, Tick, vars, Ledger
<1>2. CASE \E r \in Redirects, v \in Verifiers : Authorize(r, Challenge(v))
  <2>1. PICK r \in Redirects, v \in Verifiers : Authorize(r, Challenge(v))
    BY <1>2
  <2>2. live \in Providers
    BY <2>1, <1>0 DEF Authorize, TypeOK
  <2> DEFINE g == [provider |-> live, redirect |-> r, challenge |-> Challenge(v)]
  <2>3. g # NoEntry
    BY <2>2, GrantNotEmpty DEF Grants
  <2>4. Store(live) \subseteq stored /\ Kept(live) \subseteq stored
    BY DEF Store, Kept
  <2>5. \/ stored' \subseteq stored /\ UNCHANGED <<issued, redeemed>>
        \/ \E c \in Codes : /\ issued[c] = NoEntry
                            /\ stored' \subseteq stored \cup {c}
                            /\ issued' = [issued EXCEPT ![c] = g]
                            /\ redeemed' = redeemed
    BY <2>1, <2>4 DEF Authorize
  <2> HIDE DEF g
  <2> QED
    BY <2>3, <2>5, <1>0 DEF Ledger, TypeOK
<1>3. CASE \E q \in Requests : TokenArrives(q) \/ TokenRefused(q)
  BY <1>3, <1>0 DEF TokenArrives, TokenRefused, Ledger
<1>4. CASE \E q \in Requests, c \in Codes, r \in Redirects, v \in Verifiers \cup {Malformed} :
             Consume(q, c, r, v)
  <2>1. PICK q \in Requests, c \in Codes, r \in Redirects, v \in Verifiers \cup {Malformed} :
          Consume(q, c, r, v)
    BY <1>4
  <2> QED
    BY <2>1, <1>0, ConsumeEffect DEF Ledger
<1> QED
  BY <1>1, <1>2, <1>3, <1>4 DEF Next

\* A store that loses codes stays below the cap
LEMMA SmallerStore ==
  ASSUME TypeOK, StoreBounded, NEW p \in Providers, Store(p)' \subseteq Store(p)
  PROVE  Cardinality(Store(p)') <= Cap
<1>1. Store(p) \in SUBSET Codes
  BY DEF Store, TypeOK
<1>2. IsFiniteSet(Store(p))
  BY <1>1, FS_Subset
<1>3. /\ Cardinality(Store(p)') <= Cardinality(Store(p))
      /\ Cardinality(Store(p)) \in Nat /\ Cardinality(Store(p)') \in Nat
  BY <1>2, FS_Subset, FS_CardinalityType
<1> QED
  BY <1>3 DEF StoreBounded

\* The cap holds after every step.
LEMMA BoundStep == Inv /\ [Next]_vars => StoreBounded'
<1> SUFFICES ASSUME Inv, [Next]_vars, NEW p \in Providers
             PROVE  Cardinality(Store(p)') <= Cap
  BY DEF StoreBounded
<1>0. TypeOK /\ StoreBounded /\ Ledger
  BY DEF Inv
<1>1. CASE UNCHANGED <<stored, issued>>
  BY <1>0, <1>1, SmallerStore DEF Store
<1>2. CASE \E r \in Redirects, v \in Verifiers : Authorize(r, Challenge(v))
  <2>1. PICK r \in Redirects, v \in Verifiers : Authorize(r, Challenge(v))
    BY <1>2
  <2>2. live \in Providers
    BY <2>1, <1>0 DEF Authorize, TypeOK
  <2>3. Store(live) \subseteq stored /\ Kept(live) \subseteq Store(live)
    BY DEF Store, Kept
  <2>4. CASE stored' = (stored \ Store(live)) \cup Kept(live) /\ UNCHANGED issued
    <3>1. Store(p)' \subseteq Store(p)
      BY <2>3, <2>4 DEF Store
    <3> QED
      BY <1>0, <3>1, SmallerStore
  <2>5. CASE /\ Cardinality(Kept(live)) < Cap
             /\ \E c \in Codes :
                  /\ issued[c] = NoEntry
                  /\ stored' = (stored \ Store(live)) \cup Kept(live) \cup {c}
                  /\ issued' = [issued EXCEPT ![c] = [provider |-> live, redirect |-> r,
                                                      challenge |-> Challenge(v)]]
    <3>1. PICK c \in Codes :
             /\ issued[c] = NoEntry
             /\ stored' = (stored \ Store(live)) \cup Kept(live) \cup {c}
             /\ issued' = [issued EXCEPT ![c] = [provider |-> live, redirect |-> r,
                                                 challenge |-> Challenge(v)]]
      BY <2>5
    <3>2. issued'[c].provider = live /\ \A d \in Codes \ {c} : issued'[d] = issued[d]
      BY <3>1, <1>0 DEF TypeOK
    <3>3. stored \subseteq Codes /\ c \notin stored
      BY <1>0, <3>1 DEF TypeOK, Ledger
    <3>4. CASE p = live
      <4>1. Store(p)' \subseteq Kept(live) \cup {c}
        BY <3>1, <3>2, <3>3, <3>4 DEF Store
      <4>2. Kept(live) \in SUBSET Codes
        BY <2>3, <3>3
      <4>3. IsFiniteSet(Kept(live)) /\ Cardinality(Kept(live)) \in Nat
        BY <4>2, FS_Subset, FS_CardinalityType
      <4>4. /\ IsFiniteSet(Kept(live) \cup {c})
            /\ Cardinality(Kept(live) \cup {c}) <= Cardinality(Kept(live)) + 1
        <5>1. /\ IsFiniteSet(Kept(live) \cup {c})
              /\ Cardinality(Kept(live) \cup {c}) =
                   IF c \in Kept(live) THEN Cardinality(Kept(live))
                                      ELSE Cardinality(Kept(live)) + 1
          BY <4>3, FS_AddElement, Zenon
        <5> QED
          BY <4>3, <5>1
      <4>5. /\ Cardinality(Store(p)') <= Cardinality(Kept(live) \cup {c})
            /\ Cardinality(Store(p)') \in Nat /\ Cardinality(Kept(live) \cup {c}) \in Nat
        BY <4>1, <4>4, FS_Subset, FS_CardinalityType
      <4> QED
        BY <2>5, <4>3, <4>4, <4>5
    <3>5. CASE p # live
      <4>1. Store(p)' \subseteq Store(p)
        BY <2>3, <3>1, <3>2, <3>3, <3>5 DEF Store
      <4> QED
        BY <1>0, <4>1, SmallerStore
    <3> QED
      BY <3>4, <3>5
  <2> QED
    BY <2>1, <2>4, <2>5 DEF Authorize
<1>3. CASE \E q \in Requests, c \in Codes, r \in Redirects, v \in Verifiers \cup {Malformed} :
             Consume(q, c, r, v)
  <2>1. stored' \subseteq stored /\ issued' = issued
    BY <1>3, ConsumeEffect
  <2>2. Store(p)' \subseteq Store(p)
    BY <2>1 DEF Store
  <2> QED
    BY <1>0, <2>2, SmallerStore
<1> QED
  BY <1>1, <1>2, <1>3
     DEF Next, Register, Unregister, Tick, TokenArrives, TokenRefused, vars

\* The invariant is inductive.
THEOREM Invariance == Spec => []Inv
<1>1. Inv /\ [Next]_vars => Inv'
  BY TypeStep, LedgerStep, BoundStep DEF Inv
<1> QED
  BY <1>1, InitInv, PTL DEF Spec

\* The stores, the clock and the requests in flight keep their types
\* (PKCECodeStore).
THEOREM TypeCorrect == Spec => []TypeOK
<1>1. Inv => TypeOK
  BY DEF Inv
<1> QED
  BY <1>1, Invariance, PTL

\* No provider's store ever exceeds the cap (PKCECodeStore.issue_code).
THEOREM CapHolds == Spec => []StoreBounded
<1>1. Inv => StoreBounded
  BY DEF Inv
<1> QED
  BY <1>1, Invariance, PTL

\* A code is redeemed only for a request that looked up the code's own provider
\* (AutoApproveTokenView.post).
THEOREM IssuerRedeems == Spec => RedeemedUnderIssuer
<1>1. [Next]_vars => [\A c \in redeemed' \ redeemed :
                        \E q \in Requests : arrived[q] = issued[c].provider]_vars
  <2> SUFFICES ASSUME [Next]_vars, NEW c \in redeemed' \ redeemed
               PROVE  \E q \in Requests : arrived[q] = issued[c].provider
    OBVIOUS
  <2>1. PICK q \in Requests, d \in Codes, r \in Redirects, v \in Verifiers \cup {Malformed} :
          Consume(q, d, r, v)
    BY DEF Next, vars, Register, Unregister, Tick, Authorize, TokenArrives, TokenRefused
  <2>2. c = d /\ issued[d].provider = arrived[q]
    BY <2>1, ConsumeEffect
  <2> QED
    BY <2>2
<1> QED
  BY <1>1, PTL DEF Spec, RedeemedUnderIssuer

-----------------------------------------------------------------------------
(* The refinement of OneShotCodes.                                          *)

LEMMA StatusCases ==
  ASSUME NEW c \in Codes
  PROVE  /\ issued[c] = NoEntry => Status[c] = "unissued"
         /\ issued[c] # NoEntry /\ c \in stored /\ age[c] <= TTL => Status[c] = "pending"
         /\ issued[c] # NoEntry /\ c \notin stored /\ c \in redeemed => Status[c] = "redeemed"
         /\ issued[c] # NoEntry /\ ~(c \in stored /\ age[c] <= TTL)
              /\ ~(c \notin stored /\ c \in redeemed) => Status[c] = "lapsed"
  BY DEF Status, StatusOf

LEMMA NextStatusCases ==
  ASSUME NEW c \in Codes
  PROVE  /\ issued'[c] = NoEntry => Status'[c] = "unissued"
         /\ issued'[c] # NoEntry /\ c \in stored' /\ age'[c] <= TTL => Status'[c] = "pending"
         /\ issued'[c] # NoEntry /\ c \notin stored' /\ c \in redeemed' =>
              Status'[c] = "redeemed"
         /\ issued'[c] # NoEntry /\ ~(c \in stored' /\ age'[c] <= TTL)
              /\ ~(c \notin stored' /\ c \in redeemed') => Status'[c] = "lapsed"
  BY DEF Status, StatusOf

\* Codes that leave their stores or grow too old lapse
LEMMA Lapses ==
  ASSUME Inv, UNCHANGED <<issued, redeemed>>, stored' \subseteq stored,
         \A c \in Codes : age'[c] <= TTL => age[c] <= TTL,
         \A c \in Codes : c \notin stored => age'[c] = age[c]
  PROVE  OneShot!Lapse
<1> DEFINE S == {c \in Codes : Status[c] = "pending" /\ Status'[c] # "pending"}
<1>1. \A c \in Codes : Status'[c] = IF c \in S THEN "lapsed" ELSE Status[c]
  <2> TAKE c \in Codes
  <2>1. /\ c \in redeemed => issued[c] # NoEntry /\ c \notin stored
        /\ c \in stored => issued[c] # NoEntry
    BY DEF Inv, Ledger
  <2> QED
    BY <2>1, StatusCases, NextStatusCases
<1>2. Status' = OneShot!Lapsed(S)
  BY <1>1 DEF OneShot!Lapsed, Status
<1>3. S \in SUBSET OneShot!Pending
  BY DEF OneShot!Pending
<1>4. Bound' = Bound
  BY DEF Bound
<1> QED
  BY <1>2, <1>3, <1>4 DEF OneShot!Lapse

\* The stores start with no code issued.
LEMMA ShotInit == Init => OneShot!Init
  BY DEF Init, OneShot!Init, OneShot!Unbound, Status, StatusOf, Bound

\* A step that issues a code issues it in OneShotCodes, where the codes the purge
\* drops lapse at the same time.
LEMMA IssueStep ==
  ASSUME Inv, NEW r \in Redirects, NEW v \in Verifiers, Authorize(r, Challenge(v))
  PROVE  OneShot!Next
<1>0. TypeOK /\ Ledger
  BY DEF Inv
<1>1. live \in Providers /\ Store(live) \subseteq stored /\ Kept(live) \subseteq Store(live)
  BY <1>0 DEF Authorize, TypeOK, Store, Kept
<1>2. CASE stored' = (stored \ Store(live)) \cup Kept(live) /\ UNCHANGED <<age, issued>>
  <2>1. OneShot!Lapse
    BY <1>1, <1>2, Lapses DEF Authorize
  <2> QED
    BY <2>1 DEF OneShot!Next
<1>3. CASE \E c \in Codes :
             /\ issued[c] = NoEntry
             /\ stored' = (stored \ Store(live)) \cup Kept(live) \cup {c}
             /\ age' = [age EXCEPT ![c] = 0]
             /\ issued' = [issued EXCEPT ![c] = [provider |-> live, redirect |-> r,
                                                 challenge |-> Challenge(v)]]
  <2>1. PICK c \in Codes :
             /\ issued[c] = NoEntry
             /\ stored' = (stored \ Store(live)) \cup Kept(live) \cup {c}
             /\ age' = [age EXCEPT ![c] = 0]
             /\ issued' = [issued EXCEPT ![c] = [provider |-> live, redirect |-> r,
                                                 challenge |-> Challenge(v)]]
    BY <1>3
  <2> DEFINE g == [provider |-> live, redirect |-> r, challenge |-> Challenge(v)]
             b == [redirect |-> r, challenge |-> Challenge(v)]
             S == {d \in Codes : Status[d] = "pending" /\ Status'[d] # "pending"}
  <2>2. redeemed' = redeemed
    BY DEF Authorize
  <2>3. g # NoEntry
    BY <1>1, GrantNotEmpty DEF Grants
  <2>4. Status[c] = "unissued" /\ Status'[c] = "pending" /\ issued'[c] = g
    <3>1. issued'[c] = g /\ c \in stored' /\ age'[c] = 0
      BY <2>1, <1>0 DEF TypeOK
    <3> QED
      BY <2>1, <2>3, <3>1, StatusCases, NextStatusCases
  <2>5. \A d \in Codes \ {c} : Status'[d] = IF d \in S THEN "lapsed" ELSE Status[d]
    <3> TAKE d \in Codes \ {c}
    <3>1. /\ issued'[d] = issued[d] /\ age'[d] = age[d]
          /\ d \in stored' => d \in stored
      BY <1>0, <1>1, <2>1 DEF TypeOK
    <3>2. /\ d \in redeemed => issued[d] # NoEntry /\ d \notin stored
          /\ d \in stored => issued[d] # NoEntry
      BY <1>0 DEF Ledger
    <3> QED
      BY <2>2, <3>1, <3>2, StatusCases, NextStatusCases
  <2>6. Status' = [OneShot!Lapsed(S) EXCEPT ![c] = "pending"]
    <3>1. Status' = [d \in Codes |-> Status'[d]]
      BY DEF Status
    <3> HIDE DEF S
    <3> QED
      BY <2>4, <2>5, <3>1 DEF OneShot!Lapsed
  <2>7. S \in SUBSET OneShot!Pending
    BY DEF OneShot!Pending
  <2>8. Bound' = [Bound EXCEPT ![c] = b]
    <3>1. issued'[c] = g /\ \A d \in Codes \ {c} : issued'[d] = issued[d]
      BY <2>1, <1>0 DEF TypeOK
    <3>2. Bound'[c] = b
      BY <2>3, <3>1 DEF Bound
    <3>3. \A d \in Codes \ {c} : Bound'[d] = Bound[d]
      BY <3>1 DEF Bound
    <3>4. Bound' = [d \in Codes |-> Bound'[d]] /\ Bound = [d \in Codes |-> Bound[d]]
      BY DEF Bound
    <3> HIDE DEF b, g
    <3> QED
      BY <3>2, <3>3, <3>4
  <2>9. b \in OneShot!Bindings
    BY DEF OneShot!Bindings
  <2>10. OneShot!Issue(c, b)
    BY <2>4, <2>6, <2>7, <2>8 DEF OneShot!Issue
  <2> QED
    BY <2>9, <2>10 DEF OneShot!Next
<1> QED
  BY <1>2, <1>3 DEF Authorize

\* A step that consumes a code redeems it or lets it lapse.
LEMMA RedeemStep ==
  ASSUME Inv, NEW q \in Requests, NEW c \in Codes, NEW r \in Redirects,
         NEW v \in Verifiers \cup {Malformed}, Consume(q, c, r, v)
  PROVE  OneShot!Next
<1>0. TypeOK /\ Ledger
  BY DEF Inv
<1>1. CASE redeemed' = redeemed
  <2>1. UNCHANGED <<age, issued>> /\ stored' \subseteq stored
    BY ConsumeEffect
  <2>2. OneShot!Lapse
    BY <1>1, <2>1, Lapses
  <2> QED
    BY <2>2 DEF OneShot!Next
<1>2. CASE redeemed' # redeemed
  <2>1. /\ UNCHANGED <<age, issued>> /\ c \in stored /\ v \in Verifiers
        /\ stored' = stored \ {c} /\ redeemed' = redeemed \cup {c} /\ Redeemable(c, r, v)
    BY <1>2, ConsumeEffect
  <2>2. issued[c] # NoEntry /\ issued[c] \in Grants
    BY <1>0, <2>1 DEF Ledger, TypeOK
  <2>3. Status[c] = "pending" /\ Status'[c] = "redeemed"
    BY <2>1, <2>2, StatusCases, NextStatusCases DEF Redeemable
  <2>4. \A d \in Codes \ {c} : Status'[d] = Status[d]
    BY <2>1 DEF Status, StatusOf
  <2>5. Status' = [Status EXCEPT ![c] = "redeemed"]
    <3>1. Status' = [d \in Codes |-> Status'[d]] /\ Status = [d \in Codes |-> Status[d]]
      BY DEF Status
    <3> QED
      BY <2>3, <2>4, <3>1
  <2>6. Bound' = Bound /\ Bound[c] = [redirect |-> r, challenge |-> Challenge(v)]
    BY <2>1, <2>2 DEF Bound, Redeemable
  <2>7. OneShot!Redeem(c, r, v)
    BY <2>3, <2>5, <2>6 DEF OneShot!Redeem
  <2> QED
    BY <2>1, <2>7 DEF OneShot!Next
<1> QED
  BY <1>1, <1>2

LEMMA ShotStep == Inv /\ [Next]_vars => [OneShot!Next]_(OneShot!vars)
<1> SUFFICES ASSUME Inv, [Next]_vars PROVE [OneShot!Next]_(OneShot!vars)
  OBVIOUS
<1>1. CASE UNCHANGED <<stored, age, issued, redeemed>>
  BY <1>1 DEF OneShot!vars, Status, StatusOf, Bound
<1>2. CASE Tick
  <2>1. \A c \in Codes : age[c] \in 0 .. TTL + 1
    BY DEF Inv, TypeOK
  <2>2. /\ \A c \in Codes : age'[c] <= TTL => age[c] <= TTL
        /\ \A c \in Codes : c \notin stored => age'[c] = age[c]
    BY <1>2, <2>1 DEF Tick
  <2>3. OneShot!Lapse
    BY <1>2, <2>2, Lapses DEF Tick
  <2> QED
    BY <2>3 DEF OneShot!Next
<1>3. CASE \E r \in Redirects, v \in Verifiers : Authorize(r, Challenge(v))
  BY <1>3, IssueStep
<1>4. CASE \E q \in Requests, c \in Codes, r \in Redirects, v \in Verifiers \cup {Malformed} :
             Consume(q, c, r, v)
  BY <1>4, RedeemStep
<1> QED
  BY <1>1, <1>2, <1>3, <1>4
     DEF Next, Register, Unregister, TokenArrives, TokenRefused, vars

\* The stores and the views implement OneShotCodes: each code is redeemed at
\* most once, in its lifetime, with its redirect and its verifier.
THEOREM CodesAreOneShot == Spec => ImplementsOneShot
<1>1. Init => OneShot!Init
  BY ShotInit
<1>2. Inv /\ [Next]_vars => [OneShot!Next]_(OneShot!vars)
  BY ShotStep
<1> QED
  BY <1>1, <1>2, Invariance, PTL DEF Spec, ImplementsOneShot, OneShot!Spec
=============================================================================
