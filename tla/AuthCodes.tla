------------------------------ MODULE AuthCodes ------------------------------
(***************************************************************************)
(* The authorization server of none mode: PKCECodeStore (oauth_common.py)  *)
(* behind the authorize and token views (oauth_autoapprove.py).            *)
(*                                                                         *)
(* Each registration of the webhook builds a provider with a store of its  *)
(* own.  The authorize view runs without an await.  The token view looks   *)
(* up the provider, awaits the body of the request, and only then consumes *)
(* the code, so other requests, the clock and a reload come in between.    *)
(*                                                                         *)
(* Only how long ago a code was issued matters, so a code carries its age; *)
(* an age beyond the lifetime is not told apart from any greater one.      *)
(***************************************************************************)
EXTENDS Integers, FiniteSets

CONSTANTS Codes,        \* the codes the store may draw, none twice
          Redirects,    \* redirect URIs
          Verifiers,    \* well-formed PKCE verifiers
          Requests,     \* token requests that may be in flight at once
          MaxProviders, \* bound: how many registrations a behaviour has
          Cap,          \* MAX_PENDING_CODES
          TTL           \* AUTH_CODE_TTL

Providers == 1 .. MaxProviders
NoProvider == 0
Malformed == "malformed"

ASSUME CodesAssumption == IsFiniteSet(Codes)
ASSUME BoundsAssumption == MaxProviders \in Nat /\ Cap \in Nat \ {0} /\ TTL \in Nat \ {0}
ASSUME VerifierAssumption == Malformed \notin Verifiers

\* S256: one challenge for each verifier, and from it no other verifier
Challenge(v) == [s256 |-> v]

NoEntry == [provider |-> NoProvider]
Grants == [provider : Providers, redirect : Redirects,
           challenge : {Challenge(v) : v \in Verifiers}]

VARIABLES
  live,      \* the provider of the registration in hass.data
  built,     \* how many providers were built
  stored,    \* the codes in the stores
  age,       \* how long ago each stored code was issued
  arrived,   \* the provider each token request in flight has looked up
  issued,    \* history: what each code was issued for
  redeemed   \* history: the codes an access token was issued for

vars == <<live, built, stored, age, arrived, issued, redeemed>>

Init ==
  /\ live = NoProvider /\ built = 0
  /\ stored = {}
  /\ age = [c \in Codes |-> 0]
  /\ arrived = [q \in Requests |-> NoProvider]
  /\ issued = [c \in Codes |-> NoEntry]
  /\ redeemed = {}

\* PKCECodeStore._codes of a provider
Store(p) == {c \in stored : issued[c].provider = p}

\* Mutant of Kept: an expired code is kept when a new one is asked for
Kept_Expired(p) == {c \in Store(p) : age[c] <= TTL + 1}

\* The codes that survive the purge: those whose expiry is after now
Kept(p) == {c \in Store(p) : age[c] < TTL}

-----------------------------------------------------------------------------
\* async_register_webhook in none mode builds a provider
Register ==
  /\ live = NoProvider /\ built < MaxProviders
  /\ live' = built + 1 /\ built' = built + 1
  /\ UNCHANGED <<stored, age, arrived, issued, redeemed>>

\* async_unregister_webhook drops it; requests in flight keep theirs
Unregister ==
  /\ live # NoProvider /\ live' = NoProvider
  /\ UNCHANGED <<built, stored, age, arrived, issued, redeemed>>

\* Mutant of Authorize: the view does not look whether a provider is live
Authorize_Unregistered(redirect, challenge) ==
  /\ Cardinality(Kept(live)) < Cap
  /\ \E c \in Codes :
       /\ issued[c] = NoEntry
       /\ stored' = (stored \ Store(live)) \cup Kept(live) \cup {c}
       /\ age' = [age EXCEPT ![c] = 0]
       /\ issued' = [issued EXCEPT ![c] = [provider |-> live, redirect |-> redirect,
                                           challenge |-> challenge]]
  /\ UNCHANGED <<live, built, arrived, redeemed>>

\* AutoApproveAuthorizeView.get: issue_code purges the store, and refuses at
\* the cap or issues a fresh code
Authorize(redirect, challenge) ==
  /\ live # NoProvider
  /\ \/ /\ Cardinality(Kept(live)) >= Cap
        /\ stored' = (stored \ Store(live)) \cup Kept(live)
        /\ UNCHANGED <<age, issued>>
     \/ /\ Cardinality(Kept(live)) < Cap
        /\ \E c \in Codes :
             /\ issued[c] = NoEntry
             /\ stored' = (stored \ Store(live)) \cup Kept(live) \cup {c}
             /\ age' = [age EXCEPT ![c] = 0]
             /\ issued' = [issued EXCEPT ![c] = [provider |-> live, redirect |-> redirect,
                                                 challenge |-> challenge]]
  /\ UNCHANGED <<live, built, arrived, redeemed>>

\* AutoApproveTokenView.post up to the await of the body
TokenArrives(q) ==
  /\ live # NoProvider /\ arrived[q] = NoProvider
  /\ arrived' = [arrived EXCEPT ![q] = live]
  /\ UNCHANGED <<live, built, stored, age, issued, redeemed>>

\* The body is no form, another grant type, or lacks a parameter
TokenRefused(q) ==
  /\ arrived[q] # NoProvider
  /\ arrived' = [arrived EXCEPT ![q] = NoProvider]
  /\ UNCHANGED <<live, built, stored, age, issued, redeemed>>

\* What consume_code compares after it has popped the code
Redeemable(c, redirect, verifier) ==
  /\ age[c] <= TTL
  /\ issued[c].redirect = redirect
  /\ issued[c].challenge = Challenge(verifier)

\* Mutant of Consume: the code is read but not popped
Consume_NeverPops(q, c, redirect, verifier) ==
  /\ arrived[q] # NoProvider
  /\ arrived' = [arrived EXCEPT ![q] = NoProvider]
  /\ IF verifier # Malformed /\ c \in Store(arrived[q])
       THEN redeemed' = IF Redeemable(c, redirect, verifier)
                          THEN redeemed \cup {c} ELSE redeemed
       ELSE UNCHANGED redeemed
  /\ UNCHANGED <<live, built, stored, age, issued>>

\* Mutant of Consume: the code is looked for in every store
Consume_AnyStore(q, c, redirect, verifier) ==
  /\ arrived[q] # NoProvider
  /\ arrived' = [arrived EXCEPT ![q] = NoProvider]
  /\ IF verifier # Malformed /\ c \in stored
       THEN /\ stored' = stored \ {c}
            /\ redeemed' = IF Redeemable(c, redirect, verifier)
                             THEN redeemed \cup {c} ELSE redeemed
       ELSE UNCHANGED <<stored, redeemed>>
  /\ UNCHANGED <<live, built, age, issued>>

\* The body is here: consume_code pops the code unless the verifier is
\* malformed, and an access token is issued if it was redeemable
Consume(q, c, redirect, verifier) ==
  /\ arrived[q] # NoProvider
  /\ arrived' = [arrived EXCEPT ![q] = NoProvider]
  /\ IF verifier # Malformed /\ c \in Store(arrived[q])
       THEN /\ stored' = stored \ {c}
            /\ redeemed' = IF Redeemable(c, redirect, verifier)
                             THEN redeemed \cup {c} ELSE redeemed
       ELSE UNCHANGED <<stored, redeemed>>
  /\ UNCHANGED <<live, built, age, issued>>

Tick ==
  /\ \E c \in stored : age[c] <= TTL
  /\ age' = [c \in Codes |-> IF c \in stored /\ age[c] <= TTL THEN age[c] + 1 ELSE age[c]]
  /\ UNCHANGED <<live, built, stored, arrived, issued, redeemed>>

Next ==
  \/ Register \/ Unregister \/ Tick
  \/ \E r \in Redirects, v \in Verifiers : Authorize(r, Challenge(v))
  \/ \E q \in Requests : TokenArrives(q) \/ TokenRefused(q)
  \/ \E q \in Requests, c \in Codes, r \in Redirects, v \in Verifiers \cup {Malformed} :
       Consume(q, c, r, v)

Spec == Init /\ [][Next]_vars

\* Time passes
FairSpec == Spec /\ WF_vars(Tick)

-----------------------------------------------------------------------------
TypeOK ==
  /\ live \in Providers \cup {NoProvider}
  /\ built \in 0 .. MaxProviders
  /\ stored \subseteq Codes
  /\ age \in [Codes -> 0 .. TTL + 1]
  /\ arrived \in [Requests -> Providers \cup {NoProvider}]
  /\ issued \in [Codes -> Grants \cup {NoEntry}]
  /\ redeemed \subseteq Codes

\* No store holds more than the cap, however authorizations, token requests,
\* expiries and registrations interleave (PKCECodeStore.issue_code).
StoreBounded == \A p \in Providers : Cardinality(Store(p)) <= Cap

\* A code is redeemed only while its provider is the live one or a request that
\* arrived while it was is still in flight: a code does not outlive its
\* registration for anyone else (AutoApproveTokenView.post).
RedeemedUnderIssuer ==
  [][\A c \in redeemed' \ redeemed :
       \E q \in Requests : arrived[q] = issued[c].provider]_vars

\* What is left of a code
StatusOf(c) ==
  IF issued[c] = NoEntry THEN "unissued"
  ELSE IF c \in stored /\ age[c] <= TTL THEN "pending"
  ELSE IF c \notin stored /\ c \in redeemed THEN "redeemed"
  ELSE "lapsed"

Status == [c \in Codes |-> StatusOf(c)]

Bound ==
  [c \in Codes |->
     IF issued[c] = NoEntry THEN [redirect |-> "none", challenge |-> "none"]
     ELSE [redirect |-> issued[c].redirect, challenge |-> issued[c].challenge]]

OneShot == INSTANCE OneShotCodes WITH status <- Status, bound <- Bound

\* The stores, their purges and the two views keep the promise of OneShotCodes:
\* a code is redeemed at most once, in its lifetime, by its holder.
ImplementsOneShot == OneShot!Spec

\* A store at the cap is not closed for good: unless the registration ends, it
\* takes a code again when time passes ("self-healing", AutoApproveAuthorizeView).
Accepts == live # NoProvider => Cardinality(Kept(live)) < Cap
StoreHeals == ~Accepts ~> Accepts

-----------------------------------------------------------------------------
(* The inductive invariant.                                                 *)

\* Only issued codes are stored or redeemed, and a redeemed one is gone from
\* its store.
Ledger ==
  /\ \A c \in stored : issued[c] # NoEntry
  /\ \A c \in redeemed : issued[c] # NoEntry /\ c \notin stored

Inv == TypeOK /\ StoreBounded /\ Ledger
=============================================================================
