------------------------- MODULE RefreshIdentityProofs -------------------------
(***************************************************************************)
(* Theorems about RefreshIdentity, for all redirects, clients, documents,  *)
(* sessions and keys, in every regime.                                     *)
(***************************************************************************)
EXTENDS RefreshIdentity, TLAPS

\* Resolving a client_id yields an identity.
LEMMA ResolveType ==
  ASSUME NEW id \in Ids, NEW r \in Redirects, NEW doc
  PROVE  Resolve(id, r, doc) \in Identities
  BY DEF Resolve, Identities, Origins

\* A registration or a document names a set of known redirects.
LEMMA RegisteredType ==
  ASSUME TypeOK, NEW id \in Ids, NEW doc \in Fetched(id)
  PROVE  Registered(id, doc) \subseteq Redirects
<1> USE ListsAssumption DEF NoList
<1>1. CASE id \in UrlClients
  <2>1. doc \in Lists \cup {NoList}
    BY <1>1 DEF Fetched, TypeOK
  <2> QED
    BY <1>1, <2>1 DEF Registered
<1>2. CASE id \notin UrlClients
  <2>1. id.list \in Lists
    BY <1>2 DEF Ids, DcrIds
  <2> QED
    BY <1>2, <2>1 DEF Registered
<1> QED
  BY <1>1, <1>2

\* Deriving an identity without a redirect yields one, or says it cannot.
LEMMA DerivedType ==
  ASSUME TypeOK, NEW id \in Ids, NEW doc \in Fetched(id)
  PROVE  Derived(id, doc) \in Identities \cup {Unreproducible}
<1> DEFINE list == Registered(id, doc)
<1>1. ASSUME Reproducible(list)
      PROVE  [origin |-> CHOOSE o \in WebOrigins(list) : TRUE] \in Origins
  <2>1. WebOrigins(list) # {}
    BY <1>1 DEF Reproducible, OneWebOrigin
  <2>2. (CHOOSE o \in WebOrigins(list) : TRUE) \in WebOrigins(list)
    BY <2>1
  <2>3. \A o \in WebOrigins(list) : [origin |-> o] \in Origins
    BY RegisteredType DEF WebOrigins, Origins
  <2> QED
    BY <2>2, <2>3
<1>2. id \in Identities
  BY DEF Identities
<1> HIDE DEF list
<1>3. Derived(id, doc) \in {id, Unreproducible}
        \/ (Reproducible(list)
              /\ Derived(id, doc) = [origin |-> CHOOSE o \in WebOrigins(list) : TRUE])
  BY DEF Derived, list
<1> QED
  BY <1>1, <1>2, <1>3 DEF Identities

\* What a bare refresh token is forwarded under is an identity.
LEMMA BareType ==
  ASSUME TypeOK, NEW id \in Ids, NEW r \in Redirects, NEW b \in BOOLEAN,
         NEW doc \in Fetched(id), NEW i \in Bare(id, r, b, doc)
  PROVE  i \in Identities
  BY ResolveType, DerivedType DEF Bare

\* Home Assistant's own token is no envelope.
LEMMA RawIsBare == ~Raw.sealed
  BY DEF Raw

\* What is sealed around an identity is an envelope with that content.
LEMMA SealType ==
  ASSUME TypeOK, NEW id \in Ids, NEW forward \in Identities
  PROVE  /\ Seal(id, forward) \in Envelopes
         /\ Seal(id, forward).forward = forward
         /\ Seal(id, forward).presenter = id
  BY DEF Seal, Envelopes, TypeOK

LEMMA InitInv == Init => Inv
<1> SUFFICES ASSUME Init PROVE Inv
  OBVIOUS
<1>1. \A s \in Legacy : s \in Known /\ s.token = Raw /\ s.stage = "held"
  <2> SUFFICES ASSUME NEW s \in Legacy
               PROVE  s \in Known /\ s.token = Raw /\ s.stage = "held"
    OBVIOUS
  <2>1. PICK t \in Ids \X Redirects \X Identities :
          s = Authorized(t[1], t[2], t[3], TRUE, "held")
    BY DEF Legacy
  <2> QED
    BY <2>1 DEF Authorized, Known, Stages
<1>2. TypeOK
  BY <1>1, KeysAssumption DEF Init, TypeOK, Keys
<1>3. \A s \in Sessions : session[s] = Idle \/ session[s] \in Legacy
  BY DEF Init
<1>4. Sealing
  BY <1>1, <1>3 DEF Sealing, Raw
<1>5. AskedInTurn /\ EnvelopesNameTheirGrant
  BY DEF Init, AskedInTurn, EnvelopesNameTheirGrant
<1>6. RevokedIsGone
  BY <1>1, <1>3 DEF RevokedIsGone, Idle
<1> QED
  BY <1>2, <1>4, <1>5, <1>6 DEF Inv

-----------------------------------------------------------------------------
(* One lemma for each action.                                               *)

LEMMA RotateStep == ASSUME Inv, RotateKey PROVE Inv'
<1>1. key' \in Keys
  BY KeysAssumption DEF Inv, TypeOK, RotateKey, Keys
<1> QED
  BY <1>1 DEF Inv, TypeOK, Sealing, AskedInTurn, EnvelopesNameTheirGrant, RevokedIsGone, RotateKey

LEMMA AuthorizeStep ==
  ASSUME Inv, NEW s \in Sessions, NEW id \in Ids, NEW r \in Redirects, Authorize(s, id, r)
  PROVE  Inv'
<1> USE DEF Inv
<1>1. PICK i \in Identities :
        session' = [session EXCEPT ![s] = Authorized(id, r, i, FALSE, "coded")]
  BY ResolveType DEF Authorize
<1>2. /\ Authorized(id, r, i, FALSE, "coded") \in Known
      /\ Authorized(id, r, i, FALSE, "coded").token = Raw
      /\ Authorized(id, r, i, FALSE, "coded").stage = "coded"
  BY DEF Authorized, Known, Stages
<1>3. TypeOK'
  BY <1>1, <1>2 DEF TypeOK, Authorize
<1>4. /\ session'[s] = Authorized(id, r, i, FALSE, "coded")
      /\ \A t \in Sessions \ {s} : session'[t] = session[t]
      /\ UNCHANGED <<granted, asked>>
  BY <1>1 DEF TypeOK, Authorize
<1>5. Sealing'
  <2>1. ~session'[s].token.sealed
    BY <1>2, <1>4, RawIsBare
  <2> QED
    BY <1>4, <2>1 DEF Sealing
<1>6. asked # NoAsk => asked.of \in Sessions /\ asked.of # s
  BY DEF TypeOK, Asks, AskedInTurn, Authorize
<1>7. AskedInTurn' /\ EnvelopesNameTheirGrant'
  BY <1>4, <1>6 DEF AskedInTurn, EnvelopesNameTheirGrant
<1>8. RevokedIsGone'
  BY <1>2, <1>4 DEF RevokedIsGone
<1> QED
  BY <1>3, <1>5, <1>7, <1>8

LEMMA ExchangeStep ==
  ASSUME Inv, NEW s \in Sessions, Exchange(s)
  PROVE  Inv'
<1> USE DEF Inv
<1> DEFINE id == session[s].id
<1>1. session[s] \in Known /\ session[s] # Idle /\ session[s].stage = "coded"
  BY DEF TypeOK, Exchange
<1>2. id \in Ids /\ session[s].redirect \in Redirects
  BY <1>1 DEF Known
<1>3. PICK forward \in Identities, token \in Envelopes \cup {Raw} :
        /\ token \in {Seal(id, forward), Raw}
        /\ asked' = [leg |-> "code", of |-> s, by |-> id, as |-> forward]
        /\ \/ /\ forward = session[s].bound
              /\ granted' = granted \cup {s}
              /\ \/ session' = [session EXCEPT ![s].stage = "held", ![s].token = token]
                 \/ session' = [session EXCEPT ![s].stage = "over"]
           \/ UNCHANGED <<session, granted>>
  <2>1. PICK doc \in Fetched(id), again \in Fetched(id) : ExchangeBy(s, doc, again)
    BY DEF Exchange, ExchangeBy
  <2> DEFINE forward == Resolve(id, session[s].redirect, doc)
             token == IF forward # id \/ ForcesProxy(id, again) THEN Seal(id, forward) ELSE Raw
  <2>2. forward \in Identities
    BY <1>2, ResolveType
  <2>3. token \in {Seal(id, forward), Raw} /\ token \in Envelopes \cup {Raw}
    BY <1>2, <2>2, SealType
  <2> HIDE DEF id
  <2>4. /\ asked' = [leg |-> "code", of |-> s, by |-> id, as |-> forward]
        /\ \/ /\ forward = session[s].bound
              /\ granted' = granted \cup {s}
              /\ \/ session' = [session EXCEPT ![s].stage = "held", ![s].token = token]
                 \/ session' = [session EXCEPT ![s].stage = "over"]
           \/ UNCHANGED <<session, granted>>
    BY <2>1 DEF ExchangeBy, id
  <2> HIDE DEF forward, token
  <2> QED
    BY <2>2, <2>3, <2>4
<1>4. token.sealed => token.forward = forward /\ token.presenter = id
  BY <1>2, <1>3, SealType, RawIsBare
<1>5. UNCHANGED <<regime, key, document>>
  BY DEF Exchange
<1>6. /\ session' = [session EXCEPT ![s] = session'[s]]
      /\ \A t \in Sessions \ {s} : session'[t] = session[t]
      /\ session'[s] \in Known /\ session'[s].id = id /\ session'[s].bound = session[s].bound
      /\ session'[s].stage \in {"coded", "held", "over"}
      /\ session'[s].token \in {session[s].token, token}
      /\ session'[s].token = session[s].token \/ forward = session[s].bound
  BY <1>1, <1>3 DEF TypeOK, Known, Stages
<1>7. TypeOK'
  BY <1>2, <1>3, <1>5, <1>6 DEF TypeOK, Asks
<1>8. session'[s] # Idle
  BY <1>6 DEF Idle
<1>9. Sealing'
  <2>1. session'[s].token.sealed =>
          session'[s].token.forward = session'[s].bound /\ session'[s].token.presenter = id
    BY <1>1, <1>4, <1>6 DEF Sealing
  <2> QED
    BY <1>6, <2>1 DEF Sealing
<1>10. AskedInTurn' /\ EnvelopesNameTheirGrant'
  BY <1>3, <1>8 DEF AskedInTurn, EnvelopesNameTheirGrant
<1>11. RevokedIsGone'
  BY <1>3, <1>6 DEF RevokedIsGone
<1> QED
  BY <1>7, <1>9, <1>10, <1>11

LEMMA RefreshStep ==
  ASSUME Inv, NEW s \in Sessions, NEW presenter \in Ids, NEW b \in BOOLEAN,
         Refresh(s, presenter, b)
  PROVE  Inv'
<1> USE DEF Inv
<1> DEFINE token == session[s].token
           Candidates(doc) ==
             IF token.sealed THEN {i \in {token.forward} : Verifies(token, presenter)}
             ELSE Bare(presenter, session[s].redirect, b, doc)
<1>0. PICK doc \in Fetched(presenter) :
        \E forward \in Candidates(doc) :
          asked' = [leg |-> "refresh", of |-> s, by |-> presenter, as |-> forward]
  BY DEF Refresh
<1>1. session[s] \in Known /\ session[s] # Idle /\ session[s].stage = "held"
  BY DEF TypeOK, Refresh
<1>2. PICK forward \in Candidates(doc) :
        asked' = [leg |-> "refresh", of |-> s, by |-> presenter, as |-> forward]
  BY <1>0
<1>3. session[s].token.sealed => forward = session[s].bound /\ presenter = session[s].id
  BY <1>1, <1>2 DEF Sealing, Verifies
<1>4. forward \in Identities
  BY <1>1, <1>2, <1>3, BareType DEF Known
<1>5. UNCHANGED <<regime, key, document, session, granted>>
  BY DEF Refresh
<1>6. TypeOK'
  BY <1>2, <1>4, <1>5 DEF TypeOK, Asks
<1>7. AskedInTurn' /\ EnvelopesNameTheirGrant'
  BY <1>1, <1>2, <1>3, <1>5 DEF AskedInTurn, EnvelopesNameTheirGrant
<1>8. Sealing' /\ RevokedIsGone'
  BY <1>5 DEF Sealing, RevokedIsGone
<1> QED
  BY <1>6, <1>7, <1>8

LEMMA RevokeStep ==
  ASSUME Inv, NEW s \in Sessions, Revoke(s)
  PROVE  Inv'
<1> USE DEF Inv
<1>1. session[s] \in Known /\ session[s] # Idle /\ session[s].stage = "held"
  BY DEF TypeOK, Revoke
<1>2. /\ session'[s] \in Known /\ session'[s].stage \in {"held", "revoked"}
      /\ session'[s].id = session[s].id /\ session'[s].bound = session[s].bound
      /\ session'[s].token = session[s].token
      /\ \A t \in Sessions \ {s} : session'[t] = session[t]
  BY <1>1 DEF Revoke, TypeOK, Known, Stages
<1>3. UNCHANGED <<regime, key, document, asked>> /\ granted' \subseteq granted
  BY DEF Revoke
<1>4. session' = [session EXCEPT ![s] = session'[s]]
  BY DEF Revoke, TypeOK
<1>5. TypeOK'
  BY <1>2, <1>3, <1>4 DEF TypeOK
<1>6. session'[s] # Idle
  BY <1>2 DEF Idle
<1>7. Sealing'
  BY <1>1, <1>2 DEF Sealing
<1>8. asked # NoAsk => asked.of \in Sessions
  BY DEF TypeOK, Asks
<1>9. AskedInTurn' /\ EnvelopesNameTheirGrant'
  BY <1>2, <1>3, <1>6, <1>8 DEF AskedInTurn, EnvelopesNameTheirGrant
<1>10. session[s].bound \notin Long => s \notin granted'
  BY <1>1 DEF Revoke, Recovers, Sealing
<1>11. RevokedIsGone'
  BY <1>2, <1>3, <1>10 DEF RevokedIsGone
<1> QED
  BY <1>5, <1>7, <1>9, <1>11

-----------------------------------------------------------------------------
THEOREM Invariance == Spec => []Inv
<1>1. Inv /\ [Next]_vars => Inv'
  <2> SUFFICES ASSUME Inv, [Next]_vars PROVE Inv'
    OBVIOUS
  <2>1. CASE UNCHANGED vars
    BY <2>1 DEF Inv, vars, TypeOK, Sealing, AskedInTurn, EnvelopesNameTheirGrant, RevokedIsGone
  <2>2. CASE Next
    BY <2>2, RotateStep, AuthorizeStep, ExchangeStep, RefreshStep, RevokeStep DEF Next
  <2> QED
    BY <2>1, <2>2
<1> QED
  BY InitInv, <1>1, PTL DEF Spec

\* Keys, documents, sessions and what Home Assistant is asked are well typed; in
\* particular it is never asked as nobody.
THEOREM TypeCorrect == Spec => []TypeOK
<1>1. Inv => TypeOK
  BY DEF Inv
<1> QED
  BY Invariance, <1>1, PTL

\* A refresh by envelope names the identity the grant is bound to, and comes from
\* the envelope's own client.
THEOREM EnvelopesAreFaithful == Spec => []EnvelopesNameTheirGrant
<1>1. Inv => EnvelopesNameTheirGrant
  BY DEF Inv
<1> QED
  BY Invariance, <1>1, PTL

\* A revocation that is answered leaves no grant, across rotations of the key.
THEOREM RevocationIsHonest == Spec => []RevokedIsGone
<1>1. Inv => RevokedIsGone
  BY DEF Inv
<1> QED
  BY Invariance, <1>1, PTL

-----------------------------------------------------------------------------
(* While documents, keys and registrations are kept.                        *)

\* A fetch returns what it always returns, and a registration is readable.
LEMMA KeptFetch ==
  ASSUME TypeOK, Kept, regime = "kept", NEW id \in Ids, Minted(id),
         NEW doc \in Fetched(id)
  PROVE  /\ doc = Current(id)
         /\ Registered(id, doc) = IF id \in UrlClients THEN document[id] ELSE id.list
<1>1. doc = Current(id)
  BY DEF Fetched, Stable, Current
<1>2. id \notin UrlClients => id.key = key
  <2> SUFFICES ASSUME id \notin UrlClients PROVE id.key = key
    OBVIOUS
  <2>1. id.key \in Keys /\ id.key <= key /\ key = 1
    BY DEF Minted, Ids, DcrIds, Kept
  <2> QED
    BY <2>1, KeysAssumption DEF Keys
<1> QED
  BY <1>1, <1>2 DEF Registered, Current

\* For a redirect of the registration, what is derived without the redirect is
\* what the redirect resolves to, or nothing.
LEMMA DerivedAgrees ==
  ASSUME NEW id, NEW doc, NEW r, Registered(id, doc) \subseteq Redirects,
         Matches(Registered(id, doc), r), Derived(id, doc) # Unreproducible
  PROVE  Derived(id, doc) = Resolve(id, r, doc)
<1> DEFINE list == Registered(id, doc)
<1>1. list # NoList
  BY DEF Matches, NoList
<1> HIDE DEF list
<1>2. Reproducible(list)
  BY <1>1 DEF Derived, list
<1>3. r \in list /\ ~r.loopback
  BY <1>2 DEF Matches, Reproducible, list
<1>4. CASE SameOrigin(id, r)
  <2>1. \A q \in list : SameOrigin(id, q)
    BY <1>1, <1>2, <1>3, <1>4 DEF Derived, list
  <2> QED
    BY <1>1, <1>2, <1>4, <2>1 DEF Derived, Resolve, list
<1>5. CASE ~SameOrigin(id, r)
  <2>1. ~(\E q \in list : SameOrigin(id, q)) /\ ~(\A q \in list : SameOrigin(id, q))
    BY <1>1, <1>2, <1>3, <1>5 DEF Derived, list
  <2>2. WebOrigins(list) = {r.canon}
    BY <1>2, <1>3 DEF Reproducible, OneWebOrigin, WebOrigins
  <2>3. (CHOOSE o \in WebOrigins(list) : TRUE) = r.canon
    BY <2>2
  <2>4. Derived(id, doc) = [origin |-> r.canon]
    BY <1>1, <1>2, <2>1, <2>3 DEF Derived, list
  <2>5. Resolve(id, r, doc) = [origin |-> r.canon]
    BY <1>5 DEF Resolve
  <2> QED
    BY <2>4, <2>5
<1> QED
  BY <1>4, <1>5

\* A client with a readable registration resolves to the identity of its grant,
\* with the redirect or, if that can be told, without.
LEMMA KeptSession ==
  ASSUME TypeOK, Kept, regime = "kept", NEW s \in Sessions, session[s] # Idle,
         NEW doc \in Fetched(session[s].id)
  PROVE  /\ Resolve(session[s].id, session[s].redirect, doc) = session[s].bound
         /\ Derived(session[s].id, doc) \in {session[s].bound, Unreproducible}
         /\ Matches(Registered(session[s].id, doc), session[s].redirect)
<1> DEFINE id == session[s].id
           r == session[s].redirect
<1>1. session[s] \in Known
  BY DEF TypeOK
<1>2. id \in Ids /\ r \in Redirects
  BY <1>1 DEF Known
<1>3. Minted(id) /\ Presents(id, r) /\ session[s].bound = Resolve(id, r, Current(id))
  BY DEF Kept
<1>4. /\ doc = Current(id)
      /\ Registered(id, doc) = IF id \in UrlClients THEN document[id] ELSE id.list
  BY <1>2, <1>3, KeptFetch
<1>5. Matches(Registered(id, doc), r)
  BY <1>3, <1>4 DEF Presents, Unlisted
<1>6. Registered(id, doc) \subseteq Redirects
  BY <1>2, RegisteredType
<1>7. Derived(id, doc) # Unreproducible => Derived(id, doc) = Resolve(id, r, doc)
  BY <1>5, <1>6, DerivedAgrees
<1> QED
  BY <1>3, <1>4, <1>5, <1>7

\* What Kept and ReauthorizeSuffices say of an authorization
Bound(k) ==
  /\ Minted(k.id) /\ Presents(k.id, k.redirect)
  /\ k.bound = Resolve(k.id, k.redirect, Current(k.id))

Refreshable(k) ==
  k.stage = "held" /\ ~k.legacy /\ ~k.token.sealed =>
    \A doc \in Fetched(k.id) : Derived(k.id, doc) = k.bound

LEMMA KeptInit == Init => KeptInv
<1> SUFFICES ASSUME Init, regime = "kept" PROVE KeptInv
  BY DEF Init, KeptInv, Kept, NeverMisidentified, ReauthorizeSuffices
<1>1. NeverMisidentified
  BY DEF Init, NeverMisidentified
<1>2. \A k \in Legacy : Bound(k) /\ k.legacy
  <2> SUFFICES ASSUME NEW k \in Legacy PROVE Bound(k) /\ k.legacy
    OBVIOUS
  <2>1. PICK t \in Ids \X Redirects \X Identities :
          /\ k = Authorized(t[1], t[2], t[3], TRUE, "held")
          /\ Minted(t[1]) /\ Presents(t[1], t[2])
          /\ \E doc \in Fetched(t[1]) : t[3] = Resolve(t[1], t[2], doc)
    BY DEF Legacy
  <2>2. \A doc \in Fetched(t[1]) : doc = Current(t[1])
    BY DEF Fetched, Stable, Current
  <2>3. /\ k.id = t[1] /\ k.redirect = t[2] /\ k.bound = t[3] /\ k.legacy
    BY <2>1 DEF Authorized
  <2> QED
    BY <2>1, <2>2, <2>3 DEF Bound
<1>3. \A s \in Sessions : session[s] = Idle \/ session[s] \in Legacy
  BY DEF Init
<1>4. Kept
  BY <1>2, <1>3 DEF Kept, Bound, Init
<1>5. ReauthorizeSuffices
  <2>1. \A s \in Sessions : session[s].stage = "held" => session[s] \in Legacy
    BY <1>3 DEF Idle
  <2> QED
    BY <1>2, <2>1 DEF ReauthorizeSuffices
<1> QED
  BY <1>1, <1>4, <1>5 DEF KeptInv

\* While nothing the legs look at changes, an authorization stays what it is.
LEMMA KeptFrame ==
  ASSUME UNCHANGED <<regime, key, document>>, Kept, ReauthorizeSuffices, regime = "kept",
         \A t \in Sessions :
           \/ session'[t] = session[t]
           \/ session'[t] # Idle /\ Bound(session'[t]) /\ Refreshable(session'[t]),
         NeverMisidentified'
  PROVE  KeptInv'
<1>1. \A t \in Sessions : session'[t] # Idle => Bound(session'[t])
  BY DEF Kept, Bound
<1>2. \A t \in Sessions : Refreshable(session'[t])
  BY DEF ReauthorizeSuffices, Refreshable
<1>3. Kept'
  BY <1>1 DEF Kept, Bound, Minted, Presents, Unlisted, Resolve, SameOrigin, Matches, Registered,
       Current
<1>4. ReauthorizeSuffices'
  BY <1>2 DEF ReauthorizeSuffices, Refreshable, Fetched, Stable, Derived, Registered
<1> QED
  BY <1>3, <1>4 DEF KeptInv

LEMMA KeptAuthorize ==
  ASSUME Inv, KeptInv, regime = "kept",
         NEW s \in Sessions, NEW id \in Ids, NEW r \in Redirects, Authorize(s, id, r)
  PROVE  KeptInv'
<1>1. UNCHANGED <<regime, key, document, asked>> /\ session[s] = Idle
  BY DEF Authorize
<1>2. PICK doc \in Fetched(id) :
        session' = [session EXCEPT ![s] =
                      Authorized(id, r, Resolve(id, r, doc), FALSE, "coded")]
  BY DEF Authorize
<1>3. doc = Current(id)
  BY DEF Fetched, Stable, Current
<1>4. /\ session'[s] = Authorized(id, r, Resolve(id, r, doc), FALSE, "coded")
      /\ \A t \in Sessions \ {s} : session'[t] = session[t]
  BY <1>2 DEF Inv, TypeOK
<1>5. Bound(session'[s]) /\ Refreshable(session'[s]) /\ session'[s] # Idle
  BY <1>3, <1>4 DEF Authorized, Bound, Refreshable, Authorize, Idle
<1>6. NeverMisidentified'
  <2>1. asked # NoAsk => asked.of \in Sessions /\ asked.of # s
    BY <1>1 DEF Inv, TypeOK, Asks, AskedInTurn
  <2> QED
    BY <1>1, <1>4, <2>1 DEF KeptInv, NeverMisidentified
<1> QED
  BY <1>1, <1>4, <1>5, <1>6, KeptFrame DEF KeptInv

LEMMA KeptExchange ==
  ASSUME Inv, KeptInv, regime = "kept", NEW s \in Sessions, Exchange(s)
  PROVE  KeptInv'
<1> DEFINE k == session[s]
<1>1. /\ k \in Known /\ k # Idle /\ k.id \in Ids
      /\ UNCHANGED <<regime, key, document>>
  BY DEF Exchange, Inv, TypeOK, Known
<1>2. PICK doc \in Fetched(k.id), again \in Fetched(k.id) : ExchangeBy(s, doc, again)
  BY DEF Exchange
<1> DEFINE forward == Resolve(k.id, k.redirect, doc)
           proxied == forward # k.id \/ ForcesProxy(k.id, again)
           token == IF proxied THEN Seal(k.id, forward) ELSE Raw
<1>3. /\ asked' = [leg |-> "code", of |-> s, by |-> k.id, as |-> forward]
      /\ \/ session' = [session EXCEPT ![s].stage = "held", ![s].token = token]
         \/ session' = [session EXCEPT ![s].stage = "over"]
         \/ session' = session
  BY <1>2 DEF ExchangeBy
<1>4. /\ forward = k.bound /\ Bound(k)
      /\ Matches(Registered(k.id, doc), k.redirect)
      /\ \A d \in Fetched(k.id) :
           d = again /\ Derived(k.id, d) \in {k.bound, Unreproducible}
  BY <1>1, KeptSession DEF Inv, KeptInv, Kept, Bound, Fetched, Stable
<1>5. ASSUME ~proxied
      PROVE  \A d \in Fetched(k.id) : Derived(k.id, d) = k.bound
  <2>1. CASE k.id \in UrlClients
    BY <1>4, <1>5, <2>1 DEF ForcesProxy
  <2>2. CASE k.id \notin UrlClients
    <3>1. forward = [origin |-> k.redirect.canon]
      BY <1>4, <2>2 DEF Resolve, SameOrigin
    <3>2. k.id \in DcrIds
      BY <1>1, <2>2 DEF Ids
    <3>3. forward # k.id
      BY <3>1, <3>2 DEF DcrIds
    <3> QED
      BY <3>3, <1>5
  <2> QED
    BY <2>1, <2>2
<1>6. proxied => token.sealed
  BY DEF Seal
<1>7. ASSUME session' # session
      PROVE  /\ session'[s] # Idle /\ session'[s].bound = k.bound
             /\ Bound(session'[s]) /\ Refreshable(session'[s])
  <2>1. /\ session'[s].id = k.id /\ session'[s].redirect = k.redirect
        /\ session'[s].bound = k.bound /\ session'[s].legacy = k.legacy
        /\ \/ session'[s].stage = "held" /\ session'[s].token = token
           \/ session'[s].stage = "over"
    BY <1>1, <1>3, <1>7 DEF Inv, TypeOK, Known
  <2>2. session'[s] # Idle
    BY <2>1 DEF Idle
  <2>3. Bound(session'[s])
    BY <1>4, <2>1 DEF Bound
  <2>4. Refreshable(session'[s])
    BY <1>5, <1>6, <2>1 DEF Refreshable
  <2> QED
    BY <2>1, <2>2, <2>3, <2>4
<1>8. \A t \in Sessions \ {s} : session'[t] = session[t]
  BY <1>3 DEF Inv, TypeOK
<1>9. NeverMisidentified'
  BY <1>3, <1>4, <1>7 DEF NeverMisidentified
<1> QED
  BY <1>1, <1>7, <1>8, <1>9, KeptFrame DEF KeptInv

LEMMA KeptRefresh ==
  ASSUME Inv, KeptInv, regime = "kept", NEW s \in Sessions, NEW presenter \in Ids,
         NEW b \in BOOLEAN, Refresh(s, presenter, b)
  PROVE  KeptInv'
<1> DEFINE k == session[s]
           Candidates(doc) ==
             IF k.token.sealed THEN {i \in {k.token.forward} : Verifies(k.token, presenter)}
             ELSE Bare(presenter, k.redirect, b, doc)
<1>1. k # Idle /\ UNCHANGED <<regime, key, document, session>>
  BY DEF Refresh
<1>2. PICK doc \in Fetched(presenter) :
        \E forward \in Candidates(doc) :
          asked' = [leg |-> "refresh", of |-> s, by |-> presenter, as |-> forward]
  BY DEF Refresh
<1>3. PICK forward \in Candidates(doc) :
        asked' = [leg |-> "refresh", of |-> s, by |-> presenter, as |-> forward]
  BY <1>2
<1>4. presenter = k.id => forward = k.bound
  <2>1. CASE k.token.sealed
    BY <1>1, <1>3, <2>1 DEF Inv, Sealing
  <2>2. CASE ~k.token.sealed
    BY <1>1, <1>3, <2>2, KeptSession DEF Inv, KeptInv, Bare
  <2> QED
    BY <2>1, <2>2
<1>5. NeverMisidentified'
  BY <1>1, <1>3, <1>4 DEF NeverMisidentified
<1> QED
  BY <1>1, <1>5, KeptFrame DEF KeptInv

LEMMA KeptRevoke ==
  ASSUME Inv, KeptInv, regime = "kept", NEW s \in Sessions, Revoke(s)
  PROVE  KeptInv'
<1>1. /\ session[s] \in Known /\ session[s] # Idle
      /\ UNCHANGED <<regime, key, document, asked>>
      /\ session' \in {session, [session EXCEPT ![s].stage = "revoked"]}
  BY DEF Revoke, Inv, TypeOK
<1>2. \A t \in Sessions :
        \/ session'[t] = session[t]
        \/ /\ session'[t] # Idle /\ session'[t].stage = "revoked" /\ session[t] # Idle
           /\ session'[t].id = session[t].id /\ session'[t].redirect = session[t].redirect
           /\ session'[t].bound = session[t].bound
  BY <1>1 DEF Inv, TypeOK, Known, Idle
<1>3. \A t \in Sessions :
        \/ session'[t] = session[t]
        \/ session'[t] # Idle /\ Bound(session'[t]) /\ Refreshable(session'[t])
  BY <1>2 DEF KeptInv, Kept, Bound, Refreshable
<1>4. NeverMisidentified'
  <2>1. asked # NoAsk => asked.of \in Sessions /\ session[asked.of] # Idle
    BY DEF Inv, TypeOK, Asks, AskedInTurn
  <2> QED
    BY <1>1, <1>2, <2>1 DEF KeptInv, NeverMisidentified
<1> QED
  BY <1>1, <1>3, <1>4, KeptFrame DEF KeptInv

LEMMA KeptStep == Inv /\ KeptInv /\ [Next]_vars => KeptInv'
<1> SUFFICES ASSUME Inv, KeptInv, [Next]_vars PROVE KeptInv'
  OBVIOUS
<1>1. regime' = regime
  BY DEF Next, vars, RotateKey, Authorize, Exchange, Refresh, Revoke
<1>2. CASE regime # "kept"
  BY <1>1, <1>2 DEF KeptInv, Kept, NeverMisidentified, ReauthorizeSuffices
<1>3. CASE regime = "kept" /\ UNCHANGED vars
  <2>1. UNCHANGED <<regime, key, document, session, asked>>
    BY <1>3 DEF vars
  <2>2. NeverMisidentified'
    BY <2>1 DEF KeptInv, NeverMisidentified
  <2> QED
    BY <1>3, <2>1, <2>2, KeptFrame DEF KeptInv
<1>4. CASE regime = "kept" /\ Next
  BY <1>4, KeptAuthorize, KeptExchange, KeptRefresh, KeptRevoke DEF Next, RotateKey, Stable
<1> QED
  BY <1>2, <1>3, <1>4

LEMMA KeptInvariance == Spec => []KeptInv
  BY KeptInit, KeptStep, Invariance, PTL DEF Spec

\* While all is kept, no leg of a client that keeps to its registration is forwarded
\* under an identity other than its grant's, for all redirects, registrations and
\* documents (_ha_auth_forward_identity).
THEOREM IdentityIsExact == Spec => []NeverMisidentified
<1>1. KeptInv => NeverMisidentified
  BY DEF KeptInv
<1> QED
  BY KeptInvariance, <1>1, PTL

\* While all is kept, whoever has authorized since the envelope exists can refresh
\* without a redirect (_code_leg_forces_proxy).
THEOREM NewSessionsRefresh == Spec => []ReauthorizeSuffices
<1>1. KeptInv => ReauthorizeSuffices
  BY DEF KeptInv
<1> QED
  BY KeptInvariance, <1>1, PTL
=============================================================================
