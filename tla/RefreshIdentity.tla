--------------------------- MODULE RefreshIdentity ---------------------------
(***************************************************************************)
(* Whom Home Assistant takes a client for in ha_auth mode: the authorize,  *)
(* code, refresh and revocation legs (oauth_autoapprove.py), the client-id *)
(* translation and the refresh-token envelope (oauth_ha_auth.py) and the   *)
(* stateless registrations (oauth_dcr.py).                                 *)
(*                                                                         *)
(* Home Assistant binds a grant to the client_id of the authorize leg and  *)
(* later wants exactly that one.  This component may have put the origin   *)
(* of the redirect in its place, and keeps no record of that: each later   *)
(* leg derives the identity again, from the registration, the client's     *)
(* metadata document or the envelope around the refresh token.             *)
(*                                                                         *)
(* A URL is what the code compares of it.  An identity is a client_id, or  *)
(* an origin in the place of one.                                          *)
(***************************************************************************)
EXTENDS Integers

CONSTANTS Redirects,   \* records: spelled and canonical origin, site, loopback
          UrlClients,  \* client_ids that are https URLs
          OriginOf,    \* the spelled origin of each of them
          Lists,       \* the sets of redirects a client may register
          Sessions,    \* authorizations, one after another or at once
          Long,        \* identities too long for MAX_REVOKE_ENVELOPE_LEN
          MaxKeys,     \* bound: how many signing keys a behaviour has
          Regimes      \* what a behaviour may assume of the world

Keys == 1 .. MaxKeys
DcrIds == [list : Lists, key : Keys]
Ids == UrlClients \cup DcrIds
Origins == {[origin |-> r.canon] : r \in Redirects}
Identities == Ids \cup Origins
Unreproducible == [unreproducible |-> TRUE]
NoList == {}

ASSUME RedirectsAssumption ==
  Redirects \subseteq [origin : STRING, canon : STRING, site : STRING, loopback : BOOLEAN]
ASSUME ListsAssumption == Lists \subseteq SUBSET Redirects
ASSUME KeysAssumption == MaxKeys \in Nat \ {0}
ASSUME RegimesAssumption == Regimes \subseteq {"kept", "unlisted", "hostile"}

Raw == [sealed |-> FALSE]
Envelopes == [sealed : {TRUE}, key : Keys, forward : Identities, presenter : Ids]
Idle == [stage |-> "idle"]
Stages == {"coded", "held", "revoked", "over"}
Known == [stage : Stages, id : Ids, redirect : Redirects, bound : Identities,
          token : Envelopes \cup {Raw}, legacy : BOOLEAN]
NoAsk == [leg |-> "none"]

VARIABLES
  regime,    \* "kept": clients present redirects they registered, documents can be
             \* fetched, the key stays; "unlisted": any redirects; "hostile": neither
  key,       \* the signing key of the live registration
  document,  \* the redirects the metadata document of each URL client lists
  session,   \* how far each authorization is
  granted,   \* the sessions whose grant Home Assistant holds
  asked      \* what Home Assistant was last asked, by whom, and as whom

vars == <<regime, key, document, session, granted, asked>>

Stable == regime # "hostile"
Unlisted == regime # "kept"

-----------------------------------------------------------------------------
(* The operators of the code.                                               *)

\* What a fetch of a client's document may return; NoList stands for a failed
\* fetch, an invalid document and a client_id that has none
Fetched(id) ==
  IF id \notin UrlClients THEN {NoList}
  ELSE IF Stable THEN {document[id]} ELSE Lists \cup {NoList}

\* The redirects behind a client_id: those a registration signed with the
\* current key embeds, or those of the document
Registered(id, doc) ==
  IF id \in UrlClients THEN doc
  ELSE IF id.key = key THEN id.list ELSE NoList

\* redirect_matches: exact, or loopback whatever the port
Matches(list, r) ==
  r \in list \/ (r.loopback /\ \E e \in list : e.loopback /\ e.site = r.site)

\* mint_client_id: registrations are signed with the key of their time
Minted(id) == id \notin UrlClients => id.key <= key

SameOrigin(id, r) == id \in UrlClients /\ OriginOf[id] = r.origin

\* resolve_forward_client_id: the same-origin fast path does not look at the
\* registration
Resolve(id, r, doc) ==
  IF SameOrigin(id, r) \/ ~Matches(Registered(id, doc), r) THEN id
  ELSE [origin |-> r.canon]

WebOrigins(list) == {r.canon : r \in {e \in list : ~e.loopback}}

OneWebOrigin(list) == \E o \in WebOrigins(list) : WebOrigins(list) = {o}

\* Mutant of Reproducible: loopback redirects are overlooked
Reproducible_AmongWeb(list) == OneWebOrigin(list)

\* _refresh_identity_is_reproducible
Reproducible(list) == OneWebOrigin(list) /\ \A r \in list : ~r.loopback

\* translated_client_id_for_refresh: the identity without a redirect to go by
Derived(id, doc) ==
  LET list == Registered(id, doc)
  IN IF list = NoList THEN id
     ELSE IF ~Reproducible(list) THEN Unreproducible
     ELSE IF \A r \in list : SameOrigin(id, r) THEN id
     ELSE IF \E r \in list : SameOrigin(id, r) THEN Unreproducible
     ELSE [origin |-> CHOOSE o \in WebOrigins(list) : TRUE]

\* Mutant of ForcesProxy: untranslated code exchanges are never proxied
ForcesProxy_Never(id, doc) == FALSE

\* _code_leg_forces_proxy
ForcesProxy(id, doc) == id \in UrlClients /\ Derived(id, doc) = Unreproducible

\* Mutant of Seal: the envelope names the client_id the client presented
Seal_Presented(id, forward) ==
  [sealed |-> TRUE, key |-> key, forward |-> id, presenter |-> id]

\* wrap_refresh_token
Seal(id, forward) ==
  [sealed |-> TRUE, key |-> key, forward |-> forward, presenter |-> id]

\* unwrap_refresh_token
Verifies(token, presenter) == token.key = key /\ token.presenter = presenter

\* Mutant of Recovers: only a verified envelope gives up its token
Recovers_Verified(token) == token.sealed => token.key = key

\* core_token_for_revocation: whether Home Assistant gets to see its own token.
\* An envelope gives it up even if its signature is of another key, unless it is
\* too long to be parsed unverified
Recovers(token) == token.sealed => token.key = key \/ token.forward \notin Long

\* Home Assistant's own rule at its authorize page: the client_id is a URL of
\* the redirect's origin, letter for letter
CoreAccepts(id, r) == SameOrigin(id, r) \/ (id \in Origins /\ id.origin = r.origin)

\* A client presents a redirect it has registered, or in the unlisted regime any
Presents(id, r) ==
  Unlisted \/ Matches(IF id \in UrlClients THEN document[id] ELSE id.list, r)

Authorized(id, r, identity, legacy, stage) ==
  [stage |-> stage, id |-> id, redirect |-> r, bound |-> identity, token |-> Raw,
   legacy |-> legacy]

-----------------------------------------------------------------------------
\* A session may date from before the envelope: its token is bare
Legacy ==
  {Authorized(t[1], t[2], t[3], TRUE, "held") :
     t \in {t \in Ids \X Redirects \X Identities :
              /\ Minted(t[1]) /\ Presents(t[1], t[2])
              /\ \E doc \in Fetched(t[1]) : t[3] = Resolve(t[1], t[2], doc)
              /\ CoreAccepts(t[3], t[2])}}

Init ==
  /\ regime \in Regimes
  /\ key = 1
  /\ document \in [UrlClients -> Lists \cup {NoList}]
  /\ session \in [Sessions -> {Idle} \cup Legacy]
  /\ granted = {s \in Sessions : session[s] # Idle}
  /\ asked = NoAsk

\* The secrets are regenerated, or the integration is removed and added again
RotateKey ==
  /\ ~Stable
  /\ key < MaxKeys /\ key' = key + 1
  /\ UNCHANGED <<regime, document, session, granted, asked>>

\* _ha_auth_authorize, and Home Assistant's page behind it
Authorize(s, id, r) ==
  /\ session[s] = Idle
  /\ Minted(id)
  /\ Presents(id, r)
  /\ \E doc \in Fetched(id) :
       LET identity == Resolve(id, r, doc)
       IN /\ CoreAccepts(identity, r)
          /\ session' = [session EXCEPT ![s] = Authorized(id, r, identity, FALSE, "coded")]
  /\ UNCHANGED <<regime, key, document, granted, asked>>

\* An exchange that fetched the document once to resolve the identity and, for a
\* client_id that stays, once more to see whether it can be derived later.  Home
\* Assistant finds no code under another identity and keeps the one it has.
ExchangeBy(s, doc, again) ==
  LET id == session[s].id
      forward == Resolve(id, session[s].redirect, doc)
      proxied == forward # id \/ ForcesProxy(id, again)
      token == IF proxied THEN Seal(id, forward) ELSE Raw
  IN /\ asked' = [leg |-> "code", of |-> s, by |-> id, as |-> forward]
     /\ \/ /\ forward = session[s].bound
           /\ granted' = granted \cup {s}
           /\ \/ session' = [session EXCEPT ![s].stage = "held", ![s].token = token]
              \/ session' = [session EXCEPT ![s].stage = "over"]  \* the answer is lost
        \/ forward # session[s].bound /\ UNCHANGED <<session, granted>>

\* _ha_auth_token with an authorization code: proxied if the identity is
\* translated or could not be derived later, else redirected
Exchange(s) ==
  /\ session[s] # Idle /\ session[s].stage = "coded"
  /\ \E doc \in Fetched(session[s].id), again \in Fetched(session[s].id) :
       ExchangeBy(s, doc, again)
  /\ UNCHANGED <<regime, key, document>>

\* Mutant of Bare: what cannot be derived is forwarded all the same
Bare_Unchecked(presenter, r, withRedirect, doc) ==
  {IF withRedirect THEN Resolve(presenter, r, doc) ELSE Derived(presenter, doc)}

\* The identity a bare refresh token is forwarded under: from the redirect if it
\* comes with one, else from the registration; none if that cannot tell
Bare(presenter, r, withRedirect, doc) ==
  {IF withRedirect THEN Resolve(presenter, r, doc) ELSE Derived(presenter, doc)}
    \ {Unreproducible}

\* _ha_auth_token with a refresh token: an envelope names the identity if it
\* verifies and is answered locally if not
Refresh(s, presenter, withRedirect) ==
  /\ session[s] # Idle /\ session[s].stage = "held"
  /\ Minted(presenter)
  /\ LET token == session[s].token
     IN \E doc \in Fetched(presenter) :
        \E forward \in IF token.sealed
                         THEN {i \in {token.forward} : Verifies(token, presenter)}
                         ELSE Bare(presenter, session[s].redirect, withRedirect, doc) :
          asked' = [leg |-> "refresh", of |-> s, by |-> presenter, as |-> forward]
  /\ UNCHANGED <<regime, key, document, session, granted>>

\* AutoApproveRevokeView.post, or action=revoke at the token view: Home Assistant
\* answers 200 whether or not it knows the token
Revoke(s) ==
  /\ session[s] # Idle /\ session[s].stage = "held"
  /\ \/ session' = [session EXCEPT ![s].stage = "revoked"]
     \/ UNCHANGED session  \* the answer is lost: 503, and the client retries
  /\ granted' = IF Recovers(session[s].token) THEN granted \ {s} ELSE granted
  /\ UNCHANGED <<regime, key, document, asked>>

Next ==
  \/ RotateKey
  \/ \E s \in Sessions :
       \/ \E id \in Ids, r \in Redirects : Authorize(s, id, r)
       \/ \E id \in Ids, withRedirect \in BOOLEAN : Refresh(s, id, withRedirect)
       \/ Exchange(s) \/ Revoke(s)

Spec == Init /\ [][Next]_vars

-----------------------------------------------------------------------------
Asks == [leg : {"code", "refresh"}, of : Sessions, by : Ids, as : Identities]

TypeOK ==
  /\ regime \in Regimes
  /\ key \in Keys
  /\ document \in [UrlClients -> Lists \cup {NoList}]
  /\ session \in [Sessions -> {Idle} \cup Known]
  /\ granted \subseteq Sessions
  /\ asked \in Asks \cup {NoAsk}

\* While documents, keys and registrations are kept, Home Assistant is never asked
\* for a client's own grant under an identity it did not bind the grant to: no
\* exchange or refresh of a client that keeps to its registration ends in a
\* failed login (_ha_auth_forward_identity).
NeverMisidentified ==
  regime = "kept" /\ asked # NoAsk /\ asked.by = session[asked.of].id =>
    asked.as = session[asked.of].bound

\* A refresh with an envelope names the identity of the grant and comes from the
\* client the envelope was made for, whatever became of keys and documents
\* (unwrap_refresh_token).
EnvelopesNameTheirGrant ==
  asked # NoAsk /\ asked.leg = "refresh" /\ session[asked.of].token.sealed =>
    asked.as = session[asked.of].bound /\ asked.by = session[asked.of].id

\* A client that was told its token is revoked has no grant left, also when the
\* key has changed since the envelope was made; only an identity too long for
\* the unverified parse escapes (_revoke_rewrite).
RevokedIsGone ==
  \A s \in Sessions :
    session[s].stage = "revoked" /\ session[s].bound \notin Long => s \notin granted

\* "re-authorize once": while all is kept, a session that was authorized since the
\* envelope exists refreshes without a redirect, by its envelope or by
\* derivation (_code_leg_forces_proxy).
ReauthorizeSuffices ==
  regime = "kept" => \A s \in Sessions :
    session[s].stage = "held" /\ ~session[s].legacy /\ ~session[s].token.sealed =>
      \A doc \in Fetched(session[s].id) : Derived(session[s].id, doc) = session[s].bound

\* "Each case below either reproduces that identity exactly or returns
\* UNREPRODUCIBLE rather than guess" (translated_client_id_for_refresh).  It does
\* not if the client was authorized by the same-origin fast path with a redirect
\* its document does not list.
DerivationIsExact ==
  Stable => \A s \in Sessions :
    session[s].stage = "held" /\ ~session[s].legacy /\ ~session[s].token.sealed =>
      \A doc \in Fetched(session[s].id) :
        Derived(session[s].id, doc) \in {session[s].bound, Unreproducible}

-----------------------------------------------------------------------------
(* The inductive invariant.                                                 *)

\* An envelope is sealed around the identity the grant is bound to, for its
\* client
Sealing ==
  \A s \in Sessions :
    session[s] # Idle /\ session[s].token.sealed =>
      /\ session[s].token.forward = session[s].bound
      /\ session[s].token.presenter = session[s].id

\* Home Assistant is asked about authorized sessions, and refreshes are asked for
\* by clients that hold a token
AskedInTurn ==
  /\ asked # NoAsk => session[asked.of] # Idle
  /\ asked # NoAsk /\ asked.leg = "refresh" => session[asked.of].stage \in {"held", "revoked"}

Inv == TypeOK /\ Sealing /\ AskedInTurn /\ EnvelopesNameTheirGrant /\ RevokedIsGone

\* What a fetch of the client's document returns while documents are kept
Current(id) == IF id \in UrlClients THEN document[id] ELSE NoList

\* While all is kept there is one key, a client stays with a redirect of its
\* registration, and its grant is bound to what that resolves to
Kept ==
  regime = "kept" =>
    /\ key = 1
    /\ \A s \in Sessions : session[s] # Idle =>
         /\ Minted(session[s].id)
         /\ Presents(session[s].id, session[s].redirect)
         /\ session[s].bound =
              Resolve(session[s].id, session[s].redirect, Current(session[s].id))

KeptInv == Kept /\ NeverMisidentified /\ ReauthorizeSuffices
=============================================================================
