---------------------------- MODULE WebhookIngress ----------------------------
(***************************************************************************)
(* The ingress webhook and its OAuth surface (mcp_webhook.py): the views   *)
(* that are bound once and for all, the registrations that come and go     *)
(* behind them, the MCP requests the webhook relays to the server and the  *)
(* token requests the views forward to Home Assistant.                     *)
(*                                                                         *)
(* A request resolves the registration when it arrives, then awaits its    *)
(* body, and only then uses the session of that registration, so a reload  *)
(* may come in between.  A view, once bound, stays bound: whether it       *)
(* answers depends on the registration of the moment.                      *)
(***************************************************************************)
EXTENDS Integers

CONSTANTS NumViews,      \* how many views the three bundles have
          BundleOf,      \* the bundle of each view, in the order of binding
          McpRequests,   \* requests to the webhook
          TokenRequests, \* requests the views forward to Home Assistant
          MaxRegs        \* bound: how many registrations a behaviour has

Views == 1 .. NumViews
Bundles == {BundleOf[v] : v \in Views}
Requests == McpRequests \cup TokenRequests
Regs == 1 .. MaxRegs
NoReg == 0
Modes == {"none", "ha_auth"}
Surfaces == {"resource_server", "autoapprove", "off"}
Stages == {"idle", "reading", "relaying", "streaming", "done"}
Replies == {"pending", "401", "500", "502", "503", "local", "gone", "answer", "truncated",
            "raised"}

ASSUME ViewsAssumption == NumViews \in Nat /\ MaxRegs \in Nat
ASSUME RequestsAssumption == McpRequests \cap TokenRequests = {}

NewReg == [mode |-> "none", surface |-> "off", key |-> FALSE]

VARIABLES
  views,    \* the views bound to Home Assistant's HTTP server
  flags,    \* the bundles marked as bound in hass.data
  made,     \* how many registrations succeeded
  reg,      \* the configuration each of them was built with
  cfg,      \* hass.data DATA_WEBHOOK
  route,    \* the webhook is registered with Home Assistant
  open,     \* the registrations whose relay session is open
  lookup,   \* the registrations whose CIMD session is open
  closing,  \* the registration async_unregister_webhook is closing
  stage,    \* how far each request is
  under,    \* the registration it resolved
  admin,    \* whether it carries the bearer of an administrator
  reply     \* what its client was answered

surface == <<views, flags>>
hook == <<made, reg, cfg, route, open, lookup, closing>>
traffic == <<stage, under, admin, reply>>
vars == <<surface, hook, traffic>>

Init ==
  /\ views = {} /\ flags = {}
  /\ made = 0 /\ reg = [r \in Regs |-> NewReg]
  /\ cfg = NoReg /\ route = FALSE /\ closing = NoReg
  /\ open = {} /\ lookup = {}
  /\ stage = [q \in Requests |-> "idle"]
  /\ under = [q \in Requests |-> NoReg]
  /\ admin = [q \in Requests |-> FALSE]
  /\ reply = [q \in Requests |-> "pending"]

-----------------------------------------------------------------------------
(* Binding the views.  A pass binds the bundles in order and skips those    *)
(* marked as bound; register_view may raise at any view, and then the       *)
(* bundles after that view are not reached.                                 *)

NoRaise == NumViews + 1
RaisesAt(i) == i = NoRaise \/ (i \in Views /\ BundleOf[i] \notin flags)

\* Mutant of Marked: a bundle is marked once its first view is bound
Marked_Early(i) == flags \cup {BundleOf[v] : v \in {w \in Views : w < i}}

\* The bundles marked when the pass raises at i: those it got through
Marked(i) == flags \cup {b \in Bundles : \A v \in Views : BundleOf[v] = b => v < i}

Bind(i) ==
  /\ RaisesAt(i)
  /\ views' = views \cup {v \in Views : v < i /\ BundleOf[v] \notin flags}
  /\ flags' = Marked(i)

\* _prebind_oauth_views: the entry's set-up binds them first.  In ha_auth mode
\* a raise fails the set-up, in none mode it is logged
Prebind ==
  /\ cfg = NoReg /\ closing = NoReg
  /\ \E i \in Views \cup {NoRaise} : Bind(i)
  /\ UNCHANGED <<hook, traffic>>

-----------------------------------------------------------------------------
(* Registering and unregistering.                                           *)

\* The provider _bind_none_surface or _bind_ha_auth_surface leaves in the
\* configuration when the pass raises at i; none mode parses the key before it
\* sets the provider, ha_auth mode after
SurfaceOf(m, i, keyParses) ==
  IF i # NoRaise \/ (m = "none" /\ ~keyParses) THEN "off"
  ELSE IF m = "none" THEN "autoapprove" ELSE "resource_server"

\* Mutant of Registers: ha_auth fails open when its surface cannot be bound
Registers_FailOpen(m, i, keyParses) == TRUE

\* none mode fails open, ha_auth fails closed
Registers(m, i, keyParses) == m = "none" \/ (i = NoRaise /\ keyParses)

\* async_register_webhook: nothing in it awaits unless it fails
Register(m, i, keyParses) ==
  /\ cfg = NoReg /\ closing = NoReg /\ made < MaxRegs
  /\ Registers(m, i, keyParses)
  /\ Bind(i)
  /\ made' = made + 1
  /\ reg' = [reg EXCEPT ![made + 1] = [mode |-> m, surface |-> SurfaceOf(m, i, keyParses),
                                       key |-> i = NoRaise /\ keyParses]]
  /\ cfg' = made + 1 /\ route' = TRUE
  /\ open' = open \cup {made + 1}
  /\ lookup' = IF m = "ha_auth" THEN lookup \cup {made + 1} ELSE lookup
  /\ UNCHANGED <<closing, traffic>>

\* It fails: the webhook is unregistered again and both sessions are closed,
\* before the configuration is in hass.data
RegisterFails(i) ==
  /\ cfg = NoReg /\ closing = NoReg /\ made < MaxRegs
  /\ Bind(i)
  /\ UNCHANGED <<hook, traffic>>

\* Mutant of Unregister: the relay session is left to the garbage collector
Unregister_KeepsSession ==
  /\ cfg # NoReg /\ cfg' = NoReg
  /\ route' = FALSE
  /\ closing' = IF cfg \in lookup THEN cfg ELSE NoReg
  /\ UNCHANGED <<made, reg, open, lookup, surface, traffic>>

\* async_unregister_webhook up to its first await: the relay session closes
\* before the event loop gets a turn
Unregister ==
  /\ cfg # NoReg /\ cfg' = NoReg
  /\ route' = FALSE
  /\ open' = open \ {cfg}
  /\ closing' = IF cfg \in lookup THEN cfg ELSE NoReg
  /\ UNCHANGED <<made, reg, lookup, surface, traffic>>

\* The rest of it closes the CIMD session, unless the caller is cancelled
LookupCloses ==
  /\ closing # NoReg /\ closing' = NoReg
  /\ lookup' = lookup \ {closing}
  /\ UNCHANGED <<made, reg, cfg, route, open, surface, traffic>>

CloseCancelled ==
  /\ closing # NoReg /\ closing' = NoReg
  /\ UNCHANGED <<made, reg, cfg, route, open, lookup, surface, traffic>>

-----------------------------------------------------------------------------
(* Requests.                                                                *)

Answer(q, answer) ==
  /\ stage' = [stage EXCEPT ![q] = "done"]
  /\ reply' = [reply EXCEPT ![q] = answer]
  /\ UNCHANGED <<under, admin>>

\* active_auth_mode
ActiveMode ==
  IF cfg = NoReg THEN "off"
  ELSE CASE reg[cfg].surface = "resource_server" -> "ha_auth"
         [] reg[cfg].surface = "autoapprove" -> "none"
         [] reg[cfg].surface = "off" -> "off"

\* ResourceServer.validate_request and _check_webhook_auth: in ha_auth mode only
\* the bearer of an active administrator passes
PassesGate(bearer) == ActiveMode = "ha_auth" => bearer

\* _async_handle_webhook up to the await of the body
McpArrives(q, bearer) ==
  /\ route /\ stage[q] = "idle" /\ q \in McpRequests
  /\ admin' = [admin EXCEPT ![q] = bearer]
  /\ under' = [under EXCEPT ![q] = cfg]
  /\ IF PassesGate(bearer)
       THEN stage' = [stage EXCEPT ![q] = "reading"] /\ UNCHANGED reply
       ELSE /\ stage' = [stage EXCEPT ![q] = "done"]
            /\ reply' = [reply EXCEPT ![q] = "401"]
  /\ UNCHANGED <<surface, hook>>

\* Mutant of TokenArrives: the view does not look which mode is active
TokenArrives_Ungated(q) ==
  /\ stage[q] = "idle" /\ q \in TokenRequests
  /\ under' = [under EXCEPT ![q] = cfg]
  /\ stage' = [stage EXCEPT ![q] = "reading"]
  /\ UNCHANGED <<admin, reply, surface, hook>>

\* AutoApproveTokenView.post and AutoApproveRevokeView.post in ha_auth mode up
\* to the await of the body
TokenArrives(q) ==
  /\ ActiveMode = "ha_auth" /\ stage[q] = "idle" /\ q \in TokenRequests
  /\ under' = [under EXCEPT ![q] = cfg]
  /\ stage' = [stage EXCEPT ![q] = "reading"]
  /\ UNCHANGED <<admin, reply, surface, hook>>

\* The client goes away, or a token request needs no forwarding
NotForwarded(q) ==
  /\ stage[q] = "reading"
  /\ \/ Answer(q, "gone")
     \/ q \in TokenRequests /\ Answer(q, "local")
  /\ UNCHANGED <<surface, hook>>

\* Mutant of Forward: the session is looked up again after the body
Forward_Relooked(q) ==
  /\ stage[q] = "reading"
  /\ IF cfg # NoReg
       THEN /\ stage' = [stage EXCEPT ![q] = "relaying"]
            /\ under' = [under EXCEPT ![q] = cfg]
            /\ UNCHANGED <<admin, reply>>
       ELSE Answer(q, IF q \in McpRequests THEN "500" ELSE "raised")
  /\ UNCHANGED <<surface, hook>>

\* The body is here: the request goes out on the session of the registration it
\* arrived under.  If that is closed, the session raises RuntimeError, which the
\* webhook answers with 500 and _forward_to_core does not catch
Forward(q) ==
  /\ stage[q] = "reading"
  /\ IF under[q] \in open
       THEN stage' = [stage EXCEPT ![q] = "relaying"] /\ UNCHANGED <<under, admin, reply>>
       ELSE Answer(q, IF q \in McpRequests THEN "500" ELSE "raised")
  /\ UNCHANGED <<surface, hook>>

\* The upstream answers at once, or opens an event stream
Answers(q) ==
  /\ stage[q] = "relaying" /\ under[q] \in open
  /\ \/ Answer(q, "answer")
     \/ /\ q \in McpRequests
        /\ stage' = [stage EXCEPT ![q] = "streaming"]
        /\ UNCHANGED <<under, admin, reply>>
  /\ UNCHANGED <<surface, hook>>

StreamEnds(q) ==
  /\ stage[q] = "streaming" /\ under[q] \in open
  /\ Answer(q, "answer")
  /\ UNCHANGED <<surface, hook>>

\* The transport fails, before the answer or in the middle of a stream
Breaks(q) ==
  /\ \/ stage[q] = "relaying" /\ Answer(q, IF q \in McpRequests THEN "502" ELSE "503")
     \/ stage[q] = "streaming" /\ Answer(q, "truncated")
  /\ UNCHANGED <<surface, hook>>

TransportFails(q) == under[q] \in open /\ Breaks(q)

\* Closing a session closes the connections in use
Severed(q) == under[q] \notin open /\ Breaks(q)

-----------------------------------------------------------------------------
Next ==
  \/ Prebind \/ Unregister \/ LookupCloses \/ CloseCancelled
  \/ \E m \in Modes, i \in Views \cup {NoRaise}, k \in BOOLEAN : Register(m, i, k)
  \/ \E i \in Views \cup {NoRaise} : RegisterFails(i)
  \/ \E q \in Requests :
       \/ \E bearer \in BOOLEAN : McpArrives(q, bearer)
       \/ TokenArrives(q) \/ NotForwarded(q) \/ Forward(q) \/ Answers(q) \/ StreamEnds(q)
       \/ TransportFails(q) \/ Severed(q)

Spec == Init /\ [][Next]_vars

\* Closed connections report to the tasks that wait on them
FairSpec == Spec /\ \A q \in Requests : WF_vars(Severed(q))

-----------------------------------------------------------------------------
TypeOK ==
  /\ views \subseteq Views /\ flags \subseteq Bundles
  /\ made \in 0 .. MaxRegs
  /\ reg \in [Regs -> [mode : Modes, surface : Surfaces, key : BOOLEAN]]
  /\ cfg \in Regs \cup {NoReg} /\ closing \in Regs \cup {NoReg}
  /\ route \in BOOLEAN
  /\ open \subseteq Regs /\ lookup \subseteq Regs
  /\ stage \in [Requests -> Stages]
  /\ under \in [Requests -> Regs \cup {NoReg}]
  /\ admin \in [Requests -> BOOLEAN]
  /\ reply \in [Requests -> Replies]
  /\ \A q \in Requests : stage[q] # "idle" => under[q] # NoReg

\* While a discovery document is served, every endpoint it names answers: all
\* views are bound and the registration has a key, whatever passes were cut
\* short before (_register_metadata_views, bind_autoapprove_views,
\* _bind_none_surface).
AdvertisedIsBound == ActiveMode # "off" => views = Views /\ reg[cfg].key

\* A request leaves for the server or for Home Assistant only while the
\* registration that admitted it is the live one, and past the bearer gate if
\* that has one: switching from none to ha_auth while a body is being read lets
\* nothing through (_async_handle_webhook).
ForwardsAsAdmitted ==
  [][\A q \in Requests :
       stage[q] # "relaying" /\ stage'[q] = "relaying" =>
         /\ under[q] = cfg /\ cfg # NoReg
         /\ q \in McpRequests /\ reg[cfg].mode = "ha_auth" => admin[q]]_vars

\* Unregistering ends every relay and every stream that was under way: none
\* outlives its registration for long (async_unregister_webhook).
Underway(q) == stage[q] \in {"relaying", "streaming"}
UnregisterDrains ==
  \A q \in Requests : Underway(q) /\ under[q] # cfg ~> ~Underway(q)

\* A token request that is forwarded gets Home Assistant's answer or a 503
\* (the docstring of _forward_to_core).  It does not: a reload while the body is
\* read closes the session, and the RuntimeError goes through.
ForwardAnswers == \A q \in TokenRequests : reply[q] # "raised"

-----------------------------------------------------------------------------
\* The registrations as their caller sees them: IngressTurns' state in terms of
\* this one
Turns == INSTANCE IngressTurns
           WITH mode <- IF cfg = NoReg THEN "unregistered" ELSE reg[cfg].mode,
                closing <- closing # NoReg, Unregistered <- "unregistered"

\* Registrations come and go in turn, as the life cycle calls for them: a webhook
\* replaces none that is registered, and none whose CIMD session is being closed
\* (async_register_webhook, async_unregister_webhook).
TakesTurns == Turns!Spec

-----------------------------------------------------------------------------
(* The inductive invariant.                                                 *)

\* A registration in ha_auth mode has its bearer gate, or does not exist
\* (_bind_ha_auth_surface fails closed).
HaAuthIsGated ==
  cfg # NoReg /\ reg[cfg].mode = "ha_auth" => reg[cfg].surface = "resource_server"

\* The webhook is registered exactly while there is a configuration for its
\* handler, so that no client of a live webhook is answered 503
\* (_async_handle_webhook).
RouteBacked == route <=> cfg # NoReg

\* The relay session that is open is the one of the live registration.
SessionsOwned == open = IF cfg = NoReg THEN {} ELSE {cfg}

\* A marked bundle is bound in full
FlagsHonest == \A v \in Views : BundleOf[v] \in flags => v \in views

\* What a request that is still being read was admitted with
Admission ==
  \A q \in Requests :
    /\ stage[q] = "reading" => under[q] \in 1 .. made
    /\ stage[q] = "reading" /\ q \in McpRequests /\ reg[under[q]].surface = "resource_server"
         => admin[q]

\* Configurations are numbered in order; a registration that is not built yet
\* is nobody's
Numbering == cfg <= made

Inv ==
  /\ TypeOK /\ AdvertisedIsBound /\ HaAuthIsGated /\ RouteBacked /\ SessionsOwned
  /\ FlagsHonest /\ Admission /\ Numbering
=============================================================================
