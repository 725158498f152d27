----------------------------- MODULE IngressTurns -----------------------------
(***************************************************************************)
(* How the life cycle and the ingress take turns: the webhook is           *)
(* registered in one mode at a time, and again only when the sessions of   *)
(* the registration before it are closed or given up.  ServerLifecycle     *)
(* keeps to it as the caller of async_register_webhook and                 *)
(* async_unregister_webhook; WebhookIngress relies on it in the guards of  *)
(* its registrations.                                                      *)
(***************************************************************************)
CONSTANTS Modes,        \* the authentication modes of the ingress webhook
          Unregistered  \* no webhook is registered

VARIABLES mode,    \* the mode of the registered webhook
          closing  \* sessions of a registration that ended are being closed

vars == <<mode, closing>>

Init == mode = Unregistered /\ closing = FALSE

Register ==
  /\ mode = Unregistered /\ ~closing
  /\ mode' \in Modes
  /\ UNCHANGED closing

\* A registration that fails, or is withdrawn at once, has sessions to close
RegisterFails ==
  /\ mode = Unregistered /\ ~closing
  /\ closing' = TRUE
  /\ UNCHANGED mode

\* There may be nothing to wait for
Withdraw ==
  /\ mode # Unregistered /\ mode' = Unregistered
  /\ closing' \in BOOLEAN

Closed ==
  /\ closing /\ closing' = FALSE
  /\ UNCHANGED mode

Next == Register \/ RegisterFails \/ Withdraw \/ Closed

Spec == Init /\ [][Next]_vars
=============================================================================
