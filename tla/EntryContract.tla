---------------------------- MODULE EntryContract ----------------------------
(***************************************************************************)
(* What a config entry of the integration promises to Home Assistant and   *)
(* its user, without tasks, awaits, threads or ports: the server is        *)
(* exposed only while the entry is up, a failed start is reported once and *)
(* the report stands until the next start, and a stop withdraws the        *)
(* exposure at once and for good.                                          *)
(***************************************************************************)
CONSTANTS Modes,        \* the authentication modes of the ingress webhook
          Kinds,        \* the kinds of failure that are reported
          Unregistered  \* nothing is exposed

VARIABLES phase,    \* what the entry is doing
          exposed,  \* the mode in which the server is exposed
          reported  \* the failures on report

vars == <<phase, exposed, reported>>

Init == phase = "down" /\ exposed = Unregistered /\ reported = {}

\* A start withdraws the report of an earlier failure
Start ==
  /\ phase = "down" /\ phase' = "starting"
  /\ reported' = {}
  /\ UNCHANGED exposed

\* The start succeeds, and exposes the server unless the options say not to
ComeUp ==
  /\ phase = "starting" /\ phase' = "up"
  /\ exposed' \in Modes \cup {Unregistered}
  /\ UNCHANGED reported

\* The start failed; what it built is being torn down
StartFails ==
  /\ phase = "starting" /\ phase' = "failing"
  /\ UNCHANGED <<exposed, reported>>

\* The failure is reported, under one kind, when nothing is left to tear down
Report ==
  /\ phase \in {"starting", "failing"} /\ phase' = "failed"
  /\ \E k \in Kinds : reported' = {k}
  /\ UNCHANGED exposed

\* A stop meets the entry in any phase; there may be nothing left to wait for
Stop ==
  /\ phase \in {"starting", "up", "failing", "failed"}
  /\ phase' \in {"stopping", "down"}
  /\ exposed' = Unregistered
  /\ UNCHANGED reported

Stopped ==
  /\ phase = "stopping" /\ phase' = "down"
  /\ UNCHANGED <<exposed, reported>>

\* The removal of the entry withdraws the report
Forget ==
  /\ phase = "down"
  /\ reported' = {}
  /\ UNCHANGED <<phase, exposed>>

Next == Start \/ ComeUp \/ StartFails \/ Report \/ Stop \/ Stopped \/ Forget

Spec == Init /\ [][Next]_vars
=============================================================================
