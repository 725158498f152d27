---------------------------- MODULE DeviceBuilder ----------------------------
(***************************************************************************)
(* The tool calls that talk to the Device Builder in the add-on             *)
(* (addon_tools.py): commands and streams over a WebSocket, reads and calls *)
(* of its native MCP endpoint, plain HTTP.  Each resolves the add-on, gets  *)
(* an ingress session, connects, and submits its operation once.            *)
(*                                                                         *)
(* The add-on may stop or restart at any time, the connection may break     *)
(* with frames in flight, the Device Builder may stay silent, interleave    *)
(* messages of others, or go on after the caller has left.                  *)
(*                                                                         *)
(* ws.send_str returns at once: it has no time-out, and would wait only for *)
(* a peer that does not read.                                               *)
(***************************************************************************)
EXTENDS AddonSupervisor, Sequences

CONSTANTS Limits,    \* bound: messages a caller waits for; 0 for a negative limit
          MaxPages,  \* bound: pages of the native catalogue that are read
          MaxInbox   \* bound: frames in flight on a connection

ASSUME LimitsAssumption == Limits \subseteq Nat /\ MaxPages \in Nat /\ MaxInbox \in Nat

VARIABLES
  fellBack,  \* the native endpoint or tool is missing: the WebSocket is used
  peer,      \* the start of the add-on a call's operation went to
  link,      \* the call's WebSocket is open at both ends
  inbox,     \* frames in flight on it
  left,      \* messages of its own, or pages, that the call still waits for
  answered   \* a stream has got the result of its command

builderVars == <<fellBack, peer, link, inbox, left, answered>>
connection == <<link, inbox, answered>>
vars == <<supervisorVars, builderVars>>

Streams == {"follow", "logs"}
Native(c) == op[c] \in {"read", "native"} /\ ~fellBack[c]
Socket(c) == op[c] \in Streams \cup {"write", "raw"} \/ (op[c] = "read" /\ fellBack[c])

Init ==
  /\ SupervisorInit
  /\ fellBack = [c \in Calls |-> FALSE] /\ peer = [c \in Calls |-> 0]
  /\ link = [c \in Calls |-> FALSE] /\ inbox = [c \in Calls |-> <<>>]
  /\ left = [c \in Calls |-> 0] /\ answered = [c \in Calls |-> FALSE]

unmanaged == <<addonVars, request, seen, dirty>>

\* Mutant of Reset: the session and its connection are not closed
Reset_LeavesOpen(c) ==
  /\ left' = [left EXCEPT ![c] = 0] /\ answered' = [answered EXCEPT ![c] = FALSE]
  /\ UNCHANGED <<link, inbox>>

\* The connection is given up
Reset(c) ==
  /\ link' = [link EXCEPT ![c] = FALSE] /\ inbox' = [inbox EXCEPT ![c] = <<>>]
  /\ left' = [left EXCEPT ![c] = 0] /\ answered' = [answered EXCEPT ![c] = FALSE]

Close(c, k) ==
  /\ End(c, k) /\ Reset(c)
  /\ UNCHANGED <<unmanaged, effect, fellBack, peer>>

\* The operation leaves for the process that runs now
SubmitTo(c, where) ==
  /\ Submit(c) /\ peer' = [peer EXCEPT ![c] = boot]
  /\ Go(c, where)

-----------------------------------------------------------------------------
(* The way to the add-on.                                                  *)

NotRunning(c) ==
  /\ pc[c] = "found" /\ op[c] \in BuilderOps /\ ~seen[c].up
  /\ Close(c, "not_running")

\* The call resumes with the info and asks the Supervisor for an ingress session
AskSession(c) ==
  /\ pc[c] = "found" /\ op[c] \in BuilderOps /\ seen[c].up
  /\ Go(c, "session")
  /\ UNCHANGED <<unmanaged, effect, builderVars>>

SessionFails(c) ==
  /\ pc[c] = "session"
  /\ Close(c, "no_route")

SessionMade(c) ==
  /\ pc[c] = "session"
  /\ \/ Socket(c) /\ Go(c, "connect") /\ UNCHANGED <<effect, peer>>
     \/ Native(c) /\ Go(c, "initialize") /\ UNCHANGED <<effect, peer>>
     \/ op[c] = "http" /\ SubmitTo(c, "called")
  /\ UNCHANGED <<unmanaged, fellBack, connection, left>>

-----------------------------------------------------------------------------
(* WebSocket.                                                              *)

Connected(c) ==
  /\ pc[c] = "connect" /\ running
  /\ link' = [link EXCEPT ![c] = TRUE]
  /\ IF op[c] = "raw"
     THEN SubmitTo(c, "listen") /\ \E n \in Limits : left' = [left EXCEPT ![c] = n]
     ELSE Go(c, "hello") /\ peer' = [peer EXCEPT ![c] = boot] /\ UNCHANGED <<effect, left>>
  /\ UNCHANGED <<unmanaged, fellBack, inbox, answered>>

ConnectFails(c) ==
  /\ pc[c] = "connect"
  /\ \E k \in {"timeout", "lost"} : Close(c, k)

\* The server info arrives and the command is sent
Greeted(c) ==
  /\ pc[c] = "hello" /\ link[c]
  /\ Submit(c) /\ Go(c, "listen")
  /\ \E n \in Limits :
       /\ op[c] \notin Streams => \A k \in Limits : k <= n
       /\ left' = [left EXCEPT ![c] = n]
  /\ UNCHANGED <<unmanaged, fellBack, peer, connection>>

\* Silence, a closed connection, or an authentication the caller does not have
HelloFails(c) ==
  /\ pc[c] = "hello"
  /\ \E k \in {"timeout", "lost", "no_route"} : Close(c, k)

\* A stream of logs is told to stop first, which a broken connection may refuse
Finish(c, k) ==
  \/ Close(c, k)
  \/ op[c] = "logs" /\ ~link[c] /\ Close(c, "lost")

\* closed_by keeps naming a result that came before the loop ended by itself
LastReason(c) == IF answered[c] THEN "done" ELSE "unanswered"

\* The next frame.  The raw WebSocket counts every message; a command skips those
\* of other message ids, and its own events and results use up the limit
Receive(c) ==
  /\ pc[c] = "listen" /\ left[c] > 0 /\ inbox[c] # <<>>
  /\ LET frame == Head(inbox[c])
         stays == Go(c, "listen") /\ inbox' = [inbox EXCEPT ![c] = Tail(@)]
                  /\ UNCHANGED <<unmanaged, effect, fellBack, peer, link>>
         counted == left' = [left EXCEPT ![c] = @ - 1]
     IN \/ /\ frame = "other" /\ stays /\ UNCHANGED answered
           /\ IF op[c] = "raw" THEN counted ELSE UNCHANGED left
        \/ frame = "event" /\ stays /\ counted /\ UNCHANGED answered
        \/ /\ frame = "result" /\ op[c] \in Streams /\ stays /\ counted
           /\ answered' = [answered EXCEPT ![c] = TRUE]
        \/ frame = "result" /\ op[c] \notin Streams /\ Close(c, "done")
        \/ frame = "error" /\ Close(c, "rejected")
        \/ frame = "final" /\ Finish(c, "done")

LimitReached(c) ==
  /\ pc[c] = "listen" /\ left[c] = 0
  /\ Finish(c, LastReason(c))

\* Mutant of Expires: only silence ends the wait
Expires_Silence(c) ==
  /\ pc[c] = "listen" /\ inbox[c] = <<>>
  /\ Finish(c, "unanswered")

\* Silence for as long as a message is waited for, or the deadline of the call
Expires(c) ==
  /\ pc[c] = "listen"
  /\ \/ inbox[c] = <<>> /\ Finish(c, "unanswered")
     \/ Finish(c, LastReason(c))

LinkEnds(c) ==
  /\ pc[c] = "listen" /\ ~link[c] /\ inbox[c] = <<>>
  /\ Finish(c, "unanswered")

-----------------------------------------------------------------------------
(* Native MCP and HTTP.                                                    *)

Initialized(c) ==
  /\ pc[c] = "initialize" /\ running /\ native
  /\ Go(c, "list") /\ left' = [left EXCEPT ![c] = MaxPages]
  /\ UNCHANGED <<unmanaged, effect, fellBack, peer, connection>>

\* The endpoint or the tool is missing: a read goes to the WebSocket instead
Unavailable(c) ==
  \/ op[c] = "native" /\ Close(c, "unavailable")
  \/ /\ op[c] = "read" /\ Go(c, "info") /\ Reset(c)
     /\ fellBack' = [fellBack EXCEPT ![c] = TRUE]
     /\ UNCHANGED <<unmanaged, effect, peer>>

EndpointMissing(c) ==
  /\ pc[c] = "initialize" /\ running /\ ~native
  /\ Unavailable(c)

PageRead(c) ==
  /\ pc[c] = "list" /\ running /\ left[c] > 0
  /\ left' = [left EXCEPT ![c] = @ - 1]
  /\ UNCHANGED <<unmanaged, pc, code, effect, fellBack, peer, connection>>

\* The last page has come, without the tool or with it
ToolMissing(c) ==
  /\ pc[c] = "list" /\ running /\ left[c] > 0
  /\ Unavailable(c)

CallTool(c) ==
  /\ pc[c] = "list" /\ running /\ left[c] > 0
  /\ SubmitTo(c, "called") /\ left' = [left EXCEPT ![c] = 0]
  /\ UNCHANGED <<unmanaged, fellBack, connection>>

\* The answer arrives; an HTTP status does not tell who refused
Answered(c) ==
  /\ pc[c] = "called"
  /\ \/ effect[c] = "applied" /\ Close(c, "done")
     \/ effect[c] = "refused" /\ Close(c, IF op[c] = "http" THEN "failed" ELSE "rejected")

\* Mutant of NativeFails: a read that fails in any way goes to the WebSocket
NativeFails_FallsBack(c) ==
  /\ pc[c] \in {"initialize", "list", "called"}
  /\ \/ Unavailable(c)
     \/ op[c] = "http" /\ Close(c, "timeout")

\* No answer in time, a broken connection, or one that makes no sense, as when the
\* catalogue does not end.  The time-out of a native call spans all of its awaits
NativeFails(c) ==
  \/ pc[c] \in {"initialize", "list", "called"} /\ \E k \in {"timeout", "lost", "garbled"} : Close(c, k)
  \/ pc[c] \in {"info", "found", "session"} /\ Native(c) /\ Close(c, "timeout")

-----------------------------------------------------------------------------
(* The caller, the Device Builder and the network.                         *)

\* The MCP client leaves or the worker stops: CancelledError at the await
Cancelled(c) ==
  /\ pc[c] # "idle"
  /\ Close(c, "cancelled")

Reached(c) == op[c] \in BuilderOps /\ running /\ peer[c] = boot
Send(c, frame) == inbox' = [inbox EXCEPT ![c] = IF link[c] THEN Append(@, frame) ELSE @]

\* The Device Builder executes or refuses what it got, also when no one listens
BuilderExecutes(c) ==
  /\ effect[c] = "pending" /\ Reached(c) /\ Len(inbox[c]) < MaxInbox
  /\ \/ effect' = [effect EXCEPT ![c] = "applied"] /\ op[c] # "raw" /\ Send(c, "result")
     \/ effect' = [effect EXCEPT ![c] = "applied"] /\ op[c] \in Streams \cup {"raw"} /\ UNCHANGED inbox
     \/ effect' = [effect EXCEPT ![c] = "refused"] /\ op[c] # "raw" /\ Send(c, "error")
     \/ effect' = [effect EXCEPT ![c] = "refused"] /\ op[c] = "raw" /\ UNCHANGED inbox
  /\ UNCHANGED <<unmanaged, pc, code, fellBack, peer, link, left, answered>>

\* It sends events of the stream, its end, or messages that are for no command
BuilderSends(c) ==
  /\ Reached(c) /\ link[c] /\ pc[c] = "listen" /\ Len(inbox[c]) < MaxInbox
  /\ \E frame \in {"other", "event", "final"} :
       /\ frame # "other" => op[c] \in Streams /\ effect[c] = "applied"
       /\ Send(c, frame)
  /\ UNCHANGED <<unmanaged, pc, code, effect, fellBack, peer, link, left, answered>>

\* The connection breaks, and frames in flight are lost from some point on
Drop(c) ==
  /\ link[c]
  /\ link' = [link EXCEPT ![c] = FALSE]
  /\ \E n \in 0 .. Len(inbox[c]) : inbox' = [inbox EXCEPT ![c] = SubSeq(@, 1, n)]
  /\ UNCHANGED <<unmanaged, pc, code, effect, fellBack, peer, left, answered>>

-----------------------------------------------------------------------------

CallStep(c) ==
  \/ NotRunning(c) \/ AskSession(c) \/ SessionFails(c) \/ SessionMade(c)
  \/ Connected(c) \/ ConnectFails(c) \/ Greeted(c) \/ HelloFails(c)
  \/ Receive(c) \/ LimitReached(c) \/ Expires(c) \/ LinkEnds(c)
  \/ Initialized(c) \/ EndpointMissing(c) \/ PageRead(c) \/ ToolMissing(c)
  \/ CallTool(c) \/ Answered(c) \/ NativeFails(c) \/ Cancelled(c)

PeerStep(c) == BuilderExecutes(c) \/ BuilderSends(c) \/ Drop(c)

Next ==
  \/ AddonStep /\ UNCHANGED builderVars
  \/ \E c \in Calls : ManageStep(c) /\ UNCHANGED builderVars
  \/ \E c \in Calls : CallStep(c) \/ PeerStep(c)

Spec == Init /\ [][Next]_vars

\* The clock: the time-outs under which each await of a call stands
TimesOut(c) ==
  \/ (InfoFails(c) \/ PostFails(c)) /\ UNCHANGED builderVars
  \/ SessionFails(c) \/ ConnectFails(c) \/ HelloFails(c) \/ Expires(c) \/ NativeFails(c)

\* The event loop resumes a call that has its add-on
Resumes(c) == NotRunning(c) \/ AskSession(c) \/ (Post(c) /\ UNCHANGED builderVars)

FairSpec == Spec /\ \A c \in Calls : WF_vars(Resumes(c) \/ TimesOut(c))

-----------------------------------------------------------------------------

Frames == {"other", "event", "final", "result", "error"}
Places == {"idle", "info", "found", "posted", "session", "connect", "hello", "listen",
           "initialize", "list", "called"}

\* The variables have their types, and a call that is not connected holds nothing
\* of a connection.
TypeOK ==
  /\ SupervisorTypes /\ pc \in [Calls -> Places]
  /\ fellBack \in [Calls -> BOOLEAN] /\ peer \in [Calls -> 0 .. MaxBoots]
  /\ link \in [Calls -> BOOLEAN] /\ inbox \in [Calls -> Seq(Frames)]
  /\ left \in [Calls -> Nat] /\ answered \in [Calls -> BOOLEAN]
  /\ \A c \in Calls : pc[c] \notin {"hello", "listen"} => ~link[c] /\ inbox[c] = <<>> /\ ~answered[c]
  /\ \A c \in Calls : Len(inbox[c]) <= MaxInbox

\* A stream and the raw WebSocket hand closed_by on to the caller; the tools that
\* write and read drop it and report a success
Report ==
  [c \in Calls |->
     IF code[c] \in Refusals THEN "refused"
     ELSE IF code[c] = "unanswered" /\ op[c] \in {"write", "read"} THEN "presumed"
     ELSE IF code[c] \in Unsure THEN "unknown" ELSE code[c]]

Contract == INSTANCE ToolContract WITH report <- Report

\* A tool submits its operation at most once, also when it goes from the native
\* endpoint to the WebSocket, and its report is true: "done" only when the
\* Supervisor or the Device Builder has executed it, an error that sounds like
\* nothing happened only when nothing did or will, and a time-out or a broken
\* connection as such.  What is reported on no answer ("Config updated." of a write
\* whose connection closed) was at least submitted.
ImplementsContract == Contract!Spec

\* Every tool call ends, whatever the Supervisor, the add-on and the network do:
\* each of its awaits but the sending of a frame, which is taken to return at once,
\* has a time-out, and messages of others do not put off the deadline.
CallsEnd == \A c \in Calls : (pc[c] # "idle") ~> (pc[c] = "idle")
=============================================================================
