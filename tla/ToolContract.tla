----------------------------- MODULE ToolContract ----------------------------
(***************************************************************************)
(* What a tool call promises about the one operation it is made for,        *)
(* whatever it talks to: the operation is submitted at most once, only      *)
(* while the call is open, and the call's report is true.  "done" says that *)
(* the operation was executed, "refused" that it never is; when the call    *)
(* cannot know, it says so ("unknown"), and the operation may be executed   *)
(* after the call has ended.  The one report that may be wrong is           *)
(* "presumed": a success that rests on no answer.  It is made only of an    *)
(* operation that was submitted.                                            *)
(***************************************************************************)
CONSTANT Calls

VARIABLES effect,   \* what became of each call's operation
          report    \* what each call has told its caller

vars == <<effect, report>>

Init ==
  /\ effect = [c \in Calls |-> "none"]
  /\ report = [c \in Calls |-> "open"]

Submit(c) ==
  /\ report[c] = "open" /\ effect[c] = "none"
  /\ effect' = [effect EXCEPT ![c] = "pending"]
  /\ UNCHANGED report

Execute(c) ==
  /\ effect[c] = "pending"
  /\ \E e \in {"applied", "refused"} : effect' = [effect EXCEPT ![c] = e]
  /\ UNCHANGED report

ReportDone(c) ==
  /\ report[c] = "open" /\ effect[c] = "applied"
  /\ report' = [report EXCEPT ![c] = "done"]
  /\ UNCHANGED effect

ReportRefused(c) ==
  /\ report[c] = "open" /\ effect[c] \in {"none", "refused"}
  /\ report' = [report EXCEPT ![c] = "refused"]
  /\ UNCHANGED effect

ReportUnknown(c) ==
  /\ report[c] = "open"
  /\ report' = [report EXCEPT ![c] = "unknown"]
  /\ UNCHANGED effect

ReportPresumed(c) ==
  /\ report[c] = "open" /\ effect[c] # "none"
  /\ report' = [report EXCEPT ![c] = "presumed"]
  /\ UNCHANGED effect

Next ==
  \E c \in Calls :
    Submit(c) \/ Execute(c) \/ ReportDone(c) \/ ReportRefused(c)
                \/ ReportUnknown(c) \/ ReportPresumed(c)

Spec == Init /\ [][Next]_vars
=============================================================================
