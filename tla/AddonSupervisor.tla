--------------------------- MODULE AddonSupervisor ---------------------------
(***************************************************************************)
(* The ESPHome add-on as the Supervisor sees it, and the tool calls that go *)
(* to the Supervisor (addon_tools.py): the add-on is resolved, then an      *)
(* action is run on it or its options are merged and written back.          *)
(*                                                                         *)
(* The calls run on Home Assistant's event loop.  Each await on the         *)
(* Supervisor is a point at which other calls, a user of the Supervisor and *)
(* the add-on itself go on; each has a time-out, and its answer may be      *)
(* lost.  DeviceBuilder adds the calls that talk to the add-on.             *)
(***************************************************************************)
EXTENDS Integers

CONSTANTS Calls,      \* the tool calls of a behaviour
          Asks,       \* bound: what the calls are made for, together
          Fields,     \* the options of the add-on, at the depth of a merge
          Names,      \* bound: the options that a call names
          KeyOf,      \* the top-level option each is, or is part of
          Schema,     \* the top-level options the add-on's schema names
          Default, User, Unset,   \* values of an option besides the calls
          MaxBoots,   \* bound: how often the add-on is started
          MaxEdits    \* bound: how often a user edits the options

Halting == {"stop", "uninstall"}
Actions == Halting \cup {"install", "update", "rebuild", "start", "restart"}
ManageOps == Actions \cup {"options"}
BuilderOps == {"write", "read", "native", "http", "raw", "follow", "logs"}
Ops == ManageOps \cup BuilderOps \cup {"none"}
Values == Calls \cup {Default, User, Unset}

ASSUME CallsAssumption == Calls \cap {Default, User, Unset} = {}
ASSUME AsksAssumption == Asks \subseteq [Calls -> Ops]
ASSUME NamesAssumption == Names \subseteq SUBSET Fields
ASSUME BoundsAssumption == MaxBoots \in Nat /\ MaxEdits \in Nat

\* What a call may tell its caller.  After these nothing has been or will be
\* done: the add-on was not found, does not run, cannot be reached, has no such
\* capability, or has refused
Refusals == {"unresolved", "not_running", "no_route", "unavailable", "rejected"}
\* After these the caller cannot know; "unanswered" is the success of a WebSocket
\* command that ended with no answer
Unsure == {"timeout", "lost", "garbled", "failed", "unanswered", "cancelled"}
Codes == {"open", "done"} \cup Refusals \cup Unsure

VARIABLES
  running,   \* the add-on's process runs
  boot,      \* which start of the process this is
  native,    \* the installed Device Builder has the native MCP endpoint
  options,   \* the add-on's options at the Supervisor
  edits,     \* how often a user has edited them
  op,        \* what each call is made for; "none" if it is not made
  named,     \* the options a call is made to change
  pc,        \* the await each call stands at
  code,      \* what it has told its caller
  effect,    \* what became of its operation
  seen,      \* the add-on's info in the Supervisor's answer to the call
  dirty      \* history: options changed by others since then

addonVars == <<running, boot, native, options, edits>>
request == <<op, named>>
callVars == <<request, pc, code, effect, seen>>
supervisorVars == <<addonVars, callVars, dirty>>

Unread == [up |-> FALSE, options |-> [f \in Fields |-> Unset]]

SupervisorInit ==
  /\ running \in BOOLEAN /\ boot = 0 /\ native \in BOOLEAN
  /\ options = [f \in Fields |-> Default] /\ edits = 0
  /\ op \in Asks /\ named \in [Calls -> Names \cup {{}}]
  /\ \A c \in Calls : (named[c] = {}) <=> (op[c] # "options")
  /\ pc = [c \in Calls |-> "idle"] /\ code = [c \in Calls |-> "open"]
  /\ effect = [c \in Calls |-> "none"]
  /\ seen = [c \in Calls |-> Unread] /\ dirty = [c \in Calls |-> {}]

Go(c, where) == pc' = [pc EXCEPT ![c] = where] /\ UNCHANGED code
End(c, k) == pc' = [pc EXCEPT ![c] = "idle"] /\ code' = [code EXCEPT ![c] = k]
Submit(c) == effect' = [effect EXCEPT ![c] = "pending"]
Submitted(c) == effect[c] = "pending" /\ op[c] \in ManageOps

\* The options change, and those who have read them before do not know
ChangeOptions(new, by) ==
  /\ options' = new
  /\ dirty' = [c \in Calls |->
       IF c = by \/ op[c] # "options" THEN dirty[c]
       ELSE dirty[c] \cup {f \in Fields : new[f] # options[f]}]

\* The add-on is started, perhaps in another version, or stopped
Boot == boot < MaxBoots /\ running' = TRUE /\ boot' = boot + 1 /\ native' \in BOOLEAN
Halt == running' = FALSE /\ UNCHANGED <<boot, native>>

-----------------------------------------------------------------------------
(* The calls.                                                              *)

\* A tool is called; the coroutine awaits the Supervisor for the add-on's info
Begin(c) ==
  /\ pc[c] = "idle" /\ code[c] = "open" /\ op[c] \notin {"install", "none"}
  /\ Go(c, "info")
  /\ UNCHANGED <<addonVars, request, effect, seen, dirty>>

\* An add-on that is not installed cannot be resolved: the action is posted
Install(c) ==
  /\ pc[c] = "idle" /\ code[c] = "open" /\ op[c] = "install"
  /\ Submit(c) /\ Go(c, "posted")
  /\ UNCHANGED <<addonVars, request, seen, dirty>>

\* The Supervisor reads the info of the add-on and answers with it
InfoRead(c) ==
  /\ pc[c] = "info"
  /\ seen' = [seen EXCEPT ![c].up = op[c] \in BuilderOps /\ running,
       ![c].options = IF op[c] = "options" THEN options ELSE @]
  /\ dirty' = [dirty EXCEPT ![c] = {}]
  /\ Go(c, "found")
  /\ UNCHANGED <<addonVars, request, effect>>

\* No answer, no or several such add-ons, or arguments that do not go together
InfoFails(c) ==
  /\ pc[c] \in {"info", "found"}
  /\ End(c, "unresolved")
  /\ UNCHANGED <<addonVars, request, effect, seen, dirty>>

\* The call resumes with the info and posts its action or the merged options
Post(c) ==
  /\ pc[c] = "found" /\ op[c] \in ManageOps
  /\ Submit(c) /\ Go(c, "posted")
  /\ UNCHANGED <<addonVars, request, seen, dirty>>

\* Mutant of Merged: an option given as an object replaces the current object
Merged_Shallow(c) ==
  [f \in Fields |->
     LET given == {g \in named[c] : KeyOf[g] = KeyOf[f]} IN
       IF given = {} THEN seen[c].options[f]
       ELSE IF f \in given /\ KeyOf[f] \in Schema THEN c ELSE Unset]

\* The options a call posts: those it has read, with those it names over them, one
\* level deep; a named one that the schema does not know is left out
Merged(c) ==
  [f \in Fields |->
     LET given == {g \in named[c] : KeyOf[g] = KeyOf[f]} IN
       IF given # {} /\ KeyOf[f] \notin Schema THEN Unset
       ELSE IF f \in given THEN c ELSE seen[c].options[f]]

\* The Supervisor carries out what was posted, also when no one waits for it
WritesOptions(c) ==
  /\ Submitted(c) /\ op[c] = "options"
  /\ ChangeOptions(Merged(c), c)
  /\ effect' = [effect EXCEPT ![c] = "applied"]
  /\ UNCHANGED <<running, boot, native, edits, request, pc, code, seen>>

RunsAction(c) ==
  /\ Submitted(c) /\ op[c] \in Actions
  /\ \/ op[c] \in Halting /\ Halt
     \/ op[c] \notin Halting /\ Boot
     \/ op[c] \notin Halting /\ UNCHANGED <<running, boot, native>>
  /\ effect' = [effect EXCEPT ![c] = "applied"]
  /\ UNCHANGED <<options, edits, request, pc, code, seen, dirty>>

SupervisorRefuses(c) ==
  /\ Submitted(c)
  /\ effect' = [effect EXCEPT ![c] = "refused"]
  /\ UNCHANGED <<addonVars, request, pc, code, seen, dirty>>

\* Its success arrives
Posted(c) ==
  /\ pc[c] = "posted" /\ effect[c] = "applied"
  /\ End(c, "done")
  /\ UNCHANGED <<addonVars, request, effect, seen, dirty>>

\* A refusal, an error or no answer in time: the caller is told the same
PostFails(c) ==
  /\ pc[c] = "posted"
  /\ End(c, "failed")
  /\ UNCHANGED <<addonVars, request, effect, seen, dirty>>

-----------------------------------------------------------------------------
(* The Supervisor's user and the add-on itself.                            *)

UserEdits(f) ==
  /\ edits < MaxEdits /\ edits' = edits + 1
  /\ ChangeOptions([options EXCEPT ![f] = User], User)
  /\ UNCHANGED <<running, boot, native, callVars>>

AddonStarts ==
  /\ ~running /\ Boot
  /\ UNCHANGED <<options, edits, callVars, dirty>>

AddonStops ==
  /\ running /\ Halt
  /\ UNCHANGED <<options, edits, callVars, dirty>>

AddonStep == AddonStarts \/ AddonStops \/ \E f \in Fields : UserEdits(f)

ManageStep(c) ==
  \/ Begin(c) \/ Install(c) \/ InfoRead(c) \/ InfoFails(c) \/ Post(c)
  \/ WritesOptions(c) \/ RunsAction(c) \/ SupervisorRefuses(c)
  \/ Posted(c) \/ PostFails(c)

SupervisorTypes ==
  /\ running \in BOOLEAN /\ boot \in 0 .. MaxBoots /\ native \in BOOLEAN
  /\ options \in [Fields -> Values] /\ edits \in 0 .. MaxEdits
  /\ op \in [Calls -> Ops]
  /\ named \in [Calls -> SUBSET Fields] /\ code \in [Calls -> Codes]
  /\ effect \in [Calls -> {"none", "pending", "applied", "refused"}]
  /\ seen \in [Calls -> [up : BOOLEAN, options : [Fields -> Values]]]
  /\ dirty \in [Calls -> SUBSET Fields]

\* An options call changes what it names and nothing else, unless another writer
\* came between the Supervisor's answer and its write, or the schema does not know
\* the option at all: what is posted is merged from the options as they were read,
\* and no lock is held meanwhile (_execute_config_update).
LosesOnlyRaces ==
  [][\A c \in Calls, f \in Fields :
       WritesOptions(c) /\ options'[f] # options[f] /\ KeyOf[f] \in Schema =>
         f \in named[c] \cup dirty[c]]_supervisorVars
=============================================================================
