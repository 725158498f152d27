------------------------- MODULE DeviceBuilderProofs -------------------------
(***************************************************************************)
(* DeviceBuilder keeps its types, implements ToolContract and loses options *)
(* to races only, for every set of calls, options and bounds.               *)
(***************************************************************************)
EXTENDS DeviceBuilder, SequenceTheorems, TLAPS

USE CallsAssumption, AsksAssumption, NamesAssumption, BoundsAssumption, LimitsAssumption

\* Where nothing has been submitted yet, where something has been, and where the
\* call talks to the add-on.
Early == {"idle", "info", "found", "session", "connect", "hello", "initialize", "list"}
Late == {"posted", "listen", "called"}
AtBuilder == {"session", "connect", "hello", "listen", "initialize", "list", "called"}

\* A frame in flight tells what became of the operation.
Tells(s, e) ==
  \A i \in 1 .. Len(s) :
    /\ s[i] \in {"result", "event", "final"} => e = "applied"
    /\ s[i] = "error" => e = "refused"

\* How far a call has come agrees with what became of its operation.
CallOK(c) ==
  /\ pc[c] # "idle" => code[c] = "open"
  /\ code[c] = "open" /\ pc[c] \in Early => effect[c] = "none"
  /\ pc[c] \in Late => effect[c] # "none"
  /\ pc[c] \in AtBuilder => op[c] \in BuilderOps
  /\ answered[c] => effect[c] = "applied"
  /\ Tells(inbox[c], effect[c])

\* Options that differ from those a call has read were changed by others.
Unraced(c) ==
  op[c] = "options" /\ (pc[c] = "found" \/ effect[c] = "pending") =>
    \A f \in Fields : options[f] # seen[c].options[f] => f \in dirty[c]

IInv == TypeOK /\ \A c \in Calls : CallOK(c) /\ Unraced(c)

-----------------------------------------------------------------------------
(* Frames.                                                                 *)

LEMMA TellsLess ==
  ASSUME NEW s \in Seq(Frames), NEW e, Tells(s, e)
  PROVE  /\ s # <<>> => Tail(s) \in Seq(Frames) /\ Len(Tail(s)) <= Len(s) /\ Tells(Tail(s), e)
         /\ \A n \in 0 .. Len(s) :
              SubSeq(s, 1, n) \in Seq(Frames) /\ Len(SubSeq(s, 1, n)) <= Len(s) /\ Tells(SubSeq(s, 1, n), e)
<1>1. ASSUME s # <<>> PROVE Tail(s) \in Seq(Frames) /\ Len(Tail(s)) <= Len(s) /\ Tells(Tail(s), e)
  BY <1>1, HeadTailProperties DEF Tells
<1>2. ASSUME NEW n \in 0 .. Len(s)
      PROVE  SubSeq(s, 1, n) \in Seq(Frames) /\ Len(SubSeq(s, 1, n)) <= Len(s) /\ Tells(SubSeq(s, 1, n), e)
  <2>1. \A i \in 1 .. n : s[i] \in Frames
    OBVIOUS
  <2>2. /\ SubSeq(s, 1, n) \in Seq(Frames)
        /\ Len(SubSeq(s, 1, n)) = n
        /\ \A i \in 1 .. n : SubSeq(s, 1, n)[i] = s[i]
    BY <2>1, SubSeqProperties
  <2> QED BY <2>2 DEF Tells
<1> QED BY <1>1, <1>2

LEMMA TellsMore ==
  ASSUME NEW s \in Seq(Frames), NEW e, Tells(s, e), NEW x \in Frames,
         x \in {"result", "event", "final"} => e = "applied", x = "error" => e = "refused"
  PROVE  Append(s, x) \in Seq(Frames) /\ Len(Append(s, x)) = Len(s) + 1 /\ Tells(Append(s, x), e)
  BY AppendProperties DEF Tells

LEMMA TellsNow ==
  ASSUME NEW s \in Seq(Frames), NEW e, Tells(s, e), s # <<>>
  PROVE  /\ Head(s) \in {"result", "event", "final"} => e = "applied"
         /\ Head(s) = "error" => e = "refused"
  BY DEF Tells

\* What has been submitted only now, no frame in flight tells of.
LEMMA TellsNothing ==
  ASSUME NEW s, Tells(s, "none") \/ Tells(s, "pending"), NEW e
  PROVE  Tells(s, e)
  BY DEF Tells

-----------------------------------------------------------------------------

LEMMA InitIInv == Init => IInv
<1> SUFFICES ASSUME Init PROVE IInv
  OBVIOUS
<1>1. op \in [Calls -> Ops] /\ named \in [Calls -> SUBSET Fields]
  BY DEF Init, SupervisorInit
<1>2. seen \in [Calls -> [up : BOOLEAN, options : [Fields -> Values]]]
  BY DEF Init, SupervisorInit, Unread, Values
<1>3. SupervisorTypes
  BY <1>1, <1>2 DEF Init, SupervisorInit, SupervisorTypes, Values, Codes
<1>4. <<>> \in Seq(Frames) /\ Len(<<>>) = 0
  OBVIOUS
<1>5. TypeOK
  BY <1>3, <1>4 DEF Init, SupervisorInit, TypeOK, Places
<1>6. ASSUME NEW c \in Calls PROVE CallOK(c) /\ Unraced(c)
  <2>1. pc[c] = "idle" /\ code[c] = "open" /\ effect[c] = "none" /\ ~answered[c] /\ inbox[c] = <<>>
    BY DEF Init, SupervisorInit
  <2> QED BY <1>4, <2>1 DEF CallOK, Unraced, Tells, Early, Late, AtBuilder
<1> QED BY <1>5, <1>6 DEF IInv

-----------------------------------------------------------------------------
(* A call ends.                                                            *)

\* What a call may tell, given what became of its operation.
Truthful(c, k) ==
  /\ k \in Codes \ {"open"}
  /\ k \in Refusals => effect[c] \in {"none", "refused"}
  /\ k = "done" => effect[c] = "applied"
  /\ k = "unanswered" => effect[c] # "none"

Ends(c) == pc[c] # "idle" /\ \E k \in Codes : Truthful(c, k) /\ Close(c, k)

LEMMA EndKeeps == ASSUME IInv, NEW c \in Calls, Ends(c) PROVE IInv'
<1>1. PICK k \in Codes : Truthful(c, k) /\ Close(c, k)
  BY DEF Ends
<1> USE DEF IInv, Close, End, Reset, unmanaged, request, addonVars
<1>2. TypeOK'
  <2>1. <<>> \in Seq(Frames) /\ Len(<<>>) = 0
    OBVIOUS
  <2> QED BY <1>1, <2>1 DEF TypeOK, SupervisorTypes, Places
<1>3. \A d \in Calls : CallOK(d)'
  BY <1>1 DEF CallOK, TypeOK, SupervisorTypes, Truthful, Early, Late, AtBuilder, Tells
<1>4. \A d \in Calls : Unraced(d)'
  BY <1>1 DEF Unraced, TypeOK, SupervisorTypes
<1> QED BY <1>2, <1>3, <1>4

-----------------------------------------------------------------------------
(* A call goes on.                                                         *)

\* A frame is read that does not end the call.
Listens(c) ==
  /\ pc[c] = "listen" /\ inbox[c] # <<>> /\ left[c] > 0 /\ Go(c, "listen")
  /\ inbox' = [inbox EXCEPT ![c] = Tail(@)]
  /\ left' \in {left, [left EXCEPT ![c] = @ - 1]}
  /\ answered' = answered \/ (Head(inbox[c]) = "result" /\ answered' = [answered EXCEPT ![c] = TRUE])
  /\ UNCHANGED <<unmanaged, effect, fellBack, peer, link>>

FallsBack(c) ==
  /\ pc[c] \in {"initialize", "list"} /\ Go(c, "info") /\ Reset(c)
  /\ fellBack' = [fellBack EXCEPT ![c] = TRUE]
  /\ UNCHANGED <<unmanaged, effect, peer>>

\* Every way in which a call ends is truthful, and there are nine others to go on.
LEMMA CallShapes ==
  ASSUME IInv, NEW c \in Calls, CallStep(c)
  PROVE  \/ Ends(c) \/ AskSession(c) \/ SessionMade(c) \/ Connected(c) \/ Greeted(c)
         \/ Listens(c) \/ Initialized(c) \/ FallsBack(c) \/ PageRead(c) \/ CallTool(c)
<1>0. CallOK(c) /\ effect[c] \in {"none", "pending", "applied", "refused"} /\ inbox[c] \in Seq(Frames)
  BY DEF IInv, TypeOK, SupervisorTypes
<1>1. \A k \in Unsure \ {"unanswered"} : Truthful(c, k)
  BY DEF Truthful, Unsure, Codes, Refusals
<1>2. pc[c] \in Early /\ pc[c] # "idle" => \A k \in Refusals : Truthful(c, k)
  BY <1>0 DEF Truthful, Unsure, Codes, Refusals, CallOK
<1>3. pc[c] = "listen" => Truthful(c, "unanswered") /\ (answered[c] => Truthful(c, "done"))
  BY <1>0 DEF Truthful, Unsure, Codes, Refusals, CallOK, Late
<1>4. effect[c] = "applied" => Truthful(c, "done")
  BY DEF Truthful, Codes, Refusals, Unsure
<1>5. effect[c] = "refused" => Truthful(c, "rejected")
  BY DEF Truthful, Codes, Refusals, Unsure
<1>6. ASSUME NEW k, Truthful(c, k), pc[c] # "idle", Close(c, k) PROVE Ends(c)
  BY <1>6 DEF Ends, Truthful
<1>7. ASSUME NEW k, Truthful(c, k), pc[c] = "listen", Finish(c, k) PROVE Ends(c)
  BY <1>1, <1>6, <1>7 DEF Finish, Unsure
<1>8. pc[c] = "listen" => Truthful(c, LastReason(c))
  BY <1>3 DEF LastReason
<1>9. CASE NotRunning(c) \/ SessionFails(c) \/ ConnectFails(c) \/ HelloFails(c)
  BY <1>1, <1>2, <1>6, <1>9 DEF NotRunning, SessionFails, ConnectFails, HelloFails, Early, Refusals, Unsure
<1>10. CASE LimitReached(c) \/ Expires(c) \/ LinkEnds(c)
  BY <1>3, <1>7, <1>8, <1>10 DEF LimitReached, Expires, LinkEnds
<1>11. CASE Receive(c)
  <2>1. /\ Head(inbox[c]) \in {"result", "event", "final"} => effect[c] = "applied"
        /\ Head(inbox[c]) = "error" => effect[c] = "refused"
    BY <1>0, <1>11, TellsNow DEF Receive, CallOK
  <2>2. pc[c] = "listen" /\ left[c] > 0 /\ inbox[c] # <<>>
    BY <1>11 DEF Receive
  <2>3. CASE Head(inbox[c]) = "other"
    BY <2>2, <2>3, <1>11 DEF Receive, Listens
  <2>4. CASE Head(inbox[c]) = "event"
    BY <2>2, <2>4, <1>11 DEF Receive, Listens
  <2>5. CASE Head(inbox[c]) = "result" /\ op[c] \in Streams
    BY <2>2, <2>5, <1>11 DEF Receive, Listens
  <2>6. CASE Head(inbox[c]) = "result" /\ op[c] \notin Streams
    BY <2>1, <2>2, <2>6, <1>4, <1>6, <1>11 DEF Receive
  <2>7. CASE Head(inbox[c]) = "error"
    BY <2>1, <2>2, <2>7, <1>5, <1>6, <1>11 DEF Receive
  <2>8. CASE Head(inbox[c]) = "final"
    BY <2>1, <2>2, <2>8, <1>4, <1>7, <1>11 DEF Receive
  <2> QED BY <2>3, <2>4, <2>5, <2>6, <2>7, <2>8, <1>11 DEF Receive
<1>12. CASE EndpointMissing(c) \/ ToolMissing(c)
  <2>1. pc[c] \in {"initialize", "list"} /\ Unavailable(c)
    BY <1>12 DEF EndpointMissing, ToolMissing
  <2>2. Truthful(c, "unavailable")
    BY <2>1, <1>2 DEF Early, Refusals
  <2> QED BY <2>1, <2>2, <1>6 DEF Unavailable, FallsBack
<1>13. CASE Answered(c)
  BY <1>1, <1>4, <1>5, <1>6, <1>13 DEF Answered, Unsure
<1>14. CASE NativeFails(c) \/ Cancelled(c)
  BY <1>1, <1>6, <1>14 DEF NativeFails, Cancelled, Unsure
<1> QED BY <1>9, <1>10, <1>11, <1>12, <1>13, <1>14 DEF CallStep

LEMMA GoesOnKeeps ==
  ASSUME IInv, NEW c \in Calls,
         \/ AskSession(c) \/ SessionMade(c) \/ Connected(c) \/ Greeted(c)
         \/ Listens(c) \/ Initialized(c) \/ FallsBack(c) \/ PageRead(c) \/ CallTool(c)
  PROVE  IInv'
<1> USE DEF Go, unmanaged, addonVars, builderVars, connection, request, IInv
<1>0. TypeOK /\ SupervisorTypes /\ \A d \in Calls : CallOK(d) /\ Unraced(d)
  BY DEF TypeOK
<1>1. CASE AskSession(c)
  <2>1. TypeOK'
    BY <1>0, <1>1 DEF AskSession, TypeOK, SupervisorTypes, Places
  <2>2. \A d \in Calls : CallOK(d)' /\ Unraced(d)'
    BY <1>0, <1>1 DEF AskSession, TypeOK, SupervisorTypes, CallOK, Unraced, Early, Late, AtBuilder
  <2> QED BY <2>1, <2>2
<1>2. CASE SessionMade(c)
  <2>1. TypeOK'
    <3>1. CASE Go(c, "connect") /\ UNCHANGED <<effect, peer>>
      BY <1>0, <1>2, <3>1 DEF SessionMade, TypeOK, SupervisorTypes, Places
    <3>2. CASE Go(c, "initialize") /\ UNCHANGED <<effect, peer>>
      BY <1>0, <1>2, <3>2 DEF SessionMade, TypeOK, SupervisorTypes, Places
    <3>3. CASE SubmitTo(c, "called")
      BY <1>0, <1>2, <3>3 DEF SessionMade, SubmitTo, Submit, TypeOK, SupervisorTypes, Places
    <3> QED BY <1>2, <3>1, <3>2, <3>3 DEF SessionMade
  <2>2. \A d \in Calls : CallOK(d)' /\ Unraced(d)'
    BY <1>0, <1>2, TellsNothing DEF SessionMade, SubmitTo, Submit, TypeOK, SupervisorTypes, CallOK, Unraced,
       Early, Late, AtBuilder, BuilderOps
  <2> QED BY <2>1, <2>2
<1>3. CASE Connected(c)
  <2>1. TypeOK'
    <3>1. left' \in [Calls -> Nat]
      BY <1>3 DEF Connected, TypeOK
    <3>2. /\ pc' \in [Calls -> Places] /\ pc'[c] \in {"hello", "listen"}
          /\ \A d \in Calls : d # c => pc'[d] = pc[d]
      BY <1>3 DEF Connected, SubmitTo, TypeOK, Places
    <3>3. link' \in [Calls -> BOOLEAN] /\ \A d \in Calls : d # c => link'[d] = link[d]
      BY <1>3 DEF Connected, TypeOK
    <3>4. effect' \in [Calls -> {"none", "pending", "applied", "refused"}] /\ UNCHANGED code
      BY <1>0, <1>3 DEF Connected, SubmitTo, Submit, SupervisorTypes
    <3>5. peer' \in [Calls -> 0 .. MaxBoots]
      <4>1. peer' = [peer EXCEPT ![c] = boot]
        BY <1>3 DEF Connected, SubmitTo
      <4> QED BY <1>0, <4>1 DEF SupervisorTypes, TypeOK
    <3>6. UNCHANGED <<addonVars, request, seen, dirty, fellBack, inbox, answered>>
      BY <1>3 DEF Connected
    <3> QED
      BY <1>0, <3>1, <3>2, <3>3, <3>4, <3>5, <3>6 DEF TypeOK, SupervisorTypes
  <2>2. \A d \in Calls : CallOK(d)' /\ Unraced(d)'
    BY <1>0, <1>3, TellsNothing DEF Connected, SubmitTo, Submit, TypeOK, SupervisorTypes, CallOK, Unraced,
       Early, Late, AtBuilder, BuilderOps
  <2> QED BY <2>1, <2>2
<1>4. CASE Greeted(c)
  <2>1. TypeOK'
    BY <1>0, <1>4 DEF Greeted, Submit, TypeOK, SupervisorTypes, Places
  <2>2. \A d \in Calls : CallOK(d)' /\ Unraced(d)'
    BY <1>0, <1>4, TellsNothing DEF Greeted, Submit, TypeOK, SupervisorTypes, CallOK, Unraced,
       Early, Late, AtBuilder, BuilderOps
  <2> QED BY <2>1, <2>2
<1>5. CASE Listens(c)
  <2>1. Tail(inbox[c]) \in Seq(Frames) /\ Len(Tail(inbox[c])) <= Len(inbox[c]) /\ Tells(Tail(inbox[c]), effect[c])
    BY <1>0, <1>5, TellsLess DEF Listens, TypeOK, CallOK
  <2>2. Head(inbox[c]) = "result" => effect[c] = "applied"
    BY <1>0, <1>5, TellsNow DEF Listens, TypeOK, CallOK
  <2>3. TypeOK'
    <3>1. left' \in [Calls -> Nat]
      BY <1>5 DEF Listens, TypeOK
    <3>2. inbox' \in [Calls -> Seq(Frames)] /\ \A d \in Calls : Len(inbox'[d]) <= MaxInbox
      <4>1. Len(inbox[c]) \in Nat /\ Len(Tail(inbox[c])) \in Nat /\ Len(inbox[c]) <= MaxInbox
        BY <2>1 DEF TypeOK
      <4>2. inbox' = [inbox EXCEPT ![c] = Tail(inbox[c])]
        BY <1>5 DEF Listens
      <4> QED BY <2>1, <4>1, <4>2 DEF TypeOK
    <3>3. answered' \in [Calls -> BOOLEAN] /\ \A d \in Calls : d # c => answered'[d] = answered[d]
      BY <1>5 DEF Listens, TypeOK
    <3>4. pc' \in [Calls -> Places] /\ pc'[c] = "listen" /\ \A d \in Calls : d # c => pc'[d] = pc[d]
      BY <1>5 DEF Listens, TypeOK, Places
    <3>5. \A d \in Calls : d # c => inbox'[d] = inbox[d]
      BY <1>5 DEF Listens, TypeOK
    <3>6. UNCHANGED <<addonVars, request, seen, dirty, code, effect, fellBack, peer, link>>
      BY <1>5 DEF Listens
    <3> QED
      BY <1>0, <3>1, <3>2, <3>3, <3>4, <3>5, <3>6 DEF TypeOK, SupervisorTypes
  <2>4. \A d \in Calls : CallOK(d)' /\ Unraced(d)'
    BY <1>0, <1>5, <2>1, <2>2 DEF Listens, TypeOK, SupervisorTypes, CallOK, Unraced, Early, Late, AtBuilder
  <2> QED BY <2>3, <2>4
<1>6. CASE Initialized(c)
  <2>1. TypeOK'
    BY <1>0, <1>6 DEF Initialized, TypeOK, SupervisorTypes, Places
  <2>2. \A d \in Calls : CallOK(d)' /\ Unraced(d)'
    BY <1>0, <1>6 DEF Initialized, TypeOK, SupervisorTypes, CallOK, Unraced, Early, Late, AtBuilder
  <2> QED BY <2>1, <2>2
<1>7. CASE FallsBack(c)
  <2>0. <<>> \in Seq(Frames) /\ Len(<<>>) = 0
    OBVIOUS
  <2>1. TypeOK'
    BY <1>0, <1>7, <2>0 DEF FallsBack, Reset, TypeOK, SupervisorTypes, Places
  <2>2. \A d \in Calls : CallOK(d)' /\ Unraced(d)'
    BY <1>0, <1>7, <2>0 DEF FallsBack, Reset, TypeOK, SupervisorTypes, CallOK, Unraced, Early, Late, AtBuilder, Tells
  <2> QED BY <2>1, <2>2
<1>8. CASE PageRead(c)
  <2>1. TypeOK'
    BY <1>0, <1>8 DEF PageRead, TypeOK, SupervisorTypes, Places
  <2>2. \A d \in Calls : CallOK(d)' /\ Unraced(d)'
    BY <1>0, <1>8 DEF PageRead, TypeOK, SupervisorTypes, CallOK, Unraced, Early, Late, AtBuilder
  <2> QED BY <2>1, <2>2
<1>9. CASE CallTool(c)
  <2>1. TypeOK'
    BY <1>0, <1>9 DEF CallTool, SubmitTo, Submit, TypeOK, SupervisorTypes, Places
  <2>2. \A d \in Calls : CallOK(d)' /\ Unraced(d)'
    BY <1>0, <1>9, TellsNothing DEF CallTool, SubmitTo, Submit, TypeOK, SupervisorTypes, CallOK, Unraced,
       Early, Late, AtBuilder, BuilderOps
  <2> QED BY <2>1, <2>2
<1> QED BY <1>1, <1>2, <1>3, <1>4, <1>5, <1>6, <1>7, <1>8, <1>9

-----------------------------------------------------------------------------
(* The Supervisor, its user, and the add-on.                               *)

LEMMA MergedType ==
  ASSUME TypeOK, NEW c \in Calls PROVE Merged(c) \in [Fields -> Values]
  BY DEF Merged, TypeOK, SupervisorTypes, Values

LEMMA ProcessType ==
  ASSUME SupervisorTypes, Boot \/ Halt \/ UNCHANGED <<running, boot, native>>
  PROVE  running' \in BOOLEAN /\ boot' \in 0 .. MaxBoots /\ native' \in BOOLEAN
<1>1. boot' \in 0 .. MaxBoots
  BY DEF Boot, Halt, SupervisorTypes
<1>2. running' \in BOOLEAN /\ native' \in BOOLEAN
  BY Zenon DEF Boot, Halt, SupervisorTypes
<1> QED BY <1>1, <1>2

LEMMA ManageKeeps ==
  ASSUME IInv, NEW c \in Calls, ManageStep(c), UNCHANGED builderVars
  PROVE  IInv'
<1> USE DEF Go, addonVars, builderVars, request, IInv
<1>0. TypeOK /\ SupervisorTypes /\ \A d \in Calls : CallOK(d) /\ Unraced(d)
  BY DEF TypeOK
<1>1. CASE Begin(c)
  <2>1. TypeOK'
    BY <1>0, <1>1 DEF Begin, TypeOK, SupervisorTypes, Places
  <2>2. \A d \in Calls : CallOK(d)' /\ Unraced(d)'
    BY <1>0, <1>1 DEF Begin, TypeOK, SupervisorTypes, CallOK, Unraced, Early, Late, AtBuilder
  <2> QED BY <2>1, <2>2
<1>2. CASE Install(c)
  <2>1. TypeOK'
    BY <1>0, <1>2 DEF Install, Submit, TypeOK, SupervisorTypes, Places
  <2>2. \A d \in Calls : CallOK(d)' /\ Unraced(d)'
    BY <1>0, <1>2, TellsNothing DEF Install, Submit, TypeOK, SupervisorTypes, CallOK, Unraced, Early, Late, AtBuilder
  <2> QED BY <2>1, <2>2
<1>3. CASE InfoRead(c)
  <2>0. seen' \in [Calls -> [up : BOOLEAN, options : [Fields -> Values]]]
    <3>1. seen[c] \in [up : BOOLEAN, options : [Fields -> Values]] /\ options \in [Fields -> Values]
      BY <1>0 DEF SupervisorTypes
    <3>2. PICK r \in [up : BOOLEAN, options : [Fields -> Values]] : seen' = [seen EXCEPT ![c] = r]
      <4>1. DEFINE r == [up |-> op[c] \in BuilderOps /\ running,
                         options |-> IF op[c] = "options" THEN options ELSE seen[c].options]
      <4>2. r \in [up : BOOLEAN, options : [Fields -> Values]]
        BY <1>0, <3>1 DEF SupervisorTypes
      <4>3. seen' = [seen EXCEPT ![c] = [[seen[c] EXCEPT !.up = r.up] EXCEPT !.options = r.options]]
        BY <1>0, <1>3 DEF InfoRead, SupervisorTypes
      <4>4. [[seen[c] EXCEPT !.up = r.up] EXCEPT !.options = r.options] = r
        BY <3>1
      <4> QED BY <4>2, <4>3, <4>4
    <3> QED BY <1>0, <3>2 DEF SupervisorTypes
  <2>1. TypeOK'
    BY <1>0, <1>3, <2>0 DEF InfoRead, TypeOK, SupervisorTypes, Places
  <2>2. \A d \in Calls : CallOK(d)'
    BY <1>0, <1>3 DEF InfoRead, TypeOK, SupervisorTypes, CallOK, Early, Late, AtBuilder
  <2>3. \A d \in Calls : Unraced(d)'
    BY <1>0, <1>3 DEF InfoRead, TypeOK, SupervisorTypes, Unraced
  <2> QED BY <2>1, <2>2, <2>3
<1>4. CASE InfoFails(c) \/ Posted(c) \/ PostFails(c)
  <2>1. TypeOK'
    BY <1>0, <1>4 DEF InfoFails, Posted, PostFails, End, TypeOK, SupervisorTypes, Places, Codes, Refusals, Unsure
  <2>2. /\ pc' = [pc EXCEPT ![c] = "idle"] /\ UNCHANGED <<unmanaged, effect, answered, inbox>>
        /\ \E k \in Codes \ {"open"} : code' = [code EXCEPT ![c] = k]
    BY <1>4 DEF InfoFails, Posted, PostFails, End, Codes, Refusals, Unsure, unmanaged
  <2>3. \A d \in Calls : CallOK(d)'
    BY <1>0, <2>2 DEF TypeOK, SupervisorTypes, CallOK, Early, Late, AtBuilder, unmanaged
  <2>4. \A d \in Calls : Unraced(d)'
    BY <1>0, <2>2 DEF TypeOK, SupervisorTypes, Unraced, unmanaged
  <2> QED BY <2>1, <2>3, <2>4
<1>5. CASE Post(c)
  <2>1. TypeOK'
    BY <1>0, <1>5 DEF Post, Submit, TypeOK, SupervisorTypes, Places
  <2>2. \A d \in Calls : CallOK(d)' /\ Unraced(d)'
    BY <1>0, <1>5, TellsNothing DEF Post, Submit, TypeOK, SupervisorTypes, CallOK, Unraced, Early, Late, AtBuilder
  <2> QED BY <2>1, <2>2
<1>6. CASE WritesOptions(c)
  <2>1. options' \in [Fields -> Values]
    BY <1>6, MergedType DEF WritesOptions, ChangeOptions
  <2>2. dirty' \in [Calls -> SUBSET Fields]
    BY <1>0, <1>6 DEF WritesOptions, ChangeOptions, SupervisorTypes
  <2>3. TypeOK'
    BY <1>0, <1>6, <2>1, <2>2 DEF WritesOptions, TypeOK, SupervisorTypes
  <2>4. \A d \in Calls : CallOK(d)'
    BY <1>0, <1>6, TellsNothing DEF WritesOptions, Submitted, TypeOK, SupervisorTypes, CallOK, Early, Late, AtBuilder
  <2>5. \A d \in Calls : Unraced(d)'
    BY <1>0, <1>6 DEF WritesOptions, Submitted, ChangeOptions, CallOK, Late, Early, TypeOK, SupervisorTypes, Unraced
  <2> QED BY <2>3, <2>4, <2>5
<1>7. CASE RunsAction(c)
  <2>1. running' \in BOOLEAN /\ boot' \in 0 .. MaxBoots /\ native' \in BOOLEAN
    BY <1>0, <1>7, ProcessType DEF RunsAction
  <2>2. TypeOK'
    BY <1>0, <1>7, <2>1 DEF RunsAction, TypeOK, SupervisorTypes
  <2>3. \A d \in Calls : CallOK(d)' /\ Unraced(d)'
    BY <1>0, <1>7, TellsNothing DEF RunsAction, Submitted, TypeOK, SupervisorTypes, CallOK, Unraced, Early, Late, AtBuilder
  <2> QED BY <2>2, <2>3
<1>8. CASE SupervisorRefuses(c)
  <2>1. TypeOK'
    BY <1>0, <1>8 DEF SupervisorRefuses, TypeOK, SupervisorTypes
  <2>2. \A d \in Calls : CallOK(d)' /\ Unraced(d)'
    BY <1>0, <1>8, TellsNothing DEF SupervisorRefuses, Submitted, TypeOK, SupervisorTypes, CallOK, Unraced, Early, Late, AtBuilder
  <2> QED BY <2>1, <2>2
<1> QED BY <1>1, <1>2, <1>3, <1>4, <1>5, <1>6, <1>7, <1>8 DEF ManageStep

LEMMA AddonKeeps ==
  ASSUME IInv, AddonStep, UNCHANGED builderVars
  PROVE  IInv'
<1> USE DEF addonVars, callVars, builderVars, request, IInv
<1>0. TypeOK /\ SupervisorTypes /\ \A d \in Calls : CallOK(d) /\ Unraced(d)
  BY DEF TypeOK
<1>1. CASE AddonStarts \/ AddonStops
  <2>1. running' \in BOOLEAN /\ boot' \in 0 .. MaxBoots /\ native' \in BOOLEAN
    BY <1>0, <1>1, ProcessType DEF AddonStarts, AddonStops
  <2>2. UNCHANGED <<options, edits, callVars, dirty>>
    BY <1>1 DEF AddonStarts, AddonStops
  <2> QED BY <1>0, <2>1, <2>2 DEF TypeOK, SupervisorTypes, CallOK, Unraced
<1>2. ASSUME NEW f \in Fields, UserEdits(f) PROVE IInv'
  <2>1. options' \in [Fields -> Values] /\ dirty' \in [Calls -> SUBSET Fields]
    BY <1>0, <1>2 DEF UserEdits, ChangeOptions, SupervisorTypes, Values
  <2>2. edits' \in 0 .. MaxEdits
    BY <1>0, <1>2 DEF UserEdits, SupervisorTypes
  <2>3. TypeOK'
    BY <1>0, <1>2, <2>1, <2>2 DEF UserEdits, TypeOK, SupervisorTypes
  <2>4. \A d \in Calls : CallOK(d)'
    BY <1>0, <1>2 DEF UserEdits, CallOK
  <2>5. \A d \in Calls : Unraced(d)'
    BY <1>0, <1>2 DEF UserEdits, ChangeOptions, Unraced, TypeOK, SupervisorTypes
  <2> QED BY <2>3, <2>4, <2>5
<1> QED BY <1>1, <1>2 DEF AddonStep

LEMMA PeerKeeps ==
  ASSUME IInv, NEW c \in Calls, PeerStep(c)
  PROVE  IInv'
<1> USE DEF unmanaged, addonVars, request, IInv
<1>0. TypeOK /\ SupervisorTypes /\ \A d \in Calls : CallOK(d) /\ Unraced(d)
  BY DEF TypeOK
<1>1. Len(inbox[c]) \in Nat /\ inbox[c] \in Seq(Frames)
  BY DEF TypeOK
<1>2. CASE BuilderExecutes(c)
  <2>1. PICK e \in {"applied", "refused"} : effect' = [effect EXCEPT ![c] = e]
    BY <1>2 DEF BuilderExecutes
  <2>2. effect[c] = "pending" /\ op[c] \in BuilderOps /\ UNCHANGED <<unmanaged, pc, code, fellBack, peer, link, left, answered>>
    BY <1>2 DEF BuilderExecutes, Reached
  <2>3. PICK s \in Seq(Frames) :
          /\ inbox' = [inbox EXCEPT ![c] = s]
          /\ s # inbox[c] => link[c]
          /\ Len(s) <= MaxInbox /\ Tells(s, e)
    <3>1. Tells(inbox[c], e)
      BY <1>0, <2>2, TellsNothing DEF CallOK
    <3>2. CASE UNCHANGED inbox
      BY <1>1, <3>1, <3>2 DEF TypeOK
    <3>3. CASE ~link[c] /\ inbox' = [inbox EXCEPT ![c] = @]
      BY <1>1, <3>1, <3>3 DEF TypeOK
    <3>4. ASSUME NEW x \in Frames, link[c], inbox' = [inbox EXCEPT ![c] = Append(@, x)],
                 x = "result" => e = "applied", x = "error" => e = "refused", x \in {"result", "error"}
          PROVE  \E s \in Seq(Frames) :
                   /\ inbox' = [inbox EXCEPT ![c] = s]
                   /\ s # inbox[c] => link[c]
                   /\ Len(s) <= MaxInbox /\ Tells(s, e)
      <4>1. /\ Append(inbox[c], x) \in Seq(Frames)
            /\ Len(Append(inbox[c], x)) = Len(inbox[c]) + 1
            /\ Tells(Append(inbox[c], x), e)
        BY <1>1, <3>1, <3>4, TellsMore
      <4>2. Len(inbox[c]) + 1 <= MaxInbox
        BY <1>1, <1>2 DEF BuilderExecutes
      <4> QED BY <3>4, <4>1, <4>2
    <3>5. \/ Send(c, "result") /\ e = "applied"
          \/ Send(c, "error") /\ e = "refused"
          \/ UNCHANGED inbox
      BY <1>0, <1>2, <2>1 DEF BuilderExecutes, SupervisorTypes
    <3>6. "result" \in Frames /\ "error" \in Frames
      BY DEF Frames
    <3>7. ASSUME NEW x, Send(c, x)
          PROVE  \/ ~link[c] /\ inbox' = [inbox EXCEPT ![c] = @]
                 \/ link[c] /\ inbox' = [inbox EXCEPT ![c] = Append(@, x)]
      BY <3>7 DEF Send, TypeOK
    <3> QED BY <3>2, <3>3, <3>4, <3>5, <3>6, <3>7
  <2>4. TypeOK'
    <3>1. effect' \in [Calls -> {"none", "pending", "applied", "refused"}]
      BY <1>0, <2>1 DEF SupervisorTypes
    <3>2. inbox' \in [Calls -> Seq(Frames)] /\ \A d \in Calls : Len(inbox'[d]) <= MaxInbox
      BY <1>0, <2>3 DEF TypeOK
    <3>3. \A d \in Calls : pc[d] \notin {"hello", "listen"} => inbox'[d] = <<>>
      BY <2>3 DEF TypeOK
    <3> QED BY <1>0, <2>2, <3>1, <3>2, <3>3 DEF TypeOK, SupervisorTypes
  <2>5. ASSUME NEW d \in Calls PROVE CallOK(d)'
    <3>1. CASE d = c
      <4>1. effect'[c] = e /\ inbox'[c] = s
        BY <1>0, <2>1, <2>3 DEF TypeOK, SupervisorTypes
      <4>2. ~answered[c] /\ ~(code[c] = "open" /\ pc[c] \in Early)
        BY <1>0, <2>2 DEF CallOK
      <4> QED BY <1>0, <2>2, <2>3, <3>1, <4>1, <4>2, Zenon DEF CallOK
    <3>2. CASE d # c
      BY <1>0, <2>1, <2>2, <2>3, <3>2 DEF CallOK, TypeOK, SupervisorTypes
    <3> QED BY <3>1, <3>2
  <2>6. \A d \in Calls : Unraced(d)'
    BY <1>0, <2>1, <2>2 DEF Unraced, SupervisorTypes
  <2> QED BY <2>4, <2>5, <2>6
<1>3. CASE BuilderSends(c)
  <2>1. PICK x \in {"other", "event", "final"} :
          /\ x # "other" => effect[c] = "applied"
          /\ Send(c, x)
    BY <1>3 DEF BuilderSends
  <2>2. /\ link[c] /\ pc[c] = "listen" /\ Len(inbox[c]) < MaxInbox
        /\ UNCHANGED <<unmanaged, pc, code, effect, fellBack, peer, link, left, answered>>
    BY <1>3 DEF BuilderSends
  <2>3. inbox' = [inbox EXCEPT ![c] = Append(inbox[c], x)]
    BY <2>1, <2>2 DEF Send
  <2>4. /\ Append(inbox[c], x) \in Seq(Frames) /\ Tells(Append(inbox[c], x), effect[c])
        /\ Len(Append(inbox[c], x)) = Len(inbox[c]) + 1
    <3>1. x \in Frames
      BY DEF Frames
    <3> QED BY <1>0, <1>1, <2>1, <3>1, TellsMore DEF CallOK
  <2>5. TypeOK'
    BY <1>0, <1>1, <2>2, <2>3, <2>4 DEF TypeOK, SupervisorTypes
  <2>6. \A d \in Calls : CallOK(d)' /\ Unraced(d)'
    BY <1>0, <2>2, <2>3, <2>4 DEF CallOK, Unraced, TypeOK
  <2> QED BY <2>5, <2>6
<1>4. CASE Drop(c)
  <2>1. PICK n \in 0 .. Len(inbox[c]) : inbox' = [inbox EXCEPT ![c] = SubSeq(inbox[c], 1, n)]
    BY <1>4 DEF Drop, TypeOK
  <2>2. /\ SubSeq(inbox[c], 1, n) \in Seq(Frames) /\ Tells(SubSeq(inbox[c], 1, n), effect[c])
        /\ Len(SubSeq(inbox[c], 1, n)) <= Len(inbox[c])
    BY <1>0, <1>1, TellsLess DEF CallOK
  <2>3. /\ link[c] /\ link' = [link EXCEPT ![c] = FALSE]
        /\ UNCHANGED <<unmanaged, pc, code, effect, fellBack, peer, left, answered>>
    BY <1>4 DEF Drop
  <2>4. Len(SubSeq(inbox[c], 1, n)) \in Nat
    BY <2>2
  <2>5. TypeOK'
    BY <1>0, <1>1, <2>1, <2>2, <2>3, <2>4 DEF TypeOK, SupervisorTypes
  <2>6. \A d \in Calls : CallOK(d)' /\ Unraced(d)'
    BY <1>0, <2>1, <2>2, <2>3 DEF CallOK, Unraced, TypeOK
  <2> QED BY <2>5, <2>6
<1> QED BY <1>2, <1>3, <1>4 DEF PeerStep

\* Every step keeps the inductive invariant.
LEMMA StepIInv == IInv /\ [Next]_vars => IInv'
<1> SUFFICES ASSUME IInv, [Next]_vars PROVE IInv'
  OBVIOUS
<1>1. CASE AddonStep /\ UNCHANGED builderVars
  BY <1>1, AddonKeeps
<1>2. ASSUME NEW c \in Calls, ManageStep(c), UNCHANGED builderVars PROVE IInv'
  BY <1>2, ManageKeeps
<1>3. ASSUME NEW c \in Calls, CallStep(c) PROVE IInv'
  BY <1>3, CallShapes, EndKeeps, GoesOnKeeps
<1>4. ASSUME NEW c \in Calls, PeerStep(c) PROVE IInv'
  BY <1>4, PeerKeeps
<1>5. CASE UNCHANGED vars
  BY <1>5 DEF vars, supervisorVars, addonVars, callVars, builderVars, request,
     IInv, TypeOK, SupervisorTypes, CallOK, Unraced
<1> QED BY <1>1, <1>2, <1>3, <1>4, <1>5 DEF Next

LEMMA Inductive == Spec => []IInv
<1> QED BY InitIInv, StepIInv, PTL DEF Spec

\* The types hold, and a call out of its connection holds nothing of it
\* (_call_device_builder_ws_command, _call_addon_ws).
THEOREM TypesHold == Spec => []TypeOK
<1>1. IInv => TypeOK
  BY DEF IInv
<1> QED BY <1>1, Inductive, PTL

-----------------------------------------------------------------------------
(* The steps of ToolContract.                                              *)

LEMMA SubmitMaps ==
  ASSUME IInv, NEW c \in Calls, code[c] = "open", effect[c] = "none", Submit(c), UNCHANGED <<code, op>>
  PROVE  Contract!Next
<1>1. Report[c] = "open" /\ UNCHANGED Report
  BY DEF Report, Refusals, Unsure
<1> QED BY <1>1 DEF Submit, Contract!Submit, Contract!Next

LEMMA ExecuteMaps ==
  ASSUME NEW c \in Calls, effect[c] = "pending", UNCHANGED <<code, op>>,
         NEW e \in {"applied", "refused"}, effect' = [effect EXCEPT ![c] = e]
  PROVE  Contract!Next
<1>1. UNCHANGED Report
  BY DEF Report
<1> QED BY <1>1 DEF Contract!Execute, Contract!Next

LEMMA ReportMaps ==
  ASSUME IInv, NEW c \in Calls, code[c] = "open", NEW k, Truthful(c, k),
         code' = [code EXCEPT ![c] = k], UNCHANGED <<effect, op>>
  PROVE  Contract!Next
<1>1. /\ \A d \in Calls : code'[d] = IF d = c THEN k ELSE code[d]
      /\ k \in {"done"} \cup Refusals \cup Unsure
  BY DEF IInv, TypeOK, SupervisorTypes, Truthful, Codes
<1> DEFINE told == IF k \in Refusals THEN "refused"
                   ELSE IF k = "unanswered" /\ op[c] \in {"write", "read"} THEN "presumed"
                   ELSE IF k \in Unsure THEN "unknown" ELSE k
<1>2. Report[c] = "open"
  BY DEF Report, Refusals, Unsure
<1>3. Report' = [Report EXCEPT ![c] = told]
  BY <1>1 DEF Report
<1>4. CASE k \in Refusals
  BY <1>2, <1>3, <1>4 DEF Truthful, Contract!ReportRefused, Contract!Next
<1>5. CASE k = "unanswered" /\ op[c] \in {"write", "read"}
  BY <1>2, <1>3, <1>5 DEF Truthful, Refusals, Contract!ReportPresumed, Contract!Next
<1>6. CASE k \in Unsure /\ ~(k = "unanswered" /\ op[c] \in {"write", "read"})
  BY <1>2, <1>3, <1>6 DEF Refusals, Unsure, Contract!ReportUnknown, Contract!Next
<1>7. CASE k = "done"
  BY <1>2, <1>3, <1>7 DEF Truthful, Refusals, Unsure, Contract!ReportDone, Contract!Next
<1> QED BY <1>1, <1>4, <1>5, <1>6, <1>7

LEMMA StutterMaps ==
  ASSUME UNCHANGED <<effect, code, op>> PROVE UNCHANGED Contract!vars
  BY DEF Report, Contract!vars

LEMMA CallMaps ==
  ASSUME IInv, NEW c \in Calls, CallStep(c)
  PROVE  [Contract!Next]_(Contract!vars)
<1> USE DEF Go, unmanaged, request
<1>0. CallOK(c) /\ pc[c] \in Places
  BY DEF IInv, TypeOK
<1>1. CASE Ends(c)
  BY <1>0, <1>1, ReportMaps DEF Ends, Close, End, CallOK
<1>2. CASE AskSession(c) \/ Listens(c) \/ Initialized(c) \/ FallsBack(c) \/ PageRead(c)
  BY <1>2, StutterMaps DEF AskSession, Listens, Initialized, FallsBack, PageRead
<1>3. CASE SessionMade(c) \/ Connected(c) \/ Greeted(c) \/ CallTool(c)
  <2>1. pc[c] \in Early /\ pc[c] # "idle" /\ UNCHANGED <<code, op>> /\ (Submit(c) \/ UNCHANGED effect)
    BY <1>3 DEF SessionMade, Connected, Greeted, CallTool, SubmitTo, Early
  <2> QED BY <1>0, <2>1, SubmitMaps, StutterMaps DEF CallOK
<1> QED BY <1>1, <1>2, <1>3, CallShapes

LEMMA ManageMaps ==
  ASSUME IInv, NEW c \in Calls, ManageStep(c)
  PROVE  [Contract!Next]_(Contract!vars)
<1> USE DEF Go, addonVars, request
<1>0. CallOK(c) /\ effect[c] \in {"none", "pending", "applied", "refused"}
  BY DEF IInv, TypeOK, SupervisorTypes
<1>1. CASE Begin(c) \/ InfoRead(c)
  BY <1>1, StutterMaps DEF Begin, InfoRead
<1>2. CASE Install(c) \/ Post(c)
  BY <1>0, <1>2, SubmitMaps DEF Install, Post, CallOK, Early
<1>3. CASE WritesOptions(c) \/ RunsAction(c) \/ SupervisorRefuses(c)
  BY <1>3, ExecuteMaps DEF WritesOptions, RunsAction, SupervisorRefuses, Submitted
<1>4. CASE InfoFails(c) \/ Posted(c) \/ PostFails(c)
  <2>1. PICK k : code' = [code EXCEPT ![c] = k] /\ Truthful(c, k)
    BY <1>0, <1>4 DEF InfoFails, Posted, PostFails, End, CallOK, Early, Truthful, Codes, Refusals, Unsure
  <2>2. pc[c] # "idle" /\ UNCHANGED <<effect, op>>
    BY <1>4 DEF InfoFails, Posted, PostFails
  <2> QED BY <1>0, <2>1, <2>2, ReportMaps DEF CallOK
<1> QED BY <1>1, <1>2, <1>3, <1>4 DEF ManageStep

LEMMA ContractStep == IInv /\ [Next]_vars => [Contract!Next]_(Contract!vars)
<1> SUFFICES ASSUME IInv, [Next]_vars PROVE [Contract!Next]_(Contract!vars)
  OBVIOUS
<1>1. CASE AddonStep \/ UNCHANGED vars
  <2>1. UNCHANGED <<effect, code, op>>
    BY <1>1 DEF AddonStep, AddonStarts, AddonStops, UserEdits, callVars, request, vars, supervisorVars
  <2> QED BY <2>1, StutterMaps
<1>2. ASSUME NEW c \in Calls, PeerStep(c) PROVE [Contract!Next]_(Contract!vars)
  <2>1. CASE BuilderExecutes(c)
    BY <2>1, ExecuteMaps DEF BuilderExecutes, unmanaged, request
  <2>2. CASE BuilderSends(c) \/ Drop(c)
    BY <2>2, StutterMaps DEF BuilderSends, Drop, unmanaged, request
  <2> QED BY <1>2, <2>1, <2>2 DEF PeerStep
<1> QED BY <1>1, <1>2, ManageMaps, CallMaps DEF Next

\* Every tool call submits its operation at most once, and its report is true
\* (_native_device_builder, _call_device_builder_ws_command, _call_addon_http,
\* _execute_action, _execute_config_update).
THEOREM CallsKeepTheContract == Spec => ImplementsContract
<1>1. Init => Contract!Init
  BY DEF Init, SupervisorInit, Report, Refusals, Unsure, Contract!Init
<1> QED BY <1>1, Inductive, ContractStep, PTL DEF Spec, ImplementsContract, Contract!Spec

-----------------------------------------------------------------------------

\* What a call writes without naming it was changed by others since it read it
\* (_execute_config_update, _merge_options).
LEMMA WriteLosesRaces ==
  ASSUME IInv, [Next]_vars, NEW c \in Calls, NEW f \in Fields, WritesOptions(c),
         options'[f] # options[f], KeyOf[f] \in Schema
  PROVE  f \in named[c] \cup dirty[c]
<1>1. op[c] = "options" /\ effect[c] = "pending" /\ options' = Merged(c)
  BY DEF WritesOptions, Submitted, ChangeOptions
<1>2. f \notin named[c] => options'[f] = seen[c].options[f]
  BY <1>1 DEF Merged
<1> QED BY <1>1, <1>2 DEF IInv, Unraced

THEOREM WritesLoseOnlyRaces == Spec => LosesOnlyRaces
<1>1. IInv /\ [Next]_vars =>
        [\A c \in Calls, f \in Fields :
           WritesOptions(c) /\ options'[f] # options[f] /\ KeyOf[f] \in Schema =>
             f \in named[c] \cup dirty[c]]_supervisorVars
  BY WriteLosesRaces
<1> QED BY <1>1, Inductive, PTL DEF Spec, LosesOnlyRaces
=============================================================================
