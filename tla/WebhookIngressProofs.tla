------------------------- MODULE WebhookIngressProofs -------------------------
(***************************************************************************)
(* Theorems about WebhookIngress, for any number of views, any bundles,    *)
(* any requests and any number of registrations, and the refinement of     *)
(* IngressTurns.                                                           *)
(***************************************************************************)
EXTENDS WebhookIngress, TLAPS

\* The invariant holds before anything is bound or registered.
LEMMA InitInv == Init => Inv
<1> SUFFICES ASSUME Init PROVE Inv
  OBVIOUS
<1> USE ViewsAssumption DEF Init
<1>1. TypeOK
  <2>1. views \subseteq Views /\ flags \subseteq Bundles /\ open \subseteq Regs
        /\ lookup \subseteq Regs
    OBVIOUS
  <2>2. NewReg \in [mode : Modes, surface : Surfaces, key : BOOLEAN]
    BY DEF NewReg, Modes, Surfaces
  <2>3. reg \in [Regs -> [mode : Modes, surface : Surfaces, key : BOOLEAN]]
    BY <2>2
  <2>4. made \in 0 .. MaxRegs /\ cfg = NoReg /\ closing = NoReg
    OBVIOUS
  <2>6. route \in BOOLEAN
    BY Zenon
  <2>5. /\ stage \in [Requests -> Stages] /\ under \in [Requests -> Regs \cup {NoReg}]
        /\ admin \in [Requests -> BOOLEAN] /\ reply \in [Requests -> Replies]
        /\ \A q \in Requests : stage[q] = "idle"
    BY DEF Stages, Replies
  <2> QED
    BY <2>1, <2>3, <2>4, <2>5, <2>6 DEF TypeOK
<1>2. AdvertisedIsBound /\ HaAuthIsGated /\ RouteBacked /\ SessionsOwned
  BY DEF AdvertisedIsBound, HaAuthIsGated, RouteBacked, SessionsOwned, ActiveMode
<1>3. FlagsHonest /\ Admission /\ Numbering
  BY DEF FlagsHonest, Admission, Numbering, NoReg
<1> QED
  BY <1>1, <1>2, <1>3 DEF Inv

\* What a pass that binds the views leaves behind: marked bundles are bound, and
\* a pass that raises nowhere binds every view.
LEMMA BindEffect ==
  ASSUME TypeOK, FlagsHonest, NEW i \in Views \cup {NoRaise}, Bind(i)
  PROVE  /\ views' \subseteq Views /\ flags' \subseteq Bundles
         /\ FlagsHonest'
         /\ views \subseteq views'
         /\ i = NoRaise => views' = Views
<1> USE ViewsAssumption
<1>1. views' \subseteq Views /\ flags' \subseteq Bundles /\ views \subseteq views'
  BY DEF TypeOK, Bind, Marked
<1>2. ASSUME NEW v \in Views, BundleOf[v] \in flags' PROVE v \in views'
  <2>1. CASE BundleOf[v] \in flags
    BY <2>1 DEF FlagsHonest, Bind
  <2>2. CASE BundleOf[v] \notin flags
    <3>1. v < i
      BY <1>2, <2>2 DEF Bind, Marked
    <3> QED
      BY <2>2, <3>1 DEF Bind
  <2> QED
    BY <2>1, <2>2
<1>3. ASSUME i = NoRaise, NEW v \in Views PROVE v \in views'
  <2>1. v < i
    BY <1>3 DEF NoRaise, Views
  <2> QED
    BY <2>1 DEF Bind, FlagsHonest
<1> QED
  BY <1>1, <1>2, <1>3 DEF FlagsHonest

\* No step touches both the requests and the registrations.
LEMMA StepKinds ==
  ASSUME [Next]_vars
  PROVE  \/ UNCHANGED <<surface, hook>>
         \/ UNCHANGED traffic
  BY DEF Next, vars, Prebind, Register, RegisterFails, Unregister, LookupCloses, CloseCancelled,
         McpArrives, TokenArrives, NotForwarded, Forward, Answers, StreamEnds, TransportFails,
         Severed, Breaks

\* Types are kept by the steps that bind, register and unregister ...
LEMMA HookTypeStep ==
  ASSUME Inv, [Next]_vars, UNCHANGED traffic
  PROVE  TypeOK'
<1> USE ViewsAssumption DEF Inv
<1>0. traffic' = traffic /\ TypeOK
  OBVIOUS
<1>1. CASE UNCHANGED <<surface, hook>>
  BY <1>0, <1>1 DEF TypeOK, surface, hook, traffic
<1>2. CASE Prebind \/ \E i \in Views \cup {NoRaise} : RegisterFails(i)
  <2>1. views' \subseteq Views /\ flags' \subseteq Bundles
    BY <1>2, BindEffect DEF Prebind, RegisterFails
  <2> QED
    BY <1>0, <1>2, <2>1 DEF TypeOK, Prebind, RegisterFails, hook, traffic
<1>3. ASSUME NEW m \in Modes, NEW i \in Views \cup {NoRaise}, NEW k \in BOOLEAN,
             Register(m, i, k)
      PROVE  TypeOK'
  <2>1. views' \subseteq Views /\ flags' \subseteq Bundles
    BY <1>3, BindEffect DEF Register
  <2>2. made + 1 \in Regs
    BY <1>0, <1>3 DEF TypeOK, Register, Regs
  <2>3. [mode |-> m, surface |-> SurfaceOf(m, i, k), key |-> i = NoRaise /\ k]
          \in [mode : Modes, surface : Surfaces, key : BOOLEAN]
    BY DEF SurfaceOf, Surfaces
  <2>4. reg' \in [Regs -> [mode : Modes, surface : Surfaces, key : BOOLEAN]]
    BY <1>0, <1>3, <2>2, <2>3 DEF TypeOK, Register
  <2>5. made' \in 0 .. MaxRegs /\ cfg' \in Regs \cup {NoReg} /\ open' \subseteq Regs
        /\ lookup' \subseteq Regs /\ route' \in BOOLEAN /\ closing' \in Regs \cup {NoReg}
    BY <1>0, <1>3, <2>2 DEF TypeOK, Register, Regs
  <2> QED
    BY <1>0, <2>1, <2>4, <2>5 DEF TypeOK, traffic
<1>4. CASE Unregister \/ LookupCloses \/ CloseCancelled
  BY <1>0, <1>4 DEF TypeOK, Unregister, LookupCloses, CloseCancelled, surface, traffic
<1>5. ASSUME NEW q \in Requests,
             \/ \E bearer \in BOOLEAN : McpArrives(q, bearer)
             \/ TokenArrives(q) \/ NotForwarded(q) \/ Forward(q) \/ Answers(q) \/ StreamEnds(q)
             \/ TransportFails(q) \/ Severed(q)
      PROVE  UNCHANGED <<surface, hook>>
  BY <1>5 DEF McpArrives, TokenArrives, NotForwarded, Forward, Answers, StreamEnds,
              TransportFails, Severed, Breaks
<1> QED
  BY <1>1, <1>2, <1>3, <1>4, <1>5 DEF Next, vars

\* ... and by the steps of requests.
LEMMA TrafficTypeStep ==
  ASSUME Inv, [Next]_vars, UNCHANGED <<surface, hook>>
  PROVE  TypeOK'
<1>0. TypeOK /\ RouteBacked /\ UNCHANGED <<surface, hook>>
  BY DEF Inv
<1>1. CASE UNCHANGED traffic
  BY <1>0, <1>1 DEF TypeOK, surface, hook, traffic
<1>2. ASSUME NEW q \in Requests, NEW answer \in Replies, Answer(q, answer), stage[q] # "idle"
      PROVE  TypeOK'
  BY <1>0, <1>2 DEF TypeOK, Answer, surface, hook, Stages
<1>3. ASSUME NEW q \in Requests, NEW bearer \in BOOLEAN, McpArrives(q, bearer)
      PROVE  TypeOK'
  BY <1>0, <1>3 DEF TypeOK, RouteBacked, McpArrives, surface, hook, Stages, Replies
<1>4. ASSUME NEW q \in Requests, TokenArrives(q) PROVE TypeOK'
  <2>1. cfg # NoReg
    BY <1>4 DEF TokenArrives, ActiveMode
  <2> QED
    BY <1>0, <1>4, <2>1 DEF TypeOK, TokenArrives, surface, hook, Stages
<1>5. ASSUME NEW q \in Requests, stage[q] # "idle", UNCHANGED <<under, admin, reply>>,
             \/ stage' = [stage EXCEPT ![q] = "relaying"]
             \/ stage' = [stage EXCEPT ![q] = "streaming"]
      PROVE  TypeOK'
  BY <1>0, <1>5 DEF TypeOK, surface, hook, Stages
<1>6. ASSUME NEW q \in Requests,
             \/ NotForwarded(q) \/ Forward(q) \/ Answers(q) \/ StreamEnds(q)
             \/ TransportFails(q) \/ Severed(q)
      PROVE  TypeOK'
  BY <1>2, <1>5, <1>6 DEF NotForwarded, Forward, Answers, StreamEnds, TransportFails, Severed,
                          Breaks, Replies
<1>7. CASE Next /\ UNCHANGED traffic
  BY <1>1, <1>7
<1>8. ASSUME \/ Prebind \/ Unregister \/ LookupCloses \/ CloseCancelled
             \/ \E m \in Modes, i \in Views \cup {NoRaise}, k \in BOOLEAN : Register(m, i, k)
             \/ \E i \in Views \cup {NoRaise} : RegisterFails(i)
      PROVE  UNCHANGED traffic
  BY <1>8 DEF Prebind, Unregister, LookupCloses, CloseCancelled, Register, RegisterFails
<1> QED
  BY <1>1, <1>3, <1>4, <1>6, <1>8 DEF Next, vars

\* The registration and the views behind it stay consistent.
LEMMA HookStep ==
  ASSUME Inv, [Next]_vars
  PROVE  (AdvertisedIsBound /\ HaAuthIsGated /\ RouteBacked /\ SessionsOwned /\ FlagsHonest
            /\ Numbering)'
<1> DEFINE Hook == AdvertisedIsBound /\ HaAuthIsGated /\ RouteBacked /\ SessionsOwned
                     /\ FlagsHonest /\ Numbering
<1> USE ViewsAssumption
<1>0. TypeOK /\ Hook
  BY DEF Inv
<1>1. CASE UNCHANGED <<surface, hook>>
  BY <1>0, <1>1 DEF AdvertisedIsBound, HaAuthIsGated, RouteBacked, SessionsOwned, FlagsHonest,
                    Numbering, ActiveMode, surface, hook
<1>2. CASE Prebind \/ \E i \in Views \cup {NoRaise} : RegisterFails(i)
  <2>1. FlagsHonest' /\ views \subseteq views' /\ views' \subseteq Views
    BY <1>0, <1>2, BindEffect DEF Prebind, RegisterFails
  <2>2. cfg = NoReg /\ UNCHANGED hook
    BY <1>2 DEF Prebind, RegisterFails
  <2> QED
    BY <1>0, <2>1, <2>2 DEF AdvertisedIsBound, HaAuthIsGated, RouteBacked, SessionsOwned,
                            Numbering, ActiveMode, hook
<1>3. ASSUME NEW m \in Modes, NEW i \in Views \cup {NoRaise}, NEW k \in BOOLEAN,
             Register(m, i, k)
      PROVE  Hook'
  <2>1. FlagsHonest' /\ (i = NoRaise => views' = Views)
    BY <1>0, <1>3, BindEffect DEF Register
  <2>2. made + 1 \in Regs /\ made + 1 # NoReg
    BY <1>0, <1>3 DEF TypeOK, Register, Regs, NoReg
  <2>3. /\ cfg' = made + 1 /\ made' = made + 1 /\ route' = TRUE
        /\ reg'[cfg'] = [mode |-> m, surface |-> SurfaceOf(m, i, k), key |-> i = NoRaise /\ k]
    BY <1>0, <1>3, <2>2 DEF TypeOK, Register
  <2>4. SessionsOwned'
    BY <1>0, <1>3, <2>2, <2>3 DEF Register, SessionsOwned
  <2>5. RouteBacked' /\ Numbering'
    BY <1>0, <2>2, <2>3 DEF RouteBacked, Numbering, TypeOK
  <2>6. HaAuthIsGated'
    BY <1>3, <2>3 DEF HaAuthIsGated, SurfaceOf, Register, Registers
  <2>7. AdvertisedIsBound'
    <3>1. SurfaceOf(m, i, k) # "off" => i = NoRaise /\ k
      BY <1>3 DEF SurfaceOf, Register, Registers
    <3>2. reg'[cfg'].surface = SurfaceOf(m, i, k) /\ reg'[cfg'].key = (i = NoRaise /\ k)
      BY <2>3
    <3>3. SurfaceOf(m, i, k) = "off" => ActiveMode' = "off"
      BY <3>2 DEF ActiveMode
    <3> QED
      BY <2>1, <3>1, <3>2, <3>3 DEF AdvertisedIsBound
  <2> QED
    BY <2>1, <2>4, <2>5, <2>6, <2>7
<1>4. CASE Unregister
  <2>1. cfg' = NoReg /\ route' = FALSE /\ UNCHANGED <<made, reg, views, flags>>
    BY <1>4 DEF Unregister, surface
  <2>2. AdvertisedIsBound' /\ HaAuthIsGated'
    BY <2>1 DEF AdvertisedIsBound, HaAuthIsGated, ActiveMode
  <2>3. RouteBacked'
    BY <2>1 DEF RouteBacked
  <2>4. SessionsOwned'
    BY <1>0, <1>4, <2>1 DEF SessionsOwned, Unregister
  <2>5. FlagsHonest' /\ Numbering'
    BY <1>0, <2>1 DEF FlagsHonest, Numbering, TypeOK, NoReg
  <2> QED
    BY <2>2, <2>3, <2>4, <2>5
<1>6. CASE LookupCloses \/ CloseCancelled
  <2>1. UNCHANGED <<made, reg, cfg, route, open, views, flags>>
    BY <1>6 DEF LookupCloses, CloseCancelled, surface
  <2> QED
    BY <1>0, <2>1 DEF AdvertisedIsBound, HaAuthIsGated, RouteBacked, SessionsOwned, FlagsHonest,
                      Numbering, ActiveMode
<1>5. ASSUME NEW q \in Requests,
             \/ \E bearer \in BOOLEAN : McpArrives(q, bearer)
             \/ TokenArrives(q) \/ NotForwarded(q) \/ Forward(q) \/ Answers(q) \/ StreamEnds(q)
             \/ TransportFails(q) \/ Severed(q)
      PROVE  UNCHANGED <<surface, hook>>
  BY <1>5 DEF McpArrives, TokenArrives, NotForwarded, Forward, Answers, StreamEnds,
              TransportFails, Severed, Breaks
<1> QED
  BY <1>1, <1>2, <1>3, <1>4, <1>5, <1>6 DEF Next, vars

\* A request that is being read stays admitted: its registration is numbered, and
\* the configuration a registration was built with never changes.
LEMMA AdmissionStep ==
  ASSUME Inv, [Next]_vars
  PROVE  Admission'
<1> USE ViewsAssumption
<1>0. TypeOK /\ Admission /\ RouteBacked /\ Numbering
  BY DEF Inv
<1>1. CASE UNCHANGED traffic
  <2>1. made' \in Nat /\ made <= made' /\ \A r \in 1 .. made : reg'[r] = reg[r]
    <3>1. made \in Nat
      BY <1>0 DEF TypeOK
    <3>2. CASE UNCHANGED <<made, reg>>
      BY <3>1, <3>2
    <3>3. ASSUME NEW m \in Modes, NEW i \in Views \cup {NoRaise}, NEW k \in BOOLEAN,
                 Register(m, i, k)
          PROVE  made' \in Nat /\ made <= made' /\ \A r \in 1 .. made : reg'[r] = reg[r]
      <4>1. made' = made + 1 /\ made < MaxRegs
        BY <3>3 DEF Register
      <4>2. \A r \in 1 .. made : r \in Regs /\ r # made + 1
        BY <3>1, <4>1 DEF Regs
      <4>3. \A r \in 1 .. made : reg'[r] = reg[r]
        BY <1>0, <3>3, <4>2 DEF Register, TypeOK
      <4> QED
        BY <3>1, <4>1, <4>3
    <3>4. \/ UNCHANGED <<made, reg>>
          \/ \E m \in Modes, i \in Views \cup {NoRaise}, k \in BOOLEAN : Register(m, i, k)
      BY DEF Next, vars, hook, Prebind, RegisterFails, Unregister, LookupCloses, CloseCancelled,
             McpArrives, TokenArrives, NotForwarded, Forward, Answers, StreamEnds,
             TransportFails, Severed, Breaks
    <3> QED
      BY <3>2, <3>3, <3>4
  <2>2. made \in Nat /\ UNCHANGED <<stage, under, admin>>
    BY <1>0, <1>1 DEF TypeOK, traffic
  <2>3. ASSUME NEW q \in Requests, stage[q] = "reading"
        PROVE  /\ under[q] \in 1 .. made' /\ reg'[under[q]] = reg[under[q]]
               /\ q \in McpRequests /\ reg[under[q]].surface = "resource_server" => admin[q]
    <3>1. under[q] \in 1 .. made
      BY <1>0, <2>3 DEF Admission
    <3>2. under[q] \in 1 .. made'
      BY <2>1, <2>2, <3>1
    <3> QED
      BY <1>0, <2>1, <2>3, <3>1, <3>2 DEF Admission
  <2> QED
    BY <2>2, <2>3 DEF Admission
<1>2. CASE UNCHANGED <<surface, hook>>
  <2>0. UNCHANGED <<made, reg, cfg>>
    BY <1>2 DEF hook
  <2>1. ASSUME NEW q \in Requests, NEW bearer \in BOOLEAN, McpArrives(q, bearer)
        PROVE  Admission'
    <3>1. cfg \in 1 .. made
      BY <1>0, <2>1 DEF TypeOK, RouteBacked, Numbering, McpArrives, Regs, NoReg
    <3>2. stage'[q] = "reading" /\ reg[cfg].surface = "resource_server" => bearer
      BY <1>0, <2>1, <3>1 DEF McpArrives, PassesGate, ActiveMode, NoReg, TypeOK
    <3>3. under'[q] = cfg /\ admin'[q] = bearer
      BY <1>0, <2>1 DEF McpArrives, TypeOK
    <3>4. \A p \in Requests \ {q} : stage'[p] = stage[p] /\ under'[p] = under[p]
                                    /\ admin'[p] = admin[p]
      BY <1>0, <2>1 DEF McpArrives, TypeOK
    <3> QED
      BY <1>0, <2>0, <3>1, <3>2, <3>3, <3>4 DEF Admission
  <2>2. ASSUME NEW q \in Requests, TokenArrives(q) PROVE Admission'
    <3>1. cfg \in 1 .. made
      BY <1>0, <2>2 DEF TypeOK, Numbering, TokenArrives, ActiveMode, Regs, NoReg
    <3>2. q \notin McpRequests
      BY <2>2, RequestsAssumption DEF TokenArrives
    <3>3. under'[q] = cfg /\ admin' = admin
      BY <1>0, <2>2 DEF TokenArrives, TypeOK
    <3>4. \A p \in Requests \ {q} : stage'[p] = stage[p] /\ under'[p] = under[p]
      BY <1>0, <2>2 DEF TokenArrives, TypeOK
    <3> QED
      BY <1>0, <2>0, <3>1, <3>2, <3>3, <3>4 DEF Admission
  <2>3. ASSUME UNCHANGED <<under, admin>>,
               \A q \in Requests : stage'[q] = "reading" => stage[q] = "reading"
        PROVE  Admission'
    BY <1>0, <2>0, <2>3 DEF Admission
  <2>4. ASSUME NEW q \in Requests,
               \/ NotForwarded(q) \/ Forward(q) \/ Answers(q) \/ StreamEnds(q)
               \/ TransportFails(q) \/ Severed(q)
        PROVE  /\ UNCHANGED <<under, admin>>
               /\ \A p \in Requests : stage'[p] = "reading" => stage[p] = "reading"
    BY <1>0, <2>4 DEF NotForwarded, Forward, Answers, StreamEnds, TransportFails, Severed, Breaks,
                      Answer, TypeOK
  <2>5. CASE UNCHANGED traffic
    BY <1>1, <2>5
  <2>6. ASSUME \/ Prebind \/ Unregister \/ LookupCloses \/ CloseCancelled
               \/ \E m \in Modes, i \in Views \cup {NoRaise}, k \in BOOLEAN : Register(m, i, k)
               \/ \E i \in Views \cup {NoRaise} : RegisterFails(i)
        PROVE  UNCHANGED traffic
    BY <2>6 DEF Prebind, Unregister, LookupCloses, CloseCancelled, Register, RegisterFails
  <2> QED
    BY <2>1, <2>2, <2>3, <2>4, <2>5, <2>6 DEF Next, vars
<1> QED
  BY <1>1, <1>2, StepKinds

THEOREM Invariance == Spec => []Inv
<1>1. Inv /\ [Next]_vars => Inv'
  BY StepKinds, HookTypeStep, TrafficTypeStep, HookStep, AdmissionStep DEF Inv
<1> QED
  BY InitInv, <1>1, PTL DEF Spec

\* The views, registrations, sessions and requests are well typed.
THEOREM TypeCorrect == Spec => []TypeOK
<1>1. Inv => TypeOK
  BY DEF Inv
<1> QED
  BY Invariance, <1>1, PTL

\* Discovery never advertises an endpoint that is not bound, however the passes
\* over the views are cut short.
THEOREM DiscoveryIsBound == Spec => []AdvertisedIsBound
<1>1. Inv => AdvertisedIsBound
  BY DEF Inv
<1> QED
  BY Invariance, <1>1, PTL

\* A webhook in ha_auth mode is never without its bearer gate.
THEOREM HaAuthFailsClosed == Spec => []HaAuthIsGated
<1>1. Inv => HaAuthIsGated
  BY DEF Inv
<1> QED
  BY Invariance, <1>1, PTL

\* The webhook and its relay session exist exactly while a registration is live.
THEOREM RegistrationIsWhole == Spec => [](RouteBacked /\ SessionsOwned)
<1>1. Inv => RouteBacked /\ SessionsOwned
  BY DEF Inv
<1> QED
  BY Invariance, <1>1, PTL

\* A request leaves only under the live registration that admitted it.
THEOREM AdmissionHolds == Spec => ForwardsAsAdmitted
<1>1. Inv /\ [Next]_vars =>
        [\A q \in Requests :
           stage[q] # "relaying" /\ stage'[q] = "relaying" =>
             /\ under[q] = cfg /\ cfg # NoReg
             /\ q \in McpRequests /\ reg[cfg].mode = "ha_auth" => admin[q]]_vars
  <2> SUFFICES ASSUME Inv, [Next]_vars, NEW q \in Requests,
                      stage[q] # "relaying", stage'[q] = "relaying"
               PROVE  /\ under[q] = cfg /\ cfg # NoReg
                      /\ q \in McpRequests /\ reg[cfg].mode = "ha_auth" => admin[q]
    OBVIOUS
  <2>0. TypeOK /\ SessionsOwned /\ HaAuthIsGated /\ Admission
    BY DEF Inv
  <2>1. Forward(q)
    BY <2>0 DEF Next, vars, traffic, TypeOK, Prebind, Register, RegisterFails, Unregister,
                LookupCloses, CloseCancelled, McpArrives, TokenArrives, NotForwarded, Forward,
                Answers, StreamEnds, TransportFails, Severed, Breaks, Answer
  <2>2. stage[q] = "reading" /\ under[q] \in open
    BY <2>0, <2>1 DEF Forward, Answer, TypeOK
  <2>3. under[q] = cfg /\ cfg # NoReg
    BY <2>0, <2>2 DEF SessionsOwned
  <2> QED
    BY <2>0, <2>2, <2>3 DEF HaAuthIsGated, Admission
<1> QED
  BY Invariance, <1>1, PTL DEF Spec, ForwardsAsAdmitted

-----------------------------------------------------------------------------
(* The turns of the registrations.                                          *)

LEMMA TurnsStep ==
  ASSUME Inv, [Next]_vars
  PROVE  [Turns!Next]_(Turns!vars)
<1>0. TypeOK /\ Numbering
  BY DEF Inv
<1>1. CASE UNCHANGED <<reg, cfg, closing>>
  BY <1>1 DEF Turns!vars
<1>2. CASE Prebind \/ \E i \in Views \cup {NoRaise} : RegisterFails(i)
  BY <1>1, <1>2 DEF Prebind, RegisterFails, hook
<1>3. ASSUME NEW m \in Modes, NEW i \in Views \cup {NoRaise}, NEW k \in BOOLEAN,
             Register(m, i, k)
      PROVE  Turns!Register
  <2>1. made + 1 \in Regs /\ made + 1 # NoReg
    BY <1>0, <1>3, ViewsAssumption DEF TypeOK, Register, Regs, NoReg
  <2>2. cfg' = made + 1 /\ reg'[cfg'].mode = m
    BY <1>0, <1>3, <2>1 DEF TypeOK, Register
  <2>3. cfg = NoReg /\ closing = NoReg /\ closing' = closing
    BY <1>3 DEF Register
  <2> QED
    BY <2>1, <2>2, <2>3 DEF Turns!Register
<1>4. CASE Unregister
  <2>1. cfg # NoReg /\ cfg' = NoReg /\ reg[cfg].mode \in Modes
    BY <1>0, <1>4 DEF TypeOK, Unregister
  <2> QED
    BY <2>1 DEF Turns!Next, Turns!Withdraw, Modes
<1>5. CASE LookupCloses \/ CloseCancelled
  BY <1>5 DEF LookupCloses, CloseCancelled, Turns!Next, Turns!Closed
<1>6. CASE UNCHANGED <<surface, hook>>
  BY <1>1, <1>6 DEF hook
<1>7. CASE UNCHANGED traffic
  <2>1. \/ UNCHANGED <<surface, hook>>
        \/ Prebind \/ Unregister \/ LookupCloses \/ CloseCancelled
        \/ \E m \in Modes, i \in Views \cup {NoRaise}, k \in BOOLEAN : Register(m, i, k)
        \/ \E i \in Views \cup {NoRaise} : RegisterFails(i)
    BY DEF Next, vars, McpArrives, TokenArrives, NotForwarded, Forward, Answers, StreamEnds,
           TransportFails, Severed, Breaks
  <2> QED
    BY <1>2, <1>3, <1>4, <1>5, <1>6, <2>1 DEF Turns!Next
<1> QED
  BY <1>6, <1>7, StepKinds

\* Registrations come and go in turn, as the life cycle calls for them: the ingress
\* implements IngressTurns, which ServerLifecycle implements from the other side.
THEOREM RegistersInTurn == Spec => TakesTurns
<1>1. Init => Turns!Init
  BY DEF Init, Turns!Init
<1>2. Inv /\ [Next]_vars => [Turns!Next]_(Turns!vars)
  BY TurnsStep
<1> QED
  BY <1>1, <1>2, Invariance, PTL DEF Spec, TakesTurns, Turns!Spec
=============================================================================
