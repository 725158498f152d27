-------------------------- MODULE EntrySecretsProofs -------------------------
(***************************************************************************)
(* EntrySecrets keeps its types and its three invariants, for every set of  *)
(* custom secrets and every bound.                                          *)
(***************************************************************************)
EXTENDS EntrySecrets, TLAPS

Known == Custom \cup 1 .. minted

\* No secret in force, and none the options would put in force, is retired.
NoneRetired ==
  /\ \A k \in Kinds : data[k] \in Known \cup {Empty} /\ retired[k] \subseteq Known
  /\ \A k \in Kinds : data[k] \notin retired[k]
  /\ \A k \in Overridable : options.override[k] \in Known \cup {Empty}
  /\ \A k \in Overridable : options.override[k] \notin retired[k]

\* A loaded entry has settled the options of its set-up; newer ones are told of.
LoadedIsSettled ==
  entry = "loaded" =>
    /\ ~last.regenerate
    /\ \A k \in Overridable : last.override[k] # Empty => data[k] = last.override[k]
    /\ options # last => told

IInv ==
  /\ TypeOK /\ NoneRetired /\ LoadedIsSettled /\ OncePerRequest
  /\ served # Blank => served = data

-----------------------------------------------------------------------------

LEMMA NoOptionsType == NoOptions \in Options /\ Blank \in [Kinds -> Secret]
<1>1. Empty \in Secret
  BY DEF Secret
<1>2. [k \in Overridable |-> Empty] \in [Overridable -> Secret]
  BY <1>1
<1> QED BY <1>1, <1>2 DEF NoOptions, Options, Blank

LEMMA InitIInv == Init => IInv
<1> SUFFICES ASSUME Init PROVE IInv
  OBVIOUS
<1>1. retired \in [Kinds -> SUBSET (Custom \cup Minted)]
  BY DEF Init
<1>2. TypeOK
  <2>1. minted \in 0 .. MaxMints /\ saves \in 0 .. MaxSaves /\ asked \in 0 .. saves /\ rotations \in Nat
    BY BoundsAssumption DEF Init
  <2>2. entry \in {"unloaded", "loaded", "reloading"} /\ told \in BOOLEAN
    BY DEF Init
  <2>3. data \in [Kinds -> Secret] /\ served \in [Kinds -> Secret] /\ served = Blank
    BY NoOptionsType DEF Init
  <2>4. options \in Options /\ last \in Options
    BY NoOptionsType DEF Init
  <2> QED BY <1>1, <2>1, <2>2, <2>3, <2>4 DEF TypeOK
<1>3. NoneRetired
  BY DEF Init, NoneRetired, Blank, NoOptions, Known, Kinds
<1> QED
  BY <1>2, <1>3 DEF Init, IInv, LoadedIsSettled, OncePerRequest, NoOptions

\* What a set-up leaves: the types, nothing retired in force, and, in an entry that
\* it loads, settled options.
LEMMA SetUpSettles ==
  ASSUME IInv, SetUp
  PROVE  IInv'
<1> USE DEF IInv, history
<1>1. TypeOK /\ NoneRetired /\ OncePerRequest
  OBVIOUS
<1>2. entry # "loaded" /\ served = Blank /\ served' = Blank /\ UNCHANGED <<told, saves, asked>>
  BY <1>1 DEF SetUp, EnsureSecrets, Regenerate, Settle, TypeOK
<1>3. CASE Regenerate
  <2>1. minted' = minted + 1 /\ minted + 1 \in Minted
    BY <1>1, <1>3, BoundsAssumption DEF SetUp, EnsureSecrets, Regenerate, TypeOK, Minted
  <2>2. data' = [k \in Kinds |-> minted + 1] /\ options' = NoOptions /\ rotations' = rotations + 1
    BY <1>3 DEF Regenerate, AfterRegeneration
  <2>3. \A k \in Kinds : retired'[k] = retired[k] \cup ({data[k]} \ {Empty})
    BY <1>3 DEF Regenerate
  <2>4. \A k \in Kinds : minted + 1 \notin Known /\ retired'[k] \subseteq Known
    BY <1>1, <2>3, CustomAssumption DEF NoneRetired, Known, TypeOK
  <2>5. Known \subseteq Known' /\ minted + 1 \in Known' /\ Empty \notin Known
    BY <1>1, <2>1, CustomAssumption DEF Known, TypeOK
  <2>6. NoneRetired'
    <3>1. \A k \in Kinds : data'[k] \in Known' /\ retired'[k] \subseteq Known' /\ data'[k] \notin retired'[k]
      BY <2>2, <2>4, <2>5
    <3>2. \A k \in Overridable : options'.override[k] = Empty /\ options'.override[k] \notin retired'[k]
      BY <2>2, <2>4, <2>5 DEF NoOptions, Kinds
    <3> QED BY <3>1, <3>2 DEF NoneRetired
  <2>7. OncePerRequest'
    BY <1>1, <1>2, <1>3, <2>2 DEF OncePerRequest, Regenerate, NoOptions, TypeOK
  <2>8. TypeOK'
    <3>1. options' \in Options /\ last' \in Options
      BY <1>1, <2>2, NoOptionsType DEF SetUp, TypeOK
    <3>2. data' \in [Kinds -> Secret]
      BY <2>1, <2>2 DEF Secret
    <3>3. minted' \in 0 .. MaxMints /\ rotations' \in Nat
      BY <1>1, <2>1, <2>2 DEF TypeOK, Minted
    <3>4. retired' \in [Kinds -> SUBSET (Custom \cup Minted)]
      <4>1. retired' = [k \in Kinds |-> retired[k] \cup ({data[k]} \ {Empty})]
        BY <1>3 DEF Regenerate
      <4>2. Known \subseteq Custom \cup Minted
        BY <1>1, <2>1, BoundsAssumption DEF Known, Minted, TypeOK
      <4> QED BY <2>4, <4>1, <4>2
    <3> QED BY <1>1, <1>2, <3>1, <3>2, <3>3, <3>4 DEF TypeOK, SetUp
  <2>9. LoadedIsSettled'
    BY <1>2, <2>2 DEF LoadedIsSettled, SetUp, NoOptions
  <2> QED BY <1>2, <2>6, <2>7, <2>8, <2>9
<1>4. CASE Settle
  <2>1. minted' \in 0 .. MaxMints /\ minted' \in {minted, minted + 1}
    BY <1>1, <1>4, BoundsAssumption DEF SetUp, EnsureSecrets, Settle, TypeOK
  <2>2. UNCHANGED <<options, rotations, retired>> /\ ~options.regenerate
    BY <1>4 DEF Settle
  <2>3. Known \subseteq Known'
    BY <1>1, <2>1 DEF Known, TypeOK
  <2>4. ASSUME NEW k \in Kinds
        PROVE  data'[k] \in Known' \ retired[k]
    <3>1. data'[k] = Settled(k)
      BY <1>4 DEF Settle
    <3>2. CASE Given(k) # Empty
      BY <1>1, <2>3, <3>1, <3>2 DEF Settled, Given, NoneRetired
    <3>3. CASE Given(k) = Empty /\ data[k] # Empty
      BY <1>1, <2>3, <3>1, <3>3 DEF Settled, NoneRetired
    <3>4. CASE Given(k) = Empty /\ data[k] = Empty
      <4>1. data'[k] = minted + 1 /\ minted' = minted + 1
        BY <1>4, <3>1, <3>4 DEF Settled, Settle
      <4> QED BY <1>1, <4>1, CustomAssumption DEF Known, NoneRetired, TypeOK
    <3> QED BY <3>2, <3>3, <3>4
  <2>5. NoneRetired'
    BY <1>1, <2>2, <2>3, <2>4 DEF NoneRetired
  <2>6. Known' \subseteq Custom \cup Minted
    BY <2>1, BoundsAssumption DEF Known, Minted
  <2>7. TypeOK'
    <3>1. data' = [k \in Kinds |-> Settled(k)]
      BY <1>4 DEF Settle
    <3>2. data' \in [Kinds -> Secret]
      BY <2>4, <2>6, <3>1 DEF Secret
    <3> QED BY <1>1, <1>2, <2>1, <2>2, <3>2 DEF TypeOK, SetUp
  <2>8. LoadedIsSettled'
    <3>1. \A k \in Overridable : options.override[k] # Empty => data'[k] = options.override[k]
      BY <1>4 DEF Settle, Settled, Given, Kinds
    <3> QED BY <1>2, <2>2, <3>1 DEF LoadedIsSettled, SetUp
  <2>9. OncePerRequest'
    BY <1>1, <1>2, <2>2 DEF OncePerRequest
  <2> QED BY <1>2, <2>5, <2>7, <2>8, <2>9
<1> QED BY <1>3, <1>4 DEF SetUp, EnsureSecrets

LEMMA SaveKeeps ==
  ASSUME IInv, NEW o \in Options, Save(o)
  PROVE  IInv'
<1> USE DEF IInv
<1>1. UNCHANGED <<entry, data, last, served, minted, rotations>> /\ options' = o
  BY DEF Save
<1>2. \A k \in Kinds : retired'[k] \subseteq retired[k]
  BY DEF Save
<1>3. \A k \in Overridable : o.override[k] \in Known \cup {Empty} /\ o.override[k] \notin retired'[k]
  BY DEF Save, Known, Kinds
<1>4. NoneRetired'
  BY <1>1, <1>2, <1>3 DEF NoneRetired, Known
<1>5. TypeOK'
  <2>1. retired' \in [Kinds -> SUBSET (Custom \cup Minted)]
    BY <1>2 DEF Save, TypeOK
  <2>2. told' \in BOOLEAN
    BY DEF Save, TypeOK
  <2>3. saves' \in 0 .. MaxSaves /\ asked' \in 0 .. saves'
    BY BoundsAssumption DEF Save, TypeOK
  <2> QED BY <1>1, <2>1, <2>2, <2>3 DEF TypeOK
<1>6. OncePerRequest'
  BY <1>1 DEF Save, OncePerRequest, TypeOK, Options
<1>7. LoadedIsSettled'
  BY <1>1 DEF Save, LoadedIsSettled
<1> QED BY <1>1, <1>4, <1>5, <1>6, <1>7

\* Every step keeps the inductive invariant.
LEMMA StepIInv == IInv /\ [Next]_vars => IInv'
<1> SUFFICES ASSUME IInv, [Next]_vars PROVE IInv'
  OBVIOUS
<1> USE DEF IInv
<1>1. CASE SetUp
  BY <1>1, SetUpSettles
<1>2. CASE BringUp
  BY <1>2 DEF BringUp, history, TypeOK, NoneRetired, LoadedIsSettled, OncePerRequest, Known
<1>3. CASE GoesDown
  BY <1>3, NoOptionsType DEF GoesDown, history, TypeOK, NoneRetired, LoadedIsSettled, OncePerRequest, Known
<1>4. CASE \E o \in Options : Save(o)
  BY <1>4, SaveKeeps
<1>5. CASE Listener
  BY <1>5, NoOptionsType DEF Listener, history, TypeOK, NoneRetired, LoadedIsSettled, OncePerRequest, Known
<1>6. CASE Unload
  BY <1>6, NoOptionsType DEF Unload, history, TypeOK, NoneRetired, LoadedIsSettled, OncePerRequest, Known
<1>7. CASE UNCHANGED vars
  BY <1>7 DEF vars, TypeOK, NoneRetired, LoadedIsSettled, OncePerRequest, Known
<1> QED BY <1>1, <1>2, <1>3, <1>4, <1>5, <1>6, <1>7 DEF Next

LEMMA Inductive == Spec => []IInv
<1> QED BY InitIInv, StepIInv, PTL DEF Spec

\* The types hold, and only a loaded entry is served (_ensure_secrets,
\* async_bring_up_server).
THEOREM TypesHold == Spec => []TypeOK
<1>1. IInv => TypeOK
  BY DEF IInv
<1> QED BY <1>1, Inductive, PTL

\* A regenerated secret never comes back by itself: at every set-up, however often
\* options are saved and the entry is reloaded (_ensure_secrets).
THEOREM RegeneratedStaysOut == Spec => []RetiredStaysOut
<1>1. IInv => RetiredStaysOut
  BY CustomAssumption DEF IInv, RetiredStaysOut, NoneRetired, Blank, Known, TypeOK
<1> QED BY <1>1, Inductive, PTL

\* There are never more regenerations than requests for one (_ensure_secrets).
THEOREM RegeneratesOnce == Spec => []OncePerRequest
<1>1. IInv => OncePerRequest
  BY DEF IInv
<1> QED BY <1>1, Inductive, PTL

\* Saved overrides are what is served, once no reload is due (_ensure_secrets,
\* _async_options_updated).
THEOREM ServesOverrides == Spec => []OverrideIsServed
<1>1. IInv => OverrideIsServed
  BY DEF IInv, OverrideIsServed, LoadedIsSettled, TypeOK
<1> QED BY <1>1, Inductive, PTL
=============================================================================
