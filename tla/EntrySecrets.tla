----------------------------- MODULE EntrySecrets ----------------------------
(***************************************************************************)
(* The secrets of the entry (embedded_entry.py, config_flow.py): the        *)
(* webhook id and the direct-access path, which a user may override or have *)
(* regenerated, and the signing key.  The entry's data and options are      *)
(* persistent; the secrets are settled at each set-up, and served by the    *)
(* bring-up that follows.                                                   *)
(***************************************************************************)
EXTENDS Integers

CONSTANTS Custom,    \* the secrets a user may think of
          Empty,     \* no secret
          MaxMints,  \* bound: how often fresh secrets are made
          MaxSaves   \* bound: how often options are saved

ASSUME CustomAssumption == Custom \cap Nat = {} /\ Empty \notin Custom \cup Nat
ASSUME BoundsAssumption == MaxMints \in Nat /\ MaxSaves \in Nat

Overridable == {"webhook_id", "secret_path"}
Kinds == Overridable \cup {"dcr_signing_key"}
Minted == 1 .. MaxMints
Secret == Custom \cup Minted \cup {Empty}
Options == [override : [Overridable -> Secret], regenerate : BOOLEAN]

Blank == [k \in Kinds |-> Empty]
NoOptions == [override |-> [k \in Overridable |-> Empty], regenerate |-> FALSE]

VARIABLES
  entry,     \* "unloaded", "loaded" or, on its way between them, "reloading"
  data,      \* the secrets in the entry's data
  options,   \* the entry's options
  last,      \* the options of the last set-up
  told,      \* the update listener is to run
  served,    \* the secrets under which the server is reached, Blank if it is not
  minted,    \* how often fresh secrets were made: the latest ones
  saves,     \* how often options were saved
  asked,     \* history: how many of these asked for a regeneration
  rotations, \* history: how many regenerations there were
  retired    \* history: secrets regenerated away, and not saved again since

vars == <<entry, data, options, last, told, served, minted, saves, asked, rotations, retired>>
history == <<saves, asked, rotations, retired>>

Init ==
  /\ entry = "unloaded" /\ data = Blank /\ options = NoOptions
  /\ last = NoOptions /\ told = FALSE /\ served = Blank
  /\ minted = 0 /\ saves = 0 /\ asked = 0 /\ rotations = 0
  /\ retired = [k \in Kinds |-> {}]

\* What the options say; a path without its leading slash names the same secret
Given(k) == IF k \in Overridable THEN options.override[k] ELSE Empty

\* Mutant of Settled: an override only fills a gap
Settled_Fills(k) ==
  IF data[k] # Empty THEN data[k] ELSE IF Given(k) # Empty THEN Given(k) ELSE minted + 1

\* What a set-up makes of a secret: the override, what is there, or a fresh one
Settled(k) ==
  IF Given(k) # Empty THEN Given(k) ELSE IF data[k] # Empty THEN data[k] ELSE minted + 1

\* Mutants of AfterRegeneration: the overrides stay, the request stays
AfterRegeneration_KeepsOverrides == [options EXCEPT !.regenerate = FALSE]
AfterRegeneration_KeepsRequest == [NoOptions EXCEPT !.regenerate = TRUE]

\* The request is served once and its overrides are cleared
AfterRegeneration == NoOptions

Regenerate ==
  /\ options.regenerate
  /\ data' = [k \in Kinds |-> minted + 1] /\ minted' = minted + 1
  /\ options' = AfterRegeneration
  /\ rotations' = rotations + 1
  /\ retired' = [k \in Kinds |-> retired[k] \cup ({data[k]} \ {Empty})]
  /\ UNCHANGED <<saves, asked>>

Settle ==
  /\ ~options.regenerate
  /\ data' = [k \in Kinds |-> Settled(k)]
  /\ minted' = IF \E k \in Kinds : Given(k) = Empty /\ data[k] = Empty THEN minted + 1 ELSE minted
  /\ UNCHANGED <<options, history>>

EnsureSecrets == (Regenerate \/ Settle) /\ minted' <= MaxMints

\* The set-up; the OAuth views may fail to bind after the secrets are settled
SetUp ==
  /\ entry \in {"unloaded", "reloading"} /\ EnsureSecrets
  /\ \/ entry' = "loaded" /\ last' = options'
     \/ entry' = "unloaded" /\ UNCHANGED last
  /\ UNCHANGED <<told, served>>

\* The bring-up in the background registers the webhook and shows the URLs
BringUp ==
  /\ entry = "loaded" /\ served = Blank
  /\ served' = data
  /\ UNCHANGED <<entry, data, options, last, told, minted, history>>

\* It fails later on, or is torn down
GoesDown ==
  /\ served # Blank /\ served' = Blank
  /\ UNCHANGED <<entry, data, options, last, told, minted, history>>

\* The options form is submitted, with what it showed or what the user has typed:
\* a custom secret, or one that was made before.  The form may be old.  The
\* listener runs if the options differ and it is there
Save(o) ==
  /\ saves < MaxSaves /\ saves' = saves + 1
  /\ \A k \in Overridable : o.override[k] \in Custom \cup 1 .. minted \cup {Empty}
  /\ options' = o
  /\ told' = (told \/ (entry = "loaded" /\ o # options))
  /\ asked' = IF o.regenerate THEN asked + 1 ELSE asked
  /\ retired' = [k \in Kinds |-> retired[k] \ (IF k \in Overridable THEN {o.override[k]} ELSE {})]
  /\ UNCHANGED <<entry, data, last, served, minted, rotations>>

\* It reloads the entry unless the options are those of the last set-up
Listener ==
  /\ told /\ told' = FALSE
  /\ IF entry = "loaded" /\ last = options THEN UNCHANGED <<entry, served>>
     ELSE entry' = "reloading" /\ served' = Blank
  /\ UNCHANGED <<data, options, last, minted, history>>

\* Mutant of Unload: the server stays up
Unload_StaysUp ==
  /\ entry # "unloaded" /\ entry' = "unloaded" /\ told' = FALSE
  /\ UNCHANGED <<data, options, last, served, minted, history>>

\* The entry is unloaded, or Home Assistant restarts
Unload ==
  /\ entry # "unloaded" /\ entry' = "unloaded" /\ served' = Blank
  /\ told' = FALSE
  /\ UNCHANGED <<data, options, last, minted, history>>

Next == SetUp \/ BringUp \/ GoesDown \/ (\E o \in Options : Save(o)) \/ Listener \/ Unload

Spec == Init /\ [][Next]_vars

-----------------------------------------------------------------------------

\* The variables have their types, and only a loaded entry is served.
TypeOK ==
  /\ entry \in {"unloaded", "loaded", "reloading"}
  /\ data \in [Kinds -> Secret] /\ options \in Options /\ last \in Options
  /\ told \in BOOLEAN /\ served \in [Kinds -> Secret]
  /\ minted \in 0 .. MaxMints /\ saves \in 0 .. MaxSaves
  /\ asked \in 0 .. saves /\ rotations \in Nat
  /\ retired \in [Kinds -> SUBSET (Custom \cup Minted)]
  /\ served # Blank => entry = "loaded"

\* A secret that a user had regenerated is not served again, at no set-up, unless
\* options that name it are saved later: the overrides are cleared with it, or the
\* next set-up would bring a given-away secret back (_ensure_secrets).
RetiredStaysOut == \A k \in Kinds : served[k] \notin retired[k]

\* "One-time action": every regeneration was asked for by a save of its own, so the
\* URLs handed to clients survive restarts and reloads (_ensure_secrets).
OncePerRequest == rotations + (IF options.regenerate THEN 1 ELSE 0) <= asked

\* What is served is what the user chose: when no reload is under way and no
\* listener is to run, the server is reached under the saved overrides.
OverrideIsServed ==
  served # Blank /\ ~told =>
    /\ ~options.regenerate /\ served = data
    /\ \A k \in Overridable : options.override[k] # Empty => served[k] = options.override[k]
=============================================================================
