---------------------------- MODULE OneShotCodes ----------------------------
(***************************************************************************)
(* What an authorization code promises, without stores, clocks, providers  *)
(* or requests: it is issued once, for a redirect and a challenge, and     *)
(* redeemed at most once, by someone who presents that redirect and the    *)
(* challenge's verifier.  A code may lapse at any time before that, and    *)
(* then it is worthless.                                                   *)
(***************************************************************************)
CONSTANTS Codes, Redirects, Verifiers,
          Challenge(_)   \* the S256 challenge of a verifier

VARIABLES status,  \* what has become of each code
          bound    \* the redirect and the challenge each issued code is bound to

vars == <<status, bound>>

Unbound == [redirect |-> "none", challenge |-> "none"]
Bindings == [redirect : Redirects, challenge : {Challenge(v) : v \in Verifiers}]

Pending == {c \in Codes : status[c] = "pending"}

Init ==
  /\ status = [c \in Codes |-> "unissued"]
  /\ bound = [c \in Codes |-> Unbound]

\* Any set of pending codes may lapse on the way
Lapsed(S) == [c \in Codes |-> IF c \in S THEN "lapsed" ELSE status[c]]

Lapse ==
  /\ \E S \in SUBSET Pending : status' = Lapsed(S)
  /\ UNCHANGED bound

Issue(c, b) ==
  /\ status[c] = "unissued"
  /\ \E S \in SUBSET Pending : status' = [Lapsed(S) EXCEPT ![c] = "pending"]
  /\ bound' = [bound EXCEPT ![c] = b]

Redeem(c, redirect, verifier) ==
  /\ status[c] = "pending"
  /\ bound[c] = [redirect |-> redirect, challenge |-> Challenge(verifier)]
  /\ status' = [status EXCEPT ![c] = "redeemed"]
  /\ UNCHANGED bound

Next ==
  \/ Lapse
  \/ \E c \in Codes, b \in Bindings : Issue(c, b)
  \/ \E c \in Codes, r \in Redirects, v \in Verifiers : Redeem(c, r, v)

Spec == Init /\ [][Next]_vars
=============================================================================
