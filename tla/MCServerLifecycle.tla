-------------------------- MODULE MCServerLifecycle --------------------------
(* Instances of ServerLifecycle for TLC. *)
EXTENDS ServerLifecycle

\* Two ports and every kind of webhook option
MCUserOptions ==
  {[port |-> 1, webhook |-> "ha_auth"], [port |-> 2, webhook |-> "none"],
   [port |-> 1, webhook |-> "disabled"], [port |-> 1, webhook |-> "unknown"]}

\* Two option sets on two ports, one that exposes the server and one that does not
MCTwoOptions ==
  {[port |-> 1, webhook |-> "ha_auth"], [port |-> 2, webhook |-> "unknown"]}

\* One option set
MCOneOption == {[port |-> 1, webhook |-> "ha_auth"]}
=============================================================================
