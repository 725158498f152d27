-------------------------- MODULE MCRefreshIdentity --------------------------
(* Instances of RefreshIdentity for TLC. *)
EXTENDS RefreshIdentity

Web(o, c) == [origin |-> o, canon |-> c, site |-> "web", loopback |-> FALSE]
Loop(port) == [origin |-> port, canon |-> port, site |-> "callback", loopback |-> TRUE]

\* One origin in two spellings, another one, and a loopback callback on two ports
MCRedirects ==
  {Web("https://a", "https://a"), Web("https://a:443", "https://a"),
   Web("https://b", "https://b"), Loop("http://localhost:1"), Loop("http://localhost:2")}

MCOriginOf == [c \in UrlClients |-> "https://a"]

\* Registrations of one or two redirects
MCLists == {{r, q} : r, q \in MCRedirects}

\* The identity of the URL client is long
MCLong == UrlClients
=============================================================================
