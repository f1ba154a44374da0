---------------------------- MODULE MCHttpProbe ----------------------------
(***************************************************************************)
(* An instance of HttpProbe for TLC.                                       *)
(***************************************************************************)
EXTENDS HttpProbe

CONSTANTS name, localhost

Ip(net, nat64) == [net |-> net, nat64 |-> nat64]
Global == Ip("global", FALSE)
Global64 == Ip("global", TRUE)
Localhost == Ip("loopback", FALSE)
Localhost64 == Ip("loopback", TRUE)
Private == Ip("reserved", FALSE)

To(host) == [scheme |-> "https", host |-> host, user |-> FALSE, port_ok |-> TRUE,
             sendable |-> TRUE]

Starts == {To(name), To(localhost), To(Global), To(Localhost), To(Private),
           [To(name) EXCEPT !.sendable = FALSE]}

\* Redirects to every kind of host, and to each thing that is refused.
Redirects ==
  {NULL, Unsplittable, Relative, To(name), To(localhost), To(Global64), To(Localhost),
   To(NULL), [To(name) EXCEPT !.scheme = "other"], [To(name) EXCEPT !.user = TRUE],
   [To(name) EXCEPT !.port_ok = FALSE], [To(Global) EXCEPT !.port_ok = FALSE],
   [To(Global) EXCEPT !.sendable = FALSE]}

\* No address, one, and pairs that differ in what may be done with them.
Answers ==
  {{}, {Global}, {Localhost}, {Global, Global64}, {Global, Private},
   {Global, Localhost}, {Global64, Localhost64}}

Timeouts == [op \in Awaits |-> IF op = "connect" THEN 1 ELSE 2]
=============================================================================
