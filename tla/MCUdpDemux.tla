---------------------------- MODULE MCUdpDemux -----------------------------
(* Clients and scenarios of UdpDemux for TLC. *)
EXTENDS UdpDemux

CONSTANTS c1, c2, c3

MCClient == {c1, c2, c3}
Two == {c1, c2}

\* Two random keys have the same conv with probability 1/256.
MCConv == [c \in MCClient |-> 7]

\* Nothing fails.
Still == [clients |-> Two, quits |-> {}, faults |-> {}, losses |-> 0, dups |-> 0, sends |-> 1]

\* Clients disconnect, and a datagram is lost.
Lossy == [Still EXCEPT !.quits = Two, !.losses = 1]

\* A datagram is repeated.
Echoing == [Still EXCEPT !.dups = 1]

\* Calls fail, clients disconnect, and a datagram is repeated.
Failing == [Still EXCEPT !.quits = Two, !.faults = FaultKinds, !.dups = 1, !.sends = 0]

\* A datagram is repeated twice, and connect fails.
Insistent == [Still EXCEPT !.faults = {"connect"}, !.dups = 2, !.sends = 0]

\* A third client disconnects with data under way.
Leaving == [Still EXCEPT !.clients = MCClient, !.quits = {c3}]

MCScenarios == {Still, Lossy, Echoing, Failing, Insistent, Leaving}
StillOnly == {Still}
=============================================================================
