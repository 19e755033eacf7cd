----------------------------- MODULE MCSession -----------------------------
(* Scenarios of Session for TLC. *)
EXTENDS Session

\* Everything can go wrong: a lost and two repeated handshake datagrams,
\* failing calls, UDP going down, the client quitting, slow heartbeats.
Rough == [faults |-> FaultKinds, losses |-> 1, dups |-> 2, sends |-> 0, kq |-> 1, udp |-> "any"]

\* Nothing is lost and UDP is fast.
Healthy == [faults |-> {}, losses |-> 0, dups |-> 0, sends |-> 2, kq |-> 3, udp |-> "fast"]

Both == {Rough, Healthy}

\* One handshake datagram may be lost; UDP works and is fast.
LostHand2 == {[Healthy EXCEPT !.losses = 1]}

\* A send() on the UDP socket may fail; everything else works.
UdpSend == {[Healthy EXCEPT !.faults = {"udp_send"}]}

\* A handshake datagram is repeated and getaddrinfo fails.
RepeatedHand1 == {[Healthy EXCEPT !.faults = {"udp_addr"}, !.dups = 1, !.sends = 0, !.kq = 1]}

\* The hypothesis of the theorem HeartbeatsSuffice of SessionProofs.
ASSUME RoomAssumption == \A s \in Scenarios : s.udp = "fast" => s.sends < s.kq
=============================================================================
