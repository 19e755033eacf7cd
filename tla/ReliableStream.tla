--------------------------- MODULE ReliableStream ---------------------------
(***************************************************************************)
(* What KCP promises (README: "udp 使用 kcp 来保证收发可靠"): between two   *)
(* endpoints, in each direction, the messages handed to ikcp_send come out *)
(* of ikcp_recv whole, in order and exactly once.                          *)
(***************************************************************************)
EXTENDS Naturals, Sequences

CONSTANTS End,      \* the two endpoints
          Message   \* what can be sent

VARIABLES sent,     \* sent[e]: messages endpoint e has sent
          rcvd      \* rcvd[e]: messages endpoint e has received

vars == <<sent, rcvd>>

Peer(e) == CHOOSE p \in End : p # e

Init == sent = [e \in End |-> <<>>] /\ rcvd = [e \in End |-> <<>>]

Send(e, m) == sent' = [sent EXCEPT ![e] = Append(@, m)] /\ rcvd' = rcvd

Deliver(e) ==
  /\ Len(rcvd[e]) < Len(sent[Peer(e)])
  /\ rcvd' = [rcvd EXCEPT ![e] = Append(@, sent[Peer(e)][Len(@) + 1])]
  /\ sent' = sent

Next == \E e \in End : Deliver(e) \/ \E m \in Message : Send(e, m)

Spec == Init /\ [][Next]_vars
=============================================================================
