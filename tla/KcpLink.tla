------------------------------ MODULE KcpLink ------------------------------
(***************************************************************************)
(* Two KCP endpoints joined by UDP, which loses, duplicates and reorders   *)
(* datagrams.  Each endpoint's steps are the calls kcpev.c makes on the    *)
(* control block: ikcp_send from kcpev_send_command, ikcp_update (and with *)
(* it ikcp_flush) from the kcp timer, ikcp_input from the udp read         *)
(* callback and ikcp_recv from try_kcp_recv.                               *)
(***************************************************************************)
EXTENDS Kcp, FiniteSets

CONSTANTS
  End,          \* the two endpoints
  Loads,        \* what the applications and the network may do, see Load
  NetCap        \* bound on the datagrams in flight in one direction

\* A load: the windows both ends are given and, as bounds, the messages of
\* each end, the numbers of fragments they are cut into, the datagrams lost
\* and duplicated, and the retransmissions made before the answer came.
Load == [snd_wnd : Nat \ {0}, rcv_wnd : Nat \ {0}, msgs : [End -> Nat], frags : SUBSET (1..255),
         losses : Nat, dups : Nat, early : Nat]

ASSUME EndAssumption == \E a, b \in End : a # b /\ End = {a, b}
\* A message must fit the receive window or ikcp_recv could never return it;
\* kcpev's largest packet is cut into 48 fragments, its window is 128.
ASSUME LoadAssumption ==
  \A l \in Loads : l \in Load /\ WndInit <= l.rcv_wnd /\ l.frags \subseteq 1..l.rcv_wnd

VARIABLES
  load,         \* the load of this behaviour
  kcb,          \* kcb[e]: control block of endpoint e
  net,          \* net[e]: set of datagrams on their way to e
  losses, dups, early,  \* faults so far
  sent, rcvd    \* messages given to ikcp_send, returned by ikcp_recv

vars == <<load, kcb, net, losses, dups, early, sent, rcvd>>

Peer(e) == CHOOSE p \in End : p # e

\* The fragments of the i-th message of an endpoint, each told from all others.
MessageOf(i, n) == [j \in 1..n |-> <<i, j>>]

Message ==
  UNION {{MessageOf(i, n) : i \in 1..Max({l.msgs[e] : e \in End}), n \in l.frags} : l \in Loads}

-----------------------------------------------------------------------------
Send(e, n) ==
  /\ Len(sent[e]) < load.msgs[e]
  /\ LET m == MessageOf(Len(sent[e]) + 1, n)
     IN  /\ sent' = [sent EXCEPT ![e] = Append(@, m)]
         /\ kcb' = [kcb EXCEPT ![e] = KcpSend(@, m)]
  /\ UNCHANGED <<load, net, losses, dups, early, rcvd>>

\* One run of the kcp timer that calls ikcp_flush.
Flush(e, late, due) ==
  LET f == KcpFlush(kcb[e], late, due)
  IN  /\ kcb' = [kcb EXCEPT ![e] = f.kcp]
      /\ net' = [net EXCEPT ![Peer(e)] = @ \union Datagrams(f.out)]
      /\ Cardinality(net'[Peer(e)]) <= NetCap
      /\ UNCHANGED <<load, losses, dups, sent, rcvd>>

\* Everything that was sent, and the answer to it, has arrived or is lost.
Quiet == \A e \in End : net[e] = {} /\ kcb[e].acklist = <<>> /\ kcb[e].probe = {}

InTransit(e) == {seg.sn : seg \in {s \in ToSet(kcb[e].snd_buf) : s.xmit}}

\* Nothing is late.
Update(e) == Flush(e, {}, FALSE) /\ early' = early

\* Time has passed and no answer is to be expected.
UpdateLate(e) ==
  /\ Quiet
  /\ InTransit(e) # {} \/ kcb[e].probing
  /\ Flush(e, InTransit(e), TRUE)
  /\ early' = early

\* Some segments are taken to be late although they, or their
\* acknowledgements, are still on their way.
UpdateEarly(e) ==
  /\ ~Quiet
  /\ early < load.early
  /\ \E late \in SUBSET InTransit(e) \ {{}}, due \in BOOLEAN : Flush(e, late, due)
  /\ early' = early + 1

\* A datagram arrives; the network may keep a copy for later.
Input(e, d, keep) ==
  /\ d \in net[e]
  /\ kcb' = [kcb EXCEPT ![e] = KcpInput(@, d)]
  /\ IF keep
     THEN dups < load.dups /\ dups' = dups + 1 /\ net' = net
     ELSE dups' = dups /\ net' = [net EXCEPT ![e] = @ \ {d}]
  /\ UNCHANGED <<load, losses, early, sent, rcvd>>

Lose(e, d) ==
  /\ d \in net[e]
  /\ losses < load.losses
  /\ losses' = losses + 1
  /\ net' = [net EXCEPT ![e] = @ \ {d}]
  /\ UNCHANGED <<load, kcb, dups, early, sent, rcvd>>

Recv(e) ==
  /\ KcpReady(kcb[e])
  /\ rcvd' = [rcvd EXCEPT ![e] = Append(@, KcpPeek(kcb[e]))]
  /\ kcb' = [kcb EXCEPT ![e] = KcpRecv(@)]
  /\ UNCHANGED <<load, net, losses, dups, early, sent>>

-----------------------------------------------------------------------------
Init ==
  /\ load \in Loads
  /\ kcb = [e \in End |-> WndSize(KcpCreate, load.snd_wnd, load.rcv_wnd)]
  /\ net = [e \in End |-> {}]
  /\ losses = 0 /\ dups = 0 /\ early = 0
  /\ sent = [e \in End |-> <<>>]
  /\ rcvd = [e \in End |-> <<>>]

Next ==
  \E e \in End :
    \/ \E n \in load.frags : Send(e, n)
    \/ Update(e)
    \/ UpdateLate(e)
    \/ UpdateEarly(e)
    \/ \E d \in net[e], keep \in BOOLEAN : Input(e, d, keep)
    \/ \E d \in net[e] : Lose(e, d)
    \/ Recv(e)

SafetySpec == Init /\ [][Next]_vars

\* The timer keeps running, and finds room in the network again and again,
\* which NetCap bounds; every retransmission time passes in the end.  A
\* datagram that is not lost arrives, and what is ready is read.
Fairness ==
  \A e \in End :
    /\ SF_vars(Update(e))
    /\ SF_vars(UpdateLate(e))
    /\ WF_vars(\E d \in net[e] : Input(e, d, FALSE))
    /\ WF_vars(Recv(e))

Spec == SafetySpec /\ Fairness

-----------------------------------------------------------------------------
TypeOK ==
  /\ \A e \in End :
       /\ kcb[e].snd_una <= kcb[e].snd_nxt
       /\ kcb[e].rmt_wnd \in 0..load.rcv_wnd
       /\ kcb[e].probe \subseteq {"ASK_SEND", "ASK_TELL"}
       /\ \A d \in net[e] : Len(d) \in 1..MtuSegs
  /\ load \in Loads
  /\ losses \in 0..load.losses /\ dups \in 0..load.dups /\ early \in 0..load.early

(***************************************************************************)
(* The sender's buffer is the unacknowledged part of [snd_una, snd_nxt):   *)
(* in order, without repetition, and snd_una is its first element or, if   *)
(* it is empty, snd_nxt.                                                   *)
(***************************************************************************)
SendBufferOrdered ==
  \A e \in End : LET k == kcb[e] b == k.snd_buf IN
    /\ \A i, j \in DOMAIN b : i < j => b[i].sn < b[j].sn
    /\ IF b = <<>> THEN k.snd_una = k.snd_nxt
       ELSE k.snd_una = b[1].sn /\ b[Len(b)].sn < k.snd_nxt

(***************************************************************************)
(* An acknowledgement is a promise: a segment that has left the sender's   *)
(* buffer is held by the receiver (queued, buffered or already returned),  *)
(* whatever was lost, repeated or overtaken.                               *)
(***************************************************************************)
AckedIsStored ==
  \A e \in End : LET k == kcb[e] p == kcb[Peer(e)] IN
    \A sn \in 0..(k.snd_nxt - 1) :
      \/ \E j \in DOMAIN k.snd_buf : k.snd_buf[j].sn = sn
      \/ sn < p.rcv_nxt
      \/ \E j \in DOMAIN p.rcv_buf : p.rcv_buf[j].sn = sn

(***************************************************************************)
(* The sender can run past the receiver's window when it goes by a window  *)
(* announcement that is out of date, but never by more than the window     *)
(* itself: the numbers the two ends compare stay far closer than the 2^31  *)
(* that the signed difference of _itimediff can tell apart.                *)
(***************************************************************************)
SpreadBounded ==
  \A e \in End : kcb[e].snd_nxt <= kcb[Peer(e)].rcv_nxt + 2 * load.rcv_wnd

(***************************************************************************)
(* The receiver's buffer is in order without repetition, lies in the       *)
(* window, and holds no segment that could already be in the queue; the    *)
(* queue never exceeds the window.                                         *)
(***************************************************************************)
ReceiveBufferOrdered ==
  \A e \in End : LET k == kcb[e] b == k.rcv_buf IN
    /\ \A i, j \in DOMAIN b : i < j => b[i].sn < b[j].sn
    /\ \A i \in DOMAIN b : InWindow(k, b[i].sn)
    /\ b # <<>> /\ b[1].sn = k.rcv_nxt => Len(k.rcv_queue) = k.rcv_wnd
    /\ Len(k.rcv_queue) <= k.rcv_wnd

(***************************************************************************)
(* Messages come out whole, in order and exactly once: every step of the   *)
(* link is a step of the reliable stream, or none.                         *)
(***************************************************************************)
Stream == INSTANCE ReliableStream

StreamSafety == Stream!Spec

(***************************************************************************)
(* And all of them come out once the applications stop sending, as long as *)
(* not everything is lost: also when the window was closed and the         *)
(* datagram that opens it again was lost.                                  *)
(***************************************************************************)
EverythingArrives == <>[](\A e \in End : rcvd[Peer(e)] = sent[e])
=============================================================================
