--------------------------- MODULE KcpLinkProofs ----------------------------
(***************************************************************************)
(* Proofs about KcpLink, for every load: any windows, any number of        *)
(* messages and fragments, any losses, copies and early retransmissions,   *)
(* and datagrams in any order.                                             *)
(***************************************************************************)
EXTENDS KcpLink, KcpProofs

\* g[e] is all that endpoint e was given to send.
Joint(g, C, N, S, R, W) ==
  /\ g \in [End -> Seq(Item)]
  /\ \A e \in End : Side(C[e], C[Peer(e)], g[e], g[Peer(e)], N[e], S[Peer(e)], R[e], W)

(***************************************************************************)
(* The inductive invariant. What is in the buffers, on the network and     *)
(* returned is only right relative to what was sent, which no variable     *)
(* keeps whole once it is acknowledged: the list of it is quantified.      *)
(***************************************************************************)
IInv ==
  /\ load \in Loads
  /\ losses \in 0..load.losses /\ dups \in 0..load.dups /\ early \in 0..load.early
  /\ DOMAIN kcb = End /\ DOMAIN net = End /\ DOMAIN sent = End /\ DOMAIN rcvd = End
  /\ \E g : Joint(g, kcb, net, sent, rcvd, load.rcv_wnd)

(***************************************************************************)
(* There are two endpoints, and each is the peer of the other.             *)
(***************************************************************************)
LEMMA Peers ==
  /\ \A e \in End : Peer(e) \in End /\ Peer(e) # e /\ Peer(Peer(e)) = e
  /\ \A e, x \in End : x = e \/ x = Peer(e)
<1>1. PICK a \in End, b \in End : a # b /\ End = {a, b}
  BY EndAssumption
<1>2. \A e \in End : Peer(e) \in End /\ Peer(e) # e
  <2> SUFFICES ASSUME NEW e \in End PROVE Peer(e) \in End /\ Peer(e) # e
    OBVIOUS
  <2>1. \E p \in End : p # e
    BY <1>1
  <2> QED BY <2>1 DEF Peer
<1>3. \A e, x \in End : x = e \/ x = Peer(e)
  BY <1>1, <1>2
<1> HIDE DEF Peer
<1> QED BY <1>1, <1>2, <1>3

(***************************************************************************)
(* The bounds of a load are numbers, and its windows are not zero.         *)
(***************************************************************************)
LEMMA LoadFacts ==
  ASSUME NEW l \in Loads
  PROVE  /\ l.rcv_wnd \in Nat \ {0} /\ l.snd_wnd \in Nat \ {0} /\ WndInit <= l.rcv_wnd
         /\ \A n \in l.frags : n \in Nat \ {0}
         /\ l.losses \in Nat /\ l.dups \in Nat /\ l.early \in Nat
         /\ l.msgs \in [End -> Nat]
<1>1. l \in Load /\ WndInit <= l.rcv_wnd /\ l.frags \subseteq 1..l.rcv_wnd
  BY LoadAssumption
<1> QED BY <1>1 DEF Load

(***************************************************************************)
(* A message has a fragment or more.                                       *)
(***************************************************************************)
LEMMA MessageOfIs ==
  ASSUME NEW i \in Nat, NEW n \in Nat \ {0}
  PROVE  MessageOf(i, n) \in Seq(Token) /\ Len(MessageOf(i, n)) > 0
<1>1. MessageOf(i, n) \in [1..n -> Token]
  BY DEF MessageOf, Token
<1>2. MessageOf(i, n) \in Seq(Token) /\ Len(MessageOf(i, n)) = n
  BY <1>1, Listed
<1> QED BY <1>2

(***************************************************************************)
(* What a load may send is a message of the stream.                        *)
(***************************************************************************)
LEMMA MessageOfLoad ==
  ASSUME NEW l \in Loads, NEW e \in End, NEW i \in 1..l.msgs[e], NEW n \in l.frags
  PROVE  MessageOf(i, n) \in Message
<1> DEFINE T == {l.msgs[x] : x \in End}
<1>1. l.msgs \in [End -> Nat]
  BY LoadFacts
<1>2. PICK a \in End, b \in End : a # b /\ End = {a, b}
  BY EndAssumption
<1>3. l.msgs[a] \in Nat /\ l.msgs[b] \in Nat /\ T = {l.msgs[a], l.msgs[b]}
  BY <1>1, <1>2
<1>4. \E x \in T : \A y \in T : x >= y
  <2>1. CASE l.msgs[a] >= l.msgs[b]
    <3>1. l.msgs[a] \in T /\ \A y \in T : l.msgs[a] >= y
      BY <1>3, <2>1
    <3> HIDE DEF T
    <3> QED BY <3>1
  <2>2. CASE l.msgs[b] >= l.msgs[a]
    <3>1. l.msgs[b] \in T /\ \A y \in T : l.msgs[b] >= y
      BY <1>3, <2>2
    <3> HIDE DEF T
    <3> QED BY <3>1
  <2> QED BY <1>3, <2>1, <2>2
<1>5. Max(T) \in T /\ \A y \in T : Max(T) >= y
  BY <1>4 DEF Max
<1>6. l.msgs[e] \in T /\ l.msgs[e] \in Nat /\ Max(T) \in Nat
  BY <1>1, <1>5
<1>7. i \in 1..Max(T)
  <2>1. Max(T) >= l.msgs[e]
    BY <1>5, <1>6
  <2> HIDE DEF T
  <2> QED BY <2>1, <1>6
<1> QED BY <1>7, SMTT(30) DEF Message

(***************************************************************************)
(* At the start nothing has been sent.                                     *)
(***************************************************************************)
LEMMA InitJoint ==
  Init => IInv
<1> SUFFICES ASSUME Init PROVE IInv
  OBVIOUS
<1> DEFINE W == load.rcv_wnd
           k == WndSize(KcpCreate, load.snd_wnd, load.rcv_wnd)
           start == [i \in 1..1 |-> 0]
           g == [e \in End |-> <<>>]
<1>1. load \in Loads /\ W \in Nat \ {0} /\ load.snd_wnd \in Nat \ {0} /\ WndInit <= W
      /\ load.losses \in Nat /\ load.dups \in Nat /\ load.early \in Nat /\ WndInit \in Nat
  BY LoadFacts, WndAssumption DEF Init
<1>2. k = [ snd_wnd   |-> load.snd_wnd, rcv_wnd |-> W,
            snd_queue |-> <<>>, snd_buf   |-> <<>>, snd_una   |-> 0, snd_nxt |-> 0,
            rmt_wnd   |-> WndInit, rcv_buf   |-> <<>>, rcv_queue |-> <<>>, rcv_nxt   |-> 0,
            acklist   |-> <<>>, probe     |-> {}, probing   |-> FALSE ]
  <2>1. load.snd_wnd > 0 /\ load.rcv_wnd > 0
    BY <1>1
  <2>2. k = [KcpCreate EXCEPT !.snd_wnd = load.snd_wnd, !.rcv_wnd = W]
    BY <2>1 DEF WndSize
  <2> HIDE DEF k, W
  <2> QED BY <2>2 DEF KcpCreate
<1>3. k \in KcpRec
  <2>1. <<>> \in Seq(Nat) /\ <<>> \in Seq(Item) /\ <<>> \in Seq(SendSeg) /\ <<>> \in Seq(RecvSeg)
    OBVIOUS
  <2> QED BY <1>1, <1>2, <2>1 DEF KcpRec
<1>4. /\ k.snd_queue = <<>> /\ k.snd_buf = <<>> /\ k.snd_una = 0 /\ k.snd_nxt = 0
      /\ k.rmt_wnd = WndInit /\ k.rcv_buf = <<>> /\ k.rcv_queue = <<>> /\ k.rcv_nxt = 0
      /\ k.acklist = <<>> /\ k.rcv_wnd = W
  BY <1>2
<1> HIDE DEF k, W
<1>5. Sending(k, <<>>, Own(k), W)
  <2>1. Queued(k.snd_queue, k.snd_nxt, <<>>)
    BY <1>4 DEF Queued
  <2>2. Outstanding(k.snd_buf, k.snd_nxt, <<>>, Own(k))
    BY <1>4 DEF Outstanding, Ordered
  <2>3. k.snd_una = First(k.snd_buf, k.snd_nxt)
    BY <1>4 DEF First
  <2> QED BY <1>1, <1>4, <2>1, <2>2, <2>3 DEF Sending, Loose
<1>6. Receiving(k, <<>>)
  BY <1>1, <1>4 DEF Receiving, Unpacked, Buffered, Ordered, InOrder, Full, AcksKept
<1>7. Cut(<<>>, <<>>, start)
  BY DEF Cut
<1>8. Delivered(k, <<>>, <<>>, <<>>)
  <2>1. start[Len(<<>>) + 1] = 0 /\ k.rcv_nxt - Len(k.rcv_queue) = 0
    <3>1. Len(<<>>) = 0 /\ Len(<<>>) + 1 = 1 /\ 1 \in 1..1 /\ start[1] = 0
      OBVIOUS
    <3>2. start[Len(<<>>) + 1] = 0
      BY <3>1
    <3> HIDE DEF start
    <3>3. k.rcv_nxt - Len(k.rcv_queue) = 0
      <4>1. Len(k.rcv_queue) = 0
        BY <1>4
      <4>2. k.rcv_nxt = 0
        BY <1>4
      <4> QED BY <4>1, <4>2
    <3> QED BY <3>2, <3>3
  <2>2. <<>> \in Seq(Seq(Token)) /\ Len(<<>>) = 0
    OBVIOUS
  <2> HIDE DEF start
  <2> QED BY <1>7, <2>1, <2>2 DEF Delivered
<1>9. Side(k, k, <<>>, <<>>, {}, <<>>, <<>>, W)
  <2>1. <<>> \in Seq(Item)
    OBVIOUS
  <2> QED BY <1>1, <1>3, <1>4, <1>5, <1>6, <1>8, <2>1 DEF Side, Endpoint
<1>10. \A e \in End : /\ kcb[e] = k /\ kcb[Peer(e)] = k /\ net[e] = {} /\ sent[Peer(e)] = <<>>
                      /\ rcvd[e] = <<>> /\ g[e] = <<>> /\ g[Peer(e)] = <<>>
  BY Peers DEF Init, k
<1>11. g \in [End -> Seq(Item)]
  OBVIOUS
<1> HIDE DEF g
<1>12. Joint(g, kcb, net, sent, rcvd, W)
  BY <1>9, <1>10, <1>11 DEF Joint
<1>13. DOMAIN kcb = End /\ DOMAIN net = End /\ DOMAIN sent = End /\ DOMAIN rcvd = End
  BY DEF Init
<1>14. losses \in 0..load.losses /\ dups \in 0..load.dups /\ early \in 0..load.early
  BY <1>1 DEF Init
<1> QED BY <1>1, <1>12, <1>13, <1>14 DEF IInv, W

\* A step of endpoint e that hands in no message: C, N and R before it, D, M
\* and Q after it.
Hop(g, C, N, S, R, W, e, D, M, Q) ==
  /\ Joint(g, C, N, S, R, W) /\ e \in End
  /\ D[Peer(e)] = C[Peer(e)] /\ Q[Peer(e)] = R[Peer(e)]
  /\ Keeps(C[e], D[e])
  /\ Side(D[e], C[Peer(e)], g[e], g[Peer(e)], M[e], S[Peer(e)], Q[e], W)
  /\ \A d \in M[Peer(e)] :
       d \in N[Peer(e)] \/ (Carried(d, Own(D[e]), g[e], W) /\ Len(d) \in 1..MtuSegs)

(***************************************************************************)
(* A step of endpoint e that sends no message keeps the invariant of both: *)
(* what it writes to the network is true of what it holds, and its peer    *)
(* finds it holding no less than before.                                   *)
(***************************************************************************)
LEMMA JointStep ==
  ASSUME NEW g, NEW C, NEW N, NEW S, NEW R, NEW W, NEW e, NEW D, NEW M, NEW Q,
         Hop(g, C, N, S, R, W, e, D, M, Q)
  PROVE  Joint(g, D, M, S, Q, W)
<1> DEFINE p == Peer(e)
<1>0. e \in End
  BY DEF Hop
<1>1. p \in End /\ p # e /\ Peer(p) = e /\ \A x \in End : x = e \/ x = p
  BY <1>0, Peers
<1>2. /\ D[p] = C[p] /\ Q[p] = R[p] /\ Keeps(C[e], D[e])
      /\ \A d \in M[p] : d \in N[p] \/ (Carried(d, Own(D[e]), g[e], W) /\ Len(d) \in 1..MtuSegs)
  BY DEF Hop
<1>3. Side(D[e], D[p], g[e], g[p], M[e], S[p], Q[e], W)
  BY <1>2 DEF Hop
<1>4. Side(C[p], C[e], g[p], g[e], N[p], S[e], R[p], W)
  BY <1>1 DEF Joint, Hop
<1>5. Side(C[p], D[e], g[p], g[e], N[p], S[e], R[p], W)
  BY <1>2, <1>4, PeerGrows
<1>6. Side(C[p], D[e], g[p], g[e], M[p], S[e], R[p], W)
  BY <1>2, <1>5 DEF Side
<1>7. Side(D[p], D[e], g[p], g[e], M[p], S[e], Q[p], W)
  BY <1>2, <1>6
<1>8. \A x \in End : Side(D[x], D[Peer(x)], g[x], g[Peer(x)], M[x], S[Peer(x)], Q[x], W)
  <2> SUFFICES ASSUME NEW x \in End
               PROVE  Side(D[x], D[Peer(x)], g[x], g[Peer(x)], M[x], S[Peer(x)], Q[x], W)
    OBVIOUS
  <2>1. CASE x = e
    BY <2>1, <1>3
  <2>2. CASE x = p
    BY <2>2, <1>1, <1>7
  <2> QED BY <2>1, <2>2, <1>1
<1>9. g \in [End -> Seq(Item)]
  BY DEF Joint, Hop
<1> QED BY <1>8, <1>9 DEF Joint

(***************************************************************************)
(* A step that sends one: the list of what was sent grows.                 *)
(***************************************************************************)
LEMMA JointSend ==
  ASSUME NEW g, NEW C, NEW N, NEW S, NEW R, NEW W, Joint(g, C, N, S, R, W),
         DOMAIN C = End, DOMAIN S = End,
         NEW e \in End, NEW data \in Seq(Token), Len(data) > 0
  PROVE  \E f : Joint(f, [C EXCEPT ![e] = KcpSend(C[e], data)], N,
                      [S EXCEPT ![e] = Append(S[e], data)], R, W)
<1> DEFINE p == Peer(e)
           l == KcpSend(C[e], data)
           t == Append(S[e], data)
           y == g[e] \o Items(data)
           D == [C EXCEPT ![e] = l]
           T == [S EXCEPT ![e] = t]
           f == [g EXCEPT ![e] = y]
<1>1. p \in End /\ p # e /\ Peer(p) = e /\ \A x \in End : x = e \/ x = p
  BY Peers
<1>2. D[e] = l /\ D[p] = C[p] /\ T[e] = t /\ T[p] = S[p]
  BY <1>1
<1>3. f[e] = y /\ f[p] = g[p] /\ DOMAIN f = End /\ f \in [End -> Seq(Item)]
  <2>1. g \in [End -> Seq(Item)]
    BY DEF Joint
  <2>2. y \in Seq(Item)
    BY <2>1, ItemsAreItems, ConcatProperties
  <2> HIDE DEF y
  <2> QED BY <1>1, <2>1, <2>2
<1>4. y = g[e] \o Items(data) /\ l = KcpSend(C[e], data) /\ t = Append(S[e], data)
      /\ data \in Seq(Token) /\ Len(data) > 0
  OBVIOUS
<1> HIDE DEF l, t, y, D, T, f
<1>5. Side(C[e], C[p], g[e], g[p], N[e], S[p], R[e], W)
  BY <1>1 DEF Joint
<1>6. Side(l, C[p], y, g[p], N[e], S[p], R[e], W) /\ Keeps(C[e], l) /\ Extends(g[e], y)
  <2>1. data \in Seq(Token) /\ y = g[e] \o Items(data) /\ l = KcpSend(C[e], data)
    BY <1>4
  <2> DEFINE k == C[e]  q == C[p]  u == g[e]  h == g[p]  n == N[e]  s == S[p]  r == R[e]
  <2>2. Side(k, q, u, h, n, s, r, W) /\ y = u \o Items(data) /\ l = KcpSend(k, data)
    BY <2>1, <1>5
  <2> HIDE DEF k, q, u, h, n, s, r
  <2>3. data \in Seq(Token)
    OBVIOUS
  <2>4. Side(l, q, y, h, n, s, r, W) /\ Keeps(k, l) /\ Extends(u, y)
    BY ONLY <2>2, <2>3, SideSend, ZenonT(60)
  <2> QED BY <2>4 DEF k, q, u, h, n, s, r
<1>7. Side(C[p], C[e], g[p], g[e], N[p], S[e], R[p], W)
  BY <1>1 DEF Joint
<1>8. Delivered(C[p], g[e], S[e], R[p])
  BY <1>7 DEF Side
<1>9. Delivered(C[p], y, t, R[p])
  BY ONLY <1>4, <1>8, DeliveredSent
<1>10. Side(C[p], l, g[p], y, N[p], t, R[p], W)
  BY ONLY <1>6, <1>7, <1>9, PeerMoves
<1>11. \A x \in End : Side(D[x], D[Peer(x)], f[x], f[Peer(x)], N[x], T[Peer(x)], R[x], W)
  <2> SUFFICES ASSUME NEW x \in End
               PROVE  Side(D[x], D[Peer(x)], f[x], f[Peer(x)], N[x], T[Peer(x)], R[x], W)
    OBVIOUS
  <2>1. CASE x = e
    BY <2>1, <1>2, <1>3, <1>6
  <2>2. CASE x = p
    BY <2>2, <1>1, <1>2, <1>3, <1>10
  <2> QED BY <2>1, <2>2, <1>1
<1>12. Joint(f, D, N, T, R, W)
  BY <1>3, <1>11 DEF Joint
<1> QED BY <1>12 DEF D, T, l, t

-----------------------------------------------------------------------------
(***************************************************************************)
(* The invariant at one end.                                               *)
(***************************************************************************)
LEMMA Sides ==
  ASSUME NEW g, Joint(g, kcb, net, sent, rcvd, load.rcv_wnd), NEW e \in End
  PROVE  Side(kcb[e], kcb[Peer(e)], g[e], g[Peer(e)], net[e], sent[Peer(e)], rcvd[e], load.rcv_wnd)
BY DEF Joint

(***************************************************************************)
(* A run of ikcp_flush, whichever segments it takes to be late.            *)
(***************************************************************************)
LEMMA FlushStep ==
  ASSUME IInv, NEW e \in End, NEW late, NEW due, Flush(e, late, due),
         early' \in 0..load.early
  PROVE  IInv'
<1>0. PICK g : Joint(g, kcb, net, sent, rcvd, load.rcv_wnd)
  BY DEF IInv
<1> DEFINE p == Peer(e)
           k == kcb[e]
           f == KcpFlush(k, late, due)
           W == load.rcv_wnd
<1>1. p \in End /\ p # e
  BY Peers
<1>2. Side(k, kcb[p], g[e], g[p], net[e], sent[p], rcvd[e], W)
  BY <1>0, Sides
<1>f. f = KcpFlush(k, late, due)
  OBVIOUS
<1>3. /\ kcb' = [kcb EXCEPT ![e] = f.kcp]
      /\ net' = [net EXCEPT ![p] = @ \union Datagrams(f.out)]
      /\ load' = load /\ losses' = losses /\ dups' = dups /\ sent' = sent /\ rcvd' = rcvd
  BY DEF Flush
<1>4. DOMAIN kcb = End /\ DOMAIN net = End /\ DOMAIN sent = End /\ DOMAIN rcvd = End
  BY DEF IInv
<1> HIDE DEF f
<1>5. /\ Side(f.kcp, kcb[p], g[e], g[p], net[e], sent[p], rcvd[e], W) /\ Keeps(k, f.kcp)
      /\ \A d \in Datagrams(f.out) : Carried(d, Own(f.kcp), g[e], W) /\ Len(d) \in 1..MtuSegs
  BY ONLY <1>2, <1>f, SideFlush
<1>6. /\ kcb'[e] = f.kcp /\ kcb'[p] = kcb[p] /\ net'[e] = net[e] /\ DOMAIN kcb' = End
      /\ net'[p] = net[p] \union Datagrams(f.out) /\ DOMAIN net' = End
  BY <1>1, <1>3, <1>4
<1>7. Hop(g, kcb, net, sent, rcvd, W, e, kcb', net', rcvd)
  <2>1. Joint(g, kcb, net, sent, rcvd, W) /\ e \in End
    BY <1>0
  <2>2. kcb'[Peer(e)] = kcb[Peer(e)] /\ rcvd[Peer(e)] = rcvd[Peer(e)]
    BY ONLY <1>6
  <2>3. Keeps(kcb[e], kcb'[e])
    BY ONLY <1>5, <1>6
  <2>4. Side(kcb'[e], kcb[Peer(e)], g[e], g[Peer(e)], net'[e], sent[Peer(e)], rcvd[e], W)
    BY ONLY <1>5, <1>6
  <2>5. \A d \in net'[Peer(e)] : \/ d \in net[Peer(e)]
                                 \/ Carried(d, Own(kcb'[e]), g[e], W) /\ Len(d) \in 1..MtuSegs
    BY ONLY <1>5, <1>6
  <2> QED BY ONLY <2>1, <2>2, <2>3, <2>4, <2>5 DEF Hop
<1>8. Joint(g, kcb', net', sent, rcvd, W)
  BY <1>7, JointStep
<1>9. Joint(g, kcb', net', sent', rcvd', load'.rcv_wnd)
  BY <1>3, <1>8
<1> QED BY <1>3, <1>4, <1>6, <1>9 DEF IInv

(***************************************************************************)
(* Update, UpdateLate and UpdateEarly: when the timer runs and which       *)
(* segments are late does not matter for the invariant.                    *)
(***************************************************************************)
LEMMA UpdateStep ==
  ASSUME IInv, NEW e \in End, Update(e) \/ UpdateLate(e) \/ UpdateEarly(e)
  PROVE  IInv'
<1>1. early \in 0..load.early /\ load \in Loads /\ load.early \in Nat
  BY LoadFacts DEF IInv
<1>2. CASE Update(e)
  <2>1. Flush(e, {}, FALSE) /\ early' = early
    BY <1>2 DEF Update
  <2> QED BY <1>1, <2>1, FlushStep
<1>3. CASE UpdateLate(e)
  <2>1. Flush(e, InTransit(e), TRUE) /\ early' = early
    BY <1>3 DEF UpdateLate
  <2> QED BY <1>1, <2>1, FlushStep
<1>4. CASE UpdateEarly(e)
  <2>1. PICK late, due : Flush(e, late, due)
    BY <1>4 DEF UpdateEarly
  <2>2. early' \in 0..load.early
    BY <1>1, <1>4 DEF UpdateEarly
  <2> QED BY <2>1, <2>2, FlushStep
<1> QED BY <1>2, <1>3, <1>4

(***************************************************************************)
(* Input: a datagram arrives, and a copy may stay behind.                  *)
(***************************************************************************)
LEMMA InputStep ==
  ASSUME IInv, NEW e \in End, NEW d \in net[e], NEW keep \in BOOLEAN, Input(e, d, keep)
  PROVE  IInv'
<1>0. PICK g : Joint(g, kcb, net, sent, rcvd, load.rcv_wnd)
  BY DEF IInv
<1> DEFINE p == Peer(e)
           k == kcb[e]
           l == KcpInput(k, d)
           W == load.rcv_wnd
<1>1. p \in End /\ p # e
  BY Peers
<1>2. Side(k, kcb[p], g[e], g[p], net[e], sent[p], rcvd[e], W)
  BY <1>0, Sides
<1>l. l = KcpInput(k, d) /\ d \in net[e]
  OBVIOUS
<1>3. /\ kcb' = [kcb EXCEPT ![e] = l]
      /\ net' = net \/ net' = [net EXCEPT ![e] = @ \ {d}]
      /\ load' = load /\ losses' = losses /\ early' = early /\ sent' = sent /\ rcvd' = rcvd
  BY DEF Input
<1>4. DOMAIN kcb = End /\ DOMAIN net = End /\ DOMAIN sent = End /\ DOMAIN rcvd = End
  BY DEF IInv
<1>d. dups' \in 0..load.dups
  <2>1. load.dups \in Nat /\ dups \in 0..load.dups
    BY LoadFacts DEF IInv
  <2> QED BY <2>1 DEF Input
<1> HIDE DEF l
<1>5. Side(l, kcb[p], g[e], g[p], net[e], sent[p], rcvd[e], W) /\ Keeps(k, l)
  BY ONLY <1>2, <1>l, SideInput
<1>6. /\ kcb'[e] = l /\ kcb'[p] = kcb[p] /\ net'[e] \subseteq net[e] /\ DOMAIN kcb' = End
      /\ net'[p] = net[p] /\ DOMAIN net' = End
  BY <1>1, <1>3, <1>4
<1>7. Side(l, kcb[p], g[e], g[p], net'[e], sent[p], rcvd[e], W)
  BY <1>5, <1>6 DEF Side
<1>8. Hop(g, kcb, net, sent, rcvd, W, e, kcb', net', rcvd)
  <2>1. Joint(g, kcb, net, sent, rcvd, W) /\ e \in End
    BY <1>0
  <2>2. kcb'[Peer(e)] = kcb[Peer(e)] /\ rcvd[Peer(e)] = rcvd[Peer(e)]
    BY ONLY <1>6
  <2>3. Keeps(kcb[e], kcb'[e])
    BY ONLY <1>5, <1>6
  <2>4. Side(kcb'[e], kcb[Peer(e)], g[e], g[Peer(e)], net'[e], sent[Peer(e)], rcvd[e], W)
    BY ONLY <1>6, <1>7
  <2>5. \A x \in net'[Peer(e)] : x \in net[Peer(e)]
    BY ONLY <1>6
  <2> QED BY ONLY <2>1, <2>2, <2>3, <2>4, <2>5 DEF Hop
<1>9. Joint(g, kcb', net', sent, rcvd, W)
  BY <1>8, JointStep
<1>10. Joint(g, kcb', net', sent', rcvd', load'.rcv_wnd)
  BY <1>3, <1>9
<1>11. losses' \in 0..load.losses /\ early' \in 0..load.early /\ load \in Loads
  BY <1>3 DEF IInv
<1> QED BY <1>3, <1>4, <1>d, <1>6, <1>10, <1>11 DEF IInv

(***************************************************************************)
(* Lose: what is lost had promised nothing to anybody.                     *)
(***************************************************************************)
LEMMA LoseStep ==
  ASSUME IInv, NEW e \in End, NEW d \in net[e], Lose(e, d)
  PROVE  IInv'
<1>0. PICK g : Joint(g, kcb, net, sent, rcvd, load.rcv_wnd)
  BY DEF IInv
<1> DEFINE p == Peer(e)
           W == load.rcv_wnd
<1>1. p \in End /\ p # e
  BY Peers
<1>2. Side(kcb[e], kcb[p], g[e], g[p], net[e], sent[p], rcvd[e], W)
  BY <1>0, Sides
<1>3. /\ net' = [net EXCEPT ![e] = @ \ {d}]
      /\ load' = load /\ early' = early /\ dups' = dups /\ kcb' = kcb
      /\ sent' = sent /\ rcvd' = rcvd
  BY DEF Lose
<1>4. DOMAIN kcb = End /\ DOMAIN net = End /\ DOMAIN sent = End /\ DOMAIN rcvd = End
  BY DEF IInv
<1>5. losses' \in 0..load.losses
  <2>1. load.losses \in Nat /\ losses \in 0..load.losses
    BY LoadFacts DEF IInv
  <2> QED BY <2>1 DEF Lose
<1>6. net'[e] \subseteq net[e] /\ net'[p] = net[p] /\ DOMAIN net' = End
  BY <1>1, <1>3, <1>4
<1>7. Side(kcb[e], kcb[p], g[e], g[p], net'[e], sent[p], rcvd[e], W) /\ Keeps(kcb[e], kcb[e])
  BY <1>2, <1>6 DEF Side, Keeps
<1>8. Hop(g, kcb, net, sent, rcvd, W, e, kcb, net', rcvd)
  <2>1. Joint(g, kcb, net, sent, rcvd, W) /\ e \in End
    BY <1>0
  <2>2. kcb[Peer(e)] = kcb[Peer(e)] /\ rcvd[Peer(e)] = rcvd[Peer(e)]
    OBVIOUS
  <2>3. Keeps(kcb[e], kcb[e])
    BY ONLY <1>7
  <2>4. Side(kcb[e], kcb[Peer(e)], g[e], g[Peer(e)], net'[e], sent[Peer(e)], rcvd[e], W)
    BY ONLY <1>7
  <2>5. \A x \in net'[Peer(e)] : x \in net[Peer(e)]
    BY ONLY <1>6
  <2> QED BY ONLY <2>1, <2>2, <2>3, <2>4, <2>5 DEF Hop
<1>9. Joint(g, kcb, net', sent, rcvd, W)
  BY <1>8, JointStep
<1>10. Joint(g, kcb', net', sent', rcvd', load'.rcv_wnd)
  BY <1>3, <1>9
<1>11. dups' \in 0..load.dups /\ early' \in 0..load.early /\ load \in Loads
  BY <1>3 DEF IInv
<1> QED BY <1>3, <1>4, <1>5, <1>6, <1>10, <1>11 DEF IInv

(***************************************************************************)
(* Recv: the message returned is the next of the peer's.                   *)
(***************************************************************************)
LEMMA RecvStep ==
  ASSUME IInv, NEW e \in End, Recv(e)
  PROVE  /\ IInv'
         /\ Len(rcvd[e]) < Len(sent[Peer(e)])
         /\ KcpPeek(kcb[e]) = sent[Peer(e)][Len(rcvd[e]) + 1]
<1>0. PICK g : Joint(g, kcb, net, sent, rcvd, load.rcv_wnd)
  BY DEF IInv
<1> DEFINE p == Peer(e)
           k == kcb[e]
           l == KcpRecv(k)
           r == rcvd[e]
           x == Append(r, KcpPeek(k))
           W == load.rcv_wnd
<1>1. p \in End /\ p # e
  BY Peers
<1>2. Side(k, kcb[p], g[e], g[p], net[e], sent[p], r, W)
  BY <1>0, Sides
<1>l. l = KcpRecv(k) /\ x = Append(r, KcpPeek(k)) /\ KcpReady(k)
  BY DEF Recv
<1>3. /\ kcb' = [kcb EXCEPT ![e] = l] /\ rcvd' = [rcvd EXCEPT ![e] = x]
      /\ load' = load /\ net' = net /\ losses' = losses /\ dups' = dups /\ early' = early
      /\ sent' = sent
  BY DEF Recv
<1>4. DOMAIN kcb = End /\ DOMAIN net = End /\ DOMAIN sent = End /\ DOMAIN rcvd = End
  BY DEF IInv
<1> HIDE DEF l, x, r
<1>5. /\ Side(l, kcb[p], g[e], g[p], net[e], sent[p], x, W) /\ Keeps(k, l)
      /\ Len(r) < Len(sent[p]) /\ KcpPeek(k) = sent[p][Len(r) + 1]
  <2> DEFINE q == kcb[p]  u == g[e]  h == g[p]  n == net[e]  s == sent[p]
  <2>1. Side(k, q, u, h, n, s, r, W)
    BY <1>2
  <2> HIDE DEF k, q, u, h, n, s
  <2>2. /\ Side(l, q, u, h, n, s, x, W) /\ Keeps(k, l)
        /\ Len(r) < Len(s) /\ KcpPeek(k) = s[Len(r) + 1]
    BY ONLY <2>1, <1>l, SideRecv, ZenonT(60)
  <2> QED BY <2>2 DEF k, q, u, h, n, s
<1>6. /\ kcb'[e] = l /\ kcb'[p] = kcb[p] /\ DOMAIN kcb' = End
      /\ rcvd'[e] = x /\ rcvd'[p] = rcvd[p] /\ DOMAIN rcvd' = End
  BY <1>1, <1>3, <1>4
<1>7. Hop(g, kcb, net, sent, rcvd, W, e, kcb', net, rcvd')
  <2>1. Joint(g, kcb, net, sent, rcvd, W) /\ e \in End
    BY <1>0
  <2>2. kcb'[Peer(e)] = kcb[Peer(e)] /\ rcvd'[Peer(e)] = rcvd[Peer(e)]
    BY ONLY <1>6
  <2>3. Keeps(kcb[e], kcb'[e])
    BY ONLY <1>5, <1>6
  <2>4. Side(kcb'[e], kcb[Peer(e)], g[e], g[Peer(e)], net[e], sent[Peer(e)], rcvd'[e], W)
    BY ONLY <1>5, <1>6
  <2>5. \A d \in net[Peer(e)] : d \in net[Peer(e)]
    OBVIOUS
  <2> QED BY ONLY <2>1, <2>2, <2>3, <2>4, <2>5 DEF Hop
<1>8. Joint(g, kcb', net, sent, rcvd', W)
  BY <1>7, JointStep
<1>9. Joint(g, kcb', net', sent', rcvd', load'.rcv_wnd)
  BY <1>3, <1>8
<1>10. /\ losses' \in 0..load.losses /\ dups' \in 0..load.dups /\ early' \in 0..load.early
       /\ load \in Loads
  BY <1>3 DEF IInv
<1>11. IInv'
  BY <1>3, <1>4, <1>6, <1>9, <1>10 DEF IInv
<1> QED BY <1>5, <1>11 DEF r

(***************************************************************************)
(* Send: a message is handed in.                                           *)
(***************************************************************************)
LEMMA SendStep ==
  ASSUME IInv, NEW e \in End, NEW n \in load.frags, Send(e, n)
  PROVE  /\ IInv'
         /\ \E m \in Message : sent' = [sent EXCEPT ![e] = Append(@, m)] /\ rcvd' = rcvd
<1>0. PICK g : Joint(g, kcb, net, sent, rcvd, load.rcv_wnd)
  BY DEF IInv
<1> DEFINE i == Len(sent[e]) + 1
           m == MessageOf(i, n)
           W == load.rcv_wnd
<1>1. load \in Loads /\ n \in Nat \ {0} /\ load.msgs \in [End -> Nat]
  BY LoadFacts DEF IInv
<1>2. Len(sent[e]) \in Nat
  <2>1. Peer(e) \in End /\ Peer(Peer(e)) = e
    BY Peers
  <2>2. Side(kcb[Peer(e)], kcb[e], g[Peer(e)], g[e], net[Peer(e)], sent[e], rcvd[Peer(e)], W)
    BY <1>0, <2>1, Sides
  <2>3. sent[e] \in Seq(Seq(Token))
    BY <2>2 DEF Side, Delivered, Cut
  <2> QED BY <2>3
<1>3. i \in 1..load.msgs[e] /\ i \in Nat
  <2>1. Len(sent[e]) < load.msgs[e] /\ load.msgs[e] \in Nat
    BY <1>1 DEF Send
  <2> QED BY <2>1, <1>2
<1>4. m \in Seq(Token) /\ Len(m) > 0 /\ m \in Message
  BY <1>1, <1>3, MessageOfIs, MessageOfLoad
<1>5. /\ sent' = [sent EXCEPT ![e] = Append(@, m)]
      /\ kcb' = [kcb EXCEPT ![e] = KcpSend(@, m)]
      /\ load' = load /\ net' = net /\ losses' = losses /\ dups' = dups /\ early' = early
      /\ rcvd' = rcvd
  BY DEF Send
<1>6. DOMAIN kcb = End /\ DOMAIN net = End /\ DOMAIN sent = End /\ DOMAIN rcvd = End
  BY DEF IInv
<1> HIDE DEF m
<1>7. \E f : Joint(f, [kcb EXCEPT ![e] = KcpSend(kcb[e], m)], net,
                   [sent EXCEPT ![e] = Append(sent[e], m)], rcvd, W)
  BY <1>0, <1>4, <1>6, JointSend
<1>8. /\ sent' = [sent EXCEPT ![e] = Append(sent[e], m)]
      /\ kcb' = [kcb EXCEPT ![e] = KcpSend(kcb[e], m)]
  BY <1>5
<1>9. \E f : Joint(f, kcb', net', sent', rcvd', load'.rcv_wnd)
  BY <1>5, <1>7, <1>8
<1>10. DOMAIN kcb' = End /\ DOMAIN net' = End /\ DOMAIN sent' = End /\ DOMAIN rcvd' = End
  BY <1>5, <1>6
<1>11. /\ losses' \in 0..load.losses /\ dups' \in 0..load.dups /\ early' \in 0..load.early
       /\ load \in Loads
  BY <1>5 DEF IInv
<1>12. IInv'
  BY <1>5, <1>9, <1>10, <1>11 DEF IInv
<1> QED BY <1>4, <1>5, <1>12

-----------------------------------------------------------------------------
(***************************************************************************)
(* The invariant of an end contains its types: snd_una does not pass       *)
(* snd_nxt, and no datagram is empty or longer than the MTU.               *)
(***************************************************************************)
LEMMA SideTypes ==
  ASSUME NEW k, NEW p, NEW g, NEW h, NEW N, NEW s, NEW r, NEW W, Side(k, p, g, h, N, s, r, W)
  PROVE  /\ k.snd_una <= k.snd_nxt /\ k.rmt_wnd \in 0..W
         /\ k.probe \subseteq {"ASK_SEND", "ASK_TELL"}
         /\ \A d \in N : Len(d) \in 1..MtuSegs
<1>1. k \in KcpRec /\ Loose(k, g, Own(p), W) /\ W \in Nat
  BY DEF Side, Endpoint, Sending
<1>2. k.rmt_wnd \in Nat /\ k.probe \subseteq {"ASK_SEND", "ASK_TELL"}
  BY <1>1 DEF KcpRec
<1>3. k.snd_una <= k.snd_nxt /\ k.rmt_wnd <= W
  BY <1>1 DEF Loose
<1>4. \A d \in N : Len(d) \in 1..MtuSegs
  BY DEF Side
<1> QED BY <1>1, <1>2, <1>3, <1>4

(***************************************************************************)
(* It contains the order of snd_buf.                                       *)
(***************************************************************************)
LEMMA SideSendBuffer ==
  ASSUME NEW k, NEW p, NEW g, NEW h, NEW N, NEW s, NEW r, NEW W, Side(k, p, g, h, N, s, r, W),
         NEW b, b = k.snd_buf
  PROVE  /\ \A i, j \in DOMAIN b : i < j => b[i].sn < b[j].sn
         /\ IF b = <<>> THEN k.snd_una = k.snd_nxt
            ELSE k.snd_una = b[1].sn /\ b[Len(b)].sn < k.snd_nxt
<1>1. k \in KcpRec /\ Outstanding(b, k.snd_nxt, g, Own(p)) /\ k.snd_una = First(b, k.snd_nxt)
  BY DEF Side, Endpoint, Sending, Loose
<1>2. b \in Seq(SendSeg)
  BY <1>1 DEF KcpRec
<1>3. DOMAIN b = 1..Len(b) /\ Len(b) \in Nat
  BY <1>2
<1>4. \A i, j \in DOMAIN b : i < j => b[i].sn < b[j].sn
  BY <1>1, <1>3 DEF Outstanding, Ordered
<1>5. CASE b = <<>>
  BY <1>1, <1>4, <1>5 DEF First
<1>6. CASE b # <<>>
  <2>1. Len(b) \in 1..Len(b)
    BY <1>2, <1>6
  <2>2. b[Len(b)].sn < k.snd_nxt
    BY <2>1, <1>1 DEF Outstanding
  <2> QED BY <2>2, <1>1, <1>4, <1>6 DEF First
<1> QED BY <1>5, <1>6

(***************************************************************************)
(* It contains the order of rcv_buf, and that it lies in the window.       *)
(***************************************************************************)
LEMMA SideReceiveBuffer ==
  ASSUME NEW k, NEW p, NEW g, NEW h, NEW N, NEW s, NEW r, NEW W, Side(k, p, g, h, N, s, r, W),
         NEW b, b = k.rcv_buf
  PROVE  /\ \A i, j \in DOMAIN b : i < j => b[i].sn < b[j].sn
         /\ \A i \in DOMAIN b : InWindow(k, b[i].sn)
         /\ b # <<>> /\ b[1].sn = k.rcv_nxt => Len(k.rcv_queue) = k.rcv_wnd
         /\ Len(k.rcv_queue) <= k.rcv_wnd
<1>1. /\ k \in KcpRec /\ Buffered(b, k.rcv_nxt, k.rcv_wnd, h)
      /\ InOrder(k.rcv_queue, k.rcv_nxt, k.rcv_wnd, h)
      /\ Full(b, k.rcv_nxt, k.rcv_queue, k.rcv_wnd)
  BY DEF Side, Endpoint, Receiving, Unpacked
<1>2. b \in Seq(RecvSeg)
  BY <1>1 DEF KcpRec
<1>3. DOMAIN b = 1..Len(b)
  BY <1>2
<1>4. \A i, j \in DOMAIN b : i < j => b[i].sn < b[j].sn
  BY <1>1, <1>3 DEF Buffered, Ordered
<1>5. \A i \in DOMAIN b : InWindow(k, b[i].sn)
  BY <1>1, <1>3 DEF Buffered, InWindow
<1> QED BY <1>1, <1>4, <1>5 DEF InOrder, Full

(***************************************************************************)
(* What is below snd_nxt and not in snd_buf is what the peer has.          *)
(***************************************************************************)
LEMMA SideAcked ==
  ASSUME NEW k, NEW p, NEW g, NEW h, NEW N, NEW s, NEW r, NEW W, Side(k, p, g, h, N, s, r, W),
         p \in KcpRec, NEW sn \in 0..(k.snd_nxt - 1)
  PROVE  \/ \E j \in DOMAIN k.snd_buf : k.snd_buf[j].sn = sn
         \/ sn < p.rcv_nxt
         \/ \E j \in DOMAIN p.rcv_buf : p.rcv_buf[j].sn = sn
<1>1. k \in KcpRec /\ Outstanding(k.snd_buf, k.snd_nxt, g, Own(p))
  BY DEF Side, Endpoint, Sending, Loose
<1>2. k.snd_buf \in Seq(SendSeg) /\ p.rcv_buf \in Seq(RecvSeg)
  BY <1>1 DEF KcpRec
<1>3. DOMAIN k.snd_buf = 1..Len(k.snd_buf) /\ DOMAIN p.rcv_buf = 1..Len(p.rcv_buf)
  BY <1>2
<1>4. Holds(k.snd_buf, sn) \/ sn \in Own(p)
  BY <1>1 DEF Outstanding
<1> QED BY <1>3, <1>4 DEF Holds, Own, Stored

(***************************************************************************)
(* snd_nxt is at most a window beyond snd_una, and the number before       *)
(* snd_una is one the peer has, so within its window.                      *)
(***************************************************************************)
LEMMA SideSpread ==
  ASSUME NEW k, NEW p, NEW g, NEW h, NEW N, NEW s, NEW r, NEW W, Side(k, p, g, h, N, s, r, W),
         NEW f, p \in KcpRec, p.rcv_wnd = W, Buffered(p.rcv_buf, p.rcv_nxt, W, f)
  PROVE  k.snd_nxt <= p.rcv_nxt + 2 * W
<1>1. /\ k \in KcpRec /\ W \in Nat /\ Outstanding(k.snd_buf, k.snd_nxt, g, Own(p))
      /\ k.snd_una <= k.snd_nxt /\ k.snd_nxt <= k.snd_una + W
      /\ \A j \in 1..Len(k.snd_buf) : k.snd_una <= k.snd_buf[j].sn
  BY DEF Side, Endpoint, Sending, Loose
<1>2. k.snd_una \in Nat /\ k.snd_nxt \in Nat /\ p.rcv_nxt \in Nat
  BY <1>1 DEF KcpRec
<1>3. k.snd_una <= p.rcv_nxt + W
  <2>1. CASE k.snd_una = 0
    BY <2>1, <1>1, <1>2
  <2>2. CASE k.snd_una > 0
    <3> DEFINE sn == k.snd_una - 1
    <3>1. sn \in 0..(k.snd_nxt - 1) /\ sn < k.snd_una
      BY <2>2, <1>1, <1>2
    <3>2. ~Holds(k.snd_buf, sn)
      BY <3>1, <1>1, <1>2 DEF Holds
    <3>3. sn \in Own(p)
      BY <3>1, <3>2, <1>1 DEF Outstanding
    <3>4. sn < p.rcv_nxt + W
      <4>1. CASE sn < p.rcv_nxt
        BY <4>1, <1>1, <1>2
      <4>2. CASE Holds(p.rcv_buf, sn)
        BY <4>2 DEF Holds, Buffered
      <4> QED BY <4>1, <4>2, <3>3 DEF Own, Stored
    <3> QED BY <3>4, <1>1, <1>2
  <2> QED BY <2>1, <2>2, <1>2
<1> QED BY <1>1, <1>2, <1>3

(***************************************************************************)
(* The invariant at both ends, with one list of what was sent.             *)
(***************************************************************************)
LEMMA BothSides ==
  ASSUME IInv
  PROVE  \E g : \A e \in End :
           /\ Peer(e) \in End
           /\ Side(kcb[e], kcb[Peer(e)], g[e], g[Peer(e)], net[e], sent[Peer(e)], rcvd[e],
                   load.rcv_wnd)
<1>0. PICK g : Joint(g, kcb, net, sent, rcvd, load.rcv_wnd)
  BY DEF IInv
<1> QED BY <1>0, Peers DEF Joint

(***************************************************************************)
(* TypeOK follows.                                                         *)
(***************************************************************************)
LEMMA TypeOKHolds == IInv => TypeOK
<1> SUFFICES ASSUME IInv PROVE TypeOK
  OBVIOUS
<1>1. ASSUME NEW e \in End
      PROVE  /\ kcb[e].snd_una <= kcb[e].snd_nxt
             /\ kcb[e].rmt_wnd \in 0..load.rcv_wnd
             /\ kcb[e].probe \subseteq {"ASK_SEND", "ASK_TELL"}
             /\ \A d \in net[e] : Len(d) \in 1..MtuSegs
  BY BothSides, SideTypes
<1> QED BY <1>1 DEF TypeOK, IInv

(***************************************************************************)
(* SendBufferOrdered follows.                                              *)
(***************************************************************************)
LEMMA SendBufferHolds == IInv => SendBufferOrdered
<1> SUFFICES ASSUME IInv, NEW e \in End
             PROVE  LET k == kcb[e] b == k.snd_buf IN
                      /\ \A i, j \in DOMAIN b : i < j => b[i].sn < b[j].sn
                      /\ IF b = <<>> THEN k.snd_una = k.snd_nxt
                         ELSE k.snd_una = b[1].sn /\ b[Len(b)].sn < k.snd_nxt
  BY DEF SendBufferOrdered
<1> QED BY BothSides, SideSendBuffer

(***************************************************************************)
(* ReceiveBufferOrdered follows.                                           *)
(***************************************************************************)
LEMMA ReceiveBufferHolds == IInv => ReceiveBufferOrdered
<1> SUFFICES ASSUME IInv, NEW e \in End
             PROVE  LET k == kcb[e] b == k.rcv_buf IN
                      /\ \A i, j \in DOMAIN b : i < j => b[i].sn < b[j].sn
                      /\ \A i \in DOMAIN b : InWindow(k, b[i].sn)
                      /\ b # <<>> /\ b[1].sn = k.rcv_nxt => Len(k.rcv_queue) = k.rcv_wnd
                      /\ Len(k.rcv_queue) <= k.rcv_wnd
  BY DEF ReceiveBufferOrdered
<1> QED BY BothSides, SideReceiveBuffer

(***************************************************************************)
(* AckedIsStored follows.                                                  *)
(***************************************************************************)
LEMMA AckedHolds == IInv => AckedIsStored
<1> SUFFICES ASSUME IInv, NEW e \in End, NEW sn \in 0..(kcb[e].snd_nxt - 1)
             PROVE  \/ \E j \in DOMAIN kcb[e].snd_buf : kcb[e].snd_buf[j].sn = sn
                    \/ sn < kcb[Peer(e)].rcv_nxt
                    \/ \E j \in DOMAIN kcb[Peer(e)].rcv_buf : kcb[Peer(e)].rcv_buf[j].sn = sn
  BY DEF AckedIsStored
<1>1. kcb[Peer(e)] \in KcpRec
  BY BothSides DEF Side, Endpoint
<1> QED BY BothSides, <1>1, SideAcked

(***************************************************************************)
(* SpreadBounded follows.                                                  *)
(***************************************************************************)
LEMMA SpreadHolds == IInv => SpreadBounded
<1> SUFFICES ASSUME IInv, NEW e \in End
             PROVE  kcb[e].snd_nxt <= kcb[Peer(e)].rcv_nxt + 2 * load.rcv_wnd
  BY DEF SpreadBounded
<1>0. PICK g : \A x \in End :
           /\ Peer(x) \in End
           /\ Side(kcb[x], kcb[Peer(x)], g[x], g[Peer(x)], net[x], sent[Peer(x)], rcvd[x],
                   load.rcv_wnd)
  BY BothSides
<1> DEFINE p == kcb[Peer(e)]
           W == load.rcv_wnd
<1>1. p \in KcpRec /\ p.rcv_wnd = W /\ Receiving(p, g[Peer(Peer(e))])
  BY <1>0 DEF Side, Endpoint
<1>2. Buffered(p.rcv_buf, p.rcv_nxt, W, g[Peer(Peer(e))])
  BY <1>1 DEF Receiving, Unpacked
<1>3. Side(kcb[e], p, g[e], g[Peer(e)], net[e], sent[Peer(e)], rcvd[e], W)
  BY <1>0
<1> HIDE DEF p, W
<1>4. kcb[e].snd_nxt <= p.rcv_nxt + 2 * W
  <2> DEFINE k == kcb[e]  u == g[e]  h == g[Peer(e)]  n == net[e]  s == sent[Peer(e)]
             r == rcvd[e]  f == g[Peer(Peer(e))]
  <2>1. Side(k, p, u, h, n, s, r, W) /\ Buffered(p.rcv_buf, p.rcv_nxt, W, f)
    BY <1>2, <1>3
  <2> HIDE DEF k, u, h, n, s, r, f
  <2>2. p \in KcpRec /\ p.rcv_wnd = W
    BY <1>1
  <2>3. k.snd_nxt <= p.rcv_nxt + 2 * W
    BY ONLY <2>1, <2>2, SideSpread
  <2> QED BY <2>3 DEF k
<1> QED BY <1>4 DEF p, W

(***************************************************************************)
(* A step that changes nothing.                                            *)
(***************************************************************************)
LEMMA StutterStep ==
  ASSUME IInv, UNCHANGED vars
  PROVE  IInv'
<1>1. /\ load' = load /\ kcb' = kcb /\ net' = net /\ losses' = losses /\ dups' = dups
      /\ early' = early /\ sent' = sent /\ rcvd' = rcvd
  BY DEF vars
<1> QED BY <1>1 DEF IInv

(***************************************************************************)
(* The invariant is inductive: one lemma above for each action.            *)
(***************************************************************************)
LEMMA NextStep == IInv /\ [Next]_vars => IInv'
<1> SUFFICES ASSUME IInv, [Next]_vars PROVE IInv'
  OBVIOUS
<1>1. CASE UNCHANGED vars
  BY <1>1, StutterStep
<1>2. CASE Next
  <2>0. PICK e \in End :
          \/ \E n \in load.frags : Send(e, n)
          \/ Update(e)
          \/ UpdateLate(e)
          \/ UpdateEarly(e)
          \/ \E d \in net[e], keep \in BOOLEAN : Input(e, d, keep)
          \/ \E d \in net[e] : Lose(e, d)
          \/ Recv(e)
    BY <1>2 DEF Next
  <2>1. ASSUME NEW n \in load.frags, Send(e, n) PROVE IInv'
    BY <2>1, SendStep
  <2>2. CASE Update(e) \/ UpdateLate(e) \/ UpdateEarly(e)
    BY <2>2, UpdateStep
  <2>3. ASSUME NEW d \in net[e], NEW keep \in BOOLEAN, Input(e, d, keep) PROVE IInv'
    BY <2>3, InputStep
  <2>4. ASSUME NEW d \in net[e], Lose(e, d) PROVE IInv'
    BY <2>4, LoseStep
  <2>5. CASE Recv(e)
    BY <2>5, RecvStep
  <2> QED BY <2>0, <2>1, <2>2, <2>3, <2>4, <2>5
<1> QED BY <1>1, <1>2

(***************************************************************************)
(* Every step is one of the reliable stream, or none: only ikcp_send and   *)
(* ikcp_recv touch what is sent and received.                              *)
(***************************************************************************)
LEMMA StreamStep == IInv /\ [Next]_vars => [Stream!Next]_(Stream!vars)
<1> SUFFICES ASSUME IInv, [Next]_vars PROVE [Stream!Next]_(Stream!vars)
  OBVIOUS
<1>1. CASE sent' = sent /\ rcvd' = rcvd
  BY <1>1 DEF Stream!vars
<1>2. CASE UNCHANGED vars
  BY <1>1, <1>2 DEF vars
<1>3. CASE Next
  <2>0. PICK e \in End :
          \/ \E n \in load.frags : Send(e, n)
          \/ Update(e)
          \/ UpdateLate(e)
          \/ UpdateEarly(e)
          \/ \E d \in net[e], keep \in BOOLEAN : Input(e, d, keep)
          \/ \E d \in net[e] : Lose(e, d)
          \/ Recv(e)
    BY <1>3 DEF Next
  <2>1. ASSUME NEW n \in load.frags, Send(e, n) PROVE Stream!Next
    <3>1. \E m \in Message : sent' = [sent EXCEPT ![e] = Append(@, m)] /\ rcvd' = rcvd
      BY <2>1, SendStep
    <3> QED BY <3>1 DEF Stream!Next, Stream!Send
  <2>2. CASE Update(e) \/ UpdateLate(e) \/ UpdateEarly(e)
    BY <1>1, <2>2 DEF Update, UpdateLate, UpdateEarly, Flush
  <2>3. ASSUME NEW d \in net[e], NEW keep \in BOOLEAN, Input(e, d, keep)
        PROVE  sent' = sent /\ rcvd' = rcvd
    BY <2>3 DEF Input
  <2>4. ASSUME NEW d \in net[e], Lose(e, d) PROVE sent' = sent /\ rcvd' = rcvd
    BY <2>4 DEF Lose
  <2>5. CASE Recv(e)
    <3>1. /\ Len(rcvd[e]) < Len(sent[Peer(e)])
          /\ KcpPeek(kcb[e]) = sent[Peer(e)][Len(rcvd[e]) + 1]
      BY <2>5, RecvStep
    <3>2. /\ rcvd' = [rcvd EXCEPT ![e] = Append(@, KcpPeek(kcb[e]))]
          /\ sent' = sent
      BY <2>5 DEF Recv
    <3>3. Stream!Peer(e) = Peer(e)
      BY DEF Stream!Peer, Peer
    <3> HIDE DEF Peer
    <3>4. Stream!Deliver(e)
      <4>1. rcvd' = [rcvd EXCEPT ![e] = Append(rcvd[e], sent[Peer(e)][Len(rcvd[e]) + 1])]
        BY <3>1, <3>2
      <4> QED BY <3>1, <3>2, <3>3, <4>1 DEF Stream!Deliver
    <3> QED BY <3>4 DEF Stream!Next
  <2> QED BY <2>0, <2>1, <2>2, <2>3, <2>4, <2>5, <1>1
<1> QED BY <1>2, <1>3

(***************************************************************************)
(* Every reachable state satisfies the invariant.                          *)
(***************************************************************************)
THEOREM Inductive == SafetySpec => []IInv
<1>1. Init => IInv
  BY InitJoint
<1>2. IInv /\ [Next]_vars => IInv'
  BY NextStep
<1> QED BY <1>1, <1>2, PTL DEF SafetySpec

(***************************************************************************)
(* The types: snd_una <= snd_nxt, the peer's window never exceeds the one  *)
(* it has, no datagram is longer than the MTU (ikcp_flush, ikcp_input).    *)
(***************************************************************************)
THEOREM TypeCorrect == SafetySpec => []TypeOK
BY TypeOKHolds, Inductive, PTL

(***************************************************************************)
(* snd_buf is in order without repetition and starts at snd_una            *)
(* (ikcp_parse_ack, ikcp_parse_una, ikcp_shrink_buf, ikcp_flush).          *)
(***************************************************************************)
THEOREM SendBuffer == SafetySpec => []SendBufferOrdered
BY SendBufferHolds, Inductive, PTL

(***************************************************************************)
(* rcv_buf is in order without repetition, in the window, and holds        *)
(* nothing that rcv_queue has room for (ikcp_parse_data, ikcp_recv).       *)
(***************************************************************************)
THEOREM ReceiveBuffer == SafetySpec => []ReceiveBufferOrdered
BY ReceiveBufferHolds, Inductive, PTL

(***************************************************************************)
(* An acknowledgement is a promise, whatever was lost, repeated or         *)
(* overtaken: a segment that has left snd_buf is held by the receiver      *)
(* (ikcp_parse_una, ikcp_parse_ack, ikcp_ack_push).                        *)
(***************************************************************************)
THEOREM AckIsPromise == SafetySpec => []AckedIsStored
BY AckedHolds, Inductive, PTL

(***************************************************************************)
(* The numbers two ends compare are never more than two windows apart, far *)
(* less than the 2^31 _itimediff can tell apart (ikcp_flush).              *)
(***************************************************************************)
THEOREM Spread == SafetySpec => []SpreadBounded
BY SpreadHolds, Inductive, PTL

(***************************************************************************)
(* KCP implements the reliable stream, for any windows, messages and       *)
(* fragments and over a network that loses, repeats and reorders: the      *)
(* messages handed to ikcp_send come out of ikcp_recv whole, in order and  *)
(* exactly once.                                                           *)
(***************************************************************************)
THEOREM ImplementsStream == SafetySpec => StreamSafety
<1>1. Init => Stream!Init
  BY DEF Init, Stream!Init
<1>2. IInv /\ [Next]_vars => [Stream!Next]_(Stream!vars)
  BY StreamStep
<1> QED BY <1>1, <1>2, Inductive, PTL DEF SafetySpec, StreamSafety, Stream!Spec
=============================================================================
