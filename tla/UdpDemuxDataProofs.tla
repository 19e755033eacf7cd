------------------------ MODULE UdpDemuxDataProofs -------------------------
(***************************************************************************)
(* Whose KCP data the server accepts, for any number of clients and sockets*)
(* and whatever convs the keys have: DataFromOwner of UdpDemux.            *)
(***************************************************************************)
EXTENDS UdpDemuxProofs

(***************************************************************************)
(* The queue q of a socket: whether it holds a SHAKE_HAND2 of c, whether   *)
(* everything behind one is of c too, whether everything is.               *)
(***************************************************************************)
Hand2Of(d, c) == d.type = "HAND2" /\ d.from = c

Confirms(q, c) == \E i \in DOMAIN q : Hand2Of(q[i], c)

Ordered(q, c) == \A i, j \in DOMAIN q : i < j /\ Hand2Of(q[i], c) => q[j].from = c

Pure(q, c) == \A i \in DOMAIN q : q[i].from = c

(***************************************************************************)
(* A client with exactly one socket bound for it and no other socket       *)
(* connected to its address.                                               *)
(***************************************************************************)
Alone(c) == srv[c].sock # 0 /\ ~Repeated(c) /\ ~Misled(c)

(***************************************************************************)
(* Its SHAKE_HAND2 is queued on that socket only, behind whatever else was *)
(* queued between bind and connect; once its KCP timer runs, that was read.*)
(***************************************************************************)
Apart ==
  \A c \in Client : Alone(c) =>
    /\ \A t \in SockId : t # srv[c].sock => ~Confirms(socks[t].queue, c)
    /\ Ordered(socks[srv[c].sock].queue, c)
    /\ srv[c].evt => Pure(socks[srv[c].sock].queue, c)

DInv == IInv /\ Apart /\ DataFromOwner

-----------------------------------------------------------------------------
(***************************************************************************)
(* What is read or thrown away leaves a queue in order.                    *)
(***************************************************************************)
Shrunk(q, r) == r = q \/ (q # <<>> /\ r = Tail(q)) \/ r = <<>>

LEMMA ShrunkQueue ==
  ASSUME NEW q \in Seq(Datagram), NEW r, Shrunk(q, r), NEW c
  PROVE  /\ Confirms(r, c) => Confirms(q, c)
         /\ Ordered(q, c) => Ordered(r, c)
         /\ Pure(q, c) => Pure(r, c)
<1>1. CASE r = q
  BY <1>1
<1>2. CASE r = <<>>
  BY <1>2 DEF Confirms, Ordered, Pure
<1>3. CASE q # <<>> /\ r = Tail(q)
  <2>1. \A i \in DOMAIN r : i \in Nat /\ i + 1 \in DOMAIN q /\ r[i] = q[i + 1]
    <3>1. Len(q) \in Nat /\ DOMAIN q = 1..Len(q) /\ Len(q) >= 1
      BY <1>3
    <3>2. Len(r) = Len(q) - 1 /\ DOMAIN r = 1..(Len(q) - 1)
      BY <1>3, <3>1
    <3> SUFFICES ASSUME NEW i \in DOMAIN r
                 PROVE  i \in Nat /\ i + 1 \in DOMAIN q /\ r[i] = q[i + 1]
      OBVIOUS
    <3>3. i \in Nat /\ i \in 1..(Len(q) - 1) /\ i + 1 \in DOMAIN q
      BY <3>1, <3>2
    <3> QED BY <1>3, <3>2, <3>3
  <2>2. Confirms(r, c) => Confirms(q, c)
    BY ONLY <2>1 DEF Confirms
  <2>3. Ordered(q, c) => Ordered(r, c)
    <3> SUFFICES ASSUME Ordered(q, c), NEW i \in DOMAIN r, NEW j \in DOMAIN r,
                        i < j, Hand2Of(r[i], c)
                 PROVE  r[j].from = c
      BY DEF Ordered
    <3>1. /\ i \in Nat /\ j \in Nat /\ i + 1 \in DOMAIN q /\ j + 1 \in DOMAIN q
          /\ r[i] = q[i + 1] /\ r[j] = q[j + 1]
      BY <2>1
    <3>2. i + 1 < j + 1
      BY <3>1
    <3> QED BY <3>1, <3>2 DEF Ordered
  <2>4. Pure(q, c) => Pure(r, c)
    BY ONLY <2>1 DEF Pure
  <2> QED BY <2>2, <2>3, <2>4
<1> QED BY <1>1, <1>2, <1>3 DEF Shrunk

(***************************************************************************)
(* Behind a SHAKE_HAND2 of c at the head of an ordered queue everything is *)
(* of c.                                                                   *)
(***************************************************************************)
LEMMA BehindHand2 ==
  ASSUME NEW q \in Seq(Datagram), q # <<>>, NEW c, Hand2Of(Head(q), c), Ordered(q, c)
  PROVE  Pure(Tail(q), c) /\ Confirms(q, c)
<1>1. Len(q) \in Nat /\ DOMAIN q = 1..Len(q) /\ Len(q) >= 1
  OBVIOUS
<1>2. 1 \in DOMAIN q /\ Hand2Of(q[1], c)
  BY <1>1
<1>3. Len(Tail(q)) = Len(q) - 1 /\ DOMAIN Tail(q) = 1..(Len(q) - 1)
  BY <1>1
<1>4. ASSUME NEW i \in DOMAIN Tail(q) PROVE Tail(q)[i].from = c
  <2>1. i \in Nat /\ i \in 1..(Len(q) - 1) /\ i + 1 \in DOMAIN q /\ 1 < i + 1
    BY <1>1, <1>3
  <2>2. Tail(q)[i] = q[i + 1]
    BY <1>3, <2>1
  <2> QED BY <1>2, <2>1, <2>2 DEF Ordered
<1> QED BY <1>2, <1>4 DEF Pure, Confirms

(***************************************************************************)
(* A datagram that arrives goes behind the others.                         *)
(***************************************************************************)
LEMMA ArrivedQueue ==
  ASSUME NEW q \in Seq(Datagram), NEW d \in Datagram, NEW c
  PROVE  /\ Confirms(Append(q, d), c) => Confirms(q, c) \/ Hand2Of(d, c)
         /\ Ordered(q, c) /\ (Confirms(q, c) => d.from = c) => Ordered(Append(q, d), c)
         /\ Pure(q, c) /\ d.from = c => Pure(Append(q, d), c)
<1> DEFINE r == Append(q, d)
<1>1. Len(q) \in Nat /\ DOMAIN q = 1..Len(q) /\ DOMAIN r = 1..(Len(q) + 1)
  OBVIOUS
<1>2. ASSUME NEW i \in DOMAIN r
      PROVE  /\ i \in Nat
             /\ \/ i = Len(q) + 1 /\ r[i] = d
                \/ i \in DOMAIN q /\ r[i] = q[i]
  <2>1. CASE i = Len(q) + 1
    BY <1>1, <2>1
  <2>2. CASE i # Len(q) + 1
    <3>1. i \in Nat /\ i \in DOMAIN q
      BY <1>1, <2>2
    <3> QED BY <1>1, <3>1
  <2> QED BY <2>1, <2>2
<1> HIDE DEF r
<1>3. Confirms(r, c) => Confirms(q, c) \/ Hand2Of(d, c)
  BY ONLY <1>2 DEF Confirms
<1>4. ASSUME Ordered(q, c), Confirms(q, c) => d.from = c PROVE Ordered(r, c)
  <2> SUFFICES ASSUME NEW i \in DOMAIN r, NEW j \in DOMAIN r, i < j, Hand2Of(r[i], c)
               PROVE  r[j].from = c
    BY DEF Ordered
  <2>1. i \in DOMAIN q /\ r[i] = q[i]
    <3>1. i # Len(q) + 1
      BY <1>1
    <3> QED BY <1>2, <3>1
  <2>2. CASE r[j] = d
    BY <1>4, <2>1, <2>2 DEF Confirms
  <2>3. CASE j \in DOMAIN q /\ r[j] = q[j]
    BY <1>4, <2>1, <2>3 DEF Ordered
  <2> QED BY <1>2, <2>2, <2>3
<1>5. Pure(q, c) /\ d.from = c => Pure(r, c)
  BY ONLY <1>2 DEF Pure
<1> QED BY <1>3, <1>4, <1>5 DEF r

-----------------------------------------------------------------------------
(***************************************************************************)
(* Both exceptions of DataFromOwner last.                                  *)
(***************************************************************************)
LEMMA KeepsMisled ==
  ASSUME Backdrop, SocksKept
  PROVE  \A c \in Client : Misled(c) => Misled(c)'
<1> SUFFICES ASSUME NEW c \in Client, NEW s \in SockId, socks[s].peer = c, socks[s].owner # c
             PROVE  socks'[s].peer = c /\ socks'[s].owner # c
  BY DEF Misled
<1>1. c # None /\ socks[s].owner # None
  BY NoneAssumption DEF Backdrop
<1> QED BY <1>1 DEF SocksKept

(***************************************************************************)
(* The socket of a client that is alone is its only one; if one is         *)
(* connected to the client, it is that one.                                *)
(***************************************************************************)
LEMMA OnlySocket ==
  ASSUME IInv, NEW c \in Client, Alone(c)
  PROVE  /\ srv[c].sock \in SockId
         /\ socks[srv[c].sock].open /\ socks[srv[c].sock].owner = c
         /\ \A t \in SockId : socks[t].owner = c \/ socks[t].peer = c => t = srv[c].sock
         /\ Linked(c, c) => socks[srv[c].sock].peer = c
<1>1. Types /\ Holding
  BY DEF IInv
<1>2. PICK u : u = srv[c].sock
  OBVIOUS
<1>3. u \in SockId /\ socks[u].open /\ socks[u].owner = c
  BY <1>1, <1>2 DEF Alone, Types, SrvRec, Holding
<1>4. ASSUME NEW t \in SockId, socks[t].owner = c \/ socks[t].peer = c PROVE t = u
  <2>1. socks[t].owner = c
    BY <1>4 DEF Alone, Misled
  <2> QED BY <1>3, <2>1, TwoSockets DEF Alone
<1>5. Linked(c, c) => socks[u].peer = c
  BY <1>4 DEF Linked
<1> QED BY <1>2, <1>3, <1>4, <1>5

(***************************************************************************)
(* A SHAKE_HAND2 of a client is queued only when a socket of that client is*)
(* connected to it.                                                        *)
(***************************************************************************)
LEMMA ConfirmsLinked ==
  ASSUME IInv, NEW c \in Client, NEW t \in SockId, Confirms(socks[t].queue, c)
  PROVE  Linked(c, c)
<1>1. PICK i \in DOMAIN socks[t].queue : Hand2Of(socks[t].queue[i], c)
  BY DEF Confirms
<1>2. PICK d : d = socks[t].queue[i]
  OBVIOUS
<1>3. d \in Datagram
  <2>1. socks[t].queue \in Seq(Datagram)
    BY DEF IInv, Types, Sock
  <2> QED BY <1>1, <1>2, <2>1
<1>4. FromClient(d)
  BY <1>1, <1>2, <1>3 DEF IInv, Traffic, Queued
<1> QED BY <1>1, <1>2, <1>4 DEF FromClient, Hand2Of

-----------------------------------------------------------------------------
(***************************************************************************)
(* What was accepted stays as it was judged.                               *)
(***************************************************************************)
LEMMA AcceptedStep ==
  ASSUME IInv, IInv', SocksKept, DataFromOwner,
         \A p \in got' : p \in got \/ p[1] = p[2] \/ Repeated(p[1]) \/ Misled(p[1])
  PROVE  DataFromOwner'
<1>1. \A c \in Client : (Repeated(c) => Repeated(c)') /\ (Misled(c) => Misled(c)')
  BY KeepsRepeated, KeepsMisled DEF IInv
<1>2. ASSUME NEW p \in got', p[1] # p[2]
      PROVE  Conv[p[1]] = Conv[p[2]] /\ (Repeated(p[1])' \/ Misled(p[1])')
  <2>1. PICK c \in Client : c = p[1]
    BY DEF IInv, Types
  <2>2. Conv[p[1]] = Conv[p[2]]
    BY DEF IInv, SameConv
  <2>3. Repeated(c) \/ Misled(c)
    BY <1>2, <2>1 DEF DataFromOwner
  <2>4. Repeated(c)' \/ Misled(c)'
    BY <1>1, <2>3
  <2> QED BY <2>1, <2>2, <2>4
<1> QED BY <1>2 DEF DataFromOwner

(***************************************************************************)
(* A step that queues nothing: a structure keeps its socket or loses it; a *)
(* new one is the first, or makes its client a repeated one; a KCP timer   *)
(* is started only when nothing but the client's own is left on its socket.*)
(***************************************************************************)
LEMMA ApartStep ==
  ASSUME IInv, IInv', Apart, SocksKept,
         \A t \in SockId : Shrunk(socks[t].queue, socks'[t].queue),
         \A c \in Client : \/ srv'[c].sock = srv[c].sock \/ srv'[c].sock = 0
                           \/ ~Linked(c, c) \/ Repeated(c)',
         \A c \in Client : srv'[c].evt =>
           srv[c].evt \/ (Alone(c)' => Pure(socks'[srv'[c].sock].queue, c))
  PROVE  Apart'
<1> SUFFICES ASSUME NEW c \in Client, Alone(c)'
             PROVE  /\ \A t \in SockId : t # srv'[c].sock => ~Confirms(socks'[t].queue, c)
                    /\ Ordered(socks'[srv'[c].sock].queue, c)
                    /\ srv'[c].evt => Pure(socks'[srv'[c].sock].queue, c)
  BY DEF Apart
<1>1. ~Repeated(c) /\ ~Misled(c) /\ srv'[c].sock # 0 /\ ~Repeated(c)'
  BY KeepsRepeated, KeepsMisled DEF IInv, Alone
<1>2. srv'[c].sock \in SockId
  BY <1>1 DEF IInv, Types, SrvRec
<1>3. \A t \in SockId :
        /\ Confirms(socks'[t].queue, c) => Confirms(socks[t].queue, c)
        /\ Ordered(socks[t].queue, c) => Ordered(socks'[t].queue, c)
        /\ Pure(socks[t].queue, c) => Pure(socks'[t].queue, c)
  <2>1. \A t \in SockId : socks[t].queue \in Seq(Datagram)
    BY DEF IInv, Types, Sock
  <2> QED BY <2>1, ShrunkQueue
<1>4. CASE srv'[c].sock = srv[c].sock
  <2>1. Alone(c)
    BY <1>1, <1>4 DEF Alone
  <2>2. /\ \A t \in SockId : t # srv[c].sock => ~Confirms(socks[t].queue, c)
        /\ Ordered(socks[srv[c].sock].queue, c)
        /\ srv[c].evt => Pure(socks[srv[c].sock].queue, c)
    BY <2>1 DEF Apart
  <2> QED BY <1>2, <1>3, <1>4, <2>2
<1>5. CASE ~Linked(c, c)
  <2>1. \A t \in SockId : ~Confirms(socks'[t].queue, c)
    BY <1>3, <1>5, ConfirmsLinked
  <2>2. Ordered(socks'[srv'[c].sock].queue, c)
    BY <1>2, <2>1 DEF Ordered, Confirms
  <2>3. ~srv[c].evt
    BY <1>5 DEF IInv, Traffic
  <2> QED BY <2>1, <2>2, <2>3
<1> QED BY <1>1, <1>4, <1>5

(***************************************************************************)
(* Arrive: the kernel gives a client's datagrams to the sockets connected  *)
(* to it, and to a connected socket only those of its client.              *)
(***************************************************************************)
LEMMA ArriveApart ==
  ASSUME DInv, IInv', Arrive
  PROVE  DInv'
<1>0. IInv /\ Apart /\ DataFromOwner /\ Types /\ Types' /\ Traffic
  BY DEF DInv, IInv
<1>1. UNCHANGED <<srv, got>>
  BY DEF Arrive
<1>2. PICK d \in net, s \in SockId :
        /\ d.to = None /\ s \in Candidates(d.from)
        /\ socks' = [socks EXCEPT ![s].queue = Append(@, d)]
  BY DEF Arrive, Candidates
<1>3. /\ s \in SockId
      /\ socks[s].peer = d.from \/ socks[s].peer = None
      /\ \A u \in SockId : socks[u].open /\ socks[u].peer = d.from => socks[s].peer = d.from
  BY <1>2 DEF Candidates
<1>4. d \in Datagram /\ FromClient(d)
  BY <1>0, <1>2 DEF Types, Traffic
<1>5. \A t \in SockId : /\ socks'[t].owner = socks[t].owner
                        /\ socks'[t].peer = socks[t].peer
                        /\ t # s => socks'[t].queue = socks[t].queue
                        /\ t = s => socks'[t].queue = Append(socks[t].queue, d)
  BY <1>0, <1>2, <1>3 DEF Types, Sock
<1>6. SocksKept
  BY <1>5 DEF SocksKept
<1>7. ASSUME NEW c \in Client, Alone(c)'
      PROVE  /\ \A t \in SockId : t # srv'[c].sock => ~Confirms(socks'[t].queue, c)
             /\ Ordered(socks'[srv'[c].sock].queue, c)
             /\ srv'[c].evt => Pure(socks'[srv'[c].sock].queue, c)
  <2>1. Alone(c)
    BY <1>0, <1>1, <1>6, <1>7, KeepsRepeated, KeepsMisled DEF IInv, Alone
  <2>2. PICK u : u = srv[c].sock
    OBVIOUS
  <2>3. /\ u \in SockId /\ socks[u].open
        /\ \A t \in SockId : socks[t].peer = c => t = u
        /\ Linked(c, c) => socks[u].peer = c
    BY <1>0, <2>1, <2>2, OnlySocket
  <2>4. /\ \A t \in SockId : t # u => ~Confirms(socks[t].queue, c)
        /\ Ordered(socks[u].queue, c)
        /\ srv[c].evt => Pure(socks[u].queue, c)
    BY <1>0, <2>1, <2>2 DEF Apart
  <2>5. socks[s].queue \in Seq(Datagram)
    BY <1>0, <1>3 DEF Types, Sock
  <2>6. Hand2Of(d, c) => s = u
    <3>1. Hand2Of(d, c) => d.from = c /\ Linked(c, c)
      BY <1>4 DEF Hand2Of, FromClient
    <3> QED BY <1>3, <2>3, <3>1
  <2>7. Linked(c, c) /\ s = u => d.from = c
    BY <1>3, <2>3, NoneAssumption
  <2>8. ASSUME NEW t \in SockId, t # u PROVE ~Confirms(socks'[t].queue, c)
    <3>1. CASE t # s
      BY <1>5, <2>4, <2>8, <3>1
    <3>2. CASE t = s
      BY <1>4, <1>5, <2>4, <2>5, <2>6, <2>8, <3>2, ArrivedQueue
    <3> QED BY <3>1, <3>2
  <2>9. Confirms(socks[u].queue, c) => Linked(c, c)
    BY <1>0, <2>3, ConfirmsLinked
  <2>10. Ordered(socks'[u].queue, c)
    <3>1. CASE u # s
      BY <1>5, <2>3, <2>4, <3>1
    <3>2. CASE u = s
      BY <1>4, <1>5, <2>3, <2>4, <2>5, <2>7, <2>9, <3>2, ArrivedQueue
    <3> QED BY <3>1, <3>2
  <2>11. ASSUME srv[c].evt PROVE Pure(socks'[u].queue, c)
    <3>1. Linked(c, c)
      BY <1>0, <2>11 DEF Traffic
    <3>2. CASE u # s
      BY <1>5, <2>3, <2>4, <2>11, <3>2
    <3>3. CASE u = s
      BY <1>4, <1>5, <2>3, <2>4, <2>5, <2>7, <2>11, <3>1, <3>3, ArrivedQueue
    <3> QED BY <3>2, <3>3
  <2> QED BY <1>1, <2>2, <2>8, <2>10, <2>11
<1>8. Apart'
  BY <1>7 DEF Apart
<1>9. DataFromOwner'
  BY <1>0, <1>1, <1>6, AcceptedStep
<1> QED BY <1>8, <1>9 DEF DInv

-----------------------------------------------------------------------------
(***************************************************************************)
(* What every step of the server but the reading of KCP data keeps to: the *)
(* hypotheses of ApartStep.                                                *)
(***************************************************************************)
Tidy ==
  /\ SocksKept
  /\ \A t \in SockId : Shrunk(socks[t].queue, socks'[t].queue)
  /\ \A c \in Client : \/ srv'[c].sock = srv[c].sock \/ srv'[c].sock = 0
                       \/ ~Linked(c, c) \/ Repeated(c)'
  /\ \A c \in Client : srv'[c].evt =>
       srv[c].evt \/ (Alone(c)' => Pure(socks'[srv'[c].sock].queue, c))

(***************************************************************************)
(* Such a step preserves the invariant if it accepts no data.              *)
(***************************************************************************)
LEMMA TidyStep ==
  ASSUME DInv, IInv', Tidy, got' = got
  PROVE  DInv'
<1>1. Apart'
  BY ApartStep DEF DInv, Tidy
<1>2. DataFromOwner'
  BY AcceptedStep DEF DInv, Tidy
<1> QED BY <1>1, <1>2 DEF DInv

(***************************************************************************)
(* TcpAccept does nothing to sockets.                                      *)
(***************************************************************************)
LEMMA TcpAcceptTidy ==
  ASSUME IInv, NEW c \in Client, TcpAccept(c)
  PROVE  Tidy /\ got' = got
<1>1. socks' = socks /\ got' = got
  BY DEF TcpAccept
<1>2. \A e \in Client : srv'[e].sock = srv[e].sock /\ srv'[e].evt = srv[e].evt
  BY DEF TcpAccept, IInv, Types, SrvRec
<1>3. SocksKept /\ \A t \in SockId : Shrunk(socks[t].queue, socks'[t].queue)
  BY <1>1 DEF SocksKept, Shrunk
<1> QED BY <1>1, <1>2, <1>3 DEF Tidy

(***************************************************************************)
(* KcpevUdp_destroy, sk being socks possibly without a datagram.           *)
(***************************************************************************)
LEMMA ReleaseTidy ==
  ASSUME IInv, NEW c \in Client, NEW s, NEW w, NEW r, r.sock = 0, ~r.evt,
         NEW sk, sk \in [SockId -> Sock], SameBut(socks, sk),
         \A t \in SockId : Shrunk(socks[t].queue, sk[t].queue),
         socks' = Closed(sk, s, w), srv' = [srv EXCEPT ![c] = r]
  PROVE  Tidy
<1>1. /\ Released(sk, socks', s, w)
      /\ \A t \in SockId : socks'[t].queue = IF t = s THEN <<>> ELSE sk[t].queue
  BY ClosedView
<1>2. SocksKept
  BY <1>1 DEF Released, SameBut, SocksKept
<1>3. \A t \in SockId : Shrunk(socks[t].queue, socks'[t].queue)
  <2> SUFFICES ASSUME NEW t \in SockId PROVE Shrunk(socks[t].queue, socks'[t].queue)
    OBVIOUS
  <2>1. CASE t = s
    BY <1>1, <2>1 DEF Shrunk
  <2>2. CASE t # s
    BY <1>1, <2>2
  <2> QED BY <2>1, <2>2
<1>4. \A e \in Client : IF e = c THEN srv'[e].sock = 0 /\ ~srv'[e].evt ELSE srv'[e] = srv[e]
  BY DEF IInv, Types
<1> QED BY <1>2, <1>3, <1>4 DEF Tidy

(***************************************************************************)
(* CloseClient closes a socket and what is queued on it.                   *)
(***************************************************************************)
LEMMA CloseClientTidy ==
  ASSUME IInv, NEW c \in Client, CloseClient(c)
  PROVE  Tidy /\ got' = got
<1>1. PICK r : r = [NoUdp(srv[c]) EXCEPT !.mem = "freed"]
  OBVIOUS
<1>2. PICK s, w : s = srv[c].sock /\ w = srv[c].evio
  OBVIOUS
<1>3. srv[c] \in SrvRec /\ socks \in [SockId -> Sock]
  BY DEF IInv, Types
<1>4. r.sock = 0 /\ ~r.evt
  BY <1>1, <1>3, NoUdpView
<1>5. socks' = Closed(socks, s, w) /\ srv' = [srv EXCEPT ![c] = r] /\ got' = got
  BY <1>1, <1>2 DEF CloseClient
<1>6. SameBut(socks, socks) /\ \A t \in SockId : Shrunk(socks[t].queue, socks[t].queue)
  BY DEF SameBut, Shrunk
<1> QED BY <1>3, <1>4, <1>5, <1>6, ReleaseTidy

(***************************************************************************)
(* ConnectUdp connects a socket of the structure itself, or closes it.     *)
(***************************************************************************)
LEMMA ConnectUdpTidy ==
  ASSUME IInv, ConnectUdp
  PROVE  Tidy /\ got' = got
<1>0. Types /\ Holding
  BY DEF IInv
<1>1. pc \in Binding /\ got' = got
  BY <1>0 DEF ConnectUdp, Types
<1>2. PICK key, addr, s : key = pc.key /\ addr = pc.addr /\ s = srv[key].sock
  OBVIOUS
<1>3. key \in Client /\ addr \in Client /\ pc # Idle
  BY <1>1, <1>2 DEF Binding, Idle
<1>4. s \in SockId /\ socks[s].peer = None
  BY <1>0, <1>2, <1>3 DEF Holding, Binds, Types, SrvRec
<1>5. CASE socks' = Connected(s) /\ srv' = [srv EXCEPT ![key].evio = s, ![key].status = "SHAKING"]
  <2>1. /\ Joined(socks, socks', s, addr)
        /\ \A t \in SockId : socks'[t].queue = socks[t].queue
    BY <1>0, <1>1, <1>2, <1>4, <1>5, ConnectedView
  <2>2. SocksKept
    BY <1>4, <2>1 DEF Joined, SocksKept
  <2>3. \A t \in SockId : Shrunk(socks[t].queue, socks'[t].queue)
    BY <2>1 DEF Shrunk
  <2>4. \A e \in Client : srv'[e].sock = srv[e].sock /\ srv'[e].evt = srv[e].evt
    BY <1>0, <1>3, <1>5 DEF Types, SrvRec
  <2> QED BY <1>1, <2>2, <2>3, <2>4 DEF Tidy
<1>6. CASE /\ socks' = Closed(socks, s, srv[key].evio)
           /\ srv' = [srv EXCEPT ![key] = NoUdp(@)]
  <2>1. PICK r, w : r = NoUdp(srv[key]) /\ w = srv[key].evio
    OBVIOUS
  <2>2. srv[key] \in SrvRec /\ socks \in [SockId -> Sock]
    BY <1>0, <1>3 DEF Types
  <2>3. r.sock = 0 /\ ~r.evt
    BY <2>1, <2>2, NoUdpView
  <2>4. socks' = Closed(socks, s, w) /\ srv' = [srv EXCEPT ![key] = r]
    BY <1>6, <2>1
  <2>5. SameBut(socks, socks) /\ \A t \in SockId : Shrunk(socks[t].queue, socks[t].queue)
    BY DEF SameBut, Shrunk
  <2> QED BY <1>1, <1>3, <2>2, <2>3, <2>4, <2>5, ReleaseTidy
<1> QED BY <1>2, <1>5, <1>6 DEF ConnectUdp

-----------------------------------------------------------------------------
(***************************************************************************)
(* ServerRead takes the head of a queue.                                   *)
(***************************************************************************)
Read(s, d, read) ==
  /\ socks[s].queue # <<>> /\ d = Head(socks[s].queue)
  /\ read = [socks EXCEPT ![s].queue = Tail(@)]

LEMMA ReadView ==
  ASSUME IInv, NEW s \in SockId, NEW d, NEW read, Read(s, d, read)
  PROVE  /\ read \in [SockId -> Sock] /\ SameBut(socks, read)
         /\ \A t \in SockId : Shrunk(socks[t].queue, read[t].queue)
         /\ read[s].queue = Tail(socks[s].queue)
<1>1. PICK q, r : q = socks[s].queue /\ r = Tail(q)
  OBVIOUS
<1>2. socks \in [SockId -> Sock] /\ q \in Seq(Datagram) /\ q # <<>>
  BY <1>1 DEF IInv, Types, Sock, Read
<1>3. r \in Seq(Datagram)
  BY <1>1, <1>2
<1>4. read = Requeued(socks, s, r)
  BY <1>1 DEF Read, Requeued
<1>5. read \in [SockId -> Sock] /\ SameBut(socks, read) /\ QueueIs(socks, read, s, r)
  BY <1>2, <1>3, <1>4, QueueView, Zenon
<1>6. \A t \in SockId : read[t].queue = socks[t].queue \/ (read[t].queue = r /\ t = s)
  BY <1>5 DEF QueueIs
<1> QED BY <1>1, <1>2, <1>5, <1>6 DEF Shrunk, QueueIs

(***************************************************************************)
(* The datagram is dropped, or is KCP data.                                *)
(***************************************************************************)
LEMMA DropTidy ==
  ASSUME IInv, NEW s \in SockId, NEW d, NEW read, Read(s, d, read), socks' = read, srv' = srv
  PROVE  Tidy
<1>1. SameBut(socks, socks') /\ \A t \in SockId : Shrunk(socks[t].queue, socks'[t].queue)
  BY ReadView
<1>2. SocksKept
  BY <1>1 DEF SameBut, SocksKept
<1> QED BY <1>1, <1>2 DEF Tidy

(***************************************************************************)
(* A SHAKE_HAND1 makes the server bind a socket: the first for the key, or *)
(* one more.                                                               *)
(***************************************************************************)
LEMMA BindTidy ==
  ASSUME IInv, NEW s \in SockId, NEW d, NEW read, Read(s, d, read),
         NEW key \in Client, NEW addr, BindUdp(key, addr, read)
  PROVE  Tidy
<1>1. /\ read \in [SockId -> Sock] /\ SameBut(socks, read)
      /\ \A t \in SockId : Shrunk(socks[t].queue, read[t].queue)
  BY ReadView
<1>2. srv \in [Client -> SrvRec] /\ Backdrop
  BY DEF IInv, Types
<1>3. CASE /\ Unused # {}
           /\ LET u == CHOOSE v \in Unused : \A x \in Unused : v <= x
              IN  /\ socks' = [read EXCEPT ![u].open = TRUE, ![u].owner = key]
                  /\ srv' = [srv EXCEPT ![key].sock = u]
  <2>1. PICK u : u = CHOOSE v \in Unused : \A x \in Unused : v <= x
    OBVIOUS
  <2>2. u \in Unused /\ u \in SockId /\ socks[u].owner = None
    BY <1>3, <2>1, FirstUnused DEF Unused
  <2>3. socks' = BoundTo(read, u, key) /\ srv' = [srv EXCEPT ![key].sock = u]
    BY <1>3, <2>1 DEF BoundTo
  <2>4. Opened(read, socks', u, key) /\ SameQueues(read, socks')
    BY <1>1, <2>2, <2>3, OpenedView, Zenon
  <2>5. \A t \in SockId : /\ t # u => socks'[t].owner = socks[t].owner
                          /\ t = u => socks'[t].owner = key
                          /\ socks'[t].peer = socks[t].peer
                          /\ socks'[t].queue = read[t].queue
    BY <1>1, <2>4 DEF Opened, SameQueues, SameBut
  <2>6. SocksKept /\ \A t \in SockId : Shrunk(socks[t].queue, socks'[t].queue)
    BY <1>1, <2>2, <2>5 DEF SocksKept
  <2>7. \A e \in Client : /\ e # key => srv'[e].sock = srv[e].sock
                          /\ srv'[e].evt = srv[e].evt
    BY <1>2, <2>3 DEF SrvRec
  <2>8. Linked(key, key) => Repeated(key)'
    <3> SUFFICES ASSUME NEW t \in SockId, socks[t].owner = key
                 PROVE  Repeated(key)'
      BY DEF Linked
    <3>1. t # u
      BY <2>2, NoneAssumption
    <3>2. socks'[t].owner = key /\ socks'[u].owner = key
      BY <2>2, <2>5, <3>1
    <3>3. PICK S : S = {v \in SockId : socks'[v].owner = key}
      OBVIOUS
    <3>4. S \in SUBSET SockId /\ t \in S /\ u \in S
      BY <2>2, <3>2, <3>3
    <3>5. Cardinality(S) > 1
      BY <3>1, <3>4, TwoMembers
    <3> QED BY <3>3, <3>5, Zenon DEF Repeated
  <2> QED BY <2>6, <2>7, <2>8 DEF Tidy
<1>4. ASSUME NEW x, socks' = Closed(read, x, srv[key].evio), srv' = [srv EXCEPT ![key] = NoUdp(@)]
      PROVE  Tidy
  <2>1. PICK r, w : r = NoUdp(srv[key]) /\ w = srv[key].evio
    OBVIOUS
  <2>2. r.sock = 0 /\ ~r.evt
    BY <1>2, <2>1, NoUdpView
  <2>3. socks' = Closed(read, x, w) /\ srv' = [srv EXCEPT ![key] = r]
    BY <1>4, <2>1
  <2> QED BY <1>1, <2>2, <2>3, ReleaseTidy
<1> QED BY <1>3, <1>4 DEF BindUdp

(***************************************************************************)
(* A SHAKE_HAND2 starts the KCP timer of its sender's structure. If the    *)
(* client is alone it was read from that structure's socket, where nothing *)
(* but the client's own datagrams can be behind it.                        *)
(***************************************************************************)
LEMMA Hand2Tidy ==
  ASSUME DInv, NEW s \in SockId, NEW d, NEW read, Read(s, d, read), socks' = read,
         NEW key \in Client, Hand2Of(d, key),
         srv' = [srv EXCEPT ![key].status = "READY", ![key].evt = TRUE]
  PROVE  Tidy
<1>0. IInv /\ Apart
  BY DEF DInv
<1>1. /\ SameBut(socks, socks') /\ \A t \in SockId : Shrunk(socks[t].queue, socks'[t].queue)
      /\ socks'[s].queue = Tail(socks[s].queue)
  BY <1>0, ReadView
<1>2. SocksKept
  BY <1>1 DEF SameBut, SocksKept
<1>3. \A c \in Client : /\ srv'[c].sock = srv[c].sock
                        /\ c # key => srv'[c].evt = srv[c].evt
  BY <1>0 DEF IInv, Types, SrvRec
<1>4. ASSUME Alone(key)' PROVE Pure(socks'[srv'[key].sock].queue, key)
  <2>1. Alone(key)
    BY <1>0, <1>2, <1>3, <1>4, KeepsRepeated, KeepsMisled DEF IInv, Alone
  <2>2. PICK q : q = socks[s].queue
    OBVIOUS
  <2>3. q \in Seq(Datagram) /\ q # <<>> /\ Hand2Of(Head(q), key)
    BY <1>0, <2>2 DEF IInv, Types, Sock, Read
  <2>4. Confirms(q, key)
    <3>1. 1 \in DOMAIN q /\ Head(q) = q[1]
      BY <2>3
    <3> QED BY <2>3, <3>1 DEF Confirms
  <2>5. s = srv[key].sock /\ Ordered(q, key)
    BY <1>0, <2>1, <2>2, <2>4 DEF Apart
  <2>6. Pure(Tail(q), key)
    BY <2>3, <2>5, BehindHand2
  <2> QED BY <1>1, <1>3, <2>2, <2>5, <2>6
<1> QED BY <1>1, <1>2, <1>3, <1>4 DEF Tidy

(***************************************************************************)
(* on_server_recv, for a datagram that carries the key of its sender.      *)
(***************************************************************************)
LEMMA OnServerRecvTidy ==
  ASSUME DInv, NEW s \in SockId, NEW d, d.key = d.from, d.key \in Client,
         NEW read, Read(s, d, read),
         NEW client, NEW addr, OnServerRecv(client, d, addr, read)
  PROVE  Tidy
<1>0. IInv
  BY DEF DInv
<1>1. PICK key \in Client : key = d.key
  OBVIOUS
<1>2. CASE BindUdp(key, addr, read)
  BY <1>0, <1>2, BindTidy
<1>3. CASE /\ d.type = "HAND2" /\ socks' = read
           /\ srv' = [srv EXCEPT ![key].status = "READY", ![key].evt = TRUE]
  <2>1. Hand2Of(d, key)
    BY <1>1, <1>3 DEF Hand2Of
  <2> QED BY <1>3, <2>1, Hand2Tidy
<1>4. CASE socks' = read /\ srv' = srv
  BY <1>0, <1>4, DropTidy
<1> QED BY <1>1, <1>2, <1>3, <1>4 DEF OnServerRecv

(***************************************************************************)
(* ServerRead: what a watcher of a client that is alone accepts as KCP data*)
(* comes from the client's only socket, on which nothing else is left.     *)
(***************************************************************************)
LEMMA ServerReadData ==
  ASSUME DInv, IInv', NEW s \in SockId, ServerRead(s)
  PROVE  DInv'
<1>0. IInv /\ Apart /\ DataFromOwner
  BY DEF DInv
<1>1. PICK d, read : d = Head(socks[s].queue) /\ read = [socks EXCEPT ![s].queue = Tail(@)]
  OBVIOUS
<1>2. Read(s, d, read)
  BY <1>1 DEF ServerRead, Read
<1>3. IF s = Main THEN ReadMain(d, read) ELSE ReadClient(socks[s].owner, d, read)
  BY <1>1 DEF ServerRead
<1>4. PICK q : q = socks[s].queue
  OBVIOUS
<1>5. /\ q \in Seq(Datagram) /\ 1 \in DOMAIN q /\ d = q[1] /\ d \in Datagram
  <2>1. q \in Seq(Datagram) /\ q # <<>> /\ d = Head(q)
    BY <1>0, <1>2, <1>4 DEF IInv, Types, Sock, Read
  <2> QED BY <2>1
<1>6. d.key = d.from /\ d.key \in Client
  <2>1. FromClient(d)
    BY <1>0, <1>4, <1>5 DEF IInv, Traffic, Queued
  <2> QED BY <2>1 DEF FromClient
<1>7. CASE got' = got /\ \E client, addr : OnServerRecv(client, d, addr, read)
  BY <1>2, <1>6, <1>7, OnServerRecvTidy, TidyStep
<1>8. CASE got' = got /\ socks' = read /\ srv' = srv
  BY <1>0, <1>2, <1>8, DropTidy, TidyStep
<1>9. ASSUME NEW c, s # Main, c = socks[s].owner, SrvValid(c), socks' = read, srv' = srv,
             got' = IF KcpAccepts(c, d) THEN got \cup {<<c, d.from>>} ELSE got
      PROVE  DInv'
  <2>1. Tidy
    BY <1>0, <1>2, <1>9, DropTidy
  <2>2. Apart'
    BY <1>0, <2>1, ApartStep DEF Tidy
  <2>3. c \in Client /\ srv[c].sock # 0 /\ srv[c].evt
    <3>1. c \in Client \/ c = None
      BY <1>0, <1>9 DEF IInv, Types, Sock, Peer
    <3>2. socks[s].watched
      BY DEF ServerRead
    <3> QED BY <1>0, <1>9, <3>1, <3>2 DEF SrvValid, IInv, Backdrop
  <2>4. d.from = c \/ Repeated(c) \/ Misled(c)
    <3> SUFFICES ASSUME ~Repeated(c), ~Misled(c) PROVE d.from = c
      OBVIOUS
    <3>1. Alone(c)
      BY <2>3 DEF Alone
    <3>2. s = srv[c].sock
      BY <1>0, <1>9, <2>3, <3>1, OnlySocket
    <3>3. Pure(q, c)
      BY <1>0, <1>4, <2>3, <3>1, <3>2 DEF Apart
    <3> QED BY <1>5, <3>3 DEF Pure
  <2>5. \A p \in got' : p \in got \/ p[1] = p[2] \/ Repeated(p[1]) \/ Misled(p[1])
    <3> SUFFICES ASSUME NEW p \in got', p \notin got, p[1] # p[2]
                 PROVE  Repeated(p[1]) \/ Misled(p[1])
      OBVIOUS
    <3>1. p = <<c, d.from>>
      BY <1>9
    <3> QED BY <2>4, <3>1
  <2>6. DataFromOwner'
    BY <1>0, <2>1, <2>5, AcceptedStep DEF Tidy
  <2> QED BY <2>2, <2>6 DEF DInv
<1>10. CASE s = Main
  BY <1>3, <1>7, <1>10 DEF ReadMain
<1>11. CASE s # Main
  BY <1>3, <1>7, <1>8, <1>9, <1>11 DEF ReadClient
<1> QED BY <1>10, <1>11

-----------------------------------------------------------------------------
(***************************************************************************)
(* The strengthened invariant is inductive.                                *)
(***************************************************************************)
LEMMA InitData == Init => DInv
<1> SUFFICES ASSUME Init PROVE DInv
  OBVIOUS
<1>1. IInv
  BY InitInv
<1>2. Apart
  BY DEF Init, Apart, Alone
<1>3. DataFromOwner
  BY DEF Init, DataFromOwner
<1> QED BY <1>1, <1>2, <1>3 DEF DInv

(***************************************************************************)
(* One lemma above for each action that touches the server.                *)
(***************************************************************************)
LEMMA NextData == DInv /\ [Next]_vars => DInv'
<1> SUFFICES ASSUME DInv, [Next]_vars PROVE DInv'
  OBVIOUS
<1>0. IInv /\ IInv'
  BY NextInv DEF DInv
<1>1. CASE UNCHANGED server
  <2>1. socks' = socks /\ srv' = srv /\ got' = got
    BY <1>1 DEF server
  <2>2. Tidy
    BY <2>1 DEF Tidy, SocksKept, Shrunk
  <2> QED BY <1>0, <2>1, <2>2, TidyStep
<1>2. CASE Arrive
  BY <1>0, <1>2, ArriveApart
<1>3. CASE ServerStep
  BY <1>0, <1>3, TcpAcceptTidy, CloseClientTidy, ConnectUdpTidy, TidyStep, ServerReadData
     DEF ServerStep
<1>4. CASE Lose \/ Duplicate \/ UNCHANGED vars
  BY <1>1, <1>4 DEF Lose, Duplicate, vars
<1>5. CASE \E c \in Client : ClientStep(c) \/ ClientKcp(c) \/ ClientQuit(c)
  BY <1>1, <1>5 DEF ClientStep, ClientHand1, ClientRead, ClientKcp, ClientQuit
<1> QED BY <1>2, <1>3, <1>4, <1>5 DEF Next

(***************************************************************************)
(* Whatever convs the clients' keys have, data of another client is taken  *)
(* for that of c only if the convs are the same and two sockets are bound  *)
(* for c or another client's is connected to its address: otherwise all    *)
(* that was queued on the socket of c before it was connected is read      *)
(* before the SHAKE_HAND2 that makes its KCP valid (connect_client_udp,    *)
(* server_udp_recv, ikcp_input).                                           *)
(***************************************************************************)
THEOREM OwnDataOnly == Spec => []DataFromOwner
<1>1. DInv => DataFromOwner
  BY DEF DInv
<1> QED BY <1>1, InitData, NextData, PTL DEF Spec
=============================================================================
