-------------------------- MODULE UdpDemuxProofs ---------------------------
(***************************************************************************)
(* Proofs about UdpDemux, for any number of clients and sockets and every  *)
(* scenario: whatever calls fail, whichever clients disconnect and whatever*)
(* datagrams are lost, repeated or given to another client's socket.       *)
(***************************************************************************)
EXTENDS UdpDemux, FiniteSetTheorems, WellFoundedInduction, TLAPS

(***************************************************************************)
(* The types: TypeOK without its last conjunct, which is Watching below.   *)
(***************************************************************************)
SrvRec ==
  [mem : {"none", "live", "freed"}, sock : SockId \cup {0}, evio : SockId \cup {0},
   status : {"INVALID", "SHAKING", "READY"}, evt : BOOLEAN]

Binding == [at : {"bound"}, key : Client, addr : Client]

Types ==
  /\ scn \in Scenarios
  /\ cli \in [Client -> {"NEW", "KEY", "SHAKING", "READY", "GONE", "REFUSED"}]
  /\ srv \in [Client -> SrvRec]
  /\ hash \subseteq Client
  /\ socks \in [SockId -> Sock]
  /\ pc = Idle \/ pc \in Binding
  /\ net \subseteq Datagram
  /\ got \subseteq Client \X Client
  /\ broken \in BOOLEAN
  /\ losses \in 0..scn.losses /\ dups \in 0..scn.dups
  /\ sent \in [Client -> 0..scn.sends]

(***************************************************************************)
(* The main socket, and the sockets not used so far.                       *)
(***************************************************************************)
Backdrop ==
  /\ socks[Main].open /\ socks[Main].owner = None
  /\ \A s \in SockId : s # Main /\ socks[s].owner = None => ~socks[s].open /\ ~socks[s].watched
  /\ \A s \in SockId : socks[s].owner = None => socks[s].peer = None

(***************************************************************************)
(* A structure's socket is open and its own, and so is the one it watches. *)
(* The two are the same, and connected, except within connect_client_udp.  *)
(***************************************************************************)
Binds(c) == pc # Idle /\ pc.key = c

Holding ==
  \A c \in Client :
    /\ srv[c].sock # 0 => socks[srv[c].sock].open /\ socks[srv[c].sock].owner = c
    /\ srv[c].evio # 0 => socks[srv[c].evio].owner = c
    /\ srv[c].sock # 0 \/ srv[c].evio # 0 => srv[c].mem = "live"
    /\ ~Binds(c) => /\ srv[c].sock = srv[c].evio
                    /\ srv[c].sock # 0 => socks[srv[c].sock].peer \in Client
    /\ Binds(c) => /\ srv[c].sock # 0
                   /\ ~socks[srv[c].sock].watched
                   /\ socks[srv[c].sock].peer = None

(***************************************************************************)
(* A watched socket is open, and the one its structure watches unless a    *)
(* repeated SHAKE_HAND1 has left it behind.                                *)
(***************************************************************************)
Watching ==
  \A s \in SockId : socks[s].watched =>
    /\ socks[s].open
    /\ \A c \in Client : socks[s].owner = c => srv[c].evio = s \/ Repeated(c)

(***************************************************************************)
(* The hash: an entry of a freed structure is that of a refused client.    *)
(***************************************************************************)
Hashed ==
  /\ \A c \in Client : cli[c] = "NEW" => srv[c].mem = "none"
  /\ \A c \in hash : /\ srv[c].mem # "none"
                     /\ srv[c].mem = "freed" => cli[c] = "REFUSED"
  /\ broken => \E c \in Client : cli[c] = "REFUSED" \/ Repeated(c)

(***************************************************************************)
(* A datagram to the server carries the key of its sender, who has it from *)
(* the server; SHAKE_HAND2 goes back and forth only after the server has   *)
(* connected a socket of the key's structure to the address.               *)
(***************************************************************************)
Linked(k, a) == \E s \in SockId : socks[s].owner = k /\ socks[s].peer = a

FromClient(d) ==
  /\ d.from \in Client /\ d.key = d.from
  /\ cli[d.from] \in {"SHAKING", "READY", "GONE"}
  /\ d.type = "HAND2" => cli[d.from] \in {"READY", "GONE"} /\ Linked(d.from, d.from)

FromServer(d) == d.type = "HAND2" /\ d.to \in Client /\ Linked(d.key, d.to)

Queued(s, d) == \E i \in DOMAIN socks[s].queue : socks[s].queue[i] = d

Traffic ==
  /\ \A d \in net : IF d.to = None THEN FromClient(d) ELSE FromServer(d)
  /\ \A s \in SockId, d \in Datagram : Queued(s, d) => FromClient(d)
  /\ \A c \in Client : srv[c].evt => cli[c] \in {"READY", "GONE"} /\ Linked(c, c)

(***************************************************************************)
(* What was accepted as KCP data of a client carries that client's conv.   *)
(***************************************************************************)
SameConv == \A p \in got : Conv[p[1]] = Conv[p[2]]

IInv == Types /\ Backdrop /\ Holding /\ Watching /\ Hashed /\ Traffic /\ SameConv

-----------------------------------------------------------------------------
(***************************************************************************)
(* Helpers: sets of sockets.                                               *)
(***************************************************************************)
LEMMA SockIds ==
  /\ Main \in SockId /\ 0 \notin SockId /\ SockId \subseteq Nat
  /\ IsFiniteSet(SockId)
<1>1. MaxSock + 1 \in Nat /\ 1 \in Int /\ MaxSock + 1 \in Int /\ 1 <= MaxSock + 1
  BY MaxSockAssumption
<1>2. IsFiniteSet(1..(MaxSock + 1))
  BY <1>1, FS_Interval
<1> QED BY <1>1, <1>2 DEF Main, SockId

(***************************************************************************)
(* BindUdp takes the first unused socket: there is one.                    *)
(***************************************************************************)
LEMMA FirstUnused ==
  ASSUME Unused # {}
  PROVE  (CHOOSE u \in Unused : \A v \in Unused : u <= v) \in Unused
<1>1. Unused \subseteq Nat
  BY SockIds DEF Unused
<1>2. PICK u \in Unused : \A v \in Unused : ~(<<v, u>> \in OpToRel(<, Nat))
  BY <1>1, NatLessThanWellFounded, WFMin, Zenon
<1>3. \A v \in Unused : ~(v < u)
  BY <1>1, <1>2, Zenon DEF OpToRel
<1>4. \A v \in Unused : u <= v
  BY <1>1, <1>3
<1> QED BY <1>4

(***************************************************************************)
(* A set of sockets with two members.                                      *)
(***************************************************************************)
LEMMA TwoMembers ==
  ASSUME NEW S \in SUBSET SockId, NEW s \in S, NEW t \in S, s # t
  PROVE  Cardinality(S) > 1
<1>1. IsFiniteSet(S)
  BY SockIds, FS_Subset
<1>2. {s, t} \subseteq S
  OBVIOUS
<1>3. Cardinality({s, t}) = 2
  <2>1. IsFiniteSet({s}) /\ Cardinality({s}) = 1
    BY FS_Singleton
  <2>2. Cardinality({s} \cup {t}) = Cardinality({s}) + 1
    BY <2>1, FS_AddElement
  <2>3. {s} \cup {t} = {s, t}
    OBVIOUS
  <2> QED BY <2>1, <2>2, <2>3
<1>4. Cardinality({s, t}) <= Cardinality(S)
  BY <1>1, <1>2, FS_Subset
<1>5. Cardinality(S) \in Nat
  BY <1>1, FS_CardinalityType
<1>6. Cardinality(S) > 1
  BY <1>3, <1>4, <1>5
<1> QED BY <1>6

(***************************************************************************)
(* Two sockets of a client make it a repeated one.                         *)
(***************************************************************************)
LEMMA TwoSockets ==
  ASSUME NEW c, NEW s \in SockId, NEW t \in SockId, s # t,
         socks[s].owner = c, socks[t].owner = c
  PROVE  Repeated(c)
<1>1. PICK S : S = {u \in SockId : socks[u].owner = c}
  OBVIOUS
<1>2. S \in SUBSET SockId /\ s \in S /\ t \in S
  BY <1>1
<1>3. Cardinality(S) > 1
  BY <1>2, TwoMembers
<1> QED BY <1>1, <1>3, Zenon DEF Repeated

(***************************************************************************)
(* A client with two sockets still has two when its sockets keep their     *)
(* owner.                                                                  *)
(***************************************************************************)
LEMMA StaysRepeated ==
  ASSUME NEW c, \A s \in SockId : socks[s].owner = c => socks'[s].owner = c
  PROVE  Repeated(c) => Repeated(c)'
<1> DEFINE S == {u \in SockId : socks[u].owner = c}
           T == {u \in SockId : socks'[u].owner = c}
<1>1. IsFiniteSet(S) /\ IsFiniteSet(T)
  BY SockIds, FS_Subset
<1>2. S \subseteq T
  OBVIOUS
<1>3. Cardinality(S) <= Cardinality(T)
  BY <1>1, <1>2, FS_Subset
<1>4. Cardinality(S) \in Nat /\ Cardinality(T) \in Nat
  BY <1>1, FS_CardinalityType
<1>5. Cardinality(S) > 1 => Cardinality(T) > 1
  BY <1>3, <1>4
<1> QED BY <1>5 DEF Repeated

(***************************************************************************)
(* What an operation does to a socket, field by field.                     *)
(***************************************************************************)
\* Only the queue of socket s changes, to q.
QueueIs(sk, tk, s, q) ==
  \A t \in SockId : /\ t = s => tk[t].queue = q
                    /\ t # s => tk[t].queue = sk[t].queue

\* Nothing but the queues changes.
SameBut(sk, tk) ==
  \A t \in SockId : /\ tk[t].open <=> sk[t].open
                    /\ tk[t].watched <=> sk[t].watched
                    /\ tk[t].owner = sk[t].owner /\ tk[t].peer = sk[t].peer

Requeued(sk, s, q) == [sk EXCEPT ![s].queue = q]

(***************************************************************************)
(* The queue of socket s becomes q, and no other field changes.            *)
(***************************************************************************)
LEMMA QueueView ==
  ASSUME NEW sk, NEW tk, NEW s \in SockId, NEW q \in Seq(Datagram),
         sk \in [SockId -> Sock], tk = Requeued(sk, s, q)
  PROVE  /\ tk \in [SockId -> Sock]
         /\ SameBut(sk, tk)
         /\ QueueIs(sk, tk, s, q)
  BY DEF QueueIs, Sock, SameBut, Requeued

\* Socket s is closed, and the watcher of socket w stopped.
Released(sk, tk, s, w) ==
  \A t \in SockId : /\ tk[t].open <=> sk[t].open /\ t # s
                    /\ tk[t].watched <=> sk[t].watched /\ t # w
                    /\ tk[t].owner = sk[t].owner
                    /\ tk[t].peer = sk[t].peer

(***************************************************************************)
(* KcpevSock_destroy, field by field.                                      *)
(***************************************************************************)
LEMMA ClosedView ==
  ASSUME NEW sk, NEW tk, NEW s, NEW w,
         sk \in [SockId -> Sock], tk = Closed(sk, s, w)
  PROVE  /\ tk \in [SockId -> Sock]
         /\ Released(sk, tk, s, w)
         /\ \A t \in SockId : tk[t].queue = IF t = s THEN <<>> ELSE sk[t].queue
<1> SUFFICES ASSUME NEW t \in SockId
             PROVE  /\ tk[t] \in Sock
                    /\ tk[t].open <=> sk[t].open /\ t # s
                    /\ tk[t].watched <=> sk[t].watched /\ t # w
                    /\ tk[t].owner = sk[t].owner
                    /\ tk[t].peer = sk[t].peer
                    /\ tk[t].queue = IF t = s THEN <<>> ELSE sk[t].queue
  BY DEF Closed, Released
<1>1. PICK o \in BOOLEAN : o = (sk[t].open /\ t # s)
  OBVIOUS
<1>2. PICK v \in BOOLEAN : v = (sk[t].watched /\ t # w)
  OBVIOUS
<1>3. PICK q \in Seq(Datagram) : q = IF t = s THEN <<>> ELSE sk[t].queue
  <2>1. sk[t].queue \in Seq(Datagram)
    BY DEF Sock
  <2>2. <<>> \in Seq(Datagram)
    OBVIOUS
  <2> QED BY <2>1, <2>2
<1>4. tk[t] = [sk[t] EXCEPT !.open = o, !.queue = q, !.watched = v]
  BY <1>1, <1>2, <1>3, Zenon DEF Closed
<1>5. sk[t] \in Sock
  OBVIOUS
<1>6. /\ tk[t] \in Sock
      /\ tk[t].open = o /\ tk[t].watched = v
      /\ tk[t].owner = sk[t].owner /\ tk[t].peer = sk[t].peer
      /\ tk[t].queue = q
  BY <1>4, <1>5 DEF Sock
<1> QED BY <1>1, <1>2, <1>3, <1>6

\* A socket s is opened for key, and nothing else is.
Opened(sk, tk, s, key) ==
  \A t \in SockId : /\ tk[t].open <=> sk[t].open \/ t = s
                    /\ tk[t].watched <=> sk[t].watched
                    /\ tk[t].owner = IF t = s THEN key ELSE sk[t].owner
                    /\ tk[t].peer = sk[t].peer

\* The queues do not change.
SameQueues(sk, tk) == \A t \in SockId : tk[t].queue = sk[t].queue

BoundTo(sk, s, key) == [sk EXCEPT ![s].open = TRUE, ![s].owner = key]

(***************************************************************************)
(* bind, field by field.                                                   *)
(***************************************************************************)
LEMMA OpenedView ==
  ASSUME NEW sk, NEW tk, NEW s \in SockId, NEW key \in Client,
         sk \in [SockId -> Sock], tk = BoundTo(sk, s, key)
  PROVE  /\ tk \in [SockId -> Sock]
         /\ Opened(sk, tk, s, key)
         /\ SameQueues(sk, tk)
  BY ZenonT(30) DEF Sock, Peer, Opened, BoundTo, SameQueues

\* Socket s is connected to addr and watched, and nothing else is.
Joined(sk, tk, s, addr) ==
  \A t \in SockId : /\ tk[t].open <=> sk[t].open
                    /\ tk[t].watched <=> sk[t].watched \/ t = s
                    /\ tk[t].owner = sk[t].owner
                    /\ tk[t].peer = IF t = s THEN addr ELSE sk[t].peer

(***************************************************************************)
(* connect and kcpev_set_ev, field by field.                               *)
(***************************************************************************)
LEMMA ConnectedView ==
  ASSUME Types, pc \in Binding, NEW s \in SockId
  PROVE  /\ Connected(s) \in [SockId -> Sock]
         /\ Joined(socks, Connected(s), s, pc.addr)
         /\ \A t \in SockId : Connected(s)[t].queue = socks[t].queue
<1>1. socks \in [SockId -> Sock] /\ pc.addr \in Peer
  BY DEF Types, Binding, Peer
<1> QED BY <1>1 DEF Connected, Sock, Joined

(***************************************************************************)
(* A datagram that is put on the network.                                  *)
(***************************************************************************)
LEMMA WithType ==
  ASSUME NEW n \in SUBSET Datagram, NEW d \in Datagram
  PROVE  /\ With(n, d) \subseteq Datagram
         /\ \A e \in With(n, d) : \/ e \in n
                                  \/ /\ e.type = d.type /\ e.key = d.key
                                     /\ e.from = d.from /\ e.to = d.to
  BY DEF With, Datagram

(***************************************************************************)
(* The fields of a datagram that is sent.                                  *)
(***************************************************************************)
LEMMA DgramType ==
  ASSUME NEW type \in {"HAND1", "HAND2", "KCP"}, NEW key \in Client,
         NEW from \in Peer, NEW to \in Peer
  PROVE  /\ Dgram(type, key, from, to) \in Datagram
         /\ Dgram(type, key, from, to).type = type /\ Dgram(type, key, from, to).key = key
         /\ Dgram(type, key, from, to).from = from /\ Dgram(type, key, from, to).to = to
  BY DEF Dgram, Datagram

-----------------------------------------------------------------------------
(***************************************************************************)
(* What is never undone: a socket keeps its owner and its peer, a client   *)
(* does not go back.                                                       *)
(***************************************************************************)
SocksKept ==
  \A s \in SockId : /\ socks[s].owner # None => socks'[s].owner = socks[s].owner
                    /\ socks[s].peer # None => socks'[s].peer = socks[s].peer

ClientsKept ==
  \A c \in Client :
    /\ cli[c] \in {"SHAKING", "READY", "GONE"} => cli'[c] \in {"SHAKING", "READY", "GONE"}
    /\ cli[c] \in {"READY", "GONE"} => cli'[c] \in {"READY", "GONE"}
    /\ cli[c] = "REFUSED" => cli'[c] = "REFUSED"

(***************************************************************************)
(* Repeated is stable under steps that keep owners.                        *)
(***************************************************************************)
LEMMA KeepsRepeated ==
  ASSUME SocksKept
  PROVE  \A c \in Client : Repeated(c) => Repeated(c)'
<1> SUFFICES ASSUME NEW c \in Client PROVE Repeated(c) => Repeated(c)'
  OBVIOUS
<1>1. \A s \in SockId : socks[s].owner = c => socks'[s].owner = c
  BY NoneAssumption DEF SocksKept
<1> QED BY <1>1, StaysRepeated

(***************************************************************************)
(* So are the facts about datagrams under way, which the receiver of a     *)
(* datagram relies on although they were established when it was sent.     *)
(***************************************************************************)
LEMMA Kept ==
  ASSUME Types, SocksKept, ClientsKept
  PROVE  /\ \A c \in Client : Repeated(c) => Repeated(c)'
         /\ \A k, a \in Client : Linked(k, a) => Linked(k, a)'
         /\ \A d \in Datagram : FromClient(d) => FromClient(d)'
         /\ \A d \in Datagram : FromServer(d) => FromServer(d)'
<1>1. \A c \in Client : Repeated(c) => Repeated(c)'
  BY KeepsRepeated
<1>2. ASSUME NEW k \in Client, NEW a \in Client PROVE Linked(k, a) => Linked(k, a)'
  BY NoneAssumption DEF SocksKept, Linked
<1>3. ASSUME NEW d \in Datagram PROVE FromClient(d) => FromClient(d)'
  BY <1>2 DEF FromClient, ClientsKept
<1>4. ASSUME NEW d \in Datagram PROVE FromServer(d) => FromServer(d)'
  BY <1>2 DEF FromServer, Datagram
<1> QED BY <1>1, <1>2, <1>3, <1>4

(***************************************************************************)
(* A step that opens, closes and watches nothing.                          *)
(***************************************************************************)
LEMMA PlainStep ==
  ASSUME Types, Backdrop, Holding, Watching, SameBut(socks, socks'), pc' = pc,
         \A c \in Client : /\ srv'[c].sock = srv[c].sock /\ srv'[c].evio = srv[c].evio
                           /\ srv[c].mem = "live" => srv'[c].mem = "live"
  PROVE  SocksKept /\ Backdrop' /\ Holding' /\ Watching'
<1>0. Main \in SockId /\ 0 \notin SockId
  BY SockIds
<1>1. \A c \in Client : srv[c].sock \in SockId \cup {0} /\ srv[c].evio \in SockId \cup {0}
  BY DEF Types, SrvRec
<1>2. SocksKept
  BY DEF SocksKept, SameBut
<1>3. Backdrop'
  BY <1>0 DEF Backdrop, SameBut
<1>4. Holding'
  BY <1>1 DEF Holding, SameBut, Binds
<1>5. Watching'
  <2>1. \A c \in Client : Repeated(c) => Repeated(c)'
    BY <1>2, KeepsRepeated
  <2> QED BY <2>1 DEF Watching, SameBut
<1> QED BY <1>2, <1>3, <1>4, <1>5

(***************************************************************************)
(* KcpevUdp_destroy: the socket of c is closed, unless bind failed, and its*)
(* watcher stopped.                                                        *)
(***************************************************************************)
LEMMA ReleaseStep ==
  ASSUME Types, Backdrop, Holding, Watching,
         NEW c \in Client, NEW s \in {0, srv[c].sock},
         Released(socks, socks', s, srv[c].evio),
         pc = Idle \/ pc.key = c, pc' = Idle,
         srv'[c].sock = 0, srv'[c].evio = 0,
         \A d \in Client : d # c => srv'[d] = srv[d]
  PROVE  SocksKept /\ Backdrop' /\ Holding' /\ Watching'
<1>0. Main \in SockId /\ 0 \notin SockId
  BY SockIds
<1>1. \A t \in SockId : /\ socks'[t].open <=> socks[t].open /\ t # s
                        /\ socks'[t].watched <=> socks[t].watched /\ t # srv[c].evio
                        /\ socks'[t].owner = socks[t].owner
                        /\ socks'[t].peer = socks[t].peer
  BY DEF Released
<1>2. \A d \in Client : srv[d].sock \in SockId \cup {0} /\ srv[d].evio \in SockId \cup {0}
  BY DEF Types, SrvRec
<1>3. SocksKept
  BY <1>1 DEF SocksKept
<1>4. s \in SockId => socks[s].owner = c /\ s # Main
  BY <1>0, NoneAssumption DEF Holding, Backdrop
<1>5. Backdrop'
  BY <1>0, <1>1, <1>4 DEF Backdrop
<1>6. Holding'
  <2>1. \A d \in Client : d # c => ~Binds(d)
    BY DEF Binds
  <2>2. \A d \in Client : ~Binds(d)'
    BY DEF Binds
  <2>3. \A d \in Client : d # c /\ srv[d].sock # 0 => srv[d].sock # s
    BY <1>0, <1>2, <1>4 DEF Holding
  <2> QED BY <1>1, <1>2, <2>1, <2>2, <2>3 DEF Holding
<1>7. Watching'
  <2>1. \A d \in Client : Repeated(d) => Repeated(d)'
    BY <1>3, KeepsRepeated
  <2>2. ASSUME NEW t \in SockId, socks'[t].watched PROVE socks'[t].open
    <3>1. socks[t].watched /\ t # srv[c].evio /\ socks[t].open
      BY <1>1, <2>2 DEF Watching
    <3>2. t # s
      BY <1>0, <3>1 DEF Holding
    <3> QED BY <1>1, <3>1, <3>2
  <2>3. ASSUME NEW t \in SockId, socks'[t].watched, NEW d \in Client, socks'[t].owner = d
        PROVE  srv'[d].evio = t \/ Repeated(d)'
    <3>1. socks[t].watched /\ t # srv[c].evio /\ socks[t].owner = d
      BY <1>1, <2>3
    <3>2. srv[d].evio = t \/ Repeated(d)
      BY <3>1 DEF Watching
    <3> QED BY <2>1, <3>1, <3>2
  <2> QED BY <2>2, <2>3 DEF Watching
<1> QED BY <1>3, <1>5, <1>6, <1>7

(***************************************************************************)
(* connect_client_udp binds a new socket for key.                          *)
(***************************************************************************)
LEMMA BindStep ==
  ASSUME Types, Backdrop, Holding, Watching, pc = Idle,
         NEW key \in Client, srv[key].mem = "live", NEW s \in Unused,
         Opened(socks, socks', s, key),
         \A d \in Client : d # key => srv'[d] = srv[d],
         srv'[key].sock = s, srv'[key].evio = srv[key].evio, srv'[key].mem = "live",
         pc' \in Binding, pc'.key = key
  PROVE  SocksKept /\ Backdrop' /\ Holding' /\ Watching'
<1>0. Main \in SockId /\ 0 \notin SockId
  BY SockIds
<1>1. s \in SockId /\ s # Main /\ socks[s].owner = None
  BY DEF Unused
<1>2. \A t \in SockId : /\ socks'[t].open <=> socks[t].open \/ t = s
                        /\ socks'[t].watched <=> socks[t].watched
                        /\ t = s => socks'[t].owner = key
                        /\ t # s => socks'[t].owner = socks[t].owner
                        /\ socks'[t].peer = socks[t].peer
  BY DEF Opened
<1>3. \A d \in Client : srv[d].sock \in SockId \cup {0} /\ srv[d].evio \in SockId \cup {0}
  BY DEF Types, SrvRec
<1>4. /\ \A d \in Client : d # key => srv'[d] = srv[d]
      /\ srv'[key].sock = s /\ srv'[key].evio = srv[key].evio /\ srv'[key].mem = "live"
  OBVIOUS
<1>5. ~socks[s].watched /\ ~socks[s].open /\ socks[s].peer = None
  BY <1>1 DEF Backdrop
<1>6. SocksKept
  BY <1>1, <1>2 DEF SocksKept
<1>7. Backdrop'
  <2>1. socks'[Main].open /\ socks'[Main].owner = None
    BY <1>0, <1>1, <1>2, Zenon DEF Backdrop
  <2>2. ASSUME NEW t \in SockId, socks'[t].owner = None
        PROVE  t # s /\ socks[t].owner = None
    BY <1>2, <2>2, NoneAssumption
  <2>3. ASSUME NEW t \in SockId, t # Main, socks'[t].owner = None
        PROVE  ~socks'[t].open /\ ~socks'[t].watched
    BY <1>2, <2>2, <2>3, Zenon DEF Backdrop
  <2>4. ASSUME NEW t \in SockId, socks'[t].owner = None PROVE socks'[t].peer = None
    BY <1>2, <2>2, <2>4, ZenonT(30) DEF Backdrop
  <2> QED BY <2>1, <2>3, <2>4 DEF Backdrop
<1>8. Holding'
  <2>1. \A d \in Client : ~Binds(d) /\ (Binds(d)' <=> d = key)
    BY DEF Binds, Idle, Binding
  <2>2. \A d \in Client : /\ srv[d].sock # 0 => srv[d].sock # s
                          /\ srv[d].evio # 0 => srv[d].evio # s
    BY <1>1, <1>3, NoneAssumption DEF Holding
  <2>3. ASSUME NEW d \in Client, d # key
        PROVE  /\ srv'[d].sock # 0 => socks'[srv'[d].sock].open /\ socks'[srv'[d].sock].owner = d
               /\ srv'[d].evio # 0 => socks'[srv'[d].evio].owner = d
               /\ srv'[d].sock # 0 \/ srv'[d].evio # 0 => srv'[d].mem = "live"
               /\ srv'[d].sock = srv'[d].evio
               /\ srv'[d].sock # 0 => socks'[srv'[d].sock].peer \in Client
    <3>1. srv'[d] = srv[d]
      BY <1>4, <2>3
    <3>2. /\ srv[d].sock # 0 => /\ socks[srv[d].sock].open /\ socks[srv[d].sock].owner = d
                                /\ socks[srv[d].sock].peer \in Client
          /\ srv[d].evio # 0 => socks[srv[d].evio].owner = d
          /\ srv[d].sock # 0 \/ srv[d].evio # 0 => srv[d].mem = "live"
          /\ srv[d].sock = srv[d].evio
      BY <2>1 DEF Holding
    <3>3. srv[d].sock # 0 => srv[d].sock \in SockId /\ srv[d].sock # s
      BY <1>3, <2>2
    <3>4. srv[d].evio # 0 => srv[d].evio \in SockId /\ srv[d].evio # s
      BY <1>3, <2>2
    <3> QED BY <1>2, <3>1, <3>2, <3>3, <3>4
  <2>4. /\ socks'[srv'[key].sock].open /\ socks'[srv'[key].sock].owner = key
        /\ srv'[key].sock # 0 /\ ~socks'[srv'[key].sock].watched
        /\ socks'[srv'[key].sock].peer = None
    BY <1>0, <1>1, <1>2, <1>4, <1>5
  <2>5. srv'[key].evio # 0 => socks'[srv'[key].evio].owner = key
    BY <1>2, <1>3, <1>4, <2>2 DEF Holding
  <2> QED BY <1>4, <2>1, <2>3, <2>4, <2>5 DEF Holding
<1>9. Watching'
  <2>1. \A d \in Client : Repeated(d) => Repeated(d)'
    BY <1>6, KeepsRepeated
  <2>2. \A d \in Client : srv'[d].evio = srv[d].evio
    BY <1>4
  <2>3. ASSUME NEW t \in SockId, socks'[t].watched
        PROVE  /\ t # s /\ socks[t].watched /\ socks[t].open
               /\ socks'[t].open /\ socks'[t].owner = socks[t].owner
    BY <1>2, <1>5, <2>3, Zenon DEF Watching
  <2>4. ASSUME NEW t \in SockId, socks'[t].watched, NEW d \in Client, socks'[t].owner = d
        PROVE  srv'[d].evio = t \/ Repeated(d)'
    <3>1. socks[t].watched /\ socks[t].owner = d
      BY <2>3, <2>4
    <3>2. srv[d].evio = t \/ Repeated(d)
      BY <3>1, Zenon DEF Watching
    <3> QED BY <2>1, <2>2, <3>2
  <2> QED BY <2>3, <2>4 DEF Watching
<1> QED BY <1>6, <1>7, <1>8, <1>9

(***************************************************************************)
(* connect_client_udp connects it and watches it.  A watched socket that   *)
(* the structure had before is left behind: the client is a repeated one.  *)
(***************************************************************************)
LEMMA ConnectStep ==
  ASSUME Types, Backdrop, Holding, Watching, pc \in Binding, pc' = Idle,
         NEW key, NEW addr, pc.key = key, pc.addr = addr,
         NEW s, s = srv[key].sock, Joined(socks, socks', s, addr),
         \A d \in Client : d # key => srv'[d] = srv[d],
         srv'[key].sock = s, srv'[key].evio = s, srv'[key].mem = srv[key].mem
  PROVE  /\ SocksKept /\ Backdrop' /\ Holding' /\ Watching'
         /\ Linked(key, addr)'
<1>0. Main \in SockId /\ 0 \notin SockId
  BY SockIds
<1>1. key \in Client /\ addr \in Client /\ pc # Idle
  BY DEF Binding, Idle
<1>2. /\ s \in SockId /\ socks[s].open /\ socks[s].owner = key /\ ~socks[s].watched
      /\ socks[s].peer = None /\ srv[key].mem = "live"
  BY <1>1 DEF Holding, Binds, Types, SrvRec
<1>3. \A t \in SockId : /\ socks'[t].open <=> socks[t].open
                        /\ socks'[t].watched <=> socks[t].watched \/ t = s
                        /\ socks'[t].owner = socks[t].owner
                        /\ t = s => socks'[t].peer = addr
                        /\ t # s => socks'[t].peer = socks[t].peer
  BY DEF Joined
<1>4. \A d \in Client : srv[d].sock \in SockId \cup {0} /\ srv[d].evio \in SockId \cup {0}
  BY DEF Types, SrvRec
<1>5. /\ \A d \in Client : d # key => srv'[d] = srv[d]
      /\ srv'[key].sock = s /\ srv'[key].evio = s /\ srv'[key].mem = "live"
  BY <1>2
<1>6. SocksKept
  BY <1>2, <1>3 DEF SocksKept
<1>7. Backdrop'
  <2>1. socks'[Main].open /\ socks'[Main].owner = None
    BY <1>0, <1>3, Zenon DEF Backdrop
  <2>2. ASSUME NEW t \in SockId, socks'[t].owner = None
        PROVE  t # s /\ socks[t].owner = None
    BY <1>1, <1>2, <1>3, <2>2, NoneAssumption
  <2>3. ASSUME NEW t \in SockId, t # Main, socks'[t].owner = None
        PROVE  ~socks'[t].open /\ ~socks'[t].watched
    BY <1>3, <2>2, <2>3, Zenon DEF Backdrop
  <2>4. ASSUME NEW t \in SockId, socks'[t].owner = None PROVE socks'[t].peer = None
    BY <1>3, <2>2, <2>4, ZenonT(30) DEF Backdrop
  <2> QED BY <2>1, <2>3, <2>4 DEF Backdrop
<1>8. Holding'
  <2>1. \A d \in Client : /\ ~Binds(d)'
                          /\ d # key => ~Binds(d)
    BY <1>1 DEF Binds
  <2>2. ASSUME NEW d \in Client, d # key
        PROVE  /\ srv'[d].sock # 0 => socks'[srv'[d].sock].open /\ socks'[srv'[d].sock].owner = d
               /\ srv'[d].evio # 0 => socks'[srv'[d].evio].owner = d
               /\ srv'[d].sock # 0 \/ srv'[d].evio # 0 => srv'[d].mem = "live"
               /\ srv'[d].sock = srv'[d].evio
               /\ srv'[d].sock # 0 => socks'[srv'[d].sock].peer \in Client
    <3>1. srv'[d] = srv[d]
      BY <1>5, <2>2
    <3>2. /\ srv[d].sock # 0 => /\ socks[srv[d].sock].open /\ socks[srv[d].sock].owner = d
                                /\ socks[srv[d].sock].peer \in Client
          /\ srv[d].evio # 0 => socks[srv[d].evio].owner = d
          /\ srv[d].sock # 0 \/ srv[d].evio # 0 => srv[d].mem = "live"
          /\ srv[d].sock = srv[d].evio
      BY <2>1, <2>2 DEF Holding
    <3>3. srv[d].sock # 0 => srv[d].sock \in SockId /\ srv[d].sock # s
      BY <1>2, <1>4, <2>2, <3>2
    <3> QED BY <1>3, <3>1, <3>2, <3>3
  <2>3. /\ socks'[s].open /\ socks'[s].owner = key /\ socks'[s].peer \in Client
    BY <1>1, <1>2, <1>3
  <2> QED BY <1>5, <2>1, <2>2, <2>3 DEF Holding
<1>9. Watching'
  <2>1. \A d \in Client : Repeated(d) => Repeated(d)'
    BY <1>6, KeepsRepeated
  <2>2. ASSUME NEW t \in SockId, socks'[t].watched PROVE socks'[t].open
    BY <1>2, <1>3, <2>2 DEF Watching
  <2>3. ASSUME NEW t \in SockId, socks'[t].watched, NEW d \in Client, socks'[t].owner = d
        PROVE  srv'[d].evio = t \/ Repeated(d)'
    <3>1. CASE t = s
      BY <1>2, <1>3, <1>5, <2>3, <3>1
    <3>2. CASE t # s /\ d = key
      <4>1. socks[t].owner = key
        BY <1>3, <2>3, <3>2
      <4>2. Repeated(key)
        BY <1>2, <3>2, <4>1, TwoSockets
      <4> QED BY <1>1, <2>1, <3>2, <4>2
    <3>3. CASE t # s /\ d # key
      <4>1. socks[t].watched /\ socks[t].owner = d
        BY <1>3, <2>3, <3>3
      <4> QED BY <1>5, <2>1, <3>3, <4>1 DEF Watching
    <3> QED BY <3>1, <3>2, <3>3
  <2> QED BY <2>2, <2>3 DEF Watching
<1>10. Linked(key, addr)'
  <2>1. socks'[s].owner = key /\ socks'[s].peer = addr
    BY <1>2, <1>3
  <2> QED BY <1>2, <2>1 DEF Linked
<1> QED BY <1>6, <1>7, <1>8, <1>9, <1>10

(***************************************************************************)
(* What the server reads comes from a queue, and what it leaves there too. *)
(***************************************************************************)
LEMMA TailQueue ==
  ASSUME NEW q \in Seq(Datagram), q # <<>>
  PROVE  /\ Tail(q) \in Seq(Datagram) /\ Head(q) \in Datagram
         /\ \E j \in DOMAIN q : q[j] = Head(q)
         /\ \A d : (\E i \in DOMAIN Tail(q) : Tail(q)[i] = d) => \E j \in DOMAIN q : q[j] = d
<1>1. Len(q) \in Nat /\ Len(q) >= 1 /\ DOMAIN q = 1..Len(q)
  OBVIOUS
<1>2. Tail(q) \in Seq(Datagram) /\ Len(Tail(q)) = Len(q) - 1 /\ DOMAIN Tail(q) = 1..(Len(q) - 1)
  BY <1>1
<1>3. ASSUME NEW i \in DOMAIN Tail(q) PROVE i + 1 \in DOMAIN q /\ Tail(q)[i] = q[i + 1]
  <2>1. i \in 1..(Len(q) - 1) /\ i + 1 \in DOMAIN q
    BY <1>1, <1>2
  <2>2. Tail(q)[i] = q[i + 1]
    BY <1>2, <2>1
  <2> QED BY <2>1, <2>2
<1>4. Head(q) = q[1] /\ 1 \in DOMAIN q
  BY <1>1
<1>5. q[1] \in Datagram
  BY <1>4
<1> QED BY <1>2, <1>3, <1>4, <1>5

(***************************************************************************)
(* What arrives goes to the end of a queue.                                *)
(***************************************************************************)
LEMMA AppendQueue ==
  ASSUME NEW q \in Seq(Datagram), NEW e \in Datagram
  PROVE  /\ Append(q, e) \in Seq(Datagram)
         /\ \A d : (\E i \in DOMAIN Append(q, e) : Append(q, e)[i] = d)
                     => d = e \/ \E j \in DOMAIN q : q[j] = d
<1>1. Len(q) \in Nat /\ DOMAIN q = 1..Len(q)
  OBVIOUS
<1>2. Append(q, e) \in Seq(Datagram) /\ DOMAIN Append(q, e) = 1..(Len(q) + 1)
  BY <1>1
<1>3. ASSUME NEW i \in DOMAIN Append(q, e)
      PROVE  Append(q, e)[i] = e \/ (i \in DOMAIN q /\ Append(q, e)[i] = q[i])
  <2>1. CASE i = Len(q) + 1
    BY <1>1, <2>1
  <2>2. CASE i # Len(q) + 1
    <3>1. i \in DOMAIN q
      BY <1>1, <1>2, <2>2
    <3>2. Append(q, e)[i] = q[i]
      BY <1>1, <3>1
    <3> QED BY <3>1, <3>2
  <2> QED BY <2>1, <2>2
<1> QED BY <1>2, <1>3

(***************************************************************************)
(* Traffic and Hashed follow from what a step adds to each.                *)
(***************************************************************************)
LEMMA TrafficStep ==
  ASSUME Types, Types', Traffic, SocksKept, ClientsKept,
         \A d \in net' : d \in net \/ (IF d.to = None THEN FromClient(d)' ELSE FromServer(d)'),
         \A s \in SockId, d \in Datagram :
           Queued(s, d)' => Queued(s, d) \/ (d \in net /\ d.to = None),
         \A c \in Client :
           srv'[c].evt => srv[c].evt \/ (cli'[c] \in {"READY", "GONE"} /\ Linked(c, c)')
  PROVE  Traffic'
<1>1. \A d \in Datagram : (FromClient(d) => FromClient(d)') /\ (FromServer(d) => FromServer(d)')
  BY Kept
<1>2. ASSUME NEW d \in net' PROVE IF d.to = None THEN FromClient(d)' ELSE FromServer(d)'
  <2>1. CASE d \in net
    <3>1. d \in Datagram
      BY <2>1 DEF Types
    <3> QED BY <1>1, <2>1, <3>1 DEF Traffic
  <2> QED BY <2>1
<1>3. ASSUME NEW s \in SockId, NEW d \in Datagram, Queued(s, d)' PROVE FromClient(d)'
  <2>1. FromClient(d)
    BY <1>3 DEF Traffic
  <2> QED BY <1>1, <2>1
<1>4. ASSUME NEW c \in Client, srv'[c].evt PROVE cli'[c] \in {"READY", "GONE"} /\ Linked(c, c)'
  <2>1. CASE srv[c].evt
    <3>1. cli[c] \in {"READY", "GONE"} /\ Linked(c, c)
      BY <2>1 DEF Traffic
    <3> QED BY <3>1, Kept DEF ClientsKept
  <2> QED BY <1>4, <2>1
<1> QED BY <1>2, <1>3, <1>4 DEF Traffic

(***************************************************************************)
(* Steps of the network and of the clients do nothing to the server.       *)
(***************************************************************************)
LEMMA OutsideStep ==
  ASSUME IInv, Types', UNCHANGED server, ClientsKept,
         \A c \in Client : cli'[c] = "NEW" => cli[c] = "NEW",
         \A d \in net' : d \in net \/ (IF d.to = None THEN FromClient(d)' ELSE FromServer(d)')
  PROVE  IInv'
<1>1. /\ srv' = srv /\ hash' = hash /\ socks' = socks /\ pc' = pc /\ got' = got
      /\ broken' = broken
  BY DEF server
<1>2. Types /\ Backdrop /\ Holding /\ Watching /\ Hashed /\ Traffic /\ SameConv
  BY DEF IInv
<1>3. SocksKept
  BY <1>1 DEF SocksKept
<1>4. Backdrop'
  BY <1>1, <1>2 DEF Backdrop
<1>5. Holding'
  BY <1>1, <1>2 DEF Holding, Binds
<1>6. Watching'
  <2>1. \A c \in Client : Repeated(c) => Repeated(c)'
    BY <1>3, KeepsRepeated
  <2> QED BY <1>1, <1>2, <2>1 DEF Watching
<1>7. Hashed'
  <2>1. \A c \in Client : Repeated(c) => Repeated(c)'
    BY <1>3, KeepsRepeated
  <2>2. hash \subseteq Client
    BY <1>2 DEF Types
  <2> QED BY <1>1, <1>2, <2>1, <2>2 DEF Hashed, ClientsKept
<1>8. Traffic'
  BY <1>1, <1>2, <1>3, TrafficStep DEF Queued
<1>9. SameConv'
  BY <1>1, <1>2 DEF SameConv
<1> QED BY <1>4, <1>5, <1>6, <1>7, <1>8, <1>9 DEF IInv

\* Types of what the clients and the network do.
LEMMA OutsideTypes ==
  ASSUME Types, UNCHANGED <<scn, server>>,
         cli' \in [Client -> {"NEW", "KEY", "SHAKING", "READY", "GONE", "REFUSED"}],
         net' \subseteq Datagram,
         losses' \in 0..scn.losses, dups' \in 0..scn.dups,
         sent' \in [Client -> 0..scn.sends]
  PROVE  Types'
  BY DEF Types, server

(***************************************************************************)
(* The bounds of a scenario are numbers.                                   *)
(***************************************************************************)
LEMMA ScenarioTypes ==
  ASSUME Types
  PROVE  scn.losses \in Nat /\ scn.dups \in Nat /\ scn.sends \in Nat
  BY ScenariosAssumption DEF Types, Scenario

(***************************************************************************)
(* Lose: a datagram is lost.                                               *)
(***************************************************************************)
LEMMA LoseStep ==
  ASSUME IInv, Lose
  PROVE  IInv'
<1>0. Types
  BY DEF IInv
<1>1. net' \subseteq net /\ UNCHANGED <<scn, cli, server, dups, sent>>
  BY DEF Lose
<1>2. losses' \in 0..scn.losses
  BY <1>0, ScenarioTypes DEF Lose, Types
<1>3. Types'
  BY <1>0, <1>1, <1>2, OutsideTypes DEF Types
<1>4. ClientsKept
  BY <1>1 DEF ClientsKept
<1> QED BY <1>1, <1>3, <1>4, OutsideStep

(***************************************************************************)
(* Duplicate: the copy says what the original says.                        *)
(***************************************************************************)
LEMMA DuplicateStep ==
  ASSUME IInv, Duplicate
  PROVE  IInv'
<1>0. Types
  BY DEF IInv
<1>1. UNCHANGED <<scn, cli, server, losses, sent>>
  BY DEF Duplicate
<1>2. dups' \in 0..scn.dups
  BY <1>0, ScenarioTypes DEF Duplicate, Types
<1>3. PICK d \in net : net' = With(net, d)
  BY DEF Duplicate
<1>4. d \in Datagram /\ net \in SUBSET Datagram
  BY <1>0 DEF Types
<1>5. /\ net' \subseteq Datagram
      /\ \A e \in net' : \/ e \in net
                         \/ e.type = d.type /\ e.key = d.key /\ e.from = d.from /\ e.to = d.to
  BY <1>3, <1>4, WithType
<1>6. Types'
  BY <1>0, <1>1, <1>2, <1>5, OutsideTypes DEF Types
<1>7. ClientsKept /\ SocksKept
  BY <1>1 DEF ClientsKept, SocksKept, server
<1>8. IF d.to = None THEN FromClient(d)' ELSE FromServer(d)'
  <2>1. IF d.to = None THEN FromClient(d) ELSE FromServer(d)
    BY DEF IInv, Traffic
  <2> QED BY <1>0, <1>4, <1>7, <2>1, Kept
<1>9. ASSUME NEW e \in net'
      PROVE  e \in net \/ (IF e.to = None THEN FromClient(e)' ELSE FromServer(e)')
  <2>1. CASE e.type = d.type /\ e.key = d.key /\ e.from = d.from /\ e.to = d.to
    BY <1>8, <2>1 DEF FromClient, FromServer
  <2> QED BY <1>5, <2>1
<1> QED BY <1>1, <1>6, <1>7, <1>9, OutsideStep

(***************************************************************************)
(* ClientHand1: the client has its key, and sends its own.                 *)
(***************************************************************************)
LEMMA ClientHand1Step ==
  ASSUME IInv, NEW c \in Client, ClientHand1(c)
  PROVE  IInv'
<1>0. Types
  BY DEF IInv
<1> DEFINE d == Dgram("HAND1", c, c, None)
<1>1. /\ cli[c] = "KEY" /\ UNCHANGED <<scn, server, losses, dups, sent>>
      /\ cli' = [cli EXCEPT ![c] = "SHAKING"] /\ net' = With(net, d)
  BY DEF ClientHand1
<1>2. /\ cli' \in [Client -> {"NEW", "KEY", "SHAKING", "READY", "GONE", "REFUSED"}]
      /\ cli'[c] = "SHAKING" /\ \A k \in Client : k # c => cli'[k] = cli[k]
  BY <1>0, <1>1 DEF Types
<1>3. /\ d \in Datagram /\ d.type = "HAND1" /\ d.key = c /\ d.from = c /\ d.to = None
  BY DgramType DEF Peer
<1> HIDE DEF d
<1>4. /\ net' \subseteq Datagram
      /\ \A e \in net' : \/ e \in net
                         \/ e.type = "HAND1" /\ e.key = c /\ e.from = c /\ e.to = None
  <2>1. net \in SUBSET Datagram
    BY <1>0 DEF Types
  <2> QED BY <1>1, <1>3, <2>1, WithType
<1>5. Types'
  BY <1>0, <1>1, <1>2, <1>4, OutsideTypes DEF Types
<1>6. ClientsKept
  BY <1>1, <1>2 DEF ClientsKept
<1>7. ASSUME NEW e \in net', e \notin net PROVE e.to = None /\ FromClient(e)'
  BY <1>2, <1>4, <1>7 DEF FromClient
<1> QED BY <1>1, <1>2, <1>5, <1>6, <1>7, OutsideStep

(***************************************************************************)
(* ClientKcp: only a client that holds KCP for valid sends KCP data.       *)
(***************************************************************************)
LEMMA ClientKcpStep ==
  ASSUME IInv, NEW c \in Client, ClientKcp(c)
  PROVE  IInv'
<1>0. Types
  BY DEF IInv
<1> DEFINE d == Dgram("KCP", c, c, None)
<1>1. /\ cli[c] = "READY" /\ UNCHANGED <<scn, cli, server, losses, dups>>
      /\ sent[c] < scn.sends
      /\ sent' = [sent EXCEPT ![c] = @ + 1] /\ net' = With(net, d)
  BY DEF ClientKcp, CliValid
<1>2. sent' \in [Client -> 0..scn.sends]
  <2>1. sent \in [Client -> 0..scn.sends] /\ scn.sends \in Nat
    BY <1>0, ScenarioTypes DEF Types
  <2>2. sent[c] + 1 \in 0..scn.sends
    BY <1>1, <2>1
  <2> QED BY <1>1, <2>1, <2>2
<1>3. /\ d \in Datagram /\ d.type = "KCP" /\ d.key = c /\ d.from = c /\ d.to = None
  BY DgramType DEF Peer
<1> HIDE DEF d
<1>4. /\ net' \subseteq Datagram
      /\ \A e \in net' : \/ e \in net
                         \/ e.type = "KCP" /\ e.key = c /\ e.from = c /\ e.to = None
  <2>1. net \in SUBSET Datagram
    BY <1>0 DEF Types
  <2> QED BY <1>1, <1>3, <2>1, WithType
<1>5. Types'
  BY <1>0, <1>1, <1>2, <1>4, OutsideTypes DEF Types
<1>6. ClientsKept
  BY <1>1 DEF ClientsKept
<1>7. ASSUME NEW e \in net', e \notin net PROVE e.to = None /\ FromClient(e)'
  BY <1>1, <1>4, <1>7 DEF FromClient
<1> QED BY <1>1, <1>5, <1>6, <1>7, OutsideStep

(***************************************************************************)
(* ClientQuit: what the client sent stays true of it when it is gone.      *)
(***************************************************************************)
LEMMA ClientQuitStep ==
  ASSUME IInv, NEW c \in Client, ClientQuit(c)
  PROVE  IInv'
<1>0. Types
  BY DEF IInv
<1>1. /\ cli[c] \in {"KEY", "SHAKING", "READY"}
      /\ UNCHANGED <<scn, server, net, losses, dups, sent>>
      /\ cli' = [cli EXCEPT ![c] = "GONE"]
  BY DEF ClientQuit
<1>2. /\ cli' \in [Client -> {"NEW", "KEY", "SHAKING", "READY", "GONE", "REFUSED"}]
      /\ cli'[c] = "GONE" /\ \A k \in Client : k # c => cli'[k] = cli[k]
  BY <1>0, <1>1 DEF Types
<1>3. Types'
  BY <1>0, <1>1, <1>2, OutsideTypes DEF Types
<1>4. ClientsKept
  BY <1>1, <1>2 DEF ClientsKept
<1> QED BY <1>1, <1>2, <1>3, <1>4, OutsideStep

(***************************************************************************)
(* ClientRead: SHAKE_HAND2 has the key of the client that accepts it and   *)
(* came to its address, so a socket of that client's structure is          *)
(* connected to it.                                                        *)
(***************************************************************************)
LEMMA ClientReadStep ==
  ASSUME IInv, NEW c \in Client, ClientRead(c)
  PROVE  IInv'
<1>0. Types
  BY DEF IInv
<1>1. PICK d \in net :
        /\ d.to = c
        /\ IF Hand2Accepted(c, d)
           THEN /\ cli' = [cli EXCEPT ![c] = "READY"]
                /\ net' = With(net \ {d}, Dgram("HAND2", d.key, c, None))
           ELSE net' = net \ {d} /\ cli' = cli
  BY DEF ClientRead
<1>2. UNCHANGED <<scn, server, losses, dups, sent>>
  BY DEF ClientRead
<1>3. CASE ~Hand2Accepted(c, d)
  <2>1. net' \subseteq net /\ cli' = cli
    BY <1>1, <1>3
  <2>2. Types'
    BY <1>0, <1>2, <2>1, OutsideTypes DEF Types
  <2>3. ClientsKept
    BY <2>1 DEF ClientsKept
  <2> QED BY <1>2, <2>1, <2>2, <2>3, OutsideStep
<1>4. CASE Hand2Accepted(c, d)
  <2> DEFINE e == Dgram("HAND2", d.key, c, None)
  <2>1. /\ cli[c] = "SHAKING" /\ d.key = c
        /\ cli' = [cli EXCEPT ![c] = "READY"]
        /\ net' = With(net \ {d}, e)
    BY <1>1, <1>4 DEF Hand2Accepted
  <2>2. /\ cli' \in [Client -> {"NEW", "KEY", "SHAKING", "READY", "GONE", "REFUSED"}]
        /\ cli'[c] = "READY" /\ \A k \in Client : k # c => cli'[k] = cli[k]
    BY <1>0, <2>1 DEF Types
  <2>3. e \in Datagram /\ e.type = "HAND2" /\ e.key = c /\ e.from = c /\ e.to = None
    BY <2>1, DgramType DEF Peer
  <2> HIDE DEF e
  <2>4. /\ net' \subseteq Datagram
        /\ \A f \in net' : \/ f \in net
                           \/ f.type = "HAND2" /\ f.key = c /\ f.from = c /\ f.to = None
    <3>1. net \ {d} \in SUBSET Datagram
      BY <1>0 DEF Types
    <3>2. PICK n : n = net \ {d}
      OBVIOUS
    <3>3. net' = With(n, e) /\ n \in SUBSET Datagram /\ n \subseteq net
      BY <2>1, <3>1, <3>2
    <3> QED BY <2>3, <3>3, WithType
  <2>5. Types'
    BY <1>0, <1>2, <2>2, <2>4, OutsideTypes DEF Types
  <2>6. ClientsKept /\ SocksKept
    BY <1>2, <2>1, <2>2 DEF ClientsKept, SocksKept, server
  <2>7. Linked(c, c)'
    <3>1. d.to # None
      BY <1>1, NoneAssumption
    <3>2. Linked(c, c)
      BY <1>1, <2>1, <3>1 DEF IInv, Traffic, FromServer
    <3> QED BY <1>0, <2>6, <3>2, Kept
  <2>8. ASSUME NEW f \in net', f \notin net PROVE f.to = None /\ FromClient(f)'
    BY <2>2, <2>4, <2>7, <2>8 DEF FromClient
  <2> QED BY <1>2, <2>2, <2>5, <2>6, <2>8, OutsideStep
<1> QED BY <1>3, <1>4

(***************************************************************************)
(* The server's steps: what they may do to the hash.                       *)
(***************************************************************************)
LEMMA HashedStep ==
  ASSUME Types, Hashed, SocksKept, cli' = cli, hash' = hash,
         \A c \in Client : srv'[c].mem = srv[c].mem,
         broken' => broken \/ \E c \in Client : cli[c] = "REFUSED" \/ Repeated(c)
  PROVE  Hashed'
<1>1. \A c \in Client : Repeated(c) => Repeated(c)'
  BY KeepsRepeated
<1>2. hash \subseteq Client
  BY DEF Types
<1>3. broken' => \E c \in Client : cli'[c] = "REFUSED" \/ Repeated(c)'
  BY <1>1 DEF Hashed
<1> QED BY <1>2, <1>3 DEF Hashed

(***************************************************************************)
(* Work on the hash goes wrong only when a client was refused.             *)
(***************************************************************************)
LEMMA HashOpBreaks ==
  ASSUME Types, Hashed, HashOp
  PROVE  broken' \in BOOLEAN /\ (broken' => \E c \in Client : cli[c] = "REFUSED")
  BY DEF HashOp, Dangling, Hashed, Types

(***************************************************************************)
(* Arrive: the kernel queues a datagram, on whatever socket.               *)
(***************************************************************************)
LEMMA ArriveStep ==
  ASSUME IInv, Arrive
  PROVE  IInv'
<1>0. Types /\ Backdrop /\ Holding /\ Watching /\ Hashed /\ Traffic /\ SameConv
  BY DEF IInv
<1>1. UNCHANGED <<scn, cli, srv, hash, pc, got, broken, losses, dups, sent>>
  BY DEF Arrive
<1>2. PICK d \in net : /\ d.to = None
                       /\ \E s \in Candidates(d.from) :
                            socks' = [socks EXCEPT ![s].queue = Append(@, d)]
                       /\ net' = net \ {d}
  BY DEF Arrive
<1>3. PICK s \in SockId : socks' = [socks EXCEPT ![s].queue = Append(@, d)]
  BY <1>2 DEF Candidates
<1>4. PICK q : q = Append(socks[s].queue, d)
  OBVIOUS
<1>5. /\ q \in Seq(Datagram)
      /\ \A e : (\E i \in DOMAIN q : q[i] = e)
                  => e = d \/ \E j \in DOMAIN socks[s].queue : socks[s].queue[j] = e
  <2>1. socks[s].queue \in Seq(Datagram) /\ d \in Datagram
    BY <1>0 DEF Types, Sock
  <2> QED BY <1>4, <2>1, AppendQueue
<1>6. socks' = Requeued(socks, s, q) /\ socks \in [SockId -> Sock]
  BY <1>0, <1>3, <1>4 DEF Types, Requeued
<1>7. /\ socks' \in [SockId -> Sock] /\ SameBut(socks, socks')
      /\ socks'[s].queue = q /\ \A t \in SockId : t # s => socks'[t].queue = socks[t].queue
  <2>1. q \in Seq(Datagram)
    BY <1>5
  <2>2. socks' \in [SockId -> Sock] /\ SameBut(socks, socks') /\ QueueIs(socks, socks', s, q)
    BY <1>6, <2>1, QueueView, Zenon
  <2> QED BY <2>2 DEF QueueIs
<1>8. Types'
  BY <1>0, <1>1, <1>2, <1>7 DEF Types
<1>9. SocksKept /\ Backdrop' /\ Holding' /\ Watching'
  BY <1>0, <1>1, <1>7, PlainStep
<1>10. ClientsKept
  BY <1>1 DEF ClientsKept
<1>11. Hashed'
  BY <1>0, <1>1, <1>9, HashedStep
<1>12. ASSUME NEW t \in SockId, NEW e \in Datagram, Queued(t, e)'
       PROVE  Queued(t, e) \/ (e \in net /\ e.to = None)
  <2>1. CASE t = s
    BY <1>2, <1>5, <1>7, <1>12, <2>1 DEF Queued
  <2>2. CASE t # s
    BY <1>7, <1>12, <2>2 DEF Queued
  <2> QED BY <2>1, <2>2
<1>13. Traffic'
  BY <1>0, <1>1, <1>2, <1>8, <1>9, <1>10, <1>12, TrafficStep
<1>14. SameConv'
  BY <1>0, <1>1 DEF SameConv
<1> QED BY <1>8, <1>9, <1>11, <1>13, <1>14 DEF IInv

(***************************************************************************)
(* TcpAccept: a new structure has no socket; if it is freed at once its    *)
(* client is refused.                                                      *)
(***************************************************************************)
LEMMA TcpAcceptStep ==
  ASSUME IInv, NEW c \in Client, TcpAccept(c)
  PROVE  IInv'
<1>0. Types /\ Backdrop /\ Holding /\ Watching /\ Hashed /\ Traffic /\ SameConv
  BY DEF IInv
<1>1. /\ UNCHANGED <<scn, socks, pc, net, got, losses, dups, sent>>
      /\ cli[c] = "NEW" /\ hash' = hash \cup {c} /\ HashOp
  BY DEF TcpAccept
<1>2. \E m, k :
        /\ (m = "live" /\ k = "KEY") \/ (m = "freed" /\ k = "REFUSED")
        /\ srv' = [srv EXCEPT ![c].mem = m] /\ cli' = [cli EXCEPT ![c] = k]
  <2>1. \/ srv' = [srv EXCEPT ![c].mem = "live"] /\ cli' = [cli EXCEPT ![c] = "KEY"]
        \/ srv' = [srv EXCEPT ![c].mem = "freed"] /\ cli' = [cli EXCEPT ![c] = "REFUSED"]
    BY DEF TcpAccept
  <2>2. CASE srv' = [srv EXCEPT ![c].mem = "live"] /\ cli' = [cli EXCEPT ![c] = "KEY"]
    <3> WITNESS "live", "KEY"
    <3> QED BY <2>2
  <2>3. CASE srv' = [srv EXCEPT ![c].mem = "freed"] /\ cli' = [cli EXCEPT ![c] = "REFUSED"]
    <3> WITNESS "freed", "REFUSED"
    <3> QED BY <2>3
  <2> QED BY <2>1, <2>2, <2>3
<1>. PICK m, k :
       /\ (m = "live" /\ k = "KEY") \/ (m = "freed" /\ k = "REFUSED")
       /\ srv' = [srv EXCEPT ![c].mem = m] /\ cli' = [cli EXCEPT ![c] = k]
  BY <1>2
<1>3. /\ cli' \in [Client -> {"NEW", "KEY", "SHAKING", "READY", "GONE", "REFUSED"}]
      /\ cli'[c] = k /\ \A e \in Client : e # c => cli'[e] = cli[e]
  BY <1>0 DEF Types
<1>4. /\ srv' \in [Client -> SrvRec]
      /\ srv'[c].mem = m /\ \A e \in Client : e # c => srv'[e] = srv[e]
      /\ srv'[c].sock = srv[c].sock /\ srv'[c].evio = srv[c].evio /\ srv'[c].evt = srv[c].evt
  BY <1>0 DEF Types, SrvRec
<1>5. broken' \in BOOLEAN /\ (broken' => \E e \in Client : cli[e] = "REFUSED")
  BY <1>0, <1>1, HashOpBreaks
<1>6. Types'
  BY <1>0, <1>1, <1>3, <1>4, <1>5 DEF Types
<1>7. srv[c].mem = "none"
  BY <1>0, <1>1 DEF Hashed
<1>8. SocksKept /\ Backdrop' /\ Holding' /\ Watching'
  <2>1. SameBut(socks, socks')
    BY <1>1 DEF SameBut
  <2>2. \A e \in Client : /\ srv'[e].sock = srv[e].sock /\ srv'[e].evio = srv[e].evio
                          /\ srv[e].mem = "live" => srv'[e].mem = "live"
    BY <1>4, <1>7
  <2> QED BY <1>0, <1>1, <2>1, <2>2, PlainStep
<1>9. ClientsKept
  BY <1>1, <1>2, <1>3 DEF ClientsKept
<1>10. Hashed'
  <2>1. \A e \in Client : cli'[e] = "NEW" => srv'[e].mem = "none"
    BY <1>0, <1>2, <1>3, <1>4 DEF Hashed
  <2>2. ASSUME NEW e \in hash'
        PROVE  srv'[e].mem # "none" /\ (srv'[e].mem = "freed" => cli'[e] = "REFUSED")
    <3>1. CASE e = c
      BY <1>2, <1>3, <1>4, <3>1
    <3>2. CASE e # c
      <4>1. e \in hash /\ e \in Client
        BY <1>0, <1>1, <3>2 DEF Types
      <4> QED BY <1>0, <1>3, <1>4, <3>2, <4>1 DEF Hashed
    <3> QED BY <3>1, <3>2
  <2>3. broken' => \E e \in Client : cli'[e] = "REFUSED"
    BY <1>5, <1>9 DEF ClientsKept
  <2> QED BY <2>1, <2>2, <2>3 DEF Hashed
<1>11. Traffic'
  <2>1. \A e \in Client : srv'[e].evt => srv[e].evt
    BY <1>4
  <2>2. \A t \in SockId, e \in Datagram : Queued(t, e)' => Queued(t, e)
    BY <1>1 DEF Queued
  <2> QED BY <1>0, <1>1, <1>6, <1>8, <1>9, <2>1, <2>2, TrafficStep
<1>12. SameConv'
  BY <1>0, <1>1 DEF SameConv
<1> QED BY <1>6, <1>8, <1>10, <1>11, <1>12 DEF IInv

(***************************************************************************)
(* What KcpevUdp_destroy leaves of a structure.                            *)
(***************************************************************************)
LEMMA NoUdpView ==
  ASSUME NEW r \in SrvRec
  PROVE  /\ NoUdp(r) \in SrvRec /\ NoUdp(r).sock = 0 /\ NoUdp(r).evio = 0
         /\ NoUdp(r).mem = r.mem /\ ~NoUdp(r).evt
         /\ [NoUdp(r) EXCEPT !.mem = "freed"] \in SrvRec
         /\ [NoUdp(r) EXCEPT !.mem = "freed"].sock = 0
         /\ [NoUdp(r) EXCEPT !.mem = "freed"].evio = 0
         /\ [NoUdp(r) EXCEPT !.mem = "freed"].mem = "freed"
         /\ ~[NoUdp(r) EXCEPT !.mem = "freed"].evt
  BY DEF NoUdp, SrvRec

(***************************************************************************)
(* CloseClient: the structure leaves the hash, its socket is closed and    *)
(* its watcher stopped, before it is freed.                                *)
(***************************************************************************)
LEMMA CloseClientStep ==
  ASSUME IInv, NEW c \in Client, CloseClient(c)
  PROVE  IInv'
<1>0. Types /\ Backdrop /\ Holding /\ Watching /\ Hashed /\ Traffic /\ SameConv
  BY DEF IInv
<1>1. /\ UNCHANGED <<scn, cli, pc, net, got, losses, dups, sent>>
      /\ pc = Idle /\ cli[c] = "GONE" /\ srv[c].mem = "live"
      /\ hash' = hash \ {c} /\ HashOp
      /\ socks' = Closed(socks, srv[c].sock, srv[c].evio)
      /\ srv' = [srv EXCEPT ![c] = [NoUdp(@) EXCEPT !.mem = "freed"]]
  BY DEF CloseClient, Ready, Unhash
<1>2. /\ socks' \in [SockId -> Sock]
      /\ Released(socks, socks', srv[c].sock, srv[c].evio)
      /\ \A t \in SockId : socks'[t].queue = IF t = srv[c].sock THEN <<>> ELSE socks[t].queue
  <2>1. PICK s, w : s = srv[c].sock /\ w = srv[c].evio
    OBVIOUS
  <2>2. socks \in [SockId -> Sock] /\ socks' = Closed(socks, s, w)
    BY <1>0, <1>1, <2>1 DEF Types
  <2> QED BY <2>1, <2>2, ClosedView
<1>3. PICK r : r = [NoUdp(srv[c]) EXCEPT !.mem = "freed"]
  OBVIOUS
<1>4. r \in SrvRec /\ r.sock = 0 /\ r.evio = 0 /\ r.mem = "freed" /\ ~r.evt
  BY <1>0, <1>3, NoUdpView DEF Types
<1>5. srv' = [srv EXCEPT ![c] = r] /\ srv \in [Client -> SrvRec]
  BY <1>0, <1>1, <1>3 DEF Types
<1>6. srv' \in [Client -> SrvRec] /\ srv'[c] = r /\ \A e \in Client : e # c => srv'[e] = srv[e]
  BY <1>4, <1>5
<1>7. broken' \in BOOLEAN /\ (broken' => \E e \in Client : cli[e] = "REFUSED")
  BY <1>0, <1>1, HashOpBreaks
<1>8. Types'
  BY <1>0, <1>1, <1>2, <1>6, <1>7 DEF Types
<1>9. SocksKept /\ Backdrop' /\ Holding' /\ Watching'
  <2>1. pc' = Idle /\ srv'[c].sock = 0 /\ srv'[c].evio = 0
    BY <1>1, <1>4, <1>6
  <2> QED BY <1>0, <1>1, <1>2, <1>6, <2>1, ReleaseStep
<1>10. ClientsKept
  BY <1>1 DEF ClientsKept
<1>11. Hashed'
  <2>1. \A e \in Client : cli'[e] = "NEW" => srv'[e].mem = "none"
    BY <1>0, <1>1, <1>6 DEF Hashed
  <2>2. ASSUME NEW e \in hash'
        PROVE  srv'[e].mem # "none" /\ (srv'[e].mem = "freed" => cli'[e] = "REFUSED")
    <3>1. e \in hash /\ e # c /\ e \in Client
      BY <1>0, <1>1 DEF Types
    <3> QED BY <1>0, <1>1, <1>6, <3>1 DEF Hashed
  <2>3. broken' => \E e \in Client : cli'[e] = "REFUSED"
    BY <1>1, <1>7
  <2> QED BY <2>1, <2>2, <2>3 DEF Hashed
<1>12. Traffic'
  <2>1. \A e \in Client : srv'[e].evt => srv[e].evt
    BY <1>4, <1>6
  <2>2. ASSUME NEW t \in SockId, NEW e \in Datagram, Queued(t, e)' PROVE Queued(t, e)
    BY <1>2, <2>2 DEF Queued
  <2> QED BY <1>0, <1>1, <1>8, <1>9, <1>10, <2>1, <2>2, TrafficStep
<1>13. SameConv'
  BY <1>0, <1>1 DEF SameConv
<1> QED BY <1>8, <1>9, <1>11, <1>12, <1>13 DEF IInv

(***************************************************************************)
(* ConnectUdp, connect succeeds: SHAKE_HAND2 is sent when the socket is    *)
(* connected.                                                              *)
(***************************************************************************)
LEMMA ConnectSuccess ==
  ASSUME IInv, NEW key, NEW addr, NEW s, pc \in Binding,
         key = pc.key, addr = pc.addr, s = srv[key].sock, pc' = Idle,
         socks' = Connected(s),
         srv' = [srv EXCEPT ![key].evio = s, ![key].status = "SHAKING"],
         net' = With(net, Dgram("HAND2", key, None, addr)),
         UNCHANGED <<scn, cli, hash, got, broken, losses, dups, sent>>
  PROVE  IInv'
<1>0. Types /\ Backdrop /\ Holding /\ Watching /\ Hashed /\ Traffic /\ SameConv
  BY DEF IInv
<1>1. key \in Client /\ addr \in Client /\ pc # Idle
  BY DEF Binding, Idle
<1>2. s \in SockId
  BY <1>0, <1>1 DEF Holding, Binds, Types, SrvRec
<1>3. /\ socks' \in [SockId -> Sock] /\ Joined(socks, socks', s, addr)
      /\ \A t \in SockId : socks'[t].queue = socks[t].queue
  BY <1>0, <1>2, ConnectedView
<1>4. /\ srv' \in [Client -> SrvRec] /\ \A e \in Client : e # key => srv'[e] = srv[e]
      /\ srv'[key].sock = s /\ srv'[key].evio = s /\ srv'[key].mem = srv[key].mem
      /\ srv'[key].evt = srv[key].evt
  BY <1>0, <1>1, <1>2 DEF Types, SrvRec
<1> DEFINE d == Dgram("HAND2", key, None, addr)
<1>5. d \in Datagram /\ d.type = "HAND2" /\ d.key = key /\ d.from = None /\ d.to = addr
  <2>1. None \in Peer /\ addr \in Peer /\ "HAND2" \in {"HAND1", "HAND2", "KCP"}
    BY <1>1 DEF Peer
  <2> QED BY <1>1, <2>1 DEF Dgram, Datagram
<1>6. net' = With(net, d) /\ net \in SUBSET Datagram
  BY <1>0 DEF Types
<1> HIDE DEF d
<1>7. /\ net' \subseteq Datagram
      /\ \A e \in net' : \/ e \in net
                         \/ e.type = "HAND2" /\ e.key = key /\ e.from = None /\ e.to = addr
  BY <1>5, <1>6, WithType
<1>8. Types'
  BY <1>0, <1>3, <1>4, <1>7 DEF Types
<1>9. SocksKept /\ Backdrop' /\ Holding' /\ Watching' /\ Linked(key, addr)'
  BY <1>0, <1>3, <1>4, ConnectStep, ZenonT(30)
<1>10. ClientsKept
  BY DEF ClientsKept
<1>11. Hashed'
  <2>1. \A c \in Client : srv'[c].mem = srv[c].mem
    BY <1>4
  <2> QED BY <1>0, <1>9, <2>1, HashedStep
<1>12. ASSUME NEW e \in net', e \notin net PROVE e.to # None /\ FromServer(e)'
  BY <1>1, <1>7, <1>9, <1>12, NoneAssumption DEF FromServer
<1>13. Traffic'
  <2>1. \A c \in Client : srv'[c].evt => srv[c].evt
    BY <1>4
  <2>2. \A t \in SockId, e \in Datagram : Queued(t, e)' => Queued(t, e)
    BY <1>3 DEF Queued
  <2> QED BY <1>0, <1>8, <1>9, <1>10, <1>12, <2>1, <2>2, TrafficStep
<1>14. SameConv'
  BY <1>0 DEF SameConv
<1> QED BY <1>8, <1>9, <1>11, <1>13, <1>14 DEF IInv

\* What KcpevUdp_destroy leaves of the structures.
Destroyed(key) == [srv EXCEPT ![key] = NoUdp(@)]

(***************************************************************************)
(* KcpevUdp_destroy after a failure of connect_client_udp, s being the     *)
(* socket that is closed, if any.                                          *)
(***************************************************************************)
LEMMA DestroyStep ==
  ASSUME IInv, NEW key \in Client, NEW s \in {0, srv[key].sock}, NEW w, w = srv[key].evio,
         NEW sk, sk \in [SockId -> Sock], SameBut(socks, sk),
         \A t \in SockId, e \in Datagram :
           (\E i \in DOMAIN sk[t].queue : sk[t].queue[i] = e) => Queued(t, e),
         pc = Idle \/ pc.key = key, pc' = Idle,
         socks' = Closed(sk, s, w), srv' = Destroyed(key),
         UNCHANGED <<scn, cli, hash, net, got, losses, dups, sent>>,
         broken' \in BOOLEAN,
         broken' => broken \/ \E c \in Client : cli[c] = "REFUSED" \/ Repeated(c)
  PROVE  IInv'
<1>0. Types /\ Backdrop /\ Holding /\ Watching /\ Hashed /\ Traffic /\ SameConv
  BY DEF IInv
<1>1. /\ socks' \in [SockId -> Sock] /\ Released(sk, socks', s, w)
      /\ \A t \in SockId : socks'[t].queue = IF t = s THEN <<>> ELSE sk[t].queue
  BY ClosedView
<1>2. Released(socks, socks', s, w)
  BY <1>1 DEF Released, SameBut
<1>3. PICK r : r = NoUdp(srv[key])
  OBVIOUS
<1>4. r \in SrvRec /\ r.sock = 0 /\ r.evio = 0 /\ r.mem = srv[key].mem /\ ~r.evt
  BY <1>0, <1>3, NoUdpView DEF Types
<1>5. srv' = [srv EXCEPT ![key] = r] /\ srv \in [Client -> SrvRec]
  BY <1>0, <1>3 DEF Types, Destroyed
<1>6. srv' \in [Client -> SrvRec] /\ srv'[key] = r /\ \A e \in Client : e # key => srv'[e] = srv[e]
  BY <1>4, <1>5
<1>7. Types'
  BY <1>0, <1>1, <1>6 DEF Types
<1>8. SocksKept /\ Backdrop' /\ Holding' /\ Watching'
  <2>1. srv'[key].sock = 0 /\ srv'[key].evio = 0
    BY <1>4, <1>6
  <2> QED BY <1>0, <1>2, <1>6, <2>1, ReleaseStep
<1>9. ClientsKept
  BY DEF ClientsKept
<1>10. Hashed'
  <2>1. \A c \in Client : srv'[c].mem = srv[c].mem
    BY <1>4, <1>6
  <2> QED BY <1>0, <1>8, <2>1, HashedStep
<1>11. Traffic'
  <2>1. \A e \in Client : srv'[e].evt => srv[e].evt
    BY <1>4, <1>6
  <2>2. ASSUME NEW t \in SockId, NEW e \in Datagram, Queued(t, e)' PROVE Queued(t, e)
    <3>1. PICK i \in DOMAIN socks'[t].queue : socks'[t].queue[i] = e
      BY <2>2 DEF Queued
    <3>2. socks'[t].queue = sk[t].queue
      BY <1>1, <3>1
    <3> QED BY <3>1, <3>2
  <2> QED BY <1>0, <1>7, <1>8, <1>9, <2>1, <2>2, TrafficStep
<1>12. SameConv'
  BY <1>0 DEF SameConv
<1> QED BY <1>7, <1>8, <1>10, <1>11, <1>12 DEF IInv

(***************************************************************************)
(* ConnectUdp: connect succeeds or fails.                                  *)
(***************************************************************************)
LEMMA ConnectUdpStep ==
  ASSUME IInv, ConnectUdp
  PROVE  IInv'
<1>0. Types
  BY DEF IInv
<1>1. pc \in Binding /\ pc' = Idle
  BY <1>0 DEF ConnectUdp, Types
<1>2. PICK key, addr, s : key = pc.key /\ addr = pc.addr /\ s = srv[key].sock
  OBVIOUS
<1>3. CASE /\ socks' = Connected(s)
           /\ srv' = [srv EXCEPT ![key].evio = s, ![key].status = "SHAKING"]
           /\ net' = With(net, Dgram("HAND2", key, None, addr))
  BY <1>1, <1>2, <1>3, ConnectSuccess DEF ConnectUdp
<1>4. CASE /\ socks' = Closed(socks, s, srv[key].evio)
           /\ srv' = [srv EXCEPT ![key] = NoUdp(@)]
           /\ net' = net
  <2>1. key \in Client /\ socks \in [SockId -> Sock] /\ broken \in BOOLEAN
    BY <1>0, <1>1, <1>2 DEF Types, Binding
  <2>2. /\ SameBut(socks, socks)
        /\ \A t \in SockId, e \in Datagram :
             (\E i \in DOMAIN socks[t].queue : socks[t].queue[i] = e) => Queued(t, e)
    BY DEF SameBut, Queued
  <2>3. /\ UNCHANGED <<scn, cli, hash, net, got, broken, losses, dups, sent>>
        /\ srv' = Destroyed(key)
    BY <1>4 DEF ConnectUdp, Destroyed
  <2> QED BY <1>1, <1>2, <1>4, <2>1, <2>2, <2>3, DestroyStep
<1> QED BY <1>2, <1>3, <1>4 DEF ConnectUdp

(***************************************************************************)
(* read is socks without a datagram that was at the head of a queue.       *)
(***************************************************************************)
Drained(read) ==
  /\ read \in [SockId -> Sock] /\ SameBut(socks, read)
  /\ \A t \in SockId, e \in Datagram :
       (\E i \in DOMAIN read[t].queue : read[t].queue[i] = e) => Queued(t, e)

\* What a reading step leaves alone, and what may go wrong in it.
Reading ==
  /\ UNCHANGED <<scn, cli, hash, net, losses, dups, sent>>
  /\ broken' \in BOOLEAN
  /\ broken' => broken \/ \E c \in Client : cli[c] = "REFUSED" \/ Repeated(c)

(***************************************************************************)
(* A datagram is read that opens and closes no socket: it is dropped, is   *)
(* KCP data, or completes the handshake of a client that is ready.         *)
(***************************************************************************)
LEMMA PlainRead ==
  ASSUME IInv, Reading, NEW read, Drained(read), socks' = read, pc' = pc,
         srv' \in [Client -> SrvRec],
         \A c \in Client : /\ srv'[c].sock = srv[c].sock /\ srv'[c].evio = srv[c].evio
                           /\ srv'[c].mem = srv[c].mem,
         \A c \in Client :
           srv'[c].evt => srv[c].evt \/ (cli[c] \in {"READY", "GONE"} /\ Linked(c, c)),
         got' \subseteq Client \X Client, SameConv'
  PROVE  IInv'
<1>0. Types /\ Backdrop /\ Holding /\ Watching /\ Hashed /\ Traffic
  BY DEF IInv
<1>1. /\ UNCHANGED <<scn, cli, hash, net, losses, dups, sent>> /\ broken' \in BOOLEAN
      /\ broken' => broken \/ \E c \in Client : cli[c] = "REFUSED" \/ Repeated(c)
  BY DEF Reading
<1>2. Types'
  BY <1>0, <1>1 DEF Types, Drained
<1>3. SocksKept /\ Backdrop' /\ Holding' /\ Watching'
  <2>1. SameBut(socks, socks')
    BY DEF Drained
  <2> QED BY <1>0, <2>1, PlainStep
<1>4. ClientsKept
  BY <1>1 DEF ClientsKept
<1>5. Hashed'
  BY <1>0, <1>1, <1>3, HashedStep
<1>6. Traffic'
  <2>1. \A t \in SockId, e \in Datagram : Queued(t, e)' => Queued(t, e)
    BY DEF Queued, Drained
  <2>2. \A c \in Client : Linked(c, c) => Linked(c, c)'
    BY <1>0, <1>3, <1>4, Kept
  <2>3. \A c \in Client :
          srv'[c].evt => srv[c].evt \/ (cli'[c] \in {"READY", "GONE"} /\ Linked(c, c)')
    BY <1>1, <2>2
  <2> QED BY <1>0, <1>1, <1>2, <1>3, <1>4, <2>1, <2>3, TrafficStep
<1> QED BY <1>2, <1>3, <1>5, <1>6 DEF IInv

(***************************************************************************)
(* A SHAKE_HAND1 is read and a new socket bound for its key.               *)
(***************************************************************************)
LEMMA BindRead ==
  ASSUME IInv, Reading, NEW read, Drained(read), pc = Idle,
         NEW key \in Client, srv[key].mem = "live", NEW s \in Unused,
         socks' = BoundTo(read, s, key),
         srv' \in [Client -> SrvRec], \A e \in Client : e # key => srv'[e] = srv[e],
         srv'[key].sock = s, srv'[key].evio = srv[key].evio, srv'[key].mem = srv[key].mem,
         srv'[key].evt = srv[key].evt,
         pc' \in Binding, pc'.key = key, got' = got
  PROVE  IInv'
<1>0. Types /\ Backdrop /\ Holding /\ Watching /\ Hashed /\ Traffic /\ SameConv
  BY DEF IInv
<1>1. /\ UNCHANGED <<scn, cli, hash, net, losses, dups, sent>> /\ broken' \in BOOLEAN
      /\ broken' => broken \/ \E c \in Client : cli[c] = "REFUSED" \/ Repeated(c)
  BY DEF Reading
<1>2. s \in SockId
  BY DEF Unused
<1>3. read \in [SockId -> Sock]
  BY DEF Drained
<1>4. socks' \in [SockId -> Sock] /\ Opened(read, socks', s, key) /\ SameQueues(read, socks')
  BY <1>2, <1>3, OpenedView, Zenon
<1>5. Opened(socks, socks', s, key)
  BY <1>4 DEF Opened, Drained, SameBut
<1>8. Types'
  BY <1>0, <1>1, <1>4 DEF Types
<1>9. SocksKept /\ Backdrop' /\ Holding' /\ Watching'
  BY <1>0, <1>2, <1>5, BindStep
<1>10. ClientsKept
  BY <1>1 DEF ClientsKept
<1>11. Hashed'
  <2>1. \A c \in Client : srv'[c].mem = srv[c].mem
    OBVIOUS
  <2> QED BY <1>0, <1>1, <1>9, <2>1, HashedStep
<1>12. Traffic'
  <2>1. \A t \in SockId, e \in Datagram : Queued(t, e)' => Queued(t, e)
    <3>1. \A t \in SockId : socks'[t].queue = read[t].queue
      BY <1>4 DEF SameQueues
    <3> QED BY <3>1 DEF Queued, Drained
  <2>2. \A c \in Client : srv'[c].evt => srv[c].evt
    OBVIOUS
  <2> QED BY <1>0, <1>1, <1>8, <1>9, <1>10, <2>1, <2>2, TrafficStep
<1>13. SameConv'
  BY <1>0 DEF SameConv
<1> QED BY <1>8, <1>9, <1>11, <1>12, <1>13 DEF IInv

(***************************************************************************)
(* on_server_recv: the key names a structure that was not freed.           *)
(***************************************************************************)
LEMMA OnServerRecvStep ==
  ASSUME IInv, pc = Idle, NEW client, NEW d \in Datagram, FromClient(d), NEW addr \in Client,
         NEW read, Drained(read), OnServerRecv(client, d, addr, read),
         broken = FALSE, got' = got,
         UNCHANGED <<scn, cli, hash, net, losses, dups, sent>>
  PROVE  IInv'
<1>0. Types /\ Backdrop /\ Holding /\ Watching /\ Hashed /\ Traffic /\ SameConv
  BY DEF IInv
<1>1. PICK key : key = d.key
  OBVIOUS
<1>2. /\ key \in Client /\ cli[key] \in {"SHAKING", "READY", "GONE"}
      /\ d.type = "HAND2" => cli[key] \in {"READY", "GONE"} /\ Linked(key, key)
      /\ key \in hash => srv[key].mem = "live"
  <2>1. /\ key \in Client /\ cli[key] \in {"SHAKING", "READY", "GONE"}
        /\ d.type = "HAND2" => cli[key] \in {"READY", "GONE"} /\ Linked(key, key)
    BY <1>1 DEF FromClient
  <2>2. ASSUME key \in hash PROVE srv[key].mem = "live"
    <3>1. srv[key].mem \in {"none", "live", "freed"}
      BY <1>0, <2>1 DEF Types, SrvRec
    <3> QED BY <1>0, <2>1, <2>2, <3>1 DEF Hashed
  <2> QED BY <2>1, <2>2
<1>3. Reading
  <2>1. CASE HashOp
    BY <1>0, <2>1, HashOpBreaks DEF Reading
  <2>2. CASE broken' = broken
    BY <1>0, <2>2 DEF Reading, Types
  <2> QED BY <2>1, <2>2 DEF OnServerRecv
<1>4. got' \subseteq Client \X Client /\ SameConv'
  BY <1>0 DEF Types, SameConv
<1>5. CASE d.type = "HAND1" /\ d.key \in hash /\ BindUdp(d.key, addr, read)
  <2>1. CASE /\ Unused # {}
             /\ LET s == CHOOSE u \in Unused : \A v \in Unused : u <= v
                IN  /\ socks' = [read EXCEPT ![s].open = TRUE, ![s].owner = key]
                    /\ srv' = [srv EXCEPT ![key].sock = s]
             /\ pc' = [at |-> "bound", key |-> key, addr |-> addr]
    <3>1. PICK s : s = CHOOSE u \in Unused : \A v \in Unused : u <= v
      OBVIOUS
    <3>2. s \in Unused /\ s \in SockId
      BY <2>1, <3>1, FirstUnused DEF Unused
    <3>3. /\ socks' = BoundTo(read, s, key)
          /\ srv' = [srv EXCEPT ![key].sock = s]
      BY <2>1, <3>1 DEF BoundTo
    <3>4. srv[key].mem = "live"
      BY <1>1, <1>2, <1>5
    <3>5. /\ srv' \in [Client -> SrvRec] /\ \A e \in Client : e # key => srv'[e] = srv[e]
          /\ srv'[key].sock = s /\ srv'[key].evio = srv[key].evio /\ srv'[key].mem = srv[key].mem
          /\ srv'[key].evt = srv[key].evt
      BY <1>0, <1>2, <3>2, <3>3 DEF Types, SrvRec
    <3>6. pc' \in Binding /\ pc'.key = key
      BY <1>2, <2>1 DEF Binding
    <3> QED BY <1>2, <1>3, <3>2, <3>3, <3>4, <3>5, <3>6, BindRead
  <2>2. ASSUME NEW s \in {0, srv[key].sock}, socks' = Closed(read, s, srv[key].evio),
               srv' = [srv EXCEPT ![key] = NoUdp(@)], pc' = pc
        PROVE  IInv'
    <3>1. PICK w : w = srv[key].evio
      OBVIOUS
    <3>2. /\ socks' = Closed(read, s, w) /\ pc' = Idle /\ srv' = Destroyed(key)
          /\ read \in [SockId -> Sock]
          /\ SameBut(socks, read)
          /\ \A t \in SockId, e \in Datagram :
               (\E i \in DOMAIN read[t].queue : read[t].queue[i] = e) => Queued(t, e)
      BY <2>2, <3>1 DEF Drained, Destroyed
    <3>3. /\ broken' \in BOOLEAN
          /\ broken' => broken \/ \E c \in Client : cli[c] = "REFUSED" \/ Repeated(c)
      BY <1>3 DEF Reading
    <3> QED BY <1>2, <2>2, <3>1, <3>2, <3>3, DestroyStep
  <2>3. CASE /\ \/ socks' = Closed(read, srv[key].sock, srv[key].evio)
                \/ socks' = Closed(read, 0, srv[key].evio)
             /\ srv' = [srv EXCEPT ![key] = NoUdp(@)]
             /\ pc' = pc
    BY <2>2, <2>3
  <2> QED BY <1>1, <1>5, <2>1, <2>3 DEF BindUdp
<1>6. CASE srv' = srv /\ socks' = read /\ pc' = pc
  BY <1>0, <1>3, <1>4, <1>6, PlainRead DEF Types
<1>7. CASE /\ d.type = "HAND2" /\ socks' = read /\ pc' = pc
           /\ srv' = [srv EXCEPT ![key].status = "READY", ![key].evt = TRUE]
  <2>1. /\ srv' \in [Client -> SrvRec] /\ \A c \in Client : c # key => srv'[c] = srv[c]
        /\ srv'[key].sock = srv[key].sock /\ srv'[key].evio = srv[key].evio
        /\ srv'[key].mem = srv[key].mem
    BY <1>0, <1>2, <1>7, ZenonT(30) DEF Types, SrvRec
  <2>2. /\ \A c \in Client : /\ srv'[c].sock = srv[c].sock /\ srv'[c].evio = srv[c].evio
                             /\ srv'[c].mem = srv[c].mem
        /\ \A c \in Client :
             srv'[c].evt => srv[c].evt \/ (cli[c] \in {"READY", "GONE"} /\ Linked(c, c))
    BY <1>2, <1>7, <2>1
  <2> QED BY <1>3, <1>4, <1>7, <2>1, <2>2, PlainRead
<1> QED BY <1>1, <1>5, <1>6, <1>7 DEF OnServerRecv

(***************************************************************************)
(* The server reads a datagram from a queue.                               *)
(***************************************************************************)
LEMMA ServerReadStep ==
  ASSUME IInv, NEW s \in SockId, ServerRead(s)
  PROVE  IInv'
<1>0. Types /\ Backdrop /\ Holding /\ Watching /\ Hashed /\ Traffic /\ SameConv
  BY DEF IInv
<1>1. /\ UNCHANGED <<scn, cli, hash, net, losses, dups, sent>> /\ pc = Idle /\ broken = FALSE
      /\ socks[s].watched /\ socks[s].queue # <<>>
  BY <1>0 DEF ServerRead, Ready, Types
<1>2. PICK d, read : d = Head(socks[s].queue) /\ read = [socks EXCEPT ![s].queue = Tail(@)]
  OBVIOUS
<1>3. IF s = Main THEN ReadMain(d, read) ELSE ReadClient(socks[s].owner, d, read)
  BY <1>2 DEF ServerRead
<1>4. PICK q, r : q = socks[s].queue /\ r = Tail(q)
  OBVIOUS
<1>5. /\ q \in Seq(Datagram) /\ r \in Seq(Datagram) /\ d \in Datagram
      /\ \E j \in DOMAIN q : q[j] = d
      /\ \A e : (\E i \in DOMAIN r : r[i] = e) => \E j \in DOMAIN q : q[j] = e
  <2>1. q \in Seq(Datagram) /\ q # <<>>
    BY <1>0, <1>1, <1>4 DEF Types, Sock
  <2> QED BY <1>2, <1>4, <2>1, TailQueue
<1>6. FromClient(d)
  <2>1. Queued(s, d)
    BY <1>4, <1>5 DEF Queued
  <2> QED BY <1>0, <1>5, <2>1 DEF Traffic
<1>7. Drained(read)
  <2>1. read = Requeued(socks, s, r) /\ socks \in [SockId -> Sock]
    BY <1>0, <1>2, <1>4 DEF Types, Requeued
  <2>2. r \in Seq(Datagram)
    BY <1>5
  <2>3. read \in [SockId -> Sock] /\ SameBut(socks, read) /\ QueueIs(socks, read, s, r)
    BY <2>1, <2>2, QueueView, Zenon
  <2>4. ASSUME NEW t \in SockId, NEW e \in Datagram, NEW i \in DOMAIN read[t].queue,
               read[t].queue[i] = e
        PROVE  Queued(t, e)
    <3>1. CASE t = s
      <4>1. read[t].queue = r
        BY <2>3, <3>1 DEF QueueIs
      <4>2. \E j \in DOMAIN q : q[j] = e
        BY <1>5, <2>4, <4>1
      <4> QED BY <1>4, <3>1, <4>2 DEF Queued
    <3>2. CASE t # s
      <4>1. read[t].queue = socks[t].queue
        BY <2>3, <3>2 DEF QueueIs
      <4> QED BY <2>4, <4>1 DEF Queued
    <3> QED BY <3>1, <3>2
  <2> QED BY <2>3, <2>4 DEF Drained
<1>8. ASSUME NEW client, NEW addr \in Client, OnServerRecv(client, d, addr, read), got' = got
      PROVE  IInv'
  BY <1>1, <1>5, <1>6, <1>7, <1>8, OnServerRecvStep
<1>9. ASSUME Reading, socks' = read, srv' = srv, pc' = pc,
             got' \subseteq Client \X Client, SameConv'
      PROVE  IInv'
  BY <1>0, <1>7, <1>9, PlainRead DEF Types
<1>10. CASE s = Main
  BY <1>3, <1>6, <1>8, <1>10 DEF ReadMain, FromClient
<1>11. CASE s # Main
  <2>1. PICK c : c = socks[s].owner
    OBVIOUS
  <2>2. c \in Client
    <3>1. c \in Client \cup {None}
      BY <1>0, <2>1 DEF Types, Sock, Peer
    <3> QED BY <1>0, <1>1, <1>11, <2>1, <3>1 DEF Backdrop
  <2>3. ReadClient(c, d, read)
    BY <1>3, <1>11, <2>1
  <2>4. CASE /\ srv[c].sock # 0 /\ got' = got
             /\ OnServerRecv(c, d, socks[srv[c].sock].peer, read)
    <3>1. socks[srv[c].sock].peer \in Client
      BY <1>0, <1>1, <2>2, <2>4 DEF Holding, Binds
    <3> QED BY <1>8, <2>4, <3>1
  <2>5. CASE socks' = read /\ UNCHANGED <<srv, pc, broken>>
             /\ (got' = got \/ (KcpAccepts(c, d) /\ got' = got \cup {<<c, d.from>>}))
    <3>1. Reading
      BY <1>0, <1>1, <2>5 DEF Reading, Types
    <3>2. got' \subseteq Client \X Client
      BY <1>0, <1>6, <2>2, <2>5 DEF Types, FromClient
    <3>3. SameConv'
      BY <1>0, <2>5 DEF SameConv, KcpAccepts
    <3> QED BY <1>9, <2>5, <3>1, <3>2, <3>3
  <2>6. CASE srv[c].mem = "freed" /\ broken' = TRUE /\ socks' = read /\ UNCHANGED <<srv, pc, got>>
    <3>1. Repeated(c)
      <4>1. srv[c].evio = s \/ Repeated(c)
        BY <1>0, <1>1, <2>1, <2>2 DEF Watching
      <4>2. srv[c].evio # s
        <5>1. s # 0
          BY SockIds
        <5> QED BY <1>0, <2>2, <2>6, <5>1 DEF Holding
      <4> QED BY <4>1, <4>2
    <3>2. Reading
      BY <1>1, <2>2, <2>6, <3>1 DEF Reading
    <3>3. got' \subseteq Client \X Client /\ SameConv'
      BY <1>0, <2>6 DEF Types, SameConv
    <3> QED BY <1>9, <2>6, <3>2, <3>3
  <2> QED BY <2>3, <2>4, <2>5, <2>6 DEF ReadClient
<1> QED BY <1>10, <1>11

-----------------------------------------------------------------------------
(***************************************************************************)
(* At the start there are no clients, no entries and no datagrams.         *)
(***************************************************************************)
LEMMA InitInv == Init => IInv
<1> SUFFICES ASSUME Init PROVE IInv
  OBVIOUS
<1>0. Main \in SockId /\ 0 \notin SockId
  BY SockIds
<1>1. <<>> \in Seq(Datagram)
  OBVIOUS
<1>2. \A s \in SockId :
        /\ socks[s] \in Sock
        /\ socks[s].open <=> s = Main
        /\ socks[s].watched <=> s = Main
        /\ socks[s].owner = None /\ socks[s].peer = None /\ socks[s].queue = <<>>
  <2> SUFFICES ASSUME NEW s \in SockId
               PROVE  /\ socks[s] \in Sock
                      /\ socks[s].open <=> s = Main
                      /\ socks[s].watched <=> s = Main
                      /\ socks[s].owner = None /\ socks[s].peer = None /\ socks[s].queue = <<>>
    OBVIOUS
  <2>1. PICK b \in BOOLEAN : b = (s = Main)
    OBVIOUS
  <2>2. socks[s] = [open |-> b, watched |-> b, owner |-> None, peer |-> None, queue |-> <<>>]
    BY <2>1 DEF Init
  <2>3. PICK q : q = <<>> /\ q \in Seq(Datagram)
    BY <1>1
  <2>4. socks[s] = [open |-> b, watched |-> b, owner |-> None, peer |-> None, queue |-> q]
    BY <2>2, <2>3
  <2>5. /\ socks[s] \in Sock /\ socks[s].open = b /\ socks[s].watched = b
        /\ socks[s].owner = None /\ socks[s].peer = None /\ socks[s].queue = q
    BY <2>3, <2>4 DEF Sock, Peer
  <2> QED BY <2>1, <2>3, <2>5
<1>3. Types
  <2>1. socks \in [SockId -> Sock]
    BY <1>2 DEF Init
  <2>2. scn.losses \in Nat /\ scn.dups \in Nat /\ scn.sends \in Nat
    BY ScenariosAssumption DEF Init, Scenario
  <2>3. srv \in [Client -> SrvRec]
    BY DEF Init, SrvRec
  <2>4. /\ losses \in 0..scn.losses /\ dups \in 0..scn.dups
        /\ sent \in [Client -> 0..scn.sends]
    BY <2>2 DEF Init
  <2>5. /\ scn \in Scenarios /\ hash \subseteq Client /\ pc = Idle /\ net \subseteq Datagram
        /\ got \subseteq Client \X Client /\ broken \in BOOLEAN
        /\ cli \in [Client -> {"NEW", "KEY", "SHAKING", "READY", "GONE", "REFUSED"}]
    BY DEF Init
  <2> QED BY <2>1, <2>3, <2>4, <2>5 DEF Types
<1>4. Backdrop
  BY <1>0, <1>2 DEF Backdrop
<1>5. Holding
  BY DEF Init, Holding, Binds
<1>6. Watching
  BY <1>2, NoneAssumption DEF Watching
<1>7. Hashed
  BY DEF Init, Hashed
<1>8. Traffic
  <2>1. \A s \in SockId, d \in Datagram : ~Queued(s, d)
    BY <1>2 DEF Queued
  <2> QED BY <2>1 DEF Init, Traffic
<1>9. SameConv
  BY DEF Init, SameConv
<1> QED BY <1>3, <1>4, <1>5, <1>6, <1>7, <1>8, <1>9 DEF IInv

(***************************************************************************)
(* A step that changes nothing.                                            *)
(***************************************************************************)
LEMMA StutterStep ==
  ASSUME IInv, UNCHANGED vars
  PROVE  IInv'
<1>1. /\ UNCHANGED <<scn, cli, net, losses, dups, sent>> /\ UNCHANGED server
  BY DEF vars
<1>2. Types'
  BY <1>1, OutsideTypes DEF IInv, Types
<1>3. ClientsKept
  BY <1>1 DEF ClientsKept
<1> QED BY <1>1, <1>2, <1>3, OutsideStep

(***************************************************************************)
(* The invariant is inductive: one lemma above for each action.            *)
(***************************************************************************)
LEMMA NextInv == IInv /\ [Next]_vars => IInv'
<1> SUFFICES ASSUME IInv, [Next]_vars PROVE IInv'
  OBVIOUS
<1>1. CASE Arrive \/ Lose \/ Duplicate
  BY <1>1, ArriveStep, LoseStep, DuplicateStep
<1>2. CASE ServerStep
  BY <1>2, ConnectUdpStep, ServerReadStep, TcpAcceptStep, CloseClientStep DEF ServerStep
<1>3. CASE \E c \in Client : ClientStep(c) \/ ClientKcp(c) \/ ClientQuit(c)
  BY <1>3, ClientHand1Step, ClientReadStep, ClientKcpStep, ClientQuitStep DEF ClientStep
<1>4. CASE UNCHANGED vars
  BY <1>4, StutterStep
<1> QED BY <1>1, <1>2, <1>3, <1>4 DEF Next

(***************************************************************************)
(* Every reachable state satisfies the invariant.                          *)
(***************************************************************************)
THEOREM Invariance == Spec => []IInv
  BY InitInv, NextInv, PTL DEF Spec

(***************************************************************************)
(* The invariant contains the types, and Watching their last conjunct.     *)
(***************************************************************************)
LEMMA IInvTypes == IInv => TypeOK
  BY DEF IInv, Types, Watching, TypeOK, SrvRec, Binding

(***************************************************************************)
(* A watched socket is the one its structure watches, which is then live.  *)
(***************************************************************************)
LEMMA IInvDangles == IInv => NothingDangles
<1> SUFFICES ASSUME IInv PROVE NothingDangles
  OBVIOUS
<1>0. Types /\ Holding /\ Watching /\ Hashed
  BY DEF IInv
<1>1. \A c \in hash : srv[c].mem = "freed" => cli[c] = "REFUSED"
  BY <1>0 DEF Hashed
<1>2. ASSUME NEW s \in SockId, socks[s].watched, socks[s].owner # None
      PROVE  srv[socks[s].owner].mem = "live" \/ Repeated(socks[s].owner)
  <2>1. PICK c : c = socks[s].owner
    OBVIOUS
  <2>2. c \in Client /\ s # 0
    BY <1>0, <1>2, <2>1, SockIds DEF Types, Sock, Peer
  <2>3. srv[c].evio = s \/ Repeated(c)
    BY <1>0, <1>2, <2>1, <2>2 DEF Watching
  <2>4. srv[c].mem = "live" \/ Repeated(c)
    BY <1>0, <2>2, <2>3 DEF Holding
  <2> QED BY <2>1, <2>4
<1>3. broken => \E c \in Client : cli[c] = "REFUSED" \/ Repeated(c)
  BY <1>0 DEF Hashed
<1> QED BY <1>1, <1>2, <1>3 DEF NothingDangles

(***************************************************************************)
(* A valid structure has a socket connected to its client; if it is not    *)
(* the current one there are two.                                          *)
(***************************************************************************)
LEMMA IInvPaired == IInv => ReadyIsPaired
<1> SUFFICES ASSUME IInv, NEW c \in Client, SrvValid(c)
             PROVE  /\ cli[c] \in {"READY", "GONE"}
                    /\ socks[srv[c].sock].peer = c \/ Repeated(c)
  BY DEF ReadyIsPaired
<1>1. srv[c].evt /\ srv[c].sock # 0
  BY DEF SrvValid
<1>2. srv[c].sock \in SockId /\ socks[srv[c].sock].owner = c
  BY <1>1 DEF IInv, Types, SrvRec, Holding
<1>3. cli[c] \in {"READY", "GONE"} /\ Linked(c, c)
  BY <1>1 DEF IInv, Traffic
<1>4. PICK t \in SockId : socks[t].owner = c /\ socks[t].peer = c
  BY <1>3 DEF Linked
<1>5. PICK s \in SockId : s = srv[c].sock
  BY <1>2
<1>6. s # t => Repeated(c)
  BY <1>2, <1>4, <1>5, TwoSockets
<1> QED BY <1>3, <1>4, <1>5, <1>6

(***************************************************************************)
(* The types, and no watcher of the server is left on a closed descriptor  *)
(* (KcpevSock_destroy), for every number of clients and sockets.           *)
(***************************************************************************)
THEOREM TypeCorrect == Spec => []TypeOK
  BY Invariance, IInvTypes, PTL

(***************************************************************************)
(* No watcher and no hash entry refers to a freed structure, except those  *)
(* of a refused client and of one whose SHAKE_HAND1 came twice; only       *)
(* through them can the server use freed memory (close_client,             *)
(* connect_client_udp, tcp_accept).                                        *)
(***************************************************************************)
THEOREM FreedIsUnreachable == Spec => []NothingDangles
  BY Invariance, IInvDangles, PTL

(***************************************************************************)
(* A client the server holds KCP for valid with has completed the          *)
(* handshake itself and is at the other end of its socket, unless its      *)
(* SHAKE_HAND1 came twice (on_server_recv, on_client_recv).                *)
(***************************************************************************)
THEOREM ValidIsPaired == Spec => []ReadyIsPaired
  BY Invariance, IInvPaired, PTL
=============================================================================
