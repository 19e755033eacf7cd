----------------------------- MODULE UdpDemux ------------------------------
(***************************************************************************)
(* Several clients of one server, and how the server tells their datagrams *)
(* apart (kcpev.c).  The server has a main UDP socket and, after a         *)
(* client's SHAKE_HAND1, one more for that client, bound to the same port  *)
(* (SO_REUSEPORT) and connected to the client's address.  The kernel gives *)
(* a datagram to a socket connected to its sender or, when there is none,  *)
(* to any unconnected one; between bind and connect the new socket is one, *)
(* and what is queued on it then stays there.                              *)
(*                                                                         *)
(* Clients stand for themselves, their addresses and their keys.  Session  *)
(* has one connection in full, with TCP data and heartbeats; here is what  *)
(* only several connections can do to each other.                          *)
(***************************************************************************)
EXTENDS Integers, Sequences, FiniteSets

CONSTANTS
  Client,
  Conv,         \* key.split_key.conv of each client's key: 8 of its 128 bits
  MaxSock,      \* bound: sockets the server opens for clients
  Scenarios     \* what may happen, see Scenario

FaultKinds == {"accept", "addr", "bind", "connect"}

\* A scenario: the clients there are and those of them whose process may end;
\* what may fail; as bounds, the datagrams lost, the handshake datagrams
\* duplicated and the KCP datagrams of each client.
Scenario == [clients : SUBSET Client, quits : SUBSET Client, faults : SUBSET FaultKinds,
             losses : Nat, dups : Nat, sends : Nat]

ASSUME ClientAssumption == IsFiniteSet(Client) /\ Conv \in [Client -> 0..255]
ASSUME MaxSockAssumption == MaxSock \in Nat \ {0}
ASSUME ScenariosAssumption == \A s \in Scenarios : s \in Scenario

VARIABLES
  scn,          \* the scenario of this behaviour
  cli,          \* the clients' processes and their udp.status
  srv,          \* the server's structures for the clients
  hash,         \* the clients with an entry in server->hash
  socks,        \* the server's UDP sockets
  pc,           \* the server within connect_client_udp, or Idle
  net,          \* datagrams under way
  got,          \* <<c, d>>: a KCP datagram of d was accepted as one of c
  broken,       \* the server has used a structure after it was freed
  losses, dups, sent

server == <<srv, hash, socks, pc, got, broken>>
vars == <<scn, cli, server, net, losses, dups, sent>>

May(fault) == fault \in scn.faults

\* The main socket, then those of the clients; 0 is no socket.
Main == 1
SockId == 1..(MaxSock + 1)
None == "none"

ASSUME NoneAssumption == None \notin Client

\* A datagram from a client to the server (to = None) or the other way round;
\* copy tells two equal ones apart.
Dgram(type, key, from, to) == [type |-> type, key |-> key, from |-> from, to |-> to, copy |-> 0]

With(n, d) == n \cup {IF d \in n THEN [d EXCEPT !.copy = 1] ELSE d}

Peer == Client \cup {None}
Datagram == [type : {"HAND1", "HAND2", "KCP"}, key : Client, from : Peer, to : Peer, copy : 0..1]

Idle == [at |-> "idle"]

\* Mutant: KCP data is taken as soon as there is a socket.
MutSrvValid(c) == srv[c].mem = "live" /\ srv[c].sock # 0

\* is_kcp_valid on each side.  The server's kcp exists as long as its socket.
SrvValid(c) ==
  srv[c].mem = "live" /\ srv[c].sock # 0 /\ srv[c].status = "READY" /\ srv[c].evt
CliValid(c) == cli[c] = "READY"

Unused == {s \in SockId \ {Main} : socks[s].owner = None}

-----------------------------------------------------------------------------
(* The kernel and the network.                                             *)

\* The sockets that may receive a datagram from c.
Candidates(c) ==
  LET connected   == {s \in SockId : socks[s].open /\ socks[s].peer = c}
      unconnected == {s \in SockId : socks[s].open /\ socks[s].peer = None}
  IN  IF connected # {} THEN connected ELSE unconnected

Arrive ==
  \E d \in net :
    /\ d.to = None
    /\ \E s \in Candidates(d.from) :
         socks' = [socks EXCEPT ![s].queue = Append(@, d)]
    /\ net' = net \ {d}
    /\ UNCHANGED <<scn, cli, srv, hash, pc, got, broken, losses, dups, sent>>

Lose ==
  \E d \in net :
    /\ losses < scn.losses
    /\ losses' = losses + 1
    /\ net' = net \ {d}
    /\ UNCHANGED <<scn, cli, server, dups, sent>>

\* (What a repeated KCP datagram does is Kcp.tla's part.)
Duplicate ==
  \E d \in net :
    /\ dups < scn.dups /\ d.copy = 0 /\ d.type # "KCP"
    /\ dups' = dups + 1
    /\ net' = With(net, d)
    /\ UNCHANGED <<scn, cli, server, losses, sent>>

-----------------------------------------------------------------------------
(* Clients.                                                                *)

\* on_client_recv, SHAKE_HAND1: the key has come over TCP and goes back over
\* UDP.
ClientHand1(c) ==
  /\ cli[c] = "KEY"
  /\ cli' = [cli EXCEPT ![c] = "SHAKING"]
  /\ net' = With(net, Dgram("HAND1", c, c, None))
  /\ UNCHANGED <<scn, server, losses, dups, sent>>

\* Mutant: the key is not compared.
MutHand2Accepted(c, d) == cli[c] = "SHAKING"

\* on_client_recv, SHAKE_HAND2: the checks of status and key.
Hand2Accepted(c, d) == cli[c] = "SHAKING" /\ d.key = c

\* client_udp_recv: a datagram that is not accepted is dropped.  A client that
\* holds KCP for valid gives it to ikcp_input, which drops a command.
ClientRead(c) ==
  \E d \in net :
    /\ d.to = c
    /\ IF Hand2Accepted(c, d)
       THEN /\ cli' = [cli EXCEPT ![c] = "READY"]
            /\ net' = With(net \ {d}, Dgram("HAND2", d.key, c, None))
       ELSE /\ net' = net \ {d}
            /\ cli' = cli
    /\ UNCHANGED <<scn, server, losses, dups, sent>>

\* ikcp_flush of a client that holds KCP for valid.
ClientKcp(c) ==
  /\ CliValid(c) /\ sent[c] < scn.sends
  /\ sent' = [sent EXCEPT ![c] = @ + 1]
  /\ net' = With(net, Dgram("KCP", c, c, None))
  /\ UNCHANGED <<scn, cli, server, losses, dups>>

\* The process ends, and its sockets with it.
ClientQuit(c) ==
  /\ c \in scn.quits /\ cli[c] \in {"KEY", "SHAKING", "READY"}
  /\ cli' = [cli EXCEPT ![c] = "GONE"]
  /\ UNCHANGED <<scn, server, net, losses, dups, sent>>

-----------------------------------------------------------------------------
(* The server.  Its handlers do not interleave with each other, but the    *)
(* kernel goes on between two system calls of connect_client_udp.          *)

Ready == pc = Idle /\ ~broken

\* The hash links its entries to each other: working on it while it has an
\* entry of a freed structure may go wrong.
Dangling == \E c \in hash : srv[c].mem = "freed"
HashOp == broken' \in {FALSE, Dangling}

\* tcp_accept: the structure enters the hash and the key is sent.  If that
\* fails the structure is freed, its entry stays, and the client, whose TCP
\* connection is closed, exits.
TcpAccept(c) ==
  /\ Ready /\ c \in scn.clients /\ cli[c] = "NEW"
  /\ hash' = hash \cup {c}
  /\ HashOp
  /\ \/ /\ srv' = [srv EXCEPT ![c].mem = "live"]
        /\ cli' = [cli EXCEPT ![c] = "KEY"]
     \/ /\ May("accept")
        /\ srv' = [srv EXCEPT ![c].mem = "freed"]
        /\ cli' = [cli EXCEPT ![c] = "REFUSED"]
  /\ UNCHANGED <<scn, socks, pc, net, got, losses, dups, sent>>

\* Mutant: the watcher is not stopped.
MutClosed(sk, s, w) ==
  [t \in SockId |-> [sk[t] EXCEPT !.open  = @ /\ t # s,
                                  !.queue = IF t = s THEN <<>> ELSE @]]

\* KcpevSock_destroy: close socket s, stop the watcher of socket w.
Closed(sk, s, w) ==
  [t \in SockId |-> [sk[t] EXCEPT !.open    = @ /\ t # s,
                                  !.queue   = IF t = s THEN <<>> ELSE @,
                                  !.watched = @ /\ t # w]]

\* KcpevUdp_destroy
NoUdp(r) == [r EXCEPT !.sock = 0, !.evio = 0, !.evt = FALSE]

\* Mutant: the entry stays in the hash.
MutUnhash(c) == hash

\* close_client, HASH_DEL
Unhash(c) == hash \ {c}

\* server_tcp_recv: the connection is closed, close_client.
CloseClient(c) ==
  /\ Ready /\ cli[c] = "GONE" /\ srv[c].mem = "live"
  /\ hash' = Unhash(c)
  /\ HashOp
  /\ socks' = Closed(socks, srv[c].sock, srv[c].evio)
  /\ srv' = [srv EXCEPT ![c] = [NoUdp(@) EXCEPT !.mem = "freed"]]
  /\ UNCHANGED <<scn, cli, pc, net, got, losses, dups, sent>>

\* connect_client_udp, first part: a new socket is bound and takes the place
\* of the old one, which stays open with its watcher.  If bind fails the old
\* socket stays open and is not watched any more; if getaddrinfo fails it is
\* closed.
BindUdp(key, addr, read) ==
  \/ /\ Unused # {}
     /\ LET s == CHOOSE u \in Unused : \A v \in Unused : u <= v
        IN  /\ socks' = [read EXCEPT ![s].open = TRUE, ![s].owner = key]
            /\ srv' = [srv EXCEPT ![key].sock = s]
     /\ pc' = [at |-> "bound", key |-> key, addr |-> addr]
  \/ /\ \/ May("addr") /\ socks' = Closed(read, srv[key].sock, srv[key].evio)
        \/ May("bind") /\ socks' = Closed(read, 0, srv[key].evio)
     /\ srv' = [srv EXCEPT ![key] = NoUdp(@)]
     /\ pc' = pc

\* connect, kcpev_set_ev
Connected(s) == [socks EXCEPT ![s].peer = pc.addr, ![s].watched = TRUE]

\* connect_client_udp, second part: connect, create the kcp, watch the socket;
\* then the rest of SHAKE_HAND1.  The timers of an earlier handshake stay.
ConnectUdp ==
  LET key == pc.key
      s   == srv[key].sock
  IN  /\ pc # Idle /\ pc' = Idle
      /\ \/ /\ socks' = Connected(s)
            /\ srv' = [srv EXCEPT ![key].evio = s, ![key].status = "SHAKING"]
            /\ net' = With(net, Dgram("HAND2", key, None, pc.addr))
         \/ /\ May("connect")
            /\ socks' = Closed(socks, s, srv[key].evio)
            /\ srv' = [srv EXCEPT ![key] = NoUdp(@)]
            /\ net' = net
      /\ UNCHANGED <<scn, cli, hash, got, broken, losses, dups, sent>>

\* Mutant: the key must be that of the client the watcher belongs to.
MutHand2Completes(client, key) ==
  client = key /\ srv[key].status = "SHAKING" /\ ~srv[key].evt

\* on_server_recv, SHAKE_HAND2: the check of status, and check_create_kcp_timer.
\* The client whose watcher was called does not matter, the key does.
Hand2Completes(client, key) == srv[key].status = "SHAKING" /\ ~srv[key].evt

\* on_server_recv for a datagram that a watcher of client (None for the main
\* socket) has read and that is said to come from addr; read is socks without
\* it.  The structure is found by the key; a KCP datagram is no command.
OnServerRecv(client, d, addr, read) ==
  \/ /\ d.type = "HAND1" /\ d.key \in hash
     /\ BindUdp(d.key, addr, read)
     /\ HashOp
  \/ /\ d.type = "HAND2" /\ d.key \in hash
     /\ srv' = IF Hand2Completes(client, d.key)
               THEN [srv EXCEPT ![d.key].status = "READY", ![d.key].evt = TRUE]
               ELSE srv
     /\ socks' = read /\ pc' = pc
     /\ HashOp
  \/ /\ d.type # "KCP" /\ d.key \notin hash
     /\ socks' = read
     /\ UNCHANGED <<srv, pc>>
     /\ HashOp
  \/ /\ d.type = "KCP"
     /\ socks' = read
     /\ UNCHANGED <<srv, pc, broken>>

\* ikcp_input: the datagram's conv is compared with the control block's.
KcpAccepts(c, d) == d.type = "KCP" /\ Conv[d.from] = Conv[c]

\* server_udp_recv_all
ReadMain(d, read) ==
  /\ OnServerRecv(None, d, d.from, read)
  /\ got' = got

\* server_udp_recv for a watcher of client c.  Until its KCP is valid the
\* datagram is a command, and is taken to come from the address the client's
\* socket is now connected to.
ReadClient(c, d, read) ==
  \/ /\ srv[c].mem = "live" /\ ~SrvValid(c) /\ srv[c].sock # 0
     /\ OnServerRecv(c, d, socks[srv[c].sock].peer, read)
     /\ got' = got
  \/ /\ srv[c].mem = "live" /\ ~SrvValid(c) /\ srv[c].sock = 0
     /\ socks' = read
     /\ UNCHANGED <<srv, pc, got, broken>>
  \/ /\ srv[c].mem = "live" /\ SrvValid(c)
     /\ got' = IF KcpAccepts(c, d) THEN got \cup {<<c, d.from>>} ELSE got
     /\ socks' = read
     /\ UNCHANGED <<srv, pc, broken>>
  \/ /\ srv[c].mem = "freed"
     /\ broken' = TRUE
     /\ socks' = read
     /\ UNCHANGED <<srv, pc, got>>

ServerRead(s) ==
  /\ Ready
  /\ socks[s].open /\ socks[s].watched /\ socks[s].queue # <<>>
  /\ LET d    == Head(socks[s].queue)
         read == [socks EXCEPT ![s].queue = Tail(@)]
     IN  IF s = Main THEN ReadMain(d, read) ELSE ReadClient(socks[s].owner, d, read)
  /\ UNCHANGED <<scn, cli, hash, net, losses, dups, sent>>

-----------------------------------------------------------------------------
Init ==
  /\ scn \in Scenarios
  /\ cli = [c \in Client |-> "NEW"]
  /\ srv = [c \in Client |-> [mem |-> "none", sock |-> 0, evio |-> 0,
                              status |-> "INVALID", evt |-> FALSE]]
  /\ hash = {}
  /\ socks = [s \in SockId |-> [open |-> s = Main, watched |-> s = Main,
                                owner |-> None, peer |-> None, queue |-> <<>>]]
  /\ pc = Idle /\ net = {} /\ got = {} /\ broken = FALSE
  /\ losses = 0 /\ dups = 0 /\ sent = [c \in Client |-> 0]

ServerStep ==
  \/ ConnectUdp
  \/ \E s \in SockId : ServerRead(s)
  \/ \E c \in Client : TcpAccept(c) \/ CloseClient(c)

ClientStep(c) == ClientHand1(c) \/ ClientRead(c)

Next ==
  \/ Arrive \/ Lose \/ Duplicate
  \/ ServerStep
  \/ \E c \in Client : ClientStep(c) \/ ClientKcp(c) \/ ClientQuit(c)

\* The event loops run while there is something to do, and the network
\* delivers what it does not lose.
Fairness ==
  /\ WF_vars(Arrive)
  /\ WF_vars(ServerStep)
  /\ \A c \in Client : WF_vars(ClientStep(c))

Spec == Init /\ [][Next]_vars /\ Fairness

-----------------------------------------------------------------------------
Sock ==
  [open : BOOLEAN, watched : BOOLEAN, owner : Peer, peer : Peer, queue : Seq(Datagram)]

\* The types, and no watcher of the server is left on a closed descriptor, which
\* libev forbids and the kernel may give to another socket (KcpevSock_destroy).
\* (On the client kcpev_connect leaves one, see Connect of Session.)
TypeOK ==
  /\ scn \in Scenarios
  /\ cli \in [Client -> {"NEW", "KEY", "SHAKING", "READY", "GONE", "REFUSED"}]
  /\ srv \in [Client -> [mem : {"none", "live", "freed"}, sock : SockId \cup {0},
                         evio : SockId \cup {0}, status : {"INVALID", "SHAKING", "READY"},
                         evt : BOOLEAN]]
  /\ hash \subseteq Client
  /\ socks \in [SockId -> Sock]
  /\ pc = Idle \/ pc \in [at : {"bound"}, key : Client, addr : Client]
  /\ net \subseteq Datagram
  /\ got \subseteq Client \X Client
  /\ broken \in BOOLEAN
  /\ losses \in 0..scn.losses /\ dups \in 0..scn.dups
  /\ sent \in [Client -> 0..scn.sends]
  /\ \A s \in SockId : socks[s].watched => socks[s].open

\* The server has bound more than one socket for c: a SHAKE_HAND1 of c came twice.
Repeated(c) == Cardinality({s \in SockId : socks[s].owner = c}) > 1

\* What the server can still reach after a structure has been freed: no
\* watcher and no hash entry refers to it, whichever clients disconnect and
\* whatever is queued for them, except after two failures: tcp_accept failing
\* after HASH_ADD, and a repeated SHAKE_HAND1 replacing a socket without
\* stopping its watcher (close_client, connect_client_udp, tcp_accept).
NothingDangles ==
  /\ \A c \in hash : srv[c].mem = "freed" => cli[c] = "REFUSED"
  /\ \A s \in SockId : (socks[s].watched /\ socks[s].owner # None)
                         => (srv[socks[s].owner].mem = "live" \/ Repeated(socks[s].owner))
  /\ broken => \E c \in Client : cli[c] = "REFUSED" \/ Repeated(c)

\* A socket of another client has been connected to the address of c: that
\* client's SHAKE_HAND1 was read from a socket of c.
Misled(c) == \E s \in SockId : socks[s].peer = c /\ socks[s].owner # c

\* The only thing that keeps the KCP data of clients with the same conv apart
\* is where and when it is read.  The server takes data of another client for
\* that of c only if their convs are the same and there are two sockets for
\* c: its SHAKE_HAND1 came twice, or it is Misled.  With one, everything the
\* kernel queued on it between bind and connect, whoever sent it, is read
\* before the SHAKE_HAND2 that makes KCP valid (connect_client_udp,
\* server_udp_recv, ikcp_input).
DataFromOwner ==
  \A p \in got : \/ p[1] = p[2]
                 \/ Conv[p[1]] = Conv[p[2]] /\ (Repeated(p[1]) \/ Misled(p[1]))

\* A client the server holds KCP for valid with has completed the handshake
\* itself and is at the other end of the client's socket, unless its
\* SHAKE_HAND1 came twice (on_server_recv, on_client_recv).
ReadyIsPaired ==
  \A c \in Client : SrvValid(c) =>
    /\ cli[c] \in {"READY", "GONE"}
    /\ socks[srv[c].sock].peer = c \/ Repeated(c)

Calm == scn.faults = {} /\ scn.quits = {} /\ scn.losses = 0 /\ scn.dups = 0

\* When nothing fails, a client whose socket is connected to its own address
\* completes the handshake, even when its datagrams arrive on a socket of
\* another client (on_server_recv finds the structure by the key).
HandshakeCompletes ==
  \A c \in Client :
    (Calm /\ \E s \in SockId : socks[s].owner = c /\ socks[s].peer = c)
      ~> (CliValid(c) /\ SrvValid(c))

\* tests/kcpev_package_test.cpp creates two clients, waits, and expects
\* is_kcp_valid of both: when nothing fails every client gets KCP.
EveryClientGetsKcp ==
  \A c \in Client : c \in scn.clients => <>(CliValid(c) /\ SrvValid(c))
=============================================================================
