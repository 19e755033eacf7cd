------------------------------ MODULE Session ------------------------------
(***************************************************************************)
(* One kcpev connection: the client and the server's structure for it,     *)
(* from accept to close (kcpev.c).  TCP carries the key and, until UDP is  *)
(* usable and again after it is not, the data; UDP carries the handshake   *)
(* and then KCP.  Each side decides for itself, with is_kcp_valid, whether *)
(* KCP is usable; heartbeats sent over KCP revoke that decision.           *)
(*                                                                         *)
(* TCP is a FIFO in each direction (TcpFraming).  KCP is a FIFO in each    *)
(* direction that moves only while the receiving side holds KCP for valid  *)
(* and the network lets UDP through (KcpLink): a side that does not, treats*)
(* the datagrams as commands and drops them.                               *)
(***************************************************************************)
EXTENDS Integers, Sequences

CONSTANTS
  Timeout,      \* KCPEV_HEARTBEAT_TIMEOUT in periods of the heartbeat timer
  KqCap,        \* bound on the messages waiting in a KCP direction
  Scenarios     \* what may happen around the two processes, see Scenario

FaultKinds ==
  {"udp_connect", "udp_send", "udp_addr", "udp_bind", "accept_send", "path", "quit"}

\* A scenario: the calls and things that may fail; as bounds, the handshake
\* datagrams lost and duplicated, the application's messages in each direction
\* and the messages waiting in KCP; and whether UDP is "fast", so that what is
\* not lost is delivered, and within a heartbeat period.
Scenario == [faults : SUBSET FaultKinds, losses : Nat, dups : Nat, sends : Nat,
             kq : 1..KqCap, udp : {"any", "fast"}]

ASSUME TimeoutAssumption == Timeout \in Nat \ {0}
ASSUME KqCapAssumption == KqCap \in Nat \ {0}
ASSUME ScenariosAssumption == \A s \in Scenarios : s \in Scenario

VARIABLES
  scn,          \* the scenario of this behaviour
  cli,          \* the client's Kcpev, with its process
  srv,          \* the server's Kcpev for this client, with its hash entry
  tcp,          \* tcp.c2s, tcp.s2c: packets on their way
  udp,          \* handshake datagrams: numbers of copies on their way, or
                \* queued at the server's main socket
  kq,           \* kq.c2s, kq.s2c: messages given to ikcp_send, not yet received
  path,         \* UDP gets through
  losses, dups, \* faults so far
  sent, rcvd    \* application messages: sent.c2s counts, rcvd.c2s lists

vars == <<scn, cli, srv, tcp, udp, kq, path, losses, dups, sent, rcvd>>

May(fault) == fault \in scn.faults

Fast == scn.udp = "fast"

Msg(type, val) == [type |-> type, val |-> val]

\* Heart stamps: enough for one that no message under way carries.
Stamps == 0..(2 * KqCap + 1)

\* udp.status UDP_INVALID is 0, what kcpev_create leaves; UDP_HEARTBEAT is
\* never assigned.
Status == {"INVALID", "SHAKING", "READY"}

\* is_kcp_valid.  The client's kcp exists from kcpev_create_client on, the
\* server's as long as its socket does.
CliValid == cli.sock /\ cli.status = "READY" /\ cli.evt
SrvValid == srv.sock /\ srv.status = "READY" /\ srv.evt

\* srv.kcp: "new" until it is valid for the first time, then "used"; "reset"
\* when a later handshake replaced it: the client's kcp is then ahead of it.
InSync == srv.kcp # "reset"

CliUp == cli.proc = "up"
SrvUp == srv.struct = "live"
SrvGone == srv.struct \in {"freed", "crashed"}

\* A heartbeat is queued unless the bound is reached: then it is not told from
\* those before it.
Beat(q, m) == IF Len(q) < scn.kq THEN Append(q, m) ELSE q

\* ev_now for udp.heart: a time that differs from every stamp under way.
FreshStamp ==
  LET used == {srv.heart} \union {kq.c2s[i].val : i \in DOMAIN kq.c2s}
                          \union {kq.s2c[i].val : i \in DOMAIN kq.s2c}
  IN  CHOOSE s \in Stamps : s \notin used

-----------------------------------------------------------------------------
(* Connecting and accepting.                                               *)

\* kcpev_connect: TCP is mandatory; if UDP cannot be connected its socket is
\* closed and the client goes on with TCP.  The socket's watcher stays active:
\* client_udp_recv on the closed descriptor fails and changes nothing.  (If
\* another file of the process gets that number it reads from it instead; the
\* rest of the process is not modelled.)
Connect ==
  /\ cli.proc = "init"
  /\ \E ok \in BOOLEAN :
       /\ ok \/ May("udp_connect")
       /\ cli' = [cli EXCEPT !.proc = "up", !.sock = ok]
  /\ UNCHANGED <<scn, srv, tcp, udp, kq, path, losses, dups, sent, rcvd>>

\* tcp_accept.  If the key cannot be sent the structure is freed, while its
\* entry stays in the hash.
TcpAccept ==
  /\ CliUp /\ srv.struct = "none"
  /\ \/ /\ srv' = [srv EXCEPT !.struct = "live", !.hash = TRUE]
        /\ tcp' = [tcp EXCEPT !.s2c = Append(@, Msg("HAND1", 0))]
     \/ /\ May("accept_send")
        /\ srv' = [srv EXCEPT !.struct = "freed", !.hash = TRUE]
        /\ tcp' = tcp
  /\ UNCHANGED <<scn, cli, udp, kq, path, losses, dups, sent, rcvd>>

-----------------------------------------------------------------------------
(* The client's handlers (on_client_recv).                                 *)

\* Mutant: the key is sent twice, to make up for a loss.
MutClientHand1 ==
  /\ IF cli.sock
     THEN /\ cli' = [cli EXCEPT !.status = "SHAKING"]
          /\ udp' = [udp EXCEPT !.hand1 = @ + 2]
     ELSE UNCHANGED <<cli, udp>>
  /\ rcvd' = rcvd

\* COMMAND_SHAKE_HAND1 over TCP: the key is remembered and sent back over
\* UDP.  A failing send is an error of client_tcp_recv, which ends the
\* process.
ClientHand1 ==
  /\ IF cli.sock
     THEN \/ /\ cli' = [cli EXCEPT !.status = "SHAKING"]
             /\ udp' = [udp EXCEPT !.hand1 = @ + 1]
          \/ /\ May("udp_send")
             /\ cli' = [cli EXCEPT !.proc = "dead"]
             /\ udp' = udp
     ELSE UNCHANGED <<cli, udp>>
  /\ rcvd' = rcvd

\* COMMAND_UDP_INVALID over TCP
ClientUdpInvalid ==
  /\ cli' = IF CliValid THEN [cli EXCEPT !.status = "INVALID"] ELSE cli
  /\ UNCHANGED <<udp, rcvd>>

ClientTcpRecv ==
  /\ CliUp /\ tcp.s2c # <<>>
  /\ tcp' = [tcp EXCEPT !.s2c = Tail(@)]
  /\ LET m == Head(tcp.s2c) IN
       \/ m.type = "HAND1" /\ ClientHand1
       \/ m.type = "UDP_INVALID" /\ ClientUdpInvalid
       \/ /\ m.type = "DATA"
          /\ rcvd' = [rcvd EXCEPT !.s2c = Append(@, m.val)]
          /\ UNCHANGED <<cli, udp>>
  /\ UNCHANGED <<scn, srv, kq, path, losses, dups, sent>>

\* recv() returns 0: client_tcp_recv ends the process.
ClientTcpEof ==
  /\ CliUp /\ SrvGone /\ tcp.s2c = <<>>
  /\ cli' = [cli EXCEPT !.proc = "dead"]
  /\ UNCHANGED <<scn, srv, tcp, udp, kq, path, losses, dups, sent, rcvd>>

\* Mutant: the client does not answer.
MutHand2Answered(rest) == rest

\* Mutant: the kcp timers are not created.
MutClientReady == [cli EXCEPT !.status = "READY"]

\* The answer to COMMAND_SHAKE_HAND2, sent once.
Hand2Answered(rest) == [rest EXCEPT !.hand2s = @ + 1]

\* The client counts the handshake as done: check_create_kcp_timer starts
\* the timers and sets udp.heart.
ClientReady == [cli EXCEPT !.status = "READY", !.evt = TRUE, !.age = 0, !.due = FALSE]

\* COMMAND_SHAKE_HAND2 over UDP, in client_udp_recv: taken for a KCP datagram
\* (and ignored) once KCP is valid; refused unless a handshake is under way;
\* otherwise answered, even if the timers exist already.
ClientHand2 ==
  /\ CliUp /\ path /\ udp.hand2c > 0
  /\ LET rest == [udp EXCEPT !.hand2c = @ - 1] IN
       \/ /\ cli.status # "SHAKING" \/ May("udp_send")
          /\ udp' = rest
          /\ cli' = cli
       \/ /\ cli.status = "SHAKING"
          /\ udp' = Hand2Answered(rest)
          /\ cli' = IF cli.evt THEN cli ELSE ClientReady
  /\ UNCHANGED <<scn, srv, tcp, kq, path, losses, dups, sent, rcvd>>

\* try_kcp_recv on the client: data, or the server's heartbeat.
ClientKcpRecv ==
  /\ CliUp /\ path /\ CliValid /\ InSync /\ kq.s2c # <<>>
  /\ LET m == Head(kq.s2c) IN
       \/ /\ m.type = "HB1"
          /\ kq' = [c2s |-> Beat(kq.c2s, Msg("HB2", m.val)), s2c |-> Tail(kq.s2c)]
          /\ cli' = [cli EXCEPT !.age = 0]
          /\ rcvd' = rcvd
       \/ /\ m.type = "DATA"
          /\ kq' = [kq EXCEPT !.s2c = Tail(@)]
          /\ rcvd' = [rcvd EXCEPT !.s2c = Append(@, m.val)]
          /\ cli' = cli
  /\ UNCHANGED <<scn, srv, tcp, udp, path, losses, dups, sent>>

\* Mutant: the client never gives up.
MutExpired(age) == FALSE

\* ev_now - udp.heart > KCPEV_HEARTBEAT_TIMEOUT when the timer fires.
Expired(age) == age > Timeout

\* on_client_heartbeat_timer
ClientHeartbeatTimer ==
  /\ CliUp /\ cli.due
  /\ \/ /\ CliValid /\ ~Expired(cli.age)
        /\ kq' = [kq EXCEPT !.c2s = Beat(@, Msg("HB1", 0))]
        /\ cli' = [cli EXCEPT !.due = FALSE]
     \/ /\ CliValid /\ Expired(cli.age)
        /\ cli' = [cli EXCEPT !.due = FALSE, !.status = "INVALID"]
        /\ kq' = kq
     \/ /\ ~CliValid
        /\ cli' = [cli EXCEPT !.due = FALSE]
        /\ kq' = kq
  /\ UNCHANGED <<scn, srv, tcp, udp, path, losses, dups, sent, rcvd>>

-----------------------------------------------------------------------------
(* The server's handlers (on_server_recv).                                 *)

\* The kcp that a handshake replaces: once it was valid its peer has gone on
\* from it, and the new one is not understood.
Replaced(kcp) == IF kcp = "used" THEN "reset" ELSE kcp

\* KcpevUdp_destroy
UdpDestroyed ==
  [srv EXCEPT !.sock = FALSE, !.evt = FALSE, !.due = FALSE, !.kcp = Replaced(@)]

\* COMMAND_SHAKE_HAND1: connect_client_udp makes a new socket, watcher and
\* kcp.  Those of an earlier handshake are not released: the old watcher is
\* left behind, and what the old kcp had not put on the wire is lost.  If it
\* fails, KcpevUdp_destroy takes kcp and timers away but not the status, and
\* the old socket stays open with nobody to read it unless getaddrinfo failed.
\* rest: the datagrams that remain once this one is read.
ServerHand1(rest) ==
  \/ /\ srv' = [srv EXCEPT !.sock = TRUE, !.status = "SHAKING", !.kcp = Replaced(@),
                           !.leaked = IF srv.sock THEN @ + 1 ELSE @]
     /\ \E n \in 0..Len(kq.s2c) : kq' = [kq EXCEPT !.s2c = SubSeq(@, 1, n)]
     /\ \/ udp' = [rest EXCEPT !.hand2c = @ + 1]
        \/ May("udp_send") /\ udp' = rest
  \/ /\ \/ May("udp_addr") /\ srv' = UdpDestroyed
        \/ May("udp_bind") /\ srv' = [UdpDestroyed EXCEPT !.mute = @ \/ srv.sock]
     /\ kq' = [kq EXCEPT !.s2c = <<>>]
     /\ udp' = rest

\* A datagram of the client reaches the main socket while the server has no
\* socket connected to the client, not even an old one.
ToMain == ~srv.sock /\ srv.leaked = 0 /\ ~srv.mute

\* There it waits its turn.
Hand1Queued ==
  /\ path /\ udp.hand1 > 0 /\ ToMain
  /\ udp' = [udp EXCEPT !.hand1 = @ - 1, !.main = @ + 1]
  /\ UNCHANGED <<scn, cli, srv, tcp, kq, path, losses, dups, sent, rcvd>>

\* server_udp_recv_all: the main socket.  HASH_FIND fails once the client is
\* closed.
ServerUdpRecvAll ==
  /\ udp.main > 0
  /\ LET rest == [udp EXCEPT !.main = @ - 1] IN
       \/ srv.hash /\ ServerHand1(rest)
       \/ ~srv.hash /\ udp' = rest /\ UNCHANGED <<srv, kq>>
  /\ UNCHANGED <<scn, cli, tcp, path, losses, dups, sent, rcvd>>

\* server_udp_recv, COMMAND_SHAKE_HAND1 on a connected socket.  Once KCP is
\* valid it is taken for a KCP datagram, and ignored; an old watcher's
\* getpeername fails if there is no socket; nobody reads the mute one.
ServerUdpHand1 ==
  /\ path /\ udp.hand1 > 0 /\ ~ToMain
  /\ LET rest == [udp EXCEPT !.hand1 = @ - 1] IN
       \/ srv.sock /\ ~SrvValid /\ ServerHand1(rest)
       \/ (~srv.sock \/ SrvValid \/ srv.mute) /\ udp' = rest /\ UNCHANGED <<srv, kq>>
  /\ UNCHANGED <<scn, cli, tcp, path, losses, dups, sent, rcvd>>

\* Mutant: the handshake is not required to be under way.
MutHand2Accepted == srv.hash /\ ~SrvValid

\* What COMMAND_SHAKE_HAND2 needs to be accepted, on the client's socket or
\* on the main one: the client is found, a handshake is under way (so KCP is
\* not valid) and check_create_kcp_timer finds no timer.
Hand2Accepted ==
  /\ srv.hash /\ (srv.sock \/ ToMain)
  /\ srv.status = "SHAKING" /\ ~srv.evt

\* server_udp_recv and server_udp_recv_all, COMMAND_SHAKE_HAND2
ServerUdpHand2 ==
  /\ path /\ udp.hand2s > 0
  /\ udp' = [udp EXCEPT !.hand2s = @ - 1]
  /\ \/ /\ Hand2Accepted
        /\ srv' = [srv EXCEPT !.status = "READY", !.evt = TRUE, !.age = 0, !.due = FALSE,
                              !.heart = FreshStamp,
                              !.kcp = IF srv.sock /\ @ = "new" THEN "used" ELSE @]
     \/ /\ ~Hand2Accepted \/ srv.mute
        /\ srv' = srv
  /\ UNCHANGED <<scn, cli, tcp, kq, path, losses, dups, sent, rcvd>>

\* kcpev_on_timer without a kcp: kcpev_timer_repeat returns, try_kcp_recv
\* calls ikcp_recv, whose assert(kcp) ends the server.
ServerTimerAborts ==
  /\ SrvUp /\ srv.evt /\ ~srv.sock
  /\ srv' = [srv EXCEPT !.struct = "crashed", !.hash = FALSE, !.evt = FALSE, !.due = FALSE]
  /\ UNCHANGED <<scn, cli, tcp, udp, kq, path, losses, dups, sent, rcvd>>

\* Mutant: the stamp in the answer is not the one that was sent.
MutStampMatches(val) == FALSE

StampMatches(val) == val = srv.heart

\* try_kcp_recv on the server: data; the client's heartbeat, answered with
\* the time of the last one; the answer to that, which counts only if it
\* carries that time.
ServerKcpRecv ==
  /\ SrvUp /\ path /\ SrvValid /\ InSync /\ kq.c2s # <<>>
  /\ LET m == Head(kq.c2s) IN
       \/ /\ m.type = "HB1"
          /\ kq' = [c2s |-> Tail(kq.c2s), s2c |-> Beat(kq.s2c, Msg("HB1", srv.heart))]
          /\ UNCHANGED <<srv, rcvd>>
       \/ /\ m.type = "HB2"
          /\ kq' = [kq EXCEPT !.c2s = Tail(@)]
          /\ srv' = IF StampMatches(m.val)
                    THEN [srv EXCEPT !.age = 0, !.heart = FreshStamp] ELSE srv
          /\ rcvd' = rcvd
       \/ /\ m.type = "DATA"
          /\ kq' = [kq EXCEPT !.c2s = Tail(@)]
          /\ rcvd' = [rcvd EXCEPT !.c2s = Append(@, m.val)]
          /\ srv' = srv
  /\ UNCHANGED <<scn, cli, tcp, udp, path, losses, dups, sent>>

\* on_server_heartbeat_timer: the client is told over TCP.
ServerHeartbeatTimer ==
  /\ SrvUp /\ srv.due
  /\ LET expire == SrvValid /\ Expired(srv.age) IN
       /\ srv' = [srv EXCEPT !.due = FALSE, !.status = IF expire THEN "INVALID" ELSE @]
       /\ tcp' = IF expire THEN [tcp EXCEPT !.s2c = Append(@, Msg("UDP_INVALID", 0))] ELSE tcp
  /\ UNCHANGED <<scn, cli, udp, kq, path, losses, dups, sent, rcvd>>

ServerTcpRecv ==
  /\ SrvUp /\ tcp.c2s # <<>>
  /\ tcp' = [tcp EXCEPT !.c2s = Tail(@)]
  /\ rcvd' = [rcvd EXCEPT !.c2s = Append(@, Head(tcp.c2s).val)]
  /\ UNCHANGED <<scn, cli, srv, udp, kq, path, losses, dups, sent>>

\* Mutant: the structure stays in the hash.
MutCloseClient ==
  [srv EXCEPT !.struct = "freed", !.sock = FALSE, !.evt = FALSE, !.due = FALSE]

\* The structure leaves the hash and is freed.
CloseClient ==
  [srv EXCEPT !.struct = "freed", !.hash = FALSE, !.sock = FALSE, !.evt = FALSE, !.due = FALSE]

\* recv() returns 0
ServerTcpEof ==
  /\ SrvUp /\ cli.proc = "dead" /\ tcp.c2s = <<>>
  /\ srv' = CloseClient
  /\ kq' = [kq EXCEPT !.s2c = <<>>]
  /\ UNCHANGED <<scn, cli, tcp, udp, path, losses, dups, sent, rcvd>>

-----------------------------------------------------------------------------
(* Sending (kcpev_send, kcpev_send_tcp).                                   *)

\* kcpev_send_command: KCP if this side holds it for valid, otherwise TCP;
\* sock_send_command: TCP.
ClientSend(force) ==
  /\ CliUp /\ ~SrvGone /\ sent.c2s < scn.sends
  /\ LET m == Msg("DATA", sent.c2s + 1) IN
       IF CliValid /\ ~force
       THEN Len(kq.c2s) < scn.kq /\ kq' = [kq EXCEPT !.c2s = Append(@, m)] /\ tcp' = tcp
       ELSE tcp' = [tcp EXCEPT !.c2s = Append(@, m)] /\ kq' = kq
  /\ sent' = [sent EXCEPT !.c2s = @ + 1]
  /\ UNCHANGED <<scn, cli, srv, udp, path, losses, dups, rcvd>>

ServerSend(force) ==
  /\ SrvUp /\ cli.proc # "dead" /\ sent.s2c < scn.sends
  /\ LET m == Msg("DATA", sent.s2c + 1) IN
       IF SrvValid /\ ~force
       THEN Len(kq.s2c) < scn.kq /\ kq' = [kq EXCEPT !.s2c = Append(@, m)] /\ tcp' = tcp
       ELSE tcp' = [tcp EXCEPT !.s2c = Append(@, m)] /\ kq' = kq
  /\ sent' = [sent EXCEPT !.s2c = @ + 1]
  /\ UNCHANGED <<scn, cli, srv, udp, path, losses, dups, rcvd>>

-----------------------------------------------------------------------------
(* The environment.                                                        *)

UdpKinds == {"hand1", "hand2c", "hand2s"}

LoseHandshake(d) ==
  /\ udp[d] > 0 /\ losses < scn.losses
  /\ udp' = [udp EXCEPT ![d] = @ - 1]
  /\ losses' = losses + 1
  /\ UNCHANGED <<scn, cli, srv, tcp, kq, path, dups, sent, rcvd>>

DuplicateHandshake(d) ==
  /\ udp[d] > 0 /\ dups < scn.dups
  /\ udp' = [udp EXCEPT ![d] = @ + 1]
  /\ dups' = dups + 1
  /\ UNCHANGED <<scn, cli, srv, tcp, kq, path, losses, sent, rcvd>>

\* UDP stops getting through, for good.
PathDown ==
  /\ May("path") /\ path
  /\ path' = FALSE
  /\ UNCHANGED <<scn, cli, srv, tcp, udp, kq, losses, dups, sent, rcvd>>

ClientQuits ==
  /\ May("quit") /\ CliUp
  /\ cli' = [cli EXCEPT !.proc = "dead"]
  /\ UNCHANGED <<scn, srv, tcp, udp, kq, path, losses, dups, sent, rcvd>>

\* Nothing that the network would deliver is left.
Drained ==
  path => /\ \A d \in DOMAIN udp : udp[d] = 0
          /\ ~(CliUp /\ CliValid /\ InSync /\ kq.s2c # <<>>)
          /\ ~(SrvUp /\ SrvValid /\ InSync /\ kq.c2s # <<>>)

Older(age) == IF age > Timeout THEN age ELSE age + 1

\* One period of the heartbeat timers (10 s) passes.  Both fire in it, if
\* they were started.
Tick ==
  /\ (CliUp /\ cli.evt) \/ (SrvUp /\ srv.evt)
  /\ ~(CliUp /\ cli.due) /\ ~(SrvUp /\ srv.due)
  /\ Fast => Drained
  /\ cli' = [cli EXCEPT !.age = IF cli.evt THEN Older(@) ELSE @, !.due = cli.evt]
  /\ srv' = [srv EXCEPT !.age = IF srv.evt THEN Older(@) ELSE @, !.due = srv.evt]
  /\ UNCHANGED <<scn, tcp, udp, kq, path, losses, dups, sent, rcvd>>

-----------------------------------------------------------------------------
Init ==
  /\ scn \in Scenarios
  /\ cli = [proc |-> "init", sock |-> FALSE, status |-> "INVALID",
            evt |-> FALSE, age |-> 0, due |-> FALSE]
  /\ srv = [struct |-> "none", hash |-> FALSE, sock |-> FALSE, status |-> "INVALID",
            evt |-> FALSE, age |-> 0, due |-> FALSE, heart |-> 0, kcp |-> "new",
            leaked |-> 0, mute |-> FALSE]
  /\ tcp = [c2s |-> <<>>, s2c |-> <<>>]
  /\ udp = [hand1 |-> 0, main |-> 0, hand2c |-> 0, hand2s |-> 0]
  /\ kq = [c2s |-> <<>>, s2c |-> <<>>]
  /\ path = TRUE
  /\ losses = 0 /\ dups = 0
  /\ sent = [c2s |-> 0, s2c |-> 0]
  /\ rcvd = [c2s |-> <<>>, s2c |-> <<>>]

Client == Connect \/ ClientTcpRecv \/ ClientTcpEof \/ ClientHand2 \/ ClientKcpRecv
            \/ ClientHeartbeatTimer

Server == TcpAccept \/ Hand1Queued \/ ServerUdpRecvAll \/ ServerUdpHand1 \/ ServerUdpHand2
            \/ ServerTimerAborts \/ ServerKcpRecv \/ ServerHeartbeatTimer \/ ServerTcpRecv \/ ServerTcpEof

Application == \E force \in BOOLEAN : ClientSend(force) \/ ServerSend(force)

Environment == (\E d \in UdpKinds : LoseHandshake(d) \/ DuplicateHandshake(d))
                 \/ PathDown \/ ClientQuits \/ Tick

Next == Client \/ Server \/ Application \/ Environment

\* Time passes, the event loops call the timers that are due and the callbacks
\* of readable sockets.
LocalFairness ==
  /\ WF_vars(Tick)
  /\ WF_vars(TcpAccept)
  /\ WF_vars(ClientTcpRecv \/ ClientTcpEof)
  /\ WF_vars(ClientHeartbeatTimer)
  /\ WF_vars(ServerTcpRecv \/ ServerTcpEof)
  /\ WF_vars(ServerHeartbeatTimer)
  /\ WF_vars(ServerTimerAborts)
  /\ WF_vars(ServerUdpRecvAll)

\* Where UDP is fast, a handshake datagram that is not lost arrives, and KCP
\* moves what it was given.  Nothing is assumed of it otherwise.
NetFairness ==
  /\ WF_vars(Fast /\ (Hand1Queued \/ ServerUdpHand1))
  /\ WF_vars(Fast /\ ClientHand2)
  /\ WF_vars(Fast /\ ServerUdpHand2)
  /\ WF_vars(Fast /\ ClientKcpRecv)
  /\ WF_vars(Fast /\ ServerKcpRecv)

Spec == Init /\ [][Next]_vars /\ LocalFairness /\ NetFairness

-----------------------------------------------------------------------------
TypeOK ==
  /\ scn \in Scenarios
  /\ cli \in [proc : {"init", "up", "dead"}, sock : BOOLEAN, status : Status,
              evt : BOOLEAN, age : 0..(Timeout + 1), due : BOOLEAN]
  /\ srv \in [struct : {"none", "live", "freed", "crashed"}, hash : BOOLEAN, sock : BOOLEAN,
              status : Status, evt : BOOLEAN, age : 0..(Timeout + 1), due : BOOLEAN,
              heart : Stamps, kcp : {"new", "used", "reset"}, leaked : 0..scn.dups,
              mute : BOOLEAN]
  /\ udp \in [hand1 : 0..(scn.dups + 1), main : 0..(scn.dups + 1),
              hand2c : Nat, hand2s : Nat]
  /\ Len(kq.c2s) <= scn.kq /\ Len(kq.s2c) <= scn.kq
  /\ path \in BOOLEAN

(***************************************************************************)
(* The server starts KCP only after the client has: whatever was lost or   *)
(* repeated, a server that ever created its timer answers a client that    *)
(* had accepted the handshake.                                             *)
(***************************************************************************)
ServerReadyAfterClient == srv.evt => cli.evt

(***************************************************************************)
(* A handshake datagram that waits in the main socket's queue never finds  *)
(* a freed structure: closing a client takes it out of the hash, and the   *)
(* entry that a failing tcp_accept leaves behind is found by nobody, since *)
(* its key was never sent.                                                 *)
(***************************************************************************)
LookupFindsLive == udp.main > 0 /\ srv.hash => SrvUp

(***************************************************************************)
(* There is no way back: a side that has had KCP and gave it up, or had it *)
(* reset by a repeated handshake, does not use it again as long as its     *)
(* timers exist, whatever handshake datagrams arrive late.                 *)
(***************************************************************************)
NeverReadyAgain ==
  [][ /\ cli.evt /\ ~CliValid => ~CliValid'
      /\ srv.evt /\ ~SrvValid => ~SrvValid' ]_vars

(***************************************************************************)
(* The two sides may disagree on whether KCP is usable (a lost answer, one *)
(* side timing out first, a repeated handshake), but not for good: while   *)
(* both live, heartbeats bring them to agree again.                        *)
(***************************************************************************)
DisagreementEnds == CliValid # SrvValid ~> (CliValid = SrvValid \/ ~CliUp)

(***************************************************************************)
(* When UDP stops getting through both sides stop using it, so that what   *)
(* is sent from then on goes over TCP.                                     *)
(***************************************************************************)
FallsBack == ~path ~> (~CliUp \/ (~CliValid /\ ~SrvValid))

(***************************************************************************)
(* The heartbeats keep a working connection alive: if UDP gets through     *)
(* within a heartbeat period and nothing failed, no side that has KCP ever *)
(* gives it up.                                                            *)
(***************************************************************************)
Calm == Fast /\ path /\ losses = 0 /\ dups = 0 /\ scn.faults = {}

HealthyStaysValid == Calm /\ srv.evt /\ CliUp => CliValid /\ SrvValid

(***************************************************************************)
(* Every message given to kcpev_send or kcpev_send_tcp reaches the other   *)
(* side's application, once, where UDP is fast.                            *)
(***************************************************************************)
Arrived(got, n) == Len(got) = n /\ \A i \in 1..n : \E k \in DOMAIN got : got[k] = i

AllDelivered == Fast => <>[](Arrived(rcvd.c2s, sent.c2s) /\ Arrived(rcvd.s2c, sent.s2c))

(***************************************************************************)
(* assert(kcp) in ikcp_recv: the kcp timer runs only where there is a kcp. *)
(***************************************************************************)
TimerHasKcp == SrvUp /\ srv.evt => srv.sock

(***************************************************************************)
(* The comments of kcpev_bind and kcpev_connect, and the README: if UDP    *)
(* does not work the connection goes on over TCP.  So a client whose TCP   *)
(* connection is alive does not end because of UDP.                        *)
(***************************************************************************)
ClientSurvives == cli.proc = "dead" => SrvGone
=============================================================================
