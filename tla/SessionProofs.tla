--------------------------- MODULE SessionProofs ---------------------------
(***************************************************************************)
(* Proofs about Session, for every timeout, every bound and every scenario:*)
(* whatever calls fail and whatever handshake datagrams are lost or        *)
(* repeated.                                                               *)
(***************************************************************************)
EXTENDS Session, FiniteSetTheorems, FunctionTheorems, SequenceTheorems, TLAPS

One(b) == IF b THEN 1 ELSE 0

(***************************************************************************)
(* The types, without the bounds, and with what TypeOK leaves open: the    *)
(* messages on their way and the counters.                                 *)
(***************************************************************************)
Packet == [type : {"HAND1", "UDP_INVALID", "DATA"}, val : Nat]
Letter == [type : {"HB1", "HB2", "DATA"}, val : Nat]

Queues(M) == [c2s : Seq(M), s2c : Seq(M)]

ClientRec ==
  [proc : {"init", "up", "dead"}, sock : BOOLEAN, status : Status, evt : BOOLEAN,
   age : Nat, due : BOOLEAN]

ServerRec ==
  [struct : {"none", "live", "freed", "crashed"}, hash : BOOLEAN, sock : BOOLEAN,
   status : Status, evt : BOOLEAN, age : Nat, due : BOOLEAN, heart : Stamps,
   kcp : {"new", "used", "reset"}, leaked : Nat, mute : BOOLEAN]

Handshakes == [hand1 : Nat, main : Nat, hand2c : Nat, hand2s : Nat]

Shape ==
  /\ scn \in Scenarios
  /\ cli \in ClientRec
  /\ srv \in ServerRec
  /\ udp \in Handshakes
  /\ tcp \in Queues(Packet)
  /\ kq \in Queues(Letter)
  /\ sent \in [c2s : Nat, s2c : Nat]
  /\ losses \in Nat /\ dups \in Nat /\ path \in BOOLEAN

(***************************************************************************)
(* The bounds.                                                             *)
(***************************************************************************)
Bounds ==
  /\ cli.age <= Timeout + 1 /\ srv.age <= Timeout + 1
  /\ Len(kq.c2s) <= scn.kq /\ Len(kq.s2c) <= scn.kq
  /\ sent.c2s <= scn.sends /\ sent.s2c <= scn.sends
  /\ dups <= scn.dups

(***************************************************************************)
(* The key is the first thing the server sends, and is sent once.          *)
(***************************************************************************)
HasKey(q) == q # <<>> /\ q[1].type = "HAND1"

KeyFirst(q) == \A i \in DOMAIN q : q[i].type = "HAND1" => i = 1

KeyIsFirst == KeyFirst(tcp.s2c)

(***************************************************************************)
(* A SHAKE_HAND1 is the key on its way, a datagram, or has been used to    *)
(* make a socket; there is one, and one more for each duplicate.           *)
(***************************************************************************)
Hand1Count ==
  /\ One(HasKey(tcp.s2c)) + udp.hand1 + udp.main + srv.leaked + One(srv.sock) <= 1 + dups
  /\ srv.leaked <= dups

(***************************************************************************)
(* Nobody sends a key that he does not have: before accept, and after an   *)
(* accept that failed, there is no SHAKE_HAND1.                            *)
(***************************************************************************)
KeyUnknown == srv.struct = "none" \/ (srv.struct = "freed" /\ srv.hash)

NoKeyNoHand1 ==
  /\ KeyUnknown => tcp.s2c = <<>> /\ udp.hand1 = 0 /\ udp.main = 0
  /\ srv.struct = "none" => ~srv.sock /\ srv.leaked = 0
  /\ srv.hash => srv.struct \in {"live", "freed"}

(***************************************************************************)
(* Every SHAKE_HAND2 on its way to the server was sent by a client that    *)
(* has its timers.                                                         *)
(***************************************************************************)
AnswersAfterReady ==
  /\ udp.hand2s > 0 => cli.evt
  /\ srv.evt => cli.evt
  /\ cli.proc = "init" => ~cli.evt

IInv == Shape /\ Bounds /\ KeyIsFirst /\ Hand1Count /\ NoKeyNoHand1 /\ AnswersAfterReady

-----------------------------------------------------------------------------
(***************************************************************************)
(* While nothing goes wrong: both sides live, ...                          *)
(***************************************************************************)
BothLive ==
  /\ cli.proc \in {"init", "up"} /\ (cli.proc = "up" => cli.sock)
  /\ srv.struct \in {"none", "live"}
  /\ srv.struct = "live" => cli.proc = "up" /\ srv.hash
  /\ srv.leaked = 0 /\ ~srv.mute /\ srv.kcp # "reset"
  /\ \A i \in DOMAIN tcp.s2c : tcp.s2c[i].type # "UDP_INVALID"

(***************************************************************************)
(* ... the handshake is one message that goes from side to side, and the   *)
(* state of both sides is given by where it is; ...                        *)
(***************************************************************************)
OneHandshake ==
  /\ One(HasKey(tcp.s2c)) + udp.hand1 + udp.main + udp.hand2c + udp.hand2s + One(srv.evt)
       = One(srv.struct = "live")
  /\ cli.status = IF udp.hand2s + One(srv.evt) > 0 THEN "READY"
                  ELSE IF udp.hand1 + udp.main + udp.hand2c > 0 THEN "SHAKING" ELSE "INVALID"
  /\ cli.evt <=> cli.status = "READY"
  /\ srv.sock <=> udp.hand2c + udp.hand2s + One(srv.evt) > 0
  /\ srv.status = IF srv.evt THEN "READY" ELSE IF srv.sock THEN "SHAKING" ELSE "INVALID"
  /\ ~srv.evt => srv.kcp = "new"

(***************************************************************************)
(* ... and so is the heartbeat, once it has started: the client's timer is *)
(* due, or HEARTBEAT1 goes to the server, comes back with the server's     *)
(* stamp, or HEARTBEAT2 returns that stamp.                                *)
(***************************************************************************)
BeatsIn(q) == {q[i] : i \in {j \in DOMAIN q : q[j].type # "DATA"}}

AtMostOneBeat(q) == \A i, j \in DOMAIN q : q[i].type # "DATA" /\ q[j].type # "DATA" => i = j

OneHeartbeat ==
  /\ AtMostOneBeat(kq.c2s) /\ AtMostOneBeat(kq.s2c)
  /\ BeatsIn(kq.c2s) \subseteq {Msg("HB1", 0), Msg("HB2", srv.heart)}
  /\ BeatsIn(kq.s2c) \subseteq {Msg("HB1", srv.heart)}
  /\ BeatsIn(kq.c2s) # {} => BeatsIn(kq.s2c) = {} /\ ~cli.due
  /\ BeatsIn(kq.s2c) # {} => ~cli.due
  /\ ~srv.evt => kq.s2c = <<>> /\ BeatsIn(kq.c2s) = {} /\ cli.age = 0 /\ ~cli.due

(***************************************************************************)
(* It has come back by the time the next one starts.                       *)
(***************************************************************************)
AgesLow ==
  /\ cli.age <= 1 /\ srv.age <= 1
  /\ cli.age = 1 => cli.due \/ BeatsIn(kq.s2c) # {} \/ Msg("HB1", 0) \in BeatsIn(kq.c2s)
  /\ srv.age = 1 => cli.due \/ BeatsIn(kq.s2c) # {} \/ BeatsIn(kq.c2s) # {}

(***************************************************************************)
(* There is always room for it.                                            *)
(***************************************************************************)
RoomForBeat ==
  /\ Len(kq.c2s) <= sent.c2s + One(BeatsIn(kq.c2s) # {})
  /\ Len(kq.s2c) <= sent.s2c + One(BeatsIn(kq.s2c) # {})

BeatInv == OneHeartbeat /\ AgesLow /\ RoomForBeat

CalmInv == BothLive /\ OneHandshake /\ OneHeartbeat /\ AgesLow /\ RoomForBeat

HInv == IInv /\ (Calm => CalmInv)

-----------------------------------------------------------------------------
(***************************************************************************)
(* A queue shows at most as many stamps as it has messages.                *)
(***************************************************************************)
LEMMA FewValues ==
  ASSUME NEW q \in Seq(Letter)
  PROVE  /\ IsFiniteSet({q[i].val : i \in DOMAIN q})
         /\ Cardinality({q[i].val : i \in DOMAIN q}) \in Nat
         /\ Cardinality({q[i].val : i \in DOMAIN q}) <= Len(q)
<1> DEFINE V == {q[i].val : i \in DOMAIN q}
           f == [i \in 1..Len(q) |-> q[i].val]
<1>1. Len(q) \in Nat /\ DOMAIN q = 1..Len(q)
  OBVIOUS
<1>2. f \in Surjection(1..Len(q), V)
  BY <1>1, Fun_IsSurj
<1>3. IsFiniteSet(1..Len(q)) /\ Cardinality(1..Len(q)) = Len(q)
  BY <1>1, FS_Interval, SMTT(30)
<1>4. IsFiniteSet(V) /\ Cardinality(V) <= Len(q)
  BY <1>2, <1>3, FS_Surjection
<1> QED BY <1>4, FS_CardinalityType

(***************************************************************************)
(* ev_now for udp.heart: there is a stamp that no message carries.         *)
(***************************************************************************)
LEMMA StampIsFresh ==
  ASSUME Shape, Bounds
  PROVE  FreshStamp \in Stamps
<1> DEFINE C == {kq.c2s[i].val : i \in DOMAIN kq.c2s}
           S == {kq.s2c[i].val : i \in DOMAIN kq.s2c}
           D == C \union {srv.heart}
           used == {srv.heart} \union C \union S
<1>1. /\ kq.c2s \in Seq(Letter) /\ kq.s2c \in Seq(Letter)
      /\ Len(kq.c2s) \in Nat /\ Len(kq.s2c) \in Nat
  BY DEF Shape, Queues
<1>2. /\ KqCap \in Nat /\ scn.kq \in Nat /\ scn.kq <= KqCap
      /\ Len(kq.c2s) <= scn.kq /\ Len(kq.s2c) <= scn.kq
  BY ScenariosAssumption, KqCapAssumption DEF Shape, Bounds, Scenario
<1>3. IsFiniteSet(C) /\ Cardinality(C) \in Nat /\ Cardinality(C) <= KqCap
  <2>1. IsFiniteSet(C) /\ Cardinality(C) \in Nat /\ Cardinality(C) <= Len(kq.c2s)
    BY <1>1, FewValues
  <2> QED BY <2>1, <1>1, <1>2
<1>4. IsFiniteSet(S) /\ Cardinality(S) \in Nat /\ Cardinality(S) <= KqCap
  <2>1. IsFiniteSet(S) /\ Cardinality(S) \in Nat /\ Cardinality(S) <= Len(kq.s2c)
    BY <1>1, FewValues
  <2> QED BY <2>1, <1>1, <1>2
<1> HIDE DEF C, S
<1>5. IsFiniteSet(D) /\ Cardinality(D) \in Nat /\ Cardinality(D) <= KqCap + 1
  <2>1. IsFiniteSet(D) /\ Cardinality(D) = IF srv.heart \in C THEN Cardinality(C)
                                          ELSE Cardinality(C) + 1
    BY <1>3, FS_AddElement
  <2> QED BY <2>1, <1>2, <1>3
<1> HIDE DEF D
<1>6. /\ IsFiniteSet(D \union S)
      /\ Cardinality(D \union S) \in Nat
      /\ Cardinality(D \union S) <= 2 * KqCap + 1
  <2>1. /\ IsFiniteSet(D \union S)
        /\ Cardinality(D \union S) = Cardinality(D) + Cardinality(S) - Cardinality(D \cap S)
    BY <1>4, <1>5, FS_Union
  <2>2. Cardinality(D \cap S) \in Nat
    BY <1>4, <1>5, FS_Intersection, FS_CardinalityType
  <2>3. Cardinality(D \union S) \in Nat
    BY <2>1, FS_CardinalityType
  <2> QED BY <2>1, <2>2, <2>3, <1>2, <1>4, <1>5
<1>7. IsFiniteSet(Stamps) /\ Cardinality(Stamps) = 2 * KqCap + 2
  <2>1. PICK n \in Nat : n = 2 * KqCap + 1
    BY <1>2
  <2>2. IsFiniteSet(0..n) /\ Cardinality(0..n) = n + 1
    BY FS_Interval
  <2> QED BY <2>1, <2>2, <1>2 DEF Stamps
<1>8. ~(Stamps \subseteq D \union S)
  <2> SUFFICES ASSUME Stamps \subseteq D \union S PROVE FALSE
    OBVIOUS
  <2>1. Cardinality(Stamps) <= Cardinality(D \union S)
    BY <1>6, FS_Subset
  <2> QED BY <2>1, <1>2, <1>6, <1>7
<1>9. \E s \in Stamps : s \notin used
  BY <1>8 DEF D
<1> QED BY <1>9 DEF FreshStamp, C, S

-----------------------------------------------------------------------------
(***************************************************************************)
(* Types.                                                                  *)
(***************************************************************************)
LEMMA MsgTypes ==
  /\ Msg("HAND1", 0) \in Packet /\ Msg("UDP_INVALID", 0) \in Packet
  /\ \A n \in Nat : /\ Msg("DATA", n) \in Packet /\ Msg("DATA", n) \in Letter
                    /\ Msg("HB1", n) \in Letter /\ Msg("HB2", n) \in Letter
  BY DEF Msg, Packet, Letter

(***************************************************************************)
(* A direction is replaced by another sequence of letters.                 *)
(***************************************************************************)
LEMMA QueueTypes ==
  ASSUME NEW q \in Queues(Letter), NEW a \in Seq(Letter), NEW b \in Seq(Letter)
  PROVE  /\ [q EXCEPT !.c2s = a] \in Queues(Letter)
         /\ [q EXCEPT !.s2c = a] \in Queues(Letter)
         /\ [c2s |-> a, s2c |-> b] \in Queues(Letter)
  BY DEF Queues

(***************************************************************************)
(* A heartbeat is put into a direction only if there is room.              *)
(***************************************************************************)
LEMMA BeatType ==
  ASSUME NEW q \in Seq(Letter), NEW m \in Letter
  PROVE  Beat(q, m) \in Seq(Letter)
  BY DEF Beat

(***************************************************************************)
(* The client's record after SHAKE_HAND2.                                  *)
(***************************************************************************)
LEMMA ReadyType ==
  ASSUME cli \in ClientRec
  PROVE  ClientReady \in ClientRec
<1>1. 0 \in Nat
  OBVIOUS
<1> QED BY <1>1 DEF ClientReady, ClientRec, Status

(***************************************************************************)
(* COMMAND_SHAKE_HAND1 on the server.                                      *)
(***************************************************************************)
LEMMA ServerHand1Type ==
  ASSUME Shape, NEW rest \in Handshakes, ServerHand1(rest)
  PROVE  srv' \in ServerRec /\ udp' \in Handshakes /\ kq' \in Queues(Letter)
<1>1. rest.hand2c + 1 \in Nat /\ srv.leaked + 1 \in Nat
  BY DEF Shape, Handshakes, ServerRec
<1>2. Replaced(srv.kcp) \in {"new", "used", "reset"}
  BY DEF Replaced, Shape, ServerRec
<1>3. udp' \in Handshakes
  BY <1>1 DEF ServerHand1, Handshakes
<1>4. UdpDestroyed \in ServerRec
  BY <1>2 DEF UdpDestroyed, Shape, ServerRec
<1>5. srv' \in ServerRec
  <2>1. CASE srv' = [srv EXCEPT !.sock = TRUE, !.status = "SHAKING", !.kcp = Replaced(@),
                                !.leaked = IF srv.sock THEN @ + 1 ELSE @]
    <3>1. PICK n \in Nat : n = IF srv.sock THEN srv.leaked + 1 ELSE srv.leaked
      BY <1>1 DEF Shape, ServerRec
    <3>2. srv' = [srv EXCEPT !.sock = TRUE, !.status = "SHAKING", !.kcp = Replaced(@),
                             !.leaked = n]
      BY <2>1, <3>1 DEF Shape, ServerRec
    <3> QED BY <3>2, <1>2 DEF Shape, ServerRec, Status
  <2>2. CASE srv' = UdpDestroyed
    BY <2>2, <1>4
  <2>3. CASE srv' = [UdpDestroyed EXCEPT !.mute = @ \/ srv.sock]
    <3>1. PICK b \in BOOLEAN : b = (UdpDestroyed.mute \/ srv.sock)
      OBVIOUS
    <3>2. srv' = [UdpDestroyed EXCEPT !.mute = b]
      BY <2>3, <3>1, Zenon
    <3> QED BY <3>2, <1>4 DEF ServerRec
  <2> QED BY <2>1, <2>2, <2>3 DEF ServerHand1
<1>6. kq' \in Queues(Letter)
  <2>1. kq \in Queues(Letter)
    BY DEF Shape
  <2>2. CASE \E n \in 0..Len(kq.s2c) : kq' = [kq EXCEPT !.s2c = SubSeq(@, 1, n)]
    <3>1. PICK n \in 0..Len(kq.s2c) : kq' = [kq EXCEPT !.s2c = SubSeq(@, 1, n)]
      BY <2>2
    <3>2. SubSeq(kq.s2c, 1, n) \in Seq(Letter)
      BY <2>1 DEF Queues
    <3> QED BY <2>1, <3>1, <3>2, QueueTypes
  <2>3. CASE kq' = [kq EXCEPT !.s2c = <<>>]
    <3>1. <<>> \in Seq(Letter)
      OBVIOUS
    <3> QED BY <2>1, <2>3, <3>1, QueueTypes
  <2> QED BY <2>2, <2>3 DEF ServerHand1
<1> QED BY <1>3, <1>5, <1>6

(***************************************************************************)
(* Every action keeps the types: one step per action.                      *)
(***************************************************************************)
LEMMA ShapeStep ==
  ASSUME Shape, Bounds, [Next]_vars
  PROVE  Shape'
<1>0. /\ cli.age \in Nat /\ srv.age \in Nat /\ srv.heart \in Nat
      /\ udp.hand1 \in Nat /\ udp.main \in Nat /\ udp.hand2c \in Nat /\ udp.hand2s \in Nat
      /\ sent.c2s \in Nat /\ sent.s2c \in Nat
  BY DEF Shape, ClientRec, ServerRec, Handshakes, Stamps
<1>01. /\ kq.c2s \in Seq(Letter) /\ kq.s2c \in Seq(Letter)
       /\ tcp.c2s \in Seq(Packet) /\ tcp.s2c \in Seq(Packet)
  BY DEF Shape, Queues
<1>00. /\ cli \in ClientRec /\ srv \in ServerRec /\ udp \in Handshakes
       /\ tcp \in Queues(Packet) /\ kq \in Queues(Letter) /\ sent \in [c2s : Nat, s2c : Nat]
  BY DEF Shape
<1>1. CASE Connect
  <2>1. cli' \in ClientRec
    BY <1>00, <1>1 DEF Connect, ClientRec
  <2> QED BY <1>1, <2>1 DEF Shape, Connect
<1>2. CASE TcpAccept
  <2>1. srv' \in ServerRec
    <3>1. \/ srv' = [srv EXCEPT !.struct = "live", !.hash = TRUE]
          \/ srv' = [srv EXCEPT !.struct = "freed", !.hash = TRUE]
      BY <1>2 DEF TcpAccept
    <3> QED BY <1>00, <3>1, ZenonT(30) DEF ServerRec
  <2>2. tcp' \in Queues(Packet)
    <3>1. Append(tcp.s2c, Msg("HAND1", 0)) \in Seq(Packet)
      BY <1>0, <1>01, MsgTypes
    <3> QED BY <1>00, <1>2, <3>1 DEF TcpAccept, Queues
  <2> QED BY <1>2, <2>1, <2>2 DEF Shape, TcpAccept
<1>3. CASE ClientTcpRecv
  <2>1. cli' \in ClientRec
    BY <1>00, <1>3 DEF ClientTcpRecv, ClientHand1, ClientUdpInvalid, ClientRec, Status
  <2>2. udp' \in Handshakes
    <3>1. udp.hand1 + 1 \in Nat
      BY <1>0
    <3>2. udp' = udp \/ udp' = [udp EXCEPT !.hand1 = @ + 1]
      BY <1>3 DEF ClientTcpRecv, ClientHand1, ClientUdpInvalid
    <3> QED BY <1>00, <3>1, <3>2 DEF Handshakes
  <2>3. tcp' \in Queues(Packet)
    <3>1. Tail(tcp.s2c) \in Seq(Packet)
      BY <1>0, <1>01, <1>3 DEF ClientTcpRecv
    <3> QED BY <1>00, <1>3, <3>1 DEF ClientTcpRecv, Queues
  <2> QED BY <1>3, <2>1, <2>2, <2>3 DEF Shape, ClientTcpRecv
<1>4. CASE ClientTcpEof
  <2>1. cli' \in ClientRec
    BY <1>00, <1>4 DEF ClientTcpEof, ClientRec
  <2> QED BY <1>4, <2>1 DEF Shape, ClientTcpEof
<1>5. CASE ClientHand2
  <2>1. cli' \in ClientRec
    BY <1>00, <1>5, ReadyType DEF ClientHand2
  <2>2. udp' \in Handshakes
    <3>1. udp.hand2c - 1 \in Nat /\ udp.hand2s + 1 \in Nat
      <4>1. udp.hand2c > 0
        BY <1>5 DEF ClientHand2
      <4> QED BY <4>1, <1>0
    <3> DEFINE rest == [udp EXCEPT !.hand2c = @ - 1]
    <3>2. rest \in Handshakes /\ rest.hand2s = udp.hand2s
      BY <1>00, <3>1 DEF Handshakes
    <3>3. udp' = rest \/ udp' = [rest EXCEPT !.hand2s = udp.hand2s + 1]
      BY <1>5, <3>2 DEF ClientHand2, Hand2Answered
    <3> HIDE DEF rest
    <3> QED BY <3>1, <3>2, <3>3 DEF Handshakes
  <2> QED BY <1>5, <2>1, <2>2 DEF Shape, ClientHand2
<1>6. CASE ClientKcpRecv
  <2>1. cli' \in ClientRec
    BY <1>00, <1>6 DEF ClientKcpRecv, ClientRec
  <2>2. kq' \in Queues(Letter)
    <3>1. Tail(kq.s2c) \in Seq(Letter) /\ Head(kq.s2c) \in Letter
      <4>1. kq.s2c # <<>>
        BY <1>6 DEF ClientKcpRecv
      <4> QED BY <1>01, <4>1
    <3>2. Beat(kq.c2s, Msg("HB2", Head(kq.s2c).val)) \in Seq(Letter)
      <4>1. Head(kq.s2c).val \in Nat
        BY <3>1 DEF Letter
      <4> QED BY <4>1, <1>0, <1>01, BeatType, MsgTypes
    <3>3. \/ kq' = [c2s |-> Beat(kq.c2s, Msg("HB2", Head(kq.s2c).val)), s2c |-> Tail(kq.s2c)]
          \/ kq' = [kq EXCEPT !.s2c = Tail(@)]
      BY <1>6 DEF ClientKcpRecv
    <3> QED BY <1>00, <1>01, <3>1, <3>2, <3>3, QueueTypes, ZenonT(30)
  <2> QED BY <1>6, <2>1, <2>2 DEF Shape, ClientKcpRecv
<1>7. CASE ClientHeartbeatTimer
  <2>1. cli' \in ClientRec
    BY <1>00, <1>7 DEF ClientHeartbeatTimer, ClientRec, Status
  <2>2. kq' \in Queues(Letter)
    <3>1. Beat(kq.c2s, Msg("HB1", 0)) \in Seq(Letter)
      BY <1>0, <1>01, BeatType, MsgTypes
    <3> QED BY <1>00, <1>7, <3>1, QueueTypes DEF ClientHeartbeatTimer
  <2> QED BY <1>7, <2>1, <2>2 DEF Shape, ClientHeartbeatTimer
<1>8. CASE Hand1Queued
  <2>1. udp.hand1 - 1 \in Nat /\ udp.main + 1 \in Nat
    BY <1>0, <1>8 DEF Hand1Queued
  <2>2. udp' \in Handshakes
    BY <1>00, <1>8, <2>1 DEF Hand1Queued, Handshakes
  <2> QED BY <1>8, <2>2 DEF Shape, Hand1Queued
<1>9. CASE ServerUdpRecvAll
  <2>1. [udp EXCEPT !.main = @ - 1] \in Handshakes
    <3>1. udp.main - 1 \in Nat
      BY <1>0, <1>9 DEF ServerUdpRecvAll
    <3> QED BY <1>00, <3>1 DEF Handshakes
  <2>2. srv' \in ServerRec /\ udp' \in Handshakes /\ kq' \in Queues(Letter)
    BY <1>00, <1>9, <2>1, ServerHand1Type DEF ServerUdpRecvAll
  <2> QED BY <1>9, <2>2 DEF Shape, ServerUdpRecvAll
<1>10. CASE ServerUdpHand1
  <2>1. [udp EXCEPT !.hand1 = @ - 1] \in Handshakes
    <3>1. udp.hand1 - 1 \in Nat
      BY <1>0, <1>10 DEF ServerUdpHand1
    <3> QED BY <1>00, <3>1 DEF Handshakes
  <2>2. srv' \in ServerRec /\ udp' \in Handshakes /\ kq' \in Queues(Letter)
    BY <1>00, <1>10, <2>1, ServerHand1Type DEF ServerUdpHand1
  <2> QED BY <1>10, <2>2 DEF Shape, ServerUdpHand1
<1>11. CASE ServerUdpHand2
  <2>1. srv' \in ServerRec
    <3>1. FreshStamp \in Stamps /\ 0 \in Nat
      BY StampIsFresh
    <3>2. PICK k \in {"new", "used", "reset"} :
            k = IF srv.sock /\ srv.kcp = "new" THEN "used" ELSE srv.kcp
      BY <1>00 DEF ServerRec
    <3>3. \/ srv' = srv
          \/ srv' = [srv EXCEPT !.status = "READY", !.evt = TRUE, !.age = 0, !.due = FALSE,
                                !.heart = FreshStamp, !.kcp = k]
      BY <1>00, <1>11, <3>2 DEF ServerUdpHand2, ServerRec
    <3> QED BY <1>00, <3>1, <3>3, ZenonT(30) DEF ServerRec, Status
  <2>2. udp' \in Handshakes
    BY <1>00, <1>11, <1>0 DEF ServerUdpHand2, Handshakes
  <2> QED BY <1>11, <2>1, <2>2 DEF Shape, ServerUdpHand2
<1>12. CASE ServerTimerAborts
  <2>1. srv' \in ServerRec
    BY <1>00, <1>12 DEF ServerTimerAborts, ServerRec
  <2> QED BY <1>12, <2>1 DEF Shape, ServerTimerAborts
<1>13. CASE ServerKcpRecv
  <2>1. srv' \in ServerRec
    <3>1. FreshStamp \in Stamps /\ 0 \in Nat
      BY StampIsFresh
    <3>2. srv' = srv \/ srv' = [srv EXCEPT !.age = 0, !.heart = FreshStamp]
      BY <1>13 DEF ServerKcpRecv
    <3> QED BY <1>00, <3>1, <3>2 DEF ServerRec
  <2>2. kq' \in Queues(Letter)
    <3>1. Beat(kq.s2c, Msg("HB1", srv.heart)) \in Seq(Letter)
      BY <1>0, <1>01, BeatType, MsgTypes
    <3>2. Tail(kq.c2s) \in Seq(Letter)
      BY <1>13, <1>0, <1>01 DEF ServerKcpRecv
    <3>3. \/ kq' = [c2s |-> Tail(kq.c2s), s2c |-> Beat(kq.s2c, Msg("HB1", srv.heart))]
          \/ kq' = [kq EXCEPT !.c2s = Tail(@)]
      BY <1>13 DEF ServerKcpRecv
    <3> QED BY <1>00, <1>01, <3>1, <3>2, <3>3, QueueTypes
  <2> QED BY <1>13, <2>1, <2>2 DEF Shape, ServerKcpRecv
<1>14. CASE ServerHeartbeatTimer
  <2>1. srv' \in ServerRec
    BY <1>00, <1>14 DEF ServerHeartbeatTimer, ServerRec, Status
  <2>2. tcp' \in Queues(Packet)
    <3>1. Append(tcp.s2c, Msg("UDP_INVALID", 0)) \in Seq(Packet)
      BY <1>0, <1>01, MsgTypes
    <3> QED BY <1>00, <1>14, <3>1 DEF ServerHeartbeatTimer, Queues
  <2> QED BY <1>14, <2>1, <2>2 DEF Shape, ServerHeartbeatTimer
<1>15. CASE ServerTcpRecv
  <2>1. tcp' \in Queues(Packet)
    <3>1. Tail(tcp.c2s) \in Seq(Packet)
      BY <1>0, <1>01, <1>15 DEF ServerTcpRecv
    <3> QED BY <1>00, <1>15, <3>1 DEF ServerTcpRecv, Queues
  <2> QED BY <1>15, <2>1 DEF Shape, ServerTcpRecv
<1>16. CASE ServerTcpEof
  <2>1. srv' \in ServerRec
    BY <1>00, <1>16 DEF ServerTcpEof, CloseClient, ServerRec
  <2>2. kq' \in Queues(Letter)
    <3>1. <<>> \in Seq(Letter)
      OBVIOUS
    <3> QED BY <1>00, <1>16, <3>1, QueueTypes DEF ServerTcpEof
  <2> QED BY <1>16, <2>1, <2>2 DEF Shape, ServerTcpEof
<1>17. ASSUME NEW force \in BOOLEAN, ClientSend(force) \/ ServerSend(force)
       PROVE  Shape'
  <2>1. sent.c2s + 1 \in Nat /\ sent.s2c + 1 \in Nat
    BY <1>0
  <2>2. \A n \in Nat : /\ Append(tcp.c2s, Msg("DATA", n)) \in Seq(Packet)
                       /\ Append(tcp.s2c, Msg("DATA", n)) \in Seq(Packet)
                       /\ Append(kq.c2s, Msg("DATA", n)) \in Seq(Letter)
                       /\ Append(kq.s2c, Msg("DATA", n)) \in Seq(Letter)
    BY <1>0, <1>01, MsgTypes
  <2>3. tcp' \in Queues(Packet) /\ kq' \in Queues(Letter)
    BY <1>00, <1>17, <2>1, <2>2 DEF ClientSend, ServerSend, Queues
  <2>4. sent' \in [c2s : Nat, s2c : Nat]
    BY <1>00, <1>17, <2>1 DEF ClientSend, ServerSend
  <2> QED BY <1>17, <2>3, <2>4 DEF Shape, ClientSend, ServerSend
<1>18. ASSUME NEW d \in UdpKinds, LoseHandshake(d) \/ DuplicateHandshake(d)
       PROVE  Shape'
  <2>1. udp[d] - 1 \in Nat /\ udp[d] + 1 \in Nat
    <3>1. udp[d] \in Nat
      BY <1>00, <1>18 DEF UdpKinds, Handshakes
    <3>2. udp[d] > 0
      BY <1>18 DEF LoseHandshake, DuplicateHandshake
    <3> QED BY <3>1, <3>2
  <2>2. udp' \in Handshakes
    BY <1>00, <1>18, <2>1 DEF LoseHandshake, DuplicateHandshake, UdpKinds, Handshakes
  <2> QED BY <1>18, <2>2 DEF Shape, LoseHandshake, DuplicateHandshake
<1>19. CASE PathDown
  BY <1>19 DEF Shape, PathDown
<1>20. CASE ClientQuits
  <2>1. cli' \in ClientRec
    BY <1>00, <1>20 DEF ClientQuits, ClientRec
  <2> QED BY <1>20, <2>1 DEF Shape, ClientQuits
<1>21. CASE Tick
  <2>1. Older(cli.age) \in Nat /\ Older(srv.age) \in Nat
    BY <1>0 DEF Older
  <2>2. cli' \in ClientRec
    <3>1. PICK a \in Nat : a = IF cli.evt THEN Older(cli.age) ELSE cli.age
      BY <2>1, <1>0
    <3>2. cli' = [cli EXCEPT !.age = a, !.due = cli.evt]
      BY <1>00, <1>21, <3>1 DEF Tick, ClientRec
    <3> QED BY <1>00, <3>2 DEF ClientRec
  <2>3. srv' \in ServerRec
    <3>1. PICK a \in Nat : a = IF srv.evt THEN Older(srv.age) ELSE srv.age
      BY <2>1, <1>0
    <3>2. srv' = [srv EXCEPT !.age = a, !.due = srv.evt]
      BY <1>00, <1>21, <3>1 DEF Tick, ServerRec
    <3> QED BY <1>00, <3>2 DEF ServerRec
  <2> QED BY <1>21, <2>2, <2>3 DEF Shape, Tick
<1>22. CASE UNCHANGED vars
  BY <1>22 DEF Shape, vars
<1> QED
  BY <1>1, <1>2, <1>3, <1>4, <1>5, <1>6, <1>7, <1>8, <1>9, <1>10, <1>11, <1>12, <1>13,
     <1>14, <1>15, <1>16, <1>17, <1>18, <1>19, <1>20, <1>21, <1>22
     DEF Next, Client, Server, Application, Environment

-----------------------------------------------------------------------------
(***************************************************************************)
(* Bounds.  An age stops just beyond the timeout.                          *)
(***************************************************************************)
LEMMA AgeStep ==
  ASSUME Shape, [Next]_vars
  PROVE  /\ cli'.age \in {cli.age, 0, Older(cli.age)}
                   /\ srv'.age \in {srv.age, 0, Older(srv.age)}
<1> DEFINE Goal == /\ cli'.age \in {cli.age, 0, Older(cli.age)}
                   /\ srv'.age \in {srv.age, 0, Older(srv.age)}
<1>0. cli \in ClientRec /\ srv \in ServerRec
  BY DEF Shape
<1>1. CASE Connect
  BY <1>1, <1>0 DEF Connect, ClientRec, ServerRec
<1>2. CASE TcpAccept
  BY <1>2, <1>0 DEF TcpAccept, ClientRec, ServerRec
<1>3. CASE ClientTcpRecv
  BY <1>3, <1>0 DEF ClientTcpRecv, ClientHand1, ClientUdpInvalid, ClientRec, ServerRec
<1>4. CASE ClientTcpEof
  BY <1>4, <1>0 DEF ClientTcpEof, ClientRec, ServerRec
<1>5. CASE ClientHand2
  BY <1>5, <1>0 DEF ClientHand2, Hand2Answered, ClientReady, ClientRec, ServerRec
<1>6. CASE ClientKcpRecv
  BY <1>6, <1>0 DEF ClientKcpRecv, ClientRec, ServerRec
<1>7. CASE ClientHeartbeatTimer
  BY <1>7, <1>0 DEF ClientHeartbeatTimer, ClientRec, ServerRec
<1>8. CASE Hand1Queued
  BY <1>8, <1>0 DEF Hand1Queued, ClientRec, ServerRec
<1>9. CASE ServerUdpRecvAll
  BY <1>9, <1>0 DEF ServerUdpRecvAll, ServerHand1, UdpDestroyed, ClientRec, ServerRec
<1>10. CASE ServerUdpHand1
  BY <1>10, <1>0 DEF ServerUdpHand1, ServerHand1, UdpDestroyed, ClientRec, ServerRec
<1>11. CASE ServerUdpHand2
  BY <1>11, <1>0 DEF ServerUdpHand2, ClientRec, ServerRec
<1>12. CASE ServerTimerAborts
  BY <1>12, <1>0 DEF ServerTimerAborts, ClientRec, ServerRec
<1>13. CASE ServerKcpRecv
  BY <1>13, <1>0 DEF ServerKcpRecv, ClientRec, ServerRec
<1>14. CASE ServerHeartbeatTimer
  BY <1>14, <1>0 DEF ServerHeartbeatTimer, ClientRec, ServerRec
<1>15. CASE ServerTcpRecv
  BY <1>15, <1>0 DEF ServerTcpRecv, ClientRec, ServerRec
<1>16. CASE ServerTcpEof
  BY <1>16, <1>0 DEF ServerTcpEof, CloseClient, ClientRec, ServerRec
<1>17. ASSUME NEW force \in BOOLEAN, ClientSend(force) \/ ServerSend(force)
       PROVE  Goal
  BY <1>17, <1>0 DEF ClientSend, ServerSend, ClientRec, ServerRec
<1>18. ASSUME NEW d \in UdpKinds, LoseHandshake(d) \/ DuplicateHandshake(d)
       PROVE  Goal
  BY <1>18, <1>0 DEF LoseHandshake, DuplicateHandshake, UdpKinds, ClientRec, ServerRec
<1>19. CASE PathDown
  BY <1>19, <1>0 DEF PathDown, ClientRec, ServerRec
<1>20. CASE ClientQuits
  BY <1>20, <1>0 DEF ClientQuits, ClientRec, ServerRec
<1>21. CASE Tick
  BY <1>21, <1>0 DEF Tick, ClientRec, ServerRec
<1>22. CASE UNCHANGED vars
  BY <1>22, <1>0 DEF vars, ClientRec, ServerRec
<1> QED
  BY <1>1, <1>2, <1>3, <1>4, <1>5, <1>6, <1>7, <1>8, <1>9, <1>10, <1>11, <1>12, <1>13,
     <1>14, <1>15, <1>16, <1>17, <1>18, <1>19, <1>20, <1>21, <1>22
     DEF Next, Client, Server, Application, Environment

(***************************************************************************)
(* A heartbeat respects the bound of the direction.                        *)
(***************************************************************************)
LEMMA BeatBound ==
  ASSUME NEW q \in Seq(Letter), NEW m \in Letter, scn.kq \in Nat, Len(q) <= scn.kq
  PROVE  Len(Beat(q, m)) <= scn.kq
  BY DEF Beat

(***************************************************************************)
(* No action puts more into a KCP direction than the bound.                *)
(***************************************************************************)
LEMMA CapStep ==
  ASSUME Shape, Bounds, [Next]_vars
  PROVE  Len(kq'.c2s) <= scn'.kq /\ Len(kq'.s2c) <= scn'.kq
<1> DEFINE Goal == Len(kq'.c2s) <= scn'.kq /\ Len(kq'.s2c) <= scn'.kq
<1>00. kq \in Queues(Letter)
  BY DEF Shape
<1>01. kq.c2s \in Seq(Letter) /\ kq.s2c \in Seq(Letter)
  BY <1>00 DEF Queues
<1>02. scn.kq \in Nat /\ srv.heart \in Nat /\ 0 \in Nat
  BY ScenariosAssumption, KqCapAssumption DEF Shape, Scenario, ServerRec, Stamps
<1>03. Len(kq.c2s) <= scn.kq /\ Len(kq.s2c) <= scn.kq
  BY DEF Bounds
<1>1. CASE Connect
  BY <1>1, <1>03 DEF Connect
<1>2. CASE TcpAccept
  BY <1>2, <1>03 DEF TcpAccept
<1>3. CASE ClientTcpRecv
  BY <1>3, <1>03 DEF ClientTcpRecv, ClientHand1, ClientUdpInvalid
<1>4. CASE ClientTcpEof
  BY <1>4, <1>03 DEF ClientTcpEof
<1>5. CASE ClientHand2
  BY <1>5, <1>03 DEF ClientHand2, Hand2Answered, ClientReady
<1>6. CASE ClientKcpRecv
  <2>1. /\ Tail(kq.s2c) \in Seq(Letter) /\ Head(kq.s2c) \in Letter
        /\ Len(Tail(kq.s2c)) <= scn.kq
    BY <1>01, <1>02, <1>03, <1>6 DEF ClientKcpRecv
  <2>2. Msg("HB2", Head(kq.s2c).val) \in Letter
    <3>1. Head(kq.s2c).val \in Nat
      BY <2>1 DEF Letter
    <3> QED BY <3>1, MsgTypes
  <2>3. Len(Beat(kq.c2s, Msg("HB2", Head(kq.s2c).val))) <= scn.kq
    BY <1>01, <1>02, <1>03, <2>2, BeatBound
  <2> QED BY <1>00, <1>03, <1>6, <2>1, <2>3 DEF ClientKcpRecv, Queues
<1>7. CASE ClientHeartbeatTimer
  <2>1. Len(Beat(kq.c2s, Msg("HB1", 0))) <= scn.kq
    BY <1>01, <1>02, <1>03, MsgTypes, BeatBound
  <2> QED BY <1>00, <1>03, <1>7, <2>1 DEF ClientHeartbeatTimer, Queues
<1>8. CASE Hand1Queued
  BY <1>8, <1>03 DEF Hand1Queued
<1>9. CASE ServerUdpRecvAll
  <2>1. \/ kq' = kq
        \/ kq' = [kq EXCEPT !.s2c = <<>>]
        \/ \E n \in 0..Len(kq.s2c) : kq' = [kq EXCEPT !.s2c = SubSeq(@, 1, n)]
    BY <1>9 DEF ServerUdpRecvAll, ServerHand1
  <2>2. scn' = scn
    BY <1>9 DEF ServerUdpRecvAll
  <2>3. CASE kq' = kq
    BY <1>03, <2>2, <2>3
  <2>4. CASE kq' = [kq EXCEPT !.s2c = <<>>]
    BY <1>00, <1>02, <1>03, <2>2, <2>4 DEF Queues
  <2>5. ASSUME NEW n \in 0..Len(kq.s2c), kq' = [kq EXCEPT !.s2c = SubSeq(@, 1, n)]
        PROVE  Goal
    <3>1. Len(SubSeq(kq.s2c, 1, n)) = n
      BY <1>01
    <3>2. Len(kq'.c2s) = Len(kq.c2s) /\ Len(kq'.s2c) = n
      BY <1>00, <2>5, <3>1 DEF Queues
    <3>3. Len(kq.s2c) \in Nat
      BY <1>01
    <3> QED BY <1>02, <1>03, <2>2, <3>2, <3>3
  <2> QED BY <2>1, <2>3, <2>4, <2>5
<1>10. CASE ServerUdpHand1
  <2>1. \/ kq' = kq
        \/ kq' = [kq EXCEPT !.s2c = <<>>]
        \/ \E n \in 0..Len(kq.s2c) : kq' = [kq EXCEPT !.s2c = SubSeq(@, 1, n)]
    BY <1>10 DEF ServerUdpHand1, ServerHand1
  <2>2. scn' = scn
    BY <1>10 DEF ServerUdpHand1
  <2>3. CASE kq' = kq
    BY <1>03, <2>2, <2>3
  <2>4. CASE kq' = [kq EXCEPT !.s2c = <<>>]
    BY <1>00, <1>02, <1>03, <2>2, <2>4 DEF Queues
  <2>5. ASSUME NEW n \in 0..Len(kq.s2c), kq' = [kq EXCEPT !.s2c = SubSeq(@, 1, n)]
        PROVE  Goal
    <3>1. Len(SubSeq(kq.s2c, 1, n)) = n
      BY <1>01
    <3>2. Len(kq'.c2s) = Len(kq.c2s) /\ Len(kq'.s2c) = n
      BY <1>00, <2>5, <3>1 DEF Queues
    <3>3. Len(kq.s2c) \in Nat
      BY <1>01
    <3> QED BY <1>02, <1>03, <2>2, <3>2, <3>3
  <2> QED BY <2>1, <2>3, <2>4, <2>5
<1>11. CASE ServerUdpHand2
  BY <1>11, <1>03 DEF ServerUdpHand2
<1>12. CASE ServerTimerAborts
  BY <1>12, <1>03 DEF ServerTimerAborts
<1>13. CASE ServerKcpRecv
  <2>1. Tail(kq.c2s) \in Seq(Letter) /\ Len(Tail(kq.c2s)) <= scn.kq
    BY <1>01, <1>02, <1>03, <1>13 DEF ServerKcpRecv
  <2>2. Len(Beat(kq.s2c, Msg("HB1", srv.heart))) <= scn.kq
    BY <1>01, <1>02, <1>03, MsgTypes, BeatBound
  <2> QED BY <1>00, <1>03, <1>13, <2>1, <2>2 DEF ServerKcpRecv, Queues
<1>14. CASE ServerHeartbeatTimer
  BY <1>14, <1>03 DEF ServerHeartbeatTimer
<1>15. CASE ServerTcpRecv
  BY <1>15, <1>03 DEF ServerTcpRecv
<1>16. CASE ServerTcpEof
  BY <1>00, <1>02, <1>03, <1>16 DEF ServerTcpEof, Queues
<1>17. ASSUME NEW force \in BOOLEAN, ClientSend(force) \/ ServerSend(force)
       PROVE  Goal
  <2>1. \A n : /\ Len(Append(kq.c2s, Msg("DATA", n))) = Len(kq.c2s) + 1
               /\ Len(Append(kq.s2c, Msg("DATA", n))) = Len(kq.s2c) + 1
    BY <1>01
  <2>2. \/ Len(kq'.c2s) = Len(kq.c2s)
        \/ Len(kq'.c2s) = Len(kq.c2s) + 1 /\ Len(kq.c2s) < scn.kq
    BY <1>00, <1>17, <2>1 DEF ClientSend, ServerSend, Queues
  <2>3. \/ Len(kq'.s2c) = Len(kq.s2c)
        \/ Len(kq'.s2c) = Len(kq.s2c) + 1 /\ Len(kq.s2c) < scn.kq
    BY <1>00, <1>17, <2>1 DEF ClientSend, ServerSend, Queues
  <2>4. Len(kq.c2s) \in Nat /\ Len(kq.s2c) \in Nat /\ scn' = scn
    BY <1>01, <1>17 DEF ClientSend, ServerSend
  <2> QED BY <1>02, <1>03, <2>2, <2>3, <2>4
<1>18. ASSUME NEW d \in UdpKinds, LoseHandshake(d) \/ DuplicateHandshake(d)
       PROVE  Goal
  BY <1>18, <1>03 DEF LoseHandshake, DuplicateHandshake, UdpKinds
<1>19. CASE PathDown
  BY <1>19, <1>03 DEF PathDown
<1>20. CASE ClientQuits
  BY <1>20, <1>03 DEF ClientQuits
<1>21. CASE Tick
  BY <1>21, <1>03 DEF Tick
<1>22. CASE UNCHANGED vars
  BY <1>22, <1>03 DEF vars
<1> QED
  BY <1>1, <1>2, <1>3, <1>4, <1>5, <1>6, <1>7, <1>8, <1>9, <1>10, <1>11, <1>12, <1>13,
     <1>14, <1>15, <1>16, <1>17, <1>18, <1>19, <1>20, <1>21, <1>22
     DEF Next, Client, Server, Application, Environment

(***************************************************************************)
(* Messages sent and datagrams repeated stay within the scenario.          *)
(***************************************************************************)
LEMMA SentStep ==
  ASSUME Shape, Bounds, [Next]_vars
  PROVE  sent'.c2s <= scn'.sends /\ sent'.s2c <= scn'.sends /\ dups' <= scn'.dups
<1> DEFINE Goal == sent'.c2s <= scn'.sends /\ sent'.s2c <= scn'.sends /\ dups' <= scn'.dups
<1>01. sent \in [c2s : Nat, s2c : Nat] /\ dups \in Nat
  BY DEF Shape
<1>02. scn.sends \in Nat /\ scn.dups \in Nat
  BY ScenariosAssumption DEF Shape, Scenario
<1>03. sent.c2s <= scn.sends /\ sent.s2c <= scn.sends /\ dups <= scn.dups
  BY DEF Bounds
<1>1. CASE Connect
  BY <1>1, <1>03 DEF Connect
<1>2. CASE TcpAccept
  BY <1>2, <1>03 DEF TcpAccept
<1>3. CASE ClientTcpRecv
  BY <1>3, <1>03 DEF ClientTcpRecv, ClientHand1, ClientUdpInvalid
<1>4. CASE ClientTcpEof
  BY <1>4, <1>03 DEF ClientTcpEof
<1>5. CASE ClientHand2
  BY <1>5, <1>03 DEF ClientHand2, Hand2Answered, ClientReady
<1>6. CASE ClientKcpRecv
  BY <1>6, <1>03 DEF ClientKcpRecv
<1>7. CASE ClientHeartbeatTimer
  BY <1>7, <1>03 DEF ClientHeartbeatTimer
<1>8. CASE Hand1Queued
  BY <1>8, <1>03 DEF Hand1Queued
<1>9. CASE ServerUdpRecvAll
  BY <1>9, <1>03 DEF ServerUdpRecvAll, ServerHand1, UdpDestroyed
<1>10. CASE ServerUdpHand1
  BY <1>10, <1>03 DEF ServerUdpHand1, ServerHand1, UdpDestroyed
<1>11. CASE ServerUdpHand2
  BY <1>11, <1>03 DEF ServerUdpHand2
<1>12. CASE ServerTimerAborts
  BY <1>12, <1>03 DEF ServerTimerAborts
<1>13. CASE ServerKcpRecv
  BY <1>13, <1>03 DEF ServerKcpRecv
<1>14. CASE ServerHeartbeatTimer
  BY <1>14, <1>03 DEF ServerHeartbeatTimer
<1>15. CASE ServerTcpRecv
  BY <1>15, <1>03 DEF ServerTcpRecv
<1>16. CASE ServerTcpEof
  BY <1>16, <1>03 DEF ServerTcpEof, CloseClient
<1>17. ASSUME NEW force \in BOOLEAN, ClientSend(force) \/ ServerSend(force)
       PROVE  Goal
  BY <1>01, <1>02, <1>03, <1>17 DEF ClientSend, ServerSend
<1>18. ASSUME NEW d \in UdpKinds, LoseHandshake(d) \/ DuplicateHandshake(d)
       PROVE  Goal
  BY <1>01, <1>02, <1>03, <1>18 DEF LoseHandshake, DuplicateHandshake
<1>19. CASE PathDown
  BY <1>19, <1>03 DEF PathDown
<1>20. CASE ClientQuits
  BY <1>20, <1>03 DEF ClientQuits
<1>21. CASE Tick
  BY <1>21, <1>03 DEF Tick
<1>22. CASE UNCHANGED vars
  BY <1>22, <1>03 DEF vars
<1> QED
  BY <1>1, <1>2, <1>3, <1>4, <1>5, <1>6, <1>7, <1>8, <1>9, <1>10, <1>11, <1>12, <1>13,
     <1>14, <1>15, <1>16, <1>17, <1>18, <1>19, <1>20, <1>21, <1>22
     DEF Next, Client, Server, Application, Environment

(***************************************************************************)
(* The ages stop at Timeout + 1, the directions at their bounds.           *)
(***************************************************************************)
LEMMA BoundsStep ==
  ASSUME Shape, Bounds, [Next]_vars
  PROVE  Bounds'
<1>1. cli'.age <= Timeout + 1 /\ srv'.age <= Timeout + 1
  <2>1. cli.age \in Nat /\ srv.age \in Nat
    BY DEF Shape, ClientRec, ServerRec
  <2>2. \A a \in Nat : a <= Timeout + 1 => Older(a) <= Timeout + 1
    BY TimeoutAssumption DEF Older
  <2> QED BY <2>1, <2>2, AgeStep, TimeoutAssumption DEF Bounds
<1> QED BY <1>1, CapStep, SentStep DEF Bounds

-----------------------------------------------------------------------------
(***************************************************************************)
(* The server's timers exist only after the client's.                      *)
(***************************************************************************)
LEMMA AnswersStep ==
  ASSUME Shape, AnswersAfterReady, [Next]_vars
  PROVE  AnswersAfterReady'
<1>0. cli \in ClientRec /\ srv \in ServerRec /\ udp \in Handshakes
  BY DEF Shape
<1>1. CASE Connect
  BY <1>1, <1>0 DEF Connect,
         AnswersAfterReady, ClientRec, ServerRec, Handshakes
<1>2. CASE TcpAccept
  BY <1>2, <1>0 DEF TcpAccept,
         AnswersAfterReady, ClientRec, ServerRec, Handshakes
<1>3. CASE ClientTcpRecv
  BY <1>3, <1>0 DEF ClientTcpRecv, ClientHand1, ClientUdpInvalid,
         AnswersAfterReady, ClientRec, ServerRec, Handshakes
<1>4. CASE ClientTcpEof
  BY <1>4, <1>0 DEF ClientTcpEof,
         AnswersAfterReady, ClientRec, ServerRec, Handshakes
<1>5. CASE ClientHand2
  <2>1. CASE udp' = [udp EXCEPT !.hand2c = @ - 1] /\ cli' = cli
    BY <1>0, <1>5, <2>1 DEF ClientHand2, AnswersAfterReady, Handshakes
  <2>2. CASE cli.status = "SHAKING" /\ cli' = IF cli.evt THEN cli ELSE ClientReady
    <3>1. cli'.evt /\ cli'.proc = cli.proc
      BY <1>0, <2>2 DEF ClientReady, ClientRec
    <3>2. cli.proc # "init" /\ srv' = srv
      BY <1>5 DEF ClientHand2, CliUp
    <3> QED BY <3>1, <3>2 DEF AnswersAfterReady
  <2> QED BY <1>5, <2>1, <2>2 DEF ClientHand2
<1>6. CASE ClientKcpRecv
  BY <1>6, <1>0 DEF ClientKcpRecv,
         AnswersAfterReady, ClientRec, ServerRec, Handshakes
<1>7. CASE ClientHeartbeatTimer
  BY <1>7, <1>0, ZenonT(30) DEF ClientHeartbeatTimer,
         AnswersAfterReady, ClientRec, ServerRec, Handshakes
<1>8. CASE Hand1Queued
  BY <1>8, <1>0 DEF Hand1Queued,
         AnswersAfterReady, ClientRec, ServerRec, Handshakes
<1>9. CASE ServerUdpRecvAll
  <2>1. cli' = cli /\ udp'.hand2s = udp.hand2s
    BY <1>9, <1>0 DEF ServerUdpRecvAll, ServerHand1, Handshakes
  <2>2. srv'.evt => srv.evt
    BY <1>9, <1>0 DEF ServerUdpRecvAll, ServerHand1, UdpDestroyed, ServerRec
  <2> QED BY <1>0, <2>1, <2>2 DEF AnswersAfterReady
<1>10. CASE ServerUdpHand1
  <2>1. cli' = cli /\ udp'.hand2s = udp.hand2s
    BY <1>10, <1>0 DEF ServerUdpHand1, ServerHand1, Handshakes
  <2>2. srv'.evt => srv.evt
    BY <1>10, <1>0 DEF ServerUdpHand1, ServerHand1, UdpDestroyed, ServerRec
  <2> QED BY <1>0, <2>1, <2>2 DEF AnswersAfterReady
<1>11. CASE ServerUdpHand2
  BY <1>11, <1>0 DEF ServerUdpHand2,
         AnswersAfterReady, ClientRec, ServerRec, Handshakes
<1>12. CASE ServerTimerAborts
  BY <1>12, <1>0 DEF ServerTimerAborts,
         AnswersAfterReady, ClientRec, ServerRec, Handshakes
<1>13. CASE ServerKcpRecv
  BY <1>13, <1>0 DEF ServerKcpRecv,
         AnswersAfterReady, ClientRec, ServerRec, Handshakes
<1>14. CASE ServerHeartbeatTimer
  BY <1>14, <1>0 DEF ServerHeartbeatTimer,
         AnswersAfterReady, ClientRec, ServerRec, Handshakes
<1>15. CASE ServerTcpRecv
  BY <1>15, <1>0 DEF ServerTcpRecv,
         AnswersAfterReady, ClientRec, ServerRec, Handshakes
<1>16. CASE ServerTcpEof
  BY <1>16, <1>0 DEF ServerTcpEof, CloseClient,
         AnswersAfterReady, ClientRec, ServerRec, Handshakes
<1>17. ASSUME NEW force \in BOOLEAN, ClientSend(force) \/ ServerSend(force)
       PROVE  AnswersAfterReady'
  BY <1>17, <1>0 DEF ClientSend, ServerSend,
         AnswersAfterReady, ClientRec, ServerRec, Handshakes
<1>18. ASSUME NEW d \in UdpKinds, LoseHandshake(d) \/ DuplicateHandshake(d)
       PROVE  AnswersAfterReady'
  BY <1>18, <1>0 DEF LoseHandshake, DuplicateHandshake, UdpKinds,
         AnswersAfterReady, ClientRec, ServerRec, Handshakes
<1>19. CASE PathDown
  BY <1>19, <1>0 DEF PathDown,
         AnswersAfterReady, ClientRec, ServerRec, Handshakes
<1>20. CASE ClientQuits
  BY <1>20, <1>0 DEF ClientQuits,
         AnswersAfterReady, ClientRec, ServerRec, Handshakes
<1>21. CASE Tick
  BY <1>21, <1>0 DEF Tick,
         AnswersAfterReady, ClientRec, ServerRec, Handshakes
<1>22. CASE UNCHANGED vars
  BY <1>22, <1>0 DEF vars,
         AnswersAfterReady, ClientRec, ServerRec, Handshakes
<1> QED
  BY <1>1, <1>2, <1>3, <1>4, <1>5, <1>6, <1>7, <1>8, <1>9, <1>10, <1>11, <1>12, <1>13,
     <1>14, <1>15, <1>16, <1>17, <1>18, <1>19, <1>20, <1>21, <1>22
     DEF Next, Client, Server, Application, Environment

-----------------------------------------------------------------------------
(***************************************************************************)
(* Reading takes the key, and no other message is taken for it.            *)
(***************************************************************************)
LEMMA TailKey ==
  ASSUME NEW q \in Seq(Packet), q # <<>>, KeyFirst(q)
  PROVE  KeyFirst(Tail(q)) /\ ~HasKey(Tail(q))
<1>1. \A i \in DOMAIN Tail(q) : i + 1 \in DOMAIN q /\ i + 1 # 1 /\ Tail(q)[i] = q[i + 1]
  OBVIOUS
<1>2. \A i \in DOMAIN Tail(q) : Tail(q)[i].type # "HAND1"
  BY <1>1 DEF KeyFirst
<1>3. Tail(q) # <<>> => 1 \in DOMAIN Tail(q)
  OBVIOUS
<1> QED BY <1>2, <1>3 DEF KeyFirst, HasKey

(***************************************************************************)
(* A packet that is no SHAKE_HAND1 leaves the key where it is.             *)
(***************************************************************************)
LEMMA AppendKey ==
  ASSUME NEW q \in Seq(Packet), KeyFirst(q), NEW type \in {"UDP_INVALID", "DATA"}, NEW val
  PROVE  KeyFirst(Append(q, Msg(type, val))) /\ HasKey(Append(q, Msg(type, val))) = HasKey(q)
<1> DEFINE m == Msg(type, val)
           r == Append(q, m)
<1>1. m.type # "HAND1"
  BY DEF Msg
<1> HIDE DEF m
<1>2. \A i \in DOMAIN r : (i \in DOMAIN q /\ r[i] = q[i]) \/ r[i] = m
  OBVIOUS
<1>3. KeyFirst(r)
  BY <1>1, <1>2 DEF KeyFirst
<1>4. CASE q = <<>>
  <2>1. r[1] = m
    BY <1>4
  <2> QED BY <1>1, <1>3, <1>4, <2>1 DEF HasKey, m
<1>5. CASE q # <<>>
  <2>1. r # <<>> /\ r[1] = q[1]
    BY <1>5
  <2> QED BY <1>3, <1>5, <2>1 DEF HasKey, m
<1> QED BY <1>4, <1>5

(***************************************************************************)
(* tcp_accept sends the key into an empty stream.                          *)
(***************************************************************************)
LEMMA KeyAlone == KeyFirst(Append(<<>>, Msg("HAND1", 0)))
<1> DEFINE m == Msg("HAND1", 0)
<1>1. DOMAIN Append(<<>>, m) = {1}
  OBVIOUS
<1> QED BY <1>1 DEF KeyFirst

(***************************************************************************)
(* The key is the first packet of the stream: tcp_accept sends it before   *)
(* anything else.                                                          *)
(***************************************************************************)
LEMMA KeyStep ==
  ASSUME Shape, NoKeyNoHand1, KeyIsFirst, [Next]_vars
  PROVE  KeyIsFirst'
<1>0. tcp \in Queues(Packet) /\ tcp.s2c \in Seq(Packet)
  BY DEF Shape, Queues
<1>1. CASE Connect
  BY <1>1 DEF Connect, KeyIsFirst
<1>2. CASE TcpAccept
  <2>1. tcp.s2c = <<>>
    BY <1>2 DEF TcpAccept, NoKeyNoHand1, KeyUnknown
  <2>2. tcp'.s2c = tcp.s2c \/ tcp'.s2c = Append(<<>>, Msg("HAND1", 0))
    BY <1>0, <1>2, <2>1 DEF TcpAccept, Queues
  <2> QED BY <2>2, KeyAlone DEF KeyIsFirst
<1>3. CASE ClientTcpRecv
  <2>1. tcp.s2c # <<>> /\ tcp'.s2c = Tail(tcp.s2c)
    BY <1>0, <1>3 DEF ClientTcpRecv, Queues
  <2> QED BY <1>0, <2>1, TailKey DEF KeyIsFirst
<1>4. CASE ClientTcpEof
  BY <1>4 DEF ClientTcpEof, KeyIsFirst
<1>5. CASE ClientHand2
  BY <1>5 DEF ClientHand2, Hand2Answered, ClientReady, KeyIsFirst
<1>6. CASE ClientKcpRecv
  BY <1>6 DEF ClientKcpRecv, KeyIsFirst
<1>7. CASE ClientHeartbeatTimer
  BY <1>7 DEF ClientHeartbeatTimer, KeyIsFirst
<1>8. CASE Hand1Queued
  BY <1>8 DEF Hand1Queued, KeyIsFirst
<1>9. CASE ServerUdpRecvAll
  BY <1>9 DEF ServerUdpRecvAll, ServerHand1, UdpDestroyed, KeyIsFirst
<1>10. CASE ServerUdpHand1
  BY <1>10 DEF ServerUdpHand1, ServerHand1, UdpDestroyed, KeyIsFirst
<1>11. CASE ServerUdpHand2
  BY <1>11 DEF ServerUdpHand2, KeyIsFirst
<1>12. CASE ServerTimerAborts
  BY <1>12 DEF ServerTimerAborts, KeyIsFirst
<1>13. CASE ServerKcpRecv
  BY <1>13 DEF ServerKcpRecv, KeyIsFirst
<1>14. CASE ServerHeartbeatTimer
  <2>1. tcp'.s2c = tcp.s2c \/ tcp'.s2c = Append(tcp.s2c, Msg("UDP_INVALID", 0))
    BY <1>0, <1>14 DEF ServerHeartbeatTimer, Queues
  <2> QED BY <1>0, <2>1, AppendKey DEF KeyIsFirst
<1>15. CASE ServerTcpRecv
  BY <1>0, <1>15 DEF ServerTcpRecv, Queues, KeyIsFirst
<1>16. CASE ServerTcpEof
  BY <1>16 DEF ServerTcpEof, CloseClient, KeyIsFirst
<1>17. ASSUME NEW force \in BOOLEAN, ClientSend(force) \/ ServerSend(force)
       PROVE  KeyIsFirst'
  <2>1. tcp'.s2c = tcp.s2c \/ \E n : tcp'.s2c = Append(tcp.s2c, Msg("DATA", n))
    BY <1>0, <1>17 DEF ClientSend, ServerSend, Queues
  <2> QED BY <1>0, <2>1, AppendKey DEF KeyIsFirst
<1>18. ASSUME NEW d \in UdpKinds, LoseHandshake(d) \/ DuplicateHandshake(d)
       PROVE  KeyIsFirst'
  BY <1>18 DEF LoseHandshake, DuplicateHandshake, UdpKinds, KeyIsFirst
<1>19. CASE PathDown
  BY <1>19 DEF PathDown, KeyIsFirst
<1>20. CASE ClientQuits
  BY <1>20 DEF ClientQuits, KeyIsFirst
<1>21. CASE Tick
  BY <1>21 DEF Tick, KeyIsFirst
<1>22. CASE UNCHANGED vars
  BY <1>22 DEF vars, KeyIsFirst
<1> QED
  BY <1>1, <1>2, <1>3, <1>4, <1>5, <1>6, <1>7, <1>8, <1>9, <1>10, <1>11, <1>12, <1>13,
     <1>14, <1>15, <1>16, <1>17, <1>18, <1>19, <1>20, <1>21, <1>22
     DEF Next, Client, Server, Application, Environment

(***************************************************************************)
(* Nobody sends a key that he does not have.                               *)
(***************************************************************************)
LEMMA NoKeyStep ==
  ASSUME Shape, NoKeyNoHand1, [Next]_vars
  PROVE  NoKeyNoHand1'
<1>0. srv \in ServerRec /\ udp \in Handshakes /\ tcp \in Queues(Packet)
  BY DEF Shape
<1>1. CASE Connect
  BY <1>1, <1>0
     DEF Connect, SrvUp, SrvGone, NoKeyNoHand1, KeyUnknown, ServerRec, Handshakes, Queues
<1>2. CASE TcpAccept
  BY <1>2, <1>0, ZenonT(30)
     DEF TcpAccept, SrvUp, SrvGone, NoKeyNoHand1, KeyUnknown, ServerRec, Handshakes, Queues
<1>3. CASE ClientTcpRecv
  BY <1>3, <1>0
     DEF ClientTcpRecv, ClientHand1, ClientUdpInvalid, SrvUp, SrvGone, NoKeyNoHand1,
         KeyUnknown, ServerRec, Handshakes, Queues
<1>4. CASE ClientTcpEof
  BY <1>4, <1>0
     DEF ClientTcpEof, SrvUp, SrvGone, NoKeyNoHand1, KeyUnknown, ServerRec, Handshakes,
         Queues
<1>5. CASE ClientHand2
  BY <1>5, <1>0
     DEF ClientHand2, Hand2Answered, ClientReady, SrvUp, SrvGone, NoKeyNoHand1, KeyUnknown,
         ServerRec, Handshakes, Queues
<1>6. CASE ClientKcpRecv
  BY <1>6, <1>0
     DEF ClientKcpRecv, SrvUp, SrvGone, NoKeyNoHand1, KeyUnknown, ServerRec, Handshakes,
         Queues
<1>7. CASE ClientHeartbeatTimer
  BY <1>7, <1>0
     DEF ClientHeartbeatTimer, SrvUp, SrvGone, NoKeyNoHand1, KeyUnknown, ServerRec,
         Handshakes, Queues
<1>8. CASE Hand1Queued
  BY <1>8, <1>0
     DEF Hand1Queued, SrvUp, SrvGone, NoKeyNoHand1, KeyUnknown, ServerRec, Handshakes,
         Queues
<1>9. CASE ServerUdpRecvAll
  <2>1. udp.main > 0
    BY <1>9 DEF ServerUdpRecvAll
  <2>2. ~KeyUnknown
    BY <1>0, <2>1 DEF NoKeyNoHand1, Handshakes
  <2>3. srv'.struct = srv.struct /\ srv'.hash = srv.hash
    BY <1>0, <1>9, ZenonT(30) DEF ServerUdpRecvAll, ServerHand1, UdpDestroyed, ServerRec
  <2> QED BY <2>2, <2>3 DEF NoKeyNoHand1, KeyUnknown
<1>10. CASE ServerUdpHand1
  <2>1. udp.hand1 > 0
    BY <1>10 DEF ServerUdpHand1
  <2>2. ~KeyUnknown
    BY <1>0, <2>1 DEF NoKeyNoHand1, Handshakes
  <2>3. srv'.struct = srv.struct /\ srv'.hash = srv.hash
    BY <1>0, <1>10, ZenonT(30) DEF ServerUdpHand1, ServerHand1, UdpDestroyed, ServerRec
  <2> QED BY <2>2, <2>3 DEF NoKeyNoHand1, KeyUnknown
<1>11. CASE ServerUdpHand2
  <2>1. /\ srv'.struct = srv.struct /\ srv'.hash = srv.hash /\ srv'.sock = srv.sock
        /\ srv'.leaked = srv.leaked /\ tcp' = tcp
    BY <1>0, <1>11 DEF ServerUdpHand2, ServerRec
  <2>2. udp'.hand1 = udp.hand1 /\ udp'.main = udp.main
    BY <1>0, <1>11 DEF ServerUdpHand2, Handshakes
  <2> QED BY <2>1, <2>2 DEF NoKeyNoHand1, KeyUnknown
<1>12. CASE ServerTimerAborts
  BY <1>12, <1>0
     DEF ServerTimerAborts, SrvUp, SrvGone, NoKeyNoHand1, KeyUnknown, ServerRec, Handshakes,
         Queues
<1>13. CASE ServerKcpRecv
  BY <1>13, <1>0
     DEF ServerKcpRecv, SrvUp, SrvGone, NoKeyNoHand1, KeyUnknown, ServerRec, Handshakes,
         Queues
<1>14. CASE ServerHeartbeatTimer
  BY <1>14, <1>0
     DEF ServerHeartbeatTimer, SrvUp, SrvGone, NoKeyNoHand1, KeyUnknown, ServerRec,
         Handshakes, Queues
<1>15. CASE ServerTcpRecv
  BY <1>15, <1>0
     DEF ServerTcpRecv, SrvUp, SrvGone, NoKeyNoHand1, KeyUnknown, ServerRec, Handshakes,
         Queues
<1>16. CASE ServerTcpEof
  BY <1>16, <1>0
     DEF ServerTcpEof, CloseClient, SrvUp, SrvGone, NoKeyNoHand1, KeyUnknown, ServerRec,
         Handshakes, Queues
<1>17. ASSUME NEW force \in BOOLEAN, ClientSend(force) \/ ServerSend(force)
       PROVE  NoKeyNoHand1'
  BY <1>17, <1>0
     DEF ClientSend, ServerSend, SrvUp, SrvGone, NoKeyNoHand1, KeyUnknown, ServerRec,
         Handshakes, Queues
<1>18. ASSUME NEW d \in UdpKinds, LoseHandshake(d) \/ DuplicateHandshake(d)
       PROVE  NoKeyNoHand1'
  BY <1>18, <1>0
     DEF LoseHandshake, DuplicateHandshake, UdpKinds, SrvUp, SrvGone, NoKeyNoHand1,
         KeyUnknown, ServerRec, Handshakes, Queues
<1>19. CASE PathDown
  BY <1>19, <1>0
     DEF PathDown, SrvUp, SrvGone, NoKeyNoHand1, KeyUnknown, ServerRec, Handshakes, Queues
<1>20. CASE ClientQuits
  BY <1>20, <1>0
     DEF ClientQuits, SrvUp, SrvGone, NoKeyNoHand1, KeyUnknown, ServerRec, Handshakes,
         Queues
<1>21. CASE Tick
  BY <1>21, <1>0
     DEF Tick, SrvUp, SrvGone, NoKeyNoHand1, KeyUnknown, ServerRec, Handshakes, Queues
<1>22. CASE UNCHANGED vars
  BY <1>22, <1>0
     DEF vars, SrvUp, SrvGone, NoKeyNoHand1, KeyUnknown, ServerRec, Handshakes, Queues
<1> QED
  BY <1>1, <1>2, <1>3, <1>4, <1>5, <1>6, <1>7, <1>8, <1>9, <1>10, <1>11, <1>12, <1>13,
     <1>14, <1>15, <1>16, <1>17, <1>18, <1>19, <1>20, <1>21, <1>22
     DEF Next, Client, Server, Application, Environment

(***************************************************************************)
(* The SHAKE_HAND1 that makes a socket is used up; the socket it replaces  *)
(* is left behind.                                                         *)
(***************************************************************************)
LEMMA Hand1Used ==
  ASSUME Shape, NEW rest \in Handshakes, ServerHand1(rest)
  PROVE  /\ udp'.hand1 = rest.hand1 /\ udp'.main = rest.main
         /\ \/ srv'.leaked = srv.leaked /\ One(srv'.sock) <= One(srv.sock)
            \/ srv'.leaked = srv.leaked + One(srv.sock) /\ One(srv'.sock) = 1
<1>0. srv \in ServerRec
  BY DEF Shape
<1>1. udp'.hand1 = rest.hand1 /\ udp'.main = rest.main
  BY DEF ServerHand1, Handshakes
<1>2. \/ srv'.leaked = srv.leaked /\ ~srv'.sock
      \/ srv'.leaked = (IF srv.sock THEN srv.leaked + 1 ELSE srv.leaked) /\ srv'.sock
  BY <1>0, ZenonT(30) DEF ServerHand1, UdpDestroyed, ServerRec
<1>3. srv.leaked \in Nat /\ srv.sock \in BOOLEAN
  BY <1>0 DEF ServerRec
<1> QED BY <1>1, <1>2, <1>3 DEF One

(***************************************************************************)
(* No SHAKE_HAND1 comes from nowhere.                                      *)
(***************************************************************************)
LEMMA CountStep ==
  ASSUME Shape, NoKeyNoHand1, KeyIsFirst, Hand1Count, [Next]_vars
  PROVE  Hand1Count'
<1>0. /\ srv \in ServerRec /\ udp \in Handshakes
      /\ tcp \in Queues(Packet) /\ tcp.s2c \in Seq(Packet)
  BY DEF Shape, Queues
<1>01. One(HasKey(tcp.s2c)) \in {0, 1} /\ One(srv.sock) \in {0, 1}
  BY DEF One
<1>02. udp.hand1 \in Nat /\ udp.main \in Nat /\ srv.leaked \in Nat /\ dups \in Nat
  BY DEF Shape, ServerRec, Handshakes
<1>1. CASE Connect
  BY <1>1, <1>0 DEF Connect, Hand1Count, ServerRec, Handshakes
<1>2. CASE TcpAccept
  <2>1. /\ udp.hand1 = 0 /\ udp.main = 0 /\ srv.leaked = 0 /\ ~srv.sock
        /\ srv'.leaked = srv.leaked /\ srv'.sock = srv.sock /\ UNCHANGED <<udp, dups>>
    BY <1>0, <1>2 DEF TcpAccept, NoKeyNoHand1, KeyUnknown, ServerRec
  <2>2. One(srv.sock) = 0
    BY <2>1 DEF One
  <2>3. One(HasKey(tcp'.s2c)) <= 1
    BY DEF One
  <2>4. One(HasKey(tcp'.s2c)) \in Nat
    BY DEF One
  <2> QED BY <1>02, <2>1, <2>2, <2>3, <2>4 DEF Hand1Count
<1>3. CASE ClientTcpRecv
  <2>1. tcp.s2c # <<>> /\ tcp'.s2c = Tail(tcp.s2c)
    BY <1>0, <1>3 DEF ClientTcpRecv, Queues
  <2>2. ~HasKey(tcp'.s2c)
    BY <1>0, <2>1, TailKey DEF KeyIsFirst
  <2>3. Head(tcp.s2c) = tcp.s2c[1]
    BY <1>0, <2>1
  <2>4. /\ udp'.main = udp.main /\ UNCHANGED <<srv, dups>>
        /\ udp'.hand1 = udp.hand1 \/ (HasKey(tcp.s2c) /\ udp'.hand1 = udp.hand1 + 1)
    BY <1>0, <1>3, <2>1, <2>3
       DEF ClientTcpRecv, ClientHand1, ClientUdpInvalid, Handshakes, HasKey
  <2>5. One(HasKey(tcp'.s2c)) = 0
    BY <2>2 DEF One
  <2>6. HasKey(tcp.s2c) => One(HasKey(tcp.s2c)) = 1
    BY DEF One
  <2> QED BY <1>01, <1>02, <2>4, <2>5, <2>6 DEF Hand1Count
<1>4. CASE ClientTcpEof
  BY <1>4, <1>0 DEF ClientTcpEof, Hand1Count, ServerRec, Handshakes
<1>5. CASE ClientHand2
  BY <1>5, <1>0 DEF ClientHand2, Hand2Answered, ClientReady, Hand1Count, ServerRec, Handshakes
<1>6. CASE ClientKcpRecv
  BY <1>6, <1>0 DEF ClientKcpRecv, Hand1Count, ServerRec, Handshakes
<1>7. CASE ClientHeartbeatTimer
  BY <1>7, <1>0 DEF ClientHeartbeatTimer, Hand1Count, ServerRec, Handshakes
<1>8. CASE Hand1Queued
  <2>1. /\ udp'.hand1 = udp.hand1 - 1 /\ udp'.main = udp.main + 1
        /\ UNCHANGED <<tcp, srv, dups>>
    BY <1>0, <1>8 DEF Hand1Queued, Handshakes
  <2> QED BY <1>01, <1>02, <2>1 DEF Hand1Count
<1>9. CASE ServerUdpRecvAll
  <2> DEFINE rest == [udp EXCEPT !.main = @ - 1]
  <2>1. udp.main > 0 /\ UNCHANGED <<tcp, dups>>
    BY <1>9 DEF ServerUdpRecvAll
  <2>2. udp.main - 1 \in Nat
    BY <1>02, <2>1
  <2>3. rest \in Handshakes /\ rest.main = udp.main - 1 /\ rest.hand1 = udp.hand1
    BY <1>0, <2>2 DEF Handshakes
  <2>4. (udp' = rest /\ srv' = srv) \/ ServerHand1(rest)
    BY <1>9 DEF ServerUdpRecvAll
  <2> HIDE DEF rest
  <2>5. /\ udp'.main = udp.main - 1 /\ udp'.hand1 = udp.hand1
        /\ \/ srv'.leaked = srv.leaked /\ One(srv'.sock) <= One(srv.sock)
           \/ srv'.leaked = srv.leaked + One(srv.sock) /\ One(srv'.sock) = 1
    BY <1>01, <2>3, <2>4, Hand1Used
  <2>6. One(srv'.sock) \in {0, 1}
    BY DEF One
  <2> QED BY <1>01, <1>02, <2>1, <2>2, <2>5, <2>6 DEF Hand1Count
<1>10. CASE ServerUdpHand1
  <2> DEFINE rest == [udp EXCEPT !.hand1 = @ - 1]
  <2>1. udp.hand1 > 0 /\ UNCHANGED <<tcp, dups>>
    BY <1>10 DEF ServerUdpHand1
  <2>2. udp.hand1 - 1 \in Nat
    BY <1>02, <2>1
  <2>3. rest \in Handshakes /\ rest.hand1 = udp.hand1 - 1 /\ rest.main = udp.main
    BY <1>0, <2>2 DEF Handshakes
  <2>4. (udp' = rest /\ srv' = srv) \/ ServerHand1(rest)
    BY <1>10 DEF ServerUdpHand1
  <2> HIDE DEF rest
  <2>5. /\ udp'.hand1 = udp.hand1 - 1 /\ udp'.main = udp.main
        /\ \/ srv'.leaked = srv.leaked /\ One(srv'.sock) <= One(srv.sock)
           \/ srv'.leaked = srv.leaked + One(srv.sock) /\ One(srv'.sock) = 1
    BY <1>01, <2>3, <2>4, Hand1Used
  <2>6. One(srv'.sock) \in {0, 1}
    BY DEF One
  <2> QED BY <1>01, <1>02, <2>1, <2>2, <2>5, <2>6 DEF Hand1Count
<1>11. CASE ServerUdpHand2
  BY <1>11, <1>0 DEF ServerUdpHand2, Hand1Count, ServerRec, Handshakes
<1>12. CASE ServerTimerAborts
  BY <1>12, <1>0 DEF ServerTimerAborts, Hand1Count, ServerRec, Handshakes
<1>13. CASE ServerKcpRecv
  BY <1>13, <1>0 DEF ServerKcpRecv, Hand1Count, ServerRec, Handshakes
<1>14. CASE ServerHeartbeatTimer
  <2>1. tcp'.s2c = tcp.s2c \/ tcp'.s2c = Append(tcp.s2c, Msg("UDP_INVALID", 0))
    BY <1>0, <1>14 DEF ServerHeartbeatTimer, Queues
  <2>2. HasKey(tcp'.s2c) = HasKey(tcp.s2c)
    BY <1>0, <2>1, AppendKey DEF KeyIsFirst
  <2>3. srv'.leaked = srv.leaked /\ srv'.sock = srv.sock /\ UNCHANGED <<udp, dups>>
    BY <1>0, <1>14 DEF ServerHeartbeatTimer, ServerRec
  <2> QED BY <2>2, <2>3 DEF Hand1Count
<1>15. CASE ServerTcpRecv
  BY <1>0, <1>15 DEF ServerTcpRecv, Hand1Count, Queues
<1>16. CASE ServerTcpEof
  <2>1. srv'.leaked = srv.leaked /\ ~srv'.sock /\ UNCHANGED <<udp, tcp, dups>>
    BY <1>0, <1>16 DEF ServerTcpEof, CloseClient, ServerRec
  <2>2. One(srv'.sock) = 0
    BY <2>1 DEF One
  <2> QED BY <1>01, <1>02, <2>1, <2>2 DEF Hand1Count
<1>17. ASSUME NEW force \in BOOLEAN, ClientSend(force) \/ ServerSend(force)
       PROVE  Hand1Count'
  <2>1. tcp'.s2c = tcp.s2c \/ \E n : tcp'.s2c = Append(tcp.s2c, Msg("DATA", n))
    BY <1>0, <1>17 DEF ClientSend, ServerSend, Queues
  <2>2. HasKey(tcp'.s2c) = HasKey(tcp.s2c)
    BY <1>0, <2>1, AppendKey DEF KeyIsFirst
  <2>3. UNCHANGED <<srv, udp, dups>>
    BY <1>17 DEF ClientSend, ServerSend
  <2> QED BY <2>2, <2>3 DEF Hand1Count
<1>18. ASSUME NEW d \in UdpKinds, LoseHandshake(d) \/ DuplicateHandshake(d)
       PROVE  Hand1Count'
  <2>1. UNCHANGED <<tcp, srv>> /\ udp'.main = udp.main
    BY <1>0, <1>18 DEF LoseHandshake, DuplicateHandshake, UdpKinds, Handshakes
  <2>2. \/ udp'.hand1 \in {udp.hand1, udp.hand1 - 1} /\ dups' = dups
        \/ udp'.hand1 \in {udp.hand1, udp.hand1 + 1} /\ dups' = dups + 1
    BY <1>0, <1>18 DEF LoseHandshake, DuplicateHandshake, UdpKinds, Handshakes
  <2> QED BY <1>01, <1>02, <2>1, <2>2 DEF Hand1Count
<1>19. CASE PathDown
  BY <1>19, <1>0 DEF PathDown, Hand1Count, ServerRec, Handshakes
<1>20. CASE ClientQuits
  BY <1>20, <1>0 DEF ClientQuits, Hand1Count, ServerRec, Handshakes
<1>21. CASE Tick
  BY <1>21, <1>0 DEF Tick, Hand1Count, ServerRec, Handshakes
<1>22. CASE UNCHANGED vars
  BY <1>22, <1>0 DEF vars, Hand1Count, ServerRec, Handshakes
<1> QED
  BY <1>1, <1>2, <1>3, <1>4, <1>5, <1>6, <1>7, <1>8, <1>9, <1>10, <1>11, <1>12, <1>13,
     <1>14, <1>15, <1>16, <1>17, <1>18, <1>19, <1>20, <1>21, <1>22
     DEF Next, Client, Server, Application, Environment

(***************************************************************************)
(* Every reachable state satisfies the invariant.                          *)
(***************************************************************************)
LEMMA InitInv ==
  ASSUME Init
  PROVE  IInv
<1>1. Shape
  <2>1. 0 \in Stamps /\ 0 \in Nat
    BY KqCapAssumption DEF Stamps
  <2>2. cli \in ClientRec /\ srv \in ServerRec /\ udp \in Handshakes
    BY <2>1 DEF Init, ClientRec, ServerRec, Handshakes, Status
  <2>3. tcp \in Queues(Packet) /\ kq \in Queues(Letter)
    BY DEF Init, Queues
  <2> QED BY <2>1, <2>2, <2>3 DEF Init, Shape
<1>2. Bounds
  <2>1. scn.kq \in Nat /\ scn.sends \in Nat /\ scn.dups \in Nat
    BY ScenariosAssumption, KqCapAssumption DEF Init, Scenario
  <2> QED BY <2>1, TimeoutAssumption DEF Init, Bounds
<1>3. KeyIsFirst /\ NoKeyNoHand1 /\ AnswersAfterReady
  BY DEF Init, KeyIsFirst, KeyFirst, NoKeyNoHand1, AnswersAfterReady
<1>4. Hand1Count
  BY DEF Init, Hand1Count, One, HasKey
<1> QED BY <1>1, <1>2, <1>3, <1>4 DEF IInv

(***************************************************************************)
(* The invariant is inductive: each part has its lemma above.              *)
(***************************************************************************)
LEMMA NextInv ==
  ASSUME IInv, [Next]_vars
  PROVE  IInv'
  BY ShapeStep, BoundsStep, KeyStep, CountStep, NoKeyStep, AnswersStep DEF IInv

(***************************************************************************)
(* Every reachable state satisfies the invariant.                          *)
(***************************************************************************)
LEMMA Invariance == Spec => []IInv
<1>1. Init => IInv
  BY InitInv
<1>2. IInv /\ [Next]_vars => IInv'
  BY NextInv
<1> QED BY <1>1, <1>2, PTL DEF Spec

(***************************************************************************)
(* Type correctness.                                                       *)
(***************************************************************************)
THEOREM TypeCorrect == Spec => []TypeOK
<1>1. IInv => TypeOK
  <2> SUFFICES ASSUME IInv PROVE TypeOK
    OBVIOUS
  <2>1. scn.dups \in Nat /\ dups <= scn.dups /\ dups \in Nat
    BY ScenariosAssumption DEF IInv, Shape, Bounds, Scenario
  <2>2. One(HasKey(tcp.s2c)) \in {0, 1} /\ One(srv.sock) \in {0, 1}
    BY DEF One
  <2>3. udp.hand1 \in Nat /\ udp.main \in Nat /\ srv.leaked \in Nat
    BY DEF IInv, Shape, Handshakes, ServerRec
  <2>4. /\ udp.hand1 \in 0..(scn.dups + 1) /\ udp.main \in 0..(scn.dups + 1)
        /\ srv.leaked \in 0..scn.dups
    BY <2>1, <2>2, <2>3 DEF IInv, Hand1Count
  <2>5. cli.age \in 0..(Timeout + 1) /\ srv.age \in 0..(Timeout + 1)
    BY TimeoutAssumption DEF IInv, Shape, Bounds, ClientRec, ServerRec
  <2>6. udp \in [hand1 : 0..(scn.dups + 1), main : 0..(scn.dups + 1), hand2c : Nat, hand2s : Nat]
    BY <2>4 DEF IInv, Shape, Handshakes
  <2>7. cli \in [proc : {"init", "up", "dead"}, sock : BOOLEAN, status : Status,
                 evt : BOOLEAN, age : 0..(Timeout + 1), due : BOOLEAN]
    BY <2>5 DEF IInv, Shape, ClientRec
  <2>8. srv \in [struct : {"none", "live", "freed", "crashed"}, hash : BOOLEAN, sock : BOOLEAN,
                 status : Status, evt : BOOLEAN, age : 0..(Timeout + 1), due : BOOLEAN,
                 heart : Stamps, kcp : {"new", "used", "reset"}, leaked : 0..scn.dups,
                 mute : BOOLEAN]
    BY <2>4, <2>5 DEF IInv, Shape, ServerRec
  <2> QED BY <2>6, <2>7, <2>8 DEF TypeOK, IInv, Shape, Bounds
<1> QED BY <1>1, Invariance, PTL

(***************************************************************************)
(* The server creates its KCP timers only for a client that has created    *)
(* its own, whatever is lost, repeated or fails.                           *)
(***************************************************************************)
THEOREM ServerFollowsClient == Spec => []ServerReadyAfterClient
<1>1. IInv => ServerReadyAfterClient
  BY DEF IInv, AnswersAfterReady, ServerReadyAfterClient
<1> QED BY <1>1, Invariance, PTL

(***************************************************************************)
(* server_udp_recv_all never finds a freed structure in the hash.          *)
(***************************************************************************)
THEOREM LookupIsSafe == Spec => []LookupFindsLive
<1>1. IInv => LookupFindsLive
  BY DEF IInv, Shape, ServerRec, Handshakes, NoKeyNoHand1, KeyUnknown, LookupFindsLive, SrvUp
<1> QED BY <1>1, Invariance, PTL

(***************************************************************************)
(* A side that had KCP and lost it does not get it back while its timers   *)
(* exist.                                                                  *)
(***************************************************************************)
THEOREM NoWayBack == Spec => NeverReadyAgain
<1> DEFINE Goal == /\ cli.evt /\ ~CliValid => ~CliValid'
                   /\ srv.evt /\ ~SrvValid => ~SrvValid'
<1>0. IInv /\ [Next]_vars => Goal
  <2> SUFFICES ASSUME IInv, [Next]_vars PROVE Goal
    OBVIOUS
  <2>0. cli \in ClientRec /\ srv \in ServerRec /\ (cli.proc = "init" => ~cli.evt)
    BY DEF IInv, Shape, AnswersAfterReady
  <2>1. CASE Connect
    BY <2>1, <2>0 DEF Connect, CliValid, SrvValid, ClientRec, ServerRec
  <2>2. CASE TcpAccept
    BY <2>2, <2>0, ZenonT(30) DEF TcpAccept, CliValid, SrvValid, ClientRec, ServerRec
  <2>3. CASE ClientTcpRecv
    BY <2>3, <2>0
       DEF ClientTcpRecv, ClientHand1, ClientUdpInvalid, CliValid, SrvValid, ClientRec,
           ServerRec
  <2>4. CASE ClientTcpEof
    BY <2>4, <2>0 DEF ClientTcpEof, CliValid, SrvValid, ClientRec, ServerRec
  <2>5. CASE ClientHand2
    BY <2>5, <2>0
       DEF ClientHand2, Hand2Answered, ClientReady, CliValid, SrvValid, ClientRec, ServerRec
  <2>6. CASE ClientKcpRecv
    BY <2>6, <2>0 DEF ClientKcpRecv, CliValid, SrvValid, ClientRec, ServerRec
  <2>7. CASE ClientHeartbeatTimer
    BY <2>7, <2>0 DEF ClientHeartbeatTimer, CliValid, SrvValid, ClientRec, ServerRec
  <2>8. CASE Hand1Queued
    BY <2>8, <2>0 DEF Hand1Queued, CliValid, SrvValid, ClientRec, ServerRec
  <2>9. CASE ServerUdpRecvAll
    BY <2>9, <2>0, ZenonT(30)
       DEF ServerUdpRecvAll, ServerHand1, UdpDestroyed, CliValid, SrvValid, ClientRec,
           ServerRec
  <2>10. CASE ServerUdpHand1
    BY <2>10, <2>0
       DEF ServerUdpHand1, ServerHand1, UdpDestroyed, CliValid, SrvValid, ClientRec, ServerRec
  <2>11. CASE ServerUdpHand2
    <3>1. CASE srv' = srv /\ cli' = cli
      BY <3>1 DEF CliValid, SrvValid
    <3>2. CASE Hand2Accepted /\ cli' = cli
      BY <3>2 DEF Hand2Accepted, CliValid
    <3> QED BY <2>11, <3>1, <3>2 DEF ServerUdpHand2
  <2>12. CASE ServerTimerAborts
    BY <2>12, <2>0 DEF ServerTimerAborts, CliValid, SrvValid, ClientRec, ServerRec
  <2>13. CASE ServerKcpRecv
    BY <2>13, <2>0 DEF ServerKcpRecv, CliValid, SrvValid, ClientRec, ServerRec
  <2>14. CASE ServerHeartbeatTimer
    BY <2>14, <2>0 DEF ServerHeartbeatTimer, CliValid, SrvValid, ClientRec, ServerRec
  <2>15. CASE ServerTcpRecv
    BY <2>15, <2>0 DEF ServerTcpRecv, CliValid, SrvValid, ClientRec, ServerRec
  <2>16. CASE ServerTcpEof
    BY <2>16, <2>0 DEF ServerTcpEof, CloseClient, CliValid, SrvValid, ClientRec, ServerRec
  <2>17. ASSUME NEW force \in BOOLEAN, ClientSend(force) \/ ServerSend(force)
         PROVE  Goal
    BY <2>17, <2>0 DEF ClientSend, ServerSend, CliValid, SrvValid, ClientRec, ServerRec
  <2>18. ASSUME NEW d \in UdpKinds, LoseHandshake(d) \/ DuplicateHandshake(d)
         PROVE  Goal
    BY <2>18, <2>0
       DEF LoseHandshake, DuplicateHandshake, UdpKinds, CliValid, SrvValid, ClientRec,
           ServerRec
  <2>19. CASE PathDown
    BY <2>19, <2>0 DEF PathDown, CliValid, SrvValid, ClientRec, ServerRec
  <2>20. CASE ClientQuits
    BY <2>20, <2>0 DEF ClientQuits, CliValid, SrvValid, ClientRec, ServerRec
  <2>21. CASE Tick
    BY <2>21, <2>0 DEF Tick, CliValid, SrvValid, ClientRec, ServerRec
  <2>22. CASE UNCHANGED vars
    BY <2>22, <2>0 DEF vars, CliValid, SrvValid, ClientRec, ServerRec
  <2> QED
    BY <2>1, <2>2, <2>3, <2>4, <2>5, <2>6, <2>7, <2>8, <2>9, <2>10, <2>11, <2>12, <2>13,
       <2>14, <2>15, <2>16, <2>17, <2>18, <2>19, <2>20, <2>21, <2>22
       DEF Next, Client, Server, Application, Environment
<1> QED BY <1>0, Invariance, PTL DEF Spec, NeverReadyAgain

-----------------------------------------------------------------------------
(***************************************************************************)
(* What has gone wrong stays wrong.                                        *)
(***************************************************************************)
LEMMA FaultsGrow ==
  ASSUME Shape, [Next]_vars
  PROVE  scn' = scn /\ (path' => path) /\ (losses' = 0 => losses = 0) /\ (dups' = 0 => dups = 0)
<1> DEFINE Goal == /\ scn' = scn /\ (path' => path)
                   /\ (losses' = 0 => losses = 0) /\ (dups' = 0 => dups = 0)
<1>0. losses \in Nat /\ dups \in Nat
  BY DEF Shape
<1>1. CASE Connect
  BY <1>1, <1>0 DEF Connect
<1>2. CASE TcpAccept
  BY <1>2, <1>0 DEF TcpAccept
<1>3. CASE ClientTcpRecv
  BY <1>3, <1>0 DEF ClientTcpRecv, ClientHand1, ClientUdpInvalid
<1>4. CASE ClientTcpEof
  BY <1>4, <1>0 DEF ClientTcpEof
<1>5. CASE ClientHand2
  BY <1>5, <1>0 DEF ClientHand2, Hand2Answered, ClientReady
<1>6. CASE ClientKcpRecv
  BY <1>6, <1>0 DEF ClientKcpRecv
<1>7. CASE ClientHeartbeatTimer
  BY <1>7, <1>0 DEF ClientHeartbeatTimer
<1>8. CASE Hand1Queued
  BY <1>8, <1>0 DEF Hand1Queued
<1>9. CASE ServerUdpRecvAll
  BY <1>9, <1>0 DEF ServerUdpRecvAll, ServerHand1, UdpDestroyed
<1>10. CASE ServerUdpHand1
  BY <1>10, <1>0 DEF ServerUdpHand1, ServerHand1, UdpDestroyed
<1>11. CASE ServerUdpHand2
  BY <1>11, <1>0 DEF ServerUdpHand2
<1>12. CASE ServerTimerAborts
  BY <1>12, <1>0 DEF ServerTimerAborts
<1>13. CASE ServerKcpRecv
  BY <1>13, <1>0 DEF ServerKcpRecv
<1>14. CASE ServerHeartbeatTimer
  BY <1>14, <1>0 DEF ServerHeartbeatTimer
<1>15. CASE ServerTcpRecv
  BY <1>15, <1>0 DEF ServerTcpRecv
<1>16. CASE ServerTcpEof
  BY <1>16, <1>0 DEF ServerTcpEof, CloseClient
<1>17. ASSUME NEW force \in BOOLEAN, ClientSend(force) \/ ServerSend(force)
       PROVE  Goal
  BY <1>17, <1>0 DEF ClientSend, ServerSend
<1>18. ASSUME NEW d \in UdpKinds, LoseHandshake(d) \/ DuplicateHandshake(d)
       PROVE  Goal
  BY <1>18, <1>0 DEF LoseHandshake, DuplicateHandshake, UdpKinds
<1>19. CASE PathDown
  BY <1>19, <1>0 DEF PathDown
<1>20. CASE ClientQuits
  BY <1>20, <1>0 DEF ClientQuits
<1>21. CASE Tick
  BY <1>21, <1>0 DEF Tick
<1>22. CASE UNCHANGED vars
  BY <1>22, <1>0 DEF vars
<1> QED
  BY <1>1, <1>2, <1>3, <1>4, <1>5, <1>6, <1>7, <1>8, <1>9, <1>10, <1>11, <1>12, <1>13,
     <1>14, <1>15, <1>16, <1>17, <1>18, <1>19, <1>20, <1>21, <1>22
     DEF Next, Client, Server, Application, Environment

(***************************************************************************)
(* A calm state is reached through calm states only.                       *)
(***************************************************************************)
LEMMA CalmBefore ==
  ASSUME Shape, [Next]_vars, Calm'
  PROVE  Calm /\ losses' = 0 /\ dups' = 0 /\ losses = 0 /\ dups = 0 /\ path' /\ \A x : ~May(x)
  BY FaultsGrow DEF Calm, Fast, May

(***************************************************************************)
(* The handshake is in one place at a time.                                *)
(***************************************************************************)
LEMMA OnePlace ==
  ASSUME Shape, OneHandshake
  PROVE  /\ HasKey(tcp.s2c) => /\ udp.hand1 = 0 /\ udp.main = 0 /\ udp.hand2c = 0 /\ udp.hand2s = 0
                               /\ ~srv.evt /\ srv.struct = "live"
         /\ udp.hand1 > 0 => /\ ~HasKey(tcp.s2c) /\ udp.hand1 = 1 /\ udp.main = 0 /\ udp.hand2c = 0
                             /\ udp.hand2s = 0 /\ ~srv.evt /\ srv.struct = "live"
         /\ udp.main > 0 => /\ ~HasKey(tcp.s2c) /\ udp.hand1 = 0 /\ udp.main = 1 /\ udp.hand2c = 0
                            /\ udp.hand2s = 0 /\ ~srv.evt /\ srv.struct = "live"
         /\ udp.hand2c > 0 => /\ ~HasKey(tcp.s2c) /\ udp.hand1 = 0 /\ udp.main = 0 /\ udp.hand2c = 1
                              /\ udp.hand2s = 0 /\ ~srv.evt /\ srv.struct = "live"
         /\ udp.hand2s > 0 => /\ ~HasKey(tcp.s2c) /\ udp.hand1 = 0 /\ udp.main = 0 /\ udp.hand2c = 0
                              /\ udp.hand2s = 1 /\ ~srv.evt /\ srv.struct = "live"
         /\ srv.evt => /\ ~HasKey(tcp.s2c) /\ udp.hand1 = 0 /\ udp.main = 0 /\ udp.hand2c = 0
                       /\ udp.hand2s = 0 /\ srv.struct = "live"
<1>1. udp.hand1 \in Nat /\ udp.main \in Nat /\ udp.hand2c \in Nat /\ udp.hand2s \in Nat
  BY DEF Shape, Handshakes
<1> DEFINE k == One(HasKey(tcp.s2c))
           v == One(srv.evt)
           t == One(srv.struct = "live")
<1>2. /\ k \in Nat /\ v \in Nat /\ t \in {0, 1}
      /\ k + udp.hand1 + udp.main + udp.hand2c + udp.hand2s + v = t
  BY DEF One, OneHandshake
<1>3. /\ HasKey(tcp.s2c) => k > 0
      /\ k = 0 => ~HasKey(tcp.s2c)
      /\ srv.evt => v > 0
      /\ v = 0 => ~srv.evt
      /\ t = 1 => srv.struct = "live"
  BY DEF One
<1> HIDE DEF k, v, t
<1>4. PICK a \in Nat, b \in Nat, c \in Nat, d \in Nat, e \in Nat, f \in Nat, n \in {0, 1} :
        /\ a = k /\ b = udp.hand1 /\ c = udp.main /\ d = udp.hand2c /\ e = udp.hand2s /\ f = v
        /\ n = t
  BY <1>1, <1>2
<1>5. a + b + c + d + e + f = n
  BY <1>2, <1>4
<1>6. /\ a > 0 => b = 0 /\ c = 0 /\ d = 0 /\ e = 0 /\ f = 0 /\ n = 1
      /\ b > 0 => a = 0 /\ b = 1 /\ c = 0 /\ d = 0 /\ e = 0 /\ f = 0 /\ n = 1
      /\ c > 0 => a = 0 /\ b = 0 /\ c = 1 /\ d = 0 /\ e = 0 /\ f = 0 /\ n = 1
      /\ d > 0 => a = 0 /\ b = 0 /\ c = 0 /\ d = 1 /\ e = 0 /\ f = 0 /\ n = 1
      /\ e > 0 => a = 0 /\ b = 0 /\ c = 0 /\ d = 0 /\ e = 1 /\ f = 0 /\ n = 1
      /\ f > 0 => a = 0 /\ b = 0 /\ c = 0 /\ d = 0 /\ e = 0 /\ n = 1
  BY <1>5
<1> QED BY <1>3, <1>4, <1>6

(***************************************************************************)
(* Until SHAKE_HAND1 has arrived the server has no socket; from then on it *)
(* has one.                                                                *)
(***************************************************************************)
LEMMA HandshakeElsewhere ==
  ASSUME Shape, OneHandshake
  PROVE  /\ udp.hand1 > 0 \/ udp.main > 0 => ~srv.sock /\ ~srv.evt
         /\ srv.evt => srv.sock
<1>1. udp.hand1 \in Nat /\ udp.main \in Nat /\ udp.hand2c \in Nat /\ udp.hand2s \in Nat
  BY DEF Shape, Handshakes
<1>2. One(TRUE) = 1 /\ One(FALSE) = 0 /\ srv.evt \in BOOLEAN
  BY DEF One, Shape, ServerRec
<1>3. srv.sock <=> udp.hand2c + udp.hand2s + One(srv.evt) > 0
  BY DEF OneHandshake
<1>4. /\ udp.hand1 > 0 \/ udp.main > 0 => udp.hand2c = 0 /\ udp.hand2s = 0 /\ ~srv.evt
      /\ srv.evt => udp.hand2c = 0 /\ udp.hand2s = 0
  BY OnePlace
<1>5. /\ udp.hand2c = 0 /\ udp.hand2s = 0 /\ ~srv.evt => ~srv.sock
      /\ udp.hand2c = 0 /\ udp.hand2s = 0 /\ srv.evt => srv.sock
  BY <1>3 DEF One
<1> QED BY <1>4, <1>5

(***************************************************************************)
(* While nothing fails both structures live and the client keeps its       *)
(* state.                                                                  *)
(***************************************************************************)
LEMMA BothLiveStep ==
  ASSUME IInv, CalmInv, [Next]_vars, Calm'
  PROVE  BothLive'
<1>00. Calm /\ losses' = 0 /\ dups' = 0 /\ losses = 0 /\ dups = 0 /\ path' /\ \A x : ~May(x)
  BY CalmBefore DEF IInv
<1>0. /\ cli \in ClientRec /\ srv \in ServerRec /\ udp \in Handshakes /\ tcp \in Queues(Packet)
      /\ tcp.s2c \in Seq(Packet)
  BY DEF IInv, Shape, Queues
<1> USE DEF IInv, CalmInv
<1>1. CASE Connect
  BY <1>1, <1>0, <1>00 DEF Connect, BothLive, ClientRec, ServerRec, CliUp, SrvGone
<1>2. CASE TcpAccept
  <2>1. tcp.s2c = <<>> /\ cli.proc = "up"
    BY <1>2 DEF TcpAccept, NoKeyNoHand1, KeyUnknown, CliUp
  <2>2. tcp'.s2c = Append(<<>>, Msg("HAND1", 0))
    BY <1>0, <1>00, <1>2, <2>1 DEF TcpAccept, Queues
  <2>3. \A i \in DOMAIN tcp'.s2c : tcp'.s2c[i].type = "HAND1"
    <3> DEFINE m == Msg("HAND1", 0)
    <3>1. m.type = "HAND1"
      BY DEF Msg
    <3> HIDE DEF m
    <3>2. \A i \in DOMAIN Append(<<>>, m) : Append(<<>>, m)[i] = m
      OBVIOUS
    <3> QED BY <2>2, <3>1, <3>2 DEF m
  <2>4. srv' = [srv EXCEPT !.struct = "live", !.hash = TRUE] /\ cli' = cli
    BY <1>00, <1>2 DEF TcpAccept
  <2> QED BY <1>0, <2>1, <2>3, <2>4 DEF BothLive, ServerRec
<1>3. CASE ClientTcpRecv
  <2>1. tcp.s2c # <<>> /\ tcp'.s2c = Tail(tcp.s2c)
    BY <1>0, <1>3 DEF ClientTcpRecv, Queues
  <2>2. Head(tcp.s2c) = tcp.s2c[1] /\ 1 \in DOMAIN tcp.s2c
    BY <1>0, <2>1
  <2>3. \A i \in DOMAIN Tail(tcp.s2c) : \E j \in DOMAIN tcp.s2c : Tail(tcp.s2c)[i] = tcp.s2c[j]
    BY <1>0, <2>1
  <2>4. cli'.proc = cli.proc /\ cli'.sock = cli.sock /\ srv' = srv
    BY <1>0, <1>00, <1>3, <2>2
       DEF ClientTcpRecv, ClientHand1, ClientUdpInvalid, ClientRec, BothLive
  <2> QED BY <2>1, <2>3, <2>4 DEF BothLive
<1>4. CASE ClientTcpEof
  BY <1>4, <1>0, <1>00 DEF ClientTcpEof, BothLive, ClientRec, ServerRec, CliUp, SrvGone
<1>5. CASE ClientHand2
  BY <1>5, <1>0, <1>00, ZenonT(30)
     DEF ClientHand2, Hand2Answered, ClientReady, BothLive, ClientRec, ServerRec, CliUp,
         SrvGone
<1>6. CASE ClientKcpRecv
  BY <1>6, <1>0, <1>00 DEF ClientKcpRecv, BothLive, ClientRec, ServerRec, CliUp, SrvGone
<1>7. CASE ClientHeartbeatTimer
  BY <1>7, <1>0, <1>00 DEF ClientHeartbeatTimer, BothLive, ClientRec, ServerRec, CliUp, SrvGone
<1>8. CASE Hand1Queued
  BY <1>8, <1>0, <1>00 DEF Hand1Queued, BothLive, ClientRec, ServerRec, CliUp, SrvGone
<1>9. CASE ServerUdpRecvAll
  <2>1. ~srv.sock /\ ~srv.evt
    BY <1>9, HandshakeElsewhere DEF ServerUdpRecvAll
  <2>2. srv.kcp = "new"
    BY <2>1 DEF OneHandshake
  <2>3. /\ srv'.struct = srv.struct /\ srv'.hash = srv.hash /\ srv'.leaked = srv.leaked
        /\ srv'.mute = srv.mute /\ srv'.kcp \in {"new", srv.kcp}
    BY <1>0, <1>00, <1>9, <2>1, <2>2
       DEF ServerUdpRecvAll, ServerHand1, Replaced, ServerRec
  <2> QED BY <1>9, <2>2, <2>3 DEF BothLive, ServerUdpRecvAll
<1>10. CASE ServerUdpHand1
  BY <1>10, HandshakeElsewhere DEF ServerUdpHand1, ToMain, BothLive
<1>11. CASE ServerUdpHand2
  <2>1. /\ srv'.struct = srv.struct /\ srv'.hash = srv.hash /\ srv'.leaked = srv.leaked
        /\ srv'.mute = srv.mute /\ srv'.kcp \in {"used", srv.kcp}
    BY <1>0, <1>11 DEF ServerUdpHand2, ServerRec
  <2> QED BY <1>11, <2>1 DEF BothLive, ServerUdpHand2
<1>12. CASE ServerTimerAborts
  BY <1>12, HandshakeElsewhere DEF ServerTimerAborts
<1>13. CASE ServerKcpRecv
  BY <1>13, <1>0, <1>00 DEF ServerKcpRecv, BothLive, ClientRec, ServerRec, CliUp, SrvGone
<1>14. CASE ServerHeartbeatTimer
  <2>1. ~Expired(srv.age)
    BY <1>0, TimeoutAssumption DEF AgesLow, Expired, ServerRec
  <2>2. srv' = [srv EXCEPT !.due = FALSE, !.status = srv.status] /\ UNCHANGED <<cli, tcp>>
    BY <1>0, <1>14, <2>1 DEF ServerHeartbeatTimer, ServerRec
  <2> QED BY <1>0, <2>2 DEF BothLive, ServerRec
<1>15. CASE ServerTcpRecv
  BY <1>0, <1>15 DEF ServerTcpRecv, BothLive, Queues
<1>16. CASE ServerTcpEof
  BY <1>16, <1>0, <1>00
     DEF ServerTcpEof, CloseClient, BothLive, ClientRec, ServerRec, CliUp, SrvGone
<1>17. ASSUME NEW force \in BOOLEAN, ClientSend(force) \/ ServerSend(force)
       PROVE  BothLive'
  <2>1. tcp'.s2c = tcp.s2c \/ \E n : tcp'.s2c = Append(tcp.s2c, Msg("DATA", n))
    BY <1>0, <1>17 DEF ClientSend, ServerSend, Queues
  <2>2. \A n : Msg("DATA", n).type = "DATA"
    BY DEF Msg
  <2>3. \A m : \A i \in DOMAIN Append(tcp.s2c, m) :
          Append(tcp.s2c, m)[i] = m \/ (i \in DOMAIN tcp.s2c /\ Append(tcp.s2c, m)[i] = tcp.s2c[i])
    BY <1>0
  <2>4. UNCHANGED <<cli, srv>>
    BY <1>17 DEF ClientSend, ServerSend
  <2> QED BY <2>1, <2>2, <2>3, <2>4 DEF BothLive
<1>18. ASSUME NEW d \in UdpKinds, LoseHandshake(d) \/ DuplicateHandshake(d)
       PROVE  BothLive'
  BY <1>00, <1>18 DEF LoseHandshake, DuplicateHandshake
<1>19. CASE PathDown
  BY <1>19, <1>0, <1>00 DEF PathDown, BothLive, ClientRec, ServerRec, CliUp, SrvGone
<1>20. CASE ClientQuits
  BY <1>20, <1>0, <1>00 DEF ClientQuits, BothLive, ClientRec, ServerRec, CliUp, SrvGone
<1>21. CASE Tick
  BY <1>21, <1>0, <1>00 DEF Tick, BothLive, ClientRec, ServerRec, CliUp, SrvGone
<1>22. CASE UNCHANGED vars
  BY <1>22, <1>0, <1>00 DEF vars, BothLive, ClientRec, ServerRec, CliUp, SrvGone
<1> QED
  BY <1>1, <1>2, <1>3, <1>4, <1>5, <1>6, <1>7, <1>8, <1>9, <1>10, <1>11, <1>12, <1>13,
     <1>14, <1>15, <1>16, <1>17, <1>18, <1>19, <1>20, <1>21, <1>22
     DEF Next, Client, Server, Application, Environment

(***************************************************************************)
(* The handshake goes from one side to the other.                          *)
(***************************************************************************)
LEMMA HandshakeStep ==
  ASSUME IInv, CalmInv, [Next]_vars, Calm'
  PROVE  OneHandshake'
<1>00. Calm /\ losses' = 0 /\ dups' = 0 /\ losses = 0 /\ dups = 0 /\ path' /\ \A x : ~May(x)
  BY CalmBefore DEF IInv
<1>0. /\ cli \in ClientRec /\ srv \in ServerRec /\ udp \in Handshakes /\ tcp \in Queues(Packet)
      /\ tcp.s2c \in Seq(Packet)
  BY DEF IInv, Shape, Queues
<1>01. /\ udp.hand1 \in Nat /\ udp.main \in Nat /\ udp.hand2c \in Nat /\ udp.hand2s \in Nat
       /\ One(HasKey(tcp.s2c)) \in {0, 1} /\ One(srv.struct = "live") \in {0, 1}
  BY <1>0 DEF Handshakes, One
<1>02. /\ srv.sock \in BOOLEAN /\ srv.evt \in BOOLEAN
       /\ One(srv.evt) = IF srv.evt THEN 1 ELSE 0
  BY <1>0 DEF ServerRec, One
<1> USE DEF IInv, CalmInv
<1>1. CASE Connect
  BY <1>1, <1>0, <1>00 DEF Connect, OneHandshake, ClientRec, ServerRec
<1>2. CASE TcpAccept
  <2>1. tcp.s2c = <<>> /\ udp.hand1 = 0 /\ udp.main = 0 /\ ~srv.sock /\ srv.struct = "none"
    BY <1>2 DEF TcpAccept, NoKeyNoHand1, KeyUnknown
  <2>2. tcp'.s2c = Append(<<>>, Msg("HAND1", 0))
    BY <1>0, <1>00, <1>2, <2>1 DEF TcpAccept, Queues
  <2>3. HasKey(tcp'.s2c) /\ ~HasKey(tcp.s2c)
    <3> DEFINE m == Msg("HAND1", 0)
    <3>1. m.type = "HAND1"
      BY DEF Msg
    <3> HIDE DEF m
    <3>2. Append(<<>>, m) # <<>> /\ Append(<<>>, m)[1] = m
      OBVIOUS
    <3> QED BY <2>1, <2>2, <3>1, <3>2 DEF m, HasKey
  <2>4. /\ srv'.struct = "live" /\ srv'.sock = srv.sock /\ srv'.status = srv.status
        /\ srv'.evt = srv.evt /\ srv'.kcp = srv.kcp /\ UNCHANGED <<cli, udp>>
    BY <1>0, <1>00, <1>2 DEF TcpAccept, ServerRec
  <2>5. /\ One(HasKey(tcp'.s2c)) = 1 /\ One(HasKey(tcp.s2c)) = 0
        /\ One(srv'.struct = "live") = 1 /\ One(srv.struct = "live") = 0
    BY <2>1, <2>3, <2>4 DEF One
  <2>6. udp.hand2c = 0 /\ udp.hand2s = 0 /\ ~srv.evt
    BY <1>01, <2>1, OnePlace
  <2>7. One(srv.evt) = 0 /\ One(srv'.evt) = 0
    BY <2>4, <2>6 DEF One
  <2> QED BY <2>1, <2>4, <2>5, <2>6, <2>7 DEF OneHandshake
<1>3. CASE ClientTcpRecv
  <2>1. tcp.s2c # <<>> /\ tcp'.s2c = Tail(tcp.s2c) /\ srv' = srv /\ CliUp
    BY <1>0, <1>3 DEF ClientTcpRecv, Queues
  <2>2. ~HasKey(tcp'.s2c)
    BY <1>0, <2>1, TailKey DEF KeyIsFirst
  <2>3. Head(tcp.s2c) = tcp.s2c[1] /\ 1 \in DOMAIN tcp.s2c
    BY <1>0, <2>1
  <2>4. \/ HasKey(tcp.s2c) /\ ClientHand1
        \/ ~HasKey(tcp.s2c) /\ UNCHANGED <<cli, udp>>
    BY <1>3, <2>1, <2>3 DEF ClientTcpRecv, HasKey, BothLive
  <2>5. One(HasKey(tcp'.s2c)) = 0 /\ One(HasKey(tcp.s2c)) = IF HasKey(tcp.s2c) THEN 1 ELSE 0
    BY <2>2 DEF One
  <2>6. CASE ~HasKey(tcp.s2c) /\ UNCHANGED <<cli, udp>>
    <3>1. One(HasKey(tcp'.s2c)) = One(HasKey(tcp.s2c))
      BY <2>5, <2>6
    <3> QED BY <2>1, <2>6, <3>1 DEF OneHandshake
  <2>7. CASE HasKey(tcp.s2c) /\ ClientHand1
    <3>1. cli.sock
      BY <2>1 DEF BothLive, CliUp
    <3>2. /\ cli' = [cli EXCEPT !.status = "SHAKING"]
          /\ udp' = [udp EXCEPT !.hand1 = @ + 1]
      BY <1>00, <2>7, <3>1 DEF ClientHand1
    <3>3. cli'.status = "SHAKING" /\ cli'.evt = cli.evt
      BY <1>0, <3>2 DEF ClientRec, Status
    <3>4. /\ udp'.hand1 = udp.hand1 + 1 /\ udp'.main = udp.main
          /\ udp'.hand2c = udp.hand2c /\ udp'.hand2s = udp.hand2s
      BY <1>0, <3>2 DEF Handshakes
    <3>5. /\ udp.hand1 = 0 /\ udp.main = 0 /\ udp.hand2c = 0 /\ udp.hand2s = 0 /\ One(srv.evt) = 0
          /\ One(srv.struct = "live") = 1
      BY <2>7, OnePlace DEF One
    <3>6. ~cli.evt
      BY <3>5 DEF OneHandshake
    <3> QED BY <2>1, <2>5, <3>3, <3>4, <3>5, <3>6 DEF OneHandshake
  <2> QED BY <2>4, <2>6, <2>7
<1>4. CASE ClientTcpEof
  BY <1>4 DEF ClientTcpEof, SrvGone, BothLive
<1>5. CASE ClientHand2
  <2>1. udp.hand2c > 0 /\ UNCHANGED <<srv, tcp>>
    BY <1>5 DEF ClientHand2
  <2>2. /\ One(HasKey(tcp.s2c)) = 0 /\ udp.hand1 = 0 /\ udp.main = 0 /\ udp.hand2c = 1
        /\ udp.hand2s = 0 /\ One(srv.evt) = 0 /\ One(srv.struct = "live") = 1
    BY <2>1, OnePlace DEF One
  <2>3. cli.status = "SHAKING" /\ ~cli.evt
    BY <2>2 DEF OneHandshake
  <2>4. cli' = ClientReady /\ udp' = Hand2Answered([udp EXCEPT !.hand2c = @ - 1])
    BY <1>00, <1>5, <2>3 DEF ClientHand2
  <2>5. cli'.status = "READY" /\ cli'.evt
    BY <1>0, <2>4 DEF ClientReady, ClientRec
  <2>6. udp'.hand1 = 0 /\ udp'.main = 0 /\ udp'.hand2c = 0 /\ udp'.hand2s = 1
    BY <1>0, <2>2, <2>4 DEF Hand2Answered, Handshakes
  <2> QED BY <2>1, <2>2, <2>5, <2>6 DEF OneHandshake
<1>6. CASE ClientKcpRecv
  BY <1>6, <1>0, <1>00 DEF ClientKcpRecv, OneHandshake, ClientRec, ServerRec
<1>7. CASE ClientHeartbeatTimer
  <2>1. ~Expired(cli.age)
    BY <1>0, TimeoutAssumption DEF AgesLow, Expired, ClientRec
  <2>2. cli' = [cli EXCEPT !.due = FALSE] /\ UNCHANGED <<srv, tcp, udp>>
    BY <1>7, <2>1 DEF ClientHeartbeatTimer
  <2> QED BY <1>0, <2>2 DEF OneHandshake, ClientRec
<1>8. CASE Hand1Queued
  <2>1. /\ udp.hand1 > 0 /\ udp'.hand1 = udp.hand1 - 1 /\ udp'.main = udp.main + 1
        /\ udp'.hand2c = udp.hand2c /\ udp'.hand2s = udp.hand2s /\ UNCHANGED <<cli, srv, tcp>>
    BY <1>0, <1>8 DEF Hand1Queued, Handshakes
  <2> QED BY <1>01, <1>02, <2>1 DEF OneHandshake
<1>9. CASE ServerUdpRecvAll
  <2>1. udp.main > 0 /\ UNCHANGED <<cli, tcp>>
    BY <1>9 DEF ServerUdpRecvAll
  <2>2. /\ One(HasKey(tcp.s2c)) = 0 /\ udp.hand1 = 0 /\ udp.main = 1 /\ udp.hand2c = 0
        /\ udp.hand2s = 0 /\ One(srv.evt) = 0 /\ One(srv.struct = "live") = 1
    BY <2>1, OnePlace DEF One
  <2>3. ~srv.evt /\ ~srv.sock /\ srv.struct = "live" /\ srv.kcp = "new"
    BY <1>02, <2>2 DEF OneHandshake, One
  <2>4. ServerHand1([udp EXCEPT !.main = @ - 1])
    BY <1>9, <2>3 DEF ServerUdpRecvAll, BothLive
  <2>5. /\ srv'.status = "SHAKING" /\ ~srv'.evt /\ srv'.sock /\ srv'.kcp = "new"
        /\ srv'.struct = srv.struct
    BY <1>0, <1>00, <2>3, <2>4 DEF ServerHand1, Replaced, ServerRec, Status
  <2>6. udp'.hand1 = 0 /\ udp'.main = 0 /\ udp'.hand2c = 1 /\ udp'.hand2s = 0
    <3> DEFINE rest == [udp EXCEPT !.main = @ - 1]
    <3>1. rest.hand1 = 0 /\ rest.main = 0 /\ rest.hand2c = 0 /\ rest.hand2s = 0
      BY <1>0, <2>2 DEF Handshakes
    <3>2. udp' = [rest EXCEPT !.hand2c = @ + 1] /\ DOMAIN rest = DOMAIN udp
      BY <1>00, <2>4 DEF ServerHand1
    <3>3. DOMAIN udp = {"hand1", "main", "hand2c", "hand2s"}
      BY <1>0 DEF Handshakes
    <3> HIDE DEF rest
    <3> QED BY <3>1, <3>2, <3>3
  <2>7. One(srv'.evt) = 0
    BY <2>5 DEF One
  <2> QED BY <2>1, <2>2, <2>5, <2>6, <2>7 DEF OneHandshake
<1>10. CASE ServerUdpHand1
  BY <1>10, HandshakeElsewhere DEF ServerUdpHand1, ToMain, BothLive
<1>11. CASE ServerUdpHand2
  <2>1. udp.hand2s > 0 /\ UNCHANGED <<cli, tcp>>
    BY <1>11 DEF ServerUdpHand2
  <2>2. /\ One(HasKey(tcp.s2c)) = 0 /\ udp.hand1 = 0 /\ udp.main = 0 /\ udp.hand2c = 0
        /\ udp.hand2s = 1 /\ One(srv.evt) = 0 /\ One(srv.struct = "live") = 1
    BY <2>1, OnePlace DEF One
  <2>3. ~srv.evt /\ srv.sock /\ srv.status = "SHAKING"
        /\ srv.struct = "live" /\ cli.status = "READY"
    BY <1>02, <2>2 DEF OneHandshake, One
  <2>4. Hand2Accepted /\ ~srv.mute
    BY <2>3 DEF Hand2Accepted, BothLive
  <2>5. /\ srv'.status = "READY" /\ srv'.evt /\ srv'.sock = srv.sock
        /\ srv'.struct = srv.struct
    BY <1>0, <1>11, <2>4 DEF ServerUdpHand2, ServerRec
  <2>6. udp'.hand1 = 0 /\ udp'.main = 0 /\ udp'.hand2c = 0 /\ udp'.hand2s = 0
    BY <1>0, <1>11, <2>2 DEF ServerUdpHand2, Handshakes
  <2>7. One(srv'.evt) = 1 /\ One(srv'.struct = "live") = 1
    BY <2>3, <2>5 DEF One
  <2>8. One(HasKey(tcp'.s2c)) = 0 /\ cli'.status = "READY" /\ cli'.evt /\ srv'.sock
    BY <2>1, <2>2, <2>3, <2>5 DEF OneHandshake
  <2>9. /\ One(HasKey(tcp'.s2c)) + udp'.hand1 + udp'.main + udp'.hand2c + udp'.hand2s
             + One(srv'.evt) = One(srv'.struct = "live")
        /\ udp'.hand2s + One(srv'.evt) > 0 /\ udp'.hand2c + udp'.hand2s + One(srv'.evt) > 0
    BY <2>6, <2>7, <2>8
  <2> QED BY <2>5, <2>8, <2>9 DEF OneHandshake
<1>12. CASE ServerTimerAborts
  BY <1>12, HandshakeElsewhere DEF ServerTimerAborts
<1>13. CASE ServerKcpRecv
  BY <1>13, <1>0, <1>00, ZenonT(30) DEF ServerKcpRecv, OneHandshake, ClientRec, ServerRec
<1>14. CASE ServerHeartbeatTimer
  <2>1. ~Expired(srv.age)
    BY <1>0, TimeoutAssumption DEF AgesLow, Expired, ServerRec
  <2>2. srv' = [srv EXCEPT !.due = FALSE, !.status = srv.status] /\ UNCHANGED <<cli, tcp, udp>>
    BY <1>0, <1>14, <2>1 DEF ServerHeartbeatTimer, ServerRec
  <2> QED BY <1>0, <2>2 DEF OneHandshake, ServerRec
<1>15. CASE ServerTcpRecv
  BY <1>0, <1>15 DEF ServerTcpRecv, OneHandshake, Queues
<1>16. CASE ServerTcpEof
  BY <1>16 DEF ServerTcpEof, BothLive
<1>17. ASSUME NEW force \in BOOLEAN, ClientSend(force) \/ ServerSend(force)
       PROVE  OneHandshake'
  <2>1. tcp'.s2c = tcp.s2c \/ \E n : tcp'.s2c = Append(tcp.s2c, Msg("DATA", n))
    BY <1>0, <1>17 DEF ClientSend, ServerSend, Queues
  <2>2. HasKey(tcp'.s2c) = HasKey(tcp.s2c)
    BY <1>0, <2>1, AppendKey DEF KeyIsFirst
  <2>3. UNCHANGED <<cli, srv, udp>>
    BY <1>17 DEF ClientSend, ServerSend
  <2> QED BY <2>2, <2>3 DEF OneHandshake
<1>18. ASSUME NEW d \in UdpKinds, LoseHandshake(d) \/ DuplicateHandshake(d)
       PROVE  OneHandshake'
  BY <1>00, <1>18 DEF LoseHandshake, DuplicateHandshake
<1>19. CASE PathDown
  BY <1>19, <1>0, <1>00 DEF PathDown, OneHandshake, ClientRec, ServerRec
<1>20. CASE ClientQuits
  BY <1>20, <1>0, <1>00 DEF ClientQuits, OneHandshake, ClientRec, ServerRec
<1>21. CASE Tick
  BY <1>21, <1>0, <1>00 DEF Tick, OneHandshake, ClientRec, ServerRec
<1>22. CASE UNCHANGED vars
  BY <1>22, <1>0, <1>00 DEF vars, OneHandshake, ClientRec, ServerRec
<1> QED
  BY <1>1, <1>2, <1>3, <1>4, <1>5, <1>6, <1>7, <1>8, <1>9, <1>10, <1>11, <1>12, <1>13,
     <1>14, <1>15, <1>16, <1>17, <1>18, <1>19, <1>20, <1>21, <1>22
     DEF Next, Client, Server, Application, Environment

-----------------------------------------------------------------------------
(***************************************************************************)
(* Heartbeats in a queue: one that is put in is there, and the one that is *)
(* read is gone; data makes no difference.                                 *)
(***************************************************************************)
LEMMA NoBeats == BeatsIn(<<>>) = {} /\ AtMostOneBeat(<<>>)
  BY DEF BeatsIn, AtMostOneBeat

(***************************************************************************)
(* Data do not count as heartbeats.                                        *)
(***************************************************************************)
LEMMA AppendData ==
  ASSUME NEW q \in Seq(Letter), NEW n
  PROVE  /\ BeatsIn(Append(q, Msg("DATA", n))) = BeatsIn(q)
         /\ AtMostOneBeat(q) => AtMostOneBeat(Append(q, Msg("DATA", n)))
         /\ Len(Append(q, Msg("DATA", n))) = Len(q) + 1
<1> DEFINE m == Msg("DATA", n)
           r == Append(q, m)
<1>1. m.type = "DATA"
  BY DEF Msg
<1> HIDE DEF m
<1>2. /\ \A i \in DOMAIN q : i \in DOMAIN r /\ r[i] = q[i]
      /\ \A i \in DOMAIN r : (i \in DOMAIN q /\ r[i] = q[i]) \/ r[i] = m
      /\ Len(r) = Len(q) + 1
  OBVIOUS
<1> HIDE DEF r
<1>3. BeatsIn(r) = BeatsIn(q)
  BY <1>1, <1>2 DEF BeatsIn
<1>4. AtMostOneBeat(q) => AtMostOneBeat(r)
  BY <1>1, <1>2 DEF AtMostOneBeat
<1> QED BY <1>2, <1>3, <1>4 DEF m, r

(***************************************************************************)
(* A heartbeat that is sent when none is under way is the only one.        *)
(***************************************************************************)
LEMMA AppendBeat ==
  ASSUME NEW q \in Seq(Letter), NEW m, m.type # "DATA", BeatsIn(q) = {}
  PROVE  /\ BeatsIn(Append(q, m)) = {m}
         /\ AtMostOneBeat(Append(q, m))
         /\ Len(Append(q, m)) = Len(q) + 1
<1> DEFINE r == Append(q, m)
<1>1. /\ \A i \in DOMAIN q : i \in DOMAIN r /\ r[i] = q[i]
      /\ \A i \in DOMAIN r : (i \in DOMAIN q /\ r[i] = q[i]) \/ i = Len(q) + 1
      /\ Len(q) + 1 \in DOMAIN r /\ r[Len(q) + 1] = m
      /\ Len(r) = Len(q) + 1
  OBVIOUS
<1>2. \A i \in DOMAIN q : q[i].type = "DATA"
  BY DEF BeatsIn
<1> HIDE DEF r
<1>3. \A i \in DOMAIN r : r[i].type # "DATA" => i = Len(q) + 1
  BY <1>1, <1>2
<1>4. BeatsIn(r) = {m}
  BY <1>1, <1>3 DEF BeatsIn
<1>5. AtMostOneBeat(r)
  BY <1>3 DEF AtMostOneBeat
<1> QED BY <1>1, <1>4, <1>5 DEF r

(***************************************************************************)
(* Reading data removes no heartbeat.                                      *)
(***************************************************************************)
LEMMA TailData ==
  ASSUME NEW q \in Seq(Letter), q # <<>>, Head(q).type = "DATA", AtMostOneBeat(q)
  PROVE  BeatsIn(Tail(q)) = BeatsIn(q) /\ AtMostOneBeat(Tail(q)) /\ Len(Tail(q)) = Len(q) - 1
<1> DEFINE r == Tail(q)
<1>1. /\ \A i \in DOMAIN r : i + 1 \in DOMAIN q /\ r[i] = q[i + 1]
      /\ \A i \in DOMAIN q : i = 1 \/ (i - 1 \in DOMAIN r /\ r[i - 1] = q[i])
      /\ q[1] = Head(q)
      /\ Len(r) = Len(q) - 1
  OBVIOUS
<1>2. \A i, j \in DOMAIN r : i + 1 = j + 1 => i = j
  OBVIOUS
<1> HIDE DEF r
<1>3. BeatsIn(r) \subseteq BeatsIn(q)
  BY <1>1 DEF BeatsIn
<1>4. BeatsIn(q) \subseteq BeatsIn(r)
  BY <1>1 DEF BeatsIn
<1>5. AtMostOneBeat(r)
  BY <1>1, <1>2 DEF AtMostOneBeat
<1> QED BY <1>1, <1>3, <1>4, <1>5 DEF r

(***************************************************************************)
(* Reading the one heartbeat leaves none.                                  *)
(***************************************************************************)
LEMMA TailBeat ==
  ASSUME NEW q \in Seq(Letter), q # <<>>, Head(q).type # "DATA", AtMostOneBeat(q)
  PROVE  /\ BeatsIn(Tail(q)) = {} /\ AtMostOneBeat(Tail(q)) /\ BeatsIn(q) = {Head(q)}
         /\ Len(Tail(q)) = Len(q) - 1
<1> DEFINE r == Tail(q)
<1>1. /\ \A i \in DOMAIN r : i + 1 \in DOMAIN q /\ r[i] = q[i + 1] /\ i + 1 # 1
      /\ q[1] = Head(q) /\ 1 \in DOMAIN q
      /\ Len(r) = Len(q) - 1
  OBVIOUS
<1> HIDE DEF r
<1>2. \A i \in DOMAIN q : q[i].type # "DATA" => i = 1
  BY <1>1 DEF AtMostOneBeat
<1>3. \A i \in DOMAIN r : r[i].type = "DATA"
  BY <1>1, <1>2
<1>4. BeatsIn(r) = {} /\ AtMostOneBeat(r)
  BY <1>3 DEF BeatsIn, AtMostOneBeat
<1>5. BeatsIn(q) = {Head(q)}
  BY <1>1, <1>2 DEF BeatsIn
<1> QED BY <1>1, <1>4, <1>5 DEF r

(***************************************************************************)
(* Steps of the handshake and of TCP leave the heartbeats alone.           *)
(***************************************************************************)
LEMMA BeatsUntouched ==
  ASSUME OneHeartbeat, AgesLow, RoomForBeat, UNCHANGED <<kq, sent>>,
         cli'.age = cli.age, cli'.due = cli.due,
         srv'.evt = srv.evt, srv'.age = srv.age, srv'.heart = srv.heart
  PROVE  BeatInv'
<1>1. OneHeartbeat'
  BY DEF OneHeartbeat
<1>2. AgesLow'
  BY DEF AgesLow
<1>3. RoomForBeat'
  BY DEF RoomForBeat
<1> QED BY <1>1, <1>2, <1>3 DEF BeatInv

(***************************************************************************)
(* The handshake is over: both sides hold KCP for valid.                   *)
(***************************************************************************)
LEMMA BothValid ==
  ASSUME Shape, BothLive, OneHandshake, srv.evt
  PROVE  CliValid /\ SrvValid /\ CliUp /\ SrvUp
<1>1. One(srv.evt) = 1
  BY DEF One
<1>2. udp.hand2s = 0 /\ srv.struct = "live"
  BY OnePlace
<1>3. cli.status = "READY" /\ cli.evt
  <2>1. 0 + 1 > 0
    OBVIOUS
  <2>2. udp.hand2s + One(srv.evt) > 0
    BY <1>1, <1>2, <2>1, Zenon
  <2> QED BY <2>2 DEF OneHandshake
<1>4. srv.sock /\ srv.status = "READY"
  BY HandshakeElsewhere DEF OneHandshake
<1>5. CliUp /\ cli.sock
  BY <1>2 DEF BothLive, CliUp
<1> QED BY <1>2, <1>3, <1>4, <1>5 DEF CliValid, SrvValid, SrvUp

(***************************************************************************)
(* The heartbeat goes around, and is back before the next one.             *)
(***************************************************************************)
LEMMA HeartbeatStep ==
  ASSUME IInv, CalmInv, scn.sends < scn.kq, [Next]_vars, Calm'
  PROVE  BeatInv'
<1>00. Calm /\ losses' = 0 /\ dups' = 0 /\ losses = 0 /\ dups = 0 /\ path' /\ \A x : ~May(x)
  BY CalmBefore DEF IInv
<1>0. cli \in ClientRec /\ srv \in ServerRec /\ udp \in Handshakes
  BY DEF IInv, Shape
<1>01. kq \in Queues(Letter) /\ kq.c2s \in Seq(Letter) /\ kq.s2c \in Seq(Letter)
  BY DEF IInv, Shape, Queues
<1>02. /\ cli.age \in Nat /\ srv.age \in Nat /\ sent.c2s \in Nat /\ sent.s2c \in Nat
       /\ Len(kq.c2s) \in Nat /\ Len(kq.s2c) \in Nat
       /\ scn.sends \in Nat /\ scn.kq \in Nat /\ scn.sends < scn.kq
       /\ sent.c2s <= scn.sends /\ sent.s2c <= scn.sends
  <2>1. scn.sends \in Nat /\ scn.kq \in Nat
    BY ScenariosAssumption, KqCapAssumption DEF IInv, Shape, Scenario
  <2>2. Len(kq.c2s) \in Nat /\ Len(kq.s2c) \in Nat
    BY <1>01
  <2> QED BY <1>0, <2>1, <2>2 DEF IInv, Shape, Bounds, ClientRec, ServerRec
<1>03. One(BeatsIn(kq.c2s) # {}) \in Nat /\ One(BeatsIn(kq.s2c) # {}) \in Nat
  BY DEF One
<1>04. sent \in [c2s : Nat, s2c : Nat]
  BY DEF IInv, Shape
<1> USE DEF IInv, CalmInv
<1>1. CASE Connect
  <2>1. /\ cli'.age = cli.age /\ cli'.due = cli.due /\ UNCHANGED <<kq, sent>>
        /\ srv'.evt = srv.evt /\ srv'.age = srv.age /\ srv'.heart = srv.heart
    BY <1>0, <1>1 DEF Connect, ClientRec, ServerRec
  <2> QED BY <2>1, BeatsUntouched DEF BeatInv
<1>2. CASE TcpAccept
  <2>1. /\ cli'.age = cli.age /\ cli'.due = cli.due /\ UNCHANGED <<kq, sent>>
        /\ srv'.evt = srv.evt /\ srv'.age = srv.age /\ srv'.heart = srv.heart
    BY <1>0, <1>2 DEF TcpAccept, ClientRec, ServerRec
  <2> QED BY <2>1, BeatsUntouched DEF BeatInv
<1>3. CASE ClientTcpRecv
  <2>1. cli'.age = cli.age /\ cli'.due = cli.due /\ UNCHANGED <<srv, kq, sent>>
    BY <1>0, <1>3 DEF ClientTcpRecv, ClientHand1, ClientUdpInvalid, ClientRec
  <2> QED BY <2>1, BeatsUntouched DEF BeatInv
<1>4. CASE ClientTcpEof
  BY <1>4 DEF ClientTcpEof, SrvGone, BothLive
<1>5. CASE ClientHand2
  <2>1. udp.hand2c > 0 /\ UNCHANGED <<srv, kq, sent>>
    BY <1>5 DEF ClientHand2
  <2>2. ~srv.evt
    BY <2>1, OnePlace
  <2>3. cli'.age = 0 /\ ~cli'.due /\ cli.age = 0 /\ ~cli.due
    BY <1>0, <1>5, <2>2 DEF ClientHand2, ClientReady, ClientRec, OneHeartbeat
  <2>4. OneHeartbeat'
    BY <2>1, <2>3 DEF OneHeartbeat
  <2>5. AgesLow'
    BY <2>1, <2>3 DEF AgesLow
  <2>6. RoomForBeat'
    BY <2>1 DEF RoomForBeat
  <2> QED BY <2>4, <2>5, <2>6 DEF BeatInv
<1>6. CASE ClientKcpRecv
  <2> DEFINE m == Head(kq.s2c)
  <2>1. kq.s2c # <<>> /\ CliValid /\ UNCHANGED <<srv, sent>>
    BY <1>6 DEF ClientKcpRecv
  <2>2. srv.evt
    BY <2>1 DEF OneHeartbeat
  <2>3. CASE m.type = "DATA"
    <3>1. kq' = [kq EXCEPT !.s2c = Tail(@)] /\ cli' = cli
      BY <1>6, <2>3 DEF ClientKcpRecv
    <3>2. kq'.s2c = Tail(kq.s2c) /\ kq'.c2s = kq.c2s
      BY <1>01, <3>1 DEF Queues
    <3>3. /\ BeatsIn(kq'.s2c) = BeatsIn(kq.s2c) /\ AtMostOneBeat(kq'.s2c)
          /\ Len(kq'.s2c) = Len(kq.s2c) - 1
      BY <1>01, <2>1, <2>3, <3>2, TailData DEF OneHeartbeat
    <3>4. OneHeartbeat'
      BY <2>1, <2>2, <3>1, <3>2, <3>3 DEF OneHeartbeat
    <3>5. AgesLow'
      BY <2>1, <3>1, <3>2, <3>3 DEF AgesLow
    <3>6. RoomForBeat'
      <4>1. Len(kq.s2c) - 1 <= sent.s2c + One(BeatsIn(kq.s2c) # {})
        BY <1>02, <1>03 DEF RoomForBeat
      <4> QED BY <2>1, <3>2, <3>3, <4>1 DEF RoomForBeat
    <3> QED BY <3>4, <3>5, <3>6 DEF BeatInv
  <2>4. CASE m.type # "DATA"
    <3>1. m.type = "HB1"
      BY <1>6, <2>4 DEF ClientKcpRecv
    <3>2. /\ BeatsIn(kq.s2c) = {m} /\ BeatsIn(Tail(kq.s2c)) = {} /\ AtMostOneBeat(Tail(kq.s2c))
          /\ Len(Tail(kq.s2c)) = Len(kq.s2c) - 1
      BY <1>01, <2>1, <2>4, TailBeat DEF OneHeartbeat
    <3>3. m = Msg("HB1", srv.heart) /\ BeatsIn(kq.c2s) = {} /\ ~cli.due
      BY <3>2 DEF OneHeartbeat
    <3>4. m.val = srv.heart
      BY <3>3 DEF Msg
    <3>5. Len(kq.c2s) < scn.kq
      BY <1>02, <3>3 DEF RoomForBeat, One
    <3>6. /\ kq' = [c2s |-> Append(kq.c2s, Msg("HB2", srv.heart)), s2c |-> Tail(kq.s2c)]
          /\ cli' = [cli EXCEPT !.age = 0]
      BY <1>6, <3>1, <3>4, <3>5 DEF ClientKcpRecv, Beat
    <3>7. Msg("HB2", srv.heart).type # "DATA"
      BY DEF Msg
    <3>8. /\ BeatsIn(kq'.c2s) = {Msg("HB2", srv.heart)} /\ AtMostOneBeat(kq'.c2s)
          /\ Len(kq'.c2s) = Len(kq.c2s) + 1
          /\ BeatsIn(kq'.s2c) = {} /\ AtMostOneBeat(kq'.s2c)
          /\ Len(kq'.s2c) = Len(kq.s2c) - 1
      BY <1>01, <3>2, <3>3, <3>6, <3>7, AppendBeat
    <3>9. cli'.age = 0 /\ cli'.due = cli.due
      BY <1>0, <3>6 DEF ClientRec
    <3>10. OneHeartbeat'
      BY <2>1, <2>2, <3>3, <3>8, <3>9 DEF OneHeartbeat
    <3>11. AgesLow'
      BY <2>1, <3>8, <3>9 DEF AgesLow
    <3>12. RoomForBeat'
      BY <1>02, <2>1, <3>2, <3>3, <3>8, SMTT(30) DEF RoomForBeat, One
    <3> QED BY <3>10, <3>11, <3>12 DEF BeatInv
  <2> QED BY <2>3, <2>4
<1>7. CASE ClientHeartbeatTimer
  <2>1. cli.due /\ UNCHANGED <<srv, sent>>
    BY <1>7 DEF ClientHeartbeatTimer
  <2>2. srv.evt /\ BeatsIn(kq.c2s) = {} /\ BeatsIn(kq.s2c) = {}
    BY <2>1 DEF OneHeartbeat
  <2>3. ~Expired(cli.age) /\ CliValid
    <3>1. ~Expired(cli.age)
      BY <1>02, TimeoutAssumption DEF AgesLow, Expired
    <3> QED BY <2>2, <3>1, BothValid, <1>7 DEF ClientHeartbeatTimer, CliUp
  <2>4. Len(kq.c2s) < scn.kq
    BY <1>02, <2>2 DEF RoomForBeat, One
  <2>5. /\ kq' = [kq EXCEPT !.c2s = Append(@, Msg("HB1", 0))]
        /\ cli' = [cli EXCEPT !.due = FALSE]
    BY <1>7, <2>3, <2>4 DEF ClientHeartbeatTimer, Beat
  <2>6. kq'.c2s = Append(kq.c2s, Msg("HB1", 0)) /\ kq'.s2c = kq.s2c
    BY <1>01, <2>5 DEF Queues
  <2>7. cli'.age = cli.age /\ ~cli'.due
    BY <1>0, <2>5 DEF ClientRec
  <2>8. Msg("HB1", 0).type # "DATA"
    BY DEF Msg
  <2>9. /\ BeatsIn(kq'.c2s) = {Msg("HB1", 0)} /\ AtMostOneBeat(kq'.c2s)
        /\ Len(kq'.c2s) = Len(kq.c2s) + 1
    BY <1>01, <2>2, <2>6, <2>8, AppendBeat
  <2>10. OneHeartbeat'
    BY <2>1, <2>2, <2>6, <2>7, <2>9 DEF OneHeartbeat
  <2>11. AgesLow'
    BY <2>1, <2>6, <2>7, <2>9 DEF AgesLow
  <2>12. RoomForBeat'
    <3>1. Len(kq.c2s) + 1 <= sent.c2s + 1 /\ One(BeatsIn(kq'.c2s) # {}) = 1
      BY <1>02, <2>2, <2>9 DEF RoomForBeat, One
    <3> QED BY <2>1, <2>6, <2>9, <3>1 DEF RoomForBeat
  <2> QED BY <2>10, <2>11, <2>12 DEF BeatInv
<1>8. CASE Hand1Queued
  <2>1. /\ cli'.age = cli.age /\ cli'.due = cli.due /\ UNCHANGED <<kq, sent>>
        /\ srv'.evt = srv.evt /\ srv'.age = srv.age /\ srv'.heart = srv.heart
    BY <1>0, <1>8 DEF Hand1Queued, ClientRec, ServerRec
  <2> QED BY <2>1, BeatsUntouched DEF BeatInv
<1>9. CASE ServerUdpRecvAll
  <2>1. udp.main > 0 /\ UNCHANGED <<cli, sent>>
    BY <1>9 DEF ServerUdpRecvAll
  <2>2. ~srv.evt
    BY <2>1, OnePlace
  <2>3. kq.s2c = <<>>
    BY <2>2 DEF OneHeartbeat
  <2>4. \A n \in 0..Len(kq.s2c) : SubSeq(kq.s2c, 1, n) = kq.s2c
    <3>1. Len(kq.s2c) = 0
      BY <2>3
    <3>2. SubSeq(<<>>, 1, 0) = <<>>
      OBVIOUS
    <3> QED BY <2>3, <3>1, <3>2
  <2>5. kq' = kq
    BY <1>00, <1>01, <1>9, <2>3, <2>4 DEF ServerUdpRecvAll, ServerHand1, Queues
  <2>6. srv'.evt = srv.evt /\ srv'.age = srv.age /\ srv'.heart = srv.heart
    BY <1>0, <1>00, <1>9 DEF ServerUdpRecvAll, ServerHand1, ServerRec
  <2> QED BY <2>1, <2>5, <2>6, BeatsUntouched DEF BeatInv
<1>10. CASE ServerUdpHand1
  BY <1>10, HandshakeElsewhere DEF ServerUdpHand1, ToMain, BothLive
<1>11. CASE ServerUdpHand2
  <2>1. udp.hand2s > 0 /\ UNCHANGED <<cli, kq, sent>>
    BY <1>11 DEF ServerUdpHand2
  <2>2. ~srv.evt
    BY <2>1, OnePlace
  <2>3. kq.s2c = <<>> /\ BeatsIn(kq.c2s) = {} /\ cli.age = 0 /\ ~cli.due
    BY <2>2 DEF OneHeartbeat
  <2>4. BeatsIn(kq.s2c) = {}
    BY <2>3, NoBeats
  <2>5. srv'.age = 0 \/ srv' = srv
    BY <1>0, <1>11 DEF ServerUdpHand2, ServerRec
  <2>6. OneHeartbeat'
    BY <2>1, <2>3, <2>4 DEF OneHeartbeat
  <2>7. AgesLow'
    BY <2>1, <2>3, <2>5 DEF AgesLow
  <2>8. RoomForBeat'
    BY <2>1 DEF RoomForBeat
  <2> QED BY <2>6, <2>7, <2>8 DEF BeatInv
<1>12. CASE ServerTimerAborts
  BY <1>12, HandshakeElsewhere DEF ServerTimerAborts
<1>13. CASE ServerKcpRecv
  <2> DEFINE m == Head(kq.c2s)
  <2>1. kq.c2s # <<>> /\ srv.evt /\ UNCHANGED <<cli, sent>>
    BY <1>13 DEF ServerKcpRecv, SrvValid
  <2>2. CASE m.type = "DATA"
    <3>1. kq' = [kq EXCEPT !.c2s = Tail(@)] /\ srv' = srv
      BY <1>13, <2>2 DEF ServerKcpRecv
    <3>2. kq'.c2s = Tail(kq.c2s) /\ kq'.s2c = kq.s2c
      BY <1>01, <3>1 DEF Queues
    <3>3. /\ BeatsIn(kq'.c2s) = BeatsIn(kq.c2s) /\ AtMostOneBeat(kq'.c2s)
          /\ Len(kq'.c2s) = Len(kq.c2s) - 1
      BY <1>01, <2>1, <2>2, <3>2, TailData DEF OneHeartbeat
    <3>4. OneHeartbeat'
      BY <2>1, <3>1, <3>2, <3>3 DEF OneHeartbeat
    <3>5. AgesLow'
      BY <2>1, <3>1, <3>2, <3>3 DEF AgesLow
    <3>6. RoomForBeat'
      <4>1. Len(kq.c2s) - 1 <= sent.c2s + One(BeatsIn(kq.c2s) # {})
        BY <1>02, <1>03, SMTT(30) DEF RoomForBeat
      <4> QED BY <2>1, <3>2, <3>3, <4>1 DEF RoomForBeat
    <3> QED BY <3>4, <3>5, <3>6 DEF BeatInv
  <2>3. CASE m.type # "DATA"
    <3>1. /\ BeatsIn(kq.c2s) = {m} /\ BeatsIn(Tail(kq.c2s)) = {} /\ AtMostOneBeat(Tail(kq.c2s))
          /\ Len(Tail(kq.c2s)) = Len(kq.c2s) - 1
      BY <1>01, <2>1, <2>3, TailBeat DEF OneHeartbeat
    <3>2. BeatsIn(kq.s2c) = {} /\ ~cli.due /\ m \in {Msg("HB1", 0), Msg("HB2", srv.heart)}
      BY <3>1 DEF OneHeartbeat
    <3>3. CASE m.type = "HB1"
      <4>1. Len(kq.s2c) < scn.kq
        BY <1>02, <3>2 DEF RoomForBeat, One
      <4>2. /\ kq' = [c2s |-> Tail(kq.c2s), s2c |-> Append(kq.s2c, Msg("HB1", srv.heart))]
            /\ srv' = srv
        BY <1>13, <3>3, <4>1 DEF ServerKcpRecv, Beat
      <4>3. Msg("HB1", srv.heart).type # "DATA"
        BY DEF Msg
      <4>4. /\ BeatsIn(kq'.s2c) = {Msg("HB1", srv.heart)} /\ AtMostOneBeat(kq'.s2c)
            /\ Len(kq'.s2c) = Len(kq.s2c) + 1
            /\ BeatsIn(kq'.c2s) = {} /\ AtMostOneBeat(kq'.c2s)
            /\ Len(kq'.c2s) = Len(kq.c2s) - 1
        BY <1>01, <3>1, <3>2, <4>2, <4>3, AppendBeat
      <4>5. OneHeartbeat'
        BY <2>1, <3>2, <4>2, <4>4 DEF OneHeartbeat
      <4>6. AgesLow'
        BY <2>1, <4>2, <4>4 DEF AgesLow
      <4>7. RoomForBeat'
        BY <1>02, <2>1, <3>1, <3>2, <4>4, SMTT(30) DEF RoomForBeat, One
      <4> QED BY <4>5, <4>6, <4>7 DEF BeatInv
    <3>4. CASE m.type = "HB2"
      <4>1. m.val = srv.heart
        BY <3>2, <3>4 DEF Msg
      <4>2. kq' = [kq EXCEPT !.c2s = Tail(@)] /\ srv' = [srv EXCEPT !.age = 0, !.heart = FreshStamp]
        BY <1>13, <3>4, <4>1 DEF ServerKcpRecv, StampMatches
      <4>3. kq'.c2s = Tail(kq.c2s) /\ kq'.s2c = kq.s2c
        BY <1>01, <4>2 DEF Queues
      <4>4. srv'.age = 0 /\ srv'.evt = srv.evt
        BY <1>0, <4>2 DEF ServerRec
      <4>5. m # Msg("HB1", 0)
        BY <3>4 DEF Msg
      <4>6. OneHeartbeat'
        BY <2>1, <3>1, <3>2, <4>3, <4>4 DEF OneHeartbeat
      <4>7. AgesLow'
        <5>1. cli.age # 1
          BY <3>1, <3>2, <4>5 DEF AgesLow
        <5> QED BY <2>1, <4>4, <5>1 DEF AgesLow
      <4>8. RoomForBeat'
        BY <1>02, <2>1, <3>1, <3>2, <4>3, SMTT(30) DEF RoomForBeat, One
      <4> QED BY <4>6, <4>7, <4>8 DEF BeatInv
    <3> QED BY <1>13, <2>3, <3>3, <3>4 DEF ServerKcpRecv
  <2> QED BY <2>2, <2>3
<1>14. CASE ServerHeartbeatTimer
  <2>1. /\ cli'.age = cli.age /\ cli'.due = cli.due /\ UNCHANGED <<kq, sent>>
        /\ srv'.evt = srv.evt /\ srv'.age = srv.age /\ srv'.heart = srv.heart
    BY <1>0, <1>14 DEF ServerHeartbeatTimer, ClientRec, ServerRec
  <2> QED BY <2>1, BeatsUntouched DEF BeatInv
<1>15. CASE ServerTcpRecv
  <2>1. /\ cli'.age = cli.age /\ cli'.due = cli.due /\ UNCHANGED <<kq, sent>>
        /\ srv'.evt = srv.evt /\ srv'.age = srv.age /\ srv'.heart = srv.heart
    BY <1>0, <1>15 DEF ServerTcpRecv, ClientRec, ServerRec
  <2> QED BY <2>1, BeatsUntouched DEF BeatInv
<1>16. CASE ServerTcpEof
  BY <1>16 DEF ServerTcpEof, BothLive
<1>17. ASSUME NEW force \in BOOLEAN, ClientSend(force) \/ ServerSend(force)
       PROVE  BeatInv'
  <2>1. UNCHANGED <<cli, srv>>
    BY <1>17 DEF ClientSend, ServerSend
  <2>2. CASE ClientSend(force)
    <3>1. sent'.c2s = sent.c2s + 1 /\ sent'.s2c = sent.s2c /\ kq'.s2c = kq.s2c
      BY <1>01, <1>04, <2>2 DEF ClientSend, Queues
    <3>2. kq'.c2s = kq.c2s \/ \E n : kq'.c2s = Append(kq.c2s, Msg("DATA", n))
      BY <1>01, <2>2 DEF ClientSend, Queues
    <3>3. /\ BeatsIn(kq'.c2s) = BeatsIn(kq.c2s) /\ AtMostOneBeat(kq'.c2s)
          /\ Len(kq'.c2s) = Len(kq.c2s) \/ Len(kq'.c2s) = Len(kq.c2s) + 1
      BY <1>01, <3>2, AppendData DEF OneHeartbeat
    <3>4. OneHeartbeat'
      BY <2>1, <3>1, <3>3 DEF OneHeartbeat
    <3>5. AgesLow'
      BY <2>1, <3>1, <3>3 DEF AgesLow
    <3>6. RoomForBeat'
      BY <1>02, <1>03, <3>1, <3>3, SMTT(30) DEF RoomForBeat
    <3> QED BY <3>4, <3>5, <3>6 DEF BeatInv
  <2>3. CASE ServerSend(force)
    <3>1. sent'.s2c = sent.s2c + 1 /\ sent'.c2s = sent.c2s /\ kq'.c2s = kq.c2s
      BY <1>01, <1>04, <2>3 DEF ServerSend, Queues
    <3>2. kq'.s2c = kq.s2c \/ (srv.evt /\ \E n : kq'.s2c = Append(kq.s2c, Msg("DATA", n)))
      BY <1>01, <2>3 DEF ServerSend, Queues, SrvValid
    <3>3. /\ BeatsIn(kq'.s2c) = BeatsIn(kq.s2c) /\ AtMostOneBeat(kq'.s2c)
          /\ Len(kq'.s2c) = Len(kq.s2c) \/ Len(kq'.s2c) = Len(kq.s2c) + 1
      BY <1>01, <3>2, AppendData DEF OneHeartbeat
    <3>4. OneHeartbeat'
      BY <2>1, <3>1, <3>2, <3>3 DEF OneHeartbeat
    <3>5. AgesLow'
      BY <2>1, <3>1, <3>3 DEF AgesLow
    <3>6. RoomForBeat'
      BY <1>02, <1>03, <3>1, <3>3, SMTT(30) DEF RoomForBeat
    <3> QED BY <3>4, <3>5, <3>6 DEF BeatInv
  <2> QED BY <1>17, <2>2, <2>3
<1>18. ASSUME NEW d \in UdpKinds, LoseHandshake(d) \/ DuplicateHandshake(d)
       PROVE  BeatInv'
  BY <1>00, <1>18 DEF LoseHandshake, DuplicateHandshake
<1>19. CASE PathDown
  BY <1>00, <1>19 DEF PathDown
<1>20. CASE ClientQuits
  BY <1>00, <1>20 DEF ClientQuits
<1>21. CASE Tick
  <2>1. /\ (CliUp /\ cli.evt) \/ (SrvUp /\ srv.evt)
        /\ ~(CliUp /\ cli.due) /\ Drained /\ path /\ UNCHANGED <<kq, sent>>
    BY <1>00, <1>21 DEF Tick, Calm
  <2>2. srv.evt
    <3>1. udp.hand2s = 0
      BY <1>0, <2>1 DEF Drained, Handshakes
    <3>2. SUFFICES ASSUME ~srv.evt, cli.evt PROVE FALSE
      BY <2>1
    <3>3. One(srv.evt) = 0
      BY <3>2 DEF One
    <3> QED BY <3>1, <3>2, <3>3 DEF OneHandshake
  <2>3. CliValid /\ SrvValid /\ CliUp /\ SrvUp /\ InSync
    BY <2>2, BothValid DEF InSync, BothLive
  <2>4. kq.s2c = <<>> /\ kq.c2s = <<>> /\ ~cli.due
    BY <2>1, <2>3 DEF Drained
  <2>5. BeatsIn(kq.s2c) = {} /\ BeatsIn(kq.c2s) = {}
    BY <2>4, NoBeats
  <2>6. cli.age = 0 /\ srv.age = 0
    BY <1>02, <2>4, <2>5 DEF AgesLow
  <2>7. Older(0) = 1
    BY TimeoutAssumption DEF Older
  <2>8. cli'.age = 1 /\ cli'.due /\ srv'.age = 1 /\ srv'.evt /\ srv'.heart = srv.heart
    BY <1>0, <1>21, <2>2, <2>3, <2>6, <2>7 DEF Tick, CliValid, ClientRec, ServerRec
  <2>9. OneHeartbeat'
    BY <2>1, <2>5, <2>8 DEF OneHeartbeat
  <2>10. AgesLow'
    BY <2>8 DEF AgesLow
  <2>11. RoomForBeat'
    BY <2>1 DEF RoomForBeat
  <2> QED BY <2>9, <2>10, <2>11 DEF BeatInv
<1>22. CASE UNCHANGED vars
  <2>1. /\ cli'.age = cli.age /\ cli'.due = cli.due /\ UNCHANGED <<kq, sent>>
        /\ srv'.evt = srv.evt /\ srv'.age = srv.age /\ srv'.heart = srv.heart
    BY <1>0, <1>22 DEF vars, ClientRec, ServerRec
  <2> QED BY <2>1, BeatsUntouched DEF BeatInv
<1> QED
  BY <1>1, <1>2, <1>3, <1>4, <1>5, <1>6, <1>7, <1>8, <1>9, <1>10, <1>11, <1>12, <1>13,
     <1>14, <1>15, <1>16, <1>17, <1>18, <1>19, <1>20, <1>21, <1>22
     DEF Next, Client, Server, Application, Environment

(***************************************************************************)
(* While nothing fails the stronger invariant holds, if the bound on the   *)
(* directions leaves room for a heartbeat beside the data.                 *)
(***************************************************************************)
LEMMA CalmInvariance ==
  ASSUME \A s \in Scenarios : s.udp = "fast" => s.sends < s.kq
  PROVE  Spec => [](Calm => CalmInv)
<1>1. Init => HInv
  <2> SUFFICES ASSUME Init PROVE HInv
    OBVIOUS
  <2>1. IInv
    BY InitInv
  <2>2. BothLive
    BY DEF Init, BothLive
  <2>3. OneHandshake
    BY DEF Init, OneHandshake, One, HasKey
  <2>4. OneHeartbeat
    BY NoBeats DEF Init, OneHeartbeat
  <2>5. AgesLow /\ RoomForBeat
    BY NoBeats DEF Init, AgesLow, RoomForBeat, One
  <2> QED BY <2>1, <2>2, <2>3, <2>4, <2>5 DEF HInv, CalmInv
<1>2. HInv /\ [Next]_vars => HInv'
  <2> SUFFICES ASSUME HInv, [Next]_vars PROVE HInv'
    OBVIOUS
  <2>1. IInv'
    BY NextInv DEF HInv
  <2>2. ASSUME Calm' PROVE CalmInv'
    <3>1. IInv /\ CalmInv
      BY <2>2, CalmBefore DEF HInv, IInv
    <3>2. scn.sends < scn.kq
      BY <2>2, <3>1, CalmBefore DEF IInv, Shape, Calm, Fast
    <3> QED BY <2>2, <3>1, <3>2, BothLiveStep, HandshakeStep, HeartbeatStep DEF CalmInv, BeatInv
  <2> QED BY <2>1, <2>2 DEF HInv
<1>3. HInv => (Calm => CalmInv)
  BY DEF HInv
<1> QED BY <1>1, <1>2, <1>3, PTL DEF Spec

(***************************************************************************)
(* While UDP is fast and nothing has gone wrong, the heartbeats keep KCP   *)
(* valid on both sides.  The hypothesis says that the model's bound on the *)
(* waiting messages cuts no heartbeat off: the queue of ikcp_send has none.*)
(***************************************************************************)
THEOREM HeartbeatsSuffice ==
  ASSUME \A s \in Scenarios : s.udp = "fast" => s.sends < s.kq
  PROVE  Spec => []HealthyStaysValid
<1>1. IInv /\ (Calm => CalmInv) => HealthyStaysValid
  BY BothValid DEF IInv, CalmInv, HealthyStaysValid
<1>2. Spec => [](Calm => CalmInv)
  BY CalmInvariance
<1> QED BY <1>1, <1>2, Invariance, PTL
=============================================================================
