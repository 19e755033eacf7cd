-------------------------- MODULE TcpFramingProofs --------------------------
(***************************************************************************)
(* TCP reassembly, for every size of buffer, header, packet and read: only *)
(* the overflow branch of on_tcp_recv can break it, and that branch is     *)
(* never taken for a sender with no more than Cap bytes outstanding.       *)
(***************************************************************************)
EXTENDS TcpFraming, SequenceTheorems, TLAPS

(***************************************************************************)
(* The inductive invariant.  Layout: packets follow each other in the      *)
(* stream and have a size the application sends.  Aligned: until bytes are *)
(* dropped, what was delivered is a prefix of what was sent and the ring   *)
(* starts where the next packet does.  ClosedInv: end of file is seen last.*)
(***************************************************************************)
Layout ==
  /\ \A j, k \in 1..Len(bounds) : j < k => bounds[j] < bounds[k]
  /\ \A k \in 1..(Len(bounds) - 1) : bounds[k + 1] - bounds[k] \in Sizes

Aligned == ~lost => Reassembled /\ lo = bounds[Len(delivered) + 1]

ClosedInv == conn = "eof" /\ ~lost => fin /\ Len(delivered) = Len(bounds) - 1

IInv == TypeOK /\ Layout /\ Aligned /\ NothingCompleteWaits /\ ClosedInv

-----------------------------------------------------------------------------
(***************************************************************************)
(* header_from_net reads a natural number, at a packet's first byte the    *)
(* size of that packet.                                                    *)
(***************************************************************************)
LEMMA HeaderType ==
  ASSUME TypeOK, Layout, NEW p \in Nat
  PROVE  HeaderFromNet(p) \subseteq Nat
<1>1. \A k \in StartsAt(p) : bounds[k + 1] - bounds[k] \in Nat
  BY SizesAssumption DEF StartsAt, Layout, TypeOK
<1>2. 0..(Cap + 1) \subseteq Nat
  BY CapAssumption
<1> QED BY <1>1, <1>2 DEF HeaderFromNet

LEMMA HeaderAtStart ==
  ASSUME TypeOK, Layout, NEW k \in 1..(Len(bounds) - 1)
  PROVE  /\ StartsAt(bounds[k]) = {k}
         /\ HeaderFromNet(bounds[k]) = {bounds[k + 1] - bounds[k]}
         /\ bounds[k] \in Nat /\ bounds[k + 1] \in Nat
         /\ bounds[k + 1] - bounds[k] \in Nat
         /\ bounds[k + 1] - bounds[k] >= HeaderSize
<1>1. k \in 1..Len(bounds) /\ k + 1 \in 1..Len(bounds) /\ Len(bounds) \in Nat
  BY DEF TypeOK
<1>2. ASSUME NEW j \in 1..(Len(bounds) - 1), bounds[j] = bounds[k] PROVE j = k
  <2>1. j \in 1..Len(bounds) /\ bounds[j] \in Nat /\ bounds[k] \in Nat
    BY <1>1, SMTT(30) DEF TypeOK
  <2>2. ~(j < k) /\ ~(k < j)
    BY <2>1, <1>1, <1>2 DEF Layout
  <2> QED BY <2>1, <2>2, <1>1
<1>3. StartsAt(bounds[k]) = {k}
  BY <1>2 DEF StartsAt
<1>4. HeaderFromNet(bounds[k]) = {bounds[k + 1] - bounds[k]}
  BY <1>3 DEF HeaderFromNet
<1>5. bounds[k] \in Nat /\ bounds[k + 1] \in Nat
  BY <1>1 DEF TypeOK
<1>6. bounds[k + 1] - bounds[k] \in Sizes
  BY DEF Layout
<1> QED BY <1>3, <1>4, <1>5, <1>6, SizesAssumption

\* Until something is dropped, bytes that have arrived and were not handled
\* begin with the next packet.
LEMMA NextPacket ==
  ASSUME IInv, ~lost, lo < Total
  PROVE  /\ Len(delivered) + 1 \in 1..(Len(bounds) - 1)
         /\ lo = bounds[Len(delivered) + 1]
<1>1. Len(delivered) \in Nat /\ Len(bounds) \in Nat /\ Len(delivered) < Len(bounds)
  BY DEF IInv, TypeOK, Aligned, Reassembled
<1>2. lo = bounds[Len(delivered) + 1]
  BY DEF IInv, Aligned
<1>3. Len(delivered) + 1 # Len(bounds)
  <2>1. SUFFICES ASSUME Len(delivered) + 1 = Len(bounds) PROVE FALSE
    OBVIOUS
  <2>2. lo = Total
    BY <2>1, <1>2 DEF Total
  <2>3. lo \in Nat
    BY DEF IInv, TypeOK
  <2> QED BY <2>2, <2>3
<1> QED BY <1>1, <1>2, <1>3

-----------------------------------------------------------------------------
LEMMA InitInv == Init => IInv
<1> SUFFICES ASSUME Init PROVE IInv
  OBVIOUS
<1>1. Len(bounds) = 1 /\ bounds[1] = 0 /\ bounds \in Seq(Nat) /\ Len(delivered) = 0
  BY DEF Init
<1>2. TypeOK
  <2>1. delivered \in Seq(Nat \X Nat)
    BY EmptySeq DEF Init
  <2>2. lost \in BOOLEAN /\ fin \in BOOLEAN
    BY Zenon DEF Init
  <2>3. lo <= hi /\ Pending <= Cap /\ hi <= Total
    BY <1>1, CapAssumption DEF Init, Pending, Total
  <2> QED BY <2>1, <2>2, <2>3, <1>1 DEF Init, TypeOK
<1>3. Layout
  BY <1>1 DEF Layout
<1>4. Aligned
  BY <1>1 DEF Init, Aligned, Reassembled
<1>5. NothingCompleteWaits
  BY <1>1 DEF NothingCompleteWaits
<1>6. ClosedInv
  BY DEF Init, ClosedInv
<1> QED BY <1>2, <1>3, <1>4, <1>5, <1>6 DEF IInv

\* A packet is appended to the stream.
LEMMA SendInv ==
  ASSUME IInv, NEW size \in Sizes, SockSendCommand(size)
  PROVE  IInv'
<1> DEFINE n == Len(bounds)
<1>0. /\ TypeOK /\ Layout /\ Aligned /\ NothingCompleteWaits /\ ClosedInv
      /\ n \in Nat /\ n >= 1 /\ size \in Nat /\ size >= 1
      /\ Len(delivered) \in Nat /\ Total \in Nat
  BY SizesAssumption, HeaderAssumption DEF IInv, TypeOK, Total
<1>1. /\ bounds' = Append(bounds, Total + size) /\ bounds' \in Seq(Nat) /\ Len(bounds') = n + 1
      /\ \A k \in 1..n : bounds'[k] = bounds[k]
      /\ bounds'[n + 1] = Total + size
      /\ UNCHANGED <<fin, lo, hi, pc, conn, delivered, lost>> /\ ~fin
  BY <1>0 DEF SockSendCommand, TypeOK
<1>2. Total' = Total + size
  BY <1>1 DEF Total
<1>3. TypeOK'
  BY <1>0, <1>1, <1>2 DEF TypeOK, Pending
<1>4. Layout'
  <2>1. ASSUME NEW j \in 1..Len(bounds'), NEW k \in 1..Len(bounds'), j < k
        PROVE  bounds'[j] < bounds'[k]
    <3>1. j \in 1..n
      BY <2>1, <1>1, <1>0
    <3>2. bounds[j] <= Total /\ bounds[j] \in Nat
      BY <3>1, <1>0, SMTT(30) DEF Layout, Total, TypeOK
    <3>3. CASE k \in 1..n
      BY <3>1, <3>3, <2>1, <1>0, <1>1 DEF Layout
    <3>4. CASE k = n + 1
      BY <3>1, <3>2, <3>4, <1>0, <1>1
    <3> QED BY <3>3, <3>4, <1>0, <1>1
  <2>2. ASSUME NEW k \in 1..(Len(bounds') - 1)
        PROVE  bounds'[k + 1] - bounds'[k] \in Sizes
    <3>1. CASE k = n
      <4>1. bounds'[k] = Total
        BY <3>1, <1>0, <1>1 DEF Total
      <4>2. bounds'[k + 1] - bounds'[k] = size
        BY <4>1, <3>1, <1>0, <1>1
      <4> QED BY <4>2
    <3>2. CASE k \in 1..(n - 1)
      BY <3>2, <1>0, <1>1 DEF Layout
    <3> QED BY <3>1, <3>2, <1>0, <1>1
  <2> QED BY <2>1, <2>2 DEF Layout
<1>5. Aligned'
  <2>1. SUFFICES ASSUME ~lost
                 PROVE  /\ Len(delivered) < n + 1
                        /\ \A k \in 1..Len(delivered) :
                             delivered[k] = <<bounds'[k], bounds'[k + 1]>>
                        /\ lo = bounds'[Len(delivered) + 1]
    BY <1>1 DEF Aligned, Reassembled
  <2>2. /\ Len(delivered) < n /\ lo = bounds[Len(delivered) + 1]
        /\ \A k \in 1..Len(delivered) : delivered[k] = <<bounds[k], bounds[k + 1]>>
    BY <2>1, <1>0 DEF Aligned, Reassembled
  <2>3. \A k \in 1..Len(delivered) : k \in 1..n /\ k + 1 \in 1..n
    BY <2>2, <1>0
  <2>4. \A k \in 1..Len(delivered) : bounds'[k] = bounds[k] /\ bounds'[k + 1] = bounds[k + 1]
    BY <2>3, <1>1
  <2>5. lo = bounds'[Len(delivered) + 1]
    BY <2>2, <1>0, <1>1
  <2>6. Len(delivered) < n + 1
    BY <2>2, <1>0
  <2> QED BY <2>2, <2>4, <2>5, <2>6
<1>6. NothingCompleteWaits'
  <2>1. SUFFICES ASSUME pc = "idle", ~lost, conn = "open", Len(delivered) + 1 < n + 1
                 PROVE  hi < bounds'[Len(delivered) + 2]
    BY <1>1 DEF NothingCompleteWaits
  <2>2. CASE Len(delivered) + 1 < n
    BY <2>1, <2>2, <1>0, <1>1 DEF NothingCompleteWaits
  <2>3. CASE Len(delivered) + 1 = n
    BY <2>3, <1>0, <1>1 DEF TypeOK
  <2> QED BY <2>1, <2>2, <2>3, <1>0
<1>7. ClosedInv'
  BY <1>0, <1>1 DEF ClosedInv
<1> QED BY <1>3, <1>4, <1>5, <1>6, <1>7 DEF IInv

\* The packet that starts the pending bytes is handled: shared by the two
\* places that do it, a whole packet in one read and a chunk of the ring.
LEMMA HandleInv ==
  ASSUME IInv, NEW from \in Nat, NEW to \in Nat, Handle(from, to),
         lost' = lost, bounds' = bounds, fin' = fin, lo' = to,
         hi' \in Nat, to <= hi', hi' - to <= Cap, hi' <= Total, conn = "open",
         ~lost => /\ Len(delivered) + 1 \in 1..(Len(bounds) - 1)
                  /\ from = bounds[Len(delivered) + 1]
                  /\ to = bounds[Len(delivered) + 2]
  PROVE  IInv'
<1> DEFINE n == Len(delivered)
<1>0. /\ TypeOK /\ Layout /\ Aligned /\ n \in Nat /\ Len(bounds) \in Nat
      /\ delivered \in Seq(Nat \X Nat)
  BY DEF IInv, TypeOK
<1>1. /\ delivered' = Append(delivered, <<from, to>>) /\ delivered' \in Seq(Nat \X Nat)
      /\ Len(delivered') = n + 1
      /\ \A k \in 1..n : delivered'[k] = delivered[k]
      /\ delivered'[n + 1] = <<from, to>>
  BY <1>0 DEF Handle
<1>2. conn' \in {"open", "failed"} /\ pc' \in {"idle", "drain"} /\ (conn' = "open" => pc' = "drain")
  BY DEF Handle
<1>3. TypeOK'
  BY <1>0, <1>1, <1>2 DEF TypeOK, Pending, Total
<1>4. Layout'
  BY <1>0 DEF Layout
<1>5. Aligned'
  <2>1. SUFFICES ASSUME ~lost PROVE Reassembled' /\ lo' = bounds[n + 2]
    BY <1>1, <1>0 DEF Aligned
  <2>2. n + 1 < Len(bounds)
    BY <2>1, <1>0
  <2>3. ASSUME NEW k \in 1..(n + 1) PROVE delivered'[k] = <<bounds[k], bounds[k + 1]>>
    <3>1. CASE k \in 1..n
      BY <3>1, <2>1, <1>0, <1>1 DEF Aligned, Reassembled
    <3>2. CASE k = n + 1
      <4>1. k + 1 = n + 2
        BY <3>2, <1>0
      <4> QED BY <4>1, <3>2, <2>1, <1>1
    <3> QED BY <3>1, <3>2, <1>0, SMTT(30)
  <2> QED BY <2>1, <2>2, <2>3, <1>1 DEF Reassembled
<1>6. NothingCompleteWaits'
  BY <1>2 DEF NothingCompleteWaits
<1>7. ClosedInv'
  BY <1>2 DEF ClosedInv
<1> QED BY <1>3, <1>4, <1>5, <1>6, <1>7 DEF IInv

\* One recv().
LEMMA RecvInv ==
  ASSUME IInv, NEW len \in 1..RecvMax, TcpRecv(len)
  PROVE  IInv'
<1>0. /\ TypeOK /\ Layout /\ Aligned /\ ClosedInv /\ conn = "open"
      /\ len \in Nat /\ len >= 1 /\ len <= Cap
      /\ lo \in Nat /\ hi \in Nat /\ lo <= hi /\ hi - lo <= Cap /\ Total \in Nat
      /\ hi' = hi + len /\ hi' \in Nat /\ hi' <= Total /\ bounds' = bounds /\ fin' = fin
      /\ Total' = Total
  BY RecvAssumption, CapAssumption DEF IInv, TypeOK, TcpRecv, Pending, Total
<1>1. PICK size \in HeaderFromNet(hi) : OnTcpRecv(len, size)
  BY DEF TcpRecv
<1>2. CASE IsWhole(len, size) /\ lo' = hi + len /\ Handle(hi, hi + len) /\ lost' = lost
  <2>1. lo = hi /\ size = len
    BY <1>0, <1>2 DEF IsWhole, Pending
  <2>2. ASSUME ~lost
        PROVE  /\ Len(delivered) + 1 \in 1..(Len(bounds) - 1)
               /\ hi = bounds[Len(delivered) + 1]
               /\ hi + len = bounds[Len(delivered) + 2]
    <3> DEFINE k == Len(delivered) + 1
    <3>1. k \in 1..(Len(bounds) - 1) /\ hi = bounds[k]
      BY <2>1, <2>2, <1>0, NextPacket
    <3>2. size = bounds[k + 1] - bounds[k] /\ bounds[k + 1] \in Nat
      BY <3>1, <1>0, <1>1, HeaderAtStart
    <3>3. k + 1 = Len(delivered) + 2
      BY <1>0 DEF TypeOK
    <3> QED BY <3>1, <3>2, <3>3, <2>1, <1>0, SMTT(30)
  <2>3. hi + len <= hi' /\ hi' - (hi + len) <= Cap
    BY <1>0, CapAssumption
  <2> QED BY <1>0, <1>2, <2>2, <2>3, HandleInv
<1>3. CASE Fits(len) /\ pc' = "drain" /\ UNCHANGED <<lo, conn, delivered, lost>>
  <2>1. TypeOK'
    BY <1>0, <1>3 DEF TypeOK, Pending, Fits
  <2> QED BY <2>1, <1>0, <1>3
          DEF IInv, Layout, Aligned, Reassembled, NothingCompleteWaits, ClosedInv
<1>4. CASE lo' = hi + len /\ lost' = TRUE /\ pc' = "drain" /\ UNCHANGED <<conn, delivered>>
  <2>1. TypeOK'
    BY <1>0, <1>4, CapAssumption DEF TypeOK, Pending
  <2> QED BY <2>1, <1>0, <1>4
          DEF IInv, Layout, Aligned, NothingCompleteWaits, ClosedInv
<1> QED BY <1>1, <1>2, <1>3, <1>4 DEF OnTcpRecv

\* One turn of the get_tcp_buf_chunk loop.
LEMMA ChunkInv ==
  ASSUME IInv, GetTcpBufChunk
  PROVE  IInv'
<1>0. /\ TypeOK /\ Layout /\ Aligned /\ conn = "open"
      /\ lo \in Nat /\ hi \in Nat /\ lo <= hi /\ hi - lo <= Cap /\ Total \in Nat /\ hi <= Total
      /\ hi - lo >= 1 /\ bounds' = bounds /\ fin' = fin /\ hi' = hi /\ lost' = lost
  BY HeaderAssumption DEF IInv, TypeOK, GetTcpBufChunk, Pending, Total
<1>1. PICK size \in HeaderFromNet(lo) : /\ size <= hi - lo
                                       /\ lo' = lo + size
                                       /\ Handle(lo, lo + size)
  BY DEF GetTcpBufChunk, ChunkReady, Pending
<1>2. size \in Nat
  BY <1>0, <1>1, HeaderType
<1>3. ASSUME ~lost
      PROVE  /\ Len(delivered) + 1 \in 1..(Len(bounds) - 1)
             /\ lo = bounds[Len(delivered) + 1]
             /\ lo + size = bounds[Len(delivered) + 2]
  <2> DEFINE k == Len(delivered) + 1
  <2>1. k \in 1..(Len(bounds) - 1) /\ lo = bounds[k]
    BY <1>3, <1>0, NextPacket
  <2>2. size = bounds[k + 1] - bounds[k] /\ bounds[k + 1] \in Nat
    BY <2>1, <1>0, <1>1, HeaderAtStart
  <2>3. k + 1 = Len(delivered) + 2
    BY <1>0 DEF TypeOK
  <2> QED BY <2>1, <2>2, <2>3, <1>0
<1>4. lo + size \in Nat /\ lo + size <= hi' /\ hi' - (lo + size) <= Cap
  BY <1>0, <1>1, <1>2, CapAssumption
<1> QED BY <1>0, <1>1, <1>3, <1>4, HandleInv

\* The get_tcp_buf_chunk loop ends.
LEMMA NoMoreChunkInv ==
  ASSUME IInv, NoMoreChunk
  PROVE  IInv'
<1>0. /\ TypeOK /\ Layout /\ Aligned /\ ClosedInv
      /\ UNCHANGED <<bounds, fin, lo, hi, conn, delivered, lost>> /\ pc' = "idle"
      /\ lo \in Nat /\ hi \in Nat /\ lo <= hi /\ hi <= Total /\ Total \in Nat
  BY DEF IInv, TypeOK, NoMoreChunk, Total
<1>1. TypeOK' /\ Layout' /\ Aligned' /\ ClosedInv'
  BY <1>0 DEF TypeOK, Layout, Aligned, Reassembled, ClosedInv, Pending, Total
<1>2. NothingCompleteWaits'
  <2>1. SUFFICES ASSUME ~lost, Len(delivered) + 1 < Len(bounds)
                 PROVE  hi < bounds[Len(delivered) + 2]
    BY <1>0 DEF NothingCompleteWaits
  <2> DEFINE k == Len(delivered) + 1
  <2>2. k \in 1..(Len(bounds) - 1) /\ k + 1 = Len(delivered) + 2 /\ lo = bounds[k]
    BY <2>1, <1>0 DEF TypeOK, Aligned
  <2>3. /\ HeaderFromNet(lo) = {bounds[k + 1] - lo} /\ bounds[k + 1] \in Nat
        /\ bounds[k + 1] - lo >= HeaderSize
    BY <2>2, <1>0, HeaderAtStart
  <2>4. CASE Pending < HeaderSize
    BY <2>2, <2>3, <2>4, <1>0, HeaderAssumption DEF Pending
  <2>5. CASE \E size \in HeaderFromNet(lo) : LoopEnds(size)
    BY <2>2, <2>3, <2>5, <1>0, HeaderAssumption DEF LoopEnds, ChunkReady, Pending
  <2> QED BY <2>4, <2>5 DEF NoMoreChunk
<1> QED BY <1>1, <1>2 DEF IInv

\* recv() returns 0.
LEMMA EofInv ==
  ASSUME IInv, TcpEof
  PROVE  IInv'
<1>0. /\ TypeOK /\ Layout /\ Aligned /\ NothingCompleteWaits
      /\ UNCHANGED <<bounds, fin, lo, hi, pc, delivered, lost>>
      /\ conn = "open" /\ conn' = "eof" /\ pc = "idle" /\ fin /\ hi = Total
      /\ Len(bounds) \in Nat /\ Len(delivered) \in Nat /\ Total \in Nat
  BY DEF IInv, TypeOK, TcpEof, EofSeen, Total
<1>1. TypeOK' /\ Layout' /\ Aligned' /\ NothingCompleteWaits'
  BY <1>0 DEF TypeOK, Layout, Aligned, Reassembled, NothingCompleteWaits, Pending, Total
<1>2. ASSUME ~lost PROVE Len(delivered) = Len(bounds) - 1
  <2>1. Len(delivered) < Len(bounds)
    BY <1>2, <1>0 DEF Aligned, Reassembled
  <2>2. ASSUME Len(delivered) + 1 < Len(bounds) PROVE FALSE
    <3> DEFINE m == Len(delivered) + 2
    <3>1. m \in 1..Len(bounds) /\ bounds[m] \in Nat
      BY <2>2, <1>0 DEF TypeOK
    <3>2. Total < bounds[m]
      BY <2>2, <1>2, <1>0 DEF NothingCompleteWaits
    <3>3. bounds[m] <= Total
      BY <3>1, <1>0 DEF Layout, Total
    <3> QED BY <3>1, <3>2, <3>3, <1>0
  <2> QED BY <2>1, <2>2, <1>0
<1>3. ClosedInv'
  BY <1>0, <1>2 DEF ClosedInv
<1> QED BY <1>1, <1>3 DEF IInv

\* recv() fails.
LEMMA RecvFailsInv ==
  ASSUME IInv, TcpRecvFails
  PROVE  IInv'
<1>1. UNCHANGED <<bounds, fin, lo, hi, pc, delivered, lost>> /\ conn' = "failed"
  BY DEF TcpRecvFails
<1> QED BY <1>1 DEF IInv, TypeOK, Layout, Aligned, Reassembled, NothingCompleteWaits, ClosedInv,
                    Pending, Total

LEMMA NextInv == IInv /\ [Next]_vars => IInv'
<1> SUFFICES ASSUME IInv, [Next]_vars PROVE IInv'
  OBVIOUS
<1>1. ASSUME NEW size \in Sizes, SockSendCommand(size) PROVE IInv'
  BY <1>1, SendInv
<1>2. CASE SenderCloses
  BY <1>2 DEF SenderCloses, IInv, TypeOK, Layout, Aligned, Reassembled, NothingCompleteWaits,
              ClosedInv, Pending, Total
<1>3. ASSUME NEW len \in 1..RecvMax, TcpRecv(len) PROVE IInv'
  BY <1>3, RecvInv
<1>4. CASE GetTcpBufChunk
  BY <1>4, ChunkInv
<1>5. CASE NoMoreChunk
  BY <1>5, NoMoreChunkInv
<1>6. CASE TcpEof
  BY <1>6, EofInv
<1>7. CASE TcpRecvFails
  BY <1>7, RecvFailsInv
<1>8. CASE UNCHANGED vars
  BY <1>8 DEF vars, IInv, TypeOK, Layout, Aligned, Reassembled, NothingCompleteWaits,
              ClosedInv, Pending, Total
<1> QED BY <1>1, <1>2, <1>3, <1>4, <1>5, <1>6, <1>7, <1>8 DEF Next, Receive

LEMMA Invariance == Spec => []IInv
BY InitInv, NextInv, PTL DEF Spec

-----------------------------------------------------------------------------
(***************************************************************************)
(* Type correctness, for all sizes: in particular the ring of tcp->rb      *)
(* never holds more than its capacity and never bytes that were not sent.  *)
(***************************************************************************)
THEOREM TypeCorrect == Spec => []TypeOK
<1>1. IInv => TypeOK
  BY DEF IInv
<1> QED BY <1>1, Invariance, PTL

(***************************************************************************)
(* However recv() cuts the stream, the packets handed to the handlers are  *)
(* the packets sent, whole and in order, until on_tcp_recv drops bytes     *)
(* because the ring is full.                                               *)
(***************************************************************************)
THEOREM OnlyOverflowBreaks == Spec => []ReassembledUnlessOverflow
<1>1. IInv => ReassembledUnlessOverflow
  BY DEF IInv, Aligned, ReassembledUnlessOverflow
<1> QED BY <1>1, Invariance, PTL

(***************************************************************************)
(* The get_tcp_buf_chunk loop leaves no complete packet in the ring.       *)
(***************************************************************************)
THEOREM LoopEmptiesRing == Spec => []NothingCompleteWaits
<1>1. IInv => NothingCompleteWaits
  BY DEF IInv
<1> QED BY <1>1, Invariance, PTL

(***************************************************************************)
(* recv() returns 0 only after every packet was handled: an orderly close  *)
(* leaves no packet in the ring, although the handler of any packet, and   *)
(* recv(), may fail before.                                                *)
(***************************************************************************)
THEOREM EofComesLast == Spec => []ClosedAfterAll
<1>1. IInv => ClosedAfterAll
  BY DEF IInv, ClosedInv, ClosedAfterAll
<1> QED BY <1>1, Invariance, PTL

-----------------------------------------------------------------------------
\* With at most Cap bytes outstanding what recv() returns fits the ring.
LEMMA PacedStep ==
  ASSUME IInv, Paced, ~lost, [Next]_vars
  PROVE  ~lost'
<1>1. ASSUME NEW len \in 1..RecvMax, TcpRecv(len) PROVE ~lost'
  <2>1. /\ hi + len <= Total /\ Total - lo <= Cap
        /\ hi \in Nat /\ lo \in Nat /\ Total \in Nat /\ len \in Nat /\ Cap \in Nat
    BY <1>1, RecvAssumption, CapAssumption DEF IInv, TypeOK, TcpRecv, Paced, Total
  <2>2. Fits(len)
    BY <2>1 DEF Fits, Pending
  <2> QED BY <1>1, <2>2 DEF TcpRecv, OnTcpRecv
<1> QED BY <1>1 DEF Next, Receive, SockSendCommand, SenderCloses, GetTcpBufChunk, NoMoreChunk,
                   TcpEof, TcpRecvFails, vars

(***************************************************************************)
(* The promise of the README, for a sender that keeps at most              *)
(* KCPEV_BUFFER_SIZE bytes outstanding: the packets handled are the packets*)
(* sent, whole and in order, for all sizes of packets and reads, also when *)
(* one read fills the ring, as it can in the code.                         *)
(***************************************************************************)
THEOREM PacedSenderIsSafe == Spec => PacedIsWhole
<1>1. Init => ~lost
  BY DEF Init
<1>2. IInv /\ Paced /\ ~lost /\ [Next]_vars => ~lost'
  BY PacedStep
<1>3. IInv /\ ~lost => Reassembled
  BY DEF IInv, Aligned
<1>4. Spec => ([]Paced => []Reassembled)
  BY <1>1, <1>2, <1>3, Invariance, PTL DEF Spec
<1> QED BY <1>4 DEF PacedIsWhole
=============================================================================
