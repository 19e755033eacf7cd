----------------------------- MODULE TcpFraming -----------------------------
(***************************************************************************)
(* Reassembly of packets from the TCP byte stream, as both ends of a kcpev *)
(* connection do it (client_tcp_recv and server_tcp_recv of kcpev.c, with  *)
(* on_tcp_recv and get_tcp_buf_chunk).  A packet is a header that carries  *)
(* the packet's size, and a payload; TCP delivers the bytes in order but   *)
(* cut at arbitrary places.  Bytes are named by their offset in the        *)
(* stream; the pending bytes of the ring buffer (see RingBuf, which        *)
(* implements a FIFO queue of Cap bytes) are the offsets lo .. hi-1.       *)
(***************************************************************************)
EXTENDS Integers, Sequences

CONSTANTS
  Cap,          \* KCPEV_BUFFER_SIZE: capacity of the ring and of every local buffer
  RecvMax,      \* most bytes one recv() returns: at most sizeof(buf) = Cap
  HeaderSize,   \* sizeof(KcpevHeader)
  Sizes,        \* sizes (header included) of the packets the application sends
  MaxPackets    \* bound on the number of packets sent (checking only)

ASSUME CapAssumption == Cap \in Nat \ {0}
ASSUME RecvAssumption == RecvMax \in 1..Cap
ASSUME HeaderAssumption == HeaderSize \in Nat \ {0}
ASSUME SizesAssumption == Sizes \subseteq {s \in Nat : s >= HeaderSize}
ASSUME MaxPacketsAssumption == MaxPackets \in Nat

VARIABLES
  bounds,       \* bounds[k] is the offset at which the k-th packet sent starts;
                \* the last element is the length of the stream so far
  fin,          \* the sender has closed its end
  lo, hi,       \* the pending bytes of tcp->rb; hi bytes were received in all
  pc,           \* "idle", or "drain" inside the get_tcp_buf_chunk loop
  conn,         \* "open"; the error path ends it: "eof" when recv() returned 0,
                \* "failed" when recv() or the handler of a packet returned -1
  delivered,    \* <<from, to>> of every packet given to on_client_recv/on_server_recv
  lost          \* history: on_tcp_recv has dropped bytes

vars == <<bounds, fin, lo, hi, pc, conn, delivered, lost>>

Total == bounds[Len(bounds)]

-----------------------------------------------------------------------------
(* The sender.                                                             *)

\* pack_send_buf refuses what does not fit its buffer; the blocking send()
\* of sock_send_command writes the whole packet.
SockSendCommand(size) ==
  /\ ~fin
  /\ Len(bounds) <= MaxPackets
  /\ size <= Cap
  /\ bounds' = Append(bounds, Total + size)
  /\ UNCHANGED <<fin, lo, hi, pc, conn, delivered, lost>>

SenderCloses ==
  /\ ~fin
  /\ fin' = TRUE
  /\ UNCHANGED <<bounds, lo, hi, pc, conn, delivered, lost>>

-----------------------------------------------------------------------------
(* The receiver.                                                           *)

\* header_from_net at stream offset p: the size of the packet that starts
\* there; in the middle of a packet the header is made of payload bytes and
\* can say anything.
StartsAt(p) == {k \in 1..(Len(bounds) - 1) : bounds[k] = p}

HeaderFromNet(p) ==
  IF StartsAt(p) = {} THEN 0..(Cap + 1) ELSE {bounds[k + 1] - bounds[k] : k \in StartsAt(p)}

\* The handler may fail, of a packet the peer sent (a call it makes fails) as
\* of what is read in the middle of one: the error path closes the connection
\* (server) or ends the process (client), whatever is still in the ring.
Handle(from, to) ==
  /\ delivered' = Append(delivered, <<from, to>>)
  /\ conn' \in {"open", "failed"}
  /\ pc' = IF conn' = "open" THEN "drain" ELSE "idle"

Pending == hi - lo

\* Mutant: what is pending is not counted.
MutFits(len) == len <= Cap

\* Mutant: the last free byte of the ring is not used.
MutFull(len) == Pending + len < Cap

\* ringbuf_put has room for len bytes more.
Fits(len) == Pending + len <= Cap

\* Mutant: pending bytes are overlooked.
MutIsWhole(len, size) == len >= HeaderSize /\ size = len

\* Nothing is pending and the len bytes received are one whole packet.
IsWhole(len, size) == Pending = 0 /\ len >= HeaderSize /\ size = len

\* on_tcp_recv: the packet is handled in place; the bytes are queued; or
\* ringbuf_put fails, the pending bytes are moved to a larger ring that is
\* never installed and the received bytes are put nowhere.
OnTcpRecv(len, size) ==
  \/ /\ IsWhole(len, size)
     /\ lo' = hi + len
     /\ Handle(hi, hi + len)
     /\ lost' = lost
  \/ /\ ~IsWhole(len, size) /\ Fits(len)
     /\ pc' = "drain"
     /\ UNCHANGED <<lo, conn, delivered, lost>>
  \/ /\ ~IsWhole(len, size) /\ ~Fits(len)
     /\ lo' = hi + len
     /\ lost' = TRUE
     /\ pc' = "drain"
     /\ UNCHANGED <<conn, delivered>>

\* One recv() of len bytes, up to the get_tcp_buf_chunk loop.
TcpRecv(len) ==
  /\ conn = "open" /\ pc = "idle"
  /\ hi + len <= Total
  /\ hi' = hi + len
  /\ \E size \in HeaderFromNet(hi) : OnTcpRecv(len, size)
  /\ UNCHANGED <<bounds, fin>>

\* One more packet is complete: one turn of the get_tcp_buf_chunk loop.  A
\* header that says 0 ends the loop with nothing consumed.
ChunkReady(size) == size <= Pending

GetTcpBufChunk ==
  /\ conn = "open" /\ pc = "drain"
  /\ Pending >= HeaderSize
  /\ \E size \in HeaderFromNet(lo) \ {0} :
        /\ ChunkReady(size)
        /\ lo' = lo + size
        /\ Handle(lo, lo + size)
  /\ UNCHANGED <<bounds, fin, hi, lost>>

\* Mutant: at most one packet is taken out per read.
MutLoopEnds(size) == TRUE

\* The loop ends: the next packet is not complete.
LoopEnds(size) == size = 0 \/ ~ChunkReady(size)

\* Mutant: an incomplete packet does not end the loop.
MutNoMoreChunk == UNCHANGED vars

NoMoreChunk ==
  /\ conn = "open" /\ pc = "drain"
  /\ \/ Pending < HeaderSize
     \/ \E size \in HeaderFromNet(lo) : LoopEnds(size)
  /\ pc' = "idle"
  /\ UNCHANGED <<bounds, fin, lo, hi, conn, delivered, lost>>

\* Mutant: a close overtakes the data.
MutEofSeen == fin

\* recv() returns 0 only when everything that was sent has been read.
EofSeen == fin /\ hi = Total

TcpEof ==
  /\ conn = "open" /\ pc = "idle"
  /\ EofSeen
  /\ conn' = "eof"
  /\ UNCHANGED <<bounds, fin, lo, hi, pc, delivered, lost>>

\* recv() fails (the peer's end was reset): what was not read is gone.
TcpRecvFails ==
  /\ conn = "open" /\ pc = "idle"
  /\ conn' = "failed"
  /\ UNCHANGED <<bounds, fin, lo, hi, pc, delivered, lost>>

-----------------------------------------------------------------------------
Init ==
  /\ bounds = <<0>>
  /\ fin = FALSE
  /\ lo = 0 /\ hi = 0
  /\ pc = "idle" /\ conn = "open"
  /\ delivered = <<>>
  /\ lost = FALSE

Receive == (\E len \in 1..RecvMax : TcpRecv(len)) \/ GetTcpBufChunk \/ NoMoreChunk \/ TcpEof

Next == (\E size \in Sizes : SockSendCommand(size)) \/ SenderCloses \/ Receive \/ TcpRecvFails

\* libev calls the read callback again as long as the socket is readable; no
\* connection has to fail.
Fairness == WF_vars(Receive)

Spec == Init /\ [][Next]_vars /\ Fairness

-----------------------------------------------------------------------------
TypeOK ==
  /\ bounds \in Seq(Nat) /\ Len(bounds) >= 1
  /\ fin \in BOOLEAN
  /\ lo \in Nat /\ hi \in Nat
  /\ lo <= hi /\ Pending <= Cap
  /\ hi <= Total
  /\ pc \in {"idle", "drain"}
  /\ conn \in {"open", "eof", "failed"}
  /\ delivered \in Seq(Nat \X Nat)
  /\ lost \in BOOLEAN

(***************************************************************************)
(* What the README promises of TCP reassembly: the packets handed to the   *)
(* handler are exactly the packets sent, whole, in order, none missing.    *)
(***************************************************************************)
Reassembled ==
  /\ Len(delivered) < Len(bounds)
  /\ \A k \in 1..Len(delivered) : delivered[k] = <<bounds[k], bounds[k + 1]>>

(***************************************************************************)
(* The overflow branch of on_tcp_recv is the only thing that can break the *)
(* reassembly, however recv() cuts the stream.                             *)
(***************************************************************************)
ReassembledUnlessOverflow == ~lost => Reassembled

(***************************************************************************)
(* A complete packet never waits in the ring for bytes of a later one: when*)
(* the read callback returns, the next packet has not arrived completely.  *)
(* So what is pending is always less than one packet.                      *)
(***************************************************************************)
NothingCompleteWaits ==
  pc = "idle" /\ ~lost /\ conn = "open" /\ Len(delivered) + 1 < Len(bounds) =>
    hi < bounds[Len(delivered) + 2]

(***************************************************************************)
(* An orderly close discards nothing: when recv() returns 0 every packet   *)
(* that was sent has been handled, those that were waiting in the ring     *)
(* included.  The other ways to the error path do discard packets: the     *)
(* ones behind the packet whose handler failed, and what recv() did not    *)
(* return before it failed.                                                *)
(***************************************************************************)
ClosedAfterAll == conn = "eof" /\ ~lost => Len(delivered) = Len(bounds) - 1

(***************************************************************************)
(* Every packet sent is handled in the end, unless bytes are dropped or    *)
(* the connection fails.                                                   *)
(***************************************************************************)
EverythingHandled ==
  \A k \in 1..MaxPackets :
    Len(bounds) > k ~> (Len(delivered) >= k \/ lost \/ conn = "failed")

(***************************************************************************)
(* A sender that waits for its packets to be handled, so that at most      *)
(* KCPEV_BUFFER_SIZE bytes are on their way or in the ring, gets what the  *)
(* README promises: with at most that much outstanding on_tcp_recv never   *)
(* drops a byte, however the bytes are cut.  Nothing of kcpev paces the    *)
(* sender: an application has to.                                          *)
(***************************************************************************)
Paced == Total - lo <= Cap

PacedIsWhole == []Paced => []Reassembled
=============================================================================
