-------------------------------- MODULE Kcp --------------------------------
(***************************************************************************)
(* The ARQ of src/src/ikcp.c as operators on one control block (struct     *)
(* IKCPCB): what ikcp_send, ikcp_input, ikcp_recv and ikcp_flush make of   *)
(* it.  The configuration is the one kcpev_create_kcp chooses: no          *)
(* congestion window (nocwnd = 1), fast resend on.  Sequence numbers do    *)
(* not wrap here.  Time is left out: which segments have passed their      *)
(* retransmission time, and whether the window probe is due, are inputs of *)
(* ikcp_flush.                                                             *)
(***************************************************************************)
EXTENDS Integers, Sequences, SequencesExt

CONSTANTS
  WndInit,          \* IKCP_WND_RCV, what is assumed of the remote window at first
  FastResend,       \* third argument of ikcp_nodelay
  MtuSegs           \* segments that fit one datagram of mtu bytes

ASSUME WndAssumption == WndInit \in Nat \ {0}
ASSUME FastResendAssumption == FastResend \in Nat \ {0}
ASSUME MtuAssumption == MtuSegs \in Nat \ {0}

\* The number of leading elements of s for which P(j), taken from 1 on, holds.
Leading(s, P(_)) == Max({n \in 0..Len(s) : \A j \in 1..n : P(j)})

Lesser(a, b) == IF a < b THEN a ELSE b

-----------------------------------------------------------------------------
\* ikcp_create.  IKCP_WND_SND and IKCP_WND_RCV are the same.
KcpCreate ==
  [ snd_wnd   |-> WndInit, rcv_wnd |-> WndInit,
    snd_queue |-> <<>>,     \* fragments not yet numbered
    snd_buf   |-> <<>>,     \* numbered, sent or about to be, not acknowledged
    snd_una   |-> 0, snd_nxt |-> 0,
    rmt_wnd   |-> WndInit,
    rcv_buf   |-> <<>>,     \* received out of order, or for want of room
    rcv_queue |-> <<>>,     \* in order, ready for ikcp_recv
    rcv_nxt   |-> 0,
    acklist   |-> <<>>,
    probe     |-> {},       \* flags: "ASK_SEND", "ASK_TELL"
    probing   |-> FALSE ]   \* probe_wait # 0

\* ikcp_wndsize: a size of 0 leaves the window as it is.
WndSize(k, sndwnd, rcvwnd) ==
  [k EXCEPT !.snd_wnd = IF sndwnd > 0 THEN sndwnd ELSE @,
            !.rcv_wnd = IF rcvwnd > 0 THEN rcvwnd ELSE @]

\* ikcp_send: data is the sequence of the message's fragments.  A fragment
\* carries the number of fragments that follow it.
KcpSend(k, data) ==
  LET n == Len(data)
  IN  [k EXCEPT !.snd_queue = @ \o [j \in 1..n |-> [frg |-> n - j, data |-> data[j]]]]

\* ikcp_wnd_unused
WndUnused(k) == IF Len(k.rcv_queue) < k.rcv_wnd THEN k.rcv_wnd - Len(k.rcv_queue) ELSE 0

-----------------------------------------------------------------------------
(* ikcp_input                                                              *)

\* Mutant: an empty buffer leaves snd_una as it was.
MutShrinkBuf(k) ==
  [k EXCEPT !.snd_una = IF k.snd_buf # <<>> THEN Head(k.snd_buf).sn ELSE @]

\* ikcp_shrink_buf
ShrinkBuf(k) ==
  [k EXCEPT !.snd_una = IF k.snd_buf # <<>> THEN Head(k.snd_buf).sn ELSE k.snd_nxt]

\* Mutant: una itself is taken to be received.
MutParseUna(k, una) ==
  LET n == Leading(k.snd_buf, LAMBDA j : k.snd_buf[j].sn <= una)
  IN  [k EXCEPT !.snd_buf = SubSeq(@, n + 1, Len(@))]

\* ikcp_parse_una: everything before una has been received.
ParseUna(k, una) ==
  LET n == Leading(k.snd_buf, LAMBDA j : k.snd_buf[j].sn < una)
  IN  [k EXCEPT !.snd_buf = SubSeq(@, n + 1, Len(@))]

InFlight(k, sn) == k.snd_una <= sn /\ sn < k.snd_nxt

\* ikcp_parse_ack: this one has been received.  The scan stops at the first
\* segment that is not before it.
ParseAck(k, sn) ==
  LET n == Leading(k.snd_buf, LAMBDA j : k.snd_buf[j].sn < sn)
  IN  IF InFlight(k, sn) /\ n < Len(k.snd_buf) /\ k.snd_buf[n + 1].sn = sn
      THEN [k EXCEPT !.snd_buf = RemoveAt(@, n + 1)]
      ELSE k

\* Counts beyond FastResend are not told apart.
Overtaken(seg) == [seg EXCEPT !.fastack = Lesser(@ + 1, FastResend)]

\* ikcp_parse_fastack: a later segment overtook these.
ParseFastack(k, sn) ==
  IF InFlight(k, sn)
  THEN [k EXCEPT !.snd_buf =
          [j \in DOMAIN @ |-> IF @[j].sn < sn THEN Overtaken(@[j]) ELSE @[j]]]
  ELSE k

\* The loops at the end of ikcp_parse_data and ikcp_recv: what has become in
\* order moves from rcv_buf to rcv_queue while there is room.
MoveReady(k) ==
  LET n == Leading(k.rcv_buf, LAMBDA j : /\ k.rcv_buf[j].sn = k.rcv_nxt + j - 1
                                         /\ Len(k.rcv_queue) + j - 1 < k.rcv_wnd)
  IN  [k EXCEPT !.rcv_queue = @ \o SubSeq(k.rcv_buf, 1, n),
                !.rcv_buf   = SubSeq(@, n + 1, Len(@)),
                !.rcv_nxt   = @ + n]

\* The scan of ikcp_parse_data, from the tail, for the place of a segment;
\* a repeated segment is dropped.
Insert(buf, seg) ==
  LET p == Max({n \in 0..Len(buf) : n = 0 \/ buf[n].sn <= seg.sn})
  IN  IF p > 0 /\ buf[p].sn = seg.sn THEN buf ELSE InsertAt(buf, p + 1, seg)

InWindow(k, sn) == k.rcv_nxt <= sn /\ sn < k.rcv_nxt + k.rcv_wnd

\* ikcp_parse_data
ParseData(k, seg) ==
  IF InWindow(k, seg.sn)
  THEN MoveReady([k EXCEPT !.rcv_buf = Insert(@, seg)])
  ELSE k

\* Mutant: a segment beyond the window is acknowledged too.
MutInputPush(k, seg) ==
  LET acked == [k EXCEPT !.acklist = Append(@, seg.sn)]
  IN  ParseData(acked, [sn |-> seg.sn, frg |-> seg.frg, data |-> seg.data])

\* The PUSH case of ikcp_input: a segment before the window is acknowledged
\* again, one beyond it is ignored.
InputPush(k, seg) ==
  IF seg.sn < k.rcv_nxt + k.rcv_wnd
  THEN LET acked == [k EXCEPT !.acklist = Append(@, seg.sn)]
       IN  ParseData(acked, [sn |-> seg.sn, frg |-> seg.frg, data |-> seg.data])
  ELSE k

\* One turn of the loop of ikcp_input; st.maxack is -1 while flag is 0.
InputSegment(st, seg) ==
  LET k == ShrinkBuf(ParseUna([st.kcp EXCEPT !.rmt_wnd = seg.wnd], seg.una))
  IN  [ kcp    |-> CASE seg.cmd = "ACK"  -> ShrinkBuf(ParseAck(k, seg.sn))
                     [] seg.cmd = "PUSH" -> InputPush(k, seg)
                     [] seg.cmd = "WASK" -> [k EXCEPT !.probe = @ \union {"ASK_TELL"}]
                     [] seg.cmd = "WINS" -> k,
        maxack |-> IF seg.cmd = "ACK" THEN Max({st.maxack, seg.sn}) ELSE st.maxack ]

\* The loop over the first n segments of a datagram.
InputLoop(k, datagram) ==
  LET st[n \in 0..Len(datagram)] ==
        IF n = 0 THEN [kcp |-> k, maxack |-> -1] ELSE InputSegment(st[n - 1], datagram[n])
  IN  st

\* ikcp_input of a datagram, a sequence of segments.
KcpInput(k, datagram) ==
  LET st == InputLoop(k, datagram)[Len(datagram)]
  IN  IF st.maxack # -1 THEN ParseFastack(st.kcp, st.maxack) ELSE st.kcp

-----------------------------------------------------------------------------
(* ikcp_recv                                                               *)

\* ikcp_peeksize >= 0: the first message is complete.
KcpReady(k) ==
  /\ k.rcv_queue # <<>>
  /\ Len(k.rcv_queue) >= Head(k.rcv_queue).frg + 1

\* Mutant: the loop stops after one fragment.
MutFirstMessage(k) == SubSeq(k.rcv_queue, 1, 1)

\* The fragments of the first message: up to the first whose frg is 0.
FirstMessage(k) ==
  SubSeq(k.rcv_queue, 1, 1 + Leading(k.rcv_queue, LAMBDA j : k.rcv_queue[j].frg # 0))

KcpPeek(k) == LET m == FirstMessage(k) IN [j \in DOMAIN m |-> m[j].data]

\* Mutant: the buffered segments are not looked at again.
MutKcpRecv(k) == [k EXCEPT !.rcv_queue = SubSeq(@, Len(FirstMessage(k)) + 1, Len(@))]

KcpRecv(k) ==
  LET taken == [k EXCEPT !.rcv_queue = SubSeq(@, Len(FirstMessage(k)) + 1, Len(@))]
      moved == MoveReady(taken)
  IN  IF Len(k.rcv_queue) >= k.rcv_wnd /\ Len(moved.rcv_queue) < k.rcv_wnd
      THEN [moved EXCEPT !.probe = @ \union {"ASK_TELL"}]
      ELSE moved

-----------------------------------------------------------------------------
(* ikcp_flush                                                              *)

\* The fields ikcp_encode_seg writes that every outgoing segment shares.
Encode(k, cmd, sn, frg, data) ==
  [cmd |-> cmd, wnd |-> WndUnused(k), una |-> k.rcv_nxt, sn |-> sn, frg |-> frg, data |-> data]

\* Mutant: a closed remote window is never probed.
MutAskWindow(k, due) == [k EXCEPT !.probing = k.rmt_wnd = 0]

\* A remote window of zero arms the probe timer, and asks when it is due.
AskWindow(k, due) ==
  IF k.rmt_wnd = 0
  THEN [k EXCEPT !.probing = TRUE,
                 !.probe = IF k.probing /\ due THEN @ \union {"ASK_SEND"} ELSE @]
  ELSE [k EXCEPT !.probing = FALSE]

\* Mutant: the remote window is not taken into account.
MutSendWindow(k) == k.snd_wnd

SendWindow(k) == Lesser(k.snd_wnd, k.rmt_wnd)

\* snd_queue -> snd_buf, as far as the window lets it.
NumberSegments(k) ==
  LET room == k.snd_una + SendWindow(k) - k.snd_nxt
      n    == IF room > 0 THEN Lesser(room, Len(k.snd_queue)) ELSE 0
  IN  [k EXCEPT !.snd_queue = SubSeq(@, n + 1, Len(@)),
                !.snd_buf   = @ \o [j \in 1..n |-> [ sn      |-> k.snd_nxt + j - 1,
                                                     frg     |-> k.snd_queue[j].frg,
                                                     data    |-> k.snd_queue[j].data,
                                                     xmit    |-> FALSE,
                                                     fastack |-> 0 ]],
                !.snd_nxt   = @ + n]

\* The three reasons to transmit a segment: never sent, late, overtaken.
NeedSend(seg, late) == ~seg.xmit \/ seg.sn \in late \/ seg.fastack >= FastResend

\* Only the fast retransmission resets the overtaken count.
Transmitted(seg, late) ==
  [seg EXCEPT !.fastack = IF seg.xmit /\ seg.sn \notin late /\ @ >= FastResend THEN 0 ELSE @,
              !.xmit = TRUE]

\* What the loop over the first n segments of buf writes.
WriteLoop(k, buf, late) ==
  LET out[n \in 0..Len(buf)] ==
        IF n = 0 THEN <<>>
        ELSE IF NeedSend(buf[n], late)
        THEN Append(out[n - 1], Encode(k, "PUSH", buf[n].sn, buf[n].frg, buf[n].data))
        ELSE out[n - 1]
  IN  out

\* The control block after ikcp_flush, and the segments it writes, in order.
\* late: the segments past their retransmission time; due: the probe is due.
KcpFlush(k, late, due) ==
  LET asked == AskWindow(k, due)
      full  == NumberSegments(asked)
  IN  [ kcp |-> [full EXCEPT !.acklist = <<>>, !.probe = {},
                   !.snd_buf = [j \in DOMAIN @ |-> IF NeedSend(@[j], late)
                                                   THEN Transmitted(@[j], late) ELSE @[j]]],
        out |->    [j \in DOMAIN k.acklist |-> Encode(k, "ACK", k.acklist[j], 0, <<>>)]
                \o (IF "ASK_SEND" \in asked.probe THEN <<Encode(k, "WASK", 0, 0, <<>>)>> ELSE <<>>)
                \o (IF "ASK_TELL" \in asked.probe THEN <<Encode(k, "WINS", 0, 0, <<>>)>> ELSE <<>>)
                \o WriteLoop(k, full.snd_buf, late)[Len(full.snd_buf)] ]

\* Mutant: the room is compared before the segment is written.
MutDatagrams(out) ==
  {SubSeq(out, n * (MtuSegs + 1) + 1, Lesser((n + 1) * (MtuSegs + 1), Len(out))) :
     n \in {m \in 0..Len(out) : m * (MtuSegs + 1) < Len(out)}}

\* ikcp_output: the written segments leave in datagrams of at most mtu bytes.
Datagrams(out) ==
  {SubSeq(out, n * MtuSegs + 1, Lesser((n + 1) * MtuSegs, Len(out))) :
     n \in {m \in 0..Len(out) : m * MtuSegs < Len(out)}}
=============================================================================
