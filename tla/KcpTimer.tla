----------------------------- MODULE KcpTimer ------------------------------
(***************************************************************************)
(* When KCP acts: the timer kcpev_timer_repeat keeps (src/src/kcpev.c),    *)
(* ikcp_check and ikcp_update, the retransmission times, round trip        *)
(* estimate and window probes of src/src/ikcp.c.  Kcp.tla says what is     *)
(* sent; here a segment is only its times.                                 *)
(*                                                                         *)
(* Two clocks run.  KCP reads the wall clock (ev_now in milliseconds, cut  *)
(* to 32 bits: wall, modulo Wrap), which wraps and which an administrator  *)
(* or NTP may step.  The event loop's timers run on the monotonic clock:   *)
(* wait counts down to the next call and falls below 0 while the loop is   *)
(* late.  True durations (idle, asked, and age in a segment) are history   *)
(* variables: no code reads them.  late is the network's: it holds at most *)
(* one acknowledgement of a segment that has left snd_buf, by the timestamp*)
(* it returns and the number of segments of snd_buf that were sent before. *)
(***************************************************************************)
EXTENDS Integers, Sequences, SequencesExt

CONSTANTS
  Wrap,                   \* 2^32
  Interval,               \* second argument of ikcp_nodelay, 10
  Retry,                  \* the 0.01 seconds of kcpev_timer_repeat
  SlapMax,                \* 10000
  RtoMin, RtoDef, RtoMax, \* IKCP_RTO_NDL, IKCP_RTO_DEF, IKCP_RTO_MAX
  ProbeInit, ProbeLimit,  \* IKCP_PROBE_INIT, IKCP_PROBE_LIMIT
  FastResend,             \* third argument of ikcp_nodelay
  SndWnd,                 \* window of both sides, in segments
  MaxLag,                 \* bound: how late the event loop calls a timer
  Scenarios               \* bound: what may happen, see Scenario

ASSUME PeriodAssumption ==
  /\ Interval \in Nat \ {0}
  /\ Retry \in Nat /\ Interval <= Retry
  /\ SlapMax \in Nat /\ Interval < SlapMax
  /\ Wrap \in Nat /\ 2 * SlapMax < Wrap
ASSUME RtoAssumption ==
  /\ RtoMin \in Nat \ {0} /\ RtoDef \in Nat /\ RtoMax \in Nat
  /\ RtoMin <= RtoDef /\ RtoDef <= RtoMax
ASSUME ProbeAssumption ==
  ProbeInit \in Nat \ {0} /\ ProbeLimit \in Nat /\ ProbeInit <= ProbeLimit
ASSUME BoundAssumption ==
  /\ FastResend \in Nat \ {0} /\ SndWnd \in Nat \ {0}
  /\ MaxLag \in Nat

\* Bounds of a behaviour: how many segments may be on their way at once, how
\* often one is sent before it is acknowledged, the windows the peer may
\* announce, how far the wall clock may be stepped, once, and how long after
\* it was sent a segment may still be acknowledged when it has left snd_buf.
Scenario == [segs : 0..SndWnd, xmit : Nat, wnds : SUBSET {0, SndWnd}, steps : SUBSET Int,
             late : Nat]

ASSUME ScenarioAssumption == Scenarios \subseteq Scenario

VARIABLES wall, kcp, late, wait, idle, asked, shift, scn
vars == <<wall, kcp, late, wait, idle, asked, shift, scn>>

Time == 0..(Wrap - 1)

Later(t, d) == (t + d) % Wrap

\* Mutant: times are compared as plain numbers.
MutDiff(a, b) == a - b

\* _itimediff: the difference of two 32-bit times, read as a signed number.
Diff(a, b) ==
  LET d == (a - b) % Wrap
  IN  IF 2 * d < Wrap THEN d ELSE d - Wrap

\* _ibound_
Bounded(lo, x, hi) == IF x < lo THEN lo ELSE IF x > hi THEN hi ELSE x

-----------------------------------------------------------------------------
(* ikcp_input: acknowledgements                                            *)

\* ikcp_update_ack: a new sample of the round trip time.
UpdateAck(k, rtt) ==
  LET delta  == IF rtt < k.rx_srtt THEN k.rx_srtt - rtt ELSE rtt - k.rx_srtt
      first  == k.rx_srtt = 0
      rttval == IF first THEN rtt \div 2 ELSE (3 * k.rx_rttval + delta) \div 4
      srtt   == IF first THEN rtt ELSE Max({1, (7 * k.rx_srtt + rtt) \div 8})
  IN  [k EXCEPT !.rx_srtt = srtt, !.rx_rttval = rttval,
                !.rx_rto = Bounded(RtoMin, srtt + Max({1, 4 * rttval}), RtoMax)]

\* The sample ikcp_input takes from the timestamp an acknowledgement returns;
\* kcp->current is the time of the last ikcp_update, not of the arrival.
Sample(k, ts) ==
  LET rtt == Diff(k.current, ts)
  IN  IF rtt >= 0 THEN UpdateAck(k, rtt) ELSE k

\* ikcp_parse_una for the first n segments, then ikcp_parse_ack for segment i
\* (none for 0).
Acknowledge(k, n, i) ==
  LET kept  == SubSeq(k.snd_buf, n + 1, Len(k.snd_buf))
      acked == SubSeq(k.snd_buf, i + 1, Len(k.snd_buf))
  IN  [k EXCEPT !.snd_buf = IF i <= n THEN kept ELSE SubSeq(kept, 1, i - n - 1) \o acked]

\* ikcp_parse_fastack for a segment that follows the first m of snd_buf.
Overtake(k, m) ==
  LET overtaken(seg) == [seg EXCEPT !.fastack = IF @ < FastResend THEN @ + 1 ELSE @]
  IN  [k EXCEPT !.snd_buf =
         [j \in DOMAIN @ |-> IF j <= m THEN overtaken(@[j]) ELSE @[j]]]

\* How many of the first m segments stay when the first n and the i-th go.
Left(m, n, i) ==
  IF m <= n THEN 0 ELSE IF n < i /\ i <= m THEN m - n - 1 ELSE m - n

-----------------------------------------------------------------------------
(* ikcp_flush                                                              *)

\* The remote window is closed, its probe has been scheduled and is due.
ProbeDue(k) ==
  /\ k.rmt_wnd = 0
  /\ k.probe_wait # 0
  /\ Diff(k.current, k.ts_probe) >= 0

\* Mutant: the wait grows by half each time without a limit.
MutProbe(k) ==
  LET grown == Max({k.probe_wait, ProbeInit}) + Max({k.probe_wait, ProbeInit}) \div 2
      wait_ == IF k.probe_wait = 0 THEN ProbeInit ELSE grown
  IN  CASE k.rmt_wnd # 0 -> [k EXCEPT !.ts_probe = 0, !.probe_wait = 0]
        [] k.rmt_wnd = 0 /\ (k.probe_wait = 0 \/ ProbeDue(k)) ->
             [k EXCEPT !.probe_wait = wait_, !.ts_probe = Later(k.current, wait_)]
        [] OTHER -> k

\* The window probe: scheduled when the window is found closed, sent and
\* scheduled again, later each time, when due.
Probe(k) ==
  LET grown == Max({k.probe_wait, ProbeInit}) + Max({k.probe_wait, ProbeInit}) \div 2
      wait_ == IF k.probe_wait = 0 THEN ProbeInit
               ELSE IF grown > ProbeLimit THEN ProbeLimit ELSE grown
  IN  CASE k.rmt_wnd # 0 -> [k EXCEPT !.ts_probe = 0, !.probe_wait = 0]
        [] k.rmt_wnd = 0 /\ (k.probe_wait = 0 \/ ProbeDue(k)) ->
             [k EXCEPT !.probe_wait = wait_, !.ts_probe = Later(k.current, wait_)]
        [] OTHER -> k

\* A segment moved from snd_queue to snd_buf: it has not been sent.
NewSegment(k) ==
  [resendts |-> k.current, rto |-> k.rx_rto, xmit |-> 0, fastack |-> 0,
   copies |-> {}, age |-> 0]

\* Segments move while the window, the smaller of SndWnd and rmt_wnd, has room.
\* (The code counts from snd_una, so that a segment acknowledged out of order
\* still takes room; numbers are Kcp.tla's part.)
FillBuffer(k) ==
  LET room  == IF k.rmt_wnd = 0 THEN 0 ELSE SndWnd - Len(k.snd_buf)
      moved == IF k.nsnd_que < room THEN k.nsnd_que ELSE room
  IN  [k EXCEPT !.nsnd_que = @ - moved,
                !.snd_buf  = @ \o [j \in 1..moved |-> NewSegment(k)]]

TimedOut(k, seg) == seg.xmit > 0 /\ Diff(k.current, seg.resendts) >= 0

\* Mutant: the next timeout is counted from when the last one was due.
MutTransmit(k, seg) ==
  LET sent(rto) == [seg EXCEPT !.xmit = @ + 1, !.rto = rto, !.copies = @ \cup {k.current},
                               !.resendts = Later(seg.resendts, rto), !.age = 0]
  IN  CASE seg.xmit = 0     -> sent(k.rx_rto)
        [] TimedOut(k, seg) -> sent(seg.rto + k.rx_rto \div 2)
        [] seg.xmit > 0 /\ ~TimedOut(k, seg) /\ seg.fastack >= FastResend ->
             [sent(seg.rto) EXCEPT !.fastack = 0]
        [] OTHER            -> seg

\* The loop over snd_buf: a new segment, one whose time has come, with half
\* the timeout more to wait the next time, and one that was overtaken are sent.
Transmit(k, seg) ==
  LET sent(rto) == [seg EXCEPT !.xmit = @ + 1, !.rto = rto, !.copies = @ \cup {k.current},
                               !.resendts = Later(k.current, rto), !.age = 0]
  IN  CASE seg.xmit = 0     -> sent(k.rx_rto)
        [] TimedOut(k, seg) -> sent(seg.rto + k.rx_rto \div 2)
        [] seg.xmit > 0 /\ ~TimedOut(k, seg) /\ seg.fastack >= FastResend ->
             [sent(seg.rto) EXCEPT !.fastack = 0]
        [] OTHER            -> seg

\* ikcp_flush
Flush(k) ==
  LET filled == FillBuffer(Probe(k))
  IN  [filled EXCEPT !.snd_buf = [j \in DOMAIN @ |-> Transmit(k, @[j])]]

-----------------------------------------------------------------------------
(* ikcp_update, ikcp_check, kcpev_timer_repeat                             *)

\* A clock that is far from ts_flush, before or after it, has been stepped.
Stepped(k, now) ==
  \/ Diff(now, k.ts_flush) >= SlapMax
  \/ Diff(now, k.ts_flush) < -SlapMax

\* Mutant: a stepped clock is not noticed.
MutFlushTime(k, now) == IF ~k.updated THEN now ELSE k.ts_flush

\* When the flush is planned, as ikcp_update and ikcp_check correct it.
FlushTime(k, now) == IF ~k.updated \/ Stepped(k, now) THEN now ELSE k.ts_flush

FlushDue(k, now) == Diff(now, FlushTime(k, now)) >= 0

\* ikcp_update: flush if the time has come, and plan the next one.
Update(k, now) ==
  LET next == Later(FlushTime(k, now), Interval)
      seen == [k EXCEPT !.current = now, !.updated = TRUE, !.ts_flush = FlushTime(k, now)]
  IN  IF FlushDue(k, now)
      THEN Flush([seen EXCEPT !.ts_flush = IF Diff(now, next) >= 0 THEN Later(now, Interval)
                                           ELSE next])
      ELSE seen

\* Mutant: the answer may lie beyond the next interval.
MutCheck(k, now) ==
  LET packets == {Diff(k.snd_buf[j].resendts, now) : j \in DOMAIN k.snd_buf}
  IN  IF FlushDue(k, now) \/ \E d \in packets : d <= 0 THEN now
      ELSE Later(now, Min(packets \cup {Diff(k.ts_flush, now)}))

\* ikcp_check: the time of the next call of ikcp_update.
Check(k, now) ==
  LET packets == {Diff(k.snd_buf[j].resendts, now) : j \in DOMAIN k.snd_buf}
  IN  IF FlushDue(k, now) \/ \E d \in packets : d <= 0 THEN now
      ELSE Later(now, Min(packets \cup {Diff(k.ts_flush, now), Interval}))

-----------------------------------------------------------------------------
\* ikcp_create; ts_flush is not read before the first ikcp_update
Created ==
  [ updated |-> FALSE, current |-> 0, ts_flush |-> Interval,
    rx_srtt |-> 0, rx_rttval |-> 0, rx_rto |-> RtoDef,
    nsnd_que |-> 0, snd_buf |-> <<>>, rmt_wnd |-> SndWnd,
    probe_wait |-> 0, ts_probe |-> 0 ]

\* check_create_kcp_timer: the timer first fires after 0.01 seconds.
Init ==
  /\ wall \in Time
  /\ kcp = Created
  /\ late = {}
  /\ wait = Retry
  /\ idle = 0 /\ asked = 0 /\ shift = 0
  /\ scn \in Scenarios

\* ikcp_send: a segment waits for the next flush.
Send ==
  /\ kcp.nsnd_que + Len(kcp.snd_buf) < scn.segs
  /\ kcp' = [kcp EXCEPT !.nsnd_que = @ + 1]
  /\ UNCHANGED <<wall, late, wait, idle, asked, shift, scn>>

\* The acknowledgements of the segments that leave snd_buf, the first n and
\* the i-th.
AcksLeft(n, i) ==
  UNION {{[ts |-> ts, before |-> Left(j - 1, n, i)] : ts \in kcp.snd_buf[j].copies} :
           j \in {j \in DOMAIN kcp.snd_buf : j <= n \/ j = i}}

\* The network keeps those of acks, or one of the segments that leave.
KeepLate(acks, n, i) ==
  \/ late' = {[a EXCEPT !.before = Left(@, n, i)] : a \in acks}
  \/ scn.late > 0 /\ \E a \in AcksLeft(n, i) : late' = {a}

\* ikcp_input: a datagram tells the remote window and that the first n
\* segments have arrived; it may acknowledge one segment, of snd_buf (the i-th)
\* or no longer there, returning the timestamp of one of its copies.
Input ==
  \E n, i \in 0..Len(kcp.snd_buf), wnd \in scn.wnds :
    LET heard == [kcp EXCEPT !.rmt_wnd = wnd]
    IN  /\ \/ i = 0 /\ kcp' = Acknowledge(heard, n, 0) /\ KeepLate(late, n, 0)
           \/ /\ i # 0 /\ KeepLate(late, n, i)
              /\ \E ts \in kcp.snd_buf[i].copies :
                   kcp' = Overtake(Acknowledge(Sample(heard, ts), n, i), Left(i, n, i))
           \/ /\ i = 0 /\ KeepLate({}, n, 0)
              /\ \E a \in late :
                   kcp' = Overtake(Acknowledge(Sample(heard, a.ts), n, 0), Left(a.before, n, 0))
        /\ asked' = IF wnd = 0 THEN asked ELSE 0
        /\ UNCHANGED <<wall, wait, idle, shift, scn>>

\* Mutant: a call that is due now is not put off.
MutSleep(now, next) == IF next < now THEN Retry ELSE next - now

\* The time to sleep until next: a segment that is due, or a next beyond the
\* wrap of the clock, is tried again after Retry.
Sleep(now, next) == IF next <= now THEN Retry ELSE next - now

\* kcpev_timer_repeat, called by the event loop.
TimerRepeat ==
  LET update == Check(kcp, wall) <= wall
      k      == IF update THEN Update(kcp, wall) ELSE kcp
      flush  == update /\ FlushDue(kcp, wall)
  IN  /\ wait <= 0
      /\ kcp' = k
      /\ wait' = Sleep(wall, Check(k, wall))
      /\ idle' = IF flush THEN 0 ELSE idle
      /\ asked' = IF flush /\ ProbeDue([kcp EXCEPT !.current = wall]) THEN 0 ELSE asked
      /\ UNCHANGED <<wall, late, shift, scn>>

Older(seg) == [seg EXCEPT !.age = @ + 1]

\* A millisecond passes on both clocks.  The loop is late by MaxLag at most,
\* and the network loses at most scn.xmit - 1 copies of a segment.
Tick ==
  /\ wait > -MaxLag
  /\ \A j \in DOMAIN kcp.snd_buf : kcp.snd_buf[j].xmit < scn.xmit
  /\ wall' = Later(wall, 1)
  /\ wait' = wait - 1
  /\ idle' = idle + 1
  /\ asked' = IF kcp.rmt_wnd = 0 THEN asked + 1 ELSE 0
  /\ kcp' = [kcp EXCEPT !.snd_buf = [j \in DOMAIN @ |-> Older(@[j])]]
  /\ late' = {a \in late : Diff(wall, a.ts) < scn.late}
  /\ UNCHANGED <<shift, scn>>

\* The wall clock is stepped.
StepClock ==
  /\ shift = 0
  /\ shift' \in scn.steps
  /\ wall' = Later(wall, shift')
  /\ UNCHANGED <<kcp, late, wait, idle, asked, scn>>

Next == Send \/ Input \/ TimerRepeat \/ Tick \/ StepClock

Spec == Init /\ [][Next]_vars

-----------------------------------------------------------------------------
\* How far the clock was set back, or ahead.
Back  == IF shift < 0 THEN -shift ELSE 0
Ahead == IF shift > 0 THEN shift ELSE 0

Segment ==
  [resendts : Time, rto : Nat, xmit : Nat \ {0}, fastack : 0..FastResend,
   copies : SUBSET Time, age : Nat]

\* The variables have their types: in particular the retransmission timeout
\* stays within its limits (ikcp_update_ack) and the timer is never set more
\* than Retry ahead (kcpev_timer_repeat).
TypeOK ==
  /\ wall \in Time
  /\ kcp \in [ updated : BOOLEAN, current : Time, ts_flush : Time,
               rx_srtt : Nat, rx_rttval : Nat, rx_rto : RtoMin..RtoMax,
               nsnd_que : 0..SndWnd, snd_buf : Seq(Segment), rmt_wnd : {0, SndWnd},
               probe_wait : 0..ProbeLimit, ts_probe : Time ]
  /\ late \subseteq [ts : Time, before : 0..SndWnd]
  /\ wait \in -MaxLag..Retry
  /\ idle \in Nat /\ asked \in Nat
  /\ shift \in scn.steps \cup {0}
  /\ scn \in Scenarios

\* The longest time between two flushes on a clock nobody steps.
FlushGap == Interval + Retry - 1 + MaxLag

\* No time the code compares with the clock is half a turn of it away, or the
\* signed difference would have the wrong sign: a flush that is late, and the
\* next flush, probe and timeout, seen from a clock that was stepped.
Reach ==
  \A s \in Scenarios : \A d \in s.steps \cup {0} :
    /\ 2 * (FlushGap + d) < Wrap
    /\ 2 * (Interval - d) < Wrap
    /\ 2 * (ProbeLimit - d) < Wrap
    /\ 2 * (RtoMax * (s.xmit + 1) - d) < Wrap

\* How much longer it may take after the clock was set back: as much, but a
\* step of more than SlapMax is noticed by the first call that sees it.
StepDelay == Min({Back, SlapMax + Retry - 1 + MaxLag})

\* kcpev_timer_repeat sets the timer at least a millisecond ahead, since a repeat
\* of 0 would stop it for good, and at most Retry; and not beyond the next flush
\* nor beyond any timeout, unless a segment is due that only the next flush
\* sends, or the clock is about to wrap.
Deadlines == {kcp.ts_flush} \cup {kcp.snd_buf[j].resendts : j \in DOMAIN kcp.snd_buf}

TimerRearmed ==
  [][TimerRepeat =>
       /\ 1 <= wait' /\ wait' <= Retry
       /\ \/ \A t \in Deadlines' : wait' <= Diff(t, wall)
          \/ \E j \in DOMAIN kcp'.snd_buf : Diff(kcp'.snd_buf[j].resendts, wall) <= 0
          \/ wall + Interval >= Wrap]_vars

\* KCP flushes (acknowledges, sends, retransmits) at least every FlushGap,
\* although a segment that is due wakes the timer early and sends it to sleep
\* again, and across the wrap of the clock, which next <= now does not allow
\* for.  A clock set back delays a flush by StepDelay, a clock set
\* ahead not at all (kcpev_timer_repeat, ikcp_update, ikcp_check).
FlushOnTime == idle <= FlushGap + StepDelay

\* A segment that is not acknowledged is sent again before another FlushGap has
\* passed since its timeout, and sooner when the next timer finds it due: then
\* one more does.  A clock set back adds as much, and may make the timer sleep
\* twice over a segment that is due (ikcp_flush, ikcp_check).
RetransmitOnTime ==
  \A j \in DOMAIN kcp.snd_buf :
    /\ kcp.snd_buf[j].age < kcp.snd_buf[j].rto + FlushGap + Back
    /\ Back = 0 => kcp.snd_buf[j].age <= kcp.snd_buf[j].rto + Retry + 2 * MaxLag

\* A segment is sent again only when its timeout has passed since it was last
\* sent or it was overtaken, whatever the wrap; a clock set ahead shortens the
\* timeout by as much (ikcp_flush).
RetransmitNotEarly ==
  [][\A j \in DOMAIN kcp.snd_buf :
       (/\ Len(kcp'.snd_buf) >= Len(kcp.snd_buf)
        /\ kcp'.snd_buf[j].xmit > kcp.snd_buf[j].xmit)
         => \/ kcp.snd_buf[j].age + Ahead >= kcp.snd_buf[j].rto
            \/ kcp.snd_buf[j].fastack >= FastResend]_vars

\* While the remote window stays closed the peer is asked again and again,
\* whatever happens between two flushes (ikcp_flush).
ProbeOnTime ==
  asked <= Max({ProbeInit + 2 * FlushGap, ProbeLimit + FlushGap}) + Back
=============================================================================
