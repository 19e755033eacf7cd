-------------------------- MODULE KcpTimerProofs ---------------------------
(***************************************************************************)
(* Proofs about KcpTimer, for every clock, period, timeout and scenario:   *)
(* at any place of the clock, which wraps, and with a clock that is        *)
(* stepped once, by any amount that Reach allows.                          *)
(***************************************************************************)
EXTENDS KcpTimer, WellFoundedInduction, SequenceTheorems, TLAPS

-----------------------------------------------------------------------------
(* Numbers                                                                 *)

(***************************************************************************)
(* The remainder is a time (Later and Diff both end in one).               *)
(***************************************************************************)
LEMMA ModType ==
  ASSUME NEW a \in Int
  PROVE  a % Wrap \in Time
<1>1. Wrap \in Nat /\ Wrap > 0
  BY PeriodAssumption
<1>2. a % Wrap \in 0..(Wrap - 1)
  BY <1>1
<1> QED BY <1>2 DEF Time

(***************************************************************************)
(* The remainder of a number that is off by at most one turn of the clock. *)
(***************************************************************************)
LEMMA ModNear ==
  ASSUME NEW a \in Int, -Wrap <= a, a < 2 * Wrap
  PROVE  /\ a < 0 => a % Wrap = a + Wrap
         /\ 0 <= a /\ a < Wrap => a % Wrap = a
         /\ Wrap <= a => a % Wrap = a - Wrap
<1>1. Wrap \in Nat /\ Wrap > 0
  BY PeriodAssumption
<1>2. ASSUME 0 <= a, a < Wrap PROVE a % Wrap = a
  BY <1>1, <1>2
<1>3. ASSUME Wrap <= a PROVE a % Wrap = a - Wrap
  BY <1>1, <1>3
<1>4. ASSUME a < 0 PROVE a % Wrap = a + Wrap
  BY <1>1, <1>4
<1> QED BY <1>2, <1>3, <1>4

(***************************************************************************)
(* Max of two numbers.                                                     *)
(***************************************************************************)
LEMMA MaxNat ==
  ASSUME NEW a \in Nat, NEW b \in Nat, NEW S, S = {a, b}
  PROVE  Max(S) \in Nat /\ Max(S) >= a /\ Max(S) >= b /\ (Max(S) = a \/ Max(S) = b)
<1>1. \E x \in S : \A y \in S : x >= y
  OBVIOUS
<1> QED BY <1>1 DEF Max

(***************************************************************************)
(* Min of two numbers.                                                     *)
(***************************************************************************)
LEMMA MinPair ==
  ASSUME NEW a \in Nat, NEW b \in Nat, NEW S, S = {a, b}
  PROVE  Min(S) = a \/ Min(S) = b
<1>1. \E x \in S : \A y \in S : x <= y
  OBVIOUS
<1> QED BY <1>1 DEF Min

(***************************************************************************)
(* Min of a set of natural numbers that need not be finite: its least      *)
(* element.                                                                *)
(***************************************************************************)
LEMMA MinNat ==
  ASSUME NEW S \in SUBSET Nat, S # {}
  PROVE  Min(S) \in S /\ \A x \in S : Min(S) <= x
<1>1. PICK u \in S : \A v \in S : ~(<<v, u>> \in OpToRel(<, Nat))
  BY NatLessThanWellFounded, WFMin, Zenon
<1>2. \A v \in S : ~(v < u)
  BY <1>1, Zenon DEF OpToRel
<1>3. \A v \in S : u <= v
  BY <1>2
<1> QED BY <1>3 DEF Min

-----------------------------------------------------------------------------
(* The control block and the clock                                         *)

(***************************************************************************)
(* The control block, whose segments are of the set Segs.                  *)
(***************************************************************************)
KcpRec(Segs) ==
  [ updated : BOOLEAN, current : Time, ts_flush : Time,
    rx_srtt : Nat, rx_rttval : Nat, rx_rto : RtoMin..RtoMax,
    nsnd_que : 0..SndWnd, snd_buf : Seq(Segs), rmt_wnd : {0, SndWnd},
    probe_wait : 0..ProbeLimit, ts_probe : Time ]

(***************************************************************************)
(* A segment of snd_buf within ikcp_flush: it may not have been sent so    *)
(* far.                                                                    *)
(***************************************************************************)
RawSegment ==
  [resendts : Time, rto : Nat, xmit : Nat, fastack : 0..FastResend,
   copies : SUBSET Time, age : Nat]

(***************************************************************************)
(* snd_queue and snd_buf together never hold more than the window.         *)
(***************************************************************************)
Room(k) == k.nsnd_que + Len(k.snd_buf) <= SndWnd

(***************************************************************************)
(* Adding to a time gives a time.                                          *)
(***************************************************************************)
LEMMA LaterType ==
  ASSUME NEW t \in Int, NEW d \in Int
  PROVE  Later(t, d) \in Time
<1>1. t + d \in Int
  OBVIOUS
<1> QED BY <1>1, ModType DEF Later

(***************************************************************************)
(* A time is a natural number below Wrap.                                  *)
(***************************************************************************)
LEMMA TimeIs ==
  /\ Wrap \in Nat /\ Wrap > 0
  /\ \A t \in Time : t \in Int /\ 0 <= t /\ t < Wrap
  BY PeriodAssumption DEF Time

(***************************************************************************)
(* _itimediff: the difference, give or take one turn of the clock, within  *)
(* half a turn.                                                            *)
(***************************************************************************)
LEMMA DiffIs ==
  ASSUME NEW a \in Time, NEW b \in Time
  PROVE  /\ Diff(a, b) \in Int
         /\ 2 * Diff(a, b) < Wrap /\ -Wrap <= 2 * Diff(a, b)
         /\ \/ Diff(a, b) = a - b
            \/ Diff(a, b) = a - b + Wrap
            \/ Diff(a, b) = a - b - Wrap
<1>0. /\ Wrap \in Nat /\ Wrap > 0 /\ a \in Int /\ b \in Int
      /\ 0 <= a /\ a < Wrap /\ 0 <= b /\ b < Wrap
  BY TimeIs
<1>1. PICK e \in Int : e = a - b
  BY <1>0
<1>2. -Wrap <= e /\ e < 2 * Wrap /\ e < Wrap
  BY <1>0, <1>1
<1>3. PICK d : d = e % Wrap
  OBVIOUS
<1>4. (e < 0 /\ d = e + Wrap) \/ (0 <= e /\ d = e)
  BY <1>0, <1>2, <1>3, ModNear
<1>5. Diff(a, b) = IF 2 * d < Wrap THEN d ELSE d - Wrap
  BY <1>1, <1>3 DEF Diff
<1>6. d \in Int /\ 0 <= d /\ d < Wrap
  BY <1>0, <1>2, <1>4
<1> QED BY <1>0, <1>1, <1>2, <1>4, <1>5, <1>6

(***************************************************************************)
(* A time that lies L ahead, by less than half a turn, is seen to lie L    *)
(* ahead.                                                                  *)
(***************************************************************************)
LEMMA DiffLead ==
  ASSUME NEW t \in Time, NEW L \in Int, 2 * L < Wrap, -Wrap < 2 * L
  PROVE  Diff(Later(t, L), t) = L /\ Diff(t, Later(t, L)) = -L
<1>0. /\ Wrap \in Nat /\ Wrap > 0 /\ t \in Int /\ 0 <= t /\ t < Wrap
  BY TimeIs
<1>1. PICK e \in Int : e = t + L
  BY <1>0
<1>2. -Wrap <= e /\ e < 2 * Wrap
  BY <1>0, <1>1
<1>3. PICK u : u = Later(t, L)
  OBVIOUS
<1>4. u = e % Wrap
  BY <1>1, <1>3 DEF Later
<1>5. (e < 0 /\ u = e + Wrap) \/ (0 <= e /\ e < Wrap /\ u = e) \/ (Wrap <= e /\ u = e - Wrap)
  BY <1>0, <1>2, <1>4, ModNear
<1>6. u \in Time
  BY <1>0, <1>3, LaterType
<1>7. u \in Int /\ 0 <= u /\ u < Wrap
  BY <1>6, TimeIs
<1>8. Diff(u, t) = L
  <2>1. PICK d \in Int : /\ d = Diff(u, t) /\ 2 * d < Wrap /\ -Wrap <= 2 * d
                         /\ d = u - t \/ d = u - t + Wrap \/ d = u - t - Wrap
    BY <1>6, DiffIs
  <2> QED BY <1>0, <1>1, <1>5, <1>7, <2>1
<1>9. Diff(t, u) = -L
  <2>1. PICK d \in Int : /\ d = Diff(t, u) /\ 2 * d < Wrap /\ -Wrap <= 2 * d
                         /\ d = t - u \/ d = t - u + Wrap \/ d = t - u - Wrap
    BY <1>6, DiffIs
  <2> QED BY <1>0, <1>1, <1>5, <1>7, <2>1
<1> QED BY <1>3, <1>8, <1>9

(***************************************************************************)
(* Adding twice.                                                           *)
(***************************************************************************)
LEMMA LaterLater ==
  ASSUME NEW t \in Time, NEW d \in Int, NEW e \in Int
  PROVE  Later(Later(t, d), e) = Later(t, d + e)
<1>1. t \in Int /\ Wrap \in Nat /\ Wrap > 0
  BY TimeIs
<1>2. PICK x \in Int : x = t + d
  BY <1>1
<1>3. ((x % Wrap) + e) % Wrap = (x + e) % Wrap
  BY <1>1
<1> QED BY <1>1, <1>2, <1>3 DEF Later

-----------------------------------------------------------------------------
(* The operations of ikcp, field by field                                  *)

(***************************************************************************)
(* What the operators on kcp that are no flush leave alone.                *)
(***************************************************************************)
SameTimes(k, l) ==
  /\ l.updated = k.updated /\ l.current = k.current /\ l.ts_flush = k.ts_flush

(***************************************************************************)
(* The probe is left alone.                                                *)
(***************************************************************************)
SameProbe(k, l) == l.probe_wait = k.probe_wait /\ l.ts_probe = k.ts_probe

(***************************************************************************)
(* ikcp_update_ack changes the round trip estimate and nothing else, and   *)
(* keeps the timeout within its limits.                                    *)
(***************************************************************************)
LEMMA UpdateAckView ==
  ASSUME NEW k \in KcpRec(Segment), NEW rtt \in Nat
  PROVE  /\ UpdateAck(k, rtt) \in KcpRec(Segment)
         /\ SameTimes(k, UpdateAck(k, rtt)) /\ SameProbe(k, UpdateAck(k, rtt))
         /\ UpdateAck(k, rtt).snd_buf = k.snd_buf /\ UpdateAck(k, rtt).nsnd_que = k.nsnd_que
         /\ UpdateAck(k, rtt).rmt_wnd = k.rmt_wnd
<1>1. k.rx_srtt \in Nat /\ k.rx_rttval \in Nat
  BY DEF KcpRec
<1> DEFINE delta == IF rtt < k.rx_srtt THEN k.rx_srtt - rtt ELSE rtt - k.rx_srtt
           first == k.rx_srtt = 0
           rttval == IF first THEN rtt \div 2 ELSE (3 * k.rx_rttval + delta) \div 4
           srtt == IF first THEN rtt ELSE Max({1, (7 * k.rx_srtt + rtt) \div 8})
           rto == Bounded(RtoMin, srtt + Max({1, 4 * rttval}), RtoMax)
<1>2. delta \in Nat
  BY <1>1
<1>3. rttval \in Nat
  <2>1. 3 * k.rx_rttval + delta \in Nat
    BY <1>1, <1>2
  <2> HIDE DEF delta
  <2> QED BY <2>1
<1>4. srtt \in Nat
  <2>1. (7 * k.rx_srtt + rtt) \div 8 \in Nat
    BY <1>1
  <2>2. Max({1, (7 * k.rx_srtt + rtt) \div 8}) \in Nat
    <3>1. PICK x \in Nat : x = (7 * k.rx_srtt + rtt) \div 8
      BY <2>1
    <3>2. Max({1, x}) \in Nat
      BY MaxNat, Zenon
    <3> QED BY <3>1, <3>2
  <2> QED BY <2>2
<1> HIDE DEF rttval, srtt
<1>5. rto \in RtoMin..RtoMax
  <2>1. 4 * rttval \in Nat
    BY <1>3
  <2>2. Max({1, 4 * rttval}) \in Nat
    <3>1. PICK x \in Nat : x = 4 * rttval
      BY <2>1
    <3>2. Max({1, x}) \in Nat
      BY MaxNat, Zenon
    <3> QED BY <3>1, <3>2
  <2>3. PICK x \in Nat : x = srtt + Max({1, 4 * rttval})
    BY <1>4, <2>2
  <2>4. Bounded(RtoMin, x, RtoMax) \in RtoMin..RtoMax
    BY RtoAssumption DEF Bounded
  <2> QED BY <2>3, <2>4
<1>6. UpdateAck(k, rtt) = [k EXCEPT !.rx_srtt = srtt, !.rx_rttval = rttval, !.rx_rto = rto]
  BY DEF UpdateAck, rttval, srtt
<1> HIDE DEF rto
<1> QED BY <1>3, <1>4, <1>5, <1>6 DEF KcpRec, SameTimes, SameProbe

(***************************************************************************)
(* The same for the sample ikcp_input takes.                               *)
(***************************************************************************)
LEMMA SampleView ==
  ASSUME NEW k \in KcpRec(Segment), NEW ts \in Time
  PROVE  /\ Sample(k, ts) \in KcpRec(Segment)
         /\ SameTimes(k, Sample(k, ts)) /\ SameProbe(k, Sample(k, ts))
         /\ Sample(k, ts).snd_buf = k.snd_buf /\ Sample(k, ts).nsnd_que = k.nsnd_que
         /\ Sample(k, ts).rmt_wnd = k.rmt_wnd
<1>1. PICK rtt : rtt = Diff(k.current, ts)
  OBVIOUS
<1>2. k.current \in Time
  BY DEF KcpRec
<1>3. rtt \in Int
  BY <1>1, <1>2, DiffIs
<1>4. Sample(k, ts) = IF rtt >= 0 THEN UpdateAck(k, rtt) ELSE k
  BY <1>1 DEF Sample
<1>5. CASE rtt >= 0
  BY <1>3, <1>4, <1>5, UpdateAckView
<1>6. CASE ~(rtt >= 0)
  BY <1>4, <1>6 DEF SameTimes, SameProbe
<1> QED BY <1>5, <1>6

(***************************************************************************)
(* The probe of ikcp_flush changes no other part of the control block.     *)
(***************************************************************************)
LEMMA ProbeView ==
  ASSUME NEW k \in KcpRec(Segment)
  PROVE  /\ Probe(k) \in KcpRec(Segment)
         /\ SameTimes(k, Probe(k)) /\ Probe(k).rx_rto = k.rx_rto
         /\ Probe(k).snd_buf = k.snd_buf /\ Probe(k).nsnd_que = k.nsnd_que
         /\ Probe(k).rmt_wnd = k.rmt_wnd
<1>1. /\ k.probe_wait \in 0..ProbeLimit /\ k.probe_wait \in Nat
      /\ k.current \in Time /\ k.rmt_wnd \in {0, SndWnd}
  BY ProbeAssumption DEF KcpRec
<1> DEFINE m == Max({k.probe_wait, ProbeInit})
           grown == m + m \div 2
           w == IF k.probe_wait = 0 THEN ProbeInit
                ELSE IF grown > ProbeLimit THEN ProbeLimit ELSE grown
<1>2. m \in Nat
  <2>1. PICK x \in Nat, y \in Nat : x = k.probe_wait /\ y = ProbeInit
    BY <1>1, ProbeAssumption
  <2>2. Max({x, y}) \in Nat
    BY MaxNat, Zenon
  <2> QED BY <2>1, <2>2
<1> HIDE DEF m
<1>3. grown \in Nat
  BY <1>2
<1> HIDE DEF grown
<1>4. w \in 0..ProbeLimit /\ w \in Int
  BY <1>3, ProbeAssumption
<1> HIDE DEF w
<1>5. Later(k.current, w) \in Time /\ 0 \in Time /\ 0 \in 0..ProbeLimit
  <2>1. k.current \in Int
    BY <1>1, TimeIs
  <2>2. Later(k.current, w) \in Time
    BY <1>4, <2>1, LaterType
  <2> QED BY <2>2, TimeIs, ProbeAssumption DEF Time
<1>6. \/ Probe(k) = [k EXCEPT !.ts_probe = 0, !.probe_wait = 0]
      \/ Probe(k) = [k EXCEPT !.probe_wait = w, !.ts_probe = Later(k.current, w)]
      \/ Probe(k) = k
  BY DEF Probe, w, grown, m
<1>7. CASE Probe(k) = [k EXCEPT !.ts_probe = 0, !.probe_wait = 0]
  BY <1>5, <1>7 DEF KcpRec, SameTimes
<1>8. CASE Probe(k) = [k EXCEPT !.probe_wait = w, !.ts_probe = Later(k.current, w)]
  <2>1. PICK t \in Time : t = Later(k.current, w)
    BY <1>5
  <2> QED BY <1>4, <1>8, <2>1 DEF KcpRec, SameTimes
<1>9. CASE Probe(k) = k
  BY <1>9 DEF SameTimes
<1> QED BY <1>6, <1>7, <1>8, <1>9

(***************************************************************************)
(* r is seg sent at time t with timeout rto.                               *)
(***************************************************************************)
SentAt(r, seg, t, rto) ==
  /\ r.rto = rto /\ r.resendts = Later(t, rto) /\ r.age = 0 /\ r.xmit = seg.xmit + 1

(***************************************************************************)
(* The segment that ikcp_flush sends, but for the overtakings.             *)
(***************************************************************************)
Sending(seg, x, rto, c, t) ==
  [seg EXCEPT !.xmit = x, !.rto = rto, !.copies = c, !.resendts = t, !.age = 0]

(***************************************************************************)
(* The segment that results when one is sent.                              *)
(***************************************************************************)
LEMMA SendingView ==
  ASSUME NEW seg \in RawSegment, NEW x \in Nat \ {0}, NEW rto \in Nat,
         NEW c \in SUBSET Time, NEW t \in Time, NEW f \in 0..FastResend, NEW r,
         \/ r = Sending(seg, x, rto, c, t)
         \/ r = [Sending(seg, x, rto, c, t) EXCEPT !.fastack = f]
  PROVE  r \in Segment /\ r.rto = rto /\ r.resendts = t /\ r.age = 0 /\ r.xmit = x
<1>1. 0 \in Nat
  OBVIOUS
<1>2. PICK q : q = Sending(seg, x, rto, c, t)
  OBVIOUS
<1>3. /\ q \in Segment /\ q.rto = rto /\ q.resendts = t /\ q.age = 0 /\ q.xmit = x
  BY <1>1, <1>2 DEF Segment, RawSegment, Sending
<1>4. CASE r = q
  BY <1>3, <1>4
<1>5. CASE r = [q EXCEPT !.fastack = f]
  BY <1>3, <1>5 DEF Segment
<1> QED BY <1>2, <1>4, <1>5

(***************************************************************************)
(* r is what is left of seg when the flush of k sends it, and why it does. *)
(***************************************************************************)
Resent(k, seg, r) ==
  \E rto \in Nat :
    /\ SentAt(r, seg, k.current, rto)
    /\ (RtoMin <= rto /\ rto <= RtoMax) \/ (seg.rto <= rto /\ rto <= seg.rto + RtoMax)
    /\ seg.xmit = 0 => RtoMin <= rto /\ rto <= RtoMax
    /\ seg.xmit = 0 \/ TimedOut(k, seg) \/ seg.fastack >= FastResend

(***************************************************************************)
(* The flush of k does not send seg.                                       *)
(***************************************************************************)
Unsent(k, seg, r) == r = seg /\ seg.xmit > 0 /\ ~TimedOut(k, seg)

(***************************************************************************)
(* The loop of ikcp_flush sends a segment, because it is new, timed out or *)
(* was overtaken, or leaves it alone because none of the three holds.      *)
(***************************************************************************)
LEMMA TransmitView ==
  ASSUME NEW k, k.current \in Time, k.rx_rto \in RtoMin..RtoMax, NEW seg \in RawSegment,
         NEW r, r = Transmit(k, seg)
  PROVE  r \in Segment /\ (Resent(k, seg, r) \/ Unsent(k, seg, r))
<1>0. /\ seg.xmit \in Nat /\ seg.rto \in Nat
      /\ seg.copies \in SUBSET Time /\ seg.fastack \in 0..FastResend
      /\ seg.resendts \in Time /\ seg.age \in Nat
  BY DEF RawSegment
<1>1. k.current \in Int /\ k.rx_rto \in Nat /\ RtoMin \in Nat /\ RtoMax \in Nat
      /\ RtoMin <= k.rx_rto /\ k.rx_rto <= RtoMax
  BY TimeIs, RtoAssumption
<1> DEFINE x == seg.xmit + 1
           c == seg.copies \cup {k.current}
           sent(rto) == Sending(seg, x, rto, c, Later(k.current, rto))
<1>2. ASSUME NEW rto \in Nat, r = sent(rto) \/ r = [sent(rto) EXCEPT !.fastack = 0]
      PROVE  r \in Segment /\ SentAt(r, seg, k.current, rto)
  <2>1. PICK t \in Time : t = Later(k.current, rto)
    BY <1>1, LaterType
  <2>2. x \in Nat \ {0} /\ 0 \in 0..FastResend
    BY <1>0, BoundAssumption
  <2>3. c \in SUBSET Time
    BY <1>0
  <2>4. PICK y \in Nat \ {0}, d \in SUBSET Time, f \in 0..FastResend : y = x /\ d = c /\ f = 0
    BY <2>2, <2>3
  <2>5. \/ r = Sending(seg, y, rto, d, t)
        \/ r = [Sending(seg, y, rto, d, t) EXCEPT !.fastack = f]
    BY <1>2, <2>1, <2>4
  <2>6. r \in Segment /\ r.rto = rto /\ r.resendts = t /\ r.age = 0 /\ r.xmit = y
    BY <2>5, SendingView
  <2> QED BY <2>1, <2>4, <2>6 DEF SentAt
<1>3. \/ r = sent(k.rx_rto) /\ seg.xmit = 0
      \/ r = sent(seg.rto + k.rx_rto \div 2) /\ TimedOut(k, seg)
      \/ r = [sent(seg.rto) EXCEPT !.fastack = 0] /\ seg.fastack >= FastResend /\ seg.xmit > 0
      \/ r = seg /\ seg.xmit # 0 /\ ~TimedOut(k, seg)
  BY DEF Transmit, Sending
<1> HIDE DEF sent
<1>4. CASE r = sent(k.rx_rto) /\ seg.xmit = 0
  <2>1. PICK q \in Nat : q = k.rx_rto
    BY <1>1
  <2>2. r \in Segment /\ SentAt(r, seg, k.current, q)
    BY <1>2, <1>4, <2>1
  <2> QED BY <1>1, <1>4, <2>1, <2>2 DEF Resent
<1>5. CASE r = sent(seg.rto + k.rx_rto \div 2) /\ TimedOut(k, seg)
  <2>1. PICK q \in Nat : q = seg.rto + k.rx_rto \div 2 /\ seg.rto <= q /\ q <= seg.rto + RtoMax
    <3>1. k.rx_rto \div 2 \in Nat /\ k.rx_rto \div 2 <= RtoMax
      BY <1>1
    <3> QED BY <1>0, <1>1, <3>1
  <2>2. r \in Segment /\ SentAt(r, seg, k.current, q)
    BY <1>2, <1>5, <2>1
  <2>3. seg.xmit > 0 /\ seg.xmit # 0
    BY <1>0, <1>5 DEF TimedOut
  <2> QED BY <1>0, <1>5, <2>1, <2>2, <2>3 DEF Resent
<1>6. CASE r = [sent(seg.rto) EXCEPT !.fastack = 0] /\ seg.fastack >= FastResend /\ seg.xmit > 0
  <2>1. seg.rto <= seg.rto + RtoMax /\ seg.rto <= seg.rto /\ ~(seg.xmit = 0)
    BY <1>0, <1>1, <1>6
  <2>2. r \in Segment /\ SentAt(r, seg, k.current, seg.rto)
    BY <1>0, <1>2, <1>6
  <2> QED BY <1>0, <1>6, <2>1, <2>2 DEF Resent
<1>7. CASE r = seg /\ seg.xmit # 0 /\ ~TimedOut(k, seg)
  <2>1. seg.xmit \in Nat \ {0} /\ seg.xmit > 0
    BY <1>0, <1>7
  <2>2. seg \in Segment
    BY <2>1 DEF RawSegment, Segment
  <2> QED BY <1>7, <2>1, <2>2 DEF Unsent
<1> QED BY <1>3, <1>4, <1>5, <1>6, <1>7

(***************************************************************************)
(* r is a segment of k sent for the first time.                            *)
(***************************************************************************)
Fresh(k, r) ==
  /\ RtoMin <= r.rto /\ r.rto <= RtoMax /\ r.xmit = 1 /\ r.age = 0
  /\ r.resendts = Later(k.current, r.rto)

(***************************************************************************)
(* A segment moved to snd_buf has not been sent.                           *)
(***************************************************************************)
LEMMA NewSegmentView ==
  ASSUME NEW k, k.current \in Time, k.rx_rto \in RtoMin..RtoMax
  PROVE  /\ NewSegment(k) \in RawSegment
         /\ NewSegment(k).xmit = 0 /\ NewSegment(k).rto \in Nat
<1>1. k.rx_rto \in Nat /\ 0 \in 0..FastResend
  BY RtoAssumption, BoundAssumption
<1> QED BY <1>1 DEF NewSegment, RawSegment

(***************************************************************************)
(* The flush that moves a segment to snd_buf sends it at once.             *)
(***************************************************************************)
LEMMA FreshView ==
  ASSUME NEW k, k.current \in Time, k.rx_rto \in RtoMin..RtoMax,
         NEW r, r = Transmit(k, NewSegment(k))
  PROVE  r \in Segment /\ Fresh(k, r)
<1>1. PICK s \in RawSegment : s = NewSegment(k) /\ s.xmit = 0
  BY NewSegmentView
<1>2. r \in Segment /\ (Resent(k, s, r) \/ Unsent(k, s, r))
  BY <1>1, TransmitView
<1>3. ~Unsent(k, s, r)
  BY <1>1 DEF Unsent
<1>4. PICK rto \in Nat : SentAt(r, s, k.current, rto) /\ RtoMin <= rto /\ rto <= RtoMax
  BY <1>1, <1>2, <1>3 DEF Resent
<1> QED BY <1>1, <1>2, <1>4 DEF SentAt, Fresh

(***************************************************************************)
(* Moving segments to snd_buf appends m new ones.                          *)
(***************************************************************************)
LEMMA FillView ==
  ASSUME NEW k, k.nsnd_que \in Nat, k.snd_buf \in Seq(Segment), Room(k),
         k.current \in Time, k.rx_rto \in RtoMin..RtoMax
  PROVE  \E m \in Nat, b \in Seq(RawSegment), q \in Nat :
           /\ FillBuffer(k) = [k EXCEPT !.nsnd_que = q, !.snd_buf = b]
           /\ q = k.nsnd_que - m
           /\ Len(b) = Len(k.snd_buf) + m
           /\ \A j \in 1..Len(k.snd_buf) : b[j] = k.snd_buf[j]
           /\ \A j \in 1..Len(b) : j > Len(k.snd_buf) => b[j] = NewSegment(k)
<1> DEFINE room == IF k.rmt_wnd = 0 THEN 0 ELSE SndWnd - Len(k.snd_buf)
           m == IF k.nsnd_que < room THEN k.nsnd_que ELSE room
<1>0. PICK n \in Nat : n = Len(k.snd_buf)
  OBVIOUS
<1>1. room \in Nat
  BY <1>0, BoundAssumption DEF Room
<1>2. m \in Nat /\ m <= k.nsnd_que
  BY <1>1
<1>3. FillBuffer(k) = [k EXCEPT !.nsnd_que = k.nsnd_que - m,
                                !.snd_buf  = k.snd_buf \o [j \in 1..m |-> NewSegment(k)]]
  BY DEF FillBuffer
<1> HIDE DEF m
<1>4. PICK q \in Nat : q = k.nsnd_que - m
  BY <1>2
<1>5. PICK s \in RawSegment : s = NewSegment(k)
  BY NewSegmentView
<1>6. PICK a \in Seq(RawSegment) : a = k.snd_buf
  <2>1. \A x \in Segment : x \in RawSegment
    BY DEF Segment, RawSegment
  <2> QED BY <2>1
<1>7. PICK c : c = [j \in 1..m |-> s]
  OBVIOUS
<1>8. c \in Seq(RawSegment) /\ Len(c) = m /\ \A j \in 1..m : c[j] = s
  BY <1>2, <1>7
<1>9. PICK b : b = a \o c
  OBVIOUS
<1>10. /\ b \in Seq(RawSegment) /\ Len(b) = Len(a) + m
       /\ \A j \in 1..Len(b) : b[j] = IF j <= Len(a) THEN a[j] ELSE c[j - Len(a)]
  BY <1>8, <1>9, ConcatProperties, ZenonT(30)
<1>11. \A j \in 1..Len(a) : b[j] = a[j]
  BY <1>2, <1>10, LenProperties
<1>12. ASSUME NEW j \in 1..Len(b), j > Len(a) PROVE b[j] = s
  <2>1. Len(a) \in Nat
    OBVIOUS
  <2>2. j - Len(a) \in 1..m /\ ~(j <= Len(a))
    BY <1>2, <1>10, <1>12, <2>1
  <2> QED BY <1>8, <1>10, <2>2
<1>13. FillBuffer(k) = [k EXCEPT !.nsnd_que = q, !.snd_buf = b]
  BY <1>3, <1>4, <1>5, <1>6, <1>7, <1>9
<1>14. PICK n1 \in Nat, b1 \in Seq(RawSegment) : n1 = m /\ b1 = b
  BY <1>2, <1>10
<1>15. /\ FillBuffer(k) = [k EXCEPT !.nsnd_que = q, !.snd_buf = b1]
       /\ q = k.nsnd_que - n1
       /\ Len(b1) = Len(k.snd_buf) + n1
       /\ \A j \in 1..Len(k.snd_buf) : b1[j] = k.snd_buf[j]
       /\ \A j \in 1..Len(b1) : j > Len(k.snd_buf) => b1[j] = NewSegment(k)
  BY <1>4, <1>5, <1>6, <1>10, <1>11, <1>12, <1>13, <1>14
<1> QED BY <1>15, ZenonT(30)

(***************************************************************************)
(* ikcp_flush of k leaves f, but for the probe.                            *)
(***************************************************************************)
Flushed(k, f) ==
  /\ SameTimes(k, f) /\ f.rmt_wnd = k.rmt_wnd
  /\ Len(f.snd_buf) >= Len(k.snd_buf)
  /\ \A j \in 1..Len(k.snd_buf) :
       \/ Resent(k, k.snd_buf[j], f.snd_buf[j])
       \/ Unsent(k, k.snd_buf[j], f.snd_buf[j])
  /\ \A j \in 1..Len(f.snd_buf) : j > Len(k.snd_buf) => Fresh(k, f.snd_buf[j])

(***************************************************************************)
(* ikcp_flush keeps the types and the room, and does what Flushed says.    *)
(***************************************************************************)
LEMMA FlushView ==
  ASSUME NEW k \in KcpRec(Segment), Room(k), NEW f, f = Flush(k)
  PROVE  f \in KcpRec(Segment) /\ Room(f) /\ Flushed(k, f) /\ SameProbe(Probe(k), f)
<1>1. PICK p : p = Probe(k)
  OBVIOUS
<1>2. /\ p \in KcpRec(Segment) /\ SameTimes(k, p) /\ p.rx_rto = k.rx_rto
      /\ p.snd_buf = k.snd_buf /\ p.nsnd_que = k.nsnd_que /\ p.rmt_wnd = k.rmt_wnd
  BY <1>1, ProbeView
<1>3. /\ p.nsnd_que \in Nat /\ p.snd_buf \in Seq(Segment) /\ Room(p)
      /\ p.current \in Time /\ p.rx_rto \in RtoMin..RtoMax
      /\ p.nsnd_que \in 0..SndWnd
  BY <1>2, BoundAssumption DEF KcpRec, Room
<1>4. PICK m \in Nat, b \in Seq(RawSegment), q \in Nat :
           /\ FillBuffer(p) = [p EXCEPT !.nsnd_que = q, !.snd_buf = b]
           /\ q = p.nsnd_que - m
           /\ Len(b) = Len(p.snd_buf) + m
           /\ \A j \in 1..Len(p.snd_buf) : b[j] = p.snd_buf[j]
           /\ \A j \in 1..Len(b) : j > Len(p.snd_buf) => b[j] = NewSegment(p)
  BY <1>3, FillView
<1>5. k.current \in Time /\ k.rx_rto \in RtoMin..RtoMax /\ NewSegment(p) = NewSegment(k)
  BY <1>2 DEF KcpRec, SameTimes, NewSegment
<1>6. PICK c : c = [j \in DOMAIN b |-> Transmit(k, b[j])]
  OBVIOUS
<1>7. f = [p EXCEPT !.nsnd_que = q, !.snd_buf = c]
  <2>1. PICK g : g = FillBuffer(p)
    OBVIOUS
  <2>2. f = [g EXCEPT !.snd_buf = [j \in DOMAIN g.snd_buf |-> Transmit(k, g.snd_buf[j])]]
    BY <1>1, <2>1 DEF Flush
  <2>3. g = [p EXCEPT !.nsnd_que = q, !.snd_buf = b]
    BY <1>4, <2>1
  <2>4. g.snd_buf = b
    BY <1>2, <2>3 DEF KcpRec
  <2>5. f = [g EXCEPT !.snd_buf = c]
    BY <1>6, <2>2, <2>4
  <2> QED BY <1>2, <2>3, <2>5 DEF KcpRec
<1>8. \A j \in 1..Len(b) : b[j] \in RawSegment /\ c[j] = Transmit(k, b[j])
  BY <1>6
<1>9. ASSUME NEW j \in 1..Len(b) PROVE c[j] \in Segment
  <2>1. PICK s \in RawSegment : s = b[j]
    BY <1>8
  <2> QED BY <1>5, <1>8, <2>1, TransmitView
<1>10. c \in Seq(Segment) /\ Len(c) = Len(b)
  <2>1. DOMAIN b = 1..Len(b) /\ Len(b) \in Nat
    OBVIOUS
  <2>2. PICK n \in Nat : n = Len(b)
    BY <2>1
  <2>3. c = [j \in 1..n |-> c[j]] /\ \A j \in 1..n : c[j] \in Segment
    BY <1>6, <1>9, <2>1, <2>2
  <2> QED BY <2>2, <2>3
<1>11. /\ f.snd_buf = c /\ f.nsnd_que = q /\ f.rmt_wnd = p.rmt_wnd
       /\ SameTimes(p, f) /\ SameProbe(p, f)
  BY <1>2, <1>7 DEF KcpRec, SameTimes, SameProbe
<1>12. q \in 0..SndWnd /\ q + Len(c) = p.nsnd_que + Len(p.snd_buf) /\ Len(c) >= Len(k.snd_buf)
  <2>1. Len(p.snd_buf) \in Nat /\ SndWnd \in Nat
    BY <1>3, BoundAssumption
  <2> QED BY <1>2, <1>3, <1>4, <1>10, <2>1, SMTT(30)
<1>13. f \in KcpRec(Segment)
  BY <1>2, <1>7, <1>10, <1>12 DEF KcpRec
<1>14. Room(f)
  BY <1>3, <1>11, <1>12 DEF Room
<1>15. ASSUME NEW j \in 1..Len(k.snd_buf)
       PROVE  Resent(k, k.snd_buf[j], c[j]) \/ Unsent(k, k.snd_buf[j], c[j])
  <2>1. j \in 1..Len(b)
    BY <1>2, <1>3, <1>4
  <2>2. PICK s \in RawSegment : s = b[j] /\ s = k.snd_buf[j]
    BY <1>2, <1>4, <1>8, <2>1
  <2>3. c[j] = Transmit(k, s)
    BY <1>8, <2>1, <2>2
  <2> QED BY <1>5, <2>2, <2>3, TransmitView
<1>16. ASSUME NEW j \in 1..Len(c), j > Len(k.snd_buf) PROVE Fresh(k, c[j])
  <2>1. j \in 1..Len(b) /\ b[j] = NewSegment(k)
    BY <1>2, <1>4, <1>5, <1>10, <1>16
  <2>2. c[j] = Transmit(k, NewSegment(k))
    BY <1>8, <2>1
  <2> QED BY <1>5, <2>2, FreshView
<1>17. Flushed(k, f)
  <2>1. SameTimes(k, f) /\ f.rmt_wnd = k.rmt_wnd
    BY <1>2, <1>11 DEF SameTimes
  <2> QED BY <1>11, <1>12, <1>15, <1>16, <2>1 DEF Flushed
<1> QED BY <1>1, <1>11, <1>13, <1>14, <1>17

(***************************************************************************)
(* The times of a segment, which an acknowledgement of another leaves      *)
(* alone.                                                                  *)
(***************************************************************************)
SameSegment(s, r) ==
  r.resendts = s.resendts /\ r.rto = s.rto /\ r.xmit = s.xmit /\ r.age = s.age

(***************************************************************************)
(* b is what an acknowledgement leaves of the segments a.                  *)
(***************************************************************************)
Thinned(a, b) ==
  /\ b \in Seq(Segment) /\ Len(b) <= Len(a)
  /\ \A j \in 1..Len(b) : \E l \in 1..Len(a) : SameSegment(a[l], b[j])
  /\ Len(b) = Len(a) => \A j \in 1..Len(b) : SameSegment(a[j], b[j])

(***************************************************************************)
(* ikcp_parse_fastack changes the count of overtakings only.               *)
(***************************************************************************)
LEMMA OvertakenView ==
  ASSUME NEW s \in Segment, NEW f \in 0..FastResend, NEW r, r = [s EXCEPT !.fastack = f]
  PROVE  r \in Segment /\ SameSegment(s, r)
BY DEF Segment, SameSegment

(***************************************************************************)
(* Removing segments in two steps.                                         *)
(***************************************************************************)
LEMMA ThinnedTwice ==
  ASSUME NEW a \in Seq(Segment), NEW b \in Seq(Segment), NEW c,
         Thinned(a, b), Thinned(b, c)
  PROVE  Thinned(a, c)
<1>1. c \in Seq(Segment) /\ Len(c) <= Len(b) /\ Len(b) <= Len(a)
  BY DEF Thinned
<1>2. Len(a) \in Nat /\ Len(b) \in Nat /\ Len(c) \in Nat
  BY <1>1
<1>3. Len(c) <= Len(a) /\ (Len(c) = Len(a) => Len(c) = Len(b) /\ Len(b) = Len(a))
  BY <1>1, <1>2
<1>4. ASSUME NEW x, NEW y, NEW z, SameSegment(x, y), SameSegment(y, z) PROVE SameSegment(x, z)
  BY <1>4 DEF SameSegment
<1>5. \A j \in 1..Len(c) : \E l \in 1..Len(a) : SameSegment(a[l], c[j])
  <2>1. SUFFICES ASSUME NEW j \in 1..Len(c) PROVE \E l \in 1..Len(a) : SameSegment(a[l], c[j])
    OBVIOUS
  <2>2. PICK m \in 1..Len(b) : SameSegment(b[m], c[j])
    BY DEF Thinned
  <2>3. PICK l \in 1..Len(a) : SameSegment(a[l], b[m])
    BY DEF Thinned
  <2> QED BY <1>4, <2>2, <2>3
<1>6. Len(c) = Len(a) => \A j \in 1..Len(c) : SameSegment(a[j], c[j])
  <2>1. SUFFICES ASSUME Len(c) = Len(a), NEW j \in 1..Len(c) PROVE SameSegment(a[j], c[j])
    OBVIOUS
  <2>2. Len(c) = Len(b) /\ Len(b) = Len(a) /\ j \in 1..Len(b)
    BY <1>3, <2>1
  <2>3. SameSegment(a[j], b[j]) /\ SameSegment(b[j], c[j])
    BY <2>2 DEF Thinned
  <2> QED BY <1>4, <2>3
<1> QED BY <1>1, <1>3, <1>5, <1>6 DEF Thinned

(***************************************************************************)
(* ikcp_parse_una and ikcp_parse_ack remove segments and leave the others  *)
(* alone.                                                                  *)
(***************************************************************************)
LEMMA AcknowledgeView ==
  ASSUME NEW k \in KcpRec(Segment),
         NEW n \in 0..Len(k.snd_buf), NEW i \in 0..Len(k.snd_buf)
  PROVE  \E b \in Seq(Segment) :
           /\ Thinned(k.snd_buf, b)
           /\ Acknowledge(k, n, i) = [k EXCEPT !.snd_buf = b]
<1>1. PICK a \in Seq(Segment) : a = k.snd_buf
  BY DEF KcpRec
<1>2. PICK z \in Nat : z = Len(a)
  OBVIOUS
<1>3. n \in Nat /\ i \in Nat /\ n <= z /\ i <= z
  BY <1>1, <1>2
<1> DEFINE kept == SubSeq(a, n + 1, z)
           acked == SubSeq(a, i + 1, z)
           head == SubSeq(kept, 1, i - n - 1)
<1>4. Acknowledge(k, n, i) = [k EXCEPT !.snd_buf = IF i <= n THEN kept ELSE head \o acked]
  BY <1>1, <1>2 DEF Acknowledge
<1>5. /\ kept \in Seq(Segment) /\ Len(kept) = z - n
      /\ \A j \in 1..(z - n) : kept[j] = a[n + j]
  BY <1>2, <1>3, SubSeqProperties
<1>6. /\ acked \in Seq(Segment) /\ Len(acked) = z - i
      /\ \A j \in 1..(z - i) : acked[j] = a[i + j]
  BY <1>2, <1>3, SubSeqProperties
<1> HIDE DEF kept, acked, head
<1>7. CASE i <= n
  <2>1. \A j \in 1..Len(kept) : n + j \in 1..z /\ kept[j] = a[n + j]
    BY <1>2, <1>3, <1>5
  <2>2. \A j \in 1..Len(kept) : \E l \in 1..Len(a) : SameSegment(a[l], kept[j])
    BY <1>2, <2>1 DEF SameSegment
  <2>3. ASSUME Len(kept) = Len(a), NEW j \in 1..Len(kept) PROVE SameSegment(a[j], kept[j])
    <3>1. n + j = j
      BY <1>2, <1>3, <1>5, <2>3
    <3> QED BY <2>1, <3>1 DEF SameSegment
  <2>4. Thinned(a, kept)
    BY <1>2, <1>3, <1>5, <2>2, <2>3 DEF Thinned
  <2> QED BY <1>1, <1>4, <1>5, <1>7, <2>4
<1>8. CASE ~(i <= n)
  <2>1. PICK h \in Nat : h = i - n - 1
    BY <1>3, <1>8
  <2>2. h \in 0..Len(kept) /\ head = SubSeq(kept, 1, h)
    BY <1>2, <1>3, <1>5, <1>8, <2>1 DEF head
  <2>3. head \in Seq(Segment) /\ Len(head) = h /\ \A j \in 1..h : head[j] = kept[j]
    <3>1. 1 \in 1..(Len(kept) + 1) /\ h - 1 + 1 = h
      BY <1>5, <2>1
    <3>2. /\ head \in Seq(Segment) /\ Len(head) = h
          /\ \A j \in 1..h : head[j] = kept[1 + j - 1]
      BY <1>5, <2>1, <2>2, SubSeqProperties
    <3>3. \A j \in 1..h : 1 + j - 1 = j
      BY <2>1
    <3> QED BY <3>2, <3>3
  <2>4. PICK b : b = head \o acked
    OBVIOUS
  <2>5. /\ b \in Seq(Segment) /\ Len(b) = h + (z - i)
        /\ \A j \in 1..Len(b) : b[j] = IF j <= h THEN head[j] ELSE acked[j - h]
    <3>1. /\ b \in Seq(Segment) /\ Len(b) = Len(head) + Len(acked)
          /\ \A j \in 1..(Len(head) + Len(acked)) :
               b[j] = IF j <= Len(head) THEN head[j] ELSE acked[j - Len(head)]
      BY <1>6, <2>3, <2>4, ConcatProperties, Zenon
    <3> QED BY <1>6, <2>3, <3>1
  <2>6. ASSUME NEW j \in 1..Len(b) PROVE \E l \in 1..z : SameSegment(a[l], b[j])
    <3>1. CASE j <= h
      <4>1. j \in 1..h /\ j \in 1..(z - n) /\ n + j \in 1..z
        BY <1>2, <1>3, <1>8, <2>1, <3>1
      <4>2. b[j] = a[n + j]
        BY <1>5, <2>3, <2>5, <3>1, <4>1
      <4> QED BY <4>1, <4>2 DEF SameSegment
    <3>2. CASE ~(j <= h)
      <4>1. j - h \in 1..(z - i) /\ i + (j - h) \in 1..z
        BY <1>2, <1>3, <2>1, <2>5, <3>2
      <4>2. b[j] = a[i + (j - h)]
        BY <1>6, <2>5, <3>2, <4>1
      <4> QED BY <4>1, <4>2 DEF SameSegment
    <3> QED BY <3>1, <3>2
  <2>7. Len(b) <= z /\ Len(b) # z
    BY <1>2, <1>3, <1>8, <2>1, <2>5
  <2>8. Thinned(a, b)
    BY <1>2, <2>5, <2>6, <2>7 DEF Thinned
  <2> QED BY <1>1, <1>4, <1>8, <2>4, <2>5, <2>8
<1> QED BY <1>7, <1>8

(***************************************************************************)
(* ikcp_parse_fastack leaves the times of the segments alone.              *)
(***************************************************************************)
LEMMA OvertakeView ==
  ASSUME NEW k \in KcpRec(Segment), NEW m
  PROVE  \E b \in Seq(Segment) :
           /\ Thinned(k.snd_buf, b)
           /\ Overtake(k, m) = [k EXCEPT !.snd_buf = b]
<1>1. PICK a \in Seq(Segment) : a = k.snd_buf
  BY DEF KcpRec
<1> DEFINE over(s) == [s EXCEPT !.fastack = IF s.fastack < FastResend THEN s.fastack + 1
                                            ELSE s.fastack]
           b == [j \in 1..Len(a) |-> IF j <= m THEN over(a[j]) ELSE a[j]]
<1>2. DOMAIN a = 1..Len(a) /\ Len(a) \in Nat
  OBVIOUS
<1>3. Overtake(k, m) = [k EXCEPT !.snd_buf = b]
  BY <1>1, <1>2 DEF Overtake
<1>4. ASSUME NEW s \in Segment PROVE over(s) \in Segment /\ SameSegment(s, over(s))
  <2>1. s.fastack \in 0..FastResend
    BY DEF Segment
  <2>2. PICK f \in 0..FastResend : f = IF s.fastack < FastResend THEN s.fastack + 1 ELSE s.fastack
    BY <2>1, BoundAssumption
  <2>3. over(s) = [s EXCEPT !.fastack = f]
    BY <2>2
  <2> QED BY <2>3, OvertakenView
<1>5. ASSUME NEW j \in 1..Len(a) PROVE b[j] \in Segment /\ SameSegment(a[j], b[j])
  <2>1. a[j] \in Segment
    OBVIOUS
  <2>2. SameSegment(a[j], a[j])
    BY DEF SameSegment
  <2>3. b[j] = over(a[j]) \/ b[j] = a[j]
    OBVIOUS
  <2> HIDE DEF b, over
  <2> QED BY <1>4, <2>1, <2>2, <2>3
<1>6. b \in Seq(Segment) /\ Len(b) = Len(a)
  BY <1>2, <1>5
<1> HIDE DEF b, over
<1>7. Thinned(a, b)
  BY <1>2, <1>5, <1>6 DEF Thinned
<1> QED BY <1>1, <1>3, <1>6, <1>7

-----------------------------------------------------------------------------
(* Times and the next flush                                                *)

(***************************************************************************)
(* A time is as far from another as Diff says.                             *)
(***************************************************************************)
LEMMA LaterDiff ==
  ASSUME NEW a \in Time, NEW b \in Time
  PROVE  a = Later(b, Diff(a, b))
<1>0. /\ Wrap \in Nat /\ Wrap > 0 /\ a \in Int /\ b \in Int
      /\ 0 <= a /\ a < Wrap /\ 0 <= b /\ b < Wrap
  BY TimeIs
<1>1. PICK d \in Int : /\ d = Diff(a, b)
                       /\ d = a - b \/ d = a - b + Wrap \/ d = a - b - Wrap
  BY DiffIs
<1>2. PICK e \in Int : e = b + d
  BY <1>0
<1>3. e = a \/ e = a + Wrap \/ e = a - Wrap
  BY <1>0, <1>1, <1>2
<1>4. -Wrap <= e /\ e < 2 * Wrap
  BY <1>0, <1>3
<1>5. e % Wrap = a
  BY <1>0, <1>3, <1>4, ModNear
<1> QED BY <1>1, <1>2, <1>5 DEF Later

(***************************************************************************)
(* When the clock moves by e, a time comes nearer by e, as long as it      *)
(* stays within half a turn.                                               *)
(***************************************************************************)
LEMMA DiffMoves ==
  ASSUME NEW t \in Time, NEW w \in Time, NEW e \in Int,
         2 * (Diff(t, w) - e) < Wrap, -Wrap < 2 * (Diff(t, w) - e)
  PROVE  Diff(t, Later(w, e)) = Diff(t, w) - e
<1>1. PICK l \in Int : l = Diff(t, w)
  BY DiffIs
<1>2. PICK v \in Time : v = Later(w, e)
  BY TimeIs, LaterType
<1>3. t = Later(w, l)
  BY <1>1, LaterDiff
<1>4. PICK m \in Int : m = l - e
  BY <1>1
<1>5. t = Later(v, m)
  <2>1. Later(v, m) = Later(w, e + m)
    BY <1>2, LaterLater
  <2>2. e + m = l
    BY <1>4
  <2> QED BY <1>3, <2>1, <2>2
<1>6. Diff(Later(v, m), v) = m
  <2>1. 2 * m < Wrap /\ -Wrap < 2 * m
    BY <1>1, <1>4
  <2> QED BY <2>1, DiffLead
<1> QED BY <1>1, <1>2, <1>4, <1>5, <1>6

(***************************************************************************)
(* Diff changes its sign when its arguments change places, except at half  *)
(* a turn.                                                                 *)
(***************************************************************************)
LEMMA DiffTurns ==
  ASSUME NEW a \in Time, NEW b \in Time
  PROVE  /\ -Wrap < 2 * Diff(a, b) => Diff(b, a) = -Diff(a, b)
         /\ -Wrap = 2 * Diff(a, b) => Diff(b, a) = Diff(a, b)
<1>0. /\ Wrap \in Nat /\ Wrap > 0 /\ a \in Int /\ b \in Int
      /\ 0 <= a /\ a < Wrap /\ 0 <= b /\ b < Wrap
  BY TimeIs
<1>1. PICK d \in Int : /\ d = Diff(a, b) /\ 2 * d < Wrap /\ -Wrap <= 2 * d
                       /\ d = a - b \/ d = a - b + Wrap \/ d = a - b - Wrap
  BY DiffIs
<1>2. PICK e \in Int : /\ e = Diff(b, a) /\ 2 * e < Wrap /\ -Wrap <= 2 * e
                       /\ e = b - a \/ e = b - a + Wrap \/ e = b - a - Wrap
  BY DiffIs
<1>3. (-Wrap < 2 * d => e = -d) /\ (-Wrap = 2 * d => e = d)
  BY <1>0, <1>1, <1>2
<1> QED BY <1>1, <1>2, <1>3

(***************************************************************************)
(* No time passes between a time and itself.                               *)
(***************************************************************************)
LEMMA DiffSelf ==
  ASSUME NEW t \in Time
  PROVE  Diff(t, t) = 0
<1>1. /\ Wrap \in Nat /\ Wrap > 0 /\ t \in Int
  BY TimeIs
<1>2. t - t = 0 /\ 0 % Wrap = 0
  BY <1>1
<1> QED BY <1>1, <1>2 DEF Diff

(***************************************************************************)
(* The assumptions on the periods as facts about integers.                 *)
(***************************************************************************)
LEMMA PeriodIs ==
  /\ Interval \in Nat /\ Retry \in Nat /\ SlapMax \in Nat /\ Wrap \in Nat /\ MaxLag \in Nat
  /\ 1 <= Interval /\ Interval <= Retry /\ Interval < SlapMax /\ 2 * SlapMax < Wrap
  BY PeriodAssumption, BoundAssumption

(***************************************************************************)
(* A flush is due unless it is planned between 1 and SlapMax ahead         *)
(* (ikcp_update, ikcp_check).                                              *)
(***************************************************************************)
LEMMA FlushDueView ==
  ASSUME NEW k, k.ts_flush \in Time, k.updated \in BOOLEAN, NEW w \in Time
  PROVE  /\ ~FlushDue(k, w) => /\ k.updated /\ FlushTime(k, w) = k.ts_flush
                               /\ 1 <= Diff(k.ts_flush, w) /\ Diff(k.ts_flush, w) <= SlapMax
         /\ FlushDue(k, w) /\ k.updated =>
              Diff(k.ts_flush, w) <= 0 \/ SlapMax < Diff(k.ts_flush, w)
         /\ FlushDue(k, w) =>
              \/ FlushTime(k, w) = w
              \/ /\ FlushTime(k, w) = k.ts_flush
                 /\ Diff(k.ts_flush, w) <= 0 /\ -SlapMax < Diff(k.ts_flush, w)
<1>1. PICK d \in Int : d = Diff(w, k.ts_flush) /\ -Wrap <= 2 * d /\ 2 * d < Wrap
  BY DiffIs
<1>2. PICK l \in Int : l = Diff(k.ts_flush, w)
  BY DiffIs
<1>3. (-Wrap < 2 * d => l = -d) /\ (-Wrap = 2 * d => l = d)
  BY <1>1, <1>2, DiffTurns
<1>4. Stepped(k, w) <=> d >= SlapMax \/ d < -SlapMax
  BY <1>1 DEF Stepped
<1>5. CASE ~k.updated \/ Stepped(k, w)
  <2>1. FlushTime(k, w) = w
    BY <1>5 DEF FlushTime
  <2>2. FlushDue(k, w)
    BY <2>1, DiffSelf DEF FlushDue
  <2>3. k.updated => l <= 0 \/ SlapMax < l
    BY <1>1, <1>3, <1>4, <1>5, PeriodIs
  <2> QED BY <1>2, <2>1, <2>2, <2>3
<1>6. CASE k.updated /\ ~Stepped(k, w)
  <2>1. FlushTime(k, w) = k.ts_flush
    BY <1>6 DEF FlushTime
  <2>2. FlushDue(k, w) <=> d >= 0
    BY <1>1, <2>1 DEF FlushDue
  <2>3. d < SlapMax /\ -SlapMax <= d /\ l = -d
    BY <1>1, <1>3, <1>4, <1>6, PeriodIs
  <2>4. d >= 0 => l <= 0 /\ -SlapMax < l
    BY <2>3, PeriodIs
  <2>5. ~(d >= 0) => 1 <= l /\ l <= SlapMax
    BY <2>3, PeriodIs
  <2> QED BY <1>2, <1>6, <2>1, <2>2, <2>4, <2>5
<1> QED BY <1>5, <1>6

(***************************************************************************)
(* The plan for the next flush that ikcp_update makes.                     *)
(***************************************************************************)
NextFlush(k, w) ==
  LET next == Later(FlushTime(k, w), Interval)
  IN  IF Diff(w, next) >= 0 THEN Later(w, Interval) ELSE next

(***************************************************************************)
(* The next flush is planned between 1 and Interval ahead, whatever the    *)
(* clock did.                                                              *)
(***************************************************************************)
LEMMA NextFlushView ==
  ASSUME NEW k, k.ts_flush \in Time, k.updated \in BOOLEAN, NEW w \in Time, FlushDue(k, w)
  PROVE  /\ NextFlush(k, w) \in Time
         /\ 1 <= Diff(NextFlush(k, w), w) /\ Diff(NextFlush(k, w), w) <= Interval
<1>1. PICK a \in Time : a = Later(w, Interval)
  BY PeriodIs, TimeIs, LaterType
<1>2. Diff(a, w) = Interval /\ Diff(w, a) = -Interval
  BY <1>1, PeriodIs, DiffLead
<1>3. PICK n : n = Later(FlushTime(k, w), Interval)
  OBVIOUS
<1>4. NextFlush(k, w) = IF Diff(w, n) >= 0 THEN a ELSE n
  BY <1>1, <1>3 DEF NextFlush
<1>5. CASE FlushTime(k, w) = w
  BY <1>1, <1>2, <1>3, <1>4, <1>5, PeriodIs
<1>6. CASE /\ FlushTime(k, w) = k.ts_flush
           /\ Diff(k.ts_flush, w) <= 0 /\ -SlapMax < Diff(k.ts_flush, w)
  <2>1. PICK l \in Int : l = Diff(k.ts_flush, w)
    BY DiffIs
  <2>2. k.ts_flush = Later(w, l)
    BY <2>1, LaterDiff
  <2>3. PICK m \in Int : m = l + Interval
    BY PeriodIs
  <2>4. n = Later(w, m)
    BY <1>3, <1>6, <2>2, <2>3, PeriodIs, LaterLater
  <2>5. 2 * m < Wrap /\ -Wrap < 2 * m /\ m <= Interval
    BY <1>6, <2>1, <2>3, PeriodIs
  <2>6. Diff(n, w) = m /\ Diff(w, n) = -m
    BY <2>4, <2>5, DiffLead
  <2>7. n \in Time
    BY <2>4, TimeIs, LaterType
  <2>8. CASE m >= 1
    <3>1. ~(Diff(w, n) >= 0)
      BY <2>6, <2>8
    <3> QED BY <1>4, <2>5, <2>6, <2>7, <2>8, <3>1
  <2>9. CASE ~(m >= 1)
    <3>1. Diff(w, n) >= 0
      BY <2>6, <2>9
    <3> QED BY <1>1, <1>2, <1>4, <3>1, PeriodIs
  <2> QED BY <2>8, <2>9
<1> QED BY <1>5, <1>6, FlushDueView

(***************************************************************************)
(* kcpev_timer_repeat, at time w with the control block k, sleeps for s.   *)
(***************************************************************************)
Sleeps(k, w, s) ==
  \/ s = Retry
  \/ /\ 1 <= s /\ s <= Interval /\ s <= Diff(k.ts_flush, w)
     /\ \A j \in 1..Len(k.snd_buf) : s <= Diff(k.snd_buf[j].resendts, w)

(***************************************************************************)
(* It wakes for the flush and for every timeout, but for one that is due   *)
(* and where the clock wraps.                                              *)
(***************************************************************************)
Wakes(k, w, s) ==
  \/ /\ s <= Diff(k.ts_flush, w)
     /\ \A j \in 1..Len(k.snd_buf) : s <= Diff(k.snd_buf[j].resendts, w)
  \/ \E j \in 1..Len(k.snd_buf) : Diff(k.snd_buf[j].resendts, w) <= 0
  \/ w + Interval >= Wrap

(***************************************************************************)
(* The time to which kcpev_timer_repeat sets the timer is at least 1 and   *)
(* at most Retry; unless it is Retry it is no later than the flush and     *)
(* every timeout (ikcp_check).                                             *)
(***************************************************************************)
LEMMA CheckView ==
  ASSUME NEW k, k.ts_flush \in Time, k.updated \in BOOLEAN, k.snd_buf \in Seq(Segment),
         NEW w \in Time, NEW n, n = Check(k, w),
         NEW s, s = IF n <= w THEN Retry ELSE n - w
  PROVE  /\ Sleeps(k, w, s) /\ s \in 1..Retry
         /\ FlushDue(k, w) => n = w
         /\ FlushDue(k, w) \/ Wakes(k, w, s)
<1>0. w \in Int /\ w >= 0 /\ w < Wrap /\ Wrap \in Nat
  BY TimeIs
<1>1. PICK a \in Seq(Segment) : a = k.snd_buf
  OBVIOUS
<1> DEFINE packets == {Diff(a[j].resendts, w) : j \in 1..Len(a)}
           S == packets \cup {Diff(k.ts_flush, w), Interval}
<1>2. DOMAIN a = 1..Len(a)
  OBVIOUS
<1>3. /\ FlushDue(k, w) \/ (\E d \in packets : d <= 0) => n = w
      /\ ~(FlushDue(k, w) \/ \E d \in packets : d <= 0) => n = Later(w, Min(S))
  BY <1>1, <1>2 DEF Check
<1>4. CASE FlushDue(k, w) \/ \E d \in packets : d <= 0
  <2>1. n = w
    BY <1>3, <1>4
  <2>2. n <= w /\ s = Retry
    BY <1>0, <2>1
  <2>3. FlushDue(k, w) \/ Wakes(k, w, s)
    BY <1>1, <1>4 DEF Wakes
  <2> QED BY <2>1, <2>2, <2>3, PeriodIs DEF Sleeps
<1>5. CASE ~(FlushDue(k, w) \/ \E d \in packets : d <= 0)
  <2>1. /\ Diff(k.ts_flush, w) \in Int
        /\ 1 <= Diff(k.ts_flush, w) /\ Diff(k.ts_flush, w) <= SlapMax
    BY <1>5, FlushDueView, DiffIs
  <2>2. \A j \in 1..Len(a) : a[j].resendts \in Time
    <3>1. \A j \in 1..Len(a) : a[j] \in Segment
      OBVIOUS
    <3> HIDE DEF packets, S
    <3> QED BY <3>1 DEF Segment
  <2>3. \A d \in packets : d \in Int
    BY <2>2, DiffIs
  <2>4. \A d \in packets : ~(d <= 0)
    BY <1>5
  <2>5. S \in SUBSET Nat /\ \A d \in S : 1 <= d
    <3>1. \A d \in packets : d \in Nat /\ 1 <= d
      BY <2>3, <2>4, SMTT(30)
    <3> HIDE DEF packets
    <3> QED BY <2>1, <3>1, PeriodIs
  <2>6. /\ Interval \in S /\ Diff(k.ts_flush, w) \in S
        /\ \A j \in 1..Len(a) : Diff(a[j].resendts, w) \in S
    OBVIOUS
  <2> HIDE DEF S, packets
  <2>7. PICK m : m = Min(S)
    OBVIOUS
  <2>8. m \in S /\ \A x \in S : m <= x
    BY <2>5, <2>6, <2>7, MinNat
  <2>9. /\ m \in Nat /\ 1 <= m /\ m <= Interval /\ m <= Diff(k.ts_flush, w)
        /\ \A j \in 1..Len(a) : m <= Diff(a[j].resendts, w)
    BY <2>5, <2>6, <2>8
  <2>10. n = Later(w, m)
    BY <1>3, <1>5, <2>7
  <2>11. PICK e \in Int : e = w + m
    BY <1>0, <2>9
  <2>12. n = e % Wrap
    BY <2>10, <2>11 DEF Later
  <2>13. 0 <= e /\ e < 2 * Wrap /\ -Wrap <= e
    BY <1>0, <2>9, <2>11, PeriodIs
  <2>14. n = e \/ n = e - Wrap
    <3>1. (e < Wrap => e % Wrap = e) /\ (Wrap <= e => e % Wrap = e - Wrap)
      BY <2>13, ModNear
    <3> QED BY <1>0, <2>12, <3>1
  <2>15. s = Retry \/ s = m
    <3>1. CASE n = e
      <4>1. ~(n <= w) /\ n - w = m
        BY <1>0, <2>9, <2>11, <3>1
      <4> QED BY <4>1
    <3>2. CASE n = e - Wrap
      <4>1. n <= w
        BY <1>0, <2>9, <2>11, <3>2, PeriodIs
      <4> QED BY <4>1
    <3> QED BY <2>14, <3>1, <3>2
  <2>16. Sleeps(k, w, s)
    BY <1>1, <2>9, <2>15 DEF Sleeps
  <2>17. s = m \/ w + Interval >= Wrap
    <3>1. CASE n = e
      <4>1. ~(n <= w) /\ n - w = m
        BY <1>0, <2>9, <2>11, <3>1
      <4> QED BY <4>1
    <3>2. CASE e >= Wrap
      BY <1>0, <2>9, <2>11, <3>2, PeriodIs
    <3>3. e < Wrap => n = e
      BY <2>12, <2>13, ModNear
    <3> QED BY <1>0, <2>11, <3>1, <3>2, <3>3
  <2>18. Wakes(k, w, s)
    BY <1>1, <2>9, <2>17 DEF Wakes
  <2> QED BY <1>5, <2>9, <2>15, <2>16, <2>18, PeriodIs
<1> QED BY <1>4, <1>5

(***************************************************************************)
(* ikcp_update at time w without a flush, and the control block it hands   *)
(* to ikcp_flush.                                                          *)
(***************************************************************************)
Seen(k, w) == [k EXCEPT !.current = w]

Planned(k, w) == [k EXCEPT !.current = w, !.updated = TRUE, !.ts_flush = NextFlush(k, w)]

(***************************************************************************)
(* ikcp_update flushes the control block with the next flush planned, or   *)
(* notes the time.                                                         *)
(***************************************************************************)
LEMMA UpdateView ==
  ASSUME NEW k \in KcpRec(Segment), NEW w \in Time
  PROVE  /\ FlushDue(k, w) => Update(k, w) = Flush(Planned(k, w))
         /\ ~FlushDue(k, w) => Update(k, w) = Seen(k, w)
<1>0. k.ts_flush \in Time /\ k.updated \in BOOLEAN
  BY DEF KcpRec
<1>1. ASSUME FlushDue(k, w) PROVE Update(k, w) = Flush(Planned(k, w))
  <2>1. PICK q : q = NextFlush(k, w)
    OBVIOUS
  <2>2. PICK s : s = [k EXCEPT !.current = w, !.updated = TRUE, !.ts_flush = FlushTime(k, w)]
    OBVIOUS
  <2>3. Update(k, w) = Flush([s EXCEPT !.ts_flush = q])
    BY <1>1, <2>1, <2>2 DEF Update, NextFlush
  <2>4. [s EXCEPT !.ts_flush = q] = [k EXCEPT !.current = w, !.updated = TRUE, !.ts_flush = q]
    BY <2>2 DEF KcpRec
  <2> QED BY <2>1, <2>3, <2>4 DEF Planned
<1>2. ASSUME ~FlushDue(k, w) PROVE Update(k, w) = Seen(k, w)
  <2>1. k.updated = TRUE /\ FlushTime(k, w) = k.ts_flush
    BY <1>0, <1>2, FlushDueView
  <2>2. Update(k, w) = [k EXCEPT !.current = w, !.updated = TRUE, !.ts_flush = k.ts_flush]
    BY <1>2, <2>1 DEF Update
  <2> QED BY <2>1, <2>2 DEF Seen, KcpRec
<1> QED BY <1>1, <1>2

(***************************************************************************)
(* What ikcp_update leaves alone when it does not flush.                   *)
(***************************************************************************)
Idled(k, f) ==
  /\ f.updated = k.updated /\ f.ts_flush = k.ts_flush /\ f.snd_buf = k.snd_buf
  /\ f.nsnd_que = k.nsnd_que /\ f.rmt_wnd = k.rmt_wnd /\ SameProbe(k, f)

(***************************************************************************)
(* An update without a flush keeps everything but the time of the update.  *)
(***************************************************************************)
LEMMA SeenView ==
  ASSUME NEW k \in KcpRec(Segment), NEW w \in Time, NEW f, f = Seen(k, w) \/ f = k
  PROVE  f \in KcpRec(Segment) /\ Idled(k, f)
BY DEF KcpRec, Seen, Idled, SameProbe

(***************************************************************************)
(* The control block that is flushed, field by field.                      *)
(***************************************************************************)
LEMMA PlannedView ==
  ASSUME NEW k \in KcpRec(Segment), Room(k), NEW w \in Time, NextFlush(k, w) \in Time,
         NEW f, f = Planned(k, w)
  PROVE  /\ f \in KcpRec(Segment) /\ Room(f)
         /\ f.current = w /\ f.updated /\ f.ts_flush = NextFlush(k, w)
         /\ f.snd_buf = k.snd_buf /\ f.rmt_wnd = k.rmt_wnd /\ f.nsnd_que = k.nsnd_que
         /\ SameProbe(k, f) /\ f.rx_rto = k.rx_rto
<1>1. PICK q \in Time : q = NextFlush(k, w)
  OBVIOUS
<1>2. f = [k EXCEPT !.current = w, !.updated = TRUE, !.ts_flush = q]
  BY <1>1 DEF Planned
<1>3. /\ f \in KcpRec(Segment)
      /\ f.current = w /\ f.updated /\ f.ts_flush = q /\ f.snd_buf = k.snd_buf
      /\ f.rmt_wnd = k.rmt_wnd /\ f.nsnd_que = k.nsnd_que
      /\ SameProbe(k, f) /\ f.rx_rto = k.rx_rto
  BY <1>2 DEF KcpRec, SameProbe
<1>4. Room(f)
  BY <1>3 DEF Room
<1> QED BY <1>1, <1>3, <1>4

-----------------------------------------------------------------------------
(* The actions, and the types                                              *)

(***************************************************************************)
(* An acknowledgement that comes when its segment is gone.                 *)
(***************************************************************************)
LateAcks == [ts : Time, before : 0..SndWnd]

(***************************************************************************)
(* The types: TypeOK with the room in the window.                          *)
(***************************************************************************)
Types ==
  /\ wall \in Time
  /\ kcp \in KcpRec(Segment) /\ Room(kcp)
  /\ late \subseteq LateAcks
  /\ wait \in -MaxLag..Retry
  /\ idle \in Nat /\ asked \in Nat
  /\ shift \in scn.steps \cup {0}
  /\ scn \in Scenarios

(***************************************************************************)
(* The fields of a scenario.                                               *)
(***************************************************************************)
LEMMA ScenarioIs ==
  ASSUME NEW s \in Scenarios
  PROVE  /\ s.segs \in Nat /\ s.segs <= SndWnd /\ s.xmit \in Nat
         /\ s.wnds \subseteq {0, SndWnd} /\ s.steps \subseteq Int
<1>1. s \in Scenario
  BY ScenarioAssumption
<1> QED BY <1>1, BoundAssumption DEF Scenario

(***************************************************************************)
(* The fields of the control block.                                        *)
(***************************************************************************)
LEMMA KcpIs ==
  ASSUME NEW k \in KcpRec(Segment)
  PROVE  /\ k.updated \in BOOLEAN /\ k.current \in Time /\ k.ts_flush \in Time
         /\ k.ts_probe \in Time /\ k.probe_wait \in Nat /\ k.rmt_wnd \in {0, SndWnd}
         /\ k.nsnd_que \in Nat /\ k.snd_buf \in Seq(Segment) /\ Len(k.snd_buf) \in Nat
         /\ DOMAIN k.snd_buf = 1..Len(k.snd_buf)
         /\ \A j \in 1..Len(k.snd_buf) : k.snd_buf[j] \in Segment
<1>1. PICK a \in Seq(Segment) : a = k.snd_buf
  BY DEF KcpRec
<1>2. Len(a) \in Nat /\ DOMAIN a = 1..Len(a) /\ \A j \in 1..Len(a) : a[j] \in Segment
  OBVIOUS
<1>3. ProbeLimit \in Nat /\ SndWnd \in Nat
  BY ProbeAssumption, BoundAssumption
<1> QED BY <1>1, <1>2, <1>3 DEF KcpRec

(***************************************************************************)
(* The fields of a segment.                                                *)
(***************************************************************************)
LEMMA SegmentIs ==
  ASSUME NEW s \in Segment
  PROVE  /\ s.resendts \in Time /\ s.rto \in Nat /\ s.xmit \in Nat /\ 1 <= s.xmit
         /\ s.fastack \in Nat /\ s.age \in Nat /\ s.copies \subseteq Time
BY BoundAssumption DEF Segment

(***************************************************************************)
(* ikcp_send changes the length of snd_queue only.                         *)
(***************************************************************************)
LEMMA SendView ==
  ASSUME Types, Send
  PROVE  /\ kcp' \in KcpRec(Segment) /\ Room(kcp') /\ SameTimes(kcp, kcp')
         /\ SameProbe(kcp, kcp') /\ kcp'.snd_buf = kcp.snd_buf /\ kcp'.rmt_wnd = kcp.rmt_wnd
         /\ late' = late /\ UNCHANGED <<wall, wait, idle, asked, shift, scn>>
<1>1. kcp \in KcpRec(Segment) /\ scn \in Scenarios
  BY DEF Types
<1>2. scn.segs \in Nat /\ scn.segs <= SndWnd /\ SndWnd \in Nat
  BY <1>1, ScenarioIs, BoundAssumption
<1>3. kcp.nsnd_que \in Nat /\ Len(kcp.snd_buf) \in Nat
  BY <1>1, KcpIs
<1>4. PICK q \in Nat : q = kcp.nsnd_que + 1
  BY <1>3
<1>5. q + Len(kcp.snd_buf) <= SndWnd /\ q \in 0..SndWnd
  BY <1>2, <1>3, <1>4 DEF Send
<1>6. kcp' = [kcp EXCEPT !.nsnd_que = q]
  BY <1>4 DEF Send
<1>7. /\ kcp' \in KcpRec(Segment) /\ kcp'.nsnd_que = q /\ kcp'.snd_buf = kcp.snd_buf
      /\ SameTimes(kcp, kcp') /\ SameProbe(kcp, kcp') /\ kcp'.rmt_wnd = kcp.rmt_wnd
  BY <1>1, <1>5, <1>6 DEF KcpRec, SameTimes, SameProbe
<1>8. Room(kcp')
  BY <1>5, <1>7 DEF Room
<1> QED BY <1>7, <1>8 DEF Send

(***************************************************************************)
(* The network keeps acknowledgements of the right type.                   *)
(***************************************************************************)
LEMMA LateView ==
  ASSUME Types, NEW n \in 0..Len(kcp.snd_buf), NEW i \in 0..Len(kcp.snd_buf),
         NEW acks \in SUBSET LateAcks, KeepLate(acks, n, i)
  PROVE  late' \subseteq LateAcks
<1>1. kcp \in KcpRec(Segment) /\ Room(kcp)
  BY DEF Types
<1>2. PICK z \in Nat : z = Len(kcp.snd_buf) /\ z <= SndWnd
  <2>1. kcp.nsnd_que \in Nat /\ Len(kcp.snd_buf) \in Nat /\ SndWnd \in Nat
    BY <1>1, KcpIs, BoundAssumption
  <2> QED BY <1>1, <2>1 DEF Room
<1>3. n \in Nat /\ i \in Nat /\ SndWnd \in Nat
  BY <1>2, BoundAssumption
<1>4. ASSUME NEW m \in 0..SndWnd PROVE Left(m, n, i) \in 0..SndWnd
  BY <1>3 DEF Left
<1>5. ASSUME NEW a \in LateAcks
      PROVE  [a EXCEPT !.before = Left(a.before, n, i)] \in LateAcks
  <2>1. a.before \in 0..SndWnd
    BY DEF LateAcks
  <2>2. PICK m \in 0..SndWnd : m = Left(a.before, n, i)
    BY <1>4, <2>1
  <2> QED BY <2>2 DEF LateAcks
<1>6. ASSUME NEW j \in DOMAIN kcp.snd_buf, NEW ts \in kcp.snd_buf[j].copies
      PROVE  [ts |-> ts, before |-> Left(j - 1, n, i)] \in LateAcks
  <2>1. j \in 1..z /\ kcp.snd_buf[j] \in Segment
    BY <1>1, <1>2, KcpIs
  <2>2. ts \in Time
    BY <2>1, SegmentIs
  <2>3. j - 1 \in 0..SndWnd
    BY <1>2, <1>3, <2>1
  <2>4. PICK m \in 0..SndWnd : m = Left(j - 1, n, i)
    BY <1>4, <2>3
  <2> QED BY <2>2, <2>4 DEF LateAcks
<1>7. AcksLeft(n, i) \subseteq LateAcks
  BY <1>6 DEF AcksLeft
<1>8. CASE late' = {[a EXCEPT !.before = Left(@, n, i)] : a \in acks}
  <2>1. \A a \in acks : a \in LateAcks
    OBVIOUS
  <2> QED BY <1>5, <1>8, <2>1
<1>9. CASE \E a \in AcksLeft(n, i) : late' = {a}
  BY <1>7, <1>9
<1> QED BY <1>8, <1>9 DEF KeepLate

(***************************************************************************)
(* ikcp_input keeps the types, removes segments and notes the window.      *)
(***************************************************************************)
LEMMA InputView ==
  ASSUME Types, Input
  PROVE  /\ kcp' \in KcpRec(Segment) /\ Room(kcp') /\ SameTimes(kcp, kcp')
         /\ SameProbe(kcp, kcp') /\ Thinned(kcp.snd_buf, kcp'.snd_buf)
         /\ asked' = IF kcp'.rmt_wnd = 0 THEN asked ELSE 0
         /\ late' \subseteq LateAcks
         /\ UNCHANGED <<wall, wait, idle, shift, scn>>
<1>1. kcp \in KcpRec(Segment) /\ scn \in Scenarios /\ late \in SUBSET LateAcks
  BY DEF Types
<1>2. PICK n \in 0..Len(kcp.snd_buf), i \in 0..Len(kcp.snd_buf), wnd \in scn.wnds :
        /\ \/ /\ kcp' = Acknowledge([kcp EXCEPT !.rmt_wnd = wnd], n, i)
              /\ KeepLate(late, n, i)
           \/ /\ i # 0 /\ KeepLate(late, n, i)
              /\ \E ts \in kcp.snd_buf[i].copies :
                   kcp' = Overtake(Acknowledge(Sample([kcp EXCEPT !.rmt_wnd = wnd], ts), n, i),
                                   Left(i, n, i))
           \/ /\ KeepLate({}, n, i)
              /\ \E a \in late :
                   kcp' = Overtake(Acknowledge(Sample([kcp EXCEPT !.rmt_wnd = wnd], a.ts), n, i),
                                   Left(a.before, n, 0))
        /\ asked' = IF wnd = 0 THEN asked ELSE 0
        /\ UNCHANGED <<wall, wait, idle, shift, scn>>
  BY DEF Input
<1>3. PICK h : h = [kcp EXCEPT !.rmt_wnd = wnd]
  OBVIOUS
<1>4. wnd \in {0, SndWnd}
  BY <1>1, ScenarioIs
<1>5. /\ h \in KcpRec(Segment) /\ SameTimes(kcp, h) /\ SameProbe(kcp, h) /\ h.rmt_wnd = wnd
      /\ h.snd_buf = kcp.snd_buf /\ h.nsnd_que = kcp.nsnd_que
  BY <1>1, <1>3, <1>4 DEF KcpRec, SameTimes, SameProbe
<1>6. late' \subseteq LateAcks
  <2>1. KeepLate(late, n, i) \/ KeepLate({}, n, i)
    BY <1>2
  <2>2. {} \in SUBSET LateAcks
    OBVIOUS
  <2> QED BY <1>1, <2>1, <2>2, LateView
<1>7. PICK g \in KcpRec(Segment) :
        /\ kcp' = Acknowledge(g, n, i) \/ \E m : kcp' = Overtake(Acknowledge(g, n, i), m)
        /\ SameTimes(kcp, g) /\ SameProbe(kcp, g) /\ g.rmt_wnd = wnd
        /\ g.snd_buf = kcp.snd_buf /\ g.nsnd_que = kcp.nsnd_que
  <2>1. CASE kcp' = Acknowledge(h, n, i)
    BY <1>5, <2>1
  <2>2. ASSUME NEW ts \in Time, NEW m, kcp' = Overtake(Acknowledge(Sample(h, ts), n, i), m)
        PROVE  \E g \in KcpRec(Segment) :
                 /\ \E l : kcp' = Overtake(Acknowledge(g, n, i), l)
                 /\ SameTimes(kcp, g) /\ SameProbe(kcp, g) /\ g.rmt_wnd = wnd
                 /\ g.snd_buf = kcp.snd_buf /\ g.nsnd_que = kcp.nsnd_que
    <3>1. PICK g : g = Sample(h, ts)
      OBVIOUS
    <3>2. /\ g \in KcpRec(Segment) /\ SameTimes(h, g) /\ SameProbe(h, g)
          /\ g.snd_buf = h.snd_buf /\ g.nsnd_que = h.nsnd_que /\ g.rmt_wnd = h.rmt_wnd
      BY <1>5, <3>1, SampleView
    <3>3. SameTimes(kcp, g) /\ SameProbe(kcp, g)
      BY <1>5, <3>2 DEF SameTimes, SameProbe
    <3> QED BY <1>5, <2>2, <3>1, <3>2, <3>3
  <2>3. CASE i # 0 /\ \E ts \in kcp.snd_buf[i].copies :
               kcp' = Overtake(Acknowledge(Sample(h, ts), n, i), Left(i, n, i))
    <3>1. i \in 1..Len(kcp.snd_buf)
      BY <1>1, <2>3, KcpIs
    <3>2. \A ts \in kcp.snd_buf[i].copies : ts \in Time
      BY <1>1, <3>1, KcpIs, SegmentIs
    <3> QED BY <2>2, <2>3, <3>2
  <2>4. CASE \E a \in late :
               kcp' = Overtake(Acknowledge(Sample(h, a.ts), n, i), Left(a.before, n, 0))
    <3>1. \A a \in late : a.ts \in Time
      BY <1>1 DEF LateAcks
    <3> QED BY <2>2, <2>4, <3>1
  <2> QED BY <1>2, <1>3, <2>1, <2>3, <2>4
<1>8. n \in 0..Len(g.snd_buf) /\ i \in 0..Len(g.snd_buf)
  BY <1>7
<1>9. PICK b \in Seq(Segment) : Thinned(kcp.snd_buf, b) /\ kcp' = [g EXCEPT !.snd_buf = b]
  <2>1. PICK d \in Seq(Segment) :
          Thinned(g.snd_buf, d) /\ Acknowledge(g, n, i) = [g EXCEPT !.snd_buf = d]
    BY <1>8, AcknowledgeView
  <2>2. PICK f : f = [g EXCEPT !.snd_buf = d]
    OBVIOUS
  <2>3. f \in KcpRec(Segment) /\ f.snd_buf = d
    BY <1>7, <2>2 DEF KcpRec
  <2>4. CASE kcp' = Acknowledge(g, n, i)
    BY <1>7, <2>1, <2>4
  <2>5. ASSUME NEW m, kcp' = Overtake(Acknowledge(g, n, i), m)
        PROVE  \E b \in Seq(Segment) :
                 Thinned(kcp.snd_buf, b) /\ kcp' = [g EXCEPT !.snd_buf = b]
    <3>1. kcp' = Overtake(f, m)
      BY <2>1, <2>2, <2>5
    <3>2. PICK b \in Seq(Segment) : Thinned(d, b) /\ kcp' = [f EXCEPT !.snd_buf = b]
      BY <2>3, <3>1, OvertakeView
    <3>3. kcp' = [g EXCEPT !.snd_buf = b]
      BY <1>7, <2>2, <3>2 DEF KcpRec
    <3>4. kcp.snd_buf \in Seq(Segment)
      BY <1>1, KcpIs
    <3>5. Thinned(kcp.snd_buf, b)
      BY <1>7, <2>1, <3>2, <3>4, ThinnedTwice
    <3> QED BY <3>3, <3>5
  <2> QED BY <1>7, <2>4, <2>5
<1>10. kcp' = [g EXCEPT !.snd_buf = b]
  BY <1>9
<1>11. /\ kcp' \in KcpRec(Segment) /\ SameTimes(g, kcp') /\ SameProbe(g, kcp')
       /\ kcp'.rmt_wnd = wnd /\ kcp'.snd_buf = b /\ kcp'.nsnd_que = g.nsnd_que
  BY <1>7, <1>10 DEF KcpRec, SameTimes, SameProbe
<1>12. SameTimes(kcp, kcp') /\ SameProbe(kcp, kcp')
  BY <1>7, <1>11 DEF SameTimes, SameProbe
<1>13. Room(kcp')
  <2>1. kcp.nsnd_que + Len(kcp.snd_buf) <= SndWnd /\ Len(b) <= Len(kcp.snd_buf)
    BY <1>7, <1>9 DEF Types, Room, Thinned
  <2>2. kcp.nsnd_que \in Nat /\ Len(kcp.snd_buf) \in Nat /\ Len(b) \in Nat /\ SndWnd \in Nat
    BY <1>1, KcpIs, BoundAssumption
  <2>3. kcp.nsnd_que + Len(b) <= SndWnd
    BY <2>1, <2>2
  <2> QED BY <1>7, <1>11, <2>3 DEF Room
<1> QED BY <1>2, <1>6, <1>9, <1>11, <1>12, <1>13

(***************************************************************************)
(* The segments b are the segments a a millisecond later.                  *)
(***************************************************************************)
Aged(a, b) ==
  /\ Len(b) = Len(a)
  /\ \A j \in 1..Len(a) :
       /\ b[j].resendts = a[j].resendts /\ b[j].rto = a[j].rto /\ b[j].xmit = a[j].xmit
       /\ b[j].age = a[j].age + 1

(***************************************************************************)
(* A segment a millisecond later.                                          *)
(***************************************************************************)
LEMMA AgeView ==
  ASSUME NEW s \in Segment, NEW r, r = Older(s)
  PROVE  /\ r \in Segment /\ r.resendts = s.resendts /\ r.rto = s.rto /\ r.xmit = s.xmit
         /\ r.age = s.age + 1
<1>1. PICK n \in Nat : n = s.age + 1
  BY SegmentIs
<1> QED BY <1>1 DEF Segment, Older

(***************************************************************************)
(* A tick leaves the control block alone but for the age of the segments.  *)
(***************************************************************************)
LEMMA TickView ==
  ASSUME Types, Tick
  PROVE  /\ kcp' \in KcpRec(Segment) /\ Room(kcp') /\ SameTimes(kcp, kcp')
         /\ SameProbe(kcp, kcp') /\ kcp'.rmt_wnd = kcp.rmt_wnd
         /\ Aged(kcp.snd_buf, kcp'.snd_buf)
<1>1. kcp \in KcpRec(Segment)
  BY DEF Types
<1>2. PICK a \in Seq(Segment) : a = kcp.snd_buf
  BY <1>1, KcpIs
<1>3. PICK b : b = [j \in DOMAIN a |-> Older(a[j])]
  OBVIOUS
<1>4. kcp' = [kcp EXCEPT !.snd_buf = b]
  BY <1>2, <1>3 DEF Tick
<1>5. DOMAIN a = 1..Len(a) /\ Len(a) \in Nat /\ \A j \in 1..Len(a) : a[j] \in Segment
  OBVIOUS
<1>6. ASSUME NEW j \in 1..Len(a)
      PROVE  /\ b[j] \in Segment /\ b[j].resendts = a[j].resendts /\ b[j].rto = a[j].rto
             /\ b[j].xmit = a[j].xmit /\ b[j].age = a[j].age + 1
  <2>1. PICK s \in Segment : s = a[j]
    BY <1>5
  <2>2. b[j] = Older(s)
    BY <1>3, <1>5, <2>1
  <2> QED BY <2>1, <2>2, AgeView
<1>7. b \in Seq(Segment) /\ Len(b) = Len(a)
  <2>1. PICK n \in Nat : n = Len(a)
    BY <1>5
  <2>2. b = [j \in 1..n |-> b[j]] /\ \A j \in 1..n : b[j] \in Segment
    BY <1>3, <1>5, <1>6, <2>1
  <2> QED BY <2>1, <2>2
<1>8. Aged(a, b)
  BY <1>6, <1>7 DEF Aged
<1>9. /\ kcp' \in KcpRec(Segment) /\ SameTimes(kcp, kcp') /\ SameProbe(kcp, kcp')
      /\ kcp'.snd_buf = b /\ kcp'.rmt_wnd = kcp.rmt_wnd /\ kcp'.nsnd_que = kcp.nsnd_que
  BY <1>1, <1>4, <1>7 DEF KcpRec, SameTimes, SameProbe
<1>10. Room(kcp')
  BY <1>2, <1>7, <1>9 DEF Types, Room
<1> QED BY <1>2, <1>8, <1>9, <1>10

(***************************************************************************)
(* kcpev_timer_repeat without a flush, and with one.                       *)
(***************************************************************************)
IdleStep ==
  ~FlushDue(kcp, wall) /\ Idled(kcp, kcp') /\ idle' = idle /\ asked' = asked

FlushStep ==
  /\ FlushDue(kcp, wall)
  /\ Flushed(Planned(kcp, wall), kcp') /\ SameProbe(Probe(Planned(kcp, wall)), kcp')
  /\ idle' = 0
  /\ asked' = IF ProbeDue(Planned(kcp, wall)) THEN 0 ELSE asked

(***************************************************************************)
(* kcpev_timer_repeat flushes if and only if a flush is due, and sets the  *)
(* timer.                                                                  *)
(***************************************************************************)
LEMMA TimerView ==
  ASSUME Types, TimerRepeat
  PROVE  /\ kcp' \in KcpRec(Segment) /\ Room(kcp')
         /\ wait <= 0 /\ wait' \in 1..Retry /\ Sleeps(kcp', wall, wait')
         /\ IdleStep \/ FlushStep
         /\ Wakes(kcp', wall, wait')
         /\ late' = late /\ UNCHANGED <<wall, shift, scn>>
<1>1. kcp \in KcpRec(Segment) /\ Room(kcp) /\ wall \in Time
  BY DEF Types
<1>2. kcp.ts_flush \in Time /\ kcp.updated \in BOOLEAN /\ kcp.snd_buf \in Seq(Segment)
  BY <1>1, KcpIs
<1>3. PICK n0 : n0 = Check(kcp, wall)
  OBVIOUS
<1>4. PICK k : k = IF n0 <= wall THEN Update(kcp, wall) ELSE kcp
  OBVIOUS
<1>5. PICK n : n = Check(k, wall)
  OBVIOUS
<1>6. /\ wait <= 0 /\ kcp' = k /\ wait' = IF n <= wall THEN Retry ELSE n - wall
      /\ idle' = IF n0 <= wall /\ FlushDue(kcp, wall) THEN 0 ELSE idle
      /\ asked' = IF n0 <= wall /\ FlushDue(kcp, wall) /\ ProbeDue([kcp EXCEPT !.current = wall])
                  THEN 0 ELSE asked
      /\ late' = late /\ UNCHANGED <<wall, shift, scn>>
  BY <1>3, <1>4, <1>5 DEF TimerRepeat, Sleep
<1>7. FlushDue(kcp, wall) => n0 <= wall
  BY <1>1, <1>2, <1>3, CheckView, TimeIs
<1>8. CASE ~FlushDue(kcp, wall)
  <2>1. k = Seen(kcp, wall) \/ k = kcp
    BY <1>1, <1>4, <1>8, UpdateView
  <2>2. k \in KcpRec(Segment) /\ Idled(kcp, k)
    BY <1>1, <2>1, SeenView
  <2>3. Room(k)
    BY <1>1, <2>2 DEF Room, Idled
  <2>4. IdleStep
    BY <1>6, <1>8, <2>2 DEF IdleStep
  <2>5. ~FlushDue(k, wall)
    <3>1. k.updated = kcp.updated /\ k.ts_flush = kcp.ts_flush
      BY <1>1, <2>1 DEF Seen, KcpRec
    <3> QED BY <1>8, <3>1 DEF FlushDue, FlushTime, Stepped
  <2> QED BY <1>6, <2>2, <2>3, <2>4, <2>5, <1>1, <1>5, KcpIs, CheckView
<1>9. CASE FlushDue(kcp, wall)
  <2>1. PICK p : p = Planned(kcp, wall)
    OBVIOUS
  <2>2. k = Flush(p)
    BY <1>1, <1>4, <1>7, <1>9, <2>1, UpdateView
  <2>3. NextFlush(kcp, wall) \in Time
    BY <1>1, <1>2, <1>9, NextFlushView
  <2>4. /\ p \in KcpRec(Segment) /\ Room(p) /\ p.current = wall /\ SameProbe(kcp, p)
        /\ p.rmt_wnd = kcp.rmt_wnd
    BY <1>1, <2>1, <2>3, PlannedView
  <2>5. k \in KcpRec(Segment) /\ Room(k) /\ Flushed(p, k) /\ SameProbe(Probe(p), k)
    BY <2>2, <2>4, FlushView
  <2>6. PICK e : e = [kcp EXCEPT !.current = wall]
    OBVIOUS
  <2>7. /\ e.current = wall /\ e.rmt_wnd = kcp.rmt_wnd /\ SameProbe(kcp, e)
    BY <1>1, <2>6 DEF KcpRec, SameProbe
  <2>8. ProbeDue(e) <=> ProbeDue(p)
    BY <2>4, <2>7 DEF ProbeDue, SameProbe
  <2>9. FlushStep
    BY <1>6, <1>7, <1>9, <2>1, <2>5, <2>6, <2>8 DEF FlushStep
  <2>10. ~FlushDue(k, wall)
    <3>1. k.updated /\ k.ts_flush = NextFlush(kcp, wall)
      BY <1>1, <2>1, <2>3, <2>5, PlannedView DEF Flushed, SameTimes
    <3>2. 1 <= Diff(k.ts_flush, wall) /\ Diff(k.ts_flush, wall) <= Interval
      BY <1>1, <1>2, <1>9, <3>1, NextFlushView
    <3>3. k.ts_flush \in Time /\ Diff(k.ts_flush, wall) \in Int
      BY <1>1, <2>3, <3>1, DiffIs
    <3>4. ~(Diff(k.ts_flush, wall) <= 0 \/ SlapMax < Diff(k.ts_flush, wall))
      BY <3>2, <3>3, PeriodIs
    <3> QED BY <1>1, <2>5, <3>1, <3>3, <3>4, KcpIs, FlushDueView
  <2> QED BY <1>6, <2>5, <2>9, <2>10, <1>1, <1>5, KcpIs, CheckView
<1> QED BY <1>8, <1>9

(***************************************************************************)
(* ikcp_create leaves a control block without segments and without a       *)
(* probe.                                                                  *)
(***************************************************************************)
LEMMA CreatedView ==
  /\ Created \in KcpRec(Segment) /\ Room(Created)
  /\ ~Created.updated /\ Created.snd_buf = <<>> /\ Created.probe_wait = 0
  /\ Created.rmt_wnd = SndWnd
<1>1. /\ 0 \in Time /\ Interval \in Time /\ RtoDef \in RtoMin..RtoMax /\ 0 \in 0..ProbeLimit
      /\ SndWnd \in Nat /\ 0 \in 0..SndWnd
  BY PeriodAssumption, RtoAssumption, ProbeAssumption, BoundAssumption DEF Time
<1>2. <<>> \in Seq(Segment) /\ Len(<<>>) = 0
  OBVIOUS
<1>3. Created \in KcpRec(Segment)
  BY <1>1, <1>2 DEF Created, KcpRec
<1>4. /\ ~Created.updated /\ Created.snd_buf = <<>> /\ Created.probe_wait = 0
      /\ Created.rmt_wnd = SndWnd /\ Created.nsnd_que = 0
  BY DEF Created
<1>5. Room(Created)
  BY <1>1, <1>2, <1>4 DEF Room
<1> QED BY <1>3, <1>4, <1>5

(***************************************************************************)
(* The types hold initially.                                               *)
(***************************************************************************)
LEMMA InitTypes ==
  ASSUME Init
  PROVE  Types
<1>1. wait \in -MaxLag..Retry
  BY PeriodIs DEF Init
<1> QED BY <1>1, CreatedView DEF Init, Types

(***************************************************************************)
(* The types are kept by every step.                                       *)
(***************************************************************************)
LEMMA NextTypes ==
  ASSUME Types, [Next]_vars
  PROVE  Types'
<1>0. /\ wall \in Time /\ wait \in -MaxLag..Retry /\ idle \in Nat /\ asked \in Nat
      /\ shift \in scn.steps \cup {0} /\ scn \in Scenarios /\ late \subseteq LateAcks
  BY DEF Types
<1>1. CASE Send
  BY <1>0, <1>1, SendView DEF Types
<1>2. CASE Input
  <2>1. asked' \in Nat
    BY <1>0, <1>2, InputView
  <2> QED BY <1>0, <1>2, <2>1, InputView DEF Types
<1>3. CASE TimerRepeat
  <2>1. idle' \in Nat /\ asked' \in Nat
    BY <1>0, <1>3, TimerView DEF IdleStep, FlushStep
  <2>2. wait' \in -MaxLag..Retry
    <3>1. wait' \in 1..Retry
      BY <1>3, TimerView
    <3> QED BY <3>1, PeriodIs
  <2> QED BY <1>0, <1>3, <2>1, <2>2, TimerView DEF Types
<1>4. CASE Tick
  <2>1. wait' = wait - 1 /\ wait > -MaxLag /\ idle' = idle + 1 /\ UNCHANGED <<shift, scn>>
    BY <1>4 DEF Tick
  <2>2. wait' \in -MaxLag..Retry /\ idle' \in Nat
    BY <1>0, <2>1, PeriodIs
  <2>3. wall' \in Time
    <3>1. wall' = Later(wall, 1) /\ wall \in Int
      BY <1>0, <1>4, TimeIs DEF Tick
    <3> QED BY <3>1, LaterType
  <2>4. asked' \in Nat
    BY <1>0, <1>4 DEF Tick
  <2>5. late' \subseteq LateAcks
    BY <1>0, <1>4 DEF Tick
  <2> QED BY <1>0, <1>4, <2>1, <2>2, <2>3, <2>4, <2>5, TickView DEF Types
<1>5. CASE StepClock
  <2>1. scn.steps \subseteq Int
    BY <1>0, ScenarioIs
  <2>2. wall' = Later(wall, shift') /\ shift' \in scn.steps
    BY <1>5 DEF StepClock
  <2>3. wall' \in Time
    BY <1>0, <2>1, <2>2, TimeIs, LaterType
  <2> QED BY <1>0, <1>5, <2>2, <2>3 DEF StepClock, Types
<1>6. CASE UNCHANGED vars
  BY <1>6 DEF Types, vars
<1> QED BY <1>1, <1>2, <1>3, <1>4, <1>5, <1>6 DEF Next

(***************************************************************************)
(* The variables have their types, for every clock, every step of it and   *)
(* every scenario: the timeout stays within its limits and the timer is    *)
(* never set more than Retry ahead (ikcp_update_ack, kcpev_timer_repeat).  *)
(***************************************************************************)
THEOREM TypeCorrect == Spec => []TypeOK
<1>1. Init => Types
  BY InitTypes
<1>2. Types /\ [Next]_vars => Types'
  BY NextTypes
<1>3. Types => TypeOK
  BY DEF Types, TypeOK, KcpRec, LateAcks
<1> QED BY <1>1, <1>2, <1>3, PTL DEF Spec

(***************************************************************************)
(* What TimerRearmed says of a step.                                       *)
(***************************************************************************)
Rearmed ==
  TimerRepeat =>
    /\ 1 <= wait' /\ wait' <= Retry
    /\ \/ \A t \in Deadlines' : wait' <= Diff(t, wall)
       \/ \E j \in DOMAIN kcp'.snd_buf : Diff(kcp'.snd_buf[j].resendts, wall) <= 0
       \/ wall + Interval >= Wrap

(***************************************************************************)
(* kcpev_timer_repeat sets the timer at least one millisecond and at most  *)
(* Retry ahead, and not beyond the next flush nor beyond a timeout unless  *)
(* a segment is due or the clock is about to wrap, wherever the clock is   *)
(* and however it was stepped (kcpev_timer_repeat, ikcp_check).            *)
(***************************************************************************)
THEOREM TimerAlwaysRearmed == Spec => TimerRearmed
<1>1. Init => Types
  BY InitTypes
<1>2. Types /\ [Next]_vars => Types'
  BY NextTypes
<1>3. Types => Rearmed
  <2>1. SUFFICES ASSUME Types, TimerRepeat PROVE Rearmed
    BY DEF Rearmed
  <2>2. kcp' \in KcpRec(Segment) /\ wait' \in 1..Retry /\ Wakes(kcp', wall, wait')
    BY <2>1, TimerView
  <2>3. 1 <= wait' /\ wait' <= Retry
    BY <2>2, PeriodIs
  <2>4. DOMAIN kcp'.snd_buf = 1..Len(kcp'.snd_buf)
    BY <2>2, KcpIs
  <2>5. Deadlines' =
          {kcp'.ts_flush} \cup {kcp'.snd_buf[j].resendts : j \in 1..Len(kcp'.snd_buf)}
    BY <2>4 DEF Deadlines
  <2>6. ASSUME wait' <= Diff(kcp'.ts_flush, wall),
               \A j \in 1..Len(kcp'.snd_buf) : wait' <= Diff(kcp'.snd_buf[j].resendts, wall)
        PROVE  \A t \in Deadlines' : wait' <= Diff(t, wall)
    BY <2>5, <2>6
  <2> QED BY <2>2, <2>3, <2>4, <2>6 DEF Wakes, Rearmed
<1>4. Spec => [][Rearmed]_vars
  BY <1>1, <1>2, <1>3, PTL DEF Spec
<1> QED BY <1>4 DEF Rearmed, TimerRearmed

-----------------------------------------------------------------------------
(* The inductive invariant                                                 *)

(***************************************************************************)
(* How far a time lies ahead of the clock as the code sees it.             *)
(***************************************************************************)
Lead(t) == Diff(t, wall)

(***************************************************************************)
(* Before the first ikcp_update nothing was sent, and the timer is on its  *)
(* way.                                                                    *)
(***************************************************************************)
BeforeUpdate ==
  ~kcp.updated => kcp.snd_buf = <<>> /\ kcp.probe_wait = 0 /\ idle + wait <= Retry

(***************************************************************************)
(* The plan for the next flush. It is not forgotten: it lies at most Retry *)
(* - 1 before the time at which the timer fires, and never further ahead   *)
(* than an interval after the last flush. The last conjunct is for a clock *)
(* set back by more than SlapMax, which the next call of the timer         *)
(* notices.                                                                *)
(***************************************************************************)
FlushPlan ==
  kcp.updated =>
    /\ Lead(kcp.ts_flush) - wait >= 1 - Retry - Ahead
    /\ Lead(kcp.ts_flush) + idle <= Interval + Back
    /\ idle + wait <= Interval + Retry - 1 + Back
    /\ \/ idle + wait <= Interval + Retry - 1
       \/ /\ Lead(kcp.ts_flush) + idle <= FlushGap + SlapMax
          /\ idle + wait <= FlushGap + SlapMax + Retry - 1

(***************************************************************************)
(* The timeout grows by at most RtoMax with each copy, and a segment is    *)
(* sent scn.xmit + 1 times at most: this is why its time stays within half *)
(* a turn of the clock.                                                    *)
(***************************************************************************)
Backoff(seg) ==
  /\ 1 <= seg.rto /\ seg.rto <= RtoMax * seg.xmit
  /\ seg.xmit <= scn.xmit + 1
  /\ wait <= 0 => seg.xmit < scn.xmit

(***************************************************************************)
(* The plan for a segment: its timeout runs from when it was sent, give or *)
(* take the step of the clock; when it has passed, the next flush is less  *)
(* than an interval away; and on a clock nobody set back the timer fires   *)
(* when the segment is due, or the flush is planned before the next time   *)
(* it does.                                                                *)
(***************************************************************************)
ResendPlan(seg) ==
  /\ seg.rto - Ahead <= seg.age + Lead(seg.resendts)
  /\ seg.age + Lead(seg.resendts) <= seg.rto + Back
  /\ Lead(kcp.ts_flush) - Lead(seg.resendts) <= Interval - 1
  /\ seg.age - seg.rto + wait <= Back + Interval + Retry - 2
  /\ Back = 0 => \/ seg.age - seg.rto <= -wait
                 \/ /\ Lead(kcp.ts_flush) <= wait
                    /\ seg.age - seg.rto <= Retry + MaxLag - wait

(***************************************************************************)
(* The segment is on its way.                                              *)
(***************************************************************************)
OnWay(seg) == \E j \in 1..Len(kcp.snd_buf) : seg = kcp.snd_buf[j]

(***************************************************************************)
(* Every segment has its plan.                                             *)
(***************************************************************************)
Resends == \A seg \in Segment : OnWay(seg) => Backoff(seg) /\ ResendPlan(seg)

(***************************************************************************)
(* The longest time between two probes before the flush that sends the     *)
(* second is late.                                                         *)
(***************************************************************************)
ProbeSpan == Max({ProbeInit + FlushGap, ProbeLimit})

(***************************************************************************)
(* The plan for the probe: while none is scheduled the window has been     *)
(* closed for less than the time since the last flush, and a scheduled one *)
(* waits for the next flush like a segment.                                *)
(***************************************************************************)
ProbePlan ==
  /\ kcp.rmt_wnd # 0 => asked = 0
  /\ kcp.probe_wait = 0 => asked <= idle
  /\ kcp.probe_wait # 0 =>
       /\ kcp.updated
       /\ Lead(kcp.ts_probe) <= ProbeLimit + Back
       /\ Lead(kcp.ts_flush) - Lead(kcp.ts_probe) <= Interval - 1
       /\ asked + Lead(kcp.ts_probe) <= ProbeSpan + Back
       /\ asked + wait <= ProbeSpan + Back + Interval + Retry - 2

(***************************************************************************)
(* The inductive invariant.                                                *)
(***************************************************************************)
IInv == Types /\ BeforeUpdate /\ FlushPlan /\ Resends /\ ProbePlan

(***************************************************************************)
(* How far the clock was set back, or ahead.                               *)
(***************************************************************************)
LEMMA ShiftIs ==
  ASSUME Types
  PROVE  /\ shift \in Int /\ Back \in Nat /\ Ahead \in Nat
         /\ (shift < 0 /\ Back = -shift /\ Ahead = 0) \/ (0 <= shift /\ Back = 0 /\ Ahead = shift)
<1>1. shift \in Int
  BY ScenarioIs DEF Types
<1> QED BY <1>1 DEF Back, Ahead

(***************************************************************************)
(* FlushGap as a fact about integers.                                      *)
(***************************************************************************)
LEMMA GapIs ==
  FlushGap \in Nat /\ FlushGap = Interval + Retry - 1 + MaxLag
BY PeriodIs DEF FlushGap

(***************************************************************************)
(* ProbeSpan as a fact about integers.                                     *)
(***************************************************************************)
LEMMA SpanIs ==
  /\ ProbeSpan \in Nat /\ ProbeInit + FlushGap <= ProbeSpan /\ ProbeLimit <= ProbeSpan
  /\ ProbeSpan = ProbeInit + FlushGap \/ ProbeSpan = ProbeLimit
<1>1. PICK a \in Nat, b \in Nat : a = ProbeInit + FlushGap /\ b = ProbeLimit
  BY GapIs, ProbeAssumption
<1>2. PICK S : S = {a, b}
  OBVIOUS
<1>3. Max(S) \in Nat /\ Max(S) >= a /\ Max(S) >= b /\ (Max(S) = a \/ Max(S) = b)
  BY <1>2, MaxNat
<1>4. ProbeSpan = Max(S)
  BY <1>1, <1>2 DEF ProbeSpan
<1> QED BY <1>1, <1>3, <1>4

(***************************************************************************)
(* The numbers of a state.                                                 *)
(***************************************************************************)
LEMMA NumbersAre ==
  ASSUME Types
  PROVE  /\ wait \in Int /\ -MaxLag <= wait /\ wait <= Retry /\ idle \in Nat /\ asked \in Nat
         /\ Lead(kcp.ts_flush) \in Int /\ Lead(kcp.ts_probe) \in Int
         /\ scn.xmit \in Nat
<1>1. wall \in Time /\ kcp.ts_flush \in Time /\ kcp.ts_probe \in Time
  BY KcpIs DEF Types
<1>2. Lead(kcp.ts_flush) \in Int /\ Lead(kcp.ts_probe) \in Int
  BY <1>1, DiffIs DEF Lead
<1>3. wait \in -MaxLag..Retry /\ idle \in Nat /\ asked \in Nat /\ scn.xmit \in Nat
  BY ScenarioIs DEF Types
<1> QED BY <1>2, <1>3, PeriodIs

(***************************************************************************)
(* Reach in a state, in terms of how far the clock was stepped.            *)
(***************************************************************************)
LEMMA ReachIs ==
  ASSUME Reach, Types
  PROVE  /\ 2 * (FlushGap + Ahead) < Wrap
         /\ 2 * (Interval + Back) < Wrap
         /\ 2 * (ProbeLimit + Back) < Wrap
         /\ 2 * (RtoMax * (scn.xmit + 1) + Back) < Wrap
<1>1. scn \in Scenarios /\ shift \in scn.steps \cup {0} /\ 0 \in scn.steps \cup {0}
  BY DEF Types
<1>2. PICK R \in Nat : R = RtoMax * (scn.xmit + 1)
  BY <1>1, ScenarioIs, RtoAssumption
<1>3. ASSUME NEW d \in scn.steps \cup {0}
      PROVE  /\ 2 * (FlushGap + d) < Wrap /\ 2 * (Interval - d) < Wrap
             /\ 2 * (ProbeLimit - d) < Wrap /\ 2 * (R - d) < Wrap
  BY <1>1, <1>2 DEF Reach
<1>4. /\ 2 * (FlushGap + shift) < Wrap /\ 2 * (Interval - shift) < Wrap
      /\ 2 * (ProbeLimit - shift) < Wrap /\ 2 * (R - shift) < Wrap
  BY <1>1, <1>3
<1>5. /\ 2 * (FlushGap + 0) < Wrap /\ 2 * (Interval - 0) < Wrap
      /\ 2 * (ProbeLimit - 0) < Wrap /\ 2 * (R - 0) < Wrap
  BY <1>1, <1>3
<1>6. 2 * (FlushGap + Ahead) < Wrap
  BY <1>4, <1>5, ShiftIs, GapIs, PeriodIs
<1>7. 2 * (Interval + Back) < Wrap
  BY <1>4, <1>5, ShiftIs, PeriodIs
<1>8. 2 * (ProbeLimit + Back) < Wrap
  BY <1>4, <1>5, ShiftIs, PeriodIs, ProbeAssumption
<1>9. 2 * (R + Back) < Wrap
  BY <1>4, <1>5, ShiftIs, PeriodIs
<1> QED BY <1>2, <1>6, <1>7, <1>8, <1>9

(***************************************************************************)
(* Facts about products.                                                   *)
(***************************************************************************)
LEMMA Times ==
  /\ \A a, b, c \in Nat : a <= b => c * a <= c * b
  /\ \A a, c \in Nat : c * a + c = c * (a + 1) /\ c * 1 = c /\ c * a \in Nat
OBVIOUS

(***************************************************************************)
(* The timeout of a segment has the limit that Reach speaks of.            *)
(***************************************************************************)
LEMMA RtoIs ==
  ASSUME Types, NEW seg \in Segment, Backoff(seg)
  PROVE  seg.rto <= RtoMax * (scn.xmit + 1) /\ RtoMax * (scn.xmit + 1) \in Nat
<1>1. PICK x \in Nat, y \in Nat : x = seg.xmit /\ y = scn.xmit + 1 /\ x <= y
  BY SegmentIs, NumbersAre DEF Backoff
<1>2. PICK c \in Nat : c = RtoMax
  BY RtoAssumption
<1>3. c * x <= c * y /\ c * x \in Nat /\ c * y \in Nat
  BY <1>1, Times
<1>4. PICK u \in Nat, v \in Nat : u = c * x /\ v = c * y /\ u <= v
  BY <1>3
<1>5. seg.rto <= u
  BY <1>1, <1>2, <1>4 DEF Backoff
<1>6. seg.rto <= v
  BY <1>4, <1>5, SegmentIs
<1> QED BY <1>1, <1>2, <1>4, <1>6

-----------------------------------------------------------------------------
(* Steps that leave the clock alone                                        *)

(***************************************************************************)
(* What ikcp_send and ikcp_input leave alone.                              *)
(***************************************************************************)
Quiet ==
  /\ SameTimes(kcp, kcp') /\ SameProbe(kcp, kcp')
  /\ UNCHANGED <<wall, wait, idle, shift, scn>>

(***************************************************************************)
(* Such a step keeps the plan of a segment.                                *)
(***************************************************************************)
LEMMA QuietSegment ==
  ASSUME Quiet, NEW s, NEW r, SameSegment(s, r), Backoff(s), ResendPlan(s)
  PROVE  Backoff(r)' /\ ResendPlan(r)'
<1>1. /\ r.resendts = s.resendts /\ r.rto = s.rto /\ r.xmit = s.xmit /\ r.age = s.age
  BY DEF SameSegment
<1>2. /\ kcp'.ts_flush = kcp.ts_flush /\ wall' = wall /\ wait' = wait /\ shift' = shift
      /\ scn' = scn
  BY DEF Quiet, SameTimes
<1>3. Back' = Back /\ Ahead' = Ahead /\ Lead(s.resendts)' = Lead(s.resendts)
      /\ Lead(kcp.ts_flush)' = Lead(kcp.ts_flush)
  BY <1>2 DEF Back, Ahead, Lead
<1>4. Backoff(r)'
  BY <1>1, <1>2 DEF Backoff
<1>5. ResendPlan(r)'
  BY <1>1, <1>2, <1>3 DEF ResendPlan, Lead
<1> QED BY <1>4, <1>5

(***************************************************************************)
(* A smaller count of ticks stays below the same bound.                    *)
(***************************************************************************)
LEMMA StillBelow ==
  ASSUME NEW a \in Nat, NEW b \in Nat, b <= a, NEW x \in Int, NEW m \in Int, a + x <= m
  PROVE  b + x <= m
OBVIOUS

(***************************************************************************)
(* A step that removes segments at most, and may open the window, keeps    *)
(* the invariant.                                                          *)
(***************************************************************************)
LEMMA QuietStep ==
  ASSUME IInv, Types', Quiet,
         kcp.snd_buf = <<>> => kcp'.snd_buf = <<>>,
         asked' = asked \/ asked' = 0, kcp'.rmt_wnd # 0 => asked' = 0,
         \A j \in 1..Len(kcp'.snd_buf) : \E l \in 1..Len(kcp.snd_buf) :
           SameSegment(kcp.snd_buf[l], kcp'.snd_buf[j])
  PROVE  IInv'
<1>1. /\ kcp'.updated = kcp.updated /\ kcp'.ts_flush = kcp.ts_flush
      /\ kcp'.probe_wait = kcp.probe_wait /\ kcp'.ts_probe = kcp.ts_probe
      /\ wall' = wall /\ wait' = wait /\ idle' = idle /\ shift' = shift /\ scn' = scn
  BY DEF Quiet, SameTimes, SameProbe
<1>2. /\ Back' = Back /\ Ahead' = Ahead
      /\ Lead(kcp.ts_flush)' = Lead(kcp.ts_flush) /\ Lead(kcp.ts_probe)' = Lead(kcp.ts_probe)
  BY <1>1 DEF Back, Ahead, Lead
<1>3. BeforeUpdate'
  BY <1>1 DEF IInv, BeforeUpdate
<1>4. FlushPlan'
  BY <1>1, <1>2 DEF IInv, FlushPlan
<1>5. Resends'
  <2>1. ASSUME NEW r \in Segment, OnWay(r)'
        PROVE  Backoff(r)' /\ ResendPlan(r)'
    <3>1. PICK j \in 1..Len(kcp'.snd_buf) : r = kcp'.snd_buf[j]
      BY <2>1 DEF OnWay
    <3>2. PICK l \in 1..Len(kcp.snd_buf) : SameSegment(kcp.snd_buf[l], r)
      BY <3>1
    <3>3. PICK s \in Segment : s = kcp.snd_buf[l]
      BY KcpIs DEF IInv, Types
    <3>4. Backoff(s) /\ ResendPlan(s)
      BY <3>3 DEF IInv, Resends, OnWay
    <3> QED BY <3>2, <3>3, <3>4, QuietSegment
  <2> QED BY <2>1 DEF Resends
<1>6. ProbePlan'
  <2>1. asked \in Nat /\ asked' \in Nat /\ asked' <= asked
    BY DEF IInv, Types
  <2>2. /\ wait \in Int /\ idle \in Nat /\ Back \in Nat
        /\ Lead(kcp.ts_probe) \in Int /\ ProbeSpan \in Nat
        /\ Interval \in Nat /\ Retry \in Nat
    BY NumbersAre, ShiftIs, SpanIs, PeriodIs DEF IInv
  <2>3. ASSUME kcp.probe_wait = 0 PROVE asked' <= idle
    BY <2>1, <2>2, <2>3 DEF IInv, ProbePlan
  <2>4. ASSUME kcp.probe_wait # 0
        PROVE  /\ asked' + Lead(kcp.ts_probe) <= ProbeSpan + Back
               /\ asked' + wait <= ProbeSpan + Back + Interval + Retry - 2
    <3>1. /\ asked + Lead(kcp.ts_probe) <= ProbeSpan + Back
          /\ asked + wait <= ProbeSpan + Back + Interval + Retry - 2
      BY <2>4 DEF IInv, ProbePlan
    <3>2. PICK limit \in Int : limit = ProbeSpan + Back
      BY <2>2
    <3>3. PICK sleep \in Int : sleep = ProbeSpan + Back + Interval + Retry - 2
      BY <2>2
    <3>4. PICK lead \in Int : lead = Lead(kcp.ts_probe)
      BY <2>2
    <3>5. asked + lead <= limit /\ asked + wait <= sleep
      BY <3>1, <3>2, <3>3, <3>4
    <3>6. asked' + lead <= limit
      BY <2>1, <3>5, StillBelow
    <3>7. asked' + wait <= sleep
      BY <2>1, <2>2, <3>5, StillBelow
    <3> QED BY <3>2, <3>3, <3>4, <3>6, <3>7
  <2>5. ASSUME kcp.probe_wait # 0
        PROVE  /\ kcp.updated /\ Lead(kcp.ts_probe) <= ProbeLimit + Back
               /\ Lead(kcp.ts_flush) - Lead(kcp.ts_probe) <= Interval - 1
    BY <2>5 DEF IInv, ProbePlan
  <2> QED BY <1>1, <1>2, <2>3, <2>4, <2>5 DEF ProbePlan
<1> QED BY <1>3, <1>4, <1>5, <1>6 DEF IInv

(***************************************************************************)
(* ikcp_send keeps the invariant.                                          *)
(***************************************************************************)
LEMMA SendKeeps ==
  ASSUME IInv, Types', Send
  PROVE  IInv'
<1>1. Types
  BY DEF IInv
<1>2. /\ Quiet /\ kcp'.snd_buf = kcp.snd_buf /\ asked' = asked
      /\ kcp'.rmt_wnd # 0 => asked' = 0
  BY <1>1, SendView DEF Quiet, IInv, ProbePlan
<1>3. \A j \in 1..Len(kcp'.snd_buf) : \E l \in 1..Len(kcp.snd_buf) :
        SameSegment(kcp.snd_buf[l], kcp'.snd_buf[j])
  BY <1>2 DEF SameSegment
<1> QED BY <1>2, <1>3, QuietStep

(***************************************************************************)
(* ikcp_input keeps the invariant.                                         *)
(***************************************************************************)
LEMMA InputKeeps ==
  ASSUME IInv, Types', Input
  PROVE  IInv'
<1>1. Types
  BY DEF IInv
<1>2. /\ Quiet /\ Thinned(kcp.snd_buf, kcp'.snd_buf)
      /\ asked' = asked \/ asked' = 0
      /\ kcp'.rmt_wnd # 0 => asked' = 0
  BY <1>1, InputView DEF Quiet
<1>3. kcp.snd_buf = <<>> => kcp'.snd_buf = <<>>
  <2>1. SUFFICES ASSUME kcp.snd_buf = <<>> PROVE kcp'.snd_buf = <<>>
    OBVIOUS
  <2>2. kcp'.snd_buf \in Seq(Segment) /\ Len(kcp'.snd_buf) <= 0
    BY <1>2, <2>1 DEF Thinned
  <2> QED BY <2>2
<1>4. \A j \in 1..Len(kcp'.snd_buf) : \E l \in 1..Len(kcp.snd_buf) :
        SameSegment(kcp.snd_buf[l], kcp'.snd_buf[j])
  BY <1>2 DEF Thinned
<1> QED BY <1>2, <1>3, <1>4, QuietStep

-----------------------------------------------------------------------------
(* The clock moves                                                         *)

(***************************************************************************)
(* DiffMoves for the clock of the state.                                   *)
(***************************************************************************)
LEMMA LeadMoves ==
  ASSUME Types, NEW t \in Time, NEW e \in Int, wall' = Later(wall, e),
         2 * (Lead(t) - e) < Wrap, -Wrap < 2 * (Lead(t) - e)
  PROVE  Lead(t)' = Lead(t) - e
BY DiffMoves DEF Lead, Types

(***************************************************************************)
(* The times in kcp that the code will compare with the clock.             *)
(***************************************************************************)
Pending(t) ==
  \/ kcp.updated /\ t = kcp.ts_flush
  \/ kcp.probe_wait # 0 /\ t = kcp.ts_probe
  \/ \E s \in Segment : OnWay(s) /\ t = s.resendts

(***************************************************************************)
(* They lie neither far ahead nor far behind.                              *)
(***************************************************************************)
LEMMA LeadsNear ==
  ASSUME IInv, NEW t \in Time, Pending(t)
  PROVE  /\ 2 - Interval - Retry - Ahead + wait <= Lead(t)
         /\ \/ Lead(t) <= Interval + Back
            \/ Lead(t) <= ProbeLimit + Back
            \/ Lead(t) <= RtoMax * (scn.xmit + 1) + Back
<1>0. Types
  BY DEF IInv
<1>1. /\ Lead(t) \in Int /\ Lead(kcp.ts_flush) \in Int /\ wait \in Int /\ idle \in Nat
      /\ Ahead \in Nat /\ Back \in Nat /\ Interval \in Nat /\ Retry \in Nat
      /\ 1 <= Interval
  BY <1>0, NumbersAre, ShiftIs, PeriodIs, DiffIs DEF Types, Lead
<1>2. kcp.updated => /\ Lead(kcp.ts_flush) - wait >= 1 - Retry - Ahead
                     /\ Lead(kcp.ts_flush) + idle <= Interval + Back
  BY DEF IInv, FlushPlan
<1>3. CASE kcp.updated /\ t = kcp.ts_flush
  BY <1>1, <1>2, <1>3
<1>4. CASE kcp.probe_wait # 0 /\ t = kcp.ts_probe
  <2>1. kcp.updated /\ Lead(t) <= ProbeLimit + Back /\ Lead(kcp.ts_flush) - Lead(t) <= Interval - 1
    BY <1>4 DEF IInv, ProbePlan
  <2> QED BY <1>1, <1>2, <2>1
<1>5. CASE \E s \in Segment : OnWay(s) /\ t = s.resendts
  <2>1. PICK s \in Segment : OnWay(s) /\ t = s.resendts
    BY <1>5
  <2>2. Backoff(s) /\ ResendPlan(s)
    BY <2>1 DEF IInv, Resends
  <2>3. /\ s.age + Lead(t) <= s.rto + Back /\ Lead(kcp.ts_flush) - Lead(t) <= Interval - 1
    BY <2>1, <2>2 DEF ResendPlan
  <2>4. kcp.updated
    <3>1. kcp.snd_buf # <<>>
      BY <2>1 DEF OnWay
    <3> QED BY <3>1 DEF IInv, BeforeUpdate
  <2>5. PICK R \in Nat : R = RtoMax * (scn.xmit + 1) /\ s.rto <= R
    BY <1>0, <2>2, RtoIs
  <2>6. s.age \in Nat /\ s.rto \in Nat
    BY SegmentIs
  <2>7. Lead(t) <= R + Back
    BY <1>1, <2>3, <2>5, <2>6
  <2> QED BY <1>1, <1>2, <2>3, <2>4, <2>5, <2>7
<1> QED BY <1>3, <1>4, <1>5 DEF Pending

(***************************************************************************)
(* So they come nearer by as much as the clock moves.                      *)
(***************************************************************************)
LEMMA LeadsMove ==
  ASSUME IInv, NEW e \in Int, wall' = Later(wall, e), NEW t \in Time, Pending(t),
         2 * (Interval + Retry - 2 + Ahead - wait + e) < Wrap,
         2 * (Interval + Back - e) < Wrap, 2 * (ProbeLimit + Back - e) < Wrap,
         2 * (RtoMax * (scn.xmit + 1) + Back - e) < Wrap
  PROVE  Lead(t)' = Lead(t) - e
<1>0. Types
  BY DEF IInv
<1>1. /\ Lead(t) \in Int /\ wait \in Int /\ Ahead \in Nat /\ Back \in Nat
      /\ Interval \in Nat /\ Retry \in Nat /\ Wrap \in Nat
  BY <1>0, NumbersAre, ShiftIs, PeriodIs, DiffIs DEF Types, Lead
<1>2. PICK R \in Nat : R = RtoMax * (scn.xmit + 1)
  BY <1>0, NumbersAre, RtoAssumption, Times
<1>3. PICK P \in Nat : P = ProbeLimit
  BY ProbeAssumption
<1>4. /\ 2 - Interval - Retry - Ahead + wait <= Lead(t)
      /\ Lead(t) <= Interval + Back \/ Lead(t) <= P + Back \/ Lead(t) <= R + Back
  BY <1>2, <1>3, LeadsNear
<1>5. 2 * (P + Back - e) < Wrap /\ 2 * (R + Back - e) < Wrap
  BY <1>2, <1>3
<1>6. 2 * (Lead(t) - e) < Wrap
  BY <1>1, <1>4, <1>5
<1>7. -Wrap < 2 * (Lead(t) - e)
  BY <1>1, <1>4
<1> QED BY <1>0, <1>6, <1>7, LeadMoves

(***************************************************************************)
(* The clock moves by e: every time in kcp comes nearer by as much.        *)
(***************************************************************************)
Nearer(e) ==
  /\ kcp.updated => Lead(kcp.ts_flush)' = Lead(kcp.ts_flush) - e
  /\ kcp.probe_wait # 0 => Lead(kcp.ts_probe)' = Lead(kcp.ts_probe) - e
  /\ \A s \in Segment : OnWay(s) => Lead(s.resendts)' = Lead(s.resendts) - e

(***************************************************************************)
(* The clock moves and nothing else in kcp that the code reads.            *)
(***************************************************************************)
LEMMA ClockMoves ==
  ASSUME IInv, NEW e \in Int, wall' = Later(wall, e), SameTimes(kcp, kcp'), SameProbe(kcp, kcp'),
         2 * (Interval + Retry - 2 + Ahead - wait + e) < Wrap,
         2 * (Interval + Back - e) < Wrap, 2 * (ProbeLimit + Back - e) < Wrap,
         2 * (RtoMax * (scn.xmit + 1) + Back - e) < Wrap
  PROVE  Nearer(e)
<1>0. \A t \in Time : Pending(t) => Lead(t)' = Lead(t) - e
  BY LeadsMove
<1>1. PICK f \in Time, p \in Time : f = kcp.ts_flush /\ p = kcp.ts_probe
  BY KcpIs DEF IInv, Types
<1>2. kcp'.ts_flush = f /\ kcp'.ts_probe = p
  BY <1>1 DEF SameTimes, SameProbe
<1>3. ASSUME kcp.updated PROVE Lead(kcp.ts_flush)' = Lead(kcp.ts_flush) - e
  <2>1. Lead(f)' = Lead(f) - e
    BY <1>0, <1>1, <1>3 DEF Pending
  <2> QED BY <1>1, <1>2, <2>1 DEF Lead
<1>4. ASSUME kcp.probe_wait # 0 PROVE Lead(kcp.ts_probe)' = Lead(kcp.ts_probe) - e
  <2>1. Lead(p)' = Lead(p) - e
    BY <1>0, <1>1, <1>4 DEF Pending
  <2> QED BY <1>1, <1>2, <2>1 DEF Lead
<1>5. ASSUME NEW s \in Segment, OnWay(s) PROVE Lead(s.resendts)' = Lead(s.resendts) - e
  <2>1. PICK t \in Time : t = s.resendts
    BY SegmentIs
  <2>2. Lead(t)' = Lead(t) - e
    BY <1>0, <1>5, <2>1 DEF Pending
  <2> QED BY <2>1, <2>2 DEF Lead
<1> QED BY <1>3, <1>4, <1>5 DEF Nearer

(***************************************************************************)
(* A millisecond that passes keeps the invariant: the sums in it stay the  *)
(* same.                                                                   *)
(***************************************************************************)
LEMMA TickKeeps ==
  ASSUME Reach, IInv, Types', Tick
  PROVE  IInv'
<1>0. Types
  BY DEF IInv
<1>1. /\ wait \in Int /\ wait > -MaxLag /\ wait' = wait - 1 /\ idle' = idle + 1
      /\ shift' = shift /\ scn' = scn /\ wall' = Later(wall, 1)
      /\ asked' = IF kcp.rmt_wnd = 0 THEN asked + 1 ELSE 0
  BY <1>0, NumbersAre DEF Tick
<1>2. /\ SameTimes(kcp, kcp') /\ SameProbe(kcp, kcp') /\ kcp'.rmt_wnd = kcp.rmt_wnd
      /\ Aged(kcp.snd_buf, kcp'.snd_buf)
  BY <1>0, TickView
<1>3. /\ Interval \in Nat /\ Retry \in Nat /\ MaxLag \in Nat /\ Wrap \in Nat
      /\ Ahead \in Nat /\ Back \in Nat /\ idle \in Nat /\ asked \in Nat
      /\ Lead(kcp.ts_flush) \in Int /\ Lead(kcp.ts_probe) \in Int
  BY <1>0, NumbersAre, ShiftIs, PeriodIs
<1>4. Nearer(1)
  <2>1. PICK R \in Nat, P \in Nat : R = RtoMax * (scn.xmit + 1) /\ P = ProbeLimit
    BY <1>0, NumbersAre, RtoAssumption, ProbeAssumption, Times
  <2>2. /\ 2 * (FlushGap + Ahead) < Wrap /\ 2 * (Interval + Back) < Wrap
        /\ 2 * (P + Back) < Wrap /\ 2 * (R + Back) < Wrap
    BY <1>0, <2>1, ReachIs
  <2>3. 2 * (Interval + Retry - 2 + Ahead - wait + 1) < Wrap
    BY <1>1, <1>3, <2>2, GapIs
  <2>4. /\ 2 * (Interval + Back - 1) < Wrap /\ 2 * (P + Back - 1) < Wrap
        /\ 2 * (R + Back - 1) < Wrap
    BY <1>3, <2>2
  <2> QED BY <1>1, <1>2, <2>1, <2>3, <2>4, ClockMoves
<1>5. Back' = Back /\ Ahead' = Ahead
  BY <1>1 DEF Back, Ahead
<1>6. kcp'.updated = kcp.updated /\ kcp'.probe_wait = kcp.probe_wait
  BY <1>2 DEF SameTimes, SameProbe
<1>7. BeforeUpdate'
  <2>1. ASSUME ~kcp.updated PROVE idle' + wait' <= Retry
    BY <1>1, <1>3, <2>1 DEF IInv, BeforeUpdate
  <2>2. ASSUME ~kcp.updated PROVE kcp'.snd_buf = <<>>
    <3>1. kcp.snd_buf = <<>>
      BY <2>2 DEF IInv, BeforeUpdate
    <3>2. Len(kcp'.snd_buf) = 0 /\ kcp'.snd_buf \in Seq(Segment)
      BY <1>2, <3>1, KcpIs DEF Aged, Types
    <3> QED BY <3>2, EmptySeq
  <2>3. ~kcp.updated => kcp.probe_wait = 0
    BY DEF IInv, BeforeUpdate
  <2> QED BY <1>6, <2>1, <2>2, <2>3 DEF BeforeUpdate
<1>8. FlushPlan'
  <2>1. CASE kcp.updated
    <3>1. /\ Lead(kcp.ts_flush) - wait >= 1 - Retry - Ahead
          /\ Lead(kcp.ts_flush) + idle <= Interval + Back
          /\ idle + wait <= Interval + Retry - 1 + Back
          /\ \/ idle + wait <= Interval + Retry - 1
             \/ /\ Lead(kcp.ts_flush) + idle <= FlushGap + SlapMax
                /\ idle + wait <= FlushGap + SlapMax + Retry - 1
      BY <2>1 DEF IInv, FlushPlan
    <3>2. Lead(kcp.ts_flush)' = Lead(kcp.ts_flush) - 1
      BY <1>4, <2>1 DEF Nearer
    <3>3. /\ Lead(kcp.ts_flush)' - wait' = Lead(kcp.ts_flush) - wait
          /\ Lead(kcp.ts_flush)' + idle' = Lead(kcp.ts_flush) + idle
          /\ idle' + wait' = idle + wait
      BY <1>1, <1>3, <3>2
    <3> QED BY <1>5, <3>1, <3>3 DEF FlushPlan
  <2> QED BY <1>6, <2>1 DEF FlushPlan
<1>9. Resends'
  <2>1. ASSUME NEW r \in Segment, OnWay(r)' PROVE Backoff(r)' /\ ResendPlan(r)'
    <3>1. PICK j \in 1..Len(kcp'.snd_buf) : r = kcp'.snd_buf[j]
      BY <2>1 DEF OnWay
    <3>2. j \in 1..Len(kcp.snd_buf)
      BY <1>2, <3>1 DEF Aged
    <3>3. PICK s \in Segment : s = kcp.snd_buf[j]
      BY <1>0, <3>2, KcpIs DEF Types
    <3>4. r.resendts = s.resendts /\ r.rto = s.rto /\ r.xmit = s.xmit /\ r.age = s.age + 1
      BY <1>2, <3>1, <3>2, <3>3 DEF Aged
    <3>5. OnWay(s) /\ Backoff(s) /\ ResendPlan(s)
      BY <3>2, <3>3 DEF IInv, Resends, OnWay
    <3>6. s.xmit < scn.xmit
      <4>1. j \in DOMAIN kcp.snd_buf
        BY <1>0, <3>2, KcpIs DEF Types
      <4> QED BY <3>3, <4>1 DEF Tick
    <3>7. Backoff(r)'
      BY <1>1, <3>4, <3>5, <3>6 DEF Backoff
    <3>8. /\ Lead(s.resendts)' = Lead(s.resendts) - 1
          /\ Lead(kcp.ts_flush)' = Lead(kcp.ts_flush) - 1
      <4>1. kcp.updated
        <5>1. kcp.snd_buf # <<>>
          BY <3>5 DEF OnWay
        <5> QED BY <5>1 DEF IInv, BeforeUpdate
      <4> QED BY <1>4, <3>5, <4>1 DEF Nearer
    <3>9. PICK S \in Int : S = Lead(s.resendts)
      BY <1>0, SegmentIs, DiffIs DEF Lead, Types
    <3>10. Lead(r.resendts)' = S - 1
      BY <3>4, <3>8, <3>9 DEF Lead
    <3>11. PICK A \in Nat, T \in Nat, F \in Int : A = s.age /\ T = s.rto /\ F = Lead(kcp.ts_flush)
      BY <1>3, SegmentIs
    <3>12. /\ T - Ahead <= A + S /\ A + S <= T + Back /\ F - S <= Interval - 1
           /\ A - T + wait <= Back + Interval + Retry - 2
           /\ Back = 0 => \/ A - T <= -wait
                          \/ F <= wait /\ A - T <= Retry + MaxLag - wait
      BY <3>5, <3>9, <3>11 DEF ResendPlan
    <3>13. /\ T - Ahead <= (A + 1) + (S - 1)
           /\ (A + 1) + (S - 1) <= T + Back
           /\ (F - 1) - (S - 1) <= Interval - 1
           /\ (A + 1) - T + (wait - 1) <= Back + Interval + Retry - 2
      BY <1>1, <1>3, <3>12
    <3>14. Back = 0 => \/ (A + 1) - T <= -(wait - 1)
                       \/ /\ F - 1 <= wait - 1
                          /\ (A + 1) - T <= Retry + MaxLag - (wait - 1)
      BY <1>1, <1>3, <3>12
    <3>15. ResendPlan(r)'
      BY <1>1, <1>5, <3>4, <3>8, <3>10, <3>11, <3>13, <3>14 DEF ResendPlan
    <3> QED BY <3>7, <3>15
  <2> QED BY <2>1 DEF Resends
<1>10. ProbePlan'
  <2>1. kcp'.rmt_wnd # 0 => asked' = 0
    BY <1>1, <1>2
  <2>2. asked' <= asked + 1 /\ asked' \in Nat
    BY <1>1, <1>3
  <2>3. ASSUME kcp.probe_wait = 0 PROVE asked' <= idle'
    <3>1. asked <= idle
      BY <2>3 DEF IInv, ProbePlan
    <3> QED BY <1>1, <1>3, <2>2, <3>1
  <2>4. ASSUME kcp.probe_wait # 0
        PROVE  /\ kcp.updated
               /\ Lead(kcp.ts_probe)' <= ProbeLimit + Back
               /\ Lead(kcp.ts_flush)' - Lead(kcp.ts_probe)' <= Interval - 1
               /\ asked' + Lead(kcp.ts_probe)' <= ProbeSpan + Back
               /\ asked' + wait' <= ProbeSpan + Back + Interval + Retry - 2
    <3>1. /\ kcp.updated
          /\ Lead(kcp.ts_probe) <= ProbeLimit + Back
          /\ Lead(kcp.ts_flush) - Lead(kcp.ts_probe) <= Interval - 1
          /\ asked + Lead(kcp.ts_probe) <= ProbeSpan + Back
          /\ asked + wait <= ProbeSpan + Back + Interval + Retry - 2
      BY <2>4 DEF IInv, ProbePlan
    <3>2. /\ Lead(kcp.ts_probe)' = Lead(kcp.ts_probe) - 1
          /\ Lead(kcp.ts_flush)' = Lead(kcp.ts_flush) - 1
      BY <1>4, <2>4, <3>1 DEF Nearer
    <3>3. ProbeLimit \in Nat /\ ProbeSpan \in Nat
      BY SpanIs, ProbeAssumption
    <3> QED BY <1>1, <1>3, <2>2, <3>1, <3>2, <3>3
  <2> QED BY <1>5, <1>6, <2>1, <2>3, <2>4 DEF ProbePlan
<1> QED BY <1>7, <1>8, <1>9, <1>10 DEF IInv

(***************************************************************************)
(* A step of the clock keeps the invariant.                                *)
(***************************************************************************)
LEMMA StepClockKeeps ==
  ASSUME Reach, IInv, Types', StepClock
  PROVE  IInv'
<1>0. Types
  BY DEF IInv
<1>1. /\ shift = 0 /\ shift' \in scn.steps /\ wall' = Later(wall, shift')
      /\ kcp' = kcp /\ wait' = wait /\ idle' = idle /\ asked' = asked /\ scn' = scn
  BY DEF StepClock
<1>2. PICK d \in Int : d = shift' /\ d \in scn.steps
  BY <1>0, <1>1, ScenarioIs DEF Types
<1>3. /\ Interval \in Nat /\ Retry \in Nat /\ MaxLag \in Nat /\ Wrap \in Nat
      /\ idle \in Nat /\ asked \in Nat /\ wait \in Int /\ -MaxLag <= wait
      /\ Lead(kcp.ts_flush) \in Int /\ Lead(kcp.ts_probe) \in Int
  BY <1>0, NumbersAre, PeriodIs
<1>4. Back = 0 /\ Ahead = 0
  BY <1>1 DEF Back, Ahead
<1>5. PICK b \in Nat, a \in Nat :
        /\ b = Back' /\ a = Ahead'
        /\ (d < 0 /\ b = -d /\ a = 0) \/ (0 <= d /\ b = 0 /\ a = d)
  <2>1. Back' = (IF d < 0 THEN -d ELSE 0) /\ Ahead' = (IF d > 0 THEN d ELSE 0)
    BY <1>2 DEF Back, Ahead
  <2>2. CASE d < 0
    BY <2>1, <2>2
  <2>3. CASE ~(d < 0)
    <3>1. Back' = 0 /\ Ahead' = d /\ 0 <= d
      BY <2>1, <2>3
    <3> QED BY <3>1
  <2> QED BY <2>2, <2>3
<1>6. /\ Back' = b /\ Ahead' = a /\ kcp' = kcp /\ wait' = wait /\ idle' = idle
       /\ asked' = asked
  BY <1>1, <1>5
<1>7. (d < 0 /\ b = -d /\ a = 0) \/ (0 <= d /\ b = 0 /\ a = d)
  BY <1>5
<1>8. Nearer(d)
  <2>1. PICK R \in Nat, P \in Nat : R = RtoMax * (scn.xmit + 1) /\ P = ProbeLimit
    BY <1>0, NumbersAre, RtoAssumption, ProbeAssumption, Times
  <2>2. /\ 2 * (FlushGap + d) < Wrap /\ 2 * (Interval - d) < Wrap
        /\ 2 * (P - d) < Wrap /\ 2 * (R - d) < Wrap
    BY <1>0, <1>2, <2>1 DEF Reach, Types
  <2>3. 2 * (Interval + Retry - 2 + Ahead - wait + d) < Wrap
    BY <1>3, <1>4, <2>2, GapIs
  <2>4. /\ 2 * (Interval + Back - d) < Wrap /\ 2 * (P + Back - d) < Wrap
        /\ 2 * (R + Back - d) < Wrap
    BY <1>3, <1>4, <2>2
  <2>5. SameTimes(kcp, kcp') /\ SameProbe(kcp, kcp')
    BY <1>1 DEF SameTimes, SameProbe
  <2> QED BY <1>1, <1>2, <2>1, <2>3, <2>4, <2>5, ClockMoves
<1>9. BeforeUpdate'
  BY <1>1 DEF IInv, BeforeUpdate
<1>10. FlushPlan'
  <2>1. CASE kcp.updated
    <3>1. PICK F \in Int, G \in Int : F = Lead(kcp.ts_flush) /\ G = Lead(kcp.ts_flush)' /\ G = F - d
      BY <1>3, <1>8, <2>1 DEF Nearer
    <3>2. /\ F - wait >= 1 - Retry /\ F + idle <= Interval
          /\ idle + wait <= Interval + Retry - 1
      <4>1. /\ F - wait >= 1 - Retry - 0 /\ F + idle <= Interval + 0
            /\ idle + wait <= Interval + Retry - 1 + 0
        BY <1>4, <2>1, <3>1 DEF IInv, FlushPlan
      <4> QED BY <1>3, <4>1
    <3>3. /\ G - wait >= 1 - Retry - a /\ G + idle <= Interval + b
          /\ idle + wait <= Interval + Retry - 1 + b
      <4>1. G = F - d
        BY <3>1
      <4> QED BY <1>3, <1>7, <3>2, <4>1
    <3> QED BY <1>6, <3>1, <3>2, <3>3 DEF FlushPlan
  <2> QED BY <1>1, <2>1 DEF FlushPlan
<1>11. Resends'
  <2>1. ASSUME NEW s \in Segment, OnWay(s)' PROVE Backoff(s)' /\ ResendPlan(s)'
    <3>1. OnWay(s) /\ Backoff(s) /\ ResendPlan(s)
      BY <1>1, <2>1 DEF IInv, Resends, OnWay
    <3>2. Backoff(s)'
      BY <1>1, <3>1 DEF Backoff
    <3>3. kcp.updated
      <4>1. kcp.snd_buf # <<>>
        BY <3>1 DEF OnWay
      <4> QED BY <4>1 DEF IInv, BeforeUpdate
    <3>4. PICK A \in Nat, T \in Nat, F \in Int, S \in Int :
            A = s.age /\ T = s.rto /\ F = Lead(kcp.ts_flush) /\ S = Lead(s.resendts)
      BY <1>0, <1>3, SegmentIs, DiffIs DEF Lead, Types
    <3>5. Lead(kcp.ts_flush)' = F - d /\ Lead(s.resendts)' = S - d
      BY <1>8, <3>1, <3>3, <3>4 DEF Nearer
    <3>6. /\ T - 0 <= A + S /\ A + S <= T + 0 /\ F - S <= Interval - 1
          /\ A - T + wait <= 0 + Interval + Retry - 2
          /\ A - T <= -wait \/ (F <= wait /\ A - T <= Retry + MaxLag - wait)
      BY <1>4, <3>1, <3>4 DEF ResendPlan
    <3>7. /\ T - a <= A + (S - d) /\ A + (S - d) <= T + b /\ (F - d) - (S - d) <= Interval - 1
          /\ A - T + wait <= b + Interval + Retry - 2
      BY <1>3, <1>7, <3>6
    <3>8. b = 0 => A - T <= -wait \/ (F - d <= wait /\ A - T <= Retry + MaxLag - wait)
      BY <1>3, <1>7, <3>6
    <3>9. ResendPlan(s)'
      BY <1>6, <3>4, <3>5, <3>7, <3>8 DEF ResendPlan
    <3> QED BY <3>2, <3>9
  <2> QED BY <2>1 DEF Resends
<1>12. ProbePlan'
  <2>1. ASSUME kcp.probe_wait # 0
        PROVE  /\ kcp.updated
               /\ Lead(kcp.ts_probe)' <= ProbeLimit + b
               /\ Lead(kcp.ts_flush)' - Lead(kcp.ts_probe)' <= Interval - 1
               /\ asked + Lead(kcp.ts_probe)' <= ProbeSpan + b
               /\ asked + wait <= ProbeSpan + b + Interval + Retry - 2
    <3>1. PICK P \in Nat, Z \in Nat, F \in Int, Q \in Int :
            P = ProbeLimit /\ Z = ProbeSpan /\ F = Lead(kcp.ts_flush) /\ Q = Lead(kcp.ts_probe)
      BY <1>3, SpanIs, ProbeAssumption
    <3>2. /\ kcp.updated /\ Q <= P + 0 /\ F - Q <= Interval - 1 /\ asked + Q <= Z + 0
          /\ asked + wait <= Z + 0 + Interval + Retry - 2
      BY <1>4, <2>1, <3>1 DEF IInv, ProbePlan
    <3>3. Lead(kcp.ts_probe)' = Q - d /\ Lead(kcp.ts_flush)' = F - d
      BY <1>8, <2>1, <3>1, <3>2 DEF Nearer
    <3>4. /\ Q - d <= P + b /\ (F - d) - (Q - d) <= Interval - 1 /\ asked + (Q - d) <= Z + b
          /\ asked + wait <= Z + b + Interval + Retry - 2
      BY <1>3, <1>7, <3>2
    <3> QED BY <3>1, <3>2, <3>3, <3>4
  <2> QED BY <1>6, <2>1 DEF IInv, ProbePlan
<1> QED BY <1>9, <1>10, <1>11, <1>12 DEF IInv

-----------------------------------------------------------------------------
(* kcpev_timer_repeat                                                      *)

(***************************************************************************)
(* A call of the timer without a flush keeps the invariant: no flush is    *)
(* due, so the plan lies ahead.                                            *)
(***************************************************************************)
LEMMA IdleKeeps ==
  ASSUME IInv, Types', IdleStep, wait <= 0, wait' \in 1..Retry,
         Sleeps(kcp', wall, wait'), UNCHANGED <<wall, shift, scn>>
  PROVE  IInv'
<1>0. Types
  BY DEF IInv
<1>1. /\ kcp'.updated = kcp.updated /\ kcp'.ts_flush = kcp.ts_flush /\ kcp'.snd_buf = kcp.snd_buf
      /\ kcp'.rmt_wnd = kcp.rmt_wnd /\ kcp'.probe_wait = kcp.probe_wait
      /\ kcp'.ts_probe = kcp.ts_probe /\ idle' = idle /\ asked' = asked /\ ~FlushDue(kcp, wall)
      /\ wall' = wall /\ shift' = shift /\ scn' = scn
  BY DEF IdleStep, Idled, SameProbe
<1>2. /\ Interval \in Nat /\ Retry \in Nat /\ MaxLag \in Nat /\ SlapMax \in Nat
      /\ 1 <= Interval /\ Interval <= Retry /\ 1 <= SlapMax
      /\ idle \in Nat /\ asked \in Nat /\ wait \in Int /\ -MaxLag <= wait
      /\ Back \in Nat /\ Ahead \in Nat
  BY <1>0, NumbersAre, PeriodIs, ShiftIs
<1>3. PICK F \in Int : F = Lead(kcp.ts_flush)
  BY <1>0, NumbersAre
<1>4. kcp.updated /\ 1 <= F /\ F <= SlapMax
  <2>1. kcp.ts_flush \in Time /\ kcp.updated \in BOOLEAN /\ wall \in Time
    BY <1>0, KcpIs DEF Types
  <2> QED BY <1>1, <1>3, <2>1, FlushDueView DEF Lead
<1>5. /\ Back' = Back /\ Ahead' = Ahead
      /\ Lead(kcp.ts_flush)' = F /\ Lead(kcp.ts_probe)' = Lead(kcp.ts_probe)
  BY <1>1, <1>3 DEF Back, Ahead, Lead
<1>6. PICK s \in Int : s = wait' /\ 1 <= s /\ s <= Retry
  BY <1>2
<1>7. 1 <= F /\ F <= SlapMax /\ 1 <= s /\ s <= Retry /\ F \in Int /\ s \in Int
  BY <1>4, <1>6
<1>8. /\ F + idle <= Interval + Back
      /\ idle + wait <= Interval + Retry - 1 + Back
      /\ \/ idle + wait <= Interval + Retry - 1
         \/ /\ F + idle <= FlushGap + SlapMax
            /\ idle + wait <= FlushGap + SlapMax + Retry - 1
  BY <1>3, <1>4 DEF IInv, FlushPlan
<1>9. BeforeUpdate'
  BY <1>1, <1>4 DEF BeforeUpdate
<1>10. FlushPlan'
  <2>1. F - s >= 1 - Retry - Ahead /\ idle + s <= Interval + Retry - 1 + Back
    BY <1>2, <1>7, <1>8
  <2>2. F + idle <= FlushGap + SlapMax /\ idle + s <= FlushGap + SlapMax + Retry - 1
    BY <1>2, <1>7, <1>8, GapIs
  <2> QED BY <1>1, <1>5, <1>6, <1>8, <2>1, <2>2 DEF FlushPlan
<1>11. Resends'
  <2>1. ASSUME NEW g \in Segment, OnWay(g)' PROVE Backoff(g)' /\ ResendPlan(g)'
    <3>1. OnWay(g) /\ Backoff(g) /\ ResendPlan(g)
      BY <1>1, <2>1 DEF IInv, Resends, OnWay
    <3>2. ~(wait' <= 0)
      BY <1>6
    <3>3. Backoff(g)'
      BY <1>1, <3>1, <3>2 DEF Backoff
    <3>4. PICK A \in Nat, T \in Nat, S \in Int :
            A = g.age /\ T = g.rto /\ S = Lead(g.resendts)
      BY <1>0, SegmentIs, DiffIs DEF Lead, Types
    <3>5. Lead(g.resendts)' = S
      BY <1>1, <3>4 DEF Lead
    <3>6. /\ T - Ahead <= A + S /\ A + S <= T + Back /\ F - S <= Interval - 1
          /\ Back = 0 => \/ A - T <= -wait
                         \/ F <= wait /\ A - T <= Retry + MaxLag - wait
      BY <1>3, <3>1, <3>4 DEF ResendPlan
    <3>7. A - T + s <= Back + Interval + Retry - 2
      BY <1>2, <1>7, <3>6
    <3>8. s = Retry \/ s <= S
      BY <1>1, <1>6, <3>1, <3>4 DEF Sleeps, OnWay, Lead
    <3>9. Back = 0 => A - T <= -s \/ (F <= s /\ A - T <= Retry + MaxLag - s)
      <4>1. CASE s = Retry
        <5>1. Back = 0 => A - T <= MaxLag /\ F <= Interval
          BY <1>2, <1>7, <1>8, <3>6
        <5> QED BY <1>2, <4>1, <5>1
      <4>2. CASE s <= S
        BY <1>2, <3>6, <4>2
      <4> QED BY <3>8, <4>1, <4>2
    <3>10. ResendPlan(g)'
      BY <1>5, <1>6, <3>4, <3>5, <3>6, <3>7, <3>9 DEF ResendPlan
    <3> QED BY <3>3, <3>10
  <2> QED BY <2>1 DEF Resends
<1>12. ProbePlan'
  <2>1. ASSUME kcp.probe_wait # 0
        PROVE  asked + s <= ProbeSpan + Back + Interval + Retry - 2
    <3>1. PICK Z \in Nat, Q \in Int : Z = ProbeSpan /\ Q = Lead(kcp.ts_probe)
      BY <1>0, NumbersAre, SpanIs
    <3>2. F - Q <= Interval - 1 /\ asked + Q <= Z + Back
      BY <1>3, <2>1, <3>1 DEF IInv, ProbePlan
    <3>3. asked + s <= Z + Back + Interval + Retry - 2
      BY <1>2, <1>7, <3>2
    <3> QED BY <3>1, <3>3
  <2> QED BY <1>1, <1>3, <1>5, <1>6, <2>1 DEF IInv, ProbePlan
<1> QED BY <1>9, <1>10, <1>11, <1>12 DEF IInv

(***************************************************************************)
(* What ikcp_flush does to the probe: none is needed, the first is         *)
(* scheduled, one is sent and the next scheduled, or one is scheduled and  *)
(* not yet due.                                                            *)
(***************************************************************************)
Unprobed(k, p)  == k.rmt_wnd # 0 /\ ~ProbeDue(k) /\ p.probe_wait = 0

Scheduled(k, p) ==
  /\ k.rmt_wnd = 0 /\ k.probe_wait = 0 /\ ~ProbeDue(k)
  /\ p.probe_wait = ProbeInit /\ p.ts_probe = Later(k.current, ProbeInit)

Probed(k, p) ==
  /\ ProbeDue(k)
  /\ \E v \in 1..ProbeLimit : p.probe_wait = v /\ p.ts_probe = Later(k.current, v)

Unasked(k, p) ==
  k.rmt_wnd = 0 /\ k.probe_wait # 0 /\ ~ProbeDue(k) /\ SameProbe(k, p)

(***************************************************************************)
(* One of the four happens.                                                *)
(***************************************************************************)
LEMMA ProbeCases ==
  ASSUME NEW k \in KcpRec(Segment)
  PROVE  \/ Unprobed(k, Probe(k)) \/ Scheduled(k, Probe(k))
         \/ Probed(k, Probe(k)) \/ Unasked(k, Probe(k))
<1>1. k.probe_wait \in Nat /\ k.rmt_wnd \in {0, SndWnd}
  BY KcpIs
<1> DEFINE m == Max({k.probe_wait, ProbeInit})
           grown == m + m \div 2
           w == IF k.probe_wait = 0 THEN ProbeInit
                ELSE IF grown > ProbeLimit THEN ProbeLimit ELSE grown
<1>2. m \in Nat /\ m >= 1
  <2>1. PICK x \in Nat, y \in Nat : x = k.probe_wait /\ y = ProbeInit /\ y >= 1
    BY <1>1, ProbeAssumption
  <2>2. PICK S : S = {x, y}
    OBVIOUS
  <2>3. Max(S) \in Nat /\ Max(S) >= y
    BY <2>2, MaxNat
  <2> QED BY <2>1, <2>2, <2>3
<1> HIDE DEF m
<1>3. grown \in Nat /\ grown >= 1
  BY <1>2
<1> HIDE DEF grown
<1>4. w \in 1..ProbeLimit
  BY <1>3, ProbeAssumption
<1>5. CASE k.rmt_wnd # 0
  <2>1. Probe(k) = [k EXCEPT !.ts_probe = 0, !.probe_wait = 0]
    BY <1>5 DEF Probe
  <2>2. Probe(k).probe_wait = 0
    BY <2>1 DEF KcpRec
  <2> QED BY <1>5, <2>2 DEF Unprobed, ProbeDue
<1>6. CASE k.rmt_wnd = 0 /\ (k.probe_wait = 0 \/ ProbeDue(k))
  <2>1. Probe(k) = [k EXCEPT !.probe_wait = w, !.ts_probe = Later(k.current, w)]
    BY <1>6 DEF Probe, w, grown, m
  <2>2. k.probe_wait = 0 => w = ProbeInit
    OBVIOUS
  <2> HIDE DEF w
  <2>3. Probe(k).probe_wait = w /\ Probe(k).ts_probe = Later(k.current, w)
    BY <2>1 DEF KcpRec
  <2>4. CASE k.probe_wait = 0
    BY <1>6, <2>2, <2>3, <2>4 DEF Scheduled, ProbeDue
  <2>5. CASE ~(k.probe_wait = 0)
    BY <1>4, <1>6, <2>3, <2>5 DEF Probed
  <2> QED BY <2>4, <2>5
<1>7. CASE k.rmt_wnd = 0 /\ ~(k.probe_wait = 0 \/ ProbeDue(k))
  <2>1. Probe(k) = k
    BY <1>7 DEF Probe
  <2> QED BY <1>7, <2>1 DEF Unasked, SameProbe
<1> QED BY <1>5, <1>6, <1>7

(***************************************************************************)
(* A time that has come, or not, as the code finds out.                    *)
(***************************************************************************)
LEMMA DueView ==
  ASSUME NEW t \in Time, NEW w \in Time
  PROVE  /\ Diff(w, t) >= 0 => Diff(t, w) <= 0
         /\ ~(Diff(w, t) >= 0) /\ -Wrap < 2 * Diff(t, w) => 1 <= Diff(t, w)
<1>1. PICK d \in Int : d = Diff(w, t) /\ -Wrap <= 2 * d /\ 2 * d < Wrap
  BY DiffIs
<1>2. PICK l \in Int : l = Diff(t, w)
  BY DiffIs
<1>3. (-Wrap < 2 * d => l = -d) /\ (-Wrap = 2 * d => l = d)
  BY <1>1, <1>2, DiffTurns
<1>4. /\ d >= 0 => l <= 0
      /\ ~(d >= 0) /\ -Wrap < 2 * l => 1 <= l
  BY <1>1, <1>3, PeriodIs
<1> QED BY <1>1, <1>2, <1>4

(***************************************************************************)
(* A time in kcp that has not come lies ahead.                             *)
(***************************************************************************)
LEMMA NotYet ==
  ASSUME Reach, IInv, NEW t \in Time, Pending(t), ~(Diff(wall, t) >= 0)
  PROVE  1 <= Lead(t)
<1>0. Types /\ wall \in Time
  BY DEF IInv, Types
<1>1. /\ Lead(t) \in Int /\ wait \in Int /\ -MaxLag <= wait /\ Ahead \in Nat
      /\ Interval \in Nat /\ Retry \in Nat /\ Wrap \in Nat /\ MaxLag \in Nat
  BY <1>0, NumbersAre, ShiftIs, PeriodIs, DiffIs DEF Lead
<1>2. 2 - Interval - Retry - Ahead + wait <= Lead(t)
  BY LeadsNear
<1>3. 2 * (FlushGap + Ahead) < Wrap
  BY <1>0, ReachIs
<1>4. -Wrap < 2 * Lead(t)
  BY <1>1, <1>2, <1>3, GapIs
<1> QED BY <1>0, <1>4, DueView DEF Lead

(***************************************************************************)
(* The plan a flush leaves a segment with.                                 *)
(***************************************************************************)
Ready(seg) ==
  /\ 1 <= seg.rto /\ seg.rto <= RtoMax * seg.xmit /\ seg.xmit <= scn.xmit + 1
  /\ seg.rto - Ahead <= seg.age + Lead(seg.resendts)
  /\ seg.age + Lead(seg.resendts) <= seg.rto + Back
  /\ 1 <= Lead(seg.resendts)

(***************************************************************************)
(* A segment that has just been sent has such a plan.                      *)
(***************************************************************************)
LEMMA SentIsReady ==
  ASSUME Reach, Types, NEW r \in Segment, 1 <= r.rto, r.rto <= RtoMax * r.xmit,
         r.xmit <= scn.xmit + 1,
         r.age = 0, r.resendts = Later(wall, r.rto)
  PROVE  Ready(r)
<1>1. PICK x \in Nat, y \in Nat, T \in Nat : x = r.xmit /\ y = scn.xmit + 1 /\ x <= y /\ T = r.rto
  BY SegmentIs, NumbersAre
<1>2. PICK c \in Nat : c = RtoMax
  BY RtoAssumption
<1>3. c * x <= c * y /\ c * x \in Nat /\ c * y \in Nat
  BY <1>1, Times
<1>4. PICK u \in Nat, v \in Nat : u = c * x /\ v = c * y /\ u <= v
  BY <1>3
<1>5. T <= u /\ 1 <= T
  BY <1>1, <1>2, <1>4
<1>6. 2 * (v + Back) < Wrap
  BY <1>1, <1>2, <1>4, ReachIs
<1>7. 2 * T < Wrap /\ -Wrap < 2 * T
  BY <1>4, <1>5, <1>6, ShiftIs, PeriodIs
<1>8. Lead(r.resendts) = T
  <2>1. wall \in Time /\ T \in Int
    BY DEF Types
  <2> QED BY <1>1, <1>7, <2>1, DiffLead DEF Lead
<1>9. T - Ahead <= 0 + T /\ 0 + T <= T + Back
  BY ShiftIs
<1> QED BY <1>1, <1>5, <1>8, <1>9 DEF Ready

(***************************************************************************)
(* After a flush every segment has such a plan: none is due.               *)
(***************************************************************************)
LEMMA FlushedIsReady ==
  ASSUME Reach, IInv, FlushStep, wait <= 0, Types', NEW r \in Segment, OnWay(r)'
  PROVE  Ready(r)
<1>0. Types /\ wall \in Time /\ kcp \in KcpRec(Segment) /\ Room(kcp)
  BY DEF IInv, Types
<1>1. PICK p : p = Planned(kcp, wall)
  OBVIOUS
<1>2. kcp.ts_flush \in Time /\ kcp.updated \in BOOLEAN /\ kcp.snd_buf \in Seq(Segment)
  BY <1>0, KcpIs
<1>3. NextFlush(kcp, wall) \in Time
  BY <1>0, <1>2, NextFlushView DEF FlushStep
<1>4. p.current = wall /\ p.snd_buf = kcp.snd_buf
  BY <1>0, <1>1, <1>3, PlannedView
<1>5. PICK j \in 1..Len(kcp'.snd_buf) : r = kcp'.snd_buf[j]
  BY DEF OnWay
<1>6. Flushed(p, kcp')
  BY <1>1 DEF FlushStep
<1>7. PICK c \in Nat : c = RtoMax /\ RtoMin >= 1
  BY RtoAssumption
<1>8. scn.xmit \in Nat
  BY <1>0, NumbersAre
<1>9. CASE j \in 1..Len(kcp.snd_buf)
  <2>1. PICK g \in Segment : g = kcp.snd_buf[j]
    BY <1>0, <1>9, KcpIs
  <2>2. OnWay(g) /\ Backoff(g) /\ ResendPlan(g)
    BY <1>9, <2>1 DEF IInv, Resends, OnWay
  <2>3. Resent(p, g, r) \/ Unsent(p, g, r)
    BY <1>4, <1>5, <1>6, <1>9, <2>1 DEF Flushed
  <2>4. /\ 1 <= g.rto /\ g.rto <= c * g.xmit /\ g.xmit < scn.xmit
        /\ g.rto \in Nat /\ g.xmit \in Nat /\ g.xmit # 0
    BY <1>7, <2>2, SegmentIs DEF Backoff
  <2>5. CASE Resent(p, g, r)
    <3>1. PICK rto \in Nat :
            /\ SentAt(r, g, wall, rto)
            /\ (RtoMin <= rto /\ rto <= RtoMax) \/ (g.rto <= rto /\ rto <= g.rto + RtoMax)
      BY <1>4, <2>5 DEF Resent
    <3>2. r.rto = rto /\ r.resendts = Later(wall, rto) /\ r.age = 0 /\ r.xmit = g.xmit + 1
      BY <3>1 DEF SentAt
    <3>3. PICK x \in Nat, u \in Nat : x = g.xmit /\ u = c * x /\ g.rto <= u
      BY <2>4, Times
    <3>4. u + c = c * (x + 1)
      BY <3>3, Times
    <3>5. 1 <= rto /\ rto <= u + c
      BY <1>7, <2>4, <3>1, <3>3, RtoAssumption
    <3>6. x + 1 <= scn.xmit + 1
      BY <1>8, <2>4, <3>3
    <3>7. 1 <= r.rto /\ r.rto <= RtoMax * r.xmit /\ r.xmit <= scn.xmit + 1
      BY <1>7, <3>2, <3>3, <3>4, <3>5, <3>6
    <3> QED BY <1>0, <3>2, <3>7, SentIsReady
  <2>6. CASE Unsent(p, g, r)
    <3>1. r = g /\ ~TimedOut(p, g) /\ g.xmit > 0
      BY <2>6 DEF Unsent
    <3>2. ~(Diff(wall, g.resendts) >= 0)
      BY <1>4, <3>1 DEF TimedOut
    <3>3. PICK t \in Time : t = g.resendts /\ Pending(t)
      BY <2>2, SegmentIs DEF Pending
    <3>4. 1 <= Lead(t)
      BY <3>2, <3>3, NotYet
    <3> QED BY <2>2, <3>1, <3>3, <3>4 DEF Ready, Backoff, ResendPlan
  <2> QED BY <2>3, <2>5, <2>6
<1>10. CASE ~(j \in 1..Len(kcp.snd_buf))
  <2>1. j > Len(p.snd_buf)
    BY <1>0, <1>4, <1>10, KcpIs
  <2>2. Fresh(p, r)
    BY <1>5, <1>6, <2>1 DEF Flushed
  <2>3. /\ RtoMin <= r.rto /\ r.rto <= RtoMax /\ r.xmit = 1 /\ r.age = 0
        /\ r.resendts = Later(wall, r.rto)
    BY <1>4, <2>2 DEF Fresh
  <2>4. c * 1 = c
    BY Times
  <2>5. 1 <= r.rto /\ r.rto <= RtoMax * r.xmit /\ r.xmit <= scn.xmit + 1
    BY <1>7, <1>8, <2>3, <2>4, SegmentIs, RtoAssumption
  <2> QED BY <1>0, <2>3, <2>5, SentIsReady
<1> QED BY <1>9, <1>10

(***************************************************************************)
(* How long ago the last flush was.                                        *)
(***************************************************************************)
LEMMA IdleIs ==
  ASSUME IInv
  PROVE  idle <= FlushGap + Back
<1>0. Types
  BY DEF IInv
<1>1. /\ Interval \in Nat /\ Retry \in Nat /\ MaxLag \in Nat /\ 1 <= Interval
      /\ idle \in Nat /\ wait \in Int /\ -MaxLag <= wait /\ Back \in Nat
  BY <1>0, NumbersAre, PeriodIs, ShiftIs
<1>2. CASE kcp.updated
  <2>1. idle + wait <= Interval + Retry - 1 + Back
    BY <1>2 DEF IInv, FlushPlan
  <2> QED BY <1>1, <2>1, GapIs
<1>3. CASE ~kcp.updated
  <2>1. idle + wait <= Retry
    BY <1>3 DEF IInv, BeforeUpdate
  <2> QED BY <1>1, <2>1, GapIs
<1> QED BY <1>2, <1>3

(***************************************************************************)
(* An arithmetical fact for the probe.                                     *)
(***************************************************************************)
LEMMA SumIs ==
  ASSUME NEW a \in Nat, NEW v \in Int, NEW s \in Int, NEW z \in Nat, NEW b \in Nat,
         1 <= v, a + v <= z + b, s <= Retry
  PROVE  a + s <= z + b + Interval + Retry - 2
BY PeriodIs

(***************************************************************************)
(* ProbePlan after a flush, which leaves the next one planned F ahead and  *)
(* the timer set to s.                                                     *)
(***************************************************************************)
LEMMA FlushedProbe ==
  ASSUME Reach, IInv, FlushStep, UNCHANGED <<wall, shift, scn>>,
         NEW F \in Int, F = Lead(kcp.ts_flush)', F <= Interval,
         NEW s \in Int, s = wait', s <= Retry
  PROVE  ProbePlan'
<1>0. Types /\ wall \in Time /\ kcp \in KcpRec(Segment) /\ Room(kcp)
  BY DEF IInv, Types
<1>1. PICK p : p = Planned(kcp, wall)
  OBVIOUS
<1>2. kcp.ts_flush \in Time /\ kcp.updated \in BOOLEAN
  BY <1>0, KcpIs
<1>3. NextFlush(kcp, wall) \in Time
  BY <1>0, <1>2, NextFlushView DEF FlushStep
<1>4. /\ p \in KcpRec(Segment) /\ p.current = wall /\ p.rmt_wnd = kcp.rmt_wnd
      /\ p.probe_wait = kcp.probe_wait /\ p.ts_probe = kcp.ts_probe
  BY <1>0, <1>1, <1>3, PlannedView DEF SameProbe
<1>5. /\ kcp'.rmt_wnd = kcp.rmt_wnd /\ idle' = 0
      /\ kcp'.probe_wait = Probe(p).probe_wait /\ kcp'.ts_probe = Probe(p).ts_probe
      /\ asked' = IF ProbeDue(p) THEN 0 ELSE asked
  BY <1>1, <1>4 DEF FlushStep, Flushed, SameProbe
<1>6. kcp'.updated
  <2>1. p.updated
    BY <1>0, <1>1, <1>3, PlannedView
  <2> QED BY <1>1, <2>1 DEF FlushStep, Flushed, SameTimes
<1>7. /\ Interval \in Nat /\ Retry \in Nat /\ 1 <= Interval /\ idle \in Nat /\ asked \in Nat
      /\ Back \in Nat /\ FlushGap \in Nat
  BY <1>0, NumbersAre, PeriodIs, ShiftIs, GapIs
<1>8. PICK P \in Nat, I \in Nat, Z \in Nat :
        /\ P = ProbeLimit /\ I = ProbeInit /\ Z = ProbeSpan
        /\ 1 <= I /\ I <= P /\ I + FlushGap <= Z /\ P <= Z
  BY SpanIs, ProbeAssumption
<1>9. PICK G \in Nat, B \in Nat : G = FlushGap /\ B = Back
  BY <1>7
<1>10. 1 <= I /\ I <= P /\ I + G <= Z /\ P <= Z /\ s <= Retry
  BY <1>8, <1>9
<1>11. Interval \in Nat /\ Retry \in Nat /\ 1 <= Interval
  BY <1>7
<1>12. 2 * P < Wrap /\ 0 <= Wrap
  <2>1. 2 * (P + Back) < Wrap
    BY <1>0, <1>8, ReachIs
  <2> QED BY <1>7, <2>1, PeriodIs
<1>13. Back' = Back
  BY DEF Back
<1>14. ASSUME NEW v \in Int, 1 <= v, v <= P + Back, asked' \in Nat, asked' + v <= Z + Back,
              asked' + s <= Z + Back + Interval + Retry - 2,
              Lead(kcp.ts_probe)' = v, kcp'.probe_wait # 0, kcp'.rmt_wnd = 0
       PROVE  ProbePlan'
  <2>1. F - v <= Interval - 1
    BY <1>7, <1>14
  <2> QED BY <1>8, <1>13, <1>14, <1>6, <2>1 DEF ProbePlan
<1>15. ASSUME NEW v \in 1..P, kcp'.ts_probe = Later(wall, v) PROVE Lead(kcp.ts_probe)' = v
  <2>1. v \in Int /\ 2 * v < Wrap /\ -Wrap < 2 * v
    <3>1. v \in Int /\ 1 <= v /\ v <= P
      OBVIOUS
    <3> QED BY <1>12, <3>1, PeriodIs
  <2>2. Diff(Later(wall, v), wall) = v
    BY <1>0, <2>1, DiffLead
  <2> QED BY <1>15, <2>2 DEF Lead
<1>16. CASE Unprobed(p, Probe(p))
  <2>1. kcp.rmt_wnd # 0 /\ asked' = asked /\ kcp'.probe_wait = 0
    BY <1>4, <1>5, <1>16 DEF Unprobed
  <2>2. asked = 0
    BY <2>1 DEF IInv, ProbePlan
  <2> QED BY <1>5, <2>1, <2>2 DEF ProbePlan
<1>17. CASE Scheduled(p, Probe(p))
  <2>1. /\ kcp.rmt_wnd = 0 /\ asked' = asked /\ kcp.probe_wait = 0
        /\ kcp'.probe_wait = I /\ kcp'.ts_probe = Later(wall, I)
    BY <1>4, <1>5, <1>8, <1>17 DEF Scheduled
  <2>2. asked <= idle
    BY <2>1 DEF IInv, ProbePlan
  <2>3. asked <= FlushGap + Back
    BY <1>7, <2>2, IdleIs
  <2>4. I \in 1..P
    BY <1>8
  <2>5. Lead(kcp.ts_probe)' = I
    BY <1>15, <2>1, <2>4
  <2>6. /\ I <= P + Back /\ asked + I <= Z + Back
        /\ asked + s <= Z + Back + Interval + Retry - 2
    <3>1. asked <= G + B /\ asked \in Nat
      BY <1>7, <1>9, <2>3
    <3>2. I <= P + B /\ asked + I <= Z + B
      BY <1>10, <3>1
    <3>3. asked + s <= Z + B + Interval + Retry - 2
      <4>1. I \in Int /\ 1 <= I /\ asked + I <= Z + B /\ asked \in Nat /\ s <= Retry
        BY <1>10, <3>1, <3>2
      <4> QED BY <4>1, SumIs, Zenon
    <3> QED BY <1>9, <3>2, <3>3
  <2>7. I # 0 /\ 1 <= I /\ I \in Int
    BY <1>10
  <2> QED BY <1>5, <1>7, <1>14, <2>1, <2>5, <2>6, <2>7
<1>18. CASE Probed(p, Probe(p))
  <2>1. PICK v \in 1..P : kcp'.probe_wait = v /\ kcp'.ts_probe = Later(wall, v)
    BY <1>4, <1>5, <1>8, <1>18 DEF Probed
  <2>2. asked' = 0 /\ kcp.rmt_wnd = 0
    BY <1>4, <1>5, <1>18 DEF Probed, ProbeDue
  <2>3. Lead(kcp.ts_probe)' = v
    BY <1>15, <2>1
  <2>4. /\ v \in Int /\ 1 <= v /\ v <= P + Back /\ 0 + v <= Z + Back /\ v # 0
        /\ 0 + s <= Z + Back + Interval + Retry - 2
    <3>1. v \in Int /\ 1 <= v /\ v <= P
      OBVIOUS
    <3>2. v <= P + B /\ 0 + v <= Z + B /\ v # 0
      BY <1>10, <3>1
    <3>3. 0 + s <= Z + B + Interval + Retry - 2
      BY <1>10, <3>1, <3>2, SumIs
    <3> QED BY <1>9, <3>1, <3>2, <3>3
  <2> QED BY <1>5, <1>14, <2>1, <2>2, <2>3, <2>4
<1>19. CASE Unasked(p, Probe(p))
  <2>1. /\ kcp.rmt_wnd = 0 /\ asked' = asked /\ kcp.probe_wait # 0 /\ ~ProbeDue(p)
        /\ kcp'.probe_wait = kcp.probe_wait /\ kcp'.ts_probe = kcp.ts_probe
    BY <1>4, <1>5, <1>19 DEF Unasked, SameProbe
  <2>2. PICK t \in Time : t = kcp.ts_probe /\ Pending(t)
    BY <1>0, <2>1, KcpIs DEF Pending
  <2>3. ~(Diff(wall, t) >= 0)
    BY <1>4, <2>1, <2>2 DEF ProbeDue
  <2>4. PICK v \in Int : v = Lead(t) /\ 1 <= v
    BY <1>0, <2>2, <2>3, NotYet, DiffIs DEF Lead
  <2>5. v <= P + Back /\ asked + v <= Z + Back
    BY <1>8, <2>1, <2>2, <2>4 DEF IInv, ProbePlan
  <2>6. asked + s <= Z + Back + Interval + Retry - 2
    <3>1. 1 <= v /\ asked + v <= Z + B /\ asked \in Nat
      BY <1>7, <1>9, <2>4, <2>5
    <3>2. asked + s <= Z + B + Interval + Retry - 2
      BY <1>10, <3>1, SumIs
    <3> QED BY <1>9, <3>2
  <2>7. Lead(kcp.ts_probe)' = v
    BY <2>1, <2>2, <2>4 DEF Lead
  <2> QED BY <1>5, <1>7, <1>14, <2>1, <2>4, <2>5, <2>6, <2>7
<1> QED BY <1>4, <1>16, <1>17, <1>18, <1>19, ProbeCases

(***************************************************************************)
(* A call of the timer with a flush keeps the invariant.                   *)
(***************************************************************************)
LEMMA FlushKeeps ==
  ASSUME Reach, IInv, Types', FlushStep, wait <= 0, wait' \in 1..Retry,
         Sleeps(kcp', wall, wait'), UNCHANGED <<wall, shift, scn>>
  PROVE  IInv'
<1>0. Types /\ wall \in Time /\ kcp \in KcpRec(Segment) /\ Room(kcp)
  BY DEF IInv, Types
<1>1. PICK p : p = Planned(kcp, wall)
  OBVIOUS
<1>2. kcp.ts_flush \in Time /\ kcp.updated \in BOOLEAN
  BY <1>0, KcpIs
<1>3. /\ NextFlush(kcp, wall) \in Time
      /\ 1 <= Diff(NextFlush(kcp, wall), wall) /\ Diff(NextFlush(kcp, wall), wall) <= Interval
  BY <1>0, <1>2, NextFlushView DEF FlushStep
<1>4. p.updated /\ p.ts_flush = NextFlush(kcp, wall)
  BY <1>0, <1>1, <1>3, PlannedView
<1>5. /\ kcp'.updated /\ kcp'.ts_flush = NextFlush(kcp, wall) /\ idle' = 0
      /\ wall' = wall /\ scn' = scn
  BY <1>1, <1>4 DEF FlushStep, Flushed, SameTimes
<1>6. PICK F \in Int : F = Lead(kcp.ts_flush)'
  BY <1>0, <1>3, <1>5, DiffIs DEF Lead
<1>7. 1 <= F /\ F <= Interval
  BY <1>3, <1>5, <1>6 DEF Lead
<1>8. PICK s \in Int : s = wait'
  BY PeriodIs
<1>9. 1 <= s /\ s <= Retry
  BY <1>8, PeriodIs
<1>10. /\ Interval \in Nat /\ Retry \in Nat /\ 1 <= Interval /\ Interval <= Retry
       /\ Back \in Nat /\ Ahead \in Nat /\ MaxLag \in Nat
  BY <1>0, PeriodIs, ShiftIs
<1>11. Back' = Back /\ Ahead' = Ahead
  BY DEF Back, Ahead
<1>12. BeforeUpdate'
  BY <1>5 DEF BeforeUpdate
<1>13. FlushPlan'
  <2>1. /\ F - s >= 1 - Retry - Ahead /\ F + 0 <= Interval + Back
        /\ 0 + s <= Interval + Retry - 1 + Back /\ 0 + s <= Interval + Retry - 1
    BY <1>7, <1>9, <1>10
  <2> QED BY <1>5, <1>6, <1>8, <1>11, <2>1 DEF FlushPlan
<1>14. Resends'
  <2>1. ASSUME NEW r \in Segment, OnWay(r)' PROVE Backoff(r)' /\ ResendPlan(r)'
    <3>1. Ready(r)
      BY <2>1, FlushedIsReady
    <3>2. ~(wait' <= 0)
      BY <1>8, <1>9
    <3>3. Backoff(r)'
      BY <1>5, <3>1, <3>2 DEF Ready, Backoff
    <3>4. PICK A \in Nat, T \in Nat, S \in Int :
            A = r.age /\ T = r.rto /\ S = Lead(r.resendts)
      BY <1>0, SegmentIs, DiffIs DEF Lead
    <3>5. T - Ahead <= A + S /\ A + S <= T + Back /\ 1 <= S
      BY <3>1, <3>4 DEF Ready
    <3>6. Lead(r.resendts)' = S
      BY <1>5, <3>4 DEF Lead
    <3>7. F - S <= Interval - 1 /\ A - T + s <= Back + Interval + Retry - 2
      BY <1>7, <1>9, <1>10, <3>5
    <3>8. s = Retry \/ s <= S
      <4>1. PICK j \in 1..Len(kcp'.snd_buf) : r = kcp'.snd_buf[j]
        BY <2>1 DEF OnWay
      <4> QED BY <1>8, <3>4, <4>1 DEF Sleeps, Lead
    <3>9. Back = 0 => A - T <= -s \/ (F <= s /\ A - T <= Retry + MaxLag - s)
      BY <1>7, <1>9, <1>10, <3>5, <3>8
    <3>10. ResendPlan(r)'
      BY <1>6, <1>8, <1>11, <3>4, <3>5, <3>6, <3>7, <3>9 DEF ResendPlan
    <3> QED BY <3>3, <3>10
  <2> QED BY <2>1 DEF Resends
<1>15. ProbePlan'
  BY <1>5, <1>6, <1>7, <1>8, <1>9, FlushedProbe
<1> QED BY <1>12, <1>13, <1>14, <1>15 DEF IInv

-----------------------------------------------------------------------------
(* The theorems                                                            *)

(***************************************************************************)
(* The invariant holds initially.                                          *)
(***************************************************************************)
LEMMA InitIInv ==
  ASSUME Init
  PROVE  IInv
<1>0. Types
  BY InitTypes
<1>1. /\ kcp = Created /\ wait = Retry /\ idle = 0 /\ asked = 0
  BY DEF Init
<1>2. ~kcp.updated /\ kcp.snd_buf = <<>> /\ kcp.probe_wait = 0
  BY <1>1, CreatedView
<1>3. idle + wait <= Retry /\ asked <= idle
  BY <1>1, PeriodIs
<1>4. BeforeUpdate /\ FlushPlan /\ ProbePlan
  BY <1>1, <1>2, <1>3 DEF BeforeUpdate, FlushPlan, ProbePlan
<1>5. Resends
  <2>1. Len(kcp.snd_buf) = 0
    BY <1>2
  <2>2. \A seg \in Segment : ~OnWay(seg)
    BY <2>1 DEF OnWay
  <2> QED BY <2>2 DEF Resends
<1> QED BY <1>0, <1>4, <1>5 DEF IInv

(***************************************************************************)
(* The invariant is kept by every step.                                    *)
(***************************************************************************)
LEMMA NextIInv ==
  ASSUME Reach, IInv, [Next]_vars
  PROVE  IInv'
<1>0. Types /\ Types'
  BY NextTypes DEF IInv
<1>1. CASE Send
  BY <1>0, <1>1, SendKeeps
<1>2. CASE Input
  BY <1>0, <1>2, InputKeeps
<1>3. CASE TimerRepeat
  <2>1. /\ wait <= 0 /\ wait' \in 1..Retry /\ Sleeps(kcp', wall, wait')
        /\ IdleStep \/ FlushStep
        /\ UNCHANGED <<wall, shift, scn>>
    BY <1>0, <1>3, TimerView
  <2>2. CASE IdleStep
    BY <1>0, <2>1, <2>2, IdleKeeps
  <2>3. CASE FlushStep
    BY <1>0, <2>1, <2>3, FlushKeeps
  <2> QED BY <2>1, <2>2, <2>3
<1>4. CASE Tick
  BY <1>0, <1>4, TickKeeps
<1>5. CASE StepClock
  BY <1>0, <1>5, StepClockKeeps
<1>6. CASE UNCHANGED vars
  <2>1. /\ wall' = wall /\ kcp' = kcp /\ wait' = wait /\ idle' = idle /\ asked' = asked
        /\ shift' = shift /\ scn' = scn
    BY <1>6 DEF vars
  <2>2. Quiet
    BY <2>1 DEF Quiet, SameTimes, SameProbe
  <2>3. kcp'.rmt_wnd # 0 => asked' = 0
    BY <2>1 DEF IInv, ProbePlan
  <2>4. \A j \in 1..Len(kcp'.snd_buf) : \E l \in 1..Len(kcp.snd_buf) :
          SameSegment(kcp.snd_buf[l], kcp'.snd_buf[j])
    BY <2>1 DEF SameSegment
  <2> QED BY <1>0, <2>1, <2>2, <2>3, <2>4, QuietStep
<1> QED BY <1>1, <1>2, <1>3, <1>4, <1>5, <1>6 DEF Next

(***************************************************************************)
(* The invariant implies FlushOnTime.                                      *)
(***************************************************************************)
LEMMA FlushBound ==
  ASSUME IInv
  PROVE  FlushOnTime
<1>0. Types
  BY DEF IInv
<1>1. /\ Interval \in Nat /\ Retry \in Nat /\ MaxLag \in Nat /\ SlapMax \in Nat /\ 1 <= Interval
      /\ idle \in Nat /\ wait \in Int /\ -MaxLag <= wait /\ 1 <= Retry
  BY <1>0, NumbersAre, PeriodIs
<1>2. PICK b \in Nat, c \in Nat, g \in Nat :
        b = Back /\ c = SlapMax + Retry - 1 + MaxLag /\ g = FlushGap
  BY <1>0, <1>1, ShiftIs, GapIs
<1>3. idle <= g + b
  BY <1>2, IdleIs
<1>4. idle <= g + c
  <2>1. CASE kcp.updated
    <3>1. \/ idle + wait <= Interval + Retry - 1
          \/ idle + wait <= FlushGap + SlapMax + Retry - 1
      BY <2>1 DEF IInv, FlushPlan
    <3> QED BY <1>1, <1>2, <3>1, GapIs
  <2>2. CASE ~kcp.updated
    <3>1. idle + wait <= Retry
      BY <2>2 DEF IInv, BeforeUpdate
    <3> QED BY <1>1, <1>2, <3>1, GapIs
  <2> QED BY <2>1, <2>2
<1>5. Min({b, c}) = b \/ Min({b, c}) = c
  <2>1. PICK S : S = {b, c}
    OBVIOUS
  <2> QED BY <2>1, MinPair
<1>6. StepDelay = b \/ StepDelay = c
  BY <1>2, <1>5 DEF StepDelay
<1> QED BY <1>2, <1>3, <1>4, <1>6 DEF FlushOnTime

(***************************************************************************)
(* The invariant implies RetransmitOnTime.                                 *)
(***************************************************************************)
LEMMA RetransmitBound ==
  ASSUME IInv
  PROVE  RetransmitOnTime
<1>0. Types
  BY DEF IInv
<1>1. /\ Interval \in Nat /\ Retry \in Nat /\ MaxLag \in Nat
      /\ wait \in Int /\ -MaxLag <= wait /\ Back \in Nat
  BY <1>0, NumbersAre, PeriodIs, ShiftIs
<1>2. ASSUME NEW j \in DOMAIN kcp.snd_buf
      PROVE  /\ kcp.snd_buf[j].age < kcp.snd_buf[j].rto + FlushGap + Back
             /\ Back = 0 => kcp.snd_buf[j].age <= kcp.snd_buf[j].rto + Retry + 2 * MaxLag
  <2>1. PICK s \in Segment : s = kcp.snd_buf[j] /\ OnWay(s)
    BY <1>0, <1>2, KcpIs DEF Types, OnWay
  <2>2. ResendPlan(s)
    BY <2>1 DEF IInv, Resends
  <2>3. PICK A \in Nat, T \in Nat : A = s.age /\ T = s.rto
    BY SegmentIs
  <2>4. /\ A - T + wait <= Back + Interval + Retry - 2
        /\ Back = 0 => A - T <= -wait \/ A - T <= Retry + MaxLag - wait
    BY <2>2, <2>3 DEF ResendPlan
  <2>5. A < T + FlushGap + Back
    BY <1>1, <2>4, GapIs
  <2>6. Back = 0 => A <= T + Retry + 2 * MaxLag
    BY <1>1, <2>4
  <2> QED BY <2>1, <2>3, <2>5, <2>6
<1> QED BY <1>2 DEF RetransmitOnTime

(***************************************************************************)
(* The invariant implies ProbeOnTime.                                      *)
(***************************************************************************)
LEMMA ProbeBound ==
  ASSUME IInv
  PROVE  ProbeOnTime
<1>0. Types
  BY DEF IInv
<1>1. /\ Interval \in Nat /\ Retry \in Nat /\ MaxLag \in Nat /\ asked \in Nat /\ idle \in Nat
      /\ wait \in Int /\ -MaxLag <= wait
  BY <1>0, NumbersAre, PeriodIs
<1>2. PICK g \in Nat, z \in Nat, p \in Nat, i \in Nat, b \in Nat :
        /\ g = FlushGap /\ z = ProbeSpan /\ p = ProbeLimit /\ i = ProbeInit /\ b = Back
        /\ i + g <= z /\ p <= z /\ (z = i + g \/ z = p)
  BY <1>0, GapIs, SpanIs, ShiftIs, ProbeAssumption
<1>3. asked <= z + g + b
  <2>1. CASE kcp.probe_wait = 0
    <3>1. asked <= idle /\ idle <= g + b
      BY <1>2, <2>1, IdleIs DEF IInv, ProbePlan
    <3> QED BY <1>1, <3>1
  <2>2. CASE kcp.probe_wait # 0
    <3>1. asked + wait <= z + b + Interval + Retry - 2
      BY <1>2, <2>2 DEF IInv, ProbePlan
    <3>2. g = Interval + Retry - 1 + MaxLag
      BY <1>2, GapIs
    <3> QED BY <1>1, <3>1, <3>2
  <2> QED BY <2>1, <2>2
<1>4. PICK u \in Nat, v \in Nat : u = i + 2 * g /\ v = p + g
  OBVIOUS
<1>5. PICK S : S = {u, v}
  OBVIOUS
<1>6. PICK m \in Nat : m = Max(S) /\ m >= u /\ m >= v
  BY <1>5, MaxNat
<1>7. asked <= m + b
  <2>1. z + g = u \/ z + g = v
    BY <1>2, <1>4
  <2> QED BY <1>1, <1>3, <1>6, <2>1
<1>8. Max({ProbeInit + 2 * FlushGap, ProbeLimit + FlushGap}) = m
  BY <1>2, <1>4, <1>5, <1>6
<1> QED BY <1>2, <1>7, <1>8 DEF ProbeOnTime

(***************************************************************************)
(* KCP flushes at least every FlushGap, across the wrap of the clock and   *)
(* however many segments wake the timer in between; a clock set back       *)
(* delays a flush by StepDelay, one set ahead does not                     *)
(* (kcpev_timer_repeat, ikcp_update, ikcp_check). The hypothesis is that   *)
(* no time lies half a turn of the clock away.                             *)
(***************************************************************************)
THEOREM FlushesOnTime ==
  ASSUME Reach
  PROVE  Spec => []FlushOnTime
<1>1. Init => IInv
  BY InitIInv
<1>2. IInv /\ [Next]_vars => IInv'
  BY NextIInv
<1>3. IInv => FlushOnTime
  BY FlushBound
<1> QED BY <1>1, <1>2, <1>3, PTL DEF Spec

(***************************************************************************)
(* A segment that is not acknowledged is sent again in time after its      *)
(* timeout, later by at most the step of a clock set back (ikcp_flush,     *)
(* ikcp_check).                                                            *)
(***************************************************************************)
THEOREM RetransmitsOnTime ==
  ASSUME Reach
  PROVE  Spec => []RetransmitOnTime
<1>1. Init => IInv
  BY InitIInv
<1>2. IInv /\ [Next]_vars => IInv'
  BY NextIInv
<1>3. IInv => RetransmitOnTime
  BY RetransmitBound
<1> QED BY <1>1, <1>2, <1>3, PTL DEF Spec

(***************************************************************************)
(* While the remote window stays closed the peer is asked again and again, *)
(* at the latest ProbeOnTime's bound after the last time (ikcp_flush).     *)
(***************************************************************************)
THEOREM ProbesOnTime ==
  ASSUME Reach
  PROVE  Spec => []ProbeOnTime
<1>1. Init => IInv
  BY InitIInv
<1>2. IInv /\ [Next]_vars => IInv'
  BY NextIInv
<1>3. IInv => ProbeOnTime
  BY ProbeBound
<1> QED BY <1>1, <1>2, <1>3, PTL DEF Spec

(***************************************************************************)
(* What RetransmitNotEarly says of a step.                                 *)
(***************************************************************************)
NotEarly ==
  \A j \in DOMAIN kcp.snd_buf :
    (/\ Len(kcp'.snd_buf) >= Len(kcp.snd_buf)
     /\ kcp'.snd_buf[j].xmit > kcp.snd_buf[j].xmit)
      => \/ kcp.snd_buf[j].age + Ahead >= kcp.snd_buf[j].rto
         \/ kcp.snd_buf[j].fastack >= FastResend

(***************************************************************************)
(* A step that sends a segment again is a flush that found it due, or      *)
(* overtaken; its timeout runs from when it was sent.                      *)
(***************************************************************************)
LEMMA NextNotEarly ==
  ASSUME IInv, Next
  PROVE  NotEarly
<1>0. Types /\ wall \in Time /\ kcp \in KcpRec(Segment) /\ Room(kcp)
  BY DEF IInv, Types
<1>1. SUFFICES ASSUME NEW j \in DOMAIN kcp.snd_buf,
                      Len(kcp'.snd_buf) >= Len(kcp.snd_buf),
                      kcp'.snd_buf[j].xmit > kcp.snd_buf[j].xmit
               PROVE  \/ kcp.snd_buf[j].age + Ahead >= kcp.snd_buf[j].rto
                      \/ kcp.snd_buf[j].fastack >= FastResend
  BY DEF NotEarly
<1>2. PICK g \in Segment : g = kcp.snd_buf[j]
  BY <1>0, KcpIs
<1>3. j \in 1..Len(kcp.snd_buf) /\ Len(kcp.snd_buf) \in Nat /\ g.xmit \in Nat
  BY <1>0, KcpIs, SegmentIs
<1>4. kcp'.snd_buf[j].xmit # g.xmit
  <2>1. PICK x : x = kcp'.snd_buf[j].xmit
    OBVIOUS
  <2>2. x > g.xmit
    BY <1>1, <1>2, <2>1
  <2>3. x # g.xmit
    BY <1>3, <2>2
  <2> QED BY <2>1, <2>3
<1>5. kcp'.snd_buf # kcp.snd_buf
  BY <1>2, <1>4
<1>6. ~Send
  BY <1>0, <1>5, SendView
<1>7. ~Input
  <2>1. SUFFICES ASSUME Input PROVE FALSE
    OBVIOUS
  <2>2. Thinned(kcp.snd_buf, kcp'.snd_buf) /\ kcp' \in KcpRec(Segment)
    BY <1>0, <2>1, InputView
  <2>3. Len(kcp'.snd_buf) <= Len(kcp.snd_buf) /\ Len(kcp'.snd_buf) \in Nat
    BY <2>2, KcpIs DEF Thinned
  <2>4. Len(kcp'.snd_buf) = Len(kcp.snd_buf) /\ j \in 1..Len(kcp'.snd_buf)
    BY <1>1, <1>3, <2>3
  <2>5. SameSegment(kcp.snd_buf[j], kcp'.snd_buf[j])
    BY <2>2, <2>4 DEF Thinned
  <2> QED BY <1>2, <1>4, <2>5 DEF SameSegment
<1>8. ~Tick
  <2>1. Tick => Aged(kcp.snd_buf, kcp'.snd_buf)
    BY <1>0, TickView
  <2> QED BY <1>2, <1>3, <1>4, <2>1 DEF Aged
<1>9. ~StepClock
  BY <1>5 DEF StepClock
<1>10. TimerRepeat
  BY <1>6, <1>7, <1>8, <1>9 DEF Next
<1>11. FlushStep
  <2>1. IdleStep \/ FlushStep
    BY <1>0, <1>10, TimerView
  <2> QED BY <1>5, <2>1 DEF IdleStep, Idled
<1>12. PICK p : p = Planned(kcp, wall)
  OBVIOUS
<1>13. NextFlush(kcp, wall) \in Time
  <2>1. kcp.ts_flush \in Time /\ kcp.updated \in BOOLEAN
    BY <1>0, KcpIs
  <2> QED BY <1>0, <1>11, <2>1, NextFlushView DEF FlushStep
<1>14. p.current = wall /\ p.snd_buf = kcp.snd_buf
  BY <1>0, <1>12, <1>13, PlannedView
<1>15. PICK r : r = kcp'.snd_buf[j]
  OBVIOUS
<1>16. Resent(p, g, r) \/ Unsent(p, g, r)
  BY <1>2, <1>3, <1>11, <1>12, <1>14, <1>15 DEF FlushStep, Flushed
<1>17. Resent(p, g, r)
  BY <1>4, <1>15, <1>16 DEF Unsent
<1>18. g.xmit = 0 \/ TimedOut(p, g) \/ g.fastack >= FastResend
  BY <1>17 DEF Resent
<1>19. g.xmit # 0
  BY SegmentIs
<1>20. ASSUME TimedOut(p, g) PROVE g.age + Ahead >= g.rto
  <2>1. Diff(wall, g.resendts) >= 0 /\ g.resendts \in Time
    BY <1>14, <1>20, SegmentIs DEF TimedOut
  <2>2. PICK S \in Int : S = Lead(g.resendts) /\ S <= 0
    BY <1>0, <2>1, DueView, DiffIs DEF Lead
  <2>3. OnWay(g)
    BY <1>2, <1>3 DEF OnWay
  <2>4. g.rto - Ahead <= g.age + S
    BY <2>2, <2>3 DEF IInv, Resends, ResendPlan
  <2>5. g.rto \in Nat /\ g.age \in Nat /\ Ahead \in Nat
    BY <1>0, SegmentIs, ShiftIs
  <2> QED BY <2>2, <2>4, <2>5
<1> QED BY <1>2, <1>18, <1>19, <1>20

(***************************************************************************)
(* A segment is sent again only when its timeout has passed since it was   *)
(* last sent or it was overtaken, at any place of the clock; a clock set   *)
(* ahead shortens the timeout by as much (ikcp_flush).                     *)
(***************************************************************************)
THEOREM RetransmitsNotEarly ==
  ASSUME Reach
  PROVE  Spec => RetransmitNotEarly
<1>1. Init => IInv
  BY InitIInv
<1>2. IInv /\ [Next]_vars => IInv'
  BY NextIInv
<1>3. IInv /\ [Next]_vars => [NotEarly]_vars
  BY NextNotEarly
<1>4. Spec => [][NotEarly]_vars
  BY <1>1, <1>2, <1>3, PTL DEF Spec
<1> QED BY <1>4 DEF NotEarly, RetransmitNotEarly
=============================================================================
