----------------------------- MODULE KcpProofs ------------------------------
(***************************************************************************)
(* Proofs about Kcp: what each call of an endpoint keeps, for every        *)
(* window, every MTU and every fast-retransmission threshold, and for      *)
(* datagrams that are late, repeated or out of order. The invariant speaks *)
(* of all that was ever handed to ikcp_send in one direction, a list of    *)
(* segments that no control block holds any more; it is a parameter here,  *)
(* g and h, and is found again in KcpLinkProofs.                           *)
(***************************************************************************)
EXTENDS Kcp, SequenceTheorems, WellFoundedInduction, TLAPS

(***************************************************************************)
(* A non-empty set of naturals has a least element. What a loop does is    *)
(* shown with it: a first turn that breaks the claim would follow one that *)
(* does not.                                                               *)
(***************************************************************************)
LEMMA Least ==
  ASSUME NEW S \in SUBSET Nat, S # {}
  PROVE  \E x \in S : \A y \in S : x <= y
<1> DEFINE R == OpToRel(<, Nat)
<1>1. IsWellFoundedOn(R, Nat)
  BY NatLessThanWellFounded
<1>2. \A x, y \in Nat : y < x => <<y, x>> \in R
  BY DEF OpToRel
<1> HIDE DEF R
<1>3. PICK x \in S : \A y \in S : ~(<<y, x>> \in R)
  BY <1>1, WFMin
<1>4. \A y \in S : x \in Nat /\ y \in Nat /\ ~(y < x)
  BY <1>2, <1>3
<1> QED BY <1>4

(***************************************************************************)
(* Induction over the turns of a loop: a claim that holds before the first *)
(* turn and after every turn whose predecessor it holds for, holds after   *)
(* all of them.                                                            *)
(***************************************************************************)
LEMMA Upward ==
  ASSUME NEW N \in Nat, NEW S, 0 \in S,
         \A n \in 1..N : n - 1 \in S => n \in S
  PROVE  0..N \subseteq S
<1> SUFFICES ASSUME (0..N) \ S # {} PROVE FALSE
  OBVIOUS
<1>0. (0..N) \ S \in SUBSET Nat
  OBVIOUS
<1>1. PICK x \in (0..N) \ S : \A y \in (0..N) \ S : x <= y
  BY <1>0, Least
<1>2. x \in 1..N /\ x - 1 \in 0..N /\ x - 1 < x
  BY <1>1
<1>3. x - 1 \in S
  BY <1>1, <1>2
<1> QED BY <1>1, <1>2, <1>3

(***************************************************************************)
(* Max is the greatest element of a bounded set of naturals.               *)
(***************************************************************************)
LEMMA MaxOf ==
  ASSUME NEW N \in Nat, NEW S \in SUBSET (0..N), S # {}
  PROVE  Max(S) \in S /\ \A y \in S : y <= Max(S)
<1> DEFINE T == {N - y : y \in S}
<1>0. \A y \in S : N - y \in Nat
  OBVIOUS
<1>1. T \in SUBSET Nat /\ T # {}
  <2>1. T \in SUBSET Nat
    BY <1>0
  <2>2. PICK y \in S : TRUE
    OBVIOUS
  <2>3. N - y \in T
    OBVIOUS
  <2> QED BY <2>1, <2>3
<1>2. PICK t \in T : \A u \in T : t <= u
  BY <1>1, Least
<1>3. PICK x \in S : t = N - x
  BY <1>2
<1>4. \A y \in S : x >= y
  BY <1>2, <1>3
<1> QED BY <1>3, <1>4 DEF Max

\* A fragment: the message it is of and its place there (MessageOf).
Token == Nat \X Nat

\* A segment before it has a number; its number is its place among all that
\* were ever sent.
Item == [frg : Nat, data : Token]

\* The segments of snd_buf, of rcv_buf and rcv_queue, and of datagrams.
SendSeg == [sn : Nat, frg : Nat, data : Token, xmit : BOOLEAN, fastack : Nat]

RecvSeg == [sn : Nat, frg : Nat, data : Token]

WireSeg ==
  [cmd : {"ACK", "PUSH", "WASK", "WINS"}, wnd : Nat, una : Nat, sn : Nat, frg : Nat,
   data : Token \cup {<<>>}]

\* The control block.
KcpRec ==
  [snd_wnd : Nat, rcv_wnd : Nat, snd_queue : Seq(Item), snd_buf : Seq(SendSeg),
   snd_una : Nat, snd_nxt : Nat, rmt_wnd : Nat, rcv_buf : Seq(RecvSeg),
   rcv_queue : Seq(RecvSeg), rcv_nxt : Nat, acklist : Seq(Nat),
   probe : SUBSET {"ASK_SEND", "ASK_TELL"}, probing : BOOLEAN]

\* Which part of the control block a step leaves alone.
SameSnd(k, l) ==
  /\ l.snd_queue = k.snd_queue /\ l.snd_buf = k.snd_buf
  /\ l.snd_una = k.snd_una /\ l.snd_nxt = k.snd_nxt

SameRcv(k, l) ==
  /\ l.rcv_queue = k.rcv_queue /\ l.rcv_buf = k.rcv_buf
  /\ l.rcv_nxt = k.rcv_nxt /\ l.acklist = k.acklist

SameWnd(k, l) == l.snd_wnd = k.snd_wnd /\ l.rcv_wnd = k.rcv_wnd

(***************************************************************************)
(* A control block with another snd_buf: what stays.                       *)
(***************************************************************************)
LEMMA PutSendBuf ==
  ASSUME NEW k \in KcpRec, NEW b \in Seq(SendSeg), NEW l, l = [k EXCEPT !.snd_buf = b]
  PROVE  /\ l \in KcpRec /\ l.snd_buf = b
         /\ l.snd_queue = k.snd_queue /\ l.snd_una = k.snd_una /\ l.snd_nxt = k.snd_nxt
         /\ SameRcv(k, l) /\ SameWnd(k, l) /\ l.rmt_wnd = k.rmt_wnd
BY DEF KcpRec, SameRcv, SameWnd

(***************************************************************************)
(* With another snd_una.                                                   *)
(***************************************************************************)
LEMMA PutUna ==
  ASSUME NEW k \in KcpRec, NEW u \in Nat, NEW l, l = [k EXCEPT !.snd_una = u]
  PROVE  /\ l \in KcpRec /\ l.snd_una = u
         /\ l.snd_queue = k.snd_queue /\ l.snd_buf = k.snd_buf /\ l.snd_nxt = k.snd_nxt
         /\ SameRcv(k, l) /\ SameWnd(k, l) /\ l.rmt_wnd = k.rmt_wnd
BY DEF KcpRec, SameRcv, SameWnd

(***************************************************************************)
(* With another rmt_wnd.                                                   *)
(***************************************************************************)
LEMMA PutRemote ==
  ASSUME NEW k \in KcpRec, NEW w \in Nat, NEW l, l = [k EXCEPT !.rmt_wnd = w]
  PROVE  /\ l \in KcpRec /\ l.rmt_wnd = w
         /\ SameSnd(k, l) /\ SameRcv(k, l) /\ SameWnd(k, l)
BY DEF KcpRec, SameSnd, SameRcv, SameWnd

(***************************************************************************)
(* With another probe.                                                     *)
(***************************************************************************)
LEMMA PutProbe ==
  ASSUME NEW k \in KcpRec, NEW p \in SUBSET {"ASK_SEND", "ASK_TELL"},
         NEW l, l = [k EXCEPT !.probe = p]
  PROVE  /\ l \in KcpRec /\ l.rmt_wnd = k.rmt_wnd
         /\ SameSnd(k, l) /\ SameRcv(k, l) /\ SameWnd(k, l)
BY DEF KcpRec, SameSnd, SameRcv, SameWnd

(***************************************************************************)
(* With another acklist.                                                   *)
(***************************************************************************)
LEMMA PutAcklist ==
  ASSUME NEW k \in KcpRec, NEW a \in Seq(Nat), NEW l, l = [k EXCEPT !.acklist = a]
  PROVE  /\ l \in KcpRec /\ l.acklist = a
         /\ l.rcv_queue = k.rcv_queue /\ l.rcv_buf = k.rcv_buf /\ l.rcv_nxt = k.rcv_nxt
         /\ SameSnd(k, l) /\ SameWnd(k, l) /\ l.rmt_wnd = k.rmt_wnd
BY DEF KcpRec, SameSnd, SameWnd

(***************************************************************************)
(* With another rcv_buf.                                                   *)
(***************************************************************************)
LEMMA PutRecvBuf ==
  ASSUME NEW k \in KcpRec, NEW b \in Seq(RecvSeg), NEW l, l = [k EXCEPT !.rcv_buf = b]
  PROVE  /\ l \in KcpRec /\ l.rcv_buf = b
         /\ l.rcv_queue = k.rcv_queue /\ l.acklist = k.acklist /\ l.rcv_nxt = k.rcv_nxt
         /\ SameSnd(k, l) /\ SameWnd(k, l) /\ l.rmt_wnd = k.rmt_wnd
BY DEF KcpRec, SameSnd, SameWnd

(***************************************************************************)
(* With another rcv_queue.                                                 *)
(***************************************************************************)
LEMMA PutRecvQueue ==
  ASSUME NEW k \in KcpRec, NEW q \in Seq(RecvSeg), NEW l, l = [k EXCEPT !.rcv_queue = q]
  PROVE  /\ l \in KcpRec /\ l.rcv_queue = q
         /\ l.rcv_buf = k.rcv_buf /\ l.acklist = k.acklist /\ l.rcv_nxt = k.rcv_nxt
         /\ SameSnd(k, l) /\ SameWnd(k, l) /\ l.rmt_wnd = k.rmt_wnd
BY DEF KcpRec, SameSnd, SameWnd

(***************************************************************************)
(* With another snd_queue.                                                 *)
(***************************************************************************)
LEMMA PutQueue ==
  ASSUME NEW k \in KcpRec, NEW q \in Seq(Item), NEW l, l = [k EXCEPT !.snd_queue = q]
  PROVE  /\ l \in KcpRec /\ l.snd_queue = q
         /\ l.snd_buf = k.snd_buf /\ l.snd_una = k.snd_una /\ l.snd_nxt = k.snd_nxt
         /\ SameRcv(k, l) /\ SameWnd(k, l) /\ l.rmt_wnd = k.rmt_wnd
BY DEF KcpRec, SameRcv, SameWnd

(***************************************************************************)
(* What is left of a list when its first n elements are taken off.         *)
(***************************************************************************)
LEMMA Dropped ==
  ASSUME NEW S, NEW s \in Seq(S), NEW n \in 0..Len(s), NEW t, t = SubSeq(s, n + 1, Len(s))
  PROVE  /\ t \in Seq(S) /\ Len(t) = Len(s) - n
         /\ \A j \in 1..Len(t) : n + j \in 1..Len(s) /\ t[j] = s[n + j]
         /\ \A i \in 1..Len(s) : i > n => i - n \in 1..Len(t) /\ t[i - n] = s[i]
<1>1. \A i \in n + 1..Len(s) : s[i] \in S
  OBVIOUS
<1>2. Len(s) \in Nat /\ n + 1 \in Int
  OBVIOUS
<1>3. /\ t \in Seq(S)
      /\ Len(t) = IF n + 1 <= Len(s) THEN Len(s) - (n + 1) + 1 ELSE 0
      /\ \A i \in 1..Len(s) - (n + 1) + 1 : t[i] = s[n + 1 + i - 1]
  BY <1>1, <1>2, SubSeqProperties
<1>4. Len(t) = Len(s) - n
  BY <1>2, <1>3
<1>5. ASSUME NEW j \in 1..Len(t) PROVE n + j \in 1..Len(s) /\ t[j] = s[n + j]
  <2>1. j \in 1..Len(s) - (n + 1) + 1 /\ n + 1 + j - 1 = n + j /\ n + j \in 1..Len(s)
    BY <1>2, <1>4
  <2> QED BY <2>1, <1>3
<1>6. ASSUME NEW i \in 1..Len(s), i > n PROVE i - n \in 1..Len(t) /\ t[i - n] = s[i]
  <2>1. i - n \in 1..Len(t) /\ n + (i - n) = i
    BY <1>2, <1>4, <1>6
  <2> QED BY <2>1, <1>5
<1> QED BY <1>3, <1>4, <1>5, <1>6

(***************************************************************************)
(* The first n elements of a list.                                         *)
(***************************************************************************)
LEMMA Kept ==
  ASSUME NEW S, NEW s \in Seq(S), NEW n \in 0..Len(s), NEW t, t = SubSeq(s, 1, n)
  PROVE  /\ t \in Seq(S) /\ Len(t) = n
         /\ \A j \in 1..n : t[j] = s[j]
<1>1. \A i \in 1..n : s[i] \in S
  OBVIOUS
<1>2. Len(s) \in Nat /\ n \in Int /\ 1 \in Int
  OBVIOUS
<1>3. /\ t \in Seq(S)
      /\ Len(t) = IF 1 <= n THEN n - 1 + 1 ELSE 0
      /\ \A i \in 1..n - 1 + 1 : t[i] = s[1 + i - 1]
  BY <1>1, <1>2, SubSeqProperties
<1>4. Len(t) = n
  BY <1>2, <1>3
<1>5. ASSUME NEW j \in 1..n PROVE t[j] = s[j]
  <2>1. j \in 1..n - 1 + 1 /\ 1 + j - 1 = j
    BY <1>2
  <2> QED BY <2>1, <1>3
<1> QED BY <1>3, <1>4, <1>5

\* u is s followed by t.
Appended(s, t, u) ==
  /\ Len(u) = Len(s) + Len(t)
  /\ \A j \in 1..Len(s) : u[j] = s[j]
  /\ \A j \in 1..Len(t) : u[Len(s) + j] = t[j]
  /\ \A j \in 1..Len(u) :
       j <= Len(s) \/ (j > Len(s) /\ j - Len(s) \in 1..Len(t) /\ u[j] = t[j - Len(s)])

(***************************************************************************)
(* Concatenation, element by element and in both directions.               *)
(***************************************************************************)
LEMMA Joined ==
  ASSUME NEW S, NEW s \in Seq(S), NEW t \in Seq(S), NEW u, u = s \o t
  PROVE  u \in Seq(S) /\ Appended(s, t, u)
<1>1. Len(s) \in Nat /\ Len(t) \in Nat
  OBVIOUS
<1>2. /\ u \in Seq(S) /\ Len(u) = Len(s) + Len(t)
      /\ \A i \in 1..Len(s) + Len(t) : u[i] = IF i <= Len(s) THEN s[i] ELSE t[i - Len(s)]
  BY ConcatProperties
<1>3. ASSUME NEW j \in 1..Len(t) PROVE u[Len(s) + j] = t[j]
  <2>1. Len(s) + j \in 1..Len(s) + Len(t) /\ ~(Len(s) + j <= Len(s)) /\ Len(s) + j - Len(s) = j
    BY <1>1
  <2> QED BY <2>1, <1>2
<1>4. ASSUME NEW j \in 1..Len(s) PROVE u[j] = s[j]
  <2>1. j \in 1..Len(s) + Len(t) /\ j <= Len(s)
    BY <1>1
  <2> QED BY <2>1, <1>2
<1>5. ASSUME NEW j \in 1..Len(u), j > Len(s)
      PROVE  j - Len(s) \in 1..Len(t) /\ u[j] = t[j - Len(s)]
  <2>1. j - Len(s) \in 1..Len(t) /\ Len(s) + (j - Len(s)) = j
    BY <1>1, <1>2, <1>5
  <2> QED BY <2>1, <1>3
<1>6. \A j \in 1..Len(u) : j <= Len(s) \/ j > Len(s)
  BY <1>1, <1>2
<1> QED BY <1>2, <1>3, <1>4, <1>5, <1>6 DEF Appended

(***************************************************************************)
(* A function on 1..n is a list of n elements.                             *)
(***************************************************************************)
LEMMA Listed ==
  ASSUME NEW S, NEW n \in Nat, NEW f \in [1..n -> S]
  PROVE  f \in Seq(S) /\ Len(f) = n /\ DOMAIN f = 1..n
BY SeqDef

(***************************************************************************)
(* RemoveAt, element by element: what is left in its order, and where each *)
(* element of the list has gone.                                           *)
(***************************************************************************)
LEMMA Removed ==
  ASSUME NEW S, NEW s \in Seq(S), NEW i \in 1..Len(s), NEW t, t = RemoveAt(s, i)
  PROVE  /\ t \in Seq(S) /\ Len(t) = Len(s) - 1
         /\ \A j \in 1..Len(t) : j < i => j \in 1..Len(s) /\ t[j] = s[j]
         /\ \A j \in 1..Len(t) : j >= i => j + 1 \in 1..Len(s) /\ t[j] = s[j + 1]
         /\ \A j \in 1..Len(s) : j < i => j \in 1..Len(t)
         /\ \A j \in 1..Len(s) : j > i => j - 1 \in 1..Len(t) /\ t[j - 1] = s[j]
<1> DEFINE a == SubSeq(s, 1, i - 1)
           c == SubSeq(s, i + 1, Len(s))
<1>0. Len(s) \in Nat /\ i - 1 \in 0..Len(s) /\ i \in 0..Len(s) /\ i \in Nat
  OBVIOUS
<1>1. a \in Seq(S) /\ Len(a) = i - 1 /\ \A j \in 1..i - 1 : a[j] = s[j]
  BY <1>0, Kept
<1>2. /\ c \in Seq(S) /\ Len(c) = Len(s) - i
      /\ \A j \in 1..Len(c) : i + j \in 1..Len(s) /\ c[j] = s[i + j]
  BY <1>0, Dropped
<1>3. t = a \o c
  BY DEF RemoveAt
<1> HIDE DEF a, c
<1>4. /\ t \in Seq(S) /\ Len(t) = Len(a) + Len(c)
      /\ \A j \in 1..Len(a) : t[j] = a[j]
      /\ \A j \in 1..Len(c) : t[Len(a) + j] = c[j]
  <2>1. a \in Seq(S) /\ c \in Seq(S)
    BY <1>1, <1>2
  <2>2. t \in Seq(S) /\ Appended(a, c, t)
    BY ONLY <2>1, <1>3, Joined
  <2> QED BY <2>2 DEF Appended
<1>5. Len(t) = Len(s) - 1
  BY <1>0, <1>1, <1>2, <1>4
<1>6. ASSUME NEW j \in 1..Len(t), j < i PROVE j \in 1..Len(s) /\ t[j] = s[j]
  <2>1. j \in 1..i - 1 /\ j \in 1..Len(s)
    BY <1>0, <1>5, <1>6
  <2> QED BY <2>1, <1>1, <1>4
<1>7. ASSUME NEW j \in 1..Len(t), j >= i PROVE j + 1 \in 1..Len(s) /\ t[j] = s[j + 1]
  <2>1. j - (i - 1) \in 1..Len(c) /\ (i - 1) + (j - (i - 1)) = j /\ i + (j - (i - 1)) = j + 1
        /\ j + 1 \in 1..Len(s)
    BY <1>0, <1>2, <1>5, <1>7
  <2>2. t[j] = c[j - (i - 1)]
    BY <2>1, <1>1, <1>4
  <2> QED BY <2>1, <2>2, <1>2
<1>8. ASSUME NEW j \in 1..Len(s), j < i PROVE j \in 1..Len(t)
  BY <1>0, <1>5, <1>8
<1>9. ASSUME NEW j \in 1..Len(s), j > i PROVE j - 1 \in 1..Len(t) /\ t[j - 1] = s[j]
  <2>1. j - 1 \in 1..Len(t) /\ j - 1 >= i /\ (j - 1) + 1 = j
    BY <1>0, <1>5, <1>9
  <2> QED BY <2>1, <1>7
<1> QED BY <1>4, <1>5, <1>6, <1>7, <1>8, <1>9

\* t is s with x inserted behind its first p elements.
Widened(s, p, x, t) ==
  /\ Len(t) = Len(s) + 1
  /\ \A j \in 1..p : j \in 1..Len(s) /\ t[j] = s[j]
  /\ t[p + 1] = x
  /\ \A j \in 1..Len(t) : j > p + 1 => j - 1 \in 1..Len(s) /\ t[j] = s[j - 1]

(***************************************************************************)
(* InsertAt, element by element.                                           *)
(***************************************************************************)
LEMMA Inserted ==
  ASSUME NEW S, NEW s \in Seq(S), NEW p \in 0..Len(s), NEW x \in S,
         NEW t, t = InsertAt(s, p + 1, x)
  PROVE  t \in Seq(S) /\ Widened(s, p, x, t)
<1> DEFINE a == SubSeq(s, 1, (p + 1) - 1)
           c == SubSeq(s, p + 1, Len(s))
           ax == a \o <<x>>
<1>0. Len(s) \in Nat /\ p \in Nat /\ (p + 1) - 1 = p
  OBVIOUS
<1>1. a \in Seq(S) /\ Len(a) = p /\ \A j \in 1..p : a[j] = s[j]
  BY <1>0, Kept
<1>2. /\ c \in Seq(S) /\ Len(c) = Len(s) - p
      /\ \A j \in 1..Len(c) : p + j \in 1..Len(s) /\ c[j] = s[p + j]
  BY <1>0, Dropped
<1>x. <<x>> \in Seq(S) /\ Len(<<x>>) = 1 /\ <<x>>[1] = x
  OBVIOUS
<1>3. t = ax \o c
  BY DEF InsertAt
<1>4. /\ ax \in Seq(S) /\ Len(ax) = p + 1
      /\ \A j \in 1..p : ax[j] = a[j]
      /\ ax[p + 1] = x
  <2>1. /\ ax \in Seq(S) /\ Len(ax) = Len(a) + Len(<<x>>)
        /\ \A j \in 1..Len(a) : ax[j] = a[j]
        /\ \A j \in 1..Len(<<x>>) : ax[Len(a) + j] = <<x>>[j]
    BY <1>1, <1>x, Joined DEF Appended
  <2> QED BY <2>1, <1>x, <1>1
<1> HIDE DEF a, c, ax
<1>5. /\ t \in Seq(S) /\ Len(t) = Len(ax) + Len(c)
      /\ \A j \in 1..Len(ax) : t[j] = ax[j]
      /\ \A j \in 1..Len(c) : t[Len(ax) + j] = c[j]
  <2>1. ax \in Seq(S) /\ c \in Seq(S)
    BY <1>2, <1>4
  <2>2. t \in Seq(S) /\ Appended(ax, c, t)
    BY ONLY <2>1, <1>3, Joined
  <2> QED BY <2>2 DEF Appended
<1>6. Len(t) = Len(s) + 1
  BY <1>0, <1>2, <1>4, <1>5
<1>7. ASSUME NEW j \in 1..p PROVE j \in 1..Len(s) /\ t[j] = s[j]
  <2>1. j \in 1..Len(s) /\ j \in 1..p + 1
    BY <1>0
  <2> QED BY <2>1, <1>1, <1>4, <1>5
<1>8. t[p + 1] = x
  BY <1>0, <1>4, <1>5
<1>9. ASSUME NEW j \in 1..Len(t), j > p + 1 PROVE j - 1 \in 1..Len(s) /\ t[j] = s[j - 1]
  <2>1. j - (p + 1) \in 1..Len(c) /\ (p + 1) + (j - (p + 1)) = j /\ p + (j - (p + 1)) = j - 1
        /\ j - 1 \in 1..Len(s)
    BY <1>0, <1>2, <1>6, <1>9
  <2>2. t[j] = c[j - (p + 1)]
    BY <2>1, <1>4, <1>5
  <2> QED BY <2>1, <2>2, <1>2
<1> QED BY <1>5, <1>6, <1>7, <1>8, <1>9 DEF Widened

-----------------------------------------------------------------------------
\* In order without repetition.
Ordered(b) == \A i, j \in 1..Len(b) : i < j => b[i].sn < b[j].sn

\* Segment sn is in buffer b.
Holds(b, sn) == \E j \in 1..Len(b) : b[j].sn = sn

\* seg is the segment of its number among those sent, g.
At(seg, g) ==
  /\ seg.sn < Len(g)
  /\ seg.frg = g[seg.sn + 1].frg
  /\ seg.data = g[seg.sn + 1].data

\* b holds every segment below nxt that is not in St, which is what the peer
\* has.
Outstanding(b, nxt, g, St) ==
  /\ Ordered(b)
  /\ \A j \in 1..Len(b) : b[j].sn < nxt /\ At(b[j], g)
  /\ \A sn \in 0..(nxt - 1) : Holds(b, sn) \/ sn \in St

\* q are the segments of g that have no number yet.
Queued(q, nxt, g) ==
  /\ Len(g) = nxt + Len(q)
  /\ \A j \in 1..Len(q) : q[j] = g[nxt + j]

\* The first number that is not acknowledged.
First(b, nxt) == IF b = <<>> THEN nxt ELSE b[1].sn

\* The sending half of a control block, between ikcp_parse_una and
\* ikcp_shrink_buf.
Loose(k, g, St, W) ==
  /\ Queued(k.snd_queue, k.snd_nxt, g)
  /\ Outstanding(k.snd_buf, k.snd_nxt, g, St)
  /\ k.snd_una <= k.snd_nxt
  /\ \A j \in 1..Len(k.snd_buf) : k.snd_una <= k.snd_buf[j].sn
  /\ k.snd_nxt <= k.snd_una + W
  /\ k.rmt_wnd <= W

\* And otherwise.
Sending(k, g, St, W) ==
  /\ Loose(k, g, St, W)
  /\ k.snd_una = First(k.snd_buf, k.snd_nxt)

\* Every element of c is one of b.
Within(c, b) == \A j \in 1..Len(c) : \E i \in 1..Len(b) : c[j] = b[i]

(***************************************************************************)
(* Segments the peer has may leave the front of snd_buf.                   *)
(***************************************************************************)
LEMMA DropOutstanding ==
  ASSUME NEW b \in Seq(SendSeg), NEW nxt \in Nat, NEW g, NEW St, Outstanding(b, nxt, g, St),
         NEW n \in 0..Len(b), \A j \in 1..n : b[j].sn \in St,
         NEW c, c = SubSeq(b, n + 1, Len(b))
  PROVE  /\ c \in Seq(SendSeg) /\ Outstanding(c, nxt, g, St) /\ Within(c, b)
<1>1. /\ c \in Seq(SendSeg) /\ Len(c) = Len(b) - n
      /\ \A j \in 1..Len(c) : n + j \in 1..Len(b) /\ c[j] = b[n + j]
      /\ \A i \in 1..Len(b) : i > n => i - n \in 1..Len(c) /\ c[i - n] = b[i]
  BY Dropped
<1>2. Len(b) \in Nat /\ Len(c) \in Nat /\ n \in Nat
  BY <1>1
<1>3. Ordered(c)
  <2> SUFFICES ASSUME NEW i \in 1..Len(c), NEW j \in 1..Len(c), i < j
               PROVE  c[i].sn < c[j].sn
    BY DEF Ordered
  <2>1. n + i < n + j
    BY <1>2
  <2> QED BY <2>1, <1>1 DEF Ordered, Outstanding
<1>4. \A j \in 1..Len(c) : c[j].sn < nxt /\ At(c[j], g)
  BY <1>1 DEF Outstanding
<1>5. ASSUME NEW sn \in 0..(nxt - 1) PROVE Holds(c, sn) \/ sn \in St
  <2>1. CASE sn \in St
    BY <2>1
  <2>2. CASE Holds(b, sn)
    <3>1. PICK i \in 1..Len(b) : b[i].sn = sn
      BY <2>2 DEF Holds
    <3>2. CASE i <= n
      <4>1. i \in 1..n
        BY <1>2, <3>2
      <4> QED BY <3>1, <4>1
    <3>3. CASE i > n
      BY <3>1, <3>3, <1>1 DEF Holds
    <3> QED BY <3>2, <3>3, <1>2
  <2> QED BY <2>1, <2>2 DEF Outstanding
<1>6. Outstanding(c, nxt, g, St)
  BY <1>3, <1>4, <1>5 DEF Outstanding
<1> QED BY <1>1, <1>6 DEF Within

(***************************************************************************)
(* A segment the peer has may leave snd_buf wherever it is.                *)
(***************************************************************************)
LEMMA RemoveOutstanding ==
  ASSUME NEW b \in Seq(SendSeg), NEW nxt \in Nat, NEW g, NEW St, Outstanding(b, nxt, g, St),
         NEW n \in 1..Len(b), b[n].sn \in St,
         NEW c, c = RemoveAt(b, n)
  PROVE  /\ c \in Seq(SendSeg) /\ Outstanding(c, nxt, g, St) /\ Within(c, b)
<1>1. /\ c \in Seq(SendSeg) /\ Len(c) = Len(b) - 1
      /\ \A j \in 1..Len(c) : j < n => j \in 1..Len(b) /\ c[j] = b[j]
      /\ \A j \in 1..Len(c) : j >= n => j + 1 \in 1..Len(b) /\ c[j] = b[j + 1]
      /\ \A j \in 1..Len(b) : j < n => j \in 1..Len(c)
      /\ \A j \in 1..Len(b) : j > n => j - 1 \in 1..Len(c) /\ c[j - 1] = b[j]
  <2>1. b \in Seq(SendSeg) /\ n \in 1..Len(b) /\ c = RemoveAt(b, n)
    OBVIOUS
  <2> QED BY ONLY <2>1, Removed
<1>2. Len(b) \in Nat /\ Len(c) \in Nat /\ n \in Nat
  BY <1>1
<1> DEFINE up(j) == IF j < n THEN j ELSE j + 1
<1>3. \A j \in 1..Len(c) : up(j) \in 1..Len(b) /\ c[j] = b[up(j)]
  BY <1>1, <1>2
<1>4. \A i, j \in 1..Len(c) : i < j => up(i) < up(j)
  BY <1>2
<1> HIDE DEF up
<1>5. Ordered(c)
  BY <1>3, <1>4 DEF Ordered, Outstanding
<1>6. \A j \in 1..Len(c) : c[j].sn < nxt /\ At(c[j], g)
  BY <1>3 DEF Outstanding
<1>7. ASSUME NEW sn \in 0..(nxt - 1) PROVE Holds(c, sn) \/ sn \in St
  <2>1. CASE sn \in St
    BY <2>1
  <2>2. CASE Holds(b, sn)
    <3>1. PICK i \in 1..Len(b) : b[i].sn = sn
      BY <2>2 DEF Holds
    <3>2. CASE i = n
      BY <3>1, <3>2
    <3>3. CASE i < n
      <4>1. i \in 1..Len(c) /\ c[i] = b[i]
        BY <1>1, <3>3
      <4> QED BY <3>1, <4>1 DEF Holds
    <3>4. CASE i > n
      BY <3>1, <3>4, <1>1 DEF Holds
    <3> QED BY <3>2, <3>3, <3>4, <1>2
  <2> QED BY <2>1, <2>2 DEF Outstanding
<1>8. Outstanding(c, nxt, g, St)
  BY <1>5, <1>6, <1>7 DEF Outstanding
<1> QED BY <1>1, <1>3, <1>8 DEF Within

(***************************************************************************)
(* The marks on its segments, xmit and fastack, mean nothing for what      *)
(* snd_buf holds.                                                          *)
(***************************************************************************)
LEMMA MarkOutstanding ==
  ASSUME NEW b \in Seq(SendSeg), NEW nxt \in Nat, NEW g, NEW St, Outstanding(b, nxt, g, St),
         NEW c \in Seq(SendSeg), Len(c) = Len(b),
         \A j \in 1..Len(b) : c[j].sn = b[j].sn /\ c[j].frg = b[j].frg /\ c[j].data = b[j].data
  PROVE  Outstanding(c, nxt, g, St)
<1>1. Ordered(c)
  BY DEF Ordered, Outstanding
<1>2. \A j \in 1..Len(c) : c[j].sn < nxt /\ At(c[j], g)
  BY DEF Outstanding, At
<1>3. \A sn : Holds(b, sn) => Holds(c, sn)
  BY DEF Holds
<1> QED BY <1>1, <1>2, <1>3 DEF Outstanding

(***************************************************************************)
(* Leading is the length of the longest prefix whose elements are all in   *)
(* P: it stops at an element that is not.                                  *)
(***************************************************************************)
LEMMA LeadingOf ==
  ASSUME NEW N \in Nat, NEW S, NEW P, NEW n, n = Max(S),
         \A m : m \in S <=> m \in 0..N /\ \A j \in 1..m : j \in P
  PROVE  /\ n \in 0..N
         /\ \A j \in 1..n : j \in P
         /\ n < N => n + 1 \notin P
<1>1. S \in SUBSET (0..N) /\ 0 \in S
  OBVIOUS
<1>2. n \in S /\ \A y \in S : y <= n
  BY <1>1, MaxOf
<1>3. ASSUME n < N, n + 1 \in P PROVE FALSE
  <2>1. n + 1 \in 0..N /\ n \in Nat
    BY <1>2, <1>3
  <2>2. \A j \in 1..n + 1 : j \in P
    <3>1. \A j \in 1..n + 1 : j \in 1..n \/ j = n + 1
      BY <2>1
    <3> QED BY <3>1, <1>2, <1>3
  <2>3. n + 1 \in S
    BY <2>1, <2>2
  <2> QED BY <2>1, <2>3, <1>2
<1> QED BY <1>2, <1>3

(***************************************************************************)
(* ikcp_parse_una removes only what the peer has: every number below una.  *)
(***************************************************************************)
LEMMA ParseUnaLoose ==
  ASSUME NEW k \in KcpRec, NEW g, NEW St, NEW W \in Nat, Loose(k, g, St, W),
         NEW una \in Nat, \A sn \in 0..(una - 1) : sn \in St,
         NEW l, l = ParseUna(k, una)
  PROVE  /\ l \in KcpRec /\ Loose(l, g, St, W)
         /\ SameRcv(k, l) /\ SameWnd(k, l)
<1> DEFINE b == k.snd_buf
           P == {j \in 1..Len(b) : b[j].sn < una}
           S == {m \in 0..Len(b) : \A j \in 1..m : b[j].sn < una}
           n == Leading(k.snd_buf, LAMBDA j : k.snd_buf[j].sn < una)
           c == SubSeq(b, n + 1, Len(b))
<1>0. b \in Seq(SendSeg) /\ k.snd_nxt \in Nat /\ k.snd_una \in Nat
  BY DEF KcpRec
<1>1. n = Max(S) /\ \A m : m \in S <=> m \in 0..Len(b) /\ \A j \in 1..m : j \in P
  <2>1. n = Max(S)
    BY DEF Leading
  <2>2. ASSUME NEW m \in 0..Len(b) PROVE \A j \in 1..m : j \in 1..Len(b)
    BY <1>0
  <2> QED BY <2>1, <2>2
<1>2. l = [k EXCEPT !.snd_buf = c]
  BY DEF ParseUna
<1>L. Len(b) \in Nat
  BY <1>0
<1> HIDE DEF n, S, P
<1>3. n \in 0..Len(b) /\ \A j \in 1..n : j \in P
  BY ONLY <1>L, <1>1, LeadingOf
<1>4. ASSUME NEW j \in 1..n PROVE b[j].sn \in St
  <2>1. j \in 1..Len(b) /\ b[j].sn < una
    BY <1>3 DEF P
  <2>2. b[j] \in SendSeg
    BY <1>0, <2>1
  <2>3. b[j].sn \in 0..(una - 1)
    BY <2>1, <2>2 DEF SendSeg
  <2> QED BY <2>3
<1>5. /\ c \in Seq(SendSeg) /\ Outstanding(c, k.snd_nxt, g, St) /\ Within(c, b)
  <2>1. Outstanding(b, k.snd_nxt, g, St)
    BY DEF Loose
  <2>2. c = SubSeq(b, n + 1, Len(b))
    OBVIOUS
  <2> HIDE DEF b, c
  <2>3. n \in 0..Len(b) /\ \A j \in 1..n : b[j].sn \in St
    BY <1>3, <1>4
  <2> QED BY ONLY <1>0, <2>1, <2>2, <2>3, DropOutstanding
<1> HIDE DEF b, c
<1>6. /\ l \in KcpRec /\ l.snd_buf = c
      /\ l.snd_queue = k.snd_queue /\ l.snd_una = k.snd_una /\ l.snd_nxt = k.snd_nxt
      /\ SameRcv(k, l) /\ SameWnd(k, l) /\ l.rmt_wnd = k.rmt_wnd
  BY <1>2, <1>5, PutSendBuf
<1>7. \A j \in 1..Len(c) : k.snd_una <= c[j].sn
  BY <1>5 DEF Loose, Within, b
<1>8. Loose(l, g, St, W)
  BY <1>5, <1>6, <1>7 DEF Loose
<1> QED BY <1>6, <1>8

(***************************************************************************)
(* ikcp_parse_ack removes only the segment acknowledged, if it finds one.  *)
(***************************************************************************)
LEMMA ParseAckLoose ==
  ASSUME NEW k \in KcpRec, NEW g, NEW St, NEW W \in Nat, Loose(k, g, St, W),
         NEW sn \in Nat, sn \in St,
         NEW l, l = ParseAck(k, sn)
  PROVE  /\ l \in KcpRec /\ Loose(l, g, St, W)
         /\ SameRcv(k, l) /\ SameWnd(k, l)
<1> DEFINE b == k.snd_buf
           P == {j \in 1..Len(b) : b[j].sn < sn}
           S == {m \in 0..Len(b) : \A j \in 1..m : b[j].sn < sn}
           n == Leading(k.snd_buf, LAMBDA j : k.snd_buf[j].sn < sn)
           c == RemoveAt(b, n + 1)
<1>0. b \in Seq(SendSeg) /\ k.snd_nxt \in Nat /\ k.snd_una \in Nat
  BY DEF KcpRec
<1>1. n = Max(S) /\ \A m : m \in S <=> m \in 0..Len(b) /\ \A j \in 1..m : j \in P
  <2>1. n = Max(S)
    BY DEF Leading
  <2>2. ASSUME NEW m \in 0..Len(b) PROVE \A j \in 1..m : j \in 1..Len(b)
    BY <1>0
  <2> QED BY <2>1, <2>2
<1>2. \/ l = k
      \/ n < Len(b) /\ b[n + 1].sn = sn /\ l = [k EXCEPT !.snd_buf = c]
  BY DEF ParseAck
<1>L. Len(b) \in Nat
  BY <1>0
<1> HIDE DEF n, S, P
<1>3. n \in 0..Len(b)
  BY ONLY <1>L, <1>1, LeadingOf
<1>4. CASE l = k
  BY <1>4 DEF SameRcv, SameWnd
<1>5. CASE n < Len(b) /\ b[n + 1].sn = sn /\ l = [k EXCEPT !.snd_buf = c]
  <2>1. n + 1 \in 1..Len(b)
    BY <1>0, <1>3, <1>5
  <2>2. /\ c \in Seq(SendSeg) /\ Outstanding(c, k.snd_nxt, g, St) /\ Within(c, b)
    <3>1. Outstanding(b, k.snd_nxt, g, St)
      BY DEF Loose
    <3>2. c = RemoveAt(b, n + 1) /\ b[n + 1].sn \in St
      BY <1>5
    <3> HIDE DEF b, c
    <3> QED BY ONLY <1>0, <2>1, <3>1, <3>2, RemoveOutstanding
  <2> HIDE DEF b, c
  <2>3. /\ l \in KcpRec /\ l.snd_buf = c
        /\ l.snd_queue = k.snd_queue /\ l.snd_una = k.snd_una /\ l.snd_nxt = k.snd_nxt
        /\ SameRcv(k, l) /\ SameWnd(k, l) /\ l.rmt_wnd = k.rmt_wnd
    BY <1>5, <2>2, PutSendBuf
  <2>4. \A j \in 1..Len(c) : k.snd_una <= c[j].sn
    BY <2>2 DEF Loose, Within, b
  <2>5. Loose(l, g, St, W)
    BY <2>2, <2>3, <2>4 DEF Loose
  <2> QED BY <2>3, <2>5
<1> QED BY <1>2, <1>4, <1>5

(***************************************************************************)
(* ikcp_shrink_buf makes snd_una the first number of snd_buf again,        *)
(* whatever was removed.                                                   *)
(***************************************************************************)
LEMMA ShrinkBufSending ==
  ASSUME NEW k \in KcpRec, NEW g, NEW St, NEW W \in Nat, Loose(k, g, St, W),
         NEW l, l = ShrinkBuf(k)
  PROVE  /\ l \in KcpRec /\ Sending(l, g, St, W)
         /\ SameRcv(k, l) /\ SameWnd(k, l)
<1> DEFINE b == k.snd_buf
           u == IF k.snd_buf # <<>> THEN Head(k.snd_buf).sn ELSE k.snd_nxt
<1>0. b \in Seq(SendSeg) /\ k.snd_nxt \in Nat /\ k.snd_una \in Nat
  BY DEF KcpRec
<1>1. /\ u \in Nat /\ k.snd_una <= u /\ u <= k.snd_nxt
      /\ \A j \in 1..Len(b) : u <= b[j].sn
      /\ u = IF b = <<>> THEN k.snd_nxt ELSE b[1].sn
  <2>1. CASE b = <<>>
    BY <1>0, <2>1 DEF Loose
  <2>2. CASE b # <<>>
    <3>1. 1 \in 1..Len(b) /\ Head(b) = b[1] /\ Len(b) \in Nat
      BY <1>0, <2>2
    <3>2. \A j \in 1..Len(b) : b[j] \in SendSeg
      BY <1>0
    <3>3. \A j \in 1..Len(b) : b[j].sn \in Nat
      BY <3>2 DEF SendSeg
    <3>4. u = b[1].sn /\ u \in Nat
      BY <2>2, <3>1, <3>3
    <3>5. k.snd_una <= u /\ u <= k.snd_nxt
      BY <3>1, <3>4, <1>0 DEF Loose, Outstanding
    <3>6. ASSUME NEW j \in 1..Len(b) PROVE u <= b[j].sn
      <4>1. j = 1 \/ 1 < j
        BY <3>1
      <4>2. CASE 1 < j
        <5>1. b[1].sn < b[j].sn
          BY <3>1, <4>2 DEF Loose, Outstanding, Ordered
        <5> QED BY <5>1, <3>1, <3>3, <3>4
      <4> QED BY <4>1, <4>2, <3>1, <3>3, <3>4
    <3> QED BY <2>2, <3>4, <3>5, <3>6
  <2> QED BY <2>1, <2>2
<1>2. l = [k EXCEPT !.snd_una = u]
  BY DEF ShrinkBuf
<1> HIDE DEF u
<1>3. /\ l \in KcpRec /\ l.snd_una = u
      /\ l.snd_queue = k.snd_queue /\ l.snd_buf = k.snd_buf /\ l.snd_nxt = k.snd_nxt
      /\ SameRcv(k, l) /\ SameWnd(k, l) /\ l.rmt_wnd = k.rmt_wnd
  BY <1>1, <1>2, PutUna
<1>4. k.snd_nxt <= u + W
  BY <1>0, <1>1 DEF Loose
<1>5. Loose(l, g, St, W)
  BY <1>1, <1>3, <1>4 DEF Loose
<1> QED BY <1>1, <1>3, <1>5 DEF Sending, First

(***************************************************************************)
(* ikcp_parse_fastack only marks segments.                                 *)
(***************************************************************************)
LEMMA ParseFastackSending ==
  ASSUME NEW k \in KcpRec, NEW g, NEW St, NEW W \in Nat, Sending(k, g, St, W),
         NEW sn \in Nat, NEW l, l = ParseFastack(k, sn)
  PROVE  /\ l \in KcpRec /\ Sending(l, g, St, W)
         /\ SameRcv(k, l) /\ SameWnd(k, l)
<1> DEFINE b == k.snd_buf
           c == [j \in DOMAIN b |-> IF b[j].sn < sn THEN Overtaken(b[j]) ELSE b[j]]
<1>0. b \in Seq(SendSeg) /\ k.snd_nxt \in Nat /\ k.snd_una \in Nat
  BY DEF KcpRec
<1>1. l = k \/ l = [k EXCEPT !.snd_buf = c]
  BY DEF ParseFastack
<1>2. CASE l = k
  BY <1>2 DEF SameRcv, SameWnd
<1>3. CASE l = [k EXCEPT !.snd_buf = c]
  <2>1. \A j \in 1..Len(b) : b[j] \in SendSeg
    BY <1>0
  <2>2. ASSUME NEW s \in SendSeg
        PROVE  /\ Overtaken(s) \in SendSeg /\ Overtaken(s).sn = s.sn
               /\ Overtaken(s).frg = s.frg /\ Overtaken(s).data = s.data
    <3>1. Lesser(s.fastack + 1, FastResend) \in Nat
      BY FastResendAssumption DEF Lesser, SendSeg
    <3> HIDE FastResendAssumption DEF Lesser
    <3> QED BY <3>1 DEF Overtaken, SendSeg
  <2>3. DOMAIN b = 1..Len(b) /\ Len(b) \in Nat
    BY <1>0
  <2>4. c \in [1..Len(b) -> SendSeg]
    BY <2>1, <2>2, <2>3
  <2>5. c \in Seq(SendSeg) /\ Len(c) = Len(b)
    BY <2>3, <2>4, Listed
  <2>6. \A j \in 1..Len(b) : c[j].sn = b[j].sn /\ c[j].frg = b[j].frg /\ c[j].data = b[j].data
    BY <2>1, <2>2, <2>3
  <2> HIDE DEF c
  <2>7. Outstanding(c, k.snd_nxt, g, St)
    BY <1>0, <2>5, <2>6, MarkOutstanding DEF Sending, Loose
  <2>8. /\ l \in KcpRec /\ l.snd_buf = c
        /\ l.snd_queue = k.snd_queue /\ l.snd_una = k.snd_una /\ l.snd_nxt = k.snd_nxt
        /\ SameRcv(k, l) /\ SameWnd(k, l) /\ l.rmt_wnd = k.rmt_wnd
    BY <1>3, <2>5, PutSendBuf
  <2>9. Loose(l, g, St, W)
    BY <2>5, <2>6, <2>7, <2>8 DEF Sending, Loose
  <2>10. c = <<>> <=> b = <<>>
    BY <1>0, <2>5
  <2>11. b # <<>> => c[1].sn = b[1].sn
    BY <1>0, <2>3, <2>6
  <2> QED BY <2>8, <2>9, <2>10, <2>11 DEF Sending, First
<1> QED BY <1>1, <1>2, <1>3

-----------------------------------------------------------------------------
\* rcv_buf: in order, in the window, and segments that were sent.
Buffered(b, nxt, wnd, h) ==
  /\ Ordered(b)
  /\ \A j \in 1..Len(b) : nxt <= b[j].sn /\ b[j].sn < nxt + wnd /\ At(b[j], h)

\* rcv_queue: the segments just below rcv_nxt.
InOrder(q, nxt, wnd, h) ==
  /\ Len(q) <= wnd /\ Len(q) <= nxt /\ nxt <= Len(h)
  /\ \A j \in 1..Len(q) : q[j].sn = nxt - Len(q) + j - 1 /\ At(q[j], h)

\* What could be in the queue is in the buffer only when the queue is full.
Full(b, nxt, q, wnd) == b # <<>> /\ b[1].sn = nxt => Len(q) = wnd

\* Nothing is lost when n segments leave b.
Moved(b, c, nxt, n) ==
  \A sn : Holds(b, sn) => sn < nxt + n \/ Holds(c, sn)

\* n is how many segments the loop moves from rcv_buf to rcv_queue.
Ready(b, q, nxt, wnd, n) ==
  /\ n \in 0..Len(b)
  /\ \A j \in 1..n : b[j].sn = nxt + j - 1 /\ Len(q) + j - 1 < wnd
  /\ n < Len(b) => ~(b[n + 1].sn = nxt + (n + 1) - 1 /\ Len(q) + (n + 1) - 1 < wnd)

\* All the loop starts from, and what it leaves.
Move(b, q, nxt, wnd, h, n, m, c, r) ==
  /\ b \in Seq(RecvSeg) /\ q \in Seq(RecvSeg) /\ nxt \in Nat /\ wnd \in Nat /\ Len(h) \in Nat
  /\ Buffered(b, nxt, wnd, h) /\ InOrder(q, nxt, wnd, h)
  /\ Ready(b, q, nxt, wnd, n)
  /\ m = nxt + n /\ c = SubSeq(b, n + 1, Len(b)) /\ r = q \o SubSeq(b, 1, n)

(***************************************************************************)
(* Taking the next n segments in order from rcv_buf to rcv_queue loses     *)
(* none and leaves both in order; it stops where a segment is missing or   *)
(* the queue is full.                                                      *)
(***************************************************************************)
LEMMA MoveBuffers ==
  ASSUME NEW b, NEW q, NEW nxt, NEW wnd, NEW h, NEW n, NEW m, NEW c, NEW r,
         Move(b, q, nxt, wnd, h, n, m, c, r)
  PROVE  /\ c \in Seq(RecvSeg) /\ r \in Seq(RecvSeg) /\ Len(r) = Len(q) + n
         /\ Buffered(c, m, wnd, h) /\ InOrder(r, m, wnd, h)
         /\ Full(c, m, r, wnd) /\ Moved(b, c, nxt, n)
<1>h. /\ b \in Seq(RecvSeg) /\ q \in Seq(RecvSeg) /\ nxt \in Nat /\ wnd \in Nat /\ Len(h) \in Nat
      /\ Buffered(b, nxt, wnd, h) /\ InOrder(q, nxt, wnd, h)
      /\ c = SubSeq(b, n + 1, Len(b)) /\ r = q \o SubSeq(b, 1, n)
  BY DEF Move
<1> USE <1>h
<1>0. /\ n \in 0..Len(b)
      /\ \A j \in 1..n : b[j].sn = nxt + j - 1 /\ Len(q) + j - 1 < wnd
      /\ n < Len(b) => ~(b[n + 1].sn = nxt + (n + 1) - 1 /\ Len(q) + (n + 1) - 1 < wnd)
  BY DEF Ready, Move
<1> USE <1>0
<1>m. m = nxt + n /\ m \in Nat
  BY <1>0 DEF Move
<1> DEFINE a == SubSeq(b, 1, n)
<1>1. /\ c \in Seq(RecvSeg) /\ Len(c) = Len(b) - n
      /\ \A j \in 1..Len(c) : n + j \in 1..Len(b) /\ c[j] = b[n + j]
      /\ \A i \in 1..Len(b) : i > n => i - n \in 1..Len(c) /\ c[i - n] = b[i]
  BY Dropped
<1>2. a \in Seq(RecvSeg) /\ Len(a) = n /\ \A j \in 1..n : a[j] = b[j]
  BY Kept
<1> HIDE DEF a
<1>3. /\ r \in Seq(RecvSeg) /\ Len(r) = Len(q) + Len(a)
      /\ \A j \in 1..Len(q) : r[j] = q[j]
      /\ \A j \in 1..Len(r) :
           j <= Len(q) \/ (j > Len(q) /\ j - Len(q) \in 1..Len(a) /\ r[j] = a[j - Len(q)])
  <2>1. a \in Seq(RecvSeg) /\ q \in Seq(RecvSeg) /\ r = q \o a
    BY <1>2 DEF a
  <2>2. r \in Seq(RecvSeg) /\ Appended(q, a, r)
    BY ONLY <2>1, Joined
  <2> QED BY <2>2 DEF Appended
<1>4. /\ Len(b) \in Nat /\ Len(c) \in Nat /\ n \in Nat /\ Len(q) \in Nat /\ Len(r) = Len(q) + n
      /\ nxt \in Nat /\ wnd \in Nat /\ Len(r) \in Nat
  BY <1>1, <1>2, <1>3, SMTT(30)
<1>5. \A j \in 1..Len(b) : b[j].sn \in Nat
  <2>1. \A j \in 1..Len(b) : b[j] \in RecvSeg
    OBVIOUS
  <2> QED BY <2>1 DEF RecvSeg
<1>6. \A j \in 1..n : j \in 1..Len(b)
  BY <1>4
<1>7. n > 0 => n \in 1..n /\ b[n].sn = nxt + n - 1 /\ Len(q) + n - 1 < wnd
               /\ b[n].sn < Len(h) /\ n \in 1..Len(b)
  <2>1. n > 0 => n \in 1..n /\ n \in 1..Len(b)
    BY <1>4
  <2> QED BY <2>1 DEF Buffered, At
<1>8. Buffered(c, m, wnd, h)
  <2>1. Ordered(c)
    <3> SUFFICES ASSUME NEW i \in 1..Len(c), NEW j \in 1..Len(c), i < j
                 PROVE  c[i].sn < c[j].sn
      BY DEF Ordered
    <3>1. n + i < n + j
      BY <1>4
    <3> QED BY <3>1, <1>1 DEF Ordered, Buffered
  <2>2. ASSUME NEW j \in 1..Len(c)
        PROVE  m <= c[j].sn /\ c[j].sn < m + wnd /\ At(c[j], h)
    <3>1. n + j \in 1..Len(b) /\ c[j] = b[n + j]
      BY <1>1
    <3>2. nxt <= b[n + j].sn /\ b[n + j].sn < nxt + wnd /\ At(b[n + j], h)
      BY <3>1 DEF Buffered
    <3>3. nxt + n <= b[n + j].sn
      <4>1. CASE n = 0
        BY <4>1, <3>2, <3>1, <1>5
      <4>2. CASE n > 0
        <5>1. n \in 1..Len(b) /\ b[n].sn = nxt + n - 1
          BY <4>2, <1>7
        <5>2. n < n + j
          BY <1>4
        <5>3. b[n].sn < b[n + j].sn
          BY <5>1, <5>2, <3>1 DEF Buffered, Ordered
        <5>4. b[n + j].sn \in Nat
          BY <3>1, <1>5
        <5> QED BY ONLY <5>1, <5>3, <5>4, <1>4
      <4> QED BY <4>1, <4>2, <1>4
    <3>4. b[n + j].sn < nxt + n + wnd
      <4>1. b[n + j].sn \in Nat /\ b[n + j].sn < nxt + wnd
        BY <3>1, <3>2, <1>5
      <4> QED BY ONLY <4>1, <1>4
    <3> QED BY <1>m, <3>1, <3>2, <3>3, <3>4
  <2> QED BY <2>1, <2>2 DEF Buffered
<1>9. InOrder(r, m, wnd, h)
  <2>1. Len(r) <= wnd /\ Len(r) <= m /\ m <= Len(h)
    <3>1. Len(q) <= wnd /\ Len(q) <= nxt /\ nxt <= Len(h)
      BY DEF InOrder
    <3>2. CASE n = 0
      BY <3>1, <3>2, <1>4, <1>m
    <3>3. CASE n > 0
      <4>1. nxt + n - 1 < Len(h) /\ Len(q) + n - 1 < wnd
        BY <3>3, <1>7
      <4> QED BY <3>1, <4>1, <1>4, <1>m
    <3> QED BY <3>2, <3>3, <1>4
  <2>2. ASSUME NEW j \in 1..Len(r)
        PROVE  r[j].sn = m - Len(r) + j - 1 /\ At(r[j], h)
    <3>1. CASE j <= Len(q)
      <4>1. j \in 1..Len(q) /\ m - Len(r) + j - 1 = nxt - Len(q) + j - 1
        <5>1. j \in Nat /\ j >= 1
          BY <1>4
        <5> QED BY ONLY <1>4, <1>m, <3>1, <5>1
      <4>2. r[j] = q[j]
        BY <4>1, <1>3
      <4> QED BY <4>1, <4>2 DEF InOrder
    <3>2. CASE j > Len(q) /\ j - Len(q) \in 1..Len(a) /\ r[j] = a[j - Len(q)]
      <4>1. j - Len(q) \in 1..n /\ m - Len(r) + j - 1 = nxt + (j - Len(q)) - 1
        <5>1. j \in Nat /\ Len(a) = n /\ j - Len(q) \in 1..Len(a)
          BY <1>2, <1>4, <3>2
        <5> QED BY ONLY <1>4, <1>m, <5>1
      <4>2. r[j] = b[j - Len(q)] /\ j - Len(q) \in 1..Len(b)
        BY <4>1, <3>2, <1>2, <1>6
      <4>3. b[j - Len(q)].sn = nxt + (j - Len(q)) - 1
        BY <4>1
      <4>4. At(b[j - Len(q)], h)
        BY <4>2 DEF Buffered
      <4> QED BY <4>1, <4>2, <4>3, <4>4
    <3> QED BY <3>1, <3>2, <1>3
  <2>3. \A j \in 1..Len(r) : r[j].sn = m - Len(r) + j - 1 /\ At(r[j], h)
    BY <2>2
  <2> QED BY ONLY <2>1, <2>3 DEF InOrder
<1>10. Full(c, m, r, wnd)
  <2> SUFFICES ASSUME c # <<>>, c[1].sn = m PROVE Len(r) = wnd
    BY DEF Full
  <2>1. 1 \in 1..Len(c)
    BY <1>1
  <2>2. n + 1 \in 1..Len(b) /\ c[1] = b[n + 1]
    BY <2>1, <1>1
  <2>3. n < Len(b) /\ nxt + (n + 1) - 1 = nxt + n /\ Len(q) + (n + 1) - 1 = Len(q) + n
    BY <2>2, <1>4
  <2>4. ~(Len(q) + n < wnd)
    BY <2>2, <2>3, <1>m
  <2>5. Len(r) <= wnd
    BY <1>9 DEF InOrder
  <2> QED BY ONLY <2>4, <2>5, <1>4
<1>11. Moved(b, c, nxt, n)
  <2> SUFFICES ASSUME NEW i \in 1..Len(b) PROVE b[i].sn < nxt + n \/ Holds(c, b[i].sn)
    BY DEF Moved, Holds
  <2>1. CASE i > n
    BY <2>1, <1>1 DEF Holds
  <2>2. CASE i <= n
    <3>1. i \in 1..n
      BY <1>4, <2>2
    <3>2. b[i].sn = nxt + i - 1
      BY <3>1
    <3> QED BY <3>1, <3>2, <1>4
  <2> QED BY <2>1, <2>2, <1>4
<1> QED BY <1>1, <1>3, <1>4, <1>8, <1>9, <1>10, <1>11

\* c holds what b holds.
Covers(b, c) == \A sn : Holds(b, sn) => Holds(c, sn)

(***************************************************************************)
(* Inserting a segment by its number keeps rcv_buf in order. (That it is   *)
(* not there already is what Insert's search finds out.)                   *)
(***************************************************************************)
LEMMA InsertBuffers ==
  ASSUME NEW b \in Seq(RecvSeg), NEW seg \in RecvSeg, NEW nxt \in Nat, NEW wnd \in Nat, NEW h,
         Buffered(b, nxt, wnd, h),
         nxt <= seg.sn, seg.sn < nxt + wnd, At(seg, h),
         NEW c, c = Insert(b, seg)
  PROVE  /\ c \in Seq(RecvSeg) /\ Buffered(c, nxt, wnd, h)
         /\ Covers(b, c) /\ Holds(c, seg.sn)
<1> DEFINE S == {n \in 0..Len(b) : n = 0 \/ b[n].sn <= seg.sn}
           p == Max(S)
<1>0. Len(b) \in Nat /\ seg.sn \in Nat /\ \A j \in 1..Len(b) : b[j].sn \in Nat
  <2>1. \A j \in 1..Len(b) : b[j] \in RecvSeg
    OBVIOUS
  <2> QED BY <2>1 DEF RecvSeg
<1>1. S \in SUBSET (0..Len(b)) /\ 0 \in S
  BY <1>0
<1>2. p \in S /\ \A y \in S : y <= p
  BY <1>0, <1>1, MaxOf
<1>3. c = IF p > 0 /\ b[p].sn = seg.sn THEN b ELSE InsertAt(b, p + 1, seg)
  BY DEF Insert
<1> HIDE DEF p
<1>4. p \in 0..Len(b) /\ (p > 0 => p \in 1..Len(b) /\ b[p].sn <= seg.sn)
  BY <1>0, <1>2
<1>5. ASSUME NEW j \in 1..Len(b), j > p PROVE seg.sn < b[j].sn
  <2>1. j \notin S
    BY <1>2, <1>4, <1>5, <1>0
  <2> QED BY <2>1, <1>0
<1>6. ASSUME NEW j \in 1..p, b[p].sn # seg.sn PROVE j \in 1..Len(b) /\ b[j].sn < seg.sn
  <2>1. p > 0 /\ j \in 1..Len(b) /\ (j = p \/ j < p)
    BY <1>0, <1>4
  <2>2. b[p].sn < seg.sn
    BY <2>1, <1>4, <1>6, <1>0
  <2>3. j < p => b[j].sn < b[p].sn
    BY <2>1, <1>4 DEF Buffered, Ordered
  <2> QED BY <2>1, <2>2, <2>3, <1>0, <1>4
<1> HIDE DEF S
<1>7. CASE p > 0 /\ b[p].sn = seg.sn
  <2>1. c = b
    BY <1>3, <1>7
  <2> QED BY <2>1, <1>4, <1>7 DEF Covers, Holds
<1>8. CASE ~(p > 0 /\ b[p].sn = seg.sn)
  <2>1. c = InsertAt(b, p + 1, seg)
    BY <1>3, <1>8
  <2>2. /\ c \in Seq(RecvSeg) /\ Len(c) = Len(b) + 1
        /\ \A j \in 1..p : j \in 1..Len(b) /\ c[j] = b[j]
        /\ c[p + 1] = seg
        /\ \A j \in 1..Len(c) : j > p + 1 => j - 1 \in 1..Len(b) /\ c[j] = b[j - 1]
    <3>1. p \in 0..Len(b)
      BY <1>4
    <3>2. b \in Seq(RecvSeg) /\ seg \in RecvSeg
      OBVIOUS
    <3>3. c \in Seq(RecvSeg) /\ Widened(b, p, seg, c)
      BY ONLY <2>1, <3>1, <3>2, Inserted
    <3> QED BY <3>3 DEF Widened
  <2>3. \A j \in 1..Len(c) : j \in 1..p \/ j = p + 1 \/ j > p + 1
    BY <2>2, <1>0, <1>4
  <2>4. \A j \in 1..p : c[j].sn < seg.sn /\ b[p].sn # seg.sn
    <3>1. p > 0 => b[p].sn # seg.sn
      BY <1>8
    <3>2. \A j \in 1..p : p > 0
      BY <1>0, <1>4
    <3> QED BY <3>1, <3>2, <1>6, <2>2
  <2>5. \A j \in 1..Len(c) : j > p + 1 => seg.sn < c[j].sn
    <3>1. \A j \in 1..Len(c) : j > p + 1 => j - 1 > p
      BY <1>4, <2>2, <1>0
    <3> QED BY <3>1, <2>2, <1>5
  <2>6. Ordered(c)
    <3> SUFFICES ASSUME NEW i \in 1..Len(c), NEW j \in 1..Len(c), i < j
                 PROVE  c[i].sn < c[j].sn
      BY DEF Ordered
    <3>0. i \in Nat /\ j \in Nat /\ p \in Nat
      BY <2>2, <1>0, <1>4
    <3>1. CASE i \in 1..p /\ j \in 1..p
      BY <3>1, <2>2 DEF Buffered, Ordered
    <3>2. CASE i \in 1..p /\ j = p + 1
      BY <3>2, <2>2, <2>4
    <3>3. CASE i \in 1..p /\ j > p + 1
      <4>1. j - 1 \in 1..Len(b) /\ c[j] = b[j - 1] /\ i \in 1..Len(b) /\ c[i] = b[i] /\ i < j - 1
        BY <3>0, <3>3, <2>2
      <4> QED BY <4>1 DEF Buffered, Ordered
    <3>4. CASE i = p + 1 /\ j > p + 1
      BY <3>4, <2>2, <2>5
    <3>5. CASE i > p + 1 /\ j > p + 1
      <4>1. /\ j - 1 \in 1..Len(b) /\ c[j] = b[j - 1]
            /\ i - 1 \in 1..Len(b) /\ c[i] = b[i - 1] /\ i - 1 < j - 1
        BY <3>0, <3>5, <2>2
      <4> QED BY <4>1 DEF Buffered, Ordered
    <3>6. \/ i \in 1..p /\ j \in 1..p
          \/ i \in 1..p /\ j = p + 1
          \/ i \in 1..p /\ j > p + 1
          \/ i = p + 1 /\ j > p + 1
          \/ i > p + 1 /\ j > p + 1
      BY <3>0, <2>3
    <3> QED BY <3>1, <3>2, <3>3, <3>4, <3>5, <3>6
  <2>7. ASSUME NEW j \in 1..Len(c)
        PROVE  nxt <= c[j].sn /\ c[j].sn < nxt + wnd /\ At(c[j], h)
    <3>1. c[j] = seg \/ \E i \in 1..Len(b) : c[j] = b[i]
      BY <2>2, <2>3
    <3> QED BY <3>1 DEF Buffered
  <2>8. Holds(c, seg.sn)
    <3>1. p + 1 \in 1..Len(c)
      BY <1>0, <1>4, <2>2
    <3> QED BY <3>1, <2>2 DEF Holds
  <2>9. Covers(b, c)
    <3> SUFFICES ASSUME NEW i \in 1..Len(b) PROVE Holds(c, b[i].sn)
      BY DEF Covers, Holds
    <3>1. CASE i <= p
      <4>1. i \in 1..p /\ i \in 1..Len(c)
        BY <3>1, <1>0, <1>4, <2>2
      <4> QED BY <4>1, <2>2 DEF Holds
    <3>2. CASE i > p
      <4>1. i + 1 \in 1..Len(c) /\ i + 1 > p + 1 /\ (i + 1) - 1 = i
        BY <3>2, <1>0, <1>4, <2>2
      <4>2. c[i + 1] = b[i]
        BY <4>1, <2>2
      <4> QED BY <4>1, <4>2 DEF Holds
    <3> QED BY <3>1, <3>2, <1>0, <1>4
  <2> QED BY <2>2, <2>6, <2>7, <2>8, <2>9 DEF Buffered
<1> QED BY <1>7, <1>8

\* The endpoint has segment sn: buffered, queued or returned already.
Stored(k, sn) == sn < k.rcv_nxt \/ Holds(k.rcv_buf, sn)

\* Only what it has is going to be acknowledged.
AcksKept(k) == \A j \in 1..Len(k.acklist) : Stored(k, k.acklist[j])

\* The receiving half of a control block while a segment is being put in.
Unpacked(k, h) ==
  /\ Buffered(k.rcv_buf, k.rcv_nxt, k.rcv_wnd, h)
  /\ InOrder(k.rcv_queue, k.rcv_nxt, k.rcv_wnd, h)

\* And otherwise.
Receiving(k, h) ==
  /\ Unpacked(k, h)
  /\ Full(k.rcv_buf, k.rcv_nxt, k.rcv_queue, k.rcv_wnd)
  /\ AcksKept(k)

\* l has what k has, and no message was returned in between.
Grows(k, l) ==
  /\ \A sn \in Nat : Stored(k, sn) => Stored(l, sn)
  /\ l.rcv_nxt - Len(l.rcv_queue) = k.rcv_nxt - Len(k.rcv_queue)

(***************************************************************************)
(* The loop at the end of ikcp_parse_data and of ikcp_recv.                *)
(***************************************************************************)
LEMMA MoveReadyReceiving ==
  ASSUME NEW k \in KcpRec, NEW h \in Seq(Item), Unpacked(k, h),
         NEW l, l = MoveReady(k)
  PROVE  /\ l \in KcpRec /\ Unpacked(l, h)
         /\ Full(l.rcv_buf, l.rcv_nxt, l.rcv_queue, l.rcv_wnd)
         /\ Grows(k, l) /\ l.acklist = k.acklist
         /\ SameSnd(k, l) /\ SameWnd(k, l) /\ l.rmt_wnd = k.rmt_wnd
<1> DEFINE b == k.rcv_buf
           q == k.rcv_queue
           nxt == k.rcv_nxt
           wnd == k.rcv_wnd
           P == {j \in 1..Len(b) : b[j].sn = nxt + j - 1 /\ Len(q) + j - 1 < wnd}
           S == {m \in 0..Len(b) : \A j \in 1..m : b[j].sn = nxt + j - 1 /\ Len(q) + j - 1 < wnd}
           n == Leading(k.rcv_buf, LAMBDA j : /\ k.rcv_buf[j].sn = k.rcv_nxt + j - 1
                                              /\ Len(k.rcv_queue) + j - 1 < k.rcv_wnd)
           u == nxt + n
           c == SubSeq(b, n + 1, Len(b))
           r == q \o SubSeq(b, 1, n)
<1>0. /\ b \in Seq(RecvSeg) /\ q \in Seq(RecvSeg) /\ nxt \in Nat /\ wnd \in Nat
      /\ Len(b) \in Nat /\ Len(q) \in Nat /\ Len(h) \in Nat
  BY DEF KcpRec
<1>1. n = Max(S) /\ \A m : m \in S <=> m \in 0..Len(b) /\ \A j \in 1..m : j \in P
  <2>1. n = Max(S)
    BY DEF Leading
  <2>2. ASSUME NEW m \in 0..Len(b) PROVE \A j \in 1..m : j \in 1..Len(b)
    BY <1>0
  <2> QED BY <2>1, <2>2
<1>2. l = [k EXCEPT !.rcv_queue = r, !.rcv_buf = c, !.rcv_nxt = u]
  BY DEF MoveReady
<1> HIDE DEF n, S, P
<1>3. /\ n \in 0..Len(b)
      /\ \A j \in 1..n : j \in P
      /\ n < Len(b) => n + 1 \notin P
  BY ONLY <1>0, <1>1, LeadingOf
<1>4. /\ \A j \in 1..n : b[j].sn = nxt + j - 1 /\ Len(q) + j - 1 < wnd
      /\ n < Len(b) => ~(b[n + 1].sn = nxt + (n + 1) - 1 /\ Len(q) + (n + 1) - 1 < wnd)
  <2>1. n < Len(b) => n + 1 \in 1..Len(b)
    BY <1>0, <1>3
  <2> QED BY <2>1, <1>3 DEF P
<1>5. Buffered(b, nxt, wnd, h) /\ InOrder(q, nxt, wnd, h)
  BY DEF Unpacked
<1>6. u = nxt + n /\ c = SubSeq(b, n + 1, Len(b)) /\ r = q \o SubSeq(b, 1, n)
  OBVIOUS
<1> HIDE DEF b, q, nxt, wnd, c, r, u
<1>7. /\ c \in Seq(RecvSeg) /\ r \in Seq(RecvSeg) /\ Len(r) = Len(q) + n
      /\ Buffered(c, u, wnd, h) /\ InOrder(r, u, wnd, h)
      /\ Full(c, u, r, wnd) /\ Moved(b, c, nxt, n)
  <2>1. Ready(b, q, nxt, wnd, n)
    BY <1>3, <1>4 DEF Ready
  <2>2. Move(b, q, nxt, wnd, h, n, u, c, r)
    BY ONLY <1>0, <1>5, <1>6, <2>1 DEF Move
  <2> QED BY ONLY <2>2, MoveBuffers
<1>8. u \in Nat /\ u = nxt + n
  BY <1>0, <1>3, <1>6
<1>9. /\ l \in KcpRec /\ l.rcv_queue = r /\ l.rcv_buf = c /\ l.rcv_nxt = u
      /\ l.acklist = k.acklist
      /\ SameSnd(k, l) /\ SameWnd(k, l) /\ l.rmt_wnd = k.rmt_wnd
  <2>1. k \in KcpRec
    OBVIOUS
  <2> QED BY ONLY <1>2, <1>7, <1>8, <2>1 DEF KcpRec, SameSnd, SameWnd
<1>10. l.rcv_wnd = wnd
  BY <1>9 DEF SameWnd, wnd
<1>11. Unpacked(l, h) /\ Full(l.rcv_buf, l.rcv_nxt, l.rcv_queue, l.rcv_wnd)
  BY <1>7, <1>9, <1>10 DEF Unpacked
<1>12. ASSUME NEW sn \in Nat, Stored(k, sn) PROVE Stored(l, sn)
  <2>1. CASE sn < nxt
    BY <2>1, <1>0, <1>3, <1>8, <1>9 DEF Stored
  <2>2. CASE Holds(b, sn)
    BY <2>2, <1>7, <1>8, <1>9 DEF Stored, Moved
  <2> QED BY <1>12, <2>1, <2>2 DEF Stored, nxt, b
<1>13. l.rcv_nxt - Len(l.rcv_queue) = k.rcv_nxt - Len(k.rcv_queue)
  <2>1. l.rcv_nxt - Len(l.rcv_queue) = (nxt + n) - (Len(q) + n)
    BY <1>7, <1>8, <1>9
  <2>2. (nxt + n) - (Len(q) + n) = nxt - Len(q)
    BY ONLY <1>0, <1>3
  <2> QED BY <2>1, <2>2 DEF nxt, q
<1> QED BY <1>9, <1>11, <1>12, <1>13 DEF Grows

(***************************************************************************)
(* ikcp_parse_data: a segment below the window's end is held afterwards,   *)
(* once, or was held already.                                              *)
(***************************************************************************)
LEMMA ParseDataReceiving ==
  ASSUME NEW k \in KcpRec, NEW h \in Seq(Item), Unpacked(k, h),
         Full(k.rcv_buf, k.rcv_nxt, k.rcv_queue, k.rcv_wnd),
         NEW seg \in RecvSeg, seg.sn < k.rcv_nxt + k.rcv_wnd, At(seg, h),
         NEW l, l = ParseData(k, seg)
  PROVE  /\ l \in KcpRec /\ Unpacked(l, h)
         /\ Full(l.rcv_buf, l.rcv_nxt, l.rcv_queue, l.rcv_wnd)
         /\ Grows(k, l) /\ Stored(l, seg.sn) /\ l.acklist = k.acklist
         /\ SameSnd(k, l) /\ SameWnd(k, l) /\ l.rmt_wnd = k.rmt_wnd
<1>0. /\ k.rcv_buf \in Seq(RecvSeg) /\ k.rcv_nxt \in Nat /\ k.rcv_wnd \in Nat /\ seg.sn \in Nat
  BY DEF KcpRec, RecvSeg
<1>1. CASE ~InWindow(k, seg.sn)
  <2>1. l = k
    BY <1>1 DEF ParseData
  <2>2. seg.sn < k.rcv_nxt
    BY <1>0, <1>1 DEF InWindow
  <2> QED BY <2>1, <2>2 DEF Grows, Stored, SameSnd, SameWnd
<1>2. CASE InWindow(k, seg.sn)
  <2> DEFINE c == Insert(k.rcv_buf, seg)
             m == [k EXCEPT !.rcv_buf = c]
  <2>1. l = MoveReady(m)
    BY <1>2 DEF ParseData
  <2>2. /\ c \in Seq(RecvSeg) /\ Buffered(c, k.rcv_nxt, k.rcv_wnd, h)
        /\ Covers(k.rcv_buf, c) /\ Holds(c, seg.sn)
    <3>1. Buffered(k.rcv_buf, k.rcv_nxt, k.rcv_wnd, h)
      BY DEF Unpacked
    <3>2. k.rcv_nxt <= seg.sn /\ seg.sn < k.rcv_nxt + k.rcv_wnd
      BY <1>2 DEF InWindow
    <3>3. seg \in RecvSeg /\ At(seg, h)
      OBVIOUS
    <3>4. c = Insert(k.rcv_buf, seg)
      OBVIOUS
    <3> HIDE DEF c
    <3> QED BY ONLY <1>0, <3>1, <3>2, <3>3, <3>4, InsertBuffers
  <2> HIDE DEF c
  <2>3. /\ m \in KcpRec /\ m.rcv_buf = c
        /\ m.rcv_queue = k.rcv_queue /\ m.acklist = k.acklist /\ m.rcv_nxt = k.rcv_nxt
        /\ SameSnd(k, m) /\ SameWnd(k, m) /\ m.rmt_wnd = k.rmt_wnd
    BY <2>2, PutRecvBuf
  <2> HIDE DEF m
  <2>4. Unpacked(m, h)
    BY <2>2, <2>3 DEF Unpacked, SameWnd
  <2>5. /\ l \in KcpRec /\ Unpacked(l, h)
        /\ Full(l.rcv_buf, l.rcv_nxt, l.rcv_queue, l.rcv_wnd)
        /\ Grows(m, l) /\ l.acklist = m.acklist
        /\ SameSnd(m, l) /\ SameWnd(m, l) /\ l.rmt_wnd = m.rmt_wnd
    BY <2>1, <2>3, <2>4, MoveReadyReceiving
  <2>6. Grows(k, l)
    <3>1. \A sn : Stored(k, sn) => Stored(m, sn)
      BY <2>2, <2>3 DEF Stored, Covers
    <3> QED BY <3>1, <2>3, <2>5 DEF Grows
  <2>7. Stored(l, seg.sn)
    BY <1>0, <2>2, <2>3, <2>5 DEF Grows, Stored
  <2> QED BY <2>3, <2>5, <2>6, <2>7 DEF SameSnd, SameWnd
<1> QED BY <1>1, <1>2

(***************************************************************************)
(* IKCP_CMD_PUSH: the segment is put on the acklist only when it is in the *)
(* window or below it, so it is held when ikcp_flush acknowledges it.      *)
(***************************************************************************)
LEMMA InputPushReceiving ==
  ASSUME NEW k \in KcpRec, NEW h \in Seq(Item), Receiving(k, h),
         NEW seg, seg.sn \in Nat, seg.frg \in Nat, seg.data \in Token, At(seg, h),
         NEW l, l = InputPush(k, seg)
  PROVE  /\ l \in KcpRec /\ Receiving(l, h) /\ Grows(k, l)
         /\ SameSnd(k, l) /\ SameWnd(k, l) /\ l.rmt_wnd = k.rmt_wnd
<1>1. CASE ~(seg.sn < k.rcv_nxt + k.rcv_wnd)
  <2>1. l = k
    BY <1>1 DEF InputPush
  <2> QED BY <2>1 DEF Grows, SameSnd, SameWnd
<1>2. CASE seg.sn < k.rcv_nxt + k.rcv_wnd
  <2> DEFINE a == Append(k.acklist, seg.sn)
             m == [k EXCEPT !.acklist = a]
             s == [sn |-> seg.sn, frg |-> seg.frg, data |-> seg.data]
  <2>1. l = ParseData(m, s)
    BY <1>2 DEF InputPush
  <2>2. a \in Seq(Nat) /\ Len(a) = Len(k.acklist) + 1 /\ Len(k.acklist) \in Nat
        /\ a[Len(k.acklist) + 1] = seg.sn
        /\ \A j \in 1..Len(k.acklist) : a[j] = k.acklist[j] /\ k.acklist[j] \in Nat
    <3>1. k.acklist \in Seq(Nat)
      BY DEF KcpRec
    <3> QED BY <3>1
  <2>3. s \in RecvSeg /\ s.sn = seg.sn /\ At(s, h)
    BY DEF RecvSeg, At
  <2> HIDE DEF a, s
  <2>4. /\ m \in KcpRec /\ m.acklist = a
        /\ m.rcv_queue = k.rcv_queue /\ m.rcv_buf = k.rcv_buf /\ m.rcv_nxt = k.rcv_nxt
        /\ SameSnd(k, m) /\ SameWnd(k, m) /\ m.rmt_wnd = k.rmt_wnd
    BY <2>2, PutAcklist
  <2> HIDE DEF m
  <2>5. Unpacked(m, h) /\ Full(m.rcv_buf, m.rcv_nxt, m.rcv_queue, m.rcv_wnd)
        /\ s.sn < m.rcv_nxt + m.rcv_wnd
    BY <1>2, <2>3, <2>4 DEF Receiving, Unpacked, SameWnd
  <2>6. /\ l \in KcpRec /\ Unpacked(l, h)
        /\ Full(l.rcv_buf, l.rcv_nxt, l.rcv_queue, l.rcv_wnd)
        /\ Grows(m, l) /\ Stored(l, s.sn) /\ l.acklist = m.acklist
        /\ SameSnd(m, l) /\ SameWnd(m, l) /\ l.rmt_wnd = m.rmt_wnd
    BY <2>1, <2>3, <2>4, <2>5, ParseDataReceiving
  <2>7. Grows(k, l)
    <3>1. \A sn : Stored(k, sn) => Stored(m, sn)
      BY <2>4 DEF Stored
    <3> QED BY <3>1, <2>4, <2>6 DEF Grows
  <2>8. ASSUME NEW j \in 1..Len(l.acklist) PROVE Stored(l, l.acklist[j])
    <3>1. l.acklist = a
      BY <2>4, <2>6
    <3>2. CASE j = Len(k.acklist) + 1
      BY <3>1, <3>2, <2>2, <2>3, <2>6
    <3>3. CASE j \in 1..Len(k.acklist)
      <4>1. Stored(k, k.acklist[j]) /\ k.acklist[j] \in Nat /\ a[j] = k.acklist[j]
        BY <3>3, <2>2 DEF Receiving, AcksKept
      <4> QED BY <4>1, <3>1, <2>7 DEF Grows
    <3> QED BY <3>1, <3>2, <3>3, <2>2
  <2>9. Receiving(l, h)
    BY <2>6, <2>8 DEF Receiving, AcksKept
  <2> QED BY <2>4, <2>6, <2>7, <2>9 DEF SameSnd, SameWnd
<1> QED BY <1>1, <1>2

-----------------------------------------------------------------------------
\* What a segment on its way says is true: St is what its sender holds, h
\* what its sender has sent and W the window.
Wire(seg, St, h, W) ==
  /\ seg \in WireSeg /\ seg.wnd <= W
  /\ \A sn \in 0..(seg.una - 1) : sn \in St
  /\ seg.cmd = "ACK" => seg.sn \in St
  /\ seg.cmd = "PUSH" => At(seg, h)

\* The invariant of one control block: g is what it was given to send, h
\* what its peer was given, and St what its peer has.
Endpoint(k, g, h, St, W) ==
  /\ k \in KcpRec /\ h \in Seq(Item) /\ W \in Nat
  /\ Sending(k, g, St, W) /\ Receiving(k, h)

\* l is k some calls later, with no ikcp_recv among them.
Later(k, l) == Grows(k, l) /\ SameWnd(k, l)

(***************************************************************************)
(* Later is transitive.                                                    *)
(***************************************************************************)
LEMMA LaterTransitive ==
  ASSUME NEW k, NEW l, NEW m, Later(k, l), Later(l, m)
  PROVE  Later(k, m)
BY DEF Later, Grows, SameWnd

(***************************************************************************)
(* What a step leaves of the sending half keeps its invariant.             *)
(***************************************************************************)
LEMMA SameSending ==
  ASSUME NEW k, NEW l, NEW g, NEW St, NEW W, SameSnd(k, l), l.rmt_wnd = k.rmt_wnd
  PROVE  /\ Loose(k, g, St, W) => Loose(l, g, St, W)
         /\ Sending(k, g, St, W) => Sending(l, g, St, W)
BY DEF SameSnd, Loose, Sending

(***************************************************************************)
(* What a step leaves of the receiving half keeps its invariant.           *)
(***************************************************************************)
LEMMA SameReceiving ==
  ASSUME NEW k, NEW l, NEW h, SameRcv(k, l), SameWnd(k, l)
  PROVE  (Receiving(k, h) => Receiving(l, h)) /\ Later(k, l)
<1>1. \A sn : Stored(k, sn) <=> Stored(l, sn)
  BY DEF SameRcv, Stored
<1>2. Grows(k, l)
  BY <1>1 DEF Grows, SameRcv
<1>3. AcksKept(k) => AcksKept(l)
  BY <1>1 DEF AcksKept, SameRcv
<1>4. Unpacked(k, h) => Unpacked(l, h)
  BY DEF Unpacked, SameRcv, SameWnd
<1>5. Full(k.rcv_buf, k.rcv_nxt, k.rcv_queue, k.rcv_wnd)
        => Full(l.rcv_buf, l.rcv_nxt, l.rcv_queue, l.rcv_wnd)
  BY DEF SameRcv, SameWnd
<1> QED BY <1>2, <1>3, <1>4, <1>5 DEF Receiving, Later

\* The invariant of ikcp_input's loop.
Looping(st, g, h, St, W) ==
  Endpoint(st.kcp, g, h, St, W) /\ st.maxack \in Nat \cup {-1}

(***************************************************************************)
(* One turn of ikcp_input's loop, for a segment of which all that it says  *)
(* is true.                                                                *)
(***************************************************************************)
LEMMA InputSegmentEndpoint ==
  ASSUME NEW st, NEW g, NEW h, NEW St, NEW W, Looping(st, g, h, St, W),
         NEW seg, Wire(seg, St, h, W),
         NEW r, r = InputSegment(st, seg)
  PROVE  Looping(r, g, h, St, W) /\ Later(st.kcp, r.kcp)
<1> DEFINE k0 == st.kcp
           k1 == [k0 EXCEPT !.rmt_wnd = seg.wnd]
           k2 == ParseUna(k1, seg.una)
           k == ShrinkBuf(k2)
           l == CASE seg.cmd = "ACK"  -> ShrinkBuf(ParseAck(k, seg.sn))
                  [] seg.cmd = "PUSH" -> InputPush(k, seg)
                  [] seg.cmd = "WASK" -> [k EXCEPT !.probe = @ \union {"ASK_TELL"}]
                  [] seg.cmd = "WINS" -> k
<1>0. /\ k0 \in KcpRec /\ h \in Seq(Item) /\ W \in Nat
      /\ Sending(k0, g, St, W) /\ Receiving(k0, h)
  BY DEF Endpoint, Looping
<1>1. /\ seg.wnd \in Nat /\ seg.una \in Nat /\ seg.sn \in Nat /\ seg.frg \in Nat
      /\ seg.cmd \in {"ACK", "PUSH", "WASK", "WINS"}
  BY DEF Wire, WireSeg
<1>2. r.kcp = l /\ r.maxack = IF seg.cmd = "ACK" THEN Max({st.maxack, seg.sn}) ELSE st.maxack
  BY DEF InputSegment
<1>3. r.maxack \in Nat \cup {-1}
  <2>1. CASE seg.cmd = "ACK"
    <3> DEFINE T == {st.maxack, seg.sn}
    <3>1. \E x \in T : \A y \in T : x >= y
      BY <1>1 DEF Looping
    <3>2. Max(T) \in T
      BY <3>1 DEF Max
    <3> QED BY <1>1, <1>2, <2>1, <3>2 DEF Looping
  <2> QED BY <1>2, <2>1 DEF Looping
<1>4. k1 \in KcpRec /\ k1.rmt_wnd = seg.wnd /\ SameSnd(k0, k1) /\ SameRcv(k0, k1) /\ SameWnd(k0, k1)
  BY <1>0, <1>1, PutRemote
<1>5. Loose(k1, g, St, W)
  BY <1>4 , <1>0 DEF SameSnd, Sending, Loose, Wire
<1> HIDE DEF k1
<1>6. k2 \in KcpRec /\ Loose(k2, g, St, W) /\ SameRcv(k1, k2) /\ SameWnd(k1, k2)
  <2>1. \A sn \in 0..(seg.una - 1) : sn \in St
    BY DEF Wire
  <2>2. k2 = ParseUna(k1, seg.una)
    OBVIOUS
  <2> HIDE DEF k2
  <2> QED BY ONLY <1>0, <1>1, <1>4, <1>5, <2>1, <2>2, ParseUnaLoose
<1> HIDE DEF k2
<1>7. k \in KcpRec /\ Sending(k, g, St, W) /\ SameRcv(k2, k) /\ SameWnd(k2, k)
  <2>1. k = ShrinkBuf(k2)
    OBVIOUS
  <2> HIDE DEF k
  <2> QED BY ONLY <1>0, <1>6, <2>1, ShrinkBufSending
<1> HIDE DEF k
<1>8. Receiving(k, h) /\ Later(k0, k)
  <2>1. SameRcv(k0, k) /\ SameWnd(k0, k)
    BY ONLY <1>4, <1>6, <1>7 DEF SameRcv, SameWnd
  <2> QED BY ONLY <2>1, <1>0, SameReceiving
<1>9. l \in KcpRec /\ Sending(l, g, St, W) /\ Receiving(l, h) /\ Later(k, l)
  <2>1. CASE seg.cmd = "ACK"
    <3> DEFINE a == ParseAck(k, seg.sn)
    <3>1. l = ShrinkBuf(a)
      BY <2>1
    <3>2. a = ParseAck(k, seg.sn)
      OBVIOUS
    <3>3. Loose(k, g, St, W) /\ seg.sn \in St
      BY <1>7, <2>1 DEF Sending, Wire
    <3> HIDE DEF l, a
    <3>4. a \in KcpRec /\ Loose(a, g, St, W) /\ SameRcv(k, a) /\ SameWnd(k, a)
      BY ONLY <1>0, <1>1, <1>7, <3>2, <3>3, ParseAckLoose
    <3>5. l \in KcpRec /\ Sending(l, g, St, W) /\ SameRcv(a, l) /\ SameWnd(a, l)
      BY ONLY <1>0, <3>1, <3>4, ShrinkBufSending
    <3>6. SameRcv(k, l) /\ SameWnd(k, l)
      BY ONLY <3>4, <3>5 DEF SameRcv, SameWnd
    <3>7. Receiving(l, h) /\ Later(k, l)
      BY ONLY <1>8, <3>6, SameReceiving
    <3> QED BY <3>5, <3>7
  <2>2. CASE seg.cmd = "PUSH"
    <3>1. l = InputPush(k, seg)
      BY <2>2
    <3>2. At(seg, h)
      BY <2>2 DEF Wire
    <3>3. seg.data \in Token
      <4>1. seg.sn < Len(h) /\ seg.data = h[seg.sn + 1].data
        BY <3>2 DEF At
      <4>2. seg.sn + 1 \in 1..Len(h)
        BY <1>0, <1>1, <4>1
      <4>3. h[seg.sn + 1] \in Item
        BY <1>0, <4>2
      <4> QED BY <4>1, <4>3 DEF Item
    <3> HIDE DEF l
    <3>4. /\ l \in KcpRec /\ Receiving(l, h) /\ Grows(k, l)
          /\ SameSnd(k, l) /\ SameWnd(k, l) /\ l.rmt_wnd = k.rmt_wnd
      BY ONLY <1>0, <1>1, <1>7, <1>8, <3>1, <3>2, <3>3, InputPushReceiving
    <3>5. Sending(l, g, St, W)
      BY ONLY <1>7, <3>4, SameSending
    <3> QED BY <3>4, <3>5 DEF Later
  <2>3. CASE seg.cmd = "WASK"
    <3> DEFINE p == k.probe \union {"ASK_TELL"}
    <3>1. l = [k EXCEPT !.probe = p]
      BY <2>3
    <3>2. p \in SUBSET {"ASK_SEND", "ASK_TELL"}
      BY <1>7 DEF KcpRec
    <3> HIDE DEF l, p
    <3>3. /\ l \in KcpRec /\ l.rmt_wnd = k.rmt_wnd
          /\ SameSnd(k, l) /\ SameRcv(k, l) /\ SameWnd(k, l)
      BY ONLY <1>7, <3>1, <3>2, PutProbe
    <3>4. Sending(l, g, St, W)
      BY ONLY <1>7, <3>3, SameSending
    <3>5. Receiving(l, h) /\ Later(k, l)
      BY ONLY <1>8, <3>3, SameReceiving
    <3> QED BY <3>3, <3>4, <3>5
  <2>4. CASE seg.cmd = "WINS"
    <3>1. l = k
      BY <2>4
    <3> HIDE DEF l
    <3>2. SameRcv(k, l) /\ SameWnd(k, l)
      BY <3>1 DEF SameRcv, SameWnd
    <3>3. Later(k, l)
      BY ONLY <3>2, SameReceiving
    <3> QED BY <3>1, <3>3, <1>7, <1>8
  <2> QED BY <1>1, <2>1, <2>2, <2>3, <2>4
<1> HIDE DEF l, k0
<1>10. Later(k0, l)
  BY ONLY <1>8, <1>9, LaterTransitive
<1> QED BY <1>0, <1>2, <1>3, <1>9, <1>10 DEF Endpoint, Looping, k0

(***************************************************************************)
(* ikcp_input's loop is a function: it has the value of its recursive      *)
(* definition after every turn.                                            *)
(***************************************************************************)
LEMMA InputLoopSteps ==
  ASSUME NEW k, NEW d, Len(d) \in Nat
  PROVE  /\ InputLoop(k, d)[0] = [kcp |-> k, maxack |-> -1]
         /\ \A n \in 1..Len(d) : InputLoop(k, d)[n] = InputSegment(InputLoop(k, d)[n - 1], d[n])
<1> DEFINE zero == [kcp |-> k, maxack |-> -1]
           Loop(f, N) == f = [n \in 0..N |-> IF n = 0 THEN zero ELSE InputSegment(f[n - 1], d[n])]
           S == {N \in 0..Len(d) : \E f : Loop(f, N)}
<1>1. 0 \in S
  <2> DEFINE f == [n \in 0..0 |-> zero]
  <2>1. Loop(f, 0)
    OBVIOUS
  <2> HIDE DEF f, Loop
  <2> QED BY <2>1
<1>2. ASSUME NEW N \in 1..Len(d), N - 1 \in S PROVE N \in S
  <2>1. PICK f : Loop(f, N - 1)
    BY <1>2
  <2> DEFINE e == [n \in 0..N |-> IF n = N THEN InputSegment(f[N - 1], d[N]) ELSE f[n]]
  <2>2. ASSUME NEW n \in 0..N
        PROVE  e[n] = IF n = 0 THEN zero ELSE InputSegment(e[n - 1], d[n])
    <3>1. CASE n = N
      <4>1. n # 0 /\ n - 1 \in 0..N /\ n - 1 # N
        BY <3>1
      <4> QED BY <3>1, <4>1
    <3>2. CASE n # N
      <4>1. n \in 0..N - 1 /\ (n # 0 => n - 1 \in 0..N /\ n - 1 # N)
        BY <3>2
      <4>2. f[n] = IF n = 0 THEN zero ELSE InputSegment(f[n - 1], d[n])
        BY <4>1, <2>1
      <4> QED BY <3>2, <4>1, <4>2
    <3> QED BY <3>1, <3>2
  <2>3. Loop(e, N)
    BY <2>2
  <2> HIDE DEF e, Loop
  <2> QED BY <2>3
<1>3. 0..Len(d) \subseteq S
  <2> HIDE DEF S
  <2> QED BY <1>1, <1>2, Upward
<1>4. \E f : Loop(f, Len(d))
  BY <1>3
<1>5. Loop(InputLoop(k, d), Len(d))
  BY <1>4 DEF InputLoop
<1>6. \A n \in 1..Len(d) : n \in 0..Len(d) /\ n # 0
  OBVIOUS
<1> QED BY <1>5, <1>6

\* What a datagram says is true.
Carried(d, St, h, W) == d \in Seq(WireSeg) /\ \A j \in 1..Len(d) : Wire(d[j], St, h, W)

(***************************************************************************)
(* ikcp_input: a datagram that says only what is true, however late it     *)
(* comes and however often, keeps the invariant of the endpoint, and       *)
(* everything it held it still holds.                                      *)
(***************************************************************************)
LEMMA KcpInputEndpoint ==
  ASSUME NEW k, NEW g, NEW h, NEW St, NEW W, Endpoint(k, g, h, St, W),
         NEW d, Carried(d, St, h, W),
         NEW l, l = KcpInput(k, d)
  PROVE  Endpoint(l, g, h, St, W) /\ Later(k, l)
<1> DEFINE f == InputLoop(k, d)
           Good(r) == Looping(r, g, h, St, W) /\ Later(k, r.kcp)
           S == {n \in 0..Len(d) : Good(f[n])}
<1>0. Len(d) \in Nat /\ \A j \in 1..Len(d) : Wire(d[j], St, h, W)
  BY DEF Carried
<1>1. /\ f[0] = [kcp |-> k, maxack |-> -1]
      /\ \A n \in 1..Len(d) : f[n] = InputSegment(f[n - 1], d[n])
  BY <1>0, InputLoopSteps
<1>2. l = IF f[Len(d)].maxack # -1 THEN ParseFastack(f[Len(d)].kcp, f[Len(d)].maxack)
          ELSE f[Len(d)].kcp
  BY DEF KcpInput
<1> HIDE DEF f
<1>3. Good(f[0])
  <2>1. SameRcv(k, k) /\ SameWnd(k, k)
    BY DEF SameRcv, SameWnd
  <2>2. Later(k, k)
    BY ONLY <2>1, SameReceiving
  <2> QED BY <1>1, <2>2 DEF Looping
<1>4. ASSUME NEW n \in 1..Len(d), Good(f[n - 1]) PROVE Good(f[n])
  <2>1. f[n] = InputSegment(f[n - 1], d[n]) /\ Wire(d[n], St, h, W)
    BY <1>0, <1>1
  <2>2. Looping(f[n], g, h, St, W) /\ Later(f[n - 1].kcp, f[n].kcp)
    BY <1>4, <2>1, InputSegmentEndpoint
  <2>3. Later(k, f[n].kcp)
    BY <1>4, <2>2, LaterTransitive
  <2> QED BY <2>2, <2>3
<1>5. 0..Len(d) \subseteq S
  <2> HIDE DEF Good
  <2>1. 0 \in S
    BY <1>0, <1>3
  <2>2. ASSUME NEW n \in 1..Len(d), n - 1 \in S PROVE n \in S
    <3>1. n \in 0..Len(d)
      BY <1>0
    <3> QED BY <1>4, <2>2, <3>1
  <2> HIDE DEF S
  <2> QED BY <1>0, <2>1, <2>2, Upward
<1>6. Good(f[Len(d)])
  <2>1. Len(d) \in 0..Len(d)
    BY <1>0
  <2> HIDE DEF Good
  <2> QED BY <2>1, <1>5
<1>7. CASE f[Len(d)].maxack = -1
  BY <1>2, <1>6, <1>7 DEF Looping
<1>8. CASE f[Len(d)].maxack # -1
  <2> DEFINE m == f[Len(d)].kcp
  <2>1. l = ParseFastack(m, f[Len(d)].maxack) /\ f[Len(d)].maxack \in Nat
    BY <1>2, <1>6, <1>8 DEF Looping
  <2>2. /\ m \in KcpRec /\ h \in Seq(Item) /\ W \in Nat /\ Later(k, m)
        /\ Sending(m, g, St, W) /\ Receiving(m, h)
    BY <1>6 DEF Endpoint, Looping
  <2> HIDE DEF m
  <2>3. l \in KcpRec /\ Sending(l, g, St, W) /\ SameRcv(m, l) /\ SameWnd(m, l)
    BY ONLY <2>1, <2>2, ParseFastackSending
  <2>4. Receiving(l, h) /\ Later(m, l)
    BY ONLY <2>2, <2>3, SameReceiving
  <2>5. Later(k, l)
    BY ONLY <2>2, <2>4, LaterTransitive
  <2> QED BY ONLY <2>2, <2>3, <2>4, <2>5 DEF Endpoint
<1> QED BY <1>7, <1>8

-----------------------------------------------------------------------------
(***************************************************************************)
(* The first number of a list in order is its least.                       *)
(***************************************************************************)
LEMMA FirstLeast ==
  ASSUME NEW b \in Seq(SendSeg), NEW nxt, Ordered(b)
  PROVE  \A j \in 1..Len(b) : First(b, nxt) <= b[j].sn
<1> SUFFICES ASSUME NEW j \in 1..Len(b) PROVE First(b, nxt) <= b[j].sn
  OBVIOUS
<1>1. 1 \in 1..Len(b) /\ b # <<>> /\ (j = 1 \/ 1 < j)
  OBVIOUS
<1>2. \A i \in 1..Len(b) : b[i] \in SendSeg
  OBVIOUS
<1>3. b[1].sn \in Nat /\ b[j].sn \in Nat
  BY <1>1, <1>2 DEF SendSeg
<1>4. 1 < j => b[1].sn < b[j].sn
  BY <1>1 DEF Ordered
<1> QED BY <1>1, <1>3, <1>4 DEF First

\* The segments that get the numbers from nxt on.
Fresh(q, nxt, n) ==
  [j \in 1..n |-> [ sn |-> nxt + j - 1, frg |-> q[j].frg, data |-> q[j].data,
                    xmit |-> FALSE, fastack |-> 0 ]]

\* All NumberSegments starts from, and what it leaves.
Number(b, q, nxt, g, St, n, m, c, r) ==
  /\ b \in Seq(SendSeg) /\ q \in Seq(Item) /\ nxt \in Nat /\ g \in Seq(Item)
  /\ Outstanding(b, nxt, g, St) /\ Queued(q, nxt, g)
  /\ n \in 0..Len(q)
  /\ m = nxt + n /\ c = b \o Fresh(q, nxt, n) /\ r = SubSeq(q, n + 1, Len(q))

(***************************************************************************)
(* Numbering the first n segments of snd_queue: snd_buf grows at its end,  *)
(* and snd_una is still its first number.                                  *)
(***************************************************************************)
LEMMA NumberBuffers ==
  ASSUME NEW b, NEW q, NEW nxt, NEW g, NEW St, NEW n, NEW m, NEW c, NEW r,
         Number(b, q, nxt, g, St, n, m, c, r)
  PROVE  /\ c \in Seq(SendSeg) /\ r \in Seq(Item) /\ m \in Nat
         /\ Outstanding(c, m, g, St) /\ Queued(r, m, g)
         /\ First(c, m) = First(b, nxt)
<1> DEFINE a == Fresh(q, nxt, n)
<1>0. /\ b \in Seq(SendSeg) /\ q \in Seq(Item) /\ nxt \in Nat /\ g \in Seq(Item)
      /\ n \in 0..Len(q) /\ n \in Nat /\ Len(q) \in Nat /\ Len(b) \in Nat /\ Len(g) \in Nat
      /\ m = nxt + n /\ m \in Nat
  BY DEF Number
<1>h. Outstanding(b, nxt, g, St) /\ Queued(q, nxt, g)
  BY DEF Number
<1>1. \A j \in 1..n : j \in 1..Len(q) /\ q[j] \in Item /\ nxt + j - 1 \in Nat
  BY <1>0
<1>2. a \in [1..n -> SendSeg]
  BY <1>1 DEF Fresh, SendSeg, Item
<1>3. a \in Seq(SendSeg) /\ Len(a) = n
  BY <1>0, <1>2, Listed
<1>4. \A j \in 1..n : a[j].sn = nxt + j - 1 /\ a[j].frg = q[j].frg /\ a[j].data = q[j].data
  BY DEF Fresh
<1>c. c = b \o a
  BY DEF Number
<1> HIDE DEF a
<1>5. /\ c \in Seq(SendSeg) /\ Len(c) = Len(b) + n
      /\ \A j \in 1..Len(b) : c[j] = b[j]
      /\ \A j \in 1..n : c[Len(b) + j] = a[j]
      /\ \A j \in 1..Len(c) :
           j <= Len(b) \/ (j > Len(b) /\ j - Len(b) \in 1..n /\ c[j] = a[j - Len(b)])
  <2>1. c \in Seq(SendSeg) /\ Appended(b, a, c)
    BY ONLY <1>0, <1>3, <1>c, Joined
  <2> QED BY <2>1, <1>3 DEF Appended
<1>6. /\ r \in Seq(Item) /\ Len(r) = Len(q) - n
      /\ \A j \in 1..Len(r) : n + j \in 1..Len(q) /\ r[j] = q[n + j]
  <2>1. r = SubSeq(q, n + 1, Len(q))
    BY DEF Number
  <2> QED BY <1>0, <2>1, Dropped
<1>s. \A j \in 1..Len(b) : b[j].sn \in Nat /\ b[j].sn < nxt /\ At(b[j], g)
  <2>1. \A j \in 1..Len(b) : b[j] \in SendSeg
    BY <1>0
  <2> QED BY <2>1, <1>h DEF SendSeg, Outstanding
<1>7. \A j \in 1..Len(c) : \/ j \in 1..Len(b) /\ c[j] = b[j]
                           \/ j > Len(b) /\ j - Len(b) \in 1..n /\ c[j].sn = nxt + (j - Len(b)) - 1
  <2> SUFFICES ASSUME NEW j \in 1..Len(c)
               PROVE  \/ j \in 1..Len(b) /\ c[j] = b[j]
                      \/ j > Len(b) /\ j - Len(b) \in 1..n /\ c[j].sn = nxt + (j - Len(b)) - 1
    OBVIOUS
  <2>1. CASE j <= Len(b)
    BY <2>1, <1>0, <1>5
  <2>2. CASE j > Len(b) /\ j - Len(b) \in 1..n /\ c[j] = a[j - Len(b)]
    BY <2>2, <1>4
  <2> QED BY <2>1, <2>2, <1>5
<1>8. Ordered(c)
  <2> SUFFICES ASSUME NEW i \in 1..Len(c), NEW j \in 1..Len(c), i < j
               PROVE  c[i].sn < c[j].sn
    BY DEF Ordered
  <2>0. i \in Nat /\ j \in Nat
    BY <1>0, <1>5
  <2>1. CASE i \in 1..Len(b) /\ c[i] = b[i] /\ j \in 1..Len(b) /\ c[j] = b[j]
    BY <2>1, <1>h DEF Outstanding, Ordered
  <2>2. CASE /\ i \in 1..Len(b) /\ c[i] = b[i]
             /\ j - Len(b) \in 1..n /\ c[j].sn = nxt + (j - Len(b)) - 1
    <3>1. b[i].sn \in Nat /\ b[i].sn < nxt
      BY <2>2, <1>s
    <3> QED BY ONLY <2>0, <2>2, <3>1, <1>0
  <2>3. CASE /\ i - Len(b) \in 1..n /\ c[i].sn = nxt + (i - Len(b)) - 1
             /\ j - Len(b) \in 1..n /\ c[j].sn = nxt + (j - Len(b)) - 1
    BY <2>0, <2>3, <1>0
  <2>4. CASE i > Len(b) /\ j \in 1..Len(b)
    BY <2>0, <2>4, <1>0
  <2> QED BY <1>7, <2>1, <2>2, <2>3, <2>4
<1>9. ASSUME NEW j \in 1..Len(c) PROVE c[j].sn < m /\ At(c[j], g)
  <2>1. CASE j \in 1..Len(b) /\ c[j] = b[j]
    <3>1. b[j].sn \in Nat /\ b[j].sn < nxt /\ At(b[j], g)
      BY <2>1, <1>s
    <3> QED BY <3>1, <2>1, <1>0
  <2>2. CASE j > Len(b) /\ j - Len(b) \in 1..n /\ c[j].sn = nxt + (j - Len(b)) - 1
    <3> DEFINE i == j - Len(b)
    <3>1. i \in 1..n /\ i \in 1..Len(q) /\ c[j] = a[i]
      BY <2>2, <1>1, <1>5, <1>0
    <3>2. a[i].sn = nxt + i - 1 /\ a[i].frg = q[i].frg /\ a[i].data = q[i].data
      BY <3>1, <1>4
    <3>3. q[i] = g[nxt + i] /\ Len(g) = nxt + Len(q)
      BY <3>1, <1>h DEF Queued
    <3> HIDE DEF i
    <3>4. (nxt + i - 1) + 1 = nxt + i /\ nxt + i - 1 < m /\ nxt + i - 1 < Len(g)
      BY <3>1, <3>3, <1>0
    <3> QED BY <3>1, <3>2, <3>3, <3>4 DEF At
  <2> QED BY <1>7, <2>1, <2>2
<1>10. ASSUME NEW sn \in 0..(m - 1) PROVE Holds(c, sn) \/ sn \in St
  <2>1. CASE sn < nxt
    <3>1. sn \in 0..(nxt - 1)
      BY <2>1, <1>0
    <3>2. CASE sn \in St
      BY <3>2
    <3>3. CASE Holds(b, sn)
      <4>1. PICK i \in 1..Len(b) : b[i].sn = sn
        BY <3>3 DEF Holds
      <4>2. i \in 1..Len(c)
        BY <1>0, <1>5
      <4> QED BY <4>1, <4>2, <1>5 DEF Holds
    <3> QED BY <3>1, <3>2, <3>3, <1>h DEF Outstanding
  <2>2. CASE sn >= nxt
    <3> DEFINE i == sn - nxt + 1
    <3>1. i \in 1..n /\ nxt + i - 1 = sn /\ Len(b) + i \in 1..Len(c)
      BY <2>2, <1>0, <1>5
    <3> HIDE DEF i
    <3>2. c[Len(b) + i] = a[i] /\ a[i].sn = nxt + i - 1
      BY <3>1, <1>4, <1>5
    <3> QED BY <3>1, <3>2 DEF Holds
  <2> QED BY <2>1, <2>2, <1>0
<1>11. Outstanding(c, m, g, St)
  BY <1>8, <1>9, <1>10 DEF Outstanding
<1>12. Queued(r, m, g)
  <2>1. Len(g) = m + Len(r)
    BY <1>0, <1>6, <1>h DEF Queued
  <2>2. ASSUME NEW j \in 1..Len(r) PROVE r[j] = g[m + j]
    <3>1. n + j \in 1..Len(q) /\ r[j] = q[n + j] /\ nxt + (n + j) = m + j
      BY <1>0, <1>6
    <3>2. q[n + j] = g[nxt + (n + j)]
      BY <3>1, <1>h DEF Queued
    <3> QED BY <3>1, <3>2
  <2> QED BY <2>1, <2>2 DEF Queued
<1>13. First(c, m) = First(b, nxt)
  <2>1. CASE b # <<>>
    <3>1. 1 \in 1..Len(b)
      BY <1>0, <2>1
    <3>2. c # <<>> /\ c[1] = b[1]
      BY <3>1, <1>0, <1>5
    <3> QED BY <2>1, <3>2 DEF First
  <2>2. CASE b = <<>> /\ n = 0
    <3>1. Len(c) = 0
      BY <2>2, <1>5
    <3>2. c = <<>> /\ m = nxt
      BY <3>1, <2>2, <1>5, <1>0
    <3> QED BY <2>2, <3>2 DEF First
  <2>3. CASE b = <<>> /\ n > 0
    <3>1. Len(b) = 0 /\ 1 \in 1..n /\ Len(b) + 1 = 1
      BY <2>3, <1>0
    <3>2. c[1] = a[1] /\ a[1].sn = nxt + 1 - 1
      BY <3>1, <1>4, <1>5
    <3>3. c # <<>>
      BY <2>3, <3>1, <1>0, <1>5
    <3> QED BY <2>3, <3>2, <3>3, <1>0 DEF First
  <2> QED BY <2>1, <2>2, <2>3, <1>0
<1> QED BY <1>0, <1>5, <1>6, <1>11, <1>12, <1>13

(***************************************************************************)
(* The loop of ikcp_flush that moves segments to snd_buf goes no further   *)
(* than a window beyond snd_una, the window being the smaller of its own   *)
(* and the one the peer announced.                                         *)
(***************************************************************************)
LEMMA NumberSegmentsSending ==
  ASSUME NEW k \in KcpRec, NEW g \in Seq(Item), NEW St, NEW W \in Nat, Sending(k, g, St, W),
         NEW l, l = NumberSegments(k)
  PROVE  /\ l \in KcpRec /\ Sending(l, g, St, W)
         /\ SameRcv(k, l) /\ SameWnd(k, l) /\ l.rmt_wnd = k.rmt_wnd
<1> DEFINE b == k.snd_buf
           q == k.snd_queue
           nxt == k.snd_nxt
           room == k.snd_una + SendWindow(k) - nxt
           n == IF room > 0 THEN Lesser(room, Len(q)) ELSE 0
           m == nxt + n
           c == b \o Fresh(q, nxt, n)
           r == SubSeq(q, n + 1, Len(q))
<1>0. /\ b \in Seq(SendSeg) /\ q \in Seq(Item) /\ nxt \in Nat /\ k.snd_una \in Nat
      /\ k.snd_wnd \in Nat /\ k.rmt_wnd \in Nat /\ g \in Seq(Item) /\ Len(q) \in Nat
  BY DEF KcpRec
<1>1. l = [k EXCEPT !.snd_queue = r, !.snd_buf = c, !.snd_nxt = m]
  BY DEF NumberSegments, Fresh
<1>2. SendWindow(k) \in Nat /\ SendWindow(k) <= W
  BY <1>0 DEF SendWindow, Lesser, Sending, Loose
<1>3. n \in 0..Len(q) /\ m <= k.snd_una + W
  <2>1. nxt <= k.snd_una + W
    BY DEF Sending, Loose
  <2>2. CASE room > 0
    <3>1. room \in Int /\ room <= k.snd_una + W - nxt
      BY <1>0, <1>2
    <3> HIDE DEF room
    <3>2. n \in 0..Len(q) /\ n <= room
      BY <2>2, <3>1, <1>0 DEF Lesser
    <3> HIDE DEF n, nxt
    <3> QED BY <3>1, <3>2, <1>0
  <2>3. CASE ~(room > 0)
    BY <2>1, <2>3, <1>0
  <2> QED BY <2>2, <2>3
<1>4. Outstanding(b, nxt, g, St) /\ Queued(q, nxt, g)
  BY DEF Sending, Loose
<1>5. m = nxt + n /\ c = b \o Fresh(q, nxt, n) /\ r = SubSeq(q, n + 1, Len(q))
  OBVIOUS
<1>6. k.snd_una = First(b, nxt) /\ k.rmt_wnd <= W
  BY DEF Sending, Loose
<1>k. k \in KcpRec
  OBVIOUS
<1> HIDE DEF b, q, nxt, room, n, m, c, r
<1>7. Number(b, q, nxt, g, St, n, m, c, r)
  BY ONLY <1>0, <1>3, <1>4, <1>5 DEF Number
<1>8. /\ c \in Seq(SendSeg) /\ r \in Seq(Item) /\ m \in Nat
      /\ Outstanding(c, m, g, St) /\ Queued(r, m, g)
      /\ First(c, m) = First(b, nxt)
  BY ONLY <1>7, NumberBuffers
<1>9. /\ l \in KcpRec /\ l.snd_queue = r /\ l.snd_buf = c /\ l.snd_nxt = m
      /\ l.snd_una = k.snd_una
      /\ SameRcv(k, l) /\ SameWnd(k, l) /\ l.rmt_wnd = k.rmt_wnd
  BY ONLY <1>k, <1>1, <1>8 DEF KcpRec, SameRcv, SameWnd
<1>10. /\ l.snd_una = First(c, m)
  BY <1>6, <1>8, <1>9
<1>11. \A j \in 1..Len(c) : l.snd_una <= c[j].sn
  <2>1. Ordered(c)
    BY <1>8 DEF Outstanding
  <2>2. \A j \in 1..Len(c) : First(c, m) <= c[j].sn
    BY ONLY <1>8, <2>1, FirstLeast
  <2> QED BY <2>2, <1>10
<1>12. l.snd_una <= m
  <2>1. k.snd_una <= nxt
    BY DEF Sending, Loose, nxt
  <2> QED BY <2>1, <1>0, <1>3, <1>5, <1>9
<1>13. Loose(l, g, St, W)
  BY <1>3, <1>6, <1>8, <1>9, <1>11, <1>12 DEF Loose
<1> QED BY <1>9, <1>10, <1>13 DEF Sending

(***************************************************************************)
(* Probing the peer's window changes nothing that is sent or received.     *)
(***************************************************************************)
LEMMA AskWindowSame ==
  ASSUME NEW k \in KcpRec, NEW due, NEW l, l = AskWindow(k, due)
  PROVE  /\ l \in KcpRec /\ l.rmt_wnd = k.rmt_wnd
         /\ SameSnd(k, l) /\ SameRcv(k, l) /\ SameWnd(k, l)
<1>1. CASE k.rmt_wnd = 0
  <2> DEFINE p == IF k.probing /\ due THEN k.probe \union {"ASK_SEND"} ELSE k.probe
  <2>1. l = [k EXCEPT !.probing = TRUE, !.probe = p]
    BY <1>1 DEF AskWindow
  <2>2. p \in SUBSET {"ASK_SEND", "ASK_TELL"}
    BY DEF KcpRec
  <2> HIDE DEF p
  <2> QED BY <2>1, <2>2 DEF KcpRec, SameSnd, SameRcv, SameWnd
<1>2. CASE k.rmt_wnd # 0
  <2>1. l = [k EXCEPT !.probing = FALSE]
    BY <1>2 DEF AskWindow
  <2> QED BY <2>1 DEF KcpRec, SameSnd, SameRcv, SameWnd
<1> QED BY <1>1, <1>2

\* What endpoint k has.
Own(k) == {sn \in Nat : Stored(k, sn)}

(***************************************************************************)
(* What ikcp_flush writes is true: una and an ACK's number speak of        *)
(* segments the endpoint holds, and the window is not larger than the one  *)
(* it has.                                                                 *)
(***************************************************************************)
LEMMA EncodeWire ==
  ASSUME NEW k \in KcpRec, NEW g, NEW cmd \in {"ACK", "PUSH", "WASK", "WINS"},
         NEW sn \in Nat, NEW frg \in Nat, NEW data \in Token \cup {<<>>},
         cmd = "ACK" => Stored(k, sn),
         cmd = "PUSH" => /\ sn < Len(g) /\ frg = g[sn + 1].frg /\ data = g[sn + 1].data,
         NEW seg, seg = Encode(k, cmd, sn, frg, data)
  PROVE  Wire(seg, Own(k), g, k.rcv_wnd)
<1>1. k.rcv_nxt \in Nat /\ k.rcv_wnd \in Nat /\ Len(k.rcv_queue) \in Nat
  BY DEF KcpRec
<1>2. WndUnused(k) \in Nat /\ WndUnused(k) <= k.rcv_wnd
  BY <1>1 DEF WndUnused
<1>3. /\ seg.cmd = cmd /\ seg.wnd = WndUnused(k) /\ seg.una = k.rcv_nxt /\ seg.sn = sn
      /\ seg.frg = frg /\ seg.data = data
  BY DEF Encode
<1>4. seg \in WireSeg
  BY <1>1, <1>2 DEF WireSeg, Encode
<1>5. \A s \in 0..(k.rcv_nxt - 1) : s \in Own(k)
  BY <1>1 DEF Own, Stored
<1> QED BY <1>2, <1>3, <1>4, <1>5 DEF Wire, At, Own

(***************************************************************************)
(* Two pieces of a datagram that say only what is true, joined.            *)
(***************************************************************************)
LEMMA CarriedJoined ==
  ASSUME NEW s, NEW t, NEW St, NEW h, NEW W, Carried(s, St, h, W), Carried(t, St, h, W)
  PROVE  Carried(s \o t, St, h, W)
<1> DEFINE u == s \o t
<1>1. s \in Seq(WireSeg) /\ t \in Seq(WireSeg) /\ u = s \o t
  BY DEF Carried
<1> HIDE DEF u
<1>2. u \in Seq(WireSeg) /\ Appended(s, t, u)
  BY ONLY <1>1, Joined
<1>3. ASSUME NEW j \in 1..Len(u) PROVE Wire(u[j], St, h, W)
  <2>1. CASE j <= Len(s)
    <3>1. j \in 1..Len(s)
      BY <1>1, <1>2, <2>1
    <3> QED BY <3>1, <1>2 DEF Appended, Carried
  <2>2. CASE ~(j <= Len(s))
    BY <1>2, <2>2 DEF Appended, Carried
  <2> QED BY <2>1, <2>2
<1> QED BY <1>1, <1>2, <1>3 DEF Carried

(***************************************************************************)
(* One segment.                                                            *)
(***************************************************************************)
LEMMA CarriedOne ==
  ASSUME NEW seg, NEW St, NEW h, NEW W, Wire(seg, St, h, W)
  PROVE  Carried(<<seg>>, St, h, W)
<1>1. seg \in WireSeg
  BY DEF Wire
<1>2. <<seg>> \in Seq(WireSeg) /\ Len(<<seg>>) = 1 /\ <<seg>>[1] = seg
  BY <1>1
<1> QED BY <1>2 DEF Carried

(***************************************************************************)
(* None.                                                                   *)
(***************************************************************************)
LEMMA CarriedNone ==
  ASSUME NEW St, NEW h, NEW W
  PROVE  Carried(<<>>, St, h, W)
BY DEF Carried

(***************************************************************************)
(* The loop of ikcp_flush that writes the data segments is a function too. *)
(***************************************************************************)
LEMMA WriteLoopSteps ==
  ASSUME NEW k, NEW b, NEW late, Len(b) \in Nat
  PROVE  /\ WriteLoop(k, b, late)[0] = <<>>
         /\ \A n \in 1..Len(b) :
              WriteLoop(k, b, late)[n] =
                IF NeedSend(b[n], late)
                THEN Append(WriteLoop(k, b, late)[n - 1],
                            Encode(k, "PUSH", b[n].sn, b[n].frg, b[n].data))
                ELSE WriteLoop(k, b, late)[n - 1]
<1> DEFINE Step(o, n) == IF NeedSend(b[n], late)
                         THEN Append(o, Encode(k, "PUSH", b[n].sn, b[n].frg, b[n].data))
                         ELSE o
           Loop(f, N) == f = [n \in 0..N |-> IF n = 0 THEN <<>>
             ELSE IF NeedSend(b[n], late)
                         THEN Append(f[n - 1], Encode(k, "PUSH", b[n].sn, b[n].frg, b[n].data))
                         ELSE f[n - 1]]
           S == {N \in 0..Len(b) : \E f : Loop(f, N)}
<1>1. 0 \in S
  <2> DEFINE f == [n \in 0..0 |-> <<>>]
  <2>1. Loop(f, 0)
    OBVIOUS
  <2> HIDE DEF f, Loop
  <2> QED BY <2>1
<1>2. ASSUME NEW N \in 1..Len(b), N - 1 \in S PROVE N \in S
  <2>1. PICK f : Loop(f, N - 1)
    BY <1>2
  <2> DEFINE e == [n \in 0..N |-> IF n = N THEN Step(f[N - 1], N) ELSE f[n]]
  <2>2. ASSUME NEW n \in 0..N
        PROVE  e[n] = IF n = 0 THEN <<>> ELSE Step(e[n - 1], n)
    <3>1. CASE n = N
      <4>1. n # 0 /\ n - 1 \in 0..N /\ n - 1 # N
        BY <3>1
      <4> HIDE DEF Step
      <4> QED BY <3>1, <4>1
    <3>2. CASE n # N
      <4>1. n \in 0..N - 1 /\ (n # 0 => n - 1 \in 0..N /\ n - 1 # N)
        BY <3>2
      <4>2. f[n] = IF n = 0 THEN <<>> ELSE Step(f[n - 1], n)
        BY <4>1, <2>1
      <4> HIDE DEF Step
      <4> QED BY <3>2, <4>1, <4>2
    <3> QED BY <3>1, <3>2
  <2>3. Loop(e, N)
    BY <2>2
  <2> HIDE DEF e, Loop
  <2> QED BY <2>3
<1>3. 0..Len(b) \subseteq S
  <2> HIDE DEF S
  <2> QED BY <1>1, <1>2, Upward
<1>4. \E f : Loop(f, Len(b))
  BY <1>3
<1>5. Loop(WriteLoop(k, b, late), Len(b))
  BY <1>4 DEF WriteLoop
<1>6. \A n \in 1..Len(b) : n \in 0..Len(b) /\ n # 0
  OBVIOUS
<1> DEFINE w == WriteLoop(k, b, late)
<1>7. w = [n \in 0..Len(b) |-> IF n = 0 THEN <<>> ELSE Step(w[n - 1], n)]
  BY <1>5
<1>8. 0 \in 0..Len(b)
  OBVIOUS
<1> HIDE DEF w, Step, Loop, S
<1>9. w[0] = <<>> /\ \A n \in 1..Len(b) : w[n] = Step(w[n - 1], n)
  BY <1>6, <1>7, <1>8
<1> QED BY <1>9 DEF w, Step

(***************************************************************************)
(* All it writes are segments of snd_buf.                                  *)
(***************************************************************************)
LEMMA WriteLoopCarried ==
  ASSUME NEW k \in KcpRec, NEW b \in Seq(SendSeg), NEW late, NEW g,
         \A j \in 1..Len(b) : At(b[j], g)
  PROVE  Carried(WriteLoop(k, b, late)[Len(b)], Own(k), g, k.rcv_wnd)
<1> DEFINE f == WriteLoop(k, b, late)
           Good(o) == Carried(o, Own(k), g, k.rcv_wnd)
           S == {n \in 0..Len(b) : Good(f[n])}
           seg(n) == Encode(k, "PUSH", b[n].sn, b[n].frg, b[n].data)
<1>0. Len(b) \in Nat
  OBVIOUS
<1>1. /\ f[0] = <<>>
      /\ \A n \in 1..Len(b) :
           f[n] = IF NeedSend(b[n], late) THEN Append(f[n - 1], seg(n)) ELSE f[n - 1]
  BY <1>0, WriteLoopSteps
<1>2. ASSUME NEW n \in 1..Len(b) PROVE Wire(seg(n), Own(k), g, k.rcv_wnd)
  <2>1. b[n] \in SendSeg
    OBVIOUS
  <2>2. b[n].sn \in Nat /\ b[n].frg \in Nat /\ b[n].data \in Token \cup {<<>>}
    BY <2>1 DEF SendSeg
  <2>3. b[n].sn < Len(g) /\ b[n].frg = g[b[n].sn + 1].frg /\ b[n].data = g[b[n].sn + 1].data
    BY DEF At
  <2>4. "PUSH" \in {"ACK", "PUSH", "WASK", "WINS"} /\ "PUSH" # "ACK"
    OBVIOUS
  <2> QED BY <2>2, <2>3, <2>4, EncodeWire
<1> HIDE DEF f, seg
<1>3. ASSUME NEW n \in 1..Len(b), Good(f[n - 1]) PROVE Good(f[n])
  <2>1. CASE NeedSend(b[n], late)
    <3>1. f[n] = Append(f[n - 1], seg(n)) /\ f[n - 1] \in Seq(WireSeg) /\ seg(n) \in WireSeg
      BY <1>1, <1>2, <1>3, <2>1 DEF Carried, Wire
    <3>2. f[n] = f[n - 1] \o <<seg(n)>>
      BY <3>1
    <3>3. Good(<<seg(n)>>)
      BY <1>2, CarriedOne
    <3> QED BY <3>2, <3>3, <1>3, CarriedJoined
  <2>2. CASE ~NeedSend(b[n], late)
    BY <1>1, <1>3, <2>2
  <2> QED BY <2>1, <2>2
<1>4. 0..Len(b) \subseteq S
  <2>0. Good(f[0])
    BY <1>1, CarriedNone
  <2> HIDE DEF Good
  <2>1. 0 \in S
    BY <1>0, <2>0
  <2>2. ASSUME NEW n \in 1..Len(b), n - 1 \in S PROVE n \in S
    <3>1. n \in 0..Len(b)
      BY <1>0
    <3> QED BY <1>3, <2>2, <3>1
  <2> HIDE DEF S
  <2> QED BY <1>0, <2>1, <2>2, Upward
<1>5. Len(b) \in 0..Len(b)
  BY <1>0
<1> QED BY <1>4, <1>5 DEF f

(***************************************************************************)
(* Sending a segment only marks it.                                        *)
(***************************************************************************)
LEMMA TransmittedSame ==
  ASSUME NEW seg \in SendSeg, NEW late, NEW t, t = Transmitted(seg, late)
  PROVE  t \in SendSeg /\ t.sn = seg.sn /\ t.frg = seg.frg /\ t.data = seg.data
<1> DEFINE a == IF seg.xmit /\ seg.sn \notin late /\ seg.fastack >= FastResend THEN 0
                ELSE seg.fastack
<1>1. a \in Nat
  BY DEF SendSeg
<1>2. t = [seg EXCEPT !.fastack = a, !.xmit = TRUE]
  BY DEF Transmitted
<1> HIDE DEF a
<1> QED BY <1>1, <1>2 DEF SendSeg

(***************************************************************************)
(* ikcp_flush keeps the endpoint's invariant and holds what it held.       *)
(***************************************************************************)
LEMMA KcpFlushKcp ==
  ASSUME NEW k, NEW g \in Seq(Item), NEW h, NEW St, NEW W, Endpoint(k, g, h, St, W),
         NEW late, NEW due, NEW l, l = KcpFlush(k, late, due).kcp
  PROVE  Endpoint(l, g, h, St, W) /\ Later(k, l)
<1> DEFINE asked == AskWindow(k, due)
           full == NumberSegments(asked)
           b == full.snd_buf
           c == [j \in DOMAIN b |-> IF NeedSend(b[j], late) THEN Transmitted(b[j], late) ELSE b[j]]
<1>0. /\ k \in KcpRec /\ h \in Seq(Item) /\ W \in Nat
      /\ Sending(k, g, St, W) /\ Receiving(k, h)
  BY DEF Endpoint
<1>g. g \in Seq(Item)
  OBVIOUS
<1>1. l = [full EXCEPT !.acklist = <<>>, !.probe = {}, !.snd_buf = c]
  BY DEF KcpFlush
<1>2. asked = AskWindow(k, due) /\ full = NumberSegments(asked)
  OBVIOUS
<1> HIDE DEF asked, full
<1>3. /\ asked \in KcpRec /\ asked.rmt_wnd = k.rmt_wnd
      /\ SameSnd(k, asked) /\ SameRcv(k, asked) /\ SameWnd(k, asked)
  BY ONLY <1>0, <1>2, AskWindowSame
<1>4. Sending(asked, g, St, W)
  BY ONLY <1>0, <1>3, SameSending
<1>5. /\ full \in KcpRec /\ Sending(full, g, St, W)
      /\ SameRcv(asked, full) /\ SameWnd(asked, full) /\ full.rmt_wnd = asked.rmt_wnd
  BY ONLY <1>0, <1>g, <1>2, <1>3, <1>4, NumberSegmentsSending
<1>6. b \in Seq(SendSeg) /\ Len(b) \in Nat /\ DOMAIN b = 1..Len(b) /\ full.snd_nxt \in Nat
  BY <1>5 DEF KcpRec
<1> HIDE DEF b
<1>7. \A j \in 1..Len(b) : b[j] \in SendSeg
  BY <1>6
<1>8. c \in [1..Len(b) -> SendSeg]
  BY <1>6, <1>7, TransmittedSame
<1>9. c \in Seq(SendSeg) /\ Len(c) = Len(b)
  BY <1>6, <1>8, Listed
<1>10. \A j \in 1..Len(b) : c[j].sn = b[j].sn /\ c[j].frg = b[j].frg /\ c[j].data = b[j].data
  BY <1>6, <1>7, TransmittedSame
<1> HIDE DEF c
<1>11. Outstanding(b, full.snd_nxt, g, St)
  BY <1>5 DEF Sending, Loose, b
<1>12. Outstanding(c, full.snd_nxt, g, St)
  BY ONLY <1>6, <1>9, <1>10, <1>11, MarkOutstanding
<1>13. First(c, full.snd_nxt) = First(b, full.snd_nxt)
  <2>1. c = <<>> <=> b = <<>>
    BY <1>6, <1>9
  <2>2. b # <<>> => c[1].sn = b[1].sn
    BY <1>6, <1>10
  <2> QED BY <2>1, <2>2 DEF First
<1>14. /\ l \in KcpRec /\ l.snd_buf = c /\ l.acklist = <<>>
       /\ l.snd_queue = full.snd_queue /\ l.snd_una = full.snd_una /\ l.snd_nxt = full.snd_nxt
       /\ l.rcv_queue = full.rcv_queue /\ l.rcv_buf = full.rcv_buf /\ l.rcv_nxt = full.rcv_nxt
       /\ SameWnd(full, l) /\ l.rmt_wnd = full.rmt_wnd
  <2>1. <<>> \in Seq(Nat) /\ {} \in SUBSET {"ASK_SEND", "ASK_TELL"}
    OBVIOUS
  <2> QED BY ONLY <2>1, <1>1, <1>5, <1>9 DEF KcpRec, SameWnd
<1>15. \A j \in 1..Len(c) : full.snd_una <= c[j].sn
  BY <1>5, <1>9, <1>10 DEF Sending, Loose, b
<1>16. Loose(l, g, St, W)
  BY <1>5, <1>12, <1>14, <1>15 DEF Sending, Loose
<1>17. Sending(l, g, St, W)
  BY <1>5, <1>13, <1>14, <1>16 DEF Sending, b
<1>18. /\ l.rcv_queue = k.rcv_queue /\ l.rcv_buf = k.rcv_buf /\ l.rcv_nxt = k.rcv_nxt
       /\ SameWnd(k, l)
  BY ONLY <1>3, <1>5, <1>14 DEF SameRcv, SameWnd
<1>19. Receiving(l, h)
  <2>1. AcksKept(l)
    BY <1>14 DEF AcksKept
  <2>2. /\ Unpacked(k, h) /\ Full(k.rcv_buf, k.rcv_nxt, k.rcv_queue, k.rcv_wnd)
        /\ l.rcv_wnd = k.rcv_wnd
    BY <1>0, <1>18 DEF Receiving, SameWnd
  <2> QED BY ONLY <1>18, <2>1, <2>2 DEF Receiving, Unpacked
<1>20. Later(k, l)
  BY ONLY <1>18 DEF Later, Grows, Stored
<1> QED BY ONLY <1>0, <1>14, <1>17, <1>19, <1>20 DEF Endpoint

(***************************************************************************)
(* What ikcp_flush writes is true when it is written: acknowledgements of  *)
(* what is held, probes, and segments of snd_buf.                          *)
(***************************************************************************)
LEMMA KcpFlushOut ==
  ASSUME NEW k, NEW g \in Seq(Item), NEW h, NEW St, NEW W, Endpoint(k, g, h, St, W),
         NEW late, NEW due, NEW o, o = KcpFlush(k, late, due).out
  PROVE  Carried(o, Own(k), g, k.rcv_wnd)
<1> DEFINE asked == AskWindow(k, due)
           full == NumberSegments(asked)
           b == full.snd_buf
           a == [j \in DOMAIN k.acklist |-> Encode(k, "ACK", k.acklist[j], 0, <<>>)]
           ask == IF "ASK_SEND" \in asked.probe THEN <<Encode(k, "WASK", 0, 0, <<>>)>> ELSE <<>>
           tell == IF "ASK_TELL" \in asked.probe THEN <<Encode(k, "WINS", 0, 0, <<>>)>> ELSE <<>>
           w == WriteLoop(k, b, late)[Len(b)]
           Good(s) == Carried(s, Own(k), g, k.rcv_wnd)
<1>0. /\ k \in KcpRec /\ h \in Seq(Item) /\ W \in Nat
      /\ Sending(k, g, St, W) /\ Receiving(k, h)
  BY DEF Endpoint
<1>g. g \in Seq(Item)
  OBVIOUS
<1>1. o = a \o ask \o tell \o w
  BY DEF KcpFlush
<1>2. asked = AskWindow(k, due) /\ full = NumberSegments(asked)
  OBVIOUS
<1>c. \A cmd \in {"WASK", "WINS"} : Good(<<Encode(k, cmd, 0, 0, <<>>)>>)
  <2> SUFFICES ASSUME NEW cmd \in {"WASK", "WINS"} PROVE Good(<<Encode(k, cmd, 0, 0, <<>>)>>)
    OBVIOUS
  <2>1. cmd \in {"ACK", "PUSH", "WASK", "WINS"} /\ cmd # "ACK" /\ cmd # "PUSH"
    OBVIOUS
  <2>2. 0 \in Nat /\ <<>> \in Token \cup {<<>>}
    OBVIOUS
  <2>3. Wire(Encode(k, cmd, 0, 0, <<>>), Own(k), g, k.rcv_wnd)
    BY ONLY <1>0, <2>1, <2>2, EncodeWire
  <2> QED BY <2>3, CarriedOne
<1>3. Good(ask) /\ Good(tell)
  <2>1. Good(<<>>)
    BY CarriedNone
  <2> HIDE DEF Good
  <2> QED BY <1>c, <2>1
<1>4. Good(a)
  <2>1. k.acklist \in Seq(Nat) /\ Len(k.acklist) \in Nat /\ DOMAIN k.acklist = 1..Len(k.acklist)
    BY <1>0 DEF KcpRec
  <2>2. ASSUME NEW j \in 1..Len(k.acklist)
        PROVE  Wire(Encode(k, "ACK", k.acklist[j], 0, <<>>), Own(k), g, k.rcv_wnd)
    <3>1. k.acklist[j] \in Nat /\ Stored(k, k.acklist[j])
      BY <1>0, <2>1 DEF Receiving, AcksKept
    <3>2. 0 \in Nat /\ <<>> \in Token \cup {<<>>} /\ "ACK" # "PUSH"
          /\ "ACK" \in {"ACK", "PUSH", "WASK", "WINS"}
      OBVIOUS
    <3> QED BY ONLY <1>0, <3>1, <3>2, EncodeWire
  <2>3. a \in [1..Len(k.acklist) -> WireSeg]
    BY <2>1, <2>2 DEF Wire
  <2>4. a \in Seq(WireSeg) /\ Len(a) = Len(k.acklist)
    BY <2>1, <2>3, Listed
  <2>5. \A j \in 1..Len(k.acklist) : a[j] = Encode(k, "ACK", k.acklist[j], 0, <<>>)
    BY <2>1
  <2> HIDE DEF a
  <2>6. \A j \in 1..Len(a) : Wire(a[j], Own(k), g, k.rcv_wnd)
    BY <2>2, <2>4, <2>5
  <2> QED BY ONLY <2>4, <2>6 DEF Carried
<1> HIDE DEF asked, full
<1>5. /\ asked \in KcpRec /\ asked.rmt_wnd = k.rmt_wnd
      /\ SameSnd(k, asked) /\ SameRcv(k, asked) /\ SameWnd(k, asked)
  BY ONLY <1>0, <1>2, AskWindowSame
<1>6. Sending(asked, g, St, W)
  BY ONLY <1>0, <1>5, SameSending
<1>7. full \in KcpRec /\ Sending(full, g, St, W)
  BY ONLY <1>0, <1>g, <1>2, <1>5, <1>6, NumberSegmentsSending
<1>8. b \in Seq(SendSeg) /\ \A j \in 1..Len(b) : At(b[j], g)
  BY <1>7 DEF KcpRec, Sending, Loose, Outstanding
<1> HIDE DEF b
<1>9. Good(w)
  BY ONLY <1>0, <1>8, WriteLoopCarried
<1> HIDE DEF a, ask, tell, w
<1>10. Good(a \o ask)
  BY ONLY <1>3, <1>4, CarriedJoined
<1>11. Good(a \o ask \o tell)
  BY ONLY <1>3, <1>10, CarriedJoined
<1>12. Good(a \o ask \o tell \o w)
  BY ONLY <1>9, <1>11, CarriedJoined
<1> QED BY ONLY <1>1, <1>12

(***************************************************************************)
(* The output is cut at the MTU: each datagram has one segment or more and *)
(* no more than fit.                                                       *)
(***************************************************************************)
LEMMA DatagramsCarried ==
  ASSUME NEW o, NEW St, NEW h, NEW W, Carried(o, St, h, W), NEW d \in Datagrams(o)
  PROVE  Carried(d, St, h, W) /\ Len(d) \in 1..MtuSegs
<1>0. o \in Seq(WireSeg) /\ Len(o) \in Nat /\ MtuSegs \in Nat /\ MtuSegs > 0
  BY MtuAssumption DEF Carried
<1>1. PICK n \in 0..Len(o) : n * MtuSegs < Len(o)
        /\ d = SubSeq(o, n * MtuSegs + 1, Lesser((n + 1) * MtuSegs, Len(o)))
  BY DEF Datagrams
<1> DEFINE x == n * MtuSegs
           y == Lesser((n + 1) * MtuSegs, Len(o))
<1>2. x \in Nat /\ (n + 1) * MtuSegs = x + MtuSegs
  BY <1>0
<1>3. y \in Nat /\ y <= Len(o) /\ x + 1 <= y /\ y <= x + MtuSegs
  <2>1. x < Len(o)
    BY <1>1
  <2> HIDE DEF x
  <2> QED BY <2>1, <1>0, <1>2 DEF Lesser
<1>4. d = SubSeq(o, x + 1, y)
  BY <1>1
<1> HIDE DEF x, y
<1>5. \A i \in x + 1..y : i \in 1..Len(o) /\ o[i] \in WireSeg
  BY <1>0, <1>2, <1>3
<1>6. /\ d \in Seq(WireSeg) /\ Len(d) = y - (x + 1) + 1
      /\ \A i \in 1..y - (x + 1) + 1 : d[i] = o[(x + 1) + i - 1]
  <2>1. x + 1 \in Int /\ y \in Int /\ x + 1 <= y
    BY <1>2, <1>3
  <2> QED BY <1>4, <1>5, <2>1, SubSeqProperties
<1>7. Len(d) \in 1..MtuSegs
  BY <1>0, <1>2, <1>3, <1>6
<1>8. ASSUME NEW i \in 1..Len(d) PROVE Wire(d[i], St, h, W)
  <2>1. i \in 1..y - (x + 1) + 1 /\ (x + 1) + i - 1 \in 1..Len(o)
    BY <1>0, <1>2, <1>3, <1>6
  <2> QED BY <2>1, <1>6 DEF Carried
<1> QED BY <1>6, <1>7, <1>8 DEF Carried

-----------------------------------------------------------------------------
\* f is g, or g and more.
Extends(g, f) ==
  /\ g \in Seq(Item) /\ f \in Seq(Item) /\ Len(g) <= Len(f)
  /\ \A i \in 1..Len(g) : f[i] = g[i]

(***************************************************************************)
(* What is at a number stays there when more is sent.                      *)
(***************************************************************************)
LEMMA AtExtended ==
  ASSUME NEW g, NEW f, Extends(g, f), NEW seg, seg.sn \in Nat, At(seg, g)
  PROVE  At(seg, f)
<1>1. seg.sn + 1 \in 1..Len(g) /\ Len(g) \in Nat /\ Len(f) \in Nat
  BY DEF At, Extends
<1> QED BY <1>1 DEF At, Extends

(***************************************************************************)
(* What a segment says stays true when the peer holds more and more is     *)
(* sent: it may be as late as the network likes.                           *)
(***************************************************************************)
LEMMA WireExtended ==
  ASSUME NEW seg, NEW St, NEW Su, NEW g, NEW f, NEW W, Wire(seg, St, g, W),
         St \subseteq Su, Extends(g, f)
  PROVE  Wire(seg, Su, f, W)
<1>1. seg.sn \in Nat
  BY DEF Wire, WireSeg
<1>2. At(seg, g) => At(seg, f)
  BY <1>1, AtExtended
<1> QED BY <1>2 DEF Wire

(***************************************************************************)
(* And so of a whole datagram.                                             *)
(***************************************************************************)
LEMMA CarriedExtended ==
  ASSUME NEW d, NEW St, NEW Su, NEW g, NEW f, NEW W, Carried(d, St, g, W),
         St \subseteq Su, Extends(g, f)
  PROVE  Carried(d, Su, f, W)
BY WireExtended DEF Carried

(***************************************************************************)
(* The sender's invariant is not disturbed by what the peer receives.      *)
(***************************************************************************)
LEMMA SendingExtended ==
  ASSUME NEW k, NEW St, NEW Su, NEW g, NEW W, Sending(k, g, St, W), St \subseteq Su
  PROVE  Sending(k, g, Su, W)
<1>1. Outstanding(k.snd_buf, k.snd_nxt, g, Su)
  BY DEF Sending, Loose, Outstanding
<1> QED BY <1>1 DEF Sending, Loose

(***************************************************************************)
(* Nor the receiver's by what the peer sends.                              *)
(***************************************************************************)
LEMMA ReceivingExtended ==
  ASSUME NEW k \in KcpRec, NEW h, NEW f, Receiving(k, h), Extends(h, f)
  PROVE  Receiving(k, f)
<1>0. k.rcv_buf \in Seq(RecvSeg) /\ k.rcv_queue \in Seq(RecvSeg)
  BY DEF KcpRec
<1>1. \A s \in RecvSeg : At(s, h) => At(s, f)
  BY AtExtended DEF RecvSeg
<1>2. /\ \A j \in 1..Len(k.rcv_buf) : k.rcv_buf[j] \in RecvSeg
      /\ \A j \in 1..Len(k.rcv_queue) : k.rcv_queue[j] \in RecvSeg
  BY <1>0
<1>3. Buffered(k.rcv_buf, k.rcv_nxt, k.rcv_wnd, f)
  BY <1>1, <1>2 DEF Receiving, Unpacked, Buffered
<1>4. InOrder(k.rcv_queue, k.rcv_nxt, k.rcv_wnd, f)
  <2>1. k.rcv_nxt \in Nat /\ Len(h) \in Nat /\ Len(f) \in Nat /\ Len(h) <= Len(f)
    BY DEF KcpRec, Extends
  <2>2. k.rcv_nxt <= Len(f)
    BY <2>1 DEF Receiving, Unpacked, InOrder
  <2> QED BY <1>1, <1>2, <2>2 DEF Receiving, Unpacked, InOrder
<1> QED BY <1>3, <1>4 DEF Receiving, Unpacked

\* The segments a message is cut into: frg counts down to 0.
Items(data) == [j \in 1..Len(data) |-> [frg |-> Len(data) - j, data |-> data[j]]]

(***************************************************************************)
(* The fragments of a message.                                             *)
(***************************************************************************)
LEMMA ItemsAreItems ==
  ASSUME NEW data \in Seq(Token)
  PROVE  /\ Items(data) \in Seq(Item) /\ Len(Items(data)) = Len(data)
         /\ \A j \in 1..Len(data) : Items(data)[j] = [frg |-> Len(data) - j, data |-> data[j]]
<1>1. Len(data) \in Nat /\ \A j \in 1..Len(data) : data[j] \in Token /\ Len(data) - j \in Nat
  OBVIOUS
<1>2. Items(data) \in [1..Len(data) -> Item]
  BY <1>1 DEF Items, Item
<1>3. Items(data) \in Seq(Item) /\ Len(Items(data)) = Len(data)
  BY <1>1, <1>2, Listed
<1> QED BY <1>3 DEF Items

(***************************************************************************)
(* ikcp_send: the fragments are queued behind all there are.               *)
(***************************************************************************)
LEMMA KcpSendEndpoint ==
  ASSUME NEW k, NEW g \in Seq(Item), NEW h, NEW St, NEW W, Endpoint(k, g, h, St, W),
         NEW data \in Seq(Token), NEW f, f = g \o Items(data),
         NEW l, l = KcpSend(k, data)
  PROVE  Endpoint(l, f, h, St, W) /\ Later(k, l) /\ Extends(g, f) /\ SameRcv(k, l)
<1> DEFINE a == Items(data)
           q == k.snd_queue
           r == q \o a
<1>0. /\ k \in KcpRec /\ h \in Seq(Item) /\ W \in Nat
      /\ Sending(k, g, St, W) /\ Receiving(k, h)
  BY DEF Endpoint
<1>1. a \in Seq(Item) /\ Len(a) \in Nat
  BY ItemsAreItems
<1>2. l = [k EXCEPT !.snd_queue = r]
  BY DEF KcpSend, Items
<1>3. g \in Seq(Item) /\ q \in Seq(Item) /\ k.snd_nxt \in Nat /\ r = q \o a /\ f = g \o a
      /\ k.snd_buf \in Seq(SendSeg)
  BY <1>0 DEF KcpRec
<1> HIDE DEF a, q, r
<1>4. f \in Seq(Item) /\ Appended(g, a, f)
  BY ONLY <1>1, <1>3, Joined
<1>5. r \in Seq(Item) /\ Appended(q, a, r)
  BY ONLY <1>1, <1>3, Joined
<1>6. Extends(g, f)
  BY <1>1, <1>3, <1>4 DEF Extends, Appended
<1>7. /\ l \in KcpRec /\ l.snd_queue = r
      /\ l.snd_buf = k.snd_buf /\ l.snd_una = k.snd_una /\ l.snd_nxt = k.snd_nxt
      /\ SameRcv(k, l) /\ SameWnd(k, l) /\ l.rmt_wnd = k.rmt_wnd
  BY ONLY <1>0, <1>2, <1>5, PutQueue
<1>8. Queued(q, k.snd_nxt, g) /\ Outstanding(k.snd_buf, k.snd_nxt, g, St)
  BY <1>0 DEF Sending, Loose, q
<1>9. Queued(r, k.snd_nxt, f)
  <2>0. Len(g) \in Nat /\ Len(q) \in Nat /\ Len(a) \in Nat /\ Len(g) = k.snd_nxt + Len(q)
        /\ k.snd_nxt \in Nat /\ Len(r) = Len(q) + Len(a) /\ Len(f) = Len(g) + Len(a)
    BY <1>1, <1>3, <1>4, <1>5, <1>8 DEF Queued, Appended
  <2>1. Len(f) = k.snd_nxt + Len(r)
    BY ONLY <2>0
  <2>2. ASSUME NEW j \in 1..Len(r) PROVE r[j] = f[k.snd_nxt + j]
    <3>1. CASE j <= Len(q)
      <4>1. j \in 1..Len(q) /\ k.snd_nxt + j \in 1..Len(g)
        BY <2>0, <3>1, SMTT(30)
      <4>2. q[j] = g[k.snd_nxt + j]
        BY <4>1, <1>8 DEF Queued
      <4> QED BY <4>1, <4>2, <1>4, <1>5 DEF Appended
    <3>2. CASE ~(j <= Len(q))
      <4>1. j - Len(q) \in 1..Len(a) /\ r[j] = a[j - Len(q)]
        BY <3>2, <1>5 DEF Appended
      <4>2. Len(g) + (j - Len(q)) = k.snd_nxt + j
        BY <2>0
      <4>3. f[Len(g) + (j - Len(q))] = a[j - Len(q)]
        BY <4>1, <1>4 DEF Appended
      <4> QED BY <4>1, <4>2, <4>3
    <3> QED BY <3>1, <3>2
  <2> QED BY <2>1, <2>2 DEF Queued
<1>10. Outstanding(k.snd_buf, k.snd_nxt, f, St)
  <2>1. \A j \in 1..Len(k.snd_buf) : k.snd_buf[j] \in SendSeg
    BY <1>3
  <2>2. \A j \in 1..Len(k.snd_buf) : k.snd_buf[j].sn \in Nat
    BY <2>1 DEF SendSeg
  <2> QED BY <1>6, <1>8, <2>2, AtExtended DEF Outstanding
<1>11. Sending(l, f, St, W)
  BY <1>0, <1>7, <1>9, <1>10 DEF Sending, Loose
<1>12. Receiving(l, h) /\ Later(k, l)
  BY ONLY <1>0, <1>7, SameReceiving
<1> QED BY <1>0, <1>6, <1>7, <1>11, <1>12 DEF Endpoint

\* l is k after n segments have left rcv_queue.
Took(k, l, n) ==
  /\ SameWnd(k, l)
  /\ \A sn \in Nat : Stored(k, sn) => Stored(l, sn)
  /\ l.rcv_nxt - Len(l.rcv_queue) = k.rcv_nxt - Len(k.rcv_queue) + n

(***************************************************************************)
(* ikcp_recv: the fragments of the first message leave rcv_queue, whose    *)
(* place is filled from rcv_buf; what had been received counts as          *)
(* received.                                                               *)
(***************************************************************************)
LEMMA KcpRecvEndpoint ==
  ASSUME NEW k, NEW g, NEW h, NEW St, NEW W, Endpoint(k, g, h, St, W),
         NEW n, n = Len(FirstMessage(k)), n \in 0..Len(k.rcv_queue),
         NEW l, l = KcpRecv(k)
  PROVE  Endpoint(l, g, h, St, W) /\ Took(k, l, n)
<1> DEFINE q == k.rcv_queue
           r == SubSeq(q, n + 1, Len(q))
           taken == [k EXCEPT !.rcv_queue = r]
           moved == MoveReady(taken)
<1>0. /\ k \in KcpRec /\ h \in Seq(Item) /\ W \in Nat
      /\ Sending(k, g, St, W) /\ Receiving(k, h)
  BY DEF Endpoint
<1>1. /\ q \in Seq(RecvSeg) /\ k.rcv_nxt \in Nat /\ k.rcv_wnd \in Nat /\ Len(q) \in Nat
      /\ n \in 0..Len(q) /\ n \in Nat /\ Len(h) \in Nat
  BY <1>0 DEF KcpRec
<1>2. \/ l = moved
      \/ l = [moved EXCEPT !.probe = @ \union {"ASK_TELL"}]
  BY DEF KcpRecv
<1>3. /\ r \in Seq(RecvSeg) /\ Len(r) = Len(q) - n
      /\ \A j \in 1..Len(r) : n + j \in 1..Len(q) /\ r[j] = q[n + j]
  BY <1>1, Dropped
<1>4. taken = [k EXCEPT !.rcv_queue = r] /\ moved = MoveReady(taken)
  OBVIOUS
<1> HIDE DEF r, taken, moved
<1>5. /\ taken \in KcpRec /\ taken.rcv_queue = r
      /\ taken.rcv_buf = k.rcv_buf /\ taken.acklist = k.acklist /\ taken.rcv_nxt = k.rcv_nxt
      /\ SameSnd(k, taken) /\ SameWnd(k, taken) /\ taken.rmt_wnd = k.rmt_wnd
  BY ONLY <1>0, <1>3, <1>4, PutRecvQueue
<1>6. Buffered(k.rcv_buf, k.rcv_nxt, k.rcv_wnd, h) /\ InOrder(q, k.rcv_nxt, k.rcv_wnd, h)
  BY <1>0 DEF Receiving, Unpacked
<1> HIDE DEF q
<1>7. InOrder(r, k.rcv_nxt, k.rcv_wnd, h)
  <2>1. Len(q) <= k.rcv_wnd /\ Len(q) <= k.rcv_nxt /\ k.rcv_nxt <= Len(h)
    BY <1>6 DEF InOrder
  <2>2. Len(r) <= k.rcv_wnd /\ Len(r) <= k.rcv_nxt /\ k.rcv_nxt <= Len(h)
    BY ONLY <1>1, <1>3, <2>1
  <2>3. ASSUME NEW j \in 1..Len(r)
        PROVE  r[j].sn = k.rcv_nxt - Len(r) + j - 1 /\ At(r[j], h)
    <3>1. n + j \in 1..Len(q) /\ r[j] = q[n + j]
      BY <1>3
    <3>2. q[n + j].sn = k.rcv_nxt - Len(q) + (n + j) - 1 /\ At(q[n + j], h)
      BY <3>1, <1>6 DEF InOrder
    <3>3. j \in Nat /\ Len(r) = Len(q) - n
      BY <1>1, <1>3
    <3>4. k.rcv_nxt - Len(q) + (n + j) - 1 = k.rcv_nxt - Len(r) + j - 1
      BY ONLY <1>1, <3>3
    <3> QED BY <3>1, <3>2, <3>4
  <2> QED BY ONLY <2>2, <2>3 DEF InOrder
<1>8. Unpacked(taken, h)
  BY ONLY <1>5, <1>6, <1>7 DEF Unpacked, SameWnd
<1>9. /\ moved \in KcpRec /\ Unpacked(moved, h)
      /\ Full(moved.rcv_buf, moved.rcv_nxt, moved.rcv_queue, moved.rcv_wnd)
      /\ Grows(taken, moved) /\ moved.acklist = taken.acklist
      /\ SameSnd(taken, moved) /\ SameWnd(taken, moved) /\ moved.rmt_wnd = taken.rmt_wnd
  BY ONLY <1>0, <1>4, <1>5, <1>8, MoveReadyReceiving
<1>10. \A sn \in Nat : Stored(k, sn) => Stored(moved, sn)
  BY ONLY <1>5, <1>9 DEF Grows, Stored
<1>11. moved.rcv_nxt - Len(moved.rcv_queue) = k.rcv_nxt - Len(k.rcv_queue) + n
  <2>1. moved.rcv_nxt - Len(moved.rcv_queue) = k.rcv_nxt - Len(r)
    BY ONLY <1>5, <1>9 DEF Grows
  <2>2. k.rcv_nxt - Len(r) = k.rcv_nxt - Len(q) + n
    BY ONLY <1>1, <1>3
  <2> QED BY <2>1, <2>2 DEF q
<1>12. AcksKept(moved)
  <2>1. k.acklist \in Seq(Nat) /\ moved.acklist = k.acklist
    BY <1>0, <1>5, <1>9 DEF KcpRec
  <2>2. \A j \in 1..Len(k.acklist) : k.acklist[j] \in Nat /\ Stored(k, k.acklist[j])
    BY <2>1, <1>0 DEF Receiving, AcksKept
  <2> QED BY ONLY <2>1, <2>2, <1>10 DEF AcksKept
<1>13. Receiving(moved, h)
  BY ONLY <1>9, <1>12 DEF Receiving
<1>14. SameSnd(k, moved) /\ SameWnd(k, moved) /\ moved.rmt_wnd = k.rmt_wnd
  BY ONLY <1>5, <1>9 DEF SameSnd, SameWnd
<1>15. Sending(moved, g, St, W)
  BY ONLY <1>0, <1>14, SameSending
<1>16. CASE l = moved
  BY ONLY <1>0, <1>9, <1>10, <1>11, <1>13, <1>14, <1>15, <1>16 DEF Endpoint, Took
<1>17. CASE l = [moved EXCEPT !.probe = @ \union {"ASK_TELL"}]
  <2> DEFINE p == moved.probe \union {"ASK_TELL"}
  <2>1. p \in SUBSET {"ASK_SEND", "ASK_TELL"}
    BY <1>9 DEF KcpRec
  <2>2. l = [moved EXCEPT !.probe = p]
    BY <1>17
  <2> HIDE DEF p
  <2>3. /\ l \in KcpRec /\ l.rmt_wnd = moved.rmt_wnd
        /\ SameSnd(moved, l) /\ SameRcv(moved, l) /\ SameWnd(moved, l)
    BY ONLY <1>9, <2>1, <2>2, PutProbe
  <2>4. Sending(l, g, St, W)
    BY ONLY <1>15, <2>3, SameSending
  <2>5. Receiving(l, h) /\ Later(moved, l)
    BY ONLY <1>13, <2>3, SameReceiving
  <2>6. Endpoint(l, g, h, St, W) /\ SameWnd(k, l)
    BY ONLY <1>0, <1>14, <2>3, <2>4, <2>5 DEF Endpoint, SameWnd
  <2>7. \A sn \in Nat : Stored(k, sn) => Stored(l, sn)
    BY ONLY <1>10, <2>5 DEF Later, Grows
  <2>8. l.rcv_nxt - Len(l.rcv_queue) = k.rcv_nxt - Len(k.rcv_queue) + n
    BY ONLY <1>11, <2>5 DEF Later, Grows
  <2> QED BY ONLY <2>6, <2>7, <2>8 DEF Took
<1> QED BY <1>2, <1>16, <1>17

-----------------------------------------------------------------------------
\* The segments sent, g, are the messages s cut into segments: start[i] is
\* the number of the first segment of the i-th.
Cut(g, s, start) ==
  /\ g \in Seq(Item) /\ s \in Seq(Seq(Token)) /\ start \in [1..Len(s) + 1 -> Nat]
  /\ start[1] = 0 /\ start[Len(s) + 1] = Len(g)
  /\ \A i \in 1..Len(s) :
       /\ Len(s[i]) > 0 /\ start[i + 1] = start[i] + Len(s[i])
       /\ \A j \in 1..Len(s[i]) :
            /\ start[i] + j \in 1..Len(g)
            /\ g[start[i] + j] = [frg |-> Len(s[i]) - j, data |-> s[i][j]]

(***************************************************************************)
(* A message more is a piece more.                                         *)
(***************************************************************************)
LEMMA CutExtended ==
  ASSUME NEW g, NEW s, NEW start, Cut(g, s, start), NEW data \in Seq(Token), Len(data) > 0,
         NEW f, f = g \o Items(data), NEW t, t = Append(s, data),
         NEW first, first = [i \in 1..Len(t) + 1 |-> IF i = Len(t) + 1 THEN Len(f) ELSE start[i]]
  PROVE  Cut(f, t, first)
<1> DEFINE a == Items(data)
<1>0. /\ g \in Seq(Item) /\ s \in Seq(Seq(Token)) /\ start \in [1..Len(s) + 1 -> Nat]
      /\ Len(g) \in Nat /\ Len(s) \in Nat /\ data \in Seq(Token) /\ Len(data) \in Nat
  BY DEF Cut
<1>1. /\ a \in Seq(Item) /\ Len(a) = Len(data) /\ f = g \o a
      /\ \A j \in 1..Len(data) : a[j] = [frg |-> Len(data) - j, data |-> data[j]]
  BY ItemsAreItems
<1> HIDE DEF a
<1>2. f \in Seq(Item) /\ Appended(g, a, f)
  BY ONLY <1>0, <1>1, Joined
<1>3. /\ t \in Seq(Seq(Token)) /\ Len(t) = Len(s) + 1 /\ t[Len(s) + 1] = data
      /\ \A i \in 1..Len(s) : t[i] = s[i]
  BY <1>0
<1>4. Len(f) = Len(g) + Len(data) /\ Len(f) \in Nat
  BY <1>0, <1>1, <1>2 DEF Appended
<1>5. /\ first \in [1..Len(t) + 1 -> Nat]
      /\ first[Len(t) + 1] = Len(f)
      /\ \A i \in 1..Len(s) + 1 : first[i] = start[i] /\ i \in 1..Len(t) + 1
  <2>1. \A i \in 1..Len(t) + 1 : i # Len(t) + 1 => i \in 1..Len(s) + 1
    BY <1>0, <1>3
  <2>2. \A i \in 1..Len(s) + 1 : i \in 1..Len(t) + 1 /\ i # Len(t) + 1
    BY <1>0, <1>3
  <2>3. Len(t) + 1 \in 1..Len(t) + 1
    BY <1>0, <1>3
  <2>4. \A i \in 1..Len(s) + 1 : start[i] \in Nat
    BY <1>0
  <2> QED BY <2>1, <2>2, <2>3, <2>4, <1>4
<1>6. first[1] = 0
  <2>1. 1 \in 1..Len(s) + 1
    BY <1>0
  <2> QED BY <2>1, <1>5 DEF Cut
<1>7. ASSUME NEW i \in 1..Len(t)
      PROVE  /\ Len(t[i]) > 0 /\ first[i + 1] = first[i] + Len(t[i])
             /\ \A j \in 1..Len(t[i]) :
                  /\ first[i] + j \in 1..Len(f)
                  /\ f[first[i] + j] = [frg |-> Len(t[i]) - j, data |-> t[i][j]]
  <2>1. CASE i \in 1..Len(s)
    <3>1. t[i] = s[i] /\ i \in 1..Len(s) + 1 /\ i + 1 \in 1..Len(s) + 1
      BY <2>1, <1>0, <1>3
    <3>2. first[i] = start[i] /\ first[i + 1] = start[i + 1]
      BY <3>1, <1>5
    <3>3. Len(s[i]) > 0 /\ start[i + 1] = start[i] + Len(s[i])
      BY <2>1 DEF Cut
    <3>4. ASSUME NEW j \in 1..Len(s[i])
          PROVE  /\ start[i] + j \in 1..Len(f)
                 /\ f[start[i] + j] = [frg |-> Len(s[i]) - j, data |-> s[i][j]]
      <4>1. /\ start[i] + j \in 1..Len(g)
            /\ g[start[i] + j] = [frg |-> Len(s[i]) - j, data |-> s[i][j]]
        BY <2>1 DEF Cut
      <4>2. start[i] + j \in 1..Len(f)
        BY <4>1, <1>0, <1>4
      <4>3. f[start[i] + j] = g[start[i] + j]
        BY <4>1, <1>2 DEF Appended
      <4> QED BY <4>1, <4>2, <4>3
    <3> QED BY <3>1, <3>2, <3>3, <3>4
  <2>2. CASE i = Len(s) + 1
    <3>1. t[i] = data /\ i \in 1..Len(s) + 1 /\ i + 1 = Len(t) + 1
      BY <2>2, <1>0, <1>3
    <3>2. first[i] = Len(g) /\ first[i + 1] = Len(f)
      BY <2>2, <3>1, <1>5 DEF Cut
    <3>3. ASSUME NEW j \in 1..Len(data)
          PROVE  /\ Len(g) + j \in 1..Len(f)
                 /\ f[Len(g) + j] = [frg |-> Len(data) - j, data |-> data[j]]
      BY <1>0, <1>1, <1>2, <1>4 DEF Appended
    <3> QED BY <3>1, <3>2, <3>3, <1>4
  <2>3. i \in 1..Len(s) \/ i = Len(s) + 1
    BY <1>0, <1>3
  <2> QED BY <2>1, <2>2, <2>3
<1> QED BY <1>2, <1>3, <1>5, <1>6, <1>7 DEF Cut

\* All that FirstMessageWhole needs: m messages have left rcv_queue.
Delivery(k, h, s, start, m) ==
  /\ k \in KcpRec /\ Receiving(k, h) /\ Cut(h, s, start)
  /\ m \in 0..Len(s)
  /\ k.rcv_nxt - Len(k.rcv_queue) = start[m + 1]

(***************************************************************************)
(* What ikcp_peeksize finds and ikcp_recv returns is a message as it was   *)
(* sent: when rcv_queue starts where the m-th message ended, the run of    *)
(* segments up to the one whose frg is 0 is the whole of the next, no less *)
(* and no more.                                                            *)
(***************************************************************************)
LEMMA FirstMessageWhole ==
  ASSUME NEW k, NEW h, NEW s, NEW start, NEW m, Delivery(k, h, s, start, m), KcpReady(k)
  PROVE  /\ m + 1 \in 1..Len(s)
         /\ Len(FirstMessage(k)) = Len(s[m + 1])
         /\ Len(FirstMessage(k)) \in 0..Len(k.rcv_queue)
         /\ KcpPeek(k) = s[m + 1]
         /\ start[m + 2] = start[m + 1] + Len(FirstMessage(k))
<1> DEFINE q == k.rcv_queue
           x == start[m + 1]
           L == Len(s[m + 1])
<1>0. /\ q \in Seq(RecvSeg) /\ Len(q) \in Nat /\ k.rcv_nxt \in Nat
      /\ h \in Seq(Item) /\ Len(h) \in Nat
      /\ s \in Seq(Seq(Token)) /\ Len(s) \in Nat /\ m \in Nat /\ m \in 0..Len(s)
      /\ start \in [1..Len(s) + 1 -> Nat]
  <2>1. k \in KcpRec /\ Cut(h, s, start) /\ m \in 0..Len(s)
    BY DEF Delivery
  <2>2. q \in Seq(RecvSeg) /\ k.rcv_nxt \in Nat
    BY ONLY <2>1 DEF KcpRec
  <2>3. h \in Seq(Item) /\ s \in Seq(Seq(Token)) /\ start \in [1..Len(s) + 1 -> Nat]
    BY ONLY <2>1 DEF Cut
  <2> QED BY ONLY <2>1, <2>2, <2>3
<1>1. x = k.rcv_nxt - Len(q) /\ x \in Nat
  <2>1. m + 1 \in 1..Len(s) + 1
    BY <1>0
  <2> QED BY <2>1, <1>0 DEF Delivery
<1>2. \A j \in 1..Len(q) : q[j].sn = x + j - 1 /\ At(q[j], h)
  <2>1. \A j \in 1..Len(q) : q[j].sn = k.rcv_nxt - Len(q) + j - 1 /\ At(q[j], h)
    BY DEF Delivery, Receiving, Unpacked, InOrder
  <2> QED BY <2>1, <1>1
<1>3. 1 \in 1..Len(q) /\ Len(q) >= q[1].frg + 1
  BY <1>0 DEF KcpReady
<1>4. m + 1 \in 1..Len(s)
  <2>1. x < Len(h)
    <3>1. q[1].sn = x + 1 - 1 /\ q[1].sn < Len(h)
      BY <1>2, <1>3 DEF At
    <3> QED BY <3>1, <1>1
  <2>2. m # Len(s)
    BY <2>1, <1>0 DEF Delivery, Cut
  <2> QED BY <2>2, <1>0
<1>5. /\ L > 0 /\ start[(m + 1) + 1] = x + L /\ s[m + 1] \in Seq(Token) /\ L \in Nat
      /\ \A j \in 1..L :
            /\ x + j \in 1..Len(h)
            /\ h[x + j] = [frg |-> L - j, data |-> s[m + 1][j]]
  BY <1>4, <1>0, SMTT(30) DEF Delivery, Cut
<1> HIDE DEF q, x, L
<1>6. ASSUME NEW j \in 1..Len(q), j \in 1..L PROVE q[j].frg = L - j /\ q[j].data = s[m + 1][j]
  <2>1. q[j].sn = x + j - 1 /\ At(q[j], h)
    BY <1>2
  <2>2. (x + j - 1) + 1 = x + j
    BY <1>1
  <2>3. q[j].frg = h[x + j].frg /\ q[j].data = h[x + j].data
    BY <2>1, <2>2 DEF At
  <2>4. h[x + j] = [frg |-> L - j, data |-> s[m + 1][j]]
    BY <1>5, <1>6
  <2> QED BY <2>3, <2>4
<1>7. L <= Len(q)
  <2>1. 1 \in 1..L
    BY <1>5
  <2>2. q[1].frg = L - 1
    BY <1>3, <1>6, <2>1
  <2> QED BY <1>3, <2>2, <1>5, <1>0
<1> DEFINE P == {j \in 1..Len(q) : q[j].frg # 0}
           S == {n \in 0..Len(q) : \A j \in 1..n : q[j].frg # 0}
           n == Leading(k.rcv_queue, LAMBDA j : k.rcv_queue[j].frg # 0)
<1>8. n = Max(S) /\ \A i : i \in S <=> i \in 0..Len(q) /\ \A j \in 1..i : j \in P
  <2>1. n = Max(S)
    BY DEF Leading, q
  <2>2. ASSUME NEW i \in 0..Len(q) PROVE \A j \in 1..i : j \in 1..Len(q)
    BY <1>0
  <2> QED BY <2>1, <2>2
<1>9. FirstMessage(k) = SubSeq(q, 1, 1 + n)
  BY DEF FirstMessage, q
<1> HIDE DEF n, S, P
<1>10. /\ n \in 0..Len(q)
       /\ \A j \in 1..n : j \in P
       /\ n < Len(q) => n + 1 \notin P
  BY ONLY <1>0, <1>8, LeadingOf
<1>11. 1 + n = L
  <2>0. n \in Nat
    BY <1>0, <1>10
  <2>1. \A j \in 1..Len(q) : j \in 1..L => (j \in P <=> j # L)
    BY <1>5, <1>6 DEF P
  <2>2. ~(n >= L)
    <3>1. SUFFICES ASSUME n >= L PROVE FALSE
      OBVIOUS
    <3>2. L \in 1..n /\ L \in 1..L /\ L \in 1..Len(q)
      BY <3>1, <2>0, <1>5, <1>7, <1>0
    <3> QED BY <3>2, <2>1, <1>10
  <2>3. ~(n + 1 < L)
    <3>1. SUFFICES ASSUME n + 1 < L PROVE FALSE
      OBVIOUS
    <3>2. n + 1 \in 1..L /\ n + 1 \in 1..Len(q) /\ n + 1 # L /\ n < Len(q)
      BY <3>1, <2>0, <1>5, <1>7, <1>0
    <3> QED BY <3>2, <2>1, <1>10
  <2> QED BY ONLY <2>0, <2>2, <2>3, <1>5
<1> DEFINE t == SubSeq(q, 1, L)
<1>12. FirstMessage(k) = t /\ t = SubSeq(q, 1, L)
  BY <1>9, <1>11
<1> HIDE DEF t
<1>13. t \in Seq(RecvSeg) /\ Len(t) = L /\ \A j \in 1..L : t[j] = q[j]
  <2>1. L \in 0..Len(q)
    BY <1>0, <1>5, <1>7
  <2> QED BY ONLY <1>0, <2>1, <1>12, Kept
<1>14. \A j \in 1..L : t[j].data = s[m + 1][j] /\ s[m + 1][j] \in Token
  <2>1. \A j \in 1..L : j \in 1..Len(q)
    BY <1>0, <1>5, <1>7
  <2>2. \A j \in 1..L : s[m + 1][j] \in Token
    BY <1>5 DEF L
  <2> QED BY <2>1, <2>2, <1>6, <1>13
<1>15. KcpPeek(k) = s[m + 1]
  <2> DEFINE u == [j \in DOMAIN t |-> t[j].data]
             v == s[m + 1]
  <2>1. KcpPeek(k) = u
    BY <1>12 DEF KcpPeek
  <2>2. DOMAIN t = 1..L
    BY <1>13
  <2>3. u \in [1..L -> Token] /\ \A j \in 1..L : u[j] = v[j]
    BY <2>2, <1>14
  <2> HIDE DEF u
  <2>4. u \in Seq(Token) /\ Len(u) = L
    BY <2>3, <1>5, Listed
  <2>5. v \in Seq(Token) /\ Len(v) = L
    BY <1>5 DEF L
  <2> HIDE DEF v
  <2>6. u = v
    BY ONLY <2>3, <2>4, <2>5, SeqEqual
  <2> QED BY <2>1, <2>6 DEF v
<1>16. (m + 1) + 1 = m + 2
  BY <1>0
<1>17. Len(FirstMessage(k)) = L /\ L \in 0..Len(q)
  BY <1>0, <1>5, <1>7, <1>12, <1>13
<1> QED BY <1>4, <1>5, <1>15, <1>16, <1>17 DEF q, x, L

\* What was returned, r, are the first messages of those the peer sent, and
\* what has left rcv_queue are exactly their segments.
Delivered(k, h, s, r) ==
  \E start :
    /\ Cut(h, s, start)
    /\ r \in Seq(Seq(Token)) /\ Len(r) <= Len(s)
    /\ \A i \in 1..Len(r) : r[i] = s[i]
    /\ k.rcv_nxt - Len(k.rcv_queue) = start[Len(r) + 1]

\* The invariant of one end: its control block, the datagrams on their way
\* to it, and what it has returned of what its peer sent.
Side(k, p, g, h, N, s, r, W) ==
  /\ g \in Seq(Item) /\ Endpoint(k, g, h, Own(p), W) /\ k.rcv_wnd = W
  /\ \A d \in N : Carried(d, Own(p), h, W) /\ Len(d) \in 1..MtuSegs
  /\ Delivered(k, h, s, r)

\* q has what p has.
Keeps(p, q) == \A sn \in Nat : Stored(p, sn) => Stored(q, sn)

(***************************************************************************)
(* A step of the peer, seen from this end: it may hold more, send more,    *)
(* and hand in a message.                                                  *)
(***************************************************************************)
LEMMA PeerMoves ==
  ASSUME NEW k, NEW p, NEW g, NEW h, NEW N, NEW s, NEW r, NEW W, Side(k, p, g, h, N, s, r, W),
         NEW q, Keeps(p, q), NEW f, Extends(h, f), NEW t, Delivered(k, f, t, r)
  PROVE  Side(k, q, g, f, N, t, r, W)
<1>1. Own(p) \subseteq Own(q)
  BY DEF Own, Keeps
<1>2. /\ k \in KcpRec /\ W \in Nat /\ f \in Seq(Item)
      /\ Sending(k, g, Own(p), W) /\ Receiving(k, h)
  BY DEF Side, Endpoint, Extends
<1>x. Extends(h, f)
  OBVIOUS
<1>3. Sending(k, g, Own(q), W)
  BY ONLY <1>1, <1>2, SendingExtended
<1>4. Receiving(k, f)
  BY ONLY <1>x, <1>2, ReceivingExtended
<1>5. Endpoint(k, g, f, Own(q), W)
  BY ONLY <1>2, <1>3, <1>4 DEF Endpoint
<1>6. \A d \in N : Carried(d, Own(q), f, W) /\ Len(d) \in 1..MtuSegs
  <2>1. \A d \in N : Carried(d, Own(p), h, W) /\ Len(d) \in 1..MtuSegs
    BY DEF Side
  <2> QED BY ONLY <2>1, <1>1, <1>x, CarriedExtended
<1> QED BY <1>5, <1>6 DEF Side

(***************************************************************************)
(* A step of the peer that only receives.                                  *)
(***************************************************************************)
LEMMA PeerGrows ==
  ASSUME NEW k, NEW p, NEW g, NEW h, NEW N, NEW s, NEW r, NEW W, Side(k, p, g, h, N, s, r, W),
         NEW q, Keeps(p, q)
  PROVE  Side(k, q, g, h, N, s, r, W)
<1>1. Extends(h, h) /\ Delivered(k, h, s, r)
  BY DEF Side, Endpoint, Extends
<1> QED BY <1>1, PeerMoves

(***************************************************************************)
(* What has been returned is returned, as long as rcv_nxt and the length   *)
(* of rcv_queue move together.                                             *)
(***************************************************************************)
LEMMA BaseKept ==
  ASSUME NEW k, NEW h, NEW s, NEW r, Delivered(k, h, s, r),
         NEW l, l.rcv_nxt - Len(l.rcv_queue) = k.rcv_nxt - Len(k.rcv_queue)
  PROVE  Delivered(l, h, s, r)
BY DEF Delivered

(***************************************************************************)
(* ikcp_input, with what has been returned.                                *)
(***************************************************************************)
LEMMA SideInput ==
  ASSUME NEW k, NEW p, NEW g, NEW h, NEW N, NEW s, NEW r, NEW W, Side(k, p, g, h, N, s, r, W),
         NEW d \in N, NEW l, l = KcpInput(k, d)
  PROVE  Side(l, p, g, h, N, s, r, W) /\ Keeps(k, l)
<1>1. Endpoint(k, g, h, Own(p), W) /\ Carried(d, Own(p), h, W)
  BY DEF Side
<1>l. l = KcpInput(k, d)
  OBVIOUS
<1>2. Endpoint(l, g, h, Own(p), W) /\ Later(k, l)
  BY ONLY <1>1, <1>l, KcpInputEndpoint
<1>3. Delivered(l, h, s, r)
  BY <1>2, BaseKept DEF Side, Later, Grows
<1>4. l.rcv_wnd = W /\ Keeps(k, l)
  BY <1>2 DEF Side, Later, SameWnd, Keeps, Grows
<1> QED BY <1>2, <1>3, <1>4 DEF Side

(***************************************************************************)
(* ikcp_flush: the datagrams it makes are true of the endpoint as it is    *)
(* afterwards.                                                             *)
(***************************************************************************)
LEMMA SideFlush ==
  ASSUME NEW k, NEW p, NEW g, NEW h, NEW N, NEW s, NEW r, NEW W, Side(k, p, g, h, N, s, r, W),
         NEW late, NEW due, NEW f, f = KcpFlush(k, late, due)
  PROVE  /\ Side(f.kcp, p, g, h, N, s, r, W) /\ Keeps(k, f.kcp)
         /\ \A d \in Datagrams(f.out) : Carried(d, Own(f.kcp), g, W) /\ Len(d) \in 1..MtuSegs
<1> DEFINE l == f.kcp
           o == f.out
<1>1. g \in Seq(Item) /\ Endpoint(k, g, h, Own(p), W) /\ k.rcv_wnd = W
  BY DEF Side
<1>l. l = KcpFlush(k, late, due).kcp /\ o = KcpFlush(k, late, due).out
  OBVIOUS
<1> HIDE DEF l, o
<1>2. Endpoint(l, g, h, Own(p), W) /\ Later(k, l)
  BY ONLY <1>1, <1>l, KcpFlushKcp
<1>3. Carried(o, Own(k), g, k.rcv_wnd)
  BY ONLY <1>1, <1>l, KcpFlushOut
<1>4. Delivered(l, h, s, r)
  BY <1>2, BaseKept DEF Side, Later, Grows
<1>5. l.rcv_wnd = W /\ Keeps(k, l)
  BY <1>2 DEF Side, Later, SameWnd, Keeps, Grows
<1>6. Side(l, p, g, h, N, s, r, W)
  BY <1>2, <1>4, <1>5 DEF Side
<1>7. \A d \in Datagrams(o) : Carried(d, Own(l), g, W) /\ Len(d) \in 1..MtuSegs
  <2> SUFFICES ASSUME NEW d \in Datagrams(o)
               PROVE  Carried(d, Own(l), g, W) /\ Len(d) \in 1..MtuSegs
    OBVIOUS
  <2>1. Carried(o, Own(k), g, W)
    BY <1>1, <1>3
  <2>2. Carried(d, Own(k), g, W) /\ Len(d) \in 1..MtuSegs
    BY <2>1, DatagramsCarried
  <2>3. Own(k) \subseteq Own(l) /\ Extends(g, g)
    BY <1>1, <1>5 DEF Own, Keeps, Extends
  <2> QED BY <2>2, <2>3, CarriedExtended
<1> QED BY <1>5, <1>6, <1>7 DEF l, o

(***************************************************************************)
(* ikcp_send, of one end.                                                  *)
(***************************************************************************)
LEMMA SideSend ==
  ASSUME NEW k, NEW p, NEW g, NEW h, NEW N, NEW s, NEW r, NEW W, Side(k, p, g, h, N, s, r, W),
         NEW data \in Seq(Token), NEW f, f = g \o Items(data), NEW l, l = KcpSend(k, data)
  PROVE  Side(l, p, f, h, N, s, r, W) /\ Keeps(k, l) /\ Extends(g, f)
<1>1. g \in Seq(Item) /\ Endpoint(k, g, h, Own(p), W)
  BY DEF Side
<1>l. data \in Seq(Token) /\ f = g \o Items(data) /\ l = KcpSend(k, data)
  OBVIOUS
<1>2. Endpoint(l, f, h, Own(p), W) /\ Later(k, l) /\ Extends(g, f)
  BY ONLY <1>1, <1>l, KcpSendEndpoint
<1>3. Delivered(l, h, s, r)
  BY <1>2, BaseKept DEF Side, Later, Grows
<1>4. l.rcv_wnd = W /\ Keeps(k, l) /\ f \in Seq(Item)
  BY <1>2 DEF Side, Later, SameWnd, Keeps, Grows, Extends
<1> QED BY <1>2, <1>3, <1>4 DEF Side

(***************************************************************************)
(* The message handed in comes after all those returned.                   *)
(***************************************************************************)
LEMMA DeliveredSent ==
  ASSUME NEW k, NEW h, NEW s, NEW r, Delivered(k, h, s, r),
         NEW data \in Seq(Token), Len(data) > 0, NEW f, f = h \o Items(data),
         NEW t, t = Append(s, data)
  PROVE  Delivered(k, f, t, r)
<1>1. PICK start : /\ Cut(h, s, start)
                   /\ r \in Seq(Seq(Token)) /\ Len(r) <= Len(s)
                   /\ \A i \in 1..Len(r) : r[i] = s[i]
                   /\ k.rcv_nxt - Len(k.rcv_queue) = start[Len(r) + 1]
  BY DEF Delivered
<1> DEFINE first == [i \in 1..Len(t) + 1 |-> IF i = Len(t) + 1 THEN Len(f) ELSE start[i]]
<1>2. data \in Seq(Token) /\ Len(data) > 0 /\ f = h \o Items(data) /\ t = Append(s, data)
      /\ first = [i \in 1..Len(t) + 1 |-> IF i = Len(t) + 1 THEN Len(f) ELSE start[i]]
  OBVIOUS
<1>3. Cut(f, t, first)
  BY ONLY <1>1, <1>2, CutExtended, ZenonT(60)
<1>4. s \in Seq(Seq(Token)) /\ Len(s) \in Nat /\ Len(r) \in Nat
  BY <1>1 DEF Cut
<1>5. Len(t) = Len(s) + 1 /\ \A i \in 1..Len(s) : t[i] = s[i]
  BY <1>2, <1>4
<1>6. \A i \in 1..Len(r) : r[i] = t[i]
  <2>1. \A i \in 1..Len(r) : i \in 1..Len(s)
    BY <1>1, <1>4
  <2> QED BY <2>1, <1>1, <1>5
<1>7. first[Len(r) + 1] = start[Len(r) + 1]
  <2>1. Len(r) + 1 \in 1..Len(t) + 1 /\ Len(r) + 1 # Len(t) + 1
    BY <1>1, <1>4, <1>5
  <2> QED BY <2>1
<1>8. Len(r) <= Len(t)
  BY <1>1, <1>4, <1>5
<1> HIDE DEF first
<1> QED BY <1>1, <1>3, <1>6, <1>7, <1>8 DEF Delivered

(***************************************************************************)
(* ikcp_recv: the message returned is the next of those the peer sent.     *)
(***************************************************************************)
LEMMA SideRecv ==
  ASSUME NEW k, NEW p, NEW g, NEW h, NEW N, NEW s, NEW r, NEW W, Side(k, p, g, h, N, s, r, W),
         KcpReady(k), NEW l, l = KcpRecv(k), NEW x, x = Append(r, KcpPeek(k))
  PROVE  /\ Side(l, p, g, h, N, s, x, W) /\ Keeps(k, l)
         /\ Len(r) < Len(s) /\ KcpPeek(k) = s[Len(r) + 1]
<1>1. PICK start : /\ Cut(h, s, start)
                   /\ r \in Seq(Seq(Token)) /\ Len(r) <= Len(s)
                   /\ \A i \in 1..Len(r) : r[i] = s[i]
                   /\ k.rcv_nxt - Len(k.rcv_queue) = start[Len(r) + 1]
  BY DEF Side, Delivered
<1>2. /\ s \in Seq(Seq(Token)) /\ Len(s) \in Nat /\ Len(r) \in Nat /\ Len(r) \in 0..Len(s)
      /\ start \in [1..Len(s) + 1 -> Nat]
  BY <1>1 DEF Cut
<1> DEFINE m == Len(r)
           n == Len(FirstMessage(k))
<1>3. Endpoint(k, g, h, Own(p), W)
  BY DEF Side
<1>4. Delivery(k, h, s, start, m) /\ KcpReady(k)
  BY <1>1, <1>2, <1>3 DEF Delivery, Endpoint
<1>n. n = Len(FirstMessage(k)) /\ l = KcpRecv(k)
  OBVIOUS
<1> HIDE DEF m, n
<1>5. /\ m + 1 \in 1..Len(s)
      /\ Len(FirstMessage(k)) = Len(s[m + 1])
      /\ Len(FirstMessage(k)) \in 0..Len(k.rcv_queue)
      /\ KcpPeek(k) = s[m + 1]
      /\ start[m + 2] = start[m + 1] + Len(FirstMessage(k))
  BY ONLY <1>4, FirstMessageWhole
<1>6. n \in 0..Len(k.rcv_queue)
  BY <1>5, <1>n
<1>7. /\ Endpoint(l, g, h, Own(p), W) /\ SameWnd(k, l)
      /\ \A sn \in Nat : Stored(k, sn) => Stored(l, sn)
      /\ l.rcv_nxt - Len(l.rcv_queue) = k.rcv_nxt - Len(k.rcv_queue) + n
  <2>1. Endpoint(l, g, h, Own(p), W) /\ Took(k, l, n)
    BY ONLY <1>3, <1>n, <1>6, KcpRecvEndpoint
  <2> QED BY ONLY <2>1 DEF Took
<1>8. s[m + 1] \in Seq(Token)
  BY <1>2, <1>5
<1>9. /\ x \in Seq(Seq(Token)) /\ Len(x) = m + 1 /\ x[m + 1] = s[m + 1]
      /\ \A i \in 1..m : x[i] = r[i]
  BY <1>1, <1>2, <1>5, <1>8 DEF m
<1>10. Len(x) <= Len(s) /\ \A i \in 1..Len(x) : x[i] = s[i]
  <2>1. m + 1 <= Len(s) /\ \A i \in 1..m + 1 : i \in 1..m \/ i = m + 1
    BY <1>2, <1>5 DEF m
  <2> QED BY <2>1, <1>1, <1>9 DEF m
<1>11. l.rcv_nxt - Len(l.rcv_queue) = start[Len(x) + 1]
  <2>1. (m + 1) + 1 = m + 2
    BY <1>2 DEF m
  <2>2. l.rcv_nxt - Len(l.rcv_queue) = start[m + 1] + n
    BY <1>1, <1>7 DEF m
  <2> QED BY <2>1, <2>2, <1>5, <1>9, <1>n
<1>12. Delivered(l, h, s, x)
  BY <1>1, <1>9, <1>10, <1>11 DEF Delivered
<1>13. Len(r) < Len(s) /\ KcpPeek(k) = s[Len(r) + 1]
  BY <1>2, <1>5 DEF m
<1>14. l.rcv_wnd = W /\ Keeps(k, l)
  BY <1>7 DEF Side, SameWnd, Keeps
<1> QED BY <1>7, <1>12, <1>13, <1>14 DEF Side
=============================================================================
