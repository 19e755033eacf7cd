--------------------------- MODULE RingBufProofs ---------------------------
(***************************************************************************)
(* Proofs about RingBuf, for every capacity and every set of bytes.  The   *)
(* argument rests on one invariant, HeadsAgree: the two heads are u bytes  *)
(* apart.  It gives the asserts, and it makes the two branches of every    *)
(* operation (contiguous or wrapped) the same operation on the queue.      *)
(***************************************************************************)
EXTENDS RingBuf, SequenceTheorems, TLAPS

(***************************************************************************)
(* The heads are moved with %: over the range they can reach, that is one  *)
(* conditional subtraction.                                                *)
(***************************************************************************)
LEMMA ModOnce ==
  ASSUME NEW a \in Nat, a < 2 * N
  PROVE  /\ a % N = IF a < N THEN a ELSE a - N
         /\ a % N \in Index
  BY NAssumption, SMT DEF Index

(***************************************************************************)
(* So a head advanced by at most N bytes is back in the array.             *)
(***************************************************************************)
LEMMA ModWrap ==
  ASSUME NEW h \in Index, NEW n \in 0..N
  PROVE  /\ (h + n) % N = IF h + n < N THEN h + n ELSE h + n - N
         /\ (h + n) % N \in Index
<1>1. h + n \in Nat /\ h + n < 2 * N
  BY NAssumption DEF Index
<1>2. PICK a \in Nat : a = h + n
  BY <1>1
<1>3. a % N = (IF a < N THEN a ELSE a - N) /\ a % N \in Index
  BY <1>1, <1>2, ModOnce
<1> QED  BY <1>2, <1>3, NAssumption DEF Index

(***************************************************************************)
(* The data of a write is a sequence of bytes.                             *)
(***************************************************************************)
LEMMA DataIsSeq ==
  ASSUME NEW data \in Data
  PROVE  data \in Seq(Byte) /\ Len(data) \in 0..MaxPut
  BY MaxPutAssumption DEF Data

(***************************************************************************)
(* The free space the two branches of ringbuf_put compute is N - u.        *)
(***************************************************************************)
LEMMA FreeSpaceIs ==
  ASSUME IInv
  PROVE  FreeSpace = N - u
  BY NAssumption DEF IInv, TypeOK, HeadsAgree, FreeSpace, Index

(***************************************************************************)
(* What ringbuf_put writes: the pending bytes stay and the new ones follow *)
(* them, whichever branch copies.                                          *)
(***************************************************************************)
LEMMA CopyInWrites ==
  ASSUME IInv, NEW data \in Seq(Byte), Len(data) <= N - u
  PROVE  /\ CopyIn(data) \in [Index -> Byte]
         /\ \A k \in 0..(u - 1) : CopyIn(data)[Slot(k)] = d[Slot(k)]
         /\ \A k \in 1..Len(data) : CopyIn(data)[Slot(u + k - 1)] = data[k]
<1> Len(data) \in Nat /\ data \in [1..Len(data) -> Byte]
  BY LenProperties
<1>a. CASE i < o
  <2> CopyIn(data) = Memcpy(d, i, data, 0, Len(data))
    BY <1>a DEF CopyIn
  <2> QED
    BY <1>a, NAssumption DEF IInv, TypeOK, HeadsAgree, Index, Memcpy, Slot
<1>b. CASE ~(i < o) /\ ~(Len(data) > N - i)
  <2> CopyIn(data) = Memcpy(d, i, data, 0, Len(data))
    BY <1>b, NAssumption DEF CopyIn, MinLen, IInv, TypeOK, Index
  <2> QED
    BY <1>b, NAssumption DEF IInv, TypeOK, HeadsAgree, Index, Memcpy, Slot
<1>c. CASE ~(i < o) /\ Len(data) > N - i
  <2> CopyIn(data) = [k \in Index |-> IF k < Len(data) - (N - i) THEN data[(N - i) + k + 1]
                                      ELSE IF i <= k THEN data[k - i + 1] ELSE d[k]]
    BY <1>c, NAssumption DEF CopyIn, MinLen, IInv, TypeOK, Index, Memcpy
  <2> QED
    BY <1>c, NAssumption DEF IInv, TypeOK, HeadsAgree, Index, Slot
<1> QED  BY <1>a, <1>b, <1>c

(***************************************************************************)
(* The inductive invariant: initially.                                     *)
(***************************************************************************)
LEMMA InitInv == Init => IInv
  BY NAssumption DEF Init, IInv, TypeOK, HeadsAgree, Index

(***************************************************************************)
(* The inductive invariant: preserved by every operation.                  *)
(***************************************************************************)
LEMMA NextInv == IInv /\ [Next]_vars => IInv'
<1> SUFFICES ASSUME IInv, [Next]_vars PROVE IInv'
  OBVIOUS
<1> USE NAssumption
<1>1. ASSUME NEW data \in Data, Put(data) PROVE IInv'
  <2> data \in Seq(Byte) /\ Len(data) \in Nat
    BY DataIsSeq, LenProperties
  <2>a. CASE Len(data) > FreeSpace
    BY <1>1, <2>a DEF Put, IInv, TypeOK, HeadsAgree
  <2>b. CASE ~(Len(data) > FreeSpace)
    <3>1. Len(data) <= N - u
      BY <2>b, FreeSpaceIs DEF IInv, TypeOK
    <3>2. d' \in [Index -> Byte]
      BY <1>1, <2>b, <3>1, CopyInWrites DEF Put
    <3>3. i \in Index /\ Len(data) \in 0..N
      BY <3>1 DEF IInv, TypeOK
    <3>4. /\ i' = IF i + Len(data) < N THEN i + Len(data) ELSE i + Len(data) - N
          /\ i' \in Index
      BY <1>1, <2>b, <3>3, ModWrap DEF Put
    <3>5. u' = u + Len(data) /\ o' = o /\ ret' = 0 /\ out' = <<>>
      BY <1>1, <2>b DEF Put
    <3>6. HeadsAgree'
      <4>1. u \in 0..N /\ i \in 0..(N - 1) /\ o \in 0..(N - 1) /\ (i = o + u \/ i = o + u - N)
        BY DEF IInv, TypeOK, HeadsAgree, Index
      <4>2. i' = o + (u + Len(data)) \/ i' = o + (u + Len(data)) - N
        BY <3>1, <3>4, <4>1
      <4> QED  BY <3>5, <4>2 DEF HeadsAgree
    <3>7. TypeOK'
      BY <3>1, <3>2, <3>4, <3>5 DEF IInv, TypeOK
    <3> QED
      BY <3>6, <3>7 DEF IInv
  <2> QED  BY <2>a, <2>b
<1>2. CASE NextChunk
  <2>1. ChunkLen \in Nat /\ o + ChunkLen <= N
    BY DEF ChunkLen, IInv, TypeOK, HeadsAgree, Index
  <2>2. out' \in [1..ChunkLen -> Byte]
    BY <1>2, <2>1 DEF NextChunk, ReadAt, IInv, TypeOK, Index
  <2>3. out' \in Seq(Byte)
    BY <2>1, <2>2
  <2> QED
    BY <1>2, <2>1, <2>3 DEF NextChunk, IInv, TypeOK, HeadsAgree
<1>3. ASSUME NEW len \in 0..MaxPut, MarkConsumed(len) PROVE IInv'
  <2>1. o \in Index /\ len \in 0..N
    BY <1>3, MaxPutAssumption DEF MarkConsumed, IInv, TypeOK
  <2>2. /\ o' = IF o + len < N THEN o + len ELSE o + len - N
        /\ o' \in Index
    BY <1>3, <2>1, ModWrap DEF MarkConsumed
  <2>3. u' = u - len /\ i' = i /\ d' = d /\ ret' = 0 /\ out' = <<>> /\ len <= u
    BY <1>3 DEF MarkConsumed
  <2>4. HeadsAgree'
    <3>1. u \in 0..N /\ i \in 0..(N - 1) /\ o \in 0..(N - 1) /\ (i = o + u \/ i = o + u - N)
      BY DEF IInv, TypeOK, HeadsAgree, Index
    <3>2. i = o' + (u - len) \/ i = o' + (u - len) - N
      BY <2>1, <2>2, <2>3, <3>1
    <3> QED  BY <2>3, <3>2 DEF HeadsAgree
  <2>5. TypeOK'
    BY <2>1, <2>2, <2>3 DEF IInv, TypeOK
  <2> QED  BY <2>4, <2>5 DEF IInv
<1>4. ASSUME NEW len \in 0..MaxPut, CopyData(len) PROVE IInv'
  <2>a. CASE u < len
    BY <1>4, <2>a DEF CopyData, IInv, TypeOK, HeadsAgree
  <2>b. CASE ~(u < len)
    <3>1. out' \in [1..len -> Byte]
      BY <1>4, <2>b, MaxPutAssumption
         DEF CopyData, Gather, ReadAt, IInv, TypeOK, HeadsAgree, Index
    <3>2. out' \in Seq(Byte)
      BY <3>1, MaxPutAssumption
    <3> QED
      BY <1>4, <2>b, <3>2 DEF CopyData, IInv, TypeOK, HeadsAgree
  <2> QED  BY <2>a, <2>b
<1>5. CASE Clear
  BY <1>5 DEF Clear, IInv, TypeOK, HeadsAgree, Index
<1>6. CASE UNCHANGED vars
  BY <1>6 DEF vars, IInv, TypeOK, HeadsAgree
<1> QED  BY <1>1, <1>2, <1>3, <1>4, <1>5, <1>6 DEF Next

(***************************************************************************)
(* The inductive invariant holds in every reachable state.                 *)
(***************************************************************************)
LEMMA Invariance == Spec => []IInv
  BY InitInv, NextInv, PTL DEF Spec

(***************************************************************************)
(* Both heads stay inside the array, for every capacity.                   *)
(***************************************************************************)
THEOREM TypeCorrect == Spec => []TypeOK
<1>1. IInv => TypeOK  BY DEF IInv
<1> QED  BY <1>1, Invariance, PTL

(***************************************************************************)
(* No assert of kcpev_ringbuf.c can fire, for every capacity.              *)
(***************************************************************************)
THEOREM AssertsHold == Spec => []Asserts
<1>1. IInv => Asserts
  BY NAssumption, FreeSpaceIs DEF IInv, TypeOK, HeadsAgree, Asserts, Index
<1> QED  BY <1>1, Invariance, PTL
-----------------------------------------------------------------------------
(***************************************************************************)
(* The pending bytes, read round the end of the array, are a sequence of   *)
(* length u.                                                               *)
(***************************************************************************)
LEMMA PendingSeq ==
  ASSUME IInv
  PROVE  /\ Pending \in Seq(Byte)
         /\ Len(Pending) = u
         /\ \A k \in 1..u : Pending[k] = d[Slot(k - 1)]
<1>1. u \in Nat
  BY NAssumption DEF IInv, TypeOK
<1>2. \A k \in 1..u : Slot(k - 1) \in Index
  BY NAssumption DEF IInv, TypeOK, Slot, Index
<1>3. Pending \in [1..u -> Byte]
  BY <1>2 DEF IInv, TypeOK, Pending
<1> QED  BY <1>1, <1>3 DEF Pending

(***************************************************************************)
(* A chunk or a copy of len bytes is the len oldest pending bytes as soon  *)
(* as its k-th byte is the k-th pending one.                               *)
(***************************************************************************)
LEMMA IsPrefixOfPending ==
  ASSUME IInv, NEW len \in 0..u, NEW s, s = [k \in 1..len |-> s[k]],
         \A k \in 1..len : s[k] = d[Slot(k - 1)]
  PROVE  s = SubSeq(Pending, 1, len)
<1>1. u \in Nat /\ len \in Nat
  BY NAssumption DEF IInv, TypeOK
<1>2. SubSeq(Pending, 1, len) = [k \in 1..len |-> Pending[k]]
  BY <1>1, PendingSeq
<1>3. \A k \in 1..len : Pending[k] = s[k]
  BY <1>1, PendingSeq
<1> QED  BY <1>2, <1>3

(***************************************************************************)
(* Initially the queue is empty.                                           *)
(***************************************************************************)
LEMMA InitRefines == Init => Queue!Init
<1> SUFFICES ASSUME Init PROVE Queue!Init
  OBVIOUS
<1>1. IInv /\ u = 0 /\ call = <<"new">> /\ ret = 0 /\ out = <<>>
  BY InitInv DEF Init
<1>2. Pending = <<>>
  BY <1>1, PendingSeq, EmptySeq
<1> QED  BY <1>1, <1>2 DEF Queue!Init

(***************************************************************************)
(* ringbuf_put implements the queue's write.                               *)
(***************************************************************************)
LEMMA PutRefines ==
  ASSUME IInv, IInv', NEW data \in Data, Put(data)
  PROVE  Queue!Put(data)
<1> USE NAssumption
<1>0. /\ data \in Seq(Byte) /\ Len(data) \in Nat /\ u \in Nat /\ N \in Nat
      /\ Pending \in Seq(Byte) /\ Len(Pending) = u
  BY DataIsSeq, LenProperties, PendingSeq DEF IInv, TypeOK
<1>1. out' = <<>> /\ call' = <<"put", data>>
  BY DEF Put
<1>a. CASE Len(data) > FreeSpace
  <2>1. ~(Len(Pending) + Len(data) <= N)
    BY <1>0, <1>a, FreeSpaceIs
  <2>2. UNCHANGED <<u, o, d>> /\ ret' = -1
    BY <1>a DEF Put
  <2>3. Pending' = Pending
    BY <2>2 DEF Pending, Slot
  <2> QED  BY <1>1, <2>1, <2>2, <2>3 DEF Queue!Put
<1>b. CASE ~(Len(data) > FreeSpace)
  <2>1. Len(data) <= N - u
    BY <1>0, <1>b, FreeSpaceIs
  <2>2. u' = u + Len(data) /\ o' = o /\ d' = CopyIn(data) /\ ret' = 0
    BY <1>b DEF Put
  <2>3. /\ \A k \in 0..(u - 1) : d'[Slot(k)] = d[Slot(k)]
        /\ \A k \in 1..Len(data) : d'[Slot(u + k - 1)] = data[k]
    BY <1>0, <2>1, <2>2, CopyInWrites
  <2>4. /\ Pending' = [k \in 1..(u + Len(data)) |-> d'[Slot(k - 1)]]
        /\ Pending' \in Seq(Byte) /\ Len(Pending') = u + Len(data)
    <3>1. Pending' = [k \in 1..(u + Len(data)) |-> d'[Slot(k - 1)]]
      BY <2>2 DEF Pending, Slot
    <3>2. \A k \in 1..(u + Len(data)) : Slot(k - 1) \in Index
      BY <1>0, <2>1 DEF Slot, Index, IInv, TypeOK
    <3>3. Pending' \in [1..(u + Len(data)) -> Byte]
      BY <3>1, <3>2 DEF IInv, TypeOK
    <3> QED  BY <1>0, <3>1, <3>3
  <2>5. /\ Pending \o data \in Seq(Byte) /\ Len(Pending \o data) = u + Len(data)
        /\ \A k \in 1..(u + Len(data)) :
              (Pending \o data)[k] = IF k <= u THEN Pending[k] ELSE data[k - u]
    BY <1>0, ConcatProperties
  <2>6. ASSUME NEW k \in 1..(u + Len(data))
        PROVE  d'[Slot(k - 1)] = IF k <= u THEN Pending[k] ELSE data[k - u]
    <3>a. CASE k <= u
      <4>1. k - 1 \in 0..(u - 1) /\ k \in 1..u
        BY <1>0, <3>a
      <4> QED  BY <3>a, <4>1, <2>3, PendingSeq
    <3>b. CASE ~(k <= u)
      <4>1. PICK m \in 1..Len(data) : m = k - u
        BY <1>0, <3>b
      <4>2. u + m - 1 = k - 1
        BY <1>0, <4>1
      <4>3. d'[Slot(k - 1)] = data[m]
        BY <4>2, <2>3
      <4> QED  BY <3>b, <4>1, <4>3
    <3> QED  BY <3>a, <3>b
  <2>7. Pending' = Pending \o data
    <3>1. \A k \in 1..Len(Pending') : Pending'[k] = (Pending \o data)[k]
      BY <2>4, <2>5, <2>6
    <3> QED  BY <2>4, <2>5, <3>1, SeqEqual
  <2>8. Len(Pending) + Len(data) <= N
    BY <1>0, <2>1
  <2> QED  BY <1>1, <2>2, <2>7, <2>8 DEF Queue!Put
<1> QED  BY <1>a, <1>b

(***************************************************************************)
(* ringbuf_get_next_chunk hands out the oldest bytes, some if there is one.*)
(***************************************************************************)
LEMMA NextChunkRefines ==
  ASSUME IInv, NextChunk
  PROVE  Queue!NextChunk
<1> USE NAssumption
<1>1. /\ ChunkLen \in 0..u /\ o + ChunkLen <= N /\ (ChunkLen = 0 <=> u = 0)
  BY DEF ChunkLen, IInv, TypeOK, HeadsAgree, Index
<1>2. ret' = ChunkLen /\ call' = <<"chunk">> /\ out' = [k \in 1..ChunkLen |-> d[o + k - 1]]
  BY DEF NextChunk, ReadAt
<1>3. \A k \in 1..ChunkLen : out'[k] = d[Slot(k - 1)]
  BY <1>1, <1>2 DEF IInv, TypeOK, Index, Slot
<1>4. out' = SubSeq(Pending, 1, ChunkLen)
  BY <1>1, <1>2, <1>3, IsPrefixOfPending
<1>5. Pending' = Pending
  BY DEF NextChunk, Pending, Slot
<1>6. Len(Pending) = u /\ (Pending = <<>> <=> u = 0)
  BY PendingSeq, EmptySeq
<1> QED  BY <1>1, <1>2, <1>4, <1>5, <1>6 DEF Queue!NextChunk

(***************************************************************************)
(* ringbuf_mark_consumed drops the oldest bytes.                           *)
(***************************************************************************)
LEMMA MarkConsumedRefines ==
  ASSUME IInv, IInv', NEW len \in 0..MaxPut, MarkConsumed(len)
  PROVE  Queue!MarkConsumed(len)
<1> USE NAssumption, MaxPutAssumption
<1>1. /\ len \in 0..u /\ u \in 0..N /\ o \in 0..(N - 1) /\ u' = u - len /\ d' = d
      /\ call' = <<"consume", len>> /\ ret' = 0 /\ out' = <<>>
  BY DEF MarkConsumed, IInv, TypeOK, Index
<1>2. o' = IF o + len < N THEN o + len ELSE o + len - N
  <2>1. o \in Index /\ len \in 0..N
    BY <1>1 DEF Index
  <2> QED  BY <2>1, ModWrap DEF MarkConsumed
<1>3. Pending' = [k \in 1..(u - len) |-> d[Slot(len + k - 1)]]
  <2>1. \A k \in 1..(u - len) : Slot(k - 1)' = Slot(len + k - 1)
    BY <1>1, <1>2 DEF Slot
  <2> QED  BY <1>1, <2>1 DEF Pending
<1>4. SubSeq(Pending, len + 1, u) = [k \in 1..(u - len) |-> Pending[len + k]]
  BY <1>1, PendingSeq
<1>5. \A k \in 1..(u - len) : Pending[len + k] = d[Slot(len + k - 1)]
  BY <1>1, PendingSeq
<1>6. Pending' = SubSeq(Pending, len + 1, Len(Pending))
  BY <1>3, <1>4, <1>5, PendingSeq
<1>7. len <= Len(Pending)
  BY <1>1, PendingSeq
<1> QED  BY <1>1, <1>6, <1>7 DEF Queue!MarkConsumed

(***************************************************************************)
(* ringbuf_copy_data copies the oldest bytes and consumes none.            *)
(***************************************************************************)
LEMMA CopyDataRefines ==
  ASSUME IInv, NEW len \in 0..MaxPut, CopyData(len)
  PROVE  Queue!CopyData(len)
<1> USE NAssumption, MaxPutAssumption
<1>1. Pending' = Pending
  BY DEF CopyData, Pending, Slot
<1>2. Len(Pending) = u /\ u \in 0..N
  BY PendingSeq DEF IInv, TypeOK
<1>a. CASE u < len
  BY <1>a, <1>1, <1>2 DEF CopyData, Queue!CopyData
<1>b. CASE ~(u < len)
  <2>1. len \in 0..u /\ call' = <<"copy", len>> /\ ret' = 0 /\ out' = Gather(len)
    BY <1>b, <1>2 DEF CopyData
  <2>2. Gather(len) = [k \in 1..len |-> d[Slot(k - 1)]]
    BY <2>1, <1>2, SMTT(30) DEF Gather, ReadAt, Slot, IInv, TypeOK, HeadsAgree, Index
  <2>3. out' = SubSeq(Pending, 1, len)
    BY <2>1, <2>2, IsPrefixOfPending
  <2> QED  BY <1>1, <1>2, <2>1, <2>3 DEF Queue!CopyData
<1> QED  BY <1>a, <1>b

(***************************************************************************)
(* Every operation of the ring is the queue's operation, or a stutter.     *)
(***************************************************************************)
LEMMA NextRefines == IInv /\ IInv' /\ [Next]_vars => [Queue!Next]_(Queue!vars)
<1> SUFFICES ASSUME IInv, IInv', [Next]_vars PROVE [Queue!Next]_(Queue!vars)
  OBVIOUS
<1>1. ASSUME NEW data \in Data, Put(data) PROVE Queue!Next
  <2>1. data \in Queue!Data
    BY DEF Data, Queue!Data
  <2> QED  BY <1>1, <2>1, PutRefines DEF Queue!Next
<1>2. CASE NextChunk
  BY <1>2, NextChunkRefines DEF Queue!Next
<1>3. ASSUME NEW len \in 0..MaxPut, MarkConsumed(len) PROVE Queue!Next
  BY <1>3, MarkConsumedRefines DEF Queue!Next
<1>4. ASSUME NEW len \in 0..MaxPut, CopyData(len) PROVE Queue!Next
  BY <1>4, CopyDataRefines DEF Queue!Next
<1>5. CASE Clear
  <2>1. u' = 0 /\ call' = <<"clear">> /\ ret' = 0 /\ out' = <<>>
    BY <1>5 DEF Clear
  <2>2. Pending' = <<>>
    BY <2>1 DEF Pending
  <2> QED  BY <2>1, <2>2 DEF Queue!Next, Queue!Clear
<1>6. CASE UNCHANGED vars
  <2>1. UNCHANGED <<u, i, o, d, call, ret, out>>
    BY <1>6 DEF vars
  <2>2. UNCHANGED Pending
    BY <2>1 DEF Pending, Slot
  <2> QED  BY <2>1, <2>2 DEF Queue!vars
<1> QED  BY <1>1, <1>2, <1>3, <1>4, <1>5, <1>6 DEF Next

(***************************************************************************)
(* The ring of kcpev_ringbuf.c is a FIFO queue of N bytes: nothing is      *)
(* lost, reordered or invented, wherever the heads are.                    *)
(***************************************************************************)
THEOREM ImplementsQueue == Spec => Refinement
<1>1. Init => Queue!Init  BY InitRefines
<1>2. IInv /\ IInv' /\ [Next]_vars => [Queue!Next]_(Queue!vars)  BY NextRefines
<1> QED  BY <1>1, <1>2, Invariance, PTL DEF Spec, Refinement, Queue!Spec
=============================================================================
