------------------------------ MODULE RingBuf ------------------------------
(***************************************************************************)
(* The byte ring of src/src/kcpev_ringbuf.c: the buffer in which a TCP     *)
(* receiver keeps the pieces of packets that have not arrived completely.  *)
(* i, o and u are the input head, the output head and the number of used   *)
(* bytes; i = o is both the empty and the full ring, which only u tells    *)
(* apart.  d holds whatever malloc left there until it is written.         *)
(***************************************************************************)
EXTENDS Integers, Sequences

CONSTANTS Byte,     \* the values a byte can take
          N,        \* capacity, the argument of ringbuf_new
          MaxPut    \* bound on the length of one write or read (checking only)

ASSUME NAssumption == N \in Nat \ {0}
ASSUME MaxPutAssumption == MaxPut \in Nat
ASSUME ByteAssumption == Byte # {}

VARIABLES u, i, o, d,   \* the fields of struct ringbuf
          call,         \* the last call and its argument
          ret,          \* its result
          out           \* bytes it handed to its caller

vars == <<u, i, o, d, call, ret, out>>

Data == UNION {[1..n -> Byte] : n \in 0..MaxPut}

Index == 0..(N - 1)

-----------------------------------------------------------------------------
\* memcpy(&dst[at], &src[from], len) with src a sequence of bytes.
Memcpy(dst, at, src, from, len) ==
  [k \in Index |-> IF at <= k /\ k < at + len THEN src[from + (k - at) + 1] ELSE dst[k]]

\* The len bytes of d that start at index from, as the caller reads them.
ReadAt(from, len) == [k \in 1..len |-> d[from + k - 1]]

\* Mutant: the ambiguous case i = o is not treated apart.
MutFreeSpace == IF i < o THEN o - i ELSE (N - i) + o

\* The value of the local `a` of ringbuf_put: the bytes that are free.
FreeSpace == IF i < o THEN o - i
             ELSE IF i = o THEN N - u
             ELSE (N - i) + o

MinLen(a, b) == IF a < b THEN a ELSE b

\* Mutant: the data is cut at the end of the array.
MutCopyIn(data) == Memcpy(d, i, data, 0, MinLen(N - i, Len(data)))

\* The copying part of ringbuf_put, once there is room for the data.
CopyIn(data) ==
  IF i < o
  THEN Memcpy(d, i, data, 0, Len(data))
  ELSE LET b     == N - i
           first == Memcpy(d, i, data, 0, MinLen(b, Len(data)))
       IN  IF Len(data) > b THEN Memcpy(first, 0, data, b, Len(data) - b) ELSE first

Put(data) ==
  /\ IF Len(data) > FreeSpace
     THEN ret' = -1 /\ UNCHANGED <<u, i, d>>
     ELSE /\ d' = CopyIn(data)
          /\ i' = (i + Len(data)) % N
          /\ u' = u + Len(data)
          /\ ret' = 0
  /\ call' = <<"put", data>>
  /\ out' = <<>>
  /\ o' = o

\* The length of the chunk that ringbuf_get_next_chunk hands out.
ChunkLen == IF o < i THEN u ELSE IF o = i /\ u = 0 THEN 0 ELSE N - o

NextChunk ==
  /\ ret' = ChunkLen
  /\ out' = ReadAt(o, ChunkLen)
  /\ call' = <<"chunk">>
  /\ UNCHANGED <<u, i, o, d>>

\* Mutant: the output head is not brought back into the array.
MutMarkConsumed(len) ==
  /\ len <= u
  /\ o' = o + len
  /\ u' = u - len
  /\ call' = <<"consume", len>>
  /\ ret' = 0
  /\ out' = <<>>
  /\ UNCHANGED <<i, d>>

\* Both callers keep len <= u, which the code asserts.
MarkConsumed(len) ==
  /\ len <= u
  /\ o' = (o + len) % N
  /\ u' = u - len
  /\ call' = <<"consume", len>>
  /\ ret' = 0
  /\ out' = <<>>
  /\ UNCHANGED <<i, d>>

Clear ==
  /\ u' = 0 /\ i' = 0 /\ o' = 0
  /\ call' = <<"clear">>
  /\ ret' = 0
  /\ out' = <<>>
  /\ d' = d

\* What ringbuf_copy_data writes to the caller's buffer when u >= len.
Gather(len) ==
  LET b == N - o
  IN  IF o < i \/ b >= len
      THEN ReadAt(o, len)
      ELSE [k \in 1..len |-> IF k <= b THEN d[o + k - 1] ELSE d[k - b - 1]]

CopyData(len) ==
  /\ IF u < len
     THEN ret' = -1 /\ out' = <<>>
     ELSE ret' = 0 /\ out' = Gather(len)
  /\ call' = <<"copy", len>>
  /\ UNCHANGED <<u, i, o, d>>

-----------------------------------------------------------------------------
Init ==
  /\ u = 0 /\ i = 0 /\ o = 0
  /\ d \in [Index -> Byte]
  /\ call = <<"new">>
  /\ ret = 0
  /\ out = <<>>

Next ==
  \/ \E data \in Data : Put(data)
  \/ NextChunk
  \/ \E len \in 0..MaxPut : MarkConsumed(len) \/ CopyData(len)
  \/ Clear

Spec == Init /\ [][Next]_vars

-----------------------------------------------------------------------------
(***************************************************************************)
(* Type correctness: both heads always index the array and every byte a    *)
(* caller was handed is a byte.                                            *)
(***************************************************************************)
TypeOK ==
  /\ u \in 0..N
  /\ i \in Index
  /\ o \in Index
  /\ d \in [Index -> Byte]
  /\ ret \in Nat \union {-1}
  /\ out \in Seq(Byte)

(***************************************************************************)
(* The three redundant fields agree: the input head is u bytes ahead of    *)
(* the output head, going round the end of the array at most once.         *)
(***************************************************************************)
HeadsAgree == i = o + u \/ i = o + u - N

IInv == TypeOK /\ HeadsAgree

(***************************************************************************)
(* The four asserts of the code never fire: whichever branch ringbuf_put   *)
(* and ringbuf_get_next_chunk take, the space or the pending size they     *)
(* compute from the two heads is the one the used count gives.             *)
(***************************************************************************)
Asserts ==
  /\ FreeSpace = N - u
  /\ o < i => u = i - o
  /\ (o >= i /\ ~(o = i /\ u = 0)) => u = (N - o) + i

(***************************************************************************)
(* The ring implements the byte queue: the queue is the u bytes that start *)
(* at the output head, going round the end of the array.                   *)
(***************************************************************************)
Slot(k) == IF o + k < N THEN o + k ELSE o + k - N

Pending == [k \in 1..u |-> d[Slot(k - 1)]]

Queue == INSTANCE ByteQueue WITH q <- Pending

Refinement == Queue!Spec
=============================================================================
