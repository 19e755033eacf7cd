----------------------------- MODULE ByteQueue -----------------------------
(***************************************************************************)
(* What the ring buffer of kcpev_ringbuf.c promises its only user, the TCP *)
(* reassembly of kcpev.c: a first-in first-out queue of at most N bytes    *)
(* whose writes are all-or-nothing.  Where the bytes lie, and in how many  *)
(* pieces they are handed out, is hidden.                                  *)
(***************************************************************************)
EXTENDS Integers, Sequences

CONSTANTS Byte,     \* the values a byte can take
          N,        \* capacity, the argument of ringbuf_new
          MaxPut    \* bound on the length of one write or read (checking only)

VARIABLES q,        \* the queued bytes, oldest first
          call,     \* the last call and its argument
          ret,      \* result of the last call
          out       \* bytes the last call handed to its caller

vars == <<q, call, ret, out>>

Data == UNION {[1..n -> Byte] : n \in 0..MaxPut}

Init == q = <<>> /\ call = <<"new">> /\ ret = 0 /\ out = <<>>

\* All of data is queued, or nothing is and the caller is told so.
Put(data) ==
  /\ IF Len(q) + Len(data) <= N
     THEN q' = q \o data /\ ret' = 0
     ELSE q' = q /\ ret' = -1
  /\ call' = <<"put", data>>
  /\ out' = <<>>

\* The caller sees the oldest bytes, at least one unless there is none.
NextChunk ==
  /\ \E n \in 0..Len(q) :
        /\ n = 0 <=> q = <<>>
        /\ ret' = n
        /\ out' = SubSeq(q, 1, n)
  /\ call' = <<"chunk">>
  /\ q' = q

MarkConsumed(len) ==
  /\ len <= Len(q)
  /\ q' = SubSeq(q, len + 1, Len(q))
  /\ call' = <<"consume", len>>
  /\ ret' = 0
  /\ out' = <<>>

\* The caller gets exactly the len oldest bytes, which stay queued.
CopyData(len) ==
  /\ IF len <= Len(q)
     THEN ret' = 0 /\ out' = SubSeq(q, 1, len)
     ELSE ret' = -1 /\ out' = <<>>
  /\ call' = <<"copy", len>>
  /\ q' = q

Clear == q' = <<>> /\ call' = <<"clear">> /\ ret' = 0 /\ out' = <<>>

Next == \/ \E data \in Data : Put(data)
        \/ NextChunk
        \/ \E len \in 0..MaxPut : MarkConsumed(len) \/ CopyData(len)
        \/ Clear

Spec == Init /\ [][Next]_vars
=============================================================================
