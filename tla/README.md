# A TLA+ verification of kcpev

kcpev is a C library for libev programs that keeps, between a client and a
server, a TCP and a UDP connection at the same time. TCP carries the set-up and
serves as the fallback; once a handshake over UDP has succeeded, messages travel
over UDP with the KCP retransmission protocol. Heartbeats over KCP decide
whether UDP is still usable.

This directory holds TLA+ modules of the library's own logic, TLC
configurations that check them on small instances, and TLAPS proofs of results
that hold for every size. Source paths are relative to the repository (`src/`
is its source directory, `src/kcpev.c` and so on); `PROJECT.json` maps every
definition to the lines it models.

## 1. The system

| Component | State | Operations | Interacts with |
|---|---|---|---|
| Byte ring, `kcpev_ringbuf.c` | array `d`, heads `i`, `o`, used count `u` | put, get_next_chunk, mark_consumed, copy_data, clear | reassembly |
| TCP reassembly, `kcpev.c` 683-804, 993-1030 | `tcp->rb`, the socket | recv callback, on_tcp_recv, get_tcp_buf_chunk | ring, connection |
| KCP, `ikcp.c` | send queue and buffer, receive buffer and queue, `snd_una`, `snd_nxt`, `rcv_nxt`, `rmt_wnd`, ack list, probe flags | ikcp_send, ikcp_input, ikcp_recv, ikcp_update/ikcp_flush | UDP socket, timer |
| Connection, `kcpev.c` | per side: UDP socket, `udp.status`, timers, `udp.heart`; on the server also the hash of clients | connect, accept, on_client_recv, on_server_recv, heartbeat timers, send, close | all of the above |
| UDP demultiplexing | one UDP socket per client, all bound to the server's port with SO_REUSEPORT, and the main one | server_udp_recv_all, server_udp_recv, connect_client_udp | kernel |
| KCP timer | `evt->repeat`, `kcp->ts_flush` | kcpev_timer_repeat, ikcp_update, ikcp_check | KCP |
| uuid, byte order, logging | none | wrappers and macros | |

Each process is single-threaded: libev calls one callback at a time. The
concurrency is between the two processes, the network and the timers. What is
hard:

- TCP hands over the bytes cut at arbitrary places, and the ring has a fixed size;
- UDP loses, repeats and reorders datagrams, both of the handshake (which has no
  retransmission) and of KCP (which has);
- the two sides decide on their own whether KCP is usable, and may disagree;
- every system call may fail, in the middle of a handler;
- a repeated handshake replaces resources that are in use;
- the sockets of all clients share one port, and the kernel decides which of them
  a datagram reaches;
- KCP goes by the wall clock, cut to 32 bits, which wraps and can be stepped, while
  the timers that call it run on the monotonic clock.

What makes each part correct: the ring is a FIFO queue; reassembly hands over
exactly the packets sent; KCP is a reliable, ordered stream in each direction;
the two sides come to agree on KCP and every message arrives; a client's data is
not taken for another's; KCP acts within a bounded time. The full list of
what can go wrong, line by line, is `hazards` in `PROJECT.json`.

## 2. The modules

| Module | Models | Kind |
|---|---|---|
| `ByteQueue` | what the ring promises: a bounded FIFO byte queue | abstract specification |
| `RingBuf` | `kcpev_ringbuf.c` | one action per function |
| `RingBufProofs` | | proofs |
| `TcpFraming` | reassembly in one direction of one TCP connection | sender, recv callback, the chunk loop, end of file |
| `TcpFramingProofs` | | proofs |
| `Kcp` | `ikcp.c` as operators on one control block | pure functions |
| `KcpProofs` | | proofs: what each call keeps |
| `ReliableStream` | what KCP promises | abstract specification |
| `KcpLink` | two control blocks and a network | composition |
| `KcpLinkProofs` | | proofs: the invariant of the link, the refinement |
| `MCKcpLink` | instances of `KcpLink` | loads for TLC |
| `KcpTimer` | when KCP acts: timer, clock, retransmission times, probes | one control block and two clocks |
| `KcpTimerProofs` | | proofs |
| `MCKcpTimer` | instances of `KcpTimer` | scenarios for TLC |
| `Session` | one connection from connect to close | client, server, application, environment |
| `SessionProofs` | | proofs |
| `MCSession` | instances of `Session` | scenarios for TLC |
| `UdpDemux` | several clients on the server's port | clients, server, kernel, network |
| `UdpDemuxProofs` | | proofs |
| `UdpDemuxDataProofs` | | proofs: whose data is accepted |
| `MCUdpDemux` | instances of `UdpDemux` | two and three clients, scenarios for TLC |

**RingBuf** keeps the three redundant fields `i`, `o`, `u` and the array, with
the branches of the code. `call` is the last call with its argument, so that
the refinement ties what is written or copied to what was asked for; `ret` and
`out` are what that call handed to its
caller, so that the refinement to `ByteQueue` speaks of what a caller sees. The
abstract queue is the `u` bytes that start at `o`, going round the array.

**TcpFraming** names a byte by its offset in the stream. The ring is the
interval `lo .. hi-1`, which is what `ByteQueue` justifies. A header read at the first
byte of a packet gives its size; a header read anywhere else (which only happens
after bytes were dropped) gives any number. The overflow branch of `on_tcp_recv`
(ringbuf_put fails, the pending bytes go to a new ring that is never installed,
the new bytes go nowhere) is modelled as it is written. `client_tcp_recv` and
`server_tcp_recv` do the same; they differ in what an error does (exit, or
close_client), and both end the connection. There are three ways to that: recv()
returns 0 (`conn = "eof"`), recv() fails, or the handler of a packet does, of any packet,
since a call it makes may fail (`conn = "failed"`). A failure discards what was not
handled yet.

**Kcp** follows `ikcp_send`, `ikcp_input`, `ikcp_recv`, `ikcp_flush` and their
helpers. It uses the configuration of `kcpev_create_kcp` in mode 2: no congestion
window, fast retransmission. Payloads are tokens; a datagram is a sequence of at
most `MtuSegs` segments. Time is an input of `KcpFlush`: the set of segments that
are late and whether the probe is due. Sequence numbers are unbounded;
`SpreadBounded` is the reason why the signed 32-bit differences of the code order
them the same way.

**KcpLink** gives each end the calls that `kcpev.c` makes: ikcp_send, the timer's
ikcp_update, ikcp_input for a datagram of the set `net[e]` (a set reorders; a
datagram may be lost, or kept for a second delivery), and ikcp_recv. Late
retransmission is split into `UpdateLate`, when no answer can come any more, and
`UpdateEarly`, when it races one. `load`, chosen in the initial state from `Loads`
and never changed, holds the windows and the bounds of a behaviour, so that one run
checks several loads.

**KcpTimer** is the other half of `ikcp.c`: a segment is its times (`resendts`, `rto`,
`xmit`, `fastack`, the timestamps of its copies) and nothing else. `wall` is what
`ev_now` gives modulo `Wrap`; all arithmetic on it is the code's, `Diff` being
`_itimediff`. `TimerRepeat` is the whole of kcpev_timer_repeat: ikcp_check, perhaps
ikcp_update with its flush, ikcp_check again, and the time the timer is set to. `Tick`
advances both clocks; it waits for the timer's call when the loop is `MaxLag` late.
`StepClock` moves the wall clock alone. `late` holds an acknowledgement of a segment that
is no longer in `snd_buf`: it still gives a sample of the round trip time and may still
mark the segments that were sent before it as overtaken. True durations are history variables (`idle`
since the last flush, `asked` since the last probe, `age` of a segment), which makes the
state space finite without a horizon: the wall clock goes round and round.

**Session** has the state of both sides as records. `cli.evt`, `srv.evt` stand for
the two timers, which are created and destroyed together; `age` is the time since
`udp.heart` in heartbeat periods; `srv.heart` is the stamp itself, which the client
must send back. `srv.leaked` counts the sockets whose watcher a repeated handshake
left behind, `srv.mute` says that one is open with no watcher at all: datagrams go
there rather than to the main socket. `udp` counts handshake datagrams under way,
`udp.main` those queued at the server's main socket. TCP is a FIFO (by
`TcpFraming`), KCP a FIFO in each direction (by `KcpLink`) that moves only while
its receiver holds KCP for valid, since a side that does not takes a KCP datagram
for a command and drops it. `srv.kcp = "reset"` says that the server's control
block was replaced after it was used, so that the peers no longer understand each
other. `scn`, chosen in the initial state and never changed, is the scenario: what may
fail, the bounds, and whether UDP is fast.

**UdpDemux** lets the kernel act between bind and connect of connect_client_udp
(`pc`), the only place where a handler of the server is cut in two: it is the only
handler that opens to the network a socket it has not finished with. A socket has an
owner (the structure its watcher refers to), a peer (the address it is connected to)
and a queue, which connect does not empty and which may hold datagrams of any client.
`Candidates` is the kernel's rule: sockets
connected to the sender first, any unconnected one otherwise. `srv[c].mem` says whether
the structure has been freed; a watcher or a hash entry may outlive it, and its use sets
`broken`, after which nothing is said about the server. Heartbeats, TCP data and the
KCP protocol are left to the other modules: a KCP datagram is only its sender's conv.

## 3. Runs

| Run | Question | Result |
|---|---|---|
| `ringbuf` | Is the ring a FIFO queue, do its asserts hold? | holds |
| `framing` | Is reassembly right and live, when one read can fill the ring and handlers may fail? What does a sender have to do to be safe? | holds until the overflow branch is taken or the connection fails; with at most a ring outstanding it is not taken |
| `framing_readme` | Is a TCP packet always complete, as README.md:13 says? | **violated**: the overflow branch drops bytes |
| `kcp_safe` | Are messages whole, in order, once; are the buffers well formed, in one direction, in both, and when window announcements are out of date? | holds |
| `kcp_live` | Does everything arrive, with a window that closes and lost announcements? | holds |
| `kcp_timer` | Is the timer always set again, and does KCP flush, retransmit and probe in time, across the wrap and when the clock is stepped? | holds |
| `session` | Do the sides agree again, fall back, stay clear of freed structures, whatever fails; and when nothing does, do heartbeats keep the connection, does everything arrive? | holds |
| `session_lost_hand2` | And if one handshake datagram is lost (README.md:14: KCP makes UDP reliable)? | **violated** |
| `session_udp_send` | Does a failing UDP leave TCP in use (`src/kcpev.c:315`)? | **violated**: the client exits |
| `session_assert` | Does `assert(kcp)` of ikcp_recv hold? | **violated**: the server aborts |
| `demux` | Do several clients with the same conv stay apart, whatever socket their datagrams reach? | holds, but after a repeated handshake or a socket connected to the wrong address |
| `demux_race` | Do two clients created at once both get KCP, as `tests/kcpev_package_test.cpp:149` expects? | **violated**: a datagram queued between bind and connect |

What `kcp_timer` says of the code's numbers (10 ms interval and retry, a loop that is
late by L): a flush at least every 19 ms + L, a retransmission at most 10 ms + 2 L
after its timeout. A clock set back by up to 10 s stops all flushes for that time; set
back by more, flushes go on but segments under way and probes wait as long as the step.
A segment that is due then waits up to 19 ms + L besides, because the timer sleeps
twice over it: the bound of 10 ms + 2 L is one for a clock nobody sets back.
`KcpTimerProofs` shows all of this for every value of the constants.

The five violated properties are explained under `findings` in `PROJECT.json`.
Every property of the other runs has a mutant: a changed definition, kept next to
the original and named `Mut...`, under which TLC finds the property violated.

### Bounds

- `ringbuf`: N = 4 with writes up to 5 bytes reaches every pair of heads, the full
  ring, the write that wraps and the write that is refused. Two byte values tell
  every misplaced byte.
- `framing*`: packets of 2 (a bare header), 3 and 5 bytes and a ring of 6. Reads of
  1 to 6 bytes split a header, join the end of one packet with the start of the
  next, and fill the ring, as in the code, where ring and read buffer are both
  KCPEV_BUFFER_SIZE. Four packets are enough to overflow and to read on. `Paced`, the
  condition of `PacedIsWhole`, bounds what is sent and not yet taken out by the ring's
  capacity; with a ring that holds a byte less than the array it is violated.
- `kcp_safe`, `kcp_live`: windows of 1 to 3 and up to 4 segments close the window,
  overrun it and fill the receive queue; datagrams of 2 segments put acknowledgements
  and data together; at most `NetCap` datagrams in flight in each direction allow one
  overtaking; one or two losses and repetitions. The load's `early` bounds
  retransmissions that race their acknowledgement.
- `kcp_timer`: the times are scaled down and keep their order: interval and retry no
  more than the least timeout, 10 s (`SlapMax`) more than an interval, half of the
  clock's range more than a timeout plus a step, which is `Reach`. Time is in whole
  milliseconds. One step of the clock, back by less than `SlapMax`, by a little more and
  by far more, or ahead. One segment lost twice, or two of which one overtakes the other
  (`FastResend` is 1 instead of 2, so that two are enough). At most one acknowledgement is
  late, by no more than the scenario's `late`. Segments and closed windows
  are combined with a stepped clock in scenarios of their own, since neither changes what
  the other waits for. The bounds of `FlushOnTime` and the first of `RetransmitOnTime`
  are reached in this instance (one less is violated), the second of `RetransmitOnTime`
  with an interval of 3.
- `session*`: the timeout is 1 or 2 heartbeat periods (3 in the code; what matters
  is that it is more than none), `KqCap` bounds the messages waiting in KCP, the scenario
  the handshake datagrams lost and repeated. The scenario `Rough` sends no application
  messages, which do not change the state of the connection.
- `demux*`: two clients are enough for one to receive the other's datagram; three
  sockets for one of them to shake hands twice, or one to do so three times. The
  scenario `Leaving` has a third client, which disconnects while its data is queued on the
  sockets of the others. All convs are the same, which 8 random bits do not rule out, so
  that nothing but the order of reading separates the clients' data. Both exceptions of
  `DataFromOwner` (a repeated SHAKE_HAND1, a socket connected to the wrong address) occur:
  without either it is violated.

Deadlock is checked in `kcp_timer`, where time goes on for ever. The other instances
end when their bounded inputs are used up.

### Fairness

- `TcpFraming`: libev calls the read callback as long as the socket is readable; a
  connection may fail, but need not.
- `KcpLink`: the timer keeps firing (strong fairness, because `NetCap` may disable a
  flush for a while), a datagram that is not lost arrives, and ready messages are
  read, which try_kcp_recv does after every input.
- `Session`: `LocalFairness` says that time passes and that the event loops run the
  callbacks that are due; nothing is assumed of UDP, and this is enough for
  `DisagreementEnds` and `FallsBack`. `NetFairness` applies only in scenarios whose UDP
  is fast, and says that it delivers what is not lost, which `AllDelivered` needs; fast
  also means within a heartbeat period of 10 s, which `HealthyStaysValid` needs.
- `UdpDemux`: each event loop does something while it has something to do, and what is
  not lost arrives. There are finitely many datagrams, so that nothing stays undone.
- `KcpTimer` has no liveness property: its properties say by when.

## 4. Proofs

`RingBufProofs`, for every capacity N > 0 and every set of bytes:

- `TypeCorrect`, `AssertsHold`, `ImplementsQueue`.
- The inductive invariant is `TypeOK /\ HeadsAgree`, where `HeadsAgree` says
  `i = o + u` or `i = o + u - N`. Without it nothing ties the space computed from the
  heads to the one the used count gives, which is what the asserts and the refinement
  rest on. The lemmas `ModOnce` and `ModWrap` reduce `% N` to a single subtraction;
  `CopyInWrites` says which slots a write changes; each action then has a lemma that
  maps its step to a step of `ByteQueue`.

`TcpFramingProofs`, for every size of ring, read, header and packet:

- `TypeCorrect`, `OnlyOverflowBreaks`, `LoopEmptiesRing`, `EofComesLast`;
- `PacedSenderIsSafe`: as long as no more than the ring's capacity is sent and not yet
  taken out, packets are reassembled as the README promises. The code's sizes do not ensure
  this, since one read can fill the ring and nothing paces the sender; `framing_readme`
  shows that without it the promise fails.
- The inductive invariant is `TypeOK`, `Layout` (packets follow each other, so that an
  offset is the start of at most one), `Aligned` (until bytes are dropped the ring
  starts at the next packet to deliver), `NothingCompleteWaits` and `ClosedInv`.
  `Aligned` is what makes a header that is read a header that was sent.

`SessionProofs`, for every timeout and every set of scenarios, that is whatever fails,
is lost or repeated:

- `TypeCorrect`, `ServerFollowsClient`, `LookupIsSafe`, `NoWayBack`. The inductive
  invariant is `Shape` and `Bounds` (the types), `KeyIsFirst` and `Hand1Count` (each
  SHAKE_HAND1 is the key on its way over TCP, a datagram, or has become a socket; there
  is one and one more for each duplicate, which bounds the leaked sockets),
  `NoKeyNoHand1` (nobody sends a key he does not have, which keeps a freed structure that
  is still in the hash out of reach), `AnswersAfterReady` (a SHAKE_HAND2 under way to
  the server was sent by a client with timers).
- `HeartbeatsSuffice`, under the hypothesis that in scenarios whose UDP is fast the
  bound on the messages waiting in KCP exceeds what the applications send: otherwise the
  bound, which the code's queue does not have, would cut off heartbeats. The invariant
  adds, as long as nothing has gone wrong: both sides live, the handshake is a single
  message whose place determines the state of both sides, a heartbeat is a single
  message that goes from one side to the other and back, and the ages are low where it
  has just been.

`UdpDemuxProofs`, for any number of clients and sockets and every set of scenarios:

- `TypeCorrect`, `FreedIsUnreachable`, `ValidIsPaired`.
- The inductive invariant: `Types`; `Backdrop` (the main socket, the unused ones);
  `Holding` (a structure's socket is open and its own, and connected except between bind
  and connect); `Watching` (a watched socket is its structure's, or was left behind by a
  repeated SHAKE_HAND1); `Hashed` (a freed structure in the hash is a refused client's);
  `Traffic` (a datagram carries its sender's key, and SHAKE_HAND2 exists only once a
  socket of that structure is connected to that address, wherever the kernel queued what
  led to it); `SameConv` (accepted data has the conv of the client it is taken for).

`UdpDemuxDataProofs`, for any number of clients, with any convs:

- `OwnDataOnly`: data of another client with the same conv is taken only for a client
  whose SHAKE_HAND1 came twice or to whose address another client's socket was connected.
- The inductive invariant adds `Apart`, for a client with one socket and none elsewhere
  connected to its address. Whatever the kernel queued on its socket between bind and
  connect lies before everything that came after; its SHAKE_HAND2 can only be queued
  there, behind the others' datagrams; and KCP is valid only once that has been read, so
  that by then the queue holds datagrams of this client alone.

`KcpTimerProofs`, for every clock range, interval, timeout and lateness:

- `TypeCorrect`, and `TimerAlwaysRearmed` (a repeat of 0 would stop the timer for good),
  without a hypothesis.
- `FlushesOnTime`, `RetransmitsOnTime`, `ProbesOnTime`, `RetransmitsNotEarly` under the
  hypothesis `Reach`: no time that the code compares with the clock is half a turn of it
  away. For the code's 32 bits that is 24 days. Without it the sign of
  `_itimediff` is wrong and the properties are false.
- All is said in `Lead(t)`, the signed difference between a planned time and the clock,
  which goes down by one with each tick, also across the wrap (`LeadMoves`), as long as
  it is small, which the invariant itself ensures (`LeadsNear`). `FlushPlan` ties the planned
  flush to the time since the last one and to the time the timer will fire;
  `Backoff` and `ResendPlan` say the same of each segment under way, `ProbePlan` of the
  probe.
- The proof of `RetransmitOnTime` failed at first: the property had the bound for a steady
  clock, enlarged by the step, and this is false for intervals of 4 and more. The
  property now states both bounds.

`KcpProofs` and `KcpLinkProofs`, for every load (windows, messages, fragments and any
number of losses, copies and early retransmissions), every MTU and every threshold of
fast retransmission; `NetCap` is not used:

- `TypeCorrect`, `SendBuffer`, `ReceiveBuffer`, `AckIsPromise`, `Spread` are the
  invariants of `kcp_safe`; `ImplementsStream` is `StreamSafety`, the refinement of
  `ReliableStream`.
- Whether a buffer, a datagram or a returned message is right depends on what was sent,
  and no variable keeps that once it is acknowledged. The inductive invariant therefore
  begins with "there is a list of all segments ever handed in, in each direction", whose
  positions are the sequence numbers. Relative to it `Sending` says that `snd_queue` is
  its end and `snd_buf` has whatever the peer does not hold, within a window of
  `snd_una`; `Receiving` that `rcv_queue` is the piece below `rcv_nxt`, that `rcv_buf`
  lies in the window, and that only what is held is on the ack list; `Carried` that
  every segment of every datagram is true (an ACK and `una` speak of what its sender
  holds, a PUSH of what was sent, the window is not larger than it is); `Delivered` that
  what has left `rcv_queue` are exactly the first messages of the list.
- What a datagram says may be late by any amount: it stays true because an endpoint that
  holds a segment holds it for ever (`Later`, `Keeps`) and the list only grows
  (`Extends`). This is why losses, copies and overtaking need no case of their own: one
  lemma, `JointStep`, covers every step that hands in no message, and `JointSend` the other.
- The argument that a message comes out whole is `FirstMessageWhole`: `frg` counts down
  to 0 within each message, so that a run which starts at a boundary ends at the next one.
- The loops of ikcp_input and ikcp_flush are recursive functions in `Kcp`. Their values
  are unfolded one turn at a time (`InputLoopSteps`, `WriteLoopSteps`), and what holds
  after every turn follows from `Upward`: a first turn that breaks it would be a least
  number.
- With the invariant, `SpreadBounded` is `snd_nxt <= snd_una + rcv_wnd` and
  `snd_una <= rcv_nxt + rcv_wnd`, the latter because the number before `snd_una` is held
  by the peer. It rests on `WndInit <= rcv_wnd` (`LoadAssumption`): the window that a
  new control block takes the peer to have (`IKCP_WND_RCV`, 32) must not be more than the
  peer has (128, kcpev_create_kcp).

The assumptions are the named `ASSUME`s of the modules on their constants. They are
evaluated by TLC in the runs, and so are, in the MC modules, the hypotheses of
`HeartbeatsSuffice` and `KcpTimerProofs`.

Only model-checked: the liveness properties, since fairness is out of the prover's
reach: `EverythingArrives` of `KcpLink` and those of `TcpFraming`,
`Session` and `UdpDemux`; and the findings, which are counterexamples. Every invariant
and every action property that a passing run checks is proved.

## 5. Limits

- KCP's congestion window is computed but not in use (`nocwnd` = 1 in mode 2), and
  `dead_link` only sets a field that kcpev never reads. Sequence numbers do not wrap.
- What a use of freed memory does is not modelled: `UdpDemux` stops there, and
  `NothingDangles` says which two failures lead to it.
- The address of a client that has gone is not given to another one.
- When kcpev_connect cannot connect UDP it closes the socket and leaves its watcher active.
  `Session` takes that watcher to do nothing, which is so until the descriptor's number is
  used again.
- In scenarios of `Session` whose UDP is fast a heartbeat is answered before the next one
  is sent, so that two with the same stamp are never under way.
- `KcpTimer` holds at most one late acknowledgement; a network may hold any number.
- The order of messages across a change between TCP and KCP is not promised by the
  code, and is not a property here.
- TCP's own buffers are unbounded in `Session`, so two blocking sends that wait for
  each other do not occur.
- uuid generation, byte order macros, logging, the Windows build and the functions
  without a caller (`kcpev_server_destroy`, `delete_hash`) are left out.

## 6. Plan

Done: all modules, and proofs of every safety property the runs check. Still to do:

1. Bounded TCP channels with blocking sends in `Session`.
2. The order of messages across a change between TCP and KCP, which the code does not
   promise: what it does promise in each channel.
