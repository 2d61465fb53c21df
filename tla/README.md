# A TLA+ model of the threads lab: rate limiting and fair queueing of senders

This directory models the C++ program one level up: threads that blast data
through sockets, and two schedulers that decide when each of them may send.
TLC checks the models on small instances; TLAPS proves the main theorems for
every value of the constants.

## 1. The system

### Parts, their state and their operations

| Part | Source | State | Operations |
|---|---|---|---|
| `MaxNWScheduler` | MaxNWScheduler.cc | `BytesToSend`, `runOff`, mutex `Lock`, condition `SafeSend` | `waitMyTurn` (sender), `signalNextDeadline` (alarm thread), `canSafelySend`, `calRunOff` |
| `STFQNWScheduler` | STFQNWScheduler.cc | `bytesToSend`, `runOff`, `nextId`, the queue, mutex, conditions `safeSend`, `deadline`, `queueFull` | the same interface, `NWScheduler.h` |
| `STFQueue` | STFQueue.cc | one list of tagged buffers per flow, base nodes, `size`, `currentTime` (virtual time, a float) | `enqueue`, `dequeue`, `queueFull`, `resizeArray` |
| Alarm thread | AlarmThread.cc | locals `deadline`, `now` | loop: `signalNextDeadline`, sleep until the deadline |
| Blast threads | util.cc `blast`, ScheduledOutputStream.cc | local `tot` | loop: `waitMyTurn`, write, stop after `bytesToBlast` |
| Statistics | Stats.cc, util.cc `printStats` | bytes per flow, largest flow id, mutex | `update`, `toString` |
| Streams | InputStream.cc, OutputStream.cc, ..., common.c | socket, flow id | `read`, `write`, `correct_read`, `correct_write` |
| Receive pool | receivePool.cc, rec_queue.cc | list of input streams, mutex, condition | acceptor enqueues, ten workers dequeue, read, enqueue again |
| Test program | sendAndRecv.cc, Flag.cc | a start flag | starts receivers, then five flows of senders, prints statistics |
| Thread primitives | sthread.cc | - | wrappers of pthread mutexes, conditions, sleep |
| Stand-alone ends | sender.cc, receiver.cc | the same streams and statistics, in two processes | the sender connects, blasts, prints and exits; the receiver accepts and reads for ever |
| Socket library | SocketLibrary/slisten.c, sconnect.c, saccept.c | a listening socket | `slisten`, `sconnect`, `saccept` |
| Messages | SocketLibrary/smessages.c | one list of messages for all sockets | `send_a_message`, `incoming_messages`, `get_next_message`, `empty_incoming_messages`, `wait_for_message` |
| Thread demo | main.cc | `ready`, `global`, a mutex, two conditions | `foo`/`bar` in ten threads, `condWaitUntilDone` in main |
| Others | sprim.c, sportnum.c, unit.cc | | names, ports, error texts, unit tests |

### How they interact

A blast thread calls `ScheduledOutputStream::write`, which calls `waitMyTurn`
of the scheduler and then writes to its socket.  `waitMyTurn` returns when the
link is free and leaves the cost of the buffer in `BytesToSend`.  The alarm
thread turns that cost into a deadline, clears it, wakes the waiting senders
and sleeps until the deadline before it looks again.  `STFQNWScheduler` also
queues a *ticket* per buffer in an `STFQueue`; at each deadline the alarm
thread dequeues the ticket with the lowest start tag and names its flow in
`nextId`.  Everything in a scheduler happens under one mutex.

At the ends of a connection, `OutputStream::write` and `InputStream::read` move
a whole buffer by as many system calls as it takes and then count it in a
`Stats` object, which the printing thread reads and resets.  In the test program
`main` waits on a `Flag` until the receiver listens, connects once per flow, and
several threads share each stream.  In the receive pool the acceptor puts every
new stream in a queue; a worker takes one, reads a buffer and puts it back.

The stand-alone sender and receiver are the two halves of the test program in
processes of their own: nothing tells the sender that the receiver listens, and
its exit closes connections in the middle of writes.  The message layer of the
socket library sits on the same sockets, but no program here links it: its caller
is the model's environment.

### What is hard here

* the hand-over between senders and the alarm thread through one variable and
  up to three condition variables: lost wakeups, newcomers that overtake woken
  waiters, conditions that are stale when a woken thread runs;
* deadlines that lie in the past after an idle time, so that the alarm thread
  lets senders through back to back until it has caught up;
* fractions of milliseconds that are carried from one deadline to the next;
* tickets and senders that must match although a sender may be let through
  without using its own ticket;
* tags that persist while a flow is idle, and a virtual time kept in a float;
* a queue of limited size whose waiters depend on the very sends they delay;
* reads that block on a silent peer while other streams wait for the worker;
* buffers that several threads fill from one stream, a system call at a time,
  and ends of streams that fall inside a buffer;
* streams that pass from thread to thread and are freed by one of them;
* messages that are cut anywhere by the reads, including between a text and its
  terminator, and pieces of several sockets in one list;
* a process that exits while its threads write and its peer has not accepted.

PROJECT.json lists each hazard at its line, with the properties that cover it.

### What makes each part correct

* **Rate limiters**: over any run, bytes granted never exceed the bandwidth by
  more than a constant; nothing is charged twice or dropped; nobody sleeps
  through his turn; every finite blast ends.
* **Fair queue**: buffers leave in tag order, virtual time is monotone, two
  waiting flows differ by at most one buffer's service, the counter is exact.
* **Fair scheduler**: each waiter has a ticket, newcomers do not overtake, and
  (what the code does *not* achieve) every sender gets its turn.
* **Statistics**: each byte is reported once. **Receive pool**: a stream is in
  one place only, none is forgotten. **Streams**: bytes received are bytes sent.
* **Messages**: text arrives once, in order, under its socket, and what is handed
  out as a message is what was sent as one (the code fails at a cut before a
  terminator). **Thread demo**: all threads run and nobody is left waiting.

## 2. The modules

```
 RunOff     Alarm     Blast     STFQueue            TokenBucket
    \         |         |          |                     ^
     +--------+----+----+----------+                     | implements
     |             |               |                     |
  MaxNWScheduler   +------- STFQNWScheduler -------------+
     |    +--------------------------|-------------------+
  MCMaxNW                         MCSTFQNW            MCSTFQueue (STFQueue alone)
```

* `RunOff`: `calRunOff`, the arithmetic shared by both schedulers, in a
  parameter `carryMs` (1 ms in one, 2 ms in the other).  The `while` loop that
  subtracts is a division; `runOff` is an `int` and wraps (`Int32`).
* `Alarm`: the clock and the alarm thread.  `Tick` is one millisecond of
  `nowMS`.  The two readings of the clock and the sleep of one iteration are one
  step, `AlarmSleep`, that waits for `now >= deadline`, which is what the code
  asserts after the sleep.
* `Blast`: the sender threads, as a `pc` per thread and the set `asleep` of
  those in `scond_wait` that nobody has woken.  A broadcast empties the set; a
  thread with a waiting `pc` outside it competes for the mutex.  A write may
  fail, a wakeup may be spurious.
* `MaxNWScheduler`: an action per critical section.  `Proceed` is `waitMyTurn`
  from the test that lets it through to the unlock, `Wait` is the way into
  `scond_wait`, `SignalNextDeadline` is the alarm thread's whole call.
* `STFQueue`: the queue.  A flow's list is a sequence of tag pairs, its base
  node's `finishTime` is `lastFinish`.  `StartTag` rounds by the parameter
  `Float`, since the comparison and the result of the maximum are floats.
  `ScanMin` is dequeue's loop as a recursive function; `IsMin` is what it finds.
* `FlowTable`: the same queue with the array under it: which slots exist, which
  hold a base node, and which the last operation read.  `resizeArray` and the
  destructor are here.  An operation that reads a slot without a node is
  undefined, and the model stops there.
* `STFQNWScheduler`: the two loops of `waitMyTurn` (`WaitFull`, `WaitTurn`), the
  way through (`TakeTurn`), a newcomer (`Arrive`) and a woken sender (`Return`),
  and the alarm thread's call in two parts, because it waits in the middle
  (`WaitDeadline`, `SignalNextDeadline`).
* `TokenBucket`: the abstract specification.  A millisecond brings `maxBytes`
  tokens (bytes times 1000), a return of `waitMyTurn` takes a buffer's cost, and
  there is never less than nothing.  Both schedulers implement it from a burst
  of two buffers (`ImplementsTokenBucket`).  It has no brim on purpose: neither
  scheduler ever discards the credit of an idle link.

The receiving side and the test program are a second family, around the streams:

```
 Socket   Stats       RecQueue    Flag      Listener
    \      /  \          |          |         /   \
     InputStream  OutputStream      |        /     \
        |     \      \    |         |       /       \
        |      \      +---|----- SendAndRecv    SenderReceiver
        |       +---------|---------+------------------+
        +--- ReceivePool -+         |                  |
                | implements   MCSendAndRecv   MCSenderReceiver
            StreamPool
```

and two modules stand alone: `Messages` and `ThreadDemo`.

* `Socket`: what the kernel does, a count of the bytes that wait on each
  connection.  Data is a number of bytes: nothing in the code looks at it.
* `Stats`: `update` and `toString` hold the mutex throughout, so each is an
  action.  `Line` is what one call prints.
* `InputStream`, `OutputStream`: the loops of `correct_read` and `correct_write`.
  Each system call is a step, which moves some of what is missing or all of it
  (`ReadPiece`, `WritePiece`).  The call of `Stats::update` for a full buffer takes
  a lock of its own and is a step of its own (`ReadFull`, `WriteFull`), so that a
  line may be printed between the two.  At the end of the stream (`ReadEnds`) the
  part read so far is gone.
* `Flag`: a one-way flag with its wait loop.
* `RecQueue`: the blocking queue, with the set of threads asleep on `queueEmpty`.
  Only the base node is never initialised in the code; the model takes the NULL
  of a fresh page.
* `ReceivePool`: acceptor and workers; a worker's `pc` is the call it is in,
  `is[w]` its local variable.  Peers connect, send, close and reset in any order.
  `freed` are the streams a worker freed; their sockets stay open, so `nflows` is
  also the number of descriptors in use.  `delivered` is a history variable.
* `StreamPool`: the pool from outside: a connection is new, pooled, served or
  ended, and never goes any other way.  `ReceivePool` implements it.
* `Listener`: `slisten`, `sconnect` and `saccept`: connections wait in a bounded
  queue, and are refused while nobody listens.
* `SendAndRecv`: the test program from start-up to exit.  The receiver's
  statistics are those of the `InputStream`s, the senders' a second instance of
  `Stats`.  `BeginWrite` is the part of `ScheduledOutputStream::write` before
  `OutputStream::write`; `scheduled`, fixed in the initial state, says which of
  the two streams is used.  When a scheduler lets a thread go is left open, and
  whether it ever does, which allows all the orders the schedulers do.  `printed` is a history variable.
* `SenderReceiver`: the two programs, each with its `Stats`.  `Exit` ends the
  sender's threads where they are and closes its connections, which still deliver
  what they hold; `AcceptFails` is the `exit(1)` of a receiver without
  descriptors, `BrokenPipe` what it does to a sender that writes.
* `Messages`: texts are sequences of bytes, each the number of its message.
  `ReadChunk` is one `read()`, which returns any number of the bytes that wait;
  `buffer` is what the inner loop of `incoming_messages` has yet to cut, and
  `TakePiece` one turn of it: up to the next NUL or the end of the buffer.
  `handle` puts a piece in the list; `clean_list` and `EmptyMessages` are the
  loops as written, with the outcomes their stale pointer can have.  A write
  takes any part of a message but nothing less than a byte.  `call` is the
  library call in progress; `sent`, `ends` and `taken` are history variables.
* `ThreadDemo`: main and the threads with the two conditions of main.cc; a critical
  section is one action.

Definitions commented as mutants are wrong variants of a definition beside
them; they are not used by the specifications.  PROJECT.json pairs each with
the property that it must violate.

History variables: `granted` (bytes let through) and, in `MaxNWScheduler`,
`epoch` (the first deadline).  No guard reads them.

## 3. The runs

| Run | Instance | What it shows |
|---|---|---|
| `stfqueue` | 3 flows of weights 1, 2, 3; 4 places; buffers of 1 to 4 bytes; tags to 8; floats of 2 significant bits | Tags stay in order although start tags are rounded and can come before the finish tag they follow; virtual time never goes back; two waiting flows are one buffer's service apart at most; dequeue's scan finds the lowest head; the counter is exact. |
| `maxnw` | 3 senders of two 4-byte buffers each; 5 bytes per second in a unit of 2 ms per second | The rate over the run, the accounts, no lost wakeup, every blast ends, and the token bucket. Deadlock is checked. |
| `stfqnw` | 3 senders (one on flow 0, two on flow 1), a queue of 2 places | The rate and the token bucket again; each waiter has a ticket and there is at most one ticket too many; newcomers do not overtake; a blast fails to end only on an *untaken turn* (below). |
| `stfq_starve` | one sender on each of two flows, enough room | **Violated**: a sender waits forever for its turn. |
| `receive_pool` | 3 connections, 2 workers, 2 or 3 descriptors, buffers of 2 bytes, up to 2 bytes a connection, fair threads | A stream is in the queue once, with one worker, or freed; what came is counted or in one worker's hand, and only the part of a last buffer is lost; no broadcast is lost; the pool implements `StreamPool`; a queued stream starves only when all workers are stuck for good on silent peers. |
| `send_and_recv` | 2 flows, 3 readers each, plain or scheduled streams, buffers of 2 bytes written and read, 4 bytes a sender, 3 bytes of room, a backlog of 1, 2 lines printed | `main` connects only when the receiver listens; every byte written is in the connection, in one buffer, counted or printed, once and under its flow; nothing but its scheduler's turn holds a sender up. |
| `sent_counted` | the same | **Violated**: the senders' statistics hold the bytes whose IO completed. |
| `sender_receiver` | 2 flows of 1 and 2 senders, 3 readers each, buffers of 3 bytes written and 2 read, one buffer a sender, room for 2, 1 or 2 descriptors, 1 line printed | Bytes are counted under the flow they were written on, and a part of a buffer per reader is all that is ever lost; once the sender has exited the receiver drains every connection and its threads end, unless it ran out of descriptors. |
| `messages` | 2 sockets, 3 messages of 0 to 2 bytes, reads of up to 3 bytes | Text is in the list and the streams once and in order; a socket has one incomplete message, its last; a complete message is one the sender ended. |
| `messages_whole` | the same | **Violated**: a message whose terminator comes in a read of its own stays incomplete. |
| `slots` | 2 slots, flow ids to 7 | **Violated**: slots without a base node are used. |
| `thread_demo` | 6 threads | All threads run and main ends; nobody needs the conditions when main destroys them. |

### Bounds

* `BytesToBlast` ends every blast after two buffers (a non-zero command line
  argument), which also bounds `granted`.  Two buffers each are enough for every
  order of two threads around each other, and for the queue to be full, empty
  and full again.
* `MaxIdle` stops the clock that many milliseconds past the last deadline.
  It is what makes "the deadline lies in the past" happen; a longer idle time
  only adds more steps of the same kind.
* `MsPerSec = 2`: with the code's 1000, one buffer lasts many milliseconds.
  With 2, and a bandwidth that does not divide a buffer's cost, the run-off
  takes all its values and is paid out within the run.
* `INT_MAX` is the smallest the assumptions allow, so an overflow would show.
* `MAX_SIZE` of 2 (100 in the code) makes three threads meet a full queue.
* Tags end at `MaxTag` and `Float` has two bits, so that rounding happens from
  5 on; in the code it happens from 2^24 on.  In `stfqnw` the tags stay where a
  float is exact.
* `BUFFER_SIZE` 2 against `BUF_SIZE` 2 or 3, and a `Room` that is no multiple of
  the buffers or holds less than one: writes and reads are cut at every place,
  and the buffers of a stream's writers and readers do not fall together.  In the
  code a read (4096) takes two writes (2048); here the larger buffer is the
  writer's, because every byte a read may be short of multiplies the states.  The
  proofs are for all sizes.
* `MaxBytes` ends a peer or a sender; it is at least one buffer of the reader,
  and leaves parts of buffers when several threads read.
* `FdLimits`: the number of descriptors is chosen at the start; with the smaller
  one they run out, with the larger they do not.  2 workers for 3 connections is
  the code's 10 for more than 10.  A `Backlog` of 1 makes the second connection
  wait for the first to be accepted.
* `MAXBUFF = 4` reads 3 bytes at a time: a text of 2 with its terminator, or parts
  of two messages.  3 messages of at most `MaxLen = 2` bytes on 2 sockets make the
  sockets' pieces alternate, and two pieces of one message come with another
  socket's between them.
* `InitialSlots = 2` and flow ids to 7 meet both formulas of `resizeArray`.
* `dieTime`: `dieTime + 1` lines are printed, as the code counts (31 for its 30).
  A second may be as long as the run.
* No symmetry reduction is used: liveness is checked.

### Fairness

`WF(Clock)`: real time passes.  `WF(AlarmThread)` and `WF(Sender(t))`: a thread
that can run, runs, gets the mutex in the end (critical sections are short and
nobody holds the mutex while sleeping), and its socket write ends (the other end
keeps reading).  Weak fairness suffices for a thread that waits for a condition
too: once woken it is enabled until it has looked.  Failing writes and spurious
wakeups get no fairness.

In the receive pool nothing is assumed of the peers; the acceptor and each
worker run.  A read of a silent connection is not enabled, so fairness does not
help a worker that is in one.  In the test program the receiver, `main` until it
prints, the recv threads and the blast threads run, except that nothing grants a
scheduled stream its turn: `WF(~scheduled /\ BeginWrite(t))`.  That
`STFQNWScheduler` may never grant one is what `stfq_starve` shows, and that
`MaxNWScheduler` always does is `AllBlastersFinish` of `maxnw`; so
`OnlyTurnsHoldUp` promises the end of every sender on plain streams, and on
scheduled ones that a sender which is not done waits for its turn.  The printing
has no fairness, so that a transfer is not cut off by an arbitrary length of a
second, and spurious wakeups have none.  In the two programs the receiver's threads run and the
sender's main does; its blast threads need not, as the sender's exit ends them
anyway.  In the thread demo main and the threads run.  `Messages` has safety
properties only.

### What the violations say

*`sent_counted`*.  Stats.cc (lines 182-183) calls its numbers "the number of
bytes for flow i whose IO completed".  `ScheduledOutputStream::write` counts a
buffer before it passes it to `OutputStream::write`, which counts it once more
when it is written.  Plain streams do as the comment says (the violation is one
of `scheduled` streams only).  `sendAndRecv` prints the receiver's statistics and
not these.

*`stfq_starve`*.  A sender that arrives at an idle link passes with
`nextId == -1` and leaves its own ticket in the queue.  That ticket is named
later.  If the flow's sender has finished by then, nobody takes the turn: no one
sends, so the alarm thread is never signalled, so nothing names another flow.
`OnlyUntakenTurnsStarve` shows there is no other way to starve; it has two forms,
every sender of the named flow is done, or each waits for room in a full queue
and cannot look at its turn.  `TicketsCoverWaiters` bounds the surplus: one
ticket over all the flows.

*`messages_whole`*.  `incoming_messages` passes the runs between NULs of one
read to `handle`, and skips a NUL that comes first.  When a read ends just before
a terminator, the next one starts with it: nothing completes the message, and the
next message on that socket is appended to it.  `CompleteEndsMessage` shows that
the error has one direction: nothing is called complete too early.

*`slots`*.  The test before a resize is `flowID > max_ID`, one id too late, and
the slots that `resizeArray` adds are never given a base node.  The programs here
use ids up to 4 with ten slots, so the schedulers' runs are not affected.

### What the passing properties say about known weaknesses

* `OnlySilenceStarves`: workers read whole buffers, so as many silent connections
  as there are workers stop the pool for the others, although receivePool.cc line
  4 promises full speed "from whatever senders contact it".  The property shows
  that nothing else starves a stream while the program runs.  Finished streams
  keep their sockets, so the program does end once that many connections have
  been made, however few are live (its `<>~up` case).
* `LongRunRate`: the comment above `MaxNWScheduler::waitMyTurn` (lines 28-30) asks
  for more, that a send of `b0` bytes at `t0` is followed by none before
  `t0 + b0/bytesPerSec`.  The code does not keep that spacing: `signalNextDeadline`
  clears `BytesToSend` and broadcasts before the alarm thread sleeps until the
  deadline it just computed, so two senders may go in the same millisecond, and
  only the third waits.  What holds is the rate: bytes granted by any time are at
  most the bandwidth times the time elapsed, plus two buffers.
* `EveryByteOnce`, `LossBounded`: three threads that read one stream can each be
  left with a part of a buffer, which nobody returns or counts; the properties
  show that nothing else goes missing.

## 4. The proofs

All proofs are checked by TLAPS to the last leaf; each theorem speaks of every
number of flows, threads and connections and every size of buffer that the named
assumptions of the modules allow.  Those are: constants are positive, a buffer is
not larger than a second's bandwidth (the assertion of `waitMyTurn`), products
fit an int, `Float` is monotone and maps floats to themselves, and the sets of
threads are finite (`IsFiniteSet(Thread)`, `IsFiniteSet(Reader)`: the programs
start a fixed number, `NUM_WORKERS` or `THREADS_PER_RECV_SOCKET` per stream).

* `Arithmetic` holds what several proofs cite.  `CalRunOffExact`: what
  `calRunOff` is given, plus the old run-off, is exactly the milliseconds added to
  the deadline plus the new run-off, and no int overflows.  The rest are lemmas
  about sums over finite sets (`SumStep`, `SumChange`, `OneSummand`): the library's
  fold is a choice of a recursive function, `SumsExist` shows there is one, and a
  least counterexample (`LeastNat`, `LeastSubset`) takes the place of induction.
  It extends `RunOff`, so the modules that extend it for the sums alone
  carry the constant `INT_MAX` too, of which they say nothing.
* `MaxNWSchedulerProofs`: the inductive invariant is
  `TypeOK /\ Accounting /\ ChargedInTime /\ NoLostWakeup`.  The rate alone
  (`LongRunRate`) is not inductive: nothing in it connects bytes and deadlines.
  `Accounting` says how far the deadline has moved for the bytes charged,
  `ChargedInTime` that the alarm thread calls only after the deadline, so that
  charged bytes are at most a buffer ahead of the clock; what is granted and not
  charged is one more buffer.  The token bucket follows step by step: the clock
  is a `Gain`, `Proceed` a `Grant`, which `LongRunRate'` shows to be affordable,
  every other step a stutter.
* `STFQNWSchedulerProofs` begins with the queue alone: `QueueInv` joins the types,
  the count, `Stamped`, `Chained`, `HeadsAhead` and `TagsBounded`.  The last bounds
  heads and finish tags by the virtual time; `FairTags` follows from it and
  `HeadsAhead` (heads lie between the virtual time and one service beyond), which
  is why fairness needs the finish tags of *emptied* lists too.  `BoundedLag`, on
  what a flow asks for next, is a consequence of it, of `Chained` and of a lemma
  about the rounding of start tags (`RoundedSum`).
  `ScanCorrect` follows the loop of `dequeue` slot by slot: `Pick(i)` is the first
  of the lowest heads up to slot `i`, `ScanIsPick` that the loop holds it then.
* The scheduler in the same module: first, every step of it is a step of the
  queue or leaves it alone (`QueueWithinInterface`), so what is proved of the
  queue holds inside it, `FairShares` among them.  Then `SchedInv` joins the types,
  `NoLostWakeup`, `TurnInv`, `TicketsCoverWaiters` and `ChargedInTime`.  `TurnInv`
  is what the tickets need: a turn is named only when the last one is paid for,
  and a free link with no turn named means an empty queue; hence
  `NobodyOvertaken`.  `ChargedInTime` is weaker than in the other scheduler, an
  inequality: a carried run-off is paid with two milliseconds, and the first call
  takes one unit off (`runOff` becomes -1).  The token bucket still holds with a
  burst of two buffers.
* `ReceivePoolProofs`: `PoolInv` adds to the checked invariants that ids are
  fresh and one connection's (`FreshIds`, `OwnIds`), that what is freed has ended
  (`EndedStreams`), and that a worker outside `read` holds no part of a buffer
  (`EmptyBuffers`); without them `Drained` is not inductive.  `NoLostWakeup` counts
  the workers that are awake and about to dequeue.  `PoolImplemented` maps every
  step to one of `StreamPool` or a stutter.
* `SendAndRecvProofs`: `ProgramInv` adds `Connections` (connections are made,
  queued and accepted in the order of the flows, so the receiver's number of a
  flow is the sender's, which nothing in the code compares) and `StartUp` (the
  receiver listens before it sets the flag; a flow's senders are idle until it is
  connected).  `BytesConserved` then follows from sums over a flow's threads: a
  system call changes one summand and the connection by the same amount, and a
  count moves a buffer from one summand to another.
* `SenderReceiverProofs`: `ProgramsInv` has the same `Connections`, with the
  receiver's number one higher, and drops them when the receiver has exited.
  Every step but the end of a stream keeps `Lost(f)`; that one adds less than a
  buffer and one thread to those that are over.
* `ThreadDemoProofs`: `DestroyedUnused` needs to know that `global` counts the
  threads that are done (`CountInv`); when it is `NTHREADS`, a subset of that many
  threads is all of them.  `TypeOK` of the demo is proved here and in no run.
* `MessagesProofs`: `Inv` joins the types, `SentBounded` (texts sent fit the bound
  of `ends`), `OneOpenAndLast` and `Sound`.  `Sound` says that every socket whose
  end has not been read `Agrees`: its text sent is the text taken, that of the
  list and that of the bytes to come, in this order; a complete message ends
  where a message was ended; and so does the text before each NUL to come.
  `CompleteEndsMessage` needs the last part, because a piece becomes complete by a
  NUL that was still in the stream; it also needs `OneOpenAndLast`, because a
  piece that completes an element must end at the end of the socket's text.  What
  happens to the list is put in three relations: `Adds` (`handle`: one piece more at the
  end of the text of one socket, the others as they were), `Others` (elements of
  one socket go: the others keep their text, place by place) and `Takes` (and
  what went is the first of that socket's text).  `clean_list`, `get_next_message`
  and each outcome of `empty_incoming_messages` is shown to be one of these, and
  `Agrees` to be kept by them; a step is then a few lines.  `clean_list` is only
  ever shown to be `Others`: the elements that it overlooks belong to a socket
  whose end has been read.
  The text is `FlattenSeq` of the library, a choice of a recursive function.  As
  with sums, `JoinsExist` shows that there is one, from a least counterexample
  (`Upwards`), and `FlattenEmpty`, `FlattenAppend` and `FlattenConcat` are all that
  the rest uses.  The same argument gives the flags `Goes` of `clean_list`
  (`CleansExist`).

Each inductive invariant was checked by TLC on the instances of the runs before
it was proved.

Every invariant and every action property of the passing runs is proved, and both
refinements of `TokenBucket` and that of `StreamPool`.  Only model-checked:
liveness (`AllBlastersFinish`, `OnlyUntakenTurnsStarve`, `OnlySilenceStarves`,
`OnlyTurnsHoldUp`, `DrainedAfterExit`, `AllRunAndEnd`), which is out of this prover's
reach, and the four violations, which are counterexamples.  `FlowTable` has no
passing run: its only property is one of those.

`Stamped`, `Chained`, `ChargedInTime`, `TurnInv`, `Connections` and the like are
parts of inductive invariants and consequences of the proofs; no run lists them.

## 5. Not modelled, and why

* The unlock of a mutex that was never initialised in `dequeue`: undefined
  behaviour; the model takes the outcome without effect.
* What happens after a slot without a base node was read, and the heap of a
  64-bit build, in which the constructor's array of pointers is too short.  The
  binary in the repository is a 32-bit one.
* A clock that steps back, and a `nanosleep` cut short: each ends the program by
  an assertion or `exit`.
* Buffer lengths other than blast's in the schedulers.
* Failed writes and resets in the test program: both ends are threads of one
  process, which closes nothing.  Ends of streams are in the receive pool and in
  `SenderReceiver`.
* The text of a line of statistics, its buffer `numstr`, and a flow id equal to
  `MAX_FLOW_ID` (1023), which the comment of `update` allows and which is one past
  the end of `byte_array`: the hazards without a property in PROJECT.json say why.
* Messages: a text longer than the element's buffer (`strcat` overruns it), the
  reuse of a descriptor after the end of its stream, a `wait_for_message` with a
  timeout, a `write` that fails or returns 0, and failing allocations.
* `ScheduledInputStream` (no program uses it) and `BufSchedOutputStream` (marked
  TBD in the source).
* Names, ports and error texts of the socket library; `test_accept`, which nothing
  calls; `printQueue`; plots, unit tests and editor back-ups.

## 6. Plan

1. *Done*: `RunOff`, `Alarm`, `Blast`, `MaxNWScheduler`, `STFQueue`,
   `STFQNWScheduler`, `TokenBucket`; the proofs about the first scheduler and
   the queue.
2. *Done*: `Socket`, `Stats`, `InputStream`, `OutputStream`, `Flag`, `RecQueue`,
   `ReceivePool`, `StreamPool`, `SendAndRecv`.
3. *Done*: `FlowTable`, `Listener`, `SenderReceiver`, `Messages`, `ThreadDemo`:
   every part with logic of its own is modelled.
4. *Done*, proofs: the invariants of the queue, both schedulers, the receive pool,
   the test program and the two stand-alone programs, and the refinements.
5. *Done*, proofs: the list of `Messages`.
6. Open: `Messages` with a bounded element (`strcat` at the limit) and with the reuse
   of a descriptor after `clean_list`, in which `InOrder` would need a new statement.
