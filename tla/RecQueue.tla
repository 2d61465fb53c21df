------------------------------ MODULE RecQueue ------------------------------
(***************************************************************************)
(* rec_queue.cc: the unbounded queue of input streams between the acceptor *)
(* and the workers of the receive pool.  Both operations hold the queue's  *)
(* mutex throughout, except that dequeue gives it up in scond_wait.        *)
(***************************************************************************)
EXTENDS Sequences, Naturals

VARIABLES
  list,       \* the input streams behind the base node, oldest first
  asleep      \* threads in scond_wait(&queueEmpty) nobody has woken yet

recQueueVars == <<list, asleep>>

RecQueueInit ==
  /\ list = <<>>
  /\ asleep = {}

\* Mutant: nobody is told.
EnqueueQuiet(io) ==
  /\ list' = Append(list, io)
  /\ UNCHANGED asleep

\* Mutant: the walk to the end of the list is left out.
EnqueueOverwrites(io) ==
  /\ list' = <<io>>
  /\ asleep' = {}

\* enqueue: to the end of the list, and scond_broadcast(&queueEmpty).
Enqueue(io) ==
  /\ list' = Append(list, io)
  /\ asleep' = {}

\* The loop of dequeue, in a thread w that holds the mutex: it came in, or
\* scond_wait returned.
DequeueWaits(w) ==
  /\ w \notin asleep
  /\ list = <<>>
  /\ asleep' = asleep \cup {w}
  /\ UNCHANGED list

\* dequeue returns the first stream.
DequeueReturns(w, io) ==
  /\ w \notin asleep
  /\ list # <<>>
  /\ io = Head(list)
  /\ list' = Tail(list)
  /\ UNCHANGED asleep

\* pthread_cond_wait may return although nobody signalled.
WakesUnsignalled(w) ==
  /\ w \in asleep
  /\ asleep' = asleep \ {w}
  /\ UNCHANGED list

Queued(io) == \E i \in 1 .. Len(list) : list[i] = io

=============================================================================
