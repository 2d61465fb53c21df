----------------------------- MODULE ReceivePool -----------------------------
(***************************************************************************)
(* receivePool.cc: the acceptor (the main thread) turns each connection    *)
(* into an input stream and queues it; a fixed number of workers take      *)
(* streams from the queue, read one buffer from each and queue it again,   *)
(* or drop it at its end.                                                  *)
(***************************************************************************)
EXTENDS InputStream, RecQueue, FiniteSets

CONSTANTS
  None,         \* no stream
  FdLimits,     \* how many sockets the process may hold open
  MaxBytes      \* bound: bytes a peer sends on a connection

Worker == Reader      \* NUM_WORKERS = 10 of them in the code

ASSUME PoolAssumption ==
  /\ None \notin Conn
  /\ IsFiniteSet(Reader)
  /\ FdLimits \subseteq 0 .. (MAX_FLOW_ID - 1)  \* so that byte_array has every flow id
  /\ MaxBytes \in Nat

VARIABLES
  up,           \* the process runs: no exit(1) yet
  maxFds,       \* its limit of sockets
  connected,    \* connections the peers have made
  nflows,       \* connections accepted so far; sockets, as none is ever closed
  flowId,       \* flowId[c]: the id given to c's stream; 0 before accept
  pc,           \* where each worker is: "dequeue", "read" or "enqueue"
  is,           \* is[w]: the stream worker w holds
  freed,        \* connections whose stream has been freed
  delivered     \* history: bytes the network has put in each socket

poolVars == <<up, maxFds, connected, nflows, flowId, pc, is, freed, delivered>>
vars == <<statsVars, inputVars, recQueueVars, poolVars>>

Init ==
  /\ StatsInit
  /\ InputInit
  /\ RecQueueInit
  /\ up = TRUE
  /\ maxFds \in FdLimits
  /\ connected = {}
  /\ nflows = 0
  /\ flowId = [c \in Conn |-> 0]
  /\ pc = [w \in Worker |-> "dequeue"]
  /\ is = [w \in Worker |-> None]
  /\ freed = {}
  /\ delivered = [c \in Conn |-> 0]

At(w, l) == up /\ pc[w] = l
Goto(w, l) == pc' = [pc EXCEPT ![w] = l]

-----------------------------------------------------------------------------

\* Mutant: the failure of saccept is not tested, and a stream is made of it.
AcceptUntested(c) ==
  /\ up /\ c \in connected /\ flowId[c] = 0
  /\ nflows' = nflows + 1
  /\ flowId' = [flowId EXCEPT ![c] = nflows + 1]
  /\ Enqueue(c)
  /\ UNCHANGED <<statsVars, inputVars, up, maxFds, connected, pc, is, freed, delivered>>

\* The acceptor: saccept, new InputStream, enqueue.
Accept(c) ==
  /\ up /\ c \in connected /\ flowId[c] = 0
  /\ nflows < maxFds
  /\ nflows' = nflows + 1
  /\ flowId' = [flowId EXCEPT ![c] = nflows + 1]
  /\ Enqueue(c)
  /\ UNCHANGED <<statsVars, inputVars, up, maxFds, connected, pc, is, freed, delivered>>

\* saccept fails, for want of a file descriptor: exit(1).
AcceptFails ==
  /\ up /\ \E c \in connected : flowId[c] = 0
  /\ nflows = maxFds
  /\ up' = FALSE
  /\ UNCHANGED <<statsVars, inputVars, recQueueVars, maxFds, connected, nflows, flowId, pc, is,
                 freed, delivered>>

-----------------------------------------------------------------------------

\* The worker's steps.
Sleep(w) ==
  /\ At(w, "dequeue")
  /\ DequeueWaits(w)
  /\ UNCHANGED <<statsVars, inputVars, poolVars>>

TakeStream(w) ==
  /\ At(w, "dequeue")
  /\ \E c \in Conn : DequeueReturns(w, c) /\ is' = [is EXCEPT ![w] = c]
  /\ Goto(w, "read")
  /\ UNCHANGED <<statsVars, inputVars, up, maxFds, connected, nflows, flowId, freed, delivered>>

ReadMore(w) ==
  /\ At(w, "read")
  /\ ReadPiece(w, is[w])
  /\ UNCHANGED <<recQueueVars, poolVars>>

\* The buffer is full and counted: got > 1.
GotBuffer(w) ==
  /\ At(w, "read")
  /\ ReadFull(w, flowId[is[w]])
  /\ Goto(w, "enqueue")
  /\ UNCHANGED <<recQueueVars, up, maxFds, connected, nflows, flowId, is, freed, delivered>>

PutBack(w) ==
  /\ At(w, "enqueue")
  /\ Enqueue(is[w])
  /\ is' = [is EXCEPT ![w] = None]
  /\ Goto(w, "dequeue")
  /\ UNCHANGED <<statsVars, inputVars, up, maxFds, connected, nflows, flowId, freed, delivered>>

\* Mutant: the continue after free(is) is left out.
FinishNoContinue(w) ==
  /\ At(w, "read")
  /\ ReadEnds(w, is[w])
  /\ freed' = freed \cup {is[w]}
  /\ Goto(w, "enqueue")
  /\ UNCHANGED <<recQueueVars, up, maxFds, connected, nflows, flowId, is, delivered>>

\* got <= 1: free(is) and continue.  The socket stays open.
Finish(w) ==
  /\ At(w, "read")
  /\ ReadEnds(w, is[w])
  /\ freed' = freed \cup {is[w]}
  /\ is' = [is EXCEPT ![w] = None]
  /\ Goto(w, "dequeue")
  /\ UNCHANGED <<recQueueVars, up, maxFds, connected, nflows, flowId, delivered>>

WorkerStep(w) ==
  Sleep(w) \/ TakeStream(w) \/ ReadMore(w) \/ GotBuffer(w) \/ PutBack(w) \/ Finish(w)

Spurious(w) == up /\ WakesUnsignalled(w) /\ UNCHANGED <<statsVars, inputVars, poolVars>>

-----------------------------------------------------------------------------

\* The peers connect, send, and close or reset their connections.
Open(c) == up /\ c \in connected \ gone

Connect(c) ==
  /\ up /\ c \notin connected
  /\ connected' = connected \cup {c}
  /\ UNCHANGED <<statsVars, inputVars, recQueueVars, up, maxFds, nflows, flowId, pc, is, freed,
                 delivered>>

Send(c) ==
  /\ Open(c)
  /\ delivered[c] < MaxBytes
  /\ socket' = [socket EXCEPT ![c] = @ + 1]
  /\ delivered' = [delivered EXCEPT ![c] = @ + 1]
  /\ UNCHANGED <<statsVars, gone, sofar, recQueueVars, up, maxFds, connected, nflows, flowId, pc,
                 is, freed>>

Close(c) ==
  /\ Open(c)
  /\ gone' = gone \cup {c}
  /\ UNCHANGED <<statsVars, socket, sofar, recQueueVars, poolVars>>

\* The bytes that were not read yet are dropped.
Reset(c) ==
  /\ Open(c)
  /\ gone' = gone \cup {c}
  /\ socket' = [socket EXCEPT ![c] = 0]
  /\ delivered' = [delivered EXCEPT ![c] = @ - socket[c]]
  /\ UNCHANGED <<statsVars, sofar, recQueueVars, up, maxFds, connected, nflows, flowId, pc, is,
                 freed>>

Peer(c) == Connect(c) \/ Send(c) \/ Close(c) \/ Reset(c)

Next ==
  \/ AcceptFails
  \/ \E c \in Conn : Accept(c) \/ Peer(c)
  \/ \E w \in Worker : WorkerStep(w) \/ Spurious(w)

Spec == Init /\ [][Next]_vars

\* The threads run; nothing is assumed of the peers.
Fairness ==
  /\ \A c \in Conn : WF_vars(Accept(c))
  /\ \A w \in Worker : WF_vars(WorkerStep(w))

FairSpec == Spec /\ Fairness

-----------------------------------------------------------------------------

TypeOK ==
  /\ byte_array \in [FlowId -> Nat]
  /\ max_id \in FlowId
  /\ socket \in [Conn -> Nat]
  /\ gone \in SUBSET Conn
  /\ sofar \in [Worker -> 0 .. BUFFER_SIZE]
  /\ list \in Seq(Conn)
  /\ asleep \in SUBSET Worker
  /\ up \in BOOLEAN
  /\ connected \in SUBSET Conn
  /\ maxFds \in FdLimits
  /\ nflows \in 0 .. maxFds
  /\ flowId \in [Conn -> 0 .. nflows]
  /\ pc \in [Worker -> {"dequeue", "read", "enqueue"}]
  /\ is \in [Worker -> Conn \cup {None}]
  /\ freed \in SUBSET Conn
  /\ delivered \in [Conn -> Nat]

Accepted(c) == flowId[c] # 0
HeldBy(w, c) == is[w] = c
Held(c) == \E w \in Worker : HeldBy(w, c)

\* A stream that has been accepted is in one place: once in the queue, with
\* one worker, or freed.  No stream is forgotten, served by two workers, or
\* used after it was freed.
OnePlace ==
  /\ \A c \in Conn : Accepted(c) <=> Queued(c) \/ Held(c) \/ c \in freed
  /\ \A c \in Conn : ~(Queued(c) /\ Held(c)) /\ ~(c \in freed /\ (Queued(c) \/ Held(c)))
  /\ \A i, j \in 1 .. Len(list) : list[i] = list[j] => i = j
  /\ \A v, w \in Worker : is[v] = is[w] /\ is[v] # None => v = w
  /\ \A w \in Worker : is[w] = None <=> pc[w] = "dequeue"

\* While streams queue, no worker sleeps, unless enough others are awake and
\* about to take them all: no broadcast of enqueue is lost.
NoLostWakeup ==
  asleep # {} =>
    Len(list) <= Cardinality({w \in Worker \ asleep : pc[w] = "dequeue"})

\* The bytes a stream has received are in its socket, in the buffer of the one
\* worker that reads it, or counted under the stream's own flow id.  When the
\* stream ends, less than one buffer is dropped, and nothing stays unread.
Drained ==
  \A c \in Conn :
    LET left == delivered[c] - socket[c] - byte_array[flowId[c]] IN
    /\ c \in freed => socket[c] = 0 /\ left \in 0 .. (BUFFER_SIZE - 1)
    /\ c \notin freed /\ ~Held(c) => left = 0
    /\ \A w \in Worker : HeldBy(w, c) => left = sofar[w]

\* The promise of the pool.
Life == [c \in Conn |-> IF c \in freed THEN "ended"
                        ELSE IF Held(c) THEN "served"
                        ELSE IF Queued(c) THEN "pooled" ELSE "new"]
Pool == INSTANCE StreamPool WITH life <- Life, nWorkers <- Cardinality(Worker)
ImplementsPool == Pool!PoolSpec

\* The worker waits in read() for a peer that is silent.
Stuck(w) ==
  /\ pc[w] = "read" /\ Missing(w) > 0
  /\ socket[is[w]] = 0 /\ is[w] \notin gone

\* A queued stream gets a worker, unless all the workers end up stuck on silent
\* streams, or the program has ended.
OnlySilenceStarves ==
  \A c \in Conn :
    \/ Queued(c) ~> ~Queued(c)
    \/ <>[](\A w \in Worker : Stuck(w))
    \/ <>~up

=============================================================================
