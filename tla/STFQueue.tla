------------------------------ MODULE STFQueue ------------------------------
(***************************************************************************)
(* STFQueue.cc, the start-time fair queue: one linked list of tagged       *)
(* buffers per flow, and a virtual time.  A buffer's start tag is the      *)
(* later of its flow's last finish tag and the virtual time, its finish    *)
(* tag lies len/weight after; dequeue takes the lowest start tag over the  *)
(* flows and moves the virtual time to it.                                 *)
(*                                                                         *)
(* The virtual time is a float, and the maximum that gives the start tag   *)
(* is computed in float: Float rounds a tag the way that conversion does.  *)
(***************************************************************************)
EXTENDS Integers, Sequences, FiniteSets

CONSTANTS
  NFlows,       \* flows are 0 .. NFlows - 1, slots of t_array
  MAX_SIZE,     \* buffers the queue holds (100 in the code)
  Weight,       \* the weight each flow's stream was created with
  MaxLen,       \* buffers are 1 .. MaxLen bytes long
  MaxTag,       \* largest tag (LLONG_MAX in the code)
  Float(_)      \* the float nearest to an integer

Flow == 0 .. (NFlows - 1)

\* lenToSend/weight + 0.5, cut to an integer: the nearest one to len/weight.
Service(f, len) == (2 * len + Weight[f]) \div (2 * Weight[f])

\* The most one buffer can push a flow's tags ahead.
MaxService(f) == Service(f, MaxLen)

Tag == 0 .. MaxTag

ASSUME QueueAssumption ==
  /\ NFlows \in Nat \ {0}
  /\ MAX_SIZE \in Nat \ {0}
  /\ Weight \in [Flow -> Nat \ {0}]
  /\ MaxLen \in Nat \ {0}
  /\ MaxTag \in Nat
  /\ \A f \in Flow : MaxService(f) <= MaxTag

\* Conversion to float is monotone, keeps what is a float already, and 0 is one.
ASSUME FloatAssumption ==
  /\ Float(0) = 0
  /\ \A x \in 0 .. (2 * MaxTag) : Float(x) \in Nat /\ Float(Float(x)) = Float(x)
  /\ \A x, y \in 0 .. (2 * MaxTag) : x <= y => Float(x) <= Float(y)

VARIABLES
  nodes,        \* nodes[f]: the list hanging off t_array[f], oldest first
  lastFinish,   \* finishTime of the base node t_array[f]
  size,         \* the member that counts all the nodes
  currentTime   \* the virtual time

queueVars == <<nodes, lastFinish, size, currentTime>>

QueueInit ==
  /\ nodes = [f \in Flow |-> <<>>]
  /\ lastFinish = [f \in Flow |-> 0]
  /\ size = 0
  /\ currentTime = 0

Waiting(f) == nodes[f] # <<>>
HeadStart(f) == nodes[f][1].startTime

\* finishTime of the node enqueue finds at the end of the flow's list, which
\* is the base node when nothing is queued.
TailFinish(f) ==
  IF Waiting(f) THEN nodes[f][Len(nodes[f])].finishTime ELSE lastFinish[f]

\* Mutant: the flow's own tag whatever the virtual time.
StartTagNoMax(f) == Float(TailFinish(f))

\* The start tag enqueue computes.
StartTag(f) == Float(IF TailFinish(f) > currentTime THEN TailFinish(f) ELSE currentTime)

\* Mutant: the capacity test is off by one.
queueFullLate == size > MAX_SIZE

queueFull == size = MAX_SIZE

\* enqueue.  When the queue is full it returns without an effect.
Enqueue(f, len) ==
  IF queueFull THEN UNCHANGED queueVars
  ELSE LET start  == StartTag(f)
           finish == start + Service(f, len)
       IN  /\ finish <= MaxTag
           /\ size' = size + 1
           /\ nodes' = [nodes EXCEPT ![f] =
                          Append(@, [startTime |-> start, finishTime |-> finish])]
           /\ lastFinish' = [lastFinish EXCEPT ![f] = finish]
           /\ UNCHANGED currentTime

\* Mutant: the first flow with a buffer is picked.
BeforeBySlot(f, g) == f <= g

\* The flow dequeue picks: the lowest start tag at the head of its list, the
\* lowest slot among equals.
Before(f, g) == \/ HeadStart(f) < HeadStart(g)
                \/ HeadStart(f) = HeadStart(g) /\ f <= g

IsMin(f) ==
  /\ f \in Flow /\ Waiting(f)
  /\ \A g \in Flow : Waiting(g) => Before(f, g)

\* Mutant: the last slot among equals.
LowerOrEqual(i, min) == Waiting(i) /\ HeadStart(min) >= HeadStart(i)

\* The test by which the loop of dequeue moves min to slot i.
Lower(i, min) == Waiting(i) /\ HeadStart(min) > HeadStart(i)

\* The loop of dequeue: min after slots 1 .. i have been looked at.
ScanMin[i \in Flow] ==
  IF i = 0 THEN 0
  ELSE LET min == ScanMin[i - 1] IN
       IF ~Waiting(min) THEN i
       ELSE IF Lower(i, min) THEN i
       ELSE min

\* Mutants: the virtual time is not moved; the buffer is not counted out.
DequeueNoTime(id) ==
  /\ size # 0
  /\ IsMin(id)
  /\ nodes' = [nodes EXCEPT ![id] = Tail(@)]
  /\ size' = size - 1
  /\ UNCHANGED <<currentTime, lastFinish>>
DequeueNoCount(id) ==
  /\ size # 0
  /\ IsMin(id)
  /\ currentTime' = Float(HeadStart(id))
  /\ nodes' = [nodes EXCEPT ![id] = Tail(@)]
  /\ UNCHANGED <<size, lastFinish>>

\* dequeue, returning id; -1 when the queue is empty.
Dequeue(id) ==
  \/ /\ size = 0
     /\ id = -1
     /\ UNCHANGED queueVars
  \/ /\ size # 0
     /\ IsMin(id)
     /\ currentTime' = Float(HeadStart(id))
     /\ nodes' = [nodes EXCEPT ![id] = Tail(@)]
     /\ size' = size - 1
     /\ UNCHANGED lastFinish

QueueNext ==
  \/ \E f \in Flow, len \in 1 .. MaxLen : Enqueue(f, len)
  \/ \E id \in Flow \cup {-1} : Dequeue(id)

QueueSpec == QueueInit /\ [][QueueNext]_queueVars

-----------------------------------------------------------------------------

Node == [startTime : Tag, finishTime : Tag]

QueueTypeOK ==
  /\ nodes \in [Flow -> Seq(Node)]
  /\ lastFinish \in [Flow -> Tag]
  /\ size \in 0 .. MAX_SIZE
  /\ currentTime \in Tag

\* The places of the queued buffers: <<f, i>> is the i-th in flow f's list.
Places == UNION {{f} \X (1 .. Len(nodes[f])) : f \in Flow}

\* The counter the full and empty tests read is the number of buffers in all
\* the lists together, so a dequeue that passes its size test finds a buffer.
SizeIsCount ==
  /\ IsFiniteSet(Places)
  /\ size = Cardinality(Places)

\* The virtual time and the start tags are floats, and a buffer's tags are at
\* most the service of a largest buffer apart.
Stamped ==
  /\ Float(currentTime) = currentTime
  /\ \A f \in Flow : \A i \in 1 .. Len(nodes[f]) :
       /\ Float(nodes[f][i].startTime) = nodes[f][i].startTime
       /\ nodes[f][i].startTime <= nodes[f][i].finishTime
       /\ nodes[f][i].finishTime <= nodes[f][i].startTime + MaxService(f)

\* The base node and the queued nodes of a flow are one chain: every start tag
\* is the float of the finish tag before it, and the base node holds the last.
Chained ==
  \A f \in Flow :
    /\ Waiting(f) => lastFinish[f] = nodes[f][Len(nodes[f])].finishTime
    /\ \A i \in 1 .. Len(nodes[f]) - 1 :
         nodes[f][i + 1].startTime = Float(nodes[f][i].finishTime)

\* No queued buffer starts before the virtual time, and the buffers of a flow
\* are in the order of their start tags: virtual time never goes back, and
\* buffers leave in the order of their tags although only heads are compared.
HeadsAhead ==
  \A f \in Flow :
    /\ \A i \in 1 .. Len(nodes[f]) : nodes[f][i].startTime >= currentTime
    /\ \A i, j \in 1 .. Len(nodes[f]) :
         i <= j => nodes[f][i].startTime <= nodes[f][j].startTime

\* How far the head of a flow's chain is from the virtual time: the first queued
\* buffer, or the finish tag a flow keeps when nothing is queued.
TagsBounded ==
  \A f \in Flow :
    IF Waiting(f) THEN HeadStart(f) <= Float(currentTime + MaxService(f))
                  ELSE lastFinish[f] <= currentTime + MaxService(f)

\* The fairness STFQ is named for, in tags: of two flows that wait, neither is
\* further behind the other than the service of one buffer of its own, however
\* long one was idle or busy before.
FairTags ==
  \A f, g \in Flow :
    Waiting(f) /\ Waiting(g)
      => HeadStart(f) <= Float(HeadStart(g) + MaxService(f))

\* A flow cannot store up debt either.  The oldest of its queued buffers starts
\* at most one service of its own after the virtual time.  What it asks for next
\* starts at most that long after the last of its buffers still queued, or after
\* the virtual time when it has none.
BoundedLag ==
  \A f \in Flow :
    IF Waiting(f)
    THEN /\ HeadStart(f) <= Float(currentTime + MaxService(f))
         /\ StartTag(f) <= Float(nodes[f][Len(nodes[f])].startTime + MaxService(f))
    ELSE StartTag(f) <= Float(currentTime + MaxService(f))

\* The virtual time never goes back, although dequeue assigns it the start tag
\* of whatever it takes, and flows come and go in between.
VirtualTimeAdvances == [][currentTime' >= currentTime]_queueVars

\* The scan over the slots that dequeue writes as a loop lands on the flow with
\* the lowest start tag, the first slot among equals, whenever it runs.
ScanFindsMin == size # 0 => IsMin(ScanMin[NFlows - 1])

=============================================================================
