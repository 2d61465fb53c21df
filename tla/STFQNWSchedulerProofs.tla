----------------------- MODULE STFQNWSchedulerProofs -----------------------
(***************************************************************************)
(* The safety of STFQueue and of STFQNWScheduler around it, for any number *)
(* of senders and flows, any weights, any bandwidth and any buffer: the    *)
(* queue is fair and is used within its interface, the tickets cover the   *)
(* waiting senders, no newcomer takes a turn that is somebody's, no wakeup *)
(* is lost, the rate is kept.                                              *)
(***************************************************************************)
EXTENDS STFQNWScheduler, Arithmetic, FiniteSetTheorems, TLAPS

(***************************************************************************)
(* The start-time fair queue alone: its fairness, for any number of flows, *)
(* any weights, any capacity and any rounding that is monotone.            *)
(***************************************************************************)

\* The inductive invariant: fairness needs the order of the tags, which needs
\* the chain of each flow, which needs the tags to be stamped as enqueue does.
QueueInv ==
  QueueTypeOK /\ SizeIsCount /\ Stamped /\ Chained /\ HeadsAhead /\ TagsBounded

\* Division by a weight is monotone.
LEMMA DivMonotone ==
  ASSUME NEW a \in Nat, NEW b \in Nat, NEW c \in Nat \ {0}, a <= b
  PROVE  a \div c \in Nat /\ b \div c \in Nat /\ a \div c <= b \div c
  BY SMT

\* A buffer's service is at most that of a largest one.
LEMMA ServiceBound ==
  ASSUME NEW f \in Flow, NEW len \in 1 .. MaxLen
  PROVE  /\ Service(f, len) \in Nat
         /\ MaxService(f) \in 0 .. MaxTag
         /\ Service(f, len) <= MaxService(f)
<1>1. /\ Weight[f] \in Nat \ {0} /\ MaxLen \in Nat \ {0} /\ MaxTag \in Nat
      /\ MaxService(f) <= MaxTag
  BY QueueAssumption
<1>2. /\ 2 * len + Weight[f] \in Nat /\ 2 * MaxLen + Weight[f] \in Nat
      /\ 2 * Weight[f] \in Nat \ {0}
      /\ 2 * len + Weight[f] <= 2 * MaxLen + Weight[f]
  BY <1>1
<1>3. /\ Service(f, len) \in Nat /\ MaxService(f) \in Nat
      /\ Service(f, len) <= MaxService(f)
  BY <1>2, DivMonotone DEF Service, MaxService
<1> QED
  BY <1>1, <1>3

\* Rounding keeps naturals, is idempotent and monotone.
LEMMA FloatFacts ==
  ASSUME NEW x \in 0 .. (2 * MaxTag), NEW y \in 0 .. (2 * MaxTag)
  PROVE  /\ Float(x) \in Nat /\ Float(Float(x)) = Float(x)
         /\ x <= y => Float(x) <= Float(y)
  BY FloatAssumption

\* The invariant holds of the empty queue.
LEMMA InitQueueInv == QueueInit => QueueInv
<1> SUFFICES ASSUME QueueInit PROVE QueueInv
  OBVIOUS
<1> USE QueueAssumption DEF QueueInit
<1>1. \A f \in Flow : nodes[f] = <<>> /\ Len(nodes[f]) = 0 /\ lastFinish[f] = 0
  OBVIOUS
<1>2. QueueTypeOK
  BY DEF QueueTypeOK, Tag
<1>3. SizeIsCount
  <2>1. Places = {}
    BY <1>1 DEF Places
  <2> QED BY <2>1, FS_EmptySet DEF SizeIsCount
<1>4. Stamped
  BY <1>1, FloatAssumption DEF Stamped
<1>5. Chained /\ HeadsAhead
  BY <1>1 DEF Chained, HeadsAhead, Waiting
<1>6. TagsBounded
  <2>1. \A f \in Flow : MaxService(f) \in Nat
    <3>1. MaxLen \in 1 .. MaxLen
      OBVIOUS
    <3> QED BY <3>1, ServiceBound
  <2> QED BY <1>1, <2>1 DEF TagsBounded, Waiting
<1> QED
  BY <1>2, <1>3, <1>4, <1>5, <1>6 DEF QueueInv

-----------------------------------------------------------------------------

\* What enqueue stamps a buffer with: a float no earlier than the virtual time
\* and the buffers of its flow before it, and close to one of the two.
LEMMA StartTagFacts ==
  ASSUME QueueInv, NEW f \in Flow, NEW len \in 1 .. MaxLen,
         NEW start, start = StartTag(f),
         NEW finish, finish = start + Service(f, len), finish <= MaxTag
  PROVE  /\ start \in Tag /\ finish \in Tag
         /\ Float(start) = start
         /\ start >= currentTime
         /\ start <= finish /\ finish <= start + MaxService(f)
         /\ Waiting(f) => /\ start = Float(nodes[f][Len(nodes[f])].finishTime)
                          /\ start >= nodes[f][Len(nodes[f])].startTime
         /\ ~Waiting(f) => start <= Float(currentTime + MaxService(f))
<1> DEFINE last == nodes[f][Len(nodes[f])]
<1>1. /\ Service(f, len) \in Nat /\ MaxService(f) \in 0 .. MaxTag
      /\ Service(f, len) <= MaxService(f) /\ MaxTag \in Nat
  BY ServiceBound, QueueAssumption
<1>2. currentTime \in 0 .. MaxTag /\ Float(currentTime) = currentTime
  BY DEF QueueInv, QueueTypeOK, Stamped, Tag
<1>3. CASE Waiting(f)
  <2>1. Len(nodes[f]) \in 1 .. Len(nodes[f]) /\ nodes[f] \in Seq(Node)
    BY <1>3 DEF QueueInv, QueueTypeOK, Waiting
  <2>2. last \in Node
    BY <2>1
  <2>3. last.startTime \in 0 .. MaxTag /\ last.finishTime \in 0 .. MaxTag
    BY <2>2 DEF Node, Tag
  <2>4. /\ last.startTime >= currentTime
        /\ Float(last.startTime) = last.startTime
        /\ last.startTime <= last.finishTime
    BY <2>1 DEF QueueInv, Stamped, HeadsAhead
  <2>5. TailFinish(f) = last.finishTime
    BY <1>3 DEF TailFinish
  <2> HIDE DEF last
  <2>6. start = Float(last.finishTime)
    <3>1. CASE last.finishTime > currentTime
      BY <2>5, <3>1 DEF StartTag
    <3>2. CASE last.finishTime = currentTime
      BY <2>5, <3>2, <1>2 DEF StartTag
    <3> QED BY <1>2, <2>3, <2>4, <3>1, <3>2
  <2>7. start \in Nat /\ Float(start) = start /\ start >= last.startTime
    <3>1. last.startTime \in 0 .. (2 * MaxTag) /\ last.finishTime \in 0 .. (2 * MaxTag)
      BY <1>1, <2>3
    <3> QED BY <2>4, <2>6, <3>1, FloatFacts
  <2>8. start \in Tag /\ finish \in Tag /\ start >= currentTime
    BY <1>1, <1>2, <2>3, <2>4, <2>7 DEF Tag
  <2>9. start <= finish /\ finish <= start + MaxService(f)
    BY <1>1, <2>7
  <2> QED
    BY <1>3, <2>6, <2>7, <2>8, <2>9 DEF last
<1>4. CASE ~Waiting(f)
  <2>1. lastFinish[f] \in 0 .. MaxTag /\ lastFinish[f] <= currentTime + MaxService(f)
    BY <1>4 DEF QueueInv, QueueTypeOK, TagsBounded, Tag
  <2>2. PICK x \in 0 .. MaxTag : /\ start = Float(x) /\ x >= currentTime
                                /\ x <= currentTime + MaxService(f)
    <3>1. CASE lastFinish[f] > currentTime
      <4>1. start = Float(lastFinish[f])
        BY <1>4, <3>1 DEF StartTag, TailFinish
      <4> QED BY <1>2, <2>1, <3>1, <4>1
    <3>2. CASE ~(lastFinish[f] > currentTime)
      <4>1. start = Float(currentTime)
        BY <1>4, <3>2 DEF StartTag, TailFinish
      <4> QED BY <1>1, <1>2, <4>1
    <3> QED BY <3>1, <3>2
  <2>3. /\ x \in 0 .. (2 * MaxTag) /\ currentTime \in 0 .. (2 * MaxTag)
        /\ currentTime + MaxService(f) \in 0 .. (2 * MaxTag)
    BY <1>1, <1>2
  <2>4. /\ Float(x) \in Nat /\ Float(Float(x)) = Float(x)
        /\ Float(currentTime) <= Float(x)
        /\ Float(x) <= Float(currentTime + MaxService(f))
    BY <2>2, <2>3, FloatFacts
  <2> QED
    BY <1>1, <1>2, <1>4, <2>2, <2>4 DEF Tag
<1> QED
  BY <1>3, <1>4

-----------------------------------------------------------------------------

\* enqueue keeps the invariant.
LEMMA EnqueueStep ==
  ASSUME QueueInv, NEW f \in Flow, NEW len \in 1 .. MaxLen, Enqueue(f, len),
         ~queueFull
  PROVE  QueueInv'
<1> DEFINE start  == StartTag(f)
           finish == start + Service(f, len)
           n      == [startTime |-> start, finishTime |-> finish]
           old    == nodes[f]
           k      == Len(old)
<1>1. /\ start \in Tag /\ finish \in Tag
      /\ Float(start) = start
      /\ start >= currentTime
      /\ start <= finish /\ finish <= start + MaxService(f)
      /\ Waiting(f) => start = Float(old[k].finishTime) /\ start >= old[k].startTime
      /\ ~Waiting(f) => start <= Float(currentTime + MaxService(f))
  BY StartTagFacts DEF Enqueue
<1>2. /\ size' = size + 1
      /\ nodes' = [nodes EXCEPT ![f] = Append(old, n)]
      /\ lastFinish' = [lastFinish EXCEPT ![f] = finish]
      /\ currentTime' = currentTime
  BY DEF Enqueue
<1> HIDE DEF start, finish
<1>3. n \in Node /\ n.startTime = start /\ n.finishTime = finish
  BY <1>1 DEF Node
<1> HIDE DEF n
<1>4. /\ nodes \in [Flow -> Seq(Node)] /\ lastFinish \in [Flow -> Tag]
      /\ size \in 0 .. MAX_SIZE /\ size # MAX_SIZE /\ currentTime \in Tag
      /\ old \in Seq(Node) /\ k \in Nat /\ MAX_SIZE \in Nat
  BY QueueAssumption DEF QueueInv, QueueTypeOK, queueFull
<1>5. /\ nodes'[f] = Append(old, n) /\ Len(nodes'[f]) = k + 1
      /\ nodes'[f][k + 1] = n
      /\ \A i \in 1 .. k : nodes'[f][i] = old[i]
      /\ \A g \in Flow \ {f} : nodes'[g] = nodes[g]
      /\ lastFinish'[f] = finish
      /\ \A g \in Flow \ {f} : lastFinish'[g] = lastFinish[g]
  BY <1>2, <1>3, <1>4
<1>6. Waiting(f) <=> k # 0
  BY <1>4 DEF Waiting
<1>7. QueueTypeOK'
  <2>1. Append(old, n) \in Seq(Node)
    BY <1>3, <1>4
  <2>2. nodes' \in [Flow -> Seq(Node)]
    BY <1>2, <1>4, <2>1
  <2>3. lastFinish' \in [Flow -> Tag]
    BY <1>1, <1>2, <1>4
  <2>4. size' \in 0 .. MAX_SIZE
    BY <1>2, <1>4
  <2> QED BY <1>2, <1>4, <2>2, <2>3, <2>4 DEF QueueTypeOK
<1>8. SizeIsCount'
  <2>1. Places' = Places \cup {<<f, k + 1>>}
    <3>1. 1 .. Len(nodes'[f]) = (1 .. k) \cup {k + 1}
      BY <1>4, <1>5
    <3> QED BY <1>5, <3>1 DEF Places
  <2>2. <<f, k + 1>> \notin Places
    BY <1>4 DEF Places
  <2>3. IsFiniteSet(Places) /\ size = Cardinality(Places)
    BY DEF QueueInv, SizeIsCount
  <2> QED BY <1>2, <2>1, <2>2, <2>3, FS_AddElement DEF SizeIsCount
<1>9. Stamped'
  <2>1. Float(currentTime') = currentTime'
    BY <1>2 DEF QueueInv, Stamped
  <2>2. ASSUME NEW g \in Flow, NEW i \in 1 .. Len(nodes'[g])
        PROVE  /\ Float(nodes'[g][i].startTime) = nodes'[g][i].startTime
               /\ nodes'[g][i].startTime <= nodes'[g][i].finishTime
               /\ nodes'[g][i].finishTime <= nodes'[g][i].startTime + MaxService(g)
    <3>1. CASE g = f /\ i = k + 1
      BY <1>1, <1>3, <1>5, <3>1
    <3>2. CASE g = f /\ i # k + 1
      <4>1. i \in 1 .. k
        BY <1>4, <1>5, <2>2, <3>2
      <4> QED BY <1>5, <3>2, <4>1 DEF QueueInv, Stamped
    <3>3. CASE g # f
      BY <1>5, <3>3 DEF QueueInv, Stamped
    <3> QED BY <3>1, <3>2, <3>3
  <2> QED BY <2>1, <2>2 DEF Stamped
<1>10. Chained'
  <2> SUFFICES ASSUME NEW g \in Flow
               PROVE  /\ nodes'[g] # <<>> =>
                           lastFinish'[g] = nodes'[g][Len(nodes'[g])].finishTime
                      /\ \A i \in 1 .. Len(nodes'[g]) - 1 :
                           nodes'[g][i + 1].startTime = Float(nodes'[g][i].finishTime)
    BY DEF Chained, Waiting
  <2>1. CASE g # f
    BY <1>5, <2>1 DEF QueueInv, Chained, Waiting
  <2>2. CASE g = f
    <3>1. lastFinish'[f] = nodes'[f][Len(nodes'[f])].finishTime
      BY <1>3, <1>5
    <3>2. ASSUME NEW i \in 1 .. Len(nodes'[f]) - 1
          PROVE  nodes'[f][i + 1].startTime = Float(nodes'[f][i].finishTime)
      <4>1. i \in 1 .. k
        BY <1>4, <1>5
      <4>2. CASE i = k
        BY <1>1, <1>3, <1>4, <1>5, <1>6, <4>1, <4>2
      <4>3. CASE i # k
        <5>1. i \in 1 .. k - 1 /\ i + 1 \in 1 .. k
          BY <1>4, <4>1, <4>3
        <5>2. old[i + 1].startTime = Float(old[i].finishTime)
          BY <5>1 DEF QueueInv, Chained
        <5> QED BY <1>5, <4>1, <5>1, <5>2
      <4> QED BY <4>2, <4>3
    <3> QED BY <2>2, <3>1, <3>2
  <2> QED BY <2>1, <2>2
<1>11. HeadsAhead'
  <2>1. ASSUME NEW g \in Flow, NEW i \in 1 .. Len(nodes'[g])
        PROVE  nodes'[g][i].startTime >= currentTime'
    <3>1. CASE g = f /\ i = k + 1
      BY <1>1, <1>2, <1>3, <1>5, <3>1
    <3>2. CASE g = f /\ i # k + 1
      <4>1. i \in 1 .. k
        BY <1>4, <1>5, <2>1, <3>2
      <4> QED BY <1>2, <1>5, <3>2, <4>1 DEF QueueInv, HeadsAhead
    <3>3. CASE g # f
      BY <1>2, <1>5, <3>3 DEF QueueInv, HeadsAhead
    <3> QED BY <3>1, <3>2, <3>3
  <2>2. ASSUME NEW g \in Flow, NEW i \in 1 .. Len(nodes'[g]),
               NEW j \in 1 .. Len(nodes'[g]), i <= j
        PROVE  nodes'[g][i].startTime <= nodes'[g][j].startTime
    <3>1. CASE g # f
      BY <1>5, <2>2, <3>1 DEF QueueInv, HeadsAhead
    <3>2. CASE g = f /\ j # k + 1
      <4>1. i \in 1 .. k /\ j \in 1 .. k
        BY <1>4, <1>5, <2>2, <3>2
      <4> QED BY <1>5, <2>2, <3>2, <4>1 DEF QueueInv, HeadsAhead
    <3>3. CASE g = f /\ j = k + 1 /\ i = k + 1
      BY <1>1, <1>3, <1>5, <3>3 DEF Tag
    <3>4. CASE g = f /\ j = k + 1 /\ i # k + 1
      <4>1. i \in 1 .. k /\ k \in 1 .. k /\ i <= k
        BY <1>4, <1>5, <2>2, <3>4
      <4>2. old[i].startTime <= old[k].startTime
        BY <4>1 DEF QueueInv, HeadsAhead
      <4>3. old[k].startTime <= start
        BY <1>1, <1>6, <4>1
      <4>4. old[i] \in Node /\ old[k] \in Node
        BY <1>4, <4>1
      <4>5. /\ old[i].startTime \in Int /\ old[k].startTime \in Int /\ start \in Int
        BY <1>1, <4>4 DEF Node, Tag
      <4>6. nodes'[g][i] = old[i] /\ nodes'[g][j].startTime = start
        BY <1>3, <1>5, <3>4, <4>1
      <4>7. old[i].startTime <= start
        BY <4>2, <4>3, <4>5
      <4> QED BY <4>6, <4>7
    <3> QED BY <3>1, <3>2, <3>3, <3>4
  <2> QED BY <2>1, <2>2 DEF HeadsAhead
<1>12. TagsBounded'
  <2> SUFFICES ASSUME NEW g \in Flow
               PROVE  IF nodes'[g] # <<>>
                      THEN nodes'[g][1].startTime <= Float(currentTime' + MaxService(g))
                      ELSE lastFinish'[g] <= currentTime' + MaxService(g)
    BY DEF TagsBounded, Waiting, HeadStart
  <2>1. CASE g # f
    BY <1>2, <1>5, <2>1 DEF QueueInv, TagsBounded, Waiting, HeadStart
  <2>2. CASE g = f
    <3>1. nodes'[f] # <<>>
      <4>1. Len(nodes'[f]) # 0 /\ Len(<<>>) = 0
        BY <1>4, <1>5
      <4> QED BY <4>1
    <3>2. CASE k = 0
      BY <1>1, <1>2, <1>3, <1>5, <1>6, <2>2, <3>1, <3>2
    <3>3. CASE k # 0
      <4>1. 1 \in 1 .. k
        BY <1>4, <3>3
      <4>2. old[1].startTime <= Float(currentTime + MaxService(f))
        BY <1>6, <3>3 DEF QueueInv, TagsBounded, HeadStart
      <4> QED BY <1>2, <1>5, <2>2, <3>1, <4>1, <4>2
    <3> QED BY <3>2, <3>3
  <2> QED BY <2>1, <2>2
<1> QED
  BY <1>7, <1>8, <1>9, <1>10, <1>11, <1>12 DEF QueueInv

\* dequeue keeps the invariant: the virtual time moves to the lowest of the
\* start tags, and what becomes the head was enqueued right after that buffer.
LEMMA DequeueStep ==
  ASSUME QueueInv, NEW min \in Flow, Dequeue(min), size # 0
  PROVE  QueueInv' /\ currentTime' >= currentTime
<1> DEFINE old == nodes[min]
           k   == Len(old)
<1>1. /\ IsMin(min)
      /\ currentTime' = Float(old[1].startTime)
      /\ nodes' = [nodes EXCEPT ![min] = Tail(old)]
      /\ size' = size - 1
      /\ lastFinish' = lastFinish
  BY DEF Dequeue, HeadStart
<1>2. /\ nodes \in [Flow -> Seq(Node)] /\ lastFinish \in [Flow -> Tag]
      /\ size \in 0 .. MAX_SIZE /\ currentTime \in 0 .. MaxTag /\ MaxTag \in Nat
      /\ old \in Seq(Node) /\ old # <<>> /\ k \in Nat \ {0}
      /\ Waiting(min)
  BY <1>1, QueueAssumption DEF QueueInv, QueueTypeOK, IsMin, Waiting, Tag
<1>3. \A g \in Flow : /\ nodes[g] \in Seq(Node) /\ Len(nodes[g]) \in Nat
                      /\ \A i \in 1 .. Len(nodes[g]) :
                           /\ nodes[g][i] \in Node
                           /\ nodes[g][i].startTime \in 0 .. MaxTag
                           /\ nodes[g][i].finishTime \in 0 .. MaxTag
  <2> SUFFICES ASSUME NEW g \in Flow
               PROVE  /\ nodes[g] \in Seq(Node) /\ Len(nodes[g]) \in Nat
                      /\ \A i \in 1 .. Len(nodes[g]) :
                           /\ nodes[g][i] \in Node
                           /\ nodes[g][i].startTime \in 0 .. MaxTag
                           /\ nodes[g][i].finishTime \in 0 .. MaxTag
    OBVIOUS
  <2>1. nodes[g] \in Seq(Node)
    BY <1>2
  <2>2. \A i \in 1 .. Len(nodes[g]) : nodes[g][i] \in Node
    BY <2>1
  <2>3. \A x \in Node : x.startTime \in 0 .. MaxTag /\ x.finishTime \in 0 .. MaxTag
    BY DEF Node, Tag
  <2> QED BY <2>1, <2>2, <2>3
<1>4. /\ nodes'[min] = Tail(old) /\ Len(nodes'[min]) = k - 1
      /\ \A i \in 1 .. (k - 1) : nodes'[min][i] = old[i + 1]
      /\ \A g \in Flow \ {min} : nodes'[g] = nodes[g]
  BY <1>1, <1>2
<1>5. /\ 1 \in 1 .. k
      /\ currentTime' = old[1].startTime
      /\ Float(currentTime') = currentTime'
      /\ currentTime' \in 0 .. MaxTag
      /\ currentTime' >= currentTime
  <2>1. 1 \in 1 .. k
    BY <1>2
  <2>2. Float(old[1].startTime) = old[1].startTime
    BY <2>1 DEF QueueInv, Stamped
  <2>3. old[1].startTime >= currentTime /\ old[1].startTime \in 0 .. MaxTag
    BY <1>3, <2>1 DEF QueueInv, HeadsAhead
  <2> QED BY <1>1, <2>1, <2>2, <2>3
<1>6. QueueTypeOK'
  <2>1. Tail(old) \in Seq(Node)
    BY <1>2
  <2>2. nodes' \in [Flow -> Seq(Node)]
    BY <1>1, <1>2, <2>1
  <2>3. size' \in 0 .. MAX_SIZE
    BY <1>1, <1>2, QueueAssumption
  <2> QED BY <1>1, <1>2, <1>5, <2>2, <2>3 DEF QueueTypeOK, Tag
<1>7. SizeIsCount'
  <2>1. Places' = Places \ {<<min, k>>} /\ <<min, k>> \in Places
    <3>1. 1 .. Len(nodes'[min]) = (1 .. k) \ {k} /\ k \in 1 .. k
      BY <1>2, <1>4
    <3>2. \A g \in Flow : \A i : i \in 1 .. Len(nodes'[g])
                               <=> i \in 1 .. Len(nodes[g]) /\ ~(g = min /\ i = k)
      BY <1>4, <3>1
    <3>3. \A p : p \in Places <=> \E g \in Flow : \E i \in 1 .. Len(nodes[g]) : p = <<g, i>>
      BY DEF Places
    <3>4. \A p : p \in Places' <=> \E g \in Flow : \E i \in 1 .. Len(nodes'[g]) : p = <<g, i>>
      BY DEF Places
    <3>5. <<min, k>> \in Places
      BY <3>1, <3>3
    <3>6. ASSUME NEW p PROVE p \in Places' <=> p \in Places /\ p # <<min, k>>
      BY <3>2, <3>3, <3>4
    <3> QED BY <3>5, <3>6
  <2>2. IsFiniteSet(Places) /\ size = Cardinality(Places)
    BY DEF QueueInv, SizeIsCount
  <2> QED BY <1>1, <2>1, <2>2, FS_RemoveElement DEF SizeIsCount
<1>8. Stamped'
  <2>1. ASSUME NEW g \in Flow, NEW i \in 1 .. Len(nodes'[g])
        PROVE  /\ Float(nodes'[g][i].startTime) = nodes'[g][i].startTime
               /\ nodes'[g][i].startTime <= nodes'[g][i].finishTime
               /\ nodes'[g][i].finishTime <= nodes'[g][i].startTime + MaxService(g)
    <3>1. CASE g = min
      <4>1. i \in 1 .. (k - 1) /\ i + 1 \in 1 .. k
        BY <1>2, <1>4, <3>1
      <4> QED BY <1>4, <3>1, <4>1 DEF QueueInv, Stamped
    <3>2. CASE g # min
      BY <1>4, <3>2 DEF QueueInv, Stamped
    <3> QED BY <3>1, <3>2
  <2> QED BY <1>5, <2>1 DEF Stamped
<1>9. Chained'
  <2> SUFFICES ASSUME NEW g \in Flow
               PROVE  /\ nodes'[g] # <<>> =>
                           lastFinish'[g] = nodes'[g][Len(nodes'[g])].finishTime
                      /\ \A i \in 1 .. Len(nodes'[g]) - 1 :
                           nodes'[g][i + 1].startTime = Float(nodes'[g][i].finishTime)
    BY DEF Chained, Waiting
  <2>1. CASE g # min
    BY <1>1, <1>4, <2>1 DEF QueueInv, Chained, Waiting
  <2>2. CASE g = min
    <3>1. ASSUME nodes'[min] # <<>>
          PROVE  lastFinish'[min] = nodes'[min][Len(nodes'[min])].finishTime
      <4>1. k - 1 \in 1 .. (k - 1) /\ k - 1 + 1 = k
        BY <1>2, <1>4, <3>1
      <4>2. nodes'[min][Len(nodes'[min])] = old[k]
        BY <1>4, <4>1
      <4> QED BY <1>1, <1>2, <4>2 DEF QueueInv, Chained
    <3>2. ASSUME NEW i \in 1 .. Len(nodes'[min]) - 1
          PROVE  nodes'[min][i + 1].startTime = Float(nodes'[min][i].finishTime)
      <4>1. /\ i \in 1 .. (k - 1) /\ i + 1 \in 1 .. (k - 1)
        BY <1>2, <1>4
      <4>2. old[i + 1 + 1].startTime = Float(old[i + 1].finishTime)
        BY <4>1 DEF QueueInv, Chained
      <4> QED BY <1>4, <4>1, <4>2
    <3> QED BY <2>2, <3>1, <3>2
  <2> QED BY <2>1, <2>2
<1>10. HeadsAhead'
  <2>1. ASSUME NEW g \in Flow, NEW i \in 1 .. Len(nodes[g])
        PROVE  nodes[g][i].startTime >= currentTime'
    <3>1. 1 \in 1 .. Len(nodes[g]) /\ 1 <= i /\ Waiting(g)
      BY <1>3, <2>1 DEF Waiting
    <3>2. nodes[g][1].startTime <= nodes[g][i].startTime
      BY <3>1 DEF QueueInv, HeadsAhead
    <3>3. old[1].startTime <= nodes[g][1].startTime
      BY <1>1, <1>3, <1>5, <3>1 DEF IsMin, Before, HeadStart
    <3> QED BY <1>3, <1>5, <2>1, <3>1, <3>2, <3>3
  <2>2. ASSUME NEW g \in Flow, NEW i \in 1 .. Len(nodes'[g])
        PROVE  nodes'[g][i].startTime >= currentTime'
    <3>1. CASE g = min
      <4>1. i \in 1 .. (k - 1) /\ i + 1 \in 1 .. k
        BY <1>2, <1>4, <3>1
      <4> QED BY <1>4, <2>1, <3>1, <4>1
    <3>2. CASE g # min
      BY <1>4, <2>1, <3>2
    <3> QED BY <3>1, <3>2
  <2>3. ASSUME NEW g \in Flow, NEW i \in 1 .. Len(nodes'[g]),
               NEW j \in 1 .. Len(nodes'[g]), i <= j
        PROVE  nodes'[g][i].startTime <= nodes'[g][j].startTime
    <3>1. CASE g = min
      <4>1. /\ i \in 1 .. (k - 1) /\ j \in 1 .. (k - 1)
            /\ i + 1 \in 1 .. k /\ j + 1 \in 1 .. k /\ i + 1 <= j + 1
        BY <1>2, <1>4, <2>3, <3>1
      <4>2. old[i + 1].startTime <= old[j + 1].startTime
        BY <4>1 DEF QueueInv, HeadsAhead
      <4> QED BY <1>4, <3>1, <4>1, <4>2
    <3>2. CASE g # min
      BY <1>4, <2>3, <3>2 DEF QueueInv, HeadsAhead
    <3> QED BY <3>1, <3>2
  <2> QED BY <2>2, <2>3 DEF HeadsAhead
<1>11. TagsBounded'
  <2> SUFFICES ASSUME NEW g \in Flow
               PROVE  IF nodes'[g] # <<>>
                      THEN nodes'[g][1].startTime <= Float(currentTime' + MaxService(g))
                      ELSE lastFinish'[g] <= currentTime' + MaxService(g)
    BY DEF TagsBounded, Waiting, HeadStart
  <2>1. MaxService(g) \in 0 .. MaxTag
    <3>1. MaxLen \in 1 .. MaxLen
      BY QueueAssumption
    <3> QED BY <3>1, ServiceBound
  <2>2. /\ currentTime + MaxService(g) \in 0 .. (2 * MaxTag)
        /\ currentTime' + MaxService(g) \in 0 .. (2 * MaxTag)
        /\ currentTime + MaxService(g) <= currentTime' + MaxService(g)
    BY <1>2, <1>5, <2>1
  <2>3. CASE g # min
    <3>1. nodes'[g] = nodes[g] /\ lastFinish'[g] = lastFinish[g]
      BY <1>1, <1>4, <2>3
    <3>2. CASE Waiting(g)
      <4>1. nodes[g][1].startTime <= Float(currentTime + MaxService(g))
        BY <3>2 DEF QueueInv, TagsBounded, HeadStart
      <4>2. /\ Float(currentTime + MaxService(g)) <= Float(currentTime' + MaxService(g))
            /\ Float(currentTime + MaxService(g)) \in Nat
            /\ Float(currentTime' + MaxService(g)) \in Nat
        BY <2>2, FloatFacts
      <4>3. nodes[g][1].startTime \in 0 .. MaxTag
        <5>1. 1 \in 1 .. Len(nodes[g])
          BY <1>3, <3>2 DEF Waiting
        <5> QED BY <1>3, <5>1
      <4>4. nodes[g][1].startTime <= Float(currentTime' + MaxService(g))
        BY <4>1, <4>2, <4>3
      <4> QED BY <3>1, <3>2, <4>4 DEF Waiting
    <3>3. CASE ~Waiting(g)
      <4>1. lastFinish[g] <= currentTime + MaxService(g) /\ lastFinish[g] \in 0 .. MaxTag
        BY <1>2, <3>3 DEF QueueInv, TagsBounded, Tag
      <4>2. lastFinish[g] <= currentTime' + MaxService(g)
        BY <2>2, <4>1
      <4> QED BY <3>1, <3>3, <4>2 DEF Waiting
    <3> QED BY <3>2, <3>3
  <2>4. CASE g = min
    <3>1. /\ old[1].finishTime <= currentTime' + MaxService(min)
          /\ old[1].finishTime \in 0 .. (2 * MaxTag)
      <4>1. old[1].finishTime <= old[1].startTime + MaxService(min)
        BY <1>5 DEF QueueInv, Stamped
      <4>2. old[1].finishTime \in 0 .. MaxTag
        BY <1>3, <1>5
      <4> QED BY <1>2, <1>5, <4>1, <4>2
    <3>2. CASE k = 1
      <4>1. nodes'[min] = <<>>
        <5>1. nodes'[min] \in Seq(Node)
          BY <1>2, <1>4
        <5>2. Len(nodes'[min]) = 0
          BY <1>4, <3>2
        <5>3. \A e \in Seq(Node) : Len(e) = 0 => e = <<>>
          OBVIOUS
        <5> HIDE DEF old, k
        <5> QED BY <5>1, <5>2, <5>3
      <4>2. lastFinish'[min] = old[1].finishTime
        BY <1>1, <1>2, <3>2 DEF QueueInv, Chained
      <4> QED BY <2>4, <3>1, <4>1, <4>2
    <3>3. CASE k # 1
      <4>1. 1 \in 1 .. (k - 1) /\ 1 + 1 = 2
        <5>1. k \in Nat \ {0} /\ k # 1
          BY <1>2, <3>3
        <5> HIDE DEF k
        <5> QED BY <5>1
      <4>2. nodes'[min] # <<>> /\ nodes'[min][1] = old[2]
        <5>1. Len(nodes'[min]) # 0 /\ Len(<<>>) = 0
          BY <1>2, <1>4, <3>3
        <5> QED BY <1>4, <4>1, <5>1
      <4>3. old[1 + 1].startTime = Float(old[1].finishTime)
        BY <4>1 DEF QueueInv, Chained
      <4>4. Float(old[1].finishTime) <= Float(currentTime' + MaxService(min))
        BY <2>2, <2>4, <3>1, FloatFacts
      <4> QED BY <2>4, <4>1, <4>2, <4>3, <4>4
    <3> QED BY <3>2, <3>3
  <2> QED BY <2>3, <2>4
<1> QED
  BY <1>5, <1>6, <1>7, <1>8, <1>9, <1>10, <1>11 DEF QueueInv

-----------------------------------------------------------------------------

\* Every operation of the queue keeps the invariant and the virtual time.
LEMMA QueueStep ==
  QueueInv /\ [QueueNext]_queueVars
    => QueueInv' /\ (currentTime' >= currentTime)
<1> SUFFICES ASSUME QueueInv, [QueueNext]_queueVars
             PROVE  QueueInv' /\ currentTime' >= currentTime
  OBVIOUS
<1>1. currentTime \in Int
  BY QueueAssumption DEF QueueInv, QueueTypeOK, Tag
<1>2. ASSUME UNCHANGED queueVars PROVE QueueInv' /\ currentTime' >= currentTime
  <2>1. QueueTypeOK' /\ SizeIsCount' /\ Stamped'
    BY <1>2 DEF queueVars, QueueInv, QueueTypeOK, SizeIsCount, Places, Stamped
  <2>2. Chained' /\ HeadsAhead' /\ TagsBounded'
    BY <1>2 DEF queueVars, QueueInv, Chained, HeadsAhead, TagsBounded, Waiting, HeadStart
  <2> QED BY <1>1, <1>2, <2>1, <2>2 DEF QueueInv, queueVars
<1>3. ASSUME NEW f \in Flow, NEW len \in 1 .. MaxLen, Enqueue(f, len)
      PROVE  QueueInv' /\ currentTime' >= currentTime
  <2>1. CASE queueFull
    BY <1>2, <1>3, <2>1 DEF Enqueue
  <2>2. CASE ~queueFull
    <3>1. QueueInv'
      BY <1>3, <2>2, EnqueueStep
    <3>2. currentTime' = currentTime
      BY <1>3, <2>2 DEF Enqueue
    <3> QED BY <1>1, <3>1, <3>2
  <2> QED BY <2>1, <2>2
<1>4. ASSUME NEW id \in Flow \cup {-1}, Dequeue(id)
      PROVE  QueueInv' /\ currentTime' >= currentTime
  <2>1. CASE size = 0
    BY <1>2, <1>4, <2>1 DEF Dequeue
  <2>2. CASE size # 0
    <3>1. id \in Flow
      BY <1>4, <2>2 DEF Dequeue, IsMin
    <3> QED BY <1>4, <2>2, <3>1, DequeueStep
  <2> QED BY <2>1, <2>2
<1> QED
  BY <1>2, <1>3, <1>4 DEF QueueNext

\* Every reachable state of the queue satisfies the inductive invariant.
THEOREM QueueInvariance == QueueSpec => []QueueInv
  BY InitQueueInv, QueueStep, PTL DEF QueueSpec

\* The types: no tag passes MaxTag, and the count stays within the capacity.
THEOREM QueueTypeCorrect == QueueSpec => []QueueTypeOK
<1>1. QueueInv => QueueTypeOK
  BY DEF QueueInv
<1> QED
  BY <1>1, QueueInvariance, PTL

\* The count is the number of queued buffers.
THEOREM SizeCounts == QueueSpec => []SizeIsCount
<1>1. QueueInv => SizeIsCount
  BY DEF QueueInv
<1> QED
  BY <1>1, QueueInvariance, PTL

\* No queued buffer is before the virtual time; each flow is in tag order.
THEOREM TagsInOrder == QueueSpec => []HeadsAhead
<1>1. QueueInv => HeadsAhead
  BY DEF QueueInv
<1> QED
  BY <1>1, QueueInvariance, PTL

\* Tags near each other round to floats in the same order.
LEMMA RoundedSum ==
  ASSUME NEW x \in 0 .. MaxTag, NEW y \in 0 .. MaxTag, NEW f \in Flow, x <= y + MaxService(f)
  PROVE  Float(x) <= Float(y + MaxService(f))
<1>1. MaxService(f) \in 0 .. MaxTag /\ MaxTag \in Nat
  <2>1. MaxLen \in 1 .. MaxLen /\ MaxTag \in Nat
    BY QueueAssumption
  <2> QED BY <2>1, ServiceBound
<1>2. x \in 0 .. (2 * MaxTag) /\ y + MaxService(f) \in 0 .. (2 * MaxTag)
  BY <1>1
<1> QED
  BY <1>2, FloatFacts

\* No flow stores up debt: a waiting flow's oldest buffer is at most one service
\* of its own behind the virtual time, and what a flow asks for next is at most
\* that behind its last queued buffer, or the virtual time.
THEOREM LagBounded == QueueSpec => []BoundedLag
<1>1. QueueInv => BoundedLag
  <2> SUFFICES ASSUME QueueInv, NEW f \in Flow
               PROVE  IF Waiting(f)
                      THEN /\ HeadStart(f) <= Float(currentTime + MaxService(f))
                           /\ StartTag(f)
                                <= Float(nodes[f][Len(nodes[f])].startTime + MaxService(f))
                      ELSE StartTag(f) <= Float(currentTime + MaxService(f))
    BY DEF BoundedLag
  <2>1. currentTime \in 0 .. MaxTag /\ lastFinish[f] \in 0 .. MaxTag
    BY DEF QueueInv, QueueTypeOK, Tag
  <2>2. MaxService(f) \in Nat
    <3>1. MaxLen \in 1 .. MaxLen
      BY QueueAssumption
    <3> QED BY <3>1, ServiceBound
  <2>3. CASE Waiting(f)
    <3> DEFINE last == nodes[f][Len(nodes[f])]
    <3>1. Len(nodes[f]) \in 1 .. Len(nodes[f]) /\ nodes[f] \in Seq(Node)
      BY <2>3 DEF QueueInv, QueueTypeOK, Waiting
    <3>2. last \in Node
      BY <3>1
    <3>3. last.startTime \in 0 .. MaxTag /\ last.finishTime \in 0 .. MaxTag
      BY <3>2 DEF Node, Tag
    <3>4. /\ last.startTime >= currentTime /\ last.startTime <= last.finishTime
          /\ last.finishTime <= last.startTime + MaxService(f)
      BY <3>1 DEF QueueInv, Stamped, HeadsAhead
    <3>5. TailFinish(f) = last.finishTime
      BY <2>3 DEF TailFinish
    <3> HIDE DEF last
    <3>6. PICK x \in 0 .. MaxTag : StartTag(f) = Float(x) /\ x <= last.startTime + MaxService(f)
      <4>1. CASE last.finishTime > currentTime
        BY <3>3, <3>4, <3>5, <4>1 DEF StartTag
      <4>2. CASE ~(last.finishTime > currentTime)
        <5>1. currentTime <= last.startTime + MaxService(f)
          BY <2>1, <2>2, <3>3, <3>4
        <5> QED BY <2>1, <3>5, <4>2, <5>1 DEF StartTag
      <4> QED BY <4>1, <4>2
    <3>7. StartTag(f) <= Float(last.startTime + MaxService(f))
      BY <3>3, <3>6, RoundedSum
    <3>8. HeadStart(f) <= Float(currentTime + MaxService(f))
      BY <2>3 DEF QueueInv, TagsBounded
    <3> QED BY <2>3, <3>7, <3>8 DEF last
  <2>4. CASE ~Waiting(f)
    <3>1. lastFinish[f] <= currentTime + MaxService(f) /\ TailFinish(f) = lastFinish[f]
      BY <2>4 DEF QueueInv, TagsBounded, TailFinish
    <3>2. PICK x \in 0 .. MaxTag : StartTag(f) = Float(x) /\ x <= currentTime + MaxService(f)
      <4>1. CASE lastFinish[f] > currentTime
        BY <2>1, <3>1, <4>1 DEF StartTag
      <4>2. CASE ~(lastFinish[f] > currentTime)
        <5>1. currentTime <= currentTime + MaxService(f)
          BY <2>1, <2>2
        <5> QED BY <2>1, <3>1, <4>2, <5>1 DEF StartTag
      <4> QED BY <4>1, <4>2
    <3>3. StartTag(f) <= Float(currentTime + MaxService(f))
      BY <2>1, <3>2, RoundedSum
    <3> QED BY <2>4, <3>3
  <2> QED BY <2>3, <2>4
<1> QED
  BY <1>1, QueueInvariance, PTL

\* When the count is not zero, some list has a head.
LEMMA SomeoneWaits ==
  ASSUME QueueInv, size # 0 PROVE \E f \in Flow : Waiting(f)
<1> SUFFICES ASSUME \A f \in Flow : ~Waiting(f) PROVE FALSE
  OBVIOUS
<1>1. \A f \in Flow : Len(nodes[f]) = 0
  BY DEF Waiting
<1>2. Places = {}
  BY <1>1 DEF Places
<1> QED BY <1>2, FS_EmptySet DEF QueueInv, SizeIsCount

\* The assertion in dequeue: when the count is not zero, some list has a head.
THEOREM DequeueFinds == QueueSpec => [](size # 0 => \E f \in Flow : Waiting(f))
<1>1. QueueInv => (size # 0 => \E f \in Flow : Waiting(f))
  BY SomeoneWaits
<1> QED
  BY <1>1, QueueInvariance, PTL

\* The virtual time never goes back.
THEOREM TimeAdvances == QueueSpec => VirtualTimeAdvances
<1>1. QueueInv /\ [QueueNext]_queueVars => [currentTime' >= currentTime]_queueVars
  BY QueueStep
<1> QED
  BY <1>1, QueueInvariance, PTL DEF QueueSpec, VirtualTimeAdvances

\* The fairness of the queue: of two waiting flows neither is behind the other
\* by more than the service of one buffer of its own.
THEOREM FairnessKept == QueueSpec => []FairTags
<1>1. QueueInv => FairTags
  <2> SUFFICES ASSUME QueueInv, NEW f \in Flow, NEW g \in Flow, Waiting(f), Waiting(g)
               PROVE  HeadStart(f) <= Float(HeadStart(g) + MaxService(f))
    BY DEF FairTags
  <2>1. /\ nodes[f] \in Seq(Node) /\ nodes[f] # <<>>
        /\ nodes[g] \in Seq(Node) /\ nodes[g] # <<>>
    BY DEF QueueInv, QueueTypeOK, Waiting
  <2>2. 1 \in 1 .. Len(nodes[f]) /\ 1 \in 1 .. Len(nodes[g])
    BY <2>1
  <2>3. HeadStart(f) \in 0 .. MaxTag /\ HeadStart(g) \in 0 .. MaxTag
    <3>1. nodes[f][1] \in Node /\ nodes[g][1] \in Node
      BY <2>1, <2>2
    <3> QED BY <3>1 DEF HeadStart, Node, Tag
  <2>4. /\ currentTime <= HeadStart(g) /\ currentTime \in 0 .. MaxTag
        /\ HeadStart(f) <= Float(currentTime + MaxService(f))
    BY <2>2 DEF QueueInv, QueueTypeOK, HeadsAhead, TagsBounded, HeadStart, Tag
  <2>5. MaxService(f) \in 0 .. MaxTag /\ MaxTag \in Nat
    <3>1. MaxLen \in 1 .. MaxLen /\ MaxTag \in Nat
      BY QueueAssumption
    <3> QED BY <3>1, ServiceBound
  <2>6. /\ currentTime + MaxService(f) \in 0 .. (2 * MaxTag)
        /\ HeadStart(g) + MaxService(f) \in 0 .. (2 * MaxTag)
        /\ currentTime + MaxService(f) <= HeadStart(g) + MaxService(f)
    BY <2>3, <2>4, <2>5
  <2>7. /\ Float(currentTime + MaxService(f)) <= Float(HeadStart(g) + MaxService(f))
        /\ Float(currentTime + MaxService(f)) \in Nat
        /\ Float(HeadStart(g) + MaxService(f)) \in Nat
    BY <2>6, FloatFacts
  <2> QED BY <2>3, <2>4, <2>7
<1> QED
  BY <1>1, QueueInvariance, PTL
-----------------------------------------------------------------------------

\* Of the slots 0 .. i, f is the one dequeue picks.
FirstOf(f, i) ==
  /\ f \in 0 .. i /\ Waiting(f)
  /\ \A g \in 0 .. i : Waiting(g) => Before(f, g)

\* Heads of waiting flows are compared as integers.
LEMMA HeadIsInt ==
  ASSUME QueueInv, NEW f \in Flow, Waiting(f)
  PROVE  HeadStart(f) \in Int
<1>1. nodes[f] \in Seq(Node) /\ nodes[f] # <<>>
  BY DEF QueueInv, QueueTypeOK, Waiting
<1>2. nodes[f][1] \in Node
  BY <1>1
<1>3. \A x \in Node : x.startTime \in Int
  BY QueueAssumption DEF Node, Tag
<1> QED
  BY <1>2, <1>3 DEF HeadStart

\* One turn of the loop: if min is the pick of the slots before i, what the
\* turn leaves is the pick of the slots up to i.
LEMMA ScanTurn ==
  ASSUME QueueInv, NEW i \in Flow, i # 0, NEW min \in 0 .. (i - 1),
         IF \E f \in 0 .. (i - 1) : Waiting(f) THEN FirstOf(min, i - 1) ELSE TRUE
  PROVE  IF \E f \in 0 .. i : Waiting(f)
         THEN FirstOf(IF ~Waiting(min) THEN i ELSE IF Lower(i, min) THEN i ELSE min, i)
         ELSE (IF ~Waiting(min) THEN i ELSE IF Lower(i, min) THEN i ELSE min) = i
<1>1. /\ i \in Nat /\ 0 .. i = (0 .. (i - 1)) \cup {i} /\ 0 .. i \subseteq Flow
      /\ \A f \in 0 .. (i - 1) : f < i /\ f \in Flow /\ f \in Int
  BY QueueAssumption DEF Flow
<1>2. CASE \E f \in 0 .. (i - 1) : Waiting(f)
  <2>1. Waiting(min) /\ \A g \in 0 .. (i - 1) : Waiting(g) => Before(min, g)
    BY <1>2 DEF FirstOf
  <2>2. HeadStart(min) \in Int
    BY <1>1, <2>1, HeadIsInt
  <2>3. CASE Lower(i, min)
    <3>1. Waiting(i) /\ HeadStart(min) > HeadStart(i) /\ HeadStart(i) \in Int
      BY <2>3, HeadIsInt DEF Lower
    <3>2. ASSUME NEW g \in 0 .. (i - 1), Waiting(g) PROVE Before(i, g)
      <4>1. Before(min, g) /\ HeadStart(g) \in Int
        BY <1>1, <2>1, <3>2, HeadIsInt
      <4> QED BY <2>2, <3>1, <4>1 DEF Before
    <3>3. Before(i, i)
      BY <1>1 DEF Before
    <3>4. FirstOf(i, i)
      BY <1>1, <3>1, <3>2, <3>3 DEF FirstOf
    <3> QED BY <2>1, <2>3, <3>1, <3>4, <1>1
  <2>4. CASE ~Lower(i, min)
    <3>1. Waiting(i) => Before(min, i)
      <4> SUFFICES ASSUME Waiting(i) PROVE Before(min, i)
        OBVIOUS
      <4>1. HeadStart(i) \in Int
        BY HeadIsInt
      <4> QED BY <1>1, <2>2, <2>4, <4>1 DEF Before, Lower
    <3>2. FirstOf(min, i)
      BY <1>1, <2>1, <3>1 DEF FirstOf
    <3> QED BY <1>1, <1>2, <2>1, <2>4, <3>2
  <2> QED BY <2>3, <2>4
<1>3. CASE ~\E f \in 0 .. (i - 1) : Waiting(f)
  <2>1. ~Waiting(min)
    BY <1>3
  <2>2. CASE Waiting(i)
    <3>1. Before(i, i)
      BY <1>1 DEF Before
    <3>2. FirstOf(i, i)
      BY <1>1, <1>3, <2>2, <3>1 DEF FirstOf
    <3> QED BY <1>1, <2>1, <2>2, <3>2
  <2>3. CASE ~Waiting(i)
    BY <1>1, <1>3, <2>1, <2>3
  <2> QED BY <2>2, <2>3
<1> QED
  BY <1>2, <1>3

\* Two picks of the same slots are the same slot.
LEMMA FirstIsUnique ==
  ASSUME QueueInv, NEW i \in Flow, NEW f, NEW g, FirstOf(f, i), FirstOf(g, i)
  PROVE  f = g
<1>1. f \in 0 .. i /\ g \in 0 .. i /\ Waiting(f) /\ Waiting(g) /\ Before(f, g) /\ Before(g, f)
  BY DEF FirstOf
<1>2. f \in Flow /\ g \in Flow /\ f \in Int /\ g \in Int
  BY <1>1, QueueAssumption DEF Flow
<1>3. HeadStart(f) \in Int /\ HeadStart(g) \in Int
  BY <1>1, <1>2, HeadIsInt
<1> QED
  BY <1>1, <1>2, <1>3 DEF Before

\* What the loop of dequeue computes, without the loop.
Pick(i) ==
  IF \E f \in 0 .. i : Waiting(f) THEN CHOOSE f \in 0 .. i : FirstOf(f, i) ELSE i

\* Some slot is the pick whenever one of the slots has a buffer.
LEMMA PickExists ==
  ASSUME QueueInv
  PROVE  \A i \in Flow : (\E f \in 0 .. i : Waiting(f)) => \E f \in 0 .. i : FirstOf(f, i)
<1> DEFINE Good(i) == (\E f \in 0 .. i : Waiting(f)) => \E f \in 0 .. i : FirstOf(f, i)
           Bad == {i \in Flow : ~Good(i)}
<1> SUFFICES ASSUME Bad # {} PROVE FALSE
  OBVIOUS
<1>1. Bad \subseteq Nat
  BY DEF Flow
<1>2. PICK i \in Bad : \A j \in Bad : i <= j
  BY <1>1, LeastNat
<1>3. i \in Flow /\ i \in Nat /\ ~Good(i)
  BY <1>1, <1>2
<1>4. CASE i = 0
  <2>1. 0 .. i = {0} /\ Waiting(0)
    BY <1>3, <1>4
  <2>2. Before(0, 0)
    BY DEF Before
  <2>3. FirstOf(0, i)
    BY <2>1, <2>2 DEF FirstOf
  <2> QED BY <1>3, <2>1, <2>3
<1>5. CASE i # 0
  <2>1. i - 1 \in Flow /\ i - 1 < i /\ i - 1 \in Nat /\ i - 1 \in 0 .. (i - 1)
    BY <1>3, <1>5, QueueAssumption DEF Flow
  <2>2. Good(i - 1)
    BY <1>2, <1>3, <2>1
  <2>3. PICK min \in 0 .. (i - 1) :
          IF \E f \in 0 .. (i - 1) : Waiting(f) THEN FirstOf(min, i - 1) ELSE TRUE
    BY <2>1, <2>2
  <2>4. \E m : FirstOf(m, i)
    BY <1>3, <1>5, <2>3, ScanTurn
  <2> QED BY <1>3, <2>4 DEF FirstOf
<1> QED
  BY <1>4, <1>5

\* The loop computes the pick at every slot.
LEMMA ScanIsPick ==
  ASSUME QueueInv
  PROVE  \A i \in Flow : ScanMin[i] = Pick(i)
<1> DEFINE Turn(m, i) == IF ~Waiting(m) THEN i ELSE IF Lower(i, m) THEN i ELSE m
           Body(g) == [i \in Flow |-> IF i = 0 THEN 0 ELSE Turn(g[i - 1], i)]
           Picks == [i \in Flow |-> Pick(i)]
<1>1. ASSUME NEW i \in Flow
      PROVE  /\ Pick(i) \in 0 .. i
             /\ IF \E f \in 0 .. i : Waiting(f) THEN FirstOf(Pick(i), i) ELSE Pick(i) = i
  <2>1. CASE \E f \in 0 .. i : Waiting(f)
    <3>1. \E f \in 0 .. i : FirstOf(f, i)
      BY <2>1, PickExists
    <3>2. Pick(i) = CHOOSE f \in 0 .. i : FirstOf(f, i)
      BY <2>1 DEF Pick
    <3> QED BY <2>1, <3>1, <3>2
  <2>2. CASE ~\E f \in 0 .. i : Waiting(f)
    <3>1. Pick(i) = i /\ i \in 0 .. i
      BY <2>2 DEF Pick, Flow
    <3> QED BY <2>2, <3>1
  <2> QED BY <2>1, <2>2
<1>2. 0 \in Flow => Pick(0) = 0
  BY <1>1
<1>3. ASSUME NEW i \in Flow, i # 0 PROVE i - 1 \in Flow /\ Pick(i) = Turn(Pick(i - 1), i)
  <2>1. i - 1 \in Flow
    BY <1>3, QueueAssumption DEF Flow
  <2>2. /\ Pick(i - 1) \in 0 .. (i - 1)
        /\ IF \E f \in 0 .. (i - 1) : Waiting(f) THEN FirstOf(Pick(i - 1), i - 1) ELSE TRUE
    BY <1>1, <2>1
  <2>3. IF \E f \in 0 .. i : Waiting(f)
        THEN FirstOf(Turn(Pick(i - 1), i), i) ELSE Turn(Pick(i - 1), i) = i
    BY <1>3, <2>2, ScanTurn
  <2> HIDE DEF Turn
  <2> QED BY <1>1, <2>1, <2>3, FirstIsUnique
<1>4. Picks = Body(Picks)
  <2> HIDE DEF Turn
  <2>1. ASSUME NEW i \in Flow PROVE Pick(i) = IF i = 0 THEN 0 ELSE Turn(Picks[i - 1], i)
    BY <1>2, <1>3, <2>1
  <2> QED BY <2>1
<1>5. ScanMin = CHOOSE g : g = Body(g)
  BY DEF ScanMin
<1>6. ScanMin = Body(ScanMin)
  <2> HIDE DEF Body, Picks
  <2> QED BY <1>4, <1>5
<1> DEFINE Bad == {i \in Flow : ScanMin[i] # Pick(i)}
<1> SUFFICES ASSUME Bad # {} PROVE FALSE
  OBVIOUS
<1>7. PICK i \in Bad : \A j \in Bad : i <= j
  <2>1. Bad \subseteq Nat
    BY DEF Flow
  <2> QED BY <2>1, LeastNat
<1>8. i \in Flow /\ i \in Nat /\ ScanMin[i] # Pick(i)
  BY <1>7 DEF Flow
<1>9. ScanMin[i] = IF i = 0 THEN 0 ELSE Turn(ScanMin[i - 1], i)
  <2> HIDE DEF Turn
  <2> QED BY <1>6, <1>8
<1>10. i # 0
  BY <1>2, <1>8, <1>9
<1>11. i - 1 \in Flow /\ ScanMin[i - 1] = Pick(i - 1)
  BY <1>3, <1>7, <1>8, <1>10
<1> QED
  BY <1>3, <1>8, <1>9, <1>10, <1>11

\* The loop of dequeue finds the lowest start tag, the first slot among equals.
THEOREM ScanCorrect == QueueSpec => []ScanFindsMin
<1>1. QueueInv => ScanFindsMin
  <2> SUFFICES ASSUME QueueInv, size # 0 PROVE IsMin(ScanMin[NFlows - 1])
    BY DEF ScanFindsMin
  <2>1. NFlows - 1 \in Flow /\ 0 .. (NFlows - 1) = Flow
    BY QueueAssumption DEF Flow
  <2>2. \E f \in 0 .. (NFlows - 1) : Waiting(f)
    BY <2>1, SomeoneWaits
  <2>3. FirstOf(Pick(NFlows - 1), NFlows - 1)
    <3>1. \E f \in 0 .. (NFlows - 1) : FirstOf(f, NFlows - 1)
      BY <2>1, <2>2, PickExists
    <3>2. Pick(NFlows - 1) = CHOOSE f \in 0 .. (NFlows - 1) : FirstOf(f, NFlows - 1)
      BY <2>2 DEF Pick
    <3> QED BY <3>1, <3>2
  <2>4. ScanMin[NFlows - 1] = Pick(NFlows - 1)
    BY <2>1, ScanIsPick
  <2> QED BY <2>1, <2>3, <2>4 DEF FirstOf, IsMin
<1> QED
  BY <1>1, QueueInvariance, PTL

-----------------------------------------------------------------------------
(***************************************************************************)
(* The scheduler around the queue: its constants.                          *)
(***************************************************************************)

\* The constants, and the cost of a buffer, which fits an int.
LEMMA ConstantTypes ==
  /\ BootMS \in Nat \ {0}
  /\ BUF_SIZE \in Nat \ {0} /\ BytesToBlast \in Nat
  /\ BUF_SIZE \in 1 .. MaxLen
  /\ MsPerSec \in Nat \ {0} /\ maxBytes \in Nat \ {0}
  /\ INT_MAX \in Nat
  /\ FlowOf \in [Thread -> Flow] /\ IsFiniteSet(Thread)
  /\ -1 \notin Flow
  /\ Cost \in Nat \ {0}
  /\ Int32(MsPerSec * BUF_SIZE) = Cost
<1>1. /\ BootMS \in Nat \ {0}
      /\ BUF_SIZE \in Nat \ {0} /\ BytesToBlast \in Nat
      /\ MsPerSec \in Nat \ {0} /\ maxBytes \in Nat \ {0}
      /\ INT_MAX \in Nat /\ MsPerSec * BUF_SIZE <= INT_MAX
      /\ FlowOf \in [Thread -> Flow] /\ IsFiniteSet(Thread) /\ BUF_SIZE = MaxLen
  BY BootAssumption, BlastAssumption, SchedAssumption, IntMaxAssumption
<1>2. \A a, b \in Nat \ {0} : a * b \in Nat \ {0}
  BY SMT
<1>3. Cost \in Nat \ {0}
  BY <1>1, <1>2 DEF Cost
<1>4. Int32(MsPerSec * BUF_SIZE) = Cost
  <2>1. Cost \in Int /\ -INT_MAX - 1 <= Cost /\ Cost <= INT_MAX
    BY <1>1, <1>3 DEF Cost
  <2> QED BY <2>1, FitsInt DEF Cost
<1>5. -1 \notin Flow
  BY QueueAssumption DEF Flow
<1>6. BUF_SIZE \in 1 .. MaxLen
  BY <1>1
<1> QED BY <1>1, <1>3, <1>4, <1>5, <1>6

-----------------------------------------------------------------------------
(***************************************************************************)
(* The scheduler uses its queue within its interface, so that all that is  *)
(* proved of the queue alone holds in the scheduler too.                   *)
(***************************************************************************)

\* Each step is a step of the queue, or leaves it alone.
LEMMA UsesQueue == [Next]_vars => [QueueNext]_queueVars
<1> SUFFICES ASSUME [Next]_vars PROVE [QueueNext]_queueVars
  OBVIOUS
<1>1. ASSUME NEW t \in Thread, Arrive(t) PROVE QueueNext
  <2>1. FlowOf[t] \in Flow /\ BUF_SIZE \in 1 .. MaxLen
    BY ConstantTypes
  <2> QED BY <1>1, <2>1 DEF Arrive, QueueNext
<1>2. ASSUME SignalNextDeadline PROVE QueueNext
  BY <1>2 DEF SignalNextDeadline, QueueNext
<1> QED BY <1>1, <1>2
     DEF Next, Work, AlarmThread, Sender, WaitMyTurn, WaitFull, Return, WaitDeadline,
         SpuriousAlarm, Sleep, Write, WriteError, Spurious, Clock, vars

\* STFQNWScheduler.cc calls the fair queue as STFQueue models it: one call at a
\* time, for flows and lengths it was built for.
THEOREM QueueWithinInterface == Spec => QueueSpec
<1>1. Init => QueueInit
  BY DEF Init
<1> QED BY <1>1, UsesQueue, PTL DEF Spec, QueueSpec

\* The fairness of the queue, in the scheduler: among the flows with queued
\* tickets none is further behind another than one buffer of its own.
THEOREM FairShares == Spec => []FairTags
BY QueueWithinInterface, FairnessKept, PTL

\* An empty count means empty lists.
LEMMA EmptyLists ==
  ASSUME QueueInv, size = 0, NEW f \in Flow
  PROVE  Len(nodes[f]) = 0
<1>1. Places = {}
  BY FS_EmptySet DEF QueueInv, SizeIsCount
<1>2. Len(nodes[f]) \in Nat
  BY DEF QueueInv, QueueTypeOK
<1>3. SUFFICES ASSUME Len(nodes[f]) # 0 PROVE FALSE
  OBVIOUS
<1>4. <<f, 1>> \in Places
  <2>1. 1 \in 1 .. Len(nodes[f])
    BY <1>2, <1>3
  <2>2. <<f, 1>> \in {f} \X (1 .. Len(nodes[f]))
    BY <2>1
  <2> QED BY <2>2 DEF Places
<1> QED BY <1>1, <1>4

-----------------------------------------------------------------------------
(***************************************************************************)
(* The inductive invariant.                                                *)
(***************************************************************************)

\* Bytes that have been turned into deadlines, times MsPerSec.
Charged == MsPerSec * granted - (IF bytesToSend > 0 THEN bytesToSend ELSE 0)

\* The deadline is ahead of what has been charged (never behind it by more than
\* the fraction in runOff, and by the one unit the first call takes off), and
\* the alarm thread does not charge again before the deadline has passed.
ChargedInTime ==
  /\ deadline = 0 => Charged = 0 /\ runOff = 0 /\ bytesToSend = -1
  /\ deadline # 0 => /\ bytesToSend # -1
                     /\ Charged <= Capacity(BootMS + 1, deadline) + runOff + 1
  /\ alarm # "sleep" => deadline <= now
  /\ Charged <= Capacity(BootMS, now) + Cost

\* A turn is named only when the last one has been taken and paid for, and a
\* free link with no turn named means an empty queue.
TurnInv ==
  /\ bytesToSend # 0 => nextId = -1
  /\ canSafelySend /\ nextId = -1 => size = 0

SchedInv == TypeOK /\ NoLostWakeup /\ TurnInv /\ TicketsCoverWaiters /\ ChargedInTime

\* Over the whole run the bytes granted exceed the rate by two buffers at most.
LongRunRate == MsPerSec * granted <= Capacity(BootMS, now) + 2 * Cost

-----------------------------------------------------------------------------

\* Capacity is an integer, zero over no time, and no less over more.
LEMMA CapacityType ==
  ASSUME NEW a \in Int, NEW b \in Int
  PROVE  /\ Capacity(a, b) \in Int
         /\ a <= b => Capacity(a, b) >= 0
         /\ Capacity(a, a) = 0
         /\ Capacity(a, a + 1) = maxBytes
<1>1. maxBytes \in Nat
  BY ConstantTypes
<1>2. \A d \in Int, m \in Nat : d * m \in Int /\ (d >= 0 => d * m >= 0)
  BY SMT
<1>3. b - a \in Int /\ (a <= b => b - a >= 0) /\ a - a = 0 /\ a + 1 - a = 1
  OBVIOUS
<1> QED BY <1>1, <1>2, <1>3 DEF Capacity

\* Capacity is additive.
LEMMA CapacityAdds ==
  ASSUME NEW a \in Int, NEW b \in Int, NEW c \in Int
  PROVE  Capacity(a, b) + Capacity(b, c) = Capacity(a, c)
<1>1. maxBytes \in Nat
  BY ConstantTypes
<1> QED BY <1>1 DEF Capacity

\* The alarm thread's charge, on the accounts.  The first call of all charges
\* nothing and puts -1 in runOff; each later one moves the deadline by the cost
\* of the buffer, to the fraction kept in runOff, or by a millisecond more.
LEMMA DeadlineStep ==
  ASSUME TypeOK, ChargedInTime, SignalNextDeadline
  PROVE  /\ deadline' \in Nat /\ deadline' # 0
         /\ deadline' >= NextDL
         /\ runOff' \in -1 .. (maxBytes - 1)
         /\ bytesToSend' = 0
         /\ deadline = 0 => deadline' = now + 1 /\ runOff' = -1
         /\ deadline # 0 =>
              /\ bytesToSend = Cost
              /\ Cost + runOff <= Capacity(deadline, deadline') + runOff'
<1>0. maxBytes \in Nat \ {0} /\ Cost \in Nat \ {0} /\ BootMS \in Nat \ {0} /\ INT_MAX \in Nat
  BY ConstantTypes
<1>1. NextDL \in Nat \ {0} /\ runOff \in -1 .. (maxBytes - 1)
  BY <1>0 DEF TypeOK, NextDL
<1>2. bytesToSend \in {-1, Cost} /\ bytesToSend' = 0
  BY DEF TypeOK, SignalNextDeadline
<1> DEFINE r == CalRunOff(bytesToSend, maxBytes, NextDL, runOff, 2)
<1>3. deadline' = r.time /\ runOff' = r.runOff
  BY DEF SignalNextDeadline
<1>4. CASE deadline = 0
  <2>1. bytesToSend = -1 /\ runOff = 0 /\ NextDL = now + 1
    BY <1>4 DEF ChargedInTime, NextDL
  <2>2. WholeMs(bytesToSend, maxBytes) = 0 /\ Rest(bytesToSend, maxBytes) = -1
    BY <1>0, <2>1 DEF WholeMs, Rest
  <2>3. Int32(runOff + Rest(bytesToSend, maxBytes)) = -1
    BY <1>0, <2>1, <2>2, FitsInt
  <2>4. r.time = NextDL /\ r.runOff = -1
    BY <1>0, <1>1, <2>2, <2>3 DEF CalRunOff
  <2> QED BY <1>0, <1>1, <1>2, <1>3, <1>4, <2>1, <2>4
<1>5. CASE deadline # 0
  <2>1. bytesToSend = Cost /\ NextDL = deadline
    BY <1>2, <1>5 DEF ChargedInTime, NextDL
  <2>2. 2 * maxBytes - 2 <= INT_MAX /\ 2 \in Nat \ {0} /\ 2 - 1 = 1 /\ bytesToSend \in Nat
    BY <1>0, <2>1, SchedAssumption
  <2>3. /\ r.time \in Nat
        /\ r.time >= NextDL
        /\ r.runOff \in -1 .. (maxBytes - 1)
        /\ \/ Charges(bytesToSend, maxBytes, NextDL, runOff, r, 0)
           \/ Charges(bytesToSend, maxBytes, NextDL, runOff, r, 1)
    BY <1>0, <1>1, <2>2, CalRunOffExact
  <2> HIDE DEF r
  <2> DEFINE d == r.time - NextDL
  <2>4. d \in Int /\ d * maxBytes \in Int /\ (d - 1) * maxBytes = d * maxBytes - maxBytes
    BY <1>0, <1>1, <2>3
  <2>5. d - 0 = d
    BY <2>4
  <2>6. \/ bytesToSend + runOff = d * maxBytes + r.runOff
        \/ bytesToSend + runOff = (d * maxBytes - maxBytes) + r.runOff
    BY <2>3, <2>4, <2>5 DEF Charges
  <2>7. Capacity(deadline, r.time) = d * maxBytes
    BY <2>1 DEF Capacity
  <2> HIDE DEF d
  <2>8. Cost + runOff <= Capacity(deadline, r.time) + r.runOff
    <3> DEFINE p == d * maxBytes
    <3>1. p \in Int /\ r.runOff \in Int /\ runOff \in Int
      BY <1>0, <1>1, <2>3, <2>4
    <3>2. \/ Cost + runOff = p + r.runOff
          \/ Cost + runOff = (p - maxBytes) + r.runOff
      BY <2>1, <2>6
    <3> HIDE DEF p
    <3>3. Cost + runOff <= p + r.runOff
      BY <1>0, <3>1, <3>2
    <3> QED BY <2>7, <3>3 DEF p
  <2> QED BY <1>0, <1>1, <1>2, <1>3, <1>5, <2>1, <2>3, <2>8
<1> QED BY <1>4, <1>5

-----------------------------------------------------------------------------
(***************************************************************************)
(* Types, wakeups, turns.                                                  *)
(***************************************************************************)

\* The types in the state after a step.
LEMMA TypeStep == TypeOK /\ ChargedInTime /\ QueueInv' /\ [Next]_vars => TypeOK'
<1> SUFFICES ASSUME TypeOK, ChargedInTime, QueueInv', [Next]_vars PROVE TypeOK'
  OBVIOUS
<1>0. /\ BootMS \in Nat /\ BUF_SIZE \in Nat /\ maxBytes \in Nat \ {0}
      /\ Int32(MsPerSec * BUF_SIZE) = Cost
  BY ConstantTypes
<1>q. QueueTypeOK'
  BY DEF QueueInv
<1>1. CASE Clock
  BY <1>0, <1>1, <1>q DEF TypeOK, Clock, Tick, blastVars, schedVars
<1>2. CASE SignalNextDeadline
  <2>1. deadline' \in Nat /\ runOff' \in -1 .. (maxBytes - 1) /\ bytesToSend' = 0
    BY <1>2, DeadlineStep
  <2>2. /\ nextId' \in Flow \cup {-1} /\ asleep' = {} /\ alarm' = "sleep"
        /\ UNCHANGED <<now, pc, tot, granted>>
    BY <1>2 DEF SignalNextDeadline, WakeAll
  <2> QED BY <1>q, <2>1, <2>2 DEF TypeOK, AlarmStates
<1>3. CASE WaitDeadline \/ Sleep \/ SpuriousAlarm
  BY <1>3, <1>q DEF TypeOK, WaitDeadline, Sleep, AlarmSleep, SpuriousAlarm, AlarmSpurious, AlarmStates,
                    NextDL, blastVars, schedVars
<1>4. ASSUME NEW t \in Thread, TakeTurn(t) PROVE TypeOK'
  BY <1>0, <1>4, <1>q DEF TypeOK, TakeTurn, SignalDeadline, AlarmStates, BlastStates, Goto
<1>5. ASSUME NEW t \in Thread, WaitTurn(t) \/ WaitFull(t) PROVE TypeOK'
  BY <1>5, <1>q DEF TypeOK, WaitTurn, WaitFull, BlastStates, Goto, alarmVars, schedVars
<1>6. ASSUME NEW t \in Thread, Write(t) \/ WriteError(t) \/ Spurious(t) PROVE TypeOK'
  BY <1>0, <1>6, <1>q DEF TypeOK, Write, SendDone, WriteError, SendFails, Spurious, SpuriousWakeup,
                          BlastStates, Goto, alarmVars, schedVars
<1>7. CASE UNCHANGED vars
  BY <1>7, <1>q DEF TypeOK, vars, alarmVars, blastVars, schedVars
<1> QED BY <1>1, <1>2, <1>3, <1>4, <1>5, <1>6, <1>7
        DEF Next, Work, AlarmThread, Sender, WaitMyTurn, Arrive, Return

\* A sender goes to sleep only under a condition that keeps it waiting; what
\* ends the condition wakes it.
LEMMA NoLostWakeupStep == TypeOK /\ NoLostWakeup /\ [Next]_vars => NoLostWakeup'
<1> SUFFICES ASSUME TypeOK, NoLostWakeup, [Next]_vars PROVE NoLostWakeup'
  OBVIOUS
<1>0. Cost \in Nat \ {0} /\ Int32(MsPerSec * BUF_SIZE) = Cost
  BY ConstantTypes
<1>1. ASSUME UNCHANGED <<pc, bytesToSend, nextId, queueVars>>, asleep' \subseteq asleep,
             alarm' = "wait" => alarm = "wait"
      PROVE  NoLostWakeup'
  BY <1>1 DEF NoLostWakeup, MayGo, canSafelySend, queueFull, queueVars
<1>2. CASE SignalNextDeadline
  BY <1>2 DEF SignalNextDeadline, WakeAll, NoLostWakeup
<1>3. CASE WaitDeadline
  BY <1>3 DEF WaitDeadline, NoLostWakeup, MayGo, canSafelySend, queueFull, blastVars, queueVars, schedVars
<1>4. ASSUME NEW t \in Thread, WaitFull(t) PROVE NoLostWakeup'
  BY <1>4 DEF WaitFull, Room, Goto, TypeOK, NoLostWakeup, MayGo, canSafelySend, queueFull,
              alarmVars, queueVars, schedVars
<1>5. ASSUME NEW t \in Thread, TakeTurn(t), ~queueFull \/ UNCHANGED queueVars, Awake(t) PROVE NoLostWakeup'
  <2>1. bytesToSend' # 0 /\ asleep' = asleep /\ \A u \in asleep : pc'[u] = pc[u]
    BY <1>0, <1>5 DEF TakeTurn, Goto, Awake, TypeOK
  <2>2. \A u \in asleep : pc[u] = "waitFull" => queueFull /\ UNCHANGED queueVars
    BY <1>5 DEF NoLostWakeup
  <2>3. \A u \in asleep : pc[u] = "waitFull" => queueFull'
    BY <2>2 DEF queueFull, queueVars
  <2>4. alarm' # "wait"
    BY <1>5 DEF TakeTurn, SignalDeadline
  <2> QED BY <2>1, <2>3, <2>4 DEF NoLostWakeup, MayGo, canSafelySend
<1>6. ASSUME NEW t \in Thread, WaitTurn(t), ~queueFull \/ UNCHANGED queueVars, Awake(t) PROVE NoLostWakeup'
  <2>1. /\ UNCHANGED <<bytesToSend, nextId, alarm>> /\ asleep' = asleep \cup {t} /\ ~MayGo(t)
        /\ pc' = [pc EXCEPT ![t] = "waitTurn"]
    BY <1>6 DEF WaitTurn, Goto, alarmVars, schedVars
  <2>2. \A u \in asleep : pc[u] = "waitFull" => queueFull /\ UNCHANGED queueVars
    BY <1>6 DEF NoLostWakeup
  <2>3. \A u \in asleep : pc[u] = "waitFull" => queueFull'
    BY <2>2 DEF queueFull, queueVars
  <2>4. \A u \in asleep : u # t /\ pc'[u] = pc[u]
    BY <1>6, <2>1 DEF Awake, TypeOK
  <2>5. \A u \in Thread : MayGo(u)' <=> MayGo(u)
    BY <2>1 DEF MayGo, canSafelySend
  <2>6. pc'[t] = "waitTurn"
    BY <2>1 DEF TypeOK
  <2>7. ASSUME NEW u \in asleep' PROVE \/ pc'[u] = "waitTurn" /\ ~MayGo(u)'
                                       \/ pc'[u] = "waitFull" /\ queueFull'
    <3>1. CASE u = t
      BY <2>1, <2>5, <2>6, <3>1
    <3>2. CASE u \in asleep
      BY <2>3, <2>4, <2>5, <3>2 DEF NoLostWakeup, TypeOK
    <3> QED BY <2>1, <3>1, <3>2
  <2>8. alarm' = "wait" => bytesToSend' = 0
    BY <2>1 DEF NoLostWakeup
  <2> QED BY <2>7, <2>8 DEF NoLostWakeup
<1>7. ASSUME NEW t \in Thread, Write(t) \/ WriteError(t) PROVE NoLostWakeup'
  BY <1>7 DEF Write, SendDone, WriteError, SendFails, Goto, TypeOK, NoLostWakeup, MayGo, canSafelySend,
              queueFull, alarmVars, queueVars, schedVars
<1>8. CASE Clock \/ Sleep \/ SpuriousAlarm \/ UNCHANGED vars
  BY <1>1, <1>8 DEF Clock, Tick, Sleep, AlarmSleep, SpuriousAlarm, AlarmSpurious, vars,
                    alarmVars, blastVars, schedVars
<1>9. ASSUME NEW t \in Thread, Spurious(t) PROVE NoLostWakeup'
  BY <1>1, <1>9 DEF Spurious, SpuriousWakeup, alarmVars, schedVars
<1>10. ASSUME NEW t \in Thread, Arrive(t) \/ Return(t) PROVE NoLostWakeup'
  <2>1. (~queueFull \/ UNCHANGED queueVars) /\ Awake(t)
    BY <1>10 DEF Arrive, Return, Arriving, Returning, Room
  <2>2. WaitTurn(t) \/ TakeTurn(t)
    BY <1>10 DEF Arrive, Return
  <2> QED BY <1>5, <1>6, <2>1, <2>2
<1> QED BY <1>2, <1>3, <1>4, <1>7, <1>8, <1>9, <1>10
        DEF Next, Work, AlarmThread, Sender, WaitMyTurn

\* The turn is named when nothing is owed, and forgotten when it is taken.
LEMMA TurnStep == TypeOK /\ TurnInv /\ [Next]_vars => TurnInv'
<1> SUFFICES ASSUME TypeOK, TurnInv, [Next]_vars PROVE TurnInv'
  OBVIOUS
<1>0. Cost \in Nat \ {0} /\ Int32(MsPerSec * BUF_SIZE) = Cost /\ -1 \notin Flow
  BY ConstantTypes
<1>1. ASSUME UNCHANGED <<bytesToSend, nextId, size>> PROVE TurnInv'
  BY <1>1 DEF TurnInv, canSafelySend
<1>2. CASE SignalNextDeadline
  <2>1. bytesToSend' = 0 /\ \E id \in Flow \cup {-1} : Dequeue(id) /\ nextId' = id
    BY <1>2 DEF SignalNextDeadline
  <2>2. nextId' = -1 => size = 0 /\ UNCHANGED queueVars
    BY <1>0, <2>1 DEF Dequeue, IsMin
  <2> QED BY <2>1, <2>2 DEF TurnInv, queueVars
<1>3. ASSUME NEW t \in Thread, TakeTurn(t) PROVE TurnInv'
  BY <1>0, <1>3 DEF TakeTurn, TurnInv, canSafelySend
<1>4. ASSUME NEW t \in Thread, WaitTurn(t) PROVE TurnInv'
  BY <1>4 DEF WaitTurn, MayGo, TurnInv, canSafelySend, schedVars
<1>5. CASE Clock \/ WaitDeadline \/ Sleep \/ SpuriousAlarm \/ UNCHANGED vars
  BY <1>1, <1>5 DEF Clock, WaitDeadline, Sleep, SpuriousAlarm, vars, queueVars, schedVars
<1>6. ASSUME NEW t \in Thread, WaitFull(t) \/ Write(t) \/ WriteError(t) \/ Spurious(t) PROVE TurnInv'
  BY <1>1, <1>6 DEF WaitFull, Write, WriteError, Spurious, queueVars, schedVars
<1> QED BY <1>2, <1>3, <1>4, <1>5, <1>6
        DEF Next, Work, AlarmThread, Sender, WaitMyTurn, Arrive, Return

-----------------------------------------------------------------------------
(***************************************************************************)
(* Tickets and waiting senders.                                            *)
(***************************************************************************)

\* An enqueue makes its flow's list one longer, and leaves the others.
LEMMA EnqueueLength ==
  ASSUME QueueInv, NEW f \in Flow, NEW len \in 1 .. MaxLen, Enqueue(f, len), ~queueFull
  PROVE  /\ Len(nodes'[f]) = Len(nodes[f]) + 1
         /\ \A g \in Flow \ {f} : Len(nodes'[g]) = Len(nodes[g])
<1>1. \A g \in Flow : nodes[g] \in Seq(Node)
  BY DEF QueueInv, QueueTypeOK
<1>2. \E n : nodes' = [nodes EXCEPT ![f] = Append(@, n)]
  BY DEF Enqueue
<1>3. PICK n : nodes' = [nodes EXCEPT ![f] = Append(@, n)]
  BY <1>2
<1>4. nodes'[f] = Append(nodes[f], n) /\ \A g \in Flow \ {f} : nodes'[g] = nodes[g]
  BY <1>3 DEF QueueInv, QueueTypeOK
<1>5. Len(Append(nodes[f], n)) = Len(nodes[f]) + 1
  BY <1>1
<1> QED BY <1>4, <1>5

\* A dequeue makes the list of the flow it picks one shorter.
LEMMA DequeueLength ==
  ASSUME QueueInv, NEW f \in Flow, Dequeue(f)
  PROVE  /\ Len(nodes'[f]) = Len(nodes[f]) - 1
         /\ \A g \in Flow \ {f} : Len(nodes'[g]) = Len(nodes[g])
<1>1. nodes[f] \in Seq(Node) /\ nodes \in [Flow -> Seq(Node)]
  BY DEF QueueInv, QueueTypeOK
<1>2. nodes' = [nodes EXCEPT ![f] = Tail(@)] /\ nodes[f] # <<>>
  BY ConstantTypes DEF Dequeue, IsMin, Waiting
<1>3. nodes'[f] = Tail(nodes[f]) /\ \A g \in Flow \ {f} : nodes'[g] = nodes[g]
  BY <1>1, <1>2
<1>4. Len(Tail(nodes[f])) = Len(nodes[f]) - 1
  BY <1>1, <1>2
<1> QED BY <1>3, <1>4

\* The terms of a surplus are numbers, now and after the step.
LEMMA SurplusTypes ==
  ASSUME QueueInv, QueueInv', NEW f \in Flow
  PROVE  /\ Len(nodes[f]) \in Nat /\ Len(nodes'[f]) \in Nat
         /\ Named(f) \in {0, 1} /\ Named(f)' \in {0, 1}
         /\ IsFiniteSet(Waiters(f)) /\ IsFiniteSet(Waiters(f)')
         /\ Cardinality(Waiters(f)) \in Nat /\ Cardinality(Waiters(f)') \in Nat
<1>1. Len(nodes[f]) \in Nat /\ Len(nodes'[f]) \in Nat
  BY DEF QueueInv, QueueTypeOK
<1>2. Named(f) \in {0, 1} /\ Named(f)' \in {0, 1}
  BY DEF Named
<1>3. Waiters(f) \subseteq Thread /\ Waiters(f)' \subseteq Thread
  BY DEF Waiters
<1>4. IsFiniteSet(Waiters(f)) /\ IsFiniteSet(Waiters(f)')
  BY <1>3, ConstantTypes, FS_Subset
<1> QED BY <1>1, <1>2, <1>4, FS_CardinalityType

\* With a free link and no turn named, no sender waits: no tickets are queued,
\* and every waiting sender has one.
LEMMA TurnsAreTheirs == QueueInv /\ TurnInv /\ TicketsCoverWaiters => NoOvertaking
<1> SUFFICES ASSUME QueueInv, TurnInv, TicketsCoverWaiters, canSafelySend, nextId = -1,
                    NEW t \in Thread, pc[t] = "waitTurn"
             PROVE  FALSE
  BY DEF NoOvertaking
<1> DEFINE f == FlowOf[t]
<1>1. f \in Flow /\ t \in Waiters(f) /\ -1 \notin Flow
  BY ConstantTypes DEF Waiters
<1>2. IsFiniteSet(Waiters(f)) /\ Cardinality(Waiters(f)) \in Nat
  BY <1>1, ConstantTypes, FS_Subset, FS_CardinalityType DEF Waiters
<1>3. Cardinality(Waiters(f)) # 0
  BY <1>1, <1>2, FS_EmptySet
<1>4. Len(nodes[f]) = 0 /\ Named(f) = 0
  BY <1>1, EmptyLists DEF TurnInv, Named
<1>5. Surplus(f) \in {0, 1}
  BY <1>1 DEF TicketsCoverWaiters
<1> HIDE DEF f
<1> QED BY <1>2, <1>3, <1>4, <1>5 DEF Surplus

\* A ticket goes with its sender: queued when the sender starts to wait, named
\* when it leaves the queue, used up when a sender of the flow goes.  Only on a
\* free link does a ticket stay behind, and then it is the only one.
LEMMA TicketsStep ==
  TypeOK /\ QueueInv /\ QueueInv' /\ TurnInv /\ TicketsCoverWaiters /\ [Next]_vars
    => TicketsCoverWaiters'
<1> SUFFICES ASSUME TypeOK, QueueInv, QueueInv', TurnInv, TicketsCoverWaiters, [Next]_vars
             PROVE  TicketsCoverWaiters'
  OBVIOUS
<1>c. FlowOf \in [Thread -> Flow] /\ -1 \notin Flow /\ BUF_SIZE \in 1 .. MaxLen
  BY ConstantTypes
<1>1. ASSUME \A f \in Flow : Surplus(f)' = Surplus(f) PROVE TicketsCoverWaiters'
  BY <1>1 DEF TicketsCoverWaiters
<1>2. ASSUME nodes' = nodes, nextId' = nextId, \A t \in Thread : pc'[t] = "waitTurn" <=> pc[t] = "waitTurn"
      PROVE  TicketsCoverWaiters'
  <2>1. \A f \in Flow : Waiters(f)' = Waiters(f)
    BY <1>2 DEF Waiters
  <2>2. \A f \in Flow : Surplus(f)' = Surplus(f)
    BY <1>2, <2>1 DEF Surplus, Named
  <2> QED BY <1>1, <2>2
<1>3. ASSUME NEW t \in Thread, Arrive(t), WaitTurn(t) PROVE TicketsCoverWaiters'
  <2> DEFINE f == FlowOf[t]
  <2>1. f \in Flow /\ Enqueue(f, BUF_SIZE) /\ ~queueFull /\ pc[t] # "waitTurn"
    BY <1>c, <1>3 DEF Arrive, Arriving, Room
  <2>2. nextId' = nextId /\ pc' = [pc EXCEPT ![t] = "waitTurn"]
    BY <1>3 DEF WaitTurn, Goto, schedVars
  <2>3. /\ Len(nodes'[f]) = Len(nodes[f]) + 1
        /\ \A g \in Flow \ {f} : Len(nodes'[g]) = Len(nodes[g])
    BY <1>c, <2>1, EnqueueLength
  <2>4. /\ Waiters(f)' = Waiters(f) \cup {t} /\ t \notin Waiters(f)
        /\ \A g \in Flow \ {f} : Waiters(g)' = Waiters(g)
    BY <2>1, <2>2 DEF Waiters, TypeOK
  <2>5. \A g \in Flow : Named(g)' = Named(g)
    BY <2>2 DEF Named
  <2> HIDE DEF f
  <2>6. Cardinality(Waiters(f)') = Cardinality(Waiters(f)) + 1
    BY <2>1, <2>4, SurplusTypes, FS_AddElement
  <2>7. Surplus(f)' = Surplus(f)
    BY <2>1, <2>3, <2>5, <2>6, SurplusTypes DEF Surplus
  <2>8. \A g \in Flow \ {f} : Surplus(g)' = Surplus(g)
    BY <2>3, <2>4, <2>5 DEF Surplus
  <2> QED BY <1>1, <2>7, <2>8
<1>4. ASSUME NEW t \in Thread, Arrive(t), TakeTurn(t) PROVE TicketsCoverWaiters'
  <2> DEFINE f == FlowOf[t]
  <2>1. f \in Flow /\ Enqueue(f, BUF_SIZE) /\ ~queueFull /\ pc[t] # "waitTurn"
    BY <1>c, <1>4 DEF Arrive, Arriving, Room
  <2>2. nextId' = -1 /\ pc' = [pc EXCEPT ![t] = "send"] /\ canSafelySend /\ (nextId = f \/ nextId = -1)
    BY <1>4 DEF TakeTurn, MayGo, Goto
  <2>3. /\ Len(nodes'[f]) = Len(nodes[f]) + 1
        /\ \A g \in Flow \ {f} : Len(nodes'[g]) = Len(nodes[g])
    BY <1>c, <2>1, EnqueueLength
  <2>4. \A g \in Flow : Waiters(g)' = Waiters(g)
    BY <2>1, <2>2 DEF Waiters, TypeOK
  <2>5. \A g \in Flow : Named(g)' = 0
    BY <1>c, <2>2 DEF Named
  <2>6. CASE nextId = f
    <3>1. Named(f) = 1 /\ \A g \in Flow \ {f} : Named(g) = 0
      BY <2>6 DEF Named
    <3> HIDE DEF f
    <3>2. Surplus(f)' = Surplus(f)
      BY <2>1, <2>3, <2>4, <2>5, <3>1, SurplusTypes DEF Surplus
    <3>3. \A g \in Flow \ {f} : Surplus(g)' = Surplus(g)
      BY <2>3, <2>4, <2>5, <3>1 DEF Surplus
    <3> QED BY <1>1, <3>2, <3>3
  <2>7. CASE nextId = -1
    <3> HIDE DEF f
    <3>1. size = 0 /\ \A u \in Thread : pc[u] # "waitTurn"
      BY <2>2, <2>7, TurnsAreTheirs DEF TurnInv, NoOvertaking
    <3>2. \A g \in Flow : Len(nodes[g]) = 0
      BY <3>1, EmptyLists
    <3>3. \A g \in Flow : Waiters(g) = {}
      BY <3>1 DEF Waiters
    <3>4. \A g \in Flow : Cardinality(Waiters(g)') = 0
      BY <2>4, <3>3, FS_EmptySet
    <3>5. Surplus(f)' = 1 /\ \A g \in Flow \ {f} : Surplus(g)' = 0
      BY <2>1, <2>3, <2>5, <3>2, <3>4 DEF Surplus
    <3> QED BY <2>1, <3>5 DEF TicketsCoverWaiters
  <2> QED BY <2>2, <2>6, <2>7
<1>5. ASSUME NEW t \in Thread, Return(t), WaitTurn(t) PROVE TicketsCoverWaiters'
  <2>1. nodes' = nodes /\ nextId' = nextId /\ pc[t] = "waitTurn" /\ pc' = [pc EXCEPT ![t] = "waitTurn"]
    BY <1>5 DEF Return, Returning, WaitTurn, Goto, queueVars, schedVars
  <2>2. \A u \in Thread : pc'[u] = pc[u]
    BY <2>1 DEF TypeOK
  <2> QED BY <1>2, <2>1, <2>2
<1>6. ASSUME NEW t \in Thread, Return(t), TakeTurn(t) PROVE TicketsCoverWaiters'
  <2> DEFINE f == FlowOf[t]
  <2>1. f \in Flow /\ nodes' = nodes /\ pc[t] = "waitTurn"
    BY <1>c, <1>6 DEF Return, Returning, queueVars
  <2>2. nextId' = -1 /\ pc' = [pc EXCEPT ![t] = "send"] /\ canSafelySend /\ (nextId = f \/ nextId = -1)
    BY <1>6 DEF TakeTurn, MayGo, Goto
  <2>3. nextId = f
    BY <2>1, <2>2, TurnsAreTheirs DEF NoOvertaking
  <2>4. /\ Waiters(f)' = Waiters(f) \ {t} /\ t \in Waiters(f)
        /\ \A g \in Flow \ {f} : Waiters(g)' = Waiters(g)
    BY <2>1, <2>2 DEF Waiters, TypeOK
  <2>5. Named(f) = 1 /\ Named(f)' = 0 /\ \A g \in Flow \ {f} : Named(g) = 0 /\ Named(g)' = 0
    BY <1>c, <2>1, <2>2, <2>3 DEF Named
  <2> HIDE DEF f
  <2>6. Cardinality(Waiters(f)') = Cardinality(Waiters(f)) - 1
    BY <2>1, <2>4, SurplusTypes, FS_RemoveElement
  <2>7. Surplus(f)' = Surplus(f)
    BY <2>1, <2>5, <2>6, SurplusTypes DEF Surplus
  <2>8. \A g \in Flow \ {f} : Surplus(g)' = Surplus(g)
    BY <2>1, <2>4, <2>5 DEF Surplus
  <2> QED BY <1>1, <2>7, <2>8
<1>7. CASE SignalNextDeadline
  <2>1. nextId = -1 /\ pc' = pc
    BY <1>7 DEF SignalNextDeadline, TurnInv
  <2>2. PICK id \in Flow \cup {-1} : Dequeue(id) /\ nextId' = id
    BY <1>7 DEF SignalNextDeadline
  <2>3. \A g \in Flow : Waiters(g)' = Waiters(g)
    BY <2>1 DEF Waiters
  <2>4. \A g \in Flow : Named(g) = 0 /\ Named(g)' = IF g = id THEN 1 ELSE 0
    BY <1>c, <2>1, <2>2 DEF Named
  <2>5. CASE id = -1
    <3>1. nodes' = nodes
      BY <1>c, <2>2, <2>5 DEF Dequeue, IsMin, queueVars
    <3>2. \A g \in Flow : Surplus(g)' = Surplus(g)
      BY <1>c, <2>3, <2>4, <2>5, <3>1 DEF Surplus
    <3> QED BY <1>1, <3>2
  <2>6. CASE id \in Flow
    <3>1. /\ Len(nodes'[id]) = Len(nodes[id]) - 1
          /\ \A g \in Flow \ {id} : Len(nodes'[g]) = Len(nodes[g])
      BY <2>2, <2>6, DequeueLength
    <3>2. Surplus(id)' = Surplus(id)
      BY <2>3, <2>4, <2>6, <3>1, SurplusTypes DEF Surplus
    <3>3. \A g \in Flow \ {id} : Surplus(g)' = Surplus(g)
      BY <2>3, <2>4, <3>1 DEF Surplus
    <3> QED BY <1>1, <3>2, <3>3
  <2> QED BY <2>5, <2>6
<1>8. CASE Clock \/ WaitDeadline \/ Sleep \/ SpuriousAlarm \/ UNCHANGED vars
  BY <1>2, <1>8 DEF Clock, WaitDeadline, Sleep, SpuriousAlarm, vars, blastVars, queueVars, schedVars
<1>9. ASSUME NEW t \in Thread, WaitFull(t) PROVE TicketsCoverWaiters'
  <2>1. nodes' = nodes /\ nextId' = nextId /\ pc[t] # "waitTurn" /\ pc' = [pc EXCEPT ![t] = "waitFull"]
    BY <1>9 DEF WaitFull, Arriving, Goto, queueVars, schedVars
  <2>2. \A u \in Thread : pc'[u] = "waitTurn" <=> pc[u] = "waitTurn"
    BY <2>1 DEF TypeOK
  <2> QED BY <1>2, <2>1, <2>2
<1>10. ASSUME NEW t \in Thread, Write(t) \/ WriteError(t) \/ Spurious(t) PROVE TicketsCoverWaiters'
  <2>1. nodes' = nodes /\ nextId' = nextId
    BY <1>10 DEF Write, WriteError, Spurious, queueVars, schedVars
  <2>2. \A u \in Thread : pc'[u] = "waitTurn" <=> pc[u] = "waitTurn"
    BY <1>10 DEF Write, SendDone, WriteError, SendFails, Spurious, SpuriousWakeup, Goto, TypeOK
  <2> QED BY <1>2, <2>1, <2>2
<1> QED BY <1>3, <1>4, <1>5, <1>6, <1>7, <1>8, <1>9, <1>10
        DEF Next, Work, AlarmThread, Sender, WaitMyTurn, Arrive, Return

-----------------------------------------------------------------------------
(***************************************************************************)
(* The rate.                                                               *)
(***************************************************************************)

\* Charged is a number, and only the alarm thread's charge changes it:
\* waitMyTurn puts in bytesToSend what it adds to granted.
LEMMA ChargedSteady ==
  ASSUME TypeOK, ChargedInTime, [Next]_vars
  PROVE  /\ Charged \in Int
         /\ SignalNextDeadline =>
              Charged' = Charged + (IF bytesToSend > 0 THEN bytesToSend ELSE 0)
         /\ ~SignalNextDeadline =>
              /\ Charged' = Charged /\ deadline' = deadline /\ runOff' = runOff
              /\ deadline = 0 => bytesToSend' = bytesToSend
              /\ bytesToSend # -1 => bytesToSend' # -1
<1>0. /\ MsPerSec \in Nat /\ BUF_SIZE \in Nat /\ Cost \in Nat \ {0} /\ BootMS \in Nat \ {0}
      /\ Int32(MsPerSec * BUF_SIZE) = Cost
  BY ConstantTypes
<1>1. MsPerSec * granted \in Int /\ bytesToSend \in {-1, 0, Cost} /\ granted \in Nat
  BY <1>0 DEF TypeOK
<1>2. Charged \in Int
  BY <1>0, <1>1 DEF Charged
<1>3. ASSUME SignalNextDeadline
      PROVE  Charged' = Charged + (IF bytesToSend > 0 THEN bytesToSend ELSE 0)
  <2>1. granted' = granted /\ bytesToSend' = 0
    BY <1>3 DEF SignalNextDeadline
  <2> QED BY <1>0, <1>1, <2>1 DEF Charged
<1>4. ASSUME NEW t \in Thread, TakeTurn(t)
      PROVE  Charged' = Charged /\ deadline' = deadline /\ runOff' = runOff /\ bytesToSend = 0
             /\ bytesToSend' = Cost
  <2>1. /\ granted' = granted + BUF_SIZE /\ bytesToSend' = Cost /\ bytesToSend = 0
        /\ deadline' = deadline /\ runOff' = runOff
    BY <1>0, <1>4 DEF TakeTurn, MayGo, canSafelySend
  <2>2. MsPerSec * (granted + BUF_SIZE) = MsPerSec * granted + Cost
    BY <1>0, <1>1 DEF Cost
  <2>3. Charged' = Charged
    BY <1>0, <1>1, <2>1, <2>2 DEF Charged
  <2> QED BY <2>1, <2>3
<1>5. ASSUME UNCHANGED <<deadline, runOff, bytesToSend, granted>>
      PROVE  Charged' = Charged /\ deadline' = deadline /\ runOff' = runOff /\ bytesToSend' = bytesToSend
  BY <1>5 DEF Charged
<1>6. CASE WaitDeadline
  <2>1. bytesToSend = 0 /\ UNCHANGED <<runOff, bytesToSend, granted>> /\ deadline' = NextDL
    BY <1>6 DEF WaitDeadline, schedVars
  <2>2. deadline' = deadline
    BY <2>1 DEF ChargedInTime, NextDL
  <2> QED BY <1>2, <1>5, <1>6, <2>1, <2>2 DEF WaitDeadline, SignalNextDeadline
<1>7. \/ SignalNextDeadline \/ WaitDeadline \/ \E t \in Thread : TakeTurn(t)
      \/ UNCHANGED <<deadline, runOff, bytesToSend, granted>>
  BY DEF Next, Work, AlarmThread, Sender, WaitMyTurn, Arrive, Return, WaitTurn, WaitFull, Clock, Tick,
         Sleep, AlarmSleep, SpuriousAlarm, AlarmSpurious, Write, WriteError, Spurious, vars,
         alarmVars, schedVars
<1>8. deadline = 0 => bytesToSend = -1
  BY DEF ChargedInTime
<1> QED BY <1>0, <1>2, <1>3, <1>4, <1>5, <1>6, <1>7, <1>8

\* Time does not go back, and the alarm thread leaves its sleep only when the
\* deadline has passed.
LEMMA ClockStep ==
  ASSUME TypeOK, ChargedInTime, [Next]_vars
  PROVE  /\ now \in Nat /\ now' \in Nat /\ now <= now'
         /\ ~SignalNextDeadline => (alarm' # "sleep" => deadline' <= now')
<1>1. now \in Nat /\ now' \in Nat /\ now <= now'
  BY DEF TypeOK, Next, Work, AlarmThread, Sender, WaitMyTurn, Arrive, Return, WaitTurn, TakeTurn, WaitFull,
         Clock, Tick, WaitDeadline, SignalNextDeadline, Sleep, AlarmSleep, SpuriousAlarm, AlarmSpurious,
         Write, WriteError, Spurious, vars, alarmVars
<1>2. deadline \in Nat
  BY DEF TypeOK
<1>3. ASSUME ~SignalNextDeadline PROVE deadline' = deadline
  BY <1>3, ChargedSteady
<1>4. ASSUME ~SignalNextDeadline, alarm' # "sleep" PROVE alarm # "sleep" \/ deadline <= now
  BY <1>4 DEF Next, Work, AlarmThread, Sender, WaitMyTurn, Arrive, Return, WaitTurn, TakeTurn, WaitFull,
         SignalDeadline, Clock, Tick, WaitDeadline, Sleep, AlarmSleep, SpuriousAlarm, AlarmSpurious,
         Write, WriteError, Spurious, vars, alarmVars
<1> QED BY <1>1, <1>2, <1>3, <1>4 DEF ChargedInTime

\* A charge is made when the last deadline has passed, so it is at most one
\* buffer ahead of the clock.
LEMMA ChargedInTimeStep == TypeOK /\ ChargedInTime /\ [Next]_vars => ChargedInTime'
<1> SUFFICES ASSUME TypeOK, ChargedInTime, [Next]_vars PROVE ChargedInTime'
  OBVIOUS
<1>0. maxBytes \in Nat \ {0} /\ BootMS \in Nat \ {0} /\ Cost \in Nat \ {0}
  BY ConstantTypes
<1>1. /\ Charged \in Int /\ now \in Nat /\ now' \in Nat /\ now <= now' /\ now >= BootMS
      /\ deadline \in Nat /\ runOff \in -1 .. (maxBytes - 1)
  BY ChargedSteady, ClockStep DEF TypeOK
<1>2. BootMS \in Int /\ BootMS + 1 \in Int /\ now \in Int /\ now' \in Int /\ deadline \in Int
  BY <1>0, <1>1
<1>3. /\ Capacity(BootMS, now) <= Capacity(BootMS, now')
      /\ Capacity(BootMS, now) \in Int /\ Capacity(BootMS, now') \in Int
  <2>1. Capacity(now, now') >= 0 /\ Capacity(now, now') \in Int
        /\ Capacity(BootMS, now) \in Int /\ Capacity(BootMS, now') \in Int
    BY <1>1, <1>2, CapacityType
  <2>2. Capacity(BootMS, now) + Capacity(now, now') = Capacity(BootMS, now')
    BY <1>2, CapacityAdds
  <2> QED BY <2>1, <2>2
<1>4. CASE SignalNextDeadline
  <2>1. /\ deadline' \in Nat /\ deadline' # 0 /\ runOff' \in -1 .. (maxBytes - 1) /\ bytesToSend' = 0
        /\ deadline = 0 => deadline' = now + 1 /\ runOff' = -1
        /\ deadline # 0 => /\ bytesToSend = Cost
                           /\ Cost + runOff <= Capacity(deadline, deadline') + runOff'
    BY <1>4, DeadlineStep
  <2>2. alarm' = "sleep" /\ deadline <= now
    BY <1>4 DEF SignalNextDeadline, ChargedInTime
  <2>3. Charged' = Charged + (IF bytesToSend > 0 THEN bytesToSend ELSE 0)
    BY <1>4, ChargedSteady
  <2>4. CASE deadline = 0
    <3>1. Charged = 0 /\ bytesToSend = -1 /\ Charged' = 0
      BY <2>3, <2>4 DEF ChargedInTime
    <3>2. BootMS + 1 <= now + 1 /\ now + 1 \in Int
      BY <1>1, <1>2
    <3>3. Capacity(BootMS + 1, now + 1) >= 0 /\ Capacity(BootMS + 1, now + 1) \in Int
      BY <1>2, <3>2, CapacityType
    <3>4. Charged' <= Capacity(BootMS + 1, deadline') + runOff' + 1
      BY <2>1, <2>4, <3>1, <3>3
    <3>5. Capacity(BootMS, now) >= 0
      BY <1>1, <1>2, CapacityType
    <3> QED BY <1>0, <1>3, <2>1, <2>2, <3>1, <3>4, <3>5 DEF ChargedInTime
  <2>5. CASE deadline # 0
    <3>1. Charged' = Charged + Cost /\ Charged <= Capacity(BootMS + 1, deadline) + runOff + 1
      BY <1>0, <2>1, <2>3, <2>5 DEF ChargedInTime
    <3>2. deadline' \in Int
      BY <2>1
    <3>3. /\ Capacity(BootMS + 1, deadline) \in Int /\ Capacity(deadline, deadline') \in Int
          /\ Capacity(BootMS + 1, deadline') \in Int /\ Capacity(deadline, now) \in Int
          /\ Capacity(BootMS + 1, now) \in Int /\ Capacity(BootMS, BootMS + 1) = maxBytes
          /\ Capacity(deadline, now) >= 0
      BY <1>2, <2>2, <3>2, CapacityType
    <3>4. /\ Capacity(BootMS + 1, deadline) + Capacity(deadline, deadline') = Capacity(BootMS + 1, deadline')
          /\ Capacity(BootMS + 1, deadline) + Capacity(deadline, now) = Capacity(BootMS + 1, now)
          /\ Capacity(BootMS, BootMS + 1) + Capacity(BootMS + 1, now) = Capacity(BootMS, now)
      BY <1>2, <3>2, CapacityAdds
    <3>5. Charged' <= Capacity(BootMS + 1, deadline') + runOff' + 1
      BY <1>0, <1>1, <2>1, <2>5, <3>1, <3>3, <3>4
    <3>6. Charged <= Capacity(BootMS, now)
      BY <1>0, <1>1, <1>3, <3>1, <3>3, <3>4
    <3>7. Charged' <= Capacity(BootMS, now') + Cost
      BY <1>0, <1>1, <1>3, <3>1, <3>6
    <3> QED BY <2>1, <2>2, <3>5, <3>7 DEF ChargedInTime
  <2> QED BY <2>4, <2>5
<1>5. CASE ~SignalNextDeadline
  <2>1. /\ Charged' = Charged /\ deadline' = deadline /\ runOff' = runOff
        /\ deadline = 0 => bytesToSend' = bytesToSend
        /\ bytesToSend # -1 => bytesToSend' # -1
    BY <1>5, ChargedSteady
  <2>2. alarm' # "sleep" => deadline' <= now'
    BY <1>5, ClockStep
  <2>3. Charged' <= Capacity(BootMS, now') + Cost
    BY <1>0, <1>1, <1>3, <2>1 DEF ChargedInTime
  <2> QED BY <2>1, <2>2, <2>3 DEF ChargedInTime
<1> QED BY <1>4, <1>5

-----------------------------------------------------------------------------

\* The invariant holds at the start.
LEMMA InitInv == Init => SchedInv
<1> SUFFICES ASSUME Init PROVE SchedInv
  OBVIOUS
<1> USE DEF Init, AlarmInit, BlastInit
<1>0. /\ maxBytes \in Nat \ {0} /\ BootMS \in Nat \ {0} /\ Cost \in Nat \ {0} /\ MsPerSec \in Nat
  BY ConstantTypes
<1>q. QueueInv
  BY InitQueueInv
<1>1. TypeOK
  BY <1>0, <1>q DEF TypeOK, AlarmStates, BlastStates, QueueInv
<1>2. NoLostWakeup
  BY DEF NoLostWakeup
<1>3. TurnInv
  BY DEF TurnInv, QueueInit
<1>4. TicketsCoverWaiters
  <2>1. \A f \in Flow : Len(nodes[f]) = 0
    BY <1>q, EmptyLists DEF QueueInit
  <2>2. \A f \in Flow : Named(f) = 0
    BY ConstantTypes DEF Named
  <2>3. \A f \in Flow : Waiters(f) = {}
    BY DEF Waiters
  <2>4. \A f \in Flow : Cardinality(Waiters(f)) = 0
    BY <2>3, FS_EmptySet
  <2>5. \A f \in Flow : Surplus(f) = 0
    BY <2>1, <2>2, <2>4 DEF Surplus
  <2> QED BY <2>5 DEF TicketsCoverWaiters
<1>5. ChargedInTime
  <2>1. Capacity(BootMS, BootMS) = 0
    BY <1>0, CapacityType
  <2>2. Charged = 0
    BY <1>0 DEF Charged
  <2> QED BY <1>0, <2>1, <2>2 DEF ChargedInTime
<1> QED BY <1>1, <1>2, <1>3, <1>4, <1>5 DEF SchedInv

\* The queue inside the scheduler keeps its own invariant.
LEMMA QueueInside == Spec => []QueueInv
BY QueueWithinInterface, QueueInvariance, PTL

\* Every reachable state satisfies the inductive invariant.
THEOREM Invariance == Spec => []SchedInv
<1>1. SchedInv /\ QueueInv /\ QueueInv' /\ [Next]_vars => SchedInv'
  BY TypeStep, NoLostWakeupStep, TurnStep, TicketsStep, ChargedInTimeStep DEF SchedInv
<1> QED BY InitInv, <1>1, QueueInside, PTL DEF Spec

\* The types: in particular bytesToSend is -1, 0 or the cost of one buffer, and
\* runOff a fraction of a millisecond, or the -1 of the first call.
THEOREM TypeCorrect == Spec => []TypeOK
BY Invariance, PTL DEF SchedInv

\* No sender sleeps through its turn or through room in the queue, nor the
\* alarm thread through a grant.
THEOREM WakeupsKept == Spec => []NoLostWakeup
BY Invariance, PTL DEF SchedInv

\* Every waiting sender has a ticket, and over all the flows there is at most
\* one ticket nobody waits for.
THEOREM TicketsKept == Spec => []TicketsCoverWaiters
BY Invariance, PTL DEF SchedInv

\* A newcomer that finds the link free and no turn named overtakes nobody.
THEOREM NobodyOvertaken == Spec => []NoOvertaking
<1>1. SchedInv /\ QueueInv => NoOvertaking
  BY TurnsAreTheirs DEF SchedInv
<1> QED BY <1>1, Invariance, QueueInside, PTL

\* The rate follows from the charges.
LEMMA InvRate == SchedInv => LongRunRate
<1> SUFFICES ASSUME SchedInv PROVE LongRunRate
  OBVIOUS
<1>0. /\ maxBytes \in Nat /\ BootMS \in Nat /\ Cost \in Nat /\ MsPerSec \in Nat
  BY ConstantTypes
<1>1. now \in Nat /\ granted \in Nat /\ bytesToSend \in {-1, 0, Cost}
  BY DEF SchedInv, TypeOK
<1>2. MsPerSec * granted \in Int /\ Capacity(BootMS, now) \in Int
  BY <1>0, <1>1, CapacityType
<1>3. Charged <= Capacity(BootMS, now) + Cost
  BY DEF SchedInv, ChargedInTime
<1>4. MsPerSec * granted - (IF bytesToSend > 0 THEN bytesToSend ELSE 0) <= Capacity(BootMS, now) + Cost
  BY <1>3 DEF Charged
<1> QED BY <1>0, <1>1, <1>2, <1>4 DEF LongRunRate

\* The rate limit: granted bytes never exceed maxBytes per second by more than
\* two buffers, although calRunOff may move a deadline by a millisecond more or
\* less than the bytes' cost.
THEOREM RateKept == Spec => []LongRunRate
BY Invariance, InvRate, PTL

\* The scheduler implements a token bucket that starts with two buffers' worth.
THEOREM TokenBucketImplemented == Spec => ImplementsTokenBucket
<1> DEFINE T == Capacity(BootMS, now) + 2 * Cost - MsPerSec * granted
<1>0. /\ maxBytes \in Nat /\ BootMS \in Nat /\ Cost \in Nat
      /\ MsPerSec \in Nat /\ BUF_SIZE \in Nat
  BY ConstantTypes
<1>1. Init => Bucket!TokenInit
  <2>1. Capacity(BootMS, BootMS) = 0 /\ MsPerSec * 0 = 0
    BY <1>0, CapacityType
  <2> QED BY <1>0, <2>1 DEF Init, AlarmInit, Bucket!TokenInit
<1>2. SchedInv /\ LongRunRate' /\ [Next]_vars => [Bucket!Gain \/ Bucket!Grant]_T
  <2> SUFFICES ASSUME SchedInv, LongRunRate', [Next]_vars
               PROVE  [Bucket!Gain \/ Bucket!Grant]_T
    OBVIOUS
  <2>1. /\ now \in Nat /\ granted \in Nat
        /\ Capacity(BootMS, now) \in Int /\ MsPerSec * granted \in Int
    <3>1. now \in Nat /\ granted \in Nat
      BY DEF SchedInv, TypeOK
    <3> QED BY <1>0, <3>1, CapacityType
  <2>2. CASE Clock
    <3>1. now' = now + 1 /\ granted' = granted
      BY <2>2 DEF Clock, Tick, schedVars
    <3>2. Capacity(BootMS, now + 1) = Capacity(BootMS, now) + maxBytes
      BY <1>0, <2>1, CapacityType, CapacityAdds
    <3>3. T' = T + maxBytes
      BY <1>0, <2>1, <3>1, <3>2
    <3> QED BY <3>3 DEF Bucket!Gain
  <2>3. ASSUME NEW t \in Thread, TakeTurn(t)
        PROVE  Bucket!Grant
    <3>1. now' = now /\ granted' = granted + BUF_SIZE
      BY <2>3 DEF TakeTurn
    <3>2. MsPerSec * (granted + BUF_SIZE) = MsPerSec * granted + Cost
      BY <1>0, <2>1 DEF Cost
    <3>3. T' = T - Cost
      BY <1>0, <2>1, <3>1, <3>2
    <3>4. T' >= 0 /\ T \in Int
      <4>1. MsPerSec * granted' <= Capacity(BootMS, now') + 2 * Cost
        BY DEF LongRunRate
      <4>2. Capacity(BootMS, now') \in Int /\ MsPerSec * granted' \in Int
        BY <1>0, <2>1, <3>1, CapacityType
      <4> QED BY <1>0, <2>1, <4>1, <4>2
    <3>5. T >= Cost
      <4> HIDE DEF T
      <4> QED BY <1>0, <3>3, <3>4
    <3> QED BY <3>3, <3>5 DEF Bucket!Grant
  <2>4. CASE UNCHANGED <<now, granted>>
    BY <2>4
  <2> QED
    BY <2>2, <2>3, <2>4
       DEF Next, Work, AlarmThread, Sender, WaitMyTurn, Arrive, Return, WaitTurn, WaitFull, WaitDeadline,
           SignalNextDeadline, Sleep, AlarmSleep, SpuriousAlarm, AlarmSpurious,
           Write, WriteError, Spurious, vars, alarmVars, schedVars
<1> QED BY <1>1, <1>2, Invariance, RateKept, PTL
        DEF Spec, ImplementsTokenBucket, Bucket!TokenSpec

=============================================================================
