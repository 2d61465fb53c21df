-------------------------- MODULE ReceivePoolProofs --------------------------
(***************************************************************************)
(* Proofs about ReceivePool, for every set of connections and workers,     *)
(* every size of the buffer and every limit of sockets.                    *)
(***************************************************************************)
EXTENDS ReceivePool, FiniteSetTheorems, SequenceTheorems, TLAPS

(***************************************************************************)
(* The inductive invariant.  The invariants of the module need three facts *)
(* more: a flow id counts nothing before it is given out, and is given to  *)
(* one connection only; only a stream whose peer is gone is freed, so that *)
(* nothing arrives for it later; and a worker that does not read has       *)
(* nothing in its buffer.                                                  *)
(***************************************************************************)
FreshIds == \A f \in FlowId : f = 0 \/ nflows < f => byte_array[f] = 0
OwnIds == \A c, d \in Conn : flowId[c] = flowId[d] /\ flowId[c] # 0 => c = d
EndedStreams == freed \subseteq gone
EmptyBuffers == \A w \in Worker : pc[w] # "read" => sofar[w] = 0

PoolInv ==
  /\ TypeOK
  /\ OnePlace
  /\ FreshIds
  /\ OwnIds
  /\ EndedStreams
  /\ EmptyBuffers
  /\ Drained
  /\ NoLostWakeup

-----------------------------------------------------------------------------
(***************************************************************************)
(* The two operations of the queue.                                        *)
(***************************************************************************)

\* enqueue: the stream goes behind all others, and everybody is woken.
LEMMA EnqueueFacts ==
  ASSUME list \in Seq(Conn), NEW c \in Conn, Enqueue(c)
  PROVE  /\ list' \in Seq(Conn)
         /\ Len(list') = Len(list) + 1
         /\ \A i \in 1 .. Len(list) : list'[i] = list[i]
         /\ list'[Len(list) + 1] = c
         /\ asleep' = {}
         /\ \A d \in Conn : Queued(d)' <=> Queued(d) \/ d = c
<1>1. list' = Append(list, c) /\ asleep' = {}
  BY DEF Enqueue
<1>2. /\ list' \in Seq(Conn)
      /\ Len(list') = Len(list) + 1
      /\ \A i \in 1 .. Len(list) : list'[i] = list[i]
      /\ list'[Len(list) + 1] = c
  BY <1>1, AppendProperties
<1>3. Len(list) \in Nat
  BY LenProperties
<1>4. ASSUME NEW d \in Conn
      PROVE  Queued(d)' <=> Queued(d) \/ d = c
  BY <1>2, <1>3 DEF Queued
<1> QED BY <1>1, <1>2, <1>4

\* dequeue: the first stream leaves, and the others move up.
LEMMA DequeueFacts ==
  ASSUME list \in Seq(Conn), NEW w \in Worker, NEW c \in Conn, DequeueReturns(w, c),
         \A i, j \in 1 .. Len(list) : list[i] = list[j] => i = j
  PROVE  /\ list' \in Seq(Conn)
         /\ Len(list) \in Nat \ {0}
         /\ Len(list') = Len(list) - 1
         /\ c = list[1]
         /\ \A i \in 1 .. Len(list') : list'[i] = list[i + 1]
         /\ asleep' = asleep
         /\ w \notin asleep
         /\ Queued(c)
         /\ \A d \in Conn : Queued(d)' <=> Queued(d) /\ d # c
<1>1. list # <<>> /\ c = Head(list) /\ list' = Tail(list) /\ asleep' = asleep /\ w \notin asleep
  BY DEF DequeueReturns
<1>2. Len(list) \in Nat \ {0}
  BY <1>1, EmptySeq
<1>3. c = list[1]
  BY <1>1, <1>2
<1>4. /\ list' \in Seq(Conn)
      /\ Len(list') = Len(list) - 1
      /\ \A i \in 1 .. Len(list') : list'[i] = list[i + 1]
  BY <1>1, HeadTailProperties
<1>5. Queued(c)
  BY <1>2, <1>3 DEF Queued
<1>6. ASSUME NEW d \in Conn
      PROVE  Queued(d)' <=> Queued(d) /\ d # c
  <2>1. ASSUME Queued(d)'
        PROVE  Queued(d) /\ d # c
    <3>1. PICK i \in 1 .. Len(list') : list'[i] = d
      BY <2>1 DEF Queued
    <3>2. i + 1 \in 1 .. Len(list) /\ list[i + 1] = d /\ i + 1 # 1 /\ 1 \in 1 .. Len(list)
      BY <3>1, <1>2, <1>4
    <3> QED BY <3>2, <1>3 DEF Queued
  <2>2. ASSUME Queued(d), d # c
        PROVE  Queued(d)'
    <3>1. PICK i \in 1 .. Len(list) : list[i] = d
      BY <2>2 DEF Queued
    <3>2. i - 1 \in 1 .. Len(list') /\ list'[i - 1] = list[(i - 1) + 1] /\ (i - 1) + 1 = i
      BY <3>1, <2>2, <1>2, <1>3, <1>4
    <3> QED BY <3>1, <3>2 DEF Queued
  <2> QED BY <2>1, <2>2
<1> QED BY <1>1, <1>2, <1>3, <1>4, <1>5, <1>6

-----------------------------------------------------------------------------
(***************************************************************************)
(* What the actions find: in each of the calls a worker holds a stream, it *)
(* is an accepted one.                                                     *)
(***************************************************************************)

\* A worker that reads or puts back holds an accepted stream, under a flow id
\* that byte_array has.
LEMMA Holding ==
  ASSUME TypeOK, OnePlace, NEW w \in Worker, pc[w] # "dequeue"
  PROVE  /\ is[w] \in Conn
         /\ HeldBy(w, is[w])
         /\ Held(is[w])
         /\ Accepted(is[w])
         /\ flowId[is[w]] \in FlowId \ {0}
         /\ ~Queued(is[w])
         /\ is[w] \notin freed
<1>1. is[w] \in Conn
  BY DEF TypeOK, OnePlace
<1>2. HeldBy(w, is[w]) /\ Held(is[w])
  BY DEF HeldBy, Held
<1>3. Accepted(is[w]) /\ ~Queued(is[w]) /\ is[w] \notin freed
  BY <1>1, <1>2 DEF OnePlace
<1>4. flowId[is[w]] \in 0 .. nflows /\ nflows \in 0 .. maxFds /\ maxFds \in 0 .. (MAX_FLOW_ID - 1)
      /\ MAX_FLOW_ID \in Nat
  BY <1>1, PoolAssumption, StatsAssumption DEF TypeOK
<1>5. flowId[is[w]] \in FlowId \ {0}
  BY <1>3, <1>4 DEF Accepted, FlowId
<1> QED BY <1>1, <1>2, <1>3, <1>5

\* More bytes have been delivered to a socket than wait in it.
LEMMA DeliveredIsMore ==
  ASSUME TypeOK, Drained, NEW c \in Conn, BUFFER_SIZE \in Nat \ {0, 1}
  PROVE  delivered[c] - socket[c] \in Nat
<1> DEFINE left == delivered[c] - socket[c] - byte_array[flowId[c]]
<1>1. flowId[c] \in FlowId
  BY PoolAssumption, StatsAssumption DEF TypeOK, FlowId
<1>2. delivered[c] \in Nat /\ socket[c] \in Nat /\ byte_array[flowId[c]] \in Nat
  BY <1>1 DEF TypeOK
<1>3. left \in Nat
  <2>1. CASE c \in freed
    BY <2>1 DEF Drained
  <2>2. CASE c \notin freed /\ ~Held(c)
    BY <2>2 DEF Drained
  <2>3. CASE Held(c)
    BY <2>3 DEF Drained, Held, TypeOK
  <2> QED BY <2>1, <2>2, <2>3
<1> QED BY <1>2, <1>3

\* The types: in the state after a step of any action.
LEMMA TypeStep == PoolInv /\ [Next]_vars => TypeOK'
<1> SUFFICES ASSUME PoolInv, [Next]_vars PROVE TypeOK'
  OBVIOUS
<1>0. TypeOK /\ OnePlace /\ Drained
  BY DEF PoolInv
<1>a. BUFFER_SIZE \in Nat \ {0, 1}
  BY BufferAssumption
<1>1. ASSUME AcceptFails PROVE TypeOK'
  BY <1>0, <1>1 DEF AcceptFails, TypeOK, statsVars, inputVars, recQueueVars
<1>2. ASSUME NEW c \in Conn, Accept(c) PROVE TypeOK'
  <2>1. list' \in Seq(Conn) /\ asleep' = {}
    BY <1>0, <1>2, EnqueueFacts DEF Accept, TypeOK
  <2>2. nflows' \in 0 .. maxFds /\ nflows' = nflows + 1
    BY <1>0, <1>2, PoolAssumption, StatsAssumption DEF Accept, TypeOK
  <2>3. flowId' \in [Conn -> 0 .. nflows']
    BY <1>0, <1>2, <2>2 DEF Accept, TypeOK
  <2> QED BY <1>0, <1>2, <2>1, <2>2, <2>3 DEF Accept, TypeOK, statsVars, inputVars
<1>3. ASSUME NEW c \in Conn, Connect(c) PROVE TypeOK'
  BY <1>0, <1>3 DEF Connect, TypeOK, statsVars, inputVars, recQueueVars
<1>4. ASSUME NEW c \in Conn, Send(c) PROVE TypeOK'
  BY <1>0, <1>4 DEF Send, TypeOK, statsVars, recQueueVars
<1>5. ASSUME NEW c \in Conn, Close(c) PROVE TypeOK'
  BY <1>0, <1>5 DEF Close, Open, TypeOK, statsVars, recQueueVars, poolVars
<1>6. ASSUME NEW c \in Conn, Reset(c) PROVE TypeOK'
  <2>1. delivered[c] - socket[c] \in Nat
    BY <1>0, <1>a, DeliveredIsMore
  <2>2. delivered' \in [Conn -> Nat]
    BY <1>0, <1>6, <2>1 DEF Reset, TypeOK
  <2> QED BY <1>0, <1>6, <2>2 DEF Reset, Open, TypeOK, statsVars, recQueueVars
<1>7. ASSUME NEW w \in Worker, Sleep(w) PROVE TypeOK'
  BY <1>0, <1>7 DEF Sleep, DequeueWaits, TypeOK, statsVars, inputVars, poolVars
<1>8. ASSUME NEW w \in Worker, TakeStream(w) PROVE TypeOK'
  <2>1. PICK c \in Conn : DequeueReturns(w, c) /\ is' = [is EXCEPT ![w] = c]
    BY <1>8 DEF TakeStream
  <2>2. list' \in Seq(Conn) /\ asleep' = asleep
    BY <1>0, <2>1, DequeueFacts DEF OnePlace, TypeOK
  <2>3. is' \in [Worker -> Conn \cup {None}] /\ pc' \in [Worker -> {"dequeue", "read", "enqueue"}]
    BY <1>0, <1>8, <2>1 DEF TakeStream, Goto, TypeOK
  <2> QED BY <1>0, <1>8, <2>2, <2>3 DEF TakeStream, TypeOK, statsVars, inputVars
<1>9. ASSUME NEW w \in Worker, ReadMore(w) PROVE TypeOK'
  <2>1. is[w] \in Conn
    BY <1>0, <1>9, Holding DEF ReadMore, At
  <2>2. PICK n \in 1 .. Missing(w) : Take(is[w], n) /\ sofar' = [sofar EXCEPT ![w] = @ + n]
    BY <1>9 DEF ReadMore, ReadPiece
  <2>3. socket[is[w]] \in Nat /\ sofar[w] \in 0 .. BUFFER_SIZE
    BY <1>0, <2>1 DEF TypeOK
  <2>4. socket[is[w]] - n \in Nat /\ sofar[w] + n \in 0 .. BUFFER_SIZE
    BY <1>a, <2>2, <2>3 DEF Take, Missing
  <2>5. socket' \in [Conn -> Nat] /\ sofar' \in [Worker -> 0 .. BUFFER_SIZE]
    BY <1>0, <2>2, <2>4 DEF Take, TypeOK
  <2> QED BY <1>0, <1>9, <2>2, <2>5 DEF ReadMore, ReadPiece, Take, TypeOK, statsVars, recQueueVars, poolVars
<1>10. ASSUME NEW w \in Worker, GotBuffer(w) PROVE TypeOK'
  <2>1. is[w] \in Conn /\ flowId[is[w]] \in FlowId
    BY <1>0, <1>10, Holding DEF GotBuffer, At
  <2>2. /\ socket' = socket /\ gone' = gone
        /\ Update(flowId[is[w]], BUFFER_SIZE) /\ sofar' = [sofar EXCEPT ![w] = 0]
    BY <1>10 DEF GotBuffer, ReadFull
  <2>5. byte_array' \in [FlowId -> Nat] /\ max_id' \in FlowId
    BY <1>0, <1>a, <2>1, <2>2 DEF Update, TypeOK
  <2>6. sofar' \in [Worker -> 0 .. BUFFER_SIZE]
    BY <1>0, <1>a, <2>2 DEF TypeOK
  <2>7. pc' \in [Worker -> {"dequeue", "read", "enqueue"}]
    BY <1>0, <1>10 DEF GotBuffer, Goto, TypeOK
  <2> QED BY <1>0, <1>10, <2>2, <2>5, <2>6, <2>7 DEF GotBuffer, TypeOK, recQueueVars
<1>11. ASSUME NEW w \in Worker, PutBack(w) PROVE TypeOK'
  <2>1. is[w] \in Conn
    BY <1>0, <1>11, Holding DEF PutBack, At
  <2>2. list' \in Seq(Conn) /\ asleep' = {}
    BY <1>0, <1>11, <2>1, EnqueueFacts DEF PutBack, TypeOK
  <2>3. is' \in [Worker -> Conn \cup {None}] /\ pc' \in [Worker -> {"dequeue", "read", "enqueue"}]
    BY <1>0, <1>11 DEF PutBack, Goto, TypeOK
  <2> QED BY <1>0, <1>11, <2>2, <2>3 DEF PutBack, TypeOK, statsVars, inputVars
<1>12. ASSUME NEW w \in Worker, Finish(w) PROVE TypeOK'
  <2>1. is[w] \in Conn
    BY <1>0, <1>12, Holding DEF Finish, At
  <2>2. is' \in [Worker -> Conn \cup {None}] /\ pc' \in [Worker -> {"dequeue", "read", "enqueue"}]
    BY <1>0, <1>12 DEF Finish, Goto, TypeOK
  <2>3. sofar' \in [Worker -> 0 .. BUFFER_SIZE]
    BY <1>0, <1>a, <1>12 DEF Finish, ReadEnds, TypeOK
  <2> QED BY <1>0, <1>12, <2>1, <2>2, <2>3 DEF Finish, ReadEnds, TypeOK, statsVars, recQueueVars
<1>13. ASSUME NEW w \in Worker, Spurious(w) PROVE TypeOK'
  BY <1>0, <1>13 DEF Spurious, WakesUnsignalled, TypeOK, statsVars, inputVars, poolVars
<1>14. ASSUME UNCHANGED vars PROVE TypeOK'
  BY <1>0, <1>14 DEF TypeOK, vars, statsVars, inputVars, recQueueVars, poolVars
<1> QED BY <1>1, <1>2, <1>3, <1>4, <1>5, <1>6, <1>7, <1>8, <1>9, <1>10, <1>11, <1>12, <1>13, <1>14
        DEF Next, Peer, WorkerStep

-----------------------------------------------------------------------------
(***************************************************************************)
(* One place for each stream.                                              *)
(***************************************************************************)

\* A stream stays in one place: only an accept, a dequeue, a put back and an
\* end move it, each from one place to one place.
LEMMA OnePlaceStep == PoolInv /\ [Next]_vars => OnePlace'
<1> SUFFICES ASSUME PoolInv, [Next]_vars PROVE OnePlace'
  OBVIOUS
<1>0. TypeOK /\ OnePlace
  BY DEF PoolInv
<1>n. None \notin Conn
  BY PoolAssumption
<1>1. ASSUME list' = list, flowId' = flowId, pc' = pc, is' = is, freed' = freed PROVE OnePlace'
  BY <1>0, <1>1 DEF OnePlace, Accepted, Queued, Held, HeldBy
<1>2. ASSUME NEW c \in Conn, Accept(c) PROVE OnePlace'
  <2>1. /\ list' \in Seq(Conn)
        /\ Len(list') = Len(list) + 1
        /\ \A i \in 1 .. Len(list) : list'[i] = list[i]
        /\ list'[Len(list) + 1] = c
        /\ \A d \in Conn : Queued(d)' <=> Queued(d) \/ d = c
    BY <1>0, <1>2, EnqueueFacts DEF Accept, TypeOK
  <2>2. ~Queued(c) /\ ~Held(c) /\ c \notin freed
    BY <1>0, <1>2 DEF Accept, OnePlace, Accepted
  <2>3. pc' = pc /\ is' = is /\ freed' = freed /\ nflows \in Nat
    BY <1>0, <1>2, PoolAssumption DEF Accept, TypeOK
  <2>4. \A d \in Conn : Held(d)' <=> Held(d)
    BY <2>3 DEF Held, HeldBy
  <2>5. \A d \in Conn : Accepted(d)' <=> Accepted(d) \/ d = c
    BY <1>0, <1>2, <2>3 DEF Accept, Accepted, TypeOK
  <2>6. Len(list) \in Nat /\ \A i \in 1 .. Len(list) : list[i] # c
    BY <1>0, <2>2, LenProperties DEF Queued, TypeOK
  <2>7. \A i, j \in 1 .. Len(list') : list'[i] = list'[j] => i = j
    BY <1>0, <2>1, <2>6 DEF OnePlace
  <2> QED BY <1>0, <2>1, <2>2, <2>3, <2>4, <2>5, <2>7 DEF OnePlace
<1>3. ASSUME NEW w \in Worker, TakeStream(w) PROVE OnePlace'
  <2>1. PICK c \in Conn : DequeueReturns(w, c) /\ is' = [is EXCEPT ![w] = c]
    BY <1>3 DEF TakeStream
  <2>2. /\ Len(list) \in Nat \ {0}
        /\ Len(list') = Len(list) - 1
        /\ \A i \in 1 .. Len(list') : list'[i] = list[i + 1]
        /\ Queued(c)
        /\ \A d \in Conn : Queued(d)' <=> Queued(d) /\ d # c
    BY <1>0, <2>1, DequeueFacts DEF OnePlace, TypeOK
  <2>3. pc[w] = "dequeue" /\ is[w] = None /\ ~Held(c) /\ c \notin freed
    BY <1>0, <1>3, <2>2 DEF TakeStream, At, OnePlace
  <2>4. pc' = [pc EXCEPT ![w] = "read"] /\ freed' = freed /\ flowId' = flowId
    BY <1>3 DEF TakeStream, Goto
  <2>5. \A v \in Worker : is'[v] = IF v = w THEN c ELSE is[v]
    BY <1>0, <2>1 DEF TypeOK
  <2>6. \A d \in Conn : Held(d)' <=> Held(d) \/ d = c
    BY <1>n, <2>3, <2>5 DEF Held, HeldBy
  <2>7. \A d \in Conn : Accepted(d)' <=> Accepted(d)
    BY <2>4 DEF Accepted
  <2>8. \A i, j \in 1 .. Len(list') : list'[i] = list'[j] => i = j
    <3> SUFFICES ASSUME NEW i \in 1 .. Len(list'), NEW j \in 1 .. Len(list'), list'[i] = list'[j]
                 PROVE  i = j
      OBVIOUS
    <3>1. i + 1 \in 1 .. Len(list) /\ j + 1 \in 1 .. Len(list) /\ list[i + 1] = list[j + 1]
      BY <2>2
    <3>2. i + 1 = j + 1
      BY <1>0, <3>1 DEF OnePlace
    <3> QED BY <2>2, <3>2
  <2>9. \A u, v \in Worker : is'[u] = is'[v] /\ is'[u] # None => u = v
    BY <1>0, <2>3, <2>5 DEF OnePlace, Held, HeldBy
  <2>10. \A v \in Worker : is'[v] = None <=> pc'[v] = "dequeue"
    BY <1>0, <1>n, <2>4, <2>5 DEF OnePlace, TypeOK
  <2>11. \A d \in Conn : Accepted(d)' <=> Queued(d)' \/ Held(d)' \/ d \in freed'
    BY <1>0, <2>2, <2>4, <2>6, <2>7 DEF OnePlace
  <2>12. \A d \in Conn : ~(Queued(d)' /\ Held(d)') /\ ~(d \in freed' /\ (Queued(d)' \/ Held(d)'))
    BY <1>0, <2>2, <2>3, <2>4, <2>6 DEF OnePlace
  <2> QED BY <2>8, <2>9, <2>10, <2>11, <2>12 DEF OnePlace
<1>4. ASSUME NEW w \in Worker, GotBuffer(w) PROVE OnePlace'
  <2>1. list' = list /\ flowId' = flowId /\ is' = is /\ freed' = freed
    BY <1>4 DEF GotBuffer, recQueueVars
  <2>2. pc[w] = "read" /\ pc' = [pc EXCEPT ![w] = "enqueue"]
    BY <1>4 DEF GotBuffer, At, Goto
  <2>3. \A v \in Worker : pc'[v] = "dequeue" <=> pc[v] = "dequeue"
    BY <1>0, <2>2 DEF TypeOK
  <2> QED BY <1>0, <2>1, <2>3 DEF OnePlace, Accepted, Queued, Held, HeldBy
<1>5. ASSUME NEW w \in Worker, PutBack(w) PROVE OnePlace'
  <2> DEFINE c == is[w]
  <2>1. /\ c \in Conn /\ Held(c) /\ Accepted(c) /\ ~Queued(c) /\ c \notin freed
    BY <1>0, <1>5, Holding DEF PutBack, At
  <2>2. /\ Len(list') = Len(list) + 1
        /\ \A i \in 1 .. Len(list) : list'[i] = list[i]
        /\ list'[Len(list) + 1] = c
        /\ \A d \in Conn : Queued(d)' <=> Queued(d) \/ d = c
    BY <1>0, <1>5, <2>1, EnqueueFacts DEF PutBack, TypeOK
  <2>3. pc' = [pc EXCEPT ![w] = "dequeue"] /\ is' = [is EXCEPT ![w] = None] /\ freed' = freed /\ flowId' = flowId
    BY <1>5 DEF PutBack, Goto
  <2>4. \A d \in Conn : Held(d)' <=> Held(d) /\ d # c
    BY <1>0, <1>n, <2>1, <2>3 DEF Held, HeldBy, OnePlace, TypeOK
  <2>5. Len(list) \in Nat /\ \A i \in 1 .. Len(list) : list[i] # c
    BY <1>0, <2>1, LenProperties DEF Queued, TypeOK
  <2>6. \A i, j \in 1 .. Len(list') : list'[i] = list'[j] => i = j
    BY <1>0, <2>2, <2>5 DEF OnePlace
  <2>7. \A u, v \in Worker : is'[u] = is'[v] /\ is'[u] # None => u = v
    BY <1>0, <2>3 DEF OnePlace, TypeOK
  <2>8. \A v \in Worker : is'[v] = None <=> pc'[v] = "dequeue"
    BY <1>0, <2>3 DEF OnePlace, TypeOK
  <2>9. \A d \in Conn : Accepted(d)' <=> Accepted(d)
    BY <2>3 DEF Accepted
  <2> HIDE DEF c
  <2>10. \A d \in Conn : Accepted(d)' <=> Queued(d)' \/ Held(d)' \/ d \in freed'
    BY <1>0, <2>1, <2>2, <2>3, <2>4, <2>9 DEF OnePlace
  <2>11. \A d \in Conn : ~(Queued(d)' /\ Held(d)') /\ ~(d \in freed' /\ (Queued(d)' \/ Held(d)'))
    BY <1>0, <2>1, <2>2, <2>3, <2>4 DEF OnePlace
  <2> QED BY <2>6, <2>7, <2>8, <2>10, <2>11 DEF OnePlace
<1>6. ASSUME NEW w \in Worker, Finish(w) PROVE OnePlace'
  <2> DEFINE c == is[w]
  <2>1. /\ c \in Conn /\ Held(c) /\ Accepted(c) /\ ~Queued(c) /\ c \notin freed
    BY <1>0, <1>6, Holding DEF Finish, At
  <2>2. pc' = [pc EXCEPT ![w] = "dequeue"] /\ is' = [is EXCEPT ![w] = None]
        /\ freed' = freed \cup {c} /\ flowId' = flowId /\ list' = list
    BY <1>6 DEF Finish, Goto, recQueueVars
  <2>3. \A d \in Conn : Held(d)' <=> Held(d) /\ d # c
    BY <1>0, <1>n, <2>1, <2>2 DEF Held, HeldBy, OnePlace, TypeOK
  <2>4. \A u, v \in Worker : is'[u] = is'[v] /\ is'[u] # None => u = v
    BY <1>0, <2>2 DEF OnePlace, TypeOK
  <2>5. \A v \in Worker : is'[v] = None <=> pc'[v] = "dequeue"
    BY <1>0, <2>2 DEF OnePlace, TypeOK
  <2>6. \A d \in Conn : (Accepted(d)' <=> Accepted(d)) /\ (Queued(d)' <=> Queued(d))
    BY <2>2 DEF Accepted, Queued
  <2> HIDE DEF c
  <2>7. \A d \in Conn : Accepted(d)' <=> Queued(d)' \/ Held(d)' \/ d \in freed'
    BY <1>0, <2>1, <2>2, <2>3, <2>6 DEF OnePlace
  <2>8. \A d \in Conn : ~(Queued(d)' /\ Held(d)') /\ ~(d \in freed' /\ (Queued(d)' \/ Held(d)'))
    BY <1>0, <2>1, <2>2, <2>3, <2>6 DEF OnePlace
  <2>9. \A i, j \in 1 .. Len(list') : list'[i] = list'[j] => i = j
    BY <1>0, <2>2 DEF OnePlace
  <2> QED BY <2>4, <2>5, <2>7, <2>8, <2>9 DEF OnePlace
<1>7. ASSUME AcceptFails \/ UNCHANGED vars PROVE OnePlace'
  BY <1>1, <1>7 DEF AcceptFails, vars, recQueueVars, poolVars
<1>8. ASSUME NEW c \in Conn, Peer(c) PROVE OnePlace'
  BY <1>1, <1>8 DEF Peer, Connect, Send, Close, Reset, recQueueVars, poolVars
<1>9. ASSUME NEW w \in Worker, Sleep(w) \/ ReadMore(w) \/ Spurious(w) PROVE OnePlace'
  BY <1>1, <1>9 DEF Sleep, DequeueWaits, ReadMore, Spurious, WakesUnsignalled, recQueueVars, poolVars
<1> QED BY <1>2, <1>3, <1>4, <1>5, <1>6, <1>7, <1>8, <1>9 DEF Next, WorkerStep

-----------------------------------------------------------------------------
(***************************************************************************)
(* Flow ids, ended streams, empty buffers.                                 *)
(***************************************************************************)

\* A flow id is given out once, and counts only what its own stream receives.
LEMMA IdsStep == PoolInv /\ [Next]_vars => FreshIds' /\ OwnIds'
<1> SUFFICES ASSUME PoolInv, [Next]_vars PROVE FreshIds' /\ OwnIds'
  OBVIOUS
<1>0. TypeOK /\ OnePlace /\ FreshIds /\ OwnIds
  BY DEF PoolInv
<1>1. nflows \in Nat /\ flowId \in [Conn -> 0 .. nflows]
  BY <1>0, PoolAssumption DEF TypeOK
<1>2. ASSUME byte_array' = byte_array, nflows' = nflows, flowId' = flowId PROVE FreshIds' /\ OwnIds'
  BY <1>0, <1>2 DEF FreshIds, OwnIds
<1>3. ASSUME NEW c \in Conn, Accept(c) PROVE FreshIds' /\ OwnIds'
  <2>1. byte_array' = byte_array /\ nflows' = nflows + 1 /\ flowId' = [flowId EXCEPT ![c] = nflows + 1]
    BY <1>3 DEF Accept, statsVars
  <2>2. \A f \in FlowId : f \in Nat
    BY StatsAssumption DEF FlowId
  <2>3. FreshIds'
    BY <1>0, <1>1, <2>1, <2>2 DEF FreshIds
  <2>4. \A d \in Conn : flowId'[d] = IF d = c THEN nflows + 1 ELSE flowId[d]
    BY <1>1, <2>1
  <2>5. \A d \in Conn : flowId[d] \in Nat /\ flowId[d] <= nflows
    BY <1>1
  <2>6. OwnIds'
    BY <1>0, <1>1, <2>4, <2>5 DEF OwnIds
  <2> QED BY <2>3, <2>6
<1>4. ASSUME NEW w \in Worker, GotBuffer(w) PROVE FreshIds' /\ OwnIds'
  <2>1. is[w] \in Conn /\ flowId[is[w]] \in FlowId \ {0} /\ flowId[is[w]] \in 0 .. nflows
    BY <1>0, <1>1, <1>4, Holding DEF GotBuffer, At
  <2>2. nflows' = nflows /\ flowId' = flowId /\ Update(flowId[is[w]], BUFFER_SIZE)
    BY <1>4 DEF GotBuffer, ReadFull
  <2>3. \A f \in FlowId : f # flowId[is[w]] => byte_array'[f] = byte_array[f]
    BY <1>0, <2>2 DEF Update, TypeOK
  <2>4. \A f \in FlowId : nflows < f => f # flowId[is[w]]
    BY <1>1, <2>1, StatsAssumption DEF FlowId
  <2> QED BY <1>0, <2>1, <2>2, <2>3, <2>4 DEF FreshIds, OwnIds
<1>5. ASSUME AcceptFails \/ UNCHANGED vars PROVE FreshIds' /\ OwnIds'
  BY <1>2, <1>5 DEF AcceptFails, vars, statsVars, poolVars
<1>6. ASSUME NEW c \in Conn, Peer(c) PROVE FreshIds' /\ OwnIds'
  BY <1>2, <1>6 DEF Peer, Connect, Send, Close, Reset, statsVars, poolVars
<1>7. ASSUME NEW w \in Worker, Sleep(w) \/ TakeStream(w) \/ ReadMore(w) \/ PutBack(w) \/ Finish(w) \/ Spurious(w)
      PROVE  FreshIds' /\ OwnIds'
  BY <1>2, <1>7 DEF Sleep, TakeStream, ReadMore, ReadPiece, PutBack, Finish, ReadEnds, Spurious, statsVars, poolVars
<1> QED BY <1>3, <1>4, <1>5, <1>6, <1>7 DEF Next, WorkerStep

\* A peer that is gone does not come back, and a worker gives its buffer up
\* before it leaves read.
LEMMA EndStep == PoolInv /\ [Next]_vars => EndedStreams' /\ EmptyBuffers'
<1> SUFFICES ASSUME PoolInv, [Next]_vars PROVE EndedStreams' /\ EmptyBuffers'
  OBVIOUS
<1>0. TypeOK /\ OnePlace /\ EndedStreams /\ EmptyBuffers
  BY DEF PoolInv
<1>1. ASSUME gone \subseteq gone', freed' = freed, pc' = pc, sofar' = sofar
      PROVE  EndedStreams' /\ EmptyBuffers'
  BY <1>0, <1>1 DEF EndedStreams, EmptyBuffers
<1>2. ASSUME NEW w \in Worker, TakeStream(w) \/ ReadMore(w) \/ GotBuffer(w) \/ PutBack(w) \/ Finish(w)
      PROVE  EmptyBuffers'
  <2>1. ASSUME NEW v \in Worker, v # w PROVE pc'[v] = pc[v] /\ sofar'[v] = sofar[v]
    BY <1>0, <1>2, <2>1 DEF TakeStream, ReadMore, ReadPiece, GotBuffer, ReadFull, PutBack, Finish, ReadEnds,
                            Goto, TypeOK, inputVars, poolVars
  <2>2. pc'[w] # "read" => sofar'[w] = 0
    <3>1. CASE TakeStream(w)
      BY <1>0, <3>1 DEF TakeStream, Goto, TypeOK
    <3>2. CASE ReadMore(w)
      BY <3>2 DEF ReadMore, At, poolVars
    <3>3. CASE GotBuffer(w)
      BY <1>0, <3>3 DEF GotBuffer, ReadFull, TypeOK
    <3>4. CASE PutBack(w)
      BY <1>0, <3>4 DEF PutBack, At, EmptyBuffers, inputVars
    <3>5. CASE Finish(w)
      BY <1>0, <3>5 DEF Finish, ReadEnds, TypeOK
    <3> QED BY <1>2, <3>1, <3>2, <3>3, <3>4, <3>5
  <2> QED BY <1>0, <2>1, <2>2 DEF EmptyBuffers
<1>3. ASSUME NEW w \in Worker, TakeStream(w) \/ ReadMore(w) \/ GotBuffer(w) \/ PutBack(w)
      PROVE  EndedStreams'
  BY <1>0, <1>3 DEF TakeStream, ReadMore, ReadPiece, GotBuffer, ReadFull, PutBack, Take, EndedStreams, inputVars, poolVars
<1>4. ASSUME NEW w \in Worker, Finish(w) PROVE EndedStreams'
  BY <1>0, <1>4 DEF Finish, ReadEnds, EndedStreams
<1>5. ASSUME AcceptFails \/ UNCHANGED vars PROVE EndedStreams' /\ EmptyBuffers'
  BY <1>1, <1>5 DEF AcceptFails, vars, inputVars, poolVars
<1>6. ASSUME NEW c \in Conn, Accept(c) \/ Peer(c) PROVE EndedStreams' /\ EmptyBuffers'
  BY <1>1, <1>6 DEF Accept, Peer, Connect, Send, Close, Reset, inputVars, poolVars
<1>7. ASSUME NEW w \in Worker, Sleep(w) \/ Spurious(w) PROVE EndedStreams' /\ EmptyBuffers'
  BY <1>1, <1>7 DEF Sleep, Spurious, inputVars, poolVars
<1> QED BY <1>2, <1>3, <1>4, <1>5, <1>6, <1>7 DEF Next, WorkerStep

-----------------------------------------------------------------------------
(***************************************************************************)
(* No lost wakeup.                                                         *)
(***************************************************************************)

\* The workers that are awake and about to dequeue.
Takers == {w \in Worker \ asleep : pc[w] = "dequeue"}

\* There are finitely many of them, so they can be counted.
LEMMA TakersFinite == IsFiniteSet(Takers) /\ Cardinality(Takers) \in Nat
<1>1. IsFiniteSet(Worker) /\ Takers \subseteq Worker
  BY PoolAssumption DEF Worker, Takers
<1> QED BY <1>1, FS_Subset, FS_CardinalityType

\* The same in the next state.
LEMMA TakersFiniteNext == IsFiniteSet(Takers') /\ Cardinality(Takers') \in Nat
<1>1. IsFiniteSet(Worker) /\ Takers' \subseteq Worker
  BY PoolAssumption DEF Worker, Takers
<1> QED BY <1>1, FS_Subset, FS_CardinalityType

\* A worker falls asleep only before an empty queue; one that takes a stream
\* was a taker; every other step keeps the takers, or wakes everybody.
LEMMA WakeupStep == PoolInv /\ [Next]_vars => NoLostWakeup'
<1> SUFFICES ASSUME PoolInv, [Next]_vars PROVE NoLostWakeup'
  OBVIOUS
<1>0. TypeOK /\ OnePlace /\ NoLostWakeup
  BY DEF PoolInv
<1>1. asleep # {} => Len(list) <= Cardinality(Takers)
  BY <1>0 DEF NoLostWakeup, Takers
<1>2. SUFFICES asleep' # {} => Len(list') <= Cardinality(Takers')
  BY DEF NoLostWakeup, Takers
<1>3. Len(list) \in Nat
  BY <1>0, LenProperties DEF TypeOK
<1>4. ASSUME list' = list, asleep' # {} => asleep # {}, Takers \subseteq Takers'
      PROVE  asleep' # {} => Len(list') <= Cardinality(Takers')
  <2>1. Cardinality(Takers) <= Cardinality(Takers')
    BY <1>4, TakersFiniteNext, FS_Subset
  <2> QED BY <1>1, <1>3, <1>4, <2>1, TakersFinite, TakersFiniteNext
<1>5. ASSUME NEW w \in Worker, Sleep(w) PROVE Len(list') <= Cardinality(Takers')
  BY <1>5, TakersFiniteNext DEF Sleep, DequeueWaits
<1>6. ASSUME NEW w \in Worker, TakeStream(w)
      PROVE  asleep' # {} => Len(list') <= Cardinality(Takers')
  <2>1. PICK c \in Conn : DequeueReturns(w, c)
    BY <1>6 DEF TakeStream
  <2>2. Len(list) \in Nat \ {0} /\ Len(list') = Len(list) - 1 /\ asleep' = asleep /\ w \notin asleep
    BY <1>0, <2>1, DequeueFacts DEF OnePlace, TypeOK
  <2>3. pc[w] = "dequeue" /\ pc' = [pc EXCEPT ![w] = "read"]
    BY <1>6 DEF TakeStream, At, Goto
  <2>4. w \in Takers
    BY <2>2, <2>3 DEF Takers
  <2>5. Takers' = Takers \ {w}
    BY <1>0, <2>2, <2>3 DEF Takers, TypeOK
  <2>6. Cardinality(Takers') = Cardinality(Takers) - 1
    BY <2>4, <2>5, TakersFinite, FS_RemoveElement
  <2> QED BY <1>1, <2>2, <2>6, TakersFinite
<1>7. ASSUME NEW w \in Worker, ReadMore(w) \/ GotBuffer(w) \/ Finish(w)
      PROVE  asleep' # {} => Len(list') <= Cardinality(Takers')
  <2>1. list' = list /\ asleep' = asleep
    BY <1>7 DEF ReadMore, GotBuffer, Finish, recQueueVars
  <2>2. \A v \in Worker : pc[v] = "dequeue" => pc'[v] = "dequeue"
    BY <1>0, <1>7 DEF ReadMore, GotBuffer, Finish, At, Goto, TypeOK, poolVars
  <2>3. Takers \subseteq Takers'
    BY <2>1, <2>2 DEF Takers
  <2> QED BY <1>4, <2>1, <2>3
<1>8. ASSUME NEW w \in Worker, PutBack(w) PROVE asleep' = {}
  BY <1>8 DEF PutBack, Enqueue
<1>9. ASSUME NEW c \in Conn, Accept(c) PROVE asleep' = {}
  BY <1>9 DEF Accept, Enqueue
<1>10. ASSUME AcceptFails \/ UNCHANGED vars \/ \E c \in Conn : Peer(c)
       PROVE  asleep' # {} => Len(list') <= Cardinality(Takers')
  <2>1. list' = list /\ asleep' = asleep /\ pc' = pc
    BY <1>10 DEF AcceptFails, vars, Peer, Connect, Send, Close, Reset, recQueueVars, poolVars
  <2>2. Takers' = Takers
    BY <2>1 DEF Takers
  <2> QED BY <1>4, <2>1, <2>2
<1>11. ASSUME NEW w \in Worker, Spurious(w)
       PROVE  asleep' # {} => Len(list') <= Cardinality(Takers')
  <2>1. list' = list /\ asleep' = asleep \ {w} /\ pc' = pc
    BY <1>11 DEF Spurious, WakesUnsignalled, poolVars
  <2>2. Takers \subseteq Takers' /\ (asleep' # {} => asleep # {})
    BY <2>1 DEF Takers
  <2> QED BY <1>4, <2>1, <2>2
<1> QED BY <1>5, <1>6, <1>7, <1>8, <1>9, <1>10, <1>11 DEF Next, WorkerStep

-----------------------------------------------------------------------------
(***************************************************************************)
(* Every byte received is accounted for.                                   *)
(***************************************************************************)

\* The bytes of connection c that are neither unread nor counted.
Left(c) == delivered[c] - socket[c] - byte_array[flowId[c]]

\* Drained, for one connection.
DrainedOf(c) ==
  /\ c \in freed => socket[c] = 0 /\ Left(c) \in 0 .. (BUFFER_SIZE - 1)
  /\ c \notin freed /\ ~Held(c) => Left(c) = 0
  /\ \A w \in Worker : HeldBy(w, c) => Left(c) = sofar[w]

\* Drained speaks of one connection at a time.
LEMMA DrainedByConn == Drained <=> \A c \in Conn : DrainedOf(c)
BY DEF Drained, DrainedOf, Left

\* The same in the next state.
LEMMA DrainedByConnNext == (\A c \in Conn : DrainedOf(c)') => Drained'
BY DEF Drained, DrainedOf, Left

\* What a connection owns is numbers.
LEMMA LeftType ==
  ASSUME TypeOK, NEW c \in Conn
  PROVE  /\ flowId[c] \in FlowId
         /\ delivered[c] \in Nat /\ socket[c] \in Nat /\ byte_array[flowId[c]] \in Nat
<1>1. flowId[c] \in FlowId
  BY PoolAssumption, StatsAssumption DEF TypeOK, FlowId
<1> QED BY <1>1 DEF TypeOK

\* A connection nothing happens to stays as it is.
LEMMA DrainedKept ==
  ASSUME NEW c \in Conn, DrainedOf(c),
         delivered'[c] = delivered[c], socket'[c] = socket[c],
         byte_array'[flowId'[c]] = byte_array[flowId[c]],
         c \in freed' <=> c \in freed,
         \A w \in Worker : is'[w] = c <=> is[w] = c,
         \A w \in Worker : is[w] = c => sofar'[w] = sofar[w]
  PROVE  DrainedOf(c)'
<1>1. Left(c)' = Left(c)
  BY DEF Left
<1>2. Held(c)' <=> Held(c)
  BY DEF Held, HeldBy
<1> QED BY <1>1, <1>2 DEF DrainedOf, HeldBy

\* A read moves bytes from the socket into the buffer of the one worker, a full
\* buffer from there to the flow's count, and the end drops the buffer.
LEMMA DrainedStep == PoolInv /\ [Next]_vars => Drained'
<1> SUFFICES ASSUME PoolInv, [Next]_vars, NEW d \in Conn PROVE DrainedOf(d)'
  BY DrainedByConnNext
<1>0. TypeOK /\ OnePlace /\ FreshIds /\ OwnIds /\ EndedStreams /\ EmptyBuffers
  BY DEF PoolInv
<1>a. BUFFER_SIZE \in Nat \ {0, 1}
  BY BufferAssumption
<1>d. DrainedOf(d)
  BY DrainedByConn DEF PoolInv
<1>t. flowId[d] \in FlowId /\ delivered[d] \in Nat /\ socket[d] \in Nat /\ byte_array[flowId[d]] \in Nat
  BY <1>0, LeftType
<1>1. ASSUME statsVars' = statsVars, inputVars' = inputVars, flowId' = flowId, is' = is, freed' = freed,
             delivered' = delivered
      PROVE  DrainedOf(d)'
  BY <1>1, <1>d, DrainedKept DEF statsVars, inputVars
<1>2. ASSUME NEW c \in Conn, Accept(c) PROVE DrainedOf(d)'
  <2>1. byte_array' = byte_array /\ inputVars' = inputVars /\ is' = is /\ freed' = freed
        /\ delivered' = delivered /\ flowId' = [flowId EXCEPT ![c] = nflows + 1] /\ flowId[c] = 0
        /\ nflows < maxFds
    BY <1>2 DEF Accept, statsVars
  <2>2. nflows + 1 \in FlowId /\ 0 \in FlowId
    BY <1>0, <2>1, PoolAssumption, StatsAssumption DEF TypeOK, FlowId
  <2>3. nflows \in Nat
    BY <1>0, PoolAssumption DEF TypeOK
  <2>4. byte_array[nflows + 1] = 0 /\ byte_array[0] = 0
    BY <1>0, <2>2, <2>3 DEF FreshIds
  <2>5. flowId'[d] = IF d = c THEN nflows + 1 ELSE flowId[d]
    BY <1>0, <2>1 DEF TypeOK
  <2>6. byte_array'[flowId'[d]] = byte_array[flowId[d]]
    BY <2>1, <2>4, <2>5
  <2> QED BY <1>d, <2>1, <2>6, DrainedKept DEF inputVars
<1>3. ASSUME NEW w \in Worker, TakeStream(w) PROVE DrainedOf(d)'
  <2>1. PICK c \in Conn : DequeueReturns(w, c) /\ is' = [is EXCEPT ![w] = c]
    BY <1>3 DEF TakeStream
  <2>2. statsVars' = statsVars /\ inputVars' = inputVars /\ flowId' = flowId /\ freed' = freed
        /\ delivered' = delivered /\ pc[w] = "dequeue"
    BY <1>3 DEF TakeStream, At
  <2>3. Queued(c) /\ is[w] = None /\ sofar[w] = 0
    BY <1>0, <2>1, <2>2, DequeueFacts DEF OnePlace, TypeOK, EmptyBuffers
  <2>4. ~Held(c) /\ c \notin freed
    BY <1>0, <2>3 DEF OnePlace
  <2>5. \A v \in Worker : is'[v] = IF v = w THEN c ELSE is[v]
    BY <1>0, <2>1 DEF TypeOK
  <2>6. CASE d = c
    <3>1. Left(d)' = 0
      BY <1>d, <2>2, <2>4, <2>6 DEF DrainedOf, Left, statsVars, inputVars
    <3>2. \A v \in Worker : HeldBy(v, d)' => v = w
      BY <2>4, <2>5, <2>6 DEF Held, HeldBy
    <3>3. sofar'[w] = 0 /\ d \notin freed' /\ Held(d)'
      BY <2>2, <2>3, <2>4, <2>5, <2>6 DEF inputVars, Held, HeldBy
    <3> QED BY <3>1, <3>2, <3>3 DEF DrainedOf
  <2>7. CASE d # c
    <3>1. \A v \in Worker : is'[v] = d <=> is[v] = d
      BY <2>3, <2>5, <2>7, PoolAssumption
    <3> QED BY <1>d, <2>2, <3>1, DrainedKept DEF statsVars, inputVars
  <2> QED BY <2>6, <2>7
<1>4. ASSUME NEW w \in Worker, ReadMore(w) PROVE DrainedOf(d)'
  <2>1. is[w] \in Conn /\ is[w] \notin freed /\ Held(is[w]) /\ HeldBy(w, is[w])
    BY <1>0, <1>4, Holding DEF ReadMore, At
  <2>2. PICK n \in 1 .. Missing(w) : Take(is[w], n) /\ sofar' = [sofar EXCEPT ![w] = @ + n]
    BY <1>4 DEF ReadMore, ReadPiece
  <2>3. statsVars' = statsVars /\ flowId' = flowId /\ is' = is /\ freed' = freed /\ delivered' = delivered
    BY <1>4 DEF ReadMore, ReadPiece, poolVars, statsVars
  <2>4. socket' = [socket EXCEPT ![is[w]] = @ - n]
    BY <2>2 DEF Take
  <2>5. CASE d = is[w]
    <3>1. \A v \in Worker : HeldBy(v, d) => v = w
      BY <1>0, <2>1, <2>5, PoolAssumption DEF OnePlace, HeldBy
    <3>2. socket'[d] = socket[d] - n /\ sofar'[w] = sofar[w] + n
      BY <1>0, <2>2, <2>4, <2>5 DEF TypeOK
    <3>3. Left(d) = sofar[w] /\ sofar[w] \in Int /\ n \in Int
      BY <1>0, <1>a, <1>d, <2>1, <2>5 DEF DrainedOf, TypeOK, Missing
    <3>4. Left(d)' = sofar'[w]
      BY <1>t, <2>3, <3>2, <3>3 DEF Left, statsVars
    <3>5. Held(d)' /\ d \notin freed'
      BY <2>1, <2>3, <2>5 DEF Held, HeldBy
    <3>6. \A v \in Worker : HeldBy(v, d)' => v = w
      BY <2>3, <3>1 DEF HeldBy
    <3> QED BY <3>4, <3>5, <3>6 DEF DrainedOf
  <2>6. CASE d # is[w]
    <3>1. socket'[d] = socket[d] /\ \A v \in Worker : is[v] = d => sofar'[v] = sofar[v]
      BY <1>0, <2>2, <2>4, <2>6 DEF TypeOK
    <3> QED BY <1>d, <2>3, <3>1, DrainedKept DEF statsVars
  <2> QED BY <2>5, <2>6
<1>5. ASSUME NEW w \in Worker, GotBuffer(w) PROVE DrainedOf(d)'
  <2>1. /\ is[w] \in Conn /\ is[w] \notin freed /\ Held(is[w]) /\ HeldBy(w, is[w])
        /\ flowId[is[w]] \in FlowId \ {0}
    BY <1>0, <1>5, Holding DEF GotBuffer, At
  <2>2. /\ socket' = socket /\ Missing(w) = 0
        /\ sofar' = [sofar EXCEPT ![w] = 0]
        /\ byte_array' = [byte_array EXCEPT ![flowId[is[w]]] = @ + BUFFER_SIZE]
        /\ flowId' = flowId /\ is' = is /\ freed' = freed /\ delivered' = delivered
    BY <1>5 DEF GotBuffer, ReadFull, Update
  <2>3. CASE d = is[w]
    <3>1. \A v \in Worker : HeldBy(v, d) => v = w
      BY <1>0, <2>1, <2>3, PoolAssumption DEF OnePlace, HeldBy
    <3>2. socket'[d] = socket[d] /\ BUFFER_SIZE - sofar[w] = 0 /\ sofar'[w] = 0
          /\ byte_array'[flowId'[d]] = byte_array[flowId[d]] + BUFFER_SIZE
      BY <1>0, <1>t, <2>2, <2>3 DEF TypeOK, Missing
    <3>3. Left(d) = sofar[w] /\ sofar[w] \in Int
      BY <1>0, <1>d, <2>1, <2>3 DEF DrainedOf, TypeOK
    <3>4. Left(d)' = 0
      BY <1>a, <1>t, <2>2, <3>2, <3>3 DEF Left
    <3>5. Held(d)' /\ d \notin freed'
      BY <2>1, <2>2, <2>3 DEF Held, HeldBy
    <3>6. \A v \in Worker : HeldBy(v, d)' => v = w
      BY <2>2, <3>1 DEF HeldBy
    <3> QED BY <3>2, <3>4, <3>5, <3>6 DEF DrainedOf
  <2>4. CASE d # is[w]
    <3>1. socket'[d] = socket[d] /\ \A v \in Worker : is[v] = d => sofar'[v] = sofar[v]
      BY <1>0, <2>2, <2>4 DEF TypeOK
    <3>2. flowId[d] # flowId[is[w]]
      BY <1>0, <2>1, <2>4 DEF OwnIds
    <3>3. byte_array'[flowId'[d]] = byte_array[flowId[d]]
      BY <1>0, <1>t, <2>2, <3>2 DEF TypeOK
    <3> QED BY <1>d, <2>2, <3>1, <3>3, DrainedKept
  <2> QED BY <2>3, <2>4
<1>6. ASSUME NEW w \in Worker, PutBack(w) PROVE DrainedOf(d)'
  <2>1. /\ is[w] \in Conn /\ is[w] \notin freed /\ HeldBy(w, is[w]) /\ sofar[w] = 0
    BY <1>0, <1>6, Holding DEF PutBack, At, EmptyBuffers
  <2>2. statsVars' = statsVars /\ inputVars' = inputVars /\ flowId' = flowId /\ freed' = freed
        /\ delivered' = delivered /\ is' = [is EXCEPT ![w] = None]
    BY <1>6 DEF PutBack
  <2>3. \A v \in Worker : is'[v] = IF v = w THEN None ELSE is[v]
    BY <1>0, <2>2 DEF TypeOK
  <2>4. CASE d = is[w]
    <3>1. Left(d)' = 0
      BY <1>d, <2>1, <2>2, <2>4 DEF DrainedOf, Left, statsVars, inputVars
    <3>2. \A v \in Worker : ~HeldBy(v, d)'
      BY <1>0, <2>1, <2>3, <2>4, PoolAssumption DEF OnePlace, HeldBy
    <3> QED BY <2>1, <2>2, <2>4, <3>1, <3>2 DEF DrainedOf
  <2>5. CASE d # is[w]
    <3>1. \A v \in Worker : is'[v] = d <=> is[v] = d
      BY <2>3, <2>5, PoolAssumption
    <3> QED BY <1>d, <2>2, <3>1, DrainedKept DEF statsVars, inputVars
  <2> QED BY <2>4, <2>5
<1>7. ASSUME NEW w \in Worker, Finish(w) PROVE DrainedOf(d)'
  <2>1. /\ is[w] \in Conn /\ is[w] \notin freed /\ HeldBy(w, is[w])
    BY <1>0, <1>7, Holding DEF Finish, At
  <2>2. /\ statsVars' = statsVars /\ socket' = socket /\ flowId' = flowId /\ delivered' = delivered
        /\ is' = [is EXCEPT ![w] = None] /\ freed' = freed \cup {is[w]}
        /\ sofar' = [sofar EXCEPT ![w] = 0] /\ socket[is[w]] = 0 /\ Missing(w) > 0
    BY <1>7 DEF Finish, ReadEnds, statsVars
  <2>3. \A v \in Worker : is'[v] = IF v = w THEN None ELSE is[v]
    BY <1>0, <2>2 DEF TypeOK
  <2>4. CASE d = is[w]
    <3>1. Left(d)' = Left(d)
      BY <2>2 DEF Left, statsVars
    <3>2. Left(d)' \in 0 .. (BUFFER_SIZE - 1)
      <4>1. Left(d)' = sofar[w]
        BY <1>d, <2>1, <2>4, <3>1 DEF DrainedOf
      <4>2. sofar[w] \in 0 .. BUFFER_SIZE /\ BUFFER_SIZE - sofar[w] > 0
        BY <1>0, <2>2 DEF TypeOK, Missing
      <4> QED BY <1>a, <4>1, <4>2
    <3>3. \A v \in Worker : ~HeldBy(v, d)'
      BY <1>0, <2>1, <2>3, <2>4, PoolAssumption DEF OnePlace, HeldBy
    <3> QED BY <2>2, <2>4, <3>2, <3>3 DEF DrainedOf
  <2>5. CASE d # is[w]
    <3>1. \A v \in Worker : is'[v] = d <=> is[v] = d
      BY <2>3, <2>5, PoolAssumption
    <3>2. \A v \in Worker : is[v] = d => sofar'[v] = sofar[v]
      BY <1>0, <2>2, <2>5 DEF TypeOK
    <3> QED BY <1>d, <2>2, <2>5, <3>1, <3>2, DrainedKept DEF statsVars
  <2> QED BY <2>4, <2>5
<1>8. ASSUME NEW c \in Conn, Send(c) \/ Reset(c) PROVE DrainedOf(d)'
  <2>1. byte_array' = byte_array /\ sofar' = sofar /\ flowId' = flowId /\ is' = is /\ freed' = freed
        /\ c \notin gone
    BY <1>8 DEF Send, Reset, Open, statsVars
  <2>2. \A e \in Conn : e # c => socket'[e] = socket[e] /\ delivered'[e] = delivered[e]
    BY <1>0, <1>8 DEF Send, Reset, TypeOK
  <2>3. delivered'[c] - socket'[c] = delivered[c] - socket[c]
    <3>1. delivered[c] \in Nat /\ socket[c] \in Nat
      BY <1>0 DEF TypeOK
    <3>2. CASE Send(c)
      BY <1>0, <3>1, <3>2 DEF Send, TypeOK
    <3>3. CASE Reset(c)
      BY <1>0, <3>1, <3>3 DEF Reset, TypeOK
    <3> QED BY <1>8, <3>2, <3>3
  <2>4. CASE d = c
    <3>1. Left(d)' = Left(d)
      BY <2>1, <2>3, <2>4 DEF Left
    <3>2. d \notin freed
      BY <1>0, <2>1, <2>4 DEF EndedStreams
    <3> QED BY <1>d, <2>1, <3>1, <3>2 DEF DrainedOf, Held, HeldBy
  <2>5. CASE d # c
    BY <1>d, <2>1, <2>2, <2>5, DrainedKept
  <2> QED BY <2>4, <2>5
<1>9. ASSUME NEW c \in Conn, Close(c) PROVE DrainedOf(d)'
  BY <1>9, <1>d, DrainedKept DEF Close, statsVars, poolVars
<1>10. ASSUME NEW c \in Conn, Connect(c) PROVE DrainedOf(d)'
  BY <1>1, <1>10 DEF Connect
<1>11. ASSUME AcceptFails \/ UNCHANGED vars PROVE DrainedOf(d)'
  BY <1>1, <1>11 DEF AcceptFails, vars, poolVars
<1>12. ASSUME NEW w \in Worker, Sleep(w) \/ Spurious(w) PROVE DrainedOf(d)'
  BY <1>1, <1>12 DEF Sleep, Spurious, poolVars
<1> QED BY <1>2, <1>3, <1>4, <1>5, <1>6, <1>7, <1>8, <1>9, <1>10, <1>11, <1>12 DEF Next, Peer, WorkerStep

-----------------------------------------------------------------------------

\* The invariant holds at the start.
LEMMA InitInv == Init => PoolInv
<1> SUFFICES ASSUME Init PROVE PoolInv
  OBVIOUS
<1> USE DEF Init, StatsInit, InputInit, SocketInit, RecQueueInit
<1>a. 0 \in FlowId /\ BUFFER_SIZE \in Nat \ {0, 1}
  BY StatsAssumption, BufferAssumption DEF FlowId
<1>1. TypeOK
  <2>1. list \in Seq(Conn) /\ maxFds \in Nat
    BY PoolAssumption
  <2> QED BY <1>a, <2>1 DEF TypeOK, Worker
<1>2. OnePlace
  BY PoolAssumption DEF OnePlace, Accepted, Queued, Held, HeldBy
<1>3. FreshIds /\ OwnIds /\ EndedStreams /\ EmptyBuffers
  BY DEF FreshIds, OwnIds, EndedStreams, EmptyBuffers, Worker
<1>4. Drained
  <2>1. \A c \in Conn : ~Held(c) /\ c \notin freed
    BY PoolAssumption DEF Held, HeldBy
  <2>2. \A c \in Conn : Left(c) = 0
    <3> SUFFICES ASSUME NEW c \in Conn PROVE Left(c) = 0
      OBVIOUS
    <3>1. delivered[c] = 0 /\ socket[c] = 0 /\ flowId[c] = 0
      OBVIOUS
    <3>2. \A f \in FlowId : byte_array[f] = 0
      OBVIOUS
    <3> HIDE DEF Init, StatsInit, InputInit, SocketInit, RecQueueInit
    <3>3. byte_array[flowId[c]] = 0
      BY <1>a, <3>1, <3>2
    <3> QED BY <3>1, <3>3 DEF Left
  <2>3. \A c \in Conn : DrainedOf(c)
    BY <2>1, <2>2 DEF DrainedOf, Held
  <2> QED BY <2>3, DrainedByConn
<1>5. NoLostWakeup
  <2>1. asleep = {}
    OBVIOUS
  <2> HIDE DEF Init, StatsInit, InputInit, SocketInit, RecQueueInit
  <2> QED BY <2>1 DEF NoLostWakeup
<1> QED BY <1>1, <1>2, <1>3, <1>4, <1>5 DEF PoolInv

\* The invariant of the receive pool: a stream is in one place, its bytes are
\* all accounted for, and no broadcast of the queue is lost.
THEOREM PoolInvariance == Spec => []PoolInv
<1>1. PoolInv /\ [Next]_vars => PoolInv'
  BY TypeStep, OnePlaceStep, IdsStep, EndStep, DrainedStep, WakeupStep DEF PoolInv
<1> QED BY InitInv, <1>1, PTL DEF Spec

\* The types of the receive pool's variables (receivePool.cc, rec_queue.cc).
THEOREM TypeCorrect == Spec => []TypeOK
BY PoolInvariance, PTL DEF PoolInv

\* main and worker: an accepted stream is in the queue once, with one worker,
\* or freed, and in no two of these places.
THEOREM InOnePlace == Spec => []OnePlace
BY PoolInvariance, PTL DEF PoolInv

\* correct_read and InputStream::read: the bytes of a stream are unread, in the
\* buffer of its worker or counted; at its end less than a buffer is dropped.
THEOREM AllDrained == Spec => []Drained
BY PoolInvariance, PTL DEF PoolInv

\* enqueue and dequeue: no worker sleeps while streams queue, unless enough
\* others are about to take them all.
THEOREM WakeupsKept == Spec => []NoLostWakeup
BY PoolInvariance, PTL DEF PoolInv

-----------------------------------------------------------------------------
(***************************************************************************)
(* The pool implements StreamPool.                                         *)
(***************************************************************************)

\* The instance counts as this module does.
LEMMA SameCardinality == \A S : Pool!Cardinality(S) = Cardinality(S)
BY DEF Pool!Cardinality, Cardinality

\* A step moves one connection, and the others stay.
LEMMA Moved ==
  ASSUME NEW c \in Conn, NEW from, NEW to, Life[c] = from, Life'[c] = to,
         \A d \in Conn : d # c => Life'[d] = Life[d]
  PROVE  Pool!Moves(c, from, to)
<1>1. Life' = [Life EXCEPT ![c] = to]
  BY DEF Life
<1> QED BY <1>1 DEF Pool!Moves

\* A step that changes neither queue, nor workers, nor the freed streams moves
\* none.
LEMMA LifeKept ==
  ASSUME list' = list, is' = is, freed' = freed
  PROVE  Life' = Life
BY DEF Life, Held, HeldBy, Queued

\* Each worker serves at most one stream, so that a worker without one leaves
\* room for one more to be served.
LEMMA RoomToServe ==
  ASSUME TypeOK, OnePlace, NEW w \in Worker, is[w] = None
  PROVE  Cardinality({d \in Conn : Life[d] = "served"}) < Cardinality(Worker)
<1> DEFINE Serving == {d \in Conn : Life[d] = "served"}
           Of == [d \in Serving |-> CHOOSE v \in Worker : is[v] = d]
<1>1. \A d \in Serving : \E v \in Worker : is[v] = d
  BY DEF Life, Held, HeldBy
<1>2. \A d \in Serving : Of[d] \in Worker /\ is[Of[d]] = d
  BY <1>1
<1>3. \A d \in Serving : d # None
  BY PoolAssumption
<1>4. \A d \in Serving : Of[d] \in Worker \ {w}
  BY <1>2, <1>3
<1>5. Of \in Injection(Serving, Worker \ {w})
  <2>1. Of \in [Serving -> Worker \ {w}]
    BY <1>4
  <2>2. \A d, e \in Serving : Of[d] = Of[e] => d = e
    BY <1>2
  <2> QED BY <2>1, <2>2 DEF Injection, IsInjective
<1>6. IsFiniteSet(Worker)
  BY PoolAssumption DEF Worker
<1>7. /\ IsFiniteSet(Worker \ {w})
      /\ Cardinality(Worker \ {w}) = Cardinality(Worker) - 1
      /\ Cardinality(Worker) \in Nat /\ Cardinality(Worker \ {w}) \in Nat
  BY <1>6, FS_RemoveElement, FS_CardinalityType
<1> HIDE DEF Of
<1>8. IsFiniteSet(Serving) /\ Cardinality(Serving) <= Cardinality(Worker \ {w})
  BY <1>5, <1>7, FS_Injection
<1>9. Cardinality(Serving) \in Nat
  BY <1>8, FS_CardinalityType
<1> QED BY <1>7, <1>8, <1>9

\* Accept, dequeue, put back and end are the four steps of a stream's life, and
\* nothing else is.
LEMMA PoolStep == PoolInv /\ PoolInv' /\ [Next]_vars => [Pool!PoolNext]_Life
<1> SUFFICES ASSUME PoolInv, PoolInv', [Next]_vars PROVE [Pool!PoolNext]_Life
  OBVIOUS
<1>0. TypeOK /\ OnePlace
  BY DEF PoolInv
<1>n. \A d \in Conn : Accepted(d)' <=> Queued(d)' \/ Held(d)' \/ d \in freed'
  BY DEF PoolInv, OnePlace
<1>1. ASSUME NEW c \in Conn, Accept(c) PROVE Pool!Accepted(c)
  <2>1. is' = is /\ freed' = freed /\ \A d \in Conn : Queued(d)' <=> Queued(d) \/ d = c
    BY <1>0, <1>1, EnqueueFacts DEF Accept, TypeOK
  <2>2. \A d \in Conn : Held(d)' <=> Held(d)
    BY <2>1 DEF Held, HeldBy
  <2>3. ~Queued(c) /\ ~Held(c) /\ c \notin freed
    BY <1>0, <1>1 DEF Accept, OnePlace, Accepted
  <2>4. Life[c] = "new" /\ Life'[c] = "pooled"
    BY <2>1, <2>2, <2>3 DEF Life
  <2>5. \A d \in Conn : d # c => Life'[d] = Life[d]
    BY <2>1, <2>2 DEF Life
  <2> QED BY <2>4, <2>5, Moved DEF Pool!Accepted
<1>2. ASSUME NEW w \in Worker, TakeStream(w) PROVE \E c \in Conn : Pool!Served(c)
  <2>1. PICK c \in Conn : DequeueReturns(w, c) /\ is' = [is EXCEPT ![w] = c]
    BY <1>2 DEF TakeStream
  <2>2. Queued(c) /\ freed' = freed /\ \A d \in Conn : Queued(d)' <=> Queued(d) /\ d # c
    BY <1>0, <1>2, <2>1, DequeueFacts DEF TakeStream, OnePlace, TypeOK
  <2>3. is[w] = None /\ ~Held(c) /\ c \notin freed
    BY <1>0, <1>2, <2>2 DEF TakeStream, At, OnePlace
  <2>4. \A v \in Worker : is'[v] = IF v = w THEN c ELSE is[v]
    BY <1>0, <2>1 DEF TypeOK
  <2>5. \A d \in Conn : Held(d)' <=> Held(d) \/ d = c
    BY <2>3, <2>4, PoolAssumption DEF Held, HeldBy
  <2>6. Life[c] = "pooled" /\ Life'[c] = "served"
    BY <2>2, <2>3, <2>5 DEF Life
  <2>7. \A d \in Conn : d # c => Life'[d] = Life[d]
    BY <2>2, <2>5 DEF Life
  <2>8. Pool!Moves(c, "pooled", "served")
    BY <2>6, <2>7, Moved
  <2>9. Cardinality({d \in Conn : Life[d] = "served"}) < Cardinality(Worker)
    BY <1>0, <2>3, RoomToServe
  <2> QED BY <2>8, <2>9, SameCardinality DEF Pool!Served
<1>3. ASSUME NEW w \in Worker, PutBack(w) PROVE \E c \in Conn : Pool!Returned(c)
  <2> DEFINE c == is[w]
  <2>1. c \in Conn /\ Held(c) /\ ~Queued(c) /\ c \notin freed
    BY <1>0, <1>3, Holding DEF PutBack, At
  <2>2. is' = [is EXCEPT ![w] = None] /\ freed' = freed /\ \A d \in Conn : Queued(d)' <=> Queued(d) \/ d = c
    BY <1>0, <1>3, <2>1, EnqueueFacts DEF PutBack, TypeOK
  <2>3. \A d \in Conn : Held(d)' <=> Held(d) /\ d # c
    BY <1>0, <2>1, <2>2, PoolAssumption DEF Held, HeldBy, OnePlace, TypeOK
  <2> HIDE DEF c
  <2>4. Life[c] = "served" /\ Life'[c] = "pooled"
    BY <2>1, <2>2, <2>3 DEF Life
  <2>5. \A d \in Conn : d # c => Life'[d] = Life[d]
    BY <2>2, <2>3 DEF Life
  <2> QED BY <2>1, <2>4, <2>5, Moved DEF Pool!Returned
<1>4. ASSUME NEW w \in Worker, Finish(w) PROVE \E c \in Conn : Pool!Ended(c)
  <2> DEFINE c == is[w]
  <2>1. c \in Conn /\ Held(c) /\ ~Queued(c) /\ c \notin freed
    BY <1>0, <1>4, Holding DEF Finish, At
  <2>2. is' = [is EXCEPT ![w] = None] /\ freed' = freed \cup {c} /\ list' = list
    BY <1>4 DEF Finish, recQueueVars
  <2>3. \A d \in Conn : Held(d)' <=> Held(d) /\ d # c
    BY <1>0, <2>1, <2>2, PoolAssumption DEF Held, HeldBy, OnePlace, TypeOK
  <2>4. \A d \in Conn : Queued(d)' <=> Queued(d)
    BY <2>2 DEF Queued
  <2> HIDE DEF c
  <2>5. Life[c] = "served" /\ Life'[c] = "ended"
    BY <2>1, <2>2 DEF Life
  <2>6. \A d \in Conn : d # c => Life'[d] = Life[d]
    BY <2>2, <2>3, <2>4 DEF Life
  <2> QED BY <2>1, <2>5, <2>6, Moved DEF Pool!Ended
<1>5. ASSUME AcceptFails \/ UNCHANGED vars PROVE Life' = Life
  BY <1>5, LifeKept DEF AcceptFails, vars, recQueueVars, poolVars
<1>6. ASSUME NEW c \in Conn, Peer(c) PROVE Life' = Life
  BY <1>6, LifeKept DEF Peer, Connect, Send, Close, Reset, recQueueVars, poolVars
<1>7. ASSUME NEW w \in Worker, Sleep(w) \/ ReadMore(w) \/ GotBuffer(w) \/ Spurious(w) PROVE Life' = Life
  BY <1>7, LifeKept DEF Sleep, DequeueWaits, ReadMore, GotBuffer, Spurious, WakesUnsignalled,
                        recQueueVars, poolVars
<1> QED BY <1>1, <1>2, <1>3, <1>4, <1>5, <1>6, <1>7 DEF Next, WorkerStep, Pool!PoolNext

\* receivePool.cc keeps the promise of StreamPool: every connection is accepted
\* once, served by one worker at a time, put back or ended, and never more are
\* served at a time than there are workers.
THEOREM PoolImplemented == Spec => ImplementsPool
<1>1. Init => Pool!PoolInit
  <2> SUFFICES ASSUME Init PROVE \A c \in Conn : Life[c] = "new"
    BY DEF Pool!PoolInit, Life
  <2>1. \A c \in Conn : ~Held(c) /\ c \notin freed
    BY PoolAssumption DEF Init, Held, HeldBy
  <2>2. list = <<>> /\ Len(list) = 0
    BY EmptySeq DEF Init, RecQueueInit
  <2>3. \A c \in Conn : ~Queued(c)
    BY <2>2 DEF Queued
  <2> QED BY <2>1, <2>3 DEF Life
<1> QED BY <1>1, PoolInvariance, PoolStep, PTL DEF Spec, ImplementsPool, Pool!PoolSpec

=============================================================================
