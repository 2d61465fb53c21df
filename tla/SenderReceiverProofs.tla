------------------------ MODULE SenderReceiverProofs ------------------------
(***************************************************************************)
(* The stand-alone sender and receiver, for any number of flows and recv   *)
(* threads, any buffers and any limit of descriptors: what the sender      *)
(* writes is counted by the receiver, up to a part of a buffer for each    *)
(* thread that has met the end of its stream.                              *)
(***************************************************************************)
EXTENDS SenderReceiver, Arithmetic, FiniteSetTheorems, TLAPS

\* Connections are made, queued and accepted in the order of the flows, so that
\* the receiver's number of a flow is the sender's plus one.  Before the
\* receiver listens, and after it has exited, none is made.
Connections ==
  /\ receiver # "exited" => /\ Accepts + Len(backlog) = started
                            /\ \A i \in 1 .. Len(backlog) : backlog[i] = Accepts + i - 1
  /\ \A c \in Flow : flowId[c] = IF c < Accepts THEN c + 1 ELSE 0
  /\ listening => receiver = "accept"
  /\ sender = "start" => started < nflows
  /\ sender # "exited" => sec <= dieTime

\* The bytes of flow f that have been written and are nowhere any more.
Lost(f) == Written(f) - socket[f] - InHand(f) - byte_array[f + 1]

\* The inductive invariant.
ProgramsInv == TypeOK /\ Connections /\ LossBounded

\* What the assumptions say of the flows and the threads.
LEMMA Threads ==
  /\ nflows \in Nat \ {0} /\ Flow = 0 .. (nflows - 1)
  /\ Flow \subseteq FlowId /\ 0 \in FlowId /\ FlowId \subseteq Nat
  /\ \A f \in Flow : f \in Nat /\ f + 1 \in FlowId /\ f + 1 \in 0 .. nflows
  /\ BUFFER_SIZE \in Nat \ {0, 1} /\ BUF_SIZE \in Nat \ {0} /\ Room \in Nat \ {0}
  /\ MaxBytes \in Nat /\ Backlog \in Nat \ {0} /\ dieTime \in Nat
  /\ \A t \in Sender : FlowOf(t) \in Flow
  /\ \A r \in Reader : FlowOf(r) \in Flow
  /\ \A f \in Flow : IsFiniteSet(Of(f, Sender)) /\ IsFiniteSet(Of(f, Reader))
<1>1. /\ nflows \in Nat \ {0} /\ Flow = 0 .. (nflows - 1) /\ nflows < MAX_FLOW_ID
      /\ MAX_FLOW_ID \in Nat \ {0}
  BY ProgramsAssumption, StatsAssumption DEF Flow
<1>2. \A t \in Sender : FlowOf(t) \in Flow
  BY DEF Sender, FlowOf
<1>3. \A f \in Flow : IsFiniteSet(Of(f, Reader))
  <2>1. \A f \in Flow : Of(f, Reader) \in SUBSET Reader
    BY DEF Of
  <2> QED BY <2>1, ProgramsAssumption, FS_Subset
<1>4. ASSUME NEW f \in Flow PROVE IsFiniteSet(Of(f, Sender))
  <2>1. f \in Nat
    BY <1>1
  <2>2. IsFiniteSet({f}) /\ IsFiniteSet(0 .. f)
    <3>1. IsFiniteSet({f})
      BY FS_Singleton
    <3>2. 0 \in Int /\ f \in Int
      BY <2>1
    <3> QED BY <3>1, <3>2, FS_Interval
  <2>3. IsFiniteSet({f} \X (0 .. f))
    BY <2>2, FS_Product
  <2>4. Of(f, Sender) \in SUBSET ({f} \X (0 .. f))
    BY DEF Of, Sender, FlowOf
  <2> QED BY <2>3, <2>4, FS_Subset
<1>5. FlowId = 0 .. (MAX_FLOW_ID - 1)
  BY DEF FlowId
<1>6. /\ Flow \subseteq FlowId /\ 0 \in FlowId /\ FlowId \subseteq Nat
      /\ \A f \in Flow : f \in Nat /\ f + 1 \in FlowId /\ f + 1 \in 0 .. nflows
  BY <1>1, <1>5
<1> QED
  BY <1>1, <1>2, <1>3, <1>4, <1>6, ProgramsAssumption, BufferAssumption, BacklogAssumption
     DEF FlowOf

\* How many connections are accepted, as long as they are the first ones.
LEMMA AcceptsIs ==
  ASSUME NEW n \in 0 .. nflows, \A c \in Flow : Accepted(c) <=> c < n
  PROVE  Accepts = n
<1>1. {c \in Flow : Accepted(c)} = 0 .. (n - 1)
  BY Threads
<1>2. 0 \in Int /\ n - 1 \in Int /\ n \in Nat
  BY Threads
<1>3. Cardinality(0 .. (n - 1)) = n
  BY <1>2, FS_Interval
<1> QED
  BY <1>1, <1>3 DEF Accepts

\* No more connections are accepted than there are flows.
LEMMA AcceptsType == Accepts \in 0 .. nflows
<1>1. {c \in Flow : Accepted(c)} \in SUBSET (0 .. (nflows - 1))
  BY Threads
<1>2. IsFiniteSet(0 .. (nflows - 1)) /\ Cardinality(0 .. (nflows - 1)) = nflows
  BY Threads, FS_Interval
<1> QED
  BY <1>1, <1>2, Threads, FS_Subset, FS_CardinalityType DEF Accepts

\* The values of a state's functions.
LEMMA Values ==
  ASSUME TypeOK
  PROVE  /\ \A f \in Flow : socket[f] \in 0 .. Room /\ socket[f] \in Int
         /\ \A f \in FlowId : byte_array[f] \in Nat /\ byte_array[f] \in Int
         /\ \A t \in Sender : /\ tot[t] \in 0 .. MaxBytes /\ wrote[t] \in 0 .. BUF_SIZE
                              /\ tot[t] \in Int /\ wrote[t] \in Int
         /\ \A r \in Reader : sofar[r] \in 0 .. BUFFER_SIZE /\ sofar[r] \in Int
<1>1. /\ socket \in [Flow -> 0 .. Room] /\ sofar \in [Reader -> 0 .. BUFFER_SIZE]
      /\ wrote \in [Sender -> 0 .. BUF_SIZE] /\ tot \in [Sender -> 0 .. MaxBytes]
      /\ byte_array \in [FlowId -> Nat]
  BY DEF TypeOK
<1>2. /\ \A n \in 0 .. Room : n \in Int
      /\ \A n \in 0 .. BUFFER_SIZE : n \in Int
      /\ \A n \in 0 .. BUF_SIZE : n \in Int
      /\ \A n \in 0 .. MaxBytes : n \in Int
      /\ \A n \in Nat : n \in Int
  OBVIOUS
<1>3. \A f \in Flow : socket[f] \in 0 .. Room
  BY <1>1
<1>4. \A t \in Sender : tot[t] \in 0 .. MaxBytes /\ wrote[t] \in 0 .. BUF_SIZE
  BY <1>1
<1>5. \A r \in Reader : sofar[r] \in 0 .. BUFFER_SIZE
  BY <1>1
<1>6. \A f \in FlowId : byte_array[f] \in Nat
  BY <1>1
<1> QED
  BY <1>2, <1>3, <1>4, <1>5, <1>6

\* The values the sums of a state have.
LEMMA SumTypes ==
  ASSUME TypeOK, NEW f \in Flow
  PROVE  /\ SumFunctionOnSet(tot, Of(f, Sender)) \in Int
         /\ SumFunctionOnSet(wrote, Of(f, Sender)) \in Int
         /\ Written(f) \in Int /\ InHand(f) \in Int /\ Lost(f) \in Int
         /\ IsFiniteSet(Of(f, over)) /\ Cardinality(Of(f, over)) \in Nat
<1>1. /\ \A t \in Of(f, Sender) : tot[t] \in Int /\ wrote[t] \in Int
      /\ \A r \in Of(f, Reader) : sofar[r] \in Int
  BY Values DEF Of
<1>2. IsFiniteSet(Of(f, Sender)) /\ IsFiniteSet(Of(f, Reader)) /\ f + 1 \in FlowId
  BY Threads
<1>3. Of(f, over) \in SUBSET Of(f, Reader)
  BY DEF Of, TypeOK
<1>4. /\ SumFunctionOnSet(tot, Of(f, Sender)) \in Int
      /\ SumFunctionOnSet(wrote, Of(f, Sender)) \in Int
      /\ InHand(f) \in Int
  BY <1>1, <1>2, SumStep DEF InHand
<1>5. Written(f) \in Int
  BY <1>4 DEF Written
<1>6. Lost(f) \in Int
  BY <1>2, <1>4, <1>5, Values DEF Lost
<1> QED
  BY <1>2, <1>3, <1>4, <1>5, <1>6, FS_Subset, FS_CardinalityType

\* The invariant holds at the start: no byte has been written.
LEMMA InitInv == Init => ProgramsInv
<1> SUFFICES ASSUME Init PROVE ProgramsInv
  OBVIOUS
<1>1. /\ socket = [c \in Conn |-> 0] /\ gone = {}
      /\ sofar = [r \in Reader |-> 0] /\ wrote = [t \in Sender |-> 0]
      /\ byte_array = [f \in FlowId |-> 0] /\ max_id = 0
      /\ sendBytes = [f \in FlowId |-> 0] /\ sendMax = 0
      /\ listening = FALSE /\ backlog = <<>> /\ sender = "start" /\ started = 0 /\ sec = 0
      /\ tot = [t \in Sender |-> 0] /\ receiver = "setup" /\ maxFds \in FdLimits
      /\ flowId = [c \in Flow |-> 0] /\ over = {}
  BY DEF Init, InputInit, SocketInit, StatsInit, Output!OutputInit,
         SendStats!StatsInit, SendStats!FlowId, FlowId, ListenerInit
<1>2. TypeOK
  <2>1. /\ listening \in BOOLEAN /\ maxFds \in FdLimits /\ sender \in {"start", "print", "exited"}
        /\ receiver \in {"setup", "accept", "exited"}
    BY <1>1
  <2>2. /\ max_id \in FlowId /\ sendMax \in FlowId /\ started \in 0 .. nflows
        /\ sec \in 0 .. (dieTime + 1)
    BY <1>1, Threads
  <2>3. gone \in SUBSET Flow /\ over \in SUBSET Reader
    BY <1>1
  <2>4. backlog \in Seq(Flow) /\ Len(backlog) <= Backlog
    <3>1. backlog = <<>> /\ Len(<<>>) = 0 /\ 0 <= Backlog
      BY <1>1, Threads
    <3> QED BY <3>1
  <2>5. /\ socket \in [Flow -> 0 .. Room] /\ sofar \in [Reader -> 0 .. BUFFER_SIZE]
        /\ wrote \in [Sender -> 0 .. BUF_SIZE] /\ tot \in [Sender -> 0 .. MaxBytes]
    BY <1>1, Threads DEF Flow
  <2>6. /\ byte_array \in [FlowId -> Nat] /\ sendBytes \in [FlowId -> Nat]
        /\ flowId \in [Flow -> 0 .. nflows]
    BY <1>1, Threads
  <2> QED BY <2>1, <2>2, <2>3, <2>4, <2>5, <2>6 DEF TypeOK
<1>3. Connections
  <2>1. \A c \in Flow : flowId[c] = 0 /\ ~(c < 0)
    <3>1. \A c \in Flow : flowId[c] = 0
      BY <1>1
    <3>2. \A c \in Flow : c \in Nat
      BY Threads
    <3> QED BY <3>1, <3>2
  <2>2. Accepts = 0
    <3>1. \A c \in Flow : Accepted(c) <=> c < 0
      BY <2>1 DEF Accepted
    <3>2. 0 \in 0 .. nflows
      BY Threads
    <3> QED BY <3>1, <3>2, AcceptsIs
  <2>3. Accepts + Len(backlog) = started /\ Len(backlog) = 0
    BY <1>1, <2>2
  <2>4. nflows \in Nat \ {0} /\ dieTime \in Nat
    BY Threads
  <2>5. \A c \in Flow : flowId[c] = IF c < Accepts THEN c + 1 ELSE 0
    BY <2>1, <2>2
  <2>6. sec <= dieTime /\ started < nflows /\ ~listening
    BY <1>1, <2>4
  <2> QED BY <2>3, <2>5, <2>6 DEF Connections
<1>4. LossBounded
  <2> SUFFICES ASSUME NEW f \in Flow
               PROVE  Lost(f) \in 0 .. (BUFFER_SIZE - 1) * Cardinality(Of(f, over))
    BY DEF LossBounded, Lost
  <2>1. /\ \A t \in Of(f, Sender) : tot[t] = 0 /\ wrote[t] = 0
        /\ \A r \in Of(f, Reader) : sofar[r] = 0
        /\ IsFiniteSet(Of(f, Sender)) /\ IsFiniteSet(Of(f, Reader))
    BY <1>1, Threads DEF Of
  <2>2. SumFunctionOnSet(tot, Of(f, Sender)) = 0 /\ SumFunctionOnSet(wrote, Of(f, Sender)) = 0
    BY <2>1, SumOfZeros
  <2>3. SumFunctionOnSet(sofar, Of(f, Reader)) = 0
    BY <2>1, SumOfZeros
  <2>4. socket[f] = 0 /\ byte_array[f + 1] = 0
    BY <1>1, Threads DEF Flow
  <2>5. Lost(f) = 0
    BY <2>2, <2>3, <2>4 DEF Lost, Written, InHand
  <2>6. Of(f, over) = {}
    BY <1>1 DEF Of
  <2>7. Cardinality(Of(f, over)) = 0
    BY <2>6, FS_EmptySet
  <2>8. (BUFFER_SIZE - 1) * Cardinality(Of(f, over)) = 0
    BY <2>7, Threads
  <2> QED BY <2>5, <2>8
<1> QED
  BY <1>2, <1>3, <1>4 DEF ProgramsInv

-----------------------------------------------------------------------------

\* Steps after which the same bytes are lost on every flow, and the same
\* threads are over, keep the bound.
LEMMA LossKept ==
  ASSUME LossBounded, over' = over, \A f \in Flow : Lost(f)' = Lost(f)
  PROVE  LossBounded'
<1>1. ASSUME NEW f \in Flow
      PROVE  Lost(f)' \in 0 .. (BUFFER_SIZE - 1) * Cardinality(Of(f, over)')
  <2>1. Of(f, over)' = Of(f, over)
    BY DEF Of, FlowOf
  <2>2. Lost(f) \in 0 .. (BUFFER_SIZE - 1) * Cardinality(Of(f, over))
    BY DEF LossBounded, Lost
  <2> QED BY <2>1, <2>2
<1> QED
  BY <1>1 DEF LossBounded, Lost

\* Steps that move no bytes are among them.
LEMMA QuietStep ==
  ASSUME LossBounded, UNCHANGED <<tot, wrote, socket, sofar, byte_array, over>>
  PROVE  LossBounded'
<1>1. \A f \in Flow : Lost(f)' = Lost(f)
  BY DEF Lost, Written, InHand, Of, FlowOf
<1> QED
  BY <1>1, LossKept

\* The sender's exit closes connections that were made.
LEMMA ExitTypes ==
  ASSUME TypeOK, Exit
  PROVE  sender' = "exited" /\ gone' \in SUBSET Flow
<1>1. started \in 0 .. nflows /\ nflows \in Nat /\ Flow = 0 .. (nflows - 1)
  BY Threads DEF TypeOK
<1>2. gone' = 0 .. (started - 1)
  BY DEF Exit
<1> QED
  BY <1>1, <1>2 DEF Exit

\* A connection of the sender's takes the next place in the queue; when it is
\* refused, nothing but the sender changes.
LEMMA StartFlowStep ==
  ASSUME ProgramsInv, StartFlow
  PROVE  ProgramsInv'
<1> USE DEF ProgramsInv
<1>1. /\ sender = "start"
      /\ UNCHANGED <<sendBytes, sendMax, wrote, sec, tot, byte_array, max_id, sofar, receiver,
                     maxFds, flowId, over, socket>>
  BY DEF StartFlow, sendStatsVars, receiverVars, statsVars
<1>2. LossBounded'
  BY <1>1, QuietStep
<1>3. Accepts' = Accepts
  BY <1>1 DEF Accepts, Accepted
<1>4. /\ started \in 0 .. nflows /\ started < nflows /\ sec <= dieTime
      /\ backlog \in Seq(Flow) /\ Len(backlog) \in Nat
      /\ Accepts \in Nat /\ nflows \in Nat /\ Backlog \in Nat /\ Flow = 0 .. (nflows - 1)
  <2>1. started \in 0 .. nflows /\ started < nflows /\ sec <= dieTime /\ backlog \in Seq(Flow)
    BY <1>1 DEF TypeOK, Connections
  <2>2. nflows \in Nat /\ Backlog \in Nat /\ Flow = 0 .. (nflows - 1)
    BY Threads
  <2>3. Accepts \in Nat /\ Len(backlog) \in Nat
    BY <2>1, <2>2, AcceptsType
  <2> QED BY <2>1, <2>2, <2>3
<1>5. CASE Refused
  <2>1. Exit /\ UNCHANGED <<listening, backlog, started>>
    BY <1>5 DEF StartFlow, listenerVars
  <2>2. sender' = "exited" /\ gone' \in SUBSET Flow
    BY <2>1, ExitTypes
  <2>3. TypeOK'
    BY <1>1, <2>1, <2>2 DEF TypeOK
  <2>4. Connections'
    BY <1>1, <1>3, <2>1, <2>2 DEF Connections
  <2> QED BY <1>2, <2>3, <2>4
<1>6. CASE ~Refused
  <2>1. /\ listening /\ Len(backlog) < Backlog
        /\ backlog' = Append(backlog, started) /\ listening' = listening
        /\ started' = started + 1
        /\ sender' = IF started' = nflows THEN "print" ELSE "start"
        /\ gone' = gone
    BY <1>6 DEF StartFlow, sconnect
  <2>2. started \in Flow /\ started' \in 0 .. nflows
    BY <1>4, <2>1
  <2>3. /\ backlog' \in Seq(Flow) /\ Len(backlog') = Len(backlog) + 1
        /\ \A i \in 1 .. Len(backlog) : backlog'[i] = backlog[i]
        /\ backlog'[Len(backlog) + 1] = started
    BY <1>4, <2>1, <2>2
  <2>4. /\ sender' \in {"start", "print"} /\ Len(backlog') <= Backlog
        /\ sender' = "start" => started' < nflows
    BY <1>4, <2>1, <2>2, <2>3
  <2>5. TypeOK'
    <3>1. sender' \in {"start", "print", "exited"}
      BY <2>4
    <3> QED BY <1>1, <2>1, <2>2, <2>3, <2>4, <3>1 DEF TypeOK
  <2>6. receiver = "accept" /\ Accepts + Len(backlog) = started
    <3>1. receiver = "accept"
      BY <2>1 DEF Connections
    <3> QED BY <3>1 DEF Connections
  <2>7. Accepts' + Len(backlog') = started'
    BY <1>3, <1>4, <2>1, <2>3, <2>6
  <2>8. ASSUME NEW i \in 1 .. Len(backlog') PROVE backlog'[i] = Accepts' + i - 1
    <3>1. CASE i = Len(backlog) + 1
      BY <1>3, <1>4, <2>3, <2>6, <3>1
    <3>2. CASE i # Len(backlog) + 1
      <4>1. i \in 1 .. Len(backlog)
        BY <1>4, <2>3, <3>2
      <4>2. backlog[i] = Accepts + i - 1
        BY <2>6, <4>1 DEF Connections
      <4> QED BY <1>3, <2>3, <4>1, <4>2
    <3> QED BY <3>1, <3>2
  <2>9. \A c \in Flow : flowId'[c] = IF c < Accepts' THEN c + 1 ELSE 0
    BY <1>1, <1>3 DEF Connections
  <2>10. Connections'
    BY <1>1, <1>4, <2>1, <2>4, <2>6, <2>7, <2>8, <2>9 DEF Connections
  <2> QED BY <1>2, <2>5, <2>10
<1> QED
  BY <1>5, <1>6

\* A line of the sender's statistics, after the last of which it exits.
LEMMA PrintStep ==
  ASSUME ProgramsInv, PrintStats
  PROVE  ProgramsInv'
<1> USE DEF ProgramsInv
<1>1. /\ sender = "print" /\ sec' = sec + 1
      /\ sendBytes' = [f \in FlowId |-> sendBytes[f] - SendStats!Line[f]] /\ sendMax' = sendMax
      /\ IF sec' > dieTime THEN Exit ELSE UNCHANGED <<sender, gone>>
      /\ UNCHANGED <<wrote, started, tot, byte_array, max_id, sofar, receiver, maxFds, flowId,
                     over, listening, backlog, socket>>
  BY DEF PrintStats, SendStats!ToString, SendStats!FlowId, FlowId, receiverVars, statsVars,
         listenerVars
<1>2. LossBounded'
  BY <1>1, QuietStep
<1>3. /\ sec \in Nat /\ sec <= dieTime /\ dieTime \in Nat
      /\ sendBytes \in [FlowId -> Nat] /\ sendMax \in FlowId
  <2>1. sec \in 0 .. (dieTime + 1) /\ sendBytes \in [FlowId -> Nat] /\ sendMax \in FlowId
    BY DEF TypeOK
  <2>2. sec <= dieTime /\ dieTime \in Nat
    BY <1>1, Threads DEF Connections
  <2> QED BY <2>1, <2>2
<1>4. /\ sec' \in 0 .. (dieTime + 1) /\ sender' \in {"print", "exited"} /\ gone' \in SUBSET Flow
      /\ sender' # "exited" => sec' <= dieTime
  <2>1. CASE sec' > dieTime
    <3>1. sender' = "exited" /\ gone' \in SUBSET Flow
      BY <1>1, <2>1, ExitTypes
    <3> QED BY <1>1, <1>3, <3>1
  <2>2. CASE ~(sec' > dieTime)
    <3>1. sender' = "print" /\ gone' = gone /\ gone \in SUBSET Flow
      BY <1>1, <2>2 DEF TypeOK
    <3> QED BY <1>1, <1>3, <2>2, <3>1
  <2> QED BY <2>1, <2>2
<1>5. sendBytes' \in [FlowId -> Nat]
  <2>1. ASSUME NEW f \in FlowId PROVE sendBytes[f] - SendStats!Line[f] \in Nat
    <3>1. SendStats!Line[f] = IF f <= sendMax THEN sendBytes[f] ELSE 0
      BY DEF SendStats!Line, SendStats!FlowId, FlowId
    <3>2. sendBytes[f] \in Nat
      BY <1>3
    <3> QED BY <3>1, <3>2
  <2> QED BY <1>1, <2>1
<1>6. TypeOK'
  <2>1. sender' \in {"start", "print", "exited"}
    BY <1>4
  <2> QED BY <1>1, <1>4, <1>5, <2>1 DEF TypeOK
<1>7. Connections'
  <2>1. Accepts' = Accepts
    BY <1>1 DEF Accepts, Accepted
  <2> QED BY <1>1, <1>4, <2>1 DEF Connections
<1> QED
  BY <1>2, <1>6, <1>7

\* A broken pipe ends the sender.
LEMMA BrokenPipeStep ==
  ASSUME ProgramsInv, BrokenPipe
  PROVE  ProgramsInv'
<1> USE DEF ProgramsInv
<1>1. /\ Exit
      /\ UNCHANGED <<sendBytes, sendMax, wrote, started, sec, tot, byte_array, max_id, sofar,
                     receiver, maxFds, flowId, over, listening, backlog, socket>>
  BY DEF BrokenPipe, sendStatsVars, receiverVars, statsVars, listenerVars
<1>2. sender' = "exited" /\ gone' \in SUBSET Flow
  BY <1>1, ExitTypes
<1>3. TypeOK'
  BY <1>1, <1>2 DEF TypeOK
<1>4. Connections'
  BY <1>1, <1>2 DEF Connections, Accepts, Accepted
<1> QED
  BY <1>1, <1>3, <1>4, QuietStep

\* The receiver begins to listen, with nothing to accept yet; when it exits its
\* queue is gone.
LEMMA ListenSteps ==
  ASSUME ProgramsInv, SetupListen \/ AcceptFails
  PROVE  ProgramsInv'
<1> USE DEF ProgramsInv
<1>1. UNCHANGED <<sendBytes, sendMax, wrote, sender, started, sec, tot, byte_array, max_id,
                  sofar, maxFds, flowId, over, socket, gone>>
  BY DEF SetupListen, AcceptFails, senderVars, sendStatsVars, statsVars
<1>2. /\ listening' \in BOOLEAN /\ receiver' \in {"setup", "accept", "exited"}
      /\ listening' => receiver' = "accept"
      /\ \/ backlog' = backlog /\ receiver # "exited"
         \/ backlog' = <<>> /\ receiver' = "exited"
  BY DEF SetupListen, AcceptFails, slisten
<1>3. backlog' \in Seq(Flow) /\ Len(backlog') <= Backlog
  <2>1. backlog \in Seq(Flow) /\ Len(backlog) <= Backlog /\ Backlog \in Nat
    BY Threads DEF TypeOK
  <2>2. <<>> \in Seq(Flow) /\ Len(<<>>) = 0
    OBVIOUS
  <2>3. CASE backlog' = backlog
    BY <2>1, <2>3
  <2>4. CASE backlog' = <<>>
    BY <2>1, <2>2, <2>4
  <2> QED BY <1>2, <2>3, <2>4
<1>4. TypeOK'
  BY <1>1, <1>2, <1>3 DEF TypeOK
<1>5. Accepts' = Accepts
  BY <1>1 DEF Accepts, Accepted
<1>6. Connections'
  BY <1>1, <1>2, <1>5 DEF Connections
<1> QED
  BY <1>1, <1>4, <1>6, QuietStep

\* The connection that is accepted is the first one that was not.
LEMMA AcceptStep ==
  ASSUME ProgramsInv, NEW c \in Flow, Accept(c)
  PROVE  ProgramsInv'
<1> USE DEF ProgramsInv
<1>1. /\ receiver = "accept" /\ backlog # <<>> /\ c = Head(backlog) /\ backlog' = Tail(backlog)
      /\ flowId' = [flowId EXCEPT ![c] = Accepts + 1]
      /\ UNCHANGED <<sendBytes, sendMax, wrote, sender, started, sec, tot, byte_array, max_id,
                     sofar, receiver, maxFds, over, listening, socket, gone>>
  BY DEF Accept, saccept, senderVars, sendStatsVars, statsVars
<1>2. /\ backlog \in Seq(Flow) /\ Len(backlog) \in Nat \ {0} /\ Len(backlog) <= Backlog
      /\ flowId \in [Flow -> 0 .. nflows] /\ started \in 0 .. nflows
      /\ Accepts \in Nat /\ Accepts + Len(backlog) = started
      /\ nflows \in Nat /\ Backlog \in Nat /\ Flow = 0 .. (nflows - 1)
  <2>1. /\ backlog \in Seq(Flow) /\ Len(backlog) <= Backlog /\ started \in 0 .. nflows
        /\ flowId \in [Flow -> 0 .. nflows]
    BY DEF TypeOK
  <2>2. Accepts + Len(backlog) = started
    BY <1>1 DEF Connections
  <2>3. Len(backlog) \in Nat \ {0}
    BY <1>1, <2>1
  <2>4. nflows \in Nat /\ Backlog \in Nat /\ Flow = 0 .. (nflows - 1)
    BY Threads
  <2>5. Accepts \in Nat
    BY <2>4, AcceptsType
  <2> QED BY <2>1, <2>2, <2>3, <2>4, <2>5
<1>3. c = Accepts
  <2>1. 1 \in 1 .. Len(backlog) /\ c = backlog[1]
    BY <1>1, <1>2
  <2>2. backlog[1] = Accepts + 1 - 1
    BY <1>1, <2>1 DEF Connections
  <2> QED BY <1>2, <2>1, <2>2
<1>4. \A d \in Flow : flowId[d] = IF d < Accepts THEN d + 1 ELSE 0
  BY DEF Connections
<1>5. Accepts + 1 \in 0 .. nflows
  BY <1>2
<1> DEFINE a == Accepts
<1>6. \A d \in Flow : flowId'[d] = IF d < a + 1 THEN d + 1 ELSE 0
  <2>1. /\ flowId' = [flowId EXCEPT ![a] = a + 1] /\ flowId \in [Flow -> 0 .. nflows]
        /\ a \in Nat /\ nflows \in Nat /\ Flow = 0 .. (nflows - 1)
        /\ \A d \in Flow : flowId[d] = IF d < a THEN d + 1 ELSE 0
    BY <1>1, <1>2, <1>3, <1>4
  <2> HIDE DEF a
  <2> QED BY <2>1
<1>7. Accepts' = a + 1
  <2>1. \A d \in Flow : flowId'[d] # 0 <=> d < a + 1
    <3>1. \A d \in Flow : d \in Nat
      BY <1>2
    <3> HIDE DEF a
    <3> QED BY <1>6, <3>1
  <2>2. {d \in Flow : flowId'[d] # 0} = 0 .. a
    <3>1. a + 1 \in 0 .. nflows /\ a \in Nat /\ nflows \in Nat /\ Flow = 0 .. (nflows - 1)
      BY <1>2, <1>5
    <3> HIDE DEF a
    <3> QED BY <2>1, <3>1
  <2>3. 0 \in Int /\ a \in Int /\ ~(0 > a)
    BY <1>2
  <2>4. Cardinality(0 .. a) = a - 0 + 1
    BY <2>3, FS_Interval
  <2>5. Accepts' = Cardinality({d \in Flow : flowId'[d] # 0})
    BY DEF Accepts, Accepted
  <2>6. Accepts' = a - 0 + 1
    BY <2>2, <2>4, <2>5
  <2> HIDE DEF a
  <2> QED BY <2>3, <2>6
<1>8. /\ backlog' \in Seq(Flow) /\ Len(backlog') = Len(backlog) - 1
      /\ \A i \in 1 .. Len(backlog') : backlog'[i] = backlog[i + 1] /\ i + 1 \in 1 .. Len(backlog)
  BY <1>1, <1>2
<1>9. Connections'
  <2>1. Accepts' + Len(backlog') = started'
    <3>1. started' = started /\ Len(backlog') = Len(backlog) - 1
      BY <1>1, <1>8
    <3>2. a \in Nat /\ Len(backlog) \in Nat /\ a + Len(backlog) = started
      BY <1>2
    <3> HIDE DEF a
    <3> QED BY <1>7, <3>1, <3>2
  <2>2. ASSUME NEW i \in 1 .. Len(backlog') PROVE backlog'[i] = Accepts' + i - 1
    <3>1. backlog'[i] = a + (i + 1) - 1
      BY <1>1, <1>8 DEF Connections
    <3> QED BY <1>2, <1>7, <3>1
  <2>3. \A d \in Flow : flowId'[d] = IF d < Accepts' THEN d + 1 ELSE 0
    <3> HIDE DEF a
    <3> QED BY <1>6, <1>7
  <2> QED BY <1>1, <2>1, <2>2, <2>3 DEF Connections
<1>10. TypeOK'
  <2>1. flowId' \in [Flow -> 0 .. nflows]
    BY <1>1, <1>2, <1>5
  <2>2. Len(backlog') <= Backlog
    BY <1>2, <1>8
  <2> QED BY <1>1, <1>8, <2>1, <2>2 DEF TypeOK
<1> QED
  BY <1>1, <1>9, <1>10, QuietStep

-----------------------------------------------------------------------------

\* When one thread's number changes, the sum of its flow changes by as much and
\* no other sum does.
LEMMA OneThread ==
  ASSUME NEW S, NEW x \in S, NEW F, NEW G, NEW f, IsFiniteSet(Of(f, S)),
         \A y \in S : F[y] \in Int /\ G[y] \in Int,
         \A y \in S \ {x} : G[y] = F[y]
  PROVE  /\ SumFunctionOnSet(F, Of(f, S)) \in Int
         /\ SumFunctionOnSet(G, Of(f, S)) \in Int
         /\ FlowOf(x) = f =>
              SumFunctionOnSet(G, Of(f, S)) = SumFunctionOnSet(F, Of(f, S)) + G[x] - F[x]
         /\ FlowOf(x) # f => SumFunctionOnSet(G, Of(f, S)) = SumFunctionOnSet(F, Of(f, S))
<1>1. /\ \A y \in Of(f, S) : F[y] \in Int /\ G[y] \in Int
      /\ \A y \in Of(f, S) \ {x} : G[y] = F[y]
      /\ x \in Of(f, S) <=> FlowOf(x) = f
  BY DEF Of
<1> QED
  BY <1>1, OneSummand

\* A system call of a write moves bytes of the sender's buffer into the
\* connection; a buffer that is through is counted: none is lost.
LEMMA WriteSteps ==
  ASSUME ProgramsInv, NEW t \in Sender, WriteMore(t) \/ EndWrite(t)
  PROVE  ProgramsInv'
<1> USE DEF ProgramsInv
<1> DEFINE c == FlowOf(t)
<1>1. /\ tot[t] + BUF_SIZE <= MaxBytes
      /\ UNCHANGED <<gone, sofar, byte_array, max_id, sender, started, sec, receiver, maxFds,
                     flowId, over, listening, backlog>>
  BY DEF WriteMore, EndWrite, Blasting, receiverVars, statsVars, listenerVars,
         Output!WritePiece, Output!WriteFull, Output!Put
<1>2. /\ BUF_SIZE \in Nat \ {0} /\ Room \in Nat /\ MaxBytes \in Nat
      /\ c \in Flow /\ c \in FlowId /\ FlowId \subseteq Nat
      /\ socket \in [Flow -> 0 .. Room] /\ wrote \in [Sender -> 0 .. BUF_SIZE]
      /\ tot \in [Sender -> 0 .. MaxBytes]
      /\ sendBytes \in [FlowId -> Nat] /\ sendMax \in FlowId
  <2>1. /\ socket \in [Flow -> 0 .. Room] /\ wrote \in [Sender -> 0 .. BUF_SIZE]
        /\ tot \in [Sender -> 0 .. MaxBytes]
        /\ sendBytes \in [FlowId -> Nat] /\ sendMax \in FlowId
    BY DEF TypeOK
  <2>2. /\ BUF_SIZE \in Nat \ {0} /\ Room \in Nat /\ MaxBytes \in Nat
        /\ c \in Flow /\ Flow \subseteq FlowId /\ FlowId \subseteq Nat
    BY Threads
  <2> HIDE DEF c
  <2> QED BY <2>1, <2>2
<1>3. /\ socket[c] \in 0 .. Room /\ wrote[t] \in 0 .. BUF_SIZE /\ tot[t] \in 0 .. MaxBytes
  BY <1>2
<1>4. PICK n \in Nat, add \in Nat :
        /\ socket[c] + n <= Room /\ socket' = [socket EXCEPT ![c] = socket[c] + n]
        /\ wrote[t] + n - add \in 0 .. BUF_SIZE
        /\ wrote' = [wrote EXCEPT ![t] = wrote[t] + n - add]
        /\ tot[t] + add \in 0 .. MaxBytes
        /\ tot' = [tot EXCEPT ![t] = tot[t] + add]
        /\ UNCHANGED <<sendBytes, sendMax>> \/ Output!Update(c, BUF_SIZE)
  <2>1. CASE WriteMore(t)
    <3>1. PICK n \in 1 .. (BUF_SIZE - wrote[t]) :
             /\ socket[c] + n <= Room /\ socket' = [socket EXCEPT ![c] = socket[c] + n]
             /\ wrote' = [wrote EXCEPT ![t] = wrote[t] + n]
             /\ UNCHANGED <<tot, sendBytes, sendMax>>
      BY <2>1 DEF WriteMore, Output!WritePiece, Output!Fits, Output!Put, Output!Left
    <3>2. n \in Nat /\ wrote[t] + n - 0 \in 0 .. BUF_SIZE /\ wrote[t] + n = wrote[t] + n - 0
      BY <1>2, <1>3
    <3>3. tot[t] + 0 \in 0 .. MaxBytes /\ tot' = [tot EXCEPT ![t] = tot[t] + 0]
      BY <1>2, <1>3, <3>1
    <3>4. wrote' = [wrote EXCEPT ![t] = wrote[t] + n - 0] /\ 0 \in Nat
      BY <3>1, <3>2
    <3> HIDE DEF c
    <3> QED BY <3>1, <3>2, <3>3, <3>4, Zenon
  <2>2. CASE EndWrite(t)
    <3>1. /\ BUF_SIZE - wrote[t] = 0
          /\ socket' = socket
          /\ wrote' = [wrote EXCEPT ![t] = 0]
          /\ tot' = [tot EXCEPT ![t] = tot[t] + BUF_SIZE]
          /\ Output!Update(c, BUF_SIZE)
      BY <2>2 DEF EndWrite, Output!WriteFull, Output!Left
    <3>2. BUF_SIZE \in Nat /\ wrote[t] + 0 - BUF_SIZE = 0 /\ 0 \in 0 .. BUF_SIZE
      BY <1>2, <1>3, <3>1
    <3>3. socket[c] + 0 <= Room /\ socket' = [socket EXCEPT ![c] = socket[c] + 0]
      BY <1>2, <1>3, <3>1
    <3>4. /\ wrote[t] + 0 - BUF_SIZE \in 0 .. BUF_SIZE
          /\ wrote' = [wrote EXCEPT ![t] = wrote[t] + 0 - BUF_SIZE]
          /\ 0 \in Nat /\ BUF_SIZE \in Nat
      BY <3>1, <3>2
    <3>5. tot[t] + BUF_SIZE \in 0 .. MaxBytes
      BY <1>1, <1>2, <1>3
    <3> HIDE DEF c
    <3> QED BY <3>1, <3>3, <3>4, <3>5, Zenon
  <2> QED BY <2>1, <2>2
<1> HIDE DEF c
<1>5. /\ socket' \in [Flow -> 0 .. Room] /\ socket'[c] = socket[c] + n
      /\ \A f \in Flow \ {c} : socket'[f] = socket[f]
  <2>1. socket[c] + n \in 0 .. Room
    BY <1>2, <1>3, <1>4
  <2> QED BY <1>2, <1>4, <2>1
<1>6. /\ wrote' \in [Sender -> 0 .. BUF_SIZE]
      /\ wrote'[t] = wrote[t] + n - add
      /\ \A u \in Sender \ {t} : wrote'[u] = wrote[u]
  BY <1>2, <1>4
<1>7. /\ tot' \in [Sender -> 0 .. MaxBytes] /\ tot'[t] = tot[t] + add
      /\ \A u \in Sender \ {t} : tot'[u] = tot[u]
  BY <1>2, <1>4
<1>8. sendBytes' \in [FlowId -> Nat] /\ sendMax' \in FlowId
  <2>1. CASE Output!Update(c, BUF_SIZE)
    <3>1. /\ sendBytes' = [sendBytes EXCEPT ![c] = sendBytes[c] + BUF_SIZE]
          /\ sendMax' = IF c > sendMax THEN c ELSE sendMax
      BY <2>1 DEF Output!Update
    <3>2. sendBytes[c] + BUF_SIZE \in Nat /\ sendMax' \in FlowId
      BY <1>2, <3>1
    <3> QED BY <1>2, <3>1, <3>2
  <2>2. CASE UNCHANGED <<sendBytes, sendMax>>
    BY <1>2, <2>2
  <2> QED BY <1>4, <2>1, <2>2
<1>9. TypeOK'
  BY <1>1, <1>5, <1>6, <1>7, <1>8 DEF TypeOK
<1>10. Connections'
  BY <1>1 DEF Connections, Accepts, Accepted
<1>11. ASSUME NEW f \in Flow PROVE Lost(f)' = Lost(f)
  <2> DEFINE k == SumFunctionOnSet(tot, Of(f, Sender))
             w == SumFunctionOnSet(wrote, Of(f, Sender))
             h == SumFunctionOnSet(sofar, Of(f, Reader))
  <2>1. /\ \A u \in Sender : tot[u] \in Int /\ tot'[u] \in Int
        /\ \A u \in Sender : wrote[u] \in Int /\ wrote'[u] \in Int
    <3>1. \A u \in Sender : tot[u] \in 0 .. MaxBytes /\ tot'[u] \in 0 .. MaxBytes
      BY <1>2, <1>7
    <3>2. \A u \in Sender : wrote[u] \in 0 .. BUF_SIZE /\ wrote'[u] \in 0 .. BUF_SIZE
      BY <1>2, <1>6
    <3>3. /\ \A i \in 0 .. BUF_SIZE : i \in Int
          /\ \A i \in 0 .. MaxBytes : i \in Int
      OBVIOUS
    <3> QED BY <3>1, <3>2, <3>3
  <2>2. IsFiniteSet(Of(f, Sender)) /\ f + 1 \in FlowId
    BY Threads
  <2>3. /\ k \in Int
        /\ FlowOf(t) = f => SumFunctionOnSet(tot', Of(f, Sender)) = k + tot'[t] - tot[t]
        /\ FlowOf(t) # f => SumFunctionOnSet(tot', Of(f, Sender)) = k
    BY <1>7, <2>1, <2>2, OneThread
  <2>4. /\ w \in Int
        /\ FlowOf(t) = f => SumFunctionOnSet(wrote', Of(f, Sender)) = w + wrote'[t] - wrote[t]
        /\ FlowOf(t) # f => SumFunctionOnSet(wrote', Of(f, Sender)) = w
    BY <1>6, <2>1, <2>2, OneThread
  <2>5. /\ Lost(f) = (k + w) - socket[f] - h - byte_array[f + 1]
        /\ Lost(f)' = (SumFunctionOnSet(tot', Of(f, Sender)) + SumFunctionOnSet(wrote', Of(f, Sender)))
                        - socket'[f] - h - byte_array[f + 1]
    <3>1. Lost(f) = (k + w) - socket[f] - h - byte_array[f + 1]
      BY DEF Lost, Written, InHand
    <3>2. /\ SumFunctionOnSet(tot, Of(f, Sender))' = SumFunctionOnSet(tot', Of(f, Sender))
          /\ SumFunctionOnSet(wrote, Of(f, Sender))' = SumFunctionOnSet(wrote', Of(f, Sender))
      BY DEF Of, Sender, FlowOf
    <3>3. InHand(f)' = h
      BY <1>1 DEF InHand, Of, FlowOf
    <3> QED BY <1>1, <3>1, <3>2, <3>3 DEF Lost, Written
  <2>6. h \in Int /\ byte_array[f + 1] \in Int /\ socket[f] \in Int
    BY <2>2, SumTypes, Values DEF InHand
  <2> HIDE DEF k, w, h
  <2>7. CASE f = c
    <3>1. /\ SumFunctionOnSet(tot', Of(f, Sender)) = k + add
          /\ SumFunctionOnSet(wrote', Of(f, Sender)) = w + n - add
          /\ socket'[f] = socket[f] + n
      BY <1>3, <1>5, <1>6, <1>7, <2>3, <2>4, <2>7 DEF c
    <3> QED BY <2>3, <2>4, <2>5, <2>6, <3>1
  <2>8. CASE f # c
    BY <1>5, <2>3, <2>4, <2>5, <2>8 DEF c
  <2> QED BY <2>7, <2>8
<1> QED
  BY <1>1, <1>9, <1>10, <1>11, LossKept

\* A system call of a read moves bytes out of the connection into the reader's
\* buffer; a full buffer is counted, under the flow's number plus one: none is
\* lost.
LEMMA ReadSteps ==
  ASSUME ProgramsInv, NEW r \in Reader, RecvMore(r) \/ RecvBuffer(r)
  PROVE  ProgramsInv'
<1> USE DEF ProgramsInv
<1> DEFINE c == FlowOf(r)
<1>1. /\ Accepted(c)
      /\ UNCHANGED <<gone, sendBytes, sendMax, wrote, sender, started, sec, tot, receiver, maxFds,
                     flowId, over, listening, backlog>>
  BY DEF RecvMore, RecvBuffer, Receiving, senderVars, sendStatsVars, listenerVars, ReadPiece,
         ReadFull, Take
<1>2. /\ BUFFER_SIZE \in Nat \ {0, 1} /\ Room \in Nat
      /\ socket \in [Flow -> 0 .. Room] /\ sofar \in [Reader -> 0 .. BUFFER_SIZE]
      /\ byte_array \in [FlowId -> Nat] /\ max_id \in FlowId
      /\ c \in Flow /\ c + 1 \in FlowId /\ c \in Nat /\ FlowId \subseteq Nat
  <2>1. /\ socket \in [Flow -> 0 .. Room] /\ sofar \in [Reader -> 0 .. BUFFER_SIZE]
        /\ byte_array \in [FlowId -> Nat] /\ max_id \in FlowId
    BY DEF TypeOK
  <2>2. /\ BUFFER_SIZE \in Nat \ {0, 1} /\ Room \in Nat /\ c \in Flow /\ FlowId \subseteq Nat
        /\ \A f \in Flow : f \in Nat /\ f + 1 \in FlowId
    BY Threads
  <2> HIDE DEF c
  <2> QED BY <2>1, <2>2
<1>3. socket[c] \in 0 .. Room /\ sofar[r] \in 0 .. BUFFER_SIZE
  BY <1>2
<1>4. flowId[c] = c + 1
  <2>1. flowId[c] # 0 /\ flowId[c] = IF c < Accepts THEN c + 1 ELSE 0
    BY <1>1, <1>2 DEF Accepted, Connections
  <2> QED BY <2>1
<1>5. PICK n \in Nat, add \in Nat :
        /\ n <= socket[c] /\ socket' = [socket EXCEPT ![c] = socket[c] - n]
        /\ sofar[r] + n - add \in 0 .. BUFFER_SIZE
        /\ sofar' = [sofar EXCEPT ![r] = sofar[r] + n - add]
        /\ \/ add = 0 /\ UNCHANGED <<byte_array, max_id>>
           \/ Update(c + 1, add)
  <2>1. CASE RecvMore(r)
    <3>1. PICK n \in 1 .. (BUFFER_SIZE - sofar[r]) :
             /\ n <= socket[c] /\ socket' = [socket EXCEPT ![c] = socket[c] - n]
             /\ sofar' = [sofar EXCEPT ![r] = sofar[r] + n]
             /\ UNCHANGED <<byte_array, max_id>>
      BY <2>1 DEF RecvMore, ReadPiece, Take, Missing, statsVars
    <3>2. n \in Nat /\ sofar[r] + n - 0 \in 0 .. BUFFER_SIZE /\ sofar[r] + n = sofar[r] + n - 0
      BY <1>2, <1>3
    <3>3. sofar' = [sofar EXCEPT ![r] = sofar[r] + n - 0]
      BY <3>1, <3>2
    <3>4. 0 \in Nat /\ 0 = 0
      OBVIOUS
    <3> HIDE DEF c
    <3> QED BY <3>1, <3>2, <3>3, <3>4, Zenon
  <2>2. CASE RecvBuffer(r)
    <3>1. /\ BUFFER_SIZE - sofar[r] = 0 /\ socket' = socket
          /\ sofar' = [sofar EXCEPT ![r] = 0]
          /\ Update(flowId[c], BUFFER_SIZE)
      BY <2>2 DEF RecvBuffer, ReadFull, Missing
    <3>2. BUFFER_SIZE \in Nat /\ sofar[r] + 0 - BUFFER_SIZE = 0 /\ 0 \in 0 .. BUFFER_SIZE
      BY <1>2, <1>3, <3>1
    <3> HIDE DEF c
    <3>3. 0 <= socket[c] /\ socket' = [socket EXCEPT ![c] = socket[c] - 0]
      BY <1>2, <1>3, <3>1
    <3>4. /\ sofar[r] + 0 - BUFFER_SIZE \in 0 .. BUFFER_SIZE
          /\ sofar' = [sofar EXCEPT ![r] = sofar[r] + 0 - BUFFER_SIZE]
          /\ 0 \in Nat /\ BUFFER_SIZE \in Nat
      BY <3>1, <3>2
    <3>5. Update(c + 1, BUFFER_SIZE)
      BY <1>4, <3>1
    <3> QED BY <3>3, <3>4, <3>5, Zenon
  <2> QED BY <2>1, <2>2
<1> HIDE DEF c
<1>6. /\ socket' \in [Flow -> 0 .. Room] /\ socket'[c] = socket[c] - n
      /\ \A f \in Flow \ {c} : socket'[f] = socket[f]
  <2>1. socket[c] - n \in 0 .. Room
    BY <1>2, <1>3, <1>5
  <2> QED BY <1>2, <1>5, <2>1
<1>7. /\ sofar' \in [Reader -> 0 .. BUFFER_SIZE]
      /\ sofar'[r] = sofar[r] + n - add
      /\ \A q \in Reader \ {r} : sofar'[q] = sofar[q]
  BY <1>2, <1>5
<1>8. /\ byte_array' \in [FlowId -> Nat] /\ max_id' \in FlowId
      /\ byte_array'[c + 1] = byte_array[c + 1] + add
      /\ \A f \in Flow \ {c} : byte_array'[f + 1] = byte_array[f + 1]
  <2>1. CASE add = 0 /\ UNCHANGED <<byte_array, max_id>>
    BY <1>2, <2>1
  <2>2. CASE Update(c + 1, add)
    <3>1. /\ byte_array' = [byte_array EXCEPT ![c + 1] = byte_array[c + 1] + add]
          /\ max_id' = IF c + 1 > max_id THEN c + 1 ELSE max_id
      BY <2>2 DEF Update
    <3>2. \A f \in Flow \ {c} : f + 1 # c + 1 /\ f + 1 \in FlowId
      <4>1. \A f \in Flow : f \in Nat /\ f + 1 \in FlowId
        BY Threads
      <4> QED BY <1>2, <4>1
    <3> QED BY <1>2, <3>1, <3>2
  <2> QED BY <1>5, <2>1, <2>2
<1>9. TypeOK'
  BY <1>1, <1>6, <1>7, <1>8 DEF TypeOK
<1>10. Connections'
  BY <1>1 DEF Connections, Accepts, Accepted
<1>11. ASSUME NEW f \in Flow PROVE Lost(f)' = Lost(f)
  <2> DEFINE w == Written(f)
             h == SumFunctionOnSet(sofar, Of(f, Reader))
  <2>1. \A q \in Reader : sofar[q] \in Int /\ sofar'[q] \in Int
    <3>1. \A q \in Reader : /\ sofar[q] \in 0 .. BUFFER_SIZE
                            /\ sofar'[q] \in 0 .. BUFFER_SIZE
      BY <1>2, <1>7
    <3>2. \A i \in 0 .. BUFFER_SIZE : i \in Int
      OBVIOUS
    <3> QED BY <3>1, <3>2
  <2>2. IsFiniteSet(Of(f, Reader)) /\ f + 1 \in FlowId
    BY Threads
  <2>3. /\ h \in Int
        /\ FlowOf(r) = f => SumFunctionOnSet(sofar', Of(f, Reader)) = h + sofar'[r] - sofar[r]
        /\ FlowOf(r) # f => SumFunctionOnSet(sofar', Of(f, Reader)) = h
    BY <1>7, <2>1, <2>2, OneThread
  <2>4. /\ Lost(f) = w - socket[f] - h - byte_array[f + 1]
        /\ Lost(f)' = w - socket'[f] - SumFunctionOnSet(sofar', Of(f, Reader)) - byte_array'[f + 1]
    BY <1>1 DEF Lost, Written, InHand, Of, FlowOf
  <2>5. w \in Int /\ byte_array[f + 1] \in Int /\ socket[f] \in Int
    BY <2>2, SumTypes, Values
  <2> HIDE DEF w, h
  <2>6. CASE f = c
    <3>1. /\ SumFunctionOnSet(sofar', Of(f, Reader)) = h + n - add
          /\ byte_array'[f + 1] = byte_array[f + 1] + add
          /\ socket'[f] = socket[f] - n
      BY <1>3, <1>6, <1>7, <1>8, <2>3, <2>6 DEF c
    <3> QED BY <2>3, <2>4, <2>5, <3>1
  <2>7. CASE f # c
    BY <1>6, <1>8, <2>3, <2>4, <2>7 DEF c
  <2> QED BY <2>6, <2>7
<1> QED
  BY <1>1, <1>9, <1>10, <1>11, LossKept

\* What a thread holds when it meets the end of its stream is lost: less than
\* a buffer, and the thread is over.
LEMMA EndStep ==
  ASSUME ProgramsInv, NEW r \in Reader, RecvEnds(r)
  PROVE  ProgramsInv'
<1> USE DEF ProgramsInv
<1>1. /\ r \notin over /\ over' = over \cup {r}
      /\ sofar' = [sofar EXCEPT ![r] = 0] /\ BUFFER_SIZE - sofar[r] > 0
      /\ UNCHANGED <<socket, gone, byte_array, max_id, sendBytes, sendMax, wrote, sender, started,
                     sec, tot, receiver, maxFds, flowId, listening, backlog>>
  BY DEF RecvEnds, Receiving, ReadEnds, Missing, statsVars, senderVars, sendStatsVars, listenerVars
<1>2. /\ BUFFER_SIZE \in Nat \ {0, 1} /\ sofar \in [Reader -> 0 .. BUFFER_SIZE]
      /\ over \in SUBSET Reader
  BY Threads DEF TypeOK
<1>3. /\ sofar' \in [Reader -> 0 .. BUFFER_SIZE] /\ sofar'[r] = 0
      /\ \A q \in Reader \ {r} : sofar'[q] = sofar[q]
      /\ sofar[r] \in 0 .. (BUFFER_SIZE - 1)
  BY <1>1, <1>2
<1>4. TypeOK'
  <2>1. over' \in SUBSET Reader
    BY <1>1, <1>2
  <2> QED BY <1>1, <1>3, <2>1 DEF TypeOK
<1>5. Connections'
  BY <1>1 DEF Connections, Accepts, Accepted
<1>6. ASSUME NEW f \in Flow
      PROVE  Lost(f)' \in 0 .. (BUFFER_SIZE - 1) * Cardinality(Of(f, over)')
  <2> DEFINE w == Written(f)
             h == SumFunctionOnSet(sofar, Of(f, Reader))
             k == Cardinality(Of(f, over))
  <2>1. \A q \in Reader : sofar[q] \in Int /\ sofar'[q] \in Int
    <3>1. \A q \in Reader : /\ sofar[q] \in 0 .. BUFFER_SIZE
                            /\ sofar'[q] \in 0 .. BUFFER_SIZE
      BY <1>2, <1>3
    <3>2. \A i \in 0 .. BUFFER_SIZE : i \in Int
      OBVIOUS
    <3> QED BY <3>1, <3>2
  <2>2. IsFiniteSet(Of(f, Reader)) /\ f + 1 \in FlowId
    BY Threads
  <2>3. /\ h \in Int
        /\ FlowOf(r) = f => SumFunctionOnSet(sofar', Of(f, Reader)) = h + sofar'[r] - sofar[r]
        /\ FlowOf(r) # f => SumFunctionOnSet(sofar', Of(f, Reader)) = h
    BY <1>3, <2>1, <2>2, OneThread
  <2>4. /\ Lost(f) = w - socket[f] - h - byte_array[f + 1]
        /\ Lost(f)' = w - socket[f] - SumFunctionOnSet(sofar', Of(f, Reader)) - byte_array[f + 1]
    BY <1>1 DEF Lost, Written, InHand, Of, FlowOf
  <2>5. /\ w \in Int /\ byte_array[f + 1] \in Int /\ socket[f] \in Int /\ Lost(f) \in Int
        /\ k \in Nat /\ IsFiniteSet(Of(f, over))
    BY <2>2, SumTypes, Values
  <2>6. Lost(f) \in 0 .. (BUFFER_SIZE - 1) * k
    BY DEF LossBounded, Lost
  <2>7. CASE FlowOf(r) # f
    <3>1. Of(f, over)' = Of(f, over)
      BY <1>1, <2>7 DEF Of, FlowOf
    <3>2. Lost(f)' = Lost(f)
      <4> HIDE DEF w, h
      <4> QED BY <2>3, <2>4, <2>7
    <3> QED BY <2>6, <3>1, <3>2
  <2>8. CASE FlowOf(r) = f
    <3>1. Of(f, over)' = Of(f, over) \cup {r} /\ r \notin Of(f, over)
      BY <1>1, <2>8 DEF Of, FlowOf
    <3>2. Cardinality(Of(f, over)') = k + 1
      BY <2>5, <3>1, FS_AddElement
    <3>3. Lost(f)' = Lost(f) + sofar[r]
      <4> HIDE DEF w, h
      <4>1. sofar[r] \in Int
        BY <2>1
      <4>2. SumFunctionOnSet(sofar', Of(f, Reader)) = h - sofar[r]
        BY <1>3, <2>3, <2>8, <4>1
      <4> QED BY <2>3, <2>4, <2>5, <4>1, <4>2
    <3> HIDE DEF k
    <3> DEFINE p == (BUFFER_SIZE - 1) * k
               q == (BUFFER_SIZE - 1) * (k + 1)
    <3>4. p \in Int /\ q = p + (BUFFER_SIZE - 1)
      BY <1>2, <2>5
    <3>5. Lost(f) \in 0 .. p
      BY <2>6
    <3> HIDE DEF p, q
    <3>6. Lost(f)' \in 0 .. q
      BY <1>2, <1>3, <2>5, <3>3, <3>4, <3>5
    <3> QED BY <3>2, <3>6 DEF q
  <2> QED BY <2>7, <2>8
<1>7. LossBounded'
  BY <1>6 DEF LossBounded, Lost
<1> QED
  BY <1>4, <1>5, <1>7

-----------------------------------------------------------------------------

\* Every step of the two programs keeps the invariant.
LEMMA ProgramsStep == ProgramsInv /\ [Next]_vars => ProgramsInv'
<1> SUFFICES ASSUME ProgramsInv, [Next]_vars PROVE ProgramsInv'
  OBVIOUS
<1>1. CASE UNCHANGED vars
  <2>1. UNCHANGED <<socket, gone, sofar, byte_array, max_id, sendBytes, sendMax, wrote, sender,
                    started, sec, tot, receiver, maxFds, flowId, over, listening, backlog>>
    BY <1>1 DEF vars, senderVars, sendStatsVars, receiverVars, statsVars, listenerVars
  <2>2. TypeOK'
    BY <2>1 DEF ProgramsInv, TypeOK
  <2>3. Connections'
    BY <2>1 DEF ProgramsInv, Connections, Accepts, Accepted
  <2> QED BY <2>1, <2>2, <2>3, QuietStep DEF ProgramsInv
<1>2. CASE StartFlow
  BY <1>2, StartFlowStep
<1>3. CASE PrintStats
  BY <1>3, PrintStep
<1>4. CASE BrokenPipe
  BY <1>4, BrokenPipeStep
<1>5. CASE \E t \in Sender : WriteMore(t) \/ EndWrite(t)
  BY <1>5, WriteSteps
<1>6. CASE Acceptor
  BY <1>6, ListenSteps, AcceptStep DEF Acceptor
<1>7. CASE \E r \in Reader : Recv(r)
  BY <1>7, ReadSteps, EndStep DEF Recv
<1> QED
  BY <1>1, <1>2, <1>3, <1>4, <1>5, <1>6, <1>7 DEF Next

\* Every reachable state of the two programs satisfies the inductive invariant.
THEOREM ProgramsInvariance == Spec => []ProgramsInv
  BY InitInv, ProgramsStep, PTL DEF Spec

\* The types: buffers are never overrun, and a connection holds what fits it.
THEOREM TypeCorrect == Spec => []TypeOK
<1>1. ProgramsInv => TypeOK
  BY DEF ProgramsInv
<1> QED
  BY <1>1, ProgramsInvariance, PTL

\* Wherever the sender's exit cuts the writes, what is written and not counted
\* is less than a buffer for each recv thread that has met the end, for any
\* number of flows and threads.
THEOREM LossBound == Spec => []LossBounded
<1>1. ProgramsInv => LossBounded
  BY DEF ProgramsInv
<1> QED
  BY <1>1, ProgramsInvariance, PTL

=============================================================================
