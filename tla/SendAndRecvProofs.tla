------------------------- MODULE SendAndRecvProofs -------------------------
(***************************************************************************)
(* The test program for any number of flows and recv threads, any sizes of *)
(* buffers and connections: it starts up without a refused connection, and *)
(* every byte its senders write is accounted for, once, at both ends.      *)
(***************************************************************************)
EXTENDS SendAndRecv, Arithmetic, FiniteSetTheorems, TLAPS

\* Connections are made, queued and accepted in the order of the flows, which
\* is what makes the receiver's number of a flow the sender's.
Connections ==
  /\ Accepts + Len(backlog) = started
  /\ \A i \in 1 .. Len(backlog) : backlog[i] = Accepts + i - 1
  /\ \A c \in Flow : flowId[c] = IF c < Accepts THEN c ELSE -1

\* The order of the start-up: the receiver listens before it sets the flag,
\* main connects after it has seen it, and a flow's senders start with it.
StartUp ==
  /\ receiver # "setup" => listening
  /\ value = 1 => listening
  /\ main # "wait" => listening
  /\ main \in {"wait", "start"} => started < nflows
  /\ \A t \in Sender : FlowOf(t) >= started => blaster[t] = "idle"

\* The inductive invariant.
ProgramInv ==
  /\ TypeOK /\ ConnectsInTime /\ Connections /\ StartUp
  /\ EveryByteOnce /\ LineReachesAll

\* What the assumptions say of the flows and the threads.
LEMMA Threads ==
  /\ nflows \in Nat \ {0} /\ Flow = 0 .. (nflows - 1)
  /\ Flow \subseteq FlowId /\ 0 \in FlowId /\ FlowId \subseteq Nat
  /\ Flow \subseteq Nat
  /\ BUFFER_SIZE \in Nat \ {0, 1} /\ BUF_SIZE \in Nat \ {0} /\ Room \in Nat \ {0}
  /\ BytesToBlast \in Nat /\ Backlog \in Nat \ {0} /\ dieTime \in Nat
  /\ \A t \in Sender : FlowOf(t) \in Flow
  /\ \A r \in Reader : FlowOf(r) \in Flow
  /\ \A f \in Flow : IsFiniteSet(Of(f, Sender)) /\ IsFiniteSet(Of(f, Reader))
<1>1. /\ nflows \in Nat \ {0} /\ Flow = 0 .. (nflows - 1) /\ nflows <= MAX_FLOW_ID
      /\ MAX_FLOW_ID \in Nat \ {0}
  BY ProgramAssumption, StatsAssumption DEF Flow
<1>2. \A t \in Sender : FlowOf(t) \in Flow
  BY DEF Sender, FlowOf
<1>3. \A f \in Flow : IsFiniteSet(Of(f, Reader))
  <2>1. \A f \in Flow : Of(f, Reader) \in SUBSET Reader
    BY DEF Of
  <2> QED BY <2>1, ProgramAssumption, FS_Subset
<1>4. ASSUME NEW f \in Flow PROVE IsFiniteSet(Of(f, Sender))
  <2>1. nSenders(f) \in Nat
    BY <1>1 DEF nSenders
  <2>2. IsFiniteSet({f}) /\ IsFiniteSet(1 .. nSenders(f))
    <3>1. IsFiniteSet({f})
      BY FS_Singleton
    <3>2. 1 \in Int /\ nSenders(f) \in Int
      BY <2>1
    <3> QED BY <3>1, <3>2, FS_Interval
  <2>3. IsFiniteSet({f} \X (1 .. nSenders(f)))
    BY <2>2, FS_Product
  <2>4. Of(f, Sender) \in SUBSET ({f} \X (1 .. nSenders(f)))
    BY DEF Of, Sender, FlowOf
  <2> QED BY <2>3, <2>4, FS_Subset
<1> QED
  BY <1>1, <1>2, <1>3, <1>4, ProgramAssumption, BufferAssumption, BacklogAssumption
     DEF FlowId, FlowOf

\* How many connections are accepted, as long as they are the first ones.
LEMMA AcceptsIs ==
  ASSUME NEW n \in 0 .. nflows, \A c \in Flow : Accepted(c) <=> c < n
  PROVE  Accepts = n
<1>1. {c \in Flow : Accepted(c)} = 0 .. (n - 1)
  BY Threads
<1>2. 0 \in Int /\ n - 1 \in Int /\ n \in Nat
  BY Threads
<1>3. Cardinality(0 .. (n - 1)) = n
  BY <1>2, FS_Interval
<1> QED
  BY <1>1, <1>3 DEF Accepts

\* No more connections are accepted than there are flows.
LEMMA AcceptsType == Accepts \in 0 .. nflows
<1>1. {c \in Flow : Accepted(c)} \in SUBSET (0 .. (nflows - 1))
  BY Threads
<1>2. IsFiniteSet(0 .. (nflows - 1)) /\ Cardinality(0 .. (nflows - 1)) = nflows
  BY Threads, FS_Interval
<1> QED
  BY <1>1, <1>2, Threads, FS_Subset, FS_CardinalityType DEF Accepts

\* The invariant holds at the start: no byte has been written.
LEMMA InitInv == Init => ProgramInv
<1> SUFFICES ASSUME Init PROVE ProgramInv
  OBVIOUS
<1> USE Threads DEF Init
<1>1. /\ value = 0 /\ waiting = {} /\ socket = [c \in Conn |-> 0] /\ gone = {}
      /\ sofar = [r \in Reader |-> 0] /\ wrote = [t \in Sender |-> 0]
      /\ byte_array = [f \in FlowId |-> 0] /\ max_id = 0
      /\ sendBytes = [f \in FlowId |-> 0] /\ sendMax = 0
      /\ listening = FALSE /\ backlog = <<>>
      /\ scheduled \in BOOLEAN /\ main = "wait" /\ started = 0 /\ sec = 0
      /\ printed = [f \in FlowId |-> 0] /\ receiver = "setup"
      /\ flowId = [c \in Flow |-> -1]
      /\ blaster = [t \in Sender |-> "idle"] /\ tot = [t \in Sender |-> 0]
  BY DEF FlagInit, InputInit, SocketInit, StatsInit, Output!OutputInit,
         SendStats!StatsInit, SendStats!FlowId, FlowId, ListenerInit
<1>2. TypeOK
  <2>5. max_id \in FlowId /\ sendMax \in FlowId /\ started \in 0 .. nflows
    BY <1>1
  <2>6. waiting \in SUBSET {"main"} /\ gone = {}
    BY <1>1
  <2>1. /\ value \in {0, 1}
        /\ listening \in BOOLEAN /\ scheduled \in BOOLEAN /\ sec \in Nat
        /\ receiver \in {"setup", "flag", "accept"}
        /\ main \in {"wait", "start", "print", "exited", "failed"}
    BY <1>1
  <2>4. backlog \in Seq(Flow) /\ Len(backlog) <= Backlog
    <3>1. backlog = <<>> /\ Len(<<>>) = 0 /\ 0 <= Backlog
      BY <1>1
    <3> QED BY <3>1
  <2>2. /\ socket \in [Flow -> 0 .. Room] /\ sofar \in [Reader -> 0 .. BUFFER_SIZE]
        /\ wrote \in [Sender -> 0 .. BUF_SIZE]
    BY <1>1 DEF Flow
  <2>3. /\ byte_array \in [FlowId -> Nat] /\ sendBytes \in [FlowId -> Nat]
        /\ printed \in [FlowId -> Nat] /\ tot \in [Sender -> Nat]
        /\ flowId \in [Flow -> Flow \cup {-1}]
        /\ blaster \in [Sender -> {"idle", "ready", "write", "done"}]
    BY <1>1
  <2> QED BY <2>1, <2>2, <2>3, <2>4, <2>5, <2>6 DEF TypeOK
<1>3. ConnectsInTime /\ StartUp /\ LineReachesAll
  BY <1>1 DEF ConnectsInTime, StartUp, LineReachesAll
<1>4. Connections
  <2>1. \A c \in Flow : Accepted(c) <=> c < 0
    BY <1>1 DEF Accepted
  <2>2. Accepts = 0
    BY <2>1, AcceptsIs
  <2> QED BY <1>1, <2>2 DEF Connections
<1>5. \A f \in Flow : SentOn(f) = 0 /\ Written(f) = 0 /\ InHand(f) = 0
  <2> SUFFICES ASSUME NEW f \in Flow
               PROVE  SentOn(f) = 0 /\ Written(f) = 0 /\ InHand(f) = 0
    OBVIOUS
  <2>1. /\ \A t \in Of(f, Sender) : tot[t] = 0 /\ wrote[t] = 0
        /\ \A r \in Of(f, Reader) : sofar[r] = 0
    BY <1>1 DEF Of
  <2>2. SumFunctionOnSet(tot, Of(f, Sender)) = 0 /\ SumFunctionOnSet(wrote, Of(f, Sender)) = 0
    BY <2>1, SumOfZeros
  <2>3. SumFunctionOnSet(sofar, Of(f, Reader)) = 0
    BY <2>1, SumOfZeros
  <2> QED BY <2>2, <2>3 DEF SentOn, Written, InHand
<1>6. EveryByteOnce
  BY <1>1, <1>5 DEF EveryByteOnce, Flow
<1> QED
  BY <1>2, <1>3, <1>4, <1>6 DEF ProgramInv

-----------------------------------------------------------------------------

\* Steps that move no bytes keep what is said of the bytes.
LEMMA QuietStep ==
  ASSUME EveryByteOnce, LineReachesAll,
         UNCHANGED <<tot, wrote, socket, sofar, statsVars, printed>>
  PROVE  EveryByteOnce' /\ LineReachesAll'
<1> USE DEF statsVars
<1>1. \A f \in Flow : /\ SentOn(f)' = SentOn(f) /\ Written(f)' = Written(f)
                      /\ InHand(f)' = InHand(f)
  BY DEF SentOn, Written, InHand
<1> QED
  BY <1>1 DEF EveryByteOnce, LineReachesAll

\* The steps of the receiver thread that accept nothing, and those of main that
\* wait: what they keep and what they change.
LEMMA StartUpSteps ==
  ASSUME ProgramInv, SetupListen \/ SetFlag \/ MainWaits \/ MainGoes \/ MainWakes
  PROVE  ProgramInv'
<1> USE DEF ProgramInv
<1>1. UNCHANGED <<inputVars, statsVars, outputVars, started, sec, printed, backlog,
                  flowId, blastVars>>
  BY DEF SetupListen, SetFlag, MainWaits, MainGoes, MainWakes, slisten, listenerVars,
         receiverVars, mainVars, flagVars
<1>2. UNCHANGED <<socket, gone, sofar, byte_array, max_id, sendBytes, sendMax, wrote,
                  scheduled, started, sec, printed, backlog, flowId, blaster, tot>>
  BY <1>1 DEF inputVars, statsVars, outputVars, blastVars
<1>3. EveryByteOnce' /\ LineReachesAll'
  BY <1>2, QuietStep DEF statsVars
<1>4. /\ value \in {0, 1} /\ waiting \in SUBSET {"main"} /\ listening \in BOOLEAN
      /\ main \in {"wait", "start", "print", "exited", "failed"} /\ main # "failed"
      /\ receiver \in {"setup", "flag", "accept"}
      /\ receiver # "setup" => listening
      /\ value = 1 => listening
      /\ main # "wait" => listening
      /\ main \in {"wait", "start"} => started < nflows
  BY DEF TypeOK, StartUp, ConnectsInTime
<1>5. /\ value' \in {0, 1} /\ waiting' \in SUBSET {"main"} /\ listening' \in BOOLEAN
      /\ main' \in {"wait", "start", "print", "exited", "failed"} /\ main' # "failed"
      /\ receiver' \in {"setup", "flag", "accept"}
      /\ receiver' # "setup" => listening'
      /\ value' = 1 => listening'
      /\ main' # "wait" => listening'
      /\ main' \in {"wait", "start"} => started < nflows
  <2>1. CASE SetupListen
    <3>1. /\ listening' = TRUE /\ receiver' = "flag" /\ value' = value
          /\ waiting' = waiting /\ main' = main
      BY <2>1 DEF SetupListen, slisten, flagVars, mainVars
    <3> QED BY <1>4, <3>1
  <2>2. CASE SetFlag
    <3>1. /\ value' = 1 /\ waiting' = {} /\ receiver' = "accept" /\ receiver = "flag"
          /\ listening' = listening /\ main' = main
      BY <2>2 DEF SetFlag, Set, listenerVars, mainVars
    <3> QED BY <1>4, <3>1
  <2>3. CASE MainWaits \/ MainWakes
    <3>1. /\ value' = value /\ waiting' \in {waiting \cup {"main"}, waiting \ {"main"}}
          /\ receiver' = receiver /\ listening' = listening /\ main' = main
      BY <2>3 DEF MainWaits, MainWakes, WaitSleeps, WaitSpurious, receiverVars,
                  listenerVars, mainVars
    <3> QED BY <1>4, <3>1
  <2>4. CASE MainGoes
    <3>1. /\ value' = value /\ value # 0 /\ waiting' = waiting
          /\ main = "wait" /\ main' = "start"
          /\ receiver' = receiver /\ listening' = listening
      BY <2>4 DEF MainGoes, WaitReturns, flagVars, receiverVars, listenerVars
    <3> QED BY <1>4, <3>1
  <2> QED BY <2>1, <2>2, <2>3, <2>4
<1>6. TypeOK'
  BY <1>2, <1>5 DEF TypeOK
<1>7. Connections'
  BY <1>2 DEF Connections, Accepts, Accepted
<1>8. StartUp' /\ ConnectsInTime'
  BY <1>2, <1>5 DEF StartUp, ConnectsInTime
<1> QED
  BY <1>3, <1>6, <1>7, <1>8

\* The connection that is accepted is the first one that was not.
LEMMA AcceptStep ==
  ASSUME ProgramInv, NEW c \in Flow, Accept(c)
  PROVE  ProgramInv'
<1> USE DEF ProgramInv
<1>1. /\ backlog # <<>> /\ c = Head(backlog) /\ backlog' = Tail(backlog)
      /\ listening' = listening
      /\ flowId' = [flowId EXCEPT ![c] = Accepts]
      /\ UNCHANGED <<flagVars, inputVars, statsVars, outputVars, mainVars, receiver, blastVars>>
  BY DEF Accept, saccept
<1>2. UNCHANGED <<value, waiting, socket, gone, sofar, byte_array, max_id, sendBytes, sendMax,
                  wrote, scheduled, main, started, sec, printed, receiver, blaster, tot>>
  BY <1>1 DEF flagVars, inputVars, statsVars, outputVars, mainVars, blastVars
<1>3. EveryByteOnce' /\ LineReachesAll'
  BY <1>2, QuietStep DEF statsVars
<1>4. /\ backlog \in Seq(Flow) /\ Len(backlog) \in Nat \ {0} /\ Len(backlog) <= Backlog
      /\ flowId \in [Flow -> Flow \cup {-1}] /\ started \in 0 .. nflows
      /\ Accepts \in Nat /\ Accepts + Len(backlog) = started
      /\ nflows \in Nat /\ Backlog \in Nat /\ Flow = 0 .. (nflows - 1)
  <2>1. /\ backlog \in Seq(Flow) /\ Len(backlog) <= Backlog /\ started \in 0 .. nflows
        /\ flowId \in [Flow -> Flow \cup {-1}] /\ Accepts + Len(backlog) = started
    BY DEF TypeOK, Connections
  <2>2. Len(backlog) \in Nat \ {0}
    BY <1>1, <2>1
  <2>3. nflows \in Nat /\ Backlog \in Nat /\ Flow = 0 .. (nflows - 1)
    BY Threads
  <2>4. Accepts \in Nat
    BY <2>3, AcceptsType
  <2> QED BY <2>1, <2>2, <2>3, <2>4
<1>5. c = Accepts
  <2>1. 1 \in 1 .. Len(backlog) /\ c = backlog[1]
    BY <1>1, <1>4
  <2>2. backlog[1] = Accepts + 1 - 1
    BY <2>1 DEF Connections
  <2> QED BY <1>4, <2>1, <2>2
<1>6. \A d \in Flow : flowId'[d] = IF d < Accepts + 1 THEN d ELSE -1
  BY <1>1, <1>4, <1>5 DEF Connections
<1>7. Accepts' = Accepts + 1
  <2>1. Accepts + 1 \in 0 .. nflows
    BY <1>4
  <2>2. {d \in Flow : flowId'[d] # -1} = 0 .. Accepts
    BY <1>4, <1>6
  <2>3. 0 \in Int /\ Accepts \in Int /\ ~(0 > Accepts)
    BY <1>4
  <2>4. Cardinality(0 .. Accepts) = Accepts - 0 + 1
    BY <2>3, FS_Interval
  <2>5. Accepts' = Cardinality({d \in Flow : flowId'[d] # -1})
    BY DEF Accepts, Accepted
  <2>6. Accepts' = Accepts - 0 + 1
    BY <2>2, <2>4, <2>5
  <2> HIDE DEF Accepts
  <2> QED BY <1>4, <2>6
<1>8. /\ backlog' \in Seq(Flow) /\ Len(backlog') = Len(backlog) - 1
      /\ \A i \in 1 .. Len(backlog') : backlog'[i] = backlog[i + 1] /\ i + 1 \in 1 .. Len(backlog)
  BY <1>1, <1>4
<1>9. Connections'
  <2>1. Accepts' + Len(backlog') = started'
    <3>1. started' = started /\ Len(backlog') = Len(backlog) - 1
      BY <1>2, <1>8
    <3>2. Accepts \in Nat /\ Len(backlog) \in Nat /\ Accepts + Len(backlog) = started
      BY <1>4
    <3> QED BY <1>7, <3>1, <3>2
  <2>2. ASSUME NEW i \in 1 .. Len(backlog') PROVE backlog'[i] = Accepts' + i - 1
    <3>1. backlog'[i] = Accepts + (i + 1) - 1
      BY <1>8 DEF Connections
    <3> QED BY <1>4, <1>7, <3>1
  <2> QED BY <1>6, <1>7, <2>1, <2>2 DEF Connections
<1>10. TypeOK'
  <2>1. flowId' \in [Flow -> Flow \cup {-1}]
    BY <1>1, <1>4, <1>5
  <2>2. Len(backlog') <= Backlog
    BY <1>4, <1>8
  <2> QED BY <1>1, <1>2, <1>8, <2>1, <2>2 DEF TypeOK
<1>11. StartUp' /\ ConnectsInTime'
  BY <1>1, <1>2 DEF StartUp, ConnectsInTime
<1> QED
  BY <1>3, <1>9, <1>10, <1>11

\* main finds the receiver listening, and starts senders that were idle.
LEMMA StartFlowStep ==
  ASSUME ProgramInv, StartFlow
  PROVE  ProgramInv'
<1> USE DEF ProgramInv
<1>1. /\ main = "start" /\ listening /\ started < nflows /\ listening \in BOOLEAN
      /\ started \in 0 .. nflows /\ backlog \in Seq(Flow) /\ Len(backlog) \in Nat
      /\ Accepts \in Nat /\ nflows \in Nat /\ Flow = 0 .. (nflows - 1)
      /\ blaster \in [Sender -> {"idle", "ready", "write", "done"}]
      /\ \A t \in Sender : FlowOf(t) \in Nat
  <2>1. main = "start"
    BY DEF StartFlow
  <2>2. listening /\ started < nflows
    BY <2>1 DEF StartUp
  <2>3. /\ listening \in BOOLEAN /\ started \in 0 .. nflows /\ backlog \in Seq(Flow)
        /\ blaster \in [Sender -> {"idle", "ready", "write", "done"}]
    BY DEF TypeOK
  <2>4. /\ nflows \in Nat /\ Flow = 0 .. (nflows - 1)
        /\ \A t \in Sender : FlowOf(t) \in Nat
    BY Threads
  <2>5. Accepts \in Nat /\ Len(backlog) \in Nat
    BY <2>3, <2>4, AcceptsType
  <2> QED BY <2>1, <2>2, <2>3, <2>4, <2>5
<1>2. /\ Len(backlog) < Backlog /\ backlog' = Append(backlog, started)
      /\ listening' = listening
      /\ blaster' = [t \in Sender |-> IF FlowOf(t) = started THEN "ready" ELSE blaster[t]]
      /\ started' = started + 1
      /\ main' = IF started' = nflows THEN "print" ELSE "start"
      /\ UNCHANGED <<flagVars, inputVars, statsVars, outputVars, sec, printed, receiver,
                     flowId, tot>>
  BY <1>1 DEF StartFlow, Refused, sconnect
<1>3. UNCHANGED <<value, waiting, socket, gone, sofar, byte_array, max_id, sendBytes, sendMax,
                  wrote, scheduled, sec, printed, receiver, flowId, tot>>
  BY <1>2 DEF flagVars, inputVars, statsVars, outputVars
<1>4. /\ \A t \in Sender : FlowOf(t) = started => blaster[t] = "idle" /\ blaster'[t] = "ready"
      /\ \A t \in Sender : FlowOf(t) # started => blaster'[t] = blaster[t]
  BY <1>1, <1>2 DEF StartUp
<1>5. EveryByteOnce' /\ LineReachesAll'
  BY <1>3, QuietStep DEF statsVars
<1>6. started \in Flow /\ Backlog \in Nat
  BY <1>1, Threads
<1>7. /\ backlog' \in Seq(Flow) /\ Len(backlog') = Len(backlog) + 1
      /\ \A i \in 1 .. Len(backlog) : backlog'[i] = backlog[i]
      /\ backlog'[Len(backlog) + 1] = started
  BY <1>1, <1>2, <1>6
<1>8. Connections'
  <2>1. Accepts' = Accepts
    BY <1>3 DEF Accepts, Accepted
  <2>2. Accepts' + Len(backlog') = started'
    <3>1. Accepts + Len(backlog) = started
      BY DEF Connections
    <3> QED BY <1>1, <1>2, <1>7, <2>1, <3>1
  <2>3. ASSUME NEW i \in 1 .. Len(backlog') PROVE backlog'[i] = Accepts' + i - 1
    <3>1. CASE i = Len(backlog) + 1
      BY <1>1, <1>7, <2>1, <3>1 DEF Connections
    <3>2. CASE i # Len(backlog) + 1
      <4>1. i \in 1 .. Len(backlog)
        BY <1>1, <1>7, <3>2
      <4> QED BY <1>7, <2>1, <4>1 DEF Connections
    <3> QED BY <3>1, <3>2
  <2> QED BY <1>3, <2>1, <2>2, <2>3 DEF Connections
<1>9. /\ main' \in {"start", "print"}
      /\ main' = "start" => started' < nflows
      /\ started' \in 0 .. nflows /\ Len(backlog') <= Backlog
  BY <1>1, <1>2, <1>6, <1>7
<1>10. TypeOK'
  <2>1. blaster' \in [Sender -> {"idle", "ready", "write", "done"}]
    BY <1>1, <1>2
  <2>2. main' \in {"wait", "start", "print", "exited", "failed"}
    BY <1>9
  <2> QED BY <1>2, <1>3, <1>7, <1>9, <2>1, <2>2 DEF TypeOK
<1>11. ConnectsInTime' /\ StartUp'
  <2>1. ASSUME NEW t \in Sender, FlowOf(t) >= started' PROVE blaster'[t] = "idle"
    <3>1. FlowOf(t) # started /\ FlowOf(t) >= started
      BY <1>1, <1>2, <2>1
    <3> QED BY <1>4, <3>1 DEF StartUp
  <2>2. main' # "failed" /\ (main' \in {"wait", "start"} => started' < nflows)
    BY <1>9
  <2> QED BY <1>1, <1>2, <1>3, <2>1, <2>2 DEF ConnectsInTime, StartUp
<1> QED
  BY <1>5, <1>8, <1>10, <1>11

-----------------------------------------------------------------------------

\* When one thread's number changes, the sum of its flow changes by as much and
\* no other sum does.
LEMMA OneThread ==
  ASSUME NEW S, NEW x \in S, NEW F, NEW G, NEW f, IsFiniteSet(Of(f, S)),
         \A y \in S : F[y] \in Int /\ G[y] \in Int,
         \A y \in S \ {x} : G[y] = F[y]
  PROVE  /\ SumFunctionOnSet(F, Of(f, S)) \in Int
         /\ SumFunctionOnSet(G, Of(f, S)) \in Int
         /\ FlowOf(x) = f =>
              SumFunctionOnSet(G, Of(f, S)) = SumFunctionOnSet(F, Of(f, S)) + G[x] - F[x]
         /\ FlowOf(x) # f => SumFunctionOnSet(G, Of(f, S)) = SumFunctionOnSet(F, Of(f, S))
<1>1. /\ \A y \in Of(f, S) : F[y] \in Int /\ G[y] \in Int
      /\ \A y \in Of(f, S) \ {x} : G[y] = F[y]
      /\ x \in Of(f, S) <=> FlowOf(x) = f
  BY DEF Of
<1> QED
  BY <1>1, OneSummand

\* The values of a state's functions.
LEMMA Values ==
  ASSUME TypeOK
  PROVE  /\ \A f \in Flow : socket[f] \in 0 .. Room /\ socket[f] \in Int
         /\ \A f \in FlowId : /\ byte_array[f] \in Nat /\ printed[f] \in Nat
                              /\ sendBytes[f] \in Nat
         /\ \A t \in Sender : /\ tot[t] \in Nat /\ wrote[t] \in 0 .. BUF_SIZE
                              /\ tot[t] \in Int /\ wrote[t] \in Int
         /\ \A r \in Reader : sofar[r] \in 0 .. BUFFER_SIZE /\ sofar[r] \in Int
<1>1. /\ socket \in [Flow -> 0 .. Room] /\ sofar \in [Reader -> 0 .. BUFFER_SIZE]
      /\ wrote \in [Sender -> 0 .. BUF_SIZE] /\ tot \in [Sender -> Nat]
      /\ byte_array \in [FlowId -> Nat] /\ printed \in [FlowId -> Nat]
      /\ sendBytes \in [FlowId -> Nat]
  BY DEF TypeOK
<1>2. /\ \A n \in 0 .. Room : n \in Int
      /\ \A n \in 0 .. BUFFER_SIZE : n \in Int
      /\ \A n \in 0 .. BUF_SIZE : n \in Int
      /\ \A n \in Nat : n \in Int
  OBVIOUS
<1>3. \A f \in Flow : socket[f] \in 0 .. Room
  BY <1>1
<1>4. \A t \in Sender : tot[t] \in Nat /\ wrote[t] \in 0 .. BUF_SIZE
  BY <1>1
<1>5. \A r \in Reader : sofar[r] \in 0 .. BUFFER_SIZE
  BY <1>1
<1>6. \A f \in FlowId : byte_array[f] \in Nat /\ printed[f] \in Nat /\ sendBytes[f] \in Nat
  BY <1>1
<1> QED
  BY <1>2, <1>3, <1>4, <1>5, <1>6

\* The values the sums of a state have.
LEMMA SumTypes ==
  ASSUME TypeOK, NEW f \in Flow
  PROVE  /\ SentOn(f) \in Int /\ InHand(f) \in Int
         /\ SumFunctionOnSet(wrote, Of(f, Sender)) \in Int
<1>1. /\ \A t \in Of(f, Sender) : tot[t] \in Int /\ wrote[t] \in Int
      /\ \A r \in Of(f, Reader) : sofar[r] \in Int
  BY Values DEF Of
<1>2. IsFiniteSet(Of(f, Sender)) /\ IsFiniteSet(Of(f, Reader))
  BY Threads
<1> QED
  BY <1>1, <1>2, SumStep DEF SentOn, InHand

\* Stats::update keeps its types, and an id it counts for is within the line.
LEMMA UpdateStep ==
  ASSUME NEW f \in FlowId, NEW n \in Nat, Update(f, n), LineReachesAll,
         byte_array \in [FlowId -> Nat], max_id \in FlowId
  PROVE  /\ byte_array' \in [FlowId -> Nat] /\ max_id' \in FlowId /\ LineReachesAll'
         /\ byte_array'[f] = byte_array[f] + n
         /\ \A g \in FlowId \ {f} : byte_array'[g] = byte_array[g]
<1>1. /\ byte_array' = [byte_array EXCEPT ![f] = byte_array[f] + n]
      /\ max_id' = IF f > max_id THEN f ELSE max_id
      /\ FlowId \subseteq Nat
  BY Threads DEF Update
<1>2. max_id' \in FlowId /\ max_id' >= f /\ max_id' >= max_id
  BY <1>1
<1>3. /\ byte_array' \in [FlowId -> Nat] /\ byte_array'[f] = byte_array[f] + n
      /\ \A g \in FlowId \ {f} : byte_array'[g] = byte_array[g]
  BY <1>1
<1>4. ASSUME NEW g \in FlowId, byte_array'[g] > 0 PROVE g <= max_id'
  <2>1. CASE g = f
    BY <1>2, <2>1
  <2>2. CASE g # f
    <3>1. g <= max_id
      BY <1>3, <1>4, <2>2 DEF LineReachesAll
    <3> QED BY <1>1, <1>2, <3>1
  <2> QED BY <2>1, <2>2
<1> QED
  BY <1>2, <1>3, <1>4 DEF LineReachesAll

\* The same of the senders' statistics.
LEMMA SendUpdateStep ==
  ASSUME NEW f \in FlowId, NEW n \in Nat,
         SendStats!Update(f, n) \/ Output!Update(f, n),
         sendBytes \in [FlowId -> Nat], sendMax \in FlowId
  PROVE  sendBytes' \in [FlowId -> Nat] /\ sendMax' \in FlowId
<1>1. /\ sendBytes' = [sendBytes EXCEPT ![f] = sendBytes[f] + n]
      /\ sendMax' = IF f > sendMax THEN f ELSE sendMax
  BY DEF SendStats!Update, Output!Update
<1>2. sendMax' \in FlowId
  BY <1>1
<1> QED
  BY <1>1, <1>2

\* A line of statistics moves the bytes it prints, all of them.
LEMMA PrintStep ==
  ASSUME ProgramInv, PrintStats
  PROVE  ProgramInv'
<1> USE DEF ProgramInv
<1>1. /\ main = "print" /\ main' = (IF sec + 1 > dieTime THEN "exited" ELSE "print")
      /\ byte_array' = [f \in FlowId |-> byte_array[f] - Line[f]]
      /\ printed' = [f \in FlowId |-> printed[f] + Line[f]]
      /\ sec' = sec + 1 /\ max_id' = max_id
      /\ UNCHANGED <<flagVars, inputVars, outputVars, started, receiverVars, blastVars>>
  BY DEF PrintStats, ToString
<1>2. UNCHANGED <<value, waiting, socket, gone, sofar, sendBytes, sendMax, wrote, scheduled,
                  started, receiver, listening, backlog, flowId, blaster, tot>>
  BY <1>1 DEF flagVars, inputVars, outputVars, receiverVars, listenerVars, blastVars
<1>3. /\ byte_array \in [FlowId -> Nat] /\ printed \in [FlowId -> Nat] /\ max_id \in FlowId
      /\ sec \in Nat /\ Flow \subseteq FlowId
  BY Threads DEF TypeOK
<1>4. ASSUME NEW f \in FlowId
      PROVE  /\ byte_array'[f] \in Nat /\ printed'[f] \in Nat
             /\ byte_array'[f] <= byte_array[f]
             /\ byte_array'[f] + printed'[f] = byte_array[f] + printed[f]
  <2>1. Line[f] = IF f <= max_id THEN byte_array[f] ELSE 0
    BY DEF Line
  <2>2. byte_array[f] \in Nat /\ printed[f] \in Nat /\ Line[f] \in {0, byte_array[f]}
    BY <1>3, <2>1
  <2> QED BY <1>1, <2>2
<1>5. TypeOK'
  <2>1. byte_array' \in [FlowId -> Nat] /\ printed' \in [FlowId -> Nat]
    BY <1>1, <1>4
  <2>2. main' \in {"wait", "start", "print", "exited", "failed"} /\ sec' \in Nat
    BY <1>1, <1>3
  <2> QED BY <1>1, <1>2, <2>1, <2>2 DEF TypeOK
<1>6. ConnectsInTime' /\ StartUp'
  BY <1>1, <1>2 DEF ConnectsInTime, StartUp
<1>7. Connections'
  BY <1>2 DEF Connections, Accepts, Accepted
<1>8. LineReachesAll'
  <2>1. ASSUME NEW f \in FlowId, byte_array'[f] > 0 PROVE f <= max_id'
    BY <1>1, <1>3, <1>4, <2>1 DEF LineReachesAll
  <2> QED BY <2>1 DEF LineReachesAll
<1>9. EveryByteOnce'
  <2>1. ASSUME NEW f \in Flow
        PROVE  Written(f)' = socket'[f] + InHand(f)' + byte_array'[f] + printed'[f]
    <3>1. Written(f)' = Written(f) /\ InHand(f)' = InHand(f)
      BY <1>2 DEF Written, SentOn, InHand
    <3>2. InHand(f) \in Int
      BY SumTypes
    <3>3. socket[f] \in Int
      BY Values
    <3>4. Written(f) = socket[f] + InHand(f) + byte_array[f] + printed[f]
      BY DEF EveryByteOnce
    <3>5. f \in FlowId /\ byte_array[f] \in Nat /\ printed[f] \in Nat
      BY <1>3
    <3>6. /\ socket'[f] = socket[f]
          /\ byte_array'[f] \in Nat /\ printed'[f] \in Nat
          /\ byte_array'[f] + printed'[f] = byte_array[f] + printed[f]
      BY <1>2, <1>4, <3>5
    <3>7. socket[f] + InHand(f) + byte_array[f] + printed[f]
            = socket[f] + InHand(f) + byte_array'[f] + printed'[f]
      BY <3>2, <3>3, <3>5, <3>6
    <3> QED BY <3>1, <3>4, <3>6, <3>7
  <2> QED BY <2>1 DEF EveryByteOnce
<1> QED
  BY <1>5, <1>6, <1>7, <1>8, <1>9

-----------------------------------------------------------------------------

\* A sender's write begins: nothing is written yet, but a scheduled stream has
\* counted the buffer.
LEMMA BeginWriteStep ==
  ASSUME ProgramInv, NEW t \in Sender, BeginWrite(t)
  PROVE  ProgramInv'
<1> USE DEF ProgramInv
<1> DEFINE c == FlowOf(t)
<1>1. /\ blaster[t] = "ready" /\ blaster' = [blaster EXCEPT ![t] = "write"]
      /\ IF scheduled THEN SendStats!Update(c, BUF_SIZE) ELSE UNCHANGED <<sendBytes, sendMax>>
      /\ UNCHANGED <<value, waiting, socket, gone, sofar, byte_array, max_id, wrote,
                     scheduled, main, started, sec, printed, receiver, listening, backlog,
                     flowId, tot>>
  BY DEF BeginWrite, At, flagVars, inputVars, statsVars, mainVars, receiverVars, listenerVars
<1>2. /\ blaster \in [Sender -> {"idle", "ready", "write", "done"}]
      /\ sendBytes \in [FlowId -> Nat] /\ sendMax \in FlowId /\ scheduled \in BOOLEAN
  BY DEF TypeOK
<1>3. c \in Flow /\ c \in FlowId /\ BUF_SIZE \in Nat
  BY Threads
<1> HIDE DEF c
<1>4. sendBytes' \in [FlowId -> Nat] /\ sendMax' \in FlowId
  BY <1>1, <1>2, <1>3, SendUpdateStep
<1>5. /\ blaster' \in [Sender -> {"idle", "ready", "write", "done"}]
      /\ blaster'[t] = "write" /\ \A u \in Sender \ {t} : blaster'[u] = blaster[u]
  BY <1>1, <1>2
<1>6. TypeOK'
  BY <1>1, <1>4, <1>5 DEF TypeOK
<1>7. ConnectsInTime' /\ Connections'
  BY <1>1 DEF ConnectsInTime, Connections, Accepts, Accepted
<1>8. StartUp'
  <2>1. ~(FlowOf(t) >= started)
    BY <1>1 DEF StartUp
  <2> QED BY <1>1, <1>5, <2>1 DEF StartUp
<1>9. EveryByteOnce' /\ LineReachesAll'
  BY <1>1 DEF EveryByteOnce, LineReachesAll, Written, SentOn, InHand
<1> QED
  BY <1>6, <1>7, <1>8, <1>9

\* A system call of a write moves bytes of the sender's buffer into the
\* connection; when all are written the sender has sent a buffer more.
LEMMA WriteSteps ==
  ASSUME ProgramInv, NEW t \in Sender, Writes(t)
  PROVE  ProgramInv'
<1> USE DEF ProgramInv
<1> DEFINE c == FlowOf(t)
<1>1. /\ blaster[t] = "write"
      /\ UNCHANGED <<value, waiting, gone, sofar, byte_array, max_id, scheduled, main, started,
                     sec, printed, receiver, listening, backlog, flowId>>
  BY DEF Writes, WriteMore, EndWrite, At, flagVars, statsVars, mainVars, receiverVars,
         listenerVars, Output!WritePiece, Output!WriteFull, Output!Put
<1>2. /\ c \in Flow /\ c \in FlowId /\ c \in Int
      /\ BUF_SIZE \in Nat \ {0} /\ Room \in Nat /\ Flow \subseteq FlowId
      /\ socket \in [Flow -> 0 .. Room] /\ wrote \in [Sender -> 0 .. BUF_SIZE]
      /\ tot \in [Sender -> Nat]
      /\ blaster \in [Sender -> {"idle", "ready", "write", "done"}]
      /\ sendBytes \in [FlowId -> Nat] /\ sendMax \in FlowId /\ scheduled \in BOOLEAN
  <2>1. /\ socket \in [Flow -> 0 .. Room] /\ wrote \in [Sender -> 0 .. BUF_SIZE]
        /\ tot \in [Sender -> Nat]
        /\ blaster \in [Sender -> {"idle", "ready", "write", "done"}]
        /\ sendBytes \in [FlowId -> Nat] /\ sendMax \in FlowId /\ scheduled \in BOOLEAN
    BY DEF TypeOK
  <2>2. /\ c \in Flow /\ BUF_SIZE \in Nat \ {0} /\ Room \in Nat /\ Flow \subseteq FlowId
        /\ Flow \subseteq Nat
    BY Threads
  <2> HIDE DEF c
  <2>3. c \in FlowId /\ c \in Nat
    BY <2>2
  <2>4. c \in Int
    BY <2>3
  <2> QED BY <2>1, <2>2, <2>3, <2>4
<1>3. /\ socket[c] \in 0 .. Room /\ wrote[t] \in 0 .. BUF_SIZE /\ tot[t] \in Nat
  BY <1>2
<1>4. PICK n \in Nat, add \in Nat :
        /\ socket[c] + n <= Room /\ socket' = [socket EXCEPT ![c] = socket[c] + n]
        /\ wrote[t] + n - add \in 0 .. BUF_SIZE
        /\ wrote' = [wrote EXCEPT ![t] = wrote[t] + n - add]
        /\ tot' = [tot EXCEPT ![t] = tot[t] + add]
        /\ \E l \in {"write", "ready", "done"} : blaster' = [blaster EXCEPT ![t] = l]
        /\ UNCHANGED <<sendBytes, sendMax>> \/ Output!Update(c, BUF_SIZE)
  <2>1. CASE WriteMore(t)
    <3>1. PICK n \in 1 .. (BUF_SIZE - wrote[t]) :
             /\ socket[c] + n <= Room /\ socket' = [socket EXCEPT ![c] = socket[c] + n]
             /\ wrote' = [wrote EXCEPT ![t] = wrote[t] + n]
             /\ UNCHANGED <<tot, blaster, sendBytes, sendMax>>
      BY <2>1 DEF WriteMore, Output!WritePiece, Output!Fits, Output!Put, Output!Left, blastVars
    <3>2. n \in Nat /\ wrote[t] + n - 0 \in 0 .. BUF_SIZE /\ wrote[t] + n = wrote[t] + n - 0
      BY <1>2, <1>3
    <3>3. /\ tot' = [tot EXCEPT ![t] = tot[t] + 0]
          /\ blaster' = [blaster EXCEPT ![t] = "write"]
      BY <1>1, <1>2, <1>3, <3>1
    <3>4. wrote' = [wrote EXCEPT ![t] = wrote[t] + n - 0]
      BY <3>1, <3>2
    <3>5. n \in Nat /\ 0 \in Nat /\ "write" \in {"write", "ready", "done"}
      BY <3>2
    <3> HIDE DEF c
    <3> QED BY <3>1, <3>2, <3>3, <3>4, <3>5, Zenon
  <2>2. CASE EndWrite(t)
    <3>1. /\ BUF_SIZE - wrote[t] = 0
          /\ socket' = socket
          /\ wrote' = [wrote EXCEPT ![t] = 0]
          /\ tot' = [tot EXCEPT ![t] = tot[t] + BUF_SIZE]
          /\ \E l \in {"write", "ready", "done"} : blaster' = [blaster EXCEPT ![t] = l]
          /\ Output!Update(c, BUF_SIZE)
      BY <2>2 DEF EndWrite, Output!WriteFull, Output!Left
    <3>2. BUF_SIZE \in Nat /\ wrote[t] + 0 - BUF_SIZE = 0 /\ 0 \in 0 .. BUF_SIZE
      BY <1>2, <1>3, <3>1
    <3>3. socket[c] + 0 <= Room /\ socket' = [socket EXCEPT ![c] = socket[c] + 0]
      BY <1>2, <1>3, <3>1
    <3>4. /\ wrote[t] + 0 - BUF_SIZE \in 0 .. BUF_SIZE
          /\ wrote' = [wrote EXCEPT ![t] = wrote[t] + 0 - BUF_SIZE]
          /\ 0 \in Nat /\ BUF_SIZE \in Nat
      BY <3>1, <3>2
    <3> HIDE DEF c
    <3> QED BY <3>1, <3>3, <3>4, Zenon
  <2> QED BY <2>1, <2>2 DEF Writes
<1> HIDE DEF c
<1>5. /\ socket' \in [Flow -> 0 .. Room] /\ socket'[c] = socket[c] + n
      /\ \A f \in Flow \ {c} : socket'[f] = socket[f]
  <2>1. socket[c] + n \in 0 .. Room
    BY <1>2, <1>3, <1>4
  <2> QED BY <1>2, <1>4, <2>1
<1>6. /\ wrote' \in [Sender -> 0 .. BUF_SIZE]
      /\ wrote'[t] = wrote[t] + n - add
      /\ \A u \in Sender \ {t} : wrote'[u] = wrote[u]
  BY <1>2, <1>4
<1>7. /\ tot' \in [Sender -> Nat] /\ tot'[t] = tot[t] + add
      /\ \A u \in Sender \ {t} : tot'[u] = tot[u]
  BY <1>2, <1>3, <1>4
<1>8. /\ blaster' \in [Sender -> {"idle", "ready", "write", "done"}]
      /\ \A u \in Sender \ {t} : blaster'[u] = blaster[u]
  <2>1. PICK l \in {"write", "ready", "done"} : blaster' = [blaster EXCEPT ![t] = l]
    BY <1>4
  <2> QED BY <1>2, <2>1
<1>9. sendBytes' \in [FlowId -> Nat] /\ sendMax' \in FlowId
  <2>1. CASE UNCHANGED <<sendBytes, sendMax>>
    BY <1>2, <2>1
  <2>2. CASE Output!Update(c, BUF_SIZE)
    BY <1>2, <2>2, SendUpdateStep
  <2> QED BY <1>4, <2>1, <2>2
<1>10. TypeOK'
  BY <1>1, <1>5, <1>6, <1>7, <1>8, <1>9 DEF TypeOK
<1>11. ConnectsInTime' /\ Connections' /\ LineReachesAll'
  BY <1>1 DEF ConnectsInTime, Connections, Accepts, Accepted, LineReachesAll
<1>12. StartUp'
  <2>1. ~(FlowOf(t) >= started)
    BY <1>1 DEF StartUp
  <2> QED BY <1>1, <1>8, <2>1 DEF StartUp
<1>13. ASSUME NEW f \in Flow
       PROVE  /\ SentOn(f)' = SentOn(f) + (IF f = c THEN add ELSE 0)
              /\ SumFunctionOnSet(wrote, Of(f, Sender))'
                   = SumFunctionOnSet(wrote, Of(f, Sender)) + (IF f = c THEN n - add ELSE 0)
  <2>1. /\ \A u \in Sender : tot[u] \in Int /\ tot'[u] \in Int
        /\ \A u \in Sender : wrote[u] \in Int /\ wrote'[u] \in Int
    <3>1. \A u \in Sender : tot[u] \in Nat /\ tot'[u] \in Nat
      BY <1>2, <1>7
    <3>2. \A u \in Sender : wrote[u] \in 0 .. BUF_SIZE /\ wrote'[u] \in 0 .. BUF_SIZE
      BY <1>2, <1>6
    <3>3. \A i \in 0 .. BUF_SIZE : i \in Int
      OBVIOUS
    <3> QED BY <3>1, <3>2, <3>3
  <2>2. IsFiniteSet(Of(f, Sender))
    BY Threads
  <2>3. /\ SumFunctionOnSet(tot, Of(f, Sender)) \in Int
        /\ FlowOf(t) = f => SumFunctionOnSet(tot', Of(f, Sender))
                              = SumFunctionOnSet(tot, Of(f, Sender)) + tot'[t] - tot[t]
        /\ FlowOf(t) # f => SumFunctionOnSet(tot', Of(f, Sender))
                              = SumFunctionOnSet(tot, Of(f, Sender))
    BY <1>7, <2>1, <2>2, OneThread
  <2>4. /\ SumFunctionOnSet(wrote, Of(f, Sender)) \in Int
        /\ FlowOf(t) = f => SumFunctionOnSet(wrote', Of(f, Sender))
                              = SumFunctionOnSet(wrote, Of(f, Sender)) + wrote'[t] - wrote[t]
        /\ FlowOf(t) # f => SumFunctionOnSet(wrote', Of(f, Sender))
                              = SumFunctionOnSet(wrote, Of(f, Sender))
    BY <1>6, <2>1, <2>2, OneThread
  <2>5. SentOn(f)' = SumFunctionOnSet(tot', Of(f, Sender)) /\ SentOn(f) = SumFunctionOnSet(tot, Of(f, Sender))
    BY DEF SentOn, Of, Sender, FlowOf
  <2>6. SumFunctionOnSet(wrote, Of(f, Sender))' = SumFunctionOnSet(wrote', Of(f, Sender))
    BY DEF Of, Sender, FlowOf
  <2>7. CASE f = c
    BY <1>3, <1>4, <1>6, <1>7, <2>3, <2>4, <2>5, <2>6, <2>7 DEF c
  <2>8. CASE f # c
    BY <2>3, <2>4, <2>5, <2>6, <2>8 DEF c
  <2> QED BY <2>7, <2>8
<1>14. EveryByteOnce'
  <2> SUFFICES ASSUME NEW f \in Flow
               PROVE  Written(f)' = socket'[f] + InHand(f)' + byte_array'[f] + printed'[f]
    BY DEF EveryByteOnce
  <2> DEFINE w == SumFunctionOnSet(wrote, Of(f, Sender))
  <2>1. /\ Written(f) = SentOn(f) + w /\ Written(f)' = SentOn(f)' + w'
        /\ Written(f) = socket[f] + InHand(f) + byte_array[f] + printed[f]
        /\ InHand(f)' = InHand(f) /\ byte_array' = byte_array /\ printed' = printed
    BY <1>1 DEF EveryByteOnce, Written, InHand
  <2>2. /\ SentOn(f) \in Int /\ w \in Int /\ InHand(f) \in Int
        /\ socket[f] \in Int /\ byte_array[f] \in Int /\ printed[f] \in Int
    BY <1>2, SumTypes, Values
  <2>3. /\ SentOn(f)' = SentOn(f) + (IF f = c THEN add ELSE 0)
        /\ w' = w + (IF f = c THEN n - add ELSE 0)
        /\ socket'[f] = socket[f] + (IF f = c THEN n ELSE 0)
    BY <1>5, <1>13, <2>2
  <2> HIDE DEF w
  <2> QED BY <1>4, <2>1, <2>2, <2>3
<1> QED
  BY <1>10, <1>11, <1>12, <1>14

\* A system call of a read moves bytes out of the connection into the reader's
\* buffer; a full buffer is counted, under the number that is the flow's at the
\* sender too.
LEMMA ReadSteps ==
  ASSUME ProgramInv, NEW r \in Reader, RecvMore(r) \/ RecvBuffer(r)
  PROVE  ProgramInv'
<1> USE DEF ProgramInv
<1> DEFINE c == FlowOf(r)
<1>1. /\ Accepted(c)
      /\ UNCHANGED <<value, waiting, gone, wrote, sendBytes, sendMax, scheduled, main, started,
                     sec, printed, receiver, listening, backlog, flowId, blaster, tot>>
  BY DEF RecvMore, RecvBuffer, flagVars, outputVars, mainVars, receiverVars, listenerVars,
         blastVars, ReadPiece, ReadFull, Take
<1>2. /\ BUFFER_SIZE \in Nat \ {0, 1} /\ Room \in Nat
      /\ socket \in [Flow -> 0 .. Room] /\ sofar \in [Reader -> 0 .. BUFFER_SIZE]
      /\ byte_array \in [FlowId -> Nat] /\ max_id \in FlowId
      /\ c \in Flow /\ c \in FlowId /\ Flow \subseteq FlowId
  <2>1. /\ socket \in [Flow -> 0 .. Room] /\ sofar \in [Reader -> 0 .. BUFFER_SIZE]
        /\ byte_array \in [FlowId -> Nat] /\ max_id \in FlowId
    BY DEF TypeOK
  <2>2. BUFFER_SIZE \in Nat \ {0, 1} /\ Room \in Nat /\ c \in Flow /\ Flow \subseteq FlowId
    BY Threads
  <2> HIDE DEF c
  <2> QED BY <2>1, <2>2
<1>3. socket[c] \in 0 .. Room /\ sofar[r] \in 0 .. BUFFER_SIZE
  BY <1>2
<1>4. flowId[c] = c
  <2>1. flowId[c] # -1 /\ flowId[c] = IF c < Accepts THEN c ELSE -1
    BY <1>1, <1>2 DEF Accepted, Connections
  <2> QED BY <2>1
<1>5. PICK n \in Nat, add \in Nat :
        /\ n <= socket[c] /\ socket' = [socket EXCEPT ![c] = socket[c] - n]
        /\ sofar[r] + n - add \in 0 .. BUFFER_SIZE
        /\ sofar' = [sofar EXCEPT ![r] = sofar[r] + n - add]
        /\ \/ add = 0 /\ UNCHANGED <<byte_array, max_id>>
           \/ Update(c, add)
  <2>1. CASE RecvMore(r)
    <3>1. PICK n \in 1 .. (BUFFER_SIZE - sofar[r]) :
             /\ n <= socket[c] /\ socket' = [socket EXCEPT ![c] = socket[c] - n]
             /\ sofar' = [sofar EXCEPT ![r] = sofar[r] + n]
             /\ UNCHANGED <<byte_array, max_id>>
      BY <2>1 DEF RecvMore, ReadPiece, Take, Missing, statsVars
    <3>2. n \in Nat /\ sofar[r] + n - 0 \in 0 .. BUFFER_SIZE /\ sofar[r] + n = sofar[r] + n - 0
      BY <1>2, <1>3
    <3>3. sofar' = [sofar EXCEPT ![r] = sofar[r] + n - 0]
      BY <3>1, <3>2
    <3>4. n \in Nat /\ 0 \in Nat /\ 0 = 0
      BY <3>2
    <3> HIDE DEF c
    <3> QED BY <3>1, <3>2, <3>3, <3>4, Zenon
  <2>2. CASE RecvBuffer(r)
    <3>1. /\ BUFFER_SIZE - sofar[r] = 0 /\ socket' = socket
          /\ sofar' = [sofar EXCEPT ![r] = 0]
          /\ Update(flowId[c], BUFFER_SIZE)
      BY <2>2 DEF RecvBuffer, ReadFull, Missing
    <3>2. BUFFER_SIZE \in Nat /\ sofar[r] + 0 - BUFFER_SIZE = 0 /\ 0 \in 0 .. BUFFER_SIZE
      BY <1>2, <1>3, <3>1
    <3> HIDE DEF c
    <3>3. 0 <= socket[c] /\ socket' = [socket EXCEPT ![c] = socket[c] - 0]
      BY <1>2, <1>3, <3>1
    <3>4. /\ sofar[r] + 0 - BUFFER_SIZE \in 0 .. BUFFER_SIZE
          /\ sofar' = [sofar EXCEPT ![r] = sofar[r] + 0 - BUFFER_SIZE]
          /\ 0 \in Nat /\ BUFFER_SIZE \in Nat
      BY <3>1, <3>2
    <3>5. Update(c, BUFFER_SIZE)
      BY <1>4, <3>1
    <3> QED BY <3>3, <3>4, <3>5, Zenon
  <2> QED BY <2>1, <2>2
<1> HIDE DEF c
<1>6. /\ socket' \in [Flow -> 0 .. Room] /\ socket'[c] = socket[c] - n
      /\ \A f \in Flow \ {c} : socket'[f] = socket[f]
  <2>1. socket[c] - n \in 0 .. Room
    BY <1>2, <1>3, <1>5
  <2> QED BY <1>2, <1>5, <2>1
<1>7. /\ sofar' \in [Reader -> 0 .. BUFFER_SIZE]
      /\ sofar'[r] = sofar[r] + n - add
      /\ \A q \in Reader \ {r} : sofar'[q] = sofar[q]
  BY <1>2, <1>5
<1>8. /\ byte_array' \in [FlowId -> Nat] /\ max_id' \in FlowId /\ LineReachesAll'
      /\ byte_array'[c] = byte_array[c] + add
      /\ \A f \in FlowId \ {c} : byte_array'[f] = byte_array[f]
  <2>1. CASE add = 0 /\ UNCHANGED <<byte_array, max_id>>
    BY <1>2, <2>1 DEF LineReachesAll
  <2>2. CASE Update(c, add)
    BY <1>2, <2>2, UpdateStep
  <2> QED BY <1>5, <2>1, <2>2
<1>9. TypeOK'
  BY <1>1, <1>6, <1>7, <1>8 DEF TypeOK
<1>10. ConnectsInTime' /\ Connections' /\ StartUp'
  BY <1>1 DEF ConnectsInTime, Connections, Accepts, Accepted, StartUp
<1>11. ASSUME NEW f \in Flow
       PROVE  InHand(f)' = InHand(f) + (IF f = c THEN n - add ELSE 0)
  <2>1. \A q \in Reader : sofar[q] \in Int /\ sofar'[q] \in Int
    <3>1. \A q \in Reader : /\ sofar[q] \in 0 .. BUFFER_SIZE
                            /\ sofar'[q] \in 0 .. BUFFER_SIZE
      BY <1>2, <1>7
    <3>2. \A i \in 0 .. BUFFER_SIZE : i \in Int
      OBVIOUS
    <3> QED BY <3>1, <3>2
  <2>2. IsFiniteSet(Of(f, Reader))
    BY Threads
  <2>3. /\ SumFunctionOnSet(sofar, Of(f, Reader)) \in Int
        /\ FlowOf(r) = f => SumFunctionOnSet(sofar', Of(f, Reader))
                              = SumFunctionOnSet(sofar, Of(f, Reader)) + sofar'[r] - sofar[r]
        /\ FlowOf(r) # f => SumFunctionOnSet(sofar', Of(f, Reader))
                              = SumFunctionOnSet(sofar, Of(f, Reader))
    BY <1>7, <2>1, <2>2, OneThread
  <2>4. /\ InHand(f)' = SumFunctionOnSet(sofar', Of(f, Reader))
        /\ InHand(f) = SumFunctionOnSet(sofar, Of(f, Reader))
    BY DEF InHand, Of, FlowOf
  <2>5. CASE f = c
    BY <1>3, <1>5, <1>7, <2>3, <2>4, <2>5 DEF c
  <2>6. CASE f # c
    BY <2>3, <2>4, <2>6 DEF c
  <2> QED BY <2>5, <2>6
<1>12. EveryByteOnce'
  <2> SUFFICES ASSUME NEW f \in Flow
               PROVE  Written(f)' = socket'[f] + InHand(f)' + byte_array'[f] + printed'[f]
    BY DEF EveryByteOnce
  <2>1. /\ Written(f)' = Written(f) /\ printed'[f] = printed[f] /\ f \in FlowId
        /\ Written(f) = socket[f] + InHand(f) + byte_array[f] + printed[f]
    BY <1>1, <1>2 DEF EveryByteOnce, Written, SentOn
  <2>2. /\ InHand(f) \in Int /\ socket[f] \in Int /\ byte_array[f] \in Int /\ printed[f] \in Int
    BY <2>1, SumTypes, Values
  <2>3. /\ InHand(f)' = InHand(f) + (IF f = c THEN n - add ELSE 0)
        /\ byte_array'[f] = byte_array[f] + (IF f = c THEN add ELSE 0)
        /\ socket'[f] = socket[f] - (IF f = c THEN n ELSE 0)
    BY <1>6, <1>8, <1>11, <2>1, <2>2
  <2> QED BY <1>5, <2>1, <2>2, <2>3
<1> QED
  BY <1>8, <1>9, <1>10, <1>12

-----------------------------------------------------------------------------

\* Every step of the program keeps the invariant.
LEMMA ProgramStep == ProgramInv /\ [Next]_vars => ProgramInv'
<1> SUFFICES ASSUME ProgramInv, [Next]_vars PROVE ProgramInv'
  OBVIOUS
<1>1. CASE UNCHANGED vars
  <2>1. UNCHANGED <<value, waiting, socket, gone, sofar, byte_array, max_id, sendBytes, sendMax,
                    wrote, scheduled, main, started, sec, printed, receiver, listening, backlog,
                    flowId, blaster, tot>>
    BY <1>1 DEF vars, flagVars, inputVars, statsVars, outputVars, mainVars, receiverVars,
                listenerVars, blastVars
  <2>2. TypeOK' /\ ConnectsInTime' /\ StartUp'
    BY <2>1 DEF ProgramInv, TypeOK, ConnectsInTime, StartUp
  <2>3. Connections'
    BY <2>1 DEF ProgramInv, Connections, Accepts, Accepted
  <2>4. EveryByteOnce' /\ LineReachesAll'
    BY <2>1, QuietStep DEF ProgramInv, statsVars
  <2> QED BY <2>2, <2>3, <2>4 DEF ProgramInv
<1>2. CASE SetupListen \/ SetFlag \/ MainWaits \/ MainGoes \/ MainWakes
  BY <1>2, StartUpSteps
<1>3. CASE \E c \in Flow : Accept(c)
  BY <1>3, AcceptStep
<1>4. CASE StartFlow
  BY <1>4, StartFlowStep
<1>5. CASE PrintStats
  BY <1>5, PrintStep
<1>6. CASE \E t \in Sender : Blasting(t)
  BY <1>6, BeginWriteStep, WriteSteps DEF Blasting
<1>7. CASE \E r \in Reader : Recv(r)
  BY <1>7, ReadSteps DEF Recv
<1> QED
  BY <1>1, <1>2, <1>3, <1>4, <1>5, <1>6, <1>7 DEF Next, ReceiverThread, MainThread

\* Every reachable state of the program satisfies the inductive invariant.
THEOREM ProgramInvariance == Spec => []ProgramInv
  BY InitInv, ProgramStep, PTL DEF Spec

\* The types: buffers are never overrun, and a connection holds what fits it.
THEOREM TypeCorrect == Spec => []TypeOK
<1>1. ProgramInv => TypeOK
  BY DEF ProgramInv
<1> QED
  BY <1>1, ProgramInvariance, PTL

\* The flag orders the start-up: no connection of main is refused.
THEOREM NeverRefused == Spec => []ConnectsInTime
<1>1. ProgramInv => ConnectsInTime
  BY DEF ProgramInv
<1> QED
  BY <1>1, ProgramInvariance, PTL

\* Between the senders and the printed lines no byte is lost, counted twice or
\* counted for another flow, for any number of flows, senders and recv threads.
THEOREM BytesConserved == Spec => []EveryByteOnce
<1>1. ProgramInv => EveryByteOnce
  BY DEF ProgramInv
<1> QED
  BY <1>1, ProgramInvariance, PTL

\* A line leaves out no flow that has bytes to print.
THEOREM LinesComplete == Spec => []LineReachesAll
<1>1. ProgramInv => LineReachesAll
  BY DEF ProgramInv
<1> QED
  BY <1>1, ProgramInvariance, PTL

=============================================================================
