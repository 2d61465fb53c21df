----------------------------- MODULE SendAndRecv -----------------------------
(***************************************************************************)
(* sendAndRecv.cc, the test program: main waits until the receiver thread  *)
(* listens, connects once per flow and starts the flow's blast threads,    *)
(* then prints a line of statistics every second and exits.  The receiver  *)
(* accepts the connections and starts threads that read them.              *)
(*                                                                         *)
(* A flow stands for its connection, its OutputStream and its InputStream. *)
(* When a sender's turn comes is left open: the schedulers have their own  *)
(* modules.                                                                *)
(***************************************************************************)
EXTENDS Flag, InputStream, Listener, FiniteSets, Functions

CONSTANTS
  nflows,         \* flows (5 in the code)
  BUF_SIZE,       \* bytes per write (2048)
  BytesToBlast,   \* util_bytesToBlast: stop after this many bytes; 0 = never
  Room,           \* bytes a connection holds
  dieTime         \* main exits after printing dieTime + 1 lines (30 in the code)

Flow == Conn

\* A thread is a flow and a number: the blast threads of flow ij, and (Reader)
\* the recv threads of its connection, THREADS_PER_RECV_SOCKET = 3 in the code.
nSenders(ij) == IF BytesToBlast > 0 THEN 1 ELSE ij + 1
Sender == UNION {{ij} \X (1 .. nSenders(ij)) : ij \in Flow}
FlowOf(t) == t[1]

ASSUME ProgramAssumption ==
  /\ nflows \in Nat \ {0} /\ nflows <= MAX_FLOW_ID
  /\ Conn = 0 .. (nflows - 1)
  /\ IsFiniteSet(Reader) /\ \A r \in Reader : FlowOf(r) \in Flow
  /\ BUF_SIZE \in Nat \ {0} /\ Room \in Nat \ {0}
  /\ BytesToBlast \in Nat
  /\ dieTime \in Nat

VARIABLES
  sendBytes,      \* sendStats: its byte_array and its max_id (recvStats is the
  sendMax,        \* byte_array and max_id of Stats)
  wrote,          \* of the OutputStreams
  scheduled,      \* whether the command line asks for ScheduledOutputStreams
  main,           \* main: "wait", "start", "print", "exited" or "failed"
  started,        \* flows 0 .. started-1 are connected and their senders run
  receiver,       \* startReceiver: "setup", "flag" or "accept"
  flowId,         \* flowId[c]: the id of c's InputStream; -1 before accept
  blaster,        \* where each sender is: "idle", "ready", "write" or "done"
  tot,            \* tot[t]: bytes sender t has sent
  sec,            \* lines printed
  printed         \* history: bytes printed so far, per flow

Output == INSTANCE OutputStream WITH byte_array <- sendBytes, max_id <- sendMax
SendStats == INSTANCE Stats WITH byte_array <- sendBytes, max_id <- sendMax

outputVars == <<sendBytes, sendMax, wrote, scheduled>>
mainVars == <<main, started, sec, printed>>
receiverVars == <<listenerVars, receiver, flowId>>
blastVars == <<blaster, tot>>
vars == <<flagVars, inputVars, statsVars, outputVars, mainVars, receiverVars,
          blastVars>>

Init ==
  /\ FlagInit
  /\ InputInit
  /\ StatsInit
  /\ Output!OutputInit
  /\ scheduled \in BOOLEAN
  /\ SendStats!StatsInit
  /\ main = "wait"
  /\ started = 0
  /\ sec = 0
  /\ printed = [f \in FlowId |-> 0]
  /\ receiver = "setup"
  /\ ListenerInit
  /\ flowId = [c \in Flow |-> -1]
  /\ blaster = [t \in Sender |-> "idle"]
  /\ tot = [t \in Sender |-> 0]

-----------------------------------------------------------------------------

\* exit() of main ends every thread.
Running == main \notin {"exited", "failed"}

\* The receiver thread: setup_listen, then flag->set.
SetupListen ==
  /\ Running /\ receiver = "setup"
  /\ slisten
  /\ receiver' = "flag"
  /\ UNCHANGED <<flagVars, inputVars, statsVars, outputVars, mainVars, flowId,
                 blastVars>>

SetFlag ==
  /\ Running /\ receiver = "flag"
  /\ Set
  /\ receiver' = "accept"
  /\ UNCHANGED <<inputVars, statsVars, outputVars, mainVars, listenerVars, flowId,
                 blastVars>>

Accepted(c) == flowId[c] # -1
Accepts == Cardinality({c \in Flow : Accepted(c)})

\* Mutant: ids from 1, as receiver.cc and receivePool.cc give them.
AcceptFromOne(c) ==
  /\ Running /\ receiver = "accept"
  /\ saccept(c)
  /\ flowId' = [flowId EXCEPT ![c] = Accepts + 1]
  /\ UNCHANGED <<flagVars, inputVars, statsVars, outputVars, mainVars, receiver,
                 blastVars>>

\* A connection is accepted; its recv threads can run from now on.
Accept(c) ==
  /\ Running /\ receiver = "accept"
  /\ saccept(c)
  /\ flowId' = [flowId EXCEPT ![c] = Accepts]
  /\ UNCHANGED <<flagVars, inputVars, statsVars, outputVars, mainVars, receiver,
                 blastVars>>

-----------------------------------------------------------------------------

\* main: flag->wait().
MainWaits ==
  /\ main = "wait"
  /\ WaitSleeps("main")
  /\ UNCHANGED <<inputVars, statsVars, outputVars, mainVars, receiverVars,
                 blastVars>>

MainGoes ==
  /\ main = "wait"
  /\ WaitReturns("main")
  /\ main' = "start"
  /\ UNCHANGED <<inputVars, statsVars, outputVars, started, sec, printed,
                 receiverVars, blastVars>>

MainWakes ==
  /\ WaitSpurious("main")
  /\ UNCHANGED <<inputVars, statsVars, outputVars, mainVars, receiverVars,
                 blastVars>>

\* startSenders, one turn of its loop.  When nobody listens sconnect fails and
\* the program exits.
StartFlow ==
  /\ main = "start"
  /\ IF Refused
     THEN main' = "failed" /\ UNCHANGED <<listenerVars, blaster, started>>
     ELSE /\ sconnect(started)
          /\ blaster' = [t \in Sender |->
                           IF FlowOf(t) = started THEN "ready" ELSE blaster[t]]
          /\ started' = started + 1
          /\ main' = IF started' = nflows THEN "print" ELSE "start"
  /\ UNCHANGED <<flagVars, inputVars, statsVars, outputVars, sec, printed,
                 receiver, flowId, tot>>

\* printStats, one turn of its loop; main exits when it returns.
PrintStats ==
  /\ main = "print"
  /\ ToString
  /\ printed' = [f \in FlowId |-> printed[f] + Line[f]]
  /\ sec' = sec + 1
  /\ main' = IF sec' > dieTime THEN "exited" ELSE "print"
  /\ UNCHANGED <<flagVars, inputVars, outputVars, started, receiverVars,
                 blastVars>>

-----------------------------------------------------------------------------

At(t, l) == Running /\ blaster[t] = l

\* A sender's write begins.  A ScheduledOutputStream waits for its turn, counts
\* the buffer, and calls OutputStream::write, which counts it again.
BeginWrite(t) ==
  /\ At(t, "ready")
  /\ IF scheduled THEN SendStats!Update(FlowOf(t), BUF_SIZE) ELSE UNCHANGED <<sendBytes, sendMax>>
  /\ blaster' = [blaster EXCEPT ![t] = "write"]
  /\ UNCHANGED <<flagVars, inputVars, statsVars, wrote, scheduled, mainVars, receiverVars,
                 tot>>

WriteMore(t) ==
  /\ At(t, "write")
  /\ Output!WritePiece(t, FlowOf(t))
  /\ UNCHANGED <<flagVars, sofar, statsVars, scheduled, mainVars, receiverVars, blastVars>>

\* The whole buffer is written and counted: blast goes on, or stops.
EndWrite(t) ==
  LET sum == tot[t] + BUF_SIZE IN
  /\ At(t, "write")
  /\ Output!WriteFull(t, FlowOf(t))
  /\ tot' = [tot EXCEPT ![t] = sum]
  /\ blaster' = [blaster EXCEPT ![t] =
                   IF BytesToBlast # 0 /\ sum >= BytesToBlast THEN "done" ELSE "ready"]
  /\ UNCHANGED <<flagVars, sofar, statsVars, scheduled, mainVars, receiverVars>>

\* recv: a system call of a read, and the count at its end.
RecvMore(r) ==
  /\ Running /\ Accepted(FlowOf(r))
  /\ ReadPiece(r, FlowOf(r))
  /\ UNCHANGED <<flagVars, outputVars, mainVars, receiverVars, blastVars>>

RecvBuffer(r) ==
  /\ Running /\ Accepted(FlowOf(r))
  /\ ReadFull(r, flowId[FlowOf(r)])
  /\ UNCHANGED <<flagVars, outputVars, mainVars, receiverVars, blastVars>>

-----------------------------------------------------------------------------

ReceiverThread == SetupListen \/ SetFlag \/ \E c \in Flow : Accept(c)
MainThread     == MainWaits \/ MainGoes \/ StartFlow
Writes(t)      == WriteMore(t) \/ EndWrite(t)
Blasting(t)    == BeginWrite(t) \/ Writes(t)
Recv(r)        == RecvMore(r) \/ RecvBuffer(r)

Next ==
  \/ ReceiverThread
  \/ MainThread
  \/ MainWakes
  \/ PrintStats
  \/ \E t \in Sender : Blasting(t)
  \/ \E r \in Reader : Recv(r)

Spec == Init /\ [][Next]_vars

\* The threads run.  Nothing is assumed of the printing, so the seconds may be
\* as long as the transfer needs; and nothing of the turns of a scheduled stream,
\* which a scheduler may never grant.
Fairness ==
  /\ WF_vars(ReceiverThread)
  /\ WF_vars(MainThread)
  /\ \A t \in Sender : WF_vars(~scheduled /\ BeginWrite(t)) /\ WF_vars(Writes(t))
  /\ \A r \in Reader : WF_vars(Recv(r))

FairSpec == Spec /\ Fairness

-----------------------------------------------------------------------------

TypeOK ==
  /\ value \in {0, 1}
  /\ waiting \in SUBSET {"main"}
  /\ socket \in [Flow -> 0 .. Room]
  /\ gone = {}
  /\ sofar \in [Reader -> 0 .. BUFFER_SIZE]
  /\ byte_array \in [FlowId -> Nat] /\ max_id \in FlowId
  /\ wrote \in [Sender -> 0 .. BUF_SIZE]
  /\ sendBytes \in [FlowId -> Nat] /\ sendMax \in FlowId
  /\ main \in {"wait", "start", "print", "exited", "failed"}
  /\ started \in 0 .. nflows
  /\ receiver \in {"setup", "flag", "accept"}
  /\ listening \in BOOLEAN /\ backlog \in Seq(Flow) /\ Len(backlog) <= Backlog
  /\ scheduled \in BOOLEAN
  /\ flowId \in [Flow -> Flow \cup {-1}]
  /\ blaster \in [Sender -> {"idle", "ready", "write", "done"}]
  /\ tot \in [Sender -> Nat]
  /\ sec \in Nat
  /\ printed \in [FlowId -> Nat]

\* main connects only when the receiver listens: sconnect does not fail.
ConnectsInTime == main # "failed"

Of(f, S) == {t \in S : FlowOf(t) = f}
SentOn(f)  == SumFunctionOnSet(tot, Of(f, Sender))
Written(f) == SentOn(f) + SumFunctionOnSet(wrote, Of(f, Sender))
InHand(f)  == SumFunctionOnSet(sofar, Of(f, Reader))

\* Every byte written on a flow is in the connection, in the buffer of one of
\* the threads that read it, or counted, or printed, under the number the flow
\* has at the sender, and each once.
EveryByteOnce ==
  \A f \in Flow :
    Written(f) = socket[f] + InHand(f) + byte_array[f] + printed[f]

\* What is printed never leaves a flow out: a flow with bytes to print has an
\* id the next line reaches.
LineReachesAll == \A f \in FlowId : byte_array[f] > 0 => f <= max_id

\* What Stats.cc says of the numbers it prints, "bytes for flow i whose IO
\* completed": when no sender of a flow is in the middle of a write, its count
\* is the bytes it has sent.  It fails for scheduled streams, which count each
\* buffer before the write as well as after it.
CompletedIsCounted ==
  \A f \in Flow :
    (\A t \in Of(f, Sender) : blaster[t] # "write") => sendBytes[f] = SentOn(f)

\* The start-up and the transfer get through, however small the connections'
\* buffers are: a sender that is to stop writes all its bytes, unless it waits
\* for its scheduler's turn, which only scheduled streams do.
OnlyTurnsHoldUp ==
  <>[](\/ ~Running
       \/ \A t \in Sender : blaster[t] = "done" \/ (scheduled /\ blaster[t] = "ready"))

=============================================================================
