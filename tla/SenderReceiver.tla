--------------------------- MODULE SenderReceiver ---------------------------
(***************************************************************************)
(* sender.cc and receiver.cc, the two ends of the test program as programs *)
(* of their own.  The sender connects once per flow, starts the flow's     *)
(* blast threads, prints for a while and exits, which cuts its threads off *)
(* in the middle of a write and closes its connections.  The receiver      *)
(* accepts connections for ever, three threads read each to its end, and   *)
(* nothing is printed.  Neither waits for the other to start.              *)
(***************************************************************************)
EXTENDS InputStream, Listener, FiniteSets, Functions

CONSTANTS
  nflows,         \* flows of the sender
  BUF_SIZE,       \* bytes per write (2048)
  Room,           \* bytes a connection holds
  dieTime,        \* the sender exits after printing dieTime + 1 lines (30)
  FdLimits,       \* how many connections the receiver may hold open
  MaxBytes        \* bound: bytes a sender thread writes

Flow == Conn
FlowOf(t) == t[1]

\* ij + 1 blast threads for flow ij.
Sender == UNION {{ij} \X (0 .. ij) : ij \in Flow}

ASSUME ProgramsAssumption ==
  /\ nflows \in Nat \ {0} /\ nflows < MAX_FLOW_ID
  /\ Conn = 0 .. (nflows - 1)
  /\ IsFiniteSet(Reader) /\ \A r \in Reader : FlowOf(r) \in Flow
  /\ BUF_SIZE \in Nat \ {0} /\ Room \in Nat \ {0}
  /\ dieTime \in Nat /\ FdLimits \subseteq Nat /\ MaxBytes \in Nat

VARIABLES
  sendBytes,      \* the sender's Stats: its byte_array and its max_id
  sendMax,
  wrote,          \* of the OutputStreams
  sender,         \* the sender's main: "start", "print" or "exited"
  started,        \* flows 0 .. started-1 are connected and their threads run
  sec,            \* lines printed
  tot,            \* tot[t]: bytes thread t has written in whole buffers
  receiver,       \* the receiver's main: "setup", "accept" or "exited"
  maxFds,         \* its limit of connections
  flowId,         \* flowId[c]: the id of c's InputStream; 0 before accept
  over            \* recv threads that have returned

Output == INSTANCE OutputStream WITH byte_array <- sendBytes, max_id <- sendMax
SendStats == INSTANCE Stats WITH byte_array <- sendBytes, max_id <- sendMax

sendStatsVars == <<sendBytes, sendMax>>
senderVars == <<sendStatsVars, wrote, sender, started, sec, tot>>
receiverVars == <<statsVars, sofar, receiver, maxFds, flowId, over>>
vars == <<senderVars, receiverVars, listenerVars, socket, gone>>

Init ==
  /\ InputInit
  /\ StatsInit
  /\ ListenerInit
  /\ Output!OutputInit
  /\ SendStats!StatsInit
  /\ sender = "start"
  /\ started = 0
  /\ sec = 0
  /\ tot = [t \in Sender |-> 0]
  /\ receiver = "setup"
  /\ maxFds \in FdLimits
  /\ flowId = [c \in Flow |-> 0]
  /\ over = {}

-----------------------------------------------------------------------------
(* The sender.                                                             *)

\* Mutant: the connections outlive the program.
ExitQuiet == sender' = "exited" /\ UNCHANGED gone

\* exit: the kernel closes the connections; what they hold is still delivered.
Exit == sender' = "exited" /\ gone' = 0 .. (started - 1)

\* One turn of the loop over the flows.  When nobody listens the program exits.
StartFlow ==
  /\ sender = "start"
  /\ IF Refused
     THEN Exit /\ UNCHANGED <<listenerVars, started>>
     ELSE /\ sconnect(started)
          /\ started' = started + 1
          /\ sender' = IF started' = nflows THEN "print" ELSE "start"
          /\ UNCHANGED gone
  /\ UNCHANGED <<sendStatsVars, wrote, sec, tot, receiverVars, socket>>

\* printStats, one turn of its loop; main returns when it does.
PrintStats ==
  /\ sender = "print"
  /\ SendStats!ToString
  /\ sec' = sec + 1
  /\ IF sec' > dieTime THEN Exit ELSE UNCHANGED <<sender, gone>>
  /\ UNCHANGED <<wrote, started, tot, receiverVars, listenerVars, socket>>

Blasting(t) ==
  /\ sender # "exited" /\ FlowOf(t) < started
  /\ tot[t] + BUF_SIZE <= MaxBytes

\* blast: a system call of a write, and the count at its end.
WriteMore(t) ==
  /\ Blasting(t)
  /\ receiver # "exited"
  /\ Output!WritePiece(t, FlowOf(t))
  /\ UNCHANGED <<sender, started, sec, tot, receiverVars, listenerVars>>

EndWrite(t) ==
  /\ Blasting(t)
  /\ Output!WriteFull(t, FlowOf(t))
  /\ tot' = [tot EXCEPT ![t] = @ + BUF_SIZE]
  /\ UNCHANGED <<sender, started, sec, receiverVars, listenerVars>>

\* A write to a receiver that has exited: SIGPIPE ends the sender.
BrokenPipe ==
  /\ sender # "exited" /\ started > 0
  /\ receiver = "exited"
  /\ Exit
  /\ UNCHANGED <<sendStatsVars, wrote, started, sec, tot, receiverVars, listenerVars,
                 socket>>

-----------------------------------------------------------------------------
(* The receiver.                                                           *)

SetupListen ==
  /\ receiver = "setup"
  /\ slisten
  /\ receiver' = "accept"
  /\ UNCHANGED <<senderVars, statsVars, sofar, maxFds, flowId, over, socket, gone>>

Accepted(c) == flowId[c] # 0
Accepts == Cardinality({c \in Flow : Accepted(c)})

\* A connection is accepted; its recv threads can run from now on.
Accept(c) ==
  /\ receiver = "accept"
  /\ Accepts < maxFds
  /\ saccept(c)
  /\ flowId' = [flowId EXCEPT ![c] = Accepts + 1]
  /\ UNCHANGED <<senderVars, statsVars, sofar, receiver, maxFds, over, socket, gone>>

\* saccept fails, for want of a file descriptor: exit(1).
AcceptFails ==
  /\ receiver = "accept"
  /\ Accepts = maxFds /\ backlog # <<>>
  /\ receiver' = "exited"
  /\ listening' = FALSE /\ backlog' = <<>>
  /\ UNCHANGED <<senderVars, statsVars, sofar, maxFds, flowId, over, socket, gone>>

Receiving(r) == receiver # "exited" /\ Accepted(FlowOf(r)) /\ r \notin over

RecvMore(r) ==
  /\ Receiving(r)
  /\ ReadPiece(r, FlowOf(r))
  /\ UNCHANGED <<senderVars, listenerVars, receiver, maxFds, flowId, over>>

RecvBuffer(r) ==
  /\ Receiving(r)
  /\ ReadFull(r, flowId[FlowOf(r)])
  /\ UNCHANGED <<senderVars, listenerVars, receiver, maxFds, flowId, over>>

\* recv returns at the end of the stream, with what its buffer holds.
RecvEnds(r) ==
  /\ Receiving(r)
  /\ ReadEnds(r, FlowOf(r))
  /\ over' = over \cup {r}
  /\ UNCHANGED <<senderVars, listenerVars, receiver, maxFds, flowId>>

Recv(r) == RecvMore(r) \/ RecvBuffer(r) \/ RecvEnds(r)
Acceptor == SetupListen \/ AcceptFails \/ \E c \in Flow : Accept(c)

Next ==
  \/ StartFlow \/ PrintStats \/ BrokenPipe
  \/ \E t \in Sender : WriteMore(t) \/ EndWrite(t)
  \/ Acceptor
  \/ \E r \in Reader : Recv(r)

Spec == Init /\ [][Next]_vars

\* The receiver's threads run, and the sender's main does.
Fairness ==
  /\ WF_vars(StartFlow) /\ WF_vars(PrintStats)
  /\ WF_vars(Acceptor)
  /\ \A r \in Reader : WF_vars(Recv(r))

FairSpec == Spec /\ Fairness

-----------------------------------------------------------------------------

TypeOK ==
  /\ socket \in [Flow -> 0 .. Room] /\ gone \in SUBSET Flow
  /\ sofar \in [Reader -> 0 .. BUFFER_SIZE]
  /\ byte_array \in [FlowId -> Nat] /\ max_id \in FlowId
  /\ wrote \in [Sender -> 0 .. BUF_SIZE]
  /\ sendBytes \in [FlowId -> Nat] /\ sendMax \in FlowId
  /\ sender \in {"start", "print", "exited"}
  /\ started \in 0 .. nflows /\ sec \in 0 .. (dieTime + 1)
  /\ tot \in [Sender -> 0 .. MaxBytes]
  /\ receiver \in {"setup", "accept", "exited"} /\ maxFds \in FdLimits
  /\ listening \in BOOLEAN /\ backlog \in Seq(Flow) /\ Len(backlog) <= Backlog
  /\ flowId \in [Flow -> 0 .. nflows]
  /\ over \in SUBSET Reader

Of(f, S) == {t \in S : FlowOf(t) = f}
Written(f) == SumFunctionOnSet(tot, Of(f, Sender)) + SumFunctionOnSet(wrote, Of(f, Sender))
InHand(f)  == SumFunctionOnSet(sofar, Of(f, Reader))

\* The receiver counts what the sender writes on flow f under id f + 1, and
\* loses at most a part of a buffer for each thread that has met the end of
\* the stream, however the two programs and their threads interleave and
\* wherever the sender's exit cuts its writes.
LossBounded ==
  \A f \in Flow :
    LET lost == Written(f) - socket[f] - InHand(f) - byte_array[f + 1]
    IN  lost \in 0 .. (BUFFER_SIZE - 1) * Cardinality(Of(f, over))

\* Once the sender has exited, the receiver takes every connection that was
\* made, reads all it holds, and its threads are over; unless it ran out of
\* descriptors.
DrainedAfterExit ==
  sender = "exited" ~>
    \/ receiver = "exited"
    \/ \A f \in 0 .. (started - 1) : socket[f] = 0 /\ Of(f, Reader) \subseteq over

=============================================================================
