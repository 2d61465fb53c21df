------------------------------ MODULE Messages ------------------------------
(***************************************************************************)
(* SocketLibrary/smessages.c: messages on top of streams.  A sender writes *)
(* a text and its terminating NUL; the receiver reads whatever has come on *)
(* a socket, cuts it at the NULs and keeps the pieces of all its sockets   *)
(* in one list, in which the last piece of a socket may be incomplete.     *)
(*                                                                         *)
(* One thread uses the library at the receiving end: the list has no lock. *)
(* The byte of a text is the number of its message; NUL is 0.              *)
(***************************************************************************)
EXTENDS Integers, SequencesExt

CONSTANTS
  Socket,         \* the sockets that are read
  MAXBUFF,        \* size of the buffer of a read, one byte of it for a NUL
  MaxMessages,    \* bound: messages sent, over all sockets
  MaxLen          \* bound: bytes of a text

ASSUME MessagesAssumption ==
  /\ MAXBUFF \in Nat \ {0, 1}
  /\ MaxMessages \in Nat
  /\ MaxLen \in Nat

VARIABLES
  the_list,       \* the list of [s, message, complete]
  call,           \* the call the receiver is in: [op, s]; Idle or Exited
  buffer,         \* what the last read returned and the loop has yet to cut
  stream,         \* stream[s]: bytes written to s and not yet read
  closed,         \* sockets whose writer has closed its end
  eof,            \* sockets on which read() has returned 0
  messages,       \* messages sent so far
  sent,           \* history: bytes of text written to each socket
  ends,           \* history: after how many of them a NUL was written
  taken           \* history: bytes of text that have left the list

listVars == <<the_list, call, buffer, eof, taken>>
peerVars == <<stream, closed, messages, sent, ends>>
vars == <<listVars, peerVars>>

Nul == 0
Idle == [op |-> "idle"]
Exited == [op |-> "exited"]

Init ==
  /\ the_list = <<>>
  /\ call = Idle
  /\ buffer = <<>>
  /\ stream = [s \in Socket |-> <<>>]
  /\ closed = {}
  /\ eof = {}
  /\ messages = 0
  /\ sent = [s \in Socket |-> <<>>]
  /\ ends = [s \in Socket |-> {}]
  /\ taken = [s \in Socket |-> <<>>]

-----------------------------------------------------------------------------
(* The list.                                                               *)

\* Mutant: the search does not look at the socket.
IsOpenAnywhere(s, m) == ~m.complete

IsOpen(s, m) == m.s = s /\ ~m.complete

\* Mutant: always a new element.
handleApart(list, s, text, whole) ==
  Append(list, [s |-> s, message |-> text, complete |-> whole])

\* handle, with add_incomplete: a piece goes to the end of the socket's
\* incomplete message or becomes a new element at the end of the list.
handle(list, s, text, whole) ==
  LET i == SelectInSeq(list, LAMBDA m : IsOpen(s, m)) IN
  IF i = 0
  THEN Append(list, [s |-> s, message |-> text, complete |-> whole])
  ELSE [list EXCEPT ![i] = [s |-> s, message |-> @.message \o text, complete |-> whole]]

\* clean_list: the elements of s at the head go, and those behind it except
\* that the element after a removed one is not looked at.
clean_list(list, s) ==
  LET Goes[n \in 1 .. Len(list)] ==
        list[n].s = s /\ ((\A i \in 1 .. n : list[i].s = s) \/ ~Goes[n - 1])
  IN  FlattenSeq([n \in 1 .. Len(list) |-> IF Goes[n] THEN <<>> ELSE <<list[n]>>])

\* num_messages: the messages of s before its incomplete one.
NumMessages(s) ==
  Cardinality({i \in 1 .. Len(the_list) :
                 the_list[i].s = s /\ \A j \in 1 .. i : ~IsOpen(s, the_list[j])})

\* The text of the elements of s, and the text among the bytes of a stream.
Part(m, s) == IF m.s = s THEN m.message ELSE <<>>
Text(list, s) == FlattenSeq([i \in 1 .. Len(list) |-> Part(list[i], s)])
Letter(b) == IF b = Nul THEN <<>> ELSE <<b>>
WithoutNul(bytes) == FlattenSeq([i \in 1 .. Len(bytes) |-> Letter(bytes[i])])

-----------------------------------------------------------------------------
(* The receiver.                                                           *)

test_ready(s) == stream[s] # <<>> \/ s \in closed

In(op) == call.op = op
Reading == call.op \in {"incoming", "get", "empty"}
BufferDone == Reading /\ buffer = <<>>

\* The program calls the library; after the end of a stream it does so no more.
Call(op, s) ==
  /\ call = Idle
  /\ s \notin eof
  /\ call' = [op |-> op, s |-> s]
  /\ UNCHANGED <<the_list, buffer, eof, taken, peerVars>>

\* wait_for_message, without a timeout: it looks at the socket, not at the list.
WaitReturns ==
  /\ In("wait") /\ test_ready(call.s)
  /\ call' = Idle
  /\ UNCHANGED <<the_list, buffer, eof, taken, peerVars>>

\* The outer loop of incoming_messages.  The bytes on their way may not all
\* have come.
ReadChunk ==
  /\ BufferDone /\ test_ready(call.s)
  /\ \E n \in 1 .. (MAXBUFF - 1) :
       /\ n <= Len(stream[call.s])
       /\ buffer' = SubSeq(stream[call.s], 1, n)
       /\ stream' = [stream EXCEPT ![call.s] = SubSeq(@, n + 1, Len(@))]
  /\ UNCHANGED <<the_list, call, eof, taken, closed, messages, sent, ends>>

\* Mutant: a NUL where a piece would start makes an empty piece.
IsPieceAlways(last) == TRUE

\* The bytes 1 .. last before a NUL are a piece, unless there are none.
IsPiece(last) == last > 0

\* Mutant: end_of_transmission is one byte too far.
IsWholeAlways(end) == TRUE

\* A piece is whole when its NUL, here at end, lies in the same read.
IsWhole(end) == end > 0

\* The inner loop, up to the next NUL or to the end of the buffer.
TakePiece ==
  LET end  == SelectInSeq(buffer, LAMBDA b : b = Nul)
      last == IF end = 0 THEN Len(buffer) ELSE end - 1
  IN
  /\ Reading /\ buffer # <<>>
  /\ the_list' = IF IsPiece(last)
                 THEN handle(the_list, call.s, SubSeq(buffer, 1, last), IsWhole(end))
                 ELSE the_list
  /\ buffer' = SubSeq(buffer, last + 2, Len(buffer))
  /\ UNCHANGED <<call, eof, taken, peerVars>>

\* read() returns 0: so does the call, with -1.
ReadEnd ==
  /\ BufferDone /\ test_ready(call.s) /\ stream[call.s] = <<>>
  /\ the_list' = clean_list(the_list, call.s)
  /\ eof' = eof \cup {call.s}
  /\ call' = Idle
  /\ UNCHANGED <<buffer, taken, peerVars>>

\* read() fails: exit(-1).
ReadFails ==
  /\ BufferDone
  /\ call' = Exited
  /\ UNCHANGED <<the_list, buffer, eof, taken, peerVars>>

\* Nothing more has come, and nothing is to be taken from the list.
NothingToTake ==
  /\ BufferDone
  /\ In("incoming") \/ NumMessages(call.s) = 0
  /\ call' = Idle
  /\ UNCHANGED <<the_list, buffer, eof, taken, peerVars>>

FirstWhole(s) == SelectInSeq(the_list, LAMBDA m : m.s = s /\ m.complete)

\* get_next_message.
GetMessage ==
  LET s == call.s
      i == FirstWhole(s) IN
  /\ BufferDone /\ In("get") /\ NumMessages(s) > 0
  /\ the_list' = RemoveAt(the_list, i)
  /\ taken' = [taken EXCEPT ![s] = @ \o the_list[i].message]
  /\ call' = Idle
  /\ UNCHANGED <<buffer, eof, peerVars>>

\* empty_incoming_messages: the elements of s at the head of the list go.  When
\* others remain, the second loop starts from a pointer to a freed element, or
\* from one without a value: the program dies, goes round an empty loop, or
\* finds the list and removes one more element.
EmptyMessages ==
  LET s    == call.s
      head == SelectInSeq(the_list, LAMBDA m : m.s # s)
      rest == IF head = 0 THEN <<>> ELSE SubSeq(the_list, head, Len(the_list))
      next == SelectInSeq(rest, LAMBDA m : m.s = s)
      Leaves(list) ==
        /\ the_list' = list
        /\ taken' = [taken EXCEPT ![s] =
                       @ \o SubSeq(Text(the_list, s), 1, Len(Text(the_list, s)) - Len(Text(list, s)))]
        /\ call' = Idle
  IN
  /\ BufferDone /\ In("empty") /\ NumMessages(s) > 0
  /\ \/ Leaves(rest)
     \/ next # 0 /\ Leaves(RemoveAt(rest, next))
     \/ rest # <<>> /\ call' = Exited /\ UNCHANGED <<the_list, taken>>
  /\ UNCHANGED <<buffer, eof, peerVars>>

Receiver ==
  \/ ReadChunk \/ TakePiece \/ ReadEnd \/ ReadFails
  \/ WaitReturns \/ NothingToTake \/ GetMessage \/ EmptyMessages

-----------------------------------------------------------------------------
(* The writers at the other ends.                                          *)

\* send_a_message, on a socket that takes a byte at least.  When it takes less
\* than the text and its NUL the rest is given up with a warning.
SendMessage(s, len) ==
  LET text  == [i \in 1 .. len |-> messages + 1]
      bytes == Append(text, Nul)
  IN
  /\ s \notin closed
  /\ messages < MaxMessages
  /\ messages' = messages + 1
  /\ \E result \in 1 .. (len + 1) :
       /\ stream' = [stream EXCEPT ![s] = @ \o SubSeq(bytes, 1, result)]
       /\ sent' = [sent EXCEPT ![s] = @ \o WithoutNul(SubSeq(bytes, 1, result))]
       /\ ends' = IF result <= len THEN ends
                  ELSE [ends EXCEPT ![s] = @ \cup {Len(sent[s]) + len}]
  /\ UNCHANGED <<listVars, closed>>

Close(s) ==
  /\ s \notin closed
  /\ closed' = closed \cup {s}
  /\ UNCHANGED <<listVars, stream, messages, sent, ends>>

Ops == {"incoming", "get", "empty", "wait"}

Next ==
  \/ Receiver
  \/ \E s \in Socket :
       \/ \E op \in Ops : Call(op, s)
       \/ \E len \in 0 .. MaxLen : SendMessage(s, len)
       \/ Close(s)

Spec == Init /\ [][Next]_vars

-----------------------------------------------------------------------------

\* The list never holds an empty text, whatever lies between the NULs.
Element == [s : Socket, message : Seq(1 .. MaxMessages) \ {<<>>}, complete : BOOLEAN]

TypeOK ==
  /\ the_list \in Seq(Element)
  /\ call \in {Idle, Exited} \cup [op : Ops, s : Socket]
  /\ buffer \in Seq(0 .. MaxMessages)
  /\ buffer # <<>> => Reading
  /\ stream \in [Socket -> Seq(0 .. MaxMessages)]
  /\ closed \in SUBSET Socket
  /\ eof \in SUBSET closed
  /\ messages \in 0 .. MaxMessages
  /\ sent \in [Socket -> Seq(1 .. MaxMessages)]
  /\ ends \in [Socket -> SUBSET (0 .. MaxMessages * MaxLen)]
  /\ taken \in [Socket -> Seq(1 .. MaxMessages)]

\* The bytes of s that are not in the list yet.
Unread(s) == (IF Reading /\ call.s = s THEN buffer ELSE <<>>) \o stream[s]

\* What has been sent on a socket and not yet been taken lies in the list and
\* in the stream, in order, each byte once and under its own socket, however
\* the streams were cut into reads and those of the sockets interleaved.
InOrder ==
  \A s \in Socket \ eof :
    sent[s] = taken[s] \o Text(the_list, s) \o WithoutNul(Unread(s))

\* smessages.c lines 92-95: a socket has one incomplete message at most, and
\* it is the last of the socket.
OneOpenAndLast ==
  \A i, j \in 1 .. Len(the_list) :
    i < j /\ the_list[i].s = the_list[j].s => the_list[i].complete

\* A message that is marked complete ends where its sender ended a message: the
\* receiver is never given the beginning of a text as if it were all of it.
CompleteEndsMessage ==
  \A i \in 1 .. Len(the_list) :
    LET m == the_list[i] IN
    m.complete /\ m.s \notin eof =>
      Len(taken[m.s]) + Len(Text(SubSeq(the_list, 1, i), m.s)) \in ends[m.s]

\* smessages.c line 26, "1 if whole message captured": a message whose NUL has
\* been read is not left incomplete.
WholeIsComplete ==
  \A i \in 1 .. Len(the_list) :
    LET s == the_list[i].s IN
    IsOpen(s, the_list[i]) /\ s \notin eof =>
      ~ /\ Len(taken[s]) + Len(Text(the_list, s)) \in ends[s]
        /\ Unread(s) = <<>> \/ Head(Unread(s)) # Nul

=============================================================================
