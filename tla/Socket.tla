------------------------------- MODULE Socket -------------------------------
(***************************************************************************)
(* The sockets of the kernel as the streams use them: a count of the bytes *)
(* written at one end and not yet read at the other.                       *)
(***************************************************************************)
EXTENDS Integers

CONSTANT Conn     \* connections, each with one socket at either end

VARIABLES
  socket,     \* socket[c]: bytes that have arrived on c and wait to be read
  gone        \* connections whose writing end has been closed or reset

SocketInit ==
  /\ socket = [c \in Conn |-> 0]
  /\ gone = {}

\* read() takes n bytes, write() puts n bytes.
Take(c, n) ==
  /\ n <= socket[c]
  /\ socket' = [socket EXCEPT ![c] = @ - n]
  /\ UNCHANGED gone

Put(c, n) ==
  /\ socket' = [socket EXCEPT ![c] = @ + n]
  /\ UNCHANGED gone

=============================================================================
