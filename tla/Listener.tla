------------------------------ MODULE Listener ------------------------------
(***************************************************************************)
(* A listening socket as the wrappers of SocketLibrary use it: slisten,    *)
(* sconnect and saccept.  Names, addresses and ports are left out: there   *)
(* is one port, and everybody knows it.                                    *)
(***************************************************************************)
EXTENDS Integers, Sequences

CONSTANT Backlog        \* connections that may wait for saccept (listen(s, 3))

ASSUME BacklogAssumption == Backlog \in Nat \ {0}

VARIABLES
  listening,      \* whether slisten has been called
  backlog         \* connections made and not yet accepted, oldest first

listenerVars == <<listening, backlog>>

ListenerInit ==
  /\ listening = FALSE
  /\ backlog = <<>>

slisten ==
  /\ listening' = TRUE
  /\ UNCHANGED backlog

\* sconnect fails when nobody listens ...
Refused == ~listening

\* ... and waits while there is no room.
sconnect(c) ==
  /\ listening
  /\ Len(backlog) < Backlog
  /\ backlog' = Append(backlog, c)
  /\ UNCHANGED listening

\* saccept returns the oldest connection.
saccept(c) ==
  /\ backlog # <<>> /\ c = Head(backlog)
  /\ backlog' = Tail(backlog)
  /\ UNCHANGED listening

=============================================================================
