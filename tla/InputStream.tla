----------------------------- MODULE InputStream -----------------------------
(***************************************************************************)
(* InputStream::read (InputStream.cc) and the correct_read it calls        *)
(* (common.c): fill a buffer of BUFFER_SIZE bytes from a socket by as many *)
(* system calls as it takes, then count the full buffer.  Each system call *)
(* is a step, and so is the count, which takes the lock of the Stats; at   *)
(* the end of the stream what is in the buffer by then is neither returned *)
(* nor counted.                                                            *)
(***************************************************************************)
EXTENDS Socket, Stats

CONSTANTS
  Reader,         \* threads that call read
  BUFFER_SIZE     \* bytes a call of read asks for (4096)

\* Larger than 1: recv and worker take a read of one byte for the end.
ASSUME BufferAssumption == BUFFER_SIZE \in Nat \ {0, 1}

VARIABLE
  sofar       \* sofar[r]: bytes correct_read has put in the buffer of r

inputVars == <<socket, gone, sofar>>

InputInit ==
  /\ SocketInit
  /\ sofar = [r \in Reader |-> 0]

Missing(r) == BUFFER_SIZE - sofar[r]

\* Mutant: a read asks for one byte more than is missing.
ReadPieceOver(r, c) ==
  \E n \in 1 .. (Missing(r) + 1) :
    /\ Take(c, n)
    /\ sofar' = [sofar EXCEPT ![r] = @ + n]
    /\ UNCHANGED statsVars

\* read() returns some of the bytes that are missing, or all of them.
ReadPiece(r, c) ==
  \E n \in 1 .. Missing(r) :
    /\ Take(c, n)
    /\ sofar' = [sofar EXCEPT ![r] = @ + n]
    /\ UNCHANGED statsVars

\* Mutant: a full buffer is returned without being counted.
ReadFullUncounted(r, flowId) ==
  /\ Missing(r) = 0
  /\ sofar' = [sofar EXCEPT ![r] = 0]
  /\ UNCHANGED <<socket, gone, statsVars>>

\* Nothing is missing: correct_read returns and the buffer is counted.
ReadFull(r, flowId) ==
  /\ Missing(r) = 0
  /\ sofar' = [sofar EXCEPT ![r] = 0]
  /\ Update(flowId, BUFFER_SIZE)
  /\ UNCHANGED <<socket, gone>>

\* read() returns 0 or -1, and so do correct_read and InputStream::read.
ReadEnds(r, c) ==
  /\ Missing(r) > 0
  /\ c \in gone
  /\ socket[c] = 0
  /\ sofar' = [sofar EXCEPT ![r] = 0]
  /\ UNCHANGED <<socket, gone, statsVars>>

=============================================================================
