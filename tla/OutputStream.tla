---------------------------- MODULE OutputStream ----------------------------
(***************************************************************************)
(* OutputStream::write (OutputStream.cc) and the correct_write it calls    *)
(* (common.c): write a buffer of BUF_SIZE bytes to a socket by as many     *)
(* system calls as it takes, then count it.  Each system call is a step,   *)
(* which waits while the connection holds Room bytes nobody has read, and  *)
(* so is the count, which takes the lock of the Stats.                     *)
(***************************************************************************)
EXTENDS Socket, Stats

CONSTANTS
  Sender,         \* threads that call write
  BUF_SIZE,       \* bytes a call of write is given (2048 in blast)
  Room            \* bytes a connection holds

VARIABLE
  wrote           \* wrote[t]: bytes correct_write has written of t's buffer

OutputInit == wrote = [t \in Sender |-> 0]

Left(t) == BUF_SIZE - wrote[t]

Fits(c, n) == socket[c] + n <= Room

\* write() accepts some of the bytes that are left, or all of them.
WritePiece(t, c) ==
  \E n \in 1 .. Left(t) :
    /\ Fits(c, n)
    /\ Put(c, n)
    /\ wrote' = [wrote EXCEPT ![t] = @ + n]
    /\ UNCHANGED <<byte_array, max_id>>

\* Nothing is left: correct_write returns and the buffer is counted.
WriteFull(t, flowId) ==
  /\ Left(t) = 0
  /\ wrote' = [wrote EXCEPT ![t] = 0]
  /\ Update(flowId, BUF_SIZE)
  /\ UNCHANGED <<socket, gone>>

=============================================================================
