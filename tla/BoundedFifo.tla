----------------------------- MODULE BoundedFifo -----------------------------
(***************************************************************************)
(* What a window's message buffer promises: a FIFO of at most Capacity      *)
(* messages.  A message put into a full buffer is lost; a get returns the   *)
(* oldest message; a new owner of the buffer starts with an empty one.      *)
(***************************************************************************)
EXTENDS Naturals, Sequences

CONSTANTS Capacity,   \* how many messages the buffer holds
          Messages    \* the messages there are

VARIABLES q,          \* the messages waiting, oldest first
          out         \* the message the last get returned

fifoVars == <<q, out>>

FifoInit == /\ q = <<>>
            /\ out \notin Messages

Put(m) == /\ q' = IF Len(q) < Capacity THEN Append(q, m) ELSE q
          /\ UNCHANGED out

Get == /\ q # <<>>
       /\ out' = Head(q)
       /\ q' = Tail(q)

Clear == /\ q' = <<>>
         /\ UNCHANGED out

FifoNext == \/ \E m \in Messages : Put(m)
            \/ Get
            \/ Clear

FifoSpec == FifoInit /\ [][FifoNext]_fifoVars
=============================================================================
