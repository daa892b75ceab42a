----------------------------- MODULE ByteStream -----------------------------
(***************************************************************************)
(* What a pipe promises: the bytes written come out once, in order.  A read *)
(* returns at least one byte, or none after the last writer has closed and  *)
(* everything written has been read.                                        *)
(***************************************************************************)
EXTENDS Naturals, Sequences

CONSTANTS Bytes, Capacity

VARIABLES q,       \* bytes written and not yet read
          closed,  \* is the write end closed?
          out      \* what the last read returned

streamVars == <<q, closed, out>>

StreamInit == q = <<>> /\ closed = FALSE /\ out = <<>>

Chunks == UNION {[1 .. k -> Bytes] : k \in 1 .. Capacity}

Write(s) == /\ ~closed
            /\ Len(q) + Len(s) <= Capacity
            /\ q' = q \o s
            /\ UNCHANGED <<closed, out>>

Read(k) == /\ k \in 1 .. Len(q)
           /\ out' = SubSeq(q, 1, k)
           /\ q' = SubSeq(q, k + 1, Len(q))
           /\ UNCHANGED closed

EndOfFile == /\ closed /\ q = <<>>
             /\ out' = <<>>
             /\ UNCHANGED <<q, closed>>

CloseWrite == closed' = TRUE /\ UNCHANGED <<q, out>>

StreamNext == \/ \E s \in Chunks : Write(s)
              \/ \E k \in 1 .. Capacity : Read(k)
              \/ EndOfFile
              \/ CloseWrite

StreamSpec == StreamInit /\ [][StreamNext]_streamVars
=============================================================================
