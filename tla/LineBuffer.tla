----------------------------- MODULE LineBuffer -----------------------------
(***************************************************************************)
(* What the console promises the processes that read it: a buffer of Size  *)
(* characters with the lines that are complete and the line being edited.  *)
(* A character that does not fit is ignored.  A read takes characters      *)
(* until it has enough, or up to the end of a line; an end of file ends it *)
(* without being part of what is read, and ends the next read instead if   *)
(* this one has something already.                                         *)
(***************************************************************************)
EXTENDS Naturals, Sequences

CONSTANTS Readers, Chars, Size

VARIABLES
    ready,   \* what can be read
    edit,    \* what is being edited
    got      \* what each reader has of its read in progress

vars == <<ready, edit, got>>

Init == ready = <<>> /\ edit = <<>> /\ got = [p \in Readers |-> <<>>]

Type(c) ==
    /\ Len(ready) + Len(edit) < Size
    /\ IF c \in {"nl", "eof"} \/ Len(ready) + Len(edit) + 1 = Size
       THEN ready' = ready \o Append(edit, c) /\ edit' = <<>>
       ELSE ready' = ready /\ edit' = Append(edit, c)
    /\ UNCHANGED got

Erase ==
    /\ edit # <<>>
    /\ edit' = SubSeq(edit, 1, Len(edit) - 1)
    /\ UNCHANGED <<ready, got>>

KillLine == edit' = <<>> /\ UNCHANGED <<ready, got>>

Take(p) ==
    /\ ready # <<>> /\ Head(ready) # "eof"
    /\ got' = [got EXCEPT ![p] = Append(@, Head(ready))]
    /\ ready' = Tail(ready)
    /\ UNCHANGED edit

TakeEof(p) ==
    /\ ready # <<>> /\ Head(ready) = "eof" /\ got[p] = <<>>
    /\ ready' = Tail(ready)
    /\ UNCHANGED <<edit, got>>

\* The read of p is over, because it has what it wants or is given up.
Return(p) == got' = [got EXCEPT ![p] = <<>>] /\ UNCHANGED <<ready, edit>>

Next == \/ \E c \in Chars : Type(c)
        \/ Erase \/ KillLine
        \/ \E p \in Readers : Take(p) \/ TakeEof(p) \/ Return(p)

Spec == Init /\ [][Next]_vars
=============================================================================
