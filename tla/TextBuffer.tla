----------------------------- MODULE TextBuffer -----------------------------
(***************************************************************************)
(* What an input field promises who types: a text with a cursor in it.     *)
(* A character is put in before the cursor, the delete key takes the one   *)
(* before the cursor away, and moving the cursor changes nothing else.     *)
(***************************************************************************)
EXTENDS Sequences, SequencesExt

CONSTANTS Chars, MaxLen

VARIABLES before, after   \* the text on both sides of the cursor

vars == <<before, after>>

Init == before \in BoundedSeq(Chars, MaxLen) /\ after = <<>>

Insert(c) == before' = Append(before, c) /\ after' = after

Delete == before # <<>> /\ before' = Front(before) /\ after' = after

Left == before # <<>> /\ before' = Front(before) /\ after' = <<Last(before)>> \o after
Right == after # <<>> /\ before' = Append(before, Head(after)) /\ after' = Tail(after)
Jump == before' \o after' = before \o after

Next == (\E c \in Chars : Insert(c)) \/ Delete \/ Left \/ Right \/ Jump

Spec == Init /\ [][Next]_vars
=============================================================================
