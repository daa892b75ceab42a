----------------------------- MODULE InputField -----------------------------
(***************************************************************************)
(* An input field (src/user_handler.c): a text, the position of the cursor *)
(* in it, and the keys and clicks that change them.  The text is shown in  *)
(* lines of charPerLine + 1 characters (a line is broken when offset_x      *)
(* exceeds charPerLine).  The array of the text has room for               *)
(* MAX_LONG_STRLEN characters and nothing checks it; the model stops there. *)
(***************************************************************************)
EXTENDS Integers, Sequences, SequencesExt, FiniteSets, FiniteSetsExt

CONSTANTS
    Letters,
    charPerLine,
    MAX_LONG_STRLEN   \* bound: the length of the text

VARIABLES text, current_pos

vars == <<text, current_pos>>

Chars == Letters \cup {"nl"}

----------------------------------------------------------------------------
(* Where the characters are shown: the loop that the three functions share. *)

step(xy, c) ==
    IF c = "nl" \/ xy[1] + 1 > charPerLine THEN <<0, xy[2] + 1>>
    ELSE <<xy[1] + 1, xy[2]>>

\* Column and line of the character at an offset.
offsetXY(str, offset) == FoldLeft(step, <<0, 0>>, SubSeq(str, 1, offset))

getMouseXFromOffset(str, offset) == offsetXY(str, offset)[1]
getMouseYFromOffset(str, offset) == offsetXY(str, offset)[2]

\* A slip: the offset behind the line.
offsetBehindLine(str, x, y) ==
    LET inLine == {o \in 0 .. Len(str) : getMouseYFromOffset(str, o) = y}
    IN IF inLine = {} THEN Len(str) + 1 ELSE Max(inLine)

\* The offset of the character at (x, y); of the last one of line y if there is
\* none, unless that is the first of the text; or the end.
getInputOffsetFromMousePosition(str, x, y) ==
    LET offsets == 0 .. Len(str) - 1
        exact == {o \in offsets : offsetXY(str, o) = <<x, y>>}
        inLine == {o \in offsets : getMouseYFromOffset(str, o) = y}
    IN IF y < 0 THEN 0
       ELSE IF exact # {} THEN Min(exact)
       ELSE IF inLine # {} /\ Max(inLine) > 0 THEN Max(inLine)
       ELSE Len(str)

----------------------------------------------------------------------------
(* inputFieldKeyHandler() and inputMouseLeftClickHandler()                  *)

inserted(c) ==
    SubSeq(text, 1, current_pos) \o <<c>> \o SubSeq(text, current_pos + 1, Len(text))

\* A slip: the character behind the cursor goes.
deletedBehind == SubSeq(text, 1, current_pos) \o SubSeq(text, current_pos + 2, Len(text))

deleted == SubSeq(text, 1, current_pos - 1) \o SubSeq(text, current_pos + 1, Len(text))

InsertKey(c) ==
    /\ Len(text) < MAX_LONG_STRLEN
    /\ text' = inserted(c)
    /\ current_pos' = current_pos + 1

DeleteKey ==
    /\ current_pos > 0
    /\ text' = deleted
    /\ current_pos' = current_pos - 1

ArrowKey(key) ==
    LET x == getMouseXFromOffset(text, current_pos)
        y == getMouseYFromOffset(text, current_pos)
    IN /\ CASE key = "KEY_LF" -> current_pos > 0 /\ current_pos' = current_pos - 1
            [] key = "KEY_RT" -> current_pos < Len(text)
                                 /\ current_pos' = current_pos + 1
            [] key = "KEY_UP" ->
                  current_pos' = getInputOffsetFromMousePosition(text, x, y - 1)
            [] key = "KEY_DN" ->
                  current_pos' = getInputOffsetFromMousePosition(text, x, y + 1)
       /\ UNCHANGED text

Click(x, y) ==
    /\ current_pos' = getInputOffsetFromMousePosition(text, x, y)
    /\ UNCHANGED text

----------------------------------------------------------------------------

\* addInputFieldWidget(): the cursor is at the end of the first text.
Init == text \in BoundedSeq(Chars, 2) /\ current_pos = Len(text)

Next == \/ \E c \in Chars : InsertKey(c)
        \/ DeleteKey
        \/ \E key \in {"KEY_LF", "KEY_RT", "KEY_UP", "KEY_DN"} : ArrowKey(key)
        \/ \E x \in 0 .. charPerLine + 1, y \in 0 .. MAX_LONG_STRLEN : Click(x, y)

Spec == Init /\ [][Next]_vars

----------------------------------------------------------------------------
(* Properties.                                                             *)

\* user_handler.c:136-197: the cursor never leaves the text, wherever the user
\* clicks and moves, or a key would write outside of it.
CursorInText == text \in Seq(Chars) /\ current_pos \in 0 .. Len(text)

\* user_handler.c:10-104: a click on a character puts the cursor before it: the
\* function from positions to offsets inverts the ones from offsets to positions.
ClicksInvert ==
    \A o \in 0 .. Len(text) - 1 :
        getInputOffsetFromMousePosition(text, getMouseXFromOffset(text, o),
                                        getMouseYFromOffset(text, o)) = o

\* The keys edit a text with a cursor in it.
Abstract == INSTANCE TextBuffer
    WITH MaxLen <- 2,
         before <- SubSeq(text, 1, current_pos),
         after <- SubSeq(text, current_pos + 1, Len(text))

ImplementsTextBuffer == Abstract!Spec
=============================================================================
