-------------------------------- MODULE Grep --------------------------------
(***************************************************************************)
(* grep (src/grep.c): the matcher of patterns, and the loop that cuts what  *)
(* read() returns, however much that is, into lines.  Characters are        *)
(* strings of length one, a text is a sequence of them.                     *)
(***************************************************************************)
EXTENDS Integers, Sequences, SequencesExt, FiniteSetsExt

CONSTANTS
    Chars,        \* of patterns
    Letters,      \* of texts
    MaxPattern, MaxText,   \* bounds
    BUFSIZE,      \* sizeof(buf)
    Inputs        \* what there is to read

VARIABLES
    re,       \* the pattern
    unread,   \* what the loop has still to read
    held,     \* the first m characters of buf
    out,      \* the lines written
    taken,    \* what was read so far
    lost      \* characters were dropped

grepVars == <<re, unread, held, out, taken, lost>>

newline == "/"

from(s, k) == SubSeq(s, k, Len(s))

----------------------------------------------------------------------------
(* The matcher. *)

RECURSIVE matchhere(_, _), matchstar(_, _, _)

\* A slip: at least one.
matchplus(c, r, text) ==
    text # <<>> /\ c \in {".", text[1]} /\ (matchhere(r, Tail(text)) \/ matchstar(c, r, Tail(text)))

matchstar(c, r, text) ==
    \/ matchhere(r, text)
    \/ text # <<>> /\ c \in {".", text[1]} /\ matchstar(c, r, Tail(text))

matchhere(r, text) ==
    \/ r = <<>>
    \/ /\ r # <<>>
       /\ IF Len(r) > 1 /\ r[2] = "*" THEN matchstar(r[1], from(r, 3), text)
          ELSE IF r = <<"$">> THEN text = <<>>
          ELSE text # <<>> /\ r[1] \in {".", text[1]} /\ matchhere(Tail(r), Tail(text))

match(r, text) ==
    IF r # <<>> /\ r[1] = "^" THEN matchhere(Tail(r), text)
    ELSE \E k \in 1 .. Len(text) + 1 : matchhere(r, from(text, k))

----------------------------------------------------------------------------
(* The loop of grep(). *)

\* The lines of s that end, without their ends, and what follows the last end.
ends(s) == SetToSortSeq({k \in DOMAIN s : s[k] = newline}, <)
lines(s) ==
    [j \in DOMAIN ends(s) |->
        SubSeq(s, (IF j = 1 THEN 0 ELSE ends(s)[j - 1]) + 1, ends(s)[j] - 1)]
remainder(s) == IF ends(s) = <<>> THEN s ELSE from(s, Last(ends(s)) + 1)

matching(s) == SelectSeq(lines(s), LAMBDA l : match(re, l))

\* Slip: the beginning of the next line goes with the lines before.
keptNothing(s) == <<>>

\* What stays in buf: nothing, if no line has ended.
kept(s) == IF ends(s) = <<>> THEN <<>> ELSE remainder(s)

\* One turn of the outer loop, in which read() returns n characters.
grep ==
    /\ \E n \in 1 .. Len(unread) :
          LET s == held \o SubSeq(unread, 1, n)
          IN  /\ n <= BUFSIZE - Len(held) - 1
              /\ out' = out \o matching(s)
              /\ held' = kept(s)
              /\ lost' = (lost \/ ends(s) = <<>>)
              /\ taken' = taken \o SubSeq(unread, 1, n)
              /\ unread' = from(unread, n + 1)
    /\ UNCHANGED re

----------------------------------------------------------------------------

InitGrep ==
    /\ re = <<"b">>
    /\ unread \in Inputs
    /\ held = <<>> /\ out = <<>> /\ taken = <<>> /\ lost = FALSE

\* All patterns, one character after the other.
InitPattern ==
    /\ re = <<>>
    /\ unread = <<>> /\ held = <<>> /\ out = <<>> /\ taken = <<>> /\ lost = FALSE

TypePattern ==
    /\ Len(re) < MaxPattern
    /\ \E c \in Chars : re' = Append(re, c)
    /\ UNCHANGED <<unread, held, out, taken, lost>>

----------------------------------------------------------------------------
(* Properties. *)

Texts == UNION {[1 .. n -> Letters] : n \in 0 .. MaxText}

RECURSIVE items(_)

\* The pattern as a sequence of characters that stand for one or for any number.
items(r) ==
    IF r = <<>> THEN <<>>
    ELSE IF Len(r) > 1 /\ r[2] = "*" THEN <<<<r[1], "any">>>> \o items(from(r, 3))
    ELSE IF r = <<"$">> THEN <<<<"", "end">>>>
    ELSE <<<<r[1], "one">>>> \o items(Tail(r))

\* The positions in the text behind which the item may end if it begins behind one of S.
reached(text, S, item) ==
    LET fits(k) == item[1] \in {".", text[k]}
    IN  CASE item[2] = "end" -> S \cap {Len(text)}
          [] item[2] = "one" -> {k \in 1 .. Len(text) : k - 1 \in S /\ fits(k)}
          [] item[2] = "any" -> {k \in 0 .. Len(text) :
                                    \E j \in S : j <= k /\ \A l \in j + 1 .. k : fits(l)}

accepts(r, text) ==
    LET anchored == r # <<>> /\ r[1] = "^"
    IN  FoldLeft(LAMBDA S, item : reached(text, S, item),
                 IF anchored THEN {0} ELSE 0 .. Len(text),
                 items(IF anchored THEN Tail(r) ELSE r)) # {}

\* grep.c:66-106: the matcher, which tries one way after the other, finds a match
\* if and only if there is one, for all patterns; a star at the beginning, a
\* dollar or a caret elsewhere stand for themselves.
MatchesAnywhere == \A text \in Texts : match(re, text) <=> accepts(re, text)

\* grep.c:11-38: however read() cuts the input, the lines written are the
\* matching lines, in order; unless a read ends with no complete line in the
\* buffer, when the characters in it are dropped.
LinesFound == ~lost => out = matching(taken) /\ held = remainder(taken)
=============================================================================
