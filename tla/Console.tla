------------------------------- MODULE Console -------------------------------
(***************************************************************************)
(* The console (src/console.c) with the serial port that feeds it          *)
(* (src/uart.c; the keyboard no longer does).  consoleintr() and           *)
(* consoleread() work on the ring "input" under cons.lock; kill() does not *)
(* take that lock, so a process may be killed between its test and its     *)
(* sleep().  r, w and e are unsigned and wrap around at UintRange, which   *)
(* INPUT_BUF divides (2^32 and 128 in the code).                           *)
(***************************************************************************)
EXTENDS Integers, Sequences, SequencesExt

CONSTANTS
    Readers,    \* processes that read the console
    Letters,    \* ordinary characters
    INPUT_BUF,
    UintRange,
    MaxRead,    \* bound: the n of a read
    Lines,      \* what is written to the console: sequences of characters
    COLS, ROWS  \* the size of the screen

\* The indices wrap around where the ring does, and at more than its size.
ASSUME ConsoleAssumption ==
    /\ INPUT_BUF \in Nat \ {0} /\ MaxRead \in Nat
    /\ \E k \in 2 .. UintRange : UintRange = k * INPUT_BUF
    /\ "free" \notin Readers
    /\ Letters \cap {"nl", "cr", "eof", "erase", "kill", "dump", "nul"} = {}

VARIABLES
    buf, r, w, e,   \* input
    conslock,       \* the reader that holds cons.lock, or "free"
    pc,             \* where each reader is: out, in, sleepy, asleep
    n,              \* what it still wants
    dst,            \* what it has
    killed,         \* the readers with p->killed
    pos             \* the cursor

consoleVars == <<buf, r, w, e, conslock, pc, n, dst, killed, pos>>

----------------------------------------------------------------------------
(* The screen.                                                             *)

\* Where the cursor goes; the last row stays empty.
advance(p, c) ==
    CASE c = "nl" -> p + COLS - (p % COLS)
      [] c = "backspace" -> IF p > 0 THEN p - 1 ELSE p
      [] OTHER -> p + 1

scrolled(p) == IF p \div COLS >= ROWS - 1 THEN p - COLS ELSE p

\* A slip: nothing scrolls.
cgaputcNoScroll(p, c) == advance(p, c)

cgaputc(p, c) == scrolled(advance(p, c))

consputc(s) == pos' = FoldLeft(cgaputc, pos, s)

consolewrite(s) ==
    /\ conslock = "free"
    /\ consputc(s)
    /\ UNCHANGED <<buf, r, w, e, conslock, pc, n, dst, killed>>

----------------------------------------------------------------------------
(* Input.                                                                  *)

inc(i) == (i + 1) % UintRange
dec(i) == (i - 1) % UintRange
minus(i, j) == (i - j) % UintRange
at(i) == i % INPUT_BUF

\* wakeup(&input.r); and a slip, without effect.
noWakeup == pc
wakeup == [p \in Readers |-> IF pc[p] = "asleep" THEN "in" ELSE pc[p]]

\* ^U: back to w, or to behind a newline.
editStart ==
    LET back == {k \in 0 .. minus(e, w) :
                    \A i \in 1 .. k : buf[at(minus(e, i))] # "nl"}
    IN CHOOSE k \in back : \A j \in back : j <= k

killLine ==
    /\ e' = minus(e, editStart)
    /\ consputc([i \in 1 .. editStart |-> "backspace"])
    /\ UNCHANGED <<buf, w, pc>>

erase ==
    /\ IF e # w THEN e' = dec(e) /\ consputc(<<"backspace">>)
                ELSE UNCHANGED <<e, pos>>
    /\ UNCHANGED <<buf, w, pc>>

store(c) ==
    IF minus(e, r) < INPUT_BUF
    THEN /\ buf' = [buf EXCEPT ![at(e)] = c]
         /\ e' = inc(e)
         /\ consputc(<<c>>)
         /\ IF c \in {"nl", "eof"} \/ inc(e) = (r + INPUT_BUF) % UintRange
            THEN w' = inc(e) /\ pc' = wakeup
            ELSE UNCHANGED <<w, pc>>
    ELSE UNCHANGED <<buf, e, w, pc, pos>>

\* uartintr(), consoleintr(): a character comes over the serial line.
consoleintr(c) ==
    /\ conslock = "free"
    /\ \/ c \in {"nul", "dump"} /\ UNCHANGED <<buf, e, w, pc, pos>>
       \/ c = "kill" /\ killLine
       \/ c = "erase" /\ erase
       \/ c \notin {"nul", "dump", "kill", "erase"}
          /\ store(IF c = "cr" THEN "nl" ELSE c)
    /\ UNCHANGED <<r, conslock, n, dst, killed>>

\* consoleread() is called for k characters.
consoleread(p, k) ==
    /\ pc[p] = "out"
    /\ pc' = [pc EXCEPT ![p] = "in"]
    /\ n' = [n EXCEPT ![p] = k]
    /\ UNCHANGED <<buf, r, w, e, conslock, dst, killed, pos>>

acquire(p) ==
    /\ pc[p] = "in" /\ conslock = "free"
    /\ conslock' = p
    /\ UNCHANGED <<buf, r, w, e, pc, n, dst, killed, pos>>

done(p) ==
    /\ pc' = [pc EXCEPT ![p] = "out"]
    /\ n' = [n EXCEPT ![p] = 0]
    /\ dst' = [dst EXCEPT ![p] = <<>>]
    /\ conslock' = "free"

\* An end of file is kept for the next read if this one has something; and a
\* slip, it is always taken.
eofTaken(p) == inc(r)
eofAt(p) == IF dst[p] # <<>> THEN r ELSE inc(r)

\* One turn of the loop, with the lock held.
takeChar(p) ==
    /\ pc[p] = "in" /\ conslock = p
    /\ r # w
    /\ LET c == buf[at(r)] IN
         \/ c = "eof" /\ r' = eofAt(p) /\ done(p)
         \/ /\ c # "eof"
            /\ r' = inc(r)
            /\ dst' = [dst EXCEPT ![p] = Append(@, c)]
            /\ n' = [n EXCEPT ![p] = @ - 1]
            /\ pc' = [pc EXCEPT ![p] = IF c = "nl" \/ n[p] = 1 THEN "full" ELSE @]
            /\ UNCHANGED conslock
    /\ UNCHANGED <<buf, w, e, killed, pos>>

\* The loop is left with a line or enough characters.
leave(p) ==
    /\ pc[p] = "full"
    /\ done(p)
    /\ UNCHANGED <<buf, r, w, e, killed, pos>>

\* Nothing to read: the process gives up if it is killed, or goes to sleep,
\* which lets the lock go.
testKilled(p) ==
    /\ pc[p] = "in" /\ conslock = p
    /\ r = w
    /\ \/ p \in killed /\ done(p)
       \/ /\ p \notin killed
          /\ pc' = [pc EXCEPT ![p] = "sleepy"]
          /\ UNCHANGED <<n, dst, conslock>>
    /\ UNCHANGED <<buf, r, w, e, killed, pos>>

sleep(p) ==
    /\ pc[p] = "sleepy"
    /\ pc' = [pc EXCEPT ![p] = "asleep"]
    /\ conslock' = "free"
    /\ UNCHANGED <<buf, r, w, e, n, dst, killed, pos>>

kill(p) ==
    /\ killed' = killed \cup {p}
    /\ pc' = [pc EXCEPT ![p] = IF @ = "asleep" THEN "in" ELSE @]
    /\ UNCHANGED <<buf, r, w, e, conslock, n, dst, pos>>

----------------------------------------------------------------------------

Characters == Letters \cup {"nl", "cr", "eof", "erase", "kill", "dump", "nul"}

ConsoleInit ==
    /\ buf = [i \in 0 .. INPUT_BUF - 1 |-> "nul"]
    /\ r = 0 /\ w = 0 /\ e = 0
    /\ conslock = "free"
    /\ pc = [p \in Readers |-> "out"]
    /\ n = [p \in Readers |-> 0]
    /\ dst = [p \in Readers |-> <<>>]
    /\ killed = {}
    /\ pos = 0

Reading(p) == acquire(p) \/ takeChar(p) \/ leave(p) \/ testKilled(p) \/ sleep(p)

ConsoleNext ==
    \/ \E c \in Characters : consoleintr(c)
    \/ \E s \in Lines : consolewrite(s)
    \/ \E p \in Readers : \/ \E k \in 1 .. MaxRead : consoleread(p, k)
                          \/ Reading(p)
                          \/ kill(p)

ConsoleSpec == ConsoleInit /\ [][ConsoleNext]_consoleVars

----------------------------------------------------------------------------
(* Properties.                                                             *)

\* Every variable has a value of its type; the cursor is on the screen, above
\* its last row, so that cgaputc() never panics.
ConsoleTypeOK ==
    /\ buf \in [0 .. INPUT_BUF - 1 -> Letters \cup {"nl", "eof", "nul"}]
    /\ {r, w, e} \subseteq 0 .. UintRange - 1
    /\ minus(w, r) + minus(e, w) <= INPUT_BUF
    /\ conslock \in {"free"} \cup Readers
    /\ pc \in [Readers -> {"out", "in", "full", "sleepy", "asleep"}]
    /\ n \in [Readers -> 0 .. MaxRead]
    /\ \A p \in Readers : Len(dst[p]) <= MaxRead
    /\ killed \subseteq Readers
    /\ pos \in 0 .. (ROWS - 1) * COLS - 1

\* console.c:236-271: nobody sleeps while there is something to read.
NobodySleepsOnInput == \A p \in Readers : pc[p] = "asleep" => r = w

slice(i, j) == [k \in 1 .. minus(j, i) |-> buf[at(i + k - 1)]]

\* The ring with its three indices, its wrap-around and the end of file that is
\* put back is a line buffer: no character is lost, repeated or out of order.
Abstract == INSTANCE LineBuffer
    WITH Size <- INPUT_BUF, Chars <- Letters \cup {"nl", "eof"},
         ready <- slice(r, w), edit <- slice(w, e), got <- dst

ImplementsLineBuffer == Abstract!Spec
=============================================================================
