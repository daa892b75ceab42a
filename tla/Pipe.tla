-------------------------------- MODULE Pipe --------------------------------
(***************************************************************************)
(* Pipes (pipe.c) with the sleep(), wakeup() and kill() of proc.c they use. *)
(* Writers and readers run the loops of pipewrite() and piperead() under    *)
(* p->lock.  kill() does not take p->lock, so the steps that matter are:    *)
(* the loop up to its test of p->killed, which keeps the lock if the        *)
(* process is to sleep; and sleep() itself, which lets the lock go.         *)
(*                                                                          *)
(* nread and nwrite are unsigned and wrap around at UintRange (2^32 in the  *)
(* code).  PIPESIZE divides it, or the bytes would be misplaced there.      *)
(***************************************************************************)
EXTENDS Integers, Sequences, FiniteSets

CONSTANTS Writers, Readers,  \* processes that hold an end of the pipe
          Bytes,             \* what may be written
          PIPESIZE,          \* bytes the pipe holds
          UintRange,         \* the values of a counter are 0 .. UintRange - 1
          Texts,             \* bound: what a program writes in one call
          MaxRead,           \* bound on the n of one read
          Killable            \* the processes that somebody may kill

Procs == Writers \cup Readers
NoProc == "none"

ASSUME PipeAssumption == /\ {PIPESIZE, MaxRead} \subseteq Nat \ {0}
                         /\ \E k \in 2 .. UintRange : UintRange = k * PIPESIZE
                         /\ Writers # {} /\ Readers # {} /\ Writers \cap Readers = {}
                         /\ NoProc \notin Procs
                         /\ Killable \subseteq Procs
                         /\ Texts \subseteq Seq(Bytes) /\ Bytes # {}

VARIABLES data, nread, nwrite,   \* struct pipe
          readopen, writeopen,
          freed,                 \* has the struct been given to kfree()?
          lock,                  \* the process that holds p->lock, or NoProc
          pc,                    \* where each process is
          todo,                  \* what a writer has yet to write
          open,                  \* the processes that have not closed their end
          killed,                \* the processes with p->killed
          out                    \* what the last piperead() returned

pipeVars == <<data, nread, nwrite, readopen, writeopen, freed>>
vars == <<pipeVars, lock, pc, todo, open, killed, out>>

Init == /\ data = [i \in 0 .. PIPESIZE - 1 |-> CHOOSE b \in Bytes : TRUE]
        /\ nread = 0 /\ nwrite = 0
        /\ readopen = TRUE /\ writeopen = TRUE /\ freed = FALSE
        /\ lock = NoProc
        /\ pc = [p \in Procs |-> "idle"]
        /\ todo = [p \in Writers |-> <<>>]
        /\ open = Procs
        /\ killed = {}
        /\ out = <<>>

-----------------------------------------------------------------------------
Least(a, b) == IF a < b THEN a ELSE b

\* The bytes in the pipe; unsigned subtraction.
Count == (nwrite - nread) % UintRange

\* Room for so many bytes; and a slip, one too many.
oneTooMany == PIPESIZE + 1 - Count
room == PIPESIZE - Count

\* wakeup(chan): whoever sleeps on it becomes runnable, at its next turn of the loop.
\* Writers sleep on &p->nwrite, readers on &p->nread.
wakeup(S) == [p \in Procs |-> IF p \in S /\ pc[p] = "asleep" THEN "loop" ELSE pc[p]]

\* wakeup(&p->nread), wakeup(&p->nwrite); and a slip, a wakeup left out.
nobodyWoken == pc
readersWoken == wakeup(Readers)
writersWoken == wakeup(Writers)

\* A slip: the bytes are stored from nread on.
storedAtRead(s, k) == [i \in 0 .. PIPESIZE - 1 |->
                         LET j == (i - nread) % PIPESIZE IN IF j < k THEN s[j + 1] ELSE data[i]]

\* Data after k bytes of s have been stored from nwrite on.
stored(s, k) == [i \in 0 .. PIPESIZE - 1 |->
                   LET j == (i - nwrite) % PIPESIZE IN IF j < k THEN s[j + 1] ELSE data[i]]

\* A system call begins; it will acquire p->lock.  trap() lets no killed process in.
callWrite(p, s) == /\ pc[p] = "idle" /\ p \in open \ killed
                   /\ pc' = [pc EXCEPT ![p] = "loop"]
                   /\ todo' = [todo EXCEPT ![p] = s]
                   /\ UNCHANGED <<pipeVars, lock, open, killed, out>>

callRead(p) == /\ pc[p] = "idle" /\ p \in open \ killed
               /\ pc' = [pc EXCEPT ![p] = "loop"]
               /\ UNCHANGED <<pipeVars, lock, todo, open, killed, out>>

\* The loop of pipewrite(), with s still to be written: store what fits; return if
\* that was all, give up if nobody reads or the process is killed, else wake the
\* readers and go to sleep.
pipewrite(p) ==
    LET s == todo[p]
        k == Least(room, Len(s))
        full == k < Len(s)
        giveUp == full /\ (~readopen \/ p \in killed)
        goSleep == full /\ ~giveUp
    IN  /\ pc[p] = "loop" /\ lock = NoProc
        /\ data' = stored(s, k)
        /\ nwrite' = (nwrite + k) % UintRange
        /\ todo' = [todo EXCEPT ![p] = IF goSleep THEN SubSeq(s, k + 1, Len(s)) ELSE <<>>]
        /\ lock' = IF goSleep THEN p ELSE NoProc
        /\ pc' = [(IF giveUp THEN pc ELSE readersWoken)
                    EXCEPT ![p] = IF goSleep THEN "sleepy" ELSE "idle"]
        /\ UNCHANGED <<nread, readopen, writeopen, freed, open, killed, out>>

\* piperead(): while the pipe is empty and has a writer, sleep (or give up); then
\* take what there is, n bytes at most.  The model does not remember the n of a call
\* that slept: any n will do.
piperead(p, n) ==
    LET k == Least(n, Count)
        waits == Count = 0 /\ writeopen
    IN  /\ pc[p] = "loop" /\ lock = NoProc
        /\ IF waits
             THEN /\ pc' = [pc EXCEPT ![p] = IF p \in killed THEN "idle" ELSE "sleepy"]
                  /\ lock' = IF p \in killed THEN NoProc ELSE p
                  /\ UNCHANGED <<nread, out>>
             ELSE /\ out' = [i \in 1 .. k |-> data[(nread + i - 1) % PIPESIZE]]
                  /\ nread' = (nread + k) % UintRange
                  /\ pc' = [writersWoken EXCEPT ![p] = "idle"]
                  /\ UNCHANGED lock
        /\ UNCHANGED <<data, nwrite, readopen, writeopen, freed, todo, open, killed>>

\* sleep(): lets the lock go and sleeps, atomically for wakeup() and kill().
sleep(p) == /\ pc[p] = "sleepy"
            /\ pc' = [pc EXCEPT ![p] = "asleep"]
            /\ lock' = NoProc
            /\ UNCHANGED <<pipeVars, todo, open, killed, out>>

\* kill(): under ptable.lock only.
kill(p) == /\ p \in Killable \ killed /\ p \in open
           /\ killed' = killed \cup {p}
           /\ pc' = wakeup({p})
           /\ UNCHANGED <<pipeVars, lock, todo, open, out>>

\* When the memory is freed; and a slip, with the first end.
oneClosed(r, w) == ~r \/ ~w
bothClosed(r, w) == ~r /\ ~w

\* fileclose(): the last process to close an end calls pipeclose().  A killed process
\* does so on its way out of the kernel.
pipeclose(p) ==
    LET side == IF p \in Writers THEN Writers ELSE Readers
        last == open \cap side = {p}
    IN  /\ pc[p] = "idle" /\ p \in open
        /\ lock = NoProc
        /\ open' = open \ {p}
        /\ writeopen' = (writeopen /\ ~(last /\ side = Writers))
        /\ readopen' = (readopen /\ ~(last /\ side = Readers))
        /\ pc' = CASE last /\ side = Writers -> readersWoken
                 [] last /\ side = Readers -> writersWoken
                 [] OTHER -> pc
        /\ freed' = bothClosed(readopen', writeopen')
        /\ UNCHANGED <<data, nread, nwrite, lock, todo, killed, out>>

Next == \/ \E p \in Writers : \/ \E s \in Texts : callWrite(p, s)
                              \/ pipewrite(p)
        \/ \E p \in Readers : \/ callRead(p)
                              \/ \E n \in 1 .. MaxRead : piperead(p, n)
        \/ \E p \in Procs : sleep(p) \/ kill(p) \/ pipeclose(p)

\* A process in the kernel goes on, and gets a spin-lock that is free again and again;
\* a killed one leaves the kernel and exits.
Fairness ==
    /\ \A p \in Writers : SF_vars(pipewrite(p))
    /\ \A p \in Readers : SF_vars(\E n \in 1 .. MaxRead : piperead(p, n))
    /\ \A p \in Procs : WF_vars(sleep(p)) /\ SF_vars(p \in killed /\ pipeclose(p))

\* Programs that read from a pipe go on reading until they close it.
ReadersRead == \A p \in Readers : WF_vars(callRead(p))

Spec == Init /\ [][Next]_vars
FairSpec == Spec /\ Fairness /\ ReadersRead

-----------------------------------------------------------------------------
TypeOK == /\ data \in [0 .. PIPESIZE - 1 -> Bytes]
          /\ {nread, nwrite} \subseteq 0 .. UintRange - 1
          /\ Count <= PIPESIZE
          /\ {readopen, writeopen, freed} \subseteq BOOLEAN
          /\ lock \in Procs \cup {NoProc}
          /\ pc \in [Procs -> {"idle", "sleepy", "asleep", "loop"}]
          /\ todo \in [Writers -> Seq(Bytes)]
          /\ open \subseteq Procs /\ killed \subseteq Killable

\* A process sleeps on the pipe only while there is something to wait for, although
\* the tests and sleeps of many processes interleave, a wakeup goes to everybody, and
\* the counters wrap around.  A killed writer is the exception: it stores what fits and
\* leaves without a wakeup() (pipe.c:86).
NoLostWakeup ==
    \A p \in Procs : pc[p] \in {"sleepy", "asleep"} =>
        IF p \in Writers THEN Count = PIPESIZE /\ readopen
        ELSE writeopen /\ (Writers \cap killed = {} => Count = 0)

\* No process is inside the pipe's functions, or could enter them, when the memory of
\* the pipe has been freed; and it is freed once everybody has closed it.
FreedLast == freed <=> open = {}

\* pipe.c:59-121: nobody misses a wakeup, and the pipe is freed by the last to close it.
PipeSafe == TypeOK /\ NoLostWakeup /\ FreedLast

\* The bytes in the ring, oldest first.
Waiting == [i \in 1 .. Count |-> data[(nread + i - 1) % PIPESIZE]]

Stream == INSTANCE ByteStream
            WITH Capacity <- PIPESIZE, q <- Waiting, closed <- ~writeopen

\* The pipe implements the byte stream: no byte is lost, duplicated or reordered, also
\* when a counter wraps around, and 0 is returned only at the end of the file.
ImplementsStream == Stream!StreamSpec

\* pipe.c:78-98: a writer that sleeps is woken, if those who read from the pipe go on
\* reading or close it; and pipewrite() returns, unless another writer fills the room
\* again and again before it runs.
WritersReturn ==
    \A p \in Writers :
        /\ pc[p] = "asleep" ~> pc[p] # "asleep"
        /\ (pc[p] # "idle" /\ open \cap Writers = {p}) ~> pc[p] = "idle"
=============================================================================
