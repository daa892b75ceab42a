------------------------------ MODULE ProcTable ------------------------------
(***************************************************************************)
(* The process table (proc.c): fork, exit, wait, kill, sleep and wakeup,    *)
(* the scheduler, and the parts of trap.c, sysproc.c and init.c that decide *)
(* when a process exits, sleeps and waits.  A critical section of           *)
(* ptable.lock is one action; fork() writes the state of the new slot       *)
(* outside of it when memory runs out.  A process acts while it is RUNNING, *)
(* and a clock tick may take the CPU away between any two of its actions.   *)
(***************************************************************************)
EXTENDS Integers, FiniteSets

CONSTANTS NPROC,    \* slots of the table
          NCPU,     \* CPUs
          MaxPid,   \* bound on the pids given out
          Targets   \* the pids somebody may call kill() with

ASSUME ProcAssumption == /\ {NPROC, NCPU, MaxPid} \subseteq Nat \ {0}
                         /\ Targets \subseteq Nat

VARIABLES proc,     \* ptable.proc
          nextpid,
          child,    \* the np of each process that is in fork()
          desktop,  \* the pid init waits for, 0 if it is to start a desktop
          panic     \* has init tried to exit?

vars == <<proc, nextpid, child, desktop, panic>>

Slots == 0 .. NPROC - 1
None == -1
initproc == 0
Ticks == NPROC   \* the channel &ticks; the others are processes

\* at is the place in the kernel where the process is.  A slot in .bss is all zero.
Unused == [state |-> "UNUSED", pid |-> 0, parent |-> None, killed |-> FALSE,
           chan |-> None, at |-> "user"]

\* userinit() has made the first process.
Init == /\ proc = [i \in Slots |-> IF i = initproc
                                     THEN [Unused EXCEPT !.state = "RUNNABLE", !.pid = 1]
                                     ELSE Unused]
        /\ nextpid = 2
        /\ child = [i \in Slots |-> None]
        /\ desktop = 0
        /\ panic = FALSE

InState(s) == {i \in Slots : proc[i].state = s}
Running(i, place) == ~panic /\ proc[i].state = "RUNNING" /\ proc[i].at = place

\* In user space; trap() lets a killed process do nothing but exit.
InUser(i) == Running(i, "user") /\ ~proc[i].killed

-----------------------------------------------------------------------------
\* The scheduler and its clock.

scheduler(i) ==
    /\ ~panic /\ proc[i].state = "RUNNABLE"
    /\ Cardinality(InState("RUNNING")) < NCPU
    /\ proc' = [proc EXCEPT ![i].state = "RUNNING"]
    /\ UNCHANGED <<nextpid, child, desktop, panic>>

yield(i) ==
    /\ ~panic /\ proc[i].state = "RUNNING"
    /\ proc' = [proc EXCEPT ![i].state = "RUNNABLE"]
    /\ UNCHANGED <<nextpid, child, desktop, panic>>

\* wakeup1() on the channels in C.
wakeup1(T, C) == [i \in Slots |-> IF T[i].state = "SLEEPING" /\ T[i].chan \in C
                                    THEN [T[i] EXCEPT !.state = "RUNNABLE"] ELSE T[i]]

\* The timer interrupt: wakeup(&ticks).
tick == /\ ~panic
        /\ proc' = wakeup1(proc, {Ticks})
        /\ UNCHANGED <<nextpid, child, desktop, panic>>

-----------------------------------------------------------------------------
\* fork()

\* The next pid.
newPid == nextpid + 1

\* The critical section of allocproc().  init exits, and the kernel panics, when it
\* cannot fork; others carry on.
allocproc(i) ==
    LET free == InState("UNUSED")
        j == CHOOSE k \in free : \A l \in free : k <= l
    IN  /\ InUser(i) /\ nextpid <= MaxPid
        /\ i = initproc => desktop = 0
        /\ IF free = {}
             THEN /\ panic' = (i = initproc)
                  /\ UNCHANGED <<proc, nextpid, child>>
             ELSE /\ proc' = [proc EXCEPT ![j].state = "EMBRYO", ![j].pid = nextpid,
                                          ![i].at = "fork"]
                  /\ nextpid' = newPid
                  /\ child' = [child EXCEPT ![i] = j]
                  /\ UNCHANGED panic
        /\ UNCHANGED desktop

\* kalloc() or copyuvm() failed.  pid keeps its value.
forkFail(i) ==
    /\ Running(i, "fork")
    /\ proc' = [proc EXCEPT ![child[i]].state = "UNUSED", ![i].at = "user"]
    /\ child' = [child EXCEPT ![i] = None]
    /\ panic' = (i = initproc)
    /\ UNCHANGED <<nextpid, desktop>>

fork(i) ==
    /\ Running(i, "fork")
    /\ proc' = [proc EXCEPT ![child[i]].state = "RUNNABLE", ![child[i]].parent = i,
                            ![child[i]].at = "user", ![i].at = "user"]
    /\ child' = [child EXCEPT ![i] = None]
    /\ desktop' = IF i = initproc THEN proc[child[i]].pid ELSE desktop
    /\ UNCHANGED <<nextpid, panic>>

-----------------------------------------------------------------------------
\* exit()

\* The children of i pass to init; and a slip, they do not.
abandoned(T, i) == T
adopted(T, i) == [j \in Slots |-> IF T[j].parent = i THEN [T[j] EXCEPT !.parent = initproc]
                                                     ELSE T[j]]

\* The channels exit() wakes: the parent's, and init's if it inherits a zombie; and a
\* slip, only the parent's.
parentOnly(i) == {proc[i].parent}
toWake(i) == {proc[i].parent} \cup
             (IF \E j \in InState("ZOMBIE") : proc[j].parent = i THEN {initproc} ELSE {})

\* The critical section of exit(), called by the process or by trap() once it is killed.
exit(i) ==
    /\ Running(i, "user")
    /\ i = initproc => proc[i].killed
    /\ IF i = initproc
         THEN panic' = TRUE /\ UNCHANGED proc
         ELSE /\ proc' = [adopted(wakeup1(proc, toWake(i)), i) EXCEPT ![i].state = "ZOMBIE"]
              /\ UNCHANGED panic
    /\ UNCHANGED <<nextpid, child, desktop>>

-----------------------------------------------------------------------------
\* wait()

Children(i) == {j \in Slots : proc[j].parent = i}
Zombies(i) == {j \in Children(i) : proc[j].state = "ZOMBIE"}

\* init leaves its inner loop when its desktop has been reaped, or nothing is left.
afterWait(i, pid) == IF i = initproc /\ pid \in {desktop, None} THEN 0 ELSE desktop

\* One turn of the loop of wait(), on entry or after a sleep.
wait(i) ==
    LET j == CHOOSE k \in Zombies(i) : \A l \in Zombies(i) : k <= l
    IN  /\ InUser(i) \/ Running(i, "wait")
        /\ i = initproc => desktop # 0
        /\ CASE Zombies(i) # {} ->
                  /\ proc' = [proc EXCEPT ![j] = Unused,
                                          ![i].at = "user", ![i].chan = None]
                  /\ desktop' = afterWait(i, proc[j].pid)
             [] Zombies(i) = {} /\ (Children(i) = {} \/ proc[i].killed) ->
                  /\ proc' = [proc EXCEPT ![i].at = "user", ![i].chan = None]
                  /\ desktop' = afterWait(i, None)
             [] OTHER ->
                  /\ proc' = [proc EXCEPT ![i].state = "SLEEPING", ![i].chan = i,
                                          ![i].at = "wait"]
                  /\ UNCHANGED desktop
        /\ UNCHANGED <<nextpid, child, panic>>

-----------------------------------------------------------------------------
\* sys_sleep(): under tickslock, which kill() does not take, the process finds that it
\* has to sleep; then it sleeps.

sys_sleep(i) ==
    /\ InUser(i) \/ Running(i, "sleep")
    /\ i # initproc
    /\ \/ ~proc[i].killed /\ proc' = [proc EXCEPT ![i].at = "drowsy"]
       \/ proc[i].at = "sleep" /\ proc' = [proc EXCEPT ![i].at = "user", ![i].chan = None]
    /\ UNCHANGED <<nextpid, child, desktop, panic>>

sleep(i) ==
    /\ Running(i, "drowsy")
    /\ proc' = [proc EXCEPT ![i].state = "SLEEPING", ![i].chan = Ticks, ![i].at = "sleep"]
    /\ UNCHANGED <<nextpid, child, desktop, panic>>

\* The state after kill(); and a slip, a sleeper sleeps on.
sleepsOn(s) == s
runnable(s) == IF s = "SLEEPING" THEN "RUNNABLE" ELSE s

\* kill(): the first slot with that pid, whatever its state.
kill(i, pid) ==
    LET match == {j \in Slots : proc[j].pid = pid}
        j == CHOOSE k \in match : \A l \in match : k <= l
    IN  /\ InUser(i) /\ match # {}
        /\ i # initproc
        /\ proc' = [proc EXCEPT ![j].killed = TRUE, ![j].state = runnable(@)]
        /\ UNCHANGED <<nextpid, child, desktop, panic>>

Step(i) == \/ allocproc(i) \/ forkFail(i) \/ fork(i) \/ exit(i) \/ wait(i)
           \/ sys_sleep(i) \/ sleep(i)

Next == \/ \E i \in Slots : \/ scheduler(i) \/ yield(i)
                            \/ Step(i)
                            \/ \E pid \in Targets : kill(i, pid)
        \/ tick

\* Every CPU scans the whole table again and again, the clock ticks, and a process that
\* is in the kernel, or has been killed, gets on.  init waits for its children.
Fairness == /\ WF_vars(tick)
            /\ \A i \in Slots :
                 /\ WF_vars(yield(i)) /\ SF_vars(scheduler(i))
                 /\ SF_vars((i = initproc \/ proc[i].killed \/ proc[i].at # "user") /\ Step(i))

Spec == Init /\ [][Next]_vars
FairSpec == Spec /\ Fairness

-----------------------------------------------------------------------------
Alive(i) == proc[i].state \in {"RUNNABLE", "RUNNING", "SLEEPING"}

TypeOK ==
    /\ proc \in [Slots -> [state : {"UNUSED", "EMBRYO", "SLEEPING", "RUNNABLE", "RUNNING", "ZOMBIE"},
                           pid : 0 .. MaxPid, parent : Slots \cup {None}, killed : BOOLEAN,
                           chan : Slots \cup {None, Ticks},
                           at : {"user", "fork", "wait", "drowsy", "sleep"}]]
    /\ nextpid \in 2 .. MaxPid + 1
    /\ child \in [Slots -> Slots \cup {None}]
    /\ desktop \in 0 .. MaxPid
    /\ panic \in BOOLEAN

\* Every process except init has a parent that can still wait for it: nobody becomes a
\* zombie that nobody reaps because its parent exited at the wrong moment.
ParentsAlive == \A i \in Slots \ {initproc} :
                   Alive(i) \/ proc[i].state = "ZOMBIE" =>
                       proc[i].parent # None /\ Alive(proc[i].parent)

\* No process sleeps in wait() while it has a zombie to reap, has no child left or has
\* been killed, although children exit, are inherited and are killed concurrently.
NoMissedExit == \A i \in InState("SLEEPING") : proc[i].at = "wait" =>
                   /\ Children(i) # {} /\ Zombies(i) = {}
                   /\ ~proc[i].killed

\* proc.c:181-312: the table is consistent, nobody is orphaned and no exit is missed.
TableSafe == TypeOK /\ ParentsAlive /\ NoMissedExit

\* A process that exits after its parent did is reaped by init (unless init has
\* reached the bound on pids where it would start a desktop).
OrphansReaped == \A i \in Slots :
    (proc[i].state = "ZOMBIE" /\ proc[i].parent = initproc)
    ~> (proc[i].state = "UNUSED" \/ panic \/ (desktop = 0 /\ nextpid > MaxPid))

\* A process that is killed exits, also when it is asleep, about to sleep or in fork().
KilledExits == \A i \in Slots :
    (Alive(i) /\ proc[i].killed) ~> (~Alive(i) \/ panic)

\* proc.c:228-312, 481-500: whoever must exit does, and is reaped.
ExitsHappen == OrphansReaped /\ KilledExits
=============================================================================
