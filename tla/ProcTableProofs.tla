--------------------------- MODULE ProcTableProofs ---------------------------
(***************************************************************************)
(* For every size of the table and every number of CPUs: every process has  *)
(* a parent that can wait for it, and no process sleeps in wait() while it  *)
(* has a reason to go on.  And of what processes have open, for every size  *)
(* of the file table and of the tables of descriptors: each open file       *)
(* counts the descriptors that name it, and the end of a pipe is open as    *)
(* long as there is an open file for it or a process about to close it.     *)
(***************************************************************************)
EXTENDS ProcTable, Files, FiniteSetTheorems, TLAPS

\* init lives for ever, and has no parent; nobody is its own parent.
FamilyOK == /\ Alive(initproc) /\ proc[initproc].parent = None
            /\ \A i \in Slots : proc[i].parent # i

\* A slot that is free, or being filled by fork(), has nothing of a process yet.
FreshOK == \A i \in Slots : proc[i].state \in {"UNUSED", "EMBRYO"} =>
                               proc[i].parent = None /\ proc[i].at = "user"

\* A process in fork() has a slot of its own, which nobody else sees as a process.
ForkOK == \A i \in Slots : proc[i].at = "fork" =>
             /\ proc[i].state \in {"RUNNABLE", "RUNNING"}
             /\ child[i] \in Slots /\ proc[child[i]].state = "EMBRYO"
             /\ \A k \in Slots : proc[k].at = "fork" /\ child[k] = child[i] => k = i

\* Whoever sleeps in wait() sleeps on its own slot, where exit() looks for it.
WaitChannel == \A i \in Slots : proc[i].state = "SLEEPING" /\ proc[i].at = "wait" =>
                                   proc[i].chan = i

Inv == TableSafe /\ FamilyOK /\ FreshOK /\ ForkOK /\ WaitChannel

-----------------------------------------------------------------------------
\* A set of numbers that is not empty has a first one.
LEMMA FirstOf ==
  ASSUME NEW S \in SUBSET Nat, S # {}
  PROVE  (CHOOSE k \in S : \A l \in S : k <= l) \in S
<1> DEFINE Below(k) == 0 .. k - 1
           R == StrictSubsetOrdering(Nat)
           T == {Below(k) : k \in S}
<1>1. S \subseteq Nat
  OBVIOUS
<1>2. \A k \in S : Below(k) \in FiniteSubsetsOf(Nat)
  BY <1>1, FS_Interval DEF FiniteSubsetsOf
<1>3. T \subseteq FiniteSubsetsOf(Nat) /\ T # {}
  BY <1>2
<1>4. IsWellFoundedOn(R, FiniteSubsetsOf(Nat))
  BY FS_StrictSubsetOrderingWellFounded
<1>5. PICK x \in T : \A y \in T : ~(<<y, x>> \in R)
  BY <1>3, <1>4, WFMin
<1>6. PICK k \in S : x = Below(k)
  BY <1>5
<1>7. ASSUME NEW l \in S PROVE k <= l
  <2> SUFFICES ASSUME l < k PROVE FALSE
    BY <1>1
  <2>1. Below(l) \subseteq Below(k) /\ l \in Below(k) /\ l \notin Below(l)
    BY <1>1
  <2>2. <<Below(l), Below(k)>> \in R
    BY <2>1, <1>2 DEF StrictSubsetOrdering, FiniteSubsetsOf
  <2> QED
    BY <2>2, <1>5, <1>6
<1>8. \E m \in S : \A l \in S : m <= l
  BY <1>7
<1> QED
  BY <1>8

LEMMA FirstSlot ==
  ASSUME NEW S \in SUBSET Slots, S # {}
  PROVE  (CHOOSE k \in S : \A l \in S : k <= l) \in S
<1>1. S \subseteq Nat
  BY ProcAssumption DEF Slots
<1> QED
  BY <1>1, FirstOf

\* What a slot of the table may hold.
Record == [state : {"UNUSED", "EMBRYO", "SLEEPING", "RUNNABLE", "RUNNING", "ZOMBIE"},
           pid : 0 .. MaxPid, parent : Slots \cup {None}, killed : BOOLEAN,
           chan : Slots \cup {None, Ticks},
           at : {"user", "fork", "wait", "drowsy", "sleep"}]

\* The table starts with init alone.
LEMMA InitInv == Init => Inv
<1> SUFFICES ASSUME Init PROVE Inv
  OBVIOUS
<1>1. /\ initproc \in Slots /\ NPROC \in Nat /\ MaxPid \in Nat /\ MaxPid > 0
      /\ \A i \in Slots : i # None /\ i # Ticks
  BY ProcAssumption DEF Slots, initproc, None, Ticks
<1> DEFINE First == [Unused EXCEPT !.state = "RUNNABLE", !.pid = 1]
<1>2. proc = [i \in Slots |-> IF i = initproc THEN First ELSE Unused]
  BY DEF Init
<1>3. First \in Record /\ Unused \in Record
  <2>1. 0 \in 0 .. MaxPid /\ 1 \in 0 .. MaxPid
    BY <1>1
  <2>2. Unused \in Record
    BY <2>1 DEF Record, Unused
  <2>3. First \in Record
    BY <2>1, <2>2 DEF Record
  <2> QED
    BY <2>2, <2>3
<1>4. proc \in [Slots -> Record]
  BY <1>2, <1>3
<1>5. nextpid \in 2 .. MaxPid + 1 /\ desktop \in 0 .. MaxPid
  BY <1>1 DEF Init
<1>6. TypeOK
  BY <1>4, <1>5 DEF TypeOK, Init, Record
<1>7. \A i \in Slots : /\ i # initproc => proc[i].state = "UNUSED"
                       /\ proc[i].parent = None /\ proc[i].at = "user"
  <2>1. /\ Unused.state = "UNUSED" /\ Unused.parent = None /\ Unused.at = "user"
        /\ First.parent = Unused.parent /\ First.at = Unused.at
    BY DEF Unused
  <2> QED
    BY <1>2, <2>1
<1>8. proc[initproc].state = "RUNNABLE"
  <2>1. First.state = "RUNNABLE"
    BY DEF Unused
  <2> QED
    BY <1>1, <1>2, <2>1
<1>9. ParentsAlive /\ NoMissedExit
  BY <1>1, <1>7, <1>8 DEF ParentsAlive, NoMissedExit, InState, Alive
<1>10. FamilyOK /\ FreshOK /\ ForkOK /\ WaitChannel
  BY <1>1, <1>7, <1>8 DEF FamilyOK, FreshOK, ForkOK, WaitChannel, Alive
<1> QED
  BY <1>6, <1>9, <1>10 DEF Inv, TableSafe

\* What a step does to a slot that leaves the families alone, starts and ends no process
\* and lets nobody go to sleep in wait().
Quiet(k) ==
    /\ proc'[k].parent = proc[k].parent
    /\ Alive(k) => proc'[k].state \in {"RUNNABLE", "RUNNING", "SLEEPING"}
    /\ ~Alive(k) => proc'[k].state = proc[k].state /\ proc'[k].at = proc[k].at
    /\ proc'[k].at = "fork" =>
          proc[k].at = "fork" /\ proc'[k].state \in {"RUNNABLE", "RUNNING"}
    /\ proc'[k].state = "SLEEPING" /\ proc'[k].at = "wait" =>
          /\ proc[k].state = "SLEEPING" /\ proc[k].at = "wait"
          /\ proc'[k].chan = proc[k].chan /\ proc'[k].killed = proc[k].killed

\* Such a step keeps the invariant.
LEMMA QuietStep ==
  ASSUME Inv, proc' \in [Slots -> Record], UNCHANGED <<nextpid, child>>,
         desktop' \in 0 .. MaxPid, panic' \in BOOLEAN,
         \A k \in Slots : Quiet(k)
  PROVE  Inv'
<1> USE DEF Quiet
<1>1. TypeOK'
  BY DEF Inv, TableSafe, TypeOK, Record
<1>2. ParentsAlive'
  BY DEF Inv, TableSafe, TypeOK, ParentsAlive, Alive
<1>3. NoMissedExit'
  BY DEF Inv, TableSafe, NoMissedExit, InState, Children, Zombies, Alive
<1>4. FamilyOK'
  BY ProcAssumption DEF Inv, FamilyOK, Alive, initproc, Slots
<1>5. FreshOK'
  BY DEF Inv, FreshOK, Alive
<1>6. ForkOK'
  BY DEF Inv, ForkOK, Alive
<1>7. WaitChannel'
  BY DEF Inv, WaitChannel
<1> QED
  BY <1>1, <1>2, <1>3, <1>4, <1>5, <1>6, <1>7 DEF Inv, TableSafe

\* The scheduler chooses a process that can run.
LEMMA SchedulerKeeps == ASSUME Inv, NEW i \in Slots, scheduler(i) PROVE Inv'
<1>1. proc \in [Slots -> Record] /\ desktop \in 0 .. MaxPid /\ panic \in BOOLEAN
  BY DEF Inv, TableSafe, TypeOK, Record
<1>2. proc' = [proc EXCEPT ![i] = [proc[i] EXCEPT !.state = "RUNNING"]]
  BY DEF scheduler
<1>3. [proc[i] EXCEPT !.state = "RUNNING"] \in Record
  BY <1>1 DEF Record
<1>4. proc' \in [Slots -> Record]
  BY <1>1, <1>2, <1>3
<1>5. \A k \in Slots : proc'[k] = IF k = i THEN [proc[i] EXCEPT !.state = "RUNNING"]
                                           ELSE proc[k]
  BY <1>1, <1>2
<1>9. ASSUME NEW k \in Slots PROVE Quiet(k)
  BY <1>1, <1>4, <1>5 DEF scheduler, Quiet, Record, Inv, ForkOK, Alive
<1> QED
  BY <1>1, <1>4, <1>9, QuietStep DEF scheduler

\* A clock tick takes the CPU away.
LEMMA YieldKeeps == ASSUME Inv, NEW i \in Slots, yield(i) PROVE Inv'
<1>1. proc \in [Slots -> Record] /\ desktop \in 0 .. MaxPid /\ panic \in BOOLEAN
  BY DEF Inv, TableSafe, TypeOK, Record
<1>2. proc' = [proc EXCEPT ![i] = [proc[i] EXCEPT !.state = "RUNNABLE"]]
  BY DEF yield
<1>3. [proc[i] EXCEPT !.state = "RUNNABLE"] \in Record
  BY <1>1 DEF Record
<1>4. proc' \in [Slots -> Record]
  BY <1>1, <1>2, <1>3
<1>5. \A k \in Slots : proc'[k] = IF k = i THEN [proc[i] EXCEPT !.state = "RUNNABLE"]
                                           ELSE proc[k]
  BY <1>1, <1>2
<1>9. ASSUME NEW k \in Slots PROVE Quiet(k)
  BY <1>1, <1>4, <1>5 DEF yield, Quiet, Record, Inv, ForkOK, Alive
<1> QED
  BY <1>1, <1>4, <1>9, QuietStep DEF yield

\* The timer wakes the sleepers of sys_sleep().
LEMMA TickKeeps == ASSUME Inv, tick PROVE Inv'
<1>1. proc \in [Slots -> Record] /\ desktop \in 0 .. MaxPid /\ panic \in BOOLEAN
  BY DEF Inv, TableSafe, TypeOK, Record
<1>2. \A k \in Slots : proc'[k] = IF proc[k].state = "SLEEPING" /\ proc[k].chan \in {Ticks}
                                    THEN [proc[k] EXCEPT !.state = "RUNNABLE"] ELSE proc[k]
  BY DEF tick, wakeup1
<1>3. ASSUME NEW k \in Slots PROVE proc'[k] \in Record
  <2>1. proc[k] \in Record
    BY <1>1
  <2>2. [proc[k] EXCEPT !.state = "RUNNABLE"] \in Record
    BY <2>1 DEF Record
  <2> QED
    BY <1>2, <2>1, <2>2
<1>4. proc' \in [Slots -> Record]
  BY <1>3 DEF tick, wakeup1
<1>9. ASSUME NEW k \in Slots PROVE Quiet(k)
  <2>1. CASE proc[k].state = "SLEEPING" /\ proc[k].chan \in {Ticks}
    <3>1. proc'[k] = [proc[k] EXCEPT !.state = "RUNNABLE"]
      BY <1>2, <2>1
    <3> QED
      BY <1>1, <2>1, <3>1 DEF Quiet, Record, Inv, ForkOK, Alive
  <2>2. CASE ~(proc[k].state = "SLEEPING" /\ proc[k].chan \in {Ticks})
    <3>1. proc'[k] = proc[k]
      BY <1>2, <2>2
    <3> QED
      BY <1>1, <3>1 DEF Quiet, Record, Inv, ForkOK, Alive
  <2> QED
    BY <2>1, <2>2
<1> QED
  BY <1>1, <1>4, <1>9, QuietStep DEF tick

\* sys_sleep() decides to sleep, or comes back.
LEMMA SysSleepKeeps == ASSUME Inv, NEW i \in Slots, sys_sleep(i) PROVE Inv'
<1>1. proc \in [Slots -> Record] /\ desktop \in 0 .. MaxPid /\ panic \in BOOLEAN
  BY DEF Inv, TableSafe, TypeOK, Record
<1> DEFINE p == proc'[i]
<1>2. /\ \A k \in Slots \ {i} : proc'[k] = proc[k]
      /\ \/ p = [proc[i] EXCEPT !.at = "drowsy"]
         \/ p = [proc[i] EXCEPT !.at = "user", !.chan = None]
      /\ proc' = [proc EXCEPT ![i] = p]
  BY <1>1 DEF sys_sleep
<1>3. p \in Record
  BY <1>1, <1>2 DEF Record
<1>4. proc' \in [Slots -> Record]
  BY <1>1, <1>2, <1>3
<1>5. proc[i].state = "RUNNING"
  BY DEF sys_sleep, InUser, Running
<1>9. ASSUME NEW k \in Slots PROVE Quiet(k)
  BY <1>1, <1>2, <1>4, <1>5 DEF sys_sleep, Quiet, Record, Inv, ForkOK, Alive
<1> QED
  BY <1>1, <1>4, <1>9, QuietStep DEF sys_sleep

\* sleep() on the channel of the clock.
LEMMA SleepKeeps == ASSUME Inv, NEW i \in Slots, sleep(i) PROVE Inv'
<1>1. proc \in [Slots -> Record] /\ desktop \in 0 .. MaxPid /\ panic \in BOOLEAN
  BY DEF Inv, TableSafe, TypeOK, Record
<1> DEFINE p == [proc[i] EXCEPT !.state = "SLEEPING", !.chan = Ticks, !.at = "sleep"]
<1>2. proc' = [proc EXCEPT ![i] = p]
  BY <1>1 DEF sleep
<1>3. p \in Record
  BY <1>1 DEF Record
<1>4. proc' \in [Slots -> Record]
  BY <1>1, <1>2, <1>3
<1>5. proc[i].state = "RUNNING"
  BY DEF sleep, Running
<1>6. \A k \in Slots : proc'[k] = IF k = i THEN p ELSE proc[k]
  BY <1>1, <1>2
<1>9. ASSUME NEW k \in Slots PROVE Quiet(k)
  BY <1>1, <1>4, <1>5, <1>6 DEF sleep, Quiet, Record, Inv, ForkOK, Alive
<1> QED
  BY <1>1, <1>4, <1>9, QuietStep DEF sleep

\* kill() marks a slot, and wakes a process that sleeps there.
LEMMA KillKeeps == ASSUME Inv, NEW i \in Slots, NEW pid \in Targets, kill(i, pid) PROVE Inv'
<1>1. proc \in [Slots -> Record] /\ desktop \in 0 .. MaxPid /\ panic \in BOOLEAN
  BY DEF Inv, TableSafe, TypeOK, Record
<1> DEFINE match == {k \in Slots : proc[k].pid = pid}
           j == CHOOSE k \in match : \A l \in match : k <= l
           p == [proc[j] EXCEPT !.killed = TRUE, !.state = runnable(proc[j].state)]
<1>2. j \in match
  BY FirstSlot DEF kill
<1>3. proc' = [proc EXCEPT ![j].killed = TRUE, ![j].state = runnable(@)]
  BY DEF kill
<1>4. j \in Slots
  BY <1>2
<1> HIDE DEF j, match
<1>5. proc' = [proc EXCEPT ![j] = p]
  BY <1>1, <1>3, <1>4
<1>6. p \in Record
  BY <1>1, <1>4 DEF Record, runnable
<1>7. proc' \in [Slots -> Record]
  BY <1>1, <1>5, <1>6
<1>8. \A k \in Slots : proc'[k] = IF k = j THEN p ELSE proc[k]
  BY <1>1, <1>4, <1>5
<1>9. UNCHANGED <<nextpid, child, desktop, panic>>
  BY DEF kill
<1>10. ASSUME NEW k \in Slots PROVE Quiet(k)
  <2>1. CASE k = j
    <3>1. proc'[k] = p
      BY <1>8, <2>1
    <3>2. /\ p.parent = proc[j].parent /\ p.at = proc[j].at /\ p.chan = proc[j].chan
          /\ p.state = runnable(proc[j].state)
      BY <1>1, <1>4 DEF Record
    <3> HIDE DEF p
    <3> QED
      BY <2>1, <3>1, <3>2, <1>4 DEF Quiet, runnable, Inv, ForkOK, Alive
  <2>2. CASE k # j
    <3>1. proc'[k] = proc[k]
      BY <1>8, <2>2
    <3> QED
      BY <1>1, <3>1 DEF Quiet, Inv, ForkOK, Alive
  <2> QED
    BY <2>1, <2>2
<1> QED
  BY <1>1, <1>7, <1>9, <1>10, QuietStep

-----------------------------------------------------------------------------
\* allocproc() takes a free slot for the child, or reports that there is none.
LEMMA AllocprocKeeps == ASSUME Inv, NEW i \in Slots, allocproc(i) PROVE Inv'
<1>1. /\ proc \in [Slots -> Record] /\ desktop \in 0 .. MaxPid /\ panic \in BOOLEAN
      /\ nextpid \in 2 .. MaxPid + 1 /\ child \in [Slots -> Slots \cup {None}]
  BY DEF Inv, TableSafe, TypeOK, Record
<1>2. proc[i].state = "RUNNING" /\ proc[i].at = "user" /\ desktop' = desktop
  BY DEF allocproc, InUser, Running
<1>3. CASE InState("UNUSED") = {}
  <2>1. UNCHANGED <<proc, nextpid, child>> /\ panic' = (i = initproc)
    BY <1>3 DEF allocproc
  <2>2. ASSUME NEW k \in Slots PROVE Quiet(k)
    BY <2>1 DEF Quiet, Inv, ForkOK, Alive
  <2> QED
    BY <1>1, <1>2, <2>1, <2>2, QuietStep
<1>4. CASE InState("UNUSED") # {}
  <2> DEFINE free == InState("UNUSED")
             j == CHOOSE k \in free : \A l \in free : k <= l
             p == [proc[j] EXCEPT !.state = "EMBRYO", !.pid = nextpid]
             q == [proc[i] EXCEPT !.at = "fork"]
  <2>1. j \in free
    BY <1>4, FirstSlot DEF InState
  <2>2. j \in Slots /\ proc[j].state = "UNUSED" /\ j # i
    BY <1>2, <2>1 DEF InState
  <2>3. /\ proc' = [proc EXCEPT ![j].state = "EMBRYO", ![j].pid = nextpid, ![i].at = "fork"]
        /\ nextpid' = nextpid + 1 /\ nextpid <= MaxPid
        /\ child' = [child EXCEPT ![i] = j] /\ UNCHANGED panic
    BY <1>4 DEF allocproc, newPid
  <2> HIDE DEF j, free
  <2>4. proc' = [proc EXCEPT ![j] = p, ![i] = q]
    BY <1>1, <2>2, <2>3
  <2>5. /\ nextpid \in 0 .. MaxPid /\ nextpid' \in 2 .. MaxPid + 1
    BY <1>1, <2>3, ProcAssumption
  <2>6. p \in Record /\ q \in Record
    BY <1>1, <2>2, <2>5 DEF Record
  <2>7. proc' \in [Slots -> Record]
    BY <1>1, <2>4, <2>6
  <2>8. \A k \in Slots : proc'[k] = IF k = i THEN q ELSE IF k = j THEN p ELSE proc[k]
    BY <1>1, <2>2, <2>4
  <2>9. /\ p.state = "EMBRYO" /\ p.parent = proc[j].parent /\ p.at = proc[j].at
        /\ q.state = "RUNNING" /\ q.parent = proc[i].parent /\ q.at = "fork"
    BY <1>1, <1>2, <2>2 DEF Record
  <2> HIDE DEF p, q
  <2>10. proc[j].parent = None /\ proc[j].at = "user"
    BY <2>2 DEF Inv, FreshOK
  <2>11. \A k \in Slots :
            /\ proc'[k].parent = proc[k].parent
            /\ k # i => proc'[k].at = proc[k].at
            /\ k # j => proc'[k].state = proc[k].state
            /\ k \notin {i, j} => proc'[k] = proc[k]
    BY <1>2, <2>8, <2>9
  <2>12. /\ proc'[j].state = "EMBRYO" /\ proc'[i].at = "fork" /\ proc'[i].state = "RUNNING"
    BY <2>2, <2>8, <2>9
  <2>13. \A k \in Slots : child'[k] = IF k = i THEN j ELSE child[k]
    BY <1>1, <2>3
  <2>14. TypeOK'
    BY <1>1, <1>2, <2>2, <2>3, <2>5, <2>7 DEF TypeOK, Record
  <2>15. ParentsAlive'
    <3> SUFFICES ASSUME NEW k \in Slots \ {initproc},
                        Alive(k)' \/ proc'[k].state = "ZOMBIE"
                 PROVE  /\ proc'[k].parent # None
                        /\ proc'[proc'[k].parent].state \in {"RUNNABLE", "RUNNING", "SLEEPING"}
      BY DEF ParentsAlive, Alive
    <3>1. k # j /\ proc'[k].state = proc[k].state /\ proc'[k].parent = proc[k].parent
      BY <2>11, <2>12 DEF Alive
    <3>2. proc[k].parent # None /\ Alive(proc[k].parent)
      BY <3>1 DEF Inv, TableSafe, ParentsAlive, Alive
    <3>3. proc[k].parent \in Slots
      BY <1>1, <3>2 DEF Record
    <3> QED
      BY <2>2, <2>11, <3>1, <3>2, <3>3 DEF Alive
  <2>16. NoMissedExit'
    <3> SUFFICES ASSUME NEW k \in Slots, proc'[k].state = "SLEEPING", proc'[k].at = "wait"
                 PROVE  /\ Children(k)' # {} /\ Zombies(k)' = {}
                        /\ ~proc'[k].killed
      BY DEF NoMissedExit, InState
    <3>1. k \notin {i, j} /\ proc'[k] = proc[k]
      BY <2>2, <2>11, <2>12
    <3>2. Children(k) # {} /\ Zombies(k) = {} /\ ~proc[k].killed
      BY <3>1 DEF Inv, TableSafe, NoMissedExit, InState
    <3>3. Children(k)' = Children(k)
      BY <2>11 DEF Children
    <3>4. Zombies(k)' = {}
      BY <2>11, <2>12, <3>2, <3>3 DEF Zombies, Children
    <3> QED
      BY <3>1, <3>2, <3>3, <3>4
  <2>17. FamilyOK'
    <3>1. initproc \in Slots
      BY ProcAssumption DEF Slots, initproc
    <3> QED
      BY <3>1, <2>2, <2>11 DEF Inv, FamilyOK, Alive
  <2>18. FreshOK'
    <3> SUFFICES ASSUME NEW k \in Slots, proc'[k].state \in {"UNUSED", "EMBRYO"}
                 PROVE  proc'[k].parent = None /\ proc'[k].at = "user"
      BY DEF FreshOK
    <3>1. k # i
      BY <2>12
    <3>2. CASE k = j
      BY <2>10, <2>11, <3>1, <3>2
    <3>3. CASE k # j
      BY <2>11, <3>1, <3>3 DEF Inv, FreshOK
    <3> QED
      BY <3>2, <3>3
  <2>19. ForkOK'
    <3>1. \A k \in Slots : proc'[k].at = "fork" /\ k # i => proc[k].at = "fork"
      BY <2>11
    <3>2. \A k \in Slots : proc[k].at = "fork" => child[k] # j /\ k # j
      BY <2>2, <2>10 DEF Inv, ForkOK
    <3> QED
      BY <2>2, <2>11, <2>12, <2>13, <3>1, <3>2 DEF Inv, ForkOK
  <2>20. WaitChannel'
    BY <2>2, <2>11, <2>12 DEF Inv, WaitChannel
  <2> QED
    BY <2>14, <2>15, <2>16, <2>17, <2>18, <2>19, <2>20 DEF Inv, TableSafe
<1> QED
  BY <1>3, <1>4

\* fork() gives the slot back when memory runs out.
LEMMA ForkFailKeeps == ASSUME Inv, NEW i \in Slots, forkFail(i) PROVE Inv'
<1>1. /\ proc \in [Slots -> Record] /\ desktop \in 0 .. MaxPid /\ panic \in BOOLEAN
      /\ nextpid \in 2 .. MaxPid + 1 /\ child \in [Slots -> Slots \cup {None}]
  BY DEF Inv, TableSafe, TypeOK, Record
<1> DEFINE j == child[i]
           p == [proc[j] EXCEPT !.state = "UNUSED"]
           q == [proc[i] EXCEPT !.at = "user"]
<1>2. proc[i].state = "RUNNING" /\ proc[i].at = "fork"
  BY DEF forkFail, Running
<1>3. /\ j \in Slots /\ proc[j].state = "EMBRYO" /\ j # i
      /\ \A k \in Slots \ {i} : proc[k].at = "fork" => child[k] # j
  BY <1>2 DEF Inv, ForkOK
<1>4. /\ proc' = [proc EXCEPT ![j].state = "UNUSED", ![i].at = "user"]
      /\ child' = [child EXCEPT ![i] = None] /\ panic' = (i = initproc)
      /\ UNCHANGED <<nextpid, desktop>>
  BY DEF forkFail
<1> HIDE DEF j
<1>5. proc' = [proc EXCEPT ![j] = p, ![i] = q]
  BY <1>1, <1>3, <1>4
<1>6. p \in Record /\ q \in Record
  BY <1>1, <1>3 DEF Record
<1>7. proc' \in [Slots -> Record]
  BY <1>1, <1>5, <1>6
<1>8. \A k \in Slots : proc'[k] = IF k = i THEN q ELSE IF k = j THEN p ELSE proc[k]
  BY <1>1, <1>3, <1>5
<1>9. /\ p.state = "UNUSED" /\ p.parent = proc[j].parent /\ p.at = proc[j].at
      /\ q.state = "RUNNING" /\ q.parent = proc[i].parent /\ q.at = "user"
  BY <1>1, <1>2, <1>3 DEF Record
<1> HIDE DEF p, q
<1>10. proc[j].parent = None /\ proc[j].at = "user"
  BY <1>3 DEF Inv, FreshOK
<1>11. \A k \in Slots :
          /\ proc'[k].parent = proc[k].parent
          /\ k # i => proc'[k].at = proc[k].at
          /\ k # j => proc'[k].state = proc[k].state
          /\ k \notin {i, j} => proc'[k] = proc[k]
  BY <1>2, <1>8, <1>9
<1>12. proc'[j].state = "UNUSED" /\ proc'[i].at = "user" /\ proc'[i].state = "RUNNING"
  BY <1>3, <1>8, <1>9
<1>13. \A k \in Slots \ {i} : child'[k] = child[k]
  BY <1>1, <1>4
<1>14. TypeOK'
  BY <1>1, <1>4, <1>7 DEF TypeOK, Record
<1>15. ParentsAlive'
  <2> SUFFICES ASSUME NEW k \in Slots \ {initproc},
                      Alive(k)' \/ proc'[k].state = "ZOMBIE"
               PROVE  /\ proc'[k].parent # None
                      /\ proc'[proc'[k].parent].state \in {"RUNNABLE", "RUNNING", "SLEEPING"}
    BY DEF ParentsAlive, Alive
  <2>1. k # j /\ proc'[k].state = proc[k].state /\ proc'[k].parent = proc[k].parent
    BY <1>11, <1>12 DEF Alive
  <2>2. proc[k].parent # None /\ Alive(proc[k].parent)
    BY <2>1 DEF Inv, TableSafe, ParentsAlive, Alive
  <2>3. proc[k].parent \in Slots
    BY <1>1, <2>2 DEF Record
  <2> QED
    BY <1>3, <1>11, <2>1, <2>2, <2>3 DEF Alive
<1>16. NoMissedExit'
  <2> SUFFICES ASSUME NEW k \in Slots, proc'[k].state = "SLEEPING", proc'[k].at = "wait"
               PROVE  /\ Children(k)' # {} /\ Zombies(k)' = {}
                      /\ ~proc'[k].killed
    BY DEF NoMissedExit, InState
  <2>1. k \notin {i, j} /\ proc'[k] = proc[k]
    BY <1>3, <1>11, <1>12
  <2>2. Children(k) # {} /\ Zombies(k) = {} /\ ~proc[k].killed
    BY <2>1 DEF Inv, TableSafe, NoMissedExit, InState
  <2>3. Children(k)' = Children(k)
    BY <1>11 DEF Children
  <2>4. Zombies(k)' = {}
    BY <1>11, <1>12, <2>2, <2>3 DEF Zombies, Children
  <2> QED
    BY <2>1, <2>2, <2>3, <2>4
<1>17. FamilyOK'
  <2>1. initproc \in Slots
    BY ProcAssumption DEF Slots, initproc
  <2> QED
    BY <2>1, <1>3, <1>11 DEF Inv, FamilyOK, Alive
<1>18. FreshOK'
  <2> SUFFICES ASSUME NEW k \in Slots, proc'[k].state \in {"UNUSED", "EMBRYO"}
               PROVE  proc'[k].parent = None /\ proc'[k].at = "user"
    BY DEF FreshOK
  <2>1. k # i
    BY <1>12
  <2>2. CASE k = j
    BY <1>10, <1>11, <2>1, <2>2
  <2>3. CASE k # j
    BY <1>11, <2>1, <2>3 DEF Inv, FreshOK
  <2> QED
    BY <2>2, <2>3
<1>19. ForkOK'
  <2>1. \A k \in Slots : proc'[k].at = "fork" => k # i /\ k # j /\ proc[k].at = "fork"
    BY <1>10, <1>11, <1>12
  <2> QED
    BY <1>3, <1>11, <1>13, <2>1 DEF Inv, ForkOK
<1>20. WaitChannel'
  BY <1>3, <1>11, <1>12 DEF Inv, WaitChannel
<1> QED
  BY <1>14, <1>15, <1>16, <1>17, <1>18, <1>19, <1>20 DEF Inv, TableSafe

\* fork() makes the slot a process, and the caller its parent.
LEMMA ForkKeeps == ASSUME Inv, NEW i \in Slots, fork(i) PROVE Inv'
<1>1. /\ proc \in [Slots -> Record] /\ desktop \in 0 .. MaxPid /\ panic \in BOOLEAN
      /\ nextpid \in 2 .. MaxPid + 1 /\ child \in [Slots -> Slots \cup {None}]
  BY DEF Inv, TableSafe, TypeOK, Record
<1> DEFINE j == child[i]
           p == [proc[j] EXCEPT !.state = "RUNNABLE", !.parent = i, !.at = "user"]
           q == [proc[i] EXCEPT !.at = "user"]
<1>2. proc[i].state = "RUNNING" /\ proc[i].at = "fork"
  BY DEF fork, Running
<1>3. /\ j \in Slots /\ proc[j].state = "EMBRYO" /\ j # i
      /\ \A k \in Slots \ {i} : proc[k].at = "fork" => child[k] # j
  BY <1>2 DEF Inv, ForkOK
<1>4. /\ proc' = [proc EXCEPT ![j].state = "RUNNABLE", ![j].parent = i, ![j].at = "user",
                              ![i].at = "user"]
      /\ child' = [child EXCEPT ![i] = None]
      /\ desktop' = IF i = initproc THEN proc[j].pid ELSE desktop
      /\ UNCHANGED <<nextpid, panic>>
  BY DEF fork
<1> HIDE DEF j
<1>5. proc' = [proc EXCEPT ![j] = p, ![i] = q]
  BY <1>1, <1>3, <1>4
<1>6. p \in Record /\ q \in Record
  BY <1>1, <1>3 DEF Record
<1>7. proc' \in [Slots -> Record]
  BY <1>1, <1>5, <1>6
<1>8. \A k \in Slots : proc'[k] = IF k = i THEN q ELSE IF k = j THEN p ELSE proc[k]
  BY <1>1, <1>3, <1>5
<1>9. /\ p.state = "RUNNABLE" /\ p.parent = i /\ p.at = "user"
      /\ q.state = "RUNNING" /\ q.parent = proc[i].parent /\ q.at = "user"
  BY <1>1, <1>2, <1>3 DEF Record
<1> HIDE DEF p, q
<1>10. proc[j].parent = None /\ proc[j].at = "user"
  BY <1>3 DEF Inv, FreshOK
<1>11. \A k \in Slots :
          /\ proc'[k].parent = IF k = j THEN i ELSE proc[k].parent
          /\ k # i => proc'[k].at = proc[k].at
          /\ k # j => proc'[k].state = proc[k].state
          /\ k \notin {i, j} => proc'[k] = proc[k]
  BY <1>2, <1>3, <1>8, <1>9, <1>10
<1>12. proc'[j].state = "RUNNABLE" /\ proc'[i].at = "user" /\ proc'[i].state = "RUNNING"
  BY <1>3, <1>8, <1>9
<1>13. \A k \in Slots \ {i} : child'[k] = child[k]
  BY <1>1, <1>4
<1>14. TypeOK'
  <2>1. desktop' \in 0 .. MaxPid
    BY <1>1, <1>3, <1>4 DEF Record
  <2> QED
    BY <1>1, <1>4, <1>7, <2>1 DEF TypeOK, Record
<1>15. ParentsAlive'
  <2> SUFFICES ASSUME NEW k \in Slots \ {initproc},
                      Alive(k)' \/ proc'[k].state = "ZOMBIE"
               PROVE  /\ proc'[k].parent # None
                      /\ proc'[proc'[k].parent].state \in {"RUNNABLE", "RUNNING", "SLEEPING"}
    BY DEF ParentsAlive, Alive
  <2>1. CASE k = j
    <3>1. i # None
      BY ProcAssumption DEF Slots, None
    <3> QED
      BY <1>11, <1>12, <2>1, <3>1
  <2>2. CASE k # j
    <3>1. proc'[k].state = proc[k].state /\ proc'[k].parent = proc[k].parent
      BY <1>11, <2>2
    <3>2. proc[k].parent # None /\ Alive(proc[k].parent)
      BY <3>1 DEF Inv, TableSafe, ParentsAlive, Alive
    <3>3. proc[k].parent \in Slots
      BY <1>1, <3>2 DEF Record
    <3> QED
      BY <1>3, <1>11, <3>1, <3>2, <3>3 DEF Alive
  <2> QED
    BY <2>1, <2>2
<1>16. NoMissedExit'
  <2> SUFFICES ASSUME NEW k \in Slots, proc'[k].state = "SLEEPING", proc'[k].at = "wait"
               PROVE  /\ Children(k)' # {} /\ Zombies(k)' = {}
                      /\ ~proc'[k].killed
    BY DEF NoMissedExit, InState
  <2>1. k \notin {i, j} /\ proc'[k] = proc[k]
    BY <1>3, <1>11, <1>12
  <2>2. Children(k) # {} /\ Zombies(k) = {} /\ ~proc[k].killed
    BY <2>1 DEF Inv, TableSafe, NoMissedExit, InState
  <2>3. k # None
    BY ProcAssumption DEF Slots, None
  <2>4. Children(k)' = Children(k)
    BY <1>10, <1>11, <2>1, <2>3 DEF Children
  <2>5. Zombies(k)' = {}
    BY <1>11, <1>12, <2>2, <2>4 DEF Zombies, Children
  <2> QED
    BY <2>1, <2>2, <2>4, <2>5
<1>17. FamilyOK'
  <2>1. initproc \in Slots
    BY ProcAssumption DEF Slots, initproc
  <2>2. j # initproc
    BY <1>3 DEF Inv, FamilyOK, Alive
  <2> QED
    BY <2>1, <2>2, <1>3, <1>11 DEF Inv, FamilyOK, Alive
<1>18. FreshOK'
  BY <1>11, <1>12 DEF Inv, FreshOK
<1>19. ForkOK'
  <2>1. \A k \in Slots : proc'[k].at = "fork" => k # i /\ k # j /\ proc[k].at = "fork"
    BY <1>10, <1>11, <1>12
  <2> QED
    BY <1>3, <1>11, <1>13, <2>1 DEF Inv, ForkOK
<1>20. WaitChannel'
  BY <1>3, <1>11, <1>12 DEF Inv, WaitChannel
<1> QED
  BY <1>14, <1>15, <1>16, <1>17, <1>18, <1>19, <1>20 DEF Inv, TableSafe

\* exit() wakes the parent, and init if it inherits a zombie, before anybody can look.
LEMMA ExitKeeps == ASSUME Inv, NEW i \in Slots, exit(i) PROVE Inv'
<1>1. /\ proc \in [Slots -> Record] /\ desktop \in 0 .. MaxPid /\ panic \in BOOLEAN
      /\ nextpid \in 2 .. MaxPid + 1 /\ child \in [Slots -> Slots \cup {None}]
  BY DEF Inv, TableSafe, TypeOK, Record
<1>2. /\ proc[i].state = "RUNNING" /\ proc[i].at = "user"
      /\ UNCHANGED <<nextpid, child, desktop>>
  BY DEF exit, Running
<1>3. initproc \in Slots /\ \A k \in Slots : k # None
  BY ProcAssumption DEF Slots, initproc, None
<1>4. CASE i = initproc
  <2>1. proc' = proc /\ panic' = TRUE
    BY <1>4 DEF exit
  <2>2. ASSUME NEW k \in Slots PROVE Quiet(k)
    BY <2>1 DEF Quiet, Inv, ForkOK, Alive
  <2> QED
    BY <1>1, <1>2, <2>1, <2>2, QuietStep
<1>5. CASE i # initproc
  <2> DEFINE Woken(k) == proc[k].state = "SLEEPING" /\ proc[k].chan \in toWake(i)
             T == wakeup1(proc, toWake(i))
             S == adopted(T, i)
  <2>1. proc' = [S EXCEPT ![i].state = "ZOMBIE"] /\ UNCHANGED panic
    BY <1>5 DEF exit
  <2>2. \A k \in Slots :
           T[k] = IF Woken(k) THEN [proc[k] EXCEPT !.state = "RUNNABLE"] ELSE proc[k]
    BY DEF wakeup1
  <2>3. T \in [Slots -> Record]
    <3> SUFFICES ASSUME NEW k \in Slots PROVE T[k] \in Record
      BY DEF wakeup1
    <3>1. [proc[k] EXCEPT !.state = "RUNNABLE"] \in Record /\ proc[k] \in Record
      BY <1>1 DEF Record
    <3> HIDE DEF T, Woken
    <3> QED
      BY <2>2, <3>1
  <2>4. \A k \in Slots :
           /\ T[k].state = IF Woken(k) THEN "RUNNABLE" ELSE proc[k].state
           /\ T[k].parent = proc[k].parent /\ T[k].at = proc[k].at
           /\ T[k].chan = proc[k].chan /\ T[k].killed = proc[k].killed
    BY <1>1, <2>2 DEF Record
  <2> HIDE DEF T, Woken
  <2>5. \A k \in Slots :
           S[k] = IF T[k].parent = i THEN [T[k] EXCEPT !.parent = initproc] ELSE T[k]
    BY DEF adopted
  <2>6. S \in [Slots -> Record]
    <3> SUFFICES ASSUME NEW k \in Slots PROVE S[k] \in Record
      BY DEF adopted
    <3>1. [T[k] EXCEPT !.parent = initproc] \in Record /\ T[k] \in Record
      BY <1>3, <2>3 DEF Record
    <3> HIDE DEF S
    <3> QED
      BY <2>5, <3>1
  <2>7. \A k \in Slots :
           /\ S[k].parent = IF T[k].parent = i THEN initproc ELSE T[k].parent
           /\ S[k].state = T[k].state /\ S[k].at = T[k].at
           /\ S[k].chan = T[k].chan /\ S[k].killed = T[k].killed
    BY <2>3, <2>5 DEF Record
  <2> HIDE DEF S
  <2>8. proc' = [S EXCEPT ![i] = [S[i] EXCEPT !.state = "ZOMBIE"]]
    BY <2>1, <2>6
  <2>9. [S[i] EXCEPT !.state = "ZOMBIE"] \in Record
    BY <2>6 DEF Record
  <2>10. proc' \in [Slots -> Record]
    BY <2>6, <2>8, <2>9
  <2>11. \A k \in Slots :
            /\ proc'[k].state = IF k = i THEN "ZOMBIE" ELSE S[k].state
            /\ proc'[k].parent = S[k].parent /\ proc'[k].at = S[k].at
            /\ proc'[k].chan = S[k].chan /\ proc'[k].killed = S[k].killed
    BY <2>6, <2>8 DEF Record
  <2>12. \A k \in Slots :
            /\ proc'[k].state = IF k = i THEN "ZOMBIE"
                                ELSE IF Woken(k) THEN "RUNNABLE" ELSE proc[k].state
            /\ proc'[k].parent = IF proc[k].parent = i THEN initproc ELSE proc[k].parent
            /\ proc'[k].at = proc[k].at /\ proc'[k].chan = proc[k].chan
            /\ proc'[k].killed = proc[k].killed
    BY <2>4, <2>7, <2>11
  <2>13. proc[i].parent # i /\ Alive(initproc)
    BY DEF Inv, FamilyOK
  <2>14. \A k \in Slots \ {i} :
            /\ Alive(k) => proc'[k].state \in {"RUNNABLE", "RUNNING", "SLEEPING"}
            /\ ~Alive(k) => proc'[k].state = proc[k].state
            /\ proc'[k].state = "SLEEPING" => proc[k].state = "SLEEPING" /\ ~Woken(k)
    BY <2>12 DEF Alive, Woken
  <2>15. TypeOK'
    BY <1>1, <1>2, <2>1, <2>10 DEF TypeOK, Record
  <2>16. ParentsAlive'
    <3> SUFFICES ASSUME NEW k \in Slots \ {initproc},
                        Alive(k)' \/ proc'[k].state = "ZOMBIE"
                 PROVE  /\ proc'[k].parent # None
                        /\ proc'[proc'[k].parent].state \in {"RUNNABLE", "RUNNING", "SLEEPING"}
      BY DEF ParentsAlive, Alive
    <3>1. Alive(k) \/ proc[k].state = "ZOMBIE"
      BY <1>2, <2>14 DEF Alive
    <3>2. proc[k].parent # None /\ Alive(proc[k].parent) /\ proc[k].parent \in Slots
      BY <1>1, <3>1 DEF Inv, TableSafe, ParentsAlive, Record
    <3>3. CASE proc[k].parent = i
      BY <1>3, <1>5, <2>12, <2>13, <2>14, <3>3
    <3>4. CASE proc[k].parent # i
      BY <2>12, <2>14, <3>2, <3>4
    <3> QED
      BY <3>3, <3>4
  <2>17. NoMissedExit'
    <3> SUFFICES ASSUME NEW k \in Slots, proc'[k].state = "SLEEPING", proc'[k].at = "wait"
                 PROVE  /\ Children(k)' # {} /\ Zombies(k)' = {}
                        /\ ~proc'[k].killed
      BY DEF NoMissedExit, InState
    <3>1. k # i /\ proc[k].state = "SLEEPING" /\ proc[k].at = "wait" /\ ~Woken(k)
      BY <2>12, <2>14
    <3>2. Children(k) # {} /\ Zombies(k) = {} /\ ~proc[k].killed
      BY <3>1 DEF Inv, TableSafe, NoMissedExit, InState
    <3>3. k \notin toWake(i)
      BY <3>1 DEF Inv, WaitChannel, Woken
    <3>4. Children(k)' # {}
      BY <2>12, <3>1, <3>2 DEF Children
    <3>5. ASSUME NEW z \in Slots, proc'[z].parent = k, proc'[z].state = "ZOMBIE"
          PROVE  FALSE
      <4>1. CASE z = i
        BY <2>12, <2>13, <3>3, <3>5, <4>1 DEF toWake
      <4>2. CASE z # i /\ proc[z].parent = k
        BY <2>14, <3>2, <3>5, <4>2 DEF Zombies, Children, Alive
      <4>3. CASE z # i /\ proc[z].parent # k
        <5>1. proc[z].parent = i /\ k = initproc
          BY <2>12, <3>5, <4>3
        <5>2. proc[z].state = "ZOMBIE"
          BY <2>14, <3>5, <4>3 DEF Alive
        <5> QED
          BY <3>3, <5>1, <5>2 DEF toWake, InState
      <4> QED
        BY <4>1, <4>2, <4>3
    <3>6. Zombies(k)' = {}
      BY <3>5 DEF Zombies, Children
    <3> QED
      BY <2>12, <3>2, <3>4, <3>6
  <2>18. FamilyOK'
    <3>1. proc'[initproc].parent = None
      BY <1>3, <2>12 DEF Inv, FamilyOK
    <3>2. \A k \in Slots : proc'[k].parent # k
      BY <1>3, <2>12, <3>1 DEF Inv, FamilyOK
    <3> QED
      BY <1>3, <1>5, <2>13, <2>14, <3>1, <3>2 DEF FamilyOK, Alive
  <2>19. FreshOK'
    BY <1>3, <2>12, <2>14 DEF Inv, FreshOK, Alive
  <2>20. ForkOK'
    <3>1. \A k \in Slots : proc'[k].at = "fork" =>
             /\ k # i /\ proc[k].at = "fork" /\ proc'[k].state \in {"RUNNABLE", "RUNNING"}
      BY <1>2, <2>12 DEF Inv, ForkOK
    <3>2. \A k \in Slots : proc[k].state = "EMBRYO" => proc'[k].state = "EMBRYO"
      BY <1>2, <2>14 DEF Alive
    <3> QED
      BY <1>2, <3>1, <3>2 DEF Inv, ForkOK
  <2>21. WaitChannel'
    BY <2>12, <2>14 DEF Inv, WaitChannel
  <2> QED
    BY <2>15, <2>16, <2>17, <2>18, <2>19, <2>20, <2>21 DEF Inv, TableSafe
<1> QED
  BY <1>4, <1>5

\* wait() reaps a zombie: the slot is free again, and nobody else had it for a child.
LEMMA ReapKeeps == ASSUME Inv, NEW i \in Slots, wait(i), Zombies(i) # {} PROVE Inv'
<1>1. /\ proc \in [Slots -> Record] /\ desktop \in 0 .. MaxPid /\ panic \in BOOLEAN
      /\ nextpid \in 2 .. MaxPid + 1 /\ child \in [Slots -> Slots \cup {None}]
  BY DEF Inv, TableSafe, TypeOK, Record
<1> DEFINE dead == Zombies(i)
           j == CHOOSE k \in dead : \A l \in dead : k <= l
           q == [proc[i] EXCEPT !.at = "user", !.chan = None]
<1>2. proc[i].state = "RUNNING" /\ proc[i].at \in {"user", "wait"}
  BY DEF wait, InUser, Running
<1>3. j \in dead
  BY FirstSlot DEF Zombies, Children
<1>4. /\ proc' = [proc EXCEPT ![j] = Unused, ![i].at = "user", ![i].chan = None]
      /\ desktop' = afterWait(i, proc[j].pid) /\ UNCHANGED <<nextpid, child, panic>>
  BY DEF wait
<1> HIDE DEF j, dead
<1>5. j \in Slots /\ proc[j].state = "ZOMBIE" /\ proc[j].parent = i /\ j # i
  BY <1>2, <1>3 DEF dead, Zombies, Children
<1>6. initproc \in Slots /\ 0 \in 0 .. MaxPid /\ \A k \in Slots : k # None
  BY ProcAssumption DEF Slots, initproc, None
<1>7. proc' = [proc EXCEPT ![j] = Unused, ![i] = q]
  BY <1>1, <1>4, <1>5
<1>8. q \in Record /\ Unused \in Record
  BY <1>1, <1>6 DEF Record, Unused
<1>9. proc' \in [Slots -> Record]
  BY <1>1, <1>7, <1>8
<1>10. \A k \in Slots : proc'[k] = IF k = i THEN q ELSE IF k = j THEN Unused ELSE proc[k]
  BY <1>1, <1>5, <1>7
<1>11. /\ q.state = "RUNNING" /\ q.parent = proc[i].parent /\ q.at = "user"
       /\ Unused.state = "UNUSED" /\ Unused.parent = None /\ Unused.at = "user"
  BY <1>1, <1>2 DEF Record, Unused
<1> HIDE DEF q
<1>12. \A k \in Slots :
          /\ proc'[k].parent = IF k = j THEN None ELSE proc[k].parent
          /\ k # j => proc'[k].state = proc[k].state
          /\ k \notin {i, j} => proc'[k] = proc[k]
  BY <1>2, <1>5, <1>10, <1>11
<1>13. /\ proc'[j].state = "UNUSED" /\ proc'[j].at = "user"
       /\ proc'[i].state = "RUNNING" /\ proc'[i].at = "user"
  BY <1>5, <1>10, <1>11
<1>14. TypeOK'
  <2>1. desktop' \in 0 .. MaxPid
    BY <1>1, <1>4, <1>6 DEF afterWait
  <2> QED
    BY <1>1, <1>4, <1>9, <2>1 DEF TypeOK, Record
<1>15. ParentsAlive'
  <2> SUFFICES ASSUME NEW k \in Slots \ {initproc},
                      Alive(k)' \/ proc'[k].state = "ZOMBIE"
               PROVE  /\ proc'[k].parent # None
                      /\ proc'[proc'[k].parent].state \in {"RUNNABLE", "RUNNING", "SLEEPING"}
    BY DEF ParentsAlive, Alive
  <2>1. k # j /\ proc'[k].state = proc[k].state /\ proc'[k].parent = proc[k].parent
    BY <1>12, <1>13 DEF Alive
  <2>2. proc[k].parent # None /\ Alive(proc[k].parent)
    BY <2>1 DEF Inv, TableSafe, ParentsAlive, Alive
  <2>3. proc[k].parent \in Slots /\ proc[k].parent # j
    BY <1>1, <1>5, <2>2 DEF Record, Alive
  <2> QED
    BY <1>12, <2>1, <2>2, <2>3 DEF Alive
<1>16. NoMissedExit'
  <2> SUFFICES ASSUME NEW k \in Slots, proc'[k].state = "SLEEPING", proc'[k].at = "wait"
               PROVE  /\ Children(k)' # {} /\ Zombies(k)' = {}
                      /\ ~proc'[k].killed
    BY DEF NoMissedExit, InState
  <2>1. k \notin {i, j} /\ proc'[k] = proc[k]
    BY <1>5, <1>12, <1>13
  <2>2. Children(k) # {} /\ Zombies(k) = {} /\ ~proc[k].killed
    BY <2>1 DEF Inv, TableSafe, NoMissedExit, InState
  <2>3. Children(k)' = Children(k)
    BY <1>5, <1>6, <1>12, <2>1 DEF Children
  <2>4. Zombies(k)' = {}
    BY <1>12, <1>13, <2>2, <2>3 DEF Zombies, Children
  <2> QED
    BY <2>1, <2>2, <2>3, <2>4
<1>17. FamilyOK'
  <2>1. j # initproc
    BY <1>5 DEF Inv, FamilyOK, Alive
  <2> QED
    BY <2>1, <1>6, <1>12 DEF Inv, FamilyOK, Alive
<1>18. FreshOK'
  <2> SUFFICES ASSUME NEW k \in Slots, proc'[k].state \in {"UNUSED", "EMBRYO"}
               PROVE  proc'[k].parent = None /\ proc'[k].at = "user"
    BY DEF FreshOK
  <2>1. k # i
    BY <1>13
  <2>2. CASE k = j
    BY <1>12, <1>13, <2>2
  <2>3. CASE k # j
    BY <1>12, <2>1, <2>3 DEF Inv, FreshOK
  <2> QED
    BY <2>2, <2>3
<1>19. ForkOK'
  <2>1. \A k \in Slots : proc'[k].at = "fork" => k # i /\ k # j /\ proc[k].at = "fork"
    BY <1>12, <1>13
  <2>2. \A k \in Slots : proc[k].state = "EMBRYO" => proc'[k].state = "EMBRYO"
    BY <1>5, <1>12
  <2>3. child' = child
    BY <1>4
  <2>4. \A k \in Slots : proc'[k].at = "fork" => proc'[k] = proc[k]
    BY <1>12, <2>1
  <2>5. ForkOK
    BY DEF Inv
  <2> QED
    BY <2>1, <2>2, <2>3, <2>4, <2>5 DEF ForkOK
<1>20. WaitChannel'
  BY <1>5, <1>12, <1>13 DEF Inv, WaitChannel
<1> QED
  BY <1>14, <1>15, <1>16, <1>17, <1>18, <1>19, <1>20 DEF Inv, TableSafe

\* wait() goes to sleep only if there is a child, none of them a zombie, and it is not killed.
LEMMA FallAsleepKeeps ==
  ASSUME Inv, NEW i \in Slots, wait(i), Zombies(i) = {}, Children(i) # {}, ~proc[i].killed
  PROVE  Inv'
<1>1. /\ proc \in [Slots -> Record] /\ desktop \in 0 .. MaxPid /\ panic \in BOOLEAN
      /\ nextpid \in 2 .. MaxPid + 1 /\ child \in [Slots -> Slots \cup {None}]
  BY DEF Inv, TableSafe, TypeOK, Record
<1> DEFINE q == [proc[i] EXCEPT !.state = "SLEEPING", !.chan = i, !.at = "wait"]
<1>2. proc[i].state = "RUNNING" /\ proc[i].at \in {"user", "wait"}
  BY DEF wait, InUser, Running
<1>3. /\ proc' = [proc EXCEPT ![i].state = "SLEEPING", ![i].chan = i, ![i].at = "wait"]
      /\ UNCHANGED <<desktop, nextpid, child, panic>>
  BY DEF wait
<1>4. proc' = [proc EXCEPT ![i] = q]
  BY <1>1, <1>3
<1>5. q \in Record
  BY <1>1 DEF Record
<1>6. proc' \in [Slots -> Record]
  BY <1>1, <1>4, <1>5
<1>7. \A k \in Slots : proc'[k] = IF k = i THEN q ELSE proc[k]
  BY <1>1, <1>4
<1>8. /\ q.state = "SLEEPING" /\ q.parent = proc[i].parent /\ q.at = "wait" /\ q.chan = i
      /\ q.killed = proc[i].killed
  BY <1>1 DEF Record
<1> HIDE DEF q
<1>9. \A k \in Slots : proc'[k].parent = proc[k].parent /\ (k # i => proc'[k] = proc[k])
  BY <1>7, <1>8
<1>10. Alive(i) /\ \A k \in Slots : /\ Alive(k)' <=> Alive(k)
                                    /\ proc'[k].state = "ZOMBIE" <=> proc[k].state = "ZOMBIE"
  BY <1>2, <1>7, <1>8 DEF Alive
<1>11. TypeOK'
  BY <1>1, <1>3, <1>6 DEF TypeOK, Record
<1>12. ParentsAlive'
  <2> SUFFICES ASSUME NEW k \in Slots \ {initproc},
                      Alive(k)' \/ proc'[k].state = "ZOMBIE"
               PROVE  /\ proc'[k].parent # None
                      /\ proc'[proc'[k].parent].state \in {"RUNNABLE", "RUNNING", "SLEEPING"}
    BY DEF ParentsAlive, Alive
  <2>1. proc[k].parent # None /\ Alive(proc[k].parent)
    BY <1>10 DEF Inv, TableSafe, ParentsAlive
  <2>2. proc[k].parent \in Slots
    BY <1>1, <2>1 DEF Record
  <2> QED
    BY <1>9, <1>10, <2>1, <2>2 DEF Alive
<1>13. NoMissedExit'
  <2> SUFFICES ASSUME NEW k \in Slots, proc'[k].state = "SLEEPING", proc'[k].at = "wait"
               PROVE  /\ Children(k)' # {} /\ Zombies(k)' = {}
                      /\ ~proc'[k].killed
    BY DEF NoMissedExit, InState
  <2>1. Children(k) # {} /\ Zombies(k) = {} /\ ~proc[k].killed
    BY <1>9 DEF Inv, TableSafe, NoMissedExit, InState
  <2>2. Children(k)' = Children(k) /\ Zombies(k)' = Zombies(k)
    BY <1>9, <1>10 DEF Children, Zombies
  <2> QED
    BY <1>7, <1>8, <2>1, <2>2
<1>14. FamilyOK'
  BY <1>9, <1>10, ProcAssumption DEF Inv, FamilyOK, Slots, initproc
<1>15. FreshOK'
  BY <1>7, <1>8 DEF Inv, FreshOK
<1>16. ForkOK'
  <2>1. \A k \in Slots : proc'[k].at = "fork" => k # i /\ proc[k].at = "fork"
    BY <1>7, <1>8
  <2>2. \A k \in Slots : proc[k].state = "EMBRYO" => proc'[k].state = "EMBRYO"
    BY <1>2, <1>7
  <2>3. child' = child
    BY <1>3
  <2>4. \A k \in Slots : proc'[k].at = "fork" => proc'[k] = proc[k]
    BY <1>9, <2>1
  <2>5. ForkOK
    BY DEF Inv
  <2> QED
    BY <2>1, <2>2, <2>3, <2>4, <2>5 DEF ForkOK
<1>17. WaitChannel'
  BY <1>7, <1>8 DEF Inv, WaitChannel
<1> QED
  BY <1>11, <1>12, <1>13, <1>14, <1>15, <1>16, <1>17 DEF Inv, TableSafe

\* wait() as a whole: it reaps, gives up or sleeps.
LEMMA WaitKeeps == ASSUME Inv, NEW i \in Slots, wait(i) PROVE Inv'
<1>1. CASE Zombies(i) # {}
  BY <1>1, ReapKeeps
<1>2. CASE Zombies(i) = {} /\ Children(i) # {} /\ ~proc[i].killed
  BY <1>2, FallAsleepKeeps
<1>3. CASE Zombies(i) = {} /\ (Children(i) = {} \/ proc[i].killed)
  <2>1. proc \in [Slots -> Record] /\ desktop \in 0 .. MaxPid /\ panic \in BOOLEAN
    BY DEF Inv, TableSafe, TypeOK, Record
  <2> DEFINE q == [proc[i] EXCEPT !.at = "user", !.chan = None]
  <2>2. proc[i].state = "RUNNING"
    BY DEF wait, InUser, Running
  <2>3. /\ proc' = [proc EXCEPT ![i].at = "user", ![i].chan = None]
        /\ desktop' = afterWait(i, None) /\ UNCHANGED <<nextpid, child, panic>>
    BY <1>3 DEF wait
  <2>4. proc' = [proc EXCEPT ![i] = q]
    BY <2>1, <2>3
  <2>5. q \in Record
    BY <2>1 DEF Record
  <2>6. proc' \in [Slots -> Record]
    BY <2>1, <2>4, <2>5
  <2>7. \A k \in Slots : proc'[k] = IF k = i THEN q ELSE proc[k]
    BY <2>1, <2>4
  <2>8. q.state = "RUNNING" /\ q.parent = proc[i].parent /\ q.at = "user"
    BY <2>1, <2>2 DEF Record
  <2>9. desktop' \in 0 .. MaxPid
    BY <2>1, <2>3, ProcAssumption DEF afterWait
  <2> HIDE DEF q
  <2>10. ASSUME NEW k \in Slots PROVE Quiet(k)
    BY <2>2, <2>7, <2>8 DEF Quiet, Inv, ForkOK, Alive
  <2> QED
    BY <2>1, <2>3, <2>6, <2>9, <2>10, QuietStep
<1> QED
  BY <1>1, <1>2, <1>3

-----------------------------------------------------------------------------
\* Every step keeps the invariant.
LEMMA NextInv == Inv /\ [Next]_vars => Inv'
<1> SUFFICES ASSUME Inv, [Next]_vars PROVE Inv'
  OBVIOUS
<1>1. CASE tick
  BY <1>1, TickKeeps
<1>2. CASE UNCHANGED vars
  <2>1. /\ proc \in [Slots -> Record] /\ desktop \in 0 .. MaxPid /\ panic \in BOOLEAN
        /\ UNCHANGED <<proc, nextpid, child, desktop, panic>>
    BY <1>2 DEF Inv, TableSafe, TypeOK, Record, vars
  <2>2. ASSUME NEW k \in Slots PROVE Quiet(k)
    BY <2>1 DEF Quiet, Inv, ForkOK, Alive
  <2> QED
    BY <2>1, <2>2, QuietStep
<1>3. ASSUME NEW i \in Slots, scheduler(i) \/ yield(i) PROVE Inv'
  BY <1>3, SchedulerKeeps, YieldKeeps
<1>4. ASSUME NEW i \in Slots, Step(i) PROVE Inv'
  BY <1>4, AllocprocKeeps, ForkFailKeeps, ForkKeeps, ExitKeeps, WaitKeeps, SysSleepKeeps,
     SleepKeeps DEF Step
<1>5. ASSUME NEW i \in Slots, NEW pid \in Targets, kill(i, pid) PROVE Inv'
  BY <1>5, KillKeeps
<1> QED
  BY <1>1, <1>2, <1>3, <1>4, <1>5 DEF Next

\* proc.c:181-312: for every size of the table, every number of CPUs and every order of
\* fork, exit, wait, sleep, kill and the clock, a process has a parent that can wait for
\* it, and no process sleeps in wait() with a zombie to reap, without a child or killed.
THEOREM NoExitMissed == Spec => []TableSafe
<1>1. Inv => TableSafe
  BY DEF Inv
<1> QED
  BY <1>1, InitInv, NextInv, PTL DEF Spec

-----------------------------------------------------------------------------
(* Open files and descriptors.  A table of descriptors, as a value. *)

Tables == [Procs -> [Fds -> Entries \cup {none}]]

\* Who names file f in table o; the descriptors of p that do.
namedIn(o, f) == {x \in Procs \X Fds : o[x[1]][x[2]] = f}
row(o, p, f) == {fd \in Fds : o[p][fd] = f}

\* Descriptor d of p is for f now.
entered(o, p, d, f) == [o EXCEPT ![p][d] = f]

LEMMA NamingFinite ==
  /\ \A o, f : IsFiniteSet(namedIn(o, f)) /\ Cardinality(namedIn(o, f)) \in Nat
  /\ \A o, p, f : IsFiniteSet(row(o, p, f)) /\ Cardinality(row(o, p, f)) \in Nat
  /\ \A f : IsFiniteSet(holders(f)) /\ Cardinality(holders(f)) \in Nat /\ holders(f) = namedIn(ofile, f)
  /\ \A p, f : naming(p, f) = row(ofile, p, f)
<1>1. NOFILE \in Nat /\ NOFILE - 1 \in Int /\ IsFiniteSet(Procs)
  BY FilesAssumption
<1>2. IsFiniteSet(Fds)
  BY <1>1, FS_Interval DEF Fds
<1>3. IsFiniteSet(Procs \X Fds)
  BY <1>1, <1>2, FS_Product
<1>4. ASSUME NEW o, NEW f PROVE IsFiniteSet(namedIn(o, f)) /\ Cardinality(namedIn(o, f)) \in Nat
  <2>1. namedIn(o, f) \subseteq Procs \X Fds
    BY DEF namedIn
  <2> QED
    BY <1>3, <2>1, FS_Subset, FS_CardinalityType
<1>5. ASSUME NEW o, NEW p, NEW f PROVE IsFiniteSet(row(o, p, f)) /\ Cardinality(row(o, p, f)) \in Nat
  <2>1. row(o, p, f) \subseteq Fds
    BY DEF row
  <2> QED
    BY <1>2, <2>1, FS_Subset, FS_CardinalityType
<1>6. ASSUME NEW f PROVE holders(f) = namedIn(ofile, f)
  BY DEF holders, namedIn
<1>7. ASSUME NEW p, NEW f PROVE naming(p, f) = row(ofile, p, f)
  BY DEF naming, row
<1> QED
  BY <1>4, <1>5, <1>6, <1>7

\* A descriptor more.
LEMMA Gained ==
  ASSUME NEW o \in Tables, NEW p \in Procs, NEW d \in Fds, NEW f \in Entries, o[p][d] = none
  PROVE  LET o2 == entered(o, p, d, f) IN
         /\ o2 \in Tables
         /\ Cardinality(namedIn(o2, f)) = Cardinality(namedIn(o, f)) + 1
         /\ \A g \in Entries \ {f} : namedIn(o2, g) = namedIn(o, g)
<1> DEFINE o2 == entered(o, p, d, f)
<1>1. none \notin Entries
  BY FilesAssumption DEF Entries
<1>2. o2 \in Tables
  BY DEF Tables, entered
<1>3. \A x \in Procs \X Fds : o2[x[1]][x[2]] = IF x = <<p, d>> THEN f ELSE o[x[1]][x[2]]
  BY DEF Tables, entered
<1>4. <<p, d>> \in Procs \X Fds /\ <<p, d>> \notin namedIn(o, f)
  BY <1>1 DEF namedIn
<1>5. namedIn(o2, f) = namedIn(o, f) \cup {<<p, d>>}
  BY <1>3, <1>4 DEF namedIn
<1>6. Cardinality(namedIn(o2, f)) = Cardinality(namedIn(o, f)) + 1
  BY <1>4, <1>5, NamingFinite, FS_AddElement
<1>7. ASSUME NEW g \in Entries \ {f} PROVE namedIn(o2, g) = namedIn(o, g)
  BY <1>1, <1>3 DEF namedIn
<1> QED
  BY <1>2, <1>6, <1>7

\* One less.
LEMMA Dropped ==
  ASSUME NEW o \in Tables, NEW p \in Procs, NEW d \in Fds, NEW f \in Entries, o[p][d] = f
  PROVE  LET o2 == entered(o, p, d, none) IN
         /\ o2 \in Tables
         /\ Cardinality(namedIn(o2, f)) = Cardinality(namedIn(o, f)) - 1
         /\ \A g \in Entries \ {f} : namedIn(o2, g) = namedIn(o, g)
<1> DEFINE o2 == entered(o, p, d, none)
<1>1. none \notin Entries
  BY FilesAssumption DEF Entries
<1>2. o2 \in Tables
  BY DEF Tables, entered
<1>3. \A x \in Procs \X Fds : o2[x[1]][x[2]] = IF x = <<p, d>> THEN none ELSE o[x[1]][x[2]]
  BY DEF Tables, entered
<1>4. <<p, d>> \in namedIn(o, f)
  BY DEF namedIn
<1>5. namedIn(o2, f) = namedIn(o, f) \ {<<p, d>>}
  BY <1>1, <1>3, <1>4 DEF namedIn
<1>6. Cardinality(namedIn(o2, f)) = Cardinality(namedIn(o, f)) - 1
  BY <1>4, <1>5, NamingFinite, FS_RemoveElement
<1>7. ASSUME NEW g \in Entries \ {f} PROVE namedIn(o2, g) = namedIn(o, g)
  BY <1>1, <1>3 DEF namedIn
<1> QED
  BY <1>2, <1>6, <1>7

\* The descriptors of q are those p has, or had.
LEMMA RowCounted ==
  ASSUME NEW o \in Tables, NEW o2 \in Tables, NEW q \in Procs,
         o[q] = closedAll, o2 = [o EXCEPT ![q] = o2[q]], NEW f \in Entries
  PROVE  Cardinality(namedIn(o2, f)) = Cardinality(namedIn(o, f)) + Cardinality(row(o2, q, f))
<1>1. none \notin Entries
  BY FilesAssumption DEF Entries
<1> DEFINE S == {q} \X row(o2, q, f)
<1>2. IsFiniteSet(S) /\ Cardinality(S) = Cardinality(row(o2, q, f))
  <2>1. IsFiniteSet({q}) /\ Cardinality({q}) = 1
    BY FS_Singleton
  <2>2. IsFiniteSet(S) /\ Cardinality(S) = 1 * Cardinality(row(o2, q, f))
    BY <2>1, NamingFinite, FS_Product
  <2> QED
    BY <2>2, NamingFinite
<1>3. \A x \in Procs \X Fds : x[1] # q => o2[x[1]][x[2]] = o[x[1]][x[2]]
  BY DEF Tables
<1>4. \A x \in Procs \X Fds : x[1] = q => o[x[1]][x[2]] = none
  BY DEF closedAll
<1>5. namedIn(o2, f) = namedIn(o, f) \cup S
  <2>1. \A x \in namedIn(o2, f) : x \in namedIn(o, f) \cup S
    BY <1>3 DEF namedIn, row
  <2>2. \A x \in namedIn(o, f) : x \in namedIn(o2, f)
    BY <1>1, <1>3, <1>4 DEF namedIn
  <2>3. \A x \in S : x \in namedIn(o2, f)
    BY DEF namedIn, row
  <2> QED
    BY <2>1, <2>2, <2>3
<1>6. namedIn(o, f) \cap S = {}
  BY <1>1, <1>4 DEF namedIn, row
<1>7. Cardinality(namedIn(o, f) \cup S) = Cardinality(namedIn(o, f)) + Cardinality(S) - Cardinality({})
  BY <1>2, <1>6, NamingFinite, FS_Union
<1>8. Cardinality({}) = 0
  BY FS_EmptySet
<1> QED
  BY <1>2, <1>5, <1>7, <1>8, NamingFinite

-----------------------------------------------------------------------------
(* The invariant. *)

OpenFiles == [ref : Nat, type : {"FD_NONE", "FD_PIPE", "FD_INODE"},
              of : Pipes \cup Names \cup {none}, readable : BOOLEAN, writable : BOOLEAN]
PipeStates == [readopen : BOOLEAN, writeopen : BOOLEAN, data : Seq({"text", "nul"})]

\* An open file for a pipe says for which, and so does a process in fileclose(); an end
\* of a pipe is open if there is a file for it or a process that closes it, and there is
\* no second one of them.
Closings == [of : Pipes \cup {none}, writable : BOOLEAN]
PipesKnown == /\ \A f \in Entries : file[f].type = "FD_PIPE" => file[f].of \in Pipes
              /\ \A p \in Procs : closing[p] # noEnd => closing[p].of \in Pipes
OneEach == \A i \in Pipes, w \in BOOLEAN :
              /\ \A f, g \in ends(i, w) : f = g
              /\ \A p, q \in closers(i, w) : p = q
              /\ ends(i, w) = {} \/ closers(i, w) = {}
OpenEnds == \A i \in Pipes :
               /\ pipe[i].readopen <=> ends(i, FALSE) # {} \/ closers(i, FALSE) # {}
               /\ pipe[i].writeopen <=> ends(i, TRUE) # {} \/ closers(i, TRUE) # {}

FilesInv == /\ file \in [Entries -> OpenFiles] /\ ofile \in Tables
            /\ pipe \in [Pipes -> PipeStates] /\ closing \in [Procs -> Closings]
            /\ RefsAreDescriptors /\ PipesKnown /\ OneEach /\ OpenEnds

\* References change, the files of L are closed, and who closed one for an end of a pipe
\* is going to close the end.
LEMMA Recounted ==
  ASSUME FilesInv, NEW L \in SUBSET Entries,
         ofile' \in Tables, file' \in [Entries -> OpenFiles], pipe' \in [Pipes -> PipeStates],
         closing' \in [Procs -> Closings],
         \A q \in Procs : closing'[q] # noEnd => closing'[q].of \in Pipes,
         \A g \in L : file'[g] = noFile,
         \A g \in Entries \ L : /\ file'[g].type = file[g].type /\ file'[g].of = file[g].of
                                /\ file'[g].readable = file[g].readable
                                /\ file'[g].writable = file[g].writable
                                /\ file'[g].ref = 0 => file[g].ref = 0,
         \A g \in Entries : file'[g].ref = Cardinality(namedIn(ofile', g)),
         \A i \in Pipes : /\ pipe'[i].readopen <=> pipe[i].readopen
                          /\ pipe'[i].writeopen <=> pipe[i].writeopen,
         \A i \in Pipes, w \in BOOLEAN :
            \/ ends(i, w) \cap L = {} /\ closers(i, w)' = closers(i, w)
            \/ ends(i, w) \cap L # {} /\ \E q \in Procs : closers(i, w)' = {q}
  PROVE  FilesInv'
<1>1. \A i, w : ends(i, w)' = ends(i, w) \ L
  BY DEF ends, noFile
<1>2. ASSUME NEW g \in Entries PROVE file'[g].ref = 0 => file'[g] = noFile
  <2>1. CASE g \in L
    BY <2>1
  <2>2. CASE g \notin L
    <3>1. file[g].ref = 0 => file[g] = noFile
      BY DEF FilesInv, RefsAreDescriptors
    <3>2. file'[g] \in OpenFiles
      OBVIOUS
    <3> QED
      BY <2>2, <3>1, <3>2 DEF OpenFiles, noFile
  <2> QED
    BY <2>1, <2>2
<1>3. RefsAreDescriptors'
  <2>1. \A g : holders(g)' = namedIn(ofile', g)
    BY DEF holders, namedIn
  <2> QED
    BY <1>2, <2>1 DEF RefsAreDescriptors
<1>4. PipesKnown'
  BY DEF FilesInv, PipesKnown, noFile
<1>5. ASSUME NEW i \in Pipes, NEW w \in BOOLEAN
      PROVE  /\ \A f, g \in ends(i, w)' : f = g
             /\ \A p, q \in closers(i, w)' : p = q
             /\ ends(i, w)' = {} \/ closers(i, w)' = {}
             /\ ends(i, w)' # {} \/ closers(i, w)' # {}
                  <=> ends(i, w) # {} \/ closers(i, w) # {}
  <2>1. /\ \A f, g \in ends(i, w) : f = g
        /\ \A p, q \in closers(i, w) : p = q
        /\ ends(i, w) = {} \/ closers(i, w) = {}
    BY DEF FilesInv, OneEach
  <2>2. ends(i, w)' = ends(i, w) \ L
    BY <1>1
  <2>3. CASE ends(i, w) \cap L = {}
    <3>1. closers(i, w)' = closers(i, w) /\ ends(i, w)' = ends(i, w)
      BY <2>2, <2>3
    <3> QED
      BY <2>1, <3>1
  <2>4. CASE ends(i, w) \cap L # {}
    <3>1. PICK q \in Procs : closers(i, w)' = {q}
      BY <2>4
    <3>2. ends(i, w)' = {} /\ ends(i, w) # {}
      BY <2>1, <2>2, <2>4
    <3> QED
      BY <3>1, <3>2
  <2> QED
    BY <2>3, <2>4
<1>6. OneEach'
  BY <1>5 DEF OneEach
<1>7. OpenEnds'
  BY <1>5 DEF FilesInv, OpenEnds
<1> QED
  BY <1>3, <1>4, <1>6, <1>7 DEF FilesInv

LEMMA FilesUnchanged == FilesInv /\ UNCHANGED fileVars => FilesInv'
<1> SUFFICES ASSUME FilesInv, UNCHANGED <<file, ofile, pipe, closing>> PROVE FilesInv'
  BY DEF fileVars
<1>1. \A i, w : ends(i, w)' = ends(i, w) /\ closers(i, w)' = closers(i, w)
  BY DEF ends, closers
<1>2. \A f : holders(f)' = holders(f)
  BY DEF holders
<1> QED
  BY <1>1, <1>2 DEF FilesInv, RefsAreDescriptors, PipesKnown, OneEach, OpenEnds

\* The lowest of the free.
LEMMA Lowest ==
  /\ \A p : freeFds(p) # {} => fdalloc(p) \in freeFds(p)
  /\ \A p, d : freeFds(p) \ {d} # {} => Min(freeFds(p) \ {d}) \in freeFds(p) \ {d}
  /\ freeEntries # {} => filealloc \in freeEntries
  /\ \A d : freeEntries \ {d} # {} => Min(freeEntries \ {d}) \in freeEntries \ {d}
<1>1. \A p : freeFds(p) \subseteq Nat
  BY FilesAssumption DEF freeFds, Fds
<1>2. freeEntries \subseteq Nat
  BY FilesAssumption DEF freeEntries, Entries
<1>3. \A S \in SUBSET Nat : S # {} => Min(S) \in S
  BY FirstOf DEF Min
<1> QED
  BY <1>1, <1>2, <1>3 DEF fdalloc, filealloc

\* pipeclose() closes one end and leaves the other.
LEMMA OneEndLess ==
  ASSUME NEW q \in PipeStates, NEW w \in BOOLEAN
  PROVE  /\ pipeclose(q, w) \in PipeStates
         /\ pipeclose(q, w).readopen <=> q.readopen /\ w
         /\ pipeclose(q, w).writeopen <=> q.writeopen /\ ~w
<1>1. noPipe \in PipeStates /\ ~noPipe.readopen /\ ~noPipe.writeopen
  BY DEF noPipe, PipeStates
<1>2. CASE w
  BY <1>1, <1>2 DEF pipeclose, PipeStates
<1>3. CASE ~w
  BY <1>1, <1>3 DEF pipeclose, PipeStates
<1> QED
  BY <1>2, <1>3

\* References change, no file is closed.
LEMMA CountsOnly ==
  ASSUME FilesInv, ofile' \in Tables, file' \in [Entries -> OpenFiles],
         pipe' \in [Pipes -> PipeStates], closing' = closing,
         \A g \in Entries : /\ file'[g].type = file[g].type /\ file'[g].of = file[g].of
                            /\ file'[g].readable = file[g].readable
                            /\ file'[g].writable = file[g].writable
                            /\ file'[g].ref = 0 => file[g].ref = 0
                            /\ file'[g].ref = Cardinality(namedIn(ofile', g)),
         \A i \in Pipes : /\ pipe'[i].readopen <=> pipe[i].readopen
                          /\ pipe'[i].writeopen <=> pipe[i].writeopen
  PROVE  FilesInv'
<1> DEFINE L == {}
<1>1. /\ L \in SUBSET Entries /\ \A g \in L : file'[g] = noFile
      /\ \A g \in Entries \ L : /\ file'[g].type = file[g].type /\ file'[g].of = file[g].of
                                /\ file'[g].readable = file[g].readable
                                /\ file'[g].writable = file[g].writable
                                /\ file'[g].ref = 0 => file[g].ref = 0
  OBVIOUS
<1>2. \A i \in Pipes, w \in BOOLEAN : ends(i, w) \cap L = {} /\ closers(i, w)' = closers(i, w)
  BY DEF closers
<1>3. \A g \in Entries : file'[g].ref = Cardinality(namedIn(ofile', g))
  OBVIOUS
<1>4. /\ closing' \in [Procs -> Closings]
      /\ \A q \in Procs : closing'[q] # noEnd => closing'[q].of \in Pipes
  BY DEF FilesInv, PipesKnown
<1> HIDE DEF L
<1> QED
  BY <1>1, <1>2, <1>3, <1>4, Recounted

\* What the invariant says of a file and of a descriptor.
LEMMA FileFacts ==
  ASSUME FilesInv
  PROVE  /\ \A g \in Entries : /\ file[g] \in OpenFiles /\ file[g].ref \in Nat
                               /\ file[g].ref = Cardinality(namedIn(ofile, g))
                               /\ file[g].ref = 0 => file[g] = noFile
         /\ \A p \in Procs, d \in Fds :
              ofile[p][d] # none => /\ ofile[p][d] \in Entries
                                    /\ file[ofile[p][d]].ref > 0
<1>1. ASSUME NEW g \in Entries
      PROVE  /\ file[g] \in OpenFiles /\ file[g].ref \in Nat
             /\ file[g].ref = Cardinality(namedIn(ofile, g))
             /\ file[g].ref = 0 => file[g] = noFile
  BY NamingFinite DEF FilesInv, RefsAreDescriptors, OpenFiles
<1>2. ASSUME NEW p \in Procs, NEW d \in Fds, ofile[p][d] # none
      PROVE  ofile[p][d] \in Entries /\ file[ofile[p][d]].ref > 0
  <2>1. PICK f \in Entries : f = ofile[p][d]
    BY <1>2 DEF FilesInv, Tables
  <2>2. <<p, d>> \in namedIn(ofile, f)
    BY <2>1 DEF namedIn
  <2>3. Cardinality(namedIn(ofile, f)) # 0
    BY <2>2, NamingFinite, FS_EmptySet
  <2>4. file[f].ref = Cardinality(namedIn(ofile, f)) /\ file[f].ref \in Nat
    BY <1>1, <2>1
  <2> QED
    BY <2>1, <2>3, <2>4
<1> QED
  BY <1>1, <1>2

-----------------------------------------------------------------------------
(* The system calls. *)

LEMMA CloseKeepsFiles ==
  ASSUME FilesInv, NEW p \in Procs, NEW d \in Fds, closing[p] = noEnd, sys_close(p, d)
  PROVE  FilesInv'
<1>1. PICK f \in Entries \cup {none} : f = ofile[p][d]
  BY DEF FilesInv, Tables
<1>2. CASE f = none
  BY <1>1, <1>2, FilesUnchanged DEF sys_close
<1>3. CASE f # none
  <2>1. /\ f \in Entries /\ ofile' = [ofile EXCEPT ![p][d] = none]
        /\ file' = fileclose(f) /\ pipe' = pipe
        /\ closing' = [closing EXCEPT ![p] = endToClose(f)]
    BY <1>1, <1>3 DEF sys_close
  <2>2. /\ ofile' \in Tables
        /\ Cardinality(namedIn(ofile', f)) = Cardinality(namedIn(ofile, f)) - 1
        /\ \A g \in Entries \ {f} : namedIn(ofile', g) = namedIn(ofile, g)
    <3>1. ofile \in Tables /\ ofile[p][d] = f /\ f \in Entries
      BY <1>1, <2>1 DEF FilesInv
    <3> DEFINE o2 == entered(ofile, p, d, none)
    <3>2. ofile' = o2
      BY <2>1 DEF entered
    <3>3. /\ o2 \in Tables /\ Cardinality(namedIn(o2, f)) = Cardinality(namedIn(ofile, f)) - 1
          /\ \A g \in Entries \ {f} : namedIn(o2, g) = namedIn(ofile, g)
      BY <3>1, Dropped
    <3> QED
      BY <3>2, <3>3
  <2>3. \A g \in Entries : /\ file[g] \in OpenFiles
                           /\ file[g].ref = Cardinality(namedIn(ofile, g))
    BY NamingFinite DEF FilesInv, RefsAreDescriptors
  <2>4. PICK k \in Nat : file[f].ref = k + 1 /\ Cardinality(namedIn(ofile', f)) = k
    <3>1. Cardinality(namedIn(ofile', f)) \in Nat /\ Cardinality(namedIn(ofile, f)) \in Nat
      BY NamingFinite
    <3> QED
      BY <2>1, <2>2, <2>3, <3>1
  <2>5. CASE k # 0
    <3>1. file' = [file EXCEPT ![f] = [@ EXCEPT !.ref = k]] /\ closing' = closing
      <4>1. /\ file[f].ref > 1 /\ ~(file[f].ref = 1) /\ file[f].ref - 1 = k
        BY <2>4, <2>5
      <4>2. fileclose(f) = [file EXCEPT ![f] = [file[f] EXCEPT !.ref = file[f].ref - 1]]
        BY <4>1 DEF fileclose
      <4>3. closing' = closing
        BY <2>1, <4>1 DEF endToClose, FilesInv
      <4> QED
        BY <2>1, <4>1, <4>2, <4>3
    <3>2. file' \in [Entries -> OpenFiles]
      BY <2>1, <3>1 DEF FilesInv, OpenFiles
    <3>3. \A g \in Entries \ {f} : file'[g] = file[g]
      BY <2>1, <3>1 DEF FilesInv
    <3>4. /\ file'[f].type = file[f].type /\ file'[f].of = file[f].of
          /\ file'[f].readable = file[f].readable /\ file'[f].writable = file[f].writable
          /\ file'[f].ref = k
      BY <2>1, <2>3, <3>1 DEF FilesInv, OpenFiles
    <3>5. \A g \in Entries : file'[g].ref = Cardinality(namedIn(ofile', g))
      BY <2>1, <2>2, <2>3, <2>4, <3>3, <3>4
    <3> QED
      BY <2>1, <2>2, <2>5, <3>1, <3>2, <3>3, <3>4, <3>5, CountsOnly DEF FilesInv
  <2>6. CASE k = 0
    <3>1. file[f].ref = 1 /\ file' = [file EXCEPT ![f] = noFile]
      BY <2>1, <2>4, <2>6 DEF fileclose
    <3>2. noFile \in OpenFiles /\ noFile.ref = 0
      BY DEF noFile, OpenFiles
    <3>3. /\ file' \in [Entries -> OpenFiles] /\ file'[f] = noFile
          /\ \A g \in Entries \ {f} : file'[g] = file[g]
      BY <2>1, <3>1, <3>2 DEF FilesInv
    <3>4. \A g \in Entries : file'[g].ref = Cardinality(namedIn(ofile', g))
      BY <2>1, <2>2, <2>3, <2>4, <2>6, <3>2, <3>3
    <3>5. /\ closing' \in [Procs -> Closings]
          /\ \A q \in Procs : closing'[q] # noEnd => closing'[q].of \in Pipes
          /\ \A i \in Pipes, w \in BOOLEAN :
               \/ ends(i, w) \cap {f} = {} /\ closers(i, w)' = closers(i, w)
               \/ ends(i, w) \cap {f} # {} /\ closers(i, w)' = {p}
      <4>1. CASE file[f].type # "FD_PIPE"
        <5>1. closing' = closing
          BY <2>1, <4>1 DEF endToClose, FilesInv
        <5>2. \A i, w : ends(i, w) \cap {f} = {} /\ closers(i, w)' = closers(i, w)
          BY <4>1, <5>1 DEF ends, closers
        <5> QED
          BY <5>1, <5>2 DEF FilesInv, PipesKnown
      <4>2. CASE file[f].type = "FD_PIPE"
        <5>1. PICK j \in Pipes, w \in BOOLEAN : j = file[f].of /\ w = file[f].writable
          <6>1. file[f].of \in Pipes
            BY <2>1, <4>2 DEF FilesInv, PipesKnown
          <6>2. file[f].writable \in BOOLEAN
            BY <2>1, <2>3 DEF OpenFiles
          <6> QED
            BY <6>1, <6>2, Zenon
        <5>2. closing' = [closing EXCEPT ![p] = [of |-> j, writable |-> w]]
          BY <2>1, <3>1, <4>2, <5>1 DEF endToClose
        <5>3. /\ closing \in [Procs -> Closings]
              /\ \A q \in Procs : closing[q] # noEnd => closing[q].of \in Pipes
          BY DEF FilesInv, PipesKnown
        <5>4. /\ closing' \in [Procs -> Closings] /\ closing'[p] = [of |-> j, writable |-> w]
              /\ \A q \in Procs \ {p} : closing'[q] = closing[q]
          BY <5>2, <5>3 DEF Closings
        <5>5. \A q \in Procs : closing'[q] # noEnd => closing'[q].of \in Pipes
          BY <5>3, <5>4
        <5>6. f \in ends(j, w) /\ closers(j, w) = {}
          <6>1. f \in ends(j, w)
            BY <2>1, <4>2, <5>1 DEF ends
          <6> QED
            BY <6>1 DEF FilesInv, OneEach
        <5>7. closers(j, w)' = {p}
          <6>1. \A q \in Procs : closing'[q] = [of |-> j, writable |-> w] => q = p
            BY <5>4, <5>6 DEF closers
          <6> QED
            BY <5>4, <6>1 DEF closers
        <5>8. ASSUME NEW i \in Pipes, NEW v \in BOOLEAN, ~(i = j /\ v = w)
              PROVE  ends(i, v) \cap {f} = {} /\ closers(i, v)' = closers(i, v)
          <6>1. ends(i, v) \cap {f} = {}
            BY <5>1, <5>8 DEF ends
          <6>2. [of |-> i, writable |-> v] # [of |-> j, writable |-> w]
            BY <5>8
          <6>3. [of |-> i, writable |-> v] # noEnd
            BY FilesAssumption DEF noEnd
          <6>4. \A q \in Procs : (closing'[q] = [of |-> i, writable |-> v])
                                 <=> (closing[q] = [of |-> i, writable |-> v])
            BY <5>4, <6>2, <6>3
          <6> QED
            BY <6>1, <6>4 DEF closers
        <5>9. ASSUME NEW i \in Pipes, NEW v \in BOOLEAN
              PROVE  \/ ends(i, v) \cap {f} = {} /\ closers(i, v)' = closers(i, v)
                     \/ ends(i, v) \cap {f} # {} /\ closers(i, v)' = {p}
          <6>1. CASE i = j /\ v = w
            <7>1. ends(i, v) \cap {f} # {} /\ closers(i, v)' = {p}
              BY <5>6, <5>7, <6>1
            <7> QED
              BY <7>1
          <6>2. CASE ~(i = j /\ v = w)
            BY <5>8, <6>2
          <6> QED
            BY <6>1, <6>2
        <5> QED
          BY <5>4, <5>5, <5>9
      <4> QED
        BY <4>1, <4>2
    <3> DEFINE L == {f}
    <3>6. /\ L \in SUBSET Entries /\ \A g \in L : file'[g] = noFile
          /\ \A g \in Entries \ L : /\ file'[g].type = file[g].type /\ file'[g].of = file[g].of
                                    /\ file'[g].readable = file[g].readable
                                    /\ file'[g].writable = file[g].writable
                                    /\ file'[g].ref = 0 => file[g].ref = 0
      BY <2>1, <3>3
    <3>7. \A i \in Pipes, w \in BOOLEAN :
            \/ ends(i, w) \cap L = {} /\ closers(i, w)' = closers(i, w)
            \/ ends(i, w) \cap L # {} /\ \E q \in Procs : closers(i, w)' = {q}
      BY <3>5
    <3>8. /\ pipe' \in [Pipes -> PipeStates]
          /\ \A i \in Pipes : /\ pipe'[i].readopen <=> pipe[i].readopen
                              /\ pipe'[i].writeopen <=> pipe[i].writeopen
      BY <2>1 DEF FilesInv
    <3> HIDE DEF L
    <3> QED
      BY <2>2, <3>3, <3>4, <3>5, <3>6, <3>7, <3>8, Recounted
  <2> QED
    BY <2>5, <2>6
<1> QED
  BY <1>2, <1>3

LEMMA CloseEndKeepsFiles ==
  ASSUME FilesInv, NEW p \in Procs, closeEnd(p)
  PROVE  FilesInv'
<1>1. PICK j \in Pipes, w \in BOOLEAN : closing[p] = [of |-> j, writable |-> w]
  <2>1. closing[p] \in Closings /\ closing[p].of \in Pipes
    BY DEF closeEnd, FilesInv, PipesKnown
  <2>2. closing[p] = [of |-> closing[p].of, writable |-> closing[p].writable]
    BY <2>1 DEF Closings
  <2> QED
    BY <2>1, <2>2 DEF Closings
<1>2. UNCHANGED <<file, ofile>> /\ closing' = [closing EXCEPT ![p] = noEnd]
  BY DEF closeEnd
<1>3. pipe' = [pipe EXCEPT ![j] = pipeclose(pipe[j], w)]
  BY <1>1 DEF closeEnd
<1>4. /\ pipe \in [Pipes -> PipeStates] /\ closing \in [Procs -> Closings]
      /\ noEnd \in Closings
  BY DEF FilesInv, noEnd, Closings
<1>5. /\ pipeclose(pipe[j], w) \in PipeStates
      /\ pipeclose(pipe[j], w).readopen <=> pipe[j].readopen /\ w
      /\ pipeclose(pipe[j], w).writeopen <=> pipe[j].writeopen /\ ~w
  BY <1>4, OneEndLess
<1>6. /\ pipe' \in [Pipes -> PipeStates]
      /\ pipe'[j] = pipeclose(pipe[j], w) /\ \A i \in Pipes \ {j} : pipe'[i] = pipe[i]
  BY <1>3, <1>4, <1>5
<1>7. /\ closing' \in [Procs -> Closings] /\ closing'[p] = noEnd
      /\ \A q \in Procs \ {p} : closing'[q] = closing[q]
  BY <1>2, <1>4
<1>8. \A i, v : ends(i, v)' = ends(i, v)
  BY <1>2 DEF ends
<1>9. closers(j, w) = {p} /\ ends(j, w) = {}
  <2>1. p \in closers(j, w)
    BY <1>1 DEF closers
  <2> QED
    BY <2>1 DEF FilesInv, OneEach
<1>10. \A i \in Pipes, v \in BOOLEAN : noEnd # [of |-> i, writable |-> v]
  BY FilesAssumption DEF noEnd
<1>11. closers(j, w)' = {}
  BY <1>7, <1>9, <1>10 DEF closers
<1>12. ASSUME NEW i \in Pipes, NEW v \in BOOLEAN, ~(i = j /\ v = w)
       PROVE  closers(i, v)' = closers(i, v)
  <2>1. [of |-> i, writable |-> v] # [of |-> j, writable |-> w]
    BY <1>12
  <2>2. \A q \in Procs : (closing'[q] = [of |-> i, writable |-> v])
                         <=> (closing[q] = [of |-> i, writable |-> v])
    BY <1>1, <1>7, <1>10, <2>1
  <2> QED
    BY <2>2 DEF closers
<1>13. RefsAreDescriptors'
  <2>1. \A f : holders(f)' = holders(f)
    BY <1>2 DEF holders
  <2> QED
    BY <1>2, <2>1 DEF FilesInv, RefsAreDescriptors
<1>14. PipesKnown'
  BY <1>2, <1>7 DEF FilesInv, PipesKnown
<1>15. OneEach'
  <2> SUFFICES ASSUME NEW i \in Pipes, NEW v \in BOOLEAN
               PROVE  /\ \A f, g \in ends(i, v)' : f = g
                      /\ \A q, r \in closers(i, v)' : q = r
                      /\ ends(i, v)' = {} \/ closers(i, v)' = {}
    BY DEF OneEach
  <2>1. /\ \A f, g \in ends(i, v) : f = g
        /\ \A q, r \in closers(i, v) : q = r
        /\ ends(i, v) = {} \/ closers(i, v) = {}
    BY DEF FilesInv, OneEach
  <2>2. CASE i = j /\ v = w
    BY <1>8, <1>11, <2>1, <2>2
  <2>3. CASE ~(i = j /\ v = w)
    BY <1>8, <1>12, <2>1, <2>3
  <2> QED
    BY <2>2, <2>3
<1>16. OpenEnds'
  <2>1. \A i \in Pipes :
           /\ pipe[i].readopen <=> ends(i, FALSE) # {} \/ closers(i, FALSE) # {}
           /\ pipe[i].writeopen <=> ends(i, TRUE) # {} \/ closers(i, TRUE) # {}
    BY DEF FilesInv, OpenEnds
  <2> SUFFICES ASSUME NEW i \in Pipes
               PROVE  /\ pipe'[i].readopen <=> ends(i, FALSE)' # {} \/ closers(i, FALSE)' # {}
                      /\ pipe'[i].writeopen <=> ends(i, TRUE)' # {} \/ closers(i, TRUE)' # {}
    BY DEF OpenEnds
  <2>2. CASE i # j
    <3>1. closers(i, FALSE)' = closers(i, FALSE) /\ closers(i, TRUE)' = closers(i, TRUE)
      BY <1>12, <2>2
    <3> QED
      BY <1>6, <1>8, <2>1, <2>2, <3>1
  <2>3. CASE i = j /\ w = TRUE
    <3>1. closers(j, FALSE)' = closers(j, FALSE)
      BY <1>12, <2>3
    <3>2. closers(j, TRUE)' = {} /\ ends(j, TRUE) = {}
      BY <1>9, <1>11, <2>3
    <3> QED
      BY <1>5, <1>6, <1>8, <2>1, <2>3, <3>1, <3>2
  <2>4. CASE i = j /\ w = FALSE
    <3>1. closers(j, TRUE)' = closers(j, TRUE)
      BY <1>12, <2>4
    <3>2. closers(j, FALSE)' = {} /\ ends(j, FALSE) = {}
      BY <1>9, <1>11, <2>4
    <3> QED
      BY <1>5, <1>6, <1>8, <2>1, <2>4, <3>1, <3>2
  <2> QED
    BY <2>2, <2>3, <2>4
<1> QED
  BY <1>2, <1>6, <1>7, <1>13, <1>14, <1>15, <1>16 DEF FilesInv

LEMMA DupKeepsFiles ==
  ASSUME FilesInv, NEW p \in Procs, NEW d \in Fds, sys_dup(p, d)
  PROVE  FilesInv'
<1>1. PICK f \in Entries : f = ofile[p][d] /\ file[f].ref > 0
  BY FileFacts DEF sys_dup, canDup
<1>2. PICK e \in Fds : e = fdalloc(p) /\ ofile[p][e] = none
  BY Lowest DEF sys_dup, canDup, freeFds
<1>3. /\ ofile' = entered(ofile, p, e, f)
      /\ file' = [file EXCEPT ![f].ref = @ + 1] /\ pipe' = pipe /\ closing' = closing
  BY <1>1, <1>2 DEF sys_dup, entered
<1>4. /\ ofile' \in Tables
      /\ Cardinality(namedIn(ofile', f)) = Cardinality(namedIn(ofile, f)) + 1
      /\ \A g \in Entries \ {f} : namedIn(ofile', g) = namedIn(ofile, g)
  BY <1>2, <1>3, Gained DEF FilesInv
<1>5. /\ file' \in [Entries -> OpenFiles]
      /\ \A g \in Entries \ {f} : file'[g] = file[g]
      /\ file'[f].type = file[f].type /\ file'[f].of = file[f].of
      /\ file'[f].readable = file[f].readable /\ file'[f].writable = file[f].writable
      /\ file'[f].ref = file[f].ref + 1
  BY <1>3, FileFacts DEF FilesInv, OpenFiles
<1>6. \A g \in Entries : file'[g].ref = Cardinality(namedIn(ofile', g))
  BY <1>4, <1>5, FileFacts
<1>7. \A g \in Entries : file'[g].ref = 0 => file[g].ref = 0
  BY <1>1, <1>5, FileFacts
<1> QED
  BY <1>3, <1>4, <1>5, <1>6, <1>7, CountsOnly DEF FilesInv

LEMMA OpenKeepsFiles ==
  ASSUME FilesInv, NEW p \in Procs, NEW name \in Names, NEW mode, sys_open(p, name, mode)
  PROVE  FilesInv'
<1> DEFINE new == [ref |-> 1, type |-> "FD_INODE", of |-> name,
                   readable |-> mode # "O_WRONLY", writable |-> mode # "O_RDONLY"]
<1>1. PICK f \in Entries : f = filealloc /\ file[f].ref = 0 /\ file[f] = noFile
  BY Lowest, FileFacts DEF sys_open, canOpen, freeEntries
<1>2. PICK e \in Fds : e = fdalloc(p) /\ ofile[p][e] = none
  BY Lowest DEF sys_open, canOpen, freeFds
<1>3. /\ ofile' = entered(ofile, p, e, f)
      /\ file' = [file EXCEPT ![f] = new] /\ pipe' = pipe /\ closing' = closing
  BY <1>1, <1>2 DEF sys_open, entered
<1>4. /\ ofile' \in Tables
      /\ Cardinality(namedIn(ofile', f)) = Cardinality(namedIn(ofile, f)) + 1
      /\ \A g \in Entries \ {f} : namedIn(ofile', g) = namedIn(ofile, g)
  BY <1>2, <1>3, Gained DEF FilesInv
<1>5. new \in OpenFiles
  BY DEF OpenFiles
<1>6. /\ file' \in [Entries -> OpenFiles] /\ file'[f] = new
      /\ \A g \in Entries \ {f} : file'[g] = file[g]
  BY <1>3, <1>5 DEF FilesInv
<1>7. \A g \in Entries : file'[g].ref = Cardinality(namedIn(ofile', g))
  BY <1>1, <1>4, <1>6, FileFacts
<1>8. RefsAreDescriptors'
  <2>1. \A g : holders(g)' = namedIn(ofile', g)
    BY DEF holders, namedIn
  <2> QED
    BY <1>6, <1>7, <2>1, FileFacts DEF RefsAreDescriptors
<1>9. \A i, w : ends(i, w)' = ends(i, w) /\ closers(i, w)' = closers(i, w)
  BY <1>1, <1>3, <1>6 DEF ends, noFile, closers
<1>10. PipesKnown'
  BY <1>3, <1>6 DEF FilesInv, PipesKnown
<1>11. OneEach' /\ OpenEnds'
  BY <1>3, <1>9 DEF FilesInv, OneEach, OpenEnds
<1>12. /\ pipe' \in [Pipes -> PipeStates] /\ closing' \in [Procs -> Closings]
  BY <1>3 DEF FilesInv
<1> QED
  BY <1>4, <1>6, <1>8, <1>10, <1>11, <1>12 DEF FilesInv

\* Of two there is another one.
LEMMA AnotherOne ==
  ASSUME NEW S, IsFiniteSet(S), Cardinality(S) >= 2, NEW x
  PROVE  S \ {x} # {}
<1> SUFFICES ASSUME S \ {x} = {} PROVE FALSE
  OBVIOUS
<1>1. S \subseteq {x}
  OBVIOUS
<1>2. IsFiniteSet({x}) /\ Cardinality({x}) = 1
  BY FS_Singleton
<1>3. Cardinality(S) <= 1
  BY <1>1, <1>2, FS_Subset
<1>4. Cardinality(S) \in Nat
  BY FS_CardinalityType
<1> QED
  BY <1>3, <1>4

LEMMA PipeKeepsFiles ==
  ASSUME FilesInv, NEW p \in Procs, NEW i \in Pipes, sys_pipe(p, i)
  PROVE  FilesInv'
<1> DEFINE end(w) == [ref |-> 1, type |-> "FD_PIPE", of |-> i, readable |-> ~w, writable |-> w]
           whole == [readopen |-> TRUE, writeopen |-> TRUE, data |-> <<>>]
<1>1. IsFiniteSet(freeEntries) /\ Cardinality(freeEntries) >= 2
  <2>1. freeEntries \subseteq Entries /\ IsFiniteSet(Entries)
    BY FilesAssumption, FS_Interval DEF freeEntries, Entries
  <2> QED
    BY <2>1, FS_Subset DEF sys_pipe, canPipe
<1>2. freeEntries # {}
  BY <1>1, AnotherOne
<1>3. PICK f \in Entries : f = filealloc /\ file[f].ref = 0
  BY <1>2, Lowest DEF freeEntries
<1>4. PICK g \in Entries : g = Min(freeEntries \ {f}) /\ g # f /\ file[g].ref = 0
  <2>1. freeEntries \ {f} # {}
    BY <1>1, AnotherOne
  <2> QED
    BY <2>1, Lowest DEF freeEntries
<1>5. IsFiniteSet(freeFds(p)) /\ Cardinality(freeFds(p)) >= 2
  <2>1. freeFds(p) = row(ofile, p, none)
    BY DEF freeFds, row
  <2> QED
    BY <2>1, NamingFinite DEF sys_pipe, canPipe
<1>6. freeFds(p) # {}
  BY <1>5, AnotherOne
<1>7. PICK d \in Fds : d = fdalloc(p) /\ ofile[p][d] = none
  BY <1>6, Lowest DEF freeFds
<1>8. freeFds(p) \ {d} # {}
  BY <1>5, AnotherOne
<1>9. PICK e \in Fds : e = Min(freeFds(p) \ {d}) /\ e # d /\ ofile[p][e] = none
  BY <1>8, Lowest DEF freeFds
<1> DEFINE o1 == entered(ofile, p, d, f)
<1>10. ofile' = entered(o1, p, e, g)
  BY <1>3, <1>4, <1>7, <1>9 DEF sys_pipe, entered
<1>11. /\ file' = [file EXCEPT ![f] = end(FALSE), ![g] = end(TRUE)]
      /\ pipe' = [pipe EXCEPT ![i] = whole] /\ pipe[i] = noPipe
  BY <1>3, <1>4 DEF sys_pipe, freePages
<1>12. /\ o1 \in Tables /\ Cardinality(namedIn(o1, f)) = Cardinality(namedIn(ofile, f)) + 1
       /\ \A h \in Entries \ {f} : namedIn(o1, h) = namedIn(ofile, h)
  BY <1>7, Gained DEF FilesInv
<1>13. o1[p][e] = none
  BY <1>9, <1>7 DEF entered, FilesInv, Tables
<1> HIDE DEF o1
<1>14. /\ ofile' \in Tables /\ Cardinality(namedIn(ofile', g)) = Cardinality(namedIn(o1, g)) + 1
       /\ \A h \in Entries \ {g} : namedIn(ofile', h) = namedIn(o1, h)
  BY <1>10, <1>12, <1>13, Gained
<1>15. \A w \in BOOLEAN : end(w) \in OpenFiles
  BY DEF OpenFiles
<1>16. /\ file' \in [Entries -> OpenFiles] /\ file'[f] = end(FALSE) /\ file'[g] = end(TRUE)
       /\ \A h \in Entries \ {f, g} : file'[h] = file[h]
  BY <1>4, <1>11, <1>15 DEF FilesInv
<1>17. file[f] = noFile /\ file[g] = noFile
  BY <1>3, <1>4, FileFacts
<1>18. \A h \in Entries : file'[h].ref = Cardinality(namedIn(ofile', h))
  <2>1. Cardinality(namedIn(ofile, f)) = 0 /\ Cardinality(namedIn(ofile, g)) = 0
    BY <1>3, <1>4, FileFacts
  <2>2. Cardinality(namedIn(ofile', f)) = 1 /\ Cardinality(namedIn(ofile', g)) = 1
    BY <1>4, <1>12, <1>14, <2>1
  <2>3. \A h \in Entries \ {f, g} : namedIn(ofile', h) = namedIn(ofile, h)
    BY <1>12, <1>14
  <2> QED
    BY <1>16, <2>2, <2>3, FileFacts
<1>19. RefsAreDescriptors'
  <2>1. \A h : holders(h)' = namedIn(ofile', h)
    BY DEF holders, namedIn
  <2> QED
    BY <1>16, <1>18, <2>1, FileFacts DEF RefsAreDescriptors
<1>20. PipesKnown' /\ \A j, w : closers(j, w)' = closers(j, w)
  <2>1. closing' = closing
    BY DEF sys_pipe
  <2> QED
    BY <1>16, <2>1 DEF FilesInv, PipesKnown, closers
<1>21. /\ ends(i, FALSE) = {} /\ closers(i, FALSE) = {}
       /\ ends(i, TRUE) = {} /\ closers(i, TRUE) = {}
  <2>1. ~pipe[i].readopen /\ ~pipe[i].writeopen
    BY <1>11 DEF noPipe
  <2>2. /\ pipe[i].readopen <=> ends(i, FALSE) # {} \/ closers(i, FALSE) # {}
        /\ pipe[i].writeopen <=> ends(i, TRUE) # {} \/ closers(i, TRUE) # {}
    BY DEF FilesInv, OpenEnds
  <2> QED
    BY <2>1, <2>2
<1>22. ends(i, FALSE)' = {f} /\ ends(i, TRUE)' = {g}
  BY <1>16, <1>21 DEF ends
<1>23. \A j \in Pipes \ {i}, w \in BOOLEAN : ends(j, w)' = ends(j, w)
  BY <1>16, <1>17 DEF ends, noFile
<1>24. OneEach'
  <2> SUFFICES ASSUME NEW j \in Pipes, NEW w \in BOOLEAN
               PROVE  /\ \A a, b \in ends(j, w)' : a = b
                      /\ \A q, r \in closers(j, w)' : q = r
                      /\ ends(j, w)' = {} \/ closers(j, w)' = {}
    BY DEF OneEach
  <2>1. CASE j # i
    <3>1. ends(j, w)' = ends(j, w) /\ closers(j, w)' = closers(j, w)
      BY <1>20, <1>23, <2>1
    <3> QED
      BY <3>1 DEF FilesInv, OneEach
  <2>2. CASE j = i
    <3>1. ends(i, w)' = {f} \/ ends(i, w)' = {g}
      <4>1. CASE w = TRUE
        BY <1>22, <4>1, Zenon
      <4>2. CASE w = FALSE
        BY <1>22, <4>2, Zenon
      <4> QED
        BY <4>1, <4>2
    <3>2. closers(i, w)' = {}
      <4>1. CASE w = TRUE
        BY <1>20, <1>21, <4>1
      <4>2. CASE w = FALSE
        BY <1>20, <1>21, <4>2
      <4> QED
        BY <4>1, <4>2
    <3> QED
      BY <2>2, <3>1, <3>2
  <2> QED
    BY <2>1, <2>2
<1>25. whole \in PipeStates
  BY DEF PipeStates
<1>26. /\ pipe' \in [Pipes -> PipeStates] /\ pipe'[i] = whole
       /\ \A j \in Pipes \ {i} : pipe'[j] = pipe[j]
  BY <1>11, <1>25 DEF FilesInv
<1>27. OpenEnds'
  <2>1. ASSUME NEW j \in Pipes \ {i}
        PROVE  /\ pipe'[j].readopen <=> ends(j, FALSE)' # {} \/ closers(j, FALSE)' # {}
               /\ pipe'[j].writeopen <=> ends(j, TRUE)' # {} \/ closers(j, TRUE)' # {}
    BY <1>20, <1>23, <1>26 DEF FilesInv, OpenEnds
  <2>2. /\ pipe'[i].readopen <=> ends(i, FALSE)' # {} \/ closers(i, FALSE)' # {}
        /\ pipe'[i].writeopen <=> ends(i, TRUE)' # {} \/ closers(i, TRUE)' # {}
    <3>1. pipe'[i].readopen /\ pipe'[i].writeopen
      BY <1>26
    <3>2. ends(i, FALSE)' # {} /\ ends(i, TRUE)' # {}
      BY <1>22
    <3> QED
      BY <3>1, <3>2
  <2> QED
    BY <2>1, <2>2 DEF OpenEnds
<1>28. closing' \in [Procs -> Closings]
  BY DEF sys_pipe, FilesInv
<1> QED
  BY <1>14, <1>16, <1>19, <1>20, <1>24, <1>26, <1>27, <1>28 DEF FilesInv

LEMMA ForkKeepsFiles ==
  ASSUME FilesInv, NEW p \in Procs, NEW q \in Procs, ofile[q] = closedAll, forkFiles(p, q)
  PROVE  FilesInv'
<1>1. /\ ofile' = [ofile EXCEPT ![q] = ofile[p]] /\ pipe' = pipe /\ closing' = closing
      /\ file' = [f \in Entries |->
                    [file[f] EXCEPT !.ref = file[f].ref + Cardinality(naming(p, f))]]
  BY DEF forkFiles
<1>2. ofile \in Tables
  BY DEF FilesInv
<1>3. ofile' \in Tables /\ ofile'[q] = ofile[p] /\ ofile' = [ofile EXCEPT ![q] = ofile'[q]]
  BY <1>1, <1>2 DEF Tables
<1>4. ASSUME NEW f \in Entries
      PROVE  Cardinality(namedIn(ofile', f))
               = Cardinality(namedIn(ofile, f)) + Cardinality(naming(p, f))
  <2>1. row(ofile', q, f) = naming(p, f)
    BY <1>3 DEF row, naming
  <2> QED
    BY <1>2, <1>3, <2>1, RowCounted
<1>5. \A f \in Entries : Cardinality(naming(p, f)) \in Nat
  BY NamingFinite
<1>6. ASSUME NEW f \in Entries
      PROVE  /\ file'[f] \in OpenFiles
             /\ file'[f].type = file[f].type /\ file'[f].of = file[f].of
             /\ file'[f].readable = file[f].readable /\ file'[f].writable = file[f].writable
             /\ file'[f].ref = file[f].ref + Cardinality(naming(p, f))
  BY <1>1, <1>5, FileFacts DEF OpenFiles
<1>7. file' \in [Entries -> OpenFiles]
  BY <1>1, <1>6
<1>8. \A f \in Entries : /\ file'[f].ref = 0 => file[f].ref = 0
                         /\ file'[f].ref = Cardinality(namedIn(ofile', f))
  BY <1>4, <1>5, <1>6, FileFacts
<1> QED
  BY <1>1, <1>3, <1>6, <1>7, <1>8, CountsOnly DEF FilesInv

\* What is in a pipe changes, not its ends.
LEMMA DataKeepsFiles ==
  ASSUME FilesInv, NEW p \in Procs, NEW d \in Fds, NEW item \in {"text", "nul"},
         (hasData(p, d) /\ fileread(p, d)) \/ (~writeFails(p, d) /\ filewrite(p, d, item))
  PROVE  FilesInv'
<1>1. UNCHANGED <<file, ofile, closing>>
  BY DEF fileread, filewrite
<1>2. CASE isPipe(p, d)
  <2>1. PICK i \in Pipes : i = pipeOf(p, d)
    BY <1>2, FileFacts DEF FilesInv, PipesKnown, pipeOf, isPipe, isOpen
  <2>2. pipe[i] \in PipeStates
    BY DEF FilesInv
  <2>3. PICK s \in Seq({"text", "nul"}) : pipe' = [pipe EXCEPT ![i].data = s]
    <3>1. pipe[i].data \in Seq({"text", "nul"})
      BY <2>2 DEF PipeStates
    <3>2. <<>> \in Seq({"text", "nul"}) /\ Append(pipe[i].data, item) \in Seq({"text", "nul"})
      BY <3>1
    <3> QED
      BY <1>2, <2>1, <3>2 DEF fileread, filewrite
  <2>4. /\ pipe' \in [Pipes -> PipeStates]
        /\ \A j \in Pipes : /\ pipe'[j].readopen <=> pipe[j].readopen
                            /\ pipe'[j].writeopen <=> pipe[j].writeopen
    BY <2>2, <2>3 DEF FilesInv, PipeStates
  <2> QED
    BY <1>1, <2>4, CountsOnly, FileFacts DEF FilesInv
<1>3. CASE ~isPipe(p, d)
  <2>1. UNCHANGED fileVars
    BY <1>1, <1>3 DEF filewrite, hasData, readable, fileVars
  <2> QED
    BY <2>1, FilesUnchanged
<1> QED
  BY <1>2, <1>3

-----------------------------------------------------------------------------
(* The theorem. *)

LEMMA FilesInitInv == FilesInit => FilesInv
<1> SUFFICES ASSUME FilesInit PROVE FilesInv
  OBVIOUS
<1>1. noFile \in OpenFiles /\ noFile.type = "FD_NONE" /\ noFile.ref = 0
  BY DEF noFile, OpenFiles
<1>2. noPipe \in PipeStates /\ ~noPipe.readopen /\ ~noPipe.writeopen
  BY DEF noPipe, PipeStates
<1>3. none \notin Entries
  BY FilesAssumption DEF Entries
<1>4. \A f \in Entries : file[f] = noFile
  BY DEF FilesInit
<1>5. \A i \in Pipes, w \in BOOLEAN : ends(i, w) = {} /\ closers(i, w) = {}
  BY <1>1, <1>4, FilesAssumption DEF ends, closers, FilesInit, noEnd
<1>6. \A f \in Entries : holders(f) = {}
  BY <1>3 DEF FilesInit, closedAll, holders
<1>7. RefsAreDescriptors
  <2>1. Cardinality({}) = 0
    BY FS_EmptySet
  <2> QED
    BY <1>1, <1>4, <1>6, <2>1 DEF RefsAreDescriptors
<1>8. /\ file \in [Entries -> OpenFiles] /\ ofile \in Tables
      /\ pipe \in [Pipes -> PipeStates] /\ closing \in [Procs -> Closings]
  BY <1>1, <1>2 DEF FilesInit, closedAll, Tables, Closings, noEnd
<1>9. PipesKnown
  BY <1>1, <1>4 DEF PipesKnown, FilesInit
<1>10. OneEach
  BY <1>5 DEF OneEach
<1>11. OpenEnds
  <2>1. \A i \in Pipes : ~pipe[i].readopen /\ ~pipe[i].writeopen
    BY <1>2 DEF FilesInit
  <2> QED
    BY <1>5, <2>1 DEF OpenEnds
<1> QED
  BY <1>7, <1>8, <1>9, <1>10, <1>11 DEF FilesInv

LEMMA FilesNextInv == FilesInv /\ [FilesNext]_fileVars => FilesInv'
<1> SUFFICES ASSUME FilesInv, [FilesNext]_fileVars PROVE FilesInv'
  OBVIOUS
<1>1. ASSUME NEW p \in Procs, closing[p] = noEnd, Call(p) PROVE FilesInv'
  <2>1. ASSUME NEW d \in Fds, sys_close(p, d) PROVE FilesInv'
    BY <1>1, <2>1, CloseKeepsFiles
  <2>2. ASSUME NEW d \in Fds, sys_dup(p, d) PROVE FilesInv'
    BY <2>2, DupKeepsFiles
  <2>3. ASSUME NEW name \in Names, NEW mode \in {"O_RDONLY", "O_WRONLY", "O_RDWR"},
               sys_open(p, name, mode)
        PROVE  FilesInv'
    BY <2>3, OpenKeepsFiles
  <2>4. ASSUME NEW i \in Pipes, sys_pipe(p, i) PROVE FilesInv'
    BY <2>4, PipeKeepsFiles
  <2>5. ASSUME NEW q \in Procs \ {p}, ofile[q] = closedAll, forkFiles(p, q) PROVE FilesInv'
    BY <2>5, ForkKeepsFiles
  <2>6. ASSUME NEW d \in Fds, hasData(p, d), fileread(p, d) PROVE FilesInv'
    BY <2>6, DataKeepsFiles
  <2>7. ASSUME NEW d \in Fds, NEW item \in {"text", "nul"},
               ~writeFails(p, d), filewrite(p, d, item)
        PROVE  FilesInv'
    BY <2>7, DataKeepsFiles
  <2> QED
    BY <1>1, <2>1, <2>2, <2>3, <2>4, <2>5, <2>6, <2>7 DEF Call
<1>2. ASSUME NEW p \in Procs, closeEnd(p) PROVE FilesInv'
  BY <1>2, CloseEndKeepsFiles
<1>3. CASE UNCHANGED fileVars
  BY <1>3, FilesUnchanged
<1> QED
  BY <1>1, <1>2, <1>3 DEF FilesNext

LEMMA FilesInvExact == FilesInv => FilesExact
<1> SUFFICES ASSUME FilesInv PROVE FilesExact
  OBVIOUS
<1>1. FilesTypeOK
  BY DEF FilesInv, FilesTypeOK, OpenFiles, PipeStates, Tables, Closings
<1>2. ASSUME NEW i \in Pipes, NEW w \in BOOLEAN
      PROVE  Cardinality(ends(i, w)) + Cardinality(closers(i, w)) <= 1
  <2>1. /\ \A f, g \in ends(i, w) : f = g
        /\ \A p, q \in closers(i, w) : p = q
        /\ ends(i, w) = {} \/ closers(i, w) = {}
    BY DEF FilesInv, OneEach
  <2>2. ASSUME NEW S, \A x, y \in S : x = y PROVE S = {} \/ \E x : S = {x}
    <3>1. ASSUME NEW x \in S PROVE S = {x}
      BY <2>2
    <3> QED
      BY <3>1
  <2>3. Cardinality({}) = 0 /\ \A x : Cardinality({x}) = 1
    BY FS_EmptySet, FS_Singleton
  <2>4. ends(i, w) = {} \/ \E x : ends(i, w) = {x}
    BY <2>1, <2>2
  <2>5. closers(i, w) = {} \/ \E x : closers(i, w) = {x}
    BY <2>1, <2>2
  <2>6. Cardinality(ends(i, w)) \in {0, 1} /\ Cardinality(closers(i, w)) \in {0, 1}
    BY <2>3, <2>4, <2>5
  <2>7. Cardinality(ends(i, w)) = 0 \/ Cardinality(closers(i, w)) = 0
    BY <2>1, <2>3
  <2> QED
    BY <2>6, <2>7
<1>3. EndsOpen
  BY <1>2 DEF FilesInv, OpenEnds, EndsOpen
<1> QED
  BY <1>1, <1>3 DEF FilesInv, FilesExact

\* file.c:26-80, sysfile.c:41-67, 434-440, proc.c fork and exit: whatever the processes
\* call, each open file counts exactly the descriptors that name it, and an end of a
\* pipe is open exactly as long as there is an open file for it or a process between the
\* two halves of fileclose() that is about to close it, of which there is never a second.
THEOREM FilesStayExact == FilesSpec => []FilesExact
<1>1. FilesSpec => []FilesInv
  BY FilesInitInv, FilesNextInv, PTL DEF FilesSpec
<1> QED
  BY <1>1, FilesInvExact, PTL
=============================================================================
