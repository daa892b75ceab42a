------------------------------ MODULE Spinlock ------------------------------
(***************************************************************************)
(* Spin-locks, interrupts and context switches (src/spinlock.c, the        *)
(* scheduler's side of src/proc.c, the timer in src/trap.c): what the other *)
(* modules rely on when they take a critical section for one step.  The    *)
(* threads sleep until the next tick or compute, and every CPU takes timer  *)
(* interrupts whenever it lets them through.                                *)
(*                                                                         *)
(* A context (a thread in the kernel, or the scheduler of a CPU) is the     *)
(* steps it still has to do; an interrupt puts its handler in front of      *)
(* them.  A thread without steps is in user mode.                           *)
(***************************************************************************)
EXTENDS Integers, Sequences, FiniteSets

CONSTANTS
    CPUs,
    cpu0,       \* the CPU that counts the ticks
    Threads,
    nobody

Locks == {"ptable", "tickslock"}

VARIABLES
    locked, lkcpu,        \* of every lock
    IF_, ncli, intena,    \* of every CPU; IF_ is the interrupt flag
    thread,               \* the thread on a CPU; nobody: its scheduler runs
    code,                 \* the steps of every context
    status,               \* p->state
    saved,                \* intena in the frame of sched()
    panicked

vars == <<locked, lkcpu, IF_, ncli, intena, thread, code, status, saved, panicked>>

cpuVars == <<IF_, ncli, intena>>
lockVars == <<locked, lkcpu>>

----------------------------------------------------------------------------
(* The functions, as the steps they consist of.                            *)

acquire(lk) == <<<<"pushcli">>, <<"not holding", lk>>, <<"xchg", lk>>, <<"own", lk>>>>

\* A slip: the lock is open before its owner is cleared.
releaseUnlocksFirst(lk) ==
    <<<<"holding", lk>>, <<"unlock", lk>>, <<"disown", lk>>, <<"popcli">>>>

release(lk) == <<<<"holding", lk>>, <<"disown", lk>>, <<"unlock", lk>>, <<"popcli">>>>

myproc == <<<<"pushcli">>, <<"mycpu">>, <<"popcli">>>>

\* Slip: intena stays what it was.
schedForgets == <<<<"sched">>>>
sched == <<<<"sched">>, <<"restore">>>>

yield == acquire("ptable") \o <<<<"runnable">>>> \o sched \o release("ptable")

sleep(lk) ==
    acquire("ptable") \o release(lk) \o <<<<"sleeping">>>> \o sched
        \o release("ptable") \o acquire(lk)

wakeup == acquire("ptable") \o <<<<"wakeup1">>>> \o release("ptable")

\* trap() for sys_sleep(1).
sys_sleep ==
    myproc \o acquire("tickslock") \o myproc \o sleep("tickslock") \o release("tickslock")

\* trap() for the timer, on CPU c with thread t.
timer(c, t) ==
    (IF c = cpu0 THEN acquire("tickslock") \o wakeup \o release("tickslock") ELSE <<>>)
        \o myproc \o (IF t = nobody THEN <<>> ELSE yield) \o <<<<"iret">>>>

forkret == release("ptable") \o <<<<"trapret">>>>

scheduler == <<<<"sti">>>> \o acquire("ptable") \o <<<<"pick">>>>

----------------------------------------------------------------------------
(* One step of a CPU.                                                      *)

context(c) == IF thread[c] = nobody THEN c ELSE thread[c]

at(c, name) == panicked = "no" /\ code[context(c)] # <<>> /\ Head(code[context(c)])[1] = name
lock(c) == Head(code[context(c)])[2]

done(c) == code' = [code EXCEPT ![context(c)] = Tail(@)]

\* The step panics unless ok.
ensure(ok, message) == panicked' = IF ok THEN panicked ELSE message

holds(c, lk) == locked[lk] /\ lkcpu[lk] = c

pushcli(c) ==
    /\ at(c, "pushcli")
    /\ IF_' = [IF_ EXCEPT ![c] = FALSE]
    /\ intena' = [intena EXCEPT ![c] = IF ncli[c] = 0 THEN IF_[c] ELSE @]
    /\ ncli' = [ncli EXCEPT ![c] = @ + 1]
    /\ done(c)
    /\ UNCHANGED <<lockVars, thread, status, saved, panicked>>

popcli(c) ==
    /\ at(c, "popcli")
    /\ ensure(~IF_[c] /\ ncli[c] > 0, "popcli")
    /\ ncli' = [ncli EXCEPT ![c] = @ - 1]
    /\ IF_' = [IF_ EXCEPT ![c] = IF ncli[c] = 1 /\ intena[c] THEN TRUE ELSE @]
    /\ done(c)
    /\ UNCHANGED <<lockVars, intena, thread, status, saved>>

\* holding(), which calls mycpu(), in acquire() and in release().
testHolding(c) ==
    /\ \/ at(c, "holding") /\ ensure(holds(c, lock(c)) /\ ~IF_[c], "release")
       \/ at(c, "not holding") /\ ensure(~holds(c, lock(c)) /\ ~IF_[c], "acquire")
       \/ at(c, "mycpu") /\ ensure(~IF_[c], "mycpu")
    /\ done(c)
    /\ UNCHANGED <<lockVars, cpuVars, thread, status, saved>>

\* The loop of acquire() ends.
xchg(c) ==
    /\ at(c, "xchg") /\ ~locked[lock(c)]
    /\ locked' = [locked EXCEPT ![lock(c)] = TRUE]
    /\ done(c)
    /\ UNCHANGED <<lkcpu, cpuVars, thread, status, saved, panicked>>

setOwner(c) ==
    /\ \/ at(c, "own") /\ lkcpu' = [lkcpu EXCEPT ![lock(c)] = c]
       \/ at(c, "disown") /\ lkcpu' = [lkcpu EXCEPT ![lock(c)] = nobody]
    /\ done(c)
    /\ UNCHANGED <<locked, cpuVars, thread, status, saved, panicked>>

unlock(c) ==
    /\ at(c, "unlock")
    /\ locked' = [locked EXCEPT ![lock(c)] = FALSE]
    /\ done(c)
    /\ UNCHANGED <<lkcpu, cpuVars, thread, status, saved, panicked>>

\* The assignments to p->state.
setState(c) ==
    /\ \/ at(c, "runnable") /\ status' = [status EXCEPT ![thread[c]] = "RUNNABLE"]
       \/ at(c, "sleeping") /\ status' = [status EXCEPT ![thread[c]] = "SLEEPING"]
       \/ at(c, "wakeup1")
          /\ status' = [t \in Threads |->
                           IF status[t] = "SLEEPING" THEN "RUNNABLE" ELSE status[t]]
    /\ done(c)
    /\ UNCHANGED <<lockVars, cpuVars, thread, saved, panicked>>

\* sched() up to swtch().
switchAway(c) ==
    /\ at(c, "sched")
    /\ ensure(/\ holds(c, "ptable") /\ ncli[c] = 1 /\ ~IF_[c]
              /\ status[thread[c]] # "RUNNING", "sched")
    /\ saved' = [saved EXCEPT ![thread[c]] = intena[c]]
    /\ thread' = [thread EXCEPT ![c] = nobody]
    /\ done(c)
    /\ UNCHANGED <<lockVars, cpuVars, status>>

\* sched() behind swtch(), on whatever CPU.
restore(c) ==
    /\ at(c, "restore")
    /\ intena' = [intena EXCEPT ![c] = saved[thread[c]]]
    /\ done(c)
    /\ UNCHANGED <<lockVars, IF_, ncli, thread, status, saved, panicked>>

\* scheduler(): the next process of the table, or the end of the table.
pick(c) ==
    /\ at(c, "pick")
    /\ \/ \E t \in Threads :
             /\ status[t] = "RUNNABLE"
             /\ status' = [status EXCEPT ![t] = "RUNNING"]
             /\ thread' = [thread EXCEPT ![c] = t]
             /\ UNCHANGED code
       \/ /\ code' = [code EXCEPT ![c] = release("ptable") \o scheduler]
          /\ UNCHANGED <<status, thread>>
    /\ UNCHANGED <<lockVars, cpuVars, saved, panicked>>

\* sti(), and the return from a trap to where interrupts were on.
enable(c) ==
    /\ \E name \in {"sti", "iret", "trapret"} : at(c, name)
    /\ IF_' = [IF_ EXCEPT ![c] = TRUE]
    /\ done(c)
    /\ UNCHANGED <<lockVars, ncli, intena, thread, status, saved, panicked>>

\* The timer interrupts CPU c; its gate turns interrupts off.
interrupt(c) ==
    /\ panicked = "no" /\ IF_[c]
    /\ IF_' = [IF_ EXCEPT ![c] = FALSE]
    /\ code' = [code EXCEPT ![context(c)] = timer(c, thread[c]) \o @]
    /\ UNCHANGED <<lockVars, ncli, intena, thread, status, saved, panicked>>

\* A thread in user mode makes a system call, whose gate leaves interrupts on.
systemCall(c) ==
    /\ panicked = "no" /\ thread[c] # nobody /\ code[thread[c]] = <<>>
    /\ code' = [code EXCEPT ![thread[c]] = sys_sleep]
    /\ UNCHANGED <<lockVars, cpuVars, thread, status, saved, panicked>>

----------------------------------------------------------------------------

Init ==
    /\ locked = [lk \in Locks |-> FALSE]
    /\ lkcpu = [lk \in Locks |-> nobody]
    /\ IF_ = [c \in CPUs |-> FALSE]
    /\ ncli = [c \in CPUs |-> 0]
    /\ intena = [c \in CPUs |-> FALSE]
    /\ thread = [c \in CPUs |-> nobody]
    /\ code = [x \in CPUs \cup Threads |-> IF x \in CPUs THEN scheduler ELSE forkret]
    /\ status = [t \in Threads |-> "RUNNABLE"]
    /\ saved = [t \in Threads |-> FALSE]
    /\ panicked = "no"

Step(c) ==
    \/ pushcli(c) \/ popcli(c) \/ testHolding(c) \/ xchg(c) \/ setOwner(c) \/ unlock(c)
    \/ setState(c) \/ switchAway(c) \/ restore(c) \/ pick(c) \/ enable(c)

Next == \E c \in CPUs : Step(c) \/ interrupt(c) \/ systemCall(c)

Spec == Init /\ [][Next]_vars

----------------------------------------------------------------------------
(* Properties.                                                             *)

\* The context is between xchg() and the end of release().
isInside(x, lk) ==
    \E i \in DOMAIN code[x] :
        /\ code[x][i] = <<"unlock", lk>> \/ (lk = "ptable" /\ code[x][i] = <<"pick">>)
        /\ \A j \in 1 .. i - 1 : code[x][j] # <<"xchg", lk>>

inHandler(x) == \E i \in DOMAIN code[x] : code[x][i] = <<"iret">>
starting(x) == \E i \in DOMAIN code[x] : code[x][i] = <<"trapret">>

\* spinlock.c:25-68: at most one CPU is inside a lock, also across the switch from
\* a thread to the scheduler that releases what the thread acquired, and no panic of
\* acquire(), release(), popcli(), mycpu() and sched() can happen.
MutualExclusion ==
    /\ panicked = "no"
    /\ \A lk \in Locks :
          Cardinality({c \in CPUs : isInside(context(c), lk)}) = IF locked[lk] THEN 1 ELSE 0

\* spinlock.c:105-125, proc.c:358-382: a thread has interrupts on if and only if it holds no lock
\* and is in no handler: no handler waits for a lock of the code that it interrupted,
\* none is interrupted itself, and a thread that slept or was preempted, and
\* goes on on another CPU, finds interrupts as it left them.
InterruptsAsLeft ==
    \A c \in CPUs :
        /\ ncli[c] > 0 => ~IF_[c]
        /\ (thread[c] # nobody /\ ~starting(thread[c])) =>
               (IF_[c] <=> (ncli[c] = 0 /\ ~inHandler(thread[c])))
=============================================================================
