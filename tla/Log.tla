--------------------------------- MODULE Log ---------------------------------
(***************************************************************************)
(* The write-ahead log (log.c) under the file system, with the buffer cache *)
(* and the disk below it.  File system calls of several processes share one *)
(* transaction; the last one to end commits it.  A crash may come between   *)
(* any two disk writes, in recovery too.                                    *)
(*                                                                          *)
(* A critical section of log.lock is one action, a disk write is one action *)
(* (a crash may tear it), and what log_write() does before it takes the     *)
(* lock is an action of its own.  sleep(&log) and wakeup(&log) are modelled *)
(* by the set of processes that wait.                                       *)
(***************************************************************************)
EXTENDS Integers, Sequences, FiniteSets, Functions

CONSTANTS Ops,          \* processes that make file system calls
          Blocks,       \* home blocks
          Values,       \* what may be written to a block
          Blank,        \* what a block holds at first
          MAXOPBLOCKS,  \* blocks a call may write (param.h)
          LOGSIZE,      \* blocks the in-memory header holds (param.h)
          nlog          \* size of the log on disk, header included (superblock)

NoBlock == "none"

ASSUME LogAssumption == /\ {MAXOPBLOCKS, LOGSIZE, nlog} \subseteq Nat \ {0}
                        /\ Blank \notin Values
                        /\ IsFiniteSet(Ops)
                        /\ NoBlock \notin Blocks

VARIABLES
  \* on the disk
  home,         \* the home blocks
  logBlock,     \* the blocks after the header
  head,         \* the header: the block numbers of a committed transaction
  \* in memory
  cache,        \* the contents of the home blocks as bread() returns them
  dirty,        \* the buffers pinned with B_DIRTY
  lh,           \* log.lh: the blocks of the current transaction
  outstanding, committing,
  stage, tail,  \* where commit() or recover_from_log() is
  pc,           \* where each process is
  buf,          \* the buffer a process holds locked between bread() and brelse()
  wrote,        \* the blocks each call has written
  panic         \* what has gone wrong: the message of a panic(), or a stray write

diskVars == <<home, logBlock, head>>
memVars == <<cache, dirty, lh, outstanding, committing, stage, tail>>
procVars == <<pc, buf, wrote>>
vars == <<diskVars, memVars, procVars, panic>>

Init == /\ home = [b \in Blocks |-> Blank]
        /\ logBlock = [i \in 1 .. nlog - 1 |-> Blank]
        /\ head = <<>>
        /\ cache = home /\ dirty = {} /\ lh = <<>>
        /\ outstanding = 0 /\ committing = FALSE
        /\ stage = "read_head" /\ tail = 0      \* initlog() is about to recover
        /\ pc = [o \in Ops |-> "idle"]
        /\ buf = [o \in Ops |-> NoBlock]
        /\ wrote = [o \in Ops |-> {}]
        /\ panic = "no"

Running == panic = "no"
Recovering == stage \in {"read_head", "reinstall", "clear"}
At(o, label) == Running /\ ~Recovering /\ pc[o] = label

-----------------------------------------------------------------------------
\* wakeup(&log): whoever sleeps goes back to the loop of begin_op(); and a slip, no
\* wakeup.
NotWoken == pc
Woken == [o \in Ops |-> IF pc[o] = "sleep" THEN "begin" ELSE pc[o]]

\* When begin_op() sleeps; and a slip, which does not look at log.committing.
noSpace == Len(lh) + (outstanding + 1) * MAXOPBLOCKS > LOGSIZE
mustWait == committing \/ noSpace

\* One turn of the loop of begin_op().
begin_op(o) ==
    /\ At(o, "idle") \/ At(o, "begin")
    /\ IF mustWait
         THEN pc' = [pc EXCEPT ![o] = "sleep"] /\ UNCHANGED outstanding
         ELSE pc' = [pc EXCEPT ![o] = "run"] /\ outstanding' = outstanding + 1
    /\ wrote' = [wrote EXCEPT ![o] = {}]
    /\ UNCHANGED <<diskVars, cache, dirty, lh, committing, stage, tail, buf, panic>>

\* bread(b) and a change of b->data under the buffer's sleep-lock (fs.c and the like).
modify(o, b, v) ==
    /\ At(o, "run")
    /\ \A p \in Ops : buf[p] # b
    /\ Cardinality(wrote[o] \cup {b}) <= MAXOPBLOCKS
    /\ cache' = [cache EXCEPT ![b] = v]
    /\ buf' = [buf EXCEPT ![o] = b]
    /\ wrote' = [wrote EXCEPT ![o] = @ \cup {b}]
    /\ pc' = [pc EXCEPT ![o] = "check"]
    /\ UNCHANGED <<diskVars, dirty, lh, outstanding, committing, stage, tail, panic>>

\* log_write() before acquire(): the sizes are tested without the lock.
log_write_check(o) ==
    /\ At(o, "check")
    /\ IF Len(lh) >= LOGSIZE \/ Len(lh) >= nlog - 1
         THEN panic' = "too big a transaction" /\ UNCHANGED pc
         ELSE IF outstanding < 1
                THEN panic' = "log_write outside of trans" /\ UNCHANGED pc
                ELSE pc' = [pc EXCEPT ![o] = "append"] /\ UNCHANGED panic
    /\ UNCHANGED <<diskVars, memVars, buf, wrote>>

\* Block b is recorded, if it is not already (absorption), and its buffer pinned;
\* and a slip, without the search.
recordedAgain(b) == Append(lh, b)
recorded(b) == IF b \in Range(lh) THEN lh ELSE Append(lh, b)
pinned(b) == dirty \cup {b}

\* log_write() with the lock: absorb or append, pin the buffer; then brelse().
log_write(o) ==
    /\ At(o, "append")
    /\ lh' = recorded(buf[o])
    /\ dirty' = pinned(buf[o])
    /\ buf' = [buf EXCEPT ![o] = NoBlock]
    /\ pc' = [pc EXCEPT ![o] = "run"]
    /\ UNCHANGED <<diskVars, cache, outstanding, committing, stage, tail, wrote, panic>>

\* end_op() up to its release(): the last one out becomes the committer.
end_op(o) ==
    /\ At(o, "run")
    /\ outstanding' = outstanding - 1
    /\ IF committing
         THEN panic' = "log.committing" /\ UNCHANGED <<committing, stage, tail, pc>>
         ELSE IF outstanding = 1
                THEN /\ committing' = TRUE
                     /\ stage' = (IF lh = <<>> THEN "finish" ELSE "write_log")
                     /\ tail' = 0
                     /\ pc' = [pc EXCEPT ![o] = "commit"]
                     /\ UNCHANGED panic
                ELSE /\ pc' = [Woken EXCEPT ![o] = "idle"]
                     /\ UNCHANGED <<committing, stage, tail, panic>>
    /\ UNCHANGED <<diskVars, cache, dirty, lh, buf, wrote>>

-----------------------------------------------------------------------------
\* commit(), one disk write at a time, without any lock.  tail counts the blocks done.
\* A block after the last one of the log is an inode block: the model stops there.
write_log ==
    /\ Running /\ stage = "write_log"
    /\ IF tail + 1 < nlog
         THEN logBlock' = [logBlock EXCEPT ![tail + 1] = cache[lh[tail + 1]]] /\ UNCHANGED panic
         ELSE panic' = "past the log" /\ UNCHANGED logBlock
    /\ IF tail + 1 < Len(lh) THEN tail' = tail + 1 /\ UNCHANGED stage
                             ELSE tail' = 0 /\ stage' = "write_head"
    /\ UNCHANGED <<home, head, cache, dirty, lh, outstanding, committing, procVars>>

\* The commit point.
write_head ==
    /\ Running /\ stage = "write_head"
    /\ head' = lh
    /\ stage' = "install"
    /\ UNCHANGED <<home, logBlock, cache, dirty, lh, outstanding, committing, tail,
                   procVars, panic>>

\* A log block goes to its home, through the cache; the write cleans the buffer.
\* The same function serves commit() and recovery.
install_trans ==
    /\ Running /\ stage \in {"install", "reinstall"}
    /\ home' = [home EXCEPT ![lh[tail + 1]] = logBlock[tail + 1]]
    /\ cache' = [cache EXCEPT ![lh[tail + 1]] = logBlock[tail + 1]]
    /\ dirty' = dirty \ {lh[tail + 1]}
    /\ IF tail + 1 < Len(lh)
         THEN tail' = tail + 1 /\ UNCHANGED stage
         ELSE tail' = 0 /\ stage' = (IF stage = "install" THEN "erase" ELSE "clear")
    /\ UNCHANGED <<logBlock, head, lh, outstanding, committing, procVars, panic>>

\* log.lh.n = 0 and write_head(): the transaction is erased from the log.
erase ==
    /\ Running /\ stage \in {"erase", "clear"}
    /\ lh' = <<>>
    /\ head' = <<>>
    /\ stage' = (IF stage = "erase" THEN "finish" ELSE "none")
    /\ UNCHANGED <<home, logBlock, cache, dirty, outstanding, committing, tail, procVars, panic>>

\* The end of end_op(): the committer opens the log again.
finish(o) ==
    /\ At(o, "commit") /\ stage = "finish"
    /\ committing' = FALSE
    /\ stage' = "none"
    /\ pc' = [Woken EXCEPT ![o] = "idle"]
    /\ UNCHANGED <<diskVars, cache, dirty, lh, outstanding, tail, buf, wrote, panic>>

\* bget() recycles a buffer that is neither referenced nor dirty; the next bread()
\* reads the block from the disk again.
bget_recycle(b) ==
    /\ Running
    /\ b \notin dirty /\ \A o \in Ops : buf[o] # b
    /\ cache' = [cache EXCEPT ![b] = home[b]]
    /\ UNCHANGED <<diskVars, dirty, lh, outstanding, committing, stage, tail, procVars, panic>>

-----------------------------------------------------------------------------
\* A block is four sectors (BSIZE, ide.c:84), so that a crash in the middle of bwrite()
\* leaves a mixture: any value.  The header is within the first sector of its block, and
\* so is written or not.
torn ==
    /\ Running
    /\ \E v \in Values \cup {Blank} :
         \/ /\ stage = "write_log"
            /\ logBlock' = [logBlock EXCEPT ![tail + 1] = v] /\ UNCHANGED home
         \/ /\ stage \in {"install", "reinstall"}
            /\ home' = [home EXCEPT ![lh[tail + 1]] = v] /\ UNCHANGED logBlock

\* The machine loses its memory, in the middle of a disk write or not, and boots again.
crash ==
    /\ torn \/ UNCHANGED <<home, logBlock>>
    /\ cache' = home' /\ dirty' = {} /\ lh' = <<>>
    /\ outstanding' = 0 /\ committing' = FALSE
    /\ stage' = "read_head" /\ tail' = 0
    /\ pc' = [o \in Ops |-> "idle"]
    /\ buf' = [o \in Ops |-> NoBlock]
    /\ wrote' = [o \in Ops |-> {}]
    /\ panic' = "no"
    /\ UNCHANGED head

\* A slip: the header is cleared without a look at it.
recoverNothing ==
    /\ Running /\ stage = "read_head"
    /\ stage' = "clear"
    /\ UNCHANGED <<diskVars, cache, dirty, lh, outstanding, committing, tail, procVars, panic>>

\* recover_from_log(): read_head(), then install_trans() and the erasure above.
read_head ==
    /\ Running /\ stage = "read_head"
    /\ lh' = head
    /\ stage' = (IF head = <<>> THEN "clear" ELSE "reinstall")
    /\ UNCHANGED <<diskVars, cache, dirty, outstanding, committing, tail, procVars, panic>>

CommitStep == write_log \/ write_head \/ install_trans \/ erase \/ read_head

Next == \/ \E o \in Ops : \/ begin_op(o)
                          \/ \E b \in Blocks, v \in Values : modify(o, b, v)
                          \/ log_write_check(o)
                          \/ log_write(o)
                          \/ end_op(o)
                          \/ finish(o)
        \/ CommitStep
        \/ \E b \in Blocks : bget_recycle(b)
        \/ crash

\* Processes are scheduled again and again and every system call ends.  A process need
\* not make a call, and the machine need not crash.
Fairness == /\ WF_vars(CommitStep)
            /\ \A o \in Ops : /\ WF_vars(At(o, "begin") /\ begin_op(o))
                              /\ WF_vars(log_write_check(o) \/ log_write(o))
                              /\ WF_vars(finish(o))
                              /\ SF_vars(end_op(o))

Spec == Init /\ [][Next]_vars
FairSpec == Spec /\ Fairness

-----------------------------------------------------------------------------
TypeOK ==
    /\ home \in [Blocks -> Values \cup {Blank}]
    /\ cache \in [Blocks -> Values \cup {Blank}]
    /\ logBlock \in [1 .. nlog - 1 -> Values \cup {Blank}]
    /\ head \in Seq(Blocks) /\ lh \in Seq(Blocks) /\ IsInjective(lh)
    /\ dirty \subseteq Blocks
    /\ outstanding \in 0 .. Cardinality(Ops)
    /\ committing \in BOOLEAN
    /\ stage \in {"none", "write_log", "write_head", "install", "erase", "finish",
                  "read_head", "reinstall", "clear"}
    /\ tail \in 0 .. LOGSIZE
    /\ pc \in [Ops -> {"idle", "begin", "sleep", "run", "check", "append", "commit"}]
    /\ buf \in [Ops -> Blocks \cup {NoBlock}]
    /\ wrote \in [Ops -> SUBSET Blocks]
    /\ panic \in {"no", "too big a transaction", "log_write outside of trans", "log.committing",
                  "past the log"}

Active == {o \in Ops : pc[o] \in {"run", "check", "append"}}

\* log.outstanding counts the calls in progress, there is at most one committer, and it
\* works only while there are none: no call modifies a block that is being committed.
CommitAlone ==
    /\ outstanding = Cardinality(Active)
    /\ committing => Active = {}
    /\ Cardinality({o \in Ops : pc[o] = "commit"}) = (IF committing THEN 1 ELSE 0)

\* Two of the panics cannot happen: end_op() never finds a commit in progress, nor
\* log_write() no call.
PanicsOK == panic \notin {"log.committing", "log_write outside of trans"}

\* log.c:126-235: the counters of the log are right, commits run alone, and the array of
\* log.lh never overflows, though log_write() tests its room without the lock.
LogSafe == TypeOK /\ CommitAlone /\ PanicsOK /\ Len(lh) <= LOGSIZE

\* What the disk would hold after a crash now, and the view of the file system.
Durable == [b \in Blocks |-> IF b \in Range(head)
                               THEN logBlock[CHOOSE i \in 1 .. Len(head) : head[i] = b]
                               ELSE home[b]]
Current == IF Recovering THEN Durable ELSE cache

Atomic == INSTANCE AtomicDisk WITH durable <- Durable, current <- Current, active <- Active

\* With crashes at any point, the log makes the disk change atomically, at moments when
\* no call is in progress, and recovery restores the last such state.
ImplementsAtomicDisk == Atomic!DiskSpec

\* A process that waits for the log to be committed is woken up.
SleepersWoken == \A o \in Ops : pc[o] = "sleep" ~> pc[o] # "sleep"

\* log.c:20-21: "if it thinks the log is close to running out, it sleeps until the last
\* outstanding end_op() commits", and param.h:11, LOGSIZE is the "max data blocks in
\* on-disk log": calls that keep to MAXOPBLOCKS blocks never exhaust the log.
NeverTooBig == panic # "too big a transaction"
=============================================================================
