---------------------------- MODULE BufferCache ----------------------------
(***************************************************************************)
(* The buffer cache (bio.c) with its sleep-locks (sleeplock.c) and the disk *)
(* driver (ide.c).  bget() lets bcache.lock go before it waits for the      *)
(* buffer's lock, brelse() lets the buffer's lock go before it takes        *)
(* bcache.lock, and a request is finished by an interrupt that finds it at  *)
(* the head of idequeue: each critical section is an action.                *)
(***************************************************************************)
EXTENDS Integers, Sequences, FiniteSets

CONSTANTS Procs, Blocks, Values,
          Blank,       \* what the disk holds at first
          NBUF,        \* buffers (param.h)
          MaxPinned,   \* buffers the log may keep dirty at a time
          NoProc

NoBuf == 0
NoBlock == "no block"

ASSUME CacheAssumption == /\ NBUF \in Nat \ {0} /\ MaxPinned \in Nat
                          /\ Blank \in Values
                          /\ IsFiniteSet(Procs) /\ NoProc \notin Procs
                          /\ NoBlock \notin Blocks

VARIABLES buf,        \* struct buf; owner is the holder of its sleep-lock
          lru,        \* the list through prev and next, head.next first
          idequeue,   \* buffers to be read or written, the active one first
          request,    \* what the controller is working on
          disk,
          pc, b,      \* where a process is, and the buffer it is concerned with
          want,       \* the blockno it asked for
          got,        \* b->data as bread() returned it
          panic

cacheVars == <<buf, lru>>
ideVars == <<idequeue, request, disk>>
vars == <<cacheVars, ideVars, pc, b, want, got, panic>>

Bufs == 1 .. NBUF
NoRequest == [blockno |-> NoBlock, write |-> FALSE, data |-> Blank]

\* binit().  No buffer is of the root device yet.
Init == /\ buf = [i \in Bufs |-> [blockno |-> NoBlock, valid |-> FALSE, dirty |-> FALSE,
                                  refcnt |-> 0, data |-> Blank, owner |-> NoProc]]
        /\ lru = [n \in Bufs |-> NBUF + 1 - n]
        /\ idequeue = <<>> /\ request = NoRequest
        /\ disk = [k \in Blocks |-> Blank]
        /\ pc = [p \in Procs |-> "idle"]
        /\ b = [p \in Procs |-> NoBuf]
        /\ want = [p \in Procs |-> NoBlock]
        /\ got = [p \in Procs |-> Blank]
        /\ panic = "no"

At(p, label) == panic = "no" /\ pc[p] = label

-----------------------------------------------------------------------------
\* bget(): the buffers that hold block k; and a slip, which passes over a buffer that
\* is still being read.
cachedAndRead(k) == {i \in Bufs : buf[i].blockno = k /\ buf[i].valid}
cached(k) == {i \in Bufs : buf[i].blockno = k}

\* The buffers bget() may recycle; and slips, which leave out a test.
notDirty == {i \in Bufs : ~buf[i].dirty}
notReferenced == {i \in Bufs : buf[i].refcnt = 0}
recyclable == {i \in Bufs : buf[i].refcnt = 0 /\ ~buf[i].dirty}

\* The buffer in S that comes last in the list.
leastRecent(S) == lru[CHOOSE n \in Bufs : lru[n] \in S /\ \A m \in n + 1 .. NBUF : lru[m] \notin S]

\* The critical section of bget().
bget(p, k) ==
    /\ At(p, "idle")
    /\ IF cached(k) = {} /\ recyclable = {}
         THEN panic' = "no buffers" /\ UNCHANGED <<buf, pc, b, want>>
         ELSE LET i == IF cached(k) # {} THEN CHOOSE j \in cached(k) : TRUE
                                         ELSE leastRecent(recyclable)
              IN  /\ buf' = IF cached(k) # {}
                              THEN [buf EXCEPT ![i].refcnt = @ + 1]
                              ELSE [buf EXCEPT ![i].blockno = k, ![i].refcnt = 1,
                                               ![i].valid = FALSE, ![i].dirty = FALSE]
                  /\ b' = [b EXCEPT ![p] = i]
                  /\ want' = [want EXCEPT ![p] = k]
                  /\ pc' = [pc EXCEPT ![p] = "lock"]
                  /\ UNCHANGED panic
    /\ UNCHANGED <<lru, ideVars, got>>

\* One turn of the loop of acquiresleep(), and the test of B_VALID in bread().
acquiresleep(p) ==
    LET i == b[p]
    IN  /\ At(p, "lock")
        /\ IF buf[i].owner # NoProc
             THEN pc' = [pc EXCEPT ![p] = "sleeplock"] /\ UNCHANGED <<buf, got>>
             ELSE /\ buf' = [buf EXCEPT ![i].owner = p]
                  /\ pc' = [pc EXCEPT ![p] = IF buf[i].valid THEN "use" ELSE "read"]
                  /\ got' = [got EXCEPT ![p] = IF buf[i].valid THEN buf[i].data ELSE @]
        /\ UNCHANGED <<lru, ideVars, b, want, panic>>

-----------------------------------------------------------------------------
\* The controller gets the request for the first buffer of the queue, with the data if
\* it is to be written; and a slip, a request that is not started.
notStarted(B, q) == NoRequest
idestart(B, q) == IF q = <<>> THEN NoRequest
                  ELSE [blockno |-> B[Head(q)].blockno, write |-> B[Head(q)].dirty,
                        data |-> B[Head(q)].data]

\* iderw() up to its sleep(), for buffers B: append, start the disk if it is idle.
enqueue(p, B) == /\ buf' = B
                 /\ idequeue' = Append(idequeue, b[p])
                 /\ request' = IF idequeue = <<>> THEN idestart(B, idequeue') ELSE request

\* bread() of a buffer that is not valid.
iderw(p) == /\ At(p, "read")
            /\ enqueue(p, buf)
            /\ pc' = [pc EXCEPT ![p] = "reading"]
            /\ UNCHANGED <<lru, disk, b, want, got, panic>>

\* The holder puts v into b->data and calls bwrite(), as the log does.
bwrite(p, v) == /\ At(p, "use")
                /\ enqueue(p, [buf EXCEPT ![b[p]].data = v, ![b[p]].dirty = TRUE])
                /\ pc' = [pc EXCEPT ![p] = "writing"]
                /\ UNCHANGED <<lru, disk, b, want, got, panic>>

\* The disk has done what was requested, without an error, and ideintr() runs.
ideintr ==
    LET i == Head(idequeue)
        data == IF buf[i].dirty THEN buf[i].data ELSE disk[request.blockno]
    IN  /\ panic = "no"
        /\ request # NoRequest
        /\ disk' = IF request.write THEN [disk EXCEPT ![request.blockno] = request.data]
                                    ELSE disk
        /\ buf' = [buf EXCEPT ![i].data = data, ![i].valid = TRUE, ![i].dirty = FALSE]
        /\ idequeue' = Tail(idequeue)
        /\ request' = idestart(buf', idequeue')
        /\ pc' = [p \in Procs |-> IF b[p] # i THEN pc[p]
                                  ELSE CASE pc[p] = "reading" -> "readDone"
                                         [] pc[p] = "writing" -> "written"
                                         [] OTHER -> pc[p]]
        /\ UNCHANGED <<lru, b, want, got, panic>>

\* iderw() after its sleep(): return if the buffer is valid and clean, else sleep on.
iderwReturn(p) ==
    LET i == b[p]
        done == buf[i].valid /\ ~buf[i].dirty
    IN  /\ At(p, "readDone") \/ At(p, "written")
        /\ pc' = [pc EXCEPT ![p] = CASE done -> "use"
                                     [] ~done /\ pc[p] = "readDone" -> "reading"
                                     [] OTHER -> "writing"]
        /\ got' = [got EXCEPT ![p] = IF pc[p] = "readDone" THEN buf[i].data ELSE @]
        /\ UNCHANGED <<cacheVars, ideVars, b, want, panic>>

-----------------------------------------------------------------------------
\* The holder puts v into b->data and calls log_write(), as the file system does: the
\* buffer is dirty until the log has it written.
log_write(p, v) ==
    LET i == b[p]
    IN  /\ At(p, "use")
        /\ buf[i].dirty \/ Cardinality({j \in Bufs : buf[j].dirty}) < MaxPinned
        /\ buf' = [buf EXCEPT ![i].data = v, ![i].dirty = TRUE]
        /\ UNCHANGED <<lru, ideVars, pc, b, want, got, panic>>

\* wakeup(lk) of releasesleep().
lockersWoken(i) == [p \in Procs |-> IF pc[p] = "sleeplock" /\ b[p] = i THEN "lock" ELSE pc[p]]

\* brelse() before it acquires bcache.lock.
releasesleep(p) == /\ At(p, "use")
                   /\ buf' = [buf EXCEPT ![b[p]].owner = NoProc]
                   /\ pc' = [lockersWoken(b[p]) EXCEPT ![p] = "put"]
                   /\ got' = [got EXCEPT ![p] = Blank]
                   /\ UNCHANGED <<lru, ideVars, b, want, panic>>

\* The list after the buffer moved to its front; and a slip, which does not take it out.
linkedTwice(i) == <<i>> \o lru
toFront(i) == LET at == CHOOSE n \in Bufs : lru[n] = i
              IN  [n \in Bufs |-> IF n = 1 THEN i ELSE IF n <= at THEN lru[n - 1] ELSE lru[n]]

brelse(p) == /\ At(p, "put")
             /\ buf' = [buf EXCEPT ![b[p]].refcnt = @ - 1]
             /\ lru' = IF buf[b[p]].refcnt = 1 THEN toFront(b[p]) ELSE lru
             /\ pc' = [pc EXCEPT ![p] = "idle"]
             /\ b' = [b EXCEPT ![p] = NoBuf]
             /\ want' = [want EXCEPT ![p] = NoBlock]
             /\ UNCHANGED <<ideVars, got, panic>>

Next == \/ \E p \in Procs : \/ \E k \in Blocks : bget(p, k)
                            \/ acquiresleep(p) \/ iderw(p) \/ iderwReturn(p)
                            \/ \E v \in Values : bwrite(p, v) \/ log_write(p, v)
                            \/ releasesleep(p) \/ brelse(p)
        \/ ideintr

\* Processes in the kernel go on, the disk answers, and nobody who has a buffer writes
\* it for ever.  acquiresleep() is not fair among the processes that wait.
Fairness == /\ WF_vars(ideintr)
            /\ \A p \in Procs : /\ WF_vars(iderw(p)) /\ WF_vars(iderwReturn(p))
                                /\ WF_vars(acquiresleep(p)) /\ SF_vars(releasesleep(p))

Spec == Init /\ [][Next]_vars
FairSpec == Spec /\ Fairness

-----------------------------------------------------------------------------
InUse == {"use", "writing", "written"}
Holding == InUse \cup {"read", "reading", "readDone"}
Referencing == Holding \cup {"lock", "sleeplock", "put"}

TypeOK ==
    /\ buf \in [Bufs -> [blockno : Blocks \cup {NoBlock}, valid : BOOLEAN, dirty : BOOLEAN,
                         refcnt : 0 .. Cardinality(Procs), data : Values,
                         owner : Procs \cup {NoProc}]]
    /\ lru \in [Bufs -> Bufs] /\ \A i \in Bufs : \E n \in Bufs : lru[n] = i
    /\ idequeue \in Seq(Bufs) /\ Len(idequeue) <= NBUF
    /\ request \in [blockno : Blocks \cup {NoBlock}, write : BOOLEAN, data : Values]
    /\ disk \in [Blocks -> Values]
    /\ pc \in [Procs -> Referencing \cup {"idle"}]
    /\ b \in [Procs -> Bufs \cup {NoBuf}] /\ want \in [Procs -> Blocks \cup {NoBlock}]
    /\ got \in [Procs -> Values]
    /\ panic \in {"no", "no buffers"}

\* bio.c:3-5: cached copies are a "synchronization point for disk blocks used by
\* multiple processes": there is never a second copy of a block, not even while the
\* first is still being read.
OneCopy == \A i, j \in Bufs : buf[i].blockno = buf[j].blockno /\ buf[i].blockno # NoBlock
                             => i = j

\* A process that has found its buffer in bget() and waits for the sleep-lock, without
\* bcache.lock, gets the block it asked for: nobody recycles the buffer under it.  The
\* reference counts are exact, so that no buffer is lost for recycling either.
BufferKept ==
    /\ \A p \in Procs : pc[p] \in Referencing => buf[b[p]].blockno = want[p]
    /\ \A i \in Bufs :
           buf[i].refcnt = Cardinality({p \in Procs : b[p] = i /\ pc[p] \in Referencing})
    /\ \A p \in Procs, i \in Bufs : buf[i].owner = p <=> b[p] = i /\ pc[p] \in Holding

\* bio.c:58-140: one buffer per block, kept for as long as it is referenced.
CacheSafe == TypeOK /\ OneCopy /\ BufferKept

\* The blocks as their users see them: in a buffer that is valid, else on the disk.
Content == [k \in Blocks |-> IF \E i \in Bufs : buf[i].blockno = k /\ buf[i].valid
                               THEN buf[CHOOSE i \in Bufs : buf[i].blockno = k /\ buf[i].valid].data
                               ELSE disk[k]]
User == [k \in Blocks |-> IF \E p \in Procs : want[p] = k /\ pc[p] \in InUse
                            THEN CHOOSE p \in Procs : want[p] = k /\ pc[p] \in InUse
                            ELSE NoProc]

Store == INSTANCE BlockStore WITH content <- Content, user <- User, view <- got

\* The cache is transparent: whatever is cached, recycled, queued and interrupted in
\* between, bread() shows what was last put into the block, and one process at a time
\* has it.
ImplementsBlockStore == Store!StoreSpec

\* Every request to the disk is finished, in its turn in the queue, and everybody who
\* sleeps for a buffer is woken to try again.
RequestsServed ==
    \A p \in Procs : /\ pc[p] \in {"read", "reading", "writing"} ~> pc[p] = "use" \/ panic # "no"
                     /\ pc[p] = "sleeplock" ~> pc[p] = "lock" \/ panic # "no"
=============================================================================
