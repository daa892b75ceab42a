-------------------------- MODULE BufferCacheProofs --------------------------
(***************************************************************************)
(* For every number of buffers, processes and blocks: a block has one       *)
(* buffer, which is kept while it is referenced, and the cache is           *)
(* transparent.                                                             *)
(***************************************************************************)
EXTENDS BufferCache, FiniteSetTheorems, TLAPS

\* The processes that count in the refcnt of buffer i.
Refs(i) == {p \in Procs : b[p] = i /\ pc[p] \in Referencing}

\* The parts of BufferKept: the buffer is of the block asked for, the reference counts
\* are exact, and the owner of a sleep-lock is where it says.
WantOK == \A p \in Procs : pc[p] \in Referencing => buf[b[p]].blockno = want[p]
CountsOK == \A i \in Bufs : buf[i].refcnt = Cardinality(Refs(i))
OwnerOK == \A p \in Procs, i \in Bufs : buf[i].owner = p <=> b[p] = i /\ pc[p] \in Holding

\* A buffer is in the queue once, and somebody waits for it; the controller works on the
\* first one as it is now.
QueueOK ==
    /\ \A n \in DOMAIN idequeue :
          \E p \in Procs : b[p] = idequeue[n] /\ pc[p] \in {"reading", "writing"}
    /\ \A m, n \in DOMAIN idequeue : idequeue[m] = idequeue[n] => m = n
    /\ request = idestart(buf, idequeue)

\* What the flags of a buffer are, from where the process is that holds it.
StageOK ==
    \A p \in Procs :
       /\ pc[p] \in Referencing => b[p] \in Bufs /\ want[p] \in Blocks
       /\ pc[p] \in {"read", "reading"} => ~buf[b[p]].valid
       /\ pc[p] \in InUse \cup {"readDone"} => buf[b[p]].valid
       /\ pc[p] = "writing" => buf[b[p]].dirty
       /\ pc[p] \in {"readDone", "written"} => ~buf[b[p]].dirty

\* A clean copy is what the disk has.
DataOK ==
    \A i \in Bufs :
       /\ buf[i].dirty => buf[i].valid
       /\ buf[i].valid => buf[i].blockno \in Blocks
       /\ buf[i].valid /\ ~buf[i].dirty => buf[i].data = disk[buf[i].blockno]

Inv == /\ TypeOK /\ OneCopy /\ WantOK /\ CountsOK /\ OwnerOK
       /\ QueueOK /\ StageOK /\ DataOK

Buffer == [blockno : Blocks \cup {NoBlock}, valid : BOOLEAN, dirty : BOOLEAN,
           refcnt : 0 .. Cardinality(Procs), data : Values, owner : Procs \cup {NoProc}]

-----------------------------------------------------------------------------
\* A queue without repetitions is no longer than there are buffers.
LEMMA QueueBounded ==
  ASSUME NEW q \in Seq(Bufs), \A m, n \in DOMAIN q : q[m] = q[n] => m = n
  PROVE  Len(q) <= NBUF
<1>1. Len(q) \in Nat /\ DOMAIN q = 1 .. Len(q)
  OBVIOUS
<1>2. IsFiniteSet(Bufs) /\ Cardinality(Bufs) = NBUF
  BY CacheAssumption, FS_Interval DEF Bufs
<1>3. Cardinality(1 .. Len(q)) = Len(q)
  BY <1>1, FS_Interval
<1>4. q \in Injection(1 .. Len(q), Bufs)
  BY <1>1 DEF Injection, IsInjective
<1>5. Cardinality(1 .. Len(q)) <= Cardinality(Bufs)
  BY <1>2, <1>4, FS_Injection DEF ExistsInjection
<1> QED
  BY <1>2, <1>3, <1>5

\* The number of references is that of a set of processes.
LEMMA RefsFinite ==
  ASSUME NEW i \in Bufs
  PROVE  IsFiniteSet(Refs(i)) /\ Cardinality(Refs(i)) \in 0 .. Cardinality(Procs)
<1>1. Refs(i) \subseteq Procs
  BY DEF Refs
<1>2. /\ IsFiniteSet(Refs(i)) /\ Cardinality(Refs(i)) <= Cardinality(Procs)
      /\ Cardinality(Refs(i)) \in Nat /\ Cardinality(Procs) \in Nat
  BY <1>1, CacheAssumption, FS_Subset, FS_CardinalityType
<1> QED
  BY <1>2

\* A set of buffers that is not empty has one that comes last in the list.
LEMMA LeastRecent ==
  ASSUME TypeOK, NEW S \in SUBSET Bufs, S # {}
  PROVE  leastRecent(S) \in S
<1> DEFINE Here(n) == lru[n] \in S
           Behind(n) == n + 1 .. NBUF
           P == {n \in Bufs : Here(n)}
           R == StrictSubsetOrdering(Nat)
           T == {Behind(n) : n \in P}
<1>1. P # {} /\ P \subseteq Nat
  <2>1. \A i \in Bufs : \E n \in Bufs : lru[n] = i
    BY DEF TypeOK
  <2>2. \E i \in Bufs : i \in S
    OBVIOUS
  <2> QED
    BY <2>1, <2>2 DEF Bufs
<1>2. \A n \in P : Behind(n) \in FiniteSubsetsOf(Nat)
  <2> TAKE n \in P
  <2>1. n + 1 \in Int /\ NBUF \in Int /\ Behind(n) \subseteq Nat
    BY <1>1, CacheAssumption
  <2>2. IsFiniteSet(Behind(n))
    BY <2>1, FS_Interval
  <2> QED
    BY <2>1, <2>2 DEF FiniteSubsetsOf
<1>3. T \subseteq FiniteSubsetsOf(Nat) /\ T # {}
  BY <1>1, <1>2
<1>4. IsWellFoundedOn(R, FiniteSubsetsOf(Nat))
  BY FS_StrictSubsetOrderingWellFounded
<1>5. PICK x \in T : \A y \in T : ~(<<y, x>> \in R)
  BY <1>3, <1>4, WFMin
<1>6. PICK n \in P : x = Behind(n)
  BY <1>5
<1>7. ASSUME NEW m \in n + 1 .. NBUF PROVE lru[m] \notin S
  <2> SUFFICES ASSUME lru[m] \in S PROVE FALSE
    OBVIOUS
  <2>1. m \in P /\ m > n /\ m \in Nat /\ n \in Nat
    BY <1>1, CacheAssumption DEF Bufs
  <2>2. Behind(m) \subseteq Behind(n) /\ m \in Behind(n) /\ m \notin Behind(m)
    BY <2>1
  <2>3. <<Behind(m), Behind(n)>> \in R
    BY <2>1, <2>2, <1>2 DEF StrictSubsetOrdering, FiniteSubsetsOf
  <2> QED
    BY <2>1, <2>3, <1>5, <1>6
<1>8. \E k \in Bufs : lru[k] \in S /\ \A m \in k + 1 .. NBUF : lru[m] \notin S
  BY <1>7
<1> QED
  BY <1>8 DEF leastRecent

\* binit() leaves an empty cache.
LEMMA InitInv == Init => Inv
<1> SUFFICES ASSUME Init PROVE Inv
  OBVIOUS
<1>1. /\ NBUF \in Nat /\ NBUF > 0 /\ Cardinality(Procs) \in Nat
      /\ NoBuf \notin Bufs /\ NoBlock \notin Blocks /\ NoProc \notin Procs
  BY CacheAssumption, FS_CardinalityType DEF Bufs, NoBuf
<1>2. 0 \in 0 .. Cardinality(Procs)
  BY <1>1
<1> DEFINE empty == [blockno |-> NoBlock, valid |-> FALSE, dirty |-> FALSE, refcnt |-> 0,
                     data |-> Blank, owner |-> NoProc]
<1>3. empty \in Buffer
  BY <1>2, CacheAssumption DEF Buffer
<1>4. buf \in [Bufs -> Buffer]
  BY <1>3 DEF Init
<1>5. /\ lru \in [Bufs -> Bufs]
      /\ \A i \in Bufs : \E n \in Bufs : lru[n] = i
  <2>1. lru = [n \in Bufs |-> NBUF + 1 - n]
    BY DEF Init
  <2>2. \A n \in Bufs : NBUF + 1 - n \in Bufs /\ NBUF + 1 - (NBUF + 1 - n) = n
    BY <1>1 DEF Bufs
  <2> QED
    BY <2>1, <2>2
<1>6. TypeOK
  <2>1. idequeue \in Seq(Bufs) /\ Len(idequeue) <= NBUF
    BY <1>1 DEF Init
  <2>2. request \in [blockno : Blocks \cup {NoBlock}, write : BOOLEAN, data : Values]
    BY CacheAssumption DEF Init, NoRequest
  <2> QED
    BY <1>4, <1>5, <2>1, <2>2, CacheAssumption DEF TypeOK, Init, Buffer
<1>7. \A p \in Procs : pc[p] = "idle" /\ b[p] = NoBuf
  BY DEF Init
<1>8. \A i \in Bufs : /\ buf[i].blockno = NoBlock /\ buf[i].valid = FALSE
                      /\ buf[i].dirty = FALSE /\ buf[i].refcnt = 0 /\ buf[i].owner = NoProc
  BY DEF Init
<1>9. OneCopy
  BY <1>8 DEF OneCopy
<1>10. WantOK /\ OwnerOK /\ StageOK
  BY <1>1, <1>7, <1>8 DEF WantOK, OwnerOK, StageOK, Referencing, Holding, InUse
<1>11. CountsOK
  <2>1. \A i \in Bufs : Refs(i) = {}
    BY <1>7 DEF Refs, Referencing, Holding, InUse
  <2> QED
    BY <1>8, <2>1, FS_EmptySet DEF CountsOK
<1>12. QueueOK
  BY DEF QueueOK, Init, idestart
<1>13. DataOK
  BY <1>8 DEF DataOK
<1> QED
  BY <1>6, <1>9, <1>10, <1>11, <1>12, <1>13 DEF Inv

-----------------------------------------------------------------------------
\* The variables have their types.
LEMMA Types ==
  ASSUME TypeOK
  PROVE  /\ buf \in [Bufs -> Buffer]
         /\ lru \in [Bufs -> Bufs] /\ \A i \in Bufs : \E n \in Bufs : lru[n] = i
         /\ idequeue \in Seq(Bufs) /\ Len(idequeue) <= NBUF
         /\ request \in [blockno : Blocks \cup {NoBlock}, write : BOOLEAN, data : Values]
         /\ disk \in [Blocks -> Values]
         /\ pc \in [Procs -> Referencing \cup {"idle"}]
         /\ b \in [Procs -> Bufs \cup {NoBuf}] /\ want \in [Procs -> Blocks \cup {NoBlock}]
         /\ got \in [Procs -> Values]
  BY DEF TypeOK, Buffer

\* Two processes do not hold the same buffer.
LEMMA HeldApart ==
  ASSUME Inv, NEW p \in Procs, NEW q \in Procs, pc[p] \in Holding, pc[q] \in Holding,
         b[p] = b[q]
  PROVE  p = q
BY DEF Inv, OwnerOK, StageOK, Referencing

\* A step of those who have their buffers leaves blocks and references alone.
LEMMA ReferencesKept ==
  ASSUME Inv, UNCHANGED <<b, want>>,
         \A i \in Bufs : buf'[i].blockno = buf[i].blockno /\ buf'[i].refcnt = buf[i].refcnt,
         \A q \in Procs : pc'[q] \in Referencing <=> pc[q] \in Referencing
  PROVE  OneCopy' /\ WantOK' /\ CountsOK'
<1>1. OneCopy'
  BY DEF Inv, OneCopy
<1>2. WantOK'
  BY DEF Inv, WantOK, StageOK
<1>3. CountsOK'
  <2>1. \A i \in Bufs : Refs(i)' = Refs(i)
    BY DEF Refs
  <2> QED
    BY <2>1 DEF Inv, CountsOK
<1> QED
  BY <1>1, <1>2, <1>3

\* A step that leaves those who sleep in iderw() and their buffers alone leaves the
\* queue as it is.
LEMMA QueueKept ==
  ASSUME Inv, UNCHANGED <<idequeue, request>>,
         \A p \in Procs : pc[p] \in {"reading", "writing"} =>
            /\ pc'[p] = pc[p] /\ b'[p] = b[p]
            /\ buf'[b[p]].blockno = buf[b[p]].blockno
            /\ buf'[b[p]].dirty = buf[b[p]].dirty /\ buf'[b[p]].data = buf[b[p]].data
  PROVE  QueueOK'
<1>1. \A n \in DOMAIN idequeue :
         \E p \in Procs : b'[p] = idequeue[n] /\ pc'[p] \in {"reading", "writing"}
  BY DEF Inv, QueueOK
<1>2. idestart(buf', idequeue) = idestart(buf, idequeue)
  <2>1. CASE idequeue = <<>>
    BY <2>1 DEF idestart
  <2>2. CASE idequeue # <<>>
    <3>1. idequeue \in Seq(Bufs)
      BY Types DEF Inv
    <3>2. 1 \in DOMAIN idequeue /\ Head(idequeue) = idequeue[1]
      BY <2>2, <3>1
    <3>3. PICK p \in Procs : b[p] = idequeue[1] /\ pc[p] \in {"reading", "writing"}
      BY <3>2 DEF Inv, QueueOK
    <3> QED
      BY <3>2, <3>3 DEF idestart
  <2> QED
    BY <2>1, <2>2
<1> QED
  BY <1>1, <1>2 DEF Inv, QueueOK

\* acquiresleep() takes the lock, or leaves the process asleep.
LEMMA AcquiresleepKeeps == ASSUME Inv, NEW p \in Procs, acquiresleep(p) PROVE Inv'
<1> DEFINE i == b[p]
<1>1. /\ buf \in [Bufs -> Buffer] /\ pc \in [Procs -> Referencing \cup {"idle"}]
      /\ got \in [Procs -> Values] /\ TypeOK
  BY Types DEF Inv
<1>2. pc[p] = "lock" /\ UNCHANGED <<lru, idequeue, request, disk, b, want, panic>>
  BY DEF acquiresleep, At, ideVars
<1>3. i \in Bufs /\ want[p] \in Blocks
  BY <1>2 DEF Inv, StageOK, Referencing
<1>4. CASE buf[i].owner # NoProc
  <2>1. UNCHANGED <<buf, got>> /\ pc' = [pc EXCEPT ![p] = "sleeplock"]
    BY <1>4 DEF acquiresleep
  <2>2. \A q \in Procs : pc'[q] = IF q = p THEN "sleeplock" ELSE pc[q]
    BY <1>1, <2>1
  <2>3. TypeOK'
    BY <1>1, <1>2, <2>1 DEF TypeOK, Referencing
  <2>4. OneCopy' /\ WantOK' /\ CountsOK'
    BY <1>2, <2>1, <2>2, ReferencesKept DEF Referencing
  <2>5. QueueOK'
    BY <1>2, <2>1, <2>2, QueueKept
  <2>6. OwnerOK'
    BY <1>2, <2>1, <2>2 DEF Inv, OwnerOK, Holding, InUse
  <2>7. StageOK'
    BY <1>2, <2>1, <2>2 DEF Inv, StageOK, Referencing, InUse
  <2>8. DataOK'
    BY <1>2, <2>1 DEF Inv, DataOK
  <2> QED
    BY <2>3, <2>4, <2>5, <2>6, <2>7, <2>8 DEF Inv
<1>5. CASE buf[i].owner = NoProc
  <2> DEFINE next == IF buf[i].valid THEN "use" ELSE "read"
             r == [buf[i] EXCEPT !.owner = p]
  <2>1. /\ buf' = [buf EXCEPT ![i].owner = p]
        /\ pc' = [pc EXCEPT ![p] = next]
        /\ got' = [got EXCEPT ![p] = IF buf[i].valid THEN buf[i].data ELSE @]
    BY <1>5 DEF acquiresleep
  <2>2. r \in Buffer /\ buf[i] \in Buffer
    BY <1>1, <1>3 DEF Buffer
  <2>3. buf' \in [Bufs -> Buffer] /\ \A j \in Bufs : buf'[j] = IF j = i THEN r ELSE buf[j]
    BY <1>1, <1>3, <2>1, <2>2
  <2>4. /\ r.blockno = buf[i].blockno /\ r.valid = buf[i].valid /\ r.dirty = buf[i].dirty
        /\ r.refcnt = buf[i].refcnt /\ r.data = buf[i].data /\ r.owner = p
    BY <2>2 DEF Buffer
  <2> HIDE DEF r
  <2>5. \A j \in Bufs :
           /\ buf'[j].blockno = buf[j].blockno /\ buf'[j].valid = buf[j].valid
           /\ buf'[j].dirty = buf[j].dirty /\ buf'[j].refcnt = buf[j].refcnt
           /\ buf'[j].data = buf[j].data
           /\ buf'[j].owner = IF j = i THEN p ELSE buf[j].owner
    BY <2>3, <2>4
  <2>6. \A q \in Procs : pc'[q] = IF q = p THEN next ELSE pc[q]
    BY <1>1, <2>1
  <2>7. next \in {"use", "read"} /\ (next = "use" <=> buf[i].valid)
    BY <2>2 DEF Buffer
  <2> HIDE DEF next, i
  <2>8. TypeOK'
    <3>1. pc' \in [Procs -> Referencing \cup {"idle"}]
      BY <1>1, <2>1, <2>7 DEF Referencing, Holding, InUse
    <3>2. got' \in [Procs -> Values]
      BY <1>1, <2>1, <2>2 DEF Buffer
    <3> QED
      BY <1>1, <1>2, <2>3, <3>1, <3>2 DEF TypeOK, Buffer
  <2>9. OneCopy' /\ WantOK' /\ CountsOK'
    BY <1>2, <2>5, <2>6, <2>7, ReferencesKept DEF Referencing, Holding, InUse
  <2>10. QueueOK'
    <3>1. \A q \in Procs : pc[q] \in {"reading", "writing"} => b[q] \in Bufs
      BY DEF Inv, StageOK, Referencing, Holding, InUse
    <3> QED
      BY <1>2, <2>5, <2>6, <3>1, QueueKept
  <2>11. OwnerOK'
    <3> SUFFICES ASSUME NEW q \in Procs, NEW j \in Bufs
                 PROVE  buf'[j].owner = q <=> b[q] = j /\ pc'[q] \in Holding
      BY <1>2 DEF OwnerOK
    <3>1. buf[j].owner = q <=> b[q] = j /\ pc[q] \in Holding
      BY DEF Inv, OwnerOK
    <3>2. NoProc # q
      BY CacheAssumption
    <3> QED
      BY <1>2, <1>5, <2>5, <2>6, <2>7, <3>1, <3>2 DEF Holding, InUse, i
  <2>12. StageOK'
    <3> SUFFICES ASSUME NEW q \in Procs
                 PROVE  /\ pc'[q] \in Referencing => b[q] \in Bufs /\ want[q] \in Blocks
                        /\ pc'[q] \in {"read", "reading"} => ~buf'[b[q]].valid
                        /\ pc'[q] \in InUse \cup {"readDone"} => buf'[b[q]].valid
                        /\ pc'[q] = "writing" => buf'[b[q]].dirty
                        /\ pc'[q] \in {"readDone", "written"} => ~buf'[b[q]].dirty
      BY <1>2 DEF StageOK
    <3>1. CASE q = p
      BY <1>2, <1>3, <2>5, <2>6, <2>7, <3>1 DEF InUse, i
    <3>2. CASE q # p
      BY <2>5, <2>6, <3>2 DEF Inv, StageOK, Referencing, Holding, InUse
    <3> QED
      BY <3>1, <3>2
  <2>13. DataOK'
    BY <1>2, <2>5 DEF Inv, DataOK
  <2> QED
    BY <2>8, <2>9, <2>10, <2>11, <2>12, <2>13 DEF Inv
<1> QED
  BY <1>4, <1>5

\* iderw() puts the buffer that its caller holds behind the others, in the queue for the
\* first time.
LEMMA Enqueued ==
  ASSUME Inv, NEW p \in Procs, pc[p] \in {"read", "use"},
         idequeue' = Append(idequeue, b[p]),
         request' = IF idequeue = <<>> THEN idestart(buf', idequeue') ELSE request,
         b' = b, pc'[p] \in {"reading", "writing"},
         \A q \in Procs \ {p} : pc'[q] = pc[q],
         buf' \in [Bufs -> Buffer], \A j \in Bufs \ {b[p]} : buf'[j] = buf[j]
  PROVE  /\ QueueOK'
         /\ idequeue' \in Seq(Bufs) /\ Len(idequeue') <= NBUF
         /\ request' \in [blockno : Blocks \cup {NoBlock}, write : BOOLEAN, data : Values]
<1> DEFINE i == b[p]
<1>1. /\ idequeue \in Seq(Bufs)
      /\ request \in [blockno : Blocks \cup {NoBlock}, write : BOOLEAN, data : Values]
  BY Types DEF Inv
<1>2. i \in Bufs
  BY DEF Inv, StageOK, Referencing, Holding, InUse
<1>3. \A n \in DOMAIN idequeue :
         \E q \in Procs \ {p} : b[q] = idequeue[n] /\ pc[q] \in {"reading", "writing"}
  BY DEF Inv, QueueOK
<1>4. \A n \in DOMAIN idequeue : idequeue[n] # i
  <2> SUFFICES ASSUME NEW n \in DOMAIN idequeue, idequeue[n] = i PROVE FALSE
    OBVIOUS
  <2>1. PICK q \in Procs \ {p} : b[q] = i /\ pc[q] \in {"reading", "writing"}
    BY <1>3
  <2> QED
    BY <2>1, HeldApart DEF Holding, InUse
<1> HIDE DEF i
<1>5. /\ idequeue' \in Seq(Bufs) /\ Len(idequeue') = Len(idequeue) + 1
      /\ DOMAIN idequeue' = 1 .. Len(idequeue) + 1 /\ DOMAIN idequeue = 1 .. Len(idequeue)
      /\ \A n \in DOMAIN idequeue : idequeue'[n] = idequeue[n]
      /\ idequeue'[Len(idequeue) + 1] = i
      /\ Len(idequeue) \in Nat
  BY <1>1, <1>2 DEF i
<1>6. \A n \in DOMAIN idequeue' :
         \E q \in Procs : b[q] = idequeue'[n] /\ pc'[q] \in {"reading", "writing"}
  <2> TAKE n \in DOMAIN idequeue'
  <2>1. CASE n = Len(idequeue) + 1
    BY <1>5, <2>1 DEF i
  <2>2. CASE n # Len(idequeue) + 1
    <3>1. n \in DOMAIN idequeue
      BY <1>5, <2>2
    <3>2. PICK q \in Procs \ {p} : b[q] = idequeue[n] /\ pc[q] \in {"reading", "writing"}
      BY <1>3, <3>1
    <3> QED
      BY <1>5, <3>1, <3>2
  <2> QED
    BY <2>1, <2>2
<1>7. \A m, n \in DOMAIN idequeue' : idequeue'[m] = idequeue'[n] => m = n
  <2> SUFFICES ASSUME NEW m \in DOMAIN idequeue', NEW n \in DOMAIN idequeue',
                      idequeue'[m] = idequeue'[n]
               PROVE  m = n
    OBVIOUS
  <2>1. CASE m \in DOMAIN idequeue /\ n \in DOMAIN idequeue
    BY <1>5, <2>1 DEF Inv, QueueOK
  <2>2. CASE m \notin DOMAIN idequeue \/ n \notin DOMAIN idequeue
    <3>1. \A k \in DOMAIN idequeue' : k \notin DOMAIN idequeue => k = Len(idequeue) + 1
      BY <1>5
    <3> QED
      BY <1>4, <1>5, <2>2, <3>1
  <2> QED
    BY <2>1, <2>2
<1>8. request' = idestart(buf', idequeue')
  <2>1. CASE idequeue = <<>>
    BY <2>1
  <2>2. CASE idequeue # <<>>
    <3>1. 1 \in DOMAIN idequeue /\ Head(idequeue) = idequeue[1] /\ Head(idequeue') = idequeue[1]
      BY <1>1, <1>5, <2>2
    <3>2. idequeue[1] \in Bufs /\ idequeue[1] # i
      BY <1>1, <1>4, <3>1
    <3>3. buf'[Head(idequeue')] = buf[Head(idequeue)]
      BY <3>1, <3>2 DEF i
    <3>4. idequeue' # <<>>
      BY <1>5
    <3> QED
      BY <2>2, <3>3, <3>4 DEF Inv, QueueOK, idestart
  <2> QED
    BY <2>1, <2>2
<1>9. Len(idequeue') <= NBUF
  BY <1>5, <1>7, QueueBounded
<1>10. request' \in [blockno : Blocks \cup {NoBlock}, write : BOOLEAN, data : Values]
  <2>1. CASE idequeue = <<>>
    <3>1. Head(idequeue') = i /\ idequeue' # <<>>
      BY <1>1, <1>5, <2>1 DEF i
    <3>2. buf'[i] \in Buffer
      BY <1>2
    <3> QED
      BY <1>8, <3>1, <3>2 DEF idestart, Buffer
  <2>2. CASE idequeue # <<>>
    BY <1>1, <2>2
  <2> QED
    BY <2>1, <2>2
<1> QED
  BY <1>5, <1>6, <1>7, <1>8, <1>9, <1>10 DEF QueueOK

\* bread() hands a buffer without data to the disk.
LEMMA IderwKeeps == ASSUME Inv, NEW p \in Procs, iderw(p) PROVE Inv'
<1>1. /\ buf \in [Bufs -> Buffer] /\ pc \in [Procs -> Referencing \cup {"idle"}] /\ TypeOK
  BY Types DEF Inv
<1>2. /\ pc[p] = "read" /\ pc' = [pc EXCEPT ![p] = "reading"]
      /\ UNCHANGED <<buf, lru, disk, b, want, got, panic>>
      /\ idequeue' = Append(idequeue, b[p])
      /\ request' = IF idequeue = <<>> THEN idestart(buf, idequeue') ELSE request
  BY DEF iderw, At, enqueue
<1>3. \A q \in Procs : pc'[q] = IF q = p THEN "reading" ELSE pc[q]
  BY <1>1, <1>2
<1>4. /\ QueueOK' /\ idequeue' \in Seq(Bufs) /\ Len(idequeue') <= NBUF
      /\ request' \in [blockno : Blocks \cup {NoBlock}, write : BOOLEAN, data : Values]
  BY <1>1, <1>2, <1>3, Enqueued
<1>5. TypeOK'
  <2>1. pc' \in [Procs -> Referencing \cup {"idle"}]
    BY <1>1, <1>2 DEF Referencing, Holding
  <2> QED
    BY <1>1, <1>2, <1>4, <2>1 DEF TypeOK
<1>6. OneCopy' /\ WantOK' /\ CountsOK'
  BY <1>2, <1>3, ReferencesKept DEF Referencing, Holding
<1>7. OwnerOK'
  BY <1>2, <1>3 DEF Inv, OwnerOK, Holding, InUse
<1>8. StageOK'
  BY <1>2, <1>3 DEF Inv, StageOK, Referencing, Holding, InUse
<1>9. DataOK'
  BY <1>2 DEF Inv, DataOK
<1> QED
  BY <1>4, <1>5, <1>6, <1>7, <1>8, <1>9 DEF Inv

\* The holder of a buffer puts data into it, and the buffer is dirty.
LEMMA Written ==
  ASSUME Inv, NEW p \in Procs, NEW v \in Values, pc[p] = "use",
         buf' = [buf EXCEPT ![b[p]].data = v, ![b[p]].dirty = TRUE]
  PROVE  /\ b[p] \in Bufs /\ buf' \in [Bufs -> Buffer]
         /\ \A j \in Bufs :
               /\ buf'[j].blockno = buf[j].blockno /\ buf'[j].valid = buf[j].valid
               /\ buf'[j].refcnt = buf[j].refcnt /\ buf'[j].owner = buf[j].owner
               /\ (buf'[j].dirty <=> j = b[p] \/ buf[j].dirty)
         /\ buf'[b[p]].data = v /\ \A j \in Bufs \ {b[p]} : buf'[j] = buf[j]
<1> DEFINE i == b[p]
           r == [buf[i] EXCEPT !.data = v, !.dirty = TRUE]
<1>1. buf \in [Bufs -> Buffer]
  BY Types DEF Inv
<1>2. i \in Bufs
  BY DEF Inv, StageOK, Referencing, Holding, InUse
<1>3. r \in Buffer /\ buf[i] \in Buffer
  BY <1>1, <1>2 DEF Buffer
<1>4. buf' = [buf EXCEPT ![i] = r]
  BY <1>1, <1>2
<1>5. buf' \in [Bufs -> Buffer] /\ \A j \in Bufs : buf'[j] = IF j = i THEN r ELSE buf[j]
  BY <1>1, <1>2, <1>3, <1>4
<1>6. /\ r.blockno = buf[i].blockno /\ r.valid = buf[i].valid /\ r.dirty
      /\ r.refcnt = buf[i].refcnt /\ r.data = v /\ r.owner = buf[i].owner
  BY <1>3 DEF Buffer
<1> HIDE DEF r, i
<1>7. \A j \in Bufs \ {i} : buf'[j] = buf[j]
  BY <1>5
<1>8. buf'[i] = r
  BY <1>2, <1>5
<1>9. ASSUME NEW j \in Bufs
      PROVE  /\ buf'[j].blockno = buf[j].blockno /\ buf'[j].valid = buf[j].valid
             /\ buf'[j].refcnt = buf[j].refcnt /\ buf'[j].owner = buf[j].owner
             /\ (buf'[j].dirty <=> j = i \/ buf[j].dirty)
  <2>1. CASE j = i
    BY <1>6, <1>8, <2>1
  <2>2. CASE j # i
    <3>1. buf'[j] = buf[j]
      BY <1>7, <2>2
    <3> QED
      BY <2>2, <3>1
  <2> QED
    BY <2>1, <2>2
<1>10. buf'[i].data = v
  BY <1>6, <1>8
<1> QED
  BY <1>2, <1>5, <1>7, <1>9, <1>10 DEF i

\* bwrite() makes the buffer dirty and hands it to the disk.
LEMMA BwriteKeeps == ASSUME Inv, NEW p \in Procs, NEW v \in Values, bwrite(p, v) PROVE Inv'
<1>1. /\ buf \in [Bufs -> Buffer] /\ pc \in [Procs -> Referencing \cup {"idle"}] /\ TypeOK
  BY Types DEF Inv
<1>2. /\ pc[p] = "use" /\ pc' = [pc EXCEPT ![p] = "writing"]
      /\ UNCHANGED <<lru, disk, b, want, got, panic>>
      /\ buf' = [buf EXCEPT ![b[p]].data = v, ![b[p]].dirty = TRUE]
      /\ idequeue' = Append(idequeue, b[p])
      /\ request' = IF idequeue = <<>> THEN idestart(buf', idequeue') ELSE request
  BY DEF bwrite, At, enqueue
<1>3. \A q \in Procs : pc'[q] = IF q = p THEN "writing" ELSE pc[q]
  BY <1>1, <1>2
<1>4. /\ b[p] \in Bufs /\ buf' \in [Bufs -> Buffer]
      /\ \A j \in Bufs :
            /\ buf'[j].blockno = buf[j].blockno /\ buf'[j].valid = buf[j].valid
            /\ buf'[j].refcnt = buf[j].refcnt /\ buf'[j].owner = buf[j].owner
            /\ (buf'[j].dirty <=> j = b[p] \/ buf[j].dirty)
      /\ buf'[b[p]].data = v /\ \A j \in Bufs \ {b[p]} : buf'[j] = buf[j]
  BY <1>2, Written
<1>5. /\ QueueOK' /\ idequeue' \in Seq(Bufs) /\ Len(idequeue') <= NBUF
      /\ request' \in [blockno : Blocks \cup {NoBlock}, write : BOOLEAN, data : Values]
  <2>1. pc[p] \in {"read", "use"} /\ pc'[p] \in {"reading", "writing"} /\ b' = b
    BY <1>2, <1>3
  <2>2. \A q \in Procs \ {p} : pc'[q] = pc[q]
    BY <1>3
  <2>3. buf' \in [Bufs -> Buffer] /\ \A j \in Bufs \ {b[p]} : buf'[j] = buf[j]
    BY <1>4
  <2> QED
    BY <1>2, <2>1, <2>2, <2>3, Enqueued
<1>6. TypeOK'
  <2>1. pc' \in [Procs -> Referencing \cup {"idle"}]
    BY <1>1, <1>2 DEF Referencing, Holding, InUse
  <2> QED
    BY <1>1, <1>2, <1>4, <1>5, <2>1 DEF TypeOK, Buffer
<1>7. OneCopy' /\ WantOK' /\ CountsOK'
  BY <1>2, <1>3, <1>4, ReferencesKept DEF Referencing, Holding, InUse
<1>8. OwnerOK'
  BY <1>2, <1>3, <1>4 DEF Inv, OwnerOK, Holding, InUse
<1>9. \A q \in Procs \ {p} : pc[q] \in Holding => b[q] # b[p]
  BY <1>2, HeldApart DEF Holding, InUse
<1>10. buf[b[p]].valid
  BY <1>2 DEF Inv, StageOK, InUse
<1>11. StageOK'
  <2> SUFFICES ASSUME NEW q \in Procs
               PROVE  /\ pc'[q] \in Referencing => b[q] \in Bufs /\ want[q] \in Blocks
                      /\ pc'[q] \in {"read", "reading"} => ~buf'[b[q]].valid
                      /\ pc'[q] \in InUse \cup {"readDone"} => buf'[b[q]].valid
                      /\ pc'[q] = "writing" => buf'[b[q]].dirty
                      /\ pc'[q] \in {"readDone", "written"} => ~buf'[b[q]].dirty
    BY <1>2 DEF StageOK
  <2>1. CASE q = p
    <3>1. b[p] \in Bufs /\ want[p] \in Blocks
      BY <1>2 DEF Inv, StageOK, Referencing, Holding, InUse
    <3> QED
      BY <1>2, <1>3, <1>4, <1>10, <2>1, <3>1
  <2>2. CASE q # p
    <3>1. /\ pc[q] \in Referencing => b[q] \in Bufs /\ want[q] \in Blocks
          /\ pc[q] \in {"read", "reading"} => ~buf[b[q]].valid
          /\ pc[q] \in InUse \cup {"readDone"} => buf[b[q]].valid
          /\ pc[q] = "writing" => buf[b[q]].dirty
          /\ pc[q] \in {"readDone", "written"} => ~buf[b[q]].dirty
      BY DEF Inv, StageOK
    <3>2. pc'[q] = pc[q]
      BY <1>3, <2>2
    <3>3. ASSUME pc[q] \in Holding PROVE buf'[b[q]] = buf[b[q]]
      <4>1. b[q] \in Bufs /\ b[q] # b[p]
        BY <1>9, <2>2, <3>1, <3>3 DEF Referencing
      <4>2. \A j \in Bufs \ {b[p]} : buf'[j] = buf[j]
        BY <1>4
      <4> QED
        BY <4>1, <4>2
    <3> QED
      BY <3>1, <3>2, <3>3 DEF Referencing, Holding, InUse
  <2> QED
    BY <2>1, <2>2
<1>12. DataOK'
  BY <1>2, <1>4, <1>10 DEF Inv, DataOK
<1> QED
  BY <1>5, <1>6, <1>7, <1>8, <1>11, <1>12 DEF Inv

\* log_write() makes the buffer dirty and keeps it for the log.
LEMMA LogWriteKeeps == ASSUME Inv, NEW p \in Procs, NEW v \in Values, log_write(p, v) PROVE Inv'
<1>1. TypeOK
  BY DEF Inv
<1>2. /\ pc[p] = "use" /\ UNCHANGED <<lru, idequeue, request, disk, pc, b, want, got, panic>>
      /\ buf' = [buf EXCEPT ![b[p]].data = v, ![b[p]].dirty = TRUE]
  BY DEF log_write, At, ideVars
<1>3. /\ b[p] \in Bufs /\ buf' \in [Bufs -> Buffer]
      /\ \A j \in Bufs :
            /\ buf'[j].blockno = buf[j].blockno /\ buf'[j].valid = buf[j].valid
            /\ buf'[j].refcnt = buf[j].refcnt /\ buf'[j].owner = buf[j].owner
            /\ (buf'[j].dirty <=> j = b[p] \/ buf[j].dirty)
      /\ buf'[b[p]].data = v /\ \A j \in Bufs \ {b[p]} : buf'[j] = buf[j]
  BY <1>2, Written
<1>4. \A q \in Procs \ {p} : pc[q] \in Holding => b[q] # b[p]
  BY <1>2, HeldApart DEF Holding, InUse
<1>5. TypeOK'
  BY <1>1, <1>2, <1>3 DEF TypeOK, Buffer
<1>6. OneCopy' /\ WantOK' /\ CountsOK'
  BY <1>2, <1>3, ReferencesKept
<1>7. OwnerOK'
  BY <1>2, <1>3 DEF Inv, OwnerOK
<1>8. QueueOK'
  <2>1. \A q \in Procs : pc[q] \in {"reading", "writing"} => b[q] \in Bufs /\ b[q] # b[p]
    BY <1>2, <1>4 DEF Inv, StageOK, Referencing, Holding, InUse
  <2> QED
    BY <1>2, <1>3, <2>1, QueueKept
<1>9. buf[b[p]].valid
  BY <1>2 DEF Inv, StageOK, InUse
<1>10. StageOK'
  <2> SUFFICES ASSUME NEW q \in Procs
               PROVE  /\ pc'[q] \in Referencing => b[q] \in Bufs /\ want[q] \in Blocks
                      /\ pc'[q] \in {"read", "reading"} => ~buf'[b[q]].valid
                      /\ pc'[q] \in InUse \cup {"readDone"} => buf'[b[q]].valid
                      /\ pc'[q] = "writing" => buf'[b[q]].dirty
                      /\ pc'[q] \in {"readDone", "written"} => ~buf'[b[q]].dirty
    BY <1>2 DEF StageOK
  <2>1. CASE q = p
    <3>1. b[p] \in Bufs /\ want[p] \in Blocks
      BY <1>2 DEF Inv, StageOK, Referencing, Holding, InUse
    <3> QED
      BY <1>2, <1>3, <1>9, <2>1, <3>1
  <2>2. CASE q # p
    <3>1. /\ pc[q] \in Referencing => b[q] \in Bufs /\ want[q] \in Blocks
          /\ pc[q] \in {"read", "reading"} => ~buf[b[q]].valid
          /\ pc[q] \in InUse \cup {"readDone"} => buf[b[q]].valid
          /\ pc[q] = "writing" => buf[b[q]].dirty
          /\ pc[q] \in {"readDone", "written"} => ~buf[b[q]].dirty
      BY DEF Inv, StageOK
    <3>2. pc'[q] = pc[q]
      BY <1>2, <2>2
    <3>3. ASSUME pc[q] \in Holding PROVE buf'[b[q]] = buf[b[q]]
      <4>1. b[q] \in Bufs /\ b[q] # b[p]
        BY <1>4, <2>2, <3>1, <3>3 DEF Referencing
      <4>2. \A j \in Bufs \ {b[p]} : buf'[j] = buf[j]
        BY <1>3
      <4> QED
        BY <4>1, <4>2
    <3> QED
      BY <3>1, <3>2, <3>3 DEF Referencing, Holding, InUse
  <2> QED
    BY <2>1, <2>2
<1>11. DataOK'
  BY <1>2, <1>3, <1>9 DEF Inv, DataOK
<1> QED
  BY <1>5, <1>6, <1>7, <1>8, <1>10, <1>11 DEF Inv

\* iderw() returns with the data, and never finds that it has to sleep on.
LEMMA IderwReturnKeeps == ASSUME Inv, NEW p \in Procs, iderwReturn(p) PROVE Inv'
<1> DEFINE i == b[p]
<1>1. /\ buf \in [Bufs -> Buffer] /\ pc \in [Procs -> Referencing \cup {"idle"}]
      /\ got \in [Procs -> Values] /\ TypeOK
  BY Types DEF Inv
<1>2. /\ pc[p] \in {"readDone", "written"}
      /\ UNCHANGED <<buf, lru, idequeue, request, disk, b, want, panic>>
      /\ got' = [got EXCEPT ![p] = IF pc[p] = "readDone" THEN buf[i].data ELSE @]
  BY DEF iderwReturn, At, cacheVars, ideVars
<1>3. i \in Bufs /\ want[p] \in Blocks /\ buf[i].valid /\ ~buf[i].dirty
  BY <1>2 DEF Inv, StageOK, Referencing, Holding, InUse
<1>4. pc' = [pc EXCEPT ![p] = "use"]
  BY <1>3 DEF iderwReturn
<1>5. \A q \in Procs : pc'[q] = IF q = p THEN "use" ELSE pc[q]
  BY <1>1, <1>4
<1>6. TypeOK'
  <2>1. pc' \in [Procs -> Referencing \cup {"idle"}]
    BY <1>1, <1>4 DEF Referencing, Holding, InUse
  <2>2. buf[i].data \in Values
    BY <1>1, <1>3 DEF Buffer
  <2>3. got' \in [Procs -> Values]
    BY <1>1, <1>2, <2>2
  <2> QED
    BY <1>1, <1>2, <2>1, <2>3 DEF TypeOK
<1>7. OneCopy' /\ WantOK' /\ CountsOK'
  BY <1>2, <1>5, ReferencesKept DEF Referencing, Holding, InUse
<1>8. OwnerOK'
  BY <1>2, <1>5 DEF Inv, OwnerOK, Holding, InUse
<1>9. QueueOK'
  BY <1>2, <1>5, QueueKept
<1>10. StageOK'
  BY <1>2, <1>3, <1>5 DEF Inv, StageOK, Referencing, Holding, InUse
<1>11. DataOK'
  BY <1>2 DEF Inv, DataOK
<1> QED
  BY <1>6, <1>7, <1>8, <1>9, <1>10, <1>11 DEF Inv

\* releasesleep() gives the buffer to whoever is first to look.
LEMMA ReleasesleepKeeps == ASSUME Inv, NEW p \in Procs, releasesleep(p) PROVE Inv'
<1> DEFINE i == b[p]
           r == [buf[i] EXCEPT !.owner = NoProc]
<1>1. /\ buf \in [Bufs -> Buffer] /\ pc \in [Procs -> Referencing \cup {"idle"}]
      /\ got \in [Procs -> Values] /\ TypeOK
  BY Types DEF Inv
<1>2. /\ pc[p] = "use" /\ UNCHANGED <<lru, idequeue, request, disk, b, want, panic>>
      /\ buf' = [buf EXCEPT ![i].owner = NoProc]
      /\ pc' = [lockersWoken(i) EXCEPT ![p] = "put"] /\ got' = [got EXCEPT ![p] = Blank]
  BY DEF releasesleep, At, ideVars
<1>3. i \in Bufs /\ want[p] \in Blocks
  BY <1>2 DEF Inv, StageOK, Referencing, Holding, InUse
<1>4. buf' = [buf EXCEPT ![i] = r]
  BY <1>1, <1>2, <1>3
<1>5. r \in Buffer
  BY <1>1, <1>3 DEF Buffer
<1>6. buf' \in [Bufs -> Buffer] /\ \A j \in Bufs : buf'[j] = IF j = i THEN r ELSE buf[j]
  BY <1>1, <1>3, <1>4, <1>5
<1>7. /\ r.blockno = buf[i].blockno /\ r.valid = buf[i].valid /\ r.dirty = buf[i].dirty
      /\ r.refcnt = buf[i].refcnt /\ r.data = buf[i].data /\ r.owner = NoProc
  BY <1>1, <1>3 DEF Buffer
<1> HIDE DEF r
<1>8. \A j \in Bufs :
         /\ buf'[j].blockno = buf[j].blockno /\ buf'[j].valid = buf[j].valid
         /\ buf'[j].dirty = buf[j].dirty /\ buf'[j].refcnt = buf[j].refcnt
         /\ buf'[j].data = buf[j].data
         /\ buf'[j].owner = IF j = i THEN NoProc ELSE buf[j].owner
  BY <1>6, <1>7
<1>9. \A q \in Procs :
         pc'[q] = IF q = p THEN "put"
                  ELSE IF pc[q] = "sleeplock" /\ b[q] = i THEN "lock" ELSE pc[q]
  BY <1>2 DEF lockersWoken
<1>10. /\ pc'[p] = "put"
       /\ \A q \in Procs \ {p} : pc'[q] = pc[q] \/ (pc[q] = "sleeplock" /\ pc'[q] = "lock")
  BY <1>9
<1>11. TypeOK'
  <2>1. lockersWoken(i) \in [Procs -> Referencing \cup {"idle"}]
    BY <1>1 DEF lockersWoken, Referencing
  <2>2. pc' \in [Procs -> Referencing \cup {"idle"}]
    BY <1>2, <2>1 DEF Referencing
  <2>3. got' \in [Procs -> Values]
    BY <1>1, <1>2, CacheAssumption
  <2> QED
    BY <1>1, <1>2, <1>6, <2>2, <2>3 DEF TypeOK, Buffer
<1>12. OneCopy' /\ WantOK' /\ CountsOK'
  BY <1>2, <1>8, <1>10, ReferencesKept DEF Referencing, Holding, InUse
<1>13. OwnerOK'
  <2> SUFFICES ASSUME NEW q \in Procs, NEW j \in Bufs
               PROVE  buf'[j].owner = q <=> b[q] = j /\ pc'[q] \in Holding
    BY <1>2 DEF OwnerOK
  <2>1. buf[j].owner = q <=> b[q] = j /\ pc[q] \in Holding
    BY DEF Inv, OwnerOK
  <2>2. NoProc # q
    BY CacheAssumption
  <2>3. pc'[q] \in Holding <=> q # p /\ pc[q] \in Holding
    BY <1>10 DEF Holding, InUse
  <2>4. q # p /\ pc[q] \in Holding => b[q] # i
    BY <1>2, HeldApart DEF Holding, InUse
  <2>5. CASE j = i
    BY <1>8, <2>2, <2>3, <2>4, <2>5
  <2>6. CASE j # i
    BY <1>8, <2>1, <2>3, <2>6
  <2> QED
    BY <2>5, <2>6
<1>14. QueueOK'
  <2>1. \A q \in Procs : pc[q] \in {"reading", "writing"} => b[q] \in Bufs /\ pc'[q] = pc[q]
    BY <1>2, <1>10 DEF Inv, StageOK, Referencing, Holding, InUse
  <2> QED
    BY <1>2, <1>8, <2>1, QueueKept
<1>15. StageOK'
  <2> SUFFICES ASSUME NEW q \in Procs
               PROVE  /\ pc'[q] \in Referencing => b'[q] \in Bufs /\ want'[q] \in Blocks
                      /\ pc'[q] \in {"read", "reading"} => ~buf'[b'[q]].valid
                      /\ pc'[q] \in InUse \cup {"readDone"} => buf'[b'[q]].valid
                      /\ pc'[q] = "writing" => buf'[b'[q]].dirty
                      /\ pc'[q] \in {"readDone", "written"} => ~buf'[b'[q]].dirty
    BY DEF StageOK
  <2>1. CASE q = p
    BY <1>2, <1>3, <1>10, <2>1 DEF InUse
  <2>2. CASE q # p
    <3>1. /\ pc[q] \in Referencing => b[q] \in Bufs /\ want[q] \in Blocks
          /\ pc[q] \in {"read", "reading"} => ~buf[b[q]].valid
          /\ pc[q] \in InUse \cup {"readDone"} => buf[b[q]].valid
          /\ pc[q] = "writing" => buf[b[q]].dirty
          /\ pc[q] \in {"readDone", "written"} => ~buf[b[q]].dirty
      BY DEF Inv, StageOK
    <3>2. pc[q] \in Referencing =>
             buf'[b[q]].valid = buf[b[q]].valid /\ buf'[b[q]].dirty = buf[b[q]].dirty
      BY <1>8, <3>1
    <3>3. pc'[q] = pc[q] \/ (pc[q] = "sleeplock" /\ pc'[q] = "lock")
      BY <1>10, <2>2
    <3> QED
      BY <1>2, <3>1, <3>2, <3>3 DEF Referencing, Holding, InUse
  <2> QED
    BY <2>1, <2>2
<1>16. DataOK'
  BY <1>2, <1>8 DEF Inv, DataOK
<1> QED
  BY <1>11, <1>12, <1>13, <1>14, <1>15, <1>16 DEF Inv

\* The buffer that goes to the front of the list is taken out where it was.
LEMMA ToFront ==
  ASSUME TypeOK, NEW i \in Bufs
  PROVE  toFront(i) \in [Bufs -> Bufs] /\ \A j \in Bufs : \E n \in Bufs : toFront(i)[n] = j
<1> DEFINE at == CHOOSE n \in Bufs : lru[n] = i
<1>1. lru \in [Bufs -> Bufs] /\ \A j \in Bufs : \E n \in Bufs : lru[n] = j
  BY Types
<1>2. at \in Bufs /\ lru[at] = i
  BY <1>1
<1> HIDE DEF at
<1>3. toFront(i) = [n \in Bufs |-> IF n = 1 THEN i ELSE IF n <= at THEN lru[n - 1] ELSE lru[n]]
  BY DEF toFront, at
<1>4. NBUF \in Nat /\ 1 \in Bufs /\ \A n \in Bufs \ {1} : n - 1 \in Bufs
  BY CacheAssumption DEF Bufs
<1>5. ASSUME NEW j \in Bufs PROVE \E n \in Bufs : toFront(i)[n] = j
  <2>1. PICK n \in Bufs : lru[n] = j
    BY <1>1
  <2>2. CASE n = at
    BY <1>2, <1>3, <1>4, <2>1, <2>2
  <2>3. CASE n < at
    <3>1. n + 1 \in Bufs /\ n + 1 # 1 /\ n + 1 <= at /\ (n + 1) - 1 = n
      BY <1>2, <1>4, <2>3 DEF Bufs
    <3> QED
      BY <1>3, <2>1, <3>1
  <2>4. CASE n > at
    <3>1. n # 1 /\ ~(n <= at)
      BY <1>2, <1>4, <2>4 DEF Bufs
    <3> QED
      BY <1>3, <2>1, <3>1
  <2> QED
    BY <1>2, <2>2, <2>3, <2>4 DEF Bufs
<1> QED
  BY <1>1, <1>3, <1>4, <1>5

\* brelse() gives its reference back.
LEMMA BrelseKeeps == ASSUME Inv, NEW p \in Procs, brelse(p) PROVE Inv'
<1>3. PICK i \in Bufs : i = b[p]
  BY DEF Inv, StageOK, Referencing, brelse, At
<1> DEFINE r == [buf[i] EXCEPT !.refcnt = buf[i].refcnt - 1]
<1>1. /\ buf \in [Bufs -> Buffer] /\ pc \in [Procs -> Referencing \cup {"idle"}]
      /\ b \in [Procs -> Bufs \cup {NoBuf}] /\ want \in [Procs -> Blocks \cup {NoBlock}]
      /\ lru \in [Bufs -> Bufs] /\ \A j \in Bufs : \E n \in Bufs : lru[n] = j
      /\ TypeOK
  BY Types DEF Inv
<1>2. /\ pc[p] = "put" /\ UNCHANGED <<idequeue, request, disk, got, panic>>
      /\ buf' = [buf EXCEPT ![i].refcnt = @ - 1]
      /\ lru' = IF buf[i].refcnt = 1 THEN toFront(i) ELSE lru
      /\ pc' = [pc EXCEPT ![p] = "idle"] /\ b' = [b EXCEPT ![p] = NoBuf]
      /\ want' = [want EXCEPT ![p] = NoBlock]
  BY <1>3 DEF brelse, At, ideVars
<1>4. \A q \in Procs :
         /\ pc'[q] = IF q = p THEN "idle" ELSE pc[q]
         /\ b'[q] = IF q = p THEN NoBuf ELSE b[q]
         /\ want'[q] = IF q = p THEN NoBlock ELSE want[q]
  BY <1>1, <1>2
<1>5. /\ \A j \in Bufs : Refs(j)' = Refs(j) \ {p}
      /\ \A j \in Bufs : p \in Refs(j) <=> j = i
  BY <1>2, <1>3, <1>4 DEF Refs, Referencing, Holding, InUse
<1>6. /\ Cardinality(Refs(i)) \in Nat /\ Cardinality(Refs(i)) > 0
      /\ Cardinality(Refs(i)') = Cardinality(Refs(i)) - 1
  <2>1. IsFiniteSet(Refs(i)) /\ p \in Refs(i)
    BY <1>3, <1>5, RefsFinite
  <2>2. Cardinality(Refs(i)) \in Nat /\ Refs(i) # {}
    BY <2>1, FS_CardinalityType
  <2>3. Cardinality(Refs(i)) # 0
    BY <2>1, <2>2, FS_EmptySet
  <2>4. Cardinality(Refs(i) \ {p}) = Cardinality(Refs(i)) - 1
    BY <2>1, FS_RemoveElement
  <2>5. Refs(i)' = Refs(i) \ {p}
    BY <1>3, <1>4, <1>2 DEF Refs, Referencing, Holding, InUse
  <2> QED
    BY <2>2, <2>3, <2>4, <2>5
<1>7. buf[i].refcnt = Cardinality(Refs(i))
  BY <1>3 DEF Inv, CountsOK
<1>8. buf' = [buf EXCEPT ![i] = r]
  BY <1>1, <1>2, <1>3
<1>9. buf[i].refcnt - 1 \in 0 .. Cardinality(Procs)
  <2>1. Cardinality(Refs(i)) \in 0 .. Cardinality(Procs) /\ Cardinality(Procs) \in Nat
    BY <1>3, RefsFinite, CacheAssumption, FS_CardinalityType
  <2> QED
    BY <1>6, <1>7, <2>1
<1>10. r \in Buffer
  <2> DEFINE count == buf[i].refcnt - 1
  <2>1. buf[i] \in Buffer /\ count \in 0 .. Cardinality(Procs)
    BY <1>1, <1>9
  <2> HIDE DEF count
  <2>2. [buf[i] EXCEPT !.refcnt = count] \in Buffer
    BY <2>1 DEF Buffer
  <2> QED
    BY <2>2 DEF count
<1>11. buf' \in [Bufs -> Buffer] /\ \A j \in Bufs : buf'[j] = IF j = i THEN r ELSE buf[j]
  BY <1>1, <1>3, <1>8, <1>10
<1>12. /\ r.blockno = buf[i].blockno /\ r.valid = buf[i].valid /\ r.dirty = buf[i].dirty
       /\ r.refcnt = buf[i].refcnt - 1 /\ r.data = buf[i].data /\ r.owner = buf[i].owner
  BY <1>1, <1>3 DEF Buffer
<1> HIDE DEF r
<1>13. \A j \in Bufs :
          /\ buf'[j].blockno = buf[j].blockno /\ buf'[j].valid = buf[j].valid
          /\ buf'[j].dirty = buf[j].dirty /\ buf'[j].data = buf[j].data
          /\ buf'[j].owner = buf[j].owner
          /\ buf'[j].refcnt = IF j = i THEN buf[i].refcnt - 1 ELSE buf[j].refcnt
  BY <1>11, <1>12
<1>14. TypeOK'
  <2>1. pc' \in [Procs -> Referencing \cup {"idle"}]
    BY <1>1, <1>2
  <2>2. b' \in [Procs -> Bufs \cup {NoBuf}] /\ want' \in [Procs -> Blocks \cup {NoBlock}]
    BY <1>1, <1>2
  <2>3. lru' \in [Bufs -> Bufs] /\ \A j \in Bufs : \E n \in Bufs : lru'[n] = j
    <3>1. CASE buf[i].refcnt = 1
      <4>1. lru' = toFront(i)
        BY <1>2, <3>1
      <4> QED
        BY <1>1, <1>3, <4>1, ToFront
    <3>2. CASE buf[i].refcnt # 1
      BY <1>1, <1>2, <3>2
    <3> QED
      BY <3>1, <3>2
  <2> QED
    BY <1>1, <1>2, <1>11, <2>1, <2>2, <2>3 DEF TypeOK, Buffer
<1>15. OneCopy'
  BY <1>13 DEF Inv, OneCopy
<1>16. WantOK'
  BY <1>4, <1>13 DEF Inv, WantOK, StageOK, Referencing, Holding, InUse
<1>17. CountsOK'
  <2> SUFFICES ASSUME NEW j \in Bufs PROVE buf'[j].refcnt = Cardinality(Refs(j)')
    BY DEF CountsOK
  <2>1. CASE j = i
    BY <1>6, <1>7, <1>13, <2>1
  <2>2. CASE j # i
    <3>1. Refs(j)' = Refs(j)
      BY <1>5, <2>2
    <3> QED
      BY <1>13, <2>2, <3>1 DEF Inv, CountsOK
  <2> QED
    BY <2>1, <2>2
<1>18. OwnerOK'
  BY <1>2, <1>4, <1>13 DEF Inv, OwnerOK, Holding, InUse
<1>19. QueueOK'
  <2>1. \A q \in Procs : pc[q] \in {"reading", "writing"} =>
           b[q] \in Bufs /\ pc'[q] = pc[q] /\ b'[q] = b[q]
    BY <1>2, <1>4 DEF Inv, StageOK, Referencing, Holding, InUse
  <2> QED
    BY <1>2, <1>13, <2>1, QueueKept
<1>20. StageOK'
  <2> SUFFICES ASSUME NEW q \in Procs
               PROVE  /\ pc'[q] \in Referencing => b'[q] \in Bufs /\ want'[q] \in Blocks
                      /\ pc'[q] \in {"read", "reading"} => ~buf'[b'[q]].valid
                      /\ pc'[q] \in InUse \cup {"readDone"} => buf'[b'[q]].valid
                      /\ pc'[q] = "writing" => buf'[b'[q]].dirty
                      /\ pc'[q] \in {"readDone", "written"} => ~buf'[b'[q]].dirty
    BY DEF StageOK
  <2>1. CASE q = p
    BY <1>4, <2>1 DEF Referencing, Holding, InUse
  <2>2. CASE q # p
    <3>1. /\ pc[q] \in Referencing => b[q] \in Bufs /\ want[q] \in Blocks
          /\ pc[q] \in {"read", "reading"} => ~buf[b[q]].valid
          /\ pc[q] \in InUse \cup {"readDone"} => buf[b[q]].valid
          /\ pc[q] = "writing" => buf[b[q]].dirty
          /\ pc[q] \in {"readDone", "written"} => ~buf[b[q]].dirty
      BY DEF Inv, StageOK
    <3>2. pc[q] \in Referencing =>
             buf'[b[q]].valid = buf[b[q]].valid /\ buf'[b[q]].dirty = buf[b[q]].dirty
      BY <1>13, <3>1
    <3>3. pc'[q] = pc[q] /\ b'[q] = b[q] /\ want'[q] = want[q]
      BY <1>4, <2>2
    <3> QED
      BY <3>1, <3>2, <3>3 DEF Referencing, Holding, InUse
  <2> QED
    BY <2>1, <2>2
<1>21. DataOK'
  BY <1>2, <1>13 DEF Inv, DataOK
<1> QED
  BY <1>14, <1>15, <1>16, <1>17, <1>18, <1>19, <1>20, <1>21 DEF Inv

\* bget() takes a reference to a buffer; what it does to the references is the same
\* whether the buffer was found or recycled.
LEMMA ReferenceTaken ==
  ASSUME Inv, NEW p \in Procs, NEW i \in Bufs, NEW k \in Blocks, pc[p] = "idle",
         pc' = [pc EXCEPT ![p] = "lock"], b' = [b EXCEPT ![p] = i],
         want' = [want EXCEPT ![p] = k]
  PROVE  /\ \A q \in Procs : /\ pc'[q] = IF q = p THEN "lock" ELSE pc[q]
                             /\ b'[q] = IF q = p THEN i ELSE b[q]
                             /\ want'[q] = IF q = p THEN k ELSE want[q]
         /\ pc' \in [Procs -> Referencing \cup {"idle"}]
         /\ b' \in [Procs -> Bufs \cup {NoBuf}] /\ want' \in [Procs -> Blocks \cup {NoBlock}]
         /\ \A j \in Bufs \ {i} : Refs(j)' = Refs(j)
         /\ Cardinality(Refs(i)') = Cardinality(Refs(i)) + 1
         /\ Cardinality(Refs(i)) + 1 \in 0 .. Cardinality(Procs)
         /\ Cardinality(Refs(i)) \in Nat
<1>1. /\ pc \in [Procs -> Referencing \cup {"idle"}]
      /\ b \in [Procs -> Bufs \cup {NoBuf}] /\ want \in [Procs -> Blocks \cup {NoBlock}]
  BY Types DEF Inv
<1>2. \A q \in Procs : /\ pc'[q] = IF q = p THEN "lock" ELSE pc[q]
                       /\ b'[q] = IF q = p THEN i ELSE b[q]
                       /\ want'[q] = IF q = p THEN k ELSE want[q]
  BY <1>1
<1>3. /\ pc' \in [Procs -> Referencing \cup {"idle"}]
      /\ b' \in [Procs -> Bufs \cup {NoBuf}] /\ want' \in [Procs -> Blocks \cup {NoBlock}]
  BY <1>1 DEF Referencing
<1>4. p \notin Refs(i) /\ Refs(i)' = Refs(i) \cup {p} /\ \A j \in Bufs \ {i} : Refs(j)' = Refs(j)
  BY <1>2 DEF Refs, Referencing, Holding, InUse
<1>5. IsFiniteSet(Refs(i)) /\ Cardinality(Refs(i)) \in Nat
  BY RefsFinite, FS_CardinalityType
<1>6. Cardinality(Refs(i) \cup {p}) = Cardinality(Refs(i)) + 1
  BY <1>4, <1>5, FS_AddElement
<1>7. Cardinality(Refs(i) \cup {p}) <= Cardinality(Procs) /\ Cardinality(Procs) \in Nat
  <2>1. Refs(i) \cup {p} \subseteq Procs
    BY DEF Refs
  <2> QED
    BY <2>1, CacheAssumption, FS_Subset, FS_CardinalityType
<1> QED
  BY <1>2, <1>3, <1>4, <1>5, <1>6, <1>7

\* bget() finds the block in the cache.
LEMMA HitKeeps ==
  ASSUME Inv, NEW p \in Procs, NEW k \in Blocks, bget(p, k), cached(k) # {}
  PROVE  Inv'
<1>1. /\ buf \in [Bufs -> Buffer] /\ TypeOK
  BY Types DEF Inv
<1>2. PICK i \in cached(k) : i = CHOOSE j \in cached(k) : TRUE
  OBVIOUS
<1>3. i \in Bufs /\ buf[i].blockno = k
  BY <1>2 DEF cached
<1>4. /\ pc[p] = "idle" /\ UNCHANGED <<lru, idequeue, request, disk, got, panic>>
      /\ buf' = [buf EXCEPT ![i].refcnt = @ + 1]
      /\ b' = [b EXCEPT ![p] = i] /\ want' = [want EXCEPT ![p] = k]
      /\ pc' = [pc EXCEPT ![p] = "lock"]
  BY <1>2 DEF bget, At, ideVars
<1>5. /\ \A q \in Procs : /\ pc'[q] = IF q = p THEN "lock" ELSE pc[q]
                          /\ b'[q] = IF q = p THEN i ELSE b[q]
                          /\ want'[q] = IF q = p THEN k ELSE want[q]
      /\ pc' \in [Procs -> Referencing \cup {"idle"}]
      /\ b' \in [Procs -> Bufs \cup {NoBuf}] /\ want' \in [Procs -> Blocks \cup {NoBlock}]
      /\ \A j \in Bufs \ {i} : Refs(j)' = Refs(j)
      /\ Cardinality(Refs(i)') = Cardinality(Refs(i)) + 1
      /\ Cardinality(Refs(i)) + 1 \in 0 .. Cardinality(Procs)
  BY <1>3, <1>4, ReferenceTaken
<1>6. buf[i].refcnt = Cardinality(Refs(i))
  BY <1>3 DEF Inv, CountsOK
<1> DEFINE count == buf[i].refcnt + 1
           r == [buf[i] EXCEPT !.refcnt = count]
<1>7. buf' = [buf EXCEPT ![i] = r]
  BY <1>1, <1>3, <1>4
<1>8. count \in 0 .. Cardinality(Procs) /\ count = Cardinality(Refs(i)')
  BY <1>5, <1>6
<1> HIDE DEF count
<1>9. r \in Buffer
  BY <1>1, <1>3, <1>8 DEF Buffer
<1>10. buf' \in [Bufs -> Buffer] /\ \A j \in Bufs : buf'[j] = IF j = i THEN r ELSE buf[j]
  BY <1>1, <1>3, <1>7, <1>9
<1>11. /\ r.blockno = buf[i].blockno /\ r.valid = buf[i].valid /\ r.dirty = buf[i].dirty
       /\ r.refcnt = count /\ r.data = buf[i].data /\ r.owner = buf[i].owner
  BY <1>1, <1>3 DEF Buffer
<1> HIDE DEF r
<1>12. \A j \in Bufs :
          /\ buf'[j].blockno = buf[j].blockno /\ buf'[j].valid = buf[j].valid
          /\ buf'[j].dirty = buf[j].dirty /\ buf'[j].data = buf[j].data
          /\ buf'[j].owner = buf[j].owner
          /\ buf'[j].refcnt = IF j = i THEN count ELSE buf[j].refcnt
  BY <1>10, <1>11
<1>13. TypeOK'
  BY <1>1, <1>4, <1>5, <1>10 DEF TypeOK, Buffer
<1>14. OneCopy'
  BY <1>12 DEF Inv, OneCopy
<1>15. WantOK'
  BY <1>3, <1>5, <1>12 DEF Inv, WantOK, StageOK, Referencing
<1>16. CountsOK'
  <2> SUFFICES ASSUME NEW j \in Bufs PROVE buf'[j].refcnt = Cardinality(Refs(j)')
    BY DEF CountsOK
  <2>1. CASE j = i
    BY <1>8, <1>12, <2>1
  <2>2. CASE j # i
    <3>1. Refs(j)' = Refs(j)
      BY <1>5, <2>2
    <3> QED
      BY <1>12, <2>2, <3>1 DEF Inv, CountsOK
  <2> QED
    BY <2>1, <2>2
<1>17. OwnerOK'
  BY <1>4, <1>5, <1>12 DEF Inv, OwnerOK, Holding, InUse
<1>18. QueueOK'
  <2>1. \A q \in Procs : pc[q] \in {"reading", "writing"} =>
           b[q] \in Bufs /\ pc'[q] = pc[q] /\ b'[q] = b[q]
    BY <1>4, <1>5 DEF Inv, StageOK, Referencing, Holding, InUse
  <2> QED
    BY <1>4, <1>12, <2>1, QueueKept
<1>19. StageOK'
  <2> SUFFICES ASSUME NEW q \in Procs
               PROVE  /\ pc'[q] \in Referencing => b'[q] \in Bufs /\ want'[q] \in Blocks
                      /\ pc'[q] \in {"read", "reading"} => ~buf'[b'[q]].valid
                      /\ pc'[q] \in InUse \cup {"readDone"} => buf'[b'[q]].valid
                      /\ pc'[q] = "writing" => buf'[b'[q]].dirty
                      /\ pc'[q] \in {"readDone", "written"} => ~buf'[b'[q]].dirty
    BY DEF StageOK
  <2>1. CASE q = p
    BY <1>3, <1>5, <2>1 DEF InUse
  <2>2. CASE q # p
    <3>1. /\ pc[q] \in Referencing => b[q] \in Bufs /\ want[q] \in Blocks
          /\ pc[q] \in {"read", "reading"} => ~buf[b[q]].valid
          /\ pc[q] \in InUse \cup {"readDone"} => buf[b[q]].valid
          /\ pc[q] = "writing" => buf[b[q]].dirty
          /\ pc[q] \in {"readDone", "written"} => ~buf[b[q]].dirty
      BY DEF Inv, StageOK
    <3>2. pc[q] \in Referencing =>
             buf'[b[q]].valid = buf[b[q]].valid /\ buf'[b[q]].dirty = buf[b[q]].dirty
      BY <1>12, <3>1
    <3>3. pc'[q] = pc[q] /\ b'[q] = b[q] /\ want'[q] = want[q]
      BY <1>5, <2>2
    <3> QED
      BY <3>1, <3>2, <3>3 DEF Referencing, Holding, InUse
  <2> QED
    BY <2>1, <2>2
<1>20. DataOK'
  BY <1>4, <1>12 DEF Inv, DataOK
<1> QED
  BY <1>13, <1>14, <1>15, <1>16, <1>17, <1>18, <1>19, <1>20 DEF Inv

\* A buffer that is referenced has a count that says so.
LEMMA Unreferenced ==
  ASSUME Inv, NEW i \in Bufs, buf[i].refcnt = 0
  PROVE  Refs(i) = {} /\ \A p \in Procs : pc[p] \in Referencing => b[p] # i
<1>1. Cardinality(Refs(i)) = 0 /\ IsFiniteSet(Refs(i))
  BY RefsFinite DEF Inv, CountsOK
<1>2. Refs(i) = {}
  BY <1>1, FS_EmptySet
<1> QED
  BY <1>2 DEF Refs

\* bget() recycles a buffer that is clean and that nobody has.
LEMMA RecycleKeeps ==
  ASSUME Inv, NEW p \in Procs, NEW k \in Blocks, bget(p, k), cached(k) = {}, recyclable # {}
  PROVE  Inv'
<1>1. /\ buf \in [Bufs -> Buffer] /\ TypeOK
  BY Types DEF Inv
<1>2. PICK i \in recyclable : i = leastRecent(recyclable)
  BY <1>1, LeastRecent DEF recyclable
<1>3. i \in Bufs /\ buf[i].refcnt = 0 /\ ~buf[i].dirty
  BY <1>2 DEF recyclable
<1>4. /\ pc[p] = "idle" /\ UNCHANGED <<lru, idequeue, request, disk, got, panic>>
      /\ buf' = [buf EXCEPT ![i].blockno = k, ![i].refcnt = 1, ![i].valid = FALSE,
                            ![i].dirty = FALSE]
      /\ b' = [b EXCEPT ![p] = i] /\ want' = [want EXCEPT ![p] = k]
      /\ pc' = [pc EXCEPT ![p] = "lock"]
  BY <1>2 DEF bget, At, ideVars
<1>5. /\ \A q \in Procs : /\ pc'[q] = IF q = p THEN "lock" ELSE pc[q]
                          /\ b'[q] = IF q = p THEN i ELSE b[q]
                          /\ want'[q] = IF q = p THEN k ELSE want[q]
      /\ pc' \in [Procs -> Referencing \cup {"idle"}]
      /\ b' \in [Procs -> Bufs \cup {NoBuf}] /\ want' \in [Procs -> Blocks \cup {NoBlock}]
      /\ \A j \in Bufs \ {i} : Refs(j)' = Refs(j)
      /\ Cardinality(Refs(i)') = Cardinality(Refs(i)) + 1
      /\ Cardinality(Refs(i)) + 1 \in 0 .. Cardinality(Procs)
  BY <1>3, <1>4, ReferenceTaken
<1>6. /\ \A q \in Procs : pc[q] \in Referencing => b[q] # i
      /\ Cardinality(Refs(i)) = 0
  BY <1>3, Unreferenced, FS_EmptySet
<1> DEFINE r == [buf[i] EXCEPT !.blockno = k, !.refcnt = 1, !.valid = FALSE, !.dirty = FALSE]
<1>7. buf' = [buf EXCEPT ![i] = r]
  BY <1>1, <1>3, <1>4
<1>8. 1 \in 0 .. Cardinality(Procs) /\ Cardinality(Refs(i)') = 1
  BY <1>5, <1>6
<1>9. r \in Buffer
  BY <1>1, <1>3, <1>8 DEF Buffer
<1>10. buf' \in [Bufs -> Buffer] /\ \A j \in Bufs : buf'[j] = IF j = i THEN r ELSE buf[j]
  BY <1>1, <1>3, <1>7, <1>9
<1>11. /\ r.blockno = k /\ r.valid = FALSE /\ r.dirty = FALSE
       /\ r.refcnt = 1 /\ r.owner = buf[i].owner
  BY <1>1, <1>3 DEF Buffer
<1> HIDE DEF r
<1>12. /\ \A j \in Bufs \ {i} : buf'[j] = buf[j]
       /\ buf'[i].blockno = k /\ buf'[i].valid = FALSE /\ buf'[i].dirty = FALSE
       /\ buf'[i].refcnt = 1 /\ buf'[i].owner = buf[i].owner
  BY <1>3, <1>10, <1>11
<1>13. TypeOK'
  <2>1. buf' \in [Bufs -> Buffer]
    BY <1>10
  <2>2. UNCHANGED <<lru, idequeue, request, disk, got, panic>>
    BY <1>4
  <2>3. /\ pc' \in [Procs -> Referencing \cup {"idle"}]
        /\ b' \in [Procs -> Bufs \cup {NoBuf}] /\ want' \in [Procs -> Blocks \cup {NoBlock}]
    BY <1>5
  <2> QED
    BY <1>1, <2>1, <2>2, <2>3 DEF TypeOK, Buffer
<1>14. OneCopy'
  <2>1. \A j \in Bufs : buf[j].blockno # k
    BY DEF cached
  <2> QED
    BY <1>12, <2>1 DEF Inv, OneCopy
<1>15. WantOK'
  <2> SUFFICES ASSUME NEW q \in Procs, pc'[q] \in Referencing
               PROVE  buf'[b'[q]].blockno = want'[q]
    BY DEF WantOK
  <2>1. CASE q = p
    BY <1>3, <1>5, <1>12, <2>1
  <2>2. CASE q # p
    BY <1>5, <1>6, <1>12, <2>2 DEF Inv, WantOK, StageOK
  <2> QED
    BY <2>1, <2>2
<1>16. CountsOK'
  <2> SUFFICES ASSUME NEW j \in Bufs PROVE buf'[j].refcnt = Cardinality(Refs(j)')
    BY DEF CountsOK
  <2>1. CASE j = i
    BY <1>8, <1>12, <2>1
  <2>2. CASE j # i
    <3>1. Refs(j)' = Refs(j)
      BY <1>5, <2>2
    <3> QED
      BY <1>12, <2>2, <3>1 DEF Inv, CountsOK
  <2> QED
    BY <2>1, <2>2
<1>17. OwnerOK'
  <2>1. \A j \in Bufs : buf'[j].owner = buf[j].owner
    BY <1>12
  <2>2. /\ pc[p] \notin Holding /\ pc'[p] \notin Holding
        /\ \A q \in Procs \ {p} : pc'[q] = pc[q] /\ b'[q] = b[q]
    BY <1>4, <1>5 DEF Holding, InUse
  <2> QED
    BY <2>1, <2>2 DEF Inv, OwnerOK
<1>18. QueueOK'
  <2>1. \A q \in Procs : pc[q] \in {"reading", "writing"} =>
           b[q] \in Bufs \ {i} /\ pc'[q] = pc[q] /\ b'[q] = b[q]
    BY <1>4, <1>5, <1>6 DEF Inv, StageOK, Referencing, Holding, InUse
  <2> QED
    BY <1>4, <1>12, <2>1, QueueKept
<1>19. StageOK'
  <2> SUFFICES ASSUME NEW q \in Procs
               PROVE  /\ pc'[q] \in Referencing => b'[q] \in Bufs /\ want'[q] \in Blocks
                      /\ pc'[q] \in {"read", "reading"} => ~buf'[b'[q]].valid
                      /\ pc'[q] \in InUse \cup {"readDone"} => buf'[b'[q]].valid
                      /\ pc'[q] = "writing" => buf'[b'[q]].dirty
                      /\ pc'[q] \in {"readDone", "written"} => ~buf'[b'[q]].dirty
    BY DEF StageOK
  <2>1. CASE q = p
    BY <1>3, <1>5, <2>1 DEF InUse
  <2>2. CASE q # p
    <3>1. /\ pc[q] \in Referencing => b[q] \in Bufs /\ want[q] \in Blocks
          /\ pc[q] \in {"read", "reading"} => ~buf[b[q]].valid
          /\ pc[q] \in InUse \cup {"readDone"} => buf[b[q]].valid
          /\ pc[q] = "writing" => buf[b[q]].dirty
          /\ pc[q] \in {"readDone", "written"} => ~buf[b[q]].dirty
      BY DEF Inv, StageOK
    <3>2. pc[q] \in Referencing => buf'[b[q]] = buf[b[q]]
      BY <1>6, <1>12, <3>1
    <3>3. pc'[q] = pc[q] /\ b'[q] = b[q] /\ want'[q] = want[q]
      BY <1>5, <2>2
    <3> QED
      BY <3>1, <3>2, <3>3 DEF Referencing, Holding, InUse
  <2> QED
    BY <2>1, <2>2
<1>20. DataOK'
  <2> SUFFICES ASSUME NEW j \in Bufs
               PROVE  /\ buf'[j].dirty => buf'[j].valid
                      /\ buf'[j].valid => buf'[j].blockno \in Blocks
                      /\ buf'[j].valid /\ ~buf'[j].dirty => buf'[j].data = disk[buf'[j].blockno]
    BY <1>4 DEF DataOK
  <2>1. CASE j = i
    BY <1>12, <2>1
  <2>2. CASE j # i
    BY <1>12, <2>2 DEF Inv, DataOK
  <2> QED
    BY <2>1, <2>2
<1> QED
  BY <1>13, <1>14, <1>15, <1>16, <1>17, <1>18, <1>19, <1>20 DEF Inv

\* What the controller works on is the first buffer of the queue, and its holder sleeps.
LEMMA ActiveRequest ==
  ASSUME Inv, request # NoRequest
  PROVE  /\ idequeue # <<>> /\ Head(idequeue) \in Bufs /\ Head(idequeue) = idequeue[1]
         /\ 1 \in DOMAIN idequeue
         /\ \E p \in Procs : b[p] = Head(idequeue) /\ pc[p] \in {"reading", "writing"}
         /\ request.blockno = buf[Head(idequeue)].blockno
         /\ request.write = buf[Head(idequeue)].dirty
         /\ request.data = buf[Head(idequeue)].data
         /\ request.blockno \in Blocks
<1>1. request = idestart(buf, idequeue)
  BY DEF Inv, QueueOK
<1>2. idequeue # <<>>
  BY <1>1 DEF idestart
<1>3. idequeue \in Seq(Bufs)
  BY Types DEF Inv
<1>4. 1 \in DOMAIN idequeue /\ Head(idequeue) = idequeue[1] /\ Head(idequeue) \in Bufs
  BY <1>2, <1>3
<1>5. PICK p \in Procs : b[p] = Head(idequeue) /\ pc[p] \in {"reading", "writing"}
  BY <1>4 DEF Inv, QueueOK
<1>6. /\ request.blockno = buf[Head(idequeue)].blockno
      /\ request.write = buf[Head(idequeue)].dirty
      /\ request.data = buf[Head(idequeue)].data
  BY <1>1, <1>2 DEF idestart
<1>7. buf[Head(idequeue)].blockno \in Blocks
  BY <1>5 DEF Inv, WantOK, StageOK, Referencing, Holding, InUse
<1> QED
  BY <1>2, <1>4, <1>5, <1>6, <1>7

\* ideintr() finishes the first request: the disk and the buffer agree, and nothing else
\* changes.
LEMMA InterruptEffect ==
  ASSUME Inv, ideintr
  PROVE  \E i \in Bufs, p \in Procs, k \in Blocks :
            /\ idequeue # <<>> /\ i = Head(idequeue) /\ i = idequeue[1]
            /\ b[p] = i /\ pc[p] \in {"reading", "writing"}
            /\ buf[i].blockno = k
            /\ buf' \in [Bufs -> Buffer] /\ \A j \in Bufs \ {i} : buf'[j] = buf[j]
            /\ buf'[i].blockno = k /\ buf'[i].valid /\ ~buf'[i].dirty
            /\ buf'[i].refcnt = buf[i].refcnt /\ buf'[i].owner = buf[i].owner
            /\ buf[i].dirty => buf'[i].data = buf[i].data
            /\ ~buf[i].dirty => buf'[i].data = disk[k]
            /\ disk' \in [Blocks -> Values] /\ \A l \in Blocks \ {k} : disk'[l] = disk[l]
            /\ disk'[k] = buf'[i].data
            /\ \A q \in Procs :
                  \/ /\ b[q] = i /\ pc[q] = "reading" /\ pc'[q] = "readDone"
                  \/ /\ b[q] = i /\ pc[q] = "writing" /\ pc'[q] = "written"
                  \/ /\ b[q] # i \/ pc[q] \notin {"reading", "writing"}
                     /\ pc'[q] = pc[q]
            /\ pc' \in [Procs -> Referencing \cup {"idle"}]
<1>1. /\ buf \in [Bufs -> Buffer] /\ disk \in [Blocks -> Values]
      /\ pc \in [Procs -> Referencing \cup {"idle"}]
  BY Types DEF Inv
<1>2. request # NoRequest
  BY DEF ideintr
<1>3. PICK i \in Bufs : i = Head(idequeue)
  BY <1>2, ActiveRequest
<1>4. PICK k \in Blocks : k = request.blockno
  BY <1>2, ActiveRequest
<1>5. /\ idequeue # <<>> /\ i = idequeue[1] /\ buf[i].blockno = k
      /\ request.write = buf[i].dirty /\ request.data = buf[i].data
  BY <1>2, <1>3, <1>4, ActiveRequest
<1>6. PICK p \in Procs : b[p] = i /\ pc[p] \in {"reading", "writing"}
  BY <1>2, <1>3, ActiveRequest
<1> DEFINE data == IF buf[i].dirty THEN buf[i].data ELSE disk[k]
           r == [buf[i] EXCEPT !.data = data, !.valid = TRUE, !.dirty = FALSE]
<1>7. /\ buf' = [buf EXCEPT ![i].data = data, ![i].valid = TRUE, ![i].dirty = FALSE]
      /\ disk' = IF request.write THEN [disk EXCEPT ![k] = request.data] ELSE disk
      /\ pc' = [q \in Procs |-> IF b[q] # i THEN pc[q]
                                ELSE CASE pc[q] = "reading" -> "readDone"
                                       [] pc[q] = "writing" -> "written"
                                       [] OTHER -> pc[q]]
  BY <1>3, <1>4 DEF ideintr
<1>8. buf[i] \in Buffer /\ data \in Values
  BY <1>1 DEF Buffer
<1>9. /\ buf[i].dirty => data = buf[i].data
      /\ ~buf[i].dirty => data = disk[k]
  OBVIOUS
<1> HIDE DEF data
<1>10. buf' = [buf EXCEPT ![i] = r]
  BY <1>1, <1>7
<1>11. r \in Buffer
  BY <1>8 DEF Buffer
<1>12. /\ r.blockno = buf[i].blockno /\ r.valid /\ ~r.dirty
       /\ r.refcnt = buf[i].refcnt /\ r.data = data /\ r.owner = buf[i].owner
  BY <1>8 DEF Buffer
<1> HIDE DEF r
<1>13. buf' \in [Bufs -> Buffer] /\ \A j \in Bufs \ {i} : buf'[j] = buf[j]
  BY <1>1, <1>10, <1>11
<1>14. buf'[i] = r
  BY <1>1, <1>10
<1>15. /\ buf'[i].blockno = k /\ buf'[i].valid /\ ~buf'[i].dirty
       /\ buf'[i].refcnt = buf[i].refcnt /\ buf'[i].owner = buf[i].owner
       /\ buf'[i].data = data
  BY <1>5, <1>12, <1>14
<1>16. /\ disk' \in [Blocks -> Values] /\ \A l \in Blocks \ {k} : disk'[l] = disk[l]
       /\ disk'[k] = data
  <2>1. CASE request.write
    <3>1. disk' = [disk EXCEPT ![k] = data]
      BY <1>5, <1>7, <1>9, <2>1
    <3> QED
      BY <1>1, <1>8, <3>1
  <2>2. CASE ~request.write
    BY <1>1, <1>5, <1>7, <1>9, <2>2
  <2> QED
    BY <2>1, <2>2
<1>17. \A q \in Procs :
          \/ /\ b[q] = i /\ pc[q] = "reading" /\ pc'[q] = "readDone"
          \/ /\ b[q] = i /\ pc[q] = "writing" /\ pc'[q] = "written"
          \/ /\ b[q] # i \/ pc[q] \notin {"reading", "writing"}
             /\ pc'[q] = pc[q]
  BY <1>7
<1>18. pc' \in [Procs -> Referencing \cup {"idle"}]
  <2>1. \A q \in Procs : pc'[q] \in Referencing \cup {"idle"}
    BY <1>1, <1>17 DEF Referencing, Holding, InUse
  <2> QED
    BY <1>7, <2>1
<1>19. /\ buf[i].dirty => buf'[i].data = buf[i].data
       /\ ~buf[i].dirty => buf'[i].data = disk[k]
       /\ disk'[k] = buf'[i].data
  BY <1>9, <1>15, <1>16
<1> QED
  BY <1>3, <1>5, <1>6, <1>13, <1>15, <1>16, <1>17, <1>18, <1>19

\* The interrupt wakes the holder of the buffer, with the buffer as it wanted it.
LEMMA IdeintrKeeps == ASSUME Inv, ideintr PROVE Inv'
<1>1. PICK i \in Bufs, p \in Procs, k \in Blocks :
            /\ idequeue # <<>> /\ i = Head(idequeue) /\ i = idequeue[1]
            /\ b[p] = i /\ pc[p] \in {"reading", "writing"}
            /\ buf[i].blockno = k
            /\ buf' \in [Bufs -> Buffer] /\ \A j \in Bufs \ {i} : buf'[j] = buf[j]
            /\ buf'[i].blockno = k /\ buf'[i].valid /\ ~buf'[i].dirty
            /\ buf'[i].refcnt = buf[i].refcnt /\ buf'[i].owner = buf[i].owner
            /\ buf[i].dirty => buf'[i].data = buf[i].data
            /\ ~buf[i].dirty => buf'[i].data = disk[k]
            /\ disk' \in [Blocks -> Values] /\ \A l \in Blocks \ {k} : disk'[l] = disk[l]
            /\ disk'[k] = buf'[i].data
            /\ \A q \in Procs :
                  \/ /\ b[q] = i /\ pc[q] = "reading" /\ pc'[q] = "readDone"
                  \/ /\ b[q] = i /\ pc[q] = "writing" /\ pc'[q] = "written"
                  \/ /\ b[q] # i \/ pc[q] \notin {"reading", "writing"}
                     /\ pc'[q] = pc[q]
            /\ pc' \in [Procs -> Referencing \cup {"idle"}]
  BY InterruptEffect
<1>2. /\ TypeOK /\ idequeue \in Seq(Bufs) /\ Len(idequeue) <= NBUF
      /\ UNCHANGED <<lru, b, want, got, panic>>
      /\ idequeue' = Tail(idequeue) /\ request' = idestart(buf', idequeue')
  BY Types DEF Inv, ideintr
<1>3. \A j \in Bufs :
         /\ buf'[j].blockno = buf[j].blockno /\ buf'[j].refcnt = buf[j].refcnt
         /\ buf'[j].owner = buf[j].owner
  BY <1>1
<1>4. \A q \in Procs : pc[q] \in Holding /\ b[q] = i => q = p
  BY <1>1, HeldApart DEF Holding, InUse
<1>5. /\ idequeue' \in Seq(Bufs) /\ Len(idequeue') = Len(idequeue) - 1
      /\ DOMAIN idequeue' = 1 .. Len(idequeue) - 1 /\ DOMAIN idequeue = 1 .. Len(idequeue)
      /\ Len(idequeue) \in Nat /\ Len(idequeue) > 0
      /\ \A n \in 1 .. Len(idequeue) - 1 : idequeue'[n] = idequeue[n + 1]
  BY <1>1, <1>2
<1>6. OneCopy' /\ WantOK' /\ CountsOK'
  <2>1. \A q \in Procs : pc'[q] \in Referencing <=> pc[q] \in Referencing
    BY <1>1 DEF Referencing, Holding, InUse
  <2> QED
    BY <1>2, <1>3, <2>1, ReferencesKept
<1>7. OwnerOK'
  <2>1. \A q \in Procs : pc'[q] \in Holding <=> pc[q] \in Holding
    BY <1>1 DEF Holding, InUse
  <2> QED
    BY <1>2, <1>3, <2>1 DEF Inv, OwnerOK
<1>8. QueueOK'
  <2>1. ASSUME NEW n \in DOMAIN idequeue'
        PROVE  \E q \in Procs : b'[q] = idequeue'[n] /\ pc'[q] \in {"reading", "writing"}
    <3>1. n + 1 \in DOMAIN idequeue /\ 1 \in DOMAIN idequeue /\ n + 1 # 1
          /\ idequeue'[n] = idequeue[n + 1]
      BY <1>5
    <3>2. idequeue[n + 1] # i
      BY <1>1, <3>1 DEF Inv, QueueOK
    <3>3. PICK q \in Procs : b[q] = idequeue[n + 1] /\ pc[q] \in {"reading", "writing"}
      BY <3>1 DEF Inv, QueueOK
    <3> QED
      BY <1>1, <1>2, <3>1, <3>2, <3>3
  <2>2. ASSUME NEW m \in DOMAIN idequeue', NEW n \in DOMAIN idequeue',
               idequeue'[m] = idequeue'[n]
        PROVE  m = n
    <3>1. /\ m + 1 \in DOMAIN idequeue /\ n + 1 \in DOMAIN idequeue
          /\ idequeue[m + 1] = idequeue[n + 1]
      BY <1>5, <2>2
    <3>2. m + 1 = n + 1
      BY <3>1 DEF Inv, QueueOK
    <3> QED
      BY <1>5, <3>2
  <2> QED
    BY <1>2, <2>1, <2>2 DEF QueueOK
<1>9. TypeOK'
  <2>1. Len(idequeue') <= NBUF
    BY <1>2, <1>5, CacheAssumption
  <2>2. request' \in [blockno : Blocks \cup {NoBlock}, write : BOOLEAN, data : Values]
    <3>1. CASE idequeue' = <<>>
      BY <1>2, <3>1, CacheAssumption DEF idestart, NoRequest
    <3>2. CASE idequeue' # <<>>
      <4>1. buf'[Head(idequeue')] \in Buffer
        BY <1>1, <1>5, <3>2
      <4> QED
        BY <1>2, <3>2, <4>1 DEF idestart, Buffer
    <3> QED
      BY <3>1, <3>2
  <2>3. buf' \in [Bufs -> Buffer] /\ disk' \in [Blocks -> Values]
        /\ pc' \in [Procs -> Referencing \cup {"idle"}]
    BY <1>1
  <2> QED
    BY <1>2, <1>5, <2>1, <2>2, <2>3 DEF TypeOK, Buffer
<1>10. StageOK'
  <2> SUFFICES ASSUME NEW q \in Procs
               PROVE  /\ pc'[q] \in Referencing => b'[q] \in Bufs /\ want'[q] \in Blocks
                      /\ pc'[q] \in {"read", "reading"} => ~buf'[b'[q]].valid
                      /\ pc'[q] \in InUse \cup {"readDone"} => buf'[b'[q]].valid
                      /\ pc'[q] = "writing" => buf'[b'[q]].dirty
                      /\ pc'[q] \in {"readDone", "written"} => ~buf'[b'[q]].dirty
    BY DEF StageOK
  <2>1. /\ pc[q] \in Referencing => b[q] \in Bufs /\ want[q] \in Blocks
        /\ pc[q] \in {"read", "reading"} => ~buf[b[q]].valid
        /\ pc[q] \in InUse \cup {"readDone"} => buf[b[q]].valid
        /\ pc[q] = "writing" => buf[b[q]].dirty
        /\ pc[q] \in {"readDone", "written"} => ~buf[b[q]].dirty
    BY DEF Inv, StageOK
  <2>2. CASE q = p
    <3>1. /\ b'[q] = i /\ pc'[q] \in {"readDone", "written"} /\ want'[q] \in Blocks
      BY <1>1, <1>2, <2>1, <2>2 DEF Referencing, Holding, InUse
    <3> QED
      BY <1>1, <3>1 DEF InUse
  <2>3. CASE q # p
    <3>1. pc[q] \in Holding => b[q] # i
      BY <1>4, <2>3
    <3>2. b'[q] = b[q] /\ want'[q] = want[q] /\ pc'[q] = pc[q]
      BY <1>1, <1>2, <3>1 DEF Holding, InUse
    <3>3. pc[q] \in Holding => buf'[b[q]] = buf[b[q]]
      BY <1>1, <2>1, <3>1 DEF Referencing
    <3> QED
      BY <2>1, <3>2, <3>3 DEF Referencing, Holding, InUse
  <2> QED
    BY <2>2, <2>3
<1>11. DataOK'
  <2> SUFFICES ASSUME NEW j \in Bufs
               PROVE  /\ buf'[j].dirty => buf'[j].valid
                      /\ buf'[j].valid => buf'[j].blockno \in Blocks
                      /\ buf'[j].valid /\ ~buf'[j].dirty => buf'[j].data = disk'[buf'[j].blockno]
    BY DEF DataOK
  <2>1. CASE j = i
    BY <1>1, <2>1
  <2>2. CASE j # i
    <3>1. buf[j].valid => buf[j].blockno \in Blocks \ {k}
      BY <1>1, <2>2, CacheAssumption DEF Inv, DataOK, OneCopy
    <3>2. buf'[j] = buf[j]
      BY <1>1, <2>2
    <3>3. buf[j].valid => disk'[buf[j].blockno] = disk[buf[j].blockno]
      BY <1>1, <3>1
    <3> QED
      BY <3>1, <3>2, <3>3 DEF Inv, DataOK
  <2> QED
    BY <2>1, <2>2
<1> QED
  BY <1>6, <1>7, <1>8, <1>9, <1>10, <1>11 DEF Inv

-----------------------------------------------------------------------------
\* Every step keeps the invariant.
LEMMA NextInv == Inv /\ [Next]_vars => Inv'
<1> SUFFICES ASSUME Inv, [Next]_vars PROVE Inv'
  OBVIOUS
<1>1. ASSUME NEW p \in Procs, NEW k \in Blocks, bget(p, k) PROVE Inv'
  <2>1. CASE cached(k) # {}
    BY <1>1, <2>1, HitKeeps
  <2>2. CASE cached(k) = {} /\ recyclable # {}
    BY <1>1, <2>2, RecycleKeeps
  <2>3. CASE cached(k) = {} /\ recyclable = {}
    <3>1. /\ panic' = "no buffers"
          /\ UNCHANGED <<buf, lru, idequeue, request, disk, pc, b, want, got>>
      BY <1>1, <2>3 DEF bget, ideVars
    <3>2. TypeOK'
      BY <3>1 DEF Inv, TypeOK
    <3>3. OneCopy' /\ WantOK' /\ CountsOK' /\ OwnerOK'
      <4>1. OneCopy' /\ WantOK' /\ OwnerOK'
        BY <3>1 DEF Inv, OneCopy, WantOK, OwnerOK
      <4>2. \A i \in Bufs : Refs(i)' = Refs(i)
        BY <3>1 DEF Refs
      <4>3. CountsOK'
        BY <3>1, <4>2 DEF Inv, CountsOK
      <4> QED
        BY <4>1, <4>3
    <3>4. QueueOK' /\ StageOK' /\ DataOK'
      BY <3>1 DEF Inv, QueueOK, StageOK, DataOK, idestart
    <3> QED
      BY <3>2, <3>3, <3>4 DEF Inv
  <2> QED
    BY <2>1, <2>2, <2>3
<1>2. ASSUME NEW p \in Procs, NEW v \in Values, bwrite(p, v) \/ log_write(p, v) PROVE Inv'
  BY <1>2, BwriteKeeps, LogWriteKeeps
<1>3. ASSUME NEW p \in Procs, acquiresleep(p) \/ iderw(p) \/ iderwReturn(p) PROVE Inv'
  BY <1>3, AcquiresleepKeeps, IderwKeeps, IderwReturnKeeps
<1>4. ASSUME NEW p \in Procs, releasesleep(p) \/ brelse(p) PROVE Inv'
  BY <1>4, ReleasesleepKeeps, BrelseKeeps
<1>5. CASE ideintr
  BY <1>5, IdeintrKeeps
<1>6. CASE UNCHANGED vars
  <2>1. TypeOK'
    BY <1>6 DEF Inv, TypeOK, vars, cacheVars, ideVars
  <2>2. OneCopy' /\ WantOK' /\ CountsOK' /\ OwnerOK'
    BY <1>6 DEF Inv, OneCopy, WantOK, CountsOK, OwnerOK, Refs, vars, cacheVars, ideVars
  <2>3. QueueOK' /\ StageOK' /\ DataOK'
    BY <1>6 DEF Inv, QueueOK, StageOK, DataOK, idestart, vars, cacheVars, ideVars
  <2> QED
    BY <2>1, <2>2, <2>3 DEF Inv
<1> QED
  BY <1>1, <1>2, <1>3, <1>4, <1>5, <1>6 DEF Next

\* The invariant holds in every reachable state.
LEMMA InvAlways == Spec => []Inv
  BY InitInv, NextInv, PTL DEF Spec

\* bio.c:58-140: whatever the sizes and the order of processes and interrupts, a block has
\* one buffer, a referenced buffer keeps its block, the counts are exact, and the queue of
\* the disk has a place for everybody.
THEOREM OneBufferPerBlock == Spec => []CacheSafe
<1>1. Inv => CacheSafe
  BY DEF Inv, CacheSafe, BufferKept, WantOK, CountsOK, OwnerOK, Refs
<1> QED
  BY <1>1, InvAlways, PTL

-----------------------------------------------------------------------------
\* The content of a block is that of its buffer with data, if there is one.
ContentRight ==
  \A k \in Blocks :
     /\ \A i \in Bufs : buf[i].blockno = k /\ buf[i].valid => Content[k] = buf[i].data
     /\ (\A i \in Bufs : ~(buf[i].blockno = k /\ buf[i].valid)) => Content[k] = disk[k]

\* The user of a block is the process that has it in use.
UserRight ==
  \A k \in Blocks :
     /\ \A p \in Procs : want[p] = k /\ pc[p] \in InUse => User[k] = p
     /\ (\A p \in Procs : ~(want[p] = k /\ pc[p] \in InUse)) => User[k] = NoProc

\* OneCopy makes the choice of the buffer in Content the only one there is.
LEMMA ContentValue == Inv => ContentRight
<1> SUFFICES ASSUME Inv, NEW k \in Blocks
             PROVE  /\ \A i \in Bufs : buf[i].blockno = k /\ buf[i].valid =>
                          Content[k] = buf[i].data
                    /\ (\A i \in Bufs : ~(buf[i].blockno = k /\ buf[i].valid)) =>
                          Content[k] = disk[k]
  BY DEF ContentRight
<1> DEFINE Has(i) == buf[i].blockno = k /\ buf[i].valid
<1>1. Content[k] = IF \E i \in Bufs : Has(i) THEN buf[CHOOSE i \in Bufs : Has(i)].data
                                             ELSE disk[k]
  BY DEF Content
<1>2. \A i, j \in Bufs : Has(i) /\ Has(j) => i = j
  BY CacheAssumption DEF Inv, OneCopy
<1> QED
  BY <1>1, <1>2

\* The owner of the sleep-lock makes the choice of the process in User the only one.
LEMMA UserValue == Inv => UserRight
<1> SUFFICES ASSUME Inv, NEW k \in Blocks
             PROVE  /\ \A p \in Procs : want[p] = k /\ pc[p] \in InUse => User[k] = p
                    /\ (\A p \in Procs : ~(want[p] = k /\ pc[p] \in InUse)) =>
                          User[k] = NoProc
  BY DEF UserRight
<1> DEFINE Uses(p) == want[p] = k /\ pc[p] \in InUse
<1>1. User[k] = IF \E p \in Procs : Uses(p) THEN CHOOSE p \in Procs : Uses(p) ELSE NoProc
  BY DEF User
<1>2. ASSUME NEW p \in Procs, NEW q \in Procs, Uses(p), Uses(q) PROVE p = q
  <2>1. /\ pc[p] \in Holding /\ pc[q] \in Holding
        /\ pc[p] \in Referencing /\ pc[q] \in Referencing
    BY <1>2 DEF Referencing, Holding
  <2>2. /\ b[p] \in Bufs /\ b[q] \in Bufs
        /\ buf[b[p]].blockno = k /\ buf[b[q]].blockno = k
    BY <1>2, <2>1 DEF Inv, WantOK, StageOK
  <2>3. b[p] = b[q]
    BY <2>2, CacheAssumption DEF Inv, OneCopy
  <2> QED
    BY <2>1, <2>3, HeldApart
<1> QED
  BY <1>1, <1>2

\* A step that changes no data changes no content.
LEMMA ContentSame ==
  ASSUME Inv, Inv', disk' = disk,
         \A i \in Bufs : /\ buf'[i].blockno = buf[i].blockno /\ buf'[i].valid = buf[i].valid
                         /\ buf'[i].data = buf[i].data
  PROVE  Content' = Content
<1>0. ContentRight /\ ContentRight'
  BY ContentValue, PTL
<1>1. ASSUME NEW k \in Blocks PROVE Content'[k] = Content[k]
  BY <1>0 DEF ContentRight
<1> QED
  BY <1>1 DEF Content

\* A step that leaves those who use a block alone changes no user.
LEMMA UserSame ==
  ASSUME Inv, Inv',
         \A q \in Procs : /\ pc'[q] \in InUse <=> pc[q] \in InUse
                          /\ pc[q] \in InUse => want'[q] = want[q]
  PROVE  User' = User
<1>0. UserRight /\ UserRight'
  BY UserValue, PTL
<1>1. ASSUME NEW k \in Blocks PROVE User'[k] = User[k]
  BY <1>0 DEF UserRight
<1> QED
  BY <1>1 DEF User

\* A process that comes to use its block found nobody using it, and is its user now.
LEMMA UserTaken ==
  ASSUME Inv, Inv', NEW p \in Procs, want[p] \in Blocks, want' = want,
         pc[p] \notin InUse, pc'[p] \in InUse,
         \A q \in Procs \ {p} : pc'[q] \in InUse <=> pc[q] \in InUse
  PROVE  User[want[p]] = NoProc /\ User' = [User EXCEPT ![want[p]] = p]
<1>0. UserRight /\ UserRight'
  BY UserValue, PTL
<1>1. User'[want[p]] = p
  BY <1>0 DEF UserRight
<1>2. ASSUME NEW q \in Procs, want[q] = want[p], pc[q] \in InUse PROVE FALSE
  <2>1. q # p /\ User'[want[p]] = q
    BY <1>0, <1>2 DEF UserRight
  <2> QED
    BY <1>1, <2>1
<1>3. User[want[p]] = NoProc
  BY <1>0, <1>2 DEF UserRight
<1>4. ASSUME NEW k \in Blocks, k # want[p] PROVE User'[k] = User[k]
  BY <1>0, <1>4 DEF UserRight
<1>5. /\ DOMAIN User = Blocks /\ User = [k \in Blocks |-> User[k]]
      /\ DOMAIN User' = Blocks /\ User' = [k \in Blocks |-> User'[k]]
  BY DEF User
<1> QED
  BY <1>1, <1>3, <1>4, <1>5

\* A process that lets its block go was its user.
LEMMA UserReleased ==
  ASSUME Inv, Inv', NEW p \in Procs, want[p] \in Blocks, want' = want,
         pc[p] \in InUse, pc'[p] \notin InUse,
         \A q \in Procs \ {p} : pc'[q] \in InUse <=> pc[q] \in InUse
  PROVE  User[want[p]] = p /\ User' = [User EXCEPT ![want[p]] = NoProc]
<1>0. UserRight /\ UserRight'
  BY UserValue, PTL
<1>1. User[want[p]] = p
  BY <1>0 DEF UserRight
<1>2. User'[want[p]] = NoProc
  <2>1. ASSUME NEW q \in Procs, want[q] = want[p], pc'[q] \in InUse PROVE FALSE
    <3>1. q # p /\ pc[q] \in InUse
      BY <2>1
    <3> QED
      BY <1>0, <1>1, <2>1, <3>1 DEF UserRight
  <2> QED
    BY <1>0, <2>1 DEF UserRight
<1>3. ASSUME NEW k \in Blocks, k # want[p] PROVE User'[k] = User[k]
  BY <1>0, <1>3 DEF UserRight
<1> QED
  BY <1>1, <1>2, <1>3 DEF User

\* A process that has its buffer changes the content of its block, and no other.
LEMMA ContentChanged ==
  ASSUME Inv, Inv', NEW p \in Procs, NEW v \in Values, pc[p] \in InUse, disk' = disk,
         \A i \in Bufs : buf'[i].blockno = buf[i].blockno /\ buf'[i].valid = buf[i].valid,
         buf'[b[p]].data = v, \A i \in Bufs \ {b[p]} : buf'[i].data = buf[i].data
  PROVE  want[p] \in Blocks /\ Content' = [Content EXCEPT ![want[p]] = v]
<1>0. ContentRight /\ ContentRight'
  BY ContentValue, PTL
<1>1. PICK i \in Bufs : i = b[p] /\ want[p] \in Blocks /\ buf[i].blockno = want[p]
                        /\ buf[i].valid
  BY DEF Inv, StageOK, WantOK, Referencing, Holding, InUse
<1>2. Content'[want[p]] = v
  BY <1>0, <1>1 DEF ContentRight
<1>3. ASSUME NEW k \in Blocks, k # want[p] PROVE Content'[k] = Content[k]
  BY <1>0, <1>1, <1>3 DEF ContentRight
<1>4. /\ DOMAIN Content = Blocks /\ Content = [k \in Blocks |-> Content[k]]
      /\ DOMAIN Content' = Blocks /\ Content' = [k \in Blocks |-> Content'[k]]
  BY DEF Content
<1> QED
  BY <1>1, <1>2, <1>3, <1>4

\* What a process with a valid buffer reads in it is the content of its block.
LEMMA ContentRead ==
  ASSUME Inv, NEW p \in Procs, pc[p] \in Referencing, buf[b[p]].valid
  PROVE  want[p] \in Blocks /\ Content[want[p]] = buf[b[p]].data
<1>1. b[p] \in Bufs /\ want[p] \in Blocks /\ buf[b[p]].blockno = want[p]
  BY DEF Inv, StageOK, WantOK
<1> QED
  BY <1>1, ContentValue DEF ContentRight

-----------------------------------------------------------------------------
\* Nothing is cached and nobody has a block: the store is as it is at first.
LEMMA InitRefines == Init => Store!StoreInit
<1> SUFFICES ASSUME Init PROVE Store!StoreInit
  OBVIOUS
<1>1. \A i \in Bufs : ~buf[i].valid
  BY DEF Init
<1>2. Content = [k \in Blocks |-> Blank]
  BY <1>1 DEF Content, Init
<1>3. \A p \in Procs : pc[p] \notin InUse
  BY DEF Init, InUse
<1>4. User = [k \in Blocks |-> NoProc]
  BY <1>3 DEF User
<1> QED
  BY <1>2, <1>4 DEF Store!StoreInit, Init

\* bread() of a buffer that has its data, once the sleep-lock is free, reads the block;
\* of one that has not, it is not finished.
LEMMA AcquiresleepRefines ==
  ASSUME Inv, Inv', NEW p \in Procs, acquiresleep(p)
  PROVE  \/ \E k \in Blocks : Store!Read(p, k)
         \/ UNCHANGED Store!storeVars
<1> USE DEF Store!storeVars
<1>1. PICK i \in Bufs : i = b[p] /\ want[p] \in Blocks /\ pc[p] = "lock"
  BY DEF Inv, StageOK, acquiresleep, At, Referencing
<1>2. /\ buf \in [Bufs -> Buffer] /\ got \in [Procs -> Values]
      /\ pc \in [Procs -> Referencing \cup {"idle"}]
  BY Types DEF Inv
<1>3. disk' = disk /\ want' = want /\ b' = b
  BY DEF acquiresleep, ideVars
<1>4. CASE buf[i].owner # NoProc
  <2>1. buf' = buf /\ got' = got /\ pc' = [pc EXCEPT ![p] = "sleeplock"]
    BY <1>1, <1>4 DEF acquiresleep
  <2>2. Content' = Content
    BY <1>3, <2>1, ContentSame
  <2>3. User' = User
    BY <1>1, <1>2, <1>3, <2>1, UserSame DEF InUse
  <2> QED
    BY <2>1, <2>2, <2>3
<1>5. CASE buf[i].owner = NoProc
  <2>1. /\ buf' = [buf EXCEPT ![i].owner = p]
        /\ pc' = [pc EXCEPT ![p] = IF buf[i].valid THEN "use" ELSE "read"]
        /\ got' = [got EXCEPT ![p] = IF buf[i].valid THEN buf[i].data ELSE got[p]]
    BY <1>1, <1>5 DEF acquiresleep
  <2>2. \A j \in Bufs : /\ buf'[j].blockno = buf[j].blockno /\ buf'[j].valid = buf[j].valid
                        /\ buf'[j].data = buf[j].data
    BY <1>2, <2>1 DEF Buffer
  <2>3. Content' = Content
    BY <1>3, <2>2, ContentSame
  <2>4. CASE buf[i].valid
    <3>1. pc'[p] = "use" /\ got' = [got EXCEPT ![p] = buf[i].data]
      BY <1>2, <2>1, <2>4
    <3>2. \A q \in Procs \ {p} : pc'[q] = pc[q]
      BY <1>2, <2>1
    <3>3. User[want[p]] = NoProc /\ User' = [User EXCEPT ![want[p]] = p]
      BY <1>1, <1>3, <3>1, <3>2, UserTaken DEF InUse
    <3>4. Content[want[p]] = buf[i].data
      BY <1>1, <2>4, ContentRead DEF Referencing
    <3> QED
      BY <1>1, <2>3, <3>1, <3>3, <3>4 DEF Store!Read
  <2>5. CASE ~buf[i].valid
    <3>1. pc' = [pc EXCEPT ![p] = "read"] /\ got' = got
      BY <1>2, <2>1, <2>5
    <3>2. User' = User
      BY <1>1, <1>2, <1>3, <3>1, UserSame DEF InUse
    <3> QED
      BY <2>3, <3>1, <3>2
  <2> QED
    BY <2>4, <2>5
<1> QED
  BY <1>4, <1>5

\* bread() after the disk has answered reads the block, bwrite() has changed it before.
LEMMA IderwReturnRefines ==
  ASSUME Inv, Inv', NEW p \in Procs, iderwReturn(p)
  PROVE  \/ \E k \in Blocks : Store!Read(p, k)
         \/ UNCHANGED Store!storeVars
<1> USE DEF Store!storeVars
<1>1. PICK i \in Bufs : /\ i = b[p] /\ want[p] \in Blocks /\ pc[p] \in {"readDone", "written"}
                        /\ buf[i].valid /\ ~buf[i].dirty
  BY DEF Inv, StageOK, iderwReturn, At, Referencing, Holding, InUse
<1>2. /\ got \in [Procs -> Values] /\ pc \in [Procs -> Referencing \cup {"idle"}]
  BY Types DEF Inv
<1>3. disk' = disk /\ want' = want /\ b' = b /\ buf' = buf
  BY DEF iderwReturn, cacheVars, ideVars
<1>4. pc' = [pc EXCEPT ![p] = "use"]
  BY <1>1 DEF iderwReturn
<1>5. pc'[p] = "use" /\ \A q \in Procs \ {p} : pc'[q] = pc[q]
  BY <1>2, <1>4
<1>6. Content' = Content
  BY <1>3, ContentSame
<1>7. CASE pc[p] = "readDone"
  <2>1. got' = [got EXCEPT ![p] = buf[i].data]
    BY <1>1, <1>7 DEF iderwReturn
  <2>2. User[want[p]] = NoProc /\ User' = [User EXCEPT ![want[p]] = p]
    BY <1>1, <1>3, <1>5, <1>7, UserTaken DEF InUse
  <2>3. Content[want[p]] = buf[i].data
    BY <1>1, <1>7, ContentRead DEF Referencing, Holding
  <2> QED
    BY <1>1, <1>6, <2>1, <2>2, <2>3 DEF Store!Read
<1>8. CASE pc[p] = "written"
  <2>1. got' = got
    BY <1>2, <1>8 DEF iderwReturn
  <2>2. User' = User
    BY <1>3, <1>5, <1>8, UserSame DEF InUse
  <2> QED
    BY <1>6, <2>1, <2>2
<1> QED
  BY <1>1, <1>7, <1>8

\* bwrite() and log_write() change the block in the buffer, long before the disk has it.
LEMMA WritesRefine ==
  ASSUME Inv, Inv', NEW p \in Procs, NEW v \in Values, bwrite(p, v) \/ log_write(p, v)
  PROVE  \E k \in Blocks : Store!Change(p, k, v)
<1>1. PICK i \in Bufs : i = b[p] /\ want[p] \in Blocks /\ pc[p] = "use"
  BY DEF Inv, StageOK, bwrite, log_write, At, Referencing, Holding, InUse
<1>2. buf \in [Bufs -> Buffer] /\ pc \in [Procs -> Referencing \cup {"idle"}]
  BY Types DEF Inv
<1>3. /\ disk' = disk /\ want' = want /\ b' = b /\ got' = got
      /\ buf' = [buf EXCEPT ![i].data = v, ![i].dirty = TRUE]
      /\ pc' = [pc EXCEPT ![p] = "writing"] \/ pc' = pc
  BY <1>1 DEF bwrite, log_write, enqueue, ideVars
<1>4. /\ \A j \in Bufs : buf'[j].blockno = buf[j].blockno /\ buf'[j].valid = buf[j].valid
      /\ buf'[i].data = v /\ \A j \in Bufs \ {i} : buf'[j].data = buf[j].data
  BY <1>2, <1>3 DEF Buffer
<1>5. Content' = [Content EXCEPT ![want[p]] = v]
  <2>1. pc[p] \in InUse
    BY <1>1 DEF InUse
  <2>2. buf'[b[p]].data = v /\ \A j \in Bufs \ {b[p]} : buf'[j].data = buf[j].data
    BY <1>1, <1>4
  <2> QED
    BY <1>3, <1>4, <2>1, <2>2, ContentChanged
<1>6. \A q \in Procs : pc'[q] \in InUse <=> pc[q] \in InUse
  BY <1>1, <1>2, <1>3 DEF InUse
<1>7. User' = User
  BY <1>3, <1>6, UserSame
<1>8. User[want[p]] = p
  BY <1>1, UserValue DEF UserRight, InUse
<1> QED
  BY <1>1, <1>3, <1>5, <1>7, <1>8 DEF Store!Change

\* brelse() releases the block with the sleep-lock; the reference that it drops later is
\* nobody's business.
LEMMA BrelseRefines ==
  ASSUME Inv, Inv', NEW p \in Procs, releasesleep(p) \/ brelse(p)
  PROVE  \/ \E k \in Blocks : Store!Release(p, k)
         \/ UNCHANGED Store!storeVars
<1> USE DEF Store!storeVars
<1>1. PICK i \in Bufs : i = b[p] /\ want[p] \in Blocks /\ pc[p] \in {"use", "put"}
  BY DEF Inv, StageOK, releasesleep, brelse, At, Referencing, Holding, InUse
<1>2. /\ buf \in [Bufs -> Buffer] /\ pc \in [Procs -> Referencing \cup {"idle"}]
      /\ want \in [Procs -> Blocks \cup {NoBlock}]
  BY Types DEF Inv
<1>3. disk' = disk
  BY DEF releasesleep, brelse, ideVars
<1>4. \A j \in Bufs : /\ buf'[j].blockno = buf[j].blockno /\ buf'[j].valid = buf[j].valid
                      /\ buf'[j].data = buf[j].data
  BY <1>1, <1>2 DEF Buffer, releasesleep, brelse
<1>5. Content' = Content
  BY <1>3, <1>4, ContentSame
<1>6. CASE releasesleep(p)
  <2>1. /\ want' = want /\ got' = [got EXCEPT ![p] = Blank] /\ pc[p] = "use"
        /\ pc' = [lockersWoken(i) EXCEPT ![p] = "put"]
    BY <1>1, <1>6 DEF releasesleep, At
  <2>2. /\ pc'[p] = "put"
        /\ \A q \in Procs \ {p} : pc'[q] = lockersWoken(i)[q]
    BY <2>1 DEF lockersWoken
  <2>3. \A q \in Procs \ {p} : pc'[q] \in InUse <=> pc[q] \in InUse
    BY <2>2 DEF lockersWoken, InUse
  <2>4. User[want[p]] = p /\ User' = [User EXCEPT ![want[p]] = NoProc]
    BY <1>1, <2>1, <2>2, <2>3, UserReleased DEF InUse
  <2> QED
    BY <1>1, <1>5, <2>1, <2>4 DEF Store!Release
<1>7. CASE brelse(p)
  <2>1. /\ want' = [want EXCEPT ![p] = NoBlock] /\ got' = got /\ pc[p] = "put"
        /\ pc' = [pc EXCEPT ![p] = "idle"]
    BY <1>7 DEF brelse, At
  <2>2. \A q \in Procs : /\ pc'[q] \in InUse <=> pc[q] \in InUse
                         /\ pc[q] \in InUse => want'[q] = want[q]
    BY <1>2, <2>1 DEF InUse
  <2>3. User' = User
    BY <2>2, UserSame
  <2> QED
    BY <1>5, <2>1, <2>3
<1> QED
  BY <1>6, <1>7

\* A request to the disk shows nothing to anybody.
LEMMA IderwHidden == ASSUME Inv, Inv', NEW p \in Procs, iderw(p) PROVE UNCHANGED Store!storeVars
<1>1. pc[p] = "read" /\ disk' = disk /\ want' = want /\ got' = got /\ buf' = buf
      /\ pc' = [pc EXCEPT ![p] = "reading"]
  BY DEF iderw, At, enqueue
<1>2. pc \in [Procs -> Referencing \cup {"idle"}]
  BY Types DEF Inv
<1>3. Content' = Content
  BY <1>1, ContentSame
<1>4. User' = User
  BY <1>1, <1>2, UserSame DEF InUse
<1> QED
  BY <1>1, <1>3, <1>4 DEF Store!storeVars

\* The interrupt puts into a buffer what the disk has, or on the disk what the buffer has:
\* either way the content is what it was.
LEMMA IdeintrHidden == ASSUME Inv, Inv', ideintr PROVE UNCHANGED Store!storeVars
<1>1. PICK i \in Bufs, p \in Procs, k \in Blocks :
         /\ b[p] = i /\ pc[p] \in {"reading", "writing"} /\ buf[i].blockno = k
         /\ \A j \in Bufs \ {i} : buf'[j] = buf[j]
         /\ buf'[i].blockno = k /\ buf'[i].valid
         /\ buf[i].dirty => buf'[i].data = buf[i].data
         /\ ~buf[i].dirty => buf'[i].data = disk[k]
         /\ \A l \in Blocks \ {k} : disk'[l] = disk[l]
         /\ \A q \in Procs :
               \/ pc[q] = "reading" /\ pc'[q] = "readDone"
               \/ pc[q] = "writing" /\ pc'[q] = "written"
               \/ pc'[q] = pc[q]
  BY InterruptEffect
<1>2. want' = want /\ got' = got
  BY DEF ideintr
<1>3. User' = User
  BY <1>1, <1>2, UserSame DEF InUse
<1>4. ContentRight /\ ContentRight'
  BY ContentValue, PTL
<1>5. Content'[k] = Content[k]
  <2>1. Content'[k] = buf'[i].data
    BY <1>1, <1>4 DEF ContentRight
  <2>2. CASE buf[i].valid
    <3>1. Content[k] = buf[i].data
      BY <1>1, <1>4, <2>2 DEF ContentRight
    <3>2. ~buf[i].dirty => buf[i].data = disk[k]
      BY <1>1, <2>2 DEF Inv, DataOK
    <3> QED
      BY <1>1, <2>1, <3>1, <3>2
  <2>3. CASE ~buf[i].valid
    <3>1. ~buf[i].dirty
      BY <2>3 DEF Inv, DataOK
    <3>2. \A j \in Bufs : ~(buf[j].blockno = k /\ buf[j].valid)
      BY <1>1, <2>3, CacheAssumption DEF Inv, OneCopy
    <3>3. Content[k] = disk[k]
      BY <1>4, <3>2 DEF ContentRight
    <3> QED
      BY <1>1, <2>1, <3>1, <3>3
  <2> QED
    BY <2>2, <2>3
<1>6. ASSUME NEW l \in Blocks, l # k PROVE Content'[l] = Content[l]
  BY <1>1, <1>4, <1>6 DEF ContentRight
<1>7. Content' = Content
  BY <1>5, <1>6 DEF Content
<1> QED
  BY <1>2, <1>3, <1>7 DEF Store!storeVars

\* bget() shows nothing either: a buffer is recycled when the disk has what it holds.
LEMMA BgetHidden ==
  ASSUME Inv, Inv', NEW p \in Procs, NEW k \in Blocks, bget(p, k)
  PROVE  UNCHANGED Store!storeVars
<1>1. disk' = disk /\ got' = got /\ pc[p] = "idle"
  BY DEF bget, ideVars, At
<1>2. /\ buf \in [Bufs -> Buffer] /\ pc \in [Procs -> Referencing \cup {"idle"}]
      /\ want \in [Procs -> Blocks \cup {NoBlock}]
  BY Types DEF Inv
<1>3. User' = User
  <2>1. \/ want' = want /\ pc' = pc
        \/ want' = [want EXCEPT ![p] = k] /\ pc' = [pc EXCEPT ![p] = "lock"]
    BY DEF bget
  <2>2. \A q \in Procs : /\ pc'[q] \in InUse <=> pc[q] \in InUse
                         /\ pc[q] \in InUse => want'[q] = want[q]
    BY <1>1, <1>2, <2>1 DEF InUse
  <2> QED
    BY <2>2, UserSame
<1>4. CASE cached(k) = {} /\ recyclable # {}
  <2>1. PICK i \in Bufs : i = leastRecent(recyclable) /\ i \in recyclable
    BY LeastRecent, <1>4 DEF recyclable, Inv
  <2>2. buf' = [buf EXCEPT ![i].blockno = k, ![i].refcnt = 1, ![i].valid = FALSE,
                           ![i].dirty = FALSE]
    BY <1>4, <2>1 DEF bget
  <2>3. ~buf'[i].valid /\ \A j \in Bufs \ {i} : buf'[j] = buf[j]
    BY <1>2, <2>1, <2>2 DEF Buffer
  <2>4. ContentRight /\ ContentRight'
    BY ContentValue, PTL
  <2>5. ASSUME NEW l \in Blocks PROVE Content'[l] = Content[l]
    <3>1. CASE \E j \in Bufs \ {i} : buf[j].blockno = l /\ buf[j].valid
      BY <1>1, <2>3, <2>4, <3>1 DEF ContentRight
    <3>2. CASE \A j \in Bufs \ {i} : ~(buf[j].blockno = l /\ buf[j].valid)
      <4>1. \A j \in Bufs : ~(buf'[j].blockno = l /\ buf'[j].valid)
        BY <2>3, <3>2
      <4>2. Content'[l] = disk[l]
        BY <1>1, <2>4, <4>1 DEF ContentRight
      <4>3. CASE buf[i].blockno = l /\ buf[i].valid
        <5>1. ~buf[i].dirty /\ buf[i].data = disk[l]
          BY <2>1, <4>3 DEF Inv, DataOK, recyclable
        <5>2. Content[l] = buf[i].data
          BY <2>4, <4>3 DEF ContentRight
        <5> QED
          BY <4>2, <5>1, <5>2
      <4>4. CASE ~(buf[i].blockno = l /\ buf[i].valid)
        <5>1. Content[l] = disk[l]
          BY <2>4, <3>2, <4>4 DEF ContentRight
        <5> QED
          BY <4>2, <5>1
      <4> QED
        BY <4>3, <4>4
    <3> QED
      BY <3>1, <3>2
  <2>6. Content' = Content
    BY <2>5 DEF Content
  <2> QED
    BY <1>1, <1>3, <2>6 DEF Store!storeVars
<1>5. CASE ~(cached(k) = {} /\ recyclable # {})
  <2>1. \A i \in Bufs : /\ buf'[i].blockno = buf[i].blockno /\ buf'[i].valid = buf[i].valid
                        /\ buf'[i].data = buf[i].data
    <3>1. CASE cached(k) # {}
      <4>1. PICK i \in Bufs : i = CHOOSE j \in cached(k) : TRUE
        BY <3>1 DEF cached
      <4>2. buf' = [buf EXCEPT ![i].refcnt = @ + 1]
        BY <3>1, <4>1 DEF bget
      <4> QED
        BY <1>2, <4>2 DEF Buffer
    <3>2. CASE cached(k) = {} /\ recyclable = {}
      BY <3>2 DEF bget
    <3> QED
      BY <1>5, <3>1, <3>2
  <2>2. Content' = Content
    BY <1>1, <2>1, ContentSame
  <2> QED
    BY <1>1, <1>3, <2>2 DEF Store!storeVars
<1> QED
  BY <1>4, <1>5

\* Each step of the cache is one of the store, or shows nothing.
LEMMA NextRefines == Inv /\ Inv' /\ [Next]_vars => [Store!StoreNext]_(Store!storeVars)
<1> SUFFICES ASSUME Inv, Inv', [Next]_vars PROVE [Store!StoreNext]_(Store!storeVars)
  OBVIOUS
<1>1. ASSUME NEW p \in Procs, NEW k \in Blocks, bget(p, k)
      PROVE  UNCHANGED Store!storeVars
  BY <1>1, BgetHidden
<1>2. ASSUME NEW p \in Procs, acquiresleep(p) \/ iderwReturn(p)
      PROVE  Store!StoreNext \/ UNCHANGED Store!storeVars
  BY <1>2, AcquiresleepRefines, IderwReturnRefines DEF Store!StoreNext
<1>3. ASSUME NEW p \in Procs, NEW v \in Values, bwrite(p, v) \/ log_write(p, v)
      PROVE  Store!StoreNext
  BY <1>3, WritesRefine DEF Store!StoreNext
<1>4. ASSUME NEW p \in Procs, releasesleep(p) \/ brelse(p)
      PROVE  Store!StoreNext \/ UNCHANGED Store!storeVars
  BY <1>4, BrelseRefines DEF Store!StoreNext
<1>5. ASSUME NEW p \in Procs, iderw(p) PROVE UNCHANGED Store!storeVars
  BY <1>5, IderwHidden
<1>6. ASSUME ideintr PROVE UNCHANGED Store!storeVars
  BY <1>6, IdeintrHidden
<1>7. ASSUME UNCHANGED vars PROVE UNCHANGED Store!storeVars
  BY <1>7 DEF vars, cacheVars, ideVars, Store!storeVars, Content, User
<1> QED
  BY <1>1, <1>2, <1>3, <1>4, <1>5, <1>6, <1>7 DEF Next

\* bio.c:3-5: for every number of buffers and processes, and every order of requests,
\* interrupts and recycling, a process has a block alone and sees in it what was last put
\* there.
THEOREM CacheIsTransparent == Spec => ImplementsBlockStore
<1>1. Init => Store!StoreInit
  BY InitRefines
<1>2. Inv /\ Inv' /\ [Next]_vars => [Store!StoreNext]_(Store!storeVars)
  BY NextRefines
<1> QED
  BY <1>1, <1>2, InvAlways, PTL DEF Spec, ImplementsBlockStore, Store!StoreSpec
=============================================================================
