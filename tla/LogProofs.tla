------------------------------ MODULE LogProofs ------------------------------
(***************************************************************************)
(* For every number of calls, blocks and log sizes, the counters of the log *)
(* are right, commits run alone, and the log with its crashes and its       *)
(* recovery implements the atomic disk.                                     *)
(***************************************************************************)
EXTENDS Log, FiniteSetTheorems, TLAPS

\* The blocks that the calls in progress have written and that are in the log: what
\* they no longer need of the room begin_op() has reserved for them.
Logged == {x \in Active \X Range(lh) : x[2] \in wrote[x[1]]}

\* A call has a buffer exactly while it is in log_write(), nobody else has the same one,
\* and it keeps to MAXOPBLOCKS blocks.
CallsOK ==
    /\ \A o \in Ops : /\ IsFiniteSet(wrote[o]) /\ Cardinality(wrote[o]) <= MAXOPBLOCKS
                      /\ buf[o] # NoBlock <=> pc[o] \in {"check", "append"}
                      /\ buf[o] # NoBlock => buf[o] \in wrote[o]
    /\ \A o, p \in Ops : buf[o] = buf[p] /\ buf[o] # NoBlock => o = p

\* There is room in the header for all that the calls in progress may still write.
RoomReserved == Len(lh) + outstanding * MAXOPBLOCKS - Cardinality(Logged) <= LOGSIZE

\* Where commit() and recovery are.
StageOK ==
    /\ committing <=> stage \in {"write_log", "write_head", "install", "erase", "finish"}
    /\ IF stage \in {"write_log", "install", "reinstall"} THEN tail < Len(lh) ELSE tail = 0
    /\ stage \in {"read_head", "finish"} => lh = <<>>
    /\ stage = "write_head" => lh # <<>>
    /\ Recovering => dirty = {} /\ \A o \in Ops : pc[o] = "idle"

\* The header on the disk is empty, or complete and the same as in memory.
HeadOK ==
    /\ Len(head) <= LOGSIZE /\ Len(head) < nlog /\ IsInjective(head)
    /\ stage \in {"none", "write_log", "write_head", "finish"} => head = <<>>
    /\ stage \in {"install", "erase", "reinstall", "clear"} => head = lh
    /\ Running /\ stage = "write_head" => Len(lh) < nlog

\* How many blocks of the log are written, and how many are at their homes.
copied == IF stage = "write_log" THEN tail
          ELSE IF stage \in {"write_head", "install"} THEN Len(lh) ELSE 0
installed == IF stage \in {"install", "reinstall"} THEN tail
             ELSE IF stage \in {"erase", "clear"} THEN Len(lh) ELSE 0

BlocksOK ==
    /\ Running => \A i \in 1 .. copied : i < nlog /\ logBlock[i] = cache[lh[i]]
    /\ \A i \in 1 .. installed : home[lh[i]] = logBlock[i] /\ lh[i] \notin dirty

\* A buffer differs from its home block only if it is pinned or held.
CacheOK ==
    /\ dirty \subseteq Range(lh)
    /\ \A b \in Blocks : b \notin dirty /\ (\A o \in Ops : buf[o] # b) => cache[b] = home[b]

Inv == /\ TypeOK /\ CommitAlone /\ PanicsOK
       /\ CallsOK /\ RoomReserved /\ StageOK /\ HeadOK /\ BlocksOK /\ CacheOK

-----------------------------------------------------------------------------
(* Facts about the constants, sets of processes and the header. *)

\* What the assumption says of each constant.
LEMMA Constants == /\ MAXOPBLOCKS \in Nat /\ LOGSIZE \in Nat /\ nlog \in Nat /\ nlog > 0
                   /\ IsFiniteSet(Ops) /\ Cardinality(Ops) \in Nat /\ NoBlock \notin Blocks
  BY LogAssumption, FS_CardinalityType

\* The calls in progress and the committers are finitely many.
LEMMA ProcessesFinite ==
  ASSUME NEW S \in SUBSET Ops
  PROVE  IsFiniteSet(S) /\ Cardinality(S) \in Nat /\ Cardinality(S) <= Cardinality(Ops)
         /\ Cardinality(Ops) \in Nat
  BY Constants, FS_Subset, FS_CardinalityType

\* Naturals are closed under products.
LEMMA Product == \A m, n \in Nat : m * n \in Nat
  OBVIOUS

\* Appending a block that is not in the header keeps it free of repetitions.
LEMMA AppendInjective ==
  ASSUME NEW s \in Seq(Blocks), IsInjective(s), NEW b \in Blocks, b \notin Range(s)
  PROVE  /\ Append(s, b) \in Seq(Blocks) /\ IsInjective(Append(s, b))
         /\ Range(Append(s, b)) = Range(s) \cup {b}
         /\ Len(Append(s, b)) = Len(s) + 1
<1>1. Append(s, b) \in Seq(Blocks) /\ Len(Append(s, b)) = Len(s) + 1 /\ Len(s) \in Nat
  OBVIOUS
<1>2. /\ \A i \in 1 .. Len(s) : Append(s, b)[i] = s[i]
      /\ Append(s, b)[Len(s) + 1] = b
      /\ DOMAIN s = 1 .. Len(s) /\ DOMAIN Append(s, b) = 1 .. Len(s) + 1
  OBVIOUS
<1>3. IsInjective(Append(s, b))
  BY <1>1, <1>2 DEF IsInjective, Range
<1>4. Range(Append(s, b)) = Range(s) \cup {b}
  BY <1>1, <1>2 DEF Range
<1> QED
  BY <1>1, <1>3, <1>4

\* An empty header names no block.
LEMMA EmptyRange == Range(<<>>) = {} /\ IsInjective(<<>>)
  BY DEF Range, IsInjective

\* The names in the header are blocks, and the i-th is one of them.
LEMMA RangeFacts ==
  ASSUME NEW s \in Seq(Blocks)
  PROVE  Range(s) \subseteq Blocks /\ (\A i \in 1 .. Len(s) : s[i] \in Range(s) /\ s[i] \in Blocks)
         /\ (\A b \in Range(s) : \E i \in 1 .. Len(s) : s[i] = b) /\ IsFiniteSet(Range(s))
<1>1. DOMAIN s = 1 .. Len(s) /\ Len(s) \in Nat /\ \A i \in 1 .. Len(s) : s[i] \in Blocks
  OBVIOUS
<1>2. Range(s) \subseteq Blocks /\ (\A i \in 1 .. Len(s) : s[i] \in Range(s) /\ s[i] \in Blocks)
      /\ (\A b \in Range(s) : \E i \in 1 .. Len(s) : s[i] = b)
  BY <1>1 DEF Range
<1>3. IsFiniteSet(1 .. Len(s))
  BY <1>1, FS_Interval
<1>4. s \in Surjection(1 .. Len(s), Range(s))
  BY <1>1, <1>2 DEF Surjection, Range
<1> QED
  BY <1>2, <1>3, <1>4, FS_Surjection

-----------------------------------------------------------------------------
(* The invariant. *)

\* At boot everything is empty and recovery is about to start.
LEMMA InitInv == Init => Inv
<1> SUFFICES ASSUME Init PROVE Inv
  OBVIOUS
<1> USE Constants, EmptyRange DEF Init
<1>1. Active = {} /\ {o \in Ops : pc[o] = "commit"} = {} /\ Logged = {}
  BY DEF Active, Logged
<1>2. TypeOK
  <2>1. /\ home \in [Blocks -> Values \cup {Blank}] /\ cache \in [Blocks -> Values \cup {Blank}]
        /\ logBlock \in [1 .. nlog - 1 -> Values \cup {Blank}]
    OBVIOUS
  <2>2. head \in Seq(Blocks) /\ lh \in Seq(Blocks) /\ IsInjective(lh) /\ dirty \subseteq Blocks
    OBVIOUS
  <2>3. pc \in [Ops -> {"idle", "begin", "sleep", "run", "check", "append", "commit"}]
    OBVIOUS
  <2>4. buf \in [Ops -> Blocks \cup {NoBlock}] /\ wrote \in [Ops -> SUBSET Blocks]
    OBVIOUS
  <2>5. outstanding \in 0 .. Cardinality(Ops) /\ tail \in 0 .. LOGSIZE
    OBVIOUS
  <2>6. committing \in BOOLEAN /\ stage = "read_head" /\ panic = "no"
    OBVIOUS
  <2> HIDE DEF Init
  <2> QED
    BY <2>1, <2>2, <2>3, <2>4, <2>5, <2>6 DEF TypeOK
<1>3. CommitAlone /\ PanicsOK
  BY <1>1, FS_EmptySet DEF CommitAlone, PanicsOK
<1>4. CallsOK /\ RoomReserved
  BY <1>1, FS_EmptySet DEF CallsOK, RoomReserved
<1>5. StageOK /\ HeadOK /\ BlocksOK /\ CacheOK
  BY DEF StageOK, HeadOK, BlocksOK, CacheOK, Recovering, copied, installed
<1> QED
  BY <1>2, <1>3, <1>4, <1>5 DEF Inv

\* The set whose size RoomReserved mentions is finite.
LEMMA PairsFinite ==
  ASSUME NEW S \in SUBSET Ops, NEW s \in Seq(Blocks), NEW T \in SUBSET (S \X Range(s))
  PROVE  IsFiniteSet(T) /\ Cardinality(T) \in Nat
<1>1. IsFiniteSet(S) /\ IsFiniteSet(Range(s))
  BY ProcessesFinite, RangeFacts
<1>2. IsFiniteSet(S \X Range(s))
  BY <1>1, FS_Product
<1> QED
  BY <1>2, FS_Subset, FS_CardinalityType

\* The terms of RoomReserved are naturals.
LEMMA LoggedFinite ==
  ASSUME TypeOK
  PROVE  IsFiniteSet(Logged) /\ Cardinality(Logged) \in Nat
         /\ Len(lh) \in Nat /\ outstanding \in Nat /\ outstanding * MAXOPBLOCKS \in Nat
<1>1. Active \in SUBSET Ops /\ Logged \in SUBSET (Active \X Range(lh))
  BY DEF Active, Logged
<1>2. lh \in Seq(Blocks) /\ outstanding \in 0 .. Cardinality(Ops)
  BY DEF TypeOK
<1>3. outstanding \in Nat /\ Len(lh) \in Nat
  BY <1>2, Constants
<1>4. IsFiniteSet(Logged) /\ Cardinality(Logged) \in Nat
  BY <1>1, <1>2, PairsFinite
<1> QED
  BY <1>3, <1>4, Product, Constants

\* begin_op() reserves room for the whole call before it counts it.
LEMMA BeginOp == ASSUME Inv, NEW o \in Ops, begin_op(o) PROVE Inv'
<1> USE Constants DEF Inv
<1>1. /\ o \notin Active /\ pc[o] \in {"idle", "begin"} /\ ~Recovering /\ buf[o] = NoBlock
      /\ UNCHANGED <<home, logBlock, head, cache, dirty, lh, committing, stage, tail, buf, panic>>
      /\ wrote' = [wrote EXCEPT ![o] = {}]
  BY DEF begin_op, At, Active, diskVars, CallsOK
<1>2. /\ pc' = [pc EXCEPT ![o] = pc'[o]] /\ pc'[o] \in {"sleep", "run"}
      /\ pc \in [Ops -> {"idle", "begin", "sleep", "run", "check", "append", "commit"}]
      /\ wrote \in [Ops -> SUBSET Blocks]
  BY DEF begin_op, TypeOK
<1>3. Logged' = Logged
  BY <1>1, <1>2 DEF Logged, Active
<1>4. {p \in Ops : pc[p] = "commit"}' = {p \in Ops : pc[p] = "commit"}
  BY <1>1, <1>2
<1>5. CommitAlone' /\ outstanding' \in 0 .. Cardinality(Ops)
  <2>1. CASE mustWait
    <3>1. Active' = Active /\ outstanding' = outstanding
      BY <1>1, <1>2, <2>1 DEF Active, begin_op
    <3> QED
      BY <3>1, <1>1, <1>4 DEF CommitAlone, TypeOK
  <2>2. CASE ~mustWait
    <3>1. Active' = Active \cup {o} /\ outstanding' = outstanding + 1
      BY <1>1, <1>2, <2>2 DEF Active, begin_op
    <3>2. Active' \in SUBSET Ops /\ Active \in SUBSET Ops
      BY DEF Active
    <3>3. Cardinality(Active') = Cardinality(Active) + 1
      BY <3>1, <3>2, <1>1, ProcessesFinite, FS_AddElement
    <3>4. ~committing
      BY <2>2 DEF mustWait
    <3>5. CommitAlone'
      BY <3>1, <3>3, <3>4, <1>1, <1>4 DEF CommitAlone
    <3> QED
      BY <3>5, <3>2, ProcessesFinite DEF CommitAlone
  <2> QED
    BY <2>1, <2>2
<1>6. TypeOK'
  <2>1. pc' \in [Ops -> {"idle", "begin", "sleep", "run", "check", "append", "commit"}]
        /\ wrote' \in [Ops -> SUBSET Blocks]
    BY <1>1, <1>2
  <2> QED
    BY <2>1, <1>1, <1>5 DEF TypeOK
<1>7. CallsOK'
  BY <1>1, <1>2, FS_EmptySet DEF CallsOK
<1>8. RoomReserved'
  <2>1. CASE mustWait
    BY <1>1, <1>3, <2>1 DEF RoomReserved, begin_op
  <2>2. CASE ~mustWait
    <3>1. Len(lh) + outstanding' * MAXOPBLOCKS <= LOGSIZE /\ Cardinality(Logged) \in Nat
          /\ outstanding' \in Nat /\ Len(lh) \in Nat
      BY <2>2, LoggedFinite DEF mustWait, noSpace, begin_op
    <3>2. outstanding' * MAXOPBLOCKS \in Nat
      BY <3>1, Product
    <3> QED
      BY <1>1, <1>3, <3>1, <3>2 DEF RoomReserved
  <2> QED
    BY <2>1, <2>2
<1>9. StageOK' /\ HeadOK' /\ BlocksOK' /\ CacheOK'
  BY <1>1 DEF StageOK, HeadOK, BlocksOK, CacheOK, Recovering, Running, copied, installed
<1> QED
  BY <1>1, <1>5, <1>6, <1>7, <1>8, <1>9 DEF Inv, PanicsOK

\* While a call is in progress nothing is committed or recovered.
LEMMA CallRuns ==
  ASSUME Inv, NEW o \in Ops, o \in Active, ~Recovering
  PROVE  stage = "none" /\ tail = 0 /\ head = <<>> /\ copied = 0 /\ installed = 0
         /\ ~committing
<1>1. ~committing
  BY DEF Inv, CommitAlone
<1>2. stage = "none"
  BY <1>1 DEF Inv, TypeOK, StageOK, Recovering
<1> QED
  BY <1>1, <1>2 DEF Inv, StageOK, HeadOK, copied, installed

\* A call changes a buffer that it holds, and keeps to MAXOPBLOCKS of them.
LEMMA Modify ==
  ASSUME Inv, NEW o \in Ops, NEW b \in Blocks, NEW v \in Values, modify(o, b, v)
  PROVE  Inv'
<1> USE Constants DEF Inv
<1>1. /\ pc[o] = "run" /\ ~Recovering /\ buf[o] = NoBlock /\ o \in Active
      /\ \A p \in Ops : buf[p] # b
      /\ Cardinality(wrote[o] \cup {b}) <= MAXOPBLOCKS
      /\ cache' = [cache EXCEPT ![b] = v]
      /\ buf' = [buf EXCEPT ![o] = b]
      /\ wrote' = [wrote EXCEPT ![o] = @ \cup {b}]
      /\ pc' = [pc EXCEPT ![o] = "check"]
      /\ UNCHANGED <<home, logBlock, head, dirty, lh, outstanding, committing, stage, tail, panic>>
  BY DEF modify, At, Active, diskVars, CallsOK
<1>2. stage = "none" /\ tail = 0 /\ head = <<>> /\ ~committing
  BY <1>1, CallRuns
<1>3. /\ pc \in [Ops -> {"idle", "begin", "sleep", "run", "check", "append", "commit"}]
      /\ wrote \in [Ops -> SUBSET Blocks] /\ buf \in [Ops -> Blocks \cup {NoBlock}]
      /\ cache \in [Blocks -> Values \cup {Blank}]
  BY DEF TypeOK
<1>4. Active' = Active /\ {p \in Ops : pc[p] = "commit"}' = {p \in Ops : pc[p] = "commit"}
  BY <1>1, <1>3 DEF Active
<1>5. CommitAlone'
  BY <1>1, <1>4 DEF CommitAlone
<1>6. TypeOK'
  <2>1. /\ pc' \in [Ops -> {"idle", "begin", "sleep", "run", "check", "append", "commit"}]
        /\ wrote' \in [Ops -> SUBSET Blocks] /\ buf' \in [Ops -> Blocks \cup {NoBlock}]
        /\ cache' \in [Blocks -> Values \cup {Blank}]
    BY <1>1, <1>3
  <2> QED
    BY <2>1, <1>1 DEF TypeOK
<1>7. CallsOK'
  <2>1. IsFiniteSet(wrote[o] \cup {b})
    BY FS_AddElement DEF CallsOK
  <2> QED
    BY <1>1, <1>3, <2>1 DEF CallsOK
<1>8. RoomReserved'
  <2>1. Logged \subseteq Logged'
    BY <1>1, <1>3, <1>4 DEF Logged
  <2>2. Active' \in SUBSET Ops /\ lh' \in Seq(Blocks) /\ Logged' \in SUBSET (Active' \X Range(lh'))
    BY <1>6 DEF Logged, Active, TypeOK
  <2>3. IsFiniteSet(Logged') /\ Cardinality(Logged') \in Nat /\ Cardinality(Logged) \in Nat
        /\ Len(lh) \in Nat /\ outstanding * MAXOPBLOCKS \in Nat
    BY <2>2, LoggedFinite, PairsFinite
  <2>4. Cardinality(Logged) <= Cardinality(Logged')
    BY <2>1, <2>3, FS_Subset
  <2> QED
    BY <1>1, <2>3, <2>4 DEF RoomReserved
<1>9. CacheOK'
  BY <1>1, <1>3 DEF CacheOK
<1>10. StageOK' /\ HeadOK' /\ BlocksOK'
  BY <1>1, <1>2 DEF StageOK, HeadOK, BlocksOK, Recovering, Running, copied, installed
<1> QED
  BY <1>1, <1>5, <1>6, <1>7, <1>8, <1>9, <1>10 DEF Inv, PanicsOK

\* The tests of log_write() change nothing but where the call is.
LEMMA LogWriteCheck == ASSUME Inv, NEW o \in Ops, log_write_check(o) PROVE Inv'
<1> USE Constants DEF Inv
<1>1. /\ pc[o] = "check" /\ ~Recovering /\ o \in Active
      /\ pc' = pc \/ pc' = [pc EXCEPT ![o] = "append"]
      /\ panic' \in {panic, "too big a transaction", "log_write outside of trans"}
      /\ UNCHANGED <<home, logBlock, head, cache, dirty, lh, outstanding, committing, stage, tail,
                     buf, wrote>>
  BY DEF log_write_check, At, Active, diskVars, memVars
<1>2. stage = "none" /\ tail = 0 /\ head = <<>> /\ ~committing
  BY <1>1, CallRuns
<1>3. pc \in [Ops -> {"idle", "begin", "sleep", "run", "check", "append", "commit"}]
  BY DEF TypeOK
<1>4. Active' = Active /\ {p \in Ops : pc[p] = "commit"}' = {p \in Ops : pc[p] = "commit"}
  BY <1>1, <1>3 DEF Active
<1>5. CommitAlone' /\ RoomReserved'
  BY <1>1, <1>4 DEF CommitAlone, RoomReserved, Logged
<1>6. TypeOK'
  <2>1. pc' \in [Ops -> {"idle", "begin", "sleep", "run", "check", "append", "commit"}]
    BY <1>1, <1>3
  <2> QED
    BY <2>1, <1>1 DEF TypeOK
<1>7. CallsOK'
  BY <1>1, <1>3 DEF CallsOK
<1>8. StageOK' /\ HeadOK' /\ BlocksOK' /\ CacheOK'
  BY <1>1, <1>2 DEF StageOK, HeadOK, BlocksOK, CacheOK, Recovering, Running, copied, installed
<1>9. PanicsOK'
  <2>1. Cardinality(Active) \in Nat /\ Cardinality(Active) # 0
    <3>1. Active \in SUBSET Ops /\ Active # {}
      BY <1>1 DEF Active
    <3> QED
      BY <3>1, ProcessesFinite, FS_EmptySet
  <2>2. ~(outstanding < 1)
    BY <2>1 DEF CommitAlone
  <2> HIDE DEF Inv
  <2>3. panic' \in {panic, "too big a transaction"}
    BY <2>2 DEF log_write_check
  <2> QED
    BY <2>3 DEF PanicsOK, Inv
<1> QED
  BY <1>5, <1>6, <1>7, <1>8, <1>9

\* log_write() uses the room that begin_op() reserved, or none.
LEMMA LogWrite == ASSUME Inv, NEW o \in Ops, log_write(o) PROVE Inv'
<1> USE Constants DEF Inv
<1> DEFINE b == buf[o]
<1>1. /\ pc[o] = "append" /\ ~Recovering /\ o \in Active
      /\ lh' = recorded(b)
      /\ dirty' = dirty \cup {b}
      /\ buf' = [buf EXCEPT ![o] = NoBlock]
      /\ pc' = [pc EXCEPT ![o] = "run"]
      /\ UNCHANGED <<home, logBlock, head, cache, outstanding, committing, stage, tail, wrote, panic>>
  BY DEF log_write, At, Active, diskVars, pinned
<1>2. stage = "none" /\ tail = 0 /\ head = <<>> /\ ~committing
  BY <1>1, CallRuns
<1>3. /\ pc \in [Ops -> {"idle", "begin", "sleep", "run", "check", "append", "commit"}]
      /\ wrote \in [Ops -> SUBSET Blocks] /\ buf \in [Ops -> Blocks \cup {NoBlock}]
      /\ lh \in Seq(Blocks) /\ IsInjective(lh) /\ dirty \subseteq Blocks
  BY DEF TypeOK
<1>4. b \in wrote[o] /\ b \in Blocks
  BY <1>1, <1>3 DEF CallsOK
<1> HIDE DEF b
<1>5. Active' = Active /\ {p \in Ops : pc[p] = "commit"}' = {p \in Ops : pc[p] = "commit"}
  BY <1>1, <1>3 DEF Active
<1>6. CommitAlone'
  BY <1>1, <1>5 DEF CommitAlone
<1>7. /\ lh' \in Seq(Blocks) /\ IsInjective(lh') /\ Range(lh') = Range(lh) \cup {b}
      /\ b \notin Range(lh) => Len(lh') = Len(lh) + 1
      /\ b \in Range(lh) => lh' = lh
  BY <1>1, <1>3, <1>4, AppendInjective DEF recorded
<1>8. TypeOK'
  <2>1. /\ pc' \in [Ops -> {"idle", "begin", "sleep", "run", "check", "append", "commit"}]
        /\ buf' \in [Ops -> Blocks \cup {NoBlock}] /\ dirty' \subseteq Blocks
    BY <1>1, <1>3, <1>4
  <2> QED
    BY <2>1, <1>1, <1>7 DEF TypeOK
<1>9. CallsOK'
  BY <1>1, <1>3 DEF CallsOK
<1>10. RoomReserved'
  <2>1. IsFiniteSet(Logged) /\ Cardinality(Logged) \in Nat /\ Len(lh) \in Nat
        /\ outstanding * MAXOPBLOCKS \in Nat
    BY LoggedFinite
  <2>2. IsFiniteSet(Logged') /\ Cardinality(Logged') \in Nat
    <3>1. Active' \in SUBSET Ops /\ Logged' \in SUBSET (Active' \X Range(lh'))
      BY DEF Logged, Active
    <3> QED
      BY <3>1, <1>7, PairsFinite
  <2>3. CASE b \in Range(lh)
    <3>1. Logged' = Logged
      BY <1>1, <1>5, <1>7, <2>3 DEF Logged
    <3> QED
      BY <3>1, <1>1, <1>7, <2>3 DEF RoomReserved
  <2>4. CASE b \notin Range(lh)
    <3>1. Logged \cup {<<o, b>>} \subseteq Logged' /\ <<o, b>> \notin Logged
      BY <1>1, <1>4, <1>5, <1>7, <2>4 DEF Logged
    <3>2. Cardinality(Logged \cup {<<o, b>>}) = Cardinality(Logged) + 1
      BY <3>1, <2>1, FS_AddElement
    <3>3. Cardinality(Logged) + 1 <= Cardinality(Logged')
      BY <3>1, <3>2, <2>2, FS_Subset
    <3> QED
      BY <3>3, <1>1, <1>7, <2>1, <2>2, <2>4 DEF RoomReserved
  <2> QED
    BY <2>3, <2>4
<1>11. CacheOK'
  BY <1>1, <1>3, <1>7 DEF CacheOK, b
<1>12. StageOK' /\ HeadOK' /\ BlocksOK'
  BY <1>1, <1>2 DEF StageOK, HeadOK, BlocksOK, Recovering, Running, copied, installed
<1> QED
  BY <1>1, <1>6, <1>8, <1>9, <1>10, <1>11, <1>12 DEF Inv, PanicsOK

\* The room a call gives back when it ends: it has logged MAXOPBLOCKS blocks at most.
LEMMA RoomReturned ==
  ASSUME Inv, NEW o \in Active,
         NEW L \in SUBSET Logged, L = {x \in Logged : x[1] # o}
  PROVE  Cardinality(L) \in Nat /\ Cardinality(Logged) <= Cardinality(L) + MAXOPBLOCKS
<1> DEFINE D == {x \in Logged : x[1] = o}
           f == [x \in D |-> x[2]]
<1>1. IsFiniteSet(Logged) /\ Cardinality(Logged) \in Nat /\ o \in Ops
  BY LoggedFinite DEF Inv, Active
<1>2. f \in Injection(D, wrote[o])
  <2>1. f \in [D -> wrote[o]]
    BY DEF Logged
  <2>2. ASSUME NEW x \in D, NEW y \in D, x[2] = y[2] PROVE x = y
    BY <2>2 DEF Logged
  <2> QED
    BY <2>1, <2>2 DEF Injection, IsInjective
<1>3. IsFiniteSet(wrote[o]) /\ Cardinality(wrote[o]) <= MAXOPBLOCKS
  BY <1>1 DEF Inv, CallsOK
<1> HIDE DEF f
<1>4. IsFiniteSet(D) /\ Cardinality(D) <= Cardinality(wrote[o])
  BY <1>2, <1>3, FS_Injection
<1>5. Logged \cap D = D /\ Logged \ D = L
  OBVIOUS
<1> HIDE DEF D
<1>6. IsFiniteSet(L) /\ Cardinality(L) = Cardinality(Logged) - Cardinality(D)
  <2>1. /\ IsFiniteSet(Logged \ D)
        /\ Cardinality(Logged \ D) = Cardinality(Logged) - Cardinality(Logged \cap D)
    BY <1>1, FS_Difference
  <2> QED
    BY <2>1, <1>5
<1>7. Cardinality(L) \in Nat /\ Cardinality(D) \in Nat /\ Cardinality(wrote[o]) \in Nat
  BY <1>3, <1>4, <1>6, FS_CardinalityType
<1> QED
  BY <1>1, <1>3, <1>4, <1>6, <1>7, Constants

\* The last call out becomes the committer; any other wakes the waiting ones.
LEMMA EndOp == ASSUME Inv, NEW o \in Ops, end_op(o) PROVE Inv'
<1> USE Constants DEF Inv
<1>1. /\ pc[o] = "run" /\ ~Recovering /\ o \in Active
      /\ outstanding' = outstanding - 1
      /\ UNCHANGED <<home, logBlock, head, cache, dirty, lh, buf, wrote>>
  BY DEF end_op, At, Active, diskVars
<1>2. stage = "none" /\ tail = 0 /\ head = <<>> /\ ~committing
  BY <1>1, CallRuns
<1>3. pc \in [Ops -> {"idle", "begin", "sleep", "run", "check", "append", "commit"}]
  BY DEF TypeOK
<1>4. panic' = panic
  BY <1>2 DEF end_op
<1>5. Active' = Active \ {o} /\ Active \in SUBSET Ops /\ Active' \in SUBSET Ops
  BY <1>1, <1>2, <1>3 DEF Active, end_op, Woken
<1>6. Cardinality(Active') = Cardinality(Active) - 1 /\ Cardinality(Active') \in Nat
  BY <1>1, <1>5, ProcessesFinite, FS_RemoveElement
<1>7. {p \in Ops : pc[p] = "commit"} = {}
  BY <1>2, FS_EmptySet, ProcessesFinite DEF CommitAlone
<1>8. pc' \in [Ops -> {"idle", "begin", "sleep", "run", "check", "append", "commit"}]
  BY <1>1, <1>2, <1>3 DEF end_op, Woken
<1>9. \A p \in Ops : pc'[p] \in {"check", "append"} <=> pc[p] \in {"check", "append"}
  BY <1>1, <1>2, <1>3 DEF end_op, Woken
<1>10. CallsOK'
  BY <1>1, <1>9 DEF CallsOK
<1>11. RoomReserved'
  <2>1. Logged' = {x \in Logged : x[1] # o} /\ Logged' \subseteq Logged
    BY <1>1, <1>5 DEF Logged
  <2>2. Cardinality(Logged') \in Nat /\ Cardinality(Logged) <= Cardinality(Logged') + MAXOPBLOCKS
    BY <1>1, <2>1, RoomReturned
  <2>3. outstanding \in Nat /\ Len(lh) \in Nat /\ Cardinality(Logged) \in Nat
    BY LoggedFinite
  <2>4. outstanding' * MAXOPBLOCKS = outstanding * MAXOPBLOCKS - MAXOPBLOCKS
        /\ outstanding * MAXOPBLOCKS \in Nat
    BY <1>1, <2>3, Product
  <2> QED
    BY <1>1, <2>2, <2>3, <2>4 DEF RoomReserved
<1>12. outstanding' = Cardinality(Active') /\ outstanding' \in 0 .. Cardinality(Ops)
  BY <1>1, <1>5, <1>6, ProcessesFinite DEF CommitAlone
<1>13. CASE outstanding = 1
  <2>1. /\ committing' = TRUE /\ tail' = 0 /\ pc' = [pc EXCEPT ![o] = "commit"]
        /\ stage' = (IF lh = <<>> THEN "finish" ELSE "write_log")
    BY <1>2, <1>13 DEF end_op
  <2>2. {p \in Ops : pc[p] = "commit"}' = {o}
    BY <1>3, <1>7, <2>1
  <2>3. Active' = {}
    BY <1>1, <1>5, <1>12, <1>13, ProcessesFinite, FS_EmptySet
  <2>4. CommitAlone'
    BY <1>12, <2>1, <2>2, <2>3, FS_Singleton DEF CommitAlone
  <2>5. TypeOK'
    <3>1. committing' \in BOOLEAN /\ stage' \in {"finish", "write_log"} /\ tail' \in 0 .. LOGSIZE
      BY <2>1
    <3> QED
      BY <1>1, <1>4, <1>8, <1>12, <3>1 DEF TypeOK
  <2>6. lh # <<>> => 0 < Len(lh)
    <3>1. lh \in Seq(Blocks)
      BY DEF TypeOK
    <3> QED
      BY <3>1
  <2>7. StageOK'
    BY <1>1, <2>1, <2>6 DEF StageOK, Recovering
  <2>8. HeadOK' /\ BlocksOK' /\ CacheOK'
    BY <1>1, <1>2, <1>4, <2>1 DEF HeadOK, BlocksOK, CacheOK, Running, copied, installed
  <2> QED
    BY <1>4, <1>10, <1>11, <2>4, <2>5, <2>7, <2>8 DEF PanicsOK
<1>14. CASE outstanding # 1
  <2>1. UNCHANGED <<committing, stage, tail>> /\ pc' = [Woken EXCEPT ![o] = "idle"]
    BY <1>2, <1>14 DEF end_op
  <2>2. {p \in Ops : pc[p] = "commit"}' = {}
    BY <1>3, <1>7, <2>1 DEF Woken
  <2>3. CommitAlone'
    BY <1>2, <1>12, <2>1, <2>2, FS_EmptySet DEF CommitAlone
  <2>4. TypeOK'
    BY <1>1, <1>4, <1>8, <1>12, <2>1 DEF TypeOK
  <2>5. StageOK' /\ HeadOK' /\ BlocksOK' /\ CacheOK'
    BY <1>1, <1>2, <1>4, <2>1
    DEF StageOK, Recovering, HeadOK, BlocksOK, CacheOK, Running, copied, installed
  <2> QED
    BY <1>4, <1>10, <1>11, <2>3, <2>4, <2>5 DEF PanicsOK
<1> QED
  BY <1>13, <1>14

\* While no call is in progress the header holds at most LOGSIZE blocks.
LEMMA Quiet ==
  ASSUME Inv, committing \/ Recovering
  PROVE  Active = {} /\ outstanding = 0 /\ Logged = {} /\ Len(lh) \in Nat /\ Len(lh) <= LOGSIZE
<1>1. Active = {}
  BY DEF Inv, CommitAlone, StageOK, Active
<1>2. outstanding = 0 /\ Logged = {}
  BY <1>1, FS_EmptySet DEF Inv, CommitAlone, Logged
<1>3. Len(lh) \in Nat
  BY LoggedFinite DEF Inv
<1> QED
  BY <1>1, <1>2, <1>3, Constants, FS_EmptySet DEF Inv, RoomReserved

\* The calls do not move while the committer or recovery writes to the disk.
LEMMA CallsStill ==
  ASSUME Inv, UNCHANGED <<pc, buf, wrote, outstanding, committing>>
  PROVE  CommitAlone' /\ CallsOK' /\ Active' = Active
<1>1. Active' = Active
  BY DEF Active
<1>2. CommitAlone'
  BY <1>1 DEF Inv, CommitAlone
<1>3. CallsOK'
  BY DEF Inv, CallsOK
<1> QED
  BY <1>1, <1>2, <1>3

\* Without a call in progress, a header that fits keeps the room reserved.
LEMMA RoomWhenQuiet ==
  ASSUME Active' = {}, outstanding' = 0, lh' \in Seq(Blocks), Len(lh') <= LOGSIZE
  PROVE  RoomReserved'
<1>1. Logged' = {}
  BY DEF Logged
<1>2. Cardinality(Logged') = 0 /\ outstanding' * MAXOPBLOCKS = 0 /\ Len(lh') \in Nat
  BY <1>1, FS_EmptySet, Constants
<1> QED
  BY <1>2, Constants DEF RoomReserved

\* One block of the transaction is copied to the log.
LEMMA WriteLog == ASSUME Inv, write_log PROVE Inv'
<1> USE Constants
<1>0. TypeOK /\ CommitAlone /\ CallsOK /\ StageOK /\ HeadOK /\ BlocksOK /\ CacheOK
  BY DEF Inv
<1>1. /\ Running /\ stage = "write_log"
      /\ UNCHANGED <<home, head, cache, dirty, lh, outstanding, committing, pc, buf, wrote>>
  BY DEF write_log, procVars
<1>2. /\ committing /\ Active = {} /\ outstanding = 0 /\ Len(lh) \in Nat /\ Len(lh) <= LOGSIZE
      /\ tail < Len(lh) /\ head = <<>> /\ lh \in Seq(Blocks) /\ tail \in Nat
  <2>1. committing /\ tail < Len(lh) /\ head = <<>>
    BY <1>0, <1>1 DEF StageOK, HeadOK
  <2>2. lh \in Seq(Blocks) /\ tail \in 0 .. LOGSIZE
    BY <1>0 DEF TypeOK
  <2> QED
    BY <2>1, <2>2, Quiet
<1>3. CommitAlone' /\ CallsOK' /\ Active' = {}
  BY <1>1, <1>2, CallsStill
<1>4. RoomReserved'
  BY <1>1, <1>2, <1>3, RoomWhenQuiet
<1>5. \/ tail + 1 < Len(lh) /\ tail' = tail + 1 /\ stage' = "write_log"
      \/ tail + 1 = Len(lh) /\ tail' = 0 /\ stage' = "write_head"
  <2>1. IF tail + 1 < Len(lh) THEN tail' = tail + 1 /\ stage' = stage
                              ELSE tail' = 0 /\ stage' = "write_head"
    BY DEF write_log
  <2>2. tail + 1 < Len(lh) \/ tail + 1 = Len(lh)
    BY <1>2
  <2> QED
    BY <1>1, <2>1, <2>2
<1>6. \/ /\ tail + 1 < nlog /\ panic' = panic
         /\ logBlock' = [logBlock EXCEPT ![tail + 1] = cache[lh[tail + 1]]]
      \/ panic' = "past the log" /\ logBlock' = logBlock
  BY DEF write_log
<1>7. logBlock' \in [1 .. nlog - 1 -> Values \cup {Blank}]
  <2>1. cache[lh[tail + 1]] \in Values \cup {Blank}
    <3>1. lh[tail + 1] \in Blocks
      BY <1>2, RangeFacts
    <3> QED
      BY <1>0, <3>1 DEF TypeOK
  <2>2. logBlock \in [1 .. nlog - 1 -> Values \cup {Blank}]
    BY <1>0 DEF TypeOK
  <2> QED
    BY <1>6, <2>1, <2>2
<1>8. tail' \in 0 .. LOGSIZE /\ panic' \in {panic, "past the log"}
  <2>1. tail' \in 0 .. LOGSIZE
    BY <1>2, <1>5
  <2> QED
    BY <2>1, <1>6
<1>9. TypeOK'
  BY <1>0, <1>1, <1>5, <1>7, <1>8 DEF TypeOK
<1>10. StageOK'
  BY <1>0, <1>1, <1>2, <1>5 DEF StageOK, Recovering
<1>11. HeadOK'
  BY <1>0, <1>1, <1>2, <1>5, <1>6 DEF HeadOK, Running
<1>12. BlocksOK'
  <2>1. copied' = tail + 1 /\ installed' = 0 /\ copied = tail
    BY <1>1, <1>2, <1>5 DEF copied, installed
  <2>2. ASSUME Running', NEW i \in 1 .. tail + 1 PROVE i < nlog /\ logBlock'[i] = cache[lh[i]]
    <3>1. /\ tail + 1 < nlog /\ logBlock' = [logBlock EXCEPT ![tail + 1] = cache[lh[tail + 1]]]
          /\ logBlock \in [1 .. nlog - 1 -> Values \cup {Blank}]
      BY <1>0, <1>6, <2>2 DEF Running, TypeOK
    <3>2. CASE i = tail + 1
      BY <3>1, <3>2, <1>2
    <3>3. CASE i # tail + 1
      BY <1>0, <3>1, <3>3, <2>1, <1>1, <1>2 DEF BlocksOK
    <3> QED
      BY <3>2, <3>3
  <2> QED
    BY <1>0, <1>1, <1>2, <2>1, <2>2 DEF BlocksOK
<1>13. CacheOK'
  BY <1>0, <1>1 DEF CacheOK
<1>14. PanicsOK'
  BY <1>8 DEF Inv, PanicsOK
<1> QED
  BY <1>3, <1>4, <1>9, <1>10, <1>11, <1>12, <1>13, <1>14 DEF Inv

\* The header is written when all the blocks are in the log.
LEMMA WriteHead == ASSUME Inv, write_head PROVE Inv'
<1> USE Constants
<1>0. TypeOK /\ CommitAlone /\ CallsOK /\ StageOK /\ HeadOK /\ BlocksOK /\ CacheOK
  BY DEF Inv
<1>1. /\ Running /\ stage = "write_head" /\ stage' = "install" /\ head' = lh
      /\ UNCHANGED <<home, logBlock, cache, dirty, lh, outstanding, committing, tail, pc, buf,
                     wrote, panic>>
  BY DEF write_head, procVars
<1>2. /\ committing /\ Active = {} /\ outstanding = 0 /\ Len(lh) \in Nat /\ Len(lh) <= LOGSIZE
      /\ tail = 0 /\ lh \in Seq(Blocks) /\ IsInjective(lh) /\ Len(lh) < nlog /\ lh # <<>>
  <2>1. committing /\ tail = 0 /\ Len(lh) < nlog
    BY <1>0, <1>1 DEF StageOK, HeadOK
  <2>2. lh \in Seq(Blocks) /\ IsInjective(lh) /\ lh # <<>>
    BY <1>0, <1>1 DEF TypeOK, StageOK
  <2> QED
    BY <2>1, <2>2, Quiet
<1>3. CommitAlone' /\ CallsOK' /\ Active' = {}
  BY <1>1, <1>2, CallsStill
<1>4. RoomReserved'
  BY <1>1, <1>2, <1>3, RoomWhenQuiet
<1>5. TypeOK'
  BY <1>0, <1>1, <1>2 DEF TypeOK
<1>6. StageOK'
  BY <1>0, <1>1, <1>2 DEF StageOK, Recovering
<1>7. HeadOK'
  BY <1>0, <1>1, <1>2 DEF HeadOK
<1>8. BlocksOK'
  BY <1>0, <1>1, <1>2 DEF BlocksOK, copied, installed, Running
<1>9. CacheOK'
  BY <1>0, <1>1 DEF CacheOK
<1> QED
  BY <1>1, <1>3, <1>4, <1>5, <1>6, <1>7, <1>8, <1>9 DEF Inv, PanicsOK

\* What install_trans() finds: the block to install is in the log, in the header once, and
\* during a commit the cache holds it already.
LEMMA InstallFacts ==
  ASSUME Inv, install_trans
  PROVE  /\ stage \in {"install", "reinstall"} /\ Running
         /\ Active = {} /\ outstanding = 0 /\ Len(lh) \in Nat /\ Len(lh) <= LOGSIZE
         /\ tail \in Nat /\ tail < Len(lh) /\ head = lh /\ Len(lh) < nlog
         /\ lh \in Seq(Blocks) /\ IsInjective(lh) /\ lh[tail + 1] \in Range(lh)
         /\ lh[tail + 1] \in Blocks /\ tail + 1 \in 1 .. Len(lh) /\ tail + 1 \in 1 .. nlog - 1
         /\ stage = "install" => logBlock[tail + 1] = cache[lh[tail + 1]]
<1> USE Constants
<1>0. TypeOK /\ StageOK /\ HeadOK /\ BlocksOK
  BY DEF Inv
<1>1. stage \in {"install", "reinstall"} /\ Running
  BY DEF install_trans
<1>2. (committing \/ Recovering) /\ tail < Len(lh) /\ head = lh /\ Len(lh) < nlog
  BY <1>0, <1>1 DEF StageOK, HeadOK, Recovering
<1>3. lh \in Seq(Blocks) /\ IsInjective(lh) /\ tail \in 0 .. LOGSIZE
  BY <1>0 DEF TypeOK
<1>4. Active = {} /\ outstanding = 0 /\ Len(lh) \in Nat /\ Len(lh) <= LOGSIZE
  BY <1>2, Quiet
<1>5. tail + 1 \in 1 .. Len(lh) /\ tail + 1 \in 1 .. nlog - 1 /\ tail \in Nat
  BY <1>2, <1>3, <1>4
<1>6. lh[tail + 1] \in Range(lh) /\ lh[tail + 1] \in Blocks
  BY <1>3, <1>5, RangeFacts
<1>7. stage = "install" => logBlock[tail + 1] = cache[lh[tail + 1]]
  BY <1>0, <1>1, <1>5 DEF BlocksOK, copied
<1> QED
  BY <1>1, <1>2, <1>3, <1>4, <1>5, <1>6, <1>7

\* One block of the log goes to its home.
LEMMA InstallTrans == ASSUME Inv, install_trans PROVE Inv'
<1> USE Constants
<1> DEFINE b == lh[tail + 1]
           v == logBlock[tail + 1]
<1>0. TypeOK /\ CommitAlone /\ CallsOK /\ StageOK /\ HeadOK /\ BlocksOK /\ CacheOK
  BY DEF Inv
<1>1. /\ home' = [home EXCEPT ![b] = v] /\ cache' = [cache EXCEPT ![b] = v]
      /\ dirty' = dirty \ {b}
      /\ UNCHANGED <<logBlock, head, lh, outstanding, committing, pc, buf, wrote, panic>>
  BY DEF install_trans, procVars
<1>2. /\ stage \in {"install", "reinstall"} /\ Running
      /\ Active = {} /\ outstanding = 0 /\ Len(lh) \in Nat /\ Len(lh) <= LOGSIZE
      /\ tail \in Nat /\ tail < Len(lh) /\ head = lh /\ Len(lh) < nlog
      /\ lh \in Seq(Blocks) /\ IsInjective(lh) /\ b \in Range(lh)
      /\ b \in Blocks /\ tail + 1 \in 1 .. Len(lh) /\ tail + 1 \in 1 .. nlog - 1
      /\ stage = "install" => v = cache[b]
  BY InstallFacts
<1>3. v \in Values \cup {Blank}
  BY <1>0, <1>2 DEF TypeOK
<1>4. CommitAlone' /\ CallsOK' /\ Active' = {}
  BY <1>1, <1>2, CallsStill
<1>5. RoomReserved'
  BY <1>1, <1>2, <1>4, RoomWhenQuiet
<1>6. \/ tail + 1 < Len(lh) /\ tail' = tail + 1 /\ stage' = stage
      \/ /\ tail + 1 = Len(lh) /\ tail' = 0
         /\ stage' = (IF stage = "install" THEN "erase" ELSE "clear")
  <2>1. IF tail + 1 < Len(lh)
          THEN tail' = tail + 1 /\ stage' = stage
          ELSE tail' = 0 /\ stage' = (IF stage = "install" THEN "erase" ELSE "clear")
    BY DEF install_trans
  <2>2. tail + 1 < Len(lh) \/ tail + 1 = Len(lh)
    BY <1>2
  <2> QED
    BY <2>1, <2>2
<1>7. /\ home \in [Blocks -> Values \cup {Blank}] /\ cache \in [Blocks -> Values \cup {Blank}]
      /\ dirty \subseteq Blocks
  BY <1>0 DEF TypeOK
<1>8. TypeOK'
  <2>1. /\ home' \in [Blocks -> Values \cup {Blank}]
        /\ cache' \in [Blocks -> Values \cup {Blank}] /\ dirty' \subseteq Blocks
    BY <1>1, <1>3, <1>7
  <2>2. tail' \in 0 .. LOGSIZE
    BY <1>2, <1>6
  <2>3. stage' \in {"install", "reinstall", "erase", "clear"}
    BY <1>2, <1>6
  <2> QED
    BY <1>0, <1>1, <2>1, <2>2, <2>3 DEF TypeOK
<1>9. StageOK'
  <2>1. Recovering' = Recovering /\ (stage' \in {"install", "erase"} <=> stage = "install")
    BY <1>2, <1>6 DEF Recovering
  <2>2. /\ IF stage' \in {"write_log", "install", "reinstall"} THEN tail' < Len(lh) ELSE tail' = 0
        /\ stage' \notin {"read_head", "finish", "write_head"}
    BY <1>2, <1>6
  <2> QED
    BY <1>0, <1>1, <1>2, <1>6, <2>1, <2>2 DEF StageOK
<1>10. HeadOK'
  BY <1>0, <1>1, <1>2, <1>6 DEF HeadOK, Running
<1>11. BlocksOK'
  <2>1. installed = tail /\ installed' = tail + 1
    BY <1>1, <1>2, <1>6 DEF installed
  <2>2. copied' # 0 => stage = "install" /\ copied' = copied
    BY <1>1, <1>2, <1>6 DEF copied
  <2>3. stage = "install" => cache' = cache
    BY <1>1, <1>2, <1>7
  <2>4. ASSUME Running', NEW i \in 1 .. copied' PROVE i < nlog /\ logBlock[i] = cache'[lh[i]]
    <3>1. copied' # 0
      OBVIOUS
    <3> QED
      BY <3>1, <1>0, <1>2, <2>2, <2>3, <2>4 DEF BlocksOK
  <2>5. ASSUME NEW i \in 1 .. tail + 1 PROVE home'[lh[i]] = logBlock[i] /\ lh[i] \notin dirty'
    <3>1. CASE i = tail + 1
      BY <3>1, <1>1, <1>2, <1>7
    <3>2. CASE i # tail + 1
      <4>1. i \in 1 .. installed /\ i \in 1 .. Len(lh)
        BY <3>2, <2>1, <1>2
      <4>2. lh[i] # b
        BY <4>1, <3>2, <1>2 DEF IsInjective
      <4>3. home[lh[i]] = logBlock[i] /\ lh[i] \notin dirty /\ lh[i] \in Blocks
        BY <4>1, <1>0, <1>2, RangeFacts DEF BlocksOK
      <4> QED
        BY <4>2, <4>3, <1>1, <1>7
    <3> QED
      BY <3>1, <3>2
  <2> QED
    BY <1>1, <2>1, <2>4, <2>5 DEF BlocksOK
<1>12. CacheOK'
  BY <1>0, <1>1, <1>2, <1>7 DEF CacheOK
<1> QED
  BY <1>1, <1>4, <1>5, <1>8, <1>9, <1>10, <1>11, <1>12 DEF Inv, PanicsOK

\* When the header is cleared every buffer is clean.
LEMMA Erase == ASSUME Inv, erase PROVE Inv'
<1> USE Constants
<1>0. TypeOK /\ CommitAlone /\ CallsOK /\ StageOK /\ HeadOK /\ BlocksOK /\ CacheOK
  BY DEF Inv
<1>1. /\ Running /\ stage \in {"erase", "clear"} /\ lh' = <<>> /\ head' = <<>>
      /\ stage' = (IF stage = "erase" THEN "finish" ELSE "none")
      /\ UNCHANGED <<home, logBlock, cache, dirty, outstanding, committing, tail, pc, buf, wrote,
                     panic>>
  BY DEF erase, procVars
<1>2. committing \/ Recovering
  BY <1>0, <1>1 DEF StageOK, Recovering
<1>3. Active = {} /\ outstanding = 0 /\ Len(lh) \in Nat
  BY <1>2, Quiet
<1>4. dirty = {}
  <2>1. installed = Len(lh) /\ lh \in Seq(Blocks)
    BY <1>0, <1>1 DEF installed, TypeOK
  <2> QED
    BY <1>0, <2>1, RangeFacts DEF BlocksOK, CacheOK
<1>5. CommitAlone' /\ CallsOK' /\ Active' = {}
  BY <1>1, <1>3, CallsStill
<1>6. RoomReserved'
  BY <1>1, <1>3, <1>5, RoomWhenQuiet
<1>7. TypeOK'
  <2>1. lh' \in Seq(Blocks) /\ head' \in Seq(Blocks) /\ IsInjective(lh')
    BY <1>1, EmptyRange
  <2> QED
    BY <1>0, <1>1, <2>1 DEF TypeOK
<1>8. StageOK'
  BY <1>0, <1>1 DEF StageOK, Recovering
<1>9. HeadOK'
  BY <1>1, EmptyRange DEF HeadOK
<1>10. BlocksOK' /\ CacheOK'
  BY <1>0, <1>1, <1>4 DEF BlocksOK, CacheOK, copied, installed
<1> QED
  BY <1>1, <1>5, <1>6, <1>7, <1>8, <1>9, <1>10 DEF Inv, PanicsOK

\* The committer opens the log again and becomes an ordinary process.
LEMMA Finish == ASSUME Inv, NEW o \in Ops, finish(o) PROVE Inv'
<1> USE Constants
<1>0. TypeOK /\ CommitAlone /\ CallsOK /\ StageOK /\ HeadOK /\ BlocksOK /\ CacheOK
  BY DEF Inv
<1>1. /\ pc[o] = "commit" /\ stage = "finish" /\ stage' = "none" /\ committing' = FALSE
      /\ pc' = [Woken EXCEPT ![o] = "idle"]
      /\ UNCHANGED <<home, logBlock, head, cache, dirty, lh, outstanding, tail, buf, wrote, panic>>
  BY DEF finish, At, diskVars
<1>2. committing /\ lh = <<>> /\ head = <<>> /\ tail = 0
  BY <1>0, <1>1 DEF StageOK, HeadOK
<1>3. Active = {} /\ outstanding = 0
  BY <1>2, Quiet
<1>4. pc \in [Ops -> {"idle", "begin", "sleep", "run", "check", "append", "commit"}]
  BY <1>0 DEF TypeOK
<1>5. pc' \in [Ops -> {"idle", "begin", "sleep", "run", "check", "append", "commit"}]
  BY <1>1, <1>4 DEF Woken
<1>6. Active' = {}
  BY <1>1, <1>3, <1>4 DEF Active, Woken
<1>7. {p \in Ops : pc[p] = "commit"}' = {}
  <2> DEFINE C == {p \in Ops : pc[p] = "commit"}
  <2>1. IsFiniteSet(C) /\ Cardinality(C) = 1 /\ o \in C
    BY <1>0, <1>1, <1>2, ProcessesFinite DEF CommitAlone
  <2>2. PICK x : C = {x}
    BY <2>1, FS_Singleton
  <2>3. \A p \in Ops : pc[p] = "commit" => p = o
    BY <2>1, <2>2
  <2> QED
    BY <1>1, <1>4, <2>3 DEF Woken
<1>8. CommitAlone'
  BY <1>1, <1>3, <1>6, <1>7, FS_EmptySet DEF CommitAlone
<1>9. CallsOK'
  <2>1. \A p \in Ops : pc'[p] \in {"check", "append"} <=> pc[p] \in {"check", "append"}
    BY <1>1, <1>4 DEF Woken
  <2> QED
    BY <1>0, <1>1, <2>1 DEF CallsOK
<1>10. RoomReserved'
  <2>1. lh' \in Seq(Blocks) /\ Len(lh') <= LOGSIZE
    BY <1>1, <1>2
  <2> QED
    BY <2>1, <1>1, <1>3, <1>6, RoomWhenQuiet
<1>11. TypeOK'
  BY <1>0, <1>1, <1>5 DEF TypeOK
<1>12. StageOK' /\ HeadOK' /\ BlocksOK' /\ CacheOK'
  BY <1>0, <1>1, <1>2
  DEF StageOK, HeadOK, BlocksOK, CacheOK, Recovering, Running, copied, installed
<1> QED
  BY <1>1, <1>8, <1>9, <1>10, <1>11, <1>12 DEF Inv, PanicsOK

\* bget() recycles only buffers whose contents are on the disk: nothing changes.
LEMMA Recycled == ASSUME Inv, NEW b \in Blocks, bget_recycle(b) PROVE UNCHANGED vars
<1>1. cache[b] = home[b] /\ cache \in [Blocks -> Values \cup {Blank}]
  BY DEF bget_recycle, Inv, TypeOK, CacheOK
<1>2. cache' = cache
  BY <1>1 DEF bget_recycle
<1> QED
  BY <1>2 DEF bget_recycle, vars, diskVars, memVars, procVars

\* A crash leaves the disk, with the header as it was.
LEMMA Crashed == ASSUME Inv, crash PROVE Inv'
<1> USE Constants, EmptyRange
<1>0. TypeOK /\ HeadOK
  BY DEF Inv
<1>1. /\ cache' = home' /\ dirty' = {} /\ lh' = <<>> /\ outstanding' = 0 /\ committing' = FALSE
      /\ stage' = "read_head" /\ tail' = 0 /\ panic' = "no"
      /\ pc' = [o \in Ops |-> "idle"] /\ buf' = [o \in Ops |-> NoBlock]
      /\ wrote' = [o \in Ops |-> {}]
      /\ UNCHANGED head
  BY DEF crash
<1>2. Active' = {} /\ {o \in Ops : pc[o] = "commit"}' = {}
  BY <1>1 DEF Active
<1>3. CommitAlone'
  BY <1>1, <1>2, FS_EmptySet DEF CommitAlone
<1>4. TypeOK'
  <2>1. lh' \in Seq(Blocks) /\ IsInjective(lh') /\ dirty' \subseteq Blocks
    BY <1>1
  <2>2. outstanding' \in 0 .. Cardinality(Ops) /\ tail' \in 0 .. LOGSIZE
    BY <1>1
  <2>3. /\ pc' \in [Ops -> {"idle", "begin", "sleep", "run", "check", "append", "commit"}]
        /\ buf' \in [Ops -> Blocks \cup {NoBlock}] /\ wrote' \in [Ops -> SUBSET Blocks]
    BY <1>1
  <2>4. /\ home' \in [Blocks -> Values \cup {Blank}]
        /\ logBlock' \in [1 .. nlog - 1 -> Values \cup {Blank}]
    <3>1. /\ home \in [Blocks -> Values \cup {Blank}]
          /\ logBlock \in [1 .. nlog - 1 -> Values \cup {Blank}]
      BY <1>0 DEF TypeOK
    <3>2. CASE UNCHANGED <<home, logBlock>>
      BY <3>1, <3>2
    <3>3. CASE torn
      <4>1. PICK v \in Values \cup {Blank} :
              \/ logBlock' = [logBlock EXCEPT ![tail + 1] = v] /\ UNCHANGED home
              \/ home' = [home EXCEPT ![lh[tail + 1]] = v] /\ UNCHANGED logBlock
        BY <3>3 DEF torn
      <4> QED
        BY <3>1, <4>1
    <3> QED
      BY <3>2, <3>3 DEF crash
  <2> QED
    BY <1>0, <1>1, <2>1, <2>2, <2>3, <2>4 DEF TypeOK
<1>5. CallsOK'
  BY <1>1, FS_EmptySet DEF CallsOK
<1>6. RoomReserved'
  BY <1>1, <1>2, <1>4, RoomWhenQuiet
<1>7. StageOK' /\ HeadOK' /\ BlocksOK' /\ CacheOK'
  BY <1>0, <1>1 DEF StageOK, HeadOK, BlocksOK, CacheOK, Recovering, copied, installed
<1> QED
  BY <1>1, <1>3, <1>4, <1>5, <1>6, <1>7 DEF Inv, PanicsOK

\* Recovery takes the header of the disk.
LEMMA ReadHead == ASSUME Inv, read_head PROVE Inv'
<1> USE Constants
<1>0. TypeOK /\ CommitAlone /\ CallsOK /\ StageOK /\ HeadOK /\ BlocksOK /\ CacheOK
  BY DEF Inv
<1>1. /\ Running /\ stage = "read_head" /\ lh' = head
      /\ stage' = (IF head = <<>> THEN "clear" ELSE "reinstall")
      /\ UNCHANGED <<home, logBlock, head, cache, dirty, outstanding, committing, tail, pc, buf,
                     wrote, panic>>
  BY DEF read_head, diskVars, procVars
<1>2. Recovering /\ tail = 0 /\ dirty = {}
  BY <1>0, <1>1 DEF StageOK, Recovering
<1>3. Active = {} /\ outstanding = 0
  BY <1>2, Quiet
<1>4. head \in Seq(Blocks) /\ IsInjective(head) /\ Len(head) <= LOGSIZE
  BY <1>0 DEF TypeOK, HeadOK
<1>5. CommitAlone' /\ CallsOK' /\ Active' = {}
  BY <1>1, <1>3, CallsStill
<1>6. RoomReserved'
  BY <1>1, <1>3, <1>4, <1>5, RoomWhenQuiet
<1>7. TypeOK'
  BY <1>0, <1>1, <1>4 DEF TypeOK
<1>8. StageOK'
  <2>1. head # <<>> => 0 < Len(head)
    BY <1>4
  <2> QED
    BY <1>0, <1>1, <1>2, <2>1 DEF StageOK, Recovering
<1>9. HeadOK'
  BY <1>0, <1>1 DEF HeadOK
<1>10. BlocksOK'
  <2>1. copied' = 0 /\ installed' = 0
    BY <1>1, <1>2 DEF copied, installed
  <2> QED
    BY <2>1 DEF BlocksOK
<1>11. CacheOK'
  BY <1>0, <1>1, <1>2 DEF CacheOK
<1> QED
  BY <1>1, <1>5, <1>6, <1>7, <1>8, <1>9, <1>10, <1>11 DEF Inv, PanicsOK

\* A step that changes nothing keeps the invariant.
LEMMA Stutter == ASSUME Inv, UNCHANGED vars PROVE Inv'
<1>1. Active' = Active /\ Logged' = Logged /\ copied' = copied /\ installed' = installed
  BY DEF vars, diskVars, memVars, procVars, Active, Logged, copied, installed
<1>2. TypeOK' /\ CommitAlone' /\ PanicsOK' /\ CallsOK' /\ RoomReserved'
  BY <1>1 DEF Inv, TypeOK, CommitAlone, PanicsOK, CallsOK, RoomReserved,
              vars, diskVars, memVars, procVars
<1>3. StageOK' /\ HeadOK' /\ BlocksOK' /\ CacheOK'
  BY <1>1 DEF Inv, StageOK, HeadOK, BlocksOK, CacheOK, Running, Recovering,
              vars, diskVars, memVars, procVars
<1> QED
  BY <1>2, <1>3 DEF Inv

\* Every step of the log keeps the invariant.
LEMMA NextInv == ASSUME Inv, [Next]_vars PROVE Inv'
<1>1. ASSUME NEW o \in Ops, begin_op(o) PROVE Inv'
  BY <1>1, BeginOp
<1>2. ASSUME NEW o \in Ops, NEW b \in Blocks, NEW v \in Values, modify(o, b, v) PROVE Inv'
  BY <1>2, Modify
<1>3. ASSUME NEW o \in Ops, log_write_check(o) PROVE Inv'
  BY <1>3, LogWriteCheck
<1>4. ASSUME NEW o \in Ops, log_write(o) PROVE Inv'
  BY <1>4, LogWrite
<1>5. ASSUME NEW o \in Ops, end_op(o) PROVE Inv'
  BY <1>5, EndOp
<1>6. ASSUME NEW o \in Ops, finish(o) PROVE Inv'
  BY <1>6, Finish
<1>7. CASE write_log
  BY <1>7, WriteLog
<1>8. CASE write_head
  BY <1>8, WriteHead
<1>9. CASE install_trans
  BY <1>9, InstallTrans
<1>10. CASE erase
  BY <1>10, Erase
<1>11. CASE read_head
  BY <1>11, ReadHead
<1>12. ASSUME NEW b \in Blocks, bget_recycle(b) PROVE Inv'
  BY <1>12, Recycled, Stutter
<1>13. CASE crash
  BY <1>13, Crashed
<1>14. CASE UNCHANGED vars
  BY <1>14, Stutter
<1> QED
  BY <1>1, <1>2, <1>3, <1>4, <1>5, <1>6, <1>7, <1>8, <1>9, <1>10, <1>11, <1>12, <1>13, <1>14
  DEF Next, CommitStep

\* The invariant holds always.
LEMMA InvAlways == Spec => []Inv
<1> QED
  BY InitInv, NextInv, PTL DEF Spec

\* What the calls in progress have logged is no more than what was reserved for them.
LEMMA LoggedBounded == ASSUME Inv PROVE Cardinality(Logged) <= outstanding * MAXOPBLOCKS
<1> DEFINE Slots == 1 .. MAXOPBLOCKS
           slot == [o \in Ops |-> CHOOSE f : f \in Injection(wrote[o], Slots)]
           place == [x \in Logged |-> <<x[1], slot[x[1]][x[2]]>>]
<1>1. ASSUME NEW o \in Ops PROVE \E f : f \in Injection(wrote[o], Slots)
  <2>1. IsFiniteSet(wrote[o]) /\ Cardinality(wrote[o]) <= MAXOPBLOCKS
    BY DEF Inv, CallsOK
  <2>2. PICK g : g \in Bijection(1 .. Cardinality(wrote[o]), wrote[o])
    BY <2>1, FS_CardinalityType DEF ExistsBijection
  <2>3. g \in Bijection(1 .. Cardinality(wrote[o]), wrote[o]) /\ Cardinality(wrote[o]) \in Nat
    BY <2>1, <2>2, FS_CardinalityType
  <2> DEFINE h == [b \in wrote[o] |-> CHOOSE i \in 1 .. Cardinality(wrote[o]) : g[i] = b]
  <2>4. \A b \in wrote[o] : h[b] \in 1 .. Cardinality(wrote[o]) /\ g[h[b]] = b
    BY <2>3 DEF Bijection, Surjection
  <2>5. h \in Injection(wrote[o], Slots)
    <3>1. DOMAIN h = wrote[o] /\ \A b \in wrote[o] : h[b] \in Slots
      BY <2>1, <2>3, <2>4, Constants
    <3>2. \A b, c \in wrote[o] : h[b] = h[c] => b = c
      BY <2>4
    <3>3. h \in [wrote[o] -> Slots]
      BY <3>1
    <3> HIDE DEF h
    <3> QED
      BY <3>1, <3>2, <3>3 DEF Injection, IsInjective
  <2> QED
    BY <2>5
<1>2. \A o \in Ops : slot[o] \in Injection(wrote[o], Slots)
  BY <1>1
<1> HIDE DEF slot
<1>3. place \in Injection(Logged, Active \X Slots)
  <2>1. ASSUME NEW x \in Logged
        PROVE  x[1] \in Ops /\ x[1] \in Active /\ x[2] \in wrote[x[1]] /\ x = <<x[1], x[2]>>
    BY DEF Logged, Active
  <2>2. place \in [Logged -> Active \X Slots]
    BY <1>2, <2>1 DEF Injection
  <2>3. ASSUME NEW x \in Logged, NEW y \in Logged, place[x] = place[y] PROVE x = y
    <3>1. x[1] = y[1] /\ slot[x[1]][x[2]] = slot[x[1]][y[2]]
      BY <2>3
    <3>2. x[2] = y[2]
      BY <3>1, <2>1, <1>2 DEF Injection, IsInjective
    <3> QED
      BY <3>1, <3>2, <2>1
  <2> QED
    BY <2>2, <2>3 DEF Injection, IsInjective
<1> HIDE DEF place
<1>4. IsFiniteSet(Active) /\ outstanding = Cardinality(Active)
  BY ProcessesFinite DEF Active, Inv, CommitAlone
<1>5. IsFiniteSet(Slots) /\ Cardinality(Slots) = MAXOPBLOCKS
  BY Constants, FS_Interval
<1> HIDE DEF Slots
<1>6. IsFiniteSet(Active \X Slots) /\ Cardinality(Active \X Slots) = outstanding * MAXOPBLOCKS
  BY <1>4, <1>5, FS_Product
<1> QED
  BY <1>3, <1>6, FS_Injection

\* log.c:126-235: for every number of processes and every size of the log, with crashes
\* at any point, outstanding counts the calls in progress, there is at most one committer,
\* and it works while there are none; and the array of log.lh never overflows.
THEOREM CommitsRunAlone == Spec => []LogSafe
<1>1. Inv => LogSafe
  <2> SUFFICES ASSUME Inv PROVE Len(lh) <= LOGSIZE
    BY DEF LogSafe, Inv
  <2>1. Cardinality(Logged) \in Nat /\ Len(lh) \in Nat /\ outstanding * MAXOPBLOCKS \in Nat
    BY LoggedFinite DEF Inv
  <2> QED
    BY <2>1, LoggedBounded, Constants DEF Inv, RoomReserved
<1> QED
  BY <1>1, InvAlways, PTL

-----------------------------------------------------------------------------
(* The log implements the atomic disk. *)

\* After a crash a block comes from the log exactly if the header names it.
LEMMA DurableValue ==
  ASSUME Inv
  PROVE  /\ Durable = [b \in Blocks |-> Durable[b]]
         /\ \A i \in 1 .. Len(head) : Durable[head[i]] = logBlock[i]
         /\ \A b \in Blocks : b \notin Range(head) => Durable[b] = home[b]
<1>1. head \in Seq(Blocks) /\ IsInjective(head)
  BY DEF Inv, TypeOK, HeadOK
<1>2. ASSUME NEW i \in 1 .. Len(head) PROVE Durable[head[i]] = logBlock[i]
  <2>1. head[i] \in Blocks /\ head[i] \in Range(head)
    BY <1>1, RangeFacts
  <2>2. \A j \in 1 .. Len(head) : head[j] = head[i] <=> j = i
    BY <1>1 DEF IsInjective
  <2>3. (CHOOSE j \in 1 .. Len(head) : head[j] = head[i]) = i
    BY <2>2
  <2> QED
    BY <2>1, <2>3 DEF Durable
<1>3. Durable = [b \in Blocks |-> Durable[b]]
  BY DEF Durable
<1>4. \A b \in Blocks : b \notin Range(head) => Durable[b] = home[b]
  BY DEF Durable
<1> QED
  BY <1>2, <1>3, <1>4

\* While the log is empty, the disk is what is at the home blocks.
LEMMA DurableHome == ASSUME Inv, head = <<>> PROVE Durable = home
<1>1. home \in [Blocks -> Values \cup {Blank}] /\ Range(head) = {}
  BY EmptyRange DEF Inv, TypeOK
<1> QED
  BY <1>1 DEF Durable

\* With no call in progress, a block that is not in the log is the same in the cache and
\* at its home.
LEMMA QuietCache ==
  ASSUME Inv, committing \/ Recovering, NEW b \in Blocks, b \notin dirty
  PROVE  cache[b] = home[b]
<1>1. Active = {}
  BY Quiet
<1>2. ASSUME NEW o \in Ops PROVE buf[o] # b
  <2>1. pc[o] \notin {"check", "append"}
    BY <1>1 DEF Active
  <2>2. buf[o] = NoBlock
    BY <2>1 DEF Inv, CallsOK
  <2> QED
    BY <2>2, Constants
<1> QED
  BY <1>2 DEF Inv, CacheOK

\* The machine boots with an empty log.
LEMMA InitRefines == Init => Atomic!DiskInit
<1> SUFFICES ASSUME Init PROVE Atomic!DiskInit
  OBVIOUS
<1>1. Durable = [b \in Blocks |-> Blank]
  BY EmptyRange DEF Init, Durable
<1>2. Current = Durable /\ Active = {}
  BY DEF Init, Current, Recovering, Active
<1> QED
  BY <1>1, <1>2 DEF Atomic!DiskInit

\* The header makes the whole transaction durable at once.
LEMMA WriteHeadCommits == ASSUME Inv, write_head PROVE Atomic!Commit
<1>1. /\ Running /\ stage = "write_head" /\ stage' = "install" /\ head' = lh
      /\ UNCHANGED <<home, logBlock, cache, pc>>
  BY DEF write_head, procVars
<1>2. committing /\ ~Recovering /\ ~Recovering'
  BY <1>1 DEF Inv, StageOK, Recovering
<1>3. Active = {} /\ Active' = {}
  BY <1>1, <1>2, Quiet DEF Active
<1>4. Inv'
  BY WriteHead
<1>5. lh \in Seq(Blocks) /\ cache \in [Blocks -> Values \cup {Blank}] /\ IsInjective(lh)
  BY DEF Inv, TypeOK
<1>6. Durable' = cache
  <2>1. ASSUME NEW b \in Blocks PROVE Durable'[b] = cache[b]
    <3>1. CASE b \in Range(lh)
      <4>1. PICK i \in 1 .. Len(lh) : lh[i] = b
        BY <1>5, <3>1, RangeFacts
      <4>2. \A j \in 1 .. Len(lh) : lh[j] = b <=> j = i
        BY <1>5, <4>1 DEF IsInjective
      <4>3. Durable'[b] = logBlock[i]
        BY <1>1, <3>1, <4>1, <4>2 DEF Durable
      <4>4. logBlock[i] = cache[b]
        BY <1>1, <4>1 DEF Inv, BlocksOK, copied
      <4> QED
        BY <4>3, <4>4
    <3>2. CASE b \notin Range(lh)
      <4>1. cache[b] = home[b]
        BY <1>2, <3>2, QuietCache DEF Inv, CacheOK
      <4> QED
        BY <1>1, <3>2, <4>1 DEF Durable
    <3> QED
      BY <3>1, <3>2
  <2>2. Durable' = [b \in Blocks |-> Durable'[b]]
    BY DEF Durable
  <2> QED
    BY <2>1, <2>2, <1>5
<1> QED
  BY <1>1, <1>2, <1>3, <1>6 DEF Atomic!Commit, Current

\* Installing a block changes neither the disk after a crash nor the view of the files.
LEMMA InstallHidden == ASSUME Inv, install_trans PROVE UNCHANGED <<Durable, Current, Active>>
<1> DEFINE b == lh[tail + 1]
<1>1. /\ home' = [home EXCEPT ![b] = logBlock[tail + 1]]
      /\ cache' = [cache EXCEPT ![b] = logBlock[tail + 1]]
      /\ UNCHANGED <<logBlock, head, lh, pc>>
      /\ stage' \in {stage, IF stage = "install" THEN "erase" ELSE "clear"}
  BY DEF install_trans, procVars
<1>2. /\ stage \in {"install", "reinstall"} /\ head = lh /\ b \in Range(lh)
      /\ stage = "install" => logBlock[tail + 1] = cache[b]
  BY InstallFacts
<1>3. /\ home \in [Blocks -> Values \cup {Blank}] /\ cache \in [Blocks -> Values \cup {Blank}]
  BY DEF Inv, TypeOK
<1>4. Durable' = Durable
  BY <1>1, <1>2, <1>3 DEF Durable
<1>5. Recovering' = Recovering /\ (Recovering <=> stage # "install")
  BY <1>1, <1>2 DEF Recovering
<1>6. stage = "install" => cache' = cache
  BY <1>1, <1>2, <1>3
<1> QED
  BY <1>1, <1>4, <1>5, <1>6 DEF Current, Active

\* Erasing the header changes neither, as every block is at its home.
LEMMA EraseHidden == ASSUME Inv, erase PROVE UNCHANGED <<Durable, Current, Active>>
<1>1. /\ stage \in {"erase", "clear"} /\ stage' \in {"finish", "none"}
      /\ head' = <<>> /\ UNCHANGED <<home, cache, pc>>
  BY DEF erase, procVars
<1>2. head = lh /\ installed = Len(lh) /\ (committing \/ Recovering)
  BY <1>1 DEF Inv, HeadOK, StageOK, installed, Recovering
<1>3. /\ home \in [Blocks -> Values \cup {Blank}] /\ cache \in [Blocks -> Values \cup {Blank}]
      /\ lh \in Seq(Blocks)
  BY DEF Inv, TypeOK
<1>4. Durable = home
  <2>1. ASSUME NEW b \in Blocks PROVE Durable[b] = home[b]
    <3>1. CASE b \in Range(head)
      <4>1. PICK i \in 1 .. Len(lh) : lh[i] = b
        BY <1>2, <1>3, <3>1, RangeFacts
      <4> QED
        BY <1>2, <4>1, DurableValue DEF Inv, BlocksOK
    <3> QED
      BY <3>1, DurableValue
  <2> QED
    BY <2>1, <1>3, DurableValue
<1>5. Durable' = home
  BY <1>1, <1>3, EmptyRange DEF Durable
<1>6. cache = home
  <2>1. dirty = {}
    BY <1>2, <1>3, RangeFacts DEF Inv, BlocksOK, CacheOK
  <2> QED
    BY <2>1, <1>2, <1>3, QuietCache
<1> QED
  BY <1>1, <1>4, <1>5, <1>6 DEF Current, Active, Recovering

\* What a crash tears is a block of a log that does not count yet, or a home that recovery
\* writes again.
LEMMA TornHidden == ASSUME Inv, crash PROVE Durable' = Durable
<1>1. head' = head
  BY DEF crash
<1>2. CASE UNCHANGED <<home, logBlock>>
  BY <1>1, <1>2 DEF Durable
<1>3. CASE stage = "write_log" /\ UNCHANGED home
  <2>1. head = <<>>
    BY <1>3 DEF Inv, HeadOK
  <2> QED
    BY <1>1, <1>3, <2>1, EmptyRange DEF Durable
<1>4. ASSUME stage \in {"install", "reinstall"}, UNCHANGED logBlock,
             NEW v, home' = [home EXCEPT ![lh[tail + 1]] = v]
      PROVE  Durable' = Durable
  <2>1. head = lh /\ tail < Len(lh) /\ tail \in Nat /\ lh \in Seq(Blocks)
    <3>1. TypeOK /\ StageOK /\ HeadOK
      BY DEF Inv
    <3>2. head = lh /\ tail < Len(lh)
      BY <1>4, <3>1 DEF HeadOK, StageOK
    <3>3. tail \in 0 .. LOGSIZE /\ LOGSIZE \in Nat /\ lh \in Seq(Blocks)
      BY <3>1, Constants DEF TypeOK
    <3> QED
      BY <3>2, <3>3
  <2>2. lh[tail + 1] \in Range(head)
    BY <2>1, RangeFacts
  <2>3. \A b \in Blocks : b \notin Range(head) => home'[b] = home[b]
    BY <1>4, <2>2 DEF Inv, TypeOK
  <2>4. \A b \in Blocks : Durable'[b] = Durable[b]
    BY <1>1, <1>4, <2>3 DEF Durable
  <2> QED
    BY <2>4 DEF Durable
<1>5. CASE torn
  BY <1>3, <1>4, <1>5 DEF torn
<1> QED
  BY <1>2, <1>5 DEF crash

\* Every step of the log is a step of the atomic disk, or changes nothing of it.
LEMMA NextRefines == ASSUME Inv, [Next]_vars PROVE [Atomic!DiskNext]_(Atomic!diskVars)
<1> USE DEF Atomic!diskVars
<1>0. /\ pc \in [Ops -> {"idle", "begin", "sleep", "run", "check", "append", "commit"}]
      /\ \A o \in Ops : o \in Active /\ ~Recovering => stage = "none" /\ ~committing
  BY CallRuns DEF Inv, TypeOK
<1>1. ASSUME NEW o \in Ops, begin_op(o)
      PROVE  Atomic!Begin(o) \/ UNCHANGED Atomic!diskVars
  <2>1. o \notin Active /\ (Active' = Active \/ Active' = Active \cup {o})
    BY <1>0, <1>1 DEF begin_op, At, Active
  <2>2. UNCHANGED <<Durable, Current>>
    BY <1>1 DEF begin_op, diskVars, Durable, Current, Recovering
  <2> QED
    BY <2>1, <2>2 DEF Atomic!Begin
<1>2. ASSUME NEW o \in Ops, NEW b \in Blocks, NEW v \in Values, modify(o, b, v)
      PROVE  Atomic!Write(o, b, v)
  <2>1. o \in Active /\ Active' = Active
    BY <1>0, <1>2 DEF modify, At, Active
  <2>2. Durable' = Durable
    BY <1>2 DEF modify, diskVars, Durable
  <2>3. Current = cache /\ Current' = cache' /\ cache' = [cache EXCEPT ![b] = v]
    BY <1>2 DEF modify, At, Current, Recovering
  <2> QED
    BY <2>1, <2>2, <2>3 DEF Atomic!Write
<1>3. ASSUME NEW o \in Ops, log_write_check(o) PROVE UNCHANGED Atomic!diskVars
  <2>1. Active' = Active
    BY <1>0, <1>3 DEF log_write_check, At, Active
  <2>2. UNCHANGED <<diskVars, cache, stage>>
    BY <1>3 DEF log_write_check, memVars
  <2> QED
    BY <2>1, <2>2 DEF diskVars, Durable, Current, Recovering
<1>4. ASSUME NEW o \in Ops, log_write(o) PROVE UNCHANGED Atomic!diskVars
  <2>1. Active' = Active
    BY <1>0, <1>4 DEF log_write, At, Active
  <2> QED
    BY <2>1, <1>4 DEF log_write, diskVars, Durable, Current, Recovering
<1>5. ASSUME NEW o \in Ops, end_op(o) PROVE Atomic!End(o)
  <2>1. o \in Active /\ ~Recovering /\ stage = "none" /\ ~committing
    BY <1>0, <1>5 DEF end_op, At, Active
  <2>2. Active' = Active \ {o}
    BY <1>0, <1>5, <2>1 DEF end_op, At, Active, Woken
  <2>3. ~Recovering'
    BY <1>5, <2>1 DEF end_op, Recovering
  <2>4. cache' = cache /\ Durable' = Durable
    BY <1>5 DEF end_op, Durable, diskVars
  <2> QED
    BY <2>1, <2>2, <2>3, <2>4 DEF Atomic!End, Current
<1>6. ASSUME NEW o \in Ops, finish(o) PROVE UNCHANGED Atomic!diskVars
  <2>1. Active' = Active
    BY <1>0, <1>6 DEF finish, At, Active, Woken
  <2> QED
    BY <2>1, <1>6 DEF finish, At, diskVars, Durable, Current, Recovering
<1>7. ASSUME write_log PROVE UNCHANGED Atomic!diskVars
  <2>1. head = <<>> /\ head' = <<>> /\ home' = home /\ cache' = cache /\ pc' = pc
    BY <1>7 DEF write_log, procVars, Inv, HeadOK
  <2>2. Durable' = Durable
    BY <2>1, EmptyRange DEF Durable
  <2>3. ~Recovering /\ ~Recovering'
    BY <1>7 DEF write_log, Recovering
  <2> QED
    BY <2>1, <2>2, <2>3 DEF Current, Active
<1>8. CASE write_head
  BY <1>8, WriteHeadCommits DEF Atomic!DiskNext
<1>9. CASE install_trans
  BY <1>9, InstallHidden
<1>10. CASE erase
  BY <1>10, EraseHidden
<1>11. ASSUME read_head PROVE UNCHANGED Atomic!diskVars
  BY <1>11 DEF read_head, diskVars, procVars, Durable, Current, Recovering, Active
<1>12. ASSUME UNCHANGED vars PROVE UNCHANGED Atomic!diskVars
  BY <1>12 DEF vars, diskVars, memVars, procVars, Durable, Current, Recovering, Active
<1>13. ASSUME NEW b \in Blocks, bget_recycle(b) PROVE UNCHANGED Atomic!diskVars
  BY <1>12, <1>13, Recycled
<1>14. ASSUME crash PROVE Atomic!Crash
  <2>1. Durable' = Durable /\ Active' = {}
    BY <1>14, TornHidden DEF crash, Active
  <2>2. Current' = Durable'
    BY <1>14 DEF crash, Current, Recovering
  <2> QED
    BY <2>1, <2>2 DEF Atomic!Crash
<1> QED
  BY <1>1, <1>2, <1>3, <1>4, <1>5, <1>6, <1>7, <1>8, <1>9, <1>10, <1>11, <1>12, <1>13, <1>14
  DEF Next, CommitStep, Atomic!DiskNext

\* log.c:1-22: a crash at any point, in recovery too, leaves on the disk the state of the
\* last commit: no call is ever half on the disk, for every number of processes and blocks
\* and every size of the log.
THEOREM LogIsAtomic == Spec => ImplementsAtomicDisk
<1>1. Init => Atomic!DiskInit
  BY InitRefines
<1>2. Inv /\ [Next]_vars => [Atomic!DiskNext]_(Atomic!diskVars)
  BY NextRefines
<1> QED
  BY <1>1, <1>2, InvAlways, PTL DEF Spec, ImplementsAtomicDisk, Atomic!DiskSpec
=============================================================================
