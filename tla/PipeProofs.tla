----------------------------- MODULE PipeProofs -----------------------------
(***************************************************************************)
(* For every number of writers and readers, every size of the pipe and of  *)
(* what is written, and across the wrap-around of the counters: nobody      *)
(* sleeps on a pipe without a reason, the pipe is freed by the last to      *)
(* close it, and it implements the byte stream.                             *)
(***************************************************************************)
EXTENDS Pipe, SequenceTheorems, TLAPS

\* The lock is held between two steps exactly by a process that is about to sleep, a
\* process in a call has its end open, and the flags of the pipe say which ends are.
HoldersOK ==
    /\ \A p \in Procs : pc[p] = "sleepy" <=> lock = p
    /\ \A p \in Procs : pc[p] # "idle" => p \in open
    /\ readopen <=> open \cap Readers # {}
    /\ writeopen <=> open \cap Writers # {}

Inv == TypeOK /\ NoLostWakeup /\ FreedLast /\ HoldersOK

-----------------------------------------------------------------------------
(* Arithmetic modulo n. *)

\* A number is its quotient times n, and the remainder, which is below n.
LEMMA Remainder ==
  ASSUME NEW n \in Nat \ {0}, NEW x \in Int
  PROVE  x % n \in 0 .. n - 1 /\ x \div n \in Int /\ x = n * (x \div n) + (x % n)
  OBVIOUS

\* There is only one such remainder.
LEMMA RemainderUnique ==
  ASSUME NEW n \in Nat \ {0}, NEW q \in Int, NEW r \in 0 .. n - 1
  PROVE  (n * q + r) % n = r
  OBVIOUS

\* A multiple of n does not change the remainder.
LEMMA AddMultiple ==
  ASSUME NEW n \in Nat \ {0}, NEW x \in Int, NEW k \in Int
  PROVE  (x + n * k) % n = x % n
<1>1. x % n \in 0 .. n - 1 /\ x \div n \in Int /\ x = n * (x \div n) + (x % n)
  BY Remainder
<1>2. n * (x \div n) + n * k = n * ((x \div n) + k) /\ (x \div n) + k \in Int
  BY <1>1
<1>3. x + n * k = n * ((x \div n) + k) + (x % n)
  BY <1>1, <1>2
<1> QED
  BY <1>1, <1>2, <1>3, RemainderUnique

\* The remainders of numbers close to 0 .. n - 1.
LEMMA SmallRemainder ==
  ASSUME NEW n \in Nat \ {0}, NEW x \in Int
  PROVE  /\ 0 <= x /\ x < n => x % n = x
         /\ n <= x /\ x < 2 * n => x % n = x - n
         /\ 0 - n <= x /\ x < 0 => x % n = x + n
  OBVIOUS

\* A remainder may be taken at once or later, also of what is subtracted.
LEMMA RemainderLater ==
  ASSUME NEW n \in Nat \ {0}, NEW x \in Int, NEW y \in Int
  PROVE  ((x % n) + y) % n = (x + y) % n /\ (y - (x % n)) % n = (y - x) % n
<1> DEFINE r == x % n
           q == x \div n
<1>1. r \in Int /\ q \in Int /\ x = n * q + r
  BY Remainder
<1> HIDE DEF r, q
<1>2. n * q \in Int /\ n * (0 - q) = 0 - n * q /\ r + y \in Int /\ y - r \in Int /\ 0 - q \in Int
  BY <1>1
<1>3. x + y = (r + y) + n * q /\ y - x = (y - r) + n * (0 - q)
  BY <1>1, <1>2
<1>4. ((r + y) + n * q) % n = (r + y) % n
  BY <1>1, <1>2, AddMultiple, Zenon
<1>5. ((y - r) + n * (0 - q)) % n = (y - r) % n
  BY <1>2, AddMultiple, Zenon
<1> QED
  BY <1>3, <1>4, <1>5 DEF r

-----------------------------------------------------------------------------
(* The counters. *)

\* What the assumption says of the sizes.
LEMMA Sizes == /\ PIPESIZE \in Nat \ {0} /\ UintRange \in Nat \ {0} /\ PIPESIZE < UintRange
               /\ \E k \in Int : UintRange = PIPESIZE * k
<1>1. PIPESIZE \in Nat \ {0}
  BY PipeAssumption
<1>2. PICK k \in 2 .. UintRange : UintRange = k * PIPESIZE
  BY PipeAssumption
<1>3. UintRange \in Int
  BY <1>1, <1>2
<1>4. k * PIPESIZE = PIPESIZE * k /\ k * PIPESIZE >= 2 * PIPESIZE
  BY <1>1, <1>2, <1>3
<1> QED
  BY <1>1, <1>2, <1>3, <1>4

\* The count, and where the pipe's end is, for a counter r that reads and w that writes.
LEMMA CountIs ==
  ASSUME NEW r \in 0 .. UintRange - 1, NEW w \in 0 .. UintRange - 1
  PROVE  /\ (w - r) % UintRange \in 0 .. UintRange - 1
         /\ \/ w = r + ((w - r) % UintRange)
            \/ w = r + ((w - r) % UintRange) - UintRange
<1> DEFINE c == (w - r) % UintRange
<1>1. UintRange \in Nat \ {0} /\ w - r \in Int
  BY Sizes
<1>2. /\ 0 <= w - r /\ w - r < UintRange => c = w - r
      /\ 0 - UintRange <= w - r /\ w - r < 0 => c = w - r + UintRange
  BY <1>1, SmallRemainder, Zenon
<1>3. c \in 0 .. UintRange - 1
  BY <1>1, Remainder, Zenon
<1> HIDE DEF c
<1>4. w = r + c \/ w = r + c - UintRange
  <2>1. 0 - UintRange <= w - r /\ w - r < UintRange
    BY <1>1
  <2>2. c = w - r \/ c = w - r + UintRange
    BY <1>1, <1>2, <2>1
  <2> QED
    BY <1>1, <1>3, <2>2
<1> QED
  BY <1>3, <1>4, Zenon DEF c

\* Writing k bytes adds k to the count, also when the counter wraps around.
LEMMA CountAdded ==
  ASSUME NEW r \in 0 .. UintRange - 1, NEW w \in 0 .. UintRange - 1, NEW k \in Nat,
         ((w - r) % UintRange) + k < UintRange
  PROVE  /\ (w + k) % UintRange \in 0 .. UintRange - 1
         /\ (((w + k) % UintRange) - r) % UintRange = ((w - r) % UintRange) + k
<1> DEFINE U == UintRange
           c == (w - r) % U
           d == (w + k) % U
<1>1. /\ U \in Nat \ {0} /\ r \in Int /\ w \in Int /\ k \in Int /\ 0 - r \in Int
      /\ w + k \in Int /\ w - r \in Int
  BY Sizes
<1> HIDE DEF U
<1>2. c \in 0 .. U - 1 /\ d \in 0 .. U - 1
  BY <1>1, Remainder, Zenon
<1>3. (d + (0 - r)) % U = ((w + k) + (0 - r)) % U
  BY <1>1, RemainderLater, Zenon
<1>4. (c + k) % U = ((w - r) + k) % U
  BY <1>1, RemainderLater, Zenon
<1>5. c + k < U
  BY DEF U
<1> HIDE DEF c, d
<1>6. (w + k) + (0 - r) = (w - r) + k /\ d + (0 - r) = d - r /\ c + k \in Int /\ 0 <= c + k
  BY <1>1, <1>2
<1>7. (c + k) % U = c + k
  BY <1>1, <1>5, <1>6, SmallRemainder, Zenon
<1>8. (d - r) % U = c + k
  BY <1>3, <1>4, <1>6, <1>7, Zenon
<1> QED
  BY <1>2, <1>8, Zenon DEF U, c, d

\* Reading k bytes takes k from the count.
LEMMA CountTaken ==
  ASSUME NEW r \in 0 .. UintRange - 1, NEW w \in 0 .. UintRange - 1, NEW k \in Nat,
         k <= (w - r) % UintRange
  PROVE  /\ (r + k) % UintRange \in 0 .. UintRange - 1
         /\ (w - ((r + k) % UintRange)) % UintRange = ((w - r) % UintRange) - k
<1> DEFINE U == UintRange
           c == (w - r) % U
           d == (r + k) % U
<1>1. /\ U \in Nat \ {0} /\ r \in Int /\ w \in Int /\ k \in Int /\ 0 - k \in Int
      /\ r + k \in Int /\ w - r \in Int
  BY Sizes
<1> HIDE DEF U
<1>2. c \in 0 .. U - 1 /\ d \in 0 .. U - 1
  BY <1>1, Remainder, Zenon
<1>3. (w - d) % U = (w - (r + k)) % U
  BY <1>1, RemainderLater, Zenon
<1>4. (c + (0 - k)) % U = ((w - r) + (0 - k)) % U
  BY <1>1, RemainderLater, Zenon
<1>5. k <= c
  BY DEF U
<1> HIDE DEF c, d
<1>6. /\ w - (r + k) = (w - r) + (0 - k) /\ c + (0 - k) = c - k /\ c - k \in Int
      /\ 0 <= c - k /\ c - k < U
  <2>1. c \in Int /\ 0 <= c /\ c < U
    BY <1>1, <1>2
  <2> QED
    BY <1>1, <1>5, <2>1
<1>7. (c - k) % U = c - k
  BY <1>1, <1>6, SmallRemainder, Zenon
<1>8. (w - d) % U = c - k
  BY <1>3, <1>4, <1>6, <1>7, Zenon
<1> QED
  BY <1>2, <1>8, Zenon DEF U, c, d

-----------------------------------------------------------------------------
(* The invariant. *)

\* What the type invariant says of the counters.
LEMMA Counters ==
  ASSUME TypeOK
  PROVE  /\ nread \in 0 .. UintRange - 1 /\ nwrite \in 0 .. UintRange - 1
         /\ Count \in 0 .. PIPESIZE /\ Count \in Nat /\ Count < UintRange
<1>1. nread \in 0 .. UintRange - 1 /\ nwrite \in 0 .. UintRange - 1 /\ Count <= PIPESIZE
  BY DEF TypeOK
<1>2. Count \in 0 .. UintRange - 1
  BY <1>1, CountIs, Zenon DEF Count
<1> QED
  BY <1>1, <1>2, Sizes

\* A new pipe is empty, and open at both ends.
LEMMA InitInv == Init => Inv
<1> SUFFICES ASSUME Init PROVE Inv
  OBVIOUS
<1>1. Count = 0
  <2>1. nwrite - nread = 0 /\ nwrite - nread \in Int
    BY DEF Init
  <2>2. UintRange \in Nat \ {0} /\ 0 < UintRange /\ 0 <= 0 /\ 0 \in Int
    BY Sizes
  <2>3. 0 % UintRange = 0
    BY <2>2, SmallRemainder, Zenon
  <2> QED
    BY <2>1, <2>3, Zenon DEF Count
<1>2. TypeOK
  <2>1. data \in [0 .. PIPESIZE - 1 -> Bytes] /\ todo \in [Writers -> Seq(Bytes)]
    BY PipeAssumption DEF Init
  <2>2. nread \in 0 .. UintRange - 1 /\ nwrite \in 0 .. UintRange - 1 /\ Count <= PIPESIZE
    BY <1>1, Sizes DEF Init
  <2>3. /\ pc \in [Procs -> {"idle", "sleepy", "asleep", "loop"}] /\ open \subseteq Procs
        /\ {readopen, writeopen, freed} \subseteq BOOLEAN /\ lock = NoProc /\ killed = {}
    BY DEF Init
  <2> QED
    BY <2>1, <2>2, <2>3 DEF TypeOK
<1>3. NoLostWakeup /\ FreedLast /\ HoldersOK
  BY PipeAssumption DEF Init, NoLostWakeup, FreedLast, HoldersOK, Procs
<1> QED
  BY <1>2, <1>3 DEF Inv

\* A system call begins.
LEMMA CallBegins ==
  ASSUME Inv, NEW p \in Procs, pc[p] = "idle", p \in open,
         pc' = [pc EXCEPT ![p] = "loop"], todo' \in [Writers -> Seq(Bytes)],
         UNCHANGED <<pipeVars, lock, open, killed>>
  PROVE  Inv'
<1>1. Count' = Count /\ UNCHANGED <<data, nread, nwrite, readopen, writeopen, freed>>
  BY DEF Count, pipeVars
<1>2. pc \in [Procs -> {"idle", "sleepy", "asleep", "loop"}]
  BY DEF Inv, TypeOK
<1>3. TypeOK'
  <2>1. pc' \in [Procs -> {"idle", "sleepy", "asleep", "loop"}]
    BY <1>2
  <2> QED
    BY <2>1, <1>1 DEF Inv, TypeOK
<1>4. NoLostWakeup' /\ FreedLast'
  BY <1>1, <1>2 DEF Inv, NoLostWakeup, FreedLast
<1>5. HoldersOK'
  BY <1>1, <1>2 DEF Inv, HoldersOK
<1> QED
  BY <1>3, <1>4, <1>5 DEF Inv

\* How many bytes one turn of pipewrite() stores, and why it stops there.
LEMMA WriteCounts ==
  ASSUME Inv, NEW p \in Writers, pipewrite(p), NEW k, k = Least(room, Len(todo[p]))
  PROVE  /\ k \in Nat /\ k <= Len(todo[p]) /\ Count' = Count + k /\ Count' <= PIPESIZE
         /\ nwrite' \in 0 .. UintRange - 1 /\ todo[p] \in Seq(Bytes) /\ Len(todo[p]) \in Nat
         /\ k < Len(todo[p]) => Count' = PIPESIZE
         /\ Count = PIPESIZE => k = 0
<1>1. nread \in 0 .. UintRange - 1 /\ nwrite \in 0 .. UintRange - 1
  BY Counters DEF Inv
<1>2. Count \in 0 .. PIPESIZE /\ PIPESIZE \in Nat /\ PIPESIZE < UintRange /\ UintRange \in Nat
  BY Counters, Sizes DEF Inv
<1>3. todo[p] \in Seq(Bytes) /\ Len(todo[p]) \in Nat
  <2>1. todo \in [Writers -> Seq(Bytes)]
    BY DEF Inv, TypeOK
  <2> QED
    BY <2>1
<1>4. /\ k \in Nat /\ k <= Len(todo[p]) /\ Count + k <= PIPESIZE /\ Count + k < UintRange
      /\ k < Len(todo[p]) => Count + k = PIPESIZE
      /\ Count = PIPESIZE => k = 0
  BY <1>2, <1>3 DEF Least, room
<1>5. nwrite' = (nwrite + k) % UintRange /\ nread' = nread
  BY DEF pipewrite
<1>6. nwrite' \in 0 .. UintRange - 1 /\ Count' = Count + k
  BY <1>1, <1>4, <1>5, CountAdded, Zenon DEF Count
<1> QED
  BY <1>3, <1>4, <1>6

\* A writer stores what fits; it sleeps only if the pipe is full and has a reader.
LEMMA PipeWrite == ASSUME Inv, NEW p \in Writers, pipewrite(p) PROVE Inv'
<1> DEFINE s == todo[p]
           k == Least(room, Len(s))
           giveUp == k < Len(s) /\ (~readopen \/ p \in killed)
           goSleep == k < Len(s) /\ ~giveUp
<1>1. /\ pc[p] = "loop" /\ lock = NoProc /\ data' = stored(s, k)
      /\ todo' = [todo EXCEPT ![p] = IF goSleep THEN SubSeq(s, k + 1, Len(s)) ELSE <<>>]
      /\ lock' = IF goSleep THEN p ELSE NoProc
      /\ pc' = [(IF giveUp THEN pc ELSE readersWoken)
                  EXCEPT ![p] = IF goSleep THEN "sleepy" ELSE "idle"]
      /\ UNCHANGED <<nread, readopen, writeopen, freed, open, killed>>
  BY DEF pipewrite
<1>2. /\ k \in Nat /\ k <= Len(s) /\ Count' = Count + k /\ Count' <= PIPESIZE
      /\ nwrite' \in 0 .. UintRange - 1 /\ s \in Seq(Bytes) /\ Len(s) \in Nat
      /\ k < Len(s) => Count' = PIPESIZE
      /\ Count = PIPESIZE => k = 0
  BY WriteCounts
<1>3. /\ TypeOK /\ NoLostWakeup /\ FreedLast /\ HoldersOK
      /\ pc \in [Procs -> {"idle", "sleepy", "asleep", "loop"}]
      /\ p \in Procs /\ p \notin Readers /\ NoProc \notin Procs
  BY PipeAssumption DEF Inv, TypeOK, Procs
<1>4. Count \in Nat /\ nread \in 0 .. UintRange - 1
  BY <1>3, Counters
<1> HIDE DEF k
<1>5. TypeOK'
  <2>1. data' \in [0 .. PIPESIZE - 1 -> Bytes]
    <3>1. ASSUME NEW i \in 0 .. PIPESIZE - 1 PROVE stored(s, k)[i] \in Bytes
      <4> DEFINE j == (i - nwrite) % PIPESIZE
      <4>1. i - nwrite \in Int /\ PIPESIZE \in Nat \ {0}
        BY <1>3, Counters, Sizes
      <4>2. j \in 0 .. PIPESIZE - 1
        BY <4>1, Remainder, Zenon
      <4>3. stored(s, k)[i] = IF j < k THEN s[j + 1] ELSE data[i]
        BY DEF stored
      <4> HIDE DEF j
      <4>4. j < k => s[j + 1] \in Bytes
        BY <4>1, <4>2, <1>2
      <4>5. data[i] \in Bytes
        BY <1>3 DEF TypeOK
      <4> QED
        BY <4>3, <4>4, <4>5
    <3>2. stored(s, k) = [i \in 0 .. PIPESIZE - 1 |-> stored(s, k)[i]]
      BY DEF stored
    <3> QED
      BY <1>1, <3>1, <3>2
  <2>2. todo' \in [Writers -> Seq(Bytes)]
    <3>1. SubSeq(s, k + 1, Len(s)) \in Seq(Bytes) /\ <<>> \in Seq(Bytes)
      BY <1>2
    <3>2. todo \in [Writers -> Seq(Bytes)]
      BY <1>3 DEF TypeOK
    <3> QED
      BY <1>1, <3>1, <3>2
  <2>3. pc' \in [Procs -> {"idle", "sleepy", "asleep", "loop"}] /\ lock' \in Procs \cup {NoProc}
    BY <1>1, <1>3 DEF readersWoken, wakeup
  <2>4. {nread', nwrite'} \subseteq 0 .. UintRange - 1
    BY <1>1, <1>2, <1>4
  <2> QED
    BY <1>1, <1>2, <1>3, <2>1, <2>2, <2>3, <2>4 DEF TypeOK
<1>6. \A q \in Procs : pc[q] # "sleepy"
  BY <1>1, <1>3 DEF HoldersOK
<1>7. NoLostWakeup'
  <2> SUFFICES ASSUME NEW q \in Procs, pc'[q] \in {"sleepy", "asleep"}
               PROVE  (IF q \in Writers THEN Count = PIPESIZE /\ readopen
                       ELSE writeopen /\ (Writers \cap killed = {} => Count = 0))'
    BY DEF NoLostWakeup
  <2>1. CASE q = p
    <3>1. goSleep
      BY <2>1, <1>1, <1>3 DEF readersWoken, wakeup
    <3> QED
      BY <2>1, <3>1, <1>1, <1>2
  <2>2. CASE q # p /\ q \in Writers
    <3>1. pc[q] = "asleep"
      <4>1. q \notin Readers
        BY <2>2, PipeAssumption
      <4> QED
        BY <2>2, <4>1, <1>1, <1>3, <1>6 DEF readersWoken, wakeup
    <3>2. Count = PIPESIZE /\ readopen
      BY <2>2, <3>1, <1>3 DEF NoLostWakeup
    <3>3. Count' = PIPESIZE
      BY <3>2, <1>2, <1>4
    <3> QED
      BY <2>2, <3>2, <3>3, <1>1
  <2>3. CASE q \notin Writers
    <3>1. q \in Readers /\ q # p
      BY <2>3 DEF Procs
    <3>2. giveUp /\ pc[q] = "asleep"
      <4> HIDE DEF giveUp, goSleep
      <4>1. pc'[q] = (IF giveUp THEN pc ELSE readersWoken)[q]
        BY <3>1, <1>1, <1>3 DEF readersWoken, wakeup
      <4> QED
        BY <3>1, <4>1, <1>3, <1>6 DEF readersWoken, wakeup
    <3>3. writeopen /\ readopen
      BY <2>3, <3>1, <3>2, <1>3 DEF NoLostWakeup, HoldersOK
    <3>4. p \in killed
      BY <3>2, <3>3
    <3> QED
      BY <2>3, <3>3, <3>4, <1>1
  <2> QED
    BY <2>1, <2>2, <2>3
<1>8. FreedLast'
  BY <1>1, <1>3 DEF FreedLast
<1>9. HoldersOK'
  <2>1. p \in open
    BY <1>1, <1>3 DEF HoldersOK
  <2>2. \A q \in Procs : q # p => pc'[q] # "sleepy" /\ (pc'[q] # "idle" => pc[q] # "idle")
    BY <1>1, <1>3, <1>6 DEF readersWoken, wakeup
  <2>3. pc'[p] = "sleepy" <=> goSleep
    BY <1>1, <1>3 DEF readersWoken, wakeup
  <2>4. \A q \in Procs : lock' = q <=> goSleep /\ q = p
    BY <1>1, <1>3
  <2> HIDE DEF goSleep
  <2>5. \A q \in Procs : pc'[q] = "sleepy" <=> lock' = q
    BY <2>2, <2>3, <2>4
  <2>6. \A q \in Procs : pc'[q] # "idle" => q \in open
    BY <2>1, <2>2, <1>3 DEF HoldersOK
  <2> QED
    BY <2>5, <2>6, <1>1, <1>3 DEF HoldersOK
<1> QED
  BY <1>5, <1>7, <1>8, <1>9 DEF Inv

\* How many bytes piperead() takes.
LEMMA ReadCounts ==
  ASSUME Inv, NEW n \in Nat, NEW k, k = Least(n, Count),
         nread' = (nread + k) % UintRange, nwrite' = nwrite
  PROVE  /\ k \in Nat /\ k <= Count /\ k <= n /\ Count' = Count - k
         /\ nread' \in 0 .. UintRange - 1
         /\ k = 0 => n = 0 \/ Count = 0
<1>1. nread \in 0 .. UintRange - 1 /\ nwrite \in 0 .. UintRange - 1
  BY Counters DEF Inv
<1>2. Count \in Nat
  BY Counters DEF Inv
<1>3. k \in Nat /\ k <= Count /\ k <= n /\ (k = 0 => n = 0 \/ Count = 0)
  BY <1>2 DEF Least
<1>4. nread' \in 0 .. UintRange - 1 /\ Count' = Count - k
  BY <1>1, <1>3, CountTaken, Zenon DEF Count
<1> QED
  BY <1>3, <1>4

\* A reader sleeps only on an empty pipe that has a writer, and one that takes bytes
\* leaves no writer asleep.
LEMMA PipeRead == ASSUME Inv, NEW p \in Readers, NEW n \in Nat, piperead(p, n) PROVE Inv'
<1>1. /\ pc[p] = "loop" /\ lock = NoProc
      /\ UNCHANGED <<data, nwrite, readopen, writeopen, freed, todo, open, killed>>
  BY DEF piperead
<1>2. /\ TypeOK /\ NoLostWakeup /\ FreedLast /\ HoldersOK
      /\ pc \in [Procs -> {"idle", "sleepy", "asleep", "loop"}]
      /\ p \in Procs /\ p \notin Writers /\ NoProc \notin Procs
  BY PipeAssumption DEF Inv, TypeOK, Procs
<1>3. Count \in Nat /\ PIPESIZE \in Nat /\ nread \in 0 .. UintRange - 1 /\ Count <= PIPESIZE
  BY <1>2, Counters, Sizes
<1>4. \A q \in Procs : pc[q] # "sleepy"
  BY <1>1, <1>2 DEF HoldersOK
<1>5. FreedLast' /\ p \in open
  BY <1>1, <1>2 DEF FreedLast, HoldersOK
<1>6. CASE Count = 0 /\ writeopen
  <2>1. /\ pc' = [pc EXCEPT ![p] = IF p \in killed THEN "idle" ELSE "sleepy"]
        /\ lock' = IF p \in killed THEN NoProc ELSE p
        /\ nread' = nread
    BY <1>6 DEF piperead
  <2>2. Count' = Count
    BY <2>1, <1>1 DEF Count
  <2>3. TypeOK'
    <3>1. pc' \in [Procs -> {"idle", "sleepy", "asleep", "loop"}] /\ lock' \in Procs \cup {NoProc}
      BY <1>2, <2>1
    <3> QED
      BY <1>1, <1>2, <2>1, <2>2, <3>1 DEF TypeOK
  <2>4. NoLostWakeup'
    BY <1>1, <1>2, <1>6, <2>1, <2>2 DEF NoLostWakeup
  <2>5. HoldersOK'
    BY <1>1, <1>2, <1>4, <1>5, <2>1 DEF HoldersOK
  <2> QED
    BY <1>5, <2>3, <2>4, <2>5 DEF Inv
<1>7. CASE ~(Count = 0 /\ writeopen)
  <2> DEFINE k == Least(n, Count)
  <2>1. /\ nread' = (nread + k) % UintRange /\ pc' = [writersWoken EXCEPT ![p] = "idle"]
        /\ lock' = lock
    BY <1>7 DEF piperead
  <2>2. k \in Nat /\ k <= Count /\ Count' = Count - k /\ nread' \in 0 .. UintRange - 1
    BY <1>1, <2>1, ReadCounts
  <2> HIDE DEF k
  <2>3. TypeOK'
    <3>1. pc' \in [Procs -> {"idle", "sleepy", "asleep", "loop"}]
      BY <1>2, <2>1 DEF writersWoken, wakeup
    <3>2. {nread', nwrite'} \subseteq 0 .. UintRange - 1
      BY <1>1, <1>2, <2>2 DEF TypeOK
    <3>3. Count' <= PIPESIZE
      BY <1>3, <2>2
    <3> QED
      BY <1>1, <1>2, <2>1, <3>1, <3>2, <3>3 DEF TypeOK
  <2>4. ASSUME NEW q \in Procs, pc'[q] \in {"sleepy", "asleep"}
        PROVE  q \notin Writers /\ pc[q] = "asleep"
    BY <1>2, <1>4, <2>1, <2>4 DEF writersWoken, wakeup
  <2>5. NoLostWakeup'
    <3> SUFFICES ASSUME NEW q \in Procs, pc'[q] \in {"sleepy", "asleep"}
                 PROVE  writeopen /\ Writers \cap killed # {}
      BY <2>4, <1>1 DEF NoLostWakeup
    <3>1. writeopen /\ (Writers \cap killed = {} => Count = 0)
      BY <2>4, <1>2 DEF NoLostWakeup
    <3> QED
      BY <3>1, <1>7
  <2>6. HoldersOK'
    <3>1. \A q \in Procs : pc'[q] # "sleepy" /\ (pc'[q] # "idle" => pc[q] # "idle")
      BY <1>2, <1>4, <2>1 DEF writersWoken, wakeup
    <3> QED
      BY <3>1, <1>1, <1>2, <2>1 DEF HoldersOK
  <2> QED
    BY <1>5, <2>3, <2>5, <2>6 DEF Inv
<1> QED
  BY <1>6, <1>7

\* sleep() gives the lock back.
LEMMA Sleep == ASSUME Inv, NEW p \in Procs, sleep(p) PROVE Inv'
<1>1. /\ pc[p] = "sleepy" /\ pc' = [pc EXCEPT ![p] = "asleep"] /\ lock' = NoProc
      /\ UNCHANGED <<data, nread, nwrite, readopen, writeopen, freed, todo, open, killed>>
      /\ Count' = Count
  BY DEF sleep, pipeVars, Count
<1>2. /\ TypeOK /\ NoLostWakeup /\ FreedLast /\ HoldersOK
      /\ pc \in [Procs -> {"idle", "sleepy", "asleep", "loop"}] /\ NoProc \notin Procs
  BY PipeAssumption DEF Inv, TypeOK
<1>3. TypeOK'
  <2>1. pc' \in [Procs -> {"idle", "sleepy", "asleep", "loop"}]
    BY <1>1, <1>2
  <2> QED
    BY <2>1, <1>1, <1>2 DEF TypeOK
<1>4. NoLostWakeup' /\ FreedLast'
  BY <1>1, <1>2 DEF NoLostWakeup, FreedLast
<1>5. HoldersOK'
  BY <1>1, <1>2 DEF HoldersOK
<1> QED
  BY <1>3, <1>4, <1>5 DEF Inv

\* kill() wakes its victim and touches nothing of the pipe.
LEMMA Kill == ASSUME Inv, NEW p \in Procs, kill(p) PROVE Inv'
<1>1. /\ p \in Killable /\ killed' = killed \cup {p} /\ pc' = wakeup({p})
      /\ UNCHANGED <<data, nread, nwrite, readopen, writeopen, freed, lock, todo, open>>
      /\ Count' = Count
  BY DEF kill, pipeVars, Count
<1>2. /\ TypeOK /\ NoLostWakeup /\ FreedLast /\ HoldersOK
      /\ pc \in [Procs -> {"idle", "sleepy", "asleep", "loop"}]
  BY DEF Inv, TypeOK
<1>3. \A q \in Procs : /\ pc'[q] \in {"idle", "sleepy", "asleep", "loop"}
                       /\ pc'[q] \in {"sleepy", "asleep"} => pc[q] = pc'[q]
                       /\ pc'[q] = "sleepy" <=> pc[q] = "sleepy"
                       /\ pc'[q] # "idle" => pc[q] # "idle"
  BY <1>1, <1>2 DEF wakeup
<1>4. TypeOK'
  <2>1. pc' \in [Procs -> {"idle", "sleepy", "asleep", "loop"}]
    BY <1>1, <1>3 DEF wakeup
  <2>2. killed' \subseteq Killable
    BY <1>1, <1>2 DEF TypeOK
  <2> QED
    BY <2>1, <2>2, <1>1, <1>2 DEF TypeOK
<1>5. NoLostWakeup' /\ FreedLast'
  BY <1>1, <1>2, <1>3 DEF NoLostWakeup, FreedLast
<1>6. HoldersOK'
  BY <1>1, <1>2, <1>3 DEF HoldersOK
<1> QED
  BY <1>4, <1>5, <1>6 DEF Inv

\* The last to close an end wakes those who sleep at the other one.
LEMMA PipeClose == ASSUME Inv, NEW p \in Procs, pipeclose(p) PROVE Inv'
<1> DEFINE side == IF p \in Writers THEN Writers ELSE Readers
           last == open \cap side = {p}
<1>1. /\ pc[p] = "idle" /\ p \in open /\ lock = NoProc /\ open' = open \ {p}
      /\ writeopen' = (writeopen /\ ~(last /\ side = Writers))
      /\ readopen' = (readopen /\ ~(last /\ side = Readers))
      /\ pc' = CASE last /\ side = Writers -> readersWoken
               [] last /\ side = Readers -> writersWoken
               [] OTHER -> pc
      /\ freed' = (~readopen' /\ ~writeopen')
      /\ UNCHANGED <<data, nread, nwrite, lock, todo, killed>>
      /\ Count' = Count
  BY DEF pipeclose, bothClosed, Count
<1>2. /\ TypeOK /\ NoLostWakeup /\ FreedLast /\ HoldersOK
      /\ pc \in [Procs -> {"idle", "sleepy", "asleep", "loop"}]
  BY DEF Inv, TypeOK
<1>3. /\ Writers \cap Readers = {} /\ Writers # {} /\ Readers # {} /\ Writers # Readers
      /\ p \in Writers => side = Writers
      /\ p \notin Writers => side = Readers /\ p \in Readers
      /\ NoProc \notin Procs
  BY PipeAssumption DEF Procs
<1>4. \A q \in Procs : pc[q] # "sleepy"
  BY <1>1, <1>2, <1>3 DEF HoldersOK
<1>5. /\ writeopen' <=> open' \cap Writers # {}
      /\ readopen' <=> open' \cap Readers # {}
  <2>1. CASE p \in Writers
    <3>1. side = Writers /\ side # Readers /\ p \notin Readers
      BY <2>1, <1>3
    <3>2. readopen' <=> readopen
      BY <3>1, <1>1
    <3>3. writeopen' <=> writeopen /\ open \cap Writers # {p}
      BY <3>1, <1>1
    <3> QED
      BY <3>1, <3>2, <3>3, <1>1, <1>2, <2>1 DEF HoldersOK
  <2>2. CASE p \notin Writers
    <3>1. side = Readers /\ side # Writers /\ p \in Readers
      BY <2>2, <1>3
    <3>2. writeopen' <=> writeopen
      BY <3>1, <1>1
    <3>3. readopen' <=> readopen /\ open \cap Readers # {p}
      BY <3>1, <1>1
    <3> QED
      BY <3>1, <3>2, <3>3, <1>1, <1>2, <2>2 DEF HoldersOK
  <2> QED
    BY <2>1, <2>2
<1>6. FreedLast'
  BY <1>1, <1>2, <1>5 DEF FreedLast, TypeOK, Procs
<1>7. /\ pc' \in [Procs -> {"idle", "sleepy", "asleep", "loop"}]
      /\ \A q \in Procs : pc'[q] # "sleepy" /\ (pc'[q] # "idle" => pc[q] # "idle")
      /\ \A q \in Procs : pc'[q] = "asleep" => pc[q] = "asleep"
  BY <1>1, <1>2, <1>4 DEF readersWoken, writersWoken, wakeup
<1>8. TypeOK'
  <2>1. {readopen', writeopen', freed'} \subseteq BOOLEAN
    BY <1>1, <1>2 DEF TypeOK
  <2>2. open' \subseteq Procs
    BY <1>1, <1>2 DEF TypeOK
  <2> QED
    BY <1>1, <1>2, <1>7, <2>1, <2>2 DEF TypeOK
<1>9. NoLostWakeup'
  <2> SUFFICES ASSUME NEW q \in Procs, pc'[q] = "asleep"
               PROVE  (IF q \in Writers THEN Count = PIPESIZE /\ readopen
                       ELSE writeopen /\ (Writers \cap killed = {} => Count = 0))'
    BY <1>7 DEF NoLostWakeup
  <2>1. CASE q \in Writers
    <3>1. Count = PIPESIZE /\ readopen
      BY <2>1, <1>2, <1>7 DEF NoLostWakeup
    <3>2. ~(last /\ side = Readers)
      BY <2>1, <1>1, <1>2, <1>3 DEF writersWoken, wakeup
    <3> QED
      BY <2>1, <3>1, <3>2, <1>1
  <2>2. CASE q \notin Writers
    <3>1. q \in Readers /\ writeopen /\ (Writers \cap killed = {} => Count = 0)
      BY <2>2, <1>2, <1>7 DEF NoLostWakeup, Procs
    <3>2. ~(last /\ side = Writers)
      BY <3>1, <1>1, <1>2, <1>3 DEF readersWoken, wakeup
    <3> QED
      BY <2>2, <3>1, <3>2, <1>1
  <2> QED
    BY <2>1, <2>2
<1>10. HoldersOK'
  <2>1. \A q \in Procs : lock' # q
    BY <1>1, <1>3
  <2>2. \A q \in Procs : pc'[q] # "idle" => q \in open'
    BY <1>1, <1>2, <1>7 DEF HoldersOK
  <2> QED
    BY <2>1, <2>2, <1>5, <1>7 DEF HoldersOK
<1> QED
  BY <1>6, <1>8, <1>9, <1>10 DEF Inv

\* Every step keeps the invariant.
LEMMA NextInv == ASSUME Inv, [Next]_vars PROVE Inv'
<1>0. Writers \subseteq Procs /\ Readers \subseteq Procs
  BY DEF Procs
<1>1. ASSUME NEW p \in Writers, NEW s \in Texts, callWrite(p, s) PROVE Inv'
  <2>1. todo' \in [Writers -> Seq(Bytes)]
    BY <1>1, PipeAssumption DEF callWrite, Inv, TypeOK
  <2> QED
    BY <1>0, <1>1, <2>1, CallBegins DEF callWrite
<1>2. ASSUME NEW p \in Writers, pipewrite(p) PROVE Inv'
  BY <1>2, PipeWrite
<1>3. ASSUME NEW p \in Readers, callRead(p) PROVE Inv'
  <2>1. todo' \in [Writers -> Seq(Bytes)]
    BY <1>3 DEF callRead, Inv, TypeOK
  <2> QED
    BY <1>0, <1>3, <2>1, CallBegins DEF callRead
<1>4. ASSUME NEW p \in Readers, NEW n \in 1 .. MaxRead, piperead(p, n) PROVE Inv'
  <2>1. n \in Nat
    BY PipeAssumption
  <2> QED
    BY <1>4, <2>1, PipeRead
<1>5. ASSUME NEW p \in Procs, sleep(p) PROVE Inv'
  BY <1>5, Sleep
<1>6. ASSUME NEW p \in Procs, kill(p) PROVE Inv'
  BY <1>6, Kill
<1>7. ASSUME NEW p \in Procs, pipeclose(p) PROVE Inv'
  BY <1>7, PipeClose
<1>8. CASE UNCHANGED vars
  <2>1. Count' = Count
    BY <1>8 DEF vars, pipeVars, Count
  <2> QED
    BY <1>8, <2>1 DEF Inv, TypeOK, NoLostWakeup, FreedLast, HoldersOK, vars, pipeVars
<1> QED
  BY <1>1, <1>2, <1>3, <1>4, <1>5, <1>6, <1>7, <1>8 DEF Next

\* The invariant holds always.
LEMMA InvAlways == Spec => []Inv
<1> QED
  BY InitInv, NextInv, PTL DEF Spec

\* pipe.c:59-121: with any number of writers and readers, and across the wrap-around of
\* the counters, a process sleeps on the pipe only while it has a reason to, the pipe
\* holds PIPESIZE bytes at most, and it is freed by the last to close it.
THEOREM NobodyMissesAWakeup == Spec => []PipeSafe
<1>1. Inv => PipeSafe
  BY DEF Inv, PipeSafe
<1> QED
  BY <1>1, InvAlways, PTL

-----------------------------------------------------------------------------
(* The pipe implements the byte stream. *)

\* PIPESIZE divides the range of the counters: a counter that wraps around still points
\* at the same place of the ring.
LEMMA WrapHarmless ==
  ASSUME NEW x \in Int, NEW y \in Int
  PROVE  ((x % UintRange) + y) % PIPESIZE = (x + y) % PIPESIZE
<1> DEFINE r == x % UintRange
           q == x \div UintRange
<1>1. PIPESIZE \in Nat \ {0} /\ UintRange \in Nat \ {0}
  BY Sizes
<1>2. PICK k \in Int : UintRange = PIPESIZE * k
  BY Sizes
<1>3. r \in 0 .. UintRange - 1 /\ q \in Int /\ x = UintRange * q + r
  BY <1>1, Remainder, Zenon
<1> HIDE DEF r, q
<1>4. UintRange * q = PIPESIZE * (k * q) /\ k * q \in Int /\ r + y \in Int
  BY <1>1, <1>2, <1>3
<1>5. x + y = (r + y) + PIPESIZE * (k * q)
  <2>1. PIPESIZE * (k * q) \in Int /\ x = PIPESIZE * (k * q) + r /\ r \in Int
    BY <1>1, <1>3, <1>4
  <2> QED
    BY <2>1
<1>6. ((r + y) + PIPESIZE * (k * q)) % PIPESIZE = (r + y) % PIPESIZE
  BY <1>1, <1>4, AddMultiple, Zenon
<1> QED
  BY <1>5, <1>6, Zenon DEF r

\* How far, in the ring, the place m bytes after the counter r is behind the counter w.
Behind(r, w, m) == (((r + m) % PIPESIZE) - w) % PIPESIZE

\* It depends only on how many bytes are between the counters.
LEMMA RingDistance ==
  ASSUME NEW r \in 0 .. UintRange - 1, NEW w \in 0 .. UintRange - 1, NEW m \in Int,
         NEW c \in Int, w \in {r + c, r + c - UintRange}
  PROVE  Behind(r, w, m) = (m - c) % PIPESIZE
<1>1. /\ PIPESIZE \in Nat \ {0} /\ UintRange \in Nat /\ r \in Int /\ w \in Int /\ r + m \in Int
      /\ 0 - w \in Int /\ m - c \in Int
  BY Sizes
<1>2. PICK k \in Int : UintRange = PIPESIZE * k
  BY Sizes
<1> DEFINE d == (r + m) % PIPESIZE
<1>3. (d + (0 - w)) % PIPESIZE = ((r + m) + (0 - w)) % PIPESIZE
  BY <1>1, RemainderLater, Zenon
<1>4. d \in 0 .. PIPESIZE - 1
  BY <1>1, Remainder, Zenon
<1> HIDE DEF d
<1>5. d + (0 - w) = d - w
  BY <1>1, <1>4
<1>6. ((m - c) + PIPESIZE * k) % PIPESIZE = (m - c) % PIPESIZE
  BY <1>1, <1>2, AddMultiple, Zenon
<1>7. (r + m) + (0 - w) = m - c \/ (r + m) + (0 - w) = (m - c) + PIPESIZE * k
  BY <1>1, <1>2
<1>8. (d - w) % PIPESIZE = (m - c) % PIPESIZE
  BY <1>3, <1>5, <1>6, <1>7, Zenon
<1> QED
  BY <1>8, Zenon DEF d, Behind

\* A function on 1 .. n is a sequence.
LEMMA FunctionIsSeq ==
  ASSUME NEW S, NEW n \in Nat, NEW f \in [1 .. n -> S]
  PROVE  f \in Seq(S) /\ Len(f) = n
  OBVIOUS

\* The bytes in the pipe form a sequence.
WaitingOK == /\ Waiting \in Seq(Bytes) /\ Len(Waiting) = Count
             /\ Waiting \in [1 .. Count -> Bytes]
             /\ \A i \in 1 .. Count : Waiting[i] = data[(nread + i - 1) % PIPESIZE]

\* Every state has such a sequence.
LEMMA WaitingSeq == Inv => WaitingOK
<1> SUFFICES ASSUME Inv PROVE WaitingOK
  OBVIOUS
<1>1. Count \in Nat /\ PIPESIZE \in Nat \ {0} /\ nread \in Int /\ data \in [0 .. PIPESIZE - 1 -> Bytes]
  BY Counters, Sizes DEF Inv, TypeOK
<1>2. ASSUME NEW i \in 1 .. Count PROVE data[(nread + i - 1) % PIPESIZE] \in Bytes
  <2>1. nread + i - 1 \in Int
    BY <1>1
  <2>2. (nread + i - 1) % PIPESIZE \in 0 .. PIPESIZE - 1
    BY <1>1, <2>1, Remainder, Zenon
  <2> QED
    BY <1>1, <2>2, Zenon
<1>3. Waiting \in [1 .. Count -> Bytes]
  BY <1>2, Zenon DEF Waiting
<1>4. \A i \in 1 .. Count : Waiting[i] = data[(nread + i - 1) % PIPESIZE]
  BY Zenon DEF Waiting
<1> QED
  BY <1>1, <1>3, <1>4, FunctionIsSeq, Zenon DEF WaitingOK

\* A sequence that is place by place a concatenation is one.
LEMMA ConcatIs ==
  ASSUME NEW S, NEW a \in Seq(S), NEW b \in Seq(S), NEW c \in Seq(S),
         Len(c) = Len(a) + Len(b),
         \A i \in 1 .. Len(c) : c[i] = IF i <= Len(a) THEN a[i] ELSE b[i - Len(a)]
  PROVE  c = a \o b
  BY ConcatProperties, SeqEqual

\* The same for a part of a sequence.
LEMMA PartIs ==
  ASSUME NEW S, NEW a \in Seq(S), NEW c \in Seq(S), NEW m \in Nat, NEW n \in Nat,
         m + n <= Len(a), Len(c) = n, \A i \in 1 .. n : c[i] = a[m + i]
  PROVE  c = SubSeq(a, m + 1, m + n)
  OBVIOUS

\* The bytes that pipewrite() stores go behind those that wait, and leave them alone.
LEMMA Stored ==
  ASSUME Inv, Inv', NEW p \in Writers, pipewrite(p), NEW k, k = Least(room, Len(todo[p]))
  PROVE  Waiting' = Waiting \o SubSeq(todo[p], 1, k)
<1> DEFINE s == todo[p]
           c == Count
<1>1. /\ k \in Nat /\ k <= Len(s) /\ Count' = c + k /\ Count' <= PIPESIZE
      /\ s \in Seq(Bytes) /\ Len(s) \in Nat
  BY WriteCounts
<1>2. /\ c \in Nat /\ PIPESIZE \in Nat \ {0} /\ nread \in 0 .. UintRange - 1
      /\ nwrite \in 0 .. UintRange - 1 /\ nread \in Int /\ c \in Int
  BY Counters, Sizes DEF Inv
<1>3. nwrite = nread + c \/ nwrite = nread + c - UintRange
  BY <1>2, CountIs, Zenon DEF Count
<1>4. data' = stored(s, k) /\ nread' = nread
  BY DEF pipewrite
<1>5. /\ Waiting \in Seq(Bytes) /\ Len(Waiting) = c
      /\ \A i \in 1 .. c : Waiting[i] = data[(nread + i - 1) % PIPESIZE]
  BY WaitingSeq DEF WaitingOK
<1>6. /\ Waiting' \in Seq(Bytes) /\ Len(Waiting') = Count'
      /\ \A i \in 1 .. Count' : Waiting'[i] = data'[(nread' + i - 1) % PIPESIZE]
  <2>1. WaitingOK'
    BY WaitingSeq, PTL
  <2> QED
    BY <2>1, Zenon DEF WaitingOK
<1>7. SubSeq(s, 1, k) \in Seq(Bytes) /\ Len(SubSeq(s, 1, k)) = k
      /\ \A i \in 1 .. k : SubSeq(s, 1, k)[i] = s[i]
  BY <1>1
<1> HIDE DEF c
<1>8. ASSUME NEW i \in 1 .. c + k
      PROVE  Waiting'[i] = IF i <= c THEN Waiting[i] ELSE SubSeq(s, 1, k)[i - c]
  <2> DEFINE x == (nread + i - 1) % PIPESIZE
             j == (x - nwrite) % PIPESIZE
  <2>1. nread + i - 1 \in Int /\ nread + i - 1 = nread + (i - 1) /\ i - 1 \in Int
    BY <1>1, <1>2
  <2>2. x \in 0 .. PIPESIZE - 1
    BY <1>2, <2>1, Remainder, Zenon
  <2>3. j = ((i - 1) - c) % PIPESIZE
    <3> DEFINE m == i - 1
    <3>1. m \in Int
      BY <2>1
    <3> HIDE DEF m
    <3>2. Behind(nread, nwrite, m) = (m - c) % PIPESIZE
      <4>1. nread \in 0 .. UintRange - 1 /\ nwrite \in 0 .. UintRange - 1 /\ c \in Int
        BY <1>2
      <4>2. nwrite \in {nread + c, nread + c - UintRange}
        BY <1>3
      <4> QED
        BY <4>1, <4>2, <3>1, RingDistance
    <3> QED
      BY <2>1, <3>2, Zenon DEF m, Behind
  <2>4. Waiting'[i] = stored(s, k)[x]
    BY <1>1, <1>4, <1>6, Zenon DEF c
  <2>5. stored(s, k)[x] = IF j < k THEN s[j + 1] ELSE data[x]
    BY <2>2, Zenon DEF stored
  <2>6. (i - 1) - c \in Int
    BY <1>2, <2>1
  <2>7. CASE i <= c
    <3>1. 0 - PIPESIZE <= (i - 1) - c /\ (i - 1) - c < 0
      BY <1>1, <1>2, <2>7
    <3>2. j = (i - 1) - c + PIPESIZE
      BY <1>2, <2>3, <2>6, <3>1, SmallRemainder, Zenon
    <3>3. Waiting[i] = data[x]
      <4>1. i \in 1 .. c
        BY <1>1, <1>2, <2>7
      <4> QED
        BY <4>1, <1>5, Zenon
    <3> HIDE DEF x, j
    <3>4. ~(j < k)
      BY <1>1, <1>2, <2>7, <3>2
    <3> QED
      BY <2>4, <2>5, <2>7, <3>3, <3>4
  <2>8. CASE ~(i <= c)
    <3>1. 0 <= (i - 1) - c /\ (i - 1) - c < PIPESIZE
      BY <1>1, <1>2, <2>8
    <3>2. j = (i - 1) - c
      BY <1>2, <2>3, <2>6, <3>1, SmallRemainder, Zenon
    <3> HIDE DEF x, j
    <3>3. j < k /\ j + 1 = i - c /\ i - c \in 1 .. k
      BY <1>1, <1>2, <2>8, <3>2
    <3> QED
      BY <2>4, <2>5, <2>8, <3>3, <1>7
  <2> QED
    BY <2>7, <2>8
<1>9. Len(Waiting') = Len(Waiting) + Len(SubSeq(s, 1, k))
  BY <1>1, <1>5, <1>6, <1>7 DEF c
<1>10. \A i \in 1 .. Len(Waiting') :
          Waiting'[i] = IF i <= Len(Waiting) THEN Waiting[i] ELSE SubSeq(s, 1, k)[i - Len(Waiting)]
  BY <1>5, <1>7, <1>8, <1>9
<1> QED
  BY <1>5, <1>6, <1>7, <1>9, <1>10, ConcatIs, Zenon

\* piperead() takes the bytes that wait from the front.
LEMMA Taken ==
  ASSUME Inv, Inv', NEW n \in Nat, NEW k, k = Least(n, Count),
         nread' = (nread + k) % UintRange, UNCHANGED <<nwrite, data>>,
         out' = [i \in 1 .. k |-> data[(nread + i - 1) % PIPESIZE]]
  PROVE  out' = SubSeq(Waiting, 1, k) /\ Waiting' = SubSeq(Waiting, k + 1, Len(Waiting))
<1> DEFINE c == Count
<1>1. k \in Nat /\ k <= c /\ Count' = c - k
  BY ReadCounts
<1>2. c \in Nat /\ PIPESIZE \in Nat \ {0} /\ nread \in Int /\ UintRange \in Nat
  BY Counters, Sizes DEF Inv
<1>3. /\ Waiting \in Seq(Bytes) /\ Len(Waiting) = c /\ Waiting \in [1 .. c -> Bytes]
      /\ \A i \in 1 .. c : Waiting[i] = data[(nread + i - 1) % PIPESIZE]
  BY WaitingSeq DEF WaitingOK
<1>4. /\ Waiting' \in Seq(Bytes) /\ Len(Waiting') = Count'
      /\ \A i \in 1 .. Count' : Waiting'[i] = data'[(nread' + i - 1) % PIPESIZE]
  <2>1. WaitingOK'
    BY WaitingSeq, PTL
  <2> QED
    BY <2>1, Zenon DEF WaitingOK
<1> HIDE DEF c
<1>5. ASSUME NEW i \in 1 .. k PROVE out'[i] = Waiting[0 + i] /\ out'[i] \in Bytes
  <2>1. i \in 1 .. c /\ 0 + i = i
    BY <1>1, <1>2
  <2>2. out'[i] = data[(nread + i - 1) % PIPESIZE]
    BY Zenon
  <2>3. out'[i] = Waiting[i]
    BY <2>1, <2>2, <1>3, Zenon
  <2> QED
    BY <2>1, <2>3, <1>3
<1>6. out' = SubSeq(Waiting, 1, k)
  <2>1. out' \in [1 .. k -> Bytes]
    BY <1>5, Zenon
  <2>2. out' \in Seq(Bytes) /\ Len(out') = k
    BY <1>1, <2>1, FunctionIsSeq
  <2>3. 0 + k <= Len(Waiting) /\ 0 + 1 = 1 /\ 0 + k = k /\ 0 \in Nat
    BY <1>1, <1>2, <1>3
  <2>4. out' = SubSeq(Waiting, 0 + 1, 0 + k)
    <3>1. \A i \in 1 .. k : out'[i] = Waiting[0 + i]
      BY <1>5
    <3> HIDE DEF c
    <3> QED
      BY <1>1, <1>3, <2>2, <2>3, <3>1, PartIs
  <2> QED
    BY <2>3, <2>4, Zenon
<1>7. ASSUME NEW i \in 1 .. c - k PROVE Waiting'[i] = Waiting[k + i]
  <2>1. /\ i - 1 \in Int /\ nread + k \in Int /\ (nread + k) + (i - 1) = nread + (k + i) - 1
        /\ k + i \in 1 .. c
    BY <1>1, <1>2
  <2>2. (((nread + k) % UintRange) + (i - 1)) % PIPESIZE = ((nread + k) + (i - 1)) % PIPESIZE
    BY <2>1, WrapHarmless, Zenon
  <2>3. nread' + i - 1 = nread' + (i - 1)
    <3>1. nread' \in Int
      BY Sizes DEF Inv, TypeOK
    <3> QED
      BY <3>1, <2>1
  <2>4. Waiting'[i] = data[(nread' + i - 1) % PIPESIZE]
    BY <1>1, <1>4, Zenon DEF c
  <2>5. Waiting[k + i] = data[(nread + (k + i) - 1) % PIPESIZE]
    BY <1>3, <2>1, Zenon
  <2> QED
    BY <2>1, <2>2, <2>3, <2>4, <2>5, Zenon
<1>8. Waiting' = SubSeq(Waiting, k + 1, Len(Waiting))
  <2>1. /\ c - k \in Nat /\ k + (c - k) = Len(Waiting) /\ k + (c - k) <= Len(Waiting)
        /\ Len(Waiting') = c - k
    BY <1>1, <1>2, <1>3, <1>4 DEF c
  <2>2. Waiting' = SubSeq(Waiting, k + 1, k + (c - k))
    BY <1>1, <1>3, <1>4, <1>7, <2>1, PartIs, Zenon
  <2> QED
    BY <2>1, <2>2, Zenon
<1> QED
  BY <1>6, <1>8

\* A new pipe is an empty stream.
LEMMA InitRefines == Init => Stream!StreamInit
<1> SUFFICES ASSUME Init PROVE Stream!StreamInit
  OBVIOUS
<1>1. Count = 0
  <2>1. nwrite - nread = 0 /\ UintRange \in Nat \ {0} /\ 0 < UintRange /\ 0 <= 0 /\ 0 \in Int
    BY Sizes DEF Init
  <2>2. 0 % UintRange = 0
    BY <2>1, SmallRemainder, Zenon
  <2> QED
    BY <2>1, <2>2, Zenon DEF Count
<1>2. WaitingOK
  BY InitInv, WaitingSeq
<1>3. Waiting = <<>>
  BY <1>1, <1>2 DEF WaitingOK
<1> QED
  BY <1>3 DEF Init, Stream!StreamInit

\* One turn of pipewrite() appends a chunk, or nothing.
LEMMA WriteRefines ==
  ASSUME Inv, Inv', NEW p \in Writers, pipewrite(p)
  PROVE  [Stream!StreamNext]_(Stream!streamVars)
<1> DEFINE s == todo[p]
           k == Least(room, Len(s))
           t == SubSeq(s, 1, k)
<1>1. /\ k \in Nat /\ k <= Len(s) /\ Count' = Count + k /\ Count' <= PIPESIZE
      /\ s \in Seq(Bytes) /\ Len(s) \in Nat
  BY WriteCounts
<1>2. Waiting' = Waiting \o t
  BY Stored
<1>3. writeopen /\ writeopen' = writeopen /\ out' = out
  <2>1. pc[p] = "loop" /\ writeopen' = writeopen /\ out' = out
    BY DEF pipewrite
  <2>2. p \in Procs /\ p \in open
    BY <2>1 DEF Inv, HoldersOK, Procs
  <2> QED
    BY <2>1, <2>2 DEF Inv, HoldersOK
<1>4. Waiting \in Seq(Bytes) /\ Len(Waiting) = Count /\ Count \in Nat /\ PIPESIZE \in Nat
  BY WaitingSeq, Counters, Sizes DEF WaitingOK, Inv
<1> HIDE DEF k
<1>5. t \in [1 .. k -> Bytes] /\ Len(t) = k /\ t \in Seq(Bytes)
  <2>1. t \in Seq(Bytes) /\ Len(t) = k
    BY <1>1
  <2> HIDE DEF t
  <2> QED
    BY <2>1
<1> HIDE DEF t
<1>6. CASE k = 0
  <2>1. t = <<>>
    BY <1>5, <1>6
  <2>2. Waiting' = Waiting
    BY <1>2, <1>4, <2>1
  <2> QED
    BY <1>3, <2>2 DEF Stream!streamVars
<1>7. CASE k # 0
  <2>1. k \in 1 .. PIPESIZE /\ Len(Waiting) + Len(t) <= PIPESIZE
    BY <1>1, <1>4, <1>5, <1>7
  <2>2. t \in Stream!Chunks
    BY <1>5, <2>1 DEF Stream!Chunks
  <2>3. Stream!Write(t)
    BY <1>2, <1>3, <2>1 DEF Stream!Write
  <2> QED
    BY <2>2, <2>3 DEF Stream!StreamNext
<1> QED
  BY <1>6, <1>7

\* piperead() takes a chunk, or reports the end of the file, or nothing.
LEMMA ReadRefines ==
  ASSUME Inv, Inv', NEW p \in Readers, NEW n \in Nat \ {0}, piperead(p, n)
  PROVE  [Stream!StreamNext]_(Stream!streamVars)
<1> DEFINE k == Least(n, Count)
<1>1. /\ Waiting \in Seq(Bytes) /\ Len(Waiting) = Count /\ Count \in Nat /\ PIPESIZE \in Nat
      /\ Count <= PIPESIZE
  BY WaitingSeq, Counters, Sizes DEF WaitingOK, Inv
<1>2. UNCHANGED <<data, nwrite, writeopen>>
  BY DEF piperead
<1>3. CASE Count = 0 /\ writeopen
  <2>1. UNCHANGED <<nread, out>>
    BY <1>3 DEF piperead
  <2>2. Waiting' = Waiting
    BY <1>2, <2>1 DEF Waiting, Count
  <2> QED
    BY <1>2, <2>1, <2>2 DEF Stream!streamVars
<1>4. CASE ~(Count = 0 /\ writeopen)
  <2>1. /\ out' = [i \in 1 .. k |-> data[(nread + i - 1) % PIPESIZE]]
        /\ nread' = (nread + k) % UintRange
    BY <1>4 DEF piperead
  <2>2. k \in Nat /\ k <= Count /\ (k = 0 => Count = 0)
    BY <1>2, <2>1, ReadCounts
  <2>3. out' = SubSeq(Waiting, 1, k) /\ Waiting' = SubSeq(Waiting, k + 1, Len(Waiting))
    BY <1>2, <2>1, Taken
  <2> HIDE DEF k
  <2>4. CASE k = 0
    <3>1. Count = 0 /\ ~writeopen /\ Waiting = <<>>
      BY <1>1, <1>4, <2>2, <2>4
    <3>2. out' = <<>> /\ Waiting' = <<>>
      BY <2>3, <2>4, <3>1
    <3>3. Stream!EndOfFile
      BY <1>2, <3>1, <3>2 DEF Stream!EndOfFile
    <3> QED
      BY <3>3 DEF Stream!StreamNext
  <2>5. CASE k # 0
    <3>1. k \in 1 .. Len(Waiting) /\ k \in 1 .. PIPESIZE
      BY <1>1, <2>2, <2>5
    <3>2. Stream!Read(k)
      BY <1>2, <2>3, <3>1 DEF Stream!Read
    <3> QED
      BY <3>1, <3>2 DEF Stream!StreamNext
  <2> QED
    BY <2>4, <2>5
<1> QED
  BY <1>3, <1>4

\* Every step of the pipe is a step of the stream, or changes nothing of it.
LEMMA NextRefines ==
  ASSUME Inv, Inv', [Next]_vars PROVE [Stream!StreamNext]_(Stream!streamVars)
<1>0. ASSUME UNCHANGED <<data, nread, nwrite, writeopen, out>>
      PROVE  UNCHANGED Stream!streamVars
  BY <1>0 DEF Stream!streamVars, Waiting, Count
<1>1. ASSUME NEW p \in Writers, NEW s \in Texts, callWrite(p, s) PROVE UNCHANGED Stream!streamVars
  BY <1>0, <1>1 DEF callWrite, pipeVars
<1>2. ASSUME NEW p \in Writers, pipewrite(p) PROVE [Stream!StreamNext]_(Stream!streamVars)
  BY <1>2, WriteRefines
<1>3. ASSUME NEW p \in Readers, callRead(p) PROVE UNCHANGED Stream!streamVars
  BY <1>0, <1>3 DEF callRead, pipeVars
<1>4. ASSUME NEW p \in Readers, NEW n \in 1 .. MaxRead, piperead(p, n)
      PROVE  [Stream!StreamNext]_(Stream!streamVars)
  <2>1. n \in Nat \ {0}
    BY PipeAssumption
  <2> QED
    BY <1>4, <2>1, ReadRefines
<1>5. ASSUME NEW p \in Procs, sleep(p) PROVE UNCHANGED Stream!streamVars
  BY <1>0, <1>5 DEF sleep, pipeVars
<1>6. ASSUME NEW p \in Procs, kill(p) PROVE UNCHANGED Stream!streamVars
  BY <1>0, <1>6 DEF kill, pipeVars
<1>7. ASSUME NEW p \in Procs, pipeclose(p) PROVE [Stream!StreamNext]_(Stream!streamVars)
  <2>1. UNCHANGED <<data, nread, nwrite, out>>
    BY <1>7 DEF pipeclose
  <2>2. Waiting' = Waiting
    BY <2>1 DEF Waiting, Count
  <2>3. writeopen' = writeopen \/ writeopen' = FALSE
    BY <1>7 DEF pipeclose, Inv, TypeOK
  <2>4. CASE writeopen' = writeopen
    BY <2>1, <2>2, <2>4 DEF Stream!streamVars
  <2>5. CASE writeopen' = FALSE
    BY <2>1, <2>2, <2>5 DEF Stream!CloseWrite, Stream!StreamNext
  <2> QED
    BY <2>3, <2>4, <2>5
<1>8. CASE UNCHANGED vars
  BY <1>0, <1>8 DEF vars, pipeVars
<1> QED
  BY <1>1, <1>2, <1>3, <1>4, <1>5, <1>6, <1>7, <1>8 DEF Next

\* pipe.c:78-121: the bytes written to a pipe come out once and in order, and a read
\* returns 0 only at the end of the file, for every number of processes, every size and
\* across the wrap-around of the counters.
THEOREM PipeIsAStream == Spec => ImplementsStream
<1>1. Init => Stream!StreamInit
  BY InitRefines
<1>2. Inv /\ Inv' /\ [Next]_vars => [Stream!StreamNext]_(Stream!streamVars)
  BY NextRefines
<1> QED
  BY <1>1, <1>2, InvAlways, PTL DEF Spec, ImplementsStream, Stream!StreamSpec
=============================================================================
