-------------------------- MODULE FileSystemProofs --------------------------
(***************************************************************************)
(* For every number of processes, inodes, blocks and names and any calls:   *)
(* references, locks, links, cached inodes and the bitmap agree, ilock()    *)
(* finds no free inode, and the only deadlocks are those with iput(), until *)
(* somebody looks up the parent of a removed directory.                     *)
(*                                                                          *)
(* Each part has one part of the invariant Inv of FileSystemSteps that the  *)
(* outcomes of its actions keep; the theorems are at the end.               *)
(***************************************************************************)
EXTENDS FileSystemSteps

-----------------------------------------------------------------------------
\* What the pointers point to.

\* Pointers to inodes that are made, one by one.
Good(x) == x # None => x \in Inums /\ Made(fs, x) /\ ~Fresh(x)
GoodVars(L) == /\ Good(L.at) /\ Good(L.dp) /\ (Stage(L) # "createNew" => Good(L.ip))
               /\ (L.pc # "drop" => Good(L.put))

\* PointersMade, variable by variable.
LEMMA PointersMadeIs ==
  ASSUME Shapes
  PROVE  PointersMade <=> \A p \in Procs : /\ Good(Dir(loc[p], cwd[p])) /\ Good(file[p])
                                           /\ GoodVars(loc[p])
<1>n. 1 \in 1 .. 6 /\ 2 \in 1 .. 6 /\ 3 \in 1 .. 6 /\ 4 \in 1 .. 6 /\ 5 \in 1 .. 6 /\ 6 \in 1 .. 6
  OBVIOUS
<1>1. ASSUME NEW p \in Procs
      PROVE  (\A n \in 1 .. 6 : Pointers(p)[n] # None /\ ~(n = 6 /\ loc[p].pc = "drop")
                          /\ ~(n = 4 /\ Stage(loc[p]) = "createNew")
                => Made(fs, Pointers(p)[n]) /\ ~Fresh(Pointers(p)[n]))
             <=> Good(Dir(loc[p], cwd[p])) /\ Good(file[p]) /\ GoodVars(loc[p])
  <2>1. "chdirDone" \in {loc[p].pc, loc[p].ret} <=> Stage(loc[p]) = "chdirDone"
    BY DEF Shapes, Shape, Stage
  <2>2. Pointers(p)[1] = Dir(loc[p], cwd[p]) /\ Dir(loc[p], cwd[p]) \in Inums \cup {None}
    BY <2>1, PointersAre DEF Dir, Shapes
  <2>3. /\ loc[p].at \in Inums \cup {None} /\ loc[p].ip \in Inums \cup {None}
        /\ loc[p].dp \in Inums \cup {None} /\ loc[p].put \in Inums \cup {None}
        /\ file[p] \in Inums \cup {None}
    BY DEF Shapes, Local
  <2>4. /\ Pointers(p)[2] = file[p] /\ Pointers(p)[3] = loc[p].at /\ Pointers(p)[4] = loc[p].ip
        /\ Pointers(p)[5] = loc[p].dp /\ Pointers(p)[6] = loc[p].put
    BY PointersAre
  <2>5. \A n \in 1 .. 6 : n = 1 \/ n = 2 \/ n = 3 \/ n = 4 \/ n = 5 \/ n = 6
    OBVIOUS
  <2> QED
    BY <1>n, <2>2, <2>3, <2>4, <2>5 DEF Good, GoodVars
<1> QED
  BY <1>1 DEF PointersMade

\* Inodes stay made, but for the one that iput() frees.
StaysMade == \A i \in Inums : Made(fs, i) => Made(fs', i) /\ fs'.disk[i].type = fs.disk[i].type
Freed(p) ==
    LET i == loc[p].put
    IN  /\ loc[p].pc = "iput" /\ SameRefs(fs, fs') /\ SameOwners(fs, fs') /\ Rest
        /\ Becomes(p, [loc[p] EXCEPT !.pc = "drop"])
        /\ fs.mem[i].ref = 1 /\ fs.disk[i].nlink = 0
        /\ SetDisk(fs, fs', i, [type |-> "free", nlink |-> 0, addrs |-> {}])
        /\ fs'.ent = [fs.ent EXCEPT ![i] = Empty]
        /\ fs'.used = fs.used \ fs.disk[i].addrs
\* The outcomes that leave the data alone.
Plain(p) == SameData(fs, fs')

\* The changes of the data.
Changes(p) ==
    \/ Plain(p) \/ Freed(p) \/ CountsLink(p) \/ AddsEntry(p) \/ Uncounts(p) \/ RemovesEntry(p)
    \/ (\E i \in Inums : Allocates(p, i)) \/ MakesFile(p) \/ MakesDir(p) \/ Writes(p)

\* Every step leaves the data alone, but for what is on the disk of few inodes.
LEMMA EffectChanges ==
  ASSUME NEW p \in Procs, Effect(p)
  PROVE  Changes(p)
<1>1. CASE Frees(p)
  BY <1>1 DEF Frees, Freed, Changes, Plain
<1>2. CASE \/ CountsLink(p) \/ AddsEntry(p) \/ Uncounts(p) \/ RemovesEntry(p)
           \/ (\E i \in Inums : Allocates(p, i)) \/ MakesFile(p) \/ MakesDir(p) \/ Writes(p)
  BY <1>2 DEF Changes
<1>3. CASE \/ \E c \in Calls : Begins(p, c)
           \/ Stops(p) \/ (\E i \in Inums : Turns(p, i)) \/ Fails(p) \/ Drops(p)
           \/ PutsIp(p) \/ PutsBad(p) \/ PutsDp(p) \/ Unlocks(p) \/ UnlocksIp(p)
           \/ FindsOld(p) \/ FindsEntry(p) \/ FindsThere(p) \/ LocksFound(p) \/ Opens(p)
           \/ LeavesDir(p) \/ EntersDir(p) \/ Closes(p)
  <2>1. SameData(fs, fs')
    BY Zenon, <1>3 DEF Begins, Stops, Turns, Fails, Drops, PutsIp, PutsBad, PutsDp, Unlocks, UnlocksIp,
                FindsOld, FindsEntry, FindsThere, LocksFound, Opens, LeavesDir, EntersDir, Closes, Quiet
  <2> QED
    BY Zenon, <2>1 DEF Changes, Plain
<1> QED
  BY <1>1, <1>2, <1>3 DEF Effect

\* The inodes that a change is about.
LEMMA ChangeFacts ==
  ASSUME Inv, NEW p \in Procs, Changes(p)
  PROVE  /\ CountsLink(p) \/ Uncounts(p) => loc[p].ip \in Inums /\ Usable(loc[p].ip)
         /\ AddsEntry(p) => /\ loc[p].ip \in Inums /\ Usable(loc[p].ip) /\ loc[p].dp \in Inums
                            /\ Usable(loc[p].dp) /\ MadeDir(fs, loc[p].dp) /\ loc[p].ip # loc[p].dp
                            /\ fs.disk[loc[p].ip].type = "file"
         /\ RemovesEntry(p) => /\ loc[p].ip \in Inums /\ Usable(loc[p].ip) /\ loc[p].dp \in Inums
                               /\ Usable(loc[p].dp) /\ MadeDir(fs, loc[p].dp) /\ loc[p].ip # loc[p].dp
                               /\ Head(loc[p].path) \in Names /\ fs.mem[loc[p].dp].owner = p
                               /\ fs.ent[loc[p].dp][Head(loc[p].path)] = loc[p].ip
         /\ MakesFile(p) \/ MakesDir(p) =>
              /\ loc[p].ip \in Inums /\ Fresh(loc[p].ip) /\ loc[p].dp \in Inums
              /\ Usable(loc[p].dp) /\ MadeDir(fs, loc[p].dp) /\ loc[p].ip # loc[p].dp
              /\ Head(loc[p].path) \in Names /\ fs.mem[loc[p].dp].owner = p
              /\ fs.disk[loc[p].ip] = [type |-> TypeFor(loc[p].op), nlink |-> 0, addrs |-> {}]
              /\ fs.ent[loc[p].ip] = Empty
         /\ (\E i \in Inums : Allocates(p, i)) => /\ loc[p].dp \in Inums /\ Usable(loc[p].dp)
                                                  /\ MadeDir(fs, loc[p].dp)
         /\ Writes(p) => file[p] \in Inums /\ Usable(file[p])
         /\ Freed(p) => loc[p].put \in Inums /\ Usable(loc[p].put)
<1>1. Shape(loc[p])
  BY Zenon DEF Inv, Shapes
<1>2. CASE CountsLink(p) \/ Uncounts(p)
  <2>1. loc[p].pc \in {"link", "linkBad", "unlinkLast"} /\ Stage(loc[p]) = loc[p].pc
    BY <1>2 DEF CountsLink, Uncounts, Stage
  <2>2. loc[p].ip # None /\ Stage(loc[p]) # "createNew"
    BY <1>1, <2>1 DEF Shape, HasIp
  <2> QED
    BY Zenon, <2>1, <2>2, Facts DEF Usable, CountsLink, Uncounts, AddsEntry, RemovesEntry, MakesFile,
                             MakesDir, Allocates, Writes, Freed
<1>3. CASE AddsEntry(p)
  <2>1. loc[p].pc = "linkNew" /\ Stage(loc[p]) = "linkNew"
    BY <1>3 DEF AddsEntry, Stage
  <2>2. loc[p].ip # None /\ loc[p].dp # None
    BY <1>1, <2>1 DEF Shape, HasIp, HasDp
  <2>3. Usable(loc[p].ip) /\ Usable(loc[p].dp) /\ MadeDir(fs, loc[p].dp)
    BY <2>1, <2>2, Facts
  <2>4. fs.disk[loc[p].ip].type = "file"
    BY <2>1, <2>2 DEF Inv, LinkedAreFiles, Linking
  <2>5. loc[p].ip # loc[p].dp
    BY <2>3, <2>4 DEF MadeDir
  <2> QED
    BY <2>1, <2>3, <2>4, <2>5 DEF Usable, CountsLink, Uncounts, RemovesEntry, MakesFile,
                             MakesDir, Allocates, Writes, Freed
<1>4. CASE RemovesEntry(p)
  <2>1. loc[p].pc = "unlinkEntry" /\ Stage(loc[p]) = "unlinkEntry" /\ PassesLock(p)
    BY <1>4 DEF RemovesEntry, Stage
  <2>2. loc[p].ip # None /\ loc[p].dp # None /\ Head(loc[p].path) \in Names
    BY <1>1, <2>1 DEF Shape, HasIp, HasDp
  <2>3. Usable(loc[p].ip)
    BY <2>1, <2>2, Facts
  <2>4. Usable(loc[p].dp) /\ MadeDir(fs, loc[p].dp) /\ fs.mem[loc[p].dp].owner = p
    BY <2>1, HeldDp DEF LocksDp
  <2>5. loc[p].ip # loc[p].dp
    BY <2>1, <2>4, FsAssumption DEF PassesLock
  <2>6. fs.ent[loc[p].dp][Head(loc[p].path)] = loc[p].ip
    BY <2>1 DEF Inv, EntryThere
  <2> QED
    BY <2>1, <2>2, <2>3, <2>4, <2>5, <2>6 DEF Usable, CountsLink, Uncounts, AddsEntry, MakesFile,
                             MakesDir, Allocates, Writes, Freed
<1>5. CASE MakesFile(p) \/ MakesDir(p)
  <2>1. loc[p].pc = "createNew" /\ Stage(loc[p]) = "createNew" /\ PassesLock(p)
    BY <1>5 DEF MakesFile, MakesDir, Stage
  <2>2. Head(loc[p].path) \in Names
    BY <1>1, <2>1 DEF Shape
  <2>3. Fresh(loc[p].ip)
    BY <2>1 DEF Fresh
  <2>4. loc[p].ip \in Inums
    BY <2>3, FreshHas
  <2>5. Usable(loc[p].dp) /\ MadeDir(fs, loc[p].dp) /\ fs.mem[loc[p].dp].owner = p
    BY <2>1, HeldDp DEF LocksDp
  <2>6. loc[p].ip # loc[p].dp
    BY <2>3, <2>5 DEF Usable
  <2>7. /\ fs.disk[loc[p].ip] = [type |-> TypeFor(loc[p].op), nlink |-> 0, addrs |-> {}]
        /\ fs.ent[loc[p].ip] = Empty
    BY Zenon, <2>1 DEF Inv, FreshOK
  <2> QED
    BY <2>1, <2>2, <2>3, <2>4, <2>5, <2>6, <2>7
       DEF Usable, CountsLink, Uncounts, AddsEntry, RemovesEntry, Allocates, Writes, Freed
<1>6. CASE \E i \in Inums : Allocates(p, i)
  <2>1. loc[p].pc \in {"create", "mkdir"} /\ Stage(loc[p]) = loc[p].pc
    BY <1>6 DEF Allocates, Stage
  <2>2. loc[p].dp # None
    BY <1>1, <2>1 DEF Shape, HasDp
  <2>3. Usable(loc[p].dp) /\ MadeDir(fs, loc[p].dp)
    BY <2>2, Facts
  <2> QED
    BY Zenon, <2>1, <2>3 DEF Usable, CountsLink, Uncounts, AddsEntry, RemovesEntry, MakesFile,
                      MakesDir, Writes, Freed
<1>7. CASE Writes(p)
  <2>1. loc[p].pc = "user" /\ file[p] # None
    BY <1>7 DEF Writes
  <2>2. Usable(file[p])
    BY <2>1, Facts
  <2> QED
    BY <2>1, <2>2 DEF Usable, CountsLink, Uncounts, AddsEntry, RemovesEntry, MakesFile,
                      MakesDir, Allocates, Freed
<1>8. CASE Freed(p)
  <2>1. loc[p].pc = "iput"
    BY <1>8 DEF Freed
  <2>2. loc[p].put # None
    BY <1>1, <2>1 DEF Shape
  <2>3. Usable(loc[p].put)
    BY <2>1, <2>2, Facts
  <2> QED
    BY <2>1, <2>3 DEF Usable, CountsLink, Uncounts, AddsEntry, RemovesEntry, MakesFile,
                      MakesDir, Allocates, Writes
<1> QED
  BY <1>2, <1>3, <1>4, <1>5, <1>6, <1>7, <1>8

-----------------------------------------------------------------------------
\* After a step the pointers of the process point to what was made before.

GoodAll(p) == Good(Dir(loc[p], cwd[p])) /\ Good(file[p]) /\ GoodVars(loc[p])
GoodNow(p) == Good(Dir(loc'[p], cwd'[p])) /\ Good(file'[p]) /\ GoodVars(loc'[p])

\* No pointer is a good pointer.
LEMMA GoodNone == Good(None)
BY DEF Good

\* A pointer stays good when it is about to be put.
LEMMA PutsGood ==
  ASSUME NEW L \in Local, GoodVars(L), L.pc \notin {"iput", "drop", "createNew"},
         NEW r, r # "createNew", NEW M, M \in {PutAt(L, r), PutIp(L, r), PutDp(L, r)}
  PROVE  GoodVars(M) /\ Stage(M) = r
<1>1. /\ M.pc = "iput" /\ M.ret = r /\ M.at \in {L.at, None} /\ M.ip \in {L.ip, None}
      /\ M.dp \in {L.dp, None} /\ M.put \in {L.at, L.ip, L.dp}
  <2>1. CASE M = PutAt(L, r)
    BY <2>1 DEF PutAt, Local
  <2>2. CASE M = PutIp(L, r)
    BY <2>2 DEF PutIp, Local
  <2>3. CASE M = PutDp(L, r)
    BY <2>3 DEF PutDp, Local
  <2> QED
    BY <2>1, <2>2, <2>3
<1>2. Stage(M) = r /\ Stage(L) # "createNew"
  BY <1>1 DEF Stage
<1>3. Good(L.at) /\ Good(L.ip) /\ Good(L.dp)
  BY <1>2 DEF GoodVars
<1> QED
  BY <1>1, <1>2, <1>3, GoodNone DEF GoodVars

\* One of the local variables takes over what is good, or a new reference to what is good.
LEMMA TakesGood ==
  ASSUME NEW L \in Local, Shape(L), GoodVars(L), NEW j, Good(j), NEW M,
         \/ M = [L EXCEPT !.pc = "iput", !.put = L.at, !.ret = "walk", !.path = Tail(L.path), !.at = j]
            /\ L.pc = "walk"
         \/ M = [L EXCEPT !.pc = "iput", !.put = L.at, !.ret = L.op, !.path = Tail(L.path),
                          !.at = None, !.ip = j] /\ L.pc = "walk"
         \/ M = [L EXCEPT !.pc = "walk", !.path = L.new, !.at = j] /\ L.pc = "link"
         \/ M = [L EXCEPT !.pc = "iput", !.put = j, !.ret = "linkExists"] /\ L.pc = "linkNew"
         \/ M = [L EXCEPT !.pc = "unlinkEntry", !.ip = j] /\ L.pc = "unlink"
         \/ M = [L EXCEPT !.pc = "iput", !.put = L.dp, !.dp = None, !.ip = j, !.ret = "createThere"]
            /\ L.pc \in {"create", "mkdir"}
         \/ M = [L EXCEPT !.pc = "opened"] /\ L.pc \in {"createThere", "open"}
         \/ M = [L EXCEPT !.pc = "iput", !.put = j, !.ret = "chdirDone"] /\ L.pc = "chdir"
         \/ M = [L EXCEPT !.pc = "iput", !.put = j] /\ L.pc = "user"
         \/ M = [L EXCEPT !.pc = "linkNew", !.dp = L.at, !.at = None] /\ L.pc = "walk"
         \/ M = [L EXCEPT !.pc = L.op, !.dp = L.at, !.at = None] /\ L.pc = "walk"
         \/ M = [L EXCEPT !.pc = "drop"] /\ L.pc = "iput"
         \/ M = [L EXCEPT !.pc = L.ret, !.put = None] /\ L.pc = "drop"
  PROVE  GoodVars(M)
<1>1. /\ Good(L.at) /\ Good(L.dp) /\ (Stage(L) # "createNew" => Good(L.ip))
      /\ (L.pc # "drop" => Good(L.put))
  BY DEF GoodVars
<1>2. /\ M.at \in {L.at, None, j} /\ M.dp \in {L.dp, L.at, None}
      /\ M.ip = L.ip \/ M.ip = j
      /\ M.put = L.put \/ M.put \in {L.at, L.dp, j, None}
      /\ L.pc = "drop" => M.put = None
      /\ M.ip = L.ip \/ M.ip = j \/ Stage(M) = "createNew"
      /\ Stage(L) = "createNew" => Stage(M) = "createNew"
  <2>1. CASE M = [L EXCEPT !.pc = "iput", !.put = L.at, !.ret = "walk", !.path = Tail(L.path), !.at = j]
             /\ L.pc = "walk"
    BY <2>1 DEF Local, Stage
  <2>2. CASE M = [L EXCEPT !.pc = "iput", !.put = L.at, !.ret = L.op, !.path = Tail(L.path),
                          !.at = None, !.ip = j] /\ L.pc = "walk"
    BY <2>2 DEF Local, Stage
  <2>3. CASE M = [L EXCEPT !.pc = "walk", !.path = L.new, !.at = j] /\ L.pc = "link"
    BY <2>3 DEF Local, Stage
  <2>4. CASE M = [L EXCEPT !.pc = "iput", !.put = j, !.ret = "linkExists"] /\ L.pc = "linkNew"
    BY <2>4 DEF Local, Stage
  <2>5. CASE M = [L EXCEPT !.pc = "unlinkEntry", !.ip = j] /\ L.pc = "unlink"
    BY <2>5 DEF Local, Stage
  <2>6. CASE M = [L EXCEPT !.pc = "iput", !.put = L.dp, !.dp = None, !.ip = j, !.ret = "createThere"]
            /\ L.pc \in {"create", "mkdir"}
    BY <2>6 DEF Local, Stage
  <2>8. CASE M = [L EXCEPT !.pc = "opened"] /\ L.pc \in {"createThere", "open"}
    BY <2>8 DEF Local, Stage
  <2>9. CASE M = [L EXCEPT !.pc = "iput", !.put = j, !.ret = "chdirDone"] /\ L.pc = "chdir"
    BY <2>9 DEF Local, Stage
  <2>10. CASE M = [L EXCEPT !.pc = "iput", !.put = j] /\ L.pc = "user"
    BY <2>10 DEF Local, Stage
  <2>11. CASE M = [L EXCEPT !.pc = "linkNew", !.dp = L.at, !.at = None] /\ L.pc = "walk"
    BY <2>11 DEF Local, Stage
  <2>12. CASE M = [L EXCEPT !.pc = L.op, !.dp = L.at, !.at = None] /\ L.pc = "walk"
    BY <2>12 DEF Local, Stage
  <2>13. CASE M = [L EXCEPT !.pc = "drop"] /\ L.pc = "iput"
    BY <2>13 DEF Local, Stage
  <2>14. CASE M = [L EXCEPT !.pc = L.ret, !.put = None] /\ L.pc = "drop"
    <3>1. L.ret \notin {"iput", "drop"}
      BY <2>14 DEF Shape, Stage
    <3> QED
      BY <2>14, <3>1 DEF Local, Stage
  <2> QED
    BY <2>1, <2>2, <2>3, <2>4, <2>5, <2>6, <2>8, <2>9, <2>10, <2>11, <2>12, <2>13, <2>14
<1> QED
  BY <1>1, <1>2, GoodNone DEF GoodVars

\* A process between calls has none in its local variables.
LEMMA IdleGood == GoodVars(Idle) /\ Stage(Idle) = "user"
BY GoodNone DEF GoodVars, Idle, Stage

\* All pointers are good before a step.
LEMMA AllGood ==
  ASSUME Inv
  PROVE  \A p \in Procs : GoodAll(p)
BY PointersMadeIs DEF Inv, GoodAll

\* Steps that do not touch the open file and the current directory.
LEMMA GoodRest ==
  ASSUME Inv, NEW p \in Procs, UNCHANGED <<cwd, file>>, GoodVars(loc'[p]),
         Stage(loc[p]) = "chdirDone" => Stage(loc'[p]) = "chdirDone"
  PROVE  GoodNow(p)
<1>1. GoodAll(p)
  BY AllGood
<1>2. Dir(loc'[p], cwd'[p]) \in {Dir(loc[p], cwd[p]), None}
  BY DEF Dir
<1> QED
  BY <1>1, <1>2, GoodNone DEF GoodAll, GoodNow

\* The pointers of the process that steps lead to inodes that are made before the step.
LEMMA GoodEffect ==
  ASSUME Inv, NEW p \in Procs, Effect(p), ~MakesFile(p), ~MakesDir(p)
  PROVE  GoodNow(p)
<1>1. /\ Shape(loc[p]) /\ loc[p] \in Local /\ loc \in [Procs -> Local] /\ GoodAll(p)
      /\ cwd \in [Procs -> Inums] /\ file \in [Procs -> Inums \cup {None}]
  BY AllGood DEF Inv, Shapes
<1>2. PICK L \in Local : L = loc[p] /\ Shape(L) /\ GoodVars(L)
  BY <1>1 DEF GoodAll
<1>g. ASSUME NEW i, Gets(i) PROVE Good(i)
  BY Zenon, <1>g DEF Gets, Good
<1>u. UNCHANGED <<cwd, file>> \/ Opens(p) \/ EntersDir(p) \/ Closes(p)
  BY Zenon DEF Effect, Begins, Stops, Turns, Fails, Frees, Drops, PutsIp, PutsBad, PutsDp, Unlocks,
         UnlocksIp, CountsLink, FindsOld, AddsEntry, Uncounts, FindsEntry, RemovesEntry,
         FindsThere, Allocates, MakesFile, MakesDir, LocksFound, LeavesDir,
         Writes, Rest
<1>3. ASSUME NEW c \in Calls, Begins(p, c) PROVE GoodNow(p)
  <2>1. PICK i \in Inums : i = IF c.relative THEN cwd[p] ELSE ROOTINO
    BY <1>1, InumsAre
  <2>2. PICK M : M = [Idle EXCEPT
                     !.pc = IF c.path = <<>> THEN c.op ELSE "walk", !.op = c.op,
                     !.path = c.path, !.new = c.new,
                     !.at = IF c.path = <<>> THEN None ELSE i,
                     !.ip = IF c.path = <<>> THEN i ELSE None]
    OBVIOUS
  <2>3. Becomes(p, M) /\ Gets(i) /\ loc[p].pc = "user" /\ UNCHANGED <<cwd, file>>
    BY <1>3, <2>1, <2>2 DEF Begins, Rest
  <2>4. loc'[p] = M
    BY <1>1, <2>3, View
  <2>5. M.at \in {None, i} /\ M.ip \in {None, i} /\ M.dp = None /\ M.put = None
    BY <2>2 DEF Idle
  <2>6. GoodVars(M)
    BY <1>g, <2>3, <2>5, GoodNone DEF GoodVars
  <2>7. Stage(loc[p]) = "user"
    BY <2>3 DEF Stage
  <2> QED
    BY <2>3, <2>4, <2>6, <2>7, GoodRest
<1>4. CASE \/ Fails(p) \/ PutsIp(p) \/ PutsBad(p) \/ PutsDp(p) \/ Unlocks(p) \/ UnlocksIp(p)
           \/ Uncounts(p) \/ AddsEntry(p) \/ RemovesEntry(p)
  <2>1. /\ UNCHANGED <<cwd, file>>
        /\ L.pc \in {"walk", "link", "linkDone", "createThere", "open", "chdir", "unlinkEntry",
                     "unlink", "linkExists", "unlinkBad", "opened", "linkBad", "unlinkLast", "linkNew"}
    BY Zenon, <1>2, <1>4 DEF Fails, PutsIp, PutsBad, PutsDp, Unlocks, UnlocksIp, Uncounts, AddsEntry,
                      RemovesEntry, Rest
  <2>2. PICK M, r : /\ r # "createNew" /\ Becomes(p, M)
                    /\ M \in {PutAt(L, r), PutIp(L, r), PutDp(L, r)}
    BY <1>2, <1>4 DEF Fails, PutsIp, PutsBad, PutsDp, Unlocks, UnlocksIp, Uncounts, AddsEntry,
                      RemovesEntry
  <2>3. loc'[p] = M
    BY <1>1, <2>2, View
  <2>4. GoodVars(M)
    BY <1>2, <2>1, <2>2, PutsGood
  <2>5. Stage(loc[p]) # "chdirDone"
    BY <1>2, <2>1 DEF Stage
  <2> QED
    BY Zenon, <2>1, <2>3, <2>4, <2>5, GoodRest
<1>5. CASE \/ Stops(p) \/ (\E i \in Inums : Turns(p, i)) \/ CountsLink(p) \/ FindsOld(p)
           \/ FindsEntry(p) \/ FindsThere(p) \/ LocksFound(p) \/ LeavesDir(p)
  <2>1. /\ UNCHANGED <<cwd, file>>
        /\ L.pc \in {"walk", "link", "linkNew", "unlink", "create", "mkdir", "createThere", "open",
                     "chdir"}
    BY Zenon, <1>2, <1>5 DEF Stops, Turns, CountsLink, FindsOld, FindsEntry, FindsThere, LocksFound,
                      LeavesDir, Rest
  <2>2. PICK j, M :
         /\ Good(j) /\ Becomes(p, M)
         /\ \/ M = [L EXCEPT !.pc = "iput", !.put = L.at, !.ret = "walk", !.path = Tail(L.path), !.at = j]
               /\ L.pc = "walk"
            \/ M = [L EXCEPT !.pc = "iput", !.put = L.at, !.ret = L.op, !.path = Tail(L.path),
                          !.at = None, !.ip = j] /\ L.pc = "walk"
            \/ M = [L EXCEPT !.pc = "walk", !.path = L.new, !.at = j] /\ L.pc = "link"
            \/ M = [L EXCEPT !.pc = "iput", !.put = j, !.ret = "linkExists"] /\ L.pc = "linkNew"
            \/ M = [L EXCEPT !.pc = "unlinkEntry", !.ip = j] /\ L.pc = "unlink"
            \/ M = [L EXCEPT !.pc = "iput", !.put = L.dp, !.dp = None, !.ip = j, !.ret = "createThere"]
               /\ L.pc \in {"create", "mkdir"}
            \/ M = [L EXCEPT !.pc = "opened"] /\ L.pc \in {"createThere", "open"}
            \/ M = [L EXCEPT !.pc = "iput", !.put = j, !.ret = "chdirDone"] /\ L.pc = "chdir"
            \/ M = [L EXCEPT !.pc = "linkNew", !.dp = L.at, !.at = None] /\ L.pc = "walk"
            \/ M = [L EXCEPT !.pc = L.op, !.dp = L.at, !.at = None] /\ L.pc = "walk"
    <3>1. CASE Stops(p)
      BY Zenon, <1>2, <3>1, GoodNone DEF Stops
    <3>2. CASE \E i \in Inums : Turns(p, i)
      BY Zenon, <1>2, <1>g, <3>2 DEF Turns
    <3>3. CASE CountsLink(p)
      BY Zenon, <1>2, <1>g, <3>3 DEF CountsLink
    <3>4. CASE FindsOld(p)
      BY Zenon, <1>2, <1>g, <3>4 DEF FindsOld
    <3>5. CASE FindsEntry(p)
      BY Zenon, <1>2, <1>g, <3>5 DEF FindsEntry
    <3>6. CASE FindsThere(p)
      BY Zenon, <1>2, <1>g, <3>6 DEF FindsThere
    <3>7. CASE LocksFound(p)
      BY Zenon, <1>2, <3>7, GoodNone DEF LocksFound
    <3>8. CASE LeavesDir(p)
      <4>1. L.pc = "chdir"
        BY <1>2, <3>8 DEF LeavesDir
      <4>2. Dir(loc[p], cwd[p]) = cwd[p]
        BY <1>2, <4>1 DEF Dir, Stage
      <4>3. Good(cwd[p])
        BY <1>1, <4>2 DEF GoodAll
      <4> QED
        BY Zenon, <1>2, <3>8, <4>1, <4>3 DEF LeavesDir
    <3> QED
      BY Zenon, <1>5, <3>1, <3>2, <3>3, <3>4, <3>5, <3>6, <3>7, <3>8
  <2>3. loc'[p] = M
    BY Zenon, <1>1, <2>2, View
  <2>4. GoodVars(M)
    BY Zenon, <1>2, <2>2, TakesGood
  <2>5. Stage(loc[p]) # "chdirDone"
    BY <1>2, <2>1 DEF Stage
  <2> QED
    BY Zenon, <2>1, <2>3, <2>4, <2>5, GoodRest
<1>6. ASSUME NEW i \in Inums, Allocates(p, i) PROVE GoodNow(p)
  <2>1. PICK M : M = [L EXCEPT !.pc = "createNew", !.ip = i]
    OBVIOUS
  <2>2. Becomes(p, M) /\ L.pc \in {"create", "mkdir"} /\ UNCHANGED <<cwd, file>>
    BY <1>2, <1>6, <2>1 DEF Allocates, Rest
  <2>3. loc'[p] = M
    BY <1>1, <2>2, View
  <2>4. Stage(M) = "createNew" /\ M.at = L.at /\ M.dp = L.dp /\ M.put = L.put
    BY <2>1 DEF Local, Stage
  <2>5. GoodVars(M)
    BY <1>2, <2>2, <2>4 DEF GoodVars
  <2>6. Stage(loc[p]) # "chdirDone"
    BY <1>2, <2>2 DEF Stage
  <2> QED
    BY <2>2, <2>3, <2>5, <2>6, GoodRest
<1>7. CASE Frees(p)
  <2>1. PICK M : M = [L EXCEPT !.pc = "drop"]
    OBVIOUS
  <2>2. Becomes(p, M) /\ L.pc = "iput" /\ UNCHANGED <<cwd, file>>
    BY <1>2, <1>7, <2>1 DEF Frees, Rest
  <2>3. loc'[p] = M
    BY Zenon, <1>1, <2>2, View
  <2>4. GoodVars(M)
    BY Zenon, <1>2, <2>1, <2>2, TakesGood, GoodNone
  <2>5. Stage(loc'[p]) = Stage(loc[p])
    BY <1>2, <2>1, <2>2, <2>3 DEF Stage, Local
  <2> QED
    BY <2>2, <2>3, <2>4, <2>5, GoodRest
<1>8. CASE Drops(p)
  <2>1. UNCHANGED <<cwd, file>> /\ L.pc = "drop"
    BY <1>2, <1>8 DEF Drops, Rest
  <2>2. CASE L.ret = "user"
    <3>1. loc'[p] = Idle
      BY <1>1, <1>2, <1>8, <2>2, View DEF Drops
    <3>2. Stage(loc[p]) = "user"
      BY <1>2, <2>1, <2>2 DEF Stage
    <3> QED
      BY <2>1, <3>1, <3>2, IdleGood, GoodRest
  <2>3. CASE L.ret # "user"
    <3>1. PICK M : M = [L EXCEPT !.pc = L.ret, !.put = None]
      OBVIOUS
    <3>2. loc'[p] = M
      BY Zenon, <1>1, <1>2, <1>8, <2>3, <3>1, View DEF Drops
    <3>3. GoodVars(M)
      BY Zenon, <1>2, <2>1, <3>1, TakesGood, GoodNone
    <3>4. L.ret \notin {"iput", "drop"}
      BY <1>2, <2>1 DEF Shape, Stage
    <3>5. Stage(loc'[p]) = Stage(loc[p])
      BY <1>2, <2>1, <3>1, <3>2, <3>4 DEF Stage, Local
    <3> QED
      BY <2>1, <3>2, <3>3, <3>5, GoodRest
  <2> QED
    BY <2>2, <2>3
<1>9. CASE Writes(p)
  <2>1. UNCHANGED <<loc, cwd, file>>
    BY <1>9 DEF Writes, Rest
  <2> QED
    BY <1>1, <2>1, GoodRest DEF GoodAll
<1>10. CASE Opens(p)
  <2>1. loc'[p] = Idle /\ cwd'[p] = cwd[p] /\ file'[p] = L.ip /\ L.pc = "opened"
    BY <1>1, <1>2, <1>10, View DEF Opens
  <2>2. Stage(L) = "opened"
    BY <2>1 DEF Stage
  <2>3. Dir(loc[p], cwd[p]) = cwd[p] /\ Dir(loc'[p], cwd'[p]) = cwd[p]
    BY <1>2, <2>1, <2>2, IdleGood DEF Dir
  <2> QED
    BY <1>1, <1>2, <2>1, <2>2, <2>3, IdleGood DEF GoodAll, GoodNow, GoodVars
<1>11. CASE EntersDir(p)
  <2>1. loc'[p] = Idle /\ cwd'[p] = L.ip /\ file'[p] = file[p] /\ L.pc = "chdirDone"
    BY <1>1, <1>2, <1>11, View DEF EntersDir
  <2>2. Stage(L) = "chdirDone"
    BY <2>1 DEF Stage
  <2>3. Dir(loc'[p], cwd'[p]) = L.ip
    BY <2>1, IdleGood DEF Dir
  <2> QED
    BY <1>1, <1>2, <2>1, <2>2, <2>3, IdleGood DEF GoodAll, GoodNow, GoodVars
<1>12. CASE Closes(p)
  <2>1. PICK M : M = [L EXCEPT !.pc = "iput", !.put = file[p]]
    OBVIOUS
  <2>2. loc'[p] = M /\ cwd'[p] = cwd[p] /\ file'[p] = None /\ L.pc = "user"
    BY Zenon, <1>1, <1>2, <1>12, <2>1, View DEF Closes
  <2>3. GoodVars(M)
    BY Zenon, <1>1, <1>2, <2>1, <2>2, TakesGood DEF GoodAll
  <2>4. L = Idle
    BY <1>2, <2>2 DEF Shape
  <2>5. Stage(M) = "user" /\ Stage(L) = "user"
    BY <2>1, <2>2, <2>4 DEF Stage, Idle
  <2>6. Dir(loc[p], cwd[p]) = cwd[p] /\ Dir(loc'[p], cwd'[p]) = cwd[p]
    BY <1>2, <2>2, <2>5 DEF Dir
  <2> QED
    BY <1>1, <2>2, <2>3, <2>6, GoodNone DEF GoodAll, GoodNow
<1> QED
  BY <1>3, <1>4, <1>5, <1>6, <1>7, <1>8, <1>9, <1>10, <1>11, <1>12 DEF Effect

-----------------------------------------------------------------------------
\* The data after a step, inode by inode.

\* The types and the blocks stay; n more links for inode i.
LinksOnly(i, n) == \A j \in Inums :
    /\ fs'.disk[j].type = fs.disk[j].type /\ fs'.disk[j].addrs = fs.disk[j].addrs
    /\ fs'.disk[j].nlink = fs.disk[j].nlink + (IF j = i THEN n ELSE 0)

\* The types of what is on the disk.
LEMMA DiskType ==
  ASSUME Inv
  PROVE  /\ fs.disk \in [Inums -> DInode] /\ fs.ent \in [Inums -> [Entry -> Inums \cup {None}]]
         /\ \A j \in Inums : fs.disk[j].nlink \in Int
BY SlotTypes DEF Inv, FsOK, FileSystems, DInode

\* A changed link count and nothing else.
LEMMA RelinkIs ==
  ASSUME Inv, NEW i \in Inums, NEW n \in Int, Relink(i, n)
  PROVE  LinksOnly(i, n) /\ fs'.ent = fs.ent /\ fs'.used = fs.used
<1>1. PICK d : d = [type |-> fs.disk[i].type, addrs |-> fs.disk[i].addrs, nlink |-> fs.disk[i].nlink + n]
  OBVIOUS
<1>2. fs'.disk = [fs.disk EXCEPT ![i] = d] /\ fs'.ent = fs.ent /\ fs'.used = fs.used
  BY <1>1 DEF Relink, SetDisk
<1>3. ASSUME NEW j \in Inums
      PROVE  /\ fs'.disk[j].type = fs.disk[j].type /\ fs'.disk[j].addrs = fs.disk[j].addrs
             /\ fs'.disk[j].nlink = fs.disk[j].nlink + (IF j = i THEN n ELSE 0)
  <2>1. fs'.disk[j] = IF j = i THEN d ELSE fs.disk[j]
    BY <1>2, DiskType
  <2>2. PICK k \in Int : k = fs.disk[j].nlink
    BY DiskType
  <2>3. k + 0 = k
    OBVIOUS
  <2> QED
    BY <1>1, <2>1, <2>2, <2>3
<1> QED
  BY <1>2, <1>3 DEF LinksOnly

\* One inode gets the value d, or the entry n of directory i the value x.
LEMMA SetDiskIs ==
  ASSUME Inv, NEW i \in Inums, NEW d, SetDisk(fs, fs', i, d)
  PROVE  \A j \in Inums : fs'.disk[j] = IF j = i THEN d ELSE fs.disk[j]
BY DiskType DEF SetDisk

\* A changed directory entry and nothing else.
LEMMA EntersIs ==
  ASSUME Inv, NEW i \in Inums, NEW n \in Entry, NEW x, Enters(i, n, x)
  PROVE  \A j \in Inums, m \in Entry : fs'.ent[j][m] = IF j = i /\ m = n THEN x ELSE fs.ent[j][m]
<1>1. fs'.ent = [fs.ent EXCEPT ![i] = [fs.ent[i] EXCEPT ![n] = x]]
  BY DEF Enters
<1>2. ASSUME NEW j \in Inums, NEW m \in Entry
      PROVE  fs'.ent[j][m] = IF j = i /\ m = n THEN x ELSE fs.ent[j][m]
  <2>1. fs.ent[i] \in [Entry -> Inums \cup {None}]
    BY DiskType
  <2>2. fs'.ent[j] = IF j = i THEN [fs.ent[i] EXCEPT ![n] = x] ELSE fs.ent[j]
    BY <1>1, DiskType
  <2> QED
    BY <2>1, <2>2
<1> QED
  BY <1>2

\* sys_unlink() takes a link off the parent only for a directory.
LEMMA RemovesDisk ==
  ASSUME Inv, NEW p \in Procs, RemovesEntry(p)
  PROVE  LinksOnly(loc[p].dp, IF fs.disk[loc[p].ip].type = "dir" THEN -1 ELSE 0)
<1>1. loc[p].dp \in Inums /\ MadeDir(fs, loc[p].dp)
  BY ChangeFacts DEF Changes
<1>2. CASE fs.disk[loc[p].ip].type = "dir"
  <2>1. fs.disk[loc[p].dp].type = "dir"
    BY <1>1 DEF MadeDir
  <2>2. PICK d : d = [type |-> "dir", addrs |-> fs.disk[loc[p].dp].addrs,
                      nlink |-> fs.disk[loc[p].dp].nlink + (-1)]
    OBVIOUS
  <2>3. fs'.disk = [fs.disk EXCEPT ![loc[p].dp] = d]
    BY <1>2, <2>2 DEF RemovesEntry
  <2>4. PICK m \in Int : m = -1
    OBVIOUS
  <2>5. ASSUME NEW j \in Inums
        PROVE  /\ fs'.disk[j].type = fs.disk[j].type /\ fs'.disk[j].addrs = fs.disk[j].addrs
               /\ fs'.disk[j].nlink = fs.disk[j].nlink + (IF j = loc[p].dp THEN m ELSE 0)
    <3>1. fs'.disk[j] = IF j = loc[p].dp THEN d ELSE fs.disk[j]
      BY <2>3, DiskType
    <3>2. PICK k \in Int : k = fs.disk[j].nlink
      BY DiskType
    <3>3. k + 0 = k
      OBVIOUS
    <3> QED
      BY <2>1, <2>2, <2>4, <3>1, <3>2, <3>3
  <2> QED
    BY <1>2, <2>4, <2>5 DEF LinksOnly
<1>3. CASE fs.disk[loc[p].ip].type # "dir"
  <2>1. fs'.disk = fs.disk
    BY <1>3 DEF RemovesEntry
  <2>2. ASSUME NEW j \in Inums
        PROVE  fs'.disk[j].nlink = fs.disk[j].nlink + (IF j = loc[p].dp THEN 0 ELSE 0)
    <3>1. PICK k \in Int : k = fs.disk[j].nlink
      BY DiskType
    <3>2. k + 0 = k
      OBVIOUS
    <3> QED
      BY <2>1, <3>1, <3>2
  <2> QED
    BY <1>3, <2>1, <2>2 DEF LinksOnly
<1> QED
  BY <1>2, <1>3

\* A new directory, and its parent.
LEMMA MakesDirDisk ==
  ASSUME Inv, NEW p \in Procs, MakesDir(p)
  PROVE  \E k \in free(fs) :
           /\ fs'.used = fs.used \cup {k}
           /\ fs'.disk[loc[p].ip] = [type |-> "dir", nlink |-> 1, addrs |-> {k}]
           /\ fs'.disk[loc[p].dp] = [type |-> "dir", nlink |-> fs.disk[loc[p].dp].nlink + 1,
                                     addrs |-> fs.disk[loc[p].dp].addrs]
           /\ \A j \in Inums : j # loc[p].ip /\ j # loc[p].dp => fs'.disk[j] = fs.disk[j]
<1>1. loc[p].dp \in Inums /\ loc[p].ip \in Inums /\ loc[p].ip # loc[p].dp
  BY ChangeFacts DEF Changes
<1>2. PICK k \in free(fs) :
        /\ fs'.disk = [fs.disk EXCEPT ![loc[p].ip] = [type |-> "dir", nlink |-> 1, addrs |-> {k}],
                                      ![loc[p].dp] = [type |-> "dir", nlink |-> fs.disk[loc[p].dp].nlink + 1,
                                                   addrs |-> fs.disk[loc[p].dp].addrs]]
        /\ fs'.used = fs.used \cup {k}
  BY DEF MakesDir
<1>3. PICK d : d = [type |-> "dir", nlink |-> 1, addrs |-> {k}]
  OBVIOUS
<1>4. PICK e : e = [type |-> "dir", nlink |-> fs.disk[loc[p].dp].nlink + 1,
                    addrs |-> fs.disk[loc[p].dp].addrs]
  OBVIOUS
<1>5. fs'.disk = [fs.disk EXCEPT ![loc[p].ip] = d, ![loc[p].dp] = e]
  BY <1>2, <1>3, <1>4
<1>6. /\ fs'.disk[loc[p].ip] = d /\ fs'.disk[loc[p].dp] = e
      /\ \A j \in Inums : j # loc[p].ip /\ j # loc[p].dp => fs'.disk[j] = fs.disk[j]
  BY <1>1, <1>5, DiskType
<1> QED
  BY Zenon, <1>2, <1>3, <1>4, <1>6

\* The entries after mkdir.
LEMMA MakesDirEnt ==
  ASSUME Inv, NEW p \in Procs, MakesDir(p)
  PROVE  /\ fs'.ent[loc[p].ip] = [Empty EXCEPT !["."] = loc[p].ip, ![".."] = loc[p].dp]
         /\ \A j \in Inums, m \in Entry : j # loc[p].ip =>
              fs'.ent[j][m] = IF j = loc[p].dp /\ m = Head(loc[p].path) THEN loc[p].ip ELSE fs.ent[j][m]
         /\ \A j \in Inums : j # loc[p].ip /\ j # loc[p].dp => fs'.ent[j] = fs.ent[j]
<1>1. loc[p].dp \in Inums /\ loc[p].ip \in Inums /\ loc[p].ip # loc[p].dp /\ Head(loc[p].path) \in Entry
  BY ChangeFacts DEF Changes, Entry
<1>2. PICK d : d = [Empty EXCEPT !["."] = loc[p].ip, ![".."] = loc[p].dp]
  OBVIOUS
<1>3. PICK e : e = [fs.ent[loc[p].dp] EXCEPT ![Head(loc[p].path)] = loc[p].ip]
  OBVIOUS
<1>4. fs'.ent = [fs.ent EXCEPT ![loc[p].ip] = d, ![loc[p].dp] = e]
  BY <1>2, <1>3 DEF MakesDir
<1>5. /\ fs'.ent[loc[p].ip] = d /\ fs'.ent[loc[p].dp] = e
      /\ \A j \in Inums : j # loc[p].ip /\ j # loc[p].dp => fs'.ent[j] = fs.ent[j]
  BY <1>1, <1>4, DiskType
<1>6. fs.ent[loc[p].dp] \in [Entry -> Inums \cup {None}]
  BY <1>1, DiskType
<1>7. \A m \in Entry : e[m] = IF m = Head(loc[p].path) THEN loc[p].ip ELSE fs.ent[loc[p].dp][m]
  BY <1>1, <1>3, <1>6
<1> QED
  BY <1>2, <1>5, <1>7

\* An inode that is made and in no file that is being created stays as it is, unless it is
\* the one that iput() frees.
LEMMA Stays ==
  ASSUME Inv, NEW p \in Procs, Changes(p), NEW i \in Inums, Made(fs, i), ~Fresh(i),
         Freed(p) => i # loc[p].put
  PROVE  Made(fs', i) /\ fs'.disk[i].type = fs.disk[i].type
<1>1. CASE Plain(p)
  BY <1>1 DEF Plain, SameData, Made
<1>2. CASE Freed(p)
  <2>1. loc[p].put \in Inums /\ i # loc[p].put
    BY <1>2, ChangeFacts DEF Usable
  <2>2. fs'.disk[i] = fs.disk[i]
    <3>1. PICK d : SetDisk(fs, fs', loc[p].put, d)
      BY <1>2 DEF Freed
    <3> QED
      BY <2>1, <3>1, SetDiskIs
  <2> QED
    BY <2>2 DEF Made
<1>3. CASE CountsLink(p) \/ Uncounts(p)
  <2>0. loc[p].ip \in Inums
    BY <1>3, ChangeFacts
  <2>1. 1 \in Int /\ -1 \in Int /\ loc[p].ip \in Inums
    BY <2>0
  <2>2. \E n \in Int : Relink(loc[p].ip, n)
    BY <1>3, <2>1 DEF CountsLink, Uncounts
  <2>3. fs'.disk[i].type = fs.disk[i].type /\ fs'.disk[i].addrs = fs.disk[i].addrs
    BY <2>1, <2>2, RelinkIs DEF LinksOnly
  <2> QED
    BY <2>3 DEF Made
<1>4. CASE AddsEntry(p)
  BY <1>4 DEF AddsEntry, Made
<1>5. CASE RemovesEntry(p)
  <2>1. fs'.disk[i].type = fs.disk[i].type /\ fs'.disk[i].addrs = fs.disk[i].addrs
    BY <1>5, RemovesDisk DEF LinksOnly
  <2> QED
    BY <2>1 DEF Made
<1>6. CASE \E j \in Inums : Allocates(p, j)
  <2>1. PICK j \in Inums : Allocates(p, j)
    BY <1>6
  <2>2. i # j
    BY <2>1 DEF Allocates, Made
  <2>3. fs'.disk[i] = fs.disk[i]
    <3>1. PICK d : SetDisk(fs, fs', j, d)
      BY <2>1 DEF Allocates
    <3> QED
      BY <2>2, <3>1, SetDiskIs
  <2> QED
    BY <2>3 DEF Made
<1>7. CASE MakesFile(p)
  <2>1. loc[p].ip \in Inums /\ i # loc[p].ip
    BY <1>7, ChangeFacts
  <2>2. fs'.disk[i] = fs.disk[i]
    <3>1. PICK d : SetDisk(fs, fs', loc[p].ip, d)
      BY <1>7 DEF MakesFile
    <3> QED
      BY <2>1, <3>1, SetDiskIs
  <2> QED
    BY <2>2 DEF Made
<1>8. CASE MakesDir(p)
  <2>1. i # loc[p].ip /\ MadeDir(fs, loc[p].dp)
    BY <1>8, ChangeFacts
  <2>2. fs'.disk[i].type = fs.disk[i].type /\ fs'.disk[i].addrs = fs.disk[i].addrs
    <3>1. CASE i = loc[p].dp
      <4>1. PICK d : /\ fs'.disk[i] = d
                     /\ d = [type |-> "dir", nlink |-> fs.disk[loc[p].dp].nlink + 1,
                             addrs |-> fs.disk[loc[p].dp].addrs]
        BY <1>8, <3>1, MakesDirDisk
      <4>2. d.type = "dir" /\ d.addrs = fs.disk[loc[p].dp].addrs
        BY <4>1
      <4> QED
        BY <2>1, <3>1, <4>1, <4>2 DEF MadeDir
    <3>2. CASE i # loc[p].dp
      BY <1>8, <2>1, <3>2, MakesDirDisk
    <3> QED
      BY <3>1, <3>2
  <2> QED
    BY <2>2 DEF Made
<1>9. CASE Writes(p)
  <2>1. PICK k : SetDisk(fs, fs', file[p], [type |-> fs.disk[file[p]].type, nlink |-> fs.disk[file[p]].nlink,
                                     addrs |-> fs.disk[file[p]].addrs \cup {k}])
    BY <1>9 DEF Writes
  <2>2. PICK d : d = [type |-> fs.disk[file[p]].type, nlink |-> fs.disk[file[p]].nlink,
                                     addrs |-> fs.disk[file[p]].addrs \cup {k}]
    OBVIOUS
  <2>3. file[p] \in Inums
    BY <1>9, ChangeFacts
  <2>4. fs'.disk[i] = IF i = file[p] THEN d ELSE fs.disk[i]
    BY <2>1, <2>2, <2>3, SetDiskIs
  <2> QED
    BY <2>2, <2>4 DEF Made
<1> QED
  BY <1>1, <1>2, <1>3, <1>4, <1>5, <1>6, <1>7, <1>8, <1>9 DEF Changes

\* Only ialloc() makes a process the owner of a new inode.
LEMMA NewStage ==
  ASSUME Inv, NEW p \in Procs, Effect(p), Stage(loc'[p]) = "createNew"
  PROVE  \/ Stage(loc[p]) = "createNew" /\ loc'[p].ip = loc[p].ip /\ loc'[p].op = loc[p].op
         \/ /\ loc'[p].ip \in Inums /\ Allocates(p, loc'[p].ip) /\ loc'[p].op = loc[p].op
            /\ fs.disk[loc'[p].ip].type = "free"
<1>1. CASE Follows(loc[p], loc'[p])
  BY <1>1 DEF Follows
<1>2. CASE Learns(p)
  <2>1. loc \in [Procs -> Local] /\ loc[p] \in Local
    BY DEF Inv, Shapes
  <2>2. CASE Stops(p) \/ CountsLink(p) \/ FindsEntry(p) \/ RemovesEntry(p)
    <3>1. PICK L \in Local : L = loc[p]
      BY Zenon, <2>1
    <3>2. PICK M : /\ Becomes(p, M)
                   /\ \/ M = [L EXCEPT !.pc = "linkNew", !.dp = L.at, !.at = None]
                      \/ M = [L EXCEPT !.pc = L.op, !.dp = L.at, !.at = None]
                      \/ M = [L EXCEPT !.pc = "walk", !.path = L.new, !.at = ROOTINO]
                      \/ \E i : M = [L EXCEPT !.pc = "unlinkEntry", !.ip = i]
                      \/ M = PutDp(L, "unlinkLast")
      <4>1. CASE Stops(p)
        BY Zenon, <3>1, <4>1 DEF Stops
      <4>2. CASE CountsLink(p)
        BY Zenon, <3>1, <4>2 DEF CountsLink
      <4>3. CASE FindsEntry(p)
        BY Zenon, <3>1, <4>3 DEF FindsEntry
      <4>4. CASE RemovesEntry(p)
        BY Zenon, <3>1, <4>4 DEF RemovesEntry
      <4> QED
        BY Zenon, <2>2, <4>1, <4>2, <4>3, <4>4
    <3>3. Stage(M) # "createNew"
      BY Zenon, <3>2 DEF Stage, PutDp, Local
    <3>4. loc'[p] = M
      BY Zenon, <2>1, <3>2, View
    <3> QED
      BY <3>3, <3>4
  <2>3. CASE \E i \in Inums : Allocates(p, i)
    <3>1. PICK i \in Inums : Allocates(p, i)
      BY <2>3
    <3>2. loc'[p] = [loc[p] EXCEPT !.pc = "createNew", !.ip = i]
      BY <2>1, <3>1, View DEF Allocates
    <3>3. loc'[p].ip = i /\ loc'[p].op = loc[p].op
      BY <2>1, <3>2 DEF Local
    <3> QED
      BY <3>1, <3>3 DEF Allocates
  <2> QED
    BY <1>2, <2>2, <2>3 DEF Learns
<1> QED
  BY <1>1, <1>2, ShapeEffect

\* Who is fresh after a step was fresh before, or free.
LEMMA FreshAfter ==
  ASSUME Inv, NEW p \in Procs, Effect(p), NEW i, Fresh(i)'
  PROVE  Fresh(i) \/ ~Made(fs, i)
<1>1. PICK q \in Procs : Stage(loc'[q]) = "createNew" /\ loc'[q].ip = i
  BY DEF Fresh
<1>2. CASE q = p
  BY <1>1, <1>2, NewStage DEF Fresh, Made
<1>3. CASE q # p
  BY <1>1, <1>3, EffectApart DEF Apart, Fresh
<1> QED
  BY <1>2, <1>3

\* What is good stays good.
LEMMA GoodStays ==
  ASSUME Inv, NEW p \in Procs, Effect(p), NEW x, Good(x), Freed(p) => x # loc[p].put
  PROVE  Good(x)'
<1>1. SUFFICES ASSUME x # None PROVE x \in Inums /\ Made(fs', x) /\ ~Fresh(x)'
  BY DEF Good
<1>2. x \in Inums /\ Made(fs, x) /\ ~Fresh(x)
  BY <1>1 DEF Good
<1>3. Made(fs', x)
  BY <1>2, EffectChanges, Stays
<1> QED
  BY <1>2, <1>3, FreshAfter

\* Good local variables stay good, unless what they point to is freed.
LEMMA GoodVarsStay ==
  ASSUME Inv, NEW p \in Procs, Effect(p), NEW L, GoodVars(L),
         Freed(p) => loc[p].put \notin {L.at, L.ip, L.dp}
                     /\ (L.pc # "drop" => loc[p].put # L.put)
  PROVE  GoodVars(L)'
<1>1. Good(L.at)' /\ Good(L.dp)'
  BY GoodStays DEF GoodVars
<1>2. Stage(L) # "createNew" => Good(L.ip)'
  BY GoodStays DEF GoodVars
<1>3. L.pc # "drop" => Good(L.put)'
  BY GoodStays DEF GoodVars
<1> QED
  BY <1>1, <1>2, <1>3 DEF GoodVars

\* The inode that iput() frees has no other pointer to it.
LEMMA FreedAlone ==
  ASSUME Inv, NEW p \in Procs, Freed(p), NEW q \in Procs
  PROVE  /\ loc[p].put \notin {Dir(loc[q], cwd[q]), file[q], loc[q].at, loc[q].ip, loc[q].dp}
         /\ q # p => loc[p].put # loc[q].put
<1>1. PICK i \in Inums : i = loc[p].put
  BY ChangeFacts DEF Changes
<1>n. 1 \in 1 .. 6 /\ 2 \in 1 .. 6 /\ 3 \in 1 .. 6 /\ 4 \in 1 .. 6 /\ 5 \in 1 .. 6 /\ 6 \in 1 .. 6
  OBVIOUS
<1>2. Pointers(p)[6] = i /\ fs.mem[i].ref = 1 /\ RefsExact
  BY <1>1, PointersAre DEF Freed, Inv
<1>3. \A k \in 1 .. 6 : Pointers(q)[k] = i => q = p /\ k = 6
  BY <1>n, <1>2, RefOnly
<1>4. Pointers(q)[1] = Dir(loc[q], cwd[q])
  <2>1. "chdirDone" \in {loc[q].pc, loc[q].ret} <=> Stage(loc[q]) = "chdirDone"
    BY Facts DEF Shape, Stage
  <2> QED
    BY <2>1, PointersAre DEF Dir
<1>5. /\ Pointers(q)[2] = file[q] /\ Pointers(q)[3] = loc[q].at /\ Pointers(q)[4] = loc[q].ip
      /\ Pointers(q)[5] = loc[q].dp /\ Pointers(q)[6] = loc[q].put
  BY PointersAre
<1>6. 1 # 6 /\ 2 # 6 /\ 3 # 6 /\ 4 # 6 /\ 5 # 6
  OBVIOUS
<1> QED
  BY <1>1, <1>n, <1>3, <1>4, <1>5, <1>6

\* The variables of the process that frees an inode.
LEMMA FreedVars ==
  ASSUME Inv, NEW p \in Procs, Freed(p)
  PROVE  /\ Dir(loc'[p], cwd'[p]) = Dir(loc[p], cwd[p]) /\ file'[p] = file[p] /\ loc'[p].pc = "drop"
         /\ loc'[p].at = loc[p].at /\ loc'[p].ip = loc[p].ip /\ loc'[p].dp = loc[p].dp
<1>1. loc \in [Procs -> Local] /\ loc[p] \in Local
  BY DEF Inv, Shapes
<1>2. loc'[p] = [loc[p] EXCEPT !.pc = "drop"] /\ UNCHANGED <<cwd, file>> /\ loc[p].pc = "iput"
  BY <1>1, View DEF Freed, Rest
<1>3. /\ loc'[p].at = loc[p].at /\ loc'[p].ip = loc[p].ip /\ loc'[p].dp = loc[p].dp
      /\ loc'[p].ret = loc[p].ret /\ loc'[p].pc = "drop"
  BY <1>1, <1>2 DEF Local
<1> QED
  BY <1>2, <1>3 DEF Dir, Stage

\* create() has made its inode.
LEMMA MakesVars ==
  ASSUME Inv, NEW p \in Procs, MakesFile(p) \/ MakesDir(p)
  PROVE  /\ Stage(loc'[p]) = "opened" /\ loc'[p].pc = "iput" /\ loc'[p].ip = loc[p].ip
         /\ loc'[p].at = loc[p].at /\ loc'[p].dp = None /\ loc'[p].put = loc[p].dp
         /\ Dir(loc'[p], cwd'[p]) = Dir(loc[p], cwd[p]) /\ file'[p] = file[p]
         /\ Made(fs', loc[p].ip) /\ ~Fresh(loc[p].ip)'
<1>1. loc \in [Procs -> Local] /\ loc[p] \in Local /\ Shape(loc[p])
  BY DEF Inv, Shapes
<1>2. PICK M : M = PutDp(loc[p], "opened")
  OBVIOUS
<1>3. loc'[p] = M /\ UNCHANGED <<cwd, file>> /\ loc[p].pc = "createNew"
  BY <1>1, <1>2, View DEF MakesFile, MakesDir, Rest
<1>4. M.pc = "iput" /\ M.ret = "opened" /\ M.put = loc[p].dp /\ M.dp = None /\ M.ip = loc[p].ip
      /\ M.at = loc[p].at
  BY <1>1, <1>2 DEF PutDp, Local
<1>5. Stage(M) = "opened" /\ Stage(loc[p]) = "createNew"
  BY <1>3, <1>4 DEF Stage
<1>6. Made(fs', loc[p].ip)
  <2>0. loc[p].ip \in Inums
    BY ChangeFacts DEF Changes
  <2>1. CASE MakesFile(p)
    <3>1. PICK d : d = [type |-> "file", nlink |-> 1, addrs |-> {}] /\ SetDisk(fs, fs', loc[p].ip, d)
      BY <2>1 DEF MakesFile
    <3>2. fs'.disk[loc[p].ip] = d /\ d.type = "file"
      BY <2>0, <3>1, SetDiskIs
    <3> QED
      BY <3>2 DEF Made
  <2>2. CASE MakesDir(p)
    <3>1. PICK k : fs'.disk[loc[p].ip] = [type |-> "dir", nlink |-> 1, addrs |-> {k}]
      BY <2>2, MakesDirDisk
    <3>2. fs'.disk[loc[p].ip].type = "dir" /\ fs'.disk[loc[p].ip].addrs = {k}
      BY <3>1
    <3> QED
      BY <3>2 DEF Made
  <2> QED
    BY <2>1, <2>2
<1>7. ~Fresh(loc[p].ip)'
  <2>1. SUFFICES ASSUME NEW q \in Procs, Stage(loc'[q]) = "createNew", loc'[q].ip = loc'[p].ip
                 PROVE  FALSE
    BY DEF Fresh
  <2>2. q # p
    BY <1>3, <1>5, <2>1
  <2>3. Effect(p)
    BY DEF Effect
  <2>4. Stage(loc[q]) = "createNew" /\ loc[q].ip = loc[p].ip
    BY <1>3, <1>4, <2>1, <2>2, <2>3, EffectApart DEF Apart
  <2> QED
    BY <1>5, <2>2, <2>4 DEF Inv, FreshOK
<1> QED
  BY <1>3, <1>4, <1>5, <1>6, <1>7 DEF Dir

AllAreGood == \A p \in Procs : GoodAll(p)

\* Good pointers are what PointersMade asks for.
LEMMA AreGood == Shapes /\ AllAreGood => PointersMade
BY PointersMadeIs DEF AllAreGood, GoodAll

\* Pointers lead to inodes that are made, after every step: iput() frees only what nobody
\* else points to.
LEMMA PointersMadeEffect ==
  ASSUME Inv, NEW p \in Procs, Effect(p)
  PROVE  PointersMade'
<1>1. Shapes' /\ Apart(p) /\ \A q \in Procs : GoodAll(q)
  BY ShapeEffect, EffectApart, AllGood
<1>2. ASSUME NEW q \in Procs
      PROVE  GoodAll(q)'
  <2>1. CASE q # p
    <3>1. Freed(p) => /\ loc[p].put \notin {Dir(loc[q], cwd[q]), file[q], loc[q].at, loc[q].ip, loc[q].dp}
                      /\ loc[p].put # loc[q].put
      BY <2>1, FreedAlone
    <3>2. Good(Dir(loc[q], cwd[q]))' /\ Good(file[q])'
      <4>1. loc'[q] = loc[q] /\ cwd'[q] = cwd[q] /\ file'[q] = file[q]
        BY <1>1, <2>1 DEF Apart
      <4>2. PICK x, y : x = Dir(loc[q], cwd[q]) /\ y = file[q]
        OBVIOUS
      <4>3. Good(x)' /\ Good(y)'
        BY <1>1, <3>1, <4>2, GoodStays DEF GoodAll
      <4>4. Dir(loc[q], cwd[q])' = x /\ file'[q] = y
        BY <4>1, <4>2
      <4> QED
        BY <4>3, <4>4
    <3>3. PICK L : L = loc[q]
      OBVIOUS
    <3>4. GoodVars(L)'
      BY <1>1, <3>1, <3>3, GoodVarsStay DEF GoodAll
    <3>5. loc'[q] = L
      BY <1>1, <2>1, <3>3 DEF Apart
    <3> QED
      BY <3>2, <3>4, <3>5 DEF GoodAll
  <2>2. CASE q = p /\ ~MakesFile(p) /\ ~MakesDir(p)
    <3>1. PICK M, x, y : M = loc'[p] /\ x = Dir(loc'[p], cwd'[p]) /\ y = file'[p]
      OBVIOUS
    <3>2. Good(x) /\ Good(y) /\ GoodVars(M)
      BY <2>2, <3>1, GoodEffect DEF GoodNow
    <3>3. Freed(p) => /\ loc[p].put \notin {x, y, M.at, M.ip, M.dp} /\ M.pc = "drop"
      BY <3>1, FreedAlone, FreedVars
    <3>4. Good(x)' /\ Good(y)' /\ GoodVars(M)'
      BY <3>2, <3>3, GoodStays, GoodVarsStay
    <3> QED
      BY <2>2, <3>1, <3>4 DEF GoodAll
  <2>3. CASE q = p /\ (MakesFile(p) \/ MakesDir(p))
    <3>1. PICK L, x, y : L = loc[p] /\ x = Dir(loc[p], cwd[p]) /\ y = file[p]
      OBVIOUS
    <3>2. Good(x) /\ Good(y) /\ GoodVars(L)
      BY Zenon, <1>1, <3>1 DEF GoodAll
    <3>3. ~Freed(p)
      BY <2>3 DEF MakesFile, MakesDir, Freed
    <3>4. Good(x)' /\ Good(y)' /\ Good(L.at)' /\ Good(L.dp)'
      BY <3>2, <3>3, GoodStays DEF GoodVars
    <3>5. PICK M : M = loc'[p]
      OBVIOUS
    <3>6. /\ M.ip = L.ip /\ M.at = L.at /\ M.dp = None /\ M.put = L.dp
          /\ Dir(loc'[p], cwd'[p]) = x /\ file'[p] = y
          /\ Made(fs', L.ip) /\ ~Fresh(L.ip)'
      BY <2>3, <3>1, <3>5, MakesVars
    <3>7. L.ip \in Inums
      BY <2>3, <3>1, ChangeFacts DEF Changes
    <3>8. Good(L.ip)' /\ Good(None)'
      BY <3>6, <3>7 DEF Good
    <3>9. GoodVars(M)'
      BY <3>4, <3>6, <3>8 DEF GoodVars
    <3> QED
      BY <2>3, <3>4, <3>5, <3>6, <3>9 DEF GoodAll
  <2> QED
    BY <2>1, <2>2, <2>3
<1>3. (Shapes /\ AllAreGood => PointersMade)'
  BY AreGood, PTL
<1>4. AllAreGood'
  BY <1>2 DEF AllAreGood
<1> QED
  BY <1>1, <1>3, <1>4

\* What a step leaves alone.
LEMMA Untouched ==
  ASSUME Inv, NEW p \in Procs, Changes(p), NEW i \in Inums
  PROVE  /\ \/ fs'.disk[i] = fs.disk[i]
            \/ Freed(p) /\ i = loc[p].put
            \/ (CountsLink(p) \/ Uncounts(p)) /\ i = loc[p].ip
            \/ RemovesEntry(p) /\ i = loc[p].dp
            \/ Allocates(p, i)
            \/ MakesFile(p) /\ i = loc[p].ip
            \/ MakesDir(p) /\ i \in {loc[p].ip, loc[p].dp}
            \/ Writes(p) /\ i = file[p]
         /\ \/ fs'.ent[i] = fs.ent[i]
            \/ Freed(p) /\ i = loc[p].put
            \/ (AddsEntry(p) \/ RemovesEntry(p) \/ MakesFile(p)) /\ i = loc[p].dp
            \/ MakesDir(p) /\ i \in {loc[p].ip, loc[p].dp}
<1>s. ASSUME NEW j \in Inums, j # i, NEW d, SetDisk(fs, fs', j, d) PROVE fs'.disk[i] = fs.disk[i]
  BY <1>s, SetDiskIs
<1>e. ASSUME NEW j, j # i, NEW d, fs'.ent = [fs.ent EXCEPT ![j] = d] PROVE fs'.ent[i] = fs.ent[i]
  BY <1>e, DiskType
<1>1. CASE Plain(p)
  BY <1>1 DEF Plain, SameData
<1>2. CASE Freed(p)
  <2>1. loc[p].put \in Inums
    BY <1>2, ChangeFacts
  <2>2. PICK d : SetDisk(fs, fs', loc[p].put, d)
    BY <1>2 DEF Freed
  <2>3. fs'.ent = [fs.ent EXCEPT ![loc[p].put] = Empty]
    BY <1>2 DEF Freed
  <2> QED
    BY <1>s, <1>e, <1>2, <2>1, <2>2, <2>3
<1>3. CASE CountsLink(p) \/ Uncounts(p)
  <2>1. loc[p].ip \in Inums
    BY <1>3, ChangeFacts
  <2>2. PICK d : SetDisk(fs, fs', loc[p].ip, d)
    BY <1>3 DEF CountsLink, Uncounts, Relink
  <2>3. fs'.ent = fs.ent
    BY <1>3 DEF CountsLink, Uncounts, Relink
  <2> QED
    BY <1>s, <1>3, <2>1, <2>2, <2>3
<1>4. CASE AddsEntry(p)
  <2>1. PICK d : fs'.ent = [fs.ent EXCEPT ![loc[p].dp] = d]
    BY <1>4 DEF AddsEntry, Enters
  <2>2. fs'.disk = fs.disk
    BY <1>4 DEF AddsEntry
  <2> QED
    BY <1>e, <1>4, <2>1, <2>2
<1>5. CASE RemovesEntry(p)
  <2>1. PICK d : fs'.ent = [fs.ent EXCEPT ![loc[p].dp] = d]
    BY <1>5 DEF RemovesEntry, Enters
  <2>2. loc[p].dp \in Inums
    BY <1>5, ChangeFacts
  <2>3. fs'.disk = fs.disk \/ \E e : SetDisk(fs, fs', loc[p].dp, e)
    BY <1>5 DEF RemovesEntry, SetDisk
  <2> QED
    BY <1>s, <1>e, <1>5, <2>1, <2>2, <2>3
<1>6. CASE \E j \in Inums : Allocates(p, j)
  <2>1. PICK j \in Inums : Allocates(p, j)
    BY <1>6
  <2>2. PICK d : SetDisk(fs, fs', j, d)
    BY <2>1 DEF Allocates
  <2>3. fs'.ent = fs.ent
    BY <2>1 DEF Allocates
  <2> QED
    BY <1>s, <2>1, <2>2, <2>3
<1>7. CASE MakesFile(p)
  <2>1. PICK d : fs'.ent = [fs.ent EXCEPT ![loc[p].dp] = d]
    BY <1>7 DEF MakesFile, Enters
  <2>2. loc[p].ip \in Inums
    BY <1>7, ChangeFacts
  <2>3. PICK e : SetDisk(fs, fs', loc[p].ip, e)
    BY <1>7 DEF MakesFile
  <2> QED
    BY <1>s, <1>e, <1>7, <2>1, <2>2, <2>3
<1>8. CASE MakesDir(p)
  <2>1. \A j \in Inums : j # loc[p].ip /\ j # loc[p].dp => fs'.disk[j] = fs.disk[j]
    BY <1>8, MakesDirDisk
  <2>2. \A j \in Inums : j # loc[p].ip /\ j # loc[p].dp => fs'.ent[j] = fs.ent[j]
    BY <1>8, MakesDirEnt
  <2> QED
    BY <1>8, <2>1, <2>2
<1>9. CASE Writes(p)
  <2>1. PICK d : SetDisk(fs, fs', file[p], d)
    BY <1>9 DEF Writes
  <2>2. file[p] \in Inums /\ fs'.ent = fs.ent
    BY <1>9, ChangeFacts DEF Writes
  <2> QED
    BY <1>s, <1>9, <2>1, <2>2
<1> QED
  BY <1>1, <1>2, <1>3, <1>4, <1>5, <1>6, <1>7, <1>8, <1>9 DEF Changes

\* What ialloc() has given out, nobody else touches.
LEMMA FreshStays ==
  ASSUME Inv, NEW p \in Procs, Changes(p), NEW i \in Inums, Fresh(i),
         MakesFile(p) \/ MakesDir(p) => i # loc[p].ip
  PROVE  fs'.disk[i] = fs.disk[i] /\ fs'.ent[i] = fs.ent[i]
<1>1. fs.disk[i].type # "free"
  <2>1. PICK q \in Procs : Stage(loc[q]) = "createNew" /\ loc[q].ip = i
    BY DEF Fresh
  <2>2. fs.disk[i] = [type |-> TypeFor(loc[q].op), nlink |-> 0, addrs |-> {}]
    BY <2>1 DEF Inv, FreshOK
  <2>3. fs.disk[i].type = TypeFor(loc[q].op)
    BY <2>2
  <2> QED
    BY <2>3 DEF TypeFor
<1>2. ~Allocates(p, i)
  BY <1>1 DEF Allocates
<1>3. /\ Freed(p) => i # loc[p].put
      /\ CountsLink(p) \/ Uncounts(p) => i # loc[p].ip
      /\ AddsEntry(p) \/ RemovesEntry(p) \/ MakesFile(p) \/ MakesDir(p) => i # loc[p].dp
      /\ Writes(p) => i # file[p]
  BY ChangeFacts DEF Usable
<1> QED
  BY <1>2, <1>3, Untouched

\* An inode that is being made has no name and no other pointer, after every step.
LEMMA FreshOKEffect ==
  ASSUME Inv, NEW p \in Procs, Effect(p)
  PROVE  FreshOK'
<1>0. /\ Apart(p) /\ Changes(p) /\ DOMAIN loc = Procs
  BY EffectApart, EffectChanges DEF Inv, Shapes
<1>1. ASSUME NEW q \in Procs, Stage(loc'[q]) = "createNew"
      PROVE  \/ /\ Stage(loc[q]) = "createNew" /\ loc'[q].ip = loc[q].ip /\ loc'[q].op = loc[q].op
                /\ MakesFile(p) \/ MakesDir(p) => q # p
             \/ /\ q = p /\ loc'[q].ip \in Inums /\ Allocates(p, loc'[q].ip) /\ loc'[q].op = loc[q].op
                /\ fs.disk[loc'[q].ip].type = "free"
  <2>1. CASE q = p
    <3>1. ~MakesFile(p) /\ ~MakesDir(p)
      BY <1>1, <2>1, MakesVars
    <3> QED
      BY <1>1, <2>1, <3>1, NewStage
  <2>2. CASE q # p
    BY <1>0, <1>1, <2>2 DEF Apart
  <2> QED
    BY <2>1, <2>2
<1>2. ASSUME NEW q \in Procs, Stage(loc'[q]) = "createNew"
      PROVE  fs'.disk[loc'[q].ip] = [type |-> TypeFor(loc'[q].op), nlink |-> 0, addrs |-> {}]
             /\ fs'.ent[loc'[q].ip] = Empty
  <2>1. CASE /\ Stage(loc[q]) = "createNew" /\ loc'[q].ip = loc[q].ip /\ loc'[q].op = loc[q].op
             /\ MakesFile(p) \/ MakesDir(p) => q # p
    <3>1. Fresh(loc[q].ip) /\ loc[q].ip \in Inums
      BY <2>1, FreshHas DEF Fresh
    <3>2. MakesFile(p) \/ MakesDir(p) => loc[q].ip # loc[p].ip
      <4>1. MakesFile(p) \/ MakesDir(p) => Stage(loc[p]) = "createNew"
        BY DEF MakesFile, MakesDir, Stage
      <4> QED
        BY <2>1, <4>1 DEF Inv, FreshOK
    <3>3. fs'.disk[loc[q].ip] = fs.disk[loc[q].ip] /\ fs'.ent[loc[q].ip] = fs.ent[loc[q].ip]
      BY <1>0, <3>1, <3>2, FreshStays
    <3>4. /\ fs.disk[loc[q].ip] = [type |-> TypeFor(loc[q].op), nlink |-> 0, addrs |-> {}]
          /\ fs.ent[loc[q].ip] = Empty
      BY <2>1 DEF Inv, FreshOK
    <3> QED
      BY <2>1, <3>3, <3>4
  <2>2. CASE /\ q = p /\ loc'[q].ip \in Inums /\ Allocates(p, loc'[q].ip) /\ loc'[q].op = loc[q].op
             /\ fs.disk[loc'[q].ip].type = "free"
    <3>1. PICK i \in Inums : i = loc'[q].ip
      BY <2>2
    <3>2. Allocates(p, i) /\ fs.disk[i].type = "free"
      BY <2>2, <3>1
    <3>3. PICK d : d = [type |-> TypeFor(loc[p].op), nlink |-> 0, addrs |-> {}]
      OBVIOUS
    <3>4. SetDisk(fs, fs', i, d) /\ fs'.ent = fs.ent
      BY <3>2, <3>3 DEF Allocates
    <3>5. fs'.disk[i] = d
      BY <3>4, SetDiskIs
    <3>6. fs.ent[i] = Empty
      BY <3>2 DEF Inv, Tree, MadeDir, Made
    <3> QED
      BY <2>2, <3>1, <3>3, <3>4, <3>5, <3>6
  <2> QED
    BY <1>1, <1>2, <2>1, <2>2
<1>3. ASSUME NEW q \in Procs, NEW r \in Procs, Stage(loc'[q]) = "createNew",
             Stage(loc'[r]) = "createNew", loc'[r].ip = loc'[q].ip
      PROVE  r = q
  <2>1. ASSUME NEW x \in Procs, Stage(loc[x]) = "createNew" PROVE fs.disk[loc[x].ip].type # "free"
    <3>1. fs.disk[loc[x].ip] = [type |-> TypeFor(loc[x].op), nlink |-> 0, addrs |-> {}]
      BY <2>1 DEF Inv, FreshOK
    <3>2. fs.disk[loc[x].ip].type = TypeFor(loc[x].op)
      BY <3>1
    <3> QED
      BY <3>2 DEF TypeFor
  <2>2. CASE Stage(loc[q]) = "createNew" /\ loc'[q].ip = loc[q].ip
    <3>1. Stage(loc[r]) = "createNew" /\ loc'[r].ip = loc[r].ip
      BY <1>1, <1>3, <2>1, <2>2
    <3> QED
      BY <1>3, <2>2, <3>1 DEF Inv, FreshOK
  <2>3. CASE q = p /\ fs.disk[loc'[q].ip].type = "free"
    BY Zenon, <1>1, <1>3, <2>1, <2>3
  <2> QED
    BY <1>1, <1>3, <2>2, <2>3
<1> QED
  BY <1>2, <1>3 DEF FreshOK

\* What a process learns about its inodes.
LEMMA LearnsIs ==
  ASSUME Inv, NEW p \in Procs, Effect(p)
  PROVE  \/ Follows(loc[p], loc'[p])
         \/ /\ Stops(p) /\ loc'[p].dp = loc[p].at /\ loc'[p].ip = loc[p].ip
            /\ Stage(loc'[p]) # "unlinkEntry"
            /\ Linking(loc'[p]) => Linking(loc[p])
            /\ Counted(loc'[p]) => Counted(loc[p])
         \/ /\ CountsLink(p) /\ loc'[p].dp = loc[p].dp /\ loc'[p].ip = loc[p].ip
            /\ Stage(loc'[p]) # "unlinkEntry" /\ ~Counted(loc[p])
         \/ /\ FindsEntry(p) /\ loc'[p].dp = loc[p].dp /\ ~Linking(loc'[p]) /\ ~Counted(loc'[p])
            /\ loc'[p].path = loc[p].path
            /\ loc'[p].ip = fs.ent[loc[p].dp][Head(loc[p].path)]
         \/ /\ RemovesEntry(p) /\ loc'[p].dp = None /\ loc'[p].ip = loc[p].ip
            /\ ~Linking(loc'[p]) /\ Stage(loc'[p]) = "unlinkLast" /\ ~Counted(loc[p])
         \/ /\ \E i \in Inums : Allocates(p, i)
            /\ loc'[p].dp = loc[p].dp /\ ~Linking(loc'[p]) /\ ~Counted(loc'[p])
            /\ Stage(loc'[p]) # "unlinkEntry"
<1>1. loc \in [Procs -> Local] /\ loc[p] \in Local /\ Shape(loc[p])
  BY DEF Inv, Shapes
<1>2. PICK L \in Local : L = loc[p] /\ Shape(L)
  BY <1>1
<1>3. CASE Stops(p)
  <2>1. PICK M : /\ M = [L EXCEPT !.pc = IF L.op = "link" THEN "linkNew" ELSE L.op,
                                  !.dp = L.at, !.at = None]
                 /\ Becomes(p, M)
    BY <1>2, <1>3 DEF Stops
  <2>2. loc'[p] = M /\ L.pc = "walk" /\ nameiparent(L)
    BY <1>1, <1>2, <1>3, <2>1, View DEF Stops
  <2>3. M.dp = L.at /\ M.ip = L.ip /\ M.pc = IF L.op = "link" THEN "linkNew" ELSE L.op
    BY <2>1 DEF Local
  <2>4. Stage(L) = "walk" /\ L.op \in {"link", "unlink", "create", "mkdir"}
    BY <2>2 DEF Stage, nameiparent
  <2>5. Stage(M) \in {"linkNew", "unlink", "create", "mkdir"}
    BY <2>3, <2>4 DEF Stage
  <2>6. (Linking(M) => Linking(L)) /\ (Counted(M) => Counted(L))
    BY <2>3, <2>4, <2>5 DEF Linking, Counted
  <2> QED
    BY <1>2, <1>3, <2>2, <2>3, <2>5, <2>6
<1>4. CASE CountsLink(p)
  <2>1. PICK M : /\ M = [L EXCEPT !.pc = "walk", !.path = L.new, !.at = ROOTINO] /\ Becomes(p, M)
    BY <1>2, <1>4 DEF CountsLink
  <2>2. loc'[p] = M /\ L.pc = "link"
    BY <1>1, <1>2, <1>4, <2>1, View DEF CountsLink
  <2>3. M.dp = L.dp /\ M.ip = L.ip /\ M.pc = "walk"
    BY <2>1 DEF Local
  <2>4. Stage(L) = "link" /\ Stage(M) = "walk"
    BY <2>2, <2>3 DEF Stage
  <2>5. ~Counted(L)
    BY <2>4 DEF Counted, Linking
  <2> QED
    BY <1>2, <1>4, <2>2, <2>3, <2>4, <2>5
<1>5. CASE FindsEntry(p)
  <2>1. PICK M : /\ M = [L EXCEPT !.pc = "unlinkEntry", !.ip = fs.ent[L.dp][Head(L.path)]]
                 /\ Becomes(p, M)
    BY Zenon, <1>2, <1>5 DEF FindsEntry
  <2>2. loc'[p] = M
    BY <1>1, <2>1, View
  <2>3. M.dp = L.dp /\ M.ip = fs.ent[L.dp][Head(L.path)] /\ M.pc = "unlinkEntry" /\ M.path = L.path
    BY <2>1 DEF Local
  <2>4. Stage(M) = "unlinkEntry"
    BY <2>3 DEF Stage
  <2>5. ~Counted(M) /\ ~Linking(M)
    BY <2>4 DEF Counted, Linking
  <2> QED
    BY Zenon, <1>2, <1>5, <2>2, <2>3, <2>4, <2>5
<1>6. CASE RemovesEntry(p)
  <2>1. PICK M : M = PutDp(L, "unlinkLast") /\ Becomes(p, M)
    BY <1>2, <1>6 DEF RemovesEntry
  <2>2. loc'[p] = M /\ L.pc = "unlinkEntry"
    BY <1>1, <1>2, <1>6, <2>1, View DEF RemovesEntry
  <2>3. M.dp = None /\ M.ip = L.ip /\ M.pc = "iput" /\ M.ret = "unlinkLast"
    BY <2>1 DEF Local, PutDp
  <2>4. Stage(M) = "unlinkLast" /\ Stage(L) = "unlinkEntry"
    BY <2>2, <2>3 DEF Stage
  <2>5. ~Counted(L) /\ ~Linking(M)
    BY <2>4 DEF Counted, Linking
  <2> QED
    BY <1>2, <1>6, <2>2, <2>3, <2>4, <2>5
<1>7. CASE \E i \in Inums : Allocates(p, i)
  <2>0. PICK i \in Inums : Allocates(p, i)
    BY <1>7
  <2>1. PICK M : M = [L EXCEPT !.pc = "createNew", !.ip = i] /\ Becomes(p, M)
    BY <1>2, <2>0 DEF Allocates
  <2>2. loc'[p] = M
    BY <1>1, <2>1, View
  <2>3. M.dp = L.dp /\ M.pc = "createNew"
    BY <2>1 DEF Local
  <2>4. Stage(M) = "createNew"
    BY <2>3 DEF Stage
  <2>5. ~Counted(M) /\ ~Linking(M)
    BY <2>4 DEF Counted, Linking
  <2> QED
    BY <1>2, <1>7, <2>2, <2>3, <2>4, <2>5
<1> QED
  BY <1>3, <1>4, <1>5, <1>6, <1>7, ShapeEffect DEF Learns

\* What a pointer of a process points to keeps its type.
LEMMA TypeStays ==
  ASSUME Inv, NEW p \in Procs, Changes(p), NEW q \in Procs, NEW i, i # None,
         \/ i = loc[q].dp \/ i = loc[q].at
         \/ i = loc[q].ip /\ Stage(loc[q]) # "createNew"
  PROVE  i \in Inums /\ ~Fresh(i) /\ Made(fs, i) /\ fs'.disk[i].type = fs.disk[i].type
         /\ (Freed(p) => i # loc[p].put)
<1>1. Usable(i)
  BY Facts
<1>2. i \in Inums /\ Made(fs, i) /\ ~Fresh(i)
  BY <1>1 DEF Usable
<1>3. Freed(p) => i # loc[p].put
  BY FreedAlone
<1> QED
  BY <1>2, <1>3, Stays

\* A parent that was found stays a directory.
LEMMA ParentsEffect ==
  ASSUME Inv, NEW p \in Procs, Effect(p)
  PROVE  ParentsAreDirs'
<1>1. SUFFICES ASSUME NEW q \in Procs, loc'[q].dp # None
               PROVE  fs'.disk[loc'[q].dp].type = "dir"
  BY DEF ParentsAreDirs
<1>2. Apart(p) /\ Changes(p)
  BY EffectApart, EffectChanges
<1>3. CASE loc'[q].dp = loc[q].dp
  <2>1. fs.disk[loc[q].dp].type = "dir"
    BY <1>1, <1>3 DEF Inv, ParentsAreDirs
  <2>2. fs'.disk[loc[q].dp].type = fs.disk[loc[q].dp].type
    BY <1>1, <1>2, <1>3, TypeStays
  <2> QED
    BY <1>3, <2>1, <2>2
<1>4. CASE q = p /\ Stops(p) /\ loc'[p].dp = loc[p].at
  <2>1. fs.disk[loc[p].at].type = "dir" /\ SameData(fs, fs')
    BY <1>4 DEF Stops, Quiet
  <2> QED
    BY <1>4, <2>1 DEF SameData
<1> QED
  BY <1>1, <1>2, <1>3, <1>4, LearnsIs DEF Apart, Follows

\* A file that is being linked stays a file.
LEMMA LinkedEffect ==
  ASSUME Inv, NEW p \in Procs, Effect(p)
  PROVE  LinkedAreFiles'
<1>1. SUFFICES ASSUME NEW q \in Procs, Linking(loc'[q])
               PROVE  fs'.disk[loc'[q].ip].type = "file"
  BY DEF LinkedAreFiles
<1>2. Apart(p) /\ Changes(p)
  BY EffectApart, EffectChanges
<1>3. CASE loc'[q].ip = loc[q].ip /\ Linking(loc[q])
  <2>1. fs.disk[loc[q].ip].type = "file"
    BY <1>1, <1>3 DEF Inv, LinkedAreFiles
  <2>2. loc[q].ip # None /\ Stage(loc[q]) # "createNew"
    BY <1>3 DEF Linking
  <2>3. fs'.disk[loc[q].ip].type = fs.disk[loc[q].ip].type
    BY <1>2, <2>2, TypeStays
  <2> QED
    BY <1>3, <2>1, <2>3
<1>4. CASE q = p /\ CountsLink(p) /\ loc'[p].ip = loc[p].ip
  <2>1. loc[p].ip # None /\ Stage(loc[p]) # "createNew" /\ fs.disk[loc[p].ip].type # "dir"
    BY <1>1, <1>4 DEF Linking, CountsLink, Stage
  <2>2. loc[p].ip \in Inums /\ Made(fs, loc[p].ip)
        /\ fs'.disk[loc[p].ip].type = fs.disk[loc[p].ip].type
    BY <1>2, <2>1, TypeStays
  <2>3. fs.disk[loc[p].ip] \in DInode
    BY <2>2, DiskType
  <2>4. fs.disk[loc[p].ip].type = "file"
    BY <2>1, <2>2, <2>3 DEF Made, DInode
  <2> QED
    BY <1>4, <2>2, <2>4
<1> QED
  BY <1>1, <1>2, <1>3, <1>4, LearnsIs DEF Apart, Follows

\* Where sys_unlink() is when it has removed the entry.
LEMMA RemovesStage ==
  ASSUME Inv, NEW p \in Procs, RemovesEntry(p)
  PROVE  Stage(loc'[p]) = "unlinkLast"
<1>1. loc \in [Procs -> Local] /\ loc[p] \in Local
  BY DEF Inv, Shapes
<1>2. PICK M : M = PutDp(loc[p], "unlinkLast") /\ Becomes(p, M)
  BY DEF RemovesEntry
<1>3. loc'[p] = M
  BY <1>1, <1>2, View
<1>4. M.pc = "iput" /\ M.ret = "unlinkLast"
  BY <1>1, <1>2 DEF PutDp, Local
<1> QED
  BY <1>3, <1>4 DEF Stage

\* The entry that sys_unlink() has found stays there while it holds the parent.
LEMMA EntryThereEffect ==
  ASSUME Inv, NEW p \in Procs, Effect(p)
  PROVE  EntryThere'
<1>1. SUFFICES ASSUME NEW q \in Procs, Stage(loc'[q]) = "unlinkEntry"
               PROVE  fs'.ent[loc'[q].dp][Head(loc'[q].path)] = loc'[q].ip
  BY DEF EntryThere
<1>2. Apart(p) /\ Changes(p)
  BY EffectApart, EffectChanges
<1>3. CASE /\ Stage(loc[q]) = "unlinkEntry" /\ loc'[q].dp = loc[q].dp /\ loc'[q].ip = loc[q].ip
           /\ loc'[q].path = loc[q].path
  <2>1. fs.ent[loc[q].dp][Head(loc[q].path)] = loc[q].ip
    BY <1>3 DEF Inv, EntryThere
  <2>2. Usable(loc[q].dp) /\ loc[q].dp \in Inums /\ fs.mem[loc[q].dp].owner = q
    BY <1>3, HeldDp DEF LocksDp
  <2>3. Freed(p) => loc[p].put # loc[q].dp
    BY FreedAlone
  <2>4. AddsEntry(p) => loc[p].dp # loc[q].dp
    BY <2>2, FsAssumption DEF AddsEntry
  <2>5. RemovesEntry(p) \/ MakesFile(p) \/ MakesDir(p) => q # p
    BY <1>1, MakesVars, RemovesStage
  <2>6. RemovesEntry(p) \/ MakesFile(p) \/ MakesDir(p) => loc[p].dp # loc[q].dp
    BY Zenon, <1>2, <2>2, <2>5, ChangeFacts
  <2>7. MakesDir(p) => loc[p].ip # loc[q].dp
    BY <1>2, <2>2, ChangeFacts DEF Usable
  <2>8. fs'.ent[loc[q].dp] = fs.ent[loc[q].dp]
    BY <1>2, <2>2, <2>3, <2>4, <2>6, <2>7, Untouched
  <2> QED
    BY <1>3, <2>1, <2>8
<1>4. CASE /\ q = p /\ FindsEntry(p) /\ loc'[p].dp = loc[p].dp /\ loc'[p].path = loc[p].path
           /\ loc'[p].ip = fs.ent[loc[p].dp][Head(loc[p].path)]
  <2>1. fs'.ent = fs.ent
    BY <1>4 DEF FindsEntry, SameData
  <2> QED
    BY Zenon, <1>4, <2>1
<1> QED
  BY <1>1, <1>2, <1>3, <1>4, LearnsIs DEF Apart, Follows

-----------------------------------------------------------------------------
\* The directories after a step.

\* The names of directory entries.
LEMMA Dotted ==
  /\ "." \in Entry /\ ".." \in Entry /\ "." \notin Names /\ ".." \notin Names /\ Names \subseteq Entry
  /\ Empty \in [Entry -> {None}] /\ \A m \in Entry : Empty[m] = None
  /\ "." # ".."
BY FsAssumption DEF Entry, Dots, Empty

\* The entries stay.
LEMMA TreeKeeps ==
  ASSUME Inv, fs'.ent = fs.ent,
         \A i \in Inums : MadeDir(fs', i) <=> MadeDir(fs, i),
         \A i \in Inums : Made(fs, i) => Made(fs', i) /\ fs'.disk[i].type = fs.disk[i].type
  PROVE  Tree(fs') /\ Root(fs')
<1>1. Tree(fs) /\ Root(fs) /\ ROOTINO \in Inums
  BY InumsAre DEF Inv
<1>2. Root(fs')
  BY <1>1 DEF Root
<1>3. ASSUME NEW i \in Inums
      PROVE  IF MadeDir(fs', i) THEN fs'.ent[i]["."] = i /\ fs'.ent[i][".."] # None
                                ELSE fs'.ent[i] = Empty
  BY <1>1 DEF Tree
<1>4. ASSUME NEW i \in Inums, NEW n \in Names, fs'.ent[i][n] # None
      PROVE  /\ Made(fs', fs'.ent[i][n])
             /\ fs'.disk[fs'.ent[i][n]].type = "dir" => fs'.ent[fs'.ent[i][n]][".."] = i
             /\ \A m \in Names : fs'.ent[fs'.ent[i][n]][m] # i
  <2>1. PICK v : v = fs.ent[i][n]
    OBVIOUS
  <2>2. v \in Inums /\ v # None
    <3>1. fs.ent[i] \in [Entry -> Inums \cup {None}]
      BY DiskType
    <3> QED
      BY <1>4, <2>1, <3>1, Dotted
  <2>3. /\ Made(fs, v) /\ (fs.disk[v].type = "dir" => fs.ent[v][".."] = i)
        /\ \A m \in Names : fs.ent[v][m] # i
    BY <1>1, <2>1, <2>2 DEF Tree
  <2>4. fs'.ent[i][n] = v /\ Made(fs', v) /\ fs'.disk[v].type = fs.disk[v].type
    BY Zenon, <2>1, <2>2, <2>3
  <2> QED
    BY <2>3, <2>4
<1> QED
  BY <1>2, <1>3, <1>4 DEF Tree

\* Directory d gets the entry n for inode i.
Gains(d, n, i) ==
    /\ \A j \in Inums : j # i => /\ Made(fs', j) <=> Made(fs, j)
                                /\ fs'.disk[j].type = fs.disk[j].type
    /\ \A j \in Inums, m \in Entry : j # i =>
          fs'.ent[j][m] = IF j = d /\ m = n THEN i ELSE fs.ent[j][m]
    /\ \A j \in Inums : j # i /\ j # d => fs'.ent[j] = fs.ent[j]
    /\ \/ /\ fs'.disk[i].type = "dir" /\ Named(fs, i) = {}
          /\ fs'.ent[i] = [Empty EXCEPT !["."] = i, ![".."] = d]
       \/ fs'.disk[i].type = "file" /\ fs'.ent[i] = Empty

\* The directories stay a tree when one of them does.
LEMMA TreeGains ==
  ASSUME Inv, NEW d \in Inums, NEW i \in Inums, NEW n \in Names, i # d, MadeDir(fs, d),
         fs.ent[i] = Empty, Made(fs', i), Gains(d, n, i)
  PROVE  Tree(fs') /\ Root(fs')
<1> USE DEF Gains
<1>1. Tree(fs) /\ Root(fs) /\ ROOTINO \in Inums /\ None \notin Inums
  BY InumsAre DEF Inv
<1>2. n \in Entry /\ n # "." /\ n # ".."
  BY Dotted
<1>3. \A m \in Names : fs'.ent[i][m] = None
  BY Dotted
<1>4. fs'.disk[i].type = "dir" => fs'.ent[i]["."] = i /\ fs'.ent[i][".."] = d
  BY Dotted
<1>5. Root(fs')
  <2>1. ROOTINO # i
    <3>1. fs.ent[ROOTINO][".."] = ROOTINO
      BY <1>1 DEF Root
    <3> QED
      BY <1>1, <3>1, Dotted
  <2>2. fs'.ent[ROOTINO][".."] = ROOTINO
    BY <1>1, <1>2, <2>1, Dotted DEF Root
  <2> QED
    BY <1>1, <2>1, <2>2 DEF Root, MadeDir
<1>6. ASSUME NEW j \in Inums
      PROVE  IF MadeDir(fs', j) THEN fs'.ent[j]["."] = j /\ fs'.ent[j][".."] # None
                                ELSE fs'.ent[j] = Empty
  <2>1. CASE j = i
    BY <1>1, <1>4, <2>1 DEF MadeDir
  <2>2. CASE j = d
    <3>1. MadeDir(fs', j)
      BY <2>2 DEF MadeDir
    <3>2. fs'.ent[j]["."] = fs.ent[j]["."] /\ fs'.ent[j][".."] = fs.ent[j][".."]
      BY <1>2, <2>2, Dotted
    <3> QED
      BY <1>1, <2>2, <3>1, <3>2 DEF Tree
  <2>3. CASE j # i /\ j # d
    BY <1>1, <2>3 DEF Tree, MadeDir
  <2> QED
    BY <2>1, <2>2, <2>3
<1>7. ASSUME NEW x \in Inums, NEW m \in Names, fs'.ent[x][m] # None
      PROVE  /\ Made(fs', fs'.ent[x][m])
             /\ fs'.disk[fs'.ent[x][m]].type = "dir" => fs'.ent[fs'.ent[x][m]][".."] = x
             /\ \A k \in Names : fs'.ent[fs'.ent[x][m]][k] # x
  <2>1. x # i
    BY <1>3, <1>7
  <2>2. CASE x = d /\ m = n
    <3>1. fs'.ent[x][m] = i
      BY <1>2, <2>1, <2>2
    <3> QED
      BY <1>1, <1>3, <1>4, <2>2, <3>1
  <2>3. CASE ~(x = d /\ m = n)
    <3>1. fs'.ent[x][m] = fs.ent[x][m]
      BY <2>1, <2>3, Dotted
    <3>2. PICK v : v = fs.ent[x][m]
      OBVIOUS
    <3>3. v \in Inums /\ v # None
      <4>1. fs.ent[x] \in [Entry -> Inums \cup {None}]
        BY DiskType
      <4> QED
        BY <1>7, <3>1, <3>2, <4>1, Dotted
    <3>4. /\ Made(fs, v) /\ (fs.disk[v].type = "dir" => fs.ent[v][".."] = x)
          /\ \A k \in Names : fs.ent[v][k] # x
      BY <1>1, <3>2, <3>3 DEF Tree
    <3>5. CASE v = i
      <4>1. <<x, m>> \in Named(fs, i)
        BY Zenon, <3>2, <3>5 DEF Named
      <4>2. fs'.disk[i].type = "file"
        BY <4>1
      <4> QED
        BY <1>1, <1>3, <3>1, <3>2, <3>5, <4>2
    <3>6. CASE v # i
      <4>1. Made(fs', v) /\ fs'.disk[v].type = fs.disk[v].type /\ fs'.ent[v][".."] = fs.ent[v][".."]
        BY <1>2, <3>3, <3>4, <3>6, Dotted
      <4>2. ASSUME NEW k \in Names PROVE fs'.ent[v][k] # x
        <5>1. fs'.ent[v][k] \in {i, fs.ent[v][k]}
          BY <3>3, <3>6, Dotted
        <5> QED
          BY <2>1, <3>4, <5>1
      <4> QED
        BY Zenon, <3>1, <3>2, <3>4, <4>1, <4>2
    <3> QED
      BY <3>5, <3>6
  <2> QED
    BY <2>2, <2>3
<1> QED
  BY <1>5, <1>6, <1>7 DEF Tree

\* Entries disappear.
LEMMA TreeLoses ==
  ASSUME Inv,
         \A i \in Inums : IF MadeDir(fs', i)
                            THEN /\ MadeDir(fs, i) /\ fs'.ent[i]["."] = fs.ent[i]["."]
                                 /\ fs'.ent[i][".."] = fs.ent[i][".."]
                            ELSE fs'.ent[i] = Empty,
         \A i \in Inums, n \in Names : fs'.ent[i][n] \in {None, fs.ent[i][n]},
         \A i \in Inums, n \in Names, j \in Inums : fs'.ent[i][n] = j =>
            /\ Made(fs', j) /\ fs'.disk[j].type = fs.disk[j].type
            /\ fs'.ent[j][".."] = fs.ent[j][".."],
         MadeDir(fs', ROOTINO)
  PROVE  Tree(fs') /\ Root(fs')
<1>1. Tree(fs) /\ Root(fs) /\ ROOTINO \in Inums /\ None \notin Inums
  BY InumsAre DEF Inv
<1>2. Root(fs')
  BY <1>1 DEF Root
<1>3. ASSUME NEW i \in Inums
      PROVE  IF MadeDir(fs', i) THEN fs'.ent[i]["."] = i /\ fs'.ent[i][".."] # None
                                ELSE fs'.ent[i] = Empty
  BY <1>1 DEF Tree
<1>4. ASSUME NEW i \in Inums, NEW n \in Names, fs'.ent[i][n] # None
      PROVE  /\ Made(fs', fs'.ent[i][n])
             /\ fs'.disk[fs'.ent[i][n]].type = "dir" => fs'.ent[fs'.ent[i][n]][".."] = i
             /\ \A m \in Names : fs'.ent[fs'.ent[i][n]][m] # i
  <2>1. PICK v : v = fs.ent[i][n]
    OBVIOUS
  <2>2. fs'.ent[i][n] = v /\ v # None
    BY <1>4, <2>1
  <2>3. v \in Inums
    <3>1. fs.ent[i] \in [Entry -> Inums \cup {None}]
      BY DiskType
    <3> QED
      BY <2>1, <2>2, <3>1, Dotted
  <2>4. /\ Made(fs, v) /\ (fs.disk[v].type = "dir" => fs.ent[v][".."] = i)
        /\ \A m \in Names : fs.ent[v][m] # i
    BY <1>1, <2>1, <2>2 DEF Tree
  <2>5. /\ Made(fs', v) /\ fs'.disk[v].type = fs.disk[v].type
        /\ fs'.ent[v][".."] = fs.ent[v][".."]
    BY <2>2, <2>3
  <2>6. \A m \in Names : fs'.ent[v][m] # i
    BY <1>1, <2>3, <2>4
  <2> QED
    BY <2>2, <2>4, <2>5, <2>6
<1> QED
  BY <1>2, <1>3, <1>4 DEF Tree

\* The directories stay a tree as far as the proofs need it: a name leads to a directory
\* whose parent is the one with the name.
LEMMA TreeEffect ==
  ASSUME Inv, NEW p \in Procs, Changes(p)
  PROVE  Tree(fs') /\ Root(fs')
<1>1. Tree(fs) /\ Root(fs) /\ ROOTINO \in Inums /\ None \notin Inums
  BY InumsAre DEF Inv
<1>2. CASE Plain(p)
  BY <1>2, TreeKeeps DEF Plain, SameData, MadeDir, Made
<1>3. CASE CountsLink(p) \/ Uncounts(p)
  <2>0. loc[p].ip \in Inums
    BY <1>3, ChangeFacts
  <2>1. 1 \in Int /\ -1 \in Int
    OBVIOUS
  <2>2. PICK n \in Int : Relink(loc[p].ip, n)
    BY <1>3, <2>1 DEF CountsLink, Uncounts
  <2>3. fs'.ent = fs.ent /\ \A j \in Inums : fs'.disk[j].type = fs.disk[j].type
                                             /\ fs'.disk[j].addrs = fs.disk[j].addrs
    BY <2>0, <2>2, RelinkIs DEF LinksOnly
  <2> QED
    BY <2>3, TreeKeeps DEF MadeDir, Made
<1>4. CASE \E i \in Inums : Allocates(p, i)
  <2>1. PICK i \in Inums : Allocates(p, i)
    BY <1>4
  <2>2. PICK d : d = [type |-> TypeFor(loc[p].op), nlink |-> 0, addrs |-> {}]
    OBVIOUS
  <2>3. SetDisk(fs, fs', i, d) /\ fs'.ent = fs.ent /\ fs.disk[i].type = "free"
    BY <2>1, <2>2 DEF Allocates
  <2>4. \A j \in Inums : fs'.disk[j] = IF j = i THEN d ELSE fs.disk[j]
    BY <2>3, SetDiskIs
  <2>5. d.addrs = {}
    BY <2>2
  <2>6. ~MadeDir(fs', i) /\ ~Made(fs, i)
    BY <2>3, <2>4, <2>5 DEF MadeDir, Made
  <2>7. \A j \in Inums : j # i => (MadeDir(fs', j) <=> MadeDir(fs, j)) /\ (Made(fs, j) => Made(fs', j))
                                  /\ fs'.disk[j].type = fs.disk[j].type
    BY <2>4 DEF MadeDir, Made
  <2>8. \A j \in Inums : MadeDir(fs', j) <=> MadeDir(fs, j)
    BY <2>6, <2>7 DEF MadeDir
  <2>9. \A j \in Inums : Made(fs, j) => Made(fs', j) /\ fs'.disk[j].type = fs.disk[j].type
    BY <2>6, <2>7
  <2> QED
    BY <2>3, <2>8, <2>9, TreeKeeps
<1>5. CASE Writes(p)
  <2>1. file[p] \in Inums /\ Made(fs, file[p]) /\ fs'.ent = fs.ent
    BY <1>5, ChangeFacts DEF Usable, Writes
  <2>2. PICK k : SetDisk(fs, fs', file[p], [type |-> fs.disk[file[p]].type, nlink |-> fs.disk[file[p]].nlink,
                                     addrs |-> fs.disk[file[p]].addrs \cup {k}])
    BY <1>5 DEF Writes
  <2>3. PICK d : d = [type |-> fs.disk[file[p]].type, nlink |-> fs.disk[file[p]].nlink,
                                     addrs |-> fs.disk[file[p]].addrs \cup {k}]
    OBVIOUS
  <2>4. \A j \in Inums : fs'.disk[j] = IF j = file[p] THEN d ELSE fs.disk[j]
    BY <2>1, <2>2, <2>3, SetDiskIs
  <2>5. d.type = fs.disk[file[p]].type /\ d.addrs # {}
    BY <2>3
  <2>6. \A j \in Inums : /\ Made(fs', j) <=> Made(fs, j)
                         /\ fs'.disk[j].type = fs.disk[j].type
    BY <2>1, <2>4, <2>5 DEF Made
  <2> QED
    BY Zenon, <2>1, <2>6, TreeKeeps DEF MadeDir
<1>6. CASE AddsEntry(p)
  <2>1. PICK i \in Inums, d \in Inums, n \in Names :
          i = loc[p].ip /\ d = loc[p].dp /\ n = Head(loc[p].path)
    BY <1>6, ChangeFacts DEF AddsEntry
  <2>2. MadeDir(fs, d) /\ Made(fs, i) /\ i # d /\ fs.disk[i].type = "file"
    BY <1>6, <2>1, ChangeFacts DEF Usable
  <2>3. fs'.disk = fs.disk /\ Enters(d, n, i)
    BY <1>6, <2>1 DEF AddsEntry
  <2>4. fs.ent[i] = Empty
    BY <1>1, <2>2 DEF Tree, MadeDir
  <2>5. \A j \in Inums, m \in Entry : fs'.ent[j][m] = IF j = d /\ m = n THEN i ELSE fs.ent[j][m]
    BY <2>3, EntersIs, Dotted
  <2>6. \A j \in Inums : j # d => fs'.ent[j] = fs.ent[j]
    BY <2>3, DiskType DEF Enters
  <2>7. Made(fs', i) /\ \A j \in Inums : /\ Made(fs', j) <=> Made(fs, j)
                                        /\ fs'.disk[j].type = fs.disk[j].type
    BY <2>2, <2>3 DEF Made
  <2>8. fs'.disk[i].type = "file" /\ fs'.ent[i] = Empty
    BY <2>2, <2>3, <2>4, <2>6
  <2>9. \A j \in Inums : j # i => /\ Made(fs', j) <=> Made(fs, j)
                                  /\ fs'.disk[j].type = fs.disk[j].type
    BY Zenon, <2>7
  <2>10. \A j \in Inums, m \in Entry : j # i =>
            fs'.ent[j][m] = IF j = d /\ m = n THEN i ELSE fs.ent[j][m]
    BY Zenon, <2>5
  <2>11. \A j \in Inums : j # i /\ j # d => fs'.ent[j] = fs.ent[j]
    BY Zenon, <2>6
  <2>12. Gains(d, n, i)
    BY Zenon, <2>8, <2>9, <2>10, <2>11 DEF Gains
  <2> QED
    BY Zenon, <2>2, <2>4, <2>7, <2>12, TreeGains
<1>7. CASE RemovesEntry(p)
  <2>1. PICK i \in Inums, d \in Inums, n \in Names :
          i = loc[p].ip /\ d = loc[p].dp /\ n = Head(loc[p].path)
    BY Zenon, <1>7, ChangeFacts
  <2>2. \A j \in Inums : fs'.disk[j].type = fs.disk[j].type /\ fs'.disk[j].addrs = fs.disk[j].addrs
    BY <1>7, RemovesDisk DEF LinksOnly
  <2>3. Enters(d, n, None) /\ MadeDir(fs, d)
    BY Zenon, <1>7, <2>1, ChangeFacts DEF RemovesEntry
  <2>4. \A j \in Inums, m \in Entry : fs'.ent[j][m] = IF j = d /\ m = n THEN None ELSE fs.ent[j][m]
    BY <2>3, EntersIs, Dotted
  <2>5. \A j \in Inums : j # d => fs'.ent[j] = fs.ent[j]
    BY <2>3, DiskType DEF Enters
  <2>6. \A j \in Inums : (Made(fs', j) <=> Made(fs, j)) /\ (MadeDir(fs', j) <=> MadeDir(fs, j))
    BY <2>2 DEF Made, MadeDir
  <2>7. \A j \in Inums : fs'.ent[j]["."] = fs.ent[j]["."] /\ fs'.ent[j][".."] = fs.ent[j][".."]
    BY <2>4, Dotted
  <2>8. \A j \in Inums : ~MadeDir(fs', j) => fs'.ent[j] = Empty
    BY <1>1, <2>3, <2>5, <2>6 DEF Tree
  <2>9. ASSUME NEW x \in Inums, NEW m \in Names
        PROVE  fs'.ent[x][m] \in {None, fs.ent[x][m]}
    BY <2>4, Dotted
  <2>10. ASSUME NEW x \in Inums, NEW m \in Names, NEW j \in Inums, fs'.ent[x][m] = j
         PROVE  /\ Made(fs', j) /\ fs'.disk[j].type = fs.disk[j].type
                /\ fs'.ent[j][".."] = fs.ent[j][".."]
    <3>1. fs.ent[x][m] = j /\ j # None
      BY <1>1, <2>9, <2>10
    <3> QED
      BY <1>1, <2>2, <2>6, <2>7, <3>1 DEF Tree
  <2>11. MadeDir(fs', ROOTINO)
    BY <1>1, <2>6 DEF Root
  <2> QED
    BY <2>6, <2>7, <2>8, <2>9, <2>10, <2>11, TreeLoses
<1>8. CASE Freed(p)
  <2>1. PICK i \in Inums : i = loc[p].put
    BY <1>8, ChangeFacts
  <2>2. PICK d : d = [type |-> "free", nlink |-> 0, addrs |-> {}]
    OBVIOUS
  <2>3. SetDisk(fs, fs', i, d) /\ fs'.ent = [fs.ent EXCEPT ![i] = Empty] /\ fs.disk[i].nlink = 0
    BY <1>8, <2>1, <2>2 DEF Freed
  <2>4. Named(fs, i) = {} /\ i # ROOTINO
    <3>1. PICK z \in Int : z = 0
      OBVIOUS
    <3>2. fs.disk[i].nlink = z /\ z <= 0
      BY <2>3, <3>1
    <3>3. fs.disk[i].nlink <= 0
      BY <3>2
    <3> QED
      BY <3>3, NoLinks DEF Inv
  <2>5. /\ \A j \in Inums : fs'.disk[j] = IF j = i THEN d ELSE fs.disk[j]
        /\ \A j \in Inums : fs'.ent[j] = IF j = i THEN Empty ELSE fs.ent[j]
    BY <2>3, SetDiskIs, DiskType
  <2>6. d.type = "free"
    BY <2>2
  <2>7. ~MadeDir(fs', i) /\ ~Made(fs', i) /\ fs'.ent[i] = Empty
    BY <2>5, <2>6 DEF MadeDir, Made
  <2>8. \A j \in Inums : j # i => /\ (MadeDir(fs', j) <=> MadeDir(fs, j)) /\ (Made(fs', j) <=> Made(fs, j))
                                  /\ fs'.disk[j].type = fs.disk[j].type /\ fs'.ent[j] = fs.ent[j]
    BY <2>5 DEF MadeDir, Made
  <2>9. ASSUME NEW x \in Inums
        PROVE  IF MadeDir(fs', x) THEN /\ MadeDir(fs, x) /\ fs'.ent[x]["."] = fs.ent[x]["."]
                                       /\ fs'.ent[x][".."] = fs.ent[x][".."]
                                  ELSE fs'.ent[x] = Empty
    BY <1>1, <2>7, <2>8 DEF Tree
  <2>10. ASSUME NEW x \in Inums, NEW m \in Names
         PROVE  fs'.ent[x][m] \in {None, fs.ent[x][m]}
    BY <2>7, <2>8, Dotted
  <2>11. ASSUME NEW x \in Inums, NEW m \in Names, NEW j \in Inums, fs'.ent[x][m] = j
         PROVE  /\ Made(fs', j) /\ fs'.disk[j].type = fs.disk[j].type
                /\ fs'.ent[j][".."] = fs.ent[j][".."]
    <3>1. fs.ent[x][m] = j /\ j # None
      BY <1>1, <2>10, <2>11
    <3>2. j # i
      <4>1. <<x, m>> \in Named(fs, j)
        BY <3>1 DEF Named
      <4> QED
        BY <2>4, <4>1
    <3> QED
      BY <1>1, <2>8, <3>1, <3>2 DEF Tree
  <2>12. MadeDir(fs', ROOTINO)
    BY <1>1, <2>4, <2>8 DEF Root
  <2> QED
    BY <2>9, <2>10, <2>11, <2>12, TreeLoses
<1>9. CASE MakesFile(p)
  <2>1. PICK i \in Inums, d \in Inums, n \in Names :
          i = loc[p].ip /\ d = loc[p].dp /\ n = Head(loc[p].path)
    BY <1>9, ChangeFacts
  <2>2. MadeDir(fs, d) /\ i # d /\ fs.ent[i] = Empty
    BY <1>9, <2>1, ChangeFacts
  <2>3. PICK e : e = [type |-> "file", nlink |-> 1, addrs |-> {}]
    OBVIOUS
  <2>4. SetDisk(fs, fs', i, e) /\ Enters(d, n, i)
    BY <1>9, <2>1, <2>3 DEF MakesFile
  <2>5. \A j \in Inums : fs'.disk[j] = IF j = i THEN e ELSE fs.disk[j]
    BY <2>4, SetDiskIs
  <2>6. \A j \in Inums, m \in Entry : fs'.ent[j][m] = IF j = d /\ m = n THEN i ELSE fs.ent[j][m]
    BY <2>4, EntersIs, Dotted
  <2>7. \A j \in Inums : j # d => fs'.ent[j] = fs.ent[j]
    BY <2>4, DiskType DEF Enters
  <2>8. Made(fs', i) /\ fs'.disk[i].type = "file"
    BY <2>3, <2>5 DEF Made
  <2>9. \A j \in Inums : j # i => (Made(fs', j) <=> Made(fs, j)) /\ fs'.disk[j].type = fs.disk[j].type
    BY <2>5 DEF Made
  <2>10. fs'.ent[i] = Empty
    BY Zenon, <2>2, <2>7
  <2>11. \A j \in Inums, m \in Entry : j # i =>
            fs'.ent[j][m] = IF j = d /\ m = n THEN i ELSE fs.ent[j][m]
    BY Zenon, <2>6
  <2>12. \A j \in Inums : j # i /\ j # d => fs'.ent[j] = fs.ent[j]
    BY Zenon, <2>7
  <2>13. Gains(d, n, i)
    BY Zenon, <2>8, <2>9, <2>10, <2>11, <2>12 DEF Gains
  <2> QED
    BY Zenon, <2>2, <2>8, <2>13, TreeGains
<1>10. CASE MakesDir(p)
  <2>1. PICK i \in Inums, d \in Inums, n \in Names :
          i = loc[p].ip /\ d = loc[p].dp /\ n = Head(loc[p].path)
    BY <1>10, ChangeFacts
  <2>2. MadeDir(fs, d) /\ i # d /\ fs.ent[i] = Empty /\ Fresh(i)
    BY <1>10, <2>1, ChangeFacts
  <2>3. Named(fs, i) = {}
    BY <2>2, FreshHas
  <2>4. PICK k : /\ fs'.disk[i] = [type |-> "dir", nlink |-> 1, addrs |-> {k}]
                 /\ fs'.disk[d] = [type |-> "dir", nlink |-> fs.disk[d].nlink + 1,
                                   addrs |-> fs.disk[d].addrs]
                 /\ \A j \in Inums : j # i /\ j # d => fs'.disk[j] = fs.disk[j]
    BY <1>10, <2>1, MakesDirDisk
  <2>5. Made(fs', i) /\ fs'.disk[i].type = "dir"
    BY <2>4 DEF Made
  <2>6. fs'.disk[d].type = fs.disk[d].type /\ fs'.disk[d].addrs = fs.disk[d].addrs
    BY <2>2, <2>4 DEF MadeDir
  <2>7. \A j \in Inums : j # i => (Made(fs', j) <=> Made(fs, j)) /\ fs'.disk[j].type = fs.disk[j].type
    BY <2>4, <2>6 DEF Made
  <2>8. /\ fs'.ent[i] = [Empty EXCEPT !["."] = i, ![".."] = d]
        /\ \A j \in Inums, m \in Entry : j # i =>
              fs'.ent[j][m] = IF j = d /\ m = n THEN i ELSE fs.ent[j][m]
        /\ \A j \in Inums : j # i /\ j # d => fs'.ent[j] = fs.ent[j]
    BY <1>10, <2>1, MakesDirEnt
  <2>9. Gains(d, n, i)
    BY Zenon, <2>2, <2>3, <2>5, <2>7, <2>8 DEF Gains
  <2> QED
    BY Zenon, <2>2, <2>3, <2>5, <2>9, TreeGains
<1> QED
  BY <1>2, <1>3, <1>4, <1>5, <1>6, <1>7, <1>8, <1>9, <1>10 DEF Changes

-----------------------------------------------------------------------------
\* The blocks after a step.

\* The blocks, when none changes owner,
LEMMA BlockedKeeps ==
  ASSUME Blocked(fs), fs'.used = fs.used,
         \A i \in Inums : fs'.disk[i].addrs = fs.disk[i].addrs,
         \A i \in Inums : fs'.disk[i].type = "free" => fs'.disk[i].addrs = {}
  PROVE  Blocked(fs')
<1>1. {fs'.disk[i].addrs : i \in Inums} = {fs.disk[i].addrs : i \in Inums}
  OBVIOUS
<1> QED
  BY <1>1 DEF Blocked

\* when an inode gains one,
LEMMA BlockedGains ==
  ASSUME Blocked(fs), NEW i \in Inums, NEW k \in free(fs), fs'.used = fs.used \cup {k},
         fs'.disk[i].addrs = fs.disk[i].addrs \cup {k}, fs'.disk[i].type # "free",
         \A j \in Inums : j # i => /\ fs'.disk[j].addrs = fs.disk[j].addrs
                                   /\ fs'.disk[j].type = fs.disk[j].type
  PROVE  Blocked(fs')
<1>1. ASSUME NEW b
      PROVE  b \in fs'.used <=> \E j \in Inums : b \in fs'.disk[j].addrs
  <2>1. b \in fs.used <=> \E j \in Inums : b \in fs.disk[j].addrs
    BY DEF Blocked
  <2> QED
    BY <2>1
<1>2. fs'.used = UNION {fs'.disk[j].addrs : j \in Inums}
  BY <1>1
<1>3. \A j \in Inums : k \notin fs.disk[j].addrs
  BY DEF Blocked, free
<1>4. \A j, m \in Inums : j # m => fs'.disk[j].addrs \cap fs'.disk[m].addrs = {}
  <2>1. SUFFICES ASSUME NEW j \in Inums, NEW m \in Inums, j # m
                 PROVE  fs'.disk[j].addrs \cap fs'.disk[m].addrs = {}
    OBVIOUS
  <2>2. fs.disk[j].addrs \cap fs.disk[m].addrs = {}
    BY <2>1 DEF Blocked
  <2>3. CASE j = i
    BY <1>3, <2>1, <2>2, <2>3
  <2>4. CASE m = i
    BY <1>3, <2>1, <2>2, <2>4
  <2>5. CASE j # i /\ m # i
    BY <2>2, <2>5
  <2> QED
    BY <2>3, <2>4, <2>5
<1>5. \A j \in Inums : fs'.disk[j].type = "free" => fs'.disk[j].addrs = {}
  BY DEF Blocked
<1> QED
  BY <1>2, <1>4, <1>5 DEF Blocked

\* and when it gives back its own.
LEMMA BlockedLoses ==
  ASSUME Blocked(fs), NEW i \in Inums, fs'.used = fs.used \ fs.disk[i].addrs,
         fs'.disk[i].addrs = {},
         \A j \in Inums : j # i => /\ fs'.disk[j].addrs = fs.disk[j].addrs
                                   /\ fs'.disk[j].type = fs.disk[j].type
  PROVE  Blocked(fs')
<1>1. ASSUME NEW b
      PROVE  b \in fs'.used <=> \E j \in Inums : b \in fs'.disk[j].addrs
  <2>1. b \in fs.used <=> \E j \in Inums : b \in fs.disk[j].addrs
    BY DEF Blocked
  <2>2. \A j \in Inums : j # i => ~(b \in fs.disk[j].addrs /\ b \in fs.disk[i].addrs)
    BY DEF Blocked
  <2> QED
    BY <2>1, <2>2
<1>2. fs'.used = UNION {fs'.disk[j].addrs : j \in Inums}
  BY <1>1
<1>4. \A j, m \in Inums : j # m => fs'.disk[j].addrs \cap fs'.disk[m].addrs = {}
  <2>1. SUFFICES ASSUME NEW j \in Inums, NEW m \in Inums, j # m
                 PROVE  fs'.disk[j].addrs \cap fs'.disk[m].addrs = {}
    OBVIOUS
  <2>2. fs.disk[j].addrs \cap fs.disk[m].addrs = {}
    BY <2>1 DEF Blocked
  <2>3. CASE j = i \/ m = i
    BY <2>3
  <2>5. CASE j # i /\ m # i
    BY <2>2, <2>5
  <2> QED
    BY <2>3, <2>5
<1>5. \A j \in Inums : fs'.disk[j].type = "free" => fs'.disk[j].addrs = {}
  BY DEF Blocked
<1> QED
  BY <1>2, <1>4, <1>5 DEF Blocked

\* The bitmap is exact after every step.
LEMMA BlockedEffect ==
  ASSUME Inv, NEW p \in Procs, Changes(p)
  PROVE  Blocked(fs')
<1>1. Blocked(fs)
  BY DEF Inv
<1>f. \A j \in Inums : fs.disk[j].type = "free" => fs.disk[j].addrs = {}
  BY <1>1 DEF Blocked
<1>2. CASE Plain(p)
  BY <1>1, <1>2 DEF Plain, SameData, Blocked
<1>3. CASE CountsLink(p) \/ Uncounts(p)
  <2>0. loc[p].ip \in Inums
    BY <1>3, ChangeFacts
  <2>1. 1 \in Int /\ -1 \in Int
    OBVIOUS
  <2>2. PICK n \in Int : Relink(loc[p].ip, n)
    BY <1>3, <2>1 DEF CountsLink, Uncounts
  <2>3. fs'.used = fs.used /\ \A j \in Inums : fs'.disk[j].type = fs.disk[j].type
                                               /\ fs'.disk[j].addrs = fs.disk[j].addrs
    BY <2>0, <2>2, RelinkIs DEF LinksOnly
  <2> QED
    BY <1>1, <1>f, <2>3, BlockedKeeps
<1>4. CASE \E i \in Inums : Allocates(p, i)
  <2>1. PICK i \in Inums : Allocates(p, i)
    BY <1>4
  <2>2. PICK d : d = [type |-> TypeFor(loc[p].op), nlink |-> 0, addrs |-> {}]
    OBVIOUS
  <2>3. SetDisk(fs, fs', i, d) /\ fs'.used = fs.used /\ fs.disk[i].type = "free"
    BY <2>1, <2>2 DEF Allocates
  <2>4. \A j \in Inums : fs'.disk[j] = IF j = i THEN d ELSE fs.disk[j]
    BY <2>3, SetDiskIs
  <2>5. d.addrs = {}
    BY <2>2
  <2>6. \A j \in Inums : fs'.disk[j].addrs = fs.disk[j].addrs
    BY <1>f, <2>3, <2>4, <2>5
  <2>7. \A j \in Inums : fs'.disk[j].type = "free" => fs'.disk[j].addrs = {}
    BY <1>f, <2>4, <2>5
  <2> QED
    BY <1>1, <2>3, <2>6, <2>7, BlockedKeeps
<1>5. CASE Writes(p)
  <2>1. file[p] \in Inums /\ fs.disk[file[p]].type # "free"
    BY <1>5, ChangeFacts DEF Usable, Made
  <2>2. PICK k \in free(fs) :
          /\ SetDisk(fs, fs', file[p], [type |-> fs.disk[file[p]].type, nlink |-> fs.disk[file[p]].nlink,
                                     addrs |-> fs.disk[file[p]].addrs \cup {k}])
          /\ fs'.used = fs.used \cup {k}
    BY <1>5 DEF Writes
  <2>3. PICK d : d = [type |-> fs.disk[file[p]].type, nlink |-> fs.disk[file[p]].nlink,
                                     addrs |-> fs.disk[file[p]].addrs \cup {k}]
    OBVIOUS
  <2>4. \A j \in Inums : fs'.disk[j] = IF j = file[p] THEN d ELSE fs.disk[j]
    BY <2>1, <2>2, <2>3, SetDiskIs
  <2>5. d.type = fs.disk[file[p]].type /\ d.addrs = fs.disk[file[p]].addrs \cup {k}
    BY <2>3
  <2>6. /\ fs'.disk[file[p]].addrs = fs.disk[file[p]].addrs \cup {k} /\ fs'.disk[file[p]].type # "free"
        /\ \A j \in Inums : j # file[p] => /\ fs'.disk[j].addrs = fs.disk[j].addrs
                                           /\ fs'.disk[j].type = fs.disk[j].type
    BY <2>1, <2>4, <2>5
  <2> QED
    BY Zenon, <1>1, <2>1, <2>2, <2>6, BlockedGains
<1>6. CASE AddsEntry(p)
  BY <1>1, <1>6 DEF AddsEntry, Blocked
<1>7. CASE RemovesEntry(p)
  <2>1. \A j \in Inums : fs'.disk[j].type = fs.disk[j].type /\ fs'.disk[j].addrs = fs.disk[j].addrs
    BY <1>7, RemovesDisk DEF LinksOnly
  <2>2. fs'.used = fs.used
    BY <1>7 DEF RemovesEntry
  <2> QED
    BY <1>1, <1>f, <2>1, <2>2, BlockedKeeps
<1>8. CASE Freed(p)
  <2>1. PICK i \in Inums : i = loc[p].put
    BY <1>8, ChangeFacts
  <2>2. PICK d : d = [type |-> "free", nlink |-> 0, addrs |-> {}]
    OBVIOUS
  <2>3. SetDisk(fs, fs', i, d) /\ fs'.used = fs.used \ fs.disk[i].addrs
    BY <1>8, <2>1, <2>2 DEF Freed
  <2>4. \A j \in Inums : fs'.disk[j] = IF j = i THEN d ELSE fs.disk[j]
    BY <2>3, SetDiskIs
  <2>5. d.addrs = {}
    BY <2>2
  <2>6. /\ fs'.disk[i].addrs = {}
        /\ \A j \in Inums : j # i => /\ fs'.disk[j].addrs = fs.disk[j].addrs
                                     /\ fs'.disk[j].type = fs.disk[j].type
    BY <2>4, <2>5
  <2> QED
    BY <1>1, <2>3, <2>6, BlockedLoses
<1>9. CASE MakesFile(p)
  <2>1. PICK i \in Inums : i = loc[p].ip
    BY <1>9, ChangeFacts
  <2>2. PICK c : c = [type |-> TypeFor(loc[p].op), nlink |-> 0, addrs |-> {}]
    OBVIOUS
  <2>3. fs.disk[i] = c /\ c.addrs = {}
    BY <1>9, <2>1, <2>2, ChangeFacts
  <2>4. PICK e : e = [type |-> "file", nlink |-> 1, addrs |-> {}]
    OBVIOUS
  <2>5. SetDisk(fs, fs', i, e) /\ fs'.used = fs.used
    BY <1>9, <2>1, <2>4 DEF MakesFile
  <2>6. \A j \in Inums : fs'.disk[j] = IF j = i THEN e ELSE fs.disk[j]
    BY <2>5, SetDiskIs
  <2>7. e.addrs = {}
    BY <2>4
  <2>8. \A j \in Inums : fs'.disk[j].addrs = fs.disk[j].addrs
    BY <2>3, <2>6, <2>7
  <2>9. \A j \in Inums : fs'.disk[j].type = "free" => fs'.disk[j].addrs = {}
    BY <1>f, <2>6, <2>7
  <2> QED
    BY <1>1, <2>5, <2>8, <2>9, BlockedKeeps
<1>10. CASE MakesDir(p)
  <2>1. PICK i \in Inums, d \in Inums : i = loc[p].ip /\ d = loc[p].dp
    BY <1>10, ChangeFacts
  <2>2. PICK c : c = [type |-> TypeFor(loc[p].op), nlink |-> 0, addrs |-> {}]
    OBVIOUS
  <2>3. fs.disk[i] = c /\ c.addrs = {} /\ MadeDir(fs, d) /\ i # d
    BY <1>10, <2>1, <2>2, ChangeFacts
  <2>4. PICK k \in free(fs) :
          /\ fs'.used = fs.used \cup {k}
          /\ fs'.disk[i] = [type |-> "dir", nlink |-> 1, addrs |-> {k}]
          /\ fs'.disk[d] = [type |-> "dir", nlink |-> fs.disk[d].nlink + 1,
                            addrs |-> fs.disk[d].addrs]
          /\ \A j \in Inums : j # i /\ j # d => fs'.disk[j] = fs.disk[j]
    BY <1>10, <2>1, MakesDirDisk
  <2>5. fs'.disk[i].addrs = {k} /\ fs'.disk[i].type # "free"
    BY <2>4
  <2>6. fs'.disk[d].addrs = fs.disk[d].addrs /\ fs'.disk[d].type = fs.disk[d].type
    BY <2>3, <2>4 DEF MadeDir
  <2>7. fs'.disk[i].addrs = fs.disk[i].addrs \cup {k}
    BY <2>3, <2>5
  <2>8. \A j \in Inums : j # i => /\ fs'.disk[j].addrs = fs.disk[j].addrs
                                  /\ fs'.disk[j].type = fs.disk[j].type
    BY <2>4, <2>6
  <2> QED
    BY <1>1, <2>4, <2>5, <2>7, <2>8, BlockedGains
<1> QED
  BY <1>2, <1>3, <1>4, <1>5, <1>6, <1>7, <1>8, <1>9, <1>10 DEF Changes

-----------------------------------------------------------------------------
\* The links after a step.

\* The size of a set that gains or loses a member.
LEMMA Sizes ==
  ASSUME NEW A, NEW B, IsFiniteSet(B)
  PROVE  /\ A \subseteq B => Cardinality(A) <= Cardinality(B) + 0
         /\ \A x : A \subseteq B \cup {x} => Cardinality(A) <= Cardinality(B) + 1
         /\ \A x : x \in B /\ A \subseteq B \ {x} => Cardinality(A) <= Cardinality(B) + (-1)
<1>1. PICK k \in Nat : k = Cardinality(B)
  BY FS_CardinalityType
<1>2. ASSUME A \subseteq B PROVE Cardinality(A) <= k + 0
  BY <1>1, <1>2, FS_Subset
<1>3. ASSUME NEW x, A \subseteq B \cup {x} PROVE Cardinality(A) <= k + 1
  <2>1. IsFiniteSet(B \cup {x}) /\ Cardinality(B \cup {x}) \in {k, k + 1}
    BY <1>1, FS_AddElement
  <2>2. Cardinality(A) \in Nat /\ Cardinality(A) <= Cardinality(B \cup {x})
    BY <1>3, <2>1, FS_Subset, FS_CardinalityType
  <2> QED
    BY <2>1, <2>2
<1>4. ASSUME NEW x, x \in B, A \subseteq B \ {x} PROVE Cardinality(A) <= k + (-1)
  <2>1. IsFiniteSet(B \ {x}) /\ Cardinality(B \ {x}) = k - 1
    BY <1>1, <1>4, FS_RemoveElement
  <2>2. Cardinality(A) \in Nat /\ Cardinality(A) <= k - 1
    BY <1>4, <2>1, FS_Subset, FS_CardinalityType
  <2> QED
    BY <2>2
<1> QED
  BY <1>1, <1>2, <1>3, <1>4

\* Links, of one inode after a step.
Enough(i) == fs'.disk[i].nlink >= Cardinality(Named(fs', i)) + Cardinality(Kids(fs', i))
                                    + Cardinality(Counts(i)') + Ind(i = ROOTINO)

\* Link counts, names, subdirectories and processes that change by so many each.
LEMMA LinksStep ==
  ASSUME Inv, FsOK(fs'), NEW i \in Inums, NEW a \in Int, NEW b \in Int, NEW c \in Int,
         Cardinality(Named(fs', i)) <= Cardinality(Named(fs, i)) + a,
         Cardinality(Kids(fs', i)) <= Cardinality(Kids(fs, i)) + b,
         Cardinality(Counts(i)') <= Cardinality(Counts(i)) + c,
         fs'.disk[i].nlink = fs.disk[i].nlink + (a + b + c)
  PROVE  Enough(i)
<1>1. PICK k \in Int : k = fs.disk[i].nlink
  BY DiskType
<1>2. PICK x \in Nat, y \in Nat, z \in Nat :
        x = Cardinality(Named(fs, i)) /\ y = Cardinality(Kids(fs, i)) /\ z = Cardinality(Counts(i))
  BY NamedFinite, KidsFinite, CountsFinite
<1>3. PICK u \in Nat, v \in Nat :
        u = Cardinality(Named(fs', i)) /\ v = Cardinality(Kids(fs', i))
  BY NamedFinite, KidsFinite
<1>4. PICK w \in Nat : w = Cardinality(Counts(i)')
  <2>1. IsFiniteSet(Counts(i)')
    BY FsAssumption, FS_Subset DEF Counts
  <2> QED
    BY <2>1, FS_CardinalityType
<1>5. PICK r \in Nat : r = Ind(i = ROOTINO)
  BY DEF Ind
<1>6. k >= x + y + z + r
  BY <1>1, <1>2, <1>5 DEF Inv, Links
<1>7. u <= x + a /\ v <= y + b /\ w <= z + c
  BY <1>2, <1>3, <1>4
<1>8. k + (a + b + c) >= u + v + w + r
  BY <1>6, <1>7
<1> QED
  BY <1>1, <1>3, <1>4, <1>5, <1>8 DEF Enough

\* The names and the directories in a directory, when what has a name keeps its type.
LEMMA NamesKeep ==
  ASSUME Inv, NEW i \in Inums,
         \A x \in Inums, m \in Names : fs'.ent[x][m] \in {None, fs.ent[x][m]},
         \A j \in Inums : Made(fs, j) /\ Named(fs, j) # {} => fs'.disk[j].type = fs.disk[j].type
  PROVE  Named(fs', i) \subseteq Named(fs, i) /\ Kids(fs', i) \subseteq Kids(fs, i)
<1>1. None \notin Inums
  BY InumsAre
<1>2. Named(fs', i) \subseteq Named(fs, i)
  BY <1>1 DEF Named
<1>3. ASSUME NEW n \in Kids(fs', i) PROVE n \in Kids(fs, i)
  <2>1. n \in Names /\ fs'.ent[i][n] # None /\ fs'.disk[fs'.ent[i][n]].type = "dir"
    BY DEF Kids
  <2>2. PICK v : v = fs.ent[i][n]
    OBVIOUS
  <2>3. fs'.ent[i][n] = v /\ v # None
    BY <2>1, <2>2
  <2>4. v \in Inums /\ Made(fs, v)
    BY <2>1, <2>2, <2>3, NamesUsable
  <2>5. <<i, n>> \in Named(fs, v)
    BY <2>1, <2>2 DEF Named
  <2>6. fs'.disk[v].type = fs.disk[v].type
    BY <2>4, <2>5
  <2> QED
    BY <2>1, <2>2, <2>3, <2>6 DEF Kids
<1> QED
  BY <1>2, <1>3

\* A new name.
LEMMA NamesGain ==
  ASSUME Inv, NEW d \in Inums, NEW n \in Names, NEW k \in Inums, NEW i \in Inums,
         \A x \in Inums, m \in Names : ~(x = d /\ m = n) => fs'.ent[x][m] \in {None, fs.ent[x][m]},
         fs'.ent[d][n] = k,
         \A j \in Inums : Made(fs, j) /\ Named(fs, j) # {} => fs'.disk[j].type = fs.disk[j].type
  PROVE  /\ i = k => Named(fs', i) \subseteq Named(fs, i) \cup {<<d, n>>}
         /\ i # k => Named(fs', i) \subseteq Named(fs, i)
         /\ i = d => Kids(fs', i) \subseteq Kids(fs, i) \cup {n}
         /\ i # d \/ fs'.disk[k].type # "dir" => Kids(fs', i) \subseteq Kids(fs, i)
<1>1. None \notin Inums
  BY InumsAre
<1>2. \A e \in Named(fs', i) : e \in Named(fs, i) \/ (i = k /\ e = <<d, n>>)
  <2>1. SUFFICES ASSUME NEW x \in Inums, NEW m \in Names, fs'.ent[x][m] = i
                 PROVE  fs.ent[x][m] = i \/ (i = k /\ x = d /\ m = n)
    BY DEF Named
  <2> QED
    BY <1>1, <2>1
<1>3. ASSUME NEW m \in Kids(fs', i), ~(i = d /\ m = n) PROVE m \in Kids(fs, i)
  <2>1. m \in Names /\ fs'.ent[i][m] # None /\ fs'.disk[fs'.ent[i][m]].type = "dir"
    BY DEF Kids
  <2>2. PICK v : v = fs.ent[i][m]
    OBVIOUS
  <2>3. fs'.ent[i][m] = v /\ v # None
    BY <1>3, <2>1, <2>2
  <2>4. v \in Inums /\ Made(fs, v)
    BY <2>1, <2>2, <2>3, NamesUsable
  <2>5. <<i, m>> \in Named(fs, v)
    BY <2>1, <2>2 DEF Named
  <2>6. fs'.disk[v].type = fs.disk[v].type
    BY <2>4, <2>5
  <2> QED
    BY <2>1, <2>2, <2>3, <2>6 DEF Kids
<1>4. i = d /\ n \in Kids(fs', i) => fs'.disk[k].type = "dir"
  BY DEF Kids
<1>5. (i = k => Named(fs', i) \subseteq Named(fs, i) \cup {<<d, n>>})
      /\ (i # k => Named(fs', i) \subseteq Named(fs, i))
  BY <1>2
<1>6. i = d => Kids(fs', i) \subseteq Kids(fs, i) \cup {n}
  BY <1>3
<1>7. i # d \/ fs'.disk[k].type # "dir" => Kids(fs', i) \subseteq Kids(fs, i)
  BY <1>3, <1>4
<1> QED
  BY <1>5, <1>6, <1>7

\* The processes that have counted a link.
LEMMA CountsAfter ==
  ASSUME Inv, NEW p \in Procs, Effect(p), NEW i
  PROVE  /\ Counts(i)' \subseteq Counts(i) \cup {p}
         /\ (CountsLink(p) \/ RemovesEntry(p) => i # loc[p].ip) => Counts(i)' \subseteq Counts(i)
<1>1. Apart(p)
  BY EffectApart
<1>2. ASSUME NEW q \in Procs, Counted(loc'[q]), loc'[q].ip = i, q # p PROVE q \in Counts(i)
  BY <1>1, <1>2 DEF Apart, Counts
<1>3. ASSUME Counted(loc'[p]), loc'[p].ip = i, CountsLink(p) \/ RemovesEntry(p) => i # loc[p].ip
      PROVE  p \in Counts(i)
  <2>1. Counted(loc[p]) /\ loc'[p].ip = loc[p].ip
    BY <1>3, LearnsIs DEF Follows
  <2> QED
    BY <1>3, <2>1 DEF Counts
<1>4. Counts(i)' = {q \in Procs : Counted(loc'[q]) /\ loc'[q].ip = i'}
  BY DEF Counts
<1> QED
  BY <1>2, <1>3, <1>4

\* An inode with a name keeps its type.
LEMMA TypesHold ==
  ASSUME Inv, NEW p \in Procs, Changes(p)
  PROVE  \A j \in Inums : Made(fs, j) /\ Named(fs, j) # {} => fs'.disk[j].type = fs.disk[j].type
<1>1. SUFFICES ASSUME NEW j \in Inums, Made(fs, j), Named(fs, j) # {}
               PROVE  fs'.disk[j].type = fs.disk[j].type
  OBVIOUS
<1>2. ~Fresh(j)
  BY <1>1, FreshHas
<1>3. ASSUME Freed(p) PROVE j # loc[p].put
  <2>1. PICK i \in Inums : i = loc[p].put
    BY <1>3, ChangeFacts
  <2>2. fs.disk[i].nlink = 0
    BY <1>3, <2>1 DEF Freed
  <2>3. PICK z \in Int : z = 0
    OBVIOUS
  <2>4. z <= 0
    BY <2>3
  <2>5. fs.disk[i].nlink <= 0
    BY <2>2, <2>3, <2>4
  <2>6. Named(fs, i) = {}
    BY <2>5, NoLinks DEF Inv
  <2> QED
    BY <1>1, <2>1, <2>6
<1> QED
  BY <1>1, <1>2, <1>3, Stays

\* The names that a step gives and takes.
NoNew == \A x \in Inums, m \in Names : fs'.ent[x][m] \in {None, fs.ent[x][m]}

\* No step gives a name, but for the three that do.
LEMMA NamesAfter ==
  ASSUME Inv, NEW p \in Procs, Changes(p)
  PROVE  \/ NoNew
         \/ /\ AddsEntry(p) \/ MakesFile(p) \/ MakesDir(p)
            /\ \A x \in Inums, m \in Names : ~(x = loc[p].dp /\ m = Head(loc[p].path))
                                                => fs'.ent[x][m] \in {None, fs.ent[x][m]}
            /\ loc[p].dp \in Inums /\ loc[p].ip \in Inums /\ Head(loc[p].path) \in Names
            /\ fs'.ent[loc[p].dp][Head(loc[p].path)] = loc[p].ip
            /\ loc[p].ip # loc[p].dp
<1>1. CASE Plain(p) \/ CountsLink(p) \/ Uncounts(p) \/ (\E i \in Inums : Allocates(p, i)) \/ Writes(p)
  <2>1. fs'.ent = fs.ent
    BY Zenon, <1>1 DEF Plain, SameData, CountsLink, Uncounts, Relink, Allocates, Writes
  <2> QED
    BY Zenon, <2>1 DEF NoNew
<1>2. CASE Freed(p)
  <2>1. loc[p].put \in Inums
    BY <1>2, ChangeFacts
  <2>2. fs'.ent = [fs.ent EXCEPT ![loc[p].put] = Empty]
    BY <1>2 DEF Freed
  <2>3. \A x \in Inums : fs'.ent[x] = IF x = loc[p].put THEN Empty ELSE fs.ent[x]
    BY <2>2, DiskType
  <2> QED
    BY <2>3, Dotted DEF NoNew
<1>3. CASE RemovesEntry(p)
  <2>1. loc[p].dp \in Inums /\ Head(loc[p].path) \in Entry
    BY <1>3, ChangeFacts, Dotted
  <2>2. \A j \in Inums, m \in Entry :
          fs'.ent[j][m] = IF j = loc[p].dp /\ m = Head(loc[p].path) THEN None ELSE fs.ent[j][m]
    BY <1>3, <2>1, EntersIs DEF RemovesEntry
  <2> QED
    BY <2>2, Dotted DEF NoNew
<1>4. CASE AddsEntry(p) \/ MakesFile(p)
  <2>1. /\ loc[p].dp \in Inums /\ Head(loc[p].path) \in Names /\ loc[p].ip \in Inums
        /\ Enters(loc[p].dp, Head(loc[p].path), loc[p].ip) /\ loc[p].ip # loc[p].dp
    BY Zenon, <1>4, ChangeFacts DEF AddsEntry, MakesFile
  <2>2. \A j \in Inums, m \in Entry :
          fs'.ent[j][m] = IF j = loc[p].dp /\ m = Head(loc[p].path) THEN loc[p].ip ELSE fs.ent[j][m]
    BY <2>1, EntersIs, Dotted
  <2> QED
    BY Zenon, <1>4, <2>1, <2>2, Dotted
<1>5. CASE MakesDir(p)
  <2>1. /\ loc[p].dp \in Inums /\ Head(loc[p].path) \in Names /\ loc[p].ip \in Inums
        /\ loc[p].ip # loc[p].dp
    BY <1>5, ChangeFacts
  <2>2. /\ fs'.ent[loc[p].ip] = [Empty EXCEPT !["."] = loc[p].ip, ![".."] = loc[p].dp]
        /\ \A j \in Inums, m \in Entry : j # loc[p].ip =>
             fs'.ent[j][m] = IF j = loc[p].dp /\ m = Head(loc[p].path) THEN loc[p].ip ELSE fs.ent[j][m]
    BY <1>5, MakesDirEnt
  <2>3. \A m \in Names : fs'.ent[loc[p].ip][m] = None
    BY <2>2, Dotted
  <2> QED
    BY <1>5, <2>1, <2>2, <2>3, Dotted
<1> QED
  BY <1>1, <1>2, <1>3, <1>4, <1>5 DEF Changes

\* An inode with as many links as before, and no more to count.
LEMMA EnoughKept ==
  ASSUME Inv, FsOK(fs'), NEW i \in Inums, fs'.disk[i].nlink = fs.disk[i].nlink,
         Named(fs', i) \subseteq Named(fs, i), Kids(fs', i) \subseteq Kids(fs, i),
         Counts(i)' \subseteq Counts(i)
  PROVE  Enough(i)
<1>1. /\ Cardinality(Named(fs', i)) <= Cardinality(Named(fs, i)) + 0
      /\ Cardinality(Kids(fs', i)) <= Cardinality(Kids(fs, i)) + 0
      /\ Cardinality(Counts(i)') <= Cardinality(Counts(i)) + 0
  BY NamedFinite, KidsFinite, CountsFinite, Sizes
<1>2. PICK z \in Int : z = 0
  OBVIOUS
<1>3. PICK k \in Int : k = fs.disk[i].nlink
  BY DiskType
<1>4. k + (z + z + z) = k
  BY <1>2
<1>5. fs'.disk[i].nlink = fs.disk[i].nlink + (z + z + z)
  BY <1>3, <1>4
<1> QED
  BY <1>1, <1>2, <1>5, LinksStep

\* No step changes link counts, but for those that do.
LEMMA SameLinks ==
  ASSUME Inv, NEW p \in Procs, Changes(p), NEW i \in Inums
  PROVE  \/ fs'.disk[i].nlink = fs.disk[i].nlink
         \/ (CountsLink(p) \/ Uncounts(p)) /\ i = loc[p].ip
         \/ RemovesEntry(p) /\ i = loc[p].dp /\ fs.disk[loc[p].ip].type = "dir"
         \/ Allocates(p, i)
         \/ MakesFile(p) /\ i = loc[p].ip
         \/ MakesDir(p) /\ i \in {loc[p].ip, loc[p].dp}
<1>1. CASE Freed(p) /\ i = loc[p].put
  <2>1. PICK d : d = [type |-> "free", nlink |-> 0, addrs |-> {}]
    OBVIOUS
  <2>2. SetDisk(fs, fs', i, d) /\ fs.disk[i].nlink = 0
    BY <1>1, <2>1 DEF Freed
  <2>3. fs'.disk[i] = d /\ d.nlink = 0
    BY <2>1, <2>2, SetDiskIs
  <2> QED
    BY <2>2, <2>3
<1>2. CASE Writes(p) /\ i = file[p]
  <2>1. PICK k : SetDisk(fs, fs', i, [type |-> fs.disk[i].type, nlink |-> fs.disk[i].nlink,
                                     addrs |-> fs.disk[i].addrs \cup {k}])
    BY <1>2 DEF Writes
  <2>2. PICK d : d = [type |-> fs.disk[i].type, nlink |-> fs.disk[i].nlink,
                      addrs |-> fs.disk[i].addrs \cup {k}]
    OBVIOUS
  <2>3. fs'.disk[i] = d /\ d.nlink = fs.disk[i].nlink
    BY <2>1, <2>2, SetDiskIs
  <2> QED
    BY <2>3
<1>3. CASE RemovesEntry(p) /\ fs.disk[loc[p].ip].type # "dir"
  BY <1>3 DEF RemovesEntry
<1> QED
  BY <1>1, <1>2, <1>3, Untouched

\* link() between counting the link and adding the entry, and taking the link back;
\* unlink() between removing the entry and taking the link off.
LEMMA CountedGoes ==
  ASSUME Inv, NEW p \in Procs, Effect(p), AddsEntry(p) \/ Uncounts(p), NEW i, i = loc[p].ip
  PROVE  p \in Counts(i) /\ Counts(i)' \subseteq Counts(i) \ {p}
<1>1. loc \in [Procs -> Local] /\ loc[p] \in Local /\ Shape(loc[p])
  BY DEF Inv, Shapes
<1>2. loc[p].pc \in {"linkNew", "linkBad", "unlinkLast"} /\ Stage(loc[p]) = loc[p].pc
  BY DEF AddsEntry, Uncounts, Stage
<1>3. loc[p].ip # None
  BY <1>1, <1>2 DEF Shape, HasIp
<1>4. p \in Counts(i)
  BY <1>2, <1>3 DEF Counts, Counted, Linking
<1>5. ~Counted(loc'[p])
  <2>1. PICK M : Becomes(p, M) /\ (M = PutDp(loc[p], "linkDone") \/ M = PutIp(loc[p], "user"))
    BY DEF AddsEntry, Uncounts
  <2>2. loc'[p] = M
    BY <1>1, <2>1, View
  <2>3. M.pc = "iput" /\ M.ret \in {"linkDone", "user"}
    BY <1>1, <2>1 DEF PutDp, PutIp, Local
  <2>4. Stage(M) \in {"linkDone", "user"}
    BY <2>3 DEF Stage
  <2> QED
    BY <2>2, <2>4 DEF Counted, Linking
<1>6. p \notin Counts(i)'
  BY <1>5 DEF Counts
<1>7. ~CountsLink(p) /\ ~RemovesEntry(p)
  BY <1>2 DEF AddsEntry, Uncounts, CountsLink, RemovesEntry
<1>8. Counts(i)' \subseteq Counts(i)
  BY <1>7, CountsAfter
<1> QED
  BY <1>4, <1>6, <1>8

\* Where nothing new is named.
LEMMA LinksQuiet ==
  ASSUME Inv, NEW p \in Procs, Effect(p), FsOK(fs'), NEW i \in Inums, NoNew
  PROVE  Enough(i) \/ \E j \in Inums : Allocates(p, j) /\ i = j
<1>0. Changes(p) /\ Named(fs', i) \subseteq Named(fs, i) /\ Kids(fs', i) \subseteq Kids(fs, i)
  BY EffectChanges, TypesHold, NamesKeep DEF NoNew
<1>1. /\ Cardinality(Named(fs', i)) <= Cardinality(Named(fs, i)) + 0
      /\ Cardinality(Kids(fs', i)) <= Cardinality(Kids(fs, i)) + 0
  BY <1>0, NamedFinite, KidsFinite, Sizes
<1>2. /\ Counts(i)' \subseteq Counts(i) => Cardinality(Counts(i)') <= Cardinality(Counts(i)) + 0
      /\ Cardinality(Counts(i)') <= Cardinality(Counts(i)) + 1
  BY CountsFinite, CountsAfter, Sizes
<1>z. PICK z \in Int, one \in Int, m \in Int : z = 0 /\ one = 1 /\ m = -1
  OBVIOUS
<1>k. PICK k \in Int : k = fs.disk[i].nlink
  BY DiskType
<1>3. CASE CountsLink(p) /\ i = loc[p].ip
  <2>1. Relink(loc[p].ip, one)
    BY <1>3, <1>z DEF CountsLink
  <2>2. fs'.disk[i].nlink = fs.disk[i].nlink + one
    BY <1>3, <2>1, RelinkIs DEF LinksOnly
  <2>3. fs'.disk[i].nlink = fs.disk[i].nlink + (z + z + one)
    BY <1>z, <2>2
  <2> QED
    BY <1>1, <1>2, <1>z, <2>3, LinksStep
<1>4. CASE Uncounts(p) /\ i = loc[p].ip
  <2>1. Relink(loc[p].ip, m)
    BY <1>4, <1>z DEF Uncounts
  <2>2. fs'.disk[i].nlink = fs.disk[i].nlink + m
    BY <1>4, <2>1, RelinkIs DEF LinksOnly
  <2>3. fs'.disk[i].nlink = fs.disk[i].nlink + (z + z + m)
    BY <1>z, <2>2
  <2>4. p \in Counts(i) /\ Counts(i)' \subseteq Counts(i) \ {p}
    BY <1>4, CountedGoes
  <2>5. Cardinality(Counts(i)') <= Cardinality(Counts(i)) + m
    BY <1>z, <2>4, CountsFinite, Sizes
  <2> QED
    BY <1>1, <1>z, <2>3, <2>5, LinksStep
<1>5. CASE RemovesEntry(p)
  <2>1. PICK d \in Inums, n \in Names : d = loc[p].dp /\ n = Head(loc[p].path)
    BY <1>0, <1>5, ChangeFacts
  <2>2. loc[p].ip \in Inums /\ loc[p].ip # d /\ fs.ent[d][n] = loc[p].ip /\ Made(fs, loc[p].ip)
    BY <1>0, <1>5, <2>1, ChangeFacts DEF Usable
  <2>3. fs'.ent[d][n] = None
    <3>1. Enters(d, n, None)
      BY <1>5, <2>1 DEF RemovesEntry
    <3> QED
      BY <3>1, EntersIs, Dotted
  <2>4. CASE i = loc[p].ip
    <3>1. fs'.disk[i].nlink = fs.disk[i].nlink
      BY Zenon, <1>0, <1>5, <2>1, <2>2, <2>4, SameLinks DEF RemovesEntry, CountsLink, Uncounts, Allocates,
                                                     MakesFile, MakesDir
    <3>2. <<d, n>> \in Named(fs, i) /\ <<d, n>> \notin Named(fs', i)
      BY <2>2, <2>3, <2>4, InumsAre DEF Named
    <3>3. Named(fs', i) \subseteq Named(fs, i) \ {<<d, n>>}
      BY <1>0, <3>2
    <3>4. Cardinality(Named(fs', i)) <= Cardinality(Named(fs, i)) + m
      BY <1>z, <3>2, <3>3, NamedFinite, Sizes
    <3>5. fs'.disk[i].nlink = fs.disk[i].nlink + (m + z + one)
      <4>1. k + (m + z + one) = k
        BY <1>z
      <4> QED
        BY <1>k, <3>1, <4>1
    <3> QED
      BY Zenon, <1>1, <1>2, <1>z, <3>4, <3>5, LinksStep
  <2>5. CASE i = d /\ fs.disk[loc[p].ip].type = "dir"
    <3>1. Counts(i)' \subseteq Counts(i)
      BY <2>2, <2>5, <1>5, CountsAfter
    <3>2. n \in Kids(fs, i) /\ n \notin Kids(fs', i)
      BY <2>2, <2>3, <2>5, InumsAre DEF Kids
    <3>3. Kids(fs', i) \subseteq Kids(fs, i) \ {n}
      BY <1>0, <3>2
    <3>4. Cardinality(Kids(fs', i)) <= Cardinality(Kids(fs, i)) + m
      BY <1>z, <3>2, <3>3, KidsFinite, Sizes
    <3>5. fs'.disk[i].nlink = fs.disk[i].nlink + m
      BY <1>5, <1>z, <2>1, <2>5, RemovesDisk DEF LinksOnly
    <3>6. fs'.disk[i].nlink = fs.disk[i].nlink + (z + m + z)
      BY <1>z, <3>5
    <3> QED
      BY <1>1, <1>2, <1>z, <3>1, <3>4, <3>6, LinksStep
  <2>6. CASE i # loc[p].ip /\ ~(i = d /\ fs.disk[loc[p].ip].type = "dir")
    <3>1. fs'.disk[i].nlink = fs.disk[i].nlink
      BY Zenon, <1>0, <1>5, <2>1, <2>6, SameLinks DEF RemovesEntry, CountsLink, Uncounts, Allocates,
                                                     MakesFile, MakesDir
    <3>2. Counts(i)' \subseteq Counts(i)
      BY <2>6, CountsAfter, <1>5
    <3> QED
      BY Zenon, <1>0, <3>1, <3>2, EnoughKept
  <2> QED
    BY <2>4, <2>5, <2>6
<1>6. CASE ~RemovesEntry(p) /\ ~(CountsLink(p) /\ i = loc[p].ip) /\ ~(Uncounts(p) /\ i = loc[p].ip)
           /\ ~Allocates(p, i) /\ ~MakesFile(p) /\ ~MakesDir(p)
  <2>1. fs'.disk[i].nlink = fs.disk[i].nlink
    BY <1>0, <1>6, SameLinks
  <2>2. Counts(i)' \subseteq Counts(i)
    BY <1>6, CountsAfter
  <2> QED
    BY <1>0, <2>1, <2>2, EnoughKept
<1>7. ~MakesFile(p) /\ ~MakesDir(p)
  <2>1. SUFFICES ASSUME MakesFile(p) \/ MakesDir(p) PROVE FALSE
    OBVIOUS
  <2>2. /\ loc[p].dp \in Inums /\ Head(loc[p].path) \in Names /\ loc[p].ip \in Inums
        /\ Fresh(loc[p].ip) /\ loc[p].ip # loc[p].dp
    BY <1>0, <2>1, ChangeFacts
  <2>3. fs'.ent[loc[p].dp][Head(loc[p].path)] = loc[p].ip
    <3>1. CASE MakesFile(p)
      <4>1. Enters(loc[p].dp, Head(loc[p].path), loc[p].ip)
        BY <3>1 DEF MakesFile
      <4> QED
        BY <2>2, <4>1, EntersIs, Dotted
    <3>2. CASE MakesDir(p)
      BY <2>2, <3>2, MakesDirEnt, Dotted
    <3> QED
      BY <2>1, <3>1, <3>2
  <2>4. fs.ent[loc[p].dp][Head(loc[p].path)] = loc[p].ip
    BY <2>2, <2>3, InumsAre DEF NoNew
  <2>5. <<loc[p].dp, Head(loc[p].path)>> \in Named(fs, loc[p].ip)
    BY <2>2, <2>4 DEF Named
  <2> QED
    BY <2>2, <2>5, FreshHas
<1> QED
  BY <1>3, <1>4, <1>5, <1>6, <1>7

\* Where a name is new.
LEMMA LinksNamed ==
  ASSUME Inv, NEW p \in Procs, Effect(p), FsOK(fs'), NEW i \in Inums,
         AddsEntry(p) \/ MakesFile(p) \/ MakesDir(p),
         \A x \in Inums, m \in Names : ~(x = loc[p].dp /\ m = Head(loc[p].path))
                                         => fs'.ent[x][m] \in {None, fs.ent[x][m]},
         loc[p].dp \in Inums, loc[p].ip \in Inums, Head(loc[p].path) \in Names,
         fs'.ent[loc[p].dp][Head(loc[p].path)] = loc[p].ip, loc[p].ip # loc[p].dp
  PROVE  Enough(i)
<1>0. Changes(p)
  BY EffectChanges
<1>1. PICK d \in Inums, n \in Names, k \in Inums : d = loc[p].dp /\ n = Head(loc[p].path) /\ k = loc[p].ip
  BY Zenon
<1>2. /\ i = k => Named(fs', i) \subseteq Named(fs, i) \cup {<<d, n>>}
      /\ i # k => Named(fs', i) \subseteq Named(fs, i)
      /\ i = d => Kids(fs', i) \subseteq Kids(fs, i) \cup {n}
      /\ i # d \/ fs'.disk[k].type # "dir" => Kids(fs', i) \subseteq Kids(fs, i)
  <2>1. \A j \in Inums : Made(fs, j) /\ Named(fs, j) # {} => fs'.disk[j].type = fs.disk[j].type
    BY <1>0, TypesHold
  <2>2. \A x \in Inums, m \in Names : ~(x = d /\ m = n) => fs'.ent[x][m] \in {None, fs.ent[x][m]}
    BY <1>1
  <2>3. fs'.ent[d][n] = k
    BY <1>1
  <2> QED
    BY <2>1, <2>2, <2>3, NamesGain
<1>3. /\ i = k => Cardinality(Named(fs', i)) <= Cardinality(Named(fs, i)) + 1
      /\ i # k => Cardinality(Named(fs', i)) <= Cardinality(Named(fs, i)) + 0
      /\ i = d => Cardinality(Kids(fs', i)) <= Cardinality(Kids(fs, i)) + 1
      /\ i # d \/ fs'.disk[k].type # "dir" => Cardinality(Kids(fs', i)) <= Cardinality(Kids(fs, i)) + 0
  BY Zenon, <1>2, NamedFinite, KidsFinite, Sizes
<1>4. ~CountsLink(p) /\ ~RemovesEntry(p) /\ ~Uncounts(p) /\ ~\E j \in Inums : Allocates(p, j)
  BY Zenon DEF AddsEntry, MakesFile, MakesDir, CountsLink, RemovesEntry, Uncounts, Allocates
<1>5. Counts(i)' \subseteq Counts(i)
  BY <1>4, CountsAfter
<1>6. Cardinality(Counts(i)') <= Cardinality(Counts(i)) + 0
  BY <1>5, CountsFinite, Sizes
<1>z. PICK z \in Int, one \in Int, m \in Int : z = 0 /\ one = 1 /\ m = -1
  OBVIOUS
<1>k. PICK x \in Int : x = fs.disk[i].nlink
  BY DiskType
<1>7. CASE AddsEntry(p)
  <2>1. fs'.disk[i].nlink = fs.disk[i].nlink /\ fs'.disk[k].type = "file"
    BY Zenon, <1>0, <1>1, <1>7, ChangeFacts DEF AddsEntry
  <2>2. CASE i = k
    <3>1. p \in Counts(i) /\ Counts(i)' \subseteq Counts(i) \ {p}
      BY <1>1, <1>7, <2>2, CountedGoes
    <3>2. Cardinality(Counts(i)') <= Cardinality(Counts(i)) + m
      BY <1>z, <3>1, CountsFinite, Sizes
    <3>3. x + (one + z + m) = x
      BY <1>z
    <3>4. fs'.disk[i].nlink = fs.disk[i].nlink + (one + z + m)
      BY <1>k, <2>1, <3>3
    <3> QED
      BY <1>3, <1>z, <2>1, <2>2, <3>2, <3>4, LinksStep
  <2>3. CASE i # k
    BY <1>2, <1>5, <2>1, <2>3, EnoughKept
  <2> QED
    BY <2>2, <2>3
<1>8. CASE MakesFile(p)
  <2>1. PICK e : e = [type |-> "file", nlink |-> 1, addrs |-> {}]
    OBVIOUS
  <2>2. SetDisk(fs, fs', k, e)
    BY <1>1, <1>8, <2>1 DEF MakesFile
  <2>3. fs'.disk[i] = (IF i = k THEN e ELSE fs.disk[i]) /\ fs'.disk[k] = e
    BY <2>2, SetDiskIs
  <2>4. e.nlink = one /\ e.type = "file"
    BY <1>z, <2>1
  <2>5. CASE i = k
    <3>1. Fresh(i)
      BY Zenon, <1>0, <1>1, <1>8, <2>5, ChangeFacts
    <3>2. fs.disk[i].nlink = z
      BY <1>z, <3>1, FreshHas
    <3>3. z + (one + z + z) = one
      BY <1>z
    <3>4. fs'.disk[i].nlink = fs.disk[i].nlink + (one + z + z)
      BY <2>3, <2>4, <2>5, <3>2, <3>3
    <3> QED
      BY Zenon, <1>3, <1>6, <1>z, <2>3, <2>4, <2>5, <3>4, LinksStep
  <2>6. CASE i # k
    BY <1>2, <1>5, <2>3, <2>4, <2>6, EnoughKept
  <2> QED
    BY <2>5, <2>6
<1>9. CASE MakesDir(p)
  <2>1. PICK b : /\ fs'.disk[k] = [type |-> "dir", nlink |-> 1, addrs |-> {b}]
                 /\ fs'.disk[d] = [type |-> "dir", nlink |-> fs.disk[d].nlink + 1,
                                   addrs |-> fs.disk[d].addrs]
                 /\ \A j \in Inums : j # k /\ j # d => fs'.disk[j] = fs.disk[j]
    BY Zenon, <1>1, <1>9, MakesDirDisk
  <2>2. fs'.disk[k].nlink = one /\ fs'.disk[d].nlink = fs.disk[d].nlink + one
    BY <1>z, <2>1
  <2>3. CASE i = k
    <3>1. Fresh(i) /\ i # d
      BY Zenon, <1>0, <1>1, <1>9, <2>3, ChangeFacts
    <3>2. fs.disk[i].nlink = z
      BY <1>z, <3>1, FreshHas
    <3>3. z + (one + z + z) = one
      BY <1>z
    <3>4. fs'.disk[i].nlink = fs.disk[i].nlink + (one + z + z)
      BY <2>2, <2>3, <3>2, <3>3
    <3> QED
      BY Zenon, <1>3, <1>6, <1>z, <2>3, <3>1, <3>4, LinksStep
  <2>4. CASE i = d
    <3>1. i # k
      BY <1>1, <2>4
    <3>2. fs'.disk[i].nlink = fs.disk[i].nlink + (z + one + z)
      BY <1>z, <2>2, <2>4
    <3> QED
      BY <1>3, <1>6, <1>z, <2>4, <3>1, <3>2, LinksStep
  <2>5. CASE i # k /\ i # d
    <3>1. fs'.disk[i].nlink = fs.disk[i].nlink
      BY <2>1, <2>5
    <3> QED
      BY <1>2, <1>5, <2>5, <3>1, EnoughKept
  <2> QED
    BY Zenon, <2>3, <2>4, <2>5
<1> QED
  BY <1>7, <1>8, <1>9

\* The inode that ialloc() gives out had no link and has none.
LEMMA LinksFresh ==
  ASSUME Inv, NEW p \in Procs, Effect(p), FsOK(fs'), NEW i \in Inums, Allocates(p, i)
  PROVE  Enough(i)
<1>1. fs.disk[i].type = "free" /\ fs'.ent = fs.ent /\ None \notin Inums
  BY InumsAre DEF Allocates
<1>2. Named(fs', i) = {}
  <2>1. SUFFICES ASSUME NEW e \in Named(fs', i) PROVE FALSE
    OBVIOUS
  <2>2. PICK x \in Inums, m \in Names : fs.ent[x][m] = i
    BY <1>1, <2>1 DEF Named
  <2>3. Made(fs, i)
    BY <1>1, <2>2, NamesUsable
  <2> QED
    BY <1>1, <2>3 DEF Made
<1>3. Kids(fs', i) = {}
  <2>1. fs.ent[i] = Empty
    BY <1>1 DEF Inv, Tree, MadeDir, Made
  <2> QED
    BY <1>1, <2>1, Dotted DEF Kids
<1>4. Counts(i)' = {}
  <2>0. Counts(i) = {}
    <3>1. SUFFICES ASSUME NEW q \in Procs, Counted(loc[q]), loc[q].ip = i PROVE FALSE
      BY DEF Counts
    <3>2. Stage(loc[q]) # "createNew" /\ loc[q].ip # None
      BY <1>1, <3>1 DEF Counted, Linking
    <3>3. Made(fs, i)
      BY <3>1, <3>2, Facts DEF Usable
    <3> QED
      BY <1>1, <3>3 DEF Made
  <2>1. ~CountsLink(p) /\ ~RemovesEntry(p)
    BY DEF Allocates, CountsLink, RemovesEntry
  <2> QED
    BY <2>0, <2>1, CountsAfter
<1>5. i # ROOTINO
  BY <1>1 DEF Inv, Root, MadeDir, Made
<1>z. PICK z \in Int : z = 0
  OBVIOUS
<1>6. fs'.disk[i].nlink = z
  <2>1. PICK d : d = [type |-> TypeFor(loc[p].op), nlink |-> 0, addrs |-> {}]
    OBVIOUS
  <2>2. SetDisk(fs, fs', i, d)
    BY <2>1 DEF Allocates
  <2>3. fs'.disk[i] = d /\ d.nlink = z
    BY <1>z, <2>1, <2>2, SetDiskIs
  <2> QED
    BY <2>3
<1>7. Cardinality(Named(fs', i)) = z /\ Cardinality(Kids(fs', i)) = z /\ Cardinality(Counts(i)') = z
  BY <1>2, <1>3, <1>4, <1>z, FS_EmptySet
<1>8. Ind(i = ROOTINO) = z
  BY <1>5, <1>z DEF Ind
<1>9. z >= z + z + z + z
  BY <1>z
<1> QED
  BY <1>6, <1>7, <1>8, <1>9 DEF Enough

\* Link counts are large enough after every step.
LEMMA LinksEffect ==
  ASSUME Inv, NEW p \in Procs, Effect(p), FsOK(fs')
  PROVE  Links'
<1>1. ASSUME NEW i \in Inums PROVE Enough(i)
  <2>1. CASE NoNew
    BY <2>1, LinksQuiet, LinksFresh
  <2>2. CASE ~NoNew
    BY <2>2, EffectChanges, NamesAfter, LinksNamed
  <2> QED
    BY <2>1, <2>2
<1> QED
  BY <1>1 DEF Links, Enough

-----------------------------------------------------------------------------
\* The invariant holds at first.

\* What mkfs has made:
LEMMA InitData ==
  ASSUME Init
  PROVE  /\ \A i \in Inums : fs.disk[i] = IF i = ROOTINO THEN [type |-> "dir", nlink |-> 1, addrs |-> {1}]
                                           ELSE [type |-> "free", nlink |-> 0, addrs |-> {}]
         /\ \A i \in Inums : fs.mem[i] = IF i = ROOTINO THEN [Recycled EXCEPT !.ref = Cardinality(Procs)]
                                          ELSE Recycled
         /\ \A i \in Inums : fs.ent[i] = IF i = ROOTINO
                                           THEN [n \in Names \cup Dots |-> IF n \in Dots THEN ROOTINO ELSE None]
                                           ELSE Empty
         /\ fs.used = {1}
         /\ fs = [disk |-> fs.disk, mem |-> fs.mem, ent |-> fs.ent, used |-> fs.used]
         /\ fs.disk = [i \in Inums |-> fs.disk[i]] /\ fs.mem = [i \in Inums |-> fs.mem[i]]
         /\ fs.ent = [i \in Inums |-> fs.ent[i]]
<1>1. PICK d : d = [i \in Inums |-> IF i = ROOTINO THEN [type |-> "dir", nlink |-> 1, addrs |-> {1}]
                                     ELSE [type |-> "free", nlink |-> 0, addrs |-> {}]]
  OBVIOUS
<1>2. PICK m : m = [i \in Inums |-> IF i = ROOTINO THEN [Recycled EXCEPT !.ref = Cardinality(Procs)]
                                          ELSE Recycled]
  OBVIOUS
<1>3. PICK e : e = [i \in Inums |-> IF i = ROOTINO
                              THEN [n \in Names \cup Dots |-> IF n \in Dots THEN ROOTINO ELSE None]
                              ELSE Empty]
  OBVIOUS
<1>4. fs = [disk |-> d, mem |-> m, ent |-> e, used |-> {1}]
  BY <1>1, <1>2, <1>3 DEF Init
<1>5. fs.disk = d /\ fs.mem = m /\ fs.ent = e /\ fs.used = {1}
  BY <1>4
<1> QED
  BY <1>1, <1>2, <1>3, <1>4, <1>5

\* the root directory and nothing else,
LEMMA InitRoot ==
  ASSUME Init
  PROVE  /\ fs.disk[ROOTINO].type = "dir" /\ fs.disk[ROOTINO].nlink = 1 /\ fs.disk[ROOTINO].addrs = {1}
         /\ fs.ent[ROOTINO]["."] = ROOTINO /\ fs.ent[ROOTINO][".."] = ROOTINO
         /\ \A n \in Names : fs.ent[ROOTINO][n] = None
         /\ fs.mem[ROOTINO].ref = Cardinality(Procs)
         /\ \A i \in Inums : fs.mem[i].owner = NoProc
         /\ \A i \in Inums : i # ROOTINO =>
              /\ fs.disk[i].type = "free" /\ fs.disk[i].nlink = 0 /\ fs.disk[i].addrs = {}
              /\ fs.ent[i] = Empty /\ fs.mem[i].ref = 0
         /\ \A i \in Inums, n \in Names : fs.ent[i][n] = None
<1>1. ROOTINO \in Inums
  BY InumsAre
<1>2. PICK r : r = [type |-> "dir", nlink |-> 1, addrs |-> {1}]
  OBVIOUS
<1>3. fs.disk[ROOTINO] = r
  BY <1>1, <1>2, InitData
<1>4. fs.disk[ROOTINO].type = "dir" /\ fs.disk[ROOTINO].nlink = 1 /\ fs.disk[ROOTINO].addrs = {1}
  BY <1>2, <1>3
<1>5. fs.ent[ROOTINO] = [n \in Names \cup Dots |-> IF n \in Dots THEN ROOTINO ELSE None]
  BY <1>1, InitData
<1>6. /\ fs.ent[ROOTINO]["."] = ROOTINO /\ fs.ent[ROOTINO][".."] = ROOTINO
      /\ \A n \in Names : fs.ent[ROOTINO][n] = None
  BY <1>5, FsAssumption DEF Dots
<1>7. /\ fs.mem[ROOTINO].ref = Cardinality(Procs)
      /\ \A i \in Inums : fs.mem[i].owner = NoProc
      /\ \A i \in Inums : i # ROOTINO => fs.mem[i].ref = 0
  BY <1>1, InitData DEF Recycled
<1>8. PICK f : f = [type |-> "free", nlink |-> 0, addrs |-> {}]
  OBVIOUS
<1>9. \A i \in Inums : i # ROOTINO => fs.disk[i] = f /\ fs.ent[i] = Empty
  BY <1>8, InitData
<1>10. f.type = "free" /\ f.nlink = 0 /\ f.addrs = {}
  BY <1>8
<1>11. \A i \in Inums, n \in Names : fs.ent[i][n] = None
  BY <1>6, <1>9, Dotted
<1> QED
  BY <1>4, <1>6, <1>7, <1>9, <1>10, <1>11

\* cached once for every process,
LEMMA InitFsOK ==
  ASSUME Init
  PROVE  FsOK(fs)
<1>1. Cardinality(Procs) \in Nat
  BY FsAssumption, FS_CardinalityType
<1>2. ASSUME NEW i \in Inums PROVE fs.disk[i] \in DInode
  <2>1. [type |-> "dir", nlink |-> 1, addrs |-> {1}] \in DInode
    BY FsAssumption DEF DInode
  <2>2. [type |-> "free", nlink |-> 0, addrs |-> {}] \in DInode
    BY DEF DInode
  <2> QED
    BY <2>1, <2>2, InitData
<1>3. Recycled \in MInode
  BY DEF Recycled, MInode
<1>4. ASSUME NEW i \in Inums PROVE fs.mem[i] \in MInode
  <2>1. [Recycled EXCEPT !.ref = Cardinality(Procs)] \in MInode
    BY <1>1, <1>3 DEF MInode
  <2> QED
    BY <1>3, <2>1, InitData
<1>5. ASSUME NEW i \in Inums PROVE fs.ent[i] \in [Entry -> Inums \cup {None}]
  <2>1. [n \in Names \cup Dots |-> IF n \in Dots THEN ROOTINO ELSE None] \in [Entry -> Inums \cup {None}]
    BY InumsAre DEF Entry
  <2>2. Empty \in [Entry -> Inums \cup {None}]
    BY DEF Empty, Entry
  <2> QED
    BY <2>1, <2>2, InitData
<1>6. fs.used \in SUBSET Blocks
  BY InitData, FsAssumption
<1>7. fs.disk \in [Inums -> DInode] /\ fs.mem \in [Inums -> MInode]
      /\ fs.ent \in [Inums -> [Entry -> Inums \cup {None}]]
  BY <1>2, <1>4, <1>5, InitData
<1>8. fs \in FileSystems
  BY <1>6, <1>7, InitData DEF FileSystems
<1>9. ASSUME NEW i \in Inums PROVE SlotOK(fs, i)
  <2>1. CASE i # ROOTINO
    <3>1. fs.mem[i] = Recycled
      BY <2>1, InitData
    <3> QED
      BY <3>1 DEF SlotOK, Recycled
  <2>2. CASE i = ROOTINO
    <3>1. PICK k \in Nat : k = Cardinality(Procs)
      BY <1>1
    <3>2. fs.mem[i] = [Recycled EXCEPT !.ref = k]
      BY <2>2, <3>1, InitData
    <3>3. PICK m : m = [Recycled EXCEPT !.ref = k]
      OBVIOUS
    <3>4. m.owner = NoProc /\ m.valid = FALSE /\ m.nlink = 0
      BY <3>3 DEF Recycled
    <3>5. m.ref = 0 => m = Recycled
      BY <3>3 DEF Recycled
    <3> QED
      BY <3>2, <3>3, <3>4, <3>5 DEF SlotOK
  <2> QED
    BY <2>1, <2>2
<1> QED
  BY <1>8, <1>9 DEF FsOK

\* each of which has it as its directory.
LEMMA InitRefs ==
  ASSUME Init
  PROVE  RefsExact
<1>1. ASSUME NEW p \in Procs
      PROVE  Pointers(p) = <<ROOTINO, None, None, None, None, None>>
  <2>1. loc[p] = Idle /\ cwd[p] = ROOTINO /\ file[p] = None
    BY DEF Init
  <2>2. /\ Idle.pc = "user" /\ Idle.ret = "user" /\ Idle.at = None /\ Idle.ip = None
        /\ Idle.dp = None /\ Idle.put = None
    BY DEF Idle
  <2>3. "chdirDone" \notin {loc[p].pc, loc[p].ret}
    BY <2>1, <2>2
  <2> QED
    BY <2>1, <2>2, <2>3 DEF Pointers
<1>2. ASSUME NEW p \in Procs, NEW n \in 1 .. 6
      PROVE  Pointers(p)[n] = IF n = 1 THEN ROOTINO ELSE None
  <2>1. PICK s : s = <<ROOTINO, None, None, None, None, None>>
    OBVIOUS
  <2>2. /\ s[1] = ROOTINO /\ s[2] = None /\ s[3] = None /\ s[4] = None /\ s[5] = None /\ s[6] = None
    BY <2>1
  <2>3. n = 1 \/ n = 2 \/ n = 3 \/ n = 4 \/ n = 5 \/ n = 6
    OBVIOUS
  <2> QED
    BY <1>1, <2>1, <2>2, <2>3
<1>3. ASSUME NEW i \in Inums
      PROVE  fs.mem[i].ref = Cardinality({r \in Procs \X (1 .. 6) : Pointers(r[1])[r[2]] = i})
  <2>1. CASE i = ROOTINO
    <3>1. {r \in Procs \X (1 .. 6) : Pointers(r[1])[r[2]] = i} = Procs \X {1}
      <4>1. ASSUME NEW r \in Procs \X (1 .. 6)
            PROVE  Pointers(r[1])[r[2]] = i <=> r[2] = 1
        BY <1>2, <2>1, InumsAre
      <4>2. Procs \X {1} \subseteq Procs \X (1 .. 6)
        OBVIOUS
      <4>3. \A r \in Procs \X (1 .. 6) : r \in Procs \X {1} <=> r[2] = 1
        OBVIOUS
      <4> QED
        BY <4>1, <4>2, <4>3
    <3>2. IsFiniteSet({1}) /\ Cardinality({1}) = 1
      BY FS_Singleton
    <3>3. Cardinality(Procs \X {1}) = Cardinality(Procs) * 1
      BY <3>2, FsAssumption, FS_Product
    <3>4. Cardinality(Procs) \in Nat
      BY FsAssumption, FS_CardinalityType
    <3>5. Cardinality(Procs \X {1}) = Cardinality(Procs)
      BY <3>3, <3>4
    <3> QED
      BY <2>1, <3>1, <3>5, InitRoot
  <2>2. CASE i # ROOTINO
    <3>1. {r \in Procs \X (1 .. 6) : Pointers(r[1])[r[2]] = i} = {}
      BY <1>2, <2>2, InumsAre
    <3> QED
      BY <2>2, <3>1, InitRoot, FS_EmptySet
  <2> QED
    BY <2>1, <2>2
<1> QED
  BY <1>3 DEF RefsExact

\* The invariant holds at first,
LEMMA InitInv ==
  ASSUME Init
  PROVE  Inv
<1>1. ROOTINO \in Inums /\ None \notin Inums
  BY InumsAre
<1>2. \A p \in Procs : loc[p] = Idle /\ cwd[p] = ROOTINO /\ file[p] = None
  BY DEF Init
<1>3. /\ Idle.pc = "user" /\ Idle.ret = "user" /\ Idle.at = None /\ Idle.ip = None
      /\ Idle.dp = None /\ Idle.put = None /\ Stage(Idle) = "user"
  BY DEF Idle, Stage
<1>4. Shapes
  <2>1. loc = [p \in Procs |-> Idle] /\ cwd = [p \in Procs |-> ROOTINO] /\ file = [p \in Procs |-> None]
    BY DEF Init
  <2> QED
    BY <1>1, <2>1, IdleShape DEF Shapes
<1>5. Locked
  <2>1. \A i \in Inums : ~Holds(Idle, i)
    BY <1>3 DEF Holds, LocksDp, LocksIp
  <2> QED
    BY <1>2, <2>1, InitRoot, FsAssumption DEF Locked
<1>6. \A i : ~Fresh(i)
  BY <1>2, <1>3 DEF Fresh
<1>7. MadeDir(fs, ROOTINO)
  BY InitRoot DEF MadeDir, Made
<1>8. PointersMade
  <2>1. Good(ROOTINO) /\ Good(None)
    BY <1>1, <1>6, <1>7 DEF Good, MadeDir
  <2>2. GoodVars(Idle)
    BY <1>3, <2>1 DEF GoodVars
  <2>3. ASSUME NEW p \in Procs PROVE Good(Dir(loc[p], cwd[p])) /\ Good(file[p]) /\ GoodVars(loc[p])
    BY <1>2, <1>3, <2>1, <2>2 DEF Dir
  <2> QED
    BY <1>4, <2>3, PointersMadeIs
<1>9. FreshOK /\ ParentsAreDirs /\ LinkedAreFiles /\ EntryThere
  BY <1>2, <1>3 DEF FreshOK, ParentsAreDirs, LinkedAreFiles, Linking, EntryThere
<1>10. Root(fs)
  BY <1>7, InitRoot DEF Root
<1>11. Tree(fs)
  <2>1. ASSUME NEW i \in Inums
        PROVE  IF MadeDir(fs, i) THEN fs.ent[i]["."] = i /\ fs.ent[i][".."] # None ELSE fs.ent[i] = Empty
    BY <1>1, <1>7, InitRoot DEF MadeDir
  <2> QED
    BY <2>1, InitRoot DEF Tree
<1>12. Blocked(fs)
  <2>1. fs.used = UNION {fs.disk[i].addrs : i \in Inums}
    <3>1. \A b : b \in fs.used <=> \E i \in Inums : b \in fs.disk[i].addrs
      BY <1>1, InitRoot, InitData
    <3> QED
      BY <3>1
  <2>2. \A i, j \in Inums : i # j => fs.disk[i].addrs \cap fs.disk[j].addrs = {}
    BY InitRoot
  <2>3. \A i \in Inums : fs.disk[i].type = "free" => fs.disk[i].addrs = {}
    BY <1>1, InitRoot
  <2> QED
    BY <2>1, <2>2, <2>3 DEF Blocked
<1>13. Links
  <2>1. SUFFICES ASSUME NEW i \in Inums
        PROVE  fs.disk[i].nlink >= Cardinality(Named(fs, i)) + Cardinality(Kids(fs, i))
                                     + Cardinality(Counts(i)) + Ind(i = ROOTINO)
    BY DEF Links
  <2>2. Named(fs, i) = {} /\ Kids(fs, i) = {}
    BY <1>1, InitRoot DEF Named, Kids
  <2>3. Counts(i) = {}
    BY <1>2, <1>3 DEF Counts, Counted, Linking
  <2>z. PICK z \in Int, one \in Int : z = 0 /\ one = 1
    OBVIOUS
  <2>4. Cardinality(Named(fs, i)) = z /\ Cardinality(Kids(fs, i)) = z /\ Cardinality(Counts(i)) = z
    BY <2>2, <2>3, <2>z, FS_EmptySet
  <2>5. fs.disk[i].nlink = (IF i = ROOTINO THEN one ELSE z) /\ Ind(i = ROOTINO) = IF i = ROOTINO THEN one ELSE z
    BY <2>z, InitRoot DEF Ind
  <2>6. one >= z + z + z + one /\ z >= z + z + z + z
    BY <2>z
  <2> QED
    BY <2>4, <2>5, <2>6
<1>14. Panics
  BY DEF Init, Panics
<1> QED
  BY <1>4, <1>5, <1>8, <1>9, <1>10, <1>11, <1>12, <1>13, <1>14, InitFsOK, InitRefs DEF Inv

-----------------------------------------------------------------------------
\* The invariant in every step.

\* The invariant without panic.
InvRest == /\ Shapes /\ FsOK(fs) /\ RefsExact /\ Locked
           /\ PointersMade /\ FreshOK /\ ParentsAreDirs /\ LinkedAreFiles /\ EntryThere
           /\ Tree(fs) /\ Root(fs) /\ Blocked(fs) /\ Links

\* does not depend on panic,
LEMMA RestStays ==
  ASSUME InvRest, UNCHANGED <<fs, loc, cwd, file>>
  PROVE  InvRest'
<1>1. Shapes'
  BY DEF InvRest, Shapes
<1>2. FsOK(fs')
  BY DEF InvRest
<1>3. RefsExact'
  BY DEF InvRest, RefsExact, Pointers
<1>4. Locked'
  BY DEF InvRest, Locked
<1>5. \A i : Fresh(i)' <=> Fresh(i)
  BY DEF Fresh
<1>6. PointersMade'
  BY <1>5 DEF InvRest, PointersMade, Pointers
<1>7. FreshOK' /\ ParentsAreDirs' /\ LinkedAreFiles' /\ EntryThere'
  BY DEF InvRest, FreshOK, ParentsAreDirs, LinkedAreFiles, EntryThere
<1>8. Tree(fs') /\ Root(fs') /\ Blocked(fs')
  BY DEF InvRest
<1>9. Links'
  BY Zenon DEF InvRest, Links, Counts
<1> QED
  BY <1>1, <1>2, <1>3, <1>4, <1>6, <1>7, <1>8, <1>9 DEF InvRest

\* which no ordinary step sets,
LEMMA EffectPanic ==
  ASSUME NEW p \in Procs, Effect(p)
  PROVE  UNCHANGED panic
BY Zenon DEF Effect, Begins, Stops, Turns, Fails, Frees, Drops, PutsIp, PutsBad, PutsDp, Unlocks,
       UnlocksIp, CountsLink, FindsOld, AddsEntry, Uncounts, FindsEntry, RemovesEntry,
       FindsThere, Allocates, MakesFile, MakesDir, LocksFound, Opens, LeavesDir, EntersDir,
       Writes, Closes, Rest

\* and is kept by every step that does not look up the parent of a removed directory;
LEMMA InvStep ==
  ASSUME Inv, ~LostParent, [Next]_vars
  PROVE  Inv'
<1>1. CASE Next
  <2>1. PICK p \in Procs : FsOK(fs') /\ (Effect(p) \/ GivesUp)
    BY <1>1, Effects
  <2>2. CASE Effect(p)
    <3>1. Changes(p)
      BY <2>2, EffectChanges
    <3>2. Shapes'
      BY <2>2, ShapeEffect
    <3>3. RefsExact' /\ Locked'
      BY <2>1, <2>2, RefsEffect, LockedEffect
    <3>4. PointersMade' /\ FreshOK' /\ ParentsAreDirs' /\ LinkedAreFiles' /\ EntryThere'
      BY <2>2, PointersMadeEffect, FreshOKEffect, ParentsEffect, LinkedEffect, EntryThereEffect
    <3>5. Tree(fs') /\ Root(fs') /\ Blocked(fs')
      BY <3>1, TreeEffect, BlockedEffect
    <3>6. Links'
      BY <2>1, <2>2, LinksEffect
    <3>7. Panics'
      BY Zenon, <2>2, EffectPanic DEF Inv, Panics
    <3> QED
      BY <2>1, <3>2, <3>3, <3>4, <3>5, <3>6, <3>7 DEF Inv
  <2>3. CASE GivesUp
    <3>1. InvRest'
      BY Zenon, <2>3, RestStays DEF GivesUp, Inv, InvRest
    <3>2. Panics'
      BY Zenon, <2>3 DEF GivesUp, Panics
    <3> QED
      BY <3>1, <3>2 DEF Inv, InvRest
  <2> QED
    BY <2>1, <2>2, <2>3
<1>2. CASE UNCHANGED vars
  <2>1. InvRest'
    BY <1>2, RestStays DEF vars, Inv, InvRest
  <2>2. Panics'
    BY Zenon, <1>2 DEF vars, Inv, Panics
  <2> QED
    BY <2>1, <2>2 DEF Inv, InvRest
<1> QED
  BY <1>1, <1>2

\* so it always holds.
LEMMA AlwaysInv == Spec /\ []~LostParent => []Inv
<1>1. Init => Inv
  BY InitInv
<1>2. Inv /\ ~LostParent /\ [Next]_vars => Inv'
  BY InvStep
<1> QED
  BY <1>1, <1>2, PTL DEF Spec

-----------------------------------------------------------------------------
\* What the invariant says of the inodes.

\* It implies InodesExact.
LEMMA InvInodes ==
  ASSUME Inv
  PROVE  InodesExact
<1>1. Shapes /\ FsOK(fs) /\ Tree(fs) /\ Blocked(fs) /\ Links
  BY DEF Inv
<1>2. ASSUME NEW i \in Inums
      PROVE  /\ fs.disk[i].nlink \in Nat /\ fs.disk[i].nlink >= Cardinality(Entries(i))
             /\ Entries(i) # {} => fs.disk[i].type # "free"
  <2>1. Entries(i) = Named(fs, i)
    BY DEF Entries, Named
  <2>2. PICK k \in Int : k = fs.disk[i].nlink
    BY DiskType
  <2>3. PICK x \in Nat, y \in Nat, z \in Nat :
          x = Cardinality(Named(fs, i)) /\ y = Cardinality(Kids(fs, i)) /\ z = Cardinality(Counts(i))
    BY NamedFinite, KidsFinite, CountsFinite
  <2>4. PICK r \in Nat : r = Ind(i = ROOTINO)
    BY DEF Ind
  <2>5. k >= x + y + z + r
    BY <1>1, <2>2, <2>3, <2>4 DEF Links
  <2>6. k \in Nat /\ k >= x
    BY <2>5
  <2>7. Entries(i) # {} => Made(fs, i)
    <3>1. SUFFICES ASSUME NEW e \in Entries(i) PROVE Made(fs, i)
      OBVIOUS
    <3>2. PICK d \in Inums, n \in Names : fs.ent[d][n] = i
      BY DEF Entries
    <3> QED
      BY <3>2, NamesUsable, InumsAre
  <2> QED
    BY <2>1, <2>2, <2>3, <2>6, <2>7 DEF Made
<1>3. InUseAllocated
  <2>1. SUFFICES ASSUME NEW p \in Procs, NEW n \in 1 .. 6, Pointers(p)[n] # None,
                        ~(n = 6 /\ loc[p].pc = "drop")
                 PROVE  fs.disk[Pointers(p)[n]].type # "free"
    BY DEF InUseAllocated
  <2>2. CASE n = 4 /\ Stage(loc[p]) = "createNew"
    <3>1. Pointers(p)[n] = loc[p].ip
      BY <2>2, PointersAre
    <3>2. fs.disk[loc[p].ip] = [type |-> TypeFor(loc[p].op), nlink |-> 0, addrs |-> {}]
      BY <2>2 DEF Inv, FreshOK
    <3>3. fs.disk[loc[p].ip].type = TypeFor(loc[p].op)
      BY <3>2
    <3> QED
      BY <3>1, <3>3 DEF TypeFor
  <2>3. CASE ~(n = 4 /\ Stage(loc[p]) = "createNew")
    BY <2>1, <2>3 DEF Inv, PointersMade, Made
  <2> QED
    BY <2>2, <2>3
<1>4. LinksCover
  BY <1>2 DEF LinksCover
<1>5. BlocksExact
  <2>1. \A i \in Inums : fs.disk[i].type = "free" => fs.ent[i] = Empty
    BY <1>1 DEF Tree, MadeDir, Made
  <2> QED
    BY <1>1, <2>1 DEF Blocked, BlocksExact
<1>6. \A i \in Inums : SlotOK(fs, i)
  BY <1>1 DEF FsOK
<1>7. CacheCurrent
  BY <1>6 DEF CacheCurrent, SlotOK
<1>8. TypeOK
  <2>d. PICK D : D = [type : {"free", "file", "dir"}, nlink : Nat, addrs : SUBSET Blocks]
    OBVIOUS
  <2>1. ASSUME NEW i \in Inums PROVE fs.disk[i] \in D
    <3>1. fs.disk[i] \in DInode /\ fs.disk[i].nlink \in Nat
      BY <1>2, DiskType
    <3> QED
      BY <2>d, <3>1 DEF DInode
  <2>2. fs.disk \in [Inums -> D]
    BY <2>1, DiskType
  <2>3. ASSUME NEW i \in Inums
        PROVE  /\ fs.mem[i].ref \in Nat /\ fs.mem[i].valid \in BOOLEAN
               /\ fs.mem[i].owner \in Procs \cup {NoProc}
               /\ [type |-> fs.mem[i].type, nlink |-> fs.mem[i].nlink, addrs |-> fs.mem[i].addrs] \in D
    <3>1. fs.mem[i] \in MInode
      BY <1>1, SlotTypes DEF FsOK
    <3>2. fs.mem[i].nlink \in Nat
      <4>1. CASE fs.mem[i].valid
        BY <1>2, <1>6, <4>1 DEF SlotOK
      <4>2. CASE ~fs.mem[i].valid
        BY <1>6, <4>2 DEF SlotOK
      <4> QED
        BY <4>1, <4>2
    <3> QED
      BY <2>d, <3>1, <3>2 DEF MInode
  <2>4. fs.ent \in [Inums -> [Names \cup Dots -> Inums \cup {None}]]
    BY DiskType DEF Entry
  <2>5. fs.used \subseteq Blocks
    BY <1>1 DEF FsOK, FileSystems
  <2>6. \A p \in Procs : loc[p].pc \in Labels /\ loc[p].ret \in Labels
    BY <1>1 DEF Shapes, Local
  <2>7. cwd \in [Procs -> Inums] /\ file \in [Procs -> Inums \cup {None}]
    BY <1>1 DEF Shapes
  <2> QED
    BY <2>d, <2>2, <2>3, <2>4, <2>5, <2>6, <2>7 DEF TypeOK
<1>9. RefsExact /\ InodesHaveTypes
  BY Zenon DEF Inv, Panics, InodesHaveTypes
<1> QED
  BY <1>3, <1>4, <1>5, <1>7, <1>8, <1>9 DEF InodesExact, CacheExact, DiskExact

\* What the invariant says of the locks.
LEMMA InvLocks ==
  ASSUME Inv
  PROVE  LocksOrdered
<1>1. SUFFICES ASSUME NEW p \in Procs, NEW q \in Procs, WaitsFor(p, q), WaitsFor(q, p),
                      loc[p].pc # "iput", loc[q].pc # "iput"
               PROVE  FALSE
  BY DEF LocksOrdered
<1>2. ASSUME NEW x \in Procs, NEW y \in Procs, WaitsFor(x, y), WaitsFor(y, x), loc[x].pc # "iput",
             loc[y].pc # "iput"
      PROVE  /\ loc[x].pc \in {"unlinkEntry", "createNew"} /\ Wanted(x) = loc[x].ip
             /\ Stage(loc[x]) = loc[x].pc /\ loc[x].dp \in Inums /\ loc[x].ip \in Inums
             /\ fs.mem[loc[x].ip].owner = y /\ Holds(loc[y], loc[x].ip)
  <2>0. Shape(loc[x]) /\ loc[x] \in Local /\ Shape(loc[y]) /\ loc[y] \in Local
    BY DEF Inv, Shapes
  <2>1. Wanted(y) # None /\ fs.mem[Wanted(y)].owner = x /\ Wanted(x) # None
        /\ fs.mem[Wanted(x)].owner = y
    BY Zenon, <1>2 DEF WaitsFor
  <2>2. Wanted(y) \in Inums /\ Wanted(x) \in Inums
    BY <2>0, <2>1 DEF Wanted, Local
  <2>3. Holds(loc[x], Wanted(y)) /\ Holds(loc[y], Wanted(x))
    BY Zenon, <2>1, <2>2 DEF Inv, Locked
  <2>4. loc[x].pc \in {"walk", "linkNew", "unlink", "create", "mkdir", "link", "linkBad",
                       "unlinkEntry", "createNew", "createThere", "open", "chdir"}
    BY <1>2, <2>1 DEF Wanted
  <2>5. Stage(loc[x]) = loc[x].pc
    BY <2>4 DEF Stage
  <2>6. loc[x].pc \in {"unlinkEntry", "createNew"}
    BY <2>3, <2>4, <2>5 DEF Holds, LocksDp, LocksIp
  <2>7. Wanted(x) = loc[x].ip
    BY <2>6 DEF Wanted
  <2>8. loc[x].dp \in Inums
    BY <2>5, <2>6, HeldDp DEF LocksDp
  <2> QED
    BY <2>1, <2>2, <2>3, <2>5, <2>6, <2>7, <2>8
<1>3. /\ loc[p].pc \in {"unlinkEntry", "createNew"} /\ loc[p].dp \in Inums /\ loc[p].ip \in Inums
      /\ Stage(loc[p]) = loc[p].pc
      /\ loc[q].pc \in {"unlinkEntry", "createNew"} /\ loc[q].dp \in Inums /\ loc[q].ip \in Inums
      /\ Stage(loc[q]) = loc[q].pc
      /\ Holds(loc[q], loc[p].ip) /\ Holds(loc[p], loc[q].ip)
  BY <1>1, <1>2
<1>4. loc[q].dp = loc[p].ip /\ loc[p].dp = loc[q].ip
  BY <1>3 DEF Holds, LocksIp
<1>5. ~Fresh(loc[p].dp) /\ ~Fresh(loc[q].dp)
  BY <1>3, HeldDp DEF LocksDp, Usable
<1>6. Stage(loc[p]) # "createNew" /\ Stage(loc[q]) # "createNew"
  BY <1>4, <1>5 DEF Fresh
<1>7. PICK i \in Inums, j \in Inums, n \in Names, m \in Names :
        /\ i = loc[p].dp /\ j = loc[q].dp /\ n = Head(loc[p].path) /\ m = Head(loc[q].path)
  <2>1. Head(loc[p].path) \in Names /\ Head(loc[q].path) \in Names
    BY <1>3, <1>6 DEF Inv, Shapes, Shape
  <2> QED
    BY <1>3, <2>1
<1>8. fs.ent[i][n] = j /\ fs.ent[j][m] = i
  BY <1>3, <1>4, <1>6, <1>7 DEF Inv, EntryThere
<1>9. i # None /\ j # None
  BY InumsAre
<1> QED
  BY <1>8, <1>9 DEF Inv, Tree

\* fs.c:58-95, 195-360, sysfile.c:106-283: the cached inodes are counted and up to date;
\* the disk holds what the names and the processes refer to, and nothing else: no inode or
\* block is freed too early, given out twice or lost, however the calls of any number of
\* processes interleave, as long as nobody looks up the parent of a removed directory.
THEOREM InodesStayExact == Spec /\ []~LostParent => []InodesExact
<1>1. Inv => InodesExact
  BY InvInodes
<1> QED
  BY <1>1, AlwaysInv, PTL

\* namex(), create() and sys_unlink() lock a parent before its child: two processes wait for
\* each other's inodes only in the iput() that sys_unlink() and create() call with an inode
\* locked.
THEOREM LocksStayOrdered == Spec /\ []~LostParent => []LocksOrdered
<1>1. Inv => LocksOrdered
  BY InvLocks
<1> QED
  BY <1>1, AlwaysInv, PTL

\* fs.c:305-310: ilock() finds no free inode on the disk, so that it never panics, as long as
\* nobody looks up the parent of a removed directory.
THEOREM TypesAreFound == Spec /\ []~LostParent => []InodesHaveTypes
<1>1. Inv => InodesHaveTypes
  BY Zenon DEF Inv, Panics, InodesHaveTypes
<1> QED
  BY <1>1, AlwaysInv, PTL
=============================================================================
