-------------------------- MODULE FileSystemSteps --------------------------
(***************************************************************************)
(* What the steps of the file system do, for every number of processes,    *)
(* inodes, blocks and names and any calls.                                  *)
(*                                                                          *)
(* The first part says what ilock(), iunlock() and iput() do; the second,   *)
(* which of about thirty outcomes each action has (Effect); the third, that *)
(* the outcomes keep the shapes of the state, the counts of references and  *)
(* who holds which lock.  FileSystemProofs has the rest of the invariant    *)
(* Inv, and the theorems.                                                   *)
(***************************************************************************)
EXTENDS FileSystem, FiniteSetTheorems, TLAPS

-----------------------------------------------------------------------------
\* The disk and the inode cache.

Entry == Names \cup Dots
DInode == [type : {"free", "file", "dir"}, nlink : Int, addrs : SUBSET Blocks]
MInode == [ref : Nat, valid : BOOLEAN, owner : Procs \cup {NoProc},
           type : {"free", "file", "dir"}, nlink : Int, addrs : SUBSET Blocks]
FileSystems == [disk : [Inums -> DInode], mem : [Inums -> MInode],
                ent : [Inums -> [Entry -> Inums \cup {None}]], used : SUBSET Blocks]

\* What the cache may hold for number i: nothing; an inode to be read; or what is on the
\* disk.  A locked inode has been read.
SlotOK(F, i) ==
    LET m == F.mem[i]
        d == F.disk[i]
    IN  /\ m.ref = 0 => m = Recycled
        /\ m.owner # NoProc => m.valid
        /\ m.valid => /\ m.type = d.type /\ m.nlink = d.nlink /\ m.addrs = d.addrs
                      /\ d.type # "free"
        /\ ~m.valid => m.nlink = 0

\* A file system of these types whose slots are in order.
FsOK(F) == F \in FileSystems /\ \A i \in Inums : SlotOK(F, i)

\* What a step leaves alone, and what it changes.
SameData(F, G) == G.disk = F.disk /\ G.ent = F.ent /\ G.used = F.used
AddRefs(F, G, i, n) == \A j \in Inums :
    G.mem[j].ref = IF j = i THEN F.mem[j].ref + n ELSE F.mem[j].ref
SameRefs(F, G) == \A j \in Inums : G.mem[j].ref = F.mem[j].ref
SetOwner(F, G, i, o) == \A j \in Inums :
    G.mem[j].owner = IF j = i THEN o ELSE F.mem[j].owner
SameOwners(F, G) == \A j \in Inums : G.mem[j].owner = F.mem[j].owner
SetDisk(F, G, i, d) == G.disk = [F.disk EXCEPT ![i] = d]

\* The numbers of inodes; 0 is none of them.
LEMMA InumsAre ==
  /\ ROOTINO \in Inums /\ None \notin Inums /\ Inums \subseteq Nat
  /\ IsFiniteSet(Inums)
<1>1. NINODES \in Nat /\ NINODES >= 1
  BY FsAssumption
<1>2. IsFiniteSet(1 .. NINODES)
  BY <1>1, FS_Interval
<1> QED
  BY <1>1, <1>2 DEF ROOTINO, Inums, None

\* The types of the parts of a file system.
LEMMA SlotTypes ==
  ASSUME NEW F \in FileSystems, NEW i \in Inums
  PROVE  /\ F.mem[i] \in MInode /\ F.disk[i] \in DInode
         /\ F.ent[i] \in [Entry -> Inums \cup {None}]
BY DEF FileSystems

\* iget()
LEMMA IgetOK ==
  ASSUME NEW F, FsOK(F), NEW i \in Inums
  PROVE  LET G == iget(F, i)
         IN  /\ FsOK(G) /\ SameData(F, G) /\ SameOwners(F, G) /\ AddRefs(F, G, i, 1)
             /\ \A j \in Inums : G.mem[j].valid = F.mem[j].valid
<1> DEFINE G == iget(F, i)
<1>0. F \in FileSystems /\ F.mem \in [Inums -> MInode] /\ \A j \in Inums : SlotOK(F, j)
  BY DEF FsOK, FileSystems
<1>1. PICK m \in MInode : m = F.mem[i]
  BY <1>0
<1>k. PICK k \in Nat : k = m.ref
  BY DEF MInode
<1>l. PICK l \in Nat : l = k + 1
  OBVIOUS
<1>2. PICK n \in MInode : n = [m EXCEPT !.ref = l]
  BY DEF MInode
<1>3. m.ref = 0 => m = Recycled
  BY <1>0, <1>1 DEF SlotOK
<1>4. m.ref = 0 => n = [[m EXCEPT !.ref = 1] EXCEPT !.valid = FALSE]
  <2>1. SUFFICES ASSUME m.ref = 0 PROVE n = [[m EXCEPT !.ref = 1] EXCEPT !.valid = FALSE]
    OBVIOUS
  <2>2. l = 1 /\ m.valid = FALSE
    BY <2>1, <1>k, <1>l, <1>3 DEF Recycled
  <2>3. [m EXCEPT !.valid = FALSE] = m
    BY <2>2 DEF MInode
  <2> QED
    BY <2>2, <2>3, <1>2 DEF MInode
<1>4b. k > 0 => n = [m EXCEPT !.ref = m.ref + 1]
  BY <1>2, <1>k, <1>l
<1>4c. k = 0 \/ k > 0
  BY <1>k
<1>5. G = [F EXCEPT !.mem = [F.mem EXCEPT ![i] = n]]
  <2>1. CASE k > 0
    BY <1>0, <1>1, <1>k, <1>4b, <2>1 DEF iget, FileSystems
  <2>2. CASE k = 0
    <3>1. G = [F EXCEPT !.mem[i].ref = 1, !.mem[i].valid = FALSE]
      BY <1>1, <1>k, <2>2 DEF iget
    <3>2. PICK H : H = [F EXCEPT !.mem[i].ref = 1]
      OBVIOUS
    <3>3. G = [H EXCEPT !.mem[i].valid = FALSE]
      BY <3>1, <3>2, Zenon
    <3>4. H = [F EXCEPT !.mem = [F.mem EXCEPT ![i] = [m EXCEPT !.ref = 1]]]
      BY <3>2, <1>0, <1>1 DEF FileSystems
    <3>5. G = [F EXCEPT !.mem = [F.mem EXCEPT ![i] = [[m EXCEPT !.ref = 1] EXCEPT !.valid = FALSE]]]
      BY <3>3, <3>4, <1>0 DEF FileSystems
    <3> QED
      BY <3>5, <1>1, <1>k, <2>2, <1>4
  <2> QED
    BY <2>1, <2>2, <1>4c
<1>6. G \in FileSystems /\ SameData(F, G) /\ G.mem = [F.mem EXCEPT ![i] = n]
  BY Zenon, <1>0, <1>5 DEF FileSystems, SameData
<1>7. /\ n.ref = m.ref + 1 /\ n.valid = m.valid /\ n.owner = m.owner
      /\ n.type = m.type /\ n.nlink = m.nlink /\ n.addrs = m.addrs
  BY <1>2, <1>k, <1>l DEF MInode
<1>8. n.ref # 0
  BY <1>2, <1>l DEF MInode
<1>9. \A j \in Inums : SlotOK(G, j)
  BY <1>0, <1>1, <1>6, <1>7, <1>8 DEF SlotOK, SameData
<1>10. SameOwners(F, G) /\ \A j \in Inums : G.mem[j].valid = F.mem[j].valid
  BY <1>0, <1>1, <1>6, <1>7 DEF SameOwners
<1>11. AddRefs(F, G, i, 1)
  BY <1>0, <1>1, <1>6, <1>7 DEF AddRefs
<1> QED
  BY <1>6, <1>9, <1>10, <1>11 DEF FsOK

\* ilock(): the slot of the cache holds what is on the disk.
LEMMA IlockOK ==
  ASSUME NEW F, FsOK(F), NEW i \in Inums, NEW p \in Procs,
         F.disk[i].type # "free", F.mem[i].ref # 0
  PROVE  LET G == ilock(F, i, p)
         IN  /\ FsOK(G) /\ SameData(F, G) /\ SetOwner(F, G, i, p) /\ SameRefs(F, G)
             /\ G.mem[i].valid /\ G.mem[i].type = F.disk[i].type
             /\ G.mem[i].nlink = F.disk[i].nlink /\ G.mem[i].addrs = F.disk[i].addrs
             /\ \A j \in Inums : j # i => G.mem[j] = F.mem[j]
<1> DEFINE G == ilock(F, i, p)
<1>0. F \in FileSystems /\ F.mem \in [Inums -> MInode] /\ \A j \in Inums : SlotOK(F, j)
  BY DEF FsOK, FileSystems
<1>1. PICK m \in MInode : m = F.mem[i]
  BY <1>0
<1>1d. PICK d \in DInode : d = F.disk[i]
  BY <1>0, SlotTypes
<1>s. SlotOK(F, i)
  BY <1>0
<1>2. PICK n \in MInode : n = IF m.valid THEN [m EXCEPT !.owner = p]
                              ELSE [m EXCEPT !.owner = p, !.valid = TRUE, !.type = d.type,
                                             !.nlink = d.nlink, !.addrs = d.addrs]
  BY DEF MInode, DInode
<1>5. G = [F EXCEPT !.mem = [F.mem EXCEPT ![i] = n]]
  BY <1>0, <1>1, <1>1d, <1>2 DEF ilock, FileSystems
<1>6. G \in FileSystems /\ SameData(F, G) /\ G.mem = [F.mem EXCEPT ![i] = n]
  BY Zenon, <1>0, <1>5 DEF FileSystems, SameData
<1>7. /\ n.ref = m.ref /\ n.valid = TRUE /\ n.owner = p
      /\ n.type = d.type /\ n.nlink = d.nlink /\ n.addrs = d.addrs
  BY <1>2, <1>s, <1>1, <1>1d DEF MInode, SlotOK
<1>8. n.ref # 0
  BY <1>7, <1>1
<1>9. \A j \in Inums : SlotOK(G, j)
  BY <1>0, <1>1, <1>1d, <1>6, <1>7, <1>8 DEF SlotOK, SameData
<1>10. SetOwner(F, G, i, p) /\ SameRefs(F, G)
  BY <1>0, <1>1, <1>6, <1>7 DEF SetOwner, SameRefs
<1> QED
  BY <1>0, <1>1d, <1>6, <1>7, <1>9, <1>10 DEF FsOK

\* iunlock() lets the lock go and changes nothing else.
LEMMA IunlockOK ==
  ASSUME NEW F, FsOK(F), NEW i \in Inums, F.mem[i].ref # 0
  PROVE  LET G == iunlock(F, i)
         IN  /\ FsOK(G) /\ SameData(F, G) /\ SetOwner(F, G, i, NoProc) /\ SameRefs(F, G)
             /\ \A j \in Inums : G.mem[j].valid = F.mem[j].valid
<1> DEFINE G == iunlock(F, i)
<1>0. F \in FileSystems /\ F.mem \in [Inums -> MInode] /\ \A j \in Inums : SlotOK(F, j)
  BY DEF FsOK, FileSystems
<1>1. PICK m \in MInode : m = F.mem[i]
  BY <1>0
<1>2. PICK n \in MInode : n = [m EXCEPT !.owner = NoProc]
  BY DEF MInode
<1>5. G = [F EXCEPT !.mem = [F.mem EXCEPT ![i] = n]]
  BY <1>0, <1>1, <1>2 DEF iunlock, FileSystems
<1>6. G \in FileSystems /\ SameData(F, G) /\ G.mem = [F.mem EXCEPT ![i] = n]
  BY Zenon, <1>0, <1>5 DEF FileSystems, SameData
<1>7. /\ n.ref = m.ref /\ n.valid = m.valid /\ n.owner = NoProc
      /\ n.type = m.type /\ n.nlink = m.nlink /\ n.addrs = m.addrs
  BY <1>2, <1>1 DEF MInode
<1>8. n.ref # 0
  BY <1>7, <1>1
<1>9. \A j \in Inums : SlotOK(G, j)
  BY <1>0, <1>1, <1>6, <1>7, <1>8 DEF SlotOK, SameData
<1>10. SetOwner(F, G, i, NoProc) /\ SameRefs(F, G) /\ \A j \in Inums : G.mem[j].valid = F.mem[j].valid
  BY <1>0, <1>1, <1>6, <1>7 DEF SetOwner, SameRefs
<1> QED
  BY <1>6, <1>9, <1>10 DEF FsOK

\* A change of a cached inode, written through to the disk.
LEMMA IupdateOK ==
  ASSUME NEW F, FsOK(F), NEW i \in Inums, NEW m \in MInode, NEW u \in SUBSET Blocks,
         m.ref = F.mem[i].ref, m.ref # 0, m.valid, m.type # "free",
         NEW E \in FileSystems, E.mem = [F.mem EXCEPT ![i] = m], E.disk = F.disk,
         E.ent = F.ent, E.used = u
  PROVE  LET G == iupdate(E, i)
         IN  /\ FsOK(G) /\ G.ent = F.ent /\ G.used = u /\ G.mem = [F.mem EXCEPT ![i] = m]
             /\ SetDisk(F, G, i, [type |-> m.type, nlink |-> m.nlink, addrs |-> m.addrs])
             /\ SetOwner(F, G, i, m.owner) /\ SameRefs(F, G)
<1> DEFINE G == iupdate(E, i)
<1>0. /\ F \in FileSystems /\ F.mem \in [Inums -> MInode] /\ F.disk \in [Inums -> DInode]
      /\ \A j \in Inums : SlotOK(F, j)
  BY DEF FsOK, FileSystems
<1>1. PICK d \in DInode : d = [type |-> m.type, nlink |-> m.nlink, addrs |-> m.addrs]
  BY DEF MInode, DInode
<1>2. E.mem[i] = m
  BY <1>0
<1>d. PICK D \in [Inums -> DInode] : D = [F.disk EXCEPT ![i] = d]
  BY <1>0
<1>3. G = [E EXCEPT !.disk = D]
  BY <1>1, <1>2, <1>d DEF iupdate, FileSystems
<1>4. /\ G \in FileSystems /\ G.mem = [F.mem EXCEPT ![i] = m] /\ G.ent = F.ent /\ G.used = u
      /\ G.disk = [F.disk EXCEPT ![i] = d]
  <2> HIDE DEF G
  <2>1. G \in FileSystems /\ G.disk = D /\ G.mem = E.mem /\ G.ent = E.ent /\ G.used = E.used
    BY <1>3 DEF FileSystems
  <2> QED
    BY <2>1, <1>d
<1>5. d.type = m.type /\ d.nlink = m.nlink /\ d.addrs = m.addrs
  BY <1>1
<1>6. \A j \in Inums : SlotOK(G, j)
  BY <1>0, <1>4, <1>5 DEF SlotOK
<1>7. SetOwner(F, G, i, m.owner) /\ SameRefs(F, G)
  BY <1>0, <1>4 DEF SetOwner, SameRefs
<1> QED
  BY <1>1, <1>4, <1>6, <1>7 DEF FsOK, SetDisk

\* nlink++, nlink--
LEMMA RelinkOK ==
  ASSUME NEW F, FsOK(F), NEW i \in Inums, NEW n \in Int, F.mem[i].valid, F.mem[i].ref # 0
  PROVE  LET G == relink(F, i, n)
         IN  /\ FsOK(G) /\ G.ent = F.ent /\ G.used = F.used /\ SameOwners(F, G) /\ SameRefs(F, G)
             /\ \A j \in Inums : G.mem[j].valid = F.mem[j].valid
             /\ SetDisk(F, G, i, [type |-> F.disk[i].type, nlink |-> F.disk[i].nlink + n,
                                  addrs |-> F.disk[i].addrs])
<1> DEFINE G == relink(F, i, n)
<1>0. /\ F \in FileSystems /\ F.mem \in [Inums -> MInode] /\ SlotOK(F, i)
      /\ F.used \in SUBSET Blocks
  BY DEF FsOK, FileSystems
<1>1. PICK m \in MInode : m = F.mem[i]
  BY <1>0
<1>k. PICK k \in Int : k = m.nlink
  BY DEF MInode
<1>l. PICK l \in Int : l = k + n
  OBVIOUS
<1>2. PICK m1 \in MInode : m1 = [m EXCEPT !.nlink = l]
  BY DEF MInode
<1>3. /\ m1.ref = m.ref /\ m1.valid = m.valid /\ m1.owner = m.owner
      /\ m1.type = m.type /\ m1.nlink = l /\ m1.addrs = m.addrs
  BY <1>2 DEF MInode
<1>4. PICK E : E = [F EXCEPT !.mem = [F.mem EXCEPT ![i] = m1]]
  OBVIOUS
<1>5. G = iupdate(E, i)
  <2>1. m1 = [m EXCEPT !.nlink = m.nlink + n]
    BY <1>2, <1>k, <1>l
  <2>2. E = [F EXCEPT !.mem[i].nlink = @ + n]
    BY <2>1, <1>0, <1>1, <1>4 DEF FileSystems
  <2> QED
    BY <2>2 DEF relink
<1>6. /\ E \in FileSystems /\ E.mem = [F.mem EXCEPT ![i] = m1] /\ E.disk = F.disk
      /\ E.ent = F.ent /\ E.used = F.used
  BY <1>0, <1>4 DEF FileSystems
<1>7. /\ FsOK(G) /\ G.ent = F.ent /\ G.used = F.used /\ G.mem = [F.mem EXCEPT ![i] = m1]
      /\ SetDisk(F, G, i, [type |-> m1.type, nlink |-> m1.nlink, addrs |-> m1.addrs])
      /\ SetOwner(F, G, i, m1.owner) /\ SameRefs(F, G)
  <2>1. m1.ref = F.mem[i].ref /\ m1.ref # 0 /\ m1.valid /\ m1.type # "free"
    BY <1>0, <1>1, <1>3 DEF SlotOK
  <2> HIDE DEF G
  <2> QED
    BY <2>1, <1>0, <1>5, <1>6, IupdateOK
<1>8. /\ m1.type = F.disk[i].type /\ m1.nlink = F.disk[i].nlink + n /\ m1.addrs = F.disk[i].addrs
      /\ m1.owner = F.mem[i].owner /\ m1.valid = F.mem[i].valid
  BY <1>0, <1>1, <1>3, <1>k, <1>l DEF SlotOK
<1> HIDE DEF G
<1>9. SameOwners(F, G) /\ \A j \in Inums : G.mem[j].valid = F.mem[j].valid
  BY <1>0, <1>7, <1>8 DEF SetOwner, SameOwners
<1> QED
  BY <1>7, <1>8, <1>9 DEF G

\* nlink = 1
LEMMA FirstLinkOK ==
  ASSUME NEW F, FsOK(F), NEW i \in Inums, F.mem[i].valid, F.mem[i].ref # 0
  PROVE  LET G == iupdate([F EXCEPT !.mem[i].nlink = 1], i)
         IN  /\ FsOK(G) /\ G.ent = F.ent /\ G.used = F.used /\ SameOwners(F, G) /\ SameRefs(F, G)
             /\ \A j \in Inums : G.mem[j].valid = F.mem[j].valid
             /\ SetDisk(F, G, i, [type |-> F.disk[i].type, nlink |-> 1,
                                  addrs |-> F.disk[i].addrs])
<1> DEFINE G == iupdate([F EXCEPT !.mem[i].nlink = 1], i)
<1>0. /\ F \in FileSystems /\ F.mem \in [Inums -> MInode] /\ SlotOK(F, i)
      /\ F.used \in SUBSET Blocks
  BY DEF FsOK, FileSystems
<1>1. PICK m \in MInode : m = F.mem[i]
  BY <1>0
<1>k. PICK k \in Int : k = 1
  OBVIOUS
<1>2. PICK m1 \in MInode : m1 = [m EXCEPT !.nlink = k]
  BY DEF MInode
<1>3. /\ m1.ref = m.ref /\ m1.valid = m.valid /\ m1.owner = m.owner
      /\ m1.type = m.type /\ m1.nlink = 1 /\ m1.addrs = m.addrs
  BY <1>2, <1>k DEF MInode
<1>4. PICK E : E = [F EXCEPT !.mem = [F.mem EXCEPT ![i] = m1]]
  OBVIOUS
<1>5. G = iupdate(E, i)
  BY <1>0, <1>1, <1>k, <1>2, <1>4 DEF FileSystems
<1>6. /\ E \in FileSystems /\ E.mem = [F.mem EXCEPT ![i] = m1] /\ E.disk = F.disk
      /\ E.ent = F.ent /\ E.used = F.used
  BY <1>0, <1>4 DEF FileSystems
<1> HIDE DEF G
<1>7. /\ FsOK(G) /\ G.ent = F.ent /\ G.used = F.used /\ G.mem = [F.mem EXCEPT ![i] = m1]
      /\ SetDisk(F, G, i, [type |-> m1.type, nlink |-> m1.nlink, addrs |-> m1.addrs])
      /\ SetOwner(F, G, i, m1.owner) /\ SameRefs(F, G)
  <2>1. m1.ref = F.mem[i].ref /\ m1.ref # 0 /\ m1.valid /\ m1.type # "free"
    BY <1>0, <1>1, <1>3 DEF SlotOK
  <2> QED
    BY <2>1, <1>0, <1>5, <1>6, IupdateOK
<1>8. /\ m1.type = F.disk[i].type /\ m1.addrs = F.disk[i].addrs
      /\ m1.owner = F.mem[i].owner /\ m1.valid = F.mem[i].valid
  BY <1>0, <1>1, <1>3 DEF SlotOK
<1>9. SameOwners(F, G) /\ \A j \in Inums : G.mem[j].valid = F.mem[j].valid
  BY <1>0, <1>7, <1>8 DEF SetOwner, SameOwners
<1> QED
  BY <1>3, <1>7, <1>8, <1>9 DEF G

\* A set of block or inode numbers that is not empty has a least one.
LEMMA LeastOf ==
  ASSUME NEW S, S \subseteq Nat, S # {}
  PROVE  (CHOOSE k \in S : \A l \in S : k <= l) \in S
<1>1. \E x \in S : \A y \in S : <<y, x>> \notin OpToRel(<, Nat)
  BY Zenon, WFMin, NatLessThanWellFounded
<1>2. PICK x \in S : \A y \in S : ~(y < x)
  BY <1>1 DEF OpToRel
<1>3. \A y \in S : x <= y
  BY <1>2
<1> QED
  BY <1>2, <1>3

\* balloc()
LEMMA BallocOK ==
  ASSUME NEW F, FsOK(F), NEW i \in Inums, F.mem[i].valid, F.mem[i].ref # 0, free(F) # {}
  PROVE  LET G == balloc(F, i)
         IN  /\ FsOK(G) /\ G.ent = F.ent /\ SameOwners(F, G) /\ SameRefs(F, G)
             /\ \A j \in Inums : G.mem[j].valid = F.mem[j].valid
             /\ \E k \in free(F) :
                  /\ G.used = F.used \cup {k}
                  /\ SetDisk(F, G, i, [type |-> F.disk[i].type, nlink |-> F.disk[i].nlink,
                                       addrs |-> F.disk[i].addrs \cup {k}])
<1> DEFINE G == balloc(F, i)
<1>0. /\ F \in FileSystems /\ F.mem \in [Inums -> MInode] /\ SlotOK(F, i)
      /\ F.used \in SUBSET Blocks
  BY DEF FsOK, FileSystems
<1>b. PICK k : k = CHOOSE b \in free(F) : \A l \in free(F) : b <= l
  OBVIOUS
<1>c. k \in free(F) /\ k \in Blocks
  <2>1. free(F) \subseteq Nat
    BY FsAssumption DEF free
  <2>2. (CHOOSE l \in free(F) : \A m \in free(F) : l <= m) \in free(F)
    BY <2>1, LeastOf
  <2> QED
    BY <2>2, <1>b DEF free
<1>1. PICK m \in MInode : m = F.mem[i]
  BY <1>0
<1>2. PICK m1 \in MInode : m1 = [m EXCEPT !.addrs = @ \cup {k}]
  BY <1>c DEF MInode
<1>3. /\ m1.ref = m.ref /\ m1.valid = m.valid /\ m1.owner = m.owner
      /\ m1.type = m.type /\ m1.nlink = m.nlink /\ m1.addrs = m.addrs \cup {k}
  BY <1>2 DEF MInode
<1>4. PICK E : E = [[F EXCEPT !.used = F.used \cup {k}] EXCEPT !.mem = [F.mem EXCEPT ![i] = m1]]
  OBVIOUS
<1>5. G = iupdate(E, i)
  <2>1. E = [F EXCEPT !.used = @ \cup {k}, !.mem[i].addrs = @ \cup {k}]
    BY <1>0, <1>1, <1>2, <1>4 DEF FileSystems
  <2> QED
    BY <2>1, <1>b, Zenon DEF balloc
<1>6. /\ E \in FileSystems /\ E.mem = [F.mem EXCEPT ![i] = m1] /\ E.disk = F.disk
      /\ E.ent = F.ent /\ E.used = F.used \cup {k}
  BY <1>0, <1>4, <1>c DEF FileSystems
<1> HIDE DEF G
<1>7. /\ FsOK(G) /\ G.ent = F.ent /\ G.used = F.used \cup {k} /\ G.mem = [F.mem EXCEPT ![i] = m1]
      /\ SetDisk(F, G, i, [type |-> m1.type, nlink |-> m1.nlink, addrs |-> m1.addrs])
      /\ SetOwner(F, G, i, m1.owner) /\ SameRefs(F, G)
  <2>1. m1.ref = F.mem[i].ref /\ m1.ref # 0 /\ m1.valid /\ m1.type # "free"
    BY <1>0, <1>1, <1>3 DEF SlotOK
  <2>2. F.used \cup {k} \in SUBSET Blocks
    BY <1>0, <1>c
  <2> QED
    BY <2>1, <2>2, <1>5, <1>6, IupdateOK
<1>8. /\ m1.type = F.disk[i].type /\ m1.nlink = F.disk[i].nlink
      /\ m1.addrs = F.disk[i].addrs \cup {k}
      /\ m1.owner = F.mem[i].owner /\ m1.valid = F.mem[i].valid
  BY <1>0, <1>1, <1>3 DEF SlotOK
<1>9. SameOwners(F, G) /\ \A j \in Inums : G.mem[j].valid = F.mem[j].valid
  BY <1>0, <1>7, <1>8 DEF SetOwner, SameOwners
<1> QED
  BY <1>7, <1>8, <1>9, <1>c DEF G

\* A directory entry is written.
LEMMA SetEntryOK ==
  ASSUME NEW F, FsOK(F), NEW d \in Inums, NEW n \in Entry, NEW i \in Inums \cup {None}
  PROVE  LET G == [F EXCEPT !.ent[d][n] = i]
         IN  /\ FsOK(G) /\ G.disk = F.disk /\ G.used = F.used /\ G.mem = F.mem
             /\ G.ent = [F.ent EXCEPT ![d] = [F.ent[d] EXCEPT ![n] = i]]
<1> DEFINE G == [F EXCEPT !.ent[d][n] = i]
<1>0. F \in FileSystems /\ F.ent[d] \in [Entry -> Inums \cup {None}] /\ \A j \in Inums : SlotOK(F, j)
  BY SlotTypes DEF FsOK
<1>1. PICK e \in [Entry -> Inums \cup {None}] : e = [F.ent[d] EXCEPT ![n] = i]
  BY <1>0
<1>2. G = [F EXCEPT !.ent = [F.ent EXCEPT ![d] = e]]
  BY <1>0, <1>1 DEF FileSystems
<1>3. /\ G \in FileSystems /\ G.disk = F.disk /\ G.used = F.used /\ G.mem = F.mem
      /\ G.ent = [F.ent EXCEPT ![d] = e]
  BY <1>0, <1>2 DEF FileSystems
<1>4. \A j \in Inums : SlotOK(G, j)
  BY <1>0, <1>3 DEF SlotOK
<1> QED
  BY <1>1, <1>3, <1>4 DEF FsOK

\* dirlink() in a directory that has a block.
LEMMA DirlinkOK ==
  ASSUME NEW F, FsOK(F), NEW d \in Inums, NEW n \in Entry, NEW i \in Inums \cup {None},
         F.mem[d].addrs # {}
  PROVE  LET G == dirlink(F, d, n, i)
         IN  /\ FsOK(G) /\ G.disk = F.disk /\ G.used = F.used /\ G.mem = F.mem
             /\ G.ent = [F.ent EXCEPT ![d] = [F.ent[d] EXCEPT ![n] = i]]
BY SetEntryOK DEF dirlink

\* ialloc() writes an inode of its own to the disk.
LEMMA IallocOK ==
  ASSUME NEW F, FsOK(F), NEW i \in Inums, F.disk[i].type = "free", NEW d \in DInode
  PROVE  LET E == [F EXCEPT !.disk[i] = d]
         IN  FsOK(E) /\ E.ent = F.ent /\ E.used = F.used /\ E.mem = F.mem /\ SetDisk(F, E, i, d)
<1> DEFINE E == [F EXCEPT !.disk[i] = d]
<1>0. /\ F \in FileSystems /\ F.disk \in [Inums -> DInode] /\ \A j \in Inums : SlotOK(F, j)
  BY DEF FsOK, FileSystems
<1>2. /\ E \in FileSystems /\ E.ent = F.ent /\ E.used = F.used /\ E.mem = F.mem
      /\ E.disk = [F.disk EXCEPT ![i] = d]
  BY <1>0 DEF FileSystems
<1>3. \A j \in Inums : SlotOK(E, j)
  BY <1>0, <1>2 DEF SlotOK
<1> QED
  BY <1>2, <1>3 DEF FsOK, SetDisk

\* iput(), the part with the lock: the inode is left alone, or freed.
LEMMA FreeIfLastOK ==
  ASSUME NEW F, FsOK(F), NEW i \in Inums, F.mem[i].owner = NoProc
  PROVE  LET G == freeIfLast(F, i)
         IN  /\ FsOK(G) /\ SameOwners(F, G) /\ SameRefs(F, G)
             /\ \/ SameData(F, G)
                \/ /\ F.mem[i].ref = 1 /\ F.disk[i].nlink = 0 /\ F.disk[i].type # "free"
                   /\ SetDisk(F, G, i, [type |-> "free", nlink |-> 0, addrs |-> {}])
                   /\ G.ent = [F.ent EXCEPT ![i] = Empty]
                   /\ G.used = F.used \ F.disk[i].addrs
<1> DEFINE G == freeIfLast(F, i)
<1>0. /\ F \in FileSystems /\ F.mem \in [Inums -> MInode] /\ F.disk \in [Inums -> DInode]
      /\ F.ent \in [Inums -> [Entry -> Inums \cup {None}]]
      /\ \A j \in Inums : SlotOK(F, j)
  BY DEF FsOK, FileSystems
<1>1. PICK m \in MInode : m = F.mem[i]
  BY <1>0
<1>2. CASE ~(m.valid /\ m.nlink = 0 /\ m.ref = 1)
  <2>1. G = F
    BY <1>1, <1>2 DEF freeIfLast
  <2> QED
    BY <2>1 DEF SameOwners, SameRefs, SameData
<1>3. CASE m.valid /\ m.nlink = 0 /\ m.ref = 1
  <2>k. PICK k \in Int : k = m.nlink
    BY DEF MInode
  <2>1. PICK u \in SUBSET Blocks : u = F.used \ m.addrs
    BY <1>0 DEF FileSystems
  <2>2. PICK m1 \in MInode : m1 = [m EXCEPT !.addrs = {}]
    BY DEF MInode
  <2>3. PICK m2 \in MInode : m2 = [m1 EXCEPT !.type = "free"]
    BY DEF MInode
  <2>4. PICK m3 \in MInode : m3 = [m2 EXCEPT !.valid = FALSE]
    BY DEF MInode
  <2>5. PICK e \in [Inums -> [Entry -> Inums \cup {None}]] : e = [F.ent EXCEPT ![i] = Empty]
    BY <1>0 DEF Empty, Entry
  <2>6. PICK M1 \in [Inums -> MInode] : M1 = [F.mem EXCEPT ![i] = m1]
    BY <1>0
  <2>7. PICK M2 \in [Inums -> MInode] : M2 = [F.mem EXCEPT ![i] = m2]
    BY <1>0
  <2>8. PICK M3 \in [Inums -> MInode] : M3 = [F.mem EXCEPT ![i] = m3]
    BY <1>0
  <2>9. PICK d1 \in DInode : d1 = [type |-> m1.type, nlink |-> m1.nlink, addrs |-> m1.addrs]
    BY DEF DInode, MInode
  <2>10. PICK d2 \in DInode : d2 = [type |-> m2.type, nlink |-> m2.nlink, addrs |-> m2.addrs]
    BY DEF DInode, MInode
  <2>11. PICK D1 \in [Inums -> DInode] : D1 = [F.disk EXCEPT ![i] = d1]
    BY <1>0
  <2>12. PICK D2 \in [Inums -> DInode] : D2 = [F.disk EXCEPT ![i] = d2]
    BY <1>0
  <2>20. PICK E1 : E1 = [F EXCEPT !.used = @ \ F.mem[i].addrs, !.mem[i].addrs = {}, !.ent[i] = Empty]
    OBVIOUS
  <2>21. E1 = [[[F EXCEPT !.used = u] EXCEPT !.mem = M1] EXCEPT !.ent = e]
    BY <2>20, <1>0, <1>1, <2>1, <2>2, <2>5, <2>6 DEF FileSystems
  <2>22. /\ E1 \in FileSystems /\ E1.disk = F.disk /\ E1.mem = M1 /\ E1.ent = e /\ E1.used = u
    BY <2>21, <1>0 DEF FileSystems
  <2>23. PICK E2 : E2 = itrunc(F, i)
    OBVIOUS
  <2>24. E2 = iupdate(E1, i)
    BY <2>23, <2>20, Zenon DEF itrunc
  <2>25. E1.mem[i] = m1
    BY <2>22, <2>6, <1>0
  <2>26. E2 = [E1 EXCEPT !.disk = D1]
    BY <2>24, <2>25, <2>22, <2>9, <2>11 DEF iupdate, FileSystems
  <2>27. /\ E2 \in FileSystems /\ E2.disk = D1 /\ E2.mem = M1 /\ E2.ent = e /\ E2.used = u
    BY <2>26, <2>22 DEF FileSystems
  <2>28. PICK E3 : E3 = [E2 EXCEPT !.mem[i].type = "free"]
    OBVIOUS
  <2>29. E3 = [E2 EXCEPT !.mem = M2]
    <3>1. E2.mem = M1 /\ M1[i] = m1
      BY <2>27, <2>6, <1>0
    <3>2. E3 = [E2 EXCEPT !.mem = [M1 EXCEPT ![i] = m2]]
      BY <3>1, <2>28, <2>27, <2>3 DEF FileSystems
    <3>3. [M1 EXCEPT ![i] = m2] = M2
      BY <2>6, <2>7, <1>0
    <3> QED
      BY <3>2, <3>3
  <2>30. /\ E3 \in FileSystems /\ E3.disk = D1 /\ E3.mem = M2 /\ E3.ent = e /\ E3.used = u
    BY <2>29, <2>27 DEF FileSystems
  <2>31. PICK E4 : E4 = iupdate(E3, i)
    OBVIOUS
  <2>32. E4 = [E3 EXCEPT !.disk = D2]
    <3>1. E3.mem[i] = m2
      BY <2>30, <2>7, <1>0
    <3>2. E4 = [E3 EXCEPT !.disk = [D1 EXCEPT ![i] = d2]]
      BY <3>1, <2>31, <2>30, <2>10 DEF iupdate, FileSystems
    <3>3. [D1 EXCEPT ![i] = d2] = D2
      BY <2>11, <2>12, <1>0
    <3> QED
      BY <3>2, <3>3
  <2>33. /\ E4 \in FileSystems /\ E4.disk = D2 /\ E4.mem = M2 /\ E4.ent = e /\ E4.used = u
    BY <2>32, <2>30 DEF FileSystems
  <2>34. G = [E4 EXCEPT !.mem[i].valid = FALSE]
    BY <1>1, <1>3, <2>23, <2>28, <2>31, Zenon DEF freeIfLast
  <2>35. G = [E4 EXCEPT !.mem = M3]
    <3>1. E4.mem = M2 /\ M2[i] = m2
      BY <2>33, <2>7, <1>0
    <3>2. G = [E4 EXCEPT !.mem = [M2 EXCEPT ![i] = m3]]
      BY <3>1, <2>34, <2>33, <2>4 DEF FileSystems
    <3>3. [M2 EXCEPT ![i] = m3] = M3
      BY <2>7, <2>8, <1>0
    <3> QED
      BY <3>2, <3>3
  <2> HIDE DEF G
  <2>36. /\ G \in FileSystems /\ G.disk = D2 /\ G.mem = M3 /\ G.ent = e /\ G.used = u
    BY <2>35, <2>33 DEF FileSystems
  <2>37. /\ m3.ref = m.ref /\ m3.owner = m.owner /\ m3.valid = FALSE /\ m3.nlink = m.nlink
    BY <2>2, <2>3, <2>4 DEF MInode
  <2>38. d2 = [type |-> "free", nlink |-> 0, addrs |-> {}]
    <3>1. m2.type = "free" /\ m2.nlink = m.nlink /\ m2.addrs = {}
      BY <2>2, <2>3 DEF MInode
    <3> QED
      BY <3>1, <2>10, <1>3
  <2>39. ASSUME NEW j \in Inums PROVE SlotOK(G, j)
    <3>1. CASE j # i
      <4>1. G.mem[j] = F.mem[j] /\ G.disk[j] = F.disk[j]
        BY <3>1, <2>36, <2>8, <2>12, <1>0
      <4> QED
        BY <4>1, <1>0 DEF SlotOK
    <3>2. CASE j = i
      <4>1. G.mem[j] = m3
        BY <3>2, <2>36, <2>8, <1>0
      <4>2. m3.ref = 1 /\ m3.owner = NoProc /\ ~m3.valid /\ m3.nlink = 0
        BY <2>37, <1>1, <1>3
      <4> QED
        BY <4>1, <4>2 DEF SlotOK
    <3> QED
      BY <3>1, <3>2
  <2>40. SameOwners(F, G) /\ SameRefs(F, G)
    BY <2>36, <2>37, <2>8, <1>0, <1>1 DEF SameOwners, SameRefs
  <2>41. F.disk[i].nlink = 0 /\ F.disk[i].type # "free" /\ F.disk[i].addrs = m.addrs
    BY <1>0, <1>1, <1>3 DEF SlotOK
  <2> QED
    BY <1>1, <1>3, <2>1, <2>5, <2>12, <2>36, <2>38, <2>39, <2>40, <2>41 DEF FsOK, SetDisk, G
<1> QED
  BY <1>2, <1>3

\* The second half of iput().
LEMMA DropOK ==
  ASSUME NEW F, FsOK(F), NEW i \in Inums, F.mem[i].ref # 0,
         F.mem[i].ref = 1 => F.mem[i].owner = NoProc
  PROVE  LET G == drop(F, i)
         IN  FsOK(G) /\ SameData(F, G) /\ SameOwners(F, G) /\ AddRefs(F, G, i, -1)
<1> DEFINE G == drop(F, i)
<1>0. F \in FileSystems /\ F.mem \in [Inums -> MInode] /\ \A j \in Inums : SlotOK(F, j)
  BY DEF FsOK, FileSystems
<1>1. PICK m \in MInode : m = F.mem[i]
  BY <1>0
<1>k. PICK k \in Nat : k = m.ref
  BY DEF MInode
<1>l. PICK l \in Nat : l = k - 1
  BY <1>1, <1>k
<1>2. PICK n \in MInode : n = IF l = 0 THEN Recycled ELSE [m EXCEPT !.ref = l]
  <2>z. PICK z \in Nat : z = 0
    OBVIOUS
  <2>1. Recycled = [ref |-> z, valid |-> FALSE, owner |-> NoProc, type |-> "free", nlink |-> z, addrs |-> {}]
    BY <2>z DEF Recycled
  <2>2. Recycled \in MInode
    <3>1. z \in Nat /\ z \in Int
      OBVIOUS
    <3>2. FALSE \in BOOLEAN /\ NoProc \in Procs \cup {NoProc} /\ "free" \in {"free", "file", "dir"}
          /\ {} \in SUBSET Blocks
      OBVIOUS
    <3> QED
      BY <2>1, <3>1, <3>2, Zenon DEF MInode
  <2>3. [m EXCEPT !.ref = l] \in MInode
    BY DEF MInode
  <2> QED
    BY <2>2, <2>3
<1>3. G = [F EXCEPT !.mem = [F.mem EXCEPT ![i] = n]]
  <2>1. n = IF lessOne(m.ref) = 0 THEN Recycled ELSE [m EXCEPT !.ref = lessOne(m.ref)]
    BY <1>2, <1>k, <1>l DEF lessOne
  <2>2. G = [F EXCEPT !.mem[i] = n]
    <3>1. n = IF lessOne(F.mem[i].ref) = 0 THEN Recycled ELSE [F.mem[i] EXCEPT !.ref = lessOne(F.mem[i].ref)]
      BY <2>1, <1>1
    <3> QED
      BY <3>1 DEF drop
  <2> HIDE DEF G
  <2> QED
    BY <2>2, <1>0 DEF FileSystems
<1> HIDE DEF G
<1>4. G \in FileSystems /\ SameData(F, G) /\ G.mem = [F.mem EXCEPT ![i] = n]
  BY <1>0, <1>3 DEF FileSystems, SameData
<1>5. /\ n.ref = m.ref - 1 /\ n.owner = m.owner /\ (n.ref = 0 => n = Recycled)
      /\ n.valid => /\ m.valid /\ n.type = m.type /\ n.nlink = m.nlink /\ n.addrs = m.addrs
      /\ n.owner # NoProc => n.valid
      /\ ~n.valid => n.nlink = 0
  <2>s. SlotOK(F, i)
    BY <1>0
  <2>1. CASE l = 0
    <3>1. m.owner = NoProc /\ n = Recycled
      BY <2>1, <1>1, <1>2, <1>k, <1>l
    <3>2. n.ref = 0 /\ n.valid = FALSE /\ n.owner = NoProc /\ n.nlink = 0
      BY <3>1 DEF Recycled
    <3>3. m.ref - 1 = 0
      BY <2>1, <1>k, <1>l
    <3> QED
      BY <3>1, <3>2, <3>3
  <2>2. CASE l # 0
    <3>1. /\ n.ref = l /\ n.owner = m.owner /\ n.valid = m.valid /\ n.type = m.type
          /\ n.nlink = m.nlink /\ n.addrs = m.addrs
      BY <2>2, <1>2 DEF MInode
    <3>2. l = m.ref - 1
      BY <1>k, <1>l
    <3>3. (m.owner # NoProc => m.valid) /\ (~m.valid => m.nlink = 0)
      BY <2>s, <1>1 DEF SlotOK
    <3> QED
      BY <2>2, <3>1, <3>2, <3>3
  <2> QED
    BY <2>1, <2>2
<1>6. ASSUME NEW j \in Inums PROVE SlotOK(G, j)
  <2>1. CASE j # i
    <3>1. G.mem[j] = F.mem[j] /\ G.disk[j] = F.disk[j]
      BY <2>1, <1>0, <1>4 DEF SameData
    <3> QED
      BY <3>1, <1>0 DEF SlotOK
  <2>2. CASE j = i
    <3>1. G.mem[j] = n /\ G.disk[j] = F.disk[i]
      BY <2>2, <1>0, <1>4 DEF SameData
    <3>2. m.valid => /\ m.type = F.disk[i].type /\ m.nlink = F.disk[i].nlink
                     /\ m.addrs = F.disk[i].addrs /\ F.disk[i].type # "free"
      BY <1>0, <1>1 DEF SlotOK
    <3> QED
      BY <3>1, <3>2, <1>5 DEF SlotOK
  <2> QED
    BY <2>1, <2>2
<1>7. SameOwners(F, G)
  BY <1>0, <1>1, <1>4, <1>5 DEF SameOwners
<1>8. AddRefs(F, G, i, -1)
  <2>1. n.ref = m.ref + (-1)
    BY <1>5, <1>k
  <2> QED
    BY <1>0, <1>1, <1>4, <2>1 DEF AddRefs
<1> QED
  BY <1>4, <1>6, <1>7, <1>8 DEF FsOK, G

-----------------------------------------------------------------------------
\* The processes.

\* The local variables of a call, and what can be said of them from the program counter alone.
Local == [pc : Labels, op : {"none", "link", "unlink", "create", "mkdir", "open", "chdir"},
          path : Seq(Entry), new : Seq(Entry), at : Inums \cup {None}, ip : Inums \cup {None},
          dp : Inums \cup {None}, put : Inums \cup {None}, ret : Labels]

\* Where a call goes on after iput().
Stage(L) == IF L.pc \in {"iput", "drop"} THEN L.ret ELSE L.pc

\* The stages at which each local variable has a value, and those of each call.
HasDp == {"linkNew", "linkExists", "unlink", "unlinkEntry", "unlinkBad", "create", "mkdir",
          "createNew"}
HasIp == {"link", "linkNew", "linkExists", "linkDone", "linkBad", "unlinkEntry", "unlinkLast",
          "createNew", "createThere", "open", "opened", "chdir", "chdirDone"}
HasPath == {"walk", "linkNew", "unlink", "unlinkEntry", "create", "mkdir", "createNew"}
OfLink == {"link", "linkNew", "linkExists", "linkDone", "linkBad"}
OfCreate == {"createNew", "createThere"}

Shape(L) ==
    LET s == Stage(L)
    IN  /\ L \in Local
        /\ L.pc \in {"iput", "drop"} <=> L.put # None
        /\ s \notin {"iput", "drop"}
        /\ s = "walk" <=> L.at # None
        /\ s \in HasDp <=> L.dp # None
        /\ s \in HasIp => L.ip # None
        /\ L.ip # None => s \in HasIp \/ (s = "walk" /\ L.op = "link")
        /\ s \in HasPath => L.path # <<>>
        /\ s \in {"unlinkEntry", "createNew"} => Head(L.path) \in Names
        /\ s \in OfLink => L.op = "link"
        /\ s \in OfCreate => L.op \in {"create", "mkdir"}
        /\ s \in {"create", "mkdir"} => L.op = s
        /\ s = "walk" => L.op # "none"
        /\ L.op = "link" => L.new # <<>>
        /\ L.pc = "user" => L = Idle
        /\ s \in {"open", "opened"} => L.op # "link"
        /\ L.ret = "chdirDone" => s = "chdirDone"

Shapes == /\ DOMAIN loc = Procs /\ \A p \in Procs : Shape(loc[p])
          /\ loc \in [Procs -> Local]
          /\ cwd \in [Procs -> Inums] /\ file \in [Procs -> Inums \cup {None}]

\* iput() of a local variable.
PutAt(L, r) == [L EXCEPT !.pc = "iput", !.put = L.at, !.ret = r, !.at = None]
PutIp(L, r) == [L EXCEPT !.pc = "iput", !.put = L.ip, !.ret = r, !.ip = None]
PutDp(L, r) == [L EXCEPT !.pc = "iput", !.put = L.dp, !.ret = r, !.dp = None]
Becomes(p, M) == loc' = [loc EXCEPT ![p] = M]

\* What Put() does, for each of the three variables it may take the inode from.
LEMMA PutIs ==
  ASSUME loc \in [Procs -> Local], NEW p \in Procs, NEW F, NEW r
  PROVE  /\ Put(p, F, "at", r) => fs' = F /\ Becomes(p, PutAt(loc[p], r)) /\ UNCHANGED <<cwd, file>>
         /\ Put(p, F, "ip", r) => fs' = F /\ Becomes(p, PutIp(loc[p], r)) /\ UNCHANGED <<cwd, file>>
         /\ Put(p, F, "dp", r) => fs' = F /\ Becomes(p, PutDp(loc[p], r)) /\ UNCHANGED <<cwd, file>>
BY DEF Put, Becomes, PutAt, PutIp, PutDp, Local

-----------------------------------------------------------------------------
\* Counting the pointers to an inode.

\* The pointers of a process to inode i, counted.
Ind(b) == IF b THEN 1 ELSE 0
Count(P, i) == Ind(P[1] = i) + Ind(P[2] = i) + Ind(P[3] = i) + Ind(P[4] = i) + Ind(P[5] = i)
                 + Ind(P[6] = i)
Own(P, k, i) == {n \in 1 .. k : P[n] = i}
RefSet(Q, i) == {r \in Procs \X (1 .. 6) : Q[r[1]][r[2]] = i}
AllPointers == [q \in Procs |-> Pointers(q)]

\* One more pointer of a process.
LEMMA OwnStep ==
  ASSUME NEW P, NEW i, NEW k \in Nat, IsFiniteSet(Own(P, k, i)), Cardinality(Own(P, k, i)) \in Nat
  PROVE  /\ IsFiniteSet(Own(P, k + 1, i)) /\ Cardinality(Own(P, k + 1, i)) \in Nat
         /\ Cardinality(Own(P, k + 1, i)) = Cardinality(Own(P, k, i)) + Ind(P[k + 1] = i)
<1>1. CASE P[k + 1] = i
  <2>1. Own(P, k + 1, i) = Own(P, k, i) \cup {k + 1}
    BY <1>1 DEF Own
  <2>2. k + 1 \notin Own(P, k, i)
    BY DEF Own
  <2>3. /\ IsFiniteSet(Own(P, k, i) \cup {k + 1})
        /\ Cardinality(Own(P, k, i) \cup {k + 1}) = Cardinality(Own(P, k, i)) + 1
    BY <2>2, FS_AddElement
  <2>4. Ind(P[k + 1] = i) = 1
    BY <1>1 DEF Ind
  <2> QED
    BY <2>1, <2>3, <2>4
<1>2. CASE P[k + 1] # i
  <2>1. Own(P, k + 1, i) = Own(P, k, i)
    BY <1>2 DEF Own
  <2>2. Ind(P[k + 1] = i) = 0
    BY <1>2 DEF Ind
  <2> QED
    BY <2>1, <2>2
<1> QED
  BY <1>1, <1>2

\* The pointers of a process to an inode, counted one by one.
LEMMA OwnCount ==
  ASSUME NEW P, NEW i
  PROVE  /\ IsFiniteSet(Own(P, 6, i)) /\ Cardinality(Own(P, 6, i)) = Count(P, i)
         /\ Count(P, i) \in Nat
<1>0. IsFiniteSet(Own(P, 0, i)) /\ Cardinality(Own(P, 0, i)) = 0
  <2>1. Own(P, 0, i) = {}
    BY DEF Own
  <2> QED
    BY <2>1, FS_EmptySet
<1>1. IsFiniteSet(Own(P, 1, i)) /\ Cardinality(Own(P, 1, i)) = Ind(P[1] = i)
      /\ Cardinality(Own(P, 1, i)) \in Nat
  <2>1. 0 \in Nat /\ 0 + 1 = 1
    OBVIOUS
  <2> QED
    BY <1>0, <2>1, OwnStep DEF Ind
<1>2. IsFiniteSet(Own(P, 2, i)) /\ Cardinality(Own(P, 2, i)) = Ind(P[1] = i) + Ind(P[2] = i)
      /\ Cardinality(Own(P, 2, i)) \in Nat
  <2>1. 1 \in Nat /\ 1 + 1 = 2
    OBVIOUS
  <2> QED
    BY <1>1, <2>1, OwnStep
<1>3. IsFiniteSet(Own(P, 3, i)) /\ Cardinality(Own(P, 3, i)) = Ind(P[1] = i) + Ind(P[2] = i) + Ind(P[3] = i)
      /\ Cardinality(Own(P, 3, i)) \in Nat
  <2>1. 2 \in Nat /\ 2 + 1 = 3
    OBVIOUS
  <2> QED
    BY <1>2, <2>1, OwnStep
<1>4. IsFiniteSet(Own(P, 4, i)) /\ Cardinality(Own(P, 4, i)) = Ind(P[1] = i) + Ind(P[2] = i) + Ind(P[3] = i) + Ind(P[4] = i)
      /\ Cardinality(Own(P, 4, i)) \in Nat
  <2>1. 3 \in Nat /\ 3 + 1 = 4
    OBVIOUS
  <2> QED
    BY <1>3, <2>1, OwnStep
<1>5. IsFiniteSet(Own(P, 5, i)) /\ Cardinality(Own(P, 5, i)) = Ind(P[1] = i) + Ind(P[2] = i) + Ind(P[3] = i) + Ind(P[4] = i) + Ind(P[5] = i)
      /\ Cardinality(Own(P, 5, i)) \in Nat
  <2>1. 4 \in Nat /\ 4 + 1 = 5
    OBVIOUS
  <2> QED
    BY <1>4, <2>1, OwnStep
<1>6. IsFiniteSet(Own(P, 6, i)) /\ Cardinality(Own(P, 6, i)) = Ind(P[1] = i) + Ind(P[2] = i) + Ind(P[3] = i) + Ind(P[4] = i) + Ind(P[5] = i) + Ind(P[6] = i)
      /\ Cardinality(Own(P, 6, i)) \in Nat
  <2>1. 5 \in Nat /\ 5 + 1 = 6
    OBVIOUS
  <2> QED
    BY <1>5, <2>1, OwnStep
<1> QED
  BY <1>6 DEF Count

\* The pointers are those of one process and those of the others.
LEMMA RefSplit ==
  ASSUME NEW Q, NEW p \in Procs, NEW i
  PROVE  LET Others == {r \in RefSet(Q, i) : r[1] # p}
         IN  /\ IsFiniteSet(RefSet(Q, i)) /\ IsFiniteSet(Others) /\ Cardinality(Others) \in Nat
             /\ Cardinality(RefSet(Q, i)) = Cardinality(Others) + Count(Q[p], i)
<1> DEFINE R == RefSet(Q, i)
           Others == {r \in R : r[1] # p}
           Mine == {p} \X Own(Q[p], 6, i)
<1>1. IsFiniteSet(R)
  <2>1. IsFiniteSet(Procs \X (1 .. 6))
    <3>1. IsFiniteSet(1 .. 6)
      <4>1. 1 \in Int /\ 6 \in Int
        OBVIOUS
      <4> QED
        BY <4>1, FS_Interval
    <3> QED
      BY <3>1, FsAssumption, FS_Product
  <2> QED
    BY <2>1, FS_Subset DEF RefSet
<1>2. IsFiniteSet(Others)
  BY <1>1, FS_Subset
<1>3. R = Others \cup Mine /\ Others \cap Mine = {}
  BY DEF RefSet, Own
<1>4. IsFiniteSet(Mine) /\ Cardinality(Mine) = Count(Q[p], i)
  <2>1. IsFiniteSet(Own(Q[p], 6, i)) /\ Cardinality(Own(Q[p], 6, i)) = Count(Q[p], i)
        /\ Count(Q[p], i) \in Nat
    BY OwnCount
  <2>2. IsFiniteSet({p}) /\ Cardinality({p}) = 1
    BY FS_Singleton
  <2>3. IsFiniteSet(Mine) /\ Cardinality(Mine) = Cardinality({p}) * Cardinality(Own(Q[p], 6, i))
    BY <2>1, <2>2, FS_Product
  <2> QED
    BY <2>1, <2>2, <2>3
<1>5. Cardinality(R) = Cardinality(Others) + Cardinality(Mine) - Cardinality({})
  <2> HIDE DEF R, Others, Mine
  <2>1. Cardinality(Others \cup Mine) = Cardinality(Others) + Cardinality(Mine) - Cardinality(Others \cap Mine)
    BY <1>2, <1>4, FS_Union
  <2> QED
    BY <2>1, <1>3
<1>6. Cardinality({}) = 0 /\ Cardinality(Others) \in Nat
  BY <1>2, FS_EmptySet, FS_CardinalityType
<1>7. Count(Q[p], i) \in Nat
  BY OwnCount
<1> HIDE DEF R, Others, Mine
<1>8. Cardinality(R) = Cardinality(Others) + Count(Q[p], i)
  BY <1>4, <1>5, <1>6, <1>7
<1> QED
  BY <1>1, <1>2, <1>6, <1>8 DEF R, Others

\* When only the pointers of p change.
Differ(Q, S, p) == \A q \in Procs : q # p => Q[q] = S[q]

\* When one process changes its pointers, all references to an inode change by as many.
LEMMA RefsMove ==
  ASSUME NEW Q, NEW S, NEW p \in Procs, NEW i, Differ(Q, S, p),
         NEW m \in Nat, m = Cardinality(RefSet(Q, i)), NEW n \in Nat,
         m + Count(S[p], i) = n + Count(Q[p], i)
  PROVE  n = Cardinality(RefSet(S, i))
<1> DEFINE A == {r \in RefSet(Q, i) : r[1] # p}
           B == {r \in RefSet(S, i) : r[1] # p}
<1>1. A = B
  BY DEF RefSet, Differ
<1>2. Cardinality(A) \in Nat /\ Cardinality(RefSet(Q, i)) = Cardinality(A) + Count(Q[p], i)
  BY RefSplit
<1>3. Cardinality(RefSet(S, i)) = Cardinality(B) + Count(S[p], i)
  BY RefSplit
<1>4. Count(Q[p], i) \in Nat /\ Count(S[p], i) \in Nat
  BY OwnCount
<1> HIDE DEF A, B
<1> QED
  BY <1>1, <1>2, <1>3, <1>4

\* RefsExact, in terms of the pointers of all processes.
LEMMA RefsAre ==
  RefsExact <=> \A i \in Inums : fs.mem[i].ref = Cardinality(RefSet(AllPointers, i))
<1>1. ASSUME NEW i \in Inums
      PROVE  {r \in Procs \X (1 .. 6) : Pointers(r[1])[r[2]] = i} = RefSet(AllPointers, i)
  BY DEF RefSet, AllPointers
<1> QED
  BY <1>1, Zenon DEF RefsExact

\* A step of p, seen by its pointers only.
OthersKeep(p) == \A q \in Procs : q # p => Pointers(q)' = Pointers(q)
RefsFollow(p) == \A i \in Inums :
    fs.mem[i].ref + Count(Pointers(p)', i) = fs.mem[i].ref' + Count(Pointers(p), i)

\* ref stays exact if it changes as the pointers of the process that steps do.
LEMMA RefsStep ==
  ASSUME RefsExact, NEW p \in Procs, OthersKeep(p), RefsFollow(p),
         fs \in FileSystems, fs' \in FileSystems
  PROVE  RefsExact'
<1>1. \A i \in Inums : fs.mem[i].ref = Cardinality(RefSet(AllPointers, i))
  BY RefsAre
<1>2. SUFFICES ASSUME NEW i \in Inums PROVE fs.mem[i].ref' = Cardinality(RefSet(AllPointers', i))
  <2>1. (RefsExact <=> \A i \in Inums : fs.mem[i].ref = Cardinality(RefSet(AllPointers, i)))'
    BY RefsAre, PTL
  <2> QED
    BY <2>1
<1>3. PICK Q : Q = AllPointers
  OBVIOUS
<1>4. PICK S : S = AllPointers'
  OBVIOUS
<1>5. Q[p] = Pointers(p) /\ S[p] = Pointers(p)' /\ Differ(Q, S, p)
  BY <1>3, <1>4 DEF AllPointers, OthersKeep, Differ
<1>6. PICK m \in Nat : m = fs.mem[i].ref
  BY SlotTypes DEF MInode
<1>7. PICK n \in Nat : n = fs.mem[i].ref'
  <2>1. fs'.mem[i] \in MInode
    BY SlotTypes
  <2> QED
    BY <2>1 DEF MInode
<1>8. m + Count(S[p], i) = n + Count(Q[p], i)
  BY <1>5, <1>6, <1>7 DEF RefsFollow
<1>9. m = Cardinality(RefSet(Q, i))
  BY <1>1, <1>3, <1>6
<1>10. n = Cardinality(RefSet(S, i))
  BY <1>5, <1>8, <1>9, RefsMove
<1> QED
  BY <1>4, <1>7, <1>10

\* Every pointer is counted, and two pointers twice.
LEMMA RefPositive ==
  ASSUME RefsExact, NEW p \in Procs, NEW n \in 1 .. 6, NEW i \in Inums, Pointers(p)[n] = i
  PROVE  fs.mem[i].ref # 0
<1>1. fs.mem[i].ref = Cardinality(RefSet(AllPointers, i))
  BY RefsAre
<1>2. <<p, n>> \in RefSet(AllPointers, i)
  BY DEF RefSet, AllPointers
<1>3. IsFiniteSet(RefSet(AllPointers, i))
  BY RefSplit
<1> QED
  BY <1>1, <1>2, <1>3, FS_EmptySet

\* The only reference to an inode is the only pointer to it: what iput() relies on.
LEMMA RefOnly ==
  ASSUME RefsExact, NEW p \in Procs, NEW n \in 1 .. 6, NEW i \in Inums, Pointers(p)[n] = i,
         fs.mem[i].ref = 1, NEW q \in Procs, NEW k \in 1 .. 6, Pointers(q)[k] = i
  PROVE  q = p /\ k = n
<1>1. Cardinality(RefSet(AllPointers, i)) = 1
  BY RefsAre
<1>2. <<p, n>> \in RefSet(AllPointers, i) /\ <<q, k>> \in RefSet(AllPointers, i)
  BY DEF RefSet, AllPointers
<1>3. IsFiniteSet(RefSet(AllPointers, i))
  BY RefSplit
<1>4. PICK x : RefSet(AllPointers, i) = {x}
  BY <1>1, <1>3, FS_Singleton
<1>5. <<p, n>> = <<q, k>>
  BY <1>2, <1>4
<1> QED
  BY <1>5

-----------------------------------------------------------------------------
\* The invariant.

\* Who has an inode locked.
LocksDp == {"linkExists", "unlinkEntry", "unlinkBad", "createNew"}
LocksIp == {"unlinkLast", "opened"}
Holds(L, i) == \/ Stage(L) \in LocksDp /\ L.dp = i
               \/ Stage(L) \in LocksIp /\ L.ip = i

\* Who has which inode locked is written in the program counters.
Locked == \A p \in Procs, i \in Inums : fs.mem[i].owner = p <=> Holds(loc[p], i)

\* An inode with a type; a directory is made once it has a block for its entries.
Made(F, i) == /\ F.disk[i].type # "free"
              /\ F.disk[i].type = "dir" => F.disk[i].addrs # {}
MadeDir(F, i) == Made(F, i) /\ F.disk[i].type = "dir"

\* What a process points to is made, except what ialloc() has just given it, which nobody
\* else points to and no directory names.
Fresh(i) == \E q \in Procs : Stage(loc[q]) = "createNew" /\ loc[q].ip = i
PointersMade == \A p \in Procs, n \in 1 .. 6 :
    Pointers(p)[n] # None /\ ~(n = 6 /\ loc[p].pc = "drop")
                          /\ ~(n = 4 /\ Stage(loc[p]) = "createNew")
      => Made(fs, Pointers(p)[n]) /\ ~Fresh(Pointers(p)[n])
TypeFor(op) == IF op = "mkdir" THEN "dir" ELSE "file"
FreshOK == \A p \in Procs : Stage(loc[p]) = "createNew" =>
    /\ fs.disk[loc[p].ip] = [type |-> TypeFor(loc[p].op), nlink |-> 0, addrs |-> {}]
    /\ fs.ent[loc[p].ip] = Empty
    /\ \A q \in Procs : Stage(loc[q]) = "createNew" /\ loc[q].ip = loc[p].ip => q = p

\* What a process has found out about its inodes.
ParentsAreDirs == \A p \in Procs : loc[p].dp # None => fs.disk[loc[p].dp].type = "dir"
Linking(L) == L.ip # None /\ Stage(L) \in {"walk", "linkNew", "linkExists", "linkBad"}
LinkedAreFiles == \A p \in Procs : Linking(loc[p]) => fs.disk[loc[p].ip].type = "file"
EntryThere == \A p \in Procs :
    Stage(loc[p]) = "unlinkEntry" => fs.ent[loc[p].dp][Head(loc[p].path)] = loc[p].ip

\* The directories: what they name is made, a directory only by the one that is its
\* parent, and no two name each other.
Tree(F) == \A i \in Inums :
    /\ IF MadeDir(F, i) THEN F.ent[i]["."] = i /\ F.ent[i][".."] # None
                        ELSE F.ent[i] = Empty
    /\ \A n \in Names : F.ent[i][n] # None =>
         /\ Made(F, F.ent[i][n])
         /\ F.disk[F.ent[i][n]].type = "dir" => F.ent[F.ent[i][n]][".."] = i
         /\ \A m \in Names : F.ent[F.ent[i][n]][m] # i
Root(F) == MadeDir(F, ROOTINO) /\ F.ent[ROOTINO][".."] = ROOTINO

\* The bitmap, and who has which block.
Blocked(F) ==
    /\ F.used = UNION {F.disk[i].addrs : i \in Inums}
    /\ \A i, j \in Inums : i # j => F.disk[i].addrs \cap F.disk[j].addrs = {}
    /\ \A i \in Inums : F.disk[i].type = "free" => F.disk[i].addrs = {}

\* The links of an inode: its names, the .. of the directories in it, and those that a
\* call has counted already, or has still to take off.
Kids(F, i) == {n \in Names : F.ent[i][n] # None /\ F.disk[F.ent[i][n]].type = "dir"}
Named(F, i) == {e \in Inums \X Names : F.ent[e[1]][e[2]] = i}

\* The link that a call has counted without an entry, or whose entry is gone.
Counted(L) == Linking(L) \/ Stage(L) = "unlinkLast"
Counts(i) == {p \in Procs : Counted(loc[p]) /\ loc[p].ip = i}

\* The link count covers the names, the .. of the subdirectories and what calls have in hand.
Links == \A i \in Inums :
    fs.disk[i].nlink >= Cardinality(Named(fs, i)) + Cardinality(Kids(fs, i))
                          + Cardinality(Counts(i)) + Ind(i = ROOTINO)

\* The disk may be full; nothing else goes wrong.
Panics == panic \in {"no", "ialloc: no inodes", "balloc: out of blocks"}

\* The inductive invariant.
Inv == /\ Shapes /\ FsOK(fs) /\ RefsExact /\ Locked
       /\ PointersMade /\ FreshOK /\ ParentsAreDirs /\ LinkedAreFiles /\ EntryThere
       /\ Tree(fs) /\ Root(fs) /\ Blocked(fs) /\ Links /\ Panics

-----------------------------------------------------------------------------
\* What the steps do to the local variables, the references, the locks and the data.

\* References, locks and data, before and after.
Locks(p, i) == fs.mem[i].owner = NoProc /\ SetOwner(fs, fs', i, p)
Quiet == SameData(fs, fs') /\ SameRefs(fs, fs') /\ SameOwners(fs, fs')
Rest == UNCHANGED <<cwd, file, panic>>
Gets(i) == i \in Inums /\ Made(fs, i) /\ ~Fresh(i) /\ AddRefs(fs, fs', i, 1)

\* The outcomes of the actions, one after the other: what each leaves of the locals and the
\* disk.
Begins(p, c) ==
    LET i == IF c.relative THEN cwd[p] ELSE ROOTINO
    IN  /\ loc[p].pc = "user" /\ Gets(i) /\ SameOwners(fs, fs') /\ SameData(fs, fs') /\ Rest
        /\ Becomes(p, [Idle EXCEPT
                     !.pc = IF c.path = <<>> THEN c.op ELSE "walk", !.op = c.op,
                     !.path = c.path, !.new = c.new,
                     !.at = IF c.path = <<>> THEN None ELSE i,
                     !.ip = IF c.path = <<>> THEN i ELSE None])
Stops(p) == /\ loc[p].pc = "walk" /\ nameiparent(loc[p]) /\ fs.disk[loc[p].at].type = "dir"
            /\ Quiet /\ Rest
            /\ Becomes(p, [loc[p] EXCEPT !.pc = IF loc[p].op = "link" THEN "linkNew" ELSE loc[p].op,
                                         !.dp = loc[p].at, !.at = None])
Turns(p, next) ==
    /\ loc[p].pc = "walk" /\ Gets(next) /\ SameData(fs, fs') /\ SameOwners(fs, fs') /\ Rest
    /\ \/ Becomes(p, [loc[p] EXCEPT !.pc = "iput", !.put = loc[p].at, !.ret = "walk",
                                    !.path = Tail(loc[p].path), !.at = next])
          /\ Tail(loc[p].path) # <<>>
       \/ Becomes(p, [loc[p] EXCEPT !.pc = "iput", !.put = loc[p].at, !.ret = loc[p].op,
                                    !.path = Tail(loc[p].path), !.at = None, !.ip = next])
          /\ ~nameiparent(loc[p])
Fails(p) == /\ loc[p].pc = "walk" /\ Quiet /\ Rest
            /\ Becomes(p, PutAt(loc[p], IF Linking(loc[p]) THEN "linkBad" ELSE "user"))
Frees(p) ==
    /\ loc[p].pc = "iput" /\ SameRefs(fs, fs') /\ SameOwners(fs, fs') /\ Rest
    /\ Becomes(p, [loc[p] EXCEPT !.pc = "drop"])
    /\ \/ SameData(fs, fs')
       \/ LET i == loc[p].put
          IN  /\ fs.mem[i].ref = 1 /\ fs.disk[i].nlink = 0
              /\ SetDisk(fs, fs', i, [type |-> "free", nlink |-> 0, addrs |-> {}])
              /\ fs'.ent = [fs.ent EXCEPT ![i] = Empty]
              /\ fs'.used = fs.used \ fs.disk[i].addrs
Drops(p) ==
    /\ loc[p].pc = "drop" /\ AddRefs(fs, fs', loc[p].put, -1)
    /\ SameOwners(fs, fs') /\ SameData(fs, fs') /\ Rest
    /\ Becomes(p, IF loc[p].ret = "user" THEN Idle
                  ELSE [loc[p] EXCEPT !.pc = loc[p].ret, !.put = None])
\* iput() of ip or dp, and nothing else.
PutsIp(p) == /\ loc[p].pc \in {"link", "linkDone", "createThere", "open", "chdir"}
             /\ Quiet /\ Rest /\ Becomes(p, PutIp(loc[p], "user"))
PutsBad(p) == /\ loc[p].pc = "unlinkEntry" /\ Quiet /\ Rest
              /\ Becomes(p, PutIp(loc[p], "unlinkBad"))
PutsDp(p) == /\ loc[p].pc = "unlink" /\ Quiet /\ Rest
             /\ Becomes(p, PutDp(loc[p], "user"))
\* The same with dp locked, which is unlocked before.
Unlocks(p) ==
    /\ SetOwner(fs, fs', loc[p].dp, NoProc) /\ SameRefs(fs, fs') /\ SameData(fs, fs') /\ Rest
    /\ \/ loc[p].pc = "linkExists" /\ Becomes(p, PutDp(loc[p], "linkBad"))
       \/ loc[p].pc = "unlinkBad" /\ Becomes(p, PutDp(loc[p], "user"))
UnlocksIp(p) == /\ loc[p].pc = "opened" /\ SetOwner(fs, fs', loc[p].ip, NoProc)
                /\ SameRefs(fs, fs') /\ SameData(fs, fs') /\ Rest
                /\ Becomes(p, PutIp(loc[p], "user"))
Relink(i, n) == /\ SetDisk(fs, fs', i, [type |-> fs.disk[i].type, addrs |-> fs.disk[i].addrs,
                                        nlink |-> fs.disk[i].nlink + n])
                /\ fs'.ent = fs.ent /\ fs'.used = fs.used
CountsLink(p) ==
    /\ loc[p].pc = "link" /\ Gets(ROOTINO) /\ SameOwners(fs, fs') /\ Rest
    /\ fs.disk[loc[p].ip].type # "dir" /\ Relink(loc[p].ip, 1)
    /\ Becomes(p, [loc[p] EXCEPT !.pc = "walk", !.path = loc[p].new, !.at = ROOTINO])
FindsOld(p) ==
    LET there == fs.ent[loc[p].dp][Head(loc[p].path)]
    IN  /\ loc[p].pc = "linkNew" /\ Gets(there) /\ Locks(p, loc[p].dp)
        /\ SameData(fs, fs') /\ Rest
        /\ Becomes(p, [loc[p] EXCEPT !.pc = "iput", !.put = there, !.ret = "linkExists"])
Enters(d, n, i) == fs'.ent = [fs.ent EXCEPT ![d] = [fs.ent[d] EXCEPT ![n] = i]]
AddsEntry(p) ==
    /\ loc[p].pc = "linkNew" /\ SameRefs(fs, fs') /\ SameOwners(fs, fs') /\ Rest
    /\ fs.mem[loc[p].dp].owner = NoProc /\ Head(loc[p].path) \in Names
    /\ fs.ent[loc[p].dp][Head(loc[p].path)] = None
    /\ Enters(loc[p].dp, Head(loc[p].path), loc[p].ip)
    /\ fs'.disk = fs.disk /\ fs'.used = fs.used
    /\ Becomes(p, PutDp(loc[p], "linkDone"))
Uncounts(p) ==
    /\ Rest /\ SameRefs(fs, fs') /\ Relink(loc[p].ip, -1)
    /\ Becomes(p, PutIp(loc[p], "user"))
    /\ \/ loc[p].pc = "linkBad" /\ SameOwners(fs, fs')
       \/ loc[p].pc = "unlinkLast" /\ SetOwner(fs, fs', loc[p].ip, NoProc)
FindsEntry(p) ==
    LET i == fs.ent[loc[p].dp][Head(loc[p].path)]
    IN  /\ loc[p].pc = "unlink" /\ Gets(i) /\ Locks(p, loc[p].dp)
        /\ SameData(fs, fs') /\ Rest /\ Head(loc[p].path) \in Names
        /\ Becomes(p, [loc[p] EXCEPT !.pc = "unlinkEntry", !.ip = i])
PassesLock(p) ==
    /\ fs.mem[loc[p].ip].owner = NoProc
    /\ \A j \in Inums :
         fs'.mem[j].owner = IF j = loc[p].dp THEN NoProc ELSE IF j = loc[p].ip THEN p ELSE fs.mem[j].owner
RemovesEntry(p) ==
    LET d == loc[p].dp
        i == loc[p].ip
        dir == fs.disk[i].type = "dir"
    IN  /\ loc[p].pc = "unlinkEntry" /\ SameRefs(fs, fs') /\ Rest
        /\ PassesLock(p)
        /\ Enters(d, Head(loc[p].path), None)
        /\ dir => \A n \in Names : fs.ent[i][n] = None
        /\ fs'.disk = IF dir THEN [fs.disk EXCEPT ![d] = [type |-> "dir", addrs |-> fs.disk[d].addrs,
                                                          nlink |-> fs.disk[d].nlink + (-1)]]
                             ELSE fs.disk
        /\ fs'.used = fs.used
        /\ Becomes(p, PutDp(loc[p], "unlinkLast"))
FindsThere(p) ==
    LET there == fs.ent[loc[p].dp][Head(loc[p].path)]
    IN  /\ loc[p].pc \in {"create", "mkdir"} /\ Gets(there) /\ SameOwners(fs, fs')
        /\ SameData(fs, fs') /\ Rest
        /\ Becomes(p, [loc[p] EXCEPT !.pc = "iput", !.put = loc[p].dp, !.dp = None,
                                     !.ip = there, !.ret = "createThere"])
Allocates(p, i) ==
    /\ loc[p].pc \in {"create", "mkdir"} /\ i \in Inums /\ AddRefs(fs, fs', i, 1)
    /\ Locks(p, loc[p].dp) /\ Rest
    /\ fs.disk[i].type = "free"
    /\ SetDisk(fs, fs', i, [type |-> TypeFor(loc[p].op), nlink |-> 0, addrs |-> {}])
    /\ fs'.ent = fs.ent /\ fs'.used = fs.used
    /\ Head(loc[p].path) \in Names /\ fs.ent[loc[p].dp][Head(loc[p].path)] = None
    /\ Becomes(p, [loc[p] EXCEPT !.pc = "createNew", !.ip = i])
GivesUp == /\ UNCHANGED <<fs, loc, cwd, file>>
           /\ panic' \in {"ialloc: no inodes", "balloc: out of blocks"}
MakesFile(p) ==
    LET d == loc[p].dp
        i == loc[p].ip
    IN  /\ loc[p].pc = "createNew" /\ loc[p].op = "create" /\ SameRefs(fs, fs') /\ Rest
        /\ PassesLock(p)
        /\ SetDisk(fs, fs', i, [type |-> "file", nlink |-> 1, addrs |-> {}])
        /\ Enters(d, Head(loc[p].path), i) /\ fs'.used = fs.used
        /\ Becomes(p, PutDp(loc[p], "opened"))
MakesDir(p) ==
    LET d == loc[p].dp
        i == loc[p].ip
    IN  /\ loc[p].pc = "createNew" /\ loc[p].op = "mkdir" /\ SameRefs(fs, fs') /\ Rest
        /\ PassesLock(p)
        /\ \E k \in free(fs) :
             /\ fs'.disk = [fs.disk EXCEPT ![i] = [type |-> "dir", nlink |-> 1, addrs |-> {k}],
                                           ![d] = [type |-> "dir", nlink |-> fs.disk[d].nlink + 1,
                                                   addrs |-> fs.disk[d].addrs]]
             /\ fs'.used = fs.used \cup {k}
        /\ fs'.ent = [fs.ent EXCEPT ![i] = [Empty EXCEPT !["."] = i, ![".."] = d],
                                    ![d] = [fs.ent[d] EXCEPT ![Head(loc[p].path)] = i]]
        /\ Becomes(p, PutDp(loc[p], "opened"))
LocksFound(p) == /\ loc[p].pc \in {"createThere", "open"} /\ loc[p].op # "link"
                 /\ Locks(p, loc[p].ip) /\ SameRefs(fs, fs') /\ SameData(fs, fs') /\ Rest
                 /\ Becomes(p, [loc[p] EXCEPT !.pc = "opened"])
Opens(p) == /\ loc[p].pc = "opened" /\ file[p] = None /\ UNCHANGED <<cwd, panic>>
            /\ SetOwner(fs, fs', loc[p].ip, NoProc) /\ SameRefs(fs, fs') /\ SameData(fs, fs')
            /\ Becomes(p, Idle) /\ file' = [file EXCEPT ![p] = loc[p].ip]
LeavesDir(p) == /\ loc[p].pc = "chdir" /\ Quiet /\ Rest
                /\ Becomes(p, [loc[p] EXCEPT !.pc = "iput", !.put = cwd[p], !.ret = "chdirDone"])
EntersDir(p) == /\ loc[p].pc = "chdirDone" /\ Quiet /\ UNCHANGED <<file, panic>>
                /\ cwd' = [cwd EXCEPT ![p] = loc[p].ip] /\ Becomes(p, Idle)
Writes(p) ==
    LET i == file[p]
    IN  /\ loc[p].pc = "user" /\ i # None /\ SameRefs(fs, fs') /\ SameOwners(fs, fs') /\ Rest
        /\ UNCHANGED loc /\ fs'.ent = fs.ent
        /\ \E k \in free(fs) :
             /\ SetDisk(fs, fs', i, [type |-> fs.disk[i].type, nlink |-> fs.disk[i].nlink,
                                     addrs |-> fs.disk[i].addrs \cup {k}])
             /\ fs'.used = fs.used \cup {k}
Closes(p) == /\ loc[p].pc = "user" /\ file[p] # None /\ Quiet /\ UNCHANGED <<cwd, panic>>
             /\ Becomes(p, [loc[p] EXCEPT !.pc = "iput", !.put = file[p]])
             /\ file' = [file EXCEPT ![p] = None]

\* Every action has one of these outcomes.
Effect(p) ==
    \/ \E c \in Calls : Begins(p, c)
    \/ Stops(p) \/ (\E i \in Inums : Turns(p, i)) \/ Fails(p) \/ Frees(p) \/ Drops(p)
    \/ PutsIp(p) \/ PutsBad(p) \/ PutsDp(p) \/ Unlocks(p) \/ UnlocksIp(p)
    \/ CountsLink(p) \/ FindsOld(p) \/ AddsEntry(p) \/ Uncounts(p)
    \/ FindsEntry(p) \/ RemovesEntry(p)
    \/ FindsThere(p) \/ (\E i \in Inums : Allocates(p, i)) \/ MakesFile(p) \/ MakesDir(p)
    \/ LocksFound(p) \/ Opens(p) \/ LeavesDir(p) \/ EntersDir(p) \/ Writes(p) \/ Closes(p)

-----------------------------------------------------------------------------
\* What a process may rely on.

\* What a process may lock.
Usable(i) == i \in Inums /\ Made(fs, i) /\ ~Fresh(i) /\ fs.mem[i].ref # 0

\* The six pointers of a process by name.
LEMMA PointersAre ==
  ASSUME NEW p
  PROVE  /\ Pointers(p)[1] = (IF "chdirDone" \in {loc[p].pc, loc[p].ret} THEN None ELSE cwd[p])
         /\ Pointers(p)[2] = file[p] /\ Pointers(p)[3] = loc[p].at /\ Pointers(p)[4] = loc[p].ip
         /\ Pointers(p)[5] = loc[p].dp /\ Pointers(p)[6] = loc[p].put
BY DEF Pointers

\* What a pointer of a process leads to may be locked, unless it is fresh or iput() is done.
LEMMA PointerUsable ==
  ASSUME RefsExact, PointersMade, NEW p \in Procs, NEW n \in 1 .. 6, NEW i \in Inums,
         Pointers(p)[n] = i, n = 6 => loc[p].pc # "drop", n = 4 => Stage(loc[p]) # "createNew"
  PROVE  Usable(i)
<1>1. fs.mem[i].ref # 0
  BY RefPositive
<1>2. i # None
  BY InumsAre
<1>3. Made(fs, Pointers(p)[n]) /\ ~Fresh(Pointers(p)[n])
  BY <1>2 DEF PointersMade
<1> QED
  BY <1>1, <1>3 DEF Usable

\* What the invariant says of the variables of one process.
LEMMA Facts ==
  ASSUME Inv, NEW p \in Procs
  PROVE  /\ Shape(loc[p]) /\ loc[p] \in Local /\ FsOK(fs)
         /\ loc[p].at # None => Usable(loc[p].at)
         /\ loc[p].dp # None => Usable(loc[p].dp) /\ MadeDir(fs, loc[p].dp)
         /\ loc[p].ip # None /\ Stage(loc[p]) # "createNew" => Usable(loc[p].ip)
         /\ loc[p].put # None /\ loc[p].pc # "drop" => Usable(loc[p].put)
         /\ Stage(loc[p]) # "chdirDone" => Usable(cwd[p])
         /\ file[p] # None => Usable(file[p])
<1>1. Shape(loc[p]) /\ loc[p] \in Local /\ FsOK(fs) /\ RefsExact /\ PointersMade
      /\ cwd[p] \in Inums /\ file[p] \in Inums \cup {None}
  BY DEF Inv, Shapes
<1>2. /\ loc[p].at \in Inums \cup {None} /\ loc[p].dp \in Inums \cup {None}
      /\ loc[p].ip \in Inums \cup {None} /\ loc[p].put \in Inums \cup {None}
  BY <1>1 DEF Local
<1>n. 1 \in 1 .. 6 /\ 2 \in 1 .. 6 /\ 3 \in 1 .. 6 /\ 4 \in 1 .. 6 /\ 5 \in 1 .. 6 /\ 6 \in 1 .. 6
  OBVIOUS
<1>3. loc[p].at # None => Usable(loc[p].at)
  BY <1>1, <1>2, <1>n, PointersAre, PointerUsable
<1>4. loc[p].dp # None => Usable(loc[p].dp) /\ MadeDir(fs, loc[p].dp)
  <2>1. loc[p].dp # None => Usable(loc[p].dp)
    BY <1>1, <1>2, <1>n, PointersAre, PointerUsable
  <2> QED
    BY <2>1 DEF Usable, MadeDir, Inv, ParentsAreDirs
<1>5. loc[p].ip # None /\ Stage(loc[p]) # "createNew" => Usable(loc[p].ip)
  BY <1>1, <1>2, <1>n, PointersAre, PointerUsable
<1>6. loc[p].put # None /\ loc[p].pc # "drop" => Usable(loc[p].put)
  BY <1>1, <1>2, <1>n, PointersAre, PointerUsable
<1>7. Stage(loc[p]) # "chdirDone" => Usable(cwd[p])
  <2>1. Stage(loc[p]) # "chdirDone" => Pointers(p)[1] = cwd[p]
    BY <1>1, PointersAre DEF Stage, Shape
  <2> QED
    BY <1>1, <1>n, <2>1, PointerUsable
<1>8. file[p] # None => Usable(file[p])
  BY <1>1, <1>2, <1>n, PointersAre, PointerUsable
<1> QED
  BY <1>1, <1>3, <1>4, <1>5, <1>6, <1>7, <1>8

\* What a directory names is there; so is its .. as long as it has a name itself.
LEMMA NamedFinite ==
  ASSUME NEW F, NEW i
  PROVE  IsFiniteSet(Named(F, i)) /\ Cardinality(Named(F, i)) \in Nat
<1>1. IsFiniteSet(Inums \X Names)
  BY InumsAre, FsAssumption, FS_Product
<1>2. IsFiniteSet(Named(F, i))
  BY <1>1, FS_Subset DEF Named
<1> QED
  BY <1>2, FS_CardinalityType

\* Subdirectories can be counted,
LEMMA KidsFinite ==
  ASSUME NEW F, NEW i
  PROVE  IsFiniteSet(Kids(F, i)) /\ Cardinality(Kids(F, i)) \in Nat
<1>1. IsFiniteSet(Kids(F, i))
  BY FsAssumption, FS_Subset DEF Kids
<1> QED
  BY <1>1, FS_CardinalityType

\* and so can the processes that have counted a link.
LEMMA CountsFinite ==
  ASSUME NEW i
  PROVE  IsFiniteSet(Counts(i)) /\ Cardinality(Counts(i)) \in Nat
<1>1. IsFiniteSet(Counts(i))
  BY FsAssumption, FS_Subset DEF Counts
<1> QED
  BY <1>1, FS_CardinalityType

\* No name, subdirectory or process refers to an inode without links, and it is not the root.
LEMMA NoLinks ==
  ASSUME FsOK(fs), Links, NEW i \in Inums, fs.disk[i].nlink <= 0
  PROVE  Named(fs, i) = {} /\ Kids(fs, i) = {} /\ Counts(i) = {} /\ i # ROOTINO
<1>1. PICK k \in Int : k = fs.disk[i].nlink
  BY SlotTypes DEF FsOK, DInode
<1>2. PICK a \in Nat : a = Cardinality(Named(fs, i))
  BY NamedFinite
<1>3. PICK b \in Nat : b = Cardinality(Kids(fs, i))
  BY KidsFinite
<1>4. PICK c \in Nat : c = Cardinality(Counts(i))
  BY CountsFinite
<1>5. PICK d \in Nat : d = Ind(i = ROOTINO)
  BY DEF Ind
<1>6. k >= a + b + c + d /\ k <= 0
  BY <1>1, <1>2, <1>3, <1>4, <1>5 DEF Links
<1>7. a = 0 /\ b = 0 /\ c = 0 /\ d = 0
  BY <1>6
<1>8. i # ROOTINO
  BY <1>5, <1>7 DEF Ind
<1> QED
  BY <1>2, <1>3, <1>4, <1>7, <1>8, NamedFinite, KidsFinite, CountsFinite, FS_EmptySet

\* The inode that ialloc() has given out has no link yet.
LEMMA FreshHas ==
  ASSUME Inv, NEW i, Fresh(i)
  PROVE  /\ i \in Inums /\ fs.disk[i].nlink = 0 /\ fs.ent[i] = Empty
         /\ Named(fs, i) = {} /\ i # ROOTINO
<1>1. PICK q \in Procs : Stage(loc[q]) = "createNew" /\ loc[q].ip = i
  BY DEF Fresh
<1>2. i \in Inums
  <2>1. Shape(loc[q])
    BY Facts
  <2>2. loc[q].ip # None /\ loc[q].ip \in Inums \cup {None}
    BY <1>1, <2>1 DEF Shape, Local, HasIp
  <2> QED
    BY <1>1, <2>2
<1>3. fs.disk[i].nlink = 0 /\ fs.ent[i] = Empty
  <2>1. /\ fs.disk[i] = [type |-> TypeFor(loc[q].op), nlink |-> 0, addrs |-> {}]
        /\ fs.ent[i] = Empty
    BY <1>1 DEF Inv, FreshOK
  <2> QED
    BY <2>1
<1> QED
  BY <1>2, <1>3, NoLinks DEF Inv

\* What a directory names is an inode, and not one that is being made.
LEMMA NamesUsable ==
  ASSUME Inv, NEW d \in Inums, NEW n \in Names, NEW i, i = fs.ent[d][n], i # None
  PROVE  i \in Inums /\ Made(fs, i) /\ ~Fresh(i) /\ MadeDir(fs, d) /\ ~Fresh(d)
<1>0. FsOK(fs) /\ Tree(fs)
  BY DEF Inv
<1>1. fs.ent[d] \in [Entry -> Inums \cup {None}]
  BY <1>0, SlotTypes DEF FsOK
<1>2. i \in Inums
  BY <1>1 DEF Entry
<1>3. Made(fs, i)
  BY <1>0 DEF Tree
<1>4. <<d, n>> \in Named(fs, i)
  BY DEF Named
<1>5. ~Fresh(i)
  BY <1>4, FreshHas
<1>6. fs.ent[d] # Empty
  BY DEF Empty
<1>7. MadeDir(fs, d)
  BY <1>0, <1>6 DEF Tree
<1>8. ~Fresh(d)
  BY <1>6, FreshHas
<1> QED
  BY <1>2, <1>3, <1>5, <1>7, <1>8

\* dirlookup() finds an inode, also as the parent, unless a removed directory's is looked up.
LEMMA LookupUsable ==
  ASSUME Inv, NEW d \in Inums, MadeDir(fs, d), ~Fresh(d), NEW n \in Entry, NEW i,
         i = fs.ent[d][n], i # None,
         n = ".." => d = ROOTINO \/ Entries(d) # {}
  PROVE  i \in Inums /\ Made(fs, i) /\ ~Fresh(i)
<1>1. CASE n \in Names
  BY <1>1, NamesUsable
<1>2. CASE n = "."
  <2>1. i = d
    BY <1>2 DEF Inv, Tree
  <2> QED
    BY <2>1 DEF MadeDir
<1>3. CASE n = ".."
  <2>1. CASE d = ROOTINO
    BY <1>3, <2>1, FreshHas DEF Inv, Root, MadeDir
  <2>2. CASE Entries(d) # {}
    <3>1. PICK x \in Inums, m \in Names : fs.ent[x][m] = d
      BY <2>2 DEF Entries
    <3>2. d # None
      BY InumsAre
    <3>3. fs.ent[d][".."] = x
      BY <3>1, <3>2 DEF Inv, Tree, MadeDir
    <3>4. MadeDir(fs, x) /\ ~Fresh(x)
      BY <3>1, <3>2, NamesUsable
    <3> QED
      BY <1>3, <3>3, <3>4 DEF MadeDir
  <2> QED
    BY <1>3, <2>1, <2>2
<1> QED
  BY <1>1, <1>2, <1>3 DEF Entry, Dots

-----------------------------------------------------------------------------
\* What each action does.

\* An inode locked, and what the cache holds of it.
Taken(F, i, p) ==
    /\ FsOK(F) /\ SameData(fs, F) /\ SetOwner(fs, F, i, p) /\ SameRefs(fs, F)
    /\ F.mem[i].valid /\ F.mem[i].type = fs.disk[i].type /\ F.mem[i].nlink = fs.disk[i].nlink
    /\ F.mem[i].addrs = fs.disk[i].addrs /\ F.mem[i].type # "free" /\ F.mem[i].ref # 0
    /\ \A j \in Inums : j # i => F.mem[j] = fs.mem[j]
Returned(G) == FsOK(G) /\ SameData(fs, G) /\ SameRefs(fs, G) /\ SameOwners(fs, G)

\* ilock() of an inode that has a type: it is read if need be, and locked.
LEMMA TakesAny ==
  ASSUME Inv, NEW p \in Procs, NEW i \in Inums, fs.disk[i].type # "free", fs.mem[i].ref # 0
  PROVE  Taken(ilock(fs, i, p), i, p)
<1>1. FsOK(fs) /\ i \in Inums /\ fs.disk[i].type # "free" /\ fs.mem[i].ref # 0
  BY DEF Inv
<1>2. PICK F : F = ilock(fs, i, p)
  OBVIOUS
<1>3. /\ FsOK(F) /\ SameData(fs, F) /\ SetOwner(fs, F, i, p) /\ SameRefs(fs, F)
      /\ F.mem[i].valid /\ F.mem[i].type = fs.disk[i].type
      /\ F.mem[i].nlink = fs.disk[i].nlink /\ F.mem[i].addrs = fs.disk[i].addrs
      /\ \A j \in Inums : j # i => F.mem[j] = fs.mem[j]
  BY <1>1, <1>2, IlockOK
<1>4. F.mem[i].ref # 0
  BY <1>1, <1>3 DEF SameRefs
<1> QED
  BY <1>1, <1>2, <1>3, <1>4 DEF Taken

\* ilock() of what a process may use.
LEMMA Takes ==
  ASSUME Inv, NEW p \in Procs, NEW i, Usable(i)
  PROVE  Taken(ilock(fs, i, p), i, p)
BY TakesAny DEF Usable, Made

\* ilock() and then iunlock(): nothing is left but what the cache has read.
LEMMA Returns ==
  ASSUME NEW p, NEW i \in Inums, NEW F, Taken(F, i, p), Unlocked(i)
  PROVE  Returned(iunlock(F, i))
<1>1. PICK G : G = iunlock(F, i)
  OBVIOUS
<1>2. FsOK(G) /\ SameData(F, G) /\ SetOwner(F, G, i, NoProc) /\ SameRefs(F, G)
  BY <1>1, IunlockOK DEF Taken
<1>3. SameData(fs, G) /\ SameRefs(fs, G)
  BY <1>2 DEF Taken, SameData, SameRefs
<1>4. SameOwners(fs, G)
  BY <1>2 DEF Taken, SetOwner, SameOwners, Unlocked
<1> QED
  BY <1>1, <1>2, <1>3, <1>4 DEF Returned

\* One more reference after that.
LEMMA Igets ==
  ASSUME NEW G, FsOK(G), NEW i \in Inums
  PROVE  LET H == iget(G, i)
         IN  FsOK(H) /\ SameData(G, H) /\ SameOwners(G, H) /\ AddRefs(G, H, i, 1)
BY IgetOK

\* A call begins at the root or the current directory.
LEMMA SyscallEffect ==
  ASSUME Inv, NEW p \in Procs, NEW c \in Calls, syscall(p, c)
  PROVE  FsOK(fs') /\ Begins(p, c)
<1>1. loc[p].pc = "user" /\ panic = "no"
  BY DEF syscall, At
<1>2. PICK i : i = IF c.relative THEN cwd[p] ELSE ROOTINO
  OBVIOUS
<1>3. Usable(cwd[p])
  BY <1>1, Facts DEF Stage
<1>4. i \in Inums /\ Made(fs, i) /\ ~Fresh(i)
  <2>1. ROOTINO \in Inums /\ Made(fs, ROOTINO)
    BY InumsAre DEF Inv, Root, MadeDir
  <2>2. ~Fresh(ROOTINO)
    BY FreshHas
  <2> QED
    BY <1>2, <1>3, <2>1, <2>2 DEF Usable
<1>5. fs' = iget(fs, i)
  BY <1>2 DEF syscall
<1>6. FsOK(fs') /\ SameData(fs, fs') /\ SameOwners(fs, fs') /\ AddRefs(fs, fs', i, 1)
  BY <1>4, <1>5, Igets DEF Inv
<1>7. Becomes(p, [Idle EXCEPT
                     !.pc = IF c.path = <<>> THEN c.op ELSE "walk", !.op = c.op,
                     !.path = c.path, !.new = c.new,
                     !.at = IF c.path = <<>> THEN None ELSE i,
                     !.ip = IF c.path = <<>> THEN i ELSE None])
  BY <1>2 DEF syscall, Becomes
<1>8. Rest
  BY DEF syscall, Rest
<1> QED
  BY <1>1, <1>2, <1>4, <1>6, <1>7, <1>8 DEF Begins, Gets

\* namex(): the walk stops at the parent, goes on to the next directory, or fails.
LEMMA WalkEffect ==
  ASSUME Inv, ~LostParent, NEW p \in Procs, walk(p)
  PROVE  FsOK(fs') /\ (Stops(p) \/ (\E i \in Inums : Turns(p, i)) \/ Fails(p))
<1>0. loc \in [Procs -> Local] /\ FsOK(fs)
  BY Zenon DEF Inv, Shapes
<1>1. loc[p].pc = "walk" /\ panic = "no" /\ Stage(loc[p]) = "walk" /\ loc[p].at # None
      /\ loc[p].path # <<>> /\ loc[p].path \in Seq(Entry)
  BY Zenon, Facts DEF walk, At, Stage, Shape, HasPath, Local
<1>2. PICK i : i = loc[p].at
  OBVIOUS
<1>3. Usable(i) /\ i \in Inums /\ Unlocked(i)
  BY Zenon, <1>1, <1>2, Facts DEF walk, Usable
<1>4. PICK F : F = ilock(fs, i, p)
  OBVIOUS
<1>5. Taken(F, i, p)
  BY <1>3, <1>4, Takes
<1>6. PICK G : G = iunlock(F, i)
  OBVIOUS
<1>7. Returned(G)
  BY Zenon, <1>3, <1>5, <1>6, Returns
<1>8. panic' = panic
  BY Zenon, <1>2, <1>4, <1>5 DEF walk, lockedFree, Taken
<1>9. F.ent = fs.ent /\ F.mem[i].type = fs.disk[i].type
  BY <1>5 DEF Taken, SameData
<1>10. PICK next : next = fs.ent[i][Head(loc[p].path)]
  OBVIOUS
<1>11. CASE fs.disk[i].type = "dir" /\ nameiparent(loc[p]) /\ Len(loc[p].path) = 1
  <2>1. /\ fs' = G
        /\ loc' = [loc EXCEPT ![p].pc = IF loc[p].op = "link" THEN "linkNew" ELSE loc[p].op,
                              ![p].dp = i, ![p].at = None]
        /\ UNCHANGED <<cwd, file>>
    BY <1>2, <1>4, <1>6, <1>9, <1>11 DEF walk
  <2>2. Becomes(p, [loc[p] EXCEPT !.pc = IF loc[p].op = "link" THEN "linkNew" ELSE loc[p].op,
                                  !.dp = i, !.at = None])
    BY Zenon, <1>0, <2>1 DEF Becomes, Local
  <2>3. Rest /\ Quiet /\ FsOK(fs')
    BY <1>7, <1>8, <2>1 DEF Rest, Quiet, Returned
  <2> QED
    BY <1>1, <1>2, <1>11, <2>2, <2>3 DEF Stops
<1>12. CASE fs.disk[i].type = "dir" /\ ~(nameiparent(loc[p]) /\ Len(loc[p].path) = 1) /\ next # None
  <2>1. /\ fs' = iget(G, next)
        /\ loc' = [loc EXCEPT ![p].pc = "iput", ![p].put = i,
                              ![p].ret = IF Len(loc[p].path) = 1 THEN loc[p].op ELSE "walk",
                              ![p].path = Tail(loc[p].path),
                              ![p].at = IF Len(loc[p].path) = 1 THEN None ELSE next,
                              ![p].ip = IF Len(loc[p].path) = 1 THEN next ELSE loc[p].ip]
        /\ UNCHANGED <<cwd, file>>
    BY Zenon, <1>2, <1>4, <1>6, <1>9, <1>10, <1>12 DEF walk
  <2>2. Head(loc[p].path) \in Entry
    BY <1>1
  <2>3. next \in Inums /\ Made(fs, next) /\ ~Fresh(next)
    <3>1. MadeDir(fs, i) /\ ~Fresh(i)
      BY <1>3, <1>12 DEF Usable, MadeDir
    <3>2. Head(loc[p].path) = ".." => i = ROOTINO \/ Entries(i) # {}
      BY <1>1, <1>2 DEF LostParent
    <3> QED
      BY <1>3, <1>10, <1>12, <2>2, <3>1, <3>2, LookupUsable
  <2>4. FsOK(fs') /\ SameData(fs, fs') /\ SameOwners(fs, fs') /\ AddRefs(fs, fs', next, 1)
    <3>1. FsOK(fs') /\ SameData(G, fs') /\ SameOwners(G, fs') /\ AddRefs(G, fs', next, 1)
      BY <1>7, <2>1, <2>3, Igets DEF Returned
    <3> QED
      BY <1>7, <3>1 DEF Returned, SameData, SameOwners, SameRefs, AddRefs
  <2>5. Rest
    BY Zenon, <1>8, <2>1 DEF Rest
  <2>6. CASE Len(loc[p].path) # 1
    <3>1. Becomes(p, [loc[p] EXCEPT !.pc = "iput", !.put = i, !.ret = "walk",
                                    !.path = Tail(loc[p].path), !.at = next])
      BY <1>0, <2>1, <2>6 DEF Becomes, Local
    <3>2. Tail(loc[p].path) # <<>>
      <4>1. PICK k \in Nat : k = Len(loc[p].path)
        BY <1>1
      <4>2. Len(Tail(loc[p].path)) = k - 1
        BY <1>1, <4>1
      <4>3. k - 1 # 0
        BY <2>6, <4>1
      <4> QED
        BY <4>2, <4>3
    <3> QED
      BY Zenon, <1>1, <1>2, <2>3, <2>4, <2>5, <3>1, <3>2 DEF Turns, Gets
  <2>7. CASE Len(loc[p].path) = 1
    <3>1. Becomes(p, [loc[p] EXCEPT !.pc = "iput", !.put = i, !.ret = loc[p].op,
                                    !.path = Tail(loc[p].path), !.at = None, !.ip = next])
      BY <1>0, <2>1, <2>7 DEF Becomes, Local
    <3>2. ~nameiparent(loc[p])
      BY <1>12, <2>7
    <3> QED
      BY Zenon, <1>1, <1>2, <2>3, <2>4, <2>5, <3>1, <3>2 DEF Turns, Gets
  <2> QED
    BY <2>6, <2>7
<1>13. CASE /\ ~(fs.disk[i].type = "dir" /\ nameiparent(loc[p]) /\ Len(loc[p].path) = 1)
            /\ ~(fs.disk[i].type = "dir" /\ ~(nameiparent(loc[p]) /\ Len(loc[p].path) = 1) /\ next # None)
  <2>1. Put(p, G, "at", IF loc[p].op = "link" /\ loc[p].ip # None THEN "linkBad" ELSE "user")
    BY Zenon, <1>2, <1>4, <1>6, <1>9, <1>10, <1>13 DEF walk
  <2>2. Linking(loc[p]) <=> loc[p].op = "link" /\ loc[p].ip # None
    BY <1>1, Facts DEF Linking, Shape, HasIp
  <2>3. fs' = G /\ Becomes(p, PutAt(loc[p], IF loc[p].op = "link" /\ loc[p].ip # None THEN "linkBad" ELSE "user"))
        /\ UNCHANGED <<cwd, file>>
    BY <1>0, <2>1, PutIs
  <2>4. Rest /\ Quiet /\ FsOK(fs')
    BY <1>7, <1>8, <2>3 DEF Rest, Quiet, Returned
  <2> QED
    BY <1>1, <2>2, <2>3, <2>4 DEF Fails
<1> QED
  BY <1>11, <1>12, <1>13

\* iput(), under the lock: the inode may be freed.
LEMMA IputEffect ==
  ASSUME Inv, NEW p \in Procs, iput(p)
  PROVE  FsOK(fs') /\ Frees(p)
<1>0. loc \in [Procs -> Local] /\ FsOK(fs)
  BY DEF Inv, Shapes
<1>1. loc[p].pc = "iput" /\ loc[p].put # None /\ Usable(loc[p].put)
  BY Facts DEF iput, At, Shape
<1>2. PICK i : i = loc[p].put
  OBVIOUS
<1>3. i \in Inums /\ fs.mem[i].owner = NoProc /\ fs' = freeIfLast(fs, i)
  BY <1>1, <1>2 DEF iput, Unlocked, Usable, Goto
<1>4. /\ FsOK(fs') /\ SameOwners(fs, fs') /\ SameRefs(fs, fs')
      /\ \/ SameData(fs, fs')
         \/ /\ fs.mem[i].ref = 1 /\ fs.disk[i].nlink = 0 /\ fs.disk[i].type # "free"
            /\ SetDisk(fs, fs', i, [type |-> "free", nlink |-> 0, addrs |-> {}])
            /\ fs'.ent = [fs.ent EXCEPT ![i] = Empty]
            /\ fs'.used = fs.used \ fs.disk[i].addrs
  BY <1>0, <1>3, FreeIfLastOK
<1>5. Becomes(p, [loc[p] EXCEPT !.pc = "drop"]) /\ Rest
  BY <1>0 DEF iput, Goto, Becomes, Rest, Local
<1> QED
  BY <1>1, <1>2, <1>4, <1>5 DEF Frees

\* iput(), after it: the reference is given back.
LEMMA IputDropEffect ==
  ASSUME Inv, NEW p \in Procs, iputDrop(p)
  PROVE  FsOK(fs') /\ Drops(p)
<1>0. loc \in [Procs -> Local] /\ FsOK(fs) /\ RefsExact
  BY DEF Inv, Shapes
<1>1. loc[p].pc = "drop" /\ loc[p].put # None /\ loc[p].put \in Inums \cup {None} /\ loc[p] \in Local
  BY Facts DEF iputDrop, At, Shape, Local
<1>2. PICK i : i = loc[p].put
  OBVIOUS
<1>3. i \in Inums /\ fs' = drop(fs, i)
  BY <1>1, <1>2 DEF iputDrop
<1>n. 6 \in 1 .. 6 /\ 5 \in 1 .. 6 /\ 4 \in 1 .. 6
  OBVIOUS
<1>4. fs.mem[i].ref # 0
  BY <1>0, <1>2, <1>3, <1>n, PointersAre, RefPositive
<1>5. ASSUME fs.mem[i].ref = 1 PROVE fs.mem[i].owner = NoProc
  <2>1. SUFFICES ASSUME NEW q \in Procs, fs.mem[i].owner = q PROVE FALSE
    BY <1>0, <1>3, SlotTypes DEF FsOK, MInode
  <2>2. Holds(loc[q], i)
    BY <1>3, <2>1 DEF Inv, Locked
  <2>3. Pointers(q)[5] = i \/ Pointers(q)[4] = i
    BY <2>2, PointersAre DEF Holds
  <2> QED
    BY <1>0, <1>2, <1>3, <1>5, <1>n, <2>3, PointersAre, RefOnly
<1>6. FsOK(fs') /\ SameData(fs, fs') /\ SameOwners(fs, fs') /\ AddRefs(fs, fs', i, -1)
  BY <1>0, <1>3, <1>4, <1>5, DropOK
<1>7. Rest /\ Becomes(p, IF loc[p].ret = "user" THEN Idle
                         ELSE [loc[p] EXCEPT !.pc = loc[p].ret, !.put = None])
  BY DEF iputDrop, Rest, Becomes
<1> QED
  BY <1>1, <1>2, <1>6, <1>7 DEF Drops

\* The start of an action that locks inode i.
LEMMA LinkEffect ==
  ASSUME Inv, NEW p \in Procs, link(p)
  PROVE  FsOK(fs') /\ (PutsIp(p) \/ CountsLink(p))
<1>0. loc \in [Procs -> Local] /\ FsOK(fs)
  BY DEF Inv, Shapes
<1>1. loc[p].pc = "link" /\ Stage(loc[p]) = "link" /\ loc[p].ip # None
  BY Facts DEF link, At, Stage, Shape, HasIp
<1>2. PICK i : i = loc[p].ip
  OBVIOUS
<1>3. Usable(i) /\ i \in Inums /\ Unlocked(i)
  BY <1>1, <1>2, Facts DEF link, Usable
<1>4. PICK F : F = ilock(fs, i, p)
  OBVIOUS
<1>5. Taken(F, i, p)
  BY Zenon, <1>3, <1>4, Takes
<1>8. panic' = panic
  BY <1>2, <1>4, <1>5 DEF link, lockedFree, Taken
<1>9. F.mem[i].type = fs.disk[i].type
  BY <1>5 DEF Taken
<1>10. CASE fs.disk[i].type = "dir"
  <2>1. Put(p, iunlock(F, i), "ip", "user")
    BY <1>2, <1>4, <1>9, <1>10 DEF link
  <2>2. fs' = iunlock(F, i) /\ Becomes(p, PutIp(loc[p], "user")) /\ UNCHANGED <<cwd, file>>
    BY <1>0, <2>1, PutIs
  <2>3. Returned(fs')
    BY <1>3, <1>5, <2>2, Returns
  <2> QED
    BY <1>1, <1>8, <2>2, <2>3 DEF Returned, PutsIp, Quiet, Rest
<1>11. CASE fs.disk[i].type # "dir"
  <2>1. /\ fs' = iget(linkCounted(F, i), ROOTINO)
        /\ loc' = [loc EXCEPT ![p].pc = "walk", ![p].path = loc[p].new, ![p].at = ROOTINO]
        /\ UNCHANGED <<cwd, file>>
    BY <1>2, <1>4, <1>9, <1>11 DEF link
  <2>2. Becomes(p, [loc[p] EXCEPT !.pc = "walk", !.path = loc[p].new, !.at = ROOTINO])
    BY <1>0, <2>1 DEF Becomes, Local
  <2>3. PICK G : G = relink(F, i, 1)
    OBVIOUS
  <2>4. /\ FsOK(G) /\ G.ent = F.ent /\ G.used = F.used /\ SameOwners(F, G) /\ SameRefs(F, G)
        /\ SetDisk(F, G, i, [type |-> F.disk[i].type, nlink |-> F.disk[i].nlink + 1,
                             addrs |-> F.disk[i].addrs])
    <3>1. 1 \in Int
      OBVIOUS
    <3> QED
      BY <1>3, <1>5, <2>3, <3>1, RelinkOK DEF Taken
  <2>5. PICK H : H = iunlock(G, i)
    OBVIOUS
  <2>6. FsOK(H) /\ SameData(G, H) /\ SetOwner(G, H, i, NoProc) /\ SameRefs(G, H)
    <3>1. G.mem[i].ref # 0
      BY <1>3, <1>5, <2>4 DEF Taken, SameRefs
    <3> QED
      BY <1>3, <2>4, <2>5, <3>1, IunlockOK
  <2>7. fs' = iget(H, ROOTINO)
    BY <2>1, <2>3, <2>5 DEF linkCounted
  <2>8. FsOK(fs') /\ SameData(H, fs') /\ SameOwners(H, fs') /\ AddRefs(H, fs', ROOTINO, 1)
    BY <2>6, <2>7, Igets, InumsAre
  <2>9. AddRefs(fs, fs', ROOTINO, 1)
    BY <1>5, <2>4, <2>6, <2>8 DEF Taken, SameRefs, AddRefs
  <2>10. SameOwners(fs, fs')
    BY <1>3, <1>5, <2>4, <2>6, <2>8 DEF Taken, SameOwners, SetOwner, Unlocked
  <2>11. Relink(i, 1)
    BY <1>5, <2>4, <2>6, <2>8 DEF Taken, SameData, Relink, SetDisk
  <2>12. ROOTINO \in Inums /\ Made(fs, ROOTINO) /\ ~Fresh(ROOTINO)
    BY InumsAre, FreshHas DEF Inv, Root, MadeDir
  <2> QED
    BY <1>1, <1>2, <1>8, <1>11, <2>1, <2>2, <2>8, <2>9, <2>10, <2>11, <2>12 DEF CountsLink, Gets, Rest
<1> QED
  BY <1>10, <1>11

\* sys_link(), with the new parent locked: the name exists or is added.
LEMMA LinkNewEffect ==
  ASSUME Inv, ~LostParent, NEW p \in Procs, linkNew(p)
  PROVE  FsOK(fs') /\ (FindsOld(p) \/ AddsEntry(p))
<1>0. loc \in [Procs -> Local] /\ FsOK(fs)
  BY DEF Inv, Shapes
<1>1. /\ loc[p].pc = "linkNew" /\ Stage(loc[p]) = "linkNew" /\ loc[p].ip # None /\ loc[p].dp # None
      /\ loc[p].path # <<>> /\ loc[p].path \in Seq(Entry) /\ loc[p].ip \in Inums \cup {None}
  BY Zenon, Facts DEF linkNew, At, Stage, Shape, HasIp, HasDp, HasPath, Local
<1>2. PICK d : d = loc[p].dp
  OBVIOUS
<1>3. Usable(d) /\ d \in Inums /\ Unlocked(d) /\ MadeDir(fs, d)
  BY <1>1, <1>2, Facts DEF linkNew, Usable
<1>4. PICK F : F = ilock(fs, d, p)
  OBVIOUS
<1>5. Taken(F, d, p)
  BY Zenon, <1>3, <1>4, Takes
<1>6. panic' = panic
  BY Zenon, <1>2, <1>4, <1>5 DEF linkNew, lockedFree, Taken
<1>7. PICK n : n = Head(loc[p].path)
  OBVIOUS
<1>8. n \in Entry
  BY <1>1, <1>7
<1>9. PICK there : there = fs.ent[d][n]
  OBVIOUS
<1>10. F.ent = fs.ent
  BY Zenon, <1>5 DEF Taken, SameData
<1>11. CASE there # None
  <2>1. /\ fs' = iget(F, there) /\ UNCHANGED <<cwd, file>>
        /\ loc' = [loc EXCEPT ![p].pc = "iput", ![p].put = there, ![p].ret = "linkExists"]
    BY Zenon, <1>2, <1>4, <1>7, <1>9, <1>10, <1>11 DEF linkNew
  <2>2. there \in Inums /\ Made(fs, there) /\ ~Fresh(there)
    <3>1. n = ".." => d = ROOTINO \/ Entries(d) # {}
      BY <1>1, <1>2, <1>7 DEF LostParent
    <3> QED
      BY <1>3, <1>8, <1>9, <1>11, <3>1, LookupUsable DEF Usable
  <2>3. FsOK(fs') /\ SameData(F, fs') /\ SameOwners(F, fs') /\ AddRefs(F, fs', there, 1)
    BY <1>5, <2>1, <2>2, Igets DEF Taken
  <2>4. SameData(fs, fs') /\ SetOwner(fs, fs', d, p) /\ AddRefs(fs, fs', there, 1)
    BY <1>5, <2>3 DEF Taken, SameData, SameOwners, SetOwner, SameRefs, AddRefs
  <2>5. Becomes(p, [loc[p] EXCEPT !.pc = "iput", !.put = there, !.ret = "linkExists"])
    BY <1>0, <2>1 DEF Becomes, Local
  <2> QED
    BY Zenon, <1>1, <1>2, <1>3, <1>6, <1>7, <1>9, <2>1, <2>2, <2>3, <2>4, <2>5
       DEF FindsOld, Gets, Rest, Locks, Unlocked
<1>12. CASE there = None
  <2>0. n \in Names
    <3>1. fs.ent[d]["."] = d /\ fs.ent[d][".."] # None
      BY <1>3 DEF Inv, Tree
    <3>2. d # None
      BY <1>3, InumsAre
    <3> QED
      BY <1>8, <1>9, <1>12, <3>1, <3>2 DEF Entry, Dots
  <2>1. Put(p, iunlock(dirlink(F, d, n, loc[p].ip), d), "dp", "linkDone")
    BY <1>2, <1>4, <1>7, <1>9, <1>10, <1>12 DEF linkNew
  <2>2. /\ fs' = iunlock(dirlink(F, d, n, loc[p].ip), d)
        /\ Becomes(p, PutDp(loc[p], "linkDone")) /\ UNCHANGED <<cwd, file>>
    BY <1>0, <2>1, PutIs
  <2>3. PICK G : G = dirlink(F, d, n, loc[p].ip)
    OBVIOUS
  <2>4. /\ FsOK(G) /\ G.disk = F.disk /\ G.used = F.used /\ G.mem = F.mem
        /\ G.ent = [F.ent EXCEPT ![d] = [F.ent[d] EXCEPT ![n] = loc[p].ip]]
    <3>1. F.mem[d].addrs # {}
      BY <1>3, <1>5 DEF Taken, MadeDir, Made
    <3>2. PICK i \in Inums \cup {None} : i = loc[p].ip
      BY <1>1
    <3>3. FsOK(F) /\ d \in Inums /\ G = dirlink(F, d, n, i)
      BY <1>3, <1>5, <2>3, <3>2 DEF Taken
    <3>4. /\ FsOK(G) /\ G.disk = F.disk /\ G.used = F.used /\ G.mem = F.mem
          /\ G.ent = [F.ent EXCEPT ![d] = [F.ent[d] EXCEPT ![n] = i]]
      BY <1>8, <3>1, <3>3, DirlinkOK
    <3> QED
      BY <3>2, <3>4
  <2>5. FsOK(fs') /\ SameData(G, fs') /\ SetOwner(G, fs', d, NoProc) /\ SameRefs(G, fs')
    <3>1. G.mem[d].ref # 0
      BY <1>5, <2>4 DEF Taken
    <3> QED
      BY <1>3, <2>2, <2>3, <2>4, <3>1, IunlockOK
  <2>6. SameRefs(fs, fs')
    BY <1>5, <2>4, <2>5 DEF Taken, SameRefs
  <2>7. SameOwners(fs, fs') /\ fs.mem[d].owner = NoProc
    BY <1>3, <1>5, <2>4, <2>5 DEF Taken, SameOwners, SetOwner, Unlocked
  <2>8. Enters(d, n, loc[p].ip) /\ fs'.disk = fs.disk /\ fs'.used = fs.used
    BY <1>5, <2>4, <2>5 DEF Taken, SameData, Enters
  <2> QED
    BY <1>1, <1>2, <1>6, <1>7, <1>9, <1>12, <2>0, <2>2, <2>5, <2>6, <2>7, <2>8 DEF AddsEntry, Rest
<1> QED
  BY Zenon, <1>11, <1>12

\* dp, which p has locked.
LEMMA HeldDp ==
  ASSUME Inv, NEW p \in Procs, Stage(loc[p]) \in LocksDp
  PROVE  LET d == loc[p].dp
         IN  /\ Usable(d) /\ d \in Inums /\ MadeDir(fs, d) /\ fs.mem[d].owner = p
             /\ fs.mem[d].valid /\ fs.mem[d].addrs # {}
<1>1. loc[p].dp # None
  BY Facts DEF Shape, LocksDp, HasDp
<1>2. Usable(loc[p].dp) /\ MadeDir(fs, loc[p].dp) /\ loc[p].dp \in Inums
  BY <1>1, Facts DEF Usable
<1>3. fs.mem[loc[p].dp].owner = p
  BY <1>2 DEF Inv, Locked, Holds
<1>4. p # NoProc
  BY FsAssumption
<1>5. SlotOK(fs, loc[p].dp)
  BY <1>2 DEF Inv, FsOK
<1> QED
  BY <1>2, <1>3, <1>4, <1>5 DEF SlotOK, MadeDir, Made

\* An inode ip that a process has locked,
LEMMA HeldIp ==
  ASSUME Inv, NEW p \in Procs, Stage(loc[p]) \in LocksIp
  PROVE  LET i == loc[p].ip
         IN  Usable(i) /\ i \in Inums /\ fs.mem[i].owner = p /\ fs.mem[i].valid
<1>1. loc[p].ip # None /\ Stage(loc[p]) # "createNew"
  BY Facts DEF Shape, LocksIp, HasIp
<1>2. Usable(loc[p].ip) /\ loc[p].ip \in Inums
  BY <1>1, Facts DEF Usable
<1>3. fs.mem[loc[p].ip].owner = p
  BY <1>2 DEF Inv, Locked, Holds
<1>4. p # NoProc
  BY FsAssumption
<1>5. SlotOK(fs, loc[p].ip)
  BY <1>2 DEF Inv, FsOK
<1> QED
  BY <1>2, <1>3, <1>4, <1>5 DEF SlotOK

\* and what it means to unlock its parent.
LEMMA UnlocksDp ==
  ASSUME Inv, NEW p \in Procs, Stage(loc[p]) \in LocksDp, fs' = iunlock(fs, loc[p].dp)
  PROVE  FsOK(fs') /\ SetOwner(fs, fs', loc[p].dp, NoProc) /\ SameRefs(fs, fs') /\ SameData(fs, fs')
<1>1. FsOK(fs) /\ loc[p].dp \in Inums /\ fs.mem[loc[p].dp].ref # 0
  BY HeldDp DEF Usable, Inv
<1> QED
  BY <1>1, IunlockOK

\* iunlockput() of the parent, when sys_link() or sys_unlink() failed.
LEMMA LinkExistsEffect ==
  ASSUME Inv, NEW p \in Procs, linkExists(p) \/ unlinkBad(p)
  PROVE  FsOK(fs') /\ Unlocks(p)
<1>0. loc \in [Procs -> Local]
  BY DEF Inv, Shapes
<1>1. CASE linkExists(p)
  <2>1. loc[p].pc = "linkExists" /\ Stage(loc[p]) \in LocksDp
    BY <1>1 DEF linkExists, At, Stage, LocksDp
  <2>2. fs' = iunlock(fs, loc[p].dp) /\ Becomes(p, PutDp(loc[p], "linkBad")) /\ Rest
    BY <1>0, <1>1, PutIs DEF linkExists, Rest
  <2> QED
    BY <2>1, <2>2, UnlocksDp DEF Unlocks
<1>2. CASE unlinkBad(p)
  <2>1. loc[p].pc = "unlinkBad" /\ Stage(loc[p]) \in LocksDp
    BY <1>2 DEF unlinkBad, At, Stage, LocksDp
  <2>2. fs' = iunlock(fs, loc[p].dp) /\ Becomes(p, PutDp(loc[p], "user")) /\ Rest
    BY <1>0, <1>2, PutIs DEF unlinkBad, Rest
  <2> QED
    BY <2>1, <2>2, UnlocksDp DEF Unlocks
<1> QED
  BY <1>1, <1>2

\* The last iput() of sys_link().
LEMMA LinkDoneEffect ==
  ASSUME Inv, NEW p \in Procs, linkDone(p)
  PROVE  FsOK(fs') /\ PutsIp(p)
<1>1. fs' = fs /\ Becomes(p, PutIp(loc[p], "user")) /\ Rest /\ FsOK(fs)
  BY PutIs DEF linkDone, Rest, Inv, Shapes
<1>2. Quiet
  BY <1>1 DEF Quiet, SameData, SameRefs, SameOwners
<1>3. loc[p].pc = "linkDone"
  BY DEF linkDone, At
<1> QED
  BY <1>1, <1>2, <1>3 DEF PutsIp

\* sys_link() failed: the link it has counted is taken off.
LEMMA LinkBadEffect ==
  ASSUME Inv, NEW p \in Procs, linkBad(p)
  PROVE  FsOK(fs') /\ Uncounts(p)
<1>0. loc \in [Procs -> Local] /\ FsOK(fs)
  BY DEF Inv, Shapes
<1>1. loc[p].pc = "linkBad" /\ Stage(loc[p]) = "linkBad" /\ loc[p].ip # None
  BY Facts DEF linkBad, At, Stage, Shape, HasIp
<1>2. PICK i : i = loc[p].ip
  OBVIOUS
<1>3. Usable(i) /\ i \in Inums /\ Unlocked(i)
  BY <1>1, <1>2, Facts DEF linkBad, Usable
<1>4. PICK F : F = ilock(fs, i, p)
  OBVIOUS
<1>5. Taken(F, i, p)
  BY <1>3, <1>4, Takes
<1>6. panic' = panic
  BY <1>2, <1>4, <1>5 DEF linkBad, lockedFree, Taken
<1>7. fs' = iunlock(relink(F, i, -1), i) /\ Becomes(p, PutIp(loc[p], "user")) /\ UNCHANGED <<cwd, file>>
  BY <1>0, <1>2, <1>4, PutIs DEF linkBad
<1>8. PICK G : G = relink(F, i, -1)
  OBVIOUS
<1>9. /\ FsOK(G) /\ G.ent = F.ent /\ G.used = F.used /\ SameOwners(F, G) /\ SameRefs(F, G)
      /\ SetDisk(F, G, i, [type |-> F.disk[i].type, nlink |-> F.disk[i].nlink + (-1),
                           addrs |-> F.disk[i].addrs])
  <2>1. -1 \in Int
    OBVIOUS
  <2> QED
    BY <1>3, <1>5, <1>8, <2>1, RelinkOK DEF Taken
<1>10. FsOK(fs') /\ SameData(G, fs') /\ SetOwner(G, fs', i, NoProc) /\ SameRefs(G, fs')
  <2>1. G.mem[i].ref # 0
    BY <1>3, <1>5, <1>9 DEF Taken, SameRefs
  <2> QED
    BY <1>3, <1>7, <1>8, <1>9, <2>1, IunlockOK
<1>11. SameRefs(fs, fs')
  BY <1>5, <1>9, <1>10 DEF Taken, SameRefs
<1>12. SameOwners(fs, fs')
  BY <1>3, <1>5, <1>9, <1>10 DEF Taken, SameOwners, SetOwner, Unlocked
<1>13. Relink(i, -1)
  BY <1>5, <1>9, <1>10 DEF Taken, SameData, Relink, SetDisk
<1> QED
  BY <1>1, <1>2, <1>6, <1>7, <1>10, <1>11, <1>12, <1>13 DEF Uncounts, Rest

\* sys_unlink(), with the parent locked: there is no such name, or it is found.
LEMMA UnlinkEffect ==
  ASSUME Inv, NEW p \in Procs, unlink(p)
  PROVE  FsOK(fs') /\ (PutsDp(p) \/ FindsEntry(p))
<1>0. loc \in [Procs -> Local] /\ FsOK(fs)
  BY DEF Inv, Shapes
<1>1. /\ loc[p].pc = "unlink" /\ Stage(loc[p]) = "unlink" /\ loc[p].dp # None
      /\ loc[p].path # <<>> /\ loc[p].path \in Seq(Entry)
  BY Facts DEF unlink, At, Stage, Shape, HasDp, HasPath, Local
<1>2. PICK d : d = loc[p].dp
  OBVIOUS
<1>3. Usable(d) /\ d \in Inums /\ Unlocked(d) /\ MadeDir(fs, d)
  BY <1>1, <1>2, Facts DEF unlink, Usable
<1>4. PICK F : F = ilock(fs, d, p)
  OBVIOUS
<1>5. Taken(F, d, p)
  BY Zenon, <1>3, <1>4, Takes
<1>6. panic' = panic
  BY <1>2, <1>4, <1>5 DEF unlink, lockedFree, Taken
<1>7. PICK n : n = Head(loc[p].path)
  OBVIOUS
<1>8. n \in Entry
  BY <1>1, <1>7
<1>9. PICK i : i = fs.ent[d][n]
  OBVIOUS
<1>10. F.ent = fs.ent
  BY <1>5 DEF Taken, SameData
<1>11. CASE n \in Dots \/ i = None
  <2>1. Put(p, iunlock(F, d), "dp", "user")
    BY <1>2, <1>4, <1>7, <1>9, <1>10, <1>11 DEF unlink
  <2>2. fs' = iunlock(F, d) /\ Becomes(p, PutDp(loc[p], "user")) /\ UNCHANGED <<cwd, file>>
    BY <1>0, <2>1, PutIs
  <2>3. Returned(fs')
    BY Zenon, <1>3, <1>5, <2>2, Returns
  <2> QED
    BY <1>1, <1>6, <2>2, <2>3 DEF Returned, PutsDp, Quiet, Rest
<1>12. CASE ~(n \in Dots \/ i = None)
  <2>1. /\ fs' = iget(F, i) /\ UNCHANGED <<cwd, file>>
        /\ loc' = [loc EXCEPT ![p].pc = "unlinkEntry", ![p].ip = i]
    BY Zenon, <1>2, <1>4, <1>7, <1>9, <1>10, <1>12 DEF unlink
  <2>2. n \in Names
    BY <1>8, <1>12 DEF Entry
  <2>3. i \in Inums /\ Made(fs, i) /\ ~Fresh(i)
    BY <1>3, <1>9, <1>12, <2>2, NamesUsable
  <2>4. FsOK(fs') /\ SameData(F, fs') /\ SameOwners(F, fs') /\ AddRefs(F, fs', i, 1)
    BY <1>5, <2>1, <2>3, Igets DEF Taken
  <2>5. SameData(fs, fs') /\ SetOwner(fs, fs', d, p) /\ AddRefs(fs, fs', i, 1)
    BY <1>5, <2>4 DEF Taken, SameData, SameOwners, SetOwner, SameRefs, AddRefs
  <2>6. Becomes(p, [loc[p] EXCEPT !.pc = "unlinkEntry", !.ip = i])
    BY <1>0, <2>1 DEF Becomes, Local
  <2> QED
    BY Zenon, <1>1, <1>2, <1>3, <1>6, <1>7, <1>9, <2>1, <2>2, <2>3, <2>4, <2>5, <2>6
       DEF FindsEntry, Gets, Rest, Locks, Unlocked
<1> QED
  BY <1>11, <1>12

\* sys_unlink(), with parent and child locked: not empty, or the entry is removed.
LEMMA UnlinkEntryEffect ==
  ASSUME Inv, NEW p \in Procs, unlinkEntry(p)
  PROVE  FsOK(fs') /\ (PutsBad(p) \/ RemovesEntry(p))
<1>0. loc \in [Procs -> Local] /\ FsOK(fs)
  BY DEF Inv, Shapes
<1>1. /\ loc[p].pc = "unlinkEntry" /\ Stage(loc[p]) = "unlinkEntry" /\ loc[p].ip # None
      /\ Head(loc[p].path) \in Names
  BY Zenon, Facts DEF unlinkEntry, At, Stage, Shape, HasIp
<1>2. PICK d : d = loc[p].dp
  OBVIOUS
<1>3. PICK i : i = loc[p].ip
  OBVIOUS
<1>4. PICK n \in Names : n = Head(loc[p].path)
  BY <1>1
<1>5. /\ d \in Inums /\ Usable(d) /\ MadeDir(fs, d) /\ fs.mem[d].owner = p /\ fs.mem[d].valid
      /\ fs.mem[d].addrs # {}
  BY Zenon, <1>1, <1>2, HeldDp DEF LocksDp
<1>6. Usable(i) /\ i \in Inums /\ Unlocked(i) /\ i # None
  BY Zenon, <1>1, <1>3, Facts DEF unlinkEntry, Usable
<1>7. i # d
  <2>1. p # NoProc
    BY FsAssumption
  <2> QED
    BY <1>5, <1>6, <2>1 DEF Unlocked
<1>8. fs.ent[d][n] = i
  BY <1>1, <1>2, <1>3, <1>4 DEF Inv, EntryThere
<1>9. PICK F : F = ilock(fs, i, p)
  OBVIOUS
<1>10. Taken(F, i, p)
  BY <1>6, <1>9, Takes
<1>11. F.mem[i].type = fs.disk[i].type /\ F.ent = fs.ent /\ F.mem[i].nlink = fs.disk[i].nlink
       /\ F.mem[i].type # "free"
  BY <1>10 DEF Taken, SameData
<1>12. ~(F.mem[i].nlink < 1)
  <2>1. <<d, n>> \in Named(fs, i)
    BY <1>5, <1>8 DEF Named
  <2>2. ~(fs.disk[i].nlink <= 0)
    BY <1>0, <1>6, <2>1, NoLinks DEF Inv
  <2>3. PICK k \in Int : k = fs.disk[i].nlink
    BY <1>0, <1>6, SlotTypes DEF FsOK, DInode
  <2> QED
    BY <1>11, <2>2, <2>3
<1>13. panic' = panic
  BY <1>3, <1>9, <1>11, <1>12 DEF unlinkEntry
<1>14. CASE fs.disk[i].type = "dir" /\ ~isdirempty(F, i)
  <2>1. Put(p, iunlock(F, i), "ip", "unlinkBad")
    BY Zenon, <1>3, <1>9, <1>11, <1>14 DEF unlinkEntry
  <2>2. fs' = iunlock(F, i) /\ Becomes(p, PutIp(loc[p], "unlinkBad")) /\ UNCHANGED <<cwd, file>>
    BY <1>0, <2>1, PutIs
  <2>3. Returned(fs')
    BY Zenon, <1>6, <1>10, <2>2, Returns
  <2> QED
    BY <1>1, <1>13, <2>2, <2>3 DEF Returned, PutsBad, Quiet, Rest
<1>15. CASE ~(fs.disk[i].type = "dir" /\ ~isdirempty(F, i))
  <2>1. PICK G : G = [F EXCEPT !.ent[d][n] = None]
    OBVIOUS
  <2>2. /\ FsOK(G) /\ G.disk = F.disk /\ G.used = F.used /\ G.mem = F.mem
        /\ G.ent = [fs.ent EXCEPT ![d] = [fs.ent[d] EXCEPT ![n] = None]]
    BY <1>5, <1>10, <1>11, <2>1, SetEntryOK DEF Taken, Entry
  <2>3. PICK H : H = IF fs.disk[i].type = "dir" THEN relink(G, d, -1) ELSE G
    OBVIOUS
  <2>4. Put(p, iunlock(H, d), "dp", "unlinkLast")
    <3>1. /\ G = [F EXCEPT !.ent[loc[p].dp][Head(loc[p].path)] = None]
      BY <1>2, <1>4, <2>1
    <3> QED
      BY Zenon, <1>2, <1>3, <1>9, <1>11, <1>15, <2>3, <3>1 DEF unlinkEntry
  <2>5. fs' = iunlock(H, d) /\ Becomes(p, PutDp(loc[p], "unlinkLast")) /\ UNCHANGED <<cwd, file>>
    BY <1>0, <2>4, PutIs
  <2>6. G.mem[d] = fs.mem[d] /\ G.mem[d].valid /\ G.mem[d].ref # 0
    BY <1>5, <1>7, <1>10, <2>2 DEF Taken, Usable
  <2>7. /\ FsOK(H) /\ H.ent = G.ent /\ H.used = G.used /\ SameOwners(G, H) /\ SameRefs(G, H)
        /\ H.disk = IF fs.disk[i].type = "dir"
                      THEN [fs.disk EXCEPT ![d] = [type |-> "dir", addrs |-> fs.disk[d].addrs,
                                                   nlink |-> fs.disk[d].nlink + (-1)]]
                      ELSE fs.disk
    <3>0. G.disk = fs.disk /\ fs.disk[d].type = "dir"
      BY <1>5, <1>10, <2>2 DEF Taken, SameData, MadeDir
    <3>1. CASE fs.disk[i].type = "dir"
      <4>1. H = relink(G, d, -1)
        BY <2>3, <3>1
      <4>2. /\ FsOK(H) /\ H.ent = G.ent /\ H.used = G.used /\ SameOwners(G, H) /\ SameRefs(G, H)
            /\ SetDisk(G, H, d, [type |-> G.disk[d].type, nlink |-> G.disk[d].nlink + (-1),
                                 addrs |-> G.disk[d].addrs])
        <5>1. -1 \in Int
          OBVIOUS
        <5> QED
          BY <1>5, <2>2, <2>6, <4>1, <5>1, RelinkOK
      <4> QED
        BY <3>0, <3>1, <4>2 DEF SetDisk
    <3>2. CASE fs.disk[i].type # "dir"
      <4>1. H = G
        BY <2>3, <3>2
      <4> QED
        BY <2>2, <3>0, <3>2, <4>1 DEF SameOwners, SameRefs
    <3> QED
      BY <3>1, <3>2
  <2>8. FsOK(fs') /\ SameData(H, fs') /\ SetOwner(H, fs', d, NoProc) /\ SameRefs(H, fs')
    <3>1. H.mem[d].ref # 0
      BY <1>5, <2>6, <2>7 DEF SameRefs
    <3> QED
      BY <1>5, <2>5, <2>7, <3>1, IunlockOK
  <2>9. SameRefs(fs, fs')
    BY <1>10, <2>2, <2>7, <2>8 DEF Taken, SameRefs
  <2>10. PassesLock(p)
    BY <1>2, <1>3, <1>6, <1>7, <1>10, <2>2, <2>7, <2>8
       DEF Taken, SameOwners, SetOwner, PassesLock, Unlocked
  <2>11. Enters(d, n, None) /\ fs'.used = fs.used /\ fs'.disk = H.disk
    BY <1>10, <2>2, <2>7, <2>8 DEF Taken, SameData, Enters
  <2>12. fs.disk[i].type = "dir" => \A m \in Names : fs.ent[i][m] = None
    BY <1>11, <1>15 DEF isdirempty
  <2> QED
    BY <1>1, <1>2, <1>3, <1>4, <1>13, <2>5, <2>7, <2>8, <2>9, <2>10, <2>11, <2>12 DEF RemovesEntry, Rest
<1> QED
  BY <1>14, <1>15

\* The end of sys_unlink(): a link less.
LEMMA UnlinkLastEffect ==
  ASSUME Inv, NEW p \in Procs, unlinkLast(p)
  PROVE  FsOK(fs') /\ Uncounts(p)
<1>0. loc \in [Procs -> Local] /\ FsOK(fs)
  BY DEF Inv, Shapes
<1>1. loc[p].pc = "unlinkLast" /\ Stage(loc[p]) \in LocksIp
  BY DEF unlinkLast, At, Stage, LocksIp
<1>2. PICK i : i = loc[p].ip
  OBVIOUS
<1>3. Usable(i) /\ i \in Inums /\ fs.mem[i].valid
  BY <1>1, <1>2, HeldIp
<1>4. fs' = iunlock(relink(fs, i, -1), i) /\ Becomes(p, PutIp(loc[p], "user")) /\ Rest
  BY <1>0, <1>2, PutIs DEF unlinkLast, Rest
<1>5. PICK G : G = relink(fs, i, -1)
  OBVIOUS
<1>6. /\ FsOK(G) /\ G.ent = fs.ent /\ G.used = fs.used /\ SameOwners(fs, G) /\ SameRefs(fs, G)
      /\ SetDisk(fs, G, i, [type |-> fs.disk[i].type, nlink |-> fs.disk[i].nlink + (-1),
                            addrs |-> fs.disk[i].addrs])
  <2>1. -1 \in Int
    OBVIOUS
  <2> QED
    BY <1>0, <1>3, <1>5, <2>1, RelinkOK DEF Usable
<1>7. FsOK(fs') /\ SameData(G, fs') /\ SetOwner(G, fs', i, NoProc) /\ SameRefs(G, fs')
  <2>1. G.mem[i].ref # 0
    BY <1>3, <1>6 DEF SameRefs, Usable
  <2> QED
    BY <1>3, <1>4, <1>5, <1>6, <2>1, IunlockOK
<1>8. SameRefs(fs, fs') /\ SetOwner(fs, fs', i, NoProc)
  BY <1>6, <1>7 DEF SameRefs, SameOwners, SetOwner
<1>9. Relink(i, -1)
  BY <1>6, <1>7 DEF SameData, Relink, SetDisk
<1> QED
  BY <1>1, <1>2, <1>4, <1>7, <1>8, <1>9 DEF Uncounts

\* create(), with the parent locked: the name is there, an inode is taken, or none is left.
LEMMA CreateEffect ==
  ASSUME Inv, ~LostParent, NEW p \in Procs, create(p)
  PROVE  FsOK(fs') /\ (FindsThere(p) \/ (\E i \in Inums : Allocates(p, i)) \/ GivesUp)
<1>0. loc \in [Procs -> Local] /\ FsOK(fs)
  BY DEF Inv, Shapes
<1>1. /\ loc[p].pc \in {"create", "mkdir"} /\ Stage(loc[p]) = loc[p].pc /\ loc[p].dp # None
      /\ loc[p].path # <<>> /\ loc[p].path \in Seq(Entry)
  <2>1. loc[p].pc \in {"create", "mkdir"} /\ Stage(loc[p]) = loc[p].pc
    BY Zenon DEF create, At, Stage
  <2> QED
    BY Zenon, <2>1, Facts DEF Shape, HasDp, HasPath, Local
<1>2. PICK d : d = loc[p].dp
  OBVIOUS
<1>3. Usable(d) /\ d \in Inums /\ Unlocked(d) /\ MadeDir(fs, d)
  BY Zenon, <1>1, <1>2, Facts DEF create, Usable
<1>4. PICK F : F = ilock(fs, d, p)
  OBVIOUS
<1>5. Taken(F, d, p)
  BY <1>3, <1>4, Takes
<1>7. PICK n : n = Head(loc[p].path)
  OBVIOUS
<1>8. n \in Entry
  BY <1>1, <1>7
<1>9. PICK there : there = fs.ent[d][n]
  OBVIOUS
<1>10. F.ent = fs.ent /\ F.disk = fs.disk
  BY <1>5 DEF Taken, SameData
<1>11. PICK S : S = spare(F)
  OBVIOUS
<1>12. PICK i : i = CHOOSE j \in S : \A k \in S : j <= k
  BY Zenon
<1>13. CASE there # None
  <2>1. /\ lockedFree(F, d) /\ fs' = iget(iunlock(F, d), there) /\ UNCHANGED <<cwd, file>>
        /\ loc' = [loc EXCEPT ![p].pc = "iput", ![p].put = d, ![p].dp = None,
                              ![p].ip = there, ![p].ret = "createThere"]
    BY Zenon, <1>2, <1>4, <1>7, <1>9, <1>10, <1>13 DEF create
  <2>2. there \in Inums /\ Made(fs, there) /\ ~Fresh(there)
    <3>1. n = ".." => d = ROOTINO \/ Entries(d) # {}
      BY <1>1, <1>2, <1>7 DEF LostParent
    <3> QED
      BY <1>3, <1>8, <1>9, <1>13, <3>1, LookupUsable DEF Usable
  <2>3. PICK G : G = iunlock(F, d)
    OBVIOUS
  <2>4. Returned(G)
    BY <1>3, <1>5, <2>3, Returns
  <2>5. FsOK(fs') /\ SameData(G, fs') /\ SameOwners(G, fs') /\ AddRefs(G, fs', there, 1)
    BY <2>1, <2>2, <2>3, <2>4, Igets DEF Returned
  <2>6. SameData(fs, fs') /\ SameOwners(fs, fs') /\ AddRefs(fs, fs', there, 1)
    BY <2>4, <2>5 DEF Returned, SameData, SameOwners, SameRefs, AddRefs
  <2>7. Becomes(p, [loc[p] EXCEPT !.pc = "iput", !.put = d, !.dp = None,
                                  !.ip = there, !.ret = "createThere"])
    BY <1>0, <2>1 DEF Becomes, Local
  <2>8. panic' = panic
    BY <1>5, <2>1 DEF Taken, lockedFree
  <2> QED
    BY Zenon, <1>1, <1>2, <1>7, <1>9, <2>1, <2>2, <2>5, <2>6, <2>7, <2>8 DEF FindsThere, Gets, Rest
<1>14. CASE there = None /\ S = {}
  <2>1. panic' = "ialloc: no inodes" /\ UNCHANGED <<fs, loc>> /\ UNCHANGED <<cwd, file>>
    BY Zenon, <1>2, <1>4, <1>7, <1>9, <1>10, <1>11, <1>14 DEF create
  <2> QED
    BY Zenon, <1>0, <2>1 DEF GivesUp
<1>15. CASE there = None /\ S # {}
  <2>1. /\ lockedFree(F, d) /\ UNCHANGED <<cwd, file>>
        /\ fs' = iget([F EXCEPT !.disk[i] = [type |-> IF loc[p].op = "mkdir" THEN "dir" ELSE "file",
                                             nlink |-> 0, addrs |-> {}]], i)
        /\ loc' = [loc EXCEPT ![p].pc = "createNew", ![p].ip = i]
    BY Zenon, <1>2, <1>4, <1>7, <1>9, <1>10, <1>11, <1>12, <1>15 DEF create
  <2>2. i \in Inums /\ fs.disk[i].type = "free"
    <3>1. S \subseteq Nat
      BY <1>11, InumsAre DEF spare
    <3>2. (CHOOSE j \in S : \A k \in S : j <= k) \in S
      BY <1>15, <3>1, LeastOf
    <3> QED
      BY <1>10, <1>11, <1>12, <3>2 DEF spare
  <2>3. n \in Names
    <3>1. fs.ent[d]["."] = d /\ fs.ent[d][".."] # None
      BY <1>3 DEF Inv, Tree
    <3>2. d # None
      BY <1>3, InumsAre
    <3> QED
      BY <1>8, <1>9, <1>15, <3>1, <3>2 DEF Entry, Dots
  <2>4. PICK t \in {"file", "dir"} : t = TypeFor(loc[p].op)
    BY DEF TypeFor
  <2>k. PICK k \in Int : k = 0
    OBVIOUS
  <2>d. PICK new \in DInode : new = [type |-> t, nlink |-> k, addrs |-> {}]
    BY DEF DInode
  <2>5. PICK E : E = [F EXCEPT !.disk[i] = new]
    OBVIOUS
  <2>6. /\ FsOK(E) /\ E.ent = F.ent /\ E.used = F.used /\ E.mem = F.mem
        /\ SetDisk(F, E, i, new)
    <3>1. FsOK(F) /\ F.disk[i].type = "free" /\ i \in Inums
      BY <1>5, <1>10, <2>2 DEF Taken
    <3> QED
      BY <2>5, <3>1, IallocOK
  <2>7. fs' = iget(E, i)
    BY <2>1, <2>4, <2>k, <2>d, <2>5 DEF TypeFor
  <2>8. FsOK(fs') /\ SameData(E, fs') /\ SameOwners(E, fs') /\ AddRefs(E, fs', i, 1)
    BY <2>2, <2>6, <2>7, Igets
  <2>9. AddRefs(fs, fs', i, 1) /\ SetOwner(fs, fs', d, p)
    BY <1>5, <2>6, <2>8 DEF Taken, SameOwners, SetOwner, SameRefs, AddRefs
  <2>10. /\ SetDisk(fs, fs', i, [type |-> t, nlink |-> 0, addrs |-> {}])
         /\ fs'.ent = fs.ent /\ fs'.used = fs.used
    BY <1>5, <2>k, <2>d, <2>6, <2>8 DEF Taken, SameData, SetDisk
  <2>11. Becomes(p, [loc[p] EXCEPT !.pc = "createNew", !.ip = i])
    BY <1>0, <2>1 DEF Becomes, Local
  <2>12. panic' = panic
    BY <1>5, <2>1 DEF Taken, lockedFree
  <2> QED
    BY Zenon, <1>1, <1>2, <1>3, <1>7, <1>9, <1>15, <2>1, <2>2, <2>3, <2>4, <2>8, <2>9, <2>10, <2>11, <2>12
       DEF Allocates, Rest, Locks, Unlocked
<1> QED
  BY <1>13, <1>14, <1>15

\* create(), with parent and new inode locked: a file, a directory, or a full disk.
LEMMA CreateNewEffect ==
  ASSUME Inv, NEW p \in Procs, createNew(p)
  PROVE  FsOK(fs') /\ (GivesUp \/ MakesFile(p) \/ MakesDir(p))
<1>0. loc \in [Procs -> Local] /\ FsOK(fs) /\ RefsExact
  BY DEF Inv, Shapes
<1>1. /\ loc[p].pc = "createNew" /\ Stage(loc[p]) = "createNew" /\ loc[p].ip # None
      /\ Head(loc[p].path) \in Names /\ loc[p].op \in {"create", "mkdir"}
      /\ loc[p].ip \in Inums \cup {None}
  BY Zenon, Facts DEF createNew, At, Stage, Shape, HasIp, OfCreate, Local
<1>2. PICK d : d = loc[p].dp
  OBVIOUS
<1>3. PICK i : i = loc[p].ip
  OBVIOUS
<1>4. PICK n \in Names : n = Head(loc[p].path)
  BY <1>1
<1>5. /\ d \in Inums /\ Usable(d) /\ MadeDir(fs, d) /\ fs.mem[d].owner = p /\ fs.mem[d].valid
      /\ fs.mem[d].addrs # {}
  BY <1>1, <1>2, HeldDp DEF LocksDp
<1>6. i \in Inums /\ Unlocked(i)
  BY Zenon, <1>1, <1>3 DEF createNew
<1>7. i # d
  <2>1. p # NoProc
    BY FsAssumption
  <2> QED
    BY <1>5, <1>6, <2>1 DEF Unlocked
<1>8. /\ fs.disk[i] = [type |-> TypeFor(loc[p].op), nlink |-> 0, addrs |-> {}]
      /\ fs.ent[i] = Empty
  BY <1>1, <1>3 DEF Inv, FreshOK
<1>9. fs.disk[i].type = TypeFor(loc[p].op) /\ fs.disk[i].addrs = {} /\ fs.disk[i].type # "free"
  BY <1>8 DEF TypeFor
<1>10. fs.mem[i].ref # 0
  <2>1. 4 \in 1 .. 6
    OBVIOUS
  <2> QED
    BY <1>0, <1>3, <1>6, <2>1, PointersAre, RefPositive
<1>11. PICK L : L = ilock(fs, i, p)
  OBVIOUS
<1>12. Taken(L, i, p)
  BY <1>6, <1>9, <1>10, <1>11, TakesAny
<1>13. PICK F : F = iupdate([L EXCEPT !.mem[i].nlink = 1], i)
  OBVIOUS
<1>14. /\ FsOK(F) /\ F.ent = L.ent /\ F.used = L.used /\ SameOwners(L, F) /\ SameRefs(L, F)
       /\ \A j \in Inums : F.mem[j].valid = L.mem[j].valid
       /\ SetDisk(L, F, i, [type |-> L.disk[i].type, nlink |-> 1, addrs |-> L.disk[i].addrs])
  BY <1>6, <1>12, <1>13, FirstLinkOK DEF Taken
<1>15. /\ F.ent = fs.ent /\ F.used = fs.used /\ SameRefs(fs, F) /\ SetOwner(fs, F, i, p)
       /\ F.mem[i].valid /\ F.mem[d].valid
       /\ SetDisk(fs, F, i, [type |-> TypeFor(loc[p].op), nlink |-> 1, addrs |-> {}])
  <2>1. F.ent = fs.ent /\ F.used = fs.used /\ SameRefs(fs, F) /\ SetOwner(fs, F, i, p)
    BY <1>12, <1>14 DEF Taken, SameData, SameRefs, SameOwners, SetOwner
  <2>2. F.mem[i].valid /\ F.mem[d].valid
    BY <1>5, <1>6, <1>7, <1>12, <1>14 DEF Taken
  <2>3. SetDisk(fs, F, i, [type |-> TypeFor(loc[p].op), nlink |-> 1, addrs |-> {}])
    BY <1>9, <1>12, <1>14 DEF Taken, SameData, SetDisk
  <2> QED
    BY <2>1, <2>2, <2>3
<1>16. CASE loc[p].op = "mkdir" /\ free(fs) = {}
  <2>1. panic' = "balloc: out of blocks" /\ UNCHANGED <<fs, loc, cwd, file>>
    BY Zenon, <1>16 DEF createNew
  <2> QED
    BY Zenon, <1>0, <2>1 DEF GivesUp
<1>17. CASE ~(loc[p].op = "mkdir" /\ free(fs) = {})
  <2>1. PICK G : G = IF loc[p].op = "mkdir"
                       THEN dirlink(dirlink(relink(F, d, 1), i, ".", i), i, "..", d)
                       ELSE F
    OBVIOUS
  <2>2. PICK H : H = dirlink(G, d, n, i)
    BY Zenon
  <2>3. lockedFree(F, i) /\ Put(p, iunlock(H, d), "dp", "opened")
    BY Zenon, <1>2, <1>3, <1>4, <1>11, <1>13, <1>17, <2>1, <2>2 DEF createNew
  <2>4. fs' = iunlock(H, d) /\ Becomes(p, PutDp(loc[p], "opened")) /\ UNCHANGED <<cwd, file>>
    BY <1>0, <2>3, PutIs
  <2>5. panic' = panic
    <3>1. SlotOK(F, i)
      BY <1>6, <1>14 DEF FsOK
    <3> QED
      BY Zenon, <1>15, <2>3, <3>1 DEF lockedFree, SlotOK
  <2>6. ASSUME FsOK(G), SetOwner(fs, G, i, p), SameRefs(fs, G), G.mem[d].valid, G.disk[d].addrs # {}
        PROVE  /\ FsOK(fs') /\ SameRefs(fs, fs') /\ PassesLock(p)
               /\ fs'.disk = G.disk /\ fs'.used = G.used
               /\ fs'.ent = [G.ent EXCEPT ![d] = [G.ent[d] EXCEPT ![n] = i]]
    <3>1. G.mem[d].addrs # {}
      BY <1>5, <2>6 DEF FsOK, SlotOK
    <3>2. i \in Inums \cup {None} /\ n \in Entry
      BY <1>6 DEF Entry
    <3>3. /\ FsOK(H) /\ H.disk = G.disk /\ H.used = G.used /\ H.mem = G.mem
          /\ H.ent = [G.ent EXCEPT ![d] = [G.ent[d] EXCEPT ![n] = i]]
      BY <1>5, <2>2, <2>6, <3>1, <3>2, DirlinkOK
    <3>4. FsOK(fs') /\ SameData(H, fs') /\ SetOwner(H, fs', d, NoProc) /\ SameRefs(H, fs')
      <4>1. H.mem[d].ref # 0
        BY <1>5, <2>6, <3>3 DEF SameRefs, Usable
      <4> QED
        BY <1>5, <2>4, <3>3, <4>1, IunlockOK
    <3>5. SameRefs(fs, fs')
      BY <2>6, <3>3, <3>4 DEF SameRefs
    <3>6. PassesLock(p)
      BY <1>2, <1>3, <1>6, <1>7, <2>6, <3>3, <3>4 DEF SetOwner, PassesLock, Unlocked
    <3> QED
      BY <3>3, <3>4, <3>5, <3>6 DEF SameData
  <2>7. CASE loc[p].op = "create"
    <3>1. G = F
      BY <2>1, <2>7
    <3>2. F.disk[d].addrs # {}
      BY <1>5, <1>6, <1>7, <1>15 DEF SetDisk, MadeDir, Made
    <3>3. /\ FsOK(fs') /\ SameRefs(fs, fs') /\ PassesLock(p)
          /\ fs'.disk = F.disk /\ fs'.used = F.used
          /\ fs'.ent = [F.ent EXCEPT ![d] = [F.ent[d] EXCEPT ![n] = i]]
      BY <1>14, <1>15, <2>6, <3>1, <3>2
    <3>4. SetDisk(fs, fs', i, [type |-> "file", nlink |-> 1, addrs |-> {}])
      BY Zenon, <1>15, <2>7, <3>3 DEF SetDisk, TypeFor
    <3> QED
      BY <1>1, <1>2, <1>3, <1>4, <1>15, <2>4, <2>5, <2>7, <3>3, <3>4 DEF MakesFile, Enters, Rest
  <2>8. CASE loc[p].op = "mkdir"
    <3>0. fs.disk \in [Inums -> DInode] /\ fs.ent \in [Inums -> [Entry -> Inums \cup {None}]]
      BY <1>0 DEF FsOK, FileSystems
    <3>1. PICK A : A = relink(F, d, 1)
      OBVIOUS
    <3>2. /\ FsOK(A) /\ A.ent = F.ent /\ A.used = F.used /\ SameOwners(F, A) /\ SameRefs(F, A)
          /\ \A j \in Inums : A.mem[j].valid = F.mem[j].valid
          /\ SetDisk(F, A, d, [type |-> F.disk[d].type, nlink |-> F.disk[d].nlink + 1,
                               addrs |-> F.disk[d].addrs])
      <4>1. 1 \in Int /\ F.mem[d].ref # 0
        BY <1>5, <1>15 DEF SameRefs, Usable
      <4> QED
        BY <1>5, <1>14, <1>15, <3>1, <4>1, RelinkOK
    <3>3. F.disk[d] = fs.disk[d] /\ fs.disk[d].type = "dir"
      BY <1>5, <1>6, <1>7, <1>15, <3>0 DEF SetDisk, MadeDir
    <3>4. /\ A.disk = [fs.disk EXCEPT ![i] = [type |-> "dir", nlink |-> 1, addrs |-> {}],
                                      ![d] = [type |-> "dir", nlink |-> fs.disk[d].nlink + 1,
                                              addrs |-> fs.disk[d].addrs]]
      BY <1>15, <2>8, <3>2, <3>3 DEF SetDisk, TypeFor
    <3>5. A.mem[i].addrs = {} /\ A.mem[i].valid /\ A.mem[i].ref # 0 /\ A.mem[d].valid
      <4>1. A.mem[i].valid /\ A.mem[d].valid
        BY <1>5, <1>6, <1>15, <3>2
      <4>2. A.disk[i].addrs = {}
        BY <1>5, <1>6, <1>7, <3>0, <3>4
      <4>3. SlotOK(A, i)
        BY <1>6, <3>2 DEF FsOK
      <4>4. A.mem[i].ref # 0
        BY <1>6, <1>10, <1>15, <3>2 DEF SameRefs
      <4> QED
        BY <4>1, <4>2, <4>3, <4>4 DEF SlotOK
    <3>6. PICK B : B = balloc(A, i)
      OBVIOUS
    <3>7. free(A) # {} /\ free(A) = free(fs)
      BY <1>15, <1>17, <2>8, <3>2 DEF free
    <3>8. /\ FsOK(B) /\ B.ent = A.ent /\ SameOwners(A, B) /\ SameRefs(A, B)
          /\ \A j \in Inums : B.mem[j].valid = A.mem[j].valid
          /\ \E k \in free(A) :
               /\ B.used = A.used \cup {k}
               /\ SetDisk(A, B, i, [type |-> A.disk[i].type, nlink |-> A.disk[i].nlink,
                                    addrs |-> A.disk[i].addrs \cup {k}])
      <4>1. FsOK(A) /\ i \in Inums /\ A.mem[i].valid /\ A.mem[i].ref # 0 /\ free(A) # {}
        BY <1>6, <3>2, <3>5, <3>7
      <4> QED
        BY <3>6, <4>1, BallocOK
    <3>9. PICK k \in free(fs) :
               /\ B.used = A.used \cup {k}
               /\ SetDisk(A, B, i, [type |-> A.disk[i].type, nlink |-> A.disk[i].nlink,
                                    addrs |-> A.disk[i].addrs \cup {k}])
      BY <3>7, <3>8
    <3>10. B.disk = [fs.disk EXCEPT ![i] = [type |-> "dir", nlink |-> 1, addrs |-> {k}],
                                    ![d] = [type |-> "dir", nlink |-> fs.disk[d].nlink + 1,
                                            addrs |-> fs.disk[d].addrs]]
      <4>1. A.disk[i] = [type |-> "dir", nlink |-> 1, addrs |-> {}]
        BY <1>5, <1>6, <1>7, <3>0, <3>4
      <4>2. /\ A.disk[i].type = "dir" /\ A.disk[i].nlink = 1 /\ A.disk[i].addrs \cup {k} = {k}
        BY <4>1
      <4>3. B.disk = [A.disk EXCEPT ![i] = [type |-> "dir", nlink |-> 1, addrs |-> {k}]]
        BY <3>9, <4>2 DEF SetDisk
      <4> HIDE <3>9
      <4>4. PICK x : x = [type |-> "dir", nlink |-> fs.disk[d].nlink + 1, addrs |-> fs.disk[d].addrs]
        OBVIOUS
      <4>5. PICK y : y = [type |-> "dir", nlink |-> 1, addrs |-> {k}]
        OBVIOUS
      <4>6. PICK z : z = [type |-> "dir", nlink |-> 1, addrs |-> {}]
        OBVIOUS
      <4>7. A.disk = [fs.disk EXCEPT ![i] = z, ![d] = x] /\ B.disk = [A.disk EXCEPT ![i] = y]
        BY <3>4, <4>3, <4>4, <4>5, <4>6
      <4>8. B.disk = [fs.disk EXCEPT ![i] = y, ![d] = x]
        BY <1>7, <3>0, <4>7
      <4> QED
        BY <4>4, <4>5, <4>8
    <3>11. PICK C : C = dirlink(A, i, ".", i)
      OBVIOUS
    <3>12. C = [B EXCEPT !.ent[i]["."] = i]
      BY <3>5, <3>6, <3>11 DEF dirlink
    <3>13. /\ FsOK(C) /\ C.disk = B.disk /\ C.used = B.used /\ C.mem = B.mem
           /\ C.ent = [B.ent EXCEPT ![i] = [B.ent[i] EXCEPT !["."] = i]]
      <4>1. "." \in Entry /\ i \in Inums \cup {None}
        BY <1>6 DEF Entry, Dots
      <4> QED
        BY <1>6, <3>8, <3>12, <4>1, SetEntryOK
    <3>14. C.mem[i].addrs # {}
      <4>1. C.disk[i] = [type |-> "dir", nlink |-> 1, addrs |-> {k}]
        BY Zenon, <1>5, <1>6, <1>7, <3>0, <3>10, <3>13
      <4>2. C.disk[i].addrs = {k}
        BY <4>1
      <4>3. SlotOK(C, i) /\ C.mem[i].valid
        BY <1>6, <3>5, <3>8, <3>13 DEF FsOK
      <4> QED
        BY <4>2, <4>3 DEF SlotOK
    <3>15. G = dirlink(C, i, "..", d)
      BY <2>1, <2>8, <3>1, <3>11
    <3>16. /\ FsOK(G) /\ G.disk = C.disk /\ G.used = C.used /\ G.mem = C.mem
           /\ G.ent = [C.ent EXCEPT ![i] = [C.ent[i] EXCEPT ![".."] = d]]
      <4>1. ".." \in Entry /\ d \in Inums \cup {None}
        BY <1>5 DEF Entry, Dots
      <4> QED
        BY <1>6, <3>13, <3>14, <3>15, <4>1, DirlinkOK
    <3>17. SetOwner(fs, G, i, p) /\ SameRefs(fs, G) /\ G.mem[d].valid
      BY <1>5, <1>15, <3>2, <3>5, <3>8, <3>13, <3>16 DEF SetOwner, SameOwners, SameRefs
    <3>18. G.disk[d].addrs # {}
      <4>1. G.disk[d] = [type |-> "dir", nlink |-> fs.disk[d].nlink + 1, addrs |-> fs.disk[d].addrs]
        BY <1>5, <1>6, <1>7, <3>0, <3>10, <3>13, <3>16
      <4> QED
        BY <1>5, <4>1 DEF MadeDir, Made
    <3>19. /\ FsOK(fs') /\ SameRefs(fs, fs') /\ PassesLock(p)
           /\ fs'.disk = G.disk /\ fs'.used = G.used
           /\ fs'.ent = [G.ent EXCEPT ![d] = [G.ent[d] EXCEPT ![n] = i]]
      BY <2>6, <3>16, <3>17, <3>18
    <3>20. fs'.ent = [fs.ent EXCEPT ![i] = [Empty EXCEPT !["."] = i, ![".."] = d],
                                    ![d] = [fs.ent[d] EXCEPT ![n] = i]]
      <4>1. B.ent = fs.ent
        BY <1>15, <3>2, <3>8
      <4>2. PICK x : x = [Empty EXCEPT !["."] = i]
        OBVIOUS
      <4>3. PICK y : y = [Empty EXCEPT !["."] = i, ![".."] = d]
        OBVIOUS
      <4>4. C.ent = [fs.ent EXCEPT ![i] = x]
        BY <1>8, <3>13, <4>1, <4>2
      <4>5. C.ent[i] = x /\ y = [x EXCEPT ![".."] = d]
        BY <1>6, <3>0, <4>2, <4>3, <4>4
      <4>6. G.ent = [fs.ent EXCEPT ![i] = y]
        BY <1>6, <3>0, <3>16, <4>4, <4>5
      <4>7. G.ent[d] = fs.ent[d]
        BY <1>5, <1>7, <3>0, <4>6
      <4>8. fs'.ent = [G.ent EXCEPT ![d] = [fs.ent[d] EXCEPT ![n] = i]]
        BY <3>19, <4>7
      <4> QED
        BY <4>3, <4>6, <4>8, <3>0
    <3>21. fs'.used = fs.used \cup {k}
      BY <1>15, <3>2, <3>9, <3>13, <3>16, <3>19
    <3>22. fs'.disk = B.disk
      BY <3>13, <3>16, <3>19
    <3> QED
      BY Zenon, <1>1, <1>2, <1>3, <1>4, <2>4, <2>5, <2>8, <3>10, <3>19, <3>20, <3>21, <3>22 DEF MakesDir, Rest
  <2> QED
    BY <1>1, <2>7, <2>8
<1> QED
  BY <1>16, <1>17

\* An action that locks ip.
LEMMA IpTaken ==
  ASSUME Inv, NEW p \in Procs, loc[p].pc \in {"createThere", "open", "chdir"}, Unlocked(loc[p].ip)
  PROVE  /\ Stage(loc[p]) = loc[p].pc /\ loc[p].ip \in Inums /\ loc \in [Procs -> Local]
         /\ Taken(ilock(fs, loc[p].ip, p), loc[p].ip, p)
         /\ Returned(iunlock(ilock(fs, loc[p].ip, p), loc[p].ip))
<1>1. Stage(loc[p]) = loc[p].pc /\ loc[p].ip # None
  BY Facts DEF Stage, Shape, HasIp
<1>2. Usable(loc[p].ip) /\ loc[p].ip \in Inums
  BY <1>1, Facts DEF Usable
<1>3. PICK F : F = ilock(fs, loc[p].ip, p)
  OBVIOUS
<1>4. Taken(F, loc[p].ip, p)
  BY <1>2, <1>3, Takes
<1>5. Returned(iunlock(F, loc[p].ip))
  BY <1>2, <1>4, Returns
<1> QED
  BY <1>1, <1>2, <1>3, <1>4, <1>5 DEF Inv, Shapes

\* create() of a name that exists: locked if it is a file.
LEMMA CreateThereEffect ==
  ASSUME Inv, NEW p \in Procs, createThere(p)
  PROVE  FsOK(fs') /\ (PutsIp(p) \/ LocksFound(p))
<1>1. loc[p].pc = "createThere" /\ Unlocked(loc[p].ip)
  BY DEF createThere, At
<1>2. PICK i : i = loc[p].ip
  OBVIOUS
<1>3. PICK F : F = ilock(fs, i, p)
  OBVIOUS
<1>4. /\ Stage(loc[p]) = "createThere" /\ i \in Inums /\ loc \in [Procs -> Local]
      /\ Taken(F, i, p) /\ Returned(iunlock(F, i))
  BY <1>1, <1>2, <1>3, IpTaken
<1>5. panic' = panic
  BY <1>2, <1>3, <1>4 DEF createThere, lockedFree, Taken
<1>6. CASE loc[p].op = "create" /\ F.mem[i].type = "file"
  <2>1. fs' = F /\ Becomes(p, [loc[p] EXCEPT !.pc = "opened"]) /\ UNCHANGED <<cwd, file>>
    BY <1>2, <1>3, <1>4, <1>6 DEF createThere, Goto, Becomes, Local
  <2>2. FsOK(fs') /\ SetOwner(fs, fs', i, p) /\ SameRefs(fs, fs') /\ SameData(fs, fs')
    BY <1>4, <2>1 DEF Taken
  <2> QED
    BY <1>1, <1>2, <1>5, <1>6, <2>1, <2>2 DEF LocksFound, Locks, Unlocked, Rest
<1>7. CASE ~(loc[p].op = "create" /\ F.mem[i].type = "file")
  <2>1. Put(p, iunlock(F, i), "ip", "user")
    BY <1>2, <1>3, <1>7 DEF createThere
  <2>2. fs' = iunlock(F, i) /\ Becomes(p, PutIp(loc[p], "user")) /\ UNCHANGED <<cwd, file>>
    BY <1>4, <2>1, PutIs
  <2> QED
    BY <1>1, <1>4, <1>5, <2>2 DEF Returned, PutsIp, Quiet, Rest
<1> QED
  BY <1>6, <1>7

\* sys_open() of a name that exists.
LEMMA OpenEffect ==
  ASSUME Inv, NEW p \in Procs, open(p)
  PROVE  FsOK(fs') /\ (PutsIp(p) \/ LocksFound(p))
<1>1. loc[p].pc = "open" /\ Unlocked(loc[p].ip)
  BY DEF open, At
<1>2. PICK i : i = loc[p].ip
  OBVIOUS
<1>3. PICK F : F = ilock(fs, i, p)
  OBVIOUS
<1>4. /\ Stage(loc[p]) = "open" /\ i \in Inums /\ loc \in [Procs -> Local]
      /\ Taken(F, i, p) /\ Returned(iunlock(F, i))
  BY <1>1, <1>2, <1>3, IpTaken
<1>5. panic' = panic
  BY <1>2, <1>3, <1>4 DEF open, lockedFree, Taken
<1>6. loc[p].op # "link"
  BY <1>4, Facts DEF Shape
<1>7. CASE F.mem[i].type = "dir"
  <2>1. Put(p, iunlock(F, i), "ip", "user")
    BY <1>2, <1>3, <1>7 DEF open
  <2>2. fs' = iunlock(F, i) /\ Becomes(p, PutIp(loc[p], "user")) /\ UNCHANGED <<cwd, file>>
    BY <1>4, <2>1, PutIs
  <2> QED
    BY <1>1, <1>4, <1>5, <2>2 DEF Returned, PutsIp, Quiet, Rest
<1>8. CASE F.mem[i].type # "dir"
  <2>1. fs' = F /\ Becomes(p, [loc[p] EXCEPT !.pc = "opened"]) /\ UNCHANGED <<cwd, file>>
    BY <1>2, <1>3, <1>4, <1>8 DEF open, Goto, Becomes, Local
  <2>2. FsOK(fs') /\ SetOwner(fs, fs', i, p) /\ SameRefs(fs, fs') /\ SameData(fs, fs')
    BY <1>4, <2>1 DEF Taken
  <2> QED
    BY <1>1, <1>2, <1>5, <1>6, <2>1, <2>2 DEF LocksFound, Locks, Unlocked, Rest
<1> QED
  BY <1>7, <1>8

\* The end of sys_open(): a descriptor, if there is one.
LEMMA OpenedEffect ==
  ASSUME Inv, NEW p \in Procs, opened(p)
  PROVE  FsOK(fs') /\ (UnlocksIp(p) \/ Opens(p))
<1>1. loc[p].pc = "opened" /\ Stage(loc[p]) \in LocksIp /\ panic' = panic
  BY DEF opened, At, Stage, LocksIp
<1>2. PICK i : i = loc[p].ip
  OBVIOUS
<1>3. i \in Inums /\ FsOK(fs) /\ fs.mem[i].ref # 0 /\ loc \in [Procs -> Local]
  BY <1>1, <1>2, HeldIp DEF Usable, Inv, Shapes
<1>4. PICK G : G = iunlock(fs, i)
  OBVIOUS
<1>5. FsOK(G) /\ SetOwner(fs, G, i, NoProc) /\ SameRefs(fs, G) /\ SameData(fs, G)
  BY <1>3, <1>4, IunlockOK
<1>6. CASE loc[p].op = "mkdir" \/ file[p] # None
  <2>1. Put(p, G, "ip", "user")
    BY <1>2, <1>4, <1>6 DEF opened
  <2>2. fs' = G /\ Becomes(p, PutIp(loc[p], "user")) /\ UNCHANGED <<cwd, file>>
    BY <1>3, <2>1, PutIs
  <2> QED
    BY <1>1, <1>2, <1>5, <2>2 DEF UnlocksIp, Rest
<1>7. CASE ~(loc[p].op = "mkdir" \/ file[p] # None)
  <2>1. fs' = G /\ Becomes(p, Idle) /\ file' = [file EXCEPT ![p] = i] /\ UNCHANGED cwd
    BY <1>2, <1>4, <1>7 DEF opened, Becomes
  <2> QED
    BY <1>1, <1>2, <1>5, <1>7, <2>1 DEF Opens
<1> QED
  BY <1>6, <1>7

\* sys_chdir(): the old directory is put, if the new one is a directory.
LEMMA ChdirEffect ==
  ASSUME Inv, NEW p \in Procs, chdir(p)
  PROVE  FsOK(fs') /\ (PutsIp(p) \/ LeavesDir(p))
<1>1. loc[p].pc = "chdir" /\ Unlocked(loc[p].ip)
  BY DEF chdir, At
<1>2. PICK i : i = loc[p].ip
  OBVIOUS
<1>3. PICK F : F = ilock(fs, i, p)
  OBVIOUS
<1>4. i \in Inums /\ loc \in [Procs -> Local] /\ Taken(F, i, p) /\ Returned(iunlock(F, i))
  BY <1>1, <1>2, <1>3, IpTaken
<1>5. panic' = panic
  BY <1>2, <1>3, <1>4 DEF chdir, lockedFree, Taken
<1>6. CASE F.mem[i].type # "dir"
  <2>1. Put(p, iunlock(F, i), "ip", "user")
    BY <1>2, <1>3, <1>6 DEF chdir
  <2>2. fs' = iunlock(F, i) /\ Becomes(p, PutIp(loc[p], "user")) /\ UNCHANGED <<cwd, file>>
    BY <1>4, <2>1, PutIs
  <2> QED
    BY <1>1, <1>4, <1>5, <2>2 DEF Returned, PutsIp, Quiet, Rest
<1>7. CASE F.mem[i].type = "dir"
  <2>1. /\ fs' = iunlock(F, i) /\ UNCHANGED <<cwd, file>>
        /\ loc' = [loc EXCEPT ![p].pc = "iput", ![p].put = cwd[p], ![p].ret = "chdirDone"]
    BY <1>2, <1>3, <1>7 DEF chdir
  <2>2. Becomes(p, [loc[p] EXCEPT !.pc = "iput", !.put = cwd[p], !.ret = "chdirDone"])
    BY <1>4, <2>1 DEF Becomes, Local
  <2> QED
    BY <1>1, <1>4, <1>5, <2>1, <2>2 DEF Returned, LeavesDir, Quiet, Rest
<1> QED
  BY <1>6, <1>7

\* The end of sys_chdir().
LEMMA ChdirDoneEffect ==
  ASSUME Inv, NEW p \in Procs, chdirDone(p)
  PROVE  FsOK(fs') /\ EntersDir(p)
<1>1. FsOK(fs) /\ fs' = fs
  BY DEF chdirDone, Inv
<1>2. Quiet
  BY <1>1 DEF Quiet, SameData, SameRefs, SameOwners
<1> QED
  BY <1>1, <1>2 DEF chdirDone, At, EntersDir, Becomes

\* filewrite() that takes a block, or finds none.
LEMMA WriteEffect ==
  ASSUME Inv, NEW p \in Procs, write(p)
  PROVE  FsOK(fs') /\ (GivesUp \/ Writes(p))
<1>1. loc[p].pc = "user" /\ file[p] # None
  BY Zenon DEF write, At
<1>2. PICK i : i = file[p]
  OBVIOUS
<1>3. Usable(i) /\ i \in Inums /\ Unlocked(i) /\ i # None
  BY Zenon, <1>1, <1>2, Facts DEF write, Usable
<1>4. PICK F : F = ilock(fs, i, p)
  OBVIOUS
<1>5. Taken(F, i, p)
  BY <1>3, <1>4, Takes
<1>6. CASE free(fs) = {}
  BY Zenon, <1>6 DEF write, GivesUp, Inv
<1>7. CASE free(fs) # {}
  <2>1. lockedFree(F, i) /\ Goto(p, iunlock(balloc(F, i), i), "user")
    BY Zenon, <1>2, <1>4, <1>7 DEF write
  <2>2. panic' = panic
    BY <1>5, <2>1 DEF lockedFree, Taken
  <2>3. UNCHANGED loc
    <3>1. loc' = [loc EXCEPT ![p].pc = "user"] /\ loc \in [Procs -> Local]
      BY <2>1 DEF Goto, Inv, Shapes
    <3>2. [loc[p] EXCEPT !.pc = "user"] = loc[p]
      BY <1>1, <3>1 DEF Local
    <3> QED
      BY <3>1, <3>2
  <2>4. PICK G : G = balloc(F, i)
    OBVIOUS
  <2>5. free(F) = free(fs)
    BY <1>5 DEF Taken, SameData, free
  <2>6. /\ FsOK(G) /\ G.ent = F.ent /\ SameOwners(F, G) /\ SameRefs(F, G)
        /\ \E k \in free(F) :
             /\ G.used = F.used \cup {k}
             /\ SetDisk(F, G, i, [type |-> F.disk[i].type, nlink |-> F.disk[i].nlink,
                                  addrs |-> F.disk[i].addrs \cup {k}])
    <3>1. FsOK(F) /\ F.mem[i].valid /\ F.mem[i].ref # 0 /\ free(F) # {}
      BY <1>5, <1>7, <2>5 DEF Taken
    <3> QED
      BY <1>3, <2>4, <3>1, BallocOK
  <2>7. FsOK(fs') /\ SameData(G, fs') /\ SetOwner(G, fs', i, NoProc) /\ SameRefs(G, fs')
    <3>1. G.mem[i].ref # 0
      BY <1>3, <1>5, <2>6 DEF Taken, SameRefs
    <3>2. fs' = iunlock(G, i)
      BY <2>1, <2>4 DEF Goto
    <3> QED
      BY <1>3, <2>6, <3>1, <3>2, IunlockOK
  <2>8. SameRefs(fs, fs')
    BY <1>5, <2>6, <2>7 DEF Taken, SameRefs
  <2>9. SameOwners(fs, fs')
    BY <1>3, <1>5, <2>6, <2>7 DEF Taken, SameOwners, SetOwner, Unlocked
  <2>10. fs'.ent = fs.ent
    BY <1>5, <2>6, <2>7 DEF Taken, SameData
  <2>11. \E k \in free(fs) :
           /\ fs'.used = fs.used \cup {k}
           /\ SetDisk(fs, fs', i, [type |-> fs.disk[i].type, nlink |-> fs.disk[i].nlink,
                                   addrs |-> fs.disk[i].addrs \cup {k}])
    <3>1. PICK k \in free(fs) :
             /\ G.used = F.used \cup {k}
             /\ SetDisk(F, G, i, [type |-> F.disk[i].type, nlink |-> F.disk[i].nlink,
                                  addrs |-> F.disk[i].addrs \cup {k}])
      BY <2>5, <2>6
    <3>2. fs'.used = fs.used \cup {k}
      BY <1>5, <2>7, <3>1 DEF Taken, SameData
    <3>3. F.disk = fs.disk /\ fs'.disk = G.disk
      BY <1>5, <2>7 DEF Taken, SameData
    <3>4. SetDisk(fs, fs', i, [type |-> fs.disk[i].type, nlink |-> fs.disk[i].nlink,
                               addrs |-> fs.disk[i].addrs \cup {k}])
      BY <3>1, <3>3 DEF SetDisk
    <3> QED
      BY <3>2, <3>4
  <2>12. Rest
    BY <2>1, <2>2 DEF Goto, Rest
  <2> QED
    BY <1>1, <1>2, <1>3, <2>3, <2>7, <2>8, <2>9, <2>10, <2>11, <2>12 DEF Writes
<1> QED
  BY <1>6, <1>7

\* fileclose().
LEMMA CloseEffect ==
  ASSUME Inv, NEW p \in Procs, close(p)
  PROVE  FsOK(fs') /\ Closes(p)
<1>1. FsOK(fs) /\ fs' = fs /\ loc \in [Procs -> Local]
  BY DEF close, Inv, Shapes
<1>2. Quiet
  BY <1>1 DEF Quiet, SameData, SameRefs, SameOwners
<1>3. Becomes(p, [loc[p] EXCEPT !.pc = "iput", !.put = file[p]])
  BY <1>1 DEF close, Becomes, Local
<1> QED
  BY <1>1, <1>2, <1>3 DEF close, At, Closes

\* Every step has one of the effects.
LEMMA Effects ==
  ASSUME Inv, ~LostParent, Next
  PROVE  \E p \in Procs : FsOK(fs') /\ (Effect(p) \/ GivesUp)
<1>1. PICK p \in Procs :
          \/ \E c \in Calls : syscall(p, c)
          \/ walk(p) \/ iput(p) \/ iputDrop(p)
          \/ link(p) \/ linkNew(p) \/ linkExists(p) \/ linkDone(p) \/ linkBad(p)
          \/ unlink(p) \/ unlinkEntry(p) \/ unlinkBad(p) \/ unlinkLast(p)
          \/ create(p) \/ createNew(p) \/ createThere(p)
          \/ open(p) \/ opened(p) \/ chdir(p) \/ chdirDone(p) \/ write(p) \/ close(p)
  BY DEF Next
<1>2. CASE \E c \in Calls : syscall(p, c)
  BY <1>2, SyscallEffect DEF Effect
<1>3. CASE walk(p) \/ iput(p) \/ iputDrop(p)
  BY <1>3, WalkEffect, IputEffect, IputDropEffect DEF Effect
<1>4. CASE link(p) \/ linkNew(p) \/ linkExists(p) \/ linkDone(p) \/ linkBad(p)
  BY <1>4, LinkEffect, LinkNewEffect, LinkExistsEffect, LinkDoneEffect, LinkBadEffect DEF Effect
<1>5. CASE unlink(p) \/ unlinkEntry(p) \/ unlinkBad(p) \/ unlinkLast(p)
  BY <1>5, UnlinkEffect, UnlinkEntryEffect, LinkExistsEffect, UnlinkLastEffect DEF Effect
<1>6. CASE create(p) \/ createNew(p) \/ createThere(p)
  BY <1>6, CreateEffect, CreateNewEffect, CreateThereEffect DEF Effect
<1>7. CASE open(p) \/ opened(p) \/ chdir(p) \/ chdirDone(p) \/ write(p) \/ close(p)
  BY <1>7, OpenEffect, OpenedEffect, ChdirEffect, ChdirDoneEffect, WriteEffect, CloseEffect DEF Effect
<1> QED
  BY <1>1, <1>2, <1>3, <1>4, <1>5, <1>6, <1>7
-----------------------------------------------------------------------------
\* The invariant after a step of p.

\* How a step of p changes loc.
LEMMA View ==
  ASSUME loc \in [Procs -> Local], NEW p \in Procs, NEW M, Becomes(p, M)
  PROVE  /\ loc'[p] = M /\ \A q \in Procs : q # p => loc'[q] = loc[q]
         /\ DOMAIN loc' = Procs /\ (M \in Local => loc' \in [Procs -> Local])
BY DEF Becomes

\* What a process knows afterwards, it knew before.
Follows(L, M) ==
    /\ Stage(M) = "createNew" => Stage(L) = "createNew" /\ M.ip = L.ip /\ M.op = L.op
    /\ M.dp # None => M.dp = L.dp
    /\ Linking(M) => Linking(L) /\ M.ip = L.ip
    /\ Stage(M) = "unlinkEntry" => /\ Stage(L) = "unlinkEntry" /\ M.dp = L.dp /\ M.ip = L.ip
                                   /\ M.path = L.path
    /\ Counted(M) => Counted(L) /\ M.ip = L.ip

\* Idle is the state of a process between calls,
LEMMA IdleShape == Shape(Idle) /\ Idle \in Local
<1>1. Idle \in Local
  BY DEF Idle, Local, Labels
<1> QED
  BY <1>1 DEF Idle, Shape, Stage, HasDp, HasIp, HasPath, OfLink, OfCreate

\* in which it knows nothing.
LEMMA FollowsIdle ==
  ASSUME NEW L
  PROVE  Follows(L, Idle)
BY DEF Follows, Idle, Stage, Linking, Counted

\* The calls of iput().
LEMMA PutIpShape ==
  ASSUME NEW L, Shape(L), L.ip # None, L.pc \notin {"iput", "drop"},
         NEW r \in {"user", "unlinkBad"}, L.dp # None <=> r = "unlinkBad",
         L.at = None
  PROVE  Shape(PutIp(L, r)) /\ PutIp(L, r) \in Local /\ Follows(L, PutIp(L, r))
<1>1. L \in Local
  BY DEF Shape
<1>2. PICK M \in Local : M = PutIp(L, r)
  <2>1. r \in Labels /\ "iput" \in Labels
    BY DEF Labels
  <2>2. PutIp(L, r) \in Local
    BY <1>1, <2>1 DEF PutIp, Local
  <2> QED
    BY <2>2
<1>3. /\ M.pc = "iput" /\ M.put = L.ip /\ M.ret = r /\ M.ip = None /\ M.op = L.op /\ M.path = L.path
      /\ M.new = L.new /\ M.at = L.at /\ M.dp = L.dp
  BY <1>1, <1>2 DEF PutIp, Local
<1>4. Stage(M) = r
  BY <1>3 DEF Stage
<1>5. Shape(M)
  BY <1>1, <1>3, <1>4 DEF Shape, HasDp, HasIp, HasPath, OfLink, OfCreate
<1>6. Follows(L, M)
  BY <1>3, <1>4 DEF Follows, Linking, Counted
<1> QED
  BY <1>2, <1>5, <1>6

\* What is left after iput() of the parent.
LEMMA PutDpShape ==
  ASSUME NEW L, Shape(L), L.dp # None, L.pc \notin {"iput", "drop"},
         NEW r \in {"user", "linkBad", "linkDone", "unlinkLast", "opened"}, L.at = None,
         r = "user" => L.ip = None, r # "user" => L.ip # None,
         r \in {"linkBad", "linkDone"} => L.op = "link", r = "opened" => L.op # "link",
         r = "linkBad" => Linking(L)
  PROVE  /\ Shape(PutDp(L, r)) /\ PutDp(L, r) \in Local
         /\ r # "unlinkLast" => Follows(L, PutDp(L, r))
<1>1. L \in Local
  BY DEF Shape
<1>2. PICK M \in Local : M = PutDp(L, r)
  <2>1. r \in Labels /\ "iput" \in Labels
    BY DEF Labels
  <2>2. PutDp(L, r) \in Local
    BY <1>1, <2>1 DEF PutDp, Local
  <2> QED
    BY <2>2
<1>3. /\ M.pc = "iput" /\ M.put = L.dp /\ M.ret = r /\ M.dp = None /\ M.op = L.op /\ M.path = L.path
      /\ M.new = L.new /\ M.at = L.at /\ M.ip = L.ip
  BY <1>1, <1>2 DEF PutDp, Local
<1>4. Stage(M) = r
  BY <1>3 DEF Stage
<1>5. Shape(M)
  BY <1>1, <1>3, <1>4 DEF Shape, HasDp, HasIp, HasPath, OfLink, OfCreate
<1>6. r # "unlinkLast" => Follows(L, M)
  BY <1>3, <1>4 DEF Follows, Linking, Counted
<1> QED
  BY <1>2, <1>5, <1>6

\* The other changes of the local variables.
Fits(L, M) == M \in Local /\ Shape(M) /\ Follows(L, M)

\* The local variables keep their shape when a call begins.
LEMMA SyscallFits ==
  ASSUME NEW L, L = Idle, NEW c \in Calls, NEW i \in Inums,
         NEW M, M = [Idle EXCEPT
                     !.pc = IF c.path = <<>> THEN c.op ELSE "walk", !.op = c.op,
                     !.path = c.path, !.new = c.new,
                     !.at = IF c.path = <<>> THEN None ELSE i,
                     !.ip = IF c.path = <<>> THEN i ELSE None]
  PROVE  Fits(L, M)
<1>1. /\ c.op \in {"link", "unlink", "create", "mkdir", "open", "chdir"}
      /\ c.path \in Seq(Entry) /\ c.new \in Seq(Entry)
      /\ c.op \in {"unlink", "create", "mkdir"} => c.path # <<>>
      /\ c.op = "link" => c.new # <<>>
  BY FsAssumption DEF Entry
<1>2. /\ M.pc = (IF c.path = <<>> THEN c.op ELSE "walk") /\ M.op = c.op /\ M.path = c.path
      /\ M.new = c.new /\ M.at = (IF c.path = <<>> THEN None ELSE i)
      /\ M.ip = (IF c.path = <<>> THEN i ELSE None)
      /\ M.dp = None /\ M.put = None /\ M.ret = "user"
  BY DEF Idle
<1>3. M \in Local
  <2>1. Idle \in Local /\ M.pc \in Labels
    BY <1>1, <1>2, IdleShape DEF Labels
  <2> QED
    BY Zenon, <1>1, <1>2, <2>1 DEF Idle, Local
<1>4. Stage(M) = M.pc
  BY <1>1, <1>2 DEF Stage
<1>5. i # None
  BY InumsAre
<1>6. Shape(M)
  <2>1. CASE c.path = <<>>
    <3>1. M.pc = c.op /\ c.op \in {"link", "open", "chdir"} /\ M.at = None /\ M.ip = i
      BY <1>1, <1>2, <2>1
    <3> QED
      BY <1>1, <1>2, <1>3, <1>4, <1>5, <3>1 DEF Shape, HasDp, HasIp, HasPath, OfLink, OfCreate
  <2>2. CASE c.path # <<>>
    <3>1. M.pc = "walk" /\ M.at = i /\ M.ip = None
      BY <1>2, <2>2
    <3> QED
      BY <1>1, <1>2, <1>3, <1>4, <1>5, <2>2, <3>1 DEF Shape, HasDp, HasIp, HasPath, OfLink, OfCreate
  <2> QED
    BY <2>1, <2>2
<1>7. Follows(L, M)
  BY <1>1, <1>2, <1>4 DEF Follows, Linking, Counted
<1> QED
  BY <1>3, <1>6, <1>7 DEF Fits

\* The local variables when the walk stops at the parent; what the process has learnt is
\* shown apart.
LEMMA StopsShape ==
  ASSUME NEW L, Shape(L), L.pc = "walk", nameiparent(L),
         NEW M, M = [L EXCEPT !.pc = IF L.op = "link" THEN "linkNew" ELSE L.op,
                              !.dp = L.at, !.at = None]
  PROVE  M \in Local /\ Shape(M) /\ Follows([L EXCEPT !.dp = L.at], M)
<1>1. L \in Local /\ Stage(L) = "walk" /\ L.op \in {"link", "unlink", "create", "mkdir"}
      /\ L.at # None /\ L.at \in Inums \cup {None} /\ L.path # <<>> /\ L.put = None
      /\ (L.op = "link" <=> L.ip # None)
  BY DEF Shape, Stage, nameiparent, HasPath, HasIp, Local
<1>2. /\ M.pc = (IF L.op = "link" THEN "linkNew" ELSE L.op) /\ M.dp = L.at /\ M.at = None
      /\ M.op = L.op /\ M.path = L.path /\ M.new = L.new /\ M.ip = L.ip /\ M.put = L.put
      /\ M.ret = L.ret
  BY <1>1 DEF Local
<1>3. M \in Local
  <2>1. M.pc \in Labels
    BY <1>1, <1>2 DEF Labels
  <2> QED
    BY <1>1, <1>2, <2>1 DEF Local
<1>4. Stage(M) = M.pc /\ M.pc \in {"linkNew", "unlink", "create", "mkdir"}
  BY <1>1, <1>2 DEF Stage
<1>5. Shape(M)
  BY <1>1, <1>2, <1>3, <1>4 DEF Shape, HasDp, HasIp, HasPath, OfLink, OfCreate
<1>6. PICK K : K = [L EXCEPT !.dp = L.at]
  OBVIOUS
<1>7. K.pc = L.pc /\ K.ip = L.ip /\ K.dp = L.at /\ K.op = L.op /\ K.path = L.path
  BY <1>1, <1>6 DEF Local
<1>8. Follows(K, M)
  BY <1>1, <1>2, <1>4, <1>7 DEF Follows, Linking, Counted, Stage
<1> QED
  BY <1>3, <1>5, <1>6, <1>8

\* The local variables keep their shape when the walk goes on.
LEMMA TurnsFits ==
  ASSUME NEW L, Shape(L), L.pc = "walk", NEW i \in Inums, NEW M,
         \/ /\ M = [L EXCEPT !.pc = "iput", !.put = L.at, !.ret = "walk",
                             !.path = Tail(L.path), !.at = i]
            /\ Tail(L.path) # <<>>
         \/ /\ M = [L EXCEPT !.pc = "iput", !.put = L.at, !.ret = L.op,
                             !.path = Tail(L.path), !.at = None, !.ip = i]
            /\ ~nameiparent(L)
  PROVE  Fits(L, M)
<1>1. L \in Local /\ Stage(L) = "walk" /\ L.at # None /\ L.at \in Inums \cup {None}
      /\ L.path # <<>> /\ L.path \in Seq(Entry) /\ L.put = None /\ L.dp = None
      /\ L.op \in {"link", "unlink", "create", "mkdir", "open", "chdir"}
      /\ (L.ip # None => L.op = "link")
  BY DEF Shape, Stage, HasPath, HasIp, HasDp, Local
<1>2. Tail(L.path) \in Seq(Entry) /\ i # None
  BY <1>1, InumsAre
<1>3. CASE M = [L EXCEPT !.pc = "iput", !.put = L.at, !.ret = "walk",
                             !.path = Tail(L.path), !.at = i] /\ Tail(L.path) # <<>>
  <2>1. /\ M.pc = "iput" /\ M.put = L.at /\ M.ret = "walk" /\ M.path = Tail(L.path) /\ M.at = i
        /\ M.op = L.op /\ M.new = L.new /\ M.ip = L.ip /\ M.dp = L.dp
    BY <1>1, <1>3 DEF Local
  <2>2. M \in Local
    <3>1. M.pc \in Labels /\ M.ret \in Labels
      BY <2>1 DEF Labels
    <3> QED
      BY <1>1, <1>2, <1>3, <2>1, <3>1 DEF Local
  <2>3. Stage(M) = "walk"
    BY <2>1 DEF Stage
  <2>4. Shape(M)
    BY <1>1, <1>2, <1>3, <2>1, <2>2, <2>3 DEF Shape, HasDp, HasIp, HasPath, OfLink, OfCreate
  <2>5. Follows(L, M)
    BY <1>1, <2>1, <2>3 DEF Follows, Linking, Counted
  <2> QED
    BY <2>2, <2>4, <2>5 DEF Fits
<1>4. CASE M = [L EXCEPT !.pc = "iput", !.put = L.at, !.ret = L.op,
                             !.path = Tail(L.path), !.at = None, !.ip = i] /\ ~nameiparent(L)
  <2>0. L.op \in {"link", "open", "chdir"}
    BY <1>1, <1>4 DEF nameiparent
  <2>1. /\ M.pc = "iput" /\ M.put = L.at /\ M.ret = L.op /\ M.path = Tail(L.path) /\ M.at = None
        /\ M.op = L.op /\ M.new = L.new /\ M.ip = i /\ M.dp = L.dp
    BY <1>1, <1>4 DEF Local
  <2>2. M \in Local
    <3>1. M.pc \in Labels /\ M.ret \in Labels
      BY <2>0, <2>1 DEF Labels
    <3> QED
      BY <1>1, <1>2, <1>4, <2>1, <3>1 DEF Local
  <2>3. Stage(M) = L.op
    BY <2>1 DEF Stage
  <2>4. L.op = "link" => L.new # <<>>
    BY DEF Shape
  <2>5. Shape(M)
    BY <1>1, <1>2, <2>0, <2>1, <2>2, <2>3, <2>4 DEF Shape, HasDp, HasIp, HasPath, OfLink, OfCreate
  <2>6. Follows(L, M)
    BY <1>1, <2>0, <2>1, <2>3 DEF Follows, Linking, Counted
  <2> QED
    BY <2>2, <2>5, <2>6 DEF Fits
<1> QED
  BY <1>3, <1>4

\* The local variables keep their shape when the walk fails.
LEMMA FailsFits ==
  ASSUME NEW L, Shape(L), L.pc = "walk",
         NEW M, M = PutAt(L, IF Linking(L) THEN "linkBad" ELSE "user")
  PROVE  Fits(L, M)
<1>1. L \in Local /\ Stage(L) = "walk" /\ L.at # None /\ L.dp = None /\ L.put = None
      /\ (L.ip # None => L.op = "link") /\ L.at \in Inums \cup {None}
      /\ (L.op = "link" => L.new # <<>>)
  BY DEF Shape, Stage, HasIp, HasDp, Local
<1>2. Linking(L) <=> L.ip # None
  BY <1>1 DEF Linking
<1>3. PICK r \in Labels : r = IF Linking(L) THEN "linkBad" ELSE "user"
  BY DEF Labels
<1>4. /\ M.pc = "iput" /\ M.put = L.at /\ M.ret = r /\ M.at = None /\ M.path = L.path
      /\ M.op = L.op /\ M.new = L.new /\ M.ip = L.ip /\ M.dp = L.dp
  BY <1>1, <1>3 DEF Local, PutAt
<1>5. M \in Local
  <2>1. "iput" \in Labels
    BY DEF Labels
  <2> QED
    BY <1>1, <1>3, <1>4, <2>1 DEF Local, PutAt
<1>6. Stage(M) = r
  BY <1>3, <1>4 DEF Stage
<1>7. Shape(M)
  BY <1>1, <1>2, <1>3, <1>4, <1>5, <1>6 DEF Shape, HasDp, HasIp, HasPath, OfLink, OfCreate
<1>8. Follows(L, M)
  BY <1>1, <1>2, <1>3, <1>4, <1>6 DEF Follows, Linking, Counted
<1> QED
  BY <1>5, <1>7, <1>8 DEF Fits

\* The local variables keep their shape when iput() and what follows it run.
LEMMA IputFits ==
  ASSUME NEW L, Shape(L), NEW M,
         \/ L.pc = "iput" /\ M = [L EXCEPT !.pc = "drop"]
         \/ L.pc = "drop" /\ M = IF L.ret = "user" THEN Idle
                                 ELSE [L EXCEPT !.pc = L.ret, !.put = None]
  PROVE  Fits(L, M)
<1>1. L \in Local /\ Stage(L) = L.ret /\ L.ret \in Labels
  BY DEF Shape, Stage, Local
<1>2. CASE L.pc = "iput" /\ M = [L EXCEPT !.pc = "drop"]
  <2>1. /\ M.pc = "drop" /\ M.put = L.put /\ M.ret = L.ret /\ M.at = L.at /\ M.path = L.path
        /\ M.op = L.op /\ M.new = L.new /\ M.ip = L.ip /\ M.dp = L.dp
    BY <1>1, <1>2 DEF Local
  <2>2. M \in Local /\ Stage(M) = Stage(L)
    <3>1. "drop" \in Labels
      BY DEF Labels
    <3> QED
      BY <1>1, <1>2, <2>1, <3>1 DEF Local, Stage
  <2>3. Shape(M)
    BY <1>2, <2>1, <2>2 DEF Shape, HasDp, HasIp, HasPath, OfLink, OfCreate
  <2>4. Follows(L, M)
    BY <2>1, <2>2 DEF Follows, Linking, Counted
  <2> QED
    BY <2>2, <2>3, <2>4 DEF Fits
<1>3. CASE L.pc = "drop" /\ L.ret = "user" /\ M = Idle
  BY <1>3, IdleShape, FollowsIdle DEF Fits
<1>4. CASE L.pc = "drop" /\ L.ret # "user" /\ M = [L EXCEPT !.pc = L.ret, !.put = None]
  <2>1. /\ M.pc = L.ret /\ M.put = None /\ M.ret = L.ret /\ M.at = L.at /\ M.path = L.path
        /\ M.op = L.op /\ M.new = L.new /\ M.ip = L.ip /\ M.dp = L.dp
    BY <1>1, <1>4 DEF Local
  <2>2. L.ret \notin {"iput", "drop"}
    BY <1>1 DEF Shape
  <2>3. M \in Local /\ Stage(M) = Stage(L)
    BY <1>1, <1>4, <2>1, <2>2 DEF Local, Stage
  <2>4. Shape(M)
    BY <1>4, <2>1, <2>2, <2>3 DEF Shape, HasDp, HasIp, HasPath, OfLink, OfCreate
  <2>5. Follows(L, M)
    BY <2>1, <2>3 DEF Follows, Linking, Counted
  <2> QED
    BY <2>3, <2>4, <2>5 DEF Fits
<1> QED
  BY <1>2, <1>3, <1>4

\* The local variables when sys_link() has counted its link; what the process has learnt is
\* shown apart.
LEMMA CountsLinkShape ==
  ASSUME NEW L, Shape(L), L.pc = "link", ROOTINO \in Inums,
         NEW M, M = [L EXCEPT !.pc = "walk", !.path = L.new, !.at = ROOTINO]
  PROVE  M \in Local /\ Shape(M) /\ Stage(M) = "walk" /\ M.ip = L.ip /\ M.dp = L.dp
<1>1. L \in Local /\ Stage(L) = L.pc
      /\ L.op = "link" /\ L.ip # None /\ L.new # <<>> /\ L.put = None /\ L.dp = None
  BY DEF Stage, Local, Shape, HasDp, HasIp, HasPath, OfLink, OfCreate
<1>2. /\ M.pc = "walk" /\ M.op = L.op /\ M.path = L.new /\ M.new = L.new /\ M.at = ROOTINO
      /\ M.ip = L.ip /\ M.dp = L.dp /\ M.put = L.put /\ M.ret = L.ret
  BY <1>1 DEF Local
<1>3. M \in Local
  <2>1. M.pc \in Labels /\ M.ret \in Labels
    BY <1>1, <1>2 DEF Labels, Local
  <2> QED
    BY <1>1, <1>2, <2>1 DEF Local
<1>4. Stage(M) = "walk"
  BY <1>1, <1>2 DEF Stage
<1>5. ROOTINO # None
  BY InumsAre
<1>6. Shape(M)
  BY <1>1, <1>2, <1>3, <1>4, <1>5 DEF Shape, HasDp, HasIp, HasPath, OfLink, OfCreate
<1> QED
  BY <1>2, <1>3, <1>4, <1>6

\* The local variables keep their shape when the new name of sys_link() exists.
LEMMA FindsOldFits ==
  ASSUME NEW L, Shape(L), L.pc = "linkNew", NEW i \in Inums, i # None,
         NEW M, M = [L EXCEPT !.pc = "iput", !.put = i, !.ret = "linkExists"]
  PROVE  Fits(L, M)
<1>1. L \in Local /\ Stage(L) = L.pc
      /\ L.op = "link" /\ L.ip # None /\ L.at = None /\ L.dp # None
  BY DEF Stage, Local, Shape, HasDp, HasIp, HasPath, OfLink, OfCreate
<1>2. /\ M.pc = "iput" /\ M.op = L.op /\ M.path = L.path /\ M.new = L.new /\ M.at = L.at
      /\ M.ip = L.ip /\ M.dp = L.dp /\ M.put = i /\ M.ret = "linkExists"
  BY <1>1 DEF Local
<1>3. M \in Local
  <2>1. M.pc \in Labels /\ M.ret \in Labels
    BY <1>1, <1>2 DEF Labels, Local
  <2> QED
    BY <1>1, <1>2, <2>1 DEF Local
<1>4. Stage(M) = "linkExists"
  BY <1>1, <1>2 DEF Stage
<1>5. ROOTINO # None
  BY InumsAre
<1>6. Shape(M)
  BY <1>1, <1>2, <1>3, <1>4, <1>5 DEF Shape, HasDp, HasIp, HasPath, OfLink, OfCreate
<1>7. Follows(L, M)
  BY <1>1, <1>2, <1>4 DEF Follows, Linking, Counted
<1> QED
  BY <1>3, <1>6, <1>7 DEF Fits

\* The local variables when sys_unlink() has found the entry; what the process has learnt
\* is shown apart.
LEMMA FindsEntryShape ==
  ASSUME NEW L, Shape(L), L.pc = "unlink", NEW i \in Inums, i # None, Head(L.path) \in Names,
         NEW M, M = [L EXCEPT !.pc = "unlinkEntry", !.ip = i]
  PROVE  M \in Local /\ Shape(M) /\ Stage(M) = "unlinkEntry" /\ M.ip = i /\ M.dp = L.dp
<1>1. L \in Local /\ Stage(L) = L.pc
      /\ L.at = None /\ L.dp # None /\ L.path # <<>> /\ L.put = None
  BY DEF Stage, Local, Shape, HasDp, HasIp, HasPath, OfLink, OfCreate
<1>2. /\ M.pc = "unlinkEntry" /\ M.op = L.op /\ M.path = L.path /\ M.new = L.new /\ M.at = L.at
      /\ M.ip = i /\ M.dp = L.dp /\ M.put = L.put /\ M.ret = L.ret
  BY <1>1 DEF Local
<1>3. M \in Local
  <2>1. M.pc \in Labels /\ M.ret \in Labels
    BY <1>1, <1>2 DEF Labels, Local
  <2> QED
    BY <1>1, <1>2, <2>1 DEF Local
<1>4. Stage(M) = "unlinkEntry"
  BY <1>1, <1>2 DEF Stage
<1>5. ROOTINO # None
  BY InumsAre
<1>6. Shape(M)
  BY <1>1, <1>2, <1>3, <1>4, <1>5 DEF Shape, HasDp, HasIp, HasPath, OfLink, OfCreate
<1> QED
  BY <1>2, <1>3, <1>4, <1>6

\* The local variables keep their shape when the name that create() should make exists.
LEMMA FindsThereFits ==
  ASSUME NEW L, Shape(L), L.pc \in {"create", "mkdir"}, NEW i \in Inums, i # None,
         NEW M, M = [L EXCEPT !.pc = "iput", !.put = L.dp, !.dp = None, !.ip = i, !.ret = "createThere"]
  PROVE  Fits(L, M)
<1>1. L \in Local /\ Stage(L) = L.pc
      /\ L.at = None /\ L.dp # None /\ L.op = L.pc /\ L.put = None
  BY DEF Stage, Local, Shape, HasDp, HasIp, HasPath, OfLink, OfCreate
<1>2. /\ M.pc = "iput" /\ M.op = L.op /\ M.path = L.path /\ M.new = L.new /\ M.at = L.at
      /\ M.ip = i /\ M.dp = None /\ M.put = L.dp /\ M.ret = "createThere"
  BY <1>1 DEF Local
<1>3. M \in Local
  <2>1. M.pc \in Labels /\ M.ret \in Labels
    BY <1>1, <1>2 DEF Labels, Local
  <2> QED
    BY <1>1, <1>2, <2>1 DEF Local
<1>4. Stage(M) = "createThere"
  BY <1>1, <1>2 DEF Stage
<1>5. ROOTINO # None
  BY InumsAre
<1>6. Shape(M)
  BY <1>1, <1>2, <1>3, <1>4, <1>5 DEF Shape, HasDp, HasIp, HasPath, OfLink, OfCreate
<1>7. Follows(L, M)
  BY <1>1, <1>2, <1>4 DEF Follows, Linking, Counted
<1> QED
  BY <1>3, <1>6, <1>7 DEF Fits

\* The local variables when create() has an inode; what the process has learnt is shown apart.
LEMMA AllocatesShape ==
  ASSUME NEW L, Shape(L), L.pc \in {"create", "mkdir"}, NEW i \in Inums, i # None, Head(L.path) \in Names,
         NEW M, M = [L EXCEPT !.pc = "createNew", !.ip = i]
  PROVE  M \in Local /\ Shape(M) /\ Stage(M) = "createNew" /\ M.ip = i /\ M.dp = L.dp
<1>1. L \in Local /\ Stage(L) = L.pc
      /\ L.at = None /\ L.dp # None /\ L.op = L.pc /\ L.put = None /\ L.path # <<>>
  BY DEF Stage, Local, Shape, HasDp, HasIp, HasPath, OfLink, OfCreate
<1>2. /\ M.pc = "createNew" /\ M.op = L.op /\ M.path = L.path /\ M.new = L.new /\ M.at = L.at
      /\ M.ip = i /\ M.dp = L.dp /\ M.put = L.put /\ M.ret = L.ret
  BY <1>1 DEF Local
<1>3. M \in Local
  <2>1. M.pc \in Labels /\ M.ret \in Labels
    BY <1>1, <1>2 DEF Labels, Local
  <2> QED
    BY <1>1, <1>2, <2>1 DEF Local
<1>4. Stage(M) = "createNew"
  BY <1>1, <1>2 DEF Stage
<1>5. ROOTINO # None
  BY InumsAre
<1>6. Shape(M)
  BY <1>1, <1>2, <1>3, <1>4, <1>5 DEF Shape, HasDp, HasIp, HasPath, OfLink, OfCreate
<1> QED
  BY <1>2, <1>3, <1>4, <1>6

\* The local variables keep their shape when a file is locked to be opened.
LEMMA LocksFoundFits ==
  ASSUME NEW L, Shape(L), L.pc \in {"createThere", "open"}, L.op # "link",
         NEW M, M = [L EXCEPT !.pc = "opened"]
  PROVE  Fits(L, M)
<1>1. L \in Local /\ Stage(L) = L.pc
      /\ L.at = None /\ L.dp = None /\ L.put = None /\ L.ip # None
  BY DEF Stage, Local, Shape, HasDp, HasIp, HasPath, OfLink, OfCreate
<1>2. /\ M.pc = "opened" /\ M.op = L.op /\ M.path = L.path /\ M.new = L.new /\ M.at = L.at
      /\ M.ip = L.ip /\ M.dp = L.dp /\ M.put = L.put /\ M.ret = L.ret
  BY <1>1 DEF Local
<1>3. M \in Local
  <2>1. M.pc \in Labels /\ M.ret \in Labels
    BY <1>1, <1>2 DEF Labels, Local
  <2> QED
    BY <1>1, <1>2, <2>1 DEF Local
<1>4. Stage(M) = "opened"
  BY <1>1, <1>2 DEF Stage
<1>5. ROOTINO # None
  BY InumsAre
<1>6. Shape(M)
  BY <1>1, <1>2, <1>3, <1>4, <1>5 DEF Shape, HasDp, HasIp, HasPath, OfLink, OfCreate
<1>7. Follows(L, M)
  BY <1>1, <1>2, <1>4 DEF Follows, Linking, Counted
<1> QED
  BY <1>3, <1>6, <1>7 DEF Fits

\* The local variables keep their shape when sys_chdir() puts the old directory.
LEMMA LeavesDirFits ==
  ASSUME NEW L, Shape(L), L.pc = "chdir", NEW i \in Inums, i # None,
         NEW M, M = [L EXCEPT !.pc = "iput", !.put = i, !.ret = "chdirDone"]
  PROVE  Fits(L, M)
<1>1. L \in Local /\ Stage(L) = L.pc
      /\ L.at = None /\ L.dp = None /\ L.ip # None
  BY DEF Stage, Local, Shape, HasDp, HasIp, HasPath, OfLink, OfCreate
<1>2. /\ M.pc = "iput" /\ M.op = L.op /\ M.path = L.path /\ M.new = L.new /\ M.at = L.at
      /\ M.ip = L.ip /\ M.dp = L.dp /\ M.put = i /\ M.ret = "chdirDone"
  BY <1>1 DEF Local
<1>3. M \in Local
  <2>1. M.pc \in Labels /\ M.ret \in Labels
    BY <1>1, <1>2 DEF Labels, Local
  <2> QED
    BY <1>1, <1>2, <2>1 DEF Local
<1>4. Stage(M) = "chdirDone"
  BY <1>1, <1>2 DEF Stage
<1>5. ROOTINO # None
  BY InumsAre
<1>6. Shape(M)
  BY <1>1, <1>2, <1>3, <1>4, <1>5 DEF Shape, HasDp, HasIp, HasPath, OfLink, OfCreate
<1>7. Follows(L, M)
  BY <1>1, <1>2, <1>4 DEF Follows, Linking, Counted
<1> QED
  BY <1>3, <1>6, <1>7 DEF Fits

\* The local variables keep their shape when a file is closed.
LEMMA ClosesFits ==
  ASSUME NEW L, Shape(L), L.pc = "user", NEW i \in Inums, i # None,
         NEW M, M = [L EXCEPT !.pc = "iput", !.put = i]
  PROVE  Fits(L, M)
<1>1. L \in Local /\ Stage(L) = L.pc
      /\ L = Idle /\ L.at = None /\ L.dp = None /\ L.ip = None /\ L.ret = "user" /\ L.op = "none"
  BY DEF Idle, Stage, Local, Shape, HasDp, HasIp, HasPath, OfLink, OfCreate
<1>2. /\ M.pc = "iput" /\ M.op = L.op /\ M.path = L.path /\ M.new = L.new /\ M.at = L.at
      /\ M.ip = L.ip /\ M.dp = L.dp /\ M.put = i /\ M.ret = L.ret
  BY <1>1 DEF Local
<1>3. M \in Local
  <2>1. M.pc \in Labels /\ M.ret \in Labels
    BY <1>1, <1>2 DEF Labels, Local
  <2> QED
    BY <1>1, <1>2, <2>1 DEF Local
<1>4. Stage(M) = "user"
  BY <1>1, <1>2 DEF Stage
<1>5. ROOTINO # None
  BY InumsAre
<1>6. Shape(M)
  BY <1>1, <1>2, <1>3, <1>4, <1>5 DEF Shape, HasDp, HasIp, HasPath, OfLink, OfCreate
<1>7. Follows(L, M)
  BY <1>1, <1>2, <1>4 DEF Follows, Linking, Counted
<1> QED
  BY <1>3, <1>6, <1>7 DEF Fits

Learns(p) == \/ Stops(p) \/ CountsLink(p) \/ FindsEntry(p) \/ RemovesEntry(p)
             \/ \E i \in Inums : Allocates(p, i)

\* The local variables of a process keep their shape, and it knows no more than before
\* unless it learns it.
LEMMA ShapeEffect ==
  ASSUME Inv, NEW p \in Procs, Effect(p)
  PROVE  Shapes' /\ (Learns(p) \/ Follows(loc[p], loc'[p]))
<1>1. /\ Shapes /\ Shape(loc[p]) /\ loc[p] \in Local /\ loc \in [Procs -> Local]
      /\ cwd \in [Procs -> Inums] /\ file \in [Procs -> Inums \cup {None}]
  BY DEF Inv, Shapes
<1>2. PICK L \in Local : L = loc[p] /\ Shape(L)
  BY <1>1
<1>3. ASSUME NEW M, Becomes(p, M), M \in Local, Shape(M),
             cwd' \in [Procs -> Inums], file' \in [Procs -> Inums \cup {None}]
      PROVE  Shapes' /\ loc'[p] = M
  <2>1. /\ loc'[p] = M /\ \A q \in Procs : q # p => loc'[q] = loc[q]
        /\ DOMAIN loc' = Procs /\ loc' \in [Procs -> Local]
    BY <1>1, <1>3, View
  <2>2. \A q \in Procs : Shape(loc'[q])
    BY <1>1, <1>3, <2>1 DEF Shapes
  <2> QED
    BY <1>3, <2>1, <2>2 DEF Shapes
<1>4. ASSUME NEW M, Becomes(p, M), Fits(L, M),
             cwd' \in [Procs -> Inums], file' \in [Procs -> Inums \cup {None}]
      PROVE  Shapes' /\ Follows(loc[p], loc'[p])
  <2>1. Shapes' /\ loc'[p] = M
    BY <1>3, <1>4 DEF Fits
  <2> QED
    BY <1>2, <1>4, <2>1 DEF Fits
<1>5. Rest => cwd' \in [Procs -> Inums] /\ file' \in [Procs -> Inums \cup {None}]
  BY <1>1 DEF Rest
<1>6. ASSUME NEW c \in Calls, Begins(p, c) PROVE Shapes' /\ Follows(loc[p], loc'[p])
  <2>1. PICK i \in Inums : i = IF c.relative THEN cwd[p] ELSE ROOTINO
    BY <1>1, InumsAre
  <2>2. PICK M : M = [Idle EXCEPT
                     !.pc = IF c.path = <<>> THEN c.op ELSE "walk", !.op = c.op,
                     !.path = c.path, !.new = c.new,
                     !.at = IF c.path = <<>> THEN None ELSE i,
                     !.ip = IF c.path = <<>> THEN i ELSE None]
    OBVIOUS
  <2>3. Becomes(p, M) /\ Rest /\ L.pc = "user"
    BY <1>2, <1>6, <2>1, <2>2 DEF Begins
  <2>4. L = Idle
    BY <1>2, <2>3 DEF Shape
  <2>5. Fits(L, M)
    BY Zenon, <2>1, <2>2, <2>4, SyscallFits
  <2> QED
    BY <1>4, <1>5, <2>3, <2>5
<1>7. CASE Stops(p)
  <2>1. PICK M : M = [L EXCEPT !.pc = IF L.op = "link" THEN "linkNew" ELSE L.op,
                               !.dp = L.at, !.at = None]
    OBVIOUS
  <2>2. Becomes(p, M) /\ Rest /\ L.pc = "walk" /\ nameiparent(L)
    BY <1>2, <1>7, <2>1 DEF Stops
  <2>3. M \in Local /\ Shape(M)
    BY Zenon, <1>2, <2>1, <2>2, StopsShape
  <2> QED
    BY <1>3, <1>5, <1>7, <2>2, <2>3 DEF Learns
<1>8. ASSUME NEW i \in Inums, Turns(p, i) PROVE Shapes' /\ Follows(loc[p], loc'[p])
  <2>1. PICK M : /\ Becomes(p, M)
                 /\ \/ /\ M = [L EXCEPT !.pc = "iput", !.put = L.at, !.ret = "walk",
                                        !.path = Tail(L.path), !.at = i]
                       /\ Tail(L.path) # <<>>
                    \/ /\ M = [L EXCEPT !.pc = "iput", !.put = L.at, !.ret = L.op,
                                        !.path = Tail(L.path), !.at = None, !.ip = i]
                       /\ ~nameiparent(L)
    BY Zenon, <1>2, <1>8 DEF Turns
  <2>2. Fits(L, M)
    <3>1. L.pc = "walk"
      BY <1>2, <1>8 DEF Turns
    <3> QED
      BY Zenon, <1>2, <2>1, <3>1, TurnsFits
  <2> QED
    BY <1>4, <1>5, <1>8, <2>1, <2>2 DEF Turns
<1>9. CASE Fails(p)
  <2>1. PICK M : M = PutAt(L, IF Linking(L) THEN "linkBad" ELSE "user")
    OBVIOUS
  <2>2. Fits(L, M)
    <3>1. L.pc = "walk"
      BY <1>2, <1>9 DEF Fails
    <3> QED
      BY <1>2, <2>1, <3>1, FailsFits
  <2>3. Becomes(p, M) /\ Rest
    BY <1>2, <1>9, <2>1 DEF Fails
  <2> QED
    BY <1>4, <1>5, <2>2, <2>3
<1>10. CASE Frees(p) \/ Drops(p)
  <2>1. PICK M : /\ Becomes(p, M)
                 /\ \/ L.pc = "iput" /\ M = [L EXCEPT !.pc = "drop"]
                    \/ L.pc = "drop" /\ M = IF L.ret = "user" THEN Idle
                                            ELSE [L EXCEPT !.pc = L.ret, !.put = None]
    BY <1>2, <1>10 DEF Frees, Drops
  <2>2. Fits(L, M)
    BY Zenon, <1>2, <2>1, IputFits
  <2>3. Rest
    BY <1>10 DEF Frees, Drops
  <2> QED
    BY <1>4, <1>5, <2>1, <2>2, <2>3
<1>11. CASE PutsIp(p) \/ PutsBad(p) \/ UnlocksIp(p) \/ Uncounts(p)
  <2>1. PICK r \in {"user", "unlinkBad"} :
             /\ Becomes(p, PutIp(L, r)) /\ Rest
             /\ L.pc \in {"link", "linkDone", "createThere", "open", "chdir", "opened", "linkBad",
                          "unlinkLast", "unlinkEntry"}
             /\ r = "unlinkBad" <=> L.pc = "unlinkEntry"
    BY <1>2, <1>11 DEF PutsIp, PutsBad, UnlocksIp, Uncounts
  <2>2. Stage(L) = L.pc /\ L.ip # None /\ L.at = None /\ L.pc \notin {"iput", "drop"}
        /\ (L.dp # None <=> r = "unlinkBad")
    BY <1>2, <2>1 DEF Shape, Stage, HasIp, HasDp
  <2>3. Fits(L, PutIp(L, r))
    BY <1>2, <2>2, PutIpShape DEF Fits
  <2> QED
    BY <1>4, <1>5, <2>1, <2>3
<1>12. CASE PutsDp(p) \/ Unlocks(p) \/ AddsEntry(p) \/ MakesFile(p) \/ MakesDir(p) \/ RemovesEntry(p)
  <2>1. PICK r \in {"user", "linkBad", "linkDone", "unlinkLast", "opened"} :
             /\ Becomes(p, PutDp(L, r)) /\ Rest
             /\ \/ L.pc \in {"unlink", "unlinkBad"} /\ r = "user"
                \/ L.pc = "linkExists" /\ r = "linkBad"
                \/ L.pc = "linkNew" /\ r = "linkDone"
                \/ L.pc = "createNew" /\ r = "opened"
                \/ L.pc = "unlinkEntry" /\ r = "unlinkLast" /\ RemovesEntry(p)
    BY Zenon, <1>2, <1>12 DEF PutsDp, Unlocks, AddsEntry, MakesFile, MakesDir, RemovesEntry
  <2>2. Stage(L) = L.pc /\ L.dp # None /\ L.at = None /\ L.pc \notin {"iput", "drop"}
        /\ (r = "user" => L.ip = None) /\ (r # "user" => L.ip # None)
        /\ (r = "linkBad" => Linking(L))
    BY <1>2, <2>1 DEF Shape, Stage, HasIp, HasDp, Linking
  <2>3. (r \in {"linkBad", "linkDone"} => L.op = "link") /\ (r = "opened" => L.op # "link")
    <3>1. r \in {"linkBad", "linkDone"} => L.op = "link"
      BY <1>2, <2>1, <2>2 DEF Shape, OfLink
    <3>2. r = "opened" => L.op # "link"
      BY <1>2, <2>1, <2>2 DEF Shape, OfCreate
    <3> QED
      BY <3>1, <3>2
  <2>4. PICK M : M = PutDp(L, r)
    OBVIOUS
  <2>5. M \in Local /\ Shape(M) /\ (r # "unlinkLast" => Follows(L, M))
    BY <1>2, <2>2, <2>3, <2>4, PutDpShape
  <2>6. Shapes' /\ loc'[p] = M
    BY <1>3, <1>5, <2>1, <2>4, <2>5
  <2> QED
    BY Zenon, <1>2, <2>1, <2>5, <2>6 DEF Learns
<1>13. CASE CountsLink(p)
  <2>1. PICK M : M = [L EXCEPT !.pc = "walk", !.path = L.new, !.at = ROOTINO]
    OBVIOUS
  <2>2. Becomes(p, M) /\ Rest /\ L.pc = "link"
    BY <1>2, <1>13, <2>1 DEF CountsLink
  <2>3. M \in Local /\ Shape(M)
    BY Zenon, <1>2, <2>1, <2>2, CountsLinkShape, InumsAre
  <2> QED
    BY <1>3, <1>5, <1>13, <2>2, <2>3 DEF Learns
<1>14. CASE FindsOld(p) \/ FindsThere(p) \/ LocksFound(p) \/ LeavesDir(p)
  <2>1. PICK i \in Inums : Fits(L, loc'[p]) /\ Becomes(p, loc'[p]) /\ Rest
    <3>1. CASE FindsOld(p)
      <4>1. PICK i \in Inums : /\ Becomes(p, [L EXCEPT !.pc = "iput", !.put = i, !.ret = "linkExists"])
                               /\ L.pc = "linkNew" /\ Rest
        BY Zenon, <1>2, <3>1 DEF FindsOld, Gets
      <4> QED
        BY Zenon, <1>1, <1>2, <4>1, View, FindsOldFits, InumsAre
    <3>2. CASE FindsThere(p)
      <4>1. PICK i \in Inums :
                 /\ Becomes(p, [L EXCEPT !.pc = "iput", !.put = L.dp, !.dp = None,
                                         !.ip = i, !.ret = "createThere"])
                 /\ L.pc \in {"create", "mkdir"} /\ Rest
        BY Zenon, <1>2, <3>2 DEF FindsThere, Gets
      <4> QED
        BY Zenon, <1>1, <1>2, <4>1, View, FindsThereFits, InumsAre
    <3>3. CASE LocksFound(p)
      <4>1. /\ Becomes(p, [L EXCEPT !.pc = "opened"]) /\ L.op # "link"
            /\ L.pc \in {"createThere", "open"} /\ Rest
        BY <1>2, <3>3 DEF LocksFound
      <4> QED
        BY <1>1, <1>2, <4>1, View, LocksFoundFits, InumsAre
    <3>4. CASE LeavesDir(p)
      <4>1. PICK i \in Inums : /\ Becomes(p, [L EXCEPT !.pc = "iput", !.put = i, !.ret = "chdirDone"])
                               /\ L.pc = "chdir" /\ Rest
        BY Zenon, <1>1, <1>2, <3>4 DEF LeavesDir
      <4> QED
        BY Zenon, <1>1, <1>2, <4>1, View, LeavesDirFits, InumsAre
    <3> QED
      BY <1>14, <3>1, <3>2, <3>3, <3>4
  <2> QED
    BY <1>4, <1>5, <2>1
<1>15. CASE FindsEntry(p)
  <2>1. PICK i \in Inums : /\ Becomes(p, [L EXCEPT !.pc = "unlinkEntry", !.ip = i])
                           /\ L.pc = "unlink" /\ Rest /\ Head(L.path) \in Names
    BY Zenon, <1>2, <1>15 DEF FindsEntry, Gets
  <2>2. PICK M : M = [L EXCEPT !.pc = "unlinkEntry", !.ip = i]
    OBVIOUS
  <2>3. M \in Local /\ Shape(M)
    BY Zenon, <1>2, <2>1, <2>2, FindsEntryShape, InumsAre
  <2> QED
    BY <1>3, <1>5, <1>15, <2>1, <2>2, <2>3 DEF Learns
<1>16. ASSUME NEW i \in Inums, Allocates(p, i) PROVE Shapes' /\ Learns(p)
  <2>1. /\ Becomes(p, [L EXCEPT !.pc = "createNew", !.ip = i])
        /\ L.pc \in {"create", "mkdir"} /\ Rest /\ Head(L.path) \in Names
    BY <1>2, <1>16 DEF Allocates
  <2>2. PICK M : M = [L EXCEPT !.pc = "createNew", !.ip = i]
    OBVIOUS
  <2>3. M \in Local /\ Shape(M)
    BY Zenon, <1>2, <2>1, <2>2, AllocatesShape, InumsAre
  <2> QED
    BY <1>3, <1>5, <1>16, <2>1, <2>2, <2>3 DEF Learns
<1>17. CASE Opens(p)
  <2>1. L.pc = "opened" /\ Stage(L) \in LocksIp
    BY <1>2, <1>17 DEF Opens, Stage, LocksIp
  <2>2. loc[p].ip \in Inums
    BY <1>2, <2>1, HeldIp
  <2>3. Becomes(p, Idle) /\ cwd' = cwd /\ file' = [file EXCEPT ![p] = loc[p].ip]
    BY <1>17 DEF Opens
  <2>4. file' \in [Procs -> Inums \cup {None}]
    BY <1>1, <2>2, <2>3
  <2> QED
    BY <1>1, <1>4, <2>3, <2>4, IdleShape, FollowsIdle DEF Fits
<1>18. CASE EntersDir(p)
  <2>1. Stage(loc[p]) = "chdirDone" /\ Becomes(p, Idle) /\ file' = file
        /\ cwd' = [cwd EXCEPT ![p] = loc[p].ip]
    BY <1>18 DEF EntersDir, Stage
  <2>2. loc[p].ip \in Inums
    BY <1>1, <2>1 DEF Shape, HasIp, Local
  <2>3. cwd' \in [Procs -> Inums]
    BY <1>1, <2>1, <2>2
  <2> QED
    BY <1>1, <1>4, <2>1, <2>3, IdleShape, FollowsIdle DEF Fits
<1>19. CASE Writes(p)
  <2>1. UNCHANGED loc /\ Rest
    BY <1>19 DEF Writes
  <2>2. Shapes'
    BY <1>1, <1>5, <2>1 DEF Shapes, Rest
  <2>3. Follows(loc[p], loc'[p])
    BY <2>1 DEF Follows
  <2> QED
    BY <2>2, <2>3
<1>20. CASE Closes(p)
  <2>1. /\ Becomes(p, [L EXCEPT !.pc = "iput", !.put = file[p]]) /\ cwd' = cwd /\ L.pc = "user"
        /\ file' = [file EXCEPT ![p] = None] /\ file[p] # None
    BY <1>2, <1>20 DEF Closes
  <2>2. PICK i \in Inums : i = file[p]
    BY <1>1, <2>1
  <2>3. PICK M : M = [L EXCEPT !.pc = "iput", !.put = i]
    OBVIOUS
  <2>4. Fits(L, M)
    BY Zenon, <1>2, <2>1, <2>2, <2>3, ClosesFits
  <2>5. file' \in [Procs -> Inums \cup {None}]
    BY <1>1, <2>1
  <2> QED
    BY <1>1, <1>4, <2>1, <2>2, <2>3, <2>4, <2>5
<1> QED
  BY <1>6, <1>7, <1>8, <1>9, <1>10, <1>11, <1>12, <1>13, <1>14, <1>15, <1>16, <1>17, <1>18,
     <1>19, <1>20 DEF Effect, Learns

-----------------------------------------------------------------------------
\* The references.

Apart(p) == \A q \in Procs : q # p => loc'[q] = loc[q] /\ cwd'[q] = cwd[q] /\ file'[q] = file[q]

\* A step of p leaves the variables of the others alone,
LEMMA EffectApart ==
  ASSUME Inv, NEW p \in Procs, Effect(p)
  PROVE  Apart(p)
<1>1. loc \in [Procs -> Local] /\ cwd \in [Procs -> Inums] /\ file \in [Procs -> Inums \cup {None}]
  BY Zenon DEF Inv, Shapes
<1>2. UNCHANGED loc \/ \E M : Becomes(p, M)
  BY Zenon DEF Effect, Begins, Stops, Turns, Fails, Frees, Drops, PutsIp, PutsBad, PutsDp, Unlocks,
         UnlocksIp, CountsLink, FindsOld, AddsEntry, Uncounts, FindsEntry, RemovesEntry,
         FindsThere, Allocates, MakesFile, MakesDir, LocksFound, Opens, LeavesDir, EntersDir,
         Writes, Closes
<1>3. \A q \in Procs : q # p => loc'[q] = loc[q]
  BY <1>1, <1>2, View
<1>4. UNCHANGED <<cwd, file>> \/ Opens(p) \/ EntersDir(p) \/ Closes(p)
  BY Zenon DEF Effect, Begins, Stops, Turns, Fails, Frees, Drops, PutsIp, PutsBad, PutsDp, Unlocks,
         UnlocksIp, CountsLink, FindsOld, AddsEntry, Uncounts, FindsEntry, RemovesEntry,
         FindsThere, Allocates, MakesFile, MakesDir, LocksFound, LeavesDir,
         Writes, Rest
<1>5. \A q \in Procs : q # p => cwd'[q] = cwd[q] /\ file'[q] = file[q]
  BY <1>1, <1>4 DEF Opens, EntersDir, Closes
<1> QED
  BY <1>3, <1>5 DEF Apart

\* and so their pointers.
LEMMA ApartPointers ==
  ASSUME NEW p, Apart(p)
  PROVE  OthersKeep(p)
BY DEF Apart, OthersKeep, Pointers

\* The pointers of a process that are local variables, and the others.
Vars(L, i) == Ind(L.at = i) + Ind(L.ip = i) + Ind(L.dp = i) + Ind(L.put = i)
Dir(L, c) == IF Stage(L) = "chdirDone" THEN None ELSE c

\* The pointers of a process to an inode: its directory, its file and its local variables.
LEMMA CountIs ==
  ASSUME NEW p, Shape(loc[p]), NEW i
  PROVE  Count(Pointers(p), i) = Ind(Dir(loc[p], cwd[p]) = i) + Ind(file[p] = i) + Vars(loc[p], i)
<1>1. "chdirDone" \in {loc[p].pc, loc[p].ret} <=> Stage(loc[p]) = "chdirDone"
  BY DEF Shape, Stage
<1>2. Pointers(p)[1] = Dir(loc[p], cwd[p])
  BY <1>1, PointersAre DEF Dir
<1>3. PICK a \in Int : a = Ind(Pointers(p)[1] = i)
  BY DEF Ind
<1>4. PICK b \in Int : b = Ind(Pointers(p)[2] = i)
  BY DEF Ind
<1>5. PICK c \in Int : c = Ind(Pointers(p)[3] = i)
  BY DEF Ind
<1>6. PICK d \in Int : d = Ind(Pointers(p)[4] = i)
  BY DEF Ind
<1>7. PICK e \in Int : e = Ind(Pointers(p)[5] = i)
  BY DEF Ind
<1>8. PICK f \in Int : f = Ind(Pointers(p)[6] = i)
  BY DEF Ind
<1>9. /\ a = Ind(Dir(loc[p], cwd[p]) = i) /\ b = Ind(file[p] = i) /\ c = Ind(loc[p].at = i)
      /\ d = Ind(loc[p].ip = i) /\ e = Ind(loc[p].dp = i) /\ f = Ind(loc[p].put = i)
  BY <1>2, <1>3, <1>4, <1>5, <1>6, <1>7, <1>8, PointersAre
<1>10. Count(Pointers(p), i) = a + b + c + d + e + f
  BY <1>3, <1>4, <1>5, <1>6, <1>7, <1>8 DEF Count
<1>11. Vars(loc[p], i) = c + d + e + f
  BY <1>9 DEF Vars
<1>12. a + b + c + d + e + f = a + b + (c + d + e + f)
  OBVIOUS
<1> QED
  BY <1>9, <1>10, <1>11, <1>12

\* It is enough to count these three before and after.
LEMMA FollowVars ==
  ASSUME Inv, NEW p \in Procs, Shapes', FsOK(fs'),
         \A i \in Inums :
           Ind(Dir(loc'[p], cwd'[p]) = i) + Ind(file'[p] = i) + Vars(loc'[p], i) + fs.mem[i].ref
             = Ind(Dir(loc[p], cwd[p]) = i) + Ind(file[p] = i) + Vars(loc[p], i) + fs'.mem[i].ref
  PROVE  RefsFollow(p)
<1>1. SUFFICES ASSUME NEW i \in Inums
               PROVE  fs.mem[i].ref + Count(Pointers(p)', i) = fs.mem[i].ref' + Count(Pointers(p), i)
  BY DEF RefsFollow
<1>2. Count(Pointers(p), i) = Ind(Dir(loc[p], cwd[p]) = i) + Ind(file[p] = i) + Vars(loc[p], i)
  BY CountIs DEF Inv, Shapes
<1>3. Count(Pointers(p)', i) = Ind(Dir(loc'[p], cwd'[p]) = i) + Ind(file'[p] = i) + Vars(loc'[p], i)
  <2>1. Shape(loc[p])'
    BY DEF Shapes
  <2>2. (Shape(loc[p]) => Count(Pointers(p), i)
            = Ind(Dir(loc[p], cwd[p]) = i) + Ind(file[p] = i) + Vars(loc[p], i))'
    BY CountIs, PTL
  <2> QED
    BY <2>1, <2>2
<1>4. PICK a \in Int : a = Ind(Dir(loc[p], cwd[p]) = i) + Ind(file[p] = i) + Vars(loc[p], i)
  BY DEF Ind, Vars
<1>5. PICK b \in Int : b = Ind(Dir(loc'[p], cwd'[p]) = i) + Ind(file'[p] = i) + Vars(loc'[p], i)
  BY DEF Ind, Vars
<1>6. PICK r \in Int : r = fs.mem[i].ref
  BY SlotTypes DEF Inv, FsOK, MInode
<1>7. PICK s \in Int : s = fs.mem[i].ref'
  <2>1. fs'.mem[i] \in MInode
    BY SlotTypes DEF FsOK
  <2> QED
    BY <2>1 DEF MInode
<1>8. b + r = a + s
  <2>1. Ind(Dir(loc'[p], cwd'[p]) = i) + Ind(file'[p] = i) + Vars(loc'[p], i) + fs.mem[i].ref
             = Ind(Dir(loc[p], cwd[p]) = i) + Ind(file[p] = i) + Vars(loc[p], i) + fs'.mem[i].ref
    OBVIOUS
  <2> QED
    BY <2>1, <1>4, <1>5, <1>6, <1>7
<1> QED
  BY <1>2, <1>3, <1>4, <1>5, <1>6, <1>7, <1>8

\* A step that changes local variables only.
LEMMA FollowLocals ==
  ASSUME Inv, NEW p \in Procs, Shapes', FsOK(fs'), UNCHANGED <<cwd, file>>,
         Stage(loc[p]) = "chdirDone" <=> Stage(loc'[p]) = "chdirDone",
         \A i \in Inums : Vars(loc'[p], i) + fs.mem[i].ref = Vars(loc[p], i) + fs'.mem[i].ref
  PROVE  RefsFollow(p)
<1>1. ASSUME NEW i \in Inums
      PROVE  Ind(Dir(loc'[p], cwd'[p]) = i) + Ind(file'[p] = i) + Vars(loc'[p], i) + fs.mem[i].ref
             = Ind(Dir(loc[p], cwd[p]) = i) + Ind(file[p] = i) + Vars(loc[p], i) + fs'.mem[i].ref
  <2>1. PICK a \in Int : a = Ind(Dir(loc[p], cwd[p]) = i)
    BY DEF Ind
  <2>2. a = Ind(Dir(loc'[p], cwd'[p]) = i)
    BY <2>1 DEF Dir
  <2>3. PICK b \in Int : b = Ind(file[p] = i)
    BY DEF Ind
  <2>4. b = Ind(file'[p] = i)
    BY <2>3
  <2>5. PICK v \in Int : v = Vars(loc[p], i)
    BY DEF Vars, Ind
  <2>6. PICK w \in Int : w = Vars(loc'[p], i)
    BY DEF Vars, Ind
  <2>7. PICK r \in Int : r = fs.mem[i].ref
    BY SlotTypes DEF Inv, FsOK, MInode
  <2>8. PICK s \in Int : s = fs'.mem[i].ref
    <3>1. fs'.mem[i] \in MInode
      BY SlotTypes DEF FsOK
    <3> QED
      BY <3>1 DEF MInode
  <2>9. w + r = v + s
    <3>1. Vars(loc'[p], i) + fs.mem[i].ref = Vars(loc[p], i) + fs'.mem[i].ref
      OBVIOUS
    <3> QED
      BY <2>5, <2>6, <2>7, <2>8, <3>1
  <2>10. a + b + w + r = a + b + v + s
    BY <2>9
  <2> QED
    BY <2>1, <2>2, <2>3, <2>4, <2>5, <2>6, <2>7, <2>8, <2>10
<1> QED
  BY <1>1, FollowVars

\* To put an inode moves a pointer from one variable to another.
LEMMA VarsPut ==
  ASSUME NEW L \in Local, L.put = None, NEW r, NEW i \in Inums
  PROVE  /\ Vars(PutAt(L, r), i) = Vars(L, i) /\ Vars(PutIp(L, r), i) = Vars(L, i)
         /\ Vars(PutDp(L, r), i) = Vars(L, i)
         /\ Stage(PutAt(L, r)) = r /\ Stage(PutIp(L, r)) = r /\ Stage(PutDp(L, r)) = r
<1>1. i # None
  BY InumsAre
<1>2. PICK M : M = PutAt(L, r)
  OBVIOUS
<1>3. /\ M.at = None /\ M.ip = L.ip /\ M.dp = L.dp /\ M.put = L.at /\ M.pc = "iput" /\ M.ret = r
  BY <1>2 DEF PutAt, Local
<1>4. PICK N : N = PutIp(L, r)
  OBVIOUS
<1>5. /\ N.at = L.at /\ N.ip = None /\ N.dp = L.dp /\ N.put = L.ip /\ N.pc = "iput" /\ N.ret = r
  BY <1>4 DEF PutIp, Local
<1>6. PICK O : O = PutDp(L, r)
  OBVIOUS
<1>7. /\ O.at = L.at /\ O.ip = L.ip /\ O.dp = None /\ O.put = L.dp /\ O.pc = "iput" /\ O.ret = r
  BY <1>6 DEF PutDp, Local
<1>8. Stage(M) = r /\ Stage(N) = r /\ Stage(O) = r
  BY <1>3, <1>5, <1>7 DEF Stage
<1>9. Vars(M, i) = Vars(L, i)
  BY <1>1, <1>3 DEF Vars, Ind
<1>10. Vars(N, i) = Vars(L, i)
  BY <1>1, <1>5 DEF Vars, Ind
<1>11. Vars(O, i) = Vars(L, i)
  BY <1>1, <1>7 DEF Vars, Ind
<1> QED
  BY <1>2, <1>4, <1>6, <1>8, <1>9, <1>10, <1>11

\* A local variable takes a new reference.
LEMMA VarsGet ==
  ASSUME NEW L \in Local, NEW i \in Inums, NEW j \in Inums, NEW M,
         \/ L.at = None /\ M.at = j /\ M.ip = L.ip /\ M.dp = L.dp /\ M.put = L.put
         \/ L.ip = None /\ M.at = L.at /\ M.ip = j /\ M.dp = L.dp /\ M.put = L.put
         \/ L.put = None /\ M.at = L.at /\ M.ip = L.ip /\ M.dp = L.dp /\ M.put = j
         \/ L.put = None /\ M.at = j /\ M.ip = L.ip /\ M.dp = L.dp /\ M.put = L.at
         \/ L.put = None /\ L.ip = None /\ M.at = None /\ M.ip = j /\ M.dp = L.dp /\ M.put = L.at
         \/ L.put = None /\ L.ip = None /\ M.at = L.at /\ M.ip = j /\ M.dp = None /\ M.put = L.dp
  PROVE  Vars(M, i) = Vars(L, i) + Ind(i = j)
<1>1. i # None /\ j # None
  BY InumsAre
<1>2. Ind(i = j) = Ind(j = i)
  BY DEF Ind
<1>3. Ind(None = i) = 0
  BY <1>1 DEF Ind
<1> QED
  BY <1>2, <1>3 DEF Vars, Ind

\* A pointer and a reference more,
LEMMA FollowGets ==
  ASSUME Inv, NEW p \in Procs, Shapes', FsOK(fs'), UNCHANGED <<cwd, file>>,
         NEW j \in Inums, AddRefs(fs, fs', j, 1),
         Stage(loc[p]) # "chdirDone", Stage(loc'[p]) # "chdirDone",
         \A i \in Inums : Vars(loc'[p], i) = Vars(loc[p], i) + Ind(i = j)
  PROVE  RefsFollow(p)
<1>1. ASSUME NEW i \in Inums
      PROVE  Vars(loc'[p], i) + fs.mem[i].ref = Vars(loc[p], i) + fs'.mem[i].ref
  <2>1. PICK v \in Int : v = Vars(loc[p], i)
    BY DEF Vars, Ind
  <2>2. PICK r \in Int : r = fs.mem[i].ref
    BY SlotTypes DEF Inv, FsOK, MInode
  <2>3. PICK d \in Int : d = Ind(i = j)
    BY DEF Ind
  <2>4. fs'.mem[i].ref = r + d
    BY <2>2, <2>3 DEF AddRefs, Ind
  <2>5. Vars(loc'[p], i) = v + d
    BY <2>1, <2>3
  <2>6. (v + d) + r = v + (r + d)
    OBVIOUS
  <2> QED
    BY <2>1, <2>2, <2>4, <2>5, <2>6
<1> QED
  BY <1>1, FollowLocals

\* neither of them changed,
LEMMA FollowKeeps ==
  ASSUME Inv, NEW p \in Procs, Shapes', FsOK(fs'), UNCHANGED <<cwd, file>>, SameRefs(fs, fs'),
         Stage(loc[p]) = "chdirDone" <=> Stage(loc'[p]) = "chdirDone",
         \A i \in Inums : Vars(loc'[p], i) = Vars(loc[p], i)
  PROVE  RefsFollow(p)
<1>1. \A i \in Inums : Vars(loc'[p], i) + fs.mem[i].ref = Vars(loc[p], i) + fs'.mem[i].ref
  BY DEF SameRefs
<1> QED
  BY <1>1, FollowLocals

\* or a pointer moved.
LEMMA FollowPuts ==
  ASSUME Inv, NEW p \in Procs, Shapes', FsOK(fs'), UNCHANGED <<cwd, file>>, SameRefs(fs, fs'),
         loc[p].pc \notin {"iput", "drop", "chdirDone"}, NEW r, r # "chdirDone",
         \/ Becomes(p, PutAt(loc[p], r)) \/ Becomes(p, PutIp(loc[p], r))
         \/ Becomes(p, PutDp(loc[p], r))
  PROVE  RefsFollow(p)
<1>1. loc \in [Procs -> Local] /\ loc[p] \in Local /\ Shape(loc[p])
  BY DEF Inv, Shapes
<1>2. loc[p].put = None /\ Stage(loc[p]) # "chdirDone"
  BY <1>1 DEF Shape, Stage
<1>3. loc'[p] \in {PutAt(loc[p], r), PutIp(loc[p], r), PutDp(loc[p], r)}
  BY <1>1, View
<1>4. Stage(loc'[p]) = r
  BY <1>1, <1>2, <1>3, VarsPut, InumsAre
<1>5. \A i \in Inums : Vars(loc'[p], i) = Vars(loc[p], i)
  BY <1>1, <1>2, <1>3, VarsPut
<1> QED
  BY <1>2, <1>4, <1>5, FollowKeeps

\* References follow pointers in the beginning of a call.
LEMMA CallFollows ==
  ASSUME Inv, NEW p \in Procs, Shapes', FsOK(fs'), NEW c \in Calls, Begins(p, c)
  PROVE  RefsFollow(p)
<1>1. loc \in [Procs -> Local] /\ Shape(loc[p]) /\ loc[p].pc = "user" /\ cwd \in [Procs -> Inums]
  BY DEF Inv, Shapes, Begins
<1>2. PICK i \in Inums : i = IF c.relative THEN cwd[p] ELSE ROOTINO
  BY <1>1, InumsAre
<1>3. PICK M : M = [Idle EXCEPT
                     !.pc = IF c.path = <<>> THEN c.op ELSE "walk", !.op = c.op,
                     !.path = c.path, !.new = c.new,
                     !.at = IF c.path = <<>> THEN None ELSE i,
                     !.ip = IF c.path = <<>> THEN i ELSE None]
  OBVIOUS
<1>4. loc'[p] = M /\ AddRefs(fs, fs', i, 1) /\ UNCHANGED <<cwd, file>>
  <2>1. Becomes(p, M) /\ AddRefs(fs, fs', i, 1) /\ UNCHANGED <<cwd, file>>
    BY <1>2, <1>3 DEF Begins, Gets, Rest
  <2> QED
    BY <1>1, <2>1, View
<1>5. loc[p] = Idle /\ Idle \in Local
  BY <1>1, IdleShape DEF Shape
<1>6. /\ M.pc = (IF c.path = <<>> THEN c.op ELSE "walk") /\ M.ret = "user" /\ M.dp = None /\ M.put = None
      /\ M.at = (IF c.path = <<>> THEN None ELSE i) /\ M.ip = (IF c.path = <<>> THEN i ELSE None)
      /\ Idle.at = None /\ Idle.ip = None /\ Idle.dp = None /\ Idle.put = None /\ Idle.pc = "user"
  BY <1>3 DEF Idle
<1>7. Stage(M) # "chdirDone" /\ Stage(Idle) # "chdirDone"
  <2>1. c.op \in {"link", "unlink", "create", "mkdir", "open", "chdir"}
    BY FsAssumption
  <2> QED
    BY <1>6, <2>1 DEF Stage
<1>8. \A k \in Inums : Vars(M, k) = Vars(Idle, k) + Ind(k = i)
  BY <1>5, <1>6, VarsGet
<1> QED
  BY <1>4, <1>5, <1>7, <1>8, FollowGets

\* References follow pointers in the end of a walk.
LEMMA StopsFollows ==
  ASSUME Inv, NEW p \in Procs, Shapes', FsOK(fs'), Stops(p)
  PROVE  RefsFollow(p)
<1>1. loc \in [Procs -> Local] /\ Shape(loc[p]) /\ loc[p] \in Local
  BY DEF Inv, Shapes
<1>2. PICK L \in Local : L = loc[p] /\ Shape(L) /\ L.pc = "walk" /\ nameiparent(L)
  BY <1>1 DEF Stops
<1>3. PICK M : M = [L EXCEPT !.pc = IF L.op = "link" THEN "linkNew" ELSE L.op,
                             !.dp = L.at, !.at = None]
  OBVIOUS
<1>4. Becomes(p, M) /\ UNCHANGED <<cwd, file>> /\ SameRefs(fs, fs')
  BY <1>2, <1>3 DEF Stops, Rest, Quiet
<1>5. loc'[p] = M
  BY <1>1, <1>4, View
<1>6. L.dp = None /\ Stage(L) = "walk" /\ L.op \in {"link", "unlink", "create", "mkdir"}
  BY <1>2 DEF Shape, Stage, HasDp, nameiparent
<1>7. /\ M.at = None /\ M.ip = L.ip /\ M.dp = L.at /\ M.put = L.put
      /\ M.pc = IF L.op = "link" THEN "linkNew" ELSE L.op
  BY <1>3 DEF Local
<1>8. Stage(M) # "chdirDone"
  BY <1>6, <1>7 DEF Stage
<1>9. ASSUME NEW i \in Inums PROVE Vars(M, i) = Vars(L, i)
  <2>1. i # None
    BY InumsAre
  <2> QED
    BY <1>6, <1>7, <2>1 DEF Vars, Ind
<1>10. /\ Stage(loc[p]) # "chdirDone" /\ Stage(loc'[p]) # "chdirDone"
       /\ \A i \in Inums : Vars(loc'[p], i) = Vars(loc[p], i)
  BY <1>2, <1>5, <1>6, <1>8, <1>9
<1> QED
  BY <1>4, <1>10, FollowKeeps

\* References follow pointers in a turn of the walk.
LEMMA TurnsFollows ==
  ASSUME Inv, NEW p \in Procs, Shapes', FsOK(fs'), NEW j \in Inums, Turns(p, j)
  PROVE  RefsFollow(p)
<1>1. loc \in [Procs -> Local] /\ Shape(loc[p]) /\ loc[p] \in Local
  BY DEF Inv, Shapes
<1>2. PICK L \in Local : L = loc[p] /\ Shape(L) /\ L.pc = "walk"
  BY <1>1 DEF Turns
<1>3. L.put = None /\ Stage(L) = "walk" /\ (L.ip # None => L.op = "link")
      /\ L.op \in {"none", "link", "unlink", "create", "mkdir", "open", "chdir"}
  BY <1>2 DEF Shape, Stage, HasIp, Local
<1>4. PICK M : /\ Becomes(p, M)
               /\ \/ M = [L EXCEPT !.pc = "iput", !.put = L.at, !.ret = "walk",
                                   !.path = Tail(L.path), !.at = j]
                  \/ /\ M = [L EXCEPT !.pc = "iput", !.put = L.at, !.ret = L.op,
                                      !.path = Tail(L.path), !.at = None, !.ip = j]
                     /\ ~nameiparent(L)
  BY <1>2 DEF Turns
<1>5. loc'[p] = M /\ UNCHANGED <<cwd, file>> /\ AddRefs(fs, fs', j, 1)
  BY <1>1, <1>4, View DEF Turns, Gets, Rest
<1>6. /\ M.pc = "iput" /\ M.ret \in {"walk", L.op} /\ M.put = L.at /\ M.dp = L.dp
      /\ \/ M.at = j /\ M.ip = L.ip
         \/ M.at = None /\ M.ip = j /\ L.ip = None
  BY <1>2, <1>3, <1>4 DEF Local, nameiparent
<1>7. Stage(M) # "chdirDone"
  BY <1>3, <1>6 DEF Stage
<1>8. ASSUME NEW i \in Inums PROVE Vars(M, i) = Vars(L, i) + Ind(i = j)
  BY <1>3, <1>6, VarsGet
<1>9. /\ Stage(loc[p]) # "chdirDone" /\ Stage(loc'[p]) # "chdirDone"
      /\ \A i \in Inums : Vars(loc'[p], i) = Vars(loc[p], i) + Ind(i = j)
  BY <1>2, <1>3, <1>5, <1>7, <1>8
<1> QED
  BY <1>5, <1>9, FollowGets

\* iput()
LEMMA IputFollows ==
  ASSUME Inv, NEW p \in Procs, Shapes', FsOK(fs'), Frees(p) \/ Drops(p)
  PROVE  RefsFollow(p)
<1>1. loc \in [Procs -> Local] /\ Shape(loc[p]) /\ loc[p] \in Local
  BY DEF Inv, Shapes
<1>2. PICK L \in Local : L = loc[p] /\ Shape(L)
  BY <1>1
<1>3. UNCHANGED <<cwd, file>>
  BY DEF Frees, Drops, Rest
<1>4. CASE Frees(p)
  <2>1. PICK M : M = [L EXCEPT !.pc = "drop"]
    OBVIOUS
  <2>2. Becomes(p, M) /\ SameRefs(fs, fs') /\ L.pc = "iput"
    BY <1>2, <1>4, <2>1 DEF Frees
  <2>3. loc'[p] = M
    BY <1>1, <2>2, View
  <2>4. M.at = L.at /\ M.ip = L.ip /\ M.dp = L.dp /\ M.put = L.put /\ M.pc = "drop" /\ M.ret = L.ret
    BY <2>1 DEF Local
  <2>5. Stage(M) = Stage(L) /\ \A i : Vars(M, i) = Vars(L, i)
    BY <2>2, <2>4 DEF Stage, Vars
  <2> QED
    BY <1>2, <1>3, <2>2, <2>3, <2>5, FollowKeeps
<1>5. CASE Drops(p)
  <2>1. PICK M : M = IF L.ret = "user" THEN Idle ELSE [L EXCEPT !.pc = L.ret, !.put = None]
    OBVIOUS
  <2>2. Becomes(p, M) /\ L.pc = "drop" /\ AddRefs(fs, fs', L.put, -1)
    BY <1>2, <1>5, <2>1 DEF Drops
  <2>3. loc'[p] = M
    BY <1>1, <2>2, View
  <2>4. /\ M.at = L.at /\ M.ip = L.ip /\ M.dp = L.dp /\ M.put = None /\ Stage(M) = Stage(L)
    <3>1. CASE L.ret = "user"
      <4>1. L.at = None /\ L.ip = None /\ L.dp = None /\ Stage(L) = "user"
        BY <1>2, <2>2, <3>1 DEF Shape, Stage, HasIp, HasDp
      <4> QED
        BY <2>1, <3>1, <4>1 DEF Idle, Stage
    <3>2. CASE L.ret # "user"
      <4>1. /\ M.at = L.at /\ M.ip = L.ip /\ M.dp = L.dp /\ M.put = None /\ M.pc = L.ret
        BY <2>1, <3>2 DEF Local
      <4>2. L.ret \notin {"iput", "drop"}
        BY <1>2, <2>2 DEF Shape, Stage
      <4> QED
        BY <2>2, <4>1, <4>2 DEF Stage
    <3> QED
      BY <3>1, <3>2
  <2>5. ASSUME NEW i \in Inums
        PROVE  Vars(M, i) + fs.mem[i].ref = Vars(L, i) + fs'.mem[i].ref
    <3>1. i # None
      BY InumsAre
    <3>2. PICK d \in Int : d = Ind(L.put = i)
      BY DEF Ind
    <3>3. PICK v \in Int : v = Vars(M, i)
      BY DEF Vars, Ind
    <3>4. Vars(L, i) = v + d
      BY <2>4, <3>1, <3>2, <3>3 DEF Vars, Ind
    <3>5. PICK r \in Int : r = fs.mem[i].ref
      BY SlotTypes DEF Inv, FsOK, MInode
    <3>6. fs'.mem[i].ref = r - d
      BY <2>2, <3>2, <3>5 DEF AddRefs, Ind
    <3>7. v + r = (v + d) + (r - d)
      OBVIOUS
    <3> QED
      BY <3>3, <3>4, <3>5, <3>6, <3>7
  <2>6. /\ Stage(loc[p]) = "chdirDone" <=> Stage(loc'[p]) = "chdirDone"
        /\ \A i \in Inums : Vars(loc'[p], i) + fs.mem[i].ref = Vars(loc[p], i) + fs'.mem[i].ref
    BY <1>2, <2>3, <2>4, <2>5
  <2> QED
    BY <1>3, <2>6, FollowLocals
<1> QED
  BY <1>4, <1>5

\* A new reference in a local variable.
LEMMA TakesFollows ==
  ASSUME Inv, NEW p \in Procs, Shapes', FsOK(fs'),
         \/ CountsLink(p) \/ FindsOld(p) \/ FindsEntry(p) \/ FindsThere(p)
         \/ \E i \in Inums : Allocates(p, i)
  PROVE  RefsFollow(p)
<1>1. loc \in [Procs -> Local] /\ Shape(loc[p]) /\ loc[p] \in Local
  BY DEF Inv, Shapes
<1>2. PICK L \in Local : L = loc[p] /\ Shape(L)
  BY Zenon, <1>1
<1>3. PICK j \in Inums : \E M :
        /\ AddRefs(fs, fs', j, 1) /\ Becomes(p, M) /\ UNCHANGED <<cwd, file>>
        /\ \/ L.pc = "link" /\ M = [L EXCEPT !.pc = "walk", !.path = L.new, !.at = j]
           \/ L.pc = "linkNew" /\ M = [L EXCEPT !.pc = "iput", !.put = j, !.ret = "linkExists"]
           \/ L.pc = "unlink" /\ M = [L EXCEPT !.pc = "unlinkEntry", !.ip = j]
           \/ /\ L.pc \in {"create", "mkdir"}
              /\ M = [L EXCEPT !.pc = "iput", !.put = L.dp, !.dp = None, !.ip = j,
                               !.ret = "createThere"]
           \/ L.pc \in {"create", "mkdir"} /\ M = [L EXCEPT !.pc = "createNew", !.ip = j]
  <2>1. CASE CountsLink(p)
    BY Zenon, <1>2, <2>1 DEF CountsLink, Gets, Rest
  <2>2. CASE FindsOld(p)
    BY Zenon, <1>2, <2>2 DEF FindsOld, Gets, Rest
  <2>3. CASE FindsEntry(p)
    BY Zenon, <1>2, <2>3 DEF FindsEntry, Gets, Rest
  <2>4. CASE FindsThere(p)
    BY Zenon, <1>2, <2>4 DEF FindsThere, Gets, Rest
  <2>5. CASE \E i \in Inums : Allocates(p, i)
    BY Zenon, <1>2, <2>5 DEF Allocates, Rest
  <2> QED
    BY Zenon, <2>1, <2>2, <2>3, <2>4, <2>5
<1>m. PICK M :
        /\ AddRefs(fs, fs', j, 1) /\ Becomes(p, M) /\ UNCHANGED <<cwd, file>>
        /\ \/ L.pc = "link" /\ M = [L EXCEPT !.pc = "walk", !.path = L.new, !.at = j]
           \/ L.pc = "linkNew" /\ M = [L EXCEPT !.pc = "iput", !.put = j, !.ret = "linkExists"]
           \/ L.pc = "unlink" /\ M = [L EXCEPT !.pc = "unlinkEntry", !.ip = j]
           \/ /\ L.pc \in {"create", "mkdir"}
              /\ M = [L EXCEPT !.pc = "iput", !.put = L.dp, !.dp = None, !.ip = j,
                               !.ret = "createThere"]
           \/ L.pc \in {"create", "mkdir"} /\ M = [L EXCEPT !.pc = "createNew", !.ip = j]
  BY <1>3
<1>4. loc'[p] = M
  BY <1>1, <1>m, View
<1>5. /\ Stage(L) = L.pc /\ L.put = None /\ (L.pc # "link" /\ L.pc # "linkNew" => L.ip = None)
      /\ (L.pc = "link" => L.at = None)
  BY <1>2, <1>m DEF Shape, Stage, HasIp
<1>6. /\ M.pc \in {"walk", "iput", "unlinkEntry", "createNew"}
      /\ M.pc = "iput" => M.ret \in {"linkExists", "createThere"}
      /\ \/ L.at = None /\ M.at = j /\ M.ip = L.ip /\ M.dp = L.dp /\ M.put = L.put
         \/ L.ip = None /\ M.at = L.at /\ M.ip = j /\ M.dp = L.dp /\ M.put = L.put
         \/ L.put = None /\ M.at = L.at /\ M.ip = L.ip /\ M.dp = L.dp /\ M.put = j
         \/ L.put = None /\ L.ip = None /\ M.at = L.at /\ M.ip = j /\ M.dp = None /\ M.put = L.dp
  <2>1. CASE L.pc = "link" /\ M = [L EXCEPT !.pc = "walk", !.path = L.new, !.at = j]
    BY <1>5, <2>1 DEF Local
  <2>2. CASE L.pc = "linkNew" /\ M = [L EXCEPT !.pc = "iput", !.put = j, !.ret = "linkExists"]
    BY <1>5, <2>2 DEF Local
  <2>3. CASE L.pc = "unlink" /\ M = [L EXCEPT !.pc = "unlinkEntry", !.ip = j]
    BY <1>5, <2>3 DEF Local
  <2>4. CASE /\ L.pc \in {"create", "mkdir"}
             /\ M = [L EXCEPT !.pc = "iput", !.put = L.dp, !.dp = None, !.ip = j,
                              !.ret = "createThere"]
    BY <1>5, <2>4 DEF Local
  <2>5. CASE L.pc \in {"create", "mkdir"} /\ M = [L EXCEPT !.pc = "createNew", !.ip = j]
    BY <1>5, <2>5 DEF Local
  <2> QED
    BY <1>m, <2>1, <2>2, <2>3, <2>4, <2>5
<1>7. Stage(L) # "chdirDone" /\ Stage(M) # "chdirDone"
  BY <1>m, <1>5, <1>6 DEF Stage
<1>8. ASSUME NEW i \in Inums PROVE Vars(M, i) = Vars(L, i) + Ind(i = j)
  BY <1>6, VarsGet
<1>9. /\ Stage(loc[p]) # "chdirDone" /\ Stage(loc'[p]) # "chdirDone"
      /\ \A i \in Inums : Vars(loc'[p], i) = Vars(loc[p], i) + Ind(i = j)
  BY <1>2, <1>4, <1>7, <1>8
<1> QED
  BY <1>m, <1>9, FollowGets

\* References follow pointers in opening and writing.
LEMMA QuietFollows ==
  ASSUME Inv, NEW p \in Procs, Shapes', FsOK(fs'), LocksFound(p) \/ Writes(p)
  PROVE  RefsFollow(p)
<1>1. loc \in [Procs -> Local] /\ Shape(loc[p]) /\ loc[p] \in Local
  BY DEF Inv, Shapes
<1>2. PICK L \in Local : L = loc[p] /\ Shape(L)
  BY <1>1
<1>3. PICK M : M = loc'[p]
  OBVIOUS
<1>4. M = L \/ (M = [L EXCEPT !.pc = "opened"] /\ L.pc \in {"createThere", "open"})
  <2>1. CASE LocksFound(p)
    BY <1>1, <1>2, <1>3, <2>1, View DEF LocksFound
  <2>2. CASE Writes(p)
    BY <1>2, <1>3, <2>2 DEF Writes
  <2> QED
    BY <2>1, <2>2
<1>5. UNCHANGED <<cwd, file>> /\ SameRefs(fs, fs')
  BY DEF LocksFound, Writes, Rest
<1>6. M.at = L.at /\ M.ip = L.ip /\ M.dp = L.dp /\ M.put = L.put /\ M.ret = L.ret
      /\ (M.pc = L.pc \/ (M.pc = "opened" /\ L.pc \in {"createThere", "open"}))
  BY <1>4 DEF Local
<1>7. Stage(L) = "chdirDone" <=> Stage(M) = "chdirDone"
  BY <1>6 DEF Stage
<1>8. \A i \in Inums : Vars(M, i) = Vars(L, i)
  BY <1>6 DEF Vars
<1> QED
  BY <1>2, <1>3, <1>5, <1>7, <1>8, FollowKeeps

\* A reference changes hands between a call, the open file and the current directory.
LEMMA HandsFollow ==
  ASSUME Inv, NEW p \in Procs, Shapes', FsOK(fs'),
         Opens(p) \/ LeavesDir(p) \/ EntersDir(p) \/ Closes(p)
  PROVE  RefsFollow(p)
<1>1. loc \in [Procs -> Local] /\ Shape(loc[p]) /\ loc[p] \in Local
      /\ cwd \in [Procs -> Inums] /\ file \in [Procs -> Inums \cup {None}]
  BY DEF Inv, Shapes
<1>2. PICK L \in Local : L = loc[p] /\ Shape(L)
  BY <1>1
<1>3. SameRefs(fs, fs')
  BY DEF Opens, LeavesDir, EntersDir, Closes, Quiet
<1>4. Idle.at = None /\ Idle.ip = None /\ Idle.dp = None /\ Idle.put = None /\ Stage(Idle) = "user"
  BY DEF Idle, Stage
<1>5. ASSUME NEW i \in Inums
      PROVE  Ind(Dir(loc'[p], cwd'[p]) = i) + Ind(file'[p] = i) + Vars(loc'[p], i)
             = Ind(Dir(loc[p], cwd[p]) = i) + Ind(file[p] = i) + Vars(loc[p], i)
  <2>1. i # None
    BY InumsAre
  <2>2. CASE Opens(p)
    <3>1. /\ loc'[p] = Idle /\ cwd'[p] = cwd[p] /\ file'[p] = L.ip /\ file[p] = None
          /\ L.pc = "opened"
      BY <1>1, <1>2, <2>2, View DEF Opens
    <3>2. Stage(L) = "opened" /\ L.at = None /\ L.dp = None /\ L.put = None
      BY <1>2, <3>1 DEF Shape, Stage, HasDp
    <3>3. Dir(loc'[p], cwd'[p]) = cwd[p] /\ Dir(loc[p], cwd[p]) = cwd[p]
      BY <1>2, <1>4, <3>1, <3>2 DEF Dir
    <3>4. Vars(loc'[p], i) = 0 /\ Vars(loc[p], i) = Ind(L.ip = i) /\ Ind(None = i) = 0
      BY <1>2, <1>4, <2>1, <3>1, <3>2 DEF Vars, Ind
    <3>5. PICK a \in Int : a = Ind(cwd[p] = i)
      BY DEF Ind
    <3>6. PICK b \in Int : b = Ind(L.ip = i)
      BY DEF Ind
    <3> QED
      BY <3>1, <3>3, <3>4, <3>5, <3>6
  <2>3. CASE LeavesDir(p)
    <3>1. PICK M : M = [L EXCEPT !.pc = "iput", !.put = cwd[p], !.ret = "chdirDone"]
      OBVIOUS
    <3>2. loc'[p] = M /\ cwd'[p] = cwd[p] /\ file'[p] = file[p] /\ L.pc = "chdir"
      BY <1>1, <1>2, <2>3, <3>1, View DEF LeavesDir, Rest
    <3>3. Stage(L) = "chdir" /\ L.put = None
      BY <1>2, <3>2 DEF Shape, Stage
    <3>4. M.at = L.at /\ M.ip = L.ip /\ M.dp = L.dp /\ M.put = cwd[p] /\ Stage(M) = "chdirDone"
      BY <3>1 DEF Local, Stage
    <3>5. Dir(loc'[p], cwd'[p]) = None /\ Dir(loc[p], cwd[p]) = cwd[p]
      BY <1>2, <3>2, <3>3, <3>4 DEF Dir
    <3>6. PICK a \in Int : a = Ind(cwd[p] = i)
      BY DEF Ind
    <3>7. PICK v \in Int : v = Vars(L, i)
      BY DEF Vars, Ind
    <3>8. Vars(M, i) = v + a /\ Ind(None = i) = 0
      BY <2>1, <3>3, <3>4, <3>6, <3>7 DEF Vars, Ind
    <3>9. PICK b \in Int : b = Ind(file[p] = i)
      BY DEF Ind
    <3>10. 0 + b + (v + a) = a + b + v
      OBVIOUS
    <3> QED
      BY <1>2, <3>2, <3>5, <3>6, <3>7, <3>8, <3>9, <3>10
  <2>4. CASE EntersDir(p)
    <3>1. loc'[p] = Idle /\ cwd'[p] = L.ip /\ file'[p] = file[p] /\ L.pc = "chdirDone"
      BY <1>1, <1>2, <2>4, View DEF EntersDir
    <3>2. Stage(L) = "chdirDone" /\ L.at = None /\ L.dp = None /\ L.put = None
      BY <1>2, <3>1 DEF Shape, Stage, HasDp
    <3>3. Dir(loc'[p], cwd'[p]) = L.ip /\ Dir(loc[p], cwd[p]) = None
      BY <1>2, <1>4, <3>1, <3>2 DEF Dir
    <3>4. Vars(loc'[p], i) = 0 /\ Vars(loc[p], i) = Ind(L.ip = i) /\ Ind(None = i) = 0
      BY <1>2, <1>4, <2>1, <3>1, <3>2 DEF Vars, Ind
    <3>5. PICK a \in Int : a = Ind(file[p] = i)
      BY DEF Ind
    <3>6. PICK b \in Int : b = Ind(L.ip = i)
      BY DEF Ind
    <3>7. b + a + 0 = 0 + a + b
      OBVIOUS
    <3> QED
      BY <3>1, <3>3, <3>4, <3>5, <3>6, <3>7
  <2>5. CASE Closes(p)
    <3>1. PICK M : M = [L EXCEPT !.pc = "iput", !.put = file[p]]
      OBVIOUS
    <3>2. loc'[p] = M /\ cwd'[p] = cwd[p] /\ file'[p] = None /\ L.pc = "user"
      BY <1>1, <1>2, <2>5, <3>1, View DEF Closes
    <3>3. L = Idle /\ L.ret = "user" /\ L.put = None
      BY <1>2, <3>2 DEF Shape, Idle
    <3>4. M.at = L.at /\ M.ip = L.ip /\ M.dp = L.dp /\ M.put = file[p] /\ Stage(M) = "user"
      BY <3>1, <3>3 DEF Local, Stage
    <3>5. Dir(loc'[p], cwd'[p]) = cwd[p] /\ Dir(loc[p], cwd[p]) = cwd[p]
      BY <1>2, <1>4, <3>2, <3>3, <3>4 DEF Dir
    <3>6. PICK a \in Int : a = Ind(cwd[p] = i)
      BY DEF Ind
    <3>7. PICK b \in Int : b = Ind(file[p] = i)
      BY DEF Ind
    <3>8. PICK v \in Int : v = Vars(L, i)
      BY DEF Vars, Ind
    <3>9. Vars(M, i) = v + b /\ Ind(None = i) = 0
      BY <2>1, <3>3, <3>4, <3>7, <3>8 DEF Vars, Ind
    <3>10. a + 0 + (v + b) = a + b + v
      OBVIOUS
    <3> QED
      BY <1>2, <3>2, <3>5, <3>6, <3>7, <3>8, <3>9, <3>10
  <2> QED
    BY <2>2, <2>3, <2>4, <2>5
<1>6. ASSUME NEW i \in Inums
      PROVE  Ind(Dir(loc'[p], cwd'[p]) = i) + Ind(file'[p] = i) + Vars(loc'[p], i) + fs.mem[i].ref
             = Ind(Dir(loc[p], cwd[p]) = i) + Ind(file[p] = i) + Vars(loc[p], i) + fs'.mem[i].ref
  BY <1>3, <1>5 DEF SameRefs
<1> QED
  BY <1>6, FollowVars

\* References follow pointers in every step.
LEMMA RefsEffect ==
  ASSUME Inv, NEW p \in Procs, Effect(p), FsOK(fs')
  PROVE  RefsExact'
<1>1. Shapes' /\ OthersKeep(p)
  BY ShapeEffect, EffectApart, ApartPointers
<1>2. RefsFollow(p)
  <2>1. CASE \E c \in Calls : Begins(p, c)
    BY <1>1, <2>1, CallFollows
  <2>2. CASE Stops(p) \/ \E i \in Inums : Turns(p, i)
    BY <1>1, <2>2, StopsFollows, TurnsFollows
  <2>3. CASE Frees(p) \/ Drops(p)
    BY <1>1, <2>3, IputFollows
  <2>4. CASE Fails(p)
    <3>1. UNCHANGED <<cwd, file>> /\ SameRefs(fs, fs') /\ loc[p].pc = "walk"
      BY <2>4 DEF Fails, Rest, Quiet
    <3>2. \/ Becomes(p, PutAt(loc[p], "linkBad"))
          \/ Becomes(p, PutAt(loc[p], "user"))
      BY <2>4 DEF Fails
    <3> QED
      BY <1>1, <3>1, <3>2, FollowPuts
  <2>5. CASE PutsIp(p) \/ PutsBad(p) \/ PutsDp(p) \/ Unlocks(p) \/ UnlocksIp(p) \/ Uncounts(p)
    <3>1. /\ UNCHANGED <<cwd, file>> /\ SameRefs(fs, fs')
          /\ loc[p].pc \notin {"iput", "drop", "chdirDone"}
      BY <2>5 DEF PutsIp, PutsBad, PutsDp, Unlocks, UnlocksIp, Uncounts, Rest, Quiet
    <3>2. \E r : r # "chdirDone" /\ (Becomes(p, PutIp(loc[p], r)) \/ Becomes(p, PutDp(loc[p], r)))
      BY <2>5 DEF PutsIp, PutsBad, PutsDp, Unlocks, UnlocksIp, Uncounts
    <3> QED
      BY <1>1, <3>1, <3>2, FollowPuts
  <2>6. CASE AddsEntry(p) \/ MakesFile(p) \/ MakesDir(p) \/ RemovesEntry(p)
    <3>1. /\ UNCHANGED <<cwd, file>> /\ SameRefs(fs, fs')
          /\ loc[p].pc \notin {"iput", "drop", "chdirDone"}
      BY Zenon, <2>6 DEF AddsEntry, MakesFile, MakesDir, RemovesEntry, Rest
    <3>2. \E r : r # "chdirDone" /\ Becomes(p, PutDp(loc[p], r))
      BY Zenon, <2>6 DEF AddsEntry, MakesFile, MakesDir, RemovesEntry
    <3> QED
      BY Zenon, <1>1, <3>1, <3>2, FollowPuts
  <2>7. CASE \/ CountsLink(p) \/ FindsOld(p) \/ FindsEntry(p) \/ FindsThere(p)
             \/ \E i \in Inums : Allocates(p, i)
    BY <1>1, <2>7, TakesFollows
  <2>8. CASE LocksFound(p) \/ Writes(p)
    BY <1>1, <2>8, QuietFollows
  <2>9. CASE Opens(p) \/ LeavesDir(p) \/ EntersDir(p) \/ Closes(p)
    BY <1>1, <2>9, HandsFollow
  <2> QED
    BY <2>1, <2>2, <2>3, <2>4, <2>5, <2>6, <2>7, <2>8, <2>9 DEF Effect
<1> QED
  BY <1>1, <1>2, RefsStep DEF Inv, FsOK

-----------------------------------------------------------------------------
\* The locks.

Unlocking == LocksDp \cup LocksIp

\* Who holds which lock, if a step changes the locks of p only:
LEMMA LockedStep ==
  ASSUME Inv, NEW p \in Procs, Apart(p),
         \A i \in Inums : fs'.mem[i].owner = p <=> Holds(loc'[p], i),
         \A i \in Inums, q \in Procs : q # p => (fs'.mem[i].owner = q <=> fs.mem[i].owner = q)
  PROVE  Locked'
<1>1. SUFFICES ASSUME NEW q \in Procs, NEW i \in Inums
               PROVE  fs'.mem[i].owner = q <=> Holds(loc'[q], i)
  BY DEF Locked
<1>2. CASE q = p
  BY <1>2
<1>3. CASE q # p
  <2>1. loc'[q] = loc[q]
    BY <1>3 DEF Apart
  <2>2. fs.mem[i].owner = q <=> Holds(loc[q], i)
    BY DEF Inv, Locked
  <2> QED
    BY <1>3, <2>1, <2>2
<1> QED
  BY <1>2, <1>3

\* when no lock changes hands,
LEMMA LockedSame ==
  ASSUME Inv, NEW p \in Procs, Apart(p), SameOwners(fs, fs'),
         \A i \in Inums : Holds(loc'[p], i) <=> Holds(loc[p], i)
  PROVE  Locked'
<1>1. \A i \in Inums : fs.mem[i].owner = p <=> Holds(loc[p], i)
  BY DEF Inv, Locked
<1>2. \A i \in Inums : fs'.mem[i].owner = p <=> Holds(loc'[p], i)
  BY <1>1 DEF SameOwners
<1>3. \A i \in Inums, q \in Procs : q # p => (fs'.mem[i].owner = q <=> fs.mem[i].owner = q)
  BY DEF SameOwners
<1> QED
  BY <1>2, <1>3, LockedStep

\* when one is taken,
LEMMA LockedTakes ==
  ASSUME Inv, NEW p \in Procs, Apart(p), NEW x \in Inums, Locks(p, x),
         \A i \in Inums : Holds(loc'[p], i) <=> i = x \/ Holds(loc[p], i)
  PROVE  Locked'
<1>1. \A i \in Inums : fs.mem[i].owner = p <=> Holds(loc[p], i)
  BY DEF Inv, Locked
<1>2. \A i \in Inums : fs'.mem[i].owner = p <=> Holds(loc'[p], i)
  BY <1>1 DEF Locks, SetOwner
<1>n. NoProc \notin Procs
  BY FsAssumption
<1>3. \A i \in Inums, q \in Procs : q # p => (fs'.mem[i].owner = q <=> fs.mem[i].owner = q)
  BY <1>n DEF Locks, SetOwner
<1> QED
  BY <1>2, <1>3, LockedStep

\* when one is let go,
LEMMA LockedLets ==
  ASSUME Inv, NEW p \in Procs, Apart(p), NEW x \in Inums, SetOwner(fs, fs', x, NoProc),
         Holds(loc[p], x),
         \A i \in Inums : Holds(loc'[p], i) <=> i # x /\ Holds(loc[p], i)
  PROVE  Locked'
<1>1. \A i \in Inums : fs.mem[i].owner = p <=> Holds(loc[p], i)
  BY DEF Inv, Locked
<1>n. NoProc \notin Procs
  BY FsAssumption
<1>2. \A i \in Inums : fs'.mem[i].owner = p <=> Holds(loc'[p], i)
  BY <1>1, <1>n DEF SetOwner
<1>3. \A i \in Inums, q \in Procs : q # p => (fs'.mem[i].owner = q <=> fs.mem[i].owner = q)
  BY <1>1, <1>n DEF SetOwner
<1> QED
  BY <1>2, <1>3, LockedStep

\* when sys_unlink() passes from the parent to the child,
LEMMA LockedPasses ==
  ASSUME Inv, NEW p \in Procs, Apart(p), PassesLock(p), loc[p].dp \in Inums, loc[p].ip \in Inums,
         Stage(loc[p]) \in LocksDp, Stage(loc'[p]) \in LocksIp, loc'[p].ip = loc[p].ip
  PROVE  Locked'
<1>1. \A i \in Inums : fs.mem[i].owner = p <=> Holds(loc[p], i)
  BY DEF Inv, Locked
<1>n. NoProc \notin Procs
  BY FsAssumption
<1>2. \A i \in Inums : Holds(loc[p], i) <=> i = loc[p].dp
  BY DEF Holds, LocksDp, LocksIp
<1>3. \A i \in Inums : Holds(loc'[p], i) <=> i = loc[p].ip
  BY DEF Holds, LocksDp, LocksIp
<1>4. fs.mem[loc[p].dp].owner = p /\ fs.mem[loc[p].ip].owner = NoProc
  BY <1>1, <1>2 DEF PassesLock
<1>5. loc[p].dp # loc[p].ip
  BY <1>4, <1>n
<1>6. \A i \in Inums : fs'.mem[i].owner = p <=> Holds(loc'[p], i)
  BY <1>1, <1>2, <1>3, <1>4, <1>5, <1>n DEF PassesLock
<1>7. \A i \in Inums, q \in Procs : q # p => (fs'.mem[i].owner = q <=> fs.mem[i].owner = q)
  BY <1>4, <1>5, <1>n DEF PassesLock
<1> QED
  BY <1>6, <1>7, LockedStep

\* What remains of the local variables when an inode is about to be put.
LEMMA StageOf ==
  ASSUME NEW L \in Local, NEW r
  PROVE  /\ Stage(PutAt(L, r)) = r /\ PutAt(L, r).ip = L.ip /\ PutAt(L, r).dp = L.dp
         /\ Stage(PutIp(L, r)) = r /\ PutIp(L, r).dp = L.dp
         /\ Stage(PutDp(L, r)) = r /\ PutDp(L, r).ip = L.ip
<1>1. PICK M : M = PutAt(L, r)
  OBVIOUS
<1>2. M.ip = L.ip /\ M.dp = L.dp /\ M.pc = "iput" /\ M.ret = r
  BY <1>1 DEF PutAt, Local
<1>3. PICK N : N = PutIp(L, r)
  OBVIOUS
<1>4. N.dp = L.dp /\ N.pc = "iput" /\ N.ret = r
  BY <1>3 DEF PutIp, Local
<1>5. PICK O : O = PutDp(L, r)
  OBVIOUS
<1>6. O.ip = L.ip /\ O.pc = "iput" /\ O.ret = r
  BY <1>5 DEF PutDp, Local
<1> QED
  BY <1>1, <1>2, <1>3, <1>4, <1>5, <1>6 DEF Stage

\* Who holds no lock before a step and none after it.
NoLock(L) == Stage(L) \notin LocksDp /\ Stage(L) \notin LocksIp

\* and when p has none before and after.
LEMMA LockedNone ==
  ASSUME Inv, NEW p \in Procs, Apart(p), SameOwners(fs, fs'), NoLock(loc[p]), NoLock(loc'[p])
  PROVE  Locked'
BY LockedSame DEF NoLock, Holds

\* The steps that hold no lock across.
LEMMA PlainLocked ==
  ASSUME Inv, NEW p \in Procs, Apart(p),
         \/ \E c \in Calls : Begins(p, c)
         \/ Stops(p) \/ (\E i \in Inums : Turns(p, i)) \/ Fails(p) \/ PutsIp(p) \/ PutsDp(p)
         \/ CountsLink(p) \/ AddsEntry(p) \/ FindsThere(p) \/ LeavesDir(p) \/ EntersDir(p)
         \/ Writes(p) \/ Closes(p)
  PROVE  Locked'
<1>1. loc \in [Procs -> Local] /\ Shape(loc[p]) /\ loc[p] \in Local
  BY DEF Inv, Shapes
<1>2. PICK L \in Local : L = loc[p] /\ Shape(L)
  BY Zenon, <1>1
<1>3. SameOwners(fs, fs') /\ L.pc \in {"user", "walk", "link", "linkDone", "createThere", "open",
                                      "chdir", "unlink", "linkNew", "create", "mkdir", "chdirDone"}
  BY Zenon, <1>2 DEF Begins, Stops, Turns, Fails, PutsIp, PutsDp, CountsLink, AddsEntry, FindsThere,
              LeavesDir, EntersDir, Writes, Closes, Quiet
<1>4. NoLock(L)
  BY <1>3 DEF NoLock, Stage, LocksDp, LocksIp
<1>5. NoLock(loc'[p])
  <2>1. CASE \E c \in Calls : Begins(p, c)
    <3>1. PICK c \in Calls : Begins(p, c)
      BY <2>1
    <3>2. PICK i : i = IF c.relative THEN cwd[p] ELSE ROOTINO
      OBVIOUS
    <3>3. PICK M : M = [Idle EXCEPT
                     !.pc = IF c.path = <<>> THEN c.op ELSE "walk", !.op = c.op,
                     !.path = c.path, !.new = c.new,
                     !.at = IF c.path = <<>> THEN None ELSE i,
                     !.ip = IF c.path = <<>> THEN i ELSE None]
      OBVIOUS
    <3>4. Becomes(p, M)
      BY Zenon, <3>1, <3>2, <3>3 DEF Begins
    <3>5. loc'[p] = M
      BY <1>1, <3>4, View
    <3>6. M.pc = IF c.path = <<>> THEN c.op ELSE "walk"
      BY <3>3 DEF Idle
    <3>7. c.op \in {"link", "unlink", "create", "mkdir", "open", "chdir"}
      BY FsAssumption
    <3> QED
      BY <3>5, <3>6, <3>7 DEF NoLock, Stage, LocksDp, LocksIp
  <2>2. CASE Stops(p)
    <3>1. PICK M : M = [L EXCEPT !.pc = IF L.op = "link" THEN "linkNew" ELSE L.op,
                                 !.dp = L.at, !.at = None]
      OBVIOUS
    <3>2. Becomes(p, M)
      BY <1>2, <2>2, <3>1 DEF Stops
    <3>3. loc'[p] = M
      BY <1>1, <3>2, View
    <3>4. M.pc \in {"linkNew", "link", "unlink", "create", "mkdir", "open", "chdir", "none"}
      BY <3>1 DEF Local
    <3> QED
      BY <3>3, <3>4 DEF NoLock, Stage, LocksDp, LocksIp
  <2>3. ASSUME NEW i \in Inums, Turns(p, i) PROVE NoLock(loc'[p])
    <3>1. PICK M : /\ Becomes(p, M)
                   /\ \/ M = [L EXCEPT !.pc = "iput", !.put = L.at, !.ret = "walk",
                                        !.path = Tail(L.path), !.at = i]
                      \/ M = [L EXCEPT !.pc = "iput", !.put = L.at, !.ret = L.op,
                                        !.path = Tail(L.path), !.at = None, !.ip = i]
      BY Zenon, <1>2, <2>3 DEF Turns
    <3>v. loc'[p] = M
      BY <1>1, <3>1, View
    <3>2. loc'[p].pc = "iput" /\ loc'[p].ret \in {"walk", L.op}
      BY <3>1, <3>v DEF Local
    <3>3. loc'[p].ret \in {"walk", "link", "unlink", "create", "mkdir", "open", "chdir", "none"}
      BY <3>2 DEF Local
    <3> QED
      BY Zenon, <3>2, <3>3 DEF NoLock, Stage, LocksDp, LocksIp
  <2>4. CASE Fails(p) \/ PutsIp(p) \/ PutsDp(p) \/ AddsEntry(p)
    <3>1. PICK r \in {"user", "linkBad", "linkDone"} :
             \/ Becomes(p, PutAt(L, r)) \/ Becomes(p, PutIp(L, r)) \/ Becomes(p, PutDp(L, r))
      BY <1>2, <2>4 DEF Fails, PutsIp, PutsDp, AddsEntry
    <3>2. Stage(loc'[p]) = r
      BY <1>1, <3>1, View, StageOf
    <3> QED
      BY <3>2 DEF NoLock, LocksDp, LocksIp
  <2>5. CASE CountsLink(p)
    <3>1. PICK M : Becomes(p, M) /\ M = [L EXCEPT !.pc = "walk", !.path = L.new, !.at = ROOTINO]
      BY <1>2, <2>5 DEF CountsLink
    <3>v. loc'[p] = M
      BY <1>1, <3>1, View
    <3>2. loc'[p].pc = "walk"
      BY <3>1, <3>v DEF Local
    <3> QED
      BY <3>2 DEF NoLock, Stage, LocksDp, LocksIp
  <2>6. CASE FindsThere(p)
    <3>1. PICK i, M : Becomes(p, M) /\ M = [L EXCEPT !.pc = "iput", !.put = L.dp, !.dp = None,
                                                    !.ip = i, !.ret = "createThere"]
      BY Zenon, <1>2, <2>6 DEF FindsThere
    <3>v. loc'[p] = M
      BY <1>1, <3>1, View
    <3>2. loc'[p].pc = "iput" /\ loc'[p].ret = "createThere"
      BY <3>1, <3>v DEF Local
    <3> QED
      BY Zenon, <3>2 DEF NoLock, Stage, LocksDp, LocksIp
  <2>7. CASE LeavesDir(p)
    <3>1. PICK i, M : Becomes(p, M) /\ M = [L EXCEPT !.pc = "iput", !.put = i, !.ret = "chdirDone"]
      BY Zenon, <1>2, <2>7 DEF LeavesDir
    <3>v. loc'[p] = M
      BY <1>1, <3>1, View
    <3>2. loc'[p].pc = "iput" /\ loc'[p].ret = "chdirDone"
      BY <3>1, <3>v DEF Local
    <3> QED
      BY <3>2 DEF NoLock, Stage, LocksDp, LocksIp
  <2>8. CASE EntersDir(p)
    <3>1. loc'[p] = Idle
      BY <1>1, <2>8, View DEF EntersDir
    <3> QED
      BY <3>1 DEF Idle, NoLock, Stage, LocksDp, LocksIp
  <2>9. CASE Writes(p)
    BY <1>2, <1>4, <2>9 DEF Writes
  <2>10. CASE Closes(p)
    <3>1. PICK i, M : Becomes(p, M) /\ M = [L EXCEPT !.pc = "iput", !.put = i] /\ L.pc = "user"
      BY Zenon, <1>2, <2>10 DEF Closes
    <3>v. loc'[p] = M
      BY <1>1, <3>1, View
    <3>i. L.ret = "user"
      BY <1>2, <3>1 DEF Shape, Idle
    <3>2. loc'[p].pc = "iput" /\ loc'[p].ret = "user"
      BY <3>1, <3>v, <3>i DEF Local
    <3> QED
      BY <3>2 DEF NoLock, Stage, LocksDp, LocksIp
  <2> QED
    BY <2>1, <2>2, <2>3, <2>4, <2>5, <2>6, <2>7, <2>8, <2>9, <2>10
<1> QED
  BY <1>2, <1>3, <1>4, <1>5, LockedNone

\* Locks are held where the code holds them, after every step.
LEMMA LockedEffect ==
  ASSUME Inv, NEW p \in Procs, Effect(p)
  PROVE  Locked'
<1>1. loc \in [Procs -> Local] /\ Shape(loc[p]) /\ loc[p] \in Local /\ Apart(p)
  BY EffectApart DEF Inv, Shapes
<1>2. PICK L \in Local : L = loc[p] /\ Shape(L)
  BY <1>1
<1>ip. Stage(L) \in HasIp => L.ip \in Inums
  BY <1>2 DEF Shape, Local
<1>dp. Stage(L) \in HasDp => L.dp \in Inums
  BY <1>2 DEF Shape, Local
<1>3. CASE \/ \E c \in Calls : Begins(p, c)
           \/ Stops(p) \/ (\E i \in Inums : Turns(p, i)) \/ Fails(p) \/ PutsIp(p) \/ PutsDp(p)
           \/ CountsLink(p) \/ AddsEntry(p) \/ FindsThere(p) \/ LeavesDir(p) \/ EntersDir(p)
           \/ Writes(p) \/ Closes(p)
  BY <1>1, <1>3, PlainLocked
<1>4. CASE Frees(p)
  <2>1. PICK M : Becomes(p, M) /\ M = [L EXCEPT !.pc = "drop"] /\ L.pc = "iput" /\ SameOwners(fs, fs')
    BY <1>2, <1>4 DEF Frees
  <2>2. loc'[p] = M
    BY <1>1, <2>1, View
  <2>3. M.pc = "drop" /\ M.ret = L.ret /\ M.ip = L.ip /\ M.dp = L.dp
    BY <2>1 DEF Local
  <2>4. Stage(M) = Stage(L)
    BY <2>1, <2>3 DEF Stage
  <2>5. \A i \in Inums : Holds(loc'[p], i) <=> Holds(loc[p], i)
    BY <1>2, <2>2, <2>3, <2>4 DEF Holds
  <2> QED
    BY <1>1, <2>1, <2>5, LockedSame
<1>5. CASE Drops(p)
  <2>1. PICK M : /\ Becomes(p, M) /\ L.pc = "drop" /\ SameOwners(fs, fs')
                 /\ M = IF L.ret = "user" THEN Idle ELSE [L EXCEPT !.pc = L.ret, !.put = None]
    BY <1>2, <1>5 DEF Drops
  <2>2. loc'[p] = M
    BY <1>1, <2>1, View
  <2>3. Stage(L) = L.ret /\ L.ret \notin {"iput", "drop"}
    BY <1>2, <2>1 DEF Shape, Stage
  <2>4. CASE L.ret = "user"
    <3>1. Stage(M) = "user"
      BY <2>1, <2>4 DEF Idle, Stage
    <3> QED
      BY <1>1, <1>2, <2>1, <2>2, <2>3, <2>4, <3>1, LockedNone DEF NoLock, LocksDp, LocksIp
  <2>5. CASE L.ret # "user"
    <3>1. M.pc = L.ret /\ M.ip = L.ip /\ M.dp = L.dp
      BY <2>1, <2>5 DEF Local
    <3>2. Stage(M) = Stage(L)
      BY <2>3, <3>1 DEF Stage
    <3>3. \A i \in Inums : Holds(loc'[p], i) <=> Holds(loc[p], i)
      BY <1>2, <2>2, <3>1, <3>2 DEF Holds
    <3> QED
      BY <1>1, <2>1, <3>3, LockedSame
  <2> QED
    BY <2>4, <2>5
<1>6. CASE PutsBad(p)
  <2>1. PICK M : Becomes(p, M) /\ M = PutIp(L, "unlinkBad") /\ L.pc = "unlinkEntry" /\ SameOwners(fs, fs')
    BY <1>2, <1>6 DEF PutsBad, Quiet
  <2>2. loc'[p] = M
    BY <1>1, <2>1, View
  <2>3. Stage(M) = "unlinkBad" /\ M.dp = L.dp /\ Stage(L) = "unlinkEntry"
    BY <2>1, StageOf DEF Stage
  <2>4. \A i \in Inums : Holds(loc'[p], i) <=> Holds(loc[p], i)
    BY <1>2, <2>2, <2>3 DEF Holds, LocksDp, LocksIp
  <2> QED
    BY <1>1, <2>1, <2>4, LockedSame
<1>7. CASE Uncounts(p) \/ UnlocksIp(p)
  <2>1. PICK M : Becomes(p, M) /\ M = PutIp(L, "user")
    BY <1>2, <1>7 DEF Uncounts, UnlocksIp
  <2>2. loc'[p] = M
    BY <1>1, <2>1, View
  <2>3. Stage(M) = "user"
    BY <2>1, StageOf
  <2>4. \/ L.pc = "linkBad" /\ SameOwners(fs, fs')
        \/ L.pc \in {"unlinkLast", "opened"} /\ SetOwner(fs, fs', L.ip, NoProc)
    BY <1>2, <1>7 DEF Uncounts, UnlocksIp
  <2>5. CASE L.pc = "linkBad" /\ SameOwners(fs, fs')
    BY <1>1, <1>2, <2>2, <2>3, <2>5, LockedNone DEF NoLock, Stage, LocksDp, LocksIp
  <2>6. CASE L.pc \in {"unlinkLast", "opened"} /\ SetOwner(fs, fs', L.ip, NoProc)
    <3>1. Stage(L) \in LocksIp /\ Stage(L) \notin LocksDp /\ L.ip \in Inums
      BY <1>ip, <2>6 DEF Stage, LocksIp, LocksDp, HasIp
    <3>2. \A i \in Inums : Holds(loc'[p], i) <=> i # L.ip /\ Holds(loc[p], i)
      BY <1>2, <2>2, <2>3, <3>1 DEF Holds, LocksDp, LocksIp
    <3>3. Holds(loc[p], L.ip)
      BY <1>2, <3>1 DEF Holds
    <3> QED
      BY <1>1, <2>6, <3>1, <3>2, <3>3, LockedLets
  <2> QED
    BY <2>4, <2>5, <2>6
<1>8. CASE Unlocks(p)
  <2>1. PICK r \in {"linkBad", "user"} : Becomes(p, PutDp(L, r))
    BY <1>2, <1>8 DEF Unlocks
  <2>2. Stage(loc'[p]) = r
    BY <1>1, <2>1, View, StageOf
  <2>3. L.pc \in {"linkExists", "unlinkBad"} /\ SetOwner(fs, fs', L.dp, NoProc)
    BY <1>2, <1>8 DEF Unlocks
  <2>4. Stage(L) \in LocksDp /\ Stage(L) \notin LocksIp /\ L.dp \in Inums
    BY <1>dp, <2>3 DEF Stage, LocksIp, LocksDp, HasDp
  <2>5. \A i \in Inums : Holds(loc'[p], i) <=> i # L.dp /\ Holds(loc[p], i)
    BY <1>2, <2>2, <2>4 DEF Holds, LocksDp, LocksIp
  <2>6. Holds(loc[p], L.dp)
    BY <1>2, <2>4 DEF Holds
  <2> QED
    BY <1>1, <2>3, <2>4, <2>5, <2>6, LockedLets
<1>9. CASE FindsOld(p) \/ FindsEntry(p) \/ \E i \in Inums : Allocates(p, i)
  <2>1. PICK i, M : /\ Becomes(p, M) /\ Locks(p, L.dp)
                    /\ \/ L.pc = "linkNew" /\ M = [L EXCEPT !.pc = "iput", !.put = i, !.ret = "linkExists"]
                       \/ L.pc = "unlink" /\ M = [L EXCEPT !.pc = "unlinkEntry", !.ip = i]
                       \/ L.pc \in {"create", "mkdir"} /\ M = [L EXCEPT !.pc = "createNew", !.ip = i]
    <3>1. CASE FindsOld(p)
      BY Zenon, <1>2, <3>1 DEF FindsOld
    <3>2. CASE FindsEntry(p)
      BY Zenon, <1>2, <3>2 DEF FindsEntry
    <3>3. CASE \E i \in Inums : Allocates(p, i)
      BY Zenon, <1>2, <3>3 DEF Allocates
    <3> QED
      BY Zenon, <1>9, <3>1, <3>2, <3>3
  <2>2. loc'[p] = M
    BY <1>1, <2>1, View
  <2>3. /\ M.dp = L.dp
        /\ \/ M.pc = "iput" /\ M.ret = "linkExists"
           \/ M.pc \in {"unlinkEntry", "createNew"}
    BY <2>1 DEF Local
  <2>4. Stage(M) \in LocksDp /\ Stage(M) \notin LocksIp
    BY <2>3 DEF Stage, LocksDp, LocksIp
  <2>5. Stage(L) \notin LocksDp /\ Stage(L) \notin LocksIp /\ L.dp \in Inums
    BY <1>dp, <2>1 DEF Stage, LocksIp, LocksDp, HasDp
  <2>6. \A k \in Inums : Holds(loc'[p], k) <=> k = L.dp \/ Holds(loc[p], k)
    BY <1>2, <2>2, <2>3, <2>4, <2>5 DEF Holds
  <2> QED
    BY Zenon, <1>1, <2>1, <2>5, <2>6, LockedTakes
<1>10. CASE LocksFound(p)
  <2>1. PICK M : /\ Becomes(p, M) /\ M = [L EXCEPT !.pc = "opened"] /\ Locks(p, L.ip)
                 /\ L.pc \in {"createThere", "open"}
    BY <1>2, <1>10 DEF LocksFound
  <2>2. loc'[p] = M
    BY <1>1, <2>1, View
  <2>3. M.ip = L.ip /\ Stage(M) = "opened"
    BY <2>1 DEF Local, Stage
  <2>4. Stage(L) \notin LocksDp /\ Stage(L) \notin LocksIp /\ L.ip \in Inums
    BY <1>ip, <2>1 DEF Stage, LocksIp, LocksDp, HasIp
  <2>5. \A i \in Inums : Holds(loc'[p], i) <=> i = L.ip \/ Holds(loc[p], i)
    BY <1>2, <2>2, <2>3, <2>4 DEF Holds, LocksIp, LocksDp
  <2> QED
    BY <1>1, <2>1, <2>4, <2>5, LockedTakes
<1>11. CASE Opens(p)
  <2>1. loc'[p] = Idle /\ L.pc = "opened" /\ SetOwner(fs, fs', L.ip, NoProc)
    BY <1>1, <1>2, <1>11, View DEF Opens
  <2>2. Stage(L) \in LocksIp /\ Stage(L) \notin LocksDp /\ L.ip \in Inums
    BY <1>ip, <2>1 DEF Stage, LocksIp, LocksDp, HasIp
  <2>3. Stage(Idle) = "user"
    BY DEF Idle, Stage
  <2>4. \A i \in Inums : Holds(loc'[p], i) <=> i # L.ip /\ Holds(loc[p], i)
    BY <1>2, <2>1, <2>2, <2>3 DEF Holds, LocksDp, LocksIp
  <2>5. Holds(loc[p], L.ip)
    BY <1>2, <2>2 DEF Holds
  <2> QED
    BY <1>1, <2>1, <2>2, <2>4, <2>5, LockedLets
<1>12. CASE RemovesEntry(p) \/ MakesFile(p) \/ MakesDir(p)
  <2>1. PICK r \in {"unlinkLast", "opened"} : Becomes(p, PutDp(L, r)) /\ PassesLock(p)
                                              /\ L.pc \in {"unlinkEntry", "createNew"}
    BY <1>2, <1>12 DEF RemovesEntry, MakesFile, MakesDir
  <2>2. Stage(loc'[p]) = r /\ loc'[p].ip = L.ip
    BY <1>1, <2>1, View, StageOf
  <2>3. Stage(L) \in LocksDp /\ L.dp \in Inums /\ L.ip \in Inums /\ r \in LocksIp
    BY <1>dp, <1>ip, <2>1 DEF Stage, LocksIp, LocksDp, HasDp, HasIp
  <2> QED
    BY Zenon, <1>1, <1>2, <2>1, <2>2, <2>3, LockedPasses
<1> QED
  BY <1>3, <1>4, <1>5, <1>6, <1>7, <1>8, <1>9, <1>10, <1>11, <1>12 DEF Effect

==============================================================================
