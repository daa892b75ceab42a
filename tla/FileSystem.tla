----------------------------- MODULE FileSystem -----------------------------
(***************************************************************************)
(* Inodes, directories and blocks (fs.c) under the system calls that change *)
(* them (sysfile.c, file.c).  Several processes walk paths, lock one or two *)
(* inodes at a time and hold references in between; the inode on the disk,  *)
(* its copy in the inode cache, the directory entries and the block bitmap  *)
(* have to agree all the same.                                              *)
(*                                                                          *)
(* An action runs from one acquisition of an inode's sleep-lock, for which  *)
(* it waits, to the next; iput() is two actions since it drops its          *)
(* reference after it has let the lock go.  Calls are transactions of the   *)
(* log (module Log), so crashes are not seen here.                          *)
(***************************************************************************)
EXTENDS Integers, Sequences, FiniteSets

CONSTANTS Procs,
          NINODES,   \* inodes on the disk (superblock)
          Blocks,    \* data blocks, numbers
          Names,     \* names of directory entries, besides . and ..
          Calls,     \* the system calls with a path that processes may make
          MaxFile,   \* bound on the blocks of a file
          MaxLinks,  \* bound on the link count of a file
          NoProc

ROOTINO == 1
Inums == 1 .. NINODES
None == 0    \* inode number 0: an empty directory entry
Dots == {".", ".."}

ASSUME FsAssumption ==
    /\ NINODES \in Nat \ {0} /\ {MaxFile, MaxLinks} \subseteq Nat
    /\ Blocks \subseteq Nat \ {0} /\ 1 \in Blocks
    /\ Names \cap Dots = {} /\ IsFiniteSet(Names)
    /\ NoProc \notin Procs /\ IsFiniteSet(Procs)
    /\ \A c \in Calls : /\ c.op \in {"link", "unlink", "create", "mkdir", "open", "chdir"}
                        /\ c.relative \in BOOLEAN
                        /\ c.path \in Seq(Names \cup Dots) /\ c.new \in Seq(Names \cup Dots)
                        /\ c.op \in {"unlink", "create", "mkdir"} => c.path # <<>>
                        /\ c.op = "link" => c.new # <<>>

VARIABLES fs,     \* the disk and the inode cache
          loc,    \* where each process is in a call, and its local variables
          cwd,    \* proc->cwd
          file,   \* the inode of the one file a process may have open
          panic

vars == <<fs, loc, cwd, file, panic>>

Empty == [n \in Names \cup Dots |-> None]
Recycled == [ref |-> 0, valid |-> FALSE, owner |-> NoProc, type |-> "free", nlink |-> 0,
             addrs |-> {}]
Idle == [pc |-> "user", op |-> "none", path |-> <<>>, new |-> <<>>, at |-> None,
         ip |-> None, dp |-> None, put |-> None, ret |-> "user"]

\* mkfs has made the root directory, with a block for its entries; its .. is itself.
\* fs.mem is the inode cache, a slot for each number (so that iget() finds one always);
\* owner holds its sleep-lock.
Init == /\ fs = [disk |-> [i \in Inums |-> IF i = ROOTINO
                                             THEN [type |-> "dir", nlink |-> 1, addrs |-> {1}]
                                             ELSE [type |-> "free", nlink |-> 0, addrs |-> {}]],
                 mem  |-> [i \in Inums |-> IF i = ROOTINO
                                             THEN [Recycled EXCEPT !.ref = Cardinality(Procs)]
                                             ELSE Recycled],
                 ent  |-> [i \in Inums |-> IF i = ROOTINO
                                             THEN [n \in Names \cup Dots |->
                                                     IF n \in Dots THEN ROOTINO ELSE None]
                                             ELSE Empty],
                 used |-> {1}]
        /\ loc = [p \in Procs |-> Idle]
        /\ cwd = [p \in Procs |-> ROOTINO]
        /\ file = [p \in Procs |-> None]
        /\ panic = "no"

-----------------------------------------------------------------------------
\* Functions of fs.c, from file system to file system.

\* iget(): one more reference, or a fresh entry of the cache; idup() is the first case.
\* And a slip, which does not count a reference to a cached inode.
igetUncounted(F, i) == IF F.mem[i].ref > 0 THEN F
                       ELSE [F EXCEPT !.mem[i].ref = 1, !.mem[i].valid = FALSE]
iget(F, i) == IF F.mem[i].ref > 0 THEN [F EXCEPT !.mem[i].ref = @ + 1]
              ELSE [F EXCEPT !.mem[i].ref = 1, !.mem[i].valid = FALSE]

\* ilock() once it has the lock: the inode is read if it is not valid.
ilock(F, i, p) ==
    LET m == F.mem[i]
        d == F.disk[i]
    IN  [F EXCEPT !.mem[i] = IF m.valid THEN [m EXCEPT !.owner = p]
                             ELSE [m EXCEPT !.owner = p, !.valid = TRUE, !.type = d.type,
                                            !.nlink = d.nlink, !.addrs = d.addrs]]
iunlock(F, i) == [F EXCEPT !.mem[i].owner = NoProc]

iupdate(F, i) == [F EXCEPT !.disk[i] = [type |-> F.mem[i].type, nlink |-> F.mem[i].nlink,
                                        addrs |-> F.mem[i].addrs]]

\* nlink++ or nlink--, and iupdate().
relink(F, i, n) == iupdate([F EXCEPT !.mem[i].nlink = @ + n], i)

\* balloc() for inode i, as bmap() calls it; the caller has looked for a free block.
\* And a slip, which does not mark the block.
free(F) == Blocks \ F.used
ballocUnmarked(F, i) ==
    LET k == CHOOSE k \in free(F) : \A l \in free(F) : k <= l
    IN  iupdate([F EXCEPT !.mem[i].addrs = @ \cup {k}], i)
balloc(F, i) ==
    LET k == CHOOSE k \in free(F) : \A l \in free(F) : k <= l
    IN  iupdate([F EXCEPT !.used = @ \cup {k}, !.mem[i].addrs = @ \cup {k}], i)

\* itrunc(): bfree() for every block, size 0.
itrunc(F, i) == iupdate([F EXCEPT !.used = @ \ F.mem[i].addrs, !.mem[i].addrs = {},
                                  !.ent[i] = Empty], i)

\* dirlink() once the name is known to be free; the first entry takes a block.
dirlink(F, d, n, i) ==
    LET G == IF F.mem[d].addrs = {} THEN balloc(F, d) ELSE F
    IN  [G EXCEPT !.ent[d][n] = i]

isdirempty(F, d) == \A n \in Names : F.ent[d][n] = None

\* iput() with the lock, when the last reference goes and no link is left; and slips,
\* one of which forgets to clear ip->valid, while the other one does not look at ref.
freedStillValid(F, i) ==
    IF F.mem[i].valid /\ F.mem[i].nlink = 0 /\ F.mem[i].ref = 1
      THEN iupdate([itrunc(F, i) EXCEPT !.mem[i].type = "free"], i) ELSE F
freedAnyway(F, i) ==
    IF F.mem[i].valid /\ F.mem[i].nlink = 0
      THEN [iupdate([itrunc(F, i) EXCEPT !.mem[i].type = "free"], i) EXCEPT !.mem[i].valid = FALSE]
      ELSE F
freeIfLast(F, i) ==
    IF F.mem[i].valid /\ F.mem[i].nlink = 0 /\ F.mem[i].ref = 1
      THEN [iupdate([itrunc(F, i) EXCEPT !.mem[i].type = "free"], i) EXCEPT !.mem[i].valid = FALSE]
      ELSE F

-----------------------------------------------------------------------------
\* Steps of a process.

At(p, label) == panic = "no" /\ loc[p].pc = label
Unlocked(i) == fs.mem[i].owner = NoProc

\* Process p goes on at label with file system F.
Goto(p, F, label) == /\ fs' = F
                     /\ loc' = [loc EXCEPT ![p].pc = label]
                     /\ UNCHANGED <<cwd, file>>

\* Process p calls iput() for its local variable v, and then goes on at label.
Put(p, F, v, label) ==
    /\ fs' = F
    /\ loc' = [loc EXCEPT ![p] = [@ EXCEPT !.pc = "iput", !.put = loc[p][v], !.ret = label,
                                          ![v] = None]]
    /\ UNCHANGED <<cwd, file>>

\* ilock() panics when it finds a free inode.
lockedFree(F, i) == panic' = IF F.mem[i].type = "free" THEN "ilock: no type" ELSE panic

\* iput(), the part under the sleep-lock and the part under icache.lock.
iput(p) == /\ At(p, "iput")
           /\ Unlocked(loc[p].put)
           /\ Goto(p, freeIfLast(fs, loc[p].put), "drop")
           /\ UNCHANGED panic

\* The reference is dropped, and with the last one the slot of the cache; and a slip,
\* where it is dropped twice.
lessTwo(n) == n - 2
lessOne(n) == n - 1

drop(F, i) ==
    LET n == lessOne(F.mem[i].ref)
    IN  [F EXCEPT !.mem[i] = IF n = 0 THEN Recycled ELSE [F.mem[i] EXCEPT !.ref = n]]

iputDrop(p) ==
    /\ At(p, "drop")
    /\ fs' = drop(fs, loc[p].put)
    /\ loc' = [loc EXCEPT ![p] = IF loc[p].ret = "user" THEN Idle
                                 ELSE [loc[p] EXCEPT !.pc = loc[p].ret, !.put = None]]
    /\ UNCHANGED <<cwd, file, panic>>

-----------------------------------------------------------------------------
\* namex()

\* The calls that look for the parent; link() looks up its first path by namei().
nameiparent(L) == L.op \in {"unlink", "create", "mkdir"} \/ (L.op = "link" /\ L.ip # None)

\* A system call begins, inside a transaction, with iget() of the root or idup() of cwd.
syscall(p, c) ==
    LET i == IF c.relative THEN cwd[p] ELSE ROOTINO
    IN  /\ At(p, "user")
        /\ c.op = "link" => \A j \in Inums : fs.disk[j].type = "file" => fs.disk[j].nlink < MaxLinks
        /\ fs' = iget(fs, i)
        /\ loc' = [loc EXCEPT ![p] = [Idle EXCEPT
                     !.pc = IF c.path = <<>> THEN c.op ELSE "walk", !.op = c.op,
                     !.path = c.path, !.new = c.new,
                     !.at = IF c.path = <<>> THEN None ELSE i,
                     !.ip = IF c.path = <<>> THEN i ELSE None]]
        /\ UNCHANGED <<cwd, file, panic>>

\* One turn of the loop of namex(): lock, look the name up, unlock; then iput().
walk(p) ==
    LET L == loc[p]
        i == L.at
        F == ilock(fs, i, p)
        isDir == F.mem[i].type = "dir"
        stop == nameiparent(L) /\ Len(L.path) = 1
        next == F.ent[i][Head(L.path)]
        last == Len(L.path) = 1
        fail == IF L.op = "link" /\ L.ip # None THEN "linkBad" ELSE "user"
    IN  /\ At(p, "walk")
        /\ Unlocked(i)
        /\ lockedFree(F, i)
        /\ CASE isDir /\ stop ->
                  /\ fs' = iunlock(F, i)
                  /\ loc' = [loc EXCEPT ![p].pc = IF L.op = "link" THEN "linkNew" ELSE L.op,
                                        ![p].dp = i, ![p].at = None]
                  /\ UNCHANGED <<cwd, file>>
             [] isDir /\ ~stop /\ next # None ->
                  /\ fs' = iget(iunlock(F, i), next)
                  /\ loc' = [loc EXCEPT ![p].pc = "iput", ![p].put = i,
                                        ![p].ret = IF last THEN L.op ELSE "walk",
                                        ![p].path = Tail(L.path),
                                        ![p].at = IF last THEN None ELSE next,
                                        ![p].ip = IF last THEN next ELSE L.ip]
                  /\ UNCHANGED <<cwd, file>>
             [] OTHER -> Put(p, iunlock(F, i), "at", fail)

-----------------------------------------------------------------------------
\* sys_link()

\* The old inode's link is counted before the new entry is there, and the inode unlocked
\* while the new path is walked; and slips, without the one and without the other.
linkUncounted(F, i) == iunlock(F, i)
linkLocked(F, i) == relink(F, i, 1)
linkCounted(F, i) == iunlock(relink(F, i, 1), i)

\* The new path is taken to be absolute.
link(p) ==
    LET i == loc[p].ip
        F == ilock(fs, i, p)
    IN  /\ At(p, "link")
        /\ Unlocked(i)
        /\ lockedFree(F, i)
        /\ IF F.mem[i].type = "dir"
             THEN Put(p, iunlock(F, i), "ip", "user")
             ELSE /\ fs' = iget(linkCounted(F, i), ROOTINO)
                  /\ loc' = [loc EXCEPT ![p].pc = "walk", ![p].path = loc[p].new,
                                        ![p].at = ROOTINO]
                  /\ UNCHANGED <<cwd, file>>

\* With the parent locked: dirlink(), which calls iput() for an entry it finds.
linkNew(p) ==
    LET L == loc[p]
        F == ilock(fs, L.dp, p)
        there == F.ent[L.dp][Head(L.path)]
    IN  /\ At(p, "linkNew")
        /\ Unlocked(L.dp)
        /\ lockedFree(F, L.dp)
        /\ IF there # None
             THEN /\ fs' = iget(F, there)
                  /\ loc' = [loc EXCEPT ![p].pc = "iput", ![p].put = there, ![p].ret = "linkExists"]
                  /\ UNCHANGED <<cwd, file>>
             ELSE Put(p, iunlock(dirlink(F, L.dp, Head(L.path), L.ip), L.dp), "dp", "linkDone")

linkExists(p) == /\ At(p, "linkExists")
                 /\ Put(p, iunlock(fs, loc[p].dp), "dp", "linkBad")
                 /\ UNCHANGED panic

linkDone(p) == /\ At(p, "linkDone")
               /\ Put(p, fs, "ip", "user")
               /\ UNCHANGED panic

linkBad(p) ==
    LET i == loc[p].ip
        F == ilock(fs, i, p)
    IN  /\ At(p, "linkBad")
        /\ Unlocked(i)
        /\ lockedFree(F, i)
        /\ Put(p, iunlock(relink(F, i, -1), i), "ip", "user")

-----------------------------------------------------------------------------
\* sys_unlink()

unlink(p) ==
    LET L == loc[p]
        F == ilock(fs, L.dp, p)
        name == Head(L.path)
        i == F.ent[L.dp][name]
    IN  /\ At(p, "unlink")
        /\ Unlocked(L.dp)
        /\ lockedFree(F, L.dp)
        /\ IF name \in Dots \/ i = None
             THEN Put(p, iunlock(F, L.dp), "dp", "user")
             ELSE /\ fs' = iget(F, i)
                  /\ loc' = [loc EXCEPT ![p].pc = "unlinkEntry", ![p].ip = i]
                  /\ UNCHANGED <<cwd, file>>

\* With both locked: clear the entry, let the parent go, and drop it while the inode is
\* still locked.
unlinkEntry(p) ==
    LET L == loc[p]
        F == ilock(fs, L.ip, p)
        dir == F.mem[L.ip].type = "dir"
        G == [F EXCEPT !.ent[L.dp][Head(L.path)] = None]
        H == IF dir THEN relink(G, L.dp, -1) ELSE G
    IN  /\ At(p, "unlinkEntry")
        /\ Unlocked(L.ip)
        /\ panic' = CASE F.mem[L.ip].type = "free" -> "ilock: no type"
                      [] F.mem[L.ip].nlink < 1 -> "unlink: nlink < 1"
                      [] OTHER -> panic
        /\ IF dir /\ ~isdirempty(F, L.ip)
             THEN Put(p, iunlock(F, L.ip), "ip", "unlinkBad")
             ELSE Put(p, iunlock(H, L.dp), "dp", "unlinkLast")

unlinkBad(p) == /\ At(p, "unlinkBad")
                /\ Put(p, iunlock(fs, loc[p].dp), "dp", "user")
                /\ UNCHANGED panic

unlinkLast(p) == /\ At(p, "unlinkLast")
                 /\ Put(p, iunlock(relink(fs, loc[p].ip, -1), loc[p].ip), "ip", "user")
                 /\ UNCHANGED panic

-----------------------------------------------------------------------------
\* create(), for sys_open() with O_CREATE and for sys_mkdir()

\* The inodes that ialloc() may take.
spare(F) == {i \in Inums : F.disk[i].type = "free"}

\* With the parent locked: the name is there, or ialloc() takes the first free inode.
create(p) ==
    LET L == loc[p]
        F == ilock(fs, L.dp, p)
        there == F.ent[L.dp][Head(L.path)]
        i == CHOOSE i \in spare(F) : \A j \in spare(F) : i <= j
    IN  /\ At(p, "create") \/ At(p, "mkdir")
        /\ Unlocked(L.dp)
        /\ CASE there # None ->
                  /\ lockedFree(F, L.dp)
                  /\ fs' = iget(iunlock(F, L.dp), there)
                  /\ loc' = [loc EXCEPT ![p].pc = "iput", ![p].put = L.dp, ![p].dp = None,
                                        ![p].ip = there, ![p].ret = "createThere"]
             [] there = None /\ spare(F) = {} ->
                  panic' = "ialloc: no inodes" /\ UNCHANGED <<fs, loc>>
             [] OTHER ->
                  /\ lockedFree(F, L.dp)
                  /\ fs' = iget([F EXCEPT !.disk[i] =
                                   [type |-> IF L.op = "mkdir" THEN "dir" ELSE "file",
                                    nlink |-> 0, addrs |-> {}]], i)
                  /\ loc' = [loc EXCEPT ![p].pc = "createNew", ![p].ip = i]
        /\ UNCHANGED <<cwd, file>>

\* The new inode locked too: one link, the entries of a directory, the entry in the
\* parent; let the parent go and drop it.
createNew(p) ==
    LET L == loc[p]
        i == L.ip
        F == iupdate([ilock(fs, i, p) EXCEPT !.mem[i].nlink = 1], i)
        G == IF L.op = "mkdir"
               THEN dirlink(dirlink(relink(F, L.dp, 1), i, ".", i), i, "..", L.dp)
               ELSE F
    IN  /\ At(p, "createNew")
        /\ Unlocked(i)
        /\ IF L.op = "mkdir" /\ free(fs) = {}
             THEN panic' = "balloc: out of blocks" /\ UNCHANGED <<fs, loc, cwd, file>>
             ELSE /\ lockedFree(F, i)
                  /\ Put(p, iunlock(dirlink(G, L.dp, Head(L.path), i), L.dp), "dp", "opened")

createThere(p) ==
    LET i == loc[p].ip
        F == ilock(fs, i, p)
    IN  /\ At(p, "createThere")
        /\ Unlocked(i)
        /\ lockedFree(F, i)
        /\ IF loc[p].op = "create" /\ F.mem[i].type = "file"
             THEN Goto(p, F, "opened")
             ELSE Put(p, iunlock(F, i), "ip", "user")

-----------------------------------------------------------------------------
\* sys_open() for reading and writing, sys_chdir(), sys_write(), sys_close()

open(p) ==
    LET i == loc[p].ip
        F == ilock(fs, i, p)
    IN  /\ At(p, "open")
        /\ Unlocked(i)
        /\ lockedFree(F, i)
        /\ IF F.mem[i].type = "dir" THEN Put(p, iunlock(F, i), "ip", "user")
                                    ELSE Goto(p, F, "opened")

\* The file descriptor takes the reference over; mkdir() and an open() that finds no
\* descriptor give it back.
opened(p) ==
    LET i == loc[p].ip
    IN  /\ At(p, "opened")
        /\ IF loc[p].op = "mkdir" \/ file[p] # None
             THEN Put(p, iunlock(fs, i), "ip", "user")
             ELSE /\ fs' = iunlock(fs, i)
                  /\ loc' = [loc EXCEPT ![p] = Idle]
                  /\ file' = [file EXCEPT ![p] = i]
                  /\ UNCHANGED cwd
        /\ UNCHANGED panic

chdir(p) ==
    LET i == loc[p].ip
        F == ilock(fs, i, p)
    IN  /\ At(p, "chdir")
        /\ Unlocked(i)
        /\ lockedFree(F, i)
        /\ IF F.mem[i].type # "dir"
             THEN Put(p, iunlock(F, i), "ip", "user")
             ELSE /\ fs' = iunlock(F, i)
                  /\ loc' = [loc EXCEPT ![p].pc = "iput", ![p].put = cwd[p], ![p].ret = "chdirDone"]
                  /\ UNCHANGED <<cwd, file>>

chdirDone(p) == /\ At(p, "chdirDone")
                /\ cwd' = [cwd EXCEPT ![p] = loc[p].ip]
                /\ loc' = [loc EXCEPT ![p] = Idle]
                /\ UNCHANGED <<fs, file, panic>>

\* A write that needs a new block.
write(p) ==
    LET i == file[p]
        F == ilock(fs, i, p)
    IN  /\ At(p, "user") /\ i # None
        /\ Unlocked(i)
        /\ Cardinality(F.mem[i].addrs) < MaxFile
        /\ IF free(fs) = {}
             THEN panic' = "balloc: out of blocks" /\ UNCHANGED <<fs, loc, cwd, file>>
             ELSE lockedFree(F, i) /\ Goto(p, iunlock(balloc(F, i), i), "user")

\* fileclose()
close(p) == /\ At(p, "user") /\ file[p] # None
            /\ loc' = [loc EXCEPT ![p].pc = "iput", ![p].put = file[p]]
            /\ file' = [file EXCEPT ![p] = None]
            /\ UNCHANGED <<fs, cwd, panic>>

Next == \E p \in Procs :
          \/ \E c \in Calls : syscall(p, c)
          \/ walk(p) \/ iput(p) \/ iputDrop(p)
          \/ link(p) \/ linkNew(p) \/ linkExists(p) \/ linkDone(p) \/ linkBad(p)
          \/ unlink(p) \/ unlinkEntry(p) \/ unlinkBad(p) \/ unlinkLast(p)
          \/ create(p) \/ createNew(p) \/ createThere(p)
          \/ open(p) \/ opened(p) \/ chdir(p) \/ chdirDone(p) \/ write(p) \/ close(p)

Spec == Init /\ [][Next]_vars

-----------------------------------------------------------------------------
Labels == {"user", "walk", "iput", "drop", "link", "linkNew", "linkExists", "linkDone",
           "linkBad", "unlink", "unlinkEntry", "unlinkBad", "unlinkLast", "create", "mkdir",
           "createNew", "createThere", "open", "opened", "chdir", "chdirDone"}

TypeOK ==
    LET DInode == [type : {"free", "file", "dir"}, nlink : Nat, addrs : SUBSET Blocks]
    IN  /\ fs.disk \in [Inums -> DInode]
        /\ \A i \in Inums : /\ fs.mem[i].ref \in Nat /\ fs.mem[i].valid \in BOOLEAN
                            /\ fs.mem[i].owner \in Procs \cup {NoProc}
                            /\ [type |-> fs.mem[i].type, nlink |-> fs.mem[i].nlink,
                                addrs |-> fs.mem[i].addrs] \in DInode
        /\ fs.ent \in [Inums -> [Names \cup Dots -> Inums \cup {None}]]
        /\ fs.used \subseteq Blocks
        /\ \A p \in Procs : loc[p].pc \in Labels /\ loc[p].ret \in Labels
        /\ cwd \in [Procs -> Inums] /\ file \in [Procs -> Inums \cup {None}]

\* The pointers of process p: its directory, its file, and the local variables of a call.
Pointers(p) == LET L == loc[p]
               IN  <<IF "chdirDone" \in {L.pc, L.ret} THEN None ELSE cwd[p],
                     file[p], L.at, L.ip, L.dp, L.put>>

\* fs.c:123, "ip->ref tracks the number of in-memory pointers to the entry": whatever path
\* through the calls a process takes, it gives back exactly the references it took.
RefsExact == \A i \in Inums :
    fs.mem[i].ref = Cardinality({r \in Procs \X (1 .. 6) : Pointers(r[1])[r[2]] = i})

\* An inode that a process has open, has as its directory or is about to use in a call is
\* allocated: nobody frees it between two of the locks that the process takes.
InUseAllocated ==
    \A p \in Procs, n \in 1 .. 6 :
        Pointers(p)[n] # None /\ ~(n = 6 /\ loc[p].pc = "drop") =>
            fs.disk[Pointers(p)[n]].type # "free"

Entries(i) == {e \in Inums \X Names : fs.ent[e[1]][e[2]] = i}

\* Every directory entry is counted by the link count of its inode, at every moment, so
\* that iput() frees no inode that can still be reached by a name.  (More links than
\* entries there may be for a while, or for ever if a call uses a removed directory.)
LinksCover == \A i \in Inums : /\ fs.disk[i].nlink >= Cardinality(Entries(i))
                               /\ Entries(i) # {} => fs.disk[i].type # "free"

\* fs.c:218, "i-node cache is write-through": a valid cached inode is what the disk has,
\* also when the number was freed and given out again while it was cached.
CacheCurrent == \A i \in Inums : fs.mem[i].ref > 0 /\ fs.mem[i].valid =>
                   /\ fs.mem[i].type = fs.disk[i].type /\ fs.mem[i].nlink = fs.disk[i].nlink
                   /\ fs.mem[i].addrs = fs.disk[i].addrs

\* fs.c:219-360: the cached inodes are counted and up to date.
CacheExact == TypeOK /\ RefsExact /\ CacheCurrent

\* The bitmap marks the blocks of the files and directories and no others, no two inodes
\* share a block, and free inodes have none.
BlocksExact ==
    /\ fs.used = UNION {fs.disk[i].addrs : i \in Inums}
    /\ \A i, j \in Inums : i # j => fs.disk[i].addrs \cap fs.disk[j].addrs = {}
    /\ \A i \in Inums : fs.disk[i].type = "free" => fs.disk[i].addrs = {} /\ fs.ent[i] = Empty

\* fs.c:58-95, 195-340, sysfile.c:106-283: the disk holds what the names and the
\* processes refer to, and nothing else: no inode or block is freed too early, given
\* out twice or lost.
DiskExact == InUseAllocated /\ LinksCover /\ BlocksExact

\* fs.c:305-310: an inode that a process found by name or kept has not been freed when it is
\* locked and read.
InodesHaveTypes == panic # "ilock: no type"

\* fs.c:58-95, 195-360, sysfile.c:106-283: the cached inodes are counted and up to
\* date; the disk holds what the names and the processes refer to, and nothing else: no
\* inode or block is freed too early, given out twice or lost, and none is locked free.
InodesExact == CacheExact /\ DiskExact /\ InodesHaveTypes

\* The inode that process p is waiting to lock, and who waits for whom.
Wanted(p) == LET L == loc[p]
             IN  CASE L.pc = "walk" -> L.at
                   [] L.pc = "iput" -> L.put
                   [] L.pc \in {"linkNew", "unlink", "create", "mkdir"} -> L.dp
                   [] L.pc \in {"link", "linkBad", "unlinkEntry", "createNew", "createThere",
                                "open", "chdir"} -> L.ip
                   [] OTHER -> None
WaitsFor(p, q) == Wanted(p) # None /\ fs.mem[Wanted(p)].owner = q

\* Two processes wait for each other's inodes only if one of them is in an iput() that
\* it called with another inode locked (the parent's, sys_unlink() and create()); all
\* other places lock a parent before its child or hold no lock while they wait.
LocksOrdered == \A p, q \in Procs :
    WaitsFor(p, q) /\ WaitsFor(q, p) => "iput" \in {loc[p].pc, loc[q].pc}

\* A process is about to look up the parent of a directory that has been removed: its ..
\* no longer counts as a link, so that what it names may have been freed since.
LostParent == \E p \in Procs :
    LET L == loc[p]
        d == IF L.pc = "walk" THEN L.at ELSE L.dp
    IN  /\ L.pc \in {"walk", "linkNew", "create", "mkdir"}
        /\ d # ROOTINO /\ Entries(d) = {} /\ Head(L.path) = ".."
=============================================================================
