------------------------------ MODULE FileData ------------------------------
(***************************************************************************)
(* The bytes of files: block allocation, direct and indirect blocks, reads  *)
(* and writes (src/fs.c), and the chunks in which filewrite() writes, at an *)
(* offset that processes may share (src/file.c).                            *)
(*                                                                         *)
(* A step is what happens under the inode's lock; every chunk is a          *)
(* transaction of its own (module Log).                                     *)
(***************************************************************************)
EXTENDS Integers, Sequences, FiniteSets, SequencesExt, FiniteSetsExt

CONSTANTS
    Inodes,
    Writers,
    Opens,        \* the open files, struct file
    inode,        \* f->ip
    texts,        \* what a process may write to an open file
    BSIZE, NDIRECT, NINDIRECT,
    Sector,       \* the 512 of filewrite(); blocks have four of them
    NBLOCKS,      \* data blocks on the disk
    BPB,          \* bits in a bitmap block
    MAXOPBLOCKS,
    ReadSizes

VARIABLES
    fs,      \* used: the bitmap; data: the blocks; ino: the inodes; log: what the last step wrote
    off,     \* f->off
    todo,    \* what is left of the write() each process is in
    buf,     \* what the last step has read
    full     \* panic("balloc: out of blocks")

vars == <<fs, off, todo, buf, full>>

MAXFILE == NDIRECT + NINDIRECT
Zero == [k \in 0 .. BSIZE - 1 |-> 0]   \* for indirect blocks the first NINDIRECT count
Fresh == [size |-> 0, addrs |-> [k \in 0 .. NDIRECT |-> 0]]
Nothing == [file |-> 0, text |-> <<>>]

----------------------------------------------------------------------------
(* fs.c.                                                                   *)

bitmap(b) == <<"bitmap", b \div BPB>>
block(b) == <<"data", b>>
dinode(i) == <<"inode", i>>

free(F) == (1 .. NBLOCKS) \ F.used
first(F) == Min(free(F))

\* A slip: the block is not cleared.
ballocDirty(F) ==
    LET b == first(F)
    IN  [F EXCEPT !.used = @ \cup {b}, !.log = @ \cup {bitmap(b), block(b)}]

\* balloc() takes first(F), with bzero().
balloc(F) ==
    LET b == first(F)
    IN  [F EXCEPT !.used = @ \cup {b}, !.data[b] = Zero,
                  !.log = @ \cup {bitmap(b), block(b)}]

bfree(F, b) == [F EXCEPT !.used = @ \ {b}, !.log = @ \cup {bitmap(b)}]

indirect(F, i) == F.ino[i].addrs[NDIRECT]

\* The address of block bn, 0 if there is none.
address(F, i, bn) ==
    IF bn < NDIRECT THEN F.ino[i].addrs[bn]
    ELSE IF indirect(F, i) = 0 THEN 0
    ELSE F.data[indirect(F, i)][bn - NDIRECT]

\* addrs[k], allocated if necessary.
withAddr(F, i, k) ==
    IF F.ino[i].addrs[k] # 0 THEN F
    ELSE [balloc(F) EXCEPT !.ino[i].addrs[k] = first(F)]

\* An entry of the indirect block, allocated if necessary.
withEntry(F, i, k) ==
    LET a == indirect(F, i)
    IN  IF F.data[a][k] # 0 THEN F
        ELSE [balloc(F) EXCEPT !.data[a][k] = first(F), !.log = @ \cup {block(a)}]

\* bmap(), after which address() is not 0.
bmap(F, i, bn) ==
    IF bn < NDIRECT THEN withAddr(F, i, bn)
    ELSE withEntry(withAddr(F, i, NDIRECT), i, bn - NDIRECT)

iupdate(F, i) == [F EXCEPT !.log = @ \cup {dinode(i)}]

\* The blocks of an inode, the indirect one included.
blocksOf(F, i) ==
    ({F.ino[i].addrs[k] : k \in 0 .. NDIRECT} \cup
     {address(F, i, bn) : bn \in 0 .. MAXFILE - 1}) \ {0}

\* Slip: the entries of the indirect block are not freed.
itruncDirect(F, i) ==
    LET G == FoldSet(LAMBDA b, H : bfree(H, b), F,
                     {F.ino[i].addrs[k] : k \in 0 .. NDIRECT} \ {0})
    IN  iupdate([G EXCEPT !.ino[i] = Fresh], i)

itrunc(F, i) ==
    LET G == FoldSet(LAMBDA b, H : bfree(H, b), F, blocksOf(F, i))
    IN  iupdate([G EXCEPT !.ino[i] = Fresh], i)

byte(F, i, k) == F.data[address(F, i, k \div BSIZE)][k % BSIZE]

\* n bytes from offset k on, or up to the end of the file.
readi(F, i, k, n) ==
    [j \in 1 .. Min({n, F.ino[i].size - k}) |-> byte(F, i, k + j - 1)]

\* One byte at offset k; a block that gets several is logged once.
putByte(F, i, k, value) ==
    LET G == bmap(F, i, k \div BSIZE)
        a == address(G, i, k \div BSIZE)
    IN  [G EXCEPT !.data[a][k % BSIZE] = value, !.log = @ \cup {block(a)}]

\* Slip: the new size is where the write began.
writeiKeepsSize(F, i, k, t) ==
    LET G == FoldLeft(LAMBDA H, j : putByte(H, i, k + j - 1, t[j]), F, [j \in DOMAIN t |-> j])
    IN  IF k > F.ino[i].size THEN iupdate([G EXCEPT !.ino[i].size = k], i) ELSE G

writei(F, i, k, t) ==
    LET G == FoldLeft(LAMBDA H, j : putByte(H, i, k + j - 1, t[j]), F, [j \in DOMAIN t |-> j])
    IN  IF k + Len(t) > F.ino[i].size
          THEN iupdate([G EXCEPT !.ino[i].size = k + Len(t)], i) ELSE G

\* How many blocks writei() of n bytes at k has to allocate.
needed(F, i, k, n) ==
    LET bns == {bn \in k \div BSIZE .. (k + n - 1) \div BSIZE : address(F, i, bn) = 0}
    IN  Cardinality(bns) +
        (IF indirect(F, i) = 0 /\ \E bn \in bns : bn >= NDIRECT THEN 1 ELSE 0)

----------------------------------------------------------------------------
(* file.c.                                                                 *)

\* Slip: as many blocks as the log has for a call.
maxWholeCall == MAXOPBLOCKS * BSIZE
max == ((MAXOPBLOCKS - 1 - 1 - 2) \div 2) * Sector

Start == [fs EXCEPT !.log = {}]

\* write() is called.
filewrite(p, f) ==
    /\ todo[p] = Nothing /\ ~full
    /\ \E t \in texts[p][f] : todo' = [todo EXCEPT ![p] = [file |-> f, text |-> t]]
    /\ fs' = Start /\ buf' = <<>>
    /\ UNCHANGED <<off, full>>

\* One turn of its loop.  A chunk that would make the file too long fails, and with it
\* the call, whatever it has written.
writeChunk(p) ==
    LET f == todo[p].file
        i == inode[f]
        n1 == Min({Len(todo[p].text), max})
        t == SubSeq(todo[p].text, 1, n1)
        rest == SubSeq(todo[p].text, n1 + 1, Len(todo[p].text))
    IN  /\ todo[p] # Nothing /\ ~full
        /\ \/ /\ off[f] + n1 > MAXFILE * BSIZE
              /\ todo' = [todo EXCEPT ![p] = Nothing]
              /\ fs' = Start
              /\ UNCHANGED <<off, full>>
           \/ /\ off[f] + n1 <= MAXFILE * BSIZE
              /\ needed(fs, i, off[f], n1) > Cardinality(free(fs))
              /\ full' = TRUE /\ fs' = Start
              /\ UNCHANGED <<off, todo>>
           \/ /\ off[f] + n1 <= MAXFILE * BSIZE
              /\ needed(fs, i, off[f], n1) <= Cardinality(free(fs))
              /\ fs' = writei(Start, i, off[f], t)
              /\ off' = [off EXCEPT ![f] = @ + n1]
              /\ todo' = [todo EXCEPT ![p] = IF rest = <<>> THEN Nothing ELSE [@ EXCEPT !.text = rest]]
              /\ UNCHANGED full
        /\ buf' = <<>>

fileread(f, n) ==
    /\ ~full
    /\ buf' = readi(fs, inode[f], off[f], n)
    /\ off' = [off EXCEPT ![f] = @ + Len(buf')]
    /\ fs' = Start
    /\ UNCHANGED <<todo, full>>

\* The file is removed and closed everywhere, so that iput() truncates it, and made anew.
remove(i) ==
    /\ ~full
    /\ \A p \in Writers : todo[p] # Nothing => inode[todo[p].file] # i
    /\ fs' = itrunc(Start, i)
    /\ off' = [f \in Opens |-> IF inode[f] = i THEN 0 ELSE off[f]]
    /\ buf' = <<>>
    /\ UNCHANGED <<todo, full>>

----------------------------------------------------------------------------

Init ==
    /\ fs = [used |-> {}, data |-> [b \in 1 .. NBLOCKS |-> Zero],
             ino |-> [i \in Inodes |-> Fresh], log |-> {}]
    /\ off = [f \in Opens |-> 0]
    /\ todo = [p \in Writers |-> Nothing]
    /\ buf = <<>>
    /\ full = FALSE

Next ==
    \/ \E p \in Writers : (\E f \in Opens : filewrite(p, f)) \/ writeChunk(p)
    \/ \E f \in Opens, n \in ReadSizes : fileread(f, n)
    \/ \E i \in Inodes : remove(i)

Spec == Init /\ [][Next]_vars

----------------------------------------------------------------------------
(* Properties.                                                             *)

File == INSTANCE ByteFile WITH
    Chunk <- max,
    content <- [i \in Inodes |-> readi(fs, i, 0, fs.ino[i].size)],
    position <- off,
    pending <- todo,
    got <- buf

\* fs.c:373-511, file.c:97-156: through direct and indirect blocks, blocks that are
\* used again, chunks of several writers at one offset or at several, a file is the bytes
\* written to it, each chunk in one piece and behind the one before.
ImplementsByteFile == File!ByteSpec

\* fs.c:56-95, 373-435: the bitmap has exactly the blocks of the files, and no block
\* has two places.
BlocksOnce ==
    /\ fs.used = UNION {blocksOf(fs, i) : i \in Inodes}
    /\ Cardinality(fs.used) =
           MapThenSumSet(LAMBDA i :
               Cardinality({k \in 0 .. NDIRECT : fs.ino[i].addrs[k] # 0})
               + Cardinality({bn \in NDIRECT .. MAXFILE - 1 : address(fs, i, bn) # 0}), Inodes)

\* file.c:127-139: what a chunk writes fits into the log's share of one system
\* call, in the worst case too: not aligned, the first indirect block, and every
\* block in another bitmap block; the constant 512 is one of smaller blocks.
ChunkFits == Cardinality(fs.log) <= MAXOPBLOCKS
=============================================================================
