----------------------------- MODULE MakeImage -----------------------------
(***************************************************************************)
(* The image of the file system that mkfs builds on the host (src/mkfs.c):  *)
(* a root directory and the files named on the command line, with an        *)
(* allocation of its own.  The image has to be one the kernel (FileData)    *)
(* can go on with.                                                          *)
(*                                                                         *)
(* Block 1 is the first behind the nmeta blocks.  A directory entry is one  *)
(* cell, the inode's number.  mkfs does not check that a file is at most    *)
(* MAXFILE blocks long and that the blocks last, which the files of the     *)
(* Makefile are and do.                                                     *)
(***************************************************************************)
EXTENDS Integers, Sequences, FiniteSets, SequencesExt, FiniteSetsExt

CONSTANTS
    BSIZE, NDIRECT, NINDIRECT,
    ImageBlocks,    \* data blocks of the image
    ImageFiles,     \* the contents a file may have
    MaxFiles        \* bound: files on the command line

VARIABLES
    image,      \* data: the blocks; ino: the inodes; used: the bitmap
    freeblock, freeinode,
    appended,   \* what was appended to each inode
    built

imageVars == <<image, freeblock, freeinode, appended, built>>

ROOTINO == 1
ImageInodes == 1 .. MaxFiles + 1
Zeroes == [k \in 0 .. BSIZE - 1 |-> 0]

----------------------------------------------------------------------------

\* The state of the loop of iappend(): the image and freeblock.
allocated(S) == [S EXCEPT !.freeblock = @ + 1]

\* addrs[k] of inode i, taken from freeblock if necessary.
withAddress(S, i, k) ==
    IF S.ino[i].addrs[k] # 0 THEN S
    ELSE [allocated(S) EXCEPT !.ino[i].addrs[k] = S.freeblock]

\* An entry of its indirect block.
withIndirect(S, i, k) ==
    LET a == S.ino[i].addrs[NDIRECT]
    IN  IF S.data[a][k] # 0 THEN S ELSE [allocated(S) EXCEPT !.data[a][k] = S.freeblock]

\* Slip: the indirect block and the block behind it are one.
appendSharesIndirect(S, i, value) ==
    LET k == S.ino[i].size
        fbn == k \div BSIZE
        T == withAddress(S, i, IF fbn < NDIRECT THEN fbn ELSE NDIRECT)
        x == T.ino[i].addrs[IF fbn < NDIRECT THEN fbn ELSE NDIRECT]
    IN  [T EXCEPT !.data[x][k % BSIZE] = value, !.ino[i].size = k + 1]

\* One cell more at the end of inode i.
appendCell(S, i, value) ==
    LET k == S.ino[i].size
        fbn == k \div BSIZE
        T == IF fbn < NDIRECT THEN withAddress(S, i, fbn)
             ELSE withIndirect(withAddress(S, i, NDIRECT), i, fbn - NDIRECT)
        x == IF fbn < NDIRECT THEN T.ino[i].addrs[fbn]
             ELSE T.data[T.ino[i].addrs[NDIRECT]][fbn - NDIRECT]
    IN  [T EXCEPT !.data[x][k % BSIZE] = value, !.ino[i].size = k + 1]

iappend(S, i, cells) == FoldLeft(LAMBDA T, c : appendCell(T, i, c), S, cells)

ialloc(S, type) == [S EXCEPT !.ino[freeinode].type = type, !.ino[freeinode].nlink = 1]

\* How much is free suffices for a file: its blocks, an indirect one, one of the root.
fits(t) ==
    /\ Len(t) <= (NDIRECT + NINDIRECT) * BSIZE
    /\ Len(appended[ROOTINO]) < (NDIRECT + NINDIRECT) * BSIZE
    /\ freeblock + Len(t) \div BSIZE + 4 <= ImageBlocks

writeBack(S) ==
    /\ image' = [image EXCEPT !.data = S.data, !.ino = S.ino]
    /\ freeblock' = S.freeblock

Work == [data |-> image.data, ino |-> image.ino, freeblock |-> freeblock]

\* main() up to its loop over the files.
makeRoot ==
    /\ freeinode = ROOTINO
    /\ writeBack(iappend(ialloc(Work, "T_DIR"), ROOTINO, <<ROOTINO, ROOTINO>>))
    /\ freeinode' = freeinode + 1
    /\ appended' = [appended EXCEPT ![ROOTINO] = <<ROOTINO, ROOTINO>>]
    /\ UNCHANGED built

\* One file: its inode, its entry in the root, its contents.
addFile(t) ==
    /\ freeinode \in 2 .. MaxFiles + 1 /\ ~built /\ fits(t)
    /\ writeBack(iappend(iappend(ialloc(Work, "T_FILE"), ROOTINO, <<freeinode>>), freeinode, t))
    /\ freeinode' = freeinode + 1
    /\ appended' = [appended EXCEPT ![ROOTINO] = Append(@, freeinode), ![freeinode] = t]
    /\ UNCHANGED built

\* Slip: one bit too few.
ballocShort == 1 .. freeblock - 2

\* balloc(): the bits of all blocks before freeblock.
balloc == 1 .. freeblock - 1

\* The end of main(): the size of the root directory, and the bitmap.
finish ==
    /\ freeinode > ROOTINO /\ ~built
    /\ image' = [image EXCEPT !.ino[ROOTINO].size = (@ \div BSIZE + 1) * BSIZE,
                              !.used = balloc]
    /\ built' = TRUE
    /\ UNCHANGED <<freeblock, freeinode, appended>>

ImageInit ==
    /\ image = [data |-> [b \in 1 .. ImageBlocks |-> Zeroes],
                ino |-> [i \in ImageInodes |->
                           [type |-> "free", nlink |-> 0, size |-> 0,
                            addrs |-> [k \in 0 .. NDIRECT |-> 0]]],
                used |-> {}]
    /\ freeblock = 1 /\ freeinode = 1
    /\ appended = [i \in ImageInodes |-> <<>>]
    /\ built = FALSE

ImageNext == makeRoot \/ (\E t \in ImageFiles : addFile(t)) \/ finish

----------------------------------------------------------------------------

\* The image as the kernel reads it.
Kernel == INSTANCE FileData WITH
    Inodes <- ImageInodes, Writers <- {}, Opens <- {}, inode <- <<>>,
    texts <- <<>>, Sector <- 1, NBLOCKS <- ImageBlocks, BPB <- 1,
    MAXOPBLOCKS <- 6, ReadSizes <- {}, fs <- image, off <- <<>>, todo <- <<>>, buf <- <<>>,
    full <- FALSE

\* The root's entries end where a block ends: its size counts a block it does not have.
rootFull == Len(appended[ROOTINO]) % BSIZE = 0

\* mkfs.c:68-297: in the finished image the kernel finds in every file what was
\* appended and in the root an entry with a link for every file, followed by empty
\* ones; all blocks within a file's size are there; and the bitmap has the
\* blocks of the files and no others.  Not so if the root directory's entries
\* end with a block.
ImageRight ==
    built /\ ~rootFull =>
        /\ Kernel!BlocksOnce
        /\ \A i \in ImageInodes :
              /\ \A bn \in 0 .. NDIRECT + NINDIRECT - 1 :
                    bn * BSIZE < image.ino[i].size <=> Kernel!address(image, i, bn) # 0
              /\ \A k \in 1 .. image.ino[i].size :
                    Kernel!byte(image, i, k - 1) =
                        IF k \in DOMAIN appended[i] THEN appended[i][k] ELSE 0
              /\ image.ino[i].nlink = IF i < freeinode THEN 1 ELSE 0
=============================================================================
