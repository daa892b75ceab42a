----------------------------- MODULE MCKernel -----------------------------
(***************************************************************************)
(* The services that the rest of the kernel and the programs build on: the  *)
(* pages, the heap of one program, spin-locks with the scheduler, the bytes *)
(* of files, and the image mkfs puts them into.  Each behaviour is about    *)
(* one of the five, or about the pages while windows are drawn.             *)
(***************************************************************************)
EXTENDS Memory, TLC

CONSTANTS MINUNITS, HeapStart, HeapLimit, Requests,
          cpu0, Threads,
          Inodes, Writers, Opens, BSIZE, NDIRECT, NINDIRECT, Sector, NBLOCKS, BPB,
          MAXOPBLOCKS, ReadSizes,
          ImageBlocks, ImageFiles, MaxFiles

VARIABLES side,
          ptr, size, freep, brk, blocks,
          locked, lkcpu, IF_, ncli, intena, thread, code, status, saved, panicked,
          fs, off, todo, buf, full,
          image, freeblock, freeinode, appended, built

heapVars == <<ptr, size, freep, brk, blocks>>
lockVars == <<locked, lkcpu, IF_, ncli, intena, thread, code, status, saved, panicked>>
dataVars == <<fs, off, todo, buf, full>>
imageVars == <<image, freeblock, freeinode, appended, built>>

\* One segment; two, the second of which ends below the first.
MCImages == {<<1>>, <<3, 2>>}
MCDeltas == {3, -1, -2}

\* The first two open files are of one inode.  A long text crosses into the indirect
\* blocks; bytes are numbers of blocks too, so that they look like entries of an
\* indirect block.
MCInode == <<1, 1, 2>>
MCTexts == << <<{<<1, 2, 3, 4, 1, 2, 3, 4>>}, {}, {}>>,
              <<{<<4, 4>>}, {<<4, 4>>}, {<<3, 3, 3, 3>>}>> >>

\* Empty, within a block, with an indirect block.
MCImageFiles == {<<>>, <<1>>, <<1, 2, 3, 4, 5>>}

\* Threads differ in their names only.
Symmetry == Permutations(Threads)

\* The second process draws the window of the third.  Nobody calls exec() or sbrk().
MCProcs == {1, 2, 3}
Screen == INSTANCE Memory WITH Procs <- MCProcs, desktop <- 2, Images <- {}, Deltas <- {}

User == INSTANCE Heap
Cpus == INSTANCE Spinlock
Data == INSTANCE FileData WITH inode <- MCInode, texts <- MCTexts
Mkfs == INSTANCE MakeImage

MCInit ==
    /\ side \in {"pages", "screen", "heap", "locks", "bytes", "image"}
    /\ IF side = "screen" THEN Screen!Init ELSE Init
    /\ User!Init /\ Cpus!Init /\ Data!Init /\ Mkfs!ImageInit

MCNext ==
    /\ \/ side = "pages" /\ Next /\ UNCHANGED <<heapVars, lockVars, dataVars, imageVars>>
       \/ side = "screen" /\ Screen!Next /\ UNCHANGED <<heapVars, lockVars, dataVars, imageVars>>
       \/ side = "heap" /\ User!Next /\ UNCHANGED <<vars, lockVars, dataVars, imageVars>>
       \/ side = "locks" /\ Cpus!Next /\ UNCHANGED <<vars, heapVars, dataVars, imageVars>>
       \/ side = "bytes" /\ Data!Next /\ UNCHANGED <<vars, heapVars, lockVars, imageVars>>
       \/ side = "image" /\ Mkfs!ImageNext /\ UNCHANGED <<vars, heapVars, lockVars, dataVars>>
    /\ UNCHANGED side

MCSpec == MCInit /\ [][MCNext]_<<side, vars, heapVars, lockVars, dataVars, imageVars>>

\* proc.c:158-175, 272-312, 323-356, vm.c:222-279, exec.c:97-103: a process has the
\* pages below its size, so that copyuvm() finds them all, and no CPU ever uses
\* a page directory that was freed, also while the desktop copies the pixels of other
\* processes, unless one of them went without closing its window.
ImagesUsable ==
    /\ side = "pages" => ImageMatchesSize /\ DirectoryInUse
    /\ side = "screen" => Screen!ImageMatchesSize /\ Screen!DirectoryInUse

\* kalloc.c:58-96, vm.c:60-340, umalloc.c:25-90: every page of the kernel and every unit of a
\* program's heap is in exactly one place, whatever fails in between: nothing is
\* given out twice or lost, and the free list of the heap goes round by address
\* with no two free blocks that touch.
MemoryPartitioned ==
    /\ side = "pages" => PagesExact
    /\ side = "screen" => Screen!PagesExact
    /\ side = "heap" => User!HeapPartitioned /\ User!FreeListSorted

\* spinlock.c:25-125, proc.c:323-452: one CPU at a time is inside a lock, also across
\* context switches, no panic of the lock functions or of sched() can happen, and
\* a thread has interrupts on exactly when it holds no lock and handles no
\* interrupt, whichever CPU it goes on on.
LocksSafe == side = "locks" => Cpus!MutualExclusion /\ Cpus!InterruptsAsLeft

\* fs.c:56-95, 373-435, file.c:127-139, mkfs.c:68-297: the bitmap has exactly the
\* blocks of the files, none of which has two places, also in the image that mkfs
\* makes, where the kernel finds what mkfs has appended; and what one chunk of
\* filewrite() writes fits into the log's share of a system call.
DataBlocksRight ==
    /\ side = "bytes" => Data!BlocksOnce /\ Data!ChunkFits
    /\ side = "image" => Mkfs!ImageRight

\* fs.c:373-511, file.c:97-156: a file is the bytes written to it, in chunks of
\* several writers at one offset or at several, through direct, indirect and recycled
\* blocks.
ImplementsByteFile == Data!ImplementsByteFile
=============================================================================
