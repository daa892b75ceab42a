------------------------------- MODULE Memory -------------------------------
(***************************************************************************)
(* Physical pages and address spaces: kalloc.c, vm.c, exec.c and the parts *)
(* of proc.c that allocate and free memory.  Every physical page is on the *)
(* free list, or is a kernel stack, a page directory, a page table or a    *)
(* page of user memory.  An operation takes its pages one turn of a loop at *)
(* a time, while other processes do the same, and may fail at any of them. *)
(* Giving pages back is one step: the others could only find fewer.        *)
(*                                                                         *)
(* To copy the pixels of the windows, updateScreen() (window_manager.c) puts *)
(* the CPU of the desktop on the directories of other processes.           *)
(*                                                                         *)
(* The unit of addresses is a part of a page (PGSIZE of them make a page). *)
(* The pages are interchangeable, and kalloc() takes the first.            *)
(***************************************************************************)
EXTENDS Integers, Sequences, FiniteSets, FiniteSetsExt

CONSTANTS
    Procs,      \* slots of the process table; initproc is one
    initproc,
    CPUs,
    NPAGES,     \* pages of physical memory
    PGSIZE,
    NPTENTRIES, \* pages of memory a page table describes
    KERNBASE,   \* the end of user addresses
    KTABS,      \* page tables for the kernel's mappings
    Images,     \* the programs: the ends of their segments
    Deltas,     \* the arguments of sbrk()
    desktop,    \* the process that redraws the screen, or nobody
    nobody

Pages == 1 .. NPAGES
VPages == 0 .. (KERNBASE \div PGSIZE) - 1    \* pages of user memory
Tables == 0 .. (Cardinality(VPages) - 1) \div NPTENTRIES

ASSUME MemoryAssumption ==
    /\ {NPAGES, PGSIZE, NPTENTRIES, KTABS} \subseteq Nat \ {0}
    /\ KERNBASE \in Nat /\ KERNBASE >= PGSIZE
    /\ initproc \in Procs /\ nobody \notin Procs \cup CPUs
    /\ Deltas \subseteq Int

VARIABLES
    freelist,
    pt,        \* p->pgdir with its page tables
    sz,
    kstack,
    state,     \* p->state
    job,       \* the system call that p is in the middle of
    run,       \* the process on each CPU
    cr3,       \* the page directory each CPU uses
    ptlock,    \* the CPU that holds ptable.lock
    shown,     \* the processes that windowlist and popupwindow name
    left       \* history: those of them that went without closing the window

windows == <<shown, left>>
vars == <<freelist, pt, sz, kstack, state, job, run, cr3, ptlock, shown, left>>

----------------------------------------------------------------------------
(* Page tables: a directory, the tables it refers to, and the user pages   *)
(* the tables refer to; 0 is an entry that is not present.                 *)

noPt == [dir |-> 0, ktab |-> {}, tab |-> [t \in Tables |-> 0],
         pte |-> [v \in VPages |-> 0]]

PDX(v) == v \div NPTENTRIES
PGROUNDUP(a) == ((a + PGSIZE - 1) \div PGSIZE) * PGSIZE

\* All pages that make up an address space.
pagesOf(x) == ({x.dir} \cup x.ktab \cup {x.tab[t] : t \in Tables}
                 \cup {x.pte[v] : v \in VPages}) \ {0}

kalloc(S) == Min(S)

\* The n pages that n calls of kalloc() return.
kallocs(n) == {a \in freelist : Cardinality({b \in freelist : b < a}) < n}

kernelPt(S) == [noPt EXCEPT !.dir = kalloc(S), !.ktab = S \ {kalloc(S)}]

\* setupkvm(): a directory and the kernel's tables, all or nothing.
canSetup == Cardinality(freelist) > KTABS
setupkvm == kernelPt(kallocs(KTABS + 1))

\* One page more at v, with a table if there is none yet (mappages, walkpgdir).
needed(x, v) == IF x.tab[PDX(v)] = 0 THEN 2 ELSE 1
canMap(x, v) == Cardinality(freelist) >= needed(x, v)

mapped(x, v) ==
    LET S == kallocs(needed(x, v))
        mem == kalloc(S)
    IN [x EXCEPT !.pte[v] = mem,
                 !.tab[PDX(v)] = IF @ = 0 THEN kalloc(S \ {mem}) ELSE @]

\* deallocuvm(): the user pages from newsz on; the tables stay.  A slip: from
\* the page that newsz is in.
surplusRoundedDown(oldsz, newsz) ==
    {v \in VPages : v * PGSIZE > newsz - PGSIZE /\ v * PGSIZE < oldsz}

surplus(oldsz, newsz) ==
    {v \in VPages : v * PGSIZE >= PGROUNDUP(newsz) /\ v * PGSIZE < oldsz}

deallocuvm(x, oldsz, newsz) ==
    [x EXCEPT !.pte = [v \in VPages |-> IF v \in surplus(oldsz, newsz) THEN 0
                                        ELSE x.pte[v]]]

\* What is not part of an address space any more goes to the free list.
kfreed(x, y) == freelist \cup (pagesOf(x) \ pagesOf(y))

\* freevm(): all of it; and a slip, without the tables.
freevmKeepsTables(x) == {x.dir} \cup x.ktab \cup ({x.pte[v] : v \in VPages} \ {0})
freevm(x) == pagesOf(x)

----------------------------------------------------------------------------
(* Who runs where.                                                         *)

idle == [op |-> "none", pt |-> noPt, at |-> 0, to |-> 0, segs |-> <<>>,
         child |-> nobody]

Running(p) == state[p] = "RUNNING"
cpuOf(p) == CHOOSE c \in CPUs : run[c] = p

\* p runs user code, which has its first page still, and makes a system call.
calls(p) == Running(p) /\ job[p] = idle /\ pt[p].pte[0] # 0 /\ ptlock = nobody

inCall(p, op) == Running(p) /\ job[p].op = op /\ ptlock = nobody

return(p) == job' = [job EXCEPT ![p] = idle]

\* switchuvm()
switchuvm(p, x) == cr3' = [cr3 EXCEPT ![cpuOf(p)] = x.dir]

\* scheduler(): a process is chosen.
scheduler(c) ==
    /\ run[c] = nobody /\ ptlock = nobody
    /\ \E p \in Procs :
          /\ state[p] = "RUNNABLE"
          /\ state' = [state EXCEPT ![p] = "RUNNING"]
          /\ run' = [run EXCEPT ![c] = p]
          /\ cr3' = [cr3 EXCEPT ![c] = pt[p].dir]
    /\ UNCHANGED <<freelist, pt, sz, kstack, job, ptlock, windows>>

\* yield(): the process gives up its CPU, which still uses its directory.  Not while it
\* holds wmlock: that keeps the interrupts off.
yield(c) ==
    /\ run[c] # nobody /\ ptlock = nobody
    /\ state[run[c]] = "RUNNING" /\ job[run[c]].op # "draw"
    /\ state' = [state EXCEPT ![run[c]] = "RUNNABLE"]
    /\ ptlock' = c
    /\ UNCHANGED <<freelist, pt, sz, kstack, job, run, cr3, windows>>

kpgdir == kernelPt(1 .. KTABS + 1)

\* sched(), scheduler(): back to the kernel's own directory.
switchkvm(c) ==
    /\ ptlock = c
    /\ ptlock' = nobody
    /\ run' = [run EXCEPT ![c] = nobody]
    /\ cr3' = [cr3 EXCEPT ![c] = kpgdir.dir]
    /\ UNCHANGED <<freelist, pt, sz, kstack, state, job, windows>>

----------------------------------------------------------------------------
(* sbrk() *)

\* growproc() with n > 0 and room below KERNBASE: allocuvm() starts.
grow(p, n) ==
    /\ calls(p) /\ p # initproc
    /\ n > 0 /\ sz[p] + n < KERNBASE
    /\ job' = [job EXCEPT ![p] = [idle EXCEPT !.op = "grow", !.to = sz[p] + n,
                                              !.at = PGROUNDUP(sz[p])]]
    /\ UNCHANGED <<freelist, pt, sz, kstack, state, run, cr3, ptlock, windows>>

growPage(p) ==
    LET a == job[p].at IN
    /\ inCall(p, "grow") /\ a < job[p].to
    /\ LET x == IF canMap(pt[p], a \div PGSIZE) THEN mapped(pt[p], a \div PGSIZE)
                ELSE deallocuvm(pt[p], job[p].to, sz[p])
       IN /\ pt' = [pt EXCEPT ![p] = x]
          /\ freelist' = kfreed(pt[p], x) \ pagesOf(x)
    /\ job' = [job EXCEPT ![p] = IF canMap(pt[p], a \div PGSIZE)
                                 THEN [@ EXCEPT !.at = a + PGSIZE] ELSE idle]
    /\ UNCHANGED <<sz, kstack, state, run, cr3, ptlock, windows>>

growDone(p) ==
    /\ inCall(p, "grow") /\ job[p].at >= job[p].to
    /\ sz' = [sz EXCEPT ![p] = job[p].to]
    /\ switchuvm(p, pt[p])
    /\ return(p)
    /\ UNCHANGED <<freelist, pt, kstack, state, run, ptlock, windows>>

\* growproc() with n < 0.  Down to 0 it fails, but the memory is gone.
shrink(p, n) ==
    /\ calls(p) /\ p # initproc
    /\ n < 0 /\ sz[p] + n >= 0
    /\ LET x == deallocuvm(pt[p], sz[p], sz[p] + n)
       IN /\ pt' = [pt EXCEPT ![p] = x]
          /\ freelist' = kfreed(pt[p], x)
    /\ sz' = [sz EXCEPT ![p] = IF @ + n = 0 THEN @ ELSE @ + n]
    /\ UNCHANGED <<kstack, state, job, run, cr3, ptlock, windows>>

----------------------------------------------------------------------------
(* fork() *)

\* allocproc(): a slot and a kernel stack, or nothing.
fork(p) ==
    /\ calls(p)
    /\ \E q \in Procs :
          /\ state[q] = "UNUSED"
          /\ freelist # {}
          /\ state' = [state EXCEPT ![q] = "EMBRYO"]
          /\ kstack' = [kstack EXCEPT ![q] = kalloc(freelist)]
          /\ freelist' = freelist \ {kalloc(freelist)}
          /\ job' = [job EXCEPT ![p] = [idle EXCEPT !.op = "fork", !.child = q]]
    /\ UNCHANGED <<pt, sz, run, cr3, ptlock, windows>>

\* fork() gives up: the copy and the child's stack are freed.
forkFails(p) ==
    LET q == job[p].child IN
    /\ freelist' = freelist \cup freevm(job[p].pt) \cup {kstack[q]}
    /\ kstack' = [kstack EXCEPT ![q] = 0]
    /\ state' = [state EXCEPT ![q] = "UNUSED"]
    /\ return(p)

\* copyuvm(): first the kernel's part, then page after page.
copyuvmStart(p) ==
    /\ inCall(p, "fork") /\ job[p].pt = noPt
    /\ \/ /\ canSetup
          /\ freelist' = freelist \ kallocs(KTABS + 1)
          /\ job' = [job EXCEPT ![p].pt = setupkvm]
          /\ UNCHANGED <<kstack, state>>
       \/ ~canSetup /\ forkFails(p)
    /\ UNCHANGED <<pt, sz, run, cr3, ptlock, windows>>

copyuvmPage(p) ==
    LET x == job[p].pt
        v == job[p].at \div PGSIZE
    IN
    /\ inCall(p, "fork") /\ x # noPt /\ job[p].at < sz[p]
    /\ \/ /\ canMap(x, v)
          /\ freelist' = freelist \ kallocs(needed(x, v))
          /\ job' = [job EXCEPT ![p].pt = mapped(x, v), ![p].at = @ + PGSIZE]
          /\ UNCHANGED <<kstack, state>>
       \/ ~canMap(x, v) /\ forkFails(p)
    /\ UNCHANGED <<pt, sz, run, cr3, ptlock, windows>>

forkDone(p) ==
    LET q == job[p].child IN
    /\ inCall(p, "fork") /\ job[p].pt # noPt /\ job[p].at >= sz[p]
    /\ pt' = [pt EXCEPT ![q] = job[p].pt]
    /\ sz' = [sz EXCEPT ![q] = sz[p]]
    /\ state' = [state EXCEPT ![q] = "RUNNABLE"]
    /\ return(p)
    /\ UNCHANGED <<freelist, kstack, run, cr3, ptlock, windows>>

----------------------------------------------------------------------------
(* exec(): the job's "to" is the size of the new image so far plus the part *)
(* that is being allocated; the stack comes behind the last segment.        *)

stackTop(a) == PGROUNDUP(a) + 2 * PGSIZE

\* allocuvm() towards an end that may lie below what is there already.
nextPart(j, end) == [j EXCEPT !.at = PGROUNDUP(j.to),
                              !.to = IF end < j.to THEN j.to ELSE end]

\* A program with a window forks first.
exec(p) ==
    /\ calls(p) /\ canSetup /\ p \notin shown
    /\ \E i \in Images :
          job' = [job EXCEPT ![p] = [idle EXCEPT !.op = "exec", !.segs = i,
                                                 !.pt = setupkvm]]
    /\ freelist' = freelist \ kallocs(KTABS + 1)
    /\ UNCHANGED <<pt, sz, kstack, state, run, cr3, ptlock, windows>>

\* bad: the new image is freed, the old one goes on.
bad(p) ==
    /\ freelist' = freelist \cup freevm(job[p].pt)
    /\ return(p)

\* A segment, or the stack behind the last one; or an error of the file.
execPart(p) ==
    LET j == job[p]
        end == IF j.segs = <<>> THEN stackTop(j.to) ELSE Head(j.segs)
    IN
    /\ inCall(p, "exec") /\ j.at >= j.to
    /\ \/ /\ end < KERNBASE /\ (end # 0 \/ j.to # 0)
          /\ job' = [job EXCEPT ![p] =
                IF j.segs = <<>> THEN [nextPart(j, end) EXCEPT !.op = "stack"]
                ELSE [nextPart(j, end) EXCEPT !.segs = Tail(@)]]
          /\ UNCHANGED freelist
       \/ bad(p)
    /\ UNCHANGED <<pt, sz, kstack, state, run, cr3, ptlock, windows>>

execPage(p) ==
    LET x == job[p].pt
        v == job[p].at \div PGSIZE
    IN
    /\ inCall(p, "exec") \/ inCall(p, "stack")
    /\ job[p].at < job[p].to
    /\ \/ /\ canMap(x, v)
          /\ freelist' = freelist \ kallocs(needed(x, v))
          /\ job' = [job EXCEPT ![p].pt = mapped(x, v), ![p].at = @ + PGSIZE]
       \/ ~canMap(x, v) /\ bad(p)
    /\ UNCHANGED <<pt, sz, kstack, state, run, cr3, ptlock, windows>>

\* A slip: the process goes on using the old directory.
commitUnswitched(p) ==
    /\ inCall(p, "stack") /\ job[p].at >= job[p].to
    /\ pt' = [pt EXCEPT ![p] = job[p].pt]
    /\ sz' = [sz EXCEPT ![p] = job[p].to]
    /\ job' = [job EXCEPT ![p] = [idle EXCEPT !.op = "free", !.pt = pt[p]]]
    /\ UNCHANGED <<freelist, kstack, state, run, ptlock, cr3, windows>>

\* The arguments do not fit, or the image is committed: the process switches to
\* it, and has the old one still to free.
execCommit(p) ==
    /\ inCall(p, "stack") /\ job[p].at >= job[p].to
    /\ \/ bad(p) /\ UNCHANGED <<pt, sz, cr3>>
       \/ /\ pt' = [pt EXCEPT ![p] = job[p].pt]
          /\ sz' = [sz EXCEPT ![p] = job[p].to]
          /\ switchuvm(p, job[p].pt)
          /\ job' = [job EXCEPT ![p] = [idle EXCEPT !.op = "free", !.pt = pt[p]]]
          /\ UNCHANGED freelist
    /\ UNCHANGED <<kstack, state, run, ptlock, windows>>

freeOld(p) ==
    /\ inCall(p, "free")
    /\ freelist' = freelist \cup freevm(job[p].pt)
    /\ return(p)
    /\ UNCHANGED <<pt, sz, kstack, state, run, cr3, ptlock, windows>>

----------------------------------------------------------------------------
(* exit() and wait() *)

\* exit(), on its own or after a page fault, up to sched().
exit(c) ==
    LET p == run[c] IN
    /\ p \notin {nobody, initproc} /\ ptlock = nobody
    /\ Running(p) /\ job[p] = idle
    /\ state' = [state EXCEPT ![p] = "ZOMBIE"]
    /\ ptlock' = c
    /\ left' = left \cup ({p} \cap shown)
    /\ UNCHANGED <<freelist, pt, sz, kstack, job, run, cr3, shown>>

\* wait(): some process, its parent, frees what a zombie leaves.
reap(p) ==
    /\ state[p] = "ZOMBIE" /\ ptlock = nobody
    /\ \E q \in Procs : calls(q)
    /\ freelist' = freelist \cup freevm(pt[p]) \cup {kstack[p]}
    /\ pt' = [pt EXCEPT ![p] = noPt]
    /\ kstack' = [kstack EXCEPT ![p] = 0]
    /\ state' = [state EXCEPT ![p] = "UNUSED"]
    /\ UNCHANGED <<sz, job, run, cr3, ptlock, windows>>

----------------------------------------------------------------------------
(* The window manager.                                                     *)

\* wmlock is held from the first line of updateScreen() to the last.
wmlockFree == \A p \in Procs : job[p].op # "draw"

\* GUI_createWindow(), GUI_createPopupWindow()
createWindow(p) ==
    /\ desktop # nobody
    /\ calls(p) /\ p \notin {initproc} \cup shown /\ wmlockFree
    /\ shown' = shown \cup {p}
    /\ UNCHANGED <<freelist, pt, sz, kstack, state, job, run, cr3, ptlock, left>>

\* GUI_closeWindow(); and a slip, without wmlock.
closeUnlocked(p) ==
    /\ calls(p) /\ p \in shown \ left
    /\ shown' = shown \ {p}
    /\ UNCHANGED <<freelist, pt, sz, kstack, state, job, run, cr3, ptlock, left>>

closeWindow(p) ==
    /\ calls(p) /\ p \in shown \ left /\ wmlockFree
    /\ shown' = shown \ {p}
    /\ UNCHANGED <<freelist, pt, sz, kstack, state, job, run, cr3, ptlock, left>>

updateScreen(p) ==
    /\ p = desktop /\ calls(p) /\ p \in shown \ left /\ wmlockFree
    /\ job' = [job EXCEPT ![p] = [idle EXCEPT !.op = "draw"]]
    /\ UNCHANGED <<freelist, pt, sz, kstack, state, run, cr3, ptlock, windows>>

\* One window after the other.  Where a process that is listed has been reaped,
\* switchuvm() panics, or loads what pgdir still holds.
drawWindow(p) ==
    /\ Running(p) /\ job[p].op = "draw"
    /\ \E q \in shown \ {p} :
          /\ pt[q] # noPt
          /\ switchuvm(p, pt[q])
    /\ UNCHANGED <<freelist, pt, sz, kstack, state, job, run, ptlock, windows>>

drawMouse(p) ==
    /\ Running(p) /\ job[p].op = "draw"
    /\ switchuvm(p, pt[p])
    /\ return(p)
    /\ UNCHANGED <<freelist, pt, sz, kstack, state, run, ptlock, windows>>

----------------------------------------------------------------------------

\* main(): the pages behind the kernel's own tables are free (kinit1, kinit2,
\* kvmalloc); userinit(), inituvm(): then the first process has its tables, one
\* page of memory and a stack.
firstPt == [kernelPt(KTABS + 2 .. 2 * KTABS + 2) EXCEPT
                !.tab[0] = 2 * KTABS + 3, !.pte[0] = 2 * KTABS + 4]

Init ==
    /\ pt = [p \in Procs |-> IF p = initproc THEN firstPt ELSE noPt]
    /\ kstack = [p \in Procs |-> IF p = initproc THEN 2 * KTABS + 5 ELSE 0]
    /\ freelist = 2 * KTABS + 6 .. NPAGES
    /\ sz = [p \in Procs |-> IF p = initproc THEN PGSIZE ELSE 0]
    /\ state = [p \in Procs |-> IF p = initproc THEN "RUNNABLE" ELSE "UNUSED"]
    /\ job = [p \in Procs |-> idle]
    /\ run = [c \in CPUs |-> nobody]
    /\ cr3 = [c \in CPUs |-> kpgdir.dir]
    /\ ptlock = nobody
    /\ shown = {} /\ left = {}

Next ==
    \/ \E c \in CPUs : scheduler(c) \/ yield(c) \/ switchkvm(c) \/ exit(c)
    \/ \E p \in Procs :
          \/ \E n \in Deltas : grow(p, n) \/ shrink(p, n)
          \/ growPage(p) \/ growDone(p)
          \/ fork(p) \/ copyuvmStart(p) \/ copyuvmPage(p) \/ forkDone(p)
          \/ exec(p) \/ execPart(p) \/ execPage(p) \/ execCommit(p) \/ freeOld(p)
          \/ reap(p)
          \/ createWindow(p) \/ closeWindow(p)
          \/ updateScreen(p) \/ drawWindow(p) \/ drawMouse(p)

Spec == Init /\ [][Next]_vars

----------------------------------------------------------------------------
(* Properties.                                                             *)

PageTables == [dir : 0 .. NPAGES, ktab : SUBSET Pages,
               tab : [Tables -> 0 .. NPAGES], pte : [VPages -> 0 .. NPAGES]]

\* Every variable has a value of its type.
TypeOK ==
    /\ freelist \subseteq Pages
    /\ pt \in [Procs -> PageTables]
    /\ sz \in [Procs -> 0 .. KERNBASE - 1]
    /\ kstack \in [Procs -> 0 .. NPAGES]
    /\ state \in [Procs -> {"UNUSED", "EMBRYO", "RUNNABLE", "RUNNING", "ZOMBIE"}]
    /\ \A p \in Procs : job[p].pt \in PageTables
    /\ run \in [CPUs -> Procs \cup {nobody}]
    /\ cr3 \in [CPUs -> Pages]
    /\ ptlock \in CPUs \cup {nobody}
    /\ left \subseteq shown /\ shown \subseteq Procs

\* All address spaces: of the kernel, of the processes and under construction.
spaces == {kpgdir} \cup {pt[p] : p \in Procs} \cup {job[p].pt : p \in Procs}

\* The entries of an address space that refer to a page.
entries(x) == Cardinality(x.ktab) + Cardinality({x.dir} \ {0})
              + Cardinality({t \in Tables : x.tab[t] # 0})
              + Cardinality({v \in VPages : x.pte[v] # 0})

\* kalloc.c, vm.c, exec.c, proc.c: every page of memory has exactly one use at
\* any time, however the calls are interleaved and whichever allocation fails:
\* none is leaked, freed while in use, or shared between two uses.  (With the
\* types of the variables.)
PagesExact ==
    /\ TypeOK
    /\ freelist \cup UNION {pagesOf(x) : x \in spaces}
         \cup ({kstack[p] : p \in Procs} \ {0}) = Pages
    /\ Cardinality(freelist) + Cardinality({p \in Procs : kstack[p] # 0})
         + entries(kpgdir)
         + MapThenSumSet(LAMBDA p : entries(pt[p]) + entries(job[p].pt), Procs)
         = NPAGES

\* proc.c:159-175, vm.c:222-279: the pages of a process are those below its
\* size, so that copyuvm() finds them all; a process that has given up all its
\* memory (sbrk() fails then, and the size is not changed) can only exit.
ImageMatchesSize ==
    \A p \in Procs :
        state[p] \in {"RUNNABLE", "RUNNING", "ZOMBIE"} =>
            \/ job[p] = idle /\ \A v \in VPages : pt[p].pte[v] = 0
            \/ \A v \in VPages :
                  IF v * PGSIZE < sz[p] THEN pt[p].pte[v] # 0
                  ELSE job[p].op = "grow" \/ pt[p].pte[v] = 0

\* exec.c:97-103, proc.c:272-312, 323-356, window_manager.c:543-590: a CPU never
\* uses a directory that is freed.  It uses the kernel's, the one of the process it
\* runs or, while that is the desktop and draws, the one of a process with a window,
\* which cannot close the window and be reaped before the drawing ends.  A process
\* that is killed, traps or calls exit() with its window open breaks this.
DirectoryInUse ==
    \A c \in CPUs :
        \/ run[c] = nobody /\ cr3[c] = kpgdir.dir
        \/ run[c] # nobody /\ cr3[c] = pt[run[c]].dir
        \/ /\ run[c] # nobody /\ job[run[c]].op = "draw"
           /\ left # {} \/ \E q \in shown : cr3[c] = pt[q].dir
=============================================================================
