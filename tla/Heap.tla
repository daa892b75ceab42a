-------------------------------- MODULE Heap --------------------------------
(***************************************************************************)
(* The allocator of the user programs (src/umalloc.c).  Memory is counted  *)
(* in headers.  base, at address 0, is the header of an empty block that   *)
(* never leaves the free list; the heap starts at HeapStart.  A block is a  *)
(* header and what follows it; ptr and size are the headers' fields.       *)
(***************************************************************************)
EXTENDS Integers, FiniteSets, FiniteSetsExt

CONSTANTS
    MINUNITS,   \* the least that is asked of sbrk() (4096 in the code)
    HeapStart,  \* where sbrk() starts
    HeapLimit,  \* sbrk() fails beyond
    Requests    \* the numbers of headers that fit what programs ask for

base == 0
NULL == -1
Addresses == {base} \cup HeapStart .. HeapLimit - 1

VARIABLES
    ptr, size,
    freep,
    brk,
    blocks      \* the blocks that are allocated

vars == <<ptr, size, freep, brk, blocks>>

bound == HeapLimit - HeapStart + 1    \* no free list is longer

\* A free list h: the fields of the headers and where the list is entered.
heap == [ptr |-> ptr, size |-> size, freep |-> freep]
becomes(h) == ptr' = h.ptr /\ size' = h.size /\ freep' = h.freep

\* The header k steps along the list.
walk(h, k) ==
    LET f[i \in 0 .. k] == IF i = 0 THEN h.freep ELSE h.ptr[f[i - 1]] IN f[k]

----------------------------------------------------------------------------
(* free() *)

\* The block before bp on the list, by address.
between(h, p, bp) ==
    \/ bp > p /\ bp < h.ptr[p]
    \/ p >= h.ptr[p] /\ (bp > p \/ bp < h.ptr[p])

before(h, bp) ==
    walk(h, Min({k \in 0 .. bound : between(h, walk(h, k), bp)}))

\* A slip: blocks are only joined with what is behind them.
joinedUp(h, bp) ==
    LET p == before(h, bp)
        next == h.ptr[p]
        up == bp + h.size[bp] = next
    IN [ptr |-> [h.ptr EXCEPT ![bp] = IF up THEN h.ptr[next] ELSE next, ![p] = bp],
        size |-> [h.size EXCEPT ![bp] = IF up THEN @ + h.size[next] ELSE @],
        freep |-> p]

\* bp is put on the list, joined with the block behind it, and the one before it
\* with bp.
joined(h, bp) ==
    LET p == before(h, bp)
        next == h.ptr[p]
        up == bp + h.size[bp] = next
        down == p + h.size[p] = bp
        bpsize == IF up THEN h.size[bp] + h.size[next] ELSE h.size[bp]
        bpptr == IF up THEN h.ptr[next] ELSE next
    IN [ptr |-> [h.ptr EXCEPT ![bp] = bpptr, ![p] = IF down THEN bpptr ELSE bp],
        size |-> [h.size EXCEPT ![bp] = bpsize, ![p] = IF down THEN @ + bpsize ELSE @],
        freep |-> p]

free(bp) ==
    /\ bp \in blocks
    /\ becomes(joined(heap, bp))
    /\ blocks' = blocks \ {bp}
    /\ UNCHANGED brk

----------------------------------------------------------------------------
(* malloc() *)

\* morecore(): the list with what sbrk() gave.
more(nunits) == IF nunits < MINUNITS THEN MINUNITS ELSE nunits

withCore(h, nunits) ==
    joined([h EXCEPT !.size[brk] = more(nunits)], brk)

\* The list behind the first call has base only.
started ==
    IF freep = NULL
    THEN [heap EXCEPT !.ptr[base] = base, !.size[base] = 0, !.freep = base]
    ELSE heap

\* The first block from freep on that is large enough, by its place on the list;
\* freep itself is the last.
fitting(h, nunits) == {k \in 1 .. bound : h.size[walk(h, k)] >= nunits}

\* A slip: the rest of the block keeps its size.
takeAll(h, nunits) ==
    LET k == Min(fitting(h, nunits))
        p == walk(h, k)
        prevp == walk(h, k - 1)
        q == p + h.size[p] - nunits
    IN /\ ptr' = IF h.size[p] = nunits THEN [h.ptr EXCEPT ![prevp] = h.ptr[p]]
                 ELSE h.ptr
       /\ size' = [h.size EXCEPT ![q] = nunits]
       /\ freep' = prevp
       /\ blocks' = blocks \cup {q}

\* A block that fits exactly is unlinked, of a larger one the end is taken.
take(h, nunits) ==
    LET k == Min(fitting(h, nunits))
        p == walk(h, k)
        prevp == walk(h, k - 1)
        exact == h.size[p] = nunits
        q == p + h.size[p] - nunits
    IN /\ ptr' = IF exact THEN [h.ptr EXCEPT ![prevp] = h.ptr[p]] ELSE h.ptr
       /\ size' = IF exact THEN h.size
                  ELSE [h.size EXCEPT ![p] = @ - nunits, ![q] = nunits]
       /\ freep' = prevp
       /\ blocks' = blocks \cup {q}

malloc(nunits) ==
    \/ /\ fitting(started, nunits) # {}
       /\ take(started, nunits)
       /\ UNCHANGED brk
    \/ /\ fitting(started, nunits) = {}
       /\ brk + more(nunits) <= HeapLimit
       /\ take(withCore(started, nunits), nunits)
       /\ brk' = brk + more(nunits)
    \/ /\ fitting(started, nunits) = {}
       /\ brk + more(nunits) > HeapLimit
       /\ becomes(started)
       /\ UNCHANGED <<brk, blocks>>

----------------------------------------------------------------------------

Init ==
    /\ ptr = [a \in Addresses |-> base]
    /\ size = [a \in Addresses |-> 0]
    /\ freep = NULL
    /\ brk = HeapStart
    /\ blocks = {}

Next == \/ \E u \in Requests : malloc(u)
        \/ \E b \in blocks : free(b)

Spec == Init /\ [][Next]_vars

\* The blocks on the free list but base.
onList == IF freep = NULL THEN {}
          ELSE {walk(heap, k) : k \in 0 .. bound} \ {base}

units(a) == a .. a + size[a] - 1

\* umalloc.c: allocated and free blocks are disjoint and fill the heap: nothing
\* is given out twice, lost, or beyond what sbrk() gave.
HeapPartitioned ==
    LET all == blocks \cup onList IN
    /\ blocks \cap onList = {}
    /\ \A a, b \in all : a # b => units(a) \cap units(b) = {}
    /\ UNION {units(a) : a \in all} = HeapStart .. brk - 1

\* umalloc.c:25-46: the free list goes round by address, through base, and no
\* two free blocks touch: what was given out in parts can be given out whole.
FreeListSorted ==
    freep # NULL =>
        /\ freep \in onList \cup {base}
        /\ \A a \in onList \cup {base} :
              LET above == {b \in onList : b > a} IN
              /\ ptr[a] = IF above = {} THEN base ELSE Min(above)
              /\ a # base => a + size[a] \notin onList
=============================================================================
