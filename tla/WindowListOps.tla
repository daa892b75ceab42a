---------------------------- MODULE WindowListOps ----------------------------
(***************************************************************************)
(* The windowlist of window_manager.c: an array of MAX_WINDOW_CNT slots,    *)
(* chained by next and prev into a list whose tail is the focused window.   *)
(* A slot that is in no list points to itself.  A list L is a record of the *)
(* C variables windowlisthead, windowlisttail, next[] and prev[]; every     *)
(* operator maps the list before a C function to the list after it.         *)
(*                                                                          *)
(* An index of -1 lies outside the array: store() leaves the array alone at *)
(* such an index, and focusWild() says when the C code writes there.        *)
(***************************************************************************)
EXTENDS Integers, Sequences

CONSTANT MAX_WINDOW_CNT

ASSUME WindowCntAssumption == MAX_WINDOW_CNT \in Nat \ {0}

None == -1
Slots == 0 .. MAX_WINDOW_CNT - 1

Lists == [head : Slots \cup {None}, tail : Slots \cup {None},
          next : [Slots -> Slots \cup {None}], prev : [Slots -> Slots \cup {None}]]

\* wmInit(): no window, every slot points to itself.
wmInit == [head |-> None, tail |-> None,
           next |-> [i \in Slots |-> i], prev |-> [i \in Slots |-> i]]

\* f[i] = v, for an index of the array.
store(f, i, v) == IF i = None THEN f ELSE [f EXCEPT ![i] = v]

isFree(L, i) == L.prev[i] = i /\ L.next[i] = i

\* Mutant: the search runs one slot too far.
findOneTooFar(L) ==
    IF \E i \in Slots : isFree(L, i)
      THEN CHOOSE i \in Slots : isFree(L, i) /\ \A j \in 0 .. i - 1 : ~isFree(L, j)
      ELSE MAX_WINDOW_CNT

\* The first free slot, or -1.
findNextAvailableWindowId(L) ==
    IF \E i \in Slots : isFree(L, i)
      THEN CHOOSE i \in Slots : isFree(L, i) /\ \A j \in 0 .. i - 1 : ~isFree(L, j)
      ELSE None

\* The old tail's next is written last, as in the code.
addToWindowList(L, i) ==
    [head |-> L.head,
     tail |-> i,
     next |-> store([L.next EXCEPT ![i] = None], L.tail, i),
     prev |-> [L.prev EXCEPT ![i] = L.tail]]

\* The head is not among the things it updates.
removeFromWindowList(L, i) ==
    [head |-> L.head,
     tail |-> IF L.tail = i THEN L.prev[i] ELSE L.tail,
     next |-> store(L.next, L.prev[i], L.next[i]),
     prev |-> store(L.prev, L.next[i], L.prev[i])]

\* Mutant: the window at the head gets no treatment of its own.
focusForgetsHead(L, i) ==
    IF i = None \/ i = L.tail THEN L
    ELSE addToWindowList([L EXCEPT !.next = store(L.next, L.prev[i], L.next[i]),
                                   !.prev = store(L.prev, L.next[i], L.prev[i])], i)

\* focusWindow() makes window i the tail.
focusWindow(L, i) ==
    IF i = None \/ i = L.tail THEN L
    ELSE IF i = L.head
           THEN addToWindowList([L EXCEPT !.head = L.next[i],
                                          !.prev = store(L.prev, L.next[i], None)], i)
           ELSE addToWindowList([L EXCEPT !.next = store(L.next, L.prev[i], L.next[i]),
                                          !.prev = store(L.prev, L.next[i], L.prev[i])], i)

\* focusWindow() writes to windowlist[-1], outside the array.
focusWild(L, i) == /\ i # None /\ i # L.tail
                   /\ L.next[i] = None \/ (i # L.head /\ L.prev[i] = None)

\* The list part of createWindow(): slot i, free until now, becomes the tail.
linkNewWindow(L, i) ==
    addToWindowList(IF L.head = None THEN [L EXCEPT !.head = i] ELSE L, i)

\* The list part of closeWindow().  Its last statement focuses the slot's prev if
\* the slot is still the tail, but by then the slot points to itself.
unlinkWindow(L, i) ==
    LET R == removeFromWindowList(L, i)
        F == [R EXCEPT !.prev[i] = i, !.next[i] = i]
    IN  IF i = F.tail THEN focusWindow(F, F.prev[i]) ELSE F

\* The list part of minimizeWindow(): the window below the focused one is focused.
focusBelow(L, i) == IF i = L.tail THEN focusWindow(L, L.prev[i]) ELSE L

-----------------------------------------------------------------------------
\* What a list represents: the z-order s, from the bottom to the focused window.
Elems(s) == {s[k] : k \in 1 .. Len(s)}

\* s without its k-th element.
Without(s, k) == [j \in 1 .. Len(s) - 1 |-> IF j < k THEN s[j] ELSE s[j + 1]]

Raised(s, k) == Append(Without(s, k), s[k])

\* The links of every window name the windows around it in the z-order s.
LinksOK(L, s) == \A k \in 1 .. Len(s) :
                    /\ L.next[s[k]] = (IF k = Len(s) THEN None ELSE s[k + 1])
                    /\ L.prev[s[k]] = (IF k = 1 THEN None ELSE s[k - 1])

EndsOK(L, s) == IF s = <<>> THEN L.head = None /\ L.tail = None
                            ELSE L.head = s[1] /\ L.tail = s[Len(s)]

NoDuplicates(s) == \A j, k \in 1 .. Len(s) : s[j] = s[k] => j = k

OthersFree(L, X) == \A i \in Slots \ X : isFree(L, i)

\* The list L represents the z-order s.
Represents(L, s) == /\ L \in Lists /\ s \in Seq(Slots)
                    /\ LinksOK(L, s) /\ EndsOK(L, s) /\ NoDuplicates(s)
                    /\ OthersFree(L, Elems(s))
=============================================================================
