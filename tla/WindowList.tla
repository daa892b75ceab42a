----------------------------- MODULE WindowList -----------------------------
(***************************************************************************)
(* The window list on its own: windows are created, focused, minimized and  *)
(* closed in any order.  order is a history variable, the z-order a user    *)
(* sees (bottom first), kept beside the C representation to say what the    *)
(* representation must represent.                                           *)
(*                                                                          *)
(* closeWindow() leaves windowlisthead alone.  HeadMayClose says whether    *)
(* the bottom-most window may be closed: the C list survives every sequence *)
(* of operations in which it is not (proved), and not one in which it is    *)
(* (run window_list_head_close).                                            *)
(***************************************************************************)
EXTENDS WindowListOps

CONSTANT HeadMayClose   \* a Boolean

VARIABLES wl,      \* windowlisthead, windowlisttail, next[], prev[]
          order    \* the windows from the bottom to the focused one

listVars == <<wl, order>>

-----------------------------------------------------------------------------
\* Mutant: the successor of a closed window still points back to it.
listCloseKeepsNeighbour(k) ==
    /\ k \in 1 .. Len(order)
    /\ order[k] # wl.head \/ HeadMayClose
    /\ LET i == order[k]
           R == [removeFromWindowList(wl, i) EXCEPT !.prev = wl.prev]
       IN  wl' = [R EXCEPT !.prev[i] = i, !.next[i] = i]
    /\ order' = Without(order, k)

-----------------------------------------------------------------------------
ListInit == wl = wmInit /\ order = <<>>

listCreate ==
    LET i == findNextAvailableWindowId(wl)
    IN  /\ i # None
        /\ wl' = linkNewWindow(wl, i)
        /\ order' = Append(order, i)

\* focusWindow() from a click on the window or its dock entry, or maximizeWindow().
listFocus(k) ==
    /\ k \in 1 .. Len(order)
    /\ wl' = focusWindow(wl, order[k])
    /\ order' = Raised(order, k)

\* minimizeWindow() of the focused window.
listMinimize ==
    /\ order # <<>>
    /\ wl' = focusBelow(wl, order[Len(order)])
    /\ order' = IF Len(order) = 1 THEN order ELSE Raised(order, Len(order) - 1)

listClose(k) ==
    /\ k \in 1 .. Len(order)
    /\ order[k] # wl.head \/ HeadMayClose
    /\ wl' = unlinkWindow(wl, order[k])
    /\ order' = Without(order, k)

ListNext == \/ listCreate
            \/ listMinimize
            \/ \E k \in 1 .. MAX_WINDOW_CNT : listFocus(k) \/ listClose(k)

ListSpec == ListInit /\ [][ListNext]_listVars

-----------------------------------------------------------------------------
ListTypeOK == /\ wl \in Lists
              /\ order \in Seq(Slots)
              /\ Len(order) <= MAX_WINDOW_CNT

\* README.md:30-32: the window manager "maintains a doubly linked list of kernel
\* windows" whose tail is the focused window.  head, tail, next and prev
\* represent the z-order in both directions, no slot is in it twice, and exactly the
\* other slots are free for createWindow().
DoublyLinked == /\ LinksOK(wl, order)
                /\ EndsOK(wl, order)
                /\ NoDuplicates(order)
                /\ OthersFree(wl, Elems(order))

\* No operation writes outside the array: whenever focusWindow() is called, the
\* neighbours it writes to exist.
NoWildWrite == \A k \in 1 .. Len(order) : ~focusWild(wl, order[k])

\* window_manager.c:90-119, 220-238: the list stays a list of the open windows, whatever is
\* created, focused, minimized and closed, and no operation leaves its arrays.
ListSafe == ListTypeOK /\ DoublyLinked /\ NoWildWrite
=============================================================================
