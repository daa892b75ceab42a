---------------------------- MODULE WindowManager ----------------------------
(***************************************************************************)
(* The window manager in the kernel (window_manager.c) and the processes    *)
(* that talk to it: the desktop that init keeps restarting, the programs it *)
(* starts, and the startWindow processes behind the popup menu.             *)
(*                                                                          *)
(* wm holds the static variables of window_manager.c.  An input event runs  *)
(* wmHandleMessage() to completion under wmlock and is one action; a system *)
(* call is one action per critical section.  Processes poll: the tests that *)
(* getMessage() makes before it acquires wmlock are steps of their own.  A  *)
(* process may also end without closing its window: killed, after a trap,   *)
(* or by an exit() of its own; its window stays on the screen.              *)
(*                                                                          *)
(* Pixels are abstracted: where the mouse is relative to the windows is     *)
(* chosen by the event (the set of windows under it and the part of the     *)
(* focused one it is on), which stands for any preceding mouse movement.    *)
(* Message buffers are bounded FIFOs, which module MessageQueue justifies.  *)
(***************************************************************************)
EXTENDS WindowListOps, Sequences, FiniteSets

CONSTANTS MSG_BUF_SIZE,   \* messages a window's buffer holds
          Desktops,       \* the processes init may start, one after the other
          Apps,           \* the programs that may be started
          StartWindows,   \* the startWindow processes that may be started
          NoProc,         \* the zeroed proc field of a slot never used
          Mortal,         \* the processes that something else than close() may end
          Poor,           \* those that may be out of memory for their window
          Shells,         \* the programs whose handlers may sleep
          MaxEvents,      \* bound on the input events of a behaviour
          ClickTopRow     \* may the user click the topmost pixel row?

ASSUME ConstantsAssumption == /\ MSG_BUF_SIZE \in Nat \ {0}
                              /\ MaxEvents \in Nat
                              /\ ClickTopRow \in BOOLEAN
                              /\ Desktops \cap Apps = {}
                              /\ (Desktops \cup Apps) \cap StartWindows = {}
                              /\ NoProc \notin Desktops \cup Apps \cup StartWindows
                              /\ IsFiniteSet(StartWindows)
                              /\ Mortal \subseteq Desktops \cup Apps \cup StartWindows
                              /\ Shells \subseteq Apps

VARIABLES wm,       \* the window manager's variables and whether the kernel runs
          pc,       \* what each process is about to do
          handler,  \* window.handler of each process (the caller argument of a startWindow)
          events,   \* input events so far
          faults    \* history: what the code is known not to survive

vars == <<wm, pc, handler, events, faults>>

Windowed == Desktops \cup Apps
Procs == Windowed \cup StartWindows

Parts == {"outside", "close", "minimize", "drag"}
Kinds == {"CLOSE", "MINIMIZE", "MAXIMIZE", "INPUT", "LEFT", "DBCLICK"}

\* Places of the dock: the entry of a window (its slot), and
StartIcon == MAX_WINDOW_CNT
ShowDesktopIcon == MAX_WINDOW_CNT + 1
Elsewhere == MAX_WINDOW_CNT + 2
Places == Slots \cup {StartIcon, ShowDesktopIcon, Elsewhere}

Init == /\ wm = [list |-> wmInit, desktopId |-> None,
                 win |-> [i \in Slots |-> [proc |-> NoProc, minimized |-> FALSE, q |-> <<>>]],
                 popup |-> [caller |-> None, proc |-> NoProc, q |-> <<>>],
                 onTitle |-> FALSE, onContent |-> FALSE, onPopup |-> FALSE,
                 status |-> "running"]
        /\ pc = [p \in Procs |-> "unborn"]
        /\ handler = [p \in Procs |-> 0]
        /\ events = 0
        /\ faults = {}

-----------------------------------------------------------------------------
\* Walking the list.

\* The windows the for loops over windowlisthead/next visit; they never end when
\* the walk has not met -1 after as many steps as there are slots.
follow(f, i) == IF i = None THEN None ELSE f[i]

chain(f, first) == LET w[n \in 0 .. MAX_WINDOW_CNT] == IF n = 0 THEN first ELSE follow(f, w[n - 1])
                   IN  w

walk(L) == chain(L.next, L.head)
ends(L) == walk(L)[MAX_WINDOW_CNT] = None
visited(L) == LET w == walk(L) IN {w[n] : n \in 0 .. MAX_WINDOW_CNT} \ {None}

backwards(L) == chain(L.prev, L.tail)

\* The slots the backward search of M_MOUSE_DOWN stops at: windows under the mouse
\* (hits) other than the desktop and the minimized ones.
canHit(S, hits) == {i \in hits : i # S.desktopId /\ ~S.win[i].minimized}

searchEnds(S, hits) ==
    LET w == backwards(S.list)
        stop == canHit(S, hits) \cup {None}
    IN  \E n \in 0 .. MAX_WINDOW_CNT : w[n] \in stop

firstHit(S, hits) ==
    LET w == backwards(S.list)
        stop == canHit(S, hits) \cup {None}
    IN  w[CHOOSE n \in 0 .. MAX_WINDOW_CNT : w[n] \in stop /\ \A m \in 0 .. n - 1 : w[m] \notin stop]

-----------------------------------------------------------------------------
\* The functions of window_manager.c, as maps from the state before to the state
\* after.  status leaves "running" when the kernel panics, loops for ever with
\* wmlock held ("hang"), or writes outside its arrays ("wild").

\* Mutant: the test for a full buffer is missing.
deliverAlways(q, m) == Append(q, m)

deliver(q, m) == IF Len(q) >= MSG_BUF_SIZE THEN q ELSE Append(q, m)

dispatchMessage(S, i, m) ==
    IF i = None THEN [S EXCEPT !.status = "wild"]
                ELSE [S EXCEPT !.win[i].q = deliver(@, m)]

focus(S, i) == IF focusWild(S.list, i) THEN [S EXCEPT !.status = "wild"]
                                       ELSE [S EXCEPT !.list = focusWindow(@, i)]

showDesktop(S) ==
    [S EXCEPT !.win = [i \in Slots |->
        IF i \in visited(S.list) \ {S.desktopId} /\ ~S.win[i].minimized
          THEN [S.win[i] EXCEPT !.q = deliver(@, "MINIMIZE")]
          ELSE S.win[i]]]

handleDesktopDockClick(S, m, place) ==
    CASE ~ends(S.list) -> [S EXCEPT !.status = "hang"]
      [] ends(S.list) /\ place \in visited(S.list) \ {S.desktopId} ->
           IF S.win[place].minimized THEN dispatchMessage(S, place, "MAXIMIZE")
                                     ELSE focus(S, place)
      [] ends(S.list) /\ place = ShowDesktopIcon -> showDesktop(S)
      [] ends(S.list) /\ place = StartIcon /\ m = "LEFT" /\ S.popup.caller # S.desktopId ->
           dispatchMessage(S, S.desktopId, m)
      [] OTHER -> S

\* M_MOUSE_MOVE while a button is down.  Dragging a title bar moves pixels only, but
\* reads the focused window.
mouseMove(S) ==
    IF S.onTitle THEN IF S.list.tail = None THEN [S EXCEPT !.status = "wild"] ELSE S
    ELSE IF S.onContent THEN dispatchMessage(S, S.list.tail, "INPUT") ELSE S

\* M_MOUSE_DOWN outside the popup: tell the popup to close, focus the topmost window
\* under the mouse (else the desktop), then act on the part of it the mouse is on.
pressed(S, hits) ==
    LET C == [S EXCEPT !.popup.q = deliver(@, "CLOSE")]
    IN  IF ~searchEnds(S, hits) THEN [C EXCEPT !.status = "hang"]
        ELSE IF firstHit(S, hits) # None THEN focus(C, firstHit(S, hits))
        ELSE focus(C, S.desktopId)

pressTitle(S, part) ==
    CASE part = "close" -> dispatchMessage(S, S.list.tail, "CLOSE")
      [] part = "minimize" -> dispatchMessage(S, S.list.tail, "MINIMIZE")
      [] part = "drag" -> [S EXCEPT !.onTitle = TRUE]
      [] OTHER -> S

pressContent(S) == [dispatchMessage(S, S.list.tail, "INPUT") EXCEPT !.onContent = TRUE]

\* F is the state after pressed().
mouseDown(F, part, content) ==
    LET T == pressTitle(F, part)
    IN  IF F.status # "running" THEN F
        ELSE IF F.list.tail = None THEN [F EXCEPT !.status = "wild"]
        ELSE IF content THEN pressContent(T) ELSE T

\* Where the mouse can be on the window that has just been focused.  A window found
\* by the search is under it; the desktop's own window fills the screen and has its
\* title bar above it, except for one row.
possiblePart(F, found, part, content) ==
    IF F.status # "running" \/ F.list.tail = None THEN part = "outside" /\ ~content
    ELSE IF found THEN part # "outside" \/ content
    ELSE F.win[F.list.tail].proc \in Desktops => content /\ (part # "outside" => ClickTopRow)

mouseUp(S, m) ==
    LET U == IF S.onContent THEN dispatchMessage(S, S.list.tail, m) ELSE S
    IN  [U EXCEPT !.onPopup = FALSE, !.onContent = FALSE, !.onTitle = FALSE]

\* M_MOUSE_LEFT_CLICK and its like, which fall through into M_MOUSE_UP.  A left click
\* sent on from outside the dock cannot be on the start icon: it is mere input.
mouseClick(S, m, place) ==
    mouseUp(CASE S.onPopup ->
                   [S EXCEPT !.onPopup = FALSE, !.popup.q = deliver(@, m)]
              [] ~S.onPopup /\ S.onContent /\ S.list.tail = S.desktopId /\ place # None ->
                   handleDesktopDockClick([S EXCEPT !.onContent = FALSE], m, place)
              [] ~S.onPopup /\ S.onContent /\ ~(S.list.tail = S.desktopId /\ place # None) ->
                   dispatchMessage([S EXCEPT !.onContent = FALSE], S.list.tail,
                                   IF m = "LEFT" THEN "INPUT" ELSE m)
              [] OTHER -> S,
            m)

\* Mutant: the desktop is taken to be the window at the head.
updateScreenOfHead(S, d) ==
    IF S.list.head = None \/ S.win[S.list.head].proc # d THEN [S EXCEPT !.status = "panic"]
    ELSE IF ~ends(S.list) THEN [S EXCEPT !.status = "hang"] ELSE S

updateScreen(S, d) ==
    IF S.desktopId = None \/ S.win[S.desktopId].proc # d THEN [S EXCEPT !.status = "panic"]
    ELSE IF ~ends(S.list) THEN [S EXCEPT !.status = "hang"] ELSE S

\* The processes whose page directory updateScreen() loads.
drawn(S) == {S.win[i].proc : i \in {j \in visited(S.list) \ {S.desktopId} : ~S.win[j].minimized}}
            \cup (IF S.popup.caller = None THEN {} ELSE {S.popup.proc})

createWindow(S, p, i) ==
    [S EXCEPT !.list = linkNewWindow(@, i),
              !.desktopId = IF @ = None THEN i ELSE @,
              !.win[i] = [proc |-> p, minimized |-> FALSE, q |-> <<>>]]

\* Mutant: the slot stays in the list.
closeKeepsSlot(S, i) == [S EXCEPT !.win[i].q = <<>>]

closeWindow(S, i) ==
    [S EXCEPT !.list = unlinkWindow(@, i), !.win[i].q = <<>>]

minimizeWindow(S, i) ==
    LET M == [S EXCEPT !.win[i].minimized = TRUE]
    IN  IF i = M.list.tail THEN focus(M, M.list.prev[i]) ELSE M

maximizeWindow(S, i) == focus([S EXCEPT !.win[i].minimized = FALSE], i)

createPopupWindow(S, p, caller) ==
    IF S.popup.caller # None THEN S
    ELSE [S EXCEPT !.popup = [caller |-> caller, proc |-> p, q |-> <<>>]]

\* Mutant: the popup is emptied but stays open.
closePopupKeepsCaller(S) == [S EXCEPT !.popup.q = <<>>]

closePopupWindow(S) == [S EXCEPT !.popup.caller = None, !.popup.q = <<>>]

-----------------------------------------------------------------------------
\* Input events: the interrupt handlers of mouse and keyboard call wmHandleMessage().

\* An event that changes nothing is a stuttering step and does not count.
Event(S) == /\ wm.status = "running"
            /\ events < MaxEvents
            /\ wm' = S
            /\ wm' # wm
            /\ events' = events + 1
            /\ UNCHANGED <<pc, handler, faults>>

keyEvent == Event(dispatchMessage(wm, wm.list.tail, "INPUT"))

moveEvent == Event(mouseMove(wm))

downEvent(hits) ==
    /\ events < MaxEvents
    /\ \E F \in {pressed(wm, hits)},
          found \in {searchEnds(wm, hits) /\ firstHit(wm, hits) # None},
          part \in Parts, content \in BOOLEAN :
             /\ possiblePart(F, found, part, content)
             /\ Event(mouseDown(F, part, content))

downOnPopupEvent == /\ wm.popup.caller # None
                    /\ Event([wm EXCEPT !.onPopup = TRUE])

clickEvent(m, place) == Event(mouseClick(wm, m, place))

upEvent == Event(mouseUp(wm, "INPUT"))

\* Only the topmost window under the mouse matters, so at most one is enumerated.
UnderMouse == {{}} \cup {{i} : i \in Slots}

InputEvent == \/ keyEvent
              \/ moveEvent
              \/ \E hits \in UnderMouse : downEvent(hits)
              \/ downOnPopupEvent
              \/ \E m \in {"LEFT", "DBCLICK"}, place \in Places \cup {None} : clickEvent(m, place)
              \/ upEvent

-----------------------------------------------------------------------------
\* Processes.  A process runs while the kernel does.

At(p, label) == wm.status = "running" /\ pc[p] = label
Goto(p, label) == pc' = [pc EXCEPT ![p] = label]

\* init (init.c) starts a desktop, and another one when that has exited.
startDesktop(d) ==
    /\ At(d, "unborn")
    /\ \A e \in Desktops : pc[e] \in {"unborn", "dead", "gone"}
    /\ Goto(d, "create")
    /\ UNCHANGED <<wm, handler, events, faults>>

\* createWindow() of user_window.c and GUI_createWindow().  The process does not look
\* whether it got memory or a slot: without, it keeps the handler 0 of its zeroed window
\* variable and polls all the same.
create(p) ==
    LET i == findNextAvailableWindowId(wm.list)
    IN  /\ At(p, "create")
        /\ Goto(p, "poll")
        /\ \/ /\ i = None \/ p \in Poor
              /\ faults' = faults \cup {"no window"}
              /\ UNCHANGED <<wm, handler>>
           \/ /\ i # None
              /\ wm' = createWindow(wm, p, i)
              /\ handler' = [handler EXCEPT ![p] = i]
              /\ UNCHANGED faults
        /\ UNCHANGED events

\* sys_GUI_getMessage(): the owner test and the test of cnt, both without wmlock.
poll(p) ==
    /\ At(p, "poll")
    /\ wm.win[handler[p]].proc = p
    /\ wm.win[handler[p]].q # <<>>
    /\ Goto(p, "take")
    /\ UNCHANGED <<wm, handler, events, faults>>

\* A double click on a button starts a program; the start icon starts a startWindow,
\* with the desktop's handler smuggled through the argument vector: 0 ends the vector
\* and arrives as 0, any other value is taken for a string and arrives as an address.
launches(p, m) ==
    CASE m = "DBCLICK" -> {a \in Apps : pc[a] = "unborn"}
      [] m = "LEFT" /\ p \in Desktops -> {s \in StartWindows : pc[s] = "unborn"}
      [] OTHER -> {}

callerArg(p) == IF handler[p] = 0 THEN 0 ELSE MAX_WINDOW_CNT

\* Mutant: only the popup understands WM_WINDOW_CLOSE.
reactionIgnoresClose(p, m) == CASE m = "CLOSE" /\ p \notin Windowed -> "close"
                                [] m = "MINIMIZE" /\ p \in Windowed -> "minimize"
                                [] m = "MAXIMIZE" /\ p \in Windowed -> "maximize"
                                [] OTHER -> "poll"

reaction(p, m) == CASE m = "CLOSE" -> "close"
                    [] m = "MINIMIZE" /\ p \in Windowed -> "minimize"
                    [] m = "MAXIMIZE" /\ p \in Windowed -> "maximize"
                    [] OTHER -> "poll"

\* What the process does with a message m it has just received.  The shell's handler
\* of a line reads what its commands write, and comes back when all of them are done.
receive(p, m) ==
    \/ /\ Goto(p, reaction(p, m))
       /\ UNCHANGED handler
    \/ /\ p \in Shells /\ m = "INPUT"
       /\ Goto(p, "busy")
       /\ UNCHANGED handler
    \/ \E c \in launches(p, m) :
          /\ pc' = [pc EXCEPT ![p] = "poll", ![c] = "create"]
          /\ handler' = IF c \in StartWindows THEN [handler EXCEPT ![c] = callerArg(p)]
                                              ELSE handler

\* The critical section of getMessage(), and updateWindow() up to its next system call.
take(p) ==
    /\ At(p, "take")
    /\ wm' = [wm EXCEPT !.win[handler[p]].q = Tail(@)]
    /\ receive(p, Head(wm.win[handler[p]].q))
    /\ UNCHANGED <<events, faults>>

\* closeWindow() of user_window.c: GUI_closeWindow(), then exit().
close(p) ==
    /\ At(p, "close")
    /\ wm' = closeWindow(wm, handler[p])
    /\ faults' = faults \cup (IF handler[p] = wm.list.head THEN {"head closed"} ELSE {})
                        \cup (IF handler[p] = wm.desktopId THEN {"desktop closed"} ELSE {})
    /\ handler' = [handler EXCEPT ![p] = None]
    /\ Goto(p, "dead")
    /\ UNCHANGED events

minimize(p) ==
    /\ At(p, "minimize")
    /\ wm' = minimizeWindow(wm, handler[p])
    /\ Goto(p, "poll")
    /\ UNCHANGED <<handler, events, faults>>

maximize(p) ==
    /\ At(p, "maximize")
    /\ wm' = maximizeWindow(wm, handler[p])
    /\ Goto(p, "poll")
    /\ UNCHANGED <<handler, events, faults>>

\* The handler of the shell returns, if it ever does.
return(p) ==
    /\ At(p, "busy")
    /\ Goto(p, "poll")
    /\ UNCHANGED <<wm, handler, events, faults>>

\* exit() of a process that is killed or has trapped in user mode, or calls it itself.
\* It does not look at the windows.
UserMode == {"create", "poll", "close", "minimize", "maximize", "busy"}

exit(p) ==
    /\ \E label \in UserMode : At(p, label)
    /\ Goto(p, "gone")
    /\ UNCHANGED <<wm, handler, events, faults>>

\* The process has ended, in either way.  Until its parent has waited for it its memory
\* is there; then its place in ptable is empty, and later some other process's.
Ended(p) == p \in Procs /\ pc[p] \in {"dead", "gone"}

\* The desktop's main loop redraws the screen between two polls.  A new desktop may have
\* the place in ptable of the one that had the window; switchuvm() of a process that has
\* ended may find it there, panic, or find another's pages, where the window's are missing.
refresh(d) ==
    /\ At(d, "poll")
    /\ \/ wm' = updateScreen(wm, d)
       \/ /\ wm.desktopId # None
          /\ Ended(wm.win[wm.desktopId].proc)
          /\ wm' = updateScreen(wm, wm.win[wm.desktopId].proc)
       \/ /\ \E q \in drawn(wm) : Ended(q) \/ q = NoProc
          /\ wm' = [wm EXCEPT !.status = "panic"]
    /\ UNCHANGED <<pc, handler, events, faults>>

\* startWindow.c.  createPopupWindow() needs memory, and refuses while there is a popup;
\* the process goes on as if neither had happened.
createPopup(s) ==
    /\ At(s, "create")
    /\ \/ wm' = createPopupWindow(wm, s, handler[s])
       \/ s \in Poor /\ UNCHANGED wm
    /\ Goto(s, "poll")
    /\ UNCHANGED <<handler, events, faults>>

\* sys_GUI_getPopupMessage(): two tests without the lock, and no owner test.
pollPopup(s) ==
    /\ At(s, "poll")
    /\ wm.popup.caller # None
    /\ Goto(s, "peek")
    /\ UNCHANGED <<wm, handler, events, faults>>

peekPopup(s) ==
    /\ At(s, "peek")
    /\ Goto(s, IF wm.popup.q = <<>> THEN "poll" ELSE "take")
    /\ UNCHANGED <<wm, handler, events, faults>>

\* An empty buffer here means that cnt becomes -1 (module MessageQueue): every later
\* poll then succeeds and returns what is left in the array.
takePopup(s) ==
    /\ At(s, "take")
    /\ IF wm.popup.q = <<>>
         THEN /\ wm' = [wm EXCEPT !.status = "wild"]
              /\ UNCHANGED <<pc, handler>>
         ELSE /\ wm' = [wm EXCEPT !.popup.q = Tail(@)]
              /\ receive(s, Head(wm.popup.q))
    /\ UNCHANGED <<events, faults>>

closePopup(s) ==
    /\ At(s, "close")
    /\ wm' = closePopupWindow(wm)
    /\ Goto(s, "dead")
    /\ UNCHANGED <<handler, events, faults>>

WindowStep(p) == create(p) \/ poll(p) \/ take(p) \/ close(p) \/ minimize(p) \/ maximize(p)
PopupStep(s) == createPopup(s) \/ pollPopup(s) \/ peekPopup(s) \/ takePopup(s) \/ closePopup(s)

Next == \/ InputEvent
        \/ \E d \in Desktops : startDesktop(d) \/ refresh(d)
        \/ \E p \in Windowed : WindowStep(p)
        \/ \E s \in StartWindows : PopupStep(s)
        \/ \E p \in Shells : return(p)
        \/ \E p \in Mortal : exit(p)

\* The scheduler runs every runnable process again and again, so a process that can
\* take its next step does so.  Users need not do anything, commands of the shell need
\* not end, and nothing need end a process.
Fairness == /\ \A d \in Desktops : WF_vars(startDesktop(d))
            /\ \A p \in Windowed : WF_vars(WindowStep(p))
            /\ \A s \in StartWindows : WF_vars(PopupStep(s))

Spec == Init /\ [][Next]_vars
FairSpec == Spec /\ Fairness

-----------------------------------------------------------------------------
Listed(i) == ~isFree(wm.list, i)
IsQueue(q) == q \in Seq(Kinds) /\ Len(q) <= MSG_BUF_SIZE

TypeOK ==
    /\ wm.list \in Lists
    /\ wm.desktopId \in Slots \cup {None}
    /\ \A i \in Slots : /\ wm.win[i].proc \in Windowed \cup {NoProc}
                        /\ wm.win[i].minimized \in BOOLEAN
                        /\ IsQueue(wm.win[i].q)
    /\ wm.popup.caller \in Slots \cup {None, MAX_WINDOW_CNT}
    /\ wm.popup.proc \in StartWindows \cup {NoProc}
    /\ IsQueue(wm.popup.q)
    /\ {wm.onTitle, wm.onContent, wm.onPopup} \subseteq BOOLEAN
    /\ wm.status \in {"running", "panic", "hang", "wild"}
    /\ pc \in [Procs -> {"unborn", "create", "poll", "peek", "take", "close", "minimize",
                         "maximize", "busy", "dead", "gone"}]
    /\ handler \in [Procs -> Slots \cup {None, MAX_WINDOW_CNT}]
    /\ events \in 0 .. MaxEvents
    /\ faults \subseteq {"no window", "head closed", "desktop closed"}

\* As long as no window was closed while it was the bottom-most one, both walks of
\* the list visit every window once, in opposite orders, and end; whatever users and
\* processes do in whatever order.
ListIntact ==
    "head closed" \notin faults =>
        /\ ends(wm.list)
        /\ visited(wm.list) = {i \in Slots : Listed(i)}
        /\ \A i \in {j \in Slots : Listed(j)} :
              /\ wm.list.next[i] # None => wm.list.prev[wm.list.next[i]] = i
              /\ wm.list.next[i] = None <=> i = wm.list.tail
              /\ wm.list.prev[i] = None <=> i = wm.list.head

\* window_manager.c:90-119, 322-478: the state of the window manager has its type,
\* and its list its shape, after every event and system call.
ManagerSafe == TypeOK /\ ListIntact

\* The process has a window or may have: it is neither to be started nor did it close.
Owner(p) == p \in Procs /\ pc[p] \notin {"unborn", "dead"}

\* Every window on the screen belongs to a process that has not closed it and whose
\* handler names it: updateScreen() loads that process's page directory to copy the
\* pixels.  The process is alive, unless it was killed, trapped or left by an exit() of
\* its own: nothing takes the window off the screen then.
\* Two faults can break this.  When the desktop's window was closed, desktopId still names
\* the freed slot, and a click beside all windows puts it back into the list.  When the
\* bottom-most window was closed, a window may keep a next that names a freed slot, and
\* closing that window writes to the prev of the slot, which is not free any more.
OwnersKnown ==
    faults \cap {"desktop closed", "head closed"} = {} => \A i \in Slots : Listed(i) =>
                      Owner(wm.win[i].proc) /\ handler[wm.win[i].proc] = i

\* The same for the popup, however many startWindow processes there are and
\* whichever of them closes it.
PopupOwnerKnown == wm.popup.caller # None => Owner(wm.popup.proc)

\* window_manager.c:543-590: whatever updateScreen() draws belongs to a process that is
\* alive or has ended without close(): one that has closed its window, and may be
\* reaped and replaced as soon as it likes, is never drawn.
DrawnOwnersKnown == OwnersKnown /\ PopupOwnerKnown

\* A window that updateScreen() draws, the desktop's or the popup is left over from a
\* process that was killed, trapped or called exit().
LeftOver(p) == p \in Procs /\ pc[p] = "gone"
Orphaned ==
    \/ \E i \in Slots : /\ Listed(i) /\ (i = wm.desktopId \/ ~wm.win[i].minimized)
                        /\ LeftOver(wm.win[i].proc)
    \/ wm.popup.caller # None /\ LeftOver(wm.popup.proc)

\* The kernel survives every sequence of events, system calls and deaths of processes,
\* except for the ones named here: updateScreen() panics only when it finds a window left
\* over from a process that has ended without closing it, or after a desktop's or a
\* bottom-most window was closed or a window could not be created; its walk runs for ever
\* only after the bottom-most window was closed; and memory outside the arrays is written
\* only when there is no window at all, when those windows were closed, or when two
\* startWindows share the popup.
OnlyKnownFailures ==
    /\ wm.status = "panic" =>
          Orphaned \/ faults \cap {"head closed", "desktop closed", "no window"} # {}
    /\ wm.status = "hang" => "head closed" \in faults
    /\ wm.status = "wild" => \/ wm.list.tail = None
                             \/ faults \cap {"head closed", "desktop closed"} # {}
                             \/ Cardinality({s \in StartWindows : pc[s] # "unborn"}) > 1

\* A window whose buffer holds a close request is closed, whatever else is in the
\* buffer and keeps coming, unless its process ends otherwise before or its handler
\* sleeps for ever, as the shell's does in read() while a command of it does not end.
CloseHonoured ==
    \A p \in Windowed :
        (/\ pc[p] \in {"poll", "take", "busy"}
         /\ wm.win[handler[p]].proc = p
         /\ \E n \in 1 .. MSG_BUF_SIZE : n <= Len(wm.win[handler[p]].q)
                                         /\ wm.win[handler[p]].q[n] = "CLOSE")
        ~> (pc[p] \in {"dead", "gone"} \/ wm.status # "running" \/ [](pc[p] = "busy"))

\* A mouse press outside the popup makes it disappear, whichever startWindow process
\* gets the request, unless one of them ends otherwise.
PopupCloses ==
    (wm.popup.caller # None /\ \E n \in 1 .. MSG_BUF_SIZE :
        n <= Len(wm.popup.q) /\ wm.popup.q[n] = "CLOSE")
    ~> \/ wm.popup.caller = None \/ wm.status # "running"
       \/ \E s \in StartWindows : pc[s] = "gone"

\* Requests to close are honoured: the window's and the popup's.
RequestsHonoured == CloseHonoured /\ PopupCloses
=============================================================================
