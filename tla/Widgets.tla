------------------------------- MODULE Widgets -------------------------------
(***************************************************************************)
(* The widgets of a window (src/user_window.c) in the hands of the two      *)
(* programs that add and remove them all the time: the shell                *)
(* (src/shell.c), which replaces its input field by the command and its     *)
(* output whenever a line is entered, and the explorer (src/explorer.c),    *)
(* which shows another directory.  A window is a record of the fields of    *)
(* struct window; -1 is no widget.  What the widgets show is left out, and  *)
(* so are their positions but for the entry a double click is on.           *)
(***************************************************************************)
EXTENDS Integers, Sequences, SequencesExt, FiniteSets

CONSTANTS
    MAX_WIDGET_SIZE,
    Names,        \* names of directories
    MaxDepth,     \* bound: the length of a path
    MaxEntries    \* bound: the entries of a directory that are shown

VARIABLES
    program,      \* "shell" or "explorer"
    win,
    commandWidgetId,      \* shell
    current_path_widget,  \* explorer
    current_path,         \* as the sequence of its names
    overrun,      \* getparentpath() wrote outside its buffer
    crowded,      \* the first listing left no room for the explorer's own widgets
    wild,         \* a widget that is none was used
    closed

vars == <<program, win, commandWidgetId, current_path_widget, current_path,
          overrun, crowded, wild, closed>>

Ids == 0 .. MAX_WIDGET_SIZE - 1

----------------------------------------------------------------------------
(* src/user_window.c *)

\* createWindow()
emptyWindow ==
    [next |-> [i \in Ids |-> i], prev |-> [i \in Ids |-> i], head |-> -1,
     tail |-> -1, keyfocus |-> -1,
     type |-> [i \in Ids |-> "none"], handler |-> [i \in Ids |-> "none"],
     live |-> {}]    \* the widgets whose context is allocated

available(w) == {i \in Ids : w.prev[i] = i /\ w.next[i] = i}

\* The first slot that is not on the list, or -1.
findNextAvailable(w) ==
    IF available(w) = {} THEN -1
    ELSE CHOOSE i \in available(w) : \A j \in available(w) : i <= j

\* A slip: the widget that was the last does not know its successor.
addUnlinked(w, i) == [w EXCEPT !.prev[i] = w.tail, !.next[i] = -1, !.tail = i]

addToWidgetListTail(w, i) ==
    LET x == [w EXCEPT !.prev[i] = w.tail, !.next[i] = -1, !.tail = i]
    IN IF w.tail = -1 THEN x ELSE [x EXCEPT !.next[w.tail] = i]

\* removeFromWidgetList() takes the new head from the end of the list: right
\* only if the list becomes empty.
removeFromWidgetList(w, i) ==
    LET w1 == [w EXCEPT !.head = IF @ = i THEN w.next[w.tail] ELSE @]
        w2 == [w1 EXCEPT !.tail = IF @ = i THEN w.prev[@] ELSE @]
        w3 == IF w.prev[i] = -1 THEN w2 ELSE [w2 EXCEPT !.next[w.prev[i]] = w.next[i]]
        w4 == IF w.next[i] = -1 THEN w3 ELSE [w3 EXCEPT !.prev[w.next[i]] = w.prev[i]]
    IN [w4 EXCEPT !.prev[i] = i, !.next[i] = i]

\* addWidget() and what the functions that add a certain widget do then; the
\* window is unchanged if there is no slot.
addWidget(w, type, handler) ==
    LET i == findNextAvailable(w)
        x == addToWidgetListTail([w EXCEPT !.head = IF @ = -1 THEN i ELSE @], i)
    IN IF i = -1 THEN w
       ELSE [x EXCEPT !.type[i] = type, !.handler[i] = handler,
                      !.live = @ \cup {i},
                      !.keyfocus = IF type = "INPUTFIELD" THEN i ELSE @]

\* freeWidget(): the context is freed.
freeWidget(w, i) == [w EXCEPT !.live = @ \ {i}]

\* A slip: the widget is freed and stays on the list.
removeUnlinked(w, i) == freeWidget(w, i)

removeWidget(w, i) ==
    IF w.prev[i] = i /\ w.next[i] = i THEN w
    ELSE removeFromWidgetList(freeWidget(w, i), i)

\* The widgets as a walk from the head along the links finds them.
widgetList(w) ==
    LET at[k \in 1 .. MAX_WIDGET_SIZE + 1] ==
            IF k = 1 THEN w.head
            ELSE IF at[k - 1] = -1 THEN -1 ELSE w.next[at[k - 1]]
        len == Cardinality({k \in DOMAIN at : at[k] # -1})
    IN [k \in 1 .. len |-> at[k]]

----------------------------------------------------------------------------
(* src/shell.c *)

shellWindow ==
    addWidget(addWidget(emptyWindow, "COLORFILL", "empty"), "INPUTFIELD", "input")

\* inputHandler(), for a newline in a line that is not empty.  The child that
\* runs the command and the pipe to it are in module Shell.
inputHandler ==
    LET w1 == removeWidget(win, commandWidgetId)
        w2 == addWidget(w1, "TEXT", "empty")
        w3 == addWidget(w2, "TEXT", "empty")
    IN IF commandWidgetId = -1
       THEN wild' = TRUE /\ UNCHANGED <<win, commandWidgetId>>
       ELSE /\ win' = addWidget(w3, "INPUTFIELD", "input")
            /\ commandWidgetId' = findNextAvailable(w3)
            /\ UNCHANGED wild

\* updateWindow(): a key goes to the widget with the focus.
EnterLine ==
    /\ program = "shell" /\ ~closed
    /\ win.keyfocus # -1
    /\ win.handler[win.keyfocus] = "input"
    /\ inputHandler
    /\ UNCHANGED <<program, current_path_widget, current_path, overrun, crowded,
                   closed>>

----------------------------------------------------------------------------
(* src/explorer.c *)

\* getparentpath(): the path without its last name, in a buffer of DIRSIZ + 1 bytes.
\* It writes before the buffer for the root, whose path has no slash, and may write
\* behind it if something is left; what the program does then is not known.
getparentpath ==
    \/ /\ current_path # <<>>
       /\ current_path' = Front(current_path)
       /\ UNCHANGED overrun
    \/ /\ Len(current_path) # 1
       /\ overrun' = TRUE
       /\ UNCHANGED current_path

isEntry(w, i, pathWidget) == w.type[i] = "TEXT" /\ i # pathWidget

\* gui_ls(): the entries of the last directory are removed, and as many of the
\* new ones are added as there is room for.
listed(w, pathWidget, handlers) ==
    LET old == SelectSeq(widgetList(w), LAMBDA i : isEntry(w, i, pathWidget))
    IN FoldLeft(LAMBDA x, h : addWidget(x, "TEXT", h),
                FoldLeft(removeWidget, w, old), handlers)

Listings == UNION {[1 .. n -> {"cd", "open"}] : n \in 0 .. MaxEntries}

gui_ls ==
    IF current_path_widget = -1
    THEN wild' = TRUE /\ UNCHANGED win
    ELSE /\ \E hs \in Listings : win' = listed(win, current_path_widget, hs)
         /\ UNCHANGED wild

\* main() up to its loop.  Before the widget of the path exists its number is 0,
\* the background.
explorerWindow(hs) ==
    LET w1 == addWidget(emptyWindow, "COLORFILL", "empty")
        w2 == listed(w1, 0, hs)
        w3 == addWidget(w2, "BUTTON", "mkdir")
        w4 == addWidget(w3, "BUTTON", "back")
    IN w4

\* updateWindow(): a double click goes to the widget under the mouse.
DoubleClick(i) ==
    /\ program = "explorer" /\ ~closed /\ ~overrun
    /\ i \in ToSet(widgetList(win))
    /\ \/ /\ win.handler[i] = "cd" /\ Len(current_path) < MaxDepth
          /\ \E d \in Names : current_path' = Append(current_path, d)
          /\ gui_ls
          /\ UNCHANGED overrun
       \/ /\ win.handler[i] = "back"
          /\ getparentpath
          /\ IF overrun' THEN UNCHANGED <<win, wild>> ELSE gui_ls
       \/ /\ win.handler[i] = "mkdir"
          /\ gui_ls
          /\ UNCHANGED <<current_path, overrun>>
    /\ UNCHANGED <<program, commandWidgetId, current_path_widget, crowded, closed>>

----------------------------------------------------------------------------

\* closeWindow(): every widget is freed, along the list; the program exits.
closeWindow ==
    /\ ~closed /\ ~overrun
    /\ closed' = TRUE
    /\ win' = FoldLeft(freeWidget, win, widgetList(win))
    /\ UNCHANGED <<program, commandWidgetId, current_path_widget, current_path,
                   overrun, crowded, wild>>

InitShell ==
    /\ program = "shell"
    /\ win = shellWindow
    /\ commandWidgetId = 1
    /\ current_path_widget = 0
    /\ crowded = FALSE

InitExplorer ==
    /\ program = "explorer"
    /\ commandWidgetId = 0
    /\ \E hs \in Listings :
          LET w == explorerWindow(hs) IN
          /\ win = addWidget(w, "TEXT", "empty")
          /\ current_path_widget = findNextAvailable(w)
          /\ crowded = (findNextAvailable(w) = -1)

Init ==
    /\ InitShell \/ InitExplorer
    /\ current_path = <<>>
    /\ overrun = FALSE
    /\ wild = FALSE
    /\ closed = FALSE

Next == EnterLine \/ (\E i \in Ids : DoubleClick(i)) \/ closeWindow

Spec == Init /\ [][Next]_vars

----------------------------------------------------------------------------
(* Properties.                                                             *)

\* user_window.c:296-392: whatever the programs add and remove, the list is
\* doubly linked between head and tail, holds each widget once, exactly the
\* widgets whose memory is allocated, and the slots off the list are recognised
\* as free.  It rests on the programs adding a background first and never
\* removing it: line 331 loses the list when the head goes.
WidgetListIntact ==
    LET l == widgetList(win) IN
    /\ Len(l) <= MAX_WIDGET_SIZE /\ IsInjective(l)
    /\ l # <<>> => win.tail = Last(l)
    /\ \A k \in DOMAIN l : win.prev[l[k]] = IF k = 1 THEN -1 ELSE l[k - 1]
    /\ \A i \in Ids \ ToSet(l) : win.next[i] = i /\ win.prev[i] = i
    /\ win.live = IF closed THEN {} ELSE ToSet(l)

\* shell.c:180-275, user_window.c:193-196, 478-505: keys go to a widget whose
\* memory is allocated, the shell's input field as long as there is one, and no
\* program uses a widget that it could not add (explorer: unless the first
\* directory it shows leaves no room for its own widgets).
FocusLive ==
    /\ wild => crowded
    /\ (win.keyfocus # -1 /\ ~closed) => win.keyfocus \in win.live
    /\ (program = "shell" /\ commandWidgetId # -1 /\ ~closed) =>
            /\ win.keyfocus = commandWidgetId
            /\ win.type[win.keyfocus] = "INPUTFIELD"
=============================================================================
