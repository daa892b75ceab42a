---------------------------- MODULE MCStructures ----------------------------
(***************************************************************************)
(* The queues, lists and texts that two sides share: the message buffer of  *)
(* a window, a pipe, the kernel's list of windows, a program's list of      *)
(* widgets, and an input field.  Each behaviour is about one of them, the   *)
(* others stay as they are at the start.                                    *)
(***************************************************************************)
EXTENDS MessageQueue, Pipe, WindowList

CONSTANTS
    MAX_WIDGET_SIZE, Names, MaxDepth, MaxEntries,  \* Widgets
    Letters, charPerLine, MAX_LONG_STRLEN          \* InputField

VARIABLES
    part,
    program, win, commandWidgetId, current_path_widget, current_path,
    overrun, crowded, wild, closed,
    text, current_pos

widgetVars == <<program, win, commandWidgetId, current_path_widget, current_path,
                overrun, crowded, wild, closed>>
fieldVars == <<text, current_pos>>
allVars == <<part, queueVars, vars, listVars, widgetVars, fieldVars>>

Widget == INSTANCE Widgets
Field == INSTANCE InputField

\* What programs write into the pipe.
MCTexts == {<<"a", "b", "b">>}

MCInit ==
    /\ part \in {"queue", "pipe", "list", "widgets", "field"}
    /\ QueueInit /\ Init /\ ListInit /\ Widget!Init /\ Field!Init
    /\ part # "widgets" => program = "shell"
    /\ part # "field" => text = <<>>

MCNext ==
    \/ /\ part = "queue" /\ QueueNext
       /\ UNCHANGED <<part, vars, listVars, widgetVars, fieldVars>>
    \/ /\ part = "pipe" /\ Next
       /\ UNCHANGED <<part, queueVars, listVars, widgetVars, fieldVars>>
    \/ /\ part = "list" /\ ListNext
       /\ UNCHANGED <<part, queueVars, vars, widgetVars, fieldVars>>
    \/ /\ part = "widgets" /\ Widget!Next
       /\ UNCHANGED <<part, queueVars, vars, listVars, fieldVars>>
    \/ /\ part = "field" /\ Field!Next
       /\ UNCHANGED <<part, queueVars, vars, listVars, widgetVars>>

\* Of the fair actions of the parts only the reading of a pipe is possible at the start.
MCSpec ==
    /\ MCInit /\ [][MCNext]_allVars
    /\ QueueFairness /\ Fairness
    /\ \A p \in Readers : WF_vars(part = "pipe" /\ callRead(p))

\* user_window.c:286-390, shell.c, explorer.c: the list of widgets is intact, and
\* keys go to a widget that exists.  user_handler.c:137-198: in an input field the
\* cursor never leaves the text; user_handler.c:10-110: a click on a character puts
\* the cursor before it.
ContentsIntact ==
    /\ Widget!WidgetListIntact /\ Widget!FocusLive
    /\ Field!CursorInText /\ Field!ClicksInvert

\* user_handler.c:137-198: an input field is a text with a cursor in it.
ImplementsTextBuffer == Field!ImplementsTextBuffer
=============================================================================
