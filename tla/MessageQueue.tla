---------------------------- MODULE MessageQueue ----------------------------
(***************************************************************************)
(* The ring buffer msg_buf in which the kernel leaves messages for a window *)
(* (window_manager.c).  The kernel dispatches under wmlock; the process of  *)
(* the window polls: getMessage() tests cnt WITHOUT the lock, and takes the *)
(* message in a critical section of its own.  Each critical section is one  *)
(* action, and so is the unlocked test.                                     *)
(*                                                                          *)
(* Consumers is the set of processes that poll this buffer.  The buffer of  *)
(* a window has one (sys_GUI_getMessage compares myproc() with the owner);  *)
(* the popup's buffer has one per running startWindow process.              *)
(***************************************************************************)
EXTENDS Integers, Sequences

CONSTANTS MSG_BUF_SIZE,  \* slots of the ring
          Messages,      \* what the kernel may dispatch
          Consumers,     \* the processes that poll this buffer
          NoMsg          \* a slot of the zeroed static array

ASSUME SizeAssumption == MSG_BUF_SIZE \in Nat \ {0}
ASSUME NoMsgAssumption == NoMsg \notin Messages

VARIABLES slots, front, rear, cnt,  \* struct msg_buf (slots is its array data)
          getting,                  \* where each consumer is in getMessage()
          result                    \* what the last completed getMessage() returned

queueVars == <<slots, front, rear, cnt, getting, result>>

RingSlots == 0 .. MSG_BUF_SIZE - 1

\* ++i, then back to 0 at the end of the array.
Advance(i) == IF i + 1 >= MSG_BUF_SIZE THEN 0 ELSE i + 1

QueueInit ==
    /\ slots = [i \in RingSlots |-> NoMsg]
    /\ front = 0 /\ rear = 0 /\ cnt = 0
    /\ getting = [c \in Consumers |-> "poll"]
    /\ result = NoMsg

-----------------------------------------------------------------------------
\* Mutants: plausible slips in the four operations, each of which some property
\* below must notice.
dispatchOffByOne(m) ==
    /\ IF cnt > MSG_BUF_SIZE
         THEN UNCHANGED <<slots, rear, cnt>>
         ELSE /\ cnt' = cnt + 1
              /\ slots' = [slots EXCEPT ![rear] = m]
              /\ rear' = Advance(rear)
    /\ UNCHANGED <<front, getting, result>>

checkLeavesOne(c) ==
    /\ getting[c] = "poll"
    /\ cnt > 1
    /\ getting' = [getting EXCEPT ![c] = "take"]
    /\ UNCHANGED <<slots, front, rear, cnt, result>>

checkSkipped(c) ==
    /\ getting[c] = "poll"
    /\ getting' = [getting EXCEPT ![c] = "take"]
    /\ UNCHANGED <<slots, front, rear, cnt, result>>

takeNewest(c) ==
    /\ getting[c] = "take"
    /\ cnt' = cnt - 1
    /\ result' = slots[IF rear = 0 THEN MSG_BUF_SIZE - 1 ELSE rear - 1]
    /\ rear' = (IF rear = 0 THEN MSG_BUF_SIZE - 1 ELSE rear - 1)
    /\ getting' = [getting EXCEPT ![c] = "poll"]
    /\ UNCHANGED <<slots, front>>

resetKeepsRear(c) ==
    /\ getting[c] = "poll"
    /\ front' = 0 /\ cnt' = 0
    /\ UNCHANGED <<slots, rear, getting, result>>

-----------------------------------------------------------------------------
\* dispatchMessage(), always called with wmlock held.  A full buffer drops the
\* message (the callers ignore the return value 1).
dispatchMessage(m) ==
    /\ IF cnt >= MSG_BUF_SIZE
         THEN UNCHANGED <<slots, rear, cnt>>
         ELSE /\ cnt' = cnt + 1
              /\ slots' = [slots EXCEPT ![rear] = m]
              /\ rear' = Advance(rear)
    /\ UNCHANGED <<front, getting, result>>

\* getMessage() up to acquire(): cnt is read without the lock.
getMessageCheck(c) ==
    /\ getting[c] = "poll"
    /\ cnt # 0
    /\ getting' = [getting EXCEPT ![c] = "take"]
    /\ UNCHANGED <<slots, front, rear, cnt, result>>

\* getMessage() from acquire() to release(): nothing is tested again.
getMessageTake(c) ==
    /\ getting[c] = "take"
    /\ cnt' = cnt - 1
    /\ result' = slots[front]
    /\ front' = Advance(front)
    /\ getting' = [getting EXCEPT ![c] = "poll"]
    /\ UNCHANGED <<slots, rear>>

\* createWindow(), closeWindow() and the popup's versions re-initialise the
\* buffer; the process that does so is not inside getMessage() itself.
initMessageQueue(c) ==
    /\ getting[c] = "poll"
    /\ front' = 0 /\ rear' = 0 /\ cnt' = 0
    /\ UNCHANGED <<slots, getting, result>>

QueueNext ==
    \/ \E m \in Messages : dispatchMessage(m)
    \/ \E c \in Consumers : \/ getMessageCheck(c)
                            \/ getMessageTake(c)
                            \/ initMessageQueue(c)

\* A consumer is a user process in its main loop, and the scheduler runs every
\* runnable process again and again: it keeps polling and finishes what it began.
QueueFairness == \A c \in Consumers : WF_queueVars(getMessageCheck(c) \/ getMessageTake(c))

QueueSpec == QueueInit /\ [][QueueNext]_queueVars
QueueFairSpec == QueueSpec /\ QueueFairness

-----------------------------------------------------------------------------
\* The type of the state, with cnt in the range of a real message count.
QueueTypeOK ==
    /\ slots \in [RingSlots -> Messages \cup {NoMsg}]
    /\ front \in RingSlots /\ rear \in RingSlots
    /\ cnt \in 0 .. MSG_BUF_SIZE
    /\ getting \in [Consumers -> {"poll", "take"}]
    /\ result \in Messages \cup {NoMsg}

\* The i-th of the waiting messages lives at SlotOf(i).
SlotOf(i) == IF front + i >= MSG_BUF_SIZE THEN front + i - MSG_BUF_SIZE ELSE front + i

\* The three counters agree (rear is cnt slots after front), and the slots
\* between them hold messages that were dispatched, never the zeroed memory of
\* a slot that was not written.
RingOK == /\ IF cnt = MSG_BUF_SIZE THEN rear = front ELSE rear = SlotOf(cnt)
          /\ \A i \in 0 .. cnt - 1 : slots[SlotOf(i)] \in Messages

\* The unlocked test of cnt is still true when the process that made it takes
\* the message: dispatches in between can only have raised cnt.
CheckStillHolds == \A c \in Consumers : getting[c] = "take" => cnt > 0

\* window_manager.c:121-150: every counter stays in its array, the slots between
\* front and rear hold dispatched messages, and a process never takes a message
\* from a buffer that ran empty after its unlocked test.
QueueSafe == QueueTypeOK /\ RingOK /\ CheckStillHolds

\* The messages waiting, oldest first, and the abstract buffer they implement.
Queued == [i \in 1 .. cnt |-> slots[SlotOf(i - 1)]]

Fifo == INSTANCE BoundedFifo WITH Capacity <- MSG_BUF_SIZE, q <- Queued, out <- result

\* The ring buffer with its counters, its unlocked test and its wrap-around
\* implements the bounded FIFO: nothing is reordered, duplicated or lost except
\* when the buffer is full or re-initialised.
ImplementsFifo == Fifo!FifoSpec

\* A message, which arrives behind all others, is returned by getMessage() after finitely
\* many polls, however many more are dispatched (unless the buffer is re-initialised).
Delivered == \A m \in Messages :
                (cnt > 0 /\ Queued[cnt] = m) ~> (result = m \/ cnt = 0)
=============================================================================
