---------------------------- MODULE InputDevices ----------------------------
(***************************************************************************)
(* The keyboard and mouse drivers (src/kbd.c, src/mouse.c) behind the      *)
(* controller they share.  The controller has an output buffer of one     *)
(* byte for both devices and raises the interrupt of the device whose byte *)
(* it holds; both interrupts go to CPU 0, where the handlers run one after *)
(* the other with interrupts off, under a lock each.  Neither driver looks *)
(* at which device a byte came from, and mouseintr() goes on reading while *)
(* there are bytes, so that either may read a byte of the other: "stray"   *)
(* says so.  What the drivers tell the window manager is summed up in      *)
(* "seen".                                                                 *)
(***************************************************************************)
EXTENDS Integers, Sequences, FiniteSets, FiniteSetsExt

CONSTANTS
    Reports,     \* the mouse's reports: <<buttons, flags, dx, dy>>
    Keys,        \* the keys the user presses: the bytes of their make codes
    TickSteps,   \* how many ticks pass while nothing else happens
    MaxTick,     \* bound: the last tick
    MaxEvents,   \* bound: what the mouse and the keyboard report
    TickRange    \* the number of values of a uint

\* The first byte of a report carries the buttons, a bit that is always set, and four
\* flags.  The make code of a key is a byte below 128, behind 224 or alone, and the code
\* of its release is 128 more; 96 would be released by 224, and no key has it.  (Pause,
\* which sends both at once, is left out.)
ASSUME InputAssumption ==
    /\ Reports \subseteq (0 .. 7) \X {16 * k : k \in 0 .. 15} \X (0 .. 255) \X (0 .. 255)
    /\ MaxTick \in Nat /\ MaxEvents \in Nat /\ TickSteps \subseteq Nat
    /\ TickRange \in Nat /\ TickRange > MaxTick + 1000
    /\ \A k \in Keys : \E b \in (0 .. 127) \ {96} : k = <<b>> \/ k = <<224, b>>

VARIABLES
    outbuf,     \* the controller's output buffer: at most one byte
    mouseQ,     \* bytes of the mouse the controller has not taken
    kbdQ,       \* bytes of the keyboard the controller has not taken
    held,       \* the buttons the user holds
    keys,       \* the keys the user holds
    events,     \* how much the devices have reported
    irq,        \* the interrupts that are pending
    intr,       \* CPU 0 is inside mouseintr()
    ticks,
    packet,     \* the bytes of the packet so far; their number is the code's count
    recovery, lastbtn, lastdowntick, lastclicktick,
    shift,      \* kbdgetc's modifiers
    seen,       \* what the messages amount to for who listens
    stray,      \* a byte was read that the other driver expects
    excused     \* a report was dropped, or an uninitialised message sent

devices == <<mouseQ, kbdQ, held, keys, events>>
decoder == <<packet, recovery, lastbtn, lastdowntick, lastclicktick>>
vars == <<outbuf, devices, irq, intr, ticks, decoder, shift, seen,
          stray, excused>>

----------------------------------------------------------------------------
(* The devices and the controller.                                         *)

ACK == 250

bit(b, i) == (b \div 2^i) % 2 = 1

\* mouseinit() sends four bytes to the mouse and reads an answer to each, but
\* mouse_wait() gives up after a while: the last answer may come later.
mouseinit == {<<>>, <<ACK>>}

\* The bytes of the mouse that nobody has read.
unread == Len(mouseQ) + Cardinality({i \in DOMAIN outbuf : outbuf[i].dev = "mouse"})

\* The mouse reports a movement or a change of the buttons, ten times a second
\* at most (mouseinit), so that the last report has been read.
Report(m) ==
    /\ events < MaxEvents
    /\ unread = 0
    /\ m # <<held, 0, 0, 0>>
    /\ mouseQ' = <<8 + m[1] + m[2], m[3], m[4]>>
    /\ held' = m[1]
    /\ events' = events + 1
    /\ UNCHANGED <<outbuf, kbdQ, keys, irq, intr, ticks, decoder, shift,
                   seen, stray, excused>>

\* A key is pressed, repeated while it is held, or released.
Key(k) ==
    /\ events < MaxEvents
    /\ kbdQ = <<>>
    /\ \/ kbdQ' = k /\ keys' = keys \cup {k}
       \/ /\ k \in keys
          /\ kbdQ' = [k EXCEPT ![Len(k)] = @ + 128]
          /\ keys' = keys \ {k}
    /\ events' = events + 1
    /\ UNCHANGED <<outbuf, mouseQ, held, irq, intr, ticks, decoder,
                   shift, seen, stray, excused>>

\* The controller takes the next byte and raises the device's interrupt.
Offer(dev) ==
    /\ outbuf = <<>>
    /\ CASE dev = "mouse" -> /\ mouseQ # <<>>
                             /\ outbuf' = <<[dev |-> dev, byte |-> Head(mouseQ)]>>
                             /\ mouseQ' = Tail(mouseQ) /\ UNCHANGED kbdQ
         [] dev = "kbd" -> /\ kbdQ # <<>>
                           /\ outbuf' = <<[dev |-> dev, byte |-> Head(kbdQ)]>>
                           /\ kbdQ' = Tail(kbdQ) /\ UNCHANGED mouseQ
    /\ irq' = irq \cup {dev}
    /\ UNCHANGED <<held, keys, events, intr, ticks, decoder, shift,
                   seen, stray, excused>>

\* Time passes.  A byte on its way is handled within the tick it was sent in.
Tick ==
    /\ ~intr /\ irq = {}
    /\ mouseQ = <<>> /\ kbdQ = <<>> /\ outbuf = <<>>
    /\ \E d \in TickSteps : ticks + d <= MaxTick /\ ticks' = ticks + d
    /\ UNCHANGED <<outbuf, devices, irq, intr, decoder, shift, seen, stray,
                   excused>>

\* A driver reads the byte the controller holds.
inb(reader) ==
    /\ outbuf # <<>>
    /\ outbuf' = <<>>
    /\ stray' = (stray \/ outbuf[1].dev # reader)

----------------------------------------------------------------------------
(* What a listener makes of the messages: whether it was told that a button *)
(* is down, whether a press is open that a click may end, whether there was *)
(* a click that the next may make a double click, also behind a slow press, *)
(* and whether a click came that may not.                                   *)

Clicks == {"M_MOUSE_LEFT_CLICK", "M_MOUSE_RIGHT_CLICK", "M_MOUSE_DBCLICK"}

observe(s, m) ==
    CASE m = "M_MOUSE_DOWN" -> [s EXCEPT !.down = TRUE, !.press = TRUE]
      [] m = "M_MOUSE_UP" -> [s EXCEPT !.down = FALSE, !.press = FALSE]
      [] m = "M_MOUSE_MOVE" -> [s EXCEPT !.press = FALSE, !.click = FALSE]
      [] m \in Clicks ->
            [down |-> FALSE, press |-> FALSE, click |-> m # "M_MOUSE_DBCLICK",
             wrong |-> s.wrong \/ ~s.press \/ (m = "M_MOUSE_DBCLICK" /\ ~s.click)]
      [] OTHER -> s

handleMessage(m) == seen' = observe(seen, m)
handleMessages(m1, m2) == seen' = observe(observe(seen, m1), m2)

----------------------------------------------------------------------------
(* src/mouse.c *)

Never == -1000

btns(p) == p[1] % 8
overflow(p) == bit(p[1], 6) \/ bit(p[1], 7)
moved(p) == p[2] # 0 \/ p[3] # 0 \/ bit(p[1], 4) \/ bit(p[1], 5)

\* The difference of two ticks is computed without a sign.
since(t) == (ticks - t) % TickRange

\* The message is a local variable, and the last branch sends it without having
\* assigned its type: one that means something to the window manager (a press
\* stands for them all, since what follows is excused), or one it ignores.
uninitialised == {"M_MOUSE_DOWN", "none"}

\* Slips: the press is forgotten without being ended; the press may still
\* become a click.
moveWithoutUp(p) ==
    /\ lastdowntick' = Never
    /\ lastclicktick' = Never
    /\ handleMessage("M_MOUSE_MOVE")
    /\ UNCHANGED excused

moveKeepsPress(p) ==
    /\ IF btns(p) # lastbtn THEN handleMessages("M_MOUSE_UP", "M_MOUSE_MOVE")
                          ELSE handleMessage("M_MOUSE_MOVE")
    /\ UNCHANGED <<lastdowntick, lastclicktick, excused>>

moveMessages(p) ==
    /\ lastdowntick' = Never
    /\ lastclicktick' = Never
    /\ IF btns(p) # lastbtn THEN handleMessages("M_MOUSE_UP", "M_MOUSE_MOVE")
                          ELSE handleMessage("M_MOUSE_MOVE")
    /\ UNCHANGED excused

downMessage(p) ==
    /\ lastdowntick' = ticks
    /\ handleMessage("M_MOUSE_DOWN")
    /\ UNCHANGED <<lastclicktick, excused>>

clickMessage ==
    /\ IF since(lastclicktick) < 60
       THEN /\ lastclicktick' = Never
            /\ handleMessage("M_MOUSE_DBCLICK")
       ELSE /\ lastclicktick' = ticks
            /\ handleMessage(IF bit(lastbtn, 0) THEN "M_MOUSE_LEFT_CLICK"
                             ELSE "M_MOUSE_RIGHT_CLICK")
    /\ UNCHANGED <<lastdowntick, excused>>

upMessage ==
    /\ \E garbage \in uninitialised :
          /\ handleMessages("M_MOUSE_UP", garbage)
          /\ excused' = (excused \/ garbage # "none")
    /\ UNCHANGED <<lastdowntick, lastclicktick>>

genMouseMessage(p) ==
    IF overflow(p)
    THEN /\ excused' = TRUE
         /\ UNCHANGED <<lastbtn, lastdowntick, lastclicktick, seen>>
    ELSE /\ lastbtn' = btns(p)
         /\ \/ moved(p) /\ moveMessages(p)
            \/ ~moved(p) /\ btns(p) # 0 /\ downMessage(p)
            \/ ~moved(p) /\ btns(p) = 0 /\ since(lastdowntick) < 30 /\ clickMessage
            \/ ~moved(p) /\ btns(p) = 0 /\ since(lastdowntick) >= 30 /\ upMessage

\* The automaton that looks for the bytes 12, 0, 0.
recoveryAfter(b) ==
    CASE recovery = 0 /\ b = 0 -> 1
      [] recovery = 1 /\ b = 0 -> 2
      [] b = 12 -> 0
      [] OTHER -> -1

\* A slip: every byte must have bit 3 set.
countedStrictly(b) == IF ~bit(b, 3) THEN <<>> ELSE Append(packet, b)

\* The packet after one more byte: the first has bit 3 set.
counted(b) == IF packet = <<>> /\ ~bit(b, 3) THEN <<>> ELSE Append(packet, b)

\* A slip: the count is not reset.
packetKept(p) == p

\* Behind the third byte the packet is complete and the next one starts.
nextPacket(p) == <<>>

\* One turn of the loop of mouseintr().
mouseByte(b) ==
    LET rec == recoveryAfter(b)
        p == counted(b)
    IN /\ recovery' = IF rec = 2 THEN -1 ELSE rec
       /\ \/ /\ rec = 2
             /\ packet' = <<>>
             /\ excused' = TRUE
             /\ UNCHANGED <<lastbtn, lastdowntick, lastclicktick, seen>>
          \/ /\ rec # 2 /\ Len(p) = 3
             /\ packet' = nextPacket(p)
             /\ genMouseMessage(p)
          \/ /\ rec # 2 /\ Len(p) # 3
             /\ packet' = p
             /\ UNCHANGED <<lastbtn, lastdowntick, lastclicktick, seen, excused>>

\* CPU 0 takes the mouse's interrupt.
MouseInterrupt ==
    /\ ~intr /\ "mouse" \in irq
    /\ intr' = TRUE
    /\ irq' = irq \ {"mouse"}
    /\ UNCHANGED <<outbuf, devices, ticks, decoder, shift, seen, stray,
                   excused>>

\* mouseintr() reads a byte, whoever sent it, or finds none and returns.
mouseintr ==
    /\ intr
    /\ \/ /\ inb("mouse")
          /\ mouseByte(outbuf[1].byte)
          /\ UNCHANGED intr
       \/ /\ outbuf = <<>>
          /\ intr' = FALSE
          /\ UNCHANGED <<outbuf, decoder, seen, stray, excused>>
    /\ UNCHANGED <<devices, irq, ticks, shift>>

----------------------------------------------------------------------------
(* src/kbd.c: shift is the set of modifiers that are on.                   *)

shiftcode(d) ==
    CASE d \in {29, 157} -> {"CTL"}
      [] d \in {42, 54} -> {"SHIFT"}
      [] d \in {56, 184} -> {"ALT"}
      [] OTHER -> {}

togglecode(d) ==
    CASE d = 58 -> {"CAPSLOCK"}
      [] d = 69 -> {"NUMLOCK"}
      [] d = 70 -> {"SCROLLLOCK"}
      [] OTHER -> {}

\* The code of the key that is released; and a slip, without the mask.
releasedUnmasked(b) == b
released(b) == IF "E0ESC" \in shift THEN b ELSE b - 128

\* kbdgetc() for one byte.
kbdgetc(b) ==
    \/ /\ b = 224
       /\ shift' = shift \cup {"E0ESC"}
       /\ UNCHANGED seen
    \/ /\ b # 224 /\ b >= 128
       /\ shift' = shift \ (shiftcode(released(b)) \cup {"E0ESC"})
       /\ handleMessage("M_KEY_UP")
    \/ /\ b < 128
       /\ LET d == IF "E0ESC" \in shift THEN b + 128 ELSE b
              on == (shift \ {"E0ESC"}) \cup shiftcode(d)
          IN shift' = SymDiff(on, togglecode(d))
       /\ handleMessage("M_KEY_DOWN")

\* kbdintr() reads one byte if there is one, whoever sent it.
kbdintr ==
    /\ ~intr /\ "kbd" \in irq
    /\ irq' = irq \ {"kbd"}
    /\ \/ /\ inb("kbd")
          /\ kbdgetc(outbuf[1].byte)
       \/ /\ outbuf = <<>>
          /\ UNCHANGED <<outbuf, shift, seen, stray>>
    /\ UNCHANGED <<devices, intr, ticks, decoder, excused>>

----------------------------------------------------------------------------

Init ==
    /\ outbuf = <<>>
    /\ mouseQ \in mouseinit
    /\ kbdQ = <<>>
    /\ held = 0 /\ keys = {}
    /\ events = 0
    /\ irq = {} /\ intr = FALSE
    /\ ticks = 0
    /\ packet = <<>> /\ recovery = 0
    /\ lastbtn = 0 /\ lastdowntick = Never /\ lastclicktick = Never
    /\ shift = {}
    /\ seen = [down |-> FALSE, press |-> FALSE, click |-> FALSE,
               wrong |-> FALSE]
    /\ stray = (mouseQ # <<>>)
    /\ excused = FALSE

Next ==
    \/ \E m \in Reports : Report(m)
    \/ \E k \in Keys : Key(k)
    \/ \E dev \in {"mouse", "kbd"} : Offer(dev)
    \/ Tick
    \/ MouseInterrupt
    \/ mouseintr
    \/ kbdintr

Spec == Init /\ [][Next]_vars

----------------------------------------------------------------------------
(* Properties.                                                             *)

\* Every variable has a value of its type; the buffer holds at most one byte,
\* and its device's interrupt is pending or a handler is about to look.
TypeOK ==
    /\ Len(outbuf) <= 1
    /\ \A i \in DOMAIN outbuf : outbuf[i].dev \in {"mouse", "kbd"}
                                /\ outbuf[i].byte \in 0 .. 255
    /\ mouseQ \in Seq(0 .. 255) /\ kbdQ \in Seq(0 .. 255)
    /\ held \in 0 .. 7 /\ keys \subseteq Keys
    /\ irq \subseteq {"mouse", "kbd"} /\ intr \in BOOLEAN
    /\ ticks \in 0 .. MaxTick
    /\ recovery \in -1 .. 1 /\ lastbtn \in 0 .. 7
    /\ packet \in Seq(0 .. 255) /\ Len(packet) < 3
    /\ {lastdowntick, lastclicktick} \subseteq {Never} \cup 0 .. MaxTick
    /\ shift \subseteq {"SHIFT", "CTL", "ALT", "CAPSLOCK", "NUMLOCK",
                        "SCROLLLOCK", "E0ESC"}

\* A byte in the controller is never forgotten (trap.c, mouse.c, kbd.c): the
\* devices cannot send while there is one, so an interrupt must be pending or
\* mouseintr() be running.
ByteAnnounced == outbuf # <<>> => irq # {} \/ intr

InStep == (unread + Len(packet)) % 3 = 0

\* The step reads a byte of the other device: CPU 0 is in mouseintr() or it is not.
misread == outbuf # <<>> /\ outbuf' = <<>> /\ (outbuf[1].dev = "mouse") # intr

\* mouse.c:164-215: once the driver's packets begin where the mouse's do, they
\* go on doing so, whatever the bytes are and in spite of the two ways it drops
\* bytes, unless a byte goes to the wrong driver.
StaysInStep == [][InStep /\ ~misread => InStep']_vars

\* mouse.c:90-153: a click is reported only for a press that was reported and
\* not followed by a movement or a release; a double click only for such a press
\* behind a click, with neither a movement nor another double click in between.  (A
\* slow press in between ends with M_MOUSE_UP, which does not take the click back.  A
\* packet dropped by mouse.c:98 or :205 is excused, and so is what follows the
\* uninitialised message of :152, which may be any.)
ClicksJustified == (~stray /\ ~excused) => ~seen.wrong

\* mouse.c:90-153: when no button is held and all is read, whoever was told of
\* a press was told of its end, with the same excuses: no window is dragged by
\* a mouse whose button is up.
PressesEnd ==
    (held = 0 /\ unread = 0 /\ ~stray /\ ~excused) => ~seen.down

\* mouse.c:90-153: what the windows are told of the buttons is true and complete.
ButtonsReported == ClicksJustified /\ PressesEnd

\* kbd.c:11-61: when no key is held and all is read, no modifier is on but the
\* locks, in whatever order the keys went up and however often they repeated,
\* if each driver read its own bytes.
NoStuckModifier ==
    (keys = {} /\ kbdQ = <<>> /\ outbuf = <<>> /\ ~stray)
        => shift \subseteq {"CAPSLOCK", "NUMLOCK", "SCROLLLOCK"}

\* mouse.c:155-218, kbd.c:64-70, 11-61: no byte is left in the controller without an
\* interrupt, and no modifier stays on without its key.  Every variable has a value of
\* its type.
DriversSafe == TypeOK /\ ByteAnnounced /\ NoStuckModifier
=============================================================================
