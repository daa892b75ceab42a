----------------------------- MODULE InputProofs -----------------------------
(***************************************************************************)
(* For all reports of a mouse and all keys: the drivers keep their types,   *)
(* no byte waits in the controller without an interrupt, no modifier stays  *)
(* on without its key, the packets stay in step with the mouse's, and what  *)
(* windows are told of the buttons is true and complete.  For every size of the console's ring and range of    *)
(* its indices: nobody sleeps while there is something to read, and it is a *)
(* line buffer.  For every capacity of a window's ring of messages, polled  *)
(* by one process: its counters agree, and it is a bounded FIFO.            *)
(***************************************************************************)
EXTENDS InputDevices, Console, MessageQueue, FiniteSetTheorems, SequenceTheorems, TLAPS

-----------------------------------------------------------------------------
(* The PS/2 devices.  What the variables can be. *)

Codes == 0 .. 255

\* What the controller can hold.
Offers == [dev : {"mouse", "kbd"}, byte : Codes]

Flags == {16 * k : k \in 0 .. 15}

Beliefs == [down : BOOLEAN, press : BOOLEAN, click : BOOLEAN, wrong : BOOLEAN]

Typed == /\ outbuf = <<>> \/ \E o \in Offers : outbuf = <<o>>
         /\ mouseQ \in Seq(Codes) /\ Len(mouseQ) <= 3
         /\ kbdQ \in Seq(Codes)
         /\ held \in 0 .. 7 /\ keys \subseteq Keys
         /\ irq \subseteq {"mouse", "kbd"} /\ intr \in BOOLEAN
         /\ ticks \in 0 .. MaxTick
         /\ recovery \in {-1, 0, 1} /\ lastbtn \in 0 .. 7
         /\ packet \in Seq(Codes) /\ Len(packet) < 3
         /\ lastdowntick \in {Never} \cup 0 .. MaxTick
         /\ lastclicktick \in {Never} \cup 0 .. MaxTick
         /\ shift \subseteq {"SHIFT", "CTL", "ALT", "CAPSLOCK", "NUMLOCK", "SCROLLLOCK", "E0ESC"}
         /\ seen \in Beliefs
         /\ stray \in BOOLEAN /\ excused \in BOOLEAN

\* The byte in the controller is one of the mouse's.
mouseOut == outbuf # <<>> /\ outbuf[1].dev = "mouse"

\* How much of a report nobody has read, without counting.
left == Len(mouseQ) + (IF mouseOut THEN 1 ELSE 0)

\* The mouse's next byte.
next == IF mouseOut THEN outbuf[1].byte ELSE mouseQ[1]

\* A whole report begins with a byte that has bit 3, and the automaton that looks for
\* 12, 0, 0 never gets to its last byte with one byte in the packet.
Marked == /\ left <= 3
          /\ left = 3 => bit(next, 3)
          /\ recovery = 1 => Len(packet) # 1

Bytes(m) == <<8 + m[1] + m[2], m[3], m[4]>>

\* The bytes of report m are in the packet, in the controller or still in the mouse.
OnItsWay(m) ==
    /\ left > 0 /\ Len(packet) + left = 3
    /\ \A i \in 1 .. Len(packet) : packet[i] = Bytes(m)[i]
    /\ mouseOut => outbuf[1].byte = Bytes(m)[Len(packet) + 1]
    /\ \A i \in 1 .. Len(mouseQ) : mouseQ[i] = Bytes(m)[3 - Len(mouseQ) + i]

\* The driver knows the buttons, or will when it has read the report.
Synced == \/ packet = <<>> /\ left = 0 /\ lastbtn = held
          \/ \E m \in Reports : OnItsWay(m) /\ held = m[1] /\ m # <<lastbtn, 0, 0, 0>>

\* What was reported follows from what the driver remembers.
Told == /\ ~seen.wrong
        /\ lastdowntick # Never /\ lastbtn # 0 => seen.press
        /\ lastclicktick # Never => seen.click
        /\ seen.down => lastbtn # 0

Honest == ~stray /\ ~excused => Synced /\ Told

Inv == Typed /\ ByteAnnounced /\ Marked /\ Honest

-----------------------------------------------------------------------------
(* Bytes and their bits. *)

\* The first byte of a report: the buttons, bit 3, and four flags.
LEMMA FirstByte ==
  ASSUME NEW m \in Reports
  PROVE  /\ m = <<m[1], m[2], m[3], m[4]>>
         /\ m[1] \in 0 .. 7 /\ m[3] \in Codes /\ m[4] \in Codes
         /\ \E k \in 0 .. 15 : m[2] = 16 * k
         /\ 8 + m[1] + m[2] \in Codes
         /\ bit(8 + m[1] + m[2], 3)
         /\ (8 + m[1] + m[2]) % 8 = m[1]
<1>1. m \in (0 .. 7) \X {16 * k : k \in 0 .. 15} \X (0 .. 255) \X (0 .. 255)
  BY InputAssumption
<1>2. /\ m = <<m[1], m[2], m[3], m[4]>>
      /\ m[1] \in 0 .. 7 /\ m[3] \in 0 .. 255 /\ m[4] \in 0 .. 255
      /\ m[2] \in {16 * k : k \in 0 .. 15}
  BY <1>1
<1>3. PICK k \in 0 .. 15 : m[2] = 16 * k
  BY <1>2
<1>4. PICK b \in 0 .. 7 : b = m[1]
  BY <1>2
<1>5. /\ 8 + b + 16 * k \in 0 .. 255
      /\ (8 + b + 16 * k) % 8 = b
      /\ ((8 + b + 16 * k) \div 8) % 2 = 1
  OBVIOUS
<1>6. 2^3 = 8
  OBVIOUS
<1>7. bit(8 + b + 16 * k, 3)
  BY <1>5, <1>6 DEF bit
<1> QED
  BY <1>2, <1>3, <1>4, <1>5, <1>7 DEF Codes

\* A report whose bits and bytes say nothing is of the buttons only.
LEMMA NothingElse ==
  ASSUME NEW m \in Reports, NEW p, p = Bytes(m), ~overflow(p), ~moved(p)
  PROVE  m = <<m[1], 0, 0, 0>>
<1>1. /\ m = <<m[1], m[2], m[3], m[4]>> /\ m[1] \in 0 .. 7
      /\ p[1] = 8 + m[1] + m[2] /\ p[2] = m[3] /\ p[3] = m[4]
  BY FirstByte DEF Bytes
<1>2. m[3] = 0 /\ m[4] = 0
  BY <1>1 DEF moved
<1>3. PICK k \in 0 .. 15 : m[2] = 16 * k
  BY FirstByte
<1>4. PICK b \in 0 .. 7 : b = m[1]
  BY <1>1
<1>5. 2^4 = 16 /\ 2^5 = 32 /\ 2^6 = 64 /\ 2^7 = 128
  OBVIOUS
<1>6. /\ (8 + b + 16 * k) \div 16 % 2 # 1
      /\ (8 + b + 16 * k) \div 32 % 2 # 1
      /\ (8 + b + 16 * k) \div 64 % 2 # 1
      /\ (8 + b + 16 * k) \div 128 % 2 # 1
  BY <1>1, <1>3, <1>4, <1>5 DEF overflow, moved, bit
<1>7. k = 0
  BY <1>6
<1> QED
  BY <1>1, <1>2, <1>3, <1>7

\* Zero is not the first byte of a report.
LEMMA ZeroUnmarked == ~bit(0, 3)
<1>1. 2^3 = 8
  OBVIOUS
<1> QED
  BY <1>1 DEF bit

\* The controller holds a byte of the mouse or none.
LEMMA CountOut ==
  ASSUME NEW ob, ob = <<>> \/ \E o \in Offers : ob = <<o>>
  PROVE  Cardinality({i \in DOMAIN ob : ob[i].dev = "mouse"})
            = (IF ob # <<>> /\ ob[1].dev = "mouse" THEN 1 ELSE 0)
<1> DEFINE S == {i \in DOMAIN ob : ob[i].dev = "mouse"}
<1>1. IsFiniteSet({}) /\ Cardinality({}) = 0 /\ Cardinality({1}) = 1
  BY FS_EmptySet, FS_Singleton
<1>2. CASE ob = <<>>
  <2>1. S = {}
    BY <1>2
  <2> QED
    BY <1>1, <1>2, <2>1
<1>3. ASSUME NEW o \in Offers, ob = <<o>>
      PROVE  Cardinality(S) = (IF ob # <<>> /\ ob[1].dev = "mouse" THEN 1 ELSE 0)
  <2>1. DOMAIN ob = {1} /\ ob[1] = o /\ ob # <<>>
    BY <1>3
  <2>2. CASE o.dev = "mouse"
    <3>1. S = {1}
      BY <2>1, <2>2
    <3> QED
      BY <1>1, <2>1, <2>2, <3>1
  <2>3. CASE o.dev # "mouse"
    <3>1. S = {}
      BY <2>1, <2>3
    <3> QED
      BY <1>1, <2>1, <2>3, <3>1
  <2> QED
    BY <2>2, <2>3
<1> QED
  BY <1>2, <1>3

LEMMA LeftIs == Typed => unread = left /\ left \in Nat
<1>1. Typed => Len(mouseQ) \in Nat
  BY DEF Typed
<1> QED
  BY <1>1, CountOut DEF Typed, unread, left, mouseOut

LEMMA LeftIsNext == Typed' => unread' = left' /\ left' \in Nat
<1>1. Typed' => Len(mouseQ') \in Nat
  BY DEF Typed
<1> QED
  BY <1>1, CountOut DEF Typed, unread, left, mouseOut

-----------------------------------------------------------------------------
(* The steps. *)

\* What neither the mouse nor its driver takes part in.
LEMMA MouseAtRest ==
  ASSUME Inv, UNCHANGED <<outbuf, mouseQ, held, packet, recovery, lastbtn, lastdowntick,
                          lastclicktick, seen, stray, excused>>
  PROVE  Marked' /\ Honest'
<1>1. left' = left /\ next' = next /\ mouseOut' = mouseOut
  BY DEF left, next, mouseOut
<1>2. Marked'
  BY <1>1 DEF Inv, Marked
<1>3. \A m \in Reports : OnItsWay(m)' <=> OnItsWay(m)
  BY <1>1 DEF OnItsWay
<1>4. Synced' <=> Synced
  BY <1>1, <1>3 DEF Synced
<1>5. Told' <=> Told
  BY DEF Told
<1> QED
  BY <1>2, <1>4, <1>5 DEF Inv, Honest

\* The mouse sends when all it sent has been read.
LEMMA ReportInv ==
  ASSUME Inv, NEW m \in Reports, Report(m)
  PROVE  Inv'
<1>1. /\ unread = 0 /\ m # <<held, 0, 0, 0>> /\ mouseQ' = Bytes(m) /\ held' = m[1]
      /\ UNCHANGED <<outbuf, kbdQ, keys, irq, intr, ticks, packet, recovery, lastbtn, lastdowntick,
                     lastclicktick, shift, seen, stray, excused>>
  BY DEF Report, decoder, Bytes
<1>2. /\ m[1] \in 0 .. 7 /\ 8 + m[1] + m[2] \in Codes /\ m[3] \in Codes /\ m[4] \in Codes
      /\ bit(8 + m[1] + m[2], 3)
  BY FirstByte
<1>3. /\ mouseQ' \in Seq(Codes) /\ Len(mouseQ') = 3
      /\ mouseQ'[1] = 8 + m[1] + m[2] /\ Bytes(m) = mouseQ'
  BY <1>1, <1>2 DEF Bytes
<1>4. Typed'
  BY <1>1, <1>2, <1>3 DEF Inv, Typed
<1>5. ByteAnnounced'
  BY <1>1 DEF Inv, ByteAnnounced
<1>6. left = 0 /\ ~mouseOut /\ Len(mouseQ) = 0
  <2>1. left = 0 /\ Len(mouseQ) \in Nat
    BY <1>1, LeftIs DEF Inv, Typed
  <2> QED
    BY <2>1 DEF left
<1>7. ~mouseOut' /\ left' = 3 /\ next' = mouseQ'[1]
  BY <1>1, <1>3, <1>6 DEF left, next, mouseOut
<1>8. Marked'
  BY <1>1, <1>2, <1>3, <1>7 DEF Inv, Marked
<1>9. ASSUME ~stray, ~excused PROVE Synced' /\ Told'
  <2>1. Synced /\ Told
    BY <1>9 DEF Inv, Honest
  <2>2. packet = <<>> /\ lastbtn = held
    BY <1>6, <2>1 DEF Synced, OnItsWay
  <2>3. Len(packet') = 0
    BY <1>1, <2>2
  <2>4. OnItsWay(m)'
    BY <1>3, <1>7, <2>3 DEF OnItsWay
  <2>5. Synced'
    BY <1>1, <2>2, <2>4 DEF Synced
  <2> QED
    BY <1>1, <2>1, <2>5 DEF Told
<1> QED
  BY <1>1, <1>4, <1>5, <1>8, <1>9 DEF Inv, Honest

LEMMA KeyInv ==
  ASSUME Inv, NEW k \in Keys, Key(k)
  PROVE  Inv'
<1>1. /\ kbdQ' = k \/ kbdQ' = [k EXCEPT ![Len(k)] = @ + 128]
      /\ keys' \subseteq Keys
      /\ UNCHANGED <<outbuf, mouseQ, held, irq, intr, ticks, packet, recovery, lastbtn, lastdowntick,
                     lastclicktick, shift, seen, stray, excused>>
  BY DEF Key, decoder, Inv, Typed
<1>2. kbdQ' \in Seq(Codes)
  <2>1. k \in Seq(Codes) /\ k # <<>> /\ k[Len(k)] < 128
    <3>1. PICK b \in 0 .. 127 : k = <<b>> \/ k = <<224, b>>
      BY InputAssumption
    <3>2. b \in Codes /\ 224 \in Codes /\ b < 128
      BY DEF Codes
    <3>3. CASE k = <<b>>
      BY <3>2, <3>3
    <3>4. CASE k = <<224, b>>
      BY <3>2, <3>4
    <3> QED
      BY <3>1, <3>3, <3>4
  <2>2. Len(k) \in 1 .. Len(k) /\ k[Len(k)] \in Codes
    BY <2>1
  <2>3. k[Len(k)] + 128 \in Codes
    <3>1. PICK b \in 0 .. 255 : b = k[Len(k)]
      BY <2>2 DEF Codes
    <3>2. b < 128
      BY <2>1, <3>1
    <3>3. b + 128 \in 0 .. 255
      BY <3>2
    <3> QED
      BY <3>1, <3>3 DEF Codes
  <2>4. [k EXCEPT ![Len(k)] = @ + 128] \in Seq(Codes)
    BY <2>1, <2>2, <2>3
  <2> QED
    BY <1>1, <2>1, <2>4
<1>3. Typed'
  BY <1>1, <1>2 DEF Inv, Typed
<1>4. ByteAnnounced'
  BY <1>1 DEF Inv, ByteAnnounced
<1> QED
  BY <1>1, <1>3, <1>4, MouseAtRest DEF Inv

LEMMA TickInv ==
  ASSUME Inv, Tick
  PROVE  Inv'
<1>1. /\ \E d \in TickSteps : ticks + d <= MaxTick /\ ticks' = ticks + d
      /\ UNCHANGED <<outbuf, mouseQ, kbdQ, held, keys, irq, intr, packet, recovery, lastbtn,
                     lastdowntick, lastclicktick, shift, seen, stray, excused>>
  BY DEF Tick, decoder, devices
<1>2. ticks' \in 0 .. MaxTick
  BY <1>1, InputAssumption DEF Inv, Typed
<1>3. Typed'
  BY <1>1, <1>2 DEF Inv, Typed
<1>4. ByteAnnounced'
  BY <1>1 DEF Inv, ByteAnnounced
<1> QED
  BY <1>1, <1>3, <1>4, MouseAtRest DEF Inv

\* From the interrupt on mouseintr() looks for the byte.
LEMMA MouseInterruptInv ==
  ASSUME Inv, MouseInterrupt
  PROVE  Inv'
<1>1. /\ intr' = TRUE /\ irq' = irq \ {"mouse"}
      /\ UNCHANGED <<outbuf, mouseQ, kbdQ, held, keys, ticks, packet, recovery, lastbtn,
                     lastdowntick, lastclicktick, shift, seen, stray, excused>>
  BY DEF MouseInterrupt, decoder, devices
<1>2. Typed'
  BY <1>1 DEF Inv, Typed
<1>3. ByteAnnounced'
  BY <1>1 DEF ByteAnnounced
<1> QED
  BY <1>1, <1>2, <1>3, MouseAtRest DEF Inv

\* The controller takes over a byte of the mouse.
LEMMA OfferMouse ==
  ASSUME Inv, Offer("mouse")
  PROVE  Inv'
<1>1. /\ outbuf = <<>> /\ mouseQ # <<>>
      /\ outbuf' = <<[dev |-> "mouse", byte |-> Head(mouseQ)]>> /\ mouseQ' = Tail(mouseQ)
      /\ irq' = irq \cup {"mouse"}
      /\ UNCHANGED <<kbdQ, held, keys, events, intr, ticks, packet, recovery, lastbtn,
                     lastdowntick, lastclicktick, shift, seen, stray, excused>>
  BY DEF Offer, decoder
<1>2. PICK len \in 1 .. 3 : len = Len(mouseQ)
  <2>1. mouseQ \in Seq(Codes) /\ Len(mouseQ) <= 3
    BY DEF Inv, Typed
  <2>2. Len(mouseQ) # 0 /\ Len(mouseQ) \in Nat
    BY <1>1, <2>1
  <2>3. PICK len \in Nat : len = Len(mouseQ)
    BY <2>2
  <2>4. len \in 1 .. 3
    BY <2>1, <2>2, <2>3
  <2> QED
    BY <2>3, <2>4
<1>3. /\ mouseQ[1] \in Codes /\ Head(mouseQ) = mouseQ[1]
      /\ mouseQ' \in Seq(Codes) /\ Len(mouseQ') = len - 1
      /\ \A i \in 1 .. len - 1 : mouseQ'[i] = mouseQ[i + 1]
  <2>1. mouseQ \in Seq(Codes)
    BY DEF Inv, Typed
  <2> QED
    BY <1>1, <1>2, <2>1
<1>4. [dev |-> "mouse", byte |-> mouseQ[1]] \in Offers
  BY <1>3 DEF Offers
<1>5. Typed'
  BY <1>1, <1>2, <1>3, <1>4 DEF Inv, Typed
<1>6. ByteAnnounced'
  BY <1>1 DEF ByteAnnounced
<1>7. /\ outbuf' # <<>> /\ outbuf'[1].dev = "mouse" /\ outbuf'[1].byte = mouseQ[1]
  BY <1>1, <1>3
<1>8. ~mouseOut /\ mouseOut'
  BY <1>1, <1>7 DEF mouseOut
<1>9. left = len /\ left' = len /\ next = mouseQ[1] /\ next' = mouseQ[1]
  BY <1>2, <1>3, <1>7, <1>8 DEF left, next
<1>10. Marked'
  BY <1>1, <1>9 DEF Inv, Marked
<1>11. ASSUME NEW m \in Reports, OnItsWay(m) PROVE OnItsWay(m)'
  <2>1. PICK j \in Nat : j = Len(packet)
    BY DEF Inv, Typed
  <2>2. /\ j + len = 3 /\ Len(packet') = j
        /\ \A i \in 1 .. j : packet'[i] = Bytes(m)[i]
        /\ \A i \in 1 .. len : mouseQ[i] = Bytes(m)[3 - len + i]
    BY <1>1, <1>2, <1>9, <1>11, <2>1 DEF OnItsWay
  <2>3. outbuf'[1].byte = Bytes(m)[j + 1]
    <3>1. 1 \in 1 .. len /\ 3 - len + 1 = j + 1
      BY <2>2
    <3> QED
      BY <1>7, <2>2, <3>1
  <2>4. ASSUME NEW i \in 1 .. len - 1 PROVE mouseQ'[i] = Bytes(m)[3 - (len - 1) + i]
    <3>1. i + 1 \in 1 .. len /\ 3 - len + (i + 1) = 3 - (len - 1) + i
      OBVIOUS
    <3> QED
      BY <1>3, <2>2, <3>1
  <2>5. left' > 0 /\ Len(packet') + left' = 3
    BY <1>9, <2>2
  <2>6. outbuf'[1].byte = Bytes(m)[Len(packet') + 1]
    BY <2>2, <2>3
  <2>7. \A i \in 1 .. Len(mouseQ') : mouseQ'[i] = Bytes(m)[3 - Len(mouseQ') + i]
    BY <1>3, <2>4
  <2> QED
    BY <2>2, <2>5, <2>6, <2>7 DEF OnItsWay
<1>12. Synced => Synced'
  BY <1>1, <1>9, <1>11 DEF Synced
<1>13. Told => Told'
  BY <1>1 DEF Told
<1> QED
  BY <1>1, <1>5, <1>6, <1>10, <1>12, <1>13 DEF Inv, Honest

\* Or one of the keyboard.
LEMMA OfferKbd ==
  ASSUME Inv, Offer("kbd")
  PROVE  Inv'
<1>1. /\ outbuf = <<>> /\ kbdQ # <<>>
      /\ outbuf' = <<[dev |-> "kbd", byte |-> Head(kbdQ)]>> /\ kbdQ' = Tail(kbdQ)
      /\ irq' = irq \cup {"kbd"}
      /\ UNCHANGED <<mouseQ, held, keys, events, intr, ticks, packet, recovery, lastbtn,
                     lastdowntick, lastclicktick, shift, seen, stray, excused>>
  BY DEF Offer, decoder
<1>2. Head(kbdQ) \in Codes /\ kbdQ' \in Seq(Codes)
  <2>1. kbdQ \in Seq(Codes)
    BY DEF Inv, Typed
  <2> QED
    BY <1>1, <2>1
<1>3. [dev |-> "kbd", byte |-> Head(kbdQ)] \in Offers
  BY <1>2 DEF Offers
<1>4. Typed'
  BY <1>1, <1>2, <1>3 DEF Inv, Typed
<1>5. ByteAnnounced'
  BY <1>1 DEF ByteAnnounced
<1>6. ~mouseOut /\ ~mouseOut'
  <2>1. outbuf'[1].dev = "kbd"
    BY <1>1
  <2> QED
    BY <1>1, <2>1 DEF mouseOut
<1>7. left' = left /\ next' = next
  BY <1>1, <1>6 DEF left, next
<1>8. Marked'
  BY <1>1, <1>7 DEF Inv, Marked
<1>9. \A m \in Reports : OnItsWay(m) => OnItsWay(m)'
  BY <1>1, <1>6, <1>7 DEF OnItsWay
<1>10. (Synced => Synced') /\ (Told => Told')
  BY <1>1, <1>7, <1>9 DEF Synced, Told
<1> QED
  BY <1>1, <1>4, <1>5, <1>8, <1>10 DEF Inv, Honest

\* Whatever the keyboard's driver reads: if it is a byte of the mouse, it is a stray one.
LEMMA KbdInv ==
  ASSUME Inv, kbdintr
  PROVE  Inv'
<1>1. /\ ~intr /\ "kbd" \in irq /\ irq' = irq \ {"kbd"} /\ outbuf' = <<>>
      /\ UNCHANGED <<mouseQ, kbdQ, held, keys, intr, ticks, packet, recovery, lastbtn,
                     lastdowntick, lastclicktick, excused>>
  BY DEF kbdintr, inb, decoder, devices
<1>2. /\ shift' \subseteq {"SHIFT", "CTL", "ALT", "CAPSLOCK", "NUMLOCK", "SCROLLLOCK", "E0ESC"}
      /\ seen' = seen
  <2>1. CASE outbuf = <<>>
    BY <2>1 DEF kbdintr, inb, Inv, Typed
  <2>2. CASE outbuf # <<>>
    <3>1. PICK b \in Codes : b = outbuf[1].byte /\ kbdgetc(b)
      BY <2>2 DEF kbdintr, Inv, Typed, Offers
    <3>2. \A s \in Beliefs : observe(s, "M_KEY_UP") = s /\ observe(s, "M_KEY_DOWN") = s
      BY DEF observe, Clicks
    <3>3. seen' = seen
      BY <3>1, <3>2 DEF kbdgetc, handleMessage, Inv, Typed
    <3>4. \A d : /\ shiftcode(d) \subseteq {"SHIFT", "CTL", "ALT"}
                 /\ togglecode(d) \subseteq {"CAPSLOCK", "NUMLOCK", "SCROLLLOCK"}
      BY DEF shiftcode, togglecode
    <3>5. shift' \subseteq {"SHIFT", "CTL", "ALT", "CAPSLOCK", "NUMLOCK", "SCROLLLOCK", "E0ESC"}
      <4>1. CASE b = 224
        <5>1. ~(b < 128)
          BY <4>1
        <5>2. shift' = shift \cup {"E0ESC"}
          BY <3>1, <4>1, <5>1 DEF kbdgetc
        <5> QED
          BY <5>2 DEF Inv, Typed
      <4>2. CASE b # 224
        <5>1. \/ shift' \subseteq shift
              \/ \E d : shift' = SymDiff((shift \ {"E0ESC"}) \cup shiftcode(d), togglecode(d))
          BY <3>1, <4>2 DEF kbdgetc
        <5> QED
          BY <3>4, <5>1 DEF SymDiff, Inv, Typed
      <4> QED
        BY <4>1, <4>2
    <3> QED
      BY <3>3, <3>5
  <2> QED
    BY <2>1, <2>2
<1>3. stray' \in BOOLEAN /\ (mouseOut => stray') /\ (stray => stray')
  <2>1. CASE outbuf = <<>>
    BY <2>1 DEF kbdintr, inb, mouseOut, Inv, Typed
  <2>2. CASE outbuf # <<>>
    <3>1. stray' = (stray \/ outbuf[1].dev # "kbd")
      BY <2>2 DEF kbdintr, inb
    <3> QED
      BY <2>2, <3>1 DEF mouseOut, Inv, Typed
  <2> QED
    BY <2>1, <2>2
<1>4. Typed'
  BY <1>1, <1>2, <1>3 DEF Inv, Typed
<1>5. ByteAnnounced'
  BY <1>1 DEF ByteAnnounced
<1>6. ~mouseOut'
  BY <1>1 DEF mouseOut
<1>7. Len(mouseQ) \in Nat
  BY DEF Inv, Typed
<1>8. Marked'
  <2>1. left' = Len(mouseQ)
    BY <1>1, <1>6 DEF left
  <2>2. left' <= left /\ (left' = 3 => left = 3 /\ ~mouseOut)
    <3>1. CASE mouseOut
      <4>1. left = left' + 1 /\ left <= 3
        BY <1>7, <2>1, <3>1 DEF left, Inv, Marked
      <4> QED
        BY <1>7, <2>1, <4>1
    <3>2. CASE ~mouseOut
      <4>1. left = left'
        BY <1>7, <2>1, <3>2 DEF left
      <4> QED
        BY <1>7, <2>1, <3>2, <4>1
    <3> QED
      BY <3>1, <3>2
  <2>3. left' = 3 => next' = next
    BY <1>1, <1>6, <2>2 DEF next
  <2>4. left \in Nat /\ left' \in Nat
    BY <1>7, <2>1 DEF left
  <2> QED
    BY <1>1, <2>2, <2>3, <2>4 DEF Inv, Marked
<1>9. ASSUME ~stray', ~excused' PROVE Synced' /\ Told'
  <2>1. ~mouseOut /\ Synced /\ Told
    BY <1>1, <1>3, <1>9 DEF Inv, Honest
  <2>2. left' = left
    BY <1>1, <1>6, <2>1 DEF left
  <2>3. \A m \in Reports : OnItsWay(m) => OnItsWay(m)'
    BY <1>1, <1>6, <2>1, <2>2 DEF OnItsWay
  <2> QED
    BY <1>1, <1>2, <2>1, <2>2, <2>3 DEF Synced, Told
<1> QED
  BY <1>4, <1>5, <1>8, <1>9 DEF Inv, Honest
-----------------------------------------------------------------------------
(* mouseintr() reads a byte. *)

LEMMA BeliefsObserved ==
  \A s \in Beliefs : \A m : observe(s, m) \in Beliefs
<1> TAKE s \in Beliefs
<1> TAKE m
<1>1. /\ [s EXCEPT !.down = TRUE, !.press = TRUE] \in Beliefs
      /\ [s EXCEPT !.down = FALSE, !.press = FALSE] \in Beliefs
      /\ [s EXCEPT !.press = FALSE, !.click = FALSE] \in Beliefs
  BY DEF Beliefs
<1>2. [down |-> FALSE, press |-> FALSE, click |-> m # "M_MOUSE_DBCLICK",
       wrong |-> s.wrong \/ ~s.press \/ (m = "M_MOUSE_DBCLICK" /\ ~s.click)] \in Beliefs
  BY DEF Beliefs
<1>3. CASE m \notin {"M_MOUSE_DOWN", "M_MOUSE_UP", "M_MOUSE_MOVE"} /\ m \in Clicks
  BY <1>2, <1>3 DEF observe, Clicks
<1>4. CASE m \notin {"M_MOUSE_DOWN", "M_MOUSE_UP", "M_MOUSE_MOVE"} /\ m \notin Clicks
  BY <1>4 DEF observe
<1>5. CASE m \in {"M_MOUSE_DOWN", "M_MOUSE_UP", "M_MOUSE_MOVE"}
  BY <1>1, <1>5 DEF observe, Clicks
<1> QED
  BY <1>3, <1>4, <1>5

\* Which ticks are recent.
LEMMA Recent ==
  ASSUME Typed, NEW t \in {Never} \cup 0 .. MaxTick, since(t) < 60
  PROVE  t # Never
<1>1. ASSUME t = Never PROVE FALSE
  <2>1. PICK now \in Nat : now = ticks /\ now <= MaxTick
    BY InputAssumption DEF Typed
  <2>2. PICK range \in Nat : range = TickRange /\ range > MaxTick + 1000
    BY InputAssumption
  <2>3. PICK mx \in Nat : mx = MaxTick
    BY InputAssumption
  <2>4. now + 1000 < range /\ now + 1000 >= 60
    BY <2>1, <2>2, <2>3
  <2>5. (now - (-1000)) % range = now + 1000
    BY <2>4
  <2> QED
    BY <1>1, <2>1, <2>2, <2>4, <2>5 DEF since, Never
<1> QED
  BY <1>1

\* A whole packet changes what the driver remembers and what was reported.
LEMMA PacketTyped ==
  ASSUME Typed, NEW p \in Seq(Codes), Len(p) = 3, genMouseMessage(p)
  PROVE  /\ lastbtn' \in 0 .. 7
         /\ lastdowntick' \in {Never} \cup 0 .. MaxTick
         /\ lastclicktick' \in {Never} \cup 0 .. MaxTick
         /\ seen' \in Beliefs
         /\ excused' \in BOOLEAN /\ (excused => excused')
<1>1. p[1] \in Codes
  OBVIOUS
<1>2. PICK c \in 0 .. 255 : c = p[1]
  BY <1>1 DEF Codes
<1>3. c % 8 \in 0 .. 7
  OBVIOUS
<1>4. btns(p) \in 0 .. 7
  BY <1>2, <1>3 DEF btns
<1>5. /\ lastbtn \in 0 .. 7 /\ ticks \in 0 .. MaxTick /\ seen \in Beliefs /\ excused \in BOOLEAN
      /\ lastdowntick \in {Never} \cup 0 .. MaxTick
      /\ lastclicktick \in {Never} \cup 0 .. MaxTick
  BY DEF Typed
<1>6. CASE overflow(p)
  BY <1>5, <1>6 DEF genMouseMessage
<1>7. CASE ~overflow(p)
  <2>1. lastbtn' = btns(p)
    BY <1>7 DEF genMouseMessage
  <2>2. CASE moveMessages(p)
    BY <1>4, <1>5, <2>1, <2>2, BeliefsObserved DEF moveMessages, handleMessage, handleMessages
  <2>3. CASE downMessage(p)
    BY <1>4, <1>5, <2>1, <2>3, BeliefsObserved DEF downMessage, handleMessage
  <2>4. CASE clickMessage
    BY <1>4, <1>5, <2>1, <2>4, BeliefsObserved DEF clickMessage, handleMessage
  <2>5. CASE upMessage
    BY <1>4, <1>5, <2>1, <2>5, BeliefsObserved DEF upMessage, handleMessages
  <2> QED
    BY <1>7, <2>2, <2>3, <2>4, <2>5 DEF genMouseMessage
<1> QED
  BY <1>6, <1>7
\* And keeps what was reported true: a click ends a press that was open, a release is told.
LEMMA PacketTold ==
  ASSUME Typed, Synced, Told, NEW m \in Reports, NEW p, p = Bytes(m),
         m # <<lastbtn, 0, 0, 0>>, genMouseMessage(p), ~excused'
  PROVE  lastbtn' = m[1] /\ Told'
<1>1. /\ ~overflow(p) /\ lastbtn' = btns(p)
      /\ \/ moved(p) /\ moveMessages(p)
         \/ ~moved(p) /\ btns(p) # 0 /\ downMessage(p)
         \/ ~moved(p) /\ btns(p) = 0 /\ since(lastdowntick) < 30 /\ clickMessage
         \/ ~moved(p) /\ btns(p) = 0 /\ since(lastdowntick) >= 30 /\ upMessage
  BY DEF genMouseMessage
<1>2. btns(p) = m[1]
  BY FirstByte DEF btns, Bytes
<1>3. /\ seen \in Beliefs /\ ~seen.wrong
      /\ lastdowntick # Never /\ lastbtn # 0 => seen.press
      /\ lastclicktick # Never => seen.click
      /\ seen.down => lastbtn # 0
  BY DEF Typed, Told
<1>4. CASE moveMessages(p)
  <2>1. /\ lastdowntick' = Never /\ lastclicktick' = Never
        /\ IF btns(p) # lastbtn THEN seen' = observe(observe(seen, "M_MOUSE_UP"), "M_MOUSE_MOVE")
                                ELSE seen' = observe(seen, "M_MOUSE_MOVE")
    BY <1>4 DEF moveMessages, handleMessage, handleMessages
  <2>2. ~seen'.wrong /\ (seen'.down => lastbtn' # 0)
    BY <1>1, <1>3, <2>1 DEF observe, Beliefs, Clicks
  <2> QED
    BY <1>1, <1>2, <2>1, <2>2 DEF Told
<1>5. CASE ~moved(p) /\ btns(p) # 0 /\ downMessage(p)
  <2>1. seen' = observe(seen, "M_MOUSE_DOWN") /\ UNCHANGED lastclicktick
    BY <1>5 DEF downMessage, handleMessage
  <2>2. seen' = [seen EXCEPT !.down = TRUE, !.press = TRUE]
    BY <2>1 DEF observe, Clicks
  <2>3. seen'.wrong = seen.wrong /\ seen'.press = TRUE /\ seen'.click = seen.click
    BY <1>3, <2>2 DEF Beliefs
  <2> QED
    BY <1>1, <1>2, <1>3, <1>5, <2>1, <2>3 DEF Told
<1>6. CASE ~moved(p) /\ btns(p) = 0 /\ since(lastdowntick) < 30 /\ clickMessage
  <2>1. lastbtn # 0
    <3>1. m = <<m[1], 0, 0, 0>>
      BY <1>1, <1>6, NothingElse
    <3> QED
      BY <1>2, <1>6, <3>1
  <2>2. since(lastdowntick) < 60
    <3>1. PICK s \in Int : s = since(lastdowntick)
      <4>1. PICK now \in Int : now = ticks
        BY InputAssumption DEF Typed
      <4>2. PICK range \in Nat : range = TickRange /\ range > 0
        BY InputAssumption
      <4>3. PICK t \in Int : t = lastdowntick
        BY InputAssumption DEF Typed, Never
      <4>4. (now - t) % range \in Int
        BY <4>2
      <4> QED
        BY <4>1, <4>2, <4>3, <4>4 DEF since
    <3> QED
      BY <1>6, <3>1
  <2>3. seen.press
    BY <1>3, <2>1, <2>2, Recent DEF Typed
  <2>4. CASE since(lastclicktick) < 60
    <3>1. lastclicktick' = Never /\ seen' = observe(seen, "M_MOUSE_DBCLICK")
      BY <1>6, <2>4 DEF clickMessage, handleMessage
    <3>2. seen.click
      BY <1>3, <2>4, Recent DEF Typed
    <3>3. ~seen'.wrong /\ ~seen'.down
      BY <1>3, <2>3, <3>1, <3>2 DEF observe, Clicks
    <3> QED
      BY <1>1, <1>2, <1>6, <3>1, <3>3 DEF Told
  <2>5. CASE ~(since(lastclicktick) < 60)
    <3>1. \/ seen' = observe(seen, "M_MOUSE_LEFT_CLICK")
          \/ seen' = observe(seen, "M_MOUSE_RIGHT_CLICK")
      BY <1>6, <2>5 DEF clickMessage, handleMessage
    <3>2. seen' = [down |-> FALSE, press |-> FALSE, click |-> TRUE, wrong |-> FALSE]
      <4>1. CASE seen' = observe(seen, "M_MOUSE_LEFT_CLICK")
        BY <1>3, <2>3, <4>1 DEF observe, Clicks
      <4>2. CASE seen' = observe(seen, "M_MOUSE_RIGHT_CLICK")
        BY <1>3, <2>3, <4>2 DEF observe, Clicks
      <4> QED
        BY <3>1, <4>1, <4>2
    <3> QED
      BY <1>1, <1>2, <1>6, <3>2 DEF Told
  <2> QED
    BY <2>4, <2>5
<1>7. CASE ~moved(p) /\ btns(p) = 0 /\ since(lastdowntick) >= 30 /\ upMessage
  <2>1. /\ seen' = observe(observe(seen, "M_MOUSE_UP"), "none")
        /\ UNCHANGED <<lastdowntick, lastclicktick>>
    BY <1>7 DEF upMessage, handleMessages, uninitialised
  <2>2. ~seen'.wrong /\ ~seen'.down /\ (seen'.click <=> seen.click)
    BY <1>3, <2>1 DEF observe, Beliefs, Clicks
  <2> QED
    BY <1>1, <1>2, <1>3, <1>7, <2>1, <2>2 DEF Told
<1> QED
  BY <1>1, <1>2, <1>4, <1>5, <1>6, <1>7
\* The packet after one more byte.
LEMMA Counted ==
  ASSUME Typed, NEW b \in Codes
  PROVE  /\ counted(b) \in Seq(Codes) /\ Len(counted(b)) <= 3
         /\ \/ packet = <<>> /\ ~bit(b, 3) /\ counted(b) = <<>>
            \/ /\ packet # <<>> \/ bit(b, 3)
               /\ counted(b) = Append(packet, b) /\ Len(counted(b)) = Len(packet) + 1
<1>1. packet \in Seq(Codes) /\ Len(packet) < 3
  BY DEF Typed
<1>2. /\ Append(packet, b) \in Seq(Codes) /\ Len(Append(packet, b)) = Len(packet) + 1
      /\ Len(packet) \in Nat
  BY <1>1
<1>3. Len(Append(packet, b)) <= 3
  BY <1>1, <1>2
<1> QED
  BY <1>2, <1>3 DEF counted

\* A byte that the mouse's driver reads, its own or a stray one.
LEMMA MouseReadInv ==
  ASSUME Inv, NEW o \in Offers, outbuf = <<o>>, mouseintr
  PROVE  Inv'
<1> DEFINE b == o.byte
<1>1. /\ intr /\ outbuf # <<>> /\ outbuf[1] = o /\ outbuf' = <<>>
      /\ UNCHANGED <<mouseQ, kbdQ, held, keys, events, intr, irq, ticks, shift>>
  BY DEF mouseintr, inb, devices
<1>2. (stray' <=> stray \/ o.dev # "mouse") /\ stray' \in BOOLEAN /\ mouseByte(b)
  BY <1>1 DEF mouseintr, inb, Inv, Typed
<1>3. PICK p \in Seq(Codes) : p = counted(b)
  BY Counted DEF Offers, Inv
<1>4. b \in Codes /\ Typed
  BY DEF Offers, Inv
<1>5. /\ Len(p) \in Nat /\ Len(p) <= 3
      /\ \/ packet = <<>> /\ ~bit(b, 3) /\ p = <<>>
         \/ (packet # <<>> \/ bit(b, 3)) /\ p = Append(packet, b) /\ Len(p) = Len(packet) + 1
  BY <1>3, <1>4, Counted
<1>6. /\ recovery' = IF recoveryAfter(b) = 2 THEN -1 ELSE recoveryAfter(b)
      /\ \/ /\ recoveryAfter(b) = 2
            /\ packet' = <<>> /\ excused' = TRUE
            /\ UNCHANGED <<lastbtn, lastdowntick, lastclicktick, seen>>
         \/ /\ recoveryAfter(b) # 2 /\ Len(p) = 3
            /\ packet' = <<>>
            /\ genMouseMessage(p)
         \/ /\ recoveryAfter(b) # 2 /\ Len(p) # 3
            /\ packet' = p
            /\ UNCHANGED <<lastbtn, lastdowntick, lastclicktick, seen, excused>>
  BY <1>2, <1>3 DEF mouseByte, nextPacket
<1>7. recoveryAfter(b) \in {-1, 0, 1, 2} /\ (recoveryAfter(b) = 1 => b = 0)
  BY DEF recoveryAfter
<1>8. /\ lastbtn' \in 0 .. 7 /\ seen' \in Beliefs
      /\ lastdowntick' \in {Never} \cup 0 .. MaxTick
      /\ lastclicktick' \in {Never} \cup 0 .. MaxTick
      /\ excused' \in BOOLEAN /\ (excused => excused')
  BY <1>4, <1>6, PacketTyped DEF Typed
<1>9. packet' \in Seq(Codes) /\ Len(packet') < 3
  <2>1. CASE packet' = <<>>
    BY <2>1
  <2>2. CASE packet' = p /\ Len(p) # 3
    <3>1. PICK k \in Nat : k = Len(p)
      BY <1>5
    <3>2. k < 3
      BY <1>5, <2>2, <3>1
    <3> QED
      BY <2>2, <3>1, <3>2
  <2> QED
    BY <1>6, <2>1, <2>2
<1>10. recovery' \in {-1, 0, 1} /\ (recovery' = 1 => b = 0 /\ recoveryAfter(b) = 1)
  BY <1>6, <1>7
<1>11. Typed'
  BY <1>1, <1>2, <1>4, <1>8, <1>9, <1>10 DEF Typed
<1>12. ByteAnnounced'
  BY <1>1 DEF ByteAnnounced
<1>13. PICK len \in Nat : len = Len(mouseQ)
  BY <1>4 DEF Typed
<1>14. /\ ~mouseOut' /\ left' = len
       /\ mouseOut <=> o.dev = "mouse"
       /\ mouseOut => left = len + 1
       /\ ~mouseOut => left = len
  BY <1>1, <1>13 DEF mouseOut, left
<1>15. Marked'
  <2>1. len <= 3 /\ (len = 3 => ~mouseOut /\ left = 3)
    BY <1>14 DEF Inv, Marked
  <2>2. len = 3 => next' = next
    BY <1>1, <1>14, <2>1 DEF next
  <2>3. recovery' = 1 => Len(packet') # 1
    <3>1. SUFFICES ASSUME recovery' = 1 PROVE Len(packet') # 1
      OBVIOUS
    <3>2. b = 0 /\ recoveryAfter(b) # 2
      BY <1>10, <3>1
    <3>3. packet' = <<>> \/ packet' = p
      BY <1>6
    <3>4. p = <<>> \/ (packet # <<>> /\ Len(p) = Len(packet) + 1)
      <4>1. ~bit(b, 3)
        BY <3>2, ZeroUnmarked
      <4> QED
        BY <1>5, <4>1
    <3>5. packet # <<>> => Len(packet) # 0
      BY <1>4 DEF Typed
    <3>6. PICK k \in Nat : k = Len(packet)
      BY <1>4 DEF Typed
    <3>7. CASE p = <<>>
      BY <3>3, <3>7
    <3>8. CASE p # <<>>
      <4>1. packet # <<>> /\ Len(p) = k + 1
        BY <3>4, <3>6, <3>8
      <4>2. Len(p) # 1
        BY <3>5, <3>6, <4>1
      <4>3. CASE packet' = <<>>
        BY <4>3
      <4>4. CASE packet' = p
        BY <4>2, <4>4, Zenon
      <4> QED
        BY <3>3, <4>3, <4>4
    <3> QED
      BY <3>7, <3>8
  <2> QED
    BY <1>14, <2>1, <2>2, <2>3 DEF Inv, Marked
<1>16. ASSUME ~stray', ~excused' PROVE Synced' /\ Told'
  <2>1. mouseOut /\ Synced /\ Told /\ recoveryAfter(b) # 2
    BY <1>2, <1>6, <1>8, <1>14, <1>16 DEF Inv, Honest
  <2>2. left = len + 1
    BY <1>14, <2>1
  <2>3. PICK m \in Reports : OnItsWay(m) /\ held = m[1] /\ m # <<lastbtn, 0, 0, 0>>
    BY <2>1, <2>2 DEF Synced
  <2>4. PICK j \in Nat : j = Len(packet)
    BY <1>4 DEF Typed
  <2>5. /\ j + len + 1 = 3
        /\ \A i \in 1 .. j : packet[i] = Bytes(m)[i]
        /\ b = Bytes(m)[j + 1]
        /\ \A i \in 1 .. len : mouseQ[i] = Bytes(m)[3 - len + i]
    BY <1>1, <1>13, <2>1, <2>2, <2>3, <2>4 DEF OnItsWay
  <2>6. p = Append(packet, b) /\ Len(p) = j + 1
    <3>1. CASE packet = <<>>
      <4>1. b = Bytes(m)[1]
        BY <2>4, <2>5, <3>1
      <4>2. bit(b, 3)
        BY <4>1, FirstByte DEF Bytes
      <4> QED
        BY <1>5, <2>4, <4>2
    <3>2. CASE packet # <<>>
      BY <1>5, <2>4, <3>2
    <3> QED
      BY <3>1, <3>2
  <2>7. \A i \in 1 .. j + 1 : p[i] = Bytes(m)[i]
    <3>1. packet \in Seq(Codes)
      BY <1>4 DEF Typed
    <3> QED
      BY <1>4, <2>4, <2>5, <2>6, <3>1
  <2>8. CASE j < 2
    <3>1. Len(p) # 3
      BY <2>6, <2>8
    <3>2. /\ packet' = p
          /\ UNCHANGED <<lastbtn, lastdowntick, lastclicktick, seen, excused>>
      BY <1>6, <2>1, <3>1
    <3>3. left' > 0 /\ Len(packet') + left' = 3 /\ Len(packet') = j + 1
      BY <1>14, <2>5, <2>6, <2>8, <3>2
    <3>4. OnItsWay(m)'
      <4>1. Len(mouseQ') = len /\ mouseQ' = mouseQ
        BY <1>1, <1>13
      <4> QED
        BY <1>14, <2>5, <2>7, <3>2, <3>3, <4>1 DEF OnItsWay
    <3> QED
      BY <1>1, <2>1, <2>3, <3>2, <3>4 DEF Synced, Told
  <2>9. CASE j = 2
    <3>1. Len(p) = 3 /\ len = 0
      BY <2>5, <2>6, <2>9
    <3>2. p = Bytes(m)
      <4>1. p \in Seq(Codes) /\ Bytes(m) \in Seq(Codes) /\ Len(Bytes(m)) = 3
        BY FirstByte DEF Bytes
      <4>2. \A i \in 1 .. 3 : p[i] = Bytes(m)[i]
        BY <2>7, <2>9
      <4> QED
        BY <3>1, <4>1, <4>2
    <3>3. genMouseMessage(p) /\ packet' = <<>>
      BY <1>6, <2>1, <3>1
    <3>4. lastbtn' = m[1] /\ Told'
      BY <1>4, <1>16, <2>1, <2>3, <3>2, <3>3, PacketTold
    <3> QED
      BY <1>1, <1>14, <2>3, <3>1, <3>3, <3>4 DEF Synced
  <2> QED
    BY <2>4, <2>5, <2>8, <2>9
<1> QED
  BY <1>11, <1>12, <1>15, <1>16 DEF Inv, Honest

\* Or it finds none and returns.
LEMMA MouseReturnInv ==
  ASSUME Inv, outbuf = <<>>, mouseintr
  PROVE  Inv'
<1>1. /\ intr' = FALSE
      /\ UNCHANGED <<outbuf, mouseQ, kbdQ, held, keys, irq, ticks, packet, recovery, lastbtn,
                     lastdowntick, lastclicktick, shift, seen, stray, excused>>
  BY DEF mouseintr, inb, decoder, devices
<1>2. Typed'
  BY <1>1 DEF Inv, Typed
<1>3. ByteAnnounced'
  BY <1>1 DEF ByteAnnounced
<1> QED
  BY <1>1, <1>2, <1>3, MouseAtRest DEF Inv

LEMMA InitInv == Init => Inv
<1> SUFFICES ASSUME Init PROVE Inv
  OBVIOUS
<1>0. /\ mouseQ \in Seq(Codes) /\ Len(mouseQ) \in {0, 1}
      /\ stray \in BOOLEAN /\ (~stray => Len(mouseQ) = 0)
  <2>1. stray = (mouseQ # <<>>)
    BY DEF Init
  <2>2. CASE mouseQ = <<>>
    BY <2>1, <2>2
  <2>3. CASE mouseQ = <<ACK>>
    <3>1. ACK \in Codes
      BY DEF ACK, Codes
    <3>2. mouseQ \in Seq(Codes) /\ Len(mouseQ) = 1 /\ mouseQ # <<>>
      BY <2>3, <3>1
    <3> QED
      BY <2>1, <3>2
  <2> QED
    BY <2>2, <2>3 DEF Init, mouseinit
<1>1. Typed
  <2>1. lastdowntick = Never /\ lastclicktick = Never /\ recovery = 0
    BY DEF Init
  <2>2. ticks \in 0 .. MaxTick
    BY InputAssumption DEF Init
  <2>3. seen \in Beliefs
    BY DEF Init, Beliefs
  <2>4. packet \in Seq(Codes) /\ Len(packet) < 3 /\ kbdQ \in Seq(Codes)
    BY DEF Init
  <2>5. Len(mouseQ) <= 3
    BY <1>0
  <2>6. /\ outbuf = <<>> /\ held \in 0 .. 7 /\ lastbtn \in 0 .. 7
    BY DEF Init
  <2>8. intr \in BOOLEAN /\ excused \in BOOLEAN
    BY Zenon DEF Init
  <2>7. /\ keys \subseteq Keys /\ irq \subseteq {"mouse", "kbd"}
        /\ shift \subseteq {"SHIFT", "CTL", "ALT", "CAPSLOCK", "NUMLOCK", "SCROLLLOCK", "E0ESC"}
    BY DEF Init
  <2> QED
    BY <1>0, <2>1, <2>2, <2>3, <2>4, <2>5, <2>6, <2>7, <2>8 DEF Typed
<1>2. ByteAnnounced
  BY DEF Init, ByteAnnounced
<1>3. ~mouseOut
  BY DEF Init, mouseOut
<1>4. left = Len(mouseQ)
  BY <1>0, <1>3 DEF left
<1>5. Marked
  <2>1. left <= 3 /\ left # 3
    BY <1>0, <1>4
  <2> QED
    BY <2>1 DEF Init, Marked
<1>6. ASSUME ~stray PROVE Synced /\ Told
  <2>1. left = 0
    BY <1>0, <1>4, <1>6
  <2> QED
    BY <2>1 DEF Init, Synced, Told
<1> QED
  BY <1>1, <1>2, <1>5, <1>6 DEF Inv, Honest

LEMMA NextInv == Inv /\ [Next]_vars => Inv'
<1> SUFFICES ASSUME Inv, [Next]_vars PROVE Inv'
  OBVIOUS
<1>1. ASSUME NEW m \in Reports, Report(m) PROVE Inv'
  BY <1>1, ReportInv
<1>2. ASSUME NEW k \in Keys, Key(k) PROVE Inv'
  BY <1>2, KeyInv
<1>3. ASSUME NEW dev \in {"mouse", "kbd"}, Offer(dev) PROVE Inv'
  BY <1>3, OfferMouse, OfferKbd
<1>4. CASE mouseintr
  <2>1. outbuf = <<>> \/ \E o \in Offers : outbuf = <<o>>
    BY DEF Inv, Typed
  <2> QED
    BY <1>4, <2>1, MouseReadInv, MouseReturnInv
<1>5. CASE UNCHANGED vars
  <2>1. UNCHANGED <<outbuf, mouseQ, kbdQ, held, keys, irq, intr, ticks, packet, recovery, lastbtn,
                    lastdowntick, lastclicktick, shift, seen, stray, excused>>
    BY <1>5 DEF vars, devices, decoder
  <2>2. Typed'
    BY <2>1 DEF Inv, Typed
  <2>3. ByteAnnounced'
    BY <2>1 DEF Inv, ByteAnnounced
  <2> QED
    BY <2>1, <2>2, <2>3, MouseAtRest DEF Inv
<1> QED
  BY <1>1, <1>2, <1>3, <1>4, <1>5, TickInv, MouseInterruptInv, KbdInv DEF Next

LEMMA InvAlways == Spec => []Inv
BY InitInv, NextInv, PTL DEF Spec

-----------------------------------------------------------------------------

\* The types as the devices' module states them.
LEMMA TypesFollow == Inv => TypeOK
<1> SUFFICES ASSUME Inv PROVE TypeOK
  OBVIOUS
<1>1. /\ Len(outbuf) <= 1
      /\ \A i \in DOMAIN outbuf : outbuf[i].dev \in {"mouse", "kbd"} /\ outbuf[i].byte \in 0 .. 255
  <2>1. CASE outbuf = <<>>
    BY <2>1
  <2>2. ASSUME NEW o \in Offers, outbuf = <<o>>
        PROVE  /\ Len(outbuf) <= 1
               /\ \A i \in DOMAIN outbuf : outbuf[i].dev \in {"mouse", "kbd"}
                                            /\ outbuf[i].byte \in 0 .. 255
    <3>1. o.dev \in {"mouse", "kbd"} /\ o.byte \in 0 .. 255
      BY DEF Offers, Codes
    <3>2. Len(outbuf) = 1 /\ DOMAIN outbuf = {1} /\ outbuf[1] = o
      BY <2>2
    <3> QED
      BY <3>1, <3>2
  <2> QED
    BY <2>1, <2>2 DEF Inv, Typed
<1>2. recovery \in -1 .. 1
  BY DEF Inv, Typed
<1> QED
  BY <1>1, <1>2 DEF Inv, Typed, TypeOK, Codes

-----------------------------------------------------------------------------
(* The modifiers and the keys. *)

Toggles == {"CAPSLOCK", "NUMLOCK", "SCROLLLOCK"}

\* kbdgetc() as a function of its modifiers s and of the byte it reads.
codeAfter(s, b) == IF "E0ESC" \in s THEN b + 128 ELSE b
pressed(s, d) == SymDiff((s \ {"E0ESC"}) \cup shiftcode(d), togglecode(d))
after(s, b) ==
    IF b = 224 THEN s \cup {"E0ESC"}
    ELSE IF b >= 128 THEN s \ (shiftcode(codeAfter(s, b - 128)) \cup {"E0ESC"})
    ELSE pressed(s, codeAfter(s, b))

\* Two bytes are as much as the keyboard holds.
afterAll(s, q) ==
    CASE Len(q) = 0 -> s
      [] Len(q) = 1 -> after(s, q[1])
      [] OTHER -> after(after(s, q[1]), q[2])

\* The modifiers that will be on when all bytes on their way have been read.
offered == IF outbuf # <<>> /\ outbuf[1].dev = "kbd" THEN after(shift, outbuf[1].byte) ELSE shift
settled == afterAll(offered, kbdQ)

\* The code kbdgetc() knows a key by, and the modifiers of a set of keys.
keyCode(k) == IF Len(k) = 2 THEN k[2] + 128 ELSE k[1]
modifiersOf(K) == UNION {shiftcode(keyCode(k)) : k \in K}

\* The bytes that release a key.
breakCode(k) == [k EXCEPT ![Len(k)] = @ + 128]

\* What will be on is held.
KeysInv == /\ Inv
           /\ Len(kbdQ) <= 2
           /\ ~stray => settled \subseteq Toggles \cup modifiersOf(keys)

\* A modifier is no lock, and E0ESC is neither.
LEMMA ModifierKinds ==
  /\ \A d : shiftcode(d) \subseteq {"SHIFT", "CTL", "ALT"} /\ togglecode(d) \subseteq Toggles
  /\ \A K : "E0ESC" \notin Toggles \cup modifiersOf(K)
<1>1. \A d : shiftcode(d) \subseteq {"SHIFT", "CTL", "ALT"} /\ togglecode(d) \subseteq Toggles
  BY DEF shiftcode, togglecode, Toggles
<1>2. ASSUME NEW K PROVE "E0ESC" \notin Toggles \cup modifiersOf(K)
  BY <1>1 DEF modifiersOf, Toggles
<1> QED
  BY <1>1, <1>2

\* The function is what the driver does.
LEMMA Getc ==
  ASSUME NEW b \in Codes, kbdgetc(b)
  PROVE  shift' = after(shift, b)
<1>1. CASE b = 224
  <2>1. ~(b < 128)
    BY <1>1
  <2> QED
    BY <1>1, <2>1 DEF kbdgetc, after
<1>2. CASE b # 224 /\ b >= 128
  <2>1. ~(b < 128) /\ (b - 128) + 128 = b
    BY <1>2 DEF Codes
  <2>2. released(b) = codeAfter(shift, b - 128)
    BY <2>1 DEF released, codeAfter
  <2> QED
    BY <1>2, <2>1, <2>2 DEF kbdgetc, after
<1>3. CASE b < 128
  <2>1. b # 224 /\ ~(b >= 128)
    BY <1>3 DEF Codes
  <2> QED
    BY <2>1 DEF kbdgetc, after, pressed, codeAfter
<1>4. b \in Int
  BY DEF Codes
<1> QED
  BY <1>1, <1>2, <1>3, <1>4

\* Every key has one byte or two.
LEMMA KeyLength == \A k \in Keys : Len(k) <= 2 /\ Len(breakCode(k)) <= 2
<1> SUFFICES ASSUME NEW k \in Keys PROVE Len(k) <= 2 /\ Len(breakCode(k)) <= 2
  OBVIOUS
<1>1. PICK b \in 0 .. 127 : k = <<b>> \/ k = <<224, b>>
  BY InputAssumption
<1>2. Len(breakCode(k)) = Len(k)
  BY <1>1 DEF breakCode
<1>3. Len(k) = 1 \/ Len(k) = 2
  BY <1>1
<1> QED
  BY <1>2, <1>3

\* The bytes of a key, one after the other, press it or release it.
LEMMA KeyRead ==
  ASSUME NEW k \in Keys, NEW s, "E0ESC" \notin s
  PROVE  /\ afterAll(s, k) = pressed(s, keyCode(k))
         /\ afterAll(s, breakCode(k)) = s \ shiftcode(keyCode(k))
<1>1. PICK b \in 0 .. 127 : b # 96 /\ (k = <<b>> \/ k = <<224, b>>)
  BY InputAssumption
<1>2. PICK c \in Int : c = b + 128
  BY <1>1
<1>3. b # 224 /\ ~(b >= 128) /\ c # 224 /\ c >= 128 /\ c - 128 = b
  BY <1>1, <1>2
<1>4. \A d : s \ (shiftcode(d) \cup {"E0ESC"}) = s \ shiftcode(d)
  OBVIOUS
<1>5. CASE k = <<b>>
  <2>1. Len(k) = 1 /\ k[1] = b /\ keyCode(k) = b
    BY <1>5 DEF keyCode
  <2>2. Len(breakCode(k)) = 1 /\ breakCode(k)[1] = c
    BY <1>2, <1>5 DEF breakCode
  <2>3. afterAll(s, k) = pressed(s, b)
    BY <1>3, <2>1 DEF afterAll, after, codeAfter
  <2>4. afterAll(s, breakCode(k)) = s \ (shiftcode(b) \cup {"E0ESC"})
    BY <1>3, <2>2 DEF afterAll, after, codeAfter
  <2> QED
    BY <1>4, <2>1, <2>2, <2>3, <2>4, Zenon
<1>6. CASE k = <<224, b>>
  <2>1. Len(k) = 2 /\ k[1] = 224 /\ k[2] = b /\ keyCode(k) = c
    BY <1>2, <1>6 DEF keyCode
  <2>2. Len(breakCode(k)) = 2 /\ breakCode(k)[1] = 224 /\ breakCode(k)[2] = c
    BY <1>2, <1>6 DEF breakCode
  <2>3. PICK t : t = s \cup {"E0ESC"} /\ after(s, 224) = t
    BY DEF after
  <2>4. afterAll(s, k) = after(t, b) /\ afterAll(s, breakCode(k)) = after(t, c)
    BY <2>1, <2>2, <2>3 DEF afterAll
  <2>5. after(t, b) = pressed(t, c)
    BY <1>2, <1>3, <2>3 DEF after, codeAfter
  <2>6. after(t, c) = t \ (shiftcode(c) \cup {"E0ESC"})
    BY <1>2, <1>3, <2>3 DEF after, codeAfter
  <2>7. pressed(t, c) = pressed(s, c)
    <3>1. t \ {"E0ESC"} = s \ {"E0ESC"}
      BY <2>3
    <3> QED
      BY <3>1 DEF pressed
  <2>8. t \ (shiftcode(c) \cup {"E0ESC"}) = s \ shiftcode(c)
    BY <2>3
  <2> QED
    BY <2>1, <2>2, <2>4, <2>5, <2>6, <2>7, <2>8, Zenon
<1> QED
  BY <1>1, <1>5, <1>6

\* The keyboard says that a key went down or up.
LEMMA KeyKeys ==
  ASSUME KeysInv, NEW k \in Keys, Key(k), ~stray'
  PROVE  settled' \subseteq Toggles \cup modifiersOf(keys')
<1>1. /\ kbdQ = <<>> /\ UNCHANGED <<outbuf, shift, stray>>
      /\ \/ kbdQ' = k /\ keys' = keys \cup {k}
         \/ kbdQ' = breakCode(k) /\ keys' = keys \ {k}
  BY DEF Key, decoder, breakCode
<1>2. offered \subseteq Toggles \cup modifiersOf(keys)
  BY <1>1 DEF KeysInv, settled, afterAll
<1>3. "E0ESC" \notin offered
  BY <1>2, ModifierKinds
<1>4. offered' = offered /\ settled' = afterAll(offered, kbdQ')
  BY <1>1 DEF offered, settled
<1>5. CASE kbdQ' = k /\ keys' = keys \cup {k}
  <2>1. settled' = pressed(offered, keyCode(k))
    BY <1>3, <1>4, <1>5, KeyRead
  <2>2. modifiersOf(keys) \subseteq modifiersOf(keys') /\ shiftcode(keyCode(k)) \subseteq modifiersOf(keys')
    BY <1>5 DEF modifiersOf
  <2> QED
    BY <1>2, <2>1, <2>2, ModifierKinds DEF pressed, SymDiff
<1>6. CASE kbdQ' = breakCode(k) /\ keys' = keys \ {k}
  <2>1. settled' = offered \ shiftcode(keyCode(k))
    BY <1>3, <1>4, <1>6, KeyRead
  <2>2. modifiersOf(keys) \ shiftcode(keyCode(k)) \subseteq modifiersOf(keys')
    BY <1>6 DEF modifiersOf
  <2> QED
    BY <1>2, <2>1, <2>2
<1> QED
  BY <1>1, <1>5, <1>6

\* The controller takes a byte of the keyboard, the first of what is left.
LEMMA OfferKeys ==
  ASSUME KeysInv, Offer("kbd")
  PROVE  Len(kbdQ') <= 2 /\ settled' = settled
<1>1. /\ outbuf = <<>> /\ kbdQ # <<>> /\ UNCHANGED shift
      /\ outbuf' = <<[dev |-> "kbd", byte |-> Head(kbdQ)]>> /\ kbdQ' = Tail(kbdQ)
  BY DEF Offer, decoder
<1>2. kbdQ \in Seq(Codes) /\ Len(kbdQ) <= 2
  BY DEF KeysInv, Inv, Typed
<1>3. PICK l \in {1, 2} : Len(kbdQ) = l
  <2>1. PICK l \in Nat : Len(kbdQ) = l
    BY <1>2
  <2>2. l # 0 /\ l <= 2
    BY <1>1, <1>2, <2>1
  <2>3. l \in {1, 2}
    BY <2>2
  <2> QED
    BY <2>1, <2>3
<1>4. /\ Len(kbdQ') = l - 1 /\ Head(kbdQ) = kbdQ[1]
      /\ l = 2 => kbdQ'[1] = kbdQ[2]
  BY <1>1, <1>2, <1>3
<1>5. /\ outbuf' # <<>> /\ outbuf'[1].dev = "kbd" /\ outbuf'[1].byte = kbdQ[1]
  BY <1>1, <1>4
<1>6. offered = shift /\ offered' = after(shift, kbdQ[1])
  BY <1>1, <1>5 DEF offered
<1>7. CASE l = 1
  BY <1>3, <1>4, <1>6, <1>7 DEF settled, afterAll
<1>8. CASE l = 2
  BY <1>3, <1>4, <1>6, <1>8 DEF settled, afterAll
<1> QED
  BY <1>4, <1>7, <1>8

\* The driver of the keyboard reads it.
LEMMA ReadKeys ==
  ASSUME KeysInv, kbdintr, ~stray'
  PROVE  settled' = settled
<1>1. outbuf' = <<>> /\ UNCHANGED kbdQ
  BY DEF kbdintr, inb, devices
<1>2. offered' = shift'
  BY <1>1 DEF offered
<1>3. CASE outbuf = <<>>
  BY <1>1, <1>2, <1>3 DEF kbdintr, inb, offered, settled
<1>4. CASE outbuf # <<>>
  <2>1. PICK b \in Codes : b = outbuf[1].byte /\ kbdgetc(b)
    BY <1>4 DEF kbdintr, KeysInv, Inv, Typed, Offers
  <2>2. outbuf[1].dev = "kbd"
    BY <1>4 DEF kbdintr, inb
  <2> QED
    BY <1>1, <1>2, <1>4, <2>1, <2>2, Getc DEF offered, settled
<1> QED
  BY <1>3, <1>4

\* The driver of the mouse reads no byte of the keyboard, or a stray one.
LEMMA MouseKeys ==
  ASSUME KeysInv, mouseintr, ~stray'
  PROVE  settled' = settled /\ UNCHANGED <<kbdQ, keys>>
<1>1. UNCHANGED <<kbdQ, keys, shift>>
  BY DEF mouseintr, devices
<1>2. CASE inb("mouse")
  <2>1. outbuf[1].dev = "mouse" /\ outbuf' = <<>>
    BY <1>2 DEF inb
  <2> QED
    BY <1>1, <2>1 DEF offered, settled
<1>3. CASE UNCHANGED outbuf
  BY <1>1, <1>3 DEF offered, settled
<1> QED
  BY <1>2, <1>3 DEF mouseintr

LEMMA KeysNextInv == KeysInv /\ [Next]_vars => KeysInv'
<1> SUFFICES ASSUME KeysInv, [Next]_vars PROVE KeysInv'
  OBVIOUS
<1>1. Inv'
  BY NextInv DEF KeysInv
<1>2. stray \in BOOLEAN /\ (stray => stray')
  <2>1. stray \in BOOLEAN
    BY DEF KeysInv, Inv, Typed
  <2>2. UNCHANGED stray \/ mouseintr \/ kbdintr
    BY DEF Next, vars, Report, Key, Offer, Tick, MouseInterrupt
  <2>3. (\E dev : inb(dev)) => (stray => stray')
    BY DEF inb
  <2>4. mouseintr \/ kbdintr => UNCHANGED stray \/ \E dev : inb(dev)
    BY DEF mouseintr, kbdintr
  <2> QED
    BY <2>1, <2>2, <2>3, <2>4
<1>3. CASE UNCHANGED <<kbdQ, keys>> /\ (~stray' => settled' = settled)
  BY <1>1, <1>2, <1>3 DEF KeysInv
<1>4. CASE UNCHANGED <<outbuf, kbdQ, keys, shift>>
  BY <1>3, <1>4 DEF offered, settled
<1>5. ASSUME NEW m \in Reports, Report(m) PROVE KeysInv'
  BY <1>4, <1>5 DEF Report
<1>6. ASSUME NEW k \in Keys, Key(k) PROVE KeysInv'
  <2>1. UNCHANGED stray
    BY <1>6 DEF Key
  <2>2. Len(kbdQ') <= 2
    <3>1. kbdQ' = k \/ kbdQ' = breakCode(k)
      BY <1>6 DEF Key, breakCode
    <3> QED
      BY <3>1, KeyLength
  <2> QED
    BY <1>1, <1>6, <2>1, <2>2, KeyKeys DEF KeysInv
<1>7. CASE Offer("kbd")
  <2>1. UNCHANGED <<stray, keys>>
    BY <1>7 DEF Offer
  <2> QED
    BY <1>1, <1>7, <2>1, OfferKeys DEF KeysInv
<1>8. CASE Offer("mouse")
  <2>1. UNCHANGED <<kbdQ, keys, shift>> /\ outbuf = <<>> /\ outbuf'[1].dev = "mouse"
    BY <1>8 DEF Offer
  <2> QED
    BY <1>3, <2>1 DEF offered, settled
<1>9. CASE kbdintr
  <2>1. UNCHANGED <<kbdQ, keys>>
    BY <1>9 DEF kbdintr, devices
  <2> QED
    BY <1>3, <1>9, <2>1, ReadKeys
<1>10. CASE mouseintr
  <2>1. UNCHANGED <<kbdQ, keys>>
    BY <1>10 DEF mouseintr, devices
  <2> QED
    BY <1>3, <1>10, <2>1, MouseKeys
<1>11. CASE Tick \/ MouseInterrupt \/ UNCHANGED vars
  BY <1>4, <1>11 DEF Tick, MouseInterrupt, vars, devices
<1> QED
  BY <1>5, <1>6, <1>7, <1>8, <1>9, <1>10, <1>11 DEF Next

\* trap.c:76-90, mouse.c:158, kbd.c:64: a byte in the controller has an interrupt pending or
\* mouseintr() at work, so that the devices never go silent; kbd.c:11-61: whatever keys
\* there are and however they are pressed together, repeated and released, no modifier
\* stays on without its key.  Every variable keeps its type.
THEOREM DriversStaySafe == Spec => []DriversSafe
<1>1. Inv => TypeOK /\ ByteAnnounced
  BY TypesFollow DEF Inv
<1>2. KeysInv => NoStuckModifier
  <2> SUFFICES ASSUME KeysInv, keys = {}, kbdQ = <<>>, outbuf = <<>>, ~stray
               PROVE  shift \subseteq Toggles
    BY DEF NoStuckModifier, Toggles
  <2>1. settled = shift
    BY DEF settled, offered, afterAll
  <2>2. modifiersOf(keys) = {}
    BY DEF modifiersOf
  <2> QED
    BY <2>1, <2>2 DEF KeysInv
<1>3. Init => KeysInv
  <2> SUFFICES ASSUME Init PROVE KeysInv
    OBVIOUS
  <2>1. kbdQ = <<>> /\ outbuf = <<>> /\ shift = {} /\ Len(kbdQ) = 0
    BY DEF Init
  <2>2. settled = {}
    BY <2>1 DEF settled, offered, afterAll
  <2> QED
    BY <2>1, <2>2, InitInv DEF KeysInv
<1>4. KeysInv => DriversSafe
  BY <1>1, <1>2 DEF DriversSafe, KeysInv
<1> QED
  BY <1>3, <1>4, KeysNextInv, PTL DEF Spec

-----------------------------------------------------------------------------
(* The buttons. *)

\* mouse.c:90-153: clicks, double clicks and releases are reported for what the mouse did
\* and for nothing else, whatever it reports and however far apart the reports are.
THEOREM ButtonsAreReported == Spec => []ButtonsReported
<1>1. Inv => ButtonsReported
  <2> SUFFICES ASSUME Inv, ~stray, ~excused
               PROVE  ~seen.wrong /\ (held = 0 /\ unread = 0 => ~seen.down)
    BY DEF ButtonsReported, ClicksJustified, PressesEnd
  <2>1. Synced /\ Told
    BY DEF Inv, Honest
  <2>2. ASSUME held = 0, unread = 0 PROVE ~seen.down
    <3>1. left = 0
      BY <2>2, LeftIs DEF Inv
    <3>2. lastbtn = 0
      BY <2>1, <2>2, <3>1 DEF Synced, OnItsWay
    <3> QED
      BY <2>1, <3>2 DEF Told
  <2> QED
    BY <2>1, <2>2 DEF Told
<1> QED
  BY <1>1, InvAlways, PTL
-----------------------------------------------------------------------------

\* In step: nothing is read and nothing left, or what is read and what is left are a report.
LEMMA InStepIs == Typed /\ Marked => (InStep <=> left + Len(packet) \in {0, 3})
<1> SUFFICES ASSUME Typed, Marked PROVE InStep <=> left + Len(packet) \in {0, 3}
  OBVIOUS
<1>1. unread = left /\ left \in Nat /\ left <= 3
  BY LeftIs DEF Marked
<1>2. Len(packet) \in Nat /\ Len(packet) < 3
  BY DEF Typed
<1>3. PICK len \in 0 .. 3 : len = left
  BY <1>1
<1>4. PICK j \in Nat : j = Len(packet)
  BY <1>2
<1>5. j \in 0 .. 2
  BY <1>2, <1>4
<1>6. (len + j) % 3 = 0 <=> len + j \in {0, 3}
  BY <1>5
<1> QED
  BY <1>1, <1>3, <1>4, <1>6 DEF InStep

LEMMA InStepIsNext == (Typed /\ Marked => (InStep <=> left + Len(packet) \in {0, 3}))'
BY InStepIs, PTL

\* What leaves the packet and the bytes of the mouse as they are keeps them in step.
LEMMA AtRestInStep ==
  ASSUME Inv, Inv', InStep, left' = left, packet' = packet
  PROVE  InStep'
BY InStepIs, InStepIsNext DEF Inv

\* The mouse's driver reads a byte of the mouse: it counts it, or has read the whole report.
LEMMA MouseReadInStep ==
  ASSUME Inv, Inv', InStep, NEW o \in Offers, outbuf = <<o>>, mouseintr, ~misread
  PROVE  InStep'
<1> DEFINE b == o.byte
<1>1. /\ intr /\ outbuf # <<>> /\ outbuf[1] = o /\ outbuf' = <<>> /\ mouseQ' = mouseQ
      /\ mouseByte(b)
  BY DEF mouseintr, inb, devices
<1>2. mouseOut /\ ~mouseOut' /\ next = b
  BY <1>1 DEF misread, mouseOut, next
<1>3. Typed /\ Marked /\ b \in Codes
  BY DEF Inv, Offers
<1>4. PICK len \in Nat : len = Len(mouseQ)
  BY <1>3 DEF Typed
<1>5. left = len + 1 /\ left' = len
  BY <1>1, <1>2, <1>4 DEF left
<1>6. PICK j \in Nat : j = Len(packet)
  BY <1>3 DEF Typed
<1>7. j < 3 /\ len + 1 + j \in {0, 3}
  BY <1>3, <1>5, <1>6, InStepIs DEF Typed
<1>8. len + 1 + j = 3
  BY <1>7
<1>9. j = 0 => packet = <<>> /\ bit(b, 3)
  <2>1. ASSUME j = 0 PROVE packet = <<>>
    <3>1. packet \in Seq(Codes) /\ Len(packet) = 0
      BY <1>3, <1>6, <2>1 DEF Typed
    <3> QED
      BY <3>1
  <2>2. ASSUME j = 0 PROVE bit(b, 3)
    <3>1. left = 3
      BY <1>5, <1>8, <2>2
    <3> QED
      BY <1>2, <1>3, <3>1 DEF Marked
  <2> QED
    BY <2>1, <2>2
<1>10. Len(counted(b)) = j + 1
  <2>1. CASE packet = <<>>
    BY <1>3, <1>6, <1>9, <2>1, Counted
  <2>2. CASE packet # <<>>
    BY <1>3, <1>6, <2>2, Counted
  <2> QED
    BY <2>1, <2>2
<1>11. CASE recoveryAfter(b) = 2
  <2>1. recovery = 1 /\ b = 0 /\ packet' = <<>>
    BY <1>1, <1>11 DEF recoveryAfter, mouseByte
  <2>2. j # 0
    BY <1>9, <2>1, ZeroUnmarked
  <2>3. j # 1
    BY <1>3, <1>6, <2>1 DEF Marked
  <2>4. len = 0
    BY <1>8, <2>2, <2>3
  <2>5. left' + Len(packet') = 0
    BY <1>5, <2>1, <2>4
  <2> QED
    BY <2>5, InStepIsNext DEF Inv
<1>12. CASE recoveryAfter(b) # 2 /\ j = 2
  <2>1. packet' = <<>> /\ len = 0
    BY <1>1, <1>8, <1>10, <1>12 DEF mouseByte, nextPacket
  <2>2. left' + Len(packet') = 0
    BY <1>5, <2>1
  <2> QED
    BY <2>2, InStepIsNext DEF Inv
<1>13. CASE recoveryAfter(b) # 2 /\ j # 2
  <2>1. Len(packet') = j + 1
    BY <1>1, <1>10, <1>13 DEF mouseByte
  <2>2. left' + Len(packet') = 3
    BY <1>5, <1>8, <2>1
  <2> QED
    BY <2>2, InStepIsNext DEF Inv
<1> QED
  BY <1>11, <1>12, <1>13

\* mouse.c:164-215: neither the bytes of a report nor the two ways in which the driver drops
\* what it has read put its packets out of step with the mouse's; only a byte in the wrong
\* driver's hands does.
THEOREM PacketsStayInStep == Spec => StaysInStep
<1>1. Inv /\ Inv' /\ [Next]_vars => [InStep /\ ~misread => InStep']_vars
  <2> SUFFICES ASSUME Inv, Inv', Next, InStep, ~misread PROVE InStep'
    OBVIOUS
  <2>1. ASSUME NEW m \in Reports, Report(m) PROVE InStep'
    <3>1. /\ unread = 0 /\ packet' = packet /\ outbuf' = outbuf
          /\ mouseQ' = <<8 + m[1] + m[2], m[3], m[4]>>
      BY <2>1 DEF Report, decoder
    <3>2. left = 0
      BY <3>1, LeftIs DEF Inv
    <3>3. PICK j \in Nat : j = Len(packet)
      BY DEF Inv, Typed
    <3>4. j \in {0, 3} /\ j < 3
      BY <3>2, <3>3, InStepIs DEF Inv, Typed
    <3>5. Len(mouseQ) \in Nat
      BY DEF Inv, Typed
    <3>6. ~mouseOut'
      BY <3>1, <3>2, <3>5 DEF left, mouseOut
    <3>7. left' = 3
      BY <3>1, <3>6 DEF left
    <3>8. left' + Len(packet') = 3
      BY SMTT(30), <3>1, <3>3, <3>4, <3>7
    <3> QED
      BY <3>8, InStepIsNext DEF Inv
  <2>2. ASSUME NEW k \in Keys, Key(k) PROVE InStep'
    <3>1. packet' = packet /\ outbuf' = outbuf /\ mouseQ' = mouseQ
      BY <2>2 DEF Key, decoder
    <3> QED
      BY <3>1, AtRestInStep DEF left, mouseOut
  <2>3. CASE Offer("mouse")
    <3>1. /\ outbuf = <<>> /\ outbuf' # <<>> /\ outbuf'[1].dev = "mouse" /\ mouseQ # <<>>
          /\ mouseQ' = Tail(mouseQ) /\ packet' = packet
      BY <2>3 DEF Offer, decoder
    <3>2. mouseQ \in Seq(Codes)
      BY DEF Inv, Typed
    <3>3. Len(mouseQ) = Len(mouseQ') + 1 /\ Len(mouseQ') \in Nat
      BY <3>1, <3>2
    <3>4. left' = left
      BY <3>1, <3>3 DEF left, mouseOut
    <3> QED
      BY <3>1, <3>4, AtRestInStep
  <2>4. CASE Offer("kbd")
    <3>1. /\ outbuf = <<>> /\ outbuf'[1].dev = "kbd" /\ mouseQ' = mouseQ /\ packet' = packet
      BY <2>4 DEF Offer, decoder
    <3>2. left' = left
      BY <3>1 DEF left, mouseOut
    <3> QED
      BY <3>1, <3>2, AtRestInStep
  <2>5. CASE Tick \/ MouseInterrupt
    <3>1. packet' = packet /\ outbuf' = outbuf /\ mouseQ' = mouseQ
      BY <2>5 DEF Tick, MouseInterrupt, decoder, devices
    <3> QED
      BY <3>1, AtRestInStep DEF left, mouseOut
  <2>6. CASE mouseintr /\ outbuf = <<>>
    <3>1. packet' = packet /\ outbuf' = outbuf /\ mouseQ' = mouseQ
      BY <2>6 DEF mouseintr, inb, decoder, devices
    <3> QED
      BY <3>1, AtRestInStep DEF left, mouseOut
  <2>7. CASE mouseintr /\ outbuf # <<>>
    BY <2>7, MouseReadInStep DEF Inv, Typed
  <2>8. CASE kbdintr
    <3>1. ~intr /\ outbuf' = <<>> /\ packet' = packet /\ mouseQ' = mouseQ
      BY <2>8 DEF kbdintr, inb, decoder, devices
    <3>2. ~mouseOut /\ ~mouseOut'
      BY <3>1 DEF misread, mouseOut, Inv, Typed
    <3>3. left' = left
      BY <3>1, <3>2 DEF left
    <3> QED
      BY <3>1, <3>3, AtRestInStep
  <2> QED
    BY <2>1, <2>2, <2>3, <2>4, <2>5, <2>6, <2>7, <2>8 DEF Next
<1> QED
  BY <1>1, InvAlways, PTL DEF Spec, StaysInStep

-----------------------------------------------------------------------------
(* The console.  Arithmetic modulo m. *)

\* A number is its quotient times m, and the remainder, which is below m.
LEMMA Remainder ==
  ASSUME NEW m \in Nat \ {0}, NEW x \in Int
  PROVE  x % m \in 0 .. m - 1 /\ x \div m \in Int /\ x = m * (x \div m) + (x % m)
  OBVIOUS

\* There is only one such remainder.
LEMMA RemainderUnique ==
  ASSUME NEW m \in Nat \ {0}, NEW q \in Int, NEW x \in 0 .. m - 1
  PROVE  (m * q + x) % m = x
  OBVIOUS

\* A multiple of m does not change the remainder.
LEMMA AddMultiple ==
  ASSUME NEW m \in Nat \ {0}, NEW x \in Int, NEW k \in Int
  PROVE  (x + m * k) % m = x % m
<1>1. x % m \in 0 .. m - 1 /\ x \div m \in Int /\ x = m * (x \div m) + (x % m)
  BY Remainder
<1>2. m * (x \div m) + m * k = m * ((x \div m) + k) /\ (x \div m) + k \in Int
  BY <1>1
<1>3. x + m * k = m * ((x \div m) + k) + (x % m)
  BY <1>1, <1>2
<1> QED
  BY <1>1, <1>2, <1>3, RemainderUnique

\* The remainders of numbers close to 0 .. m - 1.
LEMMA SmallRemainder ==
  ASSUME NEW m \in Nat \ {0}, NEW x \in Int
  PROVE  /\ 0 <= x /\ x < m => x % m = x
         /\ m <= x /\ x < 2 * m => x % m = x - m
         /\ 0 - m <= x /\ x < 0 => x % m = x + m
  OBVIOUS

\* A remainder may be taken at once or later.
LEMMA RemainderLater ==
  ASSUME NEW m \in Nat \ {0}, NEW x \in Int, NEW y \in Int
  PROVE  ((x % m) + y) % m = (x + y) % m
<1> DEFINE s == x % m
           q == x \div m
<1>1. s \in Int /\ q \in Int /\ x = m * q + s
  BY Remainder
<1> HIDE DEF s, q
<1>2. m * q \in Int /\ s + y \in Int
  BY <1>1
<1>3. x + y = (s + y) + m * q
  BY <1>1, <1>2
<1>4. ((s + y) + m * q) % m = (s + y) % m
  BY <1>1, <1>2, AddMultiple, Zenon
<1> QED
  BY <1>3, <1>4 DEF s

-----------------------------------------------------------------------------
(* The indices. *)

Indices == 0 .. UintRange - 1

\* What the assumption says of the sizes.
LEMMA Sizes == /\ INPUT_BUF \in Nat \ {0} /\ UintRange \in Nat \ {0} /\ INPUT_BUF < UintRange
               /\ \E k \in Int : UintRange = INPUT_BUF * k
<1>1. INPUT_BUF \in Nat \ {0}
  BY ConsoleAssumption
<1>2. PICK k \in 2 .. UintRange : UintRange = k * INPUT_BUF
  BY ConsoleAssumption
<1>3. UintRange \in Int
  BY <1>1, <1>2
<1>4. k * INPUT_BUF = INPUT_BUF * k /\ k * INPUT_BUF >= 2 * INPUT_BUF
  BY <1>1, <1>2, <1>3
<1> QED
  BY <1>1, <1>2, <1>3, <1>4

\* How far j is ahead of i.
LEMMA Ahead ==
  ASSUME NEW i \in Indices, NEW j \in Indices
  PROVE  /\ minus(j, i) \in Indices
         /\ j = i + minus(j, i) \/ j = i + minus(j, i) - UintRange
         /\ minus(j, i) = 0 <=> i = j
<1> DEFINE g == minus(j, i)
<1>1. UintRange \in Nat \ {0} /\ i \in 0 .. UintRange - 1 /\ j \in 0 .. UintRange - 1
  BY Sizes DEF Indices
<1>2. j - i \in Int /\ 0 - UintRange <= j - i /\ j - i < UintRange
  BY <1>1
<1>3. /\ 0 <= j - i /\ j - i < UintRange => g = j - i
      /\ 0 - UintRange <= j - i /\ j - i < 0 => g = j - i + UintRange
  BY <1>1, <1>2, SmallRemainder, Zenon DEF minus
<1>4. g \in 0 .. UintRange - 1
  BY <1>1, <1>2, Remainder, Zenon DEF minus
<1> HIDE DEF g
<1>5. g = j - i \/ g = j - i + UintRange
  BY <1>1, <1>2, <1>3
<1>6. /\ j = i + g \/ j = i + g - UintRange
      /\ g = 0 <=> i = j
  BY <1>1, <1>3, <1>4, <1>5
<1> QED
  BY <1>4, <1>6, Zenon DEF g, Indices

\* The index that is x ahead of i, for a small x.
LEMMA Advanced ==
  ASSUME NEW i \in Indices, NEW x \in Indices
  PROVE  (i + x) % UintRange \in Indices /\ minus((i + x) % UintRange, i) = x
<1> DEFINE j == (i + x) % UintRange
<1>1. UintRange \in Nat \ {0} /\ i \in Int /\ x \in 0 .. UintRange - 1 /\ x \in Int /\ 0 - i \in Int
      /\ i + x \in Int
  BY Sizes DEF Indices
<1>2. j \in 0 .. UintRange - 1
  BY <1>1, Remainder, Zenon
<1>3. (j + (0 - i)) % UintRange = ((i + x) + (0 - i)) % UintRange
  BY <1>1, RemainderLater, Zenon
<1> HIDE DEF j
<1>4. j + (0 - i) = j - i /\ (i + x) + (0 - i) = x
  BY <1>1, <1>2
<1>5. x % UintRange = x
  BY <1>1, SmallRemainder
<1> QED
  BY <1>2, <1>3, <1>4, <1>5, Zenon DEF j, Indices, minus

\* Two indices as far ahead of a third are one.
LEMMA SameIndex ==
  ASSUME NEW i \in Indices, NEW j \in Indices, NEW k \in Indices, minus(j, i) = minus(k, i)
  PROVE  j = k
<1> DEFINE g == minus(j, i)
<1>1. g \in Indices /\ (j = i + g \/ j = i + g - UintRange)
  BY Ahead, Zenon
<1>2. k = i + g \/ k = i + g - UintRange
  BY Ahead, Zenon
<1> HIDE DEF g
<1>3. UintRange \in Nat \ {0}
  BY Sizes
<1> QED
  BY <1>1, <1>2, <1>3 DEF Indices

\* Distances add up.
LEMMA Together ==
  ASSUME NEW i \in Indices, NEW j \in Indices, NEW k \in Indices,
         minus(j, i) + minus(k, j) < UintRange
  PROVE  minus(k, i) = minus(j, i) + minus(k, j)
<1> DEFINE g == minus(j, i)
           h == minus(k, j)
<1>1. g \in Indices /\ (j = i + g \/ j = i + g - UintRange)
  BY Ahead, Zenon
<1>2. h \in Indices /\ (k = j + h \/ k = j + h - UintRange)
  BY Ahead, Zenon
<1>3. g + h < UintRange
  OBVIOUS
<1> HIDE DEF g, h
<1>4. UintRange \in Nat \ {0}
  BY Sizes
<1>5. g + h \in Indices
  BY <1>1, <1>2, <1>3, <1>4 DEF Indices
<1>6. PICK x \in Indices : x = (i + (g + h)) % UintRange /\ minus(x, i) = g + h
  BY <1>5, Advanced, Zenon
<1>7. x = i + (g + h) \/ x = i + (g + h) - UintRange
  BY <1>6, Ahead
<1>8. x = k
  BY <1>1, <1>2, <1>4, <1>5, <1>7 DEF Indices
<1> QED
  BY <1>6, <1>8, Zenon DEF g, h

\* The index that is x behind j.
LEMMA Retreated ==
  ASSUME NEW i \in Indices, NEW j \in Indices, NEW x \in Nat, x <= minus(j, i)
  PROVE  minus(j, x) \in Indices /\ minus(minus(j, x), i) = minus(j, i) - x
<1> DEFINE g == minus(j, i)
           l == minus(j, x)
<1>1. g \in Indices /\ (j = i + g \/ j = i + g - UintRange)
  BY Ahead, Zenon
<1>2. x <= g
  OBVIOUS
<1> HIDE DEF g
<1>3. UintRange \in Nat \ {0}
  BY Sizes
<1>4. /\ g - x \in Indices /\ j - x \in Int
      /\ 0 - UintRange <= j - x /\ j - x < UintRange
  BY <1>1, <1>2, <1>3 DEF Indices
<1>5. l \in Indices /\ (l = j - x \/ l = j - x + UintRange)
  <2>1. l \in 0 .. UintRange - 1
    BY <1>3, <1>4, Remainder, Zenon DEF minus
  <2>2. /\ 0 <= j - x => l = j - x
        /\ j - x < 0 => l = j - x + UintRange
    BY <1>3, <1>4, SmallRemainder, Zenon DEF minus
  <2>3. 0 <= j - x \/ j - x < 0
    BY <1>4
  <2> QED
    BY <2>1, <2>2, <2>3, Zenon DEF Indices
<1>6. PICK k \in Indices : minus(k, i) = g - x
  BY <1>4, Advanced, Zenon
<1>7. k = i + (g - x) \/ k = i + (g - x) - UintRange
  BY <1>6, Ahead
<1> HIDE DEF l
<1>8. k = l
  BY <1>1, <1>2, <1>3, <1>4, <1>5, <1>7 DEF Indices
<1> QED
  BY <1>5, <1>6, <1>8, Zenon DEF l, g

\* An index that is written at.
LEMMA Grown ==
  ASSUME NEW i \in Indices, NEW j \in Indices, minus(j, i) + 1 < UintRange
  PROVE  inc(j) \in Indices /\ minus(inc(j), i) = minus(j, i) + 1
<1>1. 1 \in Indices
  BY Sizes DEF Indices
<1>2. inc(j) \in Indices /\ minus(inc(j), j) = 1
  BY <1>1, Advanced DEF inc
<1> QED
  BY <1>2, Together

\* An index that is read at.
LEMMA Shortened ==
  ASSUME NEW i \in Indices, NEW j \in Indices, i # j
  PROVE  inc(i) \in Indices /\ minus(j, inc(i)) = minus(j, i) - 1
<1> DEFINE g == minus(j, i)
<1>1. UintRange \in Nat \ {0} /\ 1 \in Indices
  BY Sizes DEF Indices
<1>2. inc(i) \in Indices /\ minus(inc(i), i) = 1
  BY <1>1, Advanced DEF inc
<1>3. g \in Indices /\ g # 0
  BY Ahead, Zenon
<1> HIDE DEF g
<1>4. g - 1 \in Indices /\ 1 + (g - 1) = g /\ g < UintRange
  BY <1>1, <1>3 DEF Indices
<1>5. PICK k \in Indices : minus(k, inc(i)) = g - 1
  BY <1>2, <1>4, Advanced, Zenon
<1>6. minus(k, i) = g
  BY <1>2, <1>4, <1>5, Together
<1>7. k = j
  BY <1>6, SameIndex, Zenon DEF g
<1> QED
  BY <1>2, <1>5, <1>7, Zenon DEF g

\* INPUT_BUF divides the range of the indices: one that wraps around still points at the
\* same place of the ring.
LEMMA WrapHarmless ==
  ASSUME NEW x \in Int, NEW y \in Int
  PROVE  at((x % UintRange) + y) = at(x + y)
<1> DEFINE s == x % UintRange
           q == x \div UintRange
<1>1. INPUT_BUF \in Nat \ {0} /\ UintRange \in Nat \ {0}
  BY Sizes
<1>2. PICK k \in Int : UintRange = INPUT_BUF * k
  BY Sizes
<1>3. s \in 0 .. UintRange - 1 /\ q \in Int /\ x = UintRange * q + s
  BY <1>1, Remainder, Zenon
<1> HIDE DEF s, q
<1>4. UintRange * q = INPUT_BUF * (k * q) /\ k * q \in Int /\ s + y \in Int
  BY <1>1, <1>2, <1>3
<1>5. x + y = (s + y) + INPUT_BUF * (k * q)
  <2>1. INPUT_BUF * (k * q) \in Int /\ x = INPUT_BUF * (k * q) + s /\ s \in Int
    BY <1>1, <1>3, <1>4
  <2> QED
    BY <2>1
<1>6. ((s + y) + INPUT_BUF * (k * q)) % INPUT_BUF = (s + y) % INPUT_BUF
  BY <1>1, <1>4, AddMultiple, Zenon
<1> QED
  BY <1>5, <1>6, Zenon DEF s, at

\* The slot y ahead of j is the one y more ahead of i than j is.
LEMMA SlotAhead ==
  ASSUME NEW i \in Indices, NEW j \in Indices, NEW y \in Int
  PROVE  at(j + y) = at(i + minus(j, i) + y) /\ at(j + y) \in 0 .. INPUT_BUF - 1
<1> DEFINE g == minus(j, i)
<1>1. g \in Indices /\ (j = i + g \/ j = i + g - UintRange)
  BY Ahead, Zenon
<1> HIDE DEF g
<1>2. UintRange \in Nat \ {0} /\ INPUT_BUF \in Nat \ {0} /\ i \in Int /\ j \in Int /\ g \in Int
  BY <1>1, Sizes DEF Indices
<1>3. i + g \in Int /\ (i + g) % UintRange = j
  <2>1. CASE j = i + g
    BY <1>2, <2>1, SmallRemainder DEF Indices
  <2>2. CASE j = i + g - UintRange
    <3>1. UintRange <= i + g /\ i + g < 2 * UintRange /\ i + g \in Int
      BY <1>1, <1>2, <2>2 DEF Indices
    <3>2. (i + g) % UintRange = (i + g) - UintRange
      BY <1>2, <3>1, SmallRemainder, Zenon
    <3>3. (i + g) - UintRange = j
      BY <1>2, <2>2
    <3> QED
      BY <3>1, <3>2, <3>3, Zenon
  <2> QED
    BY <1>1, <2>1, <2>2
<1>4. at(((i + g) % UintRange) + y) = at(i + g + y)
  BY <1>3, WrapHarmless, Zenon
<1>5. j + y \in Int
  BY <1>2
<1>6. at(j + y) \in 0 .. INPUT_BUF - 1
  BY <1>2, <1>5, Remainder, Zenon DEF at
<1> QED
  BY <1>3, <1>4, <1>6, Zenon DEF g

\* The slots of one round are different.
LEMMA SlotsDiffer ==
  ASSUME NEW i \in Int, NEW k \in 0 .. INPUT_BUF - 1, NEW l \in 0 .. INPUT_BUF - 1,
         at(i + k) = at(i + l)
  PROVE  k = l
<1>1. /\ INPUT_BUF \in Nat \ {0} /\ k \in Int /\ l \in Int /\ 0 - i \in Int
      /\ i + k \in Int /\ i + l \in Int
  BY Sizes
<1>2. (at(i + k) + (0 - i)) % INPUT_BUF = ((i + k) + (0 - i)) % INPUT_BUF
  BY <1>1, RemainderLater, Zenon DEF at
<1>3. (at(i + l) + (0 - i)) % INPUT_BUF = ((i + l) + (0 - i)) % INPUT_BUF
  BY <1>1, RemainderLater, Zenon DEF at
<1>4. (i + k) + (0 - i) = k /\ (i + l) + (0 - i) = l
  BY <1>1
<1>5. k % INPUT_BUF = k /\ l % INPUT_BUF = l
  BY <1>1, SmallRemainder
<1> QED
  BY <1>2, <1>3, <1>4, <1>5, Zenon

-----------------------------------------------------------------------------
(* The invariant. *)

\* What is stored is a letter, the end of a line or of the file.
Kept == Letters \cup {"nl", "eof", "nul"}
Stages == {"out", "in", "full", "sleepy", "asleep"}

\* What the type invariant says of the ring and of the readers; what readers have is a
\* sequence of any length.
Shape ==
    /\ buf \in [0 .. INPUT_BUF - 1 -> Kept]
    /\ r \in Indices /\ w \in Indices /\ e \in Indices
    /\ minus(w, r) + minus(e, w) <= INPUT_BUF
    /\ conslock \in {"free"} \cup Readers
    /\ pc \in [Readers -> Stages]
    /\ dst \in [Readers -> Seq(Kept)]

\* Nothing that is still edited ends a line.
EditPlain == \A k \in 1 .. minus(e, w) : buf[at(w + k - 1)] # "nl"

\* A reader that has found nothing keeps the lock until it sleeps, so that nothing comes
\* in between; one that has enough keeps it until it is gone.
Holders == \A p \in Readers :
    /\ pc[p] \in {"full", "sleepy"} => conslock = p
    /\ pc[p] \in {"sleepy", "asleep"} => r = w

ConsoleInv == Shape /\ EditPlain /\ Holders

\* The ring is empty.
LEMMA ConsoleInitInv == ConsoleInit => ConsoleInv
<1> SUFFICES ASSUME ConsoleInit PROVE ConsoleInv
  OBVIOUS
<1>1. /\ buf = [i \in 0 .. INPUT_BUF - 1 |-> "nul"] /\ r = 0 /\ w = 0 /\ e = 0
      /\ conslock = "free" /\ pc = [p \in Readers |-> "out"] /\ dst = [p \in Readers |-> <<>>]
  BY DEF ConsoleInit
<1>2. 0 \in Indices /\ INPUT_BUF \in Nat /\ 0 \in Int
  BY Sizes DEF Indices
<1>3. minus(0, 0) = 0
  BY <1>2, Ahead
<1>4. Shape
  <2>1. buf \in [0 .. INPUT_BUF - 1 -> Kept] /\ pc \in [Readers -> Stages]
    BY <1>1 DEF Kept, Stages
  <2>2. dst \in [Readers -> Seq(Kept)]
    BY <1>1
  <2>3. r \in Indices /\ w \in Indices /\ e \in Indices /\ conslock \in {"free"} \cup Readers
    BY <1>1, <1>2
  <2>4. minus(w, r) + minus(e, w) <= INPUT_BUF
    BY <1>1, <1>2, <1>3
  <2> QED
    BY <2>1, <2>2, <2>3, <2>4 DEF Shape
<1>5. EditPlain
  <2>1. minus(e, w) = 0
    BY <1>1, <1>3
  <2> QED
    BY <2>1 DEF EditPlain
<1>6. Holders
  BY <1>1 DEF Holders
<1> QED
  BY <1>4, <1>5, <1>6 DEF ConsoleInv

\* The three indices, as numbers.
LEMMA Distances ==
  ASSUME Shape
  PROVE  /\ r \in Int /\ w \in Int /\ e \in Int /\ INPUT_BUF \in Nat \ {0}
         /\ minus(w, r) \in Nat /\ minus(e, w) \in Nat
         /\ minus(w, r) + minus(e, w) <= INPUT_BUF /\ INPUT_BUF < UintRange /\ UintRange \in Nat
         /\ minus(e, r) = minus(w, r) + minus(e, w)
<1>1. r \in Indices /\ w \in Indices /\ e \in Indices /\ minus(w, r) + minus(e, w) <= INPUT_BUF
  BY DEF Shape
<1>2. minus(w, r) \in Indices /\ minus(e, w) \in Indices
  BY <1>1, Ahead, Zenon
<1>3. INPUT_BUF \in Nat \ {0} /\ INPUT_BUF < UintRange /\ UintRange \in Nat
  BY Sizes
<1>4. minus(w, r) \in Nat /\ minus(e, w) \in Nat
  <2>1. \A x \in Indices : x \in Nat
    BY <1>3 DEF Indices
  <2> QED
    BY <1>2, <2>1, Zenon
<1>5. PICK a \in Nat, b \in Nat : a = minus(w, r) /\ b = minus(e, w)
  BY <1>4, Zenon
<1>6. a + b < UintRange
  BY <1>1, <1>3, <1>5
<1>7. minus(e, r) = minus(w, r) + minus(e, w)
  BY <1>1, <1>5, <1>6, Together, Zenon
<1>8. r \in Int /\ w \in Int /\ e \in Int
  BY <1>1, <1>3 DEF Indices
<1> QED
  BY <1>1, <1>3, <1>4, <1>7, <1>8, Zenon

\* The slots of the lines and of the line being edited are in the ring, one behind the
\* other, and different from the slot that is written next.
LEMMA Slots ==
  ASSUME Shape
  PROVE  /\ at(e) \in 0 .. INPUT_BUF - 1 /\ at(e) = at(r + minus(e, r)) /\ at(e) = at(w + minus(e, w))
         /\ \A k \in 1 .. minus(w, r) : /\ at(r + k - 1) \in 0 .. INPUT_BUF - 1
                                        /\ minus(e, r) < INPUT_BUF => at(r + k - 1) # at(e)
         /\ \A k \in 1 .. minus(e, w) : /\ at(w + k - 1) \in 0 .. INPUT_BUF - 1
                                        /\ at(w + k - 1) = at(r + (minus(w, r) + k) - 1)
                                        /\ minus(e, r) < INPUT_BUF => at(w + k - 1) # at(e)
<1>1. r \in Indices /\ w \in Indices /\ e \in Indices /\ INPUT_BUF \in Nat \ {0}
  BY Sizes DEF Shape
<1>2. PICK a \in Nat, b \in Nat : a = minus(w, r) /\ b = minus(e, w) /\ minus(e, r) = a + b
  BY Distances, Zenon
<1>3. r \in Int /\ w \in Int /\ e \in Int /\ a + b <= INPUT_BUF
  BY <1>2, Distances
<1>4. 0 \in Int /\ e + 0 = e /\ r + (a + b) + 0 = r + (a + b) /\ w + b + 0 = w + b
  BY <1>3
<1>5. /\ at(e) \in 0 .. INPUT_BUF - 1 /\ at(e) = at(r + (a + b)) /\ at(e) = at(w + b)
  <2>1. at(e + 0) = at(r + minus(e, r) + 0) /\ at(e + 0) \in 0 .. INPUT_BUF - 1
    BY <1>1, <1>4, SlotAhead, Zenon
  <2>2. at(e + 0) = at(w + minus(e, w) + 0)
    BY <1>1, <1>4, SlotAhead, Zenon
  <2>3. at(r + minus(e, r) + 0) = at(r + (a + b)) /\ at(w + minus(e, w) + 0) = at(w + b)
    BY <1>2, <1>4
  <2> QED
    BY <1>4, <2>1, <2>2, <2>3
<1>6. ASSUME NEW k \in 0 .. a + b - 1
      PROVE  /\ at(r + k) \in 0 .. INPUT_BUF - 1
             /\ a + b < INPUT_BUF => at(r + k) # at(e)
  <2>1. k \in 0 .. INPUT_BUF - 1 /\ r + k \in Int /\ k # a + b
        /\ (a + b < INPUT_BUF => a + b \in 0 .. INPUT_BUF - 1)
    BY <1>1, <1>3
  <2>2. at(r + k) \in 0 .. INPUT_BUF - 1
    BY <1>1, <2>1, Remainder, Zenon DEF at
  <2>3. a + b < INPUT_BUF => at(r + k) # at(r + (a + b))
    BY <1>3, <2>1, SlotsDiffer, Zenon
  <2> QED
    BY <1>5, <2>2, <2>3, Zenon
<1>7. ASSUME NEW k \in 1 .. a
      PROVE  /\ at(r + k - 1) \in 0 .. INPUT_BUF - 1
             /\ a + b < INPUT_BUF => at(r + k - 1) # at(e)
  <2>1. k - 1 \in 0 .. a + b - 1 /\ r + k - 1 = r + (k - 1)
    BY <1>3
  <2> QED
    BY <1>6, <2>1
<1>8. ASSUME NEW k \in 1 .. b
      PROVE  /\ at(w + k - 1) \in 0 .. INPUT_BUF - 1
             /\ at(w + k - 1) = at(r + (a + k) - 1)
             /\ a + b < INPUT_BUF => at(w + k - 1) # at(e)
  <2>1. a + (k - 1) \in 0 .. a + b - 1 /\ k - 1 \in Int /\ w + k - 1 = w + (k - 1)
        /\ r + (a + (k - 1)) = r + a + (k - 1) /\ r + a + (k - 1) = r + (a + k) - 1
    BY <1>3
  <2>2. at(w + (k - 1)) = at(r + a + (k - 1))
    BY <1>1, <1>2, <2>1, SlotAhead, Zenon
  <2>3. at(r + (a + (k - 1))) \in 0 .. INPUT_BUF - 1
        /\ (a + b < INPUT_BUF => at(r + (a + (k - 1))) # at(e))
    BY <1>6, <2>1, Zenon
  <2> QED
    BY <2>1, <2>2, <2>3, Zenon
<1> QED
  BY <1>2, <1>5, <1>7, <1>8, Zenon

-----------------------------------------------------------------------------
(* The steps preserve the invariant. *)

\* A step that leaves the ring alone.
LEMMA RingUntouched ==
  ASSUME ConsoleInv, UNCHANGED <<buf, r, w, e>>, conslock' \in {"free"} \cup Readers,
         pc' \in [Readers -> Stages], dst' \in [Readers -> Seq(Kept)], Holders'
  PROVE  ConsoleInv'
<1>1. Shape'
  BY DEF ConsoleInv, Shape, minus
<1>2. EditPlain'
  BY DEF ConsoleInv, EditPlain, minus, at
<1> QED
  BY <1>1, <1>2 DEF ConsoleInv

\* A call begins, with or without the lock, or ends.
LEMMA CallInv ==
  ASSUME ConsoleInv, NEW p \in Readers,
         (\E k \in 1 .. MaxRead : consoleread(p, k)) \/ acquire(p) \/ leave(p) \/ testKilled(p)
           \/ sleep(p) \/ kill(p)
  PROVE  ConsoleInv'
<1>1. /\ pc \in [Readers -> Stages] /\ dst \in [Readers -> Seq(Kept)]
      /\ conslock \in {"free"} \cup Readers /\ "free" \notin Readers
  BY ConsoleAssumption DEF ConsoleInv, Shape
<1>2. \A q \in Readers : /\ pc[q] \in {"full", "sleepy"} => conslock = q
                         /\ pc[q] \in {"sleepy", "asleep"} => r = w
  BY DEF ConsoleInv, Holders
<1>3. <<>> \in Seq(Kept)
  OBVIOUS
<1>4. CASE \E k \in 1 .. MaxRead : consoleread(p, k)
  <2>1. /\ pc[p] = "out" /\ pc' = [pc EXCEPT ![p] = "in"]
        /\ UNCHANGED <<buf, r, w, e, conslock, dst>>
    BY <1>4 DEF consoleread
  <2>2. Holders'
    BY <1>1, <1>2, <2>1 DEF Holders
  <2>3. pc' \in [Readers -> Stages]
    BY <1>1, <2>1 DEF Stages
  <2> QED
    BY <1>1, <2>1, <2>2, <2>3, RingUntouched
<1>5. CASE acquire(p)
  <2>1. /\ pc[p] = "in" /\ conslock = "free" /\ conslock' = p
        /\ UNCHANGED <<buf, r, w, e, pc, dst>>
    BY <1>5 DEF acquire
  <2>2. Holders'
    BY <1>1, <1>2, <2>1 DEF Holders
  <2> QED
    BY <1>1, <2>1, <2>2, RingUntouched
<1>6. CASE leave(p)
  <2>1. /\ pc[p] = "full" /\ pc' = [pc EXCEPT ![p] = "out"] /\ conslock' = "free"
        /\ dst' = [dst EXCEPT ![p] = <<>>] /\ UNCHANGED <<buf, r, w, e>>
    BY <1>6 DEF leave, done
  <2>2. Holders'
    BY <1>1, <1>2, <2>1 DEF Holders
  <2>3. pc' \in [Readers -> Stages] /\ dst' \in [Readers -> Seq(Kept)]
    BY <1>1, <1>3, <2>1 DEF Stages
  <2> QED
    BY <1>1, <2>1, <2>2, <2>3, RingUntouched
<1>7. CASE testKilled(p)
  <2>1. pc[p] = "in" /\ conslock = p /\ r = w /\ UNCHANGED <<buf, r, w, e>>
    BY <1>7 DEF testKilled
  <2>2. CASE p \in killed /\ done(p)
    <3>1. /\ pc' = [pc EXCEPT ![p] = "out"] /\ conslock' = "free"
          /\ dst' = [dst EXCEPT ![p] = <<>>]
      BY <2>2 DEF done
    <3>2. Holders'
      BY <1>1, <1>2, <2>1, <3>1 DEF Holders
    <3>3. pc' \in [Readers -> Stages] /\ dst' \in [Readers -> Seq(Kept)]
      BY <1>1, <1>3, <3>1 DEF Stages
    <3> QED
      BY <1>1, <2>1, <3>1, <3>2, <3>3, RingUntouched
  <2>3. CASE pc' = [pc EXCEPT ![p] = "sleepy"] /\ UNCHANGED <<n, dst, conslock>>
    <3>1. Holders'
      BY <1>1, <1>2, <2>1, <2>3 DEF Holders
    <3>2. pc' \in [Readers -> Stages]
      BY <1>1, <2>3 DEF Stages
    <3> QED
      BY <1>1, <2>1, <2>3, <3>1, <3>2, RingUntouched
  <2> QED
    BY <1>7, <2>2, <2>3 DEF testKilled
<1>8. CASE sleep(p)
  <2>1. /\ pc[p] = "sleepy" /\ pc' = [pc EXCEPT ![p] = "asleep"] /\ conslock' = "free"
        /\ UNCHANGED <<buf, r, w, e, dst>>
    BY <1>8 DEF sleep
  <2>2. Holders'
    BY <1>1, <1>2, <2>1 DEF Holders
  <2>3. pc' \in [Readers -> Stages]
    BY <1>1, <2>1 DEF Stages
  <2> QED
    BY <1>1, <2>1, <2>2, <2>3, RingUntouched
<1>9. CASE kill(p)
  <2>1. /\ pc' = [pc EXCEPT ![p] = IF pc[p] = "asleep" THEN "in" ELSE pc[p]]
        /\ UNCHANGED <<buf, r, w, e, conslock, dst>>
    BY <1>9 DEF kill
  <2>2. Holders'
    BY <1>1, <1>2, <2>1 DEF Holders
  <2>3. pc' \in [Readers -> Stages]
    BY <1>1, <2>1 DEF Stages
  <2> QED
    BY <1>1, <2>1, <2>2, <2>3, RingUntouched
<1> QED
  BY <1>4, <1>5, <1>6, <1>7, <1>8, <1>9

\* A character is taken: whoever sleeps finds the ring as empty as before, because there
\* is nobody.
LEMMA TakeInv ==
  ASSUME ConsoleInv, NEW p \in Readers, takeChar(p)
  PROVE  ConsoleInv'
<1>1. /\ buf \in [0 .. INPUT_BUF - 1 -> Kept]
      /\ pc \in [Readers -> Stages] /\ dst \in [Readers -> Seq(Kept)]
      /\ conslock \in {"free"} \cup Readers /\ "free" \notin Readers
      /\ r \in Indices /\ w \in Indices /\ e \in Indices
  BY ConsoleAssumption DEF ConsoleInv, Shape
<1>2. \A q \in Readers : /\ pc[q] \in {"full", "sleepy"} => conslock = q
                         /\ pc[q] \in {"sleepy", "asleep"} => r = w
  BY DEF ConsoleInv, Holders
<1>3. pc[p] = "in" /\ conslock = p /\ r # w /\ UNCHANGED <<buf, w, e>>
  BY DEF takeChar
<1>4. at(r) \in 0 .. INPUT_BUF - 1
  <2>1. r \in Int /\ INPUT_BUF \in Nat \ {0}
    BY <1>1, Sizes DEF Indices
  <2> QED
    BY <2>1, Remainder, Zenon DEF at
<1>5. inc(r) \in Indices /\ minus(w, inc(r)) = minus(w, r) - 1
  BY <1>1, <1>3, Shortened
<1>6. PICK k \in Nat, l \in Nat : k = minus(w, r) /\ l = minus(e, w) /\ k + l <= INPUT_BUF
  BY Distances DEF ConsoleInv
<1>7. INPUT_BUF \in Nat /\ k - 1 + l <= INPUT_BUF
  BY <1>6, Sizes
<1>8. r' \in Indices /\ minus(w, r') + minus(e, w) <= INPUT_BUF
  <2>1. r' = r \/ r' = inc(r)
    BY DEF takeChar, eofAt
  <2> QED
    BY <1>1, <1>5, <1>6, <1>7, <2>1
<1>9. EditPlain'
  BY <1>3 DEF ConsoleInv, EditPlain, minus, at
<1>10. \A q \in Readers : q # p => pc[q] \notin {"full", "sleepy", "asleep"}
  BY <1>2, <1>3
<1>11. /\ pc' \in [Readers -> Stages] /\ dst' \in [Readers -> Seq(Kept)]
       /\ conslock' \in {"free"} \cup Readers
       /\ Holders'
  <2>1. CASE done(p)
    <3>1. /\ pc' = [pc EXCEPT ![p] = "out"] /\ conslock' = "free"
          /\ dst' = [dst EXCEPT ![p] = <<>>]
      BY <2>1 DEF done
    <3>2. pc' \in [Readers -> Stages] /\ dst' \in [Readers -> Seq(Kept)]
      <4>1. <<>> \in Seq(Kept)
        OBVIOUS
      <4> QED
        BY <1>1, <3>1, <4>1 DEF Stages
    <3>3. Holders'
      BY <1>1, <1>10, <3>1 DEF Holders
    <3> QED
      BY <3>1, <3>2, <3>3
  <2>2. CASE /\ dst' = [dst EXCEPT ![p] = Append(@, buf[at(r)])]
             /\ pc' = [pc EXCEPT ![p] = IF buf[at(r)] = "nl" \/ n[p] = 1 THEN "full" ELSE @]
             /\ UNCHANGED conslock
    <3>1. dst' \in [Readers -> Seq(Kept)]
      <4>1. buf[at(r)] \in Kept /\ dst[p] \in Seq(Kept)
        BY <1>1, <1>4
      <4>2. Append(dst[p], buf[at(r)]) \in Seq(Kept)
        BY <4>1, AppendProperties, Zenon
      <4> QED
        BY <1>1, <2>2, <4>2
    <3>2. PICK x \in {"full", "in"} : pc' = [pc EXCEPT ![p] = x]
      <4>1. pc' = [pc EXCEPT ![p] = "full"] \/ pc' = [pc EXCEPT ![p] = pc[p]]
        BY <2>2
      <4> QED
        BY <1>3, <4>1
    <3>3. pc' \in [Readers -> Stages]
      BY <1>1, <3>2 DEF Stages
    <3>4. Holders'
      BY <1>1, <1>3, <1>10, <2>2, <3>2 DEF Holders
    <3> QED
      BY <1>1, <2>2, <3>1, <3>3, <3>4
  <2> QED
    BY <2>1, <2>2 DEF takeChar
<1>12. Shape'
  <2>1. minus(w', r') + minus(e', w') <= INPUT_BUF
    BY <1>3, <1>8
  <2> QED
    BY <1>1, <1>3, <1>8, <1>11, <2>1, Zenon DEF Shape
<1> QED
  BY <1>9, <1>11, <1>12 DEF ConsoleInv

\* What a character that fits changes: the slots in use keep what they have, and the ring
\* is full exactly when the code says so.
LEMMA Written ==
  ASSUME Shape, NEW c, minus(e, r) < INPUT_BUF, buf' = [buf EXCEPT ![at(e)] = c]
  PROVE  /\ \A k \in 1 .. minus(w, r) : buf'[at(r + k - 1)] = buf[at(r + k - 1)]
         /\ \A k \in 1 .. minus(e, w) : buf'[at(w + k - 1)] = buf[at(w + k - 1)]
         /\ buf'[at(e)] = c
         /\ inc(e) \in Indices /\ minus(inc(e), r) = minus(e, r) + 1
         /\ minus(inc(e), w) = minus(e, w) + 1
         /\ inc(e) = (r + INPUT_BUF) % UintRange <=> minus(e, r) + 1 = INPUT_BUF
<1>1. /\ buf \in [0 .. INPUT_BUF - 1 -> Kept]
      /\ r \in Indices /\ w \in Indices /\ e \in Indices
  BY DEF Shape
<1>2. /\ \A k \in 1 .. minus(w, r) : buf'[at(r + k - 1)] = buf[at(r + k - 1)]
      /\ \A k \in 1 .. minus(e, w) : buf'[at(w + k - 1)] = buf[at(w + k - 1)]
      /\ buf'[at(e)] = c
  <2>1. /\ at(e) \in 0 .. INPUT_BUF - 1
        /\ \A k \in 1 .. minus(w, r) : /\ at(r + k - 1) \in 0 .. INPUT_BUF - 1
                                       /\ at(r + k - 1) # at(e)
        /\ \A k \in 1 .. minus(e, w) : /\ at(w + k - 1) \in 0 .. INPUT_BUF - 1
                                       /\ at(w + k - 1) # at(e)
    BY Slots, Zenon
  <2>2. \A x \in 0 .. INPUT_BUF - 1 : buf'[x] = IF x = at(e) THEN c ELSE buf[x]
    BY <1>1, Zenon
  <2> QED
    BY <2>1, <2>2, Zenon
<1>3. PICK a \in Nat, b \in Nat :
        a = minus(w, r) /\ b = minus(e, w) /\ minus(e, r) = a + b
  BY Distances, Zenon
<1>4. INPUT_BUF \in Nat /\ INPUT_BUF < UintRange /\ UintRange \in Nat /\ a + b < INPUT_BUF
  BY <1>3, Sizes
<1>5. a + b + 1 < UintRange /\ b + 1 < UintRange /\ INPUT_BUF \in Indices
  BY <1>4 DEF Indices
<1>6. inc(e) \in Indices /\ minus(inc(e), r) = minus(e, r) + 1
  BY <1>1, <1>3, <1>5, Grown
<1>7. minus(inc(e), w) = minus(e, w) + 1
  BY <1>1, <1>3, <1>5, Grown
<1>8. inc(e) = (r + INPUT_BUF) % UintRange <=> minus(e, r) + 1 = INPUT_BUF
  <2>1. PICK j \in Indices : j = (r + INPUT_BUF) % UintRange /\ minus(j, r) = INPUT_BUF
    BY <1>1, <1>5, Advanced, Zenon
  <2>2. minus(inc(e), r) = INPUT_BUF => inc(e) = j
    BY <1>1, <1>6, <2>1, SameIndex, Zenon
  <2> QED
    BY <1>6, <2>1, <2>2, Zenon
<1> QED
  BY <1>2, <1>6, <1>7, <1>8, Zenon

\* A character is stored, and the readers are woken when there is something for them.
LEMMA StoreInv ==
  ASSUME ConsoleInv, NEW c \in Letters \cup {"nl", "eof"}, store(c), conslock = "free",
         UNCHANGED <<r, conslock, dst>>
  PROVE  ConsoleInv'
<1>1. /\ buf \in [0 .. INPUT_BUF - 1 -> Kept]
      /\ pc \in [Readers -> Stages] /\ dst \in [Readers -> Seq(Kept)]
      /\ r \in Indices /\ w \in Indices /\ e \in Indices
      /\ Shape /\ EditPlain /\ "free" \notin Readers
  BY ConsoleAssumption DEF ConsoleInv, Shape
<1>2. \A q \in Readers : /\ pc[q] \notin {"full", "sleepy"}
                         /\ pc[q] \in {"sleepy", "asleep"} => r = w
  BY <1>1 DEF ConsoleInv, Holders
<1>3. CASE ~(minus(e, r) < INPUT_BUF)
  <2>1. UNCHANGED <<buf, r, w, e, pc, conslock, dst>>
    BY <1>3 DEF store
  <2> QED
    BY <1>1, <1>2, <2>1, RingUntouched DEF Holders, ConsoleInv, Shape
<1>4. CASE minus(e, r) < INPUT_BUF
  <2>1. buf' = [buf EXCEPT ![at(e)] = c] /\ e' = inc(e)
    BY <1>4 DEF store
  <2>2. /\ \A k \in 1 .. minus(e, w) : buf'[at(w + k - 1)] = buf[at(w + k - 1)]
        /\ buf'[at(e)] = c
        /\ inc(e) \in Indices /\ minus(inc(e), r) = minus(e, r) + 1
        /\ minus(inc(e), w) = minus(e, w) + 1
    BY <1>1, <1>4, <2>1, Written
  <2>3. PICK a \in Nat, b \in Nat :
          a = minus(w, r) /\ b = minus(e, w) /\ minus(e, r) = a + b
    BY <1>1, Distances, Zenon
  <2>4. INPUT_BUF \in Nat /\ a + b < INPUT_BUF /\ a + b + 1 <= INPUT_BUF
    BY <1>4, <2>3, Sizes
  <2>5. buf' \in [0 .. INPUT_BUF - 1 -> Kept]
    BY <1>1, <2>1 DEF Kept
  <2>6. CASE w' = inc(e) /\ pc' = wakeup
    <3>1. minus(w', r') + minus(e', w') <= INPUT_BUF /\ minus(e', w') = 0
      <4>1. minus(e', w') = 0
        BY <2>1, <2>2, <2>6, Ahead
      <4>2. minus(w', r') = a + b + 1
        BY <2>2, <2>3, <2>6
      <4> QED
        BY <2>4, <4>1, <4>2
    <3>2. pc' \in [Readers -> Stages] /\ \A q \in Readers : pc'[q] \notin {"full", "sleepy", "asleep"}
      BY <1>1, <1>2, <2>6 DEF wakeup, Stages
    <3>3. Shape'
      BY <1>1, <2>1, <2>2, <2>5, <2>6, <3>1, <3>2 DEF Shape
    <3>4. EditPlain'
      BY <3>1 DEF EditPlain
    <3>5. Holders'
      BY <3>2 DEF Holders
    <3> QED
      BY <3>3, <3>4, <3>5 DEF ConsoleInv
  <2>7. CASE c \notin {"nl", "eof"} /\ UNCHANGED <<w, pc>>
    <3>1. minus(w', r') + minus(e', w') <= INPUT_BUF /\ minus(e', w') = b + 1
      <4>1. minus(e', w') = b + 1
        BY <2>1, <2>2, <2>3, <2>7
      <4>2. minus(w', r') = a
        BY <2>3, <2>7
      <4> QED
        BY <2>4, <4>1, <4>2
    <3>2. Shape'
      BY <1>1, <2>1, <2>2, <2>5, <2>7, <3>1 DEF Shape
    <3>3. ASSUME NEW k \in 1 .. b + 1 PROVE buf'[at(w + k - 1)] # "nl"
      <4>1. CASE k \in 1 .. b
        <5>1. buf[at(w + k - 1)] # "nl"
          BY <1>1, <2>3, <4>1 DEF EditPlain
        <5> QED
          BY <2>2, <2>3, <4>1, <5>1
      <4>2. CASE k = b + 1
        <5>1. w + k - 1 = w + b
          BY <4>2, <1>1, Distances
        <5>2. at(w + b) = at(e)
          BY <1>1, <2>3, Slots
        <5> QED
          BY <2>2, <2>7, <5>1, <5>2
      <4> QED
        BY <4>1, <4>2
    <3>4. EditPlain'
      <4>1. \A k \in 1 .. minus(e', w') : buf'[at(w' + k - 1)] # "nl"
        BY <2>7, <3>1, <3>3
      <4> QED
        BY <4>1, Zenon DEF EditPlain, at, minus
    <3>5. Holders'
      BY <1>2, <2>7 DEF Holders
    <3> QED
      BY <3>2, <3>4, <3>5 DEF ConsoleInv
  <2> QED
    BY <1>4, <2>6, <2>7 DEF store
<1> QED
  BY <1>3, <1>4

\* An erased character is the last of those that are edited.
LEMMA Erased ==
  ASSUME Shape, e # w
  PROVE  dec(e) \in Indices /\ minus(dec(e), w) = minus(e, w) - 1 /\ minus(e, w) >= 1
<1>1. PICK b \in Nat : b = minus(e, w)
  BY Distances, Zenon
<1>2. w \in Indices /\ e \in Indices
  BY DEF Shape
<1>3. b # 0
  BY <1>1, <1>2, Ahead, Zenon
<1>4. b >= 1
  BY <1>3
<1>5. minus(e, 1) \in Indices /\ minus(minus(e, 1), w) = minus(e, w) - 1
  BY <1>1, <1>2, <1>4, Retreated
<1> QED
  BY <1>1, <1>4, <1>5 DEF dec, minus

\* ^U goes back to w: nothing in between ends a line.
LEMMA KilledLine ==
  ASSUME Shape, EditPlain
  PROVE  minus(e, editStart) = w
<1>1. w \in Indices /\ e \in Indices
  BY DEF Shape
<1>2. PICK b \in Nat : b = minus(e, w)
  BY Distances, Zenon
<1> DEFINE Back == {k \in 0 .. minus(e, w) : \A i \in 1 .. k : buf[at(minus(e, i))] # "nl"}
<1>3. ASSUME NEW i \in 1 .. b PROVE buf[at(minus(e, i))] # "nl"
  <2>1. PICK j \in Indices : j = minus(e, i) /\ minus(j, w) = b - i
    <3>1. i \in Nat /\ i <= minus(e, w)
      BY <1>2
    <3> QED
      BY <1>1, <1>2, <3>1, Retreated
  <2>2. /\ b - i + 1 \in 1 .. b /\ j \in Int /\ w \in Int /\ 0 \in Int /\ j + 0 = j
        /\ w + (b - i) + 0 = w + (b - i + 1) - 1
    BY <1>1, Distances, Sizes DEF Indices
  <2>3. at(j + 0) = at(w + minus(j, w) + 0)
    BY <1>1, <2>2, SlotAhead, Zenon
  <2>4. at(j) = at(w + (b - i + 1) - 1)
    BY <2>1, <2>2, <2>3, Zenon
  <2>5. buf[at(w + (b - i + 1) - 1)] # "nl"
    BY <1>2, <2>2, Zenon DEF EditPlain
  <2> QED
    BY <2>1, <2>4, <2>5, Zenon
<1>4. b \in Back /\ \A j \in Back : j <= b /\ j \in Int
  BY <1>2, <1>3
<1>5. editStart = CHOOSE k \in Back : \A j \in Back : j <= k
  BY Zenon DEF editStart
<1> HIDE DEF Back
<1>6. editStart \in Back /\ \A j \in Back : j <= editStart
  <2>1. \E k \in Back : \A j \in Back : j <= k
    BY <1>4
  <2> QED
    BY <1>5, <2>1, Zenon
<1>7. editStart = b
  BY <1>4, <1>6
<1>8. PICK j \in Indices : j = minus(e, b) /\ minus(j, w) = 0
  <2>1. b <= minus(e, w) /\ b - b = 0
    BY <1>2
  <2> QED
    BY <1>1, <1>2, <2>1, Retreated
<1>9. j = w
  BY <1>1, <1>8, Ahead
<1> QED
  BY <1>7, <1>8, <1>9

\* Erasing takes from the line being edited, and from nothing else.
LEMMA EditInv ==
  ASSUME ConsoleInv, killLine \/ erase, UNCHANGED <<r, conslock, dst>>
  PROVE  ConsoleInv'
<1>1. Shape /\ EditPlain /\ Holders /\ UNCHANGED <<buf, w, pc>>
  BY DEF ConsoleInv, killLine, erase
<1>2. PICK a \in Nat, b \in Nat : a = minus(w, r) /\ b = minus(e, w) /\ a + b <= INPUT_BUF
  BY <1>1, Distances, Zenon
<1>3. PICK d \in 0 .. b : e' \in Indices /\ minus(e', w) = d
  <2>1. w \in Indices /\ e \in Indices
    BY <1>1 DEF Shape
  <2>2. minus(w, w) = 0 /\ 0 \in 0 .. b /\ b \in 0 .. b
    BY <1>2, <2>1, Ahead
  <2>3. CASE killLine
    BY <1>1, <2>1, <2>2, <2>3, KilledLine DEF killLine
  <2>4. CASE erase /\ e # w
    <3>1. e' = dec(e)
      BY <2>4 DEF erase
    <3>2. b - 1 \in 0 .. b
      BY <1>1, <1>2, <2>4, Erased
    <3> QED
      BY <1>1, <1>2, <2>4, <3>1, <3>2, Erased
  <2>5. CASE erase /\ e = w
    BY <1>2, <2>1, <2>2, <2>5 DEF erase
  <2> QED
    BY <2>3, <2>4, <2>5
<1>4. minus(w', r') + minus(e', w') <= INPUT_BUF
  <2>1. INPUT_BUF \in Nat /\ a + d <= INPUT_BUF
    BY <1>2, <1>3, Sizes
  <2> QED
    BY <1>1, <1>2, <1>3, <2>1
<1>5. Shape'
  BY <1>1, <1>3, <1>4 DEF Shape
<1>6. EditPlain'
  <2>1. \A k \in 1 .. d : buf[at(w + k - 1)] # "nl"
    BY <1>1, <1>2 DEF EditPlain
  <2>2. \A k \in 1 .. minus(e', w') : buf'[at(w' + k - 1)] # "nl"
    BY <1>1, <1>3, <2>1
  <2> QED
    BY <2>2, Zenon DEF EditPlain, at, minus
<1>7. Holders'
  BY <1>1 DEF Holders
<1> QED
  BY <1>5, <1>6, <1>7 DEF ConsoleInv

\* A character comes over the serial line.
LEMMA InterruptInv ==
  ASSUME ConsoleInv, NEW c \in Characters, consoleintr(c)
  PROVE  ConsoleInv'
<1>1. conslock = "free" /\ UNCHANGED <<r, conslock, dst>>
  BY DEF consoleintr
<1>2. CASE UNCHANGED <<buf, e, w, pc>>
  <2>1. Holders'
    BY <1>1, <1>2 DEF ConsoleInv, Holders
  <2> QED
    BY <1>1, <1>2, <2>1, RingUntouched DEF ConsoleInv, Shape
<1>3. CASE killLine \/ erase
  BY <1>1, <1>3, EditInv
<1>4. CASE /\ c \notin {"nul", "dump", "kill", "erase"}
           /\ store(IF c = "cr" THEN "nl" ELSE c)
  <2>1. PICK x \in Letters \cup {"nl", "eof"} : x = IF c = "cr" THEN "nl" ELSE c
    BY <1>4 DEF Characters
  <2>2. store(x)
    BY <1>4, <2>1
  <2> QED
    BY <1>1, <2>2, StoreInv
<1> QED
  BY <1>2, <1>3, <1>4 DEF consoleintr

\* Every step preserves the invariant.
LEMMA ConsoleNextInv == ConsoleInv /\ [ConsoleNext]_consoleVars => ConsoleInv'
<1> SUFFICES ASSUME ConsoleInv, [ConsoleNext]_consoleVars PROVE ConsoleInv'
  OBVIOUS
<1>1. CASE ConsoleNext
  <2>1. CASE \E c \in Characters : consoleintr(c)
    BY <2>1, InterruptInv
  <2>2. ASSUME NEW s \in Lines, consolewrite(s) PROVE ConsoleInv'
    <3>1. UNCHANGED <<buf, r, w, e, conslock, pc, dst>>
      BY <2>2 DEF consolewrite
    <3> QED
      BY <3>1, RingUntouched DEF ConsoleInv, Shape, Holders
  <2>3. ASSUME NEW p \in Readers,
               (\E k \in 1 .. MaxRead : consoleread(p, k)) \/ Reading(p) \/ kill(p)
        PROVE  ConsoleInv'
    BY <2>3, CallInv, TakeInv DEF Reading
  <2> QED
    BY <1>1, <2>1, <2>2, <2>3 DEF ConsoleNext
<1>2. CASE UNCHANGED consoleVars
  BY <1>2, RingUntouched DEF ConsoleInv, Shape, Holders, consoleVars
<1> QED
  BY <1>1, <1>2

\* In every behaviour, always.
LEMMA ConsoleInvAlways == ConsoleSpec => []ConsoleInv
  BY ConsoleInitInv, ConsoleNextInv, PTL DEF ConsoleSpec

-----------------------------------------------------------------------------
(* What readers are promised. *)

\* console.c:236-271: nobody sleeps on the console while there is something to read, even
\* if it is killed between its test and its sleep, where kill() takes no lock.
THEOREM NobodySleepsForever == ConsoleSpec => []NobodySleepsOnInput
<1>1. ConsoleInv => NobodySleepsOnInput
  BY DEF ConsoleInv, Holders, NobodySleepsOnInput
<1> QED
  BY <1>1, ConsoleInvAlways, PTL

-----------------------------------------------------------------------------
(* The ring as a line buffer. *)

\* Two sequences of the same length with the same elements are equal.
LEMMA SeqIs ==
  ASSUME NEW S, NEW a \in Seq(S), NEW b \in Seq(S), NEW l \in Nat, Len(a) = l, Len(b) = l,
         \A k \in 1 .. l : a[k] = b[k]
  PROVE  a = b
  BY SeqEqual

\* What is ready and what is edited, element by element.
SlicesOK ==
    /\ slice(r, w) \in Seq(Kept) /\ Len(slice(r, w)) = minus(w, r)
    /\ \A k \in 1 .. minus(w, r) : slice(r, w)[k] = buf[at(r + k - 1)]
    /\ slice(w, e) \in Seq(Kept) /\ Len(slice(w, e)) = minus(e, w)
    /\ \A k \in 1 .. minus(e, w) : slice(w, e)[k] = buf[at(w + k - 1)]

\* A slice is a sequence of what is stored.
LEMMA Slices == Shape => SlicesOK
<1> SUFFICES ASSUME Shape PROVE SlicesOK
  OBVIOUS
<1>1. buf \in [0 .. INPUT_BUF - 1 -> Kept]
  BY DEF Shape
<1>2. PICK a \in Nat, b \in Nat : a = minus(w, r) /\ b = minus(e, w)
  BY Distances, Zenon
<1>3. /\ \A k \in 1 .. a : at(r + k - 1) \in 0 .. INPUT_BUF - 1
      /\ \A k \in 1 .. b : at(w + k - 1) \in 0 .. INPUT_BUF - 1
  BY <1>2, Slots, Zenon
<1>4. /\ slice(r, w) = [k \in 1 .. a |-> buf[at(r + k - 1)]]
      /\ slice(w, e) = [k \in 1 .. b |-> buf[at(w + k - 1)]]
  BY <1>2, Zenon DEF slice
<1>5. \A k \in 1 .. a : buf[at(r + k - 1)] \in Kept
  BY <1>1, <1>3
<1>6. \A k \in 1 .. b : buf[at(w + k - 1)] \in Kept
  BY <1>1, <1>3
<1>7. slice(r, w) \in [1 .. a -> Kept]
  BY <1>4, <1>5, Zenon
<1>8. slice(w, e) \in [1 .. b -> Kept]
  BY <1>4, <1>6, Zenon
<1>9. slice(r, w) \in Seq(Kept) /\ Len(slice(r, w)) = a
  BY <1>2, <1>7
<1>10. slice(w, e) \in Seq(Kept) /\ Len(slice(w, e)) = b
  BY <1>2, <1>8
<1> QED
  BY <1>2, <1>4, <1>9, <1>10, Zenon DEF SlicesOK

\* What is typed is at the end of the line being edited, and makes it readable when it ends
\* it or fills the ring; when the ring is full it is dropped.
LEMMA StoreTypes ==
  ASSUME ConsoleInv, ConsoleInv', NEW c \in Letters \cup {"nl", "eof"}, store(c),
         UNCHANGED <<r, dst>>
  PROVE  Abstract!Type(c) \/ UNCHANGED Abstract!vars
<1>1. CASE ~(minus(e, r) < INPUT_BUF)
  <2>1. UNCHANGED <<buf, r, w, e, dst>>
    BY <1>1 DEF store
  <2>2. UNCHANGED Abstract!vars
    BY <2>1 DEF Abstract!vars, slice, minus, at
  <2> QED
    BY <2>2
<1>2. CASE minus(e, r) < INPUT_BUF
  <2>1. buf' = [buf EXCEPT ![at(e)] = c] /\ e' = inc(e) /\ Shape /\ c \in Kept
    BY <1>2 DEF store, ConsoleInv, Kept
  <2>2. PICK a \in Nat, b \in Nat :
          a = minus(w, r) /\ b = minus(e, w) /\ minus(e, r) = a + b
    BY <2>1, Distances, Zenon
  <2>3. PICK ready \in Seq(Kept), edit \in Seq(Kept) :
          /\ ready = slice(r, w) /\ Len(ready) = a
          /\ \A k \in 1 .. a : ready[k] = buf[at(r + k - 1)]
          /\ edit = slice(w, e) /\ Len(edit) = b
          /\ \A k \in 1 .. b : edit[k] = buf[at(w + k - 1)]
    BY <2>1, <2>2, Slices, Zenon DEF SlicesOK
  <2>4. SlicesOK'
    BY Slices, PTL DEF ConsoleInv
  <2>5. /\ \A k \in 1 .. a : buf'[at(r + k - 1)] = ready[k]
        /\ \A k \in 1 .. b : buf'[at(w + k - 1)] = edit[k]
        /\ buf'[at(e)] = c
        /\ minus(inc(e), r) = a + b + 1 /\ minus(inc(e), w) = b + 1
        /\ inc(e) = (r + INPUT_BUF) % UintRange <=> a + b + 1 = INPUT_BUF
    BY <1>2, <2>1, <2>2, <2>3, Written
  <2>6. /\ at(e) = at(r + (a + b)) /\ at(e) = at(w + b)
        /\ \A k \in 1 .. b : at(w + k - 1) = at(r + (a + k) - 1)
    BY <2>1, <2>2, Slots
  <2>7. r \in Int /\ w \in Int /\ a + b < INPUT_BUF /\ INPUT_BUF \in Nat
    BY <1>2, <2>1, <2>2, Distances
  <2>8. /\ Append(edit, c) \in Seq(Kept) /\ Len(Append(edit, c)) = b + 1
        /\ \A k \in 1 .. b : Append(edit, c)[k] = edit[k]
        /\ Append(edit, c)[b + 1] = c
    BY <2>1, <2>3, AppendProperties
  <2>9. CASE w' = inc(e) /\ (c \in {"nl", "eof"} \/ a + b + 1 = INPUT_BUF)
    <3>1. /\ slice(r, w)' \in Seq(Kept) /\ Len(slice(r, w)') = a + b + 1
          /\ \A k \in 1 .. a + b + 1 : slice(r, w)'[k] = buf'[at(r + k - 1)]
      <4>1. /\ slice(r, w)' \in Seq(Kept) /\ Len(slice(r, w)') = minus(w', r')
            /\ \A k \in 1 .. minus(w', r') : slice(r, w)'[k] = buf'[at(r' + k - 1)]
        BY <2>4, Zenon DEF SlicesOK, minus, at
      <4>2. minus(w', r') = a + b + 1 /\ r' = r
        BY <2>5, <2>9
      <4> QED
        BY <4>1, <4>2
    <3>2. /\ ready \o Append(edit, c) \in Seq(Kept) /\ Len(ready \o Append(edit, c)) = a + b + 1
          /\ \A k \in 1 .. a + b + 1 : (ready \o Append(edit, c))[k] =
                IF k <= a THEN ready[k] ELSE Append(edit, c)[k - a]
      <4>1. PICK t \in Seq(Kept) : t = Append(edit, c)
        BY <2>8, Zenon
      <4>2. Len(t) = b + 1 /\ Len(ready) = a
        BY <2>3, <2>8, <4>1
      <4>3. /\ ready \o t \in Seq(Kept) /\ Len(ready \o t) = a + (b + 1)
            /\ \A k \in 1 .. a + (b + 1) : (ready \o t)[k] =
                  IF k <= a THEN ready[k] ELSE t[k - a]
        <5>1. Len(ready \o t) = Len(ready) + Len(t)
              /\ \A k \in 1 .. Len(ready) + Len(t) : (ready \o t)[k] =
                    IF k <= Len(ready) THEN ready[k] ELSE t[k - Len(ready)]
          BY ConcatProperties, Zenon
        <5>2. ready \o t \in Seq(Kept)
          BY ConcatProperties, Zenon
        <5> QED
          BY <4>2, <5>1, <5>2, Zenon
      <4>4. a + (b + 1) = a + b + 1
        BY <2>2
      <4> QED
        BY <4>1, <4>3, <4>4
    <3>3. ASSUME NEW k \in 1 .. a + b + 1
          PROVE  slice(r, w)'[k] = (ready \o Append(edit, c))[k]
      <4>1. CASE k <= a
        <5>1. k \in 1 .. a
          BY <4>1
        <5> QED
          BY <2>5, <3>1, <3>2, <4>1, <5>1
      <4>2. CASE k \in a + 1 .. a + b
        <5>1. PICK x \in 1 .. b : x = k - a
          BY <4>2
        <5>2. k = a + x /\ ~(k <= a)
          BY <5>1
        <5>3. at(r + k - 1) = at(w + x - 1)
          BY <2>6, <5>2
        <5>4. slice(r, w)'[k] = edit[x]
          BY <2>5, <3>1, <5>3
        <5> QED
          BY <2>8, <3>2, <5>1, <5>2, <5>4
      <4>3. CASE k = a + b + 1
        <5>1. r + k - 1 = r + (a + b) /\ k - a = b + 1 /\ ~(k <= a)
          BY <2>7, <4>3
        <5>2. slice(r, w)'[k] = c
          BY <2>5, <2>6, <3>1, <5>1
        <5> QED
          BY <2>8, <3>2, <5>1, <5>2
      <4>4. k <= a \/ k \in a + 1 .. a + b \/ k = a + b + 1
        BY SMTT(30), <2>2
      <4> QED
        BY <4>1, <4>2, <4>3, <4>4, Zenon
    <3>4. slice(r, w)' = ready \o Append(edit, c)
      <4>1. a + b + 1 \in Nat
        OBVIOUS
      <4> QED
        BY <3>1, <3>2, <3>3, <4>1, SeqIs, Zenon
    <3>5. slice(w, e)' = <<>>
      <4>1. slice(w, e)' \in Seq(Kept) /\ Len(slice(w, e)') = minus(e', w')
        BY <2>4, Zenon DEF SlicesOK, minus
      <4>2. minus(e', w') = 0
        <5>1. e' \in Indices /\ e' = w'
          BY <2>1, <2>9 DEF ConsoleInv, Shape
        <5> QED
          BY <5>1, Ahead
      <4> QED
        BY <4>1, <4>2, EmptySeq
    <3> QED
      BY <2>3, <2>7, <2>9, <3>4, <3>5 DEF Abstract!Type
  <2>10. CASE c \notin {"nl", "eof"} /\ ~(a + b + 1 = INPUT_BUF) /\ w' = w
    <3>1. /\ slice(r, w)' \in Seq(Kept) /\ Len(slice(r, w)') = a
          /\ \A k \in 1 .. a : slice(r, w)'[k] = buf'[at(r + k - 1)]
          /\ slice(w, e)' \in Seq(Kept) /\ Len(slice(w, e)') = b + 1
          /\ \A k \in 1 .. b + 1 : slice(w, e)'[k] = buf'[at(w + k - 1)]
      <4>1. /\ slice(r, w)' \in Seq(Kept) /\ Len(slice(r, w)') = minus(w', r')
            /\ \A k \in 1 .. minus(w', r') : slice(r, w)'[k] = buf'[at(r' + k - 1)]
            /\ slice(w, e)' \in Seq(Kept) /\ Len(slice(w, e)') = minus(e', w')
            /\ \A k \in 1 .. minus(e', w') : slice(w, e)'[k] = buf'[at(w' + k - 1)]
        BY <2>4, Zenon DEF SlicesOK, minus, at
      <4>2. minus(w', r') = a /\ r' = r /\ minus(e', w') = b + 1
        BY <2>1, <2>2, <2>5, <2>10
      <4> QED
        BY <2>10, <4>1, <4>2
    <3>2. slice(r, w)' = ready
      <4>1. a \in Nat /\ ready \in Seq(Kept) /\ Len(ready) = a
            /\ \A k \in 1 .. a : slice(r, w)'[k] = ready[k]
        BY <2>2, <2>3, <2>5, <3>1
      <4> QED
        BY <3>1, <4>1, SeqIs, Zenon
    <3>3. slice(w, e)' = Append(edit, c)
      <4>1. ASSUME NEW k \in 1 .. b + 1 PROVE slice(w, e)'[k] = Append(edit, c)[k]
        <5>1. CASE k \in 1 .. b
          BY <2>5, <2>8, <3>1, <5>1
        <5>2. CASE k = b + 1
          <6>1. w + k - 1 = w + b
            BY <2>7, <5>2
          <6> QED
            BY <2>5, <2>6, <2>8, <3>1, <5>2, <6>1
        <5>3. k \in 1 .. b \/ k = b + 1
          BY <2>2
        <5> QED
          BY <5>1, <5>2, <5>3, Zenon
      <4>2. b + 1 \in Nat
        OBVIOUS
      <4> QED
        BY <2>8, <3>1, <4>1, <4>2, SeqIs, Zenon
    <3> QED
      BY <2>3, <2>7, <2>10, <3>2, <3>3 DEF Abstract!Type
  <2> QED
    BY <1>2, <2>2, <2>5, <2>9, <2>10 DEF store
<1> QED
  BY <1>1, <1>2

\* A sequence without its last element.
LEMMA LastDropped ==
  ASSUME NEW S, NEW s \in Seq(S), NEW l \in Nat, Len(s) = l + 1
  PROVE  /\ SubSeq(s, 1, l) \in Seq(S) /\ Len(SubSeq(s, 1, l)) = l
         /\ \A k \in 1 .. l : SubSeq(s, 1, l)[k] = s[k]
  OBVIOUS

\* A sequence without its first element.
LEMMA FirstDropped ==
  ASSUME NEW S, NEW s \in Seq(S), NEW l \in Nat, Len(s) = l + 1
  PROVE  /\ Tail(s) \in Seq(S) /\ Len(Tail(s)) = l
         /\ \A k \in 1 .. l : Tail(s)[k] = s[k + 1]
  OBVIOUS

\* A step that leaves what is ready and what is edited alone.
LEMMA SlicesUntouched ==
  ASSUME UNCHANGED <<buf, r, w, e>>
  PROVE  slice(r, w)' = slice(r, w) /\ slice(w, e)' = slice(w, e)
  BY DEF slice, minus, at

\* Backspace takes the last character that is edited, ^U all of them.
LEMMA EditErases ==
  ASSUME ConsoleInv, ConsoleInv', killLine \/ erase, UNCHANGED <<r, dst>>
  PROVE  Abstract!Erase \/ Abstract!KillLine \/ UNCHANGED Abstract!vars
<1>1. Shape /\ EditPlain /\ UNCHANGED <<buf, r, w, dst>>
  BY DEF ConsoleInv, killLine, erase
<1>2. slice(r, w)' = slice(r, w)
  BY <1>1 DEF slice, minus, at
<1>3. /\ slice(w, e)' \in Seq(Kept) /\ Len(slice(w, e)') = minus(e', w')
      /\ \A k \in 1 .. minus(e', w') : slice(w, e)'[k] = buf'[at(w' + k - 1)]
  <2>1. SlicesOK'
    BY Slices, PTL DEF ConsoleInv
  <2> QED
    BY <2>1, Zenon DEF SlicesOK, minus, at
<1>4. CASE killLine
  <2>1. e' = w' /\ w' \in Indices
    BY <1>1, <1>4, KilledLine DEF killLine, Shape
  <2>2. minus(e', w') = 0
    BY <2>1, Ahead
  <2>3. slice(w, e)' = <<>>
    BY <1>3, <2>2, EmptySeq
  <2> QED
    BY <1>1, <1>2, <2>3 DEF Abstract!KillLine
<1>5. CASE erase /\ e # w
  <2>1. PICK b \in Nat : b = minus(e, w)
    BY <1>1, Distances, Zenon
  <2>2. e' = dec(e) /\ minus(e', w') = b - 1 /\ b >= 1
    BY <1>1, <1>5, <2>1, Erased DEF erase
  <2>3. PICK edit \in Seq(Kept) :
          /\ edit = slice(w, e) /\ Len(edit) = b
          /\ \A k \in 1 .. b : edit[k] = buf[at(w + k - 1)]
    BY <1>1, <2>1, Slices, Zenon DEF SlicesOK
  <2>4. PICK s \in Seq(Kept) : s = SubSeq(edit, 1, b - 1) /\ Len(s) = b - 1
          /\ \A k \in 1 .. b - 1 : s[k] = edit[k]
    <3>1. b - 1 \in Nat /\ Len(edit) = (b - 1) + 1
      BY <2>1, <2>2, <2>3
    <3>2. /\ SubSeq(edit, 1, b - 1) \in Seq(Kept) /\ Len(SubSeq(edit, 1, b - 1)) = b - 1
          /\ \A k \in 1 .. b - 1 : SubSeq(edit, 1, b - 1)[k] = edit[k]
      BY <3>1, LastDropped
    <3> QED
      BY <3>2, Zenon
  <2>5. /\ slice(w, e)' \in Seq(Kept) /\ Len(slice(w, e)') = b - 1
        /\ \A k \in 1 .. b - 1 : slice(w, e)'[k] = buf[at(w + k - 1)]
    BY <1>1, <1>3, <2>2
  <2>6. b - 1 \in Nat /\ \A k \in 1 .. b - 1 : slice(w, e)'[k] = s[k]
    BY SMTT(30), <2>1, <2>2, <2>3, <2>4, <2>5
  <2>7. slice(w, e)' = s
    BY <2>4, <2>5, <2>6, SeqIs, Zenon
  <2>8. edit # <<>>
    BY <2>2, <2>3
  <2>9. slice(w, e)' = SubSeq(slice(w, e), 1, Len(slice(w, e)) - 1) /\ slice(w, e) # <<>>
    BY <2>3, <2>4, <2>7, <2>8, Zenon
  <2> QED
    BY <1>1, <1>2, <2>9, Zenon DEF Abstract!Erase
<1>6. CASE erase /\ e = w
  <2>1. UNCHANGED <<buf, r, w, e, dst>>
    BY <1>1, <1>6 DEF erase
  <2> QED
    BY <2>1, SlicesUntouched DEF Abstract!vars
<1> QED
  BY <1>4, <1>5, <1>6

\* The call of p is over.
LEMMA DoneReturns ==
  ASSUME NEW p \in Readers, done(p), UNCHANGED <<buf, r, w, e>>
  PROVE  Abstract!Return(p)
  BY SlicesUntouched DEF done, Abstract!Return

\* A character is taken from the front; an end of file ends the read, and is taken only if
\* the read has nothing.
LEMMA TakeTakes ==
  ASSUME ConsoleInv, ConsoleInv', NEW p \in Readers, takeChar(p)
  PROVE  Abstract!Take(p) \/ Abstract!TakeEof(p) \/ Abstract!Return(p)
<1>1. r # w /\ UNCHANGED <<buf, w, e>> /\ Shape
  BY DEF takeChar, ConsoleInv
<1>2. PICK a \in Nat : a = minus(w, r)
  BY <1>1, Distances, Zenon
<1>3. inc(r) \in Indices /\ minus(w, inc(r)) = a - 1 /\ a - 1 \in Nat
  <2>1. r \in Indices /\ w \in Indices
    BY <1>1 DEF Shape
  <2>2. a # 0
    BY <1>1, <1>2, <2>1, Ahead, Zenon
  <2> QED
    BY <1>1, <1>2, <2>1, <2>2, Shortened
<1>4. PICK ready \in Seq(Kept) :
        /\ ready = slice(r, w) /\ Len(ready) = a
        /\ \A k \in 1 .. a : ready[k] = buf[at(r + k - 1)]
  BY <1>1, <1>2, Slices, Zenon DEF SlicesOK
<1>5. ready # <<>> /\ Head(ready) = buf[at(r)]
  <2>1. 1 \in 1 .. a /\ r + 1 - 1 = r
    BY <1>1, <1>3, Distances
  <2>2. ready[1] = buf[at(r)]
    BY <1>4, <2>1
  <2> QED
    BY <1>3, <1>4, <2>1, <2>2
<1>6. slice(w, e)' = slice(w, e)
  BY <1>1 DEF slice, minus, at
<1>7. ASSUME r' = inc(r)
      PROVE  slice(r, w)' = Tail(ready)
  <2>1. /\ slice(r, w)' \in Seq(Kept) /\ Len(slice(r, w)') = minus(w', r')
        /\ \A k \in 1 .. minus(w', r') : slice(r, w)'[k] = buf'[at(r' + k - 1)]
    <3>1. SlicesOK'
      BY Slices, PTL DEF ConsoleInv
    <3> QED
      BY <3>1, Zenon DEF SlicesOK, minus, at
  <2>2. minus(w', r') = a - 1
    BY <1>1, <1>3, <1>7
  <2>3. /\ slice(r, w)' \in Seq(Kept) /\ Len(slice(r, w)') = a - 1
        /\ \A k \in 1 .. a - 1 : slice(r, w)'[k] = buf[at(inc(r) + k - 1)]
    BY <1>1, <1>7, <2>1, <2>2
  <2>4. PICK t \in Seq(Kept) : t = Tail(ready) /\ Len(t) = a - 1
          /\ \A k \in 1 .. a - 1 : t[k] = ready[k + 1]
    <3>1. Len(ready) = (a - 1) + 1
      BY <1>2, <1>4
    <3>2. /\ Tail(ready) \in Seq(Kept) /\ Len(Tail(ready)) = a - 1
          /\ \A k \in 1 .. a - 1 : Tail(ready)[k] = ready[k + 1]
      BY <1>3, <3>1, FirstDropped
    <3> QED
      BY <3>2, Zenon
  <2>5. ASSUME NEW k \in 1 .. a - 1 PROVE slice(r, w)'[k] = t[k]
    <3>1. /\ k + 1 \in 1 .. a /\ k - 1 \in Int /\ r + 1 \in Int /\ inc(r) \in Int
          /\ r + 1 + (k - 1) = r + (k + 1) - 1 /\ inc(r) + k - 1 = inc(r) + (k - 1)
      <4>1. r \in Int /\ inc(r) \in Int
        BY <1>1, <1>3, Distances DEF Indices
      <4>2. PICK i \in Int : i = inc(r)
        BY <4>1, Zenon
      <4>3. i + k - 1 = i + (k - 1) /\ k + 1 \in 1 .. a /\ k - 1 \in Int
        BY <1>2, <4>2
      <4> QED
        BY <4>1, <4>2, <4>3
    <3>2. at(((r + 1) % UintRange) + (k - 1)) = at(r + 1 + (k - 1))
      BY <3>1, WrapHarmless, Zenon
    <3>3. at(inc(r) + k - 1) = at(r + (k + 1) - 1)
      BY <3>1, <3>2, Zenon DEF inc
    <3> QED
      BY Zenon, <1>4, <2>3, <2>4, <3>1, <3>3
  <2> QED
    BY <1>3, <2>3, <2>4, <2>5, SeqIs, Zenon
<1>8. CASE buf[at(r)] = "eof" /\ r' = eofAt(p) /\ done(p)
  <2>1. CASE dst[p] # <<>>
    BY <1>1, <1>8, <2>1, DoneReturns DEF eofAt
  <2>2. CASE dst[p] = <<>>
    <3>1. r' = inc(r)
      BY <1>8, <2>2 DEF eofAt
    <3>2. dst' = dst
      <4>1. dst \in [Readers -> Seq(Kept)] /\ dst' = [dst EXCEPT ![p] = <<>>]
        BY <1>1, <1>8 DEF Shape, done
      <4> QED
        BY <2>2, <4>1
    <3> QED
      BY <1>4, <1>5, <1>6, <1>7, <1>8, <2>2, <3>1, <3>2 DEF Abstract!TakeEof
  <2> QED
    BY <2>1, <2>2
<1>9. CASE /\ buf[at(r)] # "eof" /\ r' = inc(r)
           /\ dst' = [dst EXCEPT ![p] = Append(@, buf[at(r)])]
  BY <1>4, <1>5, <1>6, <1>7, <1>9 DEF Abstract!Take
<1> QED
  BY <1>8, <1>9 DEF takeChar

\* Every step is one of the line buffer, or changes nothing of it.
LEMMA ConsoleStep ==
  ASSUME ConsoleInv, ConsoleInv', [ConsoleNext]_consoleVars
  PROVE  [Abstract!Next]_Abstract!vars
<1>1. ASSUME UNCHANGED <<buf, r, w, e, dst>>
      PROVE  UNCHANGED Abstract!vars
  BY <1>1, SlicesUntouched DEF Abstract!vars
<1>2. ASSUME NEW c \in Characters, consoleintr(c)
      PROVE  [Abstract!Next]_Abstract!vars
  <2>1. UNCHANGED <<r, dst>>
    BY <1>2 DEF consoleintr
  <2>2. CASE UNCHANGED <<buf, e, w>>
    BY <1>1, <2>1, <2>2
  <2>3. CASE killLine \/ erase
    <3>1. Abstract!Erase \/ Abstract!KillLine \/ UNCHANGED Abstract!vars
      BY <2>1, <2>3, EditErases
    <3> QED
      BY <3>1 DEF Abstract!Next
  <2>4. CASE /\ c \notin {"nul", "dump", "kill", "erase"}
             /\ store(IF c = "cr" THEN "nl" ELSE c)
    <3>1. PICK x \in Letters \cup {"nl", "eof"} : x = IF c = "cr" THEN "nl" ELSE c
      BY <2>4 DEF Characters
    <3>2. Abstract!Type(x) \/ UNCHANGED Abstract!vars
      BY <2>1, <2>4, <3>1, StoreTypes
    <3> QED
      BY <3>2 DEF Abstract!Next
  <2> QED
    BY <1>2, <2>2, <2>3, <2>4 DEF consoleintr
<1>3. ASSUME NEW p \in Readers, Reading(p)
      PROVE  [Abstract!Next]_Abstract!vars
  <2>1. CASE takeChar(p)
    BY <2>1, TakeTakes DEF Abstract!Next
  <2>2. CASE leave(p) \/ (testKilled(p) /\ done(p))
    <3>1. Abstract!Return(p)
      BY <2>2, DoneReturns DEF leave, testKilled
    <3> QED
      BY <3>1 DEF Abstract!Next
  <2>3. CASE acquire(p) \/ sleep(p) \/ (testKilled(p) /\ UNCHANGED dst)
    BY <1>1, <2>3 DEF acquire, sleep, testKilled
  <2> QED
    BY <1>3, <2>1, <2>2, <2>3 DEF Reading, testKilled
<1>4. ASSUME NEW p \in Readers, (\E k \in 1 .. MaxRead : consoleread(p, k)) \/ kill(p)
      PROVE  [Abstract!Next]_Abstract!vars
  BY <1>1, <1>4 DEF consoleread, kill
<1>5. ASSUME NEW s \in Lines, consolewrite(s)
      PROVE  [Abstract!Next]_Abstract!vars
  BY <1>1, <1>5 DEF consolewrite
<1>6. CASE UNCHANGED consoleVars
  BY <1>1, <1>6 DEF consoleVars
<1> QED
  BY <1>2, <1>3, <1>4, <1>5, <1>6 DEF ConsoleNext

\* console.c:186-276: the ring, across the wrap-around of its indices and with the end of
\* file that is put back, is a line buffer: no character is lost, repeated or out of order.
THEOREM ConsoleIsALineBuffer == ConsoleSpec => ImplementsLineBuffer
<1>1. ConsoleInit => Abstract!Init
  <2> SUFFICES ASSUME ConsoleInit PROVE Abstract!Init
    OBVIOUS
  <2>1. SlicesOK
    BY ConsoleInitInv, Slices DEF ConsoleInv
  <2>2. minus(w, r) = 0 /\ minus(e, w) = 0
    <3>1. 0 \in Indices
      BY Sizes DEF Indices
    <3> QED
      BY <3>1, Ahead DEF ConsoleInit
  <2>3. slice(r, w) = <<>> /\ slice(w, e) = <<>>
    BY <2>1, <2>2, EmptySeq DEF SlicesOK
  <2> QED
    BY <2>3 DEF ConsoleInit, Abstract!Init
<1>2. ConsoleInv /\ ConsoleInv' /\ [ConsoleNext]_consoleVars => [Abstract!Next]_Abstract!vars
  BY ConsoleStep
<1> QED
  BY <1>1, <1>2, ConsoleInvAlways, PTL DEF ConsoleSpec, ImplementsLineBuffer, Abstract!Spec

-----------------------------------------------------------------------------
(* The messages of a window. *)

\* What the owner test of sys_GUI_getMessage() provides, and the popup's buffer lacks: two
\* processes that poll it may both see its last message.
SingleConsumer == \A c, d \in Consumers : c = d

\* The inductive invariant: RingOK alone is not inductive, because a take from
\* an empty buffer would break it; CheckStillHolds excludes that take.
RingInv == QueueTypeOK /\ RingOK /\ CheckStillHolds

\* Advance() stays inside the array and is addition modulo MSG_BUF_SIZE.
LEMMA AdvanceType == \A i \in RingSlots : Advance(i) \in RingSlots
  BY SizeAssumption DEF Advance, RingSlots

\* The state wmInit() leaves (a zeroed static array) satisfies the invariant.
LEMMA RingInitInv == QueueInit => RingInv
  BY SizeAssumption DEF QueueInit, RingInv, QueueTypeOK, RingOK, CheckStillHolds, RingSlots, SlotOf

\* No operation of the buffer breaks the invariant.
LEMMA RingNextInv == ASSUME SingleConsumer PROVE RingInv /\ [QueueNext]_queueVars => RingInv'
<1> SUFFICES ASSUME RingInv, [QueueNext]_queueVars PROVE RingInv'
  OBVIOUS
<1> USE SizeAssumption
<1>1. ASSUME NEW m \in Messages, dispatchMessage(m) PROVE RingInv'
  <2>1. CASE cnt >= MSG_BUF_SIZE
    BY <1>1, <2>1 DEF RingInv, QueueTypeOK, RingOK, CheckStillHolds, SlotOf, dispatchMessage
  <2>2. CASE ~(cnt >= MSG_BUF_SIZE)
    <3>1. /\ cnt' = cnt + 1 /\ rear' = Advance(rear) /\ front' = front /\ getting' = getting
          /\ result' = result /\ slots' = [slots EXCEPT ![rear] = m]
      BY <1>1, <2>2 DEF dispatchMessage
    <3>2. QueueTypeOK'
      BY <3>1, <2>2, AdvanceType DEF RingInv, QueueTypeOK, RingSlots
    <3>3. CheckStillHolds'
      BY <3>1 DEF RingInv, QueueTypeOK, CheckStillHolds
    <3>4. RingOK'
      <4>1. rear = SlotOf(cnt)
        BY <2>2 DEF RingInv, QueueTypeOK, RingOK
      <4>2. (IF cnt = MSG_BUF_SIZE THEN rear = front ELSE rear = SlotOf(cnt))'
        BY <4>1, <3>1, <2>2 DEF RingInv, QueueTypeOK, SlotOf, Advance, RingSlots
      <4>3. ASSUME NEW i \in 0 .. cnt PROVE slots'[SlotOf(i)] \in Messages
        <5>1. SlotOf(i) \in RingSlots
          BY <2>2 DEF RingInv, QueueTypeOK, SlotOf, RingSlots
        <5>2. CASE i = cnt
          BY <5>1, <5>2, <4>1, <3>1 DEF RingInv, QueueTypeOK
        <5>3. CASE i # cnt
          <6>1. SlotOf(i) # rear
            BY <5>3, <4>1, <2>2 DEF RingInv, QueueTypeOK, SlotOf, RingSlots
          <6>2. slots[SlotOf(i)] \in Messages
            BY <5>3 DEF RingInv, QueueTypeOK, RingOK
          <6> QED
            BY <5>1, <6>1, <6>2, <3>1 DEF RingInv, QueueTypeOK
        <5> QED
          BY <5>2, <5>3
      <4> QED
        BY <4>2, <4>3, <3>1 DEF RingOK, SlotOf, RingInv, QueueTypeOK
    <3> QED
      BY <3>2, <3>3, <3>4 DEF RingInv
  <2> QED
    BY <2>1, <2>2
<1>2. ASSUME NEW c \in Consumers, getMessageCheck(c) PROVE RingInv'
  <2>1. cnt > 0
    BY <1>2 DEF getMessageCheck, RingInv, QueueTypeOK
  <2> QED
    BY <1>2, <2>1 DEF getMessageCheck, RingInv, QueueTypeOK, RingOK, CheckStillHolds, SlotOf
<1>3. ASSUME NEW c \in Consumers, getMessageTake(c) PROVE RingInv'
  <2>1. cnt > 0
    BY <1>3 DEF getMessageTake, RingInv, CheckStillHolds
  <2>2. slots[front] \in Messages
    <3>1. SlotOf(0) = front
      BY DEF RingInv, QueueTypeOK, SlotOf, RingSlots
    <3> QED
      BY <2>1, <3>1 DEF RingInv, QueueTypeOK, RingOK
  <2>3. QueueTypeOK'
    BY <1>3, <2>1, <2>2, AdvanceType DEF getMessageTake, RingInv, QueueTypeOK
  <2>4. CheckStillHolds'
    BY <1>3, SingleConsumer DEF SingleConsumer, getMessageTake, RingInv, QueueTypeOK, CheckStillHolds
  <2>5. RingOK'
    <3>1. \A i \in 0 .. cnt - 1 : SlotOf(i)' = SlotOf(i + 1)
      BY <1>3, <2>1 DEF getMessageTake, RingInv, QueueTypeOK, SlotOf, RingSlots, Advance
    <3>2. \A i \in 0 .. cnt - 2 : slots'[SlotOf(i)'] \in Messages
      BY <3>1, <1>3, <2>1 DEF getMessageTake, RingInv, QueueTypeOK, RingOK
    <3>3. (IF cnt = MSG_BUF_SIZE THEN rear = front ELSE rear = SlotOf(cnt))'
      BY <1>3, <2>1 DEF getMessageTake, RingInv, QueueTypeOK, RingOK, SlotOf, RingSlots, Advance
    <3> QED
      BY <3>2, <3>3, <1>3 DEF getMessageTake, RingOK, RingInv, QueueTypeOK
  <2> QED
    BY <2>3, <2>4, <2>5 DEF RingInv
<1>4. ASSUME NEW c \in Consumers, initMessageQueue(c) PROVE RingInv'
  <2>1. \A d \in Consumers : getting'[d] = "poll"
    BY <1>4, SingleConsumer DEF SingleConsumer, initMessageQueue
  <2> QED
    BY <1>4, <2>1 DEF initMessageQueue, RingInv, QueueTypeOK, RingOK, CheckStillHolds, SlotOf, RingSlots
<1>5. CASE UNCHANGED queueVars
  BY <1>5 DEF queueVars, RingInv, QueueTypeOK, RingOK, CheckStillHolds, SlotOf
<1> QED
  BY <1>1, <1>2, <1>3, <1>4, <1>5 DEF QueueNext

\* At every moment the counters of a window's buffer agree with its content and
\* the unlocked test of getMessage() is still true when the message is taken.
THEOREM RingSafe ==
  ASSUME SingleConsumer
  PROVE  QueueSpec => []QueueSafe
<1>1. QueueInit => RingInv
  BY RingInitInv
<1>2. RingInv /\ [QueueNext]_queueVars => RingInv'
  BY RingNextInv
<1> QED
  BY <1>1, <1>2, PTL DEF QueueSpec, RingInv, QueueSafe

-----------------------------------------------------------------------------
\* Queued is the sequence of the cnt messages between front and rear.
QueuedOK == /\ Queued \in Seq(Messages)
            /\ Len(Queued) = cnt
            /\ cnt \in Nat
            /\ \A i \in 1 .. cnt : Queued[i] = slots[SlotOf(i - 1)]

\* The waiting messages form a sequence of messages of the length cnt.
LEMMA QueuedSeq == RingInv => QueuedOK
<1> SUFFICES ASSUME RingInv PROVE QueuedOK
  OBVIOUS
<1>1. \A i \in 1 .. cnt : slots[SlotOf(i - 1)] \in Messages
  BY DEF RingInv, QueueTypeOK, RingOK
<1>2. cnt \in Nat
  BY SizeAssumption DEF RingInv, QueueTypeOK
<1> QED
  BY <1>1, <1>2 DEF Queued, QueuedOK

\* The initial state maps to an empty FIFO.
LEMMA InitFifo == QueueInit => Fifo!FifoInit
<1> SUFFICES ASSUME QueueInit PROVE Fifo!FifoInit
  OBVIOUS
<1>1. Queued = <<>>
  BY DEF QueueInit, Queued
<1> QED
  BY <1>1, NoMsgAssumption DEF QueueInit, Fifo!FifoInit

\* Every step of the ring buffer maps to a step of the FIFO or to a stutter.
LEMMA NextFifo == ASSUME RingInv, RingInv', [QueueNext]_queueVars
                  PROVE  [Fifo!FifoNext]_(Fifo!fifoVars)
<1> USE SizeAssumption
<1> DEFINE W == Queued
<1>a. QueuedOK /\ QueuedOK'
  BY QueuedSeq, PTL
<1>0. /\ W \in Seq(Messages) /\ Len(W) = cnt /\ cnt \in Nat
      /\ \A i \in 1 .. cnt : W[i] = slots[SlotOf(i - 1)]
  BY <1>a DEF QueuedOK
<1>00. /\ W' \in Seq(Messages) /\ Len(W') = cnt' /\ cnt' \in Nat
       /\ \A i \in 1 .. cnt' : W'[i] = slots'[SlotOf(i - 1)']
  BY <1>a DEF QueuedOK, SlotOf
<1>1. ASSUME NEW m \in Messages, dispatchMessage(m) PROVE Fifo!Put(m)
  <2>1. CASE cnt >= MSG_BUF_SIZE
    <3>1. UNCHANGED <<slots, front, cnt>> /\ result' = result
      BY <1>1, <2>1 DEF dispatchMessage
    <3>2. W' = W
      BY <3>1 DEF Queued, SlotOf
    <3> QED
      BY <3>1, <3>2, <1>0, <2>1 DEF Fifo!Put, RingInv, QueueTypeOK
  <2>2. CASE ~(cnt >= MSG_BUF_SIZE)
    <3>1. /\ cnt' = cnt + 1 /\ front' = front /\ result' = result
          /\ slots' = [slots EXCEPT ![rear] = m]
      BY <1>1, <2>2 DEF dispatchMessage
    <3>2. rear = SlotOf(cnt) /\ rear \in RingSlots
      BY <2>2 DEF RingInv, QueueTypeOK, RingOK
    <3>3. ASSUME NEW i \in 1 .. cnt + 1
          PROVE  W'[i] = IF i = cnt + 1 THEN m ELSE W[i]
      <4>1. W'[i] = slots'[SlotOf(i - 1)]
        BY <1>00, <3>1 DEF SlotOf
      <4>2. CASE i = cnt + 1
        BY <4>1, <4>2, <3>1, <3>2, <1>0 DEF RingInv, QueueTypeOK
      <4>3. CASE i # cnt + 1
        <5>1. i \in 1 .. cnt /\ SlotOf(i - 1) # rear
          BY <4>3, <3>2, <2>2 DEF RingInv, QueueTypeOK, SlotOf, RingSlots
        <5> QED
          BY <5>1, <4>1, <4>3, <3>1, <1>0 DEF RingInv, QueueTypeOK
      <4> QED
        BY <4>2, <4>3
    <3>4. W' = Append(W, m)
      <4>1. Append(W, m) \in Seq(Messages) /\ Len(Append(W, m)) = cnt + 1
        BY <1>0
      <4>2. \A i \in 1 .. cnt + 1 : W'[i] = Append(W, m)[i]
        BY <3>3, <1>0
      <4> HIDE DEF W
      <4> QED
        BY <4>1, <4>2, <1>00, <3>1
    <3> QED
      BY <3>1, <3>4, <1>0, <2>2 DEF Fifo!Put, RingInv, QueueTypeOK
  <2> QED
    BY <2>1, <2>2
<1>2. ASSUME NEW c \in Consumers, getMessageCheck(c) PROVE UNCHANGED Fifo!fifoVars
  BY <1>2 DEF getMessageCheck, Queued, SlotOf, Fifo!fifoVars
<1>3. ASSUME NEW c \in Consumers, getMessageTake(c) PROVE Fifo!Get
  <2>1. cnt > 0 /\ cnt' = cnt - 1 /\ slots' = slots /\ result' = slots[front]
    BY <1>3 DEF getMessageTake, RingInv, CheckStillHolds
  <2>2. W # <<>> /\ Head(W) = slots[front]
    <3>1. SlotOf(0) = front
      BY DEF RingInv, QueueTypeOK, SlotOf, RingSlots
    <3>2. W[1] = slots[front]
      BY <3>1, <1>0, <2>1
    <3> HIDE DEF W
    <3> QED
      BY <3>2, <1>0, <2>1
  <2>3. W' = Tail(W)
    <3>1. \A i \in 1 .. cnt - 1 : SlotOf(i - 1)' = SlotOf(i)
      BY <1>3, <2>1 DEF getMessageTake, RingInv, QueueTypeOK, SlotOf, RingSlots, Advance
    <3>2. ASSUME NEW i \in 1 .. cnt - 1 PROVE W'[i] = W[i + 1]
      <4>1. i \in 1 .. cnt' /\ i + 1 \in 1 .. cnt /\ (i + 1) - 1 = i
        BY <2>1, <1>0
      <4>2. W'[i] = slots'[SlotOf(i - 1)'] /\ W[i + 1] = slots[SlotOf((i + 1) - 1)]
        BY <4>1, <1>0, <1>00
      <4> HIDE DEF W
      <4> QED
        BY <4>1, <4>2, <3>1, <2>1
    <3>3. Tail(W) \in Seq(Messages) /\ Len(Tail(W)) = cnt - 1
      BY <1>0, <2>1, <2>2
    <3>4. \A i \in 1 .. cnt - 1 : Tail(W)[i] = W[i + 1]
      BY <1>0, <2>2
    <3> HIDE DEF W
    <3> QED
      BY <3>2, <3>3, <3>4, <1>00, <2>1
  <2> QED
    BY <2>1, <2>2, <2>3 DEF Fifo!Get
<1>4. ASSUME NEW c \in Consumers, initMessageQueue(c) PROVE Fifo!Clear
  <2>1. cnt' = 0 /\ result' = result
    BY <1>4 DEF initMessageQueue
  <2>2. W' = <<>>
    BY <2>1 DEF Queued
  <2> QED
    BY <2>1, <2>2 DEF Fifo!Clear
<1>5. CASE UNCHANGED queueVars
  BY <1>5 DEF queueVars, Queued, SlotOf, Fifo!fifoVars
<1> QED
  BY <1>1, <1>2, <1>3, <1>4, <1>5 DEF QueueNext, Fifo!FifoNext

\* The message buffer of a window is a bounded FIFO, for every capacity.
THEOREM RingImplementsFifo ==
  ASSUME SingleConsumer
  PROVE  QueueSpec => ImplementsFifo
<1>1. QueueInit => Fifo!FifoInit
  BY InitFifo
<1>2. RingInv /\ RingInv' /\ [QueueNext]_queueVars => [Fifo!FifoNext]_(Fifo!fifoVars)
  BY NextFifo
<1>3. QueueSpec => []RingInv
  BY RingSafe, PTL DEF RingInv, QueueSafe
<1> QED
  BY <1>1, <1>2, <1>3, PTL DEF QueueSpec, ImplementsFifo, Fifo!FifoSpec
=============================================================================
