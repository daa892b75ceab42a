------------------------- MODULE WindowManagerProofs -------------------------
(***************************************************************************)
(* For every number of windows: what the operations on the window list do   *)
(* to the z-order it represents; the list on its own keeps representing it  *)
(* while the bottom-most window is not closed.  For every number of         *)
(* programs and events and every size of the message buffers: the window    *)
(* manager keeps its list, what it draws has a living owner, and it fails   *)
(* in the known ways only.                                                  *)
(***************************************************************************)
EXTENDS WindowManager, WindowList, FiniteSetTheorems, TLAPS

\* The list represents some z-order.
Ordered(L) == \E s \in Seq(Slots) : Represents(L, s)

\* R is a strict order that goes with next, as far as next leads to another slot.
Along(R, next) == /\ \A x \in Slots : next[x] \in Slots \ {x} => <<x, next[x]>> \in R
                  /\ \A x \in Slots : <<x, x>> \notin R
                  /\ \A x, y, z \in Slots : <<x, y>> \in R /\ <<y, z>> \in R => <<x, z>> \in R

\* What is left of the shape of the list when its head was closed: whoever has a prev is
\* the next of that, nothing follows the tail, following next one never comes back, and a
\* slot whose prev is the slot itself is free.
Chained(L) ==
    /\ L \in Lists
    /\ \A x \in Slots : L.prev[x] \in Slots \ {x} => L.next[L.prev[x]] = x
    /\ L.tail # None => L.next[L.tail] = None
    /\ \E R \in SUBSET (Slots \X Slots) : Along(R, L.next)
    /\ \A x \in Slots : L.prev[x] = x => L.next[x] = x

\* The windows of a z-order are slots of the array.
LEMMA SlotFacts ==
  ASSUME NEW s \in Seq(Slots), NEW k \in 1 .. Len(s)
  PROVE  s[k] \in Slots /\ s[k] # None /\ s # <<>> /\ s[k] \in Elems(s)
<1>1. s[k] \in Slots
  OBVIOUS
<1>2. None \notin Slots
  BY DEF None, Slots
<1>3. s[k] \in Elems(s)
  BY DEF Elems
<1>4. s # <<>>
  OBVIOUS
<1> QED
  BY <1>1, <1>2, <1>3, <1>4

\* What remains of a z-order when its k-th window is taken out.
LEMMA WithoutSeq ==
  ASSUME NEW s \in Seq(Slots), NoDuplicates(s), NEW k \in 1 .. Len(s)
  PROVE  /\ Without(s, k) \in Seq(Slots)
         /\ Len(Without(s, k)) = Len(s) - 1
         /\ \A j \in 1 .. Len(s) - 1 : Without(s, k)[j] = IF j < k THEN s[j] ELSE s[j + 1]
         /\ NoDuplicates(Without(s, k))
         /\ Elems(Without(s, k)) = Elems(s) \ {s[k]}
<1> DEFINE w == Without(s, k)
<1>1. w \in Seq(Slots) /\ Len(w) = Len(s) - 1
  BY DEF Without
<1>2. \A j \in 1 .. Len(s) - 1 : w[j] = IF j < k THEN s[j] ELSE s[j + 1]
  BY DEF Without
<1> HIDE DEF w
<1>3. NoDuplicates(w)
  <2> SUFFICES ASSUME NEW j \in 1 .. Len(s) - 1, NEW l \in 1 .. Len(s) - 1, w[j] = w[l]
               PROVE  j = l
    BY <1>1 DEF NoDuplicates
  <2> DEFINE orig(n) == IF n < k THEN n ELSE n + 1
  <2>1. w[j] = s[orig(j)] /\ w[l] = s[orig(l)]
    BY <1>2
  <2>2. orig(j) \in 1 .. Len(s) /\ orig(l) \in 1 .. Len(s)
    OBVIOUS
  <2>3. orig(j) = orig(l)
    <3> HIDE DEF orig
    <3> QED
      BY <2>1, <2>2 DEF NoDuplicates
  <2> QED
    BY <2>3
<1>4. Elems(w) = Elems(s) \ {s[k]}
  <2>1. ASSUME NEW x \in Elems(w) PROVE x \in Elems(s) \ {s[k]}
    <3>1. PICK j \in 1 .. Len(s) - 1 : x = w[j]
      BY <1>1 DEF Elems
    <3>2. CASE j < k
      BY <3>1, <3>2, <1>2 DEF Elems, NoDuplicates
    <3>3. CASE ~(j < k)
      <4>1. x = s[j + 1] /\ j + 1 \in 1 .. Len(s) /\ j + 1 # k
        BY <3>1, <3>3, <1>2
      <4> QED
        BY <4>1 DEF Elems, NoDuplicates
    <3> QED
      BY <3>2, <3>3
  <2>2. ASSUME NEW x \in Elems(s) \ {s[k]} PROVE x \in Elems(w)
    <3>1. PICK j \in 1 .. Len(s) : x = s[j]
      BY DEF Elems
    <3>2. CASE j < k
      <4>1. j \in 1 .. Len(w) /\ w[j] = x
        BY <3>1, <3>2, <1>1, <1>2
      <4> QED
        BY <4>1 DEF Elems
    <3>3. CASE ~(j < k)
      <4>1. j - 1 \in 1 .. Len(w) /\ w[j - 1] = x
        BY <3>1, <3>3, <1>1, <1>2
      <4> QED
        BY <4>1 DEF Elems
    <3> QED
      BY <3>2, <3>3
  <2> QED
    BY <2>1, <2>2
<1> QED
  BY <1>1, <1>2, <1>3, <1>4 DEF w

\* addToWindowList() appends a window to the z-order.
LEMMA AddRepresents ==
  ASSUME NEW L \in Lists, NEW s \in Seq(Slots), NEW i \in Slots \ Elems(s),
         LinksOK(L, s), NoDuplicates(s), OthersFree(L, Elems(s) \cup {i}),
         IF s = <<>> THEN L.head = i /\ L.tail = None
                     ELSE L.head = s[1] /\ L.tail = s[Len(s)]
  PROVE  LET M == addToWindowList(L, i)
             t == Append(s, i)
         IN  /\ M \in Lists /\ t \in Seq(Slots)
             /\ LinksOK(M, t) /\ EndsOK(M, t) /\ NoDuplicates(t)
             /\ OthersFree(M, Elems(t))
<1> DEFINE M == addToWindowList(L, i)
           t == Append(s, i)
<1>1. /\ t \in Seq(Slots) /\ Len(t) = Len(s) + 1 /\ t[Len(s) + 1] = i /\ t # <<>>
      /\ \A j \in 1 .. Len(s) : t[j] = s[j] /\ s[j] \in Slots /\ s[j] # i
  <2>1. \A j \in 1 .. Len(s) : s[j] \in Slots /\ s[j] # i
    BY DEF Elems
  <2>2. t \in Seq(Slots) /\ Len(t) = Len(s) + 1
    OBVIOUS
  <2>3. t[Len(s) + 1] = i /\ \A j \in 1 .. Len(s) : t[j] = s[j]
    OBVIOUS
  <2>4. t # <<>>
    BY <2>2
  <2> QED
    BY <2>1, <2>2, <2>3, <2>4
<1>2. /\ M.head = L.head /\ M.tail = i
      /\ M.prev = [L.prev EXCEPT ![i] = L.tail]
      /\ M.next = store([L.next EXCEPT ![i] = None], L.tail, i)
      /\ M = [head |-> M.head, tail |-> M.tail, next |-> M.next, prev |-> M.prev]
  BY DEF addToWindowList
<1> HIDE DEF M, t
<1>3. Elems(t) = Elems(s) \cup {i}
  BY <1>1 DEF Elems
<1>4. L.tail # i
  BY <1>1 DEF None, Slots
<1>5. /\ M.next \in [Slots -> Slots \cup {None}] /\ M.prev \in [Slots -> Slots \cup {None}]
      /\ M.next[i] = None /\ M.prev[i] = L.tail
      /\ \A j \in Slots \ {i} : /\ M.prev[j] = L.prev[j]
                                /\ M.next[j] = IF j = L.tail THEN i ELSE L.next[j]
  <2>1. CASE L.tail = None
    <3>1. M.next = [L.next EXCEPT ![i] = None] /\ M.prev = [L.prev EXCEPT ![i] = L.tail]
      BY <1>2, <2>1 DEF store
    <3>2. \A j \in Slots : j # L.tail
      BY <2>1 DEF None, Slots
    <3> QED
      BY <3>1, <3>2, <2>1 DEF Lists
  <2>2. CASE L.tail # None
    BY <1>2, <1>4, <2>2 DEF Lists, store
  <2> QED
    BY <2>1, <2>2
<1>6. M \in Lists
  BY <1>2, <1>5 DEF Lists
<1>7. NoDuplicates(t)
  BY <1>1 DEF NoDuplicates
<1>8. EndsOK(M, t)
  <2>1. CASE s = <<>>
    BY <1>1, <1>2, <2>1 DEF EndsOK
  <2>2. CASE s # <<>>
    BY <1>1, <1>2, <2>2 DEF EndsOK
  <2> QED
    BY <2>1, <2>2
<1>9. LinksOK(M, t)
  <2> SUFFICES ASSUME NEW k \in 1 .. Len(s) + 1
               PROVE  /\ M.next[t[k]] = (IF k = Len(t) THEN None ELSE t[k + 1])
                      /\ M.prev[t[k]] = (IF k = 1 THEN None ELSE t[k - 1])
    BY <1>1 DEF LinksOK
  <2>1. CASE k = Len(s) + 1
    <3>1. L.tail = IF k = 1 THEN None ELSE s[k - 1]
      BY <2>1
    <3> QED
      BY <2>1, <3>1, <1>1, <1>5
  <2>2. CASE k = Len(s) /\ k # Len(s) + 1
    <3>1. s[k] = L.tail
      BY <2>2
    <3> QED
      BY <2>2, <3>1, <1>1, <1>5 DEF LinksOK
  <2>3. CASE k # Len(s) /\ k # Len(s) + 1
    <3>1. s[k] # L.tail
      BY <2>3 DEF NoDuplicates
    <3> QED
      BY <2>3, <3>1, <1>1, <1>5 DEF LinksOK
  <2> QED
    BY <2>1, <2>2, <2>3
<1>10. OthersFree(M, Elems(t))
  <2> SUFFICES ASSUME NEW j \in Slots \ (Elems(s) \cup {i}) PROVE isFree(M, j)
    BY <1>3 DEF OthersFree
  <2>1. L.prev[j] = j /\ L.next[j] = j
    BY DEF OthersFree, isFree
  <2>2. j # L.tail
    BY DEF Elems, None, Slots
  <2> QED
    BY <2>1, <2>2, <1>5 DEF isFree
<1> QED
  BY <1>1, <1>6, <1>7, <1>8, <1>9, <1>10 DEF M, t

\* Linking the two neighbours of a window to each other, as removeFromWindowList()
\* and focusWindow() do, takes it out of the z-order and leaves the rest alone.
LEMMA BypassRepresents ==
  ASSUME NEW L \in Lists, NEW s \in Seq(Slots), NoDuplicates(s), LinksOK(L, s),
         OthersFree(L, Elems(s)), NEW k \in 1 .. Len(s), NEW M,
         M.next = store(L.next, L.prev[s[k]], L.next[s[k]]),
         M.prev = store(L.prev, L.next[s[k]], L.prev[s[k]])
  PROVE  /\ M.next \in [Slots -> Slots \cup {None}]
         /\ M.prev \in [Slots -> Slots \cup {None}]
         /\ LinksOK(M, Without(s, k))
         /\ OthersFree(M, Elems(s))
<1> DEFINE i == s[k]
           a == L.prev[i]
           b == L.next[i]
           w == Without(s, k)
<1>0. \A j \in 1 .. Len(s) : s[j] \in Slots /\ s[j] # None
  BY SlotFacts
<1>1. /\ a = (IF k = 1 THEN None ELSE s[k - 1])
      /\ b = (IF k = Len(s) THEN None ELSE s[k + 1])
  BY DEF LinksOK
<1>2. a \in Slots \cup {None} /\ b \in Slots \cup {None}
  BY <1>0, <1>1
<1>3. /\ M.next \in [Slots -> Slots \cup {None}]
      /\ \A j \in Slots : M.next[j] = IF j = a THEN b ELSE L.next[j]
  <2>1. CASE a = None
    BY <2>1 DEF store, Lists, None, Slots
  <2>2. CASE a # None
    BY <2>2, <1>2 DEF store, Lists
  <2> QED
    BY <2>1, <2>2
<1>4. /\ M.prev \in [Slots -> Slots \cup {None}]
      /\ \A j \in Slots : M.prev[j] = IF j = b THEN a ELSE L.prev[j]
  <2>1. CASE b = None
    BY <2>1 DEF store, Lists, None, Slots
  <2>2. CASE b # None
    BY <2>2, <1>2 DEF store, Lists
  <2> QED
    BY <2>1, <2>2
<1>5. /\ Len(w) = Len(s) - 1
      /\ \A j \in 1 .. Len(s) - 1 : w[j] = IF j < k THEN s[j] ELSE s[j + 1]
  BY WithoutSeq
<1> HIDE DEF i, a, b, w
<1>6. LinksOK(M, w)
  <2> SUFFICES ASSUME NEW j \in 1 .. Len(s) - 1
               PROVE  /\ M.next[w[j]] = (IF j = Len(s) - 1 THEN None ELSE w[j + 1])
                      /\ M.prev[w[j]] = (IF j = 1 THEN None ELSE w[j - 1])
    BY <1>5 DEF LinksOK
  <2> DEFINE o == IF j < k THEN j ELSE j + 1
  <2>1. o \in 1 .. Len(s) /\ o # k /\ w[j] = s[o] /\ s[o] \in Slots
    BY <1>5, <1>0
  <2>2. /\ L.next[s[o]] = (IF o = Len(s) THEN None ELSE s[o + 1])
        /\ L.prev[s[o]] = (IF o = 1 THEN None ELSE s[o - 1])
    BY <2>1 DEF LinksOK
  <2>3. (s[o] = a <=> o = k - 1) /\ (s[o] = b <=> o = k + 1)
    <3> HIDE DEF o
    <3>1. s[o] = a <=> o = k - 1
      BY <2>1, <1>0, <1>1 DEF NoDuplicates
    <3>2. s[o] = b <=> o = k + 1
      BY <2>1, <1>0, <1>1 DEF NoDuplicates
    <3> QED
      BY <3>1, <3>2
  <2>4. M.next[w[j]] = (IF j = Len(s) - 1 THEN None ELSE w[j + 1])
    <3>1. CASE o = k - 1
      BY <3>1, <2>1, <2>3, <1>1, <1>3, <1>5
    <3>2. CASE o # k - 1
      BY <3>2, <2>1, <2>2, <2>3, <1>3, <1>5
    <3> QED
      BY <3>1, <3>2
  <2>5. M.prev[w[j]] = (IF j = 1 THEN None ELSE w[j - 1])
    <3>1. CASE o = k + 1
      BY <3>1, <2>1, <2>3, <1>1, <1>4, <1>5
    <3>2. CASE o # k + 1
      BY <3>2, <2>1, <2>2, <2>3, <1>4, <1>5
    <3> QED
      BY <3>1, <3>2
  <2> QED
    BY <2>4, <2>5
<1>7. OthersFree(M, Elems(s))
  <2> SUFFICES ASSUME NEW j \in Slots \ Elems(s) PROVE isFree(M, j)
    BY DEF OthersFree
  <2>1. L.prev[j] = j /\ L.next[j] = j
    BY DEF OthersFree, isFree
  <2>2. j # a /\ j # b
    BY <1>1 DEF Elems, None, Slots
  <2> QED
    BY <2>1, <2>2, <1>3, <1>4 DEF isFree
<1> QED
  BY <1>3, <1>4, <1>6, <1>7 DEF w

\* focusWindow() moves a window to the top and keeps the order of the others.
LEMMA FocusRepresents ==
  ASSUME NEW L, NEW s, Represents(L, s), NEW k \in 1 .. Len(s)
  PROVE  Represents(focusWindow(L, s[k]), Raised(s, k)) /\ Len(Raised(s, k)) = Len(s)
<1> DEFINE i == s[k]
           w == Without(s, k)
<1> USE DEF Represents
<1>0. i \in Slots /\ i # None /\ s # <<>> /\ i \in Elems(s)
  BY SlotFacts
<1>1. /\ w \in Seq(Slots) /\ Len(w) = Len(s) - 1 /\ NoDuplicates(w)
      /\ \A j \in 1 .. Len(s) - 1 : w[j] = IF j < k THEN s[j] ELSE s[j + 1]
      /\ Elems(w) = Elems(s) \ {i}
  BY WithoutSeq
<1>a. Len(Raised(s, k)) = Len(s)
  BY <1>1 DEF Raised
<1>2. CASE i = L.tail
  <2>1. k = Len(s)
    BY <1>0, <1>2 DEF EndsOK, NoDuplicates
  <2>2. Raised(s, k) = s
    <3>1. Raised(s, k) \in Seq(Slots) /\ Len(Raised(s, k)) = Len(s)
      BY <1>1, <1>0 DEF Raised
    <3>2. \A j \in 1 .. Len(s) : Raised(s, k)[j] = s[j]
      BY <1>1, <2>1 DEF Raised
    <3> QED
      BY <3>1, <3>2
  <2> QED
    BY <2>2, <1>a, <1>2 DEF focusWindow
<1>3. CASE i # L.tail
  <2>1. k # Len(s) /\ w # <<>>
    BY <1>0, <1>1, <1>3 DEF EndsOK
  <2>2. L.prev[i] = (IF k = 1 THEN None ELSE s[k - 1]) /\ L.next[i] = s[k + 1]
    BY <2>1 DEF LinksOK
  <2>3. s[k + 1] \in Slots /\ s[1] \in Slots
    BY <2>1, <1>0
  <2> DEFINE M == [head |-> IF k = 1 THEN s[k + 1] ELSE L.head, tail |-> L.tail,
                   next |-> store(L.next, L.prev[i], L.next[i]),
                   prev |-> store(L.prev, L.next[i], L.prev[i])]
  <2>4. /\ M.next \in [Slots -> Slots \cup {None}] /\ M.prev \in [Slots -> Slots \cup {None}]
        /\ LinksOK(M, w) /\ OthersFree(M, Elems(s))
    BY BypassRepresents
  <2>5. M \in Lists
    BY <2>3, <2>4 DEF Lists
  <2>6. focusWindow(L, i) = addToWindowList(M, i)
    <3>1. CASE k = 1
      <4>1. i = L.head
        BY <3>1, <1>0 DEF EndsOK
      <4>2. M.next = L.next /\ M.prev = store(L.prev, L.next[i], None) /\ M.head = L.next[i]
        BY <2>2, <3>1 DEF store
      <4> QED
        BY <4>1, <4>2, <1>0, <1>3 DEF focusWindow, addToWindowList, Lists
    <3>2. CASE k # 1
      <4>1. i # L.head
        BY <3>2, <1>0 DEF EndsOK, NoDuplicates
      <4> QED
        BY <4>1, <3>2, <1>0, <1>3 DEF focusWindow, addToWindowList, Lists
    <3> QED
      BY <3>1, <3>2
  <2>7. M.head = w[1] /\ M.tail = w[Len(w)]
    <3>1. L.head = s[1] /\ L.tail = s[Len(s)]
      BY <1>0 DEF EndsOK
    <3> QED
      BY <3>1, <2>1, <1>1
  <2>8. OthersFree(M, Elems(w) \cup {i}) /\ i \in Slots \ Elems(w)
    BY <2>4, <1>0, <1>1 DEF OthersFree
  <2> HIDE DEF M
  <2>9. Represents(addToWindowList(M, i), Append(w, i))
    BY AddRepresents, <2>1, <2>4, <2>5, <2>7, <2>8, <1>1
  <2> QED
    BY <2>6, <2>9, <1>a DEF Raised
<1> QED
  BY <1>2, <1>3

\* closeWindow() takes any window but the bottom-most one out of the z-order.
LEMMA UnlinkRepresents ==
  ASSUME NEW L, NEW s, Represents(L, s), NEW k \in 1 .. Len(s), s[k] # L.head
  PROVE  Represents(unlinkWindow(L, s[k]), Without(s, k))
<1> DEFINE i == s[k]
           w == Without(s, k)
           R == removeFromWindowList(L, i)
           F == [head |-> R.head, tail |-> R.tail,
                 next |-> [R.next EXCEPT ![i] = i], prev |-> [R.prev EXCEPT ![i] = i]]
<1> USE DEF Represents
<1>0. i \in Slots /\ i # None /\ s # <<>> /\ i \in Elems(s) /\ k # 1
  BY SlotFacts DEF EndsOK
<1>1. /\ w \in Seq(Slots) /\ Len(w) = Len(s) - 1 /\ NoDuplicates(w)
      /\ \A j \in 1 .. Len(s) - 1 : w[j] = IF j < k THEN s[j] ELSE s[j + 1]
      /\ Elems(w) = Elems(s) \ {i}
  BY WithoutSeq
<1>2. L.prev[i] = s[k - 1] /\ s[k - 1] \in Slots /\ L.head = s[1] /\ L.tail = s[Len(s)]
  BY <1>0 DEF LinksOK, EndsOK
<1>3. /\ R.head = L.head /\ R.tail = (IF L.tail = i THEN s[k - 1] ELSE L.tail)
      /\ R.next = store(L.next, L.prev[i], L.next[i])
      /\ R.prev = store(L.prev, L.next[i], L.prev[i])
      /\ R = [head |-> R.head, tail |-> R.tail, next |-> R.next, prev |-> R.prev]
  BY <1>2 DEF removeFromWindowList
<1> HIDE DEF R
<1>4. /\ R.next \in [Slots -> Slots \cup {None}] /\ R.prev \in [Slots -> Slots \cup {None}]
      /\ LinksOK(R, w) /\ OthersFree(R, Elems(s))
  BY <1>3, BypassRepresents
<1>5. /\ F.head = s[1] /\ F.tail = R.tail
      /\ F.next = [R.next EXCEPT ![i] = i] /\ F.prev = [R.prev EXCEPT ![i] = i]
      /\ F = [head |-> F.head, tail |-> F.tail, next |-> F.next, prev |-> F.prev]
  BY <1>2, <1>3
<1> HIDE DEF F
<1>6. F.tail = w[Len(w)]
  <2>1. CASE k = Len(s)
    <3>1. F.tail = s[k - 1]
      BY <2>1, <1>2, <1>3, <1>5
    <3>2. Len(w) = k - 1 /\ k - 1 \in 1 .. Len(s) - 1
      BY <2>1, <1>0, <1>1
    <3> QED
      BY <3>1, <3>2, <1>1
  <2>2. CASE k # Len(s)
    <3>1. L.tail # i
      BY <2>2, <1>2, <1>0 DEF NoDuplicates
    <3> QED
      BY <3>1, <2>2, <1>0, <1>1, <1>2, <1>3, <1>5
  <2> QED
    BY <2>1, <2>2
<1>7. w # <<>> /\ F.head = w[1] /\ w[Len(w)] \in Elems(w)
  BY <1>0, <1>1, <1>5 DEF Elems
<1>8. F \in Lists
  <2>1. F.head \in Slots /\ F.tail \in Slots
    BY <1>1, <1>6, <1>7, SlotFacts
  <2>2. /\ F.next \in [Slots -> Slots \cup {None}]
        /\ F.prev \in [Slots -> Slots \cup {None}]
    BY <1>0, <1>4, <1>5
  <2> QED
    BY <2>1, <2>2, <1>5 DEF Lists
<1>9. LinksOK(F, w)
  <2>1. \A j \in 1 .. Len(w) : w[j] # i /\ w[j] \in Slots
    BY <1>1, SlotFacts
  <2>2. \A j \in 1 .. Len(w) : F.next[w[j]] = R.next[w[j]] /\ F.prev[w[j]] = R.prev[w[j]]
    BY <2>1, <1>4, <1>5
  <2> QED
    BY <2>2, <1>4 DEF LinksOK
<1>10. OthersFree(F, Elems(w))
  BY <1>0, <1>1, <1>4, <1>5 DEF OthersFree, isFree
<1>11. unlinkWindow(L, i) = F
  <2>1. F.tail # i
    BY <1>1, <1>6, <1>7
  <2> QED
    BY <2>1 DEF unlinkWindow, removeFromWindowList, R, F
<1> QED
  BY <1>1, <1>6, <1>7, <1>8, <1>9, <1>10, <1>11 DEF EndsOK

-----------------------------------------------------------------------------
\* In a list that represents a z-order, focusWindow() stays inside the array.
LEMMA NoWild ==
  ASSUME NEW L, NEW s, Represents(L, s), NEW k \in 1 .. Len(s)
  PROVE  ~focusWild(L, s[k])
<1>1. s # <<>> /\ L.head = s[1] /\ L.tail = s[Len(s)]
  BY SlotFacts DEF Represents, EndsOK
<1>2. /\ k # Len(s) => L.next[s[k]] # None
      /\ k # 1 => L.prev[s[k]] # None
  BY SlotFacts DEF Represents, LinksOK
<1> QED
  BY <1>1, <1>2 DEF focusWild

\* A z-order without duplicates is no longer than the array.
LEMMA OrderBound ==
  ASSUME NEW s \in Seq(Slots), NoDuplicates(s)
  PROVE  Len(s) <= MAX_WINDOW_CNT
<1>1. IsFiniteSet(Slots) /\ Cardinality(Slots) = MAX_WINDOW_CNT
  BY FS_Interval, WindowCntAssumption DEF Slots
<1>2. IsFiniteSet(1 .. Len(s)) /\ Cardinality(1 .. Len(s)) = Len(s)
  <2>1. Len(s) \in Nat
    OBVIOUS
  <2>2. /\ IsFiniteSet(1 .. Len(s))
        /\ Cardinality(1 .. Len(s)) = IF 1 > Len(s) THEN 0 ELSE Len(s) - 1 + 1
    <3> HIDE DEF Slots
    <3> QED
      BY <2>1, FS_Interval
  <2> QED
    BY <2>1, <2>2
<1>3. s \in Injection(1 .. Len(s), Slots)
  BY DEF NoDuplicates, Injection, IsInjective
<1> QED
  BY <1>1, <1>2, <1>3, FS_Injection

-----------------------------------------------------------------------------
(* The same in terms of the slots that are in the list. *)

\* The slots of the z-order are those that are not free.
LEMMA ListedIs ==
  ASSUME NEW L, NEW s, Represents(L, s)
  PROVE  \A i \in Slots : i \in Elems(s) <=> ~isFree(L, i)
<1>1. ASSUME NEW i \in Elems(s) PROVE ~isFree(L, i)
  <2>1. PICK k \in 1 .. Len(s) : i = s[k]
    BY DEF Elems
  <2>2. L.next[i] = (IF k = Len(s) THEN None ELSE s[k + 1]) /\ i # None
    BY <2>1, SlotFacts DEF Represents, LinksOK
  <2>3. k # Len(s) => s[k + 1] # s[k]
    BY <2>1 DEF Represents, NoDuplicates
  <2> QED
    BY <2>1, <2>2, <2>3 DEF isFree
<1> QED
  BY <1>1 DEF Represents, OthersFree

\* A search of the array finds the first free slot.
LEMMA FirstFree ==
  ASSUME NEW L, \E y \in Slots : isFree(L, y)
  PROVE  /\ findNextAvailableWindowId(L) \in Slots
         /\ isFree(L, findNextAvailableWindowId(L))
<1>1. PICK y \in Slots : isFree(L, y)
  OBVIOUS
<1> DEFINE Free == {x \in Slots : isFree(L, x)}
<1>2. Free # {} /\ Free \subseteq Nat
  BY <1>1 DEF Slots
<1>3. PICK x \in Free : \A j \in Free : ~(j < x)
  <2>1. \E x \in Free : \A j \in Free : <<j, x>> \notin OpToRel(<, Nat)
    BY <1>2, WFMin, NatLessThanWellFounded
  <2> QED
    BY <2>1, <1>2 DEF OpToRel
<1>4. \A j \in 0 .. x - 1 : ~isFree(L, j)
  <2>1. x \in Nat /\ \A j \in 0 .. x - 1 : j \in Slots /\ j < x
    BY <1>3, WindowCntAssumption DEF Slots
  <2> QED
    BY <2>1, <1>3
<1> QED
  BY <1>3, <1>4 DEF findNextAvailableWindowId

\* Where the list begins and ends.
LEMMA EndsAre ==
  ASSUME NEW L, NEW s, Represents(L, s)
  PROVE  /\ s = <<>> => L.head = None /\ L.tail = None
         /\ s # <<>> => /\ L.head = s[1] /\ L.head \in Elems(s)
                        /\ L.tail = s[Len(s)] /\ L.tail \in Elems(s)
                        /\ L.head # None /\ L.tail # None
<1>1. ASSUME s # <<>> PROVE 1 \in 1 .. Len(s) /\ Len(s) \in 1 .. Len(s)
  BY <1>1 DEF Represents
<1> QED
  BY <1>1, SlotFacts DEF Represents, EndsOK

\* The list part of createWindow(): the new window is the topmost.
LEMMA LinkRepresents ==
  ASSUME NEW L, NEW s, Represents(L, s), NEW i \in Slots, isFree(L, i)
  PROVE  Represents(linkNewWindow(L, i), Append(s, i))
<1> DEFINE M == IF L.head = None THEN [L EXCEPT !.head = i] ELSE L
<1>1. i \in Slots \ Elems(s)
  BY ListedIs
<1>2. M \in Lists /\ M.next = L.next /\ M.prev = L.prev /\ M.tail = L.tail
  BY DEF Lists, Represents
<1>3. IF s = <<>> THEN M.head = i /\ M.tail = None
                  ELSE M.head = s[1] /\ M.tail = s[Len(s)]
  <2>1. CASE s = <<>>
    BY <2>1 DEF Represents, EndsOK, Lists
  <2>2. CASE s # <<>>
    BY <2>2, EndsAre
  <2> QED
    BY <2>1, <2>2
<1>4. LinksOK(M, s) /\ OthersFree(M, Elems(s) \cup {i})
  BY <1>2 DEF Represents, LinksOK, OthersFree, isFree
<1>5. linkNewWindow(L, i) = addToWindowList(M, i)
  BY DEF linkNewWindow
<1> HIDE DEF M
<1> QED
  BY <1>1, <1>2, <1>3, <1>4, <1>5, AddRepresents DEF Represents

\* focusWindow() of a slot that is free puts it on top of the others.
LEMMA FocusFreeRepresents ==
  ASSUME NEW L, NEW s, Represents(L, s), s # <<>>, NEW i \in Slots, isFree(L, i)
  PROVE  Represents(focusWindow(L, i), Append(s, i))
<1>1. i \in Slots \ Elems(s)
  BY ListedIs
<1>2. L.head = s[1] /\ L.tail = s[Len(s)] /\ i # L.head /\ i # L.tail /\ i # None
  BY <1>1, EndsAre DEF None, Slots
<1>3. L.prev[i] = i /\ L.next[i] = i /\ L \in Lists
  BY DEF isFree, Represents
<1>4. focusWindow(L, i) = addToWindowList(L, i)
  <2>1. store(L.next, i, i) = L.next /\ store(L.prev, i, i) = L.prev
    BY <1>2, <1>3 DEF store, Lists
  <2>2. [L EXCEPT !.next = L.next, !.prev = L.prev] = L
    BY <1>3 DEF Lists
  <2> QED
    BY <1>2, <1>3, <2>1, <2>2 DEF focusWindow
<1>5. LinksOK(L, s) /\ OthersFree(L, Elems(s) \cup {i}) /\ NoDuplicates(s) /\ s \in Seq(Slots)
  BY DEF Represents, OthersFree
<1>6. Represents(addToWindowList(L, i), Append(s, i))
  BY <1>1, <1>2, <1>3, <1>5, AddRepresents DEF Represents
<1> QED
  BY <1>4, <1>6

\* The list part of createWindow() in terms of slots.
LEMMA LinkOrdered ==
  ASSUME NEW L, Ordered(L), NEW i \in Slots, isFree(L, i)
  PROVE  LET M == linkNewWindow(L, i)
         IN  /\ Ordered(M) /\ M.tail = i
             /\ \A j \in Slots : ~isFree(M, j) <=> j = i \/ ~isFree(L, j)
<1>1. PICK s \in Seq(Slots) : Represents(L, s)
  BY DEF Ordered
<1> DEFINE M == linkNewWindow(L, i)
           t == Append(s, i)
<1>2. Represents(M, t)
  BY <1>1, LinkRepresents
<1>3. t \in Seq(Slots) /\ t # <<>> /\ t[Len(t)] = i
  OBVIOUS
<1>4. Elems(t) = Elems(s) \cup {i}
  BY DEF Elems
<1> HIDE DEF M, t
<1>5. Ordered(M) /\ M.tail = i
  BY <1>2, <1>3, EndsAre DEF Ordered
<1>6. \A j \in Slots : ~isFree(M, j) <=> j = i \/ ~isFree(L, j)
  BY <1>1, <1>2, <1>4, ListedIs
<1> QED
  BY <1>5, <1>6 DEF M

\* focusWindow() in terms of slots: it stays inside the array, whatever is focused.
LEMMA FocusOrdered ==
  ASSUME NEW L, Ordered(L), L.tail # None, NEW i \in Slots
  PROVE  LET M == focusWindow(L, i)
         IN  /\ ~focusWild(L, i) /\ Ordered(M) /\ M.tail # None
             /\ \A j \in Slots : ~isFree(M, j) <=> j = i \/ ~isFree(L, j)
<1>1. PICK s \in Seq(Slots) : Represents(L, s)
  BY DEF Ordered
<1>2. s # <<>>
  BY <1>1, EndsAre
<1> DEFINE M == focusWindow(L, i)
<1>3. CASE isFree(L, i)
  <2> DEFINE t == Append(s, i)
  <2>1. Represents(M, t)
    BY <1>1, <1>2, <1>3, FocusFreeRepresents
  <2>2. t \in Seq(Slots) /\ t # <<>>
    OBVIOUS
  <2>3. Elems(t) = Elems(s) \cup {i}
    BY DEF Elems
  <2> HIDE DEF M, t
  <2>4. Ordered(M) /\ M.tail # None
    BY <2>1, <2>2, EndsAre DEF Ordered
  <2>5. \A j \in Slots : ~isFree(M, j) <=> j = i \/ ~isFree(L, j)
    BY <1>1, <2>1, <2>3, ListedIs
  <2>6. ~focusWild(L, i)
    BY <1>3 DEF focusWild, isFree, None, Slots
  <2> QED
    BY <2>4, <2>5, <2>6 DEF M
<1>4. CASE ~isFree(L, i)
  <2>1. PICK k \in 1 .. Len(s) : i = s[k]
    BY <1>1, <1>4, ListedIs DEF Elems
  <2> DEFINE t == Raised(s, k)
  <2>2. Represents(M, t) /\ Len(t) = Len(s)
    BY <1>1, <2>1, FocusRepresents
  <2>3. t \in Seq(Slots) /\ t # <<>>
    BY <1>2, <2>2 DEF Represents
  <2>4. Elems(t) = Elems(s)
    <3> DEFINE w == Without(s, k)
    <3>1. w \in Seq(Slots) /\ Elems(w) = Elems(s) \ {i}
      BY <1>1, <2>1, WithoutSeq DEF Represents
    <3>2. i \in Elems(s)
      BY <2>1 DEF Elems
    <3> HIDE DEF w
    <3>3. Elems(Append(w, i)) = Elems(w) \cup {i}
      BY <3>1 DEF Elems
    <3> QED
      BY <2>1, <3>1, <3>2, <3>3 DEF Raised, w
  <2> HIDE DEF M, t
  <2>5. Ordered(M) /\ M.tail # None
    BY <2>2, <2>3, EndsAre DEF Ordered
  <2>6. \A j \in Slots : ~isFree(M, j) <=> j = i \/ ~isFree(L, j)
    BY <1>1, <1>4, <2>2, <2>4, ListedIs
  <2>7. ~focusWild(L, i)
    BY <1>1, <2>1, NoWild
  <2> QED
    BY <2>5, <2>6, <2>7 DEF M
<1> QED
  BY <1>3, <1>4

\* The list part of closeWindow() in terms of slots, unless the head is closed.
LEMMA UnlinkOrdered ==
  ASSUME NEW L, Ordered(L), NEW i \in Slots, ~isFree(L, i), i # L.head
  PROVE  LET M == unlinkWindow(L, i)
         IN  /\ Ordered(M) /\ M.tail # None
             /\ \A j \in Slots : ~isFree(M, j) <=> j # i /\ ~isFree(L, j)
<1>1. PICK s \in Seq(Slots) : Represents(L, s)
  BY DEF Ordered
<1>2. PICK k \in 1 .. Len(s) : i = s[k]
  BY <1>1, ListedIs DEF Elems
<1> DEFINE M == unlinkWindow(L, i)
           w == Without(s, k)
<1>3. Represents(M, w)
  BY <1>1, <1>2, UnlinkRepresents
<1>4. w \in Seq(Slots) /\ Len(w) = Len(s) - 1 /\ Elems(w) = Elems(s) \ {i}
  BY <1>1, <1>2, WithoutSeq DEF Represents
<1>5. w # <<>>
  <2>1. k # 1
    BY <1>1, <1>2, SlotFacts, EndsAre DEF Represents
  <2> QED
    BY <1>4, <2>1
<1> HIDE DEF M, w
<1>6. Ordered(M) /\ M.tail # None
  BY <1>3, <1>4, <1>5, EndsAre DEF Ordered
<1>7. \A j \in Slots : ~isFree(M, j) <=> j # i /\ ~isFree(L, j)
  BY <1>1, <1>3, <1>4, ListedIs
<1> QED
  BY <1>6, <1>7 DEF M

-----------------------------------------------------------------------------
(* What the operations keep of the shape even when the head was closed. *)

\* A list from which the slot i has been taken out but for its own links, and R, a relation
\* that contains next between the other slots.
Bypassed(L, i, R) ==
    /\ L \in Lists /\ L.tail # i
    /\ \A x \in Slots \ {i} : /\ L.prev[x] # i
                              /\ L.prev[x] \in Slots \ {x} => L.next[L.prev[x]] = x
                              /\ L.next[x] \in Slots \ {x, i} => <<x, L.next[x]>> \in R
                              /\ L.prev[x] = x => L.next[x] = x
    /\ L.tail # None => L.next[L.tail] = None
    /\ R \subseteq Slots \X Slots
    /\ \A x \in Slots : <<x, x>> \notin R
    /\ \A x, y, z \in Slots : <<x, y>> \in R /\ <<y, z>> \in R => <<x, z>> \in R

\* addToWindowList() puts such a slot back as the tail.
LEMMA AddChained ==
  ASSUME NEW L, NEW i \in Slots, NEW R, Bypassed(L, i, R)
  PROVE  LET M == addToWindowList(L, i)
         IN  /\ Chained(M) /\ M.tail = i /\ M.next[i] # i
             /\ \A x \in Slots \ {i} : L.next[x] # x => M.next[x] # x
<1> DEFINE M == addToWindowList(L, i)
           Q == {r \in R : r[1] # i /\ r[2] # i} \cup {r \in Slots \X Slots : r[1] # i /\ r[2] = i}
<1> USE DEF Bypassed
<1>1. L \in Lists /\ L.tail \in Slots \cup {None} /\ None \notin Slots /\ i # None
  BY DEF Lists, None, Slots
<1>2. L.next \in [Slots -> Slots \cup {None}] /\ L.prev \in [Slots -> Slots \cup {None}]
  BY DEF Lists
<1>3. M.head = L.head /\ M.tail = i /\ M.prev = [L.prev EXCEPT ![i] = L.tail]
      /\ M.next = store([L.next EXCEPT ![i] = None], L.tail, i)
  BY DEF addToWindowList
<1>4. /\ M.next \in [Slots -> Slots \cup {None}]
      /\ M.next[i] = None
      /\ \A x \in Slots \ {i} : M.next[x] = IF x = L.tail THEN i ELSE L.next[x]
  BY <1>1, <1>2, <1>3 DEF store
<1>5. /\ M.prev \in [Slots -> Slots \cup {None}]
      /\ M.prev[i] = L.tail
      /\ \A x \in Slots \ {i} : M.prev[x] = L.prev[x]
  BY <1>1, <1>2, <1>3
<1>6. M \in Lists
  BY <1>1, <1>4, <1>5 DEF addToWindowList, Lists
<1> HIDE DEF M
<1>7. ASSUME NEW x \in Slots, M.prev[x] \in Slots \ {x} PROVE M.next[M.prev[x]] = x
  <2>1. CASE x = i
    BY <1>1, <1>4, <1>5, <1>7, <2>1
  <2>2. CASE x # i
    <3>1. M.prev[x] = L.prev[x] /\ L.prev[x] \in Slots \ {x, i} /\ L.next[L.prev[x]] = x
      BY <1>5, <1>7, <2>2
    <3>2. L.prev[x] # L.tail
      BY <1>1, <3>1
    <3> QED
      BY <1>4, <3>1, <3>2
  <2> QED
    BY <2>1, <2>2
<1>8. M.tail # None => M.next[M.tail] = None
  BY <1>3, <1>4
<1>9. \A x \in Slots : M.next[x] \in Slots \ {x} => <<x, M.next[x]>> \in Q
  BY <1>1, <1>2, <1>4
<1>9a. \A x \in Slots : <<x, x>> \notin Q
  BY <1>1, <1>2, <1>4
<1>10. \A x, y, z \in Slots : <<x, y>> \in Q /\ <<y, z>> \in Q => <<x, z>> \in Q
  <2>1. \A x, y \in Slots : <<x, y>> \in Q <=> x # i /\ (y = i \/ <<x, y>> \in R)
    OBVIOUS
  <2> QED
    BY <2>1
<1>11. ASSUME NEW x \in Slots, M.prev[x] = x PROVE M.next[x] = x
  <2>1. x # i
    BY <1>5, <1>11
  <2>2. L.next[x] = x
    BY <1>5, <1>11, <2>1
  <2>3. x # L.tail
    BY <1>1, <2>2
  <2> QED
    BY <1>4, <2>1, <2>2, <2>3
<1>12. Q \in SUBSET (Slots \X Slots)
  OBVIOUS
<1> HIDE DEF Q
<1>13. Chained(M)
  <2>1. Along(Q, M.next)
    BY <1>9, <1>9a, <1>10 DEF Along
  <2> QED
    BY <1>6, <1>7, <1>8, <1>11, <1>12, <2>1 DEF Chained
<1>14. \A x \in Slots \ {i} : L.next[x] # x => M.next[x] # x
  BY <1>1, <1>2, <1>4
<1> QED
  BY <1>1, <1>3, <1>4, <1>13, <1>14 DEF M

\* createWindow() links a slot that was free.
LEMMA LinkChained ==
  ASSUME NEW L, Chained(L), NEW i \in Slots, isFree(L, i)
  PROVE  LET M == linkNewWindow(L, i)
         IN  /\ Chained(M) /\ M.tail = i /\ M.next[i] # i
             /\ \A x \in Slots \ {i} : L.next[x] # x => M.next[x] # x
<1> DEFINE K == IF L.head = None THEN [L EXCEPT !.head = i] ELSE L
<1>1. K \in Lists /\ K.next = L.next /\ K.prev = L.prev /\ K.tail = L.tail
  BY DEF Lists, Chained
<1>2. PICK R : R \in SUBSET (Slots \X Slots) /\ Along(R, L.next)
  BY DEF Chained
<1>3. linkNewWindow(L, i) = addToWindowList(K, i)
  BY DEF linkNewWindow
<1> HIDE DEF K
<1>4. L.tail # i /\ None \notin Slots
  BY DEF Chained, isFree, None, Slots
<1>5. \A x \in Slots \ {i} : L.prev[x] # i
  BY DEF Chained, isFree
<1>6. Bypassed(K, i, R)
  BY <1>1, <1>2, <1>4, <1>5 DEF Bypassed, Chained, Along
<1> QED
  BY <1>1, <1>3, <1>6, AddChained

\* focusWindow(), unless it writes outside the array.
LEMMA FocusChained ==
  ASSUME NEW L, Chained(L), NEW i \in Slots, ~focusWild(L, i)
  PROVE  LET M == focusWindow(L, i)
         IN  /\ Chained(M) /\ M.tail = i
             /\ L.next[i] # i => M.next[i] # i
             /\ \A x \in Slots \ {i} : L.next[x] # x => M.next[x] # x
<1>1. L \in Lists /\ i # None /\ None \notin Slots
      /\ L.next \in [Slots -> Slots \cup {None}] /\ L.prev \in [Slots -> Slots \cup {None}]
  BY DEF Chained, None, Slots, Lists
<1>2. PICK R : R \in SUBSET (Slots \X Slots) /\ Along(R, L.next)
  BY DEF Chained
<1>3. CASE i = L.tail
  BY <1>3 DEF focusWindow
<1>4. CASE i # L.tail
  <2>1. L.next[i] \in Slots /\ (i # L.head => L.prev[i] \in Slots)
    BY <1>1, <1>4 DEF focusWild
  <2>2. PICK K : /\ K \in Lists /\ focusWindow(L, i) = addToWindowList(K, i)
                 /\ K.tail = L.tail
                 /\ K.next = IF i = L.head THEN L.next ELSE [L.next EXCEPT ![L.prev[i]] = L.next[i]]
                 /\ K.prev = [L.prev EXCEPT ![L.next[i]] = IF i = L.head THEN None ELSE L.prev[i]]
    <3>1. CASE i = L.head
      <4> DEFINE K == [L EXCEPT !.head = L.next[i], !.prev = store(L.prev, L.next[i], None)]
      <4>1. focusWindow(L, i) = addToWindowList(K, i)
        BY <1>1, <1>4, <3>1 DEF focusWindow
      <4>2. K \in Lists /\ K.tail = L.tail /\ K.next = L.next
            /\ K.prev = [L.prev EXCEPT ![L.next[i]] = None]
        BY <1>1, <2>1 DEF Lists, store, None, Slots
      <4> QED
        BY <3>1, <4>1, <4>2
    <3>2. CASE i # L.head
      <4> DEFINE K == [L EXCEPT !.next = store(L.next, L.prev[i], L.next[i]),
                                !.prev = store(L.prev, L.next[i], L.prev[i])]
      <4>1. focusWindow(L, i) = addToWindowList(K, i)
        BY <1>1, <1>4, <3>2 DEF focusWindow
      <4>2. K \in Lists /\ K.tail = L.tail
            /\ K.next = [L.next EXCEPT ![L.prev[i]] = L.next[i]]
            /\ K.prev = [L.prev EXCEPT ![L.next[i]] = L.prev[i]]
        BY <1>1, <2>1, <3>2 DEF Lists, store, None, Slots
      <4> QED
        BY <3>2, <4>1, <4>2
    <3> QED
      BY <3>1, <3>2
  <2>3. L.tail # None => L.next[L.tail] = None
    BY DEF Chained
  <2>4. \A x \in Slots : /\ L.prev[x] \in Slots \ {x} => L.next[L.prev[x]] = x
                         /\ L.prev[x] = x => L.next[x] = x
    BY DEF Chained
  <2>5. i # L.head /\ L.prev[i] # i => L.next[L.prev[i]] = i /\ L.prev[i] # L.tail
    BY <1>1, <2>1, <2>3, <2>4
  <2>6. i # L.head /\ L.prev[i] = i => L.next[i] = i
    BY <1>1, <2>4
  <2>7. i # L.head /\ L.prev[i] # i /\ L.next[i] # i =>
           L.prev[i] # L.next[i] /\ <<L.prev[i], L.next[i]>> \in R
    <3>1. /\ \A x \in Slots : L.next[x] \in Slots \ {x} => <<x, L.next[x]>> \in R
          /\ \A x \in Slots : <<x, x>> \notin R
          /\ \A x, y, z \in Slots : <<x, y>> \in R /\ <<y, z>> \in R => <<x, z>> \in R
      BY <1>2 DEF Along
    <3> QED
      BY <1>1, <2>1, <2>5, <3>1
  <2>8. Bypassed(K, i, R)
    <3>1. \A x \in Slots \ {i} : K.prev[x] # i
      BY <1>1, <2>1, <2>2, <2>4, <2>5, <2>6
    <3>2. ASSUME NEW x \in Slots \ {i}, K.prev[x] \in Slots \ {x} PROVE K.next[K.prev[x]] = x
      <4>1. CASE x = L.next[i]
        BY <1>1, <2>1, <2>2, <2>5, <2>6, <3>2, <4>1
      <4>2. CASE x # L.next[i]
        <5>1. K.prev[x] = L.prev[x] /\ L.next[L.prev[x]] = x
          BY <1>1, <2>1, <2>2, <2>4, <3>2, <4>2
        <5>2. L.prev[x] # i /\ (i # L.head => L.prev[x] # L.prev[i])
          BY <1>1, <2>1, <2>5, <2>6, <4>2, <5>1, <3>2
        <5> QED
          BY <1>1, <2>2, <5>1, <5>2
      <4> QED
        BY <4>1, <4>2
    <3>3. \A x \in Slots \ {i} : K.next[x] \in Slots \ {x, i} => <<x, K.next[x]>> \in R
      <4>1. \A x \in Slots : L.next[x] \in Slots \ {x} => <<x, L.next[x]>> \in R
        BY <1>2 DEF Along
      <4> QED
        BY <1>1, <2>1, <2>2, <2>6, <2>7, <4>1
    <3>4. \A x \in Slots \ {i} : K.prev[x] = x => K.next[x] = x
      BY <1>1, <2>1, <2>2, <2>4, <2>5, <2>6, <2>7
    <3>5. K.tail # i /\ (K.tail # None => K.next[K.tail] = None)
      BY <1>1, <1>4, <2>1, <2>2, <2>3, <2>5, <2>6
    <3> QED
      BY <1>2, <2>2, <3>1, <3>2, <3>3, <3>4, <3>5 DEF Bypassed, Along
  <2>9. \A x \in Slots \ {i} : L.next[x] # x => K.next[x] # x
    BY <1>1, <2>1, <2>2, <2>6, <2>7, <2>5
  <2>10. LET M == addToWindowList(K, i)
         IN  /\ Chained(M) /\ M.tail = i /\ M.next[i] # i
             /\ \A x \in Slots \ {i} : K.next[x] # x => M.next[x] # x
    BY <2>8, AddChained
  <2> QED
    BY <2>2, <2>9, <2>10
<1> QED
  BY <1>3, <1>4

\* closeWindow() of a slot that does not point to itself.
LEMMA UnlinkChained ==
  ASSUME NEW L, Chained(L), NEW i \in Slots, L.next[i] # i
  PROVE  LET M == unlinkWindow(L, i)
         IN  /\ Chained(M) /\ isFree(M, i)
             /\ \A x \in Slots \ {i} : L.next[x] # x => M.next[x] # x
<1>1. L \in Lists /\ i # None /\ None \notin Slots /\ L.tail \in Slots \cup {None}
      /\ L.next \in [Slots -> Slots \cup {None}] /\ L.prev \in [Slots -> Slots \cup {None}]
  BY DEF Chained, None, Slots, Lists
<1>2. /\ \A x \in Slots : /\ L.prev[x] \in Slots \ {x} => L.next[L.prev[x]] = x
                          /\ L.prev[x] = x => L.next[x] = x
      /\ L.tail # None => L.next[L.tail] = None
  BY DEF Chained
<1>3. PICK p, n : p = L.prev[i] /\ n = L.next[i]
  OBVIOUS
<1>4. p \in (Slots \ {i}) \cup {None} /\ n \in (Slots \ {i}) \cup {None}
  BY <1>1, <1>2, <1>3
<1>5. p # None => L.next[p] = i /\ p # L.tail
  BY <1>1, <1>2, <1>3, <1>4
<1> DEFINE R == removeFromWindowList(L, i)
           F == [head |-> R.head, tail |-> R.tail,
                 next |-> [R.next EXCEPT ![i] = i], prev |-> [R.prev EXCEPT ![i] = i]]
<1>6. /\ R.head = L.head /\ R.tail = (IF L.tail = i THEN p ELSE L.tail)
      /\ R.next = store(L.next, p, n) /\ R.prev = store(L.prev, n, p)
  BY <1>3 DEF removeFromWindowList
<1>7. unlinkWindow(L, i) = F
  <2>1. F.tail # i
    BY <1>1, <1>4, <1>6
  <2> QED
    BY <2>1 DEF unlinkWindow, removeFromWindowList, R, F
<1>7a. /\ F = [head |-> F.head, tail |-> F.tail, next |-> F.next, prev |-> F.prev]
       /\ F.head = L.head /\ F.tail = (IF L.tail = i THEN p ELSE L.tail)
       /\ F.next = [store(L.next, p, n) EXCEPT ![i] = i]
       /\ F.prev = [store(L.prev, n, p) EXCEPT ![i] = i]
  BY <1>6
<1> HIDE DEF R, F
<1>8. store(L.next, p, n) \in [Slots -> Slots \cup {None}]
      /\ store(L.prev, n, p) \in [Slots -> Slots \cup {None}]
  BY <1>1, <1>4 DEF store
<1>9. /\ \A x \in Slots : store(L.next, p, n)[x] = IF x = p THEN n ELSE L.next[x]
      /\ \A x \in Slots : store(L.prev, n, p)[x] = IF x = n THEN p ELSE L.prev[x]
  BY <1>1, <1>4 DEF store
<1>10. /\ F.next \in [Slots -> Slots \cup {None}] /\ F.next[i] = i
       /\ \A x \in Slots \ {i} : F.next[x] = IF x = p THEN n ELSE L.next[x]
  BY <1>7a, <1>8, <1>9
<1>11. /\ F.prev \in [Slots -> Slots \cup {None}] /\ F.prev[i] = i
       /\ \A x \in Slots \ {i} : F.prev[x] = IF x = n THEN p ELSE L.prev[x]
  BY <1>7a, <1>8, <1>9
<1>12. F.tail = (IF L.tail = i THEN p ELSE L.tail) /\ F.head = L.head
  BY <1>7a
<1>13. F \in Lists
  <2>1. F = [head |-> F.head, tail |-> F.tail, next |-> F.next, prev |-> F.prev]
    BY <1>7a
  <2>2. F.head \in Slots \cup {None} /\ F.tail \in Slots \cup {None}
    BY <1>1, <1>4, <1>12 DEF Lists
  <2> QED
    BY <1>10, <1>11, <2>1, <2>2 DEF Lists
<1>14. PICK Q : Q \in SUBSET (Slots \X Slots) /\ Along(Q, L.next)
  BY DEF Chained
<1>14a. \A x \in Slots : L.next[x] \in Slots \ {x} => <<x, L.next[x]>> \in Q
  BY <1>14 DEF Along
<1>15. p # None => <<p, i>> \in Q
  BY <1>4, <1>5, <1>14a
<1>16. n # None => <<i, n>> \in Q
  BY <1>3, <1>4, <1>14a
<1>17. p # None /\ n # None => <<p, n>> \in Q /\ p # n
  <2>1. ASSUME p # None, n # None PROVE <<p, n>> \in Q
    BY <1>4, <1>14, <1>15, <1>16, <2>1 DEF Along
  <2>2. ASSUME p # None, n # None PROVE <<p, p>> \notin Q
    BY <1>4, <1>14, <2>2 DEF Along
  <2> QED
    BY <2>1, <2>2
<1>18. ASSUME NEW x \in Slots, F.prev[x] \in Slots \ {x} PROVE F.next[F.prev[x]] = x
  <2>1. x # i
    BY <1>11, <1>18
  <2>2. CASE x = n
    BY <1>1, <1>4, <1>10, <1>11, <1>18, <2>1, <2>2
  <2>3. CASE x # n
    <3>1. F.prev[x] = L.prev[x] /\ L.next[L.prev[x]] = x
      BY <1>2, <1>11, <1>18, <2>1, <2>3
    <3>2. L.prev[x] # i /\ L.prev[x] # p
      BY <1>1, <1>3, <1>5, <1>18, <2>1, <2>3, <3>1
    <3> QED
      BY <1>10, <1>18, <3>1, <3>2
  <2> QED
    BY <2>2, <2>3
<1>19. ASSUME F.tail # None PROVE F.next[F.tail] = None
  <2>1. CASE L.tail = i
    BY <1>1, <1>2, <1>3, <1>4, <1>10, <1>12, <1>19, <2>1
  <2>2. CASE L.tail # i
    BY <1>1, <1>2, <1>5, <1>10, <1>12, <1>19, <2>2
  <2> QED
    BY <2>1, <2>2
<1>20. \A x \in Slots : F.next[x] \in Slots \ {x} => <<x, F.next[x]>> \in Q
  BY <1>1, <1>4, <1>10, <1>14a, <1>17
<1>21. ASSUME NEW x \in Slots, F.prev[x] = x PROVE F.next[x] = x
  <2>1. CASE x = i
    BY <1>10, <2>1
  <2>2. CASE x # i
    <3>1. L.prev[x] = x /\ L.next[x] = x
      BY <1>1, <1>2, <1>11, <1>17, <1>21, <2>2
    <3>2. x # p
      BY <1>1, <1>5, <2>2, <3>1
    <3> QED
      BY <1>10, <2>2, <3>1, <3>2
  <2> QED
    BY <2>1, <2>2
<1>22. Chained(F) /\ isFree(F, i)
  <2>1. Along(Q, F.next)
    BY <1>14, <1>20 DEF Along
  <2>2. \E P \in SUBSET (Slots \X Slots) : Along(P, F.next)
    BY <1>14, <2>1
  <2>3. \A x \in Slots : F.prev[x] \in Slots \ {x} => F.next[F.prev[x]] = x
    BY <1>18
  <2>4. \A x \in Slots : F.prev[x] = x => F.next[x] = x
    BY <1>21
  <2> QED
    BY <1>10, <1>11, <1>13, <1>19, <2>2, <2>3, <2>4 DEF Chained, isFree
<1>23. \A x \in Slots \ {i} : L.next[x] # x => F.next[x] # x
  BY <1>1, <1>4, <1>10, <1>17
<1> QED
  BY <1>7, <1>22, <1>23

-----------------------------------------------------------------------------
(* The window list on its own.                                             *)

ListInv == ListTypeOK /\ DoublyLinked

\* The invariant is DoublyLinked with its types; it is inductive as it stands.
LEMMA ListInvIs == ListInv <=> Represents(wl, order)
<1>1. Represents(wl, order) => Len(order) <= MAX_WINDOW_CNT
  BY OrderBound DEF Represents
<1> QED
  BY <1>1 DEF ListInv, ListTypeOK, DoublyLinked, Represents

\* The empty list represents the empty z-order.
LEMMA InitRepresents == ListInit => Represents(wl, order)
  BY DEF ListInit, wmInit, Represents, Lists, LinksOK, EndsOK, NoDuplicates, OthersFree,
         Elems, isFree

\* Every operation on the list does to the z-order what it should.
LEMMA NextRepresents ==
  ASSUME HeadMayClose = FALSE, Represents(wl, order), [ListNext]_listVars
  PROVE  Represents(wl, order)'
<1>1. CASE listCreate
  <2>1. PICK i : /\ i = findNextAvailableWindowId(wl) /\ i # None
                 /\ wl' = linkNewWindow(wl, i) /\ order' = Append(order, i)
    BY <1>1 DEF listCreate
  <2>2. \E y \in Slots : isFree(wl, y)
    BY <2>1 DEF findNextAvailableWindowId
  <2>3. i \in Slots /\ isFree(wl, i)
    BY <2>1, <2>2, FirstFree
  <2> QED
    BY <2>1, <2>3, LinkRepresents
<1>2. CASE listMinimize
  <2> DEFINE n == Len(order)
  <2>1. order # <<>> /\ n \in 1 .. n /\ wl.tail = order[n]
    BY <1>2 DEF listMinimize, Represents, EndsOK
  <2>2. CASE n = 1
    <3>1. wl.prev[order[n]] = None
      BY <2>1, <2>2 DEF Represents, LinksOK
    <3>2. wl' = wl /\ order' = order
      BY <3>1, <2>1, <2>2, <1>2 DEF listMinimize, focusBelow, focusWindow
    <3> QED
      BY <3>2 DEF Represents
  <2>3. CASE n # 1
    <3>1. n - 1 \in 1 .. n /\ wl.prev[order[n]] = order[n - 1]
      <4>1. n \in Nat /\ n \in 1 .. n
        BY <2>1 DEF Represents
      <4>2. wl.prev[order[n]] = (IF n = 1 THEN None ELSE order[n - 1])
        BY <4>1 DEF Represents, LinksOK
      <4> HIDE DEF n
      <4> QED
        BY <4>1, <4>2, <2>3
    <3>2. wl' = focusWindow(wl, order[n - 1]) /\ order' = Raised(order, n - 1)
      BY <3>1, <2>1, <2>3, <1>2 DEF listMinimize, focusBelow
    <3> QED
      BY <3>1, <3>2, FocusRepresents
  <2> QED
    BY <2>2, <2>3
<1>3. ASSUME NEW k \in 1 .. MAX_WINDOW_CNT, listFocus(k) PROVE Represents(wl, order)'
  BY <1>3, FocusRepresents DEF listFocus
<1>4. ASSUME NEW k \in 1 .. MAX_WINDOW_CNT, listClose(k) PROVE Represents(wl, order)'
  BY <1>4, UnlinkRepresents DEF listClose
<1>5. CASE UNCHANGED listVars
  BY <1>5 DEF listVars, Represents
<1> QED
  BY <1>1, <1>2, <1>3, <1>4, <1>5 DEF ListNext

\* While the bottom-most window is not closed, the C representation of the window
\* list is the doubly linked list of the windows in z-order, for any number of
\* slots and any sequence of operations, and nothing is written outside the array.
THEOREM WindowListSafe ==
  ASSUME HeadMayClose = FALSE
  PROVE  ListSpec => []ListSafe
<1>1. ListInit => Represents(wl, order)
  BY InitRepresents
<1>2. Represents(wl, order) /\ [ListNext]_listVars => Represents(wl, order)'
  BY NextRepresents
<1>3. Represents(wl, order) => ListSafe
  BY ListInvIs, NoWild DEF ListInv, ListSafe, NoWildWrite
<1> QED
  BY <1>1, <1>2, <1>3, PTL DEF ListSpec

-----------------------------------------------------------------------------
(* The window manager.                                                     *)

Queues == {q \in Seq(Kinds) : Len(q) <= MSG_BUF_SIZE}

Window == [proc : Windowed \cup {NoProc}, minimized : BOOLEAN, q : Queues]

Popup == [caller : Slots \cup {None, MAX_WINDOW_CNT}, proc : StartWindows \cup {NoProc},
          q : Queues]

Managers == [list : Lists, desktopId : Slots \cup {None}, win : [Slots -> Window],
             popup : Popup, onTitle : BOOLEAN, onContent : BOOLEAN, onPopup : BOOLEAN,
             status : {"running", "panic", "hang", "wild"}]

Labels == {"unborn", "create", "poll", "peek", "take", "close", "minimize", "maximize",
           "busy", "dead", "gone"}

Typed == /\ wm \in Managers
         /\ pc \in [Procs -> Labels]
         /\ handler \in [Procs -> Slots \cup {None, MAX_WINDOW_CNT}]
         /\ events \in 0 .. MaxEvents
         /\ faults \subseteq {"no window", "head closed", "desktop closed"}

\* A process that runs, one that has got beyond its creation, and one that has a window,
\* be it that it has ended without closing it.
Alive(p) == pc[p] \notin {"unborn", "dead", "gone"}
Started(p) == pc[p] \notin {"unborn", "create"}
Owns(p) == Started(p) /\ pc[p] # "dead" /\ wm.win[handler[p]].proc = p

\* The list is as it should be until its head is closed, and from the first window on
\* never empty.
OrderOK == "head closed" \notin faults =>
              /\ Ordered(wm.list)
              /\ wm.desktopId = None <=> wm.list.tail = None

\* Whatever has been closed, the links never confuse two windows that are open.
LinksSane == /\ Chained(wm.list)
             /\ \A p \in Windowed : Owns(p) => wm.list.next[handler[p]] # handler[p]

\* A window is that of the process which created it, and only of that one.
OwnersOK ==
    /\ \A i \in Slots, p \in Windowed : wm.win[i].proc = p =>
          Started(p) /\ (pc[p] = "dead" \/ handler[p] = i)
    /\ \A p \in Windowed : /\ pc[p] = "dead" \/ handler[p] \in Slots
                           /\ pc[p] \in {"take", "close", "minimize", "maximize"} => Owns(p)
                           /\ pc[p] = "take" => wm.win[handler[p]].q # <<>>

\* The windows of the list are open.
ListedOwned == faults \cap {"desktop closed", "head closed"} = {} =>
    /\ \A i \in Slots : Listed(i) => /\ wm.win[i].proc \in Windowed
                                     /\ pc[wm.win[i].proc] # "dead"
    /\ wm.desktopId # None => Listed(wm.desktopId)

\* There is one desktop at a time, a desktop's window is the first there is, and desktopId
\* names that window until it is closed, also when its process has ended otherwise.
DesktopOK ==
    /\ \A d, e \in Desktops : Alive(d) /\ Alive(e) => d = e
    /\ wm.desktopId = None =>
          /\ faults \subseteq {"no window"}
          /\ \A i \in Slots : wm.win[i].proc \notin Windowed
          /\ \A p \in Procs : pc[p] = "unborn" \/ (p \in Desktops /\ pc[p] \in {"create", "poll", "gone"})
          /\ faults = {} => \A p \in Procs : pc[p] # "poll"
    /\ wm.desktopId # None /\ "desktop closed" \notin faults =>
          wm.win[wm.desktopId].proc \in Desktops /\ Owns(wm.win[wm.desktopId].proc)

\* The popup has an owner that has not closed it, and as long as there was only one startWindow nobody
\* takes its messages away.
PopupOK ==
    /\ wm.popup.caller # None =>
          wm.popup.proc \in StartWindows /\ Started(wm.popup.proc) /\ pc[wm.popup.proc] # "dead"
    /\ \A s \in StartWindows : pc[s] = "take" =>
          wm.popup.q # <<>> \/ \E t \in StartWindows \ {s} : pc[t] # "unborn"

Inv == /\ Typed /\ OrderOK /\ LinksSane /\ OwnersOK /\ ListedOwned /\ DesktopOK /\ PopupOK
       /\ OnlyKnownFailures

-----------------------------------------------------------------------------
(* Walking the list. *)

Links == [Slots -> Slots \cup {None}]

\* w is the walk of k steps along f from first.
Walks(w, f, first, k) == /\ w \in [0 .. k -> Slots \cup {None}]
                         /\ w[0] = first
                         /\ \A n \in 1 .. k : w[n] = follow(f, w[n - 1])

\* There is a walk of any length.
LEMMA WalkExists ==
  ASSUME NEW f \in Links, NEW first \in Slots \cup {None}
  PROVE  \A k \in Nat : \E w : Walks(w, f, first, k)
<1> DEFINE Short == {k \in Nat : ~ \E w : Walks(w, f, first, k)}
<1>1. SUFFICES ASSUME Short # {} PROVE FALSE
  OBVIOUS
<1>2. PICK k \in Short : \A j \in Short : ~(j < k)
  <2>1. \E x \in Short : \A y \in Short : <<y, x>> \notin OpToRel(<, Nat)
    BY <1>1, WFMin, NatLessThanWellFounded
  <2> QED
    BY <2>1 DEF OpToRel
<1>3. k # 0
  <2>1. Walks([n \in 0 .. 0 |-> first], f, first, 0)
    BY DEF Walks
  <2> QED
    BY <1>2, <2>1
<1>4. PICK w : Walks(w, f, first, k - 1)
  <2>1. k - 1 \in Nat /\ k - 1 < k
    BY <1>3
  <2>2. k - 1 \notin Short
    BY <1>2, <2>1
  <2> QED
    BY <2>1, <2>2
<1>5. Walks([n \in 0 .. k |-> IF n = k THEN follow(f, w[k - 1]) ELSE w[n]], f, first, k)
  <2> DEFINE v == [n \in 0 .. k |-> IF n = k THEN follow(f, w[k - 1]) ELSE w[n]]
  <2>1. /\ \A n \in 0 .. k - 1 : n # k /\ n \in 0 .. k /\ w[n] \in Slots \cup {None}
        /\ k \in Nat /\ k # 0 /\ k - 1 \in 0 .. k - 1
        /\ \A n \in 0 .. k : n = k \/ n \in 0 .. k - 1
    BY <1>3, <1>4 DEF Walks
  <2>2. follow(f, w[k - 1]) \in Slots \cup {None}
    BY <2>1 DEF follow, Links
  <2>3. v \in [0 .. k -> Slots \cup {None}]
    BY <2>1, <2>2
  <2>4. v[0] = first
    BY <1>4, <2>1 DEF Walks
  <2>5. ASSUME NEW n \in 1 .. k PROVE v[n] = follow(f, v[n - 1])
    <3>1. n - 1 \in 0 .. k - 1 /\ n \in 0 .. k /\ (n # k => n \in 1 .. k - 1)
      BY <2>1
    <3>2. v[n - 1] = w[n - 1]
      BY <2>1, <3>1
    <3>3. CASE n = k
      BY <2>1, <3>1, <3>2, <3>3
    <3>4. CASE n # k
      BY <1>4, <2>1, <3>1, <3>2, <3>4 DEF Walks
    <3> QED
      BY <3>3, <3>4
  <2> QED
    BY <2>3, <2>4, <2>5 DEF Walks
<1> QED
  BY <1>2, <1>5

\* chain() is that walk over all slots.
LEMMA ChainWalks ==
  ASSUME NEW f \in Links, NEW first \in Slots \cup {None}
  PROVE  Walks(chain(f, first), f, first, MAX_WINDOW_CNT)
<1> DEFINE Step(w) == [n \in 0 .. MAX_WINDOW_CNT |-> IF n = 0 THEN first ELSE follow(f, w[n - 1])]
<1>1. PICK w : Walks(w, f, first, MAX_WINDOW_CNT)
  BY WalkExists, WindowCntAssumption
<1>2. w = Step(w)
  <2>1. \A n \in 0 .. MAX_WINDOW_CNT : n = 0 \/ n \in 1 .. MAX_WINDOW_CNT
    BY WindowCntAssumption
  <2>2. w = [n \in 0 .. MAX_WINDOW_CNT |-> w[n]]
    BY <1>1 DEF Walks
  <2>3. \A n \in 0 .. MAX_WINDOW_CNT : w[n] = IF n = 0 THEN first ELSE follow(f, w[n - 1])
    BY <1>1, <2>1 DEF Walks
  <2> QED
    BY <2>2, <2>3
<1>3. chain(f, first) = CHOOSE v : v = Step(v)
  BY DEF chain
<1>4. chain(f, first) = Step(chain(f, first))
  BY <1>2, <1>3
<1> DEFINE c == chain(f, first)
<1>5. c = Step(c)
  BY <1>4
<1> HIDE DEF c
<1>6. /\ c[0] = first
      /\ \A n \in 1 .. MAX_WINDOW_CNT : c[n] = follow(f, c[n - 1])
  <2>1. \A n \in 0 .. MAX_WINDOW_CNT : c[n] = IF n = 0 THEN first ELSE follow(f, c[n - 1])
    BY <1>5
  <2> QED
    BY <2>1, WindowCntAssumption
<1>7. \A n \in 0 .. MAX_WINDOW_CNT : c[n] = w[n]
  <2> DEFINE Differ == {n \in 0 .. MAX_WINDOW_CNT : c[n] # w[n]}
  <2>1. SUFFICES ASSUME Differ # {} PROVE FALSE
    OBVIOUS
  <2>2. PICK n \in Differ : \A j \in Differ : ~(j < n)
    <3>1. Differ \subseteq Nat
      OBVIOUS
    <3>2. \E x \in Differ : \A y \in Differ : <<y, x>> \notin OpToRel(<, Nat)
      BY <2>1, <3>1, WFMin, NatLessThanWellFounded
    <3> QED
      BY <3>1, <3>2 DEF OpToRel
  <2>3. n # 0
    BY <1>1, <1>6, <2>2 DEF Walks
  <2>4. n \in 1 .. MAX_WINDOW_CNT /\ n - 1 \in 0 .. MAX_WINDOW_CNT /\ n - 1 < n
    BY <2>2, <2>3, WindowCntAssumption
  <2>5. c[n - 1] = w[n - 1]
    BY <2>2, <2>4
  <2> QED
    BY <1>1, <1>6, <2>2, <2>4, <2>5 DEF Walks
<1>8. c = w
  <2>1. c = [n \in 0 .. MAX_WINDOW_CNT |-> c[n]]
    BY <1>5
  <2>2. w = [n \in 0 .. MAX_WINDOW_CNT |-> w[n]]
    BY <1>1 DEF Walks
  <2> QED
    BY <1>7, <2>1, <2>2
<1> QED
  BY <1>1, <1>8 DEF c

\* The walk meets nothing but slots.
LEMMA VisitedSlots ==
  ASSUME NEW L \in Lists
  PROVE  visited(L) \subseteq Slots
<1>1. Walks(walk(L), L.next, L.head, MAX_WINDOW_CNT)
  BY ChainWalks DEF Lists, Links, walk
<1>2. PICK w : w = walk(L)
  OBVIOUS
<1>3. \A n \in 0 .. MAX_WINDOW_CNT : w[n] \in Slots \cup {None}
  BY <1>1, <1>2 DEF Walks
<1> QED
  BY <1>2, <1>3 DEF visited

\* A walk along the links of a sequence of slots visits it in order, and then nothing.
LEMMA WalkVisits ==
  ASSUME NEW f \in Links, NEW first \in Slots \cup {None}, NEW t \in Seq(Slots),
         first = IF t = <<>> THEN None ELSE t[1],
         \A k \in 1 .. Len(t) : f[t[k]] = IF k = Len(t) THEN None ELSE t[k + 1]
  PROVE  \A n \in 0 .. MAX_WINDOW_CNT :
            chain(f, first)[n] = IF n < Len(t) THEN t[n + 1] ELSE None
<1> DEFINE c == chain(f, first)
           Off == {n \in 0 .. MAX_WINDOW_CNT : c[n] # IF n < Len(t) THEN t[n + 1] ELSE None}
<1>1. Walks(c, f, first, MAX_WINDOW_CNT)
  BY ChainWalks
<1> HIDE DEF c
<1>2. SUFFICES ASSUME Off # {} PROVE FALSE
  BY DEF c
<1>3. PICK n \in Off : \A j \in Off : ~(j < n)
  <2>1. Off \subseteq Nat
    OBVIOUS
  <2>2. \E x \in Off : \A y \in Off : <<y, x>> \notin OpToRel(<, Nat)
    BY <1>2, <2>1, WFMin, NatLessThanWellFounded
  <2> QED
    BY <2>1, <2>2 DEF OpToRel
<1>4. n # 0
  BY <1>1, <1>3 DEF Walks
<1>5. n \in 1 .. MAX_WINDOW_CNT /\ n - 1 \in 0 .. MAX_WINDOW_CNT /\ n - 1 < n
  BY <1>3, <1>4, WindowCntAssumption
<1>6. c[n - 1] = IF n - 1 < Len(t) THEN t[n] ELSE None
  BY <1>3, <1>5
<1>7. c[n] = follow(f, c[n - 1])
  BY <1>1, <1>5 DEF Walks
<1>8. CASE n - 1 < Len(t)
  <2>1. n \in 1 .. Len(t)
    BY <1>5, <1>8
  <2>2. c[n] = f[t[n]]
    BY <1>6, <1>7, <1>8, <2>1, SlotFacts DEF follow
  <2> QED
    BY <1>3, <2>1, <2>2
<1>9. CASE ~(n - 1 < Len(t))
  BY <1>3, <1>5, <1>6, <1>7, <1>9 DEF follow
<1> QED
  BY <1>8, <1>9

\* Both walks of a list that represents a z-order end, the forward one after having
\* visited every window.
LEMMA WalksEnd ==
  ASSUME NEW L, Ordered(L)
  PROVE  /\ ends(L)
         /\ visited(L) = {i \in Slots : ~isFree(L, i)}
         /\ \E n \in 0 .. MAX_WINDOW_CNT : backwards(L)[n] = None
         /\ \A n \in 0 .. MAX_WINDOW_CNT : backwards(L)[n] # None => ~isFree(L, backwards(L)[n])
<1>1. PICK s \in Seq(Slots) : Represents(L, s)
  BY DEF Ordered
<1>2. L.next \in Links /\ L.prev \in Links /\ L.head \in Slots \cup {None}
      /\ L.tail \in Slots \cup {None}
  BY <1>1 DEF Represents, Lists, Links
<1>3. Len(s) \in 0 .. MAX_WINDOW_CNT /\ MAX_WINDOW_CNT \in 0 .. MAX_WINDOW_CNT
  BY <1>1, OrderBound, WindowCntAssumption DEF Represents
<1>4. \A n \in 0 .. MAX_WINDOW_CNT : walk(L)[n] = IF n < Len(s) THEN s[n + 1] ELSE None
  <2>1. L.head = IF s = <<>> THEN None ELSE s[1]
    BY <1>1, EndsAre
  <2> QED
    BY <1>1, <1>2, <2>1, WalkVisits DEF Represents, LinksOK, walk
<1>5. ends(L)
  BY <1>3, <1>4 DEF ends
<1>6. visited(L) = Elems(s)
  <2>1. ASSUME NEW x \in visited(L) PROVE x \in Elems(s)
    <3>1. PICK n \in 0 .. MAX_WINDOW_CNT : x = walk(L)[n] /\ x # None
      BY <2>1 DEF visited
    <3>2. n < Len(s) /\ x = s[n + 1] /\ n + 1 \in 1 .. Len(s)
      BY <1>3, <1>4, <3>1
    <3> QED
      BY <3>2 DEF Elems
  <2>2. ASSUME NEW x \in Elems(s) PROVE x \in visited(L)
    <3>1. PICK k \in 1 .. Len(s) : x = s[k]
      BY <2>2 DEF Elems
    <3>2. k - 1 \in 0 .. MAX_WINDOW_CNT /\ k - 1 < Len(s) /\ k - 1 + 1 = k
      BY <1>3, <3>1
    <3>3. walk(L)[k - 1] = x
      BY <1>4, <3>1, <3>2
    <3> QED
      BY <3>1, <3>2, <3>3, SlotFacts DEF visited
  <2> QED
    BY <2>1, <2>2
<1>7. /\ backwards(L)[Len(s)] = None
      /\ \A n \in 0 .. MAX_WINDOW_CNT : backwards(L)[n] \in Elems(s) \cup {None}
  <2> DEFINE t == [k \in 1 .. Len(s) |-> s[Len(s) + 1 - k]]
  <2>1. t \in Seq(Slots) /\ Len(t) = Len(s)
    <3>1. \A k \in 1 .. Len(s) : Len(s) + 1 - k \in 1 .. Len(s)
      OBVIOUS
    <3>2. t \in [1 .. Len(s) -> Slots]
      BY <3>1
    <3> QED
      BY <3>2
  <2>2. \A k \in 1 .. Len(s) : t[k] = s[Len(s) + 1 - k] /\ Len(s) + 1 - k \in 1 .. Len(s)
    OBVIOUS
  <2> HIDE DEF t
  <2>3. L.tail = IF t = <<>> THEN None ELSE t[1]
    <3>1. CASE s = <<>>
      BY <1>1, <2>1, <3>1, EndsAre
    <3>2. CASE s # <<>>
      <4>1. Len(s) # 0 /\ 1 \in 1 .. Len(s) /\ Len(s) + 1 - 1 = Len(s)
        BY <3>2
      <4>2. t # <<>> /\ t[1] = s[Len(s)]
        BY <2>1, <2>2, <4>1
      <4> QED
        BY <1>1, <3>2, <4>2, EndsAre
    <3> QED
      BY <3>1, <3>2
  <2>4. ASSUME NEW k \in 1 .. Len(t) PROVE L.prev[t[k]] = IF k = Len(t) THEN None ELSE t[k + 1]
    <3>1. PICK j \in 1 .. Len(s) : j = Len(s) + 1 - k /\ t[k] = s[j]
      BY <2>1, <2>2
    <3>2. L.prev[s[j]] = IF j = 1 THEN None ELSE s[j - 1]
      BY <1>1 DEF Represents, LinksOK
    <3>3. k # Len(s) => k + 1 \in 1 .. Len(s) /\ Len(s) + 1 - (k + 1) = j - 1
      BY <2>1, <3>1
    <3>4. k # Len(s) => t[k + 1] = s[j - 1]
      BY <2>2, <3>3
    <3>5. k = Len(s) <=> j = 1
      BY <2>1, <3>1
    <3> QED
      BY <2>1, <3>1, <3>2, <3>4, <3>5
  <2>5. \A n \in 0 .. MAX_WINDOW_CNT :
           chain(L.prev, L.tail)[n] = IF n < Len(t) THEN t[n + 1] ELSE None
    BY <1>2, <2>1, <2>3, <2>4, WalkVisits
  <2>6. ASSUME NEW n \in 0 .. MAX_WINDOW_CNT PROVE backwards(L)[n] \in Elems(s) \cup {None}
    <3>1. CASE n < Len(s)
      <4>1. n + 1 \in 1 .. Len(s)
        BY <3>1
      <4>2. t[n + 1] \in Elems(s)
        BY <2>2, <4>1 DEF Elems
      <4> QED
        BY <2>1, <2>5, <3>1, <4>2 DEF backwards
    <3>2. CASE ~(n < Len(s))
      BY <2>1, <2>5, <3>2 DEF backwards
    <3> QED
      BY <3>1, <3>2
  <2> QED
    BY <1>3, <2>1, <2>5, <2>6 DEF backwards
<1>8. Elems(s) = {i \in Slots : ~isFree(L, i)}
  <2>1. Elems(s) \subseteq Slots
    BY <1>1, SlotFacts DEF Elems
  <2> QED
    BY <1>1, <2>1, ListedIs
<1> QED
  BY <1>3, <1>5, <1>6, <1>7, <1>8

-----------------------------------------------------------------------------
(* What an input event does. *)

\* Every window and the popup keep their owners, and no message is lost.
SameOwners(S, T) ==
    /\ T \in Managers
    /\ T.desktopId = S.desktopId
    /\ \A i \in Slots : /\ T.win[i].proc = S.win[i].proc
                        /\ S.win[i].q # <<>> => T.win[i].q # <<>>
    /\ T.popup.caller = S.popup.caller /\ T.popup.proc = S.popup.proc
    /\ S.popup.q # <<>> => T.popup.q # <<>>

\* Messages are delivered and buttons are noted, no window moves.
Quiet(S, T) == /\ SameOwners(S, T)
               /\ T.list = S.list
               /\ T.status = S.status \/ (T.status = "wild" /\ S.list.tail = None)

\* At most one window is focused: that of the desktop or one of the list.
Shifted(L, M, D) ==
    \/ M = L
    \/ \E i \in Slots : /\ ~focusWild(L, i)
                        /\ M = focusWindow(L, i)
                        /\ i = D \/ (Ordered(L) => ~isFree(L, i))

Moved(S, T) ==
    /\ SameOwners(S, T)
    /\ Shifted(S.list, T.list, S.desktopId)
    /\ \/ T.status = S.status
       \/ T.status = "wild" /\ (T.list.tail = None \/ ~Ordered(S.list))
       \/ T.status = "hang" /\ ~Ordered(S.list)

\* Steps that only touch buffers and list compose.
LEMMA SameOwnersTrans ==
  ASSUME NEW S, NEW T, NEW U, SameOwners(S, T), SameOwners(T, U)
  PROVE  SameOwners(S, U)
BY DEF SameOwners

\* So do those that only deliver messages,
LEMMA QuietTrans ==
  ASSUME NEW S, NEW T, NEW U, Quiet(S, T), Quiet(T, U)
  PROVE  Quiet(S, U)
BY SameOwnersTrans DEF Quiet

\* one that focuses a window followed by those,
LEMMA MovedQuiet ==
  ASSUME NEW S, NEW T, NEW U, Moved(S, T), Quiet(T, U)
  PROVE  Moved(S, U)
BY SameOwnersTrans DEF Quiet, Moved

\* and the other way round, unless something went wrong before.
LEMMA QuietMoved ==
  ASSUME NEW S, NEW T, NEW U, Quiet(S, T), T.status = S.status, Moved(T, U)
  PROVE  Moved(S, U)
<1>1. SameOwners(S, U) /\ T.list = S.list /\ T.desktopId = S.desktopId
  BY SameOwnersTrans DEF Quiet, Moved, SameOwners
<1> QED
  BY <1>1 DEF Moved

\* Focusing no window is a case of focusing at most one.
LEMMA QuietIsMoved ==
  ASSUME NEW S, NEW T, Quiet(S, T)
  PROVE  Moved(S, T)
BY DEF Quiet, Moved, Shifted

\* A message buffer keeps its bound.
LEMMA DeliverBound ==
  ASSUME NEW q \in Queues, NEW m \in Kinds
  PROVE  deliver(q, m) \in Queues /\ (q # <<>> => deliver(q, m) # <<>>)
<1>1. q \in Seq(Kinds) /\ Len(q) <= MSG_BUF_SIZE /\ MSG_BUF_SIZE \in Nat
  BY ConstantsAssumption DEF Queues
<1>2. CASE Len(q) >= MSG_BUF_SIZE
  BY <1>2 DEF deliver
<1>3. CASE ~(Len(q) >= MSG_BUF_SIZE)
  <2>1. Append(q, m) \in Seq(Kinds)
    BY <1>1
  <2>2. Len(Append(q, m)) = Len(q) + 1
    BY <1>1
  <2>3. Append(q, m) # <<>>
    <3>1. Len(Append(q, m)) # 0
      BY <1>1, <2>2
    <3>2. Len(<<>>) = 0
      OBVIOUS
    <3> QED
      BY <3>1, <3>2
  <2>4. Len(Append(q, m)) <= MSG_BUF_SIZE
    BY <1>1, <1>3, <2>2
  <2> QED
    BY <1>3, <2>1, <2>3, <2>4 DEF deliver, Queues
<1> QED
  BY <1>2, <1>3

\* dispatchMessage() writes outside the table only when there is no window to name.
LEMMA DispatchQuiet ==
  ASSUME NEW S \in Managers, NEW i \in Slots \cup {None}, NEW m \in Kinds,
         i = None => S.list.tail = None
  PROVE  LET T == dispatchMessage(S, i, m)
         IN  Quiet(S, T) /\ (i # None => T.status = S.status)
<1>1. CASE i = None
  <2>1. dispatchMessage(S, i, m) = [S EXCEPT !.status = "wild"]
    BY <1>1 DEF dispatchMessage
  <2>2. [S EXCEPT !.status = "wild"] \in Managers
    BY DEF Managers
  <2> QED
    BY <1>1, <2>1, <2>2 DEF Quiet, SameOwners, Managers
<1>2. CASE i # None
  <2>1. i \in Slots /\ S.win \in [Slots -> Window]
    BY <1>2 DEF Managers
  <2>2. PICK W : W = [S.win EXCEPT ![i].q = deliver(@, m)]
    OBVIOUS
  <2>3. W[i] = [S.win[i] EXCEPT !.q = deliver(@, m)] /\ (\A j \in Slots \ {i} : W[j] = S.win[j])
    BY <2>1, <2>2
  <2>4. S.win[i] \in Window /\ S.win[i].q \in Queues
    BY <2>1 DEF Window
  <2>5. W[i] \in Window /\ W[i].proc = S.win[i].proc /\ W[i].q = deliver(S.win[i].q, m)
    BY <2>3, <2>4, DeliverBound DEF Window
  <2>6. W \in [Slots -> Window]
    BY <2>1, <2>2, <2>3, <2>5
  <2>7. dispatchMessage(S, i, m) = [S EXCEPT !.win = W]
    BY <1>2, <2>2 DEF dispatchMessage
  <2>8. [S EXCEPT !.win = W] \in Managers
    BY <2>6 DEF Managers
  <2>9. \A j \in Slots : W[j].proc = S.win[j].proc /\ (S.win[j].q # <<>> => W[j].q # <<>>)
    BY <2>3, <2>4, <2>5, DeliverBound
  <2> QED
    BY <2>7, <2>8, <2>9 DEF Quiet, SameOwners, Managers
<1> QED
  BY <1>1, <1>2

\* A message to the popup changes the popup's buffer only.
LEMMA PopupQuiet ==
  ASSUME NEW S \in Managers, NEW m \in Kinds
  PROVE  LET T == [S EXCEPT !.popup.q = deliver(@, m)]
         IN  Quiet(S, T) /\ T.status = S.status
<1>1. S.popup \in Popup /\ S.popup.q \in Queues
  BY DEF Managers, Popup
<1>2. PICK P : P = [S.popup EXCEPT !.q = deliver(@, m)]
  OBVIOUS
<1>3. P \in Popup /\ P.caller = S.popup.caller /\ P.proc = S.popup.proc
      /\ P.q = deliver(S.popup.q, m)
  BY <1>1, <1>2, DeliverBound DEF Popup
<1>4. [S EXCEPT !.popup.q = deliver(@, m)] = [S EXCEPT !.popup = P]
  BY <1>2
<1>5. [S EXCEPT !.popup = P] \in Managers
  BY <1>3 DEF Managers
<1>6. S.popup.q # <<>> => P.q # <<>>
  BY <1>1, <1>3, DeliverBound
<1> QED
  BY <1>3, <1>4, <1>5, <1>6 DEF Quiet, SameOwners, Managers

\* The flags that remember the button down are read by nobody else.
LEMMA FlagsQuiet ==
  ASSUME NEW S \in Managers, NEW b \in BOOLEAN
  PROVE  /\ Quiet(S, S)
         /\ Quiet(S, [S EXCEPT !.onTitle = b])
         /\ Quiet(S, [S EXCEPT !.onContent = b])
         /\ Quiet(S, [S EXCEPT !.onPopup = b])
         /\ Quiet(S, [S EXCEPT !.onPopup = FALSE, !.onContent = FALSE, !.onTitle = FALSE])
<1>1. Quiet(S, S)
  BY DEF Quiet, SameOwners
<1>2. Quiet(S, [S EXCEPT !.onTitle = b])
  BY DEF Quiet, SameOwners, Managers
<1>3. Quiet(S, [S EXCEPT !.onContent = b])
  BY DEF Quiet, SameOwners, Managers
<1>4. Quiet(S, [S EXCEPT !.onPopup = b])
  BY DEF Quiet, SameOwners, Managers
<1>5. Quiet(S, [S EXCEPT !.onPopup = FALSE, !.onContent = FALSE, !.onTitle = FALSE])
  BY DEF Quiet, SameOwners, Managers
<1> QED
  BY <1>1, <1>2, <1>3, <1>4, <1>5

\* What the event functions find.
Ready(S) == S \in Managers /\ Chained(S.list)

\* Delivering a message leaves the links as they are.
LEMMA QuietReady ==
  ASSUME NEW S, NEW T, Ready(S), Quiet(S, T)
  PROVE  Ready(T)
BY DEF Ready, Quiet, SameOwners

\* focusWindow() stays within the table for a window of the list and for the desktop,
\* as long as the list is in order.
LEMMA FocusMoved ==
  ASSUME NEW S, Ready(S), NEW i \in Slots \cup {None},
         i = S.desktopId \/ i = None \/ (Ordered(S.list) => ~isFree(S.list, i))
  PROVE  Moved(S, focus(S, i))
<1>1. S \in Managers /\ Chained(S.list) /\ S.list \in Lists
  BY DEF Ready, Managers
<1>2. CASE i = None
  <2>1. focus(S, i) = [S EXCEPT !.list = S.list]
    BY <1>2 DEF focus, focusWild, focusWindow
  <2>2. [S EXCEPT !.list = S.list] = S
    BY <1>1 DEF Managers
  <2>3. Quiet(S, S)
    BY <1>1, FlagsQuiet
  <2> QED
    BY <2>1, <2>2, <2>3, QuietIsMoved
<1>3. CASE i # None /\ focusWild(S.list, i)
  <2>1. focus(S, i) = [S EXCEPT !.status = "wild"]
    BY <1>3 DEF focus
  <2>2. S.list.tail = None \/ ~Ordered(S.list)
    BY <1>3, FocusOrdered
  <2>3. [S EXCEPT !.status = "wild"] \in Managers
    BY <1>1 DEF Managers
  <2> QED
    BY <1>1, <2>1, <2>2, <2>3 DEF Moved, SameOwners, Shifted, Managers
<1>4. CASE i # None /\ ~focusWild(S.list, i)
  <2>1. PICK M : M = focusWindow(S.list, i)
    OBVIOUS
  <2>2. focus(S, i) = [S EXCEPT !.list = M]
    BY <1>4, <2>1 DEF focus
  <2>3. M \in Lists
    BY <1>1, <1>4, <2>1, FocusChained DEF Chained
  <2>4. [S EXCEPT !.list = M] \in Managers
    BY <1>1, <2>3 DEF Managers
  <2>5. Shifted(S.list, M, S.desktopId)
    BY <1>4, <2>1 DEF Shifted
  <2> QED
    BY <1>1, <2>2, <2>4, <2>5 DEF Moved, SameOwners, Managers
<1> QED
  BY <1>2, <1>3, <1>4

\* A loop that never ends stands for a list that is out of order.
LEMMA HangMoved ==
  ASSUME NEW S \in Managers, ~Ordered(S.list)
  PROVE  Moved(S, [S EXCEPT !.status = "hang"])
<1>1. [S EXCEPT !.status = "hang"] \in Managers
  BY DEF Managers
<1> QED
  BY <1>1 DEF Moved, SameOwners, Shifted, Managers

\* The icon that minimizes all windows sends messages and no more.
LEMMA ShowDesktopQuiet ==
  ASSUME NEW S \in Managers
  PROVE  Quiet(S, showDesktop(S))
<1>1. PICK W : W = [i \in Slots |->
                      IF i \in visited(S.list) \ {S.desktopId} /\ ~S.win[i].minimized
                        THEN [S.win[i] EXCEPT !.q = deliver(@, "MINIMIZE")]
                        ELSE S.win[i]]
  OBVIOUS
<1>2. ASSUME NEW i \in Slots
      PROVE  /\ W[i] \in Window /\ W[i].proc = S.win[i].proc
             /\ S.win[i].q # <<>> => W[i].q # <<>>
  <2>1. S.win[i] \in Window /\ S.win[i].q \in Queues /\ "MINIMIZE" \in Kinds
    BY DEF Managers, Window, Kinds
  <2>2. PICK q : q = deliver(S.win[i].q, "MINIMIZE")
    OBVIOUS
  <2>3. q \in Queues /\ (S.win[i].q # <<>> => q # <<>>)
    BY <2>1, <2>2, DeliverBound
  <2>4. W[i] = S.win[i] \/ W[i] = [S.win[i] EXCEPT !.q = q]
    BY <1>1, <2>2
  <2> QED
    BY <2>1, <2>3, <2>4 DEF Window
<1>3. W \in [Slots -> Window]
  BY <1>1, <1>2
<1>4. showDesktop(S) = [S EXCEPT !.win = W]
  BY <1>1 DEF showDesktop
<1>5. [S EXCEPT !.win = W] \in Managers
  BY <1>3 DEF Managers
<1> QED
  BY <1>2, <1>4, <1>5 DEF Quiet, SameOwners, Managers

\* A click on the dock focuses a window of the list, if it focuses one.
LEMMA DockMoved ==
  ASSUME NEW S, Ready(S), NEW m \in Kinds, NEW place \in Places \cup {None},
         S.list.tail = S.desktopId
  PROVE  Moved(S, handleDesktopDockClick(S, m, place))
<1> DEFINE T == handleDesktopDockClick(S, m, place)
<1>1. S \in Managers /\ S.desktopId \in Slots \cup {None} /\ S.list \in Lists
  BY DEF Ready, Managers
<1>2. CASE ~ends(S.list)
  <2>1. T = [S EXCEPT !.status = "hang"]
    BY <1>2 DEF handleDesktopDockClick
  <2> QED
    BY <1>1, <1>2, <2>1, WalksEnd, HangMoved
<1>3. CASE ends(S.list) /\ place \in visited(S.list) \ {S.desktopId}
  <2>2. place \in Slots
    BY <1>1, <1>3, VisitedSlots
  <2>1. T = IF S.win[place].minimized THEN dispatchMessage(S, place, "MAXIMIZE") ELSE focus(S, place)
    <3>1. place # ShowDesktopIcon /\ place # StartIcon
      BY <2>2, WindowCntAssumption DEF Slots, ShowDesktopIcon, StartIcon
    <3> QED
      BY <1>3, <3>1 DEF handleDesktopDockClick
  <2>3. "MAXIMIZE" \in Kinds /\ place # None
    BY <1>3 DEF Kinds, visited
  <2>4. Ordered(S.list) => ~isFree(S.list, place)
    BY <1>3, WalksEnd
  <2>5. Quiet(S, dispatchMessage(S, place, "MAXIMIZE"))
    BY <1>1, <2>2, <2>3, DispatchQuiet
  <2>6. Moved(S, focus(S, place))
    BY <2>2, <2>4, FocusMoved
  <2> QED
    BY <2>1, <2>5, <2>6, QuietIsMoved
<1>4. CASE ends(S.list) /\ place \notin visited(S.list) \ {S.desktopId}
  <2>1. \/ T = showDesktop(S)
        \/ T = dispatchMessage(S, S.desktopId, m)
        \/ T = S
    BY <1>4, WindowCntAssumption DEF handleDesktopDockClick, ShowDesktopIcon, StartIcon
  <2>2. Quiet(S, showDesktop(S)) /\ Quiet(S, S)
    BY <1>1, ShowDesktopQuiet, FlagsQuiet
  <2>3. Quiet(S, dispatchMessage(S, S.desktopId, m))
    BY <1>1, DispatchQuiet
  <2> QED
    BY <2>1, <2>2, <2>3, QuietIsMoved
<1> QED
  BY <1>2, <1>3, <1>4

\* A message to the focused window.
LEMMA TailQuiet ==
  ASSUME NEW S, Ready(S), NEW m \in Kinds
  PROVE  Quiet(S, dispatchMessage(S, S.list.tail, m))
<1>1. S \in Managers /\ S.list.tail \in Slots \cup {None}
  BY DEF Ready, Managers, Lists
<1> QED
  BY <1>1, DispatchQuiet

\* Dragging reads the focused window: without any window it reads outside the table.
LEMMA MoveQuiet ==
  ASSUME NEW S, Ready(S)
  PROVE  Quiet(S, mouseMove(S))
<1>1. S \in Managers /\ "INPUT" \in Kinds
  BY DEF Ready, Kinds
<1>2. Quiet(S, S) /\ Quiet(S, dispatchMessage(S, S.list.tail, "INPUT"))
  BY <1>1, FlagsQuiet, TailQuiet
<1>3. S.list.tail = None => Quiet(S, [S EXCEPT !.status = "wild"])
  BY <1>1 DEF Quiet, SameOwners, Managers
<1> QED
  BY <1>2, <1>3 DEF mouseMove

\* The search for the window under the mouse finds one of those it looks for.
LEMMA FirstHitIs ==
  ASSUME NEW S, NEW hits, searchEnds(S, hits)
  PROVE  /\ firstHit(S, hits) \in canHit(S, hits) \cup {None}
         /\ \E n \in 0 .. MAX_WINDOW_CNT : firstHit(S, hits) = backwards(S.list)[n]
<1> DEFINE stop == canHit(S, hits) \cup {None}
           w == backwards(S.list)
           Hit == {n \in 0 .. MAX_WINDOW_CNT : w[n] \in stop}
<1>1. Hit # {} /\ Hit \subseteq Nat
  BY DEF searchEnds
<1>2. PICK n \in Hit : \A j \in Hit : ~(j < n)
  <2>1. \E x \in Hit : \A y \in Hit : <<y, x>> \notin OpToRel(<, Nat)
    BY <1>1, WFMin, NatLessThanWellFounded
  <2> QED
    BY <1>1, <2>1 DEF OpToRel
<1>3. \A m \in 0 .. n - 1 : w[m] \notin stop
  <2>1. \A m \in 0 .. n - 1 : m \in 0 .. MAX_WINDOW_CNT /\ m < n
    BY <1>2, WindowCntAssumption
  <2> QED
    BY <1>2, <2>1
<1> QED
  BY <1>2, <1>3 DEF firstHit

\* A press focuses a window, or the desktop.
LEMMA PressedMoved ==
  ASSUME NEW S, Ready(S), NEW hits \in UnderMouse
  PROVE  Moved(S, pressed(S, hits))
<1> DEFINE C == [S EXCEPT !.popup.q = deliver(@, "CLOSE")]
<1>1. S \in Managers /\ "CLOSE" \in Kinds /\ hits \subseteq Slots
  BY DEF Ready, Kinds, UnderMouse
<1>2. Quiet(S, C) /\ C.status = S.status
  BY <1>1, PopupQuiet
<1>3. Ready(C) /\ C.list = S.list /\ C.desktopId = S.desktopId
  BY <1>2, QuietReady DEF Quiet, SameOwners
<1>4. pressed(S, hits) = IF ~searchEnds(S, hits) THEN [C EXCEPT !.status = "hang"]
                         ELSE IF firstHit(S, hits) # None THEN focus(C, firstHit(S, hits))
                         ELSE focus(C, S.desktopId)
  BY DEF pressed
<1> HIDE DEF C
<1>5. CASE ~searchEnds(S, hits)
  <2>1. ~Ordered(S.list)
    BY <1>5, WalksEnd DEF searchEnds
  <2>2. Moved(C, [C EXCEPT !.status = "hang"])
    BY <1>3, <2>1, HangMoved DEF Ready
  <2> QED
    BY <1>2, <1>4, <1>5, <2>2, QuietMoved
<1>6. CASE searchEnds(S, hits) /\ firstHit(S, hits) # None
  <2>1. PICK i : i = firstHit(S, hits)
    OBVIOUS
  <2>2. i \in Slots /\ i # None
    BY <1>1, <1>6, <2>1, FirstHitIs DEF canHit
  <2>3. Ordered(S.list) => ~isFree(S.list, i)
    BY <1>6, <2>1, <2>2, FirstHitIs, WalksEnd
  <2>4. Moved(C, focus(C, i))
    BY <1>3, <2>2, <2>3, FocusMoved
  <2> QED
    BY <1>2, <1>4, <1>6, <2>1, <2>4, QuietMoved
<1>7. CASE searchEnds(S, hits) /\ firstHit(S, hits) = None
  <2>1. Moved(C, focus(C, S.desktopId))
    BY <1>1, <1>3, FocusMoved DEF Managers
  <2> QED
    BY <1>2, <1>4, <1>7, <2>1, QuietMoved
<1> QED
  BY <1>5, <1>6, <1>7

\* What is pressed in the window that has just been focused.
LEMMA DownMoved ==
  ASSUME NEW S, Ready(S), NEW F, Moved(S, F), NEW part \in Parts, NEW content \in BOOLEAN
  PROVE  Moved(S, mouseDown(F, part, content))
<1>1. F \in Managers /\ F.list.tail \in Slots \cup {None}
  BY DEF Moved, SameOwners, Managers, Lists
<1>2. CASE F.status # "running"
  BY <1>2 DEF mouseDown
<1>3. CASE F.status = "running" /\ F.list.tail = None
  <2>1. Quiet(F, [F EXCEPT !.status = "wild"])
    BY <1>1, <1>3 DEF Quiet, SameOwners, Managers
  <2> QED
    BY <1>3, <2>1, MovedQuiet DEF mouseDown
<1>4. CASE F.status = "running" /\ F.list.tail # None
  <2> DEFINE T == pressTitle(F, part)
             D(G, m) == dispatchMessage(G, G.list.tail, m)
  <2>1. {"CLOSE", "MINIMIZE", "INPUT"} \subseteq Kinds
    BY DEF Kinds
  <2>2. /\ Quiet(F, dispatchMessage(F, F.list.tail, "CLOSE"))
        /\ Quiet(F, dispatchMessage(F, F.list.tail, "MINIMIZE"))
        /\ Quiet(F, F) /\ Quiet(F, [F EXCEPT !.onTitle = TRUE])
    BY <1>1, <1>4, <2>1, DispatchQuiet, FlagsQuiet
  <2>3. Quiet(F, T)
    BY <2>2 DEF pressTitle
  <2>4. T \in Managers /\ T.list.tail \in Slots /\ T.list.tail # None
    BY <1>1, <1>4, <2>3 DEF Quiet, SameOwners
  <2> HIDE DEF T
  <2>5. Quiet(T, dispatchMessage(T, T.list.tail, "INPUT"))
    BY <2>1, <2>4, DispatchQuiet
  <2>6. Quiet(F, pressContent(T))
    <3>1. PICK U : U = dispatchMessage(T, T.list.tail, "INPUT")
      OBVIOUS
    <3>2. U \in Managers /\ TRUE \in BOOLEAN
      BY <2>5, <3>1 DEF Quiet, SameOwners
    <3>3. Quiet(U, [U EXCEPT !.onContent = TRUE])
      BY <3>2, FlagsQuiet
    <3> QED
      BY <2>3, <2>5, <3>1, <3>3, QuietTrans DEF pressContent
  <2>7. mouseDown(F, part, content) = IF content THEN pressContent(T) ELSE T
    BY <1>4 DEF mouseDown, T
  <2> QED
    BY <2>3, <2>6, <2>7, MovedQuiet
<1> QED
  BY <1>2, <1>3, <1>4

\* Letting go of the button sends at most one message.
LEMMA UpQuiet ==
  ASSUME NEW S \in Managers, NEW m \in Kinds
  PROVE  Quiet(S, mouseUp(S, m))
<1>1. PICK U : U = IF S.onContent THEN dispatchMessage(S, S.list.tail, m) ELSE S
  OBVIOUS
<1>2. Quiet(S, U)
  <2>1. Quiet(S, S)
    BY FlagsQuiet
  <2>2. S.list.tail \in Slots \cup {None}
    BY DEF Managers, Lists
  <2>3. Quiet(S, dispatchMessage(S, S.list.tail, m))
    BY <2>2, DispatchQuiet
  <2> QED
    BY <1>1, <2>1, <2>3
<1>3. Quiet(U, [U EXCEPT !.onPopup = FALSE, !.onContent = FALSE, !.onTitle = FALSE])
  BY <1>2, FlagsQuiet DEF Quiet, SameOwners
<1> QED
  BY <1>1, <1>2, <1>3, QuietTrans DEF mouseUp

\* A click goes to the popup, the dock or the focused window.
LEMMA ClickMoved ==
  ASSUME NEW S, Ready(S), NEW m \in {"LEFT", "DBCLICK"}, NEW place \in Places \cup {None}
  PROVE  Moved(S, mouseClick(S, m, place))
<1>1. S \in Managers /\ m \in Kinds /\ "INPUT" \in Kinds
  BY DEF Ready, Kinds
<1>2. PICK C : C = [S EXCEPT !.onContent = FALSE]
  OBVIOUS
<1>3. Quiet(S, C) /\ C.status = S.status
  BY <1>1, <1>2, FlagsQuiet DEF Managers
<1>4. Ready(C) /\ C.list = S.list /\ C.desktopId = S.desktopId
  BY <1>3, QuietReady DEF Quiet, SameOwners
<1>5. PICK U : /\ Moved(S, U)
               /\ mouseClick(S, m, place) = mouseUp(U, m)
  <2>1. CASE S.onPopup
    <3>1. PICK P : P = [S EXCEPT !.onPopup = FALSE]
      OBVIOUS
    <3>2. Quiet(S, P)
      BY <1>1, <3>1, FlagsQuiet
    <3>3. Quiet(P, [P EXCEPT !.popup.q = deliver(@, m)])
      BY <1>1, <3>2, PopupQuiet DEF Quiet, SameOwners
    <3>4. [S EXCEPT !.onPopup = FALSE, !.popup.q = deliver(@, m)] = [P EXCEPT !.popup.q = deliver(@, m)]
      BY <1>1, <3>1 DEF Managers
    <3> QED
      BY <2>1, <3>2, <3>3, <3>4, QuietTrans, QuietIsMoved DEF mouseClick
  <2>2. CASE ~S.onPopup /\ S.onContent /\ S.list.tail = S.desktopId /\ place # None
    <3>1. Moved(C, handleDesktopDockClick(C, m, place))
      BY <1>1, <1>4, <2>2, DockMoved
    <3> QED
      BY <1>2, <1>3, <2>2, <3>1, QuietMoved DEF mouseClick
  <2>3. CASE ~S.onPopup /\ S.onContent /\ ~(S.list.tail = S.desktopId /\ place # None)
    <3>1. PICK n \in Kinds : n = IF m = "LEFT" THEN "INPUT" ELSE m
      BY <1>1
    <3>2. Quiet(C, dispatchMessage(C, S.list.tail, n))
      BY <1>4, <3>1, TailQuiet
    <3> QED
      BY <1>2, <1>3, <2>3, <3>1, <3>2, QuietTrans, QuietIsMoved DEF mouseClick
  <2>4. CASE ~S.onPopup /\ ~S.onContent
    <3>1. Quiet(S, S)
      BY <1>1, FlagsQuiet
    <3> QED
      BY <2>4, <3>1, QuietIsMoved DEF mouseClick
  <2> QED
    BY <2>1, <2>2, <2>3, <2>4
<1>6. Quiet(U, mouseUp(U, m))
  <2>1. U \in Managers
    BY <1>5 DEF Moved, SameOwners
  <2> QED
    BY <1>1, <2>1, UpQuiet
<1> QED
  BY <1>5, <1>6, MovedQuiet

\* Whatever the user does.
LEMMA EventMoved ==
  ASSUME Ready(wm), InputEvent
  PROVE  /\ Moved(wm, wm')
         /\ wm.status = "running" /\ events < MaxEvents /\ events' = events + 1
         /\ UNCHANGED <<pc, handler, faults>>
<1>1. wm \in Managers /\ {"INPUT", "LEFT", "DBCLICK"} \subseteq Kinds
  BY DEF Ready, Kinds
<1>2. CASE keyEvent
  BY <1>1, <1>2, TailQuiet, QuietIsMoved DEF keyEvent, Event
<1>3. CASE moveEvent
  BY <1>3, MoveQuiet, QuietIsMoved DEF moveEvent, Event
<1>4. ASSUME NEW hits \in UnderMouse, downEvent(hits)
      PROVE  Moved(wm, wm') /\ wm.status = "running" /\ events < MaxEvents
             /\ events' = events + 1 /\ UNCHANGED <<pc, handler, faults>>
  <2>1. PICK part \in Parts, content \in BOOLEAN :
           Event(mouseDown(pressed(wm, hits), part, content))
    BY <1>4 DEF downEvent
  <2>2. Moved(wm, mouseDown(pressed(wm, hits), part, content))
    BY PressedMoved, DownMoved
  <2> QED
    BY <2>1, <2>2 DEF Event
<1>5. CASE downOnPopupEvent
  <2>1. Quiet(wm, [wm EXCEPT !.onPopup = TRUE])
    BY <1>1, FlagsQuiet
  <2> QED
    BY <1>5, <2>1, QuietIsMoved DEF downOnPopupEvent, Event
<1>6. ASSUME NEW m \in {"LEFT", "DBCLICK"}, NEW place \in Places \cup {None}, clickEvent(m, place)
      PROVE  Moved(wm, wm') /\ wm.status = "running" /\ events < MaxEvents
             /\ events' = events + 1 /\ UNCHANGED <<pc, handler, faults>>
  BY <1>6, ClickMoved DEF clickEvent, Event
<1>7. CASE upEvent
  <2>1. Quiet(wm, mouseUp(wm, "INPUT"))
    BY <1>1, UpQuiet
  <2> QED
    BY <1>7, <2>1, QuietIsMoved DEF upEvent, Event
<1> QED
  BY <1>2, <1>3, <1>4, <1>5, <1>6, <1>7 DEF InputEvent

-----------------------------------------------------------------------------
(* The invariant is preserved. *)

\* An empty list has no window, and one with a window is not empty.
LEMMA EmptyIs ==
  ASSUME NEW L, Ordered(L), L.tail = None
  PROVE  \A i \in Slots : isFree(L, i)
<1>1. PICK s \in Seq(Slots) : Represents(L, s)
  BY DEF Ordered
<1>2. s = <<>>
  BY <1>1, EndsAre
<1> QED
  BY <1>1, <1>2, ListedIs DEF Elems

\* What moving a window does to the list.
LEMMA ShiftedList ==
  ASSUME NEW L, NEW M, NEW D \in Slots \cup {None}, Shifted(L, M, D), Chained(L)
  PROVE  /\ Chained(M)
         /\ \A x \in Slots : L.next[x] # x => M.next[x] # x
         /\ Ordered(L) /\ (D = None <=> L.tail = None) =>
               /\ Ordered(M) /\ (D = None <=> M.tail = None)
               /\ (D # None => ~isFree(L, D)) => \A x \in Slots : isFree(M, x) <=> isFree(L, x)
<1>1. CASE M = L
  BY <1>1
<1>2. ASSUME NEW i \in Slots, ~focusWild(L, i), M = focusWindow(L, i),
             i = D \/ (Ordered(L) => ~isFree(L, i))
      PROVE  /\ Chained(M)
             /\ \A x \in Slots : L.next[x] # x => M.next[x] # x
             /\ Ordered(L) /\ (D = None <=> L.tail = None) =>
                   /\ Ordered(M) /\ (D = None <=> M.tail = None)
                   /\ (D # None => ~isFree(L, D)) => \A x \in Slots : isFree(M, x) <=> isFree(L, x)
  <2>1. Chained(M) /\ \A x \in Slots : L.next[x] # x => M.next[x] # x
    BY <1>2, FocusChained
  <2>2. ASSUME Ordered(L), D = None <=> L.tail = None
        PROVE  /\ Ordered(M) /\ (D = None <=> M.tail = None)
               /\ (D # None => ~isFree(L, D)) => \A x \in Slots : isFree(M, x) <=> isFree(L, x)
    <3>1. L.tail # None
      <4>1. i # None
        BY DEF None, Slots
      <4> QED
        BY <1>2, <2>2, <4>1, EmptyIs
    <3>2. /\ Ordered(M) /\ M.tail # None
          /\ \A j \in Slots : ~isFree(M, j) <=> j = i \/ ~isFree(L, j)
      BY <1>2, <2>2, <3>1, FocusOrdered
    <3>3. (D # None => ~isFree(L, D)) => ~isFree(L, i)
      BY <1>2, <2>2, <3>1
    <3> QED
      BY <2>2, <3>1, <3>2, <3>3
  <2> QED
    BY <2>1, <2>2
<1> QED
  BY <1>1, <1>2 DEF Shifted

\* The windowed processes neither get nor lose a window.
SameProcs == \A p \in Windowed : /\ handler'[p] = handler[p]
                                 /\ Started(p) => Started(p)'
                                 /\ pc'[p] = "dead" <=> pc[p] = "dead"

\* A step in which no window appears, disappears or changes its owner.
LEMMA CalmStep ==
  ASSUME Inv, wm' \in Managers, Shifted(wm.list, wm'.list, wm.desktopId),
         wm'.desktopId = wm.desktopId,
         \A i \in Slots : wm'.win[i].proc = wm.win[i].proc,
         faults' = faults \/ faults' = faults \cup {"no window"}, SameProcs
  PROVE  /\ OrderOK' /\ LinksSane' /\ ListedOwned'
         /\ \A p \in Windowed : Owns(p)' <=> Owns(p)
         /\ \A i \in Slots, p \in Windowed : wm'.win[i].proc = p =>
               Started(p)' /\ (pc'[p] = "dead" \/ handler'[p] = i)
         /\ \A p \in Windowed : pc'[p] = "dead" \/ handler'[p] \in Slots
<1>1. Chained(wm.list) /\ wm.desktopId \in Slots \cup {None}
  BY DEF Inv, Typed, LinksSane, Managers
<1>2. PICK T : T = wm'
  OBVIOUS
<1>3. /\ Chained(T.list)
      /\ \A x \in Slots : wm.list.next[x] # x => T.list.next[x] # x
      /\ Ordered(wm.list) /\ (wm.desktopId = None <=> wm.list.tail = None) =>
            /\ Ordered(T.list) /\ (wm.desktopId = None <=> T.list.tail = None)
            /\ (wm.desktopId # None => ~isFree(wm.list, wm.desktopId)) =>
                  \A x \in Slots : isFree(T.list, x) <=> isFree(wm.list, x)
  BY <1>1, <1>2, ShiftedList
<1>4. OrderOK'
  BY <1>2, <1>3 DEF Inv, OrderOK
<1>5. \A p \in Windowed : pc[p] = "dead" \/ handler[p] \in Slots
  BY DEF Inv, OwnersOK
<1>6. \A p \in Windowed : Owns(p)' <=> Owns(p)
  <2>1. ASSUME NEW p \in Windowed, Owns(p) PROVE Owns(p)'
    BY <1>5, <2>1 DEF Owns, SameProcs
  <2>2. ASSUME NEW p \in Windowed, Owns(p)' PROVE Owns(p)
    <3>1. handler[p] \in Slots /\ wm.win[handler[p]].proc = p /\ pc[p] # "dead"
      BY <1>5, <2>2 DEF Owns, SameProcs
    <3> QED
      BY <3>1 DEF Inv, OwnersOK, Owns
  <2> QED
    BY <2>1, <2>2
<1>7. LinksSane'
  <2>1. ASSUME NEW p \in Windowed, Owns(p)' PROVE wm'.list.next[handler'[p]] # handler'[p]
    <3>1. Owns(p) /\ handler'[p] = handler[p]
      BY <1>6, <2>1 DEF SameProcs
    <3>2. handler[p] \in Slots
      BY <1>5, <3>1 DEF Owns
    <3> QED
      BY <1>2, <1>3, <3>1, <3>2 DEF Inv, LinksSane
  <2> QED
    BY <1>2, <1>3, <2>1 DEF LinksSane
<1>8. ASSUME NEW i \in Slots, NEW p \in Windowed, wm'.win[i].proc = p
      PROVE  Started(p)' /\ (pc'[p] = "dead" \/ handler'[p] = i)
  BY <1>8 DEF Inv, OwnersOK, SameProcs
<1>9. ListedOwned'
  <2>1. SUFFICES ASSUME faults \cap {"desktop closed", "head closed"} = {}
                 PROVE  /\ \A i \in Slots : ~isFree(T.list, i) => /\ T.win[i].proc \in Windowed
                                                                /\ pc'[T.win[i].proc] # "dead"
                        /\ T.desktopId # None => ~isFree(T.list, T.desktopId)
    BY <1>2 DEF ListedOwned, Listed
  <2>2. /\ \A i \in Slots : ~isFree(wm.list, i) => /\ wm.win[i].proc \in Windowed
                                                  /\ pc[wm.win[i].proc] # "dead"
        /\ wm.desktopId # None => ~isFree(wm.list, wm.desktopId)
    BY <2>1 DEF Inv, ListedOwned, Listed
  <2>3. \A x \in Slots : isFree(T.list, x) <=> isFree(wm.list, x)
    BY <1>3, <2>1, <2>2 DEF Inv, OrderOK
  <2>5. ASSUME NEW i \in Slots, ~isFree(T.list, i)
        PROVE  T.win[i].proc \in Windowed /\ pc'[T.win[i].proc] # "dead"
    <3>1. ~isFree(wm.list, i) /\ T.win[i].proc = wm.win[i].proc
      BY <1>2, <2>3, <2>5
    <3> QED
      BY <2>2, <3>1 DEF SameProcs
  <2>6. wm.desktopId # None => ~isFree(T.list, wm.desktopId)
    BY <1>1, <2>2, <2>3
  <2> QED
    BY <1>2, <2>5, <2>6
<1>10. \A p \in Windowed : pc'[p] = "dead" \/ handler'[p] \in Slots
  BY <1>5 DEF SameProcs
<1> QED
  BY <1>4, <1>6, <1>7, <1>8, <1>9, <1>10

\* The same for the desktop, once there is one.
LEMMA CalmDesktop ==
  ASSUME Inv, wm.desktopId # None, wm'.desktopId = wm.desktopId,
         \A i \in Slots : wm'.win[i].proc = wm.win[i].proc,
         faults' = faults \/ faults' = faults \cup {"no window"},
         \A p \in Windowed : Owns(p)' <=> Owns(p), \A d \in Desktops : Alive(d)' => Alive(d)
  PROVE  DesktopOK'
<1>1. wm.desktopId \in Slots
  BY DEF Inv, Typed, Managers
<1>2. PICK e : e = wm.win[wm.desktopId].proc
  OBVIOUS
<1>3. wm'.win[wm'.desktopId].proc = e
  BY <1>1, <1>2
<1>4. "desktop closed" \notin faults' => e \in Desktops /\ Owns(e)'
  <2>1. "desktop closed" \notin faults' => e \in Desktops /\ Owns(e)
    BY <1>2 DEF Inv, DesktopOK
  <2> QED
    BY <2>1 DEF Windowed
<1>5. \A d, g \in Desktops : Alive(d)' /\ Alive(g)' => d = g
  BY DEF Inv, DesktopOK
<1> QED
  BY <1>3, <1>4, <1>5 DEF DesktopOK

\* A process that does more than a desktop without a window can proves that there is one.
LEMMA DesktopExists ==
  ASSUME Inv, NEW p \in Procs, pc[p] # "unborn",
         p \in Desktops => pc[p] \notin {"create", "poll", "gone"}
  PROVE  wm.desktopId # None
BY DEF Inv, DesktopOK

\* Whatever the user does.
LEMMA EventInv ==
  ASSUME Inv, InputEvent
  PROVE  Inv'
<1>1. Ready(wm) /\ wm \in Managers
  BY DEF Inv, Typed, LinksSane, Ready
<1>2. /\ Moved(wm, wm')
      /\ wm.status = "running" /\ events < MaxEvents /\ events' = events + 1
      /\ pc' = pc /\ handler' = handler /\ faults' = faults
  BY <1>1, EventMoved
<1>3. /\ wm' \in Managers /\ Shifted(wm.list, wm'.list, wm.desktopId)
      /\ wm'.desktopId = wm.desktopId
      /\ \A i \in Slots : /\ wm'.win[i].proc = wm.win[i].proc
                          /\ wm.win[i].q # <<>> => wm'.win[i].q # <<>>
      /\ wm'.popup.caller = wm.popup.caller /\ wm'.popup.proc = wm.popup.proc
      /\ wm.popup.q # <<>> => wm'.popup.q # <<>>
  BY <1>2 DEF Moved, SameOwners
<1>4. SameProcs
  BY <1>2 DEF SameProcs, Started
<1>5. /\ OrderOK' /\ LinksSane' /\ ListedOwned'
      /\ \A p \in Windowed : Owns(p)' <=> Owns(p)
      /\ \A i \in Slots, p \in Windowed : wm'.win[i].proc = p =>
            Started(p)' /\ (pc'[p] = "dead" \/ handler'[p] = i)
      /\ \A p \in Windowed : pc'[p] = "dead" \/ handler'[p] \in Slots
  BY <1>2, <1>3, <1>4, CalmStep
<1>6. Typed'
  <2>1. events' \in 0 .. MaxEvents
    <3>1. events \in 0 .. MaxEvents /\ MaxEvents \in Nat
      BY ConstantsAssumption DEF Inv, Typed
    <3> QED
      BY <1>2, <3>1
  <2> QED
    BY <1>2, <1>3, <2>1 DEF Inv, Typed
<1>7. OwnersOK'
  <2>1. ASSUME NEW p \in Windowed
        PROVE  /\ pc'[p] \in {"take", "close", "minimize", "maximize"} => Owns(p)'
               /\ pc'[p] = "take" => wm'.win[handler'[p]].q # <<>>
    BY <1>2, <1>3, <1>5 DEF Inv, OwnersOK
  <2> QED
    BY <1>5, <2>1 DEF OwnersOK
<1>8. DesktopOK'
  <2>1. CASE wm.desktopId # None
    BY <1>2, <1>3, <1>5, <2>1, CalmDesktop DEF Alive
  <2>2. CASE wm.desktopId = None
    BY <1>2, <1>3, <2>2 DEF Inv, DesktopOK, Alive
  <2> QED
    BY <2>1, <2>2
<1>9. PopupOK'
  BY <1>2, <1>3 DEF Inv, PopupOK, Started
<1>10. OnlyKnownFailures'
  <2>1. "head closed" \notin faults => Ordered(wm.list)
    BY DEF Inv, OrderOK
  <2> QED
    BY <1>2, <2>1 DEF Moved, OnlyKnownFailures
<1> QED
  BY <1>5, <1>6, <1>7, <1>8, <1>9, <1>10 DEF Inv

\* What a step keeps that only moves processes which have no window.
LEMMA PcTyped ==
  ASSUME Typed, NEW p \in Procs, NEW x \in Labels, Goto(p, x)
  PROVE  /\ pc' \in [Procs -> Labels]
         /\ pc'[p] = x
         /\ \A q \in Procs \ {p} : pc'[q] = pc[q]
BY DEF Typed, Goto

\* The kinds of processes are apart from each other.
LEMMA ProcSets ==
  /\ Windowed \cap StartWindows = {} /\ Windowed \subseteq Procs /\ StartWindows \subseteq Procs
  /\ Desktops \subseteq Windowed /\ Apps \subseteq Windowed /\ Apps \cap Desktops = {}
  /\ Procs = Windowed \cup StartWindows
  /\ Shells \subseteq Apps /\ Mortal \subseteq Procs
BY ConstantsAssumption DEF Procs, Windowed

\* init starts a desktop when there is none.
LEMMA StartDesktopInv ==
  ASSUME Inv, NEW d \in Desktops, startDesktop(d)
  PROVE  Inv'
<1>1. /\ wm' = wm /\ handler' = handler /\ events' = events /\ faults' = faults
      /\ pc[d] = "unborn" /\ wm.status = "running"
      /\ \A e \in Desktops : pc[e] \in {"unborn", "dead", "gone"}
  BY DEF startDesktop, At
<1>2. /\ pc' \in [Procs -> Labels] /\ pc'[d] = "create"
      /\ \A q \in Procs \ {d} : pc'[q] = pc[q]
      /\ d \in Windowed /\ d \in Procs
  BY PcTyped, ProcSets DEF startDesktop, Inv, Labels
<1>3. SameProcs
  BY <1>1, <1>2, ProcSets DEF SameProcs, Started
<1>4. wm' \in Managers /\ Shifted(wm.list, wm'.list, wm.desktopId)
  BY <1>1 DEF Inv, Typed, Shifted
<1>5. /\ OrderOK' /\ LinksSane' /\ ListedOwned'
      /\ \A p \in Windowed : Owns(p)' <=> Owns(p)
      /\ \A i \in Slots, p \in Windowed : wm'.win[i].proc = p =>
            Started(p)' /\ (pc'[p] = "dead" \/ handler'[p] = i)
      /\ \A p \in Windowed : pc'[p] = "dead" \/ handler'[p] \in Slots
  BY <1>1, <1>3, <1>4, CalmStep
<1>6. Typed'
  BY <1>1, <1>2 DEF Inv, Typed
<1>7. OwnersOK'
  <2>1. ASSUME NEW p \in Windowed
        PROVE  /\ pc'[p] \in {"take", "close", "minimize", "maximize"} => Owns(p)'
               /\ pc'[p] = "take" => wm'.win[handler'[p]].q # <<>>
    <3>1. p \in Procs /\ (pc'[p] # pc[p] => pc'[p] = "create")
      BY <1>2, ProcSets
    <3> QED
      BY <1>1, <1>5, <3>1 DEF Inv, OwnersOK
  <2> QED
    BY <1>5, <2>1 DEF OwnersOK
<1>8. DesktopOK'
  <2>1. ASSUME NEW e \in Desktops PROVE Alive(e)' => e = d
    BY <1>1, <1>2, <2>1, ProcSets DEF Alive
  <2>2. wm.desktopId = None =>
           \A p \in Procs : \/ pc'[p] = pc[p]
                            \/ p \in Desktops /\ pc'[p] = "create"
    BY <1>2
  <2>3. ASSUME wm.desktopId # None, "desktop closed" \notin faults
        PROVE  \E e \in Desktops : e = wm.win[wm.desktopId].proc /\ Owns(e)'
    <3>1. PICK e \in Desktops : e = wm.win[wm.desktopId].proc /\ Owns(e)
      BY <2>3 DEF Inv, DesktopOK
    <3>2. Owns(e)'
      BY <1>5, <3>1, ProcSets
    <3> QED
      BY <3>1, <3>2
  <2>4. wm.desktopId = None => DesktopOK'
    BY <1>1, <2>1, <2>2 DEF Inv, DesktopOK
  <2>5. wm.desktopId # None => DesktopOK'
    BY <1>1, <2>1, <2>3 DEF DesktopOK
  <2> QED
    BY <2>4, <2>5
<1>9. PopupOK'
  <2>1. \A s \in StartWindows : pc'[s] = pc[s]
    BY <1>2, ProcSets
  <2> QED
    BY <1>1, <2>1 DEF Inv, PopupOK, Started
<1>10. OnlyKnownFailures'
  BY <1>1 DEF OnlyKnownFailures
<1> QED
  BY <1>5, <1>6, <1>7, <1>8, <1>9, <1>10 DEF Inv

\* A process that has seen a message in its buffer owns the window it is in.
LEMMA PollInv ==
  ASSUME Inv, NEW p \in Windowed, poll(p)
  PROVE  Inv'
<1>1. /\ wm' = wm /\ handler' = handler /\ events' = events /\ faults' = faults
      /\ pc[p] = "poll" /\ wm.status = "running"
      /\ wm.win[handler[p]].proc = p /\ wm.win[handler[p]].q # <<>>
  BY DEF poll, At
<1>2. /\ pc' \in [Procs -> Labels] /\ pc'[p] = "take"
      /\ \A q \in Procs \ {p} : pc'[q] = pc[q]
      /\ p \in Procs
  BY PcTyped, ProcSets DEF poll, Inv, Labels
<1>3. SameProcs
  BY <1>1, <1>2, ProcSets DEF SameProcs, Started
<1>4. wm' \in Managers /\ Shifted(wm.list, wm'.list, wm.desktopId)
  BY <1>1 DEF Inv, Typed, Shifted
<1>5. /\ OrderOK' /\ LinksSane' /\ ListedOwned'
      /\ \A q \in Windowed : Owns(q)' <=> Owns(q)
      /\ \A i \in Slots, q \in Windowed : wm'.win[i].proc = q =>
            Started(q)' /\ (pc'[q] = "dead" \/ handler'[q] = i)
      /\ \A q \in Windowed : pc'[q] = "dead" \/ handler'[q] \in Slots
  BY <1>1, <1>3, <1>4, CalmStep
<1>6. Typed'
  BY <1>1, <1>2 DEF Inv, Typed
<1>7. OwnersOK'
  <2>1. ASSUME NEW q \in Windowed
        PROVE  /\ pc'[q] \in {"take", "close", "minimize", "maximize"} => Owns(q)'
               /\ pc'[q] = "take" => wm'.win[handler'[q]].q # <<>>
    <3>1. Owns(p)'
      BY <1>1, <1>2, <1>5 DEF Owns, Started
    <3>2. q # p => pc'[q] = pc[q]
      BY <1>2, ProcSets
    <3> QED
      BY <1>1, <1>5, <3>1, <3>2 DEF Inv, OwnersOK
  <2> QED
    BY <1>5, <2>1 DEF OwnersOK
<1>8. DesktopOK'
  <2>1. wm.desktopId # None
    <3>1. handler[p] \in Slots
      BY <1>1 DEF Inv, OwnersOK
    <3> QED
      BY <1>1, <3>1 DEF Inv, DesktopOK
  <2>2. \A d \in Desktops : Alive(d)' => Alive(d)
    BY <1>1, <1>2, ProcSets DEF Alive
  <2> QED
    BY <1>1, <1>5, <2>1, <2>2, CalmDesktop
<1>9. PopupOK'
  <2>1. \A s \in StartWindows : pc'[s] = pc[s]
    BY <1>2, ProcSets
  <2> QED
    BY <1>1, <2>1 DEF Inv, PopupOK, Started
<1>10. OnlyKnownFailures'
  BY <1>1 DEF OnlyKnownFailures
<1> QED
  BY <1>5, <1>6, <1>7, <1>8, <1>9, <1>10 DEF Inv

\* The process that has received a message goes on, and may have started another one.
LEMMA Receives ==
  ASSUME Typed, NEW p \in Procs, pc[p] = "take", NEW m \in Kinds, receive(p, m)
  PROVE  /\ pc' \in [Procs -> Labels]
         /\ handler' \in [Procs -> Slots \cup {None, MAX_WINDOW_CNT}]
         /\ \/ pc'[p] \in {"poll", "close"}
            \/ p \in Windowed /\ pc'[p] \in {"minimize", "maximize", "busy"}
         /\ \A q \in Procs \ {p} : \/ pc'[q] = pc[q]
                                   \/ pc[q] = "unborn" /\ pc'[q] = "create" /\ q \notin Desktops
         /\ \A q \in Windowed : handler'[q] = handler[q]
<1>1. pc \in [Procs -> Labels] /\ handler \in [Procs -> Slots \cup {None, MAX_WINDOW_CNT}]
  BY DEF Typed
<1>2. CASE Goto(p, reaction(p, m)) /\ UNCHANGED handler
  <2>1. reaction(p, m) \in {"poll", "close"} \cup (IF p \in Windowed THEN {"minimize", "maximize"} ELSE {})
    BY DEF reaction
  <2>2. reaction(p, m) \in Labels
    BY <2>1 DEF Labels
  <2> QED
    BY <1>1, <1>2, <2>1, <2>2, PcTyped
<1>3. ASSUME NEW c \in launches(p, m),
             pc' = [pc EXCEPT ![p] = "poll", ![c] = "create"],
             handler' = IF c \in StartWindows THEN [handler EXCEPT ![c] = callerArg(p)] ELSE handler
      PROVE  /\ pc' \in [Procs -> Labels]
             /\ handler' \in [Procs -> Slots \cup {None, MAX_WINDOW_CNT}]
             /\ pc'[p] = "poll"
             /\ \A q \in Procs \ {p} : \/ pc'[q] = pc[q]
                                       \/ pc[q] = "unborn" /\ pc'[q] = "create" /\ q \notin Desktops
             /\ \A q \in Windowed : handler'[q] = handler[q]
  <2>1. c \in Procs /\ c \notin Desktops /\ pc[c] = "unborn"
    BY <1>3, ProcSets DEF launches
  <2>2. {"poll", "create"} \subseteq Labels
    BY DEF Labels
  <2>3. callerArg(p) \in Slots \cup {None, MAX_WINDOW_CNT}
    <3>1. 0 \in Slots
      BY WindowCntAssumption DEF Slots
    <3> QED
      BY <3>1 DEF callerArg
  <2>4. /\ pc' \in [Procs -> Labels] /\ pc'[p] = "poll" /\ pc'[c] = "create"
        /\ \A q \in Procs \ {p, c} : pc'[q] = pc[q]
    BY <1>1, <1>3, <2>1, <2>2
  <2>5. /\ handler' \in [Procs -> Slots \cup {None, MAX_WINDOW_CNT}]
        /\ \A q \in Windowed : handler'[q] = handler[q]
    BY <1>1, <1>3, <2>1, <2>3, ProcSets
  <2> QED
    BY <2>1, <2>4, <2>5
<1>4. CASE p \in Shells /\ Goto(p, "busy") /\ UNCHANGED handler
  <2>1. "busy" \in Labels /\ p \in Windowed
    BY <1>4, ProcSets DEF Labels
  <2> QED
    BY <1>1, <1>4, <2>1, PcTyped
<1> QED
  BY <1>2, <1>3, <1>4 DEF receive

\* The message at the front of a buffer.
LEMMA FrontTyped ==
  ASSUME NEW q \in Queues, q # <<>>
  PROVE  Head(q) \in Kinds /\ Tail(q) \in Queues
<1>1. q \in Seq(Kinds) /\ Len(q) <= MSG_BUF_SIZE /\ MSG_BUF_SIZE \in Nat
  BY ConstantsAssumption DEF Queues
<1>2. Head(q) \in Kinds /\ Tail(q) \in Seq(Kinds) /\ Len(Tail(q)) = Len(q) - 1
  BY <1>1
<1>3. Len(Tail(q)) <= MSG_BUF_SIZE
  BY <1>1, <1>2
<1> QED
  BY <1>2, <1>3 DEF Queues

\* Nobody but the owner empties the buffer: there still is a message to take.
LEMMA TakeInv ==
  ASSUME Inv, NEW p \in Windowed, take(p)
  PROVE  Inv'
<1>1. /\ pc[p] = "take" /\ wm.status = "running" /\ p \in Procs
      /\ wm' = [wm EXCEPT !.win[handler[p]].q = Tail(@)]
      /\ receive(p, Head(wm.win[handler[p]].q))
      /\ events' = events /\ faults' = faults
  BY ProcSets DEF take, At
<1>2. PICK i \in Slots : i = handler[p]
  BY <1>1 DEF Inv, OwnersOK
<1>3. Owns(p) /\ wm.win[i].q # <<>> /\ wm \in Managers /\ wm.win \in [Slots -> Window]
      /\ wm.win[i] \in Window /\ wm.win[i].q \in Queues
  BY <1>1, <1>2 DEF Inv, OwnersOK, Typed, Managers, Window
<1>4. PICK q : q = Tail(wm.win[i].q)
  OBVIOUS
<1>5. q \in Queues /\ Head(wm.win[i].q) \in Kinds
  BY <1>3, <1>4, FrontTyped
<1>6. PICK W : W = [wm.win EXCEPT ![i].q = q]
  OBVIOUS
<1>7. W[i] = [wm.win[i] EXCEPT !.q = q] /\ (\A j \in Slots \ {i} : W[j] = wm.win[j])
  BY <1>3, <1>6
<1>8. W[i] \in Window /\ W[i].proc = wm.win[i].proc
  BY <1>3, <1>5, <1>7 DEF Window
<1>9. W \in [Slots -> Window]
  BY <1>3, <1>6, <1>7, <1>8
<1>10. wm' = [wm EXCEPT !.win = W]
  BY <1>1, <1>2, <1>4, <1>6
<1>11. /\ wm' \in Managers /\ wm'.win = W /\ wm'.list = wm.list /\ wm'.desktopId = wm.desktopId
       /\ wm'.popup = wm.popup /\ wm'.status = wm.status
  BY <1>3, <1>9, <1>10 DEF Managers
<1>12. /\ \A j \in Slots : wm'.win[j].proc = wm.win[j].proc
       /\ Shifted(wm.list, wm'.list, wm.desktopId)
  BY <1>7, <1>8, <1>11 DEF Shifted
<1>13. /\ pc' \in [Procs -> Labels]
       /\ handler' \in [Procs -> Slots \cup {None, MAX_WINDOW_CNT}]
       /\ pc'[p] \in {"poll", "close", "minimize", "maximize", "busy"}
       /\ \A r \in Procs \ {p} : \/ pc'[r] = pc[r]
                                 \/ pc[r] = "unborn" /\ pc'[r] = "create" /\ r \notin Desktops
       /\ \A r \in Windowed : handler'[r] = handler[r]
  BY <1>1, <1>2, <1>5, Receives DEF Inv
<1>14. SameProcs
  BY <1>1, <1>13, ProcSets DEF SameProcs, Started
<1>15. /\ OrderOK' /\ LinksSane' /\ ListedOwned'
       /\ \A r \in Windowed : Owns(r)' <=> Owns(r)
       /\ \A j \in Slots, r \in Windowed : wm'.win[j].proc = r =>
             Started(r)' /\ (pc'[r] = "dead" \/ handler'[r] = j)
       /\ \A r \in Windowed : pc'[r] = "dead" \/ handler'[r] \in Slots
  BY <1>1, <1>11, <1>12, <1>14, CalmStep
<1>16. Typed'
  BY <1>1, <1>11, <1>13 DEF Inv, Typed
<1>17. OwnersOK'
  <2>1. ASSUME NEW r \in Windowed
        PROVE  /\ pc'[r] \in {"take", "close", "minimize", "maximize"} => Owns(r)'
               /\ pc'[r] = "take" => wm'.win[handler'[r]].q # <<>>
    <3>1. CASE r = p
      BY <1>3, <1>13, <1>15, <3>1
    <3>2. CASE r # p
      <4>1. r \in Procs /\ (pc'[r] = pc[r] \/ pc'[r] = "create") /\ handler'[r] = handler[r]
        BY <1>13, <3>2, ProcSets
      <4>2. pc'[r] = "take" => handler[r] \in Slots /\ handler[r] # i /\ wm.win[handler[r]].q # <<>>
        BY <1>2, <1>3, <3>2, <4>1 DEF Inv, OwnersOK, Owns
      <4> QED
        BY <1>7, <1>11, <1>15, <4>1, <4>2 DEF Inv, OwnersOK
    <3> QED
      BY <3>1, <3>2
  <2> QED
    BY <1>15, <2>1 DEF OwnersOK
<1>18. DesktopOK'
  <2>1. wm.desktopId # None
    BY <1>1, DesktopExists
  <2>2. \A d \in Desktops : Alive(d)' => Alive(d)
    BY <1>1, <1>13, ProcSets DEF Alive
  <2> QED
    BY <1>1, <1>11, <1>12, <1>15, <2>1, <2>2, CalmDesktop
<1>19. PopupOK'
  <2>1. \A s \in StartWindows : pc'[s] = pc[s] \/ (pc[s] = "unborn" /\ pc'[s] = "create")
    BY <1>13, ProcSets
  <2> QED
    BY <1>11, <2>1 DEF Inv, PopupOK, Started
<1>20. OnlyKnownFailures'
  BY <1>1, <1>11 DEF OnlyKnownFailures
<1> QED
  BY <1>15, <1>16, <1>17, <1>18, <1>19, <1>20 DEF Inv

\* A process goes back to polling after a system call that at most moved its window.
LEMMA ReturnInv ==
  ASSUME Inv, NEW p \in Windowed, pc[p] \in {"poll", "minimize", "maximize", "busy"},
         Goto(p, "poll"),
         SameOwners(wm, wm'), Shifted(wm.list, wm'.list, wm.desktopId),
         UNCHANGED <<handler, events, faults>>, OnlyKnownFailures'
  PROVE  Inv'
<1>1. /\ wm' \in Managers /\ wm'.desktopId = wm.desktopId
      /\ \A i \in Slots : /\ wm'.win[i].proc = wm.win[i].proc
                          /\ wm.win[i].q # <<>> => wm'.win[i].q # <<>>
      /\ wm'.popup.caller = wm.popup.caller /\ wm'.popup.proc = wm.popup.proc
      /\ wm.popup.q # <<>> => wm'.popup.q # <<>>
      /\ handler' = handler /\ events' = events /\ faults' = faults
  BY DEF SameOwners
<1>2. /\ pc' \in [Procs -> Labels] /\ pc'[p] = "poll" /\ p \in Procs
      /\ \A q \in Procs \ {p} : pc'[q] = pc[q]
  BY PcTyped, ProcSets DEF Inv, Labels
<1>3. SameProcs
  BY <1>1, <1>2, ProcSets DEF SameProcs, Started
<1>4. /\ OrderOK' /\ LinksSane' /\ ListedOwned'
      /\ \A q \in Windowed : Owns(q)' <=> Owns(q)
      /\ \A i \in Slots, q \in Windowed : wm'.win[i].proc = q =>
            Started(q)' /\ (pc'[q] = "dead" \/ handler'[q] = i)
      /\ \A q \in Windowed : pc'[q] = "dead" \/ handler'[q] \in Slots
  BY <1>1, <1>3, CalmStep
<1>5. Typed'
  BY <1>1, <1>2 DEF Inv, Typed
<1>6. OwnersOK'
  <2>1. ASSUME NEW q \in Windowed
        PROVE  /\ pc'[q] \in {"take", "close", "minimize", "maximize"} => Owns(q)'
               /\ pc'[q] = "take" => wm'.win[handler'[q]].q # <<>>
    <3>1. q # p => pc'[q] = pc[q]
      BY <1>2, ProcSets
    <3> QED
      BY <1>1, <1>2, <1>4, <3>1 DEF Inv, OwnersOK
  <2> QED
    BY <1>4, <2>1 DEF OwnersOK
<1>7. DesktopOK'
  <2>1. \A d \in Desktops : Alive(d)' => Alive(d)
    BY <1>2, ProcSets DEF Alive
  <2>2. CASE wm.desktopId # None
    BY <1>1, <1>4, <2>1, <2>2, CalmDesktop
  <2>3. CASE wm.desktopId = None
    <3>1. pc[p] = "poll"
      BY <1>2, <2>3, DesktopExists
    <3>2. \A q \in Procs : pc'[q] = pc[q]
      BY <1>2, <3>1
    <3> QED
      BY <1>1, <2>1, <2>3, <3>2 DEF Inv, DesktopOK
  <2> QED
    BY <2>2, <2>3
<1>8. PopupOK'
  <2>1. \A s \in StartWindows : pc'[s] = pc[s]
    BY <1>2, ProcSets
  <2> QED
    BY <1>1, <2>1 DEF Inv, PopupOK, Started
<1> QED
  BY <1>4, <1>5, <1>6, <1>7, <1>8 DEF Inv

\* Focusing can only fail when the order of the windows has been lost.
LEMMA MovedFailures ==
  ASSUME Inv, wm.status = "running", Moved(wm, wm'), faults' = faults
  PROVE  OnlyKnownFailures'
<1>1. "head closed" \notin faults => Ordered(wm.list)
  BY DEF Inv, OrderOK
<1> QED
  BY <1>1 DEF Moved, OnlyKnownFailures

\* The flag of a minimized window is not read by what follows.
LEMMA MinimizedQuiet ==
  ASSUME NEW S \in Managers, NEW i \in Slots, NEW b \in BOOLEAN
  PROVE  LET T == [S EXCEPT !.win[i].minimized = b]
         IN  Quiet(S, T) /\ T.status = S.status
<1>1. S.win \in [Slots -> Window] /\ S.win[i] \in Window
  BY DEF Managers
<1>2. PICK W : W = [S.win EXCEPT ![i].minimized = b]
  OBVIOUS
<1>3. W[i] = [S.win[i] EXCEPT !.minimized = b] /\ (\A j \in Slots \ {i} : W[j] = S.win[j])
  BY <1>1, <1>2
<1>4. W[i] \in Window /\ W[i].proc = S.win[i].proc /\ W[i].q = S.win[i].q
  BY <1>1, <1>3 DEF Window
<1>5. W \in [Slots -> Window]
  BY <1>1, <1>2, <1>3, <1>4
<1>6. [S EXCEPT !.win[i].minimized = b] = [S EXCEPT !.win = W]
  BY <1>2
<1>7. [S EXCEPT !.win = W] \in Managers
  BY <1>5 DEF Managers
<1>8. \A j \in Slots : W[j].proc = S.win[j].proc /\ (S.win[j].q # <<>> => W[j].q # <<>>)
  BY <1>3, <1>4
<1> QED
  BY <1>6, <1>7, <1>8 DEF Quiet, SameOwners, Managers

\* Below the focused window there is a window of the list, or none.
LEMMA BelowTail ==
  ASSUME NEW L, Ordered(L), L.tail # None, L.prev[L.tail] # None
  PROVE  ~isFree(L, L.prev[L.tail])
<1>1. PICK s \in Seq(Slots) : Represents(L, s)
  BY DEF Ordered
<1>2. s # <<>> /\ L.tail = s[Len(s)]
  BY <1>1, EndsAre
<1>3. Len(s) \in 1 .. Len(s)
  BY <1>2
<1>4. L.prev[L.tail] = IF Len(s) = 1 THEN None ELSE s[Len(s) - 1]
  BY <1>1, <1>2, <1>3 DEF Represents, LinksOK
<1>5. Len(s) # 1 /\ Len(s) - 1 \in 1 .. Len(s)
  <2>1. Len(s) # 1
    BY <1>4
  <2>2. PICK n \in Nat : n = Len(s)
    OBVIOUS
  <2>3. n \in 1 .. n /\ n # 1
    BY <1>3, <2>1, <2>2
  <2>4. n - 1 \in 1 .. n
    BY <2>3
  <2> QED
    BY <2>1, <2>2, <2>4
<1>6. L.prev[L.tail] \in Elems(s) /\ L.prev[L.tail] \in Slots
  BY <1>4, <1>5, SlotFacts
<1> QED
  BY <1>1, <1>6, ListedIs

\* Minimizing the focused window focuses the one below, which is in the list.
LEMMA MinimizeInv ==
  ASSUME Inv, NEW p \in Windowed, minimize(p)
  PROVE  Inv'
<1>1. /\ pc[p] = "minimize" /\ wm.status = "running" /\ Goto(p, "poll")
      /\ wm' = minimizeWindow(wm, handler[p])
      /\ UNCHANGED <<handler, events, faults>>
  BY DEF minimize, At
<1>2. PICK i \in Slots : i = handler[p]
  BY <1>1 DEF Inv, OwnersOK
<1>3. wm \in Managers /\ Ready(wm) /\ wm.list \in Lists
  BY DEF Inv, Typed, LinksSane, Ready, Managers
<1>4. PICK M : M = [wm EXCEPT !.win[i].minimized = TRUE]
  OBVIOUS
<1>5. Quiet(wm, M) /\ M.status = wm.status
  BY <1>3, <1>4, MinimizedQuiet
<1>6. Ready(M) /\ M.list = wm.list /\ M.desktopId = wm.desktopId
  BY <1>3, <1>5, QuietReady DEF Quiet, SameOwners
<1>7. wm' = IF i = M.list.tail THEN focus(M, M.list.prev[i]) ELSE M
  BY <1>1, <1>2, <1>4 DEF minimizeWindow
<1>8. Moved(wm, wm')
  <2>1. CASE i = M.list.tail
    <3>1. PICK j : j = M.list.prev[i]
      OBVIOUS
    <3>2. j \in Slots \cup {None}
      BY <1>3, <1>6, <3>1 DEF Lists
    <3>3. j = None \/ (Ordered(M.list) => ~isFree(M.list, j))
      BY <2>1, <3>1, BelowTail DEF None, Slots
    <3>4. Moved(M, focus(M, j))
      BY <1>6, <3>2, <3>3, FocusMoved
    <3> QED
      BY <1>5, <1>7, <2>1, <3>1, <3>4, QuietMoved
  <2>2. CASE i # M.list.tail
    BY <1>5, <1>7, <2>2, QuietIsMoved
  <2> QED
    BY <2>1, <2>2
<1>9. OnlyKnownFailures'
  BY <1>1, <1>8, MovedFailures
<1> QED
  BY <1>1, <1>8, <1>9, ReturnInv DEF Moved

\* Maximizing a window focuses it.
LEMMA MaximizeInv ==
  ASSUME Inv, NEW p \in Windowed, maximize(p)
  PROVE  Inv'
<1>1. /\ pc[p] = "maximize" /\ wm.status = "running" /\ Goto(p, "poll")
      /\ wm' = maximizeWindow(wm, handler[p])
      /\ UNCHANGED <<handler, events, faults>>
  BY DEF maximize, At
<1>2. PICK i \in Slots : i = handler[p]
  BY <1>1 DEF Inv, OwnersOK
<1>3. wm \in Managers /\ Ready(wm)
  BY DEF Inv, Typed, LinksSane, Ready
<1>4. PICK M : M = [wm EXCEPT !.win[i].minimized = FALSE]
  OBVIOUS
<1>5. Quiet(wm, M) /\ M.status = wm.status
  BY <1>3, <1>4, MinimizedQuiet
<1>6. Ready(M) /\ M.list = wm.list
  BY <1>3, <1>5, QuietReady DEF Quiet
<1>7. wm' = focus(M, i)
  BY <1>1, <1>2, <1>4 DEF maximizeWindow
<1>8. ~isFree(M.list, i)
  <2>1. Owns(p)
    BY <1>1 DEF Inv, OwnersOK
  <2> QED
    BY <1>2, <1>6, <2>1 DEF Inv, LinksSane, isFree
<1>9. Moved(wm, wm')
  BY <1>5, <1>6, <1>7, <1>8, FocusMoved, QuietMoved
<1>10. OnlyKnownFailures'
  BY <1>1, <1>9, MovedFailures
<1> QED
  BY <1>1, <1>9, <1>10, ReturnInv DEF Moved

\* The handler of the shell comes back.
LEMMA ReturnBusyInv ==
  ASSUME Inv, NEW p \in Shells, return(p)
  PROVE  Inv'
<1>1. /\ pc[p] = "busy" /\ wm.status = "running" /\ Goto(p, "poll") /\ p \in Windowed
      /\ wm' = wm /\ UNCHANGED <<handler, events, faults>>
  BY ProcSets DEF return, At
<1>2. SameOwners(wm, wm') /\ Shifted(wm.list, wm'.list, wm.desktopId)
  BY <1>1 DEF Inv, Typed, SameOwners, Shifted
<1>3. OnlyKnownFailures'
  BY <1>1 DEF OnlyKnownFailures
<1> QED
  BY <1>1, <1>2, <1>3, ReturnInv

\* The window that desktopId names, as long as it has not been closed, belongs to the
\* desktop that is running or is left over.
LEMMA DesktopsWindow ==
  ASSUME Inv, NEW d \in Desktops, pc[d] = "poll", "desktop closed" \notin faults,
         "no window" \notin faults
  PROVE  /\ wm.desktopId # None
         /\ wm.win[wm.desktopId].proc # d => Orphaned
<1>1. d \in Procs
  BY ProcSets
<1>2. wm.desktopId \in Slots \cup {None}
  BY DEF Inv, Typed, Managers
<1>3. wm.desktopId # None
  <2>1. SUFFICES ASSUME wm.desktopId = None PROVE FALSE
    OBVIOUS
  <2>2. faults \subseteq {"no window"} /\ (faults = {} => pc[d] # "poll")
    BY <1>1, <2>1 DEF Inv, DesktopOK
  <2> QED
    BY <2>2
<1>4. PICK e \in Desktops : e = wm.win[wm.desktopId].proc /\ Owns(e)
  BY <1>3 DEF Inv, DesktopOK
<1>5. ASSUME e # d PROVE Orphaned
  <2>1. pc[e] = "gone"
    BY <1>4, <1>5 DEF Inv, DesktopOK, Alive, Owns, Started
  <2>2. e \in Windowed /\ e \in Procs
    BY ProcSets
  <2>3. handler[e] = wm.desktopId
    BY <1>2, <1>3, <1>4, <2>1, <2>2 DEF Inv, OwnersOK
  <2>4. Listed(wm.desktopId)
    BY <1>4, <2>2, <2>3 DEF Inv, LinksSane, Listed, isFree
  <2> QED
    BY <1>2, <1>3, <1>4, <2>1, <2>2, <2>4 DEF Orphaned, LeftOver
<1> QED
  BY <1>3, <1>4, <1>5

\* A process that has ended and whose window is drawn has left it behind.
LEMMA DrawnOrphaned ==
  ASSUME Inv, faults \cap {"head closed", "desktop closed"} = {}, NEW q \in drawn(wm),
         Ended(q) \/ q = NoProc
  PROVE  Orphaned
<1>1. ASSUME NEW i \in visited(wm.list), i # wm.desktopId, ~wm.win[i].minimized,
             q = wm.win[i].proc
      PROVE  Orphaned
  <2>1. visited(wm.list) = {j \in Slots : Listed(j)}
    <3>1. Ordered(wm.list)
      BY DEF Inv, OrderOK
    <3> QED
      BY <3>1, WalksEnd DEF Listed
  <2>2. i \in Slots /\ Listed(i)
    BY <2>1
  <2>3. q \in Windowed /\ pc[q] # "dead"
    BY <1>1, <2>2 DEF Inv, ListedOwned
  <2>4. q \in Procs /\ q # NoProc
    BY <2>3, ProcSets, ConstantsAssumption DEF Windowed
  <2>5. LeftOver(q)
    BY <2>3, <2>4 DEF Ended, LeftOver
  <2> QED
    BY <1>1, <2>2, <2>5 DEF Orphaned
<1>2. ASSUME wm.popup.caller # None, q = wm.popup.proc
      PROVE  Orphaned
  <2>1. q \in StartWindows /\ pc[q] # "dead"
    BY <1>2 DEF Inv, PopupOK
  <2>2. q # NoProc
    BY <2>1, ConstantsAssumption
  <2> QED
    BY <1>2, <2>1, <2>2 DEF Ended, LeftOver, Orphaned
<1> QED
  BY <1>1, <1>2 DEF drawn

\* The desktop redraws the screen.
LEMMA RefreshInv ==
  ASSUME Inv, NEW d \in Desktops, refresh(d)
  PROVE  Inv'
<1>1. /\ pc[d] = "poll" /\ wm.status = "running" /\ d \in Windowed /\ d \in Procs
      /\ UNCHANGED <<pc, handler, events, faults>>
  BY ProcSets DEF refresh, At
<1>2. wm \in Managers /\ pc \in [Procs -> Labels]
  BY DEF Inv, Typed
<1>3. Goto(d, "poll")
  BY <1>1, <1>2 DEF Goto
<1>4. /\ wm' = wm \/ wm' = [wm EXCEPT !.status = "panic"] \/ wm' = [wm EXCEPT !.status = "hang"]
      /\ wm'.status = "hang" => ~ends(wm.list)
      /\ wm'.status = "panic" => \/ wm.desktopId = None \/ wm.win[wm.desktopId].proc # d
                                 \/ \E q \in drawn(wm) : Ended(q) \/ q = NoProc
      /\ wm'.status # "wild"
  <2>1. CASE wm' = updateScreen(wm, d)
    BY <1>1, <1>2, <2>1 DEF updateScreen, Managers
  <2>2. CASE wm.desktopId # None /\ wm' = updateScreen(wm, wm.win[wm.desktopId].proc)
    BY <1>1, <1>2, <2>2 DEF updateScreen, Managers
  <2>3. CASE /\ \E q \in drawn(wm) : Ended(q) \/ q = NoProc
             /\ wm' = [wm EXCEPT !.status = "panic"]
    BY <1>1, <1>2, <2>3 DEF Managers
  <2> QED
    BY <2>1, <2>2, <2>3 DEF refresh
<1>5. /\ SameOwners(wm, wm') /\ wm'.list = wm.list /\ wm'.win = wm.win
      /\ wm'.desktopId = wm.desktopId /\ wm'.popup = wm.popup
  BY <1>2, <1>4 DEF SameOwners, Managers
<1>6. OnlyKnownFailures'
  <2>1. wm'.status = "hang" => "head closed" \in faults
    BY <1>4, WalksEnd DEF Inv, OrderOK
  <2>2. ASSUME wm'.status = "panic", faults \cap {"head closed", "desktop closed", "no window"} = {}
        PROVE  Orphaned
    BY <1>1, <1>4, <2>2, DesktopsWindow, DrawnOrphaned
  <2>3. Orphaned => Orphaned'
    BY <1>1, <1>5 DEF Orphaned, LeftOver, Listed
  <2> QED
    BY <1>1, <1>4, <2>1, <2>2, <2>3 DEF OnlyKnownFailures
<1> QED
  BY <1>1, <1>3, <1>5, <1>6, ReturnInv DEF Shifted

\* createWindow() without memory or without a free slot.
LEMMA CreateNothingInv ==
  ASSUME Inv, NEW p \in Windowed, pc[p] = "create", wm.status = "running", Goto(p, "poll"),
         UNCHANGED <<wm, handler, events>>, faults' = faults \cup {"no window"}
  PROVE  Inv'
<1>1. wm' = wm /\ handler' = handler /\ events' = events
  OBVIOUS
<1>2. /\ pc' \in [Procs -> Labels] /\ pc'[p] = "poll" /\ p \in Procs
      /\ \A q \in Procs \ {p} : pc'[q] = pc[q]
  BY PcTyped, ProcSets DEF Inv, Labels
<1>3. SameProcs
  BY <1>1, <1>2, ProcSets DEF SameProcs, Started
<1>4. wm' \in Managers /\ Shifted(wm.list, wm'.list, wm.desktopId)
  BY <1>1 DEF Inv, Typed, Shifted
<1>5. /\ OrderOK' /\ LinksSane' /\ ListedOwned'
      /\ \A q \in Windowed : Owns(q)' <=> Owns(q)
      /\ \A i \in Slots, q \in Windowed : wm'.win[i].proc = q =>
            Started(q)' /\ (pc'[q] = "dead" \/ handler'[q] = i)
      /\ \A q \in Windowed : pc'[q] = "dead" \/ handler'[q] \in Slots
  BY <1>1, <1>3, <1>4, CalmStep
<1>6. Typed'
  BY <1>1, <1>2 DEF Inv, Typed
<1>7. OwnersOK'
  <2>1. ASSUME NEW q \in Windowed
        PROVE  /\ pc'[q] \in {"take", "close", "minimize", "maximize"} => Owns(q)'
               /\ pc'[q] = "take" => wm'.win[handler'[q]].q # <<>>
    <3>1. q # p => pc'[q] = pc[q]
      BY <1>2, ProcSets
    <3> QED
      BY <1>1, <1>2, <1>5, <3>1 DEF Inv, OwnersOK
  <2> QED
    BY <1>5, <2>1 DEF OwnersOK
<1>8. DesktopOK'
  <2>1. \A d \in Desktops : Alive(d)' => Alive(d)
    BY <1>2, ProcSets DEF Alive
  <2>2. CASE wm.desktopId # None
    BY <1>1, <1>5, <2>1, <2>2, CalmDesktop
  <2>3. CASE wm.desktopId = None
    <3>1. p \in Desktops
      BY <1>2, <2>3 DEF Inv, DesktopOK
    <3> QED
      BY <1>1, <1>2, <2>1, <2>3, <3>1 DEF Inv, DesktopOK
  <2> QED
    BY <2>2, <2>3
<1>9. PopupOK'
  <2>1. \A s \in StartWindows : pc'[s] = pc[s]
    BY <1>2, ProcSets
  <2> QED
    BY <1>1, <2>1 DEF Inv, PopupOK, Started
<1>10. OnlyKnownFailures'
  BY <1>1 DEF OnlyKnownFailures
<1> QED
  BY <1>5, <1>6, <1>7, <1>8, <1>9, <1>10 DEF Inv

\* A process ends and leaves its window behind, if it has one.
LEMMA ExitInv ==
  ASSUME Inv, NEW p \in Mortal, exit(p)
  PROVE  Inv'
<1>1. /\ wm' = wm /\ handler' = handler /\ events' = events /\ faults' = faults
      /\ wm.status = "running" /\ pc[p] \in UserMode /\ Goto(p, "gone") /\ p \in Procs
  BY ProcSets DEF exit, At
<1>2. /\ pc' \in [Procs -> Labels] /\ pc'[p] = "gone"
      /\ \A q \in Procs \ {p} : pc'[q] = pc[q]
  BY <1>1, PcTyped DEF Inv, Labels
<1>3. SameProcs
  BY <1>1, <1>2, ProcSets DEF SameProcs, Started, UserMode
<1>4. wm' \in Managers /\ Shifted(wm.list, wm'.list, wm.desktopId)
  BY <1>1 DEF Inv, Typed, Shifted
<1>5. /\ OrderOK' /\ LinksSane' /\ ListedOwned'
      /\ \A q \in Windowed : Owns(q)' <=> Owns(q)
      /\ \A i \in Slots, q \in Windowed : wm'.win[i].proc = q =>
            Started(q)' /\ (pc'[q] = "dead" \/ handler'[q] = i)
      /\ \A q \in Windowed : pc'[q] = "dead" \/ handler'[q] \in Slots
  BY <1>1, <1>3, <1>4, CalmStep
<1>6. Typed'
  BY <1>1, <1>2 DEF Inv, Typed
<1>7. OwnersOK'
  <2>1. ASSUME NEW q \in Windowed
        PROVE  /\ pc'[q] \in {"take", "close", "minimize", "maximize"} => Owns(q)'
               /\ pc'[q] = "take" => wm'.win[handler'[q]].q # <<>>
    <3>1. q # p => pc'[q] = pc[q]
      BY <1>2, ProcSets
    <3> QED
      BY <1>1, <1>2, <1>5, <3>1 DEF Inv, OwnersOK
  <2> QED
    BY <1>5, <2>1 DEF OwnersOK
<1>8. DesktopOK'
  <2>1. \A d \in Desktops : Alive(d)' => Alive(d)
    BY <1>2, ProcSets DEF Alive
  <2>2. CASE wm.desktopId # None
    BY <1>1, <1>5, <2>1, <2>2, CalmDesktop
  <2>3. CASE wm.desktopId = None
    <3>1. p \in Desktops
      BY <1>1, <2>3 DEF Inv, DesktopOK, UserMode
    <3> QED
      BY <1>1, <1>2, <2>1, <2>3, <3>1 DEF Inv, DesktopOK
  <2> QED
    BY <2>2, <2>3
<1>9. PopupOK'
  <2>1. \A s \in StartWindows : pc'[s] = pc[s] \/ (pc'[s] = "gone" /\ pc[s] # "unborn")
    BY <1>1, <1>2, ProcSets DEF UserMode
  <2> QED
    BY <1>1, <2>1 DEF Inv, PopupOK, Started
<1>10. OnlyKnownFailures'
  BY <1>1 DEF OnlyKnownFailures
<1> QED
  BY <1>5, <1>6, <1>7, <1>8, <1>9, <1>10 DEF Inv

\* GUI_createWindow() when there is a free slot.
LEMMA CreateWindowInv ==
  ASSUME Inv, NEW p \in Windowed, pc[p] = "create", wm.status = "running", Goto(p, "poll"),
         NEW i, i = findNextAvailableWindowId(wm.list), i # None,
         wm' = createWindow(wm, p, i), handler' = [handler EXCEPT ![p] = i],
         UNCHANGED <<events, faults>>
  PROVE  Inv'
<1>1. events' = events /\ faults' = faults
  OBVIOUS
<1>2. /\ pc[p] = "create" /\ wm.status = "running" /\ Goto(p, "poll")
      /\ wm' = createWindow(wm, p, i)
      /\ handler' = [handler EXCEPT ![p] = i]
      /\ events' = events /\ faults' = faults
  BY <1>1
<1>3. i \in Slots /\ isFree(wm.list, i) /\ i # None
  <2>1. \E y \in Slots : isFree(wm.list, y)
    BY DEF findNextAvailableWindowId
  <2> QED
    BY <1>1, <2>1, FirstFree DEF None, Slots
<1>4. /\ pc' \in [Procs -> Labels] /\ pc'[p] = "poll" /\ p \in Procs
      /\ \A q \in Procs \ {p} : pc'[q] = pc[q]
  BY <1>2, PcTyped, ProcSets DEF Inv, Labels
<1>5. /\ handler' \in [Procs -> Slots \cup {None, MAX_WINDOW_CNT}] /\ handler'[p] = i
      /\ \A q \in Procs \ {p} : handler'[q] = handler[q]
  BY <1>2, <1>3, <1>4 DEF Inv, Typed
<1>6. PICK new : new = [proc |-> p, minimized |-> FALSE, q |-> <<>>]
  OBVIOUS
<1>7. new \in Window /\ new.proc = p
  <2>1. <<>> \in Queues
    BY ConstantsAssumption DEF Queues
  <2> QED
    BY <1>6, <2>1 DEF Window
<1>8. PICK W : W = [wm.win EXCEPT ![i] = new]
  OBVIOUS
<1>9. wm \in Managers /\ wm.win \in [Slots -> Window] /\ wm.desktopId \in Slots \cup {None}
      /\ Chained(wm.list)
  BY DEF Inv, Typed, Managers, LinksSane
<1>10. W \in [Slots -> Window] /\ W[i] = new /\ (\A j \in Slots \ {i} : W[j] = wm.win[j])
  BY <1>3, <1>7, <1>8, <1>9
<1>11. PICK M : M = linkNewWindow(wm.list, i)
  OBVIOUS
<1>12. /\ Chained(M) /\ M.next[i] # i
       /\ \A x \in Slots \ {i} : wm.list.next[x] # x => M.next[x] # x
       /\ M \in Lists
  <2>1. /\ Chained(M) /\ M.next[i] # i
        /\ \A x \in Slots \ {i} : wm.list.next[x] # x => M.next[x] # x
    BY <1>3, <1>9, <1>11, LinkChained
  <2> QED
    BY <2>1 DEF Chained
<1>13. wm' = [wm EXCEPT !.list = M, !.desktopId = IF wm.desktopId = None THEN i ELSE wm.desktopId,
                        !.win = W]
  BY <1>2, <1>6, <1>8, <1>9, <1>11 DEF createWindow
<1>14. /\ wm' \in Managers /\ wm'.list = M /\ wm'.win = W /\ wm'.popup = wm.popup
       /\ wm'.status = wm.status
       /\ wm'.desktopId = IF wm.desktopId = None THEN i ELSE wm.desktopId
  BY <1>3, <1>9, <1>10, <1>12, <1>13 DEF Managers
<1>15. /\ \A q \in Windowed : pc[q] = "dead" \/ handler[q] \in Slots
       /\ \A j \in Slots : wm.win[j].proc # p
  BY <1>2 DEF Inv, OwnersOK, Started
<1>16. \A q \in Windowed \ {p} : Owns(q) => handler[q] \in Slots \ {i}
  <2>1. SUFFICES ASSUME NEW q \in Windowed \ {p}, Owns(q) PROVE handler[q] \in Slots \ {i}
    OBVIOUS
  <2>2. handler[q] \in Slots /\ wm.list.next[handler[q]] # handler[q]
    BY <1>15, <2>1 DEF Inv, LinksSane, Owns
  <2> QED
    BY <1>3, <2>2 DEF isFree
<1>17. \A q \in Windowed \ {p} : /\ q \in Procs /\ pc'[q] = pc[q] /\ handler'[q] = handler[q]
                                 /\ Owns(q)' <=> Owns(q)
  <2>1. SUFFICES ASSUME NEW q \in Windowed \ {p}
                 PROVE  /\ q \in Procs /\ pc'[q] = pc[q] /\ handler'[q] = handler[q]
                        /\ Owns(q)' <=> Owns(q)
    OBVIOUS
  <2>2. q \in Procs /\ pc'[q] = pc[q] /\ handler'[q] = handler[q]
    BY <1>4, <1>5, ProcSets
  <2>3. ASSUME Owns(q) PROVE Owns(q)'
    <3>1. W[handler[q]] = wm.win[handler[q]]
      BY <1>10, <1>16, <2>3
    <3> QED
      BY <1>14, <2>2, <2>3, <3>1 DEF Owns, Started
  <2>4. ASSUME Owns(q)' PROVE Owns(q)
    <3>1. handler[q] \in Slots /\ W[handler[q]].proc = q
      BY <1>14, <1>15, <2>2, <2>4 DEF Owns, Started
    <3>2. handler[q] # i
      BY <1>7, <1>10, <3>1
    <3> QED
      BY <1>10, <2>2, <2>4, <3>1, <3>2 DEF Owns, Started
  <2> QED
    BY <2>2, <2>3, <2>4
<1>18. Typed'
  BY <1>2, <1>4, <1>5, <1>14 DEF Inv, Typed
<1>19. Ordered(wm.list) => /\ Ordered(M) /\ M.tail # None
                           /\ \A j \in Slots : ~isFree(M, j) <=> j = i \/ ~isFree(wm.list, j)
  BY <1>3, <1>11, LinkOrdered
<1>20. wm'.desktopId # None
  BY <1>3, <1>14
<1>21. OrderOK'
  BY <1>2, <1>14, <1>19, <1>20 DEF Inv, OrderOK
<1>22. LinksSane'
  <2>1. ASSUME NEW q \in Windowed, Owns(q)' PROVE wm'.list.next[handler'[q]] # handler'[q]
    <3>1. CASE q = p
      BY <1>5, <1>12, <1>14, <3>1
    <3>2. CASE q # p
      BY <1>12, <1>14, <1>16, <1>17, <2>1, <3>2 DEF Inv, LinksSane
    <3> QED
      BY <3>1, <3>2
  <2> QED
    BY <1>12, <1>14, <2>1 DEF LinksSane
<1>23. OwnersOK'
  <2>1. ASSUME NEW j \in Slots, NEW q \in Windowed, wm'.win[j].proc = q
        PROVE  Started(q)' /\ (pc'[q] = "dead" \/ handler'[q] = j)
    <3>1. CASE j = i
      BY <1>4, <1>5, <1>7, <1>10, <1>14, <2>1, <3>1 DEF Started
    <3>2. CASE j # i
      <4>1. wm.win[j].proc = q /\ q # p
        BY <1>10, <1>14, <1>15, <2>1, <3>2
      <4> QED
        BY <1>17, <4>1 DEF Inv, OwnersOK, Started
    <3> QED
      BY <3>1, <3>2
  <2>2. ASSUME NEW q \in Windowed
        PROVE  /\ pc'[q] = "dead" \/ handler'[q] \in Slots
               /\ pc'[q] \in {"take", "close", "minimize", "maximize"} => Owns(q)'
               /\ pc'[q] = "take" => wm'.win[handler'[q]].q # <<>>
    <3>1. CASE q = p
      BY <1>3, <1>4, <1>5, <3>1
    <3>2. CASE q # p
      <4>1. pc[q] = "take" => /\ handler[q] \in Slots \ {i} /\ wm.win[handler[q]].q # <<>>
        BY <1>16, <3>2 DEF Inv, OwnersOK
      <4> QED
        BY <1>10, <1>14, <1>15, <1>17, <3>2, <4>1 DEF Inv, OwnersOK
    <3> QED
      BY <3>1, <3>2
  <2> QED
    BY <2>1, <2>2 DEF OwnersOK
<1>24. ListedOwned'
  <2>1. SUFFICES ASSUME faults \cap {"desktop closed", "head closed"} = {}
                 PROVE  /\ \A j \in Slots : ~isFree(M, j) => /\ W[j].proc \in Windowed
                                                            /\ pc'[W[j].proc] # "dead"
                        /\ ~isFree(M, wm'.desktopId)
    BY <1>2, <1>14 DEF ListedOwned, Listed
  <2>2. /\ \A j \in Slots : ~isFree(wm.list, j) => /\ wm.win[j].proc \in Windowed
                                                  /\ pc[wm.win[j].proc] # "dead"
        /\ wm.desktopId # None => ~isFree(wm.list, wm.desktopId)
    BY <2>1 DEF Inv, ListedOwned, Listed
  <2>3. \A j \in Slots : ~isFree(M, j) <=> j = i \/ ~isFree(wm.list, j)
    BY <1>19, <2>1 DEF Inv, OrderOK
  <2>4. ASSUME NEW j \in Slots, ~isFree(M, j) PROVE W[j].proc \in Windowed /\ pc'[W[j].proc] # "dead"
    <3>1. CASE j = i
      BY <1>4, <1>7, <1>10, <3>1
    <3>2. CASE j # i
      <4>1. /\ W[j] = wm.win[j] /\ wm.win[j].proc \in Windowed \ {p}
            /\ pc[wm.win[j].proc] # "dead"
        BY <1>10, <1>15, <2>2, <2>3, <2>4, <3>2
      <4> QED
        BY <1>17, <4>1
    <3> QED
      BY <3>1, <3>2
  <2>5. ~isFree(M, wm'.desktopId)
    BY <1>3, <1>9, <1>14, <2>2, <2>3
  <2> QED
    BY <2>4, <2>5
<1>25. DesktopOK'
  <2>1. \A d \in Desktops : Alive(d)' => Alive(d)
    BY <1>2, <1>4, <1>17, ProcSets DEF Alive
  <2>2. \A d, e \in Desktops : Alive(d)' /\ Alive(e)' => d = e
    BY <2>1 DEF Inv, DesktopOK
  <2>3. ASSUME "desktop closed" \notin faults
        PROVE  \E e \in Desktops : e = W[wm'.desktopId].proc /\ Owns(e)'
    <3>1. CASE wm.desktopId = None
      <4>1. p \in Desktops
        BY <1>2, <1>4, <3>1 DEF Inv, DesktopOK
      <4>2. Owns(p)'
        BY <1>4, <1>5, <1>7, <1>10, <1>14 DEF Owns, Started
      <4> QED
        BY <1>7, <1>10, <1>14, <3>1, <4>1, <4>2
    <3>2. CASE wm.desktopId # None
      <4>1. PICK e \in Desktops : e = wm.win[wm.desktopId].proc /\ Owns(e)
        BY <2>3, <3>2 DEF Inv, DesktopOK
      <4>2. e \in Windowed /\ e # p
        BY <1>2, <4>1, ProcSets DEF Owns, Started
      <4>3. handler[e] = wm.desktopId /\ wm.desktopId \in Slots
        BY <1>9, <3>2, <4>1, <4>2 DEF Inv, OwnersOK, Owns
      <4>4. wm.desktopId # i
        BY <1>16, <4>1, <4>2, <4>3
      <4> QED
        BY <1>10, <1>14, <1>17, <3>2, <4>1, <4>2, <4>3, <4>4
    <3> QED
      BY <3>1, <3>2
  <2> QED
    BY <1>2, <1>14, <1>20, <2>2, <2>3 DEF DesktopOK
<1>26. PopupOK'
  <2>1. \A s \in StartWindows : pc'[s] = pc[s]
    BY <1>4, ProcSets
  <2> QED
    BY <1>14, <2>1 DEF Inv, PopupOK, Started
<1>27. OnlyKnownFailures'
  BY <1>2, <1>14 DEF OnlyKnownFailures
<1> QED
  BY <1>18, <1>21, <1>22, <1>23, <1>24, <1>25, <1>26, <1>27 DEF Inv

\* createWindow() in either case.
LEMMA CreateInv ==
  ASSUME Inv, NEW p \in Windowed, create(p)
  PROVE  Inv'
<1>1. PICK i : i = findNextAvailableWindowId(wm.list)
  OBVIOUS
<1>2. /\ pc[p] = "create" /\ wm.status = "running" /\ Goto(p, "poll")
      /\ \/ faults' = faults \cup {"no window"} /\ UNCHANGED <<wm, handler>>
         \/ /\ i # None
            /\ wm' = createWindow(wm, p, i)
            /\ handler' = [handler EXCEPT ![p] = i]
            /\ UNCHANGED faults
      /\ UNCHANGED events
  BY <1>1 DEF create, At
<1> QED
  BY <1>1, <1>2, CreateNothingInv, CreateWindowInv

\* GUI_closeWindow() and exit().
LEMMA CloseInv ==
  ASSUME Inv, NEW p \in Windowed, close(p)
  PROVE  Inv'
<1>1. /\ pc[p] = "close" /\ wm.status = "running" /\ Goto(p, "dead")
      /\ wm' = closeWindow(wm, handler[p])
      /\ handler' = [handler EXCEPT ![p] = None]
      /\ events' = events
  BY DEF close, At
<1>2. PICK i \in Slots : i = handler[p]
  BY <1>1 DEF Inv, OwnersOK
<1>3. Owns(p) /\ wm.win[i].proc = p /\ wm.list.next[i] # i
  <2>1. Owns(p)
    BY <1>1 DEF Inv, OwnersOK
  <2> QED
    BY <1>2, <2>1 DEF Owns, Inv, LinksSane
<1>4. /\ faults \subseteq faults'
      /\ faults' \subseteq {"no window", "head closed", "desktop closed"}
      /\ i = wm.list.head => "head closed" \in faults'
      /\ i = wm.desktopId => "desktop closed" \in faults'
  BY <1>2 DEF close, Inv, Typed
<1>5. /\ pc' \in [Procs -> Labels] /\ pc'[p] = "dead" /\ p \in Procs
      /\ \A q \in Procs \ {p} : pc'[q] = pc[q]
  BY <1>1, PcTyped, ProcSets DEF Inv, Labels
<1>6. /\ handler' \in [Procs -> Slots \cup {None, MAX_WINDOW_CNT}]
      /\ \A q \in Procs \ {p} : handler'[q] = handler[q]
  BY <1>1, <1>5 DEF Inv, Typed
<1>7. wm \in Managers /\ wm.win \in [Slots -> Window] /\ wm.win[i] \in Window
      /\ wm.desktopId \in Slots \cup {None} /\ Chained(wm.list)
  BY DEF Inv, Typed, Managers, LinksSane
<1>8. PICK W : W = [wm.win EXCEPT ![i].q = <<>>]
  OBVIOUS
<1>9. W[i] = [wm.win[i] EXCEPT !.q = <<>>] /\ (\A j \in Slots \ {i} : W[j] = wm.win[j])
  BY <1>7, <1>8
<1>10. W[i] \in Window /\ W[i].proc = wm.win[i].proc
  <2>1. <<>> \in Queues
    BY ConstantsAssumption DEF Queues
  <2> QED
    BY <1>7, <1>9, <2>1 DEF Window
<1>11. W \in [Slots -> Window] /\ \A j \in Slots : W[j].proc = wm.win[j].proc
  BY <1>7, <1>8, <1>9, <1>10
<1>12. PICK M : M = unlinkWindow(wm.list, i)
  OBVIOUS
<1>13. /\ Chained(M) /\ M \in Lists
       /\ \A x \in Slots \ {i} : wm.list.next[x] # x => M.next[x] # x
  <2>1. /\ Chained(M)
        /\ \A x \in Slots \ {i} : wm.list.next[x] # x => M.next[x] # x
    BY <1>3, <1>7, <1>12, UnlinkChained
  <2> QED
    BY <2>1 DEF Chained
<1>14. wm' = [wm EXCEPT !.list = M, !.win = W]
  BY <1>1, <1>2, <1>8, <1>12 DEF closeWindow
<1>15. /\ wm' \in Managers /\ wm'.list = M /\ wm'.win = W /\ wm'.popup = wm.popup
       /\ wm'.status = wm.status /\ wm'.desktopId = wm.desktopId
  BY <1>7, <1>11, <1>13, <1>14 DEF Managers
<1>16. wm.desktopId # None
  BY <1>1, <1>5, DesktopExists
<1>17. \A q \in Windowed \ {p} : /\ q \in Procs /\ pc'[q] = pc[q] /\ handler'[q] = handler[q]
                                 /\ pc[q] = "dead" \/ handler[q] \in Slots
                                 /\ Owns(q) => handler[q] \in Slots \ {i}
                                 /\ Owns(q)' <=> Owns(q)
  <2>1. SUFFICES ASSUME NEW q \in Windowed \ {p}
                 PROVE  /\ q \in Procs /\ pc'[q] = pc[q] /\ handler'[q] = handler[q]
                        /\ pc[q] = "dead" \/ handler[q] \in Slots
                        /\ Owns(q) => handler[q] \in Slots \ {i}
                        /\ Owns(q)' <=> Owns(q)
    OBVIOUS
  <2>2. q \in Procs /\ pc'[q] = pc[q] /\ handler'[q] = handler[q]
    BY <1>5, <1>6, ProcSets
  <2>3. pc[q] = "dead" \/ handler[q] \in Slots
    BY DEF Inv, OwnersOK
  <2>4. Owns(q) => handler[q] \in Slots \ {i}
    BY <1>3, <2>3 DEF Owns
  <2>5. Owns(q)' <=> Owns(q)
    BY <1>11, <1>15, <2>2, <2>3 DEF Owns, Started
  <2> QED
    BY <2>2, <2>3, <2>4, <2>5
<1>18. ~isFree(wm.list, i)
  BY <1>3 DEF isFree
<1>19. Ordered(wm.list) /\ i # wm.list.head =>
          /\ Ordered(M) /\ M.tail # None
          /\ \A j \in Slots : ~isFree(M, j) <=> j # i /\ ~isFree(wm.list, j)
  BY <1>12, <1>18, UnlinkOrdered
<1>20. "head closed" \notin faults' => Ordered(wm.list) /\ i # wm.list.head
  BY <1>4 DEF Inv, OrderOK
<1>21. Typed'
  BY <1>1, <1>4, <1>5, <1>6, <1>15 DEF Inv, Typed
<1>22. OrderOK'
  BY <1>15, <1>16, <1>19, <1>20 DEF OrderOK
<1>23. LinksSane'
  <2>1. ASSUME NEW q \in Windowed, Owns(q)' PROVE wm'.list.next[handler'[q]] # handler'[q]
    <3>1. q # p
      BY <1>5, <2>1 DEF Owns
    <3> QED
      BY <1>13, <1>15, <1>17, <2>1, <3>1 DEF Inv, LinksSane
  <2> QED
    BY <1>13, <1>15, <2>1 DEF LinksSane
<1>24. OwnersOK'
  <2>1. ASSUME NEW j \in Slots, NEW q \in Windowed, wm'.win[j].proc = q
        PROVE  Started(q)' /\ (pc'[q] = "dead" \/ handler'[q] = j)
    <3>1. Started(q) /\ (pc[q] = "dead" \/ handler[q] = j)
      BY <1>11, <1>15, <2>1 DEF Inv, OwnersOK
    <3>2. CASE q = p
      BY <1>5, <3>2 DEF Started
    <3>3. CASE q # p
      BY <1>17, <3>1, <3>3 DEF Started
    <3> QED
      BY <3>2, <3>3
  <2>2. ASSUME NEW q \in Windowed
        PROVE  /\ pc'[q] = "dead" \/ handler'[q] \in Slots
               /\ pc'[q] \in {"take", "close", "minimize", "maximize"} => Owns(q)'
               /\ pc'[q] = "take" => wm'.win[handler'[q]].q # <<>>
    <3>1. CASE q = p
      BY <1>5, <3>1
    <3>2. CASE q # p
      <4>1. pc[q] = "take" => handler[q] \in Slots \ {i} /\ wm.win[handler[q]].q # <<>>
        BY <1>17, <3>2 DEF Inv, OwnersOK
      <4> QED
        BY <1>9, <1>15, <1>17, <3>2, <4>1 DEF Inv, OwnersOK
    <3> QED
      BY <3>1, <3>2
  <2> QED
    BY <2>1, <2>2 DEF OwnersOK
<1>25. ListedOwned'
  <2>1. SUFFICES ASSUME faults' \cap {"desktop closed", "head closed"} = {}
                 PROVE  /\ \A j \in Slots : ~isFree(M, j) => /\ W[j].proc \in Windowed
                                                            /\ pc'[W[j].proc] # "dead"
                        /\ ~isFree(M, wm.desktopId)
    BY <1>15 DEF ListedOwned, Listed
  <2>2. /\ \A j \in Slots : ~isFree(wm.list, j) => /\ wm.win[j].proc \in Windowed
                                                  /\ pc[wm.win[j].proc] # "dead"
        /\ ~isFree(wm.list, wm.desktopId)
    BY <1>4, <1>16, <2>1 DEF Inv, ListedOwned, Listed
  <2>3. \A j \in Slots : ~isFree(M, j) <=> j # i /\ ~isFree(wm.list, j)
    BY <1>19, <1>20, <2>1
  <2>4. ASSUME NEW j \in Slots, ~isFree(M, j) PROVE W[j].proc \in Windowed /\ pc'[W[j].proc] # "dead"
    <3>1. /\ W[j].proc = wm.win[j].proc /\ wm.win[j].proc \in Windowed
          /\ pc[wm.win[j].proc] # "dead" /\ j # i
      BY <1>11, <2>2, <2>3, <2>4
    <3>2. wm.win[j].proc # p
      BY <1>1, <1>2, <3>1 DEF Inv, OwnersOK
    <3> QED
      BY <1>17, <3>1, <3>2
  <2>5. wm.desktopId \in Slots /\ wm.desktopId # i
    BY <1>4, <1>7, <1>16, <2>1
  <2> QED
    BY <2>2, <2>3, <2>4, <2>5
<1>26. DesktopOK'
  <2>1. \A d \in Desktops : Alive(d)' => Alive(d)
    BY <1>1, <1>5, <1>17, ProcSets DEF Alive
  <2>2. \A d, e \in Desktops : Alive(d)' /\ Alive(e)' => d = e
    BY <2>1 DEF Inv, DesktopOK
  <2>3. ASSUME "desktop closed" \notin faults'
        PROVE  \E e \in Desktops : e = W[wm.desktopId].proc /\ Owns(e)'
    <3>1. wm.desktopId # i /\ wm.desktopId \in Slots /\ "desktop closed" \notin faults
      BY <1>4, <1>7, <1>16, <2>3
    <3>2. PICK e \in Desktops : e = wm.win[wm.desktopId].proc /\ Owns(e)
      BY <1>16, <3>1 DEF Inv, DesktopOK
    <3>3. e \in Windowed /\ handler[e] = wm.desktopId
      BY <3>1, <3>2, ProcSets DEF Inv, OwnersOK, Owns
    <3>4. e # p
      BY <1>2, <3>1, <3>3
    <3> QED
      BY <1>11, <1>17, <3>1, <3>2, <3>3, <3>4
  <2> QED
    BY <1>15, <1>16, <2>2, <2>3 DEF DesktopOK
<1>27. PopupOK'
  <2>1. \A s \in StartWindows : pc'[s] = pc[s]
    BY <1>5, ProcSets
  <2> QED
    BY <1>15, <2>1 DEF Inv, PopupOK, Started
<1>28. OnlyKnownFailures'
  BY <1>1, <1>15 DEF OnlyKnownFailures
<1> QED
  BY <1>21, <1>22, <1>23, <1>24, <1>25, <1>26, <1>27, <1>28 DEF Inv

\* A step of a startWindow leaves the windows alone.
LEMMA PopupFrame ==
  ASSUME Inv, NEW s \in StartWindows, pc[s] # "unborn",
         wm' \in Managers, wm'.list = wm.list, wm'.desktopId = wm.desktopId, wm'.win = wm.win,
         pc' \in [Procs -> Labels],
         \A q \in Procs \ {s} : \/ pc'[q] = pc[q]
                                \/ pc[q] = "unborn" /\ pc'[q] = "create" /\ q \notin Desktops,
         handler' \in [Procs -> Slots \cup {None, MAX_WINDOW_CNT}],
         \A q \in Windowed : handler'[q] = handler[q],
         events' = events, faults' = faults, PopupOK', OnlyKnownFailures'
  PROVE  Inv'
<1>1. \A q \in Windowed : /\ q \in Procs
                          /\ \/ pc'[q] = pc[q]
                             \/ pc[q] = "unborn" /\ pc'[q] = "create" /\ q \notin Desktops
  BY ProcSets
<1>2. SameProcs
  BY <1>1 DEF SameProcs, Started
<1>3. /\ OrderOK' /\ LinksSane' /\ ListedOwned'
      /\ \A q \in Windowed : Owns(q)' <=> Owns(q)
      /\ \A i \in Slots, q \in Windowed : wm'.win[i].proc = q =>
            Started(q)' /\ (pc'[q] = "dead" \/ handler'[q] = i)
      /\ \A q \in Windowed : pc'[q] = "dead" \/ handler'[q] \in Slots
  BY <1>2, CalmStep DEF Shifted
<1>4. Typed'
  BY DEF Inv, Typed
<1>5. OwnersOK'
  <2>1. ASSUME NEW q \in Windowed
        PROVE  /\ pc'[q] \in {"take", "close", "minimize", "maximize"} => Owns(q)'
               /\ pc'[q] = "take" => wm'.win[handler'[q]].q # <<>>
    BY <1>1, <1>3 DEF Inv, OwnersOK
  <2> QED
    BY <1>3, <2>1 DEF OwnersOK
<1>6. DesktopOK'
  <2>1. wm.desktopId # None
    BY DesktopExists, ProcSets
  <2>2. \A d \in Desktops : Alive(d)' => Alive(d)
    BY <1>1, ProcSets DEF Alive
  <2> QED
    BY <1>3, <2>1, <2>2, CalmDesktop
<1> QED
  BY <1>3, <1>4, <1>5, <1>6 DEF Inv

\* Two startWindow processes have been started.
LEMMA TwoStarted ==
  ASSUME NEW s \in StartWindows, NEW t \in StartWindows \ {s}, pc[s] # "unborn", pc[t] # "unborn"
  PROVE  Cardinality({r \in StartWindows : pc[r] # "unborn"}) > 1
<1>1. PICK U : U = {r \in StartWindows : pc[r] # "unborn"}
  OBVIOUS
<1>2. IsFiniteSet(U)
  BY <1>1, FS_Subset, ConstantsAssumption
<1>3. {s, t} \subseteq U
  BY <1>1
<1>4. Cardinality({s, t}) = 2
  <2>1. IsFiniteSet({s}) /\ Cardinality({s}) = 1
    BY FS_Singleton
  <2>2. {s, t} = {s} \cup {t} /\ t \notin {s}
    OBVIOUS
  <2> QED
    BY <2>1, <2>2, FS_AddElement
<1>5. Cardinality({s, t}) <= Cardinality(U)
  BY <1>2, <1>3, FS_Subset
<1>6. Cardinality(U) \in Nat
  BY <1>2, FS_CardinalityType
<1> QED
  BY <1>1, <1>4, <1>5, <1>6

\* There is never more than one popup, and its owner has not closed it.
LEMMA CreatePopupInv ==
  ASSUME Inv, NEW s \in StartWindows, createPopup(s)
  PROVE  Inv'
<1>1. /\ pc[s] = "create" /\ wm.status = "running" /\ Goto(s, "poll")
      /\ wm' = createPopupWindow(wm, s, handler[s]) \/ wm' = wm
      /\ handler' = handler /\ events' = events /\ faults' = faults
  BY DEF createPopup, At
<1>2. /\ pc' \in [Procs -> Labels] /\ pc'[s] = "poll" /\ s \in Procs
      /\ \A q \in Procs \ {s} : pc'[q] = pc[q]
  BY <1>1, PcTyped, ProcSets DEF Inv, Labels
<1>3. wm \in Managers /\ handler \in [Procs -> Slots \cup {None, MAX_WINDOW_CNT}]
  BY DEF Inv, Typed
<1>4. PICK P : P = [caller |-> handler[s], proc |-> s, q |-> <<>>]
  OBVIOUS
<1>5. P \in Popup /\ P.proc = s
  <2>1. <<>> \in Queues
    BY ConstantsAssumption DEF Queues
  <2>2. handler[s] \in Slots \cup {None, MAX_WINDOW_CNT}
    BY <1>2, <1>3
  <2> QED
    BY <1>4, <2>1, <2>2 DEF Popup
<1>6. /\ wm' \in Managers /\ wm'.list = wm.list /\ wm'.desktopId = wm.desktopId
      /\ wm'.win = wm.win /\ wm'.status = wm.status
      /\ wm'.popup = wm.popup \/ (wm.popup.caller = None /\ wm'.popup = P)
  <2>1. CASE wm' = wm \/ wm.popup.caller # None
    BY <1>1, <1>3, <2>1 DEF createPopupWindow
  <2>2. CASE wm.popup.caller = None /\ wm' = createPopupWindow(wm, s, handler[s])
    <3>1. wm' = [wm EXCEPT !.popup = P]
      BY <1>1, <1>4, <2>2 DEF createPopupWindow
    <3> QED
      BY <1>3, <1>5, <2>2, <3>1 DEF Managers
  <2> QED
    BY <1>1, <2>1, <2>2
<1>7. PopupOK'
  <2>1. wm'.popup.caller # None =>
          wm'.popup.proc \in StartWindows /\ pc'[wm'.popup.proc] \notin {"unborn", "create", "dead"}
    <3>1. CASE wm.popup.caller # None
      <4>1. PICK t \in StartWindows : t = wm.popup.proc /\ pc[t] \notin {"unborn", "create", "dead"}
        BY <3>1 DEF Inv, PopupOK, Started
      <4>2. t \in Procs \ {s}
        BY <1>1, <4>1, ProcSets
      <4> QED
        BY <1>2, <1>6, <3>1, <4>1, <4>2 DEF Started
    <3>2. CASE wm.popup.caller = None
      BY <1>2, <1>5, <1>6, <3>2 DEF Started
    <3> QED
      BY <3>1, <3>2
  <2>2. ASSUME NEW r \in StartWindows, pc'[r] = "take"
        PROVE  \E t \in StartWindows \ {r} : pc'[t] # "unborn"
    BY <1>2, <2>2
  <2> QED
    BY <2>1, <2>2 DEF PopupOK, Started
<1>8. OnlyKnownFailures'
  BY <1>1, <1>6 DEF OnlyKnownFailures
<1> QED
  BY <1>1, <1>2, <1>3, <1>6, <1>7, <1>8, PopupFrame

\* The tests without wmlock: what they saw can have been taken by another startWindow.
LEMMA PeekPopupInv ==
  ASSUME Inv, NEW s \in StartWindows, pollPopup(s) \/ peekPopup(s)
  PROVE  Inv'
<1>1. /\ pc[s] \in {"poll", "peek"} /\ wm.status = "running" /\ wm' = wm
      /\ handler' = handler /\ events' = events /\ faults' = faults
  BY DEF pollPopup, peekPopup, At
<1>2. PICK x \in Labels : /\ Goto(s, x) /\ x \in {"poll", "peek", "take"}
                          /\ x = "take" => wm.popup.q # <<>>
  BY DEF pollPopup, peekPopup, Labels
<1>3. /\ pc' \in [Procs -> Labels] /\ pc'[s] = x /\ s \in Procs
      /\ \A q \in Procs \ {s} : pc'[q] = pc[q]
  BY <1>2, PcTyped, ProcSets DEF Inv
<1>4. wm \in Managers /\ handler \in [Procs -> Slots \cup {None, MAX_WINDOW_CNT}]
  BY DEF Inv, Typed
<1>5. \A r \in StartWindows : r # s => pc'[r] = pc[r]
  BY <1>3, ProcSets
<1>6. PopupOK'
  <2>1. wm'.popup.caller # None =>
          wm'.popup.proc \in StartWindows /\ pc'[wm'.popup.proc] \notin {"unborn", "create", "dead"}
    BY <1>1, <1>2, <1>3, <1>5 DEF Inv, PopupOK, Started
  <2>2. ASSUME NEW r \in StartWindows, pc'[r] = "take"
        PROVE  wm'.popup.q # <<>> \/ \E t \in StartWindows \ {r} : pc'[t] # "unborn"
    <3>1. CASE r = s
      BY <1>1, <1>2, <1>3, <2>2, <3>1
    <3>2. CASE r # s
      <4>1. pc[r] = "take"
        BY <1>5, <2>2, <3>2
      <4>2. wm.popup.q # <<>> \/ \E t \in StartWindows \ {r} : pc[t] # "unborn"
        BY <4>1 DEF Inv, PopupOK
      <4>3. \A t \in StartWindows : pc[t] # "unborn" => pc'[t] # "unborn"
        BY <1>2, <1>3, <1>5
      <4> QED
        BY <1>1, <4>2, <4>3
    <3> QED
      BY <3>1, <3>2
  <2> QED
    BY <2>1, <2>2 DEF PopupOK, Started
<1>7. OnlyKnownFailures'
  BY <1>1 DEF OnlyKnownFailures
<1> QED
  BY <1>1, <1>3, <1>4, <1>6, <1>7, PopupFrame

\* The popup's buffer is found empty only when there are two startWindows.
LEMMA TakePopupInv ==
  ASSUME Inv, NEW s \in StartWindows, takePopup(s)
  PROVE  Inv'
<1>1. /\ pc[s] = "take" /\ wm.status = "running" /\ s \in Procs
      /\ events' = events /\ faults' = faults
  BY ProcSets DEF takePopup, At
<1>2. /\ wm \in Managers /\ pc \in [Procs -> Labels]
      /\ handler \in [Procs -> Slots \cup {None, MAX_WINDOW_CNT}]
      /\ wm.popup \in Popup /\ wm.popup.q \in Queues
  BY DEF Inv, Typed, Managers, Popup
<1>3. CASE wm.popup.q = <<>>
  <2>1. wm' = [wm EXCEPT !.status = "wild"] /\ pc' = pc /\ handler' = handler
    BY <1>3 DEF takePopup
  <2>2. /\ wm' \in Managers /\ wm'.list = wm.list /\ wm'.desktopId = wm.desktopId
        /\ wm'.win = wm.win /\ wm'.status = "wild" /\ wm'.popup = wm.popup
    BY <1>2, <2>1 DEF Managers
  <2>3. PopupOK'
    BY <2>1, <2>2 DEF Inv, PopupOK, Started
  <2>4. PICK t \in StartWindows \ {s} : pc[t] # "unborn"
    BY <1>1, <1>3 DEF Inv, PopupOK
  <2>5. Cardinality({r \in StartWindows : pc[r] # "unborn"}) > 1
    BY <1>1, <2>4, TwoStarted
  <2>6. OnlyKnownFailures'
    BY <2>1, <2>2, <2>5 DEF OnlyKnownFailures
  <2> QED
    BY <1>1, <1>2, <2>1, <2>2, <2>3, <2>6, PopupFrame
<1>4. CASE wm.popup.q # <<>>
  <2>1. wm' = [wm EXCEPT !.popup.q = Tail(@)] /\ receive(s, Head(wm.popup.q))
    BY <1>4 DEF takePopup
  <2>2. Head(wm.popup.q) \in Kinds /\ Tail(wm.popup.q) \in Queues
    BY <1>2, <1>4, FrontTyped
  <2>3. PICK P : P = [wm.popup EXCEPT !.q = Tail(wm.popup.q)]
    OBVIOUS
  <2>4. P \in Popup /\ P.caller = wm.popup.caller /\ P.proc = wm.popup.proc
    BY <1>2, <2>2, <2>3 DEF Popup
  <2>5. wm' = [wm EXCEPT !.popup = P]
    BY <2>1, <2>3
  <2>6. /\ wm' \in Managers /\ wm'.list = wm.list /\ wm'.desktopId = wm.desktopId
        /\ wm'.win = wm.win /\ wm'.status = wm.status /\ wm'.popup = P
    BY <1>2, <2>4, <2>5 DEF Managers
  <2>7. /\ pc' \in [Procs -> Labels]
        /\ handler' \in [Procs -> Slots \cup {None, MAX_WINDOW_CNT}]
        /\ \/ pc'[s] \in {"poll", "close"}
           \/ s \in Windowed /\ pc'[s] \in {"minimize", "maximize", "busy"}
        /\ \A q \in Procs \ {s} : \/ pc'[q] = pc[q]
                                  \/ pc[q] = "unborn" /\ pc'[q] = "create" /\ q \notin Desktops
        /\ \A q \in Windowed : handler'[q] = handler[q]
    BY <1>1, <2>1, <2>2, Receives DEF Inv
  <2>8. pc'[s] \in {"poll", "close"}
    BY <2>7, ProcSets
  <2>9. PopupOK'
    <3>1. wm'.popup.caller # None =>
            wm'.popup.proc \in StartWindows /\ pc'[wm'.popup.proc] \notin {"unborn", "create", "dead"}
      <4>1. SUFFICES ASSUME wm.popup.caller # None
                     PROVE  /\ wm.popup.proc \in StartWindows
                            /\ pc'[wm.popup.proc] \notin {"unborn", "create", "dead"}
        BY <2>4, <2>6 DEF Started
      <4>2. PICK t \in StartWindows : t = wm.popup.proc /\ pc[t] \notin {"unborn", "create", "dead"}
        BY <4>1 DEF Inv, PopupOK, Started
      <4>3. pc'[t] \notin {"unborn", "create", "dead"}
        BY <2>7, <2>8, <4>2, ProcSets
      <4> QED
        BY <4>2, <4>3
    <3>2. ASSUME NEW r \in StartWindows, pc'[r] = "take"
          PROVE  \E t \in StartWindows \ {r} : pc'[t] # "unborn"
      BY <2>8, <3>2
    <3> QED
      BY <3>1, <3>2 DEF PopupOK, Started
  <2>10. OnlyKnownFailures'
    BY <1>1, <2>6 DEF OnlyKnownFailures
  <2> QED
    BY <1>1, <2>6, <2>7, <2>9, <2>10, PopupFrame
<1> QED
  BY <1>3, <1>4

\* Whoever closes the popup: the popup has no owner afterwards.
LEMMA ClosePopupInv ==
  ASSUME Inv, NEW s \in StartWindows, closePopup(s)
  PROVE  Inv'
<1>1. /\ pc[s] = "close" /\ wm.status = "running" /\ Goto(s, "dead")
      /\ wm' = closePopupWindow(wm)
      /\ handler' = handler /\ events' = events /\ faults' = faults
  BY DEF closePopup, At
<1>2. /\ pc' \in [Procs -> Labels] /\ pc'[s] = "dead" /\ s \in Procs
      /\ \A q \in Procs \ {s} : pc'[q] = pc[q]
  BY <1>1, PcTyped, ProcSets DEF Inv, Labels
<1>3. wm \in Managers /\ handler \in [Procs -> Slots \cup {None, MAX_WINDOW_CNT}]
      /\ wm.popup \in Popup
  BY DEF Inv, Typed, Managers
<1>4. PICK P : P = [wm.popup EXCEPT !.caller = None, !.q = <<>>]
  OBVIOUS
<1>5. P \in Popup /\ P.caller = None
  <2>1. <<>> \in Queues
    BY ConstantsAssumption DEF Queues
  <2> QED
    BY <1>3, <1>4, <2>1 DEF Popup
<1>6. wm' = [wm EXCEPT !.popup = P]
  BY <1>1, <1>4 DEF closePopupWindow
<1>7. /\ wm' \in Managers /\ wm'.list = wm.list /\ wm'.desktopId = wm.desktopId
      /\ wm'.win = wm.win /\ wm'.status = wm.status /\ wm'.popup = P
  BY <1>3, <1>5, <1>6 DEF Managers
<1>8. PopupOK'
  <2>1. ASSUME NEW r \in StartWindows, pc'[r] = "take"
        PROVE  \E t \in StartWindows \ {r} : pc'[t] # "unborn"
    BY <1>2, <2>1
  <2> QED
    BY <1>5, <1>7, <2>1 DEF PopupOK, Started
<1>9. OnlyKnownFailures'
  BY <1>1, <1>7 DEF OnlyKnownFailures
<1> QED
  BY <1>1, <1>2, <1>3, <1>7, <1>8, <1>9, PopupFrame

-----------------------------------------------------------------------------
(* The invariant. *)

\* Before the first window there is nothing to confuse.
LEMMA InitInv == Init => Inv
<1> SUFFICES ASSUME Init PROVE Inv
  OBVIOUS
<1>1. /\ wm.list = wmInit /\ wm.desktopId = None /\ wm.status = "running"
      /\ wm.popup = [caller |-> None, proc |-> NoProc, q |-> <<>>]
      /\ \A i \in Slots : wm.win[i].proc = NoProc
      /\ \A p \in Procs : pc[p] = "unborn" /\ handler[p] = 0
      /\ faults = {} /\ wm.popup.caller = None
  BY DEF Init
<1>2. 0 \in Slots /\ None \notin Slots
  BY WindowCntAssumption DEF Slots, None
<1>3. wmInit \in Lists /\ wmInit.tail = None /\ wmInit.head = None
      /\ \A i \in Slots : wmInit.next[i] = i /\ wmInit.prev[i] = i
  BY DEF wmInit, Lists
<1>4. \A p \in Windowed : pc[p] = "unborn" /\ p # NoProc
  BY <1>1, ProcSets, ConstantsAssumption DEF Windowed
<1>5. Typed
  <2>1. <<>> \in Queues
    BY ConstantsAssumption DEF Queues
  <2>2. [proc |-> NoProc, minimized |-> FALSE, q |-> <<>>] \in Window
    BY <2>1 DEF Window
  <2>3. [i \in Slots |-> [proc |-> NoProc, minimized |-> FALSE, q |-> <<>>]] \in [Slots -> Window]
    BY <2>2
  <2>4. [caller |-> None, proc |-> NoProc, q |-> <<>>] \in Popup
    BY <2>1 DEF Popup
  <2>5. wm \in Managers
    BY <1>3, <2>3, <2>4 DEF Init, Managers
  <2>6. pc \in [Procs -> Labels] /\ handler \in [Procs -> Slots \cup {None, MAX_WINDOW_CNT}]
    BY <1>2 DEF Init, Labels
  <2>7. events \in 0 .. MaxEvents /\ faults = {}
    BY ConstantsAssumption DEF Init
  <2> QED
    BY <2>5, <2>6, <2>7 DEF Typed
<1>6. OrderOK
  <2>1. Represents(wmInit, <<>>)
    BY DEF wmInit, Represents, Lists, LinksOK, EndsOK, NoDuplicates, OthersFree, Elems, isFree
  <2>2. Ordered(wm.list)
    BY <1>1, <2>1 DEF Ordered, Represents
  <2> QED
    BY <1>1, <1>3, <2>2 DEF OrderOK
<1>7. LinksSane
  <2>1. Along({}, wmInit.next)
    BY <1>3 DEF Along
  <2>2. Chained(wmInit)
    BY <1>3, <2>1 DEF Chained
  <2> QED
    BY <1>1, <1>4, <2>2 DEF LinksSane, Owns, Started
<1>8. OwnersOK
  <2>1. \A p \in Windowed : handler[p] \in Slots
    BY <1>1, <1>2, ProcSets
  <2> QED
    BY <1>1, <1>4, <2>1 DEF OwnersOK
<1>9. ListedOwned
  BY <1>1, <1>3 DEF ListedOwned, Listed, isFree
<1>10. DesktopOK
  <2>1. \A d \in Desktops : ~Alive(d)
    BY <1>1, ProcSets DEF Alive
  <2>2. \A i \in Slots : wm.win[i].proc \notin Windowed
    BY <1>1, <1>4
  <2> QED
    BY <1>1, <2>1, <2>2 DEF DesktopOK
<1>11. PopupOK
  BY <1>1, ProcSets DEF PopupOK
<1>12. OnlyKnownFailures
  BY <1>1 DEF OnlyKnownFailures
<1> QED
  BY <1>5, <1>6, <1>7, <1>8, <1>9, <1>10, <1>11, <1>12 DEF Inv

\* Nothing happens.
LEMMA StutterInv ==
  ASSUME Inv, UNCHANGED vars
  PROVE  Inv'
<1>1. wm' = wm /\ pc' = pc /\ handler' = handler /\ events' = events /\ faults' = faults
  BY DEF vars
<1>2. Typed' /\ OrderOK' /\ OwnersOK' /\ ListedOwned'
  BY <1>1 DEF Inv, Typed, OrderOK, OwnersOK, ListedOwned, Listed, Owns, Started
<1>3. LinksSane /\ DesktopOK /\ PopupOK /\ OnlyKnownFailures
  BY DEF Inv
<1>4. LinksSane'
  BY <1>1, <1>3 DEF LinksSane, Owns, Started
<1>5. DesktopOK'
  BY <1>1, <1>3 DEF DesktopOK, Owns, Started, Alive
<1>6. PopupOK'
  BY <1>1, <1>3 DEF PopupOK, Started
<1>7. OnlyKnownFailures'
  BY <1>1, <1>3 DEF OnlyKnownFailures, Orphaned, LeftOver, Listed
<1> QED
  BY <1>2, <1>4, <1>5, <1>6, <1>7 DEF Inv

\* Every event and every step of a process.
LEMMA NextInv == Inv /\ [Next]_vars => Inv'
<1> SUFFICES ASSUME Inv, [Next]_vars PROVE Inv'
  OBVIOUS
<1>1. CASE InputEvent
  BY <1>1, EventInv
<1>2. ASSUME NEW d \in Desktops, startDesktop(d) PROVE Inv'
  BY <1>2, StartDesktopInv
<1>3. ASSUME NEW d \in Desktops, refresh(d) PROVE Inv'
  BY <1>3, RefreshInv
<1>4. ASSUME NEW p \in Windowed, create(p) PROVE Inv'
  BY <1>4, CreateInv
<1>5. ASSUME NEW p \in Windowed, poll(p) PROVE Inv'
  BY <1>5, PollInv
<1>6. ASSUME NEW p \in Windowed, take(p) PROVE Inv'
  BY <1>6, TakeInv
<1>7. ASSUME NEW p \in Windowed, close(p) PROVE Inv'
  BY <1>7, CloseInv
<1>8. ASSUME NEW p \in Windowed, minimize(p) PROVE Inv'
  BY <1>8, MinimizeInv
<1>9. ASSUME NEW p \in Windowed, maximize(p) PROVE Inv'
  BY <1>9, MaximizeInv
<1>10. ASSUME NEW s \in StartWindows, PopupStep(s) PROVE Inv'
  BY <1>10, CreatePopupInv, PeekPopupInv, TakePopupInv, ClosePopupInv DEF PopupStep
<1>11. ASSUME NEW p \in Shells, return(p) PROVE Inv'
  BY <1>11, ReturnBusyInv
<1>12. ASSUME NEW p \in Mortal, exit(p) PROVE Inv'
  BY <1>12, ExitInv
<1>13. CASE UNCHANGED vars
  BY <1>13, StutterInv
<1> QED
  BY <1>1, <1>2, <1>3, <1>4, <1>5, <1>6, <1>7, <1>8, <1>9, <1>10, <1>11, <1>12, <1>13
     DEF Next, WindowStep

\* The invariant holds in every state that can be reached.
LEMMA InvAlways == Spec => []Inv
  BY InitInv, NextInv, PTL DEF Spec

-----------------------------------------------------------------------------
(* The properties. *)

\* The invariant has the type invariant,
LEMMA InvTyped == Inv => TypeOK
<1> SUFFICES ASSUME Inv PROVE TypeOK
  OBVIOUS
<1>1. /\ wm \in Managers /\ pc \in [Procs -> Labels] /\ events \in 0 .. MaxEvents
      /\ handler \in [Procs -> Slots \cup {None, MAX_WINDOW_CNT}]
      /\ faults \subseteq {"no window", "head closed", "desktop closed"}
  BY DEF Inv, Typed
<1>2. /\ wm.list \in Lists /\ wm.desktopId \in Slots \cup {None}
      /\ wm.win \in [Slots -> Window] /\ wm.popup \in Popup
      /\ {wm.onTitle, wm.onContent, wm.onPopup} \subseteq BOOLEAN
      /\ wm.status \in {"running", "panic", "hang", "wild"}
  BY <1>1 DEF Managers
<1>3. /\ wm.popup.caller \in Slots \cup {None, MAX_WINDOW_CNT}
      /\ wm.popup.proc \in StartWindows \cup {NoProc}
      /\ IsQueue(wm.popup.q)
  BY <1>2 DEF Popup, Queues, IsQueue
<1>4. ASSUME NEW i \in Slots
      PROVE  /\ wm.win[i].proc \in Windowed \cup {NoProc}
             /\ wm.win[i].minimized \in BOOLEAN
             /\ IsQueue(wm.win[i].q)
  <2>1. wm.win[i] \in Window
    BY <1>2
  <2> QED
    BY <2>1 DEF Window, Queues, IsQueue
<1> QED
  BY <1>1, <1>2, <1>3, <1>4 DEF TypeOK, Labels

\* The links of a window of a list that represents a z-order name each other.
LEMMA LinkedBothWays ==
  ASSUME NEW L, NEW s, Represents(L, s), NEW i \in Slots, ~isFree(L, i)
  PROVE  /\ L.next[i] # None => L.prev[L.next[i]] = i
         /\ L.next[i] = None <=> i = L.tail
         /\ L.prev[i] = None <=> i = L.head
<1>1. s \in Seq(Slots)
  BY DEF Represents
<1>2. PICK n \in Nat : n = Len(s)
  BY <1>1
<1>3. i \in Elems(s)
  BY ListedIs
<1>4. PICK k \in 1 .. n : i = s[k]
  BY <1>2, <1>3 DEF Elems
<1>5. /\ 1 \in 1 .. n /\ n \in 1 .. n
      /\ k # n => k + 1 \in 1 .. n /\ k + 1 # 1 /\ (k + 1) - 1 = k
      /\ k # 1 => k - 1 \in 1 .. n
  OBVIOUS
<1>6. s # <<>>
  BY <1>1, <1>2, <1>5
<1>7. /\ \A j \in 1 .. n : s[j] # None
      /\ \A j, l \in 1 .. n : s[j] = s[l] => j = l
  BY <1>1, <1>2, SlotFacts DEF Represents, NoDuplicates
<1>8. /\ L.head = s[1] /\ L.tail = s[n]
      /\ \A j \in 1 .. n : /\ L.next[s[j]] = (IF j = n THEN None ELSE s[j + 1])
                           /\ L.prev[s[j]] = (IF j = 1 THEN None ELSE s[j - 1])
  BY <1>2, <1>6 DEF Represents, LinksOK, EndsOK
<1>9. L.next[i] # None => L.prev[L.next[i]] = i
  <2>1. SUFFICES ASSUME k # n PROVE L.prev[s[k + 1]] = s[k]
    BY <1>4, <1>8
  <2> QED
    BY <1>5, <1>8, <2>1
<1>10. L.next[i] = None <=> i = L.tail
  <2>1. CASE k = n
    BY <1>4, <1>8, <2>1
  <2>2. CASE k # n
    <3>1. L.next[i] = s[k + 1] /\ s[k + 1] # None
      BY <1>4, <1>5, <1>7, <1>8, <2>2
    <3>2. s[k] # s[n]
      BY <1>5, <1>7, <2>2
    <3> QED
      BY <1>4, <1>8, <3>1, <3>2
  <2> QED
    BY <2>1, <2>2
<1>11. L.prev[i] = None <=> i = L.head
  <2>1. CASE k = 1
    BY <1>4, <1>8, <2>1
  <2>2. CASE k # 1
    <3>1. L.prev[i] = s[k - 1] /\ s[k - 1] # None
      BY <1>4, <1>5, <1>7, <1>8, <2>2
    <3>2. s[k] # s[1]
      BY <1>5, <1>7, <2>2
    <3> QED
      BY <1>4, <1>8, <3>1, <3>2
  <2> QED
    BY <2>1, <2>2
<1> QED
  BY <1>9, <1>10, <1>11

\* the shape of the list while it represents a z-order,
LEMMA InvIntact == Inv => ListIntact
<1> SUFFICES ASSUME Inv, "head closed" \notin faults
             PROVE  /\ ends(wm.list)
                    /\ visited(wm.list) = {i \in Slots : Listed(i)}
                    /\ \A i \in {j \in Slots : Listed(j)} :
                          /\ wm.list.next[i] # None => wm.list.prev[wm.list.next[i]] = i
                          /\ wm.list.next[i] = None <=> i = wm.list.tail
                          /\ wm.list.prev[i] = None <=> i = wm.list.head
  BY DEF ListIntact
<1>1. Ordered(wm.list)
  BY DEF Inv, OrderOK
<1>2. PICK s \in Seq(Slots) : Represents(wm.list, s)
  BY <1>1 DEF Ordered
<1>3. /\ ends(wm.list)
      /\ visited(wm.list) = {i \in Slots : Listed(i)}
  BY <1>1, WalksEnd DEF Listed
<1>4. ASSUME NEW i \in Slots, Listed(i)
      PROVE  /\ wm.list.next[i] # None => wm.list.prev[wm.list.next[i]] = i
             /\ wm.list.next[i] = None <=> i = wm.list.tail
             /\ wm.list.prev[i] = None <=> i = wm.list.head
  BY <1>2, <1>4, LinkedBothWays DEF Listed
<1> QED
  BY <1>3, <1>4

\* and the owners of what is on the screen.
LEMMA InvOwners == Inv => DrawnOwnersKnown
<1> SUFFICES ASSUME Inv PROVE DrawnOwnersKnown
  OBVIOUS
<1>1. OwnersKnown
  <2>1. SUFFICES ASSUME faults \cap {"desktop closed", "head closed"} = {},
                        NEW i \in Slots, Listed(i)
                 PROVE  Owner(wm.win[i].proc) /\ handler[wm.win[i].proc] = i
    BY DEF OwnersKnown
  <2>2. PICK p \in Windowed : p = wm.win[i].proc
    BY <2>1 DEF Inv, ListedOwned
  <2>3. pc[p] # "dead" /\ p \in Procs
    BY <2>1, <2>2, ProcSets DEF Inv, ListedOwned
  <2>4. Started(p) /\ handler[p] = i
    BY <2>2, <2>3 DEF Inv, OwnersOK
  <2> QED
    BY <2>2, <2>3, <2>4 DEF Owner, Started
<1>2. PopupOwnerKnown
  BY ProcSets DEF Inv, PopupOK, PopupOwnerKnown, Owner, Started
<1> QED
  BY <1>1, <1>2 DEF DrawnOwnersKnown

\* window_manager.c:90-119, 322-478: after any sequence of events and system calls the state
\* of the window manager has its type, and until a window is closed while it is the
\* bottom-most one both walks of the list visit every window once and end, whichever
\* processes are killed, trap or leave without closing their windows.
THEOREM ListStaysIntact == Spec => []ManagerSafe
<1>1. Inv => ManagerSafe
  BY InvTyped, InvIntact DEF ManagerSafe
<1> QED
  BY <1>1, InvAlways, PTL

\* window_manager.c:543-590: what updateScreen() draws was created by a process that has not
\* closed it since, and that process's handler names it, as long as neither the desktop's nor
\* the bottom-most window was closed.  The process may have been killed, have trapped or have
\* left by an exit() of its own: then its window is still there.
THEOREM OwnersStayKnown == Spec => []DrawnOwnersKnown
  BY InvAlways, InvOwners, PTL

\* window_manager.c, proc.c:228-268: the kernel panics, loops for ever or writes outside the
\* window table in no other circumstances than the ones OnlyKnownFailures names, a window
\* left over from a process that ended without closing it among them.
THEOREM FailuresAreKnown == Spec => []OnlyKnownFailures
<1>1. Inv => OnlyKnownFailures
  BY DEF Inv
<1> QED
  BY <1>1, InvAlways, PTL
=============================================================================
