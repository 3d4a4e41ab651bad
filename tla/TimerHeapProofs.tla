-------------------------- MODULE TimerHeapProofs --------------------------
(***************************************************************************)
(* Theorems about TimerHeap, for any number of entries and threads and any *)
(* size of the table.  While a loop runs, one entry is in hand and one     *)
(* slot is a hole; the invariant is stated of the array with the entry in  *)
(* the hole (Entry): the slots and the ids in use are matched one to one   *)
(* (Slotted), the order holds but at the hole (Ordered), and the free list *)
(* is a sequence without repetition of the ids that are left, ending at    *)
(* the end of the table (FreeList).                                        *)
(***************************************************************************)
EXTENDS TimerHeap, FiniteSetTheorems, TLAPS

\* The entry that is in slot s, or that the loop has in hand for it.
Entry(s) == IF op.kind # "none" /\ s = op.hole THEN op.entry ELSE heap[s]

\* The slots in use, that of an insertion in progress included.
Top == IF op.kind = "insert" THEN cur + 1 ELSE cur

\* The slot that the loop fills at last.
Hole(s) == op.kind # "none" /\ s = op.hole

\* The array: the rest of it is empty, and there is room.
Shape ==
    /\ op.kind = "none" => op = NoLoop
    /\ op.kind # "none" => op.entry \in Entries /\ op.hole < Top
    /\ Top <= max - 2
    /\ \A s \in Slots : Top <= s => heap[s] = None

\* The ids: an entry has one exactly when it is in a slot, no two entries have
\* the same, and, but for the entry in hand, it leads to the slot.
Slotted ==
    /\ \A s \in 0..Top - 1 : /\ Entry(s) \in Entries
                             /\ tid[Entry(s)] \in 1..max - 1
                             /\ ~Hole(s) => ids[tid[Entry(s)]] = s
    /\ \A s, r \in 0..Top - 1 : tid[Entry(s)] = tid[Entry(r)] => s = r
    /\ \A e \in Entries : tid[e] > 0 => \E s \in 0..Top - 1 : Entry(s) = e
    /\ ids[0] < 0

\* No entry is earlier than its parent; except, while the loop goes up, that in
\* the hole, and, while it goes down, those below the hole.
Early(s) == IF op.kind = "down" THEN Parent(s) = op.hole
            ELSE op.kind # "none" /\ s = op.hole

Ordered ==
    \A s \in 1..Top - 1 :
        /\ ~Early(s) => when[Entry(Parent(s))] <= when[Entry(s)]
        /\ op.kind # "none" /\ Parent(s) = op.hole /\ op.hole > 0
           => when[Entry(Parent(op.hole))] <= when[Entry(s)]

\* The number of ids that are not in use, and the list of them, f[0] the first.
Spare == max - 1 - Top

\* Each id on the list is unused and followed by the next one, none is there
\* twice, and every id is in use or on the list.
FreeList(f) ==
    /\ f \in [0..Spare -> 1..max]
    /\ f[0] = free /\ f[Spare] = max
    /\ \A i \in 0..Spare - 1 : /\ f[i] < max
                               /\ ids[f[i]] = 0 - f[i + 1]
                               /\ \A s \in 0..Top - 1 : tid[Entry(s)] # f[i]
    /\ \A i, j \in 0..Spare : f[i] = f[j] => i = j
    /\ \A n \in 1..max - 1 : \/ \E s \in 0..Top - 1 : tid[Entry(s)] = n
                             \/ \E i \in 0..Spare - 1 : f[i] = n

\* An entry that a caller is about to insert is in no other caller's hands, nor
\* in the heap.
Waiting ==
    \A c \in Callers :
        IF call[c].pc = "idle" THEN call[c] = Idle
        ELSE /\ call[c].entry \in Entries /\ tid[call[c].entry] < 1
             /\ \A b \in Callers \ {c} : call[b].entry # call[c].entry

\* A poll takes its time from the clock; it holds an entry until the callback.
Polled ==
    \A p \in Pollers : /\ poll[p].now <= clock
                       /\ poll[p].pc = "expired" <=> poll[p].entry # None

\* What holds of the arrays, with the types.
Kept == TypeOK /\ Shape /\ Slotted /\ Ordered /\ \E f : FreeList(f)

\* The inductive invariant.
IInv == Kept /\ Waiting /\ Polled /\ ~failed

-----------------------------------------------------------------------------

\* A slot but the first lies after its parent, as its left child or its right one.
LEMMA ParentChild ==
    ASSUME NEW s \in Nat, s > 0
    PROVE  /\ Parent(s) \in Nat /\ Parent(s) < s
           /\ s = Left(Parent(s)) \/ s = Left(Parent(s)) + 1
BY DEF Parent, Left

\* The slots whose parent is h are its two children.
LEMMA ChildParent ==
    ASSUME NEW h \in Nat, NEW s \in Nat, s > 0
    PROVE  Parent(s) = h <=> s = Left(h) \/ s = Left(h) + 1
BY DEF Parent, Left

\* Every set of natural numbers but the empty one has a least element.
LEMMA LeastNatural ==
    ASSUME NEW T, T \subseteq Nat, T # {}
    PROVE  \E n \in T : \A m \in T : n <= m
<1> DEFINE F == {0..n : n \in T}
<1>1. F \subseteq FiniteSubsetsOf(Nat)
  <2>1. SUFFICES ASSUME NEW n \in T
                 PROVE  0..n \in FiniteSubsetsOf(Nat)
    OBVIOUS
  <2>2. IsFiniteSet(0..n)
    BY FS_Interval
  <2>3. 0..n \in SUBSET Nat
    OBVIOUS
  <2>4. QED
    BY <2>2, <2>3 DEF FiniteSubsetsOf
<1>2. F # {}
  OBVIOUS
<1>3. PICK a \in F : \A b \in F : ~(<<b, a>> \in StrictSubsetOrdering(Nat))
  <2> HIDE DEF F
  <2>1. QED
    BY <1>1, <1>2, WFMin, FS_StrictSubsetOrderingWellFounded
<1>4. PICK n \in T : a = 0..n
  BY <1>3
<1>5. SUFFICES ASSUME NEW m \in T, m < n
               PROVE  FALSE
  BY <1>4
<1>6. 0..m \in F
  OBVIOUS
<1>7. 0..m \in SUBSET Nat /\ 0..n \in SUBSET Nat
  OBVIOUS
<1>8. 0..m \subseteq 0..n /\ 0..m # 0..n
  <2>1. n \in 0..n /\ n \notin 0..m
    BY <1>5
  <2>2. QED
    BY <2>1, <1>5
<1>9. <<0..m, 0..n>> \in StrictSubsetOrdering(Nat)
  BY <1>7, <1>8 DEF StrictSubsetOrdering
<1>10. QED
  BY <1>3, <1>4, <1>6, <1>9

-----------------------------------------------------------------------------
(* The slots in use *)

\* The slots in use are slots of the table, and the loop's hole is one of them.
LEMMA Room ==
    ASSUME TypeOK, Shape
    PROVE  /\ Top \in Nat /\ Top <= max - 2 /\ cur \in Nat /\ max \in Nat
           /\ max <= Capacity /\ Capacity \in Nat
           /\ 0..Top - 1 \subseteq Slots
           /\ op.kind # "none" => op.hole \in 0..Top - 1
BY CapacityAssumption, SizesAssumption DEF TypeOK, Shape, Top, Slots, Loops, NoLoop

\* The loop exchanges its entry with that of slot c.
LEMMA SwapEntries ==
    ASSUME TypeOK, Shape, Slotted, op.kind # "none",
           NEW c \in 0..Top - 1, c # op.hole, Swap(c)
    PROVE  /\ op'.kind = op.kind /\ op'.entry = op.entry /\ op'.hole = c
           /\ Top' = Top
           /\ heap[c] = Entry(c) /\ Entry(op.hole) = op.entry
           /\ \A s \in 0..Top - 1 :
                Entry(s)' = IF s = c THEN Entry(op.hole)
                            ELSE IF s = op.hole THEN Entry(c) ELSE Entry(s)
           /\ ids' = [ids EXCEPT ![tid[Entry(c)]] = op.hole]
<1>1. c \in Slots /\ op.hole \in Slots /\ 0..Top - 1 \subseteq Slots
  BY Room
<1>2. op' = [op EXCEPT !.hole = c]
  BY DEF Swap
<1>3. op'.kind = op.kind /\ op'.entry = op.entry /\ op'.hole = c
  BY <1>2 DEF TypeOK, Loops
<1>4. heap[c] = Entry(c) /\ Entry(op.hole) = op.entry
  BY DEF Entry
<1>5. heap' = [heap EXCEPT ![op.hole] = heap[c]]
  BY DEF Swap, CopyNode
<1>6. ASSUME NEW s \in 0..Top - 1
      PROVE  Entry(s)' = IF s = c THEN Entry(op.hole)
                         ELSE IF s = op.hole THEN Entry(c) ELSE Entry(s)
  <2>1. Entry(s)' = IF s = c THEN op.entry ELSE heap'[s]
    BY <1>3 DEF Entry
  <2>2. heap'[s] = IF s = op.hole THEN heap[c] ELSE heap[s]
    BY <1>1, <1>5 DEF TypeOK
  <2>3. s # op.hole => Entry(s) = heap[s]
    BY DEF Entry
  <2>4. QED
    BY <2>1, <2>2, <2>3, <1>4
<1>7. Top' = Top
  BY <1>3 DEF Top, Swap
<1>8. QED
  BY <1>3, <1>4, <1>6, <1>7 DEF Swap, CopyNode

\* The slots past the end stay empty.
LEMMA SwapShape ==
    ASSUME TypeOK, Shape, Slotted, op.kind # "none",
           NEW c \in 0..Top - 1, c # op.hole, Swap(c)
    PROVE  Shape'
<1>1. heap' = [heap EXCEPT ![op.hole] = heap[c]] /\ max' = max
  BY DEF Swap, CopyNode
<1>2. op.hole \in 0..Top - 1 /\ op.hole \in Slots
  BY Room
<1>3. \A s \in Slots : Top <= s => heap'[s] = None
  BY <1>1, <1>2, Room, SMTT(60) DEF TypeOK, Shape, Slots
<1>4. QED
  BY <1>1, <1>3, SwapEntries, Room DEF Shape

\* The entry that moves is led to by its id; only the entry in hand is not.
LEMMA SwapSlotted ==
    ASSUME TypeOK, Shape, Slotted, op.kind # "none",
           NEW c \in 0..Top - 1, c # op.hole, Swap(c)
    PROVE  Slotted'
<1>1. op.hole \in 0..Top - 1 /\ Top' = Top /\ tid' = tid /\ max' = max
  BY Room, SwapEntries DEF Swap
<1> DEFINE o(s) == IF s = c THEN op.hole ELSE IF s = op.hole THEN c ELSE s
<1>2. \A s \in 0..Top - 1 : o(s) \in 0..Top - 1 /\ Entry(s)' = Entry(o(s)) /\ o(o(s)) = s
  BY <1>1, SwapEntries
<1>3. \A s \in 0..Top - 1 : tid[Entry(s)] \in 1..max - 1 /\ Entry(s) \in Entries
  BY DEF Slotted
<1>4. \A s \in 0..Top - 1 : tid[Entry(s)] \in DOMAIN ids
  BY <1>3 DEF TypeOK, Slots
<1>5. ids' = [ids EXCEPT ![tid[Entry(c)]] = op.hole]
  BY SwapEntries
<1>6. ASSUME NEW s \in 0..Top - 1, s # c
      PROVE  ids'[tid[Entry(s)']] = s
  <2>1. CASE s = op.hole
    BY <2>1, <1>2, <1>4, <1>5, <1>6
  <2>2. CASE s # op.hole
    <3>1. tid[Entry(s)] # tid[Entry(c)]
      BY <1>6 DEF Slotted
    <3>2. ids[tid[Entry(s)]] = s
      BY <2>2 DEF Slotted, Hole
    <3>3. QED
      BY <3>1, <3>2, <2>2, <1>2, <1>4, <1>5, <1>6
  <2>3. QED
    BY <2>1, <2>2
<1>7. \A s \in 0..Top - 1 : ~Hole(s)' => s # c
  BY SwapEntries DEF Hole
<1>8. \A s, r \in 0..Top - 1 : tid[Entry(s)'] = tid[Entry(r)'] => s = r
  BY <1>1, <1>2 DEF Slotted
<1>9. ASSUME NEW e \in Entries, tid[e] > 0
      PROVE  \E s \in 0..Top - 1 : Entry(s)' = e
  <2>1. PICK s \in 0..Top - 1 : Entry(s) = e
    BY <1>9 DEF Slotted
  <2>2. QED
    BY <2>1, <1>2
<1>10. ids'[0] < 0
  BY <1>3, <1>5 DEF Slotted, TypeOK, Slots
<1>11. \A s \in 0..Top - 1 : Entry(s)' \in Entries /\ tid[Entry(s)'] \in 1..max - 1
  BY <1>2, <1>3
<1>12. QED
  BY <1>1, <1>6, <1>7, <1>8, <1>9, <1>10, <1>11 DEF Slotted

\* A step that leaves the same ids in use, and the others as they are, leaves
\* the free list.
LEMMA ListKept ==
    ASSUME TypeOK, Shape, NEW f, FreeList(f),
           Top' = Top, UNCHANGED <<max, free, tid>>,
           \A s \in 0..Top - 1 : \E r \in 0..Top - 1 : Entry(s)' = Entry(r),
           \A s \in 0..Top - 1 : \E r \in 0..Top - 1 : Entry(s) = Entry(r)',
           \A n \in 1..max - 1 : \/ \E s \in 0..Top - 1 : tid[Entry(s)] = n
                                 \/ ids'[n] = ids[n]
    PROVE  FreeList(f)'
<1>1. Spare' = Spare
  BY DEF Spare
<1>2. ASSUME NEW i \in 0..Spare - 1
      PROVE  /\ f[i] < max /\ ids'[f[i]] = 0 - f[i + 1]
             /\ \A s \in 0..Top - 1 : tid[Entry(s)'] # f[i]
  <2>1. /\ f[i] < max /\ ids[f[i]] = 0 - f[i + 1]
        /\ \A s \in 0..Top - 1 : tid[Entry(s)] # f[i]
    BY DEF FreeList
  <2>2. f[i] \in 1..max - 1
    <3>1. Spare \in Nat /\ max \in Nat
      BY Room DEF Spare
    <3>2. i \in 0..Spare
      BY <3>1
    <3>3. f[i] \in 1..max
      BY <3>2 DEF FreeList
    <3>4. QED
      BY <2>1, <3>1, <3>3
  <2>3. QED
    BY <2>1, <2>2
<1>3. ASSUME NEW n \in 1..max - 1
      PROVE  \/ \E s \in 0..Top - 1 : tid[Entry(s)'] = n
             \/ \E i \in 0..Spare - 1 : f[i] = n
  <2>1. CASE \E i \in 0..Spare - 1 : f[i] = n
    BY <2>1
  <2>2. CASE \E s \in 0..Top - 1 : tid[Entry(s)] = n
    <3>1. PICK s \in 0..Top - 1 : tid[Entry(s)] = n
      BY <2>2
    <3>2. PICK r \in 0..Top - 1 : Entry(s) = Entry(r)'
      OBVIOUS
    <3>3. QED
      BY <3>1, <3>2
  <2>3. QED
    BY <2>1, <2>2 DEF FreeList
<1>4. QED
  BY <1>1, <1>2, <1>3 DEF FreeList

\* The free list does not see the exchange.
LEMMA SwapList ==
    ASSUME TypeOK, Shape, Slotted, op.kind # "none", NEW f, FreeList(f),
           NEW c \in 0..Top - 1, c # op.hole, Swap(c)
    PROVE  FreeList(f)'
<1>1. op.hole \in 0..Top - 1 /\ Top' = Top
  BY Room, SwapEntries
<1>2. \A s \in 0..Top - 1 : \E r \in 0..Top - 1 : Entry(s)' = Entry(r)
  BY <1>1, SwapEntries
<1>3. \A s \in 0..Top - 1 : \E r \in 0..Top - 1 : Entry(s) = Entry(r)'
  BY <1>1, SwapEntries
<1>4. ids' = [ids EXCEPT ![tid[Entry(c)]] = op.hole]
  BY SwapEntries
<1>5. ASSUME NEW n \in 1..max - 1
      PROVE  \/ \E s \in 0..Top - 1 : tid[Entry(s)] = n
             \/ ids'[n] = ids[n]
  BY <1>4
<1>6. UNCHANGED <<max, free, tid>>
  BY DEF Swap
<1> HIDE DEF FreeList
<1>7. QED
  BY <1>1, <1>2, <1>3, <1>5, <1>6, ListKept

\* The loop puts its entry down.
LEMMA SettleEntries ==
    ASSUME TypeOK, Shape, Slotted, op.kind # "none", Settle
    PROVE  /\ op' = NoLoop /\ Top' = Top
           /\ \A s \in 0..Top - 1 : Entry(s)' = Entry(s)
           /\ ids' = [ids EXCEPT ![tid[Entry(op.hole)]] = op.hole]
           /\ heap' = [heap EXCEPT ![op.hole] = op.entry]
<1>1. op.hole \in 0..Top - 1 /\ op.hole \in Slots
  BY Room
<1>2. op' = NoLoop /\ heap' = [heap EXCEPT ![op.hole] = op.entry]
  BY DEF Settle, CopyNode
<1>3. Top' = Top
  BY <1>2 DEF Top, Settle, NoLoop
<1>4. ASSUME NEW s \in 0..Top - 1
      PROVE  Entry(s)' = Entry(s)
  <2>1. s \in Slots
    BY Room
  <2>2. heap'[s] = IF s = op.hole THEN op.entry ELSE heap[s]
    BY <1>1, <1>2, <2>1 DEF TypeOK
  <2>3. Entry(s)' = heap'[s]
    BY <1>2 DEF Entry, NoLoop
  <2>4. QED
    BY <2>2, <2>3 DEF Entry
<1>5. ids' = [ids EXCEPT ![tid[Entry(op.hole)]] = op.hole]
  BY DEF Settle, CopyNode, Entry
<1>6. QED
  BY <1>2, <1>3, <1>4, <1>5

\* When the entry is down, every id leads to its slot again.
LEMMA SettleKept ==
    ASSUME TypeOK, Shape, Slotted, op.kind # "none", Settle,
           NEW f, FreeList(f)
    PROVE  Shape' /\ Slotted' /\ FreeList(f)'
<1>1. op.hole \in 0..Top - 1 /\ op.hole \in Slots /\ Top' = Top /\ op' = NoLoop
  BY Room, SettleEntries
<1>a. /\ \A s \in 0..Top - 1 : Entry(s)' = Entry(s)
      /\ ids' = [ids EXCEPT ![tid[Entry(op.hole)]] = op.hole]
      /\ heap' = [heap EXCEPT ![op.hole] = op.entry]
  BY SettleEntries
<1>2. UNCHANGED <<max, free, tid>>
  BY DEF Settle
<1>3. Shape'
  <2>1. \A s \in Slots : Top <= s => heap'[s] = None
    BY <1>1, <1>a, Room DEF TypeOK, Shape, Slots
  <2>2. QED
    BY <1>1, <1>2, <2>1, Room DEF Shape, NoLoop
<1>4. Slotted'
  <2>1. \A s \in 0..Top - 1 : tid[Entry(s)] \in 1..max - 1 /\ Entry(s) \in Entries
    BY DEF Slotted
  <2>2. \A s \in 0..Top - 1 : tid[Entry(s)] \in DOMAIN ids
    BY <2>1 DEF TypeOK, Slots
  <2>3. ASSUME NEW s \in 0..Top - 1
        PROVE  ids'[tid[Entry(s)]] = s
    <3>1. CASE s = op.hole
      BY <3>1, <2>2, <1>a
    <3>2. CASE s # op.hole
      <4>1. tid[Entry(s)] # tid[Entry(op.hole)]
        BY <1>1, <3>2 DEF Slotted
      <4>2. ids[tid[Entry(s)]] = s
        BY <3>2 DEF Slotted, Hole
      <4>3. QED
        BY <4>1, <4>2, <2>2, <1>a
    <3>3. QED
      BY <3>1, <3>2
  <2>4. ids'[0] < 0
    BY <1>1, <2>1, <1>a DEF Slotted, TypeOK, Slots
  <2>5. QED
    BY <1>1, <1>2, <2>1, <2>3, <2>4, <1>a DEF Slotted
<1>5. FreeList(f)'
  <2>1. ASSUME NEW n \in 1..max - 1
        PROVE  \/ \E s \in 0..Top - 1 : tid[Entry(s)] = n
               \/ ids'[n] = ids[n]
    BY <1>1, <1>a
  <2>2. \A s \in 0..Top - 1 : Entry(s)' = Entry(s)
    BY <1>a
  <2>3. QED
    BY <1>1, <1>2, <2>1, <2>2, ListKept
<1>6. QED
  BY <1>3, <1>4, <1>5


-----------------------------------------------------------------------------
(* The order *)

\* The parent of a slot in use is one, and lies before it.
LEMMA ParentInUse ==
    ASSUME TypeOK, Shape, NEW s \in 1..Top - 1
    PROVE  Parent(s) \in 0..Top - 1 /\ Parent(s) < s /\ s \in 0..Top - 1 /\ s # 0
<1>1. Top \in Nat
  BY Room
<1>2. s \in Nat /\ s > 0
  BY <1>1
<1>3. Parent(s) \in Nat /\ Parent(s) < s
  BY <1>2, ParentChild
<1>4. QED
  BY <1>1, <1>2, <1>3

\* The times are numbers.
LEMMA Times ==
    ASSUME TypeOK, Slotted
    PROVE  /\ \A s \in 0..Top - 1 : when[Entry(s)] \in Nat
           /\ \A e \in Entries : when[e] \in Nat
<1>1. \A e \in Entries : when[e] \in Nat
  BY SizesAssumption DEF TypeOK
<1>2. QED
  BY <1>1 DEF Slotted

\* reheap_up: the parent goes down.
LEMMA UpOrdered ==
    ASSUME TypeOK, Shape, Slotted, Ordered, op.kind \in {"insert", "up"}, op.hole > 0,
           when[op.entry] < when[heap[Parent(op.hole)]], Swap(Parent(op.hole))
    PROVE  Ordered'
<1>0. PICK h, x : h = op.hole /\ x = op.entry
  OBVIOUS
<1> DEFINE p == Parent(h)
<1>1. h \in 1..Top - 1
  <2>1. h \in 0..Top - 1 /\ Top \in Nat
    BY <1>0, Room
  <2>2. QED
    BY <1>0, <2>1
<1>2. p \in 0..Top - 1 /\ p < h /\ p # h
  BY <1>1, ParentInUse
<1>3. /\ op'.kind = op.kind /\ op'.hole = p /\ Top' = Top
      /\ heap[p] = Entry(p) /\ Entry(h) = x
      /\ \A s \in 0..Top - 1 : Entry(s)' = IF s = p THEN x ELSE
                                           IF s = h THEN Entry(p) ELSE Entry(s)
  BY <1>0, <1>2, SwapEntries
<1>4. when' = when
  BY <1>0 DEF Swap
<1>5. when[x] < when[Entry(p)]
  BY <1>0, <1>3
<1>6. \A s \in 1..Top - 1 : s # h => when[Entry(Parent(s))] <= when[Entry(s)]
  BY <1>0 DEF Ordered, Early
<1>7. \A s \in 1..Top - 1 : Parent(s) = h => when[Entry(p)] <= when[Entry(s)]
  BY <1>0, <1>1 DEF Ordered
<1>8. when[x] \in Nat /\ \A s \in 0..Top - 1 : when[Entry(s)] \in Nat
  BY <1>1, <1>3, Times
<1>9. ASSUME NEW s \in 1..Top - 1, s # p
      PROVE  when[Entry(Parent(s))'] <= when[Entry(s)']
  <2> DEFINE q == Parent(s)
  <2>1. q \in 0..Top - 1 /\ q < s /\ s \in 0..Top - 1 /\ q # s
    BY ParentInUse
  <2>2. Entry(q)' = (IF q = p THEN x ELSE IF q = h THEN Entry(p) ELSE Entry(q))
    BY <2>1, <1>3
  <2>3. Entry(s)' = IF s = h THEN Entry(p) ELSE Entry(s)
    BY <2>1, <1>3, <1>9
  <2>4. CASE s = h
    BY <2>2, <2>3, <2>4, <1>5, <1>8, <1>2
  <2>5. CASE s # h /\ q = h
    BY <2>2, <2>3, <2>5, <1>7, <1>2
  <2>6. CASE s # h /\ q = p
    <3>1. when[Entry(p)] <= when[Entry(s)]
      BY <2>6, <1>6
    <3>2. when[x] <= when[Entry(s)]
      BY <3>1, <1>5, <1>8, <1>2, <2>1
    <3>3. QED
      BY <3>2, <2>2, <2>3, <2>6
  <2>7. CASE s # h /\ q # h /\ q # p
    BY <2>2, <2>3, <2>7, <1>6
  <2>8. QED
    BY <2>4, <2>5, <2>6, <2>7
<1>10. ASSUME NEW s \in 1..Top - 1, Parent(s) = p, p > 0
       PROVE  when[Entry(Parent(p))'] <= when[Entry(s)']
  <2> DEFINE g == Parent(p)
  <2>1. p \in 1..Top - 1
    BY <1>2, <1>10
  <2>2. g \in 0..Top - 1 /\ g < p
    BY <2>1, ParentInUse
  <2>3. g # p /\ g # h
    BY <2>2, <1>2, <1>1
  <2>4. Entry(g)' = Entry(g)
    BY <2>2, <2>3, <1>3
  <2>5. when[Entry(g)] <= when[Entry(p)]
    BY <2>1, <1>2, <1>6
  <2>6. s \in 0..Top - 1 /\ s # p
    BY <1>2, <1>10, ParentInUse
  <2>7. CASE s = h
    BY <2>4, <2>5, <2>6, <2>7, <1>3
  <2>8. CASE s # h
    <3>1. Entry(s)' = Entry(s)
      BY <2>6, <2>8, <1>3
    <3>2. when[Entry(p)] <= when[Entry(s)]
      BY <2>8, <1>6, <1>10
    <3>3. when[Entry(g)] <= when[Entry(s)]
      BY <3>2, <2>5, <2>2, <2>6, <1>2, <1>8
    <3>4. QED
      BY <3>1, <3>3, <2>4
  <2>9. QED
    BY <2>7, <2>8
<1>11. \A s \in 1..Top - 1 : ~Early(s)' => s # p
  BY <1>3 DEF Early
<1>12. QED
  BY <1>3, <1>4, <1>9, <1>10, <1>11 DEF Ordered

\* The end of reheap_up: the parent is no later.
LEMMA UpSettled ==
    ASSUME TypeOK, Shape, Slotted, Ordered, op.kind \in {"insert", "up"}, Settle,
           op.hole > 0 => ~(when[op.entry] < when[heap[Parent(op.hole)]])
    PROVE  Ordered'
<1>1. op' = NoLoop /\ Top' = Top /\ \A s \in 0..Top - 1 : Entry(s)' = Entry(s)
  BY SettleEntries
<1>2. when' = when
  BY DEF Settle
<1>3. ASSUME NEW s \in 1..Top - 1
      PROVE  when[Entry(Parent(s))] <= when[Entry(s)]
  <2>1. CASE s # op.hole
    BY <2>1 DEF Ordered, Early
  <2>2. CASE s = op.hole
    <3>1. Parent(s) \in 0..Top - 1 /\ Parent(s) # s /\ s \in 0..Top - 1 /\ s > 0
      BY ParentInUse
    <3>2. Entry(Parent(s)) = heap[Parent(s)] /\ Entry(s) = op.entry
      BY <2>2, <3>1 DEF Entry
    <3>3. when[Entry(Parent(s))] \in Nat /\ when[Entry(s)] \in Nat
      BY <3>1, Times
    <3>4. QED
      BY <2>2, <3>1, <3>2, <3>3
  <2>3. QED
    BY <2>1, <2>2
<1>4. ASSUME NEW s \in 1..Top - 1
      PROVE  when'[Entry(Parent(s))'] <= when'[Entry(s)']
  <2>1. Parent(s) \in 0..Top - 1 /\ s \in 0..Top - 1
    BY ParentInUse
  <2>2. QED
    BY <2>1, <1>1, <1>2, <1>3
<1>5. QED
  BY <1>1, <1>4 DEF Ordered, NoLoop

\* reheap_down: the smaller child goes up.
LEMMA DownOrdered ==
    ASSUME TypeOK, Shape, Slotted, Ordered, op.kind = "down",
           NEW c \in 1..Top - 1, Parent(c) = op.hole,
           \A s \in 1..Top - 1 : Parent(s) = op.hole => when[Entry(c)] <= when[Entry(s)],
           when[heap[c]] < when[op.entry], Swap(c)
    PROVE  Ordered'
<1>0. PICK h, x : h = op.hole /\ x = op.entry
  OBVIOUS
<1>1. h \in 0..Top - 1 /\ c \in 0..Top - 1 /\ h < c /\ c # h /\ c > 0
  BY <1>0, ParentInUse
<1>2. /\ op'.kind = op.kind /\ op'.hole = c /\ Top' = Top
      /\ heap[c] = Entry(c) /\ Entry(h) = x
      /\ \A s \in 0..Top - 1 : Entry(s)' = IF s = c THEN x ELSE
                                           IF s = h THEN Entry(c) ELSE Entry(s)
  BY <1>0, <1>1, SwapEntries
<1>3. when' = when
  BY DEF Swap
<1>4. when[Entry(c)] < when[x]
  BY <1>0, <1>2
<1>5. \A s \in 1..Top - 1 : Parent(s) # h => when[Entry(Parent(s))] <= when[Entry(s)]
  BY <1>0 DEF Ordered, Early
<1>6. h > 0 => when[Entry(Parent(h))] <= when[Entry(c)]
  BY <1>0 DEF Ordered
<1>7. when[x] \in Nat /\ \A s \in 0..Top - 1 : when[Entry(s)] \in Nat
  BY <1>1, <1>2, Times
<1>a. \A s \in 1..Top - 1 : Parent(s) = h => when[Entry(c)] <= when[Entry(s)]
  BY <1>0
<1>8. ASSUME NEW s \in 1..Top - 1, Parent(s) # c
      PROVE  when[Entry(Parent(s))'] <= when[Entry(s)']
  <2> DEFINE q == Parent(s)
  <2>1. q \in 0..Top - 1 /\ q < s /\ s \in 0..Top - 1 /\ q # s /\ s # 0
    BY ParentInUse
  <2>2. Entry(q)' = IF q = h THEN Entry(c) ELSE Entry(q)
    BY <2>1, <1>2, <1>8
  <2>3. Entry(s)' = IF s = c THEN x ELSE IF s = h THEN Entry(c) ELSE Entry(s)
    BY <2>1, <1>2
  <2>4. CASE s = c
    <3>1. q = h
      BY <2>4, <1>0
    <3>2. Entry(q)' = Entry(c) /\ Entry(s)' = x
      BY <3>1, <2>2, <2>3, <2>4
    <3>3. when[Entry(c)] <= when[x]
      BY <1>1, <1>4, <1>7
    <3>4. QED
      BY <3>2, <3>3
  <2>5. CASE s = h
    <3>1. h > 0 /\ q # h /\ s # c
      BY <2>5, <2>1, <1>1
    <3>2. Entry(q)' = Entry(q) /\ Entry(s)' = Entry(c)
      BY <3>1, <2>2, <2>3, <2>5
    <3>3. when[Entry(q)] <= when[Entry(c)]
      BY <3>1, <2>5, <1>6
    <3>4. QED
      BY <3>2, <3>3
  <2>6. CASE s # c /\ s # h /\ q = h
    BY <2>2, <2>3, <2>6, <1>a
  <2>7. CASE s # c /\ s # h /\ q # h
    BY <2>2, <2>3, <2>7, <1>5
  <2>8. QED
    BY <2>4, <2>5, <2>6, <2>7
<1>9. ASSUME NEW s \in 1..Top - 1, Parent(s) = c
      PROVE  when[Entry(h)'] <= when[Entry(s)']
  <2>1. s \in 0..Top - 1 /\ c < s
    BY <1>9, ParentInUse
  <2>2. s # c /\ s # h
    BY <2>1, <1>1
  <2>3. Entry(h)' = Entry(c) /\ Entry(s)' = Entry(s)
    BY <2>1, <2>2, <1>1, <1>2
  <2>4. QED
    BY <2>3, <1>1, <1>5, <1>9
<1>10. \A s \in 1..Top - 1 : ~Early(s)' => Parent(s) # c
  BY <1>2 DEF Early
<1>11. Parent(c) = h
  BY <1>0
<1>12. QED
  BY <1>2, <1>3, <1>8, <1>9, <1>10, <1>11 DEF Ordered

\* The end of reheap_down: no child is earlier.
LEMMA DownSettled ==
    ASSUME TypeOK, Shape, Slotted, Ordered, op.kind = "down", Settle,
           \A s \in 1..Top - 1 : Parent(s) = op.hole => when[op.entry] <= when[Entry(s)]
    PROVE  Ordered'
<1>1. op' = NoLoop /\ Top' = Top /\ \A s \in 0..Top - 1 : Entry(s)' = Entry(s)
  BY SettleEntries
<1>2. when' = when
  BY DEF Settle
<1>3. ASSUME NEW s \in 1..Top - 1
      PROVE  when[Entry(Parent(s))] <= when[Entry(s)]
  <2>1. CASE Parent(s) # op.hole
    BY <2>1 DEF Ordered, Early
  <2>2. CASE Parent(s) = op.hole
    <3>1. Entry(Parent(s)) = op.entry
      BY <2>2 DEF Entry
    <3>2. QED
      BY <2>2, <3>1
  <2>3. QED
    BY <2>1, <2>2
<1>4. ASSUME NEW s \in 1..Top - 1
      PROVE  when'[Entry(Parent(s))'] <= when'[Entry(s)']
  <2>1. Parent(s) \in 0..Top - 1 /\ s \in 0..Top - 1
    BY ParentInUse
  <2>2. QED
    BY <2>1, <1>1, <1>2, <1>3
<1>5. QED
  BY <1>1, <1>4 DEF Ordered, NoLoop


-----------------------------------------------------------------------------
(* The loops keep the invariant *)

\* A turn of a loop stays inside the table.
LEMMA SwapTypes ==
    ASSUME TypeOK, Shape, Slotted, op.kind # "none",
           NEW c \in 0..Top - 1, c # op.hole, Swap(c),
           UNCHANGED <<call, poll, clock, failed>>
    PROVE  TypeOK'
<1>1. c \in Slots /\ op.hole \in Slots /\ heap[c] \in Entries
  BY Room, SwapEntries DEF Slotted
<1>2. heap' \in [Slots -> Entries \cup {None}]
  BY <1>1 DEF Swap, CopyNode, TypeOK
<1>3. op.hole \in (0 - Capacity)..Capacity - 1
  BY <1>1, CapacityAssumption, SizesAssumption DEF Slots
<1>4. ids' \in [Slots -> (0 - Capacity)..Capacity - 1]
  BY <1>3 DEF Swap, CopyNode, TypeOK
<1>5. op' \in Loops
  BY <1>1 DEF Swap, TypeOK, Loops
<1>6. QED
  BY <1>2, <1>4, <1>5 DEF TypeOK, Swap

\* The end of a loop stays inside the table.
LEMMA SettleTypes ==
    ASSUME TypeOK, Shape, Slotted, op.kind # "none", Settle,
           UNCHANGED <<call, poll, clock, failed>>
    PROVE  TypeOK'
<1>1. op.hole \in Slots /\ op.entry \in Entries
  BY Room DEF Shape
<1>2. heap' \in [Slots -> Entries \cup {None}]
  BY <1>1 DEF Settle, CopyNode, TypeOK
<1>3. op.hole \in (0 - Capacity)..Capacity - 1
  BY <1>1, CapacityAssumption, SizesAssumption DEF Slots
<1>4. ids' \in [Slots -> (0 - Capacity)..Capacity - 1]
  BY <1>3 DEF Settle, CopyNode, TypeOK
<1>5. op' \in Loops
  BY CapacityAssumption, SizesAssumption DEF Settle, NoLoop, Loops, Slots
<1>6. cur' \in 0..Capacity - 1
  <2>1. cur' = Top
    BY DEF Settle, Top
  <2>2. QED
    BY <2>1, Room
<1>7. QED
  BY <1>2, <1>4, <1>5, <1>6 DEF TypeOK, Settle

\* reheap_up keeps the array, the ids, the order and the free list.
LEMMA ReheapUpKept ==
    ASSUME Kept, ReheapUp
    PROVE  Kept'
<1>1. /\ TypeOK /\ Shape /\ Slotted /\ Ordered
      /\ op.kind \in {"insert", "up"} /\ op.kind # "none"
      /\ UNCHANGED <<call, poll, clock, failed>>
  BY DEF Kept, ReheapUp
<1>2. PICK f : FreeList(f)
  BY DEF Kept
<1>3. CASE op.hole > 0 /\ when[op.entry] < when[heap[Parent(op.hole)]]
  <2>1. Swap(Parent(op.hole))
    BY <1>3 DEF ReheapUp
  <2>2. op.hole \in 1..Top - 1
    BY <1>1, <1>3, Room
  <2>3. PICK c : c = Parent(op.hole)
    OBVIOUS
  <2>4. c \in 0..Top - 1 /\ c # op.hole /\ Swap(c)
    BY <1>1, <2>1, <2>2, <2>3, ParentInUse
  <2>5. TypeOK'
    BY <1>1, <2>4, SwapTypes
  <2>6. Shape' /\ Slotted'
    BY <1>1, <2>4, SwapShape, SwapSlotted
  <2>7. Ordered'
    BY <1>1, <1>3, <2>1, UpOrdered
  <2>8. FreeList(f)'
    BY <1>1, <1>2, <2>4, SwapList
  <2>9. QED
    BY <2>5, <2>6, <2>7, <2>8 DEF Kept
<1>4. CASE ~(op.hole > 0 /\ when[op.entry] < when[heap[Parent(op.hole)]])
  <2>1. Settle
    BY <1>4 DEF ReheapUp
  <2>2. TypeOK'
    BY <1>1, <2>1, SettleTypes
  <2>3. Shape' /\ Slotted' /\ FreeList(f)'
    BY <1>1, <1>2, <2>1, SettleKept
  <2>4. Ordered'
    BY <1>1, <1>4, <2>1, UpSettled
  <2>5. QED
    BY <2>2, <2>3, <2>4 DEF Kept
<1>5. QED
  BY <1>3, <1>4

\* SmallerChild of the hole is no later than the other child.
LEMMA Smallest ==
    ASSUME TypeOK, Shape, Slotted, op.kind = "down", Left(op.hole) < cur
    PROVE  LET c == SmallerChild(op.hole)
           IN  /\ c \in 1..Top - 1 /\ Parent(c) = op.hole
               /\ \A s \in 1..Top - 1 :
                    Parent(s) = op.hole => when[Entry(c)] <= when[Entry(s)]
<1> DEFINE c == SmallerChild(op.hole)
           l == Left(op.hole)
<1>1. /\ Top = cur /\ op.hole \in 0..Top - 1 /\ op.hole \in Nat /\ cur \in Nat
      /\ l \in Nat /\ l > op.hole
  BY Room DEF Top, Left
<1>2. c = IF l + 1 < cur /\ when[heap[l + 1]] < when[heap[l]] THEN l + 1 ELSE l
  BY DEF SmallerChild
<1>3. c \in {l, l + 1} /\ c < cur
  BY <1>2
<1>4. c \in 1..Top - 1 /\ c \in Nat /\ c > 0 /\ c # op.hole
  BY <1>1, <1>3
<1>5. Parent(c) = op.hole
  BY <1>1, <1>3, <1>4, ChildParent
<1>6. ASSUME NEW s \in 1..Top - 1, Parent(s) = op.hole
      PROVE  when[Entry(c)] <= when[Entry(s)]
  <2>1. s \in Nat /\ s > 0 /\ s < cur
    BY <1>1
  <2>2. s \in {l, l + 1}
    BY <1>1, <1>6, <2>1, ChildParent
  <2>3. s # op.hole /\ s \in 0..Top - 1 /\ c \in 0..Top - 1
    BY <1>1, <1>4, <2>1, <2>2
  <2>4. Entry(s) = heap[s] /\ Entry(c) = heap[c]
    BY <1>4, <2>3 DEF Entry
  <2>5. when[heap[s]] \in Nat /\ when[heap[c]] \in Nat
    BY <2>3, <2>4, Times
  <2>6. CASE s = c
    BY <2>4, <2>5, <2>6
  <2>7. CASE s # c
    <3>1. CASE c = l + 1
      <4>1. s = l /\ when[heap[l + 1]] < when[heap[l]]
        BY <3>1, <2>2, <2>7, <1>1, <1>2
      <4>2. QED
        BY <4>1, <3>1, <2>4, <2>5
    <3>2. CASE c = l
      <4>1. s = l + 1 /\ ~(when[heap[l + 1]] < when[heap[l]])
        BY <3>2, <2>1, <2>2, <2>7, <1>1, <1>2
      <4>2. QED
        BY <4>1, <3>2, <2>4, <2>5
    <3>3. QED
      BY <3>1, <3>2, <1>3
  <2>8. QED
    BY <2>6, <2>7
<1>7. QED
  BY <1>4, <1>5, <1>6

\* reheap_down keeps the array, the ids, the order and the free list.
LEMMA ReheapDownKept ==
    ASSUME Kept, ReheapDown
    PROVE  Kept'
<1>1. /\ TypeOK /\ Shape /\ Slotted /\ Ordered
      /\ op.kind = "down" /\ op.kind # "none" /\ Top = cur
      /\ UNCHANGED <<call, poll, clock, failed>>
  BY DEF Kept, ReheapDown, Top
<1>2. PICK f : FreeList(f)
  BY DEF Kept
<1>3. PICK c : c = SmallerChild(op.hole)
  OBVIOUS
<1>4. CASE Left(op.hole) < cur /\ when[heap[c]] < when[op.entry]
  <2>1. Swap(c)
    BY <1>3, <1>4 DEF ReheapDown
  <2>2. /\ c \in 1..Top - 1 /\ Parent(c) = op.hole
        /\ \A s \in 1..Top - 1 :
             Parent(s) = op.hole => when[Entry(c)] <= when[Entry(s)]
    BY <1>1, <1>3, <1>4, Smallest
  <2>3. c \in 0..Top - 1 /\ c # op.hole
    BY <1>1, <2>2, ParentInUse
  <2>4. TypeOK'
    BY <1>1, <2>1, <2>3, SwapTypes
  <2>5. Shape' /\ Slotted'
    BY <1>1, <2>1, <2>3, SwapShape, SwapSlotted
  <2>6. Ordered'
    BY <1>1, <1>4, <2>1, <2>2, DownOrdered
  <2>7. FreeList(f)'
    BY <1>1, <1>2, <2>1, <2>3, SwapList
  <2>8. QED
    BY <2>4, <2>5, <2>6, <2>7 DEF Kept
<1>5. CASE ~(Left(op.hole) < cur /\ when[heap[c]] < when[op.entry])
  <2>1. Settle
    BY <1>3, <1>5 DEF ReheapDown
  <2>2. TypeOK'
    BY <1>1, <2>1, SettleTypes
  <2>3. Shape' /\ Slotted' /\ FreeList(f)'
    BY <1>1, <1>2, <2>1, SettleKept
  <2>4. \A s \in 1..Top - 1 : Parent(s) = op.hole => when[op.entry] <= when[Entry(s)]
    <3>1. SUFFICES ASSUME NEW s \in 1..Top - 1, Parent(s) = op.hole
                   PROVE  when[op.entry] <= when[Entry(s)]
      OBVIOUS
    <3>2. /\ s \in Nat /\ s > 0 /\ s < cur /\ cur \in Nat
          /\ op.hole \in 0..Top - 1 /\ op.hole \in Nat
      BY <1>1, Room
    <3>3. s = Left(op.hole) \/ s = Left(op.hole) + 1
      BY <3>1, <3>2, ChildParent
    <3>4. Left(op.hole) < cur
      BY <3>2, <3>3 DEF Left
    <3>5. /\ c \in 1..Top - 1 /\ Parent(c) = op.hole
          /\ when[Entry(c)] <= when[Entry(s)]
      BY <1>1, <1>3, <3>1, <3>4, Smallest
    <3>6. c \in 0..Top - 1 /\ c # op.hole /\ s \in 0..Top - 1
      BY <1>1, <3>1, <3>5, ParentInUse
    <3>7. Entry(c) = heap[c] /\ Entry(op.hole) = op.entry
      BY <1>1, <3>6 DEF Entry
    <3>8. when[heap[c]] \in Nat /\ when[op.entry] \in Nat /\ when[Entry(s)] \in Nat
      BY <1>1, <3>2, <3>6, <3>7, Times
    <3>9. QED
      BY <1>5, <3>4, <3>5, <3>7, <3>8
  <2>5. Ordered'
    BY <1>1, <2>1, <2>4, DownSettled
  <2>6. QED
    BY <2>2, <2>3, <2>5 DEF Kept
<1>6. QED
  BY <1>4, <1>5


-----------------------------------------------------------------------------
(* Removal *)

\* The heap has its type.
ArrayTypes ==
    /\ heap \in [Slots -> Entries \cup {None}]
    /\ ids \in [Slots -> (0 - Capacity)..Capacity - 1]
    /\ free \in 1..Capacity
    /\ cur \in 0..Capacity - 1 /\ max \in 2..Capacity
    /\ tid \in [Entries -> {-1} \cup Slots]
    /\ when \in [Entries -> 0..MaxTime]
    /\ op \in Loops

\* Between operations the slots are those of the array.
LEMMA AtRest ==
    ASSUME TypeOK, Shape, Slotted, Unlocked
    PROVE  /\ op = NoLoop /\ Top = cur /\ cur \in Nat
           /\ \A s : Entry(s) = heap[s] /\ ~Hole(s) /\ ~Early(s)
<1>1. op = NoLoop /\ op.kind = "none"
  BY DEF Unlocked, Shape
<1>2. QED
  BY <1>1, Room DEF Entry, Top, Hole, Early

\* remove_node: the last entry takes the slot, if it is not the last itself.
LEMMA RemovedEntries ==
    ASSUME TypeOK, Shape, Slotted, Unlocked, NEW slot \in 0..Top - 1, RemoveNode(slot)
    PROVE  /\ Top' = Top - 1 /\ cur' = cur - 1 /\ op'.kind # "insert"
           /\ UNCHANGED <<max, when>>
           /\ free' = tid[Entry(slot)]
           /\ tid' = [tid EXCEPT ![Entry(slot)] = -1]
           /\ \A s \in 0..Top - 2 :
                Entry(s)' = IF s = slot THEN Entry(Top - 1) ELSE Entry(s)
           /\ \A n \in Slots :
                ids'[n] = IF slot < Top - 1 /\ n = tid[Entry(Top - 1)] THEN slot
                          ELSE IF n = tid[Entry(slot)] THEN 0 - free ELSE ids[n]
           /\ heap' = [s \in Slots |-> IF slot < Top - 1 /\ s = slot THEN Entry(Top - 1)
                                       ELSE IF s = Top - 1 THEN None ELSE heap[s]]
           /\ IF slot < Top - 1
              THEN op' = [kind |-> Direction(Entry(Top - 1),
                                       IF slot = 0 THEN Entry(Top - 1)
                                       ELSE Entry(Parent(slot))),
                          entry |-> Entry(Top - 1), hole |-> slot]
              ELSE op' = NoLoop
<1>1. op = NoLoop /\ Top = cur /\ cur \in Nat /\ \A s : Entry(s) = heap[s]
  BY AtRest
<1>2. 0..Top - 1 \subseteq Slots
  BY Room
<1> DEFINE e == heap[slot]
           last == cur - 1
           moved == heap[last]
           rest == [heap EXCEPT ![last] = None]
           table == [ids EXCEPT ![tid[e]] = 0 - free]
           parent == IF slot = 0 THEN moved ELSE heap[Parent(slot)]
<1>3. /\ free' = tid[e] /\ cur' = last /\ tid' = [tid EXCEPT ![e] = -1]
      /\ UNCHANGED <<max, when>>
      /\ IF slot < last
         THEN /\ CopyNode(rest, table, slot, moved)
              /\ op' = [kind |-> Direction(moved, parent), entry |-> moved, hole |-> slot]
         ELSE heap' = rest /\ ids' = table /\ UNCHANGED op
  BY DEF RemoveNode
<1>4. op'.kind # "insert"
  BY <1>1, <1>3 DEF NoLoop, Direction
<1>5. Top' = Top - 1
  BY <1>1, <1>3, <1>4 DEF Top
<1>6. last \in Slots /\ slot \in Slots /\ e \in Entries /\ moved \in Entries
  <2>1. last \in 0..Top - 1
    BY <1>1
  <2>2. QED
    BY <1>1, <1>2, <2>1 DEF Slotted
<1>7. heap' = [s \in Slots |-> IF slot < last /\ s = slot THEN moved
                               ELSE IF s = last THEN None ELSE heap[s]]
  <2>1. rest = [s \in Slots |-> IF s = last THEN None ELSE heap[s]]
    BY <1>6 DEF TypeOK
  <2>2. CASE slot < last
    <3>1. heap' = [rest EXCEPT ![slot] = moved]
      BY <1>3, <2>2 DEF CopyNode
    <3> HIDE DEF rest
    <3>2. QED
      BY <2>1, <2>2, <3>1, <1>6
  <2>3. CASE ~(slot < last)
    BY <1>3, <2>1, <2>3
  <2>4. QED
    BY <2>2, <2>3
<1>8. ASSUME NEW n \in Slots
      PROVE  ids'[n] = IF slot < last /\ n = tid[moved] THEN slot
                       ELSE IF n = tid[e] THEN 0 - free ELSE ids[n]
  <2>1. table \in [Slots -> Int] /\ table[n] = IF n = tid[e] THEN 0 - free ELSE ids[n]
    <3>1. ids \in [Slots -> Int] /\ 0 - free \in Int
      BY CapacityAssumption, SizesAssumption DEF TypeOK
    <3>2. QED
      BY <3>1
  <2>2. CASE slot < last
    <3>1. ids' = [table EXCEPT ![tid[moved]] = slot]
      BY <1>3, <2>2 DEF CopyNode
    <3> HIDE DEF table
    <3>2. QED
      BY <2>1, <2>2, <3>1
  <2>3. CASE ~(slot < last)
    BY <1>3, <2>1, <2>3
  <2>4. QED
    BY <2>2, <2>3
<1>9. ASSUME NEW s \in 0..Top - 2
      PROVE  Entry(s)' = IF s = slot THEN moved ELSE heap[s]
  <2>1. s \in Slots /\ s # last /\ s < last
    BY <1>1, <1>2
  <2>2. heap'[s] = IF slot < last /\ s = slot THEN moved ELSE heap[s]
    BY <1>7, <2>1
  <2>3. CASE slot < last
    <3>1. op'.entry = moved /\ op'.hole = slot
      BY <1>3, <2>3
    <3>2. QED
      BY <2>2, <2>3, <3>1 DEF Entry
  <2>4. CASE ~(slot < last)
    <3>1. op' = NoLoop /\ s # slot
      BY <1>1, <1>3, <2>1, <2>4
    <3>2. QED
      BY <2>2, <2>4, <3>1 DEF Entry, NoLoop
  <2>5. QED
    BY <2>3, <2>4
<1>10. last = Top - 1 /\ e = Entry(slot) /\ moved = Entry(Top - 1)
  BY <1>1
<1>11. parent = IF slot = 0 THEN Entry(Top - 1) ELSE Entry(Parent(slot))
  BY <1>1
<1> HIDE DEF e, last, moved, rest, table, parent
<1>12. IF slot < last
       THEN op' = [kind |-> Direction(moved, parent), entry |-> moved, hole |-> slot]
       ELSE op' = NoLoop
  BY <1>1, <1>3
<1>13. heap' = [s \in Slots |-> IF slot < Top - 1 /\ s = slot THEN Entry(Top - 1)
                                ELSE IF s = Top - 1 THEN None ELSE heap[s]]
  BY <1>7, <1>10
<1>14. \A n \in Slots :
         ids'[n] = IF slot < Top - 1 /\ n = tid[Entry(Top - 1)] THEN slot
                   ELSE IF n = tid[Entry(slot)] THEN 0 - free ELSE ids[n]
  BY <1>8, <1>10
<1>15. \A s \in 0..Top - 2 : Entry(s)' = IF s = slot THEN Entry(Top - 1) ELSE Entry(s)
  BY <1>1, <1>9, <1>10
<1>16. cur' = cur - 1
  BY <1>3 DEF last
<1>17. IF slot < Top - 1
       THEN op' = [kind |-> Direction(Entry(Top - 1),
                                IF slot = 0 THEN Entry(Top - 1) ELSE Entry(Parent(slot))),
                   entry |-> Entry(Top - 1), hole |-> slot]
       ELSE op' = NoLoop
  BY <1>10, <1>11, <1>12
<1>18. free' = tid[Entry(slot)] /\ tid' = [tid EXCEPT ![Entry(slot)] = -1]
  BY <1>3, <1>10
<1>19. QED
  BY <1>3, <1>4, <1>5, <1>13, <1>14, <1>15, <1>16, <1>17, <1>18


\* A removal stays inside the table.
LEMMA RemovedTypes ==
    ASSUME TypeOK, Shape, Slotted, Unlocked, NEW slot \in 0..Top - 1, RemoveNode(slot)
    PROVE  ArrayTypes'
<1>1. /\ slot \in Slots /\ Top - 1 \in 0..Top - 1 /\ Top = cur /\ cur \in Nat
      /\ max \in Nat /\ max <= Capacity /\ Capacity \in Nat
  BY AtRest, Room
<1>2. Entry(slot) \in Entries /\ Entry(Top - 1) \in Entries /\ tid[Entry(slot)] \in 1..max - 1
  BY <1>1 DEF Slotted
<1>3. heap' \in [Slots -> Entries \cup {None}]
  <2>1. heap' = [s \in Slots |-> IF slot < Top - 1 /\ s = slot THEN Entry(Top - 1)
                                 ELSE IF s = Top - 1 THEN None ELSE heap[s]]
    BY RemovedEntries
  <2>2. QED
    BY <2>1, <1>2 DEF TypeOK
<1>4. ids' \in [Slots -> (0 - Capacity)..Capacity - 1]
  <2>1. DOMAIN ids' = Slots /\ ids' = [n \in Slots |-> ids'[n]]
    BY DEF RemoveNode, CopyNode, TypeOK
  <2>2. slot \in (0 - Capacity)..Capacity - 1 /\ 0 - free \in (0 - Capacity)..Capacity - 1
    BY <1>1 DEF TypeOK, Slots
  <2>3. ASSUME NEW n \in Slots
        PROVE  ids'[n] \in (0 - Capacity)..Capacity - 1
    <3>1. ids[n] \in (0 - Capacity)..Capacity - 1
      BY DEF TypeOK
    <3>2. ids'[n] \in {slot, 0 - free, ids[n]}
      BY RemovedEntries
    <3>3. QED
      BY <3>1, <3>2, <2>2
  <2>4. QED
    BY <2>1, <2>3
<1>5. free' \in 1..Capacity /\ max' \in 2..Capacity /\ when' \in [Entries -> 0..MaxTime]
  BY <1>1, <1>2, RemovedEntries DEF TypeOK
<1>6. cur' \in 0..Capacity - 1
  BY <1>1, RemovedEntries DEF TypeOK
<1>7. tid' \in [Entries -> {-1} \cup Slots]
  <2>1. tid' = [tid EXCEPT ![Entry(slot)] = -1]
    BY RemovedEntries
  <2>2. QED
    BY <2>1 DEF TypeOK
<1>8. op' \in Loops
  <2>1. CASE slot < Top - 1
    <3>1. op' = [kind |-> Direction(Entry(Top - 1),
                              IF slot = 0 THEN Entry(Top - 1) ELSE Entry(Parent(slot))),
                 entry |-> Entry(Top - 1), hole |-> slot]
      BY <2>1, RemovedEntries
    <3>2. \A x, y : Direction(x, y) \in {"down", "up"}
      BY DEF Direction
    <3>3. QED
      BY <3>1, <3>2, <1>1, <1>2 DEF Loops
  <2>2. CASE ~(slot < Top - 1)
    <3>1. op' = NoLoop
      BY <2>2, RemovedEntries
    <3>2. QED
      BY <3>1, CapacityAssumption, SizesAssumption DEF NoLoop, Loops, Slots
  <2>3. QED
    BY <2>1, <2>2
<1>9. QED
  BY <1>3, <1>4, <1>5, <1>6, <1>7, <1>8 DEF ArrayTypes

\* A removal empties the last slot.
LEMMA RemovedShape ==
    ASSUME TypeOK, Shape, Slotted, Unlocked, NEW slot \in 0..Top - 1, RemoveNode(slot)
    PROVE  Shape'
<1>1. /\ slot \in Slots /\ Top - 1 \in 0..Top - 1 /\ Top \in Nat /\ Top <= max - 2
      /\ max \in Nat
  BY Room
<1>2. /\ Top' = Top - 1 /\ max' = max
      /\ heap' = [s \in Slots |-> IF slot < Top - 1 /\ s = slot THEN Entry(Top - 1)
                                  ELSE IF s = Top - 1 THEN None ELSE heap[s]]
  BY RemovedEntries
<1>3. ASSUME NEW s \in Slots, Top - 1 <= s
      PROVE  heap'[s] = None
  <2>1. s \in Nat
    BY CapacityAssumption, SizesAssumption DEF Slots
  <2>2. CASE s = Top - 1
    BY <2>2, <1>1, <1>2
  <2>3. CASE s # Top - 1
    <3>1. Top <= s /\ s # slot
      BY <2>1, <2>3, <1>1, <1>3
    <3>2. heap[s] = None
      BY <3>1 DEF Shape
    <3>3. QED
      BY <3>1, <3>2, <2>3, <1>2
  <2>4. QED
    BY <2>2, <2>3
<1>4. (op'.kind = "none" => op' = NoLoop)
      /\ (op'.kind # "none" => op'.entry \in Entries /\ op'.hole < Top - 1)
  <2>1. CASE slot < Top - 1
    <3>1. op' = [kind |-> Direction(Entry(Top - 1),
                              IF slot = 0 THEN Entry(Top - 1) ELSE Entry(Parent(slot))),
                 entry |-> Entry(Top - 1), hole |-> slot]
      BY <2>1, RemovedEntries
    <3>2. \A x, y : Direction(x, y) # "none"
      BY DEF Direction
    <3>3. Entry(Top - 1) \in Entries
      BY <1>1 DEF Slotted
    <3>4. QED
      BY <3>1, <3>2, <3>3, <2>1
  <2>2. CASE ~(slot < Top - 1)
    <3>1. op' = NoLoop
      BY <2>2, RemovedEntries
    <3>2. QED
      BY <3>1 DEF NoLoop
  <2>3. QED
    BY <2>1, <2>2
<1>5. QED
  BY <1>1, <1>2, <1>3, <1>4 DEF Shape

\* The slots left hold what the slots but that one held.
LEMMA RemovedOrigin ==
    ASSUME TypeOK, Shape, Slotted, Unlocked, NEW slot \in 0..Top - 1, RemoveNode(slot)
    PROVE  /\ \A s \in 0..Top - 2 : \E r \in 0..Top - 1 :
                  /\ Entry(s)' = Entry(r) /\ r # slot
                  /\ r = IF s = slot THEN Top - 1 ELSE s
           /\ \A r \in 0..Top - 1 : r # slot =>
                  \E s \in 0..Top - 2 : Entry(s)' = Entry(r)
<1>1. Top \in Nat /\ Top - 1 \in 0..Top - 1
  BY Room
<1>2. \A s \in 0..Top - 2 : Entry(s)' = IF s = slot THEN Entry(Top - 1) ELSE Entry(s)
  BY RemovedEntries
<1>3. ASSUME NEW s \in 0..Top - 2
      PROVE  \E r \in 0..Top - 1 : /\ Entry(s)' = Entry(r) /\ r # slot
                                   /\ r = IF s = slot THEN Top - 1 ELSE s
  <2>1. CASE s = slot
    <3>1. Entry(s)' = Entry(Top - 1) /\ Top - 1 # slot
      BY <2>1, <1>1, <1>2
    <3>2. QED
      BY <3>1, <2>1, <1>1
  <2>2. CASE s # slot
    BY <2>2, <1>1, <1>2
  <2>3. QED
    BY <2>1, <2>2
<1>4. ASSUME NEW r \in 0..Top - 1, r # slot
      PROVE  \E s \in 0..Top - 2 : Entry(s)' = Entry(r)
  <2>1. CASE r = Top - 1
    <3>1. slot \in 0..Top - 2
      BY <2>1, <1>1, <1>4
    <3>2. Entry(slot)' = Entry(Top - 1)
      BY <3>1, <1>2
    <3>3. QED
      BY <3>1, <3>2, <2>1
  <2>2. CASE r # Top - 1
    <3>1. r \in 0..Top - 2
      BY <2>2, <1>1
    <3>2. QED
      BY <3>1, <1>2, <1>4
  <2>3. QED
    BY <2>1, <2>2
<1>5. QED
  BY <1>3, <1>4


\* The ids that are left lead to their slots, but for that of the entry moved.
LEMMA RemovedSlotted ==
    ASSUME TypeOK, Shape, Slotted, Unlocked, NEW slot \in 0..Top - 1, RemoveNode(slot)
    PROVE  Slotted'
<1>1. Top \in Nat /\ Top - 1 \in 0..Top - 1 /\ 0..Top - 2 \subseteq 0..Top - 1
  BY Room
<1>2. Top' = Top - 1 /\ max' = max /\ tid' = [tid EXCEPT ![Entry(slot)] = -1]
  BY RemovedEntries
<1>3. \A s \in 0..Top - 1 : Entry(s) \in Entries /\ tid[Entry(s)] \in 1..max - 1
  BY DEF Slotted
<1>4. \A s \in 0..Top - 1 : tid[Entry(s)] \in Slots /\ tid[Entry(s)] # 0
  BY <1>3, Room DEF Slots
<1>5. \A r \in 0..Top - 1 : ids[tid[Entry(r)]] = r
  BY AtRest DEF Slotted
<1>6. \A r, s \in 0..Top - 1 : r # s => tid[Entry(r)] # tid[Entry(s)]
  BY DEF Slotted
<1>7. \A r \in 0..Top - 1 : r # slot => tid'[Entry(r)] = tid[Entry(r)]
  BY <1>2, <1>3, <1>6 DEF TypeOK
<1>8. \A n \in Slots :
        ids'[n] = IF slot < Top - 1 /\ n = tid[Entry(Top - 1)] THEN slot
                  ELSE IF n = tid[Entry(slot)] THEN 0 - free ELSE ids[n]
  BY RemovedEntries
<1>9. ASSUME NEW s \in 0..Top - 2
      PROVE  /\ Entry(s)' \in Entries /\ tid'[Entry(s)'] \in 1..max - 1
             /\ ~Hole(s)' => ids'[tid'[Entry(s)']] = s
  <2>1. PICK r \in 0..Top - 1 : /\ Entry(s)' = Entry(r) /\ r # slot
                                /\ r = IF s = slot THEN Top - 1 ELSE s
    BY RemovedOrigin
  <2>2. tid'[Entry(s)'] = tid[Entry(r)] /\ Entry(r) \in Entries
        /\ tid[Entry(r)] \in 1..max - 1 /\ tid[Entry(r)] \in Slots
    BY <2>1, <1>3, <1>4, <1>7
  <2>3. ASSUME ~Hole(s)'
        PROVE  ids'[tid[Entry(r)]] = s
    <3>1. s # slot
      <4>1. CASE slot < Top - 1
        <5>1. op'.hole = slot /\ op'.kind # "none"
          BY <4>1, RemovedEntries DEF Direction
        <5>2. QED
          BY <5>1, <2>3 DEF Hole
      <4>2. CASE ~(slot < Top - 1)
        BY <4>2, <1>1
      <4>3. QED
        BY <4>1, <4>2
    <3>2. r = s /\ r # Top - 1
      BY <3>1, <2>1, <1>1
    <3>3. tid[Entry(r)] # tid[Entry(Top - 1)] /\ tid[Entry(r)] # tid[Entry(slot)]
      BY <3>2, <2>1, <1>1, <1>6
    <3>4. ids'[tid[Entry(r)]] = ids[tid[Entry(r)]]
      BY <3>3, <2>2, <1>8
    <3>5. QED
      BY <3>2, <3>4, <1>5
  <2>4. QED
    BY <2>1, <2>2, <2>3
<1>10. ASSUME NEW s \in 0..Top - 2, NEW r \in 0..Top - 2, tid'[Entry(s)'] = tid'[Entry(r)']
       PROVE  s = r
  <2>1. PICK i \in 0..Top - 1 : /\ Entry(s)' = Entry(i) /\ i # slot
                                /\ i = IF s = slot THEN Top - 1 ELSE s
    BY RemovedOrigin
  <2>2. PICK j \in 0..Top - 1 : /\ Entry(r)' = Entry(j) /\ j # slot
                                /\ j = IF r = slot THEN Top - 1 ELSE r
    BY RemovedOrigin
  <2>3. tid[Entry(i)] = tid[Entry(j)]
    BY <2>1, <2>2, <1>7, <1>10
  <2>4. i = j
    BY <2>3, <1>6
  <2>5. QED
    BY <2>1, <2>2, <2>4, <1>1
<1>11. ASSUME NEW e \in Entries, tid'[e] > 0
       PROVE  \E s \in 0..Top - 2 : Entry(s)' = e
  <2>1. e # Entry(slot)
    BY <1>2, <1>11 DEF TypeOK
  <2>2. tid[e] > 0
    BY <2>1, <1>2, <1>11 DEF TypeOK
  <2>3. PICK r \in 0..Top - 1 : Entry(r) = e
    BY <2>2 DEF Slotted
  <2>4. r # slot
    BY <2>1, <2>3
  <2>5. QED
    BY <2>3, <2>4, RemovedOrigin
<1>12. ids'[0] < 0
  <2>1. 0 \in Slots
    BY CapacityAssumption, SizesAssumption DEF Slots
  <2>2. ids'[0] = ids[0]
    BY <2>1, <1>1, <1>4, <1>8
  <2>3. QED
    BY <2>2 DEF Slotted
<1>13. Top' - 1 = Top - 2
  BY <1>1, <1>2
<1>14. QED
  BY <1>2, <1>9, <1>10, <1>11, <1>12, <1>13 DEF Slotted

\* The id that is given back goes to the front of the free list.
LEMMA RemovedList ==
    ASSUME TypeOK, Shape, Slotted, Unlocked, NEW slot \in 0..Top - 1, RemoveNode(slot),
           NEW f, FreeList(f)
    PROVE  \E g : FreeList(g)'
<1>0. PICK T, n, e : T = Top /\ n = Spare /\ e = Entry(slot)
  OBVIOUS
<1>1. /\ T \in Nat /\ T - 1 \in 0..T - 1 /\ n \in Nat /\ max \in Nat /\ n = max - 1 - T
      /\ slot \in 0..T - 1
  BY <1>0, Room DEF Spare
<1>2. /\ Top' = T - 1 /\ max' = max /\ tid' = [tid EXCEPT ![e] = -1] /\ free' = tid[e]
  BY <1>0, RemovedEntries
<1>3. Spare' = n + 1
  BY <1>1, <1>2 DEF Spare
<1>4. /\ f \in [0..n -> 1..max] /\ f[0] = free /\ f[n] = max
      /\ \A i \in 0..n - 1 : /\ f[i] < max /\ ids[f[i]] = 0 - f[i + 1]
                             /\ \A s \in 0..T - 1 : tid[Entry(s)] # f[i]
      /\ \A i, j \in 0..n : f[i] = f[j] => i = j
      /\ \A k \in 1..max - 1 : \/ \E s \in 0..T - 1 : tid[Entry(s)] = k
                               \/ \E i \in 0..n - 1 : f[i] = k
  BY <1>0 DEF FreeList
<1>5. \A s \in 0..T - 1 : Entry(s) \in Entries /\ tid[Entry(s)] \in 1..max - 1
  BY <1>0 DEF Slotted
<1>6. \A r, s \in 0..T - 1 : r # s => tid[Entry(r)] # tid[Entry(s)]
  BY <1>0 DEF Slotted
<1>7. tid[e] \in 1..max - 1 /\ e \in Entries
  BY <1>0, <1>1, <1>5
<1>8. \A i \in 0..n - 1 : f[i] \in 1..max - 1 /\ f[i] \in Slots
  <2>1. \A i \in 0..n - 1 : f[i] \in 1..max - 1
    BY <1>1, <1>4
  <2>2. QED
    BY <2>1, Room DEF Slots
<1>9. \A k \in Slots :
        ids'[k] = IF slot < T - 1 /\ k = tid[Entry(T - 1)] THEN slot
                  ELSE IF k = tid[e] THEN 0 - free ELSE ids[k]
  BY <1>0, RemovedEntries
<1>10. \A s \in 0..T - 2 : \E r \in 0..T - 1 : Entry(s)' = Entry(r) /\ r # slot
  BY <1>0, RemovedOrigin
<1>11. \A r \in 0..T - 1 : r # slot => \E s \in 0..T - 2 : Entry(s)' = Entry(r)
  BY <1>0, RemovedOrigin
<1>12. \A r \in 0..T - 1 : r # slot => tid'[Entry(r)] = tid[Entry(r)] /\ tid[Entry(r)] # tid[e]
  <2>1. SUFFICES ASSUME NEW r \in 0..T - 1, r # slot
                 PROVE  tid'[Entry(r)] = tid[Entry(r)] /\ tid[Entry(r)] # tid[e]
    OBVIOUS
  <2>2. tid[Entry(r)] # tid[e]
    BY <1>0, <1>1, <1>6, <2>1
  <2>3. QED
    BY <2>2, <1>2, <1>5 DEF TypeOK
<1>13. PICK m : m = tid[e]
  OBVIOUS
<1> DEFINE g == [i \in 0..n + 1 |-> IF i = 0 THEN m ELSE f[i - 1]]
<1>14. /\ g[0] = m /\ g[n + 1] = max /\ g \in [0..n + 1 -> 1..max]
       /\ \A i \in 1..n + 1 : g[i] = f[i - 1]
  BY <1>1, <1>4, <1>7, <1>13
<1> HIDE DEF g
<1>15. ASSUME NEW i \in 0..n
       PROVE  /\ g[i] < max /\ ids'[g[i]] = 0 - g[i + 1]
              /\ \A s \in 0..T - 2 : tid'[Entry(s)'] # g[i]
  <2>1. i + 1 \in 1..n + 1 /\ g[i + 1] = f[i]
    BY <1>1, <1>14
  <2>2. CASE i = 0
    <3>1. m \in Slots
      BY <1>7, <1>13, Room DEF Slots
    <3>2. slot < T - 1 => m # tid[Entry(T - 1)]
      BY <1>0, <1>1, <1>6, <1>13
    <3>3. ids'[m] = 0 - free
      BY <3>1, <3>2, <1>9, <1>13
    <3>4. \A s \in 0..T - 2 : tid'[Entry(s)'] # m
      BY <1>10, <1>12, <1>13
    <3>5. m < max
      BY <1>1, <1>7, <1>13
    <3>6. QED
      BY <2>1, <2>2, <3>3, <3>4, <3>5, <1>4, <1>14
  <2>3. CASE i # 0
    <3>1. PICK j : j = i - 1
      OBVIOUS
    <3>2. j \in 0..n - 1 /\ j + 1 = i
      BY <2>3, <3>1, <1>1
    <3>3. g[i] = f[j]
      BY <2>3, <3>1, <1>1, <1>14
    <3>4. f[j] < max /\ ids[f[j]] = 0 - f[i]
      BY <3>2, <1>4
    <3>5. \A s \in 0..T - 1 : tid[Entry(s)] # f[j]
      BY <3>2, <1>4
    <3>6. ids'[f[j]] = ids[f[j]]
      BY <3>2, <3>5, <1>0, <1>1, <1>8, <1>9
    <3>7. \A s \in 0..T - 2 : tid'[Entry(s)'] # f[j]
      BY <3>5, <1>10, <1>12
    <3>8. QED
      BY <2>1, <3>3, <3>4, <3>6, <3>7
  <2>4. QED
    BY <2>2, <2>3
<1>16. ASSUME NEW i \in 0..n + 1, NEW j \in 0..n + 1, g[i] = g[j]
       PROVE  i = j
  <2>1. \A k \in 0..n : f[k] # m
    <3>1. SUFFICES ASSUME NEW k \in 0..n PROVE f[k] # m
      OBVIOUS
    <3>2. CASE k = n
      BY <3>2, <1>1, <1>4, <1>7, <1>13
    <3>3. CASE k # n
      <4>1. k \in 0..n - 1
        BY <3>3, <1>1
      <4>2. QED
        BY <4>1, <1>0, <1>1, <1>4, <1>13
    <3>4. QED
      BY <3>2, <3>3
  <2>2. \A k \in 1..n + 1 : k - 1 \in 0..n
    BY <1>1
  <2>3. \A k \in 1..n + 1 : g[k] # m
    BY <2>1, <2>2, <1>14
  <2>4. CASE i = 0 \/ j = 0
    BY <2>3, <2>4, <1>1, <1>14, <1>16
  <2>5. CASE i # 0 /\ j # 0
    <3>1. i \in 1..n + 1 /\ j \in 1..n + 1
      BY <2>5, <1>1
    <3>2. f[i - 1] = f[j - 1]
      BY <3>1, <1>14, <1>16
    <3>3. i - 1 = j - 1
      BY <3>1, <3>2, <2>2, <1>4
    <3>4. QED
      BY <3>1, <3>3, <1>1
  <2>6. QED
    BY <2>4, <2>5
<1>17. ASSUME NEW k \in 1..max - 1
       PROVE  \/ \E s \in 0..T - 2 : tid'[Entry(s)'] = k
              \/ \E i \in 0..n : g[i] = k
  <2>1. CASE \E i \in 0..n - 1 : f[i] = k
    <3>1. PICK i \in 0..n - 1 : f[i] = k
      BY <2>1
    <3>2. i + 1 \in 0..n /\ i + 1 \in 1..n + 1
      BY <1>1
    <3>3. g[i + 1] = f[i]
      BY <3>2, <1>1, <1>14
    <3>4. QED
      BY <3>1, <3>2, <3>3
  <2>2. CASE k = m
    BY <2>2, <1>1, <1>14
  <2>3. CASE k # m /\ \E s \in 0..T - 1 : tid[Entry(s)] = k
    <3>1. PICK r \in 0..T - 1 : tid[Entry(r)] = k
      BY <2>3
    <3>2. r # slot
      BY <2>3, <3>1, <1>0, <1>13
    <3>3. PICK s \in 0..T - 2 : Entry(s)' = Entry(r)
      BY <3>2, <1>11
    <3>4. QED
      BY <3>1, <3>2, <3>3, <1>12
  <2>4. QED
    BY <2>1, <2>2, <2>3, <1>4
<1>18. Top' - 1 = T - 2 /\ Spare' - 1 = n
  BY <1>1, <1>2, <1>3
<1>19. FreeList(g)'
  BY <1>2, <1>3, <1>13, <1>14, <1>15, <1>16, <1>17, <1>18 DEF FreeList
<1>20. QED
  BY <1>19


\* The loop is started in the direction in which the order may be broken: the
\* entry moved, which may come from another branch, is checked against its parent.
LEMMA RemovedOrdered ==
    ASSUME TypeOK, Shape, Slotted, Ordered, Unlocked,
           NEW slot \in 0..Top - 1, RemoveNode(slot)
    PROVE  Ordered'
<1>0. PICK T, x : T = Top /\ x = Entry(Top - 1)
  OBVIOUS
<1>1. T \in Nat /\ T - 1 \in 0..T - 1 /\ slot \in 0..T - 1 /\ op.kind = "none"
  BY <1>0, Room DEF Unlocked
<1>2. Top' = T - 1 /\ when' = when
  BY <1>0, RemovedEntries
<1>3. \A s \in 0..T - 2 : Entry(s)' = IF s = slot THEN x ELSE Entry(s)
  BY <1>0, RemovedEntries
<1>4. \A s \in 1..T - 1 : /\ when[Entry(Parent(s))] <= when[Entry(s)]
                          /\ Parent(s) \in 0..T - 1 /\ Parent(s) < s /\ s \in 0..T - 1
  BY <1>0, <1>1, ParentInUse DEF Ordered, Early
<1>5. /\ \A s \in 0..T - 1 : when[Entry(s)] \in Nat
      /\ when[x] \in Nat
  BY <1>0, <1>1, Times
<1>6. \A s \in 1..T - 2 : /\ s \in 1..T - 1 /\ s \in 0..T - 2
                          /\ Parent(s) \in 0..T - 2 /\ Parent(s) # s
  BY <1>1, <1>4
<1>7. Top' - 1 = T - 2
  BY <1>1, <1>2
<1>8. CASE slot = T - 1
  <2>1. op' = NoLoop
    BY <1>0, <1>1, <1>8, RemovedEntries
  <2>2. ASSUME NEW s \in 1..T - 2
        PROVE  when[Entry(Parent(s))'] <= when[Entry(s)']
    <3>1. s # slot /\ Parent(s) # slot
      BY <1>1, <1>6, <1>8
    <3>2. QED
      BY <3>1, <1>3, <1>4, <1>6
  <2>3. QED
    BY <2>1, <2>2, <1>2, <1>7 DEF Ordered, NoLoop
<1>9. CASE slot # T - 1
  <2>1. slot < T - 1 /\ slot \in 0..T - 2
    BY <1>1, <1>9
  <2>2. op' = [kind |-> Direction(x, IF slot = 0 THEN x ELSE Entry(Parent(slot))),
               entry |-> x, hole |-> slot]
    BY <1>0, <2>1, RemovedEntries
  <2>3. op'.hole = slot /\ op'.kind \in {"down", "up"}
        /\ op'.kind = Direction(x, IF slot = 0 THEN x ELSE Entry(Parent(slot)))
    BY <2>2 DEF Direction
  \* What was below the slot is no earlier than what was above it.
  <2>4. ASSUME NEW s \in 1..T - 2, Parent(s) = slot, slot > 0
        PROVE  when[Entry(Parent(slot))'] <= when[Entry(s)']
    <3>1. slot \in 1..T - 2
      BY <2>1, <2>4, <1>1
    <3>2. s # slot /\ Parent(slot) # slot
      BY <2>4, <3>1, <1>6
    <3>3. Entry(s)' = Entry(s) /\ Entry(Parent(slot))' = Entry(Parent(slot))
      BY <3>1, <3>2, <1>3, <1>6
    <3>4. when[Entry(Parent(slot))] <= when[Entry(slot)] /\ when[Entry(slot)] <= when[Entry(s)]
      BY <2>4, <3>1, <1>4, <1>6
    <3>5. when[Entry(Parent(slot))] \in Nat /\ when[Entry(slot)] \in Nat /\ when[Entry(s)] \in Nat
      BY <3>1, <1>4, <1>5, <1>6
    <3>6. QED
      BY <3>3, <3>4, <3>5
  <2>5. ASSUME NEW s \in 1..T - 2, s # slot, Parent(s) # slot
        PROVE  when[Entry(Parent(s))'] <= when[Entry(s)']
    BY <2>5, <1>3, <1>4, <1>6
  <2>6. CASE op'.kind = "down"
    <3>1. slot > 0 => when[Entry(Parent(slot))] <= when[x]
      <4>1. SUFFICES ASSUME slot > 0
                     PROVE  when[Entry(Parent(slot))] <= when[x]
        OBVIOUS
      <4>2. when[x] >= when[Entry(Parent(slot))]
        BY <2>3, <2>6, <4>1 DEF Direction
      <4>3. slot \in 1..T - 2
        BY <2>1, <4>1, <1>1
      <4>4. when[Entry(Parent(slot))] \in Nat
        BY <4>3, <1>4, <1>5, <1>6
      <4>5. QED
        BY <4>2, <4>4, <1>5
    <3>2. ASSUME NEW s \in 1..T - 2, Parent(s) # slot
          PROVE  when[Entry(Parent(s))'] <= when[Entry(s)']
      <4>1. CASE s = slot
        <5>1. Entry(s)' = x /\ Entry(Parent(s))' = Entry(Parent(s)) /\ slot > 0
          BY <3>2, <4>1, <1>1, <1>3, <1>6
        <5>2. QED
          BY <5>1, <4>1, <3>1
      <4>2. CASE s # slot
        BY <3>2, <4>2, <2>5
      <4>3. QED
        BY <4>1, <4>2
    <3>3. QED
      BY <3>2, <2>3, <2>4, <2>6, <1>2, <1>7 DEF Ordered, Early
  <2>7. CASE op'.kind = "up"
    <3>1. slot > 0 /\ ~(when[x] >= when[Entry(Parent(slot))])
      BY <2>3, <2>7, <1>1, <1>5 DEF Direction
    <3>2. slot \in 1..T - 2
      BY <2>1, <3>1, <1>1
    <3>3. ASSUME NEW s \in 1..T - 2, Parent(s) = slot
          PROVE  when[Entry(Parent(s))'] <= when[Entry(s)']
      <4>1. Entry(Parent(s))' = x /\ Entry(s)' = Entry(s)
        BY <3>3, <1>3, <1>6
      <4>2. when[Entry(Parent(slot))] <= when[Entry(slot)]
            /\ when[Entry(slot)] <= when[Entry(s)]
        BY <3>2, <3>3, <1>4, <1>6
      <4>3. when[Entry(Parent(slot))] \in Nat /\ when[Entry(slot)] \in Nat
            /\ when[Entry(s)] \in Nat
        BY <3>2, <1>4, <1>5, <1>6
      <4>4. QED
        BY <4>1, <4>2, <4>3, <3>1, <1>5
    <3>4. QED
      BY <3>1, <3>3, <2>3, <2>4, <2>5, <2>7, <1>2, <1>7 DEF Ordered, Early
  <2>8. QED
    BY <2>3, <2>6, <2>7
<1>10. QED
  BY <1>8, <1>9

\* remove_node, from a slot in use.
LEMMA RemoveKept ==
    ASSUME Kept, Unlocked, NEW slot \in 0..Top - 1, RemoveNode(slot)
    PROVE  ArrayTypes' /\ Shape' /\ Slotted' /\ Ordered' /\ \E f : FreeList(f)'
<1>1. TypeOK /\ Shape /\ Slotted /\ Ordered
  BY DEF Kept
<1>2. PICK f : FreeList(f)
  BY DEF Kept
<1>3. \E g : FreeList(g)'
  BY <1>1, <1>2, RemovedList
<1>4. QED
  BY <1>1, <1>3, RemovedTypes, RemovedShape, RemovedSlotted, RemovedOrdered


-----------------------------------------------------------------------------
(* Insertion *)

\* The first id of the free list is not in use, and the next one follows it.
LEMMA FirstSpare ==
    ASSUME TypeOK, Shape, NEW f, FreeList(f)
    PROVE  /\ Spare \in Nat /\ Spare > 0
           /\ free = f[0] /\ free \in 1..max - 1 /\ free \in Slots
           /\ 0 - ids[free] = f[1] /\ f[1] \in 1..max
           /\ \A s \in 0..Top - 1 : tid[Entry(s)] # free
<1>1. Spare \in Nat /\ Spare > 0 /\ max \in Nat
  BY Room DEF Spare
<1>2. 0 \in 0..Spare - 1 /\ 0 \in 0..Spare /\ 1 \in 0..Spare
  BY <1>1
<1>3. /\ free = f[0] /\ f[0] \in 1..max /\ f[1] \in 1..max
      /\ f[0] < max /\ ids[f[0]] = 0 - f[0 + 1]
      /\ \A s \in 0..Top - 1 : tid[Entry(s)] # f[0]
  BY <1>2 DEF FreeList
<1>4. free \in 1..max - 1
  BY <1>1, <1>3
<1>5. free \in Slots
  BY <1>4, Room DEF Slots
<1>6. QED
  BY <1>1, <1>3, <1>4, <1>5

\* schedule_entry: the entry takes the slot at the end and the first spare id.
LEMMA InsertedEntries ==
    ASSUME TypeOK, Shape, Slotted, Waiting, NEW f, FreeList(f),
           NEW c \in Callers, Insert(c), NEW e, e = call[c].entry
    PROVE  /\ e \in Entries /\ tid[e] < 1 /\ Unlocked /\ Top = cur
           /\ op' = [kind |-> "insert", entry |-> e, hole |-> Top]
           /\ Top' = Top + 1 /\ heap' = heap /\ cur' = cur
           /\ tid' = [tid EXCEPT ![e] = free]
           /\ when' = [when EXCEPT ![e] = call[c].time]
           /\ free' = f[1]
           /\ \A s \in 0..Top - 1 : Entry(s)' = Entry(s) /\ Entry(s) # e
           /\ \A s : s = Top => Entry(s)' = e
           /\ IF Full
              THEN /\ max' = 2 * max /\ 2 * max <= Capacity
                   /\ ids' = Chained(ids, max, 2 * max)
              ELSE max' = max /\ ids' = ids
<1>1. /\ call[c].pc = "insert" /\ Unlocked /\ (Full => 2 * max <= Capacity)
      /\ tid' = [tid EXCEPT ![e] = free]
      /\ when' = [when EXCEPT ![e] = call[c].time]
      /\ free' = 0 - ids[free]
      /\ max' = (IF Full THEN 2 * max ELSE max)
      /\ ids' = (IF Full THEN Chained(ids, max, 2 * max) ELSE ids)
      /\ op' = [kind |-> "insert", entry |-> e, hole |-> cur]
      /\ heap' = heap /\ cur' = cur
  BY DEF Insert
<1>2. e \in Entries /\ tid[e] < 1
  BY <1>1 DEF Waiting
<1>3. Top = cur /\ cur \in Nat /\ \A s : Entry(s) = heap[s]
  BY <1>1, AtRest
<1>4. Top' = Top + 1
  BY <1>1, <1>3 DEF Top
<1>5. ASSUME NEW s \in 0..Top - 1
      PROVE  Entry(s)' = Entry(s) /\ Entry(s) # e
  <2>1. s # cur
    BY <1>3
  <2>2. Entry(s)' = heap[s]
    BY <2>1, <1>1 DEF Entry
  <2>3. tid[Entry(s)] \in 1..max - 1
    BY DEF Slotted
  <2>4. tid[Entry(s)] \in Nat /\ tid[Entry(s)] >= 1
    BY <2>3, Room
  <2>5. Entry(s) # e
    BY <2>4, <1>2
  <2>6. QED
    BY <2>2, <2>5, <1>3
<1>6. ASSUME NEW s, s = Top
      PROVE  Entry(s)' = e
  BY <1>1, <1>3, <1>6 DEF Entry
<1>7. free' = f[1]
  BY <1>1, FirstSpare
<1>8. QED
  BY <1>1, <1>2, <1>3, <1>4, <1>5, <1>6, <1>7

\* The table, as far as it reached before.
LEMMA InsertedIds ==
    ASSUME TypeOK, Shape, Slotted, Waiting, NEW f, FreeList(f),
           NEW c \in Callers, Insert(c)
    PROVE  /\ \A n \in 0..max - 1 : ids'[n] = ids[n]
           /\ max' \in 2..Capacity /\ max <= max' /\ Top + 1 <= max' - 2
<1>1. /\ max \in 2..Capacity /\ Capacity \in Nat /\ Top \in Nat /\ Top <= max - 2
      /\ Top = cur
  BY Room, InsertedEntries DEF TypeOK
<1>2. CASE Full
  <2>1. max' = 2 * max /\ 2 * max <= Capacity /\ ids' = Chained(ids, max, 2 * max)
    BY <1>2, InsertedEntries
  <2>2. ASSUME NEW n \in 0..max - 1
        PROVE  ids'[n] = ids[n]
    <3>1. n \in Slots /\ ~(max <= n)
      BY <1>1 DEF Slots
    <3>2. QED
      BY <3>1, <2>1 DEF Chained
  <2>3. 2 * max \in 2..Capacity /\ max <= 2 * max /\ Top + 1 <= 2 * max - 2
    BY <1>1, <2>1
  <2>4. QED
    BY <2>1, <2>2, <2>3
<1>3. CASE ~Full
  <2>1. max' = max /\ ids' = ids
    BY <1>3, InsertedEntries
  <2>2. ~(cur + 2 >= max)
    BY <1>3 DEF Full
  <2>3. Top + 1 <= max - 2 /\ max <= max
    BY <1>1, <2>2
  <2>4. QED
    BY <1>1, <2>1, <2>3
<1>4. QED
  BY <1>2, <1>3

\* An insertion stays inside the table, which grows by doubling.
LEMMA InsertedTypes ==
    ASSUME TypeOK, Shape, Slotted, Waiting, NEW f, FreeList(f),
           NEW c \in Callers, Insert(c)
    PROVE  TypeOK'
<1>1. PICK e : e = call[c].entry
  OBVIOUS
<1>2. /\ max \in 2..Capacity /\ Capacity \in Nat /\ Top \in Nat /\ Top <= max - 2
      /\ Top = cur
  BY <1>1, Room, InsertedEntries DEF TypeOK
<1>3. e \in Entries /\ heap' = heap /\ cur' = cur
  BY <1>1, InsertedEntries
<1>4. max' \in 2..Capacity
  BY InsertedIds
<1>5. free' \in 1..Capacity
  <2>1. free' \in 1..max
    BY <1>1, InsertedEntries, FirstSpare
  <2>2. QED
    BY <2>1, <1>2
<1>6. ids' \in [Slots -> (0 - Capacity)..Capacity - 1]
  <2>1. CASE Full
    <3>1. max' = 2 * max /\ 2 * max <= Capacity /\ ids' = Chained(ids, max, 2 * max)
      BY <1>1, <2>1, InsertedEntries
    <3>2. ASSUME NEW i \in Slots
          PROVE  (IF max <= i /\ i < 2 * max THEN -(i + 1) ELSE ids[i])
                     \in (0 - Capacity)..Capacity - 1
      <4>1. ids[i] \in (0 - Capacity)..Capacity - 1
        BY DEF TypeOK
      <4>2. -(i + 1) \in (0 - Capacity)..Capacity - 1
        BY <1>2 DEF Slots
      <4>3. QED
        BY <4>1, <4>2
    <3>3. QED
      BY <3>1, <3>2 DEF Chained
  <2>2. CASE ~Full
    BY <1>1, <2>2, InsertedEntries DEF TypeOK
  <2>3. QED
    BY <2>1, <2>2
<1>7. tid' \in [Entries -> {-1} \cup Slots]
  <2>1. tid' = [tid EXCEPT ![e] = free] /\ free \in Slots
    BY <1>1, InsertedEntries, FirstSpare
  <2>2. QED
    BY <2>1 DEF TypeOK
<1>8. when' \in [Entries -> 0..MaxTime]
  <2>1. when' = [when EXCEPT ![e] = call[c].time]
    BY <1>1, InsertedEntries
  <2>2. call[c].time \in 0..MaxTime
    BY DEF TypeOK
  <2>3. QED
    BY <2>1, <2>2 DEF TypeOK
<1>9. op' \in Loops
  <2>1. op' = [kind |-> "insert", entry |-> e, hole |-> Top]
    BY <1>1, InsertedEntries
  <2>2. Top \in Slots
    BY <1>2 DEF Slots
  <2>3. QED
    BY <2>1, <2>2, <1>3 DEF Loops
<1>10. call' = [call EXCEPT ![c] = Idle] /\ UNCHANGED <<poll, clock, failed>>
  BY DEF Insert
<1>11. call' \in [Callers -> [pc : {"idle", "insert"}, entry : Entries \cup {None},
                              time : 0..MaxTime]]
  <2>1. Idle \in [pc : {"idle", "insert"}, entry : Entries \cup {None}, time : 0..MaxTime]
    BY SizesAssumption DEF Idle
  <2>2. QED
    BY <2>1, <1>10 DEF TypeOK
<1>12. QED
  BY <1>3, <1>4, <1>5, <1>6, <1>7, <1>8, <1>9, <1>10, <1>11 DEF TypeOK


\* There is room for the next insertion too.
LEMMA InsertedShape ==
    ASSUME TypeOK, Shape, Slotted, Waiting, NEW f, FreeList(f),
           NEW c \in Callers, Insert(c)
    PROVE  Shape'
<1>1. PICK e : e = call[c].entry
  OBVIOUS
<1>2. /\ op' = [kind |-> "insert", entry |-> e, hole |-> Top] /\ e \in Entries
      /\ Top' = Top + 1 /\ heap' = heap /\ Top \in Nat
  BY <1>1, InsertedEntries, Room
<1>3. Top + 1 <= max' - 2
  BY InsertedIds
<1>4. \A s \in Slots : Top + 1 <= s => heap[s] = None
  <2>1. SUFFICES ASSUME NEW s \in Slots, Top + 1 <= s
                 PROVE  heap[s] = None
    OBVIOUS
  <2>2. s \in Nat
    BY Room DEF Slots
  <2>3. Top <= s
    BY <2>1, <2>2, <1>2
  <2>4. QED
    BY <2>3 DEF Shape
<1>5. QED
  BY <1>2, <1>3, <1>4 DEF Shape

\* The new entry has an id of its own.
LEMMA InsertedSlotted ==
    ASSUME TypeOK, Shape, Slotted, Waiting, NEW f, FreeList(f),
           NEW c \in Callers, Insert(c)
    PROVE  Slotted'
<1>1. PICK e, T : e = call[c].entry /\ T = Top
  OBVIOUS
<1>2. /\ op' = [kind |-> "insert", entry |-> e, hole |-> T] /\ e \in Entries
      /\ Top' = T + 1 /\ T \in Nat /\ max \in Nat /\ max' \in Nat /\ max <= max'
      /\ tid' = [tid EXCEPT ![e] = free]
      /\ \A s \in 0..T - 1 : Entry(s)' = Entry(s) /\ Entry(s) # e
      /\ Entry(T)' = e
  <2>1. max' \in Nat /\ max \in Nat /\ max <= max' /\ T \in Nat
    BY <1>1, InsertedIds, Room
  <2>2. QED
    BY <2>1, <1>1, InsertedEntries
<1>3. \A s \in 0..T - 1 : /\ Entry(s) \in Entries /\ tid[Entry(s)] \in 1..max - 1
                          /\ ids[tid[Entry(s)]] = s
  BY <1>1, InsertedEntries, AtRest DEF Slotted
<1>4. \A n \in 0..max - 1 : ids'[n] = ids[n]
  BY InsertedIds
<1>5. free \in 1..max - 1 /\ \A s \in 0..T - 1 : tid[Entry(s)] # free
  BY <1>1, FirstSpare
<1>6. tid'[e] = free /\ \A d \in Entries : d # e => tid'[d] = tid[d]
  BY <1>2 DEF TypeOK
<1>7. \A s \in 0..T : s # T => s \in 0..T - 1
  BY <1>2
<1>8. ASSUME NEW s \in 0..T
      PROVE  /\ Entry(s)' \in Entries /\ tid'[Entry(s)'] \in 1..max' - 1
             /\ ~Hole(s)' => ids'[tid'[Entry(s)']] = s
  <2>1. CASE s = T
    <3>1. Hole(s)'
      BY <2>1, <1>2 DEF Hole
    <3>2. tid'[Entry(s)'] = free /\ Entry(s)' = e
      BY <2>1, <1>2, <1>6
    <3>3. free \in 1..max' - 1
      <4>1. PICK m, mm : m = max /\ mm = max'
        OBVIOUS
      <4>2. m \in Nat /\ mm \in Nat /\ m <= mm /\ free \in 1..m - 1
        BY <4>1, <1>2, <1>5
      <4>3. free \in 1..mm - 1
        BY <4>2
      <4>4. QED
        BY <4>1, <4>3
    <3>4. QED
      BY <3>1, <3>2, <3>3, <1>2
  <2>2. CASE s # T
    <3>1. s \in 0..T - 1
      BY <2>2, <1>7
    <3>2. tid'[Entry(s)'] = tid[Entry(s)] /\ Entry(s)' = Entry(s)
      BY <3>1, <1>2, <1>3, <1>6
    <3>3. tid[Entry(s)] \in 1..max' - 1 /\ tid[Entry(s)] \in 0..max - 1
      BY <3>1, <1>2, <1>3
    <3>4. ids'[tid[Entry(s)]] = s
      BY <3>1, <3>3, <1>3, <1>4
    <3>5. QED
      BY <3>1, <3>2, <3>3, <3>4, <1>3
  <2>3. QED
    BY <2>1, <2>2
<1>9. ASSUME NEW s \in 0..T, NEW r \in 0..T, tid'[Entry(s)'] = tid'[Entry(r)']
      PROVE  s = r
  <2>1. \A q \in 0..T - 1 : tid'[Entry(q)'] = tid[Entry(q)] /\ tid[Entry(q)] # free
    BY <1>2, <1>3, <1>5, <1>6
  <2>2. tid'[Entry(T)'] = free
    BY <1>2, <1>6
  <2>3. CASE s = T \/ r = T
    BY <2>1, <2>2, <2>3, <1>7, <1>9
  <2>4. CASE s # T /\ r # T
    <3>1. s \in 0..T - 1 /\ r \in 0..T - 1 /\ tid[Entry(s)] = tid[Entry(r)]
      BY <2>1, <2>4, <1>7, <1>9
    <3>2. QED
      BY <3>1, <1>1 DEF Slotted
  <2>5. QED
    BY <2>3, <2>4
<1>10. ASSUME NEW d \in Entries, tid'[d] > 0
       PROVE  \E s \in 0..T : Entry(s)' = d
  <2>1. CASE d = e
    BY <2>1, <1>2
  <2>2. CASE d # e
    <3>1. tid[d] > 0
      BY <2>2, <1>6, <1>10
    <3>2. PICK s \in 0..T - 1 : Entry(s) = d
      BY <3>1, <1>1 DEF Slotted
    <3>3. s \in 0..T
      BY <1>2
    <3>4. QED
      BY <3>2, <3>3, <1>2
  <2>3. QED
    BY <2>1, <2>2
<1>11. ids'[0] < 0
  <2>1. 0 \in 0..max - 1
    BY <1>5, <1>2
  <2>2. QED
    BY <2>1, <1>4 DEF Slotted
<1>12. Top' - 1 = T
  BY <1>2
<1>13. QED
  BY <1>8, <1>9, <1>10, <1>11, <1>12 DEF Slotted

\* The new entry may be earlier than its parent, and nothing is below it.
LEMMA InsertedOrdered ==
    ASSUME TypeOK, Shape, Slotted, Ordered, Waiting, NEW f, FreeList(f),
           NEW c \in Callers, Insert(c)
    PROVE  Ordered'
<1>1. PICK e, T : e = call[c].entry /\ T = Top
  OBVIOUS
<1>2. /\ op' = [kind |-> "insert", entry |-> e, hole |-> T] /\ Top' = T + 1
      /\ T \in Nat /\ Unlocked
      /\ when' = [when EXCEPT ![e] = call[c].time]
      /\ \A s \in 0..T - 1 : Entry(s)' = Entry(s) /\ Entry(s) # e
  BY <1>1, InsertedEntries, Room
<1>3. \A s \in 1..T - 1 : when[Entry(Parent(s))] <= when[Entry(s)]
  BY <1>1, <1>2, AtRest DEF Ordered
<1>4. \A s \in 0..T - 1 : when'[Entry(s)'] = when[Entry(s)]
  <2>1. \A s \in 0..T - 1 : Entry(s) \in Entries
    BY <1>1 DEF Slotted
  <2>2. QED
    BY <2>1, <1>2 DEF TypeOK
<1>5. ASSUME NEW s \in 1..T
      PROVE  Parent(s) \in 0..T - 1 /\ Parent(s) # T
  <2>1. s \in Nat /\ s > 0
    BY <1>2
  <2>2. Parent(s) \in Nat /\ Parent(s) < s
    BY <2>1, ParentChild
  <2>3. QED
    BY <2>1, <2>2, <1>2
<1>6. ASSUME NEW s \in 1..T, s # T
      PROVE  when'[Entry(Parent(s))'] <= when'[Entry(s)']
  <2>1. s \in 1..T - 1 /\ s \in 0..T - 1
    BY <1>2, <1>6
  <2>2. QED
    BY <2>1, <1>3, <1>4, <1>5
<1>7. Top' - 1 = T
  BY <1>2
<1>8. QED
  BY <1>2, <1>5, <1>6, <1>7 DEF Ordered, Early


\* What is left of the free list, which the growth of the table continues.
LEMMA InsertedList ==
    ASSUME TypeOK, Shape, Slotted, Waiting, NEW f, FreeList(f),
           NEW c \in Callers, Insert(c)
    PROVE  \E g : FreeList(g)'
<1>0. PICK e, T, n, m, mm : /\ e = call[c].entry /\ T = Top /\ n = Spare
                            /\ m = max /\ mm = max'
  OBVIOUS
<1>1. /\ T \in Nat /\ n \in Nat /\ n > 0 /\ m \in Nat /\ mm \in Nat /\ n = m - 1 - T
      /\ m <= mm /\ m > 0 /\ T + 1 <= mm - 2 /\ mm <= Capacity /\ Capacity \in Nat
  <2>1. T \in Nat /\ m \in Nat /\ n = m - 1 - T /\ T <= m - 2 /\ Capacity \in Nat
    BY <1>0, Room DEF Spare
  <2>2. mm \in 2..Capacity /\ m <= mm /\ T + 1 <= mm - 2
    BY <1>0, InsertedIds
  <2>3. QED
    BY <2>1, <2>2
<1>2. /\ op' = [kind |-> "insert", entry |-> e, hole |-> T] /\ e \in Entries
      /\ Top' = T + 1 /\ free' = f[1]
      /\ tid' = [tid EXCEPT ![e] = free]
      /\ \A s \in 0..T - 1 : Entry(s)' = Entry(s) /\ Entry(s) # e
      /\ Entry(T)' = e
  BY <1>0, InsertedEntries
<1>3. Spare' = mm - 2 - T
  BY <1>0, <1>1, <1>2 DEF Spare
<1>4. /\ f \in [0..n -> 1..m] /\ f[0] = free /\ f[n] = m
      /\ \A i \in 0..n - 1 : /\ f[i] < m /\ ids[f[i]] = 0 - f[i + 1]
                             /\ \A s \in 0..T - 1 : tid[Entry(s)] # f[i]
      /\ \A i, j \in 0..n : f[i] = f[j] => i = j
      /\ \A k \in 1..m - 1 : \/ \E s \in 0..T - 1 : tid[Entry(s)] = k
                             \/ \E i \in 0..n - 1 : f[i] = k
  BY <1>0 DEF FreeList
<1>5. \A k \in 0..m - 1 : ids'[k] = ids[k]
  BY <1>0, InsertedIds
<1>6. \A s \in 0..T - 1 : Entry(s) \in Entries /\ tid[Entry(s)] \in 1..m - 1
  BY <1>0 DEF Slotted
<1>7. tid'[e] = free /\ \A d \in Entries : d # e => tid'[d] = tid[d]
  BY <1>2 DEF TypeOK
<1>8. \A s \in 0..T - 1 : tid'[Entry(s)'] = tid[Entry(s)]
  BY <1>2, <1>6, <1>7
<1>9. \A s \in 0..T : s # T => s \in 0..T - 1
  BY <1>1
<1>10. \/ mm = m
       \/ mm = 2 * m /\ \A i \in m..mm - 1 : ids'[i] = 0 - (i + 1)
  <2>1. CASE Full
    <3>1. mm = 2 * m /\ ids' = Chained(ids, m, mm)
      BY <1>0, <2>1, InsertedEntries
    <3>2. ASSUME NEW i \in m..mm - 1
          PROVE  ids'[i] = 0 - (i + 1)
      <4>1. i \in Slots /\ m <= i /\ i < mm /\ i \in Nat
        BY <1>1 DEF Slots
      <4>2. ids'[i] = -(i + 1)
        BY <3>1, <4>1 DEF Chained
      <4>3. QED
        BY <4>1, <4>2
    <3>3. QED
      BY <3>1, <3>2
  <2>2. CASE ~Full
    BY <1>0, <2>2, InsertedEntries
  <2>3. QED
    BY <2>1, <2>2
\* The last index of the new list.
<1>11. PICK z : z = mm - 2 - T
  OBVIOUS
<1>12. z \in Nat /\ z >= n - 1 /\ z - (n - 1) = mm - m /\ z > 0
  BY <1>1, <1>11
<1> DEFINE g == [i \in 0..z |-> IF i < n THEN f[i + 1] ELSE m + (i + 1 - n)]
<1>13. \A i \in 0..z : /\ i < n => g[i] = f[i + 1] /\ i + 1 \in 0..n
                       /\ i >= n => g[i] = m + (i + 1 - n) /\ g[i] \in m + 1..mm
  BY <1>1, <1>12
<1>14. /\ g \in [0..z -> 1..mm] /\ g[0] = f[1] /\ g[z] = mm
  <2>1. \A i \in 0..z : g[i] \in 1..mm
    <3>1. SUFFICES ASSUME NEW i \in 0..z
                   PROVE  g[i] \in 1..mm
      OBVIOUS
    <3>2. CASE i < n
      <4>1. g[i] \in 1..m
        BY <3>2, <1>4, <1>13
      <4>2. QED
        BY <4>1, <1>1
    <3>3. CASE ~(i < n)
      <4>1. g[i] \in m + 1..mm
        BY <3>3, <1>1, <1>12, <1>13
      <4>2. QED
        BY <4>1, <1>1
    <3>4. QED
      BY <3>2, <3>3
  <2>2. g[0] = f[1]
    BY <1>1, <1>12
  <2>3. g[z] = mm
    <3>1. CASE z < n
      <4>1. z = n - 1 /\ mm = m
        BY <3>1, <1>1, <1>12
      <4>2. QED
        BY <3>1, <4>1, <1>1, <1>4, <1>12, <1>13
    <3>2. CASE ~(z < n)
      BY <3>2, <1>1, <1>12, <1>13
    <3>3. QED
      BY <3>1, <3>2
  <2>4. QED
    BY <2>1, <2>2, <2>3
<1> HIDE DEF g
<1>15. ASSUME NEW i \in 0..z - 1
       PROVE  /\ g[i] < mm /\ ids'[g[i]] = 0 - g[i + 1]
              /\ \A s \in 0..T : tid'[Entry(s)'] # g[i]
  <2>1. i \in Nat /\ i \in 0..z /\ i + 1 \in 0..z
    BY <1>12
  <2>2. CASE i + 1 < n
    <3>1. PICK k : k = i + 1
      OBVIOUS
    <3>2. k \in 0..n - 1 /\ k \in 0..n /\ k # 0 /\ 0 \in 0..n /\ k + 1 \in 0..n
      BY <2>1, <2>2, <3>1, <1>1
    <3>3. g[i] = f[k] /\ g[i + 1] = f[k + 1]
      BY <2>1, <2>2, <3>1, <1>1, <1>13
    <3>4. f[k] < m /\ ids[f[k]] = 0 - f[k + 1] /\ f[k] \in 1..m /\ f[k] # f[0]
      BY <3>2, <1>4
    <3>5. f[k] \in 0..m - 1 /\ f[k] < mm
      BY <3>4, <1>1
    <3>6. ids'[f[k]] = ids[f[k]]
      BY <3>5, <1>5
    <3>7. \A s \in 0..T - 1 : tid[Entry(s)] # f[k]
      BY <3>2, <1>4
    <3>8. \A s \in 0..T : tid'[Entry(s)'] # f[k]
      BY <3>4, <3>7, <1>2, <1>4, <1>7, <1>8, <1>9
    <3>9. QED
      BY <3>3, <3>4, <3>5, <3>6, <3>8
  <2>3. CASE ~(i + 1 < n)
    <3>1. z > n - 1 /\ mm # m
      BY <2>1, <2>3, <1>1, <1>12
    <3>2. \A k \in m..mm - 1 : ids'[k] = 0 - (k + 1)
      BY <3>1, <1>10
    <3>3. PICK k : k = m + (i + 1 - n)
      OBVIOUS
    <3>4. k \in m..mm - 1 /\ k \in Nat /\ k >= m
      BY <2>1, <2>3, <3>3, <1>1, <1>12
    <3>5. g[i] = k
      <4>1. CASE i < n
        <5>1. i = n - 1 /\ k = m
          BY <2>1, <2>3, <3>3, <4>1, <1>1
        <5>2. g[i] = f[n]
          BY <2>1, <4>1, <5>1, <1>1, <1>13
        <5>3. QED
          BY <5>1, <5>2, <1>4
      <4>2. CASE ~(i < n)
        BY <2>1, <3>3, <4>2, <1>1, <1>13
      <4>3. QED
        BY <4>1, <4>2
    <3>6. g[i + 1] = k + 1
      <4>1. i + 1 >= n /\ m + (i + 1 + 1 - n) = k + 1
        BY <2>1, <2>3, <3>3, <1>1
      <4>2. QED
        BY <2>1, <4>1, <1>13
    <3>7. \A s \in 0..T : tid'[Entry(s)'] < m
      <4>1. free < m
        BY <1>1, <1>4
      <4>2. \A s \in 0..T - 1 : tid[Entry(s)] < m
        BY <1>1, <1>6
      <4>3. QED
        BY <4>1, <4>2, <1>2, <1>7, <1>8, <1>9
    <3>8. \A s \in 0..T : tid'[Entry(s)'] # k
      BY <3>4, <3>7, <1>1
    <3>9. QED
      BY <3>2, <3>4, <3>5, <3>6, <3>8, <1>1
  <2>4. QED
    BY <2>2, <2>3
<1>16. ASSUME NEW i \in 0..z, NEW j \in 0..z, g[i] = g[j]
       PROVE  i = j
  <2>1. i \in Nat /\ j \in Nat
    BY <1>12
  <2>2. CASE i < n /\ j < n
    <3>1. f[i + 1] = f[j + 1] /\ i + 1 \in 0..n /\ j + 1 \in 0..n
      BY <2>2, <1>13, <1>16
    <3>2. i + 1 = j + 1
      BY <3>1, <1>4
    <3>3. QED
      BY <3>2, <2>1
  <2>3. CASE i < n /\ ~(j < n)
    <3>1. g[i] \in 1..m /\ g[j] \in m + 1..mm
      BY <2>1, <2>3, <1>1, <1>4, <1>13
    <3>2. QED
      BY <3>1, <1>1, <1>16
  <2>4. CASE ~(i < n) /\ j < n
    <3>1. g[j] \in 1..m /\ g[i] \in m + 1..mm
      BY <2>1, <2>4, <1>1, <1>4, <1>13
    <3>2. QED
      BY <3>1, <1>1, <1>16
  <2>5. CASE ~(i < n) /\ ~(j < n)
    BY <2>1, <2>5, <1>1, <1>13, <1>16
  <2>6. QED
    BY <2>2, <2>3, <2>4, <2>5
<1>17. ASSUME NEW k \in 1..mm - 1
       PROVE  \/ \E s \in 0..T : tid'[Entry(s)'] = k
              \/ \E i \in 0..z - 1 : g[i] = k
  <2>1. k \in Nat /\ k < mm /\ k >= 1
    BY <1>1
  <2>2. CASE k < m
    <3>1. k \in 1..m - 1
      BY <2>1, <2>2, <1>1
    <3>2. CASE \E s \in 0..T - 1 : tid[Entry(s)] = k
      <4>1. PICK s \in 0..T - 1 : tid[Entry(s)] = k
        BY <3>2
      <4>2. s \in 0..T
        BY <1>1
      <4>3. QED
        BY <4>1, <4>2, <1>8
    <3>3. CASE \E i \in 0..n - 1 : f[i] = k
      <4>1. PICK i \in 0..n - 1 : f[i] = k
        BY <3>3
      <4>2. CASE i = 0
        <5>1. T \in 0..T /\ tid'[Entry(T)'] = k
          BY <4>1, <4>2, <1>1, <1>2, <1>4, <1>7
        <5>2. QED
          BY <5>1
      <4>3. CASE i # 0
        <5>1. i - 1 \in 0..z - 1 /\ i - 1 \in 0..z /\ i - 1 < n
          BY <4>3, <1>1, <1>12
        <5>2. g[i - 1] = f[i]
          BY <5>1, <1>1, <1>13
        <5>3. QED
          BY <4>1, <5>1, <5>2
      <4>4. QED
        BY <4>2, <4>3
    <3>4. QED
      BY <3>1, <3>2, <3>3, <1>4
  <2>3. CASE ~(k < m)
    <3>1. PICK i : i = k - m + n - 1
      OBVIOUS
    <3>2. i \in 0..z - 1 /\ i \in 0..z /\ i \in Nat /\ i >= n - 1 /\ m + (i + 1 - n) = k
      BY <2>1, <2>3, <3>1, <1>1, <1>12
    <3>3. g[i] = k
      <4>1. CASE i < n
        <5>1. i = n - 1 /\ k = m
          BY <3>2, <4>1, <1>1, <2>1
        <5>2. g[i] = f[n]
          BY <3>2, <4>1, <5>1, <1>1, <1>13
        <5>3. QED
          BY <5>1, <5>2, <1>4
      <4>2. CASE ~(i < n)
        BY <3>2, <4>2, <1>1, <1>13
      <4>3. QED
        BY <4>1, <4>2
    <3>4. QED
      BY <3>2, <3>3
  <2>4. QED
    BY <2>2, <2>3
<1>18. Top' - 1 = T /\ Spare' = z /\ max' = mm
  BY <1>0, <1>1, <1>2, <1>3, <1>11
<1>19. FreeList(g)'
  BY <1>2, <1>14, <1>15, <1>16, <1>17, <1>18 DEF FreeList
<1>20. QED
  BY <1>19


\* schedule_entry keeps the array, the ids, the order and the free list.
LEMMA InsertKept ==
    ASSUME Kept, Waiting, NEW c \in Callers, Insert(c)
    PROVE  Kept'
<1>1. TypeOK /\ Shape /\ Slotted /\ Ordered
  BY DEF Kept
<1>2. PICK f : FreeList(f)
  BY DEF Kept
<1>3. \E g : FreeList(g)'
  BY <1>1, <1>2, InsertedList
<1>4. TypeOK' /\ Shape' /\ Slotted' /\ Ordered'
  BY <1>1, <1>2, InsertedTypes, InsertedShape, InsertedSlotted, InsertedOrdered
<1>5. QED
  BY <1>3, <1>4 DEF Kept

-----------------------------------------------------------------------------
(* The steps *)

\* A step that leaves the arrays leaves what is said of them.
LEMMA ArraysSame ==
    ASSUME Kept, UNCHANGED arrays
    PROVE  ArrayTypes' /\ Shape' /\ Slotted' /\ Ordered' /\ \E f : FreeList(f)'
<1>1. UNCHANGED <<heap, ids, free, cur, max, tid, when, op>>
  BY DEF arrays
<1>2. /\ \A s : Entry(s)' = Entry(s) /\ Hole(s)' = Hole(s) /\ Early(s)' = Early(s)
      /\ Top' = Top
  BY <1>1 DEF Entry, Hole, Early, Top
<1>3. ArrayTypes'
  BY <1>1 DEF Kept, TypeOK, ArrayTypes
<1>4. Shape'
  BY <1>1, <1>2 DEF Kept, Shape
<1>5. Slotted'
  BY <1>1, <1>2 DEF Kept, Slotted
<1>6. Ordered'
  <2>1. ASSUME NEW s \in 1..Top - 1
        PROVE  /\ ~Early(s)' => when'[Entry(Parent(s))'] <= when'[Entry(s)']
               /\ op'.kind # "none" /\ Parent(s) = op'.hole /\ op'.hole > 0
                  => when'[Entry(Parent(op.hole))'] <= when'[Entry(s)']
    <3>1. /\ ~Early(s) => when[Entry(Parent(s))] <= when[Entry(s)]
          /\ op.kind # "none" /\ Parent(s) = op.hole /\ op.hole > 0
             => when[Entry(Parent(op.hole))] <= when[Entry(s)]
      BY DEF Kept, Ordered
    <3>2. Entry(Parent(op.hole))' = Entry(Parent(op.hole))
      BY <1>1 DEF Entry
    <3>3. QED
      BY <3>1, <3>2, <1>1, <1>2
  <2>2. QED
    BY <2>1, <1>1, <1>2 DEF Ordered
<1>7. \E f : FreeList(f)'
  <2>1. PICK f : FreeList(f)
    BY DEF Kept
  <2>2. Spare' = Spare
    BY <1>1, <1>2 DEF Spare
  <2>3. FreeList(f)'
    BY <2>1, <2>2, <1>1, <1>2 DEF FreeList
  <2>4. QED
    BY <2>3
<1>8. QED
  BY <1>3, <1>4, <1>5, <1>6, <1>7

\* What the threads hold has its type.
ThreadTypes ==
    /\ call \in [Callers -> [pc : {"idle", "insert"}, entry : Entries \cup {None},
                             time : 0..MaxTime]]
    /\ poll \in [Pollers -> [pc : {"resting", "polling", "expired"},
                             entry : Entries \cup {None},
                             now : 0..MaxTime, count : 0..MaxPoll]]
    /\ clock \in 0..MaxTime
    /\ failed \in BOOLEAN

\* The types of the arrays and of the threads are all there is to TypeOK.
LEMMA TypesNext == ASSUME ArrayTypes', ThreadTypes' PROVE TypeOK'
BY DEF TypeOK, ArrayTypes, ThreadTypes

\* The clock only goes on, so no poll is ahead of it.
LEMMA TickStep ==
    ASSUME IInv, Tick
    PROVE  IInv'
<1>1. /\ UNCHANGED arrays /\ UNCHANGED <<call, poll, failed, tid>>
      /\ clock' = clock + 1 /\ clock < MaxTime
  BY DEF Tick, arrays
<1>2. TypeOK /\ MaxTime \in Nat /\ clock \in 0..MaxTime
  BY SizesAssumption DEF IInv, Kept, TypeOK
<1>3. ThreadTypes'
  BY <1>1, <1>2 DEF ThreadTypes, TypeOK
<1>4. Kept'
  <2>1. ArrayTypes' /\ Shape' /\ Slotted' /\ Ordered' /\ \E f : FreeList(f)'
    BY <1>1, ArraysSame DEF IInv
  <2>2. QED
    BY <2>1, <1>3, TypesNext DEF Kept
<1>5. Waiting'
  BY <1>1 DEF IInv, Waiting
<1>6. Polled'
  <2>1. \A p \in Pollers : poll[p].now \in 0..MaxTime
    BY <1>2 DEF TypeOK
  <2>2. ASSUME NEW p \in Pollers
        PROVE  poll[p].now <= clock + 1
    <3>1. poll[p].now <= clock
      BY DEF IInv, Polled
    <3>2. QED
      BY <3>1, <2>1, <1>2
  <2>3. QED
    BY <2>2, <1>1 DEF IInv, Polled
<1>7. QED
  BY <1>1, <1>4, <1>5, <1>6 DEF IInv

\* The loops keep the invariant.
LEMMA ReheapStep ==
    ASSUME IInv, ReheapUp \/ ReheapDown
    PROVE  IInv'
<1>1. UNCHANGED <<call, poll, clock, failed, tid>>
  BY DEF ReheapUp, ReheapDown, Swap, Settle
<1>2. Kept'
  BY ReheapUpKept, ReheapDownKept DEF IInv
<1>3. Waiting' /\ Polled'
  BY <1>1 DEF IInv, Waiting, Polled
<1>4. QED
  BY <1>1, <1>2, <1>3 DEF IInv

\* An entry about to be inserted is in no other caller's hands.
LEMMA ScheduleStep ==
    ASSUME IInv, NEW c \in Callers, NEW e \in Entries, NEW d \in 0..MaxTime,
           Schedule(c, e, d)
    PROVE  IInv'
<1>1. /\ call[c] = Idle /\ (\A b \in Callers : call[b].entry # e) /\ tid[e] < 1
      /\ clock + d <= MaxTime
      /\ call' = [call EXCEPT ![c] = [pc |-> "insert", entry |-> e, time |-> clock + d]]
      /\ UNCHANGED arrays /\ UNCHANGED <<poll, clock, failed, tid>>
  BY DEF Schedule, arrays
<1>2. TypeOK /\ MaxTime \in Nat /\ clock \in 0..MaxTime
  BY SizesAssumption DEF IInv, Kept, TypeOK
<1>3. call' \in [Callers -> [pc : {"idle", "insert"}, entry : Entries \cup {None},
                             time : 0..MaxTime]]
  <2>1. clock + d \in 0..MaxTime
    BY <1>1, <1>2
  <2>2. [pc |-> "insert", entry |-> e, time |-> clock + d]
            \in [pc : {"idle", "insert"}, entry : Entries \cup {None}, time : 0..MaxTime]
    BY <2>1
  <2>3. QED
    BY <2>2, <1>1, <1>2 DEF TypeOK
<1>4. Kept'
  <2>1. ThreadTypes'
    BY <1>1, <1>2, <1>3 DEF TypeOK, ThreadTypes
  <2>2. ArrayTypes' /\ Shape' /\ Slotted' /\ Ordered' /\ \E f : FreeList(f)'
    BY <1>1, ArraysSame DEF IInv
  <2>3. QED
    BY <2>1, <2>2, TypesNext DEF Kept
<1>5. Waiting'
  <2>1. \A b \in Callers : call'[b] = IF b = c
            THEN [pc |-> "insert", entry |-> e, time |-> clock + d] ELSE call[b]
    BY <1>1, <1>2 DEF TypeOK
  <2>2. ASSUME NEW a \in Callers
        PROVE  IF call'[a].pc = "idle" THEN call'[a] = Idle
               ELSE /\ call'[a].entry \in Entries /\ tid'[call'[a].entry] < 1
                    /\ \A b \in Callers \ {a} : call'[b].entry # call'[a].entry
    <3>1. IF call[a].pc = "idle" THEN call[a] = Idle
          ELSE /\ call[a].entry \in Entries /\ tid[call[a].entry] < 1
               /\ \A b \in Callers \ {a} : call[b].entry # call[a].entry
      BY DEF IInv, Waiting
    <3>2. CASE a = c
      BY <3>2, <2>1, <1>1
    <3>3. CASE a # c
      <4>1. call'[a] = call[a] /\ call[a].entry # e /\ call'[c].entry = e
        BY <3>3, <2>1, <1>1
      <4>2. \A b \in Callers \ {a} : call'[b].entry \in {e, call[b].entry}
        BY <2>1
      <4>3. QED
        BY <3>1, <4>1, <4>2, <1>1
    <3>4. QED
      BY <3>2, <3>3
  <2>3. QED
    BY <2>2 DEF Waiting
<1>6. Polled'
  BY <1>1 DEF IInv, Polled
<1>7. QED
  BY <1>1, <1>4, <1>5, <1>6 DEF IInv

\* The entry is in the heap, and its caller free for another.
LEMMA InsertStep ==
    ASSUME IInv, NEW c \in Callers, Insert(c)
    PROVE  IInv'
<1>1. PICK e : e = call[c].entry
  OBVIOUS
<1>2. /\ call[c].pc = "insert" /\ tid' = [tid EXCEPT ![e] = free]
      /\ call' = [call EXCEPT ![c] = Idle] /\ UNCHANGED <<poll, clock, failed>>
  BY <1>1 DEF Insert
<1>3. Kept'
  BY InsertKept DEF IInv
<1>4. TypeOK
  BY DEF IInv, Kept
<1>5. \A b \in Callers : call'[b] = IF b = c THEN Idle ELSE call[b]
  BY <1>2, <1>4 DEF TypeOK
<1>6. ASSUME NEW a \in Callers
      PROVE  IF call'[a].pc = "idle" THEN call'[a] = Idle
             ELSE /\ call'[a].entry \in Entries /\ tid'[call'[a].entry] < 1
                  /\ \A b \in Callers \ {a} : call'[b].entry # call'[a].entry
  <2>1. CASE a = c
    BY <2>1, <1>5 DEF Idle
  <2>2. CASE a # c /\ call[a].pc = "idle"
    BY <2>2, <1>5 DEF IInv, Waiting
  <2>3. CASE a # c /\ call[a].pc # "idle"
    <3>1. /\ call[a].entry \in Entries /\ tid[call[a].entry] < 1
          /\ \A b \in Callers \ {a} : call[b].entry # call[a].entry
      BY <2>3 DEF IInv, Waiting
    <3>2. call[a].entry # e
      BY <2>3, <3>1, <1>1
    <3>3. tid'[call[a].entry] = tid[call[a].entry]
      BY <3>1, <3>2, <1>2, <1>4 DEF TypeOK
    <3>4. call[a].entry # None
      BY <3>1, NoneAssumption
    <3>5. \A b \in Callers \ {a} : call'[b].entry # call'[a].entry
      BY <2>3, <3>1, <3>4, <1>5 DEF Idle
    <3>6. call'[a] = call[a]
      BY <2>3, <1>5
    <3>7. QED
      BY <2>3, <3>1, <3>3, <3>5, <3>6
  <2>4. QED
    BY <2>1, <2>2, <2>3
<1>7. Polled'
  BY <1>2 DEF IInv, Polled
<1>8. QED
  BY <1>2, <1>3, <1>6, <1>7 DEF IInv, Waiting


\* The id of an entry that cancel finds leads to the entry: an entry whose id is
\* 0, as one that was zeroed, is not found, for id 0 is never given out.
LEMMA Found ==
    ASSUME Kept, Unlocked, NEW e \in Entries, tid[e] >= 0, ids[tid[e]] >= 0
    PROVE  ids[tid[e]] \in 0..Top - 1 /\ heap[ids[tid[e]]] = e /\ tid[e] > 0
<1>1. TypeOK /\ Shape /\ Slotted
  BY DEF Kept
<1>2. tid[e] \in Int /\ ids[0] < 0
  BY <1>1, CapacityAssumption, SizesAssumption DEF TypeOK, Slots, Slotted
<1>3. tid[e] # 0
  <2>1. 0 \in Slots
    BY CapacityAssumption, SizesAssumption DEF Slots
  <2>2. ids[0] \in Int
    BY <1>1, <2>1, CapacityAssumption, SizesAssumption DEF TypeOK
  <2>3. QED
    BY <2>2, <1>2
<1>4. tid[e] > 0
  BY <1>2, <1>3
<1>5. PICK s \in 0..Top - 1 : Entry(s) = e
  BY <1>1, <1>4 DEF Slotted
<1>6. heap[s] = e /\ ids[tid[e]] = s
  BY <1>1, <1>5, AtRest DEF Slotted
<1>7. QED
  BY <1>4, <1>6

\* A removal takes the id from the entry in the slot, and from no other.
LEMMA RemovedTid ==
    ASSUME Kept, Unlocked, NEW slot \in 0..Top - 1, RemoveNode(slot)
    PROVE  /\ heap[slot] \in Entries /\ tid[heap[slot]] > 0
           /\ tid' = [tid EXCEPT ![heap[slot]] = -1]
<1>1. TypeOK /\ Shape /\ Slotted
  BY DEF Kept
<1>2. Entry(slot) = heap[slot]
  BY <1>1, AtRest
<1>3. Entry(slot) \in Entries /\ tid[Entry(slot)] \in 1..max - 1 /\ max \in Nat
  BY <1>1, Room DEF Slotted
<1>4. QED
  BY <1>2, <1>3 DEF RemoveNode

\* A removal does not concern an entry about to be inserted.
LEMMA WaitingKept ==
    ASSUME TypeOK, Waiting, NEW e \in Entries, tid' = [tid EXCEPT ![e] = -1], call' = call
    PROVE  Waiting'
<1>1. ASSUME NEW c \in Callers, call[c].entry \in Entries, tid[call[c].entry] < 1
      PROVE  tid'[call[c].entry] < 1
  BY <1>1 DEF TypeOK
<1>2. QED
  BY <1>1 DEF Waiting

\* A cancelled entry is out of the heap; the assertion of cancel holds.
LEMMA CancelStep ==
    ASSUME IInv, NEW c \in Callers, NEW e \in Entries, Cancel(c, e)
    PROVE  /\ IInv'
           /\ tid[e] > 0 /\ tid' = [tid EXCEPT ![e] = -1] /\ when' = when
           /\ UNCHANGED <<poll, clock>>
<1>1. /\ Kept /\ TypeOK /\ Unlocked /\ tid[e] >= 0 /\ ids[tid[e]] >= 0
      /\ UNCHANGED <<call, poll, clock>>
  BY DEF IInv, Kept, Cancel
<1>2. PICK slot : slot = ids[tid[e]]
  OBVIOUS
<1>3. slot \in 0..Top - 1 /\ heap[slot] = e /\ tid[e] > 0
  BY <1>1, <1>2, Found
<1>4. RemoveNode(slot) /\ UNCHANGED failed
  BY <1>2, <1>3 DEF Cancel
<1>5. tid' = [tid EXCEPT ![e] = -1] /\ when' = when
  BY <1>1, <1>3, <1>4, RemovedTid DEF RemoveNode
<1>6. Kept'
  <2>1. ArrayTypes' /\ Shape' /\ Slotted' /\ Ordered' /\ \E f : FreeList(f)'
    BY <1>1, <1>3, <1>4, RemoveKept
  <2>2. ThreadTypes'
    BY <1>1, <1>4 DEF TypeOK, ThreadTypes
  <2>3. QED
    BY <2>1, <2>2, TypesNext DEF Kept
<1>7. Waiting'
  BY <1>1, <1>5, WaitingKept DEF IInv
<1>8. Polled' /\ ~failed'
  BY <1>1, <1>4 DEF IInv, Polled
<1>9. QED
  BY <1>1, <1>3, <1>5, <1>6, <1>7, <1>8 DEF IInv

\* What poll[p] may be.
Polls == [pc : {"resting", "polling", "expired"}, entry : Entries \cup {None},
          now : 0..MaxTime, count : 0..MaxPoll]

\* A step of a poller that leaves the array.
LEMMA PollerKept ==
    ASSUME IInv, NEW p \in Pollers, NEW r \in Polls, poll' = [poll EXCEPT ![p] = r],
           r.now <= clock, r.pc = "expired" <=> r.entry # None,
           UNCHANGED <<call, clock, failed>>, UNCHANGED arrays
    PROVE  IInv'
<1>1. TypeOK
  BY DEF IInv, Kept
<1>2. ThreadTypes'
  BY <1>1 DEF TypeOK, ThreadTypes, Polls
<1>3. Kept'
  <2>1. ArrayTypes' /\ Shape' /\ Slotted' /\ Ordered' /\ \E f : FreeList(f)'
    BY ArraysSame DEF IInv
  <2>2. QED
    BY <2>1, <1>2, TypesNext DEF Kept
<1>4. Waiting'
  BY DEF IInv, Waiting, arrays
<1>5. \A q \in Pollers : poll'[q] = IF q = p THEN r ELSE poll[q]
  BY <1>1 DEF TypeOK
<1>6. Polled'
  BY <1>5 DEF IInv, Polled
<1>7. QED
  BY <1>3, <1>4, <1>6 DEF IInv

\* A poll starts with the time of the clock.
LEMMA PollStartStep ==
    ASSUME IInv, NEW p \in Pollers, PollStart(p)
    PROVE  IInv'
<1>1. PICK r : r = [pc |-> "polling", entry |-> None, now |-> clock, count |-> 0]
  OBVIOUS
<1>2. clock \in 0..MaxTime /\ MaxTime \in Nat
  BY SizesAssumption DEF IInv, Kept, TypeOK
<1>3. r \in Polls
  BY <1>1, <1>2, SizesAssumption DEF Polls
<1>4. r.now <= clock /\ r.pc # "expired" /\ r.entry = None
  BY <1>1, <1>2
<1>5. poll' = [poll EXCEPT ![p] = r] /\ UNCHANGED <<call, clock, failed>> /\ UNCHANGED arrays
  BY <1>1 DEF PollStart
<1>6. QED
  BY <1>3, <1>4, <1>5, PollerKept

\* After the callback the poller holds no entry.
LEMMA CallbackStep ==
    ASSUME IInv, NEW p \in Pollers, Callback(p)
    PROVE  IInv'
<1>1. PICK r : r = [poll[p] EXCEPT !.pc = "polling", !.entry = None]
  OBVIOUS
<1>2. poll[p] \in Polls /\ poll[p].now <= clock
  BY DEF IInv, Kept, TypeOK, Polls, Polled
<1>3. r \in Polls /\ r.now = poll[p].now /\ r.pc # "expired" /\ r.entry = None
  BY <1>1, <1>2 DEF Polls
<1>4. poll' = [poll EXCEPT ![p] = r] /\ UNCHANGED <<call, clock, failed>> /\ UNCHANGED arrays
  BY <1>1 DEF Callback
<1>5. QED
  BY <1>2, <1>3, <1>4, PollerKept

\* A poll takes the root out, or ends.
LEMMA PollNextStep ==
    ASSUME IInv, NEW p \in Pollers, PollNext(p)
    PROVE  IInv'
<1>1. /\ Kept /\ TypeOK /\ Unlocked /\ poll[p].pc = "polling"
      /\ UNCHANGED <<call, clock, failed>>
  BY DEF IInv, Kept, PollNext
<1>2. /\ poll[p] \in Polls /\ poll[p].now <= clock /\ clock \in 0..MaxTime
      /\ MaxTime \in Nat /\ MaxPoll \in Nat
  BY SizesAssumption DEF IInv, Kept, TypeOK, Polls, Polled
<1>3. CASE cur # 0 /\ when[heap[0]] <= poll[p].now /\ poll[p].count < MaxPoll
  <2>1. PICK r : r = [poll[p] EXCEPT !.pc = "expired", !.entry = heap[0], !.count = @ + 1]
    OBVIOUS
  <2>2. poll' = [poll EXCEPT ![p] = r] /\ RemoveNode(0)
    BY <1>3, <2>1 DEF PollNext
  <2>3. 0 \in 0..Top - 1
    <3>1. Top = cur /\ cur \in Nat
      BY <1>1, AtRest DEF Kept
    <3>2. QED
      BY <3>1, <1>3
  <2>4. heap[0] \in Entries /\ heap[0] # None /\ tid' = [tid EXCEPT ![heap[0]] = -1]
    BY <1>1, <2>2, <2>3, RemovedTid, NoneAssumption
  <2>5. poll[p].count + 1 \in 0..MaxPoll
    BY <1>2, <1>3 DEF Polls
  <2>6. r \in Polls /\ r.now = poll[p].now /\ r.pc = "expired" /\ r.entry = heap[0]
    BY <1>2, <2>1, <2>4, <2>5 DEF Polls
  <2>7. ThreadTypes'
    BY <1>1, <2>2, <2>6 DEF TypeOK, ThreadTypes, Polls
  <2>8. Kept'
    <3>1. ArrayTypes' /\ Shape' /\ Slotted' /\ Ordered' /\ \E f : FreeList(f)'
      BY <1>1, <2>2, <2>3, RemoveKept
    <3>2. QED
      BY <3>1, <2>7, TypesNext DEF Kept
  <2>9. Waiting'
    BY <1>1, <2>4, WaitingKept DEF IInv
  <2>10. \A q \in Pollers : poll'[q] = IF q = p THEN r ELSE poll[q]
    BY <1>1, <2>2 DEF TypeOK
  <2>11. Polled'
    BY <1>1, <1>2, <2>4, <2>6, <2>10 DEF IInv, Polled
  <2>12. QED
    BY <1>1, <2>8, <2>9, <2>11 DEF IInv
<1>4. CASE ~(cur # 0 /\ when[heap[0]] <= poll[p].now /\ poll[p].count < MaxPoll)
  <2>1. poll' = [poll EXCEPT ![p] = Resting] /\ UNCHANGED arrays
    BY <1>4 DEF PollNext
  <2>2. Resting \in Polls /\ Resting.now <= clock /\ Resting.pc # "expired"
        /\ Resting.entry = None
    BY <1>2 DEF Resting, Polls
  <2>3. QED
    BY <1>1, <2>1, <2>2, PollerKept
<1>5. QED
  BY <1>3, <1>4


-----------------------------------------------------------------------------
(* The invariant *)

\* The heap that pj_timer_heap_create makes is empty, and every id but the first,
\* 0, is on the free list.
LEMMA InitInvariant ==
    ASSUME Init
    PROVE  IInv
<1>1. /\ Size \in Nat /\ Capacity \in Nat /\ Capacity >= Size + 2
      /\ MaxTime \in Nat /\ MaxPoll \in Nat
  BY SizesAssumption, CapacityAssumption
<1>2. /\ heap = [s \in Slots |-> None] /\ max = Size + 2 /\ free = 1 /\ cur = 0
      /\ tid \in [Entries -> {-1, 0}] /\ when = [e \in Entries |-> 0]
      /\ op = NoLoop /\ call = [c \in Callers |-> Idle]
      /\ poll = [p \in Pollers |-> Resting] /\ clock = 0 /\ failed = FALSE
  BY DEF Init
<1>3. /\ ids \in [Slots -> (0 - Capacity)..Capacity - 1]
      /\ \A n \in 0..Size + 1 : ids[n] = 0 - (n + 1)
  <2>1. ids = [i \in Slots |-> IF 0 <= i /\ i < Size + 2 THEN -(i + 1)
                               ELSE [j \in Slots |-> 0][i]]
    BY DEF Init, Chained
  <2>2. QED
    BY <2>1, <1>1 DEF Slots
<1>4. Top = 0 /\ Spare = Size + 1 /\ \A s : ~Hole(s) /\ ~Early(s)
  BY <1>1, <1>2 DEF Top, Spare, Hole, Early, NoLoop
<1>5. TypeOK
  <2>1. 0 \in Slots
    BY <1>1 DEF Slots
  <2>2. ArrayTypes
    <3>1. tid \in [Entries -> {-1} \cup Slots]
      BY <1>2, <2>1
    <3>2. op \in Loops
      BY <1>2, <2>1 DEF NoLoop, Loops
    <3>3. heap \in [Slots -> Entries \cup {None}] /\ when \in [Entries -> 0..MaxTime]
      BY <1>1, <1>2
    <3>4. free \in 1..Capacity /\ cur \in 0..Capacity - 1 /\ max \in 2..Capacity
      BY <1>1, <1>2
    <3>5. QED
      BY <1>3, <3>1, <3>2, <3>3, <3>4 DEF ArrayTypes
  <2>3. Idle \in [pc : {"idle", "insert"}, entry : Entries \cup {None}, time : 0..MaxTime]
    BY <1>1 DEF Idle
  <2>4. Resting \in Polls
    BY <1>1 DEF Resting, Polls
  <2>5. ThreadTypes
    <3>1. clock \in 0..MaxTime
      BY <1>1, <1>2
    <3>2. failed \in BOOLEAN
      BY <1>2
    <3>3. call \in [Callers -> [pc : {"idle", "insert"}, entry : Entries \cup {None},
                                time : 0..MaxTime]]
      BY <1>2, <2>3
    <3>4. poll \in [Pollers -> Polls]
      BY <1>2, <2>4
    <3>5. QED
      BY <3>1, <3>2, <3>3, <3>4 DEF ThreadTypes, Polls
  <2>6. QED
    BY <2>2, <2>5 DEF ArrayTypes, ThreadTypes, TypeOK
<1>6. Shape
  BY <1>1, <1>2, <1>4 DEF Shape, NoLoop
<1>7. Slotted
  <2>1. ids[0] = 0 - 1
    BY <1>1, <1>3
  <2>2. \A e \in Entries : ~(tid[e] > 0)
    BY <1>2
  <2>3. QED
    BY <2>1, <2>2, <1>4 DEF Slotted
<1>8. Ordered
  BY <1>4 DEF Ordered
<1>9. \E f : FreeList(f)
  <2> DEFINE f == [i \in 0..Size + 1 |-> i + 1]
  <2>1. f \in [0..Spare -> 1..max] /\ f[0] = free /\ f[Spare] = max
    BY <1>1, <1>2, <1>4
  <2>2. \A i \in 0..Spare - 1 : f[i] < max /\ ids[f[i]] = 0 - f[i + 1]
    BY <1>1, <1>2, <1>3, <1>4
  <2>3. \A i, j \in 0..Spare : f[i] = f[j] => i = j
    BY <1>1, <1>4
  <2>4. ASSUME NEW n \in 1..max - 1
        PROVE  \E i \in 0..Spare - 1 : f[i] = n
    <3>1. n - 1 \in 0..Spare - 1 /\ f[n - 1] = n
      BY <1>1, <1>2, <1>4
    <3>2. QED
      BY <3>1
  <2> HIDE DEF f
  <2>5. FreeList(f)
    BY <2>1, <2>2, <2>3, <2>4, <1>4 DEF FreeList
  <2>6. QED
    BY <2>5
<1>10. Waiting /\ Polled
  BY <1>1, <1>2 DEF Waiting, Polled, Idle, Resting
<1>11. QED
  BY <1>2, <1>5, <1>6, <1>7, <1>8, <1>9, <1>10 DEF IInv, Kept

\* Every step of every thread keeps the invariant.
LEMMA StepInvariant ==
    ASSUME IInv, [Next]_vars
    PROVE  IInv'
<1>1. CASE ReheapUp \/ ReheapDown
  BY <1>1, ReheapStep
<1>2. CASE Tick
  BY <1>2, TickStep
<1>3. ASSUME NEW c \in Callers, Insert(c)
      PROVE  IInv'
  BY <1>3, InsertStep
<1>4. ASSUME NEW c \in Callers, NEW e \in Entries, Cancel(c, e)
      PROVE  IInv'
  BY <1>4, CancelStep
<1>5. ASSUME NEW c \in Callers, NEW e \in Entries, NEW d \in 0..MaxTime, Schedule(c, e, d)
      PROVE  IInv'
  BY <1>5, ScheduleStep
<1>6. ASSUME NEW p \in Pollers, PollStart(p)
      PROVE  IInv'
  BY <1>6, PollStartStep
<1>7. ASSUME NEW p \in Pollers, PollNext(p)
      PROVE  IInv'
  BY <1>7, PollNextStep
<1>8. ASSUME NEW p \in Pollers, Callback(p)
      PROVE  IInv'
  BY <1>8, CallbackStep
<1>9. CASE UNCHANGED vars
  <2>1. UNCHANGED arrays /\ UNCHANGED <<call, poll, clock, failed>>
    BY <1>9 DEF vars
  <2>2. ThreadTypes'
    BY <2>1 DEF IInv, Kept, TypeOK, ThreadTypes
  <2>3. ArrayTypes' /\ Shape' /\ Slotted' /\ Ordered' /\ \E f : FreeList(f)'
    BY <2>1, ArraysSame DEF IInv
  <2>4. Kept'
    BY <2>2, <2>3, TypesNext DEF Kept
  <2>5. tid' = tid
    BY <2>1 DEF arrays
  <2>6. Waiting' /\ Polled'
    BY <2>1, <2>5 DEF IInv, Waiting, Polled
  <2>7. QED
    BY <2>1, <2>4, <2>6 DEF IInv
<1>10. QED
  BY <1>1, <1>2, <1>3, <1>4, <1>5, <1>6, <1>7, <1>8, <1>9 DEF Next

\* The invariant holds, for any number of entries and threads, any size of the
\* heap and any times.
THEOREM Invariant == Spec => []IInv
<1>1. Init => IInv
  BY InitInvariant
<1>2. IInv /\ [Next]_vars => IInv'
  BY StepInvariant
<1>3. QED
  BY <1>1, <1>2, PTL DEF Spec

\* pj_timer_heap stays inside its arrays: no id, slot or size leaves its range.
THEOREM TypeCorrect == Spec => []TypeOK
<1>1. IInv => TypeOK
  BY DEF IInv, Kept
<1>2. QED
  BY <1>1, Invariant, PTL

\* The assertion of cancel, that an id leads to the entry it belongs to, never
\* fails.
THEOREM CancelsOwnEntry == Spec => []CancelsItself
<1>1. IInv => CancelsItself
  BY DEF IInv, CancelsItself
<1>2. QED
  BY <1>1, Invariant, PTL

\* Whenever the lock is free no entry is earlier than its parent, so the root is
\* the earliest of all.
THEOREM OrderKept == Spec => []HeapOrdered
<1>1. ASSUME IInv
      PROVE  HeapOrdered
  <2>1. TypeOK /\ Shape /\ Slotted /\ Ordered
    BY <1>1 DEF IInv, Kept
  <2>2. SUFFICES ASSUME Unlocked, NEW s \in Slots \ {0}, Used(s)
                 PROVE  when[heap[Parent(s)]] <= when[heap[s]]
    BY DEF HeapOrdered
  <2>3. Top = cur /\ cur \in Nat /\ \A r : Entry(r) = heap[r] /\ ~Early(r)
    BY <2>1, <2>2, AtRest
  <2>4. s \in 1..Top - 1
    BY <2>2, <2>3, CapacityAssumption, SizesAssumption DEF Used, Slots
  <2>5. QED
    BY <2>1, <2>3, <2>4 DEF Ordered
<1>2. QED
  BY <1>1, Invariant, PTL

\* Whenever the lock is free the array and the table of ids agree: cancel finds an
\* entry exactly when it is scheduled.
THEOREM IdsLead == Spec => []IdsMatch
<1>1. ASSUME IInv
      PROVE  IdsMatch
  <2>1. TypeOK /\ Shape /\ Slotted
    BY <1>1 DEF IInv, Kept
  <2>2. SUFFICES ASSUME Unlocked
                 PROVE  /\ \A s \in Slots : Used(s) =>
                             heap[s] # None /\ tid[heap[s]] > 0 /\ ids[tid[heap[s]]] = s
                        /\ \A e \in Entries : tid[e] > 0 =>
                             Used(ids[tid[e]]) /\ heap[ids[tid[e]]] = e
    BY DEF IdsMatch
  <2>3. /\ Top = cur /\ cur \in Nat /\ \A r : Entry(r) = heap[r] /\ ~Hole(r)
        /\ max \in Nat /\ 0..Top - 1 \subseteq Slots
    BY <2>1, <2>2, AtRest, Room
  <2>4. ASSUME NEW s \in Slots, Used(s)
        PROVE  heap[s] # None /\ tid[heap[s]] > 0 /\ ids[tid[heap[s]]] = s
    <3>1. s \in 0..Top - 1
      BY <2>3, <2>4, CapacityAssumption, SizesAssumption DEF Used, Slots
    <3>2. heap[s] \in Entries /\ tid[heap[s]] \in 1..max - 1 /\ ids[tid[heap[s]]] = s
      BY <3>1, <2>1, <2>3 DEF Slotted
    <3>3. QED
      BY <3>2, <2>3, NoneAssumption
  <2>5. ASSUME NEW e \in Entries, tid[e] > 0
        PROVE  Used(ids[tid[e]]) /\ heap[ids[tid[e]]] = e
    <3>1. PICK s \in 0..Top - 1 : Entry(s) = e
      BY <2>1, <2>5 DEF Slotted
    <3>2. ids[tid[e]] = s /\ heap[s] = e
      BY <3>1, <2>1, <2>3 DEF Slotted
    <3>3. Used(s)
      BY <3>1, <2>3 DEF Used
    <3>4. QED
      BY <3>2, <3>3
  <2>6. QED
    BY <2>4, <2>5
<1>2. QED
  BY <1>1, Invariant, PTL


-----------------------------------------------------------------------------
(* The free list *)

\* Following the ids from free gives the free list, and then the end of the table.
LEMMA ListedIs ==
    ASSUME TypeOK, Shape, NEW f, FreeList(f)
    PROVE  \A i \in 0..Spare : Listed[i] = f[i]
<1>1. /\ Spare \in Nat /\ Spare <= Capacity /\ Capacity \in Nat /\ max \in Nat
  BY Room DEF Spare
<1>2. /\ f \in [0..Spare -> 1..max] /\ f[0] = free /\ f[Spare] = max
      /\ \A i \in 0..Spare - 1 : f[i] < max /\ ids[f[i]] = 0 - f[i + 1]
  BY DEF FreeList
<1>3. \A i \in 0..Spare : f[i] \in Nat
  BY <1>1, <1>2
<1> DEFINE L == [i \in 0..Capacity |-> IF i <= Spare THEN f[i] ELSE max]
           G(F) == [n \in 0..Capacity |->
                      IF n = 0 THEN free
                      ELSE LET i == F[n - 1] IN IF i < max THEN 0 - ids[i] ELSE max]
<1>4. \A i \in 0..Capacity : L[i] = IF i <= Spare THEN f[i] ELSE max
  OBVIOUS
<1> HIDE DEF L
<1>5. ASSUME NEW n \in 0..Capacity
      PROVE  L[n] = G(L)[n]
  <2>1. CASE n = 0
    BY <2>1, <1>1, <1>2, <1>4
  <2>2. CASE n # 0
    <3>1. PICK k : k = n - 1
      OBVIOUS
    <3>2. k \in 0..Capacity /\ n = k + 1 /\ k \in Nat
      BY <2>2, <3>1, <1>1
    <3>3. G(L)[n] = IF L[k] < max THEN 0 - ids[L[k]] ELSE max
      BY <2>2, <3>1
    <3>4. CASE k < Spare
      <4>1. k \in 0..Spare - 1 /\ k + 1 \in 0..Spare
        BY <3>2, <3>4, <1>1
      <4>2. L[k] = f[k] /\ L[n] = f[k + 1]
        BY <3>2, <3>4, <4>1, <1>1, <1>4
      <4>3. f[k] < max /\ 0 - ids[f[k]] = f[k + 1]
        BY <4>1, <1>2, <1>3
      <4>4. QED
        BY <3>3, <4>2, <4>3
    <3>5. CASE ~(k < Spare)
      <4>1. L[k] = max /\ L[n] = max
        BY <3>2, <3>5, <1>1, <1>2, <1>4
      <4>2. QED
        BY <3>3, <4>1, <1>1
    <3>6. QED
      BY <3>4, <3>5
  <2>3. QED
    BY <2>1, <2>2
<1>6. L = G(L)
  <2>1. L = [i \in 0..Capacity |-> L[i]]
    BY DEF L
  <2>2. QED
    BY <2>1, <1>5
<1>7. Listed = CHOOSE F : F = G(F)
  BY DEF Listed
<1>8. Listed = G(Listed)
  BY <1>6, <1>7
<1>9. \A n \in 0..Capacity :
        Listed[n] = IF n = 0 THEN free
                    ELSE IF Listed[n - 1] < max THEN 0 - ids[Listed[n - 1]] ELSE max
  BY <1>8
<1> HIDE DEF G
<1>10. SUFFICES ASSUME {i \in 0..Spare : Listed[i] # f[i]} # {}
                PROVE  FALSE
  OBVIOUS
<1>11. PICK b \in {i \in 0..Spare : Listed[i] # f[i]} :
              \A m \in {i \in 0..Spare : Listed[i] # f[i]} : b <= m
  <2>1. {i \in 0..Spare : Listed[i] # f[i]} \subseteq Nat
    BY <1>1
  <2>2. QED
    BY <2>1, <1>10, LeastNatural
<1>12. b \in 0..Capacity /\ b \in 0..Spare
  BY <1>1
<1>13. CASE b = 0
  <2>1. Listed[0] = free
    BY <1>9, <1>12, <1>13
  <2>2. QED
    BY <2>1, <1>2, <1>11, <1>13
<1>14. CASE b # 0
  <2>1. PICK k : k = b - 1
    OBVIOUS
  <2>2. k \in 0..Spare - 1 /\ k \in 0..Spare /\ k + 1 = b /\ ~(b <= k)
    BY <2>1, <1>1, <1>12, <1>14
  <2>3. Listed[k] = f[k]
    BY <2>2, <1>11
  <2>4. Listed[b] = IF f[k] < max THEN 0 - ids[f[k]] ELSE max
    BY <2>1, <2>3, <1>9, <1>12, <1>14
  <2>5. f[k] < max /\ ids[f[k]] = 0 - f[b] /\ f[b] \in Nat
    BY <2>2, <1>2, <1>3, <1>12
  <2>6. Listed[b] = f[b]
    BY <2>4, <2>5
  <2>7. QED
    BY <2>6, <1>11
<1>15. QED
  BY <1>13, <1>14


\* Between operations the ids not in use are those of the free list.
LEMMA UnusedIs ==
    ASSUME TypeOK, Shape, Slotted, Unlocked, NEW f, FreeList(f)
    PROVE  /\ Unused = {f[i] : i \in 0..Spare - 1}
           /\ Cardinality(Unused) = Spare
<1>1. /\ Spare \in Nat /\ max \in Nat /\ max <= Capacity /\ Capacity \in Nat
      /\ Top \in Nat
  BY Room DEF Spare
<1>2. /\ f \in [0..Spare -> 1..max] /\ f[0] = free /\ f[Spare] = max
      /\ \A i \in 0..Spare - 1 : f[i] < max /\ ids[f[i]] = 0 - f[i + 1]
      /\ \A i, j \in 0..Spare : f[i] = f[j] => i = j
      /\ \A n \in 1..max - 1 : \/ \E s \in 0..Top - 1 : tid[Entry(s)] = n
                               \/ \E i \in 0..Spare - 1 : f[i] = n
  BY DEF FreeList
<1>3. \A i \in 0..Spare - 1 : i \in 0..Spare /\ i + 1 \in 0..Spare
  BY <1>1
<1>4. ASSUME NEW i \in 0..Spare - 1
      PROVE  f[i] \in Unused
  <2>1. f[i] \in 1..max /\ f[i + 1] \in 1..max /\ f[i] < max /\ ids[f[i]] = 0 - f[i + 1]
    BY <1>2, <1>3
  <2>2. f[i] \in Slots /\ 0 < f[i] /\ ids[f[i]] < 0
    BY <2>1, <1>1 DEF Slots
  <2>3. QED
    BY <2>1, <2>2 DEF Unused
<1>5. ASSUME NEW n \in Unused
      PROVE  \E i \in 0..Spare - 1 : f[i] = n
  <2>1. n \in 1..max - 1 /\ ids[n] < 0
    BY <1>1 DEF Unused, Slots
  <2>2. ASSUME NEW s \in 0..Top - 1, tid[Entry(s)] = n
        PROVE  FALSE
    <3>1. ids[n] = s
      BY <2>2, AtRest DEF Slotted
    <3>2. QED
      BY <3>1, <2>1, <1>1
  <2>3. QED
    BY <2>1, <2>2, <1>2
<1>6. Unused = {f[i] : i \in 0..Spare - 1}
  BY <1>4, <1>5
<1> DEFINE g == [i \in 1..Spare |-> f[i - 1]]
<1>7. \A i \in 1..Spare : i - 1 \in 0..Spare - 1 /\ i - 1 \in 0..Spare
  BY <1>1
<1>8. \A i \in 0..Spare - 1 : i + 1 \in 1..Spare /\ i + 1 - 1 = i
  BY <1>1
<1>9. g \in [1..Spare -> Unused]
  BY <1>4, <1>7
<1>10. \A i, j \in 1..Spare : g[i] = g[j] => i = j
  BY <1>1, <1>2, <1>7
<1>11. \A n \in Unused : \E i \in 1..Spare : g[i] = n
  <2>1. SUFFICES ASSUME NEW n \in Unused
                 PROVE  \E i \in 1..Spare : g[i] = n
    OBVIOUS
  <2>2. PICK i \in 0..Spare - 1 : f[i] = n
    BY <1>5
  <2>3. g[i + 1] = n /\ i + 1 \in 1..Spare
    BY <2>2, <1>8
  <2>4. QED
    BY <2>3
<1> HIDE DEF g
<1>12. g \in Bijection(1..Spare, Unused)
  BY <1>9, <1>10, <1>11 DEF Bijection, Injection, IsInjective, Surjection
<1>13. Cardinality(Unused) = Spare
  BY <1>1, <1>12, FS_CountingElements DEF ExistsBijection
<1>14. QED
  BY <1>6, <1>13

\* No id is lost or given out twice, through any number of insertions, removals
\* and growths of the table: the free list leads over every unused id, once, and
\* to the place where the next growth goes on.
THEOREM NoIdLost == Spec => []FreeIdsKept
<1>1. ASSUME IInv
      PROVE  FreeIdsKept
  <2>1. TypeOK /\ Shape /\ Slotted
    BY <1>1 DEF IInv, Kept
  <2>2. PICK f : FreeList(f)
    BY <1>1 DEF IInv, Kept
  <2>3. SUFFICES ASSUME Unlocked
                 PROVE  LET n == Cardinality(Unused)
                        IN  /\ n > 0 /\ n + cur = max - 1
                            /\ {Listed[i] : i \in 0..n - 1} = Unused
                            /\ Listed[n] = max
    BY DEF FreeIdsKept
  <2>4. Cardinality(Unused) = Spare /\ Unused = {f[i] : i \in 0..Spare - 1}
    BY <2>1, <2>2, <2>3, UnusedIs
  <2>5. Spare \in Nat /\ Spare > 0
    BY <2>1, <2>2, FirstSpare
  <2>6. Spare + cur = max - 1
    <3>1. Top = cur /\ cur \in Nat /\ max \in Nat
      BY <2>1, <2>3, AtRest, Room
    <3>2. QED
      BY <3>1 DEF Spare
  <2>7. \A i \in 0..Spare : Listed[i] = f[i]
    BY <2>1, <2>2, ListedIs
  <2>8. {Listed[i] : i \in 0..Spare - 1} = Unused
    BY <2>4, <2>5, <2>7
  <2>9. Listed[Spare] = max
    BY <2>2, <2>5, <2>7 DEF FreeList
  <2>10. QED
    BY <2>4, <2>5, <2>6, <2>8, <2>9
<1>2. QED
  BY <1>1, Invariant, PTL

-----------------------------------------------------------------------------
(* The abstract specification *)

\* The entry at the root is the earliest.
LEMMA RootEarliest ==
    ASSUME TypeOK, Shape, Slotted, Ordered, Unlocked, NEW s \in 0..Top - 1
    PROVE  when[Entry(0)] <= when[Entry(s)]
<1>1. Top \in Nat /\ 0 \in 0..Top - 1
  BY Room
<1>2. \A r \in 0..Top - 1 : when[Entry(r)] \in Nat
  BY Times
<1> DEFINE Bad == {r \in 0..Top - 1 : ~(when[Entry(0)] <= when[Entry(r)])}
<1>3. SUFFICES ASSUME Bad # {}
               PROVE  FALSE
  OBVIOUS
<1>4. PICK b \in Bad : \A r \in Bad : b <= r
  <2>1. Bad \subseteq Nat
    BY <1>1
  <2>2. QED
    BY <2>1, <1>3, LeastNatural
<1>5. b \in 1..Top - 1
  BY <1>1, <1>2
<1>6. Parent(b) \in 0..Top - 1 /\ Parent(b) < b
  BY <1>5, ParentInUse
<1>7. when[Entry(0)] <= when[Entry(Parent(b))]
  <2>1. ~(b <= Parent(b))
    BY <1>1, <1>6
  <2>2. QED
    BY <2>1, <1>4, <1>6
<1>8. when[Entry(Parent(b))] <= when[Entry(b)]
  BY <1>5, AtRest DEF Ordered
<1>9. QED
  BY <1>1, <1>2, <1>5, <1>6, <1>7, <1>8


\* How the abstract state sees a step that leaves the timers.
LEMMA SetSame ==
    ASSUME UNCHANGED <<tid, when, clock>>,
           [p \in Pollers |-> poll[p].entry]' = [p \in Pollers |-> poll[p].entry]
    PROVE  UNCHANGED Set!setVars
BY DEF Set!setVars

\* Insert is Arm, Cancel is Disarm, a removal by a poll is Expire and a callback
\* is Called; every other step but Tick stutters.
LEMMA SetStep ==
    ASSUME IInv, [Next]_vars
    PROVE  [Set!SetNext]_(Set!setVars)
<1> DEFINE armed == {e \in Entries : tid[e] > 0}
           calling == [p \in Pollers |-> poll[p].entry]
<1>1. /\ Kept /\ TypeOK /\ Shape /\ Slotted /\ Ordered /\ Polled
      /\ tid \in [Entries -> {-1} \cup Slots]
      /\ \A p \in Pollers : poll[p] \in Polls /\ poll[p].now <= clock
      /\ poll \in [Pollers -> Polls]
      /\ clock \in Nat /\ \A p \in Pollers : poll[p].now \in Nat
  BY SizesAssumption DEF IInv, Kept, TypeOK, Polled, Polls
<1>2. CASE ReheapUp \/ ReheapDown
  BY <1>2, SetSame DEF ReheapUp, ReheapDown, Swap, Settle
<1>3. CASE Tick
  <2>1. Set!Tick
    BY <1>3 DEF Tick, arrays, Set!Tick
  <2>2. QED
    BY <2>1 DEF Set!SetNext
<1>4. ASSUME NEW c \in Callers, Insert(c)
      PROVE  [Set!SetNext]_(Set!setVars)
  <2>1. PICK e : e = call[c].entry
    OBVIOUS
  <2>2. PICK f : FreeList(f)
    BY <1>1 DEF Kept
  <2>3. /\ e \in Entries /\ tid[e] < 1 /\ tid' = [tid EXCEPT ![e] = free]
        /\ when' = [when EXCEPT ![e] = call[c].time]
    BY <1>1, <1>4, <2>1, <2>2, InsertedEntries DEF IInv
  <2>4. free \in Nat /\ free > 0
    <3>1. free \in 1..max - 1 /\ max \in Nat
      BY <1>1, <2>2, FirstSpare, Room
    <3>2. QED
      BY <3>1
  <2>5. e \notin armed
    <3>1. tid[e] \in Int
      BY <1>1, <2>3, CapacityAssumption, SizesAssumption DEF Slots
    <3>2. QED
      BY <2>3, <3>1
  <2>6. armed' = armed \cup {e}
    BY <1>1, <2>3, <2>4
  <2>7. when' \in [Entries -> Nat]
    <3>1. IInv'
      BY <1>4, InsertStep
    <3>2. when' \in [Entries -> 0..MaxTime]
      BY <3>1 DEF IInv, Kept, TypeOK
    <3>3. QED
      BY <3>2, SizesAssumption
  <2>8. \A d \in Entries \ {e} : when'[d] = when[d]
    BY <1>1, <2>3 DEF TypeOK
  <2>9. UNCHANGED <<calling, clock>>
    BY <1>4 DEF Insert
  <2>10. Set!Arm(e)
    BY <2>5, <2>6, <2>7, <2>8, <2>9 DEF Set!Arm
  <2>11. QED
    BY <2>3, <2>10 DEF Set!SetNext
<1>5. ASSUME NEW c \in Callers, NEW e \in Entries, Cancel(c, e)
      PROVE  [Set!SetNext]_(Set!setVars)
  <2>1. /\ tid[e] > 0 /\ tid' = [tid EXCEPT ![e] = -1] /\ when' = when
        /\ UNCHANGED <<poll, clock>>
    BY <1>5, CancelStep
  <2>2. e \in armed /\ armed' = armed \ {e}
    BY <1>1, <2>1
  <2>3. Set!Disarm(e)
    BY <2>1, <2>2 DEF Set!Disarm
  <2>4. QED
    BY <2>3 DEF Set!SetNext
<1>6. ASSUME NEW c \in Callers, NEW e \in Entries, NEW d \in 0..MaxTime, Schedule(c, e, d)
      PROVE  [Set!SetNext]_(Set!setVars)
  BY <1>6, SetSame DEF Schedule, arrays
<1>7. ASSUME NEW p \in Pollers, PollStart(p)
      PROVE  [Set!SetNext]_(Set!setVars)
  <2>1. poll[p].entry = None
    BY <1>1, <1>7 DEF PollStart, Polled
  <2>2. \A q \in Pollers : poll'[q].entry = poll[q].entry
    BY <1>1, <1>7, <2>1 DEF PollStart
  <2>3. UNCHANGED <<tid, when, clock>>
    BY <1>7 DEF PollStart, arrays
  <2>4. QED
    BY <2>2, <2>3, SetSame
<1>8. ASSUME NEW p \in Pollers, PollNext(p)
      PROVE  [Set!SetNext]_(Set!setVars)
  <2>1. /\ Unlocked /\ poll[p].pc = "polling" /\ poll[p].entry = None
        /\ UNCHANGED <<call, clock, failed>>
    BY <1>1, <1>8 DEF PollNext, Polled
  <2>2. CASE cur # 0 /\ when[heap[0]] <= poll[p].now /\ poll[p].count < MaxPoll
    <3>1. PICK e : e = heap[0]
      OBVIOUS
    <3>2. /\ RemoveNode(0)
          /\ poll' = [poll EXCEPT ![p] = [poll[p] EXCEPT !.pc = "expired", !.entry = e,
                                                         !.count = @ + 1]]
      BY <1>8, <2>2, <3>1 DEF PollNext
    <3>3. Top = cur /\ cur \in Nat /\ \A s : Entry(s) = heap[s]
      BY <1>1, <2>1, AtRest
    <3>4. 0 \in 0..Top - 1
      BY <2>2, <3>3
    <3>5. e \in Entries /\ tid[e] > 0 /\ tid' = [tid EXCEPT ![e] = -1]
      BY <1>1, <2>1, <3>1, <3>2, <3>4, RemovedTid
    <3>6. when' = when
      BY <3>2 DEF RemoveNode
    <3>7. e \in armed /\ armed' = armed \ {e}
      BY <1>1, <3>5
    <3>8. when[e] <= clock
      <4>1. when[e] \in Nat
        BY <1>1, <3>5, Times
      <4>2. QED
        BY <1>1, <2>2, <3>1, <4>1
    <3>9. \A d \in armed : when[e] <= when[d]
      <4>1. SUFFICES ASSUME NEW d \in armed
                     PROVE  when[e] <= when[d]
        OBVIOUS
      <4>2. PICK s \in 0..Top - 1 : Entry(s) = d
        BY <1>1 DEF Slotted
      <4>3. when[Entry(0)] <= when[Entry(s)]
        BY <1>1, <2>1, RootEarliest
      <4>4. QED
        BY <3>1, <3>3, <4>2, <4>3
    <3>10. calling' = [calling EXCEPT ![p] = e] /\ calling[p] = None
      <4>1. calling[p] = None
        BY <2>1
      <4>2. ASSUME NEW q \in Pollers
            PROVE  poll'[q].entry = IF q = p THEN e ELSE poll[q].entry
        BY <1>1, <3>2 DEF Polls
      <4>3. QED
        BY <4>1, <4>2
    <3>11. Set!Expire(p, e)
      BY <2>1, <3>6, <3>7, <3>8, <3>9, <3>10 DEF Set!Expire
    <3>12. QED
      BY <3>5, <3>11 DEF Set!SetNext
  <2>3. CASE ~(cur # 0 /\ when[heap[0]] <= poll[p].now /\ poll[p].count < MaxPoll)
    <3>1. poll' = [poll EXCEPT ![p] = Resting] /\ UNCHANGED <<tid, when, clock>>
      BY <1>8, <2>3 DEF PollNext, arrays
    <3>2. \A q \in Pollers : poll'[q].entry = poll[q].entry
      BY <1>1, <2>1, <3>1 DEF Resting
    <3>3. QED
      BY <3>1, <3>2, SetSame
  <2>4. QED
    BY <2>2, <2>3
<1>9. ASSUME NEW p \in Pollers, Callback(p)
      PROVE  [Set!SetNext]_(Set!setVars)
  <2>1. /\ poll[p].entry # None /\ UNCHANGED <<tid, when, clock>>
        /\ poll' = [poll EXCEPT ![p] = [poll[p] EXCEPT !.pc = "polling", !.entry = None]]
    BY <1>1, <1>9 DEF Callback, Polled, arrays
  <2>2. ASSUME NEW q \in Pollers
        PROVE  poll'[q].entry = IF q = p THEN None ELSE poll[q].entry
    BY <1>1, <2>1 DEF Polls
  <2>3. calling' = [calling EXCEPT ![p] = None] /\ calling[p] # None
    BY <2>1, <2>2
  <2>4. armed' = armed
    BY <2>1
  <2>5. Set!Called(p)
    BY <2>1, <2>3, <2>4 DEF Set!Called
  <2>6. QED
    BY <2>5 DEF Set!SetNext
<1>10. CASE UNCHANGED vars
  BY <1>10, SetSame DEF vars, arrays
<1>11. QED
  BY <1>2, <1>3, <1>4, <1>5, <1>6, <1>7, <1>8, <1>9, <1>10 DEF Next

\* What the heap does is what a set of timers does: a poll calls back an entry that
\* is due and that no scheduled entry precedes, and a cancelled entry is never
\* called back.
THEOREM TimerSetKept == Spec => KeepsTimerSet
<1>1. IInv /\ [Next]_vars => [Set!SetNext]_(Set!setVars)
  BY SetStep
<1>2. QED
  BY <1>1, Invariant, PTL DEF Spec, KeepsTimerSet

\* An empty heap is the empty set.
LEMMA SetStart ==
    ASSUME Init
    PROVE  Set!SetInit
<1>1. tid \in [Entries -> {-1, 0}] /\ poll = [p \in Pollers |-> Resting]
  BY DEF Init
<1>2. {e \in Entries : tid[e] > 0} = {}
  BY <1>1
<1>3. [p \in Pollers |-> poll[p].entry] = [p \in Pollers |-> None]
  BY <1>1 DEF Resting
<1>4. QED
  BY <1>2, <1>3 DEF Init, Set!SetInit

\* A heap that pj_timer_heap_create made implements TimerSet.
THEOREM Implements == Spec => Set!SetSpec
<1>1. Init => Set!SetInit
  BY SetStart
<1>2. QED
  BY <1>1, TimerSetKept, PTL DEF Spec, Set!SetSpec, KeepsTimerSet


=============================================================================
