---- MODULE SpscQueueProofs ----
(***************************************************************************)
(* Proofs about SpscQueue for every Size and every larger index range that *)
(* is a multiple of it: data-race freedom, object lifetimes and the        *)
(* refinement of BoundedFifo.                                              *)
(***************************************************************************)
EXTENDS SpscQueue, Integers, SequenceTheorems, TLAPS

-----------------------------------------------------------------------------
(* Arithmetic of indices and slots.                                        *)

\* Quotient and remainder.
LEMMA DivMod ==
  ASSUME NEW a \in Nat, NEW b \in Nat \ {0}
  PROVE  /\ a % b \in 0 .. (b - 1)
         /\ a \div b \in Nat
         /\ a = b * (a \div b) + (a % b)
OBVIOUS

\* A multiple of b that is less than b is not positive.
LEMMA SmallMultiple ==
  ASSUME NEW q \in Int, NEW b \in Nat \ {0}, q * b < b
  PROVE  q <= 0
OBVIOUS

\* Numbers less than b apart have different remainders.
LEMMA CloseNumbers ==
  ASSUME NEW b \in Nat \ {0}, NEW i \in Nat, NEW j \in Nat,
         i < j, j - i < b
  PROVE  i % b # j % b
<1> SUFFICES ASSUME i % b = j % b PROVE FALSE
  OBVIOUS
<1> DEFINE qi == i \div b
           qj == j \div b
<1>1. /\ qi \in Nat /\ qj \in Nat
      /\ i = b * qi + (i % b) /\ j = b * qj + (j % b)
  BY DivMod
<1> HIDE DEF qi, qj
<1>2. j - i = (qj - qi) * b
  BY <1>1
<1>3. qj - qi <= 0
  BY <1>1, <1>2, SmallMultiple
<1> QED
  BY <1>1, <1>2, <1>3

\* Two numbers of the same residue class less than b apart are equal.
LEMMA SameResidue ==
  ASSUME NEW b \in Nat \ {0}, NEW r \in 0 .. (b - 1), NEW t \in 0 .. (b - 1),
         NEW p \in Int, NEW q \in Int, b * p + r = b * q + t
  PROVE  r = t
<1>1. (q - p) * b = r - t /\ (p - q) * b = t - r
  OBVIOUS
<1>2. q - p <= 0
  BY <1>1, SmallMultiple
<1>3. p - q <= 0
  BY <1>1, SmallMultiple
<1>4. p = q
  BY <1>2, <1>3
<1> QED
  BY <1>4

\* Adding a multiple of b does not change the remainder.
LEMMA ShiftedRemainder ==
  ASSUME NEW b \in Nat \ {0}, NEW m \in Nat, m % b = 0, NEW j \in Nat
  PROVE  (j + m) % b = j % b
<1> DEFINE n == j + m
           r == n % b
           t == j % b
           qn == n \div b
           qj == j \div b
           qm == m \div b
           qs == qj + qm
<1>1. n \in Nat
  OBVIOUS
<1>2. r \in 0 .. (b - 1) /\ n = b * qn + r /\ qn \in Nat
  BY <1>1, DivMod
<1>3. t \in 0 .. (b - 1) /\ j = b * qj + t /\ qj \in Nat
  BY DivMod
<1>4. m = b * qm /\ qm \in Nat
  BY DivMod
<1>5. n = j + m
  OBVIOUS
<1> HIDE DEF n, r, t, qn, qj, qm
<1>6. qs \in Int /\ b * qs = b * qj + b * qm
  BY <1>3, <1>4
<1> HIDE DEF qs
<1>7. b * qn + r = b * qs + t
  BY <1>2, <1>3, <1>4, <1>5, <1>6
<1>8. r = t
  <2>1. qn \in Int
    BY <1>2
  <2> QED
    BY ONLY b \in Nat \ {0}, <1>2, <1>3, <1>6, <1>7, <2>1, SameResidue, Zenon
<1> QED
  BY <1>8 DEF n, r, t

\* SlotOf yields slots.
LEMMA SlotOfType ==
  ASSUME NEW i \in Index
  PROVE  SlotOf(i) \in SlotSet
BY SizeAssumption, DivMod DEF SlotOf, SlotSet, Index

\* Two different indices less than Size apart, the wrap included, designate
\* different slots.
LEMMA SlotsDistinct ==
  ASSUME NEW i \in Index, NEW j \in Index, i # j, Sub(j, i) < Size
  PROVE  SlotOf(i) # SlotOf(j)
<1> USE SizeAssumption DEF Index
<1>1. CASE i < j
  BY <1>1, CloseNumbers DEF Sub, SlotOf
<1>2. CASE j < i
  <2> DEFINE n == j + IndexRange
  <2>1. n \in Nat /\ i < n /\ n - i < Size
    BY <1>2 DEF Sub
  <2>2. n % Size = j % Size
    <3>1. /\ Size \in Nat \ {0} /\ IndexRange \in Nat
          /\ IndexRange % Size = 0 /\ j \in Nat
      OBVIOUS
    <3> QED
      BY ONLY <3>1, ShiftedRemainder
  <2> HIDE DEF n
  <2>3. i % Size # n % Size
    <3>1. Size \in Nat \ {0} /\ i \in Nat
      OBVIOUS
    <3> QED
      BY ONLY <2>1, <3>1, CloseNumbers
  <2> QED
    BY <2>2, <2>3 DEF SlotOf
<1> QED
  BY <1>1, <1>2

-----------------------------------------------------------------------------
(* The inductive invariant.                                                *)

\* Every load is an acquire load of a release store, so what a side has seen
\* happens before its next step; a construction that is not published yet
\* holds push()'s argument; a destroyed queue is idle.
Synchronized ==
  /\ hb_read = seen_read /\ hb_write = seen_write
  /\ ppc # "idle" => pitem \in Items
  /\ ppc = "publish" => slots[SlotOf(write_index_)] = pitem
  /\ ~alive => ppc = "idle" /\ cpc = "idle"

IInv == TypeOK /\ CursorOrder /\ Synchronized /\ StorageLifetimes

\* The initial state satisfies the invariant.
LEMMA InitIInv == Init => IInv
<1> SUFFICES ASSUME Init PROVE IInv
  OBVIOUS
<1> USE SizeAssumption DEF Init, Index
<1>1. TypeOK
  BY DEF TypeOK
<1>2. CursorOrder
  BY DEF CursorOrder, Sub
<1>3. Synchronized
  BY DEF Synchronized
<1>4. StorageLifetimes
  BY DEF StorageLifetimes, Live, FirstLive, PastLive, Sub
<1> QED
  BY <1>1, <1>2, <1>3, <1>4 DEF IInv

\* Types are preserved by every step.
LEMMA NextTypeOK == ASSUME TypeOK, [Next]_vars PROVE TypeOK'
<1> USE SizeAssumption, SlotOfType DEF TypeOK, shared, producer, consumer
<1>1. \A i \in Index : Inc(i) \in Index
  BY DEF Index, Inc
<1>2. CASE \E read \in Index : PushFull(read) \/ \E item \in Items : PushBegin(item, read)
  BY <1>2 DEF PushFull, PushBegin, LoadReadIndex
<1>3. CASE PushConstruct
  BY <1>3 DEF PushConstruct, Constructed
<1>4. CASE PushPublish
  BY <1>1, <1>4 DEF PushPublish
<1>5. CASE \E write \in Index : PopEmpty(write) \/ PopBegin(write)
  BY <1>5 DEF PopEmpty, PopBegin, LoadWriteIndex
<1>6. CASE PopMove
  BY <1>6 DEF PopMove, Moved
<1>7. CASE PopDestroy
  BY <1>7 DEF PopDestroy
<1>8. CASE PopRelease
  BY <1>1, <1>8 DEF PopRelease
<1>9. CASE Destruct
  BY <1>9 DEF Destruct
<1>10. CASE UNCHANGED vars
  BY <1>10 DEF vars
<1> QED
  BY <1>2, <1>3, <1>4, <1>5, <1>6, <1>7, <1>8, <1>9, <1>10 DEF Next, Push, Pop

\* The order of the indices is preserved by every step.
LEMMA NextCursorOrder ==
  ASSUME TypeOK, CursorOrder, [Next]_vars
  PROVE  CursorOrder'
<1> USE SizeAssumption DEF TypeOK, CursorOrder, shared, producer, consumer, Index
<1>1. ASSUME NEW read \in Index,
             PushFull(read) \/ \E item \in Items : PushBegin(item, read)
      PROVE  CursorOrder'
  BY <1>1 DEF PushFull, PushBegin, LoadReadIndex, Loadable, Full, Sub
<1>2. CASE PushConstruct
  BY <1>2 DEF PushConstruct, Sub
<1>3. CASE PushPublish
  BY <1>3 DEF PushPublish, Sub, Inc
<1>4. ASSUME NEW write \in Index, PopEmpty(write) \/ PopBegin(write)
      PROVE  CursorOrder'
  BY <1>4 DEF PopEmpty, PopBegin, LoadWriteIndex, Loadable, Sub
<1>5. CASE PopMove
  BY <1>5 DEF PopMove, Sub
<1>6. CASE PopDestroy
  BY <1>6 DEF PopDestroy, Sub
<1>7. CASE PopRelease
  BY <1>7 DEF PopRelease, Sub, Inc
<1>8. CASE Destruct
  BY <1>8 DEF Destruct, Sub
<1>9. CASE UNCHANGED vars
  BY <1>9 DEF vars, Sub
<1> QED
  BY <1>1, <1>2, <1>3, <1>4, <1>5, <1>6, <1>7, <1>8, <1>9 DEF Next, Push, Pop

\* Past its test, push() works on a slot that no unpopped item uses.
LEMMA WriteSlotUnused ==
  ASSUME TypeOK, CursorOrder, ppc # "idle",
         NEW i \in Index, Sub(i, read_index_) < Sub(write_index_, read_index_)
  PROVE  SlotOf(i) # SlotOf(write_index_)
<1>1. i # write_index_ /\ Sub(write_index_, i) < Size
  BY SizeAssumption DEF TypeOK, CursorOrder, Index, Sub
<1> QED
  BY <1>1, SlotsDistinct DEF TypeOK

\* Past its test, pop() works on a slot that no later item uses, the one
\* push() is working on included.
LEMMA ReadSlotUnshared ==
  ASSUME TypeOK, CursorOrder, cpc # "idle",
         NEW i \in Index, i # read_index_,
         \/ Sub(i, read_index_) < Sub(write_index_, read_index_)
         \/ ppc # "idle" /\ i = write_index_
  PROVE  SlotOf(read_index_) # SlotOf(i)
<1>1. Sub(i, read_index_) < Size
  BY SizeAssumption DEF TypeOK, CursorOrder, Index, Sub
<1> QED
  BY <1>1, SlotsDistinct DEF TypeOK

\* Synchronized is preserved by every step.
LEMMA NextSynchronized ==
  ASSUME TypeOK, CursorOrder, Synchronized, [Next]_vars
  PROVE  Synchronized'
<1> USE DEF Synchronized, shared, producer, consumer
<1>1. ASSUME NEW read \in Index,
             PushFull(read) \/ \E item \in Items : PushBegin(item, read)
      PROVE  Synchronized'
  BY <1>1 DEF PushFull, PushBegin, LoadReadIndex
<1>2. CASE PushConstruct
  BY <1>2, SlotOfType DEF PushConstruct, Constructed, TypeOK, CursorOrder
<1>3. CASE PushPublish
  BY <1>3 DEF PushPublish
<1>4. ASSUME NEW write \in Index, PopEmpty(write) \/ PopBegin(write)
      PROVE  Synchronized'
  BY <1>4 DEF PopEmpty, PopBegin, LoadWriteIndex
<1>5. CASE PopMove
  BY <1>5 DEF PopMove
<1>6. CASE PopDestroy
  <2>1. ppc = "publish" => write_index_ # read_index_
    BY <1>6, SizeAssumption DEF PopDestroy, TypeOK, CursorOrder, Sub, Index
  <2>2. ppc = "publish" => SlotOf(read_index_) # SlotOf(write_index_)
    BY <1>6, <2>1, ReadSlotUnshared DEF PopDestroy, TypeOK
  <2> QED
    BY <1>6, <2>2, SlotOfType DEF PopDestroy, TypeOK
<1>7. CASE PopRelease
  BY <1>7 DEF PopRelease
<1>8. CASE Destruct
  BY <1>8 DEF Destruct
<1>9. CASE UNCHANGED vars
  BY <1>9 DEF vars
<1> QED
  BY <1>1, <1>2, <1>3, <1>4, <1>5, <1>6, <1>7, <1>8, <1>9 DEF Next, Push, Pop

\* Live indices and the storage they designate, after each kind of step.
LEMMA NextStorageLifetimes ==
  ASSUME IInv, [Next]_vars
  PROVE  StorageLifetimes'
<1> USE SizeAssumption, NoItemAssumption DEF IInv, shared, producer, consumer
<1>1. ASSUME NEW read \in Index,
             PushFull(read) \/ \E item \in Items : PushBegin(item, read)
      PROVE  StorageLifetimes'
  BY <1>1 DEF PushFull, PushBegin, LoadReadIndex,
              StorageLifetimes, Live, FirstLive, PastLive
<1>2. CASE PushConstruct
  <2>1. pitem # NoItem /\ SlotOf(write_index_) \in SlotSet /\ alive
    BY <1>2, SlotOfType DEF PushConstruct, Synchronized, TypeOK
  <2>2. slots' = [slots EXCEPT ![SlotOf(write_index_)] = pitem]
    BY <1>2 DEF PushConstruct, Constructed, Synchronized, CursorOrder
  <2>3. \A i \in Index : Live(i)' <=> Live(i) \/ i = write_index_
    BY <1>2 DEF PushConstruct, Live, FirstLive, PastLive, TypeOK, CursorOrder,
                Index, Sub, Inc
  <2>4. write_index_ \in Index /\ slots \in [SlotSet -> Items \cup {NoItem}]
    BY DEF TypeOK
  <2>5. alive'
    BY <1>2, <2>1 DEF PushConstruct
  <2>6. ASSUME NEW s \in SlotSet
        PROVE  slots'[s] # NoItem <=> \E i \in Index : Live(i)' /\ SlotOf(i) = s
    <3>1. CASE s = SlotOf(write_index_)
      BY <3>1, <2>1, <2>2, <2>3, <2>4
    <3>2. CASE s # SlotOf(write_index_)
      BY <3>2, <2>1, <2>2, <2>3, <2>4 DEF StorageLifetimes
    <3> QED
      BY <3>1, <3>2
  <2> QED
    BY <2>5, <2>6 DEF StorageLifetimes
<1>3. CASE PushPublish
  <2>1. \A i \in Index : Live(i)' <=> Live(i)
    BY <1>3 DEF PushPublish, Live, FirstLive, PastLive
  <2> QED
    BY <1>3, <2>1 DEF PushPublish, StorageLifetimes
<1>4. ASSUME NEW write \in Index, PopEmpty(write) \/ PopBegin(write)
      PROVE  StorageLifetimes'
  BY <1>4 DEF PopEmpty, PopBegin, LoadWriteIndex,
              StorageLifetimes, Live, FirstLive, PastLive
<1>5. CASE PopMove
  BY <1>5 DEF PopMove, StorageLifetimes, Live, FirstLive, PastLive
<1>6. CASE PopDestroy
  <2>1. SlotOf(read_index_) \in SlotSet /\ alive /\ read_index_ \in Index
    BY <1>6, SlotOfType DEF PopDestroy, Synchronized, TypeOK
  <2>2. slots \in [SlotSet -> Items \cup {NoItem}]
    BY DEF TypeOK
  <2>3. \A i \in Index : Live(i)' <=> Live(i) /\ i # read_index_
    BY <1>6 DEF PopDestroy, Live, FirstLive, PastLive, TypeOK, CursorOrder,
                Index, Sub, Inc
  <2>4. ASSUME NEW i \in Index, Live(i), i # read_index_
        PROVE  SlotOf(i) # SlotOf(read_index_)
    <3>1. \/ Sub(i, read_index_) < Sub(write_index_, read_index_)
          \/ ppc # "idle" /\ i = write_index_
      BY <1>6, <2>4 DEF PopDestroy, Live, FirstLive, PastLive, TypeOK,
                        CursorOrder, Index, Sub, Inc
    <3> QED
      BY <1>6, <2>4, <3>1, ReadSlotUnshared DEF PopDestroy
  <2>5. alive'
    BY <1>6, <2>1 DEF PopDestroy
  <2>6. slots' = [slots EXCEPT ![SlotOf(read_index_)] = NoItem]
    BY <1>6 DEF PopDestroy
  <2>7. ASSUME NEW s \in SlotSet
        PROVE  slots'[s] # NoItem <=> \E i \in Index : Live(i)' /\ SlotOf(i) = s
    <3>1. CASE s = SlotOf(read_index_)
      BY <3>1, <2>1, <2>2, <2>3, <2>4, <2>6
    <3>2. CASE s # SlotOf(read_index_)
      BY <3>2, <2>1, <2>2, <2>3, <2>6 DEF StorageLifetimes
    <3> QED
      BY <3>1, <3>2
  <2> QED
    BY <2>5, <2>7 DEF StorageLifetimes
<1>7. CASE PopRelease
  <2>1. \A i \in Index : Live(i)' <=> Live(i)
    BY <1>7 DEF PopRelease, Live, FirstLive, PastLive
  <2> QED
    BY <1>7, <2>1 DEF PopRelease, StorageLifetimes
<1>8. CASE Destruct
  <2>1. ASSUME NEW s \in SlotSet, slots[s] # NoItem
        PROVE  \E n \in 0 .. Size - 1 :
                 /\ n < Sub(write_index_, read_index_)
                 /\ SlotOf(Plus(read_index_, n)) = s
    <3>1. PICK i \in Index : Live(i) /\ SlotOf(i) = s
      BY <2>1 DEF StorageLifetimes
    <3> DEFINE n == Sub(i, read_index_)
    <3>2. n < Sub(write_index_, read_index_)
      BY <1>8, <3>1 DEF Destruct, Live, FirstLive, PastLive
    <3>3. n \in 0 .. Size - 1 /\ Plus(read_index_, n) = i
      BY <3>2 DEF TypeOK, CursorOrder, Index, Sub, Plus
    <3> QED
      BY <3>1, <3>2, <3>3
  <2>2. \A s \in SlotSet : slots'[s] = NoItem
    BY <1>8, <2>1 DEF Destruct
  <2> QED
    BY <1>8, <2>2 DEF Destruct, StorageLifetimes
<1>9. CASE UNCHANGED vars
  BY <1>9 DEF vars, StorageLifetimes, Live, FirstLive, PastLive
<1> QED
  BY <1>1, <1>2, <1>3, <1>4, <1>5, <1>6, <1>7, <1>8, <1>9 DEF Next, Push, Pop

\* The invariant holds in every reachable state.
THEOREM Invariance == Spec => []IInv
<1>1. IInv /\ [Next]_vars => IInv'
  BY NextTypeOK, NextCursorOrder, NextSynchronized, NextStorageLifetimes DEF IInv
<1> QED
  BY <1>1, InitIInv, PTL DEF Spec

\* Type correctness of the ring buffer.
THEOREM TypeCorrect == Spec => []TypeOK
BY Invariance, PTL DEF IInv

\* The indices never drift apart by more than Size, whatever their staleness.
THEOREM CursorsOrdered == Spec => []CursorOrder
BY Invariance, PTL DEF IInv

\* No slot is used by both threads at once: the queue is free of data races.
THEOREM RaceFreedom == Spec => []NoSlotSharing
<1>1. IInv => NoSlotSharing
  <2> SUFFICES ASSUME IInv, ppc # "idle", cpc # "idle"
               PROVE  SlotOf(write_index_) # SlotOf(read_index_)
    BY DEF NoSlotSharing
  <2>1. write_index_ \in Index /\ write_index_ # read_index_
    BY SizeAssumption DEF IInv, TypeOK, CursorOrder, Index, Sub
  <2> QED
    BY <2>1, ReadSlotUnshared DEF IInv
<1> QED
  BY <1>1, Invariance, PTL

\* Objects are constructed in raw storage only, destroyed once, and none
\* outlives the queue.
THEOREM ObjectLifetimes == Spec => []StorageLifetimes
BY Invariance, PTL DEF IInv

-----------------------------------------------------------------------------
(* The ring buffer implements the atomic queue.                            *)

\* Append as a function on positions.
LEMMA AppendFunction ==
  ASSUME NEW S, NEW s \in Seq(S), NEW x \in S
  PROVE  Append(s, x)
           = [n \in 1 .. (Len(s) + 1) |-> IF n = Len(s) + 1 THEN x ELSE s[n]]
<1> DEFINE t == [n \in 1 .. (Len(s) + 1) |-> IF n = Len(s) + 1 THEN x ELSE s[n]]
<1>1. t \in Seq(S) /\ Len(t) = Len(s) + 1
  OBVIOUS
<1>2. \A n \in 1 .. (Len(s) + 1) : t[n] = Append(s, x)[n]
  BY AppendProperties
<1> HIDE DEF t
<1>3. Append(s, x) = t
  BY <1>1, <1>2, AppendProperties, SeqEqual
<1> QED
  BY <1>3 DEF t

\* Tail as a function on positions.
LEMMA TailFunction ==
  ASSUME NEW S, NEW s \in Seq(S), s # <<>>
  PROVE  Tail(s) = [n \in 1 .. (Len(s) - 1) |-> s[n + 1]]
<1> DEFINE t == [n \in 1 .. (Len(s) - 1) |-> s[n + 1]]
<1>1. Len(s) - 1 \in Nat
  OBVIOUS
<1>2. t \in Seq(S) /\ Len(t) = Len(s) - 1
  BY <1>1
<1>3. \A n \in 1 .. (Len(s) - 1) : t[n] = Tail(s)[n]
  BY HeadTailProperties
<1> HIDE DEF t
<1>4. Tail(s) = t
  BY <1>2, <1>3, HeadTailProperties, SeqEqual
<1> QED
  BY <1>4 DEF t

\* How many items wait, and where each one lies.
LEMMA WaitingFacts ==
  ASSUME IInv
  PROVE  /\ FirstWaiting \in Index
         /\ Sub(write_index_, FirstWaiting) \in 0 .. Size
         /\ Waiting \in Seq(Items \cup {NoItem})
         /\ Len(Waiting) = Sub(write_index_, FirstWaiting)
         /\ \A n \in 1 .. Len(Waiting) :
              /\ Plus(FirstWaiting, n - 1) \in Index
              /\ Sub(Plus(FirstWaiting, n - 1), FirstWaiting) = n - 1
              /\ Waiting[n] = slots[SlotOf(Plus(FirstWaiting, n - 1))]
<1> USE SizeAssumption DEF IInv, TypeOK, CursorOrder, Index
<1>1. FirstWaiting \in Index /\ Sub(write_index_, FirstWaiting) \in 0 .. Size
  BY DEF FirstWaiting, Sub, Inc
<1>2. \A n \in 1 .. Sub(write_index_, FirstWaiting) :
        /\ Plus(FirstWaiting, n - 1) \in Index
        /\ Sub(Plus(FirstWaiting, n - 1), FirstWaiting) = n - 1
  BY <1>1 DEF Plus, Sub
<1>3. \A n \in 1 .. Sub(write_index_, FirstWaiting) :
        slots[SlotOf(Plus(FirstWaiting, n - 1))] \in Items \cup {NoItem}
  BY <1>2, SlotOfType
<1> QED
  BY <1>1, <1>2, <1>3, SMTT(30) DEF Waiting

\* A waiting item is not in the slot push() is writing.
LEMMA WaitingNotWritten ==
  ASSUME IInv, ppc # "idle", NEW n \in 1 .. Len(Waiting)
  PROVE  SlotOf(Plus(FirstWaiting, n - 1)) # SlotOf(write_index_)
<1> DEFINE i == Plus(FirstWaiting, n - 1)
<1>1. /\ i \in Index /\ FirstWaiting \in Index
      /\ Sub(i, FirstWaiting) < Sub(write_index_, FirstWaiting)
  BY WaitingFacts
<1> HIDE DEF i
<1>2. Sub(i, read_index_) < Sub(write_index_, read_index_)
  BY <1>1, SizeAssumption
     DEF IInv, TypeOK, CursorOrder, Index, FirstWaiting, Sub, Inc
<1>3. SlotOf(i) # SlotOf(write_index_)
  BY <1>1, <1>2, WriteSlotUnused DEF IInv
<1> QED
  BY <1>3 DEF i

\* A waiting item is not in the slot pop() has just emptied.
LEMMA WaitingNotDestroyed ==
  ASSUME IInv, cpc = "destroy", NEW n \in 1 .. Len(Waiting)
  PROVE  SlotOf(Plus(FirstWaiting, n - 1)) # SlotOf(read_index_)
<1> DEFINE i == Plus(FirstWaiting, n - 1)
<1>1. /\ i \in Index /\ FirstWaiting \in Index
      /\ Sub(i, FirstWaiting) < Sub(write_index_, FirstWaiting)
  BY WaitingFacts
<1> HIDE DEF i
<1>2. i # read_index_ /\ Sub(i, read_index_) < Sub(write_index_, read_index_)
  BY <1>1, SizeAssumption
     DEF IInv, TypeOK, CursorOrder, Index, FirstWaiting, Sub, Inc
<1>3. SlotOf(read_index_) # SlotOf(i)
  BY <1>1, <1>2, ReadSlotUnshared DEF IInv
<1> QED
  BY <1>3 DEF i

\* push()'s release store is the abstract Push.
LEMMA PublishIsPush ==
  ASSUME IInv, IInv', PushPublish
  PROVE  Fifo!Push(pitem)
<1> USE SizeAssumption
<1>1. /\ alive /\ alive' /\ FirstWaiting' = FirstWaiting /\ slots' = slots
      /\ citem' = citem
  BY DEF PushPublish, FirstWaiting, IInv, Synchronized, consumer
<1>2. Len(Waiting) < Size /\ Sub(write_index_', FirstWaiting) = Len(Waiting) + 1
  BY WaitingFacts, SMTT(30)
     DEF PushPublish, IInv, TypeOK, CursorOrder, Index, FirstWaiting, Sub, Inc
<1>3. Plus(FirstWaiting, Len(Waiting)) = write_index_
  <2>1. /\ FirstWaiting \in Index /\ write_index_ \in Index
        /\ Len(Waiting) = Sub(write_index_, FirstWaiting)
    BY WaitingFacts DEF IInv, TypeOK
  <2> QED
    BY <2>1 DEF Index, Plus, Sub
<1>4. slots[SlotOf(write_index_)] = pitem
  BY DEF PushPublish, IInv, Synchronized
<1>5. Waiting' = [n \in 1 .. (Len(Waiting) + 1) |->
                    slots[SlotOf(Plus(FirstWaiting, n - 1))]]
  BY <1>1, <1>2 DEF Waiting
<1>6. Waiting' = Append(Waiting, pitem)
  <2> DEFINE W == Waiting
  <2>1. W \in Seq(Items \cup {NoItem}) /\ Len(W) \in Nat
    BY WaitingFacts
  <2>2. \A n \in 1 .. Len(W) : slots[SlotOf(Plus(FirstWaiting, n - 1))] = W[n]
    BY WaitingFacts
  <2>3. slots[SlotOf(Plus(FirstWaiting, (Len(W) + 1) - 1))] = pitem
    BY <1>3, <1>4, <2>1
  <2> HIDE DEF W
  <2>4. [n \in 1 .. (Len(W) + 1) |-> slots[SlotOf(Plus(FirstWaiting, n - 1))]]
          = [n \in 1 .. (Len(W) + 1) |-> IF n = Len(W) + 1 THEN pitem ELSE W[n]]
    BY <2>1, <2>2, <2>3
  <2>5. Append(W, pitem)
          = [n \in 1 .. (Len(W) + 1) |-> IF n = Len(W) + 1 THEN pitem ELSE W[n]]
    BY <2>1, AppendFunction DEF IInv, TypeOK
  <2> QED
    BY <1>5, <2>4, <2>5 DEF W
<1> QED
  BY <1>1, <1>2, <1>6 DEF Fifo!Push

\* pop()'s move is the abstract Pop.
LEMMA MoveIsPop ==
  ASSUME IInv, IInv', PopMove
  PROVE  Fifo!Pop
<1> USE SizeAssumption
<1>1. /\ alive /\ alive' /\ FirstWaiting = read_index_
      /\ FirstWaiting' = Inc(read_index_)
      /\ slots' = slots /\ write_index_' = write_index_
  BY DEF PopMove, FirstWaiting, IInv, Synchronized, shared
<1>2. Len(Waiting) >= 1 /\ Sub(write_index_, Inc(read_index_)) = Len(Waiting) - 1
  <2>1. Len(Waiting) = Sub(write_index_, read_index_)
    BY <1>1, WaitingFacts
  <2>2. Sub(write_index_, read_index_) >= 1
    BY DEF PopMove, IInv, TypeOK, CursorOrder, Index, Sub
  <2>3. Sub(write_index_, Inc(read_index_)) = Sub(write_index_, read_index_) - 1
    BY <2>2 DEF IInv, TypeOK, Index, Sub, Inc
  <2> QED
    BY <2>1, <2>2, <2>3
<1>3. citem' = slots[SlotOf(read_index_)]
  BY DEF PopMove, Moved, IInv, Synchronized, CursorOrder
<1>4. Waiting[1] = slots[SlotOf(read_index_)]
  BY <1>1, <1>2, WaitingFacts, SMTT(30) DEF Plus, IInv, TypeOK, Index
<1>5. \A n \in 1 .. (Len(Waiting) - 1) :
        Plus(Inc(read_index_), n - 1) = Plus(read_index_, n)
  BY <1>1, WaitingFacts, SMTT(30) DEF Plus, Inc, IInv, TypeOK, Index
<1>6. Waiting' = [n \in 1 .. (Len(Waiting) - 1) |->
                    slots[SlotOf(Plus(Inc(read_index_), n - 1))]]
  BY <1>1, <1>2 DEF Waiting
<1>7. Waiting' = Tail(Waiting)
  <2> DEFINE W == Waiting
  <2>1. W \in Seq(Items \cup {NoItem}) /\ Len(W) \in Nat /\ W # <<>>
    BY <1>2, WaitingFacts
  <2>2. \A n \in 1 .. (Len(W) - 1) :
          slots[SlotOf(Plus(Inc(read_index_), n - 1))] = W[n + 1]
    <3>1. \A n \in 1 .. (Len(W) - 1) :
            W[n + 1] = slots[SlotOf(Plus(read_index_, (n + 1) - 1))]
      BY <1>1, <2>1, WaitingFacts
    <3>2. \A n \in 1 .. (Len(W) - 1) : (n + 1) - 1 = n
      BY <2>1
    <3> QED
      BY <1>5, <3>1, <3>2
  <2> HIDE DEF W
  <2>3. [n \in 1 .. (Len(W) - 1) |-> slots[SlotOf(Plus(Inc(read_index_), n - 1))]]
          = [n \in 1 .. (Len(W) - 1) |-> W[n + 1]]
    BY <2>1, <2>2
  <2>4. Tail(W) = [n \in 1 .. (Len(W) - 1) |-> W[n + 1]]
    BY <2>1, TailFunction
  <2> QED
    BY <1>6, <2>3, <2>4 DEF W
<1> QED
  BY <1>1, <1>2, <1>3, <1>4, <1>7, WaitingFacts DEF Fifo!Pop

\* A step that keeps the waiting items' slots and both ends keeps the queue.
LEMMA SameWaiting ==
  ASSUME IInv,
         write_index_' = write_index_, FirstWaiting' = FirstWaiting,
         \A n \in 1 .. Len(Waiting) :
           slots'[SlotOf(Plus(FirstWaiting, n - 1))]
             = slots[SlotOf(Plus(FirstWaiting, n - 1))]
  PROVE  Waiting' = Waiting
<1>1. Len(Waiting) = Sub(write_index_, FirstWaiting)
  BY WaitingFacts
<1>2. Waiting' = [n \in 1 .. Sub(write_index_, FirstWaiting) |->
                    slots'[SlotOf(Plus(FirstWaiting, n - 1))]]
  BY DEF Waiting
<1> QED
  BY <1>1, <1>2 DEF Waiting

\* Every step of the ring buffer is a step of the atomic queue or none.
LEMMA StepRefinement ==
  ASSUME IInv, IInv', [Next]_vars
  PROVE  [Fifo!Next]_(Fifo!vars)
<1> USE DEF shared, producer, consumer
<1>1. CASE PushPublish
  <2>1. pitem \in Items
    BY <1>1 DEF PushPublish, IInv, Synchronized
  <2> QED
    BY <1>1, <2>1, PublishIsPush DEF Fifo!Next
<1>2. CASE PopMove
  BY <1>2, MoveIsPop DEF Fifo!Next
<1>3. CASE Destruct
  BY <1>3 DEF Destruct, Fifo!Next, Fifo!Clear
<1>4. ASSUME alive' = alive, citem' = citem, Waiting' = Waiting
      PROVE  UNCHANGED Fifo!vars
  BY <1>4 DEF Fifo!vars
<1>5. CASE PushConstruct
  <2>1. \A n \in 1 .. Len(Waiting) :
          slots'[SlotOf(Plus(FirstWaiting, n - 1))]
            = slots[SlotOf(Plus(FirstWaiting, n - 1))]
    BY <1>5, WaitingNotWritten, WaitingFacts, SlotOfType
       DEF PushConstruct, IInv, TypeOK
  <2>2. write_index_' = write_index_ /\ FirstWaiting' = FirstWaiting
    BY <1>5 DEF PushConstruct, FirstWaiting
  <2>3. Waiting' = Waiting
    BY <2>1, <2>2, SameWaiting
  <2> QED
    BY <1>4, <1>5, <2>3 DEF PushConstruct
<1>6. CASE PopDestroy
  <2>1. \A n \in 1 .. Len(Waiting) :
          slots'[SlotOf(Plus(FirstWaiting, n - 1))]
            = slots[SlotOf(Plus(FirstWaiting, n - 1))]
    BY <1>6, WaitingNotDestroyed, WaitingFacts, SlotOfType
       DEF PopDestroy, IInv, TypeOK
  <2>2. write_index_' = write_index_ /\ FirstWaiting' = FirstWaiting
    BY <1>6 DEF PopDestroy, FirstWaiting
  <2>3. Waiting' = Waiting
    BY <2>1, <2>2, SameWaiting
  <2> QED
    BY <1>4, <1>6, <2>3 DEF PopDestroy
<1>7. ASSUME slots' = slots, write_index_' = write_index_,
             alive' = alive, citem' = citem, FirstWaiting' = FirstWaiting
      PROVE  UNCHANGED Fifo!vars
  BY <1>4, <1>7, SameWaiting
<1>8. CASE PopRelease
  BY <1>7, <1>8 DEF PopRelease, FirstWaiting
<1>9. ASSUME NEW read \in Index, PushFull(read)
      PROVE  UNCHANGED Fifo!vars
  BY <1>7, <1>9 DEF PushFull, FirstWaiting
<1>10. ASSUME NEW read \in Index, NEW item \in Items, PushBegin(item, read)
       PROVE  UNCHANGED Fifo!vars
  BY <1>7, <1>10 DEF PushBegin, FirstWaiting
<1>11. ASSUME NEW write \in Index, PopEmpty(write)
       PROVE  UNCHANGED Fifo!vars
  BY <1>7, <1>11 DEF PopEmpty, FirstWaiting
<1>12. ASSUME NEW write \in Index, PopBegin(write)
       PROVE  UNCHANGED Fifo!vars
  BY <1>7, <1>12 DEF PopBegin, FirstWaiting
<1>13. CASE UNCHANGED vars
  BY <1>7, <1>13 DEF vars, FirstWaiting
<1> QED
  BY <1>1, <1>2, <1>3, <1>5, <1>6, <1>8, <1>9, <1>10, <1>11, <1>12, <1>13
     DEF Next, Push, Pop

\* Whatever the two threads load and wherever the indices wrap, push() and
\* pop() behave as the atomic bounded queue.
THEOREM Refinement == Spec => FifoRefinement
<1>1. Init => Fifo!Init
  BY DEF Init, Fifo!Init, Waiting, FirstWaiting, Sub
<1>2. IInv /\ IInv' /\ [Next]_vars => [Fifo!Next]_(Fifo!vars)
  BY StepRefinement
<1> QED
  BY <1>1, <1>2, Invariance, PTL DEF Spec, FifoRefinement, Fifo!Spec

====
