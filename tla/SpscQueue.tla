---- MODULE SpscQueue ----
(***************************************************************************)
(* include/spsc_queue.hpp: the lock-free ring buffer that carries ticks    *)
(* from the network thread to the strategy thread and log events to the    *)
(* logger's thread.                                                        *)
(*                                                                         *)
(* The two threads interleave between every two accesses to shared memory. *)
(* The C++ memory model is part of the state:                              *)
(*  - an atomic load may return any value not older than the last one this *)
(*    thread read (coherence), so each side keeps the value it last saw;   *)
(*  - an acquire load that reads a release store makes everything before   *)
(*    that store happen before what follows, which hb_read and hb_write    *)
(*    record; a relaxed load would not advance them;                       *)
(*  - an access to a slot that is not ordered after the other side's last  *)
(*    access to it is a data race, whose outcome is any value.             *)
(*                                                                         *)
(* The indices are size_t: they wrap at IndexRange, 2^64 in the build.     *)
(***************************************************************************)
EXTENDS Naturals, Sequences

CONSTANTS
  Items,        \* the values of type T
  NoItem,       \* raw storage: a slot with no live object
  Size,         \* number of slots
  IndexRange    \* number of values of an index

\* A power of two divides the larger power of two 2^64: that is all that
\* "write & kMask" takes from the static_asserts.
ASSUME SizeAssumption ==
  /\ Size \in Nat /\ Size >= 2
  /\ IndexRange \in Nat /\ IndexRange > Size
  /\ IndexRange % Size = 0

ASSUME NoItemAssumption == NoItem \notin Items

VARIABLES
  slots,         \* buffer_
  write_index_,
  read_index_,
  alive,         \* the destructor has not run
  ppc,           \* where the producer stands in push()
  pitem,         \* push()'s argument
  seen_read,     \* the value of read_index_ the producer last loaded
  hb_read,       \* the pops that happen before the producer's next step
  cpc,           \* where the consumer stands in pop()
  citem,         \* the consumer's variable that pop() assigns
  seen_write,    \* the value of write_index_ the consumer last loaded
  hb_write       \* the pushes that happen before the consumer's next step

shared == <<slots, write_index_, read_index_, alive>>
producer == <<ppc, pitem, seen_read, hb_read>>
consumer == <<cpc, citem, seen_write, hb_write>>
vars == <<slots, write_index_, read_index_, alive,
          ppc, pitem, seen_read, hb_read,
          cpc, citem, seen_write, hb_write>>

Index == 0 .. IndexRange - 1
SlotSet == 0 .. Size - 1

\* Faulty variant: the index does not wrap.
IncUnwrapped(i) == i + 1

\* i + 1U, i + n and i - j on size_t.
Inc(i) == IF i + 1 = IndexRange THEN 0 ELSE i + 1
Plus(i, n) == IF i + n < IndexRange THEN i + n ELSE (i + n) - IndexRange
Sub(i, j) == IF i >= j THEN i - j ELSE (i + IndexRange) - j

\* i & kMask.
SlotOf(i) == i % Size

\* What a load of an index may return: from the last value this thread saw
\* to the current one.
Loadable(seen, current) == {v \in Index : Sub(v, seen) <= Sub(current, seen)}

\* Faulty variant: one item too many.
FullOffByOne(write, read) == Sub(write, read) = Size + 1

Full(write, read) == Sub(write, read) = Size

Init ==
  /\ slots = [s \in SlotSet |-> NoItem]
  /\ write_index_ = 0 /\ read_index_ = 0
  /\ alive = TRUE
  /\ ppc = "idle" /\ pitem = NoItem /\ seen_read = 0 /\ hb_read = 0
  /\ cpc = "idle" /\ citem = NoItem /\ seen_write = 0 /\ hb_write = 0

-----------------------------------------------------------------------------
(* push(), by the one producer thread.                                     *)

\* read_index_.load(memory_order_acquire) returns read.
LoadReadIndex(read) ==
  /\ read \in Loadable(seen_read, read_index_)
  /\ seen_read' = read
  /\ hb_read' = read

\* push(item) finds the queue full and returns false.
PushFull(read) ==
  /\ alive /\ ppc = "idle"
  /\ LoadReadIndex(read)
  /\ Full(write_index_, read)
  /\ UNCHANGED <<shared, consumer, ppc, pitem>>

\* push(item) finds room.
PushBegin(item, read) ==
  /\ alive /\ ppc = "idle"
  /\ LoadReadIndex(read)
  /\ ~Full(write_index_, read)
  /\ ppc' = "construct"
  /\ pitem' = item
  /\ UNCHANGED <<shared, consumer>>

\* What construct_at leaves in the slot: the item, unless the consumer's
\* last use of the slot does not happen before.
Constructed ==
  IF Sub(write_index_, hb_read) < Size THEN {pitem} ELSE Items \cup {NoItem}

PushConstruct ==
  /\ ppc = "construct"
  /\ ppc' = "publish"
  /\ \E item \in Constructed :
       slots' = [slots EXCEPT ![SlotOf(write_index_)] = item]
  /\ UNCHANGED <<write_index_, read_index_, alive, consumer,
                 pitem, seen_read, hb_read>>

\* write_index_.store(write + 1U, memory_order_release); return true.
PushPublish ==
  /\ ppc = "publish"
  /\ ppc' = "idle"
  /\ pitem' = NoItem
  /\ write_index_' = Inc(write_index_)
  /\ UNCHANGED <<slots, read_index_, alive, consumer, seen_read, hb_read>>

-----------------------------------------------------------------------------
(* pop(), by the one consumer thread.                                      *)

\* Faulty variant: memory_order_relaxed.
LoadWriteIndexRelaxed(write) ==
  /\ write \in Loadable(seen_write, write_index_)
  /\ seen_write' = write
  /\ UNCHANGED hb_write

\* write_index_.load(memory_order_acquire) returns write.
LoadWriteIndex(write) ==
  /\ write \in Loadable(seen_write, write_index_)
  /\ seen_write' = write
  /\ hb_write' = write

\* pop(item) finds the queue empty and returns false.
PopEmpty(write) ==
  /\ alive /\ cpc = "idle"
  /\ LoadWriteIndex(write)
  /\ read_index_ = write
  /\ UNCHANGED <<shared, producer, cpc, citem>>

PopBegin(write) ==
  /\ alive /\ cpc = "idle"
  /\ LoadWriteIndex(write)
  /\ read_index_ # write
  /\ cpc' = "move"
  /\ UNCHANGED <<shared, producer, citem>>

\* What the move reads from the slot: its item, unless the construction of
\* that item does not happen before.
Moved ==
  IF Sub(hb_write, read_index_) > 0
  THEN {slots[SlotOf(read_index_)]}
  ELSE Items \cup {NoItem}

\* item = std::move(*ptr)
PopMove ==
  /\ cpc = "move"
  /\ cpc' = "destroy"
  /\ citem' \in Moved
  /\ UNCHANGED <<shared, producer, seen_write, hb_write>>

\* Faulty variant: the object is not destroyed.
PopDestroyMissing ==
  /\ cpc = "destroy"
  /\ cpc' = "release"
  /\ UNCHANGED <<shared, producer, citem, seen_write, hb_write>>

\* std::destroy_at(ptr)
PopDestroy ==
  /\ cpc = "destroy"
  /\ cpc' = "release"
  /\ slots' = [slots EXCEPT ![SlotOf(read_index_)] = NoItem]
  /\ UNCHANGED <<write_index_, read_index_, alive, producer,
                 citem, seen_write, hb_write>>

\* Faulty variant: read_index_ is not advanced.
PopReleaseMissing ==
  /\ cpc = "release"
  /\ cpc' = "idle"
  /\ UNCHANGED <<shared, producer, citem, seen_write, hb_write>>

\* read_index_.store(read + 1U, memory_order_release); return true.
PopRelease ==
  /\ cpc = "release"
  /\ cpc' = "idle"
  /\ read_index_' = Inc(read_index_)
  /\ UNCHANGED <<slots, write_index_, alive, producer,
                 citem, seen_write, hb_write>>

-----------------------------------------------------------------------------
\* ~SpscQueue(): both threads have stopped; it destroys the objects from
\* read_index_ up to write_index_ and touches no other slot.
Destruct ==
  /\ alive /\ ppc = "idle" /\ cpc = "idle"
  /\ alive' = FALSE
  /\ slots' = [s \in SlotSet |->
                 IF \E n \in 0 .. Size - 1 :
                      /\ n < Sub(write_index_, read_index_)
                      /\ SlotOf(Plus(read_index_, n)) = s
                 THEN NoItem ELSE slots[s]]
  /\ UNCHANGED <<write_index_, read_index_, producer, consumer>>

Push ==
  \/ \E read \in Index : PushFull(read) \/ \E item \in Items : PushBegin(item, read)
  \/ PushConstruct
  \/ PushPublish

Pop ==
  \/ \E write \in Index : PopEmpty(write) \/ PopBegin(write)
  \/ PopMove
  \/ PopDestroy
  \/ PopRelease

Next == Push \/ Pop \/ Destruct

Spec == Init /\ [][Next]_vars

\* The consumer polls in a loop, and a store becomes visible to the loads of
\* another thread after finitely many of them.  Nothing obliges a producer
\* to push.
ConsumerPolls ==
  /\ WF_vars(PopBegin(write_index_))
  /\ WF_vars(PopMove)
  /\ WF_vars(PopDestroy)
  /\ WF_vars(PopRelease)

FairSpec == Spec /\ ConsumerPolls

-----------------------------------------------------------------------------
(* Properties.                                                             *)

TypeOK ==
  /\ slots \in [SlotSet -> Items \cup {NoItem}]
  /\ write_index_ \in Index /\ read_index_ \in Index
  /\ alive \in BOOLEAN
  /\ ppc \in {"idle", "construct", "publish"}
  /\ pitem \in Items \cup {NoItem}
  /\ seen_read \in Index /\ hb_read \in Index
  /\ cpc \in {"idle", "move", "destroy", "release"}
  /\ citem \in Items \cup {NoItem}
  /\ seen_write \in Index /\ hb_write \in Index

\* Neither side's view of the other's index is ever ahead of it or more than
\* Size behind its own index, so that no wrapped difference is ambiguous; and
\* once push() or pop() has passed its test, what it tested still holds.
CursorOrder ==
  /\ Sub(read_index_, seen_read) <= Sub(write_index_, seen_read)
  /\ Sub(write_index_, seen_read) <= Size
  /\ Sub(seen_write, read_index_) <= Sub(write_index_, read_index_)
  /\ ppc # "idle" => Sub(write_index_, seen_read) < Size
  /\ cpc # "idle" => Sub(seen_write, read_index_) > 0

\* push() between its test and its store and pop() between its test and its
\* store never work on the same slot, however stale the index each of them
\* loaded and wherever the indices wrap.
NoSlotSharing ==
  ppc # "idle" /\ cpc # "idle" => SlotOf(write_index_) # SlotOf(read_index_)

\* The indices of the objects that are alive: from the one pop() has not
\* destroyed yet to the one push() has constructed.
FirstLive == IF cpc = "release" THEN Inc(read_index_) ELSE read_index_
PastLive == IF ppc = "publish" THEN Inc(write_index_) ELSE write_index_
Live(i) == Sub(i, FirstLive) < Sub(PastLive, FirstLive)

\* A slot holds an object exactly when one of those indices designates it:
\* construct_at never overwrites an object, destroy_at never meets raw
\* storage, and the destructor leaves none behind.
StorageLifetimes ==
  \A s \in SlotSet :
    slots[s] # NoItem <=> alive /\ \E i \in Index : Live(i) /\ SlotOf(i) = s

\* The items a consumer has still to receive; pop() takes its item at the
\* move.
FirstWaiting ==
  IF cpc \in {"destroy", "release"} THEN Inc(read_index_) ELSE read_index_
Waiting ==
  [n \in 1 .. Sub(write_index_, FirstWaiting) |->
     slots[SlotOf(Plus(FirstWaiting, n - 1))]]

Fifo == INSTANCE BoundedFifo WITH
          Capacity <- Size,
          queue <- IF alive THEN Waiting ELSE <<>>,
          out <- citem

\* Every execution of the ring buffer is one of an atomic bounded queue:
\* items come out once each, in the order they went in, unaltered.
FifoRefinement == Fifo!Spec

\* A pushed item does not stay in the queue for ever while the consumer
\* polls (unless the queue is destroyed).
Delivery ==
  \A i \in Index :
    read_index_ = i /\ write_index_ # i ~> read_index_ # i \/ ~alive

====
