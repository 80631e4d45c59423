---- MODULE BoundedFifo ----
(***************************************************************************)
(* What SpscQueue<T, Size> promises its two users: a first-in first-out    *)
(* queue of at most Capacity items whose operations are atomic.  push()    *)
(* returning false and pop() returning false leave it unchanged, so they   *)
(* are stuttering steps here; nothing is promised about how soon either    *)
(* side notices the other one's progress.                                  *)
(***************************************************************************)
EXTENDS Naturals, Sequences

CONSTANTS
  Items,     \* the values of type T
  NoItem,    \* no value of type T
  Capacity   \* the template parameter Size

VARIABLES
  queue,     \* the items pushed and not popped yet, oldest first
  out        \* the consumer's variable that pop() assigns

vars == <<queue, out>>

Init ==
  /\ queue = <<>>
  /\ out = NoItem

Push(item) ==
  /\ Len(queue) < Capacity
  /\ queue' = Append(queue, item)
  /\ UNCHANGED out

Pop ==
  /\ queue # <<>>
  /\ out' = Head(queue)
  /\ queue' = Tail(queue)

\* The destructor discards what was not popped.
Clear ==
  /\ queue' = <<>>
  /\ UNCHANGED out

Next ==
  \/ \E item \in Items : Push(item)
  \/ Pop
  \/ Clear

Spec == Init /\ [][Next]_vars

====
