---- MODULE AsyncLogger ----
(***************************************************************************)
(* include/async_logger.hpp: the queue of log rows, the worker thread that *)
(* writes them to the CSV file, and the shutdown that drains the queue.    *)
(*                                                                         *)
(* The queue is atomic here (SpscQueue refines BoundedFifo), but its users *)
(* may see each other's index late:                                        *)
(*  - pop() may return false although a row waits, except for rows whose   *)
(*    push happens before the pop (synced counts those);                   *)
(*  - push() may return false although the worker has made room, once as   *)
(*    many rows have been pushed as the queue has slots.                   *)
(***************************************************************************)
EXTENDS Naturals, Sequences

CONSTANTS
  LogCapacity,   \* kQueueSize: 4096
  FlushEvery     \* 1000 events

ASSUME LoggerAssumption ==
  /\ LogCapacity \in Nat \ {0}
  /\ FlushEvery \in Nat \ {0}

VARIABLES
  log_queue,     \* queue_
  accepted,      \* history: every row push() accepted, in order
  csv,           \* the rows written to the stream
  flushed,       \* how many of them have been flushed to the file
  due,           \* a second has passed since the last flush
  io,            \* whether the file could be opened
  worker,        \* where run() stands
  logger_running,\* running_
  published,     \* the pushes that happen before running_ became false
  synced         \* the pushes that happen before the worker's next step

loggerQueue == <<log_queue, accepted>>
loggerFlag == <<logger_running, published>>
workerVars == <<csv, flushed, due, io, worker, synced>>
loggerVars == <<log_queue, accepted, csv, flushed, due, io, worker,
                logger_running, published, synced>>

Popped == Len(accepted) - Len(log_queue)

InitLogger ==
  /\ log_queue = <<>> /\ accepted = <<>>
  /\ csv = <<>> /\ flushed = 0 /\ due = FALSE
  /\ io \in BOOLEAN
  /\ worker = "none"
  /\ logger_running = TRUE /\ published = 0 /\ synced = 0

-----------------------------------------------------------------------------
(* Called by the threads that log.                                         *)

\* Faulty variant: a full queue accepts the row.
LogAcceptWhenFull(row) ==
  /\ log_queue' = Append(log_queue, row)
  /\ accepted' = Append(accepted, row)

\* log_event() and log_active_strategy(): one row is accepted, or dropped.
LogAccept(row) ==
  /\ Len(log_queue) < LogCapacity
  /\ log_queue' = Append(log_queue, row)
  /\ accepted' = Append(accepted, row)

LogDrop ==
  /\ Len(accepted) >= LogCapacity
  /\ UNCHANGED loggerQueue

LogRow(row) == LogAccept(row) \/ LogDrop

\* The constructor starts the worker.
StartLogger ==
  /\ worker = "none"
  /\ worker' = "open"
  /\ UNCHANGED <<loggerQueue, loggerFlag, csv, flushed, due, io, synced>>

\* The destructor's release store, by a thread that knows of known pushes.
StopLogger(known) ==
  /\ logger_running' = FALSE
  /\ published' = known

-----------------------------------------------------------------------------
(* The worker: run() and drain_without_io().                               *)

\* Either the file opens, its header is written and the clock started, or
\* drain_without_io() runs.
OpenFile ==
  /\ worker = "open"
  /\ worker' = "check"
  /\ UNCHANGED <<loggerQueue, loggerFlag, csv, flushed, due, io, synced>>

\* Faulty variant: memory_order_relaxed.
CheckRunningRelaxed ==
  /\ worker = "check"
  /\ worker' = IF logger_running THEN "pop" ELSE "drain"
  /\ UNCHANGED <<loggerQueue, loggerFlag, csv, flushed, due, io, synced>>

\* The acquire load of running_.
CheckRunning ==
  /\ worker = "check"
  /\ IF logger_running
     THEN worker' = "pop" /\ UNCHANGED synced
     ELSE worker' = "drain" /\ synced' = published
  /\ UNCHANGED <<loggerQueue, loggerFlag, csv, flushed, due, io>>

Written(row) == IF io THEN Append(csv, row) ELSE csv

\* maybe_flush(), with rows written so far.
MaybeFlush(rows) ==
  IF io /\ (due \/ Len(rows) - flushed >= FlushEvery)
  THEN flushed' = Len(rows) /\ due' = FALSE
  ELSE UNCHANGED <<flushed, due>>

\* pop() returns true: the row is written.
WriteRow ==
  /\ worker = "pop"
  /\ log_queue # <<>>
  /\ log_queue' = Tail(log_queue)
  /\ csv' = Written(Head(log_queue))
  /\ MaybeFlush(csv')
  /\ worker' = "check"
  /\ UNCHANGED <<accepted, loggerFlag, io, synced>>

\* Faulty variant: no maybe_flush() on an empty queue.
IdleWithoutFlush ==
  /\ worker = "pop"
  /\ Popped >= synced
  /\ worker' = "check"
  /\ UNCHANGED <<loggerQueue, loggerFlag, csv, flushed, due, io, synced>>

\* pop() returns false: yield.
Idle ==
  /\ worker = "pop"
  /\ Popped >= synced
  /\ MaybeFlush(csv)
  /\ worker' = "check"
  /\ UNCHANGED <<loggerQueue, loggerFlag, csv, io, synced>>

\* The loop after shutdown was requested.
DrainRow ==
  /\ worker = "drain"
  /\ log_queue # <<>>
  /\ log_queue' = Tail(log_queue)
  /\ csv' = Written(Head(log_queue))
  /\ UNCHANGED <<accepted, loggerFlag, flushed, due, io, worker, synced>>

\* It ends when pop() returns false; out.flush().
DrainEnd ==
  /\ worker = "drain"
  /\ Popped >= synced
  /\ worker' = "done"
  /\ flushed' = Len(csv)
  /\ UNCHANGED <<loggerQueue, loggerFlag, csv, due, io, synced>>

WorkerStep ==
  OpenFile \/ CheckRunning \/ WriteRow \/ Idle \/ DrainRow \/ DrainEnd

\* steady_clock: a second passes.
SecondPasses ==
  /\ worker \in {"check", "pop"} /\ io
  /\ due' = TRUE
  /\ UNCHANGED <<loggerQueue, loggerFlag, csv, flushed, io, worker, synced>>

LoggerTypeOK ==
  /\ Len(log_queue) <= LogCapacity
  /\ Len(accepted) >= Len(log_queue)
  /\ flushed \in 0 .. Len(csv)
  /\ due \in BOOLEAN /\ io \in BOOLEAN /\ logger_running \in BOOLEAN
  /\ worker \in {"none", "open", "check", "pop", "drain", "done"}
  /\ published \in Nat /\ synced \in Nat

====
