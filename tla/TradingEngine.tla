---- MODULE TradingEngine ----
(***************************************************************************)
(* src/main.cpp: the main thread brings up the logger, the network thread  *)
(* and the strategy thread, waits for a signal and shuts them down; the    *)
(* four threads interleave at every access to shared state.                *)
(*                                                                         *)
(* hb[t] counts the log rows whose push happens before thread t's next     *)
(* step: a thread knows its own pushes, what its creator knew, and what    *)
(* the threads it joined knew.                                             *)
(***************************************************************************)
EXTENDS AsyncLogger, WebSocketClient

CONSTANT
  TickRows   \* the sequences of rows a tick can make the strategy log

ASSUME RowsAssumption == TickRows \subseteq Seq({"T", "P"})

VARIABLES
  main,             \* where main() stands
  g_stop,
  strategy,         \* where StrategyEngine::run() stands
  strategy_running, \* its running_
  pending_rows,     \* the rows of the current tick not logged yet
  destroyed,        \* the objects whose destructors have run
  hb

mainVars == <<main, g_stop, destroyed>>
strategyVars == <<strategy, strategy_running, pending_rows>>
vars == <<log_queue, accepted, csv, flushed, due, io, worker,
          logger_running, published, synced,
          op, todo, handling, subscribed, failed, messages, closing,
          network, ioc_stopped, tick_queue, ticks_pushed,
          main, g_stop, strategy, strategy_running, pending_rows, destroyed, hb>>

Init ==
  /\ InitLogger
  /\ InitClient
  /\ main = "args" /\ g_stop = FALSE /\ destroyed = {}
  /\ strategy = "none" /\ strategy_running = TRUE /\ pending_rows = <<>>
  /\ hb = [t \in {"main", "strategy"} |-> 0]

-----------------------------------------------------------------------------
(* The main thread.                                                        *)

\* An invalid --strategy ends the program; otherwise the signal handlers are
\* installed.
ParseArgs ==
  /\ main = "args"
  /\ main' \in {"exited", "logger"}
  /\ UNCHANGED <<loggerVars, clientVars, strategyVars, g_stop, destroyed, hb>>

\* Faulty variant: the strategy thread starts before main has logged.
ConstructLoggerAndStrategy ==
  /\ main = "logger"
  /\ main' = "log_strategy"
  /\ strategy' = "check"
  /\ StartLogger
  /\ UNCHANGED <<clientVars, strategy_running, pending_rows, g_stop, destroyed, hb>>

ConstructLogger ==
  /\ main = "logger"
  /\ main' = "log_strategy"
  /\ StartLogger
  /\ UNCHANGED <<clientVars, strategyVars, g_stop, destroyed, hb>>

\* Faulty variant: the metadata row is forgotten.
LogActiveStrategyMissing ==
  /\ main = "log_strategy"
  /\ main' = "connect"
  /\ UNCHANGED <<loggerVars, clientVars, strategyVars, g_stop, destroyed, hb>>

\* logger.log_active_strategy(...)
LogActiveStrategy ==
  /\ main = "log_strategy"
  /\ main' = "connect"
  /\ LogRow("M")
  /\ hb' = [hb EXCEPT !["main"] = Len(accepted')]
  /\ UNCHANGED <<loggerFlag, workerVars, clientVars, strategyVars, g_stop, destroyed>>

RunClient ==
  /\ main = "connect"
  /\ main' = "start_network"
  /\ Connect
  /\ UNCHANGED <<loggerVars, strategyVars, g_stop, destroyed, hb>>

StartNetworkThread ==
  /\ main = "start_network"
  /\ main' = "start_strategy"
  /\ StartNetwork
  /\ UNCHANGED <<loggerVars, strategyVars, g_stop, destroyed, hb>>

StartStrategyThread ==
  /\ main = "start_strategy"
  /\ main' = "wait"
  /\ strategy' = "check"
  /\ hb' = [hb EXCEPT !["strategy"] = hb["main"]]
  /\ UNCHANGED <<loggerVars, clientVars, strategy_running, pending_rows, g_stop, destroyed>>

\* The 50 ms polling loop sees g_stop; strategy.stop().
StopStrategy ==
  /\ main = "wait"
  /\ g_stop
  /\ main' = "post_close"
  /\ strategy_running' = FALSE
  /\ UNCHANGED <<loggerVars, clientVars, strategy, pending_rows, g_stop, destroyed, hb>>

PostCloseClient ==
  /\ main = "post_close"
  /\ main' = "stop_ioc"
  /\ PostClose
  /\ UNCHANGED <<loggerVars, strategyVars, g_stop, destroyed, hb>>

\* Faulty variant: ioc.stop() is forgotten.
StopIoContextMissing ==
  /\ main = "stop_ioc"
  /\ main' = "join_strategy"
  /\ UNCHANGED <<loggerVars, clientVars, strategyVars, g_stop, destroyed, hb>>

StopIoContext ==
  /\ main = "stop_ioc"
  /\ main' = "join_strategy"
  /\ StopIoc
  /\ UNCHANGED <<loggerVars, strategyVars, g_stop, destroyed, hb>>

\* Faulty variant: the strategy thread is not joined.
JoinStrategyMissing ==
  /\ main = "join_strategy"
  /\ main' = "join_network"
  /\ UNCHANGED <<loggerVars, clientVars, strategyVars, g_stop, destroyed, hb>>

JoinStrategy ==
  /\ main = "join_strategy"
  /\ strategy = "done"
  /\ main' = "join_network"
  /\ hb' = [hb EXCEPT !["main"] = hb["strategy"]]
  /\ UNCHANGED <<loggerVars, clientVars, strategyVars, g_stop, destroyed>>

JoinNetwork ==
  /\ main = "join_network"
  /\ network = "done"
  /\ main' = "destroy_client"
  /\ UNCHANGED <<loggerVars, clientVars, strategyVars, g_stop, destroyed, hb>>

\* The locals go in reverse order: the client, the strategy and the
\* io_context, then the logger, whose destructor stops and joins its worker.
DestroyClient ==
  /\ main = "destroy_client"
  /\ main' = "stop_logger"
  /\ destroyed' = destroyed \cup {"ws_client", "strategy", "ioc"}
  /\ UNCHANGED <<loggerVars, clientVars, strategyVars, g_stop, hb>>

DestroyLogger ==
  /\ main = "stop_logger"
  /\ main' = "join_logger"
  /\ StopLogger(hb["main"])
  /\ UNCHANGED <<loggerQueue, workerVars, clientVars, strategyVars, g_stop, destroyed, hb>>

JoinLogger ==
  /\ main = "join_logger"
  /\ worker = "done"
  /\ main' = "exited"
  /\ destroyed' = destroyed \cup {"logger", "position_manager", "tick_queue", "book"}
  /\ UNCHANGED <<loggerVars, clientVars, strategyVars, g_stop, hb>>

MainStep ==
  \/ ParseArgs \/ ConstructLogger \/ LogActiveStrategy \/ RunClient
  \/ StartNetworkThread \/ StartStrategyThread
  \/ StopStrategy \/ PostCloseClient \/ StopIoContext
  \/ JoinStrategy \/ JoinNetwork \/ DestroyClient \/ DestroyLogger \/ JoinLogger

\* on_signal, any time after the handlers were installed.
Signal ==
  /\ main \notin {"args", "exited"}
  /\ ~g_stop
  /\ g_stop' = TRUE
  /\ UNCHANGED <<loggerVars, clientVars, strategyVars, main, destroyed, hb>>

-----------------------------------------------------------------------------
(* The strategy thread: StrategyEngine::run().                             *)

CheckStrategyRunning ==
  /\ strategy = "check"
  /\ strategy' = IF strategy_running THEN "pop" ELSE "done"
  /\ UNCHANGED <<loggerVars, clientVars, mainVars, strategy_running, pending_rows, hb>>

\* pop() returns false (the queue is empty or looks so): spin.
Spin ==
  /\ strategy = "pop"
  /\ strategy' = "check"
  /\ UNCHANGED <<loggerVars, clientVars, mainVars, strategy_running, pending_rows, hb>>

\* pop() returns a tick; StrategyEngine says what it logs.
TakeTick(rows) ==
  /\ strategy = "pop"
  /\ strategy' = "log"
  /\ pending_rows' = rows
  /\ PopTick
  /\ UNCHANGED <<loggerVars, mainVars, strategy_running, hb>>

\* (void)logger_.log_event(...)
LogNext ==
  /\ strategy = "log" /\ pending_rows # <<>>
  /\ pending_rows' = Tail(pending_rows)
  /\ LogRow(Head(pending_rows))
  /\ hb' = [hb EXCEPT !["strategy"] = IF accepted' = accepted THEN @ ELSE Len(accepted')]
  /\ UNCHANGED <<loggerFlag, workerVars, clientVars, mainVars, strategy, strategy_running>>

EndTick ==
  /\ strategy = "log" /\ pending_rows = <<>>
  /\ strategy' = "check"
  /\ UNCHANGED <<loggerVars, clientVars, mainVars, strategy_running, pending_rows, hb>>

StrategyStep ==
  \/ CheckStrategyRunning
  \/ Spin
  \/ \E rows \in TickRows : TakeTick(rows)
  \/ LogNext
  \/ EndTick

-----------------------------------------------------------------------------
LoggerThread == WorkerStep /\ UNCHANGED <<clientVars, mainVars, strategyVars, hb>>
NetworkThread == NetworkStep /\ UNCHANGED <<loggerVars, mainVars, strategyVars, hb>>
Network == Completion /\ UNCHANGED <<loggerVars, mainVars, strategyVars, hb>>
Clock == SecondPasses /\ UNCHANGED <<clientVars, mainVars, strategyVars, hb>>

\* The process has ended.
Exited ==
  /\ main = "exited"
  /\ UNCHANGED vars

Next ==
  \/ MainStep
  \/ Signal
  \/ StrategyStep
  \/ LoggerThread
  \/ NetworkThread
  \/ Network
  \/ Clock
  \/ Exited

Spec == Init /\ [][Next]_vars

\* Main, the logger's worker and the network thread are scheduled when they
\* can take a step; the network and signals owe nothing, and the strategy
\* thread may be held up for ever.
ThreadFairness ==
  /\ WF_vars(MainStep)
  /\ WF_vars(LoggerThread)
  /\ WF_vars(NetworkThread)

\* A pushed row becomes visible to a worker that keeps popping, and time
\* passes.
LoggerFairness ==
  /\ SF_vars(WriteRow /\ UNCHANGED <<clientVars, mainVars, strategyVars, hb>>)
  /\ WF_vars(Clock)

FairSpec == Spec /\ ThreadFairness /\ LoggerFairness

\* The strategy thread is scheduled as well.
StrategyScheduled == WF_vars(StrategyStep)

-----------------------------------------------------------------------------
(* Properties.                                                             *)

TypeOK ==
  /\ LoggerTypeOK
  /\ ClientTypeOK
  /\ strategy \in {"none", "check", "pop", "log", "done"}
  /\ g_stop \in BOOLEAN /\ strategy_running \in BOOLEAN
  /\ hb \in [{"main", "strategy"} -> Nat]

\* When the worker has ended, the file holds every row push() accepted, in
\* order, to the last one: shutdown loses nothing, though pop() in the drain
\* loop may not see a push that is not ordered before it.
LogComplete ==
  worker = "done" /\ io => csv = accepted /\ flushed = Len(accepted)

\* The log queue has one producer at a time: while the strategy thread runs,
\* every push so far happens before its next step, main's included.
ProducerHandover ==
  strategy \in {"check", "pop", "log"} => hb["strategy"] = Len(accepted)

\* The row that names the active strategy is the first one of the file and
\* the only one of its kind.
MetadataFirst ==
  \A i \in DOMAIN csv : csv[i] = "M" <=> i = 1

\* No thread runs while an object it uses is gone.
NoUseAfterDestroy ==
  /\ strategy \in {"check", "pop", "log"} =>
       destroyed \cap {"strategy", "tick_queue", "book", "position_manager", "logger"} = {}
  /\ network = "run" => destroyed \cap {"ws_client", "ioc", "tick_queue"} = {}
  /\ worker \notin {"none", "done"} => "logger" \notin destroyed

\* After a signal the program ends, whatever the network does (an operation
\* that never completes, a connection that failed long ago, a close() posted
\* in the middle of a handshake), if all four threads are scheduled.
ShutdownCompletes == StrategyScheduled => (g_stop ~> main = "exited")

\* An accepted row is flushed to the file without any further row being
\* logged, without a shutdown, and even if the strategy thread is held up.
RowsReachFile ==
  \A n \in 1 .. 3 : Len(accepted) >= n /\ io ~> flushed >= n

\* on_read ends even if the strategy thread never pops: a full tick queue
\* drops ticks, it does not hold up the network thread.
NetworkNeverBlocks == handling ~> ~handling

====
