---- MODULE TradingEngineProofs ----
(***************************************************************************)
(* Proofs about TradingEngine for queues of any size, messages of any      *)
(* number of ticks and any number of rows per tick: shutdown is safe and   *)
(* loses no row, the log queue has one producer, and the network thread    *)
(* runs dry only for a cause.                                              *)
(***************************************************************************)
EXTENDS TradingEngine, SequenceTheorems, TLAPS

-----------------------------------------------------------------------------
(* The inductive invariant.                                                *)

Row == {"M", "T", "P"}

\* TypeOK and what it leaves out.
LoggerTypes ==
  /\ LoggerTypeOK
  /\ log_queue \in Seq(Row) /\ accepted \in Seq(Row) /\ csv \in Seq(Row)

ClientTypes ==
  /\ ClientTypeOK
  /\ todo \in Seq(Tick) /\ tick_queue \in Seq(Tick)
  /\ ticks_pushed \in Nat
  /\ ioc_stopped \in BOOLEAN

ThreadTypes ==
  /\ strategy \in {"none", "check", "pop", "log", "done"}
  /\ g_stop \in BOOLEAN /\ strategy_running \in BOOLEAN
  /\ hb \in [{"main", "strategy"} -> Nat]
  /\ pending_rows \in Seq({"T", "P"})

\* Where main() is before each of the other threads has been started.
BeforeLogger == {"args", "logger"}
BeforeRow == BeforeLogger \cup {"log_strategy"}
BeforeNetwork == BeforeRow \cup {"connect", "start_network"}
BeforeStrategy == BeforeNetwork \cup {"start_strategy"}

\* Where it is after it has joined or destroyed something.
Destroyed == {"stop_logger", "join_logger"}
NetworkJoined == Destroyed \cup {"destroy_client"}
StrategyJoined == NetworkJoined \cup {"join_network"}

Running == {"wait", "post_close", "stop_ioc", "join_strategy"}

\* Which threads exist, and what has been destroyed, at each place of main().
Control ==
  /\ main \in BeforeStrategy \cup Running \cup StrategyJoined \cup {"exited"}
  /\ main \in BeforeLogger => worker = "none"
  /\ main \notin BeforeLogger \cup {"exited"} => worker # "none"
  /\ main \in BeforeStrategy => strategy = "none"
  /\ main \in Running => strategy # "none"
  /\ main \in StrategyJoined => strategy = "done"
  /\ main \in BeforeNetwork => network = "none"
  /\ main \in NetworkJoined => network = "done"
  /\ main = "exited" =>
       /\ strategy \in {"none", "done"}
       /\ network \in {"none", "done"}
       /\ worker \in {"none", "done"}
  /\ main \notin Destroyed \cup {"exited"} => destroyed = {}
  /\ main \in Destroyed => destroyed = {"ws_client", "strategy", "ioc"}
  /\ main \notin {"join_logger", "exited"} => logger_running
  /\ main = "join_logger" => ~logger_running
  /\ worker \in {"drain", "done"} => ~logger_running

\* A row that was accepted is either in the queue or in the file, in order.
Flow ==
  /\ io => accepted = csv \o log_queue
  /\ ~io => csv = <<>>

\* Whoever may push next knows of every push so far, and so does the worker
\* when it drains the queue.
Knowledge ==
  /\ main \in BeforeRow => accepted = <<>>
  /\ main \in BeforeStrategy \cup (StrategyJoined \ {"join_logger"}) =>
       hb["main"] = Len(accepted)
  /\ strategy # "none" => hb["strategy"] = Len(accepted)
  /\ ~logger_running => published = Len(accepted)
  /\ worker \in {"drain", "done"} => synced = published
  /\ worker = "done" => log_queue = <<>> /\ flushed = Len(csv)

\* The row that names the strategy comes first.
Metadata ==
  /\ main \notin BeforeRow \cup {"exited"} => accepted # <<>>
  /\ \A i \in DOMAIN accepted : accepted[i] = "M" <=> i = 1

\* Between a handler without an error and the next there is an operation.
Chain ==
  /\ main \in BeforeNetwork \ {"start_network"} => op = "none"
  /\ main = "start_network" => op = "resolve"
  /\ network = "none" => ~handling /\ ~failed
  /\ network # "none" /\ op = "none" /\ ~handling => failed
  /\ NetworkEndsForCause
  /\ handling => op = "none" /\ subscribed
  /\ op = "read" => subscribed

IInv ==
  /\ LoggerTypes /\ ClientTypes /\ ThreadTypes
  /\ Control /\ Flow /\ Knowledge /\ Metadata /\ Chain

-----------------------------------------------------------------------------
(* Sequences.                                                              *)

\* A row moves from the head of a queue to the end of a file.
LEMMA MoveRow ==
  ASSUME NEW S, NEW c \in Seq(S), NEW q \in Seq(S), q # <<>>
  PROVE  Append(c, Head(q)) \o Tail(q) = c \o q
<1> DEFINE l == Append(c, Head(q)) \o Tail(q)
           r == c \o q
<1>1. /\ Head(q) \in S /\ Tail(q) \in Seq(S) /\ Len(Tail(q)) = Len(q) - 1
      /\ Head(q) = q[1] /\ \A i \in 1 .. Len(Tail(q)) : Tail(q)[i] = q[i + 1]
      /\ Len(c) \in Nat /\ Len(q) \in Nat \ {0}
  BY HeadTailProperties, LenProperties, EmptySeq
<1>2. /\ Append(c, Head(q)) \in Seq(S) /\ Len(Append(c, Head(q))) = Len(c) + 1
      /\ \A i \in 1 .. Len(c) : Append(c, Head(q))[i] = c[i]
      /\ Append(c, Head(q))[Len(c) + 1] = q[1]
  BY <1>1, AppendProperties
<1>3. /\ l \in Seq(S) /\ Len(l) = Len(c) + Len(q)
      /\ \A i \in 1 .. Len(c) + Len(q) :
           l[i] = IF i <= Len(c) + 1 THEN Append(c, Head(q))[i]
                  ELSE Tail(q)[i - (Len(c) + 1)]
  BY <1>1, <1>2, ConcatProperties
<1>4. /\ r \in Seq(S) /\ Len(r) = Len(c) + Len(q)
      /\ \A i \in 1 .. Len(c) + Len(q) :
           r[i] = IF i <= Len(c) THEN c[i] ELSE q[i - Len(c)]
  BY ConcatProperties
<1> HIDE DEF l, r
<1>5. ASSUME NEW i \in 1 .. Len(l) PROVE l[i] = r[i]
  <2>1. CASE i <= Len(c)
    BY <1>1, <1>2, <1>3, <1>4, <2>1
  <2>2. CASE i = Len(c) + 1
    BY <1>1, <1>2, <1>3, <1>4, <2>2, Z3
  <2>3. CASE i > Len(c) + 1
    <3>1. i - (Len(c) + 1) \in 1 .. Len(Tail(q)) /\ (i - (Len(c) + 1)) + 1 = i - Len(c)
      BY <1>1, <1>3, <2>3
    <3> QED
      BY <1>1, <1>3, <1>4, <2>3, <3>1
  <2> QED
    BY <1>1, <2>1, <2>2, <2>3
<1>6. l = r
  BY <1>3, <1>4, <1>5, SeqEqual
<1> QED
  BY <1>6 DEF l, r

\* A row that is appended to a queue comes after all that went before.
LEMMA AppendRow ==
  ASSUME NEW S, NEW c \in Seq(S), NEW q \in Seq(S), NEW e \in S,
         NEW b, b = Append(q, e)
  PROVE  Append(c \o q, e) = c \o b
<1>1. /\ c \o q \in Seq(S) /\ <<e>> \in Seq(S)
      /\ Append(c \o q, e) = (c \o q) \o <<e>> /\ Append(q, e) = q \o <<e>>
  BY ConcatProperties, AppendIsConcat
<1> QED
  BY <1>1, ConcatAssociative, SMTT(30)

-----------------------------------------------------------------------------
(* The initial states.                                                     *)

\* main() begins with every thread yet to be created.
LEMMA InitIInv == Init => IInv
<1> SUFFICES ASSUME Init PROVE IInv
  OBVIOUS
<1> USE DEF Init, InitLogger, InitClient
<1>1. LoggerTypes
  <2>1. Len(log_queue) = 0 /\ log_queue \in Seq(Row) /\ accepted \in Seq(Row) /\ csv \in Seq(Row)
    BY EmptySeq
  <2>2. due \in BOOLEAN /\ logger_running \in BOOLEAN
    BY Zenon
  <2> QED
    BY LoggerAssumption, <2>1, <2>2 DEF LoggerTypes, LoggerTypeOK
<1>2. ClientTypes
  <2>1. Len(tick_queue) = 0 /\ todo \in Seq(Tick) /\ tick_queue \in Seq(Tick)
    BY EmptySeq
  <2>2. /\ handling \in BOOLEAN /\ subscribed \in BOOLEAN /\ failed \in BOOLEAN
        /\ ioc_stopped \in BOOLEAN
    BY Zenon
  <2> QED
    BY ClientAssumption, <2>1, <2>2 DEF ClientTypes, ClientTypeOK
<1>3. ThreadTypes
  <2>1. g_stop \in BOOLEAN /\ strategy_running \in BOOLEAN
    BY Zenon
  <2> QED
    BY <2>1, EmptySeq DEF ThreadTypes
<1>4. Control
  BY DEF Control, BeforeLogger, BeforeRow, BeforeNetwork, BeforeStrategy, Running,
         StrategyJoined, NetworkJoined, Destroyed
<1>5. Flow
  BY DEF Flow
<1>6. Knowledge
  BY DEF Knowledge
<1>7. Metadata
  BY DEF Metadata, BeforeRow, BeforeLogger
<1>8. Chain
  BY DEF Chain, NetworkEndsForCause
<1> QED
  BY <1>1, <1>2, <1>3, <1>4, <1>5, <1>6, <1>7, <1>8 DEF IInv

-----------------------------------------------------------------------------
(* Types.                                                                  *)

\* A call of log_event() or log_active_strategy().
LEMMA LogRowTypes ==
  ASSUME LoggerTypes, NEW row \in Row, LogRow(row), UNCHANGED <<loggerFlag, workerVars>>
  PROVE  LoggerTypes'
<1> USE DEF LoggerTypes, LoggerTypeOK, loggerFlag, workerVars
<1>1. CASE LogAccept(row)
  BY <1>1, LoggerAssumption, AppendProperties, LenProperties DEF LogAccept
<1>2. CASE LogDrop
  BY <1>2 DEF LogDrop, loggerQueue
<1> QED
  BY <1>1, <1>2 DEF LogRow

\* A step of the worker.
LEMMA WorkerTypes ==
  ASSUME LoggerTypes, WorkerStep
  PROVE  LoggerTypes'
<1> USE LoggerAssumption DEF LoggerTypes, LoggerTypeOK, loggerFlag, loggerQueue
<1>1. ASSUME log_queue # <<>>
      PROVE  /\ Written(Head(log_queue)) \in Seq(Row)
             /\ Len(Written(Head(log_queue))) >= Len(csv)
             /\ Tail(log_queue) \in Seq(Row) /\ Len(Tail(log_queue)) = Len(log_queue) - 1
             /\ Len(log_queue) \in Nat /\ Len(csv) \in Nat
  BY <1>1, HeadTailProperties, AppendProperties, LenProperties DEF Written
<1>2. CASE OpenFile
  BY <1>2 DEF OpenFile
<1>3. CASE CheckRunning
  BY <1>3 DEF CheckRunning
<1>4. CASE WriteRow
  <2>1. due' \in BOOLEAN
    BY <1>4, Zenon DEF WriteRow, MaybeFlush
  <2>2. flushed' \in 0 .. Len(csv')
    BY <1>1, <1>4, LenProperties DEF WriteRow, MaybeFlush
  <2> QED
    BY <1>1, <1>4, <2>1, <2>2, LenProperties DEF WriteRow
<1>5. CASE Idle
  <2>1. due' \in BOOLEAN
    BY <1>5, Zenon DEF Idle, MaybeFlush
  <2>2. flushed' \in 0 .. Len(csv')
    BY <1>5, LenProperties DEF Idle, MaybeFlush
  <2> QED
    BY <1>5, <2>1, <2>2 DEF Idle
<1>6. CASE DrainRow
  BY <1>1, <1>6, LenProperties DEF DrainRow
<1>7. CASE DrainEnd
  BY <1>7, LenProperties DEF DrainEnd
<1> QED
  BY <1>2, <1>3, <1>4, <1>5, <1>6, <1>7 DEF WorkerStep

\* Nothing but main, the strategy thread, the worker and the clock changes
\* the logger.
LEMMA NextLoggerTypes == ASSUME IInv, [Next]_vars PROVE LoggerTypes'
<1> USE DEF IInv
<1>1. CASE MainStep
  <2>1. CASE LogActiveStrategy
    BY <2>1, LogRowTypes DEF LogActiveStrategy, Row
  <2>2. CASE ConstructLogger
    BY <2>2 DEF ConstructLogger, StartLogger, loggerFlag, loggerQueue, LoggerTypes, LoggerTypeOK
  <2>3. CASE DestroyLogger
    BY <2>3 DEF DestroyLogger, StopLogger, workerVars, loggerQueue, LoggerTypes, LoggerTypeOK,
                ThreadTypes
  <2>4. CASE UNCHANGED loggerVars
    BY <2>4 DEF loggerVars, LoggerTypes, LoggerTypeOK
  <2> QED
    BY <1>1, <2>1, <2>2, <2>3, <2>4
    DEF MainStep, ParseArgs, RunClient, StartNetworkThread, StartStrategyThread, StopStrategy,
        PostCloseClient, StopIoContext, JoinStrategy, JoinNetwork, DestroyClient, JoinLogger
<1>2. CASE LogNext
  <2>1. Head(pending_rows) \in Row
    BY <1>2, HeadTailProperties DEF LogNext, ThreadTypes, Row
  <2> QED
    BY <1>2, <2>1, LogRowTypes DEF LogNext
<1>3. CASE LoggerThread
  BY <1>3, WorkerTypes DEF LoggerThread
<1>4. CASE Clock
  BY <1>4 DEF Clock, SecondPasses, loggerQueue, loggerFlag, LoggerTypes, LoggerTypeOK
<1>5. CASE UNCHANGED loggerVars
  BY <1>5 DEF loggerVars, LoggerTypes, LoggerTypeOK
<1> QED
  BY <1>1, <1>2, <1>3, <1>4, <1>5
  DEF Next, vars, loggerVars, Signal, StrategyStep, CheckStrategyRunning, Spin, TakeTick, EndTick,
      NetworkThread, Network, Exited

\* A step of the network thread or of the network.
LEMMA NetworkTypes ==
  ASSUME ClientTypes, NetworkStep \/ Completion
  PROVE  ClientTypes'
<1> USE DEF ClientTypes, ClientTypeOK
<1>1. CASE PushTick
  <2>1. Head(todo) \in Tick /\ todo' \in Seq(Tick)
    BY <1>1, HeadTailProperties DEF PushTick
  <2>2. /\ Append(tick_queue, Head(todo)) \in Seq(Tick)
        /\ Len(Append(tick_queue, Head(todo))) = Len(tick_queue) + 1
        /\ Len(tick_queue) \in Nat
    BY <2>1, AppendProperties, LenProperties
  <2>3. tick_queue' \in Seq(Tick)
    BY <1>1, <2>2, Zenon DEF PushTick
  <2>4. Len(tick_queue') <= TickCapacity /\ ticks_pushed' \in Nat
    BY <1>1, <2>2, ClientAssumption DEF PushTick
  <2> QED
    BY <1>1, <2>1, <2>3, <2>4 DEF PushTick
<1>2. CASE ReadAgain
  <2>1. handling' \in BOOLEAN
    BY <1>2, Zenon DEF ReadAgain
  <2> QED
    BY <1>2, <2>1 DEF ReadAgain
<1>3. CASE Close
  BY <1>3 DEF Close
<1>4. CASE NetworkExit
  BY <1>4 DEF NetworkExit
<1>5. CASE Advance
  <2>1. subscribed' \in BOOLEAN
    BY <1>5, Zenon DEF Advance
  <2> QED
    BY <1>5, <2>1 DEF Advance, NextOp
<1>6. CASE Fail
  <2>1. failed' \in BOOLEAN
    BY <1>6, Zenon DEF Fail
  <2> QED
    BY <1>6, <2>1 DEF Fail
<1>7. ASSUME NEW payload \in Payloads, ReadMessage(payload) PROVE ClientTypes'
  <2>1. handling' \in BOOLEAN
    BY <1>7, Zenon DEF ReadMessage
  <2>2. messages' \in 0 .. MaxMessages /\ todo' \in Seq(Tick)
    BY <1>7, ClientAssumption DEF ReadMessage
  <2> QED
    BY <1>7, <2>1, <2>2 DEF ReadMessage
<1>8. CASE OnClose
  BY <1>8 DEF OnClose
<1> QED
  BY <1>1, <1>2, <1>3, <1>4, <1>5, <1>6, <1>7, <1>8 DEF NetworkStep, Completion

\* Main starts and stops the client, and the strategy thread pops ticks.
LEMMA NextClientTypes == ASSUME IInv, [Next]_vars PROVE ClientTypes'
<1> USE DEF IInv
<1>1. CASE MainStep
  <2> USE DEF ClientTypes, ClientTypeOK
  <2>1. CASE RunClient
    BY <2>1 DEF RunClient, Connect
  <2>2. CASE StartNetworkThread
    BY <2>2 DEF StartNetworkThread, StartNetwork
  <2>3. CASE PostCloseClient
    BY <2>3 DEF PostCloseClient, PostClose
  <2>4. CASE StopIoContext
    <3>1. ioc_stopped' \in BOOLEAN
      BY <2>4, Zenon DEF StopIoContext, StopIoc
    <3> QED
      BY <2>4, <3>1 DEF StopIoContext, StopIoc
  <2>5. CASE UNCHANGED clientVars
    BY <2>5 DEF clientVars
  <2> QED
    BY <1>1, <2>1, <2>2, <2>3, <2>4, <2>5
    DEF MainStep, ParseArgs, ConstructLogger, LogActiveStrategy, StartStrategyThread, StopStrategy,
        JoinStrategy, JoinNetwork, DestroyClient, DestroyLogger, JoinLogger
<1>2. ASSUME NEW rows \in TickRows, TakeTick(rows) PROVE ClientTypes'
  BY <1>2, HeadTailProperties, LenProperties, ClientAssumption
  DEF TakeTick, PopTick, ClientTypes, ClientTypeOK
<1>3. CASE NetworkThread \/ Network
  BY <1>3, NetworkTypes DEF NetworkThread, Network
<1>4. CASE UNCHANGED clientVars
  BY <1>4 DEF clientVars, ClientTypes, ClientTypeOK
<1> QED
  BY <1>1, <1>2, <1>3, <1>4
  DEF Next, vars, clientVars, Signal, StrategyStep, CheckStrategyRunning, Spin, LogNext, EndTick,
      LoggerThread, Clock, Exited

\* Every thread stays within its control points.
LEMMA NextThreadTypes == ASSUME IInv, [Next]_vars PROVE ThreadTypes'
<1> USE DEF IInv, ThreadTypes, mainVars, strategyVars
<1>1. Len(accepted) \in Nat /\ Len(accepted') \in Nat
  BY NextLoggerTypes, LenProperties DEF LoggerTypes
<1>2. CASE LogActiveStrategy
  BY <1>1, <1>2 DEF LogActiveStrategy
<1>3. CASE StartStrategyThread
  BY <1>3 DEF StartStrategyThread
<1>4. CASE StopStrategy
  <2>1. strategy_running' \in BOOLEAN
    BY <1>4, Zenon DEF StopStrategy
  <2> QED
    BY <1>4, <2>1 DEF StopStrategy
<1>5. CASE JoinStrategy
  BY <1>5 DEF JoinStrategy
<1>6. CASE Signal
  <2>1. g_stop' \in BOOLEAN
    BY <1>6, Zenon DEF Signal
  <2> QED
    BY <1>6, <2>1 DEF Signal
<1>7. CASE CheckStrategyRunning \/ Spin \/ EndTick
  BY <1>7 DEF CheckStrategyRunning, Spin, EndTick
<1>8. ASSUME NEW rows \in TickRows, TakeTick(rows) PROVE ThreadTypes'
  BY <1>8, RowsAssumption DEF TakeTick
<1>9. CASE LogNext
  BY <1>1, <1>9, HeadTailProperties DEF LogNext
<1>10. CASE UNCHANGED <<strategyVars, g_stop, hb>>
  BY <1>10
<1> QED
  BY <1>2, <1>3, <1>4, <1>5, <1>6, <1>7, <1>8, <1>9, <1>10
  DEF Next, vars, MainStep, ParseArgs, ConstructLogger, RunClient, StartNetworkThread,
      PostCloseClient, StopIoContext, JoinNetwork, DestroyClient, DestroyLogger, JoinLogger,
      StrategyStep, LoggerThread, NetworkThread, Network, Clock, Exited

-----------------------------------------------------------------------------
(* Threads and lifetimes.                                                  *)

\* main() creates, joins and destroys in its order.
LEMMA NextControl == ASSUME IInv, [Next]_vars PROVE Control'
<1> USE DEF IInv, Control, BeforeLogger, BeforeRow, BeforeNetwork, BeforeStrategy, Running,
            StrategyJoined, NetworkJoined, Destroyed, loggerVars, clientVars, strategyVars, mainVars
<1>1. CASE MainStep
  <2>1. CASE ParseArgs
    BY <2>1 DEF ParseArgs
  <2>2. CASE ConstructLogger
    BY <2>2 DEF ConstructLogger, StartLogger, loggerFlag
  <2>3. CASE LogActiveStrategy
    BY <2>3 DEF LogActiveStrategy, loggerFlag, workerVars
  <2>4. CASE RunClient
    BY <2>4 DEF RunClient, Connect
  <2>5. CASE StartNetworkThread
    BY <2>5 DEF StartNetworkThread, StartNetwork
  <2>6. CASE StartStrategyThread
    BY <2>6 DEF StartStrategyThread
  <2>7. CASE StopStrategy
    BY <2>7 DEF StopStrategy
  <2>8. CASE PostCloseClient
    BY <2>8 DEF PostCloseClient, PostClose
  <2>9. CASE StopIoContext
    BY <2>9 DEF StopIoContext, StopIoc
  <2>10. CASE JoinStrategy
    BY <2>10 DEF JoinStrategy
  <2>11. CASE JoinNetwork
    BY <2>11 DEF JoinNetwork
  <2>12. CASE DestroyClient
    BY <2>12 DEF DestroyClient
  <2>13. CASE DestroyLogger
    BY <2>13 DEF DestroyLogger, StopLogger, workerVars
  <2>14. CASE JoinLogger
    BY <2>14 DEF JoinLogger
  <2> QED
    BY <1>1, <2>1, <2>2, <2>3, <2>4, <2>5, <2>6, <2>7, <2>8, <2>9, <2>10, <2>11, <2>12, <2>13, <2>14 DEF MainStep
<1>2. CASE Signal
  BY <1>2 DEF Signal
<1>3. CASE StrategyStep
  <2>1. CASE CheckStrategyRunning \/ Spin \/ EndTick
    BY <2>1 DEF CheckStrategyRunning, Spin, EndTick
  <2>2. ASSUME NEW rows \in TickRows, TakeTick(rows) PROVE Control'
    BY <2>2 DEF TakeTick, PopTick
  <2>3. CASE LogNext
    BY <2>3 DEF LogNext, loggerFlag, workerVars
  <2> QED
    BY <1>3, <2>1, <2>2, <2>3 DEF StrategyStep
<1>4. CASE LoggerThread
  <2> USE DEF LoggerThread, loggerFlag
  <2>1. CASE OpenFile \/ CheckRunning
    BY <1>4, <2>1 DEF OpenFile, CheckRunning
  <2>2. CASE WriteRow \/ Idle
    BY <1>4, <2>2 DEF WriteRow, Idle
  <2>3. CASE DrainRow \/ DrainEnd
    BY <1>4, <2>3 DEF DrainRow, DrainEnd
  <2> QED
    BY <1>4, <2>1, <2>2, <2>3 DEF WorkerStep
<1>5. CASE NetworkThread
  <2> USE DEF NetworkThread
  <2>1. CASE PushTick \/ ReadAgain \/ Close
    BY <1>5, <2>1 DEF PushTick, ReadAgain, Close
  <2>2. CASE NetworkExit
    BY <1>5, <2>2 DEF NetworkExit
  <2> QED
    BY <1>5, <2>1, <2>2 DEF NetworkStep
<1>6. CASE Network
  BY <1>6 DEF Network, Completion, Advance, Fail, ReadMessage, OnClose
<1>7. CASE Clock
  BY <1>7 DEF Clock, SecondPasses, loggerFlag
<1>8. CASE UNCHANGED vars
  BY <1>8 DEF vars
<1> QED
  BY <1>1, <1>2, <1>3, <1>4, <1>5, <1>6, <1>7, <1>8 DEF Next, Exited

-----------------------------------------------------------------------------
(* Rows.                                                                   *)

\* A row is accepted at the end of the queue and leaves it for the end of
\* the file.
LEMMA NextFlow == ASSUME IInv, [Next]_vars PROVE Flow'
<1> USE DEF IInv, Flow
<1>1. log_queue \in Seq(Row) /\ accepted \in Seq(Row) /\ csv \in Seq(Row) /\ io \in BOOLEAN
  BY DEF LoggerTypes, LoggerTypeOK
<1>2. ASSUME NEW row \in Row, LogRow(row), UNCHANGED workerVars PROVE Flow'
  <2>1. CASE LogAccept(row)
    <3>1. Append(csv \o log_queue, row) = csv \o Append(log_queue, row)
      BY ONLY <1>1, row \in Row, AppendRow, ZenonT(30)
    <3>2. /\ io' = io /\ csv' = csv
          /\ log_queue' = Append(log_queue, row) /\ accepted' = Append(accepted, row)
      BY <1>2, <2>1 DEF LogAccept, workerVars
    <3> QED
      BY <3>1, <3>2, Zenon
  <2>2. CASE LogDrop
    BY <1>2, <2>2, Zenon DEF LogDrop, loggerQueue, workerVars
  <2> QED
    BY <1>2, <2>1, <2>2 DEF LogRow
<1>3. CASE LogActiveStrategy
  BY <1>2, <1>3 DEF LogActiveStrategy, Row
<1>4. CASE LogNext
  <2>1. Head(pending_rows) \in Row
    BY <1>4, HeadTailProperties DEF LogNext, ThreadTypes, Row
  <2> QED
    BY <1>2, <1>4, <2>1 DEF LogNext
<1>5. CASE WriteRow \/ DrainRow
  <2>1. /\ io' = io /\ accepted' = accepted /\ log_queue' = Tail(log_queue)
        /\ csv' = IF io THEN Append(csv, Head(log_queue)) ELSE csv
    BY <1>5 DEF WriteRow, DrainRow, Written, loggerFlag
  <2>2. Append(csv, Head(log_queue)) \o Tail(log_queue) = csv \o log_queue
    BY <1>1, <1>5, MoveRow DEF WriteRow, DrainRow
  <2> QED
    BY <2>1, <2>2, Zenon
<1>6. CASE UNCHANGED <<io, csv, log_queue, accepted>>
  BY <1>6
<1> QED
  BY <1>3, <1>4, <1>5, <1>6
  DEF Next, vars, loggerVars, loggerQueue, workerVars, loggerFlag,
      MainStep, ParseArgs, ConstructLogger, StartLogger, RunClient, StartNetworkThread,
      StartStrategyThread, StopStrategy, PostCloseClient, StopIoContext, JoinStrategy, JoinNetwork,
      DestroyClient, DestroyLogger, JoinLogger,
      Signal, StrategyStep, CheckStrategyRunning, Spin, TakeTick, EndTick,
      LoggerThread, WorkerStep, OpenFile, CheckRunning, Idle, DrainEnd,
      NetworkThread, Network, Clock, SecondPasses, Exited

\* Main hands the right to push to the strategy thread when it starts it and
\* takes it back when it joins it, so that the store of running_ = false
\* publishes every push and the worker drains them all.
LEMMA NextKnowledge == ASSUME IInv, [Next]_vars PROVE Knowledge'
<1> USE DEF IInv, Control, Knowledge, ThreadTypes, BeforeLogger, BeforeRow, BeforeNetwork,
            BeforeStrategy, Running, StrategyJoined, NetworkJoined, Destroyed,
            loggerVars, clientVars, strategyVars, mainVars, loggerQueue, loggerFlag, workerVars
<1>1. CASE MainStep
  <2>1. CASE ParseArgs
    BY <2>1 DEF ParseArgs
  <2>2. CASE ConstructLogger
    BY <2>2 DEF ConstructLogger, StartLogger
  <2>3. CASE LogActiveStrategy
    BY <2>3 DEF LogActiveStrategy
  <2>4. CASE RunClient \/ StartNetworkThread
    BY <2>4 DEF RunClient, StartNetworkThread
  <2>5. CASE StartStrategyThread
    BY <2>5 DEF StartStrategyThread
  <2>6. CASE StopStrategy \/ PostCloseClient \/ StopIoContext
    BY <2>6 DEF StopStrategy, PostCloseClient, StopIoContext
  <2>7. CASE JoinStrategy
    BY <2>7 DEF JoinStrategy
  <2>8. CASE JoinNetwork \/ DestroyClient
    BY <2>8 DEF JoinNetwork, DestroyClient
  <2>9. CASE DestroyLogger
    BY <2>9 DEF DestroyLogger, StopLogger
  <2>10. CASE JoinLogger
    BY <2>10 DEF JoinLogger
  <2> QED
    BY <1>1, <2>1, <2>2, <2>3, <2>4, <2>5, <2>6, <2>7, <2>8, <2>9, <2>10 DEF MainStep
<1>2. CASE Signal
  BY <1>2 DEF Signal
<1>3. CASE StrategyStep
  <2>1. CASE CheckStrategyRunning \/ Spin \/ EndTick
    BY <2>1 DEF CheckStrategyRunning, Spin, EndTick
  <2>2. ASSUME NEW rows \in TickRows, TakeTick(rows) PROVE Knowledge'
    BY <2>2 DEF TakeTick
  <2>3. CASE LogNext
    BY <2>3 DEF LogNext
  <2> QED
    BY <1>3, <2>1, <2>2, <2>3 DEF StrategyStep
<1>4. CASE LoggerThread
  <2> USE DEF LoggerThread
  <2>1. CASE OpenFile
    BY <1>4, <2>1 DEF OpenFile
  <2>2. CASE CheckRunning
    BY <1>4, <2>2 DEF CheckRunning
  <2>3. CASE WriteRow \/ Idle
    BY <1>4, <2>3 DEF WriteRow, Idle
  <2>4. CASE DrainRow
    BY <1>4, <2>4 DEF DrainRow
  <2>5. CASE DrainEnd
    <3>1. Len(log_queue) = 0
      BY <2>5, LenProperties DEF DrainEnd, Popped, LoggerTypes, LoggerTypeOK
    <3>2. log_queue = <<>>
      BY <3>1, EmptySeq DEF LoggerTypes
    <3> QED
      BY <1>4, <2>5, <3>2 DEF DrainEnd
  <2> QED
    BY <1>4, <2>1, <2>2, <2>3, <2>4, <2>5 DEF WorkerStep
<1>5. CASE NetworkThread \/ Network
  BY <1>5 DEF NetworkThread, Network
<1>6. CASE Clock
  BY <1>6 DEF Clock, SecondPasses
<1>7. CASE UNCHANGED vars
  BY <1>7 DEF vars
<1> QED
  BY <1>1, <1>2, <1>3, <1>4, <1>5, <1>6, <1>7 DEF Next, Exited

\* The first row is main's and every later one is the strategy's.
LEMMA NextMetadata == ASSUME IInv, [Next]_vars PROVE Metadata'
<1> USE DEF IInv, Metadata, BeforeRow, BeforeLogger
<1>1. accepted \in Seq(Row)
  BY DEF LoggerTypes
<1>2. CASE LogActiveStrategy
  <2>1. accepted = <<>> /\ main' = "connect" /\ (LogAccept("M") \/ LogDrop)
    BY <1>2 DEF LogActiveStrategy, LogRow, Knowledge
  <2>2. ~LogDrop
    BY <2>1, LoggerAssumption DEF LogDrop
  <2>3. accepted' = <<"M">>
    BY <2>1, <2>2 DEF LogAccept
  <2> QED
    BY <2>1, <2>3
<1>3. CASE LogNext
  <2>1. /\ main' = main /\ Head(pending_rows) \in {"T", "P"}
        /\ LogAccept(Head(pending_rows)) \/ LogDrop
    BY <1>3, HeadTailProperties DEF LogNext, LogRow, mainVars, ThreadTypes
  <2>2. CASE LogDrop
    BY <2>1, <2>2 DEF LogDrop, loggerQueue
  <2>3. CASE LogAccept(Head(pending_rows))
    <3> DEFINE e == Head(pending_rows)
    <3>1. main \notin BeforeRow \cup {"exited"}
      BY <1>3 DEF LogNext, Control, BeforeStrategy, BeforeNetwork
    <3>2. e \in Row /\ e # "M" /\ accepted' = Append(accepted, e)
      BY <2>1, <2>3 DEF LogAccept, Row
    <3>3. /\ Len(accepted) \in Nat \ {0} /\ DOMAIN accepted = 1 .. Len(accepted)
          /\ DOMAIN accepted' = 1 .. Len(accepted) + 1 /\ accepted' # <<>>
          /\ \A i \in 1 .. Len(accepted) : accepted'[i] = accepted[i]
          /\ accepted'[Len(accepted) + 1] = e
      BY <1>1, <3>1, <3>2, EmptySeq, LenProperties, AppendProperties
    <3> HIDE DEF e
    <3> QED
      BY <2>1, <3>2, <3>3
  <2> QED
    BY <2>1, <2>2, <2>3
<1>4. CASE MainStep /\ ~LogActiveStrategy
  BY <1>4
  DEF MainStep, ParseArgs, ConstructLogger, StartLogger, RunClient, StartNetworkThread,
      StartStrategyThread, StopStrategy, PostCloseClient, StopIoContext, JoinStrategy, JoinNetwork,
      DestroyClient, DestroyLogger, JoinLogger, loggerVars, loggerQueue
<1>5. CASE UNCHANGED <<main, accepted>>
  BY <1>5
<1> QED
  BY <1>2, <1>3, <1>4, <1>5
  DEF Next, vars, loggerVars, loggerQueue, mainVars,
      Signal, StrategyStep, CheckStrategyRunning, Spin, TakeTick, EndTick,
      LoggerThread, WorkerStep, OpenFile, CheckRunning, WriteRow, Idle, DrainRow, DrainEnd,
      NetworkThread, Network, Clock, SecondPasses, Exited

-----------------------------------------------------------------------------
(* The chain of operations.                                                *)

\* What one thread waits for is what the one before it has done.
LEMMA NextChain == ASSUME IInv, [Next]_vars PROVE Chain'
<1> USE DEF IInv, Chain, NetworkEndsForCause, BeforeNetwork, BeforeRow, BeforeLogger, clientVars,
            mainVars
<1>1. ClientTypeOK
  BY DEF ClientTypes
<1>2. CASE MainStep
  <2>1. CASE RunClient
    BY <2>1 DEF RunClient, Connect, Control
  <2>2. CASE StartNetworkThread
    BY <2>2 DEF StartNetworkThread, StartNetwork
  <2>3. CASE PostCloseClient
    BY <2>3 DEF PostCloseClient, PostClose
  <2>4. CASE StopIoContext
    BY <2>4 DEF StopIoContext, StopIoc
  <2>5. CASE UNCHANGED clientVars
    BY <1>2, <2>5
    DEF MainStep, ParseArgs, ConstructLogger, LogActiveStrategy, RunClient, StartNetworkThread,
        StartStrategyThread, StopStrategy, PostCloseClient, StopIoContext, JoinStrategy,
        JoinNetwork, DestroyClient, DestroyLogger, JoinLogger, Connect
  <2> QED
    BY <1>2, <2>1, <2>2, <2>3, <2>4, <2>5
    DEF MainStep, ParseArgs, ConstructLogger, LogActiveStrategy, StartStrategyThread, StopStrategy,
        JoinStrategy, JoinNetwork, DestroyClient, DestroyLogger, JoinLogger
<1>3. ASSUME NEW rows \in TickRows, TakeTick(rows) PROVE Chain'
  BY <1>3 DEF TakeTick, PopTick
<1>4. CASE NetworkThread
  <2> USE DEF NetworkThread
  <2>1. CASE PushTick \/ Close
    BY <1>4, <2>1 DEF PushTick, Close
  <2>2. CASE ReadAgain
    BY <1>4, <2>2 DEF ReadAgain, Control
  <2>3. CASE NetworkExit
    BY <1>4, <2>3 DEF NetworkExit
  <2> QED
    BY <1>4, <2>1, <2>2, <2>3 DEF NetworkStep
<1>5. CASE Network
  <2> USE DEF Network, Dispatching
  <2>1. CASE Advance
    BY <1>1, <1>5, <2>1 DEF Advance, NextOp, ClientTypeOK, Control
  <2>2. CASE Fail
    BY <1>5, <2>2 DEF Fail, Control
  <2>3. ASSUME NEW payload \in Payloads, ReadMessage(payload) PROVE Chain'
    BY <1>5, <2>3 DEF ReadMessage, Control
  <2>4. CASE OnClose
    BY <1>5, <2>4 DEF OnClose
  <2> QED
    BY <1>5, <2>1, <2>2, <2>3, <2>4 DEF Completion
<1>6. CASE UNCHANGED <<clientVars, main>>
  BY <1>6
<1> QED
  BY <1>2, <1>3, <1>4, <1>5, <1>6
  DEF Next, vars, Signal, StrategyStep, CheckStrategyRunning, Spin, LogNext, EndTick, LoggerThread,
      Clock, Exited

-----------------------------------------------------------------------------
(* Theorems.                                                               *)

\* IInv holds in every reachable state.
THEOREM Invariance == Spec => []IInv
<1>1. IInv /\ [Next]_vars => IInv'
  <2> SUFFICES ASSUME IInv, [Next]_vars PROVE IInv'
    OBVIOUS
  <2>1. LoggerTypes' /\ ClientTypes' /\ ThreadTypes'
    BY NextLoggerTypes, NextClientTypes, NextThreadTypes
  <2>2. Control' /\ Flow' /\ Knowledge' /\ Metadata' /\ Chain'
    BY NextControl, NextFlow, NextKnowledge, NextMetadata, NextChain
  <2> QED
    BY <2>1, <2>2 DEF IInv
<1> QED
  BY InitIInv, <1>1, PTL DEF Spec

\* No queue grows past its capacity and every counter keeps its range.
THEOREM TypeCorrect == Spec => []TypeOK
<1>1. IInv => TypeOK
  BY DEF IInv, LoggerTypes, ClientTypes, ThreadTypes, TypeOK
<1> QED
  BY Invariance, <1>1, PTL

\* Shutdown loses no row: ~AsyncLogger's release store publishes main's
\* knowledge of every push, and the worker drains what it publishes.
THEOREM ShutdownLosesNothing == Spec => []LogComplete
<1>1. IInv => LogComplete
  <2> SUFFICES ASSUME IInv, worker = "done", io
               PROVE  csv = accepted /\ flushed = Len(accepted)
    BY DEF LogComplete
  <2>1. log_queue = <<>> /\ flushed = Len(csv) /\ accepted = csv \o log_queue
    BY DEF IInv, Knowledge, Flow
  <2>2. csv \o <<>> = csv
    BY ConcatEmptySeq DEF IInv, LoggerTypes
  <2> QED
    BY <2>1, <2>2
<1> QED
  BY Invariance, <1>1, PTL

\* main() and StrategyEngine::run() never push at the same time: every push
\* happens before the strategy thread's next step.
THEOREM SingleProducer == Spec => []ProducerHandover
<1>1. IInv => ProducerHandover
  BY DEF IInv, Knowledge, ProducerHandover
<1> QED
  BY Invariance, <1>1, PTL

\* log_active_strategy()'s row opens the file and is not repeated.
THEOREM MetadataOpensFile == Spec => []MetadataFirst
<1>1. IInv => MetadataFirst
  <2> SUFFICES ASSUME IInv, NEW i \in DOMAIN csv PROVE csv[i] = "M" <=> i = 1
    BY DEF MetadataFirst
  <2>1. csv \in Seq(Row) /\ log_queue \in Seq(Row) /\ accepted \in Seq(Row)
    BY DEF IInv, LoggerTypes
  <2>2. io /\ accepted = csv \o log_queue
    BY DEF IInv, Flow
  <2>3. i \in DOMAIN accepted /\ accepted[i] = csv[i]
    BY <2>1, <2>2, LenProperties, ConcatProperties
  <2> QED
    BY <2>3 DEF IInv, Metadata
<1> QED
  BY Invariance, <1>1, PTL

\* main() joins each thread before it destroys what the thread uses.
THEOREM SafeDestruction == Spec => []NoUseAfterDestroy
<1>1. IInv => NoUseAfterDestroy
  BY DEF IInv, Control, NoUseAfterDestroy, BeforeLogger, BeforeRow, BeforeNetwork, BeforeStrategy,
         Running, StrategyJoined, NetworkJoined, Destroyed
<1> QED
  BY Invariance, <1>1, PTL

\* ioc.run() returns only after an error or ioc.stop().
THEOREM NetworkRunsDryForCause == Spec => []NetworkEndsForCause
<1>1. IInv => NetworkEndsForCause
  BY DEF IInv, Chain
<1> QED
  BY Invariance, <1>1, PTL

\* on_read never shares read_buffer_ with an outstanding async_read.
THEOREM BufferHasOneUser == Spec => []BufferExclusive
<1>1. IInv => BufferExclusive
  BY DEF IInv, Chain, BufferExclusive
<1> QED
  BY Invariance, <1>1, PTL

====
