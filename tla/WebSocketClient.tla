---- MODULE WebSocketClient ----
(***************************************************************************)
(* src/websocket_client.cpp on the io_context that the network thread      *)
(* runs.  One chain of asynchronous operations (resolve, connect, TLS and  *)
(* websocket handshakes, subscription, reads) is driven by completion      *)
(* handlers that run one at a time; on_read hands each message's ticks to  *)
(* the tick queue, one push at a time, while the strategy thread pops.     *)
(*                                                                         *)
(* Boost.Asio and Beast are external: an operation completes, with an      *)
(* error or without, whenever the network lets it; ioc.run() returns when  *)
(* it was stopped or has neither an operation nor a handler left.          *)
(***************************************************************************)
EXTENDS Naturals, Sequences

CONSTANTS
  Payloads,       \* what a message can parse to: sequences of ticks
  TickCapacity,   \* kTickQueueSize: 65536
  MaxMessages     \* bound on the messages the server sends

Tick == UNION {{p[i] : i \in DOMAIN p} : p \in Payloads}

ASSUME ClientAssumption ==
  /\ Payloads \subseteq Seq(Tick)
  /\ TickCapacity \in Nat \ {0}
  /\ MaxMessages \in Nat

VARIABLES
  op,            \* the operation of the chain that is outstanding
  todo,          \* the ticks on_read has still to push
  handling,      \* on_read is running
  subscribed,    \* history: the subscription was written
  failed,        \* history: a handler received an error
  messages,      \* messages received
  closing,       \* close(): "no", "posted", "started" (async_close) or "done"
  network,       \* the network thread: "none", "run" or "done"
  ioc_stopped,
  tick_queue,
  ticks_pushed   \* pushes tick_queue has accepted

clientVars == <<op, todo, handling, subscribed, failed, messages, closing,
                network, ioc_stopped, tick_queue, ticks_pushed>>

InitClient ==
  /\ op = "none" /\ todo = <<>> /\ handling = FALSE
  /\ subscribed = FALSE /\ failed = FALSE /\ messages = 0
  /\ closing = "no"
  /\ network = "none" /\ ioc_stopped = FALSE
  /\ tick_queue = <<>> /\ ticks_pushed = 0

\* ioc.run() may start another handler.
Dispatching == network = "run" /\ ~handling /\ ~ioc_stopped

\* What on_resolve, on_connect, on_ssl_handshake and the subscription's
\* handler start when they receive no error.
NextOp(completed) ==
  CASE completed = "resolve" -> "connect"
    [] completed = "connect" -> "ssl_handshake"
    [] completed = "ssl_handshake" -> "ws_handshake"
    [] completed = "ws_handshake" -> "subscribe_write"
    [] completed = "subscribe_write" -> "read"

-----------------------------------------------------------------------------
(* Called by the main thread.                                              *)

\* run(): the resolve is outstanding before the network thread exists.
Connect ==
  /\ op' = "resolve"
  /\ UNCHANGED <<todo, handling, subscribed, failed, messages, closing,
                 network, ioc_stopped, tick_queue, ticks_pushed>>

StartNetwork ==
  /\ network' = "run"
  /\ UNCHANGED <<op, todo, handling, subscribed, failed, messages, closing,
                 ioc_stopped, tick_queue, ticks_pushed>>

\* boost::asio::post(ioc, close)
PostClose ==
  /\ closing' = "posted"
  /\ UNCHANGED <<op, todo, handling, subscribed, failed, messages,
                 network, ioc_stopped, tick_queue, ticks_pushed>>

StopIoc ==
  /\ ioc_stopped' = TRUE
  /\ UNCHANGED <<op, todo, handling, subscribed, failed, messages, closing,
                 network, tick_queue, ticks_pushed>>

-----------------------------------------------------------------------------
(* The network thread.                                                     *)

\* A handler of the chain runs without an error and starts the next one.
Advance ==
  /\ Dispatching
  /\ op \notin {"none", "read"}
  /\ op' = NextOp(op)
  /\ subscribed' = (subscribed \/ op = "subscribe_write")
  /\ UNCHANGED <<todo, handling, failed, messages, closing,
                 network, ioc_stopped, tick_queue, ticks_pushed>>

\* A handler of the chain receives an error (a timeout, a closed connection,
\* a message larger than read_buffer_): it reports it and starts nothing.
Fail ==
  /\ Dispatching
  /\ op # "none"
  /\ op' = "none"
  /\ failed' = TRUE
  /\ UNCHANGED <<todo, handling, subscribed, messages, closing,
                 network, ioc_stopped, tick_queue, ticks_pushed>>

\* Faulty variant: the next read starts before the message is parsed.
ReadMessageEager(payload) ==
  /\ Dispatching
  /\ op = "read"
  /\ messages < MaxMessages
  /\ messages' = messages + 1
  /\ handling' = TRUE
  /\ todo' = payload
  /\ UNCHANGED <<op, subscribed, failed, closing, network, ioc_stopped,
                 tick_queue, ticks_pushed>>

\* on_read receives a message and parses it.
ReadMessage(payload) ==
  /\ Dispatching
  /\ op = "read"
  /\ messages < MaxMessages
  /\ messages' = messages + 1
  /\ op' = "none"
  /\ handling' = TRUE
  /\ todo' = payload
  /\ UNCHANGED <<subscribed, failed, closing, network, ioc_stopped,
                 tick_queue, ticks_pushed>>

\* Faulty variant: on_read waits for room in the queue.
PushTickBlocking ==
  /\ handling /\ todo # <<>>
  /\ todo' = Tail(todo)
  /\ Len(tick_queue) < TickCapacity
  /\ tick_queue' = Append(tick_queue, Head(todo))
  /\ ticks_pushed' = ticks_pushed + 1
  /\ UNCHANGED <<op, handling, subscribed, failed, messages, closing,
                 network, ioc_stopped>>

\* (void)out_queue.push(tick), of a level, a change or a hint: accepted, or dropped because the queue is or
\* looks full.
PushTick ==
  /\ handling /\ todo # <<>>
  /\ todo' = Tail(todo)
  /\ \/ /\ Len(tick_queue) < TickCapacity
        /\ tick_queue' = Append(tick_queue, Head(todo))
        /\ ticks_pushed' = ticks_pushed + 1
     \/ /\ ticks_pushed >= TickCapacity
        /\ UNCHANGED <<tick_queue, ticks_pushed>>
  /\ UNCHANGED <<op, handling, subscribed, failed, messages, closing,
                 network, ioc_stopped>>

\* Faulty variant: no further read is started.
ReadOnce ==
  /\ handling /\ todo = <<>>
  /\ handling' = FALSE
  /\ UNCHANGED <<op, todo, subscribed, failed, messages, closing, network,
                 ioc_stopped, tick_queue, ticks_pushed>>

\* The end of on_read: the buffer is emptied and the next read starts.
ReadAgain ==
  /\ handling /\ todo = <<>>
  /\ handling' = FALSE
  /\ op' = "read"
  /\ UNCHANGED <<todo, subscribed, failed, messages, closing, network,
                 ioc_stopped, tick_queue, ticks_pushed>>

\* The posted handler runs close().
Close ==
  /\ Dispatching
  /\ closing = "posted"
  /\ closing' = "started"
  /\ UNCHANGED <<op, todo, handling, subscribed, failed, messages, network,
                 ioc_stopped, tick_queue, ticks_pushed>>

\* on_close, with an error or without.
OnClose ==
  /\ Dispatching
  /\ closing = "started"
  /\ closing' = "done"
  /\ UNCHANGED <<op, todo, handling, subscribed, failed, messages, network,
                 ioc_stopped, tick_queue, ticks_pushed>>

\* ioc.run() returns.
NetworkExit ==
  /\ network = "run" /\ ~handling
  /\ ioc_stopped \/ (op = "none" /\ closing \notin {"posted", "started"})
  /\ network' = "done"
  /\ UNCHANGED <<op, todo, handling, subscribed, failed, messages, closing,
                 ioc_stopped, tick_queue, ticks_pushed>>

\* What the thread does without waiting for the network.
NetworkStep == PushTick \/ ReadAgain \/ Close \/ NetworkExit

Completion ==
  \/ Advance
  \/ Fail
  \/ \E payload \in Payloads : ReadMessage(payload)
  \/ OnClose

\* pop() by the strategy thread.
PopTick ==
  /\ tick_queue # <<>>
  /\ tick_queue' = Tail(tick_queue)
  /\ UNCHANGED <<op, todo, handling, subscribed, failed, messages, closing,
                 network, ioc_stopped, ticks_pushed>>

-----------------------------------------------------------------------------
(* Properties.                                                             *)

ClientTypeOK ==
  /\ op \in {"none", "resolve", "connect", "ssl_handshake", "ws_handshake",
             "subscribe_write", "read"}
  /\ handling \in BOOLEAN /\ subscribed \in BOOLEAN /\ failed \in BOOLEAN
  /\ messages \in 0 .. MaxMessages
  /\ closing \in {"no", "posted", "started", "done"}
  /\ network \in {"none", "run", "done"}
  /\ Len(tick_queue) <= TickCapacity

\* The io_context never runs out of work while the feed is healthy: the
\* network thread ends only after an error or after main stopped it.  Every
\* handler that meets no error must start another operation, and the first
\* one must be outstanding before the thread starts.
NetworkEndsForCause == network = "done" => failed \/ ioc_stopped

\* The read buffer has one user at a time, on_read or an outstanding read,
\* and neither before the subscription has been written.
BufferExclusive ==
  /\ ~(handling /\ op = "read")
  /\ handling \/ op = "read" => subscribed

====
