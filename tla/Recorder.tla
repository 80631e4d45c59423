---- MODULE Recorder ----
(***************************************************************************)
(* tools/record_polymarket.py: one asyncio program that connects to the    *)
(* venue, subscribes, appends every message to a file, keeps the           *)
(* connection alive with PINGs and reconnects after a growing delay.       *)
(*                                                                         *)
(* The recording coroutine, the ping task and the signal handler           *)
(* interleave at awaits.  The process may crash anywhere, which loses what *)
(* Python has not handed to the operating system, and be started again on  *)
(* the same file.  Local variables return to their initial values when     *)
(* their function ends.                                                    *)
(*                                                                         *)
(* The venue and the websockets library are external: a connection opens   *)
(* or fails within open_timeout, closes within close_timeout, and may be   *)
(* lost or stay silent for ever.                                           *)
(***************************************************************************)
EXTENDS JsonlFile

CONSTANTS
  FlushEvery,    \* FLUSH_EVERY_N_LINES: 200
  MaxBackoff,    \* doublings from BACKOFF_INITIAL_S to BACKOFF_MAX_S: 6
  MaxRestarts    \* bound on the times the program is started again

ASSUME RecorderAssumption ==
  /\ FlushEvery \in Nat \ {0}
  /\ MaxBackoff \in Nat
  /\ MaxRestarts \in Nat

VARIABLES
  recorder,      \* what main() and _record_once() wait for
  stop,          \* the event the signal handler sets
  backoff,       \* doublings so far
  up,            \* the connection is up
  ping,          \* the ping task
  ping_stop,
  pong,          \* a PONG is on its way
  lines_since_flush,
  buffer,        \* what Python has not handed to the operating system
  received,      \* history: how many messages recv() has returned
  crashes,       \* history
  restarts

connection == <<up, ping, ping_stop, pong>>
storage == <<buffer, exists, file, lines_since_flush>>
process == <<recorder, stop, backoff>>
history == <<received, crashes, restarts>>
recorderVars == <<recorder, stop, backoff, up, ping, ping_stop, pong,
                  lines_since_flush, buffer, exists, file, received, crashes, restarts>>

InitRecorder ==
  /\ recorder = "connect" /\ stop = FALSE /\ backoff = 0
  /\ up = FALSE /\ ping = "none" /\ ping_stop = FALSE /\ pong = FALSE
  /\ lines_since_flush = 0 /\ buffer = <<>> /\ exists = FALSE /\ file = <<>>
  /\ received = 0 /\ crashes = 0 /\ restarts = 0

-----------------------------------------------------------------------------
(* main() and _record_once().                                              *)

\* websockets.connect succeeds.
Connect ==
  /\ recorder = "connect"
  /\ recorder' = "subscribe"
  /\ up' = TRUE /\ pong' = FALSE
  /\ UNCHANGED <<stop, backoff, ping, ping_stop, storage, history>>

\* After _record_once, with or without an exception.
AfterConnection == IF stop THEN "exited" ELSE "backoff"

\* It fails or times out.
ConnectFails ==
  /\ recorder = "connect"
  /\ recorder' = AfterConnection
  /\ UNCHANGED <<stop, backoff, connection, storage, history>>

\* The loop's test.
Loop == IF stop THEN "leave" ELSE "recv"

\* The subscription is sent, the ping task created and the file opened.
Subscribe ==
  /\ recorder = "subscribe"
  /\ up
  /\ ping' = "send" /\ ping_stop' = FALSE
  /\ exists' = TRUE /\ lines_since_flush' = 0
  /\ recorder' = Loop
  /\ UNCHANGED <<stop, backoff, up, pong, buffer, file, history>>

SubscribeFails ==
  /\ recorder = "subscribe"
  /\ ~up
  /\ recorder' = "close"
  /\ UNCHANGED <<stop, backoff, connection, storage, history>>

\* recv() returns a message: its line is written, and any part of what is
\* buffered may reach the file.
RecvMessage ==
  /\ recorder = "recv" /\ up
  /\ received < Len(Messages)
  /\ received' = received + 1
  /\ lines_since_flush' = lines_since_flush + 1
  /\ LET pending == buffer \o LineOf(received')
     IN \E n \in 0 .. Len(pending) :
          /\ file' = file \o SubSeq(pending, 1, n)
          /\ buffer' = SubSeq(pending, n + 1, Len(pending))
  /\ recorder' = "flush"
  /\ UNCHANGED <<stop, backoff, connection, exists, crashes, restarts>>

\* Faulty variant: the flush comes one line late.
FlushLate ==
  /\ recorder = "flush"
  /\ IF lines_since_flush > FlushEvery
     THEN file' = file \o buffer /\ buffer' = <<>> /\ lines_since_flush' = 0
     ELSE UNCHANGED <<file, buffer, lines_since_flush>>
  /\ recorder' = Loop
  /\ UNCHANGED <<stop, backoff, connection, exists, history>>

\* The end of the loop's body, and its test.
Flush ==
  /\ recorder = "flush"
  /\ IF lines_since_flush >= FlushEvery
     THEN file' = file \o buffer /\ buffer' = <<>> /\ lines_since_flush' = 0
     ELSE UNCHANGED <<file, buffer, lines_since_flush>>
  /\ recorder' = Loop
  /\ UNCHANGED <<stop, backoff, connection, exists, history>>

\* recv() returns a PONG, which is not recorded.
RecvPong ==
  /\ recorder = "recv" /\ up
  /\ pong /\ pong' = FALSE
  /\ recorder' = Loop
  /\ UNCHANGED <<stop, backoff, up, ping, ping_stop, storage, history>>

\* Faulty variant: the exception does not leave the loop.
RecvClosedContinues ==
  /\ recorder = "recv" /\ ~up
  /\ recorder' = Loop
  /\ UNCHANGED <<stop, backoff, connection, storage, history>>

\* recv() raises ConnectionClosed.
RecvClosed ==
  /\ recorder = "recv" /\ ~up
  /\ recorder' = "leave"
  /\ UNCHANGED <<stop, backoff, connection, storage, history>>

\* Faulty variant: the file is not closed.
LeaveWithoutClose ==
  /\ recorder = "leave"
  /\ buffer' = <<>> /\ lines_since_flush' = 0
  /\ ping_stop' = TRUE
  /\ recorder' = "await_ping"
  /\ UNCHANGED <<stop, backoff, up, ping, pong, exists, file, history>>

\* Faulty variant: the ping task is awaited without being told to end.
LeaveWithoutPingStop ==
  /\ recorder = "leave"
  /\ file' = file \o buffer /\ buffer' = <<>> /\ lines_since_flush' = 0
  /\ recorder' = "await_ping"
  /\ UNCHANGED <<stop, backoff, connection, exists, history>>

\* The with statement closes the file; finally: ping_stop.set().
Leave ==
  /\ recorder = "leave"
  /\ file' = file \o buffer /\ buffer' = <<>> /\ lines_since_flush' = 0
  /\ ping_stop' = TRUE
  /\ recorder' = "await_ping"
  /\ UNCHANGED <<stop, backoff, up, ping, pong, exists, history>>

\* await ping_task
JoinPing ==
  /\ recorder = "await_ping"
  /\ ping = "done"
  /\ ping' = "none" /\ ping_stop' = FALSE
  /\ recorder' = "close"
  /\ UNCHANGED <<stop, backoff, up, pong, storage, history>>

\* The connection is closed, at the latest after close_timeout.
CloseConnection ==
  /\ recorder = "close"
  /\ up' = FALSE /\ pong' = FALSE
  /\ recorder' = AfterConnection
  /\ UNCHANGED <<stop, backoff, ping, ping_stop, storage, history>>

\* Faulty variant: the delay grows without a limit.
WaitUncapped ==
  /\ recorder = "backoff"
  /\ backoff' = backoff + 1
  /\ recorder' = IF stop THEN "exited" ELSE "connect"
  /\ UNCHANGED <<stop, connection, storage, history>>

\* asyncio.wait_for(stop.wait(), timeout=backoff) returns or times out.
Wait ==
  /\ recorder = "backoff"
  /\ backoff' = Min({backoff + 1, MaxBackoff})
  /\ recorder' = IF stop THEN "exited" ELSE "connect"
  /\ UNCHANGED <<stop, connection, storage, history>>

\* What the coroutine does without a message from the venue.
RecorderStep ==
  \/ Connect \/ ConnectFails \/ Subscribe \/ SubscribeFails
  \/ Flush \/ RecvClosed \/ Leave \/ JoinPing \/ CloseConnection \/ Wait

-----------------------------------------------------------------------------
(* _ping_loop().                                                           *)

PingSend ==
  /\ ping = "send"
  /\ IF ~ping_stop /\ up
     THEN ping' = "wait" /\ pong' = TRUE
     ELSE ping' = "done" /\ UNCHANGED pong
  /\ UNCHANGED <<process, up, ping_stop, storage, history>>

\* Ten seconds have passed, or ping_stop is set.
PingWait ==
  /\ ping = "wait"
  /\ ping' = IF ping_stop THEN "done" ELSE "send"
  /\ UNCHANGED <<process, up, ping_stop, pong, storage, history>>

PingStep == PingSend \/ PingWait

-----------------------------------------------------------------------------
(* The environment.                                                        *)

Running == recorder \notin {"exited", "crashed"}

\* SIGINT or SIGTERM.
RequestStop ==
  /\ Running /\ ~stop
  /\ stop' = TRUE
  /\ UNCHANGED <<recorder, backoff, connection, storage, history>>

LoseConnection ==
  /\ up
  /\ up' = FALSE /\ pong' = FALSE
  /\ UNCHANGED <<process, ping, ping_stop, storage, history>>

\* The process is killed.  What Python has passed on survives: nothing is
\* fsynced, but the machine goes on.
Crash ==
  /\ Running
  /\ recorder' = "crashed" /\ stop' = FALSE /\ backoff' = 0
  /\ buffer' = <<>> /\ lines_since_flush' = 0
  /\ up' = FALSE /\ ping' = "none" /\ ping_stop' = FALSE /\ pong' = FALSE
  /\ crashes' = crashes + 1
  /\ UNCHANGED <<exists, file, received, restarts>>

\* The program is started again; the file is opened in append mode.
Restart ==
  /\ ~Running
  /\ restarts < MaxRestarts
  /\ restarts' = restarts + 1
  /\ recorder' = "connect" /\ stop' = FALSE /\ backoff' = 0
  /\ UNCHANGED <<connection, storage, received, crashes>>

Environment == RequestStop \/ LoseConnection \/ Crash \/ Restart

-----------------------------------------------------------------------------
(* Properties.                                                             *)

RecorderTypeOK ==
  /\ recorder \in {"connect", "subscribe", "recv", "flush", "leave", "await_ping",
                   "close", "backoff", "exited", "crashed"}
  /\ ping \in {"none", "send", "wait", "done"}
  /\ backoff \in 0 .. MaxBackoff
  /\ lines_since_flush \in 0 .. FlushEvery
  /\ received \in 0 .. Len(Messages)

\* The messages whose line is in the file, whole and by itself.
Intact == {id \in 1 .. received : LineOf(id) \in CompleteLines(file)}

\* After runs that ended with a signal, however many connections they lost
\* on the way, the file holds one line for every message, in order.
CleanRunsRecordEverything ==
  recorder = "exited" /\ crashes = 0 => HoldsLines(file, received)

\* "Flush file periodically so you don't lose much on crash": a crash of the
\* process costs at most the lines since the last flush, and the next run one
\* line, which it appends to a torn one.
CrashLossBounded ==
  LET pending == {buffer[i].id : i \in DOMAIN buffer}
  IN Cardinality((1 .. received) \ (Intact \cup pending))
       <= crashes * FlushEvery + restarts

\* "appends each incoming JSON message as one JSONL line".
OneLinePerMessage ==
  CompleteLines(file) \subseteq {LineOf(id) : id \in 1 .. received}

====
