---- MODULE Recording ----
(***************************************************************************)
(* The recorder and the replay server, two processes that share the        *)
(* recording.                                                              *)
(***************************************************************************)
EXTENDS Recorder, ReplayServer

VARIABLE settled   \* history: the pass began after the recorder had ended

vars == <<recorder, stop, backoff, up, ping, ping_stop, pong,
          lines_since_flush, buffer, exists, file, received, crashes, restarts,
          replay, position, client_gone, sent, settled>>

Init ==
  /\ InitRecorder
  /\ InitReplay
  /\ settled = FALSE

RecorderThread == RecorderStep /\ UNCHANGED <<replayVars, settled>>
PingTask == PingStep /\ UNCHANGED <<replayVars, settled>>
Pong == RecvPong /\ UNCHANGED <<replayVars, settled>>

Venue == RecvMessage /\ UNCHANGED <<replayVars, settled>>

World ==
  /\ Environment
  /\ settled' = (settled /\ recorder' = "exited")
  /\ UNCHANGED replayVars

ReplayHandler ==
  /\ ReplayStep
  /\ settled' = IF replay = "open" THEN recorder = "exited" /\ crashes = 0 ELSE settled
  /\ UNCHANGED recorderVars

Client == ClientLeaves /\ UNCHANGED <<recorderVars, settled>>

Next ==
  \/ RecorderThread
  \/ PingTask
  \/ Pong
  \/ Venue
  \/ World
  \/ ReplayHandler
  \/ Client

Spec == Init /\ [][Next]_vars

\* Each process runs, and its timers expire; the venue, signals and clients
\* owe nothing.
FairSpec ==
  /\ Spec
  /\ WF_vars(RecorderThread)
  /\ WF_vars(PingTask)
  /\ WF_vars(ReplayHandler)

\* The venue answers a PING, or the connection breaks.
VenueAnswers == WF_vars(Pong)

-----------------------------------------------------------------------------
(* Properties.                                                             *)

TypeOK ==
  /\ RecorderTypeOK
  /\ replay \in {"open", "send", "ended"}
  /\ position \in 0 .. Len(file)

\* "replays messages in order": a pass over the file of a recorder that was
\* stopped by a signal sends every message once, in order, and every text
\* message as it was received.
ReplayFaithful ==
  settled =>
    /\ \A i \in DOMAIN sent :
         /\ sent[i].line = Json(i)
         /\ sent[i].form = "original" <=> Messages[i] # "binary"
    /\ replay = "open" /\ exists => Len(sent) = received

\* While the recorder is writing, a payload may be a fragment, but never
\* joins parts of two messages, unless a crash has torn a line.
PayloadsUnmixed ==
  crashes = 0 =>
    \A i \in DOMAIN sent :
      \A j, k \in DOMAIN sent[i].line : sent[i].line[j].id = sent[i].line[k].id

\* After a signal the recorder ends, in whatever await it finds it, provided
\* that the venue answers PINGs: recv() is not cancelled, so it takes a PONG
\* to get back to the loop's test.
StopHonoured ==
  VenueAnswers => (stop /\ Running ~> ~Running)

\* A lost connection leads to a new attempt (or the end of the process): the
\* ping task ends, the file is closed and the delay passes.
Reconnects ==
  recorder = "recv" /\ ~up ~> recorder = "connect" \/ stop \/ ~Running

\* The handler ends once its client has gone, if there is anything to send.
ReplayNoticesClose ==
  client_gone /\ file # <<>> ~> replay = "ended"

====
