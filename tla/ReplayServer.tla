---- MODULE ReplayServer ----
(***************************************************************************)
(* tools/replay_server.py: the handler of one client, which sends the      *)
(* recording line by line, over and over.  The recorder may be appending   *)
(* to the file at the same time.                                           *)
(*                                                                         *)
(* Only sending notices that the client has gone.  The sleeps between      *)
(* lines are capped and left out.                                          *)
(***************************************************************************)
EXTENDS JsonlFile

VARIABLES
  replay,        \* the handler: "open", "send" or "ended"
  position,      \* pieces of the file read in this pass
  client_gone,
  sent           \* history: the payloads sent in this pass

replayVars == <<replay, position, client_gone, sent>>

InitReplay ==
  /\ replay = "open" /\ position = 0
  /\ client_gone = FALSE
  /\ sent = <<>>

\* Faulty variant: the recorder's own fields are sent along.
ReplayPayloadLine(line) == [form |-> "line", line |-> line]

\* _extract_replay_payload: the message as it was received, if the line is
\* JSON and has it under raw_message or raw; otherwise the line.
ReplayPayload(line) ==
  IF \E id \in DOMAIN Messages : line = Json(id) /\ Messages[id] # "binary"
  THEN [form |-> "original", line |-> line]
  ELSE [form |-> "line", line |-> line]

\* The file is opened for another pass; without one, the handler raises
\* FileNotFoundError.
OpenRecording ==
  /\ replay = "open"
  /\ replay' = IF exists THEN "send" ELSE "ended"
  /\ position' = 0
  /\ sent' = <<>>
  /\ UNCHANGED client_gone

\* Faulty variant: ConnectionClosed is caught inside the loop.
SendLineIgnoringClose ==
  /\ replay = "send"
  /\ position < Len(file)
  /\ LET line == ReadLine(SubSeq(file, position + 1, Len(file)))
     IN /\ position' = position + Len(line)
        /\ sent' = IF client_gone \/ Stripped(line) = <<>> THEN sent
                   ELSE Append(sent, ReplayPayload(Stripped(line)))
  /\ UNCHANGED <<replay, client_gone>>

\* The next line is sent; a line that the recorder has not finished is taken
\* as far as it goes.
SendLine ==
  /\ replay = "send"
  /\ position < Len(file)
  /\ LET line == ReadLine(SubSeq(file, position + 1, Len(file)))
     IN IF client_gone /\ Stripped(line) # <<>>
        THEN replay' = "ended" /\ position' = 0 /\ sent' = <<>>
        ELSE /\ position' = position + Len(line)
             /\ sent' = IF Stripped(line) = <<>> THEN sent
                        ELSE Append(sent, ReplayPayload(Stripped(line)))
             /\ UNCHANGED replay
  /\ UNCHANGED client_gone

\* The end of the file: loop back to the beginning.
EndOfFile ==
  /\ replay = "send"
  /\ position = Len(file)
  /\ replay' = "open"
  /\ UNCHANGED <<position, client_gone, sent>>

ReplayStep == OpenRecording \/ SendLine \/ EndOfFile

ClientLeaves ==
  /\ ~client_gone
  /\ client_gone' = TRUE
  /\ UNCHANGED <<replay, position, sent>>

====
