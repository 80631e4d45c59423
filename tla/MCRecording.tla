---- MODULE MCRecording ----
(***************************************************************************)
(* Recording with a message of each kind, a flush after every second line  *)
(* and one restart.                                                        *)
(***************************************************************************)
EXTENDS Recording

MCMessages == <<"object", "binary", "text">>

====
