---- MODULE MCSpscQueue ----
(* SpscQueue on a small instance: the indices wrap while the queue works.  *)
EXTENDS SpscQueue

====
