---- MODULE MCFeedPath ----
(***************************************************************************)
(* FeedPath with two prices that both sides can use, one and two cents (of *)
(* which the latter is written in cents) or two prices that both round to  *)
(* one, and with sizes 0, 0.5 and 10.5, of which the last does not fit.    *)
(***************************************************************************)
EXTENDS FeedPath

MCGrids == {{10, 20}, {6, 14}}

MCSizes ==
  {[dot |-> FALSE, int |-> 0, frac |-> <<>>],
   [dot |-> TRUE, int |-> 0, frac |-> <<5>>],
   [dot |-> TRUE, int |-> 10, frac |-> <<5>>]}

====
