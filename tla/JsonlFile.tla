---- MODULE JsonlFile ----
(***************************************************************************)
(* historical_data.jsonl as its writer and its reader see it: a sequence   *)
(* of pieces.  The line of message id is the beginning and the rest of its *)
(* JSON text and a newline; a file may end after any piece.                *)
(***************************************************************************)
EXTENDS Naturals, Sequences, SequencesExt, FiniteSetsExt

CONSTANT Messages   \* the kinds of the (non-empty) messages the venue sends, in order

ASSUME MessagesAssumption == Messages \in Seq({"object", "text", "binary"})

VARIABLES
  exists,   \* the file has been created
  file

Json(id) == <<[id |-> id, part |-> "head"], [id |-> id, part |-> "rest"]>>
Newline(id) == [id |-> id, part |-> "newline"]

\* Faulty variant: f.write("\n") is missing.
LineOfUnterminated(id) == Json(id)

\* What one message adds to the file.
LineOf(id) == Append(Json(id), Newline(id))

Newlines(pieces) == {i \in DOMAIN pieces : pieces[i].part = "newline"}

\* readline(): up to the next newline, or whatever is left of the file.
ReadLine(pieces) ==
  IF Newlines(pieces) = {} THEN pieces
  ELSE SubSeq(pieces, 1, Min(Newlines(pieces)))

\* rstrip("\n")
Stripped(line) == IF Last(line).part = "newline" THEN Front(line) ELSE line

\* The lines that end in a newline.
CompleteLines(pieces) ==
  LET starts == {i \in DOMAIN pieces : i = 1 \/ pieces[i - 1].part = "newline"}
      lines == {ReadLine(SubSeq(pieces, i, Len(pieces))) : i \in starts}
  IN {line \in lines : Last(line).part = "newline"}

\* pieces is the lines of messages 1 to n, one after the other.
HoldsLines(pieces, n) ==
  /\ Len(pieces) = 3 * n
  /\ \A id \in 1 .. n, k \in 1 .. 3 : pieces[3 * (id - 1) + k] = LineOf(id)[k]

====
