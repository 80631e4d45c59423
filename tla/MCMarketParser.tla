---- MODULE MCMarketParser ----
(***************************************************************************)
(* ParserInputs on bounded inputs.                                         *)
(***************************************************************************)
EXTENDS ParserInputs

MCIntParts == {Empty, Bad, 0, 1, 9, 10, 41, 57, 61, 101, 1024}

\* Up to four decimals, one of which may be no digit.
Fractions4 == UNION {[1 .. n -> {0, 4, 5, 9, 10}] : n \in 0 .. 4}

MCTexts ==
  [dot : {TRUE}, int : MCIntParts, frac : Fractions4]
    \cup [dot : {FALSE}, int : MCIntParts, frac : {<<>>}]

Text(int, frac) == [dot |-> TRUE, int |-> int, frac |-> frac]
Units(int) == [dot |-> FALSE, int |-> int, frac |-> <<>>]

\* Levels that are in the book, beyond it, without a readable size, skipped,
\* malformed and broken.
LevelShapes ==
  {[shape |-> "level", price |-> Text(0, <<5, 7>>), size |-> Units(5)],
   [shape |-> "level", price |-> Text(Empty, <<9, 9, 5>>), size |-> Text(2, <<5>>)],
   [shape |-> "level", price |-> Text(1, <<0, 1>>), size |-> Units(5)],
   [shape |-> "level", price |-> Units(57), size |-> Text(1000, <<5>>)],
   [shape |-> "skip", price |-> NoText, size |-> NoText],
   [shape |-> "abort", price |-> NoText, size |-> NoText],
   [shape |-> "broken", price |-> NoText, size |-> NoText]}

Field(elements) == [status |-> "array", elements |-> elements]
Missing == [status |-> "missing", elements |-> <<>>]
BadField == [status |-> "bad", elements |-> <<>>]

LevelFields ==
  {Missing, BadField} \cup {Field(s) : s \in UNION {[1 .. n -> LevelShapes] : n \in 0 .. 2}}

HintTexts == {NoText, Text(0, <<0, 0>>), Text(1, <<0, 0>>), Text(1, <<0, 5>>)}

Changes ==
  [shape : Shape, price : {Text(0, <<5, 7>>), Text(1, <<0, 1>>)},
   size : {Units(5)}, side : {"BUY", "SELL", "other"},
   best_bid : HintTexts, best_ask : HintTexts]

\* Those of a message with several changes.
PlainChanges ==
  {c \in Changes : /\ c.price = Text(0, <<5, 7>>) /\ c.side # "other"
                   /\ c.best_bid # Text(1, <<0, 5>>) /\ c.best_ask = NoText}

BookMessages ==
  [event_type : {"book", "absent"}, bids : LevelFields, asks : LevelFields]
ChangeMessages ==
  [event_type : {"price_change"},
   price_changes : {Missing, BadField} \cup {Field(<<c>>) : c \in Changes}
                     \cup {Field(<<c, d>>) : c, d \in PlainChanges}]
OtherMessages == [event_type : {"error", "ignored"}]

SomeMessages ==
  {m \in ChangeMessages : m.price_changes.status # "array"}
    \cup OtherMessages \cup BrokenMessage
    \cup {[event_type |-> "book", bids |-> Field(<<l>>), asks |-> Missing] : l \in LevelShapes}

MCDocs ==
  {[kind |-> "object", messages |-> <<m>>] : m \in BookMessages}
    \cup {[kind |-> "object", messages |-> <<m>>] : m \in ChangeMessages}
    \cup {[kind |-> "object", messages |-> <<m>>] : m \in OtherMessages}
    \cup {[kind |-> "array", messages |-> <<m, n>>] : m, n \in SomeMessages}

====
