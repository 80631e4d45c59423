---- MODULE ParserInputs ----
(***************************************************************************)
(* What MarketParser promises of every number text and every document: a   *)
(* step shows it one or the other.                                         *)
(***************************************************************************)
EXTENDS MarketParser

CONSTANTS Texts, Docs   \* what it is shown

-----------------------------------------------------------------------------
(* Inputs.                                                                 *)

NumberText ==
  [dot : {TRUE}, int : Nat \cup {Empty, Bad}, frac : Seq(0 .. 10)]
    \cup [dot : {FALSE}, int : Nat \cup {Empty, Bad}, frac : {<<>>}]

Shape == {"level", "skip", "abort", "broken"}
Level == [shape : Shape, price : NumberText, size : NumberText]
Change == [shape : Shape, price : NumberText, size : NumberText,
           side : {"BUY", "SELL", "other"}, best_bid : NumberText, best_ask : NumberText]

FieldOf(Element) == [status : {"missing", "bad", "array"}, elements : Seq(Element)]

BookMessage == [event_type : {"book", "absent"}, bids : FieldOf(Level), asks : FieldOf(Level)]
ChangeMessage == [event_type : {"price_change"}, price_changes : FieldOf(Change)]
OtherMessage == [event_type : {"error", "ignored"}]
Message == BookMessage \cup ChangeMessage \cup OtherMessage
BrokenMessage == [event_type : {"broken"}]

Document ==
  [kind : {"object"}, messages : [1 .. 1 -> Message]]
    \cup [kind : {"array"}, messages : Seq(Message \cup BrokenMessage)]
    \cup [kind : {"invalid"}, messages : {<<>>}]

ASSUME InputsAssumption == Texts \subseteq NumberText /\ Docs \subseteq Document

-----------------------------------------------------------------------------
(* Showing them.                                                           *)

VARIABLES text, doc

vars == <<text, doc>>

NoDoc == [kind |-> "invalid", messages |-> <<>>]

Init == text = NoText /\ doc = NoDoc

ShowText == text' \in Texts /\ doc' = NoDoc
ShowDocument == doc' \in Docs /\ text' = NoText

Next == /\ text = NoText /\ doc = NoDoc
        /\ ShowText \/ ShowDocument

Spec == Init /\ [][Next]_vars

-----------------------------------------------------------------------------
(* Properties of numbers.                                                  *)

IsDecimal == text.int # Bad /\ text.frac # <<>> /\ AllDigits(text.frac)

\* What a decimal text stands for and a cent, both in units of its last
\* decimal, or of the third.
Places == IF Len(text.frac) < 3 THEN 3 ELSE Len(text.frac)
Value == Scaled(IF text.int = Empty THEN 0 ELSE text.int, text.frac, Places)
Cent == Scaled(1, <<>>, Places - 2)

\* The cents a price text stands for: the nearest ones to a decimal price,
\* halves up, an integer as it is, none if it is not a number.
NearestCents ==
  IF text.dot
  THEN IF IsDecimal THEN (2 * Value + Cent) \div (2 * Cent) ELSE Reject
  ELSE IF text.int >= 0 THEN text.int ELSE Reject

\* Every price whose cents fit the type is converted to the nearest cent,
\* however many decimals it has ("integer cents (57) without floats"), and
\* what is no price is refused.
ConvertsToCents ==
  NearestCents < WordRange => parse_price_cents(text) = NearestCents

\* A size that is accepted becomes 0, which removes its level, only if it is
\* below what SizeDigits decimals express: scaling neither wraps to 0 nor
\* loses a digit that is kept.
SizeNeverRemoves ==
  parse_size_u32(text) # Reject =>
    (parse_size_u32(text) = 0 <=>
       /\ text.int \in {Empty, 0}
       /\ \A i \in 1 .. SizeDigits : Digit(text.frac, i) = 0)

-----------------------------------------------------------------------------
(* Properties of documents.                                                *)

\* No tick reaches the queue that the order book would ignore or that its
\* types cannot hold, from a level, a change or a hint.
TicksFitBook ==
  LET ticks == parse_tick(doc).ticks
  IN \A i \in DOMAIN ticks :
       ticks[i].price \in 0 .. TopPrice /\ ticks[i].size \in 0 .. WordRange - 1

\* A message without what makes the parser refuse it, or end the process.
RepairedField(field) ==
  [status |-> IF field.status = "bad" THEN "missing" ELSE field.status,
   elements |-> [i \in DOMAIN field.elements |->
                   IF Stops(field.elements[i])
                   THEN [field.elements[i] EXCEPT !.shape = "skip"]
                   ELSE field.elements[i]]]
Repaired(message) ==
  CASE message.event_type \in {"error", "ignored", "broken"} -> message
    [] message.event_type = "price_change" ->
         [message EXCEPT !.price_changes = RepairedField(@)]
    [] message.event_type \in {"book", "absent"} ->
         [message EXCEPT !.bids = RepairedField(@), !.asks = RepairedField(@)]

\* What the code leaves in the queue when it does not get to the end of a
\* message, alone or in a batch that goes on with the next: a prefix of what
\* it would have pushed otherwise, never the asks of a snapshot without its
\* bids, or a level out of order.  ("On success" would be nothing at all: see
\* TicksOnSuccess.)
PartialIsPrefix ==
  \A i \in DOMAIN doc.messages :
    IsPrefix(ParseElement(doc.messages[i]).ticks,
             ParseElement(Repaired(doc.messages[i])).ticks)

\* "parse using `MarketParser`; on success, enqueue one `MarketTick` per
\* updated level": a document that parse_tick refuses has pushed nothing.
TicksOnSuccess ==
  parse_tick(doc).status = "refused" => parse_tick(doc).ticks = <<>>

====
