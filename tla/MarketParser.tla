---- MODULE MarketParser ----
(***************************************************************************)
(* include/market_parser.hpp: which ticks a message becomes.               *)
(*                                                                         *)
(* A number is the text of a JSON string, as far as the parser looks at    *)
(* it: whether it has a dot, its integer part (a number, Empty or Bad) and *)
(* its fraction's characters (10 stands for any that is no digit).         *)
(*                                                                         *)
(* A level, or a change, is a record with a shape: "abort" for one whose   *)
(* structure makes the parser return false, "broken" for one in whose      *)
(* place simdjson reports an error of the array, "skip" for one it passes  *)
(* over because a field is missing or no string, and "level" otherwise.    *)
(*                                                                         *)
(* Parsing returns the ticks pushed, in order, and how it ended: "ok",     *)
(* "refused" (false is returned) or "terminated".  The loops convert what  *)
(* simdjson yields to a value, which throws on an error, and the functions *)
(* are noexcept: a broken array ends the process.  The ticks of the part   *)
(* before either failure have been pushed.                                 *)
(***************************************************************************)
EXTENDS Integers, SequencesExt

CONSTANTS
  WordRange,    \* number of values of uint32_t: 2^32
  SizeDigits,   \* decimals a size keeps: 6
  TopPrice      \* LimitOrderBook::kMaxPrice: 100

ASSUME ParserAssumption ==
  /\ WordRange \in Nat /\ WordRange > TopPrice
  /\ SizeDigits \in Nat \ {0}
  /\ TopPrice \in Nat

Empty == -1
Bad == -2
Reject == -1   \* the function returns false

NoText == [dot |-> FALSE, int |-> Empty, frac |-> <<>>]

-----------------------------------------------------------------------------
(* Numbers.                                                                *)

parse_u32(int) == IF int \in 0 .. WordRange - 1 THEN int ELSE Reject

\* An integer part before a dot may be empty.
WholePart(text) == IF text.int = Empty THEN 0 ELSE parse_u32(text.int)

Digit(frac, i) == IF i <= Len(frac) THEN frac[i] ELSE 0
AllDigits(frac) == \A i \in DOMAIN frac : frac[i] \in 0 .. 9

\* A number with its first n decimals, padded with zeros, as an integer.
Scaled(whole, frac, n) ==
  LET value[i \in 0 .. n] == IF i = 0 THEN whole ELSE 10 * value[i - 1] + Digit(frac, i)
  IN value[n]

\* Faulty variant: the third decimal rounds up only above 5.
PriceRoundedDown(text) ==
  IF ~text.dot THEN parse_u32(text.int)
  ELSE IF text.frac = <<>> \/ WholePart(text) = Reject \/ ~AllDigits(text.frac)
  THEN Reject
  ELSE (WholePart(text) * 100 + 10 * Digit(text.frac, 1) + Digit(text.frac, 2)
          + (IF Digit(text.frac, 3) > 5 THEN 1 ELSE 0)) % WordRange

\* Cents, rounded at the third decimal; the sum is a uint32_t.
parse_price_cents(text) ==
  IF ~text.dot THEN parse_u32(text.int)
  ELSE IF text.frac = <<>> \/ WholePart(text) = Reject \/ ~AllDigits(text.frac)
  THEN Reject
  ELSE (WholePart(text) * 100 + 10 * Digit(text.frac, 1) + Digit(text.frac, 2)
          + (IF Digit(text.frac, 3) >= 5 THEN 1 ELSE 0)) % WordRange

in_price_range(cents) == cents \in 0 .. TopPrice

\* Faulty variant: a scaled size is cut to 32 bits.
SizeCutToWord(text) ==
  LET whole == WholePart(text)
      scaled == Scaled(whole, text.frac, SizeDigits)
  IN IF ~text.dot THEN parse_u32(text.int)
     ELSE IF whole = Reject \/ ~AllDigits(text.frac) THEN Reject
     ELSE IF \A i \in DOMAIN text.frac : text.frac[i] = 0 THEN whole
     ELSE scaled % WordRange

\* An integer size is kept; one with a fraction is scaled to SizeDigits
\* decimals, if it fits.
parse_size_u32(text) ==
  LET whole == WholePart(text)
      scaled == Scaled(whole, text.frac, SizeDigits)
  IN IF ~text.dot THEN parse_u32(text.int)
     ELSE IF whole = Reject \/ ~AllDigits(text.frac) THEN Reject
     ELSE IF \A i \in DOMAIN text.frac : text.frac[i] = 0 THEN whole
     ELSE IF scaled < WordRange THEN scaled
     ELSE Reject

-----------------------------------------------------------------------------
(* Levels and messages.                                                    *)

\* Faulty variant: a level of size 0 is passed over.
LevelTicksNonZero(level, is_bid) ==
  LET price == parse_price_cents(level.price)
      size == parse_size_u32(level.size)
  IN IF level.shape = "level" /\ in_price_range(price) /\ size > 0
     THEN <<[price |-> price, size |-> size, is_bid |-> is_bid]>>
     ELSE <<>>

LevelTicks(level, is_bid) ==
  LET price == parse_price_cents(level.price)
      size == parse_size_u32(level.size)
  IN IF level.shape = "level" /\ in_price_range(price) /\ size # Reject
     THEN <<[price |-> price, size |-> size, is_bid |-> is_bid]>>
     ELSE <<>>

\* Faulty variant: a hint of price 0 is taken for a level.
HintTicksAtZero(text, is_bid) ==
  LET price == parse_price_cents(text)
  IN IF in_price_range(price)
     THEN <<[price |-> price, size |-> 1, is_bid |-> is_bid]>>
     ELSE <<>>

\* Faulty variant: a hint beyond the book is kept.
HintTicksBeyondBook(text, is_bid) ==
  LET price == parse_price_cents(text)
  IN IF price \notin {Reject, 0}
     THEN <<[price |-> price, size |-> 1, is_bid |-> is_bid]>>
     ELSE <<>>

\* The tick of a best_bid or best_ask hint: size 1 at that price.
HintTicks(text, is_bid) ==
  LET price == parse_price_cents(text)
  IN IF in_price_range(price) /\ price # 0
     THEN <<[price |-> price, size |-> 1, is_bid |-> is_bid]>>
     ELSE <<>>

\* Faulty variant: the hints are taken for each other.
ChangeTicksSwapped(change) ==
  LET own == IF change.side \in {"BUY", "SELL"}
             THEN LevelTicks(change, change.side = "BUY")
             ELSE <<>>
  IN IF own = <<>> THEN <<>>
     ELSE own \o HintTicks(change.best_ask, TRUE) \o HintTicks(change.best_bid, FALSE)

\* One element of price_changes.
ChangeTicks(change) ==
  LET own == IF change.side \in {"BUY", "SELL"}
             THEN LevelTicks(change, change.side = "BUY")
             ELSE <<>>
  IN IF own = <<>> THEN <<>>
     ELSE own \o HintTicks(change.best_bid, TRUE) \o HintTicks(change.best_ask, FALSE)

Stops(element) == element.shape \in {"abort", "broken"}

\* The loop over an optional array, with the ticks of each element: it stops
\* at the first element whose structure is wrong, or that is broken.
ParseArray(field, emitted) ==
  LET n == Len(field.elements)
      stops == {i \in 1 .. n : Stops(field.elements[i])}
      good == IF stops = {} THEN n ELSE Min(stops) - 1
  IN CASE field.status = "missing" -> [status |-> "ok", ticks |-> <<>>]
       [] field.status = "bad" -> [status |-> "refused", ticks |-> <<>>]
       [] field.status = "array" ->
            [status |-> IF stops = {} THEN "ok"
                        ELSE IF field.elements[good + 1].shape = "abort" THEN "refused"
                        ELSE "terminated",
             ticks |-> FlattenSeq(SubSeq(emitted, 1, good))]

\* parse_levels and parse_object_levels.
parse_levels(field, is_bid) ==
  ParseArray(field, [i \in DOMAIN field.elements |-> LevelTicks(field.elements[i], is_bid)])

parse_price_change(field) ==
  ParseArray(field, [i \in DOMAIN field.elements |-> ChangeTicks(field.elements[i])])

\* Faulty variant: both parts are parsed, and then their results tested.
ThenAnyway(first, second) ==
  [status |-> IF first.status = "ok" THEN second.status ELSE first.status,
   ticks |-> first.ticks \o second.ticks]

\* The second parse runs if the first one succeeded.
Then(first, second) ==
  IF first.status = "ok"
  THEN [status |-> second.status, ticks |-> first.ticks \o second.ticks]
  ELSE first

\* A message whose event_type is absent or no string is read as the mock
\* feed's, which names its levels' fields as a book message does.
parse_message_object(message) ==
  CASE message.event_type = "error" -> [status |-> "refused", ticks |-> <<>>]
    [] message.event_type = "ignored" -> [status |-> "ok", ticks |-> <<>>]
    [] message.event_type = "price_change" -> parse_price_change(message.price_changes)
    [] message.event_type \in {"book", "absent"} ->
         Then(parse_levels(message.bids, TRUE), parse_levels(message.asks, FALSE))

\* An element of a batch, which may be broken itself.
ParseElement(message) ==
  IF message.event_type = "broken"
  THEN [status |-> "terminated", ticks |-> <<>>]
  ELSE parse_message_object(message)

\* A document is one object, or an array in which elements that are no
\* objects are skipped and refusals ignored; anything else is refused.
parse_tick(doc) ==
  LET n == Len(doc.messages)
      fatal == {i \in 1 .. n : ParseElement(doc.messages[i]).status = "terminated"}
      last == IF fatal = {} THEN n ELSE Min(fatal)
  IN CASE doc.kind = "object" -> parse_message_object(doc.messages[1])
       [] doc.kind = "array" ->
            [status |-> IF fatal = {} THEN "ok" ELSE "terminated",
             ticks |-> FlattenSeq([i \in 1 .. last |-> ParseElement(doc.messages[i]).ticks])]
       [] doc.kind = "invalid" -> [status |-> "refused", ticks |-> <<>>]

====
