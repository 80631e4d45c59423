---- MODULE FeedPathProofs ----
(***************************************************************************)
(* Proofs about FeedPath for grids, sizes, queues, ticks yet to be pushed  *)
(* and outages of any number: the book is the venue's where no update was  *)
(* lost, and as long as none is lost the strategy never sees it crossed.   *)
(***************************************************************************)
EXTENDS FeedPath, MarketParserProofs

-----------------------------------------------------------------------------
(* The inductive invariant.                                                *)

Tick == [price : Price, size : Size, is_bid : BOOLEAN]
Key == BOOLEAN \X Price

KeyOf(tick) == <<tick.is_bid, tick.price>>

\* The prices at which a side of the venue has what the book keeps under one.
At(side, cents) == {p \in Rounded(cents) : Positive(side[p])}

Alone(cents) == Cardinality(Rounded(cents)) = 1

\* A size that the book may have at a price, given the venue's side: it has a
\* level only if the venue has, does if the price stands for one of the
\* venue's that fits, and has its size if there are no hints.
Suits(side, cents, size) ==
  /\ size # 0 => At(side, cents) # {}
  /\ Alone(cents) => \A p \in At(side, cents) : Fits(side[p]) => size # 0
  /\ ~hints /\ Alone(cents) => \A p \in Rounded(cents) : Fits(side[p]) => size = BookSize(side[p])

Faithful(key, size) == Suits(VenueSide(key[1]), key[2], size)

Has(ticks, key) == \E i \in DOMAIN ticks : KeyOf(ticks[i]) = key

\* The last update of its level among ticks.
IsLastOf(ticks, i) == \A j \in DOMAIN ticks : j > i => KeyOf(ticks[j]) # KeyOf(ticks[i])
IsLast(i) == IsLastOf(tick_queue, i)

Level(key) == Side(key[1])[key[2]]

Started == connected \/ outages > 0

Types ==
  /\ bids_ \in [Price -> Size] /\ asks_ \in [Price -> Size]
  /\ grid \in Grids
  /\ venue_bids \in [grid -> VenueSizes] /\ venue_asks \in [grid -> VenueSizes]
  /\ hints \in BOOLEAN /\ connected \in BOOLEAN /\ outages \in Nat
  /\ parsed \in Seq(Tick) /\ tick_queue \in Seq(Tick)
  /\ lossless \in BOOLEAN /\ (lossless => stale = {})

\* Sides whose levels do not cross.
Uncrossed(bids, asks) == \A p \in VenueLevels(bids), q \in VenueLevels(asks) : p < q
VenueUncrossed == Uncrossed(venue_bids, venue_asks)

\* Nothing happens before the first snapshot, and a connection is lost only
\* when what it brought has been pushed.
Before ==
  /\ ~connected => parsed = <<>>
  /\ ~Started => tick_queue = <<>> /\ \A key \in Key : Level(key) = 0

\* What the ticks yet to be pushed leave at a level.
ParsedFaithful ==
  \A i \in DOMAIN parsed : IsLastOf(parsed, i) => Faithful(KeyOf(parsed[i]), parsed[i].size)

\* What the queue leaves at a level, if nothing for it is yet to be pushed.
QueueFaithful ==
  \A i \in DOMAIN tick_queue :
    LET key == KeyOf(tick_queue[i])
    IN IsLast(i) /\ key \notin stale /\ ~Has(parsed, key) => Faithful(key, tick_queue[i].size)

BookFaithful ==
  Started =>
    \A key \in Key :
      key \notin stale /\ ~Has(parsed, key) /\ ~Has(tick_queue, key) => Faithful(key, Level(key))

\* The ticks between the parser and the book.
Pending == tick_queue \o parsed

\* The book has a level at the key after n pending ticks.
PresentIn(ticks, level, key, n) ==
  \/ \E i \in 1 .. n : /\ KeyOf(ticks[i]) = key /\ ticks[i].size # 0
                       /\ \A j \in (i + 1) .. n : KeyOf(ticks[j]) # key
  \/ level # 0 /\ \A j \in 1 .. n : KeyOf(ticks[j]) # key
Present(key, n) == PresentIn(Pending, Level(key), key, n)

Apart(b, a) == b < a \/ (b = a /\ Cardinality(Rounded(b)) > 1)

\* Not now and not when any number of the pending ticks has been applied.
WillNotCross ==
  lossless =>
    \A n \in 0 .. Len(Pending), b, a \in Price :
      Present(<<TRUE, b>>, n) /\ Present(<<FALSE, a>>, n) => Apart(b, a)

IInv ==
  /\ Types
  /\ VenueUncrossed
  /\ Before
  /\ ParsedFaithful
  /\ QueueFaithful
  /\ BookFaithful
  /\ WillNotCross

-----------------------------------------------------------------------------
(* Prices.                                                                 *)

\* The constants of the book and of the parser.
LEMMA Ranges ==
  /\ kMaxPrice \in Nat /\ kMaxPrice <= 254 /\ TopPrice = kMaxPrice
  /\ WordRange = SizeRange /\ WordRange \in Nat /\ WordRange > kMaxPrice
  /\ 0 \in Size /\ 1 \in Size /\ VenueSizes \subseteq SizeText /\ 0 \in Price
  /\ InCents \subseteq {10 * c : c \in 0 .. kMaxPrice}
  /\ SizeDigits \in Nat \ {0}
BY BookAssumption, ParserAssumption, FeedAssumption DEF Size, Price

\* The cents of a price of the venue, and their order.
LEMMA CentsFacts ==
  ASSUME NEW p \in 0 .. 10 * kMaxPrice
  PROVE  /\ Cents(p) \in Price
         /\ \A q \in 0 .. 10 * kMaxPrice : p <= q => Cents(p) <= Cents(q)
BY Ranges DEF Cents, Price

\* The parser finds the cents of a price that the venue writes with a dot.
LEMMA DottedPriceRead ==
  ASSUME NEW p \in 0 .. 10 * kMaxPrice, p \notin InCents
  PROVE  parse_price_cents(PriceText(p)) = Cents(p)
<1> DEFINE w == p \div 1000
           a == (p \div 100) % 10
           b == (p \div 10) % 10
           c == p % 10
           r == IF c >= 5 THEN 1 ELSE 0
           n == w * 100 + 10 * a + b + r
<1>1. /\ p \in Nat /\ a \in 0 .. 9 /\ b \in 0 .. 9 /\ c \in 0 .. 9 /\ w \in Nat
      /\ p = 1000 * w + 100 * a + 10 * b + c
  BY Ranges
<1>2. PriceText(p) = [dot |-> TRUE, int |-> w, frac |-> <<a, b, c>>]
  BY DEF PriceText
<1>3. n = (p + 5) \div 10
  <2> HIDE DEF w, a, b, c
  <2> QED
    BY <1>1
<1>4. n \in 0 .. kMaxPrice
  BY <1>3, Ranges
<1> HIDE DEF w, a, b, c
<1>5. w \in 0 .. WordRange - 1
  BY <1>1, <1>4, Ranges
<1>6. parse_price_cents(PriceText(p)) = n % WordRange
  <2>1. a \in 0 .. 9 /\ b \in 0 .. 9 /\ c \in 0 .. 9
    BY <1>1
  <2> DEFINE text == PriceText(p)
  <2>2. text.dot /\ text.int = w /\ text.frac = <<a, b, c>>
    BY <1>2
  <2> HIDE DEF text
  <2> DEFINE frac == <<a, b, c>>
  <2>3. Len(frac) = 3 /\ frac # <<>> /\ AllDigits(frac)
    BY <2>1 DEF AllDigits
  <2>4. Digit(frac, 1) = a /\ Digit(frac, 2) = b /\ Digit(frac, 3) = c
    BY <2>1 DEF Digit
  <2>5. text.frac = frac
    BY <2>2
  <2> HIDE DEF frac
  <2>6. WholePart(text) = w /\ w # Reject
    BY <1>5, <2>2 DEF WholePart, parse_u32, Empty, Reject
  <2>7. parse_price_cents(text)
          = (WholePart(text) * 100 + 10 * Digit(text.frac, 1) + Digit(text.frac, 2)
               + (IF Digit(text.frac, 3) >= 5 THEN 1 ELSE 0)) % WordRange
    <3>1. text.dot /\ text.frac # <<>> /\ AllDigits(text.frac) /\ WholePart(text) # Reject
      BY <2>2, <2>3, <2>5, <2>6
    <3> QED
      BY ONLY <3>1, PriceOfDecimals, Zenon
  <2> QED
    BY ONLY <2>4, <2>5, <2>6, <2>7 DEF text, n, r
<1>7. n % WordRange = n
  <2> HIDE DEF n
  <2> QED
    BY <1>4, Ranges
<1> QED
  BY <1>3, <1>6, <1>7 DEF Cents

\* And of one that it writes as cents.
LEMMA PriceRead ==
  ASSUME NEW p \in 0 .. 10 * kMaxPrice
  PROVE  parse_price_cents(PriceText(p)) = Cents(p)
<1>1. CASE p \notin InCents
  BY <1>1, DottedPriceRead
<1>2. CASE p \in InCents
  <2>1. PICK c \in 0 .. kMaxPrice : p = 10 * c
    BY <1>2, Ranges
  <2>2. p \div 10 = c /\ (p + 5) \div 10 = c /\ c \in 0 .. WordRange - 1 /\ c \in Int
    BY <2>1, Ranges
  <2> DEFINE text == PriceText(p)
  <2>3. ~text.dot /\ text.int = c
    BY <1>2, <2>2 DEF PriceText
  <2> HIDE DEF text
  <2>4. parse_price_cents(text) = c
    BY <2>2, <2>3, IntegerTexts
  <2> QED
    BY <2>2, <2>4 DEF text, Cents
<1> QED
  BY <1>1, <1>2

\* What the parser makes of a size that the venue writes.
LEMMA SizeRead ==
  ASSUME NEW text \in VenueSizes
  PROVE  /\ BookSize(text) \in Nat
         /\ Positive(text) <=> BookSize(text) # 0
         /\ Fits(text) => BookSize(text) \in Size /\ parse_size_u32(text) = BookSize(text)
         /\ ~Fits(text) => Positive(text) /\ parse_size_u32(text) = Reject
<1> DEFINE w == text.int
           frac == text.frac
           scaled == Scaled(w, frac, SizeDigits)
<1>1. /\ text.dot \in BOOLEAN /\ w \in Nat /\ frac \in Seq(0 .. 9)
      /\ Len(frac) <= SizeDigits /\ (~text.dot => frac = <<>>)
  BY Ranges DEF SizeText
<1>2. AllDigits(frac) /\ DOMAIN frac = 1 .. Len(frac) /\ Len(frac) \in Nat
  BY <1>1 DEF AllDigits
<1>3. WordRange \in Nat /\ WordRange > 0 /\ SizeDigits \in Nat \ {0} /\ WordRange = SizeRange
  BY Ranges
<1> HIDE DEF w, frac
<1>4. \A i \in Nat \ {0} : Digit(frac, i) \in 0 .. 9
  BY <1>1, <1>2, DigitFacts
<1>5. scaled \in Nat /\ scaled >= w
  BY <1>1, <1>3, <1>4, ScaledStep, ScaledAbove
<1>6. scaled = 0 <=> w = 0 /\ \A i \in 1 .. SizeDigits : Digit(frac, i) = 0
  BY <1>1, <1>3, <1>4, ScaledZero
<1>7. Whole(text) <=> \A i \in DOMAIN frac : frac[i] = 0
  BY DEF Whole, frac
<1>8. Positive(text) <=> w # 0 \/ ~Whole(text)
  <2>1. \A i \in DOMAIN frac : frac[i] # 0 <=> ~(frac[i] = 0)
    OBVIOUS
  <2> QED
    BY <1>7, <2>1 DEF Positive, w, frac
<1>9. ~Whole(text) => scaled # 0
  <2> SUFFICES ASSUME NEW i \in DOMAIN frac, frac[i] # 0 PROVE scaled # 0
    BY <1>7
  <2>1. i \in 1 .. SizeDigits /\ Digit(frac, i) = frac[i]
    BY <1>1, <1>2, <1>3 DEF Digit
  <2> QED
    BY <1>6, <2>1
<1>10. BookSize(text) = IF Whole(text) THEN w ELSE scaled
  BY DEF BookSize, w, frac
<1> HIDE DEF scaled
<1>11. BookSize(text) \in Nat /\ (Positive(text) <=> BookSize(text) # 0)
  BY <1>1, <1>5, <1>8, <1>9, <1>10
<1>12. WholePart(text) = IF w < WordRange THEN w ELSE Reject
  BY <1>1, <1>3 DEF WholePart, parse_u32, Empty, w
<1>13. w < WordRange => w # Reject
  BY <1>1 DEF Reject
<1>14. parse_size_u32(text) = IF BookSize(text) < WordRange THEN BookSize(text) ELSE Reject
  <2>1. CASE ~text.dot
    <3>1. Whole(text)
      BY <1>1, <1>7, <2>1
    <3>2. parse_size_u32(text) = IF w < WordRange THEN w ELSE Reject
      BY <1>1, <1>3, <2>1 DEF parse_size_u32, parse_u32, w
    <3> QED
      BY <1>10, <3>1, <3>2
  <2>2. CASE text.dot /\ ~(w < WordRange)
    <3>1. parse_size_u32(text) = Reject
      BY <1>12, <2>2 DEF parse_size_u32
    <3>2. ~(BookSize(text) < WordRange)
      BY <1>1, <1>3, <1>5, <1>10, <2>2
    <3> QED
      BY <3>1, <3>2
  <2>3. CASE text.dot /\ w < WordRange /\ Whole(text)
    <3>1. parse_size_u32(text) = w
      BY <1>2, <1>7, <1>12, <1>13, <2>3 DEF parse_size_u32, frac
    <3> QED
      BY <1>10, <2>3, <3>1
  <2>4. CASE text.dot /\ w < WordRange /\ ~Whole(text)
    <3>1. parse_size_u32(text) = IF scaled < WordRange THEN scaled ELSE Reject
      BY <1>2, <1>7, <1>12, <1>13, <2>4 DEF parse_size_u32, frac, scaled
    <3> QED
      BY <1>10, <2>4, <3>1
  <2> QED
    BY <1>1, <2>1, <2>2, <2>3, <2>4
<1> QED
  BY <1>3, <1>11, <1>14 DEF Fits, Size

\* The prices of the venue.
LEMMA GridFacts ==
  ASSUME grid \in Grids
  PROVE  /\ grid \subseteq 0 .. 10 * kMaxPrice
         /\ \A S \in SUBSET grid : IsFiniteSet(S) /\ Cardinality(S) \in Nat
<1>1. grid \subseteq 0 .. 10 * kMaxPrice
  BY FeedAssumption
<1>2. IsFiniteSet(0 .. 10 * kMaxPrice)
  BY Ranges, FS_Interval
<1>3. ASSUME NEW S \in SUBSET grid PROVE IsFiniteSet(S) /\ Cardinality(S) \in Nat
  <2>1. S \in SUBSET (0 .. 10 * kMaxPrice)
    BY <1>1
  <2>2. IsFiniteSet(S)
    BY <1>2, <2>1, FS_Subset
  <2> QED
    BY <2>2, FS_CardinalityType
<1> QED
  BY <1>1, <1>3

\* Prices that share their cents.
LEMMA Sharing ==
  ASSUME grid \in Grids, NEW c, NEW p \in Rounded(c)
  PROVE  /\ Cardinality(Rounded(c)) = 1 => \A q \in Rounded(c) : q = p
         /\ \A q \in Rounded(c) : q # p => Cardinality(Rounded(c)) > 1
<1> DEFINE S == Rounded(c)
<1>1. IsFiniteSet(S) /\ Cardinality(S) \in Nat
  BY GridFacts DEF Rounded
<1> HIDE DEF S
<1>2. p \in S
  BY DEF S
<1>3. Cardinality(S) # 0
  BY <1>1, <1>2, FS_EmptySet
<1>4. Cardinality(S) = 1 => \E x : S = {x}
  BY <1>1, FS_Singleton
<1>5. Cardinality(S) = 1 => \A q \in S : q = p
  BY <1>2, <1>4
<1>6. \A q \in S : q # p => Cardinality(S) > 1
  BY <1>1, <1>3, <1>5
<1> QED
  BY <1>5, <1>6 DEF S

\* The best prices of a side that has any.
LEMMA BestPrices ==
  ASSUME grid \in Grids, NEW S \in SUBSET grid, S # {}
  PROVE  Max(S) \in S /\ Min(S) \in S
<1> DEFINE m == 10 * kMaxPrice
           U == {m - y : y \in S}
<1>1. m \in Nat /\ S \subseteq Nat /\ \A y \in S : y <= m
  BY GridFacts, Ranges
<1>2. PICK a \in S : \A y \in S : a <= y
  BY <1>1, FirstOf
<1> HIDE DEF m
<1>3. U \subseteq Nat /\ U # {}
  BY <1>1
<1>4. PICK k \in U : \A j \in U : k <= j
  BY <1>3, FirstOf
<1>5. PICK b \in S : k = m - b
  BY <1>4
<1>6. ASSUME NEW y \in S PROVE b >= y
  <2>1. m - b <= m - y
    BY <1>4, <1>5
  <2> QED
    BY <1>1, <2>1
<1>7. \E x \in S : \A y \in S : x <= y
  BY <1>2
<1>8. \E x \in S : \A y \in S : x >= y
  BY <1>6
<1> QED
  BY <1>7, <1>8 DEF Max, Min

-----------------------------------------------------------------------------
(* Messages.                                                               *)

TickOf(is_bid, price, size) == [price |-> Cents(price), size |-> size, is_bid |-> is_bid]

\* A tick of a level has the venue's types.
LEMMA TickType ==
  ASSUME grid \in Grids, NEW p \in grid, NEW size \in Size, NEW is_bid \in BOOLEAN
  PROVE  /\ TickOf(is_bid, p, size) \in Tick
         /\ KeyOf(TickOf(is_bid, p, size)) = <<is_bid, Cents(p)>>
         /\ TickOf(is_bid, p, size).size = size
         /\ <<is_bid, Cents(p)>> \in Key
<1>1. Cents(p) \in Price
  BY GridFacts, CentsFacts
<1> QED
  BY <1>1 DEF TickOf, Tick, KeyOf, Key

\* The tick of a level of the venue.
VenueTick(is_bid, side, price) == TickOf(is_bid, price, BookSize(side[price]))

\* A level of the venue becomes one tick, or none if its size does not fit.
LEMMA LevelRead ==
  ASSUME grid \in Grids, NEW p \in grid, NEW side \in [grid -> VenueSizes], NEW is_bid,
         NEW level, level.shape = "level", level.price = PriceText(p), level.size = side[p]
  PROVE  LevelTicks(level, is_bid) = IF Fits(side[p]) THEN <<VenueTick(is_bid, side, p)>> ELSE <<>>
<1>1. parse_price_cents(level.price) = Cents(p) /\ Cents(p) \in 0 .. TopPrice
  BY GridFacts, PriceRead, CentsFacts, Ranges DEF Price
<1> DEFINE text == side[p]
<1>2. text \in VenueSizes /\ level.size = text
  OBVIOUS
<1> HIDE DEF text
<1>3. parse_size_u32(level.size) = IF Fits(text) THEN BookSize(text) ELSE Reject
  BY <1>2, SizeRead
<1>4. BookSize(text) # Reject
  BY <1>2, SizeRead DEF Reject
<1>5. LevelTicks(level, is_bid) = IF Fits(text) THEN <<TickOf(is_bid, p, BookSize(text))>> ELSE <<>>
  BY <1>1, <1>3, <1>4 DEF LevelTicks, in_price_range, TickOf
<1> QED
  BY <1>5 DEF text, VenueTick

\* A hint becomes a tick of size 1 at the best price, or nothing.
LEMMA HintRead ==
  ASSUME grid \in Grids, NEW S \in SUBSET grid, NEW best, S # {} => best \in S, NEW is_bid
  PROVE  \/ HintTicks(HintText(S, best), is_bid) = <<>>
         \/ /\ hints /\ S # {}
            /\ HintTicks(HintText(S, best), is_bid) = <<TickOf(is_bid, best, 1)>>
<1> DEFINE text == HintText(S, best)
           price == parse_price_cents(text)
<1>1. HintTicks(text, is_bid) = IF in_price_range(price) /\ price # 0
                                THEN <<[price |-> price, size |-> 1, is_bid |-> is_bid]>>
                                ELSE <<>>
  BY DEF HintTicks
<1>2. CASE ~hints
  <2>1. text = NoText /\ ~NoText.dot /\ NoText.int = -1
    BY <1>2 DEF HintText, NoText, Empty
  <2>2. price = Reject
    BY <2>1, IntegerTexts
  <2>3. ~in_price_range(price)
    BY <2>2, Ranges DEF in_price_range, Reject
  <2> QED
    BY <1>1, <2>3
<1>3. CASE hints /\ S = {}
  <2>1. text = PriceText(0) /\ 0 \in 0 .. 10 * kMaxPrice
    BY <1>3, Ranges DEF HintText
  <2>2. price = Cents(0)
    BY <2>1, PriceRead
  <2>3. Cents(0) = 0
    BY DEF Cents
  <2> QED
    BY <1>1, <2>2, <2>3
<1>4. CASE hints /\ S # {}
  <2>1. text = PriceText(best) /\ best \in 0 .. 10 * kMaxPrice
    BY <1>4, GridFacts DEF HintText
  <2>2. price = Cents(best)
    BY <2>1, PriceRead
  <2> QED
    BY <1>1, <1>4, <2>2 DEF TickOf
<1> QED
  BY <1>2, <1>3, <1>4

\* A sequence of at most one element.
LEMMA AtMostOne ==
  ASSUME NEW S, NEW H, NEW h, h = <<>> \/ \E t \in S : t \in H /\ h = <<t>>
  PROVE  h \in Seq(S) /\ \A i \in DOMAIN h : h[i] \in H
<1>1. CASE h = <<>>
  BY <1>1
<1>2. CASE \E t \in S : t \in H /\ h = <<t>>
  BY <1>2
<1> QED
  BY <1>1, <1>2

\* The ticks that a venue's hints can become.
Hinted(bids, asks) ==
  {t \in Tick : /\ hints
                /\ \E q \in VenueLevels(IF t.is_bid THEN bids ELSE asks) : t = TickOf(t.is_bid, q, 1)}

\* The ticks of each change.
Emitted(changes, n) == [i \in 1 .. n |-> ChangeTicks(changes[i])]

\* Those of a message's changes.
LEMMA AllChanges ==
  ASSUME NEW n \in Nat, NEW S, NEW changes \in [1 .. n -> S],
         \A i \in 1 .. n : ~Stops(changes[i])
  PROVE  parse_tick(PriceChange(changes)).ticks = FlattenSeq(Emitted(changes, n))
<1> DEFINE field == [status |-> "array", elements |-> changes]
           message == [event_type |-> "price_change", price_changes |-> field]
           emitted == [i \in DOMAIN field.elements |-> ChangeTicks(field.elements[i])]
           R == parse_tick(PriceChange(changes))
<1>1. R = parse_message_object(message)
  <2>1. PriceChange(changes) = [kind |-> "object", messages |-> <<message>>]
    BY DEF PriceChange
  <2> HIDE DEF message
  <2> QED
    BY <2>1 DEF parse_tick
<1>2. parse_message_object(message) = parse_price_change(field)
  <2> HIDE DEF field
  <2> QED
    BY DEF parse_message_object
<1>3. parse_price_change(field) = ParseArray(field, emitted)
  BY DEF parse_price_change
<1>4. field.status = "array" /\ field.elements = changes
  OBVIOUS
<1>5. emitted = Emitted(changes, n)
  BY DEF Emitted
<1>6. emitted \in [1 .. n -> {ChangeTicks(changes[i]) : i \in 1 .. n}]
  OBVIOUS
<1> HIDE DEF field, emitted, R, message
<1>7. ParseArray(field, emitted) = [status |-> "ok", ticks |-> FlattenSeq(emitted)]
  BY <1>4, <1>6, GoodArray
<1>8. R.ticks = FlattenSeq(emitted)
  BY <1>1, <1>2, <1>3, <1>7
<1> QED
  BY <1>5, <1>8 DEF R

\* Those of a message with one change.
LEMMA OneChange ==
  ASSUME NEW change, ~Stops(change)
  PROVE  parse_tick(PriceChange(<<change>>)).ticks = ChangeTicks(change)
<1> DEFINE one == <<change>>
           c == ChangeTicks(change)
           emitted == Emitted(one, 1)
<1>1. one \in [1 .. 1 -> {change}] /\ 1 \in Nat /\ \A j \in 1 .. 1 : one[j] = change
  OBVIOUS
<1> HIDE DEF one
<1>5. \A j \in 1 .. 1 : ~Stops(one[j])
  BY <1>1
<1>2. parse_tick(PriceChange(one)).ticks = FlattenSeq(emitted)
  BY ONLY <1>1, <1>5, AllChanges
<1>3. emitted \in [1 .. 1 -> {c}] /\ emitted[1] = c
  BY <1>1 DEF Emitted
<1> HIDE DEF emitted, c
<1>4. FlattenSeq(emitted) = c
  BY <1>3, FlattenOne
<1> QED
  BY <1>2, <1>4 DEF one, c

\* A price_change message with any number of changes, none of the wrong
\* structure, becomes what messages with one change each become, sent one
\* after the other in the same order.
THEOREM ChangesOneByOne ==
  ASSUME NEW n \in Nat, NEW S, NEW changes \in [1 .. n -> S],
         \A i \in 1 .. n : ~Stops(changes[i])
  PROVE  parse_tick(PriceChange(changes)).ticks
           = FlattenSeq([i \in 1 .. n |-> parse_tick(PriceChange(<<changes[i]>>)).ticks])
<1>1. Emitted(changes, n) = [i \in 1 .. n |-> parse_tick(PriceChange(<<changes[i]>>)).ticks]
  BY OneChange DEF Emitted
<1>2. parse_tick(PriceChange(changes)).ticks = FlattenSeq(Emitted(changes, n))
  BY AllChanges
<1> QED
  BY ONLY <1>1, <1>2

\* A change becomes the tick of its level, then those of the hints; one whose
\* size does not fit becomes nothing.
LEMMA ChangeRead ==
  ASSUME grid \in Grids, NEW p \in grid, NEW is_bid \in BOOLEAN,
         NEW side \in [grid -> VenueSizes],
         NEW bids \in [grid -> VenueSizes], NEW asks \in [grid -> VenueSizes]
  PROVE  \E T \in Seq(Tick) :
           /\ T = parse_tick(PriceChange(<<ChangeOf(p, side, is_bid, bids, asks)>>)).ticks
           /\ ~Fits(side[p]) => T = <<>>
           /\ Fits(side[p]) => Len(T) >= 1 /\ T[1] = VenueTick(is_bid, side, p)
           /\ \A i \in 2 .. Len(T) : T[i] \in Hinted(bids, asks)
<1> DEFINE b == VenueLevels(bids)
           a == VenueLevels(asks)
           bt == HintText(b, Max(b))
           at == HintText(a, Min(a))
           change == ChangeOf(p, side, is_bid, bids, asks)
           own == VenueTick(is_bid, side, p)
           h1 == HintTicks(bt, TRUE)
           h2 == HintTicks(at, FALSE)
<1>1. b \in SUBSET grid /\ a \in SUBSET grid
  BY DEF VenueLevels
<1>2. side[p] \in VenueSizes
  OBVIOUS
<1>3. Fits(side[p]) => own \in Tick
  BY <1>2, SizeRead, TickType DEF VenueTick
<1>4. h1 \in Seq(Tick) /\ \A i \in DOMAIN h1 : h1[i] \in Hinted(bids, asks)
  <2>1. b # {} => Max(b) \in b
    BY <1>1, BestPrices
  <2> DEFINE t == TickOf(TRUE, Max(b), 1)
  <2>2. h1 = <<>> \/ (hints /\ b # {} /\ h1 = <<t>>)
    <3> HIDE DEF b
    <3> QED
      BY <1>1, <2>1, HintRead
  <2>3. ASSUME hints, b # {} PROVE t \in Tick /\ t \in Hinted(bids, asks)
    <3>1. t \in Tick
      BY <1>1, <2>1, <2>3, TickType, Ranges
    <3>2. t.is_bid = TRUE
      BY DEF TickOf
    <3> QED
      BY <2>1, <2>3, <3>1, <3>2 DEF Hinted
  <2> HIDE DEF t, h1
  <2>4. h1 = <<>> \/ \E u \in Tick : u \in Hinted(bids, asks) /\ h1 = <<u>>
    BY <2>2, <2>3
  <2> QED
    BY ONLY <2>4, AtMostOne
<1>5. h2 \in Seq(Tick) /\ \A i \in DOMAIN h2 : h2[i] \in Hinted(bids, asks)
  <2>1. a # {} => Min(a) \in a
    BY <1>1, BestPrices
  <2> DEFINE t == TickOf(FALSE, Min(a), 1)
  <2>2. h2 = <<>> \/ (hints /\ a # {} /\ h2 = <<t>>)
    <3> HIDE DEF a
    <3> QED
      BY <1>1, <2>1, HintRead
  <2>3. ASSUME hints, a # {} PROVE t \in Tick /\ t \in Hinted(bids, asks)
    <3>1. t \in Tick
      BY <1>1, <2>1, <2>3, TickType, Ranges
    <3>2. t.is_bid = FALSE
      BY DEF TickOf
    <3> QED
      BY <2>1, <2>3, <3>1, <3>2 DEF Hinted
  <2> HIDE DEF t, h2
  <2>4. h2 = <<>> \/ \E u \in Tick : u \in Hinted(bids, asks) /\ h2 = <<u>>
    BY <2>2, <2>3
  <2> QED
    BY ONLY <2>4, AtMostOne
<1>6. ChangeTicks(change) = IF Fits(side[p]) THEN <<own>> \o h1 \o h2 ELSE <<>>
  <2>1. /\ change.side \in {"BUY", "SELL"} /\ (change.side = "BUY") = is_bid
        /\ change.best_bid = bt /\ change.best_ask = at
        /\ change.shape = "level" /\ change.price = PriceText(p) /\ change.size = side[p]
    BY DEF ChangeOf
  <2> HIDE DEF change
  <2>2. LevelTicks(change, is_bid) = IF Fits(side[p]) THEN <<own>> ELSE <<>>
    BY <2>1, LevelRead
  <2>3. <<own>> # <<>>
    OBVIOUS
  <2> HIDE DEF own, bt, at
  <2>4. (IF change.side \in {"BUY", "SELL"} THEN LevelTicks(change, change.side = "BUY") ELSE <<>>)
          = LevelTicks(change, is_bid)
    BY <2>1
  <2>5. CASE Fits(side[p])
    <3>1. LevelTicks(change, is_bid) = <<own>>
      BY <2>2, <2>5
    <3> QED
      BY <2>1, <2>3, <2>4, <2>5, <3>1 DEF ChangeTicks
  <2>6. CASE ~Fits(side[p])
    <3>1. LevelTicks(change, is_bid) = <<>>
      BY <2>2, <2>6
    <3> QED
      BY <2>4, <2>6, <3>1 DEF ChangeTicks
  <2> QED
    BY <2>5, <2>6
<1> DEFINE c == ChangeTicks(change)
           T == parse_tick(PriceChange(<<change>>)).ticks
<1>7. T = c
  <2>1. change.shape = "level"
    BY DEF ChangeOf
  <2>2. ~Stops(change)
    BY <2>1 DEF Stops
  <2> HIDE DEF change
  <2> QED
    BY <2>2, OneChange
<1> HIDE DEF own, h1, h2, c
<1>8. ASSUME Fits(side[p])
      PROVE  /\ T \in Seq(Tick) /\ Len(T) >= 1 /\ T[1] = own
             /\ \A i \in 2 .. Len(T) : T[i] \in Hinted(bids, asks)
  <2>1. T = <<own>> \o h1 \o h2
    BY <1>6, <1>7, <1>8 DEF c
  <2>2. own \in Tick
    BY <1>3, <1>8
  <2> HIDE DEF T
  <2> QED
    BY ONLY <1>4, <1>5, <2>1, <2>2, OwnTickFirst
<1>9. ASSUME ~Fits(side[p])
      PROVE  T = <<>> /\ T \in Seq(Tick) /\ \A i \in 2 .. Len(T) : FALSE
  <2>1. T = <<>>
    BY <1>6, <1>7, <1>9 DEF c
  <2> HIDE DEF T
  <2> QED
    BY <2>1
<1>10. /\ T \in Seq(Tick)
       /\ ~Fits(side[p]) => T = <<>>
       /\ Fits(side[p]) => Len(T) >= 1 /\ T[1] = own
       /\ \A i \in 2 .. Len(T) : T[i] \in Hinted(bids, asks)
  <2> HIDE DEF T
  <2> QED
    BY <1>8, <1>9
<1> QED
  BY <1>10 DEF own

\* The levels of a side whose sizes fit, and their ticks.
Fitting(side) == {q \in VenueLevels(side) : Fits(side[q])}
TicksOf(is_bid, side) == {VenueTick(is_bid, side, q) : q \in Fitting(side)}

\* A side of a snapshot becomes a tick for each of its levels that fits.
LEMMA SideRead ==
  ASSUME grid \in Grids, NEW side \in [grid -> VenueSizes], NEW is_bid \in BOOLEAN,
         NEW prices \in SetToSeqs(VenueLevels(side))
  PROVE  \E ticks \in Seq(Tick) :
           /\ parse_levels(LevelsField(side, prices), is_bid) = [status |-> "ok", ticks |-> ticks]
           /\ Elements(ticks) = TicksOf(is_bid, side)
<1> DEFINE S == VenueLevels(side)
           n == Cardinality(S)
           field == LevelsField(side, prices)
           tick(q) == VenueTick(is_bid, side, q)
           ticks(q) == IF Fits(side[q]) THEN <<tick(q)>> ELSE <<>>
           ss == [i \in 1 .. n |-> ticks(prices[i])]
           emitted == [i \in DOMAIN field.elements |-> LevelTicks(field.elements[i], is_bid)]
           R == parse_levels(field, is_bid)
<1>1. S \in SUBSET grid
  BY DEF VenueLevels
<1>2. IsFiniteSet(S) /\ n \in Nat
  BY <1>1, GridFacts
<1>3. prices \in [1 .. n -> S] /\ \A i, j \in 1 .. n : i # j => prices[i] # prices[j]
  BY DEF SetToSeqs
<1> HIDE DEF n, S
<1>4. prices \in Surjection(1 .. n, S)
  <2>1. prices \in Injection(1 .. n, S)
    BY <1>3 DEF Injection, IsInjective
  <2>2. Cardinality(1 .. n) = n
    BY <1>2, FS_Interval
  <2>3. Cardinality(1 .. n) = Cardinality(S)
    BY <2>2 DEF n
  <2> QED
    BY <1>2, <2>1, <2>3, FS_Injection
<1>5. \A q \in S : \E i \in 1 .. n : prices[i] = q
  BY <1>4 DEF Surjection
<1>6. ASSUME NEW q \in S
      PROVE  /\ ticks(q) \in Seq(Tick)
             /\ \A x : x \in Elements(ticks(q)) <=> Fits(side[q]) /\ x = tick(q)
  <2>1. CASE Fits(side[q])
    <3>1. q \in grid /\ side[q] \in VenueSizes
      BY <1>1
    <3>2. tick(q) \in Tick
      BY <2>1, <3>1, SizeRead, TickType DEF VenueTick
    <3> DEFINE e == tick(q)
    <3>3. ticks(q) = <<e>> /\ e \in Tick
      BY <2>1, <3>2
    <3> HIDE DEF e
    <3>4. <<e>> \in Seq(Tick) /\ DOMAIN <<e>> = {1} /\ <<e>>[1] = e
      BY <3>3
    <3>5. \A x : x \in Elements(<<e>>) <=> x = e
      BY <3>4 DEF Elements
    <3> QED
      BY ONLY <2>1, <3>3, <3>4, <3>5 DEF e
  <2>2. CASE ~Fits(side[q])
    <3>1. ticks(q) = <<>>
      BY <2>2
    <3>2. <<>> \in Seq(Tick) /\ Elements(<<>>) = {}
      BY DEF Elements
    <3> QED
      BY ONLY <2>2, <3>1, <3>2
  <2> QED
    BY <2>1, <2>2
<1>7. /\ field.status = "array"
      /\ field.elements = [i \in 1 .. n |-> LevelOf(side, prices[i])]
  BY <1>3 DEF LevelsField
<1>8. ASSUME NEW q \in S PROVE LevelTicks(LevelOf(side, q), is_bid) = ticks(q)
  <2> DEFINE level == LevelOf(side, q)
  <2>1. level.shape = "level" /\ level.price = PriceText(q) /\ level.size = side[q] /\ q \in grid
    BY <1>1 DEF LevelOf
  <2> HIDE DEF level
  <2>2. LevelTicks(level, is_bid) = ticks(q)
    BY <2>1, LevelRead
  <2> QED
    BY <2>2 DEF level
<1>9. emitted = ss
  <2>1. DOMAIN field.elements = 1 .. n
    BY <1>7
  <2>2. ASSUME NEW i \in 1 .. n PROVE LevelTicks(field.elements[i], is_bid) = ticks(prices[i])
    <3>1. field.elements[i] = LevelOf(side, prices[i]) /\ prices[i] \in S
      BY <1>3, <1>7
    <3> HIDE DEF field, ticks
    <3> QED
      BY <1>8, <3>1
  <2> HIDE DEF field, ticks
  <2> QED
    BY <2>1, <2>2
<1>10. ss \in [1 .. n -> Seq(Tick)]
  <2>1. \A i \in 1 .. n : ticks(prices[i]) \in Seq(Tick)
    BY <1>3, <1>6
  <2> HIDE DEF ticks
  <2> QED
    BY <2>1
<1> DEFINE flat == FlattenSeq(ss)
<1>11. R = [status |-> "ok", ticks |-> flat]
  <2>1. R = ParseArray(field, emitted)
    BY DEF parse_levels
  <2>2. field.elements \in [1 .. n -> {LevelOf(side, q) : q \in S}]
    BY <1>3, <1>7
  <2>3. \A i \in 1 .. n : ~Stops(field.elements[i])
    BY <1>7 DEF LevelOf, Stops
  <2> HIDE DEF emitted, field, R, ss
  <2> QED
    BY <1>2, <1>7, <1>9, <1>10, <2>1, <2>2, <2>3, GoodArray
<1> HIDE DEF ss
<1>12. /\ flat \in Seq(Tick)
       /\ \A x : x \in Elements(flat) <=> \E k \in 1 .. n : x \in Elements(ss[k])
  BY ONLY <1>2, <1>10, FlattenType, FlattenElements
<1>13. \A k \in 1 .. n : ss[k] = ticks(prices[k]) /\ prices[k] \in S
  BY <1>3 DEF ss
<1>14. Elements(flat) = {tick(q) : q \in {u \in S : Fits(side[u])}}
  <2> HIDE DEF tick, ticks, flat
  <2>1. ASSUME NEW x \in Elements(flat) PROVE \E q \in S : Fits(side[q]) /\ x = tick(q)
    <3>1. PICK k \in 1 .. n : x \in Elements(ss[k])
      BY <1>12
    <3> QED
      BY <1>6, <1>13, <3>1
  <2>2. ASSUME NEW q \in S, Fits(side[q]) PROVE tick(q) \in Elements(flat)
    <3>1. PICK k \in 1 .. n : prices[k] = q
      BY <1>5
    <3>2. tick(q) \in Elements(ss[k])
      BY <1>6, <1>13, <2>2, <3>1
    <3> QED
      BY <1>12, <3>2
  <2> QED
    BY <2>1, <2>2
<1> QED
  BY <1>11, <1>12, <1>14 DEF S, TicksOf, Fitting

\* A snapshot becomes a tick for each level of the venue's book that fits.
LEMMA SnapshotRead ==
  ASSUME grid \in Grids,
         venue_bids \in [grid -> VenueSizes], venue_asks \in [grid -> VenueSizes],
         NEW bid_prices \in SetToSeqs(VenueLevels(venue_bids)),
         NEW ask_prices \in SetToSeqs(VenueLevels(venue_asks))
  PROVE  \E T \in Seq(Tick) :
           /\ T = parse_tick(Snapshot(bid_prices, ask_prices)).ticks
           /\ Elements(T) = TicksOf(TRUE, venue_bids) \cup TicksOf(FALSE, venue_asks)
<1> DEFINE T == parse_tick(Snapshot(bid_prices, ask_prices)).ticks
           B == parse_levels(LevelsField(venue_bids, bid_prices), TRUE)
           A == parse_levels(LevelsField(venue_asks, ask_prices), FALSE)
<1>1. PICK x \in Seq(Tick) :
        B = [status |-> "ok", ticks |-> x] /\ Elements(x) = TicksOf(TRUE, venue_bids)
  BY SideRead
<1>2. PICK y \in Seq(Tick) :
        A = [status |-> "ok", ticks |-> y] /\ Elements(y) = TicksOf(FALSE, venue_asks)
  BY SideRead
<1>3. T = x \o y
  <2> DEFINE message == [event_type |-> "book", bids |-> LevelsField(venue_bids, bid_prices),
                         asks |-> LevelsField(venue_asks, ask_prices)]
  <2>1. Snapshot(bid_prices, ask_prices) = [kind |-> "object", messages |-> <<message>>]
    BY DEF Snapshot
  <2>2. parse_tick(Snapshot(bid_prices, ask_prices)) = parse_message_object(message)
    <3> HIDE DEF message
    <3> QED
      BY <2>1 DEF parse_tick
  <2>3. parse_message_object(message) = Then(B, A)
    BY DEF parse_message_object
  <2> HIDE DEF message, B, A
  <2>4. Then(B, A).ticks = x \o y
    BY <1>1, <1>2 DEF Then
  <2> QED
    BY <2>2, <2>3, <2>4
<1> HIDE DEF T
<1>4. T \in Seq(Tick)
  BY <1>3
<1>5. Elements(T) = Elements(x) \cup Elements(y)
  BY <1>3, ConcatElements
<1> QED
  BY <1>1, <1>2, <1>4, <1>5 DEF T

-----------------------------------------------------------------------------
(* Sizes that suit the venue's book.                                       *)

\* The size of a level of the venue suits it.
LEMMA OwnSuits ==
  ASSUME grid \in Grids, NEW side \in [grid -> VenueSizes], NEW p \in grid, Fits(side[p])
  PROVE  Suits(side, Cents(p), BookSize(side[p]))
<1> DEFINE c == Cents(p)
<1>1. p \in Rounded(c)
  BY DEF Rounded
<1>2. Alone(c) => \A q \in Rounded(c) : q = p
  BY <1>1, Sharing DEF Alone
<1>3. Positive(side[p]) <=> BookSize(side[p]) # 0
  BY SizeRead
<1> HIDE DEF c
<1>4. Suits(side, c, BookSize(side[p]))
  BY <1>1, <1>2, <1>3 DEF Suits, At
<1> QED
  BY <1>4 DEF c

\* So does the size of a hint, which is about a level that is there.
LEMMA HintSuits ==
  ASSUME hints, NEW side, NEW p \in VenueLevels(side)
  PROVE  Suits(side, Cents(p), 1)
<1>1. p \in At(side, Cents(p))
  BY DEF VenueLevels, At, Rounded
<1> QED
  BY <1>1 DEF Suits

\* A size that does not fit suits whatever the book has.
LEMMA SkippedSuits ==
  ASSUME grid \in Grids, NEW side \in [grid -> VenueSizes], NEW p \in grid, ~Fits(side[p]), NEW size
  PROVE  Suits(side, Cents(p), size)
<1> DEFINE c == Cents(p)
<1>1. p \in Rounded(c)
  BY DEF Rounded
<1>2. Alone(c) => \A q \in Rounded(c) : q = p
  BY <1>1, Sharing DEF Alone
<1>3. Positive(side[p])
  BY SizeRead
<1> HIDE DEF c
<1>4. Suits(side, c, size)
  BY <1>1, <1>2, <1>3 DEF Suits, At
<1> QED
  BY <1>4 DEF c

\* A step that leaves the venue's sizes at a price leaves what suits them.
LEMMA SuitsKept ==
  ASSUME grid' = grid, hints' = hints, NEW key, NEW size,
         \A p \in Rounded(key[2]) : VenueSide(key[1])'[p] = VenueSide(key[1])[p]
  PROVE  Faithful(key, size)' <=> Faithful(key, size)
BY DEF Faithful, Suits, At, Alone, Rounded

\* What suits the venue after a step.
LEMMA SuitsNext ==
  ASSUME grid' = grid, hints' = hints, NEW key, NEW size
  PROVE  Faithful(key, size)' <=> Suits(VenueSide(key[1])', key[2], size)
BY DEF Faithful, Suits, At, Alone, Rounded

\* The venue's levels do not cross, so their cents can be equal at most.
LEMMA VenueApart ==
  ASSUME grid \in Grids, NEW bids, NEW asks, Uncrossed(bids, asks),
         NEW b, NEW a, At(bids, b) # {}, At(asks, a) # {}
  PROVE  Apart(b, a)
<1>1. PICK p \in Rounded(b) : Positive(bids[p])
  BY DEF At
<1>2. PICK q \in Rounded(a) : Positive(asks[q])
  BY DEF At
<1>3. p \in grid /\ q \in grid /\ Cents(p) = b /\ Cents(q) = a
  BY DEF Rounded
<1>4. p < q
  BY <1>1, <1>2, <1>3 DEF Uncrossed, VenueLevels
<1>5. p \in 0 .. 10 * kMaxPrice /\ q \in 0 .. 10 * kMaxPrice
  BY <1>3, GridFacts
<1>6. b <= a /\ b \in Nat /\ a \in Nat
  <2>1. p <= q /\ kMaxPrice \in Nat
    BY <1>4, <1>5, Ranges
  <2>2. Cents(p) <= Cents(q) /\ Cents(p) \in Price /\ Cents(q) \in Price
    BY <1>5, <2>1, CentsFacts
  <2> QED
    BY <1>3, <2>1, <2>2 DEF Price
<1>7. b = a => Cardinality(Rounded(b)) > 1
  <2>1. q # p
    BY <1>4, <1>5, Ranges
  <2> QED
    BY <2>1, Sharing
<1> QED
  BY <1>6, <1>7 DEF Apart

-----------------------------------------------------------------------------
(* Levels that pending ticks will leave.                                   *)

\* Only the first ticks matter.
LEMMA PresentPrefix ==
  ASSUME NEW s, NEW t, NEW n \in Nat, \A i \in 1 .. n : s[i] = t[i], NEW level, NEW key,
         PresentIn(s, level, key, n)
  PROVE  PresentIn(t, level, key, n)
<1>1. CASE level # 0 /\ \A j \in 1 .. n : KeyOf(s[j]) # key
  BY <1>1 DEF PresentIn
<1>2. CASE \E i \in 1 .. n : /\ KeyOf(s[i]) = key /\ s[i].size # 0
                             /\ \A j \in (i + 1) .. n : KeyOf(s[j]) # key
  <2>1. PICK i \in 1 .. n : /\ KeyOf(s[i]) = key /\ s[i].size # 0
                            /\ \A j \in (i + 1) .. n : KeyOf(s[j]) # key
    BY <1>2
  <2>2. \A j \in (i + 1) .. n : j \in 1 .. n
    OBVIOUS
  <2>3. KeyOf(t[i]) = key /\ t[i].size # 0 /\ \A j \in (i + 1) .. n : KeyOf(t[j]) # key
    BY <2>1, <2>2
  <2> QED
    BY <2>3 DEF PresentIn
<1> QED
  BY <1>1, <1>2 DEF PresentIn

\* The first tick has been applied.
LEMMA PresentTail ==
  ASSUME NEW s \in Seq(Tick), s # <<>>, NEW n \in 0 .. Len(s) - 1, NEW key, NEW before, NEW after,
         after = IF KeyOf(Head(s)) = key THEN Head(s).size ELSE before,
         PresentIn(Tail(s), after, key, n)
  PROVE  PresentIn(s, before, key, n + 1)
<1> DEFINE t == Tail(s)
           m == Len(s)
<1>1. m \in Nat \ {0} /\ Head(s) = s[1]
  OBVIOUS
<1>2. \A i \in 1 .. m - 1 : t[i] = s[i + 1]
  BY HeadTailProperties
<1>3. PresentIn(t, after, key, n) /\ n \in 0 .. m - 1
  OBVIOUS
<1> HIDE DEF t, m
<1>4. CASE \E i \in 1 .. n : /\ KeyOf(t[i]) = key /\ t[i].size # 0
                             /\ \A j \in (i + 1) .. n : KeyOf(t[j]) # key
  <2>1. PICK i \in 1 .. n : /\ KeyOf(t[i]) = key /\ t[i].size # 0
                            /\ \A j \in (i + 1) .. n : KeyOf(t[j]) # key
    BY <1>4
  <2>2. i + 1 \in 1 .. n + 1 /\ t[i] = s[i + 1]
    BY ONLY <1>1, <1>2, <1>3, <2>1
  <2>3. ASSUME NEW j \in (i + 1) + 1 .. n + 1 PROVE KeyOf(s[j]) # key
    <3>1. j - 1 \in i + 1 .. n /\ j - 1 \in 1 .. m - 1 /\ (j - 1) + 1 = j
      BY ONLY <1>1, <1>3, <2>1, <2>3
    <3>2. t[j - 1] = s[j]
      BY ONLY <1>2, <3>1
    <3> QED
      BY <2>1, <3>1, <3>2
  <2> QED
    BY <2>1, <2>2, <2>3 DEF PresentIn
<1>5. CASE after # 0 /\ \A j \in 1 .. n : KeyOf(t[j]) # key
  <2>1. ASSUME NEW j \in 2 .. n + 1 PROVE KeyOf(s[j]) # key
    <3>1. j - 1 \in 1 .. n /\ j - 1 \in 1 .. m - 1 /\ (j - 1) + 1 = j
      BY ONLY <1>1, <1>3, <2>1
    <3>2. t[j - 1] = s[j]
      BY ONLY <1>2, <3>1
    <3> QED
      BY <1>5, <3>1, <3>2
  <2>2. CASE KeyOf(s[1]) = key
    <3>1. 1 \in 1 .. n + 1 /\ s[1].size # 0 /\ 1 + 1 = 2
      BY <1>1, <1>3, <1>5, <2>2
    <3> QED
      BY <2>1, <2>2, <3>1 DEF PresentIn
  <2>3. CASE KeyOf(s[1]) # key
    <3>1. before # 0
      BY <1>1, <1>5, <2>3
    <3>2. \A j \in 1 .. n + 1 : j = 1 \/ j \in 2 .. n + 1
      BY ONLY <1>3, <1>1
    <3>3. \A j \in 1 .. n + 1 : KeyOf(s[j]) # key
      BY <2>1, <2>3, <3>2
    <3> QED
      BY <3>1, <3>3 DEF PresentIn
  <2> QED
    BY <2>2, <2>3
<1> QED
  BY <1>3, <1>4, <1>5 DEF PresentIn

-----------------------------------------------------------------------------
(* A message arrives.                                                      *)

\* The venue has the sizes it had under a key.
Unmoved(key) == \A p \in Rounded(key[2]) : VenueSide(key[1])'[p] = VenueSide(key[1])[p]

\* Two sequences, one after the other.
LEMMA JoinFacts ==
  ASSUME NEW q \in Seq(Tick), NEW t \in Seq(Tick)
  PROVE  /\ q \o t \in Seq(Tick) /\ Len(q \o t) = Len(q) + Len(t)
         /\ \A i \in 1 .. Len(q) : (q \o t)[i] = q[i]
         /\ \A i \in 1 .. Len(t) : (q \o t)[Len(q) + i] = t[i]
<1> DEFINE c == q \o t
           m == Len(q)
           n == Len(t)
<1>1. /\ c \in Seq(Tick) /\ Len(c) = m + n
      /\ \A i \in 1 .. m + n : c[i] = IF i <= m THEN q[i] ELSE t[i - m]
  BY ConcatProperties
<1>2. m \in Nat /\ n \in Nat
  OBVIOUS
<1> HIDE DEF c, m, n
<1>3. \A i \in 1 .. m : c[i] = q[i]
  BY ONLY <1>1, <1>2
<1>4. ASSUME NEW i \in 1 .. n PROVE c[m + i] = t[i]
  <2>1. m + i \in 1 .. m + n /\ ~(m + i <= m) /\ (m + i) - m = i
    BY ONLY <1>2, <1>4
  <2> QED
    BY ONLY <1>1, <2>1
<1> QED
  BY <1>1, <1>3, <1>4 DEF c, m, n

\* The parts of a tick.
LEMMA TickFields ==
  ASSUME NEW s \in Seq(Tick), NEW i \in DOMAIN s
  PROVE  s[i] \in Tick /\ KeyOf(s[i]) \in Key /\ s[i].size \in Size
<1>1. s[i] \in Tick
  OBVIOUS
<1> QED
  BY <1>1 DEF Tick, Key, KeyOf

\* What it takes for the queue and for the book to be faithful after a step.
LEMMA QueueNext ==
  ASSUME Types',
         \A i \in DOMAIN tick_queue' : \A key \in Key, size \in Size :
           /\ key = KeyOf(tick_queue'[i]) /\ size = tick_queue'[i].size
           /\ IsLastOf(tick_queue', i) /\ key \notin stale' /\ ~Has(parsed', key)
           => Faithful(key, size)'
  PROVE  QueueFaithful'
<1>1. \A i \in DOMAIN tick_queue' : KeyOf(tick_queue'[i]) \in Key /\ tick_queue'[i].size \in Size
  BY TickFields DEF Types
<1> QED
  BY <1>1 DEF QueueFaithful, IsLast, IsLastOf, Has, KeyOf, Faithful, Suits, At, Alone, Rounded, VenueSide

\* See QueueNext.
LEMMA ParsedNext ==
  ASSUME Types',
         \A i \in DOMAIN parsed' : \A key \in Key, size \in Size :
           /\ key = KeyOf(parsed'[i]) /\ size = parsed'[i].size /\ IsLastOf(parsed', i)
           => Faithful(key, size)'
  PROVE  ParsedFaithful'
<1>1. \A i \in DOMAIN parsed' : KeyOf(parsed'[i]) \in Key /\ parsed'[i].size \in Size
  BY TickFields DEF Types
<1> QED
  BY <1>1 DEF ParsedFaithful, IsLastOf, KeyOf, Faithful, Suits, At, Alone, Rounded, VenueSide

\* See QueueNext.
LEMMA BookNext ==
  ASSUME Types',
         \A key \in Key, size \in Size :
           /\ size = Level(key)' /\ key \notin stale' /\ ~Has(parsed', key) /\ ~Has(tick_queue', key)
           => Faithful(key, size)'
  PROVE  BookFaithful'
<1>1. \A key \in Key : Level(key)' \in Size
  BY DEF Types, Level, Side, Key
<1> QED
  BY <1>1 DEF BookFaithful, Has, KeyOf, Faithful, Suits, At, Alone, Rounded, VenueSide, Level, Side

\* What it takes for the book not to cross after a step.
LEMMA CrossNext ==
  ASSUME grid' = grid, NEW s, s = tick_queue' \o parsed',
         lossless' => \A n \in 0 .. Len(s), b, a \in Price :
                        /\ PresentIn(s, Level(<<TRUE, b>>)', <<TRUE, b>>, n)
                        /\ PresentIn(s, Level(<<FALSE, a>>)', <<FALSE, a>>, n)
                        => Apart(b, a)
  PROVE  WillNotCross'
<1>1. \A b, a : Apart(b, a)' <=> Apart(b, a)
  BY DEF Apart, Rounded
<1> QED
  BY <1>1 DEF WillNotCross, Present, Pending

\* It cannot cross as long as the same ticks are pending.
LEMMA CrossKept ==
  ASSUME WillNotCross, UNCHANGED <<grid, bids_, asks_, lossless>>,
         tick_queue' \o parsed' = Pending
  PROVE  WillNotCross'
<1>1. \A key : Level(key)' = Level(key)
  BY DEF Level, Side
<1>2. lossless => \A n \in 0 .. Len(Pending), b, a \in Price :
                    /\ PresentIn(Pending, Level(<<TRUE, b>>), <<TRUE, b>>, n)
                    /\ PresentIn(Pending, Level(<<FALSE, a>>), <<FALSE, a>>, n)
                    => Apart(b, a)
  BY DEF WillNotCross, Present
<1> QED
  BY <1>1, <1>2, CrossNext

\* Ticks that suit the venue's new book.
AllSuit(t) == \A i \in DOMAIN t : Suits(VenueSide(t[i].is_bid)', t[i].price, t[i].size)

\* A step of the venue demands nothing new of a level.
Kept(key) == \A size \in Size : Faithful(key, size) => Suits(VenueSide(key[1])', key[2], size)

\* What the venue's steps that the engine hears have in common: the ticks
\* suit the venue's new book, and the first of them is about the level that
\* has moved, if one has that the book can follow.
Arrives(t) ==
  /\ t \in Seq(Tick) /\ parsed' = parsed \o t /\ connected' = TRUE
  /\ UNCHANGED <<grid, hints, outages, bids_, asks_, tick_queue, stale, lossless>>
  /\ venue_bids' \in [grid -> VenueSizes] /\ venue_asks' \in [grid -> VenueSizes]
  /\ Uncrossed(venue_bids', venue_asks')
  /\ AllSuit(t)
  /\ \A key \in Key : (Len(t) >= 1 /\ KeyOf(t[1]) = key) \/ Kept(key)
  /\ ~Started => \A key \in Key : Has(t, key) \/ Suits(VenueSide(key[1])', key[2], 0)

\* The last pending tick of a level, if nothing was lost, and the level itself
\* if there is none.
LEMMA PendingFaithful ==
  ASSUME IInv, lossless, NEW key \in Key
  PROVE  /\ Pending \in Seq(Tick) /\ Len(Pending) = Len(tick_queue) + Len(parsed)
         /\ \A i \in 1 .. Len(Pending) :
              /\ KeyOf(Pending[i]) = key
              /\ \A j \in i + 1 .. Len(Pending) : KeyOf(Pending[j]) # key
              => Faithful(key, Pending[i].size)
         /\ Started /\ (\A j \in 1 .. Len(Pending) : KeyOf(Pending[j]) # key)
              => Faithful(key, Level(key))
<1> DEFINE q == tick_queue
           t == parsed
           s == Pending
           m == Len(q)
           k == Len(t)
<1>1. q \in Seq(Tick) /\ t \in Seq(Tick) /\ stale = {} /\ s = q \o t
  BY DEF IInv, Types, Pending
<1>2. m \in Nat /\ k \in Nat /\ DOMAIN q = 1 .. m /\ DOMAIN t = 1 .. k
  BY <1>1
<1>3. /\ s \in Seq(Tick) /\ Len(s) = m + k
      /\ (\A i \in 1 .. m : s[i] = q[i]) /\ (\A i \in 1 .. k : s[m + i] = t[i])
  BY <1>1, JoinFacts
<1>4. \A i \in 1 .. m : KeyOf(q[i]) = key /\ IsLastOf(q, i) /\ ~Has(t, key) => Faithful(key, q[i].size)
  BY <1>1, <1>2 DEF IInv, QueueFaithful, IsLast
<1>5. \A i \in 1 .. k : KeyOf(t[i]) = key /\ IsLastOf(t, i) => Faithful(key, t[i].size)
  BY <1>2 DEF IInv, ParsedFaithful
<1>6. Started /\ ~Has(q, key) /\ ~Has(t, key) => Faithful(key, Level(key))
  BY <1>1 DEF IInv, BookFaithful
<1> HIDE DEF q, t, s, m, k
<1>7. ASSUME NEW n \in 0 .. m, \A j \in n + 1 .. m + k : KeyOf(s[j]) # key
      PROVE  ~Has(t, key) /\ \A j \in n + 1 .. m : KeyOf(q[j]) # key
  <2>1. ASSUME NEW j \in 1 .. k PROVE KeyOf(t[j]) # key
    <3>1. m + j \in n + 1 .. m + k
      BY ONLY <1>2, <1>7, <2>1
    <3>2. KeyOf(s[m + j]) # key
      BY <1>7, <3>1
    <3> QED
      BY <1>3, <3>2
  <2>2. ASSUME NEW j \in n + 1 .. m PROVE KeyOf(q[j]) # key
    <3>1. j \in n + 1 .. m + k /\ j \in 1 .. m
      BY ONLY <1>2, <1>7, <2>2
    <3> QED
      BY <1>3, <1>7, <3>1
  <2> QED
    BY <1>2, <2>1, <2>2 DEF Has
<1>8. ASSUME NEW i \in 1 .. m + k, KeyOf(s[i]) = key, \A j \in i + 1 .. m + k : KeyOf(s[j]) # key
      PROVE  Faithful(key, s[i].size)
  <2>1. CASE i <= m
    <3>1. i \in 1 .. m /\ i \in 0 .. m
      BY ONLY <1>2, <1>8, <2>1
    <3>2. ~Has(t, key) /\ \A j \in i + 1 .. m : KeyOf(q[j]) # key
      BY <1>7, <1>8, <3>1
    <3>3. s[i] = q[i]
      BY <1>3, <3>1
    <3>4. \A j \in 1 .. m : j > i => j \in i + 1 .. m
      BY ONLY <1>2, <3>1
    <3>5. IsLastOf(q, i)
      BY <1>2, <1>8, <3>2, <3>3, <3>4 DEF IsLastOf
    <3> QED
      BY <1>4, <1>8, <3>1, <3>2, <3>3, <3>5
  <2>2. CASE ~(i <= m)
    <3>1. PICK h \in 1 .. k : i = m + h
      <4>1. i - m \in 1 .. k /\ i = m + (i - m)
        BY ONLY <1>2, <1>8, <2>2
      <4> QED
        BY <4>1
    <3>2. s[i] = t[h]
      BY <1>3, <3>1
    <3>3. ASSUME NEW j \in 1 .. k, j > h PROVE KeyOf(t[j]) # key
      <4>1. m + j \in i + 1 .. m + k
        BY ONLY <1>2, <3>1, <3>3
      <4>2. KeyOf(s[m + j]) # key
        BY <1>8, <4>1
      <4> QED
        BY <1>3, <4>2
    <3>4. IsLastOf(t, h)
      BY <1>2, <1>8, <3>2, <3>3 DEF IsLastOf
    <3> QED
      BY <1>5, <1>8, <3>2, <3>4
  <2> QED
    BY <2>1, <2>2
<1>9. ASSUME Started, \A j \in 1 .. m + k : KeyOf(s[j]) # key PROVE Faithful(key, Level(key))
  <2>1. 0 \in 0 .. m /\ 0 + 1 = 1
    BY ONLY <1>2
  <2>2. ~Has(t, key) /\ \A j \in 1 .. m : KeyOf(q[j]) # key
    BY <1>7, <1>9, <2>1
  <2>3. ~Has(q, key)
    BY <1>2, <2>2 DEF Has
  <2> QED
    BY <1>6, <1>9, <2>2, <2>3
<1> QED
  BY <1>3, <1>8, <1>9 DEF s, m, k, q, t

\* Once a tick of the message has been applied, every level of the book that
\* is there is there at the venue.
LEMMA ArrivalPresent ==
  ASSUME IInv, NEW t, Arrives(t), lossless, NEW key \in Key,
         NEW n \in Len(Pending) + 1 .. Len(Pending) + Len(t),
         PresentIn(Pending \o t, Level(key), key, n)
  PROVE  At(VenueSide(key[1])', key[2]) # {}
<1> DEFINE q == Pending
           s == q \o t
           m == Len(q)
           k == Len(t)
<1>1. q \in Seq(Tick) /\ t \in Seq(Tick)
  BY PendingFaithful DEF Arrives
<1>2. m \in Nat /\ k \in Nat /\ DOMAIN t = 1 .. k
  BY <1>1
<1>3. (\A i \in 1 .. m : s[i] = q[i]) /\ (\A i \in 1 .. k : s[m + i] = t[i])
  BY <1>1, JoinFacts
<1>4. n \in m + 1 .. m + k /\ PresentIn(s, Level(key), key, n)
  OBVIOUS
<1>5. \A size \in Size : size # 0 /\ Kept(key) /\ Faithful(key, size) => At(VenueSide(key[1])', key[2]) # {}
  BY DEF Kept, Suits
<1>6. (k >= 1 /\ KeyOf(t[1]) = key) \/ Kept(key)
  BY DEF Arrives
<1>7. \A i \in 1 .. k : KeyOf(t[i]) = key /\ t[i].size # 0 => At(VenueSide(key[1])', key[2]) # {}
  <2> SUFFICES ASSUME NEW i \in 1 .. k, KeyOf(t[i]) = key, t[i].size # 0
               PROVE  At(VenueSide(key[1])', key[2]) # {}
    OBVIOUS
  <2> DEFINE b == t[i].is_bid
             c == t[i].price
  <2>1. Suits(VenueSide(b)', c, t[i].size)
    BY <1>2 DEF Arrives, AllSuit
  <2>2. key[1] = b /\ key[2] = c
    BY DEF KeyOf
  <2> HIDE DEF b, c
  <2> QED
    BY <2>1, <2>2 DEF Suits
<1>8. \A i \in 1 .. m : /\ KeyOf(q[i]) = key
                        /\ \A j \in i + 1 .. m : KeyOf(q[j]) # key
                        => Faithful(key, q[i].size)
  BY PendingFaithful
<1>9. \A i \in 1 .. m : q[i].size \in Size
  BY <1>1, TickFields
<1>10. Level(key) \in Size
  BY DEF IInv, Types, Level, Side, Key
<1>11. Level(key) # 0 /\ (\A j \in 1 .. m : KeyOf(q[j]) # key) => Faithful(key, Level(key))
  BY PendingFaithful DEF IInv, Before
<1>12. m + 1 \in 1 .. n /\ 1 \in 1 .. k /\ m <= n
  BY <1>2, <1>4
<1>13. s[m + 1] = t[1]
  BY <1>3, <1>12
<1> HIDE DEF q, s, m, k
<1>14. CASE Level(key) # 0 /\ \A j \in 1 .. n : KeyOf(s[j]) # key
  <2>1. KeyOf(t[1]) # key
    BY <1>12, <1>13, <1>14
  <2>2. \A j \in 1 .. m : j \in 1 .. n
    BY <1>2, <1>4, <1>12
  <2>3. \A j \in 1 .. m : KeyOf(q[j]) # key
    BY <1>3, <1>14, <2>2
  <2> QED
    BY <1>5, <1>6, <1>10, <1>11, <1>14, <2>1, <2>3
<1>15. CASE \E i \in 1 .. n : /\ KeyOf(s[i]) = key /\ s[i].size # 0
                              /\ \A j \in (i + 1) .. n : KeyOf(s[j]) # key
  <2>1. PICK i \in 1 .. n : /\ KeyOf(s[i]) = key /\ s[i].size # 0
                            /\ \A j \in (i + 1) .. n : KeyOf(s[j]) # key
    BY <1>15
  <2>2. CASE i <= m
    <3>1. i \in 1 .. m /\ m + 1 \in i + 1 .. n /\ \A j \in i + 1 .. m : j \in i + 1 .. n /\ j \in 1 .. m
      BY ONLY <1>2, <1>4, <2>1, <2>2
    <3>2. KeyOf(t[1]) # key
      BY <1>13, <2>1, <3>1
    <3>3. KeyOf(q[i]) = key /\ q[i].size # 0 /\ \A j \in i + 1 .. m : KeyOf(q[j]) # key
      BY <1>3, <2>1, <3>1
    <3>4. Faithful(key, q[i].size)
      BY <1>8, <3>1, <3>3
    <3> QED
      BY <1>5, <1>6, <1>9, <3>1, <3>2, <3>3, <3>4
  <2>3. CASE ~(i <= m)
    <3>1. i - m \in 1 .. k /\ m + (i - m) = i
      BY ONLY <1>2, <1>4, <2>1, <2>3
    <3>2. t[i - m] = s[i]
      BY ONLY <1>3, <3>1
    <3> QED
      BY <1>7, <2>1, <3>1, <3>2
  <2> QED
    BY <2>2, <2>3
<1> QED
  BY <1>4, <1>14, <1>15 DEF PresentIn

\* A message preserves the invariant.
LEMMA Arrival ==
  ASSUME IInv, NEW t, Arrives(t)
  PROVE  IInv'
<1> DEFINE m == Len(parsed)
           k == Len(t)
<1>1. parsed \in Seq(Tick) /\ t \in Seq(Tick) /\ parsed' = parsed \o t
  BY DEF IInv, Types, Arrives
<1>2. /\ m \in Nat /\ k \in Nat /\ DOMAIN parsed = 1 .. m /\ DOMAIN t = 1 .. k
      /\ parsed' \in Seq(Tick) /\ DOMAIN parsed' = 1 .. m + k
      /\ \A i \in 1 .. m : parsed'[i] = parsed[i]
      /\ \A i \in 1 .. k : parsed'[m + i] = t[i]
  <2>1. /\ parsed' \in Seq(Tick) /\ Len(parsed') = m + k
        /\ \A i \in 1 .. m : parsed'[i] = parsed[i]
        /\ \A i \in 1 .. k : parsed'[m + i] = t[i]
    BY <1>1, JoinFacts
  <2> QED
    BY <1>1, <2>1
<1>3. Types'
  BY <1>2 DEF IInv, Types, Arrives
<1>4. VenueUncrossed'
  BY DEF VenueUncrossed, Uncrossed, VenueLevels, Arrives
<1>5. Before'
  BY DEF Before, Started, Arrives
<1> HIDE DEF m, k
<1>6. ASSUME NEW key \in Key, ~Has(t, key)
      PROVE  \A size \in Size : Faithful(key, size) => Faithful(key, size)'
  <2>1. ASSUME Len(t) >= 1, KeyOf(t[1]) = key PROVE FALSE
    <3>1. 1 \in DOMAIN t
      BY <1>1, <2>1
    <3> QED
      BY <1>6, <2>1, <3>1 DEF Has
  <2>2. Kept(key)
    BY <2>1 DEF Arrives
  <2> QED
    BY <2>2, SuitsNext DEF Kept, Arrives
<1>7. \A key : Has(parsed, key) \/ Has(t, key) => Has(parsed', key)
  <2>1. ASSUME NEW key, Has(parsed, key) PROVE Has(parsed', key)
    <3>1. PICK i \in 1 .. m : KeyOf(parsed[i]) = key
      BY <1>2, <2>1 DEF Has
    <3>2. i \in 1 .. m + k
      BY ONLY <1>2, <3>1
    <3> QED
      BY <1>2, <3>1, <3>2 DEF Has
  <2>2. ASSUME NEW key, Has(t, key) PROVE Has(parsed', key)
    <3>1. PICK i \in 1 .. k : KeyOf(t[i]) = key
      BY <1>2, <2>2 DEF Has
    <3>2. m + i \in 1 .. m + k
      BY ONLY <1>2, <3>1
    <3> QED
      BY <1>2, <3>1, <3>2 DEF Has
  <2> QED
    BY <2>1, <2>2
<1>8. ParsedFaithful'
  <2> SUFFICES ASSUME NEW i \in DOMAIN parsed', NEW key \in Key, NEW size \in Size,
                      key = KeyOf(parsed'[i]), size = parsed'[i].size, IsLastOf(parsed', i)
               PROVE  Faithful(key, size)'
    BY <1>3, ParsedNext
  <2>1. \A j \in 1 .. m + k : j > i => KeyOf(parsed'[j]) # key
    BY <1>2 DEF IsLastOf
  <2>2. i \in 1 .. m + k
    BY <1>2
  <2>3. CASE i <= m
    <3>1. i \in 1 .. m
      BY ONLY <1>2, <2>2, <2>3
    <3>2. ASSUME NEW j \in 1 .. k PROVE KeyOf(t[j]) # key
      <4>1. m + j \in 1 .. m + k /\ m + j > i
        BY ONLY <1>2, <2>3, <3>1, <3>2
      <4>2. KeyOf(parsed'[m + j]) # key
        BY <2>1, <4>1
      <4> QED
        BY <1>2, <4>2
    <3>3. ~Has(t, key)
      BY <1>2, <3>2 DEF Has
    <3>4. ASSUME NEW j \in 1 .. m, j > i PROVE KeyOf(parsed[j]) # key
      <4>1. j \in 1 .. m + k
        BY ONLY <1>2, <3>4
      <4> QED
        BY <1>2, <2>1, <3>4, <4>1
    <3>5. key = KeyOf(parsed[i]) /\ size = parsed[i].size
      BY <1>2, <3>1
    <3>6. IsLastOf(parsed, i)
      BY <1>2, <3>4, <3>5 DEF IsLastOf
    <3>7. Faithful(key, size)
      BY <1>2, <3>1, <3>5, <3>6 DEF IInv, ParsedFaithful
    <3> QED
      BY <1>6, <3>3, <3>7
  <2>4. CASE ~(i <= m)
    <3>1. PICK j \in 1 .. k : i = m + j
      <4>1. i - m \in 1 .. k /\ i = m + (i - m)
        BY ONLY <1>2, <2>2, <2>4
      <4> QED
        BY <4>1
    <3>2. parsed'[i] = t[j]
      BY <1>2, <3>1
    <3> DEFINE b == t[j].is_bid
               c == t[j].price
    <3>3. Suits(VenueSide(b)', c, size)
      BY <1>2, <3>2 DEF Arrives, AllSuit
    <3>4. key[1] = b /\ key[2] = c
      BY <3>2 DEF KeyOf
    <3> HIDE DEF b, c
    <3>5. Suits(VenueSide(key[1])', key[2], size)
      BY <3>3, <3>4
    <3> QED
      BY <3>5, SuitsNext DEF Arrives
  <2> QED
    BY <2>3, <2>4
<1>9. QueueFaithful'
  <2> SUFFICES ASSUME NEW i \in DOMAIN tick_queue', NEW key \in Key, NEW size \in Size,
                      key = KeyOf(tick_queue'[i]), size = tick_queue'[i].size,
                      IsLastOf(tick_queue', i), key \notin stale', ~Has(parsed', key)
               PROVE  Faithful(key, size)'
    BY <1>3, QueueNext
  <2>1. IsLast(i) /\ key \notin stale /\ key = KeyOf(tick_queue[i]) /\ size = tick_queue[i].size
        /\ i \in DOMAIN tick_queue
    BY DEF IsLast, Arrives
  <2>2. ~Has(parsed, key) /\ ~Has(t, key)
    BY <1>7
  <2>3. Faithful(key, size)
    BY <2>1, <2>2 DEF IInv, QueueFaithful
  <2> QED
    BY <1>6, <2>2, <2>3
<1>10. BookFaithful'
  <2> SUFFICES ASSUME NEW key \in Key, NEW size \in Size, size = Level(key)',
                      key \notin stale', ~Has(parsed', key), ~Has(tick_queue', key)
               PROVE  Faithful(key, size)'
    BY <1>3, BookNext
  <2>1. size = Level(key) /\ key \notin stale /\ ~Has(tick_queue, key)
    BY DEF Level, Side, Has, Arrives
  <2>2. ~Has(parsed, key) /\ ~Has(t, key)
    BY <1>7
  <2>3. CASE Started
    <3>1. Faithful(key, size)
      BY <2>1, <2>2, <2>3 DEF IInv, BookFaithful
    <3> QED
      BY <1>6, <2>2, <3>1
  <2>4. CASE ~Started
    <3>1. size = 0
      BY <2>1, <2>4 DEF IInv, Before
    <3>2. Suits(VenueSide(key[1])', key[2], size)
      BY <2>2, <2>4, <3>1 DEF Arrives
    <3> QED
      BY <3>2, SuitsNext DEF Arrives
  <2> QED
    BY <2>3, <2>4
<1>11. WillNotCross'
  <2> DEFINE q == Pending
             s == q \o t
             n0 == Len(q)
  <2>1. q \in Seq(Tick) /\ n0 \in Nat /\ k \in Nat /\ Len(s) = n0 + k /\ tick_queue \in Seq(Tick)
    <3>1. q \in Seq(Tick) /\ tick_queue \in Seq(Tick)
      BY JoinFacts DEF IInv, Types, Pending
    <3> QED
      BY <1>1, <1>2, <3>1, JoinFacts DEF k
  <2>2. s = tick_queue' \o parsed'
    <3>1. tick_queue' = tick_queue
      BY DEF Arrives
    <3>0. tick_queue \in Seq(Tick) /\ parsed \in Seq(Tick) /\ t \in Seq(Tick)
      BY <1>1, <2>1
    <3>2. (tick_queue \o parsed) \o t = tick_queue \o (parsed \o t)
      BY ONLY <3>0, ConcatAssociative
    <3> QED
      BY <1>1, <3>1, <3>2 DEF Pending
  <2> HIDE DEF s
  <2> SUFFICES ASSUME lossless, NEW n \in 0 .. Len(s), NEW b \in Price, NEW a \in Price,
                      PresentIn(s, Level(<<TRUE, b>>), <<TRUE, b>>, n),
                      PresentIn(s, Level(<<FALSE, a>>), <<FALSE, a>>, n)
               PROVE  Apart(b, a)
    <3>1. \A key : Level(key)' = Level(key)
      BY DEF Level, Side, Arrives
    <3>2. grid' = grid /\ (lossless' => lossless)
      BY DEF Arrives
    <3> QED
      BY <2>2, <3>1, <3>2, CrossNext
  <2>3. <<TRUE, b>> \in Key /\ <<FALSE, a>> \in Key
    BY DEF Key
  <2>4. CASE n <= n0
    <3>1. n \in 0 .. n0 /\ n \in Nat
      BY <2>1, <2>4
    <3>2. \A i \in 1 .. n : s[i] = q[i]
      BY <1>1, <2>1, <3>1, JoinFacts DEF s
    <3> HIDE DEF q, n0
    <3>3. PresentIn(q, Level(<<TRUE, b>>), <<TRUE, b>>, n) /\ PresentIn(q, Level(<<FALSE, a>>), <<FALSE, a>>, n)
      BY <3>1, <3>2, PresentPrefix
    <3> QED
      BY <3>1, <3>3 DEF IInv, WillNotCross, Present, q, n0
  <2>5. CASE ~(n <= n0)
    <3>1. n \in Len(Pending) + 1 .. Len(Pending) + Len(t)
      BY <2>1, <2>5 DEF k
    <3>2. At(venue_bids', b) # {}
      <4>1. At(VenueSide(<<TRUE, b>>[1])', <<TRUE, b>>[2]) # {}
        BY <2>3, <3>1, ArrivalPresent DEF s
      <4> QED
        BY <4>1 DEF VenueSide
    <3>3. At(venue_asks', a) # {}
      <4>1. At(VenueSide(<<FALSE, a>>[1])', <<FALSE, a>>[2]) # {}
        BY <2>3, <3>1, ArrivalPresent DEF s
      <4> QED
        BY <4>1 DEF VenueSide
    <3>4. grid \in Grids /\ Uncrossed(venue_bids', venue_asks')
      BY DEF IInv, Types, Arrives
    <3> QED
      BY <3>2, <3>3, <3>4, VenueApart
  <2> QED
    BY <2>4, <2>5
<1> QED
  BY <1>3, <1>4, <1>5, <1>8, <1>9, <1>10, <1>11 DEF IInv

-----------------------------------------------------------------------------
(* The steps of the venue.                                                 *)

\* A step that leaves the venue's sizes at a price demands nothing new there.
LEMMA UnmovedKept ==
  ASSUME grid' = grid, hints' = hints, NEW key, Unmoved(key)
  PROVE  Kept(key)
BY SuitsKept, SuitsNext DEF Unmoved, Kept

\* A snapshot has a tick for every level that fits, so the first one fills the
\* book.
LEMMA SnapshotPreserves ==
  ASSUME IInv, SendSnapshot
  PROVE  IInv'
<1>1. /\ grid \in Grids /\ venue_bids \in [grid -> VenueSizes] /\ venue_asks \in [grid -> VenueSizes]
      /\ Uncrossed(venue_bids, venue_asks)
  BY DEF IInv, Types, VenueUncrossed
<1>2. \A b : VenueSide(b)' = VenueSide(b)
  BY DEF SendSnapshot, VenueSide
<1>3. PICK bid_prices \in SetToSeqs(VenueLevels(venue_bids)),
           ask_prices \in SetToSeqs(VenueLevels(venue_asks)) :
        parsed' = parse_tick(Snapshot(bid_prices, ask_prices)).ticks
  BY DEF SendSnapshot
<1>4. PICK t \in Seq(Tick) :
        /\ t = parse_tick(Snapshot(bid_prices, ask_prices)).ticks
        /\ Elements(t) = TicksOf(TRUE, venue_bids) \cup TicksOf(FALSE, venue_asks)
  BY <1>1, SnapshotRead
<1>5. \A x : x \in Elements(t) <=> \E b \in BOOLEAN : x \in TicksOf(b, VenueSide(b))
  <2>1. VenueSide(TRUE) = venue_bids /\ VenueSide(FALSE) = venue_asks
    BY DEF VenueSide
  <2> QED
    BY <1>4, <2>1, Zenon
<1>6. AllSuit(t)
  <2> SUFFICES ASSUME NEW i \in DOMAIN t
               PROVE  Suits(VenueSide(t[i].is_bid), t[i].price, t[i].size)
    BY <1>2 DEF AllSuit
  <2>1. PICK b \in BOOLEAN : t[i] \in TicksOf(b, VenueSide(b))
    <3>1. t[i] \in Elements(t)
      BY DEF Elements
    <3> QED
      BY <1>5, <3>1
  <2> DEFINE side == VenueSide(b)
  <2>2. PICK q \in Fitting(side) : t[i] = VenueTick(b, side, q)
    BY <2>1 DEF TicksOf
  <2>3. t[i].is_bid = b /\ t[i].price = Cents(q) /\ t[i].size = BookSize(side[q])
    BY <2>2 DEF VenueTick, TickOf
  <2>4. side \in [grid -> VenueSizes]
    BY <1>1 DEF VenueSide
  <2> HIDE DEF side
  <2>5. q \in grid /\ Fits(side[q])
    BY DEF Fitting, VenueLevels
  <2>6. Suits(side, Cents(q), BookSize(side[q]))
    BY <1>1, <2>4, <2>5, OwnSuits
  <2> QED
    BY <2>3, <2>6 DEF side
<1>7. ASSUME NEW key \in Key PROVE Has(t, key) \/ Suits(VenueSide(key[1]), key[2], 0)
  <2> DEFINE side == VenueSide(key[1])
  <2>1. key[1] \in BOOLEAN /\ key = <<key[1], key[2]>>
    BY DEF Key
  <2>2. side \in [grid -> VenueSizes]
    BY <1>1 DEF VenueSide
  <2>3. ASSUME NEW q \in At(side, key[2]), Fits(side[q]) PROVE Has(t, key)
    <3>1. q \in Fitting(side) /\ Cents(q) = key[2]
      BY <2>3 DEF At, Rounded, VenueLevels, Fitting
    <3>2. VenueTick(key[1], side, q) \in TicksOf(key[1], side)
      BY <3>1 DEF TicksOf
    <3>3. VenueTick(key[1], side, q) \in Elements(t)
      BY <1>5, <2>1, <3>2
    <3>4. PICK i \in DOMAIN t : t[i] = VenueTick(key[1], side, q)
      BY <3>3 DEF Elements
    <3>5. KeyOf(t[i]) = key
      BY <2>1, <3>1, <3>4 DEF VenueTick, TickOf, KeyOf
    <3> QED
      BY <3>5 DEF Has
  <2> HIDE DEF side
  <2>4. ASSUME \A q \in At(side, key[2]) : ~Fits(side[q]) PROVE Suits(side, key[2], 0)
    <3>1. ASSUME NEW q \in Rounded(key[2]), Fits(side[q]) PROVE 0 = BookSize(side[q])
      <4>1. ~Positive(side[q])
        BY <2>4, <3>1 DEF At
      <4>2. side[q] \in VenueSizes
        BY <2>2 DEF Rounded
      <4> QED
        BY <4>1, <4>2, SizeRead
    <3> QED
      BY <2>4, <3>1 DEF Suits
  <2> QED
    BY <2>3, <2>4 DEF side
<1>8. /\ UNCHANGED <<grid, venue_bids, venue_asks, hints, outages, bids_, asks_, tick_queue, stale, lossless>>
      /\ parsed = <<>> /\ connected' = TRUE
  BY DEF SendSnapshot
<1>9. \A key : Kept(key)
  BY <1>2, <1>8, UnmovedKept DEF Unmoved
<1>10. parsed' = parsed \o t
  BY <1>3, <1>4, <1>8
<1>11. Arrives(t)
  BY <1>1, <1>2, <1>4, <1>6, <1>7, <1>8, <1>9, <1>10 DEF Arrives
<1> QED
  BY <1>11, Arrival

\* The message of a change has the level that moved, then hints about levels
\* that are there, or nothing if the level's new size does not fit.
LEMMA ChangeArrives ==
  ASSUME IInv, connected, NEW p \in grid, NEW is_bid \in BOOLEAN,
         UNCHANGED <<grid, hints, connected, outages, bids_, asks_, tick_queue, stale, lossless>>,
         venue_bids' \in [grid -> VenueSizes], venue_asks' \in [grid -> VenueSizes],
         Uncrossed(venue_bids', venue_asks'),
         \A key \in Key : key = <<is_bid, Cents(p)>> \/ Unmoved(key),
         parsed' = parsed \o parse_tick(PriceChange(
                     <<ChangeOf(p, VenueSide(is_bid)', is_bid, venue_bids', venue_asks')>>)).ticks
  PROVE  IInv'
<1> DEFINE side == VenueSide(is_bid)'
           moved == <<is_bid, Cents(p)>>
<1>1. grid \in Grids
  BY DEF IInv, Types
<1>2. side \in [grid -> VenueSizes] /\ side[p] \in VenueSizes
  BY DEF VenueSide
<1>3. parsed' = parsed \o parse_tick(PriceChange(
                  <<ChangeOf(p, side, is_bid, venue_bids', venue_asks')>>)).ticks
  OBVIOUS
<1> HIDE DEF side
<1>4. PICK t \in Seq(Tick) :
        /\ t = parse_tick(PriceChange(<<ChangeOf(p, side, is_bid, venue_bids', venue_asks')>>)).ticks
        /\ ~Fits(side[p]) => t = <<>>
        /\ Fits(side[p]) => Len(t) >= 1 /\ t[1] = VenueTick(is_bid, side, p)
        /\ \A i \in 2 .. Len(t) : t[i] \in Hinted(venue_bids', venue_asks')
  BY <1>1, <1>2, ChangeRead
<1>5. AllSuit(t)
  <2> SUFFICES ASSUME NEW i \in DOMAIN t
               PROVE  Suits(VenueSide(t[i].is_bid)', t[i].price, t[i].size)
    BY DEF AllSuit
  <2>0. Fits(side[p]) /\ Len(t) >= 1
    BY <1>4
  <2>1. CASE i = 1
    <3>1. t[i].is_bid = is_bid /\ t[i].price = Cents(p) /\ t[i].size = BookSize(side[p])
      BY <1>4, <2>0, <2>1 DEF VenueTick, TickOf
    <3>2. Suits(side, Cents(p), BookSize(side[p]))
      BY <1>1, <1>2, <2>0, OwnSuits
    <3> QED
      BY <3>1, <3>2 DEF side
  <2>2. CASE i # 1
    <3>1. t[i] \in Hinted(venue_bids', venue_asks')
      <4>1. i \in 2 .. Len(t)
        BY <1>4, <2>2
      <4> QED
        BY <1>4, <4>1
    <3>2. t[i] \in Tick
      BY <1>4
    <3>3. PICK b \in BOOLEAN : b = t[i].is_bid
      BY <3>2 DEF Tick
    <3>4. /\ hints
          /\ \E q \in VenueLevels(IF b THEN venue_bids' ELSE venue_asks') : t[i] = TickOf(b, q, 1)
      BY <3>1, <3>2, <3>3 DEF Hinted
    <3>5. VenueSide(b)' = IF b THEN venue_bids' ELSE venue_asks'
      BY DEF VenueSide
    <3>6. PICK q \in VenueLevels(VenueSide(b)') : t[i] = TickOf(b, q, 1)
      BY <3>4, <3>5
    <3>7. Suits(VenueSide(b)', Cents(q), 1)
      BY <3>4, HintSuits
    <3>8. t[i].price = Cents(q) /\ t[i].size = 1
      BY <3>6 DEF TickOf
    <3> QED
      BY <3>3, <3>7, <3>8
  <2> QED
    BY <2>1, <2>2
<1>6. \A key \in Key : key # moved => Kept(key)
  BY UnmovedKept
<1>7. (Len(t) >= 1 /\ KeyOf(t[1]) = moved) \/ Kept(moved)
  <2>1. CASE Fits(side[p])
    <3>1. KeyOf(t[1]) = moved
      BY <1>4, <2>1 DEF VenueTick, TickOf, KeyOf
    <3> QED
      BY <1>4, <2>1, <3>1
  <2>2. CASE ~Fits(side[p])
    <3>1. \A size : Suits(side, Cents(p), size)
      BY <1>1, <1>2, <2>2, SkippedSuits
    <3>2. moved[1] = is_bid /\ moved[2] = Cents(p)
      OBVIOUS
    <3> HIDE DEF moved
    <3> QED
      BY <3>1, <3>2 DEF Kept, side
  <2> QED
    BY <2>1, <2>2
<1> HIDE DEF moved
<1>8. \A key \in Key : (Len(t) >= 1 /\ KeyOf(t[1]) = key) \/ Kept(key)
  BY <1>6, <1>7
<1>9. parsed' = parsed \o t
  BY <1>3, <1>4
<1>10. Arrives(t)
  BY <1>1, <1>4, <1>5, <1>8, <1>9 DEF Arrives, Started
<1> QED
  BY <1>10, Arrival

\* A change that the engine does not hear leaves its level stale.
LEMMA ChangeMissed ==
  ASSUME IInv, ~connected, outages > 0, NEW moved \in Key,
         UNCHANGED <<grid, hints, connected, outages, bids_, asks_, parsed, tick_queue>>,
         stale' = stale \cup {moved}, lossless' = FALSE,
         venue_bids' \in [grid -> VenueSizes], venue_asks' \in [grid -> VenueSizes],
         Uncrossed(venue_bids', venue_asks'),
         \A key \in Key : key = moved \/ Unmoved(key)
  PROVE  IInv'
<1>0. parsed = <<>>
  BY DEF IInv, Before
<1>1. Types'
  BY DEF IInv, Types
<1>2. VenueUncrossed' /\ WillNotCross'
  BY DEF VenueUncrossed, Uncrossed, VenueLevels, WillNotCross
<1>3. Before'
  BY <1>0 DEF Before, Started
<1>4. ParsedFaithful'
  BY <1>0 DEF ParsedFaithful
<1>5. ASSUME NEW key \in Key, key \notin stale' PROVE \A size : Faithful(key, size) => Faithful(key, size)'
  <2>1. Unmoved(key)
    BY <1>5
  <2> QED
    BY <2>1, SuitsKept DEF Unmoved
<1>6. \A key : (Has(parsed', key) <=> Has(parsed, key)) /\ (Has(tick_queue', key) <=> Has(tick_queue, key))
  OBVIOUS
<1>7. QueueFaithful'
  <2> SUFFICES ASSUME NEW i \in DOMAIN tick_queue', NEW key \in Key, NEW size \in Size,
                      key = KeyOf(tick_queue'[i]), size = tick_queue'[i].size,
                      IsLastOf(tick_queue', i), key \notin stale', ~Has(parsed', key)
               PROVE  Faithful(key, size)'
    BY <1>1, QueueNext
  <2>1. IsLast(i) /\ key \notin stale /\ key = KeyOf(tick_queue[i]) /\ size = tick_queue[i].size
    BY DEF IsLast
  <2>2. Faithful(key, size)
    BY <1>6, <2>1 DEF IInv, QueueFaithful
  <2> QED
    BY <1>5, <2>2
<1>8. BookFaithful'
  <2> SUFFICES ASSUME NEW key \in Key, NEW size \in Size, size = Level(key)',
                      key \notin stale', ~Has(parsed', key), ~Has(tick_queue', key)
               PROVE  Faithful(key, size)'
    BY <1>1, BookNext
  <2>1. size = Level(key) /\ key \notin stale /\ Started
    BY DEF Level, Side, Started
  <2>2. Faithful(key, size)
    BY <1>6, <2>1 DEF IInv, BookFaithful
  <2> QED
    BY <1>5, <2>2
<1> QED
  BY <1>1, <1>2, <1>3, <1>4, <1>7, <1>8 DEF IInv

\* A bid that changes.
LEMMA BidPreserves ==
  ASSUME IInv, NEW p \in grid, NEW s \in VenueSizes, ChangeBid(p, s)
  PROVE  IInv'
<1> DEFINE moved == <<TRUE, Cents(p)>>
<1>1. /\ grid \in Grids /\ venue_bids \in [grid -> VenueSizes] /\ venue_asks \in [grid -> VenueSizes]
      /\ grid \subseteq 0 .. 10 * kMaxPrice
  BY GridFacts DEF IInv, Types
<1>2. /\ connected \/ outages > 0
      /\ UNCHANGED <<grid, venue_asks, hints, connected, outages, bids_, asks_, tick_queue>>
      /\ venue_bids' = [venue_bids EXCEPT ![p] = s]
      /\ Positive(s) => \A q \in VenueLevels(venue_asks) : p < q
      /\ Receive(ChangeOf(p, venue_bids', TRUE, venue_bids', venue_asks), moved)
  BY DEF ChangeBid
<1>3. venue_bids' \in [grid -> VenueSizes] /\ venue_asks' \in [grid -> VenueSizes]
  BY <1>1, <1>2
<1>4. ASSUME NEW x \in grid, NEW y \in grid, Positive(venue_bids'[x]), Positive(venue_asks'[y])
      PROVE  x < y
  <2>1. CASE x = p
    BY <1>1, <1>2, <1>4, <2>1 DEF VenueLevels
  <2>2. CASE x # p
    BY <1>1, <1>2, <1>4, <2>2 DEF IInv, VenueUncrossed, Uncrossed, VenueLevels
  <2> QED
    BY <2>1, <2>2
<1>9. Uncrossed(venue_bids', venue_asks')
  BY <1>4 DEF Uncrossed, VenueLevels
<1>5. moved \in Key
  BY <1>1, CentsFacts DEF Key
<1>6. ASSUME NEW key \in Key PROVE key = moved \/ Unmoved(key)
  <2>1. CASE key[1] = FALSE
    BY <1>2, <2>1 DEF Unmoved, VenueSide
  <2>2. CASE key[1] = TRUE /\ key[2] # Cents(p)
    BY <1>1, <1>2, <2>2 DEF Unmoved, VenueSide, Rounded
  <2>3. key[1] \in BOOLEAN /\ key = <<key[1], key[2]>>
    BY DEF Key
  <2>4. CASE key[1] = TRUE /\ key[2] = Cents(p)
    BY <2>3, <2>4, Zenon
  <2>5. key[1] = TRUE \/ key[1] = FALSE
    BY <2>3, Zenon
  <2> QED
    BY <2>1, <2>2, <2>4, <2>5, Zenon
<1>7. CASE connected
  <2>1. parsed' = parsed \o parse_tick(PriceChange(
                    <<ChangeOf(p, VenueSide(TRUE)', TRUE, venue_bids', venue_asks')>>)).ticks
    BY <1>2, <1>7 DEF Receive, VenueSide
  <2>2. UNCHANGED <<grid, hints, connected, outages, bids_, asks_, tick_queue, stale, lossless>>
    BY <1>2, <1>7 DEF Receive
  <2>3. p \in grid /\ TRUE \in BOOLEAN /\ IInv
    BY <1>2
  <2>5. \A key \in Key : key = <<TRUE, Cents(p)>> \/ Unmoved(key)
    BY <1>6
  <2> QED
    BY ONLY <1>3, <1>7, <2>1, <2>2, <1>9, <2>3, <2>5, ChangeArrives, Zenon
<1>8. CASE ~connected
  <2>1. /\ outages > 0 /\ stale' = stale \cup {moved} /\ lossless' = FALSE
        /\ UNCHANGED <<grid, hints, connected, outages, bids_, asks_, parsed, tick_queue>>
    BY <1>2, <1>8 DEF Receive
  <2> HIDE DEF moved
  <2> QED
    BY <1>3, <1>5, <1>6, <1>8, <1>9, <2>1, ChangeMissed
<1> QED
  BY <1>7, <1>8

\* An ask that changes.
LEMMA AskPreserves ==
  ASSUME IInv, NEW p \in grid, NEW s \in VenueSizes, ChangeAsk(p, s)
  PROVE  IInv'
<1> DEFINE moved == <<FALSE, Cents(p)>>
<1>1. /\ grid \in Grids /\ venue_bids \in [grid -> VenueSizes] /\ venue_asks \in [grid -> VenueSizes]
      /\ grid \subseteq 0 .. 10 * kMaxPrice
  BY GridFacts DEF IInv, Types
<1>2. /\ connected \/ outages > 0
      /\ UNCHANGED <<grid, venue_bids, hints, connected, outages, bids_, asks_, tick_queue>>
      /\ venue_asks' = [venue_asks EXCEPT ![p] = s]
      /\ Positive(s) => \A q \in VenueLevels(venue_bids) : q < p
      /\ Receive(ChangeOf(p, venue_asks', FALSE, venue_bids, venue_asks'), moved)
  BY DEF ChangeAsk
<1>3. venue_bids' \in [grid -> VenueSizes] /\ venue_asks' \in [grid -> VenueSizes]
  BY <1>1, <1>2
<1>4. ASSUME NEW x \in grid, NEW y \in grid, Positive(venue_bids'[x]), Positive(venue_asks'[y])
      PROVE  x < y
  <2>1. CASE y = p
    BY <1>1, <1>2, <1>4, <2>1 DEF VenueLevels
  <2>2. CASE y # p
    BY <1>1, <1>2, <1>4, <2>2 DEF IInv, VenueUncrossed, Uncrossed, VenueLevels
  <2> QED
    BY <2>1, <2>2
<1>9. Uncrossed(venue_bids', venue_asks')
  BY <1>4 DEF Uncrossed, VenueLevels
<1>5. moved \in Key
  BY <1>1, CentsFacts DEF Key
<1>6. ASSUME NEW key \in Key PROVE key = moved \/ Unmoved(key)
  <2>1. CASE key[1] = TRUE
    BY <1>2, <2>1 DEF Unmoved, VenueSide
  <2>2. CASE key[1] = FALSE /\ key[2] # Cents(p)
    BY <1>1, <1>2, <2>2 DEF Unmoved, VenueSide, Rounded
  <2>3. key[1] \in BOOLEAN /\ key = <<key[1], key[2]>>
    BY DEF Key
  <2>4. CASE key[1] = FALSE /\ key[2] = Cents(p)
    BY <2>3, <2>4, Zenon
  <2>5. key[1] = TRUE \/ key[1] = FALSE
    BY <2>3, Zenon
  <2> QED
    BY <2>1, <2>2, <2>4, <2>5, Zenon
<1>7. CASE connected
  <2>1. parsed' = parsed \o parse_tick(PriceChange(
                    <<ChangeOf(p, VenueSide(FALSE)', FALSE, venue_bids', venue_asks')>>)).ticks
    BY <1>2, <1>7 DEF Receive, VenueSide
  <2>2. UNCHANGED <<grid, hints, connected, outages, bids_, asks_, tick_queue, stale, lossless>>
    BY <1>2, <1>7 DEF Receive
  <2>3. p \in grid /\ FALSE \in BOOLEAN /\ IInv
    BY <1>2
  <2>5. \A key \in Key : key = <<FALSE, Cents(p)>> \/ Unmoved(key)
    BY <1>6
  <2> QED
    BY ONLY <1>3, <1>7, <2>1, <2>2, <1>9, <2>3, <2>5, ChangeArrives, Zenon
<1>8. CASE ~connected
  <2>1. /\ outages > 0 /\ stale' = stale \cup {moved} /\ lossless' = FALSE
        /\ UNCHANGED <<grid, hints, connected, outages, bids_, asks_, parsed, tick_queue>>
    BY <1>2, <1>8 DEF Receive
  <2> HIDE DEF moved
  <2> QED
    BY <1>3, <1>5, <1>6, <1>8, <1>9, <2>1, ChangeMissed
<1> QED
  BY <1>7, <1>8

\* The connection is lost.
LEMMA OutagePreserves ==
  ASSUME IInv, Outage
  PROVE  IInv'
<1>1. /\ UNCHANGED <<grid, venue_bids, venue_asks, hints, bids_, asks_, parsed, tick_queue, stale, lossless>>
      /\ connected /\ connected' = FALSE /\ outages \in Nat /\ outages' = outages + 1 /\ parsed = <<>>
  BY DEF Outage, IInv, Types
<1>2. Started /\ outages' > 0
  BY <1>1 DEF Started
<1>3. Types'
  <2>1. connected' \in BOOLEAN
    BY <1>1, Zenon
  <2>3. outages' \in Nat
    BY <1>1
  <2>2. lossless' \in BOOLEAN /\ hints' \in BOOLEAN /\ (lossless' => stale' = {})
    <3>1. lossless \in BOOLEAN /\ hints \in BOOLEAN /\ (lossless => stale = {})
      BY DEF IInv, Types
    <3>2. lossless' = lossless /\ hints' = hints /\ stale' = stale
      BY <1>1
    <3> QED
      BY <3>1, <3>2, Zenon
  <2> QED
    BY <1>1, <2>1, <2>2, <2>3 DEF IInv, Types
<1>4. VenueUncrossed' /\ ParsedFaithful'
  BY <1>1 DEF IInv, VenueUncrossed, Uncrossed, VenueLevels, ParsedFaithful
<1>5. Before'
  BY <1>1, <1>2 DEF Before, Started
<1>6. \A key, size : Faithful(key, size) => Faithful(key, size)'
  BY <1>1, SuitsKept DEF VenueSide
<1>7. QueueFaithful'
  <2> SUFFICES ASSUME NEW i \in DOMAIN tick_queue', NEW key \in Key, NEW size \in Size,
                      key = KeyOf(tick_queue'[i]), size = tick_queue'[i].size,
                      IsLastOf(tick_queue', i), key \notin stale', ~Has(parsed', key)
               PROVE  Faithful(key, size)'
    BY <1>3, QueueNext
  <2>1. IsLast(i) /\ key \notin stale /\ key = KeyOf(tick_queue[i]) /\ size = tick_queue[i].size
        /\ ~Has(parsed, key)
    BY <1>1 DEF IsLast
  <2>2. Faithful(key, size)
    BY <1>1, <2>1 DEF IInv, QueueFaithful
  <2> QED
    BY <1>6, <2>2
<1>8. BookFaithful'
  <2> SUFFICES ASSUME NEW key \in Key, NEW size \in Size, size = Level(key)',
                      key \notin stale', ~Has(parsed', key), ~Has(tick_queue', key)
               PROVE  Faithful(key, size)'
    BY <1>3, BookNext
  <2>1. size = Level(key) /\ key \notin stale /\ ~Has(parsed, key) /\ ~Has(tick_queue, key)
    BY <1>1 DEF Level, Side
  <2>2. Faithful(key, size)
    BY <1>2, <2>1 DEF IInv, BookFaithful
  <2> QED
    BY <1>6, <2>2
<1>9. WillNotCross'
  <2>1. tick_queue' \o parsed' = Pending /\ WillNotCross /\ UNCHANGED <<grid, bids_, asks_, lossless>>
    BY <1>1 DEF IInv, Pending
  <2> QED
    BY ONLY <2>1, CrossKept
<1> QED
  BY <1>3, <1>4, <1>5, <1>7, <1>8, <1>9 DEF IInv

-----------------------------------------------------------------------------
(* The steps of the engine.                                                *)

\* A sequence and its first element.
LEMMA HeadFirst ==
  ASSUME NEW s \in Seq(Tick), s # <<>>
  PROVE  /\ Len(s) \in Nat \ {0} /\ Head(s) = s[1] /\ Head(s) \in Tick
         /\ Tail(s) \in Seq(Tick) /\ Len(Tail(s)) = Len(s) - 1
         /\ \A i \in 1 .. Len(s) - 1 : Tail(s)[i] = s[i + 1]
         /\ \A key : Has(s, key) <=> (KeyOf(Head(s)) = key \/ Has(Tail(s), key))
<1> DEFINE t == Tail(s)
           n == Len(s)
<1>1. n \in Nat \ {0} /\ Head(s) = s[1] /\ Head(s) \in Tick /\ DOMAIN s = 1 .. n
  OBVIOUS
<1>2. t \in Seq(Tick) /\ Len(t) = n - 1 /\ DOMAIN t = 1 .. n - 1
  OBVIOUS
<1>3. \A i \in 1 .. n - 1 : t[i] = s[i + 1]
  BY HeadTailProperties
<1> HIDE DEF t, n
<1>4. ASSUME NEW key PROVE Has(s, key) <=> (KeyOf(s[1]) = key \/ Has(t, key))
  <2>1. ASSUME Has(s, key), KeyOf(s[1]) # key PROVE Has(t, key)
    <3>1. PICK i \in 1 .. n : KeyOf(s[i]) = key
      BY <1>1, <2>1 DEF Has
    <3>2. i # 1
      BY <2>1, <3>1
    <3>3. i - 1 \in 1 .. n - 1 /\ (i - 1) + 1 = i
      BY ONLY <1>1, <3>1, <3>2
    <3>4. t[i - 1] = s[i]
      BY ONLY <1>3, <3>3
    <3> QED
      BY <1>2, <3>1, <3>3, <3>4 DEF Has
  <2>2. ASSUME KeyOf(s[1]) = key PROVE Has(s, key)
    <3>1. 1 \in DOMAIN s
      BY <1>1
    <3> QED
      BY <2>2, <3>1 DEF Has
  <2>3. ASSUME Has(t, key) PROVE Has(s, key)
    <3>1. PICK i \in 1 .. n - 1 : KeyOf(t[i]) = key
      BY <1>2, <2>3 DEF Has
    <3>2. i + 1 \in 1 .. n /\ t[i] = s[i + 1]
      BY ONLY <1>1, <1>3, <3>1
    <3> QED
      BY <1>1, <3>1, <3>2 DEF Has
  <2> QED
    BY <2>1, <2>2, <2>3
<1> QED
  BY <1>1, <1>2, <1>3, <1>4 DEF t, n

\* A queue and the tick appended to it.
LEMMA AppendFacts ==
  ASSUME NEW q \in Seq(Tick), NEW e \in Tick
  PROVE  /\ Append(q, e) \in Seq(Tick) /\ Len(Append(q, e)) = Len(q) + 1
         /\ \A i \in 1 .. Len(q) : Append(q, e)[i] = q[i]
         /\ Append(q, e)[Len(q) + 1] = e
         /\ \A key : Has(Append(q, e), key) <=> (Has(q, key) \/ KeyOf(e) = key)
<1> DEFINE a == Append(q, e)
           n == Len(q)
<1>1. /\ n \in Nat /\ DOMAIN q = 1 .. n
      /\ a \in Seq(Tick) /\ Len(a) = n + 1 /\ DOMAIN a = 1 .. n + 1
      /\ (\A i \in 1 .. n : a[i] = q[i]) /\ a[n + 1] = e
  BY AppendProperties
<1> HIDE DEF a, n
<1>2. \A i \in 1 .. n + 1 : i \in 1 .. n \/ i = n + 1
  BY ONLY <1>1
<1>3. 1 .. n \subseteq 1 .. n + 1 /\ n + 1 \in 1 .. n + 1
  BY ONLY <1>1
<1>4. ASSUME NEW key PROVE Has(a, key) <=> (Has(q, key) \/ KeyOf(e) = key)
  BY <1>1, <1>2, <1>3, <1>4 DEF Has
<1> QED
  BY <1>1, <1>4 DEF a, n

\* A tick is pushed, or dropped by a full queue.
LEMMA PushPreserves ==
  ASSUME IInv, PushTick
  PROVE  IInv'
<1> DEFINE head == Head(parsed)
           m == Len(tick_queue)
<1>1. /\ parsed \in Seq(Tick) /\ parsed # <<>> /\ parsed' = Tail(parsed) /\ tick_queue \in Seq(Tick)
      /\ UNCHANGED <<venueVars, bids_, asks_>>
      /\ \/ /\ tick_queue' = Append(tick_queue, head)
            /\ stale' = stale \ {KeyOf(head)} /\ lossless' = lossless
         \/ /\ tick_queue' = tick_queue
            /\ stale' = stale \cup {KeyOf(head)} /\ lossless' = FALSE
  BY DEF PushTick, IInv, Types, KeyOf
<1>2. /\ head \in Tick /\ head = parsed[1] /\ 1 \in DOMAIN parsed
      /\ KeyOf(head) \in Key /\ head.size \in Size
      /\ parsed' \in Seq(Tick) /\ Len(parsed') = Len(parsed) - 1 /\ Len(parsed) \in Nat \ {0}
      /\ \A i \in 1 .. Len(parsed) - 1 : parsed'[i] = parsed[i + 1]
      /\ \A key : Has(parsed, key) <=> (KeyOf(head) = key \/ Has(parsed', key))
  <2>1. 1 \in DOMAIN parsed
    BY <1>1
  <2> QED
    BY <1>1, <2>1, HeadFirst, TickFields
<1>3. /\ m \in Nat /\ DOMAIN tick_queue = 1 .. m
      /\ Append(tick_queue, head) \in Seq(Tick) /\ Len(Append(tick_queue, head)) = m + 1
      /\ DOMAIN Append(tick_queue, head) = 1 .. m + 1
      /\ \A i \in 1 .. m : Append(tick_queue, head)[i] = tick_queue[i]
      /\ Append(tick_queue, head)[m + 1] = head
      /\ \A key : Has(Append(tick_queue, head), key) <=> (Has(tick_queue, key) \/ KeyOf(head) = key)
  BY <1>1, <1>2, AppendFacts
<1>4. Types'
  <2>1. tick_queue' \in Seq(Tick) /\ parsed' \in Seq(Tick)
    <3>1. tick_queue' = tick_queue \/ tick_queue' = Append(tick_queue, head)
      BY <1>1
    <3> HIDE DEF head
    <3> QED
      BY ONLY <1>1, <1>2, <1>3, <3>1, Zenon
  <2>2. lossless' \in BOOLEAN /\ (lossless' => stale' = {})
    <3>1. lossless \in BOOLEAN /\ (lossless => stale = {})
      BY DEF IInv, Types
    <3>2. \/ stale' = stale \ {KeyOf(head)} /\ lossless' = lossless
          \/ lossless' = FALSE
      BY <1>1
    <3>3. CASE stale' = stale \ {KeyOf(head)} /\ lossless' = lossless
      <4>1. stale = {} => stale' = {}
        BY <3>3
      <4> QED
        BY <3>1, <3>3, <4>1, Zenon
    <3> QED
      BY <3>2, <3>3, Zenon
  <2>3. UNCHANGED <<grid, venue_bids, venue_asks, hints, connected, outages, bids_, asks_>>
    BY <1>1 DEF venueVars
  <2> QED
    BY <2>1, <2>2, <2>3 DEF IInv, Types
<1>5. VenueUncrossed'
  BY <1>1 DEF IInv, VenueUncrossed, Uncrossed, VenueLevels, venueVars
<1>6. connected /\ Started
  BY <1>1 DEF IInv, Before, Started
<1>7. Before'
  BY <1>1, <1>6 DEF Before, Started, venueVars
<1>8. \A key, size : Faithful(key, size) => Faithful(key, size)'
  BY <1>1, SuitsKept DEF VenueSide, venueVars
<1>9. ParsedFaithful'
  <2> SUFFICES ASSUME NEW i \in DOMAIN parsed', NEW key \in Key, NEW size \in Size,
                      key = KeyOf(parsed'[i]), size = parsed'[i].size, IsLastOf(parsed', i)
               PROVE  Faithful(key, size)'
    BY <1>4, ParsedNext
  <2> DEFINE n == Len(parsed)
  <2>1. n \in Nat \ {0} /\ DOMAIN parsed = 1 .. n /\ DOMAIN parsed' = 1 .. n - 1
    BY <1>1, <1>2
  <2>2. \A h \in 1 .. n - 1 : parsed'[h] = parsed[h + 1]
    BY <1>2
  <2> HIDE DEF n
  <2>3. i \in 1 .. n - 1 /\ i + 1 \in 1 .. n
    <3>1. i \in 1 .. n - 1
      BY <2>1
    <3> QED
      BY ONLY <2>1, <3>1
  <2>4. key = KeyOf(parsed[i + 1]) /\ size = parsed[i + 1].size
    BY <2>2, <2>3
  <2>5. ASSUME NEW j \in 1 .. n, j > i + 1 PROVE KeyOf(parsed[j]) # key
    <3>1. j - 1 \in 1 .. n - 1 /\ j - 1 > i /\ (j - 1) + 1 = j
      BY ONLY <2>1, <2>3, <2>5
    <3>2. parsed'[j - 1] = parsed[j]
      BY ONLY <2>2, <3>1
    <3> QED
      BY <2>1, <3>1, <3>2 DEF IsLastOf
  <2>6. IsLastOf(parsed, i + 1)
    BY <2>1, <2>4, <2>5 DEF IsLastOf
  <2>7. Faithful(key, size)
    BY <2>1, <2>3, <2>4, <2>6 DEF IInv, ParsedFaithful
  <2> QED
    BY <1>8, <2>7
<1>10. ASSUME ~Has(parsed', KeyOf(head)) PROVE Faithful(KeyOf(head), head.size)
  <2> DEFINE n == Len(parsed)
  <2>1. n \in Nat \ {0} /\ DOMAIN parsed = 1 .. n /\ DOMAIN parsed' = 1 .. n - 1
    BY <1>1, <1>2
  <2>2. \A h \in 1 .. n - 1 : parsed'[h] = parsed[h + 1]
    BY <1>2
  <2> HIDE DEF n, head
  <2>3. ASSUME NEW j \in 1 .. n, j > 1 PROVE KeyOf(parsed[j]) # KeyOf(head)
    <3>1. j - 1 \in 1 .. n - 1 /\ (j - 1) + 1 = j
      BY ONLY <2>1, <2>3
    <3>2. parsed'[j - 1] = parsed[j]
      BY ONLY <2>2, <3>1
    <3> QED
      BY <1>10, <2>1, <3>1, <3>2 DEF Has
  <2>4. IsLastOf(parsed, 1)
    BY <1>2, <2>1, <2>3 DEF IsLastOf
  <2> QED
    BY <1>2, <2>4 DEF IInv, ParsedFaithful
<1> HIDE DEF head, m
<1>11. QueueFaithful'
  <2> SUFFICES ASSUME NEW i \in DOMAIN tick_queue', NEW key \in Key, NEW size \in Size,
                      key = KeyOf(tick_queue'[i]), size = tick_queue'[i].size,
                      IsLastOf(tick_queue', i), key \notin stale', ~Has(parsed', key)
               PROVE  Faithful(key, size)'
    BY <1>4, QueueNext
  <2>1. ASSUME i \in 1 .. m, IsLast(i), key # KeyOf(head), tick_queue'[i] = tick_queue[i]
        PROVE  Faithful(key, size)
    <3>1. key \notin stale /\ ~Has(parsed, key)
      BY <1>1, <1>2, <2>1
    <3> QED
      BY <1>3, <2>1, <3>1 DEF IInv, QueueFaithful
  <2>2. CASE tick_queue' = tick_queue /\ stale' = stale \cup {KeyOf(head)}
    <3>1. i \in 1 .. m /\ IsLast(i) /\ key # KeyOf(head)
      BY <1>3, <2>2 DEF IsLast, IsLastOf
    <3> QED
      BY <1>8, <2>1, <2>2, <3>1
  <2>3. CASE tick_queue' = Append(tick_queue, head)
    <3>1. CASE i = m + 1
      <4>1. key = KeyOf(head) /\ size = head.size
        BY <1>3, <2>3, <3>1
      <4>2. Faithful(key, size)
        BY <1>10, <4>1
      <4> QED
        BY <1>8, <4>2
    <3>2. CASE i # m + 1
      <4>1. i \in 1 .. m
        <5>1. i \in 1 .. m + 1
          BY <1>3, <2>3
        <5> QED
          BY ONLY <1>3, <3>2, <5>1
      <4>2. m + 1 > i /\ m + 1 \in 1 .. m + 1 /\ \A j \in 1 .. m : j \in 1 .. m + 1
        BY ONLY <1>3, <4>1
      <4>3. tick_queue'[i] = tick_queue[i] /\ tick_queue'[m + 1] = head /\ DOMAIN tick_queue' = 1 .. m + 1
        BY <1>3, <2>3, <4>1
      <4>4. \A j \in DOMAIN tick_queue' : j > i => KeyOf(tick_queue'[j]) # key
        BY DEF IsLast, IsLastOf
      <4>5. key # KeyOf(head)
        BY <4>2, <4>3, <4>4
      <4>6. \A j \in 1 .. m : tick_queue'[j] = tick_queue[j]
        BY <1>3, <2>3
      <4>7. IsLast(i)
        BY <1>3, <4>1, <4>2, <4>3, <4>4, <4>6 DEF IsLast, IsLastOf
      <4> QED
        BY <1>8, <2>1, <4>1, <4>3, <4>5, <4>7
    <3> QED
      BY <3>1, <3>2
  <2> QED
    BY <1>1, <2>2, <2>3
<1>12. BookFaithful'
  <2> SUFFICES ASSUME NEW key \in Key, NEW size \in Size, size = Level(key)',
                      key \notin stale', ~Has(parsed', key), ~Has(tick_queue', key)
               PROVE  Faithful(key, size)'
    BY <1>4, BookNext
  <2>1. key # KeyOf(head) /\ key \notin stale /\ ~Has(parsed, key) /\ ~Has(tick_queue, key)
    BY <1>1, <1>2, <1>3
  <2>2. size = Level(key)
    BY <1>1 DEF Level, Side
  <2>3. Faithful(key, size)
    BY <1>6, <2>1, <2>2 DEF IInv, BookFaithful
  <2> QED
    BY <1>8, <2>3
<1>13. WillNotCross'
  <2>1. CASE lossless' = FALSE
    BY <2>1 DEF WillNotCross
  <2>2. CASE tick_queue' = Append(tick_queue, head) /\ lossless' = lossless
    <3>1. tick_queue' \o parsed' = Pending
      BY <1>1, <1>2, <1>3, <2>2, JoinFacts, SMTT(30) DEF Pending
    <3> QED
      BY <1>1, <2>2, <3>1, CrossKept DEF IInv, venueVars
  <2> QED
    BY <1>1, <2>1, <2>2
<1> QED
  BY <1>4, <1>5, <1>7, <1>9, <1>11, <1>12, <1>13 DEF IInv

\* A tick sets its own level and no other.
LEMMA ApplyLevel ==
  ASSUME bids_ \in [Price -> Size], asks_ \in [Price -> Size], NEW tick \in Tick, apply_tick(tick)
  PROVE  /\ bids_' \in [Price -> Size] /\ asks_' \in [Price -> Size]
         /\ \A key \in Key : Level(key)' = IF KeyOf(tick) = key THEN tick.size ELSE Level(key)
<1>1. tick.price \in Price /\ tick.size \in Size /\ tick.is_bid \in BOOLEAN
  BY DEF Tick
<1>2. ~(tick.price > kMaxPrice)
  BY <1>1, Ranges DEF Price
<1>3. ASSUME NEW key \in Key
      PROVE  key[1] \in BOOLEAN /\ key[2] \in Price
             /\ (KeyOf(tick) = key <=> (tick.is_bid = key[1] /\ tick.price = key[2]))
  BY DEF Key, KeyOf
<1>4. CASE tick.is_bid
  <2>1. bids_' = [bids_ EXCEPT ![tick.price] = tick.size] /\ asks_' = asks_
    BY <1>2, <1>4 DEF apply_tick
  <2>2. bids_' \in [Price -> Size] /\ asks_' \in [Price -> Size]
    BY <1>1, <2>1
  <2>3. ASSUME NEW key \in Key
        PROVE  Level(key)' = IF KeyOf(tick) = key THEN tick.size ELSE Level(key)
    <3>1. CASE key[1]
      <4>1. Level(key)' = bids_'[key[2]] /\ Level(key) = bids_[key[2]]
        BY <3>1 DEF Level, Side
      <4>2. KeyOf(tick) = key <=> tick.price = key[2]
        BY <1>1, <1>3, <1>4, <3>1
      <4> QED
        BY <1>1, <1>3, <2>1, <4>1, <4>2
    <3>2. CASE ~key[1]
      <4>1. Level(key)' = asks_'[key[2]] /\ Level(key) = asks_[key[2]]
        BY <3>2 DEF Level, Side
      <4>2. KeyOf(tick) # key
        BY <1>1, <1>3, <1>4, <3>2
      <4> QED
        BY <2>1, <4>1, <4>2
    <3> QED
      BY <3>1, <3>2
  <2> QED
    BY <2>2, <2>3
<1>5. CASE ~tick.is_bid
  <2>1. asks_' = [asks_ EXCEPT ![tick.price] = tick.size] /\ bids_' = bids_
    BY <1>2, <1>5 DEF apply_tick
  <2>2. bids_' \in [Price -> Size] /\ asks_' \in [Price -> Size]
    BY <1>1, <2>1
  <2>3. ASSUME NEW key \in Key
        PROVE  Level(key)' = IF KeyOf(tick) = key THEN tick.size ELSE Level(key)
    <3>1. CASE ~key[1]
      <4>1. Level(key)' = asks_'[key[2]] /\ Level(key) = asks_[key[2]]
        BY <3>1 DEF Level, Side
      <4>2. KeyOf(tick) = key <=> tick.price = key[2]
        BY <1>1, <1>3, <1>5, <3>1
      <4> QED
        BY <1>1, <1>3, <2>1, <4>1, <4>2
    <3>2. CASE key[1]
      <4>1. Level(key)' = bids_'[key[2]] /\ Level(key) = bids_[key[2]]
        BY <3>2 DEF Level, Side
      <4>2. KeyOf(tick) # key
        BY <1>1, <1>3, <1>5, <3>2
      <4> QED
        BY <2>1, <4>1, <4>2
    <3> QED
      BY <3>1, <3>2
  <2> QED
    BY <2>2, <2>3
<1> QED
  BY <1>4, <1>5

\* The first tick of a queue leaves what follows where it was.
LEMMA JoinTail ==
  ASSUME NEW q \in Seq(Tick), q # <<>>, NEW t \in Seq(Tick)
  PROVE  /\ q \o t \in Seq(Tick) /\ q \o t # <<>> /\ Head(q \o t) = Head(q)
         /\ Tail(q \o t) = Tail(q) \o t
<1> DEFINE s == q \o t
           r == Tail(q) \o t
           m == Len(q)
           n == Len(t)
<1>1. m \in Nat \ {0} /\ n \in Nat /\ Head(q) = q[1]
  OBVIOUS
<1>2. Tail(q) \in Seq(Tick) /\ Len(Tail(q)) = m - 1 /\ \A i \in 1 .. m - 1 : Tail(q)[i] = q[i + 1]
  BY HeadFirst
<1>3. /\ s \in Seq(Tick) /\ Len(s) = m + n /\ (\A i \in 1 .. m : s[i] = q[i])
      /\ \A i \in 1 .. n : s[m + i] = t[i]
  BY JoinFacts
<1>4. /\ r \in Seq(Tick) /\ Len(r) = (m - 1) + n /\ (\A i \in 1 .. m - 1 : r[i] = q[i + 1])
      /\ \A i \in 1 .. n : r[(m - 1) + i] = t[i]
  <2>1. /\ r \in Seq(Tick) /\ Len(r) = Len(Tail(q)) + n
        /\ (\A i \in 1 .. Len(Tail(q)) : r[i] = Tail(q)[i])
        /\ \A i \in 1 .. n : r[Len(Tail(q)) + i] = t[i]
    BY <1>2, JoinFacts
  <2> HIDE DEF r, m, n
  <2> QED
    BY <1>2, <2>1
<1> HIDE DEF s, r, m, n
<1>5. s # <<>> /\ Head(s) = s[1] /\ s[1] = q[1]
  <2>1. Len(s) > 0 /\ 1 \in 1 .. m
    BY ONLY <1>1, <1>3
  <2> QED
    BY <1>3, <2>1
<1>6. Tail(s) \in Seq(Tick) /\ Len(Tail(s)) = Len(s) - 1 /\ \A i \in 1 .. Len(s) - 1 : Tail(s)[i] = s[i + 1]
  BY <1>3, <1>5, HeadFirst
<1>7. ASSUME NEW i \in 1 .. (m + n) - 1 PROVE Tail(s)[i] = r[i]
  <2>1. Tail(s)[i] = s[i + 1]
    BY <1>3, <1>6
  <2>2. CASE i <= m - 1
    <3>1. i \in 1 .. m - 1 /\ i + 1 \in 1 .. m
      BY ONLY <1>1, <1>7, <2>2
    <3> QED
      BY <1>3, <1>4, <2>1, <3>1
  <2>3. CASE ~(i <= m - 1)
    <3>1. PICK k \in 1 .. n : i + 1 = m + k /\ i = (m - 1) + k
      <4>1. (i + 1) - m \in 1 .. n /\ i + 1 = m + ((i + 1) - m) /\ i = (m - 1) + ((i + 1) - m)
        BY ONLY <1>1, <1>7, <2>3
      <4> QED
        BY <4>1
    <3> QED
      BY <1>3, <1>4, <2>1, <3>1
  <2> QED
    BY <2>2, <2>3
<1>8. Len(Tail(s)) = (m + n) - 1 /\ Len(r) = (m + n) - 1
  BY ONLY <1>1, <1>3, <1>4, <1>6
<1>9. Tail(s) = r
  BY ONLY <1>4, <1>6, <1>7, <1>8, SeqEqual
<1> QED
  BY <1>1, <1>3, <1>5, <1>9 DEF s, r

\* The strategy thread applies the first tick of the queue.
LEMMA ApplyPreserves ==
  ASSUME IInv, ApplyNext
  PROVE  IInv'
<1> DEFINE q == tick_queue
           head == Head(tick_queue)
           m == Len(q)
<1>1. /\ q \in Seq(Tick) /\ q # <<>> /\ tick_queue' = Tail(q) /\ apply_tick(head)
      /\ bids_ \in [Price -> Size] /\ asks_ \in [Price -> Size]
      /\ UNCHANGED <<grid, venue_bids, venue_asks, hints, connected, outages, parsed, stale, lossless>>
  BY DEF ApplyNext, IInv, Types, venueVars
<1>2. /\ m \in Nat \ {0} /\ head = q[1] /\ head \in Tick /\ DOMAIN q = 1 .. m
      /\ tick_queue' \in Seq(Tick) /\ Len(tick_queue') = m - 1 /\ DOMAIN tick_queue' = 1 .. m - 1
      /\ \A i \in 1 .. m - 1 : tick_queue'[i] = q[i + 1]
      /\ \A key : Has(q, key) <=> (KeyOf(head) = key \/ Has(tick_queue', key))
  BY <1>1, HeadFirst
<1>3. /\ bids_' \in [Price -> Size] /\ asks_' \in [Price -> Size]
      /\ \A key \in Key : Level(key)' = IF KeyOf(head) = key THEN head.size ELSE Level(key)
  BY <1>1, <1>2, ApplyLevel
<1>4. Types'
  <2>1. lossless' \in BOOLEAN /\ hints' \in BOOLEAN /\ connected' \in BOOLEAN /\ (lossless' => stale' = {})
    <3>1. lossless \in BOOLEAN /\ hints \in BOOLEAN /\ connected \in BOOLEAN /\ (lossless => stale = {})
      BY DEF IInv, Types
    <3>2. lossless' = lossless /\ hints' = hints /\ connected' = connected /\ stale' = stale
      BY <1>1
    <3> QED
      BY <3>1, <3>2, Zenon
  <2> QED
    BY <1>1, <1>2, <1>3, <2>1 DEF IInv, Types
<1>5. VenueUncrossed'
  BY <1>1 DEF IInv, VenueUncrossed, Uncrossed, VenueLevels
<1>6. Started
  BY <1>1 DEF IInv, Before
<1>7. Before'
  BY <1>1, <1>6 DEF IInv, Before, Started
<1>8. \A key, size : Faithful(key, size) => Faithful(key, size)'
  BY <1>1, SuitsKept DEF VenueSide
<1>12. ParsedFaithful'
  <2> SUFFICES ASSUME NEW i \in DOMAIN parsed', NEW key \in Key, NEW size \in Size,
                      key = KeyOf(parsed'[i]), size = parsed'[i].size, IsLastOf(parsed', i)
               PROVE  Faithful(key, size)'
    BY <1>4, ParsedNext
  <2>1. Faithful(key, size)
    BY <1>1 DEF IInv, ParsedFaithful
  <2> QED
    BY <1>8, <2>1
<1> HIDE DEF q, head, m
<1>9. QueueFaithful'
  <2> SUFFICES ASSUME NEW i \in DOMAIN tick_queue', NEW key \in Key, NEW size \in Size,
                      key = KeyOf(tick_queue'[i]), size = tick_queue'[i].size,
                      IsLastOf(tick_queue', i), key \notin stale', ~Has(parsed', key)
               PROVE  Faithful(key, size)'
    BY <1>4, QueueNext
  <2>1. i \in 1 .. m - 1 /\ i + 1 \in 1 .. m
    <3>1. i \in 1 .. m - 1
      BY <1>2
    <3> QED
      BY ONLY <1>2, <3>1
  <2>2. tick_queue'[i] = q[i + 1]
    BY <1>2, <2>1
  <2>3. \A j \in DOMAIN tick_queue' : j > i => KeyOf(tick_queue'[j]) # key
    BY DEF IsLastOf
  <2>4. ASSUME NEW j \in 1 .. m, j > i + 1 PROVE KeyOf(q[j]) # key
    <3>1. j - 1 \in 1 .. m - 1 /\ j - 1 > i /\ (j - 1) + 1 = j
      BY ONLY <1>2, <2>1, <2>4
    <3>2. tick_queue'[j - 1] = q[j]
      BY ONLY <1>2, <3>1
    <3> QED
      BY <1>2, <2>3, <3>1, <3>2
  <2>5. IsLast(i + 1)
    BY <1>2, <2>2, <2>4 DEF IsLast, IsLastOf, q
  <2>6. key \notin stale /\ ~Has(parsed, key)
    BY <1>1
  <2>7. Faithful(key, size)
    BY <1>2, <2>1, <2>2, <2>5, <2>6 DEF IInv, QueueFaithful, q
  <2> QED
    BY <1>8, <2>7
<1>10. BookFaithful'
  <2> SUFFICES ASSUME NEW key \in Key, NEW size \in Size, size = Level(key)',
                      key \notin stale', ~Has(parsed', key), ~Has(tick_queue', key)
               PROVE  Faithful(key, size)'
    BY <1>4, BookNext
  <2>1. key \notin stale /\ ~Has(parsed, key)
    BY <1>1
  <2>2. CASE KeyOf(head) = key
    <3>1. size = head.size
      BY <1>3, <2>2
    <3>2. 1 \in 1 .. m
      BY ONLY <1>2
    <3>3. ASSUME NEW j \in 1 .. m, j > 1 PROVE KeyOf(q[j]) # key
      <4>1. j - 1 \in 1 .. m - 1 /\ (j - 1) + 1 = j
        BY ONLY <1>2, <3>3
      <4>2. tick_queue'[j - 1] = q[j]
        BY ONLY <1>2, <4>1
      <4> QED
        BY <1>2, <4>1, <4>2 DEF Has
    <3>4. IsLast(1)
      BY <1>2, <2>2, <3>3 DEF IsLast, IsLastOf, q
    <3>5. Faithful(key, size)
      BY <1>2, <2>1, <2>2, <3>1, <3>2, <3>4 DEF IInv, QueueFaithful, q
    <3> QED
      BY <1>8, <3>5
  <2>3. CASE KeyOf(head) # key
    <3>1. size = Level(key) /\ ~Has(tick_queue, key)
      BY <1>2, <1>3, <2>3 DEF q
    <3>2. Faithful(key, size)
      BY <1>6, <2>1, <3>1 DEF IInv, BookFaithful
    <3> QED
      BY <1>8, <3>2
  <2> QED
    BY <2>2, <2>3
<1>11. WillNotCross'
  <2> DEFINE s == tick_queue' \o parsed'
  <2>1. /\ Pending \in Seq(Tick) /\ Pending # <<>> /\ Head(Pending) = head /\ Tail(Pending) = s
    <3>1. tick_queue \in Seq(Tick) /\ tick_queue # <<>> /\ parsed \in Seq(Tick)
      BY <1>1 DEF q, IInv, Types
    <3>2. s = Tail(tick_queue) \o parsed
      BY <1>1 DEF q
    <3> HIDE DEF s
    <3> QED
      BY <3>1, <3>2, JoinTail DEF Pending, head
  <2>2. Len(Pending) \in Nat \ {0} /\ Len(s) = Len(Pending) - 1
    BY <2>1, HeadFirst
  <2> HIDE DEF s
  <2> SUFFICES ASSUME lossless', NEW n \in 0 .. Len(s), NEW b \in Price, NEW a \in Price,
                      PresentIn(s, Level(<<TRUE, b>>)', <<TRUE, b>>, n),
                      PresentIn(s, Level(<<FALSE, a>>)', <<FALSE, a>>, n)
               PROVE  Apart(b, a)
    BY <1>1, CrossNext DEF s
  <2>3. ASSUME NEW key \in Key, PresentIn(s, Level(key)', key, n)
        PROVE  PresentIn(Pending, Level(key), key, n + 1)
    <3>1. Level(key)' = IF KeyOf(Head(Pending)) = key THEN Head(Pending).size ELSE Level(key)
      BY <1>3, <2>1
    <3>2. n \in 0 .. Len(Pending) - 1 /\ PresentIn(Tail(Pending), Level(key)', key, n)
      BY <2>1, <2>2, <2>3
    <3> QED
      BY <2>1, <3>1, <3>2, PresentTail
  <2>4. <<TRUE, b>> \in Key /\ <<FALSE, a>> \in Key
    BY DEF Key
  <2>5. Present(<<TRUE, b>>, n + 1) /\ Present(<<FALSE, a>>, n + 1)
    BY <2>3, <2>4 DEF Present
  <2>6. n + 1 \in 0 .. Len(Pending)
    BY <2>2
  <2>7. lossless
    BY <1>1
  <2> QED
    BY <2>5, <2>6, <2>7 DEF IInv, WillNotCross
<1> QED
  BY <1>4, <1>5, <1>7, <1>9, <1>10, <1>11, <1>12 DEF IInv

-----------------------------------------------------------------------------
(* The theorems.                                                           *)

\* The book and the queue are empty before the engine connects.
LEMMA InitEstablishes ==
  ASSUME Init
  PROVE  IInv
<1>1. Types
  <2>1. connected \in BOOLEAN /\ lossless \in BOOLEAN /\ (lossless => stale = {})
    <3>1. connected = FALSE /\ lossless = TRUE /\ stale = {}
      BY DEF Init
    <3> QED
      BY <3>1, Zenon
  <2>2. parsed = <<>> /\ tick_queue = <<>> /\ outages = 0
    BY DEF Init
  <2>3. parsed \in Seq(Tick) /\ tick_queue \in Seq(Tick) /\ outages \in Nat
    BY <2>2
  <2>4. bids_ \in [Price -> Size] /\ asks_ \in [Price -> Size]
    BY Ranges DEF Init, InitBook
  <2> QED
    BY <2>1, <2>3, <2>4 DEF Init, Types
<1>2. parsed = <<>> /\ tick_queue = <<>> /\ ~Started
  BY DEF Init, Started
<1>3. VenueUncrossed
  BY DEF Init, VenueUncrossed, Uncrossed
<1>4. \A key \in Key : Level(key) = 0
  BY DEF Init, InitBook, Level, Side, Key
<1>5. Before /\ ParsedFaithful /\ QueueFaithful /\ BookFaithful
  BY <1>2, <1>4 DEF Before, ParsedFaithful, QueueFaithful, BookFaithful
<1>6. WillNotCross
  <2>1. Len(Pending) = 0
    BY <1>2 DEF Pending
  <2>2. ASSUME NEW b \in Price PROVE ~Present(<<TRUE, b>>, 0)
    <3>1. <<TRUE, b>> \in Key
      BY DEF Key
    <3>2. Level(<<TRUE, b>>) = 0
      BY <1>4, <3>1, Zenon
    <3>3. \A i \in 1 .. 0 : FALSE
      OBVIOUS
    <3> QED
      BY <3>2, <3>3 DEF Present, PresentIn
  <2>3. \A n \in 0 .. Len(Pending) : n = 0
    BY <2>1
  <2> QED
    BY <2>2, <2>3 DEF WillNotCross
<1> QED
  BY <1>1, <1>3, <1>5, <1>6 DEF IInv

\* Every step of the venue and of the engine preserves the invariant.
LEMMA NextPreserves ==
  ASSUME IInv, [Next]_vars
  PROVE  IInv'
<1>1. CASE SendSnapshot
  BY <1>1, SnapshotPreserves
<1>2. CASE \E p \in grid, s \in VenueSizes : ChangeBid(p, s) \/ ChangeAsk(p, s)
  BY <1>2, BidPreserves, AskPreserves
<1>3. CASE Outage
  BY <1>3, OutagePreserves
<1>4. CASE PushTick
  BY <1>4, PushPreserves
<1>5. CASE ApplyNext
  BY <1>5, ApplyPreserves
<1>6. CASE UNCHANGED vars
  <2>1. UNCHANGED <<bids_, asks_, grid, venue_bids, venue_asks, hints, connected, outages,
                    parsed, tick_queue, stale, lossless>>
    BY <1>6 DEF vars, venueVars
  <2>2. Types' /\ VenueUncrossed'
    BY <2>1 DEF IInv, Types, VenueUncrossed, Uncrossed, VenueLevels
  <2>3. Before'
    BY <2>1 DEF IInv, Before, Started, Level, Side
  <2>4. ParsedFaithful' /\ QueueFaithful'
    BY <2>1 DEF IInv, ParsedFaithful, QueueFaithful, IsLast, IsLastOf, Faithful, Suits, At, Alone, Rounded, VenueSide
  <2>5. BookFaithful'
    BY <2>1 DEF IInv, BookFaithful, Started, Level, Side, Faithful, Suits, At, Alone, Rounded, VenueSide
  <2>6. WillNotCross'
    BY <2>1, CrossKept DEF IInv, Pending
  <2> QED
    BY <2>2, <2>3, <2>4, <2>5, <2>6 DEF IInv
<1> QED
  BY <1>1, <1>2, <1>3, <1>4, <1>5, <1>6 DEF Next

\* The ticks on their way and the book stay faithful to the venue, for grids
\* and sizes of any number, queues of any capacity, any number of outages and
\* of ticks that are yet to be pushed when the venue sends a change.
THEOREM FeedInvariance == Spec => []IInv
<1>1. Init => IInv
  BY InitEstablishes
<1>2. IInv /\ [Next]_vars => IInv'
  BY NextPreserves
<1> QED
  BY <1>1, <1>2, PTL DEF Spec

\* A level of the book that is caught up is faithful.
LEMMA CaughtUpFaithful ==
  ASSUME IInv, CaughtUp, NEW key \in Updated
  PROVE  Faithful(key, Level(key))
<1>1. Started /\ parsed = <<>> /\ tick_queue = <<>>
  BY DEF CaughtUp, Started
<1>2. key \in Key /\ key \notin stale /\ ~Has(parsed, key) /\ ~Has(tick_queue, key)
  BY <1>1 DEF Updated, Key, Has
<1> QED
  BY <1>1, <1>2 DEF IInv, BookFaithful

\* Drops by a full queue and changes missed in an outage leave the book wrong
\* only at levels whose own last update was lost, and sizes that the parser
\* skips only at their own level and until the next one that it can read.
THEOREM BookTracksVenue == Spec => []LevelsTrackVenue
<1>1. IInv => LevelsTrackVenue
  <2> SUFFICES ASSUME IInv, CaughtUp, NEW key \in Updated,
                      NEW venue, venue = Rounded(key[2]) \cap VenueLevels(VenueSide(key[1]))
               PROVE  /\ Level(key) # 0 => venue # {}
                      /\ Alone(key[2]) =>
                           \A p \in venue : Fits(VenueSide(key[1])[p]) => Level(key) # 0
    BY DEF LevelsTrackVenue, Level, Alone
  <2>1. venue = At(VenueSide(key[1]), key[2])
    BY DEF At, VenueLevels, Rounded
  <2>2. Suits(VenueSide(key[1]), key[2], Level(key))
    BY CaughtUpFaithful DEF Faithful
  <2> QED
    BY <2>1, <2>2 DEF Suits
<1> QED
  BY <1>1, FeedInvariance, PTL

\* From a venue that sends no hints the book has the sizes too: integers as they
\* are, decimals in units of the last one kept, wherever a uint32_t holds them.
THEOREM BookHasVenueSizes == Spec => []PlainSizesTrackVenue
<1>1. IInv => PlainSizesTrackVenue
  BY CaughtUpFaithful DEF PlainSizesTrackVenue, SizesTrackVenue, Faithful, Suits, Alone, Level
<1> QED
  BY <1>1, FeedInvariance, PTL

\* As long as no update is lost the strategy never sees a crossed book, in the
\* middle of a message and of the queue too.
THEOREM BookNeverCrossed == Spec => []NeverCrossed
<1>1. IInv => NeverCrossed
  <2> SUFFICES ASSUME IInv, lossless, NEW b \in Levels(bids_), NEW a \in Levels(asks_)
               PROVE  Apart(b, a)
    BY DEF NeverCrossed, Apart
  <2>1. b \in Price /\ a \in Price /\ Level(<<TRUE, b>>) # 0 /\ Level(<<FALSE, a>>) # 0
    BY DEF Levels, Level, Side
  <2>2. Present(<<TRUE, b>>, 0) /\ Present(<<FALSE, a>>, 0)
    BY <2>1 DEF Present, PresentIn
  <2>3. 0 \in 0 .. Len(Pending)
    <3>1. Pending \in Seq(Tick)
      BY JoinFacts DEF IInv, Types, Pending
    <3> QED
      BY <3>1
  <2> QED
    BY <2>1, <2>2, <2>3 DEF IInv, WillNotCross
<1> QED
  BY <1>1, FeedInvariance, PTL

====
