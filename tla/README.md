# A TLA+ model of the prediction-market engine

This directory is a verification development of the engine in `src/`: a C++
program that reads an order-book feed over a secure WebSocket, keeps the book,
computes two trading signals, simulates fills and writes a CSV log. The modules
model the program and the tools that record and replay its feed, TLC checks them
on small instances, and TLAPS proves every safety property for every size of the
queues, books, recordings, texts and flows of messages.

## 1. The system

One process, four threads.

    venue --TLS/WebSocket--> network thread --tick queue--> strategy thread --log queue--> logger thread --> CSV
                             (io_context)                    book, alphas,                  (AsyncLogger)
                                                             position
                             main thread: starts the others, waits for a signal, stops and joins them

| Component | State | Operations | Interacts by |
|---|---|---|---|
| SPSC queue (`spsc_queue.hpp`) | slots, `write_index_`, `read_index_` | `push`, `pop`, destructor | shared memory, release/acquire atomics |
| Market data parser (`market_parser.hpp`) | none | `parse_tick` | called by `on_read`; pushes ticks one by one |
| WebSocket client (`websocket_client.cpp`) | the outstanding operation, the read buffer | `run`, the handlers, `close` | handlers on the io_context; tick queue |
| Order book (`order_book.hpp`) | size per price and side | `apply_tick`, best prices and sizes | strategy thread only |
| Alphas (`momentum_alpha.hpp`, `ofi_alpha.hpp`) | previous microprice; previous top of book | `update` | called by the strategy |
| Position manager (`position_manager.hpp`) | position, entry price, realized profit | `add_fill`, `get_unrealized_pnl` | called by the strategy |
| Strategy engine (`strategy_engine.cpp`) | `running_`, tick count, opening-mark flag | `run`, `stop` | pops ticks, pushes log rows |
| Asynchronous logger (`async_logger.hpp`) | log queue, `running_`, the stream | `log_event`, `log_active_strategy`, the worker, destructor | log queue, file |
| Main program (`main.cpp`) | `g_stop`, the threads | start-up, polling, shutdown, destruction | creates and joins the others |
| Recorder (`record_polymarket.py`) | the stop event, the connection, the ping task, the file and its buffer | connect, subscribe, receive, flush, reconnect, stop | asyncio tasks; `historical_data.jsonl` |
| Replay server (`replay_server.py`) | the position in the file | send a line, loop | reads the recorder's file; sends to the engine |
| Mock server, dashboard | | | a feed for tests; a reader of the log |

What is hard here, and what makes each component correct:

- **Queue.** Two threads without a lock, indices that wrap, values of the other
  side's index that are stale. It must be a bounded FIFO, without data races and
  without leaking or doubly destroying objects.
- **Shutdown.** Four threads, objects on `main`'s stack that the others use, an
  `io_context` that an outstanding read would keep alive. A signal at any moment
  must end the program, nothing may be used after its destruction, and the log
  must be complete.
- **Logger.** A non-blocking producer, a drain loop that stops at the first
  `pop()` that returns false, flushing by count and by time. Every accepted row
  must reach the file, in order.
- **Network.** A chain of handlers in which each must start the next; a buffer
  that must not be read into before the parser has copied it; a full tick queue
  that must not block.
- **Arithmetic.** Volume-weighted entry prices and flips through zero, sums of
  `uint32_t` sizes, decimal prices turned into cents. Reported equity must be
  what the fills explain.
- **Feed semantics.** Snapshots, changes, best-price hints, ticks dropped by a
  full queue, gaps. Once caught up, the engine's book must be the venue's,
  except where an update was lost.
- **Recording.** Three tasks that interleave at awaits, connections lost at any
  moment, a crash with lines in the buffer, a reader of the file that is being
  written. Nothing may be lost but by a crash, and then little; a recording must
  be replayed as it was received; a signal must end the recorder.

The full list, each at its line, is under `hazards` in `PROJECT.json`.

## 2. The modules

| Module | Models | Uses |
|---|---|---|
| `BoundedFifo` | what `SpscQueue` promises: an atomic bounded queue | |
| `SpscQueue` | `push`, `pop`, `~SpscQueue`, one step per access to shared memory | `BoundedFifo` (refinement) |
| `SpscQueueProofs` | the theorems about `SpscQueue` | `SpscQueue`, TLAPS |
| `Fractions` | the doubles, as exact fractions | |
| `PositionManager` | `add_fill` and the profit queries | `Fractions` |
| `PositionManagerProofs` | lemmas: fractions are a commutative ring with an order; the theorems about `PositionManager` | `PositionManager`, TLAPS |
| `OrderBook` | `LimitOrderBook` | |
| `Alphas` | both `update()` functions | `OrderBook`, `Fractions` |
| `StrategyEngine` | one iteration of `StrategyEngine::run` per step | `Alphas`, `PositionManager` |
| `StrategyEngineProofs` | the theorems about `StrategyEngine` | `PositionManagerProofs` |
| `AsyncLogger` | the log queue, the worker thread, the drain | |
| `WebSocketClient` | the operation chain, `on_read`, `close`, `ioc.run()` | |
| `TradingEngine` | `main` and the four threads together | `AsyncLogger`, `WebSocketClient` |
| `TradingEngineProofs` | the theorems about `TradingEngine`, its logger and its client | `TradingEngine`, TLAPS |
| `MarketParser` | prices, sizes, levels, changes, hints, messages, batches | |
| `MarketParserProofs` | lemmas: what the conversions and arrays of a message yield | `MarketParser`, TLAPS |
| `ParserInputs` | the texts and documents the parser may be shown, and what it promises of each | `MarketParser` |
| `ParserInputsProofs` | the theorems about `ParserInputs` | `ParserInputs`, `MarketParserProofs` |
| `FeedPath` | venue, parser, tick queue and book together | `MarketParser`, `OrderBook` |
| `FeedPathProofs` | the theorems about `FeedPath` | `MarketParserProofs` |
| `JsonlFile` | the recording as a sequence of pieces of lines | |
| `Recorder` | `record_polymarket.py`: `main`, `_record_once`, `_ping_loop`, the signal handler | `JsonlFile` |
| `ReplayServer` | `replay_server.py`: one client's `handler` | `JsonlFile` |
| `Recording` | recorder and replay server on one file | `Recorder`, `ReplayServer` |
| `RecordingProofs` | the theorems about `Recording` | `Recording`, TLAPS |
| `MC*` | constants for TLC | |

Definitions keep the names of the code. `PROJECT.json` maps each one to its
lines. Operators introduced by a comment "Faulty variant" are not part of any
specification: each is a definition as a plausible bug would have it, used to
confirm that the property it threatens can fail.

### Correspondence with the code

**SpscQueue.** An action is one access to shared memory: the load of the other
side's index together with the test on it, the construction in the slot, the
release store; for `pop` the load, the move out, `destroy_at`, the release
store. Weak memory is part of the state. A load may return any value between
the one the thread last saw (`seen_read`, `seen_write`) and the current one.
`hb_read` and `hb_write` are what an acquire load orders before the thread's
next steps; an access to a slot that they do not order is a data race, and its
result is any value. Indices wrap at `IndexRange` (2^64 in the build).

**PositionManager, Alphas, StrategyEngine.** Prices are cents, doubles are
exact fractions; rounding is abstracted away, which can change a comparison
only within an ulp of a threshold. `uint32_t` sums wrap at `SizeRange`.
`ProcessTick` is the whole loop body: apply the tick, the early exit for a
one-sided book or a zero sum, the opening mark, the signals, the fill, the
periodic mark. Nothing in it is shared with another thread except the queues,
so it is one step. The logger may refuse any of its rows (`refused`). `cash`,
`entries` and `ledger` are history variables. Timestamps and latencies are left
out.

**AsyncLogger, WebSocketClient, TradingEngine.** `main`'s statements are
actions, in order, including the destructors at the end of its scope. The two
queues are atomic here, which `SpscQueue`'s refinement justifies, but their
users may still see the other side late. So `pop()` may return false although
an item waits, except when the push happens before the pop; and `push()` may
return false once as many items have been pushed as the queue has slots,
although room has been made. `hb`, `published` and `synced` count the log rows
that happen before a thread's next step through thread creation, `join` and the
release/acquire pair on the logger's `running_`. What rows a tick makes the
strategy log is any member of `TickRows`; `StrategyEngine` says which occur.
Asio and Beast are external: an operation completes, with or without an error,
when the network lets it, and `ioc.run()` returns when stopped or out of work.

**MarketParser.** A number is its text as far as the parser distinguishes it: a
dot or not, the integer part (a number, empty, or not a number), the characters
after the dot. Conversions are modelled with padding, rounding at the third
decimal, scaling digit by digit (`Scaled`) and `uint32_t` wrap. JSON syntax is
simdjson's: what it refuses appears as a "skip", "abort" or "broken" shape of an
element, or a "bad" field. The code passes over the first, returns false at the
second and at the last. "broken" is an error of the array itself, such as a missing
comma: the range-`for` loops (lines 73, 352, 435, 508) convert what simdjson yields
to a value, which throws, in functions that are `noexcept`, so the process ends.
Parsing gives the ticks pushed and how it ended: "ok", "refused" or "terminated".
The ticks pushed before a failure remain, as in the code.
The parser keeps no state. `ParserInputs` is a specification whose one step shows
it any member of `Texts` or of `Docs`; its properties speak of what is shown.

**FeedPath.** The venue is external: a book that never crosses, a snapshot on
connection, then changes, with or without best-price hints (`hints`); the levels of
a snapshot come in any order. It sends messages about one asset. Prices are in
tenths of a cent and written with a dot, or, those of `InCents`, as whole cents.
Sizes are the texts the venue sends, `SizeText`: integers and decimals of up to
`SizeDigits` places, of any magnitude. `parse_size_u32` keeps an integer, scales a
decimal, and refuses what does not fit, in which case the level is skipped;
`BookSize` and `Fits` say this of a text without the parser's steps. The venue does
not wait for the engine: up to `MaxUnread` ticks may wait in `parsed` when it makes
the next change. Each change is a message of its own; a message with several
becomes the same ticks in the same order, which is a theorem (`ChangesOneByOne`),
under the assumption that each change carries the best prices after itself. The
network thread pushes the ticks of a message one by one (`parsed`), and the
strategy may run between any two. `PushTick` drops a tick exactly when the queue
is full: a drop caused by a stale view of a queue that has just been read from
is the same as a drop before that read. An outage loses changes and ends in
another snapshot. The engine does not reconnect; it meets this in replays.
`stale` is the set of levels whose last update was lost, `lossless` says that
none ever was. A size that does not fit is no loss in this sense: the properties
name it (`Fits`).

**JsonlFile, Recorder, ReplayServer, Recording.** A recorded line is three
pieces, the beginning and the rest of the JSON text and the newline: a crash, or
a reader, may find the file ending after any of them. `buffer` is what Python has
not passed on; a write may pass on any prefix of it, a flush or the end of the
`with` block all of it. The recorder's actions are the stretches between two
awaits; writing and flushing are two, so that a crash can come between. A crash
of the process is possible in every state, and `Restart` opens the same file again;
the machine goes on, since `f.flush()` does not reach the disk. The venue
may be silent, lose the connection, or answer a PING (`Pong`). The replay handler
reads one line per step and is in another process, so it may find a line that is
not finished; sleeps, TLS and timestamps are left out. A line's three formats
(`raw_message`, `raw`, `raw_bytes`) are the kinds of the message.

## 3. What TLC checks

| Run | Checks | Shows |
|---|---|---|
| `spsc_queue` | `TypeOK`, `CursorOrder`, `NoSlotSharing`, `StorageLifetimes`, `FifoRefinement`, `Delivery` | the ring buffer implements an atomic FIFO without races or leaks; a polling consumer receives every item |
| `position_manager` | `EquityIdentity`, `EntryWithinFills` | reported equity is the cash flow of the fills plus the value of the position, through every open, increase, reduction, close and flip |
| `strategy_engine` | `TypeOK`, `RowsReconcile`, `NoFillBeforeOpening`, `EnsembleAgreement`, `NoFillOnIdleTop` | the log's P rows follow from its T rows; the first book only primes; "both" needs both signals; a repeated top never trades |
| `trading_engine` | `TypeOK`, `LogComplete`, `ProducerHandover`, `MetadataFirst`, `NoUseAfterDestroy`, `NetworkEndsForCause`, `BufferExclusive`, `ShutdownCompletes`, `RowsReachFile`, `NetworkNeverBlocks` | shutdown loses no row, the single-producer rule survives the hand-over from `main`, no thread outlives what it uses, the network thread does not run dry; a signal ends the program in any state; rows are flushed without further activity; message handling ends although nobody empties the tick queue |
| `market_parser` | `ConvertsToCents`, `SizeNeverRemoves`, `TicksFitBook`, `PartialIsPrefix` | nearest-cent conversion; scaling never turns a size into a removal; only ticks the book accepts; a message that is refused, or ends the process, has pushed a prefix of its ticks |
| `feed_path` | `LevelsTrackVenue`, `PlainSizesTrackVenue`, `NeverCrossed` | drops, outages and rounding leave the book wrong only at levels whose own last update was lost, whose size does not fit, or that share a cent; without hints the sizes are the venue's, as `parse_size_u32` is to encode them; without losses the strategy never sees a crossed book |
| `recording` | `TypeOK`, `CleanRunsRecordEverything`, `CrashLossBounded`, `ReplayFaithful`, `PayloadsUnmixed`, `StopHonoured`, `Reconnects`, `ReplayNoticesClose` | without a crash every message is in the file once and in order; a crash costs at most the unflushed lines and one more on restart; a finished recording is replayed message by message; a replay of one in progress mixes no two messages; stop, reconnection and a client's departure take effect |
| `partial_messages` (violation) | `TicksOnSuccess` | a message that `parse_tick` refuses has already pushed the ticks of its first levels or changes |
| `feed_hint_sizes` (violation) | `SizesTrackVenue` | with hints the sizes differ: a hint's tick sets the best level to 1 |
| `torn_line` (violation) | `OneLinePerMessage` | after a crash in a line, the next run appends its first message to what is left of it |
| `gap_resets_ofi` (violation) | `GapResetsOFI` | a one-sided book never reaches `OFIAlpha`, whose reset is then dead code |
| `microprice_in_spread` (violation) | `MicropriceInSpread` | the `uint32_t` sum of the best sizes wraps and the microprice leaves the spread |

The violation runs state what a document or comment of the repository says and
the code does not do; `findings` quotes both.

### Bounds

- `spsc_queue`: 4 slots, indices modulo 8, two item values. Every relative
  position of the two indices and of the stale views occurs, the wrap included,
  and the state space is finite without a bound on operations. The proofs lift
  the sizes.
- `position_manager`: five fills of sizes -3 to 2 at three prices: long enough
  to open, average, reduce, flip and average again.
- `strategy_engine`: seven ticks over two levels per side that can cross and are
  more than a cent apart, sizes 0, 1 and 3 with `SizeRange` 4 so that the sum
  wraps, to 0 too (1 + 3); a mark every 3 ticks in place of 1000.
- `trading_engine`: a tick queue of one, a log queue of two, one message of no or
  two ticks, no or two rows per tick: both queues overflow, and rows are dropped.
  The theorems lift the sizes and the number of messages.
- `market_parser`: prices of up to four decimals (one beyond the rounding
  digit), invalid characters, empty and unreadable integer parts; every book
  message of up to two levels per side out of seven kinds, every single change,
  pairs of changes, batches of two. `WordRange` 1024 stands for 2^32 and
  `SizeDigits` 2 for 6; the integer parts lie on both sides of where cents
  and scaled sizes overflow, and 61.44 is a size that would wrap to exactly 0.
- `feed_path`: two prices on which both sides can be, either one cent and two
  (the book's last, written without a dot) or two that round to one; sizes 0, 0.5
  and 10.5 with one decimal kept and `SizeRange` 64, so that the last does not fit;
  a queue of one, so that a message with two hints can lose any of its ticks; a
  change may follow with one tick of the last yet to be pushed; one outage with any
  number of missed changes. Nothing bounds the number of changes: the space is
  finite.
- `recording`: three messages, one of each kind, a flush after every second, one
  restart. So the buffer can hold a whole line and part of another, a crash can
  come before and after a flush, and a line can be appended to a torn one. One
  doubling of the delay stands for six.

### Fairness

- `spsc_queue`: the consumer polls and finishes what it started, and eventually
  loads the current index. `StrategyEngine::run` and the logger's worker loop
  around `pop()`, and a store becomes visible in finite time. Nothing is assumed
  of the producer.
- `trading_engine`: weak fairness of the steps of `main`, the logger and the
  network thread, of the clock, and strong fairness of `WriteRow` (a worker that
  keeps popping eventually sees a waiting row). The strategy thread may stop for
  ever: `RowsReachFile` and `NetworkNeverBlocks` do not depend on it, and
  `ShutdownCompletes`, which waits for its end, names its scheduling as a premise
  (`StrategyScheduled`). Nothing is assumed of the network or of signals:
  operations may never complete.
- `recording`: weak fairness of the recorder's steps, of the ping task and of the
  replay handler. They are runnable tasks, or wait for timers or for the
  library's open and close timeouts. `RecvMessage` is not among them: the venue
  may be silent. `StopHonoured` has the premise `VenueAnswers`, because `recv()`
  is not cancelled by a signal; with a venue that neither answers PINGs nor
  closes, the recorder does not end.

Deadlock checking is on in the run of `TradingEngine`, which ends only in
`Exited`, and of `FeedPath`. It is off where the instance ends at a bound
(`position_manager`, `strategy_engine`, `market_parser`), by the destructor
(`spsc_queue`) or with the processes (`recording`).

## 4. What is proved

The theorems hold for every value of the constants that satisfies the named
assumptions. They cover every invariant and every action property of the passing
runs; only the liveness properties are left to TLC.

### The queue (`SpscQueueProofs`)

For every set of items, every `Size >= 2` and every `IndexRange` that is a larger
multiple of `Size` (`SizeAssumption`, all that the `static_assert`s on powers of
two are needed for):

- `TypeCorrect`: `Spec => []TypeOK`;
- `CursorsOrdered`: `Spec => []CursorOrder`. No stale view is ambiguous after a
  wrap, and a test once passed stays true;
- `RaceFreedom`: `Spec => []NoSlotSharing`;
- `ObjectLifetimes`: `Spec => []StorageLifetimes`;
- `Refinement`: `Spec => FifoRefinement`. The ring buffer implements
  `BoundedFifo` under the mapping that takes the queue to be the slots from the
  first index not yet moved out up to `write_index_`.

All rest on one inductive invariant (`Invariance`), the conjunction of

- `TypeOK`;
- `CursorOrder`, needed because fullness and emptiness are tested on views that
  are stale; without the bound "at most `Size` behind" a wrapped difference says
  nothing;
- `Synchronized`: what an acquire load read is what it ordered, so that neither
  `Constructed` nor `Moved` is ever a race;
- `StorageLifetimes`, needed to know that the slot under `pop` holds the item.

The lemmas below it are about arithmetic on wrapping indices (differences,
successors, which slot an index designates) and about sequences given as
functions. `NoSlotSharing` follows from `CursorOrder`: two indices less than
`Size` apart designate different slots.

### Threads, shutdown and the log (`TradingEngineProofs`)

For queues of any capacity, any messages (`ClientAssumption`: sequences of ticks),
any rows per tick (`RowsAssumption`: T and P rows) and any flush interval
(`LoggerAssumption`): `TypeCorrect`, `ShutdownLosesNothing` (`LogComplete`),
`SingleProducer` (`ProducerHandover`), `MetadataOpensFile` (`MetadataFirst`),
`SafeDestruction` (`NoUseAfterDestroy`), `NetworkRunsDryForCause`
(`NetworkEndsForCause`) and `BufferHasOneUser` (`BufferExclusive`). The inductive
invariant adds to the types

- `Control`: which threads exist, which have ended and what is destroyed at each
  place of `main`. `NoUseAfterDestroy` is a case of it;
- `Flow`: the file followed by the queue is what was accepted;
- `Knowledge`: whoever may push next knows of every push so far, and a draining
  worker knows of every push there will be. It makes the `pop()` that ends the
  drain really mean "empty", although other calls may return false too early;
  `Flow` then says that the file is complete;
- `Metadata`: the M row is the first and the only one;
- `Chain`: without an error there is an operation outstanding or a handler
  running, and a handler runs only while none is outstanding.

### The position and the strategy (`PositionManagerProofs`, `StrategyEngineProofs`)

`EquityCorrect` (`EquityIdentity`) and `EntryPriceCorrect` (`EntryWithinFills`)
hold for fills of any size at any price; `EquityAtAnyPrice` says the identity for
every price, not only those of an instance. The invariant is that realized profit
is the cash of the fills plus the position, taken back at its entry price (`Books`);
`EquityIdentity` speaks of one marking price at a time and is not inductive
without it. The arithmetic rests on lemmas about `Fractions`: `Q(n, d)` is a normal form
(equal iff the cross products are), sums, products and order are those of the
integers. A fraction's least denominator exists because a set of numbers has a
least element, a fact the library states without an operator parameter.

For books up to 254 cents (`BookAssumption`; 255 is the code's mark for "none"),
`uint32_t` of any width and any trade size and mark interval (`EngineAssumption`):
`StrategyTypeCorrect`, `LogReconciles` (`RowsReconcile`), `OpeningPrimes`
(`NoFillBeforeOpening`), `EnsembleAgrees` (`EnsembleAgreement`) and
`IdleTopIsSilent` (`NoFillOnIdleTop`), the last three action properties. Beyond
the position's invariant they need

- `Unprimed`: before the opening mark no signal has a previous value;
- `Seen`: while the book is live, each signal in use remembers exactly its current
  top. A tick that leaves that top alone then scores 0;
- `LedgerKept`: a reader of the T rows who has missed none has the position and
  the cash.

`EnsembleAgreement` needs the bound on the scores: each is a fraction between -1
and 1, so its half alone stays below the threshold of 0.6.

Two theorems say how far the documentation is right where a violation run shows
that it is not. `MicropriceWithoutWrap`: `MicropriceInSpread` holds of every book,
crossed ones included, whose best sizes do not wrap when the alphas add them up, so
that the wrapped sum is its only exception. `OFINeverResets`: no tick takes
`initialized_` back to false, so that the reset in `OFIAlpha::update` is dead code
for every feed, not only the one of `gap_resets_ofi`.

### The parser (`ParserInputsProofs`)

For every set of number texts with any number of decimals and every set of
documents with any number of messages, levels, changes and hints
(`InputsAssumption`: records of the form the parser can tell apart), for words of
any width and any number of decimals kept (`ParserAssumption`): `PricesConvert`
(`ConvertsToCents`), `SizesKept` (`SizeNeverRemoves`), `TicksFit` (`TicksFitBook`)
and `PartialPrefix` (`PartialIsPrefix`). The invariant is only that a text and a
document have been shown (`Shown`); the work is in what the operators compute.

- The library's induction theorems cannot be used, because they take an operator.
  `UpTo` is induction in terms of a set: the least number that is missing from it
  would have a predecessor that is in it. `Iteration` builds, with it, the sequence
  of values of a recursive function, and so shows that the function exists.
  `ScaledStep` and `FlattenValues` are its two uses, for the loop over the digits
  and for `FlattenSeq`.
- `NearestCent`: with each decimal after the third, the value stays between two
  bounds half a cent from the cent that the third settled, one of which it may
  touch and the other not. The quotient that defines the nearest cent is then that
  cent, however many decimals follow.
- `ScaledZero`: a scaled number is 0 exactly if the integer part and each digit
  taken is 0.
- `FlattenPrefix`, `ArrayParse` and `ThenParse`: what the elements before the
  first malformed or broken one yield begins what all of them yield when it is skipped
  instead, a loop that does not fail yields all of it, and the asks of a book
  message come only after a loop over the bids that did not fail.

### From the venue to the book (`FeedPathProofs`)

For every grid of prices in tenths of a cent, of which any that are whole cents may
be written without a dot, every set of size texts, integer and decimal, whether
they fit or not, any queue capacity, number of changes waiting and number of
outages (`FeedAssumption`; it also says that parser and book agree on the highest
price and the width of a size, and that the venue sends no more decimals of a size
than are kept):
`BookTracksVenue` (`LevelsTrackVenue`), `BookHasVenueSizes`
(`PlainSizesTrackVenue`), `BookNeverCrossed` (`NeverCrossed`). The invariant says
of each level, wherever its last update is now, that it agrees with the venue:

- `ParsedFaithful`, `QueueFaithful` and `BookFaithful`: the last tick for a level
  among those to be pushed, else the last in the queue, else the book's entry,
  suits the venue (`Suits`), unless the level is `stale`. A size that does not fit
  produces no tick, and then whatever is there must suit (`SkippedSuits`): the
  venue does have a level there, and of its size nothing is claimed;
- `Before`: nothing is there before the first snapshot, so that a level it does
  not mention is right by being empty, and nothing is waiting while disconnected;
- `WillNotCross`: the book is uncrossed now and after any number of the ticks on
  their way has been applied. The invariant must look ahead, because a tick that is
  harmless on arrival is applied to a book that does not exist yet;
- `VenueUncrossed`.

The messages' effect (`Arrives`) is derived from the parser's definitions: the
text of a price is converted back to the number it came from, dotted or not
(`PriceRead`), a size to what `BookSize` says if it fits and to nothing otherwise
(`SizeRead`, on `ScaledAbove`: a scaled number is no smaller than its integer part,
so that one that fits was read whole), a well-formed array yields the ticks of its
elements, skipped ones left out (`GoodArray`, `FlattenElements`), and a change's
own tick precedes those of its hints
(`OwnTickFirst`). That order is what `BookNeverCrossed` turns on: a hint names a
best price that the book can hold only once the level that moved has been updated.

`ChangesOneByOne` is about messages with several changes: one with any number of
them, none of which stops the parser, becomes the ticks of the messages with one
change each, in order. The specification sends one change at a time and may send
the next before the ticks of the last are pushed, so that the theorems cover such
messages as well.

### The recording (`RecordingProofs`)

For every sequence of messages, flush interval and number of restarts
(`MessagesAssumption`, `RecorderAssumption`): `TypeCorrect`, `RecordingComplete`
(`CleanRunsRecordEverything`), `ReplayUnmixed` (`PayloadsUnmixed`),
`ReplaySendsRecording` (`ReplayFaithful`) and `CrashLossLimited`
(`CrashLossBounded`). The first four rest on

- `Buffered`: outside the `with` block nothing is buffered, and `recv()` is never
  awaited with a flush overdue;
- `Clean`: until a crash, file and buffer together hold one line per message;
- `Pass`: a pass over a finished recording stands at the end of a line, and has
  sent the payload of each line before it.

`ReplayUnmixed` follows from `Clean`: wherever a reader of a file without torn
lines starts to read, in the middle of a line too, what it takes up to the next
newline or to the end of the file is of one message.

`CrashLossLimited` has an invariant of its own, `LossInv`. It counts the messages
that have no line of their own in file and buffer together, so that passing data on
changes nothing. `Recent` says that what is buffered is of the messages since the
last flush, at most `FlushEvery` of them by `Buffered`, which is what a crash can
cost. A file that ends in the middle of a line will cost the next run its first
message; `LossBounded` charges that message to the restart and not to the crash,
which is why the bound is one more per restart.

`TornOnlyByCrash` says how far `OneLinePerMessage`, which the `torn_line` run
refutes, does hold: until the first crash every line of the file is the line of one
message, whatever connections are lost and however often the recorder is stopped and
started again. It follows from `Clean`.

### What the proofs changed in the model

- The levels of a snapshot came in ascending order; the proof needed none, and the
  venue promises none, so they now come in any order.
- The inputs of the client and of the strategy were untyped constants
  (`ClientAssumption`, `RowsAssumption`, `EngineAssumption`); the widths of parser
  and book were unrelated ones (`FeedAssumption`).
- Recursive definitions that the proofs use are recursive functions
  (`Scaled`), and what a file of whole lines is (`HoldsLines`) and what the replay
  strips from a line (`Stripped`) are stated by index. `Scaled` takes the
  digits one at a time, as the code's loops do, starting from the integer part,
  which the code multiplies by 10^6 afterwards; the value is the same.
- The parser's properties were stated in the model-checking module, for texts of up
  to four decimals and documents of one message. They are now in `ParserInputs`,
  for texts of any length and for every message of a batch.

### Only model-checked

Liveness under fairness is beyond the prover: `Delivery`, `ShutdownCompletes`,
`RowsReachFile`, `NetworkNeverBlocks`, `StopHonoured`, `Reconnects` and
`ReplayNoticesClose` are checked by TLC only, on the instances of section 3.

## 5. What is not modelled

- Rounding of doubles, and overflow of the `int` position (2^31/10 fills in one
  direction).
- Timestamps, latency measurement, core pinning, formatting of rows, the
  spelling of host, port and target.
- JSON syntax, TLS, Beast and Asio beyond what the handlers rely on. What Beast
  does with `async_close` during a handshake is not in this repository; the model
  lets it complete in any way.
- The mock server, which sends a fixed pattern of messages that are among those
  of `market_parser`; the dashboard, which reads the log and draws it; the
  certificate script.
- Failing writes (a full disk) of the logger and of the recorder, which nothing
  in the code reacts to; empty messages; real time, and with it the length of
  the recorder's delays and of the replay's sleeps.

Observed while modelling and not the subject of a run:

- an array that simdjson finds broken while it is iterated ends the process, since
  the loops throw inside `noexcept` functions (`market_parser.hpp:73`, 352, 435,
  508), although `ARCHITECTURE.md:111` says "no exception throwing in hot path".
  `MarketParser` has it as "terminated"; `TradingEngine`'s messages are those that
  do not end the process;
- the sizes in the book have mixed units: "10" becomes 10 and "10.5" becomes
  10500000 (`market_parser.hpp:166-168`, 231). `PlainSizesTrackVenue` is about this
  encoding; a book with both kinds of sizes weighs them a million to one in the
  microprice and in the order flow. A decimal size above 4294.967295 is skipped
  without a trace, and the level keeps the size it had (lines 232-235, 472-475);
- an undotted price is cents (`market_parser.hpp:251-259`), so a venue that writes
  one dollar as "1" puts it at one cent;
- the parser does not look at a message's asset, so a feed of several assets is
  mixed into one book; `FeedPath` has one (`ARCHITECTURE.md:278` leaves more to
  the future);
- if the hints of a message with several changes were the best prices after all of
  them, a hint's tick could arrive before the change that makes room for it, and
  the book be crossed within the message;
- a tick that leaves the book one-sided on a multiple of 1,000 skips that
  interval's P row (`strategy_engine.cpp:81`, against `ARCHITECTURE.md:183`);
- `whole * 100U` wraps, so a price such as 42949673.00 becomes 4 cents
  (`market_parser.hpp:320`);
- a snapshot clears nothing, so levels removed during a gap in a recording stay in
  the engine's book until a change mentions them;
- the recorder's delay is never reset, so after six disconnections each further
  one costs 30 s of data (`record_polymarket.py:276`);
- on an empty recording the replay handler loops without an `await` and stops the
  server's event loop (`replay_server.py:86`);
- the dashboard drops rows without a readable `realized_pnl`, but the last row of
  a log that is being written can end in the middle of that number and be drawn.

## 6. Plan

Done, in this order: the queue and its refinement with proofs; the position
manager; book, alphas and strategy; logger, client and their composition with
`main`; parser and feed path; recorder and replay server; losses, gaps and finer
prices in the feed path; the proofs of section 4.

What is left is outside what the two tools do here: liveness for every size, and
the items of section 5.

## 7. Running

In this directory: `tlc -config MCSpscQueue.cfg MCSpscQueue` and likewise for
each run of `PROJECT.json`; `tlapm SpscQueueProofs.tla` and likewise for
`TradingEngineProofs`, `PositionManagerProofs`, `StrategyEngineProofs`,
`MarketParserProofs`, `ParserInputsProofs`, `FeedPathProofs` and `RecordingProofs`.
