-------------------------------- MODULE Ledger --------------------------------
(***************************************************************************)
(* What is recorded of a match: record_fills (src/src/api/handlers.rs)     *)
(* writes each fill to the position of its symbol, to the last trade, to   *)
(* one bar per interval (src/src/ohlc.rs) and to the executions, one store *)
(* after the other, each under a lock of its own.  Requests that match at  *)
(* the same time record their fills in any interleaving, so fills reach a  *)
(* store in another order than they happened.                              *)
(***************************************************************************)
EXTENDS Integers, Sequences, FiniteSetsExt

CONSTANTS
    Requests,     \* orders that match when they are submitted
    Books,        \* symbols, one position and one series of bars each
    Prices, Quantities,
    MaxCents,     \* u64::MAX: what the stores can hold of a price
    Intervals,    \* lengths of a bar
    MaxBars,      \* MAX_BARS_PER_SERIES
    MaxFills,     \* bound on fills
    MaxTime       \* bound: the model's clock stops here

ASSUME LedgerAssumption ==
    /\ Prices \subseteq Nat /\ Quantities \subseteq Nat \ {0}
    /\ Intervals \subseteq Nat \ {0}
    /\ MaxBars \in Nat \ {0} /\ MaxTime \in Nat

VARIABLES
    clock,
    matched,      \* fills of the book so far
    recorder,     \* each request: its fills yet to record, and where it is
    positions,    \* AppState::positions
    lastTrades,   \* AppState::last_trades
    bars,         \* OhlcAggregator::bars
    executions,   \* AppState::executions
    slack         \* history: what its averages may have been rounded down by

vars == <<clock, matched, recorder, positions, lastTrades, bars, executions, slack>>

NoPosition == [quantity |-> 0, average |-> 0, realized |-> 0, open |-> FALSE]
NoTrade == [id |-> 0]
Waiting == [pc |-> "none", fills |-> <<>>, intervals |-> {}]

Init ==
    /\ clock = 0
    /\ matched = {}
    /\ recorder = [r \in Requests |-> Waiting]
    /\ positions = [b \in Books |-> NoPosition]
    /\ lastTrades = [b \in Books |-> NoTrade]
    /\ bars = [b \in Books |-> [i \in Intervals |-> {}]]
    /\ executions = {}
    /\ slack = [b \in Books |-> 0]

Tick ==
    /\ clock < MaxTime
    /\ clock' = clock + 1
    /\ UNCHANGED <<matched, recorder, positions, lastTrades, bars, executions, slack>>

-----------------------------------------------------------------------------
(* PositionInfo.                                                           *)

Abs(n) == IF n < 0 THEN -n ELSE n
SmallerOf(m, n) == IF m < n THEN m ELSE n
SameSide(m, n) == (m > 0 /\ n > 0) \/ (m < 0 /\ n < 0)

\* Opening or adding: the average entry price is weighted by size, rounded down.
Added(p, q, price) ==
    [p EXCEPT !.quantity = @ + q,
              !.average = (p.average * Abs(p.quantity) + price * Abs(q))
                             \div (Abs(p.quantity) + Abs(q))]

\* Mutant: a position that flips keeps the average of what was closed.
ClosedKeepingAverage(p, q, price) ==
    LET closing == SmallerOf(Abs(q), Abs(p.quantity))
        gain == IF p.quantity > 0 THEN price - p.average ELSE p.average - price
    IN  [p EXCEPT !.quantity = @ + q, !.realized = @ + gain * closing]

\* Closing: what is closed is realized against the average; when the fill is
\* larger than the position, the rest opens one the other way at its own price.
Closed(p, q, price) ==
    LET closing == SmallerOf(Abs(q), Abs(p.quantity))
        gain == IF p.quantity > 0 THEN price - p.average ELSE p.average - price
    IN  [p EXCEPT !.quantity = @ + q,
                  !.realized = @ + gain * closing,
                  !.average = IF SameSide(p.quantity + q, q) THEN price ELSE @]

\* update_position_on_fill: a first fill makes the position, later ones update it.
Update(p, q, price) ==
    IF ~p.open THEN [quantity |-> q, average |-> price, realized |-> 0, open |-> TRUE]
    ELSE IF p.quantity = 0 \/ SameSide(p.quantity, q) THEN Added(p, q, price)
    ELSE Closed(p, q, price)

-----------------------------------------------------------------------------
(* OhlcAggregator.                                                         *)

Floor(time, interval) == (time \div interval) * interval

NewBar(time, f) ==
    [time |-> time, open |-> f.price, high |-> f.price, low |-> f.price,
     close |-> f.price, volume |-> f.quantity, count |-> 1]

BarUpdated(bar, f) ==
    [bar EXCEPT !.high = IF f.price > @ THEN f.price ELSE @,
                !.low = IF f.price < @ THEN f.price ELSE @,
                !.close = f.price,
                !.volume = @ + f.quantity,
                !.count = @ + 1]

\* The oldest bars go until the series is back at its cap.
Retained(series) ==
    {b \in series : Cardinality({c \in series : c.time > b.time}) < MaxBars}

\* update_bar: the fill goes to the bar of its own time, however late it comes.
WithFill(series, interval, f) ==
    LET time == Floor(f.time, interval)
        same == {b \in series : b.time = time}
    IN  Retained((series \ same) \cup
                   (IF same = {} THEN {NewBar(time, f)} ELSE {BarUpdated(b, f) : b \in same}))

-----------------------------------------------------------------------------
(* Matching and recording.                                                 *)

Signed(f) == IF f.side = "buy" THEN f.quantity ELSE -f.quantity

\* An order meets the book: its fills carry the time of the match and an id of
\* their own.  The book is shared state of its own and not modelled here.
Match(r, b, side) ==
    /\ recorder[r].pc = "none"
    /\ \E n \in 1..2 :
         /\ Cardinality(matched) + n <= MaxFills
         /\ \E price \in [1..n -> Prices], quantity \in [1..n -> Quantities] :
              LET fills == [i \in 1..n |-> [id |-> Cardinality(matched) + i, book |-> b,
                                            side |-> side, price |-> price[i],
                                            quantity |-> quantity[i], time |-> clock]]
              IN  /\ matched' = matched \cup {fills[i] : i \in 1..n}
                  /\ recorder' = [recorder EXCEPT ![r] =
                                    [Waiting EXCEPT !.pc = "position", !.fills = fills]]
    /\ UNCHANGED <<clock, positions, lastTrades, bars, executions, slack>>

Current(r) == Head(recorder[r].fills)

NextFill(r) ==
    recorder' = [recorder EXCEPT ![r] =
                   IF Len(recorder[r].fills) = 1 THEN Waiting
                   ELSE [recorder[r] EXCEPT !.pc = "position",
                                            !.fills = Tail(recorder[r].fills)]]

Goto(r, label) == recorder' = [recorder EXCEPT ![r].pc = label]

\* A price beyond u64 is not recorded anywhere.
SkipFill(r) ==
    /\ recorder[r].pc = "position"
    /\ Current(r).price > MaxCents
    /\ NextFill(r)
    /\ UNCHANGED <<clock, matched, positions, lastTrades, bars, executions, slack>>

\* The entry of the position is locked while it is read and written.
RecordPosition(r) ==
    LET f == Current(r)
        p == positions[f.book]
    IN  /\ recorder[r].pc = "position"
        /\ f.price <= MaxCents
        /\ positions' = [positions EXCEPT ![f.book] = Update(@, Signed(f), f.price)]
        /\ slack' = [slack EXCEPT ![f.book] =
                       IF SameSide(p.quantity, Signed(f))
                       THEN @ + Abs(p.quantity) + f.quantity - 1 ELSE @]
        /\ Goto(r, "last")
        /\ UNCHANGED <<clock, matched, lastTrades, bars, executions>>

\* The last write wins, whatever the times of the fills.
RecordLastTrade(r) ==
    /\ recorder[r].pc = "last"
    /\ lastTrades' = [lastTrades EXCEPT ![Current(r).book] = Current(r)]
    /\ recorder' = [recorder EXCEPT ![r].pc = "bars", ![r].intervals = Intervals]
    /\ UNCHANGED <<clock, matched, positions, bars, executions, slack>>

RecordBar(r) ==
    /\ recorder[r].pc = "bars"
    /\ \E i \in recorder[r].intervals :
         /\ \A j \in recorder[r].intervals : i <= j
         /\ bars' = [bars EXCEPT ![Current(r).book][i] = WithFill(@, i, Current(r))]
         /\ recorder' = [recorder EXCEPT
                           ![r].intervals = @ \ {i},
                           ![r].pc = IF recorder[r].intervals = {i} THEN "execution" ELSE @]
    /\ UNCHANGED <<clock, matched, positions, lastTrades, executions, slack>>

\* Keyed by the id of the trade; the engine and the trade feed hear of the fill
\* next, which changes nothing here.
RecordExecution(r) ==
    /\ recorder[r].pc = "execution"
    /\ executions' = executions \cup {Current(r)}
    /\ NextFill(r)
    /\ UNCHANGED <<clock, matched, positions, lastTrades, bars, slack>>

Record(r) ==
    SkipFill(r) \/ RecordPosition(r) \/ RecordLastTrade(r) \/ RecordBar(r)
    \/ RecordExecution(r)

-----------------------------------------------------------------------------
(* What clients are told.                                                  *)

None == -1

\* get_current_price_for_symbol: the mid of the quote, or its only side, or none.
Mark(bid, ask) ==
    IF bid # None /\ ask # None THEN (bid + ask) \div 2 ELSE IF bid # None THEN bid ELSE ask

\* get_position: one without a mark is reported unpriced, never as worthless.
GetPosition(b, mark) ==
    LET p == positions[b]
    IN  IF ~p.open THEN {}
        ELSE {[symbol |-> b, quantity |-> p.quantity, average |-> p.average, mark |-> mark,
               unrealized |-> IF mark = None THEN None ELSE (mark - p.average) * p.quantity,
               notional |-> IF mark = None THEN None ELSE mark * Abs(p.quantity),
               realized |-> p.realized]}

\* list_positions of the symbols bs: gains realized on closed positions count,
\* only open ones are listed and marked.
ListPositions(bs, mark) ==
    LET all == UNION {GetPosition(b, mark) : b \in bs}
        open == {p \in all : p.quantity # 0}
        priced == {p \in open : p.mark # None}
    IN  [listed |-> open,
         realized |-> SumFunction([p \in all |-> p.realized]),
         unrealized |-> SumFunction([p \in priced |-> p.unrealized]),
         unpriced |-> Cardinality(open \ priced)]

\* list_executions: the totals are those of the filter, not of the page, whose
\* order among executions of a millisecond is any.
ListExecutions(bs, sides, from, to) ==
    LET listed == {f \in executions : /\ f.book \in bs /\ f.side \in sides
                                      /\ from = None \/ from <= f.time
                                      /\ to = None \/ f.time <= to}
    IN  [listed |-> listed,
         total |-> Cardinality(listed),
         volume |-> SumFunction([f \in listed |-> f.quantity])]

\* get_execution and get_last_trade: one or none.
GetExecution(id) == {f \in executions : f.id = id}
GetLastTrade(b) == {f \in {lastTrades[b]} : f # NoTrade}

\* Mutant: every window starts at its beginning, as only those with two ends do
\* (issue #73).
GetBarsAnchored(b, i, from, to, limit) ==
    LET range == {bar \in bars[b][i] : (from = None \/ from <= bar.time)
                                        /\ (to = None \/ bar.time <= to)}
    IN  {bar \in range : Cardinality({c \in range : c.time < bar.time}) < limit}

\* get_bars: the oldest `limit' of a window given by both its ends, the newest
\* of one that is not.
GetBars(b, i, from, to, limit) ==
    LET range == {bar \in bars[b][i] : (from = None \/ from <= bar.time)
                                        /\ (to = None \/ bar.time <= to)}
        nearer(bar) ==
          {c \in range : IF from # None /\ to # None THEN c.time < bar.time ELSE c.time > bar.time}
    IN  {bar \in range : Cardinality(nearer(bar)) < limit}

-----------------------------------------------------------------------------
Next ==
    \/ Tick
    \/ \E r \in Requests :
         Record(r) \/ \E b \in Books, side \in {"buy", "sell"} : Match(r, b, side)

Spec == Init /\ [][Next]_vars

-----------------------------------------------------------------------------
TypeOK ==
    /\ clock \in 0..MaxTime
    /\ \A b \in Books : /\ positions[b].quantity \in Int
                        /\ positions[b].average \in Nat
                        /\ positions[b].realized \in Int
    /\ \A r \in Requests :
         /\ recorder[r].pc \in {"none", "position", "last", "bars", "execution"}
         /\ recorder[r].intervals \subseteq Intervals
         /\ recorder[r].pc # "none" => recorder[r].fills # <<>>
    /\ executions \subseteq matched

\* The fills that positions have, those included that executions lack yet.
Booked(b) ==
    {f \in executions \cup
           {Current(r) : r \in {q \in Requests :
                                  recorder[q].pc \in {"last", "bars", "execution"}}} :
        f.book = b}

\* What fills leave in the position, and the cash they moved.
Held(fills) == SumFunction([f \in fills |-> Signed(f)])
Cash(fills) == SumFunction([f \in fills |-> -Signed(f) * f.price])

\* Positions, last trades and executions tell the same story, in whatever order
\* concurrent requests record their fills.
StoresAgree(b) ==
    LET Volume(side) == ListExecutions({b}, {side}, None, None).volume
    IN  /\ positions[b].quantity = Volume("buy") - Volume("sell")
        /\ GetLastTrade(b) \subseteq ListExecutions({b}, {"buy", "sell"}, None, None).listed

\* What a book may quote.
Marks == {Mark(bid, ask) : bid, ask \in Prices \cup {None}}

\* The gains that list_positions reports at a mark, realized and not, are the cash
\* that moved and what is held at that mark, up to what rounding averages down
\* can lose.
GainsAt(b, mark, held, cash) ==
    LET report == ListPositions({b}, mark)
    IN  /\ report.unpriced = (IF held # 0 /\ mark = None THEN 1 ELSE 0)
        /\ report.unpriced = 0 =>
             Abs(report.realized + report.unrealized - cash - mark * held) <= slack[b]

Settled == \A r \in Requests : recorder[r].pc = "none"

\* The quantity is the sum of the fills, and the gains are theirs at any quote: for
\* longs, shorts, partial closes, positions closed to flat (issue #55) and fills
\* that flip one (PositionInfo::update).
GainsAreAccounted ==
    \A b \in Books :
        LET held == Held(Booked(b))
            cash == Cash(Booked(b))
        IN  /\ positions[b].quantity = held
            /\ Settled => StoresAgree(b)
            /\ \A mark \in Marks : GainsAt(b, mark, held, cash)

\* The fills that the bars of an interval have: those of the executions, and
\* those whose request has written that bar and not yet the execution.
Charted(b, i) ==
    {f \in executions \cup
           {Current(r) : r \in {q \in Requests :
                                  /\ recorder[q].pc \in {"bars", "execution"}
                                  /\ i \notin recorder[q].intervals}} : f.book = b}

\* The n greatest of a set of times.
Newest(ts, n) == {t \in ts : Cardinality({u \in ts : u > t}) < n}

\* Whoever asks for the latest bars, of all or up to that of one, gets those: a late
\* fill neither opens a bar that stays at the cost of a newer one nor restarts one
\* that was dropped.
LatestAreGiven(b, i, fills) ==
    LET kept == Newest({Floor(f.time, i) : f \in fills}, MaxBars)
    IN  \A to \in {None} \cup kept :
          LET upTo == {t \in kept : to = None \/ t <= to}
          IN  \A limit \in 1 .. MaxBars :
                {bar.time : bar \in GetBars(b, i, None, to, limit)} = Newest(upTo, limit)

\* A bar tells of every fill of its time that any request has recorded.
TellsAll(bar, fills) ==
    LET prices == {f.price : f \in fills}
    IN  /\ bar.volume = SumFunction([f \in fills |-> f.quantity])
        /\ bar.count = Cardinality(fills)
        /\ {bar.high, bar.low, bar.open, bar.close} \subseteq prices
        /\ \A p \in prices : bar.low <= p /\ p <= bar.high

\* Clients are given the bars they ask for, and all of each (OhlcAggregator).
BarsAreComplete ==
    \A b \in Books, i \in Intervals :
        LET fills == Charted(b, i)
        IN  /\ LatestAreGiven(b, i, fills)
            /\ \A bar \in GetBars(b, i, None, None, MaxBars) :
                 TellsAll(bar, {f \in fills : Floor(f.time, i) = bar.time})

=============================================================================
