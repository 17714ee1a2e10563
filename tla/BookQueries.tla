----------------------------- MODULE BookQueries -----------------------------
(***************************************************************************)
(* What the read endpoints answer of the books (src/src/api/handlers.rs)   *)
(* and the socket's snapshot feed (src/src/api/websocket.rs).  A query is  *)
(* the set of its possible answers: empty when it answers 404, more than   *)
(* one when several expirations read as the same date and the first that   *)
(* the map yields is taken.  Floating-point results (implied volatility,   *)
(* greeks, VWAP, impact) are left out of the answers.  The volatility      *)
(* surface is left out: for SURFACE_CACHE_TTL_MS the answer is the one     *)
(* cached, whatever became of the books, and else it is computed from      *)
(* what was collected off them before a wait.                              *)
(***************************************************************************)
EXTENDS Hierarchy, FiniteSetsExt

\* The segments of a path reach this strike of these expirations.
FoundAt(s, x) == {k \in Found(s) : x \in DOMAIN book[k]}

-----------------------------------------------------------------------------
(* A book b, the orders of one option, by price level.                     *)

OnSide(b, side) == {o \in b : Terms[o].side = side}
Quantity(b) == SumFunction([o \in b |-> Terms[o].quantity])

Levels(b, side) ==
    LET At(p) == {o \in OnSide(b, side) : Terms[o].price = p}
    IN  {[price |-> p, quantity |-> Quantity(At(p)), orders |-> Cardinality(At(p))] :
           p \in {Terms[o].price : o \in OnSide(b, side)}}

Better(side, p, q) == IF side = "buy" THEN p > q ELSE p < q

\* The n best levels of a side.
Top(b, side, n) ==
    {l \in Levels(b, side) :
       Cardinality({m \in Levels(b, side) : Better(side, m.price, l.price)}) < n}

\* quote_to_response: the best level of each side, if it has one.
QuoteOf(b) == [side \in Sides |-> Top(b, side, 1)]

-----------------------------------------------------------------------------
(* The queries.                                                            *)

\* create_underlying and get_underlying: an underlying's counts.
GetUnderlying ==
    [expirations |-> Cardinality(DOMAIN book),
     strikes |-> SumFunction([k \in DOMAIN book |-> Cardinality(DOMAIN book[k])]),
     orders |-> Cardinality(Resting)]

ListExpirations == {Format(k) : k \in DOMAIN book}

GetExpiration(s) ==
    {[expiration |-> Format(k), strikes |-> Cardinality(DOMAIN book[k]),
      orders |-> Cardinality(OrdersIn(k))] : k \in Found(s)}

ListStrikes(s) == {DOMAIN book[k] : k \in Found(s)}

\* The strike nearest to the spot price, the lower of two.
AtTheMoney(rows, spot) ==
    LET Off(x) == IF x > spot THEN x - spot ELSE spot - x
    IN  {x \in rows : \A r \in rows : Off(x) < Off(r) \/ (Off(x) = Off(r) /\ x <= r)}

\* The chain between two strikes, with the name it was asked by.
GetOptionChain(s, low, high, spot) ==
    {LET rows == {x \in DOMAIN book[k] : low <= x /\ x <= high}
     IN  [expiration |-> s, atm |-> AtTheMoney(rows, spot),
          chain |-> [x \in rows |-> [y \in Styles |-> QuoteOf(OptionOf(k, x, y))]]]
       : k \in Found(s)}

GetStrike(s, x) ==
    {[y \in Styles |-> [orders |-> Cardinality(OptionOf(k, x, y)),
                        quote |-> QuoteOf(OptionOf(k, x, y))]] : k \in FoundAt(s, x)}

GetOptionBook(s, x, y) ==
    {LET b == OptionOf(k, x, y)
     IN  [depth |-> [side \in Sides |-> Quantity(OnSide(b, side))],
          levels |-> [side \in Sides |-> Cardinality(Levels(b, side))],
          orders |-> Cardinality(b), quote |-> QuoteOf(b)] : k \in FoundAt(s, x)}

GetOptionQuote(s, x, y) == {QuoteOf(OptionOf(k, x, y)) : k \in FoundAt(s, x)}

\* Greeks of a strike that exists, for at least a day to expiry.
GetOptionGreeks(s, x) ==
    {[strike |-> x, days |-> Max({1, Format(k).of - today})] : k \in FoundAt(s, x)}

GetOptionSnapshot(s, x, y, depth) ==
    {[expiration |-> Format(k),
      levels |-> [side \in Sides |-> Top(OptionOf(k, x, y), side, depth)]] : k \in FoundAt(s, x)}

\* The spread is of a bid below an ask.
GetOrderbookMetrics(s, x, y) ==
    {LET q == QuoteOf(OptionOf(k, x, y))
     IN  [expiration |-> Format(k),
          spread |-> {c[2].price - c[1].price :
                        c \in {d \in q["buy"] \X q["sell"] : d[1].price < d[2].price}}]
       : k \in FoundAt(s, x)}

\* Mutant: the socket looks for dates only.
FoundBySocketFormatted(s) == {k \in DOMAIN book : Format(k) = s}

\* The socket looks for its expiration by itself, in one pass.
FoundBySocket(s) ==
    {k \in DOMAIN book : Format(k) = s \/ (s.form = "days" /\ k = s)}

SocketSnapshot(s, x, y, depth) ==
    {[side \in Sides |-> Top(OptionOf(k, x, y), side, depth)]
       : k \in {j \in FoundBySocket(s) : x \in DOMAIN book[j]}}

-----------------------------------------------------------------------------
\* An order is in a depth of levels of its side.
InLevels(o, levels) ==
    \E l \in levels[Terms[o].side] :
      l.price = Terms[o].price /\ l.quantity >= Terms[o].quantity

\* ... or the quote is at its price or better.
InQuote(o, quote) ==
    \E l \in quote[Terms[o].side] : ~Better(Terms[o].side, Terms[o].price, l.price)

\* Every query of the above that is asked with the segment s, by HTTP or by socket,
\* answers something, and something that tells of the order o.
Shown(o, s) ==
    LET x == Terms[o].strike
        y == Terms[o].style
        all == Cardinality(Orders)
    IN  /\ GetUnderlying.orders > 0
        /\ GetExpiration(s) # {} /\ \A a \in GetExpiration(s) :
             a.orders > 0 /\ a.expiration \in ListExpirations
        /\ ListStrikes(s) # {} /\ \A a \in ListStrikes(s) : x \in a
        /\ GetStrike(s, x) # {} /\ \A a \in GetStrike(s, x) :
             a[y].orders > 0 /\ InQuote(o, a[y].quote)
        /\ GetOptionBook(s, x, y) # {} /\ \A a \in GetOptionBook(s, x, y) :
             a.depth[Terms[o].side] >= Terms[o].quantity
        /\ GetOptionQuote(s, x, y) # {} /\ \A a \in GetOptionQuote(s, x, y) : InQuote(o, a)
        /\ GetOptionChain(s, x, x, x) # {} /\ \A a \in GetOptionChain(s, x, x, x) :
             InQuote(o, a.chain[x][y]) /\ a.atm = {x}
        /\ GetOptionGreeks(s, x) # {} /\ \A a \in GetOptionGreeks(s, x) : a.days >= 1
        /\ GetOptionSnapshot(s, x, y, all) # {} /\ \A a \in GetOptionSnapshot(s, x, y, all) :
             InLevels(o, a.levels)
        /\ GetOrderbookMetrics(s, x, y) # {} /\ \A a \in GetOrderbookMetrics(s, x, y) :
             a.expiration \in ListExpirations
        /\ SocketSnapshot(s, x, y, all) # {} /\ \A a \in SocketSnapshot(s, x, y, all) :
             InLevels(o, a)

\* Another expiration, a number of days, reads today as the date s says.
Shadowed(s) == \E n \in DayCounts : In(n) \in DOMAIN book /\ Format(In(n)) = s

\* A client that asks by the segment it placed an order with may expect the order.
Expected(o) ==
    /\ via[o] \in Segments /\ ~Shadowed(via[o])
    /\ \E k \in DOMAIN book : o \in OrdersIn(k)

\* The segment finds the book the order rests in and no other, for a number of
\* days on any later day too (find_expiration_by_str, issues #110 and #142) ...
PlacedIsReached ==
    \A o \in Orders : Expected(o) =>
      Found(via[o]) # {} /\ \A k \in Found(via[o]) : o \in OrdersIn(k)

\* ... and the socket, which has a look-up of its own, finds what HTTP does.
SocketAgrees == \A s \in Segments : FoundBySocket(s) = Found(s)

\* An order is reached by the segment it was placed with, to cancel it as well as
\* in every query but the volatility surface, unless a day count reads as that date
\* today.
PlacedIsFound ==
    /\ PlacedIsReached /\ SocketAgrees
    /\ \A o \in Orders : Expected(o) => Shown(o, via[o])
=============================================================================
