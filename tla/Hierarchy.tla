------------------------------ MODULE Hierarchy ------------------------------
(***************************************************************************)
(* The books of one underlying (src/src/api/handlers.rs): expirations, each*)
(* with its strikes, each with a call and a put.                           *)
(* An expiration is a calendar date or a number of days: the second is     *)
(* keyed by the number and read back as the date it falls on today, so one *)
(* string may write to a book and read from another.                       *)
(*                                                                         *)
(* Books are external (the crate option-chain-orderbook): at every level a *)
(* map with get, get-or-create and remove, in the end to resting orders.   *)
(***************************************************************************)
EXTENDS Naturals, FiniteSets

CONSTANTS
    Orders,      \* orders clients place, each once
    Strikes,     \* strike prices
    Styles,      \* option styles, call and put
    Terms,       \* what each order asks: strike, style, side, price, quantity
    Dates,       \* calendar dates, as day numbers
    DayCounts,   \* relative expirations, in days
    Seeded,      \* dates of the configuration, whose books exist from the start
    LastDay      \* bound: the model's calendar ends here

ASSUME CalendarAssumption ==
    /\ Dates \subseteq Nat /\ Seeded \subseteq Dates
    /\ DayCounts \subseteq Nat \ {0} /\ LastDay \in Nat
    /\ IsFiniteSet(Dates) /\ IsFiniteSet(DayCounts)

Sides == {"buy", "sell"}

ASSUME TermsAssumption ==
    /\ Strikes \subseteq Nat /\ IsFiniteSet(Orders)
    /\ Terms \in [Orders -> [strike : Strikes, style : Styles, side : Sides,
                             price : Nat, quantity : Nat \ {0}]]

VARIABLES
    today,       \* the day number
    book,        \* expirations there are -> their strikes -> the orders that rest
    via          \* Orders -> the segment the order was placed with, if it was

hierarchyVars == <<today, book, via>>

\* What a path segment says, and what a book is keyed by.
Date(d) == [form |-> "date", of |-> d]
In(n) == [form |-> "days", of |-> n]
Malformed == [form |-> "malformed", of |-> 0]
Never == [form |-> "never", of |-> 0]
Restored == [form |-> "restored", of |-> 0]

Segments == {Date(d) : d \in Dates} \cup {In(n) : n \in DayCounts} \cup {Malformed}

\* A snapshot names a book by the date it is read back as.
Keys == {Date(d) : d \in Dates \cup {n + m : n \in DayCounts, m \in 0..LastDay}}
          \cup {In(n) : n \in DayCounts}

\* parse_expiration: the key a segment writes to, if it has one.  Eight digits
\* are a date, never a number of days.
Parse(s) == IF s.form = "malformed" THEN {} ELSE {s}

\* format_expiration: a number of days reads as the date it falls on today.
Format(k) == IF k.form = "days" THEN Date(today + k.of) ELSE k

\* Mutant: a day count is looked up by the date it reads as only (issue #142).
FoundFormatted(s) == {k \in DOMAIN book : Format(k) = s}

\* find_expiration_by_str: the first book that reads as s, and if none does,
\* the one s writes to.  The first of several is any of them here.
Found(s) ==
    LET formatted == {k \in DOMAIN book : Format(k) = s}
    IN  IF formatted # {} THEN formatted ELSE Parse(s) \cap DOMAIN book

HierarchyInit ==
    /\ today = 0
    /\ book = [k \in {Date(d) : d \in Seeded} |-> [x \in Strikes |-> {}]]
    /\ via = [o \in Orders |-> Never]

-----------------------------------------------------------------------------
\* The books with the expiration k among them, and with its strike x.
WithBook(k) ==
    [j \in DOMAIN book \cup {k} |-> IF j \in DOMAIN book THEN book[j] ELSE [x \in {} |-> {}]]
WithStrike(k, x) ==
    [WithBook(k) EXCEPT ![k] = [y \in DOMAIN @ \cup {x} |-> IF y \in DOMAIN @ THEN @[y] ELSE {}]]

\* What rests in an expiration, and in an option.
OrdersIn(k) == UNION {book[k][x] : x \in DOMAIN book[k]}
OptionOf(k, x, y) == {o \in book[k][x] : Terms[o].style = y}

\* The options of a hierarchy h, each with a book.
OptionBooks(h) == UNION {{k} \X (DOMAIN h[k]) \X Styles : k \in DOMAIN h}

\* create_expiration, and whoever else gets or creates.
CreateExpiration(s) ==
    /\ \E k \in Parse(s) : book' = WithBook(k)
    /\ UNCHANGED <<today, via>>

CreateStrike(s, x) ==
    /\ \E k \in Parse(s) : book' = WithStrike(k, x)
    /\ UNCHANGED <<today, via>>

\* add_order creates the book it needs; the order rests in it.
PlaceOrder(o, s) ==
    LET x == Terms[o].strike
    IN  /\ via[o] = Never
        /\ via' = [via EXCEPT ![o] = s]
        /\ \E k \in Parse(s) : book' = [WithStrike(k, x) EXCEPT ![k][x] = @ \cup {o}]
        /\ UNCHANGED today

\* A fill or a cancellation, through whatever book the segment reads.
TakeOrder(o, s) ==
    LET x == Terms[o].strike
    IN  /\ \E k \in Found(s) :
             /\ o \in OrdersIn(k)
             /\ book' = [book EXCEPT ![k][x] = @ \ {o}]
        /\ UNCHANGED <<today, via>>

\* delete_underlying: its books go, with what rests in them.
DeleteUnderlying ==
    /\ DOMAIN book # {}
    /\ book' = [k \in {} |-> {}]
    /\ UNCHANGED <<today, via>>

Midnight ==
    /\ today < LastDay
    /\ today' = today + 1
    /\ UNCHANGED <<book, via>>

HierarchyNext ==
    \/ \E s \in Segments : CreateExpiration(s)
    \/ \E s \in Segments, x \in Strikes : CreateStrike(s, x)
    \/ \E s \in Segments, o \in Orders : PlaceOrder(o, s) \/ TakeOrder(o, s)
    \/ DeleteUnderlying
    \/ Midnight

\* What rests where.
Resting == UNION {{k} \X OrdersIn(k) : k \in DOMAIN book}

HierarchyTypeOK ==
    /\ today \in 0..LastDay
    /\ DOMAIN book \subseteq Keys
    /\ \A k \in DOMAIN book : book[k] \in UNION {[X -> SUBSET Orders] : X \in SUBSET Strikes}
    /\ via \in [Orders -> Segments \cup {Never, Restored}]
=============================================================================
