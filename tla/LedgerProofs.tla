---------------------------- MODULE LedgerProofs ----------------------------
(***************************************************************************)
(* What TLAPS proves of the records of matches, for any number of requests *)
(* and fills, any prices, quantities and lengths of bars: the types, that  *)
(* positions, executions and last trades tell the same story and the gains *)
(* reported are those of the fills up to rounding, and that bars have all  *)
(* of their fills and the latest are kept.                                 *)
(***************************************************************************)
EXTENDS Ledger, SumLemmas

-----------------------------------------------------------------------------
(***************************************************************************)
(* Fills, their sums, and where a fill is.                                 *)
(***************************************************************************)
Fill == [id : Nat \ {0}, book : Books, side : {"buy", "sell"}, price : Prices,
         quantity : Quantities, time : 0 .. MaxTime]

\* What is signed is an integer, and no fill is of nothing.
LEMMA SignedTyped ==
  ASSUME NEW f \in Fill
  PROVE  /\ Signed(f) \in Int /\ Signed(f) # 0 /\ Abs(Signed(f)) = f.quantity
         /\ f.quantity \in Nat \ {0} /\ f.price \in Nat
         /\ -Signed(f) * f.price \in Int
<1>0. f.quantity \in Nat \ {0} /\ f.price \in Nat
  BY LedgerAssumption DEF Fill
<1>1. Signed(f) \in Int /\ Signed(f) # 0 /\ Abs(Signed(f)) = f.quantity
  BY <1>0 DEF Signed, Abs
<1>2. \A m, n \in Int : -m * n \in Int
  OBVIOUS
<1> QED
  BY <1>0, <1>1, <1>2

\* One fill more in the three sums.
LEMMA FillsGrow ==
  ASSUME NEW fills \in SUBSET Fill, IsFiniteSet(fills), NEW f \in Fill, f \notin fills
  PROVE  /\ Held(fills) \in Int /\ Cash(fills) \in Int
         /\ Held(fills \cup {f}) = Signed(f) + Held(fills)
         /\ Cash(fills \cup {f}) = Cash(fills) - Signed(f) * f.price
         /\ SumFunction([g \in fills |-> g.quantity]) \in Int
         /\ SumFunction([g \in fills \cup {f} |-> g.quantity]) =
              f.quantity + SumFunction([g \in fills |-> g.quantity])
<1> DEFINE more == fills \cup {f}
           held(s) == [g \in s |-> Signed(g)]
           cash(s) == [g \in s |-> -Signed(g) * g.price]
           traded(s) == [g \in s |-> g.quantity]
<1>1. /\ held(fills) \in [fills -> Int] /\ held(more) \in [fills \cup {f} -> Int]
      /\ cash(fills) \in [fills -> Int] /\ cash(more) \in [fills \cup {f} -> Int]
      /\ traded(fills) \in [fills -> Int] /\ traded(more) \in [fills \cup {f} -> Int]
  BY SignedTyped
<1>2. /\ held(more)[f] = Signed(f) /\ cash(more)[f] = -Signed(f) * f.price
      /\ traded(more)[f] = f.quantity
      /\ \A g \in fills : /\ held(more)[g] = held(fills)[g]
                          /\ cash(more)[g] = cash(fills)[g]
                          /\ traded(more)[g] = traded(fills)[g]
  OBVIOUS
<1>3. /\ SumFunction(held(fills)) \in Int /\ SumFunction(cash(fills)) \in Int
      /\ SumFunction(traded(fills)) \in Int
  <2> HIDE DEF held, cash, traded
  <2> QED
    BY <1>1, SumTyped
<1>4. /\ SumFunction(held(more)) = held(more)[f] + SumFunction(held(fills))
      /\ SumFunction(cash(more)) = cash(more)[f] + SumFunction(cash(fills))
      /\ SumFunction(traded(more)) = traded(more)[f] + SumFunction(traded(fills))
  <2> HIDE DEF held, cash, traded
  <2>1. \A v \in [fills -> Int], w \in [fills \cup {f} -> Int] :
          (\A g \in fills : w[g] = v[g]) => SumFunction(w) = w[f] + SumFunction(v)
    BY SumGrowsBy
  <2>2. SumFunction(held(more)) = held(more)[f] + SumFunction(held(fills))
    BY <1>1, <1>2, <2>1
  <2>3. SumFunction(cash(more)) = cash(more)[f] + SumFunction(cash(fills))
    BY <1>1, <1>2, <2>1
  <2>4. SumFunction(traded(more)) = traded(more)[f] + SumFunction(traded(fills))
    BY <1>1, <1>2, <2>1
  <2> QED
    BY <2>2, <2>3, <2>4
<1>5. (-Signed(f) * f.price) + SumFunction(cash(fills)) = SumFunction(cash(fills)) - Signed(f) * f.price
  <2>1. \A m, n, k \in Int : (-m * n) + k = k - m * n
    OBVIOUS
  <2> HIDE DEF cash
  <2> QED
    BY <1>3, <2>1, SignedTyped
<1> QED
  BY <1>2, <1>3, <1>4, <1>5 DEF Held, Cash

\* Nothing adds up to zero.
LEMMA NoFills ==
  Held({}) = 0 /\ Cash({}) = 0 /\ SumFunction([g \in {} |-> g.quantity]) = 0
<1>1. /\ [g \in {} |-> Signed(g)] \in [{} -> Int]
      /\ [g \in {} |-> -Signed(g) * g.price] \in [{} -> Int]
      /\ [g \in {} |-> g.quantity] \in [{} -> Int]
  OBVIOUS
<1> QED
  BY <1>1, SumTyped, FS_EmptySet DEF Held, Cash

\* What is held is what was bought less what was sold.
LEMMA HeldIsBoughtLessSold ==
  ASSUME NEW fills \in SUBSET Fill, IsFiniteSet(fills)
  PROVE  Held(fills) = SumFunction([f \in {g \in fills : g.side = "buy"} |-> f.quantity])
                       - SumFunction([f \in {g \in fills : g.side = "sell"} |-> f.quantity])
<1> DEFINE On(s, side) == {g \in s : g.side = side}
           Volume(s) == SumFunction([f \in s |-> f.quantity])
           family == {s \in SUBSET fills : Held(s) = Volume(On(s, "buy")) - Volume(On(s, "sell"))}
<1>1. {} \in family
  BY NoFills
<1>2. ASSUME NEW s \in SUBSET fills, NEW f \in fills \ s, s \in family
      PROVE  s \cup {f} \in family
  <2>1. f \in Fill /\ s \in SUBSET Fill /\ IsFiniteSet(s)
    BY FS_Subset
  <2>2. \A side : /\ IsFiniteSet(On(s, side)) /\ On(s, side) \in SUBSET Fill /\ f \notin On(s, side)
                  /\ On(s \cup {f}, side) = IF f.side = side THEN On(s, side) \cup {f} ELSE On(s, side)
    BY <2>1, FS_Subset
  <2>3. Held(s \cup {f}) = Signed(f) + Held(s) /\ Held(s) \in Int
    BY <1>2, <2>1, FillsGrow
  <2> HIDE DEF On
  <2>4. \A side : /\ Volume(On(s, side)) \in Int
                  /\ Volume(On(s, side) \cup {f}) = f.quantity + Volume(On(s, side))
    BY <2>1, <2>2, FillsGrow
  <2>5. Held(s) = Volume(On(s, "buy")) - Volume(On(s, "sell"))
    BY <1>2
  <2> HIDE DEF Volume
  <2>0. f.quantity \in Int
    BY <2>1, SignedTyped
  <2>6. CASE f.side = "buy"
    <3>1. On(s \cup {f}, "buy") = On(s, "buy") \cup {f} /\ On(s \cup {f}, "sell") = On(s, "sell")
      BY <2>2, <2>6
    <3>2. /\ Volume(On(s \cup {f}, "buy")) = f.quantity + Volume(On(s, "buy"))
          /\ Volume(On(s \cup {f}, "sell")) = Volume(On(s, "sell"))
          /\ Volume(On(s, "buy")) \in Int /\ Volume(On(s, "sell")) \in Int
      BY <2>4, <3>1
    <3>3. Held(s \cup {f}) = Volume(On(s \cup {f}, "buy")) - Volume(On(s \cup {f}, "sell"))
      BY <2>0, <2>3, <2>5, <2>6, <3>2 DEF Signed
    <3> QED
      BY <2>1, <3>3
  <2>7. CASE f.side = "sell"
    <3>1. On(s \cup {f}, "sell") = On(s, "sell") \cup {f} /\ On(s \cup {f}, "buy") = On(s, "buy")
      BY <2>2, <2>7
    <3>2. /\ Volume(On(s \cup {f}, "sell")) = f.quantity + Volume(On(s, "sell"))
          /\ Volume(On(s \cup {f}, "buy")) = Volume(On(s, "buy"))
          /\ Volume(On(s, "buy")) \in Int /\ Volume(On(s, "sell")) \in Int
      BY <2>4, <3>1
    <3>3. Held(s \cup {f}) = Volume(On(s \cup {f}, "buy")) - Volume(On(s \cup {f}, "sell"))
      BY <2>0, <2>3, <2>5, <2>7, <3>2 DEF Signed
    <3> QED
      BY <2>1, <3>3
  <2> QED
    BY <2>1, <2>6, <2>7 DEF Fill
<1>3. SUBSET fills \subseteq family
  <2> HIDE DEF family
  <2> QED
    BY <1>1, <1>2, FiniteSetInduction
<1> QED
  BY <1>3

-----------------------------------------------------------------------------
(***************************************************************************)
(* A position and a fill.                                                  *)
(***************************************************************************)
Position == [quantity : Int, average : Nat, realized : Int, open : BOOLEAN]

\* What a position claims to be worth beside the mark of what it holds.
Worth(p) == p.realized - p.average * p.quantity

\* Rounding down loses less than one per unit.
LEMMA RoundedDown ==
  ASSUME NEW a \in Nat, NEW n \in Nat \ {0}
  PROVE  /\ a \div n \in Nat
         /\ a - n * (a \div n) \in 0 .. n - 1
<1>1. a \div n \in Nat
  OBVIOUS
<1>2. a = n * (a \div n) + (a % n) /\ a % n \in 0 .. n - 1
  OBVIOUS
<1> QED
  BY <1>1, <1>2

\* The arithmetic of an average that is r off.
LEMMA WorthOfRest ==
  ASSUME NEW h \in Int, NEW q \in Int, NEW average \in Int, NEW price \in Int, NEW v \in Int,
         NEW realized \in Int, NEW r \in Int, r = average * h + price * q - (h + q) * v
  PROVE  realized - v * (h + q) = realized - average * h - price * q + r
<1>1. (h + q) * v = v * (h + q)
  OBVIOUS
<1>2. average * h \in Int /\ price * q \in Int /\ v * (h + q) \in Int
  OBVIOUS
<1>3. \A i, j, k \in Int : r = i + j - k => realized - k = realized - i - j + r
  OBVIOUS
<1> QED
  BY <1>1, <1>2, <1>3

\* v is the average of h units and of q more at a price, rounded down, and r what
\* that adds to what they are claimed to be worth.
AveragedTo(h, average, q, price, realized, v, r) ==
    /\ v = (average * Abs(h) + price * Abs(q)) \div (Abs(h) + Abs(q))
    /\ realized - v * (h + q) = realized - average * h - price * q + r
    /\ Abs(r) <= IF SameSide(h, q) THEN Abs(h) + Abs(q) - 1 ELSE 0

\* An average is short of what it averages by less than one per unit held.
LEMMA AverageWorth ==
  ASSUME NEW h \in Int, NEW q \in Int, q # 0, h = 0 \/ SameSide(h, q),
         NEW average \in Nat, NEW price \in Nat, NEW realized \in Int
  PROVE  \E v \in Nat, r \in Int :
           AveragedTo(h, average, q, price, realized, v, r)
<1> DEFINE total == average * Abs(h) + price * Abs(q)
<1>1. PICK n \in Nat \ {0} : n = Abs(h) + Abs(q)
  BY DEF Abs
<1>2. PICK a \in Nat : a = total
  <2>1. \A i, j \in Nat : i * j \in Nat
    OBVIOUS
  <2>2. Abs(h) \in Nat /\ Abs(q) \in Nat
    BY DEF Abs
  <2> QED
    BY <2>1, <2>2
<1>3. PICK v \in Nat : v = a \div n
  BY <1>1, <1>2, RoundedDown
<1>4. PICK rest \in 0 .. n - 1 : rest = a - n * v
  BY <1>3, RoundedDown
<1>5. v = total \div (Abs(h) + Abs(q))
  BY <1>1, <1>2, <1>3
<1>6. CASE h = 0
  <2>1. a = price * Abs(q) /\ n = Abs(q) /\ Abs(q) \in Nat \ {0}
    BY <1>1, <1>2, <1>6 DEF Abs
  <2>2. (price * Abs(q)) \div Abs(q) = price
    BY <2>1
  <2>3. v = price
    BY <1>3, <2>1, <2>2
  <2>4. realized - v * (h + q) = realized - average * h - price * q + 0
    BY <1>6, <2>3
  <2>5. ~SameSide(h, q) /\ Abs(0) = 0
    BY <1>6 DEF SameSide, Abs
  <2> QED
    BY <1>5, <2>4, <2>5 DEF AveragedTo
<1>7. CASE h > 0 /\ q > 0
  <2>1. n = h + q /\ a = average * h + price * q /\ SameSide(h, q)
    BY <1>1, <1>2, <1>7 DEF Abs, SameSide
  <2>2. rest = average * h + price * q - (h + q) * v
    BY <1>4, <2>1
  <2>3. realized - v * (h + q) = realized - average * h - price * q + rest
    BY <2>2, WorthOfRest
  <2>4. rest \in Int /\ Abs(rest) <= Abs(h) + Abs(q) - 1
    BY <1>1, <1>4 DEF Abs
  <2> QED
    BY <1>5, <2>1, <2>3, <2>4 DEF AveragedTo
<1>8. CASE h < 0 /\ q < 0
  <2>1. n = -(h + q) /\ a = -(average * h + price * q) /\ SameSide(h, q)
    BY <1>1, <1>2, <1>8 DEF Abs, SameSide
  <2>2. -rest = average * h + price * q - (h + q) * v
    <3>1. \A i, j, k \in Int : -(-i - (-j) * k) = i - j * k
      OBVIOUS
    <3>2. average * h + price * q \in Int /\ h + q \in Int
      OBVIOUS
    <3> QED
      BY <1>4, <2>1, <3>1, <3>2
  <2>3. realized - v * (h + q) = realized - average * h - price * q + (-rest)
    BY <2>2, WorthOfRest
  <2>4. -rest \in Int /\ Abs(-rest) <= Abs(h) + Abs(q) - 1
    BY <1>1, <1>4 DEF Abs
  <2> QED
    BY <1>5, <2>1, <2>3, <2>4 DEF AveragedTo
<1> QED
  BY <1>6, <1>7, <1>8 DEF SameSide

\* A fill added to a position: its average loses less than one per unit held.
LEMMA AddedWorth ==
  ASSUME NEW p \in Position, NEW q \in Int, q # 0, NEW price \in Nat,
         p.quantity = 0 \/ SameSide(p.quantity, q)
  PROVE  /\ Added(p, q, price) \in Position
         /\ Added(p, q, price).quantity = p.quantity + q
         /\ Added(p, q, price).open = p.open
         /\ \E r \in Int : /\ Worth(Added(p, q, price)) = Worth(p) - price * q + r
                           /\ Abs(r) <= IF SameSide(p.quantity, q)
                                        THEN Abs(p.quantity) + Abs(q) - 1 ELSE 0
<1>1. PICK h \in Int, average \in Nat, realized \in Int :
        h = p.quantity /\ average = p.average /\ realized = p.realized
  BY DEF Position
<1>2. PICK a \in Int : a = h + q
  OBVIOUS
<1>3. PICK v \in Nat, r \in Int : AveragedTo(h, average, q, price, realized, v, r)
  BY <1>1, AverageWorth
<1>4. PICK u : u = [p EXCEPT !.quantity = a, !.average = v]
  OBVIOUS
<1>5. Added(p, q, price) = u
  BY <1>1, <1>2, <1>3, <1>4 DEF Added, AveragedTo
<1>6. /\ u \in Position /\ u.quantity = a /\ u.average = v
      /\ u.realized = p.realized /\ u.open = p.open
  BY <1>4 DEF Position
<1>7. Worth(u) = realized - v * (h + q) /\ Worth(p) = realized - average * h
  BY <1>1, <1>2, <1>6 DEF Worth
<1>8. Worth(u) = Worth(p) - price * q + r
  BY <1>3, <1>7 DEF AveragedTo
<1>9. Abs(r) <= IF SameSide(h, q) THEN Abs(h) + Abs(q) - 1 ELSE 0
  BY <1>3 DEF AveragedTo
<1> QED
  BY <1>1, <1>2, <1>5, <1>6, <1>8, <1>9

\* What closing realizes, whether or not the fill is larger than the position.
LEMMA GainClosed ==
  ASSUME NEW h \in Int, NEW q \in Int, q # 0, h # 0, ~SameSide(h, q),
         NEW v \in Nat, NEW price \in Nat
  PROVE  LET closing == SmallerOf(Abs(q), Abs(h))
             gain == IF h > 0 THEN price - v ELSE v - price
         IN  gain * closing = IF SameSide(h + q, q) THEN (price - v) * h ELSE (v - price) * q
<1>1. PICK closing \in Nat : closing = SmallerOf(Abs(q), Abs(h))
  BY DEF SmallerOf, Abs
<1>2. PICK gain \in Int : gain = IF h > 0 THEN price - v ELSE v - price
  <2>1. price - v \in Int /\ v - price \in Int
    OBVIOUS
  <2>2. CASE h > 0
    BY <2>1, <2>2
  <2>3. CASE ~(h > 0)
    BY <2>1, <2>3
  <2> QED
    BY <2>2, <2>3
<1>3. \A i \in Int : (v - price) * (-i) = (price - v) * i /\ (price - v) * (-i) = (v - price) * i
  <2>1. \A d, i \in Int : d * (-i) = (-d) * i
    BY SMTT(30)
  <2>2. v - price \in Int /\ price - v = -(v - price) /\ v - price = -(price - v)
    OBVIOUS
  <2> QED
    BY <2>1, <2>2
<1>4. CASE h > 0 /\ q < 0
  <2>1. closing = (IF SameSide(h + q, q) THEN h ELSE -q) /\ gain = price - v
    BY <1>1, <1>2, <1>4 DEF SmallerOf, Abs, SameSide
  <2>2. gain * closing = IF SameSide(h + q, q) THEN (price - v) * h ELSE (v - price) * q
    BY <1>3, <2>1
  <2> QED
    BY <1>1, <1>2, <2>2
<1>5. CASE h < 0 /\ q > 0
  <2>1. closing = (IF SameSide(h + q, q) THEN -h ELSE q) /\ gain = v - price
    BY <1>1, <1>2, <1>5 DEF SmallerOf, Abs, SameSide
  <2>2. gain * closing = IF SameSide(h + q, q) THEN (price - v) * h ELSE (v - price) * q
    BY <1>3, <2>1
  <2> QED
    BY <1>1, <1>2, <2>2
<1> QED
  BY <1>4, <1>5 DEF SameSide

\* A fill against a position moves its worth by the cash of the fill, exactly.
LEMMA ClosedWorth ==
  ASSUME NEW p \in Position, NEW q \in Int, q # 0, NEW price \in Nat,
         p.quantity # 0, ~SameSide(p.quantity, q)
  PROVE  /\ Closed(p, q, price) \in Position
         /\ Closed(p, q, price).quantity = p.quantity + q
         /\ Closed(p, q, price).open = p.open
         /\ Worth(Closed(p, q, price)) = Worth(p) - price * q
<1>1. PICK h \in Int, v \in Nat, realized \in Int :
        h = p.quantity /\ v = p.average /\ realized = p.realized
  BY DEF Position
<1> DEFINE closing == SmallerOf(Abs(q), Abs(h))
           gain == IF h > 0 THEN price - v ELSE v - price
           flips == SameSide(h + q, q)
<1>2. PICK a \in Int : a = h + q
  OBVIOUS
<1>3. gain * closing = IF flips THEN (price - v) * h ELSE (v - price) * q
  <2>1. h # 0 /\ ~SameSide(h, q)
    BY <1>1
  <2> QED
    BY <2>1, GainClosed
<1>4. PICK c \in Int : c = realized + gain * closing
  <2>1. (IF flips THEN (price - v) * h ELSE (v - price) * q) \in Int
    OBVIOUS
  <2> HIDE DEF gain, closing, flips
  <2> QED
    BY <1>3, <2>1
<1>5. PICK b \in Nat : b = IF flips THEN price ELSE v
  OBVIOUS
<1>6. PICK u : u = [p EXCEPT !.quantity = a, !.realized = c, !.average = b]
  OBVIOUS
<1>7. Closed(p, q, price) = u
  BY <1>1, <1>2, <1>4, <1>5, <1>6 DEF Closed
<1>8. /\ u \in Position /\ u.quantity = a /\ u.average = b
      /\ u.realized = c /\ u.open = p.open
  BY <1>6 DEF Position
<1>9. Worth(u) = Worth(p) - price * q
  <2> HIDE DEF gain, closing, flips
  <2>1. Worth(u) = c - b * (h + q) /\ Worth(p) = realized - v * h /\ c = realized + gain * closing
    BY <1>1, <1>2, <1>4, <1>8 DEF Worth
  <2>2. CASE flips
    <3>1. Worth(u) = realized + (price - v) * h - price * (h + q)
      BY <1>1, <1>3, <1>5, <2>1, <2>2
    <3>2. realized + (price - v) * h - price * (h + q) = realized - v * h - price * q
      OBVIOUS
    <3> QED
      BY <2>1, <3>1, <3>2
  <2>3. CASE ~flips
    <3>1. Worth(u) = realized + (v - price) * q - v * (h + q)
      BY <1>1, <1>3, <1>5, <2>1, <2>3
    <3>2. realized + (v - price) * q - v * (h + q) = realized - v * h - price * q
      OBVIOUS
    <3> QED
      BY <2>1, <3>1, <3>2
  <2> QED
    BY <2>2, <2>3
<1> QED
  BY <1>1, <1>2, <1>7, <1>8, <1>9

\* One fill: the quantity moves by what is signed, the worth by the cash, and what
\* rounding takes is what `slack' is raised by at most.
LEMMA UpdateWorth ==
  ASSUME NEW p \in Position, ~p.open => p = NoPosition,
         NEW q \in Int, q # 0, NEW price \in Nat
  PROVE  /\ Update(p, q, price) \in Position /\ Update(p, q, price).open
         /\ Update(p, q, price).quantity = p.quantity + q
         /\ \E r \in Int : /\ Worth(Update(p, q, price)) = Worth(p) - price * q + r
                           /\ Abs(r) <= IF SameSide(p.quantity, q)
                                        THEN Abs(p.quantity) + Abs(q) - 1 ELSE 0
<1>1. CASE ~p.open
  <2> DEFINE u == [quantity |-> q, average |-> price, realized |-> 0, open |-> TRUE]
  <2>1. Update(p, q, price) = u /\ u \in Position /\ u.open
    BY <1>1 DEF Update, Position
  <2>2. Worth(u) = 0 - price * q + 0 /\ Worth(p) = 0 /\ p.quantity = 0 /\ u.quantity = 0 + q
    BY <1>1 DEF Worth, NoPosition
  <2>3. Abs(0) = 0 /\ ~SameSide(p.quantity, q)
    BY <2>2 DEF Abs, SameSide
  <2>4. u.quantity = p.quantity + q /\ Worth(u) = Worth(p) - price * q + 0
    BY <2>2
  <2> HIDE DEF u
  <2> QED
    BY <2>1, <2>3, <2>4
<1>2. CASE p.open /\ (p.quantity = 0 \/ SameSide(p.quantity, q))
  <2>1. Update(p, q, price) = Added(p, q, price)
    BY <1>2 DEF Update
  <2> QED
    BY <1>2, <2>1, AddedWorth
<1>3. CASE p.open /\ p.quantity # 0 /\ ~SameSide(p.quantity, q)
  <2>1. Update(p, q, price) = Closed(p, q, price)
    BY <1>3 DEF Update
  <2>2. Worth(Closed(p, q, price)) = Worth(p) - price * q + 0 /\ Abs(0) = 0
    <3>1. Worth(p) \in Int /\ price * q \in Int
      BY DEF Worth, Position
    <3> QED
      BY <1>3, <3>1, ClosedWorth DEF Abs
  <2> QED
    BY <1>3, <2>1, <2>2, ClosedWorth
<1> QED
  BY <1>1, <1>2, <1>3 DEF Position

-----------------------------------------------------------------------------
(***************************************************************************)
(* What is reported of a position.                                         *)
(***************************************************************************)
LEMMA SumOfOne ==
  ASSUME NEW y, NEW w \in [{y} -> Int]
  PROVE  SumFunction(w) = w[y]
<1> DEFINE rest == [x \in {y} \ {y} |-> w[x]]
<1>1. IsFiniteSet({y}) /\ y \in {y} /\ w[y] \in Int
  BY FS_Singleton
<1>2. SumFunction(w) = w[y] + SumFunction(rest)
  <2>1. SumFunction(w) = w[y] + SumFunction([x \in {y} \ {y} |-> w[x]])
    BY <1>1, SumSplits
  <2> QED
    BY <2>1
<1>3. SumFunction(rest) = 0
  <2>1. {y} \ {y} = {} /\ rest \in [{} -> Int]
    OBVIOUS
  <2> HIDE DEF rest
  <2> QED
    BY <2>1, SumTyped, FS_EmptySet
<1> QED
  <2> HIDE DEF rest
  <2> QED
    BY <1>1, <1>2, <1>3

\* A worth within `s' of the cash is a report within `s' of the fills, at any mark.
LEMMA ReportedGains ==
  ASSUME NEW b \in Books, positions[b] \in Position,
         ~positions[b].open => positions[b] = NoPosition,
         NEW held \in Int, NEW cash \in Int, NEW s \in Nat, NEW mark \in Nat \cup {None},
         positions[b].quantity = held, Abs(Worth(positions[b]) - cash) <= s
  PROVE  LET report == ListPositions({b}, mark)
         IN  /\ report.unpriced = (IF held # 0 /\ mark = None THEN 1 ELSE 0)
             /\ report.unpriced = 0 =>
                  Abs(report.realized + report.unrealized - cash - mark * held) <= s
<1> DEFINE report == ListPositions({b}, mark)
           all == GetPosition(b, mark)
           open == {p \in all : p.quantity # 0}
           priced == {p \in open : p.mark # None}
<1>0. PICK p \in Position : p = positions[b]
  OBVIOUS
<1>1. UNION {GetPosition(c, mark) : c \in {b}} = all
  OBVIOUS
<1>2. /\ report.realized = SumFunction([x \in all |-> x.realized])
      /\ report.unrealized = SumFunction([x \in priced |-> x.unrealized])
      /\ report.unpriced = Cardinality(open \ priced)
  <2> HIDE DEF all
  <2> QED
    BY <1>1 DEF ListPositions
<1>3. /\ p.quantity = held /\ p.average \in Nat /\ p.realized \in Int
      /\ Worth(p) = p.realized - p.average * held
      /\ mark \in Int
  BY <1>0 DEF Position, Worth, None
<1>4. /\ SumFunction([x \in {} |-> x.realized]) = 0
      /\ SumFunction([x \in {} |-> x.unrealized]) = 0
      /\ Cardinality({}) = 0
  <2>1. [x \in {} |-> x.realized] \in [{} -> Int] /\ [x \in {} |-> x.unrealized] \in [{} -> Int]
    OBVIOUS
  <2> QED
    BY <2>1, SumTyped, FS_EmptySet
<1>5. CASE ~p.open
  <2>1. all = {} /\ held = 0 /\ Worth(p) = 0
    BY <1>0, <1>3, <1>5 DEF GetPosition, NoPosition
  <2>2. report.realized = 0 /\ report.unrealized = 0 /\ report.unpriced = 0
    <3>1. open = {} /\ priced = {} /\ open \ priced = {}
      BY <2>1
    <3> HIDE DEF all, open, priced
    <3> QED
      BY <1>2, <1>4, <2>1, <3>1
  <2>3. 0 + 0 - cash - mark * held = Worth(p) - cash
    BY <1>3, <2>1
  <2> QED
    BY <1>0, <2>1, <2>2, <2>3
<1>6. CASE p.open
  <2> DEFINE one == [symbol |-> b, quantity |-> p.quantity, average |-> p.average, mark |-> mark,
                     unrealized |-> IF mark = None THEN None ELSE (mark - p.average) * p.quantity,
                     notional |-> IF mark = None THEN None ELSE mark * Abs(p.quantity),
                     realized |-> p.realized]
  <2>1. all = {one}
    BY <1>0, <1>6 DEF GetPosition
  <2>2. one.quantity = held /\ one.mark = mark /\ one.realized = p.realized
    BY <1>3
  <2>3. mark # None => one.unrealized = (mark - p.average) * held
    BY <1>3
  <2> HIDE DEF one, all
  <2>4. report.realized = p.realized
    <3>1. [x \in {one} |-> x.realized] \in [{one} -> Int]
      BY <1>3, <2>2
    <3>2. SumFunction([x \in {one} |-> x.realized]) = [x \in {one} |-> x.realized][one]
      BY <3>1, SumOfOne
    <3> HIDE DEF report
    <3> QED
      BY <1>2, <2>1, <2>2, <3>2
  <2>5. CASE held = 0
    <3>1. open = {} /\ priced = {} /\ open \ priced = {}
      BY <2>1, <2>2, <2>5
    <3>2. report.unrealized = 0 /\ report.unpriced = 0
      <4> HIDE DEF open, priced
      <4> QED
        BY <1>2, <1>4, <3>1
    <3>3. p.realized + 0 - cash - mark * held = Worth(p) - cash
      BY <1>3, <2>5
    <3> QED
      BY <1>0, <2>4, <2>5, <3>2, <3>3
  <2>6. CASE held # 0 /\ mark = None
    <3>1. open \ priced = {one}
      BY <2>1, <2>2, <2>6
    <3>2. report.unpriced = 1
      <4> HIDE DEF open, priced
      <4> QED
        BY <1>2, <3>1, FS_Singleton
    <3> QED
      BY <2>6, <3>2
  <2>7. CASE held # 0 /\ mark # None
    <3>1. priced = {one} /\ open \ priced = {}
      BY <2>1, <2>2, <2>7
    <3>2. (mark - p.average) * held \in Int
      BY <1>3
    <3>3. report.unrealized = (mark - p.average) * held
      <4>1. [x \in {one} |-> x.unrealized] \in [{one} -> Int]
        BY <2>3, <2>7, <3>2
      <4>2. SumFunction([x \in {one} |-> x.unrealized]) = [x \in {one} |-> x.unrealized][one]
        BY <4>1, SumOfOne
      <4> HIDE DEF report, open, priced
      <4> QED
        BY <1>2, <2>3, <2>7, <3>1, <4>2
    <3>4. report.unpriced = 0
      <4> HIDE DEF open, priced
      <4> QED
        BY <1>2, <1>4, <3>1
    <3>5. p.realized + (mark - p.average) * held - cash - mark * held = Worth(p) - cash
      <4>1. \A i, m, v \in Int : i + (m - v) * held - cash - m * held = i - v * held - cash
        OBVIOUS
      <4> QED
        BY <1>3, <4>1
    <3> QED
      BY <1>0, <2>4, <2>7, <3>3, <3>4, <3>5
  <2> QED
    BY <2>5, <2>6, <2>7
<1> QED
  BY <1>5, <1>6

-----------------------------------------------------------------------------
(***************************************************************************)
(* The newest of a set of times, and the bars that have those.             *)
(***************************************************************************)

\* The newest of more are among the newest of fewer and what came.
LEMMA NewestOfMore ==
  ASSUME NEW ts \in SUBSET Int, IsFiniteSet(ts), NEW t \in Int, NEW n \in Nat
  PROVE  Newest(ts \cup {t}, n) = Newest(Newest(ts, n) \cup {t}, n)
<1> DEFINE Above(s, x) == {u \in s : u > x}
           kept == Newest(ts, n)
           more == ts \cup {t}
           some == kept \cup {t}
<1>1. /\ kept \subseteq ts /\ some \subseteq more /\ IsFiniteSet(more) /\ more \subseteq Int
  BY FS_AddElement DEF Newest
<1>2. \A s, x : s \subseteq more => /\ IsFiniteSet(Above(s, x))
                                    /\ Cardinality(Above(s, x)) \in Nat
                                    /\ Cardinality(Above(s, x)) <= Cardinality(Above(more, x))
  <2> TAKE s, x
  <2> HAVE s \subseteq more
  <2>1. Above(s, x) \in SUBSET Above(more, x) /\ Above(more, x) \in SUBSET more
    OBVIOUS
  <2> HIDE DEF Above
  <2>2. IsFiniteSet(Above(more, x))
    BY <1>1, <2>1, FS_Subset
  <2> QED
    BY <2>1, <2>2, FS_Subset, FS_CardinalityType
<1>3. \A x : /\ x \in kept <=> x \in ts /\ Cardinality(Above(ts, x)) < n
             /\ x \in Newest(more, n) <=> x \in more /\ Cardinality(Above(more, x)) < n
             /\ x \in Newest(some, n) <=> x \in some /\ Cardinality(Above(some, x)) < n
  BY DEF Newest
<1>4. ASSUME NEW x \in Newest(more, n)
      PROVE  x \in Newest(some, n)
  <2>1. x \in more /\ Cardinality(Above(more, x)) < n
    BY <1>3, <1>4
  <2>2. Cardinality(Above(ts, x)) < n /\ Cardinality(Above(some, x)) < n
    <3> HIDE DEF Above, more, some, kept
    <3>1. ts \subseteq more /\ more \subseteq more
      BY DEF more
    <3>2. \A s \in {ts, some, more} : /\ Cardinality(Above(s, x)) \in Nat
                                       /\ Cardinality(Above(s, x)) <= Cardinality(Above(more, x))
      BY <1>1, <1>2, <3>1
    <3>3. \A c, m \in Nat : c <= m /\ m < n => c < n
      OBVIOUS
    <3> QED
      BY <2>1, <3>2, <3>3
  <2>3. x \in some
    <3> HIDE DEF Above, kept
    <3> QED
      BY <1>3, <2>1, <2>2
  <2> QED
    BY <1>3, <2>2, <2>3
<1>5. ASSUME NEW x \in Newest(some, n)
      PROVE  x \in Newest(more, n)
  <2>1. x \in some /\ x \in more /\ Cardinality(Above(some, x)) < n
    BY <1>1, <1>3, <1>5
  <2> DEFINE dropped == {u \in ts \ kept : u > x}
  <2>2. dropped = {}
    <3> SUFFICES ASSUME dropped # {} PROVE FALSE
      OBVIOUS
    <3>1. IsFiniteSet(dropped) /\ dropped \subseteq Int
      BY <1>1, FS_Subset
    <3>2. PICK u \in dropped : \A v \in dropped : v <= u
      <4> HIDE DEF dropped
      <4> QED
        BY <3>1, GreatestOfFinite
    <3>3. Above(ts, u) \subseteq Above(some, x)
      <4> SUFFICES ASSUME NEW w \in ts, w > u PROVE w \in kept /\ w > x
        OBVIOUS
      <4>1. u > x /\ u \in Int /\ w \in Int /\ x \in Int
        BY <1>1, <2>1, <3>2
      <4>2. w > x /\ ~(w <= u)
        BY <4>1
      <4> QED
        BY <3>2, <4>2
    <3>4. ~(Cardinality(Above(ts, u)) < n)
      BY <1>3, <3>2
    <3>5. Cardinality(Above(ts, u)) <= Cardinality(Above(some, x)) /\ Cardinality(Above(ts, u)) \in Nat
      <4> HIDE DEF Above, some, more, kept
      <4>1. IsFiniteSet(Above(some, x)) /\ Cardinality(Above(some, x)) \in Nat
        BY <1>1, <1>2
      <4>2. Above(ts, u) \in SUBSET Above(some, x)
        BY <3>3
      <4> QED
        BY <4>1, <4>2, FS_Subset, FS_CardinalityType
    <3> HIDE DEF Above, some, more, kept
    <3>6. Cardinality(Above(some, x)) \in Nat
      BY <1>1, <1>2
    <3> QED
      BY <2>1, <3>4, <3>5, <3>6
  <2>3. Above(more, x) = Above(some, x)
    BY <1>1, <2>2
  <2> HIDE DEF Above, some, more, kept
  <2> QED
    BY <1>3, <2>1, <2>3
<1> QED
  BY <1>4, <1>5

\* Bars of different times: how many are newer is how many times are.
Distinct(series) == \A x, y \in series : x.time = y.time => x = y
Times(series) == {bar.time : bar \in series}

LEMMA NewestBars ==
  ASSUME NEW series, IsFiniteSet(series), Distinct(series), NEW n
  PROVE  Times({b \in series : Cardinality({c \in series : c.time > b.time}) < n})
           = Newest(Times(series), n)
<1>1. ASSUME NEW b \in series
      PROVE  Cardinality({c \in series : c.time > b.time})
               = Cardinality({u \in Times(series) : u > b.time})
  <2> DEFINE later == {c \in series : c.time > b.time}
             above == {u \in Times(series) : u > b.time}
             timed == [c \in later |-> c.time]
  <2>1. timed \in Bijection(later, above)
    <3>1. timed \in [later -> above]
      BY DEF Times
    <3>2. \A x, y \in later : timed[x] = timed[y] => x = y
      BY DEF Distinct
    <3>3. \A u \in above : \E c \in later : timed[c] = u
      BY DEF Times
    <3> HIDE DEF later, above, timed
    <3> QED
      BY <3>1, <3>2, <3>3 DEF Bijection, Injection, Surjection, IsInjective
  <2>2. IsFiniteSet(later)
    BY FS_Subset
  <2> HIDE DEF later, above, timed
  <2>3. ExistsBijection(later, above)
    BY <2>1 DEF ExistsBijection
  <2>4. Cardinality(above) = Cardinality(later)
    BY <2>2, <2>3, FS_Bijection
  <2> QED
    BY <2>4 DEF later, above
<1> QED
  BY <1>1 DEF Times, Newest

-----------------------------------------------------------------------------
(***************************************************************************)
(* A fill and a series of bars.                                            *)
(***************************************************************************)
Bar == [time : Nat, open : Nat, high : Nat, low : Nat, close : Nat, volume : Int, count : Nat]

FloorsOf(fills, i) == {Floor(g.time, i) : g \in fills}
At(fills, i, time) == {g \in fills : Floor(g.time, i) = time}

LEMMA FloorTyped ==
  ASSUME NEW f \in Fill, NEW i \in Intervals
  PROVE  Floor(f.time, i) \in Nat
<1>1. f.time \in Nat /\ i \in Nat \ {0}
  BY LedgerAssumption DEF Fill
<1>2. f.time \div i \in Nat
  BY <1>1
<1> QED
  BY <1>1, <1>2 DEF Floor

\* What a bar tells of its first fill, and of one more.
LEMMA FirstTold ==
  ASSUME NEW f \in Fill, NEW time \in Nat
  PROVE  NewBar(time, f) \in Bar /\ NewBar(time, f).time = time /\ TellsAll(NewBar(time, f), {f})
<1>1. f.quantity \in Int /\ f.price \in Nat
  BY SignedTyped
<1>2. NewBar(time, f) \in Bar /\ NewBar(time, f).time = time
  BY <1>1 DEF NewBar, Bar
<1>3. SumFunction([g \in {f} |-> g.quantity]) = f.quantity
  <2>1. [g \in {f} |-> g.quantity] \in [{f} -> Int] /\ [g \in {f} |-> g.quantity][f] = f.quantity
    BY <1>1
  <2> QED
    BY <2>1, SumOfOne
<1>4. Cardinality({f}) = 1
  BY FS_Singleton
<1> QED
  BY <1>1, <1>2, <1>3, <1>4 DEF TellsAll, NewBar

LEMMA UpdatedBar ==
  ASSUME NEW bar \in Bar, NEW f \in Fill
  PROVE  LET u == BarUpdated(bar, f)
         IN  /\ u \in Bar /\ u.time = bar.time /\ u.open = bar.open /\ u.close = f.price
             /\ u.high = (IF f.price > bar.high THEN f.price ELSE bar.high)
             /\ u.low = (IF f.price < bar.low THEN f.price ELSE bar.low)
             /\ u.volume = bar.volume + f.quantity /\ u.count = bar.count + 1
<1>1. PICK price \in Nat, q \in Int : price = f.price /\ q = f.quantity
  BY SignedTyped
<1>2. PICK high \in Nat : high = IF price > bar.high THEN price ELSE bar.high
  BY DEF Bar
<1>3. PICK low \in Nat : low = IF price < bar.low THEN price ELSE bar.low
  BY DEF Bar
<1>4. PICK volume \in Int, count \in Nat : volume = bar.volume + q /\ count = bar.count + 1
  BY DEF Bar
<1>5. PICK u : u = [bar EXCEPT !.high = high, !.low = low, !.close = price,
                               !.volume = volume, !.count = count]
  OBVIOUS
<1>6. BarUpdated(bar, f) = u
  BY <1>1, <1>2, <1>3, <1>4, <1>5 DEF BarUpdated
<1>7. /\ u \in Bar /\ u.time = bar.time /\ u.open = bar.open /\ u.close = price
      /\ u.high = high /\ u.low = low /\ u.volume = volume /\ u.count = count
  BY <1>5 DEF Bar
<1> QED
  BY <1>1, <1>2, <1>3, <1>4, <1>6, <1>7

LEMMA OneMoreTold ==
  ASSUME NEW bar \in Bar, NEW fills \in SUBSET Fill, IsFiniteSet(fills), TellsAll(bar, fills),
         NEW f \in Fill, f \notin fills
  PROVE  /\ BarUpdated(bar, f) \in Bar /\ BarUpdated(bar, f).time = bar.time
         /\ TellsAll(BarUpdated(bar, f), fills \cup {f})
<1> DEFINE u == BarUpdated(bar, f)
           more == fills \cup {f}
           prices == {g.price : g \in fills}
<1>1. f.quantity \in Int /\ f.price \in Nat /\ \A g \in fills : g.price \in Nat
  BY SignedTyped
<1>2. /\ bar.volume = SumFunction([g \in fills |-> g.quantity])
      /\ bar.count = Cardinality(fills)
      /\ {bar.high, bar.low, bar.open, bar.close} \subseteq prices
      /\ \A g \in fills : bar.low <= g.price /\ g.price <= bar.high
  BY DEF TellsAll
<1>3. /\ u \in Bar /\ u.time = bar.time /\ u.open = bar.open /\ u.close = f.price
      /\ u.high = (IF f.price > bar.high THEN f.price ELSE bar.high)
      /\ u.low = (IF f.price < bar.low THEN f.price ELSE bar.low)
      /\ u.volume = bar.volume + f.quantity /\ u.count = bar.count + 1
  BY UpdatedBar
<1>4. u.volume = SumFunction([g \in more |-> g.quantity])
  <2>1. /\ SumFunction([g \in fills |-> g.quantity]) \in Int
        /\ SumFunction([g \in more |-> g.quantity])
             = f.quantity + SumFunction([g \in fills |-> g.quantity])
    BY FillsGrow
  <2> HIDE DEF u, more
  <2> QED
    BY <1>1, <1>2, <1>3, <2>1
<1>5. u.count = Cardinality(more)
  BY <1>2, <1>3, FS_AddElement, FS_CardinalityType
<1>6. {u.high, u.low, u.open, u.close} \subseteq {g.price : g \in more}
  <2> HIDE DEF u
  <2> QED
    BY <1>2, <1>3
<1>7. \A p \in {g.price : g \in more} : u.low <= p /\ p <= u.high
  <2>0. bar.high \in Nat /\ bar.low \in Nat
    BY DEF Bar
  <2>1. \A g \in more : u.low <= g.price /\ g.price <= u.high
    <3> HIDE DEF u
    <3> QED
      BY <1>1, <1>2, <1>3, <2>0
  <2> QED
    BY <2>1
<1> QED
  <2> HIDE DEF u, more
  <2>1. TellsAll(u, more)
    BY <1>4, <1>5, <1>6, <1>7 DEF TellsAll
  <2> QED
    BY <1>3, <2>1 DEF u, more

\* The bars of a series are the newest of those its fills had, and tell of all of
\* theirs: one more fill, however late, keeps it so.
Tells(series, fills, i) ==
    /\ IsFiniteSet(series) /\ Distinct(series)
    /\ Times(series) = Newest(FloorsOf(fills, i), MaxBars)
    /\ \A bar \in series : TellsAll(bar, At(fills, i, bar.time))

LEMMA SeriesTells ==
  ASSUME NEW i \in Intervals, NEW f \in Fill, NEW fills \in SUBSET Fill, IsFiniteSet(fills),
         f \notin fills, NEW series \in SUBSET Bar, Tells(series, fills, i)
  PROVE  /\ WithFill(series, i, f) \in SUBSET Bar
         /\ Tells(WithFill(series, i, f), fills \cup {f}, i)
<1> DEFINE t == Floor(f.time, i)
           same == {b \in series : b.time = t}
           more == fills \cup {f}
           ts == FloorsOf(fills, i)
           result == WithFill(series, i, f)
<1>0. MaxBars \in Nat /\ t \in Nat
  BY FloorTyped, LedgerAssumption
<1>1. FloorsOf(more, i) = ts \cup {t}
  BY DEF FloorsOf
<1>2. ts \in SUBSET Int /\ IsFiniteSet(ts)
  <2>1. ts \in SUBSET Nat
    BY FloorTyped DEF FloorsOf
  <2> DEFINE floor == [g \in fills |-> Floor(g.time, i)]
  <2>2. floor \in Surjection(fills, ts)
    <3>1. floor \in [fills -> ts] /\ \A u \in ts : \E g \in fills : floor[g] = u
      BY DEF FloorsOf
    <3> HIDE DEF floor, ts
    <3> QED
      BY <3>1 DEF Surjection
  <2>3. IsFiniteSet(ts)
    BY <2>2, FS_Surjection
  <2> QED
    BY <2>1, <2>3
<1>3. /\ IsFiniteSet(series) /\ Distinct(series) /\ Times(series) = Newest(ts, MaxBars)
      /\ \A bar \in series : TellsAll(bar, At(fills, i, bar.time))
  BY DEF Tells
<1>4. PICK bar \in Bar : /\ bar.time = t
                         /\ result = Retained((series \ same) \cup {bar})
                         /\ same = {} => bar = NewBar(t, f)
                         /\ \A old \in same : same = {old} /\ bar = BarUpdated(old, f)
  <2>1. CASE same = {}
    <3>1. result = Retained((series \ same) \cup {NewBar(t, f)})
      BY <2>1 DEF WithFill
    <3> QED
      BY <1>0, <2>1, <3>1, FirstTold
  <2>2. ASSUME NEW old \in same
        PROVE  \E bar \in Bar : /\ bar.time = t
                                /\ result = Retained((series \ same) \cup {bar})
                                /\ \A o \in same : same = {o} /\ bar = BarUpdated(o, f)
    <3>1. same = {old}
      BY <1>3 DEF Distinct
    <3>2. result = Retained((series \ same) \cup {BarUpdated(old, f)})
      BY <3>1 DEF WithFill
    <3>3. BarUpdated(old, f) \in Bar /\ BarUpdated(old, f).time = old.time
      <4>1. old \in Bar
        OBVIOUS
      <4> QED
        BY <4>1, UpdatedBar
    <3> QED
      BY <3>1, <3>2, <3>3
  <2> QED
    BY <2>1, <2>2
<1> DEFINE added == (series \ same) \cup {bar}
<1>5. /\ added \in SUBSET Bar /\ IsFiniteSet(added) /\ Distinct(added)
      /\ Times(added) = Times(series) \cup {t}
  <2>1. IsFiniteSet(series \ same) /\ series \ same \in SUBSET Bar
    BY <1>3, FS_Subset
  <2>2. IsFiniteSet(added)
    BY <2>1, FS_AddElement
  <2>3. Distinct(added)
    BY <1>3, <1>4 DEF Distinct
  <2>4. Times(added) = Times(series) \cup {t}
    BY <1>4 DEF Times
  <2> QED
    BY <2>1, <2>2, <2>3, <2>4
<1>6. result = {b \in added : Cardinality({c \in added : c.time > b.time}) < MaxBars}
  BY <1>4 DEF Retained
<1>7. Times(result) = Newest(ts \cup {t}, MaxBars)
  <2> HIDE DEF added, result, t, ts
  <2>1. Times(result) = Newest(Times(added), MaxBars)
    BY <1>5, <1>6, NewestBars
  <2>2. Newest(ts \cup {t}, MaxBars) = Newest(Newest(ts, MaxBars) \cup {t}, MaxBars)
    BY <1>0, <1>2, NewestOfMore
  <2> QED
    BY <1>3, <1>5, <2>1, <2>2
<1>8. result \in SUBSET added /\ result \in SUBSET Bar /\ IsFiniteSet(result) /\ Distinct(result)
  <2>1. result \in SUBSET added
    BY <1>6
  <2> HIDE DEF added, result
  <2> QED
    BY <1>5, <2>1, FS_Subset DEF Distinct
<1>9. ASSUME NEW b \in result
      PROVE  TellsAll(b, At(more, i, b.time))
  <2>1. CASE b # bar
    <3>1. b \in series /\ b.time # t
      BY <1>8, <2>1
    <3>2. At(more, i, b.time) = At(fills, i, b.time)
      BY <3>1 DEF At
    <3> QED
      BY <1>3, <3>1, <3>2
  <2>2. CASE b = bar /\ same = {}
    <3>1. t \in Times(result) /\ t \notin Times(series)
      BY <1>4, <2>2 DEF Times
    <3>2. t \notin ts
      <4>1. t \in ts => ts \cup {t} = ts
        OBVIOUS
      <4> QED
        BY <1>3, <1>7, <3>1, <4>1
    <3>3. At(more, i, t) = {f}
      BY <3>2 DEF At, FloorsOf
    <3> QED
      BY <1>0, <1>4, <2>2, <3>3, FirstTold
  <2>3. CASE b = bar /\ same # {}
    <3>1. PICK old \in series : old.time = t /\ bar = BarUpdated(old, f)
      BY <1>4, <2>3
    <3>2. /\ At(more, i, t) = At(fills, i, t) \cup {f} /\ f \notin At(fills, i, t)
          /\ At(fills, i, t) \in SUBSET fills
      BY DEF At
    <3>3. IsFiniteSet(At(fills, i, t)) /\ TellsAll(old, At(fills, i, t))
          /\ At(fills, i, t) \in SUBSET Fill
      BY <1>3, <3>1, <3>2, FS_Subset
    <3>4. TellsAll(bar, At(fills, i, t) \cup {f})
      BY <3>1, <3>2, <3>3, OneMoreTold
    <3> QED
      BY <1>4, <2>3, <3>2, <3>4
  <2> QED
    BY <2>1, <2>2, <2>3
<1> QED
  <2> HIDE DEF result, added, more, ts, t
  <2>1. Tells(result, more, i)
    BY <1>1, <1>3, <1>7, <1>8, <1>9 DEF Tells
  <2> QED
    BY <1>8, <2>1 DEF result, more

-----------------------------------------------------------------------------
(***************************************************************************)
(* The inductive invariant.  Fills are apart, which is what makes each     *)
(* store take each of them once; what a position has is compared with the  *)
(* fills it has been given, those included that are on their way to the    *)
(* executions; and the bars of a book are compared with the fills whose    *)
(* requests have written to them.                                          *)
(***************************************************************************)
Job == [pc : {"none", "position", "last", "bars", "execution"},
        fills : Seq(Fill), intervals : SUBSET Intervals]

\* What has a fill in its hands, at one of some steps of recording it.
Handing(labels) == {Current(r) : r \in {q \in Requests : recorder[q].pc \in labels}}

Typed ==
    /\ clock \in 0 .. MaxTime
    /\ matched \in SUBSET Fill /\ IsFiniteSet(matched)
    /\ recorder \in [Requests -> Job]
    /\ positions \in [Books -> Position]
    /\ executions \in SUBSET matched
    /\ slack \in [Books -> Nat]
    /\ lastTrades \in [Books -> Fill \cup {NoTrade}]
    /\ bars \in [Books -> [Intervals -> SUBSET Bar]]

\* A request holds fills while it records, and intervals while it writes bars.
Jobs ==
    \A r \in Requests :
        /\ recorder[r].pc = "none" => recorder[r] = Waiting
        /\ recorder[r].pc # "none" => recorder[r].fills # <<>>
        /\ recorder[r].pc # "bars" => recorder[r].intervals = {}

\* The ids of fills are their own, and the next is free.
Numbered == \A f \in matched : f.id \in 1 .. Cardinality(matched)

\* Fills yet to record are no execution; no two requests have the same, nor one twice.
Apart ==
    \A r \in Requests : \A i \in DOMAIN recorder[r].fills :
        /\ recorder[r].fills[i] \in matched \ executions
        /\ \A q \in Requests : \A j \in DOMAIN recorder[q].fills :
             recorder[r].fills[i] = recorder[q].fills[j] => r = q /\ i = j

\* Positions are those of the fills they were given.
Balanced ==
    \A b \in Books :
        /\ ~positions[b].open => positions[b] = NoPosition
        /\ positions[b].quantity = Held(Booked(b))
        /\ Abs(Worth(positions[b]) - Cash(Booked(b))) <= slack[b]

\* A last trade is an execution, or about to be one.
Traded ==
    \A b \in Books : lastTrades[b] # NoTrade =>
        /\ lastTrades[b].book = b
        /\ lastTrades[b] \in executions \cup Handing({"bars", "execution"})

\* The bars of a series tell of the fills whose requests have written to it.
Barred == \A b \in Books, i \in Intervals : Tells(bars[b][i], Charted(b, i), i)

IInv == Typed /\ Jobs /\ Numbered /\ Apart /\ Balanced /\ Traded /\ Barred

-----------------------------------------------------------------------------
(***************************************************************************)
(* What moving one request on does to what is booked and charted.          *)
(***************************************************************************)
Booking == {"last", "bars", "execution"}
Charting == {"bars", "execution"}

\* What others have in their hands stays there, and is none of what r has.
LEMMA HandingMoves ==
  ASSUME NEW r \in Requests, NEW job,
         \A q \in Requests : recorder'[q] = IF q = r THEN job ELSE recorder[q],
         NEW labels
  PROVE  /\ recorder[r].pc \notin labels /\ job.pc \notin labels => Handing(labels)' = Handing(labels)
         /\ recorder[r].pc \in labels /\ job.pc \in labels /\ Head(job.fills) = Current(r) =>
              Handing(labels)' = Handing(labels)
         /\ recorder[r].pc \notin labels /\ job.pc \in labels =>
              Handing(labels)' = Handing(labels) \cup {Head(job.fills)}
         /\ recorder[r].pc \in labels /\ job.pc \notin labels =>
              Handing(labels) = Handing(labels)' \cup {Current(r)}
<1> DEFINE others == {Current(q) : q \in {p \in Requests \ {r} : recorder[p].pc \in labels}}
<1>1. Handing(labels) = others \cup (IF recorder[r].pc \in labels THEN {Current(r)} ELSE {})
  BY DEF Handing
<1>2. Handing(labels)' = {Head(recorder'[q].fills) : q \in {p \in Requests : recorder'[p].pc \in labels}}
  BY DEF Handing, Current
<1>3. others = {Head(recorder[q].fills) : q \in {p \in Requests \ {r} : recorder[p].pc \in labels}}
  BY DEF Current
<1>4. Handing(labels)' = others \cup (IF job.pc \in labels THEN {Head(job.fills)} ELSE {})
  <2> HIDE DEF others
  <2> QED
    BY <1>2, <1>3
<1> QED
  <2> HIDE DEF others
  <2> QED
    BY <1>1, <1>4

LEMMA BookedIs ==
  ASSUME NEW b
  PROVE  /\ Booked(b) = {f \in executions \cup Handing(Booking) : f.book = b}
         /\ Booked(b)' = {f \in executions' \cup Handing(Booking)' : f.book = b}
BY DEF Booked, Handing, Booking

\* Those that have written their bar of an interval.
Written(i) == {Current(r) : r \in {q \in Requests : /\ recorder[q].pc \in Charting
                                                    /\ i \notin recorder[q].intervals}}

LEMMA WrittenMoves ==
  ASSUME NEW r \in Requests, NEW job,
         \A q \in Requests : recorder'[q] = IF q = r THEN job ELSE recorder[q],
         NEW i
  PROVE  LET before == recorder[r].pc \in Charting /\ i \notin recorder[r].intervals
             after == job.pc \in Charting /\ i \notin job.intervals
         IN  /\ ~before /\ ~after => Written(i)' = Written(i)
             /\ before /\ after /\ Head(job.fills) = Current(r) => Written(i)' = Written(i)
             /\ ~before /\ after => Written(i)' = Written(i) \cup {Head(job.fills)}
             /\ before /\ ~after => Written(i) = Written(i)' \cup {Current(r)}
<1> DEFINE before == recorder[r].pc \in Charting /\ i \notin recorder[r].intervals
           after == job.pc \in Charting /\ i \notin job.intervals
           others == {Current(q) : q \in {p \in Requests \ {r} : /\ recorder[p].pc \in Charting
                                                                 /\ i \notin recorder[p].intervals}}
<1>1. Written(i) = others \cup (IF before THEN {Current(r)} ELSE {})
  BY DEF Written
<1>2. Written(i)' = {Head(recorder'[q].fills) : q \in {p \in Requests : /\ recorder'[p].pc \in Charting
                                                                        /\ i \notin recorder'[p].intervals}}
  BY DEF Written, Current
<1>3. others = {Head(recorder[q].fills) : q \in {p \in Requests \ {r} : /\ recorder[p].pc \in Charting
                                                                        /\ i \notin recorder[p].intervals}}
  BY DEF Current
<1>4. Written(i)' = others \cup (IF after THEN {Head(job.fills)} ELSE {})
  <2> HIDE DEF others
  <2> QED
    BY <1>2, <1>3
<1> QED
  <2> HIDE DEF others, before, after
  <2>1. /\ ~before /\ ~after => Written(i)' = Written(i)
        /\ before /\ after /\ Head(job.fills) = Current(r) => Written(i)' = Written(i)
        /\ ~before /\ after => Written(i)' = Written(i) \cup {Head(job.fills)}
        /\ before /\ ~after => Written(i) = Written(i)' \cup {Current(r)}
    BY <1>1, <1>4
  <2> QED
    BY <2>1 DEF before, after

LEMMA ChartedIs ==
  ASSUME NEW b, NEW i
  PROVE  /\ Charted(b, i) = {f \in executions \cup Written(i) : f.book = b}
         /\ Charted(b, i)' = {f \in executions' \cup Written(i)' : f.book = b}
BY DEF Charted, Written, Charting

\* What a request has in its hands is a fill of its own.
LEMMA CurrentApart ==
  ASSUME Typed, Jobs, Apart, NEW r \in Requests, recorder[r].pc # "none"
  PROVE  /\ Current(r) \in Fill /\ Current(r) \in matched \ executions
         /\ recorder[r].fills \in Seq(Fill) /\ 1 \in DOMAIN recorder[r].fills
         /\ Current(r) = recorder[r].fills[1]
         /\ \A q \in Requests \ {r} : recorder[q].pc # "none" => Current(q) # Current(r)
<1>1. \A q \in Requests : /\ recorder[q].fills \in Seq(Fill)
                          /\ recorder[q].pc # "none" => recorder[q].fills # <<>>
  BY DEF Typed, Jobs, Job
<1>2. \A q \in Requests : recorder[q].pc # "none" =>
        1 \in DOMAIN recorder[q].fills /\ Current(q) = recorder[q].fills[1]
  BY <1>1 DEF Current
<1>3. Current(r) \in matched \ executions
  BY <1>2 DEF Apart
<1>4. Current(r) \in Fill
  BY <1>3 DEF Typed
<1>5. \A q \in Requests \ {r} : recorder[q].pc # "none" => Current(q) # Current(r)
  BY <1>2 DEF Apart
<1> QED
  BY <1>1, <1>2, <1>3, <1>4, <1>5

\* What is booked and charted are fills, and finitely many.
LEMMA BookedFinite ==
  ASSUME Typed, Jobs, Apart, NEW b
  PROVE  /\ Booked(b) \in SUBSET Fill /\ IsFiniteSet(Booked(b))
         /\ \A i : Charted(b, i) \in SUBSET Fill /\ IsFiniteSet(Charted(b, i))
<1>1. \A labels : "none" \notin labels => Handing(labels) \in SUBSET matched
  BY CurrentApart DEF Handing
<1>2. \A i : Written(i) \in SUBSET matched
  BY CurrentApart DEF Written, Charting
<1>3. Booked(b) \in SUBSET matched
  BY <1>1, BookedIs DEF Booking, Typed
<1>4. \A i : Charted(b, i) \in SUBSET matched
  BY <1>2, ChartedIs DEF Typed
<1> QED
  BY <1>3, <1>4, FS_Subset DEF Typed

\* A request that moves on keeps its fills, or loses the first, which may become
\* an execution.
Moves(r, job, k) ==
    /\ recorder' = [recorder EXCEPT ![r] = job] /\ UNCHANGED matched
    /\ job.pc = "none" => job = Waiting
    /\ job.pc # "none" => job.fills # <<>>
    /\ job.pc # "bars" => job.intervals = {}
    /\ \A i \in DOMAIN job.fills : /\ i + k \in DOMAIN recorder[r].fills
                                   /\ job.fills[i] = recorder[r].fills[i + k]
    /\ executions \subseteq executions'
    /\ \A f \in executions' \ executions : k = 1 /\ f = Current(r)

LEMMA MovingOn ==
  ASSUME Typed, Jobs, Numbered, Apart, NEW r \in Requests, recorder[r].pc # "none",
         NEW job \in Job, NEW k \in {0, 1}, Moves(r, job, k)
  PROVE  /\ \A q \in Requests : recorder'[q] = IF q = r THEN job ELSE recorder[q]
         /\ recorder' \in [Requests -> Job] /\ executions' \in SUBSET matched'
         /\ Jobs' /\ Numbered' /\ Apart'
<1>1. \A q \in Requests : recorder'[q] = IF q = r THEN job ELSE recorder[q]
  BY DEF Typed, Moves
<1>2. recorder' \in [Requests -> Job]
  BY DEF Typed, Moves
<1>3. executions' \in SUBSET matched'
  BY CurrentApart DEF Typed, Moves
<1>4. Jobs'
  BY <1>1 DEF Jobs, Moves
<1>5. Numbered'
  BY DEF Numbered, Moves
<1>6. Apart'
  <2>1. \A i \in DOMAIN job.fills : i \in Nat \ {0}
    BY DEF Job
  <2>2. ASSUME NEW q \in Requests, NEW i \in DOMAIN recorder'[q].fills
        PROVE  /\ recorder'[q].fills[i] \in matched' \ executions'
               /\ \E j \in DOMAIN recorder[q].fills :
                    /\ recorder'[q].fills[i] = recorder[q].fills[j]
                    /\ j = IF q = r THEN i + k ELSE i
    <3>1. CASE q = r
      <4>1. i \in DOMAIN job.fills /\ recorder'[q].fills[i] = job.fills[i]
        BY <1>1, <2>2, <3>1
      <4>2. /\ i + k \in DOMAIN recorder[r].fills
            /\ job.fills[i] = recorder[r].fills[i + k]
        BY <4>1 DEF Moves
      <4>3. job.fills[i] \in matched \ executions
        BY <4>2 DEF Apart
      <4>4. k = 1 => job.fills[i] # Current(r)
        <5>1. k = 1 => i + k # 1
          BY <2>1, <4>1
        <5> QED
          BY <4>2, <5>1, CurrentApart DEF Apart
      <4> QED
        BY <3>1, <4>1, <4>2, <4>3, <4>4 DEF Moves
    <3>2. CASE q # r
      <4>1. i \in DOMAIN recorder[q].fills /\ recorder'[q].fills[i] = recorder[q].fills[i]
        BY <1>1, <2>2, <3>2
      <4>2. recorder[q].fills[i] \in matched \ executions /\ recorder[q].fills[i] # Current(r)
        BY <3>2, <4>1, CurrentApart DEF Apart
      <4> QED
        BY <3>2, <4>1, <4>2 DEF Moves
    <3> QED
      BY <3>1, <3>2
  <2>3. ASSUME NEW q \in Requests, NEW i \in DOMAIN recorder'[q].fills,
               NEW p \in Requests, NEW j \in DOMAIN recorder'[p].fills,
               recorder'[q].fills[i] = recorder'[p].fills[j]
        PROVE  q = p /\ i = j
    <3>1. PICK m \in DOMAIN recorder[q].fills :
            recorder'[q].fills[i] = recorder[q].fills[m] /\ m = IF q = r THEN i + k ELSE i
      BY <2>2
    <3>2. PICK n \in DOMAIN recorder[p].fills :
            recorder'[p].fills[j] = recorder[p].fills[n] /\ n = IF p = r THEN j + k ELSE j
      BY <2>2
    <3>3. q = p /\ m = n
      <4>1. recorder[q].fills[m] = recorder[p].fills[n]
        BY <2>3, <3>1, <3>2
      <4> QED
        BY <3>1, <3>2, <4>1 DEF Apart
    <3>4. CASE q = r
      <4>1. i \in Nat /\ j \in Nat
        BY <1>1, <2>1, <2>3, <3>3, <3>4
      <4> QED
        BY <3>1, <3>2, <3>3, <3>4, <4>1
    <3>5. CASE q # r
      BY <3>1, <3>2, <3>3, <3>5
    <3> QED
      BY <3>4, <3>5
  <2> QED
    BY <2>2, <2>3 DEF Apart
<1> QED
  BY <1>1, <1>2, <1>3, <1>4, <1>5, <1>6

-----------------------------------------------------------------------------
(***************************************************************************)
(* Every step keeps the invariant.                                         *)
(***************************************************************************)
LEMMA BalancedKept ==
  ASSUME Balanced, UNCHANGED <<positions, slack>>, \A b \in Books : Booked(b)' = Booked(b)
  PROVE  Balanced'
<1> SUFFICES ASSUME NEW b \in Books
             PROVE  /\ ~positions'[b].open => positions'[b] = NoPosition
                    /\ positions'[b].quantity = Held(Booked(b)')
                    /\ Abs(Worth(positions'[b]) - Cash(Booked(b)')) <= slack'[b]
  BY DEF Balanced
<1>1. Booked(b)' = Booked(b) /\ positions' = positions /\ slack' = slack
  OBVIOUS
<1>2. /\ ~positions[b].open => positions[b] = NoPosition
      /\ positions[b].quantity = Held(Booked(b))
      /\ Abs(Worth(positions[b]) - Cash(Booked(b))) <= slack[b]
  BY DEF Balanced
<1> QED
  BY <1>1, <1>2

LEMMA BarredKept ==
  ASSUME Barred, UNCHANGED bars,
         \A b \in Books, i \in Intervals : Charted(b, i)' = Charted(b, i)
  PROVE  Barred'
<1> SUFFICES ASSUME NEW b \in Books, NEW i \in Intervals
             PROVE  Tells(bars'[b][i], Charted(b, i)', i)
  BY DEF Barred
<1>1. Charted(b, i)' = Charted(b, i) /\ bars' = bars
  OBVIOUS
<1> QED
  BY <1>1 DEF Barred

LEMMA TradedKept ==
  ASSUME Traded, UNCHANGED lastTrades,
         executions \cup Handing(Charting) \subseteq executions' \cup Handing(Charting)'
  PROVE  Traded'
<1> SUFFICES ASSUME NEW b \in Books, lastTrades'[b] # NoTrade
             PROVE  /\ lastTrades'[b].book = b
                    /\ lastTrades'[b] \in executions' \cup Handing(Charting)'
  BY DEF Traded, Charting
<1> QED
  BY DEF Traded, Charting

\* The fills a request goes on to.
NextJob(r) ==
    IF Len(recorder[r].fills) = 1 THEN Waiting
    ELSE [recorder[r] EXCEPT !.pc = "position", !.fills = Tail(recorder[r].fills)]

LEMMA NextJobTyped ==
  ASSUME Typed, Jobs, NEW r \in Requests, recorder[r].pc \notin {"none", "bars"}, NextFill(r)
  PROVE  /\ NextJob(r) \in Job /\ NextJob(r).pc \in {"none", "position"}
         /\ recorder' = [recorder EXCEPT ![r] = NextJob(r)]
         /\ NextJob(r).pc = "none" => NextJob(r) = Waiting
         /\ NextJob(r).pc # "none" => NextJob(r).fills # <<>>
         /\ NextJob(r).intervals = {}
         /\ \A i \in DOMAIN NextJob(r).fills : /\ i + 1 \in DOMAIN recorder[r].fills
                                               /\ NextJob(r).fills[i] = recorder[r].fills[i + 1]
<1>1. PICK s \in Seq(Fill) : s = recorder[r].fills /\ s # <<>>
  BY DEF Typed, Jobs, Job
<1>2. recorder[r] \in Job /\ recorder[r].intervals = {}
  BY DEF Typed, Jobs
<1>3. recorder' = [recorder EXCEPT ![r] = NextJob(r)]
  BY DEF NextFill, NextJob
<1>4. CASE Len(s) = 1
  <2>1. NextJob(r) = Waiting
    BY <1>1, <1>4 DEF NextJob
  <2>2. Waiting \in Job
    BY DEF Waiting, Job
  <2> QED
    BY <1>3, <2>1, <2>2 DEF Waiting
<1>5. CASE Len(s) # 1
  <2>0. Len(s) \in Nat /\ Len(s) # 0
    BY <1>1
  <2>1. Len(s) > 1 /\ Tail(s) \in Seq(Fill) /\ Len(Tail(s)) = Len(s) - 1 /\ Tail(s) # <<>>
    <3>1. Len(s) > 1
      BY <1>5, <2>0
    <3>2. Tail(s) \in Seq(Fill) /\ Len(Tail(s)) = Len(s) - 1
      BY <1>1
    <3>3. Len(Tail(s)) # 0 /\ Len(<<>>) = 0
      BY <2>0, <3>1, <3>2
    <3> QED
      BY <3>1, <3>2, <3>3
  <2>2. \A i \in DOMAIN Tail(s) : i + 1 \in DOMAIN s /\ Tail(s)[i] = s[i + 1]
    BY <1>1, <2>1
  <2>3. NextJob(r) = [recorder[r] EXCEPT !.pc = "position", !.fills = Tail(s)]
    BY <1>1, <1>5 DEF NextJob
  <2>4. /\ NextJob(r) \in Job /\ NextJob(r).pc = "position" /\ NextJob(r).fills = Tail(s)
        /\ NextJob(r).intervals = {}
    BY <1>2, <2>1, <2>3 DEF Job
  <2> QED
    BY <1>1, <1>3, <2>1, <2>2, <2>4
<1> QED
  BY <1>4, <1>5

LEMMA SkipKeeps ==
  ASSUME IInv, NEW r \in Requests, SkipFill(r)
  PROVE  IInv'
<1> DEFINE job == NextJob(r)
<1> USE DEF IInv
<1>1. /\ recorder[r].pc = "position" /\ NextFill(r)
      /\ UNCHANGED <<clock, matched, positions, lastTrades, bars, executions, slack>>
  BY DEF SkipFill
<1>2. Moves(r, job, 1) /\ job \in Job /\ job.pc \in {"none", "position"}
  BY <1>1, NextJobTyped DEF Moves
<1> HIDE DEF job
<1>3. /\ \A q \in Requests : recorder'[q] = IF q = r THEN job ELSE recorder[q]
      /\ recorder' \in [Requests -> Job] /\ executions' \in SUBSET matched'
      /\ Jobs' /\ Numbered' /\ Apart'
  BY <1>1, <1>2, MovingOn
<1>4. Handing(Booking)' = Handing(Booking) /\ Handing(Charting)' = Handing(Charting)
  <2>1. \A labels \in {Booking, Charting} : recorder[r].pc \notin labels /\ job.pc \notin labels
    BY <1>1, <1>2 DEF Booking, Charting
  <2> QED
    BY <1>3, <2>1, HandingMoves
<1>5. \A i : Written(i)' = Written(i)
  <2>1. recorder[r].pc \notin Charting /\ job.pc \notin Charting
    BY <1>1, <1>2 DEF Charting
  <2> QED
    BY <1>3, <2>1, WrittenMoves
<1>6. Typed'
  BY <1>1, <1>3 DEF Typed
<1>7. Balanced'
  BY <1>1, <1>4, BookedIs, BalancedKept
<1>8. Traded'
  BY <1>1, <1>4, TradedKept
<1>9. Barred'
  BY <1>1, <1>5, ChartedIs, BarredKept
<1> QED
  BY <1>3, <1>6, <1>7, <1>8, <1>9

LEMMA LastTradeKeeps ==
  ASSUME IInv, NEW r \in Requests, RecordLastTrade(r)
  PROVE  IInv'
<1> USE DEF IInv
<1>1. /\ recorder[r].pc = "last"
      /\ lastTrades' = [lastTrades EXCEPT ![Current(r).book] = Current(r)]
      /\ recorder' = [recorder EXCEPT ![r].pc = "bars", ![r].intervals = Intervals]
      /\ UNCHANGED <<clock, matched, positions, bars, executions, slack>>
  BY DEF RecordLastTrade
<1>2. PICK job : job = [recorder[r] EXCEPT !.pc = "bars", !.intervals = Intervals]
  OBVIOUS
<1>3. /\ job \in Job /\ job.pc = "bars" /\ job.intervals = Intervals
      /\ job.fills = recorder[r].fills
      /\ recorder' = [recorder EXCEPT ![r] = job]
  BY <1>1, <1>2 DEF Typed, Job
<1>4. Moves(r, job, 0)
  <2>1. /\ recorder[r].fills \in Seq(Fill) /\ recorder[r].fills # <<>>
    BY <1>1 DEF Typed, Jobs, Job
  <2>2. \A i \in DOMAIN recorder[r].fills : i + 0 = i
    BY <2>1
  <2> QED
    BY <1>1, <1>3, <2>1, <2>2 DEF Moves
<1>5. /\ \A q \in Requests : recorder'[q] = IF q = r THEN job ELSE recorder[q]
      /\ recorder' \in [Requests -> Job] /\ executions' \in SUBSET matched'
      /\ Jobs' /\ Numbered' /\ Apart'
  BY <1>1, <1>3, <1>4, MovingOn
<1>6. Head(job.fills) = Current(r) /\ Current(r) \in Fill
  BY <1>1, <1>3, CurrentApart DEF Current
<1>7. Handing(Booking)' = Handing(Booking) /\ Handing(Charting)' = Handing(Charting) \cup {Current(r)}
  <2>1. /\ recorder[r].pc \in Booking /\ job.pc \in Booking
        /\ recorder[r].pc \notin Charting /\ job.pc \in Charting
    BY <1>1, <1>3 DEF Booking, Charting
  <2>2. Handing(Booking)' = Handing(Booking)
    BY <1>5, <1>6, <2>1, HandingMoves
  <2>3. Handing(Charting)' = Handing(Charting) \cup {Current(r)}
    BY <1>5, <1>6, <2>1, HandingMoves
  <2> QED
    BY <2>2, <2>3
<1>8. \A i \in Intervals : Written(i)' = Written(i)
  <2>1. recorder[r].pc \notin Charting
    BY <1>1 DEF Charting
  <2> QED
    BY <1>3, <1>5, <2>1, WrittenMoves
<1>9. Typed'
  <2>1. lastTrades' \in [Books -> Fill \cup {NoTrade}]
    BY <1>1, <1>6 DEF Typed
  <2> QED
    BY <1>1, <1>5, <2>1 DEF Typed
<1>10. Balanced'
  BY <1>1, <1>7, BookedIs, BalancedKept
<1>11. Traded'
  <2> SUFFICES ASSUME NEW b \in Books, lastTrades'[b] # NoTrade
               PROVE  /\ lastTrades'[b].book = b
                      /\ lastTrades'[b] \in executions' \cup Handing(Charting)'
    BY DEF Traded, Charting
  <2>1. CASE b = Current(r).book
    <3>1. lastTrades'[b] = Current(r)
      BY <1>1, <2>1 DEF Typed
    <3> QED
      BY <1>7, <2>1, <3>1
  <2>2. CASE b # Current(r).book
    <3>1. lastTrades'[b] = lastTrades[b]
      BY <1>1, <2>2 DEF Typed
    <3> QED
      BY <1>1, <1>7, <3>1 DEF Traded, Charting
  <2> QED
    BY <2>1, <2>2
<1>12. Barred'
  BY <1>1, <1>8, ChartedIs, BarredKept
<1> QED
  BY <1>5, <1>9, <1>10, <1>11, <1>12

LEMMA ExecutionKeeps ==
  ASSUME IInv, NEW r \in Requests, RecordExecution(r)
  PROVE  IInv'
<1> DEFINE job == NextJob(r)
<1> USE DEF IInv
<1>1. /\ recorder[r].pc = "execution" /\ NextFill(r)
      /\ executions' = executions \cup {Current(r)}
      /\ UNCHANGED <<clock, matched, positions, lastTrades, bars, slack>>
  BY DEF RecordExecution
<1>2. Moves(r, job, 1) /\ job \in Job /\ job.pc \in {"none", "position"}
  BY <1>1, NextJobTyped DEF Moves
<1> HIDE DEF job
<1>3. /\ \A q \in Requests : recorder'[q] = IF q = r THEN job ELSE recorder[q]
      /\ recorder' \in [Requests -> Job] /\ executions' \in SUBSET matched'
      /\ Jobs' /\ Numbered' /\ Apart'
  BY <1>1, <1>2, MovingOn
<1>4. \A labels \in {Booking, Charting} :
        executions' \cup Handing(labels)' = executions \cup Handing(labels)
  <2>1. \A labels \in {Booking, Charting} : recorder[r].pc \in labels /\ job.pc \notin labels
    BY <1>1, <1>2 DEF Booking, Charting
  <2>2. \A labels \in {Booking, Charting} : Handing(labels) = Handing(labels)' \cup {Current(r)}
    BY <1>3, <2>1, HandingMoves
  <2> QED
    BY <1>1, <2>2
<1>5. \A i : executions' \cup Written(i)' = executions \cup Written(i)
  <2>1. recorder[r].intervals = {}
    BY <1>1 DEF Jobs
  <2> QED
    <3>1. recorder[r].pc \in Charting /\ job.pc \notin Charting
      BY <1>1, <1>2 DEF Charting
    <3>2. \A i : Written(i) = Written(i)' \cup {Current(r)}
      BY <1>3, <2>1, <3>1, WrittenMoves
    <3> QED
      BY <1>1, <3>2
<1>6. Typed'
  BY <1>1, <1>3 DEF Typed
<1>7. Balanced'
  BY <1>1, <1>4, BookedIs, BalancedKept
<1>8. Traded'
  BY <1>1, <1>4, TradedKept
<1>9. Barred'
  BY <1>1, <1>5, ChartedIs, BarredKept
<1> QED
  BY <1>3, <1>6, <1>7, <1>8, <1>9

LEMMA PositionKeeps ==
  ASSUME IInv, NEW r \in Requests, RecordPosition(r)
  PROVE  IInv'
<1> USE DEF IInv
<1>1. PICK f : f = Current(r)
  OBVIOUS
<1>2. /\ recorder[r].pc = "position"
      /\ positions' = [positions EXCEPT ![f.book] = Update(positions[f.book], Signed(f), f.price)]
      /\ slack' = [slack EXCEPT ![f.book] =
                     IF SameSide(positions[f.book].quantity, Signed(f))
                     THEN slack[f.book] + Abs(positions[f.book].quantity) + f.quantity - 1
                     ELSE slack[f.book]]
      /\ recorder' = [recorder EXCEPT ![r].pc = "last"]
      /\ UNCHANGED <<clock, matched, lastTrades, bars, executions>>
  BY <1>1 DEF RecordPosition, Goto
<1>3. PICK job : job = [recorder[r] EXCEPT !.pc = "last"]
  OBVIOUS
<1>4. /\ job \in Job /\ job.pc = "last" /\ job.intervals = {}
      /\ job.fills = recorder[r].fills
      /\ recorder' = [recorder EXCEPT ![r] = job]
  BY <1>2, <1>3 DEF Typed, Job, Jobs
<1>5. Moves(r, job, 0)
  <2>1. /\ recorder[r].fills \in Seq(Fill) /\ recorder[r].fills # <<>>
    BY <1>2 DEF Typed, Jobs, Job
  <2>2. \A i \in DOMAIN recorder[r].fills : i + 0 = i
    BY <2>1
  <2> QED
    BY <1>2, <1>4, <2>1, <2>2 DEF Moves
<1>6. /\ \A q \in Requests : recorder'[q] = IF q = r THEN job ELSE recorder[q]
      /\ recorder' \in [Requests -> Job] /\ executions' \in SUBSET matched'
      /\ Jobs' /\ Numbered' /\ Apart'
  BY <1>2, <1>4, <1>5, MovingOn
<1>7. /\ Head(job.fills) = f /\ f \in Fill /\ f \in matched \ executions
      /\ \A q \in Requests \ {r} : recorder[q].pc # "none" => Current(q) # f
  BY <1>1, <1>2, <1>4, CurrentApart DEF Current
<1>8. Handing(Booking)' = Handing(Booking) \cup {f} /\ Handing(Charting)' = Handing(Charting)
  <2>1. /\ recorder[r].pc \notin Booking /\ job.pc \in Booking
        /\ recorder[r].pc \notin Charting /\ job.pc \notin Charting
    BY <1>2, <1>4 DEF Booking, Charting
  <2>2. Handing(Booking)' = Handing(Booking) \cup {f}
    BY <1>6, <1>7, <2>1, HandingMoves
  <2>3. Handing(Charting)' = Handing(Charting)
    BY <1>6, <2>1, HandingMoves
  <2> QED
    BY <2>2, <2>3
<1>9. f \notin Handing(Booking)
  BY <1>2, <1>7 DEF Handing, Booking
<1>10. \A i : Written(i)' = Written(i)
  <2>1. recorder[r].pc \notin Charting /\ job.pc \notin Charting
    BY <1>2, <1>4 DEF Charting
  <2> QED
    BY <1>6, <2>1, WrittenMoves
<1>11. PICK b \in Books : b = f.book
  BY <1>7 DEF Fill
<1>12. PICK p \in Position, q \in Int, price \in Nat :
         p = positions[b] /\ q = Signed(f) /\ price = f.price /\ q # 0 /\ Abs(q) = f.quantity
  BY <1>7, SignedTyped DEF Typed
<1>13. PICK u \in Position :
       /\ u = Update(p, q, price) /\ u.open /\ u.quantity = p.quantity + q
       /\ \E rounding \in Int :
            /\ Worth(u) = Worth(p) - price * q + rounding
            /\ Abs(rounding) <= IF SameSide(p.quantity, q) THEN Abs(p.quantity) + Abs(q) - 1 ELSE 0
  <2>1. ~p.open => p = NoPosition
    BY <1>12 DEF Balanced
  <2> QED
    BY <1>12, <2>1, UpdateWorth
<1>14. PICK s \in Nat : s = IF SameSide(p.quantity, q) THEN slack[b] + Abs(p.quantity) + Abs(q) - 1
                           ELSE slack[b]
  <2>1. slack[b] \in Nat /\ p.quantity \in Int /\ Abs(p.quantity) \in Nat /\ Abs(q) \in Nat \ {0}
    BY <1>12 DEF Typed, Position, Abs
  <2> QED
    BY <2>1
<1>15. positions' = [positions EXCEPT ![b] = u] /\ slack' = [slack EXCEPT ![b] = s]
  BY <1>2, <1>11, <1>12, <1>13, <1>14
<1>16. Typed'
  <2>1. positions' \in [Books -> Position] /\ slack' \in [Books -> Nat]
    BY <1>13, <1>15 DEF Typed
  <2> QED
    BY <1>2, <1>6, <2>1 DEF Typed
<1>17. Booked(b)' = Booked(b) \cup {f} /\ f \notin Booked(b)
  BY <1>2, <1>7, <1>8, <1>9, <1>11, BookedIs
<1>18. \A c \in Books : c # b => Booked(c)' = Booked(c)
  <2> SUFFICES ASSUME NEW c \in Books, c # b PROVE Booked(c)' = Booked(c)
    OBVIOUS
  <2>1. Booked(c)' = {g \in executions \cup (Handing(Booking) \cup {f}) : g.book = c}
    BY <1>2, <1>8, BookedIs
  <2>2. f.book # c
    BY <1>11
  <2> QED
    BY <2>1, <2>2, BookedIs
<1>19. Balanced'
  <2> SUFFICES ASSUME NEW c \in Books
               PROVE  /\ ~positions'[c].open => positions'[c] = NoPosition
                      /\ positions'[c].quantity = Held(Booked(c)')
                      /\ Abs(Worth(positions'[c]) - Cash(Booked(c)')) <= slack'[c]
    BY DEF Balanced
  <2>1. CASE c # b
    <3>1. positions'[c] = positions[c] /\ slack'[c] = slack[c] /\ Booked(c)' = Booked(c)
      BY <1>15, <1>18, <2>1 DEF Typed
    <3> QED
      BY <3>1 DEF Balanced
  <2>2. CASE c = b
    <3>1. positions'[b] = u /\ slack'[b] = s
      BY <1>15 DEF Typed
    <3>2. p.quantity = Held(Booked(b)) /\ Abs(Worth(p) - Cash(Booked(b))) <= slack[b]
      BY <1>12 DEF Balanced
    <3>3. Booked(b) \in SUBSET Fill /\ IsFiniteSet(Booked(b))
      BY BookedFinite
    <3>4. PICK cash \in Int : cash = Cash(Booked(b)) /\ Cash(Booked(b) \cup {f}) = cash - q * price
      BY <1>7, <1>12, <1>17, <3>3, FillsGrow
    <3>5. Held(Booked(b) \cup {f}) = q + Held(Booked(b))
      BY <1>7, <1>12, <1>17, <3>3, FillsGrow
    <3>6. u.quantity = Held(Booked(b)')
      <4>1. p.quantity \in Int
        BY DEF Position
      <4> QED
        BY <1>13, <1>17, <3>2, <3>5, <4>1
    <3>7. PICK rounding \in Int :
            /\ Worth(u) = Worth(p) - price * q + rounding
            /\ Abs(rounding) <= IF SameSide(p.quantity, q) THEN Abs(p.quantity) + Abs(q) - 1 ELSE 0
      BY <1>13
    <3>8. PICK w \in Int, wu \in Int : w = Worth(p) /\ wu = Worth(u)
      BY DEF Worth, Position
    <3>9. wu - (cash - q * price) = (w - cash) + rounding
      <4>1. price * q = q * price /\ q * price \in Int
        OBVIOUS
      <4> QED
        BY <3>7, <3>8, <4>1
    <3>10. Abs(wu - (cash - q * price)) <= s
      <4>1. \A i, j \in Int : Abs(i + j) <= Abs(i) + Abs(j) /\ Abs(i) \in Int
        BY DEF Abs
      <4>2. Abs((w - cash) + rounding) <= Abs(w - cash) + Abs(rounding)
        BY <4>1
      <4>3. Abs(w - cash) <= slack[b] /\ slack[b] \in Nat
        BY <3>2, <3>4, <3>8 DEF Typed
      <4>4. p.quantity \in Int /\ w - cash \in Int /\ (w - cash) + rounding \in Int
        BY DEF Position
      <4>5. Abs(p.quantity) \in Int /\ Abs(q) \in Int /\ Abs(rounding) \in Int /\ Abs(w - cash) \in Int
            /\ Abs((w - cash) + rounding) \in Int
        BY <4>1, <4>4
      <4> QED
        BY <1>14, <3>7, <3>9, <4>2, <4>3, <4>4, <4>5
    <3> QED
      BY <1>13, <1>17, <2>2, <3>1, <3>4, <3>6, <3>8, <3>10
  <2> QED
    BY <2>1, <2>2
<1>20. Traded'
  BY <1>2, <1>8, TradedKept
<1>21. Barred'
  BY <1>2, <1>10, ChartedIs, BarredKept
<1> QED
  BY <1>6, <1>16, <1>19, <1>20, <1>21

LEMMA BarKeeps ==
  ASSUME IInv, NEW r \in Requests, RecordBar(r)
  PROVE  IInv'
<1> USE DEF IInv
<1>1. PICK f : f = Current(r)
  OBVIOUS
<1>2. recorder[r].pc = "bars" /\ recorder[r].intervals \in SUBSET Intervals
  BY DEF RecordBar, Typed, Job
<1>3. PICK i \in recorder[r].intervals :
        /\ bars' = [bars EXCEPT ![f.book][i] = WithFill(bars[f.book][i], i, f)]
        /\ recorder' = [recorder EXCEPT
                          ![r].intervals = recorder[r].intervals \ {i},
                          ![r].pc = IF recorder[r].intervals = {i} THEN "execution"
                                    ELSE recorder[r].pc]
        /\ UNCHANGED <<clock, matched, positions, lastTrades, executions, slack>>
  BY <1>1 DEF RecordBar
<1>4. PICK job : job = [recorder[r] EXCEPT !.intervals = recorder[r].intervals \ {i},
                                           !.pc = IF recorder[r].intervals = {i} THEN "execution"
                                                  ELSE recorder[r].pc]
  OBVIOUS
<1>5. /\ job \in Job /\ job.pc \in Charting /\ job.intervals = recorder[r].intervals \ {i}
      /\ job.pc # "bars" => job.intervals = {}
      /\ job.fills = recorder[r].fills
      /\ recorder' = [recorder EXCEPT ![r] = job]
  BY <1>2, <1>3, <1>4 DEF Typed, Job, Charting
<1>6. Moves(r, job, 0)
  <2>1. /\ recorder[r].fills \in Seq(Fill) /\ recorder[r].fills # <<>>
    BY <1>2 DEF Typed, Jobs, Job
  <2>2. \A j \in DOMAIN recorder[r].fills : j + 0 = j
    BY <2>1
  <2> QED
    BY <1>3, <1>5, <2>1, <2>2 DEF Moves, Charting
<1>7. /\ \A q \in Requests : recorder'[q] = IF q = r THEN job ELSE recorder[q]
      /\ recorder' \in [Requests -> Job] /\ executions' \in SUBSET matched'
      /\ Jobs' /\ Numbered' /\ Apart'
  BY <1>2, <1>5, <1>6, MovingOn
<1>8. /\ Head(job.fills) = f /\ f \in Fill /\ f \in matched \ executions
      /\ \A q \in Requests \ {r} : recorder[q].pc # "none" => Current(q) # f
  BY <1>1, <1>2, <1>5, CurrentApart DEF Current
<1>9. Handing(Booking)' = Handing(Booking) /\ Handing(Charting)' = Handing(Charting)
  <2>1. \A labels \in {Booking, Charting} : recorder[r].pc \in labels /\ job.pc \in labels
    BY <1>2, <1>5 DEF Booking, Charting
  <2> QED
    BY <1>1, <1>7, <1>8, <2>1, HandingMoves
<1>10. \A j \in Intervals : Written(j)' = IF j = i THEN Written(j) \cup {f} ELSE Written(j)
  <2>1. /\ recorder[r].pc \in Charting /\ job.pc \in Charting
        /\ i \in recorder[r].intervals /\ i \notin job.intervals
        /\ \A j : j # i => (j \in job.intervals <=> j \in recorder[r].intervals)
    BY <1>2, <1>5 DEF Charting
  <2>2. Written(i)' = Written(i) \cup {f}
    BY <1>7, <1>8, <2>1, WrittenMoves
  <2>3. ASSUME NEW j \in Intervals, j # i PROVE Written(j)' = Written(j)
    <3>1. j \in job.intervals <=> j \in recorder[r].intervals
      BY <2>1, <2>3
    <3> QED
      BY <1>1, <1>7, <1>8, <2>1, <3>1, WrittenMoves
  <2> QED
    BY <2>2, <2>3
<1>11. f \notin Written(i)
  BY <1>2, <1>8 DEF Written, Charting
<1>12. PICK b \in Books : b = f.book
  BY <1>8 DEF Fill
<1>13. i \in Intervals /\ bars[b][i] \in SUBSET Bar
  BY <1>2 DEF Typed
<1>14. Charted(b, i)' = Charted(b, i) \cup {f} /\ f \notin Charted(b, i)
  BY <1>3, <1>8, <1>10, <1>11, <1>12, <1>13, ChartedIs
<1>15. \A c \in Books, j \in Intervals : c # b \/ j # i => Charted(c, j)' = Charted(c, j)
  <2> SUFFICES ASSUME NEW c \in Books, NEW j \in Intervals, c # b \/ j # i
               PROVE  Charted(c, j)' = Charted(c, j)
    OBVIOUS
  <2>1. CASE j # i
    <3>1. Written(j)' = Written(j) /\ executions' = executions
      BY <1>3, <1>10, <2>1
    <3> QED
      BY <3>1, ChartedIs
  <2>2. CASE j = i
    <3>1. Charted(c, j)' = {g \in executions \cup (Written(j) \cup {f}) : g.book = c}
      BY <1>3, <1>10, <2>2, ChartedIs
    <3>2. f.book # c
      BY <1>12, <2>2
    <3> QED
      BY <3>1, <3>2, ChartedIs
  <2> QED
    BY <2>1, <2>2
<1>16. PICK series : series = WithFill(bars[b][i], i, f)
  OBVIOUS
<1>17. series \in SUBSET Bar /\ Tells(series, Charted(b, i) \cup {f}, i)
  <2>1. Charted(b, i) \in SUBSET Fill /\ IsFiniteSet(Charted(b, i))
    BY BookedFinite
  <2>2. Tells(bars[b][i], Charted(b, i), i)
    BY <1>13 DEF Barred
  <2> QED
    BY <1>8, <1>13, <1>14, <1>16, <2>1, <2>2, SeriesTells
<1>18. /\ bars' \in [Books -> [Intervals -> SUBSET Bar]]
       /\ \A c \in Books, j \in Intervals :
            bars'[c][j] = IF c = b /\ j = i THEN series ELSE bars[c][j]
  <2>1. bars' = [bars EXCEPT ![b][i] = series]
    BY <1>3, <1>12, <1>16
  <2> QED
    BY <1>13, <1>17, <2>1 DEF Typed
<1>19. Typed'
  BY <1>3, <1>7, <1>18 DEF Typed
<1>20. Balanced'
  BY <1>3, <1>9, BookedIs, BalancedKept
<1>21. Traded'
  BY <1>3, <1>9, TradedKept
<1>22. Barred'
  <2> SUFFICES ASSUME NEW c \in Books, NEW j \in Intervals
               PROVE  Tells(bars'[c][j], Charted(c, j)', j)
    BY DEF Barred
  <2>1. CASE c = b /\ j = i
    BY <1>14, <1>17, <1>18, <2>1
  <2>2. CASE c # b \/ j # i
    <3>1. bars'[c][j] = bars[c][j] /\ Charted(c, j)' = Charted(c, j)
      BY <1>15, <1>18, <2>2
    <3> QED
      BY <3>1 DEF Barred
  <2> QED
    BY <2>1, <2>2
<1> QED
  BY <1>7, <1>19, <1>20, <1>21, <1>22

\* An order has met the book: its fills are new ones.
LEMMA MatchKeeps ==
  ASSUME IInv, NEW r \in Requests, NEW b \in Books, NEW side \in {"buy", "sell"}, Match(r, b, side)
  PROVE  IInv'
<1> USE DEF IInv
<1> DEFINE m == Cardinality(matched)
<1>1. /\ recorder[r].pc = "none"
      /\ UNCHANGED <<clock, positions, lastTrades, bars, executions, slack>>
  BY DEF Match
<1> DEFINE Fills(n, price, quantity) ==
             [i \in 1..n |-> [id |-> m + i, book |-> b, side |-> side, price |-> price[i],
                              quantity |-> quantity[i], time |-> clock]]
           Matched(n, fills) ==
             /\ matched' = matched \cup {fills[i] : i \in 1..n}
             /\ recorder' = [recorder EXCEPT ![r] = [Waiting EXCEPT !.pc = "position", !.fills = fills]]
<1>2. PICK n \in 1..2 : \E price \in [1..n -> Prices], quantity \in [1..n -> Quantities] :
                          Matched(n, Fills(n, price, quantity))
  BY DEF Match
<1>3. PICK price \in [1..n -> Prices], quantity \in [1..n -> Quantities] :
        Matched(n, Fills(n, price, quantity))
  BY <1>2
<1>4. PICK fills : fills = Fills(n, price, quantity)
  OBVIOUS
<1>5. /\ fills = [i \in 1..n |-> [id |-> m + i, book |-> b, side |-> side, price |-> price[i],
                                  quantity |-> quantity[i], time |-> clock]]
      /\ matched' = matched \cup {fills[i] : i \in 1..n}
      /\ recorder' = [recorder EXCEPT ![r] = [Waiting EXCEPT !.pc = "position", !.fills = fills]]
  BY <1>3, <1>4
<1>6. m \in Nat /\ n \in {1, 2}
  BY FS_CardinalityType DEF Typed
<1>7. \A i \in 1..n : fills[i] \in Fill /\ fills[i].id = m + i
  <2> SUFFICES ASSUME NEW i \in 1..n PROVE fills[i] \in Fill /\ fills[i].id = m + i
    OBVIOUS
  <2>1. price[i] \in Prices /\ quantity[i] \in Quantities /\ m + i \in Nat \ {0} /\ clock \in 0 .. MaxTime
    BY <1>6 DEF Typed
  <2>2. fills[i] = [id |-> m + i, book |-> b, side |-> side, price |-> price[i],
                    quantity |-> quantity[i], time |-> clock]
    BY <1>5
  <2> HIDE DEF m
  <2> QED
    BY <2>1, <2>2 DEF Fill
<1>8. fills \in Seq(Fill) /\ DOMAIN fills = 1..n /\ fills # <<>>
  <2>1. fills \in [1..n -> Fill]
    BY <1>5, <1>7
  <2>2. fills \in Seq(Fill) /\ Len(fills) = n
    BY <1>6, <2>1
  <2> QED
    BY <1>5, <1>6, <2>2
<1>9. \A f \in matched : f.id \in 1..m
  BY DEF Numbered
<1>10. \A i \in 1..n : fills[i] \notin matched
  <2> HIDE DEF m
  <2> QED
    BY <1>6, <1>7, <1>9
<1>11. \A i, j \in 1..n : fills[i] = fills[j] => i = j
  <2> HIDE DEF m
  <2> QED
    BY <1>6, <1>7
<1>12. IsFiniteSet(matched') /\ Cardinality(matched') = m + n /\ matched' \in SUBSET Fill
  <2>1. IsFiniteSet(matched) /\ matched \in SUBSET Fill
    BY DEF Typed
  <2>2. /\ IsFiniteSet(matched \cup {fills[1]})
        /\ Cardinality(matched \cup {fills[1]}) = m + 1
    BY <1>6, <1>10, <2>1, FS_AddElement
  <2>3. CASE n = 1
    <3>1. {fills[i] : i \in 1..n} = {fills[1]}
      BY <2>3
    <3> QED
      BY <1>5, <1>7, <2>1, <2>2, <2>3, <3>1
  <2>4. CASE n = 2
    <3>1. 1..n = {1, 2}
      BY <2>4
    <3>2. matched' = (matched \cup {fills[1]}) \cup {fills[2]}
      BY <1>5, <3>1
    <3>3. fills[2] \notin matched \cup {fills[1]}
      BY <1>10, <1>11, <3>1
    <3>4. /\ IsFiniteSet(matched') /\ Cardinality(matched') = (m + 1) + 1
      BY <2>2, <3>2, <3>3, FS_AddElement
    <3>5. matched' \in SUBSET Fill
      BY <1>7, <2>1, <3>1, <3>2
    <3> HIDE DEF m
    <3> QED
      BY <1>6, <2>4, <3>4, <3>5
  <2> QED
    BY <1>6, <2>3, <2>4
<1>13. Numbered'
  <2> SUFFICES ASSUME NEW f \in matched'
               PROVE  f.id \in 1 .. m + n
    BY <1>12 DEF Numbered
  <2> HIDE DEF m
  <2>1. CASE f \in matched
    BY <1>6, <1>9, <2>1
  <2>2. CASE f \notin matched
    <3>1. PICK i \in 1..n : f = fills[i]
      BY <1>5, <2>2
    <3> QED
      BY <1>6, <1>7, <3>1
  <2> QED
    BY <2>1, <2>2
<1>14. PICK job : job = [Waiting EXCEPT !.pc = "position", !.fills = fills]
  OBVIOUS
<1>15. job \in Job /\ job.pc = "position" /\ job.fills = fills /\ job.intervals = {}
  BY <1>8, <1>14 DEF Job, Waiting
<1>16. /\ \A q \in Requests : recorder'[q] = IF q = r THEN job ELSE recorder[q]
       /\ recorder' \in [Requests -> Job]
  BY <1>5, <1>14, <1>15 DEF Typed
<1>17. Jobs'
  BY <1>8, <1>15, <1>16 DEF Jobs
<1>18. Apart'
  <2>1. matched \subseteq matched' /\ executions' = executions /\ executions \in SUBSET matched
    BY <1>1, <1>5 DEF Typed
  <2>2. \A i \in 1..n : fills[i] \in matched' \ executions'
    BY <1>5, <1>10, <2>1
  <2>3. \A q \in Requests \ {r} : /\ recorder'[q] = recorder[q]
                                  /\ \A j \in DOMAIN recorder[q].fills :
                                       recorder[q].fills[j] \in matched \ executions
    BY <1>16 DEF Apart
  <2>4. recorder'[r].fills = fills
    BY <1>15, <1>16
  <2> SUFFICES ASSUME NEW q \in Requests, NEW i \in DOMAIN recorder'[q].fills
               PROVE  /\ recorder'[q].fills[i] \in matched' \ executions'
                      /\ \A p \in Requests : \A j \in DOMAIN recorder'[p].fills :
                           recorder'[q].fills[i] = recorder'[p].fills[j] => q = p /\ i = j
    BY DEF Apart
  <2>5. CASE q = r
    <3>1. i \in 1..n /\ recorder'[q].fills[i] = fills[i]
      BY <1>8, <2>4, <2>5
    <3>2. ASSUME NEW p \in Requests, NEW j \in DOMAIN recorder'[p].fills,
                 fills[i] = recorder'[p].fills[j]
          PROVE  p = r /\ i = j
      <4>1. p = r
        BY <1>10, <2>3, <3>1, <3>2
      <4>2. j \in 1..n /\ fills[i] = fills[j]
        BY <1>8, <2>4, <3>2, <4>1
      <4> QED
        BY <1>11, <3>1, <4>1, <4>2
    <3> QED
      BY <2>2, <2>5, <3>1, <3>2
  <2>6. CASE q # r
    <3>1. /\ recorder'[q] = recorder[q] /\ i \in DOMAIN recorder[q].fills
          /\ recorder[q].fills[i] \in matched \ executions
      BY <2>3, <2>6
    <3>2. ASSUME NEW p \in Requests, NEW j \in DOMAIN recorder'[p].fills,
                 recorder[q].fills[i] = recorder'[p].fills[j]
          PROVE  p = q /\ i = j
      <4>1. p # r
        BY <1>8, <1>10, <2>4, <3>1, <3>2
      <4> QED
        BY <2>3, <3>1, <3>2, <4>1 DEF Apart
    <3> QED
      BY <2>1, <3>1, <3>2
  <2> QED
    BY <2>5, <2>6
<1>19. Typed'
  BY <1>1, <1>5, <1>12, <1>16 DEF Typed
<1>20. Handing(Booking)' = Handing(Booking) /\ Handing(Charting)' = Handing(Charting)
  <2>1. \A labels \in {Booking, Charting} : recorder[r].pc \notin labels /\ job.pc \notin labels
    BY <1>1, <1>15 DEF Booking, Charting
  <2> QED
    BY <1>16, <2>1, HandingMoves
<1>21. \A i : Written(i)' = Written(i)
  <2>1. recorder[r].pc \notin Charting /\ job.pc \notin Charting
    BY <1>1, <1>15 DEF Charting
  <2> QED
    BY <1>16, <2>1, WrittenMoves
<1>22. Balanced'
  BY <1>1, <1>20, BookedIs, BalancedKept
<1>23. Traded'
  BY <1>1, <1>20, TradedKept
<1>24. Barred'
  BY <1>1, <1>21, ChartedIs, BarredKept
<1> QED
  BY <1>13, <1>17, <1>18, <1>19, <1>22, <1>23, <1>24

LEMMA TickKeeps ==
  ASSUME IInv, Tick \/ UNCHANGED vars
  PROVE  IInv'
<1> USE DEF IInv
<1>1. /\ clock' \in 0 .. MaxTime
      /\ UNCHANGED <<matched, recorder, positions, lastTrades, bars, executions, slack>>
  BY LedgerAssumption DEF Tick, vars, Typed
<1>2. Typed' /\ Jobs' /\ Numbered' /\ Apart'
  BY <1>1 DEF Typed, Jobs, Numbered, Apart
<1>3. \A labels : Handing(labels)' = Handing(labels)
  BY <1>1 DEF Handing, Current
<1>4. \A i : Written(i)' = Written(i)
  BY <1>1 DEF Written, Current
<1>5. Balanced'
  BY <1>1, <1>3, BookedIs, BalancedKept
<1>6. Traded'
  BY <1>1, <1>3, TradedKept
<1>7. Barred'
  BY <1>1, <1>4, ChartedIs, BarredKept
<1> QED
  BY <1>2, <1>5, <1>6, <1>7

LEMMA Begins ==
  ASSUME Init
  PROVE  IInv
<1>1. Typed
  BY FS_EmptySet, LedgerAssumption DEF Init, Typed, Job, Waiting, Position, NoPosition
<1>2. Jobs /\ Numbered /\ Apart /\ Traded
  BY DEF Init, Jobs, Numbered, Apart, Traded, Waiting
<1>3. \A labels : "none" \notin labels => Handing(labels) = {}
  BY DEF Init, Handing, Waiting
<1>4. \A i : Written(i) = {}
  BY DEF Init, Written, Waiting, Charting
<1>5. /\ \A b : Booked(b) = {}
      /\ \A b, i : Charted(b, i) = {}
  BY <1>3, <1>4, BookedIs, ChartedIs DEF Init, Booking
<1>6. Balanced
  <2>1. \A b \in Books : positions[b] = NoPosition /\ slack[b] = 0
    BY DEF Init
  <2>2. NoPosition.quantity = 0 /\ Worth(NoPosition) = 0 /\ Abs(0 - 0) <= 0
    BY DEF NoPosition, Worth, Abs
  <2> QED
    BY <1>5, <2>1, <2>2, NoFills DEF Balanced
<1>7. Barred
  <2>1. \A b \in Books, i \in Intervals : bars[b][i] = {}
    BY DEF Init
  <2>2. ASSUME NEW i PROVE Tells({}, {}, i)
    BY FS_EmptySet DEF Tells, Distinct, Times, Newest, FloorsOf
  <2> QED
    BY <1>5, <2>1, <2>2 DEF Barred
<1> QED
  BY <1>1, <1>2, <1>6, <1>7 DEF IInv

LEMMA Invariance == Spec => []IInv
<1>1. Init => IInv
  BY Begins
<1>2. IInv /\ [Next]_vars => IInv'
  <2> SUFFICES ASSUME IInv, [Next]_vars PROVE IInv'
    OBVIOUS
  <2>1. CASE Tick \/ UNCHANGED vars
    BY <2>1, TickKeeps
  <2>2. ASSUME NEW r \in Requests, NEW b \in Books, NEW side \in {"buy", "sell"}, Match(r, b, side)
        PROVE  IInv'
    BY <2>2, MatchKeeps
  <2>3. ASSUME NEW r \in Requests, SkipFill(r) PROVE IInv'
    BY <2>3, SkipKeeps
  <2>4. ASSUME NEW r \in Requests, RecordPosition(r) PROVE IInv'
    BY <2>4, PositionKeeps
  <2>5. ASSUME NEW r \in Requests, RecordLastTrade(r) PROVE IInv'
    BY <2>5, LastTradeKeeps
  <2>6. ASSUME NEW r \in Requests, RecordBar(r) PROVE IInv'
    BY <2>6, BarKeeps
  <2>7. ASSUME NEW r \in Requests, RecordExecution(r) PROVE IInv'
    BY <2>7, ExecutionKeeps
  <2> QED
    BY <2>1, <2>2, <2>3, <2>4, <2>5, <2>6, <2>7 DEF Next, Record
<1> QED
  BY <1>1, <1>2, PTL DEF Spec

-----------------------------------------------------------------------------
(***************************************************************************)
(* What follows.                                                           *)
(***************************************************************************)

\* The stores have what their types say, whatever requests record (record_fills).
THEOREM TypeCorrect == Spec => []TypeOK
<1>1. IInv => TypeOK
  <2> SUFFICES ASSUME IInv PROVE TypeOK
    OBVIOUS
  <2>1. \A b \in Books : positions[b] \in Position
    BY DEF IInv, Typed
  <2>2. \A r \in Requests : recorder[r] \in Job
    BY DEF IInv, Typed
  <2> QED
    BY <2>1, <2>2 DEF TypeOK, IInv, Typed, Jobs, Position, Job
<1> QED
  BY <1>1, Invariance, PTL

\* A mark is a price or none.
LEMMA MarkTyped ==
  ASSUME NEW bid \in Nat \cup {None}, NEW ask \in Nat \cup {None}
  PROVE  Mark(bid, ask) \in Nat \cup {None}
<1>1. None \notin Nat
  BY DEF None
<1>2. CASE bid # None /\ ask # None
  <2>1. bid \in Nat /\ ask \in Nat
    BY <1>2
  <2>2. (bid + ask) \div 2 \in Nat
    BY <2>1
  <2> QED
    BY <1>2, <2>2 DEF Mark
<1>3. CASE ~(bid # None /\ ask # None)
  BY <1>3 DEF Mark
<1> QED
  BY <1>2, <1>3

\* When no request records, what is booked is what the executions list.
LEMMA SettledStores ==
  ASSUME IInv, Settled, NEW b \in Books
  PROVE  StoresAgree(b)
<1> USE DEF IInv
<1> DEFINE Listed(sides) == {f \in executions : f.book = b /\ f.side \in sides}
           Volume(side) == ListExecutions({b}, {side}, None, None).volume
<1>1. Handing(Booking) = {} /\ Handing(Charting) = {}
  BY DEF Settled, Handing, Booking, Charting
<1>2. Booked(b) = {f \in executions : f.book = b}
  BY <1>1, BookedIs
<1>3. \A sides : /\ ListExecutions({b}, sides, None, None).listed = Listed(sides)
                 /\ ListExecutions({b}, sides, None, None).volume
                      = SumFunction([f \in Listed(sides) |-> f.quantity])
  <2> TAKE sides
  <2>1. {f \in executions : /\ f.book \in {b} /\ f.side \in sides
                            /\ None = None \/ None <= f.time
                            /\ None = None \/ f.time <= None} = Listed(sides)
    OBVIOUS
  <2> HIDE DEF Listed
  <2> QED
    BY <2>1 DEF ListExecutions
<1>4. positions[b].quantity = Volume("buy") - Volume("sell")
  <2>1. Booked(b) \in SUBSET Fill /\ IsFiniteSet(Booked(b))
    BY BookedFinite
  <2>2. \A side : {g \in Booked(b) : g.side = side} = Listed({side})
    BY <1>2
  <2>3. Held(Booked(b)) = SumFunction([f \in {g \in Booked(b) : g.side = "buy"} |-> f.quantity])
                          - SumFunction([f \in {g \in Booked(b) : g.side = "sell"} |-> f.quantity])
    BY <2>1, HeldIsBoughtLessSold
  <2> HIDE DEF Listed
  <2>4. Held(Booked(b)) = Volume("buy") - Volume("sell")
    BY <1>3, <2>2, <2>3
  <2> QED
    BY <2>4 DEF Balanced
<1>5. GetLastTrade(b) \subseteq ListExecutions({b}, {"buy", "sell"}, None, None).listed
  <2> SUFFICES ASSUME lastTrades[b] # NoTrade
               PROVE  lastTrades[b] \in Listed({"buy", "sell"})
    BY <1>3 DEF GetLastTrade
  <2>1. lastTrades[b] \in executions /\ lastTrades[b].book = b
    BY <1>1 DEF Traded, Charting
  <2>2. lastTrades[b].side \in {"buy", "sell"}
    BY <2>1 DEF Typed, Fill
  <2> QED
    BY <2>1, <2>2
<1> QED
  BY <1>4, <1>5 DEF StoresAgree

\* Positions have the fills of the executions, in whatever order concurrent requests
\* record them, and the gains that list_positions reports are the cash those fills
\* moved and what they leave at the mark, up to the rounding of averages: for longs,
\* shorts, partial closes, closes to flat and flips (PositionInfo::update, issue #55).
THEOREM GainsAreTheFills == Spec => []GainsAreAccounted
<1>1. IInv => GainsAreAccounted
  <2> SUFFICES ASSUME IInv, NEW b \in Books
               PROVE  /\ positions[b].quantity = Held(Booked(b))
                      /\ Settled => StoresAgree(b)
                      /\ \A mark \in {Mark(bid, ask) : bid, ask \in Prices \cup {None}} :
                           GainsAt(b, mark, Held(Booked(b)), Cash(Booked(b)))
    BY DEF GainsAreAccounted, Marks
  <2>1. positions[b].quantity = Held(Booked(b))
    BY DEF IInv, Balanced
  <2>2. Settled => StoresAgree(b)
    BY SettledStores
  <2>3. ASSUME NEW bid \in Prices \cup {None}, NEW ask \in Prices \cup {None}
        PROVE  GainsAt(b, Mark(bid, ask), Held(Booked(b)), Cash(Booked(b)))
    <3>1. PICK mark \in Nat \cup {None} : mark = Mark(bid, ask)
      BY MarkTyped, LedgerAssumption
    <3>2. PICK held \in Int, cash \in Int : held = Held(Booked(b)) /\ cash = Cash(Booked(b))
      <4>1. Booked(b) \in SUBSET Fill /\ IsFiniteSet(Booked(b))
        BY BookedFinite DEF IInv
      <4>2. Cash(Booked(b)) \in Int
        <5> DEFINE moved == [f \in Booked(b) |-> -Signed(f) * f.price]
        <5>1. moved \in [Booked(b) -> Int]
          BY <4>1, SignedTyped
        <5> HIDE DEF moved
        <5>2. SumFunction(moved) \in Int
          BY <4>1, <5>1, SumTyped
        <5> QED
          BY <5>2 DEF moved, Cash
      <4>3. positions[b].quantity \in Int
        BY DEF IInv, Typed, Position
      <4> QED
        BY <2>1, <4>2, <4>3
    <3>3. /\ positions[b] \in Position /\ (~positions[b].open => positions[b] = NoPosition)
          /\ positions[b].quantity = held /\ Abs(Worth(positions[b]) - cash) <= slack[b]
          /\ slack[b] \in Nat
      BY <3>2 DEF IInv, Typed, Balanced
    <3>4. LET report == ListPositions({b}, mark)
          IN  /\ report.unpriced = (IF held # 0 /\ mark = None THEN 1 ELSE 0)
              /\ report.unpriced = 0 =>
                   Abs(report.realized + report.unrealized - cash - mark * held) <= slack[b]
      BY <3>3, ReportedGains
    <3> QED
      BY <3>1, <3>2, <3>4 DEF GainsAt
  <2> QED
    BY <2>1, <2>2, <2>3
<1> QED
  BY <1>1, Invariance, PTL

\* Clients are given the latest bars there are, of all or up to one, as many as they
\* ask for, and each has all of its fills, however late and by whom they were
\* recorded (OhlcAggregator::update_bar, get_bars).
THEOREM BarsTellAll == Spec => []BarsAreComplete
<1>1. IInv => BarsAreComplete
  <2> SUFFICES ASSUME IInv, NEW b \in Books, NEW i \in Intervals
               PROVE  /\ LatestAreGiven(b, i, Charted(b, i))
                      /\ \A bar \in GetBars(b, i, None, None, MaxBars) :
                           TellsAll(bar, {f \in Charted(b, i) : Floor(f.time, i) = bar.time})
    BY DEF BarsAreComplete
  <2>1. /\ IsFiniteSet(bars[b][i]) /\ Distinct(bars[b][i])
        /\ Times(bars[b][i]) = Newest(FloorsOf(Charted(b, i), i), MaxBars)
        /\ \A bar \in bars[b][i] : TellsAll(bar, At(Charted(b, i), i, bar.time))
    BY DEF IInv, Barred, Tells
  <2>2. LatestAreGiven(b, i, Charted(b, i))
    <3> SUFFICES ASSUME NEW to \in {None} \cup Times(bars[b][i]), NEW limit \in 1 .. MaxBars
                 PROVE  {bar.time : bar \in GetBars(b, i, None, to, limit)}
                          = Newest({t \in Times(bars[b][i]) : to = None \/ t <= to}, limit)
      BY <2>1 DEF LatestAreGiven, FloorsOf
    <3> DEFINE range == {bar \in bars[b][i] : to = None \/ bar.time <= to}
    <3>1. GetBars(b, i, None, to, limit)
            = {bar \in range : Cardinality({c \in range : c.time > bar.time}) < limit}
      BY DEF GetBars
    <3>2. IsFiniteSet(range) /\ Distinct(range)
      BY <2>1, FS_Subset DEF Distinct
    <3>3. Times(range) = {t \in Times(bars[b][i]) : to = None \/ t <= to}
      BY DEF Times
    <3> HIDE DEF range
    <3>4. Times(GetBars(b, i, None, to, limit)) = Newest(Times(range), limit)
      BY <3>1, <3>2, NewestBars
    <3> QED
      BY <3>3, <3>4 DEF Times
  <2>3. GetBars(b, i, None, None, MaxBars) \subseteq bars[b][i]
    BY DEF GetBars
  <2> QED
    BY <2>1, <2>2, <2>3 DEF At
<1> QED
  BY <1>1, Invariance, PTL
=============================================================================
