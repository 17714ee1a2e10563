---------------------------- MODULE MCMarketMaker ----------------------------
(* Instances of MarketMaker for TLC. *)
EXTENDS MarketMaker

CONSTANTS w1, w2, s1, s2, i1, i2, i3

\* One underlying with one option book.
OneBook == [i \in {i1} |-> s1]

\* Two underlyings with one option book each.
TwoSymbols == [i \in {i1, i2} |-> IF i = i1 THEN s1 ELSE s2]

\* i1 cannot be quoted at the second price.
NoQuoteAt2 == {<<i1, 2>>}

SerialOps   == AllOps
RetuneFree  == AllOps \ {"set_parameter", "delete_underlying", "create_book"}
Quoting     == {"update_price", "set_parameter", "set_enabled", "fill"}
=============================================================================
