------------------------------- MODULE MCServer -------------------------------
(* An instance of Server for TLC. *)
EXTENDS Server, Routes, TLC

CONSTANTS u1, u2, s1, w1, r1, k1

\* A plain symbol, one with a slash, one spelled like a route.
SomeNames == { <<"BTC">>, <<"BTC", "USD">>, <<"orders">> }
SomeIds == { <<"0">> }

\* One operator, one trader.
TwoRoles == u1 :> {"Admin"} @@ u2 :> {"Read", "Trade"}
OneUnderlying == [s \in Symbols |-> w1]
=============================================================================
