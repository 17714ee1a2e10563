----------------------------- MODULE MCPriceFeed -----------------------------
(* An instance of PriceFeed for TLC. *)
EXTENDS PriceFeed

CONSTANTS s1, s2, o1

OneAsset == <<s1>>
=============================================================================
