----------------------------- MODULE MCDeltaFeed -----------------------------
(* Instances of DeltaFeed for TLC. *)
EXTENDS DeltaFeed, TLC

CONSTANTS h1, h2, c1, bid, ask

Symmetry == Permutations(Handlers) \cup Permutations(Levels)
=============================================================================
