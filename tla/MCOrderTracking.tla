--------------------------- MODULE MCOrderTracking ---------------------------
(* Instances of OrderTracking for TLC. *)
EXTENDS OrderTracking, TLC

CONSTANTS w1, w2

Plain == {"add_order", "submit_market_order", "cancel_order", "modify_order",
          "bulk_cancel", "cancel_all", "cleanup"}

Threads == Permutations(Workers)
=============================================================================
