----------------------------- MODULE MCSnapshots -----------------------------
(* An instance of Snapshots for TLC. *)
EXTENDS Snapshots, BookQueries, TLC

CONSTANTS t1, t2, o1

\* One bid for a call.
OneBid == [o \in {o1} |->
             [strike |-> 100, style |-> "call", side |-> "buy", price |-> 5, quantity |-> 1]]

Alike == Permutations({t1, t2})

\* What a snapshot holds does not depend on the time it bears, which only orders
\* evictions: days pass, and day counts are used, in the first moment.
Scope == clock = 0 \/ (today = 0 /\ \A k \in DOMAIN book : k.form = "date")
=============================================================================
