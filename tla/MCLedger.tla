------------------------------- MODULE MCLedger -------------------------------
(* An instance of Ledger for TLC. *)
EXTENDS Ledger, TLC

CONSTANTS r1, r2, b1

\* Requests differ in their names only.
Alike == Permutations(Requests)

\* Amounts do not depend on time, nor do times on amounts: fills of every amount
\* meet in the first moment, and fills of every moment have one quantity.
Scope == clock = 0 \/ \A f \in matched : f.quantity = 2 /\ f.price <= MaxCents
=============================================================================
