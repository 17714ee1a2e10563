--------------------------- MODULE LimitedAdmission ---------------------------
(***************************************************************************)
(* What a sliding-window rate limiter promises, without its map, its       *)
(* counter or its threads: a request is admitted only while fewer than     *)
(* LimitOf[k] admissions of its key lie in the last Window milliseconds,   *)
(* except that the whole history of a key may be forgotten at any time     *)
(* (the documented price of the cap on tracked keys).  A request may always*)
(* be refused.                                                             *)
(***************************************************************************)
EXTENDS Naturals, Sequences, FiniteSets

CONSTANTS
    Keys,       \* subjects of tokens and peers of the token endpoint
    LimitOf,    \* requests a key may make per window
    Window      \* RATE_LIMIT_WINDOW_MS

VARIABLES
    clock,      \* now_millis()
    log         \* log[k]: times of the admissions of k not yet forgotten

\* The admissions of `times' that still count at time t.
Recent(times, t) == {i \in 1..Len(times) : times[i] + Window >= t}

Init ==
    /\ clock \in Nat
    /\ log = [k \in Keys |-> <<>>]

\* A request of k that read the time `at' is admitted.
Admit(k, at) ==
    /\ at <= clock
    /\ Cardinality(Recent(log[k], clock)) < LimitOf[k]
    /\ log' = [log EXCEPT ![k] = Append(@, at)]
    /\ clock' = clock

\* The bucket of k is evicted with all its history.
Forget(k) ==
    /\ log' = [log EXCEPT ![k] = <<>>]
    /\ clock' = clock

Pass ==
    /\ clock' \in Nat
    /\ clock' >= clock
    /\ log' = log

Next ==
    \/ Pass
    \/ \E k \in Keys : Forget(k) \/ \E at \in 0..clock : Admit(k, at)

Spec == Init /\ [][Next]_<<clock, log>>
=============================================================================
