----------------------------- MODULE MCSession -----------------------------
(* Values for Session's constants that a cfg cannot write down. *)
EXTENDS Session, TLC

CONSTANTS a, b

\* Each call has an id of its own, as generate_id gives them.
FreshIds == [r \in Requests |-> r]

\* The calls are interchangeable.  Used by the runs of safety properties only.
Calls == Permutations({a, b})
=============================================================================
