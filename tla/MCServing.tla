----------------------------- MODULE MCServing -----------------------------
(* The requests and servers of Serving's small instances. *)
EXTENDS Serving

CONSTANTS a, b, s, t
=============================================================================
