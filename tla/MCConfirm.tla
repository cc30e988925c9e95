----------------------------- MODULE MCConfirm -----------------------------
(* The publishers of Confirm's small instances. *)
EXTENDS Confirm

CONSTANTS a, b, c
=============================================================================
