---------------------------- MODULE MCConnection ----------------------------
(* Values for Connection's constants that a cfg cannot write down. *)
EXTENDS Connection

CONSTANTS declare, rotate

\* A declare and a secret rotation.
Awaits ==
  [c \in Calls |-> IF c \in Secrets THEN "update-secret-ok" ELSE "declare-ok"]
=============================================================================
