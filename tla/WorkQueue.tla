----------------------------- MODULE WorkQueue -----------------------------
(***************************************************************************)
(* What a request queue with its servers and its dead-letter processor     *)
(* promises, with deliveries, connections and retries left out: a request  *)
(* the broker has taken is owed an answer, may be answered more than once  *)
(* (at least once), and leaves the system only after it was answered.      *)
(***************************************************************************)
CONSTANTS Requests, OneWay   \* requests, and those that ask for no answer

VARIABLES owed,       \* requests the broker has taken and not let go
          answered    \* requests with an answer on its way to the client

queueVars == <<owed, answered>>

Init == owed = {} /\ answered = {}

Accept(r) ==
  /\ r \notin owed \cup answered
  /\ owed' = owed \cup {r}
  /\ UNCHANGED answered

Answer(r) ==
  /\ r \in owed
  /\ answered' = answered \cup {r}
  /\ UNCHANGED owed

Settle(r) ==
  /\ r \in owed
  /\ r \in answered \cup OneWay
  /\ owed' = owed \ {r}
  /\ UNCHANGED answered

Next == \E r \in Requests : Accept(r) \/ Answer(r) \/ Settle(r)

Spec == Init /\ [][Next]_queueVars
=============================================================================
