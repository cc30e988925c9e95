------------------------------ MODULE RpcCall ------------------------------
(***************************************************************************)
(* What RpcClient.request promises its caller, with every mechanism        *)
(* (connections, confirms, parking, reconnects) left out: a call is made   *)
(* at most once, it completes at most once, and it completes with a reply  *)
(* only when a server has answered that very call.                         *)
(***************************************************************************)
CONSTANT Requests

VARIABLES state,      \* state[r]: "idle", "open", "replied" or "failed"
          answered    \* requests some server has answered

callVars == <<state, answered>>

TypeOK ==
  /\ state \in [Requests -> {"idle", "open", "replied", "failed"}]
  /\ answered \subseteq Requests

Init ==
  /\ state = [r \in Requests |-> "idle"]
  /\ answered = {}

\* The caller awaits request().
Call(r) ==
  /\ state[r] = "idle"
  /\ state' = [state EXCEPT ![r] = "open"]
  /\ UNCHANGED answered

\* A server has run the handler and published the answer.  It only ever sees
\* a request whose call was made; the call itself may be over by then.
Answer(r) ==
  /\ state[r] # "idle"
  /\ answered' = answered \cup {r}
  /\ UNCHANGED state

\* The awaited call returns a result: the answer to that request.
Reply(r) ==
  /\ state[r] = "open"
  /\ r \in answered
  /\ state' = [state EXCEPT ![r] = "replied"]
  /\ UNCHANGED answered

\* The awaited call raises, before or after anything was published.
Fail(r) ==
  /\ state[r] \in {"idle", "open"}
  /\ state' = [state EXCEPT ![r] = "failed"]
  /\ UNCHANGED answered

Next == \E r \in Requests : Call(r) \/ Answer(r) \/ Reply(r) \/ Fail(r)

Spec == Init /\ [][Next]_callVars
=============================================================================
