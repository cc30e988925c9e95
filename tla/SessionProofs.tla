--------------------------- MODULE SessionProofs ---------------------------
(***************************************************************************)
(* Proofs about Session, for every value of its constants.                 *)
(*                                                                         *)
(* The invariant has four parts, each proved to be kept by every step:     *)
(* TypeOK with LockInv (who holds the reconnect lock), ConnectionInv (when *)
(* reply_queue_open is true), LossEmpties (fail-fast) and CallsInv         *)
(* (futures, tables and callers).  AnswersInv is the one for the           *)
(* refinement of RpcCall, EpochInv the one for what a reconnect carries.   *)
(* A step lemma has one step per action of Next.                           *)
(***************************************************************************)
EXTENDS Session, TLAPS

USE SessionAssumption DEF SessionAssumption, Drivers, Publishers, AnswerSteps,
                          Critical, Outcomes

-----------------------------------------------------------------------------
(* The parts of the invariant. *)

\* Session._reconnect_lock: one task at a time is inside Session.reconnect.
Mutex ==
  \A d, e \in Drivers : drv[d] \in Critical /\ drv[e] \in Critical => d = e

\* The republisher's publish belongs to a lock holder and to a parked call.
CurHeld ==
  pub[Republisher] # "none" =>
    cur \in Requests /\ \E d \in Drivers : drv[d] = "republish"

LockInv == Mutex /\ CurHeld

\* A handled loss is that of a connection which is gone.
LossIsOld == conn \in {"none", "up"} => ~lossHandled

\* basic.consume-ok, not yet acted on, with the reply queue still set, came
\* over a connection that still stands.
ConsumeLive ==
  \A d \in Drivers :
    drv[d] = "consume" /\ wake = "ok" /\ replyQueue => conn = "up"

\* The session is not started while a reconnect is building the connection.
StartingClosed ==
  \A d \in Drivers : drv[d] \in {"closing"} \cup AnswerSteps => ~started

\* OpenIsLive with what it takes to be inductive.
ConnectionInv == OpenIsLive /\ LossIsOld /\ ConsumeLive /\ StartingClosed

\* Fail-fast: the loss emptied the correlation table and nothing refills it.
LossEmpties == FailFast /\ lossHandled => pending = {}

\* An entry of the correlation table has a future nobody completed, unless the
\* task awaiting it was cancelled.
PendingOpen == \A r \in pending : fut[r] \in {"pending", "cancelled"}

\* A call not made yet has no future.
IdleUntouched == \A r \in Requests : pc[r] = "idle" => fut[r] = "none"

\* What relates futures, correlation table, parked envelopes and callers.
CallsInv ==
  FutureTracked /\ Recoverable /\ TableClean /\ PendingOpen /\ IdleUntouched

\* A call not made yet is neither published nor parked.
Untouched ==
  \A r \in Requests :
    pc[r] = "idle" => r \notin sent \cup parked \cup todo /\ cur # r

\* A reply on its way is one some server gave.
InboxServed == \A i \in 1..Len(inbox) : inbox[i] \in served

\* A future holding a reply holds the one to its own request.
ReplyIsOwn ==
  \A r \in Requests : fut[r] = "reply" => got[r] = {r} /\ r \in served

\* A caller got a reply only from its future.
ResultIsReply ==
  \A r \in Requests : result[r] = "reply" => pc[r] = "done" /\ fut[r] = "reply"

\* What maps the steps of Session to steps of RpcCall.
AnswersInv == Untouched /\ InboxServed /\ ReplyIsOwn /\ ResultIsReply

\* Calls have distinct correlation ids, as generate_id gives them.
UniqueIds == \A r, s \in Requests : IdOf[r] = IdOf[s] => r = s

-----------------------------------------------------------------------------
(* Types. *)

\* set_result and set_exception leave every future in a state a future has.
LEMMA CompleteType ==
  ASSUME TypeOK, NEW S, NEW outcome \in Outcomes
  PROVE  Complete(S, outcome)
           \in [Requests -> {"none", "pending"} \cup Outcomes]
  BY DEF TypeOK, Complete

\* CorrelationTable.discard_all and _parked.clear() keep the tables typed.
LEMMA DiscardType ==
  ASSUME TypeOK, NEW outcome \in Outcomes, DiscardAll(outcome)
  PROVE  /\ fut' \in [Requests -> {"none", "pending"} \cup Outcomes]
         /\ pending' \subseteq Requests
         /\ parked' \subseteq Requests
  BY CompleteType DEF DiscardAll

\* Session._on_connection_lost keeps what it writes typed, in both policies.
LEMMA OnConnectionLostType ==
  ASSUME TypeOK, OnConnectionLost
  PROVE  /\ fut' \in [Requests -> {"none", "pending"} \cup Outcomes]
         /\ pending' \subseteq Requests
         /\ parked' \subseteq Requests
         /\ started' \in BOOLEAN /\ replyQueue' \in BOOLEAN
         /\ lossHandled' \in BOOLEAN
         /\ drv' \in [Drivers -> {"idle", "lock", "sleep"} \cup Critical]
         /\ attempt' \in [Drivers -> 1..MaxAttempts]
<1>1. CASE lossHandled
  BY <1>1 DEF OnConnectionLost, TypeOK, tableVars
<1>2. CASE ~lossHandled /\ FailFast
  <2>1. DiscardAll("lost") /\ UNCHANGED <<drv, attempt>>
    BY <1>2 DEF OnConnectionLost
  <2>2. lossHandled' = TRUE /\ started' = FALSE /\ replyQueue' = FALSE
    BY <1>2 DEF OnConnectionLost
  <2> QED BY <2>1, <2>2, DiscardType DEF TypeOK
<1>3. CASE ~lossHandled /\ ~FailFast
  <2>1. UNCHANGED <<fut, pending, parked>>
    BY <1>3 DEF OnConnectionLost, tableVars
  <2>2. lossHandled' = TRUE /\ started' = FALSE /\ replyQueue' = FALSE
    BY <1>3 DEF OnConnectionLost
  <2>3. \/ UNCHANGED <<drv, attempt>>
        \/ /\ drv' = [drv EXCEPT ![AutoTask] = "lock"]
           /\ attempt' = [attempt EXCEPT ![AutoTask] = 1]
    BY <1>3 DEF OnConnectionLost
  <2>4. drv' \in [Drivers -> {"idle", "lock", "sleep"} \cup Critical]
    BY <2>3 DEF TypeOK
  <2>5. attempt' \in [Drivers -> 1..MaxAttempts]
    BY <2>3 DEF TypeOK
  <2> QED BY <2>1, <2>2, <2>4, <2>5 DEF TypeOK
<1> QED BY <1>1, <1>2, <1>3

\* ReconnectCoordinator: a failed attempt backs off within max_attempts or
\* gives up; what it writes stays typed.
LEMMA AttemptFailsType ==
  ASSUME TypeOK, NEW d \in Drivers, AttemptFails(d)
  PROVE  /\ fut' \in [Requests -> {"none", "pending"} \cup Outcomes]
         /\ pending' \subseteq Requests
         /\ parked' \subseteq Requests
         /\ drv' \in [Drivers -> {"idle", "lock", "sleep"} \cup Critical]
         /\ attempt' \in [Drivers -> 1..MaxAttempts]
         /\ wake' \in {"none", "ok", "exc"}
         /\ todo' \subseteq Requests /\ cur' \in Publishers
<1>1. CASE AttemptsLeft(d)
  <2>1. attempt[d] + 1 \in 1..MaxAttempts
    BY <1>1 DEF AttemptsLeft, TypeOK
  <2>2. /\ drv' = [drv EXCEPT ![d] = "sleep"]
        /\ attempt' = [attempt EXCEPT ![d] = attempt[d] + 1]
        /\ UNCHANGED <<fut, pending, parked>>
    BY <1>1 DEF AttemptFails, AttemptsLeft, tableVars
  <2> QED BY <2>1, <2>2 DEF AttemptFails, TypeOK
<1>2. CASE ~AttemptsLeft(d) /\ d = AutoTask
  <2>1. /\ DiscardAll("lost")
        /\ drv' = [drv EXCEPT ![d] = "idle"]
        /\ UNCHANGED attempt
    BY <1>2 DEF AttemptFails, AttemptsLeft, GiveUp
  <2> QED BY <2>1, DiscardType DEF AttemptFails, TypeOK
<1>3. CASE ~AttemptsLeft(d) /\ d # AutoTask
  BY <1>3 DEF AttemptFails, AttemptsLeft, GiveUp, TypeOK, tableVars
<1> QED BY <1>1, <1>2, <1>3

\* Every step keeps TypeOK.  It needs LockInv: _republish_parked publishes the
\* envelope it holds, which is one of a request.
LEMMA TypeStep == TypeOK /\ LockInv /\ [Next]_vars => TypeOK'
<1> SUFFICES ASSUME TypeOK, LockInv, [Next]_vars PROVE TypeOK'
  OBVIOUS
<1> USE DEF TypeOK, tableVars, callVars, sessionVars, connVars, driverVars,
            brokerVars, wireVars, clientVars, serviceVars
<1>1. ASSUME NEW r \in Requests, RequestRefused(r)
      PROVE  TypeOK'
  BY <1>1 DEF RequestRefused, Ends
<1>2. ASSUME NEW r \in Requests, RequestBlocked(r)
      PROVE  TypeOK'
  BY <1>2 DEF RequestBlocked, Ends
<1>3. ASSUME NEW r \in Requests, RequestRaises(r)
      PROVE  TypeOK'
  BY <1>3 DEF RequestRaises, Ends
<1>4. ASSUME NEW r \in Requests, Request(r)
      PROVE  TypeOK'
  BY <1>4 DEF Request, BeginPublish, Publish, Select
<1>5. ASSUME NEW r \in Requests, RequestSelected(r)
      PROVE  TypeOK'
  <2>1. CASE WriteRaises
    BY <1>5, <2>1 DEF RequestSelected, Ends, WriteRaises
  <2>2. CASE ~WriteRaises
    <3>1. Publish(r, r) /\ UNCHANGED <<pc, result>>
      BY <1>5, <2>2 DEF RequestSelected, WriteRaises
    <3>2. pub' \in [Publishers -> {"none", "select", "selok", "deaf", "sent",
                               "unrouted", "ok", "nack", "returned", "lost",
                               "orphan"}]
      BY <3>1 DEF Publish
    <3>3. sent' \subseteq Requests
      BY <3>1 DEF Publish
    <3> QED BY <1>5, <3>1, <3>2, <3>3 DEF RequestSelected
  <2> QED BY <2>1, <2>2
<1>6. ASSUME NEW r \in Requests, RequestConfirmed(r)
      PROVE  TypeOK'
  BY <1>6 DEF RequestConfirmed, Remember
<1>7. ASSUME NEW r \in Requests, RequestRejected(r)
      PROVE  TypeOK'
  BY <1>7 DEF RequestRejected, Ends, FailAndForget, Complete
<1>8. ASSUME NEW r \in Requests, RequestLost(r)
      PROVE  TypeOK'
  BY <1>8 DEF RequestLost, Ends
<1>9. ASSUME NEW r \in Requests, RequestReturns(r)
      PROVE  TypeOK'
  BY <1>9 DEF RequestReturns, Ends
<1>10. ASSUME NEW r \in Requests, RequestTimeout(r)
      PROVE  TypeOK'
  BY <1>10 DEF RequestTimeout, Ends, FailAndForget, Complete
<1>11. ASSUME NEW r \in Requests, RequestCancelled(r)
      PROVE  TypeOK'
  BY <1>11 DEF RequestCancelled, Ends, Complete
<1>12. ASSUME NEW r \in Requests, Deliver(r)
      PROVE  TypeOK'
  BY <1>12 DEF Deliver
<1>13. ASSUME NEW p \in Publishers, SelectOk(p)
      PROVE  TypeOK'
  BY <1>13 DEF SelectOk
<1>14. ASSUME NEW p \in Publishers, Confirm(p)
      PROVE  TypeOK'
  BY <1>14 DEF Confirm
<1>15. ASSUME NEW d \in Drivers, AlreadyOpen(d)
      PROVE  TypeOK'
  BY <1>15 DEF AlreadyOpen
<1>16. ASSUME NEW d \in Drivers, Teardown(d)
      PROVE  TypeOK'
  <2>1. CASE FailFast
    BY <1>16, <2>1, DiscardType DEF Teardown
  <2>2. CASE ~FailFast
    BY <1>16, <2>2 DEF Teardown
  <2> QED BY <2>1, <2>2
<1>17. ASSUME NEW d \in Drivers, StartEpoch(d)
      PROVE  TypeOK'
  <2>1. inbox' = <<>> /\ <<>> \in Seq(Requests)
    BY <1>17 DEF StartEpoch
  <2>2. epoch' \in Nat
    BY <1>17 DEF StartEpoch
  <2> QED BY <1>17, <2>1, <2>2 DEF StartEpoch
<1>18. ASSUME NEW d \in Drivers, Opened(d)
      PROVE  TypeOK'
  BY <1>18 DEF Opened
<1>19. ASSUME NEW d \in Drivers, Declared(d)
      PROVE  TypeOK'
  BY <1>19 DEF Declared
<1>20. ASSUME NEW d \in Drivers, Consuming(d)
      PROVE  TypeOK'
  BY <1>20 DEF Consuming, Snapshot
<1>21. ASSUME NEW d \in Drivers, StartFails(d)
      PROVE  TypeOK'
  BY <1>21 DEF StartFails, AttemptFails, AttemptsLeft, GiveUp, DiscardAll,
     Complete
<1>22. ASSUME NEW d \in Drivers, BackoffEnds(d)
      PROVE  TypeOK'
  BY <1>22 DEF BackoffEnds
<1>23. ASSUME NEW d \in Drivers, RepublishSelected(d)
      PROVE  TypeOK'
  <2>1. CASE WriteRaises
    BY <1>23, <2>1, AttemptFailsType DEF RepublishSelected
  <2>2. CASE ~WriteRaises
    <3>1. cur \in Requests
      BY <1>23 DEF RepublishSelected, LockInv, CurHeld
    <3>2. Publish(Republisher, cur) /\ UNCHANGED <<fut, tableVars, driverVars>>
      BY <1>23, <2>2 DEF RepublishSelected, WriteRaises
    <3>3. pub' \in [Publishers -> {"none", "select", "selok", "deaf", "sent",
                               "unrouted", "ok", "nack", "returned", "lost",
                               "orphan"}]
      BY <3>2 DEF Publish
    <3>4. sent' \subseteq Requests
      BY <3>1, <3>2 DEF Publish
    <3> QED BY <1>23, <3>2, <3>3, <3>4 DEF RepublishSelected
  <2> QED BY <2>1, <2>2
<1>24. ASSUME NEW d \in Drivers, RepublishConfirmed(d)
      PROVE  TypeOK'
  BY <1>24 DEF RepublishConfirmed
<1>25. ASSUME NEW d \in Drivers, RepublishRejected(d)
      PROVE  TypeOK'
  BY <1>25 DEF RepublishRejected, FailAndForget, Complete
<1>26. ASSUME NEW d \in Drivers, RepublishLost(d)
      PROVE  TypeOK'
  BY <1>26 DEF RepublishLost, AttemptFails, AttemptsLeft, GiveUp, DiscardAll,
     Complete
<1>27. ASSUME NEW d \in Drivers, Reconnected(d)
      PROVE  TypeOK'
  BY <1>27 DEF Reconnected
<1>28. ASSUME NEW d \in Drivers, Dialled(d)
      PROVE  TypeOK'
  BY <1>28 DEF Dialled
<1>29. ASSUME NEW d \in Drivers, BrokerAnswers(d)
      PROVE  TypeOK'
  BY <1>29 DEF BrokerAnswers
<1>30. ASSUME NEW d \in Drivers, NEW r \in Requests, RepublishSkip(d, r)
      PROVE  TypeOK'
  BY <1>30 DEF RepublishSkip
<1>31. ASSUME NEW d \in Drivers, NEW r \in Requests, RepublishBlocked(d, r)
      PROVE  TypeOK'
  BY <1>31 DEF RepublishBlocked, FailAndForget, Complete
<1>32. ASSUME NEW d \in Drivers, NEW r \in Requests, RepublishRaises(d, r)
      PROVE  TypeOK'
  BY <1>32 DEF RepublishRaises, AttemptFails, AttemptsLeft, GiveUp, DiscardAll,
     Complete
<1>33. ASSUME NEW d \in Drivers, NEW r \in Requests, Republish(d, r)
      PROVE  TypeOK'
  BY <1>33 DEF Republish, BeginPublish, Publish, Select, Republishing
<1>34. CASE SocketReset
  BY <1>34 DEF SocketReset
<1>35. CASE Loss
  BY <1>35, OnConnectionLostType DEF Loss, PubsAfterLoss
<1>36. CASE ReplyRound
  BY <1>36 DEF ReplyRound
<1>37. CASE ReplyLoopEnds
  BY <1>37, OnConnectionLostType DEF ReplyLoopEnds
<1>38. CASE StartManual
  BY <1>38 DEF StartManual
<1>39. CASE Close
  BY <1>39 DEF Close, DiscardAll, Complete
<1>40. CASE CloseOk
  BY <1>40 DEF CloseOk
<1>50. CASE UNCHANGED vars
  BY <1>50 DEF vars
<1> QED BY <1>1, <1>2, <1>3, <1>4, <1>5, <1>6, <1>7, <1>8, <1>9, <1>10, <1>11,
        <1>12, <1>13, <1>14, <1>15, <1>16, <1>17, <1>18, <1>19, <1>20, <1>21,
        <1>22, <1>23, <1>24, <1>25, <1>26, <1>27, <1>28, <1>29, <1>30, <1>31,
        <1>32, <1>33, <1>34, <1>35, <1>36, <1>37, <1>38, <1>39, <1>40, <1>50
        DEF Next, Caller, Driver

-----------------------------------------------------------------------------
(* The reconnect lock and the connection. *)

\* The reconnect lock is held by one task, and only its holder republishes.
LEMMA LockStep == TypeOK /\ LockInv /\ [Next]_vars => LockInv'
<1> SUFFICES ASSUME TypeOK, LockInv, [Next]_vars PROVE LockInv'
  OBVIOUS
<1> USE DEF LockInv, Mutex, CurHeld, TypeOK, tableVars, callVars, sessionVars,
        connVars, driverVars,
            brokerVars, wireVars, clientVars, serviceVars
<1>1. ASSUME NEW r \in Requests, RequestRefused(r)
      PROVE  LockInv'
  BY <1>1 DEF RequestRefused
<1>2. ASSUME NEW r \in Requests, RequestBlocked(r)
      PROVE  LockInv'
  BY <1>2 DEF RequestBlocked
<1>3. ASSUME NEW r \in Requests, RequestRaises(r)
      PROVE  LockInv'
  BY <1>3 DEF RequestRaises
<1>4. ASSUME NEW r \in Requests, Request(r)
      PROVE  LockInv'
  BY <1>4 DEF Request, BeginPublish, Publish, Select
<1>5. ASSUME NEW r \in Requests, RequestSelected(r)
      PROVE  LockInv'
  BY <1>5 DEF RequestSelected, Publish
<1>6. ASSUME NEW r \in Requests, RequestConfirmed(r)
      PROVE  LockInv'
  BY <1>6 DEF RequestConfirmed
<1>7. ASSUME NEW r \in Requests, RequestRejected(r)
      PROVE  LockInv'
  BY <1>7 DEF RequestRejected
<1>8. ASSUME NEW r \in Requests, RequestLost(r)
      PROVE  LockInv'
  BY <1>8 DEF RequestLost
<1>9. ASSUME NEW r \in Requests, RequestReturns(r)
      PROVE  LockInv'
  BY <1>9 DEF RequestReturns
<1>10. ASSUME NEW r \in Requests, RequestTimeout(r)
      PROVE  LockInv'
  BY <1>10 DEF RequestTimeout
<1>11. ASSUME NEW r \in Requests, RequestCancelled(r)
      PROVE  LockInv'
  BY <1>11 DEF RequestCancelled
<1>12. ASSUME NEW r \in Requests, Deliver(r)
      PROVE  LockInv'
  BY <1>12 DEF Deliver
<1>13. ASSUME NEW p \in Publishers, SelectOk(p)
      PROVE  LockInv'
  BY <1>13 DEF SelectOk
<1>14. ASSUME NEW p \in Publishers, Confirm(p)
      PROVE  LockInv'
  BY <1>14 DEF Confirm
<1>15. ASSUME NEW d \in Drivers, AlreadyOpen(d)
      PROVE  LockInv'
  BY <1>15 DEF AlreadyOpen
<1>16. ASSUME NEW d \in Drivers, Teardown(d)
      PROVE  LockInv'
  BY <1>16 DEF Teardown, LockFree
<1>17. ASSUME NEW d \in Drivers, StartEpoch(d)
      PROVE  LockInv'
  BY <1>17 DEF StartEpoch
<1>18. ASSUME NEW d \in Drivers, Opened(d)
      PROVE  LockInv'
  BY <1>18 DEF Opened
<1>19. ASSUME NEW d \in Drivers, Declared(d)
      PROVE  LockInv'
  BY <1>19 DEF Declared
<1>20. ASSUME NEW d \in Drivers, Consuming(d)
      PROVE  LockInv'
  BY <1>20 DEF Consuming
<1>21. ASSUME NEW d \in Drivers, StartFails(d)
      PROVE  LockInv'
  BY <1>21 DEF StartFails, AttemptFails, AttemptsLeft
<1>22. ASSUME NEW d \in Drivers, BackoffEnds(d)
      PROVE  LockInv'
  BY <1>22 DEF BackoffEnds
<1>23. ASSUME NEW d \in Drivers, RepublishSelected(d)
      PROVE  LockInv'
  BY <1>23 DEF RepublishSelected, Publish, AttemptFails, AttemptsLeft
<1>24. ASSUME NEW d \in Drivers, RepublishConfirmed(d)
      PROVE  LockInv'
  BY <1>24 DEF RepublishConfirmed
<1>25. ASSUME NEW d \in Drivers, RepublishRejected(d)
      PROVE  LockInv'
  BY <1>25 DEF RepublishRejected
<1>26. ASSUME NEW d \in Drivers, RepublishLost(d)
      PROVE  LockInv'
  BY <1>26 DEF RepublishLost, AttemptFails, AttemptsLeft
<1>27. ASSUME NEW d \in Drivers, Reconnected(d)
      PROVE  LockInv'
  BY <1>27 DEF Reconnected, Republishing
<1>28. ASSUME NEW d \in Drivers, Dialled(d)
      PROVE  LockInv'
  BY <1>28 DEF Dialled
<1>29. ASSUME NEW d \in Drivers, BrokerAnswers(d)
      PROVE  LockInv'
  BY <1>29 DEF BrokerAnswers
<1>30. ASSUME NEW d \in Drivers, NEW r \in Requests, RepublishSkip(d, r)
      PROVE  LockInv'
  BY <1>30 DEF RepublishSkip, Republishing
<1>31. ASSUME NEW d \in Drivers, NEW r \in Requests, RepublishBlocked(d, r)
      PROVE  LockInv'
  BY <1>31 DEF RepublishBlocked, Republishing
<1>32. ASSUME NEW d \in Drivers, NEW r \in Requests, RepublishRaises(d, r)
      PROVE  LockInv'
  BY <1>32 DEF RepublishRaises, AttemptFails, AttemptsLeft, Republishing
<1>33. ASSUME NEW d \in Drivers, NEW r \in Requests, Republish(d, r)
      PROVE  LockInv'
  BY <1>33 DEF Republish, BeginPublish, Publish, Select, Republishing
<1>34. CASE SocketReset
  BY <1>34 DEF SocketReset
<1>35. CASE Loss
  BY <1>35 DEF Loss, PubsAfterLoss, OnConnectionLost
<1>36. CASE ReplyRound
  BY <1>36 DEF ReplyRound
<1>37. CASE ReplyLoopEnds
  BY <1>37 DEF ReplyLoopEnds, OnConnectionLost
<1>38. CASE StartManual
  BY <1>38 DEF StartManual
<1>39. CASE Close
  BY <1>39 DEF Close
<1>40. CASE CloseOk
  BY <1>40 DEF CloseOk
<1>41. CASE UNCHANGED vars
  BY <1>41 DEF vars
<1> QED BY <1>1, <1>2, <1>3, <1>4, <1>5, <1>6, <1>7, <1>8, <1>9, <1>10, <1>11,
        <1>12, <1>13, <1>14, <1>15, <1>16, <1>17, <1>18, <1>19, <1>20, <1>21,
        <1>22, <1>23, <1>24, <1>25, <1>26, <1>27, <1>28, <1>29, <1>30, <1>31,
        <1>32, <1>33, <1>34, <1>35, <1>36, <1>37, <1>38, <1>39, <1>40, <1>41
        DEF Next, Caller, Driver

\* reply_queue_open stays the mark of a live connection through losses,
\* teardown, the steps of start() and close.
LEMMA ConnectionStep ==
  TypeOK /\ Mutex /\ ConnectionInv /\ [Next]_vars => ConnectionInv'
<1> SUFFICES ASSUME TypeOK, Mutex, ConnectionInv, [Next]_vars
             PROVE  ConnectionInv'
  OBVIOUS
<1> USE DEF ConnectionInv, Mutex, OpenIsLive, LossIsOld, ConsumeLive,
        StartingClosed, ReplyQueueOpen, TypeOK, tableVars, callVars,
        sessionVars, connVars, driverVars,
            brokerVars, wireVars, clientVars, serviceVars
<1>1. ASSUME NEW r \in Requests, RequestRefused(r)
      PROVE  ConnectionInv'
  BY <1>1 DEF RequestRefused
<1>2. ASSUME NEW r \in Requests, RequestBlocked(r)
      PROVE  ConnectionInv'
  BY <1>2 DEF RequestBlocked
<1>3. ASSUME NEW r \in Requests, RequestRaises(r)
      PROVE  ConnectionInv'
  BY <1>3 DEF RequestRaises
<1>4. ASSUME NEW r \in Requests, Request(r)
      PROVE  ConnectionInv'
  BY <1>4 DEF Request
<1>5. ASSUME NEW r \in Requests, RequestSelected(r)
      PROVE  ConnectionInv'
  BY <1>5 DEF RequestSelected
<1>6. ASSUME NEW r \in Requests, RequestConfirmed(r)
      PROVE  ConnectionInv'
  BY <1>6 DEF RequestConfirmed
<1>7. ASSUME NEW r \in Requests, RequestRejected(r)
      PROVE  ConnectionInv'
  BY <1>7 DEF RequestRejected
<1>8. ASSUME NEW r \in Requests, RequestLost(r)
      PROVE  ConnectionInv'
  BY <1>8 DEF RequestLost
<1>9. ASSUME NEW r \in Requests, RequestReturns(r)
      PROVE  ConnectionInv'
  BY <1>9 DEF RequestReturns
<1>10. ASSUME NEW r \in Requests, RequestTimeout(r)
      PROVE  ConnectionInv'
  BY <1>10 DEF RequestTimeout
<1>11. ASSUME NEW r \in Requests, RequestCancelled(r)
      PROVE  ConnectionInv'
  BY <1>11 DEF RequestCancelled
<1>12. ASSUME NEW r \in Requests, Deliver(r)
      PROVE  ConnectionInv'
  BY <1>12 DEF Deliver
<1>13. ASSUME NEW p \in Publishers, SelectOk(p)
      PROVE  ConnectionInv'
  BY <1>13 DEF SelectOk
<1>14. ASSUME NEW p \in Publishers, Confirm(p)
      PROVE  ConnectionInv'
  BY <1>14 DEF Confirm
<1>15. ASSUME NEW d \in Drivers, AlreadyOpen(d)
      PROVE  ConnectionInv'
  BY <1>15 DEF AlreadyOpen
<1>16. ASSUME NEW d \in Drivers, Teardown(d)
      PROVE  ConnectionInv'
  BY <1>16 DEF Teardown, LockFree, ReplyQueueOpen
<1>17. ASSUME NEW d \in Drivers, StartEpoch(d)
      PROVE  ConnectionInv'
  BY <1>17 DEF StartEpoch
<1>18. ASSUME NEW d \in Drivers, Opened(d)
      PROVE  ConnectionInv'
  BY <1>18 DEF Opened
<1>19. ASSUME NEW d \in Drivers, Declared(d)
      PROVE  ConnectionInv'
  BY <1>19 DEF Declared
<1>20. ASSUME NEW d \in Drivers, Consuming(d)
      PROVE  ConnectionInv'
  BY <1>20 DEF Consuming
<1>21. ASSUME NEW d \in Drivers, StartFails(d)
      PROVE  ConnectionInv'
  BY <1>21 DEF StartFails, AttemptFails, AttemptsLeft
<1>22. ASSUME NEW d \in Drivers, BackoffEnds(d)
      PROVE  ConnectionInv'
  BY <1>22 DEF BackoffEnds
<1>23. ASSUME NEW d \in Drivers, RepublishSelected(d)
      PROVE  ConnectionInv'
  BY <1>23 DEF RepublishSelected, AttemptFails, AttemptsLeft
<1>24. ASSUME NEW d \in Drivers, RepublishConfirmed(d)
      PROVE  ConnectionInv'
  BY <1>24 DEF RepublishConfirmed
<1>25. ASSUME NEW d \in Drivers, RepublishRejected(d)
      PROVE  ConnectionInv'
  BY <1>25 DEF RepublishRejected
<1>26. ASSUME NEW d \in Drivers, RepublishLost(d)
      PROVE  ConnectionInv'
  BY <1>26 DEF RepublishLost, AttemptFails, AttemptsLeft
<1>27. ASSUME NEW d \in Drivers, Reconnected(d)
      PROVE  ConnectionInv'
  BY <1>27 DEF Reconnected, Republishing
<1>28. ASSUME NEW d \in Drivers, Dialled(d)
      PROVE  ConnectionInv'
  BY <1>28 DEF Dialled
<1>29. ASSUME NEW d \in Drivers, BrokerAnswers(d)
      PROVE  ConnectionInv'
  BY <1>29 DEF BrokerAnswers
<1>30. ASSUME NEW d \in Drivers, NEW r \in Requests, RepublishSkip(d, r)
      PROVE  ConnectionInv'
  BY <1>30 DEF RepublishSkip, Republishing
<1>31. ASSUME NEW d \in Drivers, NEW r \in Requests, RepublishBlocked(d, r)
      PROVE  ConnectionInv'
  BY <1>31 DEF RepublishBlocked, Republishing
<1>32. ASSUME NEW d \in Drivers, NEW r \in Requests, RepublishRaises(d, r)
      PROVE  ConnectionInv'
  BY <1>32 DEF RepublishRaises, AttemptFails, AttemptsLeft, Republishing
<1>33. ASSUME NEW d \in Drivers, NEW r \in Requests, Republish(d, r)
      PROVE  ConnectionInv'
  BY <1>33 DEF Republish
<1>34. CASE SocketReset
  BY <1>34 DEF SocketReset
<1>35. CASE Loss
  BY <1>35 DEF Loss, OnConnectionLost
<1>36. CASE ReplyRound
  BY <1>36 DEF ReplyRound
<1>37. CASE ReplyLoopEnds
  BY <1>37 DEF ReplyLoopEnds, OnConnectionLost
<1>38. CASE StartManual
  BY <1>38 DEF StartManual
<1>39. CASE Close
  BY <1>39 DEF Close
<1>40. CASE CloseOk
  BY <1>40 DEF CloseOk
<1>41. CASE UNCHANGED vars
  BY <1>41 DEF vars
<1> QED BY <1>1, <1>2, <1>3, <1>4, <1>5, <1>6, <1>7, <1>8, <1>9, <1>10, <1>11,
        <1>12, <1>13, <1>14, <1>15, <1>16, <1>17, <1>18, <1>19, <1>20, <1>21,
        <1>22, <1>23, <1>24, <1>25, <1>26, <1>27, <1>28, <1>29, <1>30, <1>31,
        <1>32, <1>33, <1>34, <1>35, <1>36, <1>37, <1>38, <1>39, <1>40, <1>41
        DEF Next, Caller, Driver

-----------------------------------------------------------------------------
(* Calls. *)

\* Failing everything outstanding leaves no call half forgotten.
LEMMA DiscardCalls ==
  ASSUME TypeOK, CallsInv, NEW outcome \in Outcomes, DiscardAll(outcome),
         UNCHANGED <<pc, result>>
  PROVE  CallsInv'
  BY DEF DiscardAll, Complete, CallsInv, FutureTracked, Recoverable,
     TableClean, PendingOpen, IdleUntouched, Awaiting, TypeOK

\* CallsInv depends on the calls, futures and tables alone.
LEMMA UnchangedCalls ==
  ASSUME CallsInv, UNCHANGED <<pc, result, fut, pending, parked>>
  PROVE  CallsInv'
  BY DEF CallsInv, FutureTracked, Recoverable, TableClean, PendingOpen,
     IdleUntouched, Awaiting, SameId

\* Session._on_connection_lost, parking or failing fast, keeps CallsInv.
LEMMA OnConnectionLostCalls ==
  ASSUME TypeOK, CallsInv, OnConnectionLost, UNCHANGED <<pc, result>>
  PROVE  CallsInv'
<1>1. DiscardAll("lost") \/ UNCHANGED <<fut, pending, parked>>
  BY DEF OnConnectionLost, tableVars, TypeOK
<1> QED BY <1>1, DiscardCalls, UnchangedCalls

\* A failed reconnect attempt, the last one included, keeps CallsInv.
LEMMA AttemptFailsCalls ==
  ASSUME TypeOK, CallsInv, NEW d \in Drivers, AttemptFails(d),
         UNCHANGED <<pc, result>>
  PROVE  CallsInv'
<1>1. DiscardAll("lost") \/ UNCHANGED <<fut, pending, parked>>
  BY DEF AttemptFails, AttemptsLeft, GiveUp, tableVars, TypeOK
<1> QED BY <1>1, DiscardCalls, UnchangedCalls

\* Every step keeps futures tracked, awaiting calls parked and the table free
\* of calls that are over.
LEMMA CallsStep == TypeOK /\ LockInv /\ CallsInv /\ [Next]_vars => CallsInv'
<1> SUFFICES ASSUME TypeOK, LockInv, CallsInv, [Next]_vars PROVE CallsInv'
  OBVIOUS
<1> USE DEF CallsInv, FutureTracked, Recoverable, TableClean, PendingOpen,
        IdleUntouched, Awaiting, TypeOK, tableVars, callVars, sessionVars,
        connVars, driverVars,
            brokerVars, wireVars, clientVars, serviceVars
<1>1. ASSUME NEW r \in Requests, RequestRefused(r)
      PROVE  CallsInv'
  BY <1>1 DEF RequestRefused, MayCall, Ends
<1>2. ASSUME NEW r \in Requests, RequestBlocked(r)
      PROVE  CallsInv'
  BY <1>2 DEF RequestBlocked, Accepted, MayCall, Registered, Ends, SameId
<1>3. ASSUME NEW r \in Requests, RequestRaises(r)
      PROVE  CallsInv'
  BY <1>3 DEF RequestRaises, Accepted, MayCall, Ends
<1>4. ASSUME NEW r \in Requests, Request(r)
      PROVE  CallsInv'
  BY <1>4 DEF Request, Accepted, MayCall
<1>5. ASSUME NEW r \in Requests, RequestSelected(r)
      PROVE  CallsInv'
  BY <1>5 DEF RequestSelected, Ends, WriteRaises
<1>6. ASSUME NEW r \in Requests, RequestConfirmed(r)
      PROVE  CallsInv'
  BY <1>6 DEF RequestConfirmed, Remember, SameId
<1>7. ASSUME NEW r \in Requests, RequestRejected(r)
      PROVE  CallsInv'
  BY <1>7 DEF RequestRejected, Ends, FailAndForget, Complete, SameId
<1>8. ASSUME NEW r \in Requests, RequestLost(r)
      PROVE  CallsInv'
  BY <1>8 DEF RequestLost, Ends
<1>9. ASSUME NEW r \in Requests, RequestReturns(r)
      PROVE  CallsInv'
  BY <1>9 DEF RequestReturns, Ends
<1>10. ASSUME NEW r \in Requests, RequestTimeout(r)
      PROVE  CallsInv'
  BY <1>10 DEF RequestTimeout, Ends, FailAndForget, Complete, SameId
<1>11. ASSUME NEW r \in Requests, RequestCancelled(r)
      PROVE  CallsInv'
  BY <1>11 DEF RequestCancelled, Ends, Complete
<1>12. ASSUME NEW r \in Requests, Deliver(r)
      PROVE  CallsInv'
  BY <1>12 DEF Deliver
<1>13. ASSUME NEW p \in Publishers, SelectOk(p)
      PROVE  CallsInv'
  BY <1>13 DEF SelectOk
<1>14. ASSUME NEW p \in Publishers, Confirm(p)
      PROVE  CallsInv'
  BY <1>14 DEF Confirm
<1>15. ASSUME NEW d \in Drivers, AlreadyOpen(d)
      PROVE  CallsInv'
  BY <1>15 DEF AlreadyOpen
<1>16. ASSUME NEW d \in Drivers, Teardown(d)
      PROVE  CallsInv'
  BY <1>16, DiscardCalls DEF Teardown
<1>17. ASSUME NEW d \in Drivers, StartEpoch(d)
      PROVE  CallsInv'
  BY <1>17 DEF StartEpoch
<1>18. ASSUME NEW d \in Drivers, Opened(d)
      PROVE  CallsInv'
  BY <1>18 DEF Opened
<1>19. ASSUME NEW d \in Drivers, Declared(d)
      PROVE  CallsInv'
  BY <1>19 DEF Declared
<1>20. ASSUME NEW d \in Drivers, Consuming(d)
      PROVE  CallsInv'
  BY <1>20 DEF Consuming
<1>21. ASSUME NEW d \in Drivers, StartFails(d)
      PROVE  CallsInv'
  BY <1>21, AttemptFailsCalls DEF StartFails
<1>22. ASSUME NEW d \in Drivers, BackoffEnds(d)
      PROVE  CallsInv'
  BY <1>22 DEF BackoffEnds
<1>23. ASSUME NEW d \in Drivers, RepublishSelected(d)
      PROVE  CallsInv'
  BY <1>23, AttemptFailsCalls DEF RepublishSelected, WriteRaises
<1>24. ASSUME NEW d \in Drivers, RepublishConfirmed(d)
      PROVE  CallsInv'
  BY <1>24 DEF RepublishConfirmed
<1>25. ASSUME NEW d \in Drivers, RepublishRejected(d)
      PROVE  CallsInv'
  BY <1>25 DEF RepublishRejected, FailAndForget, Complete, SameId, LockInv,
     CurHeld
<1>26. ASSUME NEW d \in Drivers, RepublishLost(d)
      PROVE  CallsInv'
  BY <1>26, AttemptFailsCalls DEF RepublishLost
<1>27. ASSUME NEW d \in Drivers, Reconnected(d)
      PROVE  CallsInv'
  BY <1>27 DEF Reconnected
<1>28. ASSUME NEW d \in Drivers, Dialled(d)
      PROVE  CallsInv'
  BY <1>28 DEF Dialled
<1>29. ASSUME NEW d \in Drivers, BrokerAnswers(d)
      PROVE  CallsInv'
  BY <1>29 DEF BrokerAnswers
<1>30. ASSUME NEW d \in Drivers, NEW r \in Requests, RepublishSkip(d, r)
      PROVE  CallsInv'
  BY <1>30 DEF RepublishSkip, Registered, SameId
<1>31. ASSUME NEW d \in Drivers, NEW r \in Requests, RepublishBlocked(d, r)
      PROVE  CallsInv'
  BY <1>31 DEF RepublishBlocked, FailAndForget, Complete, SameId
<1>32. ASSUME NEW d \in Drivers, NEW r \in Requests, RepublishRaises(d, r)
      PROVE  CallsInv'
  BY <1>32, AttemptFailsCalls DEF RepublishRaises
<1>33. ASSUME NEW d \in Drivers, NEW r \in Requests, Republish(d, r)
      PROVE  CallsInv'
  BY <1>33 DEF Republish
<1>34. CASE SocketReset
  BY <1>34 DEF SocketReset
<1>35. CASE Loss
  BY <1>35, OnConnectionLostCalls DEF Loss
<1>36. CASE ReplyRound
  BY <1>36 DEF ReplyRound, SameId, WriteRaises
<1>37. CASE ReplyLoopEnds
  BY <1>37, OnConnectionLostCalls DEF ReplyLoopEnds
<1>38. CASE StartManual
  BY <1>38 DEF StartManual
<1>39. CASE Close
  BY <1>39, DiscardCalls DEF Close
<1>40. CASE CloseOk
  BY <1>40 DEF CloseOk
<1>41. CASE UNCHANGED vars
  BY <1>41 DEF vars
<1> QED BY <1>1, <1>2, <1>3, <1>4, <1>5, <1>6, <1>7, <1>8, <1>9, <1>10, <1>11,
        <1>12, <1>13, <1>14, <1>15, <1>16, <1>17, <1>18, <1>19, <1>20, <1>21,
        <1>22, <1>23, <1>24, <1>25, <1>26, <1>27, <1>28, <1>29, <1>30, <1>31,
        <1>32, <1>33, <1>34, <1>35, <1>36, <1>37, <1>38, <1>39, <1>40, <1>41
        DEF Next, Caller, Driver

-----------------------------------------------------------------------------
(* The refinement of RpcCall. *)

\* With distinct ids no reply completes a call but the one it answers.
LEMMA AnswersStep ==
  UniqueIds /\ TypeOK /\ AnswersInv /\ [Next]_vars => AnswersInv'
<1> SUFFICES ASSUME UniqueIds, TypeOK, AnswersInv, [Next]_vars
             PROVE  AnswersInv'
  OBVIOUS
<1> USE DEF AnswersInv, Untouched, InboxServed, ReplyIsOwn, ResultIsReply,
        TypeOK, tableVars, callVars, sessionVars, connVars, driverVars,
            brokerVars, wireVars, clientVars, serviceVars
<1>1. ASSUME NEW r \in Requests, RequestRefused(r)
      PROVE  AnswersInv'
  BY <1>1 DEF RequestRefused, MayCall, Ends
<1>2. ASSUME NEW r \in Requests, RequestBlocked(r)
      PROVE  AnswersInv'
  BY <1>2 DEF RequestBlocked, Accepted, MayCall, Ends
<1>3. ASSUME NEW r \in Requests, RequestRaises(r)
      PROVE  AnswersInv'
  BY <1>3 DEF RequestRaises, Accepted, MayCall, Ends
<1>4. ASSUME NEW r \in Requests, Request(r)
      PROVE  AnswersInv'
  BY <1>4 DEF Request, Accepted, MayCall, BeginPublish, Publish
<1>5. ASSUME NEW r \in Requests, RequestSelected(r)
      PROVE  AnswersInv'
  BY <1>5 DEF RequestSelected, Ends, Publish
<1>6. ASSUME NEW r \in Requests, RequestConfirmed(r)
      PROVE  AnswersInv'
  BY <1>6 DEF RequestConfirmed, Remember
<1>7. ASSUME NEW r \in Requests, RequestRejected(r)
      PROVE  AnswersInv'
  BY <1>7 DEF RequestRejected, Ends, FailAndForget, Complete
<1>8. ASSUME NEW r \in Requests, RequestLost(r)
      PROVE  AnswersInv'
  BY <1>8 DEF RequestLost, Ends
<1>9. ASSUME NEW r \in Requests, RequestReturns(r)
      PROVE  AnswersInv'
  BY <1>9 DEF RequestReturns, Ends
<1>10. ASSUME NEW r \in Requests, RequestTimeout(r)
      PROVE  AnswersInv'
  BY <1>10 DEF RequestTimeout, Ends, FailAndForget, Complete
<1>11. ASSUME NEW r \in Requests, RequestCancelled(r)
      PROVE  AnswersInv'
  BY <1>11 DEF RequestCancelled, Ends, Complete
<1>12. ASSUME NEW r \in Requests, Deliver(r)
      PROVE  AnswersInv'
  BY <1>12 DEF Deliver
<1>13. ASSUME NEW p \in Publishers, SelectOk(p)
      PROVE  AnswersInv'
  BY <1>13 DEF SelectOk
<1>14. ASSUME NEW p \in Publishers, Confirm(p)
      PROVE  AnswersInv'
  BY <1>14 DEF Confirm
<1>15. ASSUME NEW d \in Drivers, AlreadyOpen(d)
      PROVE  AnswersInv'
  BY <1>15 DEF AlreadyOpen
<1>16. ASSUME NEW d \in Drivers, Teardown(d)
      PROVE  AnswersInv'
  BY <1>16 DEF Teardown, DiscardAll, Complete
<1>17. ASSUME NEW d \in Drivers, StartEpoch(d)
      PROVE  AnswersInv'
  BY <1>17 DEF StartEpoch
<1>18. ASSUME NEW d \in Drivers, Opened(d)
      PROVE  AnswersInv'
  BY <1>18 DEF Opened
<1>19. ASSUME NEW d \in Drivers, Declared(d)
      PROVE  AnswersInv'
  BY <1>19 DEF Declared
<1>20. ASSUME NEW d \in Drivers, Consuming(d)
      PROVE  AnswersInv'
  BY <1>20 DEF Consuming, Snapshot
<1>21. ASSUME NEW d \in Drivers, StartFails(d)
      PROVE  AnswersInv'
  BY <1>21 DEF StartFails, AttemptFails, AttemptsLeft, GiveUp, DiscardAll,
     Complete
<1>22. ASSUME NEW d \in Drivers, BackoffEnds(d)
      PROVE  AnswersInv'
  BY <1>22 DEF BackoffEnds
<1>23. ASSUME NEW d \in Drivers, RepublishSelected(d)
      PROVE  AnswersInv'
  BY <1>23 DEF RepublishSelected, AttemptFails, AttemptsLeft, GiveUp,
     DiscardAll, Complete, Publish
<1>24. ASSUME NEW d \in Drivers, RepublishConfirmed(d)
      PROVE  AnswersInv'
  BY <1>24 DEF RepublishConfirmed
<1>25. ASSUME NEW d \in Drivers, RepublishRejected(d)
      PROVE  AnswersInv'
  BY <1>25 DEF RepublishRejected, FailAndForget, Complete
<1>26. ASSUME NEW d \in Drivers, RepublishLost(d)
      PROVE  AnswersInv'
  BY <1>26 DEF RepublishLost, AttemptFails, AttemptsLeft, GiveUp, DiscardAll,
     Complete
<1>27. ASSUME NEW d \in Drivers, Reconnected(d)
      PROVE  AnswersInv'
  BY <1>27 DEF Reconnected
<1>28. ASSUME NEW d \in Drivers, Dialled(d)
      PROVE  AnswersInv'
  BY <1>28 DEF Dialled
<1>29. ASSUME NEW d \in Drivers, BrokerAnswers(d)
      PROVE  AnswersInv'
  BY <1>29 DEF BrokerAnswers
<1>30. ASSUME NEW d \in Drivers, NEW r \in Requests, RepublishSkip(d, r)
      PROVE  AnswersInv'
  BY <1>30 DEF RepublishSkip
<1>31. ASSUME NEW d \in Drivers, NEW r \in Requests, RepublishBlocked(d, r)
      PROVE  AnswersInv'
  BY <1>31 DEF RepublishBlocked, FailAndForget, Complete
<1>32. ASSUME NEW d \in Drivers, NEW r \in Requests, RepublishRaises(d, r)
      PROVE  AnswersInv'
  BY <1>32 DEF RepublishRaises, AttemptFails, AttemptsLeft, GiveUp, DiscardAll,
     Complete
<1>33. ASSUME NEW d \in Drivers, NEW r \in Requests, Republish(d, r)
      PROVE  AnswersInv'
  BY <1>33 DEF Republish, BeginPublish, Publish
<1>34. CASE SocketReset
  BY <1>34 DEF SocketReset
<1>35. CASE Loss
  BY <1>35 DEF Loss, OnConnectionLost, DiscardAll, Complete
<1>36. CASE ReplyRound
  <2> DEFINE r == Head(inbox)
  <2>1. r \in Requests
    BY <1>36 DEF ReplyRound
  <2>2. r = inbox[1] /\ 1 \in 1..Len(inbox)
    BY <1>36 DEF ReplyRound
  <2>3. r \in served
    BY <2>2
  <2>4. SameId(r) = {r}
    BY <2>1 DEF UniqueIds, SameId
  <2>5. Untouched'
    BY <1>36 DEF ReplyRound, WriteRaises
  <2>6. InboxServed'
    BY <1>36 DEF ReplyRound
  <2>7. \A s \in Requests :
          /\ fut[s] # "pending" => fut'[s] = fut[s] /\ got'[s] = got[s]
          /\ fut[s] = "pending" /\ fut'[s] = "reply" => s = r /\ got'[s] = {r}
    <3>1. fut' = [s \in Requests |->
                   IF \/ fut[s] # "pending"
                      \/ s \notin (IF WriteRaises THEN pending
                                    ELSE SameId(r) \cap pending)
                   THEN fut[s]
                   ELSE IF s \in SameId(r) \cap pending THEN "reply"
                   ELSE "lost"]
      BY <1>36 DEF ReplyRound
    <3>2. got' = [s \in Requests |->
                    IF s \in SameId(r) \cap pending /\ fut[s] = "pending"
                    THEN {r} ELSE got[s]]
      BY <1>36 DEF ReplyRound
    <3> HIDE DEF r
    <3>3. TAKE s \in Requests
    <3>4. CASE fut[s] # "pending"
      <4>1. fut'[s] = fut[s]
        BY <3>1, <3>4
      <4>2. got'[s] = got[s]
        BY <3>2, <3>4
      <4> QED BY <3>4, <4>1, <4>2
    <3>5. CASE fut[s] = "pending" /\ s = r
      <4>1. CASE r \in pending
        BY <3>2, <3>5, <4>1, <2>4
      <4>2. CASE r \notin pending
        <5>1. fut'[s] # "reply"
          BY <3>1, <3>5, <4>2, <2>4
        <5> QED BY <3>5, <5>1
      <4> QED BY <4>1, <4>2
    <3>6. CASE fut[s] = "pending" /\ s # r
      <4>1. s \notin SameId(r) \cap pending
        BY <3>6, <2>4
      <4>2. fut'[s] # "reply"
        BY <3>1, <3>6, <4>1
      <4> QED BY <3>6, <4>2
    <3> QED BY <3>4, <3>5, <3>6
  <2>8. ReplyIsOwn' /\ ResultIsReply'
    BY <1>36, <2>3, <2>7 DEF ReplyRound
  <2> QED BY <2>5, <2>6, <2>8
<1>37. CASE ReplyLoopEnds
  BY <1>37 DEF ReplyLoopEnds, OnConnectionLost, DiscardAll, Complete
<1>38. CASE StartManual
  BY <1>38 DEF StartManual
<1>39. CASE Close
  BY <1>39 DEF Close, DiscardAll, Complete
<1>40. CASE CloseOk
  BY <1>40 DEF CloseOk
<1>41. CASE UNCHANGED vars
  BY <1>41 DEF vars
<1> QED BY <1>1, <1>2, <1>3, <1>4, <1>5, <1>6, <1>7, <1>8, <1>9, <1>10, <1>11,
        <1>12, <1>13, <1>14, <1>15, <1>16, <1>17, <1>18, <1>19, <1>20, <1>21,
        <1>22, <1>23, <1>24, <1>25, <1>26, <1>27, <1>28, <1>29, <1>30, <1>31,
        <1>32, <1>33, <1>34, <1>35, <1>36, <1>37, <1>38, <1>39, <1>40, <1>41
        DEF Next, Caller, Driver

\* A step that changes no call's abstract state is a stutter of RpcCall.
LEMMA SameMaps ==
  ASSUME \A q \in Requests : CallState(q)' = CallState(q), UNCHANGED served
  PROVE  UNCHANGED Call!callVars
  BY DEF Call!callVars

\* request() raising, from whatever phase, is a Fail step of RpcCall.
LEMMA FailMaps ==
  ASSUME TypeOK, NEW r \in Requests, NEW outcome, outcome # "reply",
         pc[r] # "done", Ends(r, outcome), UNCHANGED <<got, served>>
  PROVE  Call!Fail(r)
<1> DEFINE state == [q \in Requests |-> CallState(q)]
<1>1. CallState(r) \in {"idle", "open"}
  BY DEF CallState, TypeOK
<1>2. CallState(r)' = "failed"
  BY DEF CallState, Ends, TypeOK
<1>3. \A q \in Requests : q # r => CallState(q)' = CallState(q)
  BY DEF CallState, Ends, TypeOK
<1>4. state' = [state EXCEPT ![r] = "failed"]
  BY <1>2, <1>3
<1> QED BY <1>1, <1>4 DEF Call!Fail

\* Every step of Session is a step of RpcCall or a stutter.
LEMMA RefinementStep ==
  UniqueIds /\ TypeOK /\ AnswersInv /\ [Next]_vars
    => [Call!Next]_(Call!callVars)
<1> SUFFICES ASSUME UniqueIds, TypeOK, AnswersInv, [Next]_vars
             PROVE  [Call!Next]_(Call!callVars)
  OBVIOUS
<1> USE DEF tableVars, callVars, sessionVars, connVars, driverVars,
            brokerVars, wireVars, clientVars, serviceVars
<1>1. ASSUME NEW r \in Requests, RequestRefused(r)
      PROVE  [Call!Next]_(Call!callVars)
  BY <1>1, FailMaps DEF RequestRefused, MayCall, Call!Next
<1>2. ASSUME NEW r \in Requests, RequestBlocked(r)
      PROVE  [Call!Next]_(Call!callVars)
  BY <1>2, FailMaps DEF RequestBlocked, Accepted, MayCall, Call!Next
<1>3. ASSUME NEW r \in Requests, RequestRaises(r)
      PROVE  [Call!Next]_(Call!callVars)
  BY <1>3, FailMaps DEF RequestRaises, Accepted, MayCall, Call!Next
<1>4. ASSUME NEW r \in Requests, Request(r)
      PROVE  [Call!Next]_(Call!callVars)
  <2> DEFINE state == [q \in Requests |-> CallState(q)]
  <2>1. CallState(r) = "idle" /\ CallState(r)' = "open"
    BY <1>4 DEF Request, Accepted, MayCall, CallState, TypeOK
  <2>2. \A q \in Requests : q # r => CallState(q)' = CallState(q)
    BY <1>4 DEF Request, CallState, TypeOK
  <2>3. state' = [state EXCEPT ![r] = "open"]
    BY <2>1, <2>2
  <2> QED BY <1>4, <2>1, <2>3 DEF Request, Call!Next, Call!Call
<1>5. ASSUME NEW r \in Requests, RequestSelected(r)
      PROVE  [Call!Next]_(Call!callVars)
  <2>1. CASE WriteRaises
    BY <1>5, <2>1, FailMaps DEF RequestSelected, WriteRaises, Call!Next
  <2>2. CASE ~WriteRaises
    <3>1. UNCHANGED <<pc, result, got, served>>
      BY <1>5, <2>2 DEF RequestSelected, WriteRaises
    <3> QED BY <3>1, SameMaps DEF CallState
  <2> QED BY <2>1, <2>2
<1>6. ASSUME NEW r \in Requests, RequestConfirmed(r)
      PROVE  [Call!Next]_(Call!callVars)
  <2>1. \A q \in Requests : CallState(q)' = CallState(q)
    BY <1>6 DEF RequestConfirmed, CallState, TypeOK
  <2> QED BY <1>6, <2>1, SameMaps DEF RequestConfirmed
<1>7. ASSUME NEW r \in Requests, RequestRejected(r)
      PROVE  [Call!Next]_(Call!callVars)
  BY <1>7, FailMaps DEF RequestRejected, Call!Next
<1>8. ASSUME NEW r \in Requests, RequestLost(r)
      PROVE  [Call!Next]_(Call!callVars)
  BY <1>8, FailMaps DEF RequestLost, Call!Next
<1>9. ASSUME NEW r \in Requests, RequestReturns(r)
      PROVE  [Call!Next]_(Call!callVars)
  <2>1. CASE fut[r] # "reply"
    BY <1>9, <2>1, FailMaps DEF RequestReturns, Call!Next
  <2>2. CASE fut[r] = "reply"
    <3> DEFINE state == [q \in Requests |-> CallState(q)]
    <3>1. got[r] = {r} /\ r \in served
      BY <2>2 DEF AnswersInv, ReplyIsOwn
    <3>2. CallState(r) = "open" /\ CallState(r)' = "replied"
      BY <1>9, <2>2, <3>1 DEF RequestReturns, Ends, CallState, TypeOK
    <3>3. \A q \in Requests : q # r => CallState(q)' = CallState(q)
      BY <1>9 DEF RequestReturns, Ends, CallState, TypeOK
    <3>4. state' = [state EXCEPT ![r] = "replied"]
      BY <3>2, <3>3
    <3> QED BY <1>9, <3>1, <3>2, <3>4 DEF RequestReturns, Call!Next, Call!Reply
  <2> QED BY <2>1, <2>2
<1>10. ASSUME NEW r \in Requests, RequestTimeout(r)
      PROVE  [Call!Next]_(Call!callVars)
  BY <1>10, FailMaps DEF RequestTimeout, Call!Next
<1>11. ASSUME NEW r \in Requests, RequestCancelled(r)
      PROVE  [Call!Next]_(Call!callVars)
  BY <1>11, FailMaps DEF RequestCancelled, Call!Next
<1>12. ASSUME NEW r \in Requests, Deliver(r)
      PROVE  [Call!Next]_(Call!callVars)
  <2>1. /\ UNCHANGED <<pc, result, got>>
        /\ served' = served \cup {r} /\ r \in sent
    BY <1>12 DEF Deliver
  <2>2. \A q \in Requests : CallState(q)' = CallState(q)
    BY <2>1 DEF CallState
  <2>3. CallState(r) # "idle"
    BY <2>1 DEF CallState, AnswersInv, Untouched, TypeOK
  <2> QED BY <2>1, <2>2, <2>3 DEF Call!Next, Call!Answer
<1>13. ASSUME NEW p \in Publishers, SelectOk(p)
      PROVE  [Call!Next]_(Call!callVars)
  BY <1>13 DEF SelectOk, CallState, Call!callVars
<1>14. ASSUME NEW p \in Publishers, Confirm(p)
      PROVE  [Call!Next]_(Call!callVars)
  BY <1>14 DEF Confirm, CallState, Call!callVars
<1>15. ASSUME NEW d \in Drivers, AlreadyOpen(d)
      PROVE  [Call!Next]_(Call!callVars)
  BY <1>15 DEF AlreadyOpen, CallState, Call!callVars
<1>16. ASSUME NEW d \in Drivers, Teardown(d)
      PROVE  [Call!Next]_(Call!callVars)
  BY <1>16 DEF Teardown, CallState, Call!callVars
<1>17. ASSUME NEW d \in Drivers, StartEpoch(d)
      PROVE  [Call!Next]_(Call!callVars)
  BY <1>17 DEF StartEpoch, CallState, Call!callVars
<1>18. ASSUME NEW d \in Drivers, Opened(d)
      PROVE  [Call!Next]_(Call!callVars)
  BY <1>18 DEF Opened, CallState, Call!callVars
<1>19. ASSUME NEW d \in Drivers, Declared(d)
      PROVE  [Call!Next]_(Call!callVars)
  BY <1>19 DEF Declared, CallState, Call!callVars
<1>20. ASSUME NEW d \in Drivers, Consuming(d)
      PROVE  [Call!Next]_(Call!callVars)
  BY <1>20 DEF Consuming, CallState, Call!callVars
<1>21. ASSUME NEW d \in Drivers, StartFails(d)
      PROVE  [Call!Next]_(Call!callVars)
  BY <1>21 DEF StartFails, CallState, Call!callVars
<1>22. ASSUME NEW d \in Drivers, BackoffEnds(d)
      PROVE  [Call!Next]_(Call!callVars)
  BY <1>22 DEF BackoffEnds, CallState, Call!callVars
<1>23. ASSUME NEW d \in Drivers, RepublishSelected(d)
      PROVE  [Call!Next]_(Call!callVars)
  BY <1>23 DEF RepublishSelected, CallState, Call!callVars
<1>24. ASSUME NEW d \in Drivers, RepublishConfirmed(d)
      PROVE  [Call!Next]_(Call!callVars)
  BY <1>24 DEF RepublishConfirmed, CallState, Call!callVars
<1>25. ASSUME NEW d \in Drivers, RepublishRejected(d)
      PROVE  [Call!Next]_(Call!callVars)
  BY <1>25 DEF RepublishRejected, CallState, Call!callVars
<1>26. ASSUME NEW d \in Drivers, RepublishLost(d)
      PROVE  [Call!Next]_(Call!callVars)
  BY <1>26 DEF RepublishLost, CallState, Call!callVars
<1>27. ASSUME NEW d \in Drivers, Reconnected(d)
      PROVE  [Call!Next]_(Call!callVars)
  BY <1>27 DEF Reconnected, CallState, Call!callVars
<1>28. ASSUME NEW d \in Drivers, Dialled(d)
      PROVE  [Call!Next]_(Call!callVars)
  BY <1>28 DEF Dialled, CallState, Call!callVars
<1>29. ASSUME NEW d \in Drivers, BrokerAnswers(d)
      PROVE  [Call!Next]_(Call!callVars)
  BY <1>29 DEF BrokerAnswers, CallState, Call!callVars
<1>30. ASSUME NEW d \in Drivers, NEW r \in Requests, RepublishSkip(d, r)
      PROVE  [Call!Next]_(Call!callVars)
  BY <1>30 DEF RepublishSkip, CallState, Call!callVars
<1>31. ASSUME NEW d \in Drivers, NEW r \in Requests, RepublishBlocked(d, r)
      PROVE  [Call!Next]_(Call!callVars)
  BY <1>31 DEF RepublishBlocked, CallState, Call!callVars
<1>32. ASSUME NEW d \in Drivers, NEW r \in Requests, RepublishRaises(d, r)
      PROVE  [Call!Next]_(Call!callVars)
  BY <1>32 DEF RepublishRaises, CallState, Call!callVars
<1>33. ASSUME NEW d \in Drivers, NEW r \in Requests, Republish(d, r)
      PROVE  [Call!Next]_(Call!callVars)
  BY <1>33 DEF Republish, CallState, Call!callVars
<1>34. CASE SocketReset
  BY <1>34 DEF SocketReset, CallState, Call!callVars
<1>35. CASE Loss
  BY <1>35 DEF Loss, CallState, Call!callVars
<1>36. CASE ReplyRound
  <2>1. \A q \in Requests : fut[q] # "pending" => got'[q] = got[q]
    BY <1>36 DEF ReplyRound, TypeOK
  <2>2. UNCHANGED <<pc, result, served>>
    BY <1>36 DEF ReplyRound
  <2>3. \A q \in Requests : CallState(q)' = CallState(q)
    BY <2>1, <2>2 DEF CallState, AnswersInv, ResultIsReply
  <2> QED BY <2>2, <2>3, SameMaps
<1>37. CASE ReplyLoopEnds
  BY <1>37 DEF ReplyLoopEnds, CallState, Call!callVars
<1>38. CASE StartManual
  BY <1>38 DEF StartManual, CallState, Call!callVars
<1>39. CASE Close
  BY <1>39 DEF Close, CallState, Call!callVars
<1>40. CASE CloseOk
  BY <1>40 DEF CloseOk, CallState, Call!callVars
<1>41. CASE UNCHANGED vars
  BY <1>41 DEF vars, CallState, Call!callVars
<1> QED BY <1>1, <1>2, <1>3, <1>4, <1>5, <1>6, <1>7, <1>8, <1>9, <1>10, <1>11,
        <1>12, <1>13, <1>14, <1>15, <1>16, <1>17, <1>18, <1>19, <1>20, <1>21,
        <1>22, <1>23, <1>24, <1>25, <1>26, <1>27, <1>28, <1>29, <1>30, <1>31,
        <1>32, <1>33, <1>34, <1>35, <1>36, <1>37, <1>38, <1>39, <1>40, <1>41
        DEF Next, Caller, Driver

-----------------------------------------------------------------------------
(* Fail-fast. *)

\* Fail-fast: after the loss only request() could register a call, and it is
\* refused until the next epoch.
LEMMA LossStep ==
  TypeOK /\ ConnectionInv /\ LossEmpties /\ [Next]_vars => LossEmpties'
<1> SUFFICES ASSUME TypeOK, ConnectionInv, LossEmpties, [Next]_vars
             PROVE  LossEmpties'
  OBVIOUS
<1> USE DEF ConnectionInv, OpenIsLive, LossIsOld, LossEmpties, ReplyQueueOpen,
        TypeOK, tableVars, callVars, sessionVars, connVars, driverVars,
            brokerVars, wireVars, clientVars, serviceVars
<1>1. ASSUME NEW r \in Requests, RequestRefused(r)
      PROVE  LossEmpties'
  BY <1>1 DEF RequestRefused
<1>2. ASSUME NEW r \in Requests, RequestBlocked(r)
      PROVE  LossEmpties'
  BY <1>2 DEF RequestBlocked
<1>3. ASSUME NEW r \in Requests, RequestRaises(r)
      PROVE  LossEmpties'
  BY <1>3 DEF RequestRaises, Accepted
<1>4. ASSUME NEW r \in Requests, Request(r)
      PROVE  LossEmpties'
  BY <1>4 DEF Request, Accepted
<1>5. ASSUME NEW r \in Requests, RequestSelected(r)
      PROVE  LossEmpties'
  BY <1>5 DEF RequestSelected
<1>6. ASSUME NEW r \in Requests, RequestConfirmed(r)
      PROVE  LossEmpties'
  BY <1>6 DEF RequestConfirmed
<1>7. ASSUME NEW r \in Requests, RequestRejected(r)
      PROVE  LossEmpties'
  BY <1>7 DEF RequestRejected, FailAndForget
<1>8. ASSUME NEW r \in Requests, RequestLost(r)
      PROVE  LossEmpties'
  BY <1>8 DEF RequestLost
<1>9. ASSUME NEW r \in Requests, RequestReturns(r)
      PROVE  LossEmpties'
  BY <1>9 DEF RequestReturns
<1>10. ASSUME NEW r \in Requests, RequestTimeout(r)
      PROVE  LossEmpties'
  BY <1>10 DEF RequestTimeout, FailAndForget
<1>11. ASSUME NEW r \in Requests, RequestCancelled(r)
      PROVE  LossEmpties'
  BY <1>11 DEF RequestCancelled
<1>12. ASSUME NEW r \in Requests, Deliver(r)
      PROVE  LossEmpties'
  BY <1>12 DEF Deliver
<1>13. ASSUME NEW p \in Publishers, SelectOk(p)
      PROVE  LossEmpties'
  BY <1>13 DEF SelectOk
<1>14. ASSUME NEW p \in Publishers, Confirm(p)
      PROVE  LossEmpties'
  BY <1>14 DEF Confirm
<1>15. ASSUME NEW d \in Drivers, AlreadyOpen(d)
      PROVE  LossEmpties'
  BY <1>15 DEF AlreadyOpen
<1>16. ASSUME NEW d \in Drivers, Teardown(d)
      PROVE  LossEmpties'
  BY <1>16 DEF Teardown, DiscardAll
<1>17. ASSUME NEW d \in Drivers, StartEpoch(d)
      PROVE  LossEmpties'
  BY <1>17 DEF StartEpoch
<1>18. ASSUME NEW d \in Drivers, Opened(d)
      PROVE  LossEmpties'
  BY <1>18 DEF Opened
<1>19. ASSUME NEW d \in Drivers, Declared(d)
      PROVE  LossEmpties'
  BY <1>19 DEF Declared
<1>20. ASSUME NEW d \in Drivers, Consuming(d)
      PROVE  LossEmpties'
  BY <1>20 DEF Consuming
<1>21. ASSUME NEW d \in Drivers, StartFails(d)
      PROVE  LossEmpties'
  BY <1>21 DEF StartFails, AttemptFails, AttemptsLeft, GiveUp, DiscardAll
<1>22. ASSUME NEW d \in Drivers, BackoffEnds(d)
      PROVE  LossEmpties'
  BY <1>22 DEF BackoffEnds
<1>23. ASSUME NEW d \in Drivers, RepublishSelected(d)
      PROVE  LossEmpties'
  BY <1>23 DEF RepublishSelected, AttemptFails, AttemptsLeft, GiveUp,
     DiscardAll
<1>24. ASSUME NEW d \in Drivers, RepublishConfirmed(d)
      PROVE  LossEmpties'
  BY <1>24 DEF RepublishConfirmed
<1>25. ASSUME NEW d \in Drivers, RepublishRejected(d)
      PROVE  LossEmpties'
  BY <1>25 DEF RepublishRejected, FailAndForget
<1>26. ASSUME NEW d \in Drivers, RepublishLost(d)
      PROVE  LossEmpties'
  BY <1>26 DEF RepublishLost, AttemptFails, AttemptsLeft, GiveUp, DiscardAll
<1>27. ASSUME NEW d \in Drivers, Reconnected(d)
      PROVE  LossEmpties'
  BY <1>27 DEF Reconnected
<1>28. ASSUME NEW d \in Drivers, Dialled(d)
      PROVE  LossEmpties'
  BY <1>28 DEF Dialled
<1>29. ASSUME NEW d \in Drivers, BrokerAnswers(d)
      PROVE  LossEmpties'
  BY <1>29 DEF BrokerAnswers
<1>30. ASSUME NEW d \in Drivers, NEW r \in Requests, RepublishSkip(d, r)
      PROVE  LossEmpties'
  BY <1>30 DEF RepublishSkip
<1>31. ASSUME NEW d \in Drivers, NEW r \in Requests, RepublishBlocked(d, r)
      PROVE  LossEmpties'
  BY <1>31 DEF RepublishBlocked, FailAndForget
<1>32. ASSUME NEW d \in Drivers, NEW r \in Requests, RepublishRaises(d, r)
      PROVE  LossEmpties'
  BY <1>32 DEF RepublishRaises, AttemptFails, AttemptsLeft, GiveUp, DiscardAll
<1>33. ASSUME NEW d \in Drivers, NEW r \in Requests, Republish(d, r)
      PROVE  LossEmpties'
  BY <1>33 DEF Republish
<1>34. CASE SocketReset
  BY <1>34 DEF SocketReset
<1>35. CASE Loss
  BY <1>35 DEF Loss, OnConnectionLost, DiscardAll
<1>36. CASE ReplyRound
  BY <1>36 DEF ReplyRound
<1>37. CASE ReplyLoopEnds
  BY <1>37 DEF ReplyLoopEnds, OnConnectionLost, DiscardAll
<1>38. CASE StartManual
  BY <1>38 DEF StartManual
<1>39. CASE Close
  BY <1>39 DEF Close, DiscardAll
<1>40. CASE CloseOk
  BY <1>40 DEF CloseOk
<1>41. CASE UNCHANGED vars
  BY <1>41 DEF vars
<1> QED BY <1>1, <1>2, <1>3, <1>4, <1>5, <1>6, <1>7, <1>8, <1>9, <1>10, <1>11,
        <1>12, <1>13, <1>14, <1>15, <1>16, <1>17, <1>18, <1>19, <1>20, <1>21,
        <1>22, <1>23, <1>24, <1>25, <1>26, <1>27, <1>28, <1>29, <1>30, <1>31,
        <1>32, <1>33, <1>34, <1>35, <1>36, <1>37, <1>38, <1>39, <1>40, <1>41
        DEF Next, Caller, Driver

-----------------------------------------------------------------------------
(* The theorems. *)

\* The inductive invariant.
Inv == TypeOK /\ LockInv /\ ConnectionInv /\ LossEmpties /\ CallsInv

\* A session whose start() has returned satisfies the invariants.
LEMMA InitInv == Init => Inv /\ AnswersInv
<1> SUFFICES ASSUME Init PROVE Inv /\ AnswersInv
  OBVIOUS
<1>1. TypeOK
  <2>1. inbox = <<>> /\ <<>> \in Seq(Requests)
    BY DEF Init
  <2>2. /\ attempt \in [Drivers -> 1..MaxAttempts]
        /\ epoch \in Nat /\ losses \in Nat
    BY DEF Init
  <2>3. /\ pc \in [Requests -> {"idle", "publish", "wait", "done"}]
        /\ fut \in [Requests -> {"none", "pending"} \cup Outcomes]
        /\ result \in [Requests -> {"none", "refused", "raw"} \cup Outcomes]
        /\ drv \in [Drivers -> {"idle", "lock", "sleep"} \cup Critical]
    BY DEF Init
  <2>4. /\ pub \in [Publishers -> {"none", "select", "selok", "deaf", "sent",
                                  "unrouted", "ok", "nack", "returned",
                                  "lost", "orphan"}]
        /\ got \in [Requests -> SUBSET Requests]
    BY DEF Init
  <2> QED BY <2>1, <2>2, <2>3, <2>4 DEF Init, TypeOK
<1>2. LockInv
  BY DEF Init, LockInv, Mutex, CurHeld
<1>3. ConnectionInv /\ LossEmpties
  BY DEF Init, ConnectionInv, OpenIsLive, LossIsOld, ConsumeLive,
         StartingClosed, LossEmpties
<1>4. CallsInv
  BY DEF Init, CallsInv, FutureTracked, Recoverable, Awaiting, TableClean,
         PendingOpen, IdleUntouched
<1>5. AnswersInv
  BY DEF Init, AnswersInv, Untouched, InboxServed, ReplyIsOwn, ResultIsReply
<1> QED BY <1>1, <1>2, <1>3, <1>4, <1>5 DEF Inv

\* The invariant is inductive.
LEMMA InvStep == Inv /\ [Next]_vars => Inv'
  BY TypeStep, LockStep, ConnectionStep, LossStep, CallsStep DEF Inv, LockInv

\* The inductive invariant holds of every behaviour of the session.
THEOREM InvHolds == Spec => []Inv
  BY InitInv, InvStep, PTL DEF Spec

\* Every variable keeps its type, for any requests, ids, policy and bounds.
THEOREM TypeCorrect == Spec => []TypeOK
<1>1. Inv => TypeOK
  BY DEF Inv
<1> QED BY <1>1, InvHolds, PTL

\* Whatever removes an entry from the correlation table completes its future:
\* no caller awaits a future that nothing can complete any more.
THEOREM FuturesAreTracked == Spec => []FutureTracked
<1>1. Inv => FutureTracked
  BY DEF Inv, CallsInv
<1> QED BY <1>1, InvHolds, PTL

\* Every call awaiting its reply has a parked envelope, so a reconnect can
\* carry it over (remember_publish and forget_publish keep pace).
THEOREM AwaitingIsRecoverable == Spec => []Recoverable
<1>1. Inv => Recoverable
  BY DEF Inv, CallsInv
<1> QED BY <1>1, InvHolds, PTL

\* Calls that are over leave the correlation table, with the exceptions that
\* TableClean names (a cancelled task, an unmapped exception).
THEOREM TableStaysClean == Spec => []TableClean
<1>1. Inv => TableClean
  BY DEF Inv, CallsInv
<1> QED BY <1>1, InvHolds, PTL

\* request() is admitted only over a connection that stands: reply_queue_open
\* is false from the loss, the teardown or close on until start() is done.
THEOREM OpenMeansLive == Spec => []OpenIsLive
<1>1. Inv => OpenIsLive
  BY DEF Inv, ConnectionInv
<1> QED BY <1>1, InvHolds, PTL

\* Fail-fast (_fail_outstanding): from the handled loss to the next epoch
\* nothing is outstanding and nobody awaits.
THEOREM LossFailsEveryCall == Spec => []LossFailsAll
<1>1. Inv => LossFailsAll
  BY DEF Inv, CallsInv, LossEmpties, LossFailsAll, FutureTracked, Awaiting
<1> QED BY <1>1, InvHolds, PTL

\* Session implements RpcCall when ids are distinct: over losses, reconnects,
\* republished duplicates and redeliveries, request() returns only the answer
\* to its own request, and at most once.
THEOREM SessionImplementsRpcCall ==
  ASSUME UniqueIds
  PROVE  Spec => ImplementsRpcCall
<1>1. Init => Call!Init
  BY DEF Init, Call!Init, CallState
<1>2. AnswersInv /\ TypeOK /\ [Next]_vars => AnswersInv'
  BY AnswersStep
<1>3. AnswersInv /\ TypeOK /\ [Next]_vars => [Call!Next]_(Call!callVars)
  BY RefinementStep
<1> QED BY <1>1, <1>2, <1>3, InitInv, TypeCorrect, PTL
        DEF Spec, ImplementsRpcCall, Call!Spec

-----------------------------------------------------------------------------
(* A reconnect carries every call. *)

\* Only a connection that stands owes anybody an answer.
OwedByLive ==
  conn \notin {"up", "closing"} =>
    \A p \in Publishers : pub[p] \notin {"select", "sent", "unrouted"}

\* What is published and not returned is among what this epoch has routed.
PublishedIsSent ==
  conn \in {"none", "up", "closing"} =>
    /\ \A r \in Requests : pub[r] \in {"sent", "ok"} => r \in sent
    /\ pub[Republisher] \in {"sent", "ok"} => cur \in sent

\* The republisher is refused its confirm or its select-ok by losses only.
RepublisherLoses == pub[Republisher] \in {"lost", "deaf"} => conn # "up"

\* The rest of a snapshot belongs to a lock holder.
TodoHeld == todo # {} => \E d \in Drivers : drv[d] = "republish"

\* Fail-fast: the teardown leaves nothing to carry.
NothingToCarry ==
  FailFast /\ (\E d \in Drivers : drv[d] \in {"closing"} \cup AnswerSteps) => pending = {}

\* r is published in this epoch, in the snapshot, or being republished.
Covered(r) ==
  \/ SameId(r) \cap (sent \cup todo) # {}
  \/ pub[Republisher] # "none" /\ cur \in SameId(r)

Carries == ReplyQueueOpen /\ ~reset => \A r \in Requests : Awaiting(r) => Covered(r)

EpochInv ==
  /\ OwedByLive /\ PublishedIsSent /\ RepublisherLoses /\ TodoHeld /\ NothingToCarry
  /\ Carries

\* What publishers await, and what they have published.  A call made while a
\* reconnect republishes would take the republisher's waiter.
LEMMA PubsStep ==
  ASSUME QuietReconnect, TypeOK, LockInv, OwedByLive, PublishedIsSent, RepublisherLoses, [Next]_vars
  PROVE  (OwedByLive /\ PublishedIsSent /\ RepublisherLoses)'
<1> USE DEF OwedByLive, PublishedIsSent, RepublisherLoses, LockInv, Mutex, CurHeld, TypeOK, tableVars, callVars, sessionVars, connVars, driverVars, brokerVars, wireVars,
        clientVars, serviceVars
<1>1. ASSUME NEW r \in Requests, RequestRefused(r)
      PROVE  (OwedByLive /\ PublishedIsSent /\ RepublisherLoses)'
  BY <1>1 DEF RequestRefused
<1>2. ASSUME NEW r \in Requests, RequestBlocked(r)
      PROVE  (OwedByLive /\ PublishedIsSent /\ RepublisherLoses)'
  BY <1>2 DEF RequestBlocked, FailAndForget
<1>3. ASSUME NEW r \in Requests, RequestRaises(r)
      PROVE  (OwedByLive /\ PublishedIsSent /\ RepublisherLoses)'
  BY <1>3 DEF RequestRaises
<1>4. ASSUME NEW r \in Requests, Request(r)
      PROVE  (OwedByLive /\ PublishedIsSent /\ RepublisherLoses)'
  BY <1>4 DEF Request, BeginPublish, Publish, Select, Accepted, MayCall, LockFree
<1>5. ASSUME NEW r \in Requests, RequestSelected(r)
      PROVE  (OwedByLive /\ PublishedIsSent /\ RepublisherLoses)'
  BY <1>5 DEF RequestSelected, Publish
<1>6. ASSUME NEW r \in Requests, RequestConfirmed(r)
      PROVE  (OwedByLive /\ PublishedIsSent /\ RepublisherLoses)'
  BY <1>6 DEF RequestConfirmed
<1>7. ASSUME NEW r \in Requests, RequestRejected(r)
      PROVE  (OwedByLive /\ PublishedIsSent /\ RepublisherLoses)'
  BY <1>7 DEF RequestRejected, FailAndForget
<1>8. ASSUME NEW r \in Requests, RequestLost(r)
      PROVE  (OwedByLive /\ PublishedIsSent /\ RepublisherLoses)'
  BY <1>8 DEF RequestLost
<1>9. ASSUME NEW r \in Requests, RequestReturns(r)
      PROVE  (OwedByLive /\ PublishedIsSent /\ RepublisherLoses)'
  BY <1>9 DEF RequestReturns
<1>10. ASSUME NEW r \in Requests, RequestTimeout(r)
      PROVE  (OwedByLive /\ PublishedIsSent /\ RepublisherLoses)'
  BY <1>10 DEF RequestTimeout, FailAndForget
<1>11. ASSUME NEW r \in Requests, RequestCancelled(r)
      PROVE  (OwedByLive /\ PublishedIsSent /\ RepublisherLoses)'
  BY <1>11 DEF RequestCancelled
<1>12. ASSUME NEW r \in Requests, Deliver(r)
      PROVE  (OwedByLive /\ PublishedIsSent /\ RepublisherLoses)'
  BY <1>12 DEF Deliver
<1>13. ASSUME NEW p \in Publishers, SelectOk(p)
      PROVE  (OwedByLive /\ PublishedIsSent /\ RepublisherLoses)'
  BY <1>13 DEF SelectOk
<1>14. ASSUME NEW p \in Publishers, Confirm(p)
      PROVE  (OwedByLive /\ PublishedIsSent /\ RepublisherLoses)'
  BY <1>14 DEF Confirm
<1>15. ASSUME NEW d \in Drivers, AlreadyOpen(d)
      PROVE  (OwedByLive /\ PublishedIsSent /\ RepublisherLoses)'
  BY <1>15 DEF AlreadyOpen
<1>16. ASSUME NEW d \in Drivers, Teardown(d)
      PROVE  (OwedByLive /\ PublishedIsSent /\ RepublisherLoses)'
  BY <1>16 DEF Teardown, LockFree, CallsSettled, Woken, Answered, DiscardAll
<1>17. ASSUME NEW d \in Drivers, StartEpoch(d)
      PROVE  (OwedByLive /\ PublishedIsSent /\ RepublisherLoses)'
  BY <1>17 DEF StartEpoch, CallsSettled, Woken, Answered
<1>18. ASSUME NEW d \in Drivers, Opened(d)
      PROVE  (OwedByLive /\ PublishedIsSent /\ RepublisherLoses)'
  BY <1>18 DEF Opened
<1>19. ASSUME NEW d \in Drivers, Declared(d)
      PROVE  (OwedByLive /\ PublishedIsSent /\ RepublisherLoses)'
  BY <1>19 DEF Declared
<1>20. ASSUME NEW d \in Drivers, Consuming(d)
      PROVE  (OwedByLive /\ PublishedIsSent /\ RepublisherLoses)'
  BY <1>20 DEF Consuming
<1>21. ASSUME NEW d \in Drivers, StartFails(d)
      PROVE  (OwedByLive /\ PublishedIsSent /\ RepublisherLoses)'
  BY <1>21 DEF StartFails, AttemptFails, AttemptsLeft, GiveUp, DiscardAll
<1>22. ASSUME NEW d \in Drivers, BackoffEnds(d)
      PROVE  (OwedByLive /\ PublishedIsSent /\ RepublisherLoses)'
  BY <1>22 DEF BackoffEnds
<1>23. ASSUME NEW d \in Drivers, RepublishSelected(d)
      PROVE  (OwedByLive /\ PublishedIsSent /\ RepublisherLoses)'
  BY <1>23 DEF RepublishSelected, Publish, AttemptFails, AttemptsLeft, GiveUp, DiscardAll
<1>24. ASSUME NEW d \in Drivers, RepublishConfirmed(d)
      PROVE  (OwedByLive /\ PublishedIsSent /\ RepublisherLoses)'
  BY <1>24 DEF RepublishConfirmed
<1>25. ASSUME NEW d \in Drivers, RepublishRejected(d)
      PROVE  (OwedByLive /\ PublishedIsSent /\ RepublisherLoses)'
  BY <1>25 DEF RepublishRejected, FailAndForget
<1>26. ASSUME NEW d \in Drivers, RepublishLost(d)
      PROVE  (OwedByLive /\ PublishedIsSent /\ RepublisherLoses)'
  BY <1>26 DEF RepublishLost, AttemptFails, AttemptsLeft, GiveUp, DiscardAll
<1>27. ASSUME NEW d \in Drivers, Reconnected(d)
      PROVE  (OwedByLive /\ PublishedIsSent /\ RepublisherLoses)'
  BY <1>27 DEF Reconnected, Republishing
<1>28. ASSUME NEW d \in Drivers, Dialled(d)
      PROVE  (OwedByLive /\ PublishedIsSent /\ RepublisherLoses)'
  BY <1>28 DEF Dialled
<1>29. ASSUME NEW d \in Drivers, BrokerAnswers(d)
      PROVE  (OwedByLive /\ PublishedIsSent /\ RepublisherLoses)'
  BY <1>29 DEF BrokerAnswers
<1>30. ASSUME NEW d \in Drivers, NEW r \in Requests, RepublishSkip(d, r)
      PROVE  (OwedByLive /\ PublishedIsSent /\ RepublisherLoses)'
  BY <1>30 DEF RepublishSkip, Republishing
<1>31. ASSUME NEW d \in Drivers, NEW r \in Requests, RepublishBlocked(d, r)
      PROVE  (OwedByLive /\ PublishedIsSent /\ RepublisherLoses)'
  BY <1>31 DEF RepublishBlocked, Republishing, FailAndForget
<1>32. ASSUME NEW d \in Drivers, NEW r \in Requests, RepublishRaises(d, r)
      PROVE  (OwedByLive /\ PublishedIsSent /\ RepublisherLoses)'
  BY <1>32 DEF RepublishRaises, Republishing, AttemptFails, AttemptsLeft, GiveUp, DiscardAll
<1>33. ASSUME NEW d \in Drivers, NEW r \in Requests, Republish(d, r)
      PROVE  (OwedByLive /\ PublishedIsSent /\ RepublisherLoses)'
  BY <1>33 DEF Republish, Republishing, BeginPublish, Publish, Select
<1>34. CASE SocketReset
  BY <1>34 DEF SocketReset
<1>35. CASE Loss
  BY <1>35 DEF Loss, PubsAfterLoss, OnConnectionLost, DiscardAll
<1>36. CASE ReplyRound
  BY <1>36 DEF ReplyRound
<1>37. CASE ReplyLoopEnds
  BY <1>37 DEF ReplyLoopEnds, OnConnectionLost, DiscardAll
<1>38. CASE StartManual
  BY <1>38 DEF StartManual
<1>39. CASE Close
  BY <1>39 DEF Close, DiscardAll
<1>40. CASE CloseOk
  BY <1>40 DEF CloseOk
<1>41. CASE UNCHANGED vars
  BY <1>41 DEF vars
<1> QED
  BY <1>1, <1>2, <1>3, <1>4, <1>5, <1>6, <1>7, <1>8, <1>9, <1>10, <1>11, <1>12,
     <1>13, <1>14, <1>15, <1>16, <1>17, <1>18, <1>19, <1>20, <1>21, <1>22, <1>23,
     <1>24, <1>25, <1>26, <1>27, <1>28, <1>29, <1>30, <1>31, <1>32, <1>33, <1>34,
     <1>35, <1>36, <1>37, <1>38, <1>39, <1>40, <1>41
  DEF Next, Caller, Driver

\* Only the lock holder has a snapshot; fail-fast leaves it nothing to take.
LEMMA HeldStep ==
  ASSUME TypeOK, LockInv, ConnectionInv, TodoHeld, NothingToCarry, [Next]_vars
  PROVE  (TodoHeld /\ NothingToCarry)'
<1> USE DEF TodoHeld, NothingToCarry, LockInv, Mutex, ConnectionInv, StartingClosed, TypeOK, tableVars, callVars, sessionVars, connVars, driverVars, brokerVars, wireVars,
        clientVars, serviceVars
<1>1. ASSUME NEW r \in Requests, RequestRefused(r)
      PROVE  (TodoHeld /\ NothingToCarry)'
  BY <1>1 DEF RequestRefused
<1>2. ASSUME NEW r \in Requests, RequestBlocked(r)
      PROVE  (TodoHeld /\ NothingToCarry)'
  BY <1>2 DEF RequestBlocked, FailAndForget
<1>3. ASSUME NEW r \in Requests, RequestRaises(r)
      PROVE  (TodoHeld /\ NothingToCarry)'
  BY <1>3 DEF RequestRaises, Accepted, ReplyQueueOpen
<1>4. ASSUME NEW r \in Requests, Request(r)
      PROVE  (TodoHeld /\ NothingToCarry)'
  BY <1>4 DEF Request, BeginPublish, Publish, Select, Accepted, ReplyQueueOpen
<1>5. ASSUME NEW r \in Requests, RequestSelected(r)
      PROVE  (TodoHeld /\ NothingToCarry)'
  BY <1>5 DEF RequestSelected, Publish
<1>6. ASSUME NEW r \in Requests, RequestConfirmed(r)
      PROVE  (TodoHeld /\ NothingToCarry)'
  BY <1>6 DEF RequestConfirmed
<1>7. ASSUME NEW r \in Requests, RequestRejected(r)
      PROVE  (TodoHeld /\ NothingToCarry)'
  BY <1>7 DEF RequestRejected, FailAndForget
<1>8. ASSUME NEW r \in Requests, RequestLost(r)
      PROVE  (TodoHeld /\ NothingToCarry)'
  BY <1>8 DEF RequestLost
<1>9. ASSUME NEW r \in Requests, RequestReturns(r)
      PROVE  (TodoHeld /\ NothingToCarry)'
  BY <1>9 DEF RequestReturns
<1>10. ASSUME NEW r \in Requests, RequestTimeout(r)
      PROVE  (TodoHeld /\ NothingToCarry)'
  BY <1>10 DEF RequestTimeout, FailAndForget
<1>11. ASSUME NEW r \in Requests, RequestCancelled(r)
      PROVE  (TodoHeld /\ NothingToCarry)'
  BY <1>11 DEF RequestCancelled
<1>12. ASSUME NEW r \in Requests, Deliver(r)
      PROVE  (TodoHeld /\ NothingToCarry)'
  BY <1>12 DEF Deliver
<1>13. ASSUME NEW p \in Publishers, SelectOk(p)
      PROVE  (TodoHeld /\ NothingToCarry)'
  BY <1>13 DEF SelectOk
<1>14. ASSUME NEW p \in Publishers, Confirm(p)
      PROVE  (TodoHeld /\ NothingToCarry)'
  BY <1>14 DEF Confirm
<1>15. ASSUME NEW d \in Drivers, AlreadyOpen(d)
      PROVE  (TodoHeld /\ NothingToCarry)'
  BY <1>15 DEF AlreadyOpen
<1>16. ASSUME NEW d \in Drivers, Teardown(d)
      PROVE  (TodoHeld /\ NothingToCarry)'
  BY <1>16 DEF Teardown, LockFree, CallsSettled, Woken, Answered, DiscardAll
<1>17. ASSUME NEW d \in Drivers, StartEpoch(d)
      PROVE  (TodoHeld /\ NothingToCarry)'
  BY <1>17 DEF StartEpoch, CallsSettled, Woken, Answered
<1>18. ASSUME NEW d \in Drivers, Opened(d)
      PROVE  (TodoHeld /\ NothingToCarry)'
  BY <1>18 DEF Opened
<1>19. ASSUME NEW d \in Drivers, Declared(d)
      PROVE  (TodoHeld /\ NothingToCarry)'
  BY <1>19 DEF Declared
<1>20. ASSUME NEW d \in Drivers, Consuming(d)
      PROVE  (TodoHeld /\ NothingToCarry)'
  BY <1>20 DEF Consuming
<1>21. ASSUME NEW d \in Drivers, StartFails(d)
      PROVE  (TodoHeld /\ NothingToCarry)'
  BY <1>21 DEF StartFails, AttemptFails, AttemptsLeft, GiveUp, DiscardAll
<1>22. ASSUME NEW d \in Drivers, BackoffEnds(d)
      PROVE  (TodoHeld /\ NothingToCarry)'
  BY <1>22 DEF BackoffEnds
<1>23. ASSUME NEW d \in Drivers, RepublishSelected(d)
      PROVE  (TodoHeld /\ NothingToCarry)'
  BY <1>23 DEF RepublishSelected, Publish, AttemptFails, AttemptsLeft, GiveUp, DiscardAll
<1>24. ASSUME NEW d \in Drivers, RepublishConfirmed(d)
      PROVE  (TodoHeld /\ NothingToCarry)'
  BY <1>24 DEF RepublishConfirmed
<1>25. ASSUME NEW d \in Drivers, RepublishRejected(d)
      PROVE  (TodoHeld /\ NothingToCarry)'
  BY <1>25 DEF RepublishRejected, FailAndForget
<1>26. ASSUME NEW d \in Drivers, RepublishLost(d)
      PROVE  (TodoHeld /\ NothingToCarry)'
  BY <1>26 DEF RepublishLost, AttemptFails, AttemptsLeft, GiveUp, DiscardAll
<1>27. ASSUME NEW d \in Drivers, Reconnected(d)
      PROVE  (TodoHeld /\ NothingToCarry)'
  BY <1>27 DEF Reconnected, Republishing
<1>28. ASSUME NEW d \in Drivers, Dialled(d)
      PROVE  (TodoHeld /\ NothingToCarry)'
  BY <1>28 DEF Dialled
<1>29. ASSUME NEW d \in Drivers, BrokerAnswers(d)
      PROVE  (TodoHeld /\ NothingToCarry)'
  BY <1>29 DEF BrokerAnswers
<1>30. ASSUME NEW d \in Drivers, NEW r \in Requests, RepublishSkip(d, r)
      PROVE  (TodoHeld /\ NothingToCarry)'
  BY <1>30 DEF RepublishSkip, Republishing
<1>31. ASSUME NEW d \in Drivers, NEW r \in Requests, RepublishBlocked(d, r)
      PROVE  (TodoHeld /\ NothingToCarry)'
  BY <1>31 DEF RepublishBlocked, Republishing, FailAndForget
<1>32. ASSUME NEW d \in Drivers, NEW r \in Requests, RepublishRaises(d, r)
      PROVE  (TodoHeld /\ NothingToCarry)'
  BY <1>32 DEF RepublishRaises, Republishing, AttemptFails, AttemptsLeft, GiveUp, DiscardAll
<1>33. ASSUME NEW d \in Drivers, NEW r \in Requests, Republish(d, r)
      PROVE  (TodoHeld /\ NothingToCarry)'
  BY <1>33 DEF Republish, Republishing, BeginPublish, Publish, Select
<1>34. CASE SocketReset
  BY <1>34 DEF SocketReset
<1>35. CASE Loss
  BY <1>35 DEF Loss, PubsAfterLoss, OnConnectionLost, DiscardAll
<1>36. CASE ReplyRound
  BY <1>36 DEF ReplyRound
<1>37. CASE ReplyLoopEnds
  BY <1>37 DEF ReplyLoopEnds, OnConnectionLost, DiscardAll
<1>38. CASE StartManual
  BY <1>38 DEF StartManual
<1>39. CASE Close
  BY <1>39 DEF Close, DiscardAll
<1>40. CASE CloseOk
  BY <1>40 DEF CloseOk
<1>41. CASE UNCHANGED vars
  BY <1>41 DEF vars
<1> QED
  BY <1>1, <1>2, <1>3, <1>4, <1>5, <1>6, <1>7, <1>8, <1>9, <1>10, <1>11, <1>12,
     <1>13, <1>14, <1>15, <1>16, <1>17, <1>18, <1>19, <1>20, <1>21, <1>22, <1>23,
     <1>24, <1>25, <1>26, <1>27, <1>28, <1>29, <1>30, <1>31, <1>32, <1>33, <1>34,
     <1>35, <1>36, <1>37, <1>38, <1>39, <1>40, <1>41
  DEF Next, Caller, Driver

\* A call that ends, and whatever it does to other calls' futures.
LEMMA EndCarries ==
  ASSUME TypeOK, Carries, NEW r \in Requests,
         pc'[r] # "wait" \/ fut'[r] # "pending",
         \A s \in Requests \ {r} : pc'[s] = pc[s] /\ (fut'[s] = "pending" => fut[s] = "pending"),
         UNCHANGED <<started, replyQueue, reset, todo, cur>>, sent \subseteq sent',
         pub'[Republisher] = pub[Republisher]
  PROVE  Carries'
<1>1. \A s \in Requests : Awaiting(s)' => Awaiting(s)
  BY DEF Awaiting
<1>2. \A s \in Requests : Covered(s) => Covered(s)'
  BY DEF Covered, SameId
<1> QED
  BY <1>1, <1>2 DEF Carries, ReplyQueueOpen

\* A call is confirmed in this epoch, or is in its snapshot and leaves that to be
\* published or failed.
LEMMA CarriesStep ==
  ASSUME Inv, EpochInv, OpenIsLive', [Next]_vars
  PROVE  Carries'
<1> USE DEF Inv, EpochInv, Carries, Covered, Awaiting, ReplyQueueOpen, ConnectionInv, OpenIsLive,
        StartingClosed, CallsInv, FutureTracked, SameId, LockInv, Mutex, CurHeld, TypeOK,
        tableVars, callVars, sessionVars, connVars, driverVars, brokerVars, wireVars,
        clientVars, serviceVars
<1>1. ASSUME NEW r \in Requests, RequestRefused(r)
      PROVE  Carries'
  <2>1. \A s \in Requests \ {r} : pc'[s] = pc[s] /\ (fut'[s] = "pending" => fut[s] = "pending")
    BY <1>1 DEF RequestRefused, Ends
  <2>2. pc'[r] # "wait" /\ sent \subseteq sent' /\ pub'[Republisher] = pub[Republisher]
    BY <1>1 DEF RequestRefused, Ends
  <2>3. UNCHANGED <<started, replyQueue, reset, todo, cur>>
    BY <1>1 DEF RequestRefused
  <2> QED
    BY <2>1, <2>2, <2>3, EndCarries
<1>2. ASSUME NEW r \in Requests, RequestBlocked(r)
      PROVE  Carries'
  <2>1. \A s \in Requests \ {r} : pc'[s] = pc[s] /\ (fut'[s] = "pending" => fut[s] = "pending")
    BY <1>2 DEF RequestBlocked, Ends
  <2>2. pc'[r] # "wait" /\ sent \subseteq sent' /\ pub'[Republisher] = pub[Republisher]
    BY <1>2 DEF RequestBlocked, Ends
  <2>3. UNCHANGED <<started, replyQueue, reset, todo, cur>>
    BY <1>2 DEF RequestBlocked
  <2> QED
    BY <2>1, <2>2, <2>3, EndCarries
<1>3. ASSUME NEW r \in Requests, RequestRaises(r)
      PROVE  Carries'
  <2>1. \A s \in Requests \ {r} : pc'[s] = pc[s] /\ (fut'[s] = "pending" => fut[s] = "pending")
    BY <1>3 DEF RequestRaises, Ends
  <2>2. pc'[r] # "wait" /\ sent \subseteq sent' /\ pub'[Republisher] = pub[Republisher]
    BY <1>3 DEF RequestRaises, Ends
  <2>3. UNCHANGED <<started, replyQueue, reset, todo, cur>>
    BY <1>3 DEF RequestRaises
  <2> QED
    BY <2>1, <2>2, <2>3, EndCarries
<1>4. ASSUME NEW r \in Requests, Request(r)
      PROVE  Carries'
  BY <1>4 DEF Request, BeginPublish, Publish, Select
<1>5. ASSUME NEW r \in Requests, RequestSelected(r)
      PROVE  Carries'
  <2>1. \A s \in Requests \ {r} : pc'[s] = pc[s] /\ (fut'[s] = "pending" => fut[s] = "pending")
    BY <1>5 DEF RequestSelected, Ends, Publish
  <2>2. pc'[r] # "wait" /\ sent \subseteq sent' /\ pub'[Republisher] = pub[Republisher]
    BY <1>5 DEF RequestSelected, Ends, Publish
  <2>3. UNCHANGED <<started, replyQueue, reset, todo, cur>>
    BY <1>5 DEF RequestSelected
  <2> QED
    BY <2>1, <2>2, <2>3, EndCarries
<1>6. ASSUME NEW r \in Requests, RequestConfirmed(r)
      PROVE  Carries'
  BY <1>6 DEF RequestConfirmed, PublishedIsSent
<1>7. ASSUME NEW r \in Requests, RequestRejected(r)
      PROVE  Carries'
  <2>1. \A s \in Requests \ {r} : pc'[s] = pc[s] /\ (fut'[s] = "pending" => fut[s] = "pending")
    BY <1>7 DEF RequestRejected, Ends, FailAndForget, Complete
  <2>2. pc'[r] # "wait" /\ sent \subseteq sent' /\ pub'[Republisher] = pub[Republisher]
    BY <1>7 DEF RequestRejected, Ends, FailAndForget, Complete
  <2>3. UNCHANGED <<started, replyQueue, reset, todo, cur>>
    BY <1>7 DEF RequestRejected
  <2> QED
    BY <2>1, <2>2, <2>3, EndCarries
<1>8. ASSUME NEW r \in Requests, RequestLost(r)
      PROVE  Carries'
  <2>1. \A s \in Requests \ {r} : pc'[s] = pc[s] /\ (fut'[s] = "pending" => fut[s] = "pending")
    BY <1>8 DEF RequestLost, Ends
  <2>2. pc'[r] # "wait" /\ sent \subseteq sent' /\ pub'[Republisher] = pub[Republisher]
    BY <1>8 DEF RequestLost, Ends
  <2>3. UNCHANGED <<started, replyQueue, reset, todo, cur>>
    BY <1>8 DEF RequestLost
  <2> QED
    BY <2>1, <2>2, <2>3, EndCarries
<1>9. ASSUME NEW r \in Requests, RequestReturns(r)
      PROVE  Carries'
  <2>1. \A s \in Requests \ {r} : pc'[s] = pc[s] /\ (fut'[s] = "pending" => fut[s] = "pending")
    BY <1>9 DEF RequestReturns, Ends
  <2>2. pc'[r] # "wait" /\ sent \subseteq sent' /\ pub'[Republisher] = pub[Republisher]
    BY <1>9 DEF RequestReturns, Ends
  <2>3. UNCHANGED <<started, replyQueue, reset, todo, cur>>
    BY <1>9 DEF RequestReturns
  <2> QED
    BY <2>1, <2>2, <2>3, EndCarries
<1>10. ASSUME NEW r \in Requests, RequestTimeout(r)
      PROVE  Carries'
  <2>1. \A s \in Requests \ {r} : pc'[s] = pc[s] /\ (fut'[s] = "pending" => fut[s] = "pending")
    BY <1>10 DEF RequestTimeout, Ends, FailAndForget, Complete
  <2>2. pc'[r] # "wait" /\ sent \subseteq sent' /\ pub'[Republisher] = pub[Republisher]
    BY <1>10 DEF RequestTimeout, Ends, FailAndForget, Complete
  <2>3. UNCHANGED <<started, replyQueue, reset, todo, cur>>
    BY <1>10 DEF RequestTimeout
  <2> QED
    BY <2>1, <2>2, <2>3, EndCarries
<1>11. ASSUME NEW r \in Requests, RequestCancelled(r)
      PROVE  Carries'
  <2>1. \A s \in Requests \ {r} : pc'[s] = pc[s] /\ (fut'[s] = "pending" => fut[s] = "pending")
    BY <1>11 DEF RequestCancelled, Ends, Complete
  <2>2. pc'[r] # "wait" /\ sent \subseteq sent' /\ pub'[Republisher] = pub[Republisher]
    BY <1>11 DEF RequestCancelled, Ends, Complete
  <2>3. UNCHANGED <<started, replyQueue, reset, todo, cur>>
    BY <1>11 DEF RequestCancelled
  <2> QED
    BY <2>1, <2>2, <2>3, EndCarries
<1>12. ASSUME NEW r \in Requests, Deliver(r)
      PROVE  Carries'
  BY <1>12 DEF Deliver
<1>13. ASSUME NEW p \in Publishers, SelectOk(p)
      PROVE  Carries'
  BY <1>13 DEF SelectOk
<1>14. ASSUME NEW p \in Publishers, Confirm(p)
      PROVE  Carries'
  BY <1>14 DEF Confirm
<1>15. ASSUME NEW d \in Drivers, AlreadyOpen(d)
      PROVE  Carries'
  BY <1>15 DEF AlreadyOpen
<1>16. ASSUME NEW d \in Drivers, Teardown(d)
      PROVE  Carries'
  BY <1>16 DEF Teardown, LockFree, CallsSettled, Woken, Answered, DiscardAll, Complete
<1>17. ASSUME NEW d \in Drivers, StartEpoch(d)
      PROVE  Carries'
  BY <1>17 DEF StartEpoch, CallsSettled, Woken, Answered
<1>18. ASSUME NEW d \in Drivers, Opened(d)
      PROVE  Carries'
  BY <1>18 DEF Opened
<1>19. ASSUME NEW d \in Drivers, Declared(d)
      PROVE  Carries'
  BY <1>19 DEF Declared
<1>20. ASSUME NEW d \in Drivers, Consuming(d)
      PROVE  Carries'
  BY <1>20 DEF Consuming, Snapshot, Recoverable, NothingToCarry
<1>21. ASSUME NEW d \in Drivers, StartFails(d)
      PROVE  Carries'
  BY <1>21 DEF StartFails, AttemptFails, AttemptsLeft, GiveUp, DiscardAll, Complete
<1>22. ASSUME NEW d \in Drivers, BackoffEnds(d)
      PROVE  Carries'
  BY <1>22 DEF BackoffEnds
<1>23. ASSUME NEW d \in Drivers, RepublishSelected(d)
      PROVE  Carries'
  BY <1>23 DEF RepublishSelected, Publish, AttemptFails, AttemptsLeft, GiveUp, DiscardAll, WriteRaises
<1>24. ASSUME NEW d \in Drivers, RepublishConfirmed(d)
      PROVE  Carries'
  BY <1>24 DEF RepublishConfirmed, PublishedIsSent
<1>25. ASSUME NEW d \in Drivers, RepublishRejected(d)
      PROVE  Carries'
  BY <1>25 DEF RepublishRejected, FailAndForget, Complete
<1>26. ASSUME NEW d \in Drivers, RepublishLost(d)
      PROVE  Carries'
  BY <1>26 DEF RepublishLost, AttemptFails, AttemptsLeft, GiveUp, DiscardAll, RepublisherLoses
<1>27. ASSUME NEW d \in Drivers, Reconnected(d)
      PROVE  Carries'
  BY <1>27 DEF Reconnected, Republishing
<1>28. ASSUME NEW d \in Drivers, Dialled(d)
      PROVE  Carries'
  BY <1>28 DEF Dialled
<1>29. ASSUME NEW d \in Drivers, BrokerAnswers(d)
      PROVE  Carries'
  BY <1>29 DEF BrokerAnswers
<1>30. ASSUME NEW d \in Drivers, NEW r \in Requests, RepublishSkip(d, r)
      PROVE  Carries'
  BY <1>30 DEF RepublishSkip, Republishing, Registered
<1>31. ASSUME NEW d \in Drivers, NEW r \in Requests, RepublishBlocked(d, r)
      PROVE  Carries'
  BY <1>31 DEF RepublishBlocked, Republishing, FailAndForget, Complete
<1>32. ASSUME NEW d \in Drivers, NEW r \in Requests, RepublishRaises(d, r)
      PROVE  Carries'
  BY <1>32 DEF RepublishRaises, Republishing, AttemptFails, AttemptsLeft, GiveUp, DiscardAll, WriteRaises
<1>33. ASSUME NEW d \in Drivers, NEW r \in Requests, Republish(d, r)
      PROVE  Carries'
  BY <1>33 DEF Republish, Republishing, BeginPublish, Publish, Select
<1>34. CASE SocketReset
  BY <1>34 DEF SocketReset
<1>35. CASE Loss
  BY <1>35 DEF Loss, PubsAfterLoss, OnConnectionLost, DiscardAll, Complete
<1>36. CASE ReplyRound
  BY <1>36 DEF ReplyRound, WriteRaises
<1>37. CASE ReplyLoopEnds
  BY <1>37 DEF ReplyLoopEnds, OnConnectionLost, DiscardAll, Complete
<1>38. CASE StartManual
  BY <1>38 DEF StartManual
<1>39. CASE Close
  BY <1>39 DEF Close, DiscardAll, Complete
<1>40. CASE CloseOk
  BY <1>40 DEF CloseOk
<1>41. CASE UNCHANGED vars
  BY <1>41 DEF vars
<1> QED
  BY <1>1, <1>2, <1>3, <1>4, <1>5, <1>6, <1>7, <1>8, <1>9, <1>10, <1>11, <1>12,
     <1>13, <1>14, <1>15, <1>16, <1>17, <1>18, <1>19, <1>20, <1>21, <1>22, <1>23,
     <1>24, <1>25, <1>26, <1>27, <1>28, <1>29, <1>30, <1>31, <1>32, <1>33, <1>34,
     <1>35, <1>36, <1>37, <1>38, <1>39, <1>40, <1>41
  DEF Next, Caller, Driver

\* With the session open and no reconnect running every awaiting call has been
\* published in this epoch, if no call is made while a reconnect runs
\* (reconnect, _republish_parked): the snapshot forgets nobody, whatever is
\* answered, rejected, timed out, cancelled or lost while it is walked.
THEOREM EpochCarries ==
  ASSUME QuietReconnect
  PROVE  Spec => []EpochCarriesAll
<1>1. Init => EpochInv
  BY DEF Init, EpochInv, OwedByLive, PublishedIsSent, RepublisherLoses, TodoHeld,
         NothingToCarry, Carries, Awaiting
<1>2. Inv /\ EpochInv /\ [Next]_vars => EpochInv'
  <2>1. SUFFICES ASSUME Inv, EpochInv, [Next]_vars PROVE EpochInv'
    OBVIOUS
  <2>2. TypeOK /\ LockInv /\ ConnectionInv
    BY <2>1 DEF Inv
  <2>3. OwedByLive' /\ PublishedIsSent' /\ RepublisherLoses'
    BY <2>1, <2>2, PubsStep DEF EpochInv
  <2>4. TodoHeld' /\ NothingToCarry'
    BY <2>1, <2>2, HeldStep DEF EpochInv
  <2>5. OpenIsLive'
    BY <2>1, <2>2, ConnectionStep DEF ConnectionInv, LockInv
  <2>6. Carries'
    BY <2>1, <2>5, CarriesStep
  <2> QED
    BY <2>3, <2>4, <2>6 DEF EpochInv
<1>3. Inv /\ EpochInv => EpochCarriesAll
  <2>1. SUFFICES ASSUME Inv, EpochInv, ReplyQueueOpen, ~reset,
                        \A d \in Drivers : drv[d] = "idle",
                        NEW r \in Requests, Awaiting(r)
                 PROVE  SameId(r) \cap sent # {}
    BY DEF EpochCarriesAll
  <2>2. todo = {} /\ pub[Republisher] = "none"
    BY <2>1 DEF Inv, EpochInv, LockInv, CurHeld, TodoHeld
  <2>3. Covered(r)
    BY <2>1 DEF EpochInv, Carries
  <2> QED
    BY <2>2, <2>3 DEF Covered
<1> QED
  BY <1>1, <1>2, <1>3, InvHolds, PTL DEF Spec
=============================================================================
