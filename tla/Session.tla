------------------------------ MODULE Session ------------------------------
(***************************************************************************)
(* The client side of RPC: Session, its CorrelationTable and parked        *)
(* publishes, RpcClient.request, and the ReconnectCoordinator that drives  *)
(* Session.reconnect, over an AmqpConnection reduced to what they see of   *)
(* it: awaited answers, confirms, deliveries and one loss notification.    *)
(*                                                                         *)
(* asyncio runs a task from one await to the next without interruption, so *)
(* every action below is the code between two awaits.  A task can run once *)
(* the future it awaits is done; that is read off the state (Woken) and no *)
(* run queue is kept.                                                      *)
(***************************************************************************)
EXTENDS Naturals, Sequences

CONSTANTS
  Requests,            \* calls of RpcClient.request
  Ids,                 \* correlation ids
  IdOf,                \* the id each call is registered under
  Republisher,         \* the publisher inside _republish_parked
  AutoTask, ManualTask,        \* _park_reconnect, and a caller's own coordinator
  FailFast,            \* ReconnectPolicy.fail_outstanding
  BrokerTimeout,       \* Session(broker_timeout=...)
  MaxAttempts,         \* ReconnectPolicy.max_attempts
  MaxLosses,           \* bound: connections that may be lost
  MaxEpoch,            \* bound: a caller starts no reconnect from this epoch on
  Cancellable,         \* calls whose task may be cancelled
  CanBlock,            \* connection.blocked may be in force
  CanReset,            \* the peer may reset the socket
  CanClose,            \* the application may call Session.close
  Coalesced,           \* a loss may be read in one chunk with earlier frames
  QuietReconnect       \* the application makes no call while a reconnect runs

Drivers == {AutoTask, ManualTask}
Publishers == Requests \cup {Republisher}

ASSUME SessionAssumption ==
  /\ Republisher \notin Requests
  /\ AutoTask # ManualTask
  /\ IdOf \in [Requests -> Ids]
  /\ MaxAttempts \in Nat \ {0}
  /\ MaxLosses \in Nat
  /\ MaxEpoch \in Nat
  /\ Cancellable \subseteq Requests
  /\ FailFast \in BOOLEAN /\ BrokerTimeout \in BOOLEAN
  /\ CanBlock \in BOOLEAN /\ CanReset \in BOOLEAN /\ CanClose \in BOOLEAN
  /\ Coalesced \in BOOLEAN /\ QuietReconnect \in BOOLEAN

VARIABLES
  pc,            \* pc[r]: where request() of r is
  pub,           \* pub[p]: what publisher p awaits inside basic_publish
  fut,           \* fut[r]: the reply future of r
  got,           \* got[r]: the requests whose answer completed fut[r]
  result,        \* result[r]: how the call ended for its caller
  pending,       \* CorrelationTable._pending
  parked,        \* Session._parked
  started,       \* Session._started
  replyQueue,    \* Session.reply_queue is not None
  lossHandled,   \* Session._loss_handled
  replyLoop,     \* _reply_loop: "off" or "on"
  epoch,         \* Session.epoch
  conn,          \* Session.conn: "none", "up", "closing", "lost" or "shut"
  reset,         \* the socket is reset: a write to it raises
  confirmOn,     \* ConfirmTracker.enabled of channel 1
  drv,           \* drv[d]: where a reconnecting task is
  attempt,       \* attempt[d]: ReconnectCoordinator's attempt counter
  wake,          \* what the lock holder's awaited answer came to
  todo,          \* rest of the snapshot _republish_parked iterates over
  cur,           \* the envelope the republisher is publishing
  inbox,         \* AmqpConnection._deliveries: whose answer each reply is
  sent,          \* requests published with this epoch's reply_to and routed
  served,        \* requests a server has ever answered
  losses,        \* connections lost so far
  closed         \* Session.close has been called

callVars == <<pc, fut, got, result>>
tableVars == <<pending, parked>>
sessionVars == <<started, replyQueue, lossHandled, replyLoop, epoch>>
connVars == <<conn, reset, confirmOn>>
driverVars == <<drv, attempt, wake, todo, cur>>
wireVars == <<inbox, served, losses, closed>>
brokerVars == <<wireVars, sent>>
clientVars == <<callVars, pub, tableVars>>
serviceVars == <<sessionVars, connVars, driverVars, brokerVars>>
vars == <<clientVars, serviceVars>>

Outcomes == {"reply", "lost", "rejected", "timeout", "closed", "cancelled"}
AnswerSteps == {"open", "declare", "consume"}
Critical == {"closing", "republish"} \cup AnswerSteps

TypeOK ==
  /\ pc \in [Requests -> {"idle", "publish", "wait", "done"}]
  /\ pub \in [Publishers -> {"none", "select", "selok", "deaf", "sent",
                             "unrouted", "ok", "nack", "returned", "lost",
                             "orphan"}]
  /\ fut \in [Requests -> {"none", "pending"} \cup Outcomes]
  /\ got \in [Requests -> SUBSET Requests]
  /\ result \in [Requests -> {"none", "refused", "raw"} \cup Outcomes]
  /\ pending \subseteq Requests
  /\ parked \subseteq Requests
  /\ started \in BOOLEAN /\ replyQueue \in BOOLEAN /\ lossHandled \in BOOLEAN
  /\ reset \in BOOLEAN /\ confirmOn \in BOOLEAN /\ closed \in BOOLEAN
  /\ replyLoop \in {"off", "on"}
  /\ epoch \in Nat
  /\ losses \in Nat
  /\ conn \in {"none", "up", "closing", "lost", "shut"}
  /\ drv \in [Drivers -> {"idle", "lock", "sleep"} \cup Critical]
  /\ attempt \in [Drivers -> 1..MaxAttempts]
  /\ wake \in {"none", "ok", "exc"}
  /\ todo \subseteq Requests
  /\ cur \in Publishers
  /\ inbox \in Seq(Requests)
  /\ sent \subseteq Requests
  /\ served \subseteq Requests

\* A session whose start() has returned; its channel is not in confirm mode.
Init ==
  /\ pc = [r \in Requests |-> "idle"]
  /\ pub = [p \in Publishers |-> "none"]
  /\ fut = [r \in Requests |-> "none"]
  /\ got = [r \in Requests |-> {}]
  /\ result = [r \in Requests |-> "none"]
  /\ pending = {} /\ parked = {}
  /\ started = TRUE /\ replyQueue = TRUE
  /\ lossHandled = FALSE
  /\ replyLoop = "on"
  /\ epoch = 0
  /\ conn = "up" /\ reset = FALSE /\ confirmOn = FALSE
  /\ drv = [d \in Drivers |-> "idle"]
  /\ attempt = [d \in Drivers |-> 1]
  /\ wake = "none"
  /\ todo = {} /\ cur = Republisher
  /\ inbox = <<>>
  /\ sent = {} /\ served = {}
  /\ losses = 0
  /\ closed = FALSE

-----------------------------------------------------------------------------
(* Session state that several operations read. *)

\* Operators named "...Bug" are faulty variants of the operator that follows
\* them; the mutation runs put them in its place.
ReplyQueueOpenBug == started

\* Session.reply_queue_open
ReplyQueueOpen == started /\ replyQueue

\* Session._reconnect_lock is not held
LockFree == \A d \in Drivers : drv[d] \notin Critical

\* A future this publisher or this call awaits is done: its task is ready.
Answered(p) == pub[p] \in {"selok", "ok", "nack", "returned", "lost"}
Woken(r) == Answered(r) \/ (pc[r] = "wait" /\ fut[r] # "pending")
CallsSettled == \A r \in Requests : ~Woken(r)

\* _republish_parked runs on from one publish to the next without an await.
BetweenPublishes ==
  \E d \in Drivers : drv[d] = "republish" /\ pub[Republisher] = "none"

\* No task is ready: the event loop goes back to reading the socket.
Settled ==
  /\ CallsSettled
  /\ ~Answered(Republisher)
  /\ wake = "none"
  /\ replyLoop = "on" => inbox = <<>>

-----------------------------------------------------------------------------
(* CorrelationTable and the parked envelopes, keyed by correlation id. *)

SameIdBug(r) == Requests

SameId(r) == {s \in Requests : IdOf[s] = IdOf[r]}

Registered(r) == SameId(r) \cap pending # {}

CompleteBug(S, outcome) == fut

\* set_result / set_exception on those futures of S that are not done
Complete(S, outcome) ==
  [r \in Requests |->
     IF r \in S /\ fut[r] = "pending" THEN outcome ELSE fut[r]]

FailAndForgetBug(r, outcome) ==
  /\ fut' = Complete(SameId(r) \cap pending, outcome)
  /\ parked' = parked \ SameId(r)
  /\ UNCHANGED pending

\* CorrelationTable.fail, then Session.forget_publish, for r's id
FailAndForget(r, outcome) ==
  /\ fut' = Complete(SameId(r) \cap pending, outcome)
  /\ pending' = pending \ SameId(r)
  /\ parked' = parked \ SameId(r)

RememberBug(r) == UNCHANGED parked

\* Session.remember_publish
Remember(r) == parked' = (parked \ SameId(r)) \cup {r}

\* CorrelationTable.discard_all, then _parked.clear()
DiscardAll(outcome) ==
  /\ fut' = Complete(pending, outcome)
  /\ pending' = {}
  /\ parked' = {}

-----------------------------------------------------------------------------
(* AmqpConnection.basic_publish, up to the confirm it awaits. *)

\* drain() raises: the transport is gone.
WriteRaises == reset \/ conn = "shut"

\* The frames are written and the confirm registered.  The broker routes the
\* message or will return it; nobody answers on a connection that is down.
Publish(p, r) ==
  IF conn = "up"
  THEN \/ /\ pub' = [pub EXCEPT ![p] = "sent"]
          /\ sent' = sent \cup {r}
       \/ /\ pub' = [pub EXCEPT ![p] = "unrouted"]
          /\ UNCHANGED sent
  ELSE /\ pub' = [pub EXCEPT ![p] = "orphan"]
       /\ UNCHANGED sent

\* confirm_select: _waiters holds one future per awaited method, so a second
\* select takes the place of a first one and leaves it to its timeout.
Select(p) ==
  pub' = [q \in Publishers |->
            CASE q = p -> IF conn = "up" THEN "select" ELSE "deaf"
              [] q # p /\ pub[q] = "select" -> "deaf"
              [] OTHER -> pub[q]]

\* The publish p begins: confirm.select first when the channel needs it.
\* No publish begins between a select-ok and the step that acts on it.
BeginPublish(p, r) ==
  IF confirmOn
  THEN Publish(p, r)
  ELSE /\ \A q \in Publishers : pub[q] # "selok"
       /\ Select(p)
       /\ UNCHANGED sent

-----------------------------------------------------------------------------
(* RpcClient.request *)

MayCall(r) ==
  /\ pc[r] = "idle"
  /\ QuietReconnect => LockFree

Accepted(r) == MayCall(r) /\ ReplyQueueOpen /\ ~Registered(r)

\* request() returns or raises to its caller.
Ends(r, outcome) ==
  /\ pc' = [pc EXCEPT ![r] = "done"]
  /\ result' = [result EXCEPT ![r] = outcome]

\* "session not started", or the id is one of an outstanding request.
RequestRefused(r) ==
  /\ MayCall(r)
  /\ ~ReplyQueueOpen \/ Registered(r)
  /\ Ends(r, "refused")
  /\ UNCHANGED <<fut, got, pub, tableVars, serviceVars>>

\* Registered, then refused by basic_publish because of connection.blocked.
RequestBlocked(r) ==
  /\ CanBlock
  /\ Accepted(r)
  /\ Ends(r, "rejected")
  /\ fut' = [fut EXCEPT ![r] = "rejected"]
  /\ parked' = parked \ SameId(r)
  /\ UNCHANGED <<got, pub, pending, serviceVars>>

\* The write raises ConnectionResetError, which request() does not map.
RequestRaises(r) ==
  /\ Accepted(r)
  /\ WriteRaises
  /\ Ends(r, "raw")
  /\ fut' = [fut EXCEPT ![r] = "pending"]
  /\ pending' = pending \cup {r}
  /\ UNCHANGED <<got, parked, pub, serviceVars>>

Request(r) ==
  /\ Accepted(r)
  /\ ~WriteRaises
  /\ pc' = [pc EXCEPT ![r] = "publish"]
  /\ fut' = [fut EXCEPT ![r] = "pending"]
  /\ pending' = pending \cup {r}
  /\ BeginPublish(r, r)
  /\ UNCHANGED <<result, got, parked, sessionVars, connVars, driverVars,
                 wireVars>>

\* select-ok has arrived: the channel is in confirm mode, publish.
RequestSelected(r) ==
  /\ pc[r] = "publish" /\ pub[r] = "selok"
  /\ confirmOn' = TRUE
  /\ IF WriteRaises
     THEN /\ pub' = [pub EXCEPT ![r] = "none"]
          /\ Ends(r, "raw")
          /\ UNCHANGED sent
     ELSE /\ Publish(r, r)
          /\ UNCHANGED <<pc, result>>
  /\ UNCHANGED <<fut, got, tableVars, sessionVars, conn, reset, driverVars,
                 wireVars>>

\* Confirmed and routed: remember_publish, then await the reply.
RequestConfirmed(r) ==
  /\ pc[r] = "publish" /\ pub[r] = "ok"
  /\ pub' = [pub EXCEPT ![r] = "none"]
  /\ Remember(r)
  /\ pc' = [pc EXCEPT ![r] = "wait"]
  /\ UNCHANGED <<fut, got, result, pending, serviceVars>>

\* PublishNack or PublishReturned.
RequestRejected(r) ==
  /\ pc[r] = "publish" /\ pub[r] \in {"nack", "returned"}
  /\ pub' = [pub EXCEPT ![r] = "none"]
  /\ Ends(r, "rejected")
  /\ FailAndForget(r, "rejected")
  /\ UNCHANGED <<got, serviceVars>>

\* The awaited future fails with ConnectionLost, or confirm.select is not
\* answered within 10 s: the exception leaves request() as it is.
RequestLost(r) ==
  /\ pc[r] = "publish" /\ pub[r] \in {"lost", "deaf"}
  /\ pub' = [pub EXCEPT ![r] = "none"]
  /\ Ends(r, "raw")
  /\ UNCHANGED <<fut, got, tableVars, serviceVars>>

\* wait_reply returns or raises what the future holds.
RequestReturns(r) ==
  /\ pc[r] = "wait" /\ fut[r] # "pending"
  /\ Ends(r, fut[r])
  /\ UNCHANGED <<fut, got, pub, tableVars, serviceVars>>

\* The client-side fallback timer of wait_reply fires.
RequestTimeout(r) ==
  /\ ~BrokerTimeout
  /\ pc[r] = "wait" /\ fut[r] = "pending"
  /\ FailAndForget(r, "timeout")
  /\ Ends(r, "timeout")
  /\ UNCHANGED <<got, pub, serviceVars>>

\* The caller cancels the task that runs request().
RequestCancelled(r) ==
  /\ r \in Cancellable
  /\ pc[r] \in {"publish", "wait"}
  /\ Ends(r, "cancelled")
  /\ pub' = [pub EXCEPT ![r] = "none"]
  /\ fut' = IF pc[r] = "wait" THEN Complete({r}, "cancelled") ELSE fut
  /\ UNCHANGED <<got, tableVars, serviceVars>>

Caller(r) ==
  \/ RequestRefused(r) \/ RequestBlocked(r) \/ RequestRaises(r) \/ Request(r)
  \/ RequestSelected(r) \/ RequestConfirmed(r) \/ RequestRejected(r)
  \/ RequestLost(r) \/ RequestReturns(r) \/ RequestTimeout(r)
  \/ RequestCancelled(r)

-----------------------------------------------------------------------------
(* The broker, the servers behind it and the read loop. *)

\* confirm.select-ok wakes the publisher whose waiter is registered.
SelectOk(p) ==
  /\ conn = "up" /\ ~reset
  /\ pub[p] = "select"
  /\ pub' = [pub EXCEPT ![p] = "selok"]
  /\ UNCHANGED <<callVars, tableVars, serviceVars>>

\* basic.ack or basic.nack, after basic.return if the message is unroutable.
Confirm(p) ==
  /\ conn \in {"up", "closing"} /\ ~reset
  /\ \/ /\ pub[p] = "sent"
        /\ \E verdict \in {"ok", "nack"} : pub' = [pub EXCEPT ![p] = verdict]
     \/ /\ pub[p] = "unrouted"
        /\ \E verdict \in {"returned", "nack"} :
             pub' = [pub EXCEPT ![p] = verdict]
  /\ UNCHANGED <<callVars, tableVars, serviceVars>>

\* A server answers r into the reply queue.  A request is redelivered to a
\* server whose ack was lost, so it may be answered again.
Deliver(r) ==
  /\ conn = "up" /\ ~reset
  /\ r \in sent
  /\ \A i \in 1..Len(inbox) : inbox[i] # r
  /\ inbox' = Append(inbox, r)
  /\ served' = served \cup {r}
  /\ UNCHANGED <<clientVars, sessionVars, connVars, driverVars, sent, losses,
                 closed>>

\* The peer resets the socket; the read loop has not noticed yet.
SocketReset ==
  /\ CanReset
  /\ conn = "up" /\ ~reset /\ losses < MaxLosses
  /\ reset' = TRUE
  /\ UNCHANGED <<clientVars, sessionVars, conn, confirmOn, driverVars,
                 brokerVars>>

\* Session._on_connection_lost
OnConnectionLost ==
  IF lossHandled
  THEN UNCHANGED <<fut, tableVars, started, replyQueue, lossHandled, drv,
                   attempt>>
  ELSE /\ lossHandled' = TRUE
       /\ started' = FALSE /\ replyQueue' = FALSE
       /\ IF FailFast
          THEN DiscardAll("lost") /\ UNCHANGED <<drv, attempt>>
          ELSE /\ UNCHANGED <<fut, tableVars>>
               /\ IF drv[AutoTask] = "idle"
                  THEN /\ drv' = [drv EXCEPT ![AutoTask] = "lock"]
                       /\ attempt' = [attempt EXCEPT ![AutoTask] = 1]
                  ELSE UNCHANGED <<drv, attempt>>

PubsAfterLossBug == pub

\* What the loss makes of the futures publishers await: waiters and confirms
\* fail, and the return noted for an acked publish is dropped.
PubsAfterLoss ==
  [p \in Publishers |->
     CASE pub[p] \in {"select", "sent", "unrouted"} -> "lost"
       [] pub[p] = "returned" -> "ok"
       [] OTHER -> pub[p]]

\* AmqpConnection._notify_loss: EOF, a reset, connection.close or missed
\* heartbeats.  Whoever awaits the connection is woken, the session is told.
Loss ==
  /\ conn \in {"up", "closing"}
  /\ losses < MaxLosses
  /\ Coalesced \/ Settled
  /\ ~BetweenPublishes
  /\ conn' = "lost"
  /\ losses' = losses + 1
  /\ pub' = PubsAfterLoss
  /\ wake' = IF wake = "none" /\ \E d \in Drivers : drv[d] \in AnswerSteps
             THEN "exc" ELSE wake
  /\ OnConnectionLost
  /\ UNCHANGED <<pc, got, result, replyLoop, epoch, reset, confirmOn, todo,
                 cur, inbox, sent, served, closed>>

\* One round of _reply_loop: receive a reply, resolve its id, forget the
\* parked publish, ack.  A write that raises fails everything outstanding;
\* the loop ends there, and at the first receive after a loss.
ReplyRound ==
  /\ replyLoop = "on" /\ inbox # <<>>
  /\ LET r == Head(inbox)
         mine == SameId(r) \cap pending
         rest == IF WriteRaises THEN pending ELSE mine
     IN  /\ fut' = [s \in Requests |->
                      IF fut[s] # "pending" \/ s \notin rest THEN fut[s]
                      ELSE IF s \in mine THEN "reply" ELSE "lost"]
         /\ got' = [s \in Requests |->
                      IF s \in mine /\ fut[s] = "pending" THEN {r} ELSE got[s]]
         /\ pending' = pending \ (mine \cup rest)
         /\ parked' = IF WriteRaises THEN {} ELSE parked \ SameId(r)
  /\ inbox' = Tail(inbox)
  /\ replyLoop' = IF WriteRaises \/ conn = "lost" THEN "off" ELSE "on"
  /\ UNCHANGED <<pc, result, pub, started, replyQueue, lossHandled, epoch,
                 connVars, driverVars, sent, served, losses, closed>>

\* The loss sentinel, or the recorded loss, ends the loop.
ReplyLoopEnds ==
  /\ replyLoop = "on" /\ inbox = <<>> /\ conn = "lost"
  /\ replyLoop' = "off"
  /\ OnConnectionLost
  /\ UNCHANGED <<pc, got, result, pub, epoch, connVars, wake, todo, cur,
                 brokerVars>>

-----------------------------------------------------------------------------
(* Session.close *)

\* Up to conn.close(): outstanding calls fail, auto-reconnect and the reply
\* loop are cancelled.  A caller's own coordinator is not.
Close ==
  /\ CanClose /\ ~closed
  /\ closed' = TRUE
  /\ started' = FALSE /\ replyQueue' = FALSE
  /\ DiscardAll("closed")
  /\ replyLoop' = "off"
  /\ drv' = [drv EXCEPT ![AutoTask] = "idle"]
  /\ IF drv[AutoTask] \in Critical
     THEN /\ pub' = [pub EXCEPT ![Republisher] = "none"]
          /\ wake' = "none" /\ todo' = {} /\ cur' = Republisher
     ELSE UNCHANGED <<pub, wake, todo, cur>>
  /\ conn' = CASE conn = "up" -> "closing"
               [] conn = "none" -> "shut"
               [] OTHER -> conn
  /\ UNCHANGED <<pc, got, result, lossHandled, epoch, reset, confirmOn,
                 attempt, inbox, sent, served, losses>>

\* AmqpConnection.close finishes: close-ok, or two seconds without it.  The
\* read loop is cancelled, so nothing awaited here is ever answered.
CloseOk ==
  /\ conn = "closing"
  /\ conn' = "shut"
  /\ pub' = [p \in Publishers |->
               CASE pub[p] = "select" -> "deaf"
                 [] pub[p] \in {"sent", "unrouted"} -> "orphan"
                 [] OTHER -> pub[p]]
  /\ UNCHANGED <<callVars, tableVars, sessionVars, reset, confirmOn,
                 driverVars, brokerVars>>

-----------------------------------------------------------------------------
(* ReconnectCoordinator.reconnect and, under the lock, Session.reconnect. *)

\* An application calls ReconnectCoordinator().reconnect(session).
StartManual ==
  /\ drv[ManualTask] = "idle"
  /\ epoch < MaxEpoch /\ ~closed
  /\ drv' = [drv EXCEPT ![ManualTask] = "lock"]
  /\ attempt' = [attempt EXCEPT ![ManualTask] = 1]
  /\ UNCHANGED <<clientVars, sessionVars, connVars, wake, todo, cur,
                 brokerVars>>

\* The lock is free and somebody else has reconnected already.
AlreadyOpen(d) ==
  /\ drv[d] = "lock" /\ LockFree /\ ReplyQueueOpen
  /\ drv' = [drv EXCEPT ![d] = "idle"]
  /\ UNCHANGED <<clientVars, sessionVars, connVars, attempt, wake, todo, cur,
                 brokerVars>>

\* _teardown_for_reconnect up to conn.close().  Tasks woken by the old
\* connection ran before this one.
Teardown(d) ==
  /\ drv[d] = "lock" /\ LockFree /\ ~ReplyQueueOpen
  /\ CallsSettled
  /\ started' = FALSE /\ replyQueue' = FALSE /\ replyLoop' = "off"
  /\ IF FailFast THEN DiscardAll("lost") ELSE UNCHANGED <<fut, tableVars>>
  /\ conn' = IF conn = "up" THEN "closing" ELSE conn
  /\ drv' = [drv EXCEPT ![d] = "closing"]
  /\ UNCHANGED <<pc, got, result, pub, lossHandled, epoch, reset, confirmOn,
                 attempt, wake, todo, cur, brokerVars>>

\* A new AmqpConnection and epoch; start() begins to connect.
StartEpoch(d) ==
  /\ drv[d] = "closing"
  /\ conn \in {"none", "lost", "shut"}
  /\ CallsSettled
  /\ conn' = "none" /\ reset' = FALSE /\ confirmOn' = FALSE
  /\ epoch' = epoch + 1
  /\ lossHandled' = FALSE
  /\ inbox' = <<>> /\ sent' = {}
  /\ drv' = [drv EXCEPT ![d] = "open"]
  /\ wake' = "none"
  /\ UNCHANGED <<clientVars, started, replyQueue, replyLoop, attempt, todo,
                 cur, served, losses, closed>>

\* The TCP connection is established and the read loop runs.
Dialled(d) ==
  /\ drv[d] = "open" /\ conn = "none"
  /\ conn' = "up"
  /\ UNCHANGED <<clientVars, sessionVars, reset, confirmOn, driverVars,
                 brokerVars>>

\* The broker answers the handshake and channel.open, queue.declare or
\* basic.consume.
BrokerAnswers(d) ==
  /\ drv[d] \in AnswerSteps /\ wake = "none"
  /\ conn = "up" /\ ~reset
  /\ wake' = "ok"
  /\ UNCHANGED <<clientVars, sessionVars, connVars, drv, attempt, todo, cur,
                 brokerVars>>

\* What _republish_parked iterates over.
Snapshot == IF FailFast \/ ~replyQueue THEN {} ELSE parked

\* start() goes on: declare the reply queue, consume from it, and with the
\* reply loop running take the snapshot.
Opened(d) ==
  /\ drv[d] = "open" /\ wake = "ok"
  /\ drv' = [drv EXCEPT ![d] = "declare"]
  /\ wake' = "none"
  /\ UNCHANGED <<clientVars, sessionVars, connVars, attempt, todo, cur,
                 brokerVars>>

Declared(d) ==
  /\ drv[d] = "declare" /\ wake = "ok"
  /\ drv' = [drv EXCEPT ![d] = "consume"]
  /\ wake' = "none"
  /\ replyQueue' = TRUE
  /\ UNCHANGED <<clientVars, started, lossHandled, replyLoop, epoch, connVars,
                 attempt, todo, cur, brokerVars>>

Consuming(d) ==
  /\ drv[d] = "consume" /\ wake = "ok"
  /\ drv' = [drv EXCEPT ![d] = "republish"]
  /\ wake' = "none"
  /\ started' = TRUE
  /\ replyLoop' = "on"
  /\ todo' = Snapshot
  /\ UNCHANGED <<clientVars, replyQueue, lossHandled, epoch, connVars,
                 attempt, cur, brokerVars>>

AttemptsLeftBug(d) == attempt[d] <= MaxAttempts

AttemptsLeft(d) == attempt[d] < MaxAttempts

GiveUpBug(d) == UNCHANGED <<fut, tableVars>>

\* The coordinator raises.  Only _park_reconnect then fails what is left.
GiveUp(d) == IF d = AutoTask THEN DiscardAll("lost") ELSE UNCHANGED <<fut, tableVars>>

\* session.reconnect() raised: back off and try again, or give up.
AttemptFails(d) ==
  /\ wake' = "none" /\ todo' = {} /\ cur' = Republisher
  /\ IF AttemptsLeft(d)
     THEN /\ drv' = [drv EXCEPT ![d] = "sleep"]
          /\ attempt' = [attempt EXCEPT ![d] = @ + 1]
          /\ UNCHANGED <<fut, tableVars>>
     ELSE /\ drv' = [drv EXCEPT ![d] = "idle"]
          /\ UNCHANGED attempt
          /\ GiveUp(d)

\* The dial is refused, the loss fails the awaited answer, or the answer was
\* awaited on a dead connection and times out after 10 s.
StartFails(d) ==
  /\ drv[d] \in AnswerSteps
  /\ \/ wake = "exc"
     \/ wake = "none" /\ drv[d] = "open" /\ conn = "none"
     \/ wake = "none" /\ conn \in {"lost", "shut"}
  /\ AttemptFails(d)
  /\ UNCHANGED <<pc, got, result, pub, sessionVars, connVars, brokerVars>>

\* asyncio.sleep(delay) ends.  The back-off outlasts the notice of a reset.
BackoffEnds(d) ==
  /\ drv[d] = "sleep"
  /\ ~(conn = "up" /\ reset)
  /\ drv' = [drv EXCEPT ![d] = "lock"]
  /\ UNCHANGED <<clientVars, sessionVars, connVars, attempt, wake, todo, cur,
                 brokerVars>>

-----------------------------------------------------------------------------
(* Session._republish_parked, one parked envelope after the other. *)

Republishing(d) == drv[d] = "republish" /\ pub[Republisher] = "none"

\* Nobody waits for that id any more.
RepublishSkip(d, r) ==
  /\ Republishing(d) /\ r \in todo /\ ~Registered(r)
  /\ parked' = parked \ SameId(r)
  /\ todo' = todo \ {r}
  /\ UNCHANGED <<callVars, pub, pending, sessionVars, connVars, drv, attempt,
                 wake, cur, brokerVars>>

RepublishBlocked(d, r) ==
  /\ CanBlock
  /\ Republishing(d) /\ r \in todo /\ Registered(r)
  /\ FailAndForget(r, "rejected")
  /\ todo' = todo \ {r}
  /\ UNCHANGED <<pc, got, result, pub, sessionVars, connVars, drv, attempt,
                 wake, cur, brokerVars>>

RepublishRaises(d, r) ==
  /\ Republishing(d) /\ r \in todo /\ Registered(r)
  /\ WriteRaises
  /\ AttemptFails(d)
  /\ UNCHANGED <<pc, got, result, pub, sessionVars, connVars, brokerVars>>

Republish(d, r) ==
  /\ Republishing(d) /\ r \in todo /\ Registered(r)
  /\ ~WriteRaises
  /\ BeginPublish(Republisher, r)
  /\ todo' = todo \ {r}
  /\ cur' = r
  /\ UNCHANGED <<callVars, tableVars, sessionVars, connVars, drv, attempt,
                 wake, wireVars>>

RepublishSelected(d) ==
  /\ drv[d] = "republish" /\ pub[Republisher] = "selok"
  /\ confirmOn' = TRUE
  /\ IF WriteRaises
     THEN /\ pub' = [pub EXCEPT ![Republisher] = "none"]
          /\ AttemptFails(d)
          /\ UNCHANGED sent
     ELSE /\ Publish(Republisher, cur)
          /\ UNCHANGED <<fut, tableVars, driverVars>>
  /\ UNCHANGED <<pc, got, result, sessionVars, conn, reset, wireVars>>

RepublishConfirmed(d) ==
  /\ drv[d] = "republish" /\ pub[Republisher] = "ok"
  /\ pub' = [pub EXCEPT ![Republisher] = "none"]
  /\ cur' = Republisher
  /\ UNCHANGED <<callVars, tableVars, sessionVars, connVars, drv, attempt,
                 wake, todo, brokerVars>>

\* The parked call fails with PUBLISH_NACK or PUBLISH_RETURNED.
RepublishRejected(d) ==
  /\ drv[d] = "republish" /\ pub[Republisher] \in {"nack", "returned"}
  /\ pub' = [pub EXCEPT ![Republisher] = "none"]
  /\ FailAndForget(cur, "rejected")
  /\ cur' = Republisher
  /\ UNCHANGED <<pc, got, result, sessionVars, connVars, drv, attempt, wake,
                 todo, brokerVars>>

\* Lost again, or confirm.select is not answered within 10 s.
RepublishLost(d) ==
  /\ drv[d] = "republish" /\ pub[Republisher] \in {"lost", "deaf"}
  /\ pub' = [pub EXCEPT ![Republisher] = "none"]
  /\ AttemptFails(d)
  /\ UNCHANGED <<pc, got, result, sessionVars, connVars, brokerVars>>

\* The snapshot is done: reconnect returns and the lock is released.
Reconnected(d) ==
  /\ Republishing(d) /\ todo = {}
  /\ drv' = [drv EXCEPT ![d] = "idle"]
  /\ UNCHANGED <<clientVars, sessionVars, connVars, attempt, wake, todo, cur,
                 brokerVars>>

Driver(d) ==
  \/ AlreadyOpen(d) \/ Teardown(d) \/ StartEpoch(d)
  \/ Opened(d) \/ Declared(d) \/ Consuming(d)
  \/ StartFails(d) \/ BackoffEnds(d)
  \/ \E r \in Requests : \/ RepublishSkip(d, r) \/ RepublishBlocked(d, r)
                         \/ RepublishRaises(d, r) \/ Republish(d, r)
  \/ RepublishSelected(d) \/ RepublishConfirmed(d) \/ RepublishRejected(d)
  \/ RepublishLost(d) \/ Reconnected(d)

-----------------------------------------------------------------------------
Next ==
  \/ \E r \in Requests : Caller(r) \/ Deliver(r)
  \/ \E p \in Publishers : SelectOk(p) \/ Confirm(p)
  \/ \E d \in Drivers : Driver(d) \/ Dialled(d) \/ BrokerAnswers(d)
  \/ SocketReset \/ Loss \/ ReplyRound \/ ReplyLoopEnds
  \/ StartManual \/ Close \/ CloseOk

Spec == Init /\ [][Next]_vars

\* Ready tasks run, timers fire, a live broker answers what it was sent, a
\* routed request is answered (by a server, or on TTL by the dead-letter
\* processor) and a reset is noticed.  Nobody has to call, cancel, close,
\* time out, dial successfully or lose a connection.
Fairness ==
  /\ \A r \in Requests :
       /\ WF_vars(\/ RequestSelected(r) \/ RequestConfirmed(r)
                  \/ RequestRejected(r) \/ RequestLost(r) \/ RequestReturns(r))
       /\ WF_vars(Deliver(r))
  /\ \A p \in Publishers : WF_vars(SelectOk(p)) /\ WF_vars(Confirm(p))
  /\ \A d \in Drivers :
       WF_vars(Driver(d)) /\ WF_vars(BrokerAnswers(d))
  /\ WF_vars(ReplyRound) /\ WF_vars(ReplyLoopEnds)
  /\ WF_vars(CloseOk)
  /\ WF_vars(Loss /\ reset)

FairSpec == Spec /\ Fairness

-----------------------------------------------------------------------------
(* Properties. *)

Awaiting(r) == pc[r] = "wait" /\ fut[r] = "pending"

\* A future that is not done is in the correlation table: whatever takes an
\* entry out of the table (a reply, a rejection, a timeout, a loss, close)
\* completes its future, so no caller is left with a future nobody can reach.
FutureTracked == \A r \in Requests : fut[r] = "pending" => r \in pending

\* Every call that awaits its reply can be carried over a loss: an envelope
\* is parked under its id, through replies, rejections, timeouts and calls
\* that reuse the id.
Recoverable == \A r \in Requests : Awaiting(r) => SameId(r) \cap parked # {}

\* A call that is over for its caller has left no entry in the correlation
\* table (which would refuse its id for good), unless its task was cancelled
\* or an exception nothing maps went through request().
TableClean ==
  \A r \in Requests :
    pc[r] = "done" /\ result[r] \notin {"raw", "cancelled"} => r \notin pending

\* reply_queue_open, which lets request() publish, is never true of a
\* connection that is lost, closing or under construction, whatever order
\* the loss, the handshake's answers and a close are handled in.
OpenIsLive == ReplyQueueOpen => conn = "up"

\* Fail-fast: once the loss has been handled and until a new epoch begins, no
\* call is outstanding in the correlation table, and none awaits its reply.
LossFailsAll ==
  FailFast /\ lossHandled =>
    pending = {} /\ \A r \in Requests : ~Awaiting(r)

\* With the session open on a sound socket and no reconnect running, every
\* call that awaits its reply has been published in this epoch: a reconnect
\* forgets nobody.
EpochCarriesAll ==
  ReplyQueueOpen /\ ~reset /\ (\A d \in Drivers : drv[d] = "idle") =>
    \A r \in Requests : Awaiting(r) => SameId(r) \cap sent # {}

\* Session implements RpcCall: a call completes once, and with a reply only
\* if that reply answers this very call.
CallState(r) ==
  CASE pc[r] = "idle" -> "idle"
    [] pc[r] \in {"publish", "wait"} -> "open"
    [] pc[r] = "done" /\ result[r] # "reply" -> "failed"
    [] pc[r] = "done" /\ result[r] = "reply" /\ got[r] = {r} -> "replied"
    [] OTHER -> "mixed up"

Call == INSTANCE RpcCall WITH state <- [r \in Requests |-> CallState(r)],
                              answered <- served

ImplementsRpcCall == Call!Spec

\* Every call ends for its caller, whatever phase a loss finds it in: from
\* whatever calls are open, the session comes to a state where none is.
CallEnds ==
  (\E r \in Requests : pc[r] \notin {"idle", "done"})
    ~> (\A r \in Requests : pc[r] \in {"idle", "done"})

\* A call that awaits its reply gets it, or an error: what the default policy
\* promises of a parked call.
WaitEnds == \A r \in Requests : pc[r] = "wait" ~> pc[r] = "done"

\* Every reconnect ends, the session's own and the application's that waits
\* for its lock or holds it: none is left in the end.
ReconnectEnds ==
  (\E d \in Drivers : drv[d] # "idle") ~> (\A d \in Drivers : drv[d] = "idle")
=============================================================================
