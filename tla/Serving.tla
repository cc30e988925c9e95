------------------------------ MODULE Serving ------------------------------
(***************************************************************************)
(* A request queue, the RpcServers that consume it and the                 *)
(* DlqTimeoutProcessor that answers what the queue has given up, over a    *)
(* broker that redelivers what was not acked.                              *)
(*                                                                         *)
(* RpcServer._handle awaits only the handler and the last drain: the reply *)
(* and the ack are written in one step and the broker reads them one by    *)
(* one, so a connection may be lost between them.  The code sets no        *)
(* prefetch limit: the broker pushes to a consumer as long as its          *)
(* connection stands, whether or not its loop still runs.                  *)
(***************************************************************************)
EXTENDS Naturals, Sequences

CONSTANTS
  Requests,
  Servers,             \* RpcServers of the queue
  Processor,           \* the DlqTimeoutProcessor of its dead-letter queue
  Nothing,
  OneWay,              \* requests without a reply_to to answer to
  Limit,               \* QueueProfile.delivery_limit, 0 if there is none
  Blocks,              \* the broker may block a connection
  MaxStops             \* bound: connections lost or closed

Consumers == Servers \cup {Processor}

ASSUME ServingAssumption ==
  /\ Processor \notin Servers
  /\ Consumers \cap {"none", "ready", "dead", "settled"} = {}
  /\ Nothing \notin Requests
  /\ OneWay \subseteq Requests
  /\ Limit \in Nat /\ MaxStops \in Nat
  /\ Blocks \in BOOLEAN

VARIABLES
  place,         \* place[r]: "none" before it is published, "ready" in the
                 \* queue, "dead" in the dead-letter queue, the consumer that
                 \* has not acked it, or "settled"
  returned,      \* returned[r]: deliveries of it that came back
  answered,      \* requests with an answer at the client's reply queue
  link,          \* link[c]: c's connection, "down" or "up"
  blocked,       \* consumers with _publish_blocked set
  loop,          \* loop[c]: the task of _loop, "off", "receive", "handle",
                 \* "ended" by an exception, or "closed" (close() awaits the
                 \* connection's close)
  inbox,         \* inbox[c]: deliveries receive() has not returned
  job,           \* job[c]: the request whose handler runs
  out,           \* out[c]: what c has written and the broker not read
  stops          \* connections lost or closed so far

queueVars == <<place, returned>>
taskVars == <<loop, job>>
vars == <<queueVars, answered, link, blocked, taskVars, inbox, out, stops>>

Frames == [kind : {"answer", "ack", "requeue", "discard"}, of : Requests]

TypeOK ==
  /\ place \in [Requests -> {"none", "ready", "dead", "settled"} \cup Consumers]
  /\ returned \in [Requests -> 0..(Limit + 1)]
  /\ answered \subseteq Requests
  /\ link \in [Consumers -> {"down", "up"}]
  /\ blocked \subseteq Consumers
  /\ loop \in [Consumers -> {"off", "receive", "handle", "ended", "closed"}]
  /\ inbox \in [Consumers -> Seq(Requests)]
  /\ job \in [Consumers -> Requests \cup {Nothing}]
  /\ out \in [Consumers -> Seq(Frames)]
  /\ stops \in Nat

\* The queues are declared, and the dead-letter queue is bound.
Init ==
  /\ place = [r \in Requests |-> "none"]
  /\ returned = [r \in Requests |-> 0]
  /\ answered = {}
  /\ link = [c \in Consumers |-> "down"]
  /\ blocked = {}
  /\ loop = [c \in Consumers |-> "off"]
  /\ inbox = [c \in Consumers |-> <<>>]
  /\ job = [c \in Consumers |-> Nothing]
  /\ out = [c \in Consumers |-> <<>>]
  /\ stops = 0

-----------------------------------------------------------------------------
(* The queue: TTL, delivery limit and dead-lettering as the profile declares *)
(* them.                                                                     *)

\* Operators named "...Bug" are faulty variants of the operator that follows
\* them; the mutation runs put them in its place.
ExhaustedBug(r) == returned[r] > Limit

\* x-delivery-limit: one more delivery of r may not come back.
Exhausted(r) == returned[r] >= Limit

\* Where r goes when c gives it back: the dead-letter queue has no limit.
Back(c, r) ==
  IF c = Processor \/ (Limit > 0 /\ Exhausted(r)) THEN "dead" ELSE "ready"

Count(c, r) == IF c = Processor \/ Limit = 0 THEN returned[r] ELSE returned[r] + 1

Publish(r) ==
  /\ place[r] = "none"
  /\ place' = [place EXCEPT ![r] = "ready"]
  /\ UNCHANGED <<returned, answered, link, blocked, taskVars, inbox, out, stops>>

HasTtlBug == FALSE

\* A profile has a TTL together with its dead-letter exchange.
HasTtl == TRUE

Expire(r) ==
  /\ HasTtl
  /\ place[r] = "ready"
  /\ place' = [place EXCEPT ![r] = "dead"]
  /\ UNCHANGED <<returned, answered, link, blocked, taskVars, inbox, out, stops>>

Push(c, r) ==
  /\ link[c] = "up"
  /\ place[r] = IF c = Processor THEN "dead" ELSE "ready"
  /\ place' = [place EXCEPT ![r] = c]
  /\ inbox' = [inbox EXCEPT ![c] = Append(@, r)]
  /\ UNCHANGED <<returned, answered, link, blocked, taskVars, out, stops>>

\* The broker reads what c has written.
BrokerReads(c) ==
  /\ out[c] # <<>>
  /\ LET f == Head(out[c])
     IN  CASE f.kind = "answer" ->
                answered' = answered \cup {f.of} /\ UNCHANGED queueVars
           [] f.kind = "ack" ->
                /\ place' = [place EXCEPT ![f.of] = "settled"]
                /\ UNCHANGED <<returned, answered>>
           [] f.kind = "requeue" ->
                /\ place' = [place EXCEPT ![f.of] = Back(c, f.of)]
                /\ returned' = [returned EXCEPT ![f.of] = Count(c, f.of)]
                /\ UNCHANGED answered
           [] f.kind = "discard" ->
                /\ place' = [place EXCEPT ![f.of] = "dead"]
                /\ UNCHANGED <<returned, answered>>
  /\ out' = [out EXCEPT ![c] = Tail(@)]
  /\ UNCHANGED <<link, blocked, taskVars, inbox, stops>>

Block(c) ==
  /\ Blocks /\ link[c] = "up"
  /\ blocked' = IF c \in blocked THEN blocked \ {c} ELSE blocked \cup {c}
  /\ UNCHANGED <<queueVars, answered, link, taskVars, inbox, out, stops>>

\* c's connection is gone: the broker takes back all that c has not acked.
Disconnect(c) ==
  /\ link' = [link EXCEPT ![c] = "down"]
  /\ blocked' = blocked \ {c}
  /\ inbox' = [inbox EXCEPT ![c] = <<>>]
  /\ out' = [out EXCEPT ![c] = <<>>]
  /\ place' = [r \in Requests |-> IF place[r] = c THEN Back(c, r) ELSE place[r]]
  /\ returned' = [r \in Requests |->
                    IF place[r] = c THEN Count(c, r) ELSE returned[r]]
  /\ UNCHANGED answered

\* The connection is lost; the handler that runs goes on.
Drop(c) ==
  /\ link[c] = "up" /\ stops < MaxStops
  /\ stops' = stops + 1
  /\ Disconnect(c)
  /\ UNCHANGED taskVars

-----------------------------------------------------------------------------
(* RpcServer and DlqTimeoutProcessor. *)

\* start() of a new server or processor, which takes the place of one whose
\* connection is gone.
Start(c) ==
  /\ link[c] = "down" /\ loop[c] \in {"off", "ended", "closed"}
  /\ link' = [link EXCEPT ![c] = "up"]
  /\ loop' = [loop EXCEPT ![c] = "receive"]
  /\ UNCHANGED <<queueVars, answered, blocked, job, inbox, out, stops>>

AnswerBug(r) == <<[kind |-> "ack", of |-> r], [kind |-> "answer", of |-> r]>>

\* The reply is written, then the ack.
Answer(r) == <<[kind |-> "answer", of |-> r], [kind |-> "ack", of |-> r]>>

\* basic_publish refuses while the connection is blocked, and the exception
\* ends the loop with nothing written; so does a write to a connection that is
\* gone.
AnswerAndAck(c, r) ==
  IF link[c] = "down" \/ (c \in blocked /\ r \notin OneWay)
  THEN loop' = [loop EXCEPT ![c] = "ended"] /\ UNCHANGED out
  ELSE /\ loop' = [loop EXCEPT ![c] = "receive"]
       /\ out' = [out EXCEPT ![c] =
                    @ \o IF r \in OneWay THEN <<[kind |-> "ack", of |-> r]>>
                         ELSE Answer(r)]

\* receive() returns the oldest delivery; the processor answers it with a
\* timeout at once.
Receive(c) ==
  /\ loop[c] = "receive" /\ link[c] = "up" /\ inbox[c] # <<>>
  /\ inbox' = [inbox EXCEPT ![c] = Tail(@)]
  /\ IF c = Processor
     THEN AnswerAndAck(c, Head(inbox[c])) /\ UNCHANGED job
     ELSE /\ job' = [job EXCEPT ![c] = Head(inbox[c])]
          /\ loop' = [loop EXCEPT ![c] = "handle"]
          /\ UNCHANGED out
  /\ UNCHANGED <<queueVars, answered, link, blocked, stops>>

\* receive() raises on a connection that is lost.
ReceiveRaises(c) ==
  /\ loop[c] = "receive" /\ link[c] = "down"
  /\ loop' = [loop EXCEPT ![c] = "ended"]
  /\ UNCHANGED <<queueVars, answered, link, blocked, job, inbox, out, stops>>

\* The handler returns, or raises what becomes an error reply.
Replies(s) ==
  /\ loop[s] = "handle"
  /\ AnswerAndAck(s, job[s])
  /\ job' = [job EXCEPT ![s] = Nothing]
  /\ UNCHANGED <<queueVars, answered, link, blocked, inbox, stops>>

NackBug(r, how) == IF how = "requeue" THEN <<[kind |-> how, of |-> r]>> ELSE <<>>

Nack(r, how) == <<[kind |-> how, of |-> r]>>

\* The handler raises NackDelivery, with or without requeue.
Nacks(s) ==
  /\ loop[s] = "handle"
  /\ job' = [job EXCEPT ![s] = Nothing]
  /\ IF link[s] = "down"
     THEN loop' = [loop EXCEPT ![s] = "ended"] /\ UNCHANGED out
     ELSE /\ loop' = [loop EXCEPT ![s] = "receive"]
          /\ \E how \in {"requeue", "discard"} :
               out' = [out EXCEPT ![s] = @ \o Nack(job[s], how)]
  /\ UNCHANGED <<queueVars, answered, link, blocked, inbox, stops>>

\* close() cancels the loop at its await.  After a loop that has raised it
\* raises too, and the connection is not closed.
Close(c) ==
  /\ loop[c] \in {"receive", "handle"} /\ stops < MaxStops
  /\ stops' = stops + 1
  /\ loop' = [loop EXCEPT ![c] = "closed"]
  /\ job' = [job EXCEPT ![c] = Nothing]
  /\ UNCHANGED <<queueVars, answered, link, blocked, inbox, out>>

\* The connection's close() has ended, in order or by its two seconds.
Closed(c) ==
  /\ loop[c] = "closed" /\ link[c] = "up"
  /\ Disconnect(c)
  /\ UNCHANGED <<taskVars, stops>>

-----------------------------------------------------------------------------
Server(s) == Replies(s) \/ Nacks(s)

Consumer(c) == Receive(c) \/ ReceiveRaises(c) \/ Closed(c)

Next ==
  \/ \E r \in Requests : Publish(r) \/ Expire(r)
  \/ \E c \in Consumers :
       \/ Start(c) \/ Consumer(c) \/ Close(c)
       \/ BrokerReads(c) \/ Block(c) \/ Drop(c)
       \/ \E r \in Requests : Push(c, r)
  \/ \E s \in Servers : Server(s)

Spec == Init /\ [][Next]_vars

\* Handlers return, ready tasks run, the broker reads, delivers to the
\* processor and expires what stays in the queue, and a processor that has
\* stopped is started again.  Nobody has to start or stop a server.
Fairness ==
  /\ \A s \in Servers : WF_vars(Server(s))
  /\ \A c \in Consumers : WF_vars(Consumer(c)) /\ WF_vars(BrokerReads(c))
  /\ \A r \in Requests : WF_vars(Expire(r)) /\ WF_vars(Push(Processor, r))
  /\ WF_vars(Start(Processor))

FairSpec == Spec /\ Fairness

-----------------------------------------------------------------------------
(* Properties. *)

Has(s, x) == \E i \in 1..Len(s) : s[i] = x

Settles(c, r) ==
  \E i \in 1..Len(out[c]) : out[c][i].of = r /\ out[c][i].kind # "answer"

\* r is unacked on a connection that stands, and nobody will get to it.
Stranded(r) == \E c \in Consumers : place[r] = c /\ loop[c] = "ended"

\* Every request a consumer has not acked is in that consumer's hands: not yet
\* received, being handled, or settled by a frame under way.  Whichever way
\* the handler ends, _handle forgets no delivery, unless the loop has ended.
HeldIsHandled ==
  \A c \in Consumers : \A r \in Requests :
    place[r] = c /\ loop[c] # "closed" =>
      Has(inbox[c], r) \/ job[c] = r \/ Settles(c, r) \/ Stranded(r)

\* Serving implements WorkQueue: through losses between reply and ack,
\* redeliveries, nacks and dead-lettering no request leaves the queue without
\* an answer, and none is answered after it has left.
Queue == INSTANCE WorkQueue WITH
  owed <- {r \in Requests : place[r] \notin {"none", "settled"}}

ImplementsWorkQueue == Queue!Spec

\* Every request that is published is settled, also when no server ever runs
\* and when handlers nack it again and again, unless a blocked connection has
\* left it stranded.
RequestSettles ==
  \A r \in Requests : place[r] = "ready" ~> place[r] = "settled" \/ Stranded(r)
=============================================================================
