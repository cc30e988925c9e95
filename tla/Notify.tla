------------------------------- MODULE Notify -------------------------------
(***************************************************************************)
(* Notifications that fan out over an exchange: the events of              *)
(* EventPublisher and EventSubscriber, or the advertisements of            *)
(* MeshService and MeshRegistryViewer, whose classes have the same shape.  *)
(*                                                                         *)
(* Both declare the exchange before they use it.  The events' exchange is  *)
(* auto-delete: the broker deletes it with its last binding.  The          *)
(* registry's is durable.  A subscriber's queue is exclusive: it goes with *)
(* the connection, and nothing is delivered twice.                         *)
(*                                                                         *)
(* A name is the sequence of its segments between dots.                    *)
(***************************************************************************)
EXTENDS Naturals, Sequences, SequencesExt

CONSTANTS
  Publishers,          \* EventPublishers, or MeshServices
  Subscribers,         \* EventSubscribers, or MeshRegistryViewers
  Kinds,               \* "events", "registry", or both, one per behaviour
  Durable,             \* publishers with a durable QueueProfile
  service,             \* service[p]: the name of p's ServiceIdentity
  methods,             \* methods[p]: the sequence of its methods
  Ttl,                 \* instants an advertisement lasts
  None,
  MaxSends, MaxStops   \* bounds: messages published, connections that end

\* Each has a connection of its own.
ASSUME NotifyAssumption ==
  /\ Publishers \cap Subscribers = {}
  /\ Kinds \subseteq {"events", "registry"} /\ Durable \subseteq Publishers
  /\ service \in [Publishers -> Seq(STRING)]
  /\ methods \in [Publishers -> Seq(Seq(STRING))]
  /\ Ttl \in Nat /\ MaxSends \in Nat /\ MaxStops \in Nat

Actors == Publishers \cup Subscribers
Services == {service[p] : p \in Publishers}

VARIABLES
  kind,          \* what the exchange carries
  exchange,      \* it exists
  bound,         \* subscribers whose queue is bound to it
  channel,       \* channel[a]: a's channel at the broker, "open" or "closed"
  pub,           \* pub[p]: where p is, "off", "connected", "declared", "ready",
                 \* "waits" (for a confirm)
  wire,          \* wire[p]: what p has written and the broker not read
  bindings,      \* keys bound to services' queues at the mesh exchange
  left,          \* left[p]: keys start() has not bound yet
  sub,           \* sub[s]: where s is, "off", "connected", "declared", "queued",
                 \* "bound", "receive", "handle", "ended" by an exception, or
                 \* "failed" to start
  queue,         \* queue[s]: what s has not acked
  store,         \* store[s][x]: the advertisement of service x, or None
  sends, stops,  \* messages published and connections ended so far
  alone,         \* history: publishers under whom the exchange was deleted
  missed         \* history: publishers with a message the broker dropped while
                 \* somebody was subscribed

pubVars == <<pub, wire, bindings, left>>
subVars == <<sub, queue, store>>
brokerVars == <<exchange, bound, channel>>
vars == <<kind, brokerVars, pubVars, subVars, sends, stops, alone, missed>>

Init ==
  /\ kind \in Kinds
  /\ exchange = FALSE
  /\ bound = {} /\ bindings = {} /\ alone = {} /\ missed = {}
  /\ channel = [a \in Actors |-> "closed"]
  /\ pub = [p \in Publishers |-> "off"]
  /\ wire = [p \in Publishers |-> <<>>]
  /\ left = [p \in Publishers |-> <<>>]
  /\ sub = [s \in Subscribers |-> "off"]
  /\ queue = [s \in Subscribers |-> <<>>]
  /\ store = [s \in Subscribers |-> [x \in Services |-> None]]
  /\ sends = 0 /\ stops = 0

-----------------------------------------------------------------------------
(* ServiceIdentity and ServiceAdvertisement. *)

routing_key(x, m) == x \o m

\* The service's own name, or one below it that has no empty segment inside.
assert_in_namespace(x, key) ==
  \/ key = x
  \/ /\ IsStrictPrefix(x, key)
     /\ \A n \in 2..(Len(key) - 1) : key[n] # ""

queue_name(x) == <<"nr", "svc">> \o x

\* An event has no age that counts; "foreign" is a body that does not decode.
Event(p) == [from |-> p, age |-> 0]
Foreign == [from |-> "foreign", age |-> 0]

is_expired(advert) == advert.age >= Ttl

\* lookup() prunes what has expired.
lookup(s, x) ==
  IF store[s][x] = None \/ is_expired(store[s][x]) THEN None ELSE store[s][x]

-----------------------------------------------------------------------------
(* The broker. *)

\* It reads a publish: one to an exchange that does not exist closes the
\* channel, and on a closed channel nothing counts any more.  The library does
\* not handle channel.close, and goes on as before.
BrokerReads(p) ==
  /\ wire[p] # <<>>
  /\ wire' = [wire EXCEPT ![p] = Tail(@)]
  /\ IF channel[p] = "open" /\ exchange
     THEN /\ queue' = [s \in Subscribers |->
                         IF s \in bound THEN Append(queue[s], Head(wire[p])) ELSE queue[s]]
          /\ pub' = IF pub[p] = "waits" THEN [pub EXCEPT ![p] = "ready"] ELSE pub
          /\ UNCHANGED <<channel, missed>>
     ELSE /\ channel' = [channel EXCEPT ![p] = "closed"]
          /\ missed' = IF bound # {} THEN missed \cup {p} ELSE missed
          /\ UNCHANGED <<queue, pub>>
  /\ UNCHANGED <<kind, exchange, bound, bindings, left, sub, store, sends, stops, alone>>

\* s's connection has ended, and its queue and binding with it.
Unbound(s) ==
  /\ bound' = bound \ {s}
  /\ LET deleted == kind = "events" /\ bound = {s}
     IN  /\ exchange' = (exchange /\ ~deleted)
         /\ alone' = IF deleted THEN alone \cup {p \in Publishers : pub[p] \in {"ready", "waits"}}
                     ELSE alone
  /\ channel' = [channel EXCEPT ![s] = "closed"]
  /\ queue' = [queue EXCEPT ![s] = <<>>]

\* Another program publishes what is no notification.
SendForeign ==
  /\ exchange /\ sends < MaxSends
  /\ sends' = sends + 1
  /\ queue' = [s \in Subscribers |->
                 IF s \in bound THEN Append(queue[s], Foreign) ELSE queue[s]]
  /\ UNCHANGED <<kind, brokerVars, pubVars, sub, store, stops, alone, missed>>

-----------------------------------------------------------------------------
(* EventPublisher, and what MeshService's start() begins with. *)

Connect(p) ==
  /\ pub[p] = "off"
  /\ pub' = [pub EXCEPT ![p] = "connected"]
  /\ channel' = [channel EXCEPT ![p] = "open"]
  /\ UNCHANGED <<kind, exchange, bound, wire, bindings, left, subVars, sends, stops, alone, missed>>

\* Operators named "...Bug" are faulty variants of the operator that follows
\* them; the mutation runs put them in its place.
DeclareBug(p) ==
  /\ kind = "events" /\ pub[p] = "connected"
  /\ pub' = [pub EXCEPT ![p] = "ready"]
  /\ UNCHANGED <<kind, brokerVars, wire, bindings, left, subVars, sends, stops, alone, missed>>

Declare(p) ==
  /\ kind = "events" /\ pub[p] = "connected"
  /\ exchange' = TRUE
  /\ pub' = [pub EXCEPT ![p] = "ready"]
  /\ UNCHANGED <<kind, bound, channel, wire, bindings, left, subVars, sends, stops, alone, missed>>

\* With a durable profile publish() waits for the confirm.
Publish(p) ==
  /\ kind = "events" /\ pub[p] = "ready" /\ sends < MaxSends
  /\ sends' = sends + 1
  /\ wire' = [wire EXCEPT ![p] = Append(@, Event(p))]
  /\ pub' = IF p \in Durable THEN [pub EXCEPT ![p] = "waits"] ELSE pub
  /\ UNCHANGED <<kind, brokerVars, bindings, left, subVars, stops, alone, missed>>

\* The connection ends: close(), or a loss.  A MeshService may start again, its
\* rebind().
Stop(p) ==
  /\ pub[p] # "off" /\ stops < MaxStops
  /\ stops' = stops + 1
  /\ pub' = [pub EXCEPT ![p] = "off"]
  /\ channel' = [channel EXCEPT ![p] = "closed"]
  /\ wire' = [wire EXCEPT ![p] = <<>>]
  /\ alone' = alone \ {p} /\ missed' = missed \ {p}
  /\ UNCHANGED <<kind, exchange, bound, bindings, left, subVars, sends>>

-----------------------------------------------------------------------------
(* MeshService. *)

Keys(p) == {routing_key(service[p], methods[p][n]) : n \in 1..Len(methods[p])}

\* The constructor refuses a key outside the namespace; start() declares the
\* service's durable queue.
DeclareQueue(p) ==
  /\ kind = "registry" /\ pub[p] = "connected"
  /\ \A key \in Keys(p) : assert_in_namespace(service[p], key)
  /\ pub' = [pub EXCEPT ![p] = "declared"]
  /\ left' = [left EXCEPT ![p] = [n \in 1..Len(methods[p]) |->
                                    routing_key(service[p], methods[p][n])]]
  /\ UNCHANGED <<kind, brokerVars, wire, bindings, subVars, sends, stops, alone, missed>>

\* assert_bind_allowed, then queue.bind.
Bind(p) ==
  /\ kind = "registry" /\ pub[p] = "declared" /\ left[p] # <<>>
  /\ assert_in_namespace(service[p], Head(left[p]))
  /\ bindings' = bindings \cup {<<queue_name(service[p]), Head(left[p])>>}
  /\ left' = [left EXCEPT ![p] = Tail(@)]
  /\ UNCHANGED <<kind, brokerVars, pub, wire, subVars, sends, stops, alone, missed>>

MayAnnounceBug(p) == pub[p] = "declared"

MayAnnounce(p) == pub[p] = "declared" /\ left[p] = <<>>

\* announce_on_connection declares the exchange each time, and start() returns
\* when the advertisement is written.
Announce(p) ==
  /\ kind = "registry" /\ MayAnnounce(p) /\ sends < MaxSends
  /\ sends' = sends + 1
  /\ exchange' = TRUE
  /\ wire' = [wire EXCEPT ![p] = Append(@, [from |-> p, age |-> 0])]
  /\ pub' = [pub EXCEPT ![p] = "ready"]
  /\ UNCHANGED <<kind, bound, channel, bindings, left, subVars, stops, alone, missed>>

-----------------------------------------------------------------------------
(* EventSubscriber and MeshRegistryViewer. *)

Step(s, from, to) == sub[s] = from /\ sub' = [sub EXCEPT ![s] = to]

SubscriberConnects(s) ==
  /\ Step(s, "off", "connected")
  /\ channel' = [channel EXCEPT ![s] = "open"]
  /\ UNCHANGED <<kind, exchange, bound, pubVars, queue, store, sends, stops, alone, missed>>

SubscriberDeclares(s) ==
  /\ Step(s, "connected", "declared")
  /\ exchange' = TRUE
  /\ UNCHANGED <<kind, bound, channel, pubVars, queue, store, sends, stops, alone, missed>>

SubscriberDeclaresQueue(s) ==
  /\ Step(s, "declared", "queued")
  /\ UNCHANGED <<kind, brokerVars, pubVars, queue, store, sends, stops, alone, missed>>

\* Between the declare and the bind the exchange may have been deleted with
\* another subscriber: the broker closes the channel, and start() raises when
\* bind-ok has not come for ten seconds.
SubscriberBinds(s) ==
  /\ IF exchange
     THEN /\ Step(s, "queued", "bound")
          /\ bound' = bound \cup {s}
          /\ UNCHANGED channel
     ELSE /\ Step(s, "queued", "failed")
          /\ channel' = [channel EXCEPT ![s] = "closed"]
          /\ UNCHANGED bound
  /\ UNCHANGED <<kind, exchange, pubVars, queue, store, sends, stops, alone, missed>>

SubscriberConsumes(s) ==
  /\ Step(s, "bound", "receive")
  /\ UNCHANGED <<kind, brokerVars, pubVars, queue, store, sends, stops, alone, missed>>

Ack(s) == queue' = [queue EXCEPT ![s] = Tail(@)]

\* EventSubscriber._handle: a body that does not decode is acked, and the
\* exception ends the loop.
Receive(s) ==
  /\ kind = "events" /\ queue[s] # <<>>
  /\ IF Head(queue[s]) = Foreign
     THEN Step(s, "receive", "ended") /\ Ack(s)
     ELSE Step(s, "receive", "handle") /\ UNCHANGED queue
  /\ UNCHANGED <<kind, brokerVars, pubVars, store, sends, stops, alone, missed>>

\* The handler returns, or raises: the event is acked either way, and an
\* exception ends the loop.
HandlerEnds(s) ==
  /\ Step(s, "handle", "receive") \/ Step(s, "handle", "ended")
  /\ Ack(s)
  /\ UNCHANGED <<kind, brokerVars, pubVars, store, sends, stops, alone, missed>>

\* MeshRegistryViewer._handle: the latest to arrive wins; one that has expired,
\* or does not decode, is passed over.
View(s) ==
  /\ kind = "registry" /\ sub[s] = "receive" /\ queue[s] # <<>>
  /\ LET advert == Head(queue[s])
     IN  store' = IF advert = Foreign \/ is_expired(advert) THEN store
                  ELSE [store EXCEPT ![s][service[advert.from]] = advert]
  /\ Ack(s)
  /\ UNCHANGED <<kind, brokerVars, pubVars, sub, sends, stops, alone, missed>>

\* from_wire of JSON that is no object raises AttributeError, which _handle
\* does not catch: acked, and the loop ends.
ViewRaises(s) ==
  /\ kind = "registry" /\ queue[s] # <<>> /\ Head(queue[s]) = Foreign
  /\ Step(s, "receive", "ended")
  /\ Ack(s)
  /\ UNCHANGED <<kind, brokerVars, pubVars, store, sends, stops, alone, missed>>

\* close() cancels the loop, acking what is being handled, and closes the
\* connection; or the connection is lost.  After a loop that has raised close()
\* raises too, before it closes: only a loss ends that connection.
SubscriberStops(s) ==
  /\ sub[s] # "off" /\ stops < MaxStops
  /\ stops' = stops + 1
  /\ sub' = [sub EXCEPT ![s] = "off"]
  /\ store' = [store EXCEPT ![s] = [x \in Services |-> None]]
  /\ Unbound(s)
  /\ UNCHANGED <<kind, pubVars, sends, missed>>

\* An instant passes for every advertisement.
Tick ==
  /\ kind = "registry"
  /\ LET Older(m) == [m EXCEPT !.age = IF @ < Ttl THEN @ + 1 ELSE @]
         OlderAll(q) == [n \in DOMAIN q |-> IF q[n] = Foreign THEN q[n] ELSE Older(q[n])]
     IN  /\ wire' = [p \in Publishers |-> OlderAll(wire[p])]
         /\ queue' = [s \in Subscribers |-> OlderAll(queue[s])]
         /\ store' = [s \in Subscribers |-> [x \in Services |->
                        IF store[s][x] = None THEN None ELSE Older(store[s][x])]]
  /\ UNCHANGED <<kind, brokerVars, pub, bindings, left, sub, sends, stops, alone, missed>>

-----------------------------------------------------------------------------
Publisher(p) ==
  \/ Connect(p) \/ Declare(p) \/ Publish(p) \/ Stop(p)
  \/ DeclareQueue(p) \/ Bind(p) \/ Announce(p)

Subscriber(s) ==
  \/ SubscriberConnects(s) \/ SubscriberDeclares(s) \/ SubscriberDeclaresQueue(s)
  \/ SubscriberBinds(s) \/ SubscriberConsumes(s) \/ SubscriberStops(s)
  \/ Receive(s) \/ HandlerEnds(s) \/ View(s) \/ ViewRaises(s)

Next ==
  \/ \E p \in Publishers : Publisher(p) \/ BrokerReads(p)
  \/ \E s \in Subscribers : Subscriber(s)
  \/ SendForeign \/ Tick

Spec == Init /\ [][Next]_vars

\* The broker reads what is written; nobody has to start, publish or stop.
FairSpec == Spec /\ \A p \in Publishers : WF_vars(BrokerReads(p))

-----------------------------------------------------------------------------
(* Properties. *)

\* Both sides declare the exchange in start(), in either order.  The broker
\* drops an event while somebody is subscribed only when its publisher has had
\* the auto-delete exchange deleted under it, by the last subscriber before.
MissedOnlyAlone == missed \subseteq alone

\* What lookup() returns is no older than its TTL, and can be called: every
\* method's key is bound to the queue that is named, since start() announces
\* after its last bind, and to no other service's queue.
AdvertisedIsBound ==
  \A s \in Subscribers : \A x \in Services :
    LET advert == lookup(s, x)
    IN  advert # None =>
          /\ advert.age < Ttl
          /\ service[advert.from] = x
          /\ \A n \in 1..Len(methods[advert.from]) :
               {b[1] : b \in {b \in bindings : b[2] = x \o methods[advert.from][n]}}
                 = {queue_name(x)}

\* A publish() that waits for its confirm comes back, unless the exchange was
\* deleted under the publisher: nothing but the confirm ends the wait.
PublishReturns ==
  \A p \in Publishers : pub[p] = "waits" ~> pub[p] # "waits" \/ p \in alone
=============================================================================
