---------------------------- MODULE NotifyProofs ---------------------------
(***************************************************************************)
(* Theorems about Notify, for any publishers and subscribers, names,       *)
(* methods and time to live.                                               *)
(*                                                                         *)
(* Of the exchange: a publisher that has declared it, and has not had it   *)
(* deleted since, has it and an open channel (LinkInv).  Of the registry:  *)
(* start() leaves no key unbound when it announces, no step unbinds one,   *)
(* and an advertisement is, wherever it is, of a service whose keys are    *)
(* bound (BindInv, and the type of what is under way).                     *)
(***************************************************************************)
EXTENDS Notify, SequenceTheorems, TLAPS

-----------------------------------------------------------------------------
(* The invariant. *)

Adverts == [from : Publishers, age : Nat]
Messages == Adverts \cup {Foreign}

\* The binding of the n-th method of p, and that all of them are among b.
BindingOf(p, n) == <<queue_name(service[p]), routing_key(service[p], methods[p][n])>>
AllBound(p, b) == \A n \in 1..Len(methods[p]) : BindingOf(p, n) \in b

\* What may be under way where the exchange carries k and b is bound.
UnderWay(k, b) ==
  {m \in Messages : k = "registry" /\ m # Foreign => AllBound(m.from, b)}

\* What the store may hold of service x.
Listed(x, b) == {m \in Adverts : service[m.from] = x /\ AllBound(m.from, b)}

TypeInv ==
  /\ kind \in {"events", "registry"}
  /\ exchange \in BOOLEAN
  /\ channel \in [Actors -> {"open", "closed"}]
  /\ pub \in [Publishers -> {"off", "connected", "declared", "ready", "waits"}]
  /\ left \in [Publishers -> Seq(Seq(STRING))]
  /\ wire \in [Publishers -> Seq(UnderWay(kind, bindings))]
  /\ queue \in [Subscribers -> Seq(UnderWay(kind, bindings))]
  /\ store \in [Subscribers -> [Services -> Adverts \cup {None}]]
  /\ \A s \in Subscribers : \A x \in Services :
       store[s][x] = None \/ store[s][x] \in Listed(x, bindings)

\* Nothing is written before start() has declared the exchange; after that the
\* publisher has the exchange and its channel until the exchange is deleted.
PublisherInv(p) ==
  /\ pub[p] \in {"off", "connected", "declared"} => wire[p] = <<>>
  /\ pub[p] \in {"connected", "declared"} => channel[p] = "open"
  /\ pub[p] \in {"ready", "waits"} /\ p \notin alone => exchange /\ channel[p] = "open"

LinkInv == (\A p \in Publishers : PublisherInv(p)) /\ missed \subseteq alone

\* What is bound is some service's own; start() has bound what is not left.
BoundIsOwn ==
  \A b \in bindings :
    \E p \in Publishers : \E n \in 1..Len(methods[p]) : b = BindingOf(p, n)

RestIsLeft(p) ==
  pub[p] = "declared" =>
    \A n \in 1..Len(methods[p]) :
      \/ BindingOf(p, n) \in bindings
      \/ \E i \in 1..Len(left[p]) : left[p][i] = routing_key(service[p], methods[p][n])

LeftIsOwn(p) ==
  \A i \in 1..Len(left[p]) :
    \E n \in 1..Len(methods[p]) : left[p][i] = routing_key(service[p], methods[p][n])

BindInv == BoundIsOwn /\ \A p \in Publishers : RestIsLeft(p) /\ LeftIsOwn(p)

\* What is being handled is at the head of the queue.
HandleInv ==
  /\ sub \in [Subscribers -> {"off", "connected", "declared", "queued", "bound", "receive",
                            "handle", "ended", "failed"}]
  /\ \A s \in Subscribers : sub[s] = "handle" => queue[s] # <<>>

NotifyInv == TypeInv /\ LinkInv /\ BindInv /\ HandleInv

\* Two services have no key in common.
OwnKeys ==
  \A p, q \in Publishers : \A n \in 1..Len(methods[p]), k \in 1..Len(methods[q]) :
    routing_key(service[p], methods[p][n]) = routing_key(service[q], methods[q][k]) =>
      service[p] = service[q]

\* No service is named below another.
NoneBelow ==
  \A p, q \in Publishers : IsPrefix(service[p], service[q]) => service[p] = service[q]

-----------------------------------------------------------------------------
(* Messages, and what binding more keys does to them. *)

LEMMA MoreBound ==
  ASSUME NEW k, NEW b, NEW c, b \subseteq c
  PROVE  /\ UnderWay(k, b) \subseteq UnderWay(k, c)
         /\ \A q \in Seq(UnderWay(k, b)) : q \in Seq(UnderWay(k, c))
         /\ \A x : Listed(x, b) \subseteq Listed(x, c)
<1>1. \A p : AllBound(p, b) => AllBound(p, c)
  BY DEF AllBound
<1>2. UnderWay(k, b) \subseteq UnderWay(k, c)
  BY <1>1 DEF UnderWay
<1>3. \A x : Listed(x, b) \subseteq Listed(x, c)
  BY <1>1 DEF Listed
<1> QED
  BY <1>2, <1>3, SeqMonotonic

LEMMA ForeignUnderWay ==
  ASSUME NEW k, NEW b
  PROVE  Foreign \in UnderWay(k, b)
BY DEF UnderWay, Messages

LEMMA EventUnderWay ==
  ASSUME NEW b, NEW p \in Publishers
  PROVE  Event(p) \in UnderWay("events", b)
BY DEF UnderWay, Messages, Adverts, Event

LEMMA AdvertUnderWay ==
  ASSUME NEW k, NEW b, NEW p \in Publishers, AllBound(p, b)
  PROVE  [from |-> p, age |-> 0] \in UnderWay(k, b)
BY DEF UnderWay, Messages, Adverts

\* What is read is what was written, and the rest is left.
LEMMA HeadAndTail ==
  ASSUME NEW S, NEW q \in Seq(S), q # <<>>
  PROVE  Head(q) \in S /\ Tail(q) \in Seq(S)
OBVIOUS

\* Tick's LET.
Older(m) == [m EXCEPT !.age = IF @ < Ttl THEN @ + 1 ELSE @]
OlderAll(q) == [n \in DOMAIN q |-> IF q[n] = Foreign THEN q[n] ELSE Older(q[n])]

LEMMA OlderAdvert ==
  ASSUME NEW m \in Adverts
  PROVE  Older(m) \in Adverts /\ Older(m).from = m.from
<1>1. m.age + 1 \in Nat
  BY DEF Adverts
<1> QED
  BY <1>1 DEF Adverts, Older

LEMMA OlderUnderWay ==
  ASSUME NEW k, NEW b, NEW q \in Seq(UnderWay(k, b))
  PROVE  OlderAll(q) \in Seq(UnderWay(k, b)) /\ (q = <<>> <=> OlderAll(q) = <<>>)
<1> DEFINE S == UnderWay(k, b)
<1>1. \A m \in S : m # Foreign => Older(m) \in S
  <2>1. SUFFICES ASSUME NEW m \in S, m # Foreign PROVE Older(m) \in S
    OBVIOUS
  <2>2. m \in Adverts /\ (k = "registry" => AllBound(m.from, b))
    BY <2>1 DEF UnderWay, Messages
  <2> QED
    BY <2>2, OlderAdvert DEF UnderWay, Messages
<1>2. q \in Seq(S)
  OBVIOUS
<1> HIDE DEF S
<1>3. Len(q) \in Nat /\ DOMAIN q = 1..Len(q) /\ \A n \in 1..Len(q) : q[n] \in S
  BY <1>2
<1>4. OlderAll(q) = [n \in 1..Len(q) |-> IF q[n] = Foreign THEN q[n] ELSE Older(q[n])]
  BY <1>3 DEF OlderAll
<1>5. OlderAll(q) \in [1..Len(q) -> S]
  BY <1>1, <1>3, <1>4
<1>6. OlderAll(q) \in Seq(S)
  BY <1>3, <1>5, SeqDef
<1>7. Len(OlderAll(q)) = Len(q)
  BY <1>3, <1>5, <1>6
<1>8. Len(q) = 0 <=> q = <<>>
  BY <1>2, <1>3, EmptySeq
<1>9. Len(OlderAll(q)) = 0 <=> OlderAll(q) = <<>>
  BY <1>6, EmptySeq
<1> QED
  BY <1>6, <1>7, <1>8, <1>9 DEF S

-----------------------------------------------------------------------------
(* The type. *)

\* What a step leaves that binds nothing.
SameTable == UNCHANGED <<kind, bindings>>

LEMMA StoreKept ==
  ASSUME TypeInv, SameTable, UNCHANGED store
  PROVE  /\ store' \in [Subscribers -> [Services -> Adverts \cup {None}]]
         /\ (\A s \in Subscribers : \A x \in Services :
               store[s][x] = None \/ store[s][x] \in Listed(x, bindings))'
BY DEF TypeInv, SameTable

LEMMA TypeInit == Init => TypeInv
<1>1. SUFFICES ASSUME Init PROVE TypeInv
  OBVIOUS
<1>2. \A S : <<>> \in Seq(S)
  OBVIOUS
<1>3. /\ kind \in {"events", "registry"}
      /\ exchange \in BOOLEAN
      /\ channel \in [Actors -> {"open", "closed"}]
      /\ pub \in [Publishers -> {"off", "connected", "declared", "ready", "waits"}]
  BY <1>1, NotifyAssumption DEF Init, NotifyAssumption
<1>4. /\ left \in [Publishers -> Seq(Seq(STRING))]
      /\ wire \in [Publishers -> Seq(UnderWay(kind, bindings))]
      /\ queue \in [Subscribers -> Seq(UnderWay(kind, bindings))]
  BY <1>1, <1>2 DEF Init
<1>5. /\ store \in [Subscribers -> [Services -> Adverts \cup {None}]]
      /\ \A s \in Subscribers : \A x \in Services : store[s][x] = None
  BY <1>1 DEF Init
<1> QED
  BY <1>3, <1>4, <1>5 DEF TypeInv

LEMMA PublisherTypes ==
  ASSUME TypeInv, NEW p \in Publishers,
         \/ Connect(p) \/ Declare(p) \/ Publish(p) \/ Stop(p) \/ BrokerReads(p)
  PROVE  TypeInv'
<1>1. SameTable /\ UNCHANGED store
  BY DEF Connect, Declare, Publish, Stop, BrokerReads, SameTable, subVars
<1>2. p \in Actors
  BY DEF Actors
<1>3. kind' = kind /\ bindings' = bindings
  BY <1>1 DEF SameTable
<1>4. CASE Connect(p)
  BY <1>4, <1>1, <1>2, <1>3, StoreKept DEF Connect, TypeInv, subVars
<1>5. CASE Declare(p)
  BY <1>5, <1>1, <1>3, StoreKept DEF Declare, TypeInv, subVars
<1>6. CASE Publish(p)
  <2>1. Event(p) \in UnderWay(kind, bindings)
    BY <1>6, EventUnderWay DEF Publish
  <2>2. wire' \in [Publishers -> Seq(UnderWay(kind, bindings))]
    BY <1>6, <2>1 DEF Publish, TypeInv
  <2> QED
    BY <1>6, <1>1, <1>3, <2>2, StoreKept DEF Publish, TypeInv, brokerVars, subVars
<1>7. CASE Stop(p)
  BY <1>7, <1>1, <1>2, <1>3, StoreKept DEF Stop, TypeInv, subVars
<1>8. CASE BrokerReads(p)
  <2> DEFINE S == UnderWay(kind, bindings)
  <2>1. wire[p] \in Seq(S) /\ wire[p] # <<>> /\ queue \in [Subscribers -> Seq(S)]
        /\ wire \in [Publishers -> Seq(S)]
    BY <1>8 DEF BrokerReads, TypeInv
  <2> HIDE DEF S
  <2>2. Head(wire[p]) \in S /\ Tail(wire[p]) \in Seq(S)
    BY <2>1, HeadAndTail
  <2>3. wire' \in [Publishers -> Seq(S)]
    BY <1>8, <2>1, <2>2 DEF BrokerReads
  <2>4. \A s \in Subscribers : Append(queue[s], Head(wire[p])) \in Seq(S)
    BY <2>1, <2>2, AppendProperties
  <2>5. queue' \in [Subscribers -> Seq(S)]
    BY <1>8, <2>1, <2>4 DEF BrokerReads
  <2>6. channel' \in [Actors -> {"open", "closed"}]
    BY <1>8, <1>2 DEF BrokerReads, TypeInv
  <2>7. pub' \in [Publishers -> {"off", "connected", "declared", "ready", "waits"}]
    BY <1>8 DEF BrokerReads, TypeInv
  <2>8. UNCHANGED <<exchange, left>>
    BY <1>8 DEF BrokerReads
  <2> QED
    BY <2>3, <2>5, <2>6, <2>7, <2>8, <1>1, <1>3, StoreKept DEF TypeInv, S
<1> QED
  BY <1>4, <1>5, <1>6, <1>7, <1>8

LEMMA MeshTypes ==
  ASSUME NotifyInv, NEW p \in Publishers, DeclareQueue(p) \/ Bind(p) \/ Announce(p)
  PROVE  TypeInv'
<1>1. TypeInv /\ RestIsLeft(p)
  BY DEF NotifyInv, BindInv
<1>2. methods[p] \in Seq(Seq(STRING)) /\ service[p] \in Seq(STRING)
  BY NotifyAssumption DEF NotifyAssumption
<1>3. CASE DeclareQueue(p)
  <2>1. SameTable /\ UNCHANGED store /\ kind' = kind /\ bindings' = bindings
    BY <1>3 DEF DeclareQueue, SameTable, subVars
  <2>2. Len(methods[p]) \in Nat /\ \A n \in 1..Len(methods[p]) : methods[p][n] \in Seq(STRING)
    BY <1>2, LenProperties, ElementOfSeq
  <2>3. \A n \in 1..Len(methods[p]) : routing_key(service[p], methods[p][n]) \in Seq(STRING)
    BY <1>2, <2>2, ConcatProperties DEF routing_key
  <2>4. [n \in 1..Len(methods[p]) |-> routing_key(service[p], methods[p][n])]
          \in Seq(Seq(STRING))
    BY <2>2, <2>3, SeqDef
  <2>5. left' \in [Publishers -> Seq(Seq(STRING))]
    BY <1>3, <1>1, <2>4 DEF DeclareQueue, TypeInv
  <2> QED
    BY <1>3, <1>1, <2>1, <2>5, StoreKept DEF DeclareQueue, TypeInv, brokerVars, subVars
<1>4. CASE Bind(p)
  <2> DEFINE S == UnderWay(kind, bindings)
             T == UnderWay(kind, bindings')
  <2>1. bindings \subseteq bindings'
    BY <1>4 DEF Bind
  <2>2. /\ wire \in [Publishers -> Seq(S)] /\ queue \in [Subscribers -> Seq(S)]
        /\ \A q \in Seq(S) : q \in Seq(T)
    BY <1>1, <2>1, MoreBound DEF TypeInv
  <2> HIDE DEF S, T
  <2>3. wire \in [Publishers -> Seq(T)] /\ queue \in [Subscribers -> Seq(T)]
    BY <2>2
  <2>4. Tail(left[p]) \in Seq(Seq(STRING))
    BY <1>4, <1>1, HeadAndTail DEF Bind, TypeInv
  <2>5. left' \in [Publishers -> Seq(Seq(STRING))]
    BY <1>4, <1>1, <2>4 DEF Bind, TypeInv
  <2>6. \A s \in Subscribers : \A x \in Services :
          store[s][x] = None \/ store[s][x] \in Listed(x, bindings')
    BY <1>1, <2>1, MoreBound DEF TypeInv
  <2>7. UNCHANGED <<kind, exchange, channel, pub, wire, queue, store>>
    BY <1>4 DEF Bind, brokerVars, subVars
  <2> QED
    BY <1>1, <2>3, <2>5, <2>6, <2>7 DEF TypeInv, T
<1>5. CASE Announce(p)
  <2>1. SameTable /\ UNCHANGED <<store, channel, left, queue>>
        /\ kind' = kind /\ bindings' = bindings
    BY <1>5 DEF Announce, SameTable, subVars
  <2>2. pub[p] = "declared" /\ left[p] = <<>>
    BY <1>5 DEF Announce, MayAnnounce
  <2>3. Len(left[p]) = 0
    BY <2>2
  <2>4. AllBound(p, bindings)
    BY <2>2, <2>3, <1>1 DEF RestIsLeft, AllBound
  <2>5. [from |-> p, age |-> 0] \in UnderWay(kind, bindings)
    BY <2>4, AdvertUnderWay
  <2>6. wire' \in [Publishers -> Seq(UnderWay(kind, bindings))]
    BY <1>5, <1>1, <2>5 DEF Announce, TypeInv
  <2>7. pub' \in [Publishers -> {"off", "connected", "declared", "ready", "waits"}]
        /\ exchange' \in BOOLEAN
    BY <1>5, <1>1 DEF Announce, TypeInv
  <2> QED
    BY <1>1, <2>1, <2>6, <2>7, StoreKept DEF TypeInv
<1> QED
  BY <1>3, <1>4, <1>5

LEMMA StartTypes ==
  ASSUME TypeInv, NEW s \in Subscribers,
         \/ SubscriberConnects(s) \/ SubscriberDeclares(s) \/ SubscriberDeclaresQueue(s)
         \/ SubscriberBinds(s) \/ SubscriberConsumes(s)
  PROVE  TypeInv'
<1>1. SameTable /\ kind' = kind /\ bindings' = bindings
      /\ UNCHANGED <<pub, left, wire, queue, store>>
  BY DEF SubscriberConnects, SubscriberDeclares, SubscriberDeclaresQueue, SubscriberBinds,
         SubscriberConsumes, SameTable, pubVars
<1>2. s \in Actors
  BY DEF Actors
<1>3. channel' \in [Actors -> {"open", "closed"}] /\ exchange' \in BOOLEAN
  BY <1>2 DEF SubscriberConnects, SubscriberDeclares, SubscriberDeclaresQueue,
              SubscriberBinds, SubscriberConsumes, TypeInv, brokerVars
<1> QED
  BY <1>1, <1>3, StoreKept DEF TypeInv

LEMMA HandleTypes ==
  ASSUME TypeInv, HandleInv, NEW s \in Subscribers,
         \/ SubscriberStops(s) \/ Receive(s) \/ HandlerEnds(s) \/ View(s) \/ ViewRaises(s)
         \/ SendForeign
  PROVE  TypeInv'
<1> DEFINE S == UnderWay(kind, bindings)
<1>1. SameTable /\ kind' = kind /\ bindings' = bindings /\ UNCHANGED <<pub, left, wire>>
  BY DEF SubscriberStops, Receive, HandlerEnds, View, ViewRaises, SendForeign,
         SameTable, pubVars
<1>2. s \in Actors
  BY DEF Actors
<1>3. channel' \in [Actors -> {"open", "closed"}] /\ exchange' \in BOOLEAN
  <2>1. CASE SubscriberStops(s)
    BY <2>1, <1>2 DEF SubscriberStops, Unbound, TypeInv
  <2>2. CASE ~SubscriberStops(s)
    BY <2>2 DEF Receive, HandlerEnds, View, ViewRaises, SendForeign, TypeInv, brokerVars
  <2> QED
    BY <2>1, <2>2
<1>4. queue \in [Subscribers -> Seq(S)]
  BY DEF TypeInv
<1>5. Foreign \in S
  BY ForeignUnderWay
<1>6. ASSUME Ack(s), queue[s] # <<>>
      PROVE  queue' \in [Subscribers -> Seq(S)]
  <2> HIDE DEF S
  <2>1. Tail(queue[s]) \in Seq(S)
    BY <1>4, <1>6, HeadAndTail
  <2> QED
    BY <1>4, <1>6, <2>1 DEF Ack
<1>7. CASE SubscriberStops(s)
  <2>1. queue' = [queue EXCEPT ![s] = <<>>]
        /\ store' = [store EXCEPT ![s] = [x \in Services |-> None]]
    BY <1>7 DEF SubscriberStops, Unbound
  <2>2. queue' \in [Subscribers -> Seq(S)]
    <3> HIDE DEF S
    <3> QED BY <1>4, <2>1
  <2>3. store' \in [Subscribers -> [Services -> Adverts \cup {None}]]
    BY <2>1 DEF TypeInv
  <2>4. \A u \in Subscribers : \A x \in Services :
          store'[u][x] = None \/ store'[u][x] \in Listed(x, bindings)
    BY <2>1 DEF TypeInv
  <2> QED
    BY <1>1, <1>3, <2>2, <2>3, <2>4 DEF TypeInv
<1>8. CASE Receive(s)
  <2>1. queue' \in [Subscribers -> Seq(S)]
    BY <1>4, <1>6, <1>8 DEF Receive
  <2>2. UNCHANGED store
    BY <1>8 DEF Receive
  <2> QED
    BY <1>1, <1>3, <2>1, <2>2, StoreKept DEF TypeInv
<1>9. CASE ViewRaises(s)
  <2>1. queue' \in [Subscribers -> Seq(S)]
    BY <1>6, <1>9 DEF ViewRaises
  <2>2. UNCHANGED store
    BY <1>9 DEF ViewRaises
  <2> QED
    BY <1>1, <1>3, <2>1, <2>2, StoreKept DEF TypeInv
<1>10. CASE SendForeign
  <2>1. UNCHANGED store
    BY <1>10 DEF SendForeign
  <2>2. queue' \in [Subscribers -> Seq(S)]
    <3> HIDE DEF S
    <3>1. \A u \in Subscribers : Append(queue[u], Foreign) \in Seq(S)
      BY <1>4, <1>5, AppendProperties
    <3> QED
      BY <1>4, <1>10, <3>1 DEF SendForeign
  <2> QED
    BY <1>1, <1>3, <2>1, <2>2, StoreKept DEF TypeInv
<1>11. CASE View(s)
  <2>1. queue' \in [Subscribers -> Seq(S)]
    BY <1>6, <1>11 DEF View
  <2> DEFINE advert == Head(queue[s])
  <2>2. advert \in S
    <3> HIDE DEF S
    <3> QED BY <1>4, <1>11, HeadAndTail DEF View
  <2>3. CASE store' = store
    BY <2>3, <1>1, <1>3, <2>1, StoreKept DEF TypeInv
  <2>4. CASE /\ advert # Foreign
             /\ store' = [store EXCEPT ![s][service[advert.from]] = advert]
    <3>1. advert \in Adverts /\ AllBound(advert.from, bindings)
      BY <1>11, <2>2, <2>4 DEF View, UnderWay, Messages
    <3> HIDE DEF advert, S
    <3>2. service[advert.from] \in Services /\ advert.from \in Publishers
      BY <3>1 DEF Services, Adverts
    <3>3. advert \in Listed(service[advert.from], bindings)
      BY <3>1 DEF Listed
    <3>4. store \in [Subscribers -> [Services -> Adverts \cup {None}]]
      BY DEF TypeInv
    <3>5. store' \in [Subscribers -> [Services -> Adverts \cup {None}]]
      BY <2>4, <3>1, <3>2, <3>4
    <3>6. ASSUME NEW u \in Subscribers, NEW x \in Services
          PROVE  store'[u][x] = None \/ store'[u][x] \in Listed(x, bindings)
      <4>1. store[u][x] = None \/ store[u][x] \in Listed(x, bindings)
        BY DEF TypeInv
      <4>2. CASE u = s /\ x = service[advert.from]
        <5>1. store'[u][x] = advert
          BY <2>4, <4>2, <3>4
        <5> QED
          BY <5>1, <4>2, <3>3
      <4>3. CASE ~(u = s /\ x = service[advert.from])
        <5>1. store'[u][x] = store[u][x]
          BY <2>4, <4>3, <3>4
        <5> QED
          BY <5>1, <4>1
      <4> QED
        BY <4>2, <4>3
    <3> QED
      BY <1>1, <1>3, <2>1, <3>5, <3>6 DEF TypeInv, S
  <2> QED
    BY <1>11, <2>3, <2>4 DEF View
<1>12. CASE HandlerEnds(s)
  <2>1. UNCHANGED store
    BY <1>12 DEF HandlerEnds
  <2>2. sub[s] = "handle" /\ Ack(s)
    BY <1>12 DEF HandlerEnds, Step
  <2>3. queue' \in [Subscribers -> Seq(S)]
    BY <1>6, <2>2 DEF HandleInv
  <2> QED
    BY <1>1, <1>3, <2>1, <2>3, StoreKept DEF TypeInv
<1> QED
  BY <1>7, <1>8, <1>9, <1>10, <1>11, <1>12

LEMMA TickTypes ==
  ASSUME TypeInv, Tick
  PROVE  TypeInv'
<1>1. /\ SameTable /\ kind' = kind /\ bindings' = bindings
      /\ UNCHANGED <<exchange, channel, pub, left>>
  BY DEF Tick, SameTable, brokerVars
<1>2. /\ wire' = [p \in Publishers |-> OlderAll(wire[p])]
      /\ queue' = [s \in Subscribers |-> OlderAll(queue[s])]
      /\ store' = [s \in Subscribers |-> [x \in Services |->
                     IF store[s][x] = None THEN None ELSE Older(store[s][x])]]
  BY DEF Tick, OlderAll, Older
<1>3. /\ \A p \in Publishers : OlderAll(wire[p]) \in Seq(UnderWay(kind, bindings))
      /\ \A s \in Subscribers : OlderAll(queue[s]) \in Seq(UnderWay(kind, bindings))
  BY OlderUnderWay DEF TypeInv
<1>4. /\ wire' \in [Publishers -> Seq(UnderWay(kind, bindings))]
      /\ queue' \in [Subscribers -> Seq(UnderWay(kind, bindings))]
  BY <1>2, <1>3
<1>5. ASSUME NEW s \in Subscribers, NEW x \in Services
      PROVE  /\ store'[s][x] \in Adverts \cup {None}
             /\ store'[s][x] = None \/ store'[s][x] \in Listed(x, bindings)
  <2>1. store'[s][x] = IF store[s][x] = None THEN None ELSE Older(store[s][x])
    BY <1>2
  <2>2. CASE store[s][x] = None
    BY <2>1, <2>2
  <2>3. CASE store[s][x] # None
    <3>1. store[s][x] \in Adverts /\ store[s][x] \in Listed(x, bindings)
      BY <2>3 DEF TypeInv
    <3>2. Older(store[s][x]) \in Adverts /\ Older(store[s][x]).from = store[s][x].from
      BY <3>1, OlderAdvert
    <3>3. Older(store[s][x]) \in Listed(x, bindings)
      BY <3>1, <3>2 DEF Listed
    <3> QED
      BY <2>1, <2>3, <3>2, <3>3
  <2> QED
    BY <2>2, <2>3
<1>6. store' \in [Subscribers -> [Services -> Adverts \cup {None}]]
  <2>1. DOMAIN store' = Subscribers /\ \A s \in Subscribers : DOMAIN store'[s] = Services
    BY <1>2
  <2> QED
    BY <1>2, <1>5, <2>1
<1> QED
  BY <1>1, <1>4, <1>5, <1>6 DEF TypeInv

LEMMA TypeStep ==
  ASSUME NotifyInv, [Next]_vars
  PROVE  TypeInv'
<1>1. TypeInv /\ HandleInv
  BY DEF NotifyInv
<1>2. ASSUME NEW p \in Publishers, Publisher(p) \/ BrokerReads(p)
      PROVE  TypeInv'
  BY <1>1, <1>2, PublisherTypes, MeshTypes DEF Publisher
<1>3. ASSUME NEW s \in Subscribers, Subscriber(s)
      PROVE  TypeInv'
  BY <1>1, <1>3, StartTypes, HandleTypes DEF Subscriber
<1>4. CASE SendForeign
  <2>1. CASE Subscribers = {}
    <3>1. UNCHANGED <<kind, exchange, channel, pub, left, wire, bindings, store>>
      BY <1>4 DEF SendForeign, brokerVars, pubVars
    <3>2. queue' \in [Subscribers -> Seq(UnderWay(kind, bindings))]
      BY <1>4, <2>1 DEF SendForeign
    <3> QED
      BY <1>1, <3>1, <3>2 DEF TypeInv
  <2>2. CASE \E s : s \in Subscribers
    BY <1>1, <1>4, <2>2, HandleTypes
  <2> QED
    BY <2>1, <2>2
<1>5. CASE Tick
  BY <1>1, <1>5, TickTypes
<1>6. CASE UNCHANGED vars
  <2>1. UNCHANGED <<kind, exchange, channel, pub, left, wire, queue, bindings, store>>
    BY <1>6 DEF vars, brokerVars, pubVars, subVars
  <2> QED
    BY <1>1, <2>1 DEF TypeInv
<1> QED
  BY <1>2, <1>3, <1>4, <1>5, <1>6 DEF Next

-----------------------------------------------------------------------------
(* The exchange and the channels. *)

LEMMA HandleStep ==
  ASSUME NotifyInv, [Next]_vars
  PROVE  HandleInv'
<1> DEFINE At == {"off", "connected", "declared", "queued", "bound", "receive", "handle",
                  "ended", "failed"}
<1>1. /\ sub \in [Subscribers -> At]
      /\ \A s \in Subscribers : sub[s] = "handle" => queue[s] # <<>>
  BY DEF NotifyInv, HandleInv
<1>2. queue \in [Subscribers -> Seq(UnderWay(kind, bindings))]
  BY DEF NotifyInv, TypeInv
<1>3. ASSUME UNCHANGED sub,
             \A s \in Subscribers : queue[s] # <<>> => queue'[s] # <<>>
      PROVE  HandleInv'
  BY <1>1, <1>3 DEF HandleInv
<1>4. ASSUME NEW s \in Subscribers,
             sub' = [sub EXCEPT ![s] = sub'[s]], sub'[s] \in At,
             sub'[s] = "handle" => queue'[s] # <<>>,
             \A u \in Subscribers \ {s} : queue'[u] = queue[u]
      PROVE  HandleInv'
  <2>1. sub' \in [Subscribers -> At]
    BY <1>1, <1>4
  <2>2. ASSUME NEW u \in Subscribers, sub'[u] = "handle" PROVE queue'[u] # <<>>
    <3>1. u # s => sub'[u] = sub[u]
      BY <1>1, <1>4
    <3> QED
      BY <1>1, <1>4, <2>2, <3>1
  <2> QED
    BY <2>1, <2>2 DEF HandleInv
<1>5. ASSUME NEW m, NEW q \in Seq(UnderWay(kind, bindings)), m \in UnderWay(kind, bindings)
      PROVE  Append(q, m) # <<>>
  BY <1>5, AppendProperties
<1>6. ASSUME NEW p \in Publishers, Publisher(p) PROVE HandleInv'
  <2>1. UNCHANGED <<sub, queue>>
    BY <1>6 DEF Publisher, Connect, Declare, Publish, Stop, DeclareQueue, Bind, Announce,
                subVars
  <2> QED
    BY <1>3, <2>1
<1>7. ASSUME NEW p \in Publishers, BrokerReads(p) PROVE HandleInv'
  <2>1. UNCHANGED sub
    BY <1>7 DEF BrokerReads
  <2>2. wire[p] \in Seq(UnderWay(kind, bindings)) /\ wire[p] # <<>>
    BY <1>7 DEF BrokerReads, NotifyInv, TypeInv
  <2>3. Head(wire[p]) \in UnderWay(kind, bindings)
    BY <2>2, HeadAndTail
  <2>4. \A s \in Subscribers : Append(queue[s], Head(wire[p])) # <<>>
    BY <1>2, <1>5, <2>3
  <2>5. \A s \in Subscribers : queue[s] # <<>> => queue'[s] # <<>>
    BY <1>7, <2>4 DEF BrokerReads
  <2> QED
    BY <1>3, <2>1, <2>5
<1>8. ASSUME NEW s \in Subscribers,
             \/ SubscriberConnects(s) \/ SubscriberDeclares(s)
             \/ SubscriberDeclaresQueue(s) \/ SubscriberBinds(s) \/ SubscriberConsumes(s)
      PROVE  HandleInv'
  <2>1. UNCHANGED queue
    BY <1>8 DEF SubscriberConnects, SubscriberDeclares, SubscriberDeclaresQueue,
                SubscriberBinds, SubscriberConsumes
  <2>2. \E to \in At \ {"handle"} : sub' = [sub EXCEPT ![s] = to]
    BY <1>8 DEF SubscriberConnects, SubscriberDeclares, SubscriberDeclaresQueue,
                SubscriberBinds, SubscriberConsumes, Step
  <2> QED
    BY <1>1, <1>4, <2>1, <2>2
<1>9. ASSUME NEW s \in Subscribers,
             SubscriberStops(s) \/ HandlerEnds(s) \/ ViewRaises(s)
      PROVE  HandleInv'
  <2>1. \A u \in Subscribers \ {s} : queue'[u] = queue[u]
    BY <1>2, <1>9 DEF SubscriberStops, Unbound, HandlerEnds, ViewRaises, Ack
  <2>2. \E to \in At \ {"handle"} : sub' = [sub EXCEPT ![s] = to]
    BY <1>9 DEF SubscriberStops, HandlerEnds, ViewRaises, Step
  <2> QED
    BY <1>1, <1>4, <2>1, <2>2
<1>10. ASSUME NEW s \in Subscribers, Receive(s) PROVE HandleInv'
  <2>1. queue[s] # <<>>
    BY <1>10 DEF Receive
  <2>2. CASE Step(s, "receive", "ended") /\ Ack(s)
    <3>1. \A u \in Subscribers \ {s} : queue'[u] = queue[u]
      BY <1>2, <2>2 DEF Ack
    <3>2. sub' = [sub EXCEPT ![s] = "ended"]
      BY <2>2 DEF Step
    <3> QED
      BY <1>1, <1>4, <3>1, <3>2
  <2>3. CASE Step(s, "receive", "handle") /\ UNCHANGED queue
    <3>1. sub' = [sub EXCEPT ![s] = "handle"] /\ queue' = queue
      BY <2>3 DEF Step
    <3> QED
      BY <1>1, <1>4, <2>1, <3>1
  <2> QED
    BY <1>10, <2>2, <2>3 DEF Receive
<1>11. ASSUME NEW s \in Subscribers, View(s) PROVE HandleInv'
  <2>1. sub' = sub /\ sub[s] = "receive"
    BY <1>11 DEF View
  <2>2. \A u \in Subscribers \ {s} : queue'[u] = queue[u]
    BY <1>2, <1>11 DEF View, Ack
  <2> QED
    BY <1>1, <2>1, <2>2 DEF HandleInv
<1>12. CASE SendForeign
  <2>1. UNCHANGED sub
    BY <1>12 DEF SendForeign
  <2>2. \A s \in Subscribers : Append(queue[s], Foreign) # <<>>
    BY <1>2, <1>5, ForeignUnderWay
  <2>3. \A s \in Subscribers : queue[s] # <<>> => queue'[s] # <<>>
    BY <1>12, <2>2 DEF SendForeign
  <2> QED
    BY <1>3, <2>1, <2>3
<1>13. CASE Tick
  <2>1. UNCHANGED sub /\ queue' = [s \in Subscribers |-> OlderAll(queue[s])]
    BY <1>13 DEF Tick, OlderAll, Older
  <2>2. \A s \in Subscribers : queue[s] # <<>> => OlderAll(queue[s]) # <<>>
    BY <1>2, OlderUnderWay
  <2> QED
    BY <1>3, <2>1, <2>2
<1>14. CASE UNCHANGED vars
  BY <1>3, <1>14 DEF vars, subVars
<1> QED
  BY <1>6, <1>7, <1>8, <1>9, <1>10, <1>11, <1>12, <1>13, <1>14
  DEF Next, Subscriber

\* What keeps a publisher's part, whoever steps.
LEMMA PublisherKept ==
  ASSUME NEW q \in Publishers, PublisherInv(q),
         pub'[q] = pub[q], channel'[q] = channel[q],
         wire[q] = <<>> => wire'[q] = <<>>,
         q \in alone => q \in alone',
         exchange => exchange' \/ q \in alone' \/ pub[q] \notin {"ready", "waits"}
  PROVE  PublisherInv(q)'
BY DEF PublisherInv

LEMMA LinkStep ==
  ASSUME NotifyInv, [Next]_vars
  PROVE  LinkInv'
<1>1. /\ \A p \in Publishers : PublisherInv(p)
      /\ missed \subseteq alone
      /\ \A a, c : a \in Publishers /\ c \in Subscribers => a # c
  BY NotifyAssumption DEF NotifyInv, LinkInv, NotifyAssumption
<1>2. /\ channel \in [Actors -> {"open", "closed"}]
      /\ pub \in [Publishers -> {"off", "connected", "declared", "ready", "waits"}]
      /\ wire \in [Publishers -> Seq(UnderWay(kind, bindings))]
      /\ Publishers \subseteq Actors /\ Subscribers \subseteq Actors
  BY DEF NotifyInv, TypeInv, Actors
<1> DEFINE Others(p) == \A q \in Publishers \ {p} : PublisherInv(q)'
<1>3. ASSUME NEW p \in Publishers,
             \A q \in Publishers \ {p} :
               pub'[q] = pub[q] /\ channel'[q] = channel[q] /\ wire'[q] = wire[q],
             exchange => exchange', alone \ {p} \subseteq alone'
      PROVE  Others(p)
  BY <1>1, <1>3, PublisherKept
<1>4. ASSUME NEW p \in Publishers, Connect(p) PROVE LinkInv'
  <2>1. /\ pub' = [pub EXCEPT ![p] = "connected"]
        /\ channel' = [channel EXCEPT ![p] = "open"]
        /\ pub[p] = "off" /\ UNCHANGED <<exchange, wire, alone, missed>>
    BY <1>4 DEF Connect
  <2>2. Others(p)
    BY <1>2, <1>3, <2>1
  <2>3. PublisherInv(p)'
    BY <1>1, <1>2, <2>1 DEF PublisherInv
  <2> QED
    BY <1>1, <2>1, <2>2, <2>3 DEF LinkInv
<1>5. ASSUME NEW p \in Publishers, Declare(p) PROVE LinkInv'
  <2>1. /\ pub' = [pub EXCEPT ![p] = "ready"] /\ exchange' = TRUE
        /\ pub[p] = "connected" /\ UNCHANGED <<channel, wire, alone, missed>>
    BY <1>5 DEF Declare
  <2>2. Others(p)
    BY <1>2, <1>3, <2>1
  <2>3. PublisherInv(p)'
    BY <1>1, <1>2, <2>1 DEF PublisherInv
  <2> QED
    BY <1>1, <2>1, <2>2, <2>3 DEF LinkInv
<1>6. ASSUME NEW p \in Publishers, Publish(p) PROVE LinkInv'
  <2>1. /\ pub[p] = "ready" /\ pub'[p] \in {"ready", "waits"}
        /\ UNCHANGED <<exchange, channel, alone, missed>>
        /\ \A q \in Publishers \ {p} : pub'[q] = pub[q] /\ wire'[q] = wire[q]
    BY <1>2, <1>6 DEF Publish, brokerVars
  <2>2. Others(p)
    BY <1>2, <1>3, <2>1
  <2>3. PublisherInv(p)'
    BY <1>1, <1>2, <2>1 DEF PublisherInv
  <2> QED
    BY <1>1, <2>1, <2>2, <2>3 DEF LinkInv
<1>7. ASSUME NEW p \in Publishers, Stop(p) PROVE LinkInv'
  <2>1. /\ pub' = [pub EXCEPT ![p] = "off"] /\ wire' = [wire EXCEPT ![p] = <<>>]
        /\ channel' = [channel EXCEPT ![p] = "closed"]
        /\ alone' = alone \ {p} /\ missed' = missed \ {p} /\ UNCHANGED exchange
    BY <1>7 DEF Stop
  <2>2. Others(p)
    BY <1>2, <1>3, <2>1
  <2>3. PublisherInv(p)'
    BY <1>1, <1>2, <2>1 DEF PublisherInv
  <2> QED
    BY <1>1, <2>1, <2>2, <2>3 DEF LinkInv
<1>8. ASSUME NEW p \in Publishers, DeclareQueue(p) PROVE LinkInv'
  <2>1. /\ pub' = [pub EXCEPT ![p] = "declared"] /\ pub[p] = "connected"
        /\ UNCHANGED <<exchange, channel, wire, alone, missed>>
    BY <1>8 DEF DeclareQueue, brokerVars
  <2>2. Others(p)
    BY <1>2, <1>3, <2>1
  <2>3. PublisherInv(p)'
    BY <1>1, <1>2, <2>1 DEF PublisherInv
  <2> QED
    BY <1>1, <2>1, <2>2, <2>3 DEF LinkInv
<1>9. ASSUME NEW p \in Publishers, Announce(p) PROVE LinkInv'
  <2>1. /\ pub' = [pub EXCEPT ![p] = "ready"] /\ exchange' = TRUE /\ pub[p] = "declared"
        /\ UNCHANGED <<channel, alone, missed>>
        /\ \A q \in Publishers \ {p} : wire'[q] = wire[q]
    BY <1>2, <1>9 DEF Announce, MayAnnounce
  <2>2. Others(p)
    BY <1>2, <1>3, <2>1
  <2>3. PublisherInv(p)'
    BY <1>1, <1>2, <2>1 DEF PublisherInv
  <2> QED
    BY <1>1, <2>1, <2>2, <2>3 DEF LinkInv
<1>10. ASSUME NEW p \in Publishers, BrokerReads(p) PROVE LinkInv'
  <2>1. pub[p] \in {"ready", "waits"} /\ pub'[p] \in {"ready", "waits"}
        /\ UNCHANGED <<exchange, alone>>
        /\ \A q \in Publishers \ {p} : pub'[q] = pub[q] /\ wire'[q] = wire[q]
    BY <1>1, <1>2, <1>10 DEF BrokerReads, PublisherInv
  <2>2. \A q \in Publishers \ {p} : channel'[q] = channel[q]
    BY <1>2, <1>10 DEF BrokerReads
  <2>3. Others(p)
    BY <1>3, <2>1, <2>2
  <2>4. CASE channel[p] = "open" /\ exchange
    <3>1. UNCHANGED <<channel, missed>>
      BY <1>10, <2>4 DEF BrokerReads
    <3>2. PublisherInv(p)'
      BY <2>1, <2>4, <3>1 DEF PublisherInv
    <3> QED
      BY <1>1, <2>1, <2>3, <3>1, <3>2 DEF LinkInv
  <2>5. CASE ~(channel[p] = "open" /\ exchange)
    <3>1. p \in alone
      BY <1>1, <2>1, <2>5 DEF PublisherInv
    <3>2. missed' \subseteq alone'
      BY <1>1, <1>10, <2>1, <2>5, <3>1 DEF BrokerReads
    <3>3. PublisherInv(p)'
      BY <2>1, <3>1 DEF PublisherInv
    <3> QED
      BY <2>3, <3>2, <3>3 DEF LinkInv
  <2> QED
    BY <2>4, <2>5
<1>11. ASSUME UNCHANGED <<pub, wire, alone, missed>>, exchange => exchange',
              \A q \in Publishers : channel'[q] = channel[q]
       PROVE  LinkInv'
  <2>1. \A q \in Publishers : PublisherInv(q)'
    BY <1>1, <1>11, PublisherKept
  <2> QED
    BY <1>1, <1>11, <2>1 DEF LinkInv
<1>12. ASSUME NEW p \in Publishers, Bind(p) PROVE LinkInv'
  <2>1. UNCHANGED <<pub, wire, alone, missed, exchange, channel>>
    BY <1>12 DEF Bind, brokerVars
  <2> QED
    BY <1>11, <2>1
<1>13. ASSUME NEW s \in Subscribers, SubscriberStops(s) PROVE LinkInv'
  <2> DEFINE deleted == kind = "events" /\ bound = {s}
  <2>1. /\ UNCHANGED <<pub, wire, missed>>
        /\ exchange' = (exchange /\ ~deleted)
        /\ channel' = [channel EXCEPT ![s] = "closed"]
        /\ alone' = IF deleted THEN alone \cup {p \in Publishers : pub[p] \in {"ready", "waits"}}
                    ELSE alone
    BY <1>13 DEF SubscriberStops, Unbound, pubVars
  <2>2. \A q \in Publishers : channel'[q] = channel[q]
    BY <1>1, <1>2, <2>1
  <2> HIDE DEF deleted
  <2>3. ASSUME NEW q \in Publishers
        PROVE  exchange => exchange' \/ q \in alone' \/ pub[q] \notin {"ready", "waits"}
    BY <2>1
  <2>4. alone \subseteq alone'
    BY <2>1
  <2>5. \A q \in Publishers : PublisherInv(q)'
    BY <1>1, <2>1, <2>2, <2>3, <2>4, PublisherKept
  <2> QED
    BY <1>1, <2>1, <2>4, <2>5 DEF LinkInv
<1>14. ASSUME NEW s \in Subscribers,
              \/ SubscriberConnects(s) \/ SubscriberDeclares(s)
              \/ SubscriberDeclaresQueue(s) \/ SubscriberBinds(s) \/ SubscriberConsumes(s)
              \/ Receive(s) \/ HandlerEnds(s) \/ View(s) \/ ViewRaises(s)
       PROVE  LinkInv'
  <2>1. UNCHANGED <<pub, wire, alone, missed>> /\ (exchange => exchange')
    BY <1>14 DEF SubscriberConnects, SubscriberDeclares, SubscriberDeclaresQueue,
                 SubscriberBinds, SubscriberConsumes, Receive, HandlerEnds, View, ViewRaises,
                 pubVars, brokerVars
  <2>2. \/ UNCHANGED channel
        \/ \E x \in {"open", "closed"} : channel' = [channel EXCEPT ![s] = x]
    BY <1>14 DEF SubscriberConnects, SubscriberDeclares, SubscriberDeclaresQueue,
                 SubscriberBinds, SubscriberConsumes, Receive, HandlerEnds, View, ViewRaises,
                 brokerVars
  <2>3. \A q \in Publishers : channel'[q] = channel[q]
    BY <1>1, <1>2, <2>2
  <2> QED
    BY <1>11, <2>1, <2>3
<1>15. CASE SendForeign \/ UNCHANGED vars
  <2>1. UNCHANGED <<pub, wire, alone, missed, exchange, channel>>
    BY <1>15 DEF SendForeign, vars, brokerVars, pubVars
  <2> QED
    BY <1>11, <2>1
<1>16. CASE Tick
  <2>1. /\ UNCHANGED <<pub, alone, missed, exchange, channel>>
        /\ wire' = [p \in Publishers |-> OlderAll(wire[p])]
    BY <1>16 DEF Tick, OlderAll, Older, brokerVars
  <2>2. \A p \in Publishers : wire[p] = <<>> => wire'[p] = <<>>
    BY <1>2, <2>1, OlderUnderWay
  <2>3. \A q \in Publishers : PublisherInv(q)'
    BY <1>1, <2>1, <2>2, PublisherKept
  <2> QED
    BY <1>1, <2>1, <2>3 DEF LinkInv
<1> QED
  BY <1>4, <1>5, <1>6, <1>7, <1>8, <1>9, <1>10, <1>12, <1>13, <1>14, <1>15, <1>16
  DEF Next, Publisher, Subscriber

-----------------------------------------------------------------------------
(* The keys. *)

\* A publisher whose part stays has bound, after the step, what it has not left.
LEMMA OthersLeft ==
  ASSUME NEW q \in Publishers, RestIsLeft(q), LeftIsOwn(q),
         pub'[q] = pub[q], left'[q] = left[q], bindings \subseteq bindings'
  PROVE  RestIsLeft(q)' /\ LeftIsOwn(q)'
<1>1. LeftIsOwn(q)'
  BY DEF LeftIsOwn
<1>2. ASSUME pub[q] = "declared", NEW n \in 1..Len(methods[q]), BindingOf(q, n) \notin bindings'
      PROVE  \E i \in 1..Len(left'[q]) : left'[q][i] = routing_key(service[q], methods[q][n])
  BY <1>2 DEF RestIsLeft
<1>3. RestIsLeft(q)'
  BY <1>2 DEF RestIsLeft, BindingOf
<1> QED
  BY <1>1, <1>3

LEMMA BindStep ==
  ASSUME NotifyInv, [Next]_vars
  PROVE  BindInv'
<1>1. BoundIsOwn /\ \A p \in Publishers : RestIsLeft(p) /\ LeftIsOwn(p)
  BY DEF NotifyInv, BindInv
<1>2. /\ pub \in [Publishers -> {"off", "connected", "declared", "ready", "waits"}]
      /\ left \in [Publishers -> Seq(Seq(STRING))]
  BY DEF NotifyInv, TypeInv
<1>3. ASSUME UNCHANGED <<bindings, left>>,
             \A p \in Publishers : pub'[p] = "declared" => pub[p] = "declared"
      PROVE  BindInv'
  BY <1>1, <1>3 DEF BindInv, BoundIsOwn, RestIsLeft, LeftIsOwn, BindingOf
<1>4. ASSUME NEW p \in Publishers, DeclareQueue(p) PROVE BindInv'
  <2>1. UNCHANGED bindings
        /\ pub' = [pub EXCEPT ![p] = "declared"]
        /\ left' = [left EXCEPT ![p] = [n \in 1..Len(methods[p]) |->
                                          routing_key(service[p], methods[p][n])]]
    BY <1>4 DEF DeclareQueue
  <2>2. Len(methods[p]) \in Nat
    BY NotifyAssumption, LenProperties DEF NotifyAssumption
  <2>3. ASSUME NEW n \in 1..Len(methods[p])
        PROVE  \E i \in 1..Len(left'[p]) : left'[p][i] = routing_key(service[p], methods[p][n])
    <3>1. left'[p] = [k \in 1..Len(methods[p]) |-> routing_key(service[p], methods[p][k])]
      BY <1>2, <2>1
    <3>2. n \in 1..Len(left'[p])
      BY <2>2, <3>1
    <3> QED
      BY <3>1, <3>2
  <2>4. RestIsLeft(p)'
    BY <2>3 DEF RestIsLeft
  <2>5. \A q \in Publishers \ {p} : RestIsLeft(q)' /\ LeftIsOwn(q)'
    <3>1. \A q \in Publishers \ {p} : pub'[q] = pub[q] /\ left'[q] = left[q]
      BY <1>2, <2>1
    <3>2. bindings \subseteq bindings'
      BY <2>1
    <3> QED
      BY <1>1, <3>1, <3>2, OthersLeft
  <2>6. BoundIsOwn'
    BY <1>1, <2>1 DEF BoundIsOwn, BindingOf
  <2>7. LeftIsOwn(p)'
    <3>1. left'[p] = [k \in 1..Len(methods[p]) |-> routing_key(service[p], methods[p][k])]
      BY <1>2, <2>1
    <3>2. Len(left'[p]) = Len(methods[p])
      BY <2>2, <3>1
    <3> QED
      BY <3>1, <3>2 DEF LeftIsOwn
  <2> QED
    BY <2>4, <2>5, <2>6, <2>7 DEF BindInv
<1>5. ASSUME NEW p \in Publishers, Bind(p) PROVE BindInv'
  <2>1. /\ pub[p] = "declared" /\ left[p] # <<>> /\ UNCHANGED pub
        /\ bindings' = bindings \cup {<<queue_name(service[p]), Head(left[p])>>}
        /\ left' = [left EXCEPT ![p] = Tail(@)]
    BY <1>5 DEF Bind
  <2>2. left[p] \in Seq(Seq(STRING)) /\ left'[p] = Tail(left[p])
    BY <1>2, <2>1
  <2>3. ASSUME NEW n \in 1..Len(methods[p]), BindingOf(p, n) \notin bindings'
        PROVE  \E i \in 1..Len(left'[p]) : left'[p][i] = routing_key(service[p], methods[p][n])
    <3>1. PICK i \in 1..Len(left[p]) : left[p][i] = routing_key(service[p], methods[p][n])
      BY <1>1, <2>1, <2>3 DEF RestIsLeft
    <3>2. i # 1
      BY <2>1, <2>2, <2>3, <3>1 DEF BindingOf
    <3>3. i - 1 \in 1..Len(Tail(left[p])) /\ Tail(left[p])[i - 1] = left[p][i]
      BY <2>1, <2>2, <3>1, <3>2
    <3> QED
      BY <2>2, <3>1, <3>3
  <2>4. RestIsLeft(p)'
    BY <2>3 DEF RestIsLeft, BindingOf
  <2>5. \A q \in Publishers \ {p} : RestIsLeft(q)' /\ LeftIsOwn(q)'
    <3>1. \A q \in Publishers \ {p} : pub'[q] = pub[q] /\ left'[q] = left[q]
      BY <1>2, <2>1
    <3>2. bindings \subseteq bindings'
      BY <2>1
    <3> QED
      BY <1>1, <3>1, <3>2, OthersLeft
  <2>6. BoundIsOwn'
    <3>1. 1 \in 1..Len(left[p]) /\ Head(left[p]) = left[p][1]
      BY <2>1, <2>2
    <3>2. PICK n \in 1..Len(methods[p]) :
            left[p][1] = routing_key(service[p], methods[p][n])
      BY <1>1, <3>1 DEF LeftIsOwn
    <3>3. <<queue_name(service[p]), Head(left[p])>> = BindingOf(p, n)
      BY <3>1, <3>2 DEF BindingOf
    <3>4. bindings' = bindings \cup {BindingOf(p, n)}
      BY <2>1, <3>3
    <3> QED
      BY <1>1, <3>4 DEF BoundIsOwn
  <2>7. LeftIsOwn(p)'
    <3>1. ASSUME NEW i \in 1..Len(left'[p])
          PROVE  i + 1 \in 1..Len(left[p]) /\ left'[p][i] = left[p][i + 1]
      <4>1. Len(left[p]) \in Nat \ {0} /\ Len(Tail(left[p])) = Len(left[p]) - 1
        BY <2>1, <2>2, HeadTailProperties, EmptySeq
      <4>2. i \in 1..(Len(left[p]) - 1)
        BY <2>2, <3>1, <4>1
      <4>3. i + 1 \in 1..Len(left[p])
        BY <4>1, <4>2
      <4>4. Tail(left[p])[i] = left[p][i + 1]
        BY <2>1, <2>2, <4>1, <4>2, HeadTailProperties
      <4> QED
        BY <2>2, <4>3, <4>4
    <3> QED
      BY <1>1, <3>1 DEF LeftIsOwn
  <2> QED
    BY <2>4, <2>5, <2>6, <2>7 DEF BindInv
<1>6. ASSUME NEW p \in Publishers,
             \/ Connect(p) \/ Declare(p) \/ Publish(p) \/ Stop(p) \/ Announce(p)
             \/ BrokerReads(p)
      PROVE  BindInv'
  <2>1. UNCHANGED <<bindings, left>>
    BY <1>6 DEF Connect, Declare, Publish, Stop, Announce, BrokerReads
  <2>2. \A q \in Publishers : pub'[q] = "declared" => pub[q] = "declared"
    BY <1>2, <1>6 DEF Connect, Declare, Publish, Stop, Announce, BrokerReads
  <2> QED
    BY <1>3, <2>1, <2>2
<1>7. ASSUME NEW s \in Subscribers, Subscriber(s) PROVE BindInv'
  <2>1. UNCHANGED <<bindings, left, pub>>
    BY <1>7 DEF Subscriber, SubscriberConnects, SubscriberDeclares, SubscriberDeclaresQueue,
                SubscriberBinds, SubscriberConsumes, SubscriberStops, Receive, HandlerEnds,
                View, ViewRaises, pubVars
  <2> QED
    BY <1>3, <2>1
<1>8. CASE SendForeign \/ Tick \/ UNCHANGED vars
  <2>1. UNCHANGED <<bindings, left, pub>>
    BY <1>8 DEF SendForeign, Tick, vars, pubVars
  <2> QED
    BY <1>3, <2>1
<1> QED
  BY <1>4, <1>5, <1>6, <1>7, <1>8 DEF Next, Publisher

-----------------------------------------------------------------------------
(* The theorems. *)

LEMMA NotifyInit == Init => NotifyInv
<1>1. SUFFICES ASSUME Init PROVE NotifyInv
  OBVIOUS
<1>2. LinkInv
  BY <1>1 DEF Init, LinkInv, PublisherInv
<1>3. BindInv
  BY <1>1 DEF Init, BindInv, BoundIsOwn, RestIsLeft, LeftIsOwn
<1>4. HandleInv
  BY <1>1 DEF Init, HandleInv
<1> QED
  BY <1>1, <1>2, <1>3, <1>4, TypeInit DEF NotifyInv

\* Of the invariant: the types, where the exchange and the channels are, what
\* is bound and what start() has left to bind.
THEOREM Invariant == Spec => []NotifyInv
<1>1. NotifyInv /\ [Next]_vars => NotifyInv'
  BY TypeStep, LinkStep, BindStep, HandleStep DEF NotifyInv
<1> QED
  BY <1>1, NotifyInit, PTL DEF Spec

\* The broker drops a message while somebody is subscribed only if the last
\* subscriber before took the auto-delete exchange with it (EventPublisher.start,
\* EventSubscriber.close): both sides declare it, in any order.
THEOREM DroppedAlone == Spec => []MissedOnlyAlone
<1>1. NotifyInv => MissedOnlyAlone
  BY DEF NotifyInv, LinkInv, MissedOnlyAlone
<1> QED
  BY <1>1, Invariant, PTL

\* If no service is named below another no two have a key in common.
LEMMA DistinctNames ==
  ASSUME NoneBelow
  PROVE  OwnKeys
<1>1. SUFFICES ASSUME NEW p \in Publishers, NEW q \in Publishers,
                      NEW n \in 1..Len(methods[p]), NEW k \in 1..Len(methods[q]),
                      routing_key(service[p], methods[p][n])
                        = routing_key(service[q], methods[q][k])
               PROVE  service[p] = service[q]
  BY DEF OwnKeys
<1> DEFINE x == service[p]
           y == service[q]
           m == methods[p][n]
           l == methods[q][k]
<1>2. x \in Seq(STRING) /\ y \in Seq(STRING) /\ x \o m = y \o l
  BY <1>1, NotifyAssumption DEF NotifyAssumption, routing_key
<1>3. m \in Seq(STRING) /\ l \in Seq(STRING)
  <2>1. methods[p] \in Seq(Seq(STRING)) /\ methods[q] \in Seq(Seq(STRING))
    BY NotifyAssumption DEF NotifyAssumption
  <2> QED
    BY <2>1, ElementOfSeq
<1>4. (IsPrefix(x, y) => x = y) /\ (IsPrefix(y, x) => y = x)
  BY DEF NoneBelow
<1> HIDE DEF x, y, m, l
<1>5. ASSUME NEW u \in Seq(STRING), NEW v \in Seq(STRING),
             NEW f \in Seq(STRING), NEW g \in Seq(STRING),
             u \o f = v \o g, Len(u) <= Len(v)
      PROVE  IsPrefix(u, v)
  <2>1. \A i \in 1..Len(u) : u[i] = v[i]
    <3>1. SUFFICES ASSUME NEW i \in 1..Len(u) PROVE u[i] = v[i]
      OBVIOUS
    <3>2. i \in 1..Len(v)
      BY <1>5
    <3>3. (u \o f)[i] = u[i]
      BY ConcatProperties
    <3>4. (v \o g)[i] = v[i]
      BY <3>2, ConcatProperties
    <3> QED
      BY <1>5, <3>3, <3>4
  <2>2. SubSeq(u, 1, Len(u)) = SubSeq(v, 1, Len(u))
    BY <1>5, <2>1
  <2> QED
    BY <1>5, <2>2 DEF IsPrefix
<1>6. CASE Len(x) <= Len(y)
  BY <1>2, <1>3, <1>4, <1>5, <1>6 DEF x, y
<1>7. CASE ~(Len(x) <= Len(y))
  <2>1. Len(y) <= Len(x)
    BY <1>2, <1>7
  <2> QED
    BY <1>2, <1>3, <1>4, <1>5, <2>1 DEF x, y
<1> QED
  BY <1>6, <1>7

\* What a registry lookup returns has not expired, and every method's key is
\* bound to the queue it names and to no other service's (MeshService.start,
\* MeshRegistryViewer._handle, lookup), if services have no key in common.
THEOREM Callable ==
  ASSUME OwnKeys
  PROVE  Spec => []AdvertisedIsBound
<1>1. NotifyInv => AdvertisedIsBound
  <2>1. SUFFICES ASSUME NotifyInv, NEW s \in Subscribers, NEW x \in Services,
                        lookup(s, x) # None
                 PROVE  LET advert == lookup(s, x)
                        IN  /\ advert.age < Ttl
                            /\ service[advert.from] = x
                            /\ \A n \in 1..Len(methods[advert.from]) :
                                 {b[1] : b \in {b \in bindings :
                                                  b[2] = x \o methods[advert.from][n]}}
                                   = {queue_name(x)}
    BY DEF AdvertisedIsBound
  <2> DEFINE advert == lookup(s, x)
  <2>2. /\ advert \in Listed(x, bindings)
        /\ ~(advert.age >= Ttl)
    BY <2>1 DEF NotifyInv, TypeInv, lookup, is_expired
  <2> HIDE DEF advert
  <2>3. /\ advert.from \in Publishers /\ advert.age \in Nat
        /\ service[advert.from] = x /\ AllBound(advert.from, bindings)
    BY <2>2 DEF Listed, Adverts
  <2>4. advert.age < Ttl
    BY <2>2, <2>3, NotifyAssumption DEF NotifyAssumption
  <2>5. ASSUME NEW n \in 1..Len(methods[advert.from])
        PROVE  {b[1] : b \in {b \in bindings : b[2] = x \o methods[advert.from][n]}}
                 = {queue_name(x)}
    <3> DEFINE key == x \o methods[advert.from][n]
    <3>1. <<queue_name(x), key>> \in bindings
      BY <2>3 DEF AllBound, BindingOf, routing_key
    <3>2. ASSUME NEW b \in bindings, b[2] = key PROVE b[1] = queue_name(x)
      <4>1. PICK q \in Publishers : \E k \in 1..Len(methods[q]) : b = BindingOf(q, k)
        BY <2>1 DEF NotifyInv, BindInv, BoundIsOwn
      <4>2. PICK k \in 1..Len(methods[q]) : b = BindingOf(q, k)
        BY <4>1
      <4>3. b[1] = queue_name(service[q]) /\ b[2] = routing_key(service[q], methods[q][k])
        BY <4>2 DEF BindingOf
      <4>4. key = routing_key(service[advert.from], methods[advert.from][n])
        BY <2>3 DEF routing_key
      <4>5. service[q] = service[advert.from]
        <5>1. routing_key(service[q], methods[q][k])
                = routing_key(service[advert.from], methods[advert.from][n])
          BY <3>2, <4>3, <4>4
        <5> QED
          BY <2>3, <5>1 DEF OwnKeys
      <4> QED
        BY <2>3, <4>3, <4>5
    <3> HIDE DEF key
    <3>3. \A b \in {b \in bindings : b[2] = key} : b[1] = queue_name(x)
      BY <3>2
    <3>4. <<queue_name(x), key>>[1] = queue_name(x) /\ <<queue_name(x), key>>[2] = key
      OBVIOUS
    <3>5. {b[1] : b \in {b \in bindings : b[2] = key}} = {queue_name(x)}
      BY <3>1, <3>3, <3>4
    <3> QED
      BY <3>5 DEF key
  <2> QED
    BY <2>3, <2>4, <2>5 DEF advert
<1> QED
  BY <1>1, Invariant, PTL
=============================================================================
