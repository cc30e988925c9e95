# Verification of nuropb-rmq

`nuropb-rmq` is an asyncio AMQP 0-9-1 client with an RPC, event and service-mesh
layer for RabbitMQ. This directory holds TLA+ models of it, TLC configurations
that check them on small instances, and proofs checked by TLAPS.

    tlc -config MCSession_park.cfg MCSession      # a run
    tlapm SessionProofs.tla                       # the proofs about Session; M+Proofs for M

Paths below are relative to `src/nuropb_rmq/`.

## 1. The system

Everything runs on one asyncio loop: a task runs from one `await` to the next
without interruption. What makes the code hard is what may happen at each
`await`, and that nothing but single-slot futures, two queues and one callback
connects its parts.

| Part | State it keeps | Operations | Hard behaviour |
|---|---|---|---|
| Connection (`transport/connection.py`, `protocol/*_sm.py`) | two state machines, `_waiters`, `_deliveries`, `_returns`, `_closed`, `_lost_exc`, read and heartbeat tasks | connect, open_channel, declare/bind/consume/cancel, publish, ack, update_secret, receive, close, force_drop | six routes to one loss notification; one waiter per method; drain() |
| Publisher confirms (`transport/confirm.py`, `basic_publish`) | `enabled`, `next_tag`, `outstanding`, `_mandatory_tags`, `_return_by_tag` | confirm_select, basic_publish, on_ack, on_nack, return, fail_all | concurrent publishers, confirms out of order and `multiple`, returns, timeouts |
| Session, correlation (`session/session.py`, `correlation.py`) | `_pending`, `_parked`, `_started`, `reply_queue`, `_loss_handled`, `epoch`, tasks, lock | start, close, reconnect, reply loop, wait_reply, republish | loss in any phase, park or fail-fast policy, snapshot walked across awaits |
| Reconnect (`session/reconnect.py`) | attempt counter | reconnect with back-off | retries half-done work, runs out |
| RPC client (`patterns/rpc.py` `RpcClient`) | the awaiting caller | request | confirm, reply, timer, cancellation, loss and rejection race |
| RPC server (`RpcServer`), dead-letter processor (`dlq_timeout.py`) | consumer loops | handle, reply, ack; answer timed-out requests | reply before ack; a late answer beside a timeout answer |
| Claims and envelopes (`context.py`, `envelope.py`, `errors.py`) | `AuthConfig` | attach a token, verify a request, encode and decode bodies | tokens that expire while a request is parked or redelivered; the loop over algorithms; which error reaches whom |
| Events, mesh, registry (`events.py`, `mesh.py`, `registry.py`) | bindings, advertisement store, subscriber loops | start, publish, announce, rebind, view, look up | an auto-delete exchange under its users; expiry; silent end of loops |
| Frame and method codecs (`frame.py`, `methods.py`), content in the read loop | the read buffer, `pending_content`, `frame_max` | encode and decode frames, tables, methods, headers; split and reassemble bodies | streams cut anywhere, channels interleaved, sizes at the negotiated limit |
| TLS material (`tls_material.py`), SASL | `_tls_material` | resolve, build a context, choose a mechanism | rotation during an attempt; conflicting sources |
| Queue profiles, ACL patterns | none | validate, build | boundary values |

How they interact: `RpcClient.request` registers an id in the correlation
table, calls `basic_publish`, remembers the envelope in the session and awaits
the reply's future. The read loop completes waiters and confirms and queues
deliveries; the session's reply loop takes deliveries, completes futures and
acks. On a loss `_notify_loss` fails waiters and confirms, queues a sentinel and
calls the session, which fails everything (fail-fast) or starts a task that
reconnects and republishes what is parked.

What makes each part correct: a connection tells of its loss once, and nobody
stays blocked on it; a confirm or return goes to the publish it is about; every
call ends once, with its own answer; a reconnect forgets no parked call; the
lock that serialises reconnects is given back; each side of the wire decodes
what the other said; no handler runs for a request that is not authorised, and
a caller learns the truth about its own request; an event or an advertisement
is lost or stale only where that is unavoidable.

## 2. Modules

| Module | Models | Correspondence |
|---|---|---|
| `RpcCall` | what `RpcClient.request` promises, with no mechanism | `Call`, `Answer`, `Reply`, `Fail` of a request |
| `Session` | `Session`, `CorrelationTable`, `RpcClient.request`, `ReconnectCoordinator` over a reduced connection | `pc`, `pub` and `drv` say at which await each task is; `fut`, `pending`, `parked`, `started`, `replyQueue`, `lossHandled`, `epoch` are the attributes; `conn`, `reset`, `confirmOn`, `inbox` what the session sees of `AmqpConnection` |
| `SessionProofs` | the theorems about `Session` | |
| `Confirm` | `basic_publish`, `confirm_select`, `ConfirmTracker` and the read loop's select-ok, return, ack and nack | `phase`, `selected`, `confirm` are a publisher's awaits; `waiter` is `_waiters` for select-ok; the broker's own numbering stands beside the tracker's; `crossed` and `dropped` are history, for the properties about returns |
| `ConfirmProofs` | the theorems about `Confirm` | |
| `Connection` | one `AmqpConnection` from connect to close: handshake and channel state machines, calls, read loop, watchdog, `receive`, `close`, `force_drop` | `sm`, `channel`, `waiters`, `fut`, `lost`, `closed`, `deliveries` are the attributes; `opener`, `call`, `consumer`, `heartbeat`, `closer`, `dropper` say at which await each task is |
| `ConnectionProofs` | the theorems about `Connection` | |
| `WorkQueue` | what a request queue with its consumers promises, with no mechanism | `Accept`, `Answer`, `Settle` of a request |
| `Serving` | `RpcServer` and `DlqTimeoutProcessor` on a queue declared by a `QueueProfile` | `loop` and `job` say where each `_loop` is, `inbox` is `_deliveries`, `blocked` is `_publish_blocked`, `out` what was written and not read by the broker; `place` and `returned` are the broker's queue |
| `ServingProofs` | the theorems about `Serving` | |
| `Framing` | the integers, strings and frames of `frame.py` and the division of a body by `basic_publish`, octet for octet | one operator per function; `Incomplete` is the error the read loop waits on |
| `ReadLoop` | one iteration of the inner loop of `_read_loop` with `_finish_delivery` and `_finish_return`, as operators on a record, whatever the codec makes of a payload | `buffer` and `pending` are `_buffer` and `pending_content`, `blocked` is `_publish_blocked`, `got` what reaches callers |
| `Reading` | the read loop (`ReadLoop`) behind a stream, against a broker that divides contents and interleaves channels | `said`, `wrote`, `stream` are the broker's side, `taken` how much `read()` has returned; `line`, `done`, `handled` are history |
| `ReadingProofs` | the theorems about `Framing` and `Reading` | |
| `Codec` | field tables, methods and content headers of `frame.py` and `methods.py`, over `Framing` | one operator per function; `ClientMethods`, `ServerMethods` and `Properties` are the branches of `encode_method`, `decode_method` and the header codecs as tables |
| `Amqp` | the grammar a broker reads and writes, with a decoder and encoder of its own (external) | written from what the library has to send and read, never from its codec |
| `Wire` | `connect`, the calls, `basic_publish`, the settlements and the read loop down to octets, over `Codec` against `Amqp` | `step` and `awaiting` are the caller's `_expect`, `reader` is `_buffer` with `pending_content`, `inbox` is `_deliveries`; the read loop is that of `ReadLoop` |
| `Dial` | `resolve_tls_material`, `_build_ssl_context`, `_select_sasl` in attempts that race a rotation | `material`, `chain` and `mechanism` are `_tls_material`, what the context holds and what start-ok says |
| `DialProofs` | the theorems about `Dial` | |
| `Handling` | the contents of a request: envelope, claims, `RpcServer._handle`, error allow-list, `decode_response` | `job` is the delivery `_handle` has in hand, `call` what was published, `outcome` what `request()` gave back, `now` is `time.time()` |
| `HandlingProofs` | the theorems about `Handling` | |
| `Notify` | `EventPublisher`, `EventSubscriber`, `MeshService`, `MeshRegistryViewer` on an exchange they declare themselves | `pub` and `sub` say which await of `start()` or of the loop each is at; `store` is `AdvertisementStore` |
| `NotifyProofs` | the theorems about `Notify` | |
| `MCSession`, `MCConfirm`, `MCConnection`, `MCServing`, `MCWire`, `MCReading`, `MCDial`, `MCHandling`, `MCNotify` | constants a cfg cannot write down | |

`Session` contains the coarse form of `Confirm` and `Connection`: it is where they
are composed. A detail they settle (how two publishers share one confirm.select
waiter, how a loss is notified) is taken from them there. `Session` takes the
serving side as its environment's `Deliver`: a routed request is answered, maybe
more than once, by a server or by a timeout. That is what `WorkQueue` promises and
`Serving` is shown to implement. `Handling` looks inside the messages that
`Session` and `Serving` pass on as wholes, and takes from them that a request may
be published again by a reconnect and given back by a lost server. `Wire` opens
the frames that `Connection` and `Confirm` take as records of a kind.

An action is the code between two awaits. The order in which ready tasks run is
not modelled as a queue. Where the order matters, because the read loop may
handle several frames of one chunk before a woken task runs, `Session` and
`Confirm` have a guard (`Settled`, `NoneWoken`) and a constant (`Coalesced`) that
lifts it for a loss. Operators whose name ends in `Bug` are faulty variants of
the operator after them, each undoing one thing the code gets right. The
mutation entries of PROJECT.json put them in its place, and each must break its
property.

### Abstractions

* Ids, messages, envelopes, replies and keys are model values or the calls
  themselves; frames are records of a kind and what they are about.
* `Session`: no publish begins between a confirm.select-ok and the step of the
  publisher it wakes; `Confirm` models that race exactly. The broker and the
  servers answer each routed request at most once per publish, in any order.
* `Confirm`: one channel, one publish per publisher. A publish may say
  `confirm=False` at any time, as the replies of `RpcServer` do (rpc.py:332): the
  broker numbers it if the channel is in confirm mode, and the tracker does not.
  The broker returns an unroutable message ahead of that message's own confirm,
  and in no order with the confirms of others.
* `Connection`: header and body frames are one `deliver` frame. Frames are handled
  one at a time, so other tasks may run between any two of them, which includes
  every division into chunks. A call made while the write buffer is full is
  taken to be made when drain() returns; the watchdog and close(), which no
  timeout guards there, are modelled waiting in it. The drain of the read loop's
  own close-ok is not held up. A writer that is closed drops its socket, and the read
  loop reads EOF, only when its buffer is flushed or given up (`Severed`);
  `close()` and `force_drop()` wait for that in `wait_closed()`. Half intervals are
  counted instead of a clock.
* `Serving`: a request has a place, not a position in its queue: the broker may
  push the requests of a queue in any order, as it does after redeliveries. The
  dead-letter exchange is bound to the processor's queue, which the code leaves
  to the application. A profile with a TTL is used, as the work-queue profiles
  all are. start() is one action. A consumer that takes the place of a stopped
  one takes its identity too. `OneWay` requests are those with no `reply_to`.
  Servers on a shared mesh connection (`from_mesh`) are not modelled.
* `Framing`, `Codec`: integers up to TLC's 32 bits; floats and decimals keep their octets.
  Ceilings (short strings, tables, frames, nesting, 4- or 8-octet integers) are
  constants, so that the instance reaches both sides of each.
* `Wire`: the caller's task makes its calls one after the other; then one task per
  channel publishes, each publish in one step, as its frames are written without
  suspending. A read returns what has arrived, or `Cuts` octets of it. A body is
  not empty (JSON bodies never are). The broker obeys the protocol: it finishes a
  content before it begins another on the same channel. The consumer is on
  channel 1 and the mandatory publish on channel 2, so that the contents the
  broker sends on the two, a delivery and a return, come between each other's
  frames. `Amqp` and the constants of `MCWire` give the octets of a broker's tables
  the meaning AMQP 0-9-1 gives them, and `AsPython` says where the library makes
  something else of it. RabbitMQ's dialect of tables, where `s` is a signed short
  and not a short string, is not modelled.
* `Reading`: the codec of methods and headers is a pair of constants,
  `decode_method` and `decode_content_header`, about which nothing is assumed but
  that they take what the broker says. It says deliveries, returns, confirms,
  blocked and unblocked; answers to calls are in `Wire`. One iteration of the inner
  loop is a step: the code handles all whole frames of a chunk in one run, and
  since the loop reads only when none is left, what the broker and the network do
  between two iterations could as well be done after the last.
* `Dial`: PEM and PKCS#12 contents are the version of the secrets they hold; a
  certificate and a key fit if they have the same version. The files of an attempt
  are read one after the other, and a rotation may come between any two of them.
  The insecure profile
  is run with configurations that have no certificate.
* `Handling`: a token is a record of algorithm, key, expiry, id and method; one for
  another audience or issuer is one of another key. One server at a time; one
  request() per id. `params` go with the id.
* `Notify`: a name is its segments; every binding matches (`#`, or a fanout). A
  publisher and its connection are one, and so are close() and a loss of it.
  `AdvertisementStore` is as old as its entries: instants pass for all at once.
* Counters stop at named bounds: `MaxLosses`, `MaxEpoch`, `MaxSilence`, `MaxStops`,
  `MaxSends`, `MaxTime`, `MaxVersion`, `MaxDials`, `MaxSaid`, `MaxStream`, `Window`.

## 3. Runs

Passing runs:

| Run | Instance | Shows |
|---|---|---|
| `session_park` | two calls, two losses, two attempts; resets, blocking, cancellation, close, coalesced losses, calls during a reconnect; client timer | `FutureTracked`, `Recoverable`, `TableClean`, `OpenIsLive`, and that `Session` implements `RpcCall` |
| `session_live` | as above with the default broker timeout, no close or blocking, and a reconnect that the application starts beside the session's own at any time of the first epoch, under `FairSpec` | every call ends, every reconnect ends, and a reconnect that is over has carried every awaiting call into its epoch |
| `confirm` | three publishers: one durable, mandatory and cancellable, one durable, one mandatory that may say `confirm=False`; publishes on the lost connection, a loss in any chunk; under `FairSpec` | tags stay in step with the broker's numbering, and each publish gets its own confirm, until the broker numbers a publish the tracker does not; each gets its own return while returns are traceable; until then every publish ends, but those that register after the loss was notified |
| `connection` | a TLS connection with a declare, a secret rotation and a consumer, one delivery under way, a write buffer that fills up and is drained | one notification per connection, the loss fails every waiter, an answer goes to its own call, silence is noticed, a blocked consumer ends, a lost connection has the end of its read loop ahead or its socket on the way out, the read loop ends, close() ends |
| `serving` | two requests, one of them one-way, two servers and the processor, delivery limit 1, one connection lost or closed, blocking | no delivery is forgotten by `_handle`, `Serving` implements `WorkQueue` (no request leaves the queue unanswered, none is answered afterwards), every request settles unless a blocked connection has stranded it |
| `wire` | two channels, eleven calls, four publishes (one of two BODY frames, one of exactly one, one that cannot be encoded), deliveries on one channel and a return on the other, confirms, heartbeats and connection.blocked in between, the stream cut | the broker reads every octet as what its caller said (`BrokerUnderstands`), the read loop never gives up, and when no octet is under way callers have got what the broker said, once, whole and in order, and nothing is left behind on either side (`NothingStays`) |
| `reading` | two channels; deliveries and returns with bodies in two frames (one of them empty, which the grammar allows), an empty body, a confirm; heartbeats; the stream cut at every octet | what a caller gets is what was said (`GotIsSaid`), nothing stays behind (`NothingStays`), the buffer of a waiting loop is shorter than a frame (`TypeOK`) |
| `dial` | 5139 configurations of hook, files, data and PKCS#12, two attempts, two rotations at any point, between two file reads too | one source per slot, nothing older than the attempt, EXTERNAL only with a certificate that is shown |
| `handling` | two calls, one with any of seven tokens, four server configurations, three publishes, three instants, strangers' requests and answers | no handler without a verified, unexpired and bound token, every outcome is that of its own call, every refusal says what was wrong |
| `notify` | two publishers, one of them durable, two subscribers; events or advertisements; two messages, two ends of connections | an event is missed by a subscriber only after the exchange was deleted under its publisher; what `lookup()` returns is fresh and bound; a durable publish returns |

The bounds: two calls are what one id, one waiter or one snapshot can confuse;
two losses let the second one hit each phase of recovering from the first, and two
attempts let a reconnect fail, retry and run out. Three publishers allow an
earlier, a later and a foreign publish around one confirm, with `multiple`
covering more than one, and a publish without confirms before, between or after
them. Four half intervals are the code's own miss threshold;
two more let the count pass it and its next check. In `Connection` a call and a
connection-level method have different waiters, and each may be in flight in any
phase of opening, losing and closing. In `Serving` two servers are what a
redelivery needs, a limit of one lets a request return and then be given up, and
nacks, which are not bounded, return requests besides the one lost connection.
In `Wire` frames of 72 octets, 64 of payload, make one body two pieces and
another exactly one; the tables hold every tag the codec sends or reads, and the
script every method. In `Reading` a frame holds at most two octets, so that a body
of three has two pieces, and two channels let a frame of either come between any
two of the other; what more channels, longer bodies or larger frames could do is
left to the proofs. In `Handling` three publishes are two calls and a republish,
or a stranger's between them; a token may expire before, between or after two
readings. In `Notify` two ends of a connection let an exchange be deleted and
declared again, and an advertisement of TTL 2 is seen fresh, aged and expired.

Two runs end in a counterexample. Each states what the documentation says of the
program, and is violated by what the code does:

| Run | Claim refuted | What the passing runs do |
|---|---|---|
| `session_coalesced` | a waiting call ends (`WaitEnds`): a loss read in one chunk with select-ok leaves the republisher waiting for good, holding the lock | exclude it where liveness is checked (`Coalesced`) |
| `confirm_unconfirmed` | a confirmed publish returns on the broker's answer to its own message (`ConfirmedIsAnswered`): after a publish with `confirm=False` on a channel in confirm mode every confirm answers the wrong publish | have it, and `Skewed` says from when on nothing is promised |

They are described at their lines under "findings" in PROJECT.json.

Other environments are excluded, each by a named constant, because the code makes
no provision for them. To see the counterexample, change the constant:

| Module | Constant | What happens with it |
|---|---|---|
| `Connection` | `Secrets` such that two calls are of one method | the later one takes the place and the answer of the earlier, or, with `Slow`, an answer that comes after its call's timeout; `AnswerIsOwn` fails |
| `Connection` | `Stalls` | a peer that stops reading holds the watchdog in the drain of its own heartbeat (connection.py:324), and `close()` and `force_drop()` in theirs and in `wait_closed()`; `SilenceNoticed`, `ReadingEnds` and `CloseEnds` fail |
| `Session` | `QuietReconnect` | a new call made while a reconnect republishes takes the republisher's select-ok waiter; the retry finds the session open and `EpochCarriesAll` fails |
| `Wire` | `Programs` with an empty body | the BODY frame after a zero size has no place in the grammar (connection.py:609); `BrokerUnderstands` fails |
| `Wire` | `Programs` with a header value that does not encode | the method frame is written without its header: the broker waits for the rest, or meets the next publish there; `NothingStays` or `BrokerUnderstands` fails |
| `Dial` | `Configs` with the insecure profile and a certificate | EXTERNAL is chosen for a certificate the context never loads; `ExternalIsShown` fails |
| `Notify` | a service named below another (`orders` and `orders.eu`) | a method of the one and a method of the other make one routing key, bound to two queues; `AdvertisedIsBound` fails |

Where the property that fails is proved below, the constant comes back as the
hypothesis of its theorem: the conclusion holds in every environment the
hypothesis leaves. `Confirm` excludes nothing in its run (`Coalesced` and
`AfterLoss` are TRUE), and its theorems have no such hypothesis. A publish
whose routing key does not encode (`Malformed`, empty in the runs) is in them:
the tag it leaves, which the broker never counts, is one of the two ways to
`Skewed`.

Some behaviour a reader of the documentation may not expect is inside the
passing runs, whose properties are stated so that they hold of it:

* A basic.return is charged to the oldest outstanding mandatory publish
  (connection.py:1087). If the broker returns a message before it confirms an
  earlier mandatory one, the earlier, which was routed, raises `PublishReturned`,
  and the one the broker dropped returns normally, against
  docs/concepts/queue-profiles.md:36-38 (`crossed` in `Traceable`).
* A publish that registers its confirm after the loss of the connection was
  notified, because it was called then or because select-ok and the loss came in
  one chunk, waits for good (`RegisteredLate` in `PublishEnds`). This is what
  `session_coalesced` meets in a reconnect.
* In field tables the library reads tag `u`, a short-uint in AMQP 0-9-1, as signed,
  and `U`, a short-int, as unsigned (frame.py:221-226): a server property of 65534
  reaches the caller as -2, and one of -2 as 65534 (`AsPython` in `Wire`).
* A loss while request() awaits its publish confirm raises the transport's
  exception out of it under the park policy as well (rpc.py:126), against
  docs/concepts/reconnect.md:3-4.
* A reply refused because the connection is blocked, or an error object that
  cannot be encoded, ends a server's or the processor's loop without a word; what
  it held stays unacked until its connection ends (`Stranded` in `RequestSettles`
  and `HeldIsHandled`; `HandlerErrorUnencodable`). A body that does not decode
  ends a subscriber's loop in the same way, and one that is JSON but no object a
  viewer's.
* An events exchange that loses its last subscriber is deleted under its
  publishers, whose next publish closes their channel at the broker. They do not
  notice: plain ones drop events from then on, also those for later subscribers,
  and a durable one waits for its confirm for good (`alone` in `MissedOnlyAlone`
  and `PublishReturns`).
* A service announces itself once. A viewer that starts later never sees it, and
  one that runs forgets it after the TTL; the example of
  docs/concepts/service-mesh.md:80-91 starts the viewer last.
* A server whose first algorithm has no key refuses every token with UNAUTHORIZED,
  also one the next algorithm would verify.
* An ack that fails on a reset socket takes the reply loop's generic handler, which
  ends every outstanding call with CONNECTION_LOST under the park policy too
  (`ReplyLoopEnds`), which docs/concepts/reconnect.md:17-22 does not promise.


Deadlock is not checked: each system may stop, when every call is over or the
connection is closed.

### Fairness

`FairSpec` of each module assumes weak fairness of: a task whose awaited future
is done (asyncio runs ready tasks), a timer that is due, the read loop on frames
that have arrived, and, of the environment, that a live broker answers what it
was sent, that a routed request is answered by a server or, when its TTL is up,
by the dead-letter processor, that a reset or a full write buffer does not
stay unnoticed for good (TCP ends it), and that a transport which is closed drops
its socket in the end (once flushed; with TLS asyncio's shutdown timeout sees to it). In `Serving` handlers return, the broker
reads what was written, expires what stays in the queue and delivers to a
processor that runs, and a processor that has stopped is started again; nobody
has to start a server, and the broker need not deliver to one. The read loop and the watchdog are separate
tasks with separate fairness. Nobody has to call, cancel, time out early, lose a
connection, dial successfully, connect, close or drop.

`Notify` assumes only that the broker reads what is written to it. `Wire`, `Reading`,
`Dial` and `Handling` state safety alone: in `Wire` and `Reading` the place of a liveness property is
taken by `NothingStays`, which says of every state with nothing under way what a
live system would reach (fairness of its octet-level actions makes TLC evaluate
every encoding twice for each state, beyond a run's time).

## 4. Proofs

`SessionProofs` proves, for every set of calls and ids, both policies and all
bounds, under `SessionAssumption` alone:

| Theorem | Statement |
|---|---|
| `InvHolds` | `Inv` is an invariant of `Spec` |
| `TypeCorrect` | `[]TypeOK` |
| `FuturesAreTracked` | `[]FutureTracked` |
| `AwaitingIsRecoverable` | `[]Recoverable` |
| `TableStaysClean` | `[]TableClean` |
| `OpenMeansLive` | `[]OpenIsLive` |
| `LossFailsEveryCall` | `[]LossFailsAll`: under fail-fast a handled loss leaves no call outstanding until the next epoch |
| `SessionImplementsRpcCall` | `ASSUME UniqueIds`: `Spec` implements `RpcCall` |

None of the properties is inductive. The strengthening is

    Inv == TypeOK /\ LockInv /\ ConnectionInv /\ LossEmpties /\ CallsInv

* `LockInv`: at most one driver is past the reconnect lock (`Mutex`), and a
  republisher that awaits something does so for a parked call and inside a
  driver that holds the lock. Without it a step of the other driver could open
  the session under the first.
* `ConnectionInv`: `OpenIsLive`; a handled loss is that of a connection which is
  gone; a consume-ok not yet acted on, with the reply queue still set, came over
  a connection that stands; while a connection is being built the session is
  not started.
* `LossEmpties`: under fail-fast a handled loss leaves the table empty, and
  nothing refills it.
* `CallsInv`: the three call properties, an entry of the table has a future nobody
  completed (or whose awaiting task was cancelled), and a call not made yet has
  no future.

Each part has a step lemma with one step per action, and under it one per
conjunct the action can disturb; the parts use each other only through the
lemma's assumptions. `AnswersInv`, kept apart because it needs distinct ids,
says that a call not made yet is neither published nor parked, that a reply on
its way is one some server gave, that a future holding a reply holds the one to
its own request, and that a caller's result is its future's. With it
`RefinementStep` maps every step to a step of `RpcCall` or a stutter. With a reused
id (`RpcClient` lets callers choose one) `UniqueIds` fails, and so does the
conclusion: a late reply to the earlier call completes the later one.

`HandlingProofs` proves, for any sets of ids, methods, tokens, configurations and
strangers' messages, any number of publishes and any length of time, under
`Handling`'s named assumptions:

| Theorem | Statement |
|---|---|
| `Authorised` | `[][...]`: `OnlyAuthorised` |
| `Invariant` | `[]IInv` |
| `OwnOutcomes` | `[]OutcomeIsOwn` |
| `TrueRefusals` | `[]RefusalIsTrue` |

`OnlyAuthorised` needs no invariant: it is a fact about `verify_request`.
`ClaimsAreVerified` shows that the loop over the algorithms ends with claims only
at an algorithm whose key is held and verifies the token. The other two need

    IInv == TypeOK /\ Called /\ AllSent /\ Replied /\ Outcomes

* `Called`: a call published under an id is a message `request()` can have made
  with it.
* `AllSent`: whatever is queued or in hand and asks for its answer at the
  client's reply queue is the very message the call under its id has published,
  however often it was published or given back.
* `Replied`: every reply under way that would be taken for a call's would be a
  true outcome of it: made by a handler run of that call, or a refusal with a
  true reason, with allow-listed data once decoded.
* `Outcomes`: so are the outcomes there are.

Truth is about a moment: an expired token stays expired and `ran` only grows, so
what was true of a reply when it was written is true when it is read
(`StaysTrue`). That a refusal with UNAUTHORIZED has a reason is the hard half of
the loop: if a held key verified the token, take the least index at which the
loop does not go on; there it ends with claims or as expired, and not as invalid
(`SignedEnds`, by the well-foundedness of `<`).

`SessionProofs` also proves `EpochCarries`: `ASSUME QuietReconnect`, `Spec` keeps
`EpochCarriesAll`, with distinct ids or not. It joins to `Inv`

    EpochInv == /\ OwedByLive /\ PublishedIsSent /\ RepublisherLoses
                /\ TodoHeld /\ NothingToCarry /\ Carries

The heart is `Carries`: once the reply queue is open, a call that awaits its reply
is published in this epoch, in the rest of the snapshot, or in the republisher's
hands. The other parts keep it true across the awaits: what a publisher was
confirmed, this epoch has routed; the republisher is refused only by a loss, so
that it never drops a call from its snapshot on a connection that stands; the
snapshot belongs to whoever holds the lock.

`ServingProofs`, for any requests, servers, delivery limit and losses, under
`ServingAssumption` alone:

| Theorem | Statement |
|---|---|
| `Invariant` | `[]IInv` |
| `TypeCorrect` | `[]TypeOK` |
| `NothingForgotten` | `[]HeldIsHandled` |
| `Refinement` | `Spec` implements `WorkQueue` |

`IInv` says of each consumer that the requests the broker gave it are in its
inbox, with its handler, or named by frames it has written, in one of these
places only; that the frame which settles a request comes last of those about it;
and that an ack is preceded by the answer it owes. The last is what the
refinement needs: the broker may read the ack at any later time, over a
connection whose consumer is gone, and the request must be answered by then.

`ConnectionProofs`, for any calls and limits:

| Theorem | Hypothesis | Statement |
|---|---|---|
| `Life` | | `[]LifeInv` |
| `TypeCorrect` | | `[]TypeOK` |
| `LossReachesReader` | | `[]LossEndsReading` |
| `WatchdogInTime` | `~Stalls` | `[]SilenceNoticed` |
| `Filed` | `[]Exclusive` | `[]FiledInv` |
| `LossFailsAll` | `[]Exclusive` | `[][...]`: `LossFailsWaiters` |
| `OwnAnswers` | `~Slow`, `[]Exclusive` | `[]AnswerIsOwn` |

`LifeInv` relates the loss, the read loop and the watchdog: a loss the read loop has
not noticed is of a writer that is closed or a peer that is gone, and then its end
is in the loop's way, whichever of the six routes came first; and the watchdog of
an open connection has not overslept. The futures need `Exclusive`, no two calls awaiting
one kind of answer at once, because `_waiters` has one place per method.
`FiledInv` says that the table has whoever awaits; `OwnInv`, that an answer under
way is to a request that still awaits it. `Exclusive` is stated of the behaviour,
as the code leaves it to its callers; the run has it by having one call of each
method.

`ConfirmProofs`, for any publishers, durable or not, with confirms or without,
malformed, mandatory or cancelled, on a connection that is lost at any point,
under `ConfirmAssumption` alone:

| Theorem | Statement |
|---|---|
| `Tracker` | `[]TrackerInv` |
| `TypeCorrect` | `[]TypeOK` |
| `AwaitedIsTracked` | `[]ConfirmTracked` |
| `BrokerSays` | `[]BrokerInv` |
| `Numbering` | `[]NumberedAlike` |
| `InStep` | `[]TagsInStep` |
| `BrokersAnswers` | `[]AnsweredAlike` |
| `OwnConfirm` | `[]ConfirmIsOwn` |
| `OwnReturn` | `[]ReturnIsOwn` |

What ends the promise is in the properties, as a condition on the state reached
and not on the constants: `Skewed`, that the broker has numbered a message without
a tag or a tag was given to a message it never sees, and `Traceable`, that moreover
every message returned has a tag and none was returned ahead of the answer to an
earlier mandatory one. What is skewed stays so, and so does what is not traceable.

The invariants come in layers. `TrackerInv`: one confirm.select is answered at a
time, so `enable()` runs once, the tags below `next_tag` are given out once each,
and what is outstanding is its tag's. `BrokerInv`: the broker answers what it has
numbered, and an unroutable message only after its return. `NumberedAlike`: until
`Skewed`, the broker's number of a message is its tag. `AnsweredAlike`: until then,
the first confirm under way that covers an outstanding tag is the broker's answer
to it, though a later one may cover it again, with `multiple`, and say otherwise of
others. `Traced`: while `Traceable`, every older mandatory tag has been confirmed
and dropped when a return is read, so its own is the oldest; and a noted return is
its publisher's until that reads it or a loss drops it. No condition can
be left out: `confirm_unconfirmed` shows what a publish without a tag does to
confirms, and without `Traceable` a return finds the oldest mandatory tag,
whatever it is of.

`DialProofs`, for any configurations, rotations and attempts:

| Theorem | Hypothesis | Statement |
|---|---|---|
| `Invariant` | | `[]DialInv` |
| `OneSourceEach` | | `[]OneSource` |
| `Fresh` | | `[]SecretsAreFresh` |
| `ExternalShown` | no insecure profile with a certificate | `[]ExternalIsShown` |

What the slots are resolved to is a function of the configuration, the version each
file is read at and what the hook returned; lemmas say what it gives when it does not raise, and
`MaterialInv` carries that to the end of the attempt. The first form of
`SecretsAreFresh` could not be proved: it held the CA of a PKCS#12 file to be
fresh also where the bag has none and the CA is data of the configuration
(tls_material.py:206-212). TLC found that configuration once it was added to the
instance, and the property now says which slots it is about.

`NotifyProofs`, for any publishers, subscribers, names, methods and time to live:

| Theorem | Hypothesis | Statement |
|---|---|---|
| `Invariant` | | `[]NotifyInv` |
| `DroppedAlone` | | `[]MissedOnlyAlone` |
| `Callable` | `OwnKeys` | `[]AdvertisedIsBound` |

`NotifyInv` says that a publisher which has not had its exchange deleted has it
and an open channel, that `start()` has bound what it has left behind it, and that
an advertisement is, wherever it is, of a service whose keys are all bound.
`OwnKeys` says that no two services have a routing key in common;
`DistinctNames` shows that it is enough that no service is named below another.

`ReadingProofs` begins with the operators of `Framing`, without a behaviour. It
holds for any stream of octets and any `m` four octets can say as `frame_max`;
`FrameSet` is the frames with a known type, a channel of two octets and any
payload, and `Fits(f, m)` is the test of `encode_frame`.

| Theorem | Statement |
|---|---|
| `FrameIsRead` | a frame encoded, with anything behind it, decodes to itself and leaves what is behind |
| `CutFrameWaits` | no proper prefix of it decodes to a frame or an error |
| `SettledStays` | a frame read, or an error, stays that whatever arrives later |
| `OneEncoding` | what decodes to a frame is what `encode_frame` writes for it |
| `BufferBounded` | a stream that waits is shorter than `frame_max` |
| `BodyIsItsPieces` | the pieces of a body are as many as `frame_max` asks for, full but the last, and have each octet in its place |
| `PiecesFit` | every piece, the one of an empty body too, makes a frame that `encode_frame` writes |
| `ShortIsRead`, `LongIsRead` | strings are read back wherever they stand |

The argument is in three layers: integers of two and four octets,
where the recursion of `FromBytes` is unfolded (`UptoIs`, `FromFour`) and met by
division (`ToFour`); the predicate `Begins(s, f)`, which says octet by octet that
`s` starts with `f`; and the theorems, which relate `Begins` to either codec.

It goes on with the behaviour of `Reading`, for any codec, channels, `frame_max`,
sayings and bounds, under `ReadingAssumption` alone:

| Theorem | Statement |
|---|---|
| `ReadingInvariant` | `[]ReadingInv` |
| `TypeCorrect` | `[]TypeOK` |
| `WhatIsGotWasSaid` | `[]GotIsSaid` |
| `NothingIsKept` | `[]NothingStays` |

`ReadingAssumption` is what the protocol says of a broker: a channel's number has
two octets, a frame's size four; what it says decodes, fits a frame, and has a body
as long as its header tells, divided into frames none of which exceeds
`frame_max` or follows the last octet. `Wire` shows on its instance that the codec
of the library is such a codec, and runs the same `ReadLoop`. The invariant is

    ReadingInv == /\ Types /\ WroteOK /\ LineOK /\ StreamOK
                  /\ OrderOK /\ BufferOK /\ ReaderOK /\ GotOK

* `WroteOK`, `LineOK`, `OrderOK`: what is written of a channel are the parts of what
  was said on it, each the one that follows the last; the frames of the stream are
  those parts and heartbeats, and of each channel the ones not handled yet are,
  in order, those after the ones that are.
* `StreamOK`, `BufferOK`: the stream is the octets of these frames, one after the
  other, and the buffer is what was taken of it after the frames handled. This
  is where `FrameIsRead` and `CutFrameWaits` come in: the loop takes exactly the
  next frame off the buffer, or waits (`BufferHolds`, `WaitsIs`).
* `ReaderOK`, `GotOK`: the slot of a channel is what the parts of one content
  handled so far make of it, there is none between two contents, and what
  callers got are the sayings handled whole. `PartHandled` shows that each part
  takes `Before` to `After`.

None of the three properties is inductive without the history: which content a
slot belongs to, and which octets are still to come, is nowhere in the loop's own
state. TLC checked the parts of `ReadingInv` on the instance of `reading` before
they were proved.

Only model-checked: liveness, which is outside the prover's reach (`CallEnds`,
`ReconnectEnds`, `PublishEnds`, `ReadingEnds`, `ConsumerEnds`, `CloseEnds`, `RequestSettles`,
`PublishReturns`), and the properties of `Wire`: its tables nest to any
depth, `Codec` reads them with recursive operators, and what those compute for
every input is induction over data, which the prover cannot do. What is proved of
`Reading` is the part of `Wire`'s `NothingStays` that does not depend on the codec,
the handshake and the answers to calls. Every other
invariant and action property of the passing runs is a theorem. Only proved:
`LossFailsAll`, as no run has the fail-fast policy.

## 5. What is not modelled

| Part | Why |
|---|---|
| Servers on a shared connection (`from_mesh`) | planned: their close() leaves the consumer |
| connection.blocked inside `basic_publish`'s own await of confirm.select | the broker defers such a publish; `Session` has blocking at the points where the code tests it |
| channel.close in `Connection` | the code does not handle it; its effect on publishers and subscribers is in `Notify` |
| `acl.py`, `MeshRegistryPublisher` outside a `MeshService`, the validation of queue profiles, topic matching | patterns and settings handed to the broker: no state of the library's |
| JSON text, PEM and PKCS#12 parsing, JWT cryptography | libraries, abstracted to what they accept and refuse |
| Public API, examples, benchmarks, scripts, `specs/` | re-exports, programs that use the library, other specifications |

## 6. Plan

1. Done: `RpcCall`, `Session`, `Confirm`, `Connection`, `WorkQueue`, `Serving`, `Codec`,
   `Amqp`, `Wire`, `Dial`, `Handling`, `Notify`, `Framing`, `ReadLoop`, `Reading`, and the proofs about
   each but `Codec`, `Amqp` and `Wire`.
2. Servers that share a mesh connection, and the composition of `Serving` with a
   client that times out.
3. An end-to-end composition: an abstract connection that `Connection` implements
   and that `Session` uses.
