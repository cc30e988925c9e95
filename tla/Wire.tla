-------------------------------- MODULE Wire -------------------------------
(***************************************************************************)
(* AmqpConnection down to the octets: what its calls write, what a broker  *)
(* that knows only the AMQP grammar reads, and what the read loop makes of *)
(* the broker's frames when the stream hands them over in arbitrary pieces *)
(* and the frames of several channels alternate.                           *)
(*                                                                         *)
(* One task connects and makes the calls of Script; then one task for each *)
(* channel publishes, and a consumer settles what is delivered.  A publish *)
(* writes its frames without suspending.                                   *)
(***************************************************************************)
EXTENDS Amqp

CONSTANTS
  Channels,
  Script,              \* the calls made one after the other once open
  Programs,            \* Programs[c]: the messages published on channel c
  Consumer,            \* the channel whose consumer gets every routed message
  Bound,               \* the routing keys the broker has a queue for
  Tuned,               \* frame sizes the broker may offer, 0 for no limit
  FrameMax,            \* ConnectionConfig.frame_max
  ServerProperties,    \* the octets of the broker's table
  ServerMeans,         \* and what they mean by the AMQP grammar
  Window,              \* bound: the broker writes while less is in flight
  Cuts,                \* sizes read() may return short of all that arrived
  PLAIN, Response, EN_US, Slash,   \* texts of start-ok and open
  Noise                \* heartbeat, blocked and unblocked frames to come

ASSUME WireAssumption ==
  /\ Channels \subseteq Nat \ {0} /\ Consumer \in Channels
  /\ DOMAIN Programs = Channels
  /\ FrameMax \in Nat /\ Tuned \subseteq Nat
  /\ Window \in Nat \ {0}

VARIABLES
  state,         \* what connect() awaits, "header" before it begins, "open" after
  step,          \* calls of Script that returned
  awaiting,      \* the key of _expect's waiter, or <<>>
  reply,         \* the method its future holds, or <<>>
  frame_max,     \* AmqpConnection.frame_max
  left,          \* left[c]: what the publisher of c still publishes
  told,          \* told[c]: what the library's callers had it say on channel c
  reader,        \* the read loop: buffer, pending_content, _publish_blocked, lost
  got,           \* got[c]: what reached a caller on channel c
  inbox,         \* tags of _deliveries
  toBroker,      \* octets the broker has not read
  fromBroker,    \* octets the library has not read
  peer,          \* the broker: frame size, content[c] under way, whether it failed
  outbox,        \* outbox[c]: the broker's frames for channel c
  heard,         \* heard[c]: what the broker made of it
  said,          \* said[c]: what the broker said on channel c
  noise          \* the frames of Noise still to come

callerVars == <<state, step, awaiting, reply, frame_max>>
clientVars == <<callerVars, left, told, inbox>>
brokerVars == <<peer, outbox, heard, said, noise>>
vars == <<clientVars, reader, got, toBroker, fromBroker, brokerVars>>

R == INSTANCE ReadLoop

All == Channels \cup {0}
Said(id, args) == [id |-> id, args |-> args]

Init ==
  /\ state = "header" /\ step = 0 /\ awaiting = <<>> /\ reply = <<>>
  /\ frame_max = FrameMax
  /\ left = Programs
  /\ told = [c \in All |-> <<>>]
  /\ reader = [buffer |-> <<>>, pending |-> [c \in All |-> R!NoSlot],
               blocked |-> FALSE, lost |-> FALSE]
  /\ got = [c \in All |-> <<>>]
  /\ inbox = <<>>
  /\ toBroker = <<>> /\ fromBroker = <<>>
  /\ \E most \in Tuned :
       peer = [offers |-> most, most |-> FrameMax, failed |-> FALSE,
               content |-> [c \in All |-> <<>>], tag |-> 0, confirms |-> {}]
  /\ outbox = [c \in All |-> <<>>]
  /\ heard = [c \in All |-> <<>>]
  /\ said = [c \in All |-> <<>>]
  /\ noise = Noise

-----------------------------------------------------------------------------
(* The calls: the channel, the method with its arguments, and the reply    *)
(* awaited.                                                                *)

Call(c, id, args, ok) == [channel |-> c, m |-> Said(id, args), ok |-> ok]

open_channel(c) == Call(c, <<20, 10>>, [out_of_band |-> <<>>], <<20, 11>>)
confirm_select(c) == Call(c, <<85, 10>>, [nowait |-> FALSE], <<85, 11>>)
queue_declare(c, queue, durable, exclusive, auto_delete, arguments) ==
  Call(c, <<50, 10>>, [queue |-> queue, durable |-> durable, exclusive |-> exclusive,
                       auto_delete |-> auto_delete, arguments |-> arguments], <<50, 11>>)
exchange_declare(c, exchange, type, durable, auto_delete) ==
  Call(c, <<40, 10>>, [exchange |-> exchange, type |-> type, durable |-> durable,
                       auto_delete |-> auto_delete, arguments |-> <<>>], <<40, 11>>)
queue_bind(c, queue, exchange, routing_key) ==
  Call(c, <<50, 20>>, [queue |-> queue, exchange |-> exchange,
                       routing_key |-> routing_key, arguments |-> <<>>], <<50, 21>>)
basic_consume(c, queue, consumer_tag) ==
  Call(c, <<60, 20>>, [queue |-> queue, consumer_tag |-> consumer_tag, no_ack |-> FALSE,
                       exclusive |-> FALSE, arguments |-> <<>>], <<60, 21>>)
basic_cancel(c, consumer_tag) ==
  Call(c, <<60, 30>>, [consumer_tag |-> consumer_tag, nowait |-> FALSE], <<60, 31>>)
update_secret(secret, reason) ==
  Call(0, <<10, 70>>, [new_secret |-> secret, reason |-> reason], <<10, 71>>)

MethodFrame(c, m) == Frame(METHOD, c, encode_method(m))

\* The frames of basic_publish, the body in pieces.
PublishFrames(c, p) ==
  LET pieces == Fragments(p.body, max_frame_payload(frame_max))
  IN <<MethodFrame(c, Said(<<60, 40>>, p.args)),
       Frame(HEADER, c, encode_content_header(Len(p.body), p.props))>>
     \o [i \in DOMAIN pieces |-> Frame(BODY, c, pieces[i])]

\* _write_frame for each frame in turn, up to the first that raises.
Written(frames) ==
  LET octets == [i \in DOMAIN frames |-> encode_frame(frames[i], frame_max)]
  IN FlattenSeq(SelectSeq([i \in DOMAIN octets |->
       IF \E j \in 1..i : Raised(octets[j]) THEN <<>> ELSE octets[i]], LAMBDA o : o # <<>>))

Raises(frames) == \E i \in DOMAIN frames : Raised(encode_frame(frames[i], frame_max))

-----------------------------------------------------------------------------
(* The caller's task. *)

PROTOCOL_HEADER == <<65, 77, 81, 80, 0, 0, 9, 1>>

\* Send methods on a channel, and await the reply of the last one.
SendAll(c, ms, ok) ==
  /\ toBroker' = toBroker \o Written([i \in DOMAIN ms |-> MethodFrame(c, ms[i])])
  /\ told' = [told EXCEPT ![c] = @ \o [i \in DOMAIN ms |-> [m |-> ms[i]]]]
  /\ awaiting' = IF ok = <<>> THEN <<>> ELSE <<c, ok>>
  /\ reply' = <<>>

Connect ==
  /\ state = "header"
  /\ toBroker' = PROTOCOL_HEADER
  /\ state' = "start" /\ awaiting' = <<0, <<10, 10>>>>
  /\ UNCHANGED <<step, reply, frame_max, left, told, reader, got, inbox, fromBroker, brokerVars>>

\* _select_sasl: the broker offers PLAIN alone and there is no certificate (Dial
\* has the choice).  The product's name and version are left out.
StartOk ==
  /\ state = "start" /\ reply # <<>> /\ reply.args.mechanisms = PLAIN
  /\ state' = "tune"
  /\ SendAll(0, <<Said(<<10, 11>>, [client_properties |-> <<>>, mechanism |-> PLAIN,
                                    response |-> Response, locale |-> EN_US])>>, <<10, 30>>)
  /\ UNCHANGED <<step, frame_max, left, reader, got, inbox, fromBroker, brokerVars>>

Least(m, n) == IF m < n THEN m ELSE n

\* No limit from the broker is the configuration's own; the smaller one counts.
Negotiated(offered, own) == IF offered = 0 THEN own ELSE Least(offered, own)

TuneOk ==
  /\ state = "tune" /\ reply # <<>>
  /\ state' = "open"
  /\ frame_max' = Negotiated(reply.args.frame_max, FrameMax)
  /\ SendAll(0, <<Said(<<10, 31>>, [channel_max |-> IF reply.args.channel_max = 0 THEN 2047
                                                   ELSE reply.args.channel_max,
                                   frame_max |-> frame_max',
                                   heartbeat |-> Negotiated(reply.args.heartbeat, 60)]),
                  Said(<<10, 40>>, [virtual_host |-> Slash, capabilities |-> <<>>,
                                    insist |-> FALSE])>>, <<10, 41>>)
  /\ UNCHANGED <<step, left, reader, got, inbox, fromBroker, brokerVars>>

\* The open, or a call, returns and the task makes its next call.
Proceed ==
  /\ state \in {"open", "script"} /\ reply # <<>> /\ step < Len(Script)
  /\ state' = "script"
  /\ step' = step + 1
  /\ SendAll(Script[step + 1].channel, <<Script[step + 1].m>>, Script[step + 1].ok)
  /\ UNCHANGED <<frame_max, left, reader, got, inbox, fromBroker, brokerVars>>

Finish ==
  /\ state = "script" /\ reply # <<>> /\ step = Len(Script)
  /\ state' = "ready" /\ awaiting' = <<>> /\ reply' = <<>>
  /\ UNCHANGED <<step, frame_max, left, told, reader, got, inbox, toBroker, fromBroker,
                 brokerVars>>

-----------------------------------------------------------------------------
(* The publishers and the consumer. *)

\* On a channel in confirm mode the publisher awaits the confirm of its last.
Confirmed(c) ==
  LET confirmed == SelectSeq(got[c], LAMBDA e : e.id \in {<<60, 80>>, <<60, 120>>})
      published == SelectSeq(told[c], LAMBDA t : t.m.id = <<60, 40>>)
  IN (\E i \in DOMAIN Script : Script[i] = confirm_select(c))
       => Len(confirmed) = Len(published)

Publish(c) ==
  /\ state = "ready" /\ left[c] # <<>> /\ ~reader.blocked /\ ~reader.lost /\ Confirmed(c)
  /\ LET p == Head(left[c])
         frames == PublishFrames(c, p)
     IN /\ toBroker' = toBroker \o Written(frames)
        /\ told' = IF Raises(frames) THEN told
                   ELSE [told EXCEPT ![c] = Append(@, [m |-> Said(<<60, 40>>, p.args),
                                                        props |-> p.props, body |-> p.body])]
  /\ left' = [left EXCEPT ![c] = Tail(@)]
  /\ UNCHANGED <<callerVars, inbox, reader, got, fromBroker, brokerVars>>

\* basic_ack, basic_nack and basic_reject
Settlement(tag) ==
  CASE tag % 3 = 1 -> Said(<<60, 80>>, [delivery_tag |-> tag, multiple |-> FALSE])
    [] tag % 3 = 2 -> Said(<<60, 120>>, [delivery_tag |-> tag, multiple |-> FALSE,
                                        requeue |-> FALSE])
    [] OTHER -> Said(<<60, 90>>, [delivery_tag |-> tag, requeue |-> FALSE])

Settle ==
  /\ inbox # <<>>
  /\ LET m == Settlement(Head(inbox))
     IN /\ toBroker' = toBroker \o Written(<<MethodFrame(Consumer, m)>>)
        /\ told' = [told EXCEPT ![Consumer] = Append(@, [m |-> m])]
  /\ inbox' = Tail(inbox)
  /\ UNCHANGED <<callerVars, left, reader, got, fromBroker, brokerVars>>

-----------------------------------------------------------------------------
(* The read loop: ReadLoop over the codec of Codec. *)

\* Operators named "...Bug" are faulty variants of the operator that follows
\* them; the mutation runs put them in its place.
ReadFramesBug(r) == IF R!Waits(r, frame_max) THEN r ELSE R!ReadFrame(r, frame_max)

\* while True: every whole frame of the buffer, without suspending.
RECURSIVE ReadFrames(_)
ReadFrames(r) ==
  IF r.lost \/ R!Waits(r, frame_max) THEN r ELSE ReadFrames(R!ReadFrame(r, frame_max))

\* What the read loop leaves, and what it handed over; the consumer's
\* messages come on one channel.
Took(r) ==
  LET new == SubSeq(r.got[Consumer], Len(got[Consumer]) + 1, Len(r.got[Consumer]))
      delivered == SelectSeq(new, LAMBDA e : e.id = <<60, 60>>)
  IN /\ reader' = [buffer |-> r.buffer, pending |-> r.pending,
                   blocked |-> r.blocked, lost |-> r.lost]
     /\ got' = r.got
     /\ inbox' = inbox \o [i \in DOMAIN delivered |-> delivered[i].args.delivery_tag]
     /\ reply' = r.reply

\* The stream hands over what has arrived of it, cut anywhere.
Receive ==
  /\ fromBroker # <<>> /\ ~reader.lost
  /\ \E n \in {k \in Cuts : k < Len(fromBroker)} \cup {Len(fromBroker)} :
       /\ Took(ReadFrames([buffer |-> reader.buffer \o SubSeq(fromBroker, 1, n),
                           pending |-> reader.pending, blocked |-> reader.blocked,
                           lost |-> FALSE, got |-> got, awaiting |-> awaiting,
                           reply |-> reply]))
       /\ fromBroker' = SubSeq(fromBroker, n + 1, Len(fromBroker))
  /\ UNCHANGED <<state, step, awaiting, frame_max, left, told, toBroker, brokerVars>>

-----------------------------------------------------------------------------
(* The broker (external). *)

\* Its answer to a method, or none.
Answer(m) ==
  CASE m.id = <<10, 11>> -> <<Said(<<10, 30>>, [channel_max |-> 0, frame_max |-> peer.offers,
                                               heartbeat |-> 60])>>
    [] m.id = <<10, 40>> -> <<Said(<<10, 41>>, [reserved_1 |-> <<>>])>>
    [] m.id = <<20, 10>> -> <<Said(<<20, 11>>, [channel_id |-> <<>>])>>
    [] m.id = <<50, 10>> -> <<Said(<<50, 11>>, [queue |-> m.args.queue, message_count |-> 300,
                                               consumer_count |-> 1])>>
    [] m.id \in {<<60, 20>>, <<60, 30>>} ->
         <<Said(<<60, m.id[2] + 1>>, [consumer_tag |-> m.args.consumer_tag])>>
    [] m.id \in {<<40, 10>>, <<50, 20>>, <<85, 10>>, <<10, 70>>} ->
         <<Said(<<m.id[1], m.id[2] + 1>>, << >>)>>
    [] OTHER -> <<>>

Queue(ch, events, frames) ==
  /\ said' = [said EXCEPT ![ch] = @ \o events]
  /\ outbox' = [outbox EXCEPT ![ch] = @ \o frames]

Methods(c, ms) == [i \in DOMAIN ms |-> SayFrame(METHOD, c, SayMethod(ms[i]))]

\* What the library makes of a broker's table: a timestamp is its seconds, and the
\* two short integers are read with each other's sign (decode_field_value).
AsPython(table) ==
  LET value(v) == CASE v[1] = "datetime" -> <<"int", v[2]>>
                    [] v[1] = "short-int" -> <<"int", v[2] % 65536>>
                    [] v[1] = "short-uint" /\ v[2] > 32767 -> <<"int", v[2] - 65536>>
                    [] v[1] = "short-uint" -> <<"int", v[2]>>
                    [] OTHER -> v
  IN [i \in DOMAIN table |-> <<table[i][1], value(table[i][2])>>]

WithHeaders(props) ==
  IF "headers" \in DOMAIN props THEN [props EXCEPT !.headers = AsPython(@)] ELSE props

Without(f, name) == [x \in DOMAIN f \ {name} |-> f[x]]

\* A whole message: to the consumer, back to its publisher, or dropped; and
\* the confirm of a channel in confirm mode.
Route(c, args, header, body) ==
  LET props == HearHeader(header).props
      routed == args.routing_key \in Bound
      returned == ~routed /\ args.mandatory
      to == IF routed THEN Consumer ELSE c
      tag == peer.tag + 1
      m == IF routed
           THEN Said(<<60, 60>>, [consumer_tag |-> <<99>>, delivery_tag |-> tag,
                                  redelivered |-> tag = 2, exchange |-> args.exchange,
                                  routing_key |-> args.routing_key])
           ELSE Said(<<60, 50>>, [reply_code |-> 312, reply_text |-> <<110, 111>>,
                                  exchange |-> args.exchange, routing_key |-> args.routing_key])
      event == [id |-> m.id, args |-> m.args, props |-> WithHeaders(Without(props, "rest")),
                body |-> body]
      pieces == Pieces(body, peer.most - 8)
      frames == Methods(to, <<m>>) \o <<SayFrame(HEADER, to, header)>>
                \o [i \in DOMAIN pieces |-> SayFrame(BODY, to, pieces[i])]
      published == SelectSeq(heard[c], LAMBDA h : h.id = <<60, 40>>)
      confirm == IF c \notin peer.confirms THEN <<>>
                 ELSE <<Said(<<60, 80>>, [delivery_tag |-> Len(published) + 1,
                                         multiple |-> FALSE])>>
      contents == IF routed \/ returned THEN frames ELSE <<>>
      events == IF routed \/ returned THEN <<event>> ELSE <<>>
  IN /\ heard' = [heard EXCEPT ![c] = Append(@, [id |-> <<60, 40>>, args |-> args,
                                                 props |-> props, body |-> body])]
     /\ peer' = [peer EXCEPT !.content[c] = <<>>, !.tag = IF routed THEN tag ELSE @]
     /\ said' = [x \in All |-> said[x] \o (IF x = to THEN events ELSE <<>>)
                                    \o (IF x = c THEN confirm ELSE <<>>)]
     /\ outbox' = [x \in All |-> outbox[x] \o (IF x = to THEN contents ELSE <<>>)
                                          \o (IF x = c THEN Methods(c, confirm) ELSE <<>>)]

\* The octets are no frame of this size, or a frame that may not come now.
Refuse == peer' = [peer EXCEPT !.failed = TRUE] /\ UNCHANGED <<heard, said, outbox>>

HearContent(c, type, payload) ==
  LET content == peer.content[c]
      size == HearHeader(content[2]).size
      body == content[3] \o payload
  IN CASE type = HEADER /\ Len(content) = 1 /\ HearHeader(payload).size = 0 ->
            Route(c, content[1], payload, <<>>)
       [] type = HEADER /\ Len(content) = 1 /\ HearHeader(payload).size > 0 ->
            /\ peer' = [peer EXCEPT !.content[c] = <<content[1], payload, <<>>>>]
            /\ UNCHANGED <<heard, said, outbox>>
       [] type = BODY /\ Len(content) = 3 /\ Len(body) < size ->
            /\ peer' = [peer EXCEPT !.content[c][3] = body]
            /\ UNCHANGED <<heard, said, outbox>>
       [] type = BODY /\ Len(content) = 3 /\ Len(body) = size ->
            Route(c, content[1], content[2], body)
       [] OTHER -> Refuse

HearCall(c, m) ==
  IF m.id = <<60, 40>>
  THEN /\ peer' = [peer EXCEPT !.content[c] = <<m.args>>]
       /\ UNCHANGED <<heard, said, outbox>>
  ELSE /\ heard' = [heard EXCEPT ![c] = Append(@, [id |-> m.id, args |-> m.args])]
       /\ Queue(c, Answer(m), Methods(c, Answer(m)))
       /\ peer' = [peer EXCEPT
            !.most = IF m.id = <<10, 31>> THEN m.args.frame_max ELSE @,
            !.confirms = IF m.id = <<85, 10>> THEN @ \cup {c} ELSE @]

BrokerReads ==
  /\ toBroker # <<>> /\ ~peer.failed
  /\ LET start == Said(<<10, 10>>, [version_major |-> 0, version_minor |-> 9,
                                    server_properties |-> ServerProperties,
                                    mechanisms |-> PLAIN, locales |-> EN_US])
         size == FromBytes(Slice(toBroker, 4, 7))
         whole == Len(toBroker) >= size + 8
         c == FromBytes(Slice(toBroker, 2, 3))
         payload == Slice(toBroker, 8, size + 7)
     IN IF state = "start" /\ toBroker = PROTOCOL_HEADER
        THEN /\ toBroker' = <<>>
             /\ Queue(0, <<[start EXCEPT !.args.server_properties = AsPython(ServerMeans)]>>,
                      Methods(0, <<start>>))
             /\ UNCHANGED <<peer, heard>>
        ELSE IF ~whole \/ size > peer.most - 8 \/ toBroker[size + 8] # 206 \/ c \notin All
        THEN Refuse /\ UNCHANGED toBroker
        ELSE /\ toBroker' = SubSeq(toBroker, size + 9, Len(toBroker))
             /\ IF toBroker[1] = METHOD /\ peer.content[c] = <<>>
                THEN HearCall(c, HearMethod(payload))
                ELSE HearContent(c, toBroker[1], payload)
  /\ UNCHANGED <<clientVars, reader, got, fromBroker, noise>>

Transmit(c) ==
  /\ outbox[c] # <<>> /\ Len(fromBroker) < Window
  /\ fromBroker' = fromBroker \o Head(outbox[c])
  /\ outbox' = [outbox EXCEPT ![c] = Tail(@)]
  /\ UNCHANGED <<clientVars, reader, got, toBroker, peer, heard, said, noise>>

\* Heartbeats, connection.blocked and connection.unblocked, between any frames.
MakeNoise ==
  /\ state = "ready" /\ noise # <<>> /\ Len(fromBroker) < Window
  /\ noise' = Tail(noise)
  /\ IF Head(noise) = "heartbeat"
     THEN /\ fromBroker' = fromBroker \o SayFrame(HEARTBEAT, 0, <<>>)
          /\ UNCHANGED said
     ELSE LET m == IF Head(noise) = "blocked"
                   THEN Said(<<10, 60>>, [reason |-> <<109>>]) ELSE Said(<<10, 61>>, << >>)
          IN /\ fromBroker' = fromBroker \o SayFrame(METHOD, 0, SayMethod(m))
             /\ said' = [said EXCEPT ![0] = Append(@, m)]
  /\ UNCHANGED <<clientVars, reader, got, toBroker, peer, outbox, heard>>

-----------------------------------------------------------------------------

Client == Connect \/ StartOk \/ TuneOk \/ Proceed \/ Finish \/ Settle
Next ==
  \/ Client \/ Receive \/ BrokerReads \/ MakeNoise
  \/ \E c \in Channels : Publish(c)
  \/ \E c \in All : Transmit(c)

Spec == Init /\ [][Next]_vars

-----------------------------------------------------------------------------
(* Properties. *)

\* What the library writes is what its caller said: the broker reads every
\* octet as a frame of the negotiated size, in place, with the arguments, the
\* properties and the body given to the call, in the order of the calls, and
\* nothing else set (encode_method, encode_content_header, basic_publish).
Means(h, t) ==
  LET given == DOMAIN t.m.args
      default(a) == CASE a = "rest" -> <<>> [] a = "ticket" -> 0 [] OTHER -> FALSE
  IN /\ h.id = t.m.id
     /\ given \subseteq DOMAIN h.args
     /\ \A a \in given : h.args[a] = t.m.args[a]
     /\ \A a \in DOMAIN h.args \ given : h.args[a] = default(a)
     /\ h.id = <<60, 40>> => h.props = ("rest" :> <<>>) @@ t.props /\ h.body = t.body

BrokerUnderstands ==
  /\ ~peer.failed
  /\ \A c \in All : /\ Len(heard[c]) <= Len(told[c])
                    /\ \A i \in DOMAIN heard[c] : Means(heard[c][i], told[c][i])

\* The read loop never gives up, and nothing stays behind: when no octet is
\* under way, every call has its reply, all that was said was heard, once, in
\* order and whole (but for what AsPython says of tables), and neither side
\* keeps part of a frame or of a content (_read_loop, decode_method,
\* decode_content_header).
InFlight ==
  \/ toBroker # <<>> \/ fromBroker # <<>>
  \/ \E c \in All : outbox[c] # <<>>

NothingStays ==
  /\ ~reader.lost
  /\ ~InFlight => /\ awaiting # <<>> => reply # <<>>
                  /\ \A c \in All : Len(heard[c]) = Len(told[c])
                  /\ got = said
                  /\ reader.buffer = <<>>
                  /\ \A c \in All : reader.pending[c] = R!NoSlot /\ peer.content[c] = <<>>
=============================================================================
