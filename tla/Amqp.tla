-------------------------------- MODULE Amqp -------------------------------
(***************************************************************************)
(* The broker's side of the wire, from the AMQP 0-9-1 grammar and not from *)
(* the library: what octets mean, and how a broker writes what it says.    *)
(* Everything here is external to the repository.  A table the broker says *)
(* is given by its octets, of one it hears it reads the values.            *)
(* A decimal is signed, as the text of the definition has it; its grammar  *)
(* says unsigned, and the instances use values that read alike.            *)
(***************************************************************************)
EXTENDS Codec

\* The domain and the name of each argument; bits that share an octet, lowest first.
Grammar ==
  LET reserved == <<"short", "ticket">>
      queue == <<"shortstr", "queue">>
      exchange == <<"shortstr", "exchange">>
      key == <<"shortstr", "routing_key">>
      consumer == <<"shortstr", "consumer_tag">>
      delivery == <<"longlong", "delivery_tag">>
      code == <<"short", "reply_code">>
      text == <<"shortstr", "reply_text">>
      arguments == <<"table", "arguments">>
      tuning == <<<<"short", "channel_max">>, <<"long", "frame_max">>, <<"short", "heartbeat">>>>
      bits(names) == <<"bits", names>>
  IN <<10, 10>> :> <<<<"octet", "version_major">>, <<"octet", "version_minor">>,
                     <<"table", "server_properties">>, <<"longstr", "mechanisms">>,
                     <<"longstr", "locales">>>>
     @@ <<10, 11>> :> <<<<"table", "client_properties">>, <<"shortstr", "mechanism">>,
                        <<"longstr", "response">>, <<"shortstr", "locale">>>>
     @@ <<10, 30>> :> tuning @@ <<10, 31>> :> tuning
     @@ <<10, 40>> :> <<<<"shortstr", "virtual_host">>, <<"shortstr", "capabilities">>,
                        bits(<<"insist">>)>>
     @@ <<10, 41>> :> <<<<"shortstr", "reserved_1">>>>
     @@ <<10, 60>> :> <<<<"shortstr", "reason">>>> @@ <<10, 61>> :> <<>>
     @@ <<10, 70>> :> <<<<"longstr", "new_secret">>, <<"shortstr", "reason">>>>
     @@ <<10, 71>> :> <<>>
     @@ <<20, 10>> :> <<<<"shortstr", "out_of_band">>>>
     @@ <<20, 11>> :> <<<<"longstr", "channel_id">>>>
     @@ <<40, 10>> :> <<reserved, exchange, <<"shortstr", "type">>,
                        bits(<<"passive", "durable", "auto_delete", "internal", "nowait">>),
                        arguments>>
     @@ <<40, 11>> :> <<>>
     @@ <<50, 10>> :> <<reserved, queue,
                        bits(<<"passive", "durable", "exclusive", "auto_delete", "nowait">>),
                        arguments>>
     @@ <<50, 11>> :> <<queue, <<"long", "message_count">>, <<"long", "consumer_count">>>>
     @@ <<50, 20>> :> <<reserved, queue, exchange, key, bits(<<"nowait">>), arguments>>
     @@ <<50, 21>> :> <<>>
     @@ <<60, 20>> :> <<reserved, queue, consumer,
                        bits(<<"no_local", "no_ack", "exclusive", "nowait">>), arguments>>
     @@ <<60, 21>> :> <<consumer>>
     @@ <<60, 30>> :> <<consumer, bits(<<"nowait">>)>> @@ <<60, 31>> :> <<consumer>>
     @@ <<60, 40>> :> <<reserved, exchange, key, bits(<<"mandatory", "immediate">>)>>
     @@ <<60, 50>> :> <<code, text, exchange, key>>
     @@ <<60, 60>> :> <<consumer, delivery, bits(<<"redelivered">>), exchange, key>>
     @@ <<60, 80>> :> <<delivery, bits(<<"multiple">>)>>
     @@ <<60, 90>> :> <<delivery, bits(<<"requeue">>)>>
     @@ <<60, 120>> :> <<delivery, bits(<<"multiple", "requeue">>)>>
     @@ <<85, 10>> :> <<bits(<<"nowait">>)>> @@ <<85, 11>> :> <<>>

\* The basic class's properties, in the order of their flags.
BasicGrammar ==
  <<<<"shortstr", "content_type">>, <<"shortstr", "content_encoding">>, <<"table", "headers">>,
    <<"octet", "delivery_mode">>, <<"octet", "priority">>, <<"shortstr", "correlation_id">>,
    <<"shortstr", "reply_to">>, <<"shortstr", "expiration">>, <<"shortstr", "message_id">>,
    <<"longlong", "timestamp">>, <<"shortstr", "type">>, <<"shortstr", "user_id">>,
    <<"shortstr", "app_id">>, <<"shortstr", "cluster_id">>>>

-----------------------------------------------------------------------------
(* Hearing: malformed octets are cut short or left, and mean something else. *)

RECURSIVE Field(_, _), Entries(_), Elements(_)

Field(s, at) ==
  LET number(w) == FromSigned(Slice(s, at + 1, at + w))
      size == FromBytes(Slice(s, at + 1, at + 4))
      chunk == Slice(s, at + 5, at + 4 + size)
  IN CASE s[at] = 86 -> Ok(<<"none", 0>>, at + 1)
       [] s[at] = 116 -> Ok(<<"bool", s[at + 1] = 1>>, at + 2)
       [] s[at] = 73 -> Ok(<<"int", number(4)>>, at + 5)
       [] s[at] = 76 -> Ok(<<"int", number(8)>>, at + 9)
       [] s[at] = 84 -> Ok(<<"datetime", number(8)>>, at + 9)
       [] s[at] = 100 -> Ok(<<"float", Slice(s, at + 1, at + 8)>>, at + 9)
       [] s[at] = 68 -> Ok(<<"decimal", [scale |-> s[at + 1],
                              value |-> FromSigned(Slice(s, at + 2, at + 5))]>>, at + 6)
       [] s[at] = 83 -> Ok(<<"str", chunk>>, at + 5 + size)
       [] s[at] = 120 -> Ok(<<"bytes", chunk>>, at + 5 + size)
       [] s[at] = 70 -> Ok(<<"dict", Entries(chunk)>>, at + 5 + size)
       [] s[at] = 65 -> Ok(<<"list", Elements(chunk)>>, at + 5 + size)
       [] OTHER -> Ok(<<"unknown", s[at]>>, Len(s) + 1)

Entries(s) ==
  IF s = <<>> \/ Len(s) < s[1] + 2 THEN <<>>
  ELSE LET r == Field(s, s[1] + 2)
       IN <<<<Slice(s, 2, s[1] + 1), r.v>>>> \o Entries(Slice(s, r.at, Len(s)))

Elements(s) ==
  IF s = <<>> THEN <<>>
  ELSE LET r == Field(s, 1) IN <<r.v>> \o Elements(Slice(s, r.at, Len(s)))

Size(domain) == CASE domain = "octet" -> 1 [] domain = "short" -> 2
                  [] domain = "long" -> 4 [] domain = "longlong" -> 8

\* The value of a domain at a position, and the position after it.
Hear(domain, s, at) ==
  CASE domain = "shortstr" -> IF at > Len(s) THEN Ok(<<>>, at)
                              ELSE Ok(Slice(s, at + 1, at + s[at]), at + 1 + s[at])
    [] domain \in {"longstr", "table"} ->
         LET end == at + 4 + FromBytes(Slice(s, at, at + 3))
             chunk == Slice(s, at + 4, end - 1)
         IN Ok(IF domain = "table" THEN Entries(chunk) ELSE chunk, end)
    [] OTHER -> Ok(FromBytes(Slice(s, at, at + Size(domain) - 1)), at + Size(domain))

\* The arguments of a layout, and "rest": the octets after the last one.
HearBits(names, octet) ==
  [n \in ToSet(names) |-> \E i \in DOMAIN names :
                            names[i] = n /\ (octet \div 2^(i - 1)) % 2 = 1]
Joined(args, name, r) == Ok((name :> r.v) @@ args, r.at)
Rest(s, r) == ("rest" :> Slice(s, r.at, Len(s))) @@ r.v

HearArgs(layout, s, at) ==
  Rest(s, FoldLeft(LAMBDA r, p :
            IF p[1] = "bits"
            THEN Ok(HearBits(p[2], IF r.at > Len(s) THEN 0 ELSE s[r.at]) @@ r.v, r.at + 1)
            ELSE Joined(r.v, p[2], Hear(p[1], s, r.at)),
          Ok(<< >>, at), layout))

HearMethod(s) ==
  LET id == <<FromBytes(Slice(s, 1, 2)), FromBytes(Slice(s, 3, 4))>>
  IN [id |-> id, args |-> IF id \in DOMAIN Grammar THEN HearArgs(Grammar[id], s, 5)
                          ELSE [rest |-> s]]

HearHeader(s) ==
  LET flags == FromBytes(Slice(s, 13, 14))
      present == SelectSeq(BasicGrammar, LAMBDA p : \E i \in DOMAIN BasicGrammar :
                             BasicGrammar[i] = p /\ (flags \div 2^(16 - i)) % 2 = 1)
  IN [size |-> FromBytes(Slice(s, 5, 12)), props |-> HearArgs(present, s, 15)]

-----------------------------------------------------------------------------
(* Saying. *)

Say(domain, x) ==
  CASE domain = "shortstr" -> <<Len(x)>> \o x
    [] domain \in {"longstr", "table"} -> ToBytes(Len(x), 4) \o x
    [] OTHER -> ToBytes(x, Size(domain))

\* A method's payload, its bits packed into octets.
SayArgs(layout, args) ==
  LET packed(names) == FoldLeft(LAMBDA n, i : n + (IF args[names[i]] THEN 2^(i - 1) ELSE 0),
                                0, [i \in DOMAIN names |-> i])
  IN FlattenSeq([i \in DOMAIN layout |->
       IF layout[i][1] = "bits" THEN <<packed(layout[i][2])>>
       ELSE Say(layout[i][1], args[layout[i][2]])])

SayMethod(m) == ToBytes(m.id[1], 2) \o ToBytes(m.id[2], 2) \o SayArgs(Grammar[m.id], m.args)

SayFrame(type, channel, payload) ==
  <<type>> \o ToBytes(channel, 2) \o ToBytes(Len(payload), 4) \o payload \o <<206>>

\* A message's frames after its method: the header octets as the publisher
\* wrote them, and the body in pieces that fit the frame size.
RECURSIVE Pieces(_, _)
Pieces(body, most) ==
  IF body = <<>> THEN <<>>
  ELSE <<Slice(body, 1, most)>> \o Pieces(Slice(body, most + 1, Len(body)), most)
=============================================================================
