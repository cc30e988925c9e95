------------------------------- MODULE Codec -------------------------------
(***************************************************************************)
(* Field tables, methods and content headers of transport/frame.py and     *)
(* protocol/methods.py, octet for octet.  A Python value is                *)
(* <<kind, payload>>; a table is the sequence of its <<key, value>> pairs. *)
(***************************************************************************)
EXTENDS Framing, SequencesExt, TLC

CONSTANTS
  MaxDepth,            \* DEFAULT_MAX_TABLE_DEPTH
  MaxInt               \* 0x7FFFFFFF: above it an int is sent in 8 octets

ASSUME CodecAssumption == MaxDepth \in Nat /\ MaxInt \in Nat

-----------------------------------------------------------------------------
(* Field tables. *)

RECURSIVE encode_field_value(_, _), encode_table(_, _)

encode_field_value(value, depth) ==
  LET kind == value[1]
      x == value[2]
  IN IF depth > MaxDepth THEN Raise ELSE
     CASE kind = "none" -> <<86>>
       [] kind = "bool" -> <<116, IF x THEN 1 ELSE 0>>
       [] kind = "int" -> IF x \in (-MaxInt - 1)..MaxInt
                          THEN <<73>> \o SignedBytes(x, 4)
                          ELSE <<76>> \o SignedBytes(x, 8)
       [] kind = "float" -> <<100>> \o x
       [] kind = "str" -> <<83>> \o encode_longstr(x)
       [] kind = "bytes" -> <<120>> \o encode_longstr(x)
       [] kind = "dict" -> <<70>> \o encode_table(x, depth + 1)
       [] kind = "decimal" ->       \* a Decimal, or the pair one decodes to
            IF x.value \in (-MaxInt - 1)..MaxInt
            THEN <<68, x.scale % 256>> \o SignedBytes(x.value, 4) ELSE Raise
       [] kind = "list" ->
            LET parts == FlattenSeq([i \in DOMAIN x |-> encode_field_value(x[i], depth + 1)])
            IN IF Len(parts) > Ceiling THEN Raise ELSE <<65>> \o encode_longstr(parts)
       [] kind = "datetime" -> <<84>> \o ToBytes(x, 8)
       [] OTHER -> Raise            \* unsupported field type

encode_table(table, depth) ==
  IF depth > MaxDepth THEN Raise
  ELSE encode_longstr(FlattenSeq([i \in DOMAIN table |->
         encode_shortstr(table[i][1]) \o encode_field_value(table[i][2], depth)]))

\* The tags whose value has a fixed width, and what becomes of its octets.
\* 85 ('U') and 117 ('u') are as the library reads them; AMQP 0-9-1 has the
\* signed short at 'U' and the unsigned one at 'u' (Wire's AsPython).
Fixed(tag) ==
  CASE tag = 116 -> [w |-> 1, as |-> "bool"]
    [] tag = 98 -> [w |-> 1, as |-> "signed"]
    [] tag = 66 -> [w |-> 1, as |-> "unsigned"]
    [] tag = 85 -> [w |-> 2, as |-> "unsigned"]
    [] tag = 117 -> [w |-> 2, as |-> "signed"]
    [] tag = 105 -> [w |-> 4, as |-> "unsigned"]
    [] tag = 73 -> [w |-> 4, as |-> "signed"]
    [] tag \in {108, 84} -> [w |-> 8, as |-> "unsigned"]
    [] tag = 76 -> [w |-> 8, as |-> "signed"]
    [] tag = 102 -> [w |-> 4, as |-> "float"]
    [] tag = 100 -> [w |-> 8, as |-> "float"]
    [] tag = 68 -> [w |-> 5, as |-> "decimal"]
    [] OTHER -> [w |-> 0, as |-> "varying"]

Value(as, s) ==
  CASE as = "bool" -> <<"bool", s[1] # 0>>
    [] as = "signed" -> <<"int", FromSigned(s)>>
    [] as = "unsigned" -> <<"int", FromBytes(s)>>
    [] as = "float" -> <<"float", s>>
    [] as = "decimal" -> <<"decimal", [scale |-> s[1], value |-> FromSigned(Tail(s))]>>

Tagged(kind, r) == IF Fails(r) THEN Bad ELSE Ok(<<kind, r.v>>, r.at)

RECURSIVE decode_field_value(_, _, _), decode_table(_, _, _),
          Items(_, _, _, _), Pairs(_, _, _, _)

FixedValue(f, s, at) ==
  IF at + f.w > Len(s) THEN Bad
  ELSE Ok(Value(f.as, SubSeq(s, at + 1, at + f.w)), at + f.w + 1)

decode_field_value(s, at, depth) ==
  IF depth > MaxDepth \/ at > Len(s) THEN Bad
  ELSE
    LET tag == s[at]
    IN CASE Fixed(tag).w > 0 -> FixedValue(Fixed(tag), s, at)
         [] tag = 86 -> Ok(<<"none", 0>>, at + 1)
         [] tag = 115 -> Tagged("str", decode_shortstr(s, at + 1))
         [] tag = 83 -> Tagged("str", decode_longstr(s, at + 1))
         [] tag = 120 -> Tagged("bytes", decode_longstr(s, at + 1))
         [] tag = 70 -> Tagged("dict", decode_table(s, at + 1, depth + 1))
         [] tag = 65 -> Tagged("list", Items(s, Ok(<<>>, at + 5), decode_longstr(s, at + 1).at,
                                             depth + 1))
         [] OTHER -> Bad

\* while pos < end, the position where the array or the table ends (0 when it
\* is cut short): what is read so far and the position of the next, from the
\* whole payload.
ItemAfter(items, item) == IF Fails(item) THEN Bad ELSE Ok(Append(items, item.v), item.at)

Items(s, read, end, depth) ==
  IF end = 0 \/ Fails(read) THEN Bad
  ELSE IF read.at >= end THEN Ok(read.v, end)
  ELSE Items(s, ItemAfter(read.v, decode_field_value(s, read.at, depth)), end, depth)

decode_table(s, at, depth) ==
  IF depth > MaxDepth THEN Bad
  ELSE Pairs(s, Ok(<<>>, at + 4), decode_longstr(s, at).at, depth + 1)

\* result[key] = value: a repeated key keeps its place and takes the new value.
Put(table, key, value) ==
  IF \E i \in DOMAIN table : table[i][1] = key
  THEN [i \in DOMAIN table |-> IF table[i][1] = key THEN <<key, value>> ELSE table[i]]
  ELSE Append(table, <<key, value>>)

PairAfter(result, key, value) ==
  IF Fails(key) \/ Fails(value) THEN Bad ELSE Ok(Put(result, key.v, value.v), value.at)

Pairs(s, read, end, depth) ==
  IF end = 0 \/ Fails(read) THEN Bad
  ELSE IF read.at >= end THEN Ok(read.v, end)
  ELSE LET key == decode_shortstr(s, read.at)
       IN Pairs(s, PairAfter(read.v, key, decode_field_value(s, key.at, depth)), end, depth)

-----------------------------------------------------------------------------
(* Methods.  A layout is the sequence of a method's arguments: its kind,   *)
(* its name and, for the encoder, what args.get defaults to (where every   *)
(* caller gives the argument, zero or empty stands for the default).       *)

Short(a) == <<"short", a, 0>>
Str(a) == <<"shortstr", a, <<>>>>
Table(a) == <<"table", a, <<>>>>
Bits(names) == <<"bits", names, FALSE>>
CloseLayout == <<Short("reply_code"), Str("reply_text"), Short("class_id"), Short("method_id")>>
Ticket == Short("ticket")
Tag == <<"longlong", "delivery_tag", 0>>

\* encode_method
ClientMethods ==
  <<10, 11>> :> <<Table("client_properties"), Str("mechanism"), <<"longstr", "response", <<>>>>,
                  Str("locale")>>
  @@ <<10, 31>> :> <<Short("channel_max"), <<"long", "frame_max", 0>>, Short("heartbeat")>>
  @@ <<10, 40>> :> <<Str("virtual_host"), Str("capabilities"), Bits(<<"insist">>)>>
  @@ <<10, 50>> :> CloseLayout
  @@ <<10, 51>> :> <<>>
  @@ <<10, 70>> :> <<<<"longstr", "new_secret", <<>>>>, Str("reason")>>
  @@ <<20, 10>> :> <<Str("out_of_band")>>
  @@ <<20, 11>> :> <<<<"longstr", "channel_id", <<>>>>>>
  @@ <<20, 40>> :> CloseLayout
  @@ <<20, 41>> :> <<>>
  @@ <<40, 10>> :> <<Ticket, Str("exchange"), Str("type"),
                     Bits(<<"passive", "durable", "auto_delete", "internal", "nowait">>),
                     Table("arguments")>>
  @@ <<50, 10>> :> <<Ticket, Str("queue"),
                     Bits(<<"passive", "durable", "exclusive", "auto_delete", "nowait">>),
                     Table("arguments")>>
  @@ <<50, 20>> :> <<Ticket, Str("queue"), Str("exchange"), Str("routing_key"),
                     Bits(<<"nowait">>), Table("arguments")>>
  @@ <<60, 10>> :> <<<<"long", "prefetch_size", 0>>, Short("prefetch_count"), Bits(<<"global_">>)>>
  @@ <<60, 20>> :> <<Ticket, Str("queue"), Str("consumer_tag"),
                     Bits(<<"no_local", "no_ack", "exclusive", "nowait">>), Table("arguments")>>
  @@ <<60, 30>> :> <<Str("consumer_tag"), Bits(<<"nowait">>)>>
  @@ <<60, 40>> :> <<Ticket, Str("exchange"), Str("routing_key"),
                     Bits(<<"mandatory", "immediate">>)>>
  @@ <<60, 50>> :> <<Short("reply_code"), Str("reply_text"), Str("exchange"), Str("routing_key")>>
  @@ <<60, 80>> :> <<Tag, Bits(<<"multiple">>)>>
  @@ <<60, 90>> :> <<Tag, Bits(<<"requeue">>)>>
  @@ <<60, 120>> :> <<Tag, Bits(<<"multiple", "requeue">>)>>
  @@ <<85, 10>> :> <<Bits(<<"nowait">>)>>

Arg(args, name, default) == IF name \in DOMAIN args THEN args[name] ELSE default

EncodeArg(kind, x) ==
  CASE kind = "octet" -> ToBytes(x, 1)
    [] kind = "short" -> ToBytes(x, 2)
    [] kind = "long" -> ToBytes(x, 4)
    [] kind = "longlong" -> ToBytes(x, 8)
    [] kind = "shortstr" -> encode_shortstr(x)
    [] kind = "longstr" -> encode_longstr(x)
    [] kind = "table" -> encode_table(x, 0)

\* bits |= 2^(i-1) for each argument that is set
BitsOf(names, args) ==
  FoldLeft(LAMBDA bits, i : bits + (IF Arg(args, names[i], FALSE) THEN 2^(i - 1) ELSE 0),
           0, [i \in DOMAIN names |-> i])

EncodeArgs(layout, args) ==
  FlattenSeq([i \in DOMAIN layout |->
    IF layout[i][1] = "bits" THEN <<BitsOf(layout[i][2], args)>>
    ELSE EncodeArg(layout[i][1], Arg(args, layout[i][2], layout[i][3]))])

encode_method(m) ==
  IF m.id \notin DOMAIN ClientMethods THEN Raise
  ELSE ToBytes(m.id[1], 2) \o ToBytes(m.id[2], 2) \o EncodeArgs(ClientMethods[m.id], m.args)

\* decode_method
ServerMethods ==
  <<10, 10>> :> <<<<"octet", "version_major">>, <<"octet", "version_minor">>,
                  Table("server_properties"), <<"longstr", "mechanisms">>, <<"longstr", "locales">>>>
  @@ <<10, 20>> :> <<<<"longstr", "challenge">>>>
  @@ <<10, 30>> :> <<Short("channel_max"), <<"long", "frame_max">>, Short("heartbeat")>>
  @@ <<10, 41>> :> <<Str("reserved_1")>>
  @@ <<10, 50>> :> CloseLayout
  @@ <<10, 51>> :> <<>>
  @@ <<10, 60>> :> <<Str("reason")>>
  @@ <<10, 61>> :> <<>>
  @@ <<10, 71>> :> <<>>
  @@ <<20, 11>> :> <<<<"longstr", "channel_id">>>>
  @@ <<20, 40>> :> CloseLayout
  @@ <<20, 41>> :> <<>>
  @@ <<40, 11>> :> <<>>
  @@ <<50, 11>> :> <<Str("queue"), <<"long", "message_count">>, <<"long", "consumer_count">>>>
  @@ <<50, 21>> :> <<>>
  @@ <<60, 11>> :> <<>>
  @@ <<60, 21>> :> <<Str("consumer_tag")>>
  @@ <<60, 31>> :> <<Str("consumer_tag")>>
  @@ <<60, 50>> :> <<Short("reply_code"), Str("reply_text"), Str("exchange"), Str("routing_key")>>
  @@ <<60, 60>> :> <<Str("consumer_tag"), Tag, <<"flag", "redelivered">>, Str("exchange"),
                     Str("routing_key")>>
  @@ <<60, 80>> :> <<Tag, <<"last flag", "multiple">>>>
  @@ <<60, 120>> :> <<Tag, Bits(<<"multiple", "requeue">>)>>
  @@ <<85, 11>> :> <<>>

Width(kind) == CASE kind = "short" -> 2 [] kind = "long" -> 4 [] OTHER -> 8

\* An index past the end of a payload raises, unless its argument may be left
\* out; a slice is shorter there, and reads as a smaller number.
DecodeArg(kind, s, at) ==
  CASE kind = "shortstr" -> decode_shortstr(s, at)
    [] kind = "longstr" -> decode_longstr(s, at)
    [] kind = "table" -> decode_table(s, at, 0)
    [] kind = "octet" -> IF at > Len(s) THEN Bad ELSE Ok(s[at], at + 1)
    [] kind = "flag" -> IF at > Len(s) THEN Bad ELSE Ok(s[at] # 0, at + 1)
    [] kind = "last flag" -> Ok(at <= Len(s) /\ s[at] # 0, at + 1)
    [] OTHER -> LET w == Width(kind) IN Ok(FromBytes(Slice(s, at, at + w - 1)), at + w)

Bit(octet, i) == (octet \div 2^(i - 1)) % 2 = 1

ArgAfter(args, name, r) == IF Fails(r) THEN Bad ELSE Ok((name :> r.v) @@ args, r.at)

BitsAfter(args, names, octet, at) ==
  Ok([a \in ToSet(names) |-> Bit(octet, CHOOSE i \in DOMAIN names : names[i] = a)] @@ args, at)

\* The arguments of a layout from the octets at a position on.
DecodeArgs(layout, s, at) ==
  FoldLeft(LAMBDA read, p :
             IF Fails(read) THEN Bad
             ELSE IF p[1] = "bits"
             THEN BitsAfter(read.v, p[2], IF read.at > Len(s) THEN 0 ELSE s[read.at], read.at + 1)
             ELSE ArgAfter(read.v, p[2], DecodeArg(p[1], s, read.at)),
           Ok(<< >>, at), layout)

\* An unknown method keeps its octets; the connection decides whether it is legal.
MethodArgs(id, s) ==
  IF id \in DOMAIN ServerMethods THEN DecodeArgs(ServerMethods[id], s, 5)
  ELSE Ok([raw |-> SubSeq(s, 5, Len(s))], Len(s) + 1)

Method(id, r) == IF Fails(r) THEN Bad ELSE Ok([id |-> id, args |-> r.v], r.at)

decode_method(s) ==
  IF Len(s) < 4 THEN Bad
  ELSE LET id == <<FromBytes(SubSeq(s, 1, 2)), FromBytes(SubSeq(s, 3, 4))>>
       IN Method(id, MethodArgs(id, s))

-----------------------------------------------------------------------------
(* Content headers: the properties from flag bit 15 down. *)

Properties ==
  <<Str("content_type"), Str("content_encoding"), Table("headers"),
    <<"octet", "delivery_mode">>, <<"octet", "priority">>, Str("correlation_id"),
    Str("reply_to"), Str("expiration"), Str("message_id"), <<"longlong", "timestamp">>,
    Str("type"), Str("user_id"), Str("app_id"), Str("cluster_id")>>

encode_content_header(body_size, props) ==
  LET present == SelectSeq(Properties, LAMBDA p : p[2] \in DOMAIN props)
      flag(i) == IF Properties[i][2] \in DOMAIN props THEN 2^(16 - i) ELSE 0
      flags == FoldLeft(LAMBDA n, i : n + flag(i), 0, [i \in DOMAIN Properties |-> i])
  IN ToBytes(60, 2) \o ToBytes(0, 2) \o ToBytes(body_size, 8) \o ToBytes(flags, 2)
     \o EncodeArgs(present, props)

\* A timestamp must be whole; the other integers are read as they come.
Header(s, r) ==
  IF Fails(r) \/ r.at > Len(s) + 1 THEN Bad
  ELSE Ok([body_size |-> FromBytes(SubSeq(s, 5, 12)), props |-> r.v], r.at)

decode_content_header(s) ==
  IF Len(s) < 14 THEN Bad
  ELSE LET flags == FromBytes(SubSeq(s, 13, 14))
           names == {Properties[i][2] : i \in {j \in DOMAIN Properties : Bit(flags, 17 - j)}}
       IN Header(s, DecodeArgs(SelectSeq(Properties, LAMBDA p : p[2] \in names), s, 15))

=============================================================================
