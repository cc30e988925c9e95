------------------------------ MODULE Framing ------------------------------
(***************************************************************************)
(* What transport/frame.py makes of integers, strings and frames, and how  *)
(* a publish divides its body, octet for octet.  A text is the sequence of *)
(* its UTF-8 octets.                                                       *)
(*                                                                         *)
(* What cannot be encoded raises: the encoders return octets with the      *)
(* NoOctet in them, which concatenation keeps.  The decoders return        *)
(* [v, at], the value and the position after it, or Bad.                   *)
(***************************************************************************)
EXTENDS Integers, Sequences

CONSTANTS
  MaxShort,            \* 255: the octets of a short string
  Ceiling              \* DEFAULT_FRAME_MAX: octets of a table, array, string

ASSUME FramingAssumption ==
  /\ MaxShort \in 1..255
  /\ Ceiling \in Nat \ {0}

NoOctet == -1
Raise == <<NoOctet>>
Raised(s) == \E i \in DOMAIN s : s[i] = NoOctet
Bad == [v |-> "bad", at |-> 0]
Ok(v, at) == [v |-> v, at |-> at]
Fails(r) == r.at = 0

-----------------------------------------------------------------------------
(* int.to_bytes and int.from_bytes, big endian. *)

\* TLC's integers have 32 bits: the octets above them repeat the sign.
Octet(n, k) == IF k > 3 THEN IF n < 0 THEN 255 ELSE 0 ELSE (n \div 256^k) % 256
SignedBytes(n, w) == [i \in 1..w |-> Octet(n, w - i)]
ToBytes(n, w) == IF n < 0 \/ (w < 4 /\ n >= 256^w) THEN Raise ELSE SignedBytes(n, w)
Slice(s, from, to) == SubSeq(s, from, IF to > Len(s) THEN Len(s) ELSE to)
FromBytes(s) ==
  LET upTo[i \in 0..Len(s)] == IF i = 0 THEN 0 ELSE 256 * upTo[i - 1] + s[i]
  IN upTo[Len(s)]
FromSigned(s) ==
  IF s[1] < 128 THEN FromBytes(s) ELSE -1 - FromBytes([i \in DOMAIN s |-> 255 - s[i]])

-----------------------------------------------------------------------------
(* Strings. *)

encode_shortstr(text) ==
  IF Len(text) > MaxShort THEN Raise ELSE <<Len(text)>> \o text

decode_shortstr(s, at) ==
  IF at > Len(s) \/ at + s[at] > Len(s) THEN Bad
  ELSE Ok(SubSeq(s, at + 1, at + s[at]), at + s[at] + 1)

encode_longstr(text) == ToBytes(Len(text), 4) \o text

\* The four octets of a length and that many octets, no more than Ceiling.
decode_longstr(s, at) ==
  IF at + 3 > Len(s) THEN Bad
  ELSE LET n == FromBytes(SubSeq(s, at, at + 3)) IN
       IF n > Ceiling \/ at + 3 + n > Len(s) THEN Bad
       ELSE Ok(SubSeq(s, at + 4, at + 3 + n), at + 4 + n)

-----------------------------------------------------------------------------
(* Frames. *)

FRAME_END == 206
FRAME_OVERHEAD == 8
METHOD == 1
HEADER == 2
BODY == 3
HEARTBEAT == 8

Frame(type, channel, payload) == [type |-> type, channel |-> channel, payload |-> payload]

\* Operators named "...Bug" are faulty variants of the operator that follows
\* them; the mutation runs put them in its place.
max_frame_payloadBug(frame_max) == frame_max

max_frame_payload(frame_max) == frame_max - FRAME_OVERHEAD

\* The seven octets before the payload.
frame_header(f) ==
  (<<f.type>> \o ToBytes(f.channel, 2)) \o ToBytes(Len(f.payload), 4)

encode_frame(f, frame_max) ==
  IF Len(f.payload) > max_frame_payload(frame_max) THEN Raise
  ELSE (frame_header(f) \o f.payload) \o <<FRAME_END>>

\* Incomplete waits for more octets; Bad ends the connection.
Incomplete == [v |-> "incomplete", at |-> -1]

decode_frame(s, frame_max) ==
  IF Len(s) < 7 THEN Incomplete
  ELSE LET size == FromBytes(SubSeq(s, 4, 7)) IN
       IF s[1] \notin {METHOD, HEADER, BODY, HEARTBEAT} \/ size > max_frame_payload(frame_max)
       THEN Bad
       ELSE IF Len(s) < size + 8 THEN Incomplete
       ELSE IF s[size + 8] # FRAME_END THEN Bad
       ELSE Ok(Frame(s[1], FromBytes(SubSeq(s, 2, 3)), SubSeq(s, 8, size + 7)), size + 9)

\* basic_publish: the body in pieces of max_frame_payload, and one empty BODY
\* frame for an empty body.
Fragments(body, most) ==
  IF body = <<>> THEN <<<<>>>>
  ELSE [i \in 1..((Len(body) + most - 1) \div most) |->
          Slice(body, (i - 1) * most + 1, i * most)]
============================================================================
