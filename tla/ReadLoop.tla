------------------------------ MODULE ReadLoop ------------------------------
(***************************************************************************)
(* What one iteration of the inner loop of AmqpConnection._read_loop does  *)
(* with the buffer, the contents under way and the callers, whatever the   *)
(* codec makes of a payload.  r is the record of what it reads and writes: *)
(*   buffer, pending   self._buffer and pending_content                    *)
(*   blocked, lost     _publish_blocked, and whether the loop has given up *)
(*   got               got[c]: what reached a caller on channel c          *)
(*   awaiting, reply   the key of _expect's waiter, and its result or <<>> *)
(***************************************************************************)
EXTENDS Framing

CONSTANTS
  decode_method(_),           \* [v |-> [id, args], at], or Bad
  decode_content_header(_)    \* [v |-> [props, body_size], at], or Bad

Deliver == <<60, 60>>
Return == <<60, 50>>
Confirms == {<<60, 80>>, <<60, 120>>}
Blocked == <<10, 60>>
Unblocked == <<10, 61>>

NoSlot == <<>>
NewSlot(m) == [of |-> m, props |-> << >>, body |-> <<>>, remaining |-> -1]
Content(slot) ==
  [id |-> slot.of.id, args |-> slot.of.args, props |-> slot.props, body |-> slot.body]

Lose(r) == [r EXCEPT !.lost = TRUE]
Emit(r, c, event) == [r EXCEPT !.got[c] = Append(@, event)]

\* Operators named "...Bug" are faulty variants of the operator that follows
\* them; the mutation runs put them in its place.
FinishDeliveryBug(r, c, slot) == Emit([r EXCEPT !.pending[c] = slot], c, Content(slot))

\* _finish_delivery and _finish_return: the slot goes, its content is handed
\* over.
FinishDelivery(r, c, slot) == Emit([r EXCEPT !.pending[c] = NoSlot], c, Content(slot))

Hear(r, c, m) ==
  CASE m.id \in {<<10, 20>>, <<10, 50>>} -> Lose(r)
    [] m.id = Blocked -> Emit([r EXCEPT !.blocked = TRUE], c, m)
    [] m.id = Unblocked -> Emit([r EXCEPT !.blocked = FALSE], c, m)
    [] m.id \in {Deliver, Return} -> [r EXCEPT !.pending[c] = NewSlot(m)]
    [] m.id \in Confirms -> Emit(r, c, m)
    [] OTHER -> IF r.awaiting = <<c, m.id>> /\ r.reply = <<>>
                THEN Emit([r EXCEPT !.reply = m], c, m) ELSE r

OnMethod(r, c, d) == IF Fails(d) THEN Lose(r) ELSE Hear(r, c, d.v)

\* A slot whose octets are all there is a delivery or a return.
Fill(r, c, slot) ==
  IF slot.remaining = 0 THEN FinishDelivery(r, c, slot) ELSE [r EXCEPT !.pending[c] = slot]

OnHeaderBug(r, c, d) ==
  IF Fails(d) \/ r.pending[c] = NoSlot THEN Lose(r)
  ELSE [r EXCEPT !.pending[c].props = d.v.props, !.pending[c].remaining = d.v.body_size]

OnHeader(r, c, d) ==
  IF Fails(d) \/ r.pending[c] = NoSlot THEN Lose(r)
  ELSE Fill(r, c, [r.pending[c] EXCEPT !.props = d.v.props, !.remaining = d.v.body_size])

Grown(slot, payload) ==
  [slot EXCEPT !.body = @ \o payload, !.remaining = @ - Len(payload)]

OnBodyBug(r, c, payload) ==
  LET slot == r.pending[c]
  IN IF slot = NoSlot \/ slot.remaining = -1 \/ Len(payload) > slot.remaining THEN Lose(r)
     ELSE Fill(r, c, [Grown(slot, payload) EXCEPT !.body = payload])

\* A body frame adds to the slot's body.
OnBody(r, c, payload) ==
  LET slot == r.pending[c]
  IN IF slot = NoSlot \/ slot.remaining = -1 \/ Len(payload) > slot.remaining THEN Lose(r)
     ELSE Fill(r, c, Grown(slot, payload))

OnFrame(r, f) ==
  CASE f.type = METHOD -> OnMethod(r, f.channel, decode_method(f.payload))
    [] f.type = HEADER -> OnHeader(r, f.channel, decode_content_header(f.payload))
    [] f.type = BODY -> OnBody(r, f.channel, f.payload)
    [] OTHER -> r

\* The inner loop breaks off to read when the buffer holds no whole frame.
Waits(r, frame_max) == decode_frame(r.buffer, frame_max).at = Incomplete.at

\* One iteration: the first frame of the buffer is taken off and handled.
ReadFrame(r, frame_max) ==
  LET d == decode_frame(r.buffer, frame_max)
  IN IF Fails(d) THEN Lose(r)
     ELSE OnFrame([r EXCEPT !.buffer = Slice(@, d.at, Len(@))], d.v)
=============================================================================
