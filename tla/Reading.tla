------------------------------- MODULE Reading ------------------------------
(***************************************************************************)
(* The receiving half of AmqpConnection, for every frame size, message and *)
(* division of it: the broker says deliveries, returns, confirms, blocked  *)
(* and unblocked on several channels at once, writes each as a method      *)
(* frame, a header frame and any number of body frames between those of    *)
(* other channels and heartbeats, and the stream hands the octets to the   *)
(* read loop in arbitrary pieces.  Wire has the same loop with the codec,  *)
(* the handshake and the replies that calls await.                         *)
(*                                                                         *)
(* One iteration of the inner loop is a step: the loop does not suspend    *)
(* between two, but what the others do in between commutes with it.        *)
(***************************************************************************)
EXTENDS ReadLoop

CONSTANTS
  Channels,
  frame_max,       \* AmqpConnection.frame_max, agreed by both sides
  Sayings,         \* Sayings[c]: what the broker may say on channel c
  MaxSaid,         \* bound: MaxSaid[c], how much it says on channel c
  MaxStream,       \* bound: no heartbeat after so many octets
  Window           \* bound: the broker writes while less is in flight

IsContent(s) == decode_method(s.method).v.id \in {Deliver, Return}

\* A saying is its octets: of the method, of the header and of the body, and
\* ends[i], the octets of the body in the first i body frames.
DividesBody(s) ==
  LET size == Len(s.body)
      n == Len(s.ends)
      from(i) == IF i = 1 THEN 0 ELSE s.ends[i - 1]
  IN /\ (n = 0) = (size = 0) /\ (n > 0 => s.ends[n] = size)
     /\ \A i \in 1..n : /\ from(i) < size /\ from(i) <= s.ends[i] /\ s.ends[i] <= size
                        /\ s.ends[i] - from(i) <= max_frame_payload(frame_max)

IsSaying(s) ==
  /\ DOMAIN s = {"method", "header", "body", "ends"}
  /\ s.method \in Seq(0..255) /\ s.header \in Seq(0..255) /\ s.body \in Seq(0..255)
  /\ s.ends \in Seq(Nat)
  /\ Len(s.method) <= max_frame_payload(frame_max)
  /\ Len(s.header) <= max_frame_payload(frame_max)
  /\ ~Fails(decode_method(s.method))
  /\ decode_method(s.method).v.id \in {Deliver, Return, Blocked, Unblocked} \cup Confirms
  /\ IsContent(s) => /\ ~Fails(decode_content_header(s.header))
                     /\ decode_content_header(s.header).v.body_size = Len(s.body)
                     /\ DividesBody(s)

\* A channel's number has two octets, and a frame's size four.
ASSUME ReadingAssumption ==
  /\ Channels \subseteq Nat /\ \A c \in Channels : c \div 256 <= 255
  /\ frame_max \in Nat /\ frame_max >= FRAME_OVERHEAD
  /\ ((frame_max \div 256) \div 256) \div 256 <= 255
  /\ \A c \in Channels : \A s \in Sayings[c] : IsSaying(s)
  /\ (\A c \in Channels : MaxSaid[c] \in Nat) /\ MaxStream \in Nat /\ Window \in Nat

VARIABLES
  reader,      \* the record of ReadLoop
  said,        \* said[c]: what the broker said on channel c
  wrote,       \* wrote[c]: the parts of it that it wrote, in order
  stream,      \* the octets it wrote
  taken,       \* how many of them read() has returned
  line,        \* history: for each frame of the stream its channel, its number
               \* in wrote (0 for a heartbeat) and where its octets end
  done,        \* history: the frames the read loop has handled
  handled      \* history: handled[c], those of channel c but heartbeats

history == <<line, done, handled>>
vars == <<reader, said, wrote, stream, taken, history>>

Init ==
  /\ reader = [buffer |-> <<>>, pending |-> [c \in Channels |-> NoSlot],
               blocked |-> FALSE, lost |-> FALSE, got |-> [c \in Channels |-> <<>>],
               awaiting |-> <<>>, reply |-> <<>>]
  /\ said = [c \in Channels |-> <<>>] /\ wrote = [c \in Channels |-> <<>>]
  /\ stream = <<>> /\ taken = 0
  /\ line = <<>> /\ done = 0 /\ handled = [c \in Channels |-> 0]

-----------------------------------------------------------------------------
(* The broker (external). *)

\* The frames of a saying, and the octets of its body in the first i of them.
Parts(s) == IF IsContent(s) THEN 2 + Len(s.ends) ELSE 1
Covered(s, i) == IF i <= 2 THEN 0 ELSE s.ends[i - 2]
PartOf(c, s, i) ==
  CASE i = 1 -> Frame(METHOD, c, s.method)
    [] i = 2 -> Frame(HEADER, c, s.header)
    [] OTHER -> Frame(BODY, c, SubSeq(s.body, Covered(s, i - 1) + 1, Covered(s, i)))

\* The part of channel c that follows the first n it wrote.
Following(c, n) ==
  LET last == wrote[c][n]
  IN CASE n = 0 -> [of |-> 1, part |-> 1]
       [] n > 0 /\ last.part < Parts(said[c][last.of]) ->
            [of |-> last.of, part |-> last.part + 1]
       [] OTHER -> [of |-> last.of + 1, part |-> 1]

Due(c) == Following(c, Len(wrote[c]))

Say(c) ==
  /\ Len(said[c]) < MaxSaid[c]
  /\ \E s \in Sayings[c] : said' = [said EXCEPT ![c] = Append(@, s)]
  /\ UNCHANGED <<reader, wrote, stream, taken, history>>

Write(c, n, f) ==
  /\ Len(stream) - taken < Window
  /\ stream' = stream \o encode_frame(f, frame_max)
  /\ line' = Append(line, [channel |-> c, n |-> n, end |-> Len(stream')])

Transmit(c) ==
  /\ Due(c).of <= Len(said[c])
  /\ wrote' = [wrote EXCEPT ![c] = Append(@, Due(c))]
  /\ Write(c, Len(wrote[c]) + 1, PartOf(c, said[c][Due(c).of], Due(c).part))
  /\ UNCHANGED <<reader, said, taken, done, handled>>

Heartbeat ==
  /\ Len(stream) <= MaxStream
  /\ Write(0, 0, Frame(HEARTBEAT, 0, <<>>))
  /\ UNCHANGED <<reader, said, wrote, taken, done, handled>>

-----------------------------------------------------------------------------
(* The read loop. *)

\* The stream hands over what has arrived of it, cut anywhere.
Receive ==
  /\ Waits(reader, frame_max) /\ ~reader.lost
  /\ \E n \in (taken + 1)..Len(stream) :
       /\ reader' = [reader EXCEPT !.buffer = @ \o SubSeq(stream, taken + 1, n)]
       /\ taken' = n
  /\ UNCHANGED <<said, wrote, stream, history>>

Handle ==
  /\ ~Waits(reader, frame_max) /\ ~reader.lost
  /\ reader' = ReadFrame(reader, frame_max)
  /\ done' = done + 1
  /\ LET d == decode_frame(reader.buffer, frame_max)
     IN handled' = IF Fails(d) \/ d.v.type = HEARTBEAT THEN handled
                   ELSE [handled EXCEPT ![d.v.channel] = @ + 1]
  /\ UNCHANGED <<said, wrote, stream, taken, line>>

Next ==
  \/ \E c \in Channels : Say(c) \/ Transmit(c)
  \/ Heartbeat \/ Receive \/ Handle

Spec == Init /\ [][Next]_vars

-----------------------------------------------------------------------------
(* Properties. *)

\* What reaches a caller of a saying that is handled whole.
Event(s) ==
  LET m == decode_method(s.method).v
  IN IF IsContent(s)
     THEN [id |-> m.id, args |-> m.args,
           props |-> decode_content_header(s.header).v.props, body |-> s.body]
     ELSE m

\* While the loop awaits octets it keeps less than a frame of them, and a slot
\* is that of a content with octets to come (_read_loop, _finish_delivery).
TypeOK ==
  /\ taken \in 0..Len(stream)
  /\ Waits(reader, frame_max) => Len(reader.buffer) < frame_max
  /\ \A c \in Channels : reader.pending[c] # NoSlot =>
       /\ reader.pending[c].of.id \in {Deliver, Return}
       /\ reader.pending[c].remaining \in (Nat \ {0}) \cup {-1}

\* What reaches a caller on a channel is what the broker said on it, once, in
\* order and whole, wherever the stream is cut, however a body is divided and
\* whatever other channels' frames come in between; and the loop never gives
\* up on what is well formed (_read_loop).
GotIsSaid ==
  /\ ~reader.lost
  /\ \A c \in Channels : /\ Len(reader.got[c]) <= Len(said[c])
                         /\ \A i \in 1..Len(reader.got[c]) :
                              reader.got[c][i] = Event(said[c][i])

\* Nothing stays behind: when every part is written and handed over and the
\* loop waits for more, all that was said was got, and neither part of a frame
\* nor part of a content is kept (_read_loop, _finish_delivery).
AllIn ==
  /\ \A c \in Channels : Due(c).of > Len(said[c])
  /\ taken = Len(stream)
  /\ Waits(reader, frame_max)

NothingStays ==
  AllIn => /\ reader.buffer = <<>>
           /\ \A c \in Channels : /\ Len(reader.got[c]) = Len(said[c])
                                  /\ reader.pending[c] = NoSlot
=============================================================================
