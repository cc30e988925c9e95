----------------------------- MODULE Connection -----------------------------
(***************************************************************************)
(* The life of one AmqpConnection: connect() and open_channel() with the   *)
(* connection and channel state machines, the calls that send a method and *)
(* await its answer, the read loop, the heartbeat watchdog, a consumer in  *)
(* receive(), close() and force_drop(), and the one loss notification they *)
(* race to.                                                                *)
(*                                                                         *)
(* An action is the code between two awaits.  A call made while the write  *)
(* buffer is full is taken to be made when drain() returns; the watchdog   *)
(* and close(), which nothing else times out, are kept waiting in it.      *)
(* Contents (header and body frames) are one "deliver" frame here.         *)
(***************************************************************************)
EXTENDS Naturals, Sequences

CONSTANTS
  Calls,               \* calls that send a method and await its answer
  Secrets,             \* those of them that are update_secret
  KeyOf,               \* KeyOf[c]: the answer the call awaits
  Opener, Closer,      \* connect() and open_channel(); close()
  Nobody,
  Tls,                 \* ConnectionConfig.tls
  Slow,                \* the broker may answer after the ten seconds
  Stalls,              \* the peer may stop reading for longer than the
                       \* watchdog sleeps
  MissLimit,           \* 2 * interval, in half intervals
  MaxSilence           \* bound: where the count of silent half intervals stops

Handshake == {"start", "tune", "open-ok", "channel-open-ok"}
Keys == Handshake \cup {"close-ok"} \cup {KeyOf[c] : c \in Calls}
Owners == Calls \cup {Opener, Closer}

ASSUME ConnectionAssumption ==
  /\ Opener \notin Calls /\ Closer \notin Calls /\ Opener # Closer
  /\ Nobody \notin Owners
  /\ Secrets \subseteq Calls
  /\ DOMAIN KeyOf = Calls
  /\ \A c \in Calls : KeyOf[c] \notin Handshake \cup {"close-ok"}
  /\ Tls \in BOOLEAN /\ Slow \in BOOLEAN /\ Stalls \in BOOLEAN
  /\ MissLimit \in Nat /\ MaxSilence \in Nat /\ MaxSilence > MissLimit + 1

VARIABLES
  sm,            \* ConnectionStateMachine.state
  channel,       \* ChannelStateMachine.state of channel 1, "NONE" before it
  opener,        \* what the task that opens the connection awaits
  call,          \* call[c]: "idle", "waiting", or how it ended: "ok", "failed"
  waiters,       \* _waiters: whose future is filed under the key
  fut,           \* fut[x]: the future x awaits in _expect
  answer,        \* answer[x]: whose request the answer x got belongs to
  reader,        \* _reader_task: "off", "on", "ended", or "raised"
  writer,        \* _writer: "none", "open" or "closed"
  closed,        \* _closed
  lost,          \* _lost_exc is set
  told,          \* times the on-loss callback was called
  deliveries,    \* _deliveries
  consumer,      \* a task that calls receive(timeout=None) in a loop
  heartbeat,     \* _heartbeat_task: "off", "sleeping", "due" or "stuck"
  silent,        \* half intervals since the peer's last frame
  closer,        \* what close() awaits
  dropper,       \* what force_drop() awaits
  paused,        \* the write buffer is full: drain() waits
  peer,          \* "none", "up", "mute" (sends and reads nothing) or "gone"
  wire           \* frames from the peer, not yet read

stateVars == <<sm, channel>>
waitVars == <<waiters, fut, answer>>
lossVars == <<lost, told, deliveries>>
watchVars == <<heartbeat, silent>>
peerVars == <<paused, peer>>
vars == <<stateVars, opener, call, waitVars, reader, writer, closed,
          lossVars, consumer, watchVars, closer, dropper, peerVars, wire>>

\* EOF, connection.close, connection.secure and frames that break the protocol
\* reject with ProtocolError; a reset and whatever else raises does not.
Fatal == {"reject", "error"}
Frames ==
  [kind : Keys, of : Owners] \cup [kind : {"deliver"} \cup Fatal, of : {Nobody}]

TypeOK ==
  /\ sm \in {"INIT", "TCP_CONNECTED", "TLS_HANDSHAKING", "TLS_VERIFIED",
             "START", "START_OK", "TUNE", "TUNE_OK", "OPEN", "OPEN_OK",
             "CLOSING", "CLOSED", "ERROR"}
  /\ channel \in {"NONE", "OPENING", "OPEN", "ERROR"}
  /\ opener \in Handshake \cup {"idle", "dial", "connected", "ready", "failed"}
  /\ call \in [Calls -> {"idle", "waiting", "ok", "failed"}]
  /\ waiters \in [Keys -> Owners \cup {Nobody}]
  /\ fut \in [Owners -> {"none", "pending", "ok", "lost"}]
  /\ answer \in [Owners -> Owners \cup {Nobody}]
  /\ reader \in {"off", "on", "ended", "raised"}
  /\ writer \in {"none", "open", "closed"}
  /\ closed \in BOOLEAN /\ lost \in BOOLEAN
  /\ told \in 0..1       \* NotifyLoss calls the session once at most
  /\ deliveries \in Seq({"message", "loss"})
  /\ consumer \in {"off", "waiting", "ended"}
  /\ heartbeat \in {"off", "sleeping", "due", "stuck"}
  /\ silent \in 0..MaxSilence
  /\ closer \in {"idle", "write", "close-ok", "release", "closing", "done", "raised"}
  /\ dropper \in {"idle", "closing", "done"}
  /\ paused \in BOOLEAN
  /\ peer \in {"none", "up", "mute", "gone"}
  /\ wire \in Seq(Frames)

Init ==
  /\ sm = "INIT" /\ channel = "NONE"
  /\ opener = "idle"
  /\ call = [c \in Calls |-> "idle"]
  /\ waiters = [k \in Keys |-> Nobody]
  /\ fut = [x \in Owners |-> "none"]
  /\ answer = [x \in Owners |-> Nobody]
  /\ reader = "off" /\ writer = "none"
  /\ closed = FALSE /\ lost = FALSE
  /\ told = 0
  /\ deliveries = <<>> /\ consumer = "off"
  /\ heartbeat = "off" /\ silent = 0
  /\ closer = "idle" /\ dropper = "idle"
  /\ paused = FALSE /\ peer = "none"
  /\ wire = <<>>

-----------------------------------------------------------------------------
(* Sending, awaiting an answer, and the loss of the connection. *)

\* A write or its drain() raises: the peer or the transport is gone.
MayRaise == peer = "gone" \/ writer = "closed"

\* _send_method, then _expect: the future is filed under the answer's key,
\* in the place of one that is there.  The peer, if it is up, will answer.
Ask(x, key) ==
  /\ writer = "open"
  /\ waiters' = [waiters EXCEPT ![key] = x]
  /\ fut' = [fut EXCEPT ![x] = "pending"]
  /\ wire' = IF peer = "up" THEN Append(wire, [kind |-> key, of |-> x]) ELSE wire
  /\ UNCHANGED answer

\* _expect is left, whoever's future is filed under the key by now.
Leave(x, key) ==
  /\ waiters' = [waiters EXCEPT ![key] = Nobody]
  /\ fut' = [fut EXCEPT ![x] = "none"]
  /\ UNCHANGED answer

\* The answer to x can still be read.
Coming(x) == reader = "on" /\ \E i \in 1..Len(wire) : wire[i].of = x

\* asyncio.wait_for gives up after ten seconds.
TimesOut(x) == fut[x] = "pending" /\ (Slow \/ ~Coming(x))

\* Operators named "...Bug" are faulty variants of the operator that follows
\* them; the mutation runs put them in its place.
WaitersFailedBug == fut

\* _fail_waiters
WaitersFailed ==
  [x \in Owners |->
     IF fut[x] = "pending" /\ \E k \in Keys : waiters[k] = x THEN "lost" ELSE fut[x]]

SentinelBug == deliveries

\* _LOSS_SENTINEL wakes a blocked receive().
Sentinel == Append(deliveries, "loss")

AlreadyLostBug == FALSE

\* _notify_loss returns early.
AlreadyLost == lost

\* _notify_loss
NotifyLoss ==
  IF AlreadyLost
  THEN UNCHANGED <<lossVars, fut>>
  ELSE /\ lost' = TRUE
       /\ told' = told + 1
       /\ fut' = WaitersFailed
       /\ deliveries' = Sentinel

-----------------------------------------------------------------------------
(* connect() and open_channel() *)

OpenerFails == opener' = "failed"

\* The state machine refuses a step that is out of order.
OpenerRejected == sm' = "ERROR" /\ OpenerFails

Connect ==
  /\ opener = "idle" /\ sm = "INIT"
  /\ sm' = IF Tls THEN "TLS_HANDSHAKING" ELSE "TCP_CONNECTED"
  /\ opener' = "dial"
  /\ UNCHANGED <<channel, call, waitVars, reader, writer, closed, lossVars,
                 consumer, watchVars, closer, dropper, peerVars, wire>>

\* Connected, and verified with TLS: send the header and await start.  The
\* read loop ends at once if the connection has been closed meanwhile.
Dialled ==
  /\ opener = "dial"
  /\ sm' = IF Tls THEN "TLS_VERIFIED" ELSE sm
  /\ writer' = "open" /\ peer' = "up"
  /\ reader' = IF closed THEN "ended" ELSE "on"
  /\ opener' = "start"
  /\ waiters' = [waiters EXCEPT !["start"] = Opener]
  /\ fut' = [fut EXCEPT ![Opener] = "pending"]
  /\ wire' = <<[kind |-> "start", of |-> Opener]>>
  /\ UNCHANGED <<channel, call, answer, closed, lossVars, consumer,
                 watchVars, closer, dropper, paused>>

DialFails ==
  /\ opener = "dial"
  /\ OpenerFails
  /\ UNCHANGED <<stateVars, call, waitVars, reader, writer, closed,
                 lossVars, consumer, watchVars, closer, dropper, peerVars, wire>>

Answered(key) == opener = key /\ fut[Opener] = "ok"

\* _expect is left with the answer and entered for the next one.
AskNext(key) ==
  /\ writer = "open"
  /\ waiters' = [waiters EXCEPT ![opener] = Nobody, ![key] = Opener]
  /\ fut' = [fut EXCEPT ![Opener] = "pending"]
  /\ wire' = IF peer = "up" THEN Append(wire, [kind |-> key, of |-> Opener]) ELSE wire
  /\ UNCHANGED answer

\* The next request of the handshake is written, and its answer awaited; a
\* write that raises leaves the state machine where it had got to.
Proceed(key, before, after) ==
  \/ /\ AskNext(key)
     /\ sm' = after
     /\ opener' = key
  \/ /\ MayRaise
     /\ Leave(Opener, opener)
     /\ sm' \in before
     /\ OpenerFails
     /\ UNCHANGED wire

\* start: START, start-ok, START_OK.  Without a common SASL mechanism the
\* state machine rejects.
Started ==
  /\ Answered("start")
  /\ \/ /\ sm \in {"TCP_CONNECTED", "TLS_VERIFIED"}
        /\ Proceed("tune", {"START"}, "START_OK")
     \/ /\ OpenerRejected
        /\ Leave(Opener, "start")
        /\ UNCHANGED wire
  /\ UNCHANGED <<channel, call, reader, writer, closed, lossVars, consumer,
                 watchVars, closer, dropper, peerVars>>

\* tune: TUNE, tune-ok, TUNE_OK, open, OPEN.
Tuned ==
  /\ Answered("tune")
  /\ IF sm = "START_OK"
     THEN Proceed("open-ok", {"TUNE", "TUNE_OK"}, "OPEN")
     ELSE /\ OpenerRejected
          /\ Leave(Opener, "tune")
          /\ UNCHANGED wire
  /\ UNCHANGED <<channel, call, reader, writer, closed, lossVars, consumer,
                 watchVars, closer, dropper, peerVars>>

\* open-ok: the connection is open and the watchdog starts.
Opened ==
  /\ Answered("open-ok")
  /\ Leave(Opener, "open-ok")
  /\ IF sm = "OPEN"
     THEN /\ sm' = "OPEN_OK" /\ opener' = "connected"
          /\ heartbeat' = "sleeping" /\ silent' = 0
     ELSE OpenerRejected /\ UNCHANGED watchVars
  /\ UNCHANGED <<channel, call, reader, writer, closed, lossVars, consumer,
                 closer, dropper, peerVars, wire>>

\* open_channel: refused unless the connection is open.
OpenChannel ==
  /\ opener = "connected"
  /\ IF sm = "OPEN_OK"
     THEN /\ channel' = "OPENING"
          /\ \/ Ask(Opener, "channel-open-ok") /\ opener' = "channel-open-ok"
             \/ /\ MayRaise
                /\ OpenerFails
                /\ UNCHANGED <<waitVars, wire>>
     ELSE OpenerFails /\ UNCHANGED <<channel, waitVars, wire>>
  /\ UNCHANGED <<sm, call, reader, writer, closed, lossVars, consumer,
                 watchVars, closer, dropper, peerVars>>

\* receive() raises at once on a connection that is lost.
Receives == IF lost THEN "ended" ELSE "waiting"

\* The channel is open, and a consumer begins to receive from it.
ChannelOpened ==
  /\ Answered("channel-open-ok")
  /\ Leave(Opener, "channel-open-ok")
  /\ IF channel = "OPENING"
     THEN channel' = "OPEN" /\ opener' = "ready" /\ consumer' = Receives
     ELSE channel' = "ERROR" /\ OpenerFails /\ UNCHANGED consumer
  /\ UNCHANGED <<sm, call, reader, writer, closed, lossVars, watchVars,
                 closer, dropper, peerVars, wire>>

\* The loss fails the awaited answer, or it does not come.
OpeningFails ==
  /\ opener \in Handshake
  /\ fut[Opener] = "lost" \/ TimesOut(Opener)
  /\ Leave(Opener, opener)
  /\ OpenerFails
  /\ UNCHANGED <<stateVars, call, reader, writer, closed, lossVars,
                 consumer, watchVars, closer, dropper, peerVars, wire>>

Opening ==
  \/ Dialled \/ DialFails \/ Started \/ Tuned \/ Opened \/ OpenChannel
  \/ ChannelOpened \/ OpeningFails

-----------------------------------------------------------------------------
(* queue_declare, exchange_declare, queue_bind, basic_consume, basic_cancel  *)
(* on the channel, and update_secret on the connection.                      *)

CallEnds(c, how) == call' = [call EXCEPT ![c] = how]

MayCall(c) == call[c] = "idle" /\ channel # "NONE" /\ ~paused

IsAllowed(c) == IF c \in Secrets THEN sm = "OPEN_OK" ELSE channel = "OPEN"

\* update_secret raises; an operation on a channel that is not open rejects,
\* which leaves the channel in ERROR.
CallRefused(c) ==
  /\ MayCall(c) /\ ~IsAllowed(c)
  /\ CallEnds(c, "failed")
  /\ channel' = IF c \in Secrets THEN channel ELSE "ERROR"
  /\ UNCHANGED <<sm, opener, waitVars, reader, writer, closed, lossVars,
                 consumer, watchVars, closer, dropper, peerVars, wire>>

Call(c) ==
  /\ MayCall(c) /\ IsAllowed(c)
  /\ \/ /\ Ask(c, KeyOf[c])
        /\ call' = [call EXCEPT ![c] = "waiting"]
     \/ /\ MayRaise
        /\ CallEnds(c, "failed")
        /\ UNCHANGED <<waitVars, wire>>
  /\ UNCHANGED <<stateVars, opener, reader, writer, closed, lossVars, consumer,
                 watchVars, closer, dropper, peerVars>>

CallReturns(c) ==
  /\ call[c] = "waiting"
  /\ \/ fut[c] = "ok" /\ CallEnds(c, "ok")
     \/ (fut[c] = "lost" \/ TimesOut(c)) /\ CallEnds(c, "failed")
  /\ Leave(c, KeyOf[c])
  /\ UNCHANGED <<stateVars, opener, reader, writer, closed, lossVars, consumer,
                 watchVars, closer, dropper, peerVars, wire>>

-----------------------------------------------------------------------------
(* receive() *)

\* The oldest delivery is taken and handled, and receive() called again; the
\* sentinel ends the consumer.
ReceiveWoken ==
  /\ consumer = "waiting" /\ deliveries # <<>>
  /\ deliveries' = Tail(deliveries)
  /\ consumer' = IF Head(deliveries) = "loss" THEN "ended" ELSE Receives
  /\ UNCHANGED <<stateVars, opener, call, waitVars, reader, writer, closed,
                 lost, told, watchVars, closer, dropper, peerVars, wire>>

-----------------------------------------------------------------------------
(* The read loop. *)

MatchesBug(x, frame) == \E k \in Keys : waiters[k] = x

\* x's future is filed under the key of the frame.
Matches(x, frame) == waiters[frame.kind] = x

\* Once _closed is set the loop handles the rest of the chunk it has read and
\* then ends.
ReadsOn ==
  reader' \in IF ~closed THEN {"on"}
              ELSE IF Len(wire) > 1 THEN {"on", "ended"} ELSE {"ended"}

\* A method that answers a call, or a delivery whose content is complete.
ReadFrame ==
  /\ reader = "on" /\ wire # <<>> /\ Head(wire).kind \notin Fatal
  /\ LET f == Head(wire)
         Gets(x) == f.kind # "deliver" /\ fut[x] = "pending" /\ Matches(x, f)
     IN  /\ fut' = [x \in Owners |-> IF Gets(x) THEN "ok" ELSE fut[x]]
         /\ answer' = [x \in Owners |-> IF Gets(x) THEN f.of ELSE answer[x]]
         /\ deliveries' = IF f.kind = "deliver" THEN Append(deliveries, "message")
                          ELSE deliveries
  /\ wire' = Tail(wire)
  /\ silent' = 0
  /\ ReadsOn
  /\ UNCHANGED <<stateVars, opener, call, waiters, writer, closed, lost,
                 told, consumer, heartbeat, closer, dropper, peerVars>>

\* The connection is in ERROR and lost.  The task raises a ProtocolError again;
\* after any other exception it just ends.
ReadFatal ==
  /\ reader = "on" /\ wire # <<>> /\ Head(wire).kind \in Fatal
  /\ sm' = "ERROR"
  /\ NotifyLoss
  /\ reader' = IF Head(wire).kind = "reject" THEN "raised" ELSE "ended"
  /\ wire' = <<>>
  /\ UNCHANGED <<channel, opener, call, waiters, answer, writer, closed,
                 consumer, watchVars, closer, dropper, peerVars>>

-----------------------------------------------------------------------------
(* _heartbeat_loop *)

MissedBug == silent > MissLimit + 2

\* silent_for > interval * 2
Missed == silent > MissLimit

\* A heartbeat is sent; drain() waits while the buffer is full.
SendHeartbeat ==
  \/ paused /\ heartbeat' = "stuck" /\ UNCHANGED <<lossVars, fut>>
  \/ ~paused /\ heartbeat' = "sleeping" /\ UNCHANGED <<lossVars, fut>>
  \/ ~paused /\ MayRaise /\ heartbeat' = "off" /\ NotifyLoss

CutBug == UNCHANGED writer

\* writer.close(): the read loop reads EOF once the socket is dropped (Severed).
Cut == writer' = "closed"

\* Awake after half an interval: a silent peer is a loss.
HeartbeatChecks ==
  /\ heartbeat = "due"
  /\ IF closed \/ lost
     THEN heartbeat' = "off" /\ UNCHANGED <<lossVars, fut, writer>>
     ELSE IF Missed
     THEN /\ heartbeat' = "off"
          /\ NotifyLoss
          /\ Cut
     ELSE SendHeartbeat /\ UNCHANGED writer
  /\ UNCHANGED <<stateVars, opener, call, waiters, answer, reader, closed,
                 consumer, silent, closer, dropper, peerVars, wire>>

HeartbeatSent ==
  /\ heartbeat = "stuck" /\ ~paused
  /\ SendHeartbeat
  /\ UNCHANGED <<stateVars, opener, call, waiters, answer, reader, writer,
                 closed, consumer, silent, closer, dropper, peerVars, wire>>

\* Half an interval passes, and a watchdog that sleeps is due.  One that is
\* ready has run before.
Tick ==
  /\ heartbeat # "due" /\ (heartbeat = "stuck" => paused)
  /\ sm = "OPEN_OK" /\ ~closed
  /\ ~Stalls => ~paused
  /\ IF lost
     THEN heartbeat = "sleeping" /\ UNCHANGED silent
     ELSE silent < MaxSilence /\ silent' = silent + 1
  /\ heartbeat' = IF heartbeat = "sleeping" THEN "due" ELSE heartbeat
  /\ UNCHANGED <<stateVars, opener, call, waitVars, reader, writer, closed,
                 lossVars, consumer, closer, dropper, peerVars, wire>>

-----------------------------------------------------------------------------
(* close() and force_drop() *)

\* connection.close is written and close-ok awaited, unless the write raises.
SendClose ==
  \/ Ask(Closer, "close-ok") /\ closer' = "close-ok"
  \/ MayRaise /\ closer' = "release" /\ UNCHANGED <<waitVars, wire>>

Close ==
  /\ closer = "idle" /\ ~closed
  /\ closed' = TRUE
  /\ heartbeat' = "off"
  /\ IF sm = "OPEN_OK"
     THEN /\ sm' = "CLOSING"
          /\ IF paused
             THEN closer' = "write" /\ UNCHANGED <<waitVars, wire>>
             ELSE SendClose
     ELSE closer' = "release" /\ UNCHANGED <<sm, waitVars, wire>>
  /\ UNCHANGED <<channel, opener, call, reader, writer, lossVars, consumer,
                 silent, dropper, peerVars>>

CloseWritten ==
  /\ closer = "write" /\ ~paused
  /\ SendClose
  /\ UNCHANGED <<stateVars, opener, call, reader, writer, closed, lossVars,
                 consumer, watchVars, dropper, peerVars>>

WaitOverBug == fut[Closer] \in {"ok", "lost"}

\* close-ok, the loss, or two seconds.
WaitOver == fut[Closer] \in {"ok", "lost", "pending"}

CloseAnswered ==
  /\ closer = "close-ok" /\ WaitOver
  /\ sm' = "CLOSED"
  /\ Leave(Closer, "close-ok")
  /\ closer' = "release"
  /\ UNCHANGED <<channel, opener, call, reader, writer, closed, lossVars,
                 consumer, watchVars, dropper, peerVars, wire>>

\* The read loop's task is cancelled and awaited.
Stopped == IF reader = "on" THEN "ended" ELSE reader

\* Awaiting a read loop that raised raises here, before the writer is closed.
CloseReleases ==
  /\ closer = "release"
  /\ IF reader = "raised"
     THEN closer' = "raised" /\ UNCHANGED <<reader, writer>>
     ELSE /\ reader' = Stopped
          /\ writer' = IF writer = "open" THEN "closed" ELSE writer
          /\ closer' = "closing"
  /\ UNCHANGED <<stateVars, opener, call, waitVars, closed, lossVars,
                 consumer, watchVars, dropper, peerVars, wire>>

\* writer.wait_closed() returns when the socket is dropped.
WriterGone == writer = "closed" => peer = "gone"

Closed ==
  /\ closer = "closing" /\ WriterGone
  /\ closer' = "done"
  /\ UNCHANGED <<stateVars, opener, call, waitVars, reader, writer, closed,
                 lossVars, consumer, watchVars, dropper, peerVars, wire>>

\* The writer is closed, and waited for: the read loop may read EOF meanwhile.
ForceDrop ==
  /\ dropper = "idle"
  /\ closed' = TRUE
  /\ heartbeat' = "off"
  /\ dropper' = "closing"
  /\ IF writer = "open" THEN Cut ELSE UNCHANGED writer
  /\ UNCHANGED <<stateVars, opener, call, waitVars, reader, lossVars,
                 consumer, silent, closer, peerVars, wire>>

Dropped ==
  /\ dropper = "closing" /\ WriterGone
  /\ dropper' = "done"
  /\ reader' = Stopped
  /\ NotifyLoss
  /\ UNCHANGED <<stateVars, opener, call, waiters, answer, writer, closed,
                 consumer, watchVars, closer, peerVars, wire>>

-----------------------------------------------------------------------------
(* The peer. *)

\* A message for the consumer; at most one is under way.
Delivers ==
  /\ peer = "up" /\ consumer # "off" /\ deliveries = <<>>
  /\ \A i \in 1..Len(wire) : wire[i].kind # "deliver"
  /\ wire' = Append(wire, [kind |-> "deliver", of |-> Nobody])
  /\ UNCHANGED <<stateVars, opener, call, waitVars, reader, writer, closed,
                 lossVars, consumer, watchVars, closer, dropper, peerVars>>

\* A heartbeat is read.
PeerHeartbeat ==
  /\ peer = "up" /\ reader = "on" /\ sm = "OPEN_OK" /\ silent > 0
  /\ silent' = 0
  /\ UNCHANGED <<stateVars, opener, call, waitVars, reader, writer, closed,
                 lossVars, consumer, heartbeat, closer, dropper, peerVars, wire>>

\* What the peer had not sent yet, or nobody took off the socket, is lost.
StreamEnds ==
  \E n \in 0..Len(wire), how \in Fatal :
    /\ peer' = "gone"
    /\ wire' = Append(SubSeq(wire, 1, n), [kind |-> how, of |-> Nobody])

\* The peer closes, breaks the protocol, resets the socket, or falls silent.
PeerEnds ==
  /\ peer = "up"
  /\ \/ StreamEnds
     \/ /\ ~paused \/ Stalls
        /\ peer' = "mute"
        /\ \E n \in 0..Len(wire) : wire' = SubSeq(wire, 1, n)
  /\ UNCHANGED <<stateVars, opener, call, waitVars, reader, writer, closed,
                 lossVars, consumer, watchVars, closer, dropper, paused>>

\* The transport drops the socket of a writer that was closed, when what was
\* written is flushed; with TLS, at the latest when its shutdown times out.
Severed ==
  /\ writer = "closed" /\ peer \in {"up", "mute"} /\ ~paused
  /\ StreamEnds
  /\ UNCHANGED <<stateVars, opener, call, waitVars, reader, writer, closed,
                 lossVars, consumer, watchVars, closer, dropper, paused>>

\* The write buffer fills up, and is drained or given up with the transport.
\* Whoever drain() kept waiting runs on before it fills up again.
Pause ==
  /\ channel = "OPEN" /\ writer = "open" /\ ~paused
  /\ heartbeat # "stuck" /\ closer # "write"
  /\ peer = "up"
  /\ paused' = TRUE
  /\ UNCHANGED <<stateVars, opener, call, waitVars, reader, writer, closed,
                 lossVars, consumer, watchVars, closer, dropper, peer, wire>>

Resume ==
  /\ paused /\ peer # "mute"
  /\ paused' = FALSE
  /\ UNCHANGED <<stateVars, opener, call, waitVars, reader, writer, closed,
                 lossVars, consumer, watchVars, closer, dropper, peer, wire>>

-----------------------------------------------------------------------------
Next ==
  \/ Connect \/ Opening
  \/ \E c \in Calls : CallRefused(c) \/ Call(c) \/ CallReturns(c)
  \/ ReceiveWoken
  \/ ReadFrame \/ ReadFatal
  \/ HeartbeatChecks \/ HeartbeatSent \/ Tick
  \/ Close \/ CloseWritten \/ CloseAnswered \/ CloseReleases \/ Closed
  \/ ForceDrop \/ Dropped
  \/ Delivers \/ PeerHeartbeat \/ PeerEnds \/ Severed \/ Pause \/ Resume

Spec == Init /\ [][Next]_vars

\* Ready tasks run, timers fire, time passes, a buffer that is full is drained
\* or given up, and a closed transport drops its socket.  Nobody has to connect, call, close or drop.
Fairness ==
  /\ WF_vars(Opening)
  /\ \A c \in Calls : WF_vars(CallReturns(c))
  /\ WF_vars(ReceiveWoken)
  /\ WF_vars(ReadFrame \/ ReadFatal)
  /\ WF_vars(HeartbeatChecks \/ HeartbeatSent) /\ WF_vars(Tick)
  /\ WF_vars(CloseWritten \/ CloseAnswered \/ CloseReleases \/ Closed)
  /\ WF_vars(Dropped)
  /\ WF_vars(Resume) /\ WF_vars(Severed)

FairSpec == Spec /\ Fairness

-----------------------------------------------------------------------------
(* Properties. *)

\* The loss fails every answer that is awaited at that moment: nobody is left
\* to a ten-second timeout by the route the loss came on.
LossFailsWaiters ==
  [][~lost /\ lost' => \A x \in Owners : fut[x] = "pending" => fut'[x] # "pending"]_vars

\* Until the loss, a call returns the answer to its own request.
AnswerIsOwn == ~lost => \A c \in Calls : call[c] = "ok" => answer[c] = c

\* A peer that has been silent for two intervals is noticed at the watchdog's
\* next check, whatever else the connection is doing.
SilenceNoticed ==
  sm = "OPEN_OK" /\ ~closed /\ ~lost => silent <= MissLimit + 1

\* A read loop still running on a lost connection has its end ahead of it, or
\* the socket it reads is being dropped, whichever task noticed the loss: a
\* watchdog that gives a silent peer up does not leave the loop to that peer.
LossEndsReading ==
  lost /\ reader = "on" =>
    writer = "closed" \/ \E i \in 1..Len(wire) : wire[i].kind \in Fatal

\* And the read loop does end, also when the writer was closed on a full buffer.
ReadingEnds == lost ~> reader # "on"

\* A consumer blocked in receive() is woken by the loss.
ConsumerEnds == lost ~> consumer \in {"off", "ended"}

\* close() returns or raises, whatever the peer does.
CloseEnds == closer # "idle" ~> closer \in {"done", "raised"}
=============================================================================
