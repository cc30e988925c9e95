-------------------------- MODULE ConnectionProofs --------------------------
(***************************************************************************)
(* Theorems about Connection, for any calls and any limits.                *)
(*                                                                         *)
(* LifeInv is about the loss, the read loop and the watchdog, and needs no *)
(* hypothesis on who calls what.  FiledInv and OwnInv are about the        *)
(* futures: the table of waiters has one place for each kind of answer, so *)
(* they hold as long as no two calls await the same kind at once           *)
(* (Exclusive), and OwnInv as long as no answer comes after its call has   *)
(* given up (Slow is FALSE).                                               *)
(***************************************************************************)
EXTENDS Connection, TLAPS

USE ConnectionAssumption DEF ConnectionAssumption

-----------------------------------------------------------------------------
(* The loss, the read loop and the watchdog. *)

\* The frame that ends the read loop is under way.
EndComes == \E i \in 1..Len(wire) : wire[i].kind \in Fatal

\* Before the dial nothing runs that could lose the connection but force_drop(),
\* which has closed it.
DialInv ==
  opener \in {"idle", "dial"} =>
    reader = "off" /\ heartbeat = "off" /\ (lost => closed)

\* A loss the read loop has not noticed is of a writer that is closed or of a
\* peer that is gone, and then the end is in the read loop's way.
ReadingInv ==
  /\ reader = "on" /\ lost => writer = "closed" \/ peer = "gone"
  /\ reader = "on" /\ peer = "gone" => EndComes

\* The watchdog of an open connection runs, and has not overslept.
WatchInv ==
  sm = "OPEN_OK" /\ ~closed /\ ~lost =>
    /\ heartbeat # "off"
    /\ silent <= IF heartbeat = "due" THEN MissLimit + 1 ELSE MissLimit

LifeInv ==
  /\ TypeOK
  /\ told = IF lost THEN 1 ELSE 0
  /\ dropper = "closing" => closed
  /\ DialInv
  /\ ReadingInv
  /\ ~Stalls => WatchInv

-----------------------------------------------------------------------------
(* The futures. *)

\* No two calls await the same kind of answer at once.
Exclusive ==
  \A c, d \in Calls :
    call[c] = "waiting" /\ call[d] = "waiting" /\ KeyOf[c] = KeyOf[d] => c = d

\* Whose future may be filed under k.
MayFile(k, x) ==
  \/ x = Nobody
  \/ x \in Calls /\ KeyOf[x] = k /\ call[x] = "waiting"
  \/ x = Opener /\ opener = k /\ k \in Handshake
  \/ x = Closer /\ closer = "close-ok" /\ k = "close-ok"

FiledInv ==
  /\ \A k \in Keys : MayFile(k, waiters[k])
  /\ \A x \in Owners : fut[x] = "pending" => \E k \in Keys : waiters[k] = x

\* An answer under way is to a request that still awaits it, and the only one.
ComingInv(i) ==
  wire[i].of \in Calls =>
    /\ wire[i].kind = KeyOf[wire[i].of]
    /\ call[wire[i].of] = "waiting" /\ fut[wire[i].of] = "pending"
    /\ \A j \in 1..Len(wire) : wire[j].of = wire[i].of => j = i

OwnInv ==
  /\ \A i \in 1..Len(wire) :
       /\ wire[i].of = Opener => wire[i].kind \in Handshake
       /\ wire[i].of = Closer => wire[i].kind = "close-ok"
  /\ reader = "on" /\ ~lost => \A i \in 1..Len(wire) : ComingInv(i)
  /\ ~lost => \A c \in Calls : call[c] = "ok" \/ fut[c] = "ok" => answer[c] = c

-----------------------------------------------------------------------------
(* Types. *)

\* What a step may do to the loss.
LEMMA NotifyType ==
  ASSUME LifeInv, NotifyLoss
  PROVE  /\ lost' = TRUE /\ told' = 1
         /\ fut' \in [Owners -> {"none", "pending", "ok", "lost"}]
         /\ deliveries' \in Seq({"message", "loss"})
<1>1. CASE lost
  BY <1>1 DEF LifeInv, TypeOK, NotifyLoss, AlreadyLost, lossVars
<1>2. CASE ~lost
  <2>1. /\ lost' = TRUE /\ told' = told + 1 /\ fut' = WaitersFailed /\ deliveries' = Sentinel
    BY <1>2 DEF NotifyLoss, AlreadyLost
  <2>2. fut' \in [Owners -> {"none", "pending", "ok", "lost"}]
    BY <2>1 DEF WaitersFailed, LifeInv, TypeOK
  <2>3. deliveries' \in Seq({"message", "loss"})
    BY <2>1 DEF Sentinel, LifeInv, TypeOK
  <2> QED
    BY <1>2, <2>1, <2>2, <2>3 DEF LifeInv
<1> QED
  BY <1>1, <1>2

LEMMA SendType ==
  ASSUME LifeInv, SendHeartbeat
  PROVE  /\ heartbeat' \in {"off", "sleeping", "stuck"}
         /\ fut' \in [Owners -> {"none", "pending", "ok", "lost"}]
         /\ deliveries' \in Seq({"message", "loss"})
         /\ \/ UNCHANGED <<lossVars, fut>> /\ heartbeat' # "off"
            \/ lost' = TRUE /\ told' = 1 /\ MayRaise /\ NotifyLoss
<1>1. CASE UNCHANGED <<lossVars, fut>> /\ heartbeat' \in {"sleeping", "stuck"}
  BY <1>1 DEF LifeInv, TypeOK, lossVars
<1>2. CASE MayRaise /\ heartbeat' = "off" /\ NotifyLoss
  BY <1>2, NotifyType
<1> QED
  BY <1>1, <1>2 DEF SendHeartbeat

LEMMA FrameType ==
  /\ \A k \in Keys : \A x \in Owners : [kind |-> k, of |-> x] \in Frames
  /\ \A k \in {"deliver", "reject", "error"} : [kind |-> k, of |-> Nobody] \in Frames
  /\ Handshake \subseteq Keys /\ "close-ok" \in Keys /\ \A c \in Calls : KeyOf[c] \in Keys
  /\ Calls \subseteq Owners /\ Opener \in Owners /\ Closer \in Owners
  /\ \A f \in Frames : \/ f.kind \in Keys /\ f.of \in Owners
                       \/ f.kind \in {"deliver", "reject", "error"} /\ f.of = Nobody
  BY DEF Frames, Keys, Owners, Fatal

\* The futures and the table they are filed in.
Waits ==
  /\ waiters \in [Keys -> Owners \cup {Nobody}]
  /\ fut \in [Owners -> {"none", "pending", "ok", "lost"}]
  /\ answer \in [Owners -> Owners \cup {Nobody}]

LEMMA WireKept == TypeOK /\ [Next]_vars => wire' \in Seq(Frames)
<1> SUFFICES ASSUME TypeOK, [Next]_vars PROVE wire' \in Seq(Frames)
  OBVIOUS
<1>0. wire \in Seq(Frames)
  BY DEF TypeOK
<1>1. ASSUME NEW f \in Frames PROVE Append(wire, f) \in Seq(Frames) /\ <<f>> \in Seq(Frames)
  BY <1>0
<1>2. ASSUME NEW n \in 0..Len(wire)
      PROVE  /\ SubSeq(wire, 1, n) \in Seq(Frames)
             /\ \A f \in Frames : Append(SubSeq(wire, 1, n), f) \in Seq(Frames)
  <2>1. \A i \in 1..n : i \in 1..Len(wire)
    BY <1>0
  <2>2. SubSeq(wire, 1, n) \in Seq(Frames)
    BY <1>0, <2>1
  <2> QED
    BY <2>2
<1>3. wire # <<>> => Tail(wire) \in Seq(Frames)
  BY <1>0
<1>4. ASSUME NEW x \in Owners, NEW key \in Keys, Ask(x, key) PROVE wire' \in Seq(Frames)
  BY <1>0, <1>1, <1>4, FrameType DEF Ask
<1>5. ASSUME NEW key \in Handshake, AskNext(key) PROVE wire' \in Seq(Frames)
  BY <1>0, <1>1, <1>5, FrameType DEF AskNext
<1>6. ASSUME NEW key \in Handshake, NEW S, NEW a, Proceed(key, S, a) PROVE wire' \in Seq(Frames)
  BY <1>0, <1>5, <1>6 DEF Proceed
<1>7. ASSUME Started \/ Tuned \/ Opened \/ OpenChannel \/ ChannelOpened \/ OpeningFails \/ Dialled
             \/ DialFails \/ Connect
      PROVE  wire' \in Seq(Frames)
  <2>1. CASE Started
    BY <1>0, <1>6, <2>1 DEF Started, Handshake
  <2>2. CASE Tuned
    BY <1>0, <1>6, <2>2 DEF Tuned, Handshake
  <2>3. CASE OpenChannel
    BY <1>0, <1>4, <2>3, FrameType DEF OpenChannel, Handshake
  <2>4. CASE Dialled
    BY <1>1, <2>4, FrameType DEF Dialled, Handshake
  <2>5. CASE Opened \/ ChannelOpened \/ OpeningFails \/ DialFails \/ Connect
    BY <1>0, <2>5 DEF Opened, ChannelOpened, OpeningFails, DialFails, Connect
  <2> QED
    BY <1>7, <2>1, <2>2, <2>3, <2>4, <2>5
<1>8. ASSUME NEW c \in Calls, CallRefused(c) \/ Call(c) \/ CallReturns(c) PROVE wire' \in Seq(Frames)
  BY <1>0, <1>4, <1>8, FrameType DEF CallRefused, Call, CallReturns
<1>10. ASSUME SendClose PROVE wire' \in Seq(Frames)
  BY <1>0, <1>4, <1>10, FrameType DEF SendClose
<1>11. ASSUME ReceiveWoken \/ ReadFrame \/ ReadFatal \/ HeartbeatChecks \/ HeartbeatSent \/ Tick
      PROVE wire' \in Seq(Frames)
  <2>1. CASE ReceiveWoken \/ HeartbeatSent \/ Tick
    BY <1>0, <2>1 DEF ReceiveWoken, HeartbeatSent, Tick
  <2>2. CASE ReadFrame
    BY <1>3, <2>2 DEF ReadFrame
  <2>3. CASE ReadFatal
    BY <2>3 DEF ReadFatal
  <2>4. CASE HeartbeatChecks
    BY <1>0, <2>4 DEF HeartbeatChecks
  <2> QED
    BY <1>11, <2>1, <2>2, <2>3, <2>4
<1>12. ASSUME Close \/ CloseWritten \/ CloseAnswered \/ CloseReleases \/ Closed \/ ForceDrop \/ Dropped
      PROVE wire' \in Seq(Frames)
  BY <1>0, <1>10, <1>12
  DEF Close, CloseWritten, CloseAnswered, CloseReleases, Closed, ForceDrop, Dropped
<1>13. ASSUME Delivers \/ PeerHeartbeat \/ PeerEnds \/ Severed \/ Pause \/ Resume PROVE wire' \in Seq(Frames)
  <2>1. CASE PeerEnds \/ Severed
    BY <1>2, <2>1, FrameType DEF PeerEnds, Severed, StreamEnds, Fatal
  <2>2. CASE ~(PeerEnds \/ Severed)
    BY <1>0, <1>1, <1>13, <2>2, FrameType DEF Delivers, PeerHeartbeat, Pause, Resume
  <2> QED
    BY <2>1, <2>2
<1>14. CASE UNCHANGED vars
  BY <1>0, <1>14 DEF vars
<1> QED
  BY <1>7, <1>8, <1>11, <1>12, <1>13, <1>14 DEF Next, Opening

LEMMA WaitsKept == LifeInv /\ [Next]_vars => Waits'
<1> SUFFICES ASSUME LifeInv, [Next]_vars PROVE Waits'
  OBVIOUS
<1>0. Waits
  BY DEF LifeInv, TypeOK, Waits
<1>1. ASSUME NEW x \in Owners, NEW key \in Keys, Ask(x, key) \/ Leave(x, key) PROVE Waits'
  BY <1>0, <1>1 DEF Waits, Ask, Leave
<1>2. ASSUME UNCHANGED waitVars PROVE Waits'
  BY <1>0, <1>2 DEF Waits, waitVars
<1>3. ASSUME NEW key \in Handshake, NEW S, NEW a, opener \in Handshake, Proceed(key, S, a) PROVE Waits'
  <2>1. CASE AskNext(key)
    BY <1>0, <2>1, FrameType DEF Waits, AskNext
  <2>2. CASE Leave(Opener, opener)
    BY <1>1, <1>3, <2>2, FrameType
  <2> QED
    BY <1>3, <2>1, <2>2 DEF Proceed
<1>4. ASSUME Started \/ Tuned \/ Opened \/ OpenChannel \/ ChannelOpened \/ OpeningFails \/ Dialled
             \/ DialFails \/ Connect
      PROVE  Waits'
  <2>1. CASE Started
    BY <1>1, <1>3, <2>1, FrameType DEF Started, Answered, Handshake
  <2>2. CASE Tuned
    BY <1>1, <1>3, <2>2, FrameType DEF Tuned, Answered, Handshake
  <2>3. CASE OpenChannel
    BY <1>1, <1>2, <2>3, FrameType DEF OpenChannel, Handshake
  <2>4. CASE Dialled
    BY <1>0, <2>4, FrameType DEF Dialled, Waits
  <2>5. CASE Opened \/ ChannelOpened
    BY <1>1, <2>5, FrameType DEF Opened, ChannelOpened, Handshake
  <2>6. CASE OpeningFails
    BY <1>1, <2>6, FrameType DEF OpeningFails
  <2>7. CASE DialFails \/ Connect
    BY <1>2, <2>7 DEF DialFails, Connect
  <2> QED
    BY <1>4, <2>1, <2>2, <2>3, <2>4, <2>5, <2>6, <2>7
<1>5. ASSUME NEW c \in Calls, CallRefused(c) \/ Call(c) \/ CallReturns(c) PROVE Waits'
  BY <1>1, <1>2, <1>5, FrameType DEF CallRefused, Call, CallReturns
<1>6. ASSUME UNCHANGED <<waiters, answer>>, fut' \in [Owners -> {"none", "pending", "ok", "lost"}]
      PROVE  Waits'
  BY <1>0, <1>6 DEF Waits
<1>7. ASSUME ReadFrame PROVE Waits'
  <2>1. Head(wire) \in Frames /\ Head(wire).kind \notin Fatal
    BY <1>7 DEF ReadFrame, LifeInv, TypeOK
  <2>2. Head(wire).of \in Owners \cup {Nobody}
    BY <2>1, FrameType
  <2>3. /\ waiters' = waiters
        /\ \E G \in [Owners -> BOOLEAN] :
             /\ fut' = [x \in Owners |-> IF G[x] THEN "ok" ELSE fut[x]]
             /\ answer' = [x \in Owners |-> IF G[x] THEN Head(wire).of ELSE answer[x]]
    <3> DEFINE G == [x \in Owners |-> Head(wire).kind # "deliver" /\ fut[x] = "pending"
                                        /\ Matches(x, Head(wire))]
    <3>1. /\ fut' = [x \in Owners |-> IF G[x] THEN "ok" ELSE fut[x]]
          /\ answer' = [x \in Owners |-> IF G[x] THEN Head(wire).of ELSE answer[x]]
      BY <1>7 DEF ReadFrame
    <3>2. G \in [Owners -> BOOLEAN]
      BY DEF Matches
    <3> HIDE DEF G
    <3> QED
      BY <1>7, <3>1, <3>2 DEF ReadFrame
  <2> QED
    BY <1>0, <2>2, <2>3 DEF Waits
<1>8. ASSUME ReceiveWoken \/ ReadFatal \/ HeartbeatChecks \/ HeartbeatSent \/ Tick PROVE Waits'
  <2>1. CASE ReceiveWoken \/ Tick
    BY <1>2, <2>1 DEF ReceiveWoken, Tick
  <2>2. CASE ReadFatal
    BY <1>6, <2>2, NotifyType DEF ReadFatal
  <2>3. CASE HeartbeatChecks
    BY <1>0, <1>6, <2>3, NotifyType, SendType DEF HeartbeatChecks, Waits
  <2>4. CASE HeartbeatSent
    BY <1>6, <2>4, SendType DEF HeartbeatSent
  <2> QED
    BY <1>8, <2>1, <2>2, <2>3, <2>4
<1>9. ASSUME Close \/ CloseWritten \/ CloseAnswered \/ CloseReleases \/ Closed \/ ForceDrop \/ Dropped
      PROVE  Waits'
  <2>1. CASE Close \/ CloseWritten
    BY <1>1, <1>2, <2>1, FrameType DEF Close, CloseWritten, SendClose
  <2>2. CASE CloseAnswered
    BY <1>1, <2>2, FrameType DEF CloseAnswered
  <2>3. CASE CloseReleases \/ Closed \/ ForceDrop
    BY <1>2, <2>3 DEF CloseReleases, Closed, ForceDrop
  <2>4. CASE Dropped
    BY <1>6, <2>4, NotifyType DEF Dropped
  <2> QED
    BY <1>9, <2>1, <2>2, <2>3, <2>4
<1>10. ASSUME Delivers \/ PeerHeartbeat \/ PeerEnds \/ Severed \/ Pause \/ Resume PROVE Waits'
  BY <1>2, <1>10 DEF Delivers, PeerHeartbeat, PeerEnds, Severed, Pause, Resume
<1>11. CASE UNCHANGED vars
  BY <1>2, <1>11 DEF vars
<1> QED
  BY <1>4, <1>5, <1>7, <1>8, <1>9, <1>10, <1>11 DEF Next, Opening

\* The variables with a few values.
Scalars ==
  /\ sm \in {"INIT", "TCP_CONNECTED", "TLS_HANDSHAKING", "TLS_VERIFIED",
             "START", "START_OK", "TUNE", "TUNE_OK", "OPEN", "OPEN_OK",
             "CLOSING", "CLOSED", "ERROR"}
  /\ channel \in {"NONE", "OPENING", "OPEN", "ERROR"}
  /\ opener \in Handshake \cup {"idle", "dial", "connected", "ready", "failed"}
  /\ call \in [Calls -> {"idle", "waiting", "ok", "failed"}]
  /\ reader \in {"off", "on", "ended", "raised"}
  /\ writer \in {"none", "open", "closed"}
  /\ closed \in BOOLEAN
  /\ consumer \in {"off", "waiting", "ended"}
  /\ closer \in {"idle", "write", "close-ok", "release", "closing", "done", "raised"}
  /\ dropper \in {"idle", "closing", "done"}
  /\ paused \in BOOLEAN
  /\ peer \in {"none", "up", "mute", "gone"}

LEMMA ScalarsKept == TypeOK /\ [Next]_vars => Scalars'
<1> SUFFICES ASSUME TypeOK, [Next]_vars PROVE Scalars'
  OBVIOUS
<1>0. Scalars
  BY DEF TypeOK, Scalars
<1> USE DEF Scalars, stateVars, peerVars, Handshake, Stopped
<1>1. ASSUME Connect \/ Dialled \/ DialFails PROVE Scalars'
  BY <1>0, <1>1 DEF Connect, Dialled, DialFails, OpenerFails
<1>2. ASSUME Started \/ Tuned \/ Opened PROVE Scalars'
  BY <1>0, <1>2 DEF Started, Tuned, Opened, Proceed, OpenerFails, OpenerRejected
<1>3. ASSUME OpenChannel \/ ChannelOpened \/ OpeningFails PROVE Scalars'
  BY <1>0, <1>3 DEF OpenChannel, ChannelOpened, OpeningFails, OpenerFails, Receives
<1>4. ASSUME NEW c \in Calls, CallRefused(c) \/ Call(c) \/ CallReturns(c) PROVE Scalars'
  BY <1>0, <1>4 DEF CallRefused, Call, CallReturns, CallEnds
<1>5. ASSUME ReceiveWoken \/ ReadFrame \/ ReadFatal PROVE Scalars'
  BY <1>0, <1>5 DEF ReceiveWoken, ReadFrame, ReadFatal, ReadsOn, Receives
<1>6. ASSUME HeartbeatChecks \/ HeartbeatSent \/ Tick PROVE Scalars'
  BY <1>0, <1>6 DEF HeartbeatChecks, HeartbeatSent, Tick, Cut
<1>7. ASSUME Close \/ CloseWritten \/ CloseAnswered \/ CloseReleases \/ Closed PROVE Scalars'
  <2>1. CASE Close
    BY <1>0, <2>1 DEF Close, SendClose
  <2>2. CASE CloseWritten
    BY <1>0, <2>2 DEF CloseWritten, SendClose
  <2>3. CASE CloseAnswered
    BY <1>0, <2>3 DEF CloseAnswered
  <2>4. CASE CloseReleases \/ Closed
    BY <1>0, <2>4 DEF CloseReleases, Closed
  <2> QED
    BY <1>7, <2>1, <2>2, <2>3, <2>4
<1>8. ASSUME ForceDrop \/ Dropped PROVE Scalars'
  <2>1. CASE ForceDrop
    BY <1>0, <2>1 DEF ForceDrop, Cut
  <2>2. CASE Dropped
    BY <1>0, <2>2 DEF Dropped
  <2> QED
    BY <1>8, <2>1, <2>2
<1>9. ASSUME Delivers \/ PeerHeartbeat \/ PeerEnds \/ Severed \/ Pause \/ Resume PROVE Scalars'
  <2>1. CASE Delivers
    BY <1>0, <2>1 DEF Delivers
  <2>2. CASE PeerHeartbeat
    BY <1>0, <2>2 DEF PeerHeartbeat
  <2>3. CASE PeerEnds \/ Severed
    <3>1. /\ peer' \in {"gone", "mute"}
          /\ UNCHANGED <<sm, channel, opener, call, reader, writer, closed, consumer, closer,
                         dropper, paused>>
      BY <2>3 DEF PeerEnds, Severed, StreamEnds
    <3> QED
      BY <1>0, <3>1
  <2>4. CASE Pause
    BY <1>0, <2>4 DEF Pause
  <2>5. CASE Resume
    <3>1. /\ paused' = FALSE
          /\ UNCHANGED <<sm, channel, opener, call, reader, writer, closed, consumer, closer,
                         dropper, peer>>
      BY <2>5 DEF Resume
    <3>2. paused' \in BOOLEAN
      BY <3>1
    <3> QED
      BY <1>0, <3>1, <3>2
  <2> QED
    BY <1>9, <2>1, <2>2, <2>3, <2>4, <2>5
<1>10. CASE UNCHANGED vars
  BY <1>0, <1>10 DEF vars
<1> QED
  BY <1>1, <1>2, <1>3, <1>4, <1>5, <1>6, <1>7, <1>8, <1>9, <1>10 DEF Next, Opening

\* The loss is notified, or a step leaves it alone.
LossKept ==
  \/ UNCHANGED <<lost, told>>
  \/ lost' = TRUE /\ told' = 1

LEMMA LossSteps ==
  ASSUME LifeInv, [Next]_vars
  PROVE  /\ LossKept
         /\ deliveries' \in Seq({"message", "loss"})
         /\ heartbeat' \in {"off", "sleeping", "due", "stuck"}
         /\ silent' \in 0..MaxSilence
<1> DEFINE Goal == /\ LossKept
                   /\ deliveries' \in Seq({"message", "loss"})
                   /\ heartbeat' \in {"off", "sleeping", "due", "stuck"}
                   /\ silent' \in 0..MaxSilence
<1> SUFFICES Goal
  OBVIOUS
<1>0. /\ deliveries \in Seq({"message", "loss"})
      /\ heartbeat \in {"off", "sleeping", "due", "stuck"}
      /\ silent \in 0..MaxSilence
  BY DEF LifeInv, TypeOK
<1>1. ASSUME UNCHANGED <<lossVars, watchVars>> PROVE Goal
  BY <1>0, <1>1 DEF lossVars, watchVars, LossKept
<1>2. ASSUME Connect \/ Dialled \/ DialFails \/ Started \/ Tuned \/ OpenChannel \/ ChannelOpened
             \/ OpeningFails \/ CloseWritten \/ CloseAnswered \/ CloseReleases \/ Closed
             \/ Delivers \/ PeerEnds \/ Severed \/ Pause \/ Resume
      PROVE  Goal
  <2>1. UNCHANGED <<lossVars, watchVars>>
    BY <1>2 DEF Connect, Dialled, DialFails, Started, Tuned, OpenChannel, ChannelOpened,
       OpeningFails, CloseWritten, CloseAnswered, CloseReleases, Closed,
       Delivers, PeerEnds, Severed, Pause, Resume
  <2> QED
    BY <1>1, <2>1
<1>3. ASSUME NEW c \in Calls, CallRefused(c) \/ Call(c) \/ CallReturns(c) PROVE Goal
  BY <1>1, <1>3 DEF CallRefused, Call, CallReturns
<1>4. CASE Opened
  BY <1>0, <1>4 DEF Opened, lossVars, watchVars, LossKept
<1>5. CASE ReceiveWoken
  <2>1. Tail(deliveries) \in Seq({"message", "loss"})
    BY <1>0, <1>5 DEF ReceiveWoken
  <2> QED
    BY <1>0, <1>5, <2>1 DEF ReceiveWoken, watchVars, LossKept
<1>6. CASE ReadFrame
  <2>1. Append(deliveries, "message") \in Seq({"message", "loss"})
    BY <1>0
  <2> QED
    BY <1>0, <1>6, <2>1 DEF ReadFrame, LossKept
<1>7. CASE ReadFatal
  BY <1>0, <1>7, NotifyType DEF ReadFatal, watchVars, LossKept
<1>8. CASE HeartbeatChecks
  <2>1. silent' = silent
    BY <1>8 DEF HeartbeatChecks
  <2>2. CASE SendHeartbeat
    BY <1>0, <2>1, <2>2, SendType DEF lossVars, LossKept
  <2>3. CASE heartbeat' = "off" /\ NotifyLoss
    BY <1>0, <2>1, <2>3, NotifyType DEF LossKept
  <2>4. CASE heartbeat' = "off" /\ UNCHANGED lossVars
    BY <1>0, <2>1, <2>4 DEF lossVars, LossKept
  <2> QED
    BY <1>8, <2>2, <2>3, <2>4 DEF HeartbeatChecks
<1>9. CASE HeartbeatSent
  BY <1>0, <1>9, SendType DEF HeartbeatSent, lossVars, LossKept
<1>10. CASE Tick
  BY <1>0, <1>10 DEF Tick, lossVars, LossKept
<1>11. CASE Close \/ ForceDrop
  BY <1>0, <1>11 DEF Close, ForceDrop, lossVars, LossKept
<1>12. CASE Dropped
  BY <1>0, <1>12, NotifyType DEF Dropped, watchVars, LossKept
<1>13. CASE PeerHeartbeat
  BY <1>0, <1>13 DEF PeerHeartbeat, lossVars, LossKept
<1>14. CASE UNCHANGED vars
  BY <1>1, <1>14 DEF vars
<1> HIDE DEF Goal
<1> QED
  BY <1>2, <1>3, <1>4, <1>5, <1>6, <1>7, <1>8, <1>9, <1>10, <1>11, <1>12, <1>13, <1>14
  DEF Next, Opening

LEMMA TypeKept ==
  ASSUME LifeInv, [Next]_vars
  PROVE  TypeOK' /\ told' = IF lost' THEN 1 ELSE 0
<1>1. told = (IF lost THEN 1 ELSE 0) /\ lost \in BOOLEAN
  BY DEF LifeInv, TypeOK
<1>2. lost' \in BOOLEAN /\ told' = (IF lost' THEN 1 ELSE 0)
  <2>1. CASE UNCHANGED <<lost, told>>
    BY <1>1, <2>1
  <2>2. CASE lost' = TRUE /\ told' = 1
    BY <2>2
  <2> QED
    BY LossSteps, <2>1, <2>2 DEF LossKept
<1>3. TypeOK
  BY DEF LifeInv
<1>4. Waits' /\ Scalars' /\ wire' \in Seq(Frames)
  BY <1>3, WaitsKept, ScalarsKept, WireKept
<1>5. told' \in 0..1
  BY <1>2
<1> QED
  BY <1>2, <1>4, <1>5, LossSteps DEF TypeOK, Waits, Scalars

-----------------------------------------------------------------------------
(* The read loop, the dial and the watchdog. *)

\* Nothing is read or cut; a frame may be added.
Quiet ==
  /\ UNCHANGED <<reader, writer, lost, peer>>
  /\ wire' = wire \/ \E f \in Frames : wire' = Append(wire, f)

LEMMA QuietSteps ==
  ASSUME Connect \/ DialFails \/ Started \/ Tuned \/ Opened \/ OpenChannel \/ ChannelOpened
         \/ OpeningFails \/ (\E c \in Calls : CallRefused(c) \/ Call(c) \/ CallReturns(c))
         \/ ReceiveWoken \/ Tick \/ Close \/ CloseWritten \/ CloseAnswered
         \/ Delivers \/ PeerHeartbeat \/ Pause \/ Resume
  PROVE  Quiet
<1>1. ASSUME NEW x \in Owners, NEW key \in Keys, Ask(x, key)
      PROVE  wire' = wire \/ \E f \in Frames : wire' = Append(wire, f)
  BY <1>1, FrameType DEF Ask
<1>2. ASSUME NEW key \in Handshake, NEW S, NEW a, Proceed(key, S, a)
      PROVE  wire' = wire \/ \E f \in Frames : wire' = Append(wire, f)
  BY <1>2, FrameType DEF Proceed, AskNext
<1>3. ASSUME SendClose PROVE wire' = wire \/ \E f \in Frames : wire' = Append(wire, f)
  BY <1>1, <1>3, FrameType DEF SendClose
<1>4. CASE Connect \/ DialFails \/ Opened \/ ChannelOpened \/ OpeningFails \/ ReceiveWoken \/ Tick
           \/ CloseAnswered \/ PeerHeartbeat \/ Pause \/ Resume
  BY <1>4 DEF Quiet, Connect, DialFails, Opened, ChannelOpened, OpeningFails, ReceiveWoken, Tick,
     CloseAnswered, PeerHeartbeat, Pause, Resume, peerVars, lossVars
<1>5. CASE Started \/ Tuned \/ OpenChannel
  <2>1. "tune" \in Handshake /\ "open-ok" \in Handshake /\ "channel-open-ok" \in Keys
    BY DEF Handshake, Keys
  <2> QED
    BY <1>1, <1>2, <1>5, <2>1, FrameType DEF Quiet, Started, Tuned, OpenChannel, peerVars, lossVars
<1>6. CASE \E c \in Calls : CallRefused(c) \/ Call(c) \/ CallReturns(c)
  <2>1. PICK c \in Calls : CallRefused(c) \/ Call(c) \/ CallReturns(c)
    BY <1>6
  <2> QED
    BY <1>1, <2>1, FrameType DEF Quiet, CallRefused, Call, CallReturns, peerVars, lossVars
<1>7. CASE Close \/ CloseWritten
  BY <1>3, <1>7 DEF Quiet, Close, CloseWritten, peerVars, lossVars
<1>8. CASE Delivers
  BY <1>8, FrameType DEF Quiet, Delivers, peerVars, lossVars
<1> QED
  BY <1>4, <1>5, <1>6, <1>7, <1>8

LEMMA EndStays ==
  ASSUME TypeOK, EndComes, wire' = wire \/ \E f \in Frames : wire' = Append(wire, f)
  PROVE  EndComes'
<1>0. wire \in Seq(Frames)
  BY DEF TypeOK
<1>1. CASE wire' = wire
  BY <1>1 DEF EndComes
<1>2. CASE \E f \in Frames : wire' = Append(wire, f)
  <2>1. \A i \in 1..Len(wire) : i \in 1..Len(wire') /\ wire'[i] = wire[i]
    BY <1>0, <1>2
  <2> QED
    BY <2>1 DEF EndComes
<1> QED
  BY <1>1, <1>2

LEMMA StreamEndComes == ASSUME TypeOK, StreamEnds PROVE peer' = "gone" /\ EndComes'
<1>0. wire \in Seq(Frames)
  BY DEF TypeOK
<1>1. PICK n \in 0..Len(wire), how \in Fatal :
        /\ peer' = "gone"
        /\ wire' = Append(SubSeq(wire, 1, n), [kind |-> how, of |-> Nobody])
  BY DEF StreamEnds
<1>2. SubSeq(wire, 1, n) \in Seq(Frames)
  <2>1. \A i \in 1..n : i \in 1..Len(wire)
    BY <1>0
  <2> QED
    BY <1>0, <2>1
<1>3. Len(wire') \in 1..Len(wire') /\ wire'[Len(wire')] = [kind |-> how, of |-> Nobody]
  BY <1>1, <1>2
<1> QED
  BY <1>1, <1>3 DEF EndComes

LEMMA ReadingKept == LifeInv /\ [Next]_vars => ReadingInv'
<1> SUFFICES ASSUME LifeInv, [Next]_vars PROVE ReadingInv'
  OBVIOUS
<1>0. TypeOK /\ ReadingInv /\ wire \in Seq(Frames)
  BY DEF LifeInv, TypeOK
<1>1. ASSUME Quiet PROVE ReadingInv'
  BY <1>0, <1>1, EndStays DEF Quiet, ReadingInv
<1>2. CASE Dialled
  <2>1. peer' = "up" /\ writer' = "open" /\ (reader' = "on" => ~lost')
    BY <1>2 DEF Dialled, LifeInv, DialInv, lossVars
  <2> QED
    BY <2>1 DEF ReadingInv
<1>3. CASE ReadFrame
  <2>1. EndComes => EndComes'
    <3> SUFFICES ASSUME EndComes PROVE EndComes'
      OBVIOUS
    <3>1. PICK i \in 1..Len(wire) : wire[i].kind \in Fatal
      BY DEF EndComes
    <3>2. i # 1 /\ wire # <<>> /\ wire' = Tail(wire)
      BY <1>0, <1>3, <3>1 DEF ReadFrame
    <3>3. /\ i - 1 \in 1..Len(wire') /\ (i - 1) + 1 = i
          /\ \A j \in 1..Len(wire') : wire'[j] = wire[j + 1]
      BY <1>0, <3>2
    <3>4. wire'[i - 1] = wire[i]
      BY <3>3
    <3> QED
      BY <3>1, <3>3, <3>4 DEF EndComes
  <2>2. reader = "on" /\ UNCHANGED <<writer, lost, peer>>
    BY <1>3 DEF ReadFrame, peerVars
  <2> QED
    BY <1>0, <2>1, <2>2 DEF ReadingInv
<1>4. CASE ReadFatal \/ Dropped \/ CloseReleases \/ Closed
  <2>1. reader' # "on" \/ UNCHANGED <<reader, writer, lost, peer, wire>>
    BY <1>4 DEF ReadFatal, Dropped, CloseReleases, Closed, Stopped, peerVars, lossVars
  <2> QED
    BY <1>0, <2>1 DEF ReadingInv, EndComes
<1>5. ASSUME UNCHANGED <<reader, writer, peer, wire>>, lost' = lost \/ MayRaise PROVE ReadingInv'
  BY <1>0, <1>5 DEF ReadingInv, EndComes, MayRaise
<1>6. CASE HeartbeatChecks
  <2>1. CASE Cut /\ UNCHANGED <<reader, peer, wire>>
    BY <2>1, <1>0 DEF Cut, ReadingInv, EndComes
  <2>2. CASE SendHeartbeat /\ UNCHANGED <<reader, writer, peer, wire>>
    BY <1>5, <2>2, SendType DEF lossVars
  <2>3. CASE UNCHANGED <<lossVars, reader, writer, peer, wire>>
    BY <1>5, <2>3 DEF lossVars
  <2> QED
    BY <1>6, <2>1, <2>2, <2>3 DEF HeartbeatChecks, peerVars
<1>7. CASE HeartbeatSent
  BY <1>5, <1>7, SendType DEF HeartbeatSent, peerVars, lossVars
<1>8. CASE ForceDrop
  <2>1. UNCHANGED <<lost, reader, peer, wire>> /\ (writer = "closed" => writer' = "closed")
    BY <1>8 DEF ForceDrop, Cut, lossVars, peerVars
  <2> QED
    BY <1>0, <2>1 DEF ReadingInv, EndComes
<1>9. CASE PeerEnds \/ Severed
  <2>1. UNCHANGED <<reader, writer, lost>>
    BY <1>9 DEF PeerEnds, Severed, lossVars
  <2>2. CASE StreamEnds
    BY <2>2, StreamEndComes DEF LifeInv, ReadingInv
  <2>3. CASE peer = "up" /\ peer' = "mute"
    BY <1>0, <2>1, <2>3 DEF ReadingInv
  <2> QED
    BY <1>9, <2>2, <2>3 DEF PeerEnds, Severed
<1>10. CASE UNCHANGED vars
  BY <1>5, <1>10 DEF vars, lossVars, peerVars
<1> QED
  BY <1>1, <1>2, <1>3, <1>4, <1>6, <1>7, <1>8, <1>9, <1>10, QuietSteps DEF Next, Opening

LEMMA DialKept ==
  ASSUME LifeInv, [Next]_vars
  PROVE  DialInv' /\ (dropper' = "closing" => closed')
<1>0. DialInv /\ TypeOK /\ (dropper = "closing" => closed)
  BY DEF LifeInv
<1>1. ASSUME opener' \notin {"idle", "dial"} PROVE DialInv'
  BY <1>1 DEF DialInv
<1>2. ASSUME UNCHANGED <<reader, heartbeat, lost>>, closed => closed',
             opener' \in {"idle", "dial"} => opener \in {"idle", "dial"}
      PROVE  DialInv'
  BY <1>0, <1>2 DEF DialInv
<1>3. DialInv'
  <2>1. CASE opener \notin {"idle", "dial"}
    <3>1. opener' \notin {"idle", "dial"}
      BY <2>1
      DEF Next, Opening, Connect, Dialled, DialFails, Started, Tuned, Opened, OpenChannel,
          ChannelOpened, OpeningFails, OpenerFails, OpenerRejected, Proceed, CallRefused, Call,
          CallReturns, ReceiveWoken, ReadFrame, ReadFatal, HeartbeatChecks, HeartbeatSent, Tick,
          Close, CloseWritten, CloseAnswered, CloseReleases, Closed, ForceDrop, Dropped, Delivers,
          PeerHeartbeat, PeerEnds, Severed, Pause, Resume, vars
    <3> QED
      BY <1>1, <3>1
  <2>2. CASE opener \in {"idle", "dial"}
    <3>0. reader = "off" /\ heartbeat = "off" /\ (lost => closed)
      BY <1>0, <2>2 DEF DialInv
    <3>1. CASE Connect \/ CloseWritten \/ CloseAnswered \/ Closed \/ Delivers \/ PeerEnds
               \/ Severed \/ Pause \/ Resume
               \/ (\E c \in Calls : CallRefused(c) \/ Call(c) \/ CallReturns(c)) \/ ReceiveWoken
      BY <1>2, <2>2, <3>1
      DEF Connect, CloseWritten, CloseAnswered, Closed, Delivers, PeerEnds, Severed, Pause, Resume,
          CallRefused, Call, CallReturns, ReceiveWoken, lossVars, watchVars
    <3>2. CASE Dialled \/ DialFails
      BY <1>1, <3>2 DEF Dialled, DialFails, OpenerFails
    <3>3. CASE Started \/ Tuned \/ Opened \/ OpenChannel \/ ChannelOpened \/ OpeningFails
      BY <2>2, <3>3
      DEF Started, Tuned, Opened, OpenChannel, ChannelOpened, OpeningFails, Answered, Handshake
    <3>4. CASE ReadFrame \/ ReadFatal \/ HeartbeatChecks \/ HeartbeatSent \/ PeerHeartbeat
      BY <3>0, <3>4 DEF ReadFrame, ReadFatal, HeartbeatChecks, HeartbeatSent, PeerHeartbeat
    <3>5. CASE Tick
      BY <2>2, <3>0, <3>5 DEF Tick, DialInv, lossVars
    <3>6. CASE Close \/ CloseReleases \/ ForceDrop
      BY <2>2, <3>0, <3>6 DEF Close, CloseReleases, ForceDrop, Stopped, DialInv, lossVars, watchVars
    <3>7. CASE Dropped
      BY <1>0, <3>0, <3>7 DEF Dropped, Stopped, DialInv, watchVars
    <3>8. CASE UNCHANGED vars
      BY <1>2, <3>8 DEF vars, lossVars, watchVars
    <3> QED
      BY <3>1, <3>2, <3>3, <3>4, <3>5, <3>6, <3>7, <3>8 DEF Next, Opening
  <2> QED
    BY <2>1, <2>2
<1>4. dropper' = "closing" => closed'
  <2>1. ForceDrop \/ dropper' = "done" \/ (dropper' = dropper /\ (closed => closed'))
    BY
    DEF Next, Opening, Connect, Dialled, DialFails, Started, Tuned, Opened, OpenChannel,
        ChannelOpened, OpeningFails, CallRefused, Call,
        CallReturns, ReceiveWoken, ReadFrame, ReadFatal, HeartbeatChecks, HeartbeatSent, Tick,
        Close, CloseWritten, CloseAnswered, CloseReleases, Closed, Dropped, Delivers,
        PeerHeartbeat, PeerEnds, Severed, Pause, Resume, vars
  <2> QED
    BY <1>0, <2>1 DEF ForceDrop
<1> QED
  BY <1>3, <1>4

LEMMA WatchKept == ASSUME LifeInv, [Next]_vars, ~Stalls PROVE WatchInv'
<1>0. /\ WatchInv /\ TypeOK /\ silent \in Nat /\ silent' \in Nat
  <2>1. silent \in 0..MaxSilence /\ silent' \in 0..MaxSilence
    BY LossSteps DEF LifeInv, TypeOK
  <2> QED
    BY <2>1 DEF LifeInv
<1>1. ASSUME UNCHANGED <<closed, lost, watchVars>>, sm' = sm \/ sm' # "OPEN_OK" PROVE WatchInv'
  BY <1>0, <1>1 DEF WatchInv, watchVars
<1>2. CASE Connect \/ Dialled \/ DialFails \/ Started \/ Tuned \/ OpenChannel
           \/ ChannelOpened \/ OpeningFails
           \/ (\E c \in Calls : CallRefused(c) \/ Call(c) \/ CallReturns(c)) \/ ReceiveWoken
           \/ CloseWritten \/ CloseAnswered \/ CloseReleases \/ Closed
           \/ Delivers \/ PeerEnds \/ Severed \/ Pause \/ Resume
  BY <1>1, <1>2
  DEF Connect, Dialled, DialFails, Started, Tuned, Proceed, OpenerRejected, OpenChannel,
      ChannelOpened, OpeningFails, CallRefused, Call, CallReturns, ReceiveWoken, CloseWritten,
      CloseAnswered, CloseReleases, Closed, Delivers, PeerEnds, Severed, Pause, Resume, lossVars,
      stateVars
<1>3. CASE Opened
  BY <1>0, <1>1, <1>3 DEF Opened, OpenerRejected, WatchInv, lossVars
<1>4. CASE ReadFrame \/ PeerHeartbeat
  BY <1>0, <1>4 DEF ReadFrame, PeerHeartbeat, WatchInv, stateVars, lossVars
<1>5. CASE ReadFatal \/ Dropped
  BY <1>5, NotifyType DEF ReadFatal, Dropped, WatchInv
<1>6. ASSUME SendHeartbeat, UNCHANGED <<sm, closed, silent>>,
             sm = "OPEN_OK" /\ ~closed /\ ~lost => silent <= MissLimit
      PROVE  WatchInv'
  <2>1. CASE lost' = TRUE
    BY <2>1 DEF WatchInv
  <2>2. CASE lost' # TRUE
    <3>1. UNCHANGED lost /\ heartbeat' \in {"sleeping", "stuck"}
      BY <1>6, <2>2, SendType DEF lossVars
    <3> QED
      BY <1>6, <3>1 DEF WatchInv
  <2> QED
    BY <2>1, <2>2
<1>7. CASE HeartbeatChecks
  <2>1. UNCHANGED <<sm, closed, silent>> /\ heartbeat = "due"
    BY <1>7 DEF HeartbeatChecks, stateVars
  <2>2. CASE closed \/ lost
    BY <1>7, <2>1, <2>2 DEF HeartbeatChecks, WatchInv, lossVars
  <2>3. CASE ~(closed \/ lost) /\ Missed
    BY <1>7, <2>3, NotifyType DEF HeartbeatChecks, WatchInv
  <2>4. CASE ~(closed \/ lost) /\ ~Missed
    BY <1>0, <1>6, <1>7, <2>1, <2>4 DEF HeartbeatChecks, Missed
  <2> QED
    BY <2>2, <2>3, <2>4
<1>8. CASE HeartbeatSent
  BY <1>0, <1>6, <1>8 DEF HeartbeatSent, WatchInv, stateVars
<1>9. CASE Tick
  BY <1>0, <1>9 DEF Tick, WatchInv, lossVars, stateVars, TypeOK
<1>10. CASE Close \/ ForceDrop
  BY <1>10 DEF Close, ForceDrop, WatchInv
<1>11. CASE UNCHANGED vars
  BY <1>1, <1>11 DEF vars, lossVars, stateVars
<1> QED
  BY <1>2, <1>3, <1>4, <1>5, <1>7, <1>8, <1>9, <1>10, <1>11 DEF Next, Opening

\* The invariant holds, for any constants and any calls.
THEOREM Life == Spec => []LifeInv
<1>1. Init => LifeInv
  <2> SUFFICES ASSUME Init PROVE LifeInv
    OBVIOUS
  <2>1. Waits
    BY DEF Init, Waits
  <2>2. Scalars
    BY DEF Init, Scalars
  <2>3. /\ lost \in BOOLEAN /\ told \in 0..1 /\ deliveries \in Seq({"message", "loss"})
        /\ heartbeat \in {"off", "sleeping", "due", "stuck"} /\ silent \in 0..MaxSilence
        /\ wire \in Seq(Frames)
    <3>1. /\ lost = FALSE /\ told = 0 /\ deliveries = <<>> /\ heartbeat = "off" /\ silent = 0
          /\ wire = <<>>
      BY DEF Init
    <3>2. silent \in 0..MaxSilence /\ told \in 0..1
      BY <3>1
    <3>3. deliveries \in Seq({"message", "loss"}) /\ wire \in Seq(Frames)
      BY <3>1
    <3> QED
      BY <3>1, <3>2, <3>3
  <2>4. TypeOK
    BY <2>1, <2>2, <2>3 DEF TypeOK, Waits, Scalars
  <2>5. told = (IF lost THEN 1 ELSE 0) /\ (dropper = "closing" => closed)
    <3>1. told = 0 /\ lost = FALSE /\ dropper = "idle"
      BY DEF Init
    <3> QED
      BY <3>1
  <2>6. DialInv /\ ReadingInv /\ WatchInv
    BY DEF Init, DialInv, ReadingInv, WatchInv
  <2> QED
    BY <2>4, <2>5, <2>6 DEF LifeInv
<1>2. LifeInv /\ [Next]_vars => LifeInv'
  BY TypeKept, ReadingKept, DialKept, WatchKept DEF LifeInv
<1> QED
  BY <1>1, <1>2, PTL DEF Spec

\* Every variable has its type; among them told, so that the session is called
\* once for a loss, whoever notices it and however often.
THEOREM TypeCorrect == Spec => []TypeOK
<1>1. LifeInv => TypeOK
  BY DEF LifeInv
<1> QED
  BY <1>1, Life, PTL

\* A read loop on a lost connection has its end ahead of it, or reads a socket
\* that is being dropped, whichever of _heartbeat_loop, a failing write and
\* force_drop() noticed the loss.
THEOREM LossReachesReader == Spec => []LossEndsReading
<1>1. LifeInv => LossEndsReading
  BY DEF LifeInv, ReadingInv, EndComes, LossEndsReading
<1> QED
  BY <1>1, Life, PTL

\* _heartbeat_loop notices a silent peer within two intervals and one of its
\* own sleeps, if no drain() holds it for longer than it sleeps.
THEOREM WatchdogInTime ==
  ASSUME ~Stalls
  PROVE  Spec => []SilenceNoticed
<1>1. LifeInv => SilenceNoticed
  <2> SUFFICES ASSUME LifeInv, sm = "OPEN_OK" /\ ~closed /\ ~lost PROVE silent <= MissLimit + 1
    BY DEF SilenceNoticed
  <2>1. silent \in Nat /\ silent <= IF heartbeat = "due" THEN MissLimit + 1 ELSE MissLimit
    BY DEF LifeInv, TypeOK, WatchInv
  <2> QED
    BY <2>1
<1> QED
  BY <1>1, Life, PTL

-----------------------------------------------------------------------------
(* The table of waiters. *)

\* Nothing is filed or taken out, and nobody who is filed moves on.
LEMMA FiledStays ==
  ASSUME FiledInv, waiters' = waiters,
         \A x \in Owners : fut'[x] = "pending" => fut[x] = "pending",
         \A c \in Calls : call[c] = "waiting" => call'[c] = "waiting",
         opener \in Handshake => opener' = opener,
         closer = "close-ok" => closer' = closer
  PROVE  FiledInv'
<1>1. \A k \in Keys : MayFile(k, waiters[k])'
  BY DEF FiledInv, MayFile
<1> QED
  BY <1>1 DEF FiledInv

\* x's future is filed in a place that is free.
LEMMA AskFiles ==
  ASSUME TypeOK, FiledInv, NEW x \in Owners, NEW key \in Keys,
         waiters' = [waiters EXCEPT ![key] = x], fut' = [fut EXCEPT ![x] = "pending"],
         waiters[key] \in {Nobody, x},
         \A k \in Keys : waiters[k] = x => k = key,
         MayFile(key, x)',
         \A k \in Keys : \A y \in Owners \cup {Nobody} : y # x /\ MayFile(k, y) => MayFile(k, y)'
  PROVE  FiledInv'
<1>1. /\ waiters'[key] = x /\ \A k \in Keys \ {key} : waiters'[k] = waiters[k]
      /\ \A y \in Owners \ {x} : fut'[y] = fut[y]
      /\ \A k \in Keys : waiters[k] \in Owners \cup {Nobody}
  BY DEF TypeOK
<1>2. \A k \in Keys : MayFile(k, waiters[k])'
  <2> SUFFICES ASSUME NEW k \in Keys PROVE MayFile(k, waiters[k])'
    OBVIOUS
  <2>1. CASE k = key
    BY <1>1, <2>1 DEF MayFile
  <2>2. CASE k # key
    <3>1. PICK y \in Owners \cup {Nobody} : y = waiters[k]
      BY <1>1
    <3>2. y # x /\ MayFile(k, y)
      BY <2>2, <3>1 DEF FiledInv
    <3>3. waiters'[k] = y
      BY <1>1, <2>2, <3>1
    <3> QED
      BY <3>2, <3>3 DEF MayFile
  <2> QED
    BY <2>1, <2>2
<1>3. \A y \in Owners : fut'[y] = "pending" => \E k \in Keys : waiters'[k] = y
  <2> SUFFICES ASSUME NEW y \in Owners, fut'[y] = "pending", y # x
               PROVE  \E k \in Keys : waiters'[k] = y
    BY <1>1
  <2>1. PICK k \in Keys : waiters[k] = y
    BY <1>1 DEF FiledInv
  <2>2. k # key
    BY <2>1
  <2> QED
    BY <1>1, <2>1, <2>2
<1> QED
  BY <1>2, <1>3 DEF FiledInv

\* x's future is taken out of its place.
LEMMA LeaveFiles ==
  ASSUME TypeOK, FiledInv, NEW x \in Owners, NEW key \in Keys, Leave(x, key),
         waiters[key] \in {Nobody, x},
         \A k \in Keys : waiters[k] = x => k = key,
         \A k \in Keys : \A y \in Owners \cup {Nobody} : y # x /\ MayFile(k, y) => MayFile(k, y)'
  PROVE  FiledInv'
<1>1. /\ waiters'[key] = Nobody /\ \A k \in Keys \ {key} : waiters'[k] = waiters[k]
      /\ fut'[x] = "none" /\ \A y \in Owners \ {x} : fut'[y] = fut[y]
      /\ \A k \in Keys : waiters[k] \in Owners \cup {Nobody}
  BY DEF TypeOK, Leave
<1>2. \A k \in Keys : MayFile(k, waiters[k])'
  <2> SUFFICES ASSUME NEW k \in Keys PROVE MayFile(k, waiters[k])'
    OBVIOUS
  <2>1. CASE k = key
    BY <1>1, <2>1 DEF MayFile
  <2>2. CASE k # key
    <3>1. PICK y \in Owners \cup {Nobody} : y = waiters[k]
      BY <1>1
    <3>2. y # x /\ MayFile(k, y)
      BY <2>2, <3>1 DEF FiledInv
    <3>3. waiters'[k] = y
      BY <1>1, <2>2, <3>1
    <3> QED
      BY <3>2, <3>3 DEF MayFile
  <2> QED
    BY <2>1, <2>2
<1>3. \A y \in Owners : fut'[y] = "pending" => \E k \in Keys : waiters'[k] = y
  <2> SUFFICES ASSUME NEW y \in Owners, fut'[y] = "pending", y # x
               PROVE  \E k \in Keys : waiters'[k] = y
    BY <1>1
  <2>1. PICK k \in Keys : waiters[k] = y
    BY <1>1 DEF FiledInv
  <2>2. k # key
    BY <2>1
  <2> QED
    BY <1>1, <2>1, <2>2
<1> QED
  BY <1>2, <1>3 DEF FiledInv

\* Who is filed where.
LEMMA WhoIsFiled ==
  ASSUME TypeOK, FiledInv, Exclusive
  PROVE  /\ \A k \in Handshake : waiters[k] \in {Nobody, Opener}
         /\ \A k \in Keys : waiters[k] = Opener => k = opener /\ k \in Handshake
         /\ waiters["close-ok"] \in {Nobody, Closer}
         /\ \A k \in Keys : waiters[k] = Closer => k = "close-ok" /\ closer = "close-ok"
         /\ \A c \in Calls : \A k \in Keys : waiters[k] = c => k = KeyOf[c] /\ call[c] = "waiting"
         /\ \A c \in Calls : call[c] = "waiting" => waiters[KeyOf[c]] \in {Nobody, c}
         /\ \A c \in Calls : waiters[KeyOf[c]] \in Calls \cup {Nobody}
<1>1. \A k \in Keys : MayFile(k, waiters[k]) /\ waiters[k] \in Owners \cup {Nobody}
  BY DEF FiledInv, TypeOK
<1>2. /\ Opener \notin Calls /\ Closer \notin Calls /\ Nobody \notin Calls /\ Opener # Closer
      /\ Nobody # Opener /\ Nobody # Closer /\ "close-ok" \notin Handshake
  BY DEF Owners, Handshake
<1>3. \A c \in Calls : KeyOf[c] \in Keys /\ KeyOf[c] \notin Handshake /\ KeyOf[c] # "close-ok"
  BY FrameType
<1>4. Handshake \subseteq Keys /\ "close-ok" \in Keys
  BY FrameType
<1>5. \A k \in Handshake : waiters[k] \in {Nobody, Opener}
  BY <1>1, <1>2, <1>3, <1>4 DEF MayFile
<1>6. \A k \in Keys : waiters[k] = Opener => k = opener /\ k \in Handshake
  BY <1>1, <1>2 DEF MayFile
<1>7. waiters["close-ok"] \in {Nobody, Closer}
  BY <1>1, <1>2, <1>3, <1>4 DEF MayFile
<1>8. \A k \in Keys : waiters[k] = Closer => k = "close-ok" /\ closer = "close-ok"
  BY <1>1, <1>2 DEF MayFile
<1>9. \A c \in Calls : \A k \in Keys : waiters[k] = c => k = KeyOf[c] /\ call[c] = "waiting"
  BY <1>1, <1>2 DEF MayFile
<1>10. \A c \in Calls : waiters[KeyOf[c]] \in Calls \cup {Nobody}
  BY <1>1, <1>2, <1>3 DEF MayFile
<1>11. \A c \in Calls : call[c] = "waiting" => waiters[KeyOf[c]] \in {Nobody, c}
  BY <1>3, <1>9, <1>10 DEF Exclusive
<1> QED
  BY <1>5, <1>6, <1>7, <1>8, <1>9, <1>10, <1>11

LEMMA FiledKept ==
  ASSUME LifeInv, FiledInv, Exclusive, Exclusive', [Next]_vars
  PROVE  FiledInv'
<1>0. TypeOK /\ opener \in Handshake \cup {"idle", "dial", "connected", "ready", "failed"}
      /\ \A x \in Owners : fut[x] \in {"none", "pending", "ok", "lost"}
  BY DEF LifeInv, TypeOK
<1>a. /\ Opener \notin Calls /\ Closer \notin Calls /\ Nobody \notin Calls /\ Opener # Closer
      /\ Nobody # Opener /\ Nobody # Closer
      /\ "close-ok" \notin Handshake /\ "idle" \notin Handshake /\ "dial" \notin Handshake
      /\ "connected" \notin Handshake /\ "ready" \notin Handshake /\ "failed" \notin Handshake
  BY DEF Owners, Handshake
\* connect() and open_channel()
<1>1. CASE Connect \/ DialFails
  <2>1. opener \notin Handshake /\ UNCHANGED <<waiters, fut, call, closer>>
    BY <1>a, <1>1 DEF Connect, DialFails, waitVars
  <2> QED
    BY <2>1, FiledStays
<1>2. ASSUME NEW key \in Handshake, opener \notin Handshake,
             waiters' = [waiters EXCEPT ![key] = Opener], fut' = [fut EXCEPT ![Opener] = "pending"],
             opener' = key, UNCHANGED <<call, closer>>
      PROVE  FiledInv'
  <2>1. key \in Keys /\ waiters[key] \in {Nobody, Opener}
        /\ \A k \in Keys : waiters[k] = Opener => k = key
    BY <1>0, <1>2, FrameType, WhoIsFiled
  <2>2. \A k \in Keys : \A y \in Owners \cup {Nobody} : y # Opener /\ MayFile(k, y) => MayFile(k, y)'
    BY <1>2 DEF MayFile
  <2>3. MayFile(key, Opener)'
    BY <1>2 DEF MayFile
  <2> QED
    BY <1>0, <1>2, <2>1, <2>2, <2>3, FrameType, AskFiles
<1>3. CASE Dialled
  BY <1>a, <1>2, <1>3 DEF Dialled, Handshake
<1>4. ASSUME opener \in Handshake, Leave(Opener, opener), UNCHANGED <<call, closer>> PROVE FiledInv'
  <2>1. opener \in Keys /\ waiters[opener] \in {Nobody, Opener}
        /\ \A k \in Keys : waiters[k] = Opener => k = opener
    BY <1>0, <1>4, FrameType, WhoIsFiled
  <2>2. \A k \in Keys : \A y \in Owners \cup {Nobody} : y # Opener /\ MayFile(k, y) => MayFile(k, y)'
    BY <1>4 DEF MayFile
  <2> QED
    BY <1>0, <1>4, <2>1, <2>2, FrameType, LeaveFiles
<1>5. ASSUME NEW key \in Handshake, opener \in Handshake, key # opener, AskNext(key),
             opener' = key, UNCHANGED <<call, closer>>
      PROVE  FiledInv'
  <2>1. /\ waiters' = [waiters EXCEPT ![opener] = Nobody, ![key] = Opener]
        /\ fut' = [fut EXCEPT ![Opener] = "pending"]
    BY <1>5 DEF AskNext
  <2>2. /\ opener \in Keys /\ key \in Keys
        /\ waiters'[key] = Opener /\ waiters'[opener] = Nobody
        /\ \A k \in Keys \ {key, opener} : waiters'[k] = waiters[k] /\ waiters[k] # Opener
        /\ waiters[key] \in {Nobody, Opener} /\ waiters[opener] \in {Nobody, Opener}
        /\ \A x \in Owners \ {Opener} : fut'[x] = fut[x]
    BY <1>0, <1>5, <2>1, FrameType, WhoIsFiled DEF TypeOK
  <2>3. \A k \in Keys : MayFile(k, waiters[k])'
    <3> SUFFICES ASSUME NEW k \in Keys PROVE MayFile(k, waiters[k])'
      OBVIOUS
    <3>1. CASE k \in {key, opener}
      BY <1>5, <2>2, <3>1 DEF MayFile
    <3>2. CASE k \notin {key, opener}
      <4>1. MayFile(k, waiters[k]) /\ waiters'[k] = waiters[k] /\ waiters[k] # Opener
        BY <2>2, <3>2 DEF FiledInv
      <4> QED
        BY <1>5, <4>1 DEF MayFile
    <3> QED
      BY <3>1, <3>2
  <2>4. \A x \in Owners : fut'[x] = "pending" => \E k \in Keys : waiters'[k] = x
    <3> SUFFICES ASSUME NEW x \in Owners \ {Opener}, fut'[x] = "pending"
                 PROVE  \E k \in Keys : waiters'[k] = x
      BY <2>2
    <3>1. PICK k \in Keys : waiters[k] = x
      BY <2>2 DEF FiledInv
    <3>2. k \notin {key, opener}
      BY <1>a, <2>2, <3>1
    <3> QED
      BY <2>2, <3>1, <3>2
  <2> QED
    BY <2>3, <2>4 DEF FiledInv
<1>6. CASE Started \/ Tuned
  <2>1. CASE Started
    <3>1. opener = "start" /\ opener \in Handshake /\ UNCHANGED <<call, closer>>
      BY <2>1 DEF Started, Answered, Handshake
    <3>2. CASE AskNext("tune") /\ opener' = "tune"
      BY <1>5, <3>1, <3>2 DEF Handshake
    <3>3. CASE Leave(Opener, opener)
      BY <1>4, <3>1, <3>3
    <3> QED
      BY <2>1, <3>1, <3>2, <3>3 DEF Started, Proceed
  <2>2. CASE Tuned
    <3>1. opener = "tune" /\ opener \in Handshake /\ UNCHANGED <<call, closer>>
      BY <2>2 DEF Tuned, Answered, Handshake
    <3>2. CASE AskNext("open-ok") /\ opener' = "open-ok"
      BY <1>5, <3>1, <3>2 DEF Handshake
    <3>3. CASE Leave(Opener, opener)
      BY <1>4, <3>1, <3>3
    <3> QED
      BY <2>2, <3>1, <3>2, <3>3 DEF Tuned, Proceed
  <2> QED
    BY <1>6, <2>1, <2>2
<1>7. CASE Opened \/ ChannelOpened \/ OpeningFails
  <2>1. opener \in Handshake /\ Leave(Opener, opener) /\ UNCHANGED <<call, closer>>
    BY <1>7 DEF Opened, ChannelOpened, OpeningFails, Answered, Handshake
  <2> QED
    BY <1>4, <2>1
<1>8. CASE OpenChannel
  <2>1. opener \notin Handshake /\ UNCHANGED <<call, closer>>
    BY <1>a, <1>8 DEF OpenChannel
  <2>2. CASE Ask(Opener, "channel-open-ok") /\ opener' = "channel-open-ok"
    BY <1>2, <2>1, <2>2 DEF Ask, Handshake
  <2>3. CASE UNCHANGED waitVars
    BY <2>1, <2>3, FiledStays DEF waitVars
  <2> QED
    BY <1>8, <2>2, <2>3 DEF OpenChannel
\* Calls
<1>9. ASSUME NEW c \in Calls, CallRefused(c) \/ Call(c) \/ CallReturns(c) PROVE FiledInv'
  <2>1. CASE UNCHANGED waitVars /\ call[c] = "idle" /\ (\E how : CallEnds(c, how))
             /\ UNCHANGED <<opener, closer>>
    <3>1. \A d \in Calls : call[d] = "waiting" => call'[d] = "waiting"
      BY <1>0, <2>1 DEF CallEnds, TypeOK
    <3> QED
      BY <2>1, <3>1, FiledStays DEF waitVars
  <2>2. CASE /\ Ask(c, KeyOf[c]) /\ call[c] = "idle" /\ call' = [call EXCEPT ![c] = "waiting"]
             /\ UNCHANGED <<opener, closer>>
    <3>1. call'[c] = "waiting" /\ \A d \in Calls \ {c} : call'[d] = call[d]
      BY <1>0, <2>2 DEF TypeOK
    <3>2. KeyOf[c] \in Keys /\ c \in Owners
      BY FrameType
    <3>3. waiters[KeyOf[c]] = Nobody
      <4>1. \A d \in Calls : KeyOf[d] = KeyOf[c] => call[d] # "waiting"
        BY <2>2, <3>1 DEF Exclusive
      <4> QED
        BY <1>0, <3>2, <4>1, WhoIsFiled
    <3>4. \A k \in Keys : waiters[k] # c
      BY <1>0, <2>2, WhoIsFiled
    <3>5. \A k \in Keys : \A y \in Owners \cup {Nobody} : y # c /\ MayFile(k, y) => MayFile(k, y)'
      BY <2>2, <3>1 DEF MayFile
    <3>6. MayFile(KeyOf[c], c)'
      BY <3>1 DEF MayFile
    <3>7. waiters' = [waiters EXCEPT ![KeyOf[c]] = c] /\ fut' = [fut EXCEPT ![c] = "pending"]
      BY <2>2 DEF Ask
    <3> QED
      BY <1>0, <3>2, <3>3, <3>4, <3>5, <3>6, <3>7, AskFiles
  <2>3. CASE CallReturns(c)
    <3>1. Leave(c, KeyOf[c]) /\ call[c] = "waiting" /\ UNCHANGED <<opener, closer>>
      BY <2>3 DEF CallReturns
    <3>2. \A d \in Calls \ {c} : call'[d] = call[d]
      BY <1>0, <2>3 DEF CallReturns, CallEnds, TypeOK
    <3>3. KeyOf[c] \in Keys /\ c \in Owners
      BY FrameType
    <3>4. waiters[KeyOf[c]] \in {Nobody, c} /\ \A k \in Keys : waiters[k] = c => k = KeyOf[c]
      BY <1>0, <3>1, WhoIsFiled
    <3>5. \A k \in Keys : \A y \in Owners \cup {Nobody} : y # c /\ MayFile(k, y) => MayFile(k, y)'
      BY <3>1, <3>2 DEF MayFile
    <3> QED
      BY <1>0, <3>1, <3>3, <3>4, <3>5, LeaveFiles
  <2> QED
    BY <1>9, <2>1, <2>2, <2>3 DEF CallRefused, Call, MayCall
\* What only answers or fails a future.
<1>10. ASSUME waiters' = waiters, UNCHANGED <<call, opener, closer>>,
              \A x \in Owners : fut'[x] = "pending" => fut[x] = "pending"
       PROVE  FiledInv'
  BY <1>10, FiledStays
<1>11. ASSUME NotifyLoss PROVE \A x \in Owners : fut'[x] = "pending" => fut[x] = "pending"
  <2>1. fut' = fut \/ fut' = WaitersFailed
    BY <1>11 DEF NotifyLoss
  <2> QED
    BY <2>1 DEF WaitersFailed
<1>12. CASE ReadFrame
  BY <1>10, <1>12 DEF ReadFrame
<1>13. CASE ReceiveWoken \/ ReadFatal \/ Tick \/ ForceDrop \/ Dropped
            \/ Delivers \/ PeerHeartbeat \/ PeerEnds \/ Severed \/ Pause \/ Resume
  <2>1. NotifyLoss \/ fut' = fut
    BY <1>13 DEF ReceiveWoken, ReadFatal, Tick, ForceDrop, Dropped,
       Delivers, PeerHeartbeat, PeerEnds, Severed, Pause, Resume, waitVars
  <2>2. waiters' = waiters /\ UNCHANGED <<call, opener, closer>>
    BY <1>13 DEF ReceiveWoken, ReadFatal, Tick, ForceDrop, Dropped,
       Delivers, PeerHeartbeat, PeerEnds, Severed, Pause, Resume, waitVars
  <2> QED
    BY <1>10, <1>11, <2>1, <2>2
<1>14. CASE HeartbeatChecks \/ HeartbeatSent
  <2>1. NotifyLoss \/ fut' = fut
    BY <1>14 DEF HeartbeatChecks, HeartbeatSent, SendHeartbeat
  <2>2. waiters' = waiters /\ UNCHANGED <<call, opener, closer>>
    BY <1>14 DEF HeartbeatChecks, HeartbeatSent
  <2> QED
    BY <1>10, <1>11, <2>1, <2>2
\* close()
<1>15. CASE Close \/ CloseWritten
  <2>1. closer \in {"idle", "write"} /\ UNCHANGED <<call, opener>>
    BY <1>15 DEF Close, CloseWritten
  <2>2. CASE UNCHANGED waitVars
    BY <2>1, <2>2, FiledStays DEF waitVars
  <2>3. CASE Ask(Closer, "close-ok") /\ closer' = "close-ok"
    <3>1. /\ waiters' = [waiters EXCEPT !["close-ok"] = Closer]
          /\ fut' = [fut EXCEPT ![Closer] = "pending"]
      BY <2>3 DEF Ask
    <3>2. /\ "close-ok" \in Keys /\ Closer \in Owners /\ waiters["close-ok"] \in {Nobody, Closer}
          /\ \A k \in Keys : waiters[k] = Closer => k = "close-ok"
      BY <1>0, FrameType, WhoIsFiled
    <3>3. \A k \in Keys : \A y \in Owners \cup {Nobody} : y # Closer /\ MayFile(k, y) => MayFile(k, y)'
      BY <2>1 DEF MayFile
    <3>4. MayFile("close-ok", Closer)'
      BY <2>3 DEF MayFile
    <3> QED
      BY <1>0, <3>1, <3>2, <3>3, <3>4, AskFiles
  <2> QED
    BY <1>15, <2>2, <2>3 DEF Close, CloseWritten, SendClose
<1>16. CASE CloseAnswered
  <2>1. Leave(Closer, "close-ok") /\ UNCHANGED <<call, opener>>
    BY <1>16 DEF CloseAnswered
  <2>2. /\ "close-ok" \in Keys /\ Closer \in Owners /\ waiters["close-ok"] \in {Nobody, Closer}
        /\ \A k \in Keys : waiters[k] = Closer => k = "close-ok"
    BY <1>0, FrameType, WhoIsFiled
  <2>3. \A k \in Keys : \A y \in Owners \cup {Nobody} : y # Closer /\ MayFile(k, y) => MayFile(k, y)'
    BY <2>1 DEF MayFile
  <2> QED
    BY <1>0, <2>1, <2>2, <2>3, LeaveFiles
<1>17. CASE CloseReleases \/ Closed
  <2>1. closer # "close-ok" /\ UNCHANGED <<call, opener, waiters, fut>>
    BY <1>17 DEF CloseReleases, Closed, waitVars
  <2> QED
    BY <2>1, FiledStays
<1>18. CASE UNCHANGED vars
  BY <1>10, <1>18 DEF vars, waitVars
<1> QED
  BY <1>1, <1>3, <1>6, <1>7, <1>8, <1>9, <1>12, <1>13, <1>14, <1>15, <1>16, <1>17, <1>18
  DEF Next, Opening

\* What is filed stays in order, as long as no two calls await the same answer.
THEOREM Filed == Spec /\ []Exclusive => []FiledInv
<1>1. Init => FiledInv
  BY DEF Init, FiledInv, MayFile
<1>2. LifeInv /\ FiledInv /\ Exclusive /\ Exclusive' /\ [Next]_vars => FiledInv'
  BY FiledKept
<1> QED
  BY <1>1, <1>2, Life, PTL DEF Spec

\* _fail_waiters reaches every awaited answer: the loss leaves no future that
\* is pending, whichever task notified it.
THEOREM LossFailsAll == Spec /\ []Exclusive => LossFailsWaiters
<1>1. FiledInv /\ [Next]_vars =>
        [~lost /\ lost' => \A x \in Owners : fut[x] = "pending" => fut'[x] # "pending"]_vars
  <2> SUFFICES ASSUME FiledInv, [Next]_vars, ~lost, lost',
                      NEW x \in Owners, fut[x] = "pending"
               PROVE  fut'[x] # "pending"
    OBVIOUS
  <2>1. NotifyLoss
    BY
    DEF Next, Opening, Connect, Dialled, DialFails, Started, Tuned, Opened, OpenChannel,
        ChannelOpened, OpeningFails, CallRefused, Call, CallReturns, ReceiveWoken, ReadFrame,
        ReadFatal, HeartbeatChecks, HeartbeatSent, SendHeartbeat, Tick, Close, CloseWritten,
        CloseAnswered, CloseReleases, Closed, ForceDrop, Dropped, Delivers, PeerHeartbeat, PeerEnds,
        Severed, Pause, Resume, vars, lossVars
  <2>2. fut'[x] = "lost"
    BY <2>1 DEF NotifyLoss, AlreadyLost, WaitersFailed, FiledInv
  <2> QED
    BY <2>2
<1> QED
  BY <1>1, Filed, PTL DEF Spec, LossFailsWaiters

-----------------------------------------------------------------------------
(* Answers. *)

-----------------------------------------------------------------------------
(* Answers. *)

\* Frames that are not a call's answer, of the right kind.
Fits(f) ==
  /\ f.of = Opener => f.kind \in Handshake
  /\ f.of = Closer => f.kind = "close-ok"

\* No answer to a call is added or overtakes another.
Moves(d) ==
  \A i \in 1..Len(wire') :
    /\ Fits(wire'[i])
    /\ \/ wire'[i].of \notin Calls
       \/ i + d \in 1..Len(wire) /\ wire'[i] = wire[i + d]

LEMMA OldFits == ASSUME OwnInv, NEW i \in 1..Len(wire) PROVE Fits(wire[i])
  BY DEF OwnInv, Fits

LEMMA AddedMoves ==
  ASSUME TypeOK, OwnInv, NEW n \in 0..Len(wire), NEW f \in Frames, f.of \notin Calls, Fits(f),
         wire' = Append(SubSeq(wire, 1, n), f) \/ wire' = SubSeq(wire, 1, n)
  PROVE  Moves(0)
<1>0. wire \in Seq(Frames) /\ Len(wire) \in Nat
  BY DEF TypeOK
<1>1. /\ SubSeq(wire, 1, n) \in Seq(Frames) /\ Len(SubSeq(wire, 1, n)) = n
      /\ \A i \in 1..n : i \in 1..Len(wire) /\ SubSeq(wire, 1, n)[i] = wire[i]
  <2>1. \A i \in 1..n : i \in 1..Len(wire)
    BY <1>0
  <2> QED
    BY <1>0, <2>1
<1>2. \A i \in 1..n : Fits(wire[i])
  BY <1>1, OldFits
<1>3. CASE wire' = SubSeq(wire, 1, n)
  BY <1>0, <1>1, <1>2, <1>3 DEF Moves
<1>4. CASE wire' = Append(SubSeq(wire, 1, n), f)
  <2>1. /\ Len(wire') = n + 1 /\ wire'[n + 1] = f
        /\ \A i \in 1..n : wire'[i] = wire[i]
    BY <1>1, <1>4
  <2>2. \A i \in 1..(n + 1) : i = n + 1 \/ i \in 1..n
    BY <1>0
  <2>3. \A i \in 1..n : i + 0 = i
    BY <1>0
  <2>4. \A i \in 1..n : i + 0 \in 1..Len(wire) /\ wire'[i] = wire[i + 0] /\ Fits(wire'[i])
    BY <1>1, <1>2, <2>1, <2>3
  <2>5. Fits(wire'[n + 1]) /\ wire'[n + 1].of \notin Calls
    BY <2>1
  <2> SUFFICES ASSUME NEW i \in 1..Len(wire')
               PROVE  /\ Fits(wire'[i])
                      /\ \/ wire'[i].of \notin Calls
                         \/ i + 0 \in 1..Len(wire) /\ wire'[i] = wire[i + 0]
    BY DEF Moves
  <2>6. i = n + 1 \/ i \in 1..n
    BY <2>1, <2>2
  <2> QED
    BY <2>4, <2>5, <2>6
<1> QED
  BY <1>3, <1>4

LEMMA PlusMoves ==
  ASSUME TypeOK, OwnInv, NEW f \in Frames, f.of \notin Calls, Fits(f),
         wire' = Append(wire, f) \/ wire' = wire
  PROVE  Moves(0)
<1>1. wire \in Seq(Frames) /\ Len(wire) \in Nat
  BY DEF TypeOK
<1>2. SubSeq(wire, 1, Len(wire)) = wire /\ Len(wire) \in 0..Len(wire)
  BY <1>1
<1> QED
  BY <1>2, AddedMoves

LEMMA SameMoves == ASSUME TypeOK, OwnInv, wire' = wire PROVE Moves(0)
<1>1. Len(wire) \in Nat /\ \A i \in 1..Len(wire) : i + 0 = i /\ Fits(wire[i])
  BY OldFits DEF TypeOK
<1> QED
  BY <1>1 DEF Moves

LEMMA WireMoves ==
  ASSUME LifeInv, OwnInv, [Next]_vars
  PROVE  Moves(0) \/ ReadFrame \/ \E c \in Calls : Call(c) /\ Ask(c, KeyOf[c])
<1>0. TypeOK /\ wire \in Seq(Frames)
  BY DEF LifeInv, TypeOK
<1>a. /\ Opener \notin Calls /\ Closer \notin Calls /\ Nobody \notin Calls /\ Opener # Closer
      /\ Nobody # Opener /\ Nobody # Closer
  BY DEF Owners
<1>1. ASSUME NEW key \in Handshake,
             wire' = IF peer = "up" THEN Append(wire, [kind |-> key, of |-> Opener]) ELSE wire
      PROVE  Moves(0)
  <2> DEFINE f == [kind |-> key, of |-> Opener]
  <2>1. f \in Frames /\ f.of \notin Calls /\ Fits(f)
    BY <1>a, FrameType DEF Fits
  <2>2. wire' = Append(wire, f) \/ wire' = wire
    BY <1>1
  <2> HIDE DEF f
  <2> QED
    BY <1>0, <2>1, <2>2, PlusMoves
<1>2. ASSUME wire' = IF peer = "up" THEN Append(wire, [kind |-> "close-ok", of |-> Closer]) ELSE wire
      PROVE  Moves(0)
  <2> DEFINE f == [kind |-> "close-ok", of |-> Closer]
  <2>1. f \in Frames /\ f.of \notin Calls /\ Fits(f)
    BY <1>a, FrameType DEF Fits
  <2>2. wire' = Append(wire, f) \/ wire' = wire
    BY <1>2
  <2> HIDE DEF f
  <2> QED
    BY <1>0, <2>1, <2>2, PlusMoves
<1>3. ASSUME NEW how \in {"deliver", "reject", "error"}, NEW n \in 0..Len(wire),
             \/ wire' = Append(wire, [kind |-> how, of |-> Nobody])
             \/ wire' = Append(SubSeq(wire, 1, n), [kind |-> how, of |-> Nobody])
             \/ wire' = SubSeq(wire, 1, n)
      PROVE  Moves(0)
  <2> DEFINE f == [kind |-> how, of |-> Nobody]
  <2>1. f \in Frames /\ f.of \notin Calls /\ Fits(f)
    BY <1>a, FrameType DEF Fits
  <2>2. wire' = Append(wire, f) \/ wire' = Append(SubSeq(wire, 1, n), f) \/ wire' = SubSeq(wire, 1, n)
    BY <1>3
  <2> HIDE DEF f
  <2> QED
    BY <1>0, <2>1, <2>2, PlusMoves, AddedMoves
<1>4. ASSUME wire' = wire PROVE Moves(0)
  BY <1>0, <1>4, SameMoves
<1>5. CASE Connect \/ DialFails \/ Opened \/ ChannelOpened \/ OpeningFails \/ ReceiveWoken
           \/ HeartbeatSent \/ Tick \/ CloseAnswered \/ CloseReleases \/ Closed \/ Dropped \/ PeerHeartbeat
           \/ Pause \/ Resume \/ UNCHANGED vars
  BY <1>4, <1>5 DEF Connect, DialFails, Opened, ChannelOpened, OpeningFails, ReceiveWoken,
     HeartbeatSent, Tick, CloseAnswered, CloseReleases, Closed, Dropped, PeerHeartbeat, Pause, Resume, vars
<1>6. CASE Dialled
  <2>1. wire' = <<[kind |-> "start", of |-> Opener]>>
    BY <1>6 DEF Dialled
  <2>2. Len(wire') = 1 /\ wire'[1].of = Opener /\ wire'[1].kind \in Handshake
    BY <2>1 DEF Handshake
  <2>3. \A i \in 1..Len(wire') : i = 1
    BY <2>2
  <2>4. Fits(wire'[1]) /\ wire'[1].of \notin Calls
    BY <1>a, <2>2 DEF Fits
  <2> SUFFICES ASSUME NEW i \in 1..Len(wire')
               PROVE  Fits(wire'[i]) /\ wire'[i].of \notin Calls
    BY DEF Moves
  <2>5. i = 1
    BY <2>3
  <2> QED
    BY <2>4, <2>5
<1>7. CASE Started \/ Tuned \/ OpenChannel
  <2>1. "tune" \in Handshake /\ "open-ok" \in Handshake /\ "channel-open-ok" \in Handshake
    BY DEF Handshake
  <2> QED
    BY <1>1, <1>4, <1>7, <2>1 DEF Started, Tuned, OpenChannel, Proceed, AskNext, Ask
<1>8. CASE Close \/ CloseWritten
  BY <1>2, <1>4, <1>8 DEF Close, CloseWritten, SendClose, Ask
<1>9. ASSUME NEW c \in Calls, CallRefused(c) \/ Call(c) \/ CallReturns(c)
      PROVE  Moves(0) \/ (Call(c) /\ Ask(c, KeyOf[c]))
  BY <1>4, <1>9 DEF CallRefused, Call, CallReturns
<1>10. CASE ReadFatal
  <2>1. Len(wire') = 0
    BY <1>10 DEF ReadFatal
  <2> QED
    BY <2>1 DEF Moves
<1>12. CASE HeartbeatChecks \/ ForceDrop
  BY <1>4, <1>12 DEF HeartbeatChecks, ForceDrop
<1>13. CASE Delivers
  <2>1. 0 \in 0..Len(wire)
    BY <1>0
  <2> QED
    BY <1>3, <1>13, <2>1 DEF Delivers
<1>14. CASE PeerEnds \/ Severed
  <2>1. PICK n \in 0..Len(wire) :
          \/ \E how \in Fatal : wire' = Append(SubSeq(wire, 1, n), [kind |-> how, of |-> Nobody])
          \/ wire' = SubSeq(wire, 1, n)
    BY <1>14 DEF PeerEnds, Severed, StreamEnds
  <2> QED
    BY <1>3, <2>1 DEF Fatal
<1> QED
  BY <1>5, <1>6, <1>7, <1>8, <1>9, <1>10, <1>12, <1>13, <1>14 DEF Next, Opening

\* Which steps touch the calls of a connection that is not lost.
LEMMA CallsMove ==
  ASSUME LifeInv, [Next]_vars
  PROVE  \/ lost'
         \/ ReadFrame
         \/ \E c \in Calls : CallRefused(c) \/ Call(c) \/ CallReturns(c)
         \/ /\ call' = call
            /\ \A c \in Calls : fut'[c] = fut[c] /\ answer'[c] = answer[c]
            /\ Dialled \/ (reader' = "on" => reader = "on")
            /\ ~lost
<1>0. TypeOK /\ Opener \in Owners /\ Closer \in Owners /\ Calls \subseteq Owners
      /\ Opener \notin Calls /\ Closer \notin Calls
  BY FrameType DEF LifeInv
<1>1. ASSUME NEW x \in {Opener, Closer}, waitVars' = waitVars \/ (fut' = [fut EXCEPT ![x] = fut'[x]] /\ answer' = answer)
      PROVE  \A c \in Calls : fut'[c] = fut[c] /\ answer'[c] = answer[c]
  BY <1>0, <1>1 DEF waitVars, TypeOK
<1>2. CASE Connect \/ DialFails \/ Started \/ Tuned \/ Opened \/ OpenChannel \/ ChannelOpened
           \/ OpeningFails \/ Close \/ CloseWritten \/ CloseAnswered \/ CloseReleases \/ Closed
  <2>1. call' = call /\ (reader' = "on" => reader = "on") /\ lost' = lost
    BY <1>2 DEF Connect, DialFails, Started, Tuned, Opened, OpenChannel, ChannelOpened,
       OpeningFails, Close, CloseWritten, CloseAnswered, CloseReleases, Closed, Stopped, lossVars
  <2>2. \/ waitVars' = waitVars
        \/ \E x \in {Opener, Closer} : \E v \in {"none", "pending"} :
             fut' = [fut EXCEPT ![x] = v] /\ answer' = answer
    <3>1. CASE Started \/ Tuned \/ Opened \/ OpenChannel \/ ChannelOpened \/ OpeningFails
      BY <3>1 DEF Started, Tuned, Opened, OpenChannel, ChannelOpened, OpeningFails, Proceed,
         Leave, AskNext, Ask
    <3>2. CASE Close \/ CloseWritten \/ CloseAnswered
      BY <3>2 DEF Close, CloseWritten, CloseAnswered, SendClose, Ask, Leave
    <3>3. CASE Connect \/ DialFails \/ CloseReleases \/ Closed
      BY <3>3 DEF Connect, DialFails, CloseReleases, Closed
    <3> QED
      BY <1>2, <3>1, <3>2, <3>3
  <2>3. \A c \in Calls : fut'[c] = fut[c] /\ answer'[c] = answer[c]
    BY <1>0, <2>2 DEF waitVars, TypeOK
  <2> QED
    BY <2>1, <2>3
<1>3. CASE Dialled
  <2>1. fut' = [fut EXCEPT ![Opener] = "pending"] /\ answer' = answer /\ call' = call /\ lost' = lost
    BY <1>3 DEF Dialled, lossVars
  <2> QED
    BY <1>0, <1>3, <2>1 DEF TypeOK
<1>4. CASE ReceiveWoken \/ Tick \/ ForceDrop \/ Delivers \/ PeerHeartbeat \/ PeerEnds \/ Severed \/ Pause \/ Resume
           \/ UNCHANGED vars
  <2>1. UNCHANGED <<call, fut, answer, reader, lost>>
    BY <1>4 DEF ReceiveWoken, Tick, ForceDrop, Delivers, PeerHeartbeat, PeerEnds, Severed, Pause, Resume,
       vars, waitVars, lossVars
  <2> QED
    BY <2>1
<1>5. CASE ReadFatal \/ Dropped
  BY <1>5, NotifyType DEF ReadFatal, Dropped
<1>6. CASE HeartbeatChecks \/ HeartbeatSent
  <2>1. lost' = TRUE \/ UNCHANGED <<call, fut, answer, reader, lost>>
    BY <1>6, NotifyType, SendType DEF HeartbeatChecks, HeartbeatSent, lossVars
  <2> QED
    BY <2>1
<1> QED
  BY <1>2, <1>3, <1>4, <1>5, <1>6 DEF Next, Opening

\* What is under way stays in order when no call's answer is added.
LEMMA ComingStays ==
  ASSUME TypeOK, \A i \in 1..Len(wire) : ComingInv(i), NEW d \in 0..1,
         \A i \in 1..Len(wire') : \/ wire'[i].of \notin Calls
                                  \/ i + d \in 1..Len(wire) /\ wire'[i] = wire[i + d],
         \A i \in 1..Len(wire') :
           wire'[i].of \in Calls => call'[wire'[i].of] = "waiting" /\ fut'[wire'[i].of] = "pending"
  PROVE  \A i \in 1..Len(wire') : ComingInv(i)'
<1> SUFFICES ASSUME NEW i \in 1..Len(wire'), wire'[i].of \in Calls PROVE ComingInv(i)'
  BY DEF ComingInv
<1>1. i + d \in 1..Len(wire) /\ wire'[i] = wire[i + d] /\ ComingInv(i + d)
  OBVIOUS
<1>2. ASSUME NEW j \in 1..Len(wire'), wire'[j].of = wire'[i].of PROVE j = i
  <2>1. j + d \in 1..Len(wire) /\ wire'[j] = wire[j + d]
    BY <1>2
  <2>2. j + d = i + d
    BY <1>1, <1>2, <2>1 DEF ComingInv
  <2>3. i \in Nat /\ j \in Nat /\ d \in Nat
    BY DEF TypeOK
  <2> QED
    BY <2>2, <2>3
<1> QED
  BY <1>1, <1>2 DEF ComingInv

LEMMA OwnKept ==
  ASSUME ~Slow, LifeInv, FiledInv, OwnInv, Exclusive, Exclusive', [Next]_vars
  PROVE  OwnInv'
<1>0. /\ TypeOK /\ wire \in Seq(Frames) /\ lost \in BOOLEAN /\ lost' \in BOOLEAN
      /\ reader \in {"off", "on", "ended", "raised"}
  BY TypeKept DEF LifeInv, TypeOK
<1>a. Opener \notin Calls /\ Closer \notin Calls /\ Nobody \notin Calls /\ Calls \subseteq Owners
  BY DEF Owners
<1>1. ASSUME Moves(0) PROVE \A i \in 1..Len(wire') : Fits(wire'[i])
  BY <1>1 DEF Moves
<1>2. ASSUME \A i \in 1..Len(wire') : Fits(wire'[i]),
             reader' = "on" /\ ~lost' => \A i \in 1..Len(wire') : ComingInv(i)',
             ~lost' => \A c \in Calls : call'[c] = "ok" \/ fut'[c] = "ok" => answer'[c] = c
      PROVE  OwnInv'
  BY <1>2 DEF OwnInv, Fits
\* Once lost, nothing is claimed but the kinds of what is under way.
<1>3. ASSUME NEW c \in Calls, Call(c), Ask(c, KeyOf[c])
      PROVE  \A i \in 1..Len(wire') : \/ i \in 1..Len(wire) /\ wire'[i] = wire[i]
                                      \/ /\ wire'[i] = [kind |-> KeyOf[c], of |-> c]
                                         /\ i = Len(wire) + 1
  <2>1. wire' = Append(wire, [kind |-> KeyOf[c], of |-> c]) \/ wire' = wire
    BY <1>3 DEF Ask
  <2> QED
    BY <1>0, <2>1
<1>4. ASSUME NEW c \in Calls, Call(c), Ask(c, KeyOf[c]) PROVE OwnInv'
  <2>1. /\ call[c] = "idle" /\ UNCHANGED <<reader, lost, answer>>
        /\ call' = [call EXCEPT ![c] = "waiting"] \/ call' = [call EXCEPT ![c] = "failed"]
        /\ fut' = [fut EXCEPT ![c] = "pending"]
    BY <1>4 DEF Call, CallEnds, MayCall, Ask, lossVars
  <2>2. fut'[c] = "pending" /\ \A d \in Calls \ {c} : fut'[d] = fut[d] /\ call'[d] = call[d]
    BY <1>0, <1>a, <2>1 DEF TypeOK
  <2>3. call'[c] \in {"waiting", "failed"}
    BY <1>0, <2>1 DEF TypeOK
  <2>4. call'[c] = "waiting"
    <3>1. fut[c] # "pending"
      BY <1>0, <1>a, <2>1, WhoIsFiled DEF FiledInv
    <3>2. ~(UNCHANGED waitVars)
      BY <2>2, <3>1 DEF waitVars
    <3>3. call' = [call EXCEPT ![c] = "waiting"]
      BY <1>4, <3>2 DEF Call
    <3> QED
      BY <1>0, <3>3 DEF TypeOK
  <2>5. \A i \in 1..Len(wire') : Fits(wire'[i])
    <3>1. Fits([kind |-> KeyOf[c], of |-> c])
      BY <1>a DEF Fits
    <3> QED
      BY <1>3, <1>4, <3>1, OldFits
  <2>6. ASSUME reader' = "on", ~lost' PROVE \A i \in 1..Len(wire') : ComingInv(i)'
    <3>0. \A i \in 1..Len(wire) : ComingInv(i)
      BY <2>1, <2>6 DEF OwnInv
    <3>1. \A i \in 1..Len(wire) : wire[i].of # c
      BY <2>1, <3>0 DEF ComingInv
    <3> SUFFICES ASSUME NEW i \in 1..Len(wire'), wire'[i].of \in Calls PROVE ComingInv(i)'
      BY DEF ComingInv
    <3>2. CASE i \in 1..Len(wire) /\ wire'[i] = wire[i]
      <4>1. ComingInv(i) /\ wire[i].of # c
        BY <3>0, <3>1, <3>2
      <4>2. \A j \in 1..Len(wire') : wire'[j].of = wire'[i].of => j = i
        <5> SUFFICES ASSUME NEW j \in 1..Len(wire'), wire'[j].of = wire[i].of PROVE j = i
          BY <3>2
        <5>1. wire'[j].of # c
          BY <4>1
        <5>2. j \in 1..Len(wire) /\ wire'[j] = wire[j]
          <6>1. wire'[j] # [kind |-> KeyOf[c], of |-> c]
            BY <5>1
          <6> QED
            BY <1>3, <1>4, <6>1
        <5> QED
          BY <3>2, <4>1, <5>2 DEF ComingInv
      <4> QED
        BY <2>2, <3>2, <4>1, <4>2 DEF ComingInv
    <3>3. CASE wire'[i] = [kind |-> KeyOf[c], of |-> c] /\ i = Len(wire) + 1
      <4>1. \A j \in 1..Len(wire') : wire'[j].of = wire'[i].of => j = i
        BY <1>3, <1>4, <3>1, <3>3
      <4> QED
        BY <2>2, <2>4, <3>3, <4>1 DEF ComingInv
    <3> QED
      BY <1>3, <1>4, <3>2, <3>3
  <2>7. ~lost' => \A d \in Calls : call'[d] = "ok" \/ fut'[d] = "ok" => answer'[d] = d
    BY <2>1, <2>2, <2>4 DEF OwnInv
  <2> QED
    BY <1>2, <2>5, <2>6, <2>7
<1>5. CASE ReadFrame
  <2> DEFINE f == wire[1]
  <2>1. /\ wire # <<>> /\ f = Head(wire) /\ 1 \in 1..Len(wire) /\ f \in Frames
        /\ f.kind \notin Fatal /\ reader = "on" /\ lost' = lost /\ call' = call
        /\ wire' = Tail(wire)
        /\ \A i \in 1..Len(wire') : i + 1 \in 1..Len(wire) /\ wire'[i] = wire[i + 1]
    <3>1. wire # <<>> /\ wire' = Tail(wire) /\ Head(wire) = wire[1]
      BY <1>0, <1>5 DEF ReadFrame
    <3>2. Len(wire) \in Nat /\ Len(wire') = Len(wire) - 1 /\ 1 \in 1..Len(wire)
          /\ \A i \in 1..Len(wire') : wire'[i] = wire[i + 1]
      BY <1>0, <3>1
    <3>3. \A i \in 1..Len(wire') : i + 1 \in 1..Len(wire)
      BY <3>2
    <3>4. wire[1] \in Frames
      BY <1>0, <3>2
    <3> QED
      BY <1>5, <3>1, <3>2, <3>3, <3>4 DEF ReadFrame
  <2>2. \A i \in 1..Len(wire') : Fits(wire'[i])
    BY <2>1, OldFits
  <2>3. ASSUME NEW x \in Calls
        PROVE  \/ fut'[x] = fut[x] /\ answer'[x] = answer[x]
               \/ /\ f.kind # "deliver" /\ fut[x] = "pending" /\ waiters[f.kind] = x
                  /\ fut'[x] = "ok" /\ answer'[x] = f.of
    <3>1. x \in Owners
      BY <1>a
    <3>2. CASE f.kind # "deliver" /\ fut[x] = "pending" /\ Matches(x, f)
      BY <1>5, <2>1, <3>1, <3>2 DEF ReadFrame, Matches
    <3>3. CASE ~(f.kind # "deliver" /\ fut[x] = "pending" /\ Matches(x, f))
      BY <1>5, <2>1, <3>1, <3>3 DEF ReadFrame
    <3> QED
      BY <3>2, <3>3
  <2>4. ASSUME NEW x \in Calls, f.kind # "deliver", waiters[f.kind] = x, ~lost
        PROVE  f.of = x
    <3>1. f.kind \in Keys /\ f.of \in Owners
      BY <2>1, <2>4, FrameType DEF Fatal
    <3>2. f.kind = KeyOf[x] /\ call[x] = "waiting"
      BY <1>0, <2>4, <3>1, WhoIsFiled
    <3>3. Fits(f) /\ ComingInv(1)
      BY <2>1, <2>4, OldFits DEF OwnInv
    <3>4. f.kind \notin Handshake \cup {"close-ok"}
      BY <3>2
    <3>5. f.of \in Calls
      BY <3>1, <3>3, <3>4 DEF Fits, Owners
    <3>6. KeyOf[f.of] = f.kind /\ call[f.of] = "waiting"
      BY <3>3, <3>5 DEF ComingInv
    <3> QED
      BY <3>2, <3>5, <3>6 DEF Exclusive
  <2>5. ASSUME reader' = "on", ~lost' PROVE \A i \in 1..Len(wire') : ComingInv(i)'
    <3>0. \A i \in 1..Len(wire) : ComingInv(i)
      BY <2>1, <2>5 DEF OwnInv
    <3>1. ASSUME NEW i \in 1..Len(wire'), wire'[i].of \in Calls
          PROVE  call'[wire'[i].of] = "waiting" /\ fut'[wire'[i].of] = "pending"
      <4> DEFINE x == wire'[i].of
      <4>1. i + 1 \in 1..Len(wire) /\ wire'[i] = wire[i + 1] /\ ComingInv(i + 1)
        BY <2>1, <3>0
      <4>2. x = wire[i + 1].of /\ call[x] = "waiting" /\ fut[x] = "pending" /\ x \in Calls
        BY <3>1, <4>1 DEF ComingInv
      <4>3. f.of # x
        <5>1. 1 # i + 1 /\ wire[i + 1].of \in Calls
          BY <2>1, <4>2
        <5> QED
          BY <2>1, <4>1, <4>2, <5>1 DEF ComingInv
      <4> HIDE DEF x, f
      <4>4. fut'[x] = fut[x]
        BY <2>1, <2>3, <2>4, <2>5, <4>2, <4>3
      <4> QED
        BY <2>1, <4>2, <4>4 DEF x
    <3>2. 1 \in 0..1
      OBVIOUS
    <3> QED
      BY <1>0, <2>1, <3>0, <3>1, <3>2, ComingStays
  <2>6. ~lost' => \A c \in Calls : call'[c] = "ok" \/ fut'[c] = "ok" => answer'[c] = c
    <3> SUFFICES ASSUME ~lost', NEW c \in Calls, call'[c] = "ok" \/ fut'[c] = "ok" PROVE answer'[c] = c
      OBVIOUS
    <3>1. CASE fut'[c] = fut[c] /\ answer'[c] = answer[c]
      BY <2>1, <3>1 DEF OwnInv
    <3>2. CASE f.kind # "deliver" /\ waiters[f.kind] = c /\ answer'[c] = f.of
      BY <2>1, <2>4, <3>2
    <3> QED
      BY <2>3, <3>1, <3>2
  <2> QED
    BY <1>2, <2>2, <2>5, <2>6
<1>6. ASSUME Moves(0), NEW c \in Calls, CallRefused(c) \/ Call(c) \/ CallReturns(c) PROVE OwnInv'
  <2>1. /\ UNCHANGED <<reader, lost, answer>> /\ call[c] # "ok"
        /\ \A d \in Calls \ {c} : call'[d] = call[d] /\ fut'[d] = fut[d]
    <3>1. CASE CallRefused(c)
      BY <1>0, <3>1 DEF CallRefused, MayCall, CallEnds, waitVars, lossVars, TypeOK
    <3>2. CASE Call(c)
      BY <1>0, <1>a, <3>2 DEF Call, MayCall, Ask, CallEnds, waitVars, lossVars, TypeOK
    <3>3. CASE CallReturns(c)
      BY <1>0, <1>a, <3>3 DEF CallReturns, CallEnds, Leave, lossVars, TypeOK
    <3> QED
      BY <1>6, <3>1, <3>2, <3>3
  <2>2. /\ fut'[c] = "ok" => fut[c] = "ok"
        /\ call'[c] = "ok" => fut[c] = "ok"
    <3>1. CASE CallRefused(c)
      BY <1>0, <3>1 DEF CallRefused, CallEnds, waitVars, TypeOK
    <3>2. CASE Call(c)
      BY <1>0, <1>a, <3>2 DEF Call, Ask, CallEnds, waitVars, TypeOK
    <3>3. CASE CallReturns(c)
      BY <1>0, <1>a, <3>3 DEF CallReturns, CallEnds, Leave, TypeOK
    <3> QED
      BY <1>6, <3>1, <3>2, <3>3
  <2>3. ASSUME reader' = "on", ~lost' PROVE \A i \in 1..Len(wire') : ComingInv(i)'
    <3>0. \A i \in 1..Len(wire) : ComingInv(i)
      BY <2>1, <2>3 DEF OwnInv
    <3>1. \A i \in 1..Len(wire) : wire[i].of # c
      <4> SUFFICES ASSUME NEW i \in 1..Len(wire), wire[i].of = c PROVE FALSE
        OBVIOUS
      <4>1. call[c] = "waiting" /\ fut[c] = "pending"
        BY <3>0 DEF ComingInv
      <4>2. CallReturns(c) /\ TimesOut(c)
        BY <1>6, <4>1 DEF CallRefused, Call, MayCall, CallReturns
      <4>3. ~Coming(c)
        BY <4>2 DEF TimesOut
      <4> QED
        BY <2>1, <2>3, <4>3 DEF Coming
    <3>2. \A i \in 1..Len(wire') :
            wire'[i].of \in Calls => call'[wire'[i].of] = "waiting" /\ fut'[wire'[i].of] = "pending"
      <4> SUFFICES ASSUME NEW i \in 1..Len(wire'), wire'[i].of \in Calls
                   PROVE  call'[wire'[i].of] = "waiting" /\ fut'[wire'[i].of] = "pending"
        OBVIOUS
      <4>1. i + 0 \in 1..Len(wire) /\ wire'[i] = wire[i + 0]
        BY <1>6 DEF Moves
      <4>2. ComingInv(i + 0) /\ wire'[i].of # c
        BY <3>0, <3>1, <4>1
      <4> QED
        BY <2>1, <4>1, <4>2 DEF ComingInv
    <3>3. 0 \in 0..1
      OBVIOUS
    <3> QED
      BY <1>0, <1>6, <3>0, <3>2, <3>3, ComingStays DEF Moves
  <2>4. ~lost' => \A d \in Calls : call'[d] = "ok" \/ fut'[d] = "ok" => answer'[d] = d
    BY <2>1, <2>2 DEF OwnInv
  <2> QED
    BY <1>1, <1>2, <1>6, <2>3, <2>4
<1>7. CASE Moves(0) /\ lost'
  BY <1>1, <1>2, <1>7
<1>8. CASE /\ Moves(0) /\ call' = call
           /\ \A c \in Calls : fut'[c] = fut[c] /\ answer'[c] = answer[c]
           /\ Dialled \/ (reader' = "on" => reader = "on")
           /\ ~lost
  <2>1. ASSUME reader' = "on", ~lost' PROVE \A i \in 1..Len(wire') : ComingInv(i)'
    <3>1. CASE Dialled
      <4>1. wire' = <<[kind |-> "start", of |-> Opener]>>
        BY <3>1 DEF Dialled
      <4>2. \A i \in 1..Len(wire') : wire'[i].of \notin Calls
        BY <1>a, <4>1
      <4> QED
        BY <4>2 DEF ComingInv
    <3>2. CASE reader = "on"
      <4>0. \A i \in 1..Len(wire) : ComingInv(i)
        BY <1>8, <3>2 DEF OwnInv
      <4>1. \A i \in 1..Len(wire') :
              wire'[i].of \in Calls => call'[wire'[i].of] = "waiting" /\ fut'[wire'[i].of] = "pending"
        <5> SUFFICES ASSUME NEW i \in 1..Len(wire'), wire'[i].of \in Calls
                     PROVE  call'[wire'[i].of] = "waiting" /\ fut'[wire'[i].of] = "pending"
          OBVIOUS
        <5>1. i + 0 \in 1..Len(wire) /\ wire'[i] = wire[i + 0]
          BY <1>8 DEF Moves
        <5>2. ComingInv(i + 0)
          BY <4>0, <5>1
        <5> QED
          BY <1>8, <5>1, <5>2 DEF ComingInv
      <4>2. 0 \in 0..1
        OBVIOUS
      <4> QED
        BY <1>0, <1>8, <4>0, <4>1, <4>2, ComingStays DEF Moves
    <3> QED
      BY <1>8, <2>1, <3>1, <3>2
  <2>2. ~lost' => \A c \in Calls : call'[c] = "ok" \/ fut'[c] = "ok" => answer'[c] = c
    BY <1>8 DEF OwnInv
  <2> QED
    BY <1>1, <1>2, <1>8, <2>1, <2>2
<1> QED
  BY <1>4, <1>5, <1>6, <1>7, <1>8, WireMoves, CallsMove

\* Until the loss a call returns the answer to its own request and not another
\* call's, as long as no two await the same kind at once and no answer comes
\* after its call has given up: _waiters tells them apart by kind alone.
THEOREM OwnAnswers ==
  ASSUME ~Slow
  PROVE  Spec /\ []Exclusive => []AnswerIsOwn
<1>1. Init => OwnInv
  <2> SUFFICES ASSUME Init PROVE OwnInv
    OBVIOUS
  <2>1. Len(wire) = 0 /\ reader = "off"
    BY DEF Init
  <2>2. \A c \in Calls : call[c] = "idle" /\ fut[c] = "none"
    BY DEF Init, Owners
  <2> QED
    BY <2>1, <2>2 DEF OwnInv
<1>2. LifeInv /\ FiledInv /\ OwnInv /\ Exclusive /\ Exclusive' /\ [Next]_vars => OwnInv'
  BY OwnKept
<1>3. OwnInv => AnswerIsOwn
  BY DEF OwnInv, AnswerIsOwn
<1> QED
  BY <1>1, <1>2, <1>3, Life, Filed, PTL DEF Spec
=============================================================================
