--------------------------- MODULE ServingProofs ---------------------------
(***************************************************************************)
(* Theorems about Serving, for any sets of requests and servers, any       *)
(* delivery limit and any number of connections lost.                      *)
(*                                                                         *)
(* The invariant says, consumer by consumer, where the requests are that   *)
(* the broker has given it: in its inbox, with its handler, or named by a  *)
(* frame it has written, in one of these places only (ConsumerInv).  A     *)
(* step is some consumer's, and leaves the others' part alone              *)
(* (OthersKeep).                                                           *)
(***************************************************************************)
EXTENDS Serving, TLAPS

USE ServingAssumption DEF ServingAssumption

-----------------------------------------------------------------------------
(* The invariant. *)

\* Without a connection a consumer holds nothing; a handler has a request.
LinkInv(c) ==
  /\ link[c] = "down" =>
       inbox[c] = <<>> /\ out[c] = <<>> /\ \A r \in Requests : place[r] # c
  /\ loop[c] = "handle" <=> job[c] # Nothing

\* The inbox has what c has not acked, each request once.
InboxInv(c) ==
  /\ \A i \in 1..Len(inbox[c]) : place[inbox[c][i]] = c
  /\ \A i, j \in 1..Len(inbox[c]) : inbox[c][i] = inbox[c][j] => i = j

\* The handler's request has left the inbox.
JobInv(c) ==
  job[c] # Nothing /\ link[c] = "up" => place[job[c]] = c /\ ~Has(inbox[c], job[c])

\* What is written is about a request that is past the inbox and the handler;
\* what settles it comes last, and an ack after the answer it owes.
FrameInv(c, i) ==
  /\ place[out[c][i].of] = c
  /\ ~Has(inbox[c], out[c][i].of)
  /\ job[c] # out[c][i].of
  /\ out[c][i].kind # "answer" =>
       \A j \in 1..Len(out[c]) : i < j => out[c][j].of # out[c][i].of
  /\ out[c][i].kind = "ack" /\ out[c][i].of \notin OneWay =>
       \/ out[c][i].of \in answered
       \/ \E j \in 1..Len(out[c]) :
            j < i /\ out[c][j].of = out[c][i].of /\ out[c][j].kind = "answer"

OutInv(c) == \A i \in 1..Len(out[c]) : FrameInv(c, i)

\* A frame of o settles r.
Settled(o, r) == \E i \in 1..Len(o) : o[i].of = r /\ o[i].kind # "answer"

\* HeldIsHandled, of one consumer.
HandledInv(c) ==
  \A r \in Requests :
    place[r] = c /\ loop[c] # "closed" =>
      Has(inbox[c], r) \/ job[c] = r \/ Settled(out[c], r) \/ loop[c] = "ended"

ConsumerInv(c) == LinkInv(c) /\ InboxInv(c) /\ JobInv(c) /\ OutInv(c) /\ HandledInv(c)

\* A request that is not published has no answer, and one that came back too
\* often is not given to a server again.
RequestInv(r) ==
  /\ place[r] = "none" => r \notin answered
  /\ returned[r] > Limit => place[r] \in {"dead", Processor, "settled"}

IInv ==
  /\ TypeOK
  /\ \A c \in Consumers : ConsumerInv(c)
  /\ \A r \in Requests : RequestInv(r)

-----------------------------------------------------------------------------
(* What a step leaves alone. *)

LEMMA Names ==
  /\ Processor \in Consumers /\ Servers \subseteq Consumers
  /\ \A c \in Consumers : c \notin {"none", "ready", "dead", "settled"}
  BY DEF Consumers

LEMMA FrameType ==
  ASSUME TypeOK, NEW c \in Consumers, NEW i \in 1..Len(out[c])
  PROVE  out[c][i] \in Frames /\ out[c][i].of \in Requests
<1>1. out[c] \in Seq(Frames)
  BY DEF TypeOK
<1>2. out[c][i] \in Frames
  BY <1>1
<1> QED
  BY <1>2 DEF Frames

\* A consumer's part stays as it is when its own state does, and the requests it
\* has stay with it.
LEMMA OthersKeep ==
  ASSUME NEW c \in Consumers, ConsumerInv(c),
         link'[c] = link[c], loop'[c] = loop[c], job'[c] = job[c],
         inbox'[c] = inbox[c], out'[c] = out[c],
         \A r \in Requests : place'[r] = c <=> place[r] = c,
         answered \subseteq answered', TypeOK
  PROVE  ConsumerInv(c)'
<1>0. inbox[c] \in Seq(Requests) /\ out[c] \in Seq(Frames) /\ job[c] \in Requests \cup {Nothing}
  BY DEF TypeOK
<1>1. LinkInv(c)'
  BY DEF ConsumerInv, LinkInv
<1>2. InboxInv(c)'
  BY <1>0 DEF ConsumerInv, InboxInv
<1>3. JobInv(c)'
  BY <1>0 DEF ConsumerInv, JobInv, Has
<1>4. OutInv(c)'
  <2> SUFFICES ASSUME NEW i \in 1..Len(out[c]) PROVE FrameInv(c, i)'
    BY DEF OutInv
  <2>1. FrameInv(c, i) /\ out[c][i].of \in Requests
    BY FrameType DEF ConsumerInv, OutInv
  <2> QED
    BY <2>1 DEF FrameInv, Has
<1>5. HandledInv(c)'
  BY <1>0 DEF ConsumerInv, HandledInv, Has
<1> QED
  BY <1>1, <1>2, <1>3, <1>4, <1>5 DEF ConsumerInv

-----------------------------------------------------------------------------
(* Types. *)

\* What the broker makes of a frame f from c.
Reads(c, f) ==
  \/ f.kind = "answer" /\ answered' = answered \cup {f.of} /\ UNCHANGED <<place, returned>>
  \/ f.kind = "ack" /\ place' = [place EXCEPT ![f.of] = "settled"]
     /\ UNCHANGED <<returned, answered>>
  \/ f.kind = "requeue" /\ place' = [place EXCEPT ![f.of] = Back(c, f.of)]
     /\ returned' = [returned EXCEPT ![f.of] = Count(c, f.of)] /\ UNCHANGED answered
  \/ f.kind = "discard" /\ place' = [place EXCEPT ![f.of] = "dead"]
     /\ UNCHANGED <<returned, answered>>

LEMMA ReadsHead ==
  ASSUME TypeOK, NEW c \in Consumers, BrokerReads(c)
  PROVE  /\ 1 \in 1..Len(out[c]) /\ out[c][1] \in Frames /\ out[c][1].of \in Requests
         /\ Reads(c, out[c][1])
         /\ out' = [out EXCEPT ![c] = Tail(out[c])] /\ Tail(out[c]) \in Seq(Frames)
         /\ Len(Tail(out[c])) = Len(out[c]) - 1
         /\ \A i \in 1..Len(Tail(out[c])) : Tail(out[c])[i] = out[c][i + 1]
         /\ UNCHANGED <<link, blocked, loop, job, inbox, stops>>
<1>1. out[c] \in Seq(Frames) /\ out[c] # <<>>
  BY DEF TypeOK, BrokerReads
<1>2. /\ 1 \in 1..Len(out[c]) /\ Head(out[c]) = out[c][1]
      /\ Tail(out[c]) \in Seq(Frames) /\ Len(Tail(out[c])) = Len(out[c]) - 1
      /\ \A i \in 1..Len(Tail(out[c])) : Tail(out[c])[i] = out[c][i + 1]
  BY <1>1
<1>3. out[c][1] \in Frames /\ out[c][1].of \in Requests
  BY <1>2, FrameType
<1>4. out[c][1].kind \in {"answer", "ack", "requeue", "discard"}
  BY <1>3 DEF Frames
<1>5. Reads(c, out[c][1])
  <2> DEFINE f == out[c][1]
  <2> HIDE DEF f
  <2>1. CASE f.kind = "answer"
    BY <1>2, <2>1 DEF BrokerReads, Reads, queueVars, f
  <2>2. CASE f.kind = "ack"
    BY <1>2, <2>2 DEF BrokerReads, Reads, f
  <2>3. CASE f.kind = "requeue"
    BY <1>2, <2>3 DEF BrokerReads, Reads, f
  <2>4. CASE f.kind = "discard"
    BY <1>2, <2>4 DEF BrokerReads, Reads, f
  <2> QED
    BY <1>4, <2>1, <2>2, <2>3, <2>4 DEF f
<1>6. /\ out' = [out EXCEPT ![c] = Tail(out[c])]
      /\ UNCHANGED <<link, blocked, loop, job, inbox, stops>>
  BY DEF BrokerReads, taskVars
<1> QED
  BY <1>2, <1>3, <1>5, <1>6

LEMMA Written ==
  ASSUME NEW D, NEW S, NEW f \in [D -> Seq(S)], NEW c \in D, NEW w \in Seq(S)
  PROVE  [f EXCEPT ![c] = @ \o w] \in [D -> Seq(S)]
<1>1. f[c] \o w \in Seq(S)
  OBVIOUS
<1> QED
  BY <1>1

LEMMA FramesOf ==
  ASSUME NEW r \in Requests
  PROVE  /\ Answer(r) \in Seq(Frames)
         /\ \A kind \in {"answer", "ack", "requeue", "discard"} :
              <<[kind |-> kind, of |-> r]>> \in Seq(Frames)
<1>1. \A kind \in {"answer", "ack", "requeue", "discard"} : [kind |-> kind, of |-> r] \in Frames
  BY DEF Frames
<1> QED
  BY <1>1 DEF Answer

\* One request in the queue more or less, an inbox or a frame more or less: the
\* functions keep their types.
LEMMA TypeKept == IInv /\ [Next]_vars => TypeOK'
<1> SUFFICES ASSUME IInv, [Next]_vars PROVE TypeOK'
  OBVIOUS
<1> USE Names DEF TypeOK
<1>0. TypeOK
  BY DEF IInv
<1>1. ASSUME NEW r \in Requests, Publish(r) \/ Expire(r) PROVE TypeOK'
  BY <1>0, <1>1 DEF Publish, Expire, taskVars
<1>2. ASSUME NEW c \in Consumers, Start(c) PROVE TypeOK'
  BY <1>0, <1>2 DEF Start, queueVars
<1>3. ASSUME NEW c \in Consumers, NEW r \in Requests, AnswerAndAck(c, r)
      PROVE  /\ loop' \in [Consumers -> {"off", "receive", "handle", "ended", "closed"}]
             /\ out' \in [Consumers -> Seq(Frames)]
  <2> DEFINE w == IF r \in OneWay THEN <<[kind |-> "ack", of |-> r]>> ELSE Answer(r)
  <2>1. w \in Seq(Frames)
    BY FramesOf
  <2>2. [out EXCEPT ![c] = @ \o w] \in [Consumers -> Seq(Frames)]
    <3> HIDE DEF w
    <3> QED
      BY <1>0, <2>1, Written
  <2>3. out' = out \/ out' = [out EXCEPT ![c] = @ \o w]
    BY <1>3 DEF AnswerAndAck
  <2>4. loop' \in [Consumers -> {"off", "receive", "handle", "ended", "closed"}]
    BY <1>0, <1>3 DEF AnswerAndAck
  <2> QED
    BY <1>0, <2>2, <2>3, <2>4
<1>4. ASSUME NEW c \in Consumers, Receive(c) PROVE TypeOK'
  <2>1. Head(inbox[c]) \in Requests /\ Tail(inbox[c]) \in Seq(Requests)
    BY <1>0, <1>4 DEF Receive
  <2>2. UNCHANGED <<queueVars, answered, link, blocked, stops>>
        /\ inbox' \in [Consumers -> Seq(Requests)]
    BY <1>0, <1>4, <2>1 DEF Receive
  <2>3. CASE c = Processor
    <3>1. AnswerAndAck(c, Head(inbox[c])) /\ UNCHANGED job
      BY <1>4, <2>3 DEF Receive
    <3> QED
      BY <1>0, <1>3, <2>1, <2>2, <3>1 DEF queueVars
  <2>4. CASE c # Processor
    <3>1. /\ job' = [job EXCEPT ![c] = Head(inbox[c])]
          /\ loop' = [loop EXCEPT ![c] = "handle"] /\ UNCHANGED out
      BY <1>4, <2>4 DEF Receive
    <3> QED
      BY <1>0, <2>1, <2>2, <3>1 DEF queueVars
  <2> QED
    BY <2>3, <2>4
<1>5. ASSUME NEW c \in Consumers, ReceiveRaises(c) \/ Close(c) \/ Block(c) PROVE TypeOK'
  <2>1. CASE ReceiveRaises(c)
    BY <1>0, <2>1 DEF ReceiveRaises, queueVars
  <2>2. CASE Close(c)
    BY <1>0, <2>2 DEF Close, queueVars
  <2>3. CASE Block(c)
    BY <1>0, <2>3 DEF Block, queueVars, taskVars
  <2> QED
    BY <1>5, <2>1, <2>2, <2>3
<1>6. ASSUME NEW c \in Consumers, NEW r \in Requests, RequestInv(r), place[r] = c
      PROVE  Count(c, r) \in 0..(Limit + 1) /\ Back(c, r) \in {"ready", "dead"}
  BY <1>0, <1>6 DEF RequestInv, Count, Back
<1>7. ASSUME NEW c \in Consumers, Disconnect(c), UNCHANGED <<taskVars>>, stops' \in Nat PROVE TypeOK'
  <2>1. returned' \in [Requests -> 0..(Limit + 1)]
    BY <1>0, <1>6, <1>7 DEF Disconnect, IInv
  <2>2. place' \in [Requests -> {"none", "ready", "dead", "settled"} \cup Consumers]
    BY <1>0, <1>6, <1>7 DEF Disconnect, IInv
  <2> QED
    BY <1>0, <1>7, <2>1, <2>2 DEF Disconnect, taskVars
<1>8. ASSUME NEW c \in Consumers, Drop(c) \/ Closed(c) PROVE TypeOK'
  <2>1. CASE Drop(c)
    BY <1>0, <1>7, <2>1 DEF Drop
  <2>2. CASE Closed(c)
    BY <1>0, <1>7, <2>2 DEF Closed
  <2> QED
    BY <1>8, <2>1, <2>2
<1>9. ASSUME NEW c \in Consumers, BrokerReads(c) PROVE TypeOK'
  <2> DEFINE f == out[c][1]
  <2>0. /\ 1 \in 1..Len(out[c]) /\ f.of \in Requests /\ Reads(c, f)
        /\ out' = [out EXCEPT ![c] = Tail(out[c])] /\ Tail(out[c]) \in Seq(Frames)
        /\ UNCHANGED <<link, blocked, loop, job, inbox, stops>>
    BY <1>0, <1>9, ReadsHead
  <2>1. out' \in [Consumers -> Seq(Frames)]
    BY <1>0, <2>0
  <2>2. RequestInv(f.of) /\ place[f.of] = c
    BY <2>0 DEF IInv, ConsumerInv, OutInv, FrameInv
  <2> HIDE DEF f
  <2>3. Count(c, f.of) \in 0..(Limit + 1) /\ Back(c, f.of) \in {"ready", "dead"}
    BY <1>6, <2>0, <2>2
  <2>4. /\ place' \in [Requests -> {"none", "ready", "dead", "settled"} \cup Consumers]
        /\ returned' \in [Requests -> 0..(Limit + 1)]
        /\ answered' \subseteq Requests
    <3>1. CASE f.kind = "requeue"
      <4>1. /\ place' = [place EXCEPT ![f.of] = Back(c, f.of)]
            /\ returned' = [returned EXCEPT ![f.of] = Count(c, f.of)] /\ UNCHANGED answered
        BY <2>0, <3>1 DEF Reads
      <4> QED
        BY <1>0, <2>0, <2>3, <4>1
    <3>2. CASE f.kind # "requeue"
      <4>1. /\ place' = place \/ \E x \in {"settled", "dead"} : place' = [place EXCEPT ![f.of] = x]
            /\ returned' = returned
            /\ answered' = answered \/ answered' = answered \cup {f.of}
        BY <2>0, <3>2 DEF Reads
      <4> QED
        BY <1>0, <2>0, <4>1, ZenonT(60)
    <3> QED
      BY <3>1, <3>2
  <2> QED
    BY <1>0, <2>0, <2>1, <2>4
<1>10. ASSUME NEW c \in Consumers, NEW r \in Requests, Push(c, r) PROVE TypeOK'
  BY <1>0, <1>10 DEF Push, taskVars
<1>11. ASSUME NEW s \in Servers, Replies(s), Nothing # job[s] PROVE TypeOK'
  <2>1. s \in Consumers /\ job[s] \in Requests
    BY <1>0, <1>11
  <2> QED
    BY <1>0, <1>3, <1>11, <2>1 DEF Replies, queueVars
<1>12. ASSUME NEW s \in Servers, Nacks(s), Nothing # job[s] PROVE TypeOK'
  <2>1. s \in Consumers /\ job[s] \in Requests
    BY <1>0, <1>12
  <2>2. ASSUME NEW how \in {"requeue", "discard"}
        PROVE  [out EXCEPT ![s] = @ \o Nack(job[s], how)] \in [Consumers -> Seq(Frames)]
    <3>1. Nack(job[s], how) \in Seq(Frames)
      BY <2>1, FramesOf DEF Nack
    <3> QED
      BY <1>0, <2>1, <3>1, Written
  <2> QED
    BY <1>0, <1>12, <2>1, <2>2, ZenonT(60) DEF Nacks, queueVars
<1>13. ASSUME NEW s \in Servers, Server(s) PROVE TypeOK'
  <2>1. job[s] # Nothing
    BY <1>13 DEF Server, Replies, Nacks, IInv, ConsumerInv, LinkInv
  <2> QED
    BY <1>11, <1>12, <1>13, <2>1 DEF Server
<1>14. CASE UNCHANGED vars
  BY <1>0, <1>14 DEF vars, queueVars, taskVars
<1> QED
  BY <1>1, <1>2, <1>4, <1>5, <1>8, <1>9, <1>10, <1>13, <1>14 DEF Next, Consumer

-----------------------------------------------------------------------------
(* Requests, and consumers that do not take the step. *)

LEMMA RequestsKept == IInv /\ [Next]_vars => \A r \in Requests : RequestInv(r)'
<1> SUFFICES ASSUME IInv, [Next]_vars, NEW r \in Requests PROVE RequestInv(r)'
  OBVIOUS
<1> USE Names
<1>0. TypeOK /\ RequestInv(r)
  BY DEF IInv
<1>1. ASSUME UNCHANGED <<place, returned, answered>> PROVE RequestInv(r)'
  BY <1>0, <1>1 DEF RequestInv
<1>2. ASSUME NEW q \in Requests, Publish(q) \/ Expire(q) PROVE RequestInv(r)'
  BY <1>0, <1>2 DEF Publish, Expire, RequestInv, TypeOK
<1>3. ASSUME NEW c \in Consumers, place[r] = c
      PROVE  Back(c, r) \in {"ready", "dead"} /\ (Count(c, r) > Limit => Back(c, r) = "dead")
  BY <1>0, <1>3 DEF RequestInv, TypeOK, Back, Count, Exhausted
<1>4. ASSUME NEW c \in Consumers, Disconnect(c) PROVE RequestInv(r)'
  BY <1>0, <1>3, <1>4 DEF Disconnect, RequestInv
<1>5. ASSUME NEW c \in Consumers, BrokerReads(c) PROVE RequestInv(r)'
  <2> DEFINE f == out[c][1]
  <2>1. 1 \in 1..Len(out[c]) /\ f.of \in Requests /\ Reads(c, f)
    BY <1>0, <1>5, ReadsHead
  <2>2. place[f.of] = c
    BY <2>1 DEF IInv, ConsumerInv, OutInv, FrameInv
  <2> HIDE DEF f
  <2>3. CASE f.of # r
    <3>1. /\ place'[r] = place[r] /\ returned'[r] = returned[r]
          /\ r \in answered' <=> r \in answered
      BY <1>0, <2>1, <2>3 DEF TypeOK, Reads
    <3> QED
      BY <1>0, <3>1 DEF RequestInv
  <2>4. CASE f.of = r
    <3>1. CASE f.kind = "requeue"
      BY <1>0, <1>3, <2>1, <2>2, <2>4, <3>1 DEF TypeOK, Reads, RequestInv
    <3>2. CASE f.kind # "requeue"
      <4>1. returned' = returned
            /\ (place' = place \/ \E x \in {"settled", "dead"} : place' = [place EXCEPT ![r] = x])
        BY <2>1, <2>4, <3>2 DEF Reads
      <4>2. returned[r] = returned'[r] /\ place'[r] \in {place[r], "settled", "dead"}
        BY <1>0, <4>1 DEF TypeOK
      <4> QED
        BY <1>0, <2>2, <2>4, <4>2 DEF RequestInv
    <3> QED
      BY <3>1, <3>2
  <2> QED
    BY <2>3, <2>4
<1>6. ASSUME NEW c \in Consumers, NEW q \in Requests, Push(c, q) PROVE RequestInv(r)'
  BY <1>0, <1>6 DEF Push, RequestInv, TypeOK
<1>7. ASSUME NEW c \in Consumers,
             Start(c) \/ Receive(c) \/ ReceiveRaises(c) \/ Close(c) \/ Block(c)
             \/ Replies(c) \/ Nacks(c)
      PROVE  UNCHANGED <<place, returned, answered>>
  BY <1>7 DEF Start, Receive, ReceiveRaises, Close, Block, Replies, Nacks, queueVars
<1>8. CASE UNCHANGED vars
  BY <1>1, <1>8 DEF vars, queueVars
<1> QED
  BY <1>1, <1>2, <1>4, <1>5, <1>6, <1>7, <1>8
  DEF Next, Consumer, Server, Drop, Closed

\* The state of one consumer, and what the broker has given it.
Same(d) ==
  /\ link'[d] = link[d] /\ loop'[d] = loop[d] /\ job'[d] = job[d]
  /\ inbox'[d] = inbox[d] /\ out'[d] = out[d]
  /\ \A r \in Requests : place'[r] = d <=> place[r] = d

\* A step is one consumer's, or nobody's.
LEMMA OneMoves ==
  ASSUME IInv, [Next]_vars
  PROVE  /\ answered \subseteq answered'
         /\ \/ \A d \in Consumers : Same(d)
            \/ \E c \in Consumers :
                 /\ \A d \in Consumers \ {c} : Same(d)
                 /\ \/ Start(c) \/ Consumer(c) \/ Close(c) \/ BrokerReads(c) \/ Block(c) \/ Drop(c)
                    \/ Replies(c) \/ Nacks(c)
                    \/ \E r \in Requests : Push(c, r)
<1> USE Names
<1>0. TypeOK
  BY DEF IInv
<1>1. ASSUME NEW r \in Requests, Publish(r) \/ Expire(r)
      PROVE  answered' = answered /\ \A d \in Consumers : Same(d)
  BY <1>0, <1>1 DEF Publish, Expire, taskVars, TypeOK, Same
<1>2. ASSUME NEW c \in Consumers, UNCHANGED <<place, answered>>,
             Start(c) \/ Receive(c) \/ ReceiveRaises(c) \/ Close(c) \/ Block(c)
             \/ Replies(c) \/ Nacks(c)
      PROVE  \A d \in Consumers \ {c} : Same(d)
  <2>1. CASE Start(c)
    BY <1>0, <1>2, <2>1 DEF Start, Same, TypeOK
  <2>2. CASE Receive(c)
    BY <1>0, <1>2, <2>2 DEF Receive, AnswerAndAck, Same, TypeOK
  <2>3. CASE ReceiveRaises(c) \/ Close(c) \/ Block(c)
    BY <1>0, <1>2, <2>3 DEF ReceiveRaises, Close, Block, taskVars, Same, TypeOK
  <2>4. CASE Replies(c)
    BY <1>0, <1>2, <2>4 DEF Replies, AnswerAndAck, Same, TypeOK
  <2>5. CASE Nacks(c)
    BY <1>0, <1>2, <2>5 DEF Nacks, Same, TypeOK
  <2> QED
    BY <1>2, <2>1, <2>2, <2>3, <2>4, <2>5
<1>3. ASSUME NEW c \in Consumers,
             Start(c) \/ Receive(c) \/ ReceiveRaises(c) \/ Close(c) \/ Block(c)
             \/ Replies(c) \/ Nacks(c)
      PROVE  UNCHANGED <<place, answered>>
  BY <1>3 DEF Start, Receive, ReceiveRaises, Close, Block, Replies, Nacks, queueVars
<1>4. ASSUME NEW c \in Consumers, Drop(c) \/ Closed(c)
      PROVE  answered' = answered /\ \A d \in Consumers \ {c} : Same(d)
  <2>1. Disconnect(c) /\ UNCHANGED taskVars
    BY <1>4 DEF Drop, Closed
  <2>2. \A r \in Requests : Back(c, r) \in {"ready", "dead"}
    BY DEF Back
  <2>3. \A d \in Consumers \ {c} : \A r \in Requests : place'[r] = d <=> place[r] = d
    BY <2>1, <2>2 DEF Disconnect
  <2> QED
    BY <1>0, <2>1, <2>3 DEF Disconnect, taskVars, Same, TypeOK
<1>5. ASSUME NEW c \in Consumers, BrokerReads(c)
      PROVE  answered \subseteq answered' /\ \A d \in Consumers \ {c} : Same(d)
  <2> DEFINE f == out[c][1]
  <2>1. /\ 1 \in 1..Len(out[c]) /\ f.of \in Requests /\ Reads(c, f)
        /\ out' = [out EXCEPT ![c] = Tail(out[c])]
        /\ UNCHANGED <<link, loop, job, inbox>>
    BY <1>0, <1>5, ReadsHead
  <2>2. place[f.of] = c
    BY <2>1 DEF IInv, ConsumerInv, OutInv, FrameInv
  <2>3. Back(c, f.of) \in {"ready", "dead"}
    BY DEF Back
  <2> HIDE DEF f
  <2>4. answered \subseteq answered'
        /\ (place' = place \/ \E x \in {"ready", "dead", "settled"} : place' = [place EXCEPT ![f.of] = x])
    BY <2>1, <2>3 DEF Reads
  <2>5. \A d \in Consumers \ {c} : \A r \in Requests : place'[r] = d <=> place[r] = d
    BY <1>0, <2>1, <2>2, <2>4 DEF TypeOK
  <2> QED
    BY <1>0, <2>1, <2>4, <2>5 DEF TypeOK, Same
<1>6. ASSUME NEW c \in Consumers, NEW r \in Requests, Push(c, r)
      PROVE  answered' = answered /\ \A d \in Consumers \ {c} : Same(d)
  BY <1>0, <1>6 DEF Push, taskVars, Same, TypeOK
<1>7. CASE UNCHANGED vars
  BY <1>7 DEF vars, queueVars, taskVars, Same
<1> QED
  BY <1>1, <1>2, <1>3, <1>4, <1>5, <1>6, <1>7 DEF Next, Consumer, Server

-----------------------------------------------------------------------------
(* The consumer that takes the step. *)

\* What is written about a request that has left the inbox and the handler.
LEMMA WriteKeeps ==
  ASSUME TypeOK, NEW c \in Consumers, OutInv(c), NEW r \in Requests, NEW w \in Seq(Frames),
         out'[c] = out[c] \o w, UNCHANGED <<place, answered>>,
         place[r] = c, ~Has(inbox'[c], r), job'[c] = Nothing,
         \A x \in Requests : Has(inbox'[c], x) => Has(inbox[c], x),
         \A i \in 1..Len(out[c]) : out[c][i].of # r,
         \A i \in 1..Len(w) : /\ w[i].of = r
                              /\ w[i].kind # "answer" => i = Len(w)
                              /\ w[i].kind = "ack" /\ r \notin OneWay =>
                                   \E j \in 1..Len(w) : j < i /\ w[j].kind = "answer"
  PROVE  OutInv(c)'
<1>0. out[c] \in Seq(Frames)
  BY DEF TypeOK
<1>1. /\ Len(out'[c]) = Len(out[c]) + Len(w)
      /\ \A i \in 1..Len(out[c]) : out'[c][i] = out[c][i]
      /\ \A i \in 1..Len(w) : out'[c][Len(out[c]) + i] = w[i]
  BY <1>0
<1>2. Len(out[c]) \in Nat /\ Len(w) \in Nat
  BY <1>0
<1> SUFFICES ASSUME NEW k \in 1..Len(out'[c]) PROVE FrameInv(c, k)'
  BY DEF OutInv
<1>3. CASE k \in 1..Len(out[c])
  <2>1. FrameInv(c, k) /\ out[c][k].of \in Requests /\ out'[c][k] = out[c][k]
    BY <1>1, <1>3, FrameType DEF OutInv
  <2>2. \A j \in 1..Len(out'[c]) :
          \/ j \in 1..Len(out[c]) /\ out'[c][j] = out[c][j]
          \/ out'[c][j].of = r
    <3> TAKE j \in 1..Len(out'[c])
    <3>1. CASE j <= Len(out[c])
      BY <1>1, <1>2, <3>1
    <3>2. CASE j > Len(out[c])
      <4>1. j - Len(out[c]) \in 1..Len(w) /\ j = Len(out[c]) + (j - Len(out[c]))
        BY <1>1, <1>2, <3>2
      <4> QED
        BY <1>1, <4>1
    <3> QED
      BY <1>2, <3>1, <3>2
  <2>3. out[c][k].kind # "answer" =>
          \A j \in 1..Len(out'[c]) : k < j => out'[c][j].of # out[c][k].of
    BY <1>3, <2>1, <2>2 DEF FrameInv
  <2>4. out[c][k].kind = "ack" /\ out[c][k].of \notin OneWay =>
          \/ out[c][k].of \in answered
          \/ \E j \in 1..Len(out'[c]) :
               j < k /\ out'[c][j].of = out[c][k].of /\ out'[c][j].kind = "answer"
    <3> HAVE out[c][k].kind = "ack" /\ out[c][k].of \notin OneWay
    <3>1. CASE out[c][k].of \in answered
      BY <3>1
    <3>2. CASE out[c][k].of \notin answered
      <4>1. PICK j \in 1..Len(out[c]) :
              j < k /\ out[c][j].of = out[c][k].of /\ out[c][j].kind = "answer"
        BY <2>1, <3>2 DEF FrameInv
      <4>2. j \in 1..Len(out'[c]) /\ out'[c][j] = out[c][j]
        BY <1>1, <1>2
      <4> QED
        BY <4>1, <4>2
    <3> QED
      BY <3>1, <3>2
  <2> QED
    BY <2>1, <2>3, <2>4 DEF FrameInv
<1>4. CASE k \notin 1..Len(out[c])
  <2> DEFINE i == k - Len(out[c])
  <2>1. i \in 1..Len(w) /\ k = Len(out[c]) + i
    BY <1>1, <1>2, <1>4
  <2>2. out'[c][k] = w[i] /\ w[i].of = r
    BY <1>1, <2>1
  <2>3. w[i].kind # "answer" => k = Len(out'[c])
    BY <1>1, <2>1
  <2>4. w[i].kind = "ack" /\ r \notin OneWay =>
          \E j \in 1..Len(out'[c]) : j < k /\ out'[c][j].of = r /\ out'[c][j].kind = "answer"
    <3> HAVE w[i].kind = "ack" /\ r \notin OneWay
    <3>1. PICK j \in 1..Len(w) : j < i /\ w[j].kind = "answer"
      BY <2>1
    <3>2. Len(out[c]) + j \in 1..Len(out'[c]) /\ Len(out[c]) + j < k
          /\ out'[c][Len(out[c]) + j] = w[j] /\ w[j].of = r
      BY <1>1, <1>2, <2>1, <3>1
    <3> QED
      BY <3>1, <3>2, ZenonT(60)
  <2> HIDE DEF i
  <2>5. \A j \in 1..Len(out'[c]) : k = Len(out'[c]) => ~(k < j)
    BY <1>1, <1>2
  <2> QED
    BY <2>2, <2>3, <2>4, <2>5 DEF FrameInv
<1> QED
  BY <1>3, <1>4

\* Answering, or refusing to, of a request in the consumer's hands.
LEMMA AnswerKeeps ==
  ASSUME TypeOK, NEW c \in Consumers, OutInv(c), NEW r \in Requests, AnswerAndAck(c, r),
         UNCHANGED <<place, answered>>, link[c] = "up" => place[r] = c,
         link[c] = "down" => out[c] = <<>>,
         ~Has(inbox'[c], r), job'[c] = Nothing,
         \A x \in Requests : Has(inbox'[c], x) => Has(inbox[c], x),
         \A i \in 1..Len(out[c]) : out[c][i].of # r
  PROVE  /\ OutInv(c)'
         /\ \/ loop'[c] = "ended" /\ out'[c] = out[c]
            \/ loop'[c] = "receive" /\ link[c] = "up" /\ Settled(out'[c], r)
               /\ \A x \in Requests : Settled(out[c], x) => Settled(out'[c], x)
<1>0. out[c] \in Seq(Frames) /\ link[c] \in {"down", "up"} /\ loop \in [Consumers -> {"off", "receive", "handle", "ended", "closed"}]
  BY DEF TypeOK
<1>1. CASE link[c] = "down" \/ (c \in blocked /\ r \notin OneWay)
  <2>1. loop'[c] = "ended" /\ out' = out
    BY <1>0, <1>1 DEF AnswerAndAck
  <2>2. OutInv(c)'
    <3> SUFFICES ASSUME NEW i \in 1..Len(out[c]) PROVE FrameInv(c, i)'
      BY <2>1 DEF OutInv
    <3>1. FrameInv(c, i) /\ out[c][i].of \in Requests
      BY FrameType DEF OutInv
    <3>2. out[c][i].of # Nothing
      BY <3>1
    <3> QED
      BY <2>1, <3>1, <3>2 DEF FrameInv
  <2> QED
    BY <2>1, <2>2
<1>2. CASE ~(link[c] = "down" \/ (c \in blocked /\ r \notin OneWay))
  <2> DEFINE w == IF r \in OneWay THEN <<[kind |-> "ack", of |-> r]>> ELSE Answer(r)
  <2>1. /\ w \in Seq(Frames)
        /\ \A i \in 1..Len(w) : /\ w[i].of = r
                                /\ w[i].kind # "answer" => i = Len(w)
                                /\ w[i].kind = "ack" /\ r \notin OneWay =>
                                     \E j \in 1..Len(w) : j < i /\ w[j].kind = "answer"
        /\ Len(w) \in Nat \ {0} /\ w[Len(w)].of = r /\ w[Len(w)].kind # "answer"
    <3>1. CASE r \in OneWay
      <4>1. w = <<[kind |-> "ack", of |-> r]>> /\ Len(w) = 1 /\ w[1] = [kind |-> "ack", of |-> r]
        BY <3>1
      <4>2. w \in Seq(Frames)
        BY <3>1, FramesOf
      <4> HIDE DEF w
      <4> QED
        BY <3>1, <4>1, <4>2
    <3>2. CASE r \notin OneWay
      <4>1. w = Answer(r) /\ Len(w) = 2 /\ w[1] = [kind |-> "answer", of |-> r]
            /\ w[2] = [kind |-> "ack", of |-> r]
        BY <3>2 DEF Answer
      <4>2. w \in Seq(Frames)
        BY <3>2, FramesOf
      <4> HIDE DEF w
      <4> QED
        BY <4>1, <4>2
    <3> QED
      BY <3>1, <3>2
  <2>2. /\ loop'[c] = "receive" /\ out' = [out EXCEPT ![c] = @ \o w]
    BY <1>0, <1>2 DEF AnswerAndAck
  <2> HIDE DEF w
  <2>3. out'[c] = out[c] \o w
    BY <2>2 DEF TypeOK
  <2>4. link[c] = "up"
    BY <1>0, <1>2
  <2>5. OutInv(c)'
    BY <2>1, <2>3, <2>4, WriteKeeps
  <2>6. /\ Len(out'[c]) = Len(out[c]) + Len(w)
        /\ \A i \in 1..Len(out[c]) : i \in 1..Len(out'[c]) /\ out'[c][i] = out[c][i]
        /\ Len(out'[c]) \in 1..Len(out'[c]) /\ out'[c][Len(out'[c])] = w[Len(w)]
    BY <1>0, <2>1, <2>3
  <2>7. Settled(out'[c], r) /\ \A x \in Requests : Settled(out[c], x) => Settled(out'[c], x)
    BY <2>1, <2>6 DEF Settled
  <2> QED
    BY <2>2, <2>4, <2>5, <2>7
<1> QED
  BY <1>1, <1>2

LEMMA ReceiveKeeps == ASSUME IInv, NEW c \in Consumers, Receive(c) PROVE ConsumerInv(c)'
<1> DEFINE r == Head(inbox[c])
<1>0. /\ TypeOK /\ ConsumerInv(c) /\ inbox[c] \in Seq(Requests) /\ inbox[c] # <<>>
      /\ loop[c] = "receive" /\ link[c] = "up"
      /\ inbox' = [inbox EXCEPT ![c] = Tail(@)]
      /\ UNCHANGED <<place, returned, answered, link, blocked, stops>>
  BY DEF IInv, TypeOK, Receive, queueVars
<1>1. /\ r \in Requests /\ r = inbox[c][1] /\ 1 \in 1..Len(inbox[c])
      /\ inbox'[c] = Tail(inbox[c]) /\ Len(inbox'[c]) = Len(inbox[c]) - 1
      /\ \A i \in 1..Len(inbox'[c]) : i + 1 \in 1..Len(inbox[c]) /\ inbox'[c][i] = inbox[c][i + 1]
  BY <1>0 DEF TypeOK
<1>2. job[c] = Nothing
  BY <1>0 DEF ConsumerInv, LinkInv
<1>3. place[r] = c /\ ~Has(inbox'[c], r)
      /\ \A x \in Requests : Has(inbox'[c], x) => Has(inbox[c], x)
  BY <1>0, <1>1 DEF ConsumerInv, InboxInv, Has
<1>4. \A i \in 1..Len(out[c]) : out[c][i].of # r
  BY <1>0, <1>1 DEF ConsumerInv, OutInv, FrameInv, Has
<1>5. InboxInv(c)'
  BY <1>0, <1>1 DEF ConsumerInv, InboxInv
<1>6. \A x \in Requests : Has(inbox[c], x) => x = r \/ Has(inbox'[c], x)
  <2> SUFFICES ASSUME NEW x \in Requests, NEW i \in 1..Len(inbox[c]), inbox[c][i] = x, x # r
               PROVE  Has(inbox'[c], x)
    BY DEF Has
  <2>1. i # 1 /\ i - 1 \in 1..Len(inbox'[c]) /\ (i - 1) + 1 = i
    BY <1>0, <1>1
  <2>2. inbox'[c][i - 1] = x
    BY <1>1, <2>1
  <2> QED
    BY <2>1, <2>2 DEF Has
<1> HIDE DEF r
<1>7. CASE c = Processor
  <2>1. AnswerAndAck(c, r) /\ job' = job
    BY <1>7 DEF Receive, r
  <2>2. /\ OutInv(c)'
        /\ \/ loop'[c] = "ended" /\ out'[c] = out[c]
           \/ loop'[c] = "receive" /\ link[c] = "up" /\ Settled(out'[c], r)
              /\ \A x \in Requests : Settled(out[c], x) => Settled(out'[c], x)
    BY <1>0, <1>1, <1>2, <1>3, <1>4, <2>1, AnswerKeeps DEF ConsumerInv, LinkInv
  <2>3. HandledInv(c)'
    BY <1>0, <1>2, <1>6, <2>1, <2>2 DEF ConsumerInv, HandledInv
  <2> QED
    BY <1>0, <1>2, <1>5, <2>1, <2>2, <2>3 DEF ConsumerInv, LinkInv, JobInv
<1>8. CASE c # Processor
  <2>1. job' = [job EXCEPT ![c] = r] /\ loop' = [loop EXCEPT ![c] = "handle"] /\ out' = out
    BY <1>8 DEF Receive, r
  <2>2. job'[c] = r /\ loop'[c] = "handle"
    BY <1>0, <2>1 DEF TypeOK
  <2>3. OutInv(c)'
    <3> SUFFICES ASSUME NEW i \in 1..Len(out[c]) PROVE FrameInv(c, i)'
      BY <2>1 DEF OutInv
    <3>1. FrameInv(c, i) /\ out[c][i].of \in Requests
      BY <1>0, FrameType DEF ConsumerInv, OutInv
    <3> QED
      BY <1>0, <1>3, <1>4, <2>1, <2>2, <3>1 DEF FrameInv
  <2>4. HandledInv(c)'
    BY <1>0, <1>2, <1>6, <2>1, <2>2 DEF ConsumerInv, HandledInv
  <2> QED
    BY <1>0, <1>1, <1>3, <1>5, <2>2, <2>3, <2>4 DEF ConsumerInv, LinkInv, JobInv
<1> QED
  BY <1>7, <1>8

\* The handler of r ends: r is settled, or the loop has ended.
LEMMA EndsKeeps ==
  ASSUME IInv, NEW c \in Consumers, loop[c] = "handle", Replies(c) \/ Nacks(c)
  PROVE  ConsumerInv(c)'
<1> DEFINE r == job[c]
<1>0. /\ TypeOK /\ ConsumerInv(c) /\ r \in Requests /\ link[c] \in {"down", "up"}
      /\ UNCHANGED <<place, returned, answered, link, blocked, inbox, stops>>
      /\ job'[c] = Nothing
  BY DEF IInv, TypeOK, Replies, Nacks, queueVars, ConsumerInv, LinkInv
<1>1. /\ link[c] = "up" => place[r] = c /\ ~Has(inbox[c], r)
      /\ link[c] = "down" => inbox[c] = <<>> /\ out[c] = <<>> /\ \A x \in Requests : place[x] # c
  BY <1>0 DEF ConsumerInv, LinkInv, JobInv
<1>2. ~Has(inbox'[c], r) /\ \A i \in 1..Len(out[c]) : out[c][i].of # r
  BY <1>0, <1>1 DEF Has, ConsumerInv, OutInv, FrameInv
<1>3. /\ OutInv(c)'
      /\ \/ loop'[c] = "ended" /\ out'[c] = out[c]
         \/ loop'[c] = "receive" /\ link[c] = "up" /\ Settled(out'[c], r)
            /\ \A x \in Requests : Settled(out[c], x) => Settled(out'[c], x)
  <2>1. CASE Replies(c)
    <3>1. AnswerAndAck(c, r)
      BY <2>1 DEF Replies
    <3> HIDE DEF r
    <3> QED
      BY <1>0, <1>1, <1>2, <3>1, AnswerKeeps DEF ConsumerInv
  <2>2. CASE Nacks(c)
    <3>1. CASE link[c] = "down"
      <4>1. loop'[c] = "ended" /\ out' = out
        BY <1>0, <2>2, <3>1 DEF Nacks, TypeOK
      <4>2. OutInv(c)'
        BY <1>1, <3>1, <4>1 DEF OutInv
      <4> QED
        BY <4>1, <4>2
    <3>2. CASE link[c] = "up"
      <4>1. loop'[c] = "receive"
        BY <1>0, <2>2, <3>2 DEF Nacks, TypeOK
      <4>2. \E w \in Seq(Frames) :
              /\ out'[c] = out[c] \o w
              /\ Len(w) = 1 /\ w[1].of = r /\ w[1].kind \notin {"answer", "ack"}
        <5>1. PICK how \in {"requeue", "discard"} : out' = [out EXCEPT ![c] = @ \o Nack(r, how)]
          BY <2>2, <3>2 DEF Nacks
        <5>2. out'[c] = out[c] \o Nack(r, how)
          BY <1>0, <5>1 DEF TypeOK
        <5>3. Nack(r, how) \in Seq(Frames)
          BY <1>0, FramesOf DEF Nack
        <5>4. Len(Nack(r, how)) = 1 /\ Nack(r, how)[1] = [kind |-> how, of |-> r]
          BY DEF Nack
        <5> DEFINE w == Nack(r, how)
        <5>5. Len(w) = 1 /\ w[1].of = r /\ w[1].kind = how
          BY <5>4
        <5>6. w \in Seq(Frames) /\ out'[c] = out[c] \o w
          BY <5>2, <5>3
        <5> HIDE DEF r, w
        <5> QED
          BY <5>5, <5>6
      <4> HIDE DEF r
      <4>3. PICK w \in Seq(Frames) :
              /\ out'[c] = out[c] \o w
              /\ Len(w) = 1 /\ w[1].of = r /\ w[1].kind \notin {"answer", "ack"}
        BY <4>2
      <4>4. \A i \in 1..Len(w) : w[i].of = r /\ i = Len(w) /\ w[i].kind # "ack"
        BY <4>3
      <4>5. OutInv(c)'
        BY <1>0, <1>1, <1>2, <3>2, <4>3, <4>4, WriteKeeps DEF ConsumerInv
      <4>6. out[c] \in Seq(Frames)
        BY <1>0 DEF TypeOK
      <4>7. /\ Len(out'[c]) = Len(out[c]) + 1 /\ Len(out[c]) + 1 \in 1..Len(out'[c])
            /\ \A i \in 1..Len(out[c]) : i \in 1..Len(out'[c]) /\ out'[c][i] = out[c][i]
            /\ out'[c][Len(out[c]) + 1] = w[1]
        <5>0. out'[c] = out[c] \o w
          BY <4>3
        <5>1. /\ Len(out'[c]) = Len(out[c]) + Len(w)
              /\ \A i \in 1..Len(out[c]) : out'[c][i] = out[c][i]
              /\ \A i \in 1..Len(w) : out'[c][Len(out[c]) + i] = w[i]
          BY <4>6, <5>0
        <5>2. Len(w) = 1 /\ 1 \in 1..Len(w) /\ Len(out[c]) \in Nat
          BY <4>3, <4>6
        <5> QED
          BY <5>1, <5>2
      <4>8. Settled(out'[c], r)
        <5> DEFINE k == Len(out[c]) + 1
        <5>1. k \in 1..Len(out'[c]) /\ out'[c][k].of = r /\ out'[c][k].kind # "answer"
          BY <4>3, <4>7
        <5> QED
          BY <5>1 DEF Settled
      <4>9. \A x \in Requests : Settled(out[c], x) => Settled(out'[c], x)
        BY <4>7 DEF Settled
      <4> QED
        BY <3>2, <4>1, <4>5, <4>8, <4>9
    <3> QED
      BY <1>0, <3>1, <3>2
  <2> QED
    BY <2>1, <2>2
<1>4. InboxInv(c)'
  BY <1>0 DEF ConsumerInv, InboxInv
<1>5. HandledInv(c)'
  BY <1>0, <1>3 DEF ConsumerInv, HandledInv
<1>6. link[c] = "down" => out'[c] = <<>>
  BY <1>1, <1>3
<1> QED
  BY <1>0, <1>1, <1>3, <1>4, <1>5, <1>6 DEF ConsumerInv, LinkInv, JobInv

LEMMA LoopKeeps ==
  ASSUME IInv, NEW c \in Consumers, Start(c) \/ ReceiveRaises(c) \/ Close(c) \/ Block(c)
  PROVE  ConsumerInv(c)'
<1>0. /\ TypeOK /\ ConsumerInv(c)
      /\ UNCHANGED <<place, returned, answered, inbox, out>>
      /\ \A i \in 1..Len(out[c]) : FrameInv(c, i) /\ out[c][i].of \in Requests
  BY FrameType
  DEF IInv, Start, ReceiveRaises, Close, Block, queueVars, taskVars, ConsumerInv, OutInv
<1>1. /\ job'[c] = job[c] \/ job'[c] = Nothing
      /\ link'[c] = link[c] \/ (link[c] = "down" /\ link'[c] = "up")
      /\ loop'[c] = "handle" <=> job'[c] # Nothing
      /\ loop'[c] = loop[c] \/ loop'[c] \in {"ended", "closed"} \/ link[c] = "down"
  <2>1. CASE Start(c)
    BY <1>0, <2>1 DEF Start, TypeOK, ConsumerInv, LinkInv
  <2>2. CASE ReceiveRaises(c)
    BY <1>0, <2>2 DEF ReceiveRaises, TypeOK, ConsumerInv, LinkInv
  <2>3. CASE Close(c)
    BY <1>0, <2>3 DEF Close, TypeOK, ConsumerInv, LinkInv
  <2>4. CASE Block(c)
    BY <1>0, <2>4 DEF Block, taskVars, TypeOK, ConsumerInv, LinkInv
  <2> QED
    BY <2>1, <2>2, <2>3, <2>4
<1>2. link[c] = "down" /\ link'[c] = "up" => job'[c] = Nothing
  BY <1>0 DEF Start, ReceiveRaises, Close, Block, taskVars, ConsumerInv, LinkInv
<1>3. OutInv(c)'
  BY <1>0, <1>1 DEF OutInv, FrameInv
<1>4. LinkInv(c)' /\ InboxInv(c)' /\ JobInv(c)'
  BY <1>0, <1>1, <1>2 DEF ConsumerInv, LinkInv, InboxInv, JobInv
<1>5. HandledInv(c)'
  <2>1. CASE link[c] = "down"
    BY <1>0, <2>1 DEF ConsumerInv, LinkInv, HandledInv
  <2>2. CASE link[c] # "down"
    <3>1. job'[c] = job[c] \/ loop'[c] = "closed"
      BY <1>0, <2>2 DEF Start, ReceiveRaises, Close, Block, taskVars, TypeOK
    <3>2. loop'[c] = loop[c] \/ loop'[c] \in {"ended", "closed"}
      BY <1>1, <2>2
    <3> QED
      BY <1>0, <3>1, <3>2 DEF ConsumerInv, HandledInv
  <2> QED
    BY <2>1, <2>2
<1> QED
  BY <1>3, <1>4, <1>5 DEF ConsumerInv

LEMMA DisconnectKeeps ==
  ASSUME IInv, NEW c \in Consumers, Disconnect(c), UNCHANGED taskVars
  PROVE  ConsumerInv(c)'
<1>1. /\ link'[c] = "down" /\ inbox'[c] = <<>> /\ out'[c] = <<>>
      /\ loop' = loop /\ job' = job /\ LinkInv(c)
  BY DEF IInv, TypeOK, Disconnect, taskVars, ConsumerInv
<1>2. \A r \in Requests : place'[r] # c
  <2>1. \A r \in Requests : Back(c, r) # c
    BY Names DEF Back
  <2> QED
    BY <2>1 DEF Disconnect
<1> QED
  BY <1>1, <1>2 DEF ConsumerInv, LinkInv, InboxInv, JobInv, OutInv, HandledInv

LEMMA PushKeeps ==
  ASSUME IInv, NEW c \in Consumers, NEW r \in Requests, Push(c, r)
  PROVE  ConsumerInv(c)'
<1>0. /\ TypeOK /\ ConsumerInv(c) /\ link[c] = "up" /\ inbox[c] \in Seq(Requests)
      /\ inbox'[c] = Append(inbox[c], r)
      /\ place' = [place EXCEPT ![r] = c] /\ place[r] # c
      /\ UNCHANGED <<returned, answered, link, loop, job, out>>
  BY Names DEF IInv, TypeOK, Push, taskVars
<1>1. /\ Len(inbox'[c]) = Len(inbox[c]) + 1 /\ inbox'[c][Len(inbox[c]) + 1] = r
      /\ \A i \in 1..Len(inbox[c]) : inbox'[c][i] = inbox[c][i]
      /\ Len(inbox[c]) \in Nat
  BY <1>0
<1>2. \A i \in 1..Len(inbox'[c]) :
        \/ i \in 1..Len(inbox[c]) /\ inbox'[c][i] = inbox[c][i]
        \/ i = Len(inbox[c]) + 1 /\ inbox'[c][i] = r
  BY <1>1
<1>3. \A i \in 1..Len(inbox[c]) : inbox[c][i] \in Requests /\ inbox[c][i] # r
  BY <1>0 DEF ConsumerInv, InboxInv
<1>4. place'[r] = c /\ \A x \in Requests \ {r} : place'[x] = place[x]
  BY <1>0 DEF TypeOK
<1>5. InboxInv(c)'
  BY <1>0, <1>2, <1>3, <1>4 DEF ConsumerInv, InboxInv
<1>6. /\ Has(inbox'[c], r)
      /\ \A x \in Requests \ {r} : Has(inbox'[c], x) <=> Has(inbox[c], x)
  <2>1. Len(inbox[c]) + 1 \in 1..Len(inbox'[c]) /\ \A i \in 1..Len(inbox[c]) : i \in 1..Len(inbox'[c])
    BY <1>1
  <2> QED
    BY <1>1, <1>2, <2>1 DEF Has
<1>7. JobInv(c)'
  BY <1>0, <1>4, <1>6 DEF ConsumerInv, JobInv, TypeOK
<1>8. OutInv(c)'
  <2> SUFFICES ASSUME NEW i \in 1..Len(out[c]) PROVE FrameInv(c, i)'
    BY <1>0 DEF OutInv
  <2>1. FrameInv(c, i) /\ out[c][i].of \in Requests
    BY <1>0, FrameType DEF ConsumerInv, OutInv
  <2>2. out[c][i].of # r
    BY <1>0, <2>1 DEF FrameInv
  <2> QED
    BY <1>0, <1>4, <1>6, <2>1, <2>2 DEF FrameInv
<1>9. HandledInv(c)'
  BY <1>0, <1>4, <1>6 DEF ConsumerInv, HandledInv
<1> QED
  BY <1>0, <1>5, <1>7, <1>8, <1>9 DEF ConsumerInv, LinkInv

\* The broker reads the oldest frame of c: the rest moves up, and no later one is
\* about a request the oldest has settled.
LEMMA BrokerKeeps ==
  ASSUME IInv, NEW c \in Consumers, BrokerReads(c)
  PROVE  ConsumerInv(c)'
<1> DEFINE f == out[c][1]
<1>0. TypeOK /\ ConsumerInv(c) /\ out[c] \in Seq(Frames)
  BY DEF IInv, TypeOK
<1>1. /\ 1 \in 1..Len(out[c]) /\ f.of \in Requests /\ Reads(c, f)
      /\ out'[c] = Tail(out[c])
      /\ Len(out'[c]) = Len(out[c]) - 1
      /\ \A i \in 1..Len(out'[c]) : i + 1 \in 1..Len(out[c]) /\ out'[c][i] = out[c][i + 1]
      /\ UNCHANGED <<link, loop, job, inbox>>
  <2>1. /\ 1 \in 1..Len(out[c]) /\ out[c][1] \in Frames /\ out[c][1].of \in Requests
        /\ Reads(c, out[c][1])
        /\ out' = [out EXCEPT ![c] = Tail(out[c])] /\ Tail(out[c]) \in Seq(Frames)
        /\ Len(Tail(out[c])) = Len(out[c]) - 1
        /\ \A i \in 1..Len(Tail(out[c])) : Tail(out[c])[i] = out[c][i + 1]
        /\ UNCHANGED <<link, loop, job, inbox>>
    BY <1>0, ReadsHead
  <2>2. out'[c] = Tail(out[c])
    BY <1>0, <2>1 DEF TypeOK
  <2>3. \A i \in 1..Len(out'[c]) : i + 1 \in 1..Len(out[c])
    <3>1. Len(out[c]) \in Nat
      BY <1>0
    <3>2. Len(out'[c]) = Len(out[c]) - 1
      BY <2>1, <2>2
    <3> QED
      BY <3>1, <3>2
  <2> HIDE DEF f
  <2>4. f = out[c][1]
    BY DEF f
  <2> QED
    BY <2>1, <2>2, <2>3, <2>4
<1>2. FrameInv(c, 1)
  BY <1>0, <1>1 DEF ConsumerInv, OutInv
<1>3. /\ f.kind # "answer" => \A i \in 1..Len(out'[c]) : out'[c][i].of # f.of
      /\ place[f.of] = c /\ ~Has(inbox[c], f.of) /\ job[c] # f.of
  BY <1>1, <1>2 DEF FrameInv
<1> HIDE DEF f
<1>4. \A x \in Requests \ {f.of} : place'[x] = place[x]
  BY <1>0, <1>1 DEF Reads, TypeOK
<1>5. /\ f.kind = "answer" => place' = place /\ f.of \in answered'
      /\ f.kind # "answer" => place'[f.of] # c
      /\ answered \subseteq answered'
  <2>1. Back(c, f.of) \in {"ready", "dead"}
    BY DEF Back
  <2> QED
    BY <1>0, <1>1, <2>1, Names DEF Reads, TypeOK
<1>6. InboxInv(c)'
  <2>1. \A i \in 1..Len(inbox[c]) : inbox[c][i] \in Requests /\ inbox[c][i] # f.of
    BY <1>0, <1>3 DEF Has, TypeOK
  <2> QED
    BY <1>0, <1>1, <1>4, <2>1 DEF ConsumerInv, InboxInv
<1>7. JobInv(c)' /\ LinkInv(c)'
  <2>1. link[c] = "up"
    BY <1>0, <1>1, <1>3 DEF ConsumerInv, LinkInv, TypeOK
  <2> QED
    BY <1>0, <1>1, <1>3, <1>4, <2>1 DEF ConsumerInv, JobInv, LinkInv, TypeOK
<1>8. OutInv(c)'
  <2> SUFFICES ASSUME NEW i \in 1..Len(out'[c]) PROVE FrameInv(c, i)'
    BY DEF OutInv
  <2> DEFINE k == i + 1
  <2>1. k \in 1..Len(out[c]) /\ out'[c][i] = out[c][k] /\ FrameInv(c, k) /\ out[c][k].of \in Requests
    BY <1>0, <1>1, FrameType DEF ConsumerInv, OutInv
  <2>2. place'[out[c][k].of] = c
    <3>1. CASE f.kind = "answer"
      BY <1>5, <2>1, <3>1 DEF FrameInv
    <3>2. CASE f.kind # "answer"
      BY <1>3, <1>4, <2>1, <3>2 DEF FrameInv
    <3> QED
      BY <3>1, <3>2
  <2>3. out[c][k].kind # "answer" =>
          \A j \in 1..Len(out'[c]) : i < j => out'[c][j].of # out[c][k].of
    BY <1>1, <2>1 DEF FrameInv
  <2>4. out[c][k].kind = "ack" /\ out[c][k].of \notin OneWay =>
          \/ out[c][k].of \in answered'
          \/ \E j \in 1..Len(out'[c]) :
               j < i /\ out'[c][j].of = out[c][k].of /\ out'[c][j].kind = "answer"
    <3> HAVE out[c][k].kind = "ack" /\ out[c][k].of \notin OneWay
    <3>1. CASE out[c][k].of \in answered
      BY <1>5, <3>1
    <3>2. CASE out[c][k].of \notin answered
      <4>1. PICK j \in 1..Len(out[c]) :
              j < k /\ out[c][j].of = out[c][k].of /\ out[c][j].kind = "answer"
        BY <2>1, <3>2 DEF FrameInv
      <4>2. CASE j = 1
        BY <1>5, <4>1, <4>2 DEF f
      <4>3. CASE j # 1
        <5>1. j - 1 \in 1..Len(out'[c]) /\ j - 1 < i /\ (j - 1) + 1 = j
          BY <1>0, <1>1, <4>1, <4>3
        <5>2. out'[c][j - 1] = out[c][j]
          BY <1>1, <5>1
        <5> QED
          BY <4>1, <5>1, <5>2
      <4> QED
        BY <4>2, <4>3
    <3> QED
      BY <3>1, <3>2
  <2> HIDE DEF k
  <2> QED
    BY <1>1, <2>1, <2>2, <2>3, <2>4 DEF FrameInv
<1>9. HandledInv(c)'
  <2> SUFFICES ASSUME NEW x \in Requests, place'[x] = c, Settled(out[c], x)
               PROVE  Settled(out'[c], x)
    BY <1>0, <1>1, <1>3, <1>4 DEF ConsumerInv, HandledInv
  <2>1. PICK i \in 1..Len(out[c]) : out[c][i].of = x /\ out[c][i].kind # "answer"
    BY DEF Settled
  <2>2. i # 1
    BY <1>5, <2>1 DEF f
  <2>3. i - 1 \in 1..Len(out'[c]) /\ (i - 1) + 1 = i
    BY <1>0, <1>1, <2>2
  <2>4. out'[c][i - 1] = out[c][i]
    BY <1>1, <2>3
  <2> QED
    BY <2>1, <2>3, <2>4 DEF Settled
<1> QED
  BY <1>6, <1>7, <1>8, <1>9 DEF ConsumerInv

-----------------------------------------------------------------------------
(* The theorems. *)

\* The invariant holds, for any constants.
THEOREM Invariant == Spec => []IInv
<1>1. Init => IInv
  <2> SUFFICES ASSUME Init PROVE IInv
    OBVIOUS
  <2>1. TypeOK
    BY DEF Init, TypeOK
  <2>2. \A c \in Consumers : ConsumerInv(c)
    BY Names
    DEF Init, ConsumerInv, LinkInv, InboxInv, JobInv, OutInv, HandledInv
  <2>3. \A r \in Requests : RequestInv(r)
    <3> SUFFICES ASSUME NEW r \in Requests PROVE RequestInv(r)
      OBVIOUS
    <3>1. answered = {} /\ returned[r] = 0 /\ ~(0 > Limit)
      BY DEF Init
    <3> QED
      BY <3>1 DEF RequestInv
  <2> QED
    BY <2>1, <2>2, <2>3 DEF IInv
<1>2. IInv /\ [Next]_vars => IInv'
  <2> SUFFICES ASSUME IInv, [Next]_vars PROVE IInv'
    OBVIOUS
  <2>1. \A c \in Consumers : ConsumerInv(c)'
    <3>0. TypeOK /\ answered \subseteq answered' /\ \A d \in Consumers : ConsumerInv(d)
      BY OneMoves DEF IInv
    <3>1. ASSUME NEW d \in Consumers, Same(d) PROVE ConsumerInv(d)'
      BY <3>0, <3>1, OthersKeep DEF Same
    <3>2. ASSUME NEW c \in Consumers,
                 \/ Start(c) \/ Consumer(c) \/ Close(c) \/ BrokerReads(c) \/ Block(c) \/ Drop(c)
                 \/ Replies(c) \/ Nacks(c)
                 \/ \E r \in Requests : Push(c, r)
          PROVE  ConsumerInv(c)'
      <4>1. CASE Start(c) \/ ReceiveRaises(c) \/ Close(c) \/ Block(c)
        BY <4>1, LoopKeeps
      <4>2. CASE Receive(c)
        BY <4>2, ReceiveKeeps
      <4>3. CASE Replies(c) \/ Nacks(c)
        <5>1. loop[c] = "handle"
          BY <4>3 DEF Replies, Nacks
        <5> QED
          BY <4>3, <5>1, EndsKeeps
      <4>4. CASE Drop(c) \/ Closed(c)
        <5>1. Disconnect(c) /\ UNCHANGED taskVars
          BY <4>4 DEF Drop, Closed
        <5> QED
          BY <5>1, DisconnectKeeps
      <4>5. CASE BrokerReads(c)
        BY <4>5, BrokerKeeps
      <4>6. CASE \E r \in Requests : Push(c, r)
        BY <4>6, PushKeeps
      <4> QED
        BY <3>2, <4>1, <4>2, <4>3, <4>4, <4>5, <4>6 DEF Consumer
    <3> QED
      BY <3>1, <3>2, OneMoves
  <2> QED
    BY <2>1, TypeKept, RequestsKept DEF IInv
<1> QED
  BY <1>1, <1>2, PTL DEF Spec

\* Every variable has its type; among them returned, so that no request is given
\* to a server more often than the delivery limit and one.
THEOREM TypeCorrect == Spec => []TypeOK
<1>1. IInv => TypeOK
  BY DEF IInv
<1> QED
  BY <1>1, Invariant, PTL

\* _handle forgets no delivery, whichever way the handler ends and the
\* connection stands.
THEOREM NothingForgotten == Spec => []HeldIsHandled
<1>1. IInv => HeldIsHandled
  BY DEF IInv, ConsumerInv, HandledInv, HeldIsHandled, Settled, Settles, Stranded
<1> QED
  BY <1>1, Invariant, PTL

\* Serving implements WorkQueue: every step accepts a request, answers an owed
\* one, settles an answered one, or is none of the queue's business.
THEOREM Refinement == Spec => ImplementsWorkQueue
<1> DEFINE owed == {r \in Requests : place[r] \notin {"none", "settled"}}
<1> USE Names
<1>1. Init => Queue!Init
  BY DEF Init, Queue!Init
<1>2. IInv /\ [Next]_vars => [Queue!Next]_Queue!queueVars
  <2> SUFFICES ASSUME IInv, [Next]_vars
               PROVE  (\E r \in Requests : Queue!Accept(r) \/ Queue!Answer(r) \/ Queue!Settle(r))
                      \/ (owed' = owed /\ answered' = answered)
    BY DEF Queue!Next, Queue!queueVars
  <2>0. TypeOK
    BY DEF IInv
  <2>1. ASSUME NEW r \in Requests, Publish(r) PROVE Queue!Accept(r)
    <3>1. r \notin owed \cup answered /\ answered' = answered /\ place[r] = "none"
      BY <2>1 DEF Publish, IInv, RequestInv
    <3>2. owed' = owed \cup {r}
      BY <2>0, <2>1 DEF Publish, TypeOK
    <3> QED
      BY <3>1, <3>2 DEF Queue!Accept
  <2>2. ASSUME NEW r \in Requests, Expire(r) PROVE owed' = owed /\ answered' = answered
    BY <2>0, <2>2 DEF Expire, TypeOK
  <2>3. ASSUME NEW c \in Consumers, NEW r \in Requests, Push(c, r)
        PROVE  owed' = owed /\ answered' = answered
    BY <2>0, <2>3 DEF Push, TypeOK
  <2>4. ASSUME NEW c \in Consumers, Disconnect(c) PROVE owed' = owed /\ answered' = answered
    <3>1. \A r \in Requests : Back(c, r) \in {"ready", "dead"}
      BY DEF Back
    <3> QED
      BY <2>0, <2>4, <3>1 DEF Disconnect, TypeOK
  <2>5. ASSUME NEW c \in Consumers, BrokerReads(c)
        PROVE  \/ \E r \in Requests : Queue!Answer(r) \/ Queue!Settle(r)
               \/ owed' = owed /\ answered' = answered
    <3> DEFINE f == out[c][1]
    <3>1. 1 \in 1..Len(out[c]) /\ f.of \in Requests /\ Reads(c, f) /\ FrameInv(c, 1)
      BY <2>0, <2>5, ReadsHead DEF IInv, ConsumerInv, OutInv
    <3>2. place[f.of] = c
      BY <3>1 DEF FrameInv
    <3>3. f.kind = "ack" => f.of \in answered \cup OneWay
      BY <3>1 DEF FrameInv
    <3> HIDE DEF f
    <3>4. CASE f.kind = "answer"
      BY <3>1, <3>2, <3>4 DEF Reads, Queue!Answer
    <3>5. CASE f.kind = "ack"
      <4>1. place' = [place EXCEPT ![f.of] = "settled"] /\ answered' = answered
        BY <3>1, <3>5 DEF Reads
      <4>2. f.of \in owed /\ owed' = owed \ {f.of}
        BY <2>0, <3>1, <3>2, <4>1 DEF TypeOK
      <4> QED
        BY <3>1, <3>3, <3>5, <4>1, <4>2 DEF Queue!Settle
    <3>6. CASE f.kind \notin {"answer", "ack"}
      <4>1. Back(c, f.of) \in {"ready", "dead"}
        BY DEF Back
      <4>2. (\E x \in {"ready", "dead"} : place' = [place EXCEPT ![f.of] = x]) /\ answered' = answered
        BY <3>1, <3>6, <4>1 DEF Reads
      <4> QED
        BY <2>0, <3>1, <3>2, <4>2 DEF TypeOK
    <3> QED
      BY <3>4, <3>5, <3>6
  <2>6. ASSUME NEW c \in Consumers,
               Start(c) \/ Receive(c) \/ ReceiveRaises(c) \/ Close(c) \/ Block(c)
               \/ Replies(c) \/ Nacks(c)
        PROVE  owed' = owed /\ answered' = answered
    BY <2>6 DEF Start, Receive, ReceiveRaises, Close, Block, Replies, Nacks, queueVars
  <2>7. CASE UNCHANGED vars
    BY <2>7 DEF vars, queueVars
  <2> HIDE DEF owed
  <2> QED
    BY <2>1, <2>2, <2>3, <2>4, <2>5, <2>6, <2>7 DEF Next, Consumer, Server, Drop, Closed
<1> QED
  BY <1>1, <1>2, Invariant, PTL DEF Spec, ImplementsWorkQueue, Queue!Spec
=============================================================================
