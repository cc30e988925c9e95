--------------------------- MODULE ConfirmProofs ---------------------------
(***************************************************************************)
(* Proofs about Confirm, for any constants.  They are layered.             *)
(*   TrackerInv     at most one awaited confirm.select is answered, so the *)
(*                  numbering begins once, tags are given out once each    *)
(*                  and there is one for every publisher;                  *)
(*   BrokerInv      what the broker has numbered, returned and answered;   *)
(*   NumberedAlike  until Skewed, the broker's number of a message is its  *)
(*                  tag;                                                   *)
(*   AnsweredAlike  until then, what an answer under way stands for;       *)
(*   Traced         while Traceable, what is known of a return under way.  *)
(***************************************************************************)
EXTENDS Confirm, FiniteSetTheorems, TLAPS

-----------------------------------------------------------------------------
(* The invariants. *)

\* p's confirm.select is answered and p has not gone on yet.
OkSelect(p) == phase[p] = "select" /\ selected[p] = "ok"

Early(p) == phase[p] \in {"idle", "select"}

\* Only one confirm.select is answered: until its publisher goes on, either
\* the read loop is held or the place of the waiter is its own or empty.
SelectInv ==
  /\ \A p, q \in Publishers : OkSelect(p) /\ OkSelect(q) => p = q
  /\ \A p \in Publishers :
       OkSelect(p) => ~enabled /\ (chunk => waiter \in {p, Nobody})
  /\ enabled => waiter = Nobody

Tagged == {p \in Publishers : tagOf[p] # 0}

\* register() has given out the tags below next_tag, each to one publish.
TagInv ==
  /\ \A p \in Publishers :
       Early(p) => tagOf[p] = 0 /\ confirm[p] = "none" /\ outcome[p] = "none"
  /\ ~enabled => nextTag = 1
  /\ Cardinality(Tagged) = nextTag - 1
  /\ \A p \in Publishers : tagOf[p] < nextTag
  /\ \A p, q \in Publishers : tagOf[p] # 0 /\ tagOf[p] = tagOf[q] => p = q
  /\ \A t \in Tags : outstanding[t] # Nobody => tagOf[outstanding[t]] = t

Sent == {numbered[i] : i \in 1..Len(numbered)}

\* The broker numbers a message once.
SentInv ==
  /\ \A p \in Sent : ~Early(p)
  /\ Cardinality(Sent) = Len(numbered)

TrackerInv == TypeOK /\ SelectInv /\ TagInv /\ SentInv /\ ConfirmTracked

\* While the connection lives, the broker has numbered exactly the tagged
\* publishes, under their tags.
NumberInv ==
  ~lost =>
    /\ \A p \in Publishers : selected[p] # "none" => numbering
    /\ enabled => numbering
    /\ Len(numbered) = nextTag - 1
    /\ \A p \in Publishers : tagOf[p] # 0 => numbered[tagOf[p]] = p
    /\ \A i \in 1..Len(numbered) : tagOf[numbered[i]] = i

Covers(f, t) ==
  /\ f.kind \in {"ack", "nack"}
  /\ IF f.multiple THEN t <= f.tag ELSE t = f.tag

\* A confirm of t is among the frames w; none is before w[k].
UnderWay(w, t) == \E k \in 1..Len(w) : Covers(w[k], t)

NoneBefore(w, k, t) == \A j \in 1..(k - 1) : ~Covers(w[j], t)

Answered == acked \cup nacked

\* What a publish learns, the broker has said.
LearnedInv ==
  \A p \in Publishers :
    /\ outcome[p] \in {"ok", "returned"} \/ confirm[p] = "ok" => p \in acked
    /\ outcome[p] = "nack" \/ confirm[p] = "nack" => p \in nacked

\* The confirms under way: the first one that covers a tag still outstanding
\* is the broker's answer to it, and every answer not yet taken is under way.
WayInv ==
  ~lost =>
    /\ \A k \in 1..Len(wire) :
         wire[k].kind \in {"ack", "nack"} => wire[k].tag <= Len(numbered)
    /\ \A p \in Answered : p \in Sent
    /\ \A k \in 1..Len(wire), p \in Publishers :
         tagOf[p] # 0 /\ Covers(wire[k], tagOf[p]) => p \in Answered
    /\ \A p \in Answered :
         outstanding[tagOf[p]] # Nobody => UnderWay(wire, tagOf[p])
    /\ \A k \in 1..Len(wire), p \in Publishers :
         /\ tagOf[p] # 0 /\ Covers(wire[k], tagOf[p])
         /\ outstanding[tagOf[p]] = p
         /\ NoneBefore(wire, k, tagOf[p])
         => /\ wire[k].kind = "ack" => p \in acked
            /\ wire[k].kind = "nack" => p \in nacked

ReturnOf(f, p) == f.kind = "return" /\ f.of = p

Returning(w, p) == \E k \in 1..Len(w) : ReturnOf(w[k], p)

\* The broker answers what it has numbered, and returns only what is mandatory
\* and ahead of its answer.
BrokerInv ==
  /\ Answered \subseteq Sent
  /\ returns \subseteq unroutable
  /\ \A p \in unroutable : p \in Mandatory /\ ~Early(p)
  /\ Answered \cap unroutable \subseteq returns

\* A return noted for a confirm that is in is thrown away by the loss alone.
LossInv ==
  /\ ~lost => dropped = {}
  /\ lost => /\ returned = {}
             /\ \A p \in unroutable :
                  phase[p] = "confirm" /\ confirm[p] = "ok" => p \in dropped

\* The mandatory tags the client holds against what the broker has said.
MandatoryInv ==
  ~lost =>
    /\ \A t \in mandatoryTags : \E p \in Mandatory : tagOf[p] = t
    /\ \A p \in Mandatory :
         tagOf[p] # 0 =>
           tagOf[p] \in mandatoryTags \/ p \in Answered \/ p \in returns
    /\ \A p \in Answered :
         tagOf[p] \in mandatoryTags => UnderWay(wire, tagOf[p])
    /\ \A t \in returned : \E p \in unroutable : tagOf[p] = t

\* Before w[k] there is a return of q.
Ahead(w, k, q) == \E j \in 1..(k - 1) : ReturnOf(w[j], q)

\* A return under way finds its own tag the oldest when it is read: of every
\* older mandatory tag the confirm or the return is before it.
ReturnInv ==
  ~lost =>
    /\ \A p \in returns :
         phase[p] = "confirm" => tagOf[p] \in returned \/ Returning(wire, p)
    /\ \A p \in returns :
         tagOf[p] \in mandatoryTags => Returning(wire, p)
    /\ \A k \in 1..Len(wire), p \in Publishers :
         ReturnOf(wire[k], p) =>
           /\ p \in returns
           /\ tagOf[p] \in mandatoryTags
           /\ confirm[p] \notin {"ok", "nack"}
           /\ NoneBefore(wire, k, tagOf[p])
           /\ \A j \in 1..Len(wire) : ReturnOf(wire[j], p) => j = k
           /\ \A q \in Publishers :
                tagOf[q] \in mandatoryTags /\ tagOf[q] < tagOf[p] =>
                  ~NoneBefore(wire, k, tagOf[q]) \/ Ahead(wire, k, q)

\* Each return that comes to a publish is its own.
Attributed ==
  \A p \in Mandatory :
    /\ outcome[p] = "ok" => p \notin unroutable \/ p \in dropped
    /\ outcome[p] = "returned" => p \in unroutable

-----------------------------------------------------------------------------
(* What the steps do. *)

\* A publish whose tag is the next one.
Registers(p) ==
  /\ PublishAs(p, nextTag)
  /\ enabled' = TRUE /\ waiter' = Nobody /\ chunk' = FALSE
  /\ UNCHANGED <<selected, returned, lost, dropped, wire>>

\* A publisher that has no tag yet leaves one free for itself: the tags given
\* out are as many as the publishers that have one.
LEMMA FreeTag ==
  ASSUME ConfirmAssumption, TypeOK, TagInv,
         NEW p \in Publishers, Early(p)
  PROVE  /\ nextTag \in Tags
         /\ Cardinality(Tagged \cup {p}) = nextTag
         /\ IsFiniteSet(Tagged)
<1>1. /\ IsFiniteSet(Publishers)
      /\ Tagged \subseteq Publishers /\ Tagged \cup {p} \subseteq Publishers
  BY DEF ConfirmAssumption, Tagged
<1>2. IsFiniteSet(Tagged) /\ IsFiniteSet(Tagged \cup {p})
  BY <1>1, FS_Subset
<1>3. p \notin Tagged
  BY DEF TagInv, Tagged
<1>4. Cardinality(Tagged \cup {p}) = Cardinality(Tagged) + 1
  BY <1>2, <1>3, FS_AddElement
<1>5. Cardinality(Tagged) = nextTag - 1 /\ nextTag \in Nat \ {0}
  BY DEF TagInv, TypeOK
<1>6. Cardinality(Tagged \cup {p}) <= Cardinality(Publishers)
  BY <1>1, FS_Subset
<1>7. Cardinality(Publishers) \in Nat
  BY <1>1, FS_CardinalityType
<1>8. Cardinality(Tagged \cup {p}) = nextTag
  BY <1>4, <1>5
<1>9. nextTag \in Tags
  BY <1>5, <1>6, <1>7, <1>8 DEF Tags
<1> QED
  BY <1>2, <1>8, <1>9

\* However a publish comes to its tag, it is the next one: enable() runs once.
LEMMA NextTagTaken ==
  ASSUME TypeOK, SelectInv, TagInv,
         NEW p \in Publishers, Publish(p) \/ Selected(p)
  PROVE  Early(p) /\ Registers(p)
<1>1. CASE Publish(p)
  BY <1>1 DEF Publish, Begins, Early, Registers, SelectInv, selectVars
<1>2. CASE Selected(p)
  <2>1. OkSelect(p) /\ Early(p)
    BY <1>2 DEF Selected, OkSelect, Early
  <2>2. nextTag = 1
    BY <2>1 DEF SelectInv, TagInv
  <2>3. PublishAs(p, nextTag)
    BY <1>2, <2>2 DEF Selected
  <2> QED
    BY <1>2, <2>1, <2>3 DEF Selected, Registers
<1> QED
  BY <1>1, <1>2

\* What the broker has numbered is a set of publishers, as many as the tags.
LEMMA SentFinite ==
  ASSUME ConfirmAssumption, TypeOK, SentInv
  PROVE  /\ Sent \subseteq Publishers /\ IsFiniteSet(Sent)
         /\ Len(numbered) \in Nat
         /\ 1..Len(numbered) \subseteq Tags
<1>1. numbered \in Seq(Publishers)
  BY DEF TypeOK
<1>2. Len(numbered) \in Nat /\ \A i \in 1..Len(numbered) : numbered[i] \in Publishers
  BY <1>1
<1>3. Sent \subseteq Publishers
  BY <1>2 DEF Sent
<1>4. IsFiniteSet(Publishers)
  BY DEF ConfirmAssumption
<1>5. IsFiniteSet(Sent) /\ Cardinality(Sent) <= Cardinality(Publishers)
  BY <1>3, <1>4, FS_Subset
<1>6. Cardinality(Publishers) \in Nat
  BY <1>4, FS_CardinalityType
<1>7. Len(numbered) <= Cardinality(Publishers)
  BY <1>5 DEF SentInv
<1>8. 1..Len(numbered) \subseteq Tags
  BY <1>2, <1>6, <1>7 DEF Tags
<1> QED
  BY <1>2, <1>3, <1>5, <1>8

LEMMA AppendSent ==
  ASSUME TypeOK, NEW p \in Publishers, numbered' = Append(numbered, p)
  PROVE  /\ Sent' = Sent \cup {p}
         /\ Len(numbered') = Len(numbered) + 1
         /\ numbered'[Len(numbered) + 1] = p
         /\ \A i \in 1..Len(numbered) : numbered'[i] = numbered[i]
         /\ numbered' \in Seq(Publishers)
<1>1. numbered \in Seq(Publishers) /\ Len(numbered) \in Nat
  BY DEF TypeOK
<1>2. /\ Len(numbered') = Len(numbered) + 1
      /\ numbered'[Len(numbered) + 1] = p
      /\ \A i \in 1..Len(numbered) : numbered'[i] = numbered[i]
      /\ numbered' \in Seq(Publishers)
  BY <1>1
<1>3. 1..Len(numbered') = (1..Len(numbered)) \cup {Len(numbered) + 1}
  BY <1>1, <1>2
<1>4. Sent' = {numbered'[i] : i \in (1..Len(numbered)) \cup {Len(numbered) + 1}}
  BY <1>3 DEF Sent
<1>5. Sent' = {numbered[i] : i \in 1..Len(numbered)} \cup {p}
  BY <1>2, <1>4
<1> QED
  BY <1>2, <1>5 DEF Sent

\* What the broker does with a message it is sent, or that was lost.
LEMMA ReceivedEffect ==
  ASSUME TypeOK, NEW p \in Publishers, Received(p)
  PROVE  /\ numbered' = numbered \/ numbered' = Append(numbered, p)
         /\ numbered' \in Seq(Publishers)
         /\ \/ unroutable' = unroutable
            \/ ~lost /\ p \in Mandatory /\ unroutable' = unroutable \cup {p}
         /\ unroutable' \subseteq Publishers
         /\ UNCHANGED <<numbering, returns, acked, nacked, crossed>>
<1>1. CASE lost
  BY <1>1 DEF Received, brokerVars, TypeOK
<1>2. CASE ~lost
  <2>1. numbered' = numbered \/ numbered' = Append(numbered, p)
    BY <1>2 DEF Received
  <2>2. numbered \in Seq(Publishers)
    BY DEF TypeOK
  <2>3. Append(numbered, p) \in Seq(Publishers)
    BY <2>2
  <2>4. \/ unroutable' = unroutable
        \/ ~lost /\ p \in Mandatory /\ unroutable' = unroutable \cup {p}
    BY <1>2 DEF Received
  <2>5. unroutable' \subseteq Publishers
    BY <2>4 DEF TypeOK
  <2> QED
    BY <1>2, <2>1, <2>2, <2>3, <2>4, <2>5 DEF Received
<1> QED
  BY <1>1, <1>2

\* What a publish that registers leaves behind, sent or not.
LEMMA RegistersEffect ==
  ASSUME TypeOK, NEW p \in Publishers, Registers(p)
  PROVE  /\ nextTag' = nextTag + 1
         /\ outstanding' = [outstanding EXCEPT ![nextTag] = p]
         /\ tagOf' = [tagOf EXCEPT ![p] = nextTag]
         /\ confirm' = [confirm EXCEPT ![p] = "pending"]
         /\ \/ /\ phase' = [phase EXCEPT ![p] = "done"]
               /\ outcome' = [outcome EXCEPT ![p] = "raw"]
            \/ /\ phase' = [phase EXCEPT ![p] = "confirm"]
               /\ outcome' = outcome
         /\ numbered' = numbered \/ numbered' = Append(numbered, p)
         /\ numbered' \in Seq(Publishers)
         /\ \/ unroutable' = unroutable
            \/ ~lost /\ p \in Mandatory /\ unroutable' = unroutable \cup {p}
         /\ unroutable' \subseteq Publishers
         /\ UNCHANGED <<numbering, returns, acked, nacked, crossed>>
<1>1. CASE p \in Malformed
  <2>1. Ends(p, "raw") /\ UNCHANGED brokerVars
    BY <1>1 DEF Registers, PublishAs
  <2> QED
    BY <2>1 DEF Registers, PublishAs, Ends, Following, brokerVars, TypeOK
<1>2. CASE p \notin Malformed
  <2>1. Received(p) /\ UNCHANGED outcome
    BY <1>2 DEF Registers, PublishAs
  <2> QED
    BY <1>2, <2>1, ReceivedEffect DEF Registers, PublishAs, Following
<1> QED
  BY <1>1, <1>2

LEMMA RegistersPhase ==
  ASSUME TypeOK, NEW p \in Publishers, Registers(p)
  PROVE  /\ phase'[p] \in {"done", "confirm"}
         /\ \A q \in Publishers \ {p} :
              phase'[q] = phase[q] /\ outcome'[q] = outcome[q]
<1>1. CASE /\ phase' = [phase EXCEPT ![p] = "done"]
           /\ outcome' = [outcome EXCEPT ![p] = "raw"]
  BY <1>1 DEF TypeOK
<1>2. CASE /\ phase' = [phase EXCEPT ![p] = "confirm"]
           /\ outcome' = outcome
  BY <1>2 DEF TypeOK
<1> QED
  BY <1>1, <1>2, RegistersEffect

LEMMA FrameTypes ==
  /\ [kind |-> "select-ok"] \in Frames
  /\ \A p \in Publishers : [kind |-> "return", of |-> p] \in Frames
  /\ \A kind \in {"ack", "nack"}, t \in Tags, multiple \in BOOLEAN :
       [kind |-> kind, tag |-> t, multiple |-> multiple] \in Frames
  /\ \A f \in Frames :
       /\ f.kind \in {"select-ok", "return", "ack", "nack"}
       /\ f.kind = "return" => f.of \in Publishers
       /\ f.kind \in {"ack", "nack"} => f.tag \in Tags /\ f.multiple \in BOOLEAN
BY DEF Frames

\* What reading a frame does to the frames under way.
LEMMA ReadEffect ==
  ASSUME TypeOK, NEW kinds, Reads(kinds)
  PROVE  /\ ~lost /\ wire # << >> /\ (chunk \/ NoneWoken)
         /\ wire[1] \in Frames /\ wire[1].kind \in kinds
         /\ Head(wire) = wire[1]
         /\ wire' \in Seq(Frames)
         /\ Len(wire) \in Nat /\ Len(wire) >= 1 /\ Len(wire') = Len(wire) - 1
         /\ \A k \in 1..Len(wire') : wire'[k] = wire[k + 1]
         /\ chunk' = TRUE
         /\ UNCHANGED <<phase, outcome, lost, dropped, numbering, numbered,
                        unroutable, returns, acked, nacked, crossed>>
<1>1. wire \in Seq(Frames)
  BY DEF TypeOK
<1>2. /\ ~lost /\ wire # << >> /\ (chunk \/ NoneWoken)
      /\ Head(wire).kind \in kinds /\ wire' = Tail(wire) /\ chunk' = TRUE
      /\ UNCHANGED <<phase, outcome, lost, dropped, numbering, numbered,
                     unroutable, returns, acked, nacked, crossed>>
  BY DEF Reads, callVars, brokerVars
<1>3. Len(wire) \in Nat /\ Len(wire) >= 1 /\ Head(wire) = wire[1]
  BY <1>1, <1>2
<1>4. wire[1] \in Frames
  BY <1>1, <1>3
<1>5. wire' \in Seq(Frames) /\ Len(wire') = Len(wire) - 1
  BY <1>1, <1>2
<1>6. \A k \in 1..Len(wire') : wire'[k] = wire[k + 1]
  BY <1>1, <1>2, <1>5
<1> QED
  BY <1>2, <1>3, <1>4, <1>5, <1>6

\* What sending a frame does to the frames under way.
LEMMA AppendWire ==
  ASSUME TypeOK, NEW f \in Frames, wire' = Append(wire, f)
  PROVE  /\ wire' \in Seq(Frames)
         /\ Len(wire) \in Nat /\ Len(wire') = Len(wire) + 1
         /\ wire'[Len(wire) + 1] = f
         /\ \A k \in 1..Len(wire) : wire'[k] = wire[k] /\ wire[k] \in Frames
         /\ 1..Len(wire') = (1..Len(wire)) \cup {Len(wire) + 1}
<1>1. wire \in Seq(Frames)
  BY DEF TypeOK
<1>2. Len(wire) \in Nat
  BY <1>1
<1>3. /\ wire' \in Seq(Frames) /\ Len(wire') = Len(wire) + 1
      /\ wire'[Len(wire) + 1] = f
      /\ \A k \in 1..Len(wire) : wire'[k] = wire[k] /\ wire[k] \in Frames
  BY <1>1
<1>4. 1..Len(wire') = (1..Len(wire)) \cup {Len(wire) + 1}
  BY <1>2, <1>3
<1> QED
  BY <1>2, <1>3, <1>4

-----------------------------------------------------------------------------
(* TrackerInv is inductive. *)

LEMMA TrackerInit ==
  ASSUME ConfirmAssumption, Init
  PROVE  TrackerInv
<1>1. \A p \in Publishers :
        /\ phase[p] = "idle" /\ outcome[p] = "none" /\ selected[p] = "none"
        /\ confirm[p] = "none" /\ tagOf[p] = 0
  BY DEF Init
<1>2. numbered = << >> /\ Len(numbered) = 0 /\ 1..Len(numbered) = {}
  BY DEF Init
<1>3. TypeOK
  <2>1. numbered \in Seq(Publishers) /\ wire \in Seq(Frames)
    BY DEF Init
  <2>2. mandatoryTags \subseteq Tags /\ returned \subseteq Tags
    BY DEF Init
  <2> QED
    <3>1. /\ phase \in [Publishers -> {"idle", "select", "confirm", "done"}]
          /\ outcome \in [Publishers -> {"none", "written", "ok", "nack",
                                 "returned", "lost", "timeout", "raw",
                                 "cancelled"}]
          /\ selected \in [Publishers -> {"none", "pending", "ok", "lost"}]
      BY DEF Init
    <3>2. /\ outstanding \in [Tags -> Publishers \cup {Nobody}]
          /\ confirm \in [Publishers -> {"none", "pending", "cancelled"} \cup Answers]
          /\ tagOf \in [Publishers -> {0} \cup Tags]
      BY DEF Init
    <3>3. /\ waiter \in Publishers \cup {Nobody}
          /\ enabled \in BOOLEAN /\ chunk \in BOOLEAN /\ lost \in BOOLEAN
          /\ numbering \in BOOLEAN
      BY Zenon DEF Init
    <3>5. nextTag \in Nat \ {0}
      <4>1. nextTag = 1
        BY DEF Init
      <4> QED
        BY <4>1
    <3>4. /\ unroutable \subseteq Publishers /\ returns \subseteq Publishers
          /\ acked \subseteq Publishers /\ nacked \subseteq Publishers
          /\ crossed \in BOOLEAN /\ dropped \subseteq Publishers
      BY DEF Init
    <3> QED
      BY <2>1, <2>2, <3>1, <3>2, <3>3, <3>4, <3>5 DEF TypeOK
<1>4. SelectInv
  BY <1>1 DEF Init, SelectInv, OkSelect
<1>5. TagInv
  <2>1. Tagged = {}
    BY <1>1 DEF Tagged
  <2>2. Cardinality(Tagged) = 0
    BY <2>1, FS_EmptySet
  <2> QED
    BY <1>1, <2>2 DEF Init, TagInv, Early
<1>6. SentInv
  <2>1. Sent = {}
    BY <1>2 DEF Sent
  <2> QED
    BY <1>2, <2>1, FS_EmptySet DEF SentInv
<1>7. ConfirmTracked
  BY <1>1 DEF ConfirmTracked
<1> QED
  BY <1>3, <1>4, <1>5, <1>6, <1>7 DEF TrackerInv

LEMMA TypeNext ==
  ASSUME ConfirmAssumption, TrackerInv, [Next]_vars
  PROVE  TypeOK'
<1> USE DEF TrackerInv
<1> DEFINE EndsTyped ==
             /\ phase' \in [Publishers -> {"idle", "select", "confirm", "done"}]
             /\ outcome' \in [Publishers -> {"none", "written", "ok", "nack",
                                 "returned", "lost", "timeout", "raw",
                                 "cancelled"}]
<1> HIDE DEF EndsTyped
<1>1. ASSUME NEW p \in Publishers, Publish(p) \/ Selected(p)
      PROVE  TypeOK'
  <2>1. Early(p) /\ Registers(p)
    BY <1>1, NextTagTaken
  <2>2. nextTag \in Tags
    BY <2>1, FreeTag
  <2>3. mandatoryTags' \subseteq Tags
    BY <2>1, <2>2 DEF Registers, PublishAs, TypeOK
  <2> HIDE DEF Registers
  <2>4. /\ nextTag' \in Nat \ {0}
        /\ outstanding' \in [Tags -> Publishers \cup {Nobody}]
        /\ tagOf' \in [Publishers -> {0} \cup Tags]
        /\ confirm' \in [Publishers -> {"none", "pending", "cancelled"} \cup Answers]
    <3>1. /\ nextTag' = nextTag + 1
          /\ outstanding' = [outstanding EXCEPT ![nextTag] = p]
          /\ tagOf' = [tagOf EXCEPT ![p] = nextTag]
          /\ confirm' = [confirm EXCEPT ![p] = "pending"]
      BY <2>1, RegistersEffect
    <3>2. nextTag' \in Nat \ {0}
      BY <3>1 DEF TypeOK
    <3>3. outstanding' \in [Tags -> Publishers \cup {Nobody}]
      BY <3>1 DEF TypeOK
    <3>4. tagOf' \in [Publishers -> {0} \cup Tags]
      BY <2>2, <3>1 DEF TypeOK
    <3>5. confirm' \in [Publishers -> {"none", "pending", "cancelled"} \cup Answers]
      BY <3>1 DEF TypeOK
    <3> QED
      BY <3>2, <3>3, <3>4, <3>5
  <2>5. /\ phase' \in [Publishers -> {"idle", "select", "confirm", "done"}]
        /\ outcome' \in [Publishers -> {"none", "written", "ok", "nack",
                                 "returned", "lost", "timeout", "raw",
                                 "cancelled"}]
    BY <2>1, RegistersEffect, ZenonT(60) DEF TypeOK
  <2>6. /\ numbered' \in Seq(Publishers) /\ unroutable' \subseteq Publishers
        /\ UNCHANGED <<numbering, returns, acked, nacked, crossed>>
    BY <2>1, RegistersEffect
  <2>7. /\ enabled' = TRUE /\ waiter' = Nobody /\ chunk' = FALSE
        /\ UNCHANGED <<selected, returned, lost, dropped, wire>>
    BY <2>1 DEF Registers
  <2> QED
    BY <2>3, <2>4, <2>5, <2>6, <2>7 DEF TypeOK
<1>2. ASSUME NEW p \in Publishers, PublishUnconfirmed(p)
      PROVE  TypeOK'
  <2>1. /\ \/ Ends(p, "raw") /\ UNCHANGED brokerVars
           \/ Ends(p, "written") /\ Received(p)
        /\ chunk' = FALSE
        /\ UNCHANGED <<selectVars, trackerVars, returnVars, lost, dropped, wire>>
    BY <1>2 DEF PublishUnconfirmed
  <2>2. /\ numbered' \in Seq(Publishers) /\ unroutable' \subseteq Publishers
        /\ UNCHANGED <<numbering, returns, acked, nacked, crossed>>
    BY <2>1, ReceivedEffect DEF brokerVars, TypeOK
  <2> QED
    BY <2>1, <2>2 DEF TypeOK, Ends, selectVars, trackerVars, returnVars
<1>3. ASSUME NEW p \in Publishers, BeginSelect(p)
      PROVE  TypeOK'
  <2>1. wire' = wire \/ wire' = Append(wire, [kind |-> "select-ok"])
    BY <1>3 DEF BeginSelect
  <2>2. wire' \in Seq(Frames)
    BY <2>1, FrameTypes, AppendWire DEF TypeOK
  <2>3. numbering' \in BOOLEAN
    BY <1>3 DEF BeginSelect
  <2> QED
    BY <1>3, <2>2, <2>3 DEF BeginSelect, TypeOK, trackerVars, returnVars
<1>4. ASSUME NEW p \in Publishers, SelectFails(p)
      PROVE  TypeOK'
  <2>1. \E how \in {"lost", "timeout"} : Ends(p, how)
    BY <1>4 DEF SelectFails
  <2>2. selected' \in [Publishers -> {"none", "pending", "ok", "lost"}]
    BY <1>4 DEF SelectFails, TypeOK
  <2>3. EndsTyped
    BY <2>1 DEF Ends, TypeOK, EndsTyped
  <2> QED
    BY <1>4, <2>2, <2>3 DEF SelectFails, EndsTyped, TypeOK, trackerVars, returnVars, brokerVars
<1>5. ASSUME NEW p \in Publishers, Confirmed(p)
      PROVE  TypeOK'
  <2>1. \E how \in Answers \cup {"returned"} : Ends(p, how)
    BY <1>5 DEF Confirmed
  <2>2. returned' \subseteq Tags
    BY <1>5 DEF Confirmed, TypeOK
  <2>3. EndsTyped
    BY <2>1 DEF Ends, TypeOK, Answers, EndsTyped
  <2> QED
    BY <1>5, <2>2, <2>3 DEF Confirmed, EndsTyped, TypeOK, selectVars, trackerVars, brokerVars
<1>6. ASSUME NEW p \in Publishers, Cancel(p)
      PROVE  TypeOK'
  BY <1>6 DEF Cancel, Ends, TypeOK, returnVars, brokerVars
<1>7. ASSUME NEW p \in Publishers, Return(p)
      PROVE  TypeOK'
  <2>1. wire' \in Seq(Frames)
    BY <1>7, FrameTypes, AppendWire DEF Return
  <2>2. returns' \subseteq Publishers
    BY <1>7 DEF Return, TypeOK
  <2>3. crossed' \in BOOLEAN
    BY <1>7, Zenon DEF Return, TypeOK
  <2> QED
    BY <1>7, <2>1, <2>2, <2>3 DEF Return, TypeOK, clientVars, callVars, selectVars, trackerVars, returnVars
<1>8. ASSUME NEW i \in Unanswered, NEW kind \in {"ack", "nack"},
             NEW multiple \in BOOLEAN, Answer(i, kind, multiple)
      PROVE  TypeOK'
  <2>1. i \in Tags /\ \A j \in Unanswered : numbered[j] \in Publishers
    BY SentFinite DEF Unanswered, TypeOK
  <2>2. wire' \in Seq(Frames)
    BY <1>8, <2>1, FrameTypes, AppendWire DEF Answer
  <2>3. acked' \subseteq Publishers /\ nacked' \subseteq Publishers
    BY <1>8, <2>1 DEF Answer, TypeOK
  <2> QED
    BY <1>8, <2>2, <2>3 DEF Answer, TypeOK, clientVars, callVars, selectVars, trackerVars, returnVars
<1>9. CASE OnSelectOk
  <2>1. /\ wire' \in Seq(Frames) /\ chunk' = TRUE
        /\ UNCHANGED <<phase, outcome, lost, dropped, numbering, numbered,
                       unroutable, returns, acked, nacked, crossed>>
    BY <1>9, ReadEffect DEF OnSelectOk
  <2>2. selected' \in [Publishers -> {"none", "pending", "ok", "lost"}]
    BY <1>9 DEF OnSelectOk, TypeOK
  <2> QED
    BY <1>9, <2>1, <2>2 DEF OnSelectOk, TypeOK, trackerVars, returnVars
<1>10. CASE OnReturn
  <2>1. /\ wire' \in Seq(Frames) /\ chunk' = TRUE
        /\ UNCHANGED <<phase, outcome, lost, dropped, numbering, numbered,
                       unroutable, returns, acked, nacked, crossed>>
    BY <1>10, ReadEffect DEF OnReturn
  <2>2. mandatoryTags' \subseteq Tags /\ returned' \subseteq Tags
    BY <1>10 DEF OnReturn, TypeOK, returnVars
  <2> QED
    BY <1>10, <2>1, <2>2 DEF OnReturn, TypeOK, selectVars, trackerVars
<1>11. CASE OnConfirm
  <2>1. /\ wire' \in Seq(Frames) /\ chunk' = TRUE
        /\ UNCHANGED <<phase, outcome, lost, dropped, numbering, numbered,
                       unroutable, returns, acked, nacked, crossed>>
    BY <1>11, ReadEffect DEF OnConfirm
  <2>2. mandatoryTags' \subseteq Tags
    BY <1>11 DEF OnConfirm, TypeOK
  <2>3. outstanding' \in [Tags -> Publishers \cup {Nobody}]
    BY <1>11 DEF OnConfirm, TypeOK
  <2>4. confirm' \in [Publishers -> {"none", "pending", "cancelled"} \cup Answers]
    BY <1>11 DEF OnConfirm, TypeOK, Answers
  <2> QED
    BY <1>11, <2>1, <2>2, <2>3, <2>4 DEF OnConfirm, TypeOK, selectVars
<1>12. CASE Loss
  <2>1. wire' \in Seq(Frames)
    BY <1>12 DEF Loss
  <2>2. selected' \in [Publishers -> {"none", "pending", "ok", "lost"}]
    BY <1>12 DEF Loss, TypeOK
  <2>3. confirm' \in [Publishers -> {"none", "pending", "cancelled"} \cup Answers]
    BY <1>12 DEF Loss, FailAll, TypeOK, Answers
  <2>4. /\ mandatoryTags' \subseteq Tags /\ returned' \subseteq Tags
        /\ dropped' \subseteq Publishers
    BY <1>12 DEF Loss
  <2> QED
    BY <1>12, <2>1, <2>2, <2>3, <2>4 DEF Loss, TypeOK, callVars, brokerVars
<1>13. CASE UNCHANGED vars
  BY <1>13 DEF TypeOK, vars, clientVars, callVars, selectVars, trackerVars, returnVars, brokerVars
<1> QED
  BY <1>1, <1>2, <1>3, <1>4, <1>5, <1>6, <1>7, <1>8, <1>9, <1>10, <1>11, <1>12, <1>13
     DEF Next, Publisher, Broker, ReadLoop

LEMMA SelectNext ==
  ASSUME ConfirmAssumption, TrackerInv, [Next]_vars
  PROVE  SelectInv'
<1> USE DEF TrackerInv
<1> DEFINE Fewer == \A q \in Publishers : OkSelect(q)' => OkSelect(q)
<1>1. ASSUME Fewer, enabled' = enabled, chunk' = FALSE, enabled => waiter' = Nobody
      PROVE  SelectInv'
  BY <1>1 DEF SelectInv
<1>2. ASSUME NEW p \in Publishers, Publish(p) \/ Selected(p)
      PROVE  SelectInv'
  <2>1. \A q \in Publishers \ {p} : ~OkSelect(q)
    BY <1>2 DEF Publish, Selected, SelectInv, OkSelect
  <2>2. Registers(p)
    BY <1>2, NextTagTaken
  <2>3. /\ phase'[p] # "select"
        /\ \A q \in Publishers \ {p} : phase'[q] = phase[q]
        /\ selected' = selected /\ waiter' = Nobody
    BY <2>2, RegistersPhase DEF Registers
  <2>4. \A q \in Publishers : ~OkSelect(q)'
    BY <2>1, <2>3 DEF OkSelect
  <2> QED
    BY <2>3, <2>4 DEF SelectInv
<1>3. ASSUME NEW p \in Publishers, PublishUnconfirmed(p)
      PROVE  SelectInv'
  <2>1. \E how \in {"raw", "written"} : Ends(p, how)
    BY <1>3 DEF PublishUnconfirmed
  <2>2. Fewer
    BY <1>3, <2>1 DEF PublishUnconfirmed, Ends, OkSelect, TypeOK, selectVars
  <2> QED
    BY <1>1, <1>3, <2>2 DEF PublishUnconfirmed, selectVars, SelectInv
<1>4. ASSUME NEW p \in Publishers, BeginSelect(p)
      PROVE  SelectInv'
  <2>1. Fewer
    BY <1>4 DEF BeginSelect, OkSelect, TypeOK
  <2> QED
    BY <1>1, <1>4, <2>1 DEF BeginSelect
<1>5. ASSUME NEW p \in Publishers, SelectFails(p)
      PROVE  SelectInv'
  <2>1. Fewer
    BY <1>5 DEF SelectFails, Ends, OkSelect, TypeOK
  <2> QED
    BY <1>1, <1>5, <2>1 DEF SelectFails
<1>6. ASSUME NEW p \in Publishers, Confirmed(p)
      PROVE  SelectInv'
  <2>1. \E how \in Answers \cup {"returned"} : Ends(p, how)
    BY <1>6 DEF Confirmed
  <2>2. Fewer
    BY <1>6, <2>1 DEF Confirmed, Ends, OkSelect, TypeOK, selectVars
  <2> QED
    BY <1>1, <1>6, <2>2 DEF Confirmed, selectVars, SelectInv
<1>7. ASSUME NEW p \in Publishers, Cancel(p)
      PROVE  SelectInv'
  <2>1. Fewer
    BY <1>7 DEF Cancel, Ends, OkSelect, TypeOK
  <2> QED
    BY <1>1, <1>7, <2>1 DEF Cancel, SelectInv
<1>8. CASE Broker
  <2>1. UNCHANGED <<phase, selectVars, chunk>>
    BY <1>8 DEF Broker, Return, Answer, clientVars, callVars
  <2> QED
    BY <2>1 DEF SelectInv, OkSelect, selectVars
<1>9. CASE ReadLoop
  <2>1. PICK kinds : Reads(kinds)
    BY <1>9 DEF ReadLoop, OnSelectOk, OnReturn, OnConfirm
  <2>2. phase' = phase /\ (chunk \/ NoneWoken)
    BY <2>1, ReadEffect
  <2>3. \A q \in Publishers : OkSelect(q) => waiter \in {q, Nobody}
    BY <2>2 DEF NoneWoken, Woken, OkSelect, SelectInv
  <2>4. waiter' = waiter /\ enabled' = enabled
    BY <1>9 DEF ReadLoop, OnSelectOk, OnReturn, OnConfirm, selectVars
  <2>5. CASE Fewer
    BY <2>3, <2>4, <2>5 DEF SelectInv
  <2>6. CASE ~Fewer
    <3>1. PICK q \in Publishers : OkSelect(q)' /\ ~OkSelect(q)
      BY <2>6
    <3>2. OnSelectOk
      BY <1>9, <2>2, <3>1 DEF ReadLoop, OnReturn, OnConfirm, selectVars, OkSelect
    <3>3. \A x \in Publishers : x # waiter => selected'[x] = selected[x]
      BY <3>2 DEF OnSelectOk
    <3>4. \A x \in Publishers : x # waiter /\ OkSelect(x)' => OkSelect(x)
      BY <2>2, <3>3 DEF OkSelect
    <3>5. waiter = q
      BY <3>1, <3>4
    <3>6. q # Nobody
      BY <3>1 DEF ConfirmAssumption
    <3>7. \A x \in Publishers : OkSelect(x)' => x = q
      BY <2>3, <3>4, <3>5, <3>6
    <3>8. ~enabled
      BY <3>5, <3>6 DEF SelectInv
    <3> QED
      BY <2>4, <3>5, <3>7, <3>8 DEF SelectInv
  <2> QED
    BY <2>5, <2>6
<1>10. CASE Loss
  <2>1. Fewer
    BY <1>10 DEF Loss, OkSelect, callVars
  <2> QED
    BY <1>1, <1>10, <2>1 DEF Loss, SelectInv
<1>11. CASE UNCHANGED vars
  BY <1>11 DEF SelectInv, OkSelect, vars, clientVars, callVars, selectVars
<1> QED
  BY <1>2, <1>3, <1>4, <1>5, <1>6, <1>7, <1>8, <1>9, <1>10, <1>11 DEF Next, Publisher

LEMMA TagNext ==
  ASSUME ConfirmAssumption, TrackerInv, [Next]_vars
  PROVE  TagInv'
<1> USE DEF TrackerInv
<1> DEFINE Calls ==
             \A q \in Publishers :
               Early(q)' => /\ Early(q) /\ confirm'[q] = confirm[q]
                            /\ outcome'[q] = outcome[q]
           Kept ==
             \A t \in Tags : outstanding'[t] \in {outstanding[t], Nobody}
<1>1. ASSUME Calls, Kept, UNCHANGED <<enabled, nextTag, tagOf>>
      PROVE  TagInv'
  <2>1. Tagged' = Tagged
    BY <1>1 DEF Tagged
  <2>2. \A q \in Publishers :
          Early(q)' => tagOf'[q] = 0 /\ confirm'[q] = "none" /\ outcome'[q] = "none"
    BY <1>1 DEF TagInv
  <2>3. \A t \in Tags : outstanding'[t] # Nobody => tagOf'[outstanding'[t]] = t
    BY <1>1 DEF TagInv
  <2> QED
    BY <1>1, <2>1, <2>2, <2>3 DEF TagInv
<1>2. ASSUME NEW p \in Publishers, Publish(p) \/ Selected(p)
      PROVE  TagInv'
  <2>1. Early(p) /\ Registers(p)
    BY <1>2, NextTagTaken
  <2>2. nextTag \in Tags /\ nextTag \in Nat \ {0} /\ Cardinality(Tagged \cup {p}) = nextTag
    BY <2>1, FreeTag DEF TypeOK
  <2>3. /\ nextTag' = nextTag + 1
        /\ outstanding' = [outstanding EXCEPT ![nextTag] = p]
        /\ tagOf' = [tagOf EXCEPT ![p] = nextTag]
        /\ confirm' = [confirm EXCEPT ![p] = "pending"]
        /\ phase'[p] \in {"done", "confirm"}
        /\ \A q \in Publishers \ {p} :
             phase'[q] = phase[q] /\ outcome'[q] = outcome[q]
        /\ enabled' = TRUE
    BY <2>1, RegistersEffect, RegistersPhase DEF Registers
  <2>4. /\ tagOf'[p] = nextTag
        /\ \A q \in Publishers \ {p} : tagOf'[q] = tagOf[q] /\ confirm'[q] = confirm[q]
    BY <2>3 DEF TypeOK
  <2>5. Tagged' = Tagged \cup {p}
    BY <2>2, <2>4 DEF Tagged
  <2>6. Cardinality(Tagged') = nextTag' - 1
    BY <2>2, <2>3, <2>5
  <2>7. \A q \in Publishers : tagOf[q] \in Nat /\ tagOf[q] < nextTag
    BY DEF TypeOK, Tags, TagInv
  <2>8. \A q \in Publishers : tagOf'[q] < nextTag'
    BY <2>2, <2>3, <2>4, <2>7
  <2>9. \A q, r \in Publishers : tagOf'[q] # 0 /\ tagOf'[q] = tagOf'[r] => q = r
    <3>1. \A q \in Publishers \ {p} : tagOf'[q] # nextTag
      BY <2>2, <2>4, <2>7
    <3> QED
      BY <2>4, <3>1 DEF TagInv
  <2>10. \A q \in Publishers :
          Early(q)' => tagOf'[q] = 0 /\ confirm'[q] = "none" /\ outcome'[q] = "none"
    BY <2>3, <2>4 DEF Early, TagInv
  <2>11. \A t \in Tags : outstanding'[t] # Nobody => tagOf'[outstanding'[t]] = t
    <3>1. SUFFICES ASSUME NEW t \in Tags, outstanding'[t] # Nobody
                   PROVE  tagOf'[outstanding'[t]] = t
      OBVIOUS
    <3>2. CASE t = nextTag
      <4>1. outstanding'[t] = p
        BY <2>2, <2>3, <3>2 DEF TypeOK
      <4> QED
        BY <2>4, <3>2, <4>1
    <3>3. CASE t # nextTag
      <4>1. outstanding'[t] = outstanding[t] /\ outstanding[t] \in Publishers
        BY <2>3, <3>1, <3>3 DEF TypeOK
      <4>2. tagOf[outstanding[t]] = t /\ t # 0
        BY <3>1, <4>1 DEF TagInv, Tags
      <4>3. outstanding[t] # p
        BY <2>1, <4>2 DEF TagInv
      <4> QED
        BY <2>4, <4>1, <4>2, <4>3
    <3> QED
      BY <3>2, <3>3
  <2> QED
    BY <2>3, <2>6, <2>8, <2>9, <2>10, <2>11 DEF TagInv
<1>3. ASSUME NEW p \in Publishers, PublishUnconfirmed(p)
      PROVE  TagInv'
  <2>1. \E how \in {"raw", "written"} : Ends(p, how)
    BY <1>3 DEF PublishUnconfirmed
  <2>2. Calls /\ Kept
    BY <1>3, <2>1 DEF PublishUnconfirmed, Ends, Early, TypeOK, trackerVars
  <2> QED
    BY <1>1, <1>3, <2>2 DEF PublishUnconfirmed, selectVars, trackerVars
<1>4. ASSUME NEW p \in Publishers, BeginSelect(p)
      PROVE  TagInv'
  <2>1. Calls /\ Kept
    BY <1>4 DEF BeginSelect, Begins, Early, TypeOK, trackerVars
  <2> QED
    BY <1>1, <1>4, <2>1 DEF BeginSelect, trackerVars
<1>5. ASSUME NEW p \in Publishers, SelectFails(p)
      PROVE  TagInv'
  <2>1. Calls /\ Kept
    BY <1>5 DEF SelectFails, Ends, Early, TypeOK, trackerVars
  <2> QED
    BY <1>1, <1>5, <2>1 DEF SelectFails, trackerVars
<1>6. ASSUME NEW p \in Publishers, Confirmed(p)
      PROVE  TagInv'
  <2>1. \E how \in Answers \cup {"returned"} : Ends(p, how)
    BY <1>6 DEF Confirmed
  <2>2. Calls /\ Kept
    BY <1>6, <2>1 DEF Confirmed, Ends, Early, TypeOK, trackerVars
  <2> QED
    BY <1>1, <1>6, <2>2 DEF Confirmed, trackerVars, selectVars
<1>7. ASSUME NEW p \in Publishers, Cancel(p)
      PROVE  TagInv'
  <2>1. Calls /\ Kept
    BY <1>7 DEF Cancel, Ends, Early, TypeOK
  <2> QED
    BY <1>1, <1>7, <2>1 DEF Cancel
<1>8. CASE Broker
  <2>1. UNCHANGED <<callVars, selectVars, trackerVars>>
    BY <1>8 DEF Broker, Return, Answer, clientVars
  <2>2. Calls /\ Kept
    BY <2>1 DEF Early, callVars, trackerVars
  <2> QED
    BY <1>1, <2>1, <2>2 DEF selectVars, trackerVars
<1>9. CASE OnSelectOk \/ OnReturn
  <2>1. UNCHANGED <<callVars, enabled, trackerVars>>
    BY <1>9 DEF OnSelectOk, OnReturn, Reads, selectVars
  <2>2. Calls /\ Kept
    BY <2>1 DEF Early, callVars, trackerVars
  <2> QED
    BY <1>1, <2>1, <2>2 DEF trackerVars
<1>10. CASE OnConfirm
  <2>1. UNCHANGED <<callVars, enabled, nextTag, tagOf>>
    BY <1>10 DEF OnConfirm, Reads, selectVars
  <2>2. \A q \in Publishers : confirm[q] # "pending" => confirm'[q] = confirm[q]
    BY <1>10 DEF OnConfirm
  <2>3. Calls
    BY <2>1, <2>2 DEF Early, callVars, TagInv
  <2>4. Kept
    BY <1>10 DEF OnConfirm
  <2> QED
    BY <1>1, <2>1, <2>3, <2>4
<1>11. CASE Loss
  <2>1. Calls /\ Kept
    BY <1>11 DEF Loss, FailAll, Early, callVars, TagInv
  <2> QED
    BY <1>1, <1>11, <2>1 DEF Loss
<1>12. CASE UNCHANGED vars
  <2>1. Calls /\ Kept
    BY <1>12 DEF vars, clientVars, callVars, trackerVars, Early
  <2> QED
    BY <1>1, <1>12, <2>1 DEF vars, clientVars, selectVars, trackerVars
<1> QED
  BY <1>2, <1>3, <1>4, <1>5, <1>6, <1>7, <1>8, <1>9, <1>10, <1>11, <1>12
     DEF Next, Publisher, ReadLoop

\* Nobody who has gone on to publish is early again.
LEMMA EarlyNext ==
  ASSUME ConfirmAssumption, TrackerInv, [Next]_vars
  PROVE  \A q \in Publishers : Early(q)' => Early(q)
<1> USE DEF TrackerInv
<1>1. ASSUME NEW p \in Publishers, Publish(p) \/ Selected(p)
      PROVE  \A q \in Publishers : Early(q)' => Early(q)
  BY <1>1, NextTagTaken, RegistersPhase DEF Early
<1>2. ASSUME NEW p \in Publishers, NEW how, Ends(p, how)
      PROVE  \A q \in Publishers : Early(q)' => Early(q)
  BY <1>2 DEF Ends, Early, TypeOK
<1>3. ASSUME NEW p \in Publishers,
             \/ PublishUnconfirmed(p) \/ SelectFails(p) \/ Confirmed(p) \/ Cancel(p)
      PROVE  \A q \in Publishers : Early(q)' => Early(q)
  <2>1. \E how : Ends(p, how)
    BY <1>3 DEF PublishUnconfirmed, SelectFails, Confirmed, Cancel
  <2> QED
    BY <1>2, <2>1
<1>4. ASSUME NEW p \in Publishers, BeginSelect(p)
      PROVE  \A q \in Publishers : Early(q)' => Early(q)
  BY <1>4 DEF BeginSelect, Begins, Early, TypeOK
<1>5. CASE Broker \/ ReadLoop \/ Loss \/ UNCHANGED vars
  <2>1. phase' = phase
    BY <1>5 DEF Broker, Return, Answer, clientVars, callVars, ReadLoop, OnSelectOk,
                OnReturn, OnConfirm, Reads, Loss, vars
  <2> QED
    BY <2>1 DEF Early
<1> QED
  BY <1>1, <1>3, <1>4, <1>5 DEF Next, Publisher

LEMMA SentNext ==
  ASSUME ConfirmAssumption, TrackerInv, [Next]_vars
  PROVE  SentInv'
<1> USE DEF TrackerInv
<1>1. Sent \subseteq Publishers /\ IsFiniteSet(Sent)
  BY SentFinite
<1>2. ASSUME numbered' = numbered
      PROVE  SentInv'
  <2>1. Sent' = Sent /\ Len(numbered') = Len(numbered)
    BY <1>2 DEF Sent
  <2>2. \A q \in Sent : ~Early(q)'
    BY <1>1, EarlyNext DEF SentInv
  <2> QED
    BY <2>1, <2>2 DEF SentInv
<1>3. ASSUME NEW p \in Publishers, Early(p), phase'[p] \in {"done", "confirm"},
             numbered' = Append(numbered, p)
      PROVE  SentInv'
  <2>1. Sent' = Sent \cup {p} /\ Len(numbered') = Len(numbered) + 1
    BY <1>3, AppendSent
  <2>2. p \notin Sent
    BY <1>3 DEF SentInv
  <2>3. Cardinality(Sent \cup {p}) = Cardinality(Sent) + 1
    BY <1>1, <2>2, FS_AddElement
  <2>4. Cardinality(Sent') = Len(numbered')
    BY <2>1, <2>3 DEF SentInv
  <2>5. \A q \in Sent : ~Early(q)'
    BY <1>1, EarlyNext DEF SentInv
  <2>6. ~Early(p)'
    BY <1>3 DEF Early
  <2> QED
    BY <2>1, <2>4, <2>5, <2>6 DEF SentInv
<1>4. ASSUME NEW p \in Publishers, Publish(p) \/ Selected(p)
      PROVE  SentInv'
  BY <1>2, <1>3, <1>4, NextTagTaken, RegistersEffect, RegistersPhase
<1>5. ASSUME NEW p \in Publishers, PublishUnconfirmed(p)
      PROVE  SentInv'
  <2>1. Early(p)
    BY <1>5 DEF PublishUnconfirmed, Begins, Early
  <2>2. \E how : Ends(p, how)
    BY <1>5 DEF PublishUnconfirmed
  <2>3. phase'[p] = "done"
    BY <2>2 DEF Ends, TypeOK
  <2>4. numbered' = numbered \/ numbered' = Append(numbered, p)
    BY <1>5, ReceivedEffect DEF PublishUnconfirmed, brokerVars
  <2> QED
    BY <1>2, <1>3, <2>1, <2>3, <2>4
<1>6. ASSUME NEW p \in Publishers,
             \/ BeginSelect(p) \/ SelectFails(p) \/ Confirmed(p) \/ Cancel(p)
      PROVE  SentInv'
  BY <1>2, <1>6 DEF BeginSelect, SelectFails, Confirmed, Cancel, brokerVars
<1>7. CASE Broker \/ ReadLoop \/ Loss \/ UNCHANGED vars
  <2>1. numbered' = numbered
    BY <1>7 DEF Broker, Return, Answer, brokerVars, ReadLoop, OnSelectOk,
                OnReturn, OnConfirm, Reads, Loss, vars
  <2> QED
    BY <1>2, <2>1
<1> QED
  BY <1>4, <1>5, <1>6, <1>7 DEF Next, Publisher

LEMMA TrackedNext ==
  ASSUME ConfirmAssumption, TrackerInv, [Next]_vars
  PROVE  ConfirmTracked'
<1> USE DEF TrackerInv
<1> DEFINE Pending == \A q \in Publishers : confirm'[q] = "pending" => confirm[q] = "pending"
<1>1. ASSUME Pending, UNCHANGED <<tagOf, outstanding>>
      PROVE  ConfirmTracked'
  BY <1>1 DEF ConfirmTracked
<1>2. ASSUME NEW p \in Publishers, Publish(p) \/ Selected(p)
      PROVE  ConfirmTracked'
  <2>1. Early(p) /\ Registers(p)
    BY <1>2, NextTagTaken
  <2>2. nextTag \in Tags /\ nextTag # 0
    BY <2>1, FreeTag DEF TypeOK
  <2>3. /\ outstanding'[nextTag] = p
        /\ \A t \in Tags \ {nextTag} : outstanding'[t] = outstanding[t]
        /\ tagOf'[p] = nextTag
        /\ \A q \in Publishers \ {p} : tagOf'[q] = tagOf[q] /\ confirm'[q] = confirm[q]
    BY <2>1, <2>2, RegistersEffect DEF TypeOK
  <2>4. ASSUME NEW q \in Publishers \ {p}, confirm'[q] = "pending"
        PROVE  tagOf'[q] # 0 /\ outstanding'[tagOf'[q]] = q
    <3>1. tagOf[q] # 0 /\ outstanding[tagOf[q]] = q
      BY <2>3, <2>4 DEF ConfirmTracked
    <3>2. tagOf[q] \in Tags /\ tagOf[q] < nextTag
      BY <3>1 DEF TypeOK, TagInv
    <3>3. tagOf[q] # nextTag
      BY <2>2, <3>2 DEF Tags
    <3> QED
      BY <2>3, <3>1, <3>2, <3>3
  <2> QED
    BY <2>2, <2>3, <2>4 DEF ConfirmTracked
<1>3. ASSUME NEW p \in Publishers,
             \/ PublishUnconfirmed(p) \/ BeginSelect(p) \/ SelectFails(p)
             \/ Confirmed(p) \/ Cancel(p)
      PROVE  ConfirmTracked'
  <2>1. confirm' = confirm \/ Cancel(p)
    BY <1>3 DEF PublishUnconfirmed, BeginSelect, SelectFails, Confirmed, trackerVars
  <2>2. Pending
    BY <2>1 DEF Cancel, TypeOK
  <2>3. UNCHANGED <<tagOf, outstanding>>
    BY <1>3 DEF PublishUnconfirmed, BeginSelect, SelectFails, Confirmed, Cancel, trackerVars
  <2> QED
    BY <1>1, <2>2, <2>3
<1>4. CASE Broker \/ OnSelectOk \/ OnReturn \/ UNCHANGED vars
  <2>1. UNCHANGED <<confirm, tagOf, outstanding>>
    BY <1>4 DEF Broker, Return, Answer, OnSelectOk, OnReturn, vars, clientVars, trackerVars
  <2> QED
    BY <1>1, <2>1
<1>5. CASE OnConfirm
  <2>1. CASE ~enabled
    BY <1>1, <1>5, <2>1 DEF OnConfirm
  <2>2. CASE enabled
    <3> DEFINE tags == Covered(Head(wire).tag, Head(wire).multiple)
               owners == {outstanding[t] : t \in tags}
    <3>1. /\ outstanding' = [t \in Tags |-> IF t \in tags THEN Nobody ELSE outstanding[t]]
          /\ \A q \in Publishers :
               confirm'[q] = "pending" => q \notin owners /\ confirm[q] = "pending"
          /\ tagOf' = tagOf
      BY <1>5, <2>2 DEF OnConfirm
    <3> HIDE DEF tags
    <3>2. ASSUME NEW q \in Publishers, confirm'[q] = "pending"
          PROVE  tagOf'[q] # 0 /\ outstanding'[tagOf'[q]] = q
      <4>1. tagOf[q] # 0 /\ outstanding[tagOf[q]] = q /\ q \notin owners
        BY <3>1, <3>2 DEF ConfirmTracked
      <4>2. tagOf[q] \in Tags /\ tagOf[q] \notin tags
        BY <4>1 DEF TypeOK
      <4> QED
        BY <3>1, <4>1, <4>2
    <3> QED
      BY <3>2 DEF ConfirmTracked
  <2> QED
    BY <2>1, <2>2
<1>6. CASE Loss
  <2>1. ASSUME NEW q \in Publishers
        PROVE  confirm'[q] # "pending"
    <3>1. confirm'[q] = IF confirm[q] = "pending" /\ \E t \in Tags : outstanding[t] = q
                        THEN "lost" ELSE confirm[q]
      BY <1>6 DEF Loss, FailAll
    <3>2. confirm[q] = "pending" => tagOf[q] \in Tags /\ outstanding[tagOf[q]] = q
      BY DEF ConfirmTracked, TypeOK
    <3> QED
      BY <3>1, <3>2
  <2> QED
    BY <2>1 DEF ConfirmTracked
<1> QED
  BY <1>2, <1>3, <1>4, <1>5, <1>6 DEF Next, Publisher, ReadLoop

\* Whatever publishers, read loop and losses do in turn, one confirm.select at
\* a time is answered, register() gives each tag to one publish, and what is
\* awaited is tracked.
THEOREM Tracker == Spec => []TrackerInv
<1>1. Init => TrackerInv
  BY ConfirmAssumption, TrackerInit
<1>2. TrackerInv /\ [Next]_vars => TrackerInv'
  BY ConfirmAssumption, TypeNext, SelectNext, TagNext, SentNext, TrackedNext DEF TrackerInv
<1> QED
  BY <1>1, <1>2, PTL DEF Spec

\* Every variable of Confirm keeps its type: in particular no more tags are
\* given out than there are publishes.
THEOREM TypeCorrect == Spec => []TypeOK
<1>1. TrackerInv => TypeOK
  BY DEF TrackerInv
<1> QED
  BY <1>1, Tracker, PTL

\* A confirm that is awaited is in the tracker under its own tag: two
\* publishers that both await confirm.select never restart the numbering
\* behind each other's back.
THEOREM AwaitedIsTracked == Spec => []ConfirmTracked
<1>1. TrackerInv => ConfirmTracked
  BY DEF TrackerInv
<1> QED
  BY <1>1, Tracker, PTL

-----------------------------------------------------------------------------
(* What the broker has said, and what no step takes back.                   *)

\* The broker's numbering and a publish's tag are not taken back.
LEMMA KeptNext ==
  ASSUME ConfirmAssumption, TrackerInv, [Next]_vars
  PROVE  /\ \A i \in 1..Len(numbered) :
              i \in 1..Len(numbered') /\ numbered'[i] = numbered[i]
         /\ \A q \in Publishers : ~Early(q) => tagOf'[q] = tagOf[q]
         /\ returns \subseteq returns' /\ (crossed => crossed')
<1> USE DEF TrackerInv
<1> DEFINE Numbers == numbered' = numbered
                      \/ \E q \in Publishers : numbered' = Append(numbered, q)
           Tagging == \A q \in Publishers : ~Early(q) => tagOf'[q] = tagOf[q]
           Returned == returns \subseteq returns' /\ (crossed => crossed')
<1>1. ASSUME Numbers
      PROVE  \A i \in 1..Len(numbered) :
               i \in 1..Len(numbered') /\ numbered'[i] = numbered[i]
  <2>1. ASSUME NEW q \in Publishers, numbered' = Append(numbered, q),
               NEW i \in 1..Len(numbered)
        PROVE  i \in 1..Len(numbered') /\ numbered'[i] = numbered[i]
    <3>1. Len(numbered) \in Nat
      BY DEF TypeOK
    <3>2. Len(numbered') = Len(numbered) + 1 /\ numbered'[i] = numbered[i]
      BY <2>1, AppendSent
    <3> QED
      BY <3>1, <3>2
  <2> QED
    BY <1>1, <2>1
<1>2. ASSUME NEW p \in Publishers, Publish(p) \/ Selected(p)
      PROVE  Numbers /\ Tagging /\ Returned
  <2>1. Early(p) /\ Registers(p)
    BY <1>2, NextTagTaken
  <2>2. Numbers /\ Returned
    BY <2>1, RegistersEffect
  <2>3. tagOf' = [tagOf EXCEPT ![p] = nextTag]
    BY <2>1, RegistersEffect
  <2>4. Tagging
    BY <2>1, <2>3 DEF TypeOK
  <2> QED
    BY <2>2, <2>4
<1>3. ASSUME NEW p \in Publishers, PublishUnconfirmed(p)
      PROVE  Numbers /\ Tagging /\ Returned
  <2>1. UNCHANGED brokerVars \/ Received(p)
    BY <1>3 DEF PublishUnconfirmed
  <2>2. Numbers /\ Returned
    BY <2>1, ReceivedEffect DEF brokerVars
  <2>3. Tagging
    BY <1>3 DEF PublishUnconfirmed, trackerVars
  <2> QED
    BY <2>2, <2>3
<1>4. ASSUME NEW p \in Publishers,
             \/ BeginSelect(p) \/ SelectFails(p) \/ Confirmed(p) \/ Cancel(p)
      PROVE  Numbers /\ Tagging /\ Returned
  BY <1>4 DEF BeginSelect, SelectFails, Confirmed, Cancel, trackerVars, brokerVars
<1>5. ASSUME Broker
      PROVE  Numbers /\ Tagging /\ Returned
  <2>1. Numbers /\ Tagging
    BY <1>5 DEF Broker, Return, Answer, clientVars, trackerVars
  <2>2. /\ returns' = returns \/ \E p \in Publishers : returns' = returns \cup {p}
        /\ crossed' = crossed \/ \E p \in Publishers : crossed' = (crossed \/ Overtakes(p))
    BY <1>5 DEF Broker, Return, Answer
  <2>3. returns \subseteq returns'
    BY <2>2
  <2>4. crossed => crossed'
    BY <2>2, Zenon
  <2> QED
    BY <2>1, <2>3, <2>4
<1>6. ASSUME ReadLoop \/ Loss \/ UNCHANGED vars
      PROVE  Numbers /\ Tagging /\ Returned
  <2>1. UNCHANGED <<tagOf, brokerVars>>
    BY <1>6 DEF ReadLoop, OnSelectOk, OnReturn, OnConfirm, Reads, Loss, vars, clientVars,
                trackerVars
  <2> QED
    BY <2>1 DEF brokerVars
<1> HIDE DEF Numbers, Tagging, Returned
<1>7. Numbers /\ Tagging /\ Returned
  BY <1>2, <1>3, <1>4, <1>5, <1>6 DEF Next, Publisher
<1>8. Numbers
  BY <1>7
<1>9. Tagging /\ Returned
  BY <1>7
<1> QED
  BY <1>1, <1>8, <1>9 DEF Tagging, Returned

LEMMA BrokerNext ==
  ASSUME ConfirmAssumption, TrackerInv, BrokerInv, [Next]_vars
  PROVE  BrokerInv'
<1> USE DEF TrackerInv
<1>1. Sent \subseteq Sent'
  BY KeptNext DEF Sent
<1>2. unroutable \subseteq Publishers /\ \A q \in unroutable : ~Early(q)'
  BY EarlyNext DEF TypeOK, BrokerInv
<1>3. ASSUME UNCHANGED <<unroutable, returns, acked, nacked>>
      PROVE  BrokerInv'
  BY <1>1, <1>2, <1>3 DEF BrokerInv, Answered
<1>4. ASSUME NEW p \in Publishers, Early(p), ~Early(p)', p \in Mandatory,
             unroutable' = unroutable \cup {p},
             UNCHANGED <<returns, acked, nacked>>
      PROVE  BrokerInv'
  <2>1. p \notin Answered
    BY <1>4 DEF BrokerInv, SentInv
  <2> QED
    BY <1>1, <1>2, <1>4, <2>1 DEF BrokerInv, Answered
<1>5. ASSUME NEW p \in Publishers, Publish(p) \/ Selected(p)
      PROVE  BrokerInv'
  <2>1. Early(p) /\ Registers(p)
    BY <1>5, NextTagTaken
  <2>2. ~Early(p)'
    BY <2>1, RegistersPhase DEF Early
  <2>3. /\ \/ unroutable' = unroutable
           \/ ~lost /\ p \in Mandatory /\ unroutable' = unroutable \cup {p}
        /\ UNCHANGED <<returns, acked, nacked>>
    BY <2>1, RegistersEffect
  <2> QED
    BY <1>3, <1>4, <2>1, <2>2, <2>3
<1>6. ASSUME NEW p \in Publishers, PublishUnconfirmed(p)
      PROVE  BrokerInv'
  <2>1. Early(p) /\ \E how : Ends(p, how)
    BY <1>6 DEF PublishUnconfirmed, Begins, Early
  <2>2. ~Early(p)'
    BY <2>1 DEF Ends, Early, TypeOK
  <2>3. UNCHANGED brokerVars \/ Received(p)
    BY <1>6 DEF PublishUnconfirmed
  <2>4. /\ \/ unroutable' = unroutable
           \/ ~lost /\ p \in Mandatory /\ unroutable' = unroutable \cup {p}
        /\ UNCHANGED <<returns, acked, nacked>>
    BY <2>3, ReceivedEffect DEF brokerVars
  <2> QED
    BY <1>3, <1>4, <2>1, <2>2, <2>4
<1>7. ASSUME NEW p \in Publishers,
             \/ BeginSelect(p) \/ SelectFails(p) \/ Confirmed(p) \/ Cancel(p)
      PROVE  BrokerInv'
  BY <1>3, <1>7 DEF BeginSelect, SelectFails, Confirmed, Cancel, brokerVars
<1>8. ASSUME NEW p \in Publishers, Return(p)
      PROVE  BrokerInv'
  <2>1. /\ p \in unroutable /\ returns' = returns \cup {p}
        /\ UNCHANGED <<unroutable, acked, nacked>>
    BY <1>8 DEF Return
  <2> QED
    BY <1>1, <1>2, <2>1 DEF BrokerInv, Answered
<1>9. ASSUME NEW i \in Unanswered, NEW kind \in {"ack", "nack"},
             NEW multiple \in BOOLEAN, Answer(i, kind, multiple)
      PROVE  BrokerInv'
  <2> DEFINE covered == IF multiple THEN {j \in Unanswered : j <= i} ELSE {i}
             messages == {numbered[j] : j \in covered}
  <2>1. /\ messages \cap unroutable \subseteq returns
        /\ acked' \subseteq acked \cup messages
        /\ nacked' \subseteq nacked \cup messages
        /\ UNCHANGED <<unroutable, returns>>
    BY <1>9 DEF Answer
  <2>2. messages \subseteq Sent
    BY DEF Unanswered, Sent
  <2> HIDE DEF messages
  <2>3. Answered' \subseteq Answered \cup messages
    BY <2>1 DEF Answered
  <2> QED
    BY <1>1, <1>2, <2>1, <2>2, <2>3 DEF BrokerInv
<1>10. CASE ReadLoop \/ Loss \/ UNCHANGED vars
  <2>1. UNCHANGED brokerVars
    BY <1>10 DEF ReadLoop, OnSelectOk, OnReturn, OnConfirm, Reads, Loss, vars
  <2> QED
    BY <1>3, <2>1 DEF brokerVars
<1> QED
  BY <1>5, <1>6, <1>7, <1>8, <1>9, <1>10 DEF Next, Publisher, Broker

\* The broker answers only what it has numbered, and a mandatory message that
\* found no queue not before it has returned it.
THEOREM BrokerSays == Spec => []BrokerInv
<1>1. Init => BrokerInv
  <2>1. ASSUME Init PROVE BrokerInv
    BY <2>1 DEF Init, BrokerInv, Answered
  <2> QED
    BY <2>1
<1>2. TrackerInv /\ BrokerInv /\ [Next]_vars => BrokerInv'
  BY ConfirmAssumption, BrokerNext
<1> QED
  BY <1>1, <1>2, Tracker, PTL DEF Spec

-----------------------------------------------------------------------------
(* Client and broker number alike until a message goes out untagged on a     *)
(* channel that numbers, or a tag is given to one that does not go out.      *)

\* Numberings that have gone apart do not meet again.
LEMMA SkewedNext ==
  ASSUME ConfirmAssumption, TrackerInv, [Next]_vars, Skewed
  PROVE  Skewed'
<1> USE DEF TrackerInv
<1>1. CASE \E i \in 1..Len(numbered) : tagOf[numbered[i]] = 0
  <2>1. PICK i \in 1..Len(numbered) : tagOf[numbered[i]] = 0
    BY <1>1
  <2>2. numbered[i] \in Publishers /\ numbered[i] \in Sent
    BY SentFinite DEF Sent
  <2>3. tagOf'[numbered[i]] = 0
    BY <2>1, <2>2, KeptNext DEF SentInv
  <2>4. i \in 1..Len(numbered') /\ numbered'[i] = numbered[i]
    BY KeptNext
  <2> QED
    BY <2>3, <2>4 DEF Skewed
<1>2. CASE \E p \in Malformed : tagOf[p] # 0
  <2>1. PICK p \in Malformed : tagOf[p] # 0
    BY <1>2
  <2>2. p \in Publishers
    BY DEF ConfirmAssumption
  <2>3. tagOf'[p] = tagOf[p]
    BY <2>1, <2>2, KeptNext DEF TagInv
  <2> QED
    BY <2>1, <2>3 DEF Skewed
<1> QED
  BY <1>1, <1>2 DEF Skewed

\* A step that leaves the numberings alike.
LEMMA AlikeNext ==
  ASSUME ConfirmAssumption, TrackerInv, [Next]_vars, ~Skewed'
  PROVE  /\ ~Skewed
         /\ \A p \in Publishers : Publish(p) \/ Selected(p) => p \notin Malformed
         /\ \A p \in Publishers : PublishUnconfirmed(p) => numbered' = numbered
<1> USE DEF TrackerInv
<1>1. ~Skewed
  BY SkewedNext
<1>2. ASSUME NEW p \in Publishers, Publish(p) \/ Selected(p)
      PROVE  p \notin Malformed
  <2>1. Early(p) /\ Registers(p)
    BY <1>2, NextTagTaken
  <2>2. tagOf' = [tagOf EXCEPT ![p] = nextTag] /\ nextTag # 0
    BY <2>1, RegistersEffect DEF TypeOK
  <2>3. tagOf'[p] # 0
    BY <2>2 DEF TypeOK
  <2> QED
    BY <2>3 DEF Skewed
<1>3. ASSUME NEW p \in Publishers, PublishUnconfirmed(p)
      PROVE  numbered' = numbered
  <2>1. numbered' = numbered \/ numbered' = Append(numbered, p)
    BY <1>3, ReceivedEffect DEF PublishUnconfirmed, brokerVars
  <2>2. tagOf'[p] = 0
    BY <1>3 DEF PublishUnconfirmed, Begins, Early, TagInv, trackerVars
  <2>3. numbered' = Append(numbered, p) => Skewed'
    <3>1. ASSUME numbered' = Append(numbered, p)
          PROVE  \E i \in 1..Len(numbered') : tagOf'[numbered'[i]] = 0
      <4>1. /\ Len(numbered) \in Nat /\ Len(numbered') = Len(numbered) + 1
            /\ numbered'[Len(numbered) + 1] = p
        BY <3>1, AppendSent DEF TypeOK
      <4>2. Len(numbered) + 1 \in 1..Len(numbered')
        BY <4>1
      <4> QED
        BY <2>2, <4>1, <4>2
    <3> QED
      BY <3>1 DEF Skewed
  <2> QED
    BY <2>1, <2>3
<1> QED
  BY <1>1, <1>2, <1>3

\* What a publish that registers sends, when its frames encode.
LEMMA RegistersSends ==
  ASSUME TypeOK, NEW p \in Publishers, Registers(p), p \notin Malformed
  PROVE  /\ phase' = [phase EXCEPT ![p] = "confirm"] /\ outcome' = outcome
         /\ ~lost => numbered' = IF numbering THEN Append(numbered, p) ELSE numbered
BY DEF Registers, PublishAs, Received

\* A lost connection stays lost.
LEMMA LostNext ==
  ASSUME [Next]_vars
  PROVE  lost' = lost \/ lost' = TRUE
BY DEF Next, vars, Publisher, Publish, PublishUnconfirmed, BeginSelect, Selected,
       SelectFails, Confirmed, Cancel, Broker, Return, Answer, ReadLoop, OnSelectOk,
       OnReturn, OnConfirm, Reads, Loss

LEMMA NumberNext ==
  ASSUME ConfirmAssumption, TrackerInv, NumberInv, [Next]_vars, ~Skewed'
  PROVE  NumberInv'
<1> USE DEF TrackerInv
<1>1. lost' = lost \/ lost' = TRUE
  BY LostNext
<1>2. CASE lost'
  BY <1>2 DEF NumberInv
<1>3. CASE ~lost'
  <2> ~lost
    BY <1>1, <1>3
  <2>1. ASSUME UNCHANGED <<numbered, tagOf, nextTag, enabled>>, numbering => numbering',
               \A q \in Publishers :
                 selected'[q] # "none" => selected[q] # "none" \/ numbering'
        PROVE  NumberInv'
    BY <2>1 DEF NumberInv
  <2>2. ASSUME NEW p \in Publishers, Publish(p) \/ Selected(p)
        PROVE  NumberInv'
    <3>1. Early(p) /\ Registers(p)
      BY <2>2, NextTagTaken
    <3>2. numbering
      BY <2>2 DEF Publish, Selected, NumberInv
    <3>3. numbered' = Append(numbered, p)
      BY <2>2, <3>1, <3>2, RegistersSends, AlikeNext
    <3>4. Len(numbered) \in Nat /\ numbered \in Seq(Publishers)
      BY DEF TypeOK
    <3>5. /\ Len(numbered') = Len(numbered) + 1
          /\ numbered'[Len(numbered) + 1] = p
          /\ \A i \in 1..Len(numbered) : numbered'[i] = numbered[i]
      BY <3>3, AppendSent
    <3>6. Len(numbered) = nextTag - 1 /\ nextTag \in Nat
      BY DEF NumberInv, TypeOK
    <3>7. Len(numbered) + 1 = nextTag
      BY <3>6
    <3>8. /\ nextTag' = nextTag + 1 /\ tagOf'[p] = nextTag
          /\ \A q \in Publishers \ {p} : tagOf'[q] = tagOf[q]
          /\ numbering' = numbering
      BY <3>1, RegistersEffect DEF TypeOK
    <3>9. \A q \in Publishers : tagOf'[q] # 0 => numbered'[tagOf'[q]] = q
      <4>1. ASSUME NEW q \in Publishers \ {p}, tagOf'[q] # 0
            PROVE  numbered'[tagOf'[q]] = q
        <5>1. tagOf'[q] = tagOf[q] /\ numbered[tagOf[q]] = q
          BY <3>8, <4>1 DEF NumberInv
        <5>2. tagOf[q] \in Tags /\ tagOf[q] < nextTag
          BY <3>8, <4>1 DEF TypeOK, TagInv
        <5>3. tagOf[q] \in 1..Len(numbered)
          BY <3>4, <3>6, <5>2 DEF Tags
        <5> QED
          BY <3>5, <5>1, <5>3
      <4> QED
        BY <3>5, <3>7, <3>8, <4>1
    <3>10. \A i \in 1..Len(numbered') : tagOf'[numbered'[i]] = i
      <4>1. ASSUME NEW i \in 1..Len(numbered)
            PROVE  tagOf'[numbered'[i]] = i
        <5>1. numbered'[i] = numbered[i] /\ tagOf[numbered[i]] = i
          BY <3>5 DEF NumberInv
        <5>2. numbered[i] \in Publishers /\ i # 0
          BY <3>4
        <5>3. numbered[i] # p
          BY <3>1, <5>1, <5>2 DEF TagInv
        <5> QED
          BY <3>8, <5>1, <5>2, <5>3
      <4>2. 1..Len(numbered') = (1..Len(numbered)) \cup {Len(numbered) + 1}
        BY <3>4, <3>5
      <4> QED
        BY <3>5, <3>7, <3>8, <4>1, <4>2
    <3>11. Len(numbered') = nextTag' - 1
      BY <3>4, <3>5, <3>7, <3>8
    <3>12. numbering'
      BY <3>2, <3>8
    <3> QED
      BY <3>9, <3>10, <3>11, <3>12 DEF NumberInv
  <2>3. ASSUME NEW p \in Publishers, PublishUnconfirmed(p)
        PROVE  NumberInv'
    <3>1. /\ UNCHANGED brokerVars \/ Received(p)
          /\ UNCHANGED <<selectVars, trackerVars>>
      BY <2>3 DEF PublishUnconfirmed
    <3>2. UNCHANGED <<numbered, numbering>>
      BY <2>3, <3>1, ReceivedEffect, AlikeNext DEF brokerVars
    <3> QED
      BY <2>1, <3>1, <3>2 DEF selectVars, trackerVars
  <2>4. ASSUME NEW p \in Publishers, BeginSelect(p)
        PROVE  NumberInv'
    BY <2>1, <2>4 DEF BeginSelect, trackerVars
  <2>5. ASSUME NEW p \in Publishers, SelectFails(p) \/ Confirmed(p) \/ Cancel(p)
        PROVE  NumberInv'
    BY <2>1, <2>5 DEF SelectFails, Confirmed, Cancel, TypeOK, selectVars, trackerVars, brokerVars
  <2>6. CASE Broker
    BY <2>1, <2>6 DEF Broker, Return, Answer, clientVars, selectVars, trackerVars
  <2>7. CASE OnReturn \/ OnConfirm
    BY <2>1, <2>7 DEF OnReturn, OnConfirm, Reads, selectVars, trackerVars, brokerVars
  <2>8. CASE OnSelectOk
    <3>1. UNCHANGED <<numbered, numbering, enabled, trackerVars>>
      BY <2>8 DEF OnSelectOk, Reads, brokerVars
    <3>2. \A q \in Publishers : selected'[q] # "none" => selected[q] # "none"
      BY <2>8 DEF OnSelectOk
    <3> QED
      BY <2>1, <3>1, <3>2 DEF trackerVars
  <2>9. CASE Loss
    BY <1>3, <2>9 DEF Loss
  <2>10. CASE UNCHANGED vars
    BY <2>1, <2>10 DEF vars, clientVars, selectVars, trackerVars, brokerVars
  <2> QED
    BY <2>2, <2>3, <2>4, <2>5, <2>6, <2>7, <2>8, <2>9, <2>10 DEF Next, Publisher, ReadLoop
<1> QED
  BY <1>2, <1>3 DEF TrackerInv, TypeOK

LEMMA NumberInit ==
  ASSUME Init
  PROVE  NumberInv
<1>1. numbered = << >> /\ Len(numbered) = 0 /\ 1..Len(numbered) = {} /\ nextTag = 1
  BY DEF Init
<1> QED
  BY <1>1 DEF Init, NumberInv

NumberedAlike == ~Skewed => NumberInv

\* next_tag and the broker's counter go together, from enable() on, until a
\* message goes out that has no tag or a tag is given to one that does not.
THEOREM Numbering == Spec => []NumberedAlike
<1>1. Init => NumberedAlike
  BY NumberInit DEF NumberedAlike
<1>2. TrackerInv /\ NumberedAlike /\ [Next]_vars => NumberedAlike'
  BY ConfirmAssumption, AlikeNext, NumberNext DEF NumberedAlike
<1> QED
  BY <1>1, <1>2, Tracker, PTL DEF Spec

\* Client and broker number the publishes alike, however selects, timeouts,
\* cancellations and losses interleave, until a message goes out that has no
\* tag or a tag is given to one that does not go out.
THEOREM InStep == Spec => []TagsInStep
<1>1. TrackerInv /\ NumberedAlike => TagsInStep
  <2>1. ASSUME TrackerInv, NumberInv, ~lost, NEW p \in Publishers, tagOf[p] # 0
        PROVE  tagOf[p] <= Len(numbered) /\ numbered[tagOf[p]] = p
    <3>1. numbered[tagOf[p]] = p /\ Len(numbered) = nextTag - 1
      BY <2>1 DEF NumberInv
    <3>2. tagOf[p] \in Tags /\ tagOf[p] < nextTag /\ nextTag \in Nat
      BY <2>1 DEF TrackerInv, TypeOK, TagInv
    <3> QED
      BY <3>1, <3>2 DEF Tags
  <2> QED
    BY <2>1 DEF TagsInStep, NumberedAlike
<1> QED
  BY <1>1, Tracker, Numbering, PTL

-----------------------------------------------------------------------------
(* A publish learns the broker's own answer to it.                          *)

\* Taking the first frame, one that does not confirm t.
LEMMA CoversTail ==
  ASSUME TypeOK, NEW kinds, Reads(kinds), NEW t, ~Covers(wire[1], t)
  PROVE  /\ UnderWay(wire, t) => UnderWay(wire', t)
         /\ \A k \in 1..Len(wire') :
              NoneBefore(wire', k, t) <=> NoneBefore(wire, k + 1, t)
<1>1. /\ Len(wire) \in Nat /\ Len(wire) >= 1 /\ Len(wire') = Len(wire) - 1
      /\ \A k \in 1..Len(wire') : wire'[k] = wire[k + 1]
  BY ReadEffect
<1>2. ASSUME NEW k \in 1..Len(wire), k # 1
      PROVE  k - 1 \in 1..Len(wire') /\ wire'[k - 1] = wire[k]
  <2>1. k - 1 \in 1..Len(wire') /\ (k - 1) + 1 = k
    BY <1>1, <1>2
  <2> QED
    BY <1>1, <2>1
<1>3. UnderWay(wire, t) => UnderWay(wire', t)
  <2>1. ASSUME NEW k \in 1..Len(wire), Covers(wire[k], t)
        PROVE  UnderWay(wire', t)
    <3>1. k # 1
      BY <2>1
    <3> QED
      BY <1>2, <2>1, <3>1 DEF UnderWay
  <2> QED
    BY <2>1 DEF UnderWay
<1>4. ASSUME NEW k \in 1..Len(wire'), NoneBefore(wire', k, t)
      PROVE  NoneBefore(wire, k + 1, t)
  <2>1. ASSUME NEW j \in 1..((k + 1) - 1), j # 1
        PROVE  ~Covers(wire[j], t)
    <3>1. j \in 1..Len(wire) /\ j - 1 \in 1..(k - 1)
      BY <1>1, <2>1
    <3> QED
      BY <1>2, <1>4, <2>1, <3>1 DEF NoneBefore
  <2> QED
    BY <2>1 DEF NoneBefore
<1>5. ASSUME NEW k \in 1..Len(wire'), NoneBefore(wire, k + 1, t)
      PROVE  NoneBefore(wire', k, t)
  <2>1. ASSUME NEW j \in 1..(k - 1)
        PROVE  ~Covers(wire'[j], t)
    <3>1. j + 1 \in 1..((k + 1) - 1) /\ j \in 1..Len(wire')
      BY <1>1
    <3> QED
      BY <1>1, <1>5, <3>1 DEF NoneBefore
  <2> QED
    BY <2>1 DEF NoneBefore
<1> QED
  BY <1>3, <1>4, <1>5

\* Sending a frame f.
LEMMA CoversAppend ==
  ASSUME TypeOK, NEW f \in Frames, wire' = Append(wire, f), NEW t
  PROVE  /\ UnderWay(wire', t) <=> (UnderWay(wire, t) \/ Covers(f, t))
         /\ \A k \in 1..Len(wire) :
              NoneBefore(wire', k, t) <=> NoneBefore(wire, k, t)
         /\ NoneBefore(wire', Len(wire) + 1, t) <=> ~UnderWay(wire, t)
<1>1. /\ Len(wire) \in Nat /\ Len(wire') = Len(wire) + 1
      /\ wire'[Len(wire) + 1] = f
      /\ \A k \in 1..Len(wire) : wire'[k] = wire[k]
      /\ 1..Len(wire') = (1..Len(wire)) \cup {Len(wire) + 1}
  BY AppendWire
<1>2. UnderWay(wire', t) <=> (UnderWay(wire, t) \/ Covers(f, t))
  BY <1>1 DEF UnderWay
<1>3. ASSUME NEW k \in 1..Len(wire)
      PROVE  NoneBefore(wire', k, t) <=> NoneBefore(wire, k, t)
  <2>1. \A j \in 1..(k - 1) : j \in 1..Len(wire)
    BY <1>1
  <2> QED
    BY <1>1, <2>1 DEF NoneBefore
<1>4. NoneBefore(wire', Len(wire) + 1, t) <=> ~UnderWay(wire, t)
  <2>1. 1..((Len(wire) + 1) - 1) = 1..Len(wire)
    BY <1>1
  <2> QED
    BY <1>1, <2>1 DEF NoneBefore, UnderWay
<1> QED
  BY <1>2, <1>3, <1>4

\* Confirms come to a channel in confirm mode only.
LEMMA ConfirmEnabled ==
  ASSUME TrackerInv, NumberInv, WayInv, OnConfirm
  PROVE  enabled
<1>0. /\ ~lost /\ wire[1] \in Frames /\ wire[1].kind \in {"ack", "nack"}
      /\ Len(wire) \in Nat /\ Len(wire) >= 1
  BY ReadEffect DEF OnConfirm, TrackerInv
<1>1. ~lost /\ wire[1] \in Frames /\ wire[1].kind \in {"ack", "nack"} /\ 1 \in 1..Len(wire)
  BY <1>0
<1>2. wire[1].tag \in Tags
  BY <1>1, FrameTypes
<1>3. wire[1].tag <= Len(numbered) /\ Len(numbered) = nextTag - 1
  BY <1>1 DEF WayInv, NumberInv
<1>4. ~enabled => nextTag = 1
  BY DEF TrackerInv, TagInv
<1> QED
  BY <1>2, <1>3, <1>4 DEF Tags

\* The tags a confirm takes out of the tracker, and whom it tells.
LEMMA ConfirmEffect ==
  ASSUME TrackerInv, OnConfirm, enabled
  PROVE  /\ Reads({"ack", "nack"})
         /\ wire[1].kind \in {"ack", "nack"}
         /\ \A t \in Tags :
              outstanding'[t] = IF Covers(wire[1], t) THEN Nobody ELSE outstanding[t]
         /\ \A p \in Publishers :
              \/ confirm'[p] = confirm[p]
              \/ /\ tagOf[p] # 0 /\ outstanding[tagOf[p]] = p
                 /\ Covers(wire[1], tagOf[p])
                 /\ confirm'[p] = IF wire[1].kind = "ack" THEN "ok" ELSE "nack"
         /\ \A t \in Tags :
              t \in mandatoryTags' <=> t \in mandatoryTags /\ ~Covers(wire[1], t)
<1>1. /\ wire[1].kind \in {"ack", "nack"} /\ wire[1] \in Frames /\ Head(wire) = wire[1]
      /\ Reads({"ack", "nack"})
  BY ReadEffect DEF OnConfirm, TrackerInv
<1>2. wire[1].tag \in Tags /\ wire[1].multiple \in BOOLEAN
  BY <1>1, FrameTypes
<1> DEFINE f == wire[1]
           tags == Covered(f.tag, f.multiple)
<1>3. \A t \in Tags : t \in tags <=> outstanding[t] # Nobody /\ Covers(f, t)
  BY <1>1 DEF Covered, Covers
<1>4. /\ outstanding' = [t \in Tags |-> IF t \in tags THEN Nobody ELSE outstanding[t]]
      /\ confirm' = [p \in Publishers |->
                       IF p \notin {outstanding[t] : t \in tags} \/ confirm[p] # "pending"
                       THEN confirm[p]
                       ELSE IF f.kind = "ack" THEN "ok" ELSE "nack"]
      /\ mandatoryTags' = {t \in mandatoryTags : KeepsTag(t, f.tag, f.multiple)}
  <2> HIDE DEF f
  <2>1. f = Head(wire)
    BY <1>1 DEF f
  <2>2. outstanding' = [t \in Tags |-> IF t \in tags THEN Nobody ELSE outstanding[t]]
    BY <2>1 DEF OnConfirm
  <2>3. confirm' = [p \in Publishers |->
                       IF p \notin {outstanding[t] : t \in tags} \/ confirm[p] # "pending"
                       THEN confirm[p]
                       ELSE IF f.kind = "ack" THEN "ok" ELSE "nack"]
    BY <2>1 DEF OnConfirm
  <2>4. mandatoryTags' = {t \in mandatoryTags : KeepsTag(t, f.tag, f.multiple)}
    BY <2>1 DEF OnConfirm
  <2> QED
    BY <2>2, <2>3, <2>4
<1>5. \A t \in Tags : outstanding'[t] = IF Covers(f, t) THEN Nobody ELSE outstanding[t]
  BY <1>3, <1>4
<1>6. \A t \in Tags : t \in mandatoryTags' <=> t \in mandatoryTags /\ ~Covers(f, t)
  <2>1. \A t \in Tags : KeepsTag(t, f.tag, f.multiple) <=> ~Covers(f, t)
    BY <1>1, <1>2 DEF KeepsTag, Covers, Tags
  <2> QED
    BY <1>4, <2>1
<1>7. tags \subseteq Tags
  BY DEF Covered
<1>8. ASSUME NEW p \in Publishers, confirm'[p] # confirm[p]
      PROVE  /\ tagOf[p] # 0 /\ outstanding[tagOf[p]] = p /\ Covers(f, tagOf[p])
             /\ confirm'[p] = IF f.kind = "ack" THEN "ok" ELSE "nack"
  <2>1. /\ p \in {outstanding[t] : t \in tags}
        /\ confirm'[p] = IF f.kind = "ack" THEN "ok" ELSE "nack"
    BY <1>4, <1>8
  <2>2. PICK t \in tags : outstanding[t] = p
    BY <2>1
  <2>3. t \in Tags /\ Covers(f, t) /\ outstanding[t] # Nobody
    BY <1>3, <1>7
  <2>4. tagOf[p] = t /\ t # 0
    BY <2>2, <2>3 DEF TrackerInv, TagInv, Tags
  <2> QED
    BY <2>1, <2>2, <2>3, <2>4
<1> QED
  BY <1>1, <1>5, <1>6, <1>8

LEMMA LearnedNext ==
  ASSUME ConfirmAssumption, TrackerInv, NumberInv, LearnedInv, WayInv,
         [Next]_vars, ~Skewed'
  PROVE  LearnedInv'
<1> USE DEF TrackerInv
<1> DEFINE Grows == acked \subseteq acked' /\ nacked \subseteq nacked'
           Ends1 ==
             \A q \in Publishers :
               \/ outcome'[q] = outcome[q]
               \/ outcome'[q] \notin {"ok", "nack", "returned"}
               \/ outcome'[q] = confirm[q]
               \/ (outcome'[q] = "returned" /\ confirm[q] = "ok")
           Tells ==
             \A q \in Publishers :
               confirm'[q] = confirm[q] \/ confirm'[q] \notin {"ok", "nack"}
<1>1. ASSUME Grows, Ends1, Tells
      PROVE  LearnedInv'
  <2>1. ASSUME NEW q \in Publishers
        PROVE  /\ outcome'[q] \in {"ok", "returned"} \/ confirm'[q] = "ok" => q \in acked
               /\ outcome'[q] = "nack" \/ confirm'[q] = "nack" => q \in nacked
    <3>1. confirm'[q] = "ok" => confirm[q] = "ok"
      BY <1>1
    <3>2. confirm'[q] = "nack" => confirm[q] = "nack"
      BY <1>1
    <3>3. outcome'[q] \in {"ok", "returned"} =>
            outcome[q] \in {"ok", "returned"} \/ confirm[q] = "ok"
      BY <1>1 DEF TypeOK, Answers
    <3>4. outcome'[q] = "nack" => outcome[q] = "nack" \/ confirm[q] = "nack"
      BY <1>1
    <3> QED
      BY <3>1, <3>2, <3>3, <3>4 DEF LearnedInv
  <2> QED
    BY <1>1, <2>1 DEF LearnedInv
<1>2. ASSUME NEW p \in Publishers, Publish(p) \/ Selected(p)
      PROVE  LearnedInv'
  <2>1. Registers(p)
    BY <1>2, NextTagTaken
  <2>2. /\ Grows /\ outcome' = outcome
        /\ confirm' = [confirm EXCEPT ![p] = "pending"]
    BY <1>2, <2>1, RegistersEffect, RegistersSends, AlikeNext
  <2>3. Ends1 /\ Tells
    BY <2>2 DEF TypeOK
  <2> QED
    BY <1>1, <2>2, <2>3
<1>3. ASSUME NEW p \in Publishers, PublishUnconfirmed(p)
      PROVE  LearnedInv'
  <2>1. /\ \E how \in {"written", "raw"} : Ends(p, how)
        /\ UNCHANGED brokerVars \/ Received(p)
        /\ UNCHANGED trackerVars
    BY <1>3 DEF PublishUnconfirmed
  <2>2. Grows
    BY <2>1, ReceivedEffect DEF brokerVars
  <2>3. Ends1 /\ Tells
    BY <2>1 DEF Ends, trackerVars, TypeOK
  <2> QED
    BY <1>1, <2>2, <2>3
<1>4. ASSUME NEW p \in Publishers, BeginSelect(p) \/ SelectFails(p) \/ Cancel(p)
      PROVE  LearnedInv'
  <2>1. Grows /\ Tells
    BY <1>4 DEF BeginSelect, SelectFails, Cancel, TypeOK, brokerVars, trackerVars
  <2>2. outcome' = outcome \/ \E how \in {"lost", "timeout", "cancelled"} : Ends(p, how)
    BY <1>4 DEF BeginSelect, SelectFails, Cancel
  <2>3. Ends1
    BY <2>2 DEF Ends, TypeOK
  <2> QED
    BY <1>1, <2>1, <2>3
<1>5. ASSUME NEW p \in Publishers, Confirmed(p)
      PROVE  LearnedInv'
  <2>1. Grows /\ Tells
    BY <1>5 DEF Confirmed, brokerVars, trackerVars
  <2>2. \/ Ends(p, confirm[p])
        \/ confirm[p] = "ok" /\ Ends(p, "returned")
    BY <1>5 DEF Confirmed
  <2>3. Ends1
    BY <2>2 DEF Ends, TypeOK
  <2> QED
    BY <1>1, <2>1, <2>3
<1>6. CASE Broker \/ OnSelectOk \/ OnReturn \/ UNCHANGED vars
  <2>1. Grows
    BY <1>6 DEF Broker, Return, Answer, OnSelectOk, OnReturn, Reads, vars, brokerVars
  <2>2. UNCHANGED <<outcome, confirm>>
    BY <1>6 DEF Broker, Return, Answer, OnSelectOk, OnReturn, Reads, vars, clientVars,
                callVars, trackerVars
  <2> QED
    BY <1>1, <2>1, <2>2
<1>7. CASE OnConfirm
  <2>1. ~lost /\ 1 \in 1..Len(wire) /\ UNCHANGED <<outcome, acked, nacked>>
    <3>1. /\ ~lost /\ Len(wire) \in Nat /\ Len(wire) >= 1
          /\ UNCHANGED <<outcome, acked, nacked>>
      BY <1>7, ReadEffect DEF OnConfirm
    <3> QED
      BY <3>1
  <2>2. ASSUME NEW q \in Publishers, confirm'[q] # confirm[q]
        PROVE  /\ confirm'[q] = "ok" => q \in acked
               /\ confirm'[q] = "nack" => q \in nacked
    <3>1. /\ tagOf[q] # 0 /\ outstanding[tagOf[q]] = q /\ Covers(wire[1], tagOf[q])
          /\ confirm'[q] = IF wire[1].kind = "ack" THEN "ok" ELSE "nack"
          /\ wire[1].kind \in {"ack", "nack"}
      BY <1>7, <2>2, ConfirmEnabled, ConfirmEffect
    <3>2. NoneBefore(wire, 1, tagOf[q])
      BY DEF NoneBefore
    <3>3. /\ wire[1].kind = "ack" => q \in acked
          /\ wire[1].kind = "nack" => q \in nacked
      BY <2>1, <3>1, <3>2 DEF WayInv
    <3> QED
      BY <3>1, <3>3
  <2> QED
    BY <2>1, <2>2 DEF LearnedInv
<1>8. CASE Loss
  <2>1. Grows /\ Tells /\ Ends1
    BY <1>8 DEF Loss, FailAll, callVars, brokerVars
  <2> QED
    BY <1>1, <2>1
<1> QED
  BY <1>2, <1>3, <1>4, <1>5, <1>6, <1>7, <1>8 DEF Next, Publisher, ReadLoop

\* The broker has numbered the tagged publishes and no others.
LEMMA SentTagged ==
  ASSUME ConfirmAssumption, TrackerInv, NumberInv, ~lost, NEW p \in Publishers
  PROVE  /\ p \in Sent <=> tagOf[p] # 0
         /\ tagOf[p] # 0 => /\ tagOf[p] \in 1..Len(numbered)
                            /\ tagOf[p] \in Tags
                            /\ numbered[tagOf[p]] = p
<1> USE DEF TrackerInv
<1>1. Len(numbered) = nextTag - 1 /\ Len(numbered) \in Nat /\ nextTag \in Nat
  BY DEF NumberInv, TypeOK
<1>2. ASSUME tagOf[p] # 0
      PROVE  tagOf[p] \in 1..Len(numbered) /\ tagOf[p] \in Tags /\ numbered[tagOf[p]] = p
  <2>1. tagOf[p] \in Tags /\ tagOf[p] < nextTag /\ numbered[tagOf[p]] = p
    BY <1>2 DEF TypeOK, TagInv, NumberInv
  <2> QED
    BY <1>1, <2>1 DEF Tags
<1>3. ASSUME p \in Sent
      PROVE  tagOf[p] # 0
  <2>1. PICK i \in 1..Len(numbered) : numbered[i] = p
    BY <1>3 DEF Sent
  <2> QED
    BY <2>1 DEF NumberInv
<1>4. tagOf[p] # 0 => p \in Sent
  BY <1>2 DEF Sent
<1> QED
  BY <1>2, <1>3, <1>4

\* A step that leaves the tracker and the broker's answers alone and neither
\* sends nor takes a confirm.
LEMMA WaySame ==
  ASSUME ConfirmAssumption, TrackerInv, NumberInv, WayInv, ~lost,
         UNCHANGED <<tagOf, outstanding, acked, nacked, numbered>>,
         \/ wire' = wire
         \/ \E f \in Frames : f.kind \notin {"ack", "nack"} /\ wire' = Append(wire, f)
         \/ Reads({"select-ok", "return"})
  PROVE  WayInv'
<1> USE DEF TrackerInv
<1>1. Sent' = Sent /\ Answered' = Answered
  BY DEF Sent, Answered
<1>2. CASE wire' = wire
  BY <1>1, <1>2 DEF WayInv
<1>3. ASSUME NEW f \in Frames, f.kind \notin {"ack", "nack"}, wire' = Append(wire, f)
      PROVE  WayInv'
  <2>1. \A t : ~Covers(f, t)
    BY <1>3 DEF Covers
  <2>2. /\ \A k \in 1..Len(wire) : wire'[k] = wire[k]
        /\ wire'[Len(wire) + 1] = f
        /\ 1..Len(wire') = (1..Len(wire)) \cup {Len(wire) + 1}
    BY <1>3, AppendWire
  <2>3. \A t : \A k \in 1..Len(wire') :
          Covers(wire'[k], t) => k \in 1..Len(wire) /\ Covers(wire[k], t)
    BY <2>1, <2>2
  <2>4. \A t : UnderWay(wire', t) <=> UnderWay(wire, t)
    BY <1>3, <2>1, CoversAppend
  <2>5. \A t : \A k \in 1..Len(wire) : NoneBefore(wire', k, t) <=> NoneBefore(wire, k, t)
    BY <1>3, CoversAppend
  <2>6. \A k \in 1..Len(wire') : wire'[k].kind \in {"ack", "nack"} => wire'[k].tag <= Len(numbered')
    BY <1>3, <2>2 DEF WayInv
  <2>7. \A p \in Answered' : p \in Sent'
    BY <1>1 DEF WayInv
  <2>8. \A k \in 1..Len(wire'), p \in Publishers :
          tagOf'[p] # 0 /\ Covers(wire'[k], tagOf'[p]) => p \in Answered'
    BY <1>1, <2>2, <2>3 DEF WayInv
  <2>9. \A p \in Answered' :
          outstanding'[tagOf'[p]] # Nobody => UnderWay(wire', tagOf'[p])
    BY <1>1, <2>4 DEF WayInv
  <2>10. ASSUME NEW k \in 1..Len(wire'), NEW p \in Publishers,
                tagOf'[p] # 0, Covers(wire'[k], tagOf'[p]),
                outstanding'[tagOf'[p]] = p, NoneBefore(wire', k, tagOf'[p])
         PROVE  /\ wire'[k].kind = "ack" => p \in acked'
                /\ wire'[k].kind = "nack" => p \in nacked'
    <3>1. k \in 1..Len(wire) /\ Covers(wire[k], tagOf[p]) /\ wire'[k] = wire[k]
      BY <2>2, <2>3, <2>10
    <3>2. NoneBefore(wire, k, tagOf[p])
      BY <2>5, <2>10, <3>1
    <3> QED
      BY <2>10, <3>1, <3>2 DEF WayInv
  <2> QED
    BY <2>6, <2>7, <2>8, <2>9, <2>10 DEF WayInv
<1>4. CASE Reads({"select-ok", "return"})
  <2>1. /\ wire[1].kind \notin {"ack", "nack"}
        /\ Len(wire) \in Nat /\ Len(wire') = Len(wire) - 1
        /\ \A k \in 1..Len(wire') : wire'[k] = wire[k + 1]
    <3>1. wire[1].kind \in {"select-ok", "return"}
      BY <1>4, ReadEffect
    <3>2. wire[1].kind \notin {"ack", "nack"}
      BY <3>1
    <3>3. /\ Len(wire) \in Nat /\ Len(wire') = Len(wire) - 1
          /\ \A k \in 1..Len(wire') : wire'[k] = wire[k + 1]
      BY <1>4, ReadEffect
    <3> QED
      BY <3>2, <3>3
  <2>2. \A k \in 1..Len(wire') : k + 1 \in 1..Len(wire)
    BY <2>1
  <2>3. \A t : ~Covers(wire[1], t)
    BY <2>1 DEF Covers
  <2>4. \A t : UnderWay(wire, t) => UnderWay(wire', t)
    BY <1>4, <2>3, CoversTail
  <2>5. \A t : \A k \in 1..Len(wire') : NoneBefore(wire', k, t) => NoneBefore(wire, k + 1, t)
    BY <1>4, <2>3, CoversTail
  <2>6. \A k \in 1..Len(wire') : wire'[k].kind \in {"ack", "nack"} => wire'[k].tag <= Len(numbered')
    BY <2>1, <2>2 DEF WayInv
  <2>7. \A p \in Answered' : p \in Sent'
    BY <1>1 DEF WayInv
  <2>8. \A k \in 1..Len(wire'), p \in Publishers :
          tagOf'[p] # 0 /\ Covers(wire'[k], tagOf'[p]) => p \in Answered'
    BY <1>1, <2>1, <2>2 DEF WayInv
  <2>9. \A p \in Answered' :
          outstanding'[tagOf'[p]] # Nobody => UnderWay(wire', tagOf'[p])
    BY <1>1, <2>4 DEF WayInv
  <2>10. ASSUME NEW k \in 1..Len(wire'), NEW p \in Publishers,
                tagOf'[p] # 0, Covers(wire'[k], tagOf'[p]),
                outstanding'[tagOf'[p]] = p, NoneBefore(wire', k, tagOf'[p])
         PROVE  /\ wire'[k].kind = "ack" => p \in acked'
                /\ wire'[k].kind = "nack" => p \in nacked'
    BY <2>1, <2>2, <2>5, <2>10 DEF WayInv
  <2> QED
    BY <2>6, <2>7, <2>8, <2>9, <2>10 DEF WayInv
<1> QED
  BY <1>2, <1>3, <1>4

\* A publish registers: no confirm under way covers its tag.
LEMMA WayRegisters ==
  ASSUME ConfirmAssumption, TrackerInv, NumberInv, WayInv, ~lost,
         NEW p \in Publishers, Publish(p) \/ Selected(p), p \notin Malformed
  PROVE  WayInv'
<1> USE DEF TrackerInv
<1>1. Early(p) /\ Registers(p)
  BY NextTagTaken
<1>2. numbered' = Append(numbered, p)
  <2>1. numbering
    BY DEF Publish, Selected, NumberInv
  <2> QED
    BY <1>1, <2>1, RegistersSends
<1>3. /\ Sent' = Sent \cup {p}
      /\ Len(numbered) \in Nat /\ Len(numbered') = Len(numbered) + 1
  BY <1>2, AppendSent DEF TypeOK
<1>4. Len(numbered) = nextTag - 1 /\ nextTag \in Nat
  BY DEF NumberInv, TypeOK
<1>5. /\ nextTag \in Tags
      /\ UNCHANGED <<acked, nacked, wire>>
      /\ \A t \in Tags \ {nextTag} : outstanding'[t] = outstanding[t]
      /\ tagOf'[p] = nextTag
      /\ \A q \in Publishers \ {p} : tagOf'[q] = tagOf[q]
  <2>1. nextTag \in Tags
    BY <1>1, FreeTag
  <2>2. UNCHANGED <<acked, nacked, wire>>
    BY <1>1, RegistersEffect DEF Registers
  <2> QED
    BY <1>1, <2>1, <2>2, RegistersEffect DEF TypeOK
<1>6. Answered' = Answered
  BY <1>5 DEF Answered
<1>7. \A q \in Publishers \ {p} : tagOf[q] # nextTag
  BY <1>4 DEF TagInv, TypeOK, Tags
<1>8. \A k \in 1..Len(wire) : ~Covers(wire[k], nextTag)
  <2>1. ASSUME NEW k \in 1..Len(wire), Covers(wire[k], nextTag)
        PROVE  FALSE
    <3>1. wire[k] \in Frames /\ wire[k].kind \in {"ack", "nack"}
      BY <2>1 DEF Covers, TypeOK
    <3>2. wire[k].tag \in Tags
      BY <3>1, FrameTypes
    <3>3. wire[k].tag <= Len(numbered)
      BY <3>1 DEF WayInv
    <3>4. nextTag <= wire[k].tag
      BY <1>4, <2>1, <3>2 DEF Covers, Tags
    <3> QED
      BY <1>3, <1>4, <3>2, <3>3, <3>4 DEF Tags
  <2> QED
    BY <2>1
<1>9. p \notin Answered
  <2>1. p \notin Sent
    BY <1>1 DEF SentInv
  <2> QED
    BY <2>1 DEF WayInv
<1>10. \A k \in 1..Len(wire') : wire'[k].kind \in {"ack", "nack"} => wire'[k].tag <= Len(numbered')
  <2>1. ASSUME NEW k \in 1..Len(wire), wire[k].kind \in {"ack", "nack"}
        PROVE  wire[k].tag <= Len(numbered) + 1
    <3>1. wire[k].tag \in Tags /\ wire[k].tag <= Len(numbered)
      BY <2>1, FrameTypes DEF WayInv, TypeOK
    <3> QED
      BY <1>3, <3>1 DEF Tags
  <2> QED
    BY <1>3, <1>5, <2>1
<1>11. \A q \in Answered' : q \in Sent'
  BY <1>3, <1>6 DEF WayInv
<1>12. \A k \in 1..Len(wire'), q \in Publishers :
         tagOf'[q] # 0 /\ Covers(wire'[k], tagOf'[q]) => q \in Answered'
  BY <1>5, <1>6, <1>8 DEF WayInv
<1>13. ASSUME NEW q \in Answered', outstanding'[tagOf'[q]] # Nobody
       PROVE  UnderWay(wire', tagOf'[q])
  <2>1. q \in Answered /\ q \in Publishers /\ q # p
    BY <1>6, <1>9, <1>13 DEF Answered, TypeOK
  <2>2. tagOf[q] # 0
    BY <2>1, SentTagged DEF WayInv
  <2>3. tagOf[q] \in Tags \ {nextTag} /\ tagOf'[q] = tagOf[q]
    BY <1>5, <1>7, <2>1, <2>2 DEF TypeOK
  <2> QED
    BY <1>5, <1>13, <2>1, <2>3 DEF WayInv
<1>14. ASSUME NEW k \in 1..Len(wire'), NEW q \in Publishers,
              tagOf'[q] # 0, Covers(wire'[k], tagOf'[q]),
              outstanding'[tagOf'[q]] = q, NoneBefore(wire', k, tagOf'[q])
       PROVE  /\ wire'[k].kind = "ack" => q \in acked'
              /\ wire'[k].kind = "nack" => q \in nacked'
  <2>1. q # p
    BY <1>5, <1>8, <1>14
  <2>2. tagOf'[q] = tagOf[q] /\ tagOf[q] \in Tags \ {nextTag}
    BY <1>5, <1>7, <1>14, <2>1 DEF TypeOK
  <2> QED
    BY <1>5, <1>14, <2>2 DEF WayInv
<1> QED
  BY <1>10, <1>11, <1>12, <1>13, <1>14 DEF WayInv

\* An answer of the broker covers the messages it has not answered yet.
LEMMA AnswerEffect ==
  ASSUME ConfirmAssumption, TrackerInv, NumberInv, ~lost,
         NEW i \in Unanswered, NEW kind \in {"ack", "nack"},
         NEW multiple \in BOOLEAN, Answer(i, kind, multiple),
         NEW f, f = [kind |-> kind, tag |-> i, multiple |-> multiple]
  PROVE  /\ f \in Frames /\ wire' = Append(wire, f) /\ i \in 1..Len(numbered)
         /\ acked \subseteq acked' /\ nacked \subseteq nacked'
         /\ \A p \in Publishers :
              tagOf[p] # 0 /\ p \notin Answered /\ Covers(f, tagOf[p]) =>
                /\ kind = "ack" => p \in acked'
                /\ kind = "nack" => p \in nacked'
         /\ \A p \in Answered' \ Answered :
              /\ p \in Sent /\ Covers(f, tagOf[p])
              /\ p \in unroutable => p \in returns
         /\ UNCHANGED <<clientVars, lost, numbering, numbered, unroutable, returns>>
<1> USE DEF TrackerInv
<1> DEFINE covered == IF multiple THEN {j \in Unanswered : j <= i} ELSE {i}
           messages == {numbered[j] : j \in covered}
<1>1. i \in 1..Len(numbered) /\ i \in Tags
  BY SentFinite DEF Unanswered
<1>2. f \in Frames
  BY <1>1, FrameTypes
<1>3. /\ messages \cap unroutable \subseteq returns
      /\ acked' = IF kind = "ack" THEN acked \cup messages ELSE acked
      /\ nacked' = IF kind = "nack" THEN nacked \cup messages ELSE nacked
      /\ wire' = Append(wire, f)
      /\ UNCHANGED <<clientVars, lost, numbering, numbered, unroutable, returns>>
  BY DEF Answer
<1> HIDE DEF messages
<1>4. \A j \in covered : Covers(f, j) /\ j \in 1..Len(numbered)
  <2>1. f.kind = kind /\ f.tag = i /\ f.multiple = multiple
    OBVIOUS
  <2> QED
    BY <1>1, <2>1 DEF Covers, Unanswered
<1>5. ASSUME NEW p \in Publishers, tagOf[p] # 0, p \notin Answered, Covers(f, tagOf[p])
      PROVE  p \in messages
  <2>1. tagOf[p] \in 1..Len(numbered) /\ numbered[tagOf[p]] = p
    BY <1>5, SentTagged
  <2>2. tagOf[p] \in Unanswered
    BY <1>5, <2>1 DEF Unanswered, Answered
  <2>3. tagOf[p] \in covered
    BY <1>5, <2>2 DEF Covers
  <2> QED
    BY <2>1, <2>3 DEF messages
<1>6. ASSUME NEW p \in messages
      PROVE  p \in Sent /\ Covers(f, tagOf[p])
  <2>1. PICK j \in covered : numbered[j] = p
    BY DEF messages
  <2>2. Covers(f, j) /\ j \in 1..Len(numbered)
    BY <1>4
  <2>3. tagOf[p] = j
    BY <2>1, <2>2 DEF NumberInv
  <2> QED
    BY <2>1, <2>2, <2>3 DEF Sent
<1>7. \A p \in Answered' \ Answered : p \in messages
  BY <1>3 DEF Answered
<1>8. \A p \in Publishers :
        tagOf[p] # 0 /\ p \notin Answered /\ Covers(f, tagOf[p]) =>
          /\ kind = "ack" => p \in acked'
          /\ kind = "nack" => p \in nacked'
  BY <1>3, <1>5
<1>9. \A p \in Answered' \ Answered :
        /\ p \in Sent /\ Covers(f, tagOf[p])
        /\ p \in unroutable => p \in returns
  BY <1>3, <1>6, <1>7
<1> QED
  BY <1>1, <1>2, <1>3, <1>8, <1>9

LEMMA WayAnswer ==
  ASSUME ConfirmAssumption, TrackerInv, NumberInv, WayInv, ~lost,
         NEW i \in Unanswered, NEW kind \in {"ack", "nack"},
         NEW multiple \in BOOLEAN, Answer(i, kind, multiple)
  PROVE  WayInv'
<1> USE DEF TrackerInv
<1> DEFINE f == [kind |-> kind, tag |-> i, multiple |-> multiple]
<1>0. f.kind = kind /\ f.tag = i
  OBVIOUS
<1> HIDE DEF f
<1>1. /\ f \in Frames /\ wire' = Append(wire, f) /\ i \in 1..Len(numbered)
      /\ acked \subseteq acked' /\ nacked \subseteq nacked'
      /\ \A p \in Publishers :
           tagOf[p] # 0 /\ p \notin Answered /\ Covers(f, tagOf[p]) =>
             /\ kind = "ack" => p \in acked'
             /\ kind = "nack" => p \in nacked'
      /\ \A p \in Answered' \ Answered : p \in Sent /\ Covers(f, tagOf[p])
      /\ UNCHANGED <<clientVars, numbered>>
  BY AnswerEffect DEF f
<1>2. UNCHANGED <<tagOf, outstanding>> /\ Sent' = Sent
  BY <1>1 DEF clientVars, trackerVars, Sent
<1>3. Answered \subseteq Answered'
  BY <1>1 DEF Answered
<1>4. /\ Len(wire) \in Nat
      /\ \A k \in 1..Len(wire) : wire'[k] = wire[k]
      /\ wire'[Len(wire) + 1] = f
      /\ 1..Len(wire') = (1..Len(wire)) \cup {Len(wire) + 1}
  BY <1>1, AppendWire
<1>5. \A t : /\ UnderWay(wire', t) <=> (UnderWay(wire, t) \/ Covers(f, t))
             /\ NoneBefore(wire', Len(wire) + 1, t) <=> ~UnderWay(wire, t)
  BY <1>1, CoversAppend
<1>6. \A t : \A k \in 1..Len(wire) : NoneBefore(wire', k, t) <=> NoneBefore(wire, k, t)
  BY <1>1, CoversAppend
<1>7. \A k \in 1..Len(wire') : wire'[k].kind \in {"ack", "nack"} => wire'[k].tag <= Len(numbered')
  <2>1. f.tag <= Len(numbered)
    BY <1>0, <1>1
  <2> QED
    BY <1>1, <1>4, <2>1 DEF WayInv
<1>8. \A p \in Answered' : p \in Sent'
  BY <1>1, <1>2 DEF WayInv
<1>9. ASSUME NEW k \in 1..Len(wire'), NEW p \in Publishers,
             tagOf'[p] # 0, Covers(wire'[k], tagOf'[p])
      PROVE  p \in Answered'
  <2>1. CASE k \in 1..Len(wire)
    BY <1>2, <1>3, <1>4, <1>9, <2>1 DEF WayInv
  <2>2. CASE k = Len(wire) + 1
    <3>1. Covers(f, tagOf[p]) /\ tagOf[p] # 0
      BY <1>2, <1>4, <1>9, <2>2
    <3> QED
      BY <1>1, <1>3, <3>1 DEF Answered
  <2> QED
    BY <1>4, <2>1, <2>2
<1>10. ASSUME NEW p \in Answered', outstanding'[tagOf'[p]] # Nobody
       PROVE  UnderWay(wire', tagOf'[p])
  <2>1. CASE p \in Answered
    BY <1>2, <1>5, <1>10, <2>1 DEF WayInv
  <2>2. CASE p \notin Answered
    BY <1>1, <1>2, <1>5, <2>2
  <2> QED
    BY <2>1, <2>2
<1>11. ASSUME NEW k \in 1..Len(wire'), NEW p \in Publishers,
              tagOf'[p] # 0, Covers(wire'[k], tagOf'[p]),
              outstanding'[tagOf'[p]] = p, NoneBefore(wire', k, tagOf'[p])
       PROVE  /\ wire'[k].kind = "ack" => p \in acked'
              /\ wire'[k].kind = "nack" => p \in nacked'
  <2>1. CASE k \in 1..Len(wire)
    <3>1. NoneBefore(wire, k, tagOf[p])
      BY <1>2, <1>6, <1>11, <2>1
    <3> QED
      BY <1>1, <1>2, <1>4, <1>11, <2>1, <3>1 DEF WayInv
  <2>2. CASE k = Len(wire) + 1
    <3>1. wire'[k] = f /\ Covers(f, tagOf[p]) /\ ~UnderWay(wire, tagOf[p])
      BY <1>2, <1>4, <1>5, <1>11, <2>2
    <3>2. outstanding[tagOf[p]] # Nobody
      BY <1>2, <1>11 DEF ConfirmAssumption
    <3>3. p \notin Answered
      BY <3>1, <3>2 DEF WayInv
    <3> QED
      BY <1>0, <1>1, <1>2, <1>11, <3>1, <3>3
  <2> QED
    BY <1>4, <2>1, <2>2
<1> QED
  BY <1>7, <1>8, <1>9, <1>10, <1>11 DEF WayInv

LEMMA WayConfirm ==
  ASSUME ConfirmAssumption, TrackerInv, NumberInv, WayInv, OnConfirm
  PROVE  WayInv'
<1> USE DEF TrackerInv
<1>1. enabled /\ Reads({"ack", "nack"})
  BY ConfirmEnabled DEF OnConfirm
<1>2. /\ ~lost /\ Len(wire) \in Nat /\ Len(wire') = Len(wire) - 1
      /\ \A k \in 1..Len(wire') : wire'[k] = wire[k + 1]
      /\ UNCHANGED <<numbered, acked, nacked>>
  BY <1>1, ReadEffect
<1>3. \A k \in 1..Len(wire') : k + 1 \in 1..Len(wire)
  BY <1>2
<1>4. tagOf' = tagOf /\ Sent' = Sent /\ Answered' = Answered
  BY <1>2 DEF OnConfirm, Sent, Answered
<1>5. \A t \in Tags :
        outstanding'[t] = IF Covers(wire[1], t) THEN Nobody ELSE outstanding[t]
  BY <1>1, ConfirmEffect
<1>6. \A t : ~Covers(wire[1], t) /\ UnderWay(wire, t) => UnderWay(wire', t)
  BY <1>1, CoversTail
<1>7. \A t : \A k \in 1..Len(wire') :
        ~Covers(wire[1], t) /\ NoneBefore(wire', k, t) => NoneBefore(wire, k + 1, t)
  BY <1>1, CoversTail
<1>8. \A k \in 1..Len(wire') : wire'[k].kind \in {"ack", "nack"} => wire'[k].tag <= Len(numbered')
  BY <1>2, <1>3 DEF WayInv
<1>9. \A p \in Answered' : p \in Sent'
  BY <1>2, <1>4 DEF WayInv
<1>10. \A k \in 1..Len(wire'), p \in Publishers :
         tagOf'[p] # 0 /\ Covers(wire'[k], tagOf'[p]) => p \in Answered'
  BY <1>2, <1>3, <1>4 DEF WayInv
<1>11. ASSUME NEW p \in Answered', outstanding'[tagOf'[p]] # Nobody
       PROVE  UnderWay(wire', tagOf'[p])
  <2>1. p \in Answered /\ p \in Publishers /\ p \in Sent
    BY <1>2, <1>4 DEF Answered, TypeOK, WayInv
  <2>2. tagOf[p] \in Tags
    BY <1>2, <2>1, SentTagged
  <2>3. ~Covers(wire[1], tagOf[p]) /\ outstanding[tagOf[p]] # Nobody
    BY <1>4, <1>5, <1>11, <2>2
  <2>4. UnderWay(wire, tagOf[p])
    BY <1>2, <2>1, <2>3 DEF WayInv
  <2> QED
    BY <1>4, <1>6, <2>3, <2>4
<1>12. ASSUME NEW k \in 1..Len(wire'), NEW p \in Publishers,
              tagOf'[p] # 0, Covers(wire'[k], tagOf'[p]),
              outstanding'[tagOf'[p]] = p, NoneBefore(wire', k, tagOf'[p])
       PROVE  /\ wire'[k].kind = "ack" => p \in acked'
              /\ wire'[k].kind = "nack" => p \in nacked'
  <2>1. tagOf[p] \in Tags
    BY <1>4, <1>12 DEF TypeOK
  <2>2. ~Covers(wire[1], tagOf[p]) /\ outstanding[tagOf[p]] = p
    BY <1>4, <1>5, <1>12, <2>1 DEF ConfirmAssumption
  <2>3. NoneBefore(wire, k + 1, tagOf[p])
    BY <1>4, <1>7, <1>12, <2>2
  <2> QED
    BY <1>2, <1>3, <1>4, <1>12, <2>2, <2>3 DEF WayInv
<1> QED
  BY <1>8, <1>9, <1>10, <1>11, <1>12 DEF WayInv

LEMMA WayNext ==
  ASSUME ConfirmAssumption, TrackerInv, NumberInv, WayInv, [Next]_vars, ~Skewed'
  PROVE  WayInv'
<1> USE DEF TrackerInv
<1>1. CASE lost'
  BY <1>1 DEF WayInv
<1>2. CASE ~lost'
  <2>1. ASSUME NEW p \in Publishers, PublishUnconfirmed(p), ~lost
        PROVE  WayInv'
    <3>1. /\ UNCHANGED brokerVars \/ Received(p)
          /\ UNCHANGED <<wire, trackerVars>>
      BY <2>1 DEF PublishUnconfirmed
    <3>2. UNCHANGED <<numbered, acked, nacked>>
      BY <2>1, <3>1, ReceivedEffect, AlikeNext DEF brokerVars
    <3> QED
      BY <2>1, <3>1, <3>2, WaySame DEF trackerVars
  <2>2. ASSUME NEW p \in Publishers, BeginSelect(p), ~lost
        PROVE  WayInv'
    <3> DEFINE f == [kind |-> "select-ok"]
    <3>1. /\ wire' = Append(wire, f)
          /\ UNCHANGED <<tagOf, outstanding, acked, nacked, numbered>>
      BY <2>2 DEF BeginSelect, trackerVars
    <3>2. f \in Frames /\ f.kind \notin {"ack", "nack"}
      BY FrameTypes
    <3> HIDE DEF f
    <3> QED
      BY <2>2, <3>1, <3>2, WaySame
  <2>3. ASSUME NEW p \in Publishers, SelectFails(p) \/ Confirmed(p) \/ Cancel(p), ~lost
        PROVE  WayInv'
    <3>1. UNCHANGED <<tagOf, outstanding, acked, nacked, numbered, wire>>
      BY <2>3 DEF SelectFails, Confirmed, Cancel, trackerVars, brokerVars
    <3> QED
      BY <2>3, <3>1, WaySame
  <2>4. ASSUME NEW p \in Publishers, Return(p)
        PROVE  WayInv'
    <3> DEFINE f == [kind |-> "return", of |-> p]
    <3>1. /\ wire' = Append(wire, f) /\ ~lost
          /\ UNCHANGED <<tagOf, outstanding, acked, nacked, numbered>>
      BY <2>4 DEF Return, clientVars, trackerVars
    <3>2. f \in Frames /\ f.kind \notin {"ack", "nack"}
      BY FrameTypes
    <3> HIDE DEF f
    <3> QED
      BY <3>1, <3>2, WaySame
  <2>5. CASE OnSelectOk \/ OnReturn
    <3>1. Reads({"select-ok"}) \/ Reads({"return"})
      BY <2>5 DEF OnSelectOk, OnReturn
    <3>2. Reads({"select-ok", "return"})
      BY <3>1 DEF Reads
    <3>3. UNCHANGED <<tagOf, outstanding, acked, nacked, numbered>> /\ ~lost
      BY <2>5 DEF OnSelectOk, OnReturn, Reads, trackerVars, brokerVars
    <3> QED
      BY <3>2, <3>3, WaySame
  <2>6. CASE UNCHANGED vars
    <3>1. UNCHANGED <<tagOf, outstanding, acked, nacked, numbered, wire>> /\ ~lost
      BY <1>2, <2>6 DEF vars, clientVars, trackerVars, brokerVars
    <3> QED
      BY <3>1, WaySame
  <2>7. ~Loss
    BY <1>2 DEF Loss
  <2>8. ~lost
    BY <1>2, LostNext
  <2>9. ASSUME NEW p \in Publishers, Publish(p) \/ Selected(p)
        PROVE  WayInv'
    BY <2>8, <2>9, AlikeNext, WayRegisters
  <2> QED
    BY <2>1, <2>2, <2>3, <2>4, <2>5, <2>6, <2>7, <2>8, <2>9, WayAnswer, WayConfirm
       DEF Next, Publisher, Broker, ReadLoop
<1> QED
  BY <1>1, <1>2 DEF TypeOK

LEMMA AnswersInit ==
  ASSUME Init
  PROVE  LearnedInv /\ WayInv
<1>1. wire = << >> /\ Len(wire) = 0 /\ 1..Len(wire) = {} /\ Answered = {}
  BY DEF Init, Answered
<1>2. \A p \in Publishers : outcome[p] = "none" /\ confirm[p] = "none"
  BY DEF Init
<1> QED
  BY <1>1, <1>2 DEF LearnedInv, WayInv

AnsweredAlike == ~Skewed => LearnedInv /\ WayInv

\* The first basic.ack or basic.nack under way that covers a tag is the
\* broker's answer to the publish that waits there, as long as the numberings
\* agree.
THEOREM BrokersAnswers == Spec => []AnsweredAlike
<1>1. Init => AnsweredAlike
  BY AnswersInit DEF AnsweredAlike
<1>2. TrackerInv /\ NumberedAlike /\ AnsweredAlike /\ [Next]_vars => AnsweredAlike'
  BY ConfirmAssumption, AlikeNext, LearnedNext, WayNext DEF NumberedAlike, AnsweredAlike
<1> QED
  BY <1>1, <1>2, Tracker, Numbering, PTL DEF Spec

\* basic_publish returns, or raises PublishNack or PublishReturned, only when
\* the broker has answered that very message so, however its answers are
\* grouped and ordered and whatever is cancelled or lost meanwhile, as long as
\* client and broker number alike.
THEOREM OwnConfirm == Spec => []ConfirmIsOwn
<1>1. AnsweredAlike => ConfirmIsOwn
  BY DEF AnsweredAlike, LearnedInv, ConfirmIsOwn, ConfirmedIsAnswered
<1> QED
  BY <1>1, BrokersAnswers, PTL

-----------------------------------------------------------------------------
(* A return is noted under the tag of the message that came back, as long as *)
(* the numberings agree, what the broker returns has a tag, and it returns   *)
(* no message ahead of its word on an earlier mandatory one.                 *)

\* What cannot be traced any more stays so.
LEMMA TraceableNext ==
  ASSUME ConfirmAssumption, TrackerInv, BrokerInv, [Next]_vars, Traceable'
  PROVE  /\ Traceable /\ ~Skewed /\ ~Skewed'
         /\ ~crossed' /\ \A p \in returns' : tagOf'[p] # 0
<1>1. ~Skewed' /\ ~crossed' /\ \A p \in returns' : tagOf'[p] # 0
  BY DEF Traceable
<1>2. ~Skewed
  BY <1>1, AlikeNext
<1>3. ~crossed
  BY <1>1, KeptNext
<1>4. ASSUME NEW p \in returns
      PROVE  tagOf[p] # 0
  <2>1. p \in returns' /\ p \in Publishers /\ ~Early(p)
    BY KeptNext DEF BrokerInv, TrackerInv, TypeOK
  <2> QED
    BY <1>1, <2>1, KeptNext
<1> QED
  BY <1>1, <1>2, <1>3, <1>4 DEF Traceable

LEMMA LossNext ==
  ASSUME ConfirmAssumption, TrackerInv, BrokerInv, LearnedInv, LossInv, ReturnInv,
         [Next]_vars
  PROVE  LossInv'
<1> USE DEF TrackerInv
<1>1. ASSUME UNCHANGED <<lost, dropped>>, returned' \subseteq returned,
             lost => unroutable' = unroutable,
             \A q \in Publishers :
               phase'[q] = "confirm" /\ confirm'[q] = "ok" =>
                 phase[q] = "confirm" /\ confirm[q] = "ok"
      PROVE  LossInv'
  BY <1>1 DEF LossInv, TypeOK
<1>2. ASSUME NEW p \in Publishers, Publish(p) \/ Selected(p)
      PROVE  LossInv'
  <2>1. Early(p) /\ Registers(p)
    BY <1>2, NextTagTaken
  <2>2. /\ UNCHANGED <<lost, dropped, returned>>
        /\ lost => unroutable' = unroutable
        /\ confirm' = [confirm EXCEPT ![p] = "pending"]
    BY <2>1, RegistersEffect DEF Registers
  <2>3. \A q \in Publishers \ {p} : phase'[q] = phase[q]
    BY <2>1, RegistersPhase
  <2>4. ASSUME NEW q \in Publishers, phase'[q] = "confirm", confirm'[q] = "ok"
        PROVE  phase[q] = "confirm" /\ confirm[q] = "ok"
    BY <2>2, <2>3, <2>4 DEF TypeOK
  <2> QED
    BY <1>1, <2>2, <2>4
<1>3. ASSUME NEW p \in Publishers, PublishUnconfirmed(p)
      PROVE  LossInv'
  <2>1. /\ UNCHANGED brokerVars \/ Received(p)
        /\ UNCHANGED <<lost, dropped, returned, confirm>>
        /\ \E how : Ends(p, how)
    BY <1>3 DEF PublishUnconfirmed, trackerVars, returnVars
  <2>2. lost => unroutable' = unroutable
    BY <2>1, ReceivedEffect DEF brokerVars
  <2>3. \A q \in Publishers : phase'[q] = "confirm" => phase[q] = "confirm"
    BY <2>1 DEF Ends, TypeOK
  <2> QED
    BY <1>1, <2>1, <2>2, <2>3
<1>4. ASSUME NEW p \in Publishers,
             \/ BeginSelect(p) \/ SelectFails(p) \/ Confirmed(p) \/ Cancel(p)
      PROVE  LossInv'
  <2>1. UNCHANGED <<unroutable, lost, dropped>> /\ returned' \subseteq returned
    BY <1>4 DEF BeginSelect, SelectFails, Confirmed, Cancel, returnVars, brokerVars
  <2>2. \A q \in Publishers : phase'[q] = "confirm" => phase[q] = "confirm"
    <3>1. \/ phase' = [phase EXCEPT ![p] = "select"]
          \/ phase' = [phase EXCEPT ![p] = "done"]
      BY <1>4 DEF BeginSelect, SelectFails, Confirmed, Cancel, Ends
    <3> QED
      BY <3>1 DEF TypeOK
  <2>3. \A q \in Publishers : confirm'[q] = "ok" => confirm[q] = "ok"
    <3>1. \/ confirm' = confirm
          \/ confirm' = [confirm EXCEPT ![p] = IF @ = "pending" THEN "cancelled" ELSE @]
      BY <1>4 DEF BeginSelect, SelectFails, Confirmed, Cancel, trackerVars
    <3> QED
      BY <3>1 DEF TypeOK
  <2> QED
    BY <1>1, <2>1, <2>2, <2>3
<1>5. CASE Broker \/ ReadLoop
  <2>1. ~lost /\ UNCHANGED <<lost, dropped>>
    BY <1>5 DEF Broker, Return, Answer, ReadLoop, OnSelectOk, OnReturn, OnConfirm, Reads
  <2> QED
    BY <2>1 DEF LossInv
<1>6. CASE Loss
  <2>1. /\ ~lost /\ lost' /\ returned' = {}
        /\ dropped' = {p \in Publishers : Woken(p) /\ tagOf[p] \in returned}
        /\ UNCHANGED <<phase, unroutable>>
    BY <1>6 DEF Loss, callVars, brokerVars
  <2>2. ASSUME NEW p \in unroutable', phase'[p] = "confirm", confirm'[p] = "ok"
        PROVE  p \in dropped'
    <3>1. p \in Publishers /\ p \in unroutable /\ phase[p] = "confirm"
      BY <2>1, <2>2 DEF TypeOK
    <3>2. confirm[p] = "ok"
      BY <1>6, <2>2, <3>1 DEF Loss, FailAll
    <3>3. p \in returns
      BY <3>1, <3>2 DEF LearnedInv, BrokerInv, Answered
    <3>4. ~Returning(wire, p)
      BY <2>1, <3>1, <3>2 DEF ReturnInv, Returning
    <3>5. tagOf[p] \in returned
      BY <2>1, <3>1, <3>3, <3>4 DEF ReturnInv
    <3>6. Woken(p)
      BY <3>1, <3>2 DEF Woken, Answers
    <3> QED
      BY <2>1, <3>1, <3>5, <3>6
  <2> QED
    BY <2>1, <2>2 DEF LossInv
<1>7. CASE UNCHANGED vars
  BY <1>1, <1>7 DEF vars, clientVars, callVars, trackerVars, returnVars, brokerVars
<1> QED
  BY <1>2, <1>3, <1>4, <1>5, <1>6, <1>7 DEF Next, Publisher

LEMMA ReturningTail ==
  ASSUME TypeOK, NEW kinds, Reads(kinds), NEW p, ~ReturnOf(wire[1], p)
  PROVE  Returning(wire, p) => Returning(wire', p)
<1>1. /\ Len(wire) \in Nat /\ Len(wire) >= 1 /\ Len(wire') = Len(wire) - 1
      /\ \A k \in 1..Len(wire') : wire'[k] = wire[k + 1]
  BY ReadEffect
<1>2. ASSUME NEW k \in 1..Len(wire), ReturnOf(wire[k], p)
      PROVE  Returning(wire', p)
  <2>1. k # 1
    BY <1>2
  <2>2. k - 1 \in 1..Len(wire') /\ (k - 1) + 1 = k
    BY <1>1, <2>1
  <2>3. wire'[k - 1] = wire[k]
    BY <1>1, <2>2
  <2> QED
    BY <1>2, <2>2, <2>3 DEF Returning
<1> QED
  BY <1>2 DEF Returning

LEMMA ReturningAppend ==
  ASSUME TypeOK, NEW f \in Frames, wire' = Append(wire, f), NEW p
  PROVE  Returning(wire', p) <=> (Returning(wire, p) \/ ReturnOf(f, p))
<1>1. /\ wire'[Len(wire) + 1] = f
      /\ \A k \in 1..Len(wire) : wire'[k] = wire[k]
      /\ 1..Len(wire') = (1..Len(wire)) \cup {Len(wire) + 1}
  BY AppendWire
<1> QED
  BY <1>1 DEF Returning

LEMMA AheadTail ==
  ASSUME TypeOK, NEW kinds, Reads(kinds), NEW q, ~ReturnOf(wire[1], q)
  PROVE  \A k \in 1..Len(wire') : Ahead(wire', k, q) <=> Ahead(wire, k + 1, q)
<1>1. /\ Len(wire) \in Nat /\ Len(wire) >= 1 /\ Len(wire') = Len(wire) - 1
      /\ \A k \in 1..Len(wire') : wire'[k] = wire[k + 1]
  BY ReadEffect
<1>2. ASSUME NEW k \in 1..Len(wire'), Ahead(wire', k, q)
      PROVE  Ahead(wire, k + 1, q)
  <2>1. PICK j \in 1..(k - 1) : ReturnOf(wire'[j], q)
    BY <1>2 DEF Ahead
  <2>2. j \in 1..Len(wire') /\ j + 1 \in 1..((k + 1) - 1)
    BY <1>1
  <2>3. ReturnOf(wire[j + 1], q)
    BY <1>1, <2>1, <2>2
  <2> QED
    BY <2>2, <2>3 DEF Ahead
<1>3. ASSUME NEW k \in 1..Len(wire'), Ahead(wire, k + 1, q)
      PROVE  Ahead(wire', k, q)
  <2>1. PICK j \in 1..((k + 1) - 1) : ReturnOf(wire[j], q)
    BY <1>3 DEF Ahead
  <2>2. j # 1
    BY <2>1
  <2>3. j - 1 \in 1..(k - 1) /\ j - 1 \in 1..Len(wire') /\ (j - 1) + 1 = j
    BY <1>1, <2>2
  <2>4. wire'[j - 1] = wire[j]
    BY <1>1, <2>3
  <2> QED
    BY <2>1, <2>3, <2>4 DEF Ahead
<1> QED
  BY <1>2, <1>3

LEMMA AheadAppend ==
  ASSUME TypeOK, NEW f \in Frames, wire' = Append(wire, f), NEW q
  PROVE  /\ \A k \in 1..Len(wire) : Ahead(wire', k, q) <=> Ahead(wire, k, q)
         /\ Ahead(wire', Len(wire) + 1, q) <=> Returning(wire, q)
<1>1. /\ Len(wire) \in Nat
      /\ \A k \in 1..Len(wire) : wire'[k] = wire[k]
  BY AppendWire
<1>2. ASSUME NEW k \in 1..Len(wire)
      PROVE  Ahead(wire', k, q) <=> Ahead(wire, k, q)
  <2>1. \A j \in 1..(k - 1) : j \in 1..Len(wire)
    BY <1>1
  <2> QED
    BY <1>1, <2>1 DEF Ahead
<1>3. 1..((Len(wire) + 1) - 1) = 1..Len(wire)
  BY <1>1
<1>4. Ahead(wire', Len(wire) + 1, q) <=> Returning(wire, q)
  BY <1>1, <1>3 DEF Ahead, Returning
<1> QED
  BY <1>2, <1>4

\* What ReturnInv says of the return w[k] of p; tags, the mandatory tags, the
\* returned messages and the awaited confirms are arguments.
InTurn(w, k, p, tags, held, back, awaited) ==
  /\ p \in back
  /\ tags[p] \in held
  /\ awaited[p] \notin {"ok", "nack"}
  /\ NoneBefore(w, k, tags[p])
  /\ \A j \in 1..Len(w) : ReturnOf(w[j], p) => j = k
  /\ \A q \in Publishers :
       tags[q] \in held /\ tags[q] < tags[p] =>
         ~NoneBefore(w, k, tags[q]) \/ Ahead(w, k, q)

LEMMA ReturnInvIs ==
  /\ ReturnInv <=>
       (~lost =>
         /\ \A p \in returns :
              phase[p] = "confirm" => tagOf[p] \in returned \/ Returning(wire, p)
         /\ \A p \in returns :
              tagOf[p] \in mandatoryTags => Returning(wire, p)
         /\ \A k \in 1..Len(wire), p \in Publishers :
              ReturnOf(wire[k], p) =>
                InTurn(wire, k, p, tagOf, mandatoryTags, returns, confirm))
  /\ ReturnInv' <=>
       (~lost' =>
         /\ \A p \in returns' :
              phase'[p] = "confirm" => tagOf'[p] \in returned' \/ Returning(wire', p)
         /\ \A p \in returns' :
              tagOf'[p] \in mandatoryTags' => Returning(wire', p)
         /\ \A k \in 1..Len(wire'), p \in Publishers :
              ReturnOf(wire'[k], p) =>
                InTurn(wire', k, p, tagOf', mandatoryTags', returns', confirm'))
BY DEF ReturnInv, InTurn

\* A step of a publisher that does not register, and the reading of select-ok.
LEMMA ReturnsSame ==
  ASSUME ConfirmAssumption, TrackerInv, MandatoryInv, ReturnInv, ~lost,
         UNCHANGED <<tagOf, mandatoryTags, acked, nacked, returns>>,
         unroutable \subseteq unroutable', returned' \subseteq returned,
         \A q \in Publishers :
           phase'[q] = "confirm" =>
             /\ phase[q] = "confirm"
             /\ tagOf[q] \in returned => tagOf[q] \in returned',
         \A q \in Publishers :
           confirm'[q] \in {"ok", "nack"} => confirm[q] \in {"ok", "nack"},
         \/ wire' = wire
         \/ wire' = Append(wire, [kind |-> "select-ok"])
         \/ Reads({"select-ok"})
  PROVE  MandatoryInv' /\ ReturnInv'
<1> USE DEF TrackerInv
<1>1. Answered' = Answered
  BY DEF Answered
<1>2. returns \subseteq Publishers
  BY DEF TypeOK
<1>3. CASE wire' = wire
  <2>1. MandatoryInv'
    BY <1>1, <1>3 DEF MandatoryInv
  <2>2. \A q \in returns' :
          /\ phase'[q] = "confirm" => tagOf'[q] \in returned' \/ Returning(wire', q)
          /\ tagOf'[q] \in mandatoryTags' => Returning(wire', q)
    BY <1>2, <1>3, ReturnInvIs
  <2>3. \A k \in 1..Len(wire'), q \in Publishers :
          ReturnOf(wire'[k], q) =>
            InTurn(wire', k, q, tagOf', mandatoryTags', returns', confirm')
    <3>1. ASSUME NEW k \in 1..Len(wire), NEW q \in Publishers, ReturnOf(wire[k], q)
          PROVE  InTurn(wire, k, q, tagOf, mandatoryTags, returns, confirm')
      BY <3>1, ReturnInvIs DEF InTurn
    <3> QED
      BY <1>3, <3>1
  <2> QED
    BY <2>1, <2>2, <2>3, ReturnInvIs
<1>4. CASE wire' = Append(wire, [kind |-> "select-ok"])
  <2> DEFINE f == [kind |-> "select-ok"]
  <2>1. /\ f \in Frames /\ wire' = Append(wire, f)
        /\ \A t : ~Covers(f, t)
        /\ \A q : ~ReturnOf(f, q)
    BY <1>4, FrameTypes DEF Covers, ReturnOf
  <2> HIDE DEF f
  <2>2. /\ Len(wire) \in Nat
        /\ \A k \in 1..Len(wire) : wire'[k] = wire[k]
        /\ wire'[Len(wire) + 1] = f
        /\ 1..Len(wire') = (1..Len(wire)) \cup {Len(wire) + 1}
    BY <2>1, AppendWire
  <2>3. \A t : UnderWay(wire, t) => UnderWay(wire', t)
    BY <2>1, CoversAppend
  <2>4. \A t : \A k \in 1..Len(wire) : NoneBefore(wire', k, t) <=> NoneBefore(wire, k, t)
    BY <2>1, CoversAppend
  <2>5. \A q : Returning(wire, q) => Returning(wire', q)
    BY <2>1, ReturningAppend
  <2>6. MandatoryInv'
    BY <1>1, <2>3 DEF MandatoryInv
  <2>9. \A q : \A k \in 1..Len(wire) : Ahead(wire', k, q) <=> Ahead(wire, k, q)
    BY <2>1, AheadAppend
  <2>7. \A q \in returns' :
          /\ phase'[q] = "confirm" => tagOf'[q] \in returned' \/ Returning(wire', q)
          /\ tagOf'[q] \in mandatoryTags' => Returning(wire', q)
    BY <1>2, <2>5, ReturnInvIs
  <2>8. ASSUME NEW k \in 1..Len(wire'), NEW q \in Publishers, ReturnOf(wire'[k], q)
        PROVE  InTurn(wire', k, q, tagOf', mandatoryTags', returns', confirm')
    <3>1. k \in 1..Len(wire) /\ ReturnOf(wire[k], q)
      BY <2>1, <2>2, <2>8
    <3>2. InTurn(wire, k, q, tagOf, mandatoryTags, returns, confirm)
      BY <3>1, ReturnInvIs
    <3>3. \A j \in 1..Len(wire') : ReturnOf(wire'[j], q) => j = k
      BY <2>1, <2>2, <3>2 DEF InTurn
    <3> QED
      BY <2>4, <2>9, <3>1, <3>2, <3>3 DEF InTurn
  <2> QED
    BY <2>6, <2>7, <2>8, ReturnInvIs
<1>5. CASE Reads({"select-ok"})
  <2>0. wire[1].kind \in {"select-ok"}
    BY <1>5, ReadEffect
  <2>1. /\ wire[1].kind = "select-ok"
        /\ Len(wire) \in Nat /\ Len(wire') = Len(wire) - 1
        /\ \A k \in 1..Len(wire') : wire'[k] = wire[k + 1]
    BY <1>5, <2>0, ReadEffect
  <2>2. /\ \A t : ~Covers(wire[1], t)
        /\ \A q : ~ReturnOf(wire[1], q)
    BY <2>1 DEF Covers, ReturnOf
  <2>3. \A t : UnderWay(wire, t) => UnderWay(wire', t)
    BY <1>5, <2>2, CoversTail
  <2>4. \A t : \A k \in 1..Len(wire') : NoneBefore(wire', k, t) <=> NoneBefore(wire, k + 1, t)
    BY <1>5, <2>2, CoversTail
  <2>5. \A q : Returning(wire, q) => Returning(wire', q)
    BY <1>5, <2>2, ReturningTail
  <2>6. MandatoryInv'
    BY <1>1, <2>3 DEF MandatoryInv
  <2>9. \A q : \A k \in 1..Len(wire') : Ahead(wire', k, q) <=> Ahead(wire, k + 1, q)
    BY <1>5, <2>2, AheadTail
  <2>7. \A q \in returns' :
          /\ phase'[q] = "confirm" => tagOf'[q] \in returned' \/ Returning(wire', q)
          /\ tagOf'[q] \in mandatoryTags' => Returning(wire', q)
    BY <1>2, <2>5, ReturnInvIs
  <2>8. ASSUME NEW k \in 1..Len(wire'), NEW q \in Publishers, ReturnOf(wire'[k], q)
        PROVE  InTurn(wire', k, q, tagOf', mandatoryTags', returns', confirm')
    <3>0. \A j \in 1..Len(wire') : j + 1 \in 1..Len(wire)
      BY <2>1
    <3>1. k + 1 \in 1..Len(wire) /\ ReturnOf(wire[k + 1], q)
      BY <2>1, <2>8, <3>0
    <3>2. InTurn(wire, k + 1, q, tagOf, mandatoryTags, returns, confirm)
      BY <3>1, ReturnInvIs
    <3>3. \A j \in 1..Len(wire') : ReturnOf(wire'[j], q) => j + 1 = k + 1
      BY <2>1, <3>0, <3>2 DEF InTurn
    <3>4. \A j \in 1..Len(wire') : ReturnOf(wire'[j], q) => j = k
      BY <3>3
    <3> QED
      BY <2>4, <2>9, <3>2, <3>4 DEF InTurn
  <2> QED
    BY <2>6, <2>7, <2>8, ReturnInvIs
<1> QED
  BY <1>3, <1>4, <1>5

\* A publish registers: its tag is the youngest of the mandatory ones.
LEMMA ReturnsRegisters ==
  ASSUME ConfirmAssumption, TrackerInv, BrokerInv, MandatoryInv, ReturnInv, ~lost,
         NEW p \in Publishers, Publish(p) \/ Selected(p)
  PROVE  MandatoryInv' /\ ReturnInv'
<1> USE DEF TrackerInv
<1>1. Early(p) /\ Registers(p)
  BY NextTagTaken
<1>2. /\ nextTag \in Tags /\ nextTag \in Nat \ {0}
      /\ tagOf'[p] = nextTag
      /\ \A q \in Publishers \ {p} : tagOf'[q] = tagOf[q] /\ confirm'[q] = confirm[q]
  <2>1. nextTag \in Tags /\ nextTag \in Nat \ {0}
    BY <1>1, FreeTag DEF TypeOK
  <2>2. /\ tagOf' = [tagOf EXCEPT ![p] = nextTag]
        /\ confirm' = [confirm EXCEPT ![p] = "pending"]
    BY <1>1, RegistersEffect
  <2> QED
    BY <2>1, <2>2 DEF TypeOK
<1>3. /\ \A q \in Publishers \ {p} : phase'[q] = phase[q]
      /\ unroutable \subseteq unroutable'
      /\ UNCHANGED <<wire, returned, returns, acked, nacked>>
  BY <1>1, RegistersPhase, RegistersEffect DEF Registers
<1>4. mandatoryTags' = IF p \in Mandatory THEN mandatoryTags \cup {nextTag} ELSE mandatoryTags
  BY <1>1 DEF Registers, PublishAs
<1>5. Answered' = Answered
  BY <1>3 DEF Answered
<1>6. p \notin Answered /\ p \notin returns /\ p \notin unroutable
  <2>1. p \notin Sent
    BY <1>1 DEF SentInv
  <2> QED
    BY <1>1, <2>1 DEF BrokerInv
<1>7. \A q \in Publishers : tagOf[q] < nextTag /\ tagOf[q] \in Nat
  BY DEF TagInv, TypeOK, Tags
<1>8. \A q \in Publishers \ {p} : tagOf'[q] \in mandatoryTags' => tagOf[q] \in mandatoryTags
  BY <1>2, <1>4, <1>7
<1>9. Answered \subseteq Publishers /\ returns \subseteq Publishers /\ unroutable \subseteq Publishers
      /\ Mandatory \subseteq Publishers
  BY DEF Answered, TypeOK, ConfirmAssumption
<1>10. MandatoryInv'
  <2>1. \A t \in mandatoryTags' : \E q \in Mandatory : tagOf'[q] = t
    <3>1. ASSUME NEW t \in mandatoryTags'
          PROVE  \E q \in Mandatory : tagOf'[q] = t
      <4>1. CASE t \in mandatoryTags
        <5>1. PICK q \in Mandatory : tagOf[q] = t
          BY <4>1 DEF MandatoryInv
        <5>2. t \in Tags /\ tagOf[p] = 0
          BY <1>1, <4>1 DEF TypeOK, TagInv
        <5>3. q # p
          BY <5>1, <5>2 DEF Tags
        <5> QED
          BY <1>2, <1>9, <5>1, <5>3
      <4>2. CASE t \notin mandatoryTags
        BY <1>2, <1>4, <4>2
      <4> QED
        BY <4>1, <4>2
    <3> QED
      BY <3>1
  <2>2. \A q \in Mandatory :
          tagOf'[q] # 0 => tagOf'[q] \in mandatoryTags' \/ q \in Answered' \/ q \in returns'
    BY <1>2, <1>3, <1>4, <1>5, <1>9 DEF MandatoryInv
  <2>3. \A q \in Answered' : tagOf'[q] \in mandatoryTags' => UnderWay(wire', tagOf'[q])
    BY <1>2, <1>3, <1>5, <1>6, <1>8, <1>9 DEF MandatoryInv
  <2>4. \A t \in returned' : \E q \in unroutable' : tagOf'[q] = t
    <3>1. ASSUME NEW t \in returned
          PROVE  \E q \in unroutable' : tagOf'[q] = t
      <4>1. PICK q \in unroutable : tagOf[q] = t
        BY DEF MandatoryInv
      <4> QED
        BY <1>2, <1>3, <1>6, <1>9, <4>1
    <3> QED
      BY <1>3, <3>1
  <2> QED
    BY <2>1, <2>2, <2>3, <2>4 DEF MandatoryInv
<1>11. \A q \in returns' :
         /\ phase'[q] = "confirm" => tagOf'[q] \in returned' \/ Returning(wire', q)
         /\ tagOf'[q] \in mandatoryTags' => Returning(wire', q)
  BY <1>2, <1>3, <1>6, <1>8, <1>9, ReturnInvIs
<1>12. ASSUME NEW k \in 1..Len(wire'), NEW q \in Publishers, ReturnOf(wire'[k], q)
       PROVE  InTurn(wire', k, q, tagOf', mandatoryTags', returns', confirm')
  <2>1. InTurn(wire, k, q, tagOf, mandatoryTags, returns, confirm) /\ wire' = wire
    BY <1>3, <1>12, ReturnInvIs
  <2>2. q # p
    BY <1>6, <2>1 DEF InTurn
  <2>3. ASSUME NEW x \in Publishers, tagOf'[x] \in mandatoryTags', tagOf'[x] < tagOf'[q]
        PROVE  ~NoneBefore(wire, k, tagOf'[x]) \/ Ahead(wire, k, x)
    <3>1. x # p
      BY <1>2, <1>7, <2>2, <2>3
    <3> QED
      BY <1>2, <1>8, <2>1, <2>2, <2>3, <3>1 DEF InTurn
  <2>4. q \in returns' /\ tagOf'[q] \in mandatoryTags' /\ confirm'[q] \notin {"ok", "nack"}
        /\ NoneBefore(wire', k, tagOf'[q])
        /\ \A j \in 1..Len(wire') : ReturnOf(wire'[j], q) => j = k
    BY <1>2, <1>3, <1>4, <2>1, <2>2 DEF InTurn
  <2> QED
    BY <2>1, <2>3, <2>4 DEF InTurn
<1> QED
  BY <1>10, <1>11, <1>12, ReturnInvIs

\* The broker returns p: the mandatory messages before it are confirmed or
\* their confirms are under way, ahead of the return.
LEMMA ReturnsReturn ==
  ASSUME ConfirmAssumption, TrackerInv, BrokerInv, NumberInv, LearnedInv, WayInv,
         MandatoryInv, ReturnInv,
         NEW p \in Publishers, Return(p), ~crossed', tagOf[p] # 0
  PROVE  MandatoryInv' /\ ReturnInv'
<1> USE DEF TrackerInv
<1> DEFINE f == [kind |-> "return", of |-> p]
<1>1. f \in Frames /\ ReturnOf(f, p) /\ \A t : ~Covers(f, t)
  BY FrameTypes DEF ReturnOf, Covers
<1>2. \A q : ReturnOf(f, q) => q = p
  BY DEF ReturnOf
<1>3. /\ ~lost /\ p \in unroutable /\ p \notin returns
      /\ returns' = returns \cup {p} /\ wire' = Append(wire, f)
      /\ UNCHANGED <<phase, confirm, tagOf, mandatoryTags, returned, unroutable,
                     acked, nacked>>
  BY DEF Return, clientVars, callVars, trackerVars, returnVars
<1> HIDE DEF f
<1>4. Answered' = Answered /\ Answered \subseteq Publishers /\ returns \subseteq Publishers
  BY <1>3 DEF Answered, TypeOK
<1>5. /\ Len(wire) \in Nat
      /\ \A k \in 1..Len(wire) : wire'[k] = wire[k]
      /\ wire'[Len(wire) + 1] = f
      /\ 1..Len(wire') = (1..Len(wire)) \cup {Len(wire) + 1}
  BY <1>1, <1>3, AppendWire
<1>6. \A t : /\ UnderWay(wire, t) => UnderWay(wire', t)
             /\ NoneBefore(wire', Len(wire) + 1, t) <=> ~UnderWay(wire, t)
  BY <1>1, <1>3, CoversAppend
<1>7. \A t : \A k \in 1..Len(wire) : NoneBefore(wire', k, t) <=> NoneBefore(wire, k, t)
  BY <1>1, <1>3, CoversAppend
<1>8. \A q : Returning(wire', q) <=> Returning(wire, q) \/ ReturnOf(f, q)
  BY <1>1, <1>3, ReturningAppend
<1>9. MandatoryInv'
  BY <1>3, <1>4, <1>6 DEF MandatoryInv
<1>10. \A q \in returns' :
         /\ phase'[q] = "confirm" => tagOf'[q] \in returned' \/ Returning(wire', q)
         /\ tagOf'[q] \in mandatoryTags' => Returning(wire', q)
  BY <1>1, <1>3, <1>8, ReturnInvIs
<1>11. p \in Mandatory /\ p \notin Answered /\ ~Overtakes(p)
  BY <1>3 DEF BrokerInv, Return
<1>15. \A q : /\ \A k \in 1..Len(wire) : Ahead(wire', k, q) <=> Ahead(wire, k, q)
              /\ Ahead(wire', Len(wire) + 1, q) <=> Returning(wire, q)
  BY <1>1, <1>3, AheadAppend
<1>12. ASSUME NEW k \in 1..Len(wire), NEW q \in Publishers, ReturnOf(wire'[k], q)
       PROVE  InTurn(wire', k, q, tagOf, mandatoryTags, returns', confirm)
  <2>1. InTurn(wire, k, q, tagOf, mandatoryTags, returns, confirm)
    BY <1>3, <1>5, <1>12, ReturnInvIs
  <2>2. q \in returns /\ q # p
    BY <1>3, <2>1 DEF InTurn
  <2>3. \A j \in 1..Len(wire') : ReturnOf(wire'[j], q) => j = k
    BY <1>2, <1>5, <2>1, <2>2 DEF InTurn
  <2> QED
    BY <1>3, <1>7, <1>15, <2>1, <2>3 DEF InTurn
<1>13. InTurn(wire', Len(wire) + 1, p, tagOf, mandatoryTags, returns', confirm)
  <2>1. p \in returns' /\ tagOf[p] \in mandatoryTags
    BY <1>3, <1>11 DEF MandatoryInv
  <2>2. confirm[p] \notin {"ok", "nack"}
    BY <1>11 DEF LearnedInv, Answered
  <2>3. NoneBefore(wire', Len(wire) + 1, tagOf[p])
    <3>1. ~UnderWay(wire, tagOf[p])
      BY <1>3, <1>11 DEF WayInv, UnderWay
    <3> QED
      BY <1>6, <3>1
  <2>4. \A j \in 1..Len(wire') : ReturnOf(wire'[j], p) => j = Len(wire) + 1
    <3>1. ASSUME NEW j \in 1..Len(wire), ReturnOf(wire[j], p)
          PROVE  FALSE
      <4>1. InTurn(wire, j, p, tagOf, mandatoryTags, returns, confirm)
        BY <1>3, <3>1, ReturnInvIs
      <4> QED
        BY <1>3, <4>1 DEF InTurn
    <3> QED
      BY <1>5, <3>1
  <2>5. ASSUME NEW q \in Publishers, tagOf[q] \in mandatoryTags, tagOf[q] < tagOf[p]
        PROVE  ~NoneBefore(wire', Len(wire) + 1, tagOf[q]) \/ Ahead(wire', Len(wire) + 1, q)
    <3>1. tagOf[q] \in Tags /\ tagOf[q] # 0
      BY <2>5 DEF TypeOK, Tags
    <3>2. PICK m \in Mandatory : tagOf[m] = tagOf[q]
      BY <1>3, <2>5 DEF MandatoryInv
    <3>3. m = q
      BY <3>1, <3>2 DEF TagInv, ConfirmAssumption
    <3>4. /\ tagOf[q] \in 1..Len(numbered) /\ numbered[tagOf[q]] = q
          /\ tagOf[p] \in 1..Len(numbered) /\ numbered[tagOf[p]] = p
      BY <1>3, <1>11, <3>1, SentTagged
    <3>5. q \in Answered \/ q \in returns
      <4>1. tagOf[q] < tagOf[p] /\ q \in Mandatory
        BY <2>5, <3>2, <3>3
      <4> QED
        BY <1>11, <3>4, <4>1 DEF Overtakes, Answered
    <3>6. q \in Answered => UnderWay(wire, tagOf[q])
      BY <1>3, <2>5 DEF MandatoryInv
    <3>7. q \in returns => Returning(wire, q)
      BY <1>3, <2>5 DEF ReturnInv
    <3> QED
      BY <1>6, <1>15, <3>5, <3>6, <3>7
  <2> QED
    BY <2>1, <2>2, <2>3, <2>4, <2>5 DEF InTurn
<1>14. \A k \in 1..Len(wire'), q \in Publishers :
         ReturnOf(wire'[k], q) =>
           InTurn(wire', k, q, tagOf', mandatoryTags', returns', confirm')
  <2>1. ASSUME NEW k \in 1..Len(wire'), NEW q \in Publishers, ReturnOf(wire'[k], q)
        PROVE  InTurn(wire', k, q, tagOf, mandatoryTags, returns', confirm)
    <3>1. CASE k \in 1..Len(wire)
      BY <1>12, <2>1, <3>1
    <3>2. CASE k = Len(wire) + 1
      <4>1. q = p
        BY <1>2, <1>5, <2>1, <3>2
      <4> QED
        BY <1>13, <3>2, <4>1
    <3> QED
      BY <1>5, <3>1, <3>2
  <2> QED
    BY <1>3, <2>1
<1> QED
  BY <1>9, <1>10, <1>14, ReturnInvIs

\* The broker answers.
LEMMA ReturnsAnswer ==
  ASSUME ConfirmAssumption, TrackerInv, NumberInv, MandatoryInv, ReturnInv,
         NEW i \in Unanswered, NEW kind \in {"ack", "nack"},
         NEW multiple \in BOOLEAN, Answer(i, kind, multiple)
  PROVE  MandatoryInv' /\ ReturnInv'
<1> USE DEF TrackerInv
<1> DEFINE f == [kind |-> kind, tag |-> i, multiple |-> multiple]
<1>1. \A q : ~ReturnOf(f, q)
  BY DEF ReturnOf
<1> HIDE DEF f
<1>2. ~lost
  BY DEF Answer
<1>3. /\ f \in Frames /\ wire' = Append(wire, f)
      /\ acked \subseteq acked' /\ nacked \subseteq nacked'
      /\ \A p \in Answered' \ Answered : Covers(f, tagOf[p])
      /\ UNCHANGED <<clientVars, returns, unroutable>>
  BY <1>2, AnswerEffect DEF f
<1>4. UNCHANGED <<phase, confirm, tagOf, mandatoryTags, returned>>
  BY <1>3 DEF clientVars, callVars, trackerVars, returnVars
<1>5. Answered \subseteq Answered'
  BY <1>3 DEF Answered
<1>6. /\ \A k \in 1..Len(wire) : wire'[k] = wire[k]
      /\ wire'[Len(wire) + 1] = f
      /\ 1..Len(wire') = (1..Len(wire)) \cup {Len(wire) + 1}
  BY <1>3, AppendWire
<1>7. \A t : UnderWay(wire', t) <=> (UnderWay(wire, t) \/ Covers(f, t))
  BY <1>3, CoversAppend
<1>8. \A t : \A k \in 1..Len(wire) : NoneBefore(wire', k, t) <=> NoneBefore(wire, k, t)
  BY <1>3, CoversAppend
<1>9. \A q : Returning(wire, q) => Returning(wire', q)
  BY <1>3, ReturningAppend
<1>13. \A q : \A k \in 1..Len(wire) : Ahead(wire', k, q) <=> Ahead(wire, k, q)
  BY <1>3, AheadAppend
<1>10. MandatoryInv'
  <2>1. \A q \in Answered' : tagOf'[q] \in mandatoryTags' => UnderWay(wire', tagOf'[q])
    BY <1>2, <1>3, <1>4, <1>7 DEF MandatoryInv
  <2>2. \A q \in Mandatory :
          tagOf'[q] # 0 => tagOf'[q] \in mandatoryTags' \/ q \in Answered' \/ q \in returns'
    BY <1>2, <1>3, <1>4, <1>5 DEF MandatoryInv
  <2> QED
    BY <1>2, <1>3, <1>4, <2>1, <2>2 DEF MandatoryInv
<1>11. \A q \in returns' :
         /\ phase'[q] = "confirm" => tagOf'[q] \in returned' \/ Returning(wire', q)
         /\ tagOf'[q] \in mandatoryTags' => Returning(wire', q)
  BY <1>2, <1>3, <1>4, <1>9, ReturnInvIs
<1>12. ASSUME NEW k \in 1..Len(wire'), NEW q \in Publishers, ReturnOf(wire'[k], q)
       PROVE  InTurn(wire', k, q, tagOf', mandatoryTags', returns', confirm')
  <2>1. k \in 1..Len(wire) /\ ReturnOf(wire[k], q)
    BY <1>1, <1>6, <1>12
  <2>2. InTurn(wire, k, q, tagOf, mandatoryTags, returns, confirm)
    BY <1>2, <2>1, ReturnInvIs
  <2>3. \A j \in 1..Len(wire') : ReturnOf(wire'[j], q) => j = k
    BY <1>1, <1>6, <2>2 DEF InTurn
  <2>4. InTurn(wire', k, q, tagOf, mandatoryTags, returns, confirm)
    BY <1>8, <1>13, <2>1, <2>2, <2>3 DEF InTurn
  <2> QED
    BY <1>3, <1>4, <2>4
<1> QED
  BY <1>10, <1>11, <1>12, ReturnInvIs

\* The read loop takes a return: it is that of the oldest mandatory tag.
LEMMA ReturnsOnReturn ==
  ASSUME ConfirmAssumption, TrackerInv, BrokerInv, MandatoryInv,
         ReturnInv, OnReturn
  PROVE  MandatoryInv' /\ ReturnInv'
<1> USE DEF TrackerInv
<1>1. Reads({"return"}) /\ UNCHANGED trackerVars
  BY DEF OnReturn
<1>2. wire[1].kind \in {"return"}
  BY <1>1, ReadEffect
<1>3. /\ ~lost /\ wire[1] \in Frames /\ wire[1].kind = "return"
      /\ Len(wire) \in Nat /\ Len(wire) >= 1 /\ Len(wire') = Len(wire) - 1
      /\ \A k \in 1..Len(wire') : wire'[k] = wire[k + 1]
      /\ UNCHANGED <<phase, returns, unroutable, acked, nacked>>
  BY <1>1, <1>2, ReadEffect
<1>4. UNCHANGED <<confirm, tagOf>> /\ Answered' = Answered /\ Answered \subseteq Publishers
  BY <1>1, <1>3 DEF trackerVars, Answered, TypeOK
<1>5. 1 \in 1..Len(wire) /\ \A k \in 1..Len(wire') : k + 1 \in 1..Len(wire) /\ k + 1 # 1
  BY <1>3
<1> DEFINE p == wire[1].of
<1>6. p \in Publishers /\ ReturnOf(wire[1], p) /\ \A q : ReturnOf(wire[1], q) => q = p
  BY <1>3, FrameTypes DEF ReturnOf
<1> HIDE DEF p
<1>7. InTurn(wire, 1, p, tagOf, mandatoryTags, returns, confirm)
  BY <1>3, <1>5, <1>6, ReturnInvIs
<1>8. tagOf[p] \in mandatoryTags /\ p \in unroutable /\ p \in returns
  BY <1>7 DEF InTurn, BrokerInv
<1>9. PICK t \in mandatoryTags :
        /\ \A u \in mandatoryTags : t <= u
        /\ mandatoryTags' = mandatoryTags \ {t}
        /\ returned' = returned \cup {t}
  BY <1>8 DEF OnReturn
<1>10. t = tagOf[p]
  <2>1. PICK m \in Mandatory : tagOf[m] = t
    BY <1>3 DEF MandatoryInv
  <2>2. (\A u : NoneBefore(wire, 1, u)) /\ \A u : ~Ahead(wire, 1, u)
    BY DEF NoneBefore, Ahead
  <2>3. ~(tagOf[m] < tagOf[p])
    BY <1>7, <2>1, <2>2 DEF InTurn, ConfirmAssumption
  <2>4. t <= tagOf[p] /\ t \in Nat /\ tagOf[p] \in Nat
    BY <1>8, <1>9 DEF TypeOK, Tags
  <2> QED
    BY <2>1, <2>3, <2>4
<1>11. \A u : ~Covers(wire[1], u)
  BY <1>3 DEF Covers
<1>12. \A u : UnderWay(wire, u) => UnderWay(wire', u)
  BY <1>1, <1>11, CoversTail
<1>13. \A u : \A k \in 1..Len(wire') : NoneBefore(wire', k, u) <=> NoneBefore(wire, k + 1, u)
  BY <1>1, <1>11, CoversTail
<1>14. \A q : q # p /\ Returning(wire, q) => Returning(wire', q)
  BY <1>1, <1>6, ReturningTail
<1>15. t # 0 /\ \A q \in Publishers \ {p} : tagOf[q] # t
  <2>1. t # 0
    BY DEF TypeOK, Tags
  <2> QED
    BY <1>6, <1>10, <2>1 DEF TagInv
<1>16. MandatoryInv'
  <2>1. \A u \in mandatoryTags' : \E q \in Mandatory : tagOf'[q] = u
    BY <1>3, <1>4, <1>9 DEF MandatoryInv
  <2>2. ASSUME NEW q \in Mandatory, tagOf'[q] # 0
        PROVE  tagOf'[q] \in mandatoryTags' \/ q \in Answered' \/ q \in returns'
    <3>1. CASE q = p
      BY <1>3, <1>8, <3>1
    <3>2. CASE q # p
      BY <1>3, <1>4, <1>9, <1>15, <2>2, <3>2 DEF MandatoryInv, ConfirmAssumption
    <3> QED
      BY <3>1, <3>2
  <2>3. \A q \in Answered' : tagOf'[q] \in mandatoryTags' => UnderWay(wire', tagOf'[q])
    BY <1>3, <1>4, <1>9, <1>12 DEF MandatoryInv
  <2>4. \A u \in returned' : \E q \in unroutable' : tagOf'[q] = u
    BY <1>3, <1>4, <1>8, <1>9, <1>10 DEF MandatoryInv
  <2> QED
    BY <2>1, <2>2, <2>3, <2>4 DEF MandatoryInv
<1>17. \A q \in returns' :
         /\ phase'[q] = "confirm" => tagOf'[q] \in returned' \/ Returning(wire', q)
         /\ tagOf'[q] \in mandatoryTags' => Returning(wire', q)
  BY <1>3, <1>4, <1>9, <1>10, <1>14, ReturnInvIs
<1>18. ASSUME NEW k \in 1..Len(wire'), NEW q \in Publishers, ReturnOf(wire'[k], q)
       PROVE  InTurn(wire', k, q, tagOf', mandatoryTags', returns', confirm')
  <2>1. k + 1 \in 1..Len(wire) /\ ReturnOf(wire[k + 1], q)
    BY <1>3, <1>5, <1>18
  <2>2. InTurn(wire, k + 1, q, tagOf, mandatoryTags, returns, confirm)
    BY <1>3, <2>1, ReturnInvIs
  <2>3. q # p
    <3>1. q = p => 1 = k + 1
      BY <1>5, <1>6, <2>2 DEF InTurn
    <3> QED
      BY <1>5, <3>1
  <2>4. \A j \in 1..Len(wire') : ReturnOf(wire'[j], q) => j + 1 = k + 1
    BY <1>3, <1>5, <2>2 DEF InTurn
  <2>5. \A j \in 1..Len(wire') : ReturnOf(wire'[j], q) => j = k
    BY <2>4
  <2>6. tagOf[q] \in mandatoryTags'
    BY <1>9, <1>15, <2>2, <2>3 DEF InTurn
  <2>8. ASSUME NEW x \in Publishers, tagOf[x] \in mandatoryTags', tagOf[x] < tagOf[q]
        PROVE  ~NoneBefore(wire', k, tagOf[x]) \/ Ahead(wire', k, x)
    <3>1. x # p /\ tagOf[x] \in mandatoryTags
      BY <1>9, <1>10, <2>8
    <3>2. Ahead(wire', k, x) <=> Ahead(wire, k + 1, x)
      BY <1>1, <1>6, <3>1, AheadTail
    <3> QED
      BY <1>13, <2>2, <2>8, <3>1, <3>2 DEF InTurn
  <2>7. InTurn(wire', k, q, tagOf, mandatoryTags', returns, confirm)
    BY <1>9, <1>13, <2>2, <2>5, <2>6, <2>8 DEF InTurn
  <2> QED
    BY <1>3, <1>4, <2>7
<1> QED
  BY <1>16, <1>17, <1>18, ReturnInvIs

\* The read loop takes a confirm: none of the returns under way is covered.
LEMMA ReturnsOnConfirm ==
  ASSUME ConfirmAssumption, TrackerInv, NumberInv, WayInv, MandatoryInv,
         ReturnInv, OnConfirm
  PROVE  MandatoryInv' /\ ReturnInv'
<1> USE DEF TrackerInv
<1>1. enabled /\ Reads({"ack", "nack"}) /\ UNCHANGED <<tagOf, returned>>
  BY ConfirmEnabled DEF OnConfirm
<1>2. wire[1].kind \in {"ack", "nack"}
  BY <1>1, ReadEffect
<1>3. /\ ~lost
      /\ Len(wire) \in Nat /\ Len(wire) >= 1 /\ Len(wire') = Len(wire) - 1
      /\ \A k \in 1..Len(wire') : wire'[k] = wire[k + 1]
      /\ UNCHANGED <<phase, returns, unroutable, acked, nacked>>
  BY <1>1, ReadEffect
<1>4. Answered' = Answered /\ Answered \subseteq Publishers /\ returns \subseteq Publishers
  BY <1>3 DEF Answered, TypeOK
<1>5. 1 \in 1..Len(wire) /\ \A k \in 1..Len(wire') : k + 1 \in 1..Len(wire) /\ 1 \in 1..k
  BY <1>3
<1>6. /\ \A u \in Tags :
           u \in mandatoryTags' <=> u \in mandatoryTags /\ ~Covers(wire[1], u)
      /\ \A q \in Publishers :
           confirm'[q] = confirm[q] \/ (tagOf[q] # 0 /\ Covers(wire[1], tagOf[q]))
  BY <1>1, ConfirmEffect
<1>7. mandatoryTags \subseteq Tags /\ mandatoryTags' \subseteq Tags
  BY <1>1 DEF TypeOK, OnConfirm
<1>8. \A q : ~ReturnOf(wire[1], q)
  BY <1>2 DEF ReturnOf
<1>9. \A q : Returning(wire, q) => Returning(wire', q)
  BY <1>1, <1>8, ReturningTail
<1>10. \A u : ~Covers(wire[1], u) /\ UnderWay(wire, u) => UnderWay(wire', u)
  BY <1>1, CoversTail
<1>11. \A u : \A k \in 1..Len(wire') :
         ~Covers(wire[1], u) => (NoneBefore(wire', k, u) <=> NoneBefore(wire, k + 1, u))
  BY <1>1, CoversTail
<1>15. \A q : \A k \in 1..Len(wire') : Ahead(wire', k, q) <=> Ahead(wire, k + 1, q)
  BY <1>1, <1>8, AheadTail
<1>12. MandatoryInv'
  <2>1. \A u \in mandatoryTags' : \E q \in Mandatory : tagOf'[q] = u
    BY <1>1, <1>3, <1>6, <1>7 DEF MandatoryInv
  <2>2. ASSUME NEW q \in Mandatory, tagOf'[q] # 0
        PROVE  tagOf'[q] \in mandatoryTags' \/ q \in Answered' \/ q \in returns'
    <3>0. q \in Publishers
      BY DEF ConfirmAssumption
    <3>1. tagOf[q] \in Tags
      BY <1>1, <2>2, <3>0 DEF TypeOK
    <3>2. CASE Covers(wire[1], tagOf[q])
      BY <1>1, <1>3, <1>4, <1>5, <2>2, <3>0, <3>2 DEF WayInv
    <3>3. CASE ~Covers(wire[1], tagOf[q])
      BY <1>1, <1>3, <1>4, <1>6, <2>2, <3>1, <3>3 DEF MandatoryInv
    <3> QED
      BY <3>2, <3>3
  <2>3. ASSUME NEW q \in Answered', tagOf'[q] \in mandatoryTags'
        PROVE  UnderWay(wire', tagOf'[q])
    <3>1. tagOf[q] \in mandatoryTags /\ ~Covers(wire[1], tagOf[q])
      BY <1>1, <1>6, <1>7, <2>3
    <3>2. UnderWay(wire, tagOf[q])
      BY <1>3, <1>4, <2>3, <3>1 DEF MandatoryInv
    <3> QED
      BY <1>1, <1>10, <3>1, <3>2
  <2>4. \A u \in returned' : \E q \in unroutable' : tagOf'[q] = u
    BY <1>1, <1>3 DEF MandatoryInv
  <2> QED
    BY <2>1, <2>2, <2>3, <2>4 DEF MandatoryInv
<1>13. \A q \in returns' :
         /\ phase'[q] = "confirm" => tagOf'[q] \in returned' \/ Returning(wire', q)
         /\ tagOf'[q] \in mandatoryTags' => Returning(wire', q)
  BY <1>1, <1>3, <1>4, <1>6, <1>7, <1>9, ReturnInvIs
<1>14. ASSUME NEW k \in 1..Len(wire'), NEW q \in Publishers, ReturnOf(wire'[k], q)
       PROVE  InTurn(wire', k, q, tagOf', mandatoryTags', returns', confirm')
  <2>1. k + 1 \in 1..Len(wire) /\ ReturnOf(wire[k + 1], q)
    BY <1>3, <1>5, <1>14
  <2>2. InTurn(wire, k + 1, q, tagOf, mandatoryTags, returns, confirm)
    BY <1>3, <2>1, ReturnInvIs
  <2>3. ~Covers(wire[1], tagOf[q])
    <3>1. 1 \in 1..((k + 1) - 1)
      BY <1>5
    <3> QED
      BY <2>2, <3>1 DEF InTurn, NoneBefore
  <2>4. tagOf[q] \in mandatoryTags' /\ confirm'[q] = confirm[q]
    BY <1>6, <1>7, <2>2, <2>3 DEF InTurn
  <2>5. NoneBefore(wire', k, tagOf[q])
    BY <1>11, <2>2, <2>3 DEF InTurn
  <2>6. \A j \in 1..Len(wire') : ReturnOf(wire'[j], q) => j + 1 = k + 1
    BY <1>3, <1>5, <2>2 DEF InTurn
  <2>7. \A j \in 1..Len(wire') : ReturnOf(wire'[j], q) => j = k
    BY <2>6
  <2>8. ASSUME NEW x \in Publishers, tagOf[x] \in mandatoryTags', tagOf[x] < tagOf[q]
        PROVE  ~NoneBefore(wire', k, tagOf[x]) \/ Ahead(wire', k, x)
    <3>1. tagOf[x] \in mandatoryTags /\ ~Covers(wire[1], tagOf[x])
      BY <1>6, <1>7, <2>8
    <3> QED
      BY <1>11, <1>15, <2>2, <2>8, <3>1 DEF InTurn
  <2>9. InTurn(wire', k, q, tagOf, mandatoryTags', returns, confirm')
    BY <2>2, <2>4, <2>5, <2>7, <2>8 DEF InTurn
  <2> QED
    BY <1>1, <1>3, <2>9
<1> QED
  BY <1>12, <1>13, <1>14, ReturnInvIs

LEMMA ReturnsNext ==
  ASSUME ConfirmAssumption, TrackerInv, BrokerInv, NumberInv, LearnedInv, WayInv,
         MandatoryInv, ReturnInv, [Next]_vars, Traceable'
  PROVE  MandatoryInv' /\ ReturnInv'
<1> USE DEF TrackerInv
<1>1. CASE lost'
  BY <1>1 DEF MandatoryInv, ReturnInv
<1>2. CASE ~lost'
  <2>1. ~Loss
    BY <1>2 DEF Loss
  <2>2. ~lost
    BY <1>2, LostNext
  <2>3. ASSUME NEW p \in Publishers, PublishUnconfirmed(p)
        PROVE  MandatoryInv' /\ ReturnInv'
    <3>1. /\ UNCHANGED brokerVars \/ Received(p)
          /\ \E how : Ends(p, how)
          /\ UNCHANGED <<trackerVars, returnVars, wire>>
      BY <2>3 DEF PublishUnconfirmed
    <3>2. unroutable \subseteq unroutable' /\ UNCHANGED <<returns, acked, nacked>>
      BY <3>1, ReceivedEffect DEF brokerVars
    <3>3. \A q \in Publishers : phase'[q] = "confirm" => phase[q] = "confirm"
      BY <3>1 DEF Ends, TypeOK
    <3> QED
      BY <2>2, <3>1, <3>2, <3>3, ReturnsSame DEF trackerVars, returnVars
  <2>4. ASSUME NEW p \in Publishers, BeginSelect(p)
        PROVE  MandatoryInv' /\ ReturnInv'
    <3>1. /\ wire' = Append(wire, [kind |-> "select-ok"])
          /\ phase' = [phase EXCEPT ![p] = "select"]
          /\ UNCHANGED <<confirm, tagOf, mandatoryTags, returned, acked, nacked,
                         returns, unroutable>>
      BY <2>2, <2>4 DEF BeginSelect, trackerVars, returnVars
    <3>2. \A q \in Publishers : phase'[q] = "confirm" => phase[q] = "confirm"
      BY <3>1 DEF TypeOK
    <3> QED
      BY <2>2, <3>1, <3>2, ReturnsSame
  <2>5. ASSUME NEW p \in Publishers, SelectFails(p) \/ Cancel(p)
        PROVE  MandatoryInv' /\ ReturnInv'
    <3>1. /\ wire' = wire
          /\ phase' = [phase EXCEPT ![p] = "done"]
          /\ UNCHANGED <<tagOf, mandatoryTags, returned, acked, nacked,
                         returns, unroutable>>
      BY <2>5 DEF SelectFails, Cancel, Ends, trackerVars, returnVars, brokerVars
    <3>2. \A q \in Publishers : phase'[q] = "confirm" => phase[q] = "confirm"
      BY <3>1 DEF TypeOK
    <3>3. \A q \in Publishers : confirm'[q] \in {"ok", "nack"} => confirm[q] \in {"ok", "nack"}
      BY <2>5 DEF SelectFails, Cancel, trackerVars, TypeOK
    <3> QED
      BY <2>2, <3>1, <3>2, <3>3, ReturnsSame
  <2>6. ASSUME NEW p \in Publishers, Confirmed(p)
        PROVE  MandatoryInv' /\ ReturnInv'
    <3>1. /\ wire' = wire
          /\ phase[p] = "confirm" /\ phase' = [phase EXCEPT ![p] = "done"]
          /\ returned' = returned \/ returned' = returned \ {tagOf[p]}
          /\ UNCHANGED <<confirm, tagOf, mandatoryTags, acked, nacked,
                         returns, unroutable>>
      BY <2>6 DEF Confirmed, Ends, trackerVars, brokerVars
    <3>2. ASSUME NEW q \in Publishers, phase'[q] = "confirm"
          PROVE  phase[q] = "confirm" /\ (tagOf[q] \in returned => tagOf[q] \in returned')
      <4>1. q # p /\ phase[q] = "confirm"
        BY <3>1, <3>2 DEF TypeOK
      <4>2. tagOf[q] \in returned => tagOf[q] # tagOf[p]
        <5>1. tagOf[q] \in returned => tagOf[q] # 0
          BY DEF TypeOK, Tags
        <5> QED
          BY <4>1, <5>1 DEF TagInv
      <4> QED
        BY <3>1, <4>1, <4>2
    <3> QED
      BY <2>2, <3>1, <3>2, ReturnsSame
  <2>7. CASE OnSelectOk
    <3>1. /\ Reads({"select-ok"})
          /\ UNCHANGED <<phase, confirm, tagOf, mandatoryTags, returned, acked, nacked,
                         returns, unroutable>>
      BY <2>7 DEF OnSelectOk, Reads, callVars, trackerVars, returnVars, brokerVars
    <3> QED
      BY <2>2, <3>1, ReturnsSame
  <2>8. CASE UNCHANGED vars
    <3>1. UNCHANGED <<phase, confirm, tagOf, mandatoryTags, returned, acked, nacked,
                      returns, unroutable, wire>>
      BY <2>8 DEF vars, clientVars, callVars, trackerVars, returnVars, brokerVars
    <3> QED
      BY <2>2, <3>1, ReturnsSame
  <2>9. ASSUME NEW p \in Publishers, Return(p)
        PROVE  MandatoryInv' /\ ReturnInv'
    <3>1. p \in returns' /\ tagOf' = tagOf
      BY <2>9 DEF Return, clientVars, trackerVars
    <3>2. ~crossed' /\ tagOf[p] # 0
      BY <3>1, TraceableNext
    <3> QED
      BY <2>9, <3>2, ReturnsReturn
  <2> QED
    BY <2>1, <2>2, <2>3, <2>4, <2>5, <2>6, <2>7, <2>8, <2>9, ReturnsRegisters,
       ReturnsAnswer, ReturnsOnReturn, ReturnsOnConfirm
       DEF Next, Publisher, Broker, ReadLoop
<1> QED
  BY <1>1, <1>2 DEF TypeOK

LEMMA AttributedNext ==
  ASSUME ConfirmAssumption, TrackerInv, BrokerInv, LearnedInv, LossInv,
         MandatoryInv, ReturnInv, Attributed, [Next]_vars
  PROVE  Attributed'
<1> USE DEF TrackerInv
<1> DEFINE Others(p) ==
             \A q \in Publishers \ {p} :
               outcome'[q] = outcome[q] /\ (q \in unroutable' <=> q \in unroutable)
<1>0. Mandatory \subseteq Publishers
  BY DEF ConfirmAssumption
<1>9. dropped \subseteq dropped'
  <2>1. ASSUME ~Loss
        PROVE  dropped' = dropped
    BY <2>1 DEF Next, vars, Publisher, Publish, PublishUnconfirmed, BeginSelect, Selected,
                SelectFails, Confirmed, Cancel, Broker, Return, Answer, ReadLoop,
                OnSelectOk, OnReturn, OnConfirm, Reads
  <2>2. Loss => dropped = {}
    BY DEF Loss, LossInv
  <2> QED
    BY <2>1, <2>2
<1>1. ASSUME NEW p \in Publishers, Others(p), outcome'[p] \notin {"ok", "returned"}
      PROVE  Attributed'
  BY <1>0, <1>1, <1>9 DEF Attributed
<1>2. ASSUME UNCHANGED <<outcome, unroutable>>
      PROVE  Attributed'
  BY <1>2, <1>9 DEF Attributed
<1>3. ASSUME NEW p \in Publishers, Publish(p) \/ Selected(p)
      PROVE  Attributed'
  <2>1. Early(p) /\ Registers(p)
    BY <1>3, NextTagTaken
  <2>2. outcome'[p] \in {"none", "raw"}
    BY <2>1, RegistersEffect DEF TagInv, TypeOK
  <2>3. unroutable' = unroutable \/ unroutable' = unroutable \cup {p}
    BY <2>1, RegistersEffect
  <2>4. Others(p)
    BY <2>1, <2>3, RegistersPhase
  <2> QED
    BY <1>1, <2>2, <2>4
<1>4. ASSUME NEW p \in Publishers, PublishUnconfirmed(p)
      PROVE  Attributed'
  <2>1. /\ UNCHANGED brokerVars \/ Received(p)
        /\ \E how \in {"written", "raw"} : Ends(p, how)
    BY <1>4 DEF PublishUnconfirmed
  <2>2. unroutable' = unroutable \/ unroutable' = unroutable \cup {p}
    BY <2>1, ReceivedEffect DEF brokerVars
  <2>3. \E how \in {"written", "raw"} : outcome' = [outcome EXCEPT ![p] = how]
    BY <2>1 DEF Ends
  <2>4. Others(p) /\ outcome'[p] \in {"written", "raw"}
    BY <2>2, <2>3 DEF TypeOK
  <2> QED
    BY <1>1, <2>4
<1>5. ASSUME NEW p \in Publishers, SelectFails(p) \/ Cancel(p)
      PROVE  Attributed'
  <2>1. \E how \in {"lost", "timeout", "cancelled"} :
          outcome' = [outcome EXCEPT ![p] = how]
    BY <1>5 DEF SelectFails, Cancel, Ends
  <2>2. unroutable' = unroutable
    BY <1>5 DEF SelectFails, Cancel, brokerVars
  <2> QED
    BY <1>1, <2>1, <2>2 DEF TypeOK
<1>6. ASSUME NEW p \in Publishers, Confirmed(p)
      PROVE  Attributed'
  <2>1. phase[p] = "confirm" /\ unroutable' = unroutable
    BY <1>6 DEF Confirmed, brokerVars
  <2>2. CASE confirm[p] = "ok" /\ p \in Mandatory /\ tagOf[p] \in returned
    <3>1. outcome' = [outcome EXCEPT ![p] = "returned"]
      BY <1>6, <2>2 DEF Confirmed, Ends
    <3>2. ~lost
      BY <2>2 DEF LossInv
    <3>3. PICK q \in unroutable : tagOf[q] = tagOf[p]
      BY <2>2, <3>2 DEF MandatoryInv
    <3>4. p \in unroutable
      BY <2>2, <3>3 DEF TagInv, TypeOK, Tags
    <3> QED
      BY <1>0, <1>9, <2>1, <3>1, <3>4 DEF Attributed, TypeOK
  <2>3. CASE confirm[p] = "ok" /\ p \in Mandatory /\ tagOf[p] \notin returned
    <3>1. outcome' = [outcome EXCEPT ![p] = "ok"]
      BY <1>6, <2>3 DEF Confirmed, Ends
    <3>2. CASE lost
      <4>1. p \in unroutable => p \in dropped'
        BY <1>9, <2>1, <2>3, <3>2 DEF LossInv
      <4> QED
        BY <1>0, <1>9, <2>1, <3>1, <4>1 DEF Attributed, TypeOK
    <3>3. CASE ~lost
      <4>1. SUFFICES ASSUME p \in unroutable PROVE FALSE
        BY <1>0, <1>9, <2>1, <3>1 DEF Attributed, TypeOK
      <4>2. p \in returns
        BY <2>3, <4>1 DEF LearnedInv, BrokerInv, Answered
      <4>3. Returning(wire, p)
        BY <2>1, <2>3, <3>3, <4>2 DEF ReturnInv
      <4>4. PICK k \in 1..Len(wire) : ReturnOf(wire[k], p)
        BY <4>3 DEF Returning
      <4> QED
        BY <2>3, <3>3, <4>4 DEF ReturnInv
    <3> QED
      BY <3>2, <3>3
  <2>4. CASE confirm[p] # "ok"
    <3>1. outcome' = [outcome EXCEPT ![p] = confirm[p]] /\ confirm[p] \in {"nack", "lost"}
      BY <1>6, <2>4 DEF Confirmed, Ends, Answers
    <3> QED
      BY <1>1, <2>1, <3>1 DEF TypeOK
  <2>5. CASE confirm[p] = "ok" /\ p \notin Mandatory
    <3>1. outcome' = [outcome EXCEPT ![p] = "ok"]
      BY <1>6, <2>5 DEF Confirmed, Ends
    <3> QED
      BY <1>0, <1>9, <2>1, <2>5, <3>1 DEF Attributed, TypeOK
  <2> QED
    BY <2>2, <2>3, <2>4, <2>5
<1>7. ASSUME NEW p \in Publishers, BeginSelect(p)
      PROVE  Attributed'
  BY <1>2, <1>7 DEF BeginSelect
<1>8. CASE Broker \/ ReadLoop \/ Loss \/ UNCHANGED vars
  <2>1. UNCHANGED <<outcome, unroutable>>
    BY <1>8 DEF Broker, Return, Answer, ReadLoop, OnSelectOk, OnReturn, OnConfirm, Reads,
                Loss, vars, clientVars, callVars, brokerVars
  <2> QED
    BY <1>2, <2>1
<1> QED
  BY <1>3, <1>4, <1>5, <1>6, <1>7, <1>8 DEF Next, Publisher

LEMMA ReturnsInit ==
  ASSUME Init
  PROVE  LossInv /\ MandatoryInv /\ ReturnInv /\ Attributed
<1>1. /\ wire = << >> /\ Len(wire) = 0 /\ 1..Len(wire) = {} /\ Answered = {}
      /\ mandatoryTags = {} /\ returned = {} /\ returns = {} /\ unroutable = {}
  BY DEF Init, Answered
<1>2. \A p \in Publishers : outcome[p] = "none" /\ tagOf[p] = 0
  BY DEF Init
<1>3. LossInv
  BY DEF LossInv, Init
<1>4. MandatoryInv
  <2>1. \A p \in Mandatory : p \in Publishers
    BY ConfirmAssumption DEF ConfirmAssumption
  <2> QED
    BY <1>1, <1>2, <2>1 DEF MandatoryInv
<1>5. ReturnInv
  BY <1>1 DEF ReturnInv
<1>6. Attributed
  BY <1>2, ConfirmAssumption DEF Attributed, ConfirmAssumption
<1> QED
  BY <1>3, <1>4, <1>5, <1>6

Traced == Traceable => LossInv /\ MandatoryInv /\ ReturnInv /\ Attributed

LEMMA TracedNext ==
  ASSUME ConfirmAssumption, TrackerInv, BrokerInv, NumberedAlike, AnsweredAlike,
         Traced, [Next]_vars
  PROVE  Traced'
<1>1. SUFFICES ASSUME Traceable'
               PROVE  LossInv' /\ MandatoryInv' /\ ReturnInv' /\ Attributed'
  BY DEF Traced
<1>2. Traceable /\ ~Skewed
  BY <1>1, TraceableNext
<1>3. NumberInv /\ LearnedInv /\ WayInv /\ LossInv /\ MandatoryInv /\ ReturnInv /\ Attributed
  BY <1>2 DEF NumberedAlike, AnsweredAlike, Traced
<1>4. LossInv'
  BY <1>3, LossNext
<1>5. MandatoryInv' /\ ReturnInv'
  BY <1>1, <1>3, ReturnsNext
<1>6. Attributed'
  BY <1>3, AttributedNext
<1> QED
  BY <1>4, <1>5, <1>6

\* A mandatory publish that returns was routed, and PublishReturned is raised
\* for the publish that was not, as long as returns can be traced: the oldest
\* mandatory tag is that of the message that came back, and only a loss read
\* with the confirm makes the client forget it.
THEOREM OwnReturn == Spec => []ReturnIsOwn
<1>1. Init => Traced
  BY ReturnsInit DEF Traced
<1>2. TrackerInv /\ BrokerInv /\ NumberedAlike /\ AnsweredAlike /\ Traced /\ [Next]_vars
        => Traced'
  BY ConfirmAssumption, TracedNext
<1>3. Traced => ReturnIsOwn
  BY DEF Traced, Attributed, ReturnIsOwn
<1> QED
  BY <1>1, <1>2, <1>3, Tracker, BrokerSays, Numbering, BrokersAnswers, PTL DEF Spec

=============================================================================
