------------------------------ MODULE Confirm ------------------------------
(***************************************************************************)
(* Publishes on one channel of an AmqpConnection: basic_publish with the   *)
(* confirm.select it may begin with, the ConfirmTracker that numbers the   *)
(* publishes as the broker does, and the read loop's handling of           *)
(* confirm.select-ok, basic.return, basic.ack and basic.nack.              *)
(*                                                                         *)
(* Each publisher makes one call.  The read loop handles all the frames of *)
(* a chunk before another task runs; chunk says that it may still be       *)
(* inside one.                                                             *)
(***************************************************************************)
EXTENDS Naturals, Sequences, FiniteSets

CONSTANTS
  Publishers,          \* calls of basic_publish
  Nobody,
  Durable,             \* calls with a durable profile or confirm=True
  Unconfirmed,         \* calls that may say confirm=False, durable or not
  Mandatory,           \* calls with mandatory=True
  Malformed,           \* calls whose routing key does not encode
  Cancellable,         \* calls whose task may be cancelled
  Coalesced,           \* a loss may be read in one chunk with earlier frames
  AfterLoss            \* calls are also made on the connection that is lost

ASSUME ConfirmAssumption ==
  /\ IsFiniteSet(Publishers) /\ Nobody \notin Publishers
  /\ Durable \subseteq Publishers
  /\ Unconfirmed \subseteq Publishers
  /\ Mandatory \subseteq Publishers
  /\ Malformed \subseteq Publishers
  /\ Cancellable \subseteq Publishers
  /\ Coalesced \in BOOLEAN /\ AfterLoss \in BOOLEAN

Tags == 1..Cardinality(Publishers)
Answers == {"ok", "nack", "lost"}

VARIABLES
  phase,         \* phase[p]: "idle", "select", "confirm" or "done"
  outcome,       \* outcome[p]: what basic_publish came to
  selected,      \* selected[p]: the future p awaits in confirm_select
  waiter,        \* whose future _waiters holds for confirm.select-ok
  enabled,       \* ConfirmTracker.enabled
  nextTag,       \* ConfirmTracker.next_tag
  outstanding,   \* ConfirmTracker.outstanding: tag -> publisher
  confirm,       \* confirm[p]: the future p awaits in basic_publish
  tagOf,         \* tagOf[p]: p's delivery tag, 0 if it has none
  mandatoryTags, \* _mandatory_tags of the channel: tags are registered in
                 \* ascending order, so the oldest is the least
  returned,      \* keys of _return_by_tag of the channel
  chunk,         \* the read loop may have more frames of this chunk
  lost,          \* _lost_exc is set
  wire,          \* frames from the broker, not yet read
  numbering,     \* the broker has seen confirm.select
  numbered,      \* messages in the order the broker numbers them
  unroutable,    \* messages the broker has to return
  returns,       \* messages the broker has returned
  acked, nacked, \* messages the broker has confirmed
  crossed,       \* a basic.return has overtaken another message's answer
  dropped        \* publishes whose noted return a loss has thrown away

callVars == <<phase, outcome>>
selectVars == <<selected, waiter, enabled>>
trackerVars == <<nextTag, outstanding, confirm, tagOf>>
returnVars == <<mandatoryTags, returned>>
brokerVars ==
  <<numbering, numbered, unroutable, returns, acked, nacked, crossed>>
clientVars == <<callVars, selectVars, trackerVars, returnVars>>
vars == <<clientVars, chunk, lost, dropped, wire, brokerVars>>

Frames ==
  [kind : {"select-ok"}]
    \cup [kind : {"return"}, of : Publishers]
    \cup [kind : {"ack", "nack"}, tag : Tags, multiple : BOOLEAN]

TypeOK ==
  /\ phase \in [Publishers -> {"idle", "select", "confirm", "done"}]
  /\ outcome \in [Publishers -> {"none", "written", "ok", "nack",
                                 "returned", "lost", "timeout", "raw",
                                 "cancelled"}]
  /\ selected \in [Publishers -> {"none", "pending", "ok", "lost"}]
  /\ waiter \in Publishers \cup {Nobody}
  /\ enabled \in BOOLEAN
  /\ nextTag \in Nat \ {0}
  /\ outstanding \in [Tags -> Publishers \cup {Nobody}]
  /\ confirm \in [Publishers -> {"none", "pending", "cancelled"} \cup Answers]
  /\ tagOf \in [Publishers -> {0} \cup Tags]
  /\ mandatoryTags \subseteq Tags
  /\ returned \subseteq Tags
  /\ chunk \in BOOLEAN
  /\ lost \in BOOLEAN
  /\ wire \in Seq(Frames)
  /\ numbering \in BOOLEAN
  /\ numbered \in Seq(Publishers)
  /\ unroutable \subseteq Publishers
  /\ returns \subseteq Publishers
  /\ acked \subseteq Publishers
  /\ nacked \subseteq Publishers
  /\ crossed \in BOOLEAN
  /\ dropped \subseteq Publishers

\* A channel that is open and not in confirm mode.
Init ==
  /\ phase = [p \in Publishers |-> "idle"]
  /\ outcome = [p \in Publishers |-> "none"]
  /\ selected = [p \in Publishers |-> "none"]
  /\ waiter = Nobody
  /\ enabled = FALSE
  /\ nextTag = 1
  /\ outstanding = [t \in Tags |-> Nobody]
  /\ confirm = [p \in Publishers |-> "none"]
  /\ tagOf = [p \in Publishers |-> 0]
  /\ mandatoryTags = {} /\ returned = {}
  /\ chunk = FALSE /\ lost = FALSE
  /\ wire = <<>>
  /\ numbering = FALSE /\ numbered = <<>>
  /\ unroutable = {} /\ returns = {}
  /\ acked = {} /\ nacked = {}
  /\ crossed = FALSE /\ dropped = {}

-----------------------------------------------------------------------------
(* basic_publish *)

Ends(p, how) ==
  /\ phase' = [phase EXCEPT ![p] = "done"]
  /\ outcome' = [outcome EXCEPT ![p] = how]

\* The broker takes the message; a mandatory one may have no queue to go to.
Received(p) ==
  IF lost
  THEN UNCHANGED brokerVars
  ELSE /\ numbered' = IF numbering THEN Append(numbered, p) ELSE numbered
       /\ \/ UNCHANGED unroutable
          \/ p \in Mandatory /\ unroutable' = unroutable \cup {p}
       /\ UNCHANGED <<numbering, returns, acked, nacked, crossed>>

\* Operators named "...Bug" are faulty variants of the operator that follows
\* them; the mutation runs put them in its place.
FollowingBug(tag) == tag + 2

Following(tag) == tag + 1

\* ConfirmTracker.register under tag t, then the frames and the wait.  Frames
\* that do not encode raise with the tag already registered.
PublishAs(p, t) ==
  /\ nextTag' = Following(t)
  /\ outstanding' = [outstanding EXCEPT ![t] = p]
  /\ tagOf' = [tagOf EXCEPT ![p] = t]
  /\ mandatoryTags' = IF p \in Mandatory THEN mandatoryTags \cup {t}
                      ELSE mandatoryTags
  /\ confirm' = [confirm EXCEPT ![p] = "pending"]
  /\ IF p \in Malformed
     THEN Ends(p, "raw") /\ UNCHANGED brokerVars
     ELSE /\ phase' = [phase EXCEPT ![p] = "confirm"]
          /\ UNCHANGED outcome
          /\ Received(p)

Begins(p) == phase[p] = "idle" /\ (lost => AfterLoss)

\* A confirm is wanted and the channel is in confirm mode, which also decides
\* for a call that leaves confirm open: register, write, await the confirm.
Publish(p) ==
  /\ Begins(p) /\ enabled
  /\ PublishAs(p, nextTag)
  /\ chunk' = FALSE
  /\ UNCHANGED <<selectVars, returned, lost, dropped, wire>>

\* confirm=False, or neither a durable profile nor confirm mode: no tag, and
\* nothing is awaited.  A channel in confirm mode numbers the message.
PublishUnconfirmed(p) ==
  /\ Begins(p)
  /\ p \in Unconfirmed \/ (p \notin Durable /\ ~enabled)
  /\ IF p \in Malformed
     THEN Ends(p, "raw") /\ UNCHANGED brokerVars
     ELSE Ends(p, "written") /\ Received(p)
  /\ chunk' = FALSE
  /\ UNCHANGED <<selectVars, trackerVars, returnVars, lost, dropped, wire>>

\* confirm_select: one future per awaited method, the latest in its place.
BeginSelect(p) ==
  /\ Begins(p) /\ ~enabled /\ p \in Durable
  /\ phase' = [phase EXCEPT ![p] = "select"]
  /\ selected' = [selected EXCEPT ![p] = "pending"]
  /\ waiter' = p
  /\ numbering' = (numbering \/ ~lost)
  /\ wire' = IF lost THEN wire ELSE Append(wire, [kind |-> "select-ok"])
  /\ chunk' = FALSE
  /\ UNCHANGED <<outcome, enabled, trackerVars, returnVars, lost, dropped,
                 numbered, unroutable, returns, acked, nacked, crossed>>

SelectedBug(p) ==
  /\ phase[p] = "select" /\ selected[p] = "ok"
  /\ enabled' = TRUE
  /\ PublishAs(p, 1)
  /\ chunk' = FALSE
  /\ UNCHANGED <<selected, waiter, returned, lost, dropped, wire>>

\* select-ok: _expect clears the waiter's place, whoever is in it by now;
\* enable() begins at tag 1; the publish follows.
Selected(p) ==
  /\ phase[p] = "select" /\ selected[p] = "ok"
  /\ waiter' = Nobody
  /\ enabled' = TRUE
  /\ PublishAs(p, 1)
  /\ chunk' = FALSE
  /\ UNCHANGED <<selected, returned, lost, dropped, wire>>

\* The loss fails the awaited future, or 10 s pass without select-ok.
SelectFails(p) ==
  /\ phase[p] = "select"
  /\ \/ selected[p] = "lost" /\ Ends(p, "lost")
     \/ selected[p] = "pending" /\ Ends(p, "timeout")
  /\ waiter' = Nobody
  /\ selected' = [selected EXCEPT ![p] = "none"]
  /\ chunk' = FALSE
  /\ UNCHANGED <<enabled, trackerVars, returnVars, lost, dropped, wire,
                 brokerVars>>

\* The confirm is in: a return noted under this tag turns it into an error.
Confirmed(p) ==
  /\ phase[p] = "confirm" /\ confirm[p] \in Answers
  /\ IF confirm[p] = "ok" /\ p \in Mandatory /\ tagOf[p] \in returned
     THEN Ends(p, "returned") /\ returned' = returned \ {tagOf[p]}
     ELSE Ends(p, confirm[p]) /\ UNCHANGED returned
  /\ chunk' = FALSE
  /\ UNCHANGED <<selectVars, trackerVars, mandatoryTags, lost, dropped, wire,
                 brokerVars>>

\* The task is cancelled.  The tracker keeps its future, cancelled.
Cancel(p) ==
  /\ p \in Cancellable
  /\ phase[p] \in {"select", "confirm"}
  /\ Ends(p, "cancelled")
  /\ waiter' = IF phase[p] = "select" THEN Nobody ELSE waiter
  /\ selected' = [selected EXCEPT ![p] = "none"]
  /\ confirm' = [confirm EXCEPT ![p] = IF @ = "pending" THEN "cancelled" ELSE @]
  /\ chunk' = FALSE
  /\ UNCHANGED <<enabled, nextTag, outstanding, tagOf, returnVars, lost,
                 dropped, wire, brokerVars>>

Publisher(p) ==
  \/ Publish(p) \/ PublishUnconfirmed(p) \/ BeginSelect(p) \/ Selected(p)
  \/ SelectFails(p) \/ Confirmed(p) \/ Cancel(p)

-----------------------------------------------------------------------------
(* The broker. *)

Unanswered ==
  {i \in 1..Len(numbered) : numbered[i] \notin acked \cup nacked}

\* Before p there is a mandatory message the broker has yet to answer or
\* return.
Overtakes(p) ==
  \E i, j \in 1..Len(numbered) :
    /\ numbered[j] = p /\ i < j
    /\ numbered[i] \in Mandatory \ (returns \cup acked \cup nacked)

\* basic.return of an unroutable mandatory message, ahead of its confirm and
\* in no order with the confirms of other messages.
Return(p) ==
  /\ ~lost
  /\ p \in unroutable \ returns
  /\ crossed' = (crossed \/ Overtakes(p))
  /\ returns' = returns \cup {p}
  /\ wire' = Append(wire, [kind |-> "return", of |-> p])
  /\ UNCHANGED <<clientVars, chunk, lost, dropped, numbering, numbered,
                 unroutable, acked, nacked>>

\* basic.ack or basic.nack of one message, or of all it has not answered up
\* to that one.
Answer(i, kind, multiple) ==
  LET covered == IF multiple THEN {j \in Unanswered : j <= i} ELSE {i}
      messages == {numbered[j] : j \in covered}
  IN  /\ ~lost
      /\ i \in Unanswered
      /\ messages \cap unroutable \subseteq returns
      /\ acked' = IF kind = "ack" THEN acked \cup messages ELSE acked
      /\ nacked' = IF kind = "nack" THEN nacked \cup messages ELSE nacked
      /\ wire' = Append(wire, [kind |-> kind, tag |-> i, multiple |-> multiple])
      /\ UNCHANGED <<clientVars, chunk, lost, dropped, numbering, numbered,
                     unroutable, returns, crossed>>

Broker ==
  \/ \E p \in Publishers : Return(p)
  \/ \E i \in Unanswered, kind \in {"ack", "nack"}, multiple \in BOOLEAN :
       Answer(i, kind, multiple)

-----------------------------------------------------------------------------
(* The read loop. *)

\* A publisher's awaited future is done; its task runs before the next chunk.
Woken(p) ==
  \/ phase[p] = "select" /\ selected[p] \in {"ok", "lost"}
  \/ phase[p] = "confirm" /\ confirm[p] \in Answers

NoneWoken == \A p \in Publishers : ~Woken(p)

\* The read loop takes the next frame, which is of this kind.
Reads(kinds) ==
  /\ ~lost /\ wire # <<>>
  /\ chunk \/ NoneWoken
  /\ Head(wire).kind \in kinds
  /\ wire' = Tail(wire)
  /\ chunk' = TRUE
  /\ UNCHANGED <<callVars, lost, dropped, brokerVars>>

OnSelectOk ==
  /\ Reads({"select-ok"})
  /\ selected' = [p \in Publishers |->
                    IF p = waiter /\ selected[p] = "pending" THEN "ok"
                    ELSE selected[p]]
  /\ UNCHANGED <<waiter, enabled, trackerVars, returnVars>>

\* _finish_return: the oldest mandatory tag takes the return.
OnReturn ==
  /\ Reads({"return"})
  /\ \/ mandatoryTags = {} /\ UNCHANGED returnVars
     \/ \E t \in mandatoryTags :
          /\ \A u \in mandatoryTags : t <= u
          /\ mandatoryTags' = mandatoryTags \ {t}
          /\ returned' = returned \cup {t}
  /\ UNCHANGED <<selectVars, trackerVars>>

CoveredBug(tag, multiple) ==
  {t \in Tags : /\ outstanding[t] # Nobody
                /\ (IF multiple THEN t >= tag ELSE t = tag)}

\* The tags a confirm resolves.
Covered(tag, multiple) ==
  {t \in Tags : /\ outstanding[t] # Nobody
                /\ (IF multiple THEN t <= tag ELSE t = tag)}

KeepsTagBug(t, tag, multiple) == multiple => t > tag

\* _clear_mandatory_tags
KeepsTag(t, tag, multiple) == IF multiple THEN t > tag ELSE t # tag

\* basic.ack and basic.nack: _clear_mandatory_tags, then on_ack or on_nack.
\* A channel that is not in confirm mode ignores them.
OnConfirm ==
  /\ Reads({"ack", "nack"})
  /\ LET f == Head(wire)
         tags == Covered(f.tag, f.multiple)
         owners == {outstanding[t] : t \in tags}
     IN  IF enabled
         THEN /\ mandatoryTags' = {t \in mandatoryTags :
                                    KeepsTag(t, f.tag, f.multiple)}
              /\ outstanding' = [t \in Tags |->
                                   IF t \in tags THEN Nobody ELSE outstanding[t]]
              /\ confirm' = [p \in Publishers |->
                               IF p \notin owners \/ confirm[p] # "pending"
                               THEN confirm[p]
                               ELSE IF f.kind = "ack" THEN "ok" ELSE "nack"]
         ELSE UNCHANGED <<mandatoryTags, outstanding, confirm>>
  /\ UNCHANGED <<selectVars, nextTag, tagOf, returned>>

FailAllBug == confirm

\* ConfirmTracker.fail_all
FailAll ==
  [p \in Publishers |->
     IF confirm[p] = "pending" /\ \E t \in Tags : outstanding[t] = p
     THEN "lost" ELSE confirm[p]]

\* _notify_loss: registered waiters and confirms fail, tags and noted returns
\* are dropped.
Loss ==
  /\ ~lost
  /\ NoneWoken \/ (Coalesced /\ chunk)
  /\ lost' = TRUE
  /\ selected' = [p \in Publishers |->
                    IF p = waiter /\ selected[p] = "pending" THEN "lost"
                    ELSE selected[p]]
  /\ confirm' = FailAll
  /\ outstanding' = [t \in Tags |-> Nobody]
  /\ mandatoryTags' = {} /\ returned' = {}
  /\ dropped' = {p \in Publishers : Woken(p) /\ tagOf[p] \in returned}
  /\ wire' = <<>>
  /\ chunk' = FALSE
  /\ UNCHANGED <<callVars, waiter, enabled, nextTag, tagOf, brokerVars>>

ReadLoop == OnSelectOk \/ OnReturn \/ OnConfirm

Next ==
  \/ \E p \in Publishers : Publisher(p)
  \/ Broker
  \/ ReadLoop
  \/ Loss

Spec == Init /\ [][Next]_vars

\* A publisher that is woken, or whose select timer fires, goes on; the broker
\* returns and confirms what it was sent; the read loop reads.  Nobody has to
\* publish, cancel or lose the connection.
Fairness ==
  /\ \A p \in Publishers :
       WF_vars(Selected(p) \/ SelectFails(p) \/ Confirmed(p))
  /\ WF_vars(Broker)
  /\ WF_vars(ReadLoop)

FairSpec == Spec /\ Fairness

-----------------------------------------------------------------------------
(* Properties. *)

\* Every confirm that is awaited sits in the tracker under its own tag:
\* however selects, timeouts, cancellations and losses interleave, no later
\* register() takes its place and enable() never restarts the numbering.
ConfirmTracked ==
  \A p \in Publishers :
    confirm[p] = "pending" => tagOf[p] # 0 /\ outstanding[tagOf[p]] = p

\* The broker has numbered a message that the tracker has no tag for, or the
\* tracker has given a tag to a publish that never reached the broker.
Skewed ==
  \/ \E i \in 1..Len(numbered) : tagOf[numbered[i]] = 0
  \/ \E p \in Malformed : tagOf[p] # 0

\* Client and broker number the publishes alike until something skews them:
\* selects that overlap, time out or are cancelled do not, nor do losses.
TagsInStep ==
  ~Skewed =>
    \A p \in Publishers :
      ~lost /\ tagOf[p] # 0 =>
        tagOf[p] <= Len(numbered) /\ numbered[tagOf[p]] = p

\* basic_publish returns, or raises PublishNack or PublishReturned, only when
\* the broker has answered this very message so.
ConfirmedIsAnswered ==
  \A p \in Publishers :
    /\ outcome[p] \in {"ok", "returned"} => p \in acked
    /\ outcome[p] = "nack" => p \in nacked

\* As long as the numberings agree, a confirm, also one with multiple set or
\* out of order, is never taken for another publish's.
ConfirmIsOwn == ~Skewed => ConfirmedIsAnswered

\* The oldest mandatory tag is the returned message's: the numberings agree,
\* every message returned has a tag, and no return overtook an answer.
Traceable == ~Skewed /\ ~crossed /\ \A p \in returns : tagOf[p] # 0

\* A return that can be traced is raised by the publish it is of and by no
\* other; the one way past it is a loss in the same chunk as the confirm.
ReturnIsOwn ==
  Traceable =>
    \A p \in Mandatory :
      /\ outcome[p] = "ok" => p \notin unroutable \/ p \in dropped
      /\ outcome[p] = "returned" => p \in unroutable

\* p has registered since the loss was notified: nothing fails its confirm.
RegisteredLate(p) == lost /\ tagOf[p] # 0 /\ outstanding[tagOf[p]] = p

\* A publish ends, whatever it awaits when the connection is lost, unless it
\* registers only then, or the broker has answered its number to another.
PublishEnds ==
  \A p \in Publishers :
    phase[p] # "idle" ~> phase[p] = "done" \/ Skewed \/ RegisteredLate(p)
=============================================================================
