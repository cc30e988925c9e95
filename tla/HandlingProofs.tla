--------------------------- MODULE HandlingProofs ---------------------------
(***************************************************************************)
(* Theorems about Handling, for any sets of ids, methods, tokens,          *)
(* configurations and foreign messages.                                    *)
(*                                                                         *)
(* OnlyAuthorised follows from verify_request alone, whose loop over the   *)
(* algorithms is unfolded once (ClaimsAreVerified).  The two properties of *)
(* outcomes need an invariant that follows a request around: what carries  *)
(* a caller's reply_to is that caller's request (Sent), and every reply    *)
(* under way would be a true outcome if it were read (Replied).            *)
(***************************************************************************)
EXTENDS Handling, SequenceTheorems, WellFoundedInduction, TLAPS

-----------------------------------------------------------------------------
(* verify_request against what it stands for. *)

\* A loop that ends with claims has met a held key that verifies the token, and
\* the token has not expired.
LEMMA ClaimsAreVerified ==
  ASSUME NEW c, NEW token, LoopEnds(c, token, "claims")
  PROVE  Signed(c, token) /\ ~(token.exp <= now)
<1>1. PICK n \in 1..Len(c.algorithms) : Try(c, token, c.algorithms[n]) = "claims"
  BY DEF LoopEnds
<1>2. HasKey(c, c.algorithms[n]) /\ jwt_decode(token, c.algorithms[n]) = "claims"
  BY <1>1 DEF Try
<1>3. /\ token.alg = c.algorithms[n] /\ token.key = Genuine(c.algorithms[n])
      /\ ~(token.exp <= now)
  BY <1>2 DEF jwt_decode
<1> QED
  BY <1>2, <1>3 DEF Signed

\* The request that passes is public, or has all that MayRun asks for.
LEMMA PassedMayRun ==
  ASSUME NEW msg, Check(msg) = "claims"
  PROVE  MayRun(auth, msg)
<1>1. CASE auth = None
  BY <1>1 DEF MayRun
<1>2. CASE auth # None
  <2> DEFINE m == msg.body.method
             h == msg.headers
  <2>1. verify_request(auth, m, Id(msg), h) = "claims"
    BY <1>2 DEF Check
  <2>2. CASE m \in auth.public_methods
    BY <2>2 DEF MayRun
  <2>3. CASE m \notin auth.public_methods
    <3>1. /\ h.typ = "JWT" /\ h.token # None
          /\ LoopEnds(auth, h.token, "claims")
          /\ h.token.jti = Id(msg) /\ h.token.method = m
          /\ auth.authorize_func # "refuses"
      BY <2>1, <2>3 DEF verify_request
    <3> QED
      BY <3>1, ClaimsAreVerified DEF MayRun, Bound
  <2> QED
    BY <2>2, <2>3
<1> QED
  BY <1>1, <1>2

\* A handler starts only for a public method or an authorised request, whatever
\* the algorithms and keys, and however often the request comes back.
THEOREM Authorised == Spec => OnlyAuthorised
<1>1. ASSUME [Next]_vars, job' # job, job' # None
      PROVE  MayRun(auth, job')
  <2>1. CASE Begin
    BY <2>1, PassedMayRun DEF Begin
  <2>2. CASE UNCHANGED vars
    BY <1>1, <2>2 DEF vars
  <2>3. CASE Next /\ ~Begin
    BY <1>1, <2>3
    DEF Next, Server, Request, Republish, RequestTimeout, RequestReturns, Refuse,
        HandlerReturns, HandlerRefuses, HandlerFails, HandlerNacks, Ends,
        HandlerErrorUnencodable, Redeliver, SendForeign, AnswerForeign, Tick
  <2> QED
    BY <1>1, <2>1, <2>2, <2>3
<1>2. [Next]_vars => (job' # job /\ job' # None => MayRun(auth, job'))
  BY <1>1
<1> QED
  BY <1>2, PTL DEF Spec, OnlyAuthorised

-----------------------------------------------------------------------------
(* The loop over the algorithms, from the refused side. *)

\* A token that a held key verifies, with every claim there and a key for every
\* algorithm, ends the loop: as claims, or as expired.
LEMMA SignedEnds ==
  ASSUME NEW c \in Configs, c # None, NEW token, Signed(c, token),
         \A n \in 1..Len(c.algorithms) : HasKey(c, c.algorithms[n]),
         None \notin {token.exp, token.jti, token.method}
  PROVE  LoopEnds(c, token, "claims") \/ LoopEnds(c, token, "expired")
<1> DEFINE T == {n \in 1..Len(c.algorithms) : Try(c, token, c.algorithms[n]) # "invalid"}
<1>1. Len(c.algorithms) \in Nat
  BY ConfigsAssumption DEF ConfigsAssumption
<1>2. PICK n \in 1..Len(c.algorithms) :
        /\ HasKey(c, c.algorithms[n])
        /\ token.alg = c.algorithms[n] /\ token.key = Genuine(c.algorithms[n])
  BY DEF Signed
<1>3. n \in T
  BY <1>2 DEF Try, jwt_decode
<1>4. T \subseteq Nat
  BY <1>1
<1>5. PICK k \in T : \A j \in T : ~(<<j, k>> \in OpToRel(<, Nat))
  <2> HIDE DEF T
  <2> QED
    BY <1>3, <1>4, NatLessThanWellFounded, WFMin
<1>6. \A j \in 1..(k - 1) : Try(c, token, c.algorithms[j]) = "invalid"
  <2> TAKE j \in 1..(k - 1)
  <2>1. j \in Nat /\ k \in Nat /\ j < k /\ j \in 1..Len(c.algorithms)
    BY <1>1
  <2>2. <<j, k>> \in OpToRel(<, Nat)
    BY <2>1 DEF OpToRel
  <2> QED
    BY <1>5, <2>1, <2>2
<1>7. Try(c, token, c.algorithms[k]) \in {"claims", "expired"}
  BY <1>5 DEF Try, jwt_decode
<1> QED
  BY <1>5, <1>6, <1>7 DEF LoopEnds

\* A loop that ends as expired has met a held key that verifies the token.
LEMMA ExpiredIsSigned ==
  ASSUME NEW c, NEW token, LoopEnds(c, token, "expired")
  PROVE  Signed(c, token) /\ token.exp <= now /\ token.exp # None
<1>1. PICK n \in 1..Len(c.algorithms) : Try(c, token, c.algorithms[n]) = "expired"
  BY DEF LoopEnds
<1>2. HasKey(c, c.algorithms[n]) /\ jwt_decode(token, c.algorithms[n]) = "expired"
  BY <1>1 DEF Try
<1> QED
  BY <1>2 DEF Signed, jwt_decode

\* What RefusalIsTrue says of one call and one code.
Justified(msg, code) ==
  code \in Refusals =>
    /\ auth # None /\ msg.body.method \notin auth.public_methods
    /\ Reason(auth, msg, code)

\* A caller's own request that is checked gets its true reason.
LEMMA CheckIsJustified ==
  ASSUME auth \in Configs,
         NEW i \in Ids, NEW m \in Methods, NEW token \in Tokens[i][m],
         NEW msg, msg = Message(i, m, token)
  PROVE  Justified(msg, Code(Check(msg)))
<1> DEFINE h == msg.headers
<1>1. /\ msg.body = [jsonrpc |-> TRUE, method |-> m, id |-> i] /\ msg.corr = i
      /\ h = attach_claims_headers(token)
  BY DEF Message, encode_request
<1>2. i # None /\ m # None
  BY NamesAssumption DEF NamesAssumption
<1>3. h.token = token /\ (h.typ = "JWT" <=> token # None) /\ (token = None => h.typ = None)
  BY <1>1, NamesAssumption DEF NamesAssumption, attach_claims_headers
<1>4. Id(msg) = i /\ ~Undecodable(msg.body)
  BY <1>1, <1>2 DEF Id, Undecodable
<1>5. CASE auth = None
  BY <1>1, <1>4, <1>5 DEF Check, Code, Justified, Refusals
<1>6. CASE auth # None
  <2> DEFINE v == verify_request(auth, m, i, h)
  <2>1. Check(msg) = v
    BY <1>1, <1>4, <1>6 DEF Check
  <2>2. CASE Code(v) \notin Refusals
    BY <2>1, <2>2 DEF Justified
  <2>3. CASE Code(v) \in Refusals
    <3>1. v \in Refusals /\ Code(v) = v
      BY <2>3 DEF Code, Refusals
    <3>2. m \notin auth.public_methods
      BY <3>1 DEF verify_request, Refusals
    <3>3. v = "CLAIMS_MISSING" => token = None
      BY <1>3, <3>2 DEF verify_request
    <3>4. v = "CLAIMS_EXPIRED" => token # None /\ LoopEnds(auth, token, "expired")
      BY <1>3, <3>2 DEF verify_request
    <3>5. v = "CLAIMS_UNBOUND" => token # None /\ ~(token.jti = i /\ token.method = m)
      BY <1>3, <3>2 DEF verify_request
    <3>6. v = "UNAUTHORIZED" =>
            \/ auth.authorize_func = "refuses"
            \/ ~LoopEnds(auth, token, "claims") /\ ~LoopEnds(auth, token, "expired")
      BY <1>3, <3>2 DEF verify_request
    <3>7. v = "UNAUTHORIZED" =>
            \/ auth.authorize_func = "refuses"
            \/ \E n \in 1..Len(auth.algorithms) : ~HasKey(auth, auth.algorithms[n])
            \/ ~Signed(auth, token) \/ None \in {token.exp, token.jti, token.method}
      BY <1>6, <3>6, SignedEnds
    <3>8. Reason(auth, msg, v)
      BY <1>1, <1>3, <3>3, <3>4, <3>5, <3>7, ExpiredIsSigned DEF Reason, Bound
    <3> QED
      BY <1>1, <1>6, <2>1, <3>1, <3>2, <3>8 DEF Justified
  <2> QED
    BY <2>2, <2>3
<1> QED
  BY <1>5, <1>6

-----------------------------------------------------------------------------
(* The invariant. *)

\* call[i] is a message of i's own.
Called ==
  \A i \in Ids : call[i] # None =>
    \E m \in Methods : \E t \in Tokens[i][m] : call[i] = Message(i, m, t)

\* What asks for its answer at the client's reply queue is the call it names.
Sent(msg) == msg.reply_to = "client" => msg.corr \in Ids /\ call[msg.corr] = msg

Items(s) == {s[n] : n \in 1..Len(s)}

AllSent ==
  /\ \A msg \in Items(queue) : Sent(msg)
  /\ job # None => Sent(job)

\* o is a true outcome of the call i.
True(i, o) ==
  /\ o.data \subseteq make_error_data
  /\ o.of # None =>
       /\ o.of = [id |-> i, method |-> call[i].body.method]
       /\ \E run \in ran : run.of = o.of /\ run.code = o.code
  /\ Justified(call[i], o.code)

\* A reply that is under way would be one.
Replied ==
  \A r \in Items(replies) :
    call[r.corr] # None /\ True(r.corr, decode_response(r.body))

Outcomes ==
  \A i \in Ids : outcome[i] # None => call[i] # None /\ True(i, outcome[i])

IInv == TypeOK /\ Called /\ AllSent /\ Replied /\ Outcomes

\* The run of a handler that has the client's request is a run of that call.
LEMMA OwnRun ==
  ASSUME NEW i \in Ids, NEW m \in Methods, NEW t \in Tokens[i][m],
         NEW msg, msg = Message(i, m, t)
  PROVE  Id(msg) = i /\ msg.body.method = m /\ msg.corr = i
BY NamesAssumption DEF NamesAssumption, Id, Message, encode_request

\* Time only makes an expired token more expired, calls are not replaced and
\* runs not forgotten: what was true of an outcome stays so.
LEMMA StaysTrue ==
  ASSUME IInv, [Next]_vars, NEW i \in Ids, call[i] # None, NEW o, True(i, o)
  PROVE  call'[i] = call[i] /\ True(i, o)'
<1>1. auth' = auth /\ call'[i] = call[i] /\ ran \subseteq ran'
  BY DEF IInv, TypeOK, Next, Server, Request, Republish, RequestTimeout, RequestReturns,
         Refuse, Begin, HandlerReturns, HandlerRefuses, HandlerFails, HandlerNacks, Ends,
         HandlerErrorUnencodable, Redeliver, SendForeign, AnswerForeign, Tick, Send, vars
<1>2. now \in Nat /\ (now' = now \/ now' = now + 1)
  BY DEF IInv, TypeOK, Next, Server, Request, Republish, RequestTimeout, RequestReturns,
         Refuse, Begin, HandlerReturns, HandlerRefuses, HandlerFails, HandlerNacks, Ends,
         HandlerErrorUnencodable, Redeliver, SendForeign, AnswerForeign, Tick, vars
<1>m. PICK m \in Methods : \E t \in Tokens[i][m] : call[i] = Message(i, m, t)
  BY DEF IInv, Called
<1>3. PICK t \in Tokens[i][m] : call[i] = Message(i, m, t)
  BY <1>m
<1>4. Justified(call[i], o.code)' 
  <2> DEFINE token == call[i].headers.token
  <2>1. token = t
    BY <1>3 DEF Message, attach_claims_headers
  <2>2. t # None => t.exp \in Nat \cup {None}
    BY TokensAssumption DEF TokensAssumption
  <2>3. Signed(auth, t)' = Signed(auth, t)
    BY <1>1 DEF Signed
  <2>4. t # None /\ None # t.exp /\ t.exp <= now => t.exp <= now'
    BY <1>2, <2>2
  <2> QED
    BY <1>1, <1>2, <2>1, <2>2, <2>3, <2>4 DEF True, Justified, Reason
<1> QED
  BY <1>1, <1>4 DEF True

-----------------------------------------------------------------------------
(* What the steps share. *)

\* A reply under way before a step is still true after it.
LEMMA OldReplies ==
  ASSUME IInv, [Next]_vars, NEW r \in Items(replies)
  PROVE  call'[r.corr] # None /\ True(r.corr, decode_response(r.body))'
<1>1. replies \in Seq([corr : Ids, body : Bodies])
  BY DEF IInv, TypeOK
<1>2. r.corr \in Ids
  <2>1. r \in [corr : Ids, body : Bodies]
    BY <1>1, ElementOfSeq, ZenonT(60) DEF Items
  <2> QED
    BY <2>1
<1>3. call[r.corr] # None /\ True(r.corr, decode_response(r.body))
  BY DEF IInv, Replied
<1> DEFINE o == decode_response(r.body)
<1>4. True(r.corr, o)
  BY <1>3
<1> HIDE DEF o
<1>5. call'[r.corr] = call[r.corr]
  BY <1>2, <1>3, <1>4, StaysTrue
<1>6. True(r.corr, o)'
  BY <1>2, <1>3, <1>4, StaysTrue
<1> QED
  BY <1>3, <1>5, <1>6 DEF o

\* Items of a sequence that grows or shrinks.
LEMMA AppendItems ==
  ASSUME NEW S, NEW s \in Seq(S), NEW e \in S
  PROVE  Append(s, e) \in Seq(S) /\ Items(Append(s, e)) = Items(s) \cup {e}
<1>1. /\ Append(s, e) \in Seq(S) /\ Len(Append(s, e)) = Len(s) + 1 /\ Len(s) \in Nat
      /\ \A n \in 1..Len(s) : Append(s, e)[n] = s[n]
      /\ Append(s, e)[Len(s) + 1] = e
  OBVIOUS
<1>2. 1..(Len(s) + 1) = 1..Len(s) \cup {Len(s) + 1}
  BY <1>1
<1> QED
  BY <1>1, <1>2 DEF Items

LEMMA TailItems ==
  ASSUME NEW S, NEW s \in Seq(S), s # <<>>
  PROVE  /\ Tail(s) \in Seq(S) /\ Items(Tail(s)) \subseteq Items(s)
         /\ Head(s) \in S /\ Head(s) \in Items(s)
<1>1. /\ Tail(s) \in Seq(S) /\ Len(Tail(s)) = Len(s) - 1 /\ Len(s) \in Nat /\ Len(s) >= 1
      /\ \A n \in 1..(Len(s) - 1) : Tail(s)[n] = s[n + 1]
      /\ Head(s) = s[1] /\ s[1] \in S
  OBVIOUS
<1> QED
  BY <1>1 DEF Items

LEMMA FrontItems ==
  ASSUME NEW S, NEW s \in Seq(S), NEW e \in S
  PROVE  <<e>> \o s \in Seq(S) /\ Items(<<e>> \o s) \subseteq Items(s) \cup {e}
<1> DEFINE t == <<e>> \o s
<1>1. /\ t \in Seq(S) /\ Len(t) = Len(s) + 1 /\ Len(s) \in Nat
      /\ t[1] = e /\ \A n \in 2..(Len(s) + 1) : t[n] = s[n - 1]
  OBVIOUS
<1> HIDE DEF t
<1>2. ASSUME NEW n \in 1..Len(t)
      PROVE  t[n] \in Items(s) \cup {e}
  <2>1. CASE n = 1
    BY <1>1, <2>1
  <2>2. CASE n # 1
    <3>1. n - 1 \in 1..Len(s) /\ t[n] = s[n - 1]
      BY <1>1, <2>2
    <3> QED
      BY <3>1 DEF Items
  <2> QED
    BY <2>1, <2>2
<1>3. Items(t) \subseteq Items(s) \cup {e}
  BY <1>2 DEF Items
<1> QED
  BY <1>1, <1>3 DEF t

\* A step that writes a reply which is true of the call keeps replies and
\* Replied.
LEMMA ReplyWritten ==
  ASSUME IInv, [Next]_vars, NEW msg, Sent(msg), NEW body, Reply(msg, body),
         msg.reply_to = "client" =>
           /\ body \in Bodies
           /\ call[msg.corr] # None /\ True(msg.corr, decode_response(body))'
  PROVE  replies' \in Seq([corr : Ids, body : Bodies]) /\ Replied'
<1> DEFINE R == [corr : Ids, body : Bodies]
           r == [corr |-> msg.corr, body |-> body]
<1>1. replies \in Seq(R)
  BY DEF IInv, TypeOK
<1>2. CASE msg.reply_to = "client"
  <2>1. r \in R /\ replies' = Append(replies, r)
    BY <1>2 DEF Sent, Reply
  <2>2. replies' \in Seq(R) /\ Items(replies') = Items(replies) \cup {r}
    <3> HIDE DEF R, r
    <3> QED
      BY <1>1, <2>1, AppendItems
  <2>3. msg.corr \in Ids /\ call[msg.corr] # None
    BY <1>2 DEF Sent
  <2>4. call'[msg.corr] # None
    BY <2>3 DEF IInv, TypeOK, Next, Server, Request, Republish, RequestTimeout, RequestReturns,
         Refuse, Begin, HandlerReturns, HandlerRefuses, HandlerFails, HandlerNacks, Ends,
         HandlerErrorUnencodable, Redeliver, SendForeign, AnswerForeign, Tick, vars
  <2>5. call'[r.corr] # None /\ True(r.corr, decode_response(r.body))'
    BY <1>2, <2>4
  <2> QED
    BY <2>2, <2>5, OldReplies DEF Replied
<1>3. CASE msg.reply_to # "client"
  <2>1. replies' = replies
    BY <1>3 DEF Reply
  <2> QED
    BY <1>1, <2>1, OldReplies DEF Replied
<1> QED
  BY <1>2, <1>3

-----------------------------------------------------------------------------
(* The queue and the job: TypeOK, Called and AllSent. *)

LEMMA MessageType ==
  ASSUME NEW i \in Ids, NEW m \in Methods, NEW t \in Tokens[i][m]
  PROVE  Message(i, m, t) \in Messages
<1>1. <<i, m>> \in Ids \X Methods /\ <<i, m>>[1] = i /\ <<i, m>>[2] = m
  OBVIOUS
<1> QED
  BY <1>1 DEF Messages

LEMMA CallsStep ==
  ASSUME IInv, [Next]_vars
  PROVE  call' \in [Ids -> Messages \cup {None}] /\ Called'
<1>1. call \in [Ids -> Messages \cup {None}] /\ Called
  BY DEF IInv, TypeOK
<1>2. CASE \E i \in Ids, m \in Methods : \E t \in Tokens[i][m] : Request(i, m, t)
  <2>1. PICK i \in Ids, m \in Methods : \E t \in Tokens[i][m] : Request(i, m, t)
    BY <1>2
  <2>2. PICK t \in Tokens[i][m] : Request(i, m, t)
    BY <2>1
  <2>3. call' = [call EXCEPT ![i] = Message(i, m, t)]
    BY <2>2 DEF Request
  <2> QED
    BY <1>1, <2>3, MessageType DEF Called
<1>3. CASE UNCHANGED call
  BY <1>1, <1>3 DEF Called
<1> QED
  BY <1>2, <1>3
  DEF Next, Server, Republish, RequestTimeout, RequestReturns, Refuse, Begin,
      HandlerReturns, HandlerRefuses, HandlerFails, HandlerNacks, Ends,
      HandlerErrorUnencodable, Redeliver, SendForeign, AnswerForeign, Tick, vars

\* What was sent stays sent: no call is replaced.
LEMMA StaysSent ==
  ASSUME IInv, [Next]_vars, NEW msg \in Messages, Sent(msg)
  PROVE  Sent(msg)'
<1>1. msg # None
  BY MessagesAssumption DEF MessagesAssumption
<1>2. \A i \in Ids : call[i] # None => call'[i] = call[i]
  BY DEF IInv, TypeOK, Next, Server, Request, Republish, RequestTimeout, RequestReturns,
         Refuse, Begin, HandlerReturns, HandlerRefuses, HandlerFails, HandlerNacks, Ends,
         HandlerErrorUnencodable, Redeliver, SendForeign, AnswerForeign, Tick, vars
<1> QED
  BY <1>1, <1>2 DEF Sent

\* Any message put into the queue is a foreign one or the call it names.
LEMMA QueueStep ==
  ASSUME IInv, [Next]_vars
  PROVE  queue' \in Seq(Messages) /\ job' \in Messages \cup {None} /\ AllSent'
<1>1. PICK S : S = {msg \in Messages : Sent(msg)'}
  OBVIOUS
<1>2. queue \in Seq(S)
  <2>1. queue \in Seq(Messages)
    BY DEF IInv, TypeOK
  <2>2. \A n \in 1..Len(queue) : queue[n] \in Messages /\ Sent(queue[n])
    BY <2>1, ElementOfSeq DEF IInv, AllSent, Items
  <2>3. ASSUME NEW n \in 1..Len(queue)
        PROVE  queue[n] \in S
    <3>1. PICK msg : msg = queue[n]
      OBVIOUS
    <3>2. msg \in Messages /\ Sent(msg)
      BY <2>2, <3>1
    <3>3. Sent(msg)'
      BY <3>2, StaysSent
    <3> QED
      BY <1>1, <3>1, <3>2, <3>3
  <2> QED
    BY <2>1, <2>3, SeqDef
<1>3. job # None => job \in S
  <2>1. PICK msg : msg = job
    OBVIOUS
  <2>2. msg # None => msg \in Messages /\ Sent(msg)
    BY <2>1 DEF IInv, TypeOK, AllSent
  <2>3. msg # None => Sent(msg)'
    BY <2>2, StaysSent
  <2> QED
    BY <1>1, <2>1, <2>2, <2>3
<1>4. job \in S \cup {None}
  BY <1>3
<1>5. queue # <<>> => Head(queue) \in S /\ Tail(queue) \in Seq(S)
  BY <1>2
<1>s. SUFFICES queue' \in Seq(S) /\ job' \in S \cup {None}
  <2>1. ASSUME queue' \in Seq(S), job' \in S \cup {None}
        PROVE  queue' \in Seq(Messages) /\ job' \in Messages \cup {None} /\ AllSent'
    <3>1. queue' \in Seq(Messages) /\ job' \in Messages \cup {None}
      BY <1>1, <2>1
    <3>2. \A msg \in S : Sent(msg)'
      BY <1>1
    <3>3. \A n \in 1..Len(queue') : queue'[n] \in S
      BY <2>1, ElementOfSeq
    <3> QED
      BY <2>1, <3>1, <3>2, <3>3 DEF AllSent, Items
  <2> QED
    BY <2>1
<1>6. CASE \E i \in Ids, m \in Methods : \E t \in Tokens[i][m] : Request(i, m, t)
  <2>1. PICK i \in Ids, m \in Methods : \E t \in Tokens[i][m] : Request(i, m, t)
    BY <1>6
  <2>2. PICK t \in Tokens[i][m] : Request(i, m, t)
    BY <2>1
  <2>3. PICK msg : msg = Message(i, m, t)
    OBVIOUS
  <2>4. msg \in Messages /\ msg.corr = i
    BY <2>3, MessageType, OwnRun
  <2>5. call' = [call EXCEPT ![i] = msg] /\ queue' = Append(queue, msg) /\ job' = job
    BY <2>2, <2>3 DEF Request, Send
  <2>6. Sent(msg)'
    BY <2>4, <2>5 DEF IInv, TypeOK, Sent
  <2>7. msg \in S
    BY <1>1, <2>4, <2>6
  <2> QED
    BY <1>2, <1>4, <2>5, <2>7
<1>7. CASE \E i \in Ids : Republish(i)
  <2>1. PICK i \in Ids : Republish(i)
    BY <1>7
  <2>2. PICK msg : msg = call[i]
    OBVIOUS
  <2>3. msg # None /\ queue' = Append(queue, msg) /\ job' = job /\ call' = call
    BY <2>1, <2>2 DEF Republish, Waiting, Send
  <2>4. msg \in Messages
    BY <2>2, <2>3 DEF IInv, TypeOK
  <2>5. PICK m \in Methods : \E t \in Tokens[i][m] : msg = Message(i, m, t)
    BY <2>2, <2>3 DEF IInv, Called
  <2>6. msg.corr = i
    BY <2>5, OwnRun
  <2>7. Sent(msg)'
    BY <2>2, <2>3, <2>6 DEF Sent
  <2>8. msg \in S
    BY <1>1, <2>4, <2>7
  <2> QED
    BY <1>2, <1>4, <2>3, <2>8
<1>8. CASE SendForeign
  <2>1. PICK msg \in Foreign : queue' = Append(queue, msg) /\ job' = job
    BY <1>8 DEF SendForeign, Send
  <2>2. msg \in Messages /\ Sent(msg)'
    BY <2>1, ForeignAssumption DEF ForeignAssumption, Messages, Sent
  <2>3. msg \in S
    BY <1>1, <2>2
  <2> QED
    BY <1>2, <1>4, <2>1, <2>3
<1>9. CASE Refuse \/ AnswerForeign
  <2>1. queue # <<>> /\ queue' = Tail(queue) /\ job' = job
    BY <1>9 DEF Refuse, AnswerForeign, Deliverable
  <2> QED
    BY <1>4, <1>5, <2>1
<1>10. CASE Begin
  <2>1. queue # <<>> /\ queue' = Tail(queue) /\ job' = Head(queue)
    BY <1>10 DEF Begin, Deliverable
  <2> QED
    BY <1>5, <2>1
<1>11. CASE HandlerNacks(TRUE) \/ HandlerNacks(FALSE) \/ Redeliver
  <2>1. job # None /\ job' = None /\ (queue' = <<job>> \o queue \/ queue' = queue)
    BY <1>11 DEF HandlerNacks, Redeliver
  <2>2. <<job>> \o queue \in Seq(S)
    BY <1>2, <1>3, <2>1
  <2> QED
    BY <1>2, <2>1, <2>2
<1>12. CASE HandlerReturns \/ HandlerRefuses \/ HandlerFails
  <2>1. queue' = queue /\ job' = None
    BY <1>12 DEF HandlerReturns, HandlerRefuses, HandlerFails, Ends
  <2> QED
    BY <1>2, <2>1
<1>13. CASE UNCHANGED <<queue, job>>
  BY <1>2, <1>4, <1>13
<1> QED
  BY <1>6, <1>7, <1>8, <1>9, <1>10, <1>11, <1>12, <1>13
  DEF Next, Server, RequestTimeout, RequestReturns, HandlerErrorUnencodable, Tick, vars

-----------------------------------------------------------------------------
(* The replies. *)

\* The job of a caller is that caller's request, and its run a run of that call.
LEMMA JobOfCaller ==
  ASSUME IInv, job # None, job.reply_to = "client"
  PROVE  /\ job.corr \in Ids /\ call[job.corr] = job
         /\ Run \in Runs
         /\ Run = [id |-> job.corr, method |-> job.body.method]
<1>1. PICK i : i = job.corr
  OBVIOUS
<1>2. i \in Ids /\ call[i] = job
  BY <1>1 DEF IInv, AllSent, Sent
<1>3. PICK m \in Methods : \E t \in Tokens[i][m] : job = Message(i, m, t)
  BY <1>2 DEF IInv, Called
<1>4. Id(job) = i /\ job.body.method = m
  BY <1>2, <1>3, OwnRun
<1> QED
  BY <1>1, <1>2, <1>4 DEF Run, Runs

\* What a handler answers is a true outcome of the call.
LEMMA HandlerReplies ==
  ASSUME IInv, [Next]_vars, job # None, UNCHANGED call,
         NEW b, Reply(job, b),
         b.kind \in {"result", "error"} /\ b.code \in Codes \ Refusals,
         b.data \subseteq make_error_data /\ b.of = Run,
         b = [kind |-> b.kind, code |-> b.code, data |-> b.data, of |-> b.of],
         \E run \in ran' : run.of = b.of /\ run.code = b.code
  PROVE  replies' \in Seq([corr : Ids, body : Bodies]) /\ Replied'
<1>1. Sent(job)
  BY DEF IInv, AllSent
<1>2. PICK msg : msg = job
  OBVIOUS
<1>3. ASSUME msg.reply_to = "client"
      PROVE  /\ b \in Bodies
             /\ call[msg.corr] # None /\ True(msg.corr, decode_response(b))'
  <2>1. /\ msg.corr \in Ids /\ call[msg.corr] = msg
        /\ b.of \in Runs /\ b.of = [id |-> msg.corr, method |-> msg.body.method]
    BY <1>2, <1>3, JobOfCaller
  <2>2. make_error_data \subseteq Keys
    BY DEF make_error_data, Keys
  <2>3. b \in Bodies
    BY <2>1, <2>2 DEF Bodies
  <2>4. PICK o : o = decode_response(b)
    OBVIOUS
  <2>5. o.data \subseteq make_error_data /\ o.of = b.of /\ o.code = b.code
    <3>1. b.kind = "result" => o = b
      BY <2>4 DEF decode_response
    <3>2. b.kind = "error" => o = [b EXCEPT !.data = b.data \cap _ALLOWED_DATA_KEYS]
      BY <2>4 DEF decode_response, encode_error, allowlist_error_data
    <3> QED
      BY <3>1, <3>2
  <2>6. True(msg.corr, o)'
    BY <2>1, <2>5 DEF True, Justified
  <2> QED
    BY <1>2, <2>1, <2>3, <2>4, <2>6
<1> QED
  BY <1>1, <1>2, <1>3, ReplyWritten

LEMMA RefusalReplies ==
  ASSUME IInv, [Next]_vars, Refuse
  PROVE  replies' \in Seq([corr : Ids, body : Bodies]) /\ Replied'
<1>1. PICK msg : msg = Head(queue)
  OBVIOUS
<1>2. PICK code : code = Code(Check(msg))
  OBVIOUS
<1>3. PICK b : b = encode_error(Refusal(code))
  OBVIOUS
<1>4. Reply(msg, b) /\ UNCHANGED <<auth, now, call>>
  BY <1>1, <1>2, <1>3 DEF Refuse
<1>5. queue \in Seq(Messages) /\ queue # <<>>
  BY DEF IInv, TypeOK, Refuse, Deliverable
<1>6. Sent(msg)
  BY <1>1, <1>5, TailItems DEF IInv, AllSent
<1>7. code \in Codes
  <2>1. verify_request(auth, msg.body.method, Id(msg), msg.headers)
          \in Refusals \cup {"claims", "TypeError"}
    BY DEF verify_request, Refusals
  <2>2. Check(msg) \in Refusals \cup {"TypeError", "INVALID_ENVELOPE"}
    BY <1>1, <2>1 DEF Check, Refuse
  <2> QED
    BY <1>2, <2>2 DEF Code, Codes
<1>8. /\ b = [kind |-> "error", code |-> code, data |-> b.data, of |-> None]
      /\ b.data \subseteq make_error_data
  BY <1>3 DEF Refusal, RpcError, encode_error, allowlist_error_data
<1>9. ASSUME msg.reply_to = "client"
      PROVE  /\ b \in Bodies
             /\ call[msg.corr] # None /\ True(msg.corr, decode_response(b))'
  <2>1. PICK i : i = msg.corr
    OBVIOUS
  <2>2. i \in Ids /\ call[i] = msg
    BY <1>6, <1>9, <2>1 DEF Sent
  <2>3. msg # None
    BY <1>1, <1>5, TailItems, MessagesAssumption DEF MessagesAssumption
  <2>4. PICK m \in Methods : \E t \in Tokens[i][m] : msg = Message(i, m, t)
    BY <2>2, <2>3 DEF IInv, Called
  <2>5. PICK t \in Tokens[i][m] : msg = Message(i, m, t)
    BY <2>4
  <2>6. Justified(msg, code)
    BY <1>2, <2>2, <2>5, CheckIsJustified DEF IInv, TypeOK
  <2>7. Justified(msg, code)'
    BY <1>4, <2>6 DEF Justified, Reason, Signed
  <2>8. PICK o : o = decode_response(b)
    OBVIOUS
  <2>9. o = [kind |-> "error", code |-> code, data |-> o.data, of |-> None]
    BY <1>8, <2>8 DEF decode_response, encode_error, allowlist_error_data
  <2>10. o.data \subseteq make_error_data
    BY <1>8, <2>8 DEF decode_response, encode_error, allowlist_error_data
  <2>11. True(i, o)'
    BY <1>4, <2>2, <2>7, <2>9, <2>10 DEF True
  <2>12. b.data \subseteq Keys
    BY <1>8 DEF make_error_data, Keys
  <2>13. b \in Bodies
    <3>1. PICK d : d = b.data
      OBVIOUS
    <3>2. d \in SUBSET Keys /\ None \in Runs \cup {None}
      BY <2>12, <3>1
    <3>3. b = [kind |-> "error", code |-> code, data |-> d, of |-> None]
      BY <1>8, <3>1
    <3> QED
      BY <1>7, <3>2, <3>3 DEF Bodies
  <2> QED
    BY <2>1, <2>2, <2>3, <2>8, <2>11, <2>13
<1> QED
  BY <1>4, <1>6, <1>9, ReplyWritten

LEMMA ForeignAnswers ==
  ASSUME IInv, [Next]_vars, AnswerForeign
  PROVE  replies' \in Seq([corr : Ids, body : Bodies]) /\ Replied'
<1>1. PICK msg : msg = Head(queue)
  OBVIOUS
<1>2. PICK b \in ForeignReplies : Reply(msg, b)
  BY <1>1 DEF AnswerForeign
<1>3. queue \in Seq(Messages) /\ queue # <<>> /\ UNCHANGED call
  BY DEF IInv, TypeOK, AnswerForeign
<1>4. Sent(msg) /\ msg # None
  BY <1>1, <1>3, TailItems, MessagesAssumption DEF IInv, AllSent, MessagesAssumption
<1>5. /\ b \in [kind : {"result", "error", "neither", "no code"}, code : Codes,
                data : SUBSET Keys, of : {None}]
      /\ b.code \notin Refusals /\ (b.kind = "result" => b.data = {})
  BY ForeignAssumption DEF ForeignAssumption
<1>6. PICK o : o = decode_response(b)
  OBVIOUS
<1>7. o.data \subseteq make_error_data /\ o.of = None /\ o.code \notin Refusals
  BY <1>5, <1>6
  DEF decode_response, encode_error, allowlist_error_data, Refusal, RpcError, Refusals,
      make_error_data, _ALLOWED_DATA_KEYS
<1>8. \A i \in Ids : True(i, o)'
  BY <1>7 DEF True, Justified
<1>9. b \in Bodies
  BY <1>5 DEF Bodies
<1> QED
  BY <1>2, <1>3, <1>4, <1>6, <1>8, <1>9, ReplyWritten DEF Sent

LEMMA RepliesStep ==
  ASSUME IInv, [Next]_vars
  PROVE  replies' \in Seq([corr : Ids, body : Bodies]) /\ Replied'
<1>1. CASE HandlerReturns
  <2>1. PICK b : b = Result(Run)
    OBVIOUS
  <2>2. job # None /\ UNCHANGED call /\ Reply(job, b) /\ b \in ran'
    BY <1>1, <2>1 DEF HandlerReturns, Ends
  <2> QED
    BY <2>1, <2>2, HandlerReplies DEF Result, Refusals, Codes
<1>2. CASE HandlerRefuses
  <2>1. PICK e : e = RpcError("APP", {"code_name", "detail"}, Run)
    OBVIOUS
  <2>2. PICK b : b = encode_error(e)
    OBVIOUS
  <2>3. job # None /\ UNCHANGED call /\ Reply(job, b) /\ e \in ran'
    BY <1>2, <2>1, <2>2 DEF HandlerRefuses, Ends
  <2>4. /\ b = [kind |-> "error", code |-> "APP", data |-> b.data, of |-> Run]
        /\ b.data \subseteq make_error_data /\ e.of = b.of /\ e.code = b.code
    BY <2>1, <2>2
    DEF RpcError, encode_error, allowlist_error_data, make_error_data, _ALLOWED_DATA_KEYS
  <2> QED
    BY <2>3, <2>4, HandlerReplies DEF Refusals, Codes
<1>3. CASE HandlerFails
  <2>1. PICK e : e = RpcError("SERVER_ERROR", make_error_data, Run)
    OBVIOUS
  <2>2. PICK b : b = encode_error(e)
    OBVIOUS
  <2>3. job # None /\ UNCHANGED call /\ Reply(job, b) /\ e \in ran'
    BY <1>3, <2>1, <2>2 DEF HandlerFails, Ends
  <2>4. /\ b = [kind |-> "error", code |-> "SERVER_ERROR", data |-> b.data, of |-> Run]
        /\ b.data \subseteq make_error_data /\ e.of = b.of /\ e.code = b.code
    BY <2>1, <2>2
    DEF RpcError, encode_error, allowlist_error_data, make_error_data, _ALLOWED_DATA_KEYS
  <2> QED
    BY <2>3, <2>4, HandlerReplies DEF Refusals, Codes
<1>4. CASE RequestReturns
  <2>1. replies \in Seq([corr : Ids, body : Bodies])
    BY DEF IInv, TypeOK
  <2>2. replies # <<>> /\ replies' = Tail(replies)
    BY <1>4 DEF RequestReturns
  <2>3. replies' \in Seq([corr : Ids, body : Bodies]) /\ Items(replies') \subseteq Items(replies)
    BY <2>1, <2>2, TailItems
  <2> QED
    BY <2>3, OldReplies DEF Replied
<1>5. CASE UNCHANGED replies
  <2>1. replies \in Seq([corr : Ids, body : Bodies])
    BY DEF IInv, TypeOK
  <2> QED
    BY <1>5, <2>1, OldReplies DEF Replied
<1> QED
  BY <1>1, <1>2, <1>3, <1>4, <1>5, RefusalReplies, ForeignAnswers
  DEF Next, Server, Request, Republish, RequestTimeout, Begin, HandlerNacks,
      HandlerErrorUnencodable, Redeliver, SendForeign, Tick, vars

-----------------------------------------------------------------------------
(* The outcomes, and the invariant. *)

LEMMA DecodedBody ==
  ASSUME NEW b \in Bodies
  PROVE  decode_response(b) \in Bodies
BY DEF Bodies, decode_response, encode_error, allowlist_error_data, Refusal, RpcError,
       make_error_data, Codes, Keys

LEMMA OutcomesStep ==
  ASSUME IInv, [Next]_vars
  PROVE  outcome' \in [Ids -> Bodies \cup {None}] /\ Outcomes'
<1> DEFINE Type(o) == o \in [Ids -> Bodies \cup {None}]
<1>1. Type(outcome) /\ Outcomes
  BY DEF IInv, TypeOK
<1>2. ASSUME NEW i \in Ids, NEW x, x = outcome[i], x # None
      PROVE  call'[i] # None /\ True(i, x)'
  <2>1. call[i] # None /\ True(i, x)
    BY <1>1, <1>2 DEF Outcomes
  <2> QED
    BY <2>1, StaysTrue
<1>3. ASSUME NEW o, o = outcome', Type(o),
             \A i \in Ids : o[i] # None => call'[i] # None /\ True(i, o[i])'
      PROVE  Type(outcome') /\ Outcomes'
  <2>1. ASSUME NEW i \in Ids, NEW x, x = outcome'[i], x # None
        PROVE  call'[i] # None /\ True(i, x)'
    BY <1>3, <2>1
  <2> QED
    BY <1>3, <2>1 DEF Outcomes
<1>4. PICK o : o = outcome'
  OBVIOUS
<1>5. CASE RequestReturns
  <2>1. PICK r : r = Head(replies)
    OBVIOUS
  <2>2. PICK x : x = decode_response(r.body)
    OBVIOUS
  <2>3. r \in [corr : Ids, body : Bodies] /\ r \in Items(replies)
    BY <1>5, <2>1, TailItems DEF RequestReturns, IInv, TypeOK
  <2>4. x \in Bodies
    BY <2>2, <2>3, DecodedBody
  <2>5. call'[r.corr] # None /\ True(r.corr, x)'
    BY <2>2, <2>3, OldReplies
  <2>6. o = [i \in Ids |-> IF Waiting(i) /\ r.corr = i THEN x ELSE outcome[i]]
    BY <1>4, <1>5, <2>1, <2>2 DEF RequestReturns
  <2>7. Type(o)
    BY <1>1, <2>4, <2>6
  <2>8. \A i \in Ids : o[i] # None => call'[i] # None /\ True(i, o[i])'
    <3>1. ASSUME NEW i \in Ids, o[i] # None
          PROVE  call'[i] # None /\ True(i, o[i])'
      <4>1. CASE o[i] = x /\ r.corr = i
        BY <2>5, <4>1
      <4>2. CASE o[i] = outcome[i]
        BY <1>2, <3>1, <4>2
      <4> QED
        BY <2>6, <4>1, <4>2
    <3> QED
      BY <3>1
  <2> QED
    BY <1>3, <1>4, <2>7, <2>8
<1>6. CASE \E i \in Ids : RequestTimeout(i)
  <2>1. PICK k \in Ids : RequestTimeout(k)
    BY <1>6
  <2>2. PICK x : x = Refusal("REQUEST_TIMEOUT")
    OBVIOUS
  <2>3. o = [outcome EXCEPT ![k] = x] /\ call[k] # None /\ UNCHANGED call
    BY <1>4, <2>1, <2>2 DEF RequestTimeout, Waiting
  <2>4. x \in Bodies
    BY <2>2 DEF Refusal, RpcError, make_error_data, Bodies, Codes, Keys
  <2>5. True(k, x)'
    BY <2>2 DEF True, Justified, Refusal, RpcError, make_error_data, Refusals
  <2>6. Type(o)
    BY <1>1, <2>3, <2>4
  <2>7. \A i \in Ids : o[i] # None => call'[i] # None /\ True(i, o[i])'
    <3>1. ASSUME NEW i \in Ids, o[i] # None
          PROVE  call'[i] # None /\ True(i, o[i])'
      <4>1. CASE i = k
        BY <1>1, <2>3, <2>5, <4>1
      <4>2. CASE i # k
        BY <1>1, <1>2, <2>3, <3>1, <4>2
      <4> QED
        BY <4>1, <4>2
    <3> QED
      BY <3>1
  <2> QED
    BY <1>3, <1>4, <2>6, <2>7
<1>7. CASE UNCHANGED outcome
  BY <1>1, <1>2, <1>3, <1>4, <1>7
<1> QED
  BY <1>5, <1>6, <1>7
  DEF Next, Server, Request, Republish, Refuse, Begin, HandlerReturns, HandlerRefuses,
      HandlerFails, HandlerNacks, Ends, HandlerErrorUnencodable, Redeliver, SendForeign,
      AnswerForeign, Tick, vars

\* The invariant holds, for any constants.
THEOREM Invariant == Spec => []IInv
<1>1. Init => IInv
  BY NamesAssumption
  DEF Init, IInv, TypeOK, Called, AllSent, Replied, Outcomes, Items, NamesAssumption
<1>2. IInv /\ [Next]_vars => IInv'
  <2> SUFFICES ASSUME IInv, [Next]_vars
               PROVE  IInv'
    OBVIOUS
  <2>1. auth' \in Configs /\ now' \in Nat /\ loop' \in {"up", "ended"} /\ sends' \in Nat
    BY DEF IInv, TypeOK, Next, Server, Request, Republish, RequestTimeout, RequestReturns,
         Refuse, Begin, HandlerReturns, HandlerRefuses, HandlerFails, HandlerNacks, Ends,
         HandlerErrorUnencodable, Redeliver, SendForeign, AnswerForeign, Tick, Send, vars
  <2> QED
    BY <2>1, CallsStep, QueueStep, RepliesStep, OutcomesStep DEF IInv, TypeOK
<1> QED
  BY <1>1, <1>2, PTL DEF Spec

\* What request() gives back as the work of a handler is what a handler made of
\* this very request, and errors bring only data of the allow-list.
THEOREM OwnOutcomes == Spec => []OutcomeIsOwn
<1>1. IInv => OutcomeIsOwn
  BY DEF IInv, Outcomes, True, OutcomeIsOwn
<1> QED
  BY <1>1, Invariant, PTL

\* The code a caller is refused with names what was wrong with its own request.
THEOREM TrueRefusals == Spec => []RefusalIsTrue
<1>1. IInv => RefusalIsTrue
  BY DEF IInv, Outcomes, True, Justified, RefusalIsTrue
<1> QED
  BY <1>1, Invariant, PTL
=============================================================================
