------------------------------ MODULE Handling ------------------------------
(***************************************************************************)
(* What a request means on its way from RpcClient.request through the      *)
(* envelope, AuthConfig.verify_request, the handler and the error          *)
(* allow-list back to the caller, while time passes, tokens expire, lost   *)
(* servers give their requests back and a reconnect publishes parked       *)
(* requests again.                                                         *)
(*                                                                         *)
(* Session models who waits for what and Serving who settles what; this    *)
(* module models the contents.  A body is what json.loads makes of it, a   *)
(* token what its signer put in; the params go with the id.  A token for    *)
(* another audience or issuer is one of another key.                       *)
(***************************************************************************)
EXTENDS Naturals, Sequences

CONSTANTS
  Ids, Methods,
  None,                \* Python's None: an absent property, key or claim
  NonAscii,            \* methods whose name is not ASCII
  Configs,             \* values of AuthConfig, and None for a server without
  Tokens,              \* Tokens[i][m]: what a caller may pass as claims_token
  Foreign,             \* messages of other programs, which use ids of their own
  ForeignReplies,      \* bodies another implementation may answer with
  MaxTime,             \* bound: the last instant
  MaxSends             \* bound: messages published

Refusals == {"CLAIMS_MISSING", "CLAIMS_EXPIRED", "CLAIMS_UNBOUND", "UNAUTHORIZED"}

\* The codes of error objects, and the keys of their data.
Codes ==
  Refusals \cup {b.code : b \in ForeignReplies} \cup
  {"OK", "APP", "SERVER_ERROR", "INVALID_ENVELOPE", "REQUEST_TIMEOUT", "ValueError"}
Keys ==
  {"code_name", "retryable", "correlation_id", "method", "detail"} \cup
  UNION {b.data : b \in ForeignReplies}

ASSUME NamesAssumption ==
  /\ NonAscii \subseteq Methods
  /\ None \notin Ids \cup Methods \cup {"JWT"}
  /\ MaxTime \in Nat /\ MaxSends \in Nat

ASSUME ConfigsAssumption ==
  \A c \in Configs : c # None => c.algorithms \in Seq({"HS256", "RS256"})

ASSUME TokensAssumption ==
  \A i \in Ids, m \in Methods : \A t \in Tokens[i][m] :
    t # None => t.exp \in Nat \cup {None}

\* Other programs have replies of their own sent elsewhere, and codes of their own.
ASSUME ForeignAssumption ==
  /\ \A m \in Foreign : m.reply_to # "client"
  /\ ForeignReplies \subseteq
       [kind : {"result", "error", "neither", "no code"}, code : Codes,
        data : SUBSET Keys, of : {None}]
  /\ \A b \in ForeignReplies :
       b.code \notin Refusals /\ (b.kind = "result" => b.data = {})

VARIABLES
  auth,          \* the server's AuthConfig
  now,           \* time.time()
  queue,         \* the request queue
  job,           \* the delivery being handled, or None
  loop,          \* _loop: "up", or "ended" by an exception
  replies,       \* the client's reply queue
  call,          \* call[i]: the message request() has published for i, or None
  outcome,       \* outcome[i]: what request() returned or raised, or None
  ran,           \* what handlers have made of requests
  sends          \* messages published so far

vars == <<auth, now, queue, job, loop, replies, call, outcome, ran, sends>>

Init ==
  /\ auth \in Configs
  /\ now = 0
  /\ queue = <<>> /\ replies = <<>>
  /\ job = None /\ loop = "up"
  /\ call = [i \in Ids |-> None]
  /\ outcome = [i \in Ids |-> None]
  /\ ran = {}
  /\ sends = 0

-----------------------------------------------------------------------------
(* Envelopes and errors. *)

_ALLOWED_DATA_KEYS == {"code_name", "retryable", "correlation_id", "method"}

allowlist_error_data(data) == data \cap _ALLOWED_DATA_KEYS

\* Of error.data only the keys count; "of" is the run a value comes from.
Result(of) == [kind |-> "result", code |-> "OK", data |-> {}, of |-> of]
RpcError(code, data, of) ==
  [kind |-> "error", code |-> code, data |-> data, of |-> of]

make_error_data == {"code_name", "retryable", "correlation_id", "method"}

Refusal(code) == RpcError(code, make_error_data, None)

encode_request(m, i) == [jsonrpc |-> TRUE, method |-> m, id |-> i]

\* decode_message and decode_request refuse it.
Undecodable(body) == ~body.jsonrpc \/ body.method = None \/ body.id = None

encode_error(err) == [err EXCEPT !.data = allowlist_error_data(@)]

\* A body with neither a result nor an error object is refused; one whose
\* code is no number makes int() raise.
decode_response(body) ==
  IF body.kind = "result" THEN body
  ELSE IF body.kind = "error" THEN encode_error(body)
  ELSE IF body.kind = "neither" THEN Refusal("INVALID_ENVELOPE")
  ELSE RpcError("ValueError", {}, None)

-----------------------------------------------------------------------------
(* Claims. *)

attach_claims_headers(token) ==
  IF token = None THEN [typ |-> None, token |-> None]
  ELSE [typ |-> "JWT", token |-> token]

\* Signing with this algorithm and key is what the server's key verifies.
Genuine(alg) == IF alg = "HS256" THEN "secret" ELSE "private"

HasKey(c, alg) == IF alg = "HS256" THEN c.jwt_secret ELSE c.jwt_public_key

\* Operators named "...Bug" are faulty variants of the operator that follows
\* them; the mutation runs put them in its place.
jwt_decodeBug(token, alg) ==
  IF token.alg # alg \/ token.key # Genuine(alg) \/ None \in {token.exp, token.jti, token.method}
  THEN "invalid"
  ELSE IF token.exp < now THEN "expired" ELSE "claims"

\* PyJWT checks the signature, then that the claims are there, then the time.
jwt_decode(token, alg) ==
  IF token.alg # alg \/ token.key # Genuine(alg) \/ None \in {token.exp, token.jti, token.method}
  THEN "invalid"
  ELSE IF token.exp <= now THEN "expired" ELSE "claims"

\* One round of the loop over the algorithms.
Try(c, token, alg) ==
  IF HasKey(c, alg) THEN jwt_decode(token, alg) ELSE "no key"

LoopEndsBug(c, token, r) == Try(c, token, c.algorithms[1]) = r

\* The loop ends with r: every earlier algorithm found the token invalid.
LoopEnds(c, token, r) ==
  \E n \in 1..Len(c.algorithms) :
    /\ Try(c, token, c.algorithms[n]) = r
    /\ \A k \in 1..(n - 1) : Try(c, token, c.algorithms[k]) = "invalid"

\* hmac.compare_digest takes ASCII strings only: a TypeError otherwise.
Comparable(m, n) == {m, n} \cap NonAscii = {}

\* The first check that refuses decides; "claims" lets the request pass, and
\* "TypeError" is no RpcError.
verify_request(c, m, i, headers) ==
  LET token == headers.token
  IN  IF m \in c.public_methods THEN "claims"
      ELSE IF headers.typ = None /\ token = None THEN "CLAIMS_MISSING"
      ELSE IF headers.typ # "JWT" THEN "UNAUTHORIZED"
      ELSE IF token = None THEN "CLAIMS_MISSING"
      ELSE IF LoopEnds(c, token, "expired") THEN "CLAIMS_EXPIRED"
      ELSE IF ~LoopEnds(c, token, "claims") THEN "UNAUTHORIZED"
      ELSE IF token.jti # i THEN "CLAIMS_UNBOUND"
      ELSE IF ~Comparable(m, token.method) THEN "TypeError"
      ELSE IF token.method # m THEN "CLAIMS_UNBOUND"
      ELSE IF c.authorize_func = "refuses" THEN "UNAUTHORIZED"
      ELSE "claims"

-----------------------------------------------------------------------------
(* Messages. *)

Message(i, m, token) ==
  [body |-> encode_request(m, i), corr |-> i, reply_to |-> "client",
   headers |-> attach_claims_headers(token)]

Messages ==
  Foreign \cup
  UNION {{Message(x[1], x[2], t) : t \in Tokens[x[1]][x[2]]} : x \in Ids \X Methods}

ASSUME MessagesAssumption == None \notin Messages

Runs == [id : Ids, method : Methods]

Bodies ==
  [kind : {"result", "error", "neither", "no code"}, code : Codes,
   data : SUBSET Keys, of : Runs \cup {None}]

TypeOK ==
  /\ auth \in Configs
  /\ now \in Nat
  /\ queue \in Seq(Messages)
  /\ job \in Messages \cup {None}
  /\ loop \in {"up", "ended"}
  /\ replies \in Seq([corr : Ids, body : Bodies])
  /\ call \in [Ids -> Messages \cup {None}]
  /\ outcome \in [Ids -> Bodies \cup {None}]
  /\ sends \in Nat

-----------------------------------------------------------------------------
(* RpcClient.request, and what publishes its message again. *)

Send(m) ==
  /\ sends < MaxSends
  /\ sends' = sends + 1
  /\ queue' = Append(queue, m)

Request(i, m, token) ==
  /\ call[i] = None
  /\ call' = [call EXCEPT ![i] = Message(i, m, token)]
  /\ Send(Message(i, m, token))
  /\ UNCHANGED <<auth, now, job, loop, replies, outcome, ran>>

Waiting(i) == call[i] # None /\ outcome[i] = None

\* A reconnect publishes the parked request again, token and all.
Republish(i) ==
  /\ Waiting(i)
  /\ Send(call[i])
  /\ UNCHANGED <<auth, now, job, loop, replies, call, outcome, ran>>

\* request() returns or raises what the oldest reply decodes to; a reply
\* nobody waits for is dropped.  That the reply's correlation_id is the
\* call's is how it was found.
RequestReturnsBug ==
  /\ replies # <<>>
  /\ LET r == Head(replies)
     IN  outcome' = [i \in Ids |-> IF Waiting(i) THEN decode_response(r.body) ELSE outcome[i]]
  /\ replies' = Tail(replies)
  /\ UNCHANGED <<auth, now, queue, job, loop, call, ran, sends>>

RequestReturns ==
  /\ replies # <<>>
  /\ LET r == Head(replies)
     IN  outcome' = [i \in Ids |-> IF Waiting(i) /\ r.corr = i
                                   THEN decode_response(r.body) ELSE outcome[i]]
  /\ replies' = Tail(replies)
  /\ UNCHANGED <<auth, now, queue, job, loop, call, ran, sends>>

RequestTimeout(i) ==
  /\ Waiting(i)
  /\ outcome' = [outcome EXCEPT ![i] = Refusal("REQUEST_TIMEOUT")]
  /\ UNCHANGED <<auth, now, queue, job, loop, replies, call, ran, sends>>

-----------------------------------------------------------------------------
(* RpcServer._handle. *)

Deliverable == loop = "up" /\ job = None /\ queue # <<>>

\* The reply goes where the message asks for it, and carries its correlation
\* id; it is the client's to see when the message was.
Reply(msg, body) ==
  replies' = IF msg.reply_to = "client"
             THEN Append(replies, [corr |-> msg.corr, body |-> body])
             ELSE replies

Id(msg) == IF msg.corr = None THEN msg.body.id ELSE msg.corr

\* What stands before the handler: a code to refuse with, or "claims".
Check(msg) ==
  IF Undecodable(msg.body) \/ (msg.corr # None /\ msg.corr # msg.body.id)
  THEN "INVALID_ENVELOPE"
  ELSE IF auth = None THEN "claims"
  ELSE verify_request(auth, msg.body.method, Id(msg), msg.headers)

\* Whatever is no RpcError becomes "internal error", code -32000.
Code(check) == IF check = "TypeError" THEN "SERVER_ERROR" ELSE check

Refuse ==
  /\ Deliverable
  /\ LET msg == Head(queue)
     IN  /\ Check(msg) # "claims"
         /\ Reply(msg, encode_error(Refusal(Code(Check(msg)))))
  /\ queue' = Tail(queue)
  /\ UNCHANGED <<auth, now, job, loop, call, outcome, ran, sends>>

Begin ==
  /\ Deliverable
  /\ Check(Head(queue)) = "claims"
  /\ job' = Head(queue)
  /\ queue' = Tail(queue)
  /\ UNCHANGED <<auth, now, loop, replies, call, outcome, ran, sends>>

\* What the running handler's request comes to be called, and its end.
Run == [id |-> Id(job), method |-> job.body.method]

Ends ==
  /\ job' = None
  /\ UNCHANGED <<auth, now, queue, loop, call, outcome, sends>>

HandlerReturns ==
  /\ job # None /\ loop = "up"
  /\ Reply(job, Result(Run))
  /\ ran' = ran \cup {Result(Run)}
  /\ Ends

\* The handler raises RpcError with a code and data of its own.
HandlerRefuses ==
  /\ job # None /\ loop = "up"
  /\ LET err == RpcError("APP", {"code_name", "detail"}, Run)
     IN  /\ Reply(job, encode_error(err))
         /\ ran' = ran \cup {err}
  /\ Ends

\* It raises another exception, or what it returns is no JSON.
HandlerFails ==
  /\ job # None /\ loop = "up"
  /\ LET err == RpcError("SERVER_ERROR", make_error_data, Run)
     IN  /\ Reply(job, encode_error(err))
         /\ ran' = ran \cup {err}
  /\ Ends

\* It raises NackDelivery: the message is given up without a reply, or put
\* back.
HandlerNacks(requeue) ==
  /\ job # None /\ loop = "up"
  /\ queue' = IF requeue THEN <<job>> \o queue ELSE queue
  /\ job' = None
  /\ UNCHANGED <<auth, now, loop, replies, call, outcome, ran, sends>>

\* Its RpcError holds what json.dumps cannot encode: encode_error raises in
\* the except clause, and the exception ends the loop with the message unacked.
HandlerErrorUnencodable ==
  /\ job # None /\ loop = "up"
  /\ loop' = "ended"
  /\ UNCHANGED <<auth, now, queue, job, replies, call, outcome, ran, sends>>

-----------------------------------------------------------------------------
(* Around them. *)

\* The server's connection is lost, and another server takes its place: the
\* broker puts back what was not acked.
Redeliver ==
  /\ job # None
  /\ queue' = <<job>> \o queue
  /\ job' = None /\ loop' = "up"
  /\ UNCHANGED <<auth, now, replies, call, outcome, ran, sends>>

SendForeign ==
  /\ \E m \in Foreign : Send(m)
  /\ UNCHANGED <<auth, now, job, loop, replies, call, outcome, ran>>

\* A consumer of the queue that is not this library's answers in its own way.
AnswerForeign ==
  /\ queue # <<>>
  /\ \E b \in ForeignReplies : Reply(Head(queue), b)
  /\ queue' = Tail(queue)
  /\ UNCHANGED <<auth, now, job, loop, call, outcome, ran, sends>>

Tick ==
  /\ now < MaxTime
  /\ now' = now + 1
  /\ UNCHANGED <<auth, queue, job, loop, replies, call, outcome, ran, sends>>

Server ==
  \/ Refuse \/ Begin
  \/ HandlerReturns \/ HandlerRefuses \/ HandlerFails
  \/ HandlerNacks(TRUE) \/ HandlerNacks(FALSE) \/ HandlerErrorUnencodable

Next ==
  \/ \E i \in Ids :
       \/ \E m \in Methods : \E token \in Tokens[i][m] : Request(i, m, token)
       \/ Republish(i)
       \/ RequestTimeout(i)
  \/ RequestReturns
  \/ Server
  \/ Redeliver \/ SendForeign \/ AnswerForeign \/ Tick

Spec == Init /\ [][Next]_vars

-----------------------------------------------------------------------------
(* Properties. *)

\* A key the server holds, for an algorithm it accepts, verifies the token.
Signed(c, token) ==
  \E n \in 1..Len(c.algorithms) :
    /\ HasKey(c, c.algorithms[n])
    /\ token.alg = c.algorithms[n] /\ token.key = Genuine(c.algorithms[n])

Bound(token, i, m) == token.jti = i /\ token.method = m

MayRun(c, msg) ==
  \/ c = None
  \/ msg.body.method \in c.public_methods
  \/ LET token == msg.headers.token
     IN  /\ msg.headers.typ = "JWT" /\ token # None
         /\ Signed(c, token) /\ ~(token.exp <= now)
         /\ Bound(token, Id(msg), msg.body.method)
         /\ c.authorize_func # "refuses"

\* AuthConfig: "Methods not listed in public_methods require a verified JWT".
\* A handler starts for a public method, or for a request whose token a held
\* key verifies, is not expired at that moment, also after a redelivery, and
\* is bound to this very id and method.
OnlyAuthorised == [][job' # job /\ job' # None => MayRun(auth, job')]_vars

\* What request() gives back as the work of a handler is what a handler has
\* made of this request, whatever else is in flight under other ids, was
\* published twice or answered late; and no error, of whatever server, brings
\* data that is not on the allow-list.
OutcomeIsOwn ==
  \A i \in Ids : outcome[i] # None =>
    /\ outcome[i].data \subseteq make_error_data
    /\ outcome[i].of # None =>
         /\ outcome[i].of = [id |-> i, method |-> call[i].body.method]
         /\ \E run \in ran : run.of = outcome[i].of /\ run.code = outcome[i].code

\* Why a request with this token may be refused with this code.
Reason(c, msg, code) ==
  LET m == msg.body.method
      token == msg.headers.token
  IN  /\ code = "CLAIMS_MISSING" => token = None
      /\ code = "CLAIMS_EXPIRED" =>
           token # None /\ Signed(c, token) /\ token.exp # None /\ token.exp <= now
      /\ code = "CLAIMS_UNBOUND" => token # None /\ ~Bound(token, msg.corr, m)
      /\ code = "UNAUTHORIZED" =>
           \/ c.authorize_func = "refuses"
           \/ \E n \in 1..Len(c.algorithms) : ~HasKey(c, c.algorithms[n])
           \/ ~Signed(c, token) \/ None \in {token.exp, token.jti, token.method}

\* "missing, expired, unbound, or invalid signatures raise RpcError": the code
\* a caller gets names what was wrong with its own request when a server read
\* it, and a request with nothing wrong is not refused.
RefusalIsTrue ==
  \A i \in Ids : outcome[i] # None /\ outcome[i].code \in Refusals =>
    /\ auth # None /\ call[i].body.method \notin auth.public_methods
    /\ Reason(auth, call[i], outcome[i].code)
=============================================================================
