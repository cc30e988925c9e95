----------------------------- MODULE MCHandling -----------------------------
EXTENDS Handling, TLC

Both == <<"HS256", "RS256">>
Config(secret, public, algorithms, verdict) ==
  [jwt_secret |-> secret, jwt_public_key |-> public, algorithms |-> algorithms,
   public_methods |-> {"health"}, authorize_func |-> verdict]
MCConfigs == {None,
              Config(TRUE, TRUE, Both, None),
              Config(FALSE, TRUE, Both, None),
              Config(TRUE, TRUE, Both, "refuses")}

Token(alg, key, exp, i, m) == [alg |-> alg, key |-> key, exp |-> exp, jti |-> i, method |-> m]

\* One of two calls is a plain one.
MCTokens == [i \in Ids |-> [m \in Methods |->
  IF i = "b" THEN IF m = "ping" THEN {Token("HS256", "secret", 2, i, m)} ELSE {}
  ELSE {None,
        Token("HS256", "secret", 1, i, m), Token("HS256", "other", 1, i, m),
        Token("HS256", "secret", 2, i, "health"), Token("HS256", "secret", 2, "f", m),
        Token("HS256", "secret", None, i, m), Token("RS256", "private", 1, i, m)}]]

\* Of programs of another kind: no id in the body; no correlation id, nowhere to
\* answer to and claims of another type.
Body(m, i) == [jsonrpc |-> TRUE, method |-> m, id |-> i]
Stray(body, corr, reply, typ, token) ==
  [body |-> body, corr |-> corr, reply_to |-> reply,
   headers |-> [typ |-> typ, token |-> token]]
MCForeign ==
  {Stray(Body("ping", None), "f", "other", None, None),
   Stray(Body("ping", "f"), None, None, "other", Token("HS256", "secret", 1, "f", "ping"))}

MCForeignReplies ==
  {[Result(None) EXCEPT !.kind = "neither"], [Result(None) EXCEPT !.kind = "no code"],
   RpcError("OTHER", {"code_name", "trace"}, None)}
=============================================================================
