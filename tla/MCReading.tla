------------------------------ MODULE MCReading -----------------------------
(* Reading's small instance: a payload's first octet says what it decodes to. *)
EXTENDS Reading, TLC

Ids == <<Deliver, Return, <<60, 80>>>>
method(payload) ==
  IF payload[1] \in 1..3 THEN Ok([id |-> Ids[payload[1]], args |-> payload], 2) ELSE Bad
content_header(payload) ==
  Ok([props |-> payload[1], body_size |-> payload[2]], 3)

S(m, n, ends) == [method |-> m, header |-> <<m[1], n>>, body |-> [i \in 1..n |-> 206 + i],
                  ends |-> ends]
sayings == 1 :> {S(<<1>>, 3, <<2, 3>>), S(<<3>>, 0, <<>>)}
           @@ 2 :> {S(<<2>>, 2, <<0, 2>>), S(<<1, 2>>, 0, <<>>)}
most == 1 :> 2 @@ 2 :> 1
=============================================================================
