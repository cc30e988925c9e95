------------------------------- MODULE MCWire ------------------------------
(* Texts, tables, calls and messages of Wire's small instance. *)
EXTENDS Wire

T(n) == [i \in 1..n |-> 96 + i]                  \* a text of n octets
Body(n) == [i \in 1..n |-> (i * 7 + n) % 256]

plain == <<80, 76>>
server_properties ==                             \* each tag no client sends
  <<1, 97, 98, 1,   1, 98, 98, 254,   1, 66, 66, 254,
    1, 85, 85, 255, 254,   1, 117, 117, 255, 254,   1, 118, 117, 1, 3,
    1, 105, 105, 0, 1, 2, 3,   1, 108, 108, 0, 0, 0, 0, 0, 1, 2, 3,
    1, 102, 102, 1, 2, 3, 4,   1, 115, 115, 2, 104, 105,   1, 97, 86>>
server_means ==
  <<<<<<97>>, <<"none", 0>>>>, <<<<98>>, <<"int", -2>>>>, <<<<66>>, <<"int", 254>>>>,
    <<<<85>>, <<"short-int", -2>>>>, <<<<117>>, <<"short-uint", 65534>>>>,
    <<<<118>>, <<"short-uint", 259>>>>,
    <<<<105>>, <<"int", 66051>>>>, <<<<108>>, <<"int", 66051>>>>,
    <<<<102>>, <<"float", <<1, 2, 3, 4>>>>>>, <<<<115>>, <<"str", <<104, 105>>>>>>>>

amounts == <<<<T(2), <<"decimal", [scale |-> 2, value |-> 1234]>>>>, <<T(1), <<"str", T(3)>>>>>>
arguments == <<<<T(3), <<"str", T(7)>>>>, <<T(2), <<"int", 30000>>>>>>

script == <<open_channel(1), open_channel(2), confirm_select(2),
            exchange_declare(1, T(2), T(5), TRUE, FALSE),
            queue_declare(1, T(1), TRUE, FALSE, FALSE, arguments),
            queue_declare(2, T(3), FALSE, TRUE, TRUE, amounts),
            queue_bind(1, T(1), T(2), T(4)), basic_consume(1, T(1), <<99>>),
            basic_consume(2, T(3), T(2)), basic_cancel(2, T(2)), update_secret(T(9), T(1))>>

Message(key, mandatory, props, n) ==
  [args |-> [exchange |-> T(2), routing_key |-> key, mandatory |-> mandatory],
   props |-> props, body |-> Body(n)]

flat == <<<<T(1), <<"none", 0>>>>, <<T(2), <<"bool", TRUE>>>>, <<T(3), <<"int", -5>>>>,
          <<T(4), <<"int", 20000>>>>, <<<<90>>, <<"datetime", 70000>>>>>>
nested == <<<<<<>>, <<"dict", <<<<T(1), <<"list", <<<<"int", -20001>>, <<"bool", FALSE>>>>>>>>>>>>>>>>
others == <<<<T(1), <<"float", <<1, 2, 3, 4, 5, 6, 7, 8>>>>>>, <<T(2), <<"bytes", <<0, 206>>>>>>>>

programs == 1 :> <<Message(T(4), FALSE, [headers |-> flat, content_type |-> T(2)], 65),
                   Message(T(10), FALSE, << >>, 1),        \* raises: the key is too long
                   Message(T(4), FALSE,
                     [headers |-> others, correlation_id |-> T(1), reply_to |-> T(2),
                      delivery_mode |-> 2, timestamp |-> 70000], 64)>>
            @@ 2 :> <<Message(T(6), TRUE,
                        [content_encoding |-> T(1), headers |-> nested, priority |-> 9,
                         expiration |-> T(1), message_id |-> T(2), type |-> T(1),
                         user_id |-> T(3), app_id |-> T(1), cluster_id |-> T(2)], 1)>>
noises == <<"heartbeat", "blocked", "unblocked">>
bound == {T(4)}
=============================================================================
