------------------------------ MODULE MCNotify ------------------------------
EXTENDS Notify, TLC

\* One method of two segments and one name with a segment in common.
MCservice == "p" :> <<"orders">> @@ "q" :> <<"billing">>
MCmethods == "p" :> << <<"create">>, <<"eu", "create">> >> @@ "q" :> << <<"create">> >>
=============================================================================
