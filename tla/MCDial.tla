------------------------------- MODULE MCDial ------------------------------
(* Configurations of Dial's small instance: every way to give the           *)
(* certificate, with the ways to give the other slots that meet it.        *)
EXTENDS Dial

Plain == [tls |-> TRUE, profile |-> "tls-verify-full", allowed |-> TRUE, hook |-> {},
          file |-> {}, data |-> {}, blank |-> {}, p12 |-> "none", bag |-> {}, alone |-> FALSE]

\* The insecure profile is here with configurations that have no certificate.
configs ==
  {[Plain EXCEPT !.hook = h, !.file = f, !.data = d, !.blank = b, !.alone = (b = {})] :
     h, f, d \in SUBSET Slots, b \in {{}, {"ca"}, {"cert"}, {"key"}}}
  \cup {[Plain EXCEPT !.hook = h, !.file = f, !.data = d, !.p12 = p, !.bag = g] :
     h, f, g \in SUBSET Slots, d \in {{}, {"ca"}}, p \in {"file", "data", "both"}}
  \cup {[Plain EXCEPT !.data = d, !.profile = "tls-verify-custom-san", !.allowed = a] :
     d \in SUBSET Slots, a \in BOOLEAN}
  \cup {[Plain EXCEPT !.profile = "tls-insecure-dev-only", !.file = {"ca"}],
        [Plain EXCEPT !.tls = FALSE, !.data = Slots], [Plain EXCEPT !.file = {"cert"}]}
=============================================================================
