-------------------------------- MODULE Dial -------------------------------
(***************************************************************************)
(* The certificates and credentials of a connection attempt: tls_material, *)
(* _build_ssl_context and _select_sasl, over secrets that are rotated      *)
(* while attempts are made.  An attempt awaits the secrets hook and the    *)
(* TLS handshake; everything else it does in one go, but reads its files   *)
(* one after the other, which another process may replace meanwhile.       *)
(*                                                                         *)
(* Each attempt has a new AmqpConnection with the same ConnectionConfig, as *)
(* the session makes them.                                                 *)
(***************************************************************************)
EXTENDS Naturals, FiniteSets

CONSTANTS
  Configs,             \* the configurations an application may start with
  Absent,
  Error,               \* what raises ValueError, TypeError or OSError
  MaxVersion,          \* bound: rotations of the secrets
  MaxDials             \* bound: connection attempts

Slots == {"ca", "cert", "key"}
Profiles == {"tls-verify-full", "tls-verify-custom-san", "tls-insecure-dev-only"}

\* The slots the hook, the PEM files, the PEM data and the PKCS#12 bag fill; a
\* blank slot is given and empty.  alone: the certificate's PEM has its key too.
ConfigType ==
  [tls : BOOLEAN, profile : Profiles, allowed : BOOLEAN, hook : SUBSET Slots,
   file : SUBSET Slots, data : SUBSET Slots, blank : SUBSET Slots,
   p12 : {"none", "file", "data", "both"}, bag : SUBSET Slots, alone : BOOLEAN]

\* What fills a slot: where it comes from, and the version of the secrets.
Sources == {"hook", "file", "data", "pkcs12"}
Pems == [source : Sources, version : 0..MaxVersion]

ASSUME DialAssumption ==
  /\ Configs \subseteq ConfigType
  /\ MaxVersion \in Nat /\ MaxDials \in Nat
  /\ Absent # Error
  /\ {Absent, Error} \cap (Pems \cup Pems \X Pems) = {}

VARIABLES
  config,
  version,       \* of the secrets, wherever they are kept
  phase,         \* of connect()
  since,         \* the version when the attempt began
  hooked,        \* the version of what the hook returned
  material,      \* _tls_material: for each slot Absent, or its source and version
  chain,         \* the certificate and key of the context, or Absent
  mechanism,     \* SASL, "none" before start-ok
  dials

dialVars == <<since, hooked, material, chain, mechanism>>
vars == <<config, version, phase, dialVars, dials>>

Empty == [s \in Slots |-> Absent]
Pem(source, v) == [source |-> source, version |-> v]

Init ==
  /\ config \in Configs
  /\ version = 0 /\ phase = "idle" /\ since = 0 /\ hooked = Absent
  /\ material = Empty /\ chain = Absent /\ mechanism = "none" /\ dials = 0

-----------------------------------------------------------------------------
(* tls_material. *)

\* _slot_from_file_or_data: data in the configuration is what it was at first,
\* a file what it is when it is read.
FileOrData(s, at) ==
  IF \/ s \in config.file \cap config.data
     \/ s \in (config.file \cup config.data) \cap config.blank THEN Error
  ELSE IF s \in config.data THEN Pem("data", 0)
  ELSE IF s \in config.file THEN Pem("file", at[s])
  ELSE Absent

\* Operators named "...Bug" are faulty variants of the operator that follows
\* them; the mutation runs put them in its place.
MergedBug(s, at) == IF s \in config.hook THEN Pem("hook", hooked) ELSE FileOrData(s, at)

\* _merge_slot: what the hook returned, else the data, else the file.
Merged(s, at) ==
  IF s \notin config.hook THEN FileOrData(s, at)
  ELSE IF s \in config.file \cup config.data \cup config.blank THEN Error
  ELSE Pem("hook", hooked)

\* _load_pkcs12 of _resolve_pkcs12: both inputs, or a bag without a certificate
\* or without a key, raise.
BagRefused == config.p12 = "both" \/ ~({"cert", "key"} \subseteq config.bag)

\* _assert_pkcs12_exclusive
Conflicts ==
  \/ {"cert", "key"} \cap (config.hook \cup config.file \cup config.data) # {}
  \/ "ca" \in config.bag /\ "ca" \in config.hook \cup config.file \cup config.data

\* resolve_tls_material: a function of the slots, Error in one if it raises.
Resolved(at) ==
  IF config.p12 = "none" THEN [s \in Slots |-> Merged(s, at)]
  ELSE IF BagRefused \/ Conflicts THEN [s \in Slots |-> Error]
  ELSE [s \in Slots |-> IF s \in config.bag
                        THEN Pem("pkcs12", IF config.p12 = "file" THEN at["bag"] ELSE 0)
                        ELSE IF s = "ca" THEN Merged("ca", at) ELSE Absent]

-----------------------------------------------------------------------------
(* The SSL context and SASL. *)

\* _load_cert_chain: the key of another certificate, or none, is refused, and
\* so is a key the PEM of the certificate does not hold.
Chain(m) ==
  IF m["key"] = Absent THEN IF config.alone THEN <<m["cert"], m["cert"]>> ELSE Error
  ELSE IF m["key"].version # m["cert"].version THEN Error
  ELSE <<m["cert"], m["key"]>>

\* _build_ssl_context: the insecure profile returns before the certificate is
\* loaded; the allowlist is looked at last.
Context(m) ==
  IF config.profile = "tls-insecure-dev-only" THEN Absent
  ELSE IF m["cert"] # Absent /\ Chain(m) = Error THEN Error
  ELSE IF config.profile = "tls-verify-custom-san" /\ ~config.allowed THEN Error
  ELSE IF m["cert"] # Absent THEN Chain(m)
  ELSE Absent

SelectSaslBug(offered) ==
  IF "EXTERNAL" \in offered THEN "EXTERNAL"
  ELSE IF "PLAIN" \in offered THEN "PLAIN" ELSE "rejected"

\* _select_sasl: rejected if the broker offers nothing the library can do.
SelectSasl(offered) ==
  IF "EXTERNAL" \in offered /\ material["cert"] # Absent THEN "EXTERNAL"
  ELSE IF "PLAIN" \in offered THEN "PLAIN" ELSE "rejected"

-----------------------------------------------------------------------------
(* connect(). *)

Begin ==
  /\ phase = "idle" /\ dials < MaxDials
  /\ dials' = dials + 1
  /\ since' = version
  /\ material' = Empty /\ chain' = Absent /\ mechanism' = "none"
  /\ phase' = IF config.tls THEN "hook" ELSE "start"
  /\ UNCHANGED <<config, version, hooked>>

FetchBug ==
  /\ phase = "hook"
  /\ phase' = "resolve"
  /\ hooked' = IF hooked = Absent THEN version ELSE hooked
  /\ UNCHANGED <<config, version, since, material, chain, mechanism, dials>>

\* _invoke_secrets: the hook reads the secrets, and returns later.
Fetch ==
  /\ phase = "hook"
  /\ phase' = "resolve"
  /\ hooked' = version
  /\ UNCHANGED <<config, version, since, material, chain, mechanism, dials>>

\* The version each file is read at, one after the other: between two of them
\* the secrets may be rotated.
Readings ==
  {at \in [{"bag"} \cup Slots -> version..MaxVersion] :
     at["bag"] <= at["ca"] /\ at["ca"] <= at["cert"] /\ at["cert"] <= at["key"]}

Resolve ==
  /\ phase = "resolve"
  /\ \E at \in Readings :
       /\ version' = at["key"]
       /\ IF \E s \in Slots : Resolved(at)[s] = Error
          THEN phase' = "failed" /\ UNCHANGED <<material, chain>>
          ELSE LET context == Context(Resolved(at))
               IN /\ material' = Resolved(at)
                  /\ chain' = IF context = Error THEN Absent ELSE context
                  /\ phase' = IF context = Error THEN "failed" ELSE "handshake"
  /\ UNCHANGED <<config, since, hooked, mechanism, dials>>

\* The handshake, or the dial of a plain connection, succeeds or raises.
Handshake ==
  /\ phase = "handshake"
  /\ phase' \in {"start", "failed"}
  /\ UNCHANGED <<config, version, dialVars, dials>>

Start ==
  /\ phase = "start"
  /\ \E offered \in SUBSET {"EXTERNAL", "PLAIN"} :
       /\ mechanism' = SelectSasl(offered)
       /\ phase' = IF SelectSasl(offered) = "rejected" THEN "failed" ELSE "started"
  /\ UNCHANGED <<config, version, since, hooked, material, chain, dials>>

\* The attempt failed or its connection is lost: the session may try again.
Again ==
  /\ phase \in {"failed", "started"}
  /\ phase' = "idle"
  /\ UNCHANGED <<config, version, dialVars, dials>>

\* External: an operator puts a new certificate and key in place.
Rotate ==
  /\ version < MaxVersion
  /\ version' = version + 1
  /\ UNCHANGED <<config, phase, dialVars, dials>>

Next == Begin \/ Fetch \/ Resolve \/ Handshake \/ Start \/ Again \/ Rotate
Spec == Init /\ [][Next]_vars

-----------------------------------------------------------------------------
(* Properties. *)

Given(s) ==
  {x \in Sources :
     \/ x = "hook" /\ s \in config.hook
     \/ x = "file" /\ s \in config.file
     \/ x = "data" /\ s \in config.data
     \/ x = "pkcs12" /\ config.p12 # "none" /\ s \in config.bag}

\* A connection goes on only with material that was asked for in one place:
\* each slot is what its only source gave, and never blank, whichever of the
\* hook, the files, the data and the PKCS#12 bag are combined
\* (resolve_tls_material; docs/concepts/tls-profiles-and-material.md).
OneSource ==
  config.tls /\ phase \in {"handshake", "start", "started"} =>
    \A s \in Slots :
      IF material[s] = Absent THEN Given(s) = {}
      ELSE Given(s) = {material[s].source} /\ (material[s].source = "pkcs12" \/ s \notin config.blank)

\* EXTERNAL is chosen only where the TLS session shows the broker the
\* certificate it stands for, with its own key (_select_sasl looks at the
\* material, _build_ssl_context decides what is shown).
ExternalIsShown ==
  mechanism = "EXTERNAL" =>
    /\ config.tls /\ chain # Absent
    /\ chain[1] = material["cert"] /\ chain[2].version = chain[1].version

\* An attempt never uses secrets rotated away before it began, wherever they
\* come from but the configuration itself: the hook is invoked and the files
\* are read again on each connect().
SecretsAreFresh ==
  phase \in {"handshake", "start", "started"} =>
    \A s \in Slots :
      /\ material[s] # Absent
      /\ \/ s \in config.hook \cup config.file
         \/ config.p12 = "file" /\ s \in config.bag
      => material[s].version >= since
=============================================================================
