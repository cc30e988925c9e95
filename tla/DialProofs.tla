----------------------------- MODULE DialProofs ----------------------------
(***************************************************************************)
(* Theorems about Dial, for any set of configurations and any number of    *)
(* rotations and attempts.                                                 *)
(*                                                                         *)
(* What the slots are resolved to is a function of the configuration, what *)
(* the hook returned and the version each file is read at; the lemmas      *)
(* about Resolved say what it gives when it does not raise, and the        *)
(* invariant carries that from the resolution to the end of the attempt,   *)
(* while the secrets go on being rotated.                                  *)
(***************************************************************************)
EXTENDS Dial, TLAPS

-----------------------------------------------------------------------------
(* The invariant. *)

Resolved_phases == {"handshake", "start", "started"}

ClockInv ==
  /\ config \in Configs
  /\ version \in Nat /\ since \in Nat
  /\ version <= MaxVersion /\ since <= version
  /\ phase = "resolve" => hooked \in Nat /\ since <= hooked /\ hooked <= version

\* A plain connection has no material, and nothing is said to the broker
\* before start-ok.
PhaseInv ==
  /\ phase \in {"idle", "hook", "resolve", "handshake", "start", "started", "failed"}
  /\ phase \in {"hook", "resolve", "handshake"} => config.tls
  /\ phase \in {"hook", "resolve", "handshake", "start"} => mechanism = "none"
  /\ phase \in Resolved_phases /\ ~config.tls => material = Empty

\* What slot s was resolved to: of its only source, and no older than the
\* attempt unless it is in the configuration itself.
SlotInv(m, s) ==
  IF m[s] = Absent THEN Given(s) = {}
  ELSE /\ m[s] \in Pems
       /\ Given(s) = {m[s].source}
       /\ m[s].source = "pkcs12" \/ s \notin config.blank
       /\ s \in config.hook \cup config.file \/ (config.p12 = "file" /\ s \in config.bag)
            => m[s].version >= since

MaterialInv ==
  phase \in Resolved_phases /\ config.tls => \A s \in Slots : SlotInv(material, s)

\* No profile that shows nothing comes with a certificate.
Shown ==
  \A c \in Configs :
    c.profile = "tls-insecure-dev-only" =>
      "cert" \notin c.hook \cup c.file \cup c.data \cup c.bag

\* The chain c is m's certificate with its own key.
Shows(m, c) ==
  /\ c # Absent
  /\ c[1] = m["cert"]
  /\ c[2].version = c[1].version

ChainInv ==
  phase \in Resolved_phases /\ config.tls /\ material["cert"] # Absent =>
    Shows(material, chain)

DialInv == ClockInv /\ PhaseInv /\ MaterialInv
ExternalInv == DialInv /\ ChainInv /\ ExternalIsShown

-----------------------------------------------------------------------------
(* What the slots are resolved to. *)

LEMMA PemTypes ==
  ASSUME NEW source \in Sources, NEW v \in Nat, v <= MaxVersion
  PROVE  /\ Pem(source, v) \in Pems
         /\ Pem(source, v).source = source
         /\ Pem(source, v).version = v
         /\ Pem(source, v) # Absent
         /\ Pem(source, v) # Error
<1>1. v \in 0..MaxVersion
  BY DialAssumption DEF DialAssumption
<1>2. Pem(source, v) \in Pems
  BY <1>1 DEF Pem, Pems
<1>3. Absent \notin Pems /\ Error \notin Pems
  BY Zenon, DialAssumption DEF DialAssumption
<1> QED
  BY <1>2, <1>3 DEF Pem

\* A slot that does not come from a PKCS#12 bag.
LEMMA MergedSlot ==
  ASSUME NEW at, NEW s \in Slots, Merged(s, at) # Error
  PROVE  \/ /\ Merged(s, at) = Absent
            /\ s \notin config.hook \cup config.file \cup config.data
         \/ /\ Merged(s, at) = Pem("hook", hooked)
            /\ s \in config.hook /\ s \notin config.file \cup config.data \cup config.blank
         \/ /\ Merged(s, at) = Pem("data", 0)
            /\ s \in config.data /\ s \notin config.hook \cup config.file \cup config.blank
         \/ /\ Merged(s, at) = Pem("file", at[s])
            /\ s \in config.file /\ s \notin config.hook \cup config.data \cup config.blank
<1>1. CASE s \in config.hook
  BY <1>1 DEF Merged
<1>2. CASE s \notin config.hook
  BY <1>2 DEF Merged, FileOrData
<1> QED
  BY <1>1, <1>2

\* Each slot is what its only source gave.
LEMMA ResolvedSlot ==
  ASSUME ClockInv, phase = "resolve", NEW at \in Readings,
         \A s \in Slots : Resolved(at)[s] # Error, NEW s \in Slots
  PROVE  SlotInv(Resolved(at), s)
<1>1. config \in ConfigType
  BY DialAssumption DEF ClockInv, DialAssumption
<1>2. /\ hooked \in Nat /\ since \in Nat
      /\ hooked <= MaxVersion /\ 0 <= MaxVersion /\ since <= hooked
      /\ \A x \in {"bag"} \cup Slots :
           at[x] \in Nat /\ at[x] <= MaxVersion /\ since <= at[x]
  <2>1. /\ hooked \in Nat /\ since \in Nat /\ version \in Nat /\ MaxVersion \in Nat
        /\ version <= MaxVersion /\ since <= version
        /\ since <= hooked /\ hooked <= version
    BY DialAssumption DEF ClockInv, DialAssumption
  <2>2. \A x \in {"bag"} \cup Slots : at[x] \in version..MaxVersion
    BY DEF Readings
  <2> QED
    BY <2>1, <2>2
<1>3. Absent # Error
  BY DialAssumption DEF DialAssumption
<1>4. ASSUME NEW t \in Slots, Resolved(at)[t] = Merged(t, at),
             config.p12 = "none" \/ t \notin config.bag
      PROVE  SlotInv(Resolved(at), t)
  <2>1. Merged(t, at) # Error
    BY <1>4
  <2>2. CASE /\ Merged(t, at) = Absent
             /\ t \notin config.hook \cup config.file \cup config.data
    <3>1. Given(t) = {}
      BY <2>2, <1>4 DEF Given, Sources
    <3> QED
      BY <3>1, <2>2, <1>4 DEF SlotInv
  <2>3. CASE /\ Merged(t, at) = Pem("hook", hooked)
             /\ t \in config.hook
             /\ t \notin config.file \cup config.data \cup config.blank
    <3>1. Given(t) = {"hook"}
      BY <2>3, <1>4 DEF Given, Sources
    <3>2. "hook" \in Sources
      BY DEF Sources
    <3> QED
      BY <3>1, <3>2, <2>3, <1>4, <1>2, PemTypes DEF SlotInv
  <2>4. CASE /\ Merged(t, at) = Pem("data", 0)
             /\ t \in config.data
             /\ t \notin config.hook \cup config.file \cup config.blank
    <3>1. Given(t) = {"data"}
      BY <2>4, <1>4 DEF Given, Sources
    <3>2. "data" \in Sources
      BY DEF Sources
    <3>3. ~(config.p12 = "file" /\ t \in config.bag)
      BY <1>4
    <3> QED
      BY <3>1, <3>2, <3>3, <2>4, <1>4, <1>2, PemTypes DEF SlotInv
  <2>5. CASE /\ Merged(t, at) = Pem("file", at[t])
             /\ t \in config.file
             /\ t \notin config.hook \cup config.data \cup config.blank
    <3>1. Given(t) = {"file"}
      BY <2>5, <1>4 DEF Given, Sources
    <3>2. "file" \in Sources
      BY DEF Sources
    <3>3. at[t] \in Nat /\ at[t] <= MaxVersion /\ since <= at[t]
      BY <1>2
    <3>4. /\ Pem("file", at[t]) \in Pems /\ Pem("file", at[t]) # Absent
          /\ Pem("file", at[t]).source = "file" /\ Pem("file", at[t]).version >= since
      BY <3>2, <3>3, <1>2, PemTypes
    <3> QED
      BY <3>1, <3>4, <2>5, <1>4 DEF SlotInv
  <2> QED
    BY <2>1, <2>2, <2>3, <2>4, <2>5, MergedSlot
<1>5. CASE config.p12 = "none"
  <2>1. Resolved(at)[s] = Merged(s, at)
    BY <1>5 DEF Resolved
  <2> QED
    BY <2>1, <1>4, <1>5
<1>6. CASE config.p12 # "none"
  <2>1. ~BagRefused /\ ~Conflicts
    BY <1>6 DEF Resolved
  <2>2. Resolved(at) = [t \in Slots |-> IF t \in config.bag
                        THEN Pem("pkcs12", IF config.p12 = "file" THEN at["bag"] ELSE 0)
                        ELSE IF t = "ca" THEN Merged("ca", at) ELSE Absent]
    BY <2>1, <1>6 DEF Resolved
  <2>3. "cert" \in config.bag /\ "key" \in config.bag
    BY <2>1 DEF BagRefused
  <2>4. CASE s \in config.bag
    <3>1. s \notin config.hook \cup config.file \cup config.data
      BY <2>1, <2>4 DEF Conflicts, Slots
    <3>2. Given(s) = {"pkcs12"}
      BY <3>1, <2>4, <1>6 DEF Given, Sources
    <3>3. "pkcs12" \in Sources
      BY DEF Sources
    <3>4. Resolved(at)[s] = Pem("pkcs12", IF config.p12 = "file" THEN at["bag"] ELSE 0)
      BY <2>2, <2>4
    <3>5. CASE config.p12 = "file"
      <4>1. at["bag"] \in Nat /\ at["bag"] <= MaxVersion /\ since <= at["bag"]
        BY <1>2
      <4>2. Resolved(at)[s] = Pem("pkcs12", at["bag"])
        BY <3>4, <3>5
      <4> QED
        BY <3>1, <3>2, <3>3, <4>1, <4>2, <1>2, PemTypes DEF SlotInv
    <3>6. CASE config.p12 # "file"
      BY <3>1, <3>2, <3>3, <3>4, <3>6, <1>2, PemTypes DEF SlotInv
    <3> QED
      BY <3>5, <3>6
  <2>5. CASE s \notin config.bag
    <3>1. s = "ca"
      BY <2>3, <2>5 DEF Slots
    <3>2. Resolved(at)[s] = Merged(s, at)
      BY <2>2, <2>5, <3>1
    <3> QED
      BY <3>2, <2>5, <1>4
  <2> QED
    BY <2>4, <2>5
<1> QED
  BY <1>5, <1>6

-----------------------------------------------------------------------------
(* One step. *)

LEMMA DialInit == Init => DialInv
<1>1. SUFFICES ASSUME Init PROVE DialInv
  OBVIOUS
<1>2. ClockInv
  BY <1>1, DialAssumption DEF Init, ClockInv, DialAssumption
<1>3. PhaseInv
  BY <1>1 DEF Init, PhaseInv, Resolved_phases
<1>4. MaterialInv
  BY <1>1 DEF Init, MaterialInv, Resolved_phases
<1> QED
  BY <1>2, <1>3, <1>4 DEF DialInv

\* A slot stays what it is while the attempt goes on.
LEMMA SlotKept ==
  ASSUME NEW s \in Slots, SlotInv(material, s),
         UNCHANGED <<config, since, material>>
  PROVE  SlotInv(material, s)'
<1>1. Given(s)' = Given(s)
  BY DEF Given
<1> QED
  BY <1>1 DEF SlotInv

LEMMA DialStep ==
  ASSUME DialInv, [Next]_vars
  PROVE  DialInv'
<1> USE DEF DialInv
<1>1. CASE Begin
  <2>1. ClockInv'
    BY <1>1 DEF Begin, ClockInv
  <2>2. PhaseInv'
    BY <1>1 DEF Begin, PhaseInv, Resolved_phases
  <2>3. MaterialInv'
    BY <1>1 DEF Begin, MaterialInv, Resolved_phases
  <2> QED
    BY <2>1, <2>2, <2>3
<1>2. CASE Fetch
  <2>1. ClockInv'
    BY <1>2 DEF Fetch, ClockInv
  <2>2. PhaseInv'
    BY <1>2 DEF Fetch, PhaseInv, Resolved_phases
  <2>3. MaterialInv'
    BY <1>2 DEF Fetch, MaterialInv, Resolved_phases
  <2> QED
    BY <2>1, <2>2, <2>3
<1>3. CASE Resolve
  <2>1. phase' \in {"failed", "handshake"} /\ phase = "resolve"
    BY <1>3 DEF Resolve
  <2>2. UNCHANGED <<config, since, hooked, mechanism>>
    BY <1>3 DEF Resolve
  <2>3. ClockInv'
    <3>1. PICK at \in Readings : version' = at["key"]
      BY <1>3 DEF Resolve
    <3>2. at["key"] \in version..MaxVersion
      BY DEF Readings, Slots
    <3> QED
      BY <2>1, <2>2, <3>1, <3>2, DialAssumption DEF ClockInv, DialAssumption
  <2>4. PhaseInv'
    BY <2>1, <2>2 DEF PhaseInv, Resolved_phases
  <2>5. MaterialInv'
    <3>1. SUFFICES ASSUME phase' = "handshake", NEW s \in Slots
                   PROVE  SlotInv(material, s)'
      BY <2>1 DEF MaterialInv, Resolved_phases
    <3>2. PICK at \in Readings :
            material' = Resolved(at) /\ \A t \in Slots : Resolved(at)[t] # Error
      BY <1>3, <3>1 DEF Resolve
    <3>3. SlotInv(Resolved(at), s)
      BY <2>1, <3>2, ResolvedSlot
    <3>4. Given(s)' = Given(s)
      BY <2>2 DEF Given
    <3> QED
      BY <3>2, <3>3, <3>4, <2>2 DEF SlotInv
  <2> QED
    BY <2>3, <2>4, <2>5
<1>4. CASE Handshake
  <2>1. /\ phase = "handshake" /\ phase' \in {"start", "failed"}
        /\ UNCHANGED <<config, version, since, hooked, material, mechanism>>
    BY <1>4 DEF Handshake, dialVars
  <2>2. ClockInv'
    BY <2>1 DEF ClockInv
  <2>3. PhaseInv'
    BY <2>1 DEF PhaseInv, Resolved_phases
  <2>4. MaterialInv'
    BY <2>1, SlotKept DEF MaterialInv, Resolved_phases
  <2> QED
    BY <2>2, <2>3, <2>4
<1>5. CASE Start
  <2>1. /\ phase = "start" /\ phase' \in {"started", "failed"}
        /\ UNCHANGED <<config, version, since, hooked, material>>
    BY <1>5 DEF Start
  <2>2. ClockInv'
    BY <2>1 DEF ClockInv
  <2>3. PhaseInv'
    <3>1. Empty' = Empty
      BY DEF Empty, Slots
    <3> QED
      BY <2>1, <3>1 DEF PhaseInv, Resolved_phases
  <2>4. MaterialInv'
    BY <2>1, SlotKept DEF MaterialInv, Resolved_phases
  <2> QED
    BY <2>2, <2>3, <2>4
<1>6. CASE Again
  <2>1. phase' = "idle" /\ UNCHANGED <<config, version, since>>
    BY <1>6 DEF Again, dialVars
  <2>2. ClockInv'
    BY <2>1 DEF ClockInv
  <2>3. PhaseInv'
    BY <2>1 DEF PhaseInv, Resolved_phases
  <2>4. MaterialInv'
    BY <2>1 DEF MaterialInv, Resolved_phases
  <2> QED
    BY <2>2, <2>3, <2>4
<1>7. CASE Rotate
  <2>1. /\ version < MaxVersion /\ version' = version + 1
        /\ UNCHANGED <<config, phase, since, hooked, material, mechanism>>
    BY <1>7 DEF Rotate, dialVars
  <2>2. ClockInv'
    BY <2>1, DialAssumption DEF ClockInv, DialAssumption
  <2>3. PhaseInv'
    BY <2>1 DEF PhaseInv, Resolved_phases
  <2>4. MaterialInv'
    BY <2>1, SlotKept DEF MaterialInv, Resolved_phases
  <2> QED
    BY <2>2, <2>3, <2>4
<1>8. CASE UNCHANGED vars
  <2>1. UNCHANGED <<config, version, phase, since, hooked, material, mechanism>>
    BY <1>8 DEF vars, dialVars
  <2>2. ClockInv'
    BY <2>1 DEF ClockInv
  <2>3. PhaseInv'
    BY <2>1 DEF PhaseInv, Resolved_phases
  <2>4. MaterialInv'
    BY <2>1, SlotKept DEF MaterialInv, Resolved_phases
  <2> QED
    BY <2>2, <2>3, <2>4
<1> QED
  BY <1>1, <1>2, <1>3, <1>4, <1>5, <1>6, <1>7, <1>8 DEF Next

-----------------------------------------------------------------------------
(* What the context shows. *)

LEMMA ChainShows ==
  ASSUME NEW m, m["cert"] \in Pems, m["key"] = Absent \/ m["key"] \in Pems,
         Chain(m) # Error
  PROVE  Shows(m, Chain(m))
<1>1. Absent \notin Pems \X Pems
  BY Zenon, DialAssumption DEF DialAssumption
<1>2. CASE m["key"] = Absent
  <2>1. Chain(m) = <<m["cert"], m["cert"]>>
    BY <1>2 DEF Chain
  <2>2. Chain(m) \in Pems \X Pems
    BY <2>1
  <2> QED
    BY <2>1, <2>2, <1>1 DEF Shows
<1>3. CASE m["key"] # Absent
  <2>1. Chain(m) = <<m["cert"], m["key"]>> /\ m["key"].version = m["cert"].version
    BY <1>3 DEF Chain
  <2>2. Chain(m) \in Pems \X Pems
    BY <2>1, <1>3
  <2> QED
    BY <2>1, <2>2, <1>1 DEF Shows
<1> QED
  BY <1>2, <1>3

\* Where there is a certificate and the context is made, it shows it.
LEMMA ContextShows ==
  ASSUME Shown, DialInv, phase = "resolve", NEW m, \A s \in Slots : SlotInv(m, s),
         m["cert"] # Absent, Context(m) # Error
  PROVE  Shows(m, Context(m))
<1>1. SlotInv(m, "cert") /\ SlotInv(m, "key")
  BY DEF Slots
<1>2. m["cert"] \in Pems /\ (m["key"] = Absent \/ m["key"] \in Pems)
  BY <1>1 DEF SlotInv
<1>3. "cert" \in config.hook \cup config.file \cup config.data \cup config.bag
  <2>1. Given("cert") # {}
    BY <1>1 DEF SlotInv
  <2> QED
    BY <2>1 DEF Given
<1>4. config.profile # "tls-insecure-dev-only"
  BY <1>3 DEF Shown, DialInv, ClockInv
<1>5. Chain(m) # Error /\ Context(m) = Chain(m)
  BY <1>4 DEF Context
<1> QED
  BY <1>2, <1>5, ChainShows

LEMMA ExternalStep ==
  ASSUME Shown, ExternalInv, [Next]_vars
  PROVE  ExternalInv'
<1>1. DialInv'
  BY DialStep DEF ExternalInv
<1>2. DialInv /\ ChainInv /\ ExternalIsShown
  BY DEF ExternalInv
<1>3. CASE Begin
  <2>1. /\ mechanism' = "none"
        /\ phase' \notin Resolved_phases \/ ~config'.tls
    BY <1>3 DEF Begin, Resolved_phases
  <2> QED
    BY <2>1, <1>1 DEF ExternalInv, ChainInv, ExternalIsShown
<1>4. CASE Resolve
  <2>1. mechanism' = "none"
    BY <1>4, <1>2 DEF Resolve, DialInv, PhaseInv
  <2>2. ExternalIsShown'
    BY <2>1 DEF ExternalIsShown
  <2>3. ChainInv'
    <3>1. phase' \in {"failed", "handshake"} /\ phase = "resolve"
      BY <1>4 DEF Resolve
    <3>2. SUFFICES ASSUME phase' = "handshake", material'["cert"] # Absent
                   PROVE  Shows(material, chain)'
      BY <3>1 DEF ChainInv, Resolved_phases
    <3>3. PICK at \in Readings :
            /\ material' = Resolved(at) /\ \A s \in Slots : Resolved(at)[s] # Error
            /\ Context(Resolved(at)) # Error /\ chain' = Context(Resolved(at))
      BY <1>4, <3>2 DEF Resolve
    <3>4. \A s \in Slots : SlotInv(Resolved(at), s)
      BY <3>1, <3>3, <1>2, ResolvedSlot DEF DialInv
    <3>5. Shows(Resolved(at), Context(Resolved(at)))
      BY <3>1, <3>2, <3>3, <3>4, <1>2, ContextShows
    <3> QED
      BY <3>3, <3>5 DEF Shows
  <2> QED
    BY <1>1, <2>2, <2>3 DEF ExternalInv
<1>5. CASE Start
  <2>1. phase = "start" /\ UNCHANGED <<config, material, chain>>
    BY <1>5 DEF Start
  <2>2. ChainInv'
    BY <2>1, <1>2 DEF ChainInv, Shows, Resolved_phases
  <2>3. ExternalIsShown'
    <3>1. SUFFICES ASSUME mechanism' = "EXTERNAL" PROVE ExternalIsShown'
      BY DEF ExternalIsShown
    <3>2. material["cert"] # Absent
      BY <1>5, <3>1 DEF Start, SelectSasl
    <3>3. config.tls
      BY <2>1, <3>2, <1>2 DEF DialInv, PhaseInv, Resolved_phases, Empty, Slots
    <3>4. Shows(material, chain)
      BY <2>1, <3>2, <3>3, <1>2 DEF ChainInv, Resolved_phases
    <3> QED
      BY <2>1, <3>3, <3>4 DEF ExternalIsShown, Shows
  <2> QED
    BY <1>1, <2>2, <2>3 DEF ExternalInv
<1>6. CASE Fetch \/ Handshake \/ Again \/ Rotate \/ UNCHANGED vars
  <2>1. UNCHANGED <<config, material, chain, mechanism>>
    BY <1>6 DEF Fetch, Handshake, Again, Rotate, vars, dialVars
  <2>2. phase' \in Resolved_phases => phase \in Resolved_phases
    BY <1>6 DEF Fetch, Handshake, Again, Rotate, vars, Resolved_phases
  <2>3. ChainInv'
    BY <2>1, <2>2, <1>2 DEF ChainInv, Shows
  <2>4. ExternalIsShown'
    BY <2>1, <1>2 DEF ExternalIsShown
  <2> QED
    BY <1>1, <2>3, <2>4 DEF ExternalInv
<1> QED
  BY <1>3, <1>4, <1>5, <1>6 DEF Next

-----------------------------------------------------------------------------
(* The theorems. *)

\* Of the invariant: what was resolved stays what its source gave, while the
\* secrets go on being rotated (tls_material, connect).
THEOREM Invariant == Spec => []DialInv
<1>1. Init => DialInv
  BY DialInit
<1>2. DialInv /\ [Next]_vars => DialInv'
  BY DialStep
<1> QED
  BY <1>1, <1>2, PTL DEF Spec

\* A connection goes on only with slots that one source gave
\* (resolve_tls_material, _merge_slot, _assert_pkcs12_exclusive).
THEOREM OneSourceEach == Spec => []OneSource
<1>1. DialInv => OneSource
  BY DEF DialInv, MaterialInv, SlotInv, OneSource, Resolved_phases
<1> QED
  BY <1>1, Invariant, PTL

\* No attempt uses secrets that were rotated away before it began, but those
\* in the configuration itself (_invoke_secrets, _resolve_pkcs12).
THEOREM Fresh == Spec => []SecretsAreFresh
<1>1. DialInv => SecretsAreFresh
  <2>1. SUFFICES ASSUME DialInv, phase \in Resolved_phases, NEW s \in Slots,
                        material[s] # Absent,
                        \/ s \in config.hook \cup config.file
                        \/ config.p12 = "file" /\ s \in config.bag
                 PROVE  material[s].version >= since
    BY DEF SecretsAreFresh, Resolved_phases
  <2>2. config.tls
    BY <2>1 DEF DialInv, PhaseInv, Empty
  <2> QED
    BY <2>1, <2>2 DEF DialInv, MaterialInv, SlotInv
<1> QED
  BY <1>1, Invariant, PTL

\* EXTERNAL stands for a certificate the TLS session shows, if no profile that
\* shows none comes with a certificate (_select_sasl, _build_ssl_context).
THEOREM ExternalShown ==
  ASSUME Shown
  PROVE  Spec => []ExternalIsShown
<1>1. Init => ExternalInv
  BY DialInit DEF Init, ExternalInv, ChainInv, ExternalIsShown, Resolved_phases
<1>2. ExternalInv /\ [Next]_vars => ExternalInv'
  BY ExternalStep
<1>3. ExternalInv => ExternalIsShown
  BY DEF ExternalInv
<1> QED
  BY <1>1, <1>2, <1>3, PTL DEF Spec
=============================================================================
