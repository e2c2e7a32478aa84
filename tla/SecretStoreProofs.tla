---------------------------- MODULE SecretStoreProofs ----------------------------
(***************************************************************************)
(* Proofs about SecretStore for any references, providers, keys, backends  *)
(* and bounds.                                                             *)
(*                                                                         *)
(* That acknowledged secrets are kept is not inductive alone.  A request   *)
(* is acknowledged after its callback has audited it, and the command of   *)
(* an older request may take effect in between: IInv adds what the store   *)
(* holds while a callback is at work (CallbackInv) and that only killed    *)
(* commands of a service are still under way (LateInv).                    *)
(***************************************************************************)
EXTENDS SecretStore, SequenceTheorems, TLAPS

\* The audit records are two sets of attempts that were handed to the backend.
AuditsInv == audits \in [mem : SUBSET (DOMAIN sent), disk : SUBSET (DOMAIN sent)]

\* Only a service can have requests under way that nobody waits for.
LateInv == backend.store # "service" => late = {}

\* A callback at work has stored the newest attempt, and nothing but a late request
\* has taken its place.
CallbackInv ==
  work # Idle =>
    /\ work.attempt = Len(sent)
    /\ Len(sent) > 0
    /\ LET r == sent[work.attempt]
       IN  \/ held[r] = work.attempt
           \/ backend.store = "service" /\ held[r] \in unsure

\* An attempt is acknowledged under the reference it was made for.
AckedInv == \A r \in Refs : acked[r] > 0 => sent[acked[r]] = r

IInv == /\ TypeOK
        /\ AuditsInv
        /\ LateInv
        /\ CallbackInv
        /\ AckedInv
        /\ AcknowledgedSecretsAreKept

-----------------------------------------------------------------------------
\* A request appends its reference to those of the earlier attempts.
LEMMA AttemptFacts ==
  ASSUME sent \in Seq(Refs), NEW r \in Refs, sent' = Append(sent, r)
  PROVE  /\ sent' \in Seq(Refs)
         /\ Len(sent) \in Nat /\ n = Len(sent) + 1 /\ Len(sent') = n
         /\ DOMAIN sent = 1 .. Len(sent) /\ DOMAIN sent' = 1 .. n
         /\ sent'[n] = r
         /\ \A a \in DOMAIN sent : sent[a] \in Refs /\ sent'[a] = sent[a]
  BY AppendProperties, LenProperties, ElementOfSeq DEF n

\* Initially nothing is stored, acknowledged or under way.
LEMMA InitIInv == Init => IInv
<1> SUFFICES ASSUME Init PROVE IInv
  OBVIOUS
<1>1. sent = << >> /\ Len(sent) = 0 /\ sent \in Seq(Refs) /\ DOMAIN sent = {}
  BY DEF Init
<1>2. TypeOK
  BY <1>1, SecretBounds DEF Init, TypeOK, Config, ConfigFor, Work, Manifest
<1> QED
  BY <1>1, <1>2 DEF Init, IInv, AuditsInv, LateInv, CallbackInv, AckedInv,
                    AcknowledgedSecretsAreKept, Idle

\* A request for r that reaches an adapter of any backend does one of two things: the
\* new attempt is stored and its callback goes on to the audit, or the client reads an
\* error and the attempt stands, is under way (at a service), or is lost.
Reaches(r) ==
  /\ work = Idle
  /\ sent' = Append(sent, r)
  /\ backend' = backend /\ acked' = acked /\ audits' = audits
  /\ \/ /\ held' = [held EXCEPT ![r] = n]
        /\ work' = [stage |-> "stored", attempt |-> n]
        /\ late' = late /\ unsure' = unsure
     \/ /\ held' = held \/ held' = [held EXCEPT ![r] = n]
        /\ work' = work
        /\ late' = late \/ (backend.store = "service" /\ late' = late \cup {n})
        /\ unsure' = unsure \cup {n}

\* Whatever a new attempt comes to, nothing acknowledged is lost to it: what it
\* replaces, it replaces by a value of the same reference that is still being
\* executed or was answered with an error.
LEMMA ReachesKeeps ==
  ASSUME IInv, NEW r \in Refs, Reaches(r)
  PROVE  AuditsInv' /\ LateInv' /\ CallbackInv' /\ AckedInv' /\ AcknowledgedSecretsAreKept'
<1>1. /\ sent' \in Seq(Refs)
      /\ Len(sent) \in Nat /\ n = Len(sent) + 1 /\ Len(sent') = n
      /\ DOMAIN sent = 1 .. Len(sent) /\ DOMAIN sent' = 1 .. n
      /\ sent'[n] = r
      /\ \A a \in DOMAIN sent : sent[a] \in Refs /\ sent'[a] = sent[a]
  BY AttemptFacts DEF Reaches, IInv, TypeOK
<1>2. AuditsInv'
  BY <1>1 DEF Reaches, IInv, AuditsInv
<1>3. LateInv'
  BY DEF Reaches, IInv, LateInv
<1>4. CallbackInv'
  BY <1>1 DEF Reaches, IInv, TypeOK, CallbackInv, Idle
<1>5. AckedInv'
  BY <1>1 DEF Reaches, IInv, TypeOK, AckedInv
<1>6. AcknowledgedSecretsAreKept'
  <2> SUFFICES ASSUME NEW q \in Refs
               PROVE  /\ held'[q] > 0 => sent'[held'[q]] = q
                      /\ acked'[q] > 0 =>
                           /\ acked'[q] \in audits'.disk
                           /\ \/ held'[q] = acked'[q]
                              \/ held'[q] \in unsure'
                              \/ work' # Idle /\ held'[q] = work'.attempt
                              \/ backend'.store = "memory" /\ held'[q] = 0
                           /\ backend'.store = "file" => held'[q] >= acked'[q]
    BY DEF AcknowledgedSecretsAreKept
  <2>1. /\ held[q] \in 0 .. Len(sent) /\ acked[q] \in 0 .. Len(sent)
        /\ held[q] > 0 => sent[held[q]] = q
        /\ acked[q] > 0 =>
             /\ acked[q] \in audits.disk
             /\ \/ held[q] = acked[q]
                \/ held[q] \in unsure
                \/ backend.store = "memory" /\ held[q] = 0
             /\ backend.store = "file" => held[q] >= acked[q]
    BY DEF IInv, TypeOK, AcknowledgedSecretsAreKept, Reaches
  <2>2. CASE held' = held
    BY <1>1, <2>1, <2>2 DEF Reaches
  <2>3. CASE held' = [held EXCEPT ![r] = n]
    <3>1. held'[q] = IF q = r THEN n ELSE held[q]
      BY <2>3 DEF IInv, TypeOK
    <3>2. q = r => held'[q] \in unsure' \/ (work' # Idle /\ held'[q] = work'.attempt)
      BY <3>1 DEF Reaches, Idle
    <3> QED
      BY <1>1, <2>1, <3>1, <3>2 DEF Reaches
  <2> QED
    BY <2>2, <2>3 DEF Reaches
<1> QED
  BY <1>2, <1>3, <1>4, <1>5, <1>6

\* The types of what a request changes, for the adapters of all backends.
LEMMA ReachesType ==
  ASSUME IInv, NEW r \in Refs, Attempt(r), Reaches(r),
         config' = config, manifest' = manifest, loaded' = loaded,
         sealed' = sealed \/ sealed' = [sealed EXCEPT ![r] = config.key],
         faults' = faults \/ Fails
  PROVE  TypeOK'
<1> USE DEF IInv, TypeOK
<1>1. /\ sent' \in Seq(Refs)
      /\ Len(sent) \in Nat /\ n = Len(sent) + 1 /\ Len(sent') = n
      /\ DOMAIN sent = 1 .. Len(sent) /\ DOMAIN sent' = 1 .. n
  BY AttemptFacts DEF Reaches
<1>2. held' \in [Refs -> 0 .. Len(sent')] /\ acked' \in [Refs -> 0 .. Len(sent')]
  <2>1. \A q \in Refs : held[q] \in 0 .. Len(sent') /\ acked[q] \in 0 .. Len(sent')
    BY <1>1
  <2> QED
    BY <1>1, <2>1 DEF Reaches
<1>3. work' \in Work
  BY <1>1, SecretBounds DEF Reaches, Attempt, Work, Attempts
<1>4. config.key \in Keys
  BY DEF Config
<1>5. sealed' \in [Refs -> Keys]
  BY <1>4
<1>6. faults' \in 0 .. MaxFaults
  BY SecretBounds DEF Fails
<1>7. late' \subseteq unsure' /\ unsure' \subseteq DOMAIN sent'
  BY <1>1 DEF Reaches
<1>8. audits'.disk \subseteq audits'.mem /\ audits'.mem \subseteq DOMAIN sent'
  BY <1>1 DEF Reaches
<1> QED
  BY <1>1, <1>2, <1>3, <1>5, <1>6, <1>7, <1>8 DEF Reaches

\* The adapters of the three stores do what Reaches says.
LEMMA AdapterStep ==
  ASSUME IInv, NEW r \in Refs, StoreInFile(r) \/ StoreInMemory(r) \/ StoreInService(r)
  PROVE  IInv'
<1>1. /\ Attempt(r) /\ Reaches(r)
      /\ config' = config /\ manifest' = manifest /\ loaded' = loaded
      /\ sealed' = sealed \/ sealed' = [sealed EXCEPT ![r] = config.key]
      /\ faults' = faults \/ Fails
  <2>1. CASE StoreInFile(r)
    BY <2>1 DEF StoreInFile, Reaches, Attempt, Stored, Fails
  <2>2. CASE StoreInMemory(r)
    BY <2>2 DEF StoreInMemory, Reaches, Attempt, Stored
  <2>3. CASE StoreInService(r)
    BY <2>3 DEF StoreInService, Reaches, Attempt, Stored, Fails
  <2> QED
    BY <2>1, <2>2, <2>3
<1> QED
  BY <1>1, ReachesType, ReachesKeeps DEF IInv

\* An old request of a killed command takes the place of a newer value: it was answered
\* with an error, and only a service has such requests.
LEMMA LateStep == ASSUME IInv, LateStore PROVE IInv'
<1> USE DEF IInv
<1>1. PICK a \in late : /\ held' = [held EXCEPT ![sent[a]] = a]
                        /\ late' = late \ {a}
  BY DEF LateStore
<1>2. /\ a \in unsure /\ a \in DOMAIN sent /\ backend.store = "service"
      /\ DOMAIN sent = 1 .. Len(sent) /\ Len(sent) \in Nat /\ sent[a] \in Refs
  BY <1>1, LenProperties, ElementOfSeq DEF TypeOK, LateInv
<1>3. \A q \in Refs : held'[q] = IF q = sent[a] THEN a ELSE held[q]
  BY <1>1, <1>2 DEF TypeOK
<1>4. TypeOK'
  BY <1>1, <1>2, SMTT(30) DEF LateStore, TypeOK
<1>5. AuditsInv' /\ LateInv' /\ AckedInv'
  BY <1>1, <1>2 DEF LateStore, AuditsInv, LateInv, AckedInv
<1>6. CallbackInv'
  <2> SUFFICES ASSUME work # Idle
               PROVE  /\ work.attempt = Len(sent) /\ Len(sent) > 0
                      /\ \/ held'[sent[work.attempt]] = work.attempt
                         \/ /\ backend.store = "service"
                            /\ held'[sent[work.attempt]] \in unsure
    BY DEF LateStore, CallbackInv
  <2>1. work.attempt = Len(sent) /\ Len(sent) > 0
    BY DEF CallbackInv
  <2>2. sent[work.attempt] \in Refs
    BY <2>1, <1>2, ElementOfSeq DEF TypeOK
  <2> QED
    BY <1>2, <1>3, <2>1, <2>2 DEF CallbackInv
<1>7. AcknowledgedSecretsAreKept'
  BY <1>2, <1>3 DEF LateStore, AcknowledgedSecretsAreKept
<1> QED
  BY <1>4, <1>5, <1>6, <1>7

\* The callback's attempt becomes the acknowledged one, and the store holds it or a late
\* request's value; or the snapshot is not written and the attempt joins the unsure ones.
LEMMA AuditStep == ASSUME IInv, AuditStore PROVE IInv'
<1> USE DEF IInv
<1> DEFINE a == work.attempt
           r == sent[a]
<1>1. work # Idle
  BY DEF AuditStore, Idle
<1>2. /\ a = Len(sent) /\ Len(sent) \in Nat /\ Len(sent) > 0 /\ a \in 1 .. Len(sent)
      /\ DOMAIN sent = 1 .. Len(sent) /\ r \in Refs
      /\ held[r] = a \/ (backend.store = "service" /\ held[r] \in unsure)
  BY <1>1, LenProperties, ElementOfSeq DEF TypeOK, CallbackInv
<1>3. CASE /\ audits' = [mem |-> audits.mem \cup {a}, disk |-> audits.mem \cup {a}]
           /\ acked' = [acked EXCEPT ![r] = a]
           /\ UNCHANGED <<unsure, faults>>
  <2>1. \A q \in Refs : acked'[q] = IF q = r THEN a ELSE acked[q]
    BY <1>2, <1>3 DEF TypeOK
  <2>2. acked' \in [Refs -> 0 .. Len(sent)]
    BY <1>2, <1>3 DEF TypeOK
  <2>3. TypeOK' /\ AuditsInv'
    BY <1>2, <1>3, <2>2 DEF AuditStore, TypeOK, AuditsInv, Work
  <2>4. LateInv' /\ CallbackInv' /\ AckedInv'
    BY <1>2, <2>1 DEF AuditStore, LateInv, CallbackInv, AckedInv
  <2>5. ASSUME NEW q \in Refs
        PROVE  /\ held[q] > 0 => sent[held[q]] = q
               /\ acked'[q] > 0 =>
                    /\ acked'[q] \in audits'.disk
                    /\ \/ held[q] = acked'[q]
                       \/ held[q] \in unsure
                       \/ backend.store = "memory" /\ held[q] = 0
                    /\ backend.store = "file" => held[q] >= acked'[q]
    <3>1. CASE q = r
      BY <1>2, <1>3, <2>1, <3>1 DEF AcknowledgedSecretsAreKept
    <3>2. CASE q # r
      <4>1. held[q] # a
        BY <1>2, <3>2 DEF AcknowledgedSecretsAreKept
      <4>2. audits.disk \subseteq audits'.disk
        BY <1>3 DEF TypeOK
      <4> QED
        BY <1>2, <2>1, <3>2, <4>1, <4>2 DEF AcknowledgedSecretsAreKept
    <3> QED
      BY <3>1, <3>2
  <2>6. AcknowledgedSecretsAreKept'
    BY <1>3, <2>5 DEF AuditStore, AcknowledgedSecretsAreKept
  <2> QED
    BY <2>3, <2>4, <2>6
<1>4. CASE /\ Fails
           /\ audits' = [audits EXCEPT !.mem = @ \cup {a}]
           /\ unsure' = unsure \cup {a}
           /\ UNCHANGED acked
  <2>3. audits'.disk = audits.disk /\ audits'.mem = audits.mem \cup {a}
    BY <1>4 DEF AuditsInv
  <2>5. AuditsInv'
    BY <1>2, <1>4 DEF AuditStore, AuditsInv
  <2>6. faults' \in 0 .. MaxFaults
    BY <1>4, SecretBounds DEF TypeOK, Fails
  <2>1. TypeOK' /\ AuditsInv'
    BY <1>2, <1>4, <2>3, <2>5, <2>6 DEF AuditStore, TypeOK, Work
  <2>2. LateInv' /\ CallbackInv' /\ AckedInv'
    BY <1>4 DEF AuditStore, LateInv, CallbackInv, AckedInv
  <2>4. AcknowledgedSecretsAreKept'
    BY <1>4, <2>3 DEF AuditStore, AcknowledgedSecretsAreKept
  <2> QED
    BY <2>1, <2>2, <2>4
<1> QED
  BY <1>3, <1>4 DEF AuditStore, Audited

\* Reading readiness writes the snapshot: what memory has audited is on disk then.
LEMMA ReadinessStep == ASSUME IInv, CheckReadiness PROVE IInv'
<1> USE DEF IInv
<1>1. audits'.mem = audits.mem /\ audits'.disk = audits.mem
  BY DEF CheckReadiness, AuditsInv
<1>2. TypeOK' /\ AuditsInv' /\ LateInv' /\ CallbackInv' /\ AckedInv'
  BY <1>1 DEF CheckReadiness, TypeOK, AuditsInv, LateInv, CallbackInv, AckedInv
<1>3. AcknowledgedSecretsAreKept'
  BY <1>1 DEF CheckReadiness, TypeOK, AcknowledgedSecretsAreKept
<1> QED
  BY <1>2, <1>3

\* A restart gives up the callback at work: its attempt was not answered.
LEMMA RestartStep == ASSUME IInv, Restart PROVE IInv'
<1> USE DEF IInv
<1>1. audits'.mem = audits.disk /\ audits'.disk = audits.disk
  BY DEF Restart, AuditsInv
<1>2. work # Idle => work.attempt \in DOMAIN sent
  BY LenProperties DEF TypeOK, CallbackInv
<1>3. held' \in [Refs -> 0 .. Len(sent)]
  BY LenProperties DEF Restart, TypeOK
<1>4. TypeOK' /\ AuditsInv'
  BY <1>1, <1>2, <1>3 DEF Restart, TypeOK, AuditsInv, Work, ConfigFor
<1>5. LateInv' /\ CallbackInv' /\ AckedInv'
  BY DEF Restart, LateInv, CallbackInv, AckedInv
<1>6. ASSUME NEW q \in Refs
      PROVE  /\ held'[q] > 0 => sent[held'[q]] = q
             /\ acked[q] > 0 =>
                  /\ acked[q] \in audits'.disk
                  /\ \/ held'[q] = acked[q]
                     \/ held'[q] \in unsure'
                     \/ backend.store = "memory" /\ held'[q] = 0
                  /\ backend.store = "file" => held'[q] >= acked[q]
  <2>1. CASE backend.store = "memory"
    BY <1>1, <2>1 DEF Restart, AcknowledgedSecretsAreKept
  <2>2. CASE backend.store # "memory"
    BY <1>1, <2>2 DEF Restart, AcknowledgedSecretsAreKept
  <2> QED
    BY <2>1, <2>2
<1>7. AcknowledgedSecretsAreKept'
  BY <1>6 DEF Restart, AcknowledgedSecretsAreKept
<1> QED
  BY <1>4, <1>5, <1>7

\* The invariant holds in every state: of the store, the callback at work, the requests
\* under way and the audit records together.
THEOREM SecretInvariant == Spec => []IInv
<1>1. IInv /\ [Next]_vars => IInv'
  <2> SUFFICES ASSUME IInv, [Next]_vars PROVE IInv'
    OBVIOUS
  <2>1. ASSUME NEW r \in Refs, StoreInFile(r) \/ StoreInMemory(r) \/ StoreInService(r)
        PROVE  IInv'
    BY <2>1, AdapterStep
  <2>2. CASE LateStore
    BY <2>2, LateStep
  <2>3. CASE AuditStore
    BY <2>3, AuditStep
  <2>4. CASE CheckReadiness
    BY <2>4, ReadinessStep
  <2>5. CASE EditManifest
    BY <2>5 DEF EditManifest, IInv, TypeOK, AuditsInv, LateInv, CallbackInv, AckedInv,
                AcknowledgedSecretsAreKept
  <2>6. CASE Restart
    BY <2>6, RestartStep
  <2>7. CASE UNCHANGED vars
    BY <2>7 DEF vars, IInv, TypeOK, AuditsInv, LateInv, CallbackInv, AckedInv,
                AcknowledgedSecretsAreKept
  <2> QED
    BY <2>1, <2>2, <2>3, <2>4, <2>5, <2>6, <2>7 DEF Next
<1> QED
  BY <1>1, InitIInv, PTL DEF Spec

\* Backend, manifest, store, requests and audit records stay within their types.
THEOREM SecretTypes == Spec => []TypeOK
<1>1. IInv => TypeOK
  BY DEF IInv
<1> QED
  BY <1>1, SecretInvariant, PTL

\* The last value a client was told is stored stays in the store and in the audit of the
\* snapshot, but for values whose requests were answered with an error or not at all,
\* for every number of requests, faults and restarts.
THEOREM SecretsAreKept == Spec => []AcknowledgedSecretsAreKept
<1>1. IInv => AcknowledgedSecretsAreKept
  BY DEF IInv
<1> QED
  BY <1>1, SecretInvariant, PTL

\* While the resolver has the manifest on disk, readiness names the source of each
\* provider's credential, but where a command fails for one of the two alone, for a
\* record of another key and for an unmapped reference of an unusable command.
THEOREM ReadinessIsTrue == Spec => []ReadinessIsHonest
<1>1. TypeOK => ReadinessIsHonest
  <2> SUFFICES ASSUME TypeOK, loaded = manifest, NEW p \in Providers, loaded[p] # NoRef,
                      NEW listed \in BOOLEAN, NEW resolved \in BOOLEAN,
                      ~(Readiness(p, listed) = "error" /\ ~listed),
                      ~(Resolution(p, resolved) = "error" /\ ~resolved)
               PROVE  \/ Readiness(p, listed) = Resolution(p, resolved)
                      \/ /\ Readiness(p, listed) = "store" /\ Resolution(p, resolved) = "error"
                         /\ Unreadable(loaded[p])
                      \/ /\ Readiness(p, listed) = "error"
                         /\ Resolution(p, resolved) = EnvironmentOr(p, "none")
                         /\ config.settings = "unusable" /\ ~Reachable(loaded[p])
    BY Zenon DEF ReadinessIsHonest
  <2> DEFINE r == loaded[p]
             else == EnvironmentOr(p, "none")
  <2>1. /\ r \in Refs /\ r # NoRef /\ manifest[p] = r
        /\ held[r] \in Int /\ (held[r] > 0 \/ held[r] = 0)
        /\ config.settings \in {"unset", "malformed", "unusable", "valid"}
    BY LenProperties DEF TypeOK, Manifest, Config
  <2>2. Resolution(p, resolved) = IF Stores(r, resolved) = "nothing"
                                    THEN else ELSE Stores(r, resolved)
    BY <2>1 DEF Resolution
  <2>3. CASE config.settings = "unset"
    <3>1. Stores(r, resolved) = "nothing"
      BY <2>3 DEF Stores
    <3>2. Readiness(p, listed) = else
      BY <2>3 DEF Readiness, ListingFails, StoreConfigured
    <3> QED
      BY <2>2, <3>1, <3>2
  <2>4. CASE config.settings = "malformed"
    <3>1. Stores(r, resolved) = "error"
      BY <2>4 DEF Stores
    <3>2. Readiness(p, listed) = "error"
      BY <2>4 DEF Readiness, ListingFails, StoreConfigured
    <3> QED
      BY <2>2, <3>1, <3>2
  <2>5. CASE config.settings \in {"unusable", "valid"} /\ ~Reachable(r)
    <3>1. Stores(r, resolved) = "nothing" /\ Resolution(p, resolved) = else
      BY <2>2, <2>5 DEF Stores
    <3>2. CASE ListingFails(listed)
      <4>1. Readiness(p, listed) = "error" /\ listed
        BY <3>2 DEF Readiness
      <4>2. config.settings = "unusable"
        BY <2>5, <3>2, <4>1 DEF ListingFails, CommandFails
      <4> QED
        BY <2>5, <3>1, <4>1, <4>2
    <3>3. CASE ~ListingFails(listed)
      <4>1. Readiness(p, listed) = else
        BY <2>1, <2>5, <3>3 DEF Readiness, ConfiguredRefs
      <4> QED
        BY <3>1, <4>1
    <3> QED
      BY <3>2, <3>3
  <2>6. CASE config.settings \in {"unusable", "valid"} /\ Reachable(r)
    <3>1. CASE CommandFails(resolved)
      <4>1. Stores(r, resolved) = "error" /\ Resolution(p, resolved) = "error" /\ resolved
        BY <2>2, <2>6, <3>1 DEF Stores
      <4>2. ListingFails(listed)
        BY <2>6, <3>1, <4>1 DEF ListingFails, CommandFails, StoreConfigured
      <4>3. Readiness(p, listed) = "error"
        BY <4>2 DEF Readiness
      <4> QED
        BY <4>1, <4>3
    <3>2. CASE ~CommandFails(resolved)
      <4>1. ~ListingFails(listed)
        <5> SUFFICES ASSUME ListingFails(listed) PROVE FALSE
          OBVIOUS
        <5>1. Readiness(p, listed) = "error" /\ listed
          BY DEF Readiness
        <5> QED
          BY <2>6, <3>2, <5>1 DEF ListingFails, CommandFails
      <4>2. StoreConfigured
        BY <2>6 DEF StoreConfigured
      <4>3. CASE held[r] > 0
        <5>1. Readiness(p, listed) = "store"
          BY <2>1, <2>6, <4>1, <4>2, <4>3 DEF Readiness, ConfiguredRefs
        <5>2. Stores(r, resolved) = IF Unreadable(r) THEN "error" ELSE "store"
          BY <2>6, <3>2, <4>3 DEF Stores
        <5> QED
          BY <2>2, <5>1, <5>2
      <4>4. CASE held[r] = 0
        <5>1. Readiness(p, listed) = else
          BY <2>1, <4>1, <4>2, <4>4 DEF Readiness, ConfiguredRefs
        <5>2. Stores(r, resolved) = "nothing"
          BY <2>6, <3>2, <4>4 DEF Stores, Unreadable
        <5> QED
          BY <2>2, <5>1, <5>2
      <4> QED
        BY <2>1, <4>3, <4>4
    <3> QED
      BY <3>1, <3>2
  <2> QED
    BY <2>1, <2>3, <2>4, <2>5, <2>6
<1> QED
  BY <1>1, SecretTypes, PTL

=============================================================================
