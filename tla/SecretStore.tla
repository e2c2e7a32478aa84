------------------------------ MODULE SecretStore ------------------------------
(***************************************************************************)
(* Provider credentials: POST /provider-secrets/store puts one into the    *)
(* configured backend and audits it, GET /provider-secrets/readiness tells *)
(* where each provider's credential would come from, and the resolver of   *)
(* the provider proxy fetches it.                                          *)
(*                                                                         *)
(* A backend is an encrypted file, the memory of the process (for tests),  *)
(* or a service behind a command the server runs and waits for.  The       *)
(* command is killed after a timeout; the request it had already sent may  *)
(* then take effect later.  Nothing relates the backend to the snapshot    *)
(* with the audit records: one is written after the other.                 *)
(*                                                                         *)
(* A value is the number of the attempt that stored it.                    *)
(***************************************************************************)
EXTENDS Integers, Sequences, FiniteSets

CONSTANTS Refs,         \* secret references
          Providers,    \* providers a manifest can list
          Keys,         \* store keys an operator may configure
          Backends,     \* the backends looked at
          MaxAttempts,  \* bound: requests to store a secret
          MaxFaults     \* bound: failed writes, failed commands and crashes

ASSUME SecretBounds == MaxAttempts \in Nat /\ MaxFaults \in Nat

VARIABLES backend,  \* the backend of the deployment
          config,   \* the environment of the process
          manifest, \* the file of secret references: provider -> ref
          loaded,   \* the manifest the resolver read when the process started
          held,     \* what the backend's store holds: ref -> attempt, 0 for nothing
          sealed,   \* local file: the key each record is encrypted with
          late,     \* attempts of killed commands that can still take effect
          work,     \* the callback being executed
          sent,     \* attempts handed to the backend: attempt -> ref
          acked,    \* the last attempt answered with 201: ref -> attempt
          unsure,   \* attempts answered with an error or not at all
          audits,   \* attempts with an audit record: in memory and in the snapshot
          faults

vars == <<backend, config, manifest, loaded, held, sealed, late, work, sent, acked,
          unsure, audits, faults>>

-----------------------------------------------------------------------------
\* What sets the backends apart.  store is where values are kept; mapped means that
\* only references with a secret id of the service can be used.
LocalFile       == [id |-> "local_file", store |-> "file", mapped |-> FALSE]
HostedMemory    == [id |-> "hosted_memory", store |-> "memory", mapped |-> FALSE]
ExternalCommand == [id |-> "external_command", store |-> "service", mapped |-> FALSE]
Broker(id)      == [id |-> id, store |-> "service", mapped |-> TRUE]
Aws             == Broker("aws_secrets_manager")
Gcp             == Broker("gcp_secret_manager")
Azure           == Broker("azure_key_vault")
Vault           == Broker("hashicorp_vault")
OnePassword     == Broker("onepassword_secrets_automation")

\* createConfiguredProviderSecretStoreAdapter knows these.
Catalogue == {LocalFile, HostedMemory, ExternalCommand, Aws, Gcp, Azure, Vault, OnePassword}

ASSUME KnownBackends == Backends \subseteq Catalogue

NoRef    == "no ref"
AnyKey   == CHOOSE k \in Keys : TRUE
Attempts == 1 .. MaxAttempts

\* settings is "unset" without a path, key or command, "malformed" when the file or the
\* map of secret ids cannot be read, and "unusable" with a command that is never run: its
\* path is relative, or its arguments or its timeout are malformed.
Config == [settings : {"unset", "malformed", "unusable", "valid"}, key : Keys,
           map : SUBSET Refs, environment : SUBSET Providers]

\* A setting the backend does not read keeps one value.
ConfigFor(b) ==
  {c \in Config : /\ b.store # "file" => c.key = AnyKey
                  /\ b.store = "memory" => c.settings = "valid"
                  /\ c.settings = "unusable" => b.store = "service"
                  /\ c.settings = "malformed" => b.store = "file" \/ b.mapped
                  /\ ~b.mapped => c.map = {}}

Manifest == [Providers -> Refs \cup {NoRef}]
Idle     == [stage |-> "idle"]
Work     == {Idle} \cup [stage : {"stored"}, attempt : Attempts]

TypeOK == /\ backend \in Backends
          /\ config \in Config
          /\ manifest \in Manifest /\ loaded \in Manifest
          /\ held \in [Refs -> 0 .. Len(sent)]
          /\ sealed \in [Refs -> Keys]
          /\ work \in Work
          /\ sent \in Seq(Refs)
          /\ acked \in [Refs -> 0 .. Len(sent)]
          /\ late \subseteq unsure /\ unsure \subseteq DOMAIN sent
          /\ audits.disk \subseteq audits.mem /\ audits.mem \subseteq DOMAIN sent
          /\ faults \in 0 .. MaxFaults

Init == /\ backend \in Backends
        /\ config \in ConfigFor(backend)
        /\ manifest \in Manifest
        /\ loaded = manifest
        /\ held = [r \in Refs |-> 0]
        /\ sealed = [r \in Refs |-> config.key]
        /\ late = {}
        /\ work = Idle
        /\ sent = << >>
        /\ acked = [r \in Refs |-> 0]
        /\ unsure = {}
        /\ audits = [mem |-> {}, disk |-> {}]
        /\ faults = 0

-----------------------------------------------------------------------------
\* storeConfigured
StoreConfigured == config.settings # "unset"

\* The secret ids of a managed service are looked up for every action.
Reachable(r) == backend.mapped => r \in config.map

\* A command that is run fails if it does not answer in time, with JSON that says ok.
\* answered tells whether it does, for the one request it is run for.
CommandFails(answered) ==
  backend.store = "service" /\ (config.settings = "unusable" \/ ~answered)

\* configuredSecretRefs runs the command of a service, whatever the references.
ListingFails(answered) ==
  StoreConfigured /\ (config.settings = "malformed" \/ CommandFails(answered))

\* Mutated ConfiguredRefs: the service's answer is not limited to the mapped ids.
ConfiguredUnmapped == {r \in Refs : held[r] > 0}

\* configuredSecretRefs of the adapters
ConfiguredRefs == {r \in Refs : held[r] > 0 /\ Reachable(r)}

EnvironmentOr(p, nothing) == IF p \in config.environment THEN "environment" ELSE nothing

\* providerSecretReadiness of provider p, from the manifest as it is now.  The store is
\* asked for its references and nothing is decrypted.
Readiness(p, answered) ==
  CASE ListingFails(answered) -> "error"
    [] ~ListingFails(answered) /\ StoreConfigured /\ manifest[p] \in ConfiguredRefs -> "store"
    [] OTHER -> EnvironmentOr(p, "none")

\* decryptSecret throws for a record encrypted with another key.
Unreadable(r) == backend.store = "file" /\ held[r] > 0 /\ sealed[r] # config.key

\* resolveSecret of the adapters.  A managed one returns nothing for an unmapped
\* reference, before its command is looked at.
Stores(r, answered) ==
  CASE config.settings = "unset" -> "nothing"
    [] config.settings = "malformed" -> "error"
    [] config.settings \in {"unusable", "valid"} ->
         CASE ~Reachable(r) -> "nothing"
           [] Reachable(r) /\ (CommandFails(answered) \/ Unreadable(r)) -> "error"
           [] OTHER -> IF held[r] > 0 THEN "store" ELSE "nothing"

\* createProviderCredentialResolver for provider p of the loaded manifest: the store's
\* value, then the environment's; an error of the store is not caught.
Resolution(p, answered) ==
  CASE loaded[p] = NoRef -> "none"
    [] loaded[p] # NoRef -> LET s == Stores(loaded[p], answered)
                            IN  IF s = "nothing" THEN EnvironmentOr(p, "none") ELSE s

-----------------------------------------------------------------------------
\* storeProviderSecret hands attempt n for r to the adapter of the backend.  A request
\* without value, actor or reason, or with a malformed reference, changes nothing.
Attempt(r) == /\ work = Idle
              /\ config.settings = "valid"
              /\ Len(sent) < MaxAttempts
              /\ sent' = Append(sent, r)

n == Len(sent) + 1

Stored(r) == /\ held' = [held EXCEPT ![r] = n]
             /\ work' = [stage |-> "stored", attempt |-> n]

\* The client is answered with an error, whatever the backend did.
Fails == /\ faults < MaxFaults
         /\ faults' = faults + 1

\* The local file is read, changed and replaced by a rename; a failed write leaves it.
StoreInFile(r) ==
  /\ backend.store = "file"
  /\ Attempt(r)
  /\ \/ /\ Stored(r)
        /\ sealed' = [sealed EXCEPT ![r] = config.key]
        /\ UNCHANGED <<unsure, faults>>
     \/ /\ Fails
        /\ unsure' = unsure \cup {n}
        /\ UNCHANGED <<held, sealed, work>>
  /\ UNCHANGED <<backend, config, manifest, loaded, late, acked, audits>>

\* The hosted adapter puts the value into a Map of the process.
StoreInMemory(r) ==
  /\ backend.store = "memory"
  /\ Attempt(r)
  /\ Stored(r)
  /\ UNCHANGED <<backend, config, manifest, loaded, sealed, late, acked, unsure, audits, faults>>

\* The command of the service is run.  It stores the value and says so; it fails, or
\* does not say ok, with or without having stored it; or it is killed at the timeout,
\* and what it asked of the service is still under way.
StoreInService(r) ==
  /\ backend.store = "service"
  /\ Reachable(r)
  /\ Attempt(r)
  /\ \/ Stored(r) /\ UNCHANGED <<late, unsure, faults>>
     \/ /\ Fails
        /\ unsure' = unsure \cup {n}
        /\ \/ held' = [held EXCEPT ![r] = n] /\ UNCHANGED late
           \/ late' = late \cup {n} /\ UNCHANGED held
        /\ UNCHANGED work
  /\ UNCHANGED <<backend, config, manifest, loaded, sealed, acked, audits>>

\* An old request of a killed command takes effect, over newer ones.
LateStore ==
  /\ \E a \in late : /\ held' = [held EXCEPT ![sent[a]] = a]
                     /\ late' = late \ {a}
  /\ UNCHANGED <<backend, config, manifest, loaded, sealed, work, sent, acked, unsure,
                 audits, faults>>

\* Mutated Audited: the record goes to the snapshot and not into memory.
AuditedOnDiskOnly(a) == audits' = [audits EXCEPT !.disk = @ \cup {a}]

\* Mutated Audited: the client is answered before the snapshot is written.
AnsweredFirst(a) == audits' = [audits EXCEPT !.mem = @ \cup {a}]

\* recordAudit: the record is in memory, then the snapshot is written.
Audited(a) == audits' = [mem |-> audits.mem \cup {a}, disk |-> audits.mem \cup {a}]

\* recordProviderSecretWriteAudit and the answer.  If the snapshot cannot be written
\* the client reads an error; value and audit record stay.
AuditStore ==
  /\ work.stage = "stored"
  /\ work' = Idle
  /\ \/ /\ Audited(work.attempt)
        /\ acked' = [acked EXCEPT ![sent[work.attempt]] = work.attempt]
        /\ UNCHANGED <<unsure, faults>>
     \/ /\ Fails
        /\ audits' = [audits EXCEPT !.mem = @ \cup {work.attempt}]
        /\ unsure' = unsure \cup {work.attempt}
        /\ UNCHANGED acked
  /\ UNCHANGED <<backend, config, manifest, loaded, held, sealed, late, sent>>

\* GET readiness audits what it answers: its write saves earlier records too.  When the
\* store cannot list its references the client reads an error and nothing changes.
CheckReadiness ==
  /\ work = Idle
  /\ ~ListingFails(TRUE)
  /\ audits' = [audits EXCEPT !.disk = audits.mem]
  /\ UNCHANGED <<backend, config, manifest, loaded, held, sealed, late, work, sent,
                 acked, unsure, faults>>

-----------------------------------------------------------------------------
\* The operator edits the manifest; the resolver keeps the one it loaded.
EditManifest ==
  /\ manifest' \in Manifest
  /\ UNCHANGED <<backend, config, loaded, held, sealed, late, work, sent, acked, unsure,
                 audits, faults>>

\* The process ends, idle or in the middle of a request, and another starts, perhaps
\* with another key, map or environment.
Restart ==
  /\ config' \in ConfigFor(backend)
  /\ loaded' = manifest
  /\ held' = IF backend.store = "memory" THEN [r \in Refs |-> 0] ELSE held
  /\ work' = Idle
  /\ unsure' = IF work = Idle THEN unsure ELSE unsure \cup {work.attempt}
  /\ audits' = [audits EXCEPT !.mem = audits.disk]
  /\ UNCHANGED <<backend, manifest, sealed, late, sent, acked, faults>>

Next == \/ \E r \in Refs : StoreInFile(r) \/ StoreInMemory(r) \/ StoreInService(r)
        \/ LateStore \/ AuditStore \/ CheckReadiness \/ EditManifest \/ Restart

Spec == Init /\ [][Next]_vars

-----------------------------------------------------------------------------
\* The last value a client was told is stored is the one in the store and is audited in
\* the snapshot, for ever: only a value whose request got an error, or no answer, can
\* stand in its place, in the file only a newer one, and only the memory of a process
\* forgets it.  No value is ever found under the reference of another.
AcknowledgedSecretsAreKept ==
  \A r \in Refs :
    /\ held[r] > 0 => sent[held[r]] = r
    /\ acked[r] > 0 =>
         /\ acked[r] \in audits.disk
         /\ \/ held[r] = acked[r]
            \/ held[r] \in unsure
            \/ work # Idle /\ held[r] = work.attempt
            \/ backend.store = "memory" /\ held[r] = 0
         /\ backend.store = "file" => held[r] >= acked[r]

\* While the resolver has the manifest on disk, readiness names the source a provider's
\* credential comes from, for every outcome of the commands the two run, but where one
\* of them fails alone: the service answers only one of the two commands; readiness
\* calls a record of another key ready; and readiness fails for a reference without
\* secret id when the command is unusable, which the resolver never notices.
ReadinessIsHonest ==
  loaded = manifest =>
    \A p \in Providers :
      loaded[p] # NoRef =>
        \A listed, resolved \in BOOLEAN :
          LET said == Readiness(p, listed)
              got  == Resolution(p, resolved)
          IN  \/ said = got
              \/ said = "error" /\ ~listed
              \/ got = "error" /\ ~resolved
              \/ said = "store" /\ got = "error" /\ Unreadable(loaded[p])
              \/ /\ said = "error" /\ got = EnvironmentOr(p, "none")
                 /\ config.settings = "unusable" /\ ~Reachable(loaded[p])

=============================================================================
