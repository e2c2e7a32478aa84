# Divinity Code: verification project

TLA+ models of the Divinity control plane (`src/apps/api/src/server.mjs` and the
packages it is built from), the TLC runs that check them and the TLAPS proofs
about them. The definitions follow the code; `PROJECT.json` names, for each
definition, the lines it stands for.

1. [Inventory](#1-inventory) - the system, its state, its hard behaviours
2. [Plan](#2-plan) - modules, runs and theorems, done and to do
3. [RunLifecycle](#3-runlifecycle) 4. [StepExecution](#4-stepexecution-and-executionlease) 5. [PreflightPolicy](#5-preflightpolicy)
6. [ProviderProxy](#6-providerproxy) 7. [ProviderStream](#7-providerstream) 8. [RunEvidence](#8-runevidence)
9. [SecretStore](#9-secretstore) 10. [ReleasePromotion](#10-releasepromotion) 11. [Runs and bounds](#11-runs-and-bounds) 12. [Proofs](#12-proofs)
13. [Divergences](#13-divergences-between-documents-and-code) 14. [Not modelled](#14-not-modelled)

## 1. Inventory

The server is one Node process. All state is in memory (`runs`, `artifacts`,
`auditRecords`), and `run-store` rewrites one JSON snapshot of all of it, by
write and rename, on every `recordAudit` and at the end of most handlers. On
start the snapshot is read back. Clients are the CLI, the dashboard and an IDE
extension; agents are clients too. Three things make it hard to reason about:

* **Two-phase requests.** Routes match, and most guards are tested, when the
  headers arrive; the change is made by the `readJson` callback when the body has
  arrived (`server.mjs:163`). Everything in between can have changed.
* **Many writes in one callback.** A callback is synchronous but persists several
  times; a crash between two writes leaves a snapshot no complete handler makes.
  A failed write throws: guarded handlers answer 400 and keep the change in
  memory, unguarded ones end the process.
* **Processes that outlive each other.** Commands run in child processes under
  `spawnSync`, locks expire by the clock, and a restarted server meets both.

| Component | State | Operations | Interacts with | Hard | Correct when | Module |
|---|---|---|---|---|---|---|
| Run lifecycle, approval flow (`server.mjs`, `approval-*`, `connectors`, `heartbeats`) | `run.status`, `approval`, `approval_revision`, comments, references, heartbeats | `POST /tasks`, approval, revision, resubmit, comments, connectors, heartbeat, the pause by a step | events, audit, store, policy engine | two-phase requests, several writes, restarts | status, decision, timeline, audit and snapshot tell one story | RunLifecycle |
| Events (`events`) | `run.events` | push | every handler, event stream | order of events and statuses | the timeline replays to the status | RunLifecycle |
| Audit log (`audit`) | `auditRecords` | append, export, hash | every handler | loss between event and record, payload shared with live objects | every event and every stored secret has its record | RunLifecycle, SecretStore (which records) |
| Run store (`run-store`) | the snapshot | load, persist | every handler | crash between writes | stored history only grows | RunLifecycle, StepExecution, RunEvidence |
| Step execution (`execution`, `verification`) | `run.steps`, `executions`, `verifications` | record step, execute, retry | locks, workspace, policy gate | crash while a command runs, repeated step ids | attempts form a chain, refused steps do not work | StepExecution |
| Execution locks (`execution-locks`) | `execution_locks`, `active_execution_lock` | acquire, release, fail, recover | step execution, clock | expiry between two clock reads, orphaned commands | at most one live lock, work under a live lock is alone | StepExecution, ExecutionLease |
| Policy engine, packs, budget incidents | none (incidents go into the run) | preflight, step gate | lifecycle, steps | thresholds and budgets at their boundaries, several rules at once | verdicts are monotone, pauses are explained | PreflightPolicy |
| Goals (`goals`) | `run.goals` | complete with evidence | lifecycle, memory | two-phase completion, saved before its event | a completed goal names passed verifications of its run | RunEvidence |
| Workspaces (`workspaces`, `runner-isolation`) | `run.workspace`, a directory | create, use, clean up | step execution, disk | directory and record change separately, run ids given twice | a directory that exists is known to a record, a missing one is known to be cleaned | RunEvidence |
| Provider proxy (`provider-proxy`) | limit ledger, usage ledger (files) | route, rotate, chat, stream | providers, secrets, CLI | state read before an await and used after it; two processes rewrite one file | usage is counted once, the overrun of a budget is bounded, limited providers are left alone | ProviderProxy; streamed answers in ProviderStream |
| Provider tools (`provider-tool-*`) | approvals and executions of a run | approve, execute | provider proxy, toolsets | approvals are not consumed, work precedes its record | every write is approved and on record | RunEvidence |
| Provider secrets (`provider-secrets`) | an encrypted file, a Map or a service; the manifest | store, resolve, readiness | provider proxy, audit, operators | killed commands that act later, write before audit, rotated keys | an acknowledged secret is kept and audited, readiness is what the resolver does | SecretStore |
| Event stream, observability | subscribers | subscribe, broadcast, summary | every handler | handlers that answer without a broadcast | subscribers see every status | none |
| Toolsets, provider runtime | none | resolve | proxy, tasks | precedence of enabled and disabled | resolution meets its definition | none |
| Release tooling (`release-artifacts`) | files under `dist/`, the registry, the GitHub release | builds, signing, reports, promotion | CI, npm, gh, build and signing commands | scripts overlap, stop halfway or are killed while their commands go on | signatures belong to their files, nothing is promoted past a gate, a version promoted halfway stays so, the report tells the truth | ReleasePromotion |
| Orchestration, agent activity, memory, artifacts | records in the run | derived at creation | lifecycle | none | - | none |
| CLI, dashboard, IDE extension, catalogues | none | requests, views | API | none of their own | - | none |

The hazards this leads to, each at its line and with the properties that cover
it, are in `PROJECT.json` under `hazards`.

## 2. Plan

| # | Module | Composes | Status |
|---|---|---|---|
| 1 | RunLifecycle: run, timeline, audit, snapshot | - | done |
| 2 | RunLifecycleProofs: its inductive invariant and safety theorems | 1 | done |
| 3 | ExecutionLease: the abstract promise of the locks | - | done |
| 4 | StepExecution: steps, attempts, locks, commands, restarts | implements 3 | done |
| 5 | PreflightPolicy: the decision procedure, over all inputs of a small domain | - | done |
| 6 | ProviderProxy: ledgers, rotation and concurrent chats | - | done |
| 7 | RunEvidence: workspaces, tool calls and goals around one snapshot | - | done |
| 8 | SecretStore: credentials in their backends | - | done |
| 9 | ReleasePromotion: builds, signatures, gates, promotion | - | done |
| 10 | ProviderStream: the normalisation of streamed answers | - | done |
| 11 | StepExecutionProofs: the locks, the lease, and the refinement of 3 | 3, 4 | done |
| 12 | the history in StepExecutionProofs: attempts, executions and starts | 11 | done |
| 13 | SecretStoreProofs | 8 | done |
| 14 | ReleasePromotionProofs | 9 | done |
| 15 | PreflightPolicyProofs | 5 | done |
| 16 | RunEvidenceProofs | 7 | done |
| 17 | ProviderProxyProofs: the ledgers, the windows and the overrun bound | 6 | done |
| 18 | the counting properties of RunLifecycle | 2 | done |
| 19 | ProviderStreamProofs: any reply, cut into chunks in any way | 10 | done |
| 20 | StepExecution under the workspace of RunEvidence: work in a removed directory | 4, 7 | later |

Every safety property the passing runs check is proved. Worth doing next are the leases of ExecutionLease on a
StepExecution that shares its run with the workspaces of RunEvidence (20).

## 3. RunLifecycle

One run. `run` is the object in memory together with the positions of its events
that have an audit record; `stored` is the same in the snapshot; `inflight` holds
the requests between header check and body; `callback` is the body callback being
executed and the stage that comes next; `faults` counts crashes and failed writes.

| Action | Code |
|---|---|
| `CreateTask`, `AuditRun` | `POST /tasks`: run and three events, then `recordRunAudit`, one snapshot write per event |
| `Accept` / `Drop` | the header checks of all POST routes of a run / a client that goes away or a refused body |
| `Decide`, `Revise`, `Resubmit` | first stage of the approval routes: record set and audited |
| `ChangeStatus` | second stage: both events, the status, audit of the first event |
| `AuditLast` | last stage: audit of the newest event, `persist` |
| `Annotate`, `Heartbeat`, `HeartbeatEvent` | comments and connector references (one stage and `AuditLast`), heartbeats (audited before the event exists) |
| `StepRecorded`, `StepPausesRun` | the two ways `POST steps` ends, as far as the run's status is concerned |
| `SaveFails`, `Crash` | a throwing `persist` in a guarded handler; death and restart |

Each stage ends in exactly one snapshot write, so the process can die after
every write the code makes. Stages of one callback are not interleaved with
handlers: Node runs a callback to its end. What is abstracted: actors, texts,
identifiers and times; the several writes that repeat the same state; the
`run_created`, `artifact_record`, `connector_reference`, `approval_*` and incident
audit entries beside the `run_event` ones, whose write is merged with the
stage they belong to. Run ids are unique (two tasks in one millisecond are a
listed hazard).

Properties: `ApprovalOnlyWhenRequired` (late requests never queue a run preflight
did not send to approval), `NoOutcomeWithoutDecision` (also in every snapshot a crash
can leave), `DecisionExplainsStatus` (two accepted decisions), `TimelineReplaysStatus`,
`AuditGapsBounded` (faults lose a bounded number of audit records; none without faults),
`NotesOnTimeline`, `StoredHistoryGrows`.

## 4. StepExecution and ExecutionLease

`ExecutionLease` is the abstract promise: leases 1, 2, ... are granted when all earlier
ones are over, work starts only under the newest and beside workers whose lease is
over, and work may outlive its lease. `StepExecution` implements it: the leases are
the locks of the snapshot, a lease is over when its lock is not `locked` or has
expired, the workers are the commands running (`Lease`, checked as `ImplementsLease`).

`mem` and `disk` are the run in memory and in the snapshot, `work` the callback being
executed, `commands` the locks whose command runs, `ran` counts command starts.
Time is `lapsed`: locks live ten minutes each and are taken one after the other,
so they expire in order and `lapsed` says how many have.

| Action | Code |
|---|---|
| `RecordStep` | `POST steps` with the three kinds of verdict |
| `Execute` | find the step, `createExecutionAttemptState`, `recoverStaleExecutionLocks` (first clock read) |
| `TellRecovered` | `recordExecutionLock` of each recovered lock |
| `LockConflict` / `AcquireLock` | `activeExecutionLock` (second clock read): 409, or the new lock, persisted |
| `StartCommand`, `RefuseStep`, `NoAdapter` | `executeStep`: a child process, `ensureExecutableStep` throwing, no adapter for the action |
| `CommandEnds` | `spawnSync` returns; execution, verification and step status recorded |
| `LaterWriteFails`, `ReleaseLock`, `FailLock` | the rest of the try block, its release and the catch block |
| `RecoverLocks`, `RecoverDone` | the recover endpoint |
| `Lapse`, `Crash`, `OrphanEnds` | the clock; death and restart, with any subset of the commands surviving; a surviving command ends |

Because a handler checks everything inside the callback and `spawnSync` blocks the
event loop, locks never exclude two handlers of one process; they exist for restarts,
and the properties are about those: `OneLiveLock`, `LockOnDiskBeforeWork`,
`ActiveFieldAgrees`, `StartsAlone` (no command starts beside one whose lock has not
expired, the orphans of dead processes included), `ImplementsLease`; and about the
bookkeeping: `AttemptsFormChain`, `WorkIsAccounted` (a command start without a record
costs a fault: execution is at least once after a crash), `RefusedStepsNeverWork`
(step ids may repeat), `LockEndsOnTimeline`.

What is not claimed: a command may run beside another whose lock has expired, and
after a crash a step may work a second time without being counted as a retry.
`LockEndsOnTimeline` promises an end event only below three faults. With three crashes
the code loses one: the clock race of the execute handler leaves an expired lock
unrecovered beside a new one, a second crash leaves that one locked too, and
a third crash between the events of the two recovered locks forgets the second event.

**Fairness** (`FairSpec`, for `CallbackEnds` and `LocksEnd`). `WF(Handler)`: the
event loop runs a callback that has started to its end. `WF(Lapse)`: time passes.
Two assumptions are about the outside and not about the code: `WF(CommandEnds)`,
the commands of steps end (the adapter sets no timeout), and `WF(RecoverLocks)`,
somebody keeps posting to the recover endpoint; nothing in the server recovers a
lock by itself. Crashes are not fair and bounded in number.

## 5. PreflightPolicy

The decision procedure of `policy-engine`, with the packs and incidents around it.
A text is the set of action rules whose patterns match it and whether a hook's
pattern does, so all texts the engine can tell apart are enumerated. Prices are in
quarters of a dollar (`riskCost` has multiples of 0.25 only, the rounding to cents
changes nothing). `CreateRun` is `POST /tasks`, `GateStep` is `POST steps` with the
task's own policy, budget and pack. `Review` stands for the approval, revision and resubmit routes, whose
bodies may be applied late (RunLifecycle has them in full): of a run that preflight sent to approval it makes any
status a review can leave, and it leaves the incidents alone. `VerdictsAreMonotone` compares the verdicts of a
run with each other and with preflight: more work is never decided more leniently, and
a step within the objective is never decided more strictly than the objective.
`WiderPresetsAllowMore` orders the four presets. `HardCapsPause` ties the pause to the incidents, which the
code derives separately: a creation or a step that records a hard incident leaves the run paused, one that pauses
a run that was not paused records it, and such a step is blocked. It says nothing of the pause between
these steps, which a revision request makes without an incident (`server.mjs:1010`) and a resubmission or a late
approval lifts in spite of one (`server.mjs:1037`, `1110`); only a run whose task itself is over the cap, which nobody may review, stays paused.

`policy`, `budget` and `scope` are taken as the server normalises them; a task that
brings a policy object instead of an id, or a limit that is not a number, is not
modelled.

## 6. ProviderProxy

A chat chooses its provider and checks its budget, sends its request, awaits the answer
and records what it says. `ledger` holds the contents of the usage and the limit
file, `chat` where each chat is. The chats of the API server share a process and
overlap at the await only; a chat of the CLI is a process of its own and can come between any two
steps of another on the files. A ledger is read whole, changed, and written by
`writeFileSync`, which truncates first; a file that does not parse is read as empty.

| Action | Code |
|---|---|
| `Send` | `prepareProviderProxyChat`: merge of limit states, route, `wouldExceedBudget` under the budget of the request if it brings one, the request |
| `Completed` | a 2xx answer: `recordUsage` up to `writeState`, under the model and the day of the answer |
| `RateLimited` | a 429 with a retry-after: `recordLimit` up to `writeState` |
| `Failed` | a 429 without one, another status, a network error, a broken stream |
| `Truncate`, `Write` | the two steps of `writeFileSync` |
| `WriteFails`, `Die`, `Tick` | an exception of it; the end of a process with its chats; the clock |

Four variables are history, read by no action: `answered` (what the upstreams have served),
`spent` (what of it went to chats with a budget, or a stricter one),
`window` (the newest retry window written for a provider), `damaged` (the files where
processes met, or a write was lost). The properties: `UsageIsExact` and `WindowsAreRespected` hold
while the file in question is not damaged, thus for any overlap of server chats;
`NothingIsInvented` holds always: two processes can make the ledgers forget, never
charge for what was not served. `usage_budget` comes with each request (`server.mjs:532`): chats may carry different
budgets, one whose limit is zero or missing, or none, and are then not checked for it. Nothing bounds what a day serves to all of
them. `OverrunIsBounded` says how far the chats that carried a budget, or one at least as strict, exceed it together by passing the
check before the others are counted, whatever the rest of the chats spend; since these spend from the same totals, they can only make the check stricter. Its bound on tokens is about days on which something was served: with a budget below the
smallest estimate no chat ever passes, and the bound would come out below zero.

Assumed: both ledger paths are configured; what an answer can report as usage (`Tokens`) is a finite set with at least one member, so that
there is a largest answer to bound the overrun with (a model's output is limited); all chats ask for one model, because
budgets are checked model by model; a request that is refused before it is sent changes nothing; the
input and output tokens behave as the total tokens. A provider call has no timeout, so
an answer may never come and nothing is claimed about progress.

## 7. ProviderStream

One streamed chat. The provider (external) says its `reply` in events: a begin, fragments of
text, tool calls opened and continued in fragments, an end, in any order the transport allows.
An event is a record of three symbols on the `wire`: two halves and the blank line
that ends it, so that a chunk can end anywhere. `buffer` is what `postSse` keeps of an
incomplete record, `client` the stream state.

| Action | Code |
|---|---|
| `Utter`, `Close`, `BreakOff`, `Lose` | the provider and the network: an event, the end of the response, an end in the middle of the reply (and perhaps of a record), a lost connection |
| `Headers`, `RequestError` | the response callback with its status; the `error` listener of the request |
| `Data` | the `data` listener: a chunk of any number of symbols (`Chunk`), the complete records normalised one by one (`Read`) |
| `ResponseEnds` | the `end` listener: what remains is parsed, the promise settled, the result made |

`Tracked`, `Applied`, `Normalized` are the functions of their names for all three transports, reduced
to what tells replies apart: which fragments of text and arguments are kept, under which
call, with which half of the usage. The listener looks for blank lines in a string; `Read` is its loop
a symbol at a time, which keeps the same beginning of a record and hears the same records in the same order. `Key` has the quirk of the Responses
transport, where the output index 0 counts as none.

`StreamedMatchesWhole`: whatever the chunks and the interleaving, a stream that was said to its end gives
what `normalizeTransportResult` makes of the same reply in one piece (`Whole`), and one that ended early
a prefix of it. The last record may lack its blank line. What the code does *not* do is tell
the two apart: a response the provider ends early is reported as completed, with an empty
finish reason. `StreamSettles`: the chat ends unless the connection is lost after the
headers, in which case there is neither an end nor an `error` of the request and the promise stays open.

**Fairness.** A provider that has sent its headers goes on until it closes, what
is on the wire is delivered, and Node calls the listeners of what was delivered. None of it is
asked of a provider that falls silent: there is no timeout, so nothing is claimed about one.

## 8. RunEvidence

What a run's record says about work outside the process. One run id: because it is
a time in milliseconds it can be given to two tasks, so `objs` is the sequence of run objects made
under it, the last being the one in the map, while a handler that waits for its body keeps the one it
looked up. `dirs` are the workspace directories, `file` the content of the one file tools write in each place, or `NoContent`.

| Action | Code |
|---|---|
| `MakeWorkspace`, `RegisterRun` | `POST /tasks`: `createRunWorkspace` (copied, cloned, failed or none), then the run and its first write |
| `RemoveWorkspace`, `RecordCleanup` | `POST workspace/cleanup`: `cleanupRunWorkspace`, then the record |
| `ApproveToolCall` | `POST provider-tool-call-approvals` |
| `ExecuteTool`, `RecordExecution` | `POST provider-tool-executions`: the adapter (`ReadTool`, `WriteTool`, `UnsupportedTool`), then the record |
| `RecordVerification` | the execute route of a step, as far as goals depend on it |
| `RequestCompletion`, `CompleteGoal`, `RecordCompletion`, `RefuseCompletion` | `POST goals/complete`: header check, body with the goal's write, event with its own, and the refusals |
| `EditFile` | external: a step's command, or the owner of the repo, changes or removes the file |
| `SaveFails` (in `Note`, `CompleteGoal`, `RecordCompletion`), `Crash` | a throwing write in a guarded handler; death and restart |

`GoalsRestOnEvidence`: completed goals name verifications of the same run that passed, and the
first of their id; the event follows unless a fault comes between; who was told so finds it in the snapshot.
`WritesAreAccounted`: at most one write of a tool per fault is missing from the snapshot, each recorded one was approved, and
each that had to match an expected hash replaced the content the record says the write before it left (or the source), but for
one exception to each fault and each edit by others.
`StaleWrite` compares as the code does, content with content (equal contents have equal hashes, and no others are taken to): a content that was replaced and comes
back fits the old hash again, and two writes may both replace it, which the property allows. Comparison and write are one step because the
adapter is synchronous; a process that changes the file between the two is not modelled. A directory that is made again after its removal has no
file until one is written. The executions of the model remember the expected and the written content, where the record in the code keeps only
that there was a match and redacts the rest.
`DirectoriesAreRemembered`: without faults and second tasks a directory exists exactly if the
record says so - except that a tool that writes after the cleanup makes the directory again, and nothing
in the record says it is there. The exceptions in the three properties are the hazards: shared run ids lose the older
record with all it accounts for.

Not claimed: a goal may be completed twice (the second adds its evidence to the first), an approval may be executed
any number of times, and a rejection does not withdraw an approval. A tool's own
write may break off after `mkdirSync`: it is recorded as failed, the directory stays, and the file may be torn.

## 9. SecretStore

`held` is what the backend keeps under each reference: the number of the attempt that stored it.
The backends are those of `createConfiguredProviderSecretStoreAdapter`: an encrypted file replaced by a rename,
the memory of the process, and services behind a command that `execFileSync` kills at its timeout.
The five managed services have one shape in the code; they differ from the external command in the
map of secret ids they need.

| Action | Code |
|---|---|
| `StoreInFile`, `StoreInMemory`, `StoreInService` | `storeProviderSecret` up to the adapter's answer: stored, failed before, failed after, killed |
| `LateStore` | external: the request of a killed command reaches the service |
| `AuditStore` | `recordProviderSecretWriteAudit` and the answer, or a failed snapshot write |
| `CheckReadiness` | `GET /provider-secrets/readiness`, which audits; an answer that is an error changes nothing |
| `EditManifest`, `Restart` | the operator; a new process with another environment, key or map |

`Readiness` and `Resolution` are `providerSecretReadiness` and `createProviderCredentialResolver`, written apart as in the
code: one reads the manifest anew and asks for references, the other keeps the manifest of the start and decrypts. Both are functions of
whether the command they run answers (`answered`: in time, with JSON that says ok), and of the `settings` of the backend: `unset` (not configured),
`malformed` (reading the configuration or the file throws for everyone), `unusable` (the command can never be run: its path is relative, say) or `valid`. As in the
code, `Readiness` of a service always runs `configured_refs`, while `Stores` (`resolveSecret`) of a managed service gives nothing for an unmapped
reference before its command is looked at.
`AcknowledgedSecretsAreKept`: what a client was told is stored is audited on disk and is there until a later or unanswered
attempt replaces it; an old attempt of a killed command can do so in a service, never in the file.
`ReadinessIsHonest`: while the manifest is the one of the start, readiness names the source resolution takes the credential from, whatever the two
commands answer, with three exceptions it lists: the command of one of the two fails alone; readiness says `store` for a record of a rotated key, where resolution throws;
and with an unusable command readiness is an error for an unmapped reference too, which the resolver takes from the environment. Two references mapped to one secret id would share a value; the code does not
refuse it, and the model leaves it out.

## 10. ReleasePromotion

The release scripts as processes without a lock between them. `dist` holds for each output directory the
parts, the list of their digests, the signatures and the manifest; a digest is the number of the build
that wrote the part. `builds` are the build scripts, `promoter` the promotion, `strays` the npm and gh commands of killed promotions, `registry`
and `release` what npm and GitHub have. Every command is run by `execFileSync` and survives a script that is killed: a build whose script is
gone is an `orphan`, which goes on with the files of the command it had started and writes neither list nor manifest.

| Action | Code |
|---|---|
| `StartBuild`, `WritePart`, `WriteList` | `writeReleaseNativeBinaryArtifacts`, `writeReleaseCandidateBundle`: configuration check, one file after another, checksums and manifest |
| `Sign`, `WriteManifest` | `writeReleaseSignatureArtifacts`, `writeReleaseSignedNativeBinaryArtifacts`: one signing command per artifact, then the manifest |
| `StopBuild`, `StopPromotion` | a command that fails, an answer that is refused |
| `KillBuild`, `KillPromotion` | the script is killed while it waits for a command, which goes on |
| `OrphanEnds`, `StrayPublishes`, `StrayUploads`, `StrayEnds` | external: the commands that were left over (an orphan writes by `WritePart` and `Sign`) |
| `RefusePromotion`, `AdmitPromotion` | `writeReleasePromotionExecution` with and without blockers |
| `Publish`, `UploadAssets`, `FinishPromotion`, `CommandRefused` | `npm publish`, `gh release upload --clobber`, the report, and npm or gh saying no |
| `RaiseVersion` | external: a new version in `package.json` |

`PreflightBlockers` and `ExecutionBlockers` are the blocker lists of a promotion; `open` is the set of gates that are not cleared. The other reports
(preflight, bundle, signatures, native binaries) take `warningActive: true` whatever the promotion is told, so that they go on listing the
production warning for what is promoted; nothing reads them, and they are not modelled.
`SignaturesMatchParts` says what a build leaves beside which no other build and no command of a killed one wrote, and what an upload leaves that
worked on such files without another gh beside it; with two builds at once, a build during the upload or an orphan of a killed one, old signatures lie beside new
binaries, and nothing notices. `ReportTellsTheTruth`: the report claims `executed` only of a version that is published and uploaded whole.
`HalfwayStaysHalfway`: a version that npm has published and whose promotion failed, was killed or found no assets can never be made good, whatever is run
again or left over, for npm refuses it before gh is run.

Assumed: uploads happen in two lots (sorted paths put the top-level `SHA256SUMS` and `manifest.json` before
the two directories); one release for all promotions; the version is not raised during a promotion. `gh` names assets by
their base name, so the two `manifest.json` and `SHA256SUMS` of the upload clash there; that is outside the code and outside the
model.

## 11. Runs and bounds

| Run | Config | Checks | Bounds |
|---|---|---|---|
| run_lifecycle | RunLifecycle.cfg | the seven invariants and `StoredHistoryGrows` | two requests in flight (the least that lets one overtake another), 6 events before the last request is accepted (three from creation, so a whole transition can precede two more requests), 2 faults |
| run_decision_race | RunDecisionRace.cfg | `DecisionsOnlyOnPendingRuns`: violated | decisions only, no fault |
| step_execution | StepExecution.cfg | safety, `StartsAlone`, `ImplementsLease`, no deadlock | two step ids (one may repeat), 2 steps, 2 attempts instead of the code's default (the limit is reached and refused), 3 locks, 2 faults |
| step_restarts | StepRestarts.cfg | `LockEndsOnTimeline`, `CallbackEnds`, `LocksEnd` under `FairSpec` | one step, 4 locks, 3 faults: enough for the lost event described above |
| paused_run_executes | PausedRunExecutes.cfg | `PausedRunsStartNothing`: violated | 1 lock, no fault |
| preflight_policy | PreflightPolicy.cfg | the three properties | every set of actions, a soft limit at the price of one writing action, a hard limit at that of one shell action or none, 2 steps |
| provider_proxy | ProviderProxy.cfg | the three invariants and `WindowsAreRespected` | two chats of the server and one of the CLI (chats overlap inside a process and across), two providers and one without credential, budgets of one request and two tokens (so that every overlap overruns them) or none, a request that calls one provider limited, 2 days, 4 requests, 1 fault |
| budget_by_name | BudgetByName.cfg | `BudgetCapsCalls`: violated | one chat at a time, one provider, no fault |
| provider_stream | ProviderStream.cfg | `StreamedMatchesWhole`, `StreamSettles` | replies of up to one fragment of text and two calls (the second is where keys can be confused) of up to two fragments each (the least that has an order); two records on the wire, so that a chunk can end one, hold one and start one |
| run_evidence | RunEvidence.cfg | the four invariants | two tasks of one run id, one goal (goals do not touch each other) with two completions waiting, two verification ids, 3 records in all (a verification or an approval, and what is done with it twice), two contents (one can come back), one crash, failed write, edit by others or second task: the exceptions of the properties do not need each other |
| secret_store | SecretStore.cfg | the three invariants | four backends (two of the services, one of them with a map), two references, two keys, 3 attempts (an old one can overtake two newer), 2 faults, every outcome of the commands of readiness and resolution |
| release_promotion | ReleasePromotion.cfg | the three invariants, `HalfwayStaysHalfway`, no deadlock | two parts (one can be new while the other is old), 2 builds, 2 versions, 1 script stopped or killed, promotions with every gate cleared, the confirmation alone missing and none cleared (which gates are open makes no other difference); the script of unsigned native binaries is left to the other three, which contain its steps |

The bounds sit in the guards: `MaxEvents` in `Accept`, `MaxFaults` in the faults,
`MaxSteps` in `RecordStep`, `MaxLocks` in `Execute`, `MaxSent` in `Send`, `MaxTime` in
`Tick`, `MaxTrouble` and `MaxRecords` in the actions of RunEvidence that cost one, `MaxAttempts` in
`Attempt`, `MaxBuilds` in the set of builds, `MaxInFlight` in `Utter`. Requests, step ids, the chats of the
server, verification ids, secret references and the parts of a release are interchangeable, which the `SYMMETRY` of the runs without liveness uses. Deadlock is not
checked where the bound stops every request (run_lifecycle, run_decision_race,
provider_proxy, budget_by_name, run_evidence) or
where a finished run or a chat does nothing more (preflight_policy, provider_stream).

Every property has a mutant in `PROJECT.json`: a definition of the module changed the way a
plausible bug would change the code, under which TLC refutes the property.

## 12. Proofs

TLAPS checks the theorems below for every value of the constants. Each is `Spec => []P` for a property
P of the runs, or a refinement; each invariant was checked by TLC on the run of its module before it was proved (that of ProviderStream in a form that reads the
words off the wire instead of quantifying over them).
The assumptions are the `ASSUME`s of the modules: the bounds are natural numbers
(`BoundsAssumption`, `StepBounds`, `AttemptsAssumption`, `EvidenceBounds`, `SecretBounds`, `ReleaseBounds`,
`GateBounds` and the like) and a few sets have only members the code knows (`OpsAssumption`, `KnownBackends`, `KnownTransports`, `KnownScripts`, `KnownGates`, `LimitsAssumption`). TLC
evaluates all of them. No theorem assumes anything of a reachable state.

| Module | Theorems | Inductive invariant |
|---|---|---|
| RunLifecycleProofs | `TypeCorrect`, `ApprovalIsGuarded`, `DecisionIsRecorded`, `TimelineIsFaithful`, `StoredHistoryIsMonotone`; `StatusIsExplained`, `AuditIsNearlyComplete`, `NotesAreOnTimeline` | `Inductive`; `AccountInvariant` |
| StepExecutionProofs | `StepTypes`, `OneLockIsLive`, `LocksAreOnDisk`, `ActiveFieldIsRight`, `LocksEndOnce`, `WorkStartsAlone`, `LocksImplementLease`, `LeaseIsExclusive`, `CommandsAreExclusive`; `AttemptsChain`, `StartsAreAccounted`, `RefusedNeverWorks` | `LockInvariant`; `LeaseInvariant`; `HistoryInvariant` |
| PreflightPolicyProofs | `HardCapsPauseRuns`, `StepsAreMonotone`, `PresetsAreOrdered` | `GateInvariant` |
| SecretStoreProofs | `SecretTypes`, `SecretsAreKept`, `ReadinessIsTrue` | `SecretInvariant` |
| ReleasePromotionProofs | `ReleaseTypes`, `SignaturesMatch`, `ReportIsTrue`, `HalfwayIsFinal` | `ReleaseInvariant` |
| ProviderProxyProofs | `UsageIsCountedOnce`, `UsageIsEarned`, `BudgetOverrun`, `LimitsAreHonoured` | `LedgerInvariant` |
| ProviderStreamProofs | `StreamIsWhole` | `StreamInvariant` |
| RunEvidenceProofs | `EvidenceTypes`, `GoalsAreProven`, `WritesAreOnRecord`, `DirectoriesAreOnRecord` | `EvidenceInvariant` |

Hardly any of the properties is inductive by itself, for one reason in all modules: the
code acts in several steps, and what a later step does was checked, or is going to be recorded, in another.
The strengthenings say what each step leaves for the next.

**RunLifecycle.** `RecordInv`, the facts of one run record, is required of memory and of the
snapshot alike; `Extends` says that memory is the snapshot's history continued (which
makes a crash harmless and history monotone); `InflightInv` that a decision,
revision or resubmission in flight belongs to a run preflight sent to approval;
`CallbackInv` that an open callback has left the record its last stage
relies on. The lemmas are about `Push` and `Audit`, and there is one step per action.

**What a run owes** is a second invariant on top of it (`AccountInv`). The three counting properties allow for faults, and what a fault costs is what
the callback it hits still had to do: the positions it was going to audit (`Due`) and the heartbeat whose event it was going to push
(`Open`). Apart from these, memory misses at most `Allowance(faults)` audit records, comments and connector references have their
events (`NotesKept`), and without faults the status follows from the decision (`Explained`) unless a decision is between its two
stages. The snapshot is held to a looser account, which includes the three events of a new run and is just what a crash, making it the record in memory
at the price of one fault, may bring.

**StepExecution.** Only the last lock can be live, in memory and on disk (`LiveInv`), and the same locks are live in both
except in the catch block (`AgreeInv`): this is what makes `OneLiveLock` and `ActiveFieldAgrees` hold although an expired lock stays
`locked` until somebody recovers it. A command whose lock has not expired has it in memory and on disk (`CommandInv`), the callback
knows its own lock (`OwnInv`) and the list of recovered locks whose events are still to come (`TodoInv`). `FaultInv`
is the reason for the "below three faults" of `LockEndsOnTimeline`: every lock nobody holds was left behind by a fault of its own.
`LocksImplementLease` maps the leases to the locks on disk and the workers to the running commands: the initial state maps to
the initial state, acquiring a lock to a grant, `StartCommand` to the start of work, the ends of commands and orphans to its end,
recovery, release and the clock to leases being over, every other step to a stutter. `LeaseIsExclusive` is about the abstract lease
alone, at its place in StepExecution: its proof expands the actions of ExecutionLease and nothing of the code. `CommandsAreExclusive`
takes it over the refinement.

**The history of executions** is a second invariant on top of the first. Memory and snapshot have the same history except in the
catch block, where memory is ahead (`SyncInv`, `GrowInv`), executions form chains within the allowed attempts
(`ChainInv`), the open callback decided on an attempt that is still the next one (`WorkInv`), starts are counted
(`CountInv`), and an id that has worked was allowed when it was first recorded (`AllowedInv`).

**PreflightPolicy.** The invariant says that task, steps and incidents are what the decision procedure makes of the objectives, and that a
run whose task is over the hard cap is paused. No other pause is in it, for reviews lift them.
The proofs are about the procedure: `DecisionMonotone` (more actions, or a higher price, never a milder decision),
`DecisionByPreset`, and `CostFacts`. The price is a fold over a set of actions; what it is for every set is proved by
taking a smallest set for which it would be wrong, because the library's induction over finite sets has an operator as parameter.

**SecretStore.** Audit records are of attempts that were made (`AuditsInv`), only a service can have requests under way that nobody
waits for (`LateInv`), the open callback has stored the newest attempt and nothing but a late request has taken its place
(`CallbackInv`), and attempts are acknowledged under their own reference (`AckedInv`). With these the property
itself is inductive. `ReadinessIsTrue` needs types only: it compares the two procedures case by case,
for every pair of outcomes of their commands.

**ReleasePromotion.** A build that is alone on its output directory, without orphans, finds there what it
has written (`BuildInv`); a directory that is whole has no build and no orphan at work and its files agree (`LineInv`); a calm upload
works on such a directory and has sent what lies there (`UploadInv`), while no gh of a killed promotion is left (`StrayInv`); after an undisturbed
upload the assets agree (`SettledInv`). `HalfwayIsFinal` needs types only: a version leaves the set of those halfway by a report
or an upload, both follow `Publish`, and that is refused for a version the registry has.

**ProviderProxy.** The file a chat is on its way to write is the one it read with one entry changed, so the invariant speaks of both. As long as a
file is undamaged one chat at most is at work on it (`SoleInv`): the chats of one process write without a pause, and a chat of another process that meets
one in between damages it. Then the contents carried to the usage file are all that was served, and the file lags behind by the one answer on its way
(`UsageInv`, `Lags`); the limit file holds the windows on record, or those of before with the new one on its way (`WindowInv`); `ServedInv`, for
damaged files too, says that neither the file nor what is carried there exceeds what was served. `DayInv` is the overrun
bound with its slack named, for each budget: what chats as strict were served today (`SpentInv`: a part of what all were served) and what the waiting ones of them can still add stay within the cap
less one admission plus one call for every chat; an admission keeps it because the check read a file
that lags by one answer at most, and midnight because a new day starts at zero. `FitInv` covers budgets no estimate fits. That the largest
answer and the smallest estimate exist is proved from finiteness and the well-foundedness of the numbers.

**ProviderStream.** What is streamed is described by the words of the provider and not by symbols. `Gathered(s)` is the stream state of a client that has heard the
progress `s`, and `Says(e, s, t)` the words `e` that lead from one progress to the next; `HeardWord`, with a lemma for every kind of
word, says that normalising `e` makes `Gathered(t)` of `Gathered(s)`: a fragment changes the one call it names (`KnownCall`), a new
call comes last (`NewCall`), repeated arguments change nothing. The invariant (`Pending`) says that some words lead
from what the client has heard to what was said, and that the buffer followed by the wire are their records: all of them while the connection is
open, all but perhaps the last blank line when it was closed, a beginning of them when it was cut. `OneSymbol` shows that the
loop keeps this with every symbol it reads, and `ReadOn` that it therefore keeps it over a chunk of any length; the
function `Chunk` defines by recursion is shown to exist (`ReadingExists`), in both cases by taking the least number for which it would be wrong. At
the end of the response the buffer is empty or one record without its blank line (`EndHears`), so that a stream that was closed has been heard to
its last word; one that broke off has been heard to some word.

**RunEvidence.** Most parts are about every record a reader can see, in the process or in the snapshot, because a handler changes one
run object and then saves or fails to save it (`Update` and the lemmas about it). `WorkInv` says what the open callback has done
and not recorded; `EventInv`, `ToldInv`, `AccountInv` and `DirsInv` say the properties with the exception of that one piece of work;
`LinkInv` says that, as long as there is one task, the file is what the newest write on record or under way left, and each write that matched a hash replaced what
the one before left, but for as many disturbances as there were faults and edits.

Looking for these invariants changed three definitions that were wrong. The bound on tokens in `OverrunIsBounded` was false for budgets below every estimate, which the run's
values do not include (section 6). `Readiness` of SecretStore was a `CASE` whose guards
overlapped where the code has a sequence of `if`s. In RunEvidence a removed workspace had the file of a fresh one: a write
that breaks off makes the directory again, and a write that expected the source would have
succeeded there, where the code fails because the file is not there. It is `FileAfter`, `RemoveWorkspace` and `StaleWrite` that say it now.

Only model-checked: liveness under fairness (`CallbackEnds`, `LocksEnd`, `StreamSettles`), which with ENABLED is out of the prover's
reach. The properties of the runs that expect a violation are refuted, not proved.

## 13. Divergences between documents and code

* `docs/ARCHITECTURE.md:194` says operators decide "a pending run", and
  `tests/tests_api_approval.mjs:81` expects a second decision to be refused. The status is
  checked at the headers and not at the body: of two overlapping decisions both are
  applied (run_decision_race). `DecisionExplainsStatus` shows what is left: the decision on
  record is always the one the status follows from.
* `packages/artifacts/src/index.mjs:17` records "Hard budget cap enforcement pauses execution
  before additional work starts." The execute route does not look at the run's status:
  a paused run executes its allowed steps (paused_run_executes).
* `docs/ARCHITECTURE.md:114` says the usage ledger "can enforce `usage_budget` caps before
  upstream calls". The budget is checked under the requested model and usage is recorded
  under the name the answer gives the model: a provider that answers with another name (a
  dated version, say) is never held to the cap, even one chat after the other
  (budget_by_name).

Two more were met while modelling and have no run, because the model takes the code's side of them:

* `docs/ARCHITECTURE.md:72` says `release:promotion-execute` publishes only when every gate is clear. In fact
  the script cannot publish at all: it passes no word on binaries and signing, whose defaults are "blocked": the command alone never
  promotes. ReleasePromotion models the function, whose callers can pass that word.
* The readiness of provider secrets calls a provider ready whose record was encrypted with another key, and fails as a whole when a
  command is unusable that the resolver would not run (`ReadinessIsHonest` names the exceptions).

## 14. Not modelled

* Toolsets and provider runtime: resolution of static catalogues, without state or order.
* Event stream: frames written at the end of a handler and forgotten.
* Observability, orchestration, agent activity, memory, artifacts, runner isolation: records derived once, or computed on a GET.
* Release: the source manifest, SBOM and provenance, and the report files other than the promotion's with their lists of blockers.
* CLI, dashboard, IDE extension: clients of the API and presentation, except for the CLI's chats (ProviderProxy).
* Catalogues: constant data.

Within the modelled components: authentication, CORS, the GET routes that change nothing, the
public views of a run, the payloads and hashes of audit records, cryptography, the
wording and limits of tool results, and the abort signal of a chat.
