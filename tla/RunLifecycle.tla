----------------------------- MODULE RunLifecycle -----------------------------
(***************************************************************************)
(* One run of the control plane, from POST /tasks through the approval     *)
(* flow: its status, the approval decision, the revision record, the       *)
(* timeline of events, the audit records of those events, and the JSON     *)
(* snapshot of all of it on disk.                                          *)
(*                                                                         *)
(* The server is single-threaded, but a POST is handled in two phases.     *)
(* The route is matched and run.status is checked when the HEADERS arrive; *)
(* the change is made in the readJson callback, when the BODY has arrived. *)
(* Other requests are served in between and the callback does not look at  *)
(* run.status again: "inflight" holds the requests between the two phases. *)
(*                                                                         *)
(* A callback is synchronous, but each recordAudit in it rewrites the      *)
(* snapshot, and the process can die after any of these writes.  A         *)
(* callback is therefore a sequence of stages, each ending in one write;   *)
(* "callback" says which stage comes next.  No other handler runs between  *)
(* two stages.                                                             *)
(*                                                                         *)
(* run_id is "run_" with the creation time in milliseconds; here it is     *)
(* unique, no two tasks are created in the same millisecond.               *)
(***************************************************************************)
EXTENDS Integers, Sequences, FiniteSets

CONSTANTS Requests,   \* identities of the requests that may be in flight
          Ops,        \* the request kinds of this instance, a subset of AllOps
          MaxEvents,  \* bound: no request is started with more events than this
          MaxFaults   \* bound: crashes and failed snapshot writes of a behaviour

Decisions   == {"approve", "reject"}
Transitions == Decisions \cup {"revise", "resubmit"}
Notes       == {"comment", "connector", "heartbeat"}
AllOps      == {"decide", "revise", "resubmit", "gate"} \cup Notes

ASSUME OpsAssumption    == Ops \subseteq AllOps
ASSUME BoundsAssumption == MaxEvents \in Nat /\ MaxFaults \in Nat

VARIABLES run,       \* the run object in memory, with the audit log's view of it
          stored,    \* the same data in the snapshot at DIVINITY_RUN_STORE_PATH
          callback,  \* the body callback being executed and its next stage
          inflight,  \* request -> what it will do when its body arrives
          faults     \* crashes and failed writes so far

vars == <<run, stored, callback, inflight, faults>>

-----------------------------------------------------------------------------
Outcomes  == {"queued", "awaiting_approval", "paused", "failed"}
Statuses  == Outcomes \cup {"absent"}

NoteEvent == [comment   |-> "approval_comment_added",
              connector |-> "connector_reference_attached",
              heartbeat |-> "heartbeat_recorded"]
TransitionEvent == [approve  |-> "approval_decided",
                    reject   |-> "approval_decided",
                    revise   |-> "approval_revision_requested",
                    resubmit |-> "approval_resubmitted"]
EventTypes == {"task_created", "preflight_completed", "status_changed"}
                \cup {NoteEvent[k] : k \in Notes}
                \cup {TransitionEvent[k] : k \in Transitions}
Event == [type : EventTypes, status : Outcomes]

\* A run as the store keeps it.  outcome is preflight.run_status, notes counts
\* the comments, connector references and heartbeats, and audited holds the
\* positions of the events that have a run_event record in the audit log.
Run == [status   : Statuses,
        outcome  : Statuses,
        approval : Decisions \cup {"none"},
        revision : {"none", "requested", "resubmitted"},
        events   : Seq(Event),
        notes    : [Notes -> Nat],
        audited  : SUBSET Nat]

NoRun == [status |-> "absent", outcome |-> "absent", approval |-> "none",
          revision |-> "none", events |-> << >>,
          notes |-> [k \in Notes |-> 0], audited |-> {}]

Idle           == [op |-> "idle", stage |-> 0]
Stage(op, n)   == [op |-> op, stage |-> n]
Callback       == [op : Transitions \cup Notes \cup {"idle", "audit_run"}, stage : Nat]

TypeOK == /\ run \in Run
          /\ stored \in Run
          /\ callback \in Callback
          /\ inflight \in [Requests -> AllOps \cup {"none"}]
          /\ faults \in Nat

Init == /\ run = NoRun
        /\ stored = NoRun
        /\ callback = Idle
        /\ inflight = [r \in Requests |-> "none"]
        /\ faults = 0

-----------------------------------------------------------------------------
\* Mutated Push: the timeline is capped, the oldest event makes room for the new.
PushCapped(m, type, status) ==
  [m EXCEPT !.events = Append(IF Len(@) < 5 THEN @ ELSE Tail(@),
                              [type |-> type, status |-> status])]

\* createRunEvent and run.events.push
Push(m, type, status) ==
  [m EXCEPT !.events = Append(@, [type |-> type, status |-> status])]

\* recordAudit of the run_event at position i
Audit(m, i) == [m EXCEPT !.audited = @ \cup {i}]

\* persistRunStore: the whole memory state replaces the snapshot in one rename
Save(m, next) == /\ run' = m
                 /\ stored' = m
                 /\ callback' = next
                 /\ UNCHANGED faults

\* The write throws inside the handler's try block: the handler answers 400,
\* memory keeps what was assigned before the throw, the snapshot is the old one.
SaveFails(m) == /\ faults < MaxFaults
                /\ faults' = faults + 1
                /\ run' = m
                /\ callback' = Idle
                /\ UNCHANGED stored

\* The handlers whose body callback has a try block.  In the others a failed
\* write is an uncaught exception: the process dies (Crash).
Guarded == {"revise", "resubmit"} \cup Notes

SaveFor(op, m, next) == Save(m, next) \/ (op \in Guarded /\ SaveFails(m))

-----------------------------------------------------------------------------
\* The run POST /tasks builds when preflight yields status s.
CreatedRun(s) ==
  [status |-> s, outcome |-> s, approval |-> "none", revision |-> "none",
   events |-> << [type |-> "task_created", status |-> "queued"],
                 [type |-> "preflight_completed", status |-> "queued"],
                 [type |-> "status_changed", status |-> s] >>,
   notes |-> [k \in Notes |-> 0], audited |-> {}]

\* POST /tasks: preflight decides the first status, createInitialRunEvents makes
\* three events, and recordRunAudit starts with the run_created record.
CreateTask ==
  /\ callback = Idle
  /\ run.status = "absent"
  /\ \E s \in Outcomes : Save(CreatedRun(s), Stage("audit_run", 1))
  /\ UNCHANGED inflight

\* The loop of recordRunAudit over run.events, one snapshot write per event.
AuditRun ==
  /\ callback.op = "audit_run"
  /\ callback.stage <= Len(run.events)
  /\ Save(Audit(run, callback.stage),
          IF callback.stage = Len(run.events) THEN Idle
          ELSE Stage("audit_run", callback.stage + 1))
  /\ UNCHANGED inflight

\* Mutated Admitted: the approval routes check only that the run exists.
AdmittedUnchecked(op) == run.status # "absent"

\* The checks made when the headers of a POST arrive.
Admitted(op) ==
  CASE op \in {"decide", "revise"} -> run.status = "awaiting_approval"
    [] op = "resubmit" -> run.status = "paused" /\ run.revision = "requested"
    [] OTHER -> run.status # "absent"

Accept(r) ==
  /\ callback = Idle
  /\ inflight[r] = "none"
  /\ Len(run.events) < MaxEvents
  /\ \E op \in Ops : Admitted(op) /\ inflight' = [inflight EXCEPT ![r] = op]
  /\ UNCHANGED <<run, stored, callback, faults>>

\* The client goes away before its body is complete, or the body is refused with
\* 400: an unknown decision, an empty revision reason or comment, a bad heartbeat.
Drop(r) ==
  /\ callback = Idle
  /\ inflight[r] # "none"
  /\ inflight' = [inflight EXCEPT ![r] = "none"]
  /\ UNCHANGED <<run, stored, callback, faults>>

\* The body of request r arrives and its callback starts.
Begin(r, op) == /\ callback = Idle
                /\ inflight[r] = op
                /\ inflight' = [inflight EXCEPT ![r] = "none"]

\* Mutated Decide: the first decision is kept, the transition still follows the body.
DecideKeepsFirst(r) ==
  /\ Begin(r, "decide")
  /\ \E d \in Decisions :
       Save([run EXCEPT !.approval = IF @ = "none" THEN d ELSE @], Stage(d, 1))

\* POST /runs/:id/approval: run.approval is set and audited first.
Decide(r) ==
  /\ Begin(r, "decide")
  /\ \E d \in Decisions : Save([run EXCEPT !.approval = d], Stage(d, 1))

\* POST /runs/:id/approval/revision: the revision record is set and audited.
Revise(r) ==
  /\ Begin(r, "revise")
  /\ SaveFor("revise", [run EXCEPT !.revision = "requested"], Stage("revise", 1))

\* POST /runs/:id/approval/resubmit: the revision the run has now is resubmitted.
Resubmit(r) ==
  /\ Begin(r, "resubmit")
  /\ SaveFor("resubmit", [run EXCEPT !.revision = "resubmitted"], Stage("resubmit", 1))

\* Mutated NewStatus: the status is taken from the decision itself.
NewStatusIsDecision(op) ==
  CASE op = "approve"  -> "queued"
    [] op = "reject"   -> "reject"
    [] op = "revise"   -> "paused"
    [] op = "resubmit" -> "awaiting_approval"

\* Mutated NewStatus: a resubmission queues the run instead of asking again.
NewStatusSkipsReview(op) ==
  CASE op = "approve"  -> "queued"
    [] op = "reject"   -> "failed"
    [] op = "revise"   -> "paused"
    [] op = "resubmit" -> "queued"

\* The status a transition ends in.
NewStatus(op) ==
  CASE op = "approve"  -> "queued"
    [] op = "reject"   -> "failed"
    [] op = "revise"   -> "paused"
    [] op = "resubmit" -> "awaiting_approval"

\* run with a transition's event under the old status, the new status, and its
\* status_changed event.
Transitioned(op) ==
  Push([Push(run, TransitionEvent[op], run.status) EXCEPT !.status = NewStatus(op)],
       "status_changed", NewStatus(op))

\* Mutated ChangeStatus: only the newest event is audited (slice(-1)).
ChangeStatusAuditsLast ==
  /\ callback.op \in Transitions
  /\ callback.stage = 1
  /\ LET m == Transitioned(callback.op)
     IN  SaveFor(callback.op, Audit(m, Len(m.events)), Stage(callback.op, 2))
  /\ UNCHANGED inflight

\* The second stage of every transition: both events are pushed, the status is
\* assigned, and the first of the two events is audited.
ChangeStatus ==
  /\ callback.op \in Transitions
  /\ callback.stage = 1
  /\ LET m == Transitioned(callback.op)
     IN  SaveFor(callback.op, Audit(m, Len(m.events) - 1), Stage(callback.op, 2))
  /\ UNCHANGED inflight

\* The last stage of transitions and notes: audit the newest event, then persist.
AuditLast ==
  /\ callback.op \in Transitions \cup Notes
  /\ callback.stage = 2
  /\ SaveFor(callback.op, Audit(run, Len(run.events)), Idle)
  /\ UNCHANGED inflight

\* Mutated Annotate: the record is saved before its event exists.
AnnotateInTwoWrites(r) ==
  /\ \E k \in {"comment", "connector"} :
       /\ Begin(r, k)
       /\ SaveFor(k, [run EXCEPT !.notes[k] = @ + 1], Stage(k, 2))

\* POST comments and connectors: record and event are pushed, the record audited.
Annotate(r) ==
  /\ \E k \in {"comment", "connector"} :
       /\ Begin(r, k)
       /\ SaveFor(k, Push([run EXCEPT !.notes[k] = @ + 1], NoteEvent[k], run.status),
                  Stage(k, 2))

\* POST heartbeat: the heartbeat is audited before its event exists.
Heartbeat(r) ==
  /\ Begin(r, "heartbeat")
  /\ SaveFor("heartbeat", [run EXCEPT !.notes["heartbeat"] = @ + 1], Stage("heartbeat", 1))

HeartbeatEvent ==
  /\ callback = Stage("heartbeat", 1)
  /\ LET m == Push(run, NoteEvent["heartbeat"], run.status)
     IN  SaveFor("heartbeat", Audit(m, Len(m.events)), Idle)
  /\ UNCHANGED inflight

\* POST steps with a verdict other than the hard cap: the step is recorded and the
\* snapshot written; the run's status and timeline stay as they are.
StepRecorded(r) == Begin(r, "gate") /\ Save(run, Idle)

\* Mutated StepPausesRun: the run is paused without an event.
StepPausesSilently(r) ==
  /\ Begin(r, "gate")
  /\ Save([run EXCEPT !.status = "paused"], Stage("audit_run", 1))

\* POST steps over the hard budget cap: the run is paused whatever its status, and
\* recordRunAudit audits the whole run again.
StepPausesRun(r) ==
  /\ Begin(r, "gate")
  /\ Save(Push([run EXCEPT !.status = "paused"], "status_changed", "paused"),
          Stage("audit_run", 1))

\* The process dies and is started again: createRunStore reloads the snapshot, and
\* the requests in flight are gone.
Crash ==
  /\ faults < MaxFaults
  /\ faults' = faults + 1
  /\ run' = stored
  /\ callback' = Idle
  /\ inflight' = [r \in Requests |-> "none"]
  /\ UNCHANGED stored

Next ==
  \/ CreateTask
  \/ AuditRun
  \/ ChangeStatus
  \/ AuditLast
  \/ HeartbeatEvent
  \/ Crash
  \/ \E r \in Requests :
       \/ Accept(r)
       \/ Drop(r)
       \/ Decide(r)
       \/ Revise(r)
       \/ Resubmit(r)
       \/ Annotate(r)
       \/ Heartbeat(r)
       \/ StepRecorded(r)
       \/ StepPausesRun(r)

Spec == Init /\ [][Next]_vars

-----------------------------------------------------------------------------
\* Preflight decides who may decide.  A run that preflight did not send to
\* approval never carries a decision or a revision, and keeps its first status
\* unless the hard cap pauses it: a blocked or capped run is never queued, however
\* late the requests accepted for it arrive.  In memory and after any restart.
ApprovalOnlyWhenRequired ==
  \A m \in {run, stored} :
    m.outcome # "awaiting_approval" =>
      /\ m.approval = "none"
      /\ m.revision = "none"
      /\ m.status \in {m.outcome, "paused"}

\* A run that needed approval is queued or failed only if a decision is on record,
\* in memory and in the snapshot, whatever write the process died after.
NoOutcomeWithoutDecision ==
  \A m \in {run, stored} :
    m.outcome = "awaiting_approval" /\ m.status \in {"queued", "failed"} =>
      m.approval \in Decisions

\* Without crashes or failed writes the decision on record is the one the status
\* follows from, also when two decisions were accepted before either was applied.
DecisionExplainsStatus ==
  faults = 0 /\ callback = Idle /\ run.outcome = "awaiting_approval" =>
    /\ run.status = "queued" => run.approval = "approve"
    /\ run.status = "failed" => run.approval = "reject"

\* The newest status_changed event of a timeline carries the run's status, so the
\* event stream can be replayed to the status, in memory and after any restart.
TimelineReplaysStatus ==
  \A m \in {run, stored} :
    m.status # "absent" =>
      \E i \in DOMAIN m.events :
        /\ m.events[i] = [type |-> "status_changed", status |-> m.status]
        /\ \A j \in DOMAIN m.events : j > i => m.events[j].type # "status_changed"

Unaudited(m) == DOMAIN m.events \ m.audited

\* Between requests every event has its audit record if nothing has failed, and a
\* fault costs at most one record more than the three a new run starts with.
AuditGapsBounded ==
  callback = Idle =>
    Cardinality(Unaudited(run)) <= IF faults = 0 THEN 0 ELSE faults + 2

\* Comments and connector references always have their timeline event, in memory
\* and on disk; a heartbeat can lose its event only to a fault.
NotesOnTimeline ==
  \A m \in {run, stored} : \A k \in Notes :
    LET posted == Cardinality({i \in DOMAIN m.events : m.events[i].type = NoteEvent[k]})
        open   == IF callback = Stage("heartbeat", 1) THEN 1 ELSE 0
    IN  IF k = "heartbeat" THEN m.notes[k] - posted \in 0 .. faults + open
        ELSE m.notes[k] = posted

\* The snapshot never forgets an event or an audit record it has held: requests,
\* failed writes and restarts only ever extend the stored history.
StoredHistoryGrows ==
  [][ /\ Len(stored.events) <= Len(stored'.events)
      /\ \A i \in DOMAIN stored.events : stored'.events[i] = stored.events[i]
      /\ stored.audited \subseteq stored'.audited ]_stored

\* docs/ARCHITECTURE.md and the duplicate-decision test: a decision is recorded only
\* on a run that is awaiting approval.  The header check and the callback disagree.
DecisionsOnlyOnPendingRuns ==
  [][run'.approval # run.approval => run.status = "awaiting_approval"]_run

=============================================================================
