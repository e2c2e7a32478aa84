-------------------------- MODULE RunLifecycleProofs --------------------------
(***************************************************************************)
(* Proofs about RunLifecycle for any set of requests, any selection of     *)
(* request kinds and any bounds.                                           *)
(*                                                                         *)
(* The properties about run and stored are not inductive alone: a request  *)
(* whose body arrives late is only harmless because its header check has   *)
(* fixed something that never changes afterwards (preflight's outcome).    *)
(* IInv adds what the requests in flight and the running callback know.    *)
(***************************************************************************)
EXTENDS RunLifecycle, SequenceTheorems, FiniteSetTheorems, TLAPS

\* The newest status_changed event of a timeline carries this status.
Replays(events, status) ==
  \E i \in 1 .. Len(events) :
    /\ events[i] = [type |-> "status_changed", status |-> status]
    /\ \A j \in 1 .. Len(events) : j > i => events[j].type # "status_changed"

\* What holds of one run record, in memory or on disk.
RecordInv(m) ==
  /\ m \in Run
  /\ m.status = "absent" <=> m.outcome = "absent"
  /\ m.status = "absent" => m.events = << >> /\ m.audited = {}
  /\ m.outcome # "awaiting_approval" =>
       /\ m.approval = "none"
       /\ m.revision = "none"
       /\ m.status \in {m.outcome, "paused"}
  /\ m.outcome = "awaiting_approval" /\ m.status \in {"queued", "failed"} =>
       m.approval \in Decisions
  /\ m.status # "absent" => Replays(m.events, m.status)

\* The history of n extends that of m.
Extends(m, n) ==
  /\ Len(m.events) <= Len(n.events)
  /\ \A i \in 1 .. Len(m.events) : n.events[i] = m.events[i]
  /\ m.audited \subseteq n.audited

\* The requests past their header checks: the run exists, and preflight has sent
\* it to approval if they are of the approval flow.
InflightInv ==
  \A r \in Requests :
    /\ inflight[r] # "none" => run.status # "absent"
    /\ inflight[r] \in {"decide", "revise", "resubmit"} =>
         run.outcome = "awaiting_approval"

\* The callback between two stages.
CallbackInv ==
  /\ callback.op # "idle" => run.status # "absent"
  /\ callback.op \in Transitions => run.outcome = "awaiting_approval"
  /\ callback.op \in Decisions => run.approval = callback.op

IInv == /\ callback \in Callback
        /\ inflight \in [Requests -> AllOps \cup {"none"}]
        /\ faults \in Nat
        /\ RecordInv(run)
        /\ RecordInv(stored)
        /\ Extends(stored, run)
        /\ InflightInv
        /\ CallbackInv

\* What every step does: it keeps IInv, and the snapshot's history only grows.
Step == IInv' /\ Extends(stored, stored')

-----------------------------------------------------------------------------
\* Push adds one event at the end of a run's timeline and changes nothing else.
LEMMA PushFacts ==
  ASSUME NEW m \in Run, NEW t \in EventTypes, NEW s \in Outcomes
  PROVE  /\ Push(m, t, s) \in Run
         /\ Push(m, t, s) = [m EXCEPT !.events = Push(m, t, s).events]
         /\ Len(Push(m, t, s).events) = Len(m.events) + 1
         /\ Push(m, t, s).events[Len(m.events) + 1] = [type |-> t, status |-> s]
         /\ \A i \in 1 .. Len(m.events) : Push(m, t, s).events[i] = m.events[i]
<1> DEFINE e == [type |-> t, status |-> s]
<1>1. e \in Event
  BY DEF Event
<1>2. m.events \in Seq(Event)
  BY DEF Run
<1>3. /\ Append(m.events, e) \in Seq(Event)
      /\ Len(Append(m.events, e)) = Len(m.events) + 1
      /\ Append(m.events, e)[Len(m.events) + 1] = e
      /\ \A i \in 1 .. Len(m.events) : Append(m.events, e)[i] = m.events[i]
  BY <1>1, <1>2, AppendProperties
<1>4. Push(m, t, s) = [m EXCEPT !.events = Append(m.events, e)]
  BY DEF Push
<1>5. Push(m, t, s).events = Append(m.events, e)
  BY <1>4 DEF Run
<1> QED
  BY <1>3, <1>4, <1>5 DEF Run

\* Histories only extend: the relation is reflexive and transitive.
LEMMA ExtendsRefl == ASSUME NEW m \in Run PROVE Extends(m, m)
  BY LenProperties DEF Run, Extends

LEMMA ExtendsTrans ==
  ASSUME NEW a \in Run, NEW b \in Run, NEW c \in Run, Extends(a, b), Extends(b, c)
  PROVE  Extends(a, c)
<1>1. /\ Len(a.events) \in Nat
      /\ Len(b.events) \in Nat
      /\ Len(c.events) \in Nat
  BY LenProperties DEF Run
<1> QED
  BY <1>1 DEF Extends

\* An audit record changes nothing but the set of audited positions.
LEMMA AuditFacts ==
  ASSUME NEW m, RecordInv(m), m.status # "absent", NEW i \in Nat
  PROVE  /\ RecordInv(Audit(m, i))
         /\ Extends(m, Audit(m, i))
         /\ Audit(m, i) = [m EXCEPT !.audited = Audit(m, i).audited]
<1>1. m \in Run
  BY DEF RecordInv
<1>2. /\ Audit(m, i) \in Run
      /\ Audit(m, i) = [m EXCEPT !.audited = m.audited \cup {i}]
      /\ Audit(m, i).audited = m.audited \cup {i}
  BY <1>1 DEF Audit, Run
<1>3. /\ Audit(m, i).events = m.events
      /\ Audit(m, i).status = m.status
      /\ Audit(m, i).outcome = m.outcome
      /\ Audit(m, i).approval = m.approval
      /\ Audit(m, i).revision = m.revision
  BY <1>1, <1>2 DEF Run
<1>4. Len(m.events) \in Nat
  BY <1>1, LenProperties DEF Run
<1> QED
  BY <1>2, <1>3, <1>4 DEF RecordInv, Extends

\* An event that is not a status change leaves the replayed status alone.
LEMMA PushRecord ==
  ASSUME NEW m, RecordInv(m), m.status # "absent",
         NEW t \in EventTypes, t # "status_changed", NEW s \in Outcomes
  PROVE  /\ RecordInv(Push(m, t, s))
         /\ Extends(m, Push(m, t, s))
         /\ Push(m, t, s) = [m EXCEPT !.events = Push(m, t, s).events]
<1> DEFINE n == Push(m, t, s)
<1>1. m \in Run
  BY DEF RecordInv
<1>2. /\ n \in Run
      /\ n = [m EXCEPT !.events = n.events]
      /\ Len(n.events) = Len(m.events) + 1
      /\ n.events[Len(m.events) + 1] = [type |-> t, status |-> s]
      /\ \A i \in 1 .. Len(m.events) : n.events[i] = m.events[i]
  BY <1>1, PushFacts
<1>3. /\ n.status = m.status
      /\ n.outcome = m.outcome
      /\ n.approval = m.approval
      /\ n.revision = m.revision
      /\ n.audited = m.audited
  BY <1>1, <1>2 DEF Run
<1>4. Len(m.events) \in Nat
  BY <1>1, LenProperties DEF Run
<1>5. Extends(m, n)
  BY <1>2, <1>3, <1>4 DEF Extends
<1>6. Replays(n.events, n.status)
  <2>1. PICK i \in 1 .. Len(m.events) :
          /\ m.events[i] = [type |-> "status_changed", status |-> m.status]
          /\ \A j \in 1 .. Len(m.events) : j > i => m.events[j].type # "status_changed"
    BY DEF RecordInv, Replays
  <2>2. n.events[Len(m.events) + 1].type # "status_changed"
    BY <1>2
  <2>3. \A j \in 1 .. Len(n.events) : j > i => n.events[j].type # "status_changed"
    BY <1>2, <1>4, <2>1, <2>2
  <2> QED
    BY <1>2, <1>3, <1>4, <2>1, <2>3 DEF Replays
<1> QED
  BY <1>2, <1>3, <1>5, <1>6 DEF RecordInv

\* A change of the decision, the revision or the notes of a run that preflight sent
\* to approval, or of the notes of any run, keeps everything RecordInv says.
LEMMA SameTimeline ==
  ASSUME NEW m, RecordInv(m), NEW n \in Run,
         n.status = m.status, n.outcome = m.outcome,
         n.events = m.events, n.audited = m.audited,
         \/ n.approval = m.approval /\ n.revision = m.revision
         \/ n.outcome = "awaiting_approval" /\ n.approval \in Decisions
         \/ n.outcome = "awaiting_approval" /\ n.approval = m.approval
  PROVE  RecordInv(n) /\ Extends(m, n)
<1>1. RecordInv(n)
  BY DEF RecordInv
<1>2. Extends(m, n)
  BY ExtendsRefl DEF RecordInv, Extends
<1> QED
  BY <1>1, <1>2

\* A status assignment together with its event is replayed to the new status.
LEMMA StatusPush ==
  ASSUME NEW m, RecordInv(m), m.status # "absent", NEW s \in Outcomes,
         m.outcome # "awaiting_approval" => s = "paused",
         s \in {"queued", "failed"} => m.approval \in Decisions
  PROVE  LET n == Push([m EXCEPT !.status = s], "status_changed", s)
         IN  /\ RecordInv(n)
             /\ Extends(m, n)
             /\ n = [m EXCEPT !.status = s, !.events = n.events]
<1> DEFINE k == [m EXCEPT !.status = s]
           n == Push(k, "status_changed", s)
<1>1. m \in Run
  BY DEF RecordInv
<1>2. /\ k \in Run
      /\ k.events = m.events
  BY <1>1 DEF Run, Statuses
<1>3. /\ n \in Run
      /\ n = [k EXCEPT !.events = n.events]
      /\ Len(n.events) = Len(m.events) + 1
      /\ n.events[Len(m.events) + 1] = [type |-> "status_changed", status |-> s]
      /\ \A i \in 1 .. Len(m.events) : n.events[i] = m.events[i]
  <2>1. "status_changed" \in EventTypes
    BY DEF EventTypes
  <2> HIDE DEF k
  <2> QED
    BY <1>2, <2>1, PushFacts
<1>4. /\ n.status = s
      /\ n.outcome = m.outcome
      /\ n.approval = m.approval
      /\ n.revision = m.revision
      /\ n.audited = m.audited
      /\ n = [m EXCEPT !.status = s, !.events = n.events]
  BY <1>1, <1>3 DEF Run
<1>5. Len(m.events) \in Nat
  BY <1>1, LenProperties DEF Run
<1>6. Extends(m, n)
  BY <1>3, <1>4, <1>5 DEF Extends
<1>7. Replays(n.events, n.status)
  BY <1>3, <1>4, <1>5 DEF Replays
<1>8. RecordInv(n)
  BY <1>3, <1>4, <1>7 DEF RecordInv, Outcomes
<1> HIDE DEF n
<1> QED
  BY <1>4, <1>6, <1>8 DEF n

-----------------------------------------------------------------------------

\* One stage of a callback: a record m that extends memory is written, or the
\* write fails and memory is left ahead of the snapshot.
LEMMA WriteStep ==
  ASSUME IInv, NEW op, NEW m, NEW next \in Callback,
         RecordInv(m), Extends(run, m), m.status # "absent",
         inflight' \in [Requests -> AllOps \cup {"none"}],
         \A r \in Requests :
           inflight'[r] \in {"decide", "revise", "resubmit"} =>
             m.outcome = "awaiting_approval",
         next.op \in Transitions => m.outcome = "awaiting_approval",
         next.op \in Decisions => m.approval = next.op,
         SaveFor(op, m, next)
  PROVE  Step
<1>1. CASE Save(m, next)
  <2>1. /\ run' = m
        /\ stored' = m
        /\ callback' = next
        /\ faults' = faults
    BY <1>1 DEF Save
  <2>2. Extends(m, m)
    BY ExtendsRefl DEF RecordInv
  <2>3. InflightInv'
    BY <2>1 DEF InflightInv
  <2>4. CallbackInv'
    BY <2>1 DEF CallbackInv
  <2>5. Extends(stored, m)
    BY ExtendsTrans DEF IInv, RecordInv
  <2> QED
    BY <2>1, <2>2, <2>3, <2>4, <2>5 DEF Step, IInv
<1>2. CASE SaveFails(m)
  <2>1. /\ run' = m
        /\ stored' = stored
        /\ callback' = Idle
        /\ faults' = faults + 1
    BY <1>2 DEF SaveFails
  <2>2. Extends(stored, m)
    BY ExtendsTrans DEF IInv, RecordInv
  <2>3. InflightInv'
    BY <2>1 DEF InflightInv
  <2>4. CallbackInv'
    BY <2>1 DEF CallbackInv, Idle, Transitions, Decisions
  <2>5. callback' \in Callback
    BY <2>1 DEF Callback, Idle
  <2>6. Extends(stored, stored)
    BY ExtendsRefl DEF IInv, RecordInv
  <2> QED
    BY <2>1, <2>2, <2>3, <2>4, <2>5, <2>6 DEF Step, IInv
<1> QED
  BY <1>1, <1>2 DEF SaveFor

\* What the start of a callback knows: the request was in flight, so the run
\* exists and, for the approval flow, preflight sent it to approval.
LEMMA BeginFacts ==
  ASSUME IInv, NEW r \in Requests, NEW op \in AllOps, Begin(r, op)
  PROVE  /\ run.status # "absent"
         /\ op \in {"decide", "revise", "resubmit"} => run.outcome = "awaiting_approval"
         /\ inflight' \in [Requests -> AllOps \cup {"none"}]
         /\ \A q \in Requests :
              inflight'[q] \in {"decide", "revise", "resubmit"} =>
                run.outcome = "awaiting_approval"
<1>1. op # "none"
  BY DEF AllOps, Notes
<1> QED
  BY <1>1 DEF Begin, IInv, InflightInv

\* The same while a callback runs: requests in flight are as they were.
LEMMA RunningFacts ==
  ASSUME IInv, UNCHANGED inflight, callback.op # "idle"
  PROVE  /\ run.status # "absent"
         /\ inflight' \in [Requests -> AllOps \cup {"none"}]
         /\ \A q \in Requests :
              inflight'[q] \in {"decide", "revise", "resubmit"} =>
                run.outcome = "awaiting_approval"
  BY DEF IInv, InflightInv, CallbackInv

\* Stages are callbacks.
LEMMA StageFacts ==
  ASSUME NEW op \in Transitions \cup Notes \cup {"idle", "audit_run"}, NEW n \in Nat
  PROVE  Stage(op, n) \in Callback /\ Stage(op, n).op = op /\ Stage(op, n).stage = n
  BY DEF Stage, Callback

-----------------------------------------------------------------------------
LEMMA InitInv == Init => IInv
<1> SUFFICES ASSUME Init PROVE IInv
  OBVIOUS
<1>1. NoRun \in Run
  BY DEF NoRun, Run, Statuses
<1>2. RecordInv(NoRun)
  BY <1>1 DEF RecordInv, NoRun
<1>3. Extends(NoRun, NoRun)
  BY <1>1, ExtendsRefl
<1>4. InflightInv /\ CallbackInv
  BY DEF Init, InflightInv, CallbackInv, Idle, Transitions, Decisions
<1> QED
  BY <1>2, <1>3, <1>4 DEF Init, IInv, Idle, Callback

LEMMA CreateTaskInv == IInv /\ CreateTask => Step
<1> SUFFICES ASSUME IInv, CreateTask PROVE Step
  OBVIOUS
<1>1. PICK s \in Outcomes : Save(CreatedRun(s), Stage("audit_run", 1))
  BY DEF CreateTask
<1> DEFINE m == CreatedRun(s)
           ev == << [type |-> "task_created", status |-> "queued"],
                    [type |-> "preflight_completed", status |-> "queued"],
                    [type |-> "status_changed", status |-> s] >>
<1>2. /\ m.status = s
      /\ m.outcome = s
      /\ m.approval = "none"
      /\ m.revision = "none"
      /\ m.events = ev
      /\ m.notes = [k \in Notes |-> 0]
      /\ m.audited = {}
  BY DEF CreatedRun
<1>3. ev \in Seq(Event) /\ Len(ev) = 3
  <2>1. /\ [type |-> "task_created", status |-> "queued"] \in Event
        /\ [type |-> "preflight_completed", status |-> "queued"] \in Event
        /\ [type |-> "status_changed", status |-> s] \in Event
    BY DEF Event, EventTypes, Outcomes
  <2> QED
    BY <2>1
<1>4. m \in Run
  BY <1>3 DEF CreatedRun, Run, Statuses
<1>5. Replays(m.events, m.status)
  BY <1>2, <1>3 DEF Replays
<1>6. RecordInv(m)
  <2>1. s # "absent" /\ m.status # "absent" /\ m.outcome # "absent"
    BY <1>2 DEF Outcomes
  <2>2. m.outcome = "awaiting_approval" => m.status \notin {"queued", "failed"}
    BY <1>2
  <2> HIDE DEF m, ev
  <2> QED
    BY <1>2, <1>4, <1>5, <2>1, <2>2 DEF RecordInv
<1>7. Extends(run, m)
  <2>1. run.events = << >> /\ run.audited = {}
    BY DEF CreateTask, IInv, RecordInv
  <2> HIDE DEF m, ev
  <2> QED
    BY <1>2, <1>3, <2>1 DEF Extends
<1>8. \A r \in Requests : inflight'[r] = "none"
  BY DEF CreateTask, IInv, InflightInv
<1>9. Stage("audit_run", 1) \in Callback /\ Stage("audit_run", 1).op = "audit_run"
  BY StageFacts
<1>10. SaveFor("create", m, Stage("audit_run", 1))
  BY <1>1 DEF SaveFor
<1>11. inflight' \in [Requests -> AllOps \cup {"none"}]
  BY DEF CreateTask, IInv
<1>12. m.status # "absent"
  BY <1>2 DEF Outcomes
<1> HIDE DEF m, ev
<1> QED
  BY <1>6, <1>7, <1>8, <1>9, <1>10, <1>11, <1>12, WriteStep DEF Transitions, Decisions

LEMMA AuditRunInv == IInv /\ AuditRun => Step
<1> SUFFICES ASSUME IInv, AuditRun PROVE Step
  OBVIOUS
<1> DEFINE m == Audit(run, callback.stage)
           next == IF callback.stage = Len(run.events) THEN Idle
                   ELSE Stage("audit_run", callback.stage + 1)
<1>1. run.status # "absent"
  BY RunningFacts DEF AuditRun
<1>2. callback.stage \in Nat /\ run \in Run
  BY DEF IInv, Callback, RecordInv
<1>3. /\ RecordInv(m)
      /\ Extends(run, m)
      /\ m.status = run.status
      /\ m.outcome = run.outcome
  BY <1>1, <1>2, AuditFacts DEF IInv, Run
<1>4. next \in Callback /\ next.op \in {"idle", "audit_run"}
  <2>1. /\ Stage("audit_run", callback.stage + 1) \in Callback
        /\ Stage("audit_run", callback.stage + 1).op = "audit_run"
    BY <1>2, StageFacts
  <2>2. Idle \in Callback /\ Idle.op = "idle"
    BY DEF Idle, Callback
  <2> QED
    BY <2>1, <2>2
<1>5. SaveFor("audit_run", m, next)
  BY DEF AuditRun, SaveFor
<1>6. UNCHANGED inflight /\ callback.op # "idle"
  BY DEF AuditRun
<1>7. next.op \notin Transitions /\ next.op \notin Decisions
  BY <1>4 DEF Transitions, Decisions
<1> HIDE DEF m, next
<1> QED
  BY <1>1, <1>3, <1>4, <1>5, <1>6, <1>7, RunningFacts, WriteStep

\* The first stage of a transition sets run.approval or run.revision only.
LEMMA DecideInv == ASSUME IInv, NEW r \in Requests, Decide(r) PROVE Step
<1>1. PICK d \in Decisions : Save([run EXCEPT !.approval = d], Stage(d, 1))
  BY DEF Decide
<1> DEFINE m == [run EXCEPT !.approval = d]
<1>2. /\ run.status # "absent"
      /\ run.outcome = "awaiting_approval"
      /\ inflight' \in [Requests -> AllOps \cup {"none"}]
      /\ \A q \in Requests :
           inflight'[q] \in {"decide", "revise", "resubmit"} =>
             run.outcome = "awaiting_approval"
  BY BeginFacts DEF Decide, AllOps
<1>3. run \in Run /\ m \in Run
  BY DEF IInv, RecordInv, Run
<1>4. /\ m.status = run.status
      /\ m.outcome = run.outcome
      /\ m.approval = d
      /\ m.revision = run.revision
      /\ m.events = run.events
      /\ m.audited = run.audited
  BY <1>3 DEF Run
<1>5. RecordInv(m) /\ Extends(run, m)
  <2> HIDE DEF m
  <2> QED
    BY <1>2, <1>3, <1>4, SameTimeline DEF IInv
<1>7. Stage(d, 1) \in Callback /\ Stage(d, 1).op = d
  BY StageFacts DEF Transitions
<1>8. SaveFor("decide", m, Stage(d, 1))
  BY <1>1 DEF SaveFor
<1> HIDE DEF m
<1> QED
  BY <1>2, <1>4, <1>5, <1>7, <1>8, WriteStep

LEMMA RevisionRecordInv ==
  ASSUME IInv, NEW r \in Requests, NEW op \in {"revise", "resubmit"},
         NEW v \in {"requested", "resubmitted"},
         Begin(r, op), SaveFor(op, [run EXCEPT !.revision = v], Stage(op, 1))
  PROVE  Step
<1> DEFINE m == [run EXCEPT !.revision = v]
<1>1. /\ run.status # "absent"
      /\ run.outcome = "awaiting_approval"
      /\ inflight' \in [Requests -> AllOps \cup {"none"}]
      /\ \A q \in Requests :
           inflight'[q] \in {"decide", "revise", "resubmit"} =>
             run.outcome = "awaiting_approval"
  BY BeginFacts DEF AllOps
<1>2. run \in Run /\ m \in Run
  BY DEF IInv, RecordInv, Run
<1>3. /\ m.status = run.status
      /\ m.outcome = run.outcome
      /\ m.approval = run.approval
      /\ m.revision = v
      /\ m.events = run.events
      /\ m.audited = run.audited
  BY <1>2 DEF Run
<1>4. RecordInv(m) /\ Extends(run, m)
  <2> HIDE DEF m
  <2> QED
    BY <1>1, <1>2, <1>3, SameTimeline DEF IInv
<1>6. /\ Stage(op, 1) \in Callback
      /\ Stage(op, 1).op = op
      /\ op \notin Decisions
  BY StageFacts DEF Transitions, Decisions
<1> HIDE DEF m
<1> QED
  BY <1>1, <1>3, <1>4, <1>6, WriteStep DEF m

\* The status a transition assigns is one the record may have.
LEMMA ChangeStatusInv == IInv /\ ChangeStatus => Step
<1> SUFFICES ASSUME IInv, ChangeStatus PROVE Step
  OBVIOUS
<1> DEFINE op == callback.op
           s  == NewStatus(op)
           p  == Push(run, TransitionEvent[op], run.status)
           n  == Push([p EXCEPT !.status = s], "status_changed", s)
           i  == Len(n.events) - 1
           m  == Audit(n, i)
<1>1. op \in Transitions /\ op # "idle"
  BY DEF ChangeStatus, Transitions, Decisions
<1>2. /\ run.status # "absent"
      /\ run.outcome = "awaiting_approval"
      /\ op \in Decisions => run.approval = op
      /\ run \in Run
      /\ RecordInv(run)
  BY <1>1 DEF IInv, CallbackInv, RecordInv
<1>3. run.status \in Outcomes
  BY <1>2 DEF Run, Statuses
<1>4. TransitionEvent[op] \in EventTypes /\ TransitionEvent[op] # "status_changed"
  BY <1>1 DEF TransitionEvent, EventTypes, Transitions, Decisions
<1>5. /\ RecordInv(p)
      /\ Extends(run, p)
      /\ p.status = run.status
      /\ p.outcome = run.outcome
      /\ p.approval = run.approval
      /\ p \in Run
  <2>1. /\ RecordInv(p)
        /\ Extends(run, p)
        /\ p = [run EXCEPT !.events = p.events]
    BY <1>2, <1>3, <1>4, PushRecord
  <2> HIDE DEF p
  <2> QED
    BY <1>2, <2>1 DEF Run, RecordInv
<1>6. s \in Outcomes /\ (s \in {"queued", "failed"} => op \in Decisions)
  BY <1>1 DEF NewStatus, Outcomes, Transitions, Decisions
<1>7. /\ RecordInv(n)
      /\ Extends(p, n)
      /\ n.status = s
      /\ n.outcome = p.outcome
      /\ n.approval = p.approval
      /\ n \in Run
  <2>0. /\ p.status # "absent"
        /\ p.outcome = "awaiting_approval"
        /\ s \in {"queued", "failed"} => p.approval \in Decisions
    BY <1>2, <1>5, <1>6
  <2> HIDE DEF p, s, op
  <2>1. /\ RecordInv(n)
        /\ Extends(p, n)
        /\ n = [p EXCEPT !.status = s, !.events = n.events]
    BY <1>5, <1>6, <2>0, StatusPush
  <2> HIDE DEF n
  <2> QED
    BY <1>5, <2>1 DEF Run, RecordInv
<1>8. /\ RecordInv(m)
      /\ Extends(n, m)
      /\ m.status = n.status
      /\ m.outcome = n.outcome
      /\ m.approval = n.approval
  <2>1. i \in Nat
    <3>1. \E k \in 1 .. Len(n.events) : n.events[k].status = s
      BY <1>6, <1>7 DEF RecordInv, Replays, Outcomes
    <3>2. Len(n.events) \in Nat
      BY <1>7, LenProperties DEF Run
    <3> HIDE DEF n
    <3> QED
      BY <3>1, <3>2
  <2>2. n.status # "absent"
    BY <1>6, <1>7 DEF Outcomes
  <2> HIDE DEF n, i
  <2>3. /\ RecordInv(m)
        /\ Extends(n, m)
        /\ m = [n EXCEPT !.audited = m.audited]
    BY <1>7, <2>1, <2>2, AuditFacts
  <2> HIDE DEF m
  <2> QED
    BY <1>7, <2>3 DEF Run
<1>9. Extends(run, m)
  <2> HIDE DEF p, n, m
  <2> QED
    BY <1>2, <1>5, <1>7, <1>8, ExtendsTrans DEF RecordInv
<1>10. SaveFor(op, m, Stage(op, 2))
  BY DEF ChangeStatus, Transitioned
<1>11. Stage(op, 2) \in Callback /\ Stage(op, 2).op = op
  BY <1>1, StageFacts
<1>12. m.status # "absent"
  BY <1>6, <1>7, <1>8 DEF Outcomes
<1>13. UNCHANGED inflight
  BY DEF ChangeStatus
<1> HIDE DEF p, n, m, s
<1> QED
  BY <1>1, <1>2, <1>5, <1>7, <1>8, <1>9, <1>10, <1>11, <1>12, <1>13,
     RunningFacts, WriteStep

LEMMA AuditLastInv == IInv /\ AuditLast => Step
<1> SUFFICES ASSUME IInv, AuditLast PROVE Step
  OBVIOUS
<1> DEFINE m == Audit(run, Len(run.events))
<1>1. callback.op # "idle" /\ UNCHANGED inflight
  BY DEF AuditLast, Transitions, Decisions, Notes
<1>2. run.status # "absent"
  BY <1>1, RunningFacts
<1>3. run \in Run /\ Len(run.events) \in Nat
  BY LenProperties DEF IInv, RecordInv, Run
<1>4. /\ RecordInv(m)
      /\ Extends(run, m)
      /\ m.status = run.status
      /\ m.outcome = run.outcome
  BY <1>2, <1>3, AuditFacts DEF IInv, Run
<1>5. Idle \in Callback /\ Idle.op \notin Transitions /\ Idle.op \notin Decisions
  BY DEF Idle, Callback, Transitions, Decisions
<1>6. SaveFor(callback.op, m, Idle)
  BY DEF AuditLast
<1> HIDE DEF m
<1> QED
  BY <1>1, <1>2, <1>4, <1>5, <1>6, RunningFacts, WriteStep

\* A note keeps the status: a counter and, for comments and connectors, an event.
LEMMA NoteRecord ==
  ASSUME NEW m, RecordInv(m), NEW k \in Notes
  PROVE  LET n == [m EXCEPT !.notes[k] = @ + 1]
         IN  /\ RecordInv(n)
             /\ Extends(m, n)
             /\ n.status = m.status
             /\ n.outcome = m.outcome
             /\ n.approval = m.approval
<1> DEFINE n == [m EXCEPT !.notes[k] = @ + 1]
<1>1. m \in Run
  BY DEF RecordInv
<1>2. m.notes \in [Notes -> Nat]
  BY <1>1 DEF Run
<1>3. [m.notes EXCEPT ![k] = @ + 1] \in [Notes -> Nat]
  BY <1>2
<1>4. n = [m EXCEPT !.notes = [m.notes EXCEPT ![k] = @ + 1]]
  BY <1>1 DEF Run
<1>5. /\ n \in Run
      /\ n.status = m.status
      /\ n.outcome = m.outcome
      /\ n.approval = m.approval
      /\ n.revision = m.revision
      /\ n.events = m.events
      /\ n.audited = m.audited
  BY <1>1, <1>3, <1>4 DEF Run
<1> HIDE DEF n
<1>6. RecordInv(n) /\ Extends(m, n)
  BY <1>5, SameTimeline
<1> QED
  BY <1>5, <1>6 DEF n

LEMMA AnnotateInv == ASSUME IInv, NEW r \in Requests, Annotate(r) PROVE Step
<1>1. PICK k \in {"comment", "connector"} :
        /\ Begin(r, k)
        /\ SaveFor(k, Push([run EXCEPT !.notes[k] = @ + 1], NoteEvent[k], run.status),
                   Stage(k, 2))
  BY DEF Annotate
<1> DEFINE n == [run EXCEPT !.notes[k] = @ + 1]
           m == Push(n, NoteEvent[k], run.status)
<1>2. k \in Notes /\ k \in AllOps
  BY DEF Notes, AllOps
<1>3. /\ run.status # "absent"
      /\ inflight' \in [Requests -> AllOps \cup {"none"}]
      /\ \A q \in Requests :
           inflight'[q] \in {"decide", "revise", "resubmit"} =>
             run.outcome = "awaiting_approval"
  BY <1>1, <1>2, BeginFacts
<1>4. /\ RecordInv(n)
      /\ Extends(run, n)
      /\ n.status = run.status
      /\ n.outcome = run.outcome
  BY <1>2, NoteRecord DEF IInv
<1>5. NoteEvent[k] \in EventTypes /\ NoteEvent[k] # "status_changed"
  BY DEF NoteEvent, EventTypes, Notes
<1>6. run.status \in Outcomes /\ run \in Run
  BY <1>3 DEF IInv, RecordInv, Run, Statuses
<1>7. RecordInv(m) /\ Extends(n, m) /\ m.status = n.status /\ m.outcome = n.outcome
  <2> HIDE DEF n
  <2>1. /\ RecordInv(m)
        /\ Extends(n, m)
        /\ m = [n EXCEPT !.events = m.events]
    BY <1>3, <1>4, <1>5, <1>6, PushRecord
  <2> HIDE DEF m
  <2> QED
    BY <1>4, <2>1 DEF RecordInv, Run
<1>8. Extends(run, m)
  <2> HIDE DEF n, m
  <2> QED
    BY <1>4, <1>6, <1>7, ExtendsTrans DEF RecordInv
<1>9. /\ Stage(k, 2) \in Callback
      /\ Stage(k, 2).op \notin Transitions
      /\ Stage(k, 2).op \notin Decisions
  <2>1. Stage(k, 2) \in Callback /\ Stage(k, 2).op = k
    BY <1>2, StageFacts
  <2> QED
    BY <2>1 DEF Transitions, Decisions
<1>10. SaveFor(k, m, Stage(k, 2))
  BY <1>1
<1> HIDE DEF n, m
<1> QED
  BY <1>3, <1>4, <1>7, <1>8, <1>9, <1>10, WriteStep

LEMMA HeartbeatInv == ASSUME IInv, NEW r \in Requests, Heartbeat(r) PROVE Step
<1> DEFINE m == [run EXCEPT !.notes["heartbeat"] = @ + 1]
<1>1. "heartbeat" \in Notes /\ "heartbeat" \in AllOps
  BY DEF Notes, AllOps
<1>2. /\ run.status # "absent"
      /\ inflight' \in [Requests -> AllOps \cup {"none"}]
      /\ \A q \in Requests :
           inflight'[q] \in {"decide", "revise", "resubmit"} =>
             run.outcome = "awaiting_approval"
  BY <1>1, BeginFacts DEF Heartbeat
<1>3. /\ RecordInv(m)
      /\ Extends(run, m)
      /\ m.status = run.status
      /\ m.outcome = run.outcome
  BY <1>1, NoteRecord DEF IInv
<1>4. /\ Stage("heartbeat", 1) \in Callback
      /\ Stage("heartbeat", 1).op \notin Transitions
      /\ Stage("heartbeat", 1).op \notin Decisions
  <2>1. Stage("heartbeat", 1) \in Callback /\ Stage("heartbeat", 1).op = "heartbeat"
    BY <1>1, StageFacts
  <2> QED
    BY <2>1 DEF Transitions, Decisions
<1>5. SaveFor("heartbeat", m, Stage("heartbeat", 1))
  BY DEF Heartbeat
<1> HIDE DEF m
<1> QED
  BY <1>2, <1>3, <1>4, <1>5, WriteStep

LEMMA HeartbeatEventInv == IInv /\ HeartbeatEvent => Step
<1> SUFFICES ASSUME IInv, HeartbeatEvent PROVE Step
  OBVIOUS
<1> DEFINE n == Push(run, NoteEvent["heartbeat"], run.status)
           i == Len(n.events)
           m == Audit(n, i)
<1>1. callback.op # "idle" /\ UNCHANGED inflight
  BY DEF HeartbeatEvent, Stage
<1>2. /\ run.status # "absent"
      /\ inflight' \in [Requests -> AllOps \cup {"none"}]
      /\ \A q \in Requests :
           inflight'[q] \in {"decide", "revise", "resubmit"} =>
             run.outcome = "awaiting_approval"
  BY <1>1, RunningFacts
<1>3. /\ NoteEvent["heartbeat"] \in EventTypes
      /\ NoteEvent["heartbeat"] # "status_changed"
  BY DEF NoteEvent, EventTypes, Notes
<1>4. RecordInv(run) /\ run \in Run /\ run.status \in Outcomes
  BY <1>2 DEF IInv, RecordInv, Run, Statuses
<1>5. RecordInv(n) /\ Extends(run, n) /\ n.status = run.status /\ n.outcome = run.outcome
  <2>1. /\ RecordInv(n)
        /\ Extends(run, n)
        /\ n = [run EXCEPT !.events = n.events]
    BY <1>2, <1>3, <1>4, PushRecord
  <2> HIDE DEF n
  <2> QED
    BY <1>4, <2>1 DEF Run
<1>6. /\ RecordInv(m)
      /\ Extends(n, m)
      /\ m.status = n.status
      /\ m.outcome = n.outcome
  <2> HIDE DEF n
  <2>1. n \in Run /\ i \in Nat
    BY <1>5, LenProperties DEF RecordInv, Run
  <2> HIDE DEF i
  <2>2. /\ RecordInv(m)
        /\ Extends(n, m)
        /\ m = [n EXCEPT !.audited = m.audited]
    BY <1>2, <1>5, <2>1, AuditFacts
  <2> HIDE DEF m
  <2> QED
    BY <2>1, <2>2 DEF Run
<1>7. Extends(run, m)
  <2> HIDE DEF n, m
  <2> QED
    BY <1>4, <1>5, <1>6, ExtendsTrans DEF RecordInv
<1>8. Idle \in Callback /\ Idle.op \notin Transitions /\ Idle.op \notin Decisions
  BY DEF Idle, Callback, Transitions, Decisions
<1>9. SaveFor("heartbeat", m, Idle)
  BY DEF HeartbeatEvent
<1> HIDE DEF n, m
<1> QED
  BY <1>2, <1>5, <1>6, <1>7, <1>8, <1>9, WriteStep

LEMMA StepRecordedInv == ASSUME IInv, NEW r \in Requests, StepRecorded(r) PROVE Step
<1>1. /\ run.status # "absent"
      /\ inflight' \in [Requests -> AllOps \cup {"none"}]
      /\ \A q \in Requests :
           inflight'[q] \in {"decide", "revise", "resubmit"} =>
             run.outcome = "awaiting_approval"
  BY BeginFacts DEF StepRecorded, AllOps
<1>2. RecordInv(run) /\ Extends(run, run)
  BY ExtendsRefl DEF IInv, RecordInv
<1>3. Idle \in Callback /\ Idle.op \notin Transitions /\ Idle.op \notin Decisions
  BY DEF Idle, Callback, Transitions, Decisions
<1>4. SaveFor("gate", run, Idle)
  BY DEF StepRecorded, SaveFor
<1> QED
  BY <1>1, <1>2, <1>3, <1>4, WriteStep

LEMMA StepPausesRunInv == ASSUME IInv, NEW r \in Requests, StepPausesRun(r) PROVE Step
<1> DEFINE m == Push([run EXCEPT !.status = "paused"], "status_changed", "paused")
<1>1. /\ run.status # "absent"
      /\ inflight' \in [Requests -> AllOps \cup {"none"}]
      /\ \A q \in Requests :
           inflight'[q] \in {"decide", "revise", "resubmit"} =>
             run.outcome = "awaiting_approval"
  BY BeginFacts DEF StepPausesRun, AllOps
<1>2. RecordInv(run) /\ run \in Run
  BY DEF IInv, RecordInv
<1>3. /\ RecordInv(m)
      /\ Extends(run, m)
      /\ m = [run EXCEPT !.status = "paused", !.events = m.events]
  BY <1>1, <1>2, StatusPush DEF Outcomes
<1>4. /\ Stage("audit_run", 1) \in Callback
      /\ Stage("audit_run", 1).op \notin Transitions
      /\ Stage("audit_run", 1).op \notin Decisions
  <2>1. Stage("audit_run", 1) \in Callback /\ Stage("audit_run", 1).op = "audit_run"
    BY StageFacts
  <2> QED
    BY <2>1 DEF Transitions, Decisions
<1>5. SaveFor("gate", m, Stage("audit_run", 1))
  BY DEF StepPausesRun, SaveFor
<1> HIDE DEF m
<1>6. m.status = "paused" /\ m.outcome = run.outcome
  BY <1>2, <1>3 DEF Run
<1> QED
  BY <1>1, <1>3, <1>4, <1>5, <1>6, WriteStep

\* The header check of a request fixes what InflightInv says of it.
LEMMA AcceptInv == ASSUME IInv, NEW r \in Requests, Accept(r) PROVE Step
<1>1. PICK op \in Ops : Admitted(op) /\ inflight' = [inflight EXCEPT ![r] = op]
  BY DEF Accept
<1>2. op \in AllOps
  BY OpsAssumption
<1>3. run.status # "absent"
  BY <1>1, <1>2 DEF Admitted, AllOps, Notes
<1>4. op \in {"decide", "revise", "resubmit"} => run.outcome = "awaiting_approval"
  <2>1. CASE op \in {"decide", "revise"}
    <3>1. run.status = "awaiting_approval"
      BY <1>1, <2>1 DEF Admitted
    <3> QED
      BY <3>1 DEF IInv, RecordInv
  <2>2. CASE op = "resubmit"
    <3>1. run.revision = "requested"
      BY <1>1, <2>2 DEF Admitted
    <3> QED
      BY <3>1 DEF IInv, RecordInv
  <2> QED
    BY <2>1, <2>2
<1>5. /\ run' = run
      /\ stored' = stored
      /\ callback' = callback
      /\ faults' = faults
  BY DEF Accept
<1>6. inflight' \in [Requests -> AllOps \cup {"none"}]
  BY <1>1, <1>2 DEF IInv
<1>7. InflightInv'
  BY <1>1, <1>3, <1>4, <1>5 DEF IInv, InflightInv
<1>8. CallbackInv'
  BY <1>5 DEF IInv, CallbackInv
<1>9. Extends(stored, stored)
  BY ExtendsRefl DEF IInv, RecordInv
<1> QED
  BY <1>5, <1>6, <1>7, <1>8, <1>9 DEF Step, IInv

LEMMA DropInv == ASSUME IInv, NEW r \in Requests, Drop(r) PROVE Step
<1>1. /\ run' = run
      /\ stored' = stored
      /\ callback' = callback
      /\ faults' = faults
      /\ inflight' = [inflight EXCEPT ![r] = "none"]
  BY DEF Drop
<1>2. inflight' \in [Requests -> AllOps \cup {"none"}] /\ InflightInv'
  BY <1>1 DEF IInv, InflightInv
<1>3. CallbackInv'
  BY <1>1 DEF IInv, CallbackInv
<1>4. Extends(stored, stored)
  BY ExtendsRefl DEF IInv, RecordInv
<1> QED
  BY <1>1, <1>2, <1>3, <1>4 DEF Step, IInv

\* A restart drops the requests and the callback, and memory becomes the snapshot.
LEMMA CrashInv == IInv /\ Crash => Step
<1> SUFFICES ASSUME IInv, Crash PROVE Step
  OBVIOUS
<1>1. /\ run' = stored
      /\ stored' = stored
      /\ callback' = Idle
      /\ faults' \in Nat
      /\ inflight' = [r \in Requests |-> "none"]
  BY DEF Crash, IInv
<1>2. Extends(stored, stored)
  BY ExtendsRefl DEF IInv, RecordInv
<1>3. InflightInv' /\ CallbackInv' /\ callback' \in Callback
  BY <1>1 DEF InflightInv, CallbackInv, Idle, Callback, Transitions, Decisions
<1> QED
  BY <1>1, <1>2, <1>3 DEF Step, IInv

LEMMA UnchangedInv == IInv /\ UNCHANGED vars => Step
<1> SUFFICES ASSUME IInv, UNCHANGED vars PROVE Step
  OBVIOUS
<1>1. IInv'
  BY DEF vars, IInv, InflightInv, CallbackInv
<1>2. Extends(stored, stored')
  BY ExtendsRefl DEF vars, IInv, RecordInv
<1> QED
  BY <1>1, <1>2 DEF Step

LEMMA NextInv == IInv /\ [Next]_vars => Step
<1> SUFFICES ASSUME IInv, [Next]_vars PROVE Step
  OBVIOUS
<1>1. CASE CreateTask
  BY <1>1, CreateTaskInv
<1>2. CASE AuditRun
  BY <1>2, AuditRunInv
<1>3. CASE ChangeStatus
  BY <1>3, ChangeStatusInv
<1>4. CASE AuditLast
  BY <1>4, AuditLastInv
<1>5. CASE HeartbeatEvent
  BY <1>5, HeartbeatEventInv
<1>6. CASE Crash
  BY <1>6, CrashInv
<1>7. ASSUME NEW r \in Requests, Accept(r) PROVE Step
  BY <1>7, AcceptInv
<1>8. ASSUME NEW r \in Requests, Drop(r) PROVE Step
  BY <1>8, DropInv
<1>9. ASSUME NEW r \in Requests, Decide(r) PROVE Step
  BY <1>9, DecideInv
<1>10. ASSUME NEW r \in Requests, Revise(r) PROVE Step
  BY <1>10, RevisionRecordInv DEF Revise
<1>11. ASSUME NEW r \in Requests, Resubmit(r) PROVE Step
  BY <1>11, RevisionRecordInv DEF Resubmit
<1>12. ASSUME NEW r \in Requests, Annotate(r) PROVE Step
  BY <1>12, AnnotateInv
<1>13. ASSUME NEW r \in Requests, Heartbeat(r) PROVE Step
  BY <1>13, HeartbeatInv
<1>14. ASSUME NEW r \in Requests, StepRecorded(r) PROVE Step
  BY <1>14, StepRecordedInv
<1>15. ASSUME NEW r \in Requests, StepPausesRun(r) PROVE Step
  BY <1>15, StepPausesRunInv
<1>16. CASE UNCHANGED vars
  BY <1>16, UnchangedInv
<1> QED
  BY <1>1, <1>2, <1>3, <1>4, <1>5, <1>6, <1>7, <1>8, <1>9, <1>10, <1>11, <1>12,
     <1>13, <1>14, <1>15, <1>16 DEF Next

\* Every reachable state satisfies the inductive invariant.
THEOREM Inductive == Spec => []IInv
  <1>1. IInv /\ [Next]_vars => IInv'
  BY NextInv DEF Step
<1> QED
  BY InitInv, <1>1, PTL DEF Spec

-----------------------------------------------------------------------------
\* The state of the run, its snapshot and its callback are always well formed.
THEOREM TypeCorrect == Spec => []TypeOK
<1>1. IInv => TypeOK
  BY DEF IInv, RecordInv, TypeOK
<1> QED
  BY <1>1, Inductive, PTL

\* Only preflight's awaiting_approval opens the approval flow of a run (the header
\* checks of the approval routes), however late an accepted request is applied.
THEOREM ApprovalIsGuarded == Spec => []ApprovalOnlyWhenRequired
<1>1. IInv => ApprovalOnlyWhenRequired
  BY DEF IInv, RecordInv, ApprovalOnlyWhenRequired
<1> QED
  BY <1>1, Inductive, PTL

\* No crash point of the approval handler leaves a run queued or failed without
\* the decision that made it so.
THEOREM DecisionIsRecorded == Spec => []NoOutcomeWithoutDecision
<1>1. IInv => NoOutcomeWithoutDecision
  BY DEF IInv, RecordInv, NoOutcomeWithoutDecision
<1> QED
  BY <1>1, Inductive, PTL

\* The timeline can be replayed to the status in memory and on disk.
THEOREM TimelineIsFaithful == Spec => []TimelineReplaysStatus
<1>1. ASSUME NEW m, RecordInv(m) PROVE DOMAIN m.events = 1 .. Len(m.events)
  BY <1>1, LenProperties DEF RecordInv, Run
<1>2. ASSUME IInv PROVE TimelineReplaysStatus
  <2> SUFFICES ASSUME NEW m \in {run, stored}, m.status # "absent"
               PROVE  \E i \in DOMAIN m.events :
                        /\ m.events[i] = [type |-> "status_changed", status |-> m.status]
                        /\ \A j \in DOMAIN m.events :
                             j > i => m.events[j].type # "status_changed"
    BY DEF TimelineReplaysStatus
  <2>1. RecordInv(m)
    BY <1>2 DEF IInv
  <2>2. Replays(m.events, m.status)
    BY <2>1 DEF RecordInv
  <2>3. DOMAIN m.events = 1 .. Len(m.events)
    BY <1>1, <2>1
  <2> QED
    BY <2>2, <2>3 DEF Replays
<1>3. IInv => TimelineReplaysStatus
  BY <1>2
<1> QED
  BY <1>3, Inductive, PTL

\* The snapshot on disk never loses an event or an audit record it has held, across
\* requests, failed writes and restarts: persistRunStore is only called on a run
\* that extends the one it wrote before.
THEOREM StoredHistoryIsMonotone == Spec => StoredHistoryGrows
<1> DEFINE Grows == /\ Len(stored.events) <= Len(stored'.events)
                    /\ \A i \in DOMAIN stored.events : stored'.events[i] = stored.events[i]
                    /\ stored.audited \subseteq stored'.audited
<1>1. IInv /\ [Next]_vars => [Grows]_stored
  <2> SUFFICES ASSUME IInv, [Next]_vars PROVE Grows
    OBVIOUS
  <2>1. Extends(stored, stored')
    BY NextInv DEF Step
  <2>2. DOMAIN stored.events = 1 .. Len(stored.events)
    BY LenProperties DEF IInv, RecordInv, Run
  <2> QED
    BY <2>1, <2>2 DEF Extends
<1> QED
  BY <1>1, Inductive, PTL DEF Spec, StoredHistoryGrows

-----------------------------------------------------------------------------
(***************************************************************************)
(* The bookkeeping of a run: the decision behind its status, the audit     *)
(* records of its events and the events of its notes.  What a fault can    *)
(* cost is what the running callback still had to do, so the second        *)
(* invariant counts that too.                                              *)
(***************************************************************************)

\* The audit records that n faults may have cost.
Allowance(n) == IF n = 0 THEN 0 ELSE n + 2

\* The positions of m that callback cb is still going to audit.
Due(m, cb) ==
  {i \in 1 .. Len(m.events) :
     \/ cb.op = "audit_run" /\ i >= cb.stage
     \/ cb.op \in Transitions \cup Notes /\ cb.stage = 2 /\ i = Len(m.events)}

\* The events on m's timeline that a note of kind k has left, and their number.
PostedAt(m, k) == {i \in 1 .. Len(m.events) : m.events[i].type = NoteEvent[k]}
Posted(m, k)   == Cardinality(PostedAt(m, k))

\* The heartbeat whose event callback cb is going to push.
Open(cb) == IF cb = Stage("heartbeat", 1) THEN 1 ELSE 0

\* The status of m is the one its decision leads to.
Explained(m) == /\ m.status = "queued" => m.approval = "approve"
                /\ m.status = "failed" => m.approval = "reject"

Missing(m) == (1 .. Len(m.events)) \ m.audited

\* Comments and connector references have their events.
NotesKept(m) ==
  \A k \in {"comment", "connector"} : m.notes[k] = Posted(m, k)

\* What record m owes while cb is under way and n faults have happened.
Accounted(m, cb, n) ==
  /\ Cardinality(Missing(m)) <= n + 3
  /\ Cardinality(Missing(m) \ Due(m, cb)) <= Allowance(n)
  /\ NotesKept(m)
  /\ m.notes["heartbeat"] - Posted(m, "heartbeat") \in Open(cb) .. n + Open(cb)
  /\ n = 0 /\ m.outcome = "awaiting_approval" =>
       Explained(m) \/ (cb.op \in Decisions /\ cb.stage = 1)

\* The same of the snapshot, which a crash makes the record in memory.
StoredAccounted(m, cb, n) ==
  /\ Cardinality(Missing(m)) <= n + 3
  /\ NotesKept(m)
  /\ m.notes["heartbeat"] - Posted(m, "heartbeat") \in 0 .. n + Open(cb)

AccountInv == /\ Accounted(run, callback, faults)
              /\ StoredAccounted(stored, callback, faults)

-----------------------------------------------------------------------------
\* Both sets are finite, and a smaller set has no larger count.
LEMMA CountFacts ==
  ASSUME NEW m \in Run
  PROVE  /\ IsFiniteSet(Missing(m))
         /\ Cardinality(Missing(m)) \in Nat
         /\ \A k \in Notes : IsFiniteSet(PostedAt(m, k)) /\ Posted(m, k) \in Nat
         /\ \A S \in SUBSET Missing(m) :
              /\ Cardinality(S) \in Nat
              /\ Cardinality(S) <= Cardinality(Missing(m))
<1>1. Len(m.events) \in Nat
  BY LenProperties DEF Run
<1>2. IsFiniteSet(1 .. Len(m.events))
  BY <1>1, FS_Interval
<1>3. IsFiniteSet(Missing(m))
  BY <1>2, FS_Subset DEF Missing
<1>4. \A k \in Notes : IsFiniteSet(PostedAt(m, k))
  <2> TAKE k \in Notes
  <2>1. PostedAt(m, k) \in SUBSET (1 .. Len(m.events))
    BY DEF PostedAt
  <2> QED
    BY <1>2, <2>1, FS_Subset
<1>5. \A k \in Notes : Posted(m, k) \in Nat
  BY <1>4, FS_CardinalityType DEF Posted
<1>6. \A S \in SUBSET Missing(m) :
        /\ Cardinality(S) \in Nat
        /\ Cardinality(S) <= Cardinality(Missing(m))
  BY <1>3, FS_Subset, FS_CardinalityType
<1> QED
  BY <1>3, <1>4, <1>5, <1>6, FS_CardinalityType

\* One more event is at most one more that is not audited, and counts as the note
\* it is the event of.
LEMMA PushCounts ==
  ASSUME NEW m \in Run, NEW t \in EventTypes, NEW s \in Outcomes, NEW p,
         p = Push(m, t, s)
  PROVE  /\ p \in Run
         /\ Len(p.events) = Len(m.events) + 1
         /\ p = [m EXCEPT !.events = p.events]
         /\ p.status = m.status
         /\ p.outcome = m.outcome
         /\ p.approval = m.approval
         /\ p.notes = m.notes
         /\ Missing(p) \subseteq Missing(m) \cup {Len(p.events)}
         /\ Cardinality(Missing(p)) <= Cardinality(Missing(m)) + 1
         /\ \A k \in Notes :
              Posted(p, k) = Posted(m, k) + IF t = NoteEvent[k] THEN 1 ELSE 0
<1> DEFINE l == Len(m.events) + 1
<1>1. /\ p \in Run
      /\ p = [m EXCEPT !.events = p.events]
      /\ Len(p.events) = l
      /\ p.events[l] = [type |-> t, status |-> s]
      /\ \A i \in 1 .. Len(m.events) : p.events[i] = m.events[i]
  BY PushFacts
<1>2. Len(m.events) \in Nat
  BY LenProperties DEF Run
<1>3. /\ p.status = m.status
      /\ p.outcome = m.outcome
      /\ p.approval = m.approval
      /\ p.notes = m.notes
      /\ p.audited = m.audited
  BY <1>1 DEF Run
<1>4. Missing(p) \subseteq Missing(m) \cup {l}
  BY <1>1, <1>2, <1>3 DEF Missing
<1>5. Cardinality(Missing(p)) <= Cardinality(Missing(m)) + 1
  <2>1. /\ IsFiniteSet(Missing(m) \cup {l})
        /\ Cardinality(Missing(m) \cup {l}) =
             IF l \in Missing(m) THEN Cardinality(Missing(m)) ELSE Cardinality(Missing(m)) + 1
    BY CountFacts, FS_AddElement
  <2>2. Cardinality(Missing(p)) <= Cardinality(Missing(m) \cup {l})
    BY <1>4, <2>1, FS_Subset
  <2>3. Cardinality(Missing(m)) \in Nat /\ Cardinality(Missing(p)) \in Nat
    BY <1>1, CountFacts
  <2> QED
    BY <2>1, <2>2, <2>3
<1>6. \A k \in Notes : Posted(p, k) = Posted(m, k) + IF t = NoteEvent[k] THEN 1 ELSE 0
  <2> TAKE k \in Notes
  <2>0. IsFiniteSet(PostedAt(m, k)) /\ Posted(m, k) \in Nat
    BY CountFacts
  <2>1. l \notin PostedAt(m, k)
    BY <1>2 DEF PostedAt
  <2>2. CASE t = NoteEvent[k]
    <3>1. PostedAt(p, k) = PostedAt(m, k) \cup {l}
      BY <1>1, <1>2, <2>2 DEF PostedAt
    <3>2. Cardinality(PostedAt(m, k) \cup {l}) = Cardinality(PostedAt(m, k)) + 1
      BY <2>0, <2>1, FS_AddElement
    <3> QED
      BY <2>2, <3>1, <3>2 DEF Posted
  <2>3. CASE t # NoteEvent[k]
    <3>1. PostedAt(p, k) = PostedAt(m, k)
      BY <1>1, <1>2, <2>3 DEF PostedAt
    <3> QED
      BY <2>0, <2>3, <3>1 DEF Posted
  <2> QED
    BY <2>2, <2>3
<1> QED
  BY <1>1, <1>3, <1>4, <1>5, <1>6

\* An audit record takes one position from those that have none.
LEMMA AuditCounts ==
  ASSUME NEW m \in Run, NEW i \in Nat, NEW n, n = Audit(m, i)
  PROVE  /\ n \in Run
         /\ n.status = m.status
         /\ n.outcome = m.outcome
         /\ n.approval = m.approval
         /\ n.notes = m.notes
         /\ n.events = m.events
         /\ Missing(n) = Missing(m) \ {i}
         /\ Cardinality(Missing(n)) <= Cardinality(Missing(m))
         /\ \A k \in Notes : Posted(n, k) = Posted(m, k)
<1>1. /\ n \in Run
      /\ n.status = m.status
      /\ n.outcome = m.outcome
      /\ n.approval = m.approval
      /\ n.notes = m.notes
      /\ n.events = m.events
      /\ n.audited = m.audited \cup {i}
  BY DEF Audit, Run
<1>2. Missing(n) = Missing(m) \ {i}
  BY <1>1 DEF Missing
<1>3. Cardinality(Missing(n)) <= Cardinality(Missing(m))
  BY <1>2, CountFacts
<1>4. \A k \in Notes : Posted(n, k) = Posted(m, k)
  BY <1>1 DEF Posted, PostedAt
<1> QED
  BY <1>1, <1>2, <1>3, <1>4

\* One write of a callback.  If it fails, the fault is allowed for what m owes.
LEMMA AccountWrite ==
  ASSUME IInv, AccountInv, NEW op, NEW m \in Run, NEW next,
         Accounted(m, next, faults), SaveFor(op, m, next)
  PROVE  AccountInv'
<1> USE DEF Open
<1>1. faults \in Nat /\ Cardinality(Missing(m)) \in Nat
  BY CountFacts DEF IInv
<1>2. /\ Posted(m, "heartbeat") \in Nat
      /\ m.notes["heartbeat"] \in Nat
  BY CountFacts DEF Run, Notes
<1>3. /\ Posted(stored, "heartbeat") \in Nat
      /\ stored.notes["heartbeat"] \in Nat
      /\ Cardinality(Missing(stored)) \in Nat
  BY CountFacts DEF Run, Notes, IInv, RecordInv
<1>4. CASE Save(m, next)
  <2>1. /\ run' = m
        /\ stored' = m
        /\ callback' = next
        /\ faults' = faults
    BY <1>4 DEF Save
  <2>2. StoredAccounted(m, next, faults)
    BY <1>1, <1>2 DEF Accounted, StoredAccounted
  <2>3. AccountInv' = (Accounted(m, next, faults) /\ StoredAccounted(m, next, faults))
    BY <2>1 DEF AccountInv
  <2> QED
    BY <2>2, <2>3
<1>5. CASE SaveFails(m)
  <2>1. /\ run' = m
        /\ stored' = stored
        /\ callback' = Idle
        /\ faults' = faults + 1
    BY <1>5 DEF SaveFails
  <2>2. Idle # Stage("heartbeat", 1)
    BY DEF Idle, Stage
  <2>3. Missing(m) \ Due(m, Idle) \subseteq Missing(m)
    OBVIOUS
  <2>4. /\ Cardinality(Missing(m) \ Due(m, Idle)) \in Nat
        /\ Cardinality(Missing(m) \ Due(m, Idle)) <= Cardinality(Missing(m))
    BY <2>3, CountFacts
  <2>5. Accounted(m, Idle, faults + 1)
    BY <1>1, <1>2, <2>2, <2>4 DEF Accounted, Allowance
  <2>6. StoredAccounted(stored, Idle, faults + 1)
    BY <1>1, <1>3, <2>2 DEF AccountInv, StoredAccounted
  <2> QED
    BY <2>1, <2>5, <2>6 DEF AccountInv
<1> QED
  BY <1>4, <1>5 DEF SaveFor

\* The types the arithmetic of a step needs.
LEMMA AccountTypes ==
  ASSUME IInv
  PROVE  /\ run \in Run
         /\ stored \in Run
         /\ faults \in Nat
         /\ Len(run.events) \in Nat
         /\ Cardinality(Missing(run)) \in Nat
         /\ \A k \in Notes : run.notes[k] \in Nat /\ Posted(run, k) \in Nat
         /\ callback.stage \in Nat
<1>1. run \in Run /\ stored \in Run /\ faults \in Nat
  BY DEF IInv, RecordInv
<1>2. Len(run.events) \in Nat
  BY <1>1, LenProperties DEF Run
<1>3. \A k \in Notes : run.notes[k] \in Nat
  BY <1>1 DEF Run
<1>4. callback.stage \in Nat
  BY DEF IInv, Callback
<1> QED
  BY <1>1, <1>2, <1>3, <1>4, CountFacts

\* Where the callback owes no audit record, all that are missing are lost.
LEMMA NothingDue ==
  ASSUME IInv, AccountInv, Due(run, callback) = {}, callback # Stage("heartbeat", 1)
  PROVE  /\ Cardinality(Missing(run)) <= Allowance(faults)
         /\ Allowance(faults) \in Nat
         /\ Allowance(faults) + 1 <= faults + 3
         /\ NotesKept(run)
         /\ run.notes["heartbeat"] - Posted(run, "heartbeat") \in 0 .. faults
<1>1. Missing(run) \ Due(run, callback) = Missing(run)
  OBVIOUS
<1>2. faults \in Nat
  BY DEF IInv
<1> QED
  BY <1>1, <1>2 DEF AccountInv, Accounted, Allowance, Open

LEMMA IdleFacts ==
  ASSUME IInv, AccountInv, callback = Idle
  PROVE  /\ Due(run, callback) = {}
         /\ callback # Stage("heartbeat", 1)
         /\ faults = 0 /\ run.outcome = "awaiting_approval" => Explained(run)
<1>1. /\ callback.op = "idle"
      /\ callback.op \notin Decisions
      /\ callback # Stage("heartbeat", 1)
  BY DEF Idle, Stage, Decisions
<1>2. Due(run, callback) = {}
  BY <1>1 DEF Due, Transitions, Decisions, Notes
<1> QED
  BY <1>1, <1>2 DEF AccountInv, Accounted

\* Handlers that leave timeline, audit records and notes alone.
LEMMA PlainAccounts ==
  ASSUME IInv, AccountInv, callback = Idle, NEW m \in Run, NEW next,
         m.events = run.events, m.audited = run.audited, m.notes = run.notes,
         m.outcome = run.outcome, next # Stage("heartbeat", 1),
         \/ m.status = run.status /\ m.approval = run.approval
         \/ next.op \in Decisions /\ next.stage = 1
  PROVE  Accounted(m, next, faults)
<1>1. /\ Missing(m) = Missing(run)
      /\ \A k \in Notes : Posted(m, k) = Posted(run, k)
  BY DEF Missing, Posted, PostedAt
<1>2. /\ Cardinality(Missing(run)) <= Allowance(faults)
      /\ Allowance(faults) \in Nat
      /\ Allowance(faults) + 1 <= faults + 3
      /\ NotesKept(run)
      /\ run.notes["heartbeat"] - Posted(run, "heartbeat") \in 0 .. faults
  BY IdleFacts, NothingDue
<1>3. /\ Cardinality(Missing(m) \ Due(m, next)) \in Nat
      /\ Cardinality(Missing(m) \ Due(m, next)) <= Cardinality(Missing(m))
  BY CountFacts
<1>4. NotesKept(m)
  BY <1>1, <1>2 DEF NotesKept, Notes
<1>5. faults = 0 /\ m.outcome = "awaiting_approval" =>
        Explained(m) \/ (next.op \in Decisions /\ next.stage = 1)
  BY IdleFacts DEF Explained
<1>6. Open(next) = 0
  BY DEF Open
<1>7. m.notes["heartbeat"] - Posted(m, "heartbeat") \in 0 .. faults + 0
  BY <1>1, <1>2, AccountTypes DEF Notes
<1>8. /\ Cardinality(Missing(m)) <= faults + 3
      /\ Cardinality(Missing(m) \ Due(m, next)) <= Allowance(faults)
  BY <1>1, <1>2, <1>3, AccountTypes
<1> QED
  BY <1>4, <1>5, <1>6, <1>7, <1>8 DEF Accounted

\* The run a task starts with: three events to audit, no notes, preflight's status.
LEMMA CreatedAccounts ==
  ASSUME IInv, NEW s \in Outcomes
  PROVE  CreatedRun(s) \in Run /\ Accounted(CreatedRun(s), Stage("audit_run", 1), faults)
<1> DEFINE m == CreatedRun(s)
<1>1. /\ m.events = << [type |-> "task_created", status |-> "queued"],
                       [type |-> "preflight_completed", status |-> "queued"],
                       [type |-> "status_changed", status |-> s] >>
      /\ m.status = s
      /\ m.outcome = s
      /\ m.audited = {}
      /\ m.notes = [k \in Notes |-> 0]
  BY DEF CreatedRun
<1>2. Len(m.events) = 3
  BY <1>1
<1>3. m \in Run
  <2>1. m.events \in Seq(Event)
    BY <1>1 DEF Event, EventTypes, Outcomes
  <2> QED
    BY <2>1 DEF CreatedRun, Run, Statuses, Decisions, Notes
<1>4. Missing(m) = 1 .. 3
  BY <1>1, <1>2 DEF Missing
<1>5. Cardinality(Missing(m)) = 3
  <2>1. Cardinality(1 .. 3) = 3
    <3>1. Cardinality(1 .. 3) = IF 1 > 3 THEN 0 ELSE 3 - 1 + 1
      BY FS_Interval, 1 \in Int, 3 \in Int
    <3> QED
      BY <3>1
  <2> QED
    BY <1>4, <2>1
<1>6. Missing(m) \ Due(m, Stage("audit_run", 1)) = {}
  BY <1>2, <1>4 DEF Due, Stage
<1>7. Cardinality(Missing(m) \ Due(m, Stage("audit_run", 1))) = 0
  BY <1>6, FS_EmptySet
<1>8. \A k \in Notes : Posted(m, k) = 0
  <2> TAKE k \in Notes
  <2>1. NoteEvent[k] \notin {"task_created", "preflight_completed", "status_changed"}
    BY DEF NoteEvent, Notes
  <2>2. \A i \in 1 .. 3 : m.events[i].type # NoteEvent[k]
    BY <1>1, <2>1
  <2>3. PostedAt(m, k) = {}
    BY <1>2, <2>2 DEF PostedAt
  <2> QED
    BY <2>3, FS_EmptySet DEF Posted
<1>9. faults \in Nat
  BY DEF IInv
<1>10. NotesKept(m) /\ m.notes["heartbeat"] - Posted(m, "heartbeat") = 0
  BY <1>1, <1>8 DEF NotesKept, Notes
<1>11. Open(Stage("audit_run", 1)) = 0
  BY DEF Open, Stage
<1>12. m.outcome = "awaiting_approval" => Explained(m)
  BY <1>1 DEF Explained
<1> HIDE DEF m
<1> QED
  BY <1>3, <1>5, <1>7, <1>9, <1>10, <1>11, <1>12 DEF Accounted, Allowance, m

\* The loop of recordRunAudit pays what it owes, one position at a time.
LEMMA AuditRunAccounts ==
  ASSUME IInv, AccountInv, AuditRun
  PROVE  AccountInv'
<1> DEFINE m == Audit(run, callback.stage)
           next == IF callback.stage = Len(run.events) THEN Idle
                   ELSE Stage("audit_run", callback.stage + 1)
<1>1. /\ callback.op = "audit_run"
      /\ callback.stage <= Len(run.events)
      /\ Save(m, next)
  BY DEF AuditRun
<1>2. /\ m \in Run
      /\ m.status = run.status
      /\ m.outcome = run.outcome
      /\ m.approval = run.approval
      /\ m.notes = run.notes
      /\ m.events = run.events
      /\ Missing(m) = Missing(run) \ {callback.stage}
      /\ Cardinality(Missing(m)) <= Cardinality(Missing(run))
      /\ \A k \in Notes : Posted(m, k) = Posted(run, k)
  <2>1. run \in Run /\ callback.stage \in Nat /\ m = Audit(run, callback.stage)
    BY AccountTypes
  <2> HIDE DEF m
  <2> QED
    BY <2>1, AuditCounts
<1>3. next.op = "idle" \/ (next.op = "audit_run" /\ next.stage = callback.stage + 1)
  BY DEF Idle, Stage
<1>4. Missing(m) \ Due(m, next) = Missing(run) \ Due(run, callback)
  <2>1. Due(run, callback) = {i \in 1 .. Len(run.events) : i >= callback.stage}
    BY <1>1 DEF Due, Transitions, Decisions, Notes
  <2>2. CASE callback.stage = Len(run.events)
    <3>1. Due(m, next) = {}
      BY <2>2 DEF Due, Idle, Transitions, Decisions, Notes
    <3>2. Due(run, callback) = {callback.stage} \cap (1 .. Len(run.events))
      BY <2>1, <2>2, AccountTypes
    <3> QED
      BY <1>2, <3>1, <3>2 DEF Missing
  <2>3. CASE callback.stage # Len(run.events)
    <3>1. next.op = "audit_run" /\ next.stage = callback.stage + 1
      BY <2>3 DEF Stage
    <3> HIDE DEF next
    <3>2. Due(m, next) = {i \in 1 .. Len(run.events) : i >= callback.stage + 1}
      BY <1>2, <3>1 DEF Due, Transitions, Decisions, Notes
    <3> QED
      BY <1>2, <2>1, <3>2, AccountTypes DEF Missing
  <2> QED
    BY <2>2, <2>3
<1>5. /\ Open(callback) = 0
      /\ Open(next) = 0
      /\ callback.op \notin Decisions
  BY <1>1, <1>3 DEF Open, Stage, Decisions
<1> HIDE DEF m, next
<1>6. NotesKept(m)
  BY <1>2 DEF AccountInv, Accounted, NotesKept, Notes
<1>7. m.notes["heartbeat"] - Posted(m, "heartbeat") \in Open(next) .. faults + Open(next)
  BY <1>2, <1>5 DEF AccountInv, Accounted, Notes
<1>8. faults = 0 /\ m.outcome = "awaiting_approval" => Explained(m)
  BY <1>2, <1>5 DEF AccountInv, Accounted, Explained
<1>9. Cardinality(Missing(m)) <= faults + 3
  BY <1>2, AccountTypes, CountFacts DEF AccountInv, Accounted
<1>10. Accounted(m, next, faults)
  BY <1>4, <1>6, <1>7, <1>8, <1>9 DEF AccountInv, Accounted
<1>11. SaveFor("audit_run", m, next)
  BY <1>1 DEF SaveFor
<1> QED
  BY <1>2, <1>10, <1>11, AccountWrite

LEMMA CreateTaskAccounts ==
  ASSUME IInv, AccountInv, CreateTask
  PROVE  AccountInv'
<1>1. PICK s \in Outcomes : Save(CreatedRun(s), Stage("audit_run", 1))
  BY DEF CreateTask
<1>2. SaveFor("audit_run", CreatedRun(s), Stage("audit_run", 1))
  BY <1>1 DEF SaveFor
<1> QED
  BY <1>2, CreatedAccounts, AccountWrite

\* A transition is explained by the decision its first stage has recorded, and its
\* two events are one audited and one due.
LEMMA ChangeStatusAccounts ==
  ASSUME IInv, AccountInv, ChangeStatus
  PROVE  AccountInv'
<1> DEFINE op == callback.op
           s  == NewStatus(op)
           p  == Push(run, TransitionEvent[op], run.status)
           q  == [p EXCEPT !.status = s]
           n  == Push(q, "status_changed", s)
           m  == Audit(n, Len(n.events) - 1)
<1>1. /\ op \in Transitions
      /\ op \notin {"idle", "heartbeat", "audit_run"}
      /\ callback.stage = 1
      /\ UNCHANGED inflight
  BY DEF ChangeStatus, Transitions, Decisions
<1>2. SaveFor(op, m, Stage(op, 2))
  BY DEF ChangeStatus, Transitioned
<1>3. run \in Run /\ run.status \in Outcomes /\ Len(run.events) \in Nat
  <2>1. run.status # "absent"
    BY <1>1, RunningFacts
  <2> QED
    BY <2>1, AccountTypes DEF Run, Statuses
<1>4. /\ TransitionEvent[op] \in EventTypes
      /\ \A k \in Notes : TransitionEvent[op] # NoteEvent[k]
      /\ "status_changed" \in EventTypes
      /\ \A k \in Notes : "status_changed" # NoteEvent[k]
  BY <1>1 DEF TransitionEvent, EventTypes, NoteEvent, Transitions, Decisions, Notes
<1>5. s \in Outcomes
  BY <1>1 DEF NewStatus, Outcomes, Transitions, Decisions
<1>6. /\ p \in Run
      /\ Len(p.events) = Len(run.events) + 1
      /\ p.outcome = run.outcome
      /\ p.approval = run.approval
      /\ p.notes = run.notes
      /\ Missing(p) \subseteq Missing(run) \cup {Len(p.events)}
      /\ \A k \in Notes : Posted(p, k) = Posted(run, k)
  <2> DEFINE t == TransitionEvent[op]
  <2>1. /\ p = Push(run, t, run.status)
        /\ t \in EventTypes
        /\ \A k \in Notes : t # NoteEvent[k]
    BY <1>4
  <2> HIDE DEF p, t
  <2>2. /\ p \in Run
        /\ Len(p.events) = Len(run.events) + 1
        /\ p.outcome = run.outcome
        /\ p.approval = run.approval
        /\ p.notes = run.notes
        /\ Missing(p) \subseteq Missing(run) \cup {Len(p.events)}
        /\ \A k \in Notes : Posted(p, k) =
             Posted(run, k) + IF t = NoteEvent[k] THEN 1 ELSE 0
    BY <1>3, <2>1, PushCounts
  <2> QED
    BY <2>1, <2>2, AccountTypes
<1> HIDE DEF p
<1>7. /\ q \in Run
      /\ q.status = s
      /\ q.events = p.events
      /\ q.outcome = p.outcome
      /\ q.approval = p.approval
      /\ q.notes = p.notes
      /\ Missing(q) = Missing(p)
      /\ \A k \in Notes : Posted(q, k) = Posted(p, k)
  <2>1. /\ q \in Run
        /\ q.status = s
        /\ q.events = p.events
        /\ q.outcome = p.outcome
        /\ q.approval = p.approval
        /\ q.notes = p.notes
        /\ q.audited = p.audited
    BY <1>5, <1>6 DEF Run, Statuses
  <2> HIDE DEF q
  <2> QED
    BY <2>1 DEF Missing, Posted, PostedAt
<1> HIDE DEF q, s
<1>8. /\ n \in Run
      /\ Len(n.events) = Len(q.events) + 1
      /\ n.status = q.status
      /\ n.outcome = q.outcome
      /\ n.approval = q.approval
      /\ n.notes = q.notes
      /\ Missing(n) \subseteq Missing(q) \cup {Len(n.events)}
      /\ \A k \in Notes : Posted(n, k) = Posted(q, k)
  <2>1. n = Push(q, "status_changed", s)
    OBVIOUS
  <2> HIDE DEF n
  <2>2. /\ n \in Run
        /\ Len(n.events) = Len(q.events) + 1
        /\ n.status = q.status
        /\ n.outcome = q.outcome
        /\ n.approval = q.approval
        /\ n.notes = q.notes
        /\ Missing(n) \subseteq Missing(q) \cup {Len(n.events)}
        /\ \A k \in Notes : Posted(n, k) =
             Posted(q, k) + IF "status_changed" = NoteEvent[k] THEN 1 ELSE 0
    <3>1. q \in Run /\ "status_changed" \in EventTypes /\ s \in Outcomes
      BY <1>4, <1>5, <1>7
    <3> QED
      BY <2>1, <3>1, PushCounts
  <2>3. ASSUME NEW k \in Notes PROVE Posted(n, k) = Posted(q, k)
    <3>1. Posted(q, k) \in Nat
      BY <1>7, CountFacts
    <3>2. Posted(n, k) = Posted(q, k) + 0
      BY <1>4, <2>2
    <3> QED
      BY <3>1, <3>2
  <2> QED
    BY <2>2, <2>3
<1> HIDE DEF n
<1>9. /\ m \in Run
      /\ m.status = n.status
      /\ m.outcome = n.outcome
      /\ m.approval = n.approval
      /\ m.notes = n.notes
      /\ m.events = n.events
      /\ Missing(m) = Missing(n) \ {Len(n.events) - 1}
      /\ \A k \in Notes : Posted(m, k) = Posted(n, k)
  <2> DEFINE i == Len(n.events) - 1
  <2>1. n \in Run /\ i \in Nat /\ m = Audit(n, i)
    BY <1>3, <1>6, <1>7, <1>8
  <2> HIDE DEF m, i
  <2>2. /\ m \in Run
        /\ m.status = n.status
        /\ m.outcome = n.outcome
        /\ m.approval = n.approval
        /\ m.notes = n.notes
        /\ m.events = n.events
        /\ Missing(m) = Missing(n) \ {i}
        /\ \A k \in Notes : Posted(m, k) = Posted(n, k)
    BY <2>1, AuditCounts
  <2> QED
    BY <2>2 DEF i
<1> HIDE DEF m
<1> DEFINE l == Len(m.events)
<1>10. Len(p.events) = Len(n.events) - 1 /\ l = Len(n.events)
  BY <1>3, <1>6, <1>7, <1>8, <1>9
<1>11. Missing(m) \subseteq Missing(run) \cup {l}
  BY <1>6, <1>7, <1>8, <1>9, <1>10
<1>12. l \in Nat \ {0}
  BY <1>3, <1>6, <1>7, <1>8, <1>10
<1>13. Due(m, Stage(op, 2)) = {l}
  BY <1>1, <1>12 DEF Due, Stage
<1>14. /\ Cardinality(Missing(run)) <= Allowance(faults)
       /\ Allowance(faults) \in Nat
       /\ Allowance(faults) + 1 <= faults + 3
       /\ NotesKept(run)
       /\ run.notes["heartbeat"] - Posted(run, "heartbeat") \in 0 .. faults
  <2>1. Due(run, callback) = {}
    BY <1>1 DEF Due, Transitions, Decisions
  <2>2. callback # Stage("heartbeat", 1)
    BY <1>1 DEF Stage
  <2> QED
    BY <2>1, <2>2, NothingDue
<1>15. Cardinality(Missing(m)) <= faults + 3
  <2> HIDE DEF l
  <2>0. /\ IsFiniteSet(Missing(run) \cup {l})
        /\ Cardinality(Missing(run) \cup {l}) =
             IF l \in Missing(run) THEN Cardinality(Missing(run))
             ELSE Cardinality(Missing(run)) + 1
    BY <1>3, CountFacts, FS_AddElement
  <2>1. /\ IsFiniteSet(Missing(run) \cup {l})
        /\ Cardinality(Missing(run) \cup {l}) <= Cardinality(Missing(run)) + 1
    BY <2>0, AccountTypes
  <2>2. Cardinality(Missing(m)) <= Cardinality(Missing(run) \cup {l})
    BY <1>11, <2>1, FS_Subset
  <2>3. /\ Cardinality(Missing(m)) \in Nat
        /\ Cardinality(Missing(run) \cup {l}) \in Nat
    BY <1>9, <2>1, CountFacts, FS_CardinalityType
  <2> QED
    BY <1>14, <2>1, <2>2, <2>3, AccountTypes
<1>16. Cardinality(Missing(m) \ Due(m, Stage(op, 2))) <= Allowance(faults)
  <2>1. Missing(m) \ Due(m, Stage(op, 2)) \subseteq Missing(run)
    BY <1>11, <1>13
  <2>2. /\ Cardinality(Missing(m) \ Due(m, Stage(op, 2))) \in Nat
        /\ Cardinality(Missing(m) \ Due(m, Stage(op, 2))) <= Cardinality(Missing(run))
    BY <1>3, <2>1, CountFacts
  <2> QED
    BY <1>14, <2>2, AccountTypes
<1>17. /\ m.notes = run.notes
       /\ \A k \in Notes : Posted(m, k) = Posted(run, k)
  BY <1>6, <1>7, <1>8, <1>9
<1>18. NotesKept(m)
  BY <1>14, <1>17 DEF NotesKept, Notes
<1>19. Open(Stage(op, 2)) = 0
  BY DEF Open, Stage
<1>20. m.notes["heartbeat"] - Posted(m, "heartbeat") \in 0 .. faults + 0
  BY <1>14, <1>17, AccountTypes DEF Notes
<1>21. Explained(m)
  <2>1. m.status = NewStatus(op) /\ m.approval = run.approval
    BY <1>6, <1>7, <1>8, <1>9 DEF s
  <2>2. op \in Decisions => run.approval = op
    BY DEF IInv, CallbackInv
  <2> QED
    BY <1>1, <2>1, <2>2 DEF Explained, NewStatus, Transitions, Decisions
<1>22. Accounted(m, Stage(op, 2), faults)
  BY <1>15, <1>16, <1>18, <1>19, <1>20, <1>21 DEF Accounted
<1> QED
  BY <1>2, <1>9, <1>22, AccountWrite

\* The last stage pays for the one event that is due.
LEMMA AuditLastAccounts ==
  ASSUME IInv, AccountInv, AuditLast
  PROVE  AccountInv'
<1> DEFINE l == Len(run.events)
           m == Audit(run, l)
<1>1. /\ callback.op \in Transitions \cup Notes
      /\ callback.op \notin {"idle", "audit_run"}
      /\ callback.stage = 2
      /\ SaveFor(callback.op, m, Idle)
  BY DEF AuditLast, Transitions, Decisions, Notes
<1>2. /\ m \in Run
      /\ m.status = run.status
      /\ m.outcome = run.outcome
      /\ m.approval = run.approval
      /\ m.notes = run.notes
      /\ m.events = run.events
      /\ Missing(m) = Missing(run) \ {l}
      /\ Cardinality(Missing(m)) <= Cardinality(Missing(run))
      /\ \A k \in Notes : Posted(m, k) = Posted(run, k)
  <2>1. run \in Run /\ l \in Nat /\ m = Audit(run, l)
    BY AccountTypes
  <2> HIDE DEF m, l
  <2> QED
    BY <2>1, AuditCounts
<1>3. Missing(m) \ Due(m, Idle) = Missing(run) \ Due(run, callback)
  <2>1. Due(m, Idle) = {}
    BY DEF Due, Idle, Transitions, Decisions, Notes
  <2>2. Due(run, callback) = {l} \cap (1 .. l)
    BY <1>1, AccountTypes DEF Due
  <2> HIDE DEF m
  <2> QED
    BY <1>2, <2>1, <2>2 DEF Missing
<1>4. /\ Open(callback) = 0
      /\ Open(Idle) = 0
      /\ ~(callback.op \in Decisions /\ callback.stage = 1)
  BY <1>1 DEF Open, Stage, Idle
<1> HIDE DEF m
<1>5. NotesKept(m)
  BY <1>2 DEF AccountInv, Accounted, NotesKept, Notes
<1>6. m.notes["heartbeat"] - Posted(m, "heartbeat") \in Open(Idle) .. faults + Open(Idle)
  BY <1>2, <1>4 DEF AccountInv, Accounted, Notes
<1>7. faults = 0 /\ m.outcome = "awaiting_approval" => Explained(m)
  BY <1>2, <1>4 DEF AccountInv, Accounted, Explained
<1>8. Cardinality(Missing(m)) <= faults + 3
  BY <1>2, AccountTypes, CountFacts DEF AccountInv, Accounted
<1>9. Accounted(m, Idle, faults)
  BY <1>3, <1>5, <1>6, <1>7, <1>8 DEF AccountInv, Accounted
<1> QED
  BY <1>1, <1>2, <1>9, AccountWrite

\* A note more changes no event and no audit record.
LEMMA NotedFacts ==
  ASSUME NEW m \in Run, NEW k \in Notes
  PROVE  LET n == [m EXCEPT !.notes[k] = @ + 1]
         IN  /\ n \in Run
             /\ n.status = m.status
             /\ n.outcome = m.outcome
             /\ n.approval = m.approval
             /\ n.notes = [m.notes EXCEPT ![k] = @ + 1]
             /\ n.events = m.events
             /\ Missing(n) = Missing(m)
             /\ \A j \in Notes : Posted(n, j) = Posted(m, j)
<1> DEFINE n == [m EXCEPT !.notes[k] = @ + 1]
<1>1. m.notes \in [Notes -> Nat]
  BY DEF Run
<1>2. [m.notes EXCEPT ![k] = @ + 1] \in [Notes -> Nat]
  BY <1>1
<1>3. n = [m EXCEPT !.notes = [m.notes EXCEPT ![k] = @ + 1]]
  BY DEF Run
<1>4. /\ n \in Run
      /\ n.status = m.status
      /\ n.outcome = m.outcome
      /\ n.approval = m.approval
      /\ n.notes = [m.notes EXCEPT ![k] = @ + 1]
      /\ n.events = m.events
      /\ n.audited = m.audited
  BY <1>2, <1>3 DEF Run
<1> HIDE DEF n
<1>5. /\ Missing(n) = Missing(m)
      /\ \A j \in Notes : Posted(n, j) = Posted(m, j)
  BY <1>4 DEF Missing, Posted, PostedAt
<1> QED
  BY <1>4, <1>5 DEF n

\* A comment or connector reference and its event are one write, audited by the next.
LEMMA AnnotateAccounts ==
  ASSUME IInv, AccountInv, NEW r \in Requests, Annotate(r)
  PROVE  AccountInv'
<1>1. PICK k \in {"comment", "connector"} :
        /\ Begin(r, k)
        /\ SaveFor(k, Push([run EXCEPT !.notes[k] = @ + 1], NoteEvent[k], run.status),
                   Stage(k, 2))
  BY DEF Annotate
<1> DEFINE n == [run EXCEPT !.notes[k] = @ + 1]
           m == Push(n, NoteEvent[k], run.status)
           l == Len(m.events)
<1>2. /\ callback = Idle
      /\ run.status # "absent"
      /\ SaveFor(k, m, Stage(k, 2))
      /\ k \in Notes
  <2>1. k \in AllOps /\ k \in Notes
    BY DEF AllOps, Notes
  <2> QED
    BY <1>1, <2>1, BeginFacts DEF Begin
<1>3. run \in Run /\ run.status \in Outcomes
  BY <1>2, AccountTypes DEF Run, Statuses
<1>4. /\ n \in Run
      /\ n.status = run.status
      /\ n.outcome = run.outcome
      /\ n.approval = run.approval
      /\ n.notes = [run.notes EXCEPT ![k] = @ + 1]
      /\ Missing(n) = Missing(run)
      /\ \A j \in Notes : Posted(n, j) = Posted(run, j)
  BY <1>2, <1>3, NotedFacts
<1>5. /\ NoteEvent[k] \in EventTypes
      /\ \A j \in Notes : NoteEvent[j] = NoteEvent[k] => j = k
  BY DEF NoteEvent, EventTypes, Notes
<1> HIDE DEF n
<1>6. /\ m \in Run
      /\ m.status = n.status
      /\ m.outcome = n.outcome
      /\ m.approval = n.approval
      /\ m.notes = n.notes
      /\ Len(m.events) = Len(n.events) + 1
      /\ Missing(m) \subseteq Missing(n) \cup {l}
      /\ Cardinality(Missing(m)) <= Cardinality(Missing(n)) + 1
      /\ \A j \in Notes :
           Posted(m, j) = Posted(n, j) + IF NoteEvent[k] = NoteEvent[j] THEN 1 ELSE 0
  <2>1. m = Push(n, NoteEvent[k], run.status)
    OBVIOUS
  <2> HIDE DEF m
  <2> QED
    BY <1>3, <1>4, <1>5, <2>1, PushCounts
<1> HIDE DEF m
<1>7. /\ Cardinality(Missing(run)) <= Allowance(faults)
      /\ Allowance(faults) \in Nat
      /\ Allowance(faults) + 1 <= faults + 3
      /\ NotesKept(run)
      /\ run.notes["heartbeat"] - Posted(run, "heartbeat") \in 0 .. faults
  BY <1>2, IdleFacts, NothingDue
<1>8. Cardinality(Missing(m)) <= faults + 3
  BY <1>4, <1>6, <1>7, AccountTypes, CountFacts
<1>9. Cardinality(Missing(m) \ Due(m, Stage(k, 2))) <= Allowance(faults)
  <2>1. Len(n.events) \in Nat
    BY <1>4, LenProperties DEF Run
  <2>2. l \in Due(m, Stage(k, 2))
    BY <1>2, <1>6, <2>1 DEF Due, Stage
  <2>3. Missing(m) \ Due(m, Stage(k, 2)) \subseteq Missing(run)
    BY <1>4, <1>6, <2>2
  <2>4. /\ Cardinality(Missing(m) \ Due(m, Stage(k, 2))) \in Nat
        /\ Cardinality(Missing(m) \ Due(m, Stage(k, 2))) <= Cardinality(Missing(run))
    BY <1>3, <2>3, CountFacts
  <2> QED
    BY <1>7, <2>4, AccountTypes
<1>10. \A j \in Notes : Posted(m, j) = Posted(run, j) + IF j = k THEN 1 ELSE 0
  BY <1>4, <1>5, <1>6
<1>11. \A j \in Notes : m.notes[j] = run.notes[j] + IF j = k THEN 1 ELSE 0
  <2>1. run.notes \in [Notes -> Nat]
    BY <1>3 DEF Run
  <2> QED
    BY <1>2, <1>4, <1>6, <2>1
<1>12. NotesKept(m)
  BY <1>7, <1>10, <1>11, AccountTypes DEF NotesKept, Notes
<1>13. m.notes["heartbeat"] - Posted(m, "heartbeat") \in 0 .. faults + 0
  <2>1. /\ m.notes["heartbeat"] = run.notes["heartbeat"]
        /\ Posted(m, "heartbeat") = Posted(run, "heartbeat")
    BY <1>10, <1>11, AccountTypes DEF Notes
  <2> QED
    BY <1>7, <2>1, AccountTypes
<1>14. Open(Stage(k, 2)) = 0
  BY DEF Open, Stage
<1>15. faults = 0 /\ m.outcome = "awaiting_approval" => Explained(m)
  BY <1>2, <1>4, <1>6, IdleFacts DEF Explained
<1>16. Accounted(m, Stage(k, 2), faults)
  BY <1>8, <1>9, <1>12, <1>13, <1>14, <1>15 DEF Accounted
<1> QED
  BY <1>2, <1>6, <1>16, AccountWrite

\* The first write of a heartbeat leaves its event open; the second pushes it.
LEMMA HeartbeatAccounts ==
  ASSUME IInv, AccountInv, NEW r \in Requests, Heartbeat(r)
  PROVE  AccountInv'
<1> DEFINE m    == [run EXCEPT !.notes["heartbeat"] = @ + 1]
           next == Stage("heartbeat", 1)
<1>1. /\ callback = Idle
      /\ SaveFor("heartbeat", m, next)
  BY DEF Heartbeat, Begin
<1>2. run \in Run /\ "heartbeat" \in Notes
  BY AccountTypes DEF Notes
<1>3. /\ m \in Run
      /\ m.status = run.status
      /\ m.outcome = run.outcome
      /\ m.approval = run.approval
      /\ m.notes = [run.notes EXCEPT !["heartbeat"] = @ + 1]
      /\ Missing(m) = Missing(run)
      /\ \A j \in Notes : Posted(m, j) = Posted(run, j)
  BY <1>2, NotedFacts
<1> HIDE DEF m
<1>4. /\ Cardinality(Missing(run)) <= Allowance(faults)
      /\ Allowance(faults) \in Nat
      /\ Allowance(faults) + 1 <= faults + 3
      /\ NotesKept(run)
      /\ run.notes["heartbeat"] - Posted(run, "heartbeat") \in 0 .. faults
  BY <1>1, IdleFacts, NothingDue
<1>5. /\ Cardinality(Missing(m) \ Due(m, next)) \in Nat
      /\ Cardinality(Missing(m) \ Due(m, next)) <= Cardinality(Missing(m))
  BY <1>3, CountFacts
<1>6. /\ Cardinality(Missing(m)) <= faults + 3
      /\ Cardinality(Missing(m) \ Due(m, next)) <= Allowance(faults)
  BY <1>3, <1>4, <1>5, AccountTypes
<1>7. run.notes \in [Notes -> Nat]
  BY <1>2 DEF Run
<1>8. NotesKept(m)
  BY <1>3, <1>4, <1>7 DEF NotesKept, Notes
<1>9. m.notes["heartbeat"] - Posted(m, "heartbeat") \in 1 .. faults + 1
  <2>1. m.notes["heartbeat"] = run.notes["heartbeat"] + 1
    BY <1>2, <1>3, <1>7
  <2>2. Posted(m, "heartbeat") = Posted(run, "heartbeat")
    BY <1>2, <1>3
  <2>3. /\ run.notes["heartbeat"] \in Nat
        /\ Posted(run, "heartbeat") \in Nat
        /\ faults \in Nat
    BY <1>2, AccountTypes
  <2> QED
    BY <1>4, <2>1, <2>2, <2>3
<1>10. Open(next) = 1
  BY DEF Open
<1>11. faults = 0 /\ m.outcome = "awaiting_approval" => Explained(m)
  BY <1>1, <1>3, IdleFacts DEF Explained
<1>12. Accounted(m, next, faults)
  BY <1>6, <1>8, <1>9, <1>10, <1>11 DEF Accounted
<1> QED
  BY <1>1, <1>3, <1>12, AccountWrite

LEMMA HeartbeatEventAccounts ==
  ASSUME IInv, AccountInv, HeartbeatEvent
  PROVE  AccountInv'
<1> DEFINE n == Push(run, NoteEvent["heartbeat"], run.status)
           l == Len(n.events)
           m == Audit(n, l)
<1>1. /\ callback = Stage("heartbeat", 1)
      /\ callback.op = "heartbeat"
      /\ callback.stage = 1
      /\ SaveFor("heartbeat", m, Idle)
      /\ UNCHANGED inflight
  BY DEF HeartbeatEvent, Stage
<1>2. run \in Run /\ run.status \in Outcomes
  <2>1. run.status # "absent"
    BY <1>1, RunningFacts
  <2> QED
    BY <2>1, AccountTypes DEF Run, Statuses
<1>3. /\ NoteEvent["heartbeat"] \in EventTypes
      /\ \A j \in Notes : NoteEvent["heartbeat"] = NoteEvent[j] => j = "heartbeat"
      /\ "heartbeat" \in Notes
  BY DEF NoteEvent, EventTypes, Notes
<1>4. /\ n \in Run
      /\ n.status = run.status
      /\ n.outcome = run.outcome
      /\ n.approval = run.approval
      /\ n.notes = run.notes
      /\ Len(n.events) = Len(run.events) + 1
      /\ Missing(n) \subseteq Missing(run) \cup {Len(n.events)}
      /\ \A j \in Notes : Posted(n, j) =
           Posted(run, j) + IF NoteEvent["heartbeat"] = NoteEvent[j] THEN 1 ELSE 0
  <2>1. n = Push(run, NoteEvent["heartbeat"], run.status)
    OBVIOUS
  <2> HIDE DEF n
  <2> QED
    BY <1>2, <1>3, <2>1, PushCounts
<1>5. /\ m \in Run
      /\ m.status = n.status
      /\ m.outcome = n.outcome
      /\ m.approval = n.approval
      /\ m.notes = n.notes
      /\ Missing(m) = Missing(n) \ {l}
      /\ \A j \in Notes : Posted(m, j) = Posted(n, j)
  <2>1. n \in Run /\ l \in Nat /\ m = Audit(n, l)
    BY <1>4, AccountTypes
  <2> HIDE DEF m, n, l
  <2> QED
    BY <2>1, AuditCounts
<1> HIDE DEF n, m
<1>6. Missing(m) \subseteq Missing(run)
  BY <1>4, <1>5
<1>7. /\ Missing(run) \ Due(run, callback) = Missing(run)
      /\ Open(callback) = 1
      /\ callback.op \notin Decisions
  BY <1>1 DEF Due, Open, Decisions
<1>8. /\ Cardinality(Missing(m)) \in Nat
      /\ Cardinality(Missing(m)) <= Cardinality(Missing(run))
      /\ Cardinality(Missing(m) \ Due(m, Idle)) \in Nat
      /\ Cardinality(Missing(m) \ Due(m, Idle)) <= Cardinality(Missing(m))
  BY <1>2, <1>5, <1>6, CountFacts
<1>9. /\ Cardinality(Missing(run)) <= faults + 3
      /\ Cardinality(Missing(run)) <= Allowance(faults)
      /\ NotesKept(run)
      /\ run.notes["heartbeat"] - Posted(run, "heartbeat") \in 1 .. faults + 1
      /\ faults = 0 /\ run.outcome = "awaiting_approval" => Explained(run)
  BY <1>7 DEF AccountInv, Accounted
<1>10. /\ Cardinality(Missing(m)) <= faults + 3
       /\ Cardinality(Missing(m) \ Due(m, Idle)) <= Allowance(faults)
  BY <1>8, <1>9, AccountTypes DEF Allowance
<1>11. NotesKept(m)
  <2>1. \A j \in {"comment", "connector"} : Posted(n, j) = Posted(run, j)
    BY <1>3, <1>4, AccountTypes DEF Notes
  <2> QED
    BY <1>4, <1>5, <1>9, <2>1 DEF NotesKept, Notes
<1>12. m.notes["heartbeat"] - Posted(m, "heartbeat") \in 0 .. faults + 0
  <2>1. /\ m.notes["heartbeat"] = run.notes["heartbeat"]
        /\ Posted(m, "heartbeat") = Posted(run, "heartbeat") + 1
    BY <1>3, <1>4, <1>5
  <2>2. /\ run.notes["heartbeat"] \in Nat
        /\ Posted(run, "heartbeat") \in Nat
        /\ faults \in Nat
    BY <1>3, AccountTypes
  <2> QED
    BY <1>9, <2>1, <2>2
<1>13. Open(Idle) = 0
  BY DEF Open, Idle, Stage
<1>14. faults = 0 /\ m.outcome = "awaiting_approval" => Explained(m)
  BY <1>4, <1>5, <1>9 DEF Explained
<1>15. Accounted(m, Idle, faults)
  BY <1>10, <1>11, <1>12, <1>13, <1>14 DEF Accounted
<1> QED
  BY <1>1, <1>5, <1>15, AccountWrite

\* A step of a run over the hard cap: one more event, and all are audited again.
LEMMA StepPausesRunAccounts ==
  ASSUME IInv, AccountInv, NEW r \in Requests, StepPausesRun(r)
  PROVE  AccountInv'
<1> DEFINE q    == [run EXCEPT !.status = "paused"]
           m    == Push(q, "status_changed", "paused")
           next == Stage("audit_run", 1)
<1>1. /\ callback = Idle
      /\ SaveFor("gate", m, next)
  BY DEF StepPausesRun, Begin, SaveFor
<1>2. run \in Run
  BY AccountTypes
<1>3. /\ q \in Run
      /\ q.status = "paused"
      /\ q.outcome = run.outcome
      /\ q.notes = run.notes
      /\ Missing(q) = Missing(run)
      /\ \A k \in Notes : Posted(q, k) = Posted(run, k)
  <2>1. /\ q \in Run
        /\ q.status = "paused"
        /\ q.events = run.events
        /\ q.outcome = run.outcome
        /\ q.notes = run.notes
        /\ q.audited = run.audited
    BY <1>2 DEF Run, Statuses, Outcomes
  <2> HIDE DEF q
  <2> QED
    BY <2>1 DEF Missing, Posted, PostedAt
<1> HIDE DEF q
<1>4. /\ "status_changed" \in EventTypes
      /\ "paused" \in Outcomes
      /\ \A k \in Notes : "status_changed" # NoteEvent[k]
  BY DEF EventTypes, Outcomes, NoteEvent, Notes
<1>5. /\ m \in Run
      /\ m.status = q.status
      /\ m.outcome = q.outcome
      /\ m.notes = q.notes
      /\ Cardinality(Missing(m)) <= Cardinality(Missing(q)) + 1
      /\ \A k \in Notes :
           Posted(m, k) = Posted(q, k) + IF "status_changed" = NoteEvent[k] THEN 1 ELSE 0
  <2>1. m = Push(q, "status_changed", "paused")
    OBVIOUS
  <2> HIDE DEF m
  <2> QED
    BY <1>3, <1>4, <2>1, PushCounts
<1> HIDE DEF m
<1>6. /\ Cardinality(Missing(run)) <= Allowance(faults)
      /\ Allowance(faults) \in Nat
      /\ Allowance(faults) + 1 <= faults + 3
      /\ NotesKept(run)
      /\ run.notes["heartbeat"] - Posted(run, "heartbeat") \in 0 .. faults
  BY <1>1, IdleFacts, NothingDue
<1>7. Cardinality(Missing(m)) <= faults + 3
  BY <1>3, <1>5, <1>6, AccountTypes, CountFacts
<1>8. Cardinality(Missing(m) \ Due(m, next)) <= Allowance(faults)
  <2>1. Missing(m) \ Due(m, next) = {}
    BY <1>5, LenProperties DEF Missing, Due, Stage, Run
  <2>2. Cardinality(Missing(m) \ Due(m, next)) = 0
    BY <2>1, FS_EmptySet
  <2> QED
    BY <1>6, <2>2
<1>9. \A k \in Notes : Posted(m, k) = Posted(run, k)
  BY <1>3, <1>4, <1>5, AccountTypes
<1>10. NotesKept(m)
  BY <1>3, <1>5, <1>6, <1>9 DEF NotesKept, Notes
<1>11. m.notes["heartbeat"] - Posted(m, "heartbeat") \in 0 .. faults + 0
  <2>1. Posted(m, "heartbeat") = Posted(run, "heartbeat")
    BY <1>9 DEF Notes
  <2>2. m.notes = run.notes
    BY <1>3, <1>5
  <2>3. faults + 0 = faults
    BY AccountTypes
  <2> QED
    BY <1>6, <2>1, <2>2, <2>3
<1>12. Open(next) = 0
  BY DEF Open, Stage
<1>13. Explained(m)
  BY <1>3, <1>5 DEF Explained
<1>14. Accounted(m, next, faults)
  BY <1>7, <1>8, <1>10, <1>11, <1>12, <1>13 DEF Accounted
<1> QED
  BY <1>1, <1>5, <1>14, AccountWrite

LEMMA DecideAccounts ==
  ASSUME IInv, AccountInv, NEW r \in Requests, Decide(r)
  PROVE  AccountInv'
<1>1. PICK d \in Decisions : Save([run EXCEPT !.approval = d], Stage(d, 1))
  BY DEF Decide
<1> DEFINE m == [run EXCEPT !.approval = d]
<1>2. callback = Idle /\ run \in Run
  BY AccountTypes DEF Decide, Begin
<1>3. /\ m \in Run
      /\ m.events = run.events
      /\ m.audited = run.audited
      /\ m.notes = run.notes
      /\ m.outcome = run.outcome
  BY <1>2 DEF Run
<1>4. SaveFor("decide", m, Stage(d, 1))
  BY <1>1 DEF SaveFor
<1>5. /\ Stage(d, 1) # Stage("heartbeat", 1)
      /\ Stage(d, 1).op \in Decisions
      /\ Stage(d, 1).stage = 1
  BY DEF Stage, Decisions
<1> HIDE DEF m
<1>6. Accounted(m, Stage(d, 1), faults)
  BY <1>2, <1>3, <1>5, PlainAccounts
<1> QED
  BY <1>3, <1>4, <1>6, AccountWrite

LEMMA RevisionAccounts ==
  ASSUME IInv, AccountInv, NEW r \in Requests, NEW op \in {"revise", "resubmit"},
         NEW v \in {"requested", "resubmitted"},
         Begin(r, op), SaveFor(op, [run EXCEPT !.revision = v], Stage(op, 1))
  PROVE  AccountInv'
<1> DEFINE m == [run EXCEPT !.revision = v]
<1>1. callback = Idle /\ run \in Run
  BY AccountTypes DEF Begin
<1>2. /\ m \in Run
      /\ m.status = run.status
      /\ m.approval = run.approval
      /\ m.events = run.events
      /\ m.audited = run.audited
      /\ m.notes = run.notes
      /\ m.outcome = run.outcome
  BY <1>1 DEF Run
<1>3. Stage(op, 1) # Stage("heartbeat", 1)
  BY DEF Stage
<1>4. SaveFor(op, m, Stage(op, 1))
  OBVIOUS
<1> HIDE DEF m
<1>5. Accounted(m, Stage(op, 1), faults)
  BY <1>1, <1>2, <1>3, PlainAccounts
<1> QED
  BY <1>2, <1>4, <1>5, AccountWrite

LEMMA StepRecordedAccounts ==
  ASSUME IInv, AccountInv, NEW r \in Requests, StepRecorded(r)
  PROVE  AccountInv'
<1>1. callback = Idle /\ run \in Run /\ SaveFor("gate", run, Idle)
  BY AccountTypes DEF StepRecorded, Begin, SaveFor
<1>2. Accounted(run, Idle, faults)
  BY <1>1 DEF AccountInv
<1> QED
  BY <1>1, <1>2, AccountWrite

\* A crash makes the snapshot the record in memory; what it owed is a fault's worth.
LEMMA CrashAccounts ==
  ASSUME IInv, AccountInv, Crash
  PROVE  AccountInv'
<1> USE DEF Open
<1>1. /\ run' = stored
      /\ stored' = stored
      /\ callback' = Idle
      /\ faults' = faults + 1
  BY DEF Crash
<1>2. /\ stored \in Run
      /\ faults \in Nat
  BY AccountTypes
<1>3. /\ Posted(stored, "heartbeat") \in Nat
      /\ stored.notes["heartbeat"] \in Nat
      /\ Cardinality(Missing(stored)) \in Nat
      /\ Cardinality(Missing(stored) \ Due(stored, Idle)) \in Nat
      /\ Cardinality(Missing(stored) \ Due(stored, Idle)) <= Cardinality(Missing(stored))
  BY <1>2, CountFacts DEF Run, Notes
<1>4. Idle # Stage("heartbeat", 1)
  BY DEF Idle, Stage
<1>5. /\ Cardinality(Missing(stored)) <= faults + 3
      /\ NotesKept(stored)
      /\ stored.notes["heartbeat"] - Posted(stored, "heartbeat") \in 0 .. faults + 1
  BY <1>2, <1>3 DEF AccountInv, StoredAccounted
<1>6. Accounted(stored, Idle, faults + 1)
  BY <1>2, <1>3, <1>4, <1>5 DEF Accounted, Allowance
<1>7. StoredAccounted(stored, Idle, faults + 1)
  BY <1>2, <1>3, <1>4, <1>5 DEF StoredAccounted
<1> QED
  BY <1>1, <1>6, <1>7 DEF AccountInv

LEMMA InitAccounts == Init => AccountInv
<1> SUFFICES ASSUME Init PROVE AccountInv
  OBVIOUS
<1>1. run = NoRun /\ stored = NoRun /\ callback = Idle /\ faults = 0
  BY DEF Init
<1>2. Missing(NoRun) = {} /\ \A k \in Notes : PostedAt(NoRun, k) = {}
  BY DEF Missing, PostedAt, NoRun
<1>3. /\ Cardinality(Missing(NoRun)) = 0
      /\ Cardinality(Missing(NoRun) \ Due(NoRun, Idle)) = 0
      /\ \A k \in Notes : Posted(NoRun, k) = 0 /\ NoRun.notes[k] = 0
  BY <1>2, FS_EmptySet DEF Posted, NoRun
<1>4. NotesKept(NoRun)
  BY <1>3 DEF NotesKept, Notes
<1>5. NoRun.notes["heartbeat"] - Posted(NoRun, "heartbeat") = 0
  BY <1>3 DEF Notes
<1>6. Open(Idle) = 0
  BY DEF Open, Idle, Stage
<1>7. Explained(NoRun)
  BY DEF Explained, NoRun
<1> QED
  BY <1>1, <1>3, <1>4, <1>5, <1>6, <1>7
  DEF AccountInv, Accounted, StoredAccounted, Allowance

LEMMA NextAccounts == IInv /\ AccountInv /\ [Next]_vars => AccountInv'
<1> SUFFICES ASSUME IInv, AccountInv, [Next]_vars PROVE AccountInv'
  OBVIOUS
<1>1. CASE CreateTask
  BY <1>1, CreateTaskAccounts
<1>2. CASE AuditRun
  BY <1>2, AuditRunAccounts
<1>3. CASE ChangeStatus
  BY <1>3, ChangeStatusAccounts
<1>4. CASE AuditLast
  BY <1>4, AuditLastAccounts
<1>5. CASE HeartbeatEvent
  BY <1>5, HeartbeatEventAccounts
<1>6. CASE Crash
  BY <1>6, CrashAccounts
<1>7. CASE UNCHANGED <<run, stored, callback, faults>>
  BY <1>7 DEF AccountInv
<1>8. ASSUME NEW r \in Requests, Accept(r) \/ Drop(r) PROVE AccountInv'
  BY <1>7, <1>8 DEF Accept, Drop
<1>9. ASSUME NEW r \in Requests, Decide(r) PROVE AccountInv'
  BY <1>9, DecideAccounts
<1>10. ASSUME NEW r \in Requests, Revise(r) PROVE AccountInv'
  BY <1>10, RevisionAccounts DEF Revise
<1>11. ASSUME NEW r \in Requests, Resubmit(r) PROVE AccountInv'
  BY <1>11, RevisionAccounts DEF Resubmit
<1>12. ASSUME NEW r \in Requests, Annotate(r) PROVE AccountInv'
  BY <1>12, AnnotateAccounts
<1>13. ASSUME NEW r \in Requests, Heartbeat(r) PROVE AccountInv'
  BY <1>13, HeartbeatAccounts
<1>14. ASSUME NEW r \in Requests, StepRecorded(r) PROVE AccountInv'
  BY <1>14, StepRecordedAccounts
<1>15. ASSUME NEW r \in Requests, StepPausesRun(r) PROVE AccountInv'
  BY <1>15, StepPausesRunAccounts
<1>16. CASE UNCHANGED vars
  BY <1>7, <1>16 DEF vars
<1> QED
  BY <1>1, <1>2, <1>3, <1>4, <1>5, <1>6, <1>8, <1>9, <1>10, <1>11, <1>12,
     <1>13, <1>14, <1>15, <1>16 DEF Next

\* What a run owes after any number of faults, in every reachable state.
THEOREM AccountInvariant == Spec => []AccountInv
<1>1. IInv /\ AccountInv /\ [Next]_vars => AccountInv'
  BY NextAccounts
<1> QED
  BY InitAccounts, Inductive, <1>1, PTL DEF Spec

-----------------------------------------------------------------------------
\* Of two decisions accepted before either was applied, the one on record is the
\* one the status follows from, as long as no callback is cut short.
THEOREM StatusIsExplained == Spec => []DecisionExplainsStatus
<1>1. IInv /\ AccountInv => DecisionExplainsStatus
  BY IdleFacts DEF DecisionExplainsStatus, Explained
<1> QED
  BY <1>1, Inductive, AccountInvariant, PTL

\* A fault costs at most one audit record more than the three of a new run, and
\* without faults none is missing between requests.
THEOREM AuditIsNearlyComplete == Spec => []AuditGapsBounded
<1>1. ASSUME IInv, AccountInv PROVE AuditGapsBounded
  <2> SUFFICES ASSUME callback = Idle
               PROVE  Cardinality(Unaudited(run)) <= IF faults = 0 THEN 0 ELSE faults + 2
    BY DEF AuditGapsBounded
  <2>1. Cardinality(Missing(run)) <= Allowance(faults)
    BY <1>1, IdleFacts, NothingDue
  <2>2. Unaudited(run) = Missing(run)
    BY <1>1, AccountTypes, LenProperties DEF Unaudited, Missing, Run
  <2> QED
    BY <2>1, <2>2 DEF Allowance
<1>2. IInv /\ AccountInv => AuditGapsBounded
  BY <1>1
<1> QED
  BY <1>2, Inductive, AccountInvariant, PTL

\* Comments and connector references are on the timeline exactly once, in memory and
\* on disk; only a heartbeat can lose its event, and only to a fault of its own.
THEOREM NotesAreOnTimeline == Spec => []NotesOnTimeline
<1>1. ASSUME IInv, AccountInv PROVE NotesOnTimeline
  <2> DEFINE posted(m, k) ==
        Cardinality({i \in DOMAIN m.events : m.events[i].type = NoteEvent[k]})
  <2>1. ASSUME NEW m \in {run, stored}, NEW k \in Notes
        PROVE  posted(m, k) = Posted(m, k)
    <3>1. DOMAIN m.events = 1 .. Len(m.events)
      BY <1>1, AccountTypes, LenProperties DEF Run
    <3> QED
      BY <3>1 DEF Posted, PostedAt
  <2>2. ASSUME NEW m \in {run, stored}, NEW k \in Notes
        PROVE  IF k = "heartbeat"
               THEN m.notes[k] - Posted(m, k) \in 0 .. faults + Open(callback)
               ELSE m.notes[k] = Posted(m, k)
    <3>1. CASE k = "heartbeat"
      <4>1. m.notes["heartbeat"] - Posted(m, "heartbeat") \in 0 .. faults + Open(callback)
        BY <1>1, AccountTypes DEF AccountInv, Accounted, StoredAccounted, Open
      <4> QED
        BY <3>1, <4>1
    <3>2. CASE k # "heartbeat"
      BY <1>1, <3>2 DEF AccountInv, Accounted, StoredAccounted, NotesKept, Notes
    <3> QED
      BY <3>1, <3>2
  <2> HIDE DEF posted
  <2>3. \A m \in {run, stored} : \A k \in Notes :
          IF k = "heartbeat" THEN m.notes[k] - posted(m, k) \in 0 .. faults + Open(callback)
          ELSE m.notes[k] = posted(m, k)
    BY <2>1, <2>2
  <2> QED
    BY <2>3 DEF NotesOnTimeline, Open, posted
<1>2. IInv /\ AccountInv => NotesOnTimeline
  BY <1>1
<1> QED
  BY <1>2, Inductive, AccountInvariant, PTL

=============================================================================
