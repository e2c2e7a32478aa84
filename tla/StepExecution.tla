----------------------------- MODULE StepExecution -----------------------------
(***************************************************************************)
(* The steps of one run: POST steps records a step with its gate verdict,  *)
(* POST execute runs it under an execution lock, POST execution-locks/     *)
(* recover clears expired locks.  mem is the run object, disk the snapshot.*)
(*                                                                         *)
(* The handlers check everything they need in one callback and executeStep *)
(* uses spawnSync, so no two handlers of a process overlap.  The locks are *)
(* there for restarts: the process can die while a command runs, and the   *)
(* command survives it.  The execute callback is a sequence of stages, one *)
(* snapshot write each, and the clock is read again in each of them.       *)
(*                                                                         *)
(* Locks live ten minutes from their acquisition.  They expire in the      *)
(* order they were taken in, so time is the number of expired locks.       *)
(***************************************************************************)
EXTENDS Integers, Sequences, FiniteSets

CONSTANTS StepIds,      \* the step ids clients choose; an id can be used twice
          MaxAttempts,  \* DEFAULT_MAX_EXECUTION_ATTEMPTS
          MaxSteps,     \* bound: steps recorded
          MaxLocks,     \* bound: locks taken
          MaxFaults     \* bound: crashes and failed snapshot writes

ASSUME AttemptsAssumption == MaxAttempts \in Nat \ {0}
ASSUME StepBounds == MaxSteps \in Nat /\ MaxLocks \in Nat /\ MaxFaults \in Nat

VARIABLES mem,       \* the run object in memory
          disk,      \* the run in the snapshot
          work,      \* the callback being executed and its next stage
          lapsed,    \* the locks 1 .. lapsed have passed their expires_at
          commands,  \* the locks whose command is running in the workspace
          ran,       \* step id -> how often its command was started
          faults     \* crashes and failed writes so far

vars == <<mem, disk, work, lapsed, commands, ran, faults>>

-----------------------------------------------------------------------------
StepStatuses == {"pending", "blocked", "completed", "failed"}
LockStatuses == {"locked", "released", "failed", "stale"}
Stages       == {"idle", "recover", "adapter", "running", "recorded", "failed"}

Step == [id : StepIds, allowed : BOOLEAN, status : StepStatuses]

\* retry_of is the position of the execution that is retried, 0 for null.
Execution == [id : StepIds, attempt : Nat, retry_of : Nat,
              status : {"completed", "failed"}]

\* ends counts the execution_lock_released and execution_lock_recovered events.
Lock == [status : LockStatuses, ends : Nat]

\* active is the position of the lock in active_execution_lock, 0 for null.
Run == [status : {"queued", "paused"}, steps : Seq(Step), executions : Seq(Execution),
        locks : Seq(Lock), active : Nat]

\* step is the position of the step to execute, 0 for the recover endpoint; todo
\* holds the recovered locks whose events are still to be recorded.
Work == [stage : Stages, step : Nat, attempt : Nat, retry_of : Nat, todo : SUBSET Nat]

TypeOK == /\ mem \in Run
          /\ disk \in Run
          /\ work \in Work
          /\ lapsed \in 0 .. Len(mem.locks)
          /\ commands \subseteq DOMAIN disk.locks
          /\ ran \in [StepIds -> Nat]
          /\ faults \in Nat

NewRun == [status |-> "queued", steps |-> << >>, executions |-> << >>,
           locks |-> << >>, active |-> 0]
Idle   == [stage |-> "idle", step |-> 0, attempt |-> 0, retry_of |-> 0, todo |-> {}]

Init == /\ mem = NewRun
        /\ disk = NewRun
        /\ work = Idle
        /\ lapsed = 0
        /\ commands = {}
        /\ ran = [id \in StepIds |-> 0]
        /\ faults = 0

-----------------------------------------------------------------------------
\* recordAudit and persistRunStore: memory replaces the snapshot in one rename.
Save(m, next) == /\ mem' = m
                 /\ disk' = m
                 /\ work' = next
                 /\ UNCHANGED faults

\* A write throws inside the try block of the execute handler: memory stays ahead
\* of the snapshot and the catch block is next.
SaveFails(m) == /\ faults < MaxFaults
                /\ faults' = faults + 1
                /\ mem' = m
                /\ work' = [work EXCEPT !.stage = "failed"]
                /\ UNCHANGED disk

Locked(m)  == {i \in DOMAIN m.locks : m.locks[i].status = "locked"}
Live(m)    == {i \in Locked(m) : i > lapsed}

\* Array.find returns the first element, or nothing.
FirstOf(S) == IF S = {} THEN 0 ELSE CHOOSE i \in S : \A j \in S : i <= j

\* activeExecutionLock
ActiveLock(m) == FirstOf(Live(m))

\* Mutated Stale: expires_at is not compared with the clock.
StaleIgnoresExpiry(m) == Locked(m)

\* Mutated Stale: only the lock in active_execution_lock is looked at.
StaleActiveOnly(m) == {i \in Locked(m) \ Live(m) : i = m.active}

\* recoverStaleExecutionLocks recovers these.
Stale(m) == Locked(m) \ Live(m)

\* Mutated Recovered: the locks are marked and active_execution_lock is kept.
RecoveredKeepsActive(m) ==
  [m EXCEPT !.locks = [i \in DOMAIN @ |->
               IF i \in Stale(m) THEN [@[i] EXCEPT !.status = "stale"] ELSE @[i]]]

\* The run after recoverStaleExecutionLocks, before anything is written.
Recovered(m) ==
  [m EXCEPT !.locks = [i \in DOMAIN @ |->
               IF i \in Stale(m) THEN [@[i] EXCEPT !.status = "stale"] ELSE @[i]],
            !.active = ActiveLock(m)]

\* releaseExecutionLock of lock i with its timeline event
Ended(m, i, status) ==
  [m EXCEPT !.locks[i] = [status |-> status, ends |-> @.ends + 1], !.active = 0]

-----------------------------------------------------------------------------
\* POST steps: the gate allows the step or not, or pauses the run by the hard cap.
RecordStep ==
  /\ work = Idle
  /\ Len(mem.steps) < MaxSteps
  /\ \E id \in StepIds, verdict \in {"allow", "refuse", "hard_cap"} :
       LET step == [id |-> id, allowed |-> verdict = "allow",
                    status |-> IF verdict = "allow" THEN "pending" ELSE "blocked"]
       IN  Save([mem EXCEPT !.steps = Append(@, step),
                            !.status = IF verdict = "hard_cap" THEN "paused" ELSE @],
                Idle)
  /\ UNCHANGED <<lapsed, commands, ran>>

\* Mutated FindStep: the newest step with the id is executed.
FindNewestStep(m, s) == \A t \in DOMAIN m.steps : m.steps[t].id = m.steps[s].id => t <= s

\* run.steps.find: s is the first step with its id.
FindStep(m, s) == \A t \in DOMAIN m.steps : m.steps[t].id = m.steps[s].id => s <= t

\* The executions of a step id, by position.
Attempts(m, id) == {e \in DOMAIN m.executions : m.executions[e].id = id}

LastOf(S) == IF S = {} THEN 0 ELSE CHOOSE i \in S : \A j \in S : j <= i

\* Mutated AttemptAllowed: the limit is off by one.
AttemptAllowedOnceMore(s, retry) ==
  LET used == Attempts(mem, mem.steps[s].id)
  IN  \/ used = {}
      \/ /\ retry
         /\ mem.steps[s].status = "failed"
         /\ mem.executions[LastOf(used)].status = "failed"
         /\ Cardinality(used) <= MaxAttempts

\* createExecutionAttemptState says allowed.
AttemptAllowed(s, retry) ==
  LET used == Attempts(mem, mem.steps[s].id)
  IN  \/ used = {}
      \/ /\ retry
         /\ mem.steps[s].status = "failed"
         /\ mem.executions[LastOf(used)].status = "failed"
         /\ Cardinality(used) < MaxAttempts

\* POST execute, up to the recovery of expired locks.  The other requests are
\* refused with 409 and change nothing.
Execute(s, retry) ==
  /\ work = Idle
  /\ s \in DOMAIN mem.steps
  /\ FindStep(mem, s)
  /\ AttemptAllowed(s, retry)
  /\ Len(mem.locks) < MaxLocks
  /\ LET used == Attempts(mem, mem.steps[s].id)
     IN  work' = [stage |-> "recover", step |-> s, attempt |-> Cardinality(used) + 1,
                  retry_of |-> LastOf(used), todo |-> Stale(mem)]
  /\ mem' = Recovered(mem)
  /\ UNCHANGED <<disk, lapsed, commands, ran, faults>>

\* POST execution-locks/recover, up to the recovery of expired locks.
RecoverLocks ==
  /\ work = Idle
  /\ work' = [Idle EXCEPT !.stage = "recover", !.todo = Stale(mem)]
  /\ mem' = Recovered(mem)
  /\ UNCHANGED <<disk, lapsed, commands, ran, faults>>

\* Mutated TellRecovered: one event is recorded for all the recovered locks.
TellFirstRecovered ==
  /\ work.stage = "recover"
  /\ work.todo # {}
  /\ Save([mem EXCEPT !.locks[FirstOf(work.todo)].ends = @ + 1], [work EXCEPT !.todo = {}])
  /\ UNCHANGED <<lapsed, commands, ran>>

\* recordExecutionLock of the next recovered lock
TellRecovered ==
  /\ work.stage = "recover"
  /\ work.todo # {}
  /\ LET i == FirstOf(work.todo)
     IN  Save([mem EXCEPT !.locks[i].ends = @ + 1], [work EXCEPT !.todo = @ \ {i}])
  /\ UNCHANGED <<lapsed, commands, ran>>

\* Mutated RecoverDone: the endpoint does not answer.
RecoverNeverAnswers ==
  /\ work.stage = "recover" /\ work.todo = {} /\ work.step = 0
  /\ Save(mem, work)
  /\ UNCHANGED <<lapsed, commands, ran>>

\* The end of the recover endpoint: one more write, whatever was recovered.
RecoverDone ==
  /\ work.stage = "recover" /\ work.todo = {} /\ work.step = 0
  /\ Save(mem, Idle)
  /\ UNCHANGED <<lapsed, commands, ran>>

\* The clock is read again: a lock recovery found live may have expired by now.
LockConflict ==
  /\ work.stage = "recover" /\ work.todo = {} /\ work.step # 0
  /\ ActiveLock(mem) # 0
  /\ mem' = [mem EXCEPT !.active = ActiveLock(mem)]
  /\ work' = Idle
  /\ UNCHANGED <<disk, lapsed, commands, ran, faults>>

\* Mutated AcquireLock: the lock is only kept in memory while the command runs.
AcquireInMemory ==
  /\ work.stage = "recover" /\ work.todo = {} /\ work.step # 0
  /\ ActiveLock(mem) = 0
  /\ mem' = [mem EXCEPT !.locks = Append(@, [status |-> "locked", ends |-> 0]),
                        !.active = Len(mem.locks) + 1]
  /\ work' = [work EXCEPT !.stage = "adapter"]
  /\ UNCHANGED <<disk, lapsed, commands, ran, faults>>

\* Mutated AcquireLock: the recovery before it is taken for a conflict check.
AcquireUnchecked ==
  /\ work.stage = "recover" /\ work.todo = {} /\ work.step # 0
  /\ Save([mem EXCEPT !.locks = Append(@, [status |-> "locked", ends |-> 0]),
                      !.active = Len(mem.locks) + 1],
          [work EXCEPT !.stage = "adapter"])
  /\ UNCHANGED <<lapsed, commands, ran>>

\* The lock is on disk before the adapter is called.
AcquireLock ==
  /\ work.stage = "recover" /\ work.todo = {} /\ work.step # 0
  /\ ActiveLock(mem) = 0
  /\ Save([mem EXCEPT !.locks = Append(@, [status |-> "locked", ends |-> 0]),
                      !.active = Len(mem.locks) + 1],
          [work EXCEPT !.stage = "adapter"])
  /\ UNCHANGED <<lapsed, commands, ran>>

\* The callback's own lock is the newest one.
OwnLock == Len(mem.locks)

\* ensureExecutableStep
Executable ==
  /\ mem.steps[work.step].allowed
  /\ mem.steps[work.step].status = IF work.attempt > 1 THEN "failed" ELSE "pending"

StartCommand ==
  /\ work.stage = "adapter"
  /\ Executable
  /\ commands' = commands \cup {OwnLock}
  /\ ran' = [ran EXCEPT ![mem.steps[work.step].id] = @ + 1]
  /\ work' = [work EXCEPT !.stage = "running"]
  /\ UNCHANGED <<mem, disk, lapsed, faults>>

\* ensureExecutableStep throws
RefuseStep ==
  /\ work.stage = "adapter"
  /\ ~Executable
  /\ work' = [work EXCEPT !.stage = "failed"]
  /\ UNCHANGED <<mem, disk, lapsed, commands, ran, faults>>

\* The run with the execution record, its verification and the step's new status.
Executed(status) ==
  [mem EXCEPT !.executions = Append(@, [id |-> mem.steps[work.step].id,
                                        attempt |-> work.attempt,
                                        retry_of |-> work.retry_of,
                                        status |-> status]),
              !.steps[work.step].status = status]

RecordExecution(status) ==
  LET m == Executed(status)
  IN  Save(m, [work EXCEPT !.stage = "recorded"]) \/ SaveFails(m)

\* No adapter knows the action: executeStep returns a failed record at once.
NoAdapter ==
  /\ work.stage = "adapter"
  /\ Executable
  /\ RecordExecution("failed")
  /\ UNCHANGED <<lapsed, commands, ran>>

\* Mutated CommandEnds: only an execution that completed is recorded.
FailureNotRecorded ==
  /\ work.stage = "running"
  /\ commands' = commands \ {OwnLock}
  /\ \/ RecordExecution("completed")
     \/ Save(mem, [work EXCEPT !.stage = "recorded"])
  /\ UNCHANGED <<lapsed, ran>>

\* spawnSync returns and the execution is recorded.
CommandEnds ==
  /\ work.stage = "running"
  /\ commands' = commands \ {OwnLock}
  /\ \E status \in {"completed", "failed"} : RecordExecution(status)
  /\ UNCHANGED <<lapsed, ran>>

\* One of the writes between the first and the release fails.
LaterWriteFails ==
  /\ work.stage = "recorded"
  /\ SaveFails(mem)
  /\ UNCHANGED <<lapsed, commands, ran>>

\* The end of the try block.  When its own write fails, the catch block ends the
\* lock a second time.
ReleaseLock ==
  /\ work.stage = "recorded"
  /\ LET m == Ended(mem, OwnLock, "released") IN Save(m, Idle) \/ SaveFails(m)
  /\ UNCHANGED <<lapsed, commands, ran>>

\* The catch block; a failed write here ends the process.
FailLock ==
  /\ work.stage = "failed"
  /\ Save(Ended(mem, OwnLock, "failed"), Idle)
  /\ UNCHANGED <<lapsed, commands, ran>>

-----------------------------------------------------------------------------
\* Time passes: the oldest unexpired lock reaches its expires_at.
Lapse ==
  /\ lapsed < Len(mem.locks)
  /\ lapsed' = lapsed + 1
  /\ UNCHANGED <<mem, disk, work, commands, ran, faults>>

\* The process dies and starts again from the snapshot.  A child process may
\* survive its parent.
Crash ==
  /\ faults < MaxFaults
  /\ faults' = faults + 1
  /\ mem' = disk
  /\ work' = Idle
  /\ \E survivors \in SUBSET commands : commands' = survivors
  /\ lapsed' = IF lapsed > Len(disk.locks) THEN Len(disk.locks) ELSE lapsed
  /\ UNCHANGED <<disk, ran>>

\* A child that lost its parent ends; nobody records it.
OrphanEnds ==
  \E l \in commands :
    /\ ~(work.stage = "running" /\ l = OwnLock)
    /\ commands' = commands \ {l}
    /\ UNCHANGED <<mem, disk, work, lapsed, ran, faults>>

\* The stages that need nothing but the server itself
Handler == \/ TellRecovered \/ RecoverDone \/ LockConflict \/ AcquireLock
           \/ StartCommand \/ RefuseStep \/ NoAdapter
           \/ LaterWriteFails \/ ReleaseLock \/ FailLock

Next ==
  \/ RecordStep
  \/ \E s \in 1 .. MaxSteps, retry \in BOOLEAN : Execute(s, retry)
  \/ RecoverLocks
  \/ Handler
  \/ CommandEnds
  \/ Lapse
  \/ Crash
  \/ OrphanEnds

Spec == Init /\ [][Next]_vars

\* The event loop runs a callback to its end and time passes.  Two assumptions
\* on the outside: the commands of steps end, and somebody keeps posting to the
\* recover endpoint (nothing in the server recovers a lock by itself).
Fairness == WF_vars(Handler) /\ WF_vars(CommandEnds) /\ WF_vars(Lapse) /\ WF_vars(RecoverLocks)

FairSpec == Spec /\ Fairness

-----------------------------------------------------------------------------
\* At no time two locks block others, also when a lock expires between the two
\* clock reads of the execute handler and after any restart.
OneLiveLock == \A m \in {mem, disk} : Cardinality(Live(m)) <= 1

\* A command of an unexpired lock has that lock in the snapshot, so that a restart
\* at any time finds it and refuses to start another command.
LockOnDiskBeforeWork ==
  \A l \in commands : l > lapsed => l \in Locked(disk)

\* docs/ARCHITECTURE.md: a command starts only when every other command that is
\* still running, of this process or a dead one, holds an expired lock.
StartsAlone ==
  [][commands' \subseteq commands \/ commands \subseteq 1 .. lapsed]_commands

\* active_execution_lock never names a lock that has ended, and names the lock that
\* blocks others, in memory and on disk.
ActiveFieldAgrees ==
  \A m \in {mem, disk} :
    /\ m.active # 0 => m.active \in Locked(m)
    /\ \A i \in Live(m) : m.active = i

\* The executions of a step id are a bounded chain of retries, every one but the last
\* failed, and the step shows the last one's status, in memory and on disk.
AttemptsFormChain ==
  \A m \in {mem, disk} : \A s \in DOMAIN m.steps :
    LET used == Attempts(m, m.steps[s].id)
        before(e) == {d \in used : d < e}
    IN  /\ Cardinality(used) <= MaxAttempts
        /\ \A e \in used :
             /\ m.executions[e].attempt = Cardinality(before(e)) + 1
             /\ m.executions[e].retry_of = LastOf(before(e))
             /\ e # LastOf(used) => m.executions[e].status = "failed"
        /\ used # {} /\ FindStep(m, s) =>
             m.steps[s].status = m.executions[LastOf(used)].status

\* Every start of a command is on record in the snapshot, or is running, or was lost
\* to a fault: without faults no step works twice for one record.
WorkIsAccounted ==
  \A id \in StepIds :
    ran[id] <= Cardinality(Attempts(disk, id)) + faults
                 + IF work.stage = "running" THEN 1 ELSE 0

\* A step id the gate refused when it was first used never works, however often the
\* id is recorded again with another verdict.
RefusedStepsNeverWork ==
  \A s \in DOMAIN mem.steps :
    ran[mem.steps[s].id] > 0 =>
      \E t \in 1 .. s : /\ mem.steps[t].id = mem.steps[s].id
                        /\ mem.steps[t].allowed
                        /\ \A u \in 1 .. t - 1 : mem.steps[u].id # mem.steps[s].id

\* A lock that is not locked has its end event, except while its recovery is being
\* recorded; only three faults together lose one, and only a fault ends a lock twice.
LockEndsOnTimeline ==
  /\ \A m \in {mem, disk} : \A i \in DOMAIN m.locks :
       /\ m.locks[i].status = "locked" => m.locks[i].ends = 0
       /\ m.locks[i].ends <= 1 + faults
  /\ faults < 3 => \A i \in DOMAIN mem.locks :
       mem.locks[i].status # "locked" => mem.locks[i].ends > 0 \/ i \in work.todo

\* A callback that has started comes to its end.
CallbackEnds == work # Idle ~> work = Idle

\* A lock left behind by a crash does not stay locked.
LocksEnd == \A i \in 1 .. MaxLocks : i \in Locked(mem) ~> i \notin Locked(mem)

\* The repository's decision record: "Hard budget cap enforcement pauses execution
\* before additional work starts."
PausedRunsStartNothing == [][commands' \subseteq commands \/ mem.status # "paused"]_commands

-----------------------------------------------------------------------------
Lease == INSTANCE ExecutionLease WITH
  granted <- Len(disk.locks),
  over    <- {i \in DOMAIN disk.locks : i \notin Live(disk)},
  workers <- commands

\* The snapshot's locks implement the lease: they are granted one at a time and a
\* command only ever starts beside commands whose lease is over.
ImplementsLease == Lease!LeaseSpec

=============================================================================
