--------------------------- MODULE StepExecutionProofs ---------------------------
(***************************************************************************)
(* Proofs about the execution locks of StepExecution for any step ids and  *)
(* bounds: one live lock, the lock on disk before the work, the field      *)
(* active_execution_lock, the events that end a lock, and the refinement   *)
(* of ExecutionLease.  The second half is about the execution history.     *)
(*                                                                         *)
(* None of these is inductive alone.  IInv adds that only the newest lock  *)
(* can be live (LiveInv), that a lock ended in memory is not ended on disk *)
(* before it is saved (TablesInv), what the callback knows of its own lock *)
(* (OwnInv), and that a lock which is still locked when no callback holds  *)
(* it was left behind by a fault of its own (FaultInv).                    *)
(***************************************************************************)
EXTENDS StepExecution, SequenceTheorems, FiniteSetTheorems, WellFoundedInduction, TLAPS

\* Memory and snapshot hold the same number of locks; memory ends them first.
TablesInv == /\ Len(mem.locks) = Len(disk.locks)
             /\ Locked(mem) \subseteq Locked(disk)

\* Only the newest lock can block others.
LiveInv == \A m \in {mem, disk} : Live(m) \subseteq {Len(m.locks)}

\* Except in the catch block the same locks are live on disk.
AgreeInv == work.stage # "failed" => Live(disk) = Live(mem)

\* The callback holds the lock it has taken.
Holding == work.stage \in {"adapter", "running", "recorded", "failed"}

\* What the callback knows of its own lock.
OwnInv ==
  /\ Holding => OwnLock > 0
  /\ work.stage \in {"adapter", "running", "recorded"} => OwnLock \in Locked(mem)
  /\ work.stage \in {"adapter", "recorded", "failed"} => OwnLock \notin commands
  /\ work.stage = "failed" => mem.locks[OwnLock].ends <= faults

\* The step the callback executes exists.
StepInv == /\ work.step # 0 => work.step \in DOMAIN mem.steps
           /\ Holding => work.step # 0

\* The recovered locks whose events are still to come.
TodoInv ==
  /\ work.stage # "recover" => work.todo = {}
  /\ \A i \in work.todo : /\ i \in DOMAIN mem.locks
                          /\ mem.locks[i].status # "locked" /\ mem.locks[i].ends = 0
  /\ work.todo \subseteq Locked(disk) \/ faults >= 2

\* A command whose lock has not expired has that lock in memory and on disk.
CommandInv == \A l \in commands : l > lapsed => l \in Locked(mem) \cap Locked(disk)

\* A lock that is locked has no end event, and only faults end a lock twice.
EndsOk(m) == \A i \in DOMAIN m.locks :
               /\ m.locks[i].status = "locked" => m.locks[i].ends = 0
               /\ m.locks[i].ends <= 1 + faults

EndsInv == EndsOk(mem) /\ EndsOk(disk)

\* The locks nobody holds.
Left == Locked(disk) \ (IF Holding THEN {OwnLock} ELSE {})

\* Each of them was left behind by a fault of its own.
FaultInv == /\ Left # {} => faults >= 1
            /\ \A i, j \in Left : i # j => faults >= 2

\* Up to the third fault every lock that was ended has its event, or will have.
ToldInv ==
  faults < 3 =>
    /\ \A i \in DOMAIN mem.locks :
         mem.locks[i].status # "locked" => mem.locks[i].ends > 0 \/ i \in work.todo
    /\ \A i \in DOMAIN disk.locks :
         disk.locks[i].status # "locked" =>
           disk.locks[i].ends > 0 \/ (i \in work.todo /\ faults >= 2)

IInv == /\ TypeOK
        /\ TablesInv
        /\ LiveInv
        /\ AgreeInv
        /\ OwnInv
        /\ StepInv
        /\ TodoInv
        /\ CommandInv
        /\ ActiveFieldAgrees
        /\ EndsInv
        /\ FaultInv
        /\ ToldInv

-----------------------------------------------------------------------------
\* The lock table of a run.
LEMMA TableFacts ==
  ASSUME NEW m \in Run
  PROVE  /\ Len(m.locks) \in Nat /\ DOMAIN m.locks = 1 .. Len(m.locks)
         /\ \A i \in DOMAIN m.locks : m.locks[i] \in Lock
         /\ m.locks \in Seq(Lock) /\ m.active \in Nat
         /\ Locked(m) \subseteq 1 .. Len(m.locks)
  BY LenProperties, ElementOfSeq DEF Run, Locked

\* Array.find on a set of positions: the first one, if there is one.
LEMMA FirstFacts ==
  ASSUME NEW S \in SUBSET (Nat \ {0})
  PROVE  /\ S = {} => FirstOf(S) = 0
         /\ S # {} => FirstOf(S) \in S /\ \A j \in S : FirstOf(S) <= j
<1>1. S # {} => \E i \in S : \A j \in S : i <= j
  <2> SUFFICES ASSUME S # {} PROVE \E i \in S : \A j \in S : i <= j
    OBVIOUS
  <2>1. PICK i \in S : \A j \in S : <<j, i>> \notin OpToRel(<, Nat)
    BY WFMin, NatLessThanWellFounded
  <2>2. \A j \in S : ~(j < i)
    BY <2>1, Zenon DEF OpToRel
  <2> QED
    BY <2>2
<1> QED
  BY <1>1 DEF FirstOf

\* The last element of a set of positions, if there is one.
LEMMA LastFacts ==
  ASSUME NEW N \in Nat, NEW S \in SUBSET (1 .. N)
  PROVE  /\ S = {} => LastOf(S) = 0
         /\ S # {} => LastOf(S) \in S /\ \A j \in S : j <= LastOf(S)
         /\ LastOf(S) \in Nat
<1>1. S # {} => \E i \in S : \A j \in S : j <= i
  <2> SUFFICES ASSUME S # {} PROVE \E i \in S : \A j \in S : j <= i
    OBVIOUS
  <2> DEFINE T == {N - i : i \in S}
  <2>1. T \subseteq Nat /\ T # {}
    <3>1. \A i \in S : N - i \in Nat
      OBVIOUS
    <3> QED
      BY <3>1
  <2>2. PICK k \in T : \A j \in T : <<j, k>> \notin OpToRel(<, Nat)
    BY <2>1, WFMin, NatLessThanWellFounded
  <2>3. \A j \in T : ~(j < k)
    BY <2>1, <2>2, Zenon DEF OpToRel
  <2>4. PICK i \in S : k = N - i
    OBVIOUS
  <2>5. \A j \in S : j <= i
    BY <2>3, <2>4
  <2> QED
    BY <2>5
<1>2. S # {} => LastOf(S) \in S /\ \A j \in S : j <= LastOf(S)
  BY <1>1 DEF LastOf
<1>3. S = {} => LastOf(S) = 0
  BY DEF LastOf
<1>4. CASE S = {}
  BY <1>2, <1>3, <1>4
<1>5. CASE S # {}
  <2>1. LastOf(S) \in 1 .. N
    BY <1>2, <1>5
  <2> QED
    BY <1>2, <1>3, <2>1
<1> QED
  BY <1>4, <1>5

\* When at most the newest lock is live, activeExecutionLock finds it.
LEMMA ActiveFacts ==
  ASSUME NEW m \in Run, Live(m) \subseteq {Len(m.locks)}
  PROVE  /\ ActiveLock(m) = 0 <=> Live(m) = {}
         /\ Live(m) # {} => ActiveLock(m) = Len(m.locks) /\ Live(m) = {Len(m.locks)}
         /\ ActiveLock(m) \in Nat
<1>1. Live(m) \in SUBSET (Nat \ {0}) /\ Len(m.locks) \in Nat
  BY TableFacts DEF Live
<1> QED
  BY <1>1, FirstFacts DEF ActiveLock

\* Recovering marks the expired locks and nothing else of the table.
LEMMA RecoveredFacts ==
  ASSUME NEW m \in Run, Live(m) \subseteq {Len(m.locks)}
  PROVE  /\ Recovered(m) \in Run
         /\ Len(Recovered(m).locks) = Len(m.locks)
         /\ Locked(Recovered(m)) = Live(m)
         /\ Live(Recovered(m)) = Live(m)
         /\ Recovered(m).active = ActiveLock(m)
         /\ \A i \in 1 .. Len(m.locks) :
              /\ Recovered(m).locks[i].ends = m.locks[i].ends
              /\ Recovered(m).locks[i].status =
                   IF i \in Stale(m) THEN "stale" ELSE m.locks[i].status
         /\ Recovered(m).steps = m.steps /\ Recovered(m).executions = m.executions
         /\ Recovered(m).status = m.status
<1> DEFINE locks == [i \in DOMAIN m.locks |->
                       IF i \in Stale(m) THEN [m.locks[i] EXCEPT !.status = "stale"]
                       ELSE m.locks[i]]
<1>1. /\ Len(m.locks) \in Nat /\ DOMAIN m.locks = 1 .. Len(m.locks)
      /\ \A i \in DOMAIN m.locks : m.locks[i] \in Lock
  BY TableFacts
<1>2. \A i \in 1 .. Len(m.locks) :
        /\ locks[i] \in Lock /\ locks[i].ends = m.locks[i].ends
        /\ locks[i].status = IF i \in Stale(m) THEN "stale" ELSE m.locks[i].status
  BY <1>1 DEF Lock, LockStatuses
<1>3. locks \in Seq(Lock) /\ Len(locks) = Len(m.locks) /\ DOMAIN locks = 1 .. Len(m.locks)
  <2>1. DOMAIN locks = 1 .. Len(m.locks) /\ locks \in [1 .. Len(m.locks) -> Lock]
    BY <1>1, <1>2
  <2> QED
    BY <1>1, <2>1
<1>4. Recovered(m) = [m EXCEPT !.locks = locks, !.active = ActiveLock(m)]
  BY DEF Recovered
<1> HIDE DEF locks
<1>5. /\ Recovered(m) \in Run /\ Recovered(m).locks = locks
      /\ Recovered(m).active = ActiveLock(m)
      /\ Recovered(m).steps = m.steps /\ Recovered(m).executions = m.executions
      /\ Recovered(m).status = m.status
  BY <1>3, <1>4, ActiveFacts DEF Run
<1>6. Locked(Recovered(m)) = Live(m)
  BY <1>1, <1>2, <1>3, <1>5 DEF Locked, Live, Stale
<1> QED
  BY <1>2, <1>3, <1>5, <1>6 DEF Live

\* Ending a lock.
LEMMA EndedFacts ==
  ASSUME NEW m \in Run, NEW i \in 1 .. Len(m.locks), NEW status \in LockStatuses \ {"locked"}
  PROVE  /\ Ended(m, i, status) \in Run
         /\ Len(Ended(m, i, status).locks) = Len(m.locks)
         /\ Locked(Ended(m, i, status)) = Locked(m) \ {i}
         /\ Ended(m, i, status).active = 0
         /\ Ended(m, i, status).locks[i].status # "locked"
         /\ Ended(m, i, status).locks[i].ends = m.locks[i].ends + 1
         /\ \A j \in 1 .. Len(m.locks) : j # i =>
              Ended(m, i, status).locks[j] = m.locks[j]
         /\ Ended(m, i, status).steps = m.steps
         /\ Ended(m, i, status).executions = m.executions
<1> DEFINE new == [status |-> status, ends |-> m.locks[i].ends + 1]
           locks == [m.locks EXCEPT ![i] = new]
<1>1. /\ Len(m.locks) \in Nat /\ DOMAIN m.locks = 1 .. Len(m.locks)
      /\ \A j \in DOMAIN m.locks : m.locks[j] \in Lock
      /\ m.locks \in Seq(Lock)
  BY TableFacts
<1>2. new \in Lock
  BY <1>1 DEF Lock
<1>3. /\ locks \in Seq(Lock) /\ Len(locks) = Len(m.locks)
      /\ locks[i] = new /\ \A j \in 1 .. Len(m.locks) : j # i => locks[j] = m.locks[j]
      /\ DOMAIN locks = 1 .. Len(m.locks)
  BY <1>1, <1>2, ExceptSeq
<1>4. Ended(m, i, status) = [m EXCEPT !.locks = locks, !.active = 0]
  BY DEF Ended, Run
<1> HIDE DEF locks
<1>5. /\ Ended(m, i, status) \in Run /\ Ended(m, i, status).locks = locks
      /\ Ended(m, i, status).active = 0
      /\ Ended(m, i, status).steps = m.steps
      /\ Ended(m, i, status).executions = m.executions
  <2>1. locks \in Seq(Lock) /\ 0 \in Nat
    BY <1>3
  <2>2. [m EXCEPT !.locks = locks, !.active = 0] \in Run
    BY <2>1 DEF Run
  <2>3. /\ [m EXCEPT !.locks = locks, !.active = 0].locks = locks
        /\ [m EXCEPT !.locks = locks, !.active = 0].active = 0
        /\ [m EXCEPT !.locks = locks, !.active = 0].steps = m.steps
        /\ [m EXCEPT !.locks = locks, !.active = 0].executions = m.executions
    BY DEF Run
  <2> QED
    BY <1>4, <2>2, <2>3
<1>6. Locked(Ended(m, i, status)) = Locked(m) \ {i}
  BY <1>1, <1>3, <1>5 DEF Locked
<1> QED
  BY <1>3, <1>5, <1>6

\* The event of a recovered lock.
Told(m, i) == [m EXCEPT !.locks[i].ends = @ + 1]

LEMMA ToldFacts ==
  ASSUME NEW m \in Run, NEW i \in 1 .. Len(m.locks)
  PROVE  /\ Told(m, i) \in Run
         /\ Len(Told(m, i).locks) = Len(m.locks)
         /\ Locked(Told(m, i)) = Locked(m)
         /\ Told(m, i).active = m.active
         /\ Told(m, i).locks[i].status = m.locks[i].status
         /\ Told(m, i).locks[i].ends = m.locks[i].ends + 1
         /\ \A j \in 1 .. Len(m.locks) : j # i => Told(m, i).locks[j] = m.locks[j]
         /\ Told(m, i).steps = m.steps /\ Told(m, i).executions = m.executions
<1> DEFINE new == [m.locks[i] EXCEPT !.ends = m.locks[i].ends + 1]
           locks == [m.locks EXCEPT ![i] = new]
<1>1. /\ Len(m.locks) \in Nat /\ DOMAIN m.locks = 1 .. Len(m.locks)
      /\ \A j \in DOMAIN m.locks : m.locks[j] \in Lock
      /\ m.locks \in Seq(Lock)
  BY TableFacts
<1>2. new \in Lock /\ new.status = m.locks[i].status /\ new.ends = m.locks[i].ends + 1
  BY <1>1 DEF Lock
<1>3. /\ locks \in Seq(Lock) /\ Len(locks) = Len(m.locks)
      /\ locks[i] = new /\ \A j \in 1 .. Len(m.locks) : j # i => locks[j] = m.locks[j]
      /\ DOMAIN locks = 1 .. Len(m.locks)
  BY <1>1, <1>2, ExceptSeq
<1>4. Told(m, i) = [m EXCEPT !.locks = locks]
  BY DEF Told, Run
<1> HIDE DEF locks
<1>5. /\ Told(m, i) \in Run /\ Told(m, i).locks = locks /\ Told(m, i).active = m.active
      /\ Told(m, i).steps = m.steps /\ Told(m, i).executions = m.executions
  BY <1>3, <1>4 DEF Run
<1>6. Locked(Told(m, i)) = Locked(m)
  BY <1>1, <1>2, <1>3, <1>5 DEF Locked
<1> QED
  BY <1>2, <1>3, <1>5, <1>6

\* Taking a lock.
Taken(m) == [m EXCEPT !.locks = Append(@, [status |-> "locked", ends |-> 0]),
                      !.active = Len(m.locks) + 1]

LEMMA TakenFacts ==
  ASSUME NEW m \in Run
  PROVE  /\ Taken(m) \in Run
         /\ Len(Taken(m).locks) = Len(m.locks) + 1
         /\ Locked(Taken(m)) = Locked(m) \cup {Len(m.locks) + 1}
         /\ Taken(m).active = Len(m.locks) + 1
         /\ Taken(m).locks[Len(m.locks) + 1] = [status |-> "locked", ends |-> 0]
         /\ \A j \in 1 .. Len(m.locks) : Taken(m).locks[j] = m.locks[j]
         /\ Taken(m).steps = m.steps /\ Taken(m).executions = m.executions
<1> DEFINE new == [status |-> "locked", ends |-> 0]
           locks == Append(m.locks, new)
<1>1. /\ Len(m.locks) \in Nat /\ DOMAIN m.locks = 1 .. Len(m.locks)
      /\ m.locks \in Seq(Lock)
  BY TableFacts
<1>2. new \in Lock
  BY DEF Lock, LockStatuses
<1>3. /\ locks \in Seq(Lock) /\ Len(locks) = Len(m.locks) + 1
      /\ locks[Len(m.locks) + 1] = new
      /\ \A j \in 1 .. Len(m.locks) : locks[j] = m.locks[j]
      /\ DOMAIN locks = 1 .. Len(m.locks) + 1
  BY <1>1, <1>2, AppendProperties, LenProperties
<1>4. Taken(m) = [m EXCEPT !.locks = locks, !.active = Len(m.locks) + 1]
  BY DEF Taken
<1> HIDE DEF locks
<1>5. /\ Taken(m) \in Run /\ Taken(m).locks = locks /\ Taken(m).active = Len(m.locks) + 1
      /\ Taken(m).steps = m.steps /\ Taken(m).executions = m.executions
  <2>1. locks \in Seq(Lock) /\ Len(m.locks) + 1 \in Nat
    BY <1>1, <1>3
  <2> QED
    BY <1>4, <2>1 DEF Run
<1>6. Locked(Taken(m)) = Locked(m) \cup {Len(m.locks) + 1}
  BY <1>1, <1>3, <1>5 DEF Locked
<1> QED
  BY <1>3, <1>5, <1>6

-----------------------------------------------------------------------------
\* The executions of a run and the status of the executed step are all that recording
\* an execution changes.
LEMMA ExecutedFacts ==
  ASSUME TypeOK, work.step \in DOMAIN mem.steps, NEW status \in {"completed", "failed"}
  PROVE  /\ Executed(status) \in Run
         /\ Executed(status).locks = mem.locks /\ Executed(status).active = mem.active
<1> DEFINE new  == [id |-> mem.steps[work.step].id, attempt |-> work.attempt,
                    retry_of |-> work.retry_of, status |-> status]
           step == [mem.steps[work.step] EXCEPT !.status = status]
<1>1. mem.steps \in Seq(Step) /\ mem.executions \in Seq(Execution) /\ mem \in Run
  BY DEF TypeOK, Run
<1>2. mem.steps[work.step] \in Step
  BY <1>1, LenProperties, ElementOfSeq
<1>3. new \in Execution /\ step \in Step
  BY <1>2 DEF Execution, Step, StepStatuses, TypeOK, Work
<1>4. Append(mem.executions, new) \in Seq(Execution)
  BY <1>1, <1>3, AppendProperties
<1>5. [mem.steps EXCEPT ![work.step] = step] \in Seq(Step)
  BY <1>1, <1>3, LenProperties, ExceptSeq
<1>6. Executed(status) = [mem EXCEPT !.executions = Append(mem.executions, new),
                                     !.steps = [mem.steps EXCEPT ![work.step] = step]]
  BY <1>1 DEF Executed, Run
<1> HIDE DEF new, step
<1> QED
  BY <1>1, <1>4, <1>5, <1>6 DEF Run

\* Types: the requests.
LEMMA RequestType ==
  ASSUME TypeOK, LiveInv, TablesInv,
         RecordStep \/ RecoverLocks \/ \E s \in 1 .. MaxSteps, retry \in BOOLEAN : Execute(s, retry)
  PROVE  TypeOK'
<1>1. CASE RecordStep
  <2>1. PICK id \in StepIds, verdict \in {"allow", "refuse", "hard_cap"} :
          mem' = [mem EXCEPT
                    !.steps = Append(mem.steps,
                                [id |-> id, allowed |-> verdict = "allow",
                                 status |-> IF verdict = "allow" THEN "pending" ELSE "blocked"]),
                    !.status = IF verdict = "hard_cap" THEN "paused" ELSE mem.status]
    BY <1>1 DEF RecordStep, Save
  <2>2. [id |-> id, allowed |-> verdict = "allow",
         status |-> IF verdict = "allow" THEN "pending" ELSE "blocked"] \in Step
    BY DEF Step, StepStatuses
  <2>3. Append(mem.steps, [id |-> id, allowed |-> verdict = "allow",
                           status |-> IF verdict = "allow" THEN "pending" ELSE "blocked"])
          \in Seq(Step)
    BY <2>2, AppendProperties DEF TypeOK, Run
  <2>4. mem' \in Run /\ mem'.locks = mem.locks /\ disk' = mem'
    BY <1>1, <2>1, <2>3 DEF RecordStep, Save, TypeOK, Run
  <2> QED
    BY <1>1, <2>4, TableFacts DEF RecordStep, Save, TypeOK, TablesInv
<1>2. /\ Recovered(mem) \in Run /\ Len(Recovered(mem).locks) = Len(mem.locks)
      /\ Stale(mem) \in SUBSET Nat
  BY RecoveredFacts, TableFacts DEF TypeOK, LiveInv, Stale
<1>3. CASE RecoverLocks
  BY <1>2, <1>3 DEF RecoverLocks, TypeOK, Work, Idle, Stages
<1>4. ASSUME NEW s \in 1 .. MaxSteps, NEW retry \in BOOLEAN, Execute(s, retry)
      PROVE  TypeOK'
  <2> DEFINE used == Attempts(mem, mem.steps[s].id)
  <2>1. used \subseteq 1 .. Len(mem.executions) /\ Len(mem.executions) \in Nat
    BY LenProperties DEF Attempts, TypeOK, Run
  <2>2. Cardinality(used) \in Nat
    <3>1. IsFiniteSet(1 .. Len(mem.executions))
      BY <2>1, FS_Interval
    <3> QED
      BY <2>1, <3>1, FS_Subset, FS_CardinalityType
  <2>3. LastOf(used) \in Nat
    BY <2>1, LastFacts
  <2>4. work' \in Work
    BY <1>2, <1>4, <2>2, <2>3, StepBounds DEF Execute, Work, Stages
  <2> QED
    BY <1>2, <1>4, <2>4 DEF Execute, TypeOK
<1> QED
  BY <1>1, <1>3, <1>4

\* Types: an execution that is recorded, whether its write fails or not.
LEMMA RecordType ==
  ASSUME TypeOK, TablesInv, StepInv, Holding, NEW status \in {"completed", "failed"},
         RecordExecution(status)
  PROVE  /\ mem' \in Run /\ disk' \in Run /\ work' \in Work /\ faults' \in Nat
         /\ mem'.locks = mem.locks /\ mem'.active = mem.active
         /\ Len(disk'.locks) = Len(disk.locks)
<1>1. /\ Executed(status) \in Run
      /\ Executed(status).locks = mem.locks /\ Executed(status).active = mem.active
  BY ExecutedFacts DEF StepInv
<1>2. CASE Save(Executed(status), [work EXCEPT !.stage = "recorded"])
  BY <1>1, <1>2 DEF Save, TypeOK, TablesInv, Work, Stages
<1>3. CASE SaveFails(Executed(status))
  BY <1>1, <1>3 DEF SaveFails, TypeOK, Work, Stages
<1> QED
  BY <1>2, <1>3 DEF RecordExecution

\* Types: the stages of a callback.
LEMMA HandlerType ==
  ASSUME TypeOK, TablesInv, LiveInv, OwnInv, StepInv, TodoInv, Handler \/ CommandEnds
  PROVE  TypeOK'
<1> USE DEF TypeOK
<1>1. /\ Len(mem.locks) \in Nat /\ DOMAIN mem.locks = 1 .. Len(mem.locks)
      /\ DOMAIN disk.locks = 1 .. Len(mem.locks)
  BY TableFacts DEF TablesInv
<1>2. CASE TellRecovered
  <2> DEFINE i == FirstOf(work.todo)
  <2>1. i \in 1 .. Len(mem.locks)
    BY <1>1, <1>2, FirstFacts DEF TodoInv, TellRecovered
  <2>2. /\ mem' = Told(mem, i) /\ disk' = mem'
        /\ work' = [work EXCEPT !.todo = work.todo \ {i}]
    BY <1>2 DEF TellRecovered, Save, Told
  <2>3. mem' \in Run /\ Len(mem'.locks) = Len(mem.locks)
    BY <2>1, <2>2, ToldFacts
  <2>4. work' \in Work
    BY <2>2 DEF Work
  <2> QED
    BY <1>1, <1>2, <2>2, <2>3, <2>4, TableFacts DEF TellRecovered, Save
<1>3. CASE RecoverDone
  BY <1>1, <1>3 DEF RecoverDone, Save, Work, Idle, Stages
<1>4. CASE LockConflict
  <2>1. ActiveLock(mem) \in Nat
    BY ActiveFacts DEF LiveInv
  <2>2. mem' \in Run /\ mem'.locks = mem.locks
    BY <1>4, <2>1 DEF LockConflict, Run
  <2> QED
    BY <1>4, <2>2 DEF LockConflict, Work, Idle, Stages
<1>5. CASE AcquireLock
  <2>1. mem' = Taken(mem) /\ disk' = mem' /\ work' = [work EXCEPT !.stage = "adapter"]
    BY <1>5 DEF AcquireLock, Save, Taken
  <2>2. /\ mem' \in Run /\ Len(mem'.locks) = Len(mem.locks) + 1
        /\ DOMAIN mem'.locks = 1 .. Len(mem.locks) + 1
    BY <2>1, TakenFacts, TableFacts
  <2>3. work' \in Work
    BY <2>1 DEF Work, Stages
  <2> QED
    BY <1>1, <1>5, <2>1, <2>2, <2>3 DEF AcquireLock, Save
<1>6. CASE StartCommand
  <2>1. OwnLock \in 1 .. Len(mem.locks)
    BY <1>1, <1>6 DEF StartCommand, OwnInv, Holding, OwnLock
  <2>2. ran' \in [StepIds -> Nat]
    <3> DEFINE id == mem.steps[work.step].id
    <3>1. mem.steps \in Seq(Step) /\ work.step \in 1 .. Len(mem.steps)
      BY <1>6, LenProperties DEF StartCommand, StepInv, Holding, Run
    <3>4. mem.steps[work.step] \in Step
      BY <3>1, ElementOfSeq
    <3>2. id \in StepIds
      BY <3>4 DEF Step
    <3>3. ran' = [ran EXCEPT ![id] = ran[id] + 1]
      BY <1>6 DEF StartCommand
    <3> HIDE DEF id
    <3> QED
      BY <3>2, <3>3
  <2>3. work' \in Work
    BY <1>6 DEF StartCommand, Work, Stages
  <2> QED
    BY <1>1, <1>6, <2>1, <2>2, <2>3 DEF StartCommand
<1>7. CASE RefuseStep
  BY <1>7 DEF RefuseStep, Work, Stages
<1>8. CASE NoAdapter
  <2>1. /\ mem' \in Run /\ disk' \in Run /\ work' \in Work /\ faults' \in Nat
        /\ mem'.locks = mem.locks /\ Len(disk'.locks) = Len(disk.locks)
    BY <1>8, RecordType DEF NoAdapter, Holding
  <2>2. DOMAIN disk'.locks = DOMAIN disk.locks
    BY <2>1, TableFacts
  <2> QED
    BY <1>8, <2>1, <2>2 DEF NoAdapter
<1>9. CASE CommandEnds
  <2>1. /\ mem' \in Run /\ disk' \in Run /\ work' \in Work /\ faults' \in Nat
        /\ mem'.locks = mem.locks /\ Len(disk'.locks) = Len(disk.locks)
    BY <1>9, RecordType DEF CommandEnds, Holding
  <2>2. DOMAIN disk'.locks = DOMAIN disk.locks
    BY <2>1, TableFacts
  <2> QED
    BY <1>9, <2>1, <2>2 DEF CommandEnds
<1>10. CASE LaterWriteFails
  BY <1>10 DEF LaterWriteFails, SaveFails, Work, Stages
<1>11. CASE ReleaseLock \/ FailLock
  <2>1. OwnLock \in 1 .. Len(mem.locks)
    BY <1>1, <1>11 DEF ReleaseLock, FailLock, OwnInv, Holding, OwnLock
  <2>2. ASSUME NEW status \in {"released", "failed"}
        PROVE  /\ Ended(mem, OwnLock, status) \in Run
               /\ Len(Ended(mem, OwnLock, status).locks) = Len(mem.locks)
    BY <2>1, EndedFacts DEF LockStatuses
  <2>3. mem' \in Run /\ disk' \in Run /\ faults' \in Nat
    BY <1>11, <2>2 DEF ReleaseLock, FailLock, Save, SaveFails
  <2>4. Len(mem'.locks) = Len(mem.locks) /\ Len(disk'.locks) = Len(mem.locks)
    BY <1>11, <2>2 DEF ReleaseLock, FailLock, Save, SaveFails, TablesInv
  <2>5. DOMAIN disk'.locks = DOMAIN disk.locks
    BY <1>1, <2>3, <2>4, TableFacts
  <2>6. work' \in Work
    BY <1>11 DEF ReleaseLock, FailLock, Save, SaveFails, Work, Idle, Stages
  <2> QED
    BY <1>11, <2>3, <2>4, <2>5, <2>6 DEF ReleaseLock, FailLock
<1> QED
  BY <1>2, <1>3, <1>4, <1>5, <1>6, <1>7, <1>8, <1>9, <1>10, <1>11 DEF Handler

\* Types: time, a crash, and the commands that lost their parent.
LEMMA WorldType ==
  ASSUME TypeOK, TablesInv, Lapse \/ Crash \/ OrphanEnds
  PROVE  TypeOK'
<1> USE DEF TypeOK
<1>1. Len(mem.locks) \in Nat /\ Len(disk.locks) \in Nat
  BY TableFacts
<1>2. CASE Lapse
  BY <1>1, <1>2 DEF Lapse
<1>3. CASE Crash
  BY <1>1, <1>3 DEF Crash, Work, Idle, Stages
<1>4. CASE OrphanEnds
  BY <1>4 DEF OrphanEnds
<1> QED
  BY <1>2, <1>3, <1>4

-----------------------------------------------------------------------------
\* The facts about the tables that every step needs.
LEMMA Tables ==
  ASSUME TypeOK, TablesInv
  PROVE  /\ Len(mem.locks) \in Nat /\ Len(disk.locks) = Len(mem.locks)
         /\ DOMAIN mem.locks = 1 .. Len(mem.locks)
         /\ DOMAIN disk.locks = 1 .. Len(mem.locks)
         /\ Locked(mem) \subseteq 1 .. Len(mem.locks)
         /\ Locked(disk) \subseteq 1 .. Len(mem.locks)
         /\ Locked(mem) \subseteq Locked(disk)
         /\ \A i \in 1 .. Len(mem.locks) : mem.locks[i].ends \in Nat /\ disk.locks[i].ends \in Nat
         /\ \A i \in 1 .. Len(mem.locks) : /\ i \in Locked(mem) <=> mem.locks[i].status = "locked"
                                          /\ i \in Locked(disk) <=> disk.locks[i].status = "locked"
         /\ OwnLock = Len(mem.locks) /\ lapsed \in Nat /\ lapsed <= Len(mem.locks)
         /\ faults \in Nat /\ commands \subseteq 1 .. Len(mem.locks)
<1>1. /\ Len(mem.locks) \in Nat /\ Len(disk.locks) = Len(mem.locks)
      /\ DOMAIN mem.locks = 1 .. Len(mem.locks)
      /\ DOMAIN disk.locks = 1 .. Len(mem.locks)
      /\ \A i \in 1 .. Len(mem.locks) : mem.locks[i] \in Lock /\ disk.locks[i] \in Lock
  BY TableFacts DEF TypeOK, TablesInv
<1> QED
  BY <1>1 DEF TypeOK, TablesInv, Locked, Lock, OwnLock

\* What EndsInv says of each lock.
LEMMA EndsFacts ==
  ASSUME TypeOK, TablesInv, EndsInv, NEW i \in 1 .. Len(mem.locks)
  PROVE  /\ i \in Locked(mem) => mem.locks[i].ends = 0
         /\ mem.locks[i].ends <= 1 + faults
         /\ i \in Locked(disk) => disk.locks[i].ends = 0
         /\ disk.locks[i].ends <= 1 + faults
<1>1. EndsOk(mem) /\ EndsOk(disk)
  BY DEF EndsInv
<1>2. i \in DOMAIN mem.locks /\ i \in DOMAIN disk.locks
  BY Tables
<1> QED
  BY <1>1, <1>2 DEF EndsOk, Locked

\* A step that leaves the lock table alone and writes the snapshot or fails to.
LEMMA SameLocks ==
  ASSUME IInv, TypeOK', StepInv', OwnInv',
         mem'.locks = mem.locks, mem'.active = mem.active,
         disk' = mem' \/ (disk' = disk /\ faults' = faults + 1) \/ (disk' = disk /\ faults' = faults),
         faults' \in {faults, faults + 1},
         lapsed' = lapsed, commands' \subseteq commands,
         work'.todo = {}, work.todo = {},
         Holding' = Holding, disk' = mem' \/ work'.stage = "failed"
  PROVE  IInv'
<1> USE DEF IInv
<1>1. /\ Len(mem.locks) \in Nat /\ Len(disk.locks) = Len(mem.locks)
      /\ DOMAIN mem.locks = 1 .. Len(mem.locks)
      /\ DOMAIN disk.locks = 1 .. Len(mem.locks)
      /\ Locked(mem) \subseteq 1 .. Len(mem.locks)
      /\ Locked(disk) \subseteq 1 .. Len(mem.locks)
      /\ Locked(mem) \subseteq Locked(disk)
      /\ faults \in Nat /\ commands \subseteq 1 .. Len(mem.locks)
      /\ \A i \in 1 .. Len(mem.locks) : mem.locks[i].ends \in Nat /\ disk.locks[i].ends \in Nat
  BY Tables
<1>2. /\ Locked(mem)' = Locked(mem) /\ Live(mem)' = Live(mem)
      /\ OwnLock' = OwnLock
  BY DEF Locked, Live, OwnLock
<1>3. CASE disk' = mem'
  <2>1. /\ Locked(disk)' = Locked(mem) /\ Live(disk)' = Live(mem)
        /\ disk'.locks = mem.locks /\ disk'.active = mem.active
    BY <1>2, <1>3 DEF Locked, Live
  <2>2. TablesInv' /\ LiveInv' /\ AgreeInv' /\ ActiveFieldAgrees'
    BY <1>2, <1>3, <2>1 DEF TablesInv, LiveInv, AgreeInv, ActiveFieldAgrees
  <2>3. TodoInv' /\ CommandInv'
    BY <1>2, <2>1 DEF TodoInv, CommandInv
  <2>4. EndsInv'
    BY <1>1, <1>3 DEF EndsInv, EndsOk
  <2>5. Left' \subseteq Left
    BY <1>1, <1>2, <2>1 DEF Left
  <2>6. FaultInv'
    BY <1>1, <2>5 DEF FaultInv
  <2>7. ToldInv'
    BY <1>1, <2>1 DEF ToldInv
  <2> QED
    BY <2>2, <2>3, <2>4, <2>6, <2>7
<1>4. CASE disk' = disk
  <2>1. Locked(disk)' = Locked(disk) /\ Live(disk)' = Live(disk)
    BY <1>4 DEF Locked, Live
  <2>8. AgreeInv'
    BY <1>2, <1>4, <2>1 DEF AgreeInv, Live
  <2>2. TablesInv' /\ LiveInv' /\ ActiveFieldAgrees'
    BY <1>2, <1>4, <2>1 DEF TablesInv, LiveInv, ActiveFieldAgrees
  <2>3. TodoInv' /\ CommandInv'
    BY <1>2, <2>1 DEF TodoInv, CommandInv
  <2>4. EndsInv'
    <3>1. EndsOk(mem)'
      BY <1>1 DEF EndsInv, EndsOk
    <3>2. EndsOk(disk)'
      <4> SUFFICES ASSUME NEW i \in 1 .. Len(mem.locks)
                   PROVE  /\ disk.locks[i].status = "locked" => disk.locks[i].ends = 0
                          /\ disk.locks[i].ends <= 1 + faults'
        BY <1>1, <1>4 DEF EndsOk
      <4>1. /\ disk.locks[i].status = "locked" => i \in Locked(disk)
            /\ disk.locks[i].ends \in Nat
        BY <1>1 DEF Locked
      <4> QED
        BY <1>1, <4>1, EndsFacts
    <3> QED
      BY <3>1, <3>2 DEF EndsInv
  <2>5. Left' = Left
    BY <1>2, <2>1 DEF Left
  <2>6. FaultInv'
    BY <1>1, <2>5 DEF FaultInv
  <2>7. ToldInv'
    BY <1>1, <1>4 DEF ToldInv
  <2> QED
    BY <2>2, <2>3, <2>4, <2>6, <2>7, <2>8
<1> QED
  BY <1>3, <1>4

\* Recovery begins: the expired locks end in memory and their events are to come.
LEMMA RecoverStep ==
  ASSUME IInv, RecoverLocks \/ \E s \in 1 .. MaxSteps, retry \in BOOLEAN : Execute(s, retry)
  PROVE  IInv'
<1> USE DEF IInv
<1>2. /\ mem' = Recovered(mem) /\ UNCHANGED <<disk, lapsed, commands, faults>>
      /\ work = Idle /\ work'.stage = "recover" /\ work'.todo = Stale(mem)
      /\ work'.step # 0 => work'.step \in DOMAIN mem.steps
  <2>1. CASE RecoverLocks
    BY <2>1 DEF RecoverLocks, Idle
  <2>2. ASSUME NEW s \in 1 .. MaxSteps, NEW retry \in BOOLEAN, Execute(s, retry)
        PROVE  /\ mem' = Recovered(mem) /\ UNCHANGED <<disk, lapsed, commands, faults>>
               /\ work = Idle /\ work'.stage = "recover" /\ work'.todo = Stale(mem)
               /\ work'.step \in DOMAIN mem.steps
    BY <2>2 DEF Execute
  <2> QED
    BY <2>1, <2>2
<1>3. mem \in Run /\ Live(mem) \subseteq {Len(mem.locks)}
  BY DEF TypeOK, LiveInv
<1>1. /\ Len(mem.locks) \in Nat /\ Len(disk.locks) = Len(mem.locks)
      /\ DOMAIN mem.locks = 1 .. Len(mem.locks)
      /\ DOMAIN disk.locks = 1 .. Len(mem.locks)
      /\ Locked(mem) \subseteq 1 .. Len(mem.locks)
      /\ Locked(disk) \subseteq 1 .. Len(mem.locks)
      /\ Locked(mem) \subseteq Locked(disk)
      /\ \A i \in 1 .. Len(mem.locks) : mem.locks[i].ends \in Nat /\ disk.locks[i].ends \in Nat
      /\ \A i \in 1 .. Len(mem.locks) : /\ i \in Locked(mem) <=> mem.locks[i].status = "locked"
                                       /\ i \in Locked(disk) <=> disk.locks[i].status = "locked"
      /\ OwnLock = Len(mem.locks) /\ lapsed \in Nat /\ lapsed <= Len(mem.locks)
      /\ faults \in Nat /\ commands \subseteq 1 .. Len(mem.locks)
  BY Tables
<1>4. /\ Len(mem'.locks) = Len(mem.locks) /\ Locked(mem)' = Live(mem)
      /\ Live(mem)' = Live(mem) /\ mem'.active = ActiveLock(mem)
      /\ \A i \in 1 .. Len(mem.locks) :
           /\ mem'.locks[i].ends = mem.locks[i].ends
           /\ mem'.locks[i].status = IF i \in Stale(mem) THEN "stale" ELSE mem.locks[i].status
      /\ mem'.steps = mem.steps
  BY <1>2, <1>3, RecoveredFacts DEF Locked, Live
<1>5. mem' \in Run /\ DOMAIN mem'.locks = 1 .. Len(mem.locks)
  BY <1>2, <1>3, <1>4, RecoveredFacts, TableFacts
<1>6. TypeOK'
  BY RequestType
<1>7. Locked(disk)' = Locked(disk) /\ Live(disk)' = Live(disk) /\ Left' = Left
  BY <1>2 DEF Locked, Live, Left, Holding, Idle
<1>8. TablesInv' /\ LiveInv' /\ AgreeInv'
  BY <1>1, <1>2, <1>4, <1>7 DEF TablesInv, LiveInv, AgreeInv, Live, Idle
<1>9. OwnInv' /\ StepInv'
  BY <1>2, <1>4 DEF OwnInv, StepInv, Holding
<1>10. TodoInv'
  <2>1. \A i \in Stale(mem) : i \in Locked(mem)
    BY DEF Stale
  <2>2. ASSUME NEW i \in Stale(mem) PROVE mem.locks[i].ends = 0
    <3>1. i \in DOMAIN mem.locks /\ mem.locks[i].status = "locked"
      BY <2>1 DEF Locked
    <3> QED
      BY <3>1 DEF EndsInv, EndsOk
  <2> QED
    BY <1>1, <1>2, <1>4, <1>5, <1>7, <2>1, <2>2 DEF TodoInv
<1>11. CommandInv'
  BY <1>2, <1>4, <1>7 DEF CommandInv, Live
<1>12. ActiveFieldAgrees'
  <2>1. /\ mem'.active # 0 => mem'.active \in Locked(mem)'
        /\ \A i \in Live(mem)' : mem'.active = i
    BY <1>3, <1>4, ActiveFacts
  <2> QED
    BY <1>2, <1>7, <2>1 DEF ActiveFieldAgrees
<1>13. EndsInv'
  <2>1. EndsOk(mem)'
    <3> SUFFICES ASSUME NEW i \in 1 .. Len(mem.locks)
                 PROVE  /\ mem'.locks[i].status = "locked" => mem'.locks[i].ends = 0
                        /\ mem'.locks[i].ends <= 1 + faults
      BY <1>2, <1>5 DEF EndsOk
    <3>1. mem'.locks[i].status = "locked" => i \in Locked(mem)
      <4>1. CASE i \in Stale(mem)
        BY <1>4, <4>1
      <4>2. CASE i \notin Stale(mem)
        BY <1>1, <1>4, <4>2 DEF Locked
      <4> QED
        BY <4>1, <4>2
    <3> QED
      BY <1>4, <3>1, EndsFacts
  <2>2. EndsOk(disk)'
    BY <1>2 DEF EndsInv, EndsOk
  <2> QED
    BY <2>1, <2>2 DEF EndsInv
<1>14. FaultInv'
  BY <1>2, <1>7 DEF FaultInv
<1>15. ToldInv'
  BY <1>1, <1>2, <1>4, <1>5 DEF ToldInv, Idle
<1> QED
  BY <1>6, <1>8, <1>9, <1>10, <1>11, <1>12, <1>13, <1>14, <1>15

\* The event of one recovered lock: memory is saved with all the marks recovery made,
\* so that a crash now loses the events still to come.
LEMMA TellStep == ASSUME IInv, TellRecovered PROVE IInv'
<1> USE DEF IInv
<1> DEFINE i == FirstOf(work.todo)
<1>1. /\ Len(mem.locks) \in Nat /\ Len(disk.locks) = Len(mem.locks)
      /\ DOMAIN mem.locks = 1 .. Len(mem.locks)
      /\ DOMAIN disk.locks = 1 .. Len(mem.locks)
      /\ Locked(mem) \subseteq 1 .. Len(mem.locks)
      /\ Locked(disk) \subseteq 1 .. Len(mem.locks)
      /\ Locked(mem) \subseteq Locked(disk)
      /\ \A k \in 1 .. Len(mem.locks) : mem.locks[k].ends \in Nat /\ disk.locks[k].ends \in Nat
      /\ \A k \in 1 .. Len(mem.locks) : /\ k \in Locked(mem) <=> mem.locks[k].status = "locked"
                                       /\ k \in Locked(disk) <=> disk.locks[k].status = "locked"
      /\ OwnLock = Len(mem.locks) /\ lapsed \in Nat /\ lapsed <= Len(mem.locks)
      /\ faults \in Nat /\ commands \subseteq 1 .. Len(mem.locks)
  BY Tables
<1>2. /\ work.stage = "recover" /\ work.todo # {}
      /\ mem' = Told(mem, i) /\ disk' = mem'
      /\ work' = [work EXCEPT !.todo = work.todo \ {i}]
      /\ UNCHANGED <<lapsed, commands, faults>>
  BY DEF TellRecovered, Save, Told
<1>3. /\ i \in work.todo /\ i \in 1 .. Len(mem.locks)
      /\ mem.locks[i].status # "locked" /\ mem.locks[i].ends = 0
  BY <1>1, <1>2, FirstFacts DEF TodoInv
<1>4. /\ work'.stage = "recover" /\ work'.todo = work.todo \ {i} /\ work'.step = work.step
  BY <1>2 DEF TypeOK, Work
<1>5. /\ mem' \in Run /\ Len(mem'.locks) = Len(mem.locks)
      /\ Locked(mem)' = Locked(mem) /\ mem'.active = mem.active
      /\ mem'.locks[i].status = mem.locks[i].status
      /\ mem'.locks[i].ends = mem.locks[i].ends + 1
      /\ \A j \in 1 .. Len(mem.locks) : j # i => mem'.locks[j] = mem.locks[j]
      /\ mem'.steps = mem.steps
  BY <1>2, <1>3, ToldFacts DEF TypeOK, Locked
<1>6. DOMAIN mem'.locks = 1 .. Len(mem.locks)
  BY <1>5, TableFacts
<1>7. TypeOK'
  BY HandlerType DEF Handler
<1>8. /\ Locked(disk)' = Locked(mem) /\ Live(disk)' = Live(mem) /\ Live(mem)' = Live(mem)
  BY <1>2, <1>5 DEF Locked, Live
<1>9. TablesInv' /\ LiveInv' /\ AgreeInv' /\ ActiveFieldAgrees'
  BY <1>2, <1>5, <1>8 DEF TablesInv, LiveInv, AgreeInv, ActiveFieldAgrees
<1>10. OwnInv' /\ StepInv'
  BY <1>4, <1>5 DEF OwnInv, StepInv, Holding
<1>11. work'.todo # {} => faults >= 2
  <2> SUFFICES ASSUME NEW j \in work.todo, j # i PROVE faults >= 2
    BY <1>4
  <2>1. CASE work.todo \subseteq Locked(disk)
    BY <1>2, <1>3, <2>1 DEF FaultInv, Left, Holding
  <2> QED
    BY <2>1 DEF TodoInv
<1>12. TodoInv'
  BY <1>1, <1>2, <1>3, <1>4, <1>5, <1>6, <1>11 DEF TodoInv
<1>13. CommandInv'
  BY <1>2, <1>5, <1>8 DEF CommandInv
<1>14. EndsInv'
  BY <1>1, <1>2, <1>3, <1>5, <1>6 DEF EndsInv, EndsOk
<1>15. FaultInv'
  <2>1. Left' \subseteq Left
    BY <1>1, <1>2, <1>4, <1>8 DEF Left, Holding
  <2> QED
    BY <1>2, <2>1 DEF FaultInv
<1>16. ToldInv'
  <2> SUFFICES ASSUME faults < 3, NEW j \in 1 .. Len(mem.locks), mem'.locks[j].status # "locked"
               PROVE  mem'.locks[j].ends > 0 \/ (j \in work'.todo /\ faults >= 2)
    BY <1>2, <1>6 DEF ToldInv
  <2>1. CASE j = i
    BY <1>3, <1>5, <2>1
  <2>2. CASE j # i
    <3>1. mem.locks[j].ends > 0 \/ j \in work.todo
      BY <1>1, <1>5, <2>2 DEF ToldInv
    <3> QED
      BY <1>4, <1>5, <1>11, <2>2, <3>1
  <2> QED
    BY <2>1, <2>2
<1> QED
  BY <1>7, <1>9, <1>10, <1>12, <1>13, <1>14, <1>15, <1>16

\* The answer to a conflict names the live lock in active_execution_lock.
LEMMA ConflictStep == ASSUME IInv, LockConflict PROVE IInv'
<1> USE DEF IInv
<1>1. /\ Len(mem.locks) \in Nat /\ Len(disk.locks) = Len(mem.locks)
      /\ DOMAIN mem.locks = 1 .. Len(mem.locks)
      /\ DOMAIN disk.locks = 1 .. Len(mem.locks)
      /\ Locked(mem) \subseteq 1 .. Len(mem.locks)
      /\ Locked(disk) \subseteq 1 .. Len(mem.locks)
      /\ Locked(mem) \subseteq Locked(disk)
      /\ \A i \in 1 .. Len(mem.locks) : mem.locks[i].ends \in Nat /\ disk.locks[i].ends \in Nat
      /\ \A i \in 1 .. Len(mem.locks) : /\ i \in Locked(mem) <=> mem.locks[i].status = "locked"
                                       /\ i \in Locked(disk) <=> disk.locks[i].status = "locked"
      /\ OwnLock = Len(mem.locks) /\ lapsed \in Nat /\ lapsed <= Len(mem.locks)
      /\ faults \in Nat /\ commands \subseteq 1 .. Len(mem.locks)
  BY Tables
<1>2. /\ ActiveLock(mem) # 0 /\ mem' = [mem EXCEPT !.active = ActiveLock(mem)]
      /\ work' = Idle /\ work.todo = {} /\ work.stage = "recover"
      /\ UNCHANGED <<disk, lapsed, commands, faults>>
  BY DEF LockConflict
<1>3. mem'.locks = mem.locks /\ mem'.active = ActiveLock(mem) /\ mem'.steps = mem.steps
  BY <1>2 DEF TypeOK, Run
<1>4. TypeOK'
  BY HandlerType DEF Handler
<1>5. /\ Locked(mem)' = Locked(mem) /\ Live(mem)' = Live(mem)
      /\ Locked(disk)' = Locked(disk) /\ Live(disk)' = Live(disk) /\ Left' = Left
  BY <1>2, <1>3 DEF Locked, Live, Left, Holding, Idle
<1>6. TablesInv' /\ LiveInv' /\ AgreeInv' /\ CommandInv'
  BY <1>2, <1>3, <1>5 DEF TablesInv, LiveInv, AgreeInv, CommandInv
<1>7. OwnInv' /\ StepInv' /\ TodoInv' /\ FaultInv'
  BY <1>2, <1>5 DEF OwnInv, StepInv, TodoInv, FaultInv, Holding, Idle
<1>8. ActiveFieldAgrees'
  <2>1. mem'.active \in Locked(mem)' /\ \A i \in Live(mem)' : mem'.active = i
    BY <1>2, <1>3, <1>5, ActiveFacts DEF TypeOK, LiveInv, Live
  <2> QED
    BY <1>2, <1>5, <2>1 DEF ActiveFieldAgrees
<1>9. EndsInv' /\ ToldInv'
  BY <1>2, <1>3 DEF EndsInv, EndsOk, ToldInv, Idle
<1> QED
  BY <1>4, <1>6, <1>7, <1>8, <1>9

\* A lock is taken when none is live: it is the newest one, on disk and in memory.
LEMMA AcquireStep == ASSUME IInv, AcquireLock PROVE IInv'
<1> USE DEF IInv
<1> DEFINE own == Len(mem.locks) + 1
<1>1. /\ Len(mem.locks) \in Nat /\ Len(disk.locks) = Len(mem.locks)
      /\ DOMAIN mem.locks = 1 .. Len(mem.locks)
      /\ DOMAIN disk.locks = 1 .. Len(mem.locks)
      /\ Locked(mem) \subseteq 1 .. Len(mem.locks)
      /\ Locked(disk) \subseteq 1 .. Len(mem.locks)
      /\ Locked(mem) \subseteq Locked(disk)
      /\ \A i \in 1 .. Len(mem.locks) : mem.locks[i].ends \in Nat /\ disk.locks[i].ends \in Nat
      /\ \A i \in 1 .. Len(mem.locks) : /\ i \in Locked(mem) <=> mem.locks[i].status = "locked"
                                       /\ i \in Locked(disk) <=> disk.locks[i].status = "locked"
      /\ OwnLock = Len(mem.locks) /\ lapsed \in Nat /\ lapsed <= Len(mem.locks)
      /\ faults \in Nat /\ commands \subseteq 1 .. Len(mem.locks)
  BY Tables
<1>2. /\ ActiveLock(mem) = 0 /\ mem' = Taken(mem) /\ disk' = mem'
      /\ work' = [work EXCEPT !.stage = "adapter"]
      /\ work.stage = "recover" /\ work.todo = {} /\ work.step # 0
      /\ UNCHANGED <<lapsed, commands, faults>>
  BY DEF AcquireLock, Save, Taken
<1>3. /\ work'.stage = "adapter" /\ work'.todo = {} /\ work'.step = work.step
  BY <1>2 DEF TypeOK, Work
<1>4. Live(mem) = {}
  BY <1>2, ActiveFacts DEF TypeOK, LiveInv
<1>5. /\ mem' \in Run /\ Len(mem'.locks) = own
      /\ Locked(mem)' = Locked(mem) \cup {own} /\ mem'.active = own
      /\ mem'.locks[own] = [status |-> "locked", ends |-> 0]
      /\ \A j \in 1 .. Len(mem.locks) : mem'.locks[j] = mem.locks[j]
      /\ mem'.steps = mem.steps
  BY <1>2, TakenFacts DEF TypeOK, Locked
<1>6. DOMAIN mem'.locks = 1 .. own
  BY <1>5, TableFacts
<1>7. TypeOK'
  BY HandlerType DEF Handler
<1>8. /\ Locked(disk)' = Locked(mem) \cup {own}
      /\ Live(disk)' = {own} /\ Live(mem)' = {own} /\ OwnLock' = own
  BY <1>1, <1>2, <1>4, <1>5 DEF Locked, Live, OwnLock
<1>9. TablesInv' /\ LiveInv' /\ AgreeInv' /\ ActiveFieldAgrees'
  BY <1>2, <1>5, <1>8 DEF TablesInv, LiveInv, AgreeInv, ActiveFieldAgrees
<1>10. OwnInv' /\ StepInv' /\ TodoInv'
  BY <1>1, <1>2, <1>3, <1>5, <1>8 DEF OwnInv, StepInv, TodoInv, Holding
<1>11. CommandInv'
  BY <1>1, <1>2, <1>4, <1>5, <1>8 DEF CommandInv
<1>12. EndsInv'
  <2>1. \A i \in 1 .. own : /\ mem'.locks[i].status = "locked" => mem'.locks[i].ends = 0
                            /\ mem'.locks[i].ends <= 1 + faults
    <3>1. ASSUME NEW i \in 1 .. own
          PROVE  /\ mem'.locks[i].status = "locked" => mem'.locks[i].ends = 0
                 /\ mem'.locks[i].ends <= 1 + faults
      <4>1. CASE i = own
        BY <1>1, <1>5, <4>1
      <4>2. CASE i \in 1 .. Len(mem.locks)
        BY <1>1, <1>5, <4>2 DEF EndsInv, EndsOk
      <4> QED
        BY <1>1, <4>1, <4>2
    <3> QED
      BY <3>1
  <2> QED
    BY <1>2, <1>6, <2>1 DEF EndsInv, EndsOk
<1>13. FaultInv'
  <2>1. Left' \subseteq Left
    BY <1>1, <1>2, <1>3, <1>8 DEF Left, Holding
  <2> QED
    BY <1>2, <2>1 DEF FaultInv
<1>14. ToldInv'
  <2> SUFFICES ASSUME faults < 3, NEW i \in 1 .. own, mem'.locks[i].status # "locked"
               PROVE  mem'.locks[i].ends > 0
    BY <1>2, <1>6 DEF ToldInv
  <2>1. i \in 1 .. Len(mem.locks)
    BY <1>1, <1>5
  <2> QED
    BY <1>1, <1>2, <1>5, <2>1 DEF ToldInv
<1> QED
  BY <1>7, <1>9, <1>10, <1>11, <1>12, <1>13, <1>14

\* The command starts under the newest lock.
LEMMA StartStep == ASSUME IInv, StartCommand PROVE IInv'
<1> USE DEF IInv
<1>1. /\ Len(mem.locks) \in Nat /\ Len(disk.locks) = Len(mem.locks)
      /\ DOMAIN mem.locks = 1 .. Len(mem.locks)
      /\ DOMAIN disk.locks = 1 .. Len(mem.locks)
      /\ Locked(mem) \subseteq 1 .. Len(mem.locks)
      /\ Locked(disk) \subseteq 1 .. Len(mem.locks)
      /\ Locked(mem) \subseteq Locked(disk)
      /\ \A i \in 1 .. Len(mem.locks) : mem.locks[i].ends \in Nat /\ disk.locks[i].ends \in Nat
      /\ \A i \in 1 .. Len(mem.locks) : /\ i \in Locked(mem) <=> mem.locks[i].status = "locked"
                                       /\ i \in Locked(disk) <=> disk.locks[i].status = "locked"
      /\ OwnLock = Len(mem.locks) /\ lapsed \in Nat /\ lapsed <= Len(mem.locks)
      /\ faults \in Nat /\ commands \subseteq 1 .. Len(mem.locks)
  BY Tables
<1>2. /\ work.stage = "adapter" /\ work' = [work EXCEPT !.stage = "running"]
      /\ commands' = commands \cup {OwnLock}
      /\ UNCHANGED <<mem, disk, lapsed, faults>>
  BY DEF StartCommand
<1>3. work'.stage = "running" /\ work'.todo = work.todo /\ work'.step = work.step
  BY <1>2 DEF TypeOK, Work
<1>4. TypeOK'
  BY HandlerType DEF Handler
<1>5. /\ Locked(mem)' = Locked(mem) /\ Live(mem)' = Live(mem)
      /\ Locked(disk)' = Locked(disk) /\ Live(disk)' = Live(disk) /\ Left' = Left
      /\ OwnLock' = OwnLock
  BY <1>2, <1>3 DEF Locked, Live, Left, Holding, OwnLock
<1>6. TablesInv' /\ LiveInv' /\ AgreeInv' /\ ActiveFieldAgrees' /\ EndsInv' /\ FaultInv'
      /\ ToldInv'
  BY <1>2, <1>3, <1>5
     DEF TablesInv, LiveInv, AgreeInv, ActiveFieldAgrees, EndsInv, EndsOk, FaultInv, ToldInv
<1>7. OwnInv' /\ StepInv' /\ TodoInv'
  BY <1>2, <1>3, <1>5 DEF OwnInv, StepInv, TodoInv, Holding
<1>8. CommandInv'
  BY <1>1, <1>2, <1>5 DEF CommandInv, OwnInv
<1> QED
  BY <1>4, <1>6, <1>7, <1>8

\* ensureExecutableStep throws, an adapter is missing, a command ends, a later write fails:
\* the lock table is as it was, and the lock no longer has a command.
LEMMA StageStep ==
  ASSUME IInv, RefuseStep \/ NoAdapter \/ CommandEnds \/ LaterWriteFails
  PROVE  IInv'
<1> USE DEF IInv
<1>1. /\ Len(mem.locks) \in Nat /\ Len(disk.locks) = Len(mem.locks)
      /\ DOMAIN mem.locks = 1 .. Len(mem.locks)
      /\ DOMAIN disk.locks = 1 .. Len(mem.locks)
      /\ Locked(mem) \subseteq 1 .. Len(mem.locks)
      /\ Locked(disk) \subseteq 1 .. Len(mem.locks)
      /\ Locked(mem) \subseteq Locked(disk)
      /\ \A i \in 1 .. Len(mem.locks) : mem.locks[i].ends \in Nat /\ disk.locks[i].ends \in Nat
      /\ \A i \in 1 .. Len(mem.locks) : /\ i \in Locked(mem) <=> mem.locks[i].status = "locked"
                                       /\ i \in Locked(disk) <=> disk.locks[i].status = "locked"
      /\ OwnLock = Len(mem.locks) /\ lapsed \in Nat /\ lapsed <= Len(mem.locks)
      /\ faults \in Nat /\ commands \subseteq 1 .. Len(mem.locks)
  BY Tables
<1>2. /\ work.stage \in {"adapter", "running", "recorded"}
      /\ OwnLock \in Locked(mem) /\ mem.locks[OwnLock].ends = 0
      /\ work.todo = {} /\ work.step \in DOMAIN mem.steps /\ work.step # 0
  <2>1. work.stage \in {"adapter", "running", "recorded"}
    BY DEF RefuseStep, NoAdapter, CommandEnds, LaterWriteFails
  <2>2. OwnLock \in Locked(mem)
    BY <2>1 DEF OwnInv
  <2>3. mem.locks[OwnLock].ends = 0
    BY <1>1, <2>2, EndsFacts
  <2> QED
    BY <2>1, <2>2, <2>3 DEF TodoInv, StepInv, Holding
<1>3. TypeOK'
  BY HandlerType DEF Handler
<1>4. ASSUME NEW status \in {"completed", "failed"}
      PROVE  /\ Executed(status).locks = mem.locks /\ Executed(status).active = mem.active
             /\ DOMAIN Executed(status).steps = DOMAIN mem.steps
  BY <1>2, ExecutedFacts DEF Executed, TypeOK, Run
<1>5. \/ /\ \/ work' = [work EXCEPT !.stage = "recorded"] /\ disk' = mem' /\ faults' = faults
            \/ work' = [work EXCEPT !.stage = "failed"] /\ disk' = disk /\ faults' = faults + 1
         /\ mem'.locks = mem.locks /\ mem'.active = mem.active
         /\ DOMAIN mem'.steps = DOMAIN mem.steps
      \/ /\ work' = [work EXCEPT !.stage = "failed"] /\ UNCHANGED <<mem, disk, faults>>
  <2>1. ASSUME NEW status \in {"completed", "failed"}, RecordExecution(status)
        PROVE  /\ \/ work' = [work EXCEPT !.stage = "recorded"] /\ disk' = mem' /\ faults' = faults
                  \/ work' = [work EXCEPT !.stage = "failed"] /\ disk' = disk /\ faults' = faults + 1
               /\ mem'.locks = mem.locks /\ mem'.active = mem.active
               /\ DOMAIN mem'.steps = DOMAIN mem.steps
    BY <1>4, <2>1 DEF RecordExecution, Save, SaveFails
  <2>2. CASE RefuseStep
    BY <2>2 DEF RefuseStep
  <2>3. CASE NoAdapter
    BY <2>1, <2>3 DEF NoAdapter
  <2>4. CASE CommandEnds
    BY <2>1, <2>4 DEF CommandEnds
  <2>5. CASE LaterWriteFails
    BY <2>5 DEF LaterWriteFails, SaveFails
  <2> QED
    BY <2>2, <2>3, <2>4, <2>5
<1>6. /\ mem'.locks = mem.locks /\ mem'.active = mem.active
      /\ DOMAIN mem'.steps = DOMAIN mem.steps
      /\ work'.stage \in {"recorded", "failed"} /\ work'.todo = {} /\ work'.step = work.step
      /\ faults' \in {faults, faults + 1}
      /\ disk' = mem' \/ (disk' = disk /\ faults' = faults + 1) \/ (disk' = disk /\ faults' = faults)
      /\ disk' = mem' \/ work'.stage = "failed"
  BY <1>2, <1>5 DEF TypeOK, Work
<1>7. lapsed' = lapsed /\ commands' \subseteq commands /\ OwnLock \notin commands'
  BY <1>2 DEF RefuseStep, NoAdapter, CommandEnds, LaterWriteFails, OwnInv
<1>8. Holding' = Holding /\ OwnLock' = OwnLock /\ Locked(mem)' = Locked(mem)
  BY <1>2, <1>6 DEF Holding, OwnLock, Locked
<1>9. OwnInv' /\ StepInv'
  BY <1>1, <1>2, <1>6, <1>7, <1>8 DEF OwnInv, StepInv, Holding
<1> QED
  BY <1>2, <1>3, <1>5, <1>6, <1>7, <1>8, <1>9, SameLocks

\* A step is recorded, or the recover endpoint answers: nothing about the locks but the
\* write itself.
LEMMA PlainStep == ASSUME IInv, RecordStep \/ RecoverDone PROVE IInv'
<1> USE DEF IInv
<1>1. TypeOK'
  BY RequestType, HandlerType DEF Handler
<1>2. /\ mem'.locks = mem.locks /\ mem'.active = mem.active /\ disk' = mem'
      /\ work' = Idle /\ work.todo = {} /\ work.stage \in {"idle", "recover"}
      /\ UNCHANGED <<lapsed, commands, faults>>
  <2>1. CASE RecordStep
    BY <2>1 DEF RecordStep, Save, TypeOK, Run, Idle
  <2>2. CASE RecoverDone
    BY <2>2 DEF RecoverDone, Save
  <2> QED
    BY <2>1, <2>2
<1>3. OwnInv' /\ StepInv' /\ Holding' = Holding /\ work'.todo = {}
  BY <1>2 DEF OwnInv, StepInv, Holding, Idle
<1> QED
  BY <1>1, <1>2, <1>3, SameLocks DEF TypeOK

\* The callback's lock ends, in the try block or in the catch block, with or without its
\* write; only the second end of one lock takes a fault.
LEMMA EndStep == ASSUME IInv, ReleaseLock \/ FailLock PROVE IInv'
<1> USE DEF IInv
<1>1. /\ Len(mem.locks) \in Nat /\ Len(disk.locks) = Len(mem.locks)
      /\ DOMAIN mem.locks = 1 .. Len(mem.locks)
      /\ DOMAIN disk.locks = 1 .. Len(mem.locks)
      /\ Locked(mem) \subseteq 1 .. Len(mem.locks)
      /\ Locked(disk) \subseteq 1 .. Len(mem.locks)
      /\ Locked(mem) \subseteq Locked(disk)
      /\ \A i \in 1 .. Len(mem.locks) : mem.locks[i].ends \in Nat /\ disk.locks[i].ends \in Nat
      /\ \A i \in 1 .. Len(mem.locks) : /\ i \in Locked(mem) <=> mem.locks[i].status = "locked"
                                       /\ i \in Locked(disk) <=> disk.locks[i].status = "locked"
      /\ OwnLock = Len(mem.locks) /\ lapsed \in Nat /\ lapsed <= Len(mem.locks)
      /\ faults \in Nat /\ commands \subseteq 1 .. Len(mem.locks)
  BY Tables
<1>2. PICK status \in {"released", "failed"} :
        /\ mem' = Ended(mem, OwnLock, status)
        /\ \/ disk' = mem' /\ work' = Idle /\ faults' = faults
           \/ /\ work.stage = "recorded" /\ disk' = disk
              /\ work' = [work EXCEPT !.stage = "failed"] /\ faults' = faults + 1
  BY DEF ReleaseLock, FailLock, Save, SaveFails
<1>3. /\ work.stage \in {"recorded", "failed"} /\ work.todo = {}
      /\ OwnLock \in 1 .. Len(mem.locks) /\ OwnLock \notin commands
      /\ UNCHANGED <<lapsed, commands>>
      /\ work.step \in DOMAIN mem.steps
  BY <1>1 DEF ReleaseLock, FailLock, OwnInv, TodoInv, StepInv, Holding
<1>4. /\ mem' \in Run /\ Len(mem'.locks) = Len(mem.locks)
      /\ Locked(mem)' = Locked(mem) \ {OwnLock} /\ mem'.active = 0
      /\ mem'.locks[OwnLock].status # "locked"
      /\ mem'.locks[OwnLock].ends = mem.locks[OwnLock].ends + 1
      /\ \A j \in 1 .. Len(mem.locks) : j # OwnLock => mem'.locks[j] = mem.locks[j]
      /\ mem'.steps = mem.steps
  BY <1>2, <1>3, EndedFacts DEF TypeOK, LockStatuses, Locked
<1>5. DOMAIN mem'.locks = 1 .. Len(mem.locks) /\ OwnLock' = OwnLock
  BY <1>1, <1>4, TableFacts DEF OwnLock
<1>6. TypeOK'
  BY HandlerType DEF Handler
<1>7. mem.locks[OwnLock].ends <= faults
  BY <1>1, <1>3, EndsFacts DEF OwnInv
<1>8. Live(mem)' = {}
  BY <1>1, <1>3, <1>4 DEF Live, LiveInv
<1>9. work.stage = "recorded" => mem.locks[OwnLock].ends = 0
  BY <1>1, <1>3, EndsFacts DEF OwnInv
<1>10. EndsOk(mem)'
  <2> SUFFICES ASSUME NEW j \in 1 .. Len(mem.locks)
               PROVE  /\ mem'.locks[j].status = "locked" => mem'.locks[j].ends = 0
                      /\ mem'.locks[j].ends <= 1 + faults'
    BY <1>5 DEF EndsOk
  <2>1. faults' \in {faults, faults + 1}
    BY <1>2
  <2>2. CASE j = OwnLock
    BY <1>1, <1>4, <1>7, <2>1, <2>2
  <2>3. CASE j # OwnLock
    <3>1. mem'.locks[j] = mem.locks[j] /\ mem.locks[j].ends \in Nat
      BY <1>1, <1>4, <2>3
    <3>2. mem.locks[j].status = "locked" => j \in Locked(mem)
      BY <1>1 DEF Locked
    <3> QED
      BY <1>1, <2>1, <3>1, <3>2, EndsFacts
  <2> QED
    BY <2>2, <2>3
<1>11. faults < 3 => \A i \in 1 .. Len(mem.locks) :
         mem'.locks[i].status # "locked" => mem'.locks[i].ends > 0
  <2> SUFFICES ASSUME faults < 3, NEW i \in 1 .. Len(mem.locks), mem'.locks[i].status # "locked"
               PROVE  mem'.locks[i].ends > 0
    OBVIOUS
  <2>1. CASE i = OwnLock
    BY <1>1, <1>4, <2>1
  <2>2. CASE i # OwnLock
    BY <1>1, <1>3, <1>4, <2>2 DEF ToldInv
  <2> QED
    BY <2>1, <2>2
<1>12. CASE disk' = mem' /\ work' = Idle /\ faults' = faults
  <2>1. /\ Locked(disk)' = Locked(mem) \ {OwnLock} /\ Live(disk)' = {}
    BY <1>4, <1>8, <1>12 DEF Locked, Live
  <2>2. TablesInv' /\ LiveInv' /\ AgreeInv' /\ ActiveFieldAgrees' /\ CommandInv'
    BY <1>3, <1>4, <1>8, <1>12, <2>1
       DEF TablesInv, LiveInv, AgreeInv, ActiveFieldAgrees, CommandInv
  <2>3. OwnInv' /\ StepInv' /\ TodoInv'
    BY <1>12 DEF OwnInv, StepInv, TodoInv, Holding, Idle
  <2>4. EndsInv' /\ ToldInv'
    BY <1>5, <1>10, <1>11, <1>12 DEF EndsInv, EndsOk, ToldInv
  <2>5. Left' \subseteq Left
    BY <1>1, <1>12, <2>1 DEF Left, Holding, Idle
  <2> QED
    BY <1>6, <1>12, <2>2, <2>3, <2>4, <2>5 DEF FaultInv
<1>13. CASE /\ work.stage = "recorded" /\ disk' = disk
            /\ work' = [work EXCEPT !.stage = "failed"] /\ faults' = faults + 1
  <2>1. work'.stage = "failed" /\ work'.todo = {} /\ work'.step = work.step
    BY <1>3, <1>13 DEF TypeOK, Work
  <2>2. /\ Locked(disk)' = Locked(disk) /\ Live(disk)' = Live(disk) /\ Left' = Left
    BY <1>3, <1>5, <1>13, <2>1 DEF Locked, Live, Left, Holding
  <2>3. TablesInv' /\ LiveInv' /\ AgreeInv' /\ CommandInv'
    BY <1>1, <1>3, <1>4, <1>8, <1>13, <2>1, <2>2 DEF TablesInv, LiveInv, AgreeInv, CommandInv
  <2>4. ActiveFieldAgrees'
    BY <1>4, <1>8, <1>13, <2>2 DEF ActiveFieldAgrees
  <2>5. OwnInv'
    BY <1>1, <1>3, <1>4, <1>5, <1>9, <1>13, <2>1 DEF OwnInv, Holding
  <2>6. StepInv' /\ TodoInv'
    BY <1>3, <1>4, <2>1 DEF StepInv, TodoInv, Holding
  <2>7. EndsOk(disk)'
    BY <1>1, <1>13 DEF EndsInv, EndsOk
  <2>8. FaultInv'
    BY <1>1, <1>13, <2>2 DEF FaultInv
  <2>9. ToldInv'
    <3>1. faults' < 3 => faults < 3
      BY <1>13 DEF TypeOK
    <3>2. ASSUME faults < 3, NEW i \in DOMAIN disk.locks, disk.locks[i].status # "locked"
          PROVE  disk.locks[i].ends > 0
      BY <1>1, <1>3, <3>2 DEF ToldInv
    <3> QED
      BY <1>3, <1>5, <1>11, <1>13, <3>1, <3>2 DEF ToldInv
  <2> QED
    BY <1>6, <1>10, <2>3, <2>4, <2>5, <2>6, <2>7, <2>8, <2>9 DEF EndsInv
<1> QED
  BY <1>2, <1>12, <1>13

\* Time passes.
LEMMA LapseStep == ASSUME IInv, Lapse PROVE IInv'
<1> USE DEF IInv
<1>1. /\ Len(mem.locks) \in Nat /\ Len(disk.locks) = Len(mem.locks)
      /\ DOMAIN mem.locks = 1 .. Len(mem.locks)
      /\ DOMAIN disk.locks = 1 .. Len(mem.locks)
      /\ Locked(mem) \subseteq 1 .. Len(mem.locks)
      /\ Locked(disk) \subseteq 1 .. Len(mem.locks)
      /\ Locked(mem) \subseteq Locked(disk)
      /\ \A i \in 1 .. Len(mem.locks) : mem.locks[i].ends \in Nat /\ disk.locks[i].ends \in Nat
      /\ \A i \in 1 .. Len(mem.locks) : /\ i \in Locked(mem) <=> mem.locks[i].status = "locked"
                                       /\ i \in Locked(disk) <=> disk.locks[i].status = "locked"
      /\ OwnLock = Len(mem.locks) /\ lapsed \in Nat /\ lapsed <= Len(mem.locks)
      /\ faults \in Nat /\ commands \subseteq 1 .. Len(mem.locks)
  BY Tables
<1>2. lapsed' = lapsed + 1 /\ UNCHANGED <<mem, disk, work, commands, ran, faults>>
  BY DEF Lapse
<1>3. TypeOK'
  BY WorldType
<1>4. /\ Locked(mem)' = Locked(mem) /\ Locked(disk)' = Locked(disk)
      /\ Live(mem)' \subseteq Live(mem) /\ Live(disk)' \subseteq Live(disk)
      /\ Left' = Left /\ OwnLock' = OwnLock
  BY <1>1, <1>2 DEF Locked, Live, Left, Holding, OwnLock
<1>5. TablesInv' /\ OwnInv' /\ StepInv' /\ TodoInv' /\ EndsInv' /\ FaultInv' /\ ToldInv'
  BY <1>2, <1>4 DEF TablesInv, OwnInv, StepInv, TodoInv, EndsInv, EndsOk, FaultInv, ToldInv,
                    Holding
<1>6. LiveInv' /\ ActiveFieldAgrees'
  BY <1>2, <1>4 DEF LiveInv, ActiveFieldAgrees
<1>8. AgreeInv'
  BY <1>1, <1>2, <1>4 DEF AgreeInv, Live
<1>7. CommandInv'
  BY <1>1, <1>2, <1>4 DEF CommandInv
<1> QED
  BY <1>3, <1>5, <1>6, <1>7, <1>8

\* A crash: memory is the snapshot again, and the lock of a callback is left behind.
LEMMA CrashStep == ASSUME IInv, Crash PROVE IInv'
<1> USE DEF IInv
<1>1. /\ Len(mem.locks) \in Nat /\ Len(disk.locks) = Len(mem.locks)
      /\ DOMAIN mem.locks = 1 .. Len(mem.locks)
      /\ DOMAIN disk.locks = 1 .. Len(mem.locks)
      /\ Locked(mem) \subseteq 1 .. Len(mem.locks)
      /\ Locked(disk) \subseteq 1 .. Len(mem.locks)
      /\ Locked(mem) \subseteq Locked(disk)
      /\ \A i \in 1 .. Len(mem.locks) : mem.locks[i].ends \in Nat /\ disk.locks[i].ends \in Nat
      /\ \A i \in 1 .. Len(mem.locks) : /\ i \in Locked(mem) <=> mem.locks[i].status = "locked"
                                       /\ i \in Locked(disk) <=> disk.locks[i].status = "locked"
      /\ OwnLock = Len(mem.locks) /\ lapsed \in Nat /\ lapsed <= Len(mem.locks)
      /\ faults \in Nat /\ commands \subseteq 1 .. Len(mem.locks)
  BY Tables
<1>2. /\ mem' = disk /\ disk' = disk /\ work' = Idle /\ commands' \subseteq commands
      /\ lapsed' = lapsed /\ faults' = faults + 1
  BY <1>1 DEF Crash
<1>3. TypeOK'
  BY WorldType
<1>4. /\ Locked(mem)' = Locked(disk) /\ Locked(disk)' = Locked(disk)
      /\ Live(mem)' = Live(disk) /\ Live(disk)' = Live(disk)
      /\ Left' = Locked(disk)
  BY <1>2 DEF Locked, Live, Left, Holding, Idle
<1>5. TablesInv' /\ LiveInv' /\ AgreeInv' /\ ActiveFieldAgrees' /\ CommandInv'
  BY <1>2, <1>4 DEF TablesInv, LiveInv, AgreeInv, ActiveFieldAgrees, CommandInv
<1>6. OwnInv' /\ StepInv' /\ TodoInv'
  BY <1>2 DEF OwnInv, StepInv, TodoInv, Holding, Idle
<1>7. EndsInv'
  BY <1>1, <1>2 DEF EndsInv, EndsOk
<1>8. FaultInv'
  <2>1. Locked(disk) \subseteq Left \cup {OwnLock}
    BY DEF Left
  <2>2. \A i, j \in Locked(disk) : i # j => faults + 1 >= 2
    BY <1>1, <2>1 DEF FaultInv
  <2> QED
    BY <1>1, <1>2, <1>4, <2>2 DEF FaultInv
<1>9. ToldInv'
  <2> SUFFICES ASSUME faults + 1 < 3, NEW i \in 1 .. Len(mem.locks),
                      disk.locks[i].status # "locked"
               PROVE  disk.locks[i].ends > 0
    BY <1>1, <1>2 DEF ToldInv
  <2>1. faults < 3 /\ ~(faults >= 2)
    BY <1>1
  <2> QED
    BY <1>1, <2>1 DEF ToldInv
<1> QED
  BY <1>3, <1>5, <1>6, <1>7, <1>8, <1>9

\* Fewer commands.
LEMMA OrphanStep == ASSUME IInv, OrphanEnds PROVE IInv'
<1> USE DEF IInv
<1>1. commands' \subseteq commands /\ UNCHANGED <<mem, disk, work, lapsed, ran, faults>>
  BY DEF OrphanEnds
<1>2. TypeOK'
  BY WorldType
<1>3. /\ Locked(mem)' = Locked(mem) /\ Locked(disk)' = Locked(disk)
      /\ Live(mem)' = Live(mem) /\ Live(disk)' = Live(disk) /\ Left' = Left
      /\ OwnLock' = OwnLock
  BY <1>1 DEF Locked, Live, Left, Holding, OwnLock
<1> QED
  BY <1>1, <1>2, <1>3 DEF TablesInv, LiveInv, AgreeInv, ActiveFieldAgrees, CommandInv, OwnInv,
     StepInv, TodoInv, EndsInv, EndsOk, FaultInv, ToldInv, Holding

-----------------------------------------------------------------------------
\* At first there is no step, no lock and no command.
LEMMA InitIInv == Init => IInv
<1> SUFFICES ASSUME Init PROVE IInv
  OBVIOUS
<1>1. /\ mem = NewRun /\ disk = NewRun /\ work = Idle /\ faults = 0 /\ lapsed = 0
      /\ commands = {}
  BY DEF Init
<1>2. /\ NewRun \in Run /\ NewRun.locks = << >> /\ Len(NewRun.locks) = 0
      /\ DOMAIN NewRun.locks = {} /\ NewRun.active = 0
  BY DEF NewRun, Run
<1>3. Idle \in Work
  BY DEF Idle, Work, Stages
<1>4. TypeOK
  BY <1>1, <1>2, <1>3 DEF Init, TypeOK
<1>5. Locked(mem) = {} /\ Locked(disk) = {} /\ Live(mem) = {} /\ Live(disk) = {} /\ Left = {}
  BY <1>1, <1>2 DEF Locked, Live, Left
<1> QED
  BY <1>1, <1>2, <1>4, <1>5
     DEF IInv, TablesInv, LiveInv, AgreeInv, ActiveFieldAgrees, CommandInv, OwnInv, StepInv,
         TodoInv, EndsInv, EndsOk, FaultInv, ToldInv, Holding, Idle

\* Every step of the requests, the callback and the world keeps the invariant.
LEMMA NextIInv == ASSUME IInv, [Next]_vars PROVE IInv'
<1>1. CASE Next
  BY <1>1, PlainStep, RecoverStep, TellStep, ConflictStep, AcquireStep, StartStep, StageStep,
     EndStep, LapseStep, CrashStep, OrphanStep DEF Next, Handler
<1>2. CASE UNCHANGED vars
  <2>1. /\ Locked(mem)' = Locked(mem) /\ Locked(disk)' = Locked(disk)
        /\ Live(mem)' = Live(mem) /\ Live(disk)' = Live(disk) /\ Left' = Left
        /\ OwnLock' = OwnLock
    BY <1>2 DEF vars, Locked, Live, Left, Holding, OwnLock
  <2> QED
    BY <1>2, <2>1 DEF vars, IInv, TypeOK, TablesInv, LiveInv, AgreeInv, ActiveFieldAgrees,
       CommandInv, OwnInv, StepInv, TodoInv, EndsInv, EndsOk, FaultInv, ToldInv, Holding
<1> QED
  BY <1>1, <1>2

\* The invariant holds in every state: of the lock tables in memory and on disk, the
\* callback at work, the commands and the faults so far.
THEOREM LockInvariant == Spec => []IInv
<1>1. IInv /\ [Next]_vars => IInv'
  BY NextIInv
<1> QED
  BY <1>1, InitIInv, PTL DEF Spec

\* The run in memory and on disk, the callback and the locks stay within their types.
THEOREM StepTypes == Spec => []TypeOK
<1>1. IInv => TypeOK
  BY DEF IInv
<1> QED
  BY <1>1, LockInvariant, PTL

\* Never two locks block others, in memory or on disk, whenever locks expire and whatever
\* is lost to faults.
THEOREM OneLockIsLive == Spec => []OneLiveLock
<1>1. IInv => OneLiveLock
  <2> SUFFICES ASSUME IInv, NEW m \in {mem, disk}
               PROVE  Cardinality(Live(m)) <= 1
    BY DEF OneLiveLock
  <2>1. Live(m) = {} \/ Live(m) = {Len(m.locks)}
    BY DEF IInv, LiveInv
  <2>2. CASE Live(m) = {}
    BY <2>2, FS_EmptySet
  <2>3. CASE Live(m) = {Len(m.locks)}
    <3>1. Cardinality({Len(m.locks)}) = 1
      BY FS_Singleton
    <3> QED
      BY <2>3, <3>1
  <2> QED
    BY <2>1, <2>2, <2>3
<1> QED
  BY <1>1, LockInvariant, PTL

\* A restart finds the lock of every command whose lock has not expired.
THEOREM LocksAreOnDisk == Spec => []LockOnDiskBeforeWork
<1>1. IInv => LockOnDiskBeforeWork
  BY DEF IInv, CommandInv, LockOnDiskBeforeWork
<1> QED
  BY <1>1, LockInvariant, PTL

\* active_execution_lock names the lock that blocks others and never an ended one.
THEOREM ActiveFieldIsRight == Spec => []ActiveFieldAgrees
<1>1. IInv => ActiveFieldAgrees
  BY DEF IInv
<1> QED
  BY <1>1, LockInvariant, PTL

\* Locks that ended have their events as long as fewer than three faults happened, and a
\* lock is ended twice only by a fault.
THEOREM LocksEndOnce == Spec => []LockEndsOnTimeline
<1>1. IInv => LockEndsOnTimeline
  <2> SUFFICES ASSUME IInv PROVE LockEndsOnTimeline
    OBVIOUS
  <2>1. EndsOk(mem) /\ EndsOk(disk)
    BY DEF IInv, EndsInv
  <2> QED
    BY <2>1 DEF IInv, EndsOk, ToldInv, LockEndsOnTimeline
<1> QED
  BY <1>1, LockInvariant, PTL

-----------------------------------------------------------------------------
\* A command starts only when every other one holds an expired lock.
LEMMA StartFacts ==
  ASSUME IInv, StartCommand
  PROVE  /\ OwnLock = Len(disk.locks) /\ OwnLock > 0 /\ OwnLock \notin commands
         /\ \A l \in commands : l \in 1 .. lapsed /\ l \in DOMAIN disk.locks /\ l \notin Live(disk)
<1>1. /\ OwnLock = Len(mem.locks) /\ Len(disk.locks) = Len(mem.locks)
      /\ commands \subseteq 1 .. Len(mem.locks) /\ DOMAIN disk.locks = 1 .. Len(mem.locks)
      /\ lapsed \in Nat
  BY Tables DEF IInv
<1>2. OwnLock > 0 /\ OwnLock \notin commands
  BY DEF IInv, OwnInv, Holding, StartCommand
<1>3. ASSUME NEW l \in commands, l > lapsed PROVE FALSE
  <2>1. l \in Live(disk)
    BY <1>3 DEF IInv, CommandInv, Live
  <2>2. l = Len(disk.locks)
    BY <2>1 DEF IInv, LiveInv
  <2> QED
    BY <1>1, <1>2, <2>2
<1> QED
  BY <1>1, <1>2, <1>3 DEF Live

\* In every step: work starts beside work whose lock has expired, and nothing else.
THEOREM WorkStartsAlone == Spec => StartsAlone
<1>1. IInv /\ [Next]_vars => [commands' \subseteq commands \/ commands \subseteq 1 .. lapsed]_commands
  <2> SUFFICES ASSUME IInv, Next
               PROVE  commands' \subseteq commands \/ commands \subseteq 1 .. lapsed
    BY DEF vars
  <2>1. CASE StartCommand
    BY <2>1, StartFacts
  <2>2. CASE ~StartCommand
    BY <2>2 DEF Next, Handler, RecordStep, Execute, RecoverLocks, TellRecovered, RecoverDone,
       LockConflict, AcquireLock, RefuseStep, NoAdapter, CommandEnds, LaterWriteFails,
       ReleaseLock, FailLock, Lapse, Crash, OrphanEnds
  <2> QED
    BY <2>1, <2>2
<1> QED
  BY <1>1, LockInvariant, PTL DEF Spec, StartsAlone

-----------------------------------------------------------------------------
\* The refinement of the lease: the leases in the snapshot, and those that are over.
Over == {i \in DOMAIN disk.locks : i \notin Live(disk)}

Granted == Len(disk.locks)

\* A step that leaves the live locks of the snapshot alone at most stops work.
LEMMA LeaseStops ==
  ASSUME Len(disk'.locks) = Len(disk.locks), DOMAIN disk'.locks = DOMAIN disk.locks,
         Live(disk)' = Live(disk), commands' \subseteq commands
  PROVE  Lease!Stop
  BY DEF Lease!Stop

\* A snapshot write that leaves the live locks of memory alone leaves those of the
\* snapshot alone, and so does one that failed.
LEMMA LiveOnDisk ==
  ASSUME IInv, TypeOK', TablesInv', work.stage # "failed", lapsed' = lapsed,
         disk' = disk \/ (disk' = mem' /\ Live(mem)' = Live(mem)),
         Len(mem'.locks) = Len(mem.locks)
  PROVE  /\ Len(disk'.locks) = Len(disk.locks) /\ DOMAIN disk'.locks = DOMAIN disk.locks
         /\ Live(disk)' = Live(disk)
<1>1. /\ Len(disk.locks) = Len(mem.locks) /\ DOMAIN disk.locks = 1 .. Len(mem.locks)
  BY Tables DEF IInv
<1>2. /\ Len(disk'.locks) = Len(mem'.locks) /\ DOMAIN disk'.locks = 1 .. Len(mem'.locks)
  BY TableFacts DEF TypeOK, TablesInv
<1>3. CASE disk' = disk
  BY <1>1, <1>2, <1>3 DEF Live, Locked
<1>4. CASE disk' = mem' /\ Live(mem)' = Live(mem)
  <2>1. Live(disk)' = Live(mem)'
    BY <1>4 DEF Live, Locked
  <2> QED
    BY <1>1, <1>2, <1>4, <2>1 DEF IInv, AgreeInv
<1> QED
  BY <1>3, <1>4

\* Every step of the server and the world is a step of the lease or none.
LEMMA LeaseStep == ASSUME IInv, IInv', Next PROVE Lease!LeaseNext \/ UNCHANGED Lease!leaseVars
<1> USE DEF Lease!LeaseNext
<1>1. /\ Len(mem.locks) \in Nat /\ Len(disk.locks) = Len(mem.locks)
      /\ DOMAIN disk.locks = 1 .. Len(mem.locks) /\ OwnLock = Len(mem.locks)
      /\ lapsed \in Nat /\ lapsed <= Len(mem.locks)
      /\ Live(disk) \subseteq {Len(mem.locks)}
  BY Tables DEF IInv, LiveInv
<1>2. /\ mem \in Run /\ mem' \in Run /\ TypeOK' /\ TablesInv'
      /\ Len(disk'.locks) = Len(mem'.locks) /\ DOMAIN disk'.locks = 1 .. Len(mem'.locks)
  BY TableFacts DEF IInv, TypeOK, TablesInv
<1>3. CASE RecordStep
  <2>1. disk' = mem' /\ mem'.locks = mem.locks /\ UNCHANGED <<lapsed, commands>>
    BY <1>2, <1>3 DEF RecordStep, Save, Run
  <2>2. Live(mem)' = Live(mem)
    BY <2>1 DEF Live, Locked
  <2> QED
    BY <1>2, <1>3, <2>1, <2>2, LiveOnDisk, LeaseStops DEF RecordStep, Idle
<1>4. CASE \/ RecoverLocks \/ \E s \in 1 .. MaxSteps, retry \in BOOLEAN : Execute(s, retry)
           \/ LockConflict \/ RefuseStep \/ LaterWriteFails \/ OrphanEnds
  <2>1. UNCHANGED <<disk, lapsed>> /\ commands' \subseteq commands
    BY <1>4 DEF RecoverLocks, Execute, LockConflict, RefuseStep, LaterWriteFails, SaveFails,
       OrphanEnds
  <2>2. Live(disk)' = Live(disk)
    BY <2>1 DEF Live, Locked
  <2> QED
    BY <2>1, <2>2, LeaseStops
<1>5. CASE TellRecovered
  <2> DEFINE i == FirstOf(work.todo)
  <2>1. i \in 1 .. Len(mem.locks)
    <3>1. work.todo \subseteq 1 .. Len(mem.locks) /\ work.todo # {}
      BY <1>2, <1>5, TableFacts DEF TellRecovered, IInv, TodoInv
    <3> QED
      BY <1>1, <3>1, FirstFacts
  <2>2. mem' = Told(mem, i) /\ disk' = mem' /\ UNCHANGED <<lapsed, commands>>
    BY <1>5 DEF TellRecovered, Save, Told
  <2>3. Len(mem'.locks) = Len(mem.locks) /\ Locked(mem)' = Locked(mem)
    BY <1>2, <2>1, <2>2, ToldFacts DEF Locked
  <2>4. Live(mem)' = Live(mem)
    BY <2>2, <2>3 DEF Live
  <2> QED
    BY <1>2, <1>5, <2>2, <2>3, <2>4, LiveOnDisk, LeaseStops DEF TellRecovered
<1>6. CASE RecoverDone
  <2>1. disk' = mem' /\ mem' = mem /\ UNCHANGED <<lapsed, commands>>
    BY <1>6 DEF RecoverDone, Save
  <2>2. Live(mem)' = Live(mem)
    BY <2>1 DEF Live, Locked
  <2> QED
    BY <1>2, <1>6, <2>1, <2>2, LiveOnDisk, LeaseStops DEF RecoverDone
<1>7. CASE AcquireLock
  <2>1. Live(disk) = {}
    BY <1>2, <1>7, ActiveFacts DEF AcquireLock, IInv, LiveInv, AgreeInv
  <2>2. mem' = Taken(mem) /\ disk' = mem' /\ UNCHANGED <<lapsed, commands>>
    BY <1>7 DEF AcquireLock, Save, Taken
  <2>3. /\ Len(mem'.locks) = Len(mem.locks) + 1
        /\ Locked(mem)' = Locked(mem) \cup {Len(mem.locks) + 1}
    BY <1>2, <2>2, TakenFacts DEF Locked
  <2>4. Live(mem) = {}
    BY <1>7, <2>1 DEF AcquireLock, IInv, AgreeInv
  <2>5. Live(disk)' = {Len(mem.locks) + 1}
    BY <1>1, <2>2, <2>3, <2>4 DEF Live, Locked
  <2>6. Over = 1 .. Len(disk.locks) /\ Over' = Over /\ Len(disk'.locks) = Len(disk.locks) + 1
    BY <1>1, <1>2, <2>1, <2>3, <2>5 DEF Over
  <2> QED
    BY <2>2, <2>6 DEF Lease!Grant, Over
<1>8. CASE StartCommand
  <2>1. UNCHANGED <<disk, lapsed>> /\ commands' = commands \cup {OwnLock}
    BY <1>8 DEF StartCommand
  <2>2. Over' = Over
    BY <2>1 DEF Over, Live, Locked
  <2>3. commands \subseteq Over
    BY <1>8, StartFacts DEF Over
  <2> QED
    BY <1>8, <2>1, <2>2, <2>3, StartFacts DEF Lease!Start, Over
<1>9. CASE NoAdapter \/ CommandEnds
  <2>1. PICK status \in {"completed", "failed"} : RecordExecution(status)
    BY <1>9 DEF NoAdapter, CommandEnds
  <2>2. Holding /\ work.stage # "failed" /\ lapsed' = lapsed /\ commands' \subseteq commands
    BY <1>9 DEF NoAdapter, CommandEnds, Holding
  <2>3. mem'.locks = mem.locks
    BY <2>1, <2>2, RecordType DEF IInv
  <2>4. disk' = mem' \/ disk' = disk
    BY <2>1 DEF RecordExecution, Save, SaveFails
  <2>5. Live(mem)' = Live(mem)
    BY <2>2, <2>3 DEF Live, Locked
  <2> QED
    BY <1>2, <2>2, <2>3, <2>4, <2>5, LiveOnDisk, LeaseStops
<1>10. CASE ReleaseLock \/ FailLock
  <2>1. PICK status \in {"released", "failed"} :
          /\ mem' = Ended(mem, OwnLock, status) /\ UNCHANGED <<lapsed, commands>>
          /\ disk' = mem' \/ disk' = disk
    BY <1>10 DEF ReleaseLock, FailLock, Save, SaveFails
  <2>2. OwnLock \in 1 .. Len(mem.locks)
    BY <1>1, <1>10 DEF ReleaseLock, FailLock, IInv, OwnInv, Holding
  <2>3. Len(mem'.locks) = Len(mem.locks) /\ Locked(mem)' = Locked(mem) \ {OwnLock}
    BY <1>2, <2>1, <2>2, EndedFacts DEF Locked, LockStatuses
  <2>4. CASE disk' = disk
    <3>1. Live(disk)' = Live(disk)
      BY <2>1, <2>4 DEF Live, Locked
    <3> QED
      BY <2>1, <2>4, <3>1, LeaseStops
  <2>5. CASE disk' = mem'
    <3>1. Live(mem) \subseteq {OwnLock}
      BY <1>1 DEF IInv, LiveInv
    <3>2. Live(disk)' = {}
      BY <2>1, <2>3, <2>5, <3>1 DEF Live, Locked
    <3>3. Over' = Over \cup {Len(mem.locks)} /\ Len(disk'.locks) = Len(disk.locks)
      BY <1>1, <1>2, <2>2, <2>3, <3>2 DEF Over
    <3> QED
      BY <1>1, <2>1, <2>2, <3>3 DEF Lease!EndLease, Over
  <2> QED
    BY <2>1, <2>4, <2>5
<1>11. CASE Lapse
  <2>1. UNCHANGED <<disk, commands>> /\ lapsed' = lapsed + 1 /\ lapsed < Len(mem.locks)
    BY <1>11 DEF Lapse
  <2>2. Live(disk)' = Live(disk) \ {lapsed + 1}
    BY <1>1, <2>1, Tables DEF Live, Locked, IInv
  <2>3. Over' = Over \cup {lapsed + 1}
    BY <1>1, <2>1, <2>2 DEF Over
  <2> QED
    BY <1>1, <2>1, <2>3 DEF Lease!EndLease, Over
<1>12. CASE Crash
  <2>1. UNCHANGED <<disk, lapsed>> /\ commands' \subseteq commands
    BY <1>1, <1>12 DEF Crash
  <2>2. Live(disk)' = Live(disk)
    BY <2>1 DEF Live, Locked
  <2> QED
    BY <2>1, <2>2, LeaseStops
<1> QED
  BY <1>3, <1>4, <1>5, <1>6, <1>7, <1>8, <1>9, <1>10, <1>11, <1>12 DEF Next, Handler

\* The locks in the snapshot implement the lease, for any number of locks, steps and
\* faults: each step of the server, of time and of a crash grants or ends one lease,
\* starts or stops work as the lease allows, or changes nothing of it.
THEOREM LocksImplementLease == Spec => ImplementsLease
<1>1. Init => Lease!LeaseInit
  <2> SUFFICES ASSUME Init PROVE Lease!LeaseInit
    OBVIOUS
  <2>1. disk.locks = << >> /\ commands = {}
    BY DEF Init, NewRun
  <2> QED
    BY <2>1 DEF Lease!LeaseInit
<1>2. IInv /\ IInv' /\ [Next]_vars => [Lease!LeaseNext]_(Lease!leaseVars)
  <2> SUFFICES ASSUME IInv, IInv', [Next]_vars
               PROVE  Lease!LeaseNext \/ UNCHANGED Lease!leaseVars
    OBVIOUS
  <2>1. CASE Next
    BY <2>1, LeaseStep
  <2>2. CASE UNCHANGED vars
    <3>1. UNCHANGED <<disk, commands>> /\ Live(disk)' = Live(disk)
      BY <2>2 DEF vars, Live, Locked
    <3> QED
      BY <3>1 DEF Lease!leaseVars
  <2> QED
    BY <2>1, <2>2
<1> QED
  BY <1>1, <1>2, LockInvariant, PTL DEF Spec, ImplementsLease, Lease!LeaseSpec

\* Every lease there is has a number, and no worker meets an older one whose lease
\* still holds.
LeaseInv == /\ Granted \in Nat
            /\ Over \subseteq 1 .. Granted
            /\ commands \subseteq 1 .. Granted
            /\ Lease!Exclusive

\* The lease invariant follows from the abstract lease alone: of two commands at work, the
\* one with the older execution lock has lost it, whatever the order of grants and ends.
LEMMA LeaseInvariant == Lease!LeaseSpec => []LeaseInv
<1>1. Lease!LeaseInit => LeaseInv
  BY DEF Lease!LeaseInit, LeaseInv, Lease!Exclusive, Granted, Over
<1>2. LeaseInv /\ [Lease!LeaseNext]_(Lease!leaseVars) => LeaseInv'
  <2> SUFFICES ASSUME LeaseInv, Lease!LeaseNext \/ UNCHANGED Lease!leaseVars
               PROVE  LeaseInv'
    OBVIOUS
  <2> DEFINE g == Granted
             o == Over
  <2>1. /\ g \in Nat /\ o \subseteq 1 .. g /\ commands \subseteq 1 .. g
        /\ \A v, w \in commands : v < w => v \in o
    BY DEF LeaseInv, Lease!Exclusive, Over
  <2>2. SUFFICES /\ g' \in Nat /\ o' \subseteq 1 .. g' /\ commands' \subseteq 1 .. g'
                 /\ \A v, w \in commands' : v < w => v \in o'
    BY DEF LeaseInv, Lease!Exclusive, Over
  <2>3. CASE Lease!Grant
    <3>1. g' = g + 1 /\ o' = o /\ commands' = commands
      BY <2>3 DEF Lease!Grant, Granted, Over
    <3> HIDE DEF g, o
    <3> QED
      BY <2>1, <3>1
  <2>4. CASE Lease!Start
    <3>1. g > 0 /\ commands \subseteq o /\ commands' = commands \cup {g} /\ g' = g /\ o' = o
      BY <2>4 DEF Lease!Start, Granted, Over
    <3> HIDE DEF g, o
    <3> QED
      BY <2>1, <3>1
  <2>5. CASE Lease!Stop
    <3>1. commands' \subseteq commands /\ g' = g /\ o' = o
      BY <2>5 DEF Lease!Stop, Granted, Over
    <3> HIDE DEF g, o
    <3> QED
      BY <2>1, <3>1
  <2>6. CASE Lease!EndLease
    <3>1. g' = g /\ commands' = commands /\ \E l \in 1 .. g : o' = o \cup {l}
      BY <2>6 DEF Lease!EndLease, Granted, Over
    <3> HIDE DEF g, o
    <3> QED
      BY <2>1, <3>1
  <2>7. CASE UNCHANGED Lease!leaseVars
    <3>1. g' = g /\ commands' = commands /\ o' = o
      BY <2>7 DEF Lease!leaseVars, Granted, Over
    <3> HIDE DEF g, o
    <3> QED
      BY <2>1, <3>1
  <2> QED
    BY <2>3, <2>4, <2>5, <2>6, <2>7 DEF Lease!LeaseNext
<1> QED
  BY <1>1, <1>2, PTL DEF Lease!LeaseSpec

\* What recovering expired execution locks leaves of mutual exclusion: two commands
\* are at work together only if the older one's lock is over.
THEOREM LeaseIsExclusive == Lease!LeaseSpec => []Lease!Exclusive
<1>1. LeaseInv => Lease!Exclusive
  BY DEF LeaseInv
<1> QED
  BY <1>1, LeaseInvariant, PTL

\* Of two commands at work together the older one's lock has expired or ended in the
\* snapshot, whatever the server lost and however late the commands of dead servers end.
THEOREM CommandsAreExclusive == Spec => []Lease!Exclusive
  BY LocksImplementLease, LeaseIsExclusive, PTL DEF ImplementsLease

-----------------------------------------------------------------------------
(***************************************************************************)
(* The execution history: the chain of attempts of a step id, the account  *)
(* of the commands that were started, and the steps the gate refused.      *)
(*                                                                         *)
(* The handler decides on an attempt before it recovers locks, takes its   *)
(* own and runs a command for minutes; the record is written afterwards.   *)
(* HInv adds that what it decided on is still true then (WorkInv), and how *)
(* far the snapshot can be behind memory (SyncInv, GrowInv).               *)
(***************************************************************************)

\* Only in the catch block is the history in memory ahead of the snapshot.
SyncInv == work.stage # "failed" =>
             disk.steps = mem.steps /\ disk.executions = mem.executions

\* The snapshot has no execution that memory lacks.
GrowInv == \A id \in StepIds : Attempts(disk, id) \subseteq Attempts(mem, id)

\* The executions of an id are a chain of retries.
IdChain(m, id) ==
  /\ Cardinality(Attempts(m, id)) <= MaxAttempts
  /\ \A e \in Attempts(m, id) :
       LET before == {d \in Attempts(m, id) : d < e}
       IN  /\ m.executions[e].attempt = Cardinality(before) + 1
           /\ m.executions[e].retry_of = LastOf(before)
           /\ e # LastOf(Attempts(m, id)) => m.executions[e].status = "failed"

\* The first step with an id that was executed shows its last execution.
Shown(m) ==
  \A s \in DOMAIN m.steps :
    FindStep(m, s) /\ Attempts(m, m.steps[s].id) # {} =>
      m.steps[s].status = m.executions[LastOf(Attempts(m, m.steps[s].id))].status

\* Every execution belongs to a step.
Owned(m) == \A e \in DOMAIN m.executions :
              \E s \in DOMAIN m.steps : m.steps[s].id = m.executions[e].id

Chain(m) == (\A id \in StepIds : IdChain(m, id)) /\ Shown(m) /\ Owned(m)

ChainInv == Chain(mem) /\ Chain(disk)

\* The callback has decided on an attempt that is not recorded yet.
InFlight == work.stage \in {"recover", "adapter", "running"} /\ work.step # 0

\* What it decided on still holds.
WorkInv ==
  InFlight =>
    /\ work.step \in DOMAIN mem.steps
    /\ FindStep(mem, work.step)
    /\ LET used == Attempts(mem, mem.steps[work.step].id)
       IN  /\ work.attempt = Cardinality(used) + 1
           /\ work.retry_of = LastOf(used)
           /\ Cardinality(used) < MaxAttempts
           /\ used # {} => mem.executions[LastOf(used)].status = "failed"

\* Only the id at work has a start without a record or a fault.
CountInv ==
  \A id \in StepIds :
    ran[id] <= Cardinality(Attempts(disk, id)) + faults
                 + IF work.stage = "running" /\ id = mem.steps[work.step].id THEN 1 ELSE 0

\* An id that has worked was allowed when it was first recorded.
Allowed(m, r) ==
  \A id \in StepIds : r[id] > 0 =>
    \E t \in DOMAIN m.steps : m.steps[t].id = id /\ m.steps[t].allowed /\ FindStep(m, t)

AllowedInv == Allowed(mem, ran) /\ Allowed(disk, ran)

HInv == SyncInv /\ GrowInv /\ ChainInv /\ WorkInv /\ CountInv /\ AllowedInv

-----------------------------------------------------------------------------
\* The steps and the executions of a run.
LEMMA HistoryFacts ==
  ASSUME NEW m \in Run
  PROVE  /\ m.steps \in Seq(Step) /\ Len(m.steps) \in Nat
         /\ DOMAIN m.steps = 1 .. Len(m.steps)
         /\ \A s \in DOMAIN m.steps : m.steps[s] \in Step /\ m.steps[s].id \in StepIds
         /\ m.executions \in Seq(Execution) /\ Len(m.executions) \in Nat
         /\ DOMAIN m.executions = 1 .. Len(m.executions)
         /\ \A e \in DOMAIN m.executions : m.executions[e].id \in StepIds
<1>1. /\ m.steps \in Seq(Step) /\ Len(m.steps) \in Nat
      /\ DOMAIN m.steps = 1 .. Len(m.steps)
      /\ m.executions \in Seq(Execution) /\ Len(m.executions) \in Nat
      /\ DOMAIN m.executions = 1 .. Len(m.executions)
  BY LenProperties DEF Run
<1>2. \A s \in DOMAIN m.steps : m.steps[s] \in Step
  BY <1>1, ElementOfSeq
<1>3. \A e \in DOMAIN m.executions : m.executions[e] \in Execution
  BY <1>1, ElementOfSeq
<1> QED
  BY <1>1, <1>2, <1>3 DEF Step, Execution

\* The executions of an id are finitely many positions.
LEMMA AttemptFacts ==
  ASSUME NEW m \in Run, NEW id
  PROVE  /\ Attempts(m, id) \subseteq 1 .. Len(m.executions)
         /\ IsFiniteSet(Attempts(m, id))
         /\ Cardinality(Attempts(m, id)) \in Nat
         /\ LastOf(Attempts(m, id)) \in Nat
         /\ Attempts(m, id) # {} =>
              /\ LastOf(Attempts(m, id)) \in Attempts(m, id)
              /\ \A d \in Attempts(m, id) : d <= LastOf(Attempts(m, id))
<1>1. Len(m.executions) \in Nat /\ DOMAIN m.executions = 1 .. Len(m.executions)
  BY HistoryFacts
<1>2. Attempts(m, id) \subseteq 1 .. Len(m.executions)
  BY <1>1 DEF Attempts
<1>3. IsFiniteSet(1 .. Len(m.executions))
  BY <1>1, FS_Interval
<1>4. IsFiniteSet(Attempts(m, id))
  BY <1>2, <1>3, FS_Subset
<1> QED
  BY <1>1, <1>2, <1>4, FS_CardinalityType, LastFacts

\* The history is in the steps and the executions of a run and nowhere else.
LEMMA SameHistory ==
  ASSUME NEW m, NEW n, n.steps = m.steps, n.executions = m.executions
  PROVE  /\ \A id : Attempts(n, id) = Attempts(m, id)
         /\ \A s : FindStep(n, s) = FindStep(m, s)
         /\ Chain(m) => Chain(n)
         /\ \A r : Allowed(m, r) => Allowed(n, r)
<1>1. \A id : Attempts(n, id) = Attempts(m, id)
  BY DEF Attempts
<1>2. \A s : FindStep(n, s) = FindStep(m, s)
  BY DEF FindStep
<1>3. ASSUME Chain(m) PROVE Chain(n)
  <2>1. ASSUME NEW id \in StepIds PROVE IdChain(n, id)
    <3>1. IdChain(m, id)
      BY <1>3 DEF Chain
    <3> QED
      BY <1>1, <3>1 DEF IdChain
  <2>2. Shown(n)
    BY <1>1, <1>2, <1>3 DEF Chain, Shown
  <2>3. Owned(n)
    BY <1>3 DEF Chain, Owned
  <2> QED
    BY <2>1, <2>2, <2>3 DEF Chain
<1>4. ASSUME NEW r, Allowed(m, r) PROVE Allowed(n, r)
  BY <1>2, <1>4 DEF Allowed
<1> QED
  BY <1>1, <1>2, <1>3, <1>4

\* A step that leaves the history and the attempt in flight alone.
LEMMA QuietStep ==
  ASSUME IInv, IInv', HInv,
         mem'.steps = mem.steps, mem'.executions = mem.executions, ran' = ran,
         \/ disk' = mem'
         \/ /\ disk'.steps = disk.steps /\ disk'.executions = disk.executions
            /\ work'.stage = "failed" \/ work.stage # "failed",
         faults' \in {faults, faults + 1},
         InFlight' => /\ InFlight /\ work'.step = work.step
                      /\ work'.attempt = work.attempt /\ work'.retry_of = work.retry_of,
         work'.stage = "running" <=> work.stage = "running",
         work.stage = "running" => work'.step = work.step
  PROVE  HInv'
<1> USE DEF HInv
<1>1. /\ \A id : Attempts(mem', id) = Attempts(mem, id)
      /\ \A s : FindStep(mem', s) = FindStep(mem, s)
      /\ Chain(mem) => Chain(mem')
      /\ \A r : Allowed(mem, r) => Allowed(mem', r)
  BY SameHistory
<1>2. /\ mem \in Run /\ disk \in Run /\ faults \in Nat /\ ran \in [StepIds -> Nat]
  BY DEF IInv, TypeOK
<1>3. SyncInv'
  BY DEF SyncInv
<1>4. /\ \A id : Attempts(mem, id)' = Attempts(mem, id)
      /\ \A s : FindStep(mem, s)' = FindStep(mem, s)
      /\ Chain(mem)' /\ Allowed(mem, ran)'
  <2>1. \A id : Attempts(mem, id)' = Attempts(mem', id)
    BY DEF Attempts
  <2>2. \A s : FindStep(mem, s)' = FindStep(mem', s)
    BY DEF FindStep
  <2>3. Chain(mem') /\ Allowed(mem', ran')
    BY <1>1 DEF ChainInv, AllowedInv
  <2> QED
    BY <1>1, <2>1, <2>2, <2>3 DEF Chain, Allowed, IdChain, Shown, Owned, Attempts, FindStep
<1>5. WorkInv'
  BY <1>4 DEF WorkInv
<1> HIDE DEF HInv
<1>6. CASE disk' = mem'
  <2>1. \A id : Attempts(disk, id)' = Attempts(mem, id)
    BY <1>4, <1>6 DEF Attempts
  <2>4. Chain(mem') /\ Allowed(mem', ran')
    BY <1>1 DEF HInv, ChainInv, AllowedInv
  <2>5. Chain(disk') /\ Allowed(disk', ran')
    BY <1>6, <2>4
  <2>6. Chain(disk)' /\ Allowed(disk, ran)'
    BY <2>5 DEF Chain, Allowed, IdChain, Shown, Owned, Attempts, FindStep
  <2>2. GrowInv' /\ ChainInv' /\ AllowedInv'
    BY <1>4, <2>1, <2>6 DEF GrowInv, ChainInv, AllowedInv
  <2>3. CountInv'
    <3> SUFFICES ASSUME NEW id \in StepIds
                 PROVE  ran[id] <= Cardinality(Attempts(mem, id)) + faults'
                          + IF work'.stage = "running" /\ id = mem'.steps[work'.step].id
                            THEN 1 ELSE 0
      BY <2>1 DEF CountInv
    <3>1. /\ Attempts(disk, id) \subseteq Attempts(mem, id)
          /\ ran[id] <= Cardinality(Attempts(disk, id)) + faults
               + IF work.stage = "running" /\ id = mem.steps[work.step].id THEN 1 ELSE 0
      BY DEF HInv, GrowInv, CountInv
    <3>2. /\ Cardinality(Attempts(disk, id)) \in Nat /\ Cardinality(Attempts(mem, id)) \in Nat
          /\ Cardinality(Attempts(disk, id)) <= Cardinality(Attempts(mem, id))
      BY <1>2, <3>1, AttemptFacts, FS_Subset
    <3>3. (work'.stage = "running" /\ id = mem'.steps[work'.step].id)
            <=> (work.stage = "running" /\ id = mem.steps[work.step].id)
      OBVIOUS
    <3>4. ran[id] \in Nat
      BY <1>2
    <3> QED
      BY <1>2, <3>1, <3>2, <3>3, <3>4
  <2> QED
    BY <1>3, <1>5, <2>2, <2>3 DEF HInv
<1>7. CASE disk'.steps = disk.steps /\ disk'.executions = disk.executions
  <2>1. /\ \A id : Attempts(disk', id) = Attempts(disk, id)
        /\ Chain(disk) => Chain(disk')
        /\ \A r : Allowed(disk, r) => Allowed(disk', r)
    BY <1>7, SameHistory
  <2>2. \A id : Attempts(disk, id)' = Attempts(disk, id)
    BY <1>7 DEF Attempts
  <2>3. Chain(disk') /\ Allowed(disk', ran')
    BY <2>1 DEF HInv, ChainInv, AllowedInv
  <2>4. Chain(disk)' /\ Allowed(disk, ran)'
    BY <2>3 DEF Chain, Allowed, IdChain, Shown, Owned, Attempts, FindStep
  <2>5. GrowInv'
    BY <1>4, <2>2 DEF HInv, GrowInv
  <2>6. CountInv'
    <3> SUFFICES ASSUME NEW id \in StepIds
                 PROVE  ran[id] <= Cardinality(Attempts(disk, id)) + faults'
                          + IF work'.stage = "running" /\ id = mem'.steps[work'.step].id
                            THEN 1 ELSE 0
      BY <2>2 DEF CountInv
    <3>1. ran[id] <= Cardinality(Attempts(disk, id)) + faults
               + IF work.stage = "running" /\ id = mem.steps[work.step].id THEN 1 ELSE 0
      BY DEF HInv, CountInv
    <3>2. Cardinality(Attempts(disk, id)) \in Nat
      BY <1>2, AttemptFacts
    <3>3. (work'.stage = "running" /\ id = mem'.steps[work'.step].id)
            <=> (work.stage = "running" /\ id = mem.steps[work.step].id)
      OBVIOUS
    <3>4. ran[id] \in Nat
      BY <1>2
    <3> QED
      BY <1>2, <3>1, <3>2, <3>3, <3>4
  <2> QED
    BY <1>3, <1>4, <1>5, <2>4, <2>5, <2>6 DEF HInv, ChainInv, AllowedInv
<1> QED
  BY <1>6, <1>7

-----------------------------------------------------------------------------
\* A new step: the same executions, one more step at the end.
LEMMA AppendedStep ==
  ASSUME NEW m \in Run, NEW n \in Run, NEW step \in Step, Chain(m),
         n.steps = Append(m.steps, step), n.executions = m.executions
  PROVE  /\ \A id : Attempts(n, id) = Attempts(m, id)
         /\ Chain(n)
         /\ \A r : Allowed(m, r) => Allowed(n, r)
<1> DEFINE N == Len(m.steps)
<1>1. /\ N \in Nat /\ DOMAIN m.steps = 1 .. N
      /\ DOMAIN n.steps = 1 .. N + 1 /\ n.steps[N + 1] = step
      /\ \A s \in 1 .. N : n.steps[s] = m.steps[s]
  BY HistoryFacts, AppendProperties, LenProperties
<1>2. \A id : Attempts(n, id) = Attempts(m, id)
  BY DEF Attempts
<1>3. \A s \in 1 .. N : FindStep(m, s) = FindStep(n, s)
  <2> SUFFICES ASSUME NEW s \in 1 .. N PROVE FindStep(m, s) <=> FindStep(n, s)
    BY DEF FindStep
  <2>1. N + 1 \in DOMAIN n.steps /\ s <= N + 1
    BY <1>1
  <2> QED
    BY <1>1, <2>1 DEF FindStep
<1>4. \A id \in StepIds : IdChain(n, id)
  BY <1>2 DEF Chain, IdChain
<1>5. Shown(n)
  <2> SUFFICES ASSUME NEW s \in DOMAIN n.steps, FindStep(n, s), Attempts(n, n.steps[s].id) # {}
               PROVE  n.steps[s].status = n.executions[LastOf(Attempts(n, n.steps[s].id))].status
    BY DEF Shown
  <2>1. s \in 1 .. N
    <3>1. PICK e \in DOMAIN m.executions : m.executions[e].id = n.steps[s].id
      BY <1>2 DEF Attempts
    <3>2. PICK t \in 1 .. N : m.steps[t].id = n.steps[s].id
      BY <1>1, <3>1 DEF Chain, Owned
    <3>3. n.steps[t].id = n.steps[s].id /\ t \in DOMAIN n.steps
      BY <1>1, <3>2
    <3>4. s <= t
      BY <3>3 DEF FindStep
    <3> QED
      BY <1>1, <3>4
  <2> QED
    BY <1>1, <1>2, <1>3, <2>1 DEF Chain, Shown
<1>6. Owned(n)
  <2> SUFFICES ASSUME NEW e \in DOMAIN m.executions
               PROVE  \E s \in DOMAIN n.steps : n.steps[s].id = m.executions[e].id
    BY DEF Owned
  <2>1. PICK s \in 1 .. N : m.steps[s].id = m.executions[e].id
    BY <1>1 DEF Chain, Owned
  <2>2. s \in DOMAIN n.steps /\ n.steps[s].id = m.executions[e].id
    BY <1>1, <2>1
  <2> QED
    BY <2>2
<1>7. ASSUME NEW r, Allowed(m, r) PROVE Allowed(n, r)
  <2> SUFFICES ASSUME NEW id \in StepIds, r[id] > 0
               PROVE  \E t \in DOMAIN n.steps :
                        n.steps[t].id = id /\ n.steps[t].allowed /\ FindStep(n, t)
    BY DEF Allowed
  <2>1. PICK t \in 1 .. N : m.steps[t].id = id /\ m.steps[t].allowed /\ FindStep(m, t)
    BY <1>1, <1>7 DEF Allowed
  <2>2. t \in DOMAIN n.steps /\ n.steps[t] = m.steps[t] /\ FindStep(n, t)
    BY <1>1, <1>3, <2>1
  <2> QED
    BY <2>1, <2>2
<1> QED
  BY <1>2, <1>4, <1>5, <1>6, <1>7 DEF Chain

\* POST steps.
LEMMA NewStep == ASSUME IInv, IInv', HInv, RecordStep PROVE HInv'
<1> USE DEF HInv
<1>1. PICK id \in StepIds, verdict \in {"allow", "refuse", "hard_cap"} :
        mem' = [mem EXCEPT
                  !.steps = Append(mem.steps,
                              [id |-> id, allowed |-> verdict = "allow",
                               status |-> IF verdict = "allow" THEN "pending" ELSE "blocked"]),
                  !.status = IF verdict = "hard_cap" THEN "paused" ELSE mem.status]
  BY DEF RecordStep, Save
<1> DEFINE step == [id |-> id, allowed |-> verdict = "allow",
                    status |-> IF verdict = "allow" THEN "pending" ELSE "blocked"]
<1>2. /\ disk' = mem' /\ work = Idle /\ work' = Idle /\ UNCHANGED <<ran, faults>>
      /\ mem \in Run /\ mem' \in Run /\ disk \in Run /\ ran \in [StepIds -> Nat] /\ faults \in Nat
  BY DEF RecordStep, Save, IInv, TypeOK
<1>3. step \in Step
  BY DEF Step, StepStatuses
<1>4. mem'.steps = Append(mem.steps, step) /\ mem'.executions = mem.executions
  BY <1>1, <1>2 DEF Run
<1>5. disk.steps = mem.steps /\ disk.executions = mem.executions
  BY <1>2 DEF SyncInv, Idle
<1>6. /\ \A i : Attempts(mem', i) = Attempts(mem, i)
      /\ Chain(mem') /\ Allowed(mem', ran)
  BY <1>2, <1>3, <1>4, AppendedStep DEF ChainInv, AllowedInv
<1>7. Chain(disk') /\ Allowed(mem', ran') /\ Allowed(disk', ran')
  BY <1>2, <1>6
<1>8. ChainInv' /\ AllowedInv'
  BY <1>6, <1>7 DEF ChainInv, AllowedInv, Chain, Allowed, IdChain, Shown, Owned, Attempts, FindStep
<1>9. \A i : Attempts(mem, i)' = Attempts(mem, i) /\ Attempts(disk, i)' = Attempts(disk, i)
  BY <1>2, <1>4, <1>5 DEF Attempts
<1>10. SyncInv' /\ GrowInv' /\ WorkInv'
  BY <1>2, <1>9 DEF SyncInv, GrowInv, WorkInv, InFlight, Idle
<1>11. CountInv'
  BY <1>2, <1>9 DEF CountInv, Idle
<1> QED
  BY <1>8, <1>10, <1>11

\* POST execute decides on an attempt.
LEMMA BeginStep ==
  ASSUME IInv, IInv', HInv, NEW s \in 1 .. MaxSteps, NEW retry \in BOOLEAN, Execute(s, retry)
  PROVE  HInv'
<1> USE DEF HInv
<1>1. /\ mem \in Run /\ Live(mem) \subseteq {Len(mem.locks)} /\ ran \in [StepIds -> Nat]
      /\ work = Idle /\ UNCHANGED <<disk, ran, faults>>
  BY DEF IInv, TypeOK, LiveInv, Execute
<1>2. mem'.steps = mem.steps /\ mem'.executions = mem.executions
  BY <1>1, RecoveredFacts DEF Execute
<1>3. /\ \A id : Attempts(mem', id) = Attempts(mem, id)
      /\ \A t : FindStep(mem', t) = FindStep(mem, t)
      /\ Chain(mem') /\ Allowed(mem', ran')
  BY <1>1, <1>2, SameHistory DEF ChainInv, AllowedInv
<1>4. Chain(disk') /\ Allowed(disk', ran')
  BY <1>1 DEF ChainInv, AllowedInv
<1>5. ChainInv' /\ AllowedInv'
  BY <1>3, <1>4 DEF ChainInv, AllowedInv, Chain, Allowed, IdChain, Shown, Owned, Attempts, FindStep
<1>6. /\ \A id : Attempts(mem, id)' = Attempts(mem, id) /\ Attempts(disk, id)' = Attempts(disk, id)
      /\ \A t : FindStep(mem, t)' = FindStep(mem, t)
  BY <1>1, <1>2 DEF Attempts, FindStep
<1>7. SyncInv' /\ GrowInv'
  BY <1>1, <1>2, <1>6 DEF SyncInv, GrowInv, Idle
<1>8. CountInv'
  BY <1>1, <1>6 DEF CountInv, Idle, Execute
<1>9. WorkInv'
  <2> DEFINE used == Attempts(mem, mem.steps[s].id)
  <2>1. /\ work'.step = s /\ work'.attempt = Cardinality(used) + 1 /\ work'.retry_of = LastOf(used)
        /\ s \in DOMAIN mem.steps /\ FindStep(mem, s)
    BY DEF Execute
  <2>2. /\ Cardinality(used) < MaxAttempts
        /\ used # {} => mem.executions[LastOf(used)].status = "failed"
    <3>1. CASE used = {}
      BY <3>1, FS_EmptySet, AttemptsAssumption
    <3>2. CASE used # {}
      BY <3>2 DEF Execute, AttemptAllowed
    <3> QED
      BY <3>1, <3>2
  <2> QED
    BY <1>2, <1>6, <2>1, <2>2 DEF WorkInv
<1> QED
  BY <1>5, <1>7, <1>8, <1>9

\* The command starts: its step was allowed when its id was first recorded.
LEMMA CommandStarts == ASSUME IInv, IInv', HInv, StartCommand PROVE HInv'
<1> USE DEF HInv
<1> DEFINE own == mem.steps[work.step].id
<1>1. /\ mem \in Run /\ disk \in Run /\ ran \in [StepIds -> Nat] /\ faults \in Nat
      /\ work \in Work
      /\ work.stage = "adapter" /\ work' = [work EXCEPT !.stage = "running"]
      /\ UNCHANGED <<mem, disk, faults>> /\ ran' = [ran EXCEPT ![own] = ran[own] + 1]
      /\ mem.steps[work.step].allowed
  BY DEF IInv, TypeOK, StartCommand, Executable
<1>2. /\ work.step # 0 /\ work.step \in DOMAIN mem.steps /\ own \in StepIds
  BY <1>1, HistoryFacts DEF IInv, StepInv, Holding
<1>3. FindStep(mem, work.step)
  BY <1>1, <1>2 DEF WorkInv, InFlight
<1>4. disk.steps = mem.steps /\ disk.executions = mem.executions
  BY <1>1 DEF SyncInv
<1>5. \A id \in StepIds : ran'[id] = IF id = own THEN ran[id] + 1 ELSE ran[id]
  BY <1>1, <1>2
<1>6. Allowed(mem, ran')
  <2> SUFFICES ASSUME NEW id \in StepIds, ran'[id] > 0
               PROVE  \E t \in DOMAIN mem.steps :
                        mem.steps[t].id = id /\ mem.steps[t].allowed /\ FindStep(mem, t)
    BY DEF Allowed
  <2>1. CASE id = own
    BY <1>1, <1>2, <1>3, <2>1
  <2>2. CASE id # own
    BY <1>5, <2>2 DEF AllowedInv, Allowed
  <2> QED
    BY <2>1, <2>2
<1>7. Allowed(mem', ran') /\ Allowed(disk', ran')
  <2>1. Allowed(disk, ran')
    BY <1>4, <1>6, SameHistory
  <2> QED
    BY <1>1, <1>6, <2>1
<1>8. AllowedInv'
  BY <1>7 DEF AllowedInv, Allowed, FindStep
<1>9. ChainInv'
  <2>1. Chain(mem') /\ Chain(disk')
    BY <1>1 DEF ChainInv
  <2> QED
    BY <2>1 DEF ChainInv, Chain, IdChain, Shown, Owned, Attempts, FindStep
<1>10. \A id : Attempts(mem, id)' = Attempts(mem, id) /\ Attempts(disk, id)' = Attempts(disk, id)
  BY <1>1 DEF Attempts
<1>11. /\ work'.stage = "running" /\ work'.step = work.step /\ work'.attempt = work.attempt
       /\ work'.retry_of = work.retry_of
  BY <1>1 DEF Work
<1>12. SyncInv' /\ GrowInv'
  BY <1>1, <1>4, <1>10 DEF SyncInv, GrowInv
<1>13. WorkInv'
  BY <1>1, <1>2, <1>10, <1>11 DEF WorkInv, InFlight, FindStep
<1>14. CountInv'
  <2> SUFFICES ASSUME NEW id \in StepIds
               PROVE  ran'[id] <= Cardinality(Attempts(disk, id)) + faults
                        + IF id = own THEN 1 ELSE 0
    BY <1>1, <1>10, <1>11 DEF CountInv
  <2>1. ran[id] <= Cardinality(Attempts(disk, id)) + faults + 0
    BY <1>1 DEF CountInv
  <2>2. ran[id] \in Nat /\ Cardinality(Attempts(disk, id)) \in Nat
    BY <1>1, AttemptFacts
  <2> QED
    BY <1>1, <1>5, <2>1, <2>2
<1> QED
  BY <1>8, <1>9, <1>12, <1>13, <1>14

-----------------------------------------------------------------------------
\* n is m with the record e of the next attempt at step s.
Records(m, n, s, e) ==
  /\ FindStep(m, s)
  /\ e.id = m.steps[s].id
  /\ e.attempt = Cardinality(Attempts(m, e.id)) + 1
  /\ e.retry_of = LastOf(Attempts(m, e.id))
  /\ Cardinality(Attempts(m, e.id)) < MaxAttempts
  /\ Attempts(m, e.id) # {} => m.executions[LastOf(Attempts(m, e.id))].status = "failed"
  /\ n.executions = Append(m.executions, e)
  /\ DOMAIN n.steps = DOMAIN m.steps
  /\ \A t \in DOMAIN m.steps : /\ n.steps[t].id = m.steps[t].id
                               /\ n.steps[t].allowed = m.steps[t].allowed
                               /\ t # s => n.steps[t].status = m.steps[t].status
  /\ n.steps[s].status = e.status

\* The record of the next attempt makes the chain of its id one longer.
LEMMA AppendedExecution ==
  ASSUME NEW m \in Run, NEW n \in Run, NEW s \in DOMAIN m.steps, NEW e \in Execution,
         Chain(m), Records(m, n, s, e)
  PROVE  /\ Chain(n)
         /\ \A r : Allowed(m, r) => Allowed(n, r)
         /\ \A id : id # e.id => Attempts(n, id) = Attempts(m, id)
         /\ Attempts(m, e.id) \subseteq Attempts(n, e.id)
         /\ Cardinality(Attempts(n, e.id)) = Cardinality(Attempts(m, e.id)) + 1
<1> USE DEF Records
<1> DEFINE N    == Len(m.executions)
           used == Attempts(m, e.id)
<1>1. /\ N \in Nat /\ DOMAIN m.executions = 1 .. N
      /\ DOMAIN n.executions = 1 .. N + 1 /\ n.executions[N + 1] = e
      /\ \A i \in 1 .. N : n.executions[i] = m.executions[i]
  BY HistoryFacts, AppendProperties, LenProperties
<1>2. \A id : id # e.id => Attempts(n, id) = Attempts(m, id)
  BY <1>1 DEF Attempts
<1>3. Attempts(n, e.id) = used \cup {N + 1}
  BY <1>1 DEF Attempts
<1>4. /\ used \subseteq 1 .. N /\ IsFiniteSet(used) /\ Cardinality(used) \in Nat
      /\ used # {} => LastOf(used) \in used
  BY AttemptFacts
<1>5. Cardinality(Attempts(n, e.id)) = Cardinality(used) + 1
  <2> HIDE DEF used
  <2>1. N + 1 \notin used
    BY <1>1, <1>4
  <2>2. Cardinality(used \cup {N + 1}) = Cardinality(used) + 1
    BY <1>4, <2>1, FS_AddElement
  <2> QED
    BY <1>3, <2>2
<1>6. LastOf(Attempts(n, e.id)) = N + 1
  <2>1. /\ LastOf(Attempts(n, e.id)) \in used \cup {N + 1}
        /\ N + 1 <= LastOf(Attempts(n, e.id))
    BY <1>3, AttemptFacts
  <2> QED
    BY <1>1, <1>4, <2>1
<1>7. \A t \in DOMAIN m.steps : FindStep(n, t) = FindStep(m, t)
  BY DEF FindStep
<1>8. ASSUME NEW id \in StepIds PROVE IdChain(n, id)
  <2>1. IdChain(m, id) /\ Attempts(m, id) \subseteq 1 .. N
    BY AttemptFacts DEF Chain
  <2>2. CASE id # e.id
    <3>1. Attempts(n, id) = Attempts(m, id)
      BY <1>2, <2>2
    <3>2. \A d \in Attempts(m, id) : n.executions[d] = m.executions[d]
      BY <1>1, <2>1
    <3> HIDE DEF Records
    <3> QED
      BY <2>1, <3>1, <3>2 DEF IdChain
  <2>3. CASE id = e.id
    <3>3. Cardinality(Attempts(n, id)) <= MaxAttempts
      BY <1>4, <1>5, <2>3, AttemptsAssumption
    <3> SUFFICES ASSUME NEW d \in used \cup {N + 1}
                 PROVE  LET before == {c \in Attempts(n, id) : c < d}
                        IN  /\ n.executions[d].attempt = Cardinality(before) + 1
                            /\ n.executions[d].retry_of = LastOf(before)
                            /\ d # N + 1 => n.executions[d].status = "failed"
      BY <1>3, <1>6, <2>3, <3>3 DEF IdChain
    <3>1. CASE d = N + 1
      <4>1. {c \in Attempts(n, id) : c < d} = used
        BY <1>1, <1>3, <1>4, <2>3, <3>1
      <4> QED
        BY <1>1, <3>1, <4>1
    <3>2. CASE d \in used
      <4>1. {c \in Attempts(n, id) : c < d} = {c \in Attempts(m, id) : c < d}
        BY <1>1, <1>3, <1>4, <2>3, <3>2
      <4>2. n.executions[d] = m.executions[d]
        BY <1>1, <1>4, <3>2
      <4>3. /\ m.executions[d].attempt = Cardinality({c \in Attempts(m, id) : c < d}) + 1
            /\ m.executions[d].retry_of = LastOf({c \in Attempts(m, id) : c < d})
            /\ d # LastOf(used) => m.executions[d].status = "failed"
        BY <2>1, <2>3, <3>2 DEF IdChain
      <4>4. m.executions[d].status = "failed"
        BY <3>2, <4>3
      <4> QED
        BY <4>1, <4>2, <4>3, <4>4
    <3> QED
      BY <3>1, <3>2
  <2> QED
    BY <2>2, <2>3
<1>9. Shown(n)
  <2> SUFFICES ASSUME NEW t \in DOMAIN m.steps, FindStep(m, t), Attempts(n, m.steps[t].id) # {}
               PROVE  n.steps[t].status = n.executions[LastOf(Attempts(n, m.steps[t].id))].status
    BY <1>7 DEF Shown
  <2>1. CASE m.steps[t].id = e.id
    <3>1. t = s
      <4>1. t <= s /\ s <= t
        BY <2>1 DEF FindStep
      <4> QED
        BY <4>1, HistoryFacts
    <3> QED
      BY <1>1, <1>6, <2>1, <3>1
  <2>2. CASE m.steps[t].id # e.id
    <3>1. Attempts(n, m.steps[t].id) = Attempts(m, m.steps[t].id)
      BY <1>2, <2>2
    <3>2. LastOf(Attempts(m, m.steps[t].id)) \in 1 .. N
      BY <3>1, AttemptFacts
    <3>3. m.steps[t].status = m.executions[LastOf(Attempts(m, m.steps[t].id))].status
      BY <3>1 DEF Chain, Shown
    <3> QED
      BY <1>1, <2>2, <3>1, <3>2, <3>3
  <2> QED
    BY <2>1, <2>2
<1>10. Owned(n)
  <2> SUFFICES ASSUME NEW i \in 1 .. N + 1
               PROVE  \E t \in DOMAIN m.steps : n.steps[t].id = n.executions[i].id
    BY <1>1 DEF Owned
  <2>1. CASE i = N + 1
    BY <1>1, <2>1
  <2>2. CASE i \in 1 .. N
    BY <1>1, <2>2 DEF Chain, Owned
  <2> QED
    BY <1>1, <2>1, <2>2
<1>11. \A r : Allowed(m, r) => Allowed(n, r)
  BY <1>7 DEF Allowed
<1> QED
  BY <1>2, <1>3, <1>5, <1>8, <1>9, <1>10, <1>11 DEF Chain

\* The run with the record of the attempt in flight.
LEMMA RecordedFacts ==
  ASSUME TypeOK, HInv, InFlight, work.step \in DOMAIN mem.steps,
         NEW status \in {"completed", "failed"}
  PROVE  /\ Executed(status) \in Run
         /\ Chain(Executed(status))
         /\ \A r : Allowed(mem, r) => Allowed(Executed(status), r)
         /\ \A id : id # mem.steps[work.step].id =>
              Attempts(Executed(status), id) = Attempts(mem, id)
         /\ Attempts(mem, mem.steps[work.step].id)
              \subseteq Attempts(Executed(status), mem.steps[work.step].id)
         /\ Cardinality(Attempts(Executed(status), mem.steps[work.step].id)) =
              Cardinality(Attempts(mem, mem.steps[work.step].id)) + 1
<1> DEFINE e    == [id |-> mem.steps[work.step].id, attempt |-> work.attempt,
                    retry_of |-> work.retry_of, status |-> status]
           step == [mem.steps[work.step] EXCEPT !.status = status]
           n    == Executed(status)
<1>1. /\ mem \in Run /\ n \in Run /\ Chain(mem)
      /\ mem.steps \in Seq(Step) /\ mem.steps[work.step] \in Step
      /\ DOMAIN mem.steps = 1 .. Len(mem.steps)
  BY ExecutedFacts, HistoryFacts DEF TypeOK, HInv, ChainInv
<1>2. /\ FindStep(mem, work.step)
      /\ work.attempt = Cardinality(Attempts(mem, mem.steps[work.step].id)) + 1
      /\ work.retry_of = LastOf(Attempts(mem, mem.steps[work.step].id))
      /\ Cardinality(Attempts(mem, mem.steps[work.step].id)) < MaxAttempts
      /\ Attempts(mem, mem.steps[work.step].id) # {} =>
           mem.executions[LastOf(Attempts(mem, mem.steps[work.step].id))].status = "failed"
  BY DEF HInv, WorkInv
<1>3. e \in Execution /\ step \in Step /\ step.status = status
      /\ step.id = mem.steps[work.step].id /\ step.allowed = mem.steps[work.step].allowed
  BY <1>1 DEF Execution, Step, StepStatuses, TypeOK, Work
<1>4. /\ n.executions = Append(mem.executions, e)
      /\ n.steps = [mem.steps EXCEPT ![work.step] = step]
  BY <1>1 DEF Executed, Run
<1>5. /\ e.id = mem.steps[work.step].id /\ e.attempt = work.attempt
      /\ e.retry_of = work.retry_of /\ e.status = status
  OBVIOUS
<1> HIDE DEF e, step, n
<1>6. /\ DOMAIN n.steps = DOMAIN mem.steps
      /\ n.steps[work.step] = step
      /\ \A t \in DOMAIN mem.steps : t # work.step => n.steps[t] = mem.steps[t]
  BY <1>1, <1>4
<1>7. /\ \A t \in DOMAIN mem.steps : /\ n.steps[t].id = mem.steps[t].id
                                     /\ n.steps[t].allowed = mem.steps[t].allowed
                                     /\ t # work.step => n.steps[t].status = mem.steps[t].status
      /\ n.steps[work.step].status = e.status
  BY <1>3, <1>5, <1>6
<1>9. /\ FindStep(mem, work.step) /\ e.id = mem.steps[work.step].id
      /\ e.attempt = Cardinality(Attempts(mem, e.id)) + 1
      /\ e.retry_of = LastOf(Attempts(mem, e.id))
      /\ Cardinality(Attempts(mem, e.id)) < MaxAttempts
      /\ Attempts(mem, e.id) # {} => mem.executions[LastOf(Attempts(mem, e.id))].status = "failed"
  BY <1>2, <1>5
<1>8. /\ Chain(n)
      /\ \A r : Allowed(mem, r) => Allowed(n, r)
      /\ \A id : id # e.id => Attempts(n, id) = Attempts(mem, id)
      /\ Attempts(mem, e.id) \subseteq Attempts(n, e.id)
      /\ Cardinality(Attempts(n, e.id)) = Cardinality(Attempts(mem, e.id)) + 1
  <2>1. /\ mem \in Run /\ n \in Run /\ work.step \in DOMAIN mem.steps /\ e \in Execution
        /\ Chain(mem)
    BY <1>1, <1>3
  <2>2. Records(mem, n, work.step, e)
    BY <1>4, <1>6, <1>7, <1>9 DEF Records
  <2> QED
    BY <2>1, <2>2, AppendedExecution
<1> QED
  BY <1>1, <1>5, <1>8 DEF n

\* The execution is recorded, or its write fails.
LEMMA RecordedStep == ASSUME IInv, IInv', HInv, NoAdapter \/ CommandEnds PROVE HInv'
<1> DEFINE own == mem.steps[work.step].id
<1>1. /\ mem \in Run /\ disk \in Run /\ ran \in [StepIds -> Nat] /\ faults \in Nat
      /\ work \in Work /\ work.stage \in {"adapter", "running"} /\ ran' = ran
      /\ TypeOK
  BY DEF IInv, TypeOK, NoAdapter, CommandEnds
<1>2. work.step \in DOMAIN mem.steps /\ InFlight
  BY <1>1 DEF IInv, StepInv, Holding, InFlight
<1>3. PICK status \in {"completed", "failed"} : RecordExecution(status)
  BY DEF NoAdapter, CommandEnds
<1>4. /\ mem' = Executed(status)
      /\ \/ disk' = mem' /\ work' = [work EXCEPT !.stage = "recorded"] /\ faults' = faults
         \/ disk' = disk /\ work' = [work EXCEPT !.stage = "failed"] /\ faults' = faults + 1
  BY <1>3 DEF RecordExecution, Save, SaveFails
<1>5. work'.stage \in {"recorded", "failed"} /\ (work'.stage = "failed" <=> disk' # mem' \/ faults' # faults)
  BY <1>1, <1>4 DEF Work
<1>6. disk.steps = mem.steps /\ disk.executions = mem.executions
  BY <1>1 DEF HInv, SyncInv
<1>7. \A id : Attempts(disk, id) = Attempts(mem, id)
  BY <1>6 DEF Attempts
<1>8. /\ Chain(mem')
      /\ \A r : Allowed(mem, r) => Allowed(mem', r)
      /\ \A id : id # own => Attempts(mem', id) = Attempts(mem, id)
      /\ Attempts(mem, own) \subseteq Attempts(mem', own)
      /\ Cardinality(Attempts(mem', own)) = Cardinality(Attempts(mem, own)) + 1
  BY <1>1, <1>2, <1>4, RecordedFacts
<1>9. /\ \A id : Attempts(mem, id)' = Attempts(mem', id)
      /\ \A id : Attempts(disk, id)' = Attempts(disk', id)
  BY DEF Attempts
<1>10. Chain(mem') /\ Chain(disk') /\ Allowed(mem', ran') /\ Allowed(disk', ran')
  BY <1>1, <1>4, <1>8 DEF HInv, ChainInv, AllowedInv
<1>11. ChainInv' /\ AllowedInv'
  BY <1>10 DEF ChainInv, AllowedInv, Chain, Allowed, IdChain, Shown, Owned, Attempts, FindStep
<1>12. SyncInv' /\ WorkInv'
  BY <1>4, <1>5 DEF SyncInv, WorkInv, InFlight
<1>13. GrowInv'
  BY <1>4, <1>7, <1>8, <1>9 DEF GrowInv
<1>15. disk' \in Run
  BY DEF IInv, TypeOK
<1>14. CountInv'
  <2> SUFFICES ASSUME NEW id \in StepIds
               PROVE  ran[id] <= Cardinality(Attempts(disk', id)) + faults'
    <3>1. \A i \in StepIds : ran[i] \in Nat /\ Cardinality(Attempts(disk', i)) \in Nat
      BY <1>1, <1>15, AttemptFacts
    <3>2. faults' \in Nat /\ work'.stage # "running"
      BY <1>1, <1>4, <1>5
    <3>3. \A i \in StepIds : Cardinality(Attempts(disk, i))' = Cardinality(Attempts(disk', i))
      BY <1>9
    <3> QED
      BY <1>1, <3>1, <3>2, <3>3 DEF CountInv
  <2>1. /\ ran[id] <= Cardinality(Attempts(disk, id)) + faults + IF id = own THEN 1 ELSE 0
        /\ ran[id] \in Nat /\ Cardinality(Attempts(disk, id)) \in Nat
    <3>1. ran[id] \in Nat /\ Cardinality(Attempts(disk, id)) \in Nat
      BY <1>1, AttemptFacts
    <3>2. ran[id] <= Cardinality(Attempts(disk, id)) + faults
                       + IF work.stage = "running" /\ id = own THEN 1 ELSE 0
      BY DEF HInv, CountInv
    <3> QED
      BY <1>1, <3>1, <3>2
  <2>2. CASE disk' = disk /\ faults' = faults + 1
    BY <1>1, <2>1, <2>2
  <2>3. CASE disk' = mem' /\ faults' = faults
    <3>1. CASE id = own
      BY <1>1, <1>7, <1>8, <2>1, <2>3, <3>1
    <3>2. CASE id # own
      BY <1>1, <1>7, <1>8, <2>1, <2>3, <3>2
    <3> QED
      BY <3>1, <3>2
  <2> QED
    BY <1>4, <2>2, <2>3
<1> QED
  BY <1>11, <1>12, <1>13, <1>14 DEF HInv

\* A crash loses the start of the command that was running; the fault accounts for it.
LEMMA LostStep == ASSUME IInv, IInv', HInv, Crash PROVE HInv'
<1>1. /\ mem' = disk /\ disk' = disk /\ work' = Idle /\ ran' = ran /\ faults' = faults + 1
      /\ disk \in Run /\ ran \in [StepIds -> Nat] /\ faults \in Nat
  BY DEF Crash, IInv, TypeOK
<1>2. Chain(mem') /\ Chain(disk') /\ Allowed(mem', ran') /\ Allowed(disk', ran')
  BY <1>1 DEF HInv, ChainInv, AllowedInv
<1>3. ChainInv' /\ AllowedInv'
  BY <1>2 DEF ChainInv, AllowedInv, Chain, Allowed, IdChain, Shown, Owned, Attempts, FindStep
<1>4. SyncInv' /\ GrowInv' /\ WorkInv'
  BY <1>1 DEF SyncInv, GrowInv, WorkInv, InFlight, Attempts, Idle
<1>5. CountInv'
  <2> SUFFICES ASSUME NEW id \in StepIds
               PROVE  ran[id] <= Cardinality(Attempts(disk, id)) + (faults + 1) + 0
    <3>2. \A i \in StepIds : Attempts(disk, i)' = Attempts(disk, i)
      BY <1>1 DEF Attempts
    <3> QED
      BY <1>1, <3>2 DEF CountInv, Idle
  <2>1. /\ ran[id] <= Cardinality(Attempts(disk, id)) + faults
               + IF work.stage = "running" /\ id = mem.steps[work.step].id THEN 1 ELSE 0
    BY DEF HInv, CountInv
  <2>2. ran[id] \in Nat /\ Cardinality(Attempts(disk, id)) \in Nat
    BY <1>1, AttemptFacts
  <2> QED
    BY <1>1, <2>1, <2>2
<1> QED
  BY <1>3, <1>4, <1>5 DEF HInv

-----------------------------------------------------------------------------
\* The stages and the steps of the world that leave the history alone.
LEMMA QuietSteps ==
  ASSUME IInv, IInv', HInv,
         RecoverLocks \/ TellRecovered \/ RecoverDone \/ LockConflict \/ AcquireLock \/ RefuseStep
           \/ LaterWriteFails \/ ReleaseLock \/ FailLock \/ Lapse \/ OrphanEnds
  PROVE  HInv'
<1>1. /\ mem \in Run /\ Live(mem) \subseteq {Len(mem.locks)} /\ faults \in Nat /\ work \in Work
      /\ Len(mem.locks) \in Nat /\ OwnLock = Len(mem.locks) /\ DOMAIN mem.locks = 1 .. Len(mem.locks)
  BY Tables DEF IInv, TypeOK, LiveInv
<1>2. CASE RecoverLocks
  <2>1. mem'.steps = mem.steps /\ mem'.executions = mem.executions
    BY <1>1, <1>2, RecoveredFacts DEF RecoverLocks
  <2> QED
    BY <1>1, <1>2, <2>1, QuietStep DEF RecoverLocks, InFlight, Idle
<1>3. CASE TellRecovered
  <2>1. work.todo \subseteq 1 .. Len(mem.locks) /\ work.todo # {}
    BY <1>1, <1>3 DEF TellRecovered, IInv, TodoInv
  <2>2. FirstOf(work.todo) \in 1 .. Len(mem.locks)
    BY <1>1, <2>1, FirstFacts
  <2>3. mem' = Told(mem, FirstOf(work.todo))
    BY <1>3 DEF TellRecovered, Save, Told
  <2>4. mem'.steps = mem.steps /\ mem'.executions = mem.executions
    BY <1>1, <2>2, <2>3, ToldFacts
  <2>5. /\ work' = [work EXCEPT !.todo = work.todo \ {FirstOf(work.todo)}]
        /\ disk' = mem' /\ UNCHANGED <<ran, faults>> /\ work.stage = "recover"
    BY <1>3 DEF TellRecovered, Save
  <2>6. /\ work'.stage = work.stage /\ work'.step = work.step
        /\ work'.attempt = work.attempt /\ work'.retry_of = work.retry_of
    BY <1>1, <2>5 DEF Work
  <2> QED
    BY <1>1, <2>4, <2>5, <2>6, QuietStep DEF InFlight
<1>4. CASE RecoverDone
  BY <1>1, <1>4, QuietStep DEF RecoverDone, Save, InFlight, Idle
<1>5. CASE LockConflict
  <2>1. mem'.steps = mem.steps /\ mem'.executions = mem.executions
    BY <1>1, <1>5 DEF LockConflict, Run
  <2> QED
    BY <1>1, <1>5, <2>1, QuietStep DEF LockConflict, InFlight, Idle
<1>6. CASE AcquireLock
  <2>1. mem' = Taken(mem)
    BY <1>6 DEF AcquireLock, Save, Taken
  <2>2. mem'.steps = mem.steps /\ mem'.executions = mem.executions
    BY <1>1, <2>1, TakenFacts
  <2>3. /\ work' = [work EXCEPT !.stage = "adapter"]
        /\ disk' = mem' /\ UNCHANGED <<ran, faults>> /\ work.stage = "recover"
    BY <1>6 DEF AcquireLock, Save
  <2>4. /\ work'.stage = "adapter" /\ work'.step = work.step
        /\ work'.attempt = work.attempt /\ work'.retry_of = work.retry_of
    BY <1>1, <2>3 DEF Work
  <2> QED
    BY <1>1, <2>2, <2>3, <2>4, QuietStep DEF InFlight
<1>7. CASE RefuseStep
  BY <1>1, <1>7, QuietStep DEF RefuseStep, InFlight, Work
<1>8. CASE LaterWriteFails
  BY <1>1, <1>8, QuietStep DEF LaterWriteFails, SaveFails, InFlight, Work
<1>9. CASE ReleaseLock \/ FailLock
  <2>1. OwnLock \in 1 .. Len(mem.locks)
    BY <1>1, <1>9 DEF ReleaseLock, FailLock, IInv, OwnInv, Holding
  <2>2. PICK status \in {"released", "failed"} :
          /\ mem' = Ended(mem, OwnLock, status)
          /\ \/ disk' = mem' /\ work' = Idle /\ faults' = faults
             \/ /\ work.stage = "recorded" /\ disk' = disk
                /\ work' = [work EXCEPT !.stage = "failed"] /\ faults' = faults + 1
    BY <1>9 DEF ReleaseLock, FailLock, Save, SaveFails
  <2>3. mem'.steps = mem.steps /\ mem'.executions = mem.executions
    BY <1>1, <2>1, <2>2, EndedFacts DEF LockStatuses
  <2>4. work.stage \in {"recorded", "failed"} /\ ran' = ran
    BY <1>9 DEF ReleaseLock, FailLock
  <2>5. work'.stage \in {"idle", "failed"}
    BY <1>1, <2>2 DEF Work, Idle
  <2> QED
    BY <1>1, <2>2, <2>3, <2>4, <2>5, QuietStep DEF InFlight
<1>10. CASE Lapse
  BY <1>1, <1>10, QuietStep DEF Lapse, InFlight
<1>11. CASE OrphanEnds
  BY <1>1, <1>11, QuietStep DEF OrphanEnds, InFlight
<1> QED
  BY <1>2, <1>3, <1>4, <1>5, <1>6, <1>7, <1>8, <1>9, <1>10, <1>11

\* At first nothing was recorded and nothing has worked.
LEMMA InitHInv == Init => HInv
<1> SUFFICES ASSUME Init PROVE HInv
  OBVIOUS
<1>1. /\ mem = NewRun /\ disk = NewRun /\ work = Idle /\ faults = 0
      /\ ran = [id \in StepIds |-> 0]
      /\ NewRun.steps = << >> /\ NewRun.executions = << >>
      /\ DOMAIN NewRun.steps = {} /\ DOMAIN NewRun.executions = {}
  BY DEF Init, NewRun
<1>2. \A id : Attempts(NewRun, id) = {}
  BY <1>1 DEF Attempts
<1>3. Chain(NewRun)
  BY <1>1, <1>2, FS_EmptySet, AttemptsAssumption DEF Chain, IdChain, Shown, Owned
<1>4. CountInv
  <2> SUFFICES ASSUME NEW id \in StepIds
               PROVE  0 <= Cardinality(Attempts(NewRun, id)) + 0 + 0
    BY <1>1 DEF CountInv, Idle
  <2> QED
    BY <1>2, FS_EmptySet
<1> QED
  BY <1>1, <1>2, <1>3, <1>4
     DEF HInv, SyncInv, GrowInv, ChainInv, WorkInv, InFlight, Idle, AllowedInv, Allowed

\* Every step keeps the history.
LEMMA NextHInv == ASSUME IInv, IInv', HInv, [Next]_vars PROVE HInv'
<1>1. CASE Next
  BY <1>1, NewStep, BeginStep, CommandStarts, RecordedStep, LostStep, QuietSteps
     DEF Next, Handler
<1>2. CASE UNCHANGED vars
  <2>1. faults \in Nat
    BY DEF IInv, TypeOK
  <2> QED
    BY <1>2, <2>1, QuietStep DEF vars, InFlight
<1> QED
  BY <1>1, <1>2

\* What a handler decided on stays true until it records the attempt, and the snapshot
\* is behind memory by one execution at most, in every state.
THEOREM HistoryInvariant == Spec => []HInv
<1>1. IInv /\ IInv' /\ HInv /\ [Next]_vars => HInv'
  BY NextHInv
<1> QED
  BY <1>1, InitHInv, LockInvariant, PTL DEF Spec

\* The executions of a step id are a bounded chain of retries and its step shows the
\* last of them, in memory and on disk, although the handler that appends one made its
\* decision before it waited for locks and for the command.
THEOREM AttemptsChain == Spec => []AttemptsFormChain
<1>1. IInv /\ HInv => AttemptsFormChain
  <2> SUFFICES ASSUME IInv, HInv, NEW m \in {mem, disk}, NEW s \in DOMAIN m.steps
               PROVE  LET used == Attempts(m, m.steps[s].id)
                          before(e) == {d \in used : d < e}
                      IN  /\ Cardinality(used) <= MaxAttempts
                          /\ \A e \in used :
                               /\ m.executions[e].attempt = Cardinality(before(e)) + 1
                               /\ m.executions[e].retry_of = LastOf(before(e))
                               /\ e # LastOf(used) => m.executions[e].status = "failed"
                          /\ used # {} /\ FindStep(m, s) =>
                               m.steps[s].status = m.executions[LastOf(used)].status
    BY DEF AttemptsFormChain
  <2>1. m \in Run /\ Chain(m)
    BY DEF IInv, TypeOK, HInv, ChainInv
  <2>2. IdChain(m, m.steps[s].id) /\ Shown(m)
    BY <2>1, HistoryFacts DEF Chain
  <2> QED
    BY <2>2 DEF IdChain, Shown
<1> QED
  BY <1>1, LockInvariant, HistoryInvariant, PTL

\* Every start of a command is on record, running, or lost to a fault.
THEOREM StartsAreAccounted == Spec => []WorkIsAccounted
<1>1. IInv /\ HInv => WorkIsAccounted
  <2> SUFFICES ASSUME IInv, HInv, NEW id \in StepIds
               PROVE  ran[id] <= Cardinality(Attempts(disk, id)) + faults
                                   + IF work.stage = "running" THEN 1 ELSE 0
    BY DEF WorkIsAccounted
  <2>1. ran[id] \in Nat /\ faults \in Nat /\ Cardinality(Attempts(disk, id)) \in Nat
    BY AttemptFacts DEF IInv, TypeOK
  <2>2. ran[id] <= Cardinality(Attempts(disk, id)) + faults
               + IF work.stage = "running" /\ id = mem.steps[work.step].id THEN 1 ELSE 0
    BY DEF HInv, CountInv
  <2> QED
    BY <2>1, <2>2
<1> QED
  BY <1>1, LockInvariant, HistoryInvariant, PTL

\* An id the gate refused when it was first recorded never works, whatever is recorded
\* under it later and whatever a restart brings back.
THEOREM RefusedNeverWorks == Spec => []RefusedStepsNeverWork
<1>1. IInv /\ HInv => RefusedStepsNeverWork
  <2> SUFFICES ASSUME IInv, HInv, NEW s \in DOMAIN mem.steps, ran[mem.steps[s].id] > 0
               PROVE  \E t \in 1 .. s : /\ mem.steps[t].id = mem.steps[s].id
                                        /\ mem.steps[t].allowed
                                        /\ \A u \in 1 .. t - 1 : mem.steps[u].id # mem.steps[s].id
    BY DEF RefusedStepsNeverWork
  <2>1. /\ DOMAIN mem.steps = 1 .. Len(mem.steps) /\ Len(mem.steps) \in Nat
        /\ mem.steps[s].id \in StepIds
    BY HistoryFacts DEF IInv, TypeOK
  <2>2. PICK t \in DOMAIN mem.steps : /\ mem.steps[t].id = mem.steps[s].id
                                      /\ mem.steps[t].allowed /\ FindStep(mem, t)
    BY <2>1 DEF HInv, AllowedInv, Allowed
  <2>3. \A u \in DOMAIN mem.steps : mem.steps[u].id = mem.steps[s].id => t <= u
    BY <2>2 DEF FindStep
  <2>4. t \in 1 .. s
    BY <2>1, <2>2, <2>3
  <2>5. \A u \in 1 .. t - 1 : mem.steps[u].id # mem.steps[s].id
    BY <2>1, <2>3, <2>4
  <2> QED
    BY <2>2, <2>4, <2>5
<1> QED
  BY <1>1, LockInvariant, HistoryInvariant, PTL

=============================================================================
