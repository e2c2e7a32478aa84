------------------------- MODULE RunEvidenceProofs -------------------------
(***************************************************************************)
(* Proofs about RunEvidence: what the record of a run says about goals,    *)
(* tool writes and workspace directories, for every number of tasks,       *)
(* records, waiting requests and faults.                                   *)
(*                                                                         *)
(* The handlers act first and record later, so none of the properties is   *)
(* inductive.  WorkInv says what the callback under way has done and not   *)
(* yet recorded; the other parts say it of the records, with the exception *)
(* of that one piece of work.  Most of them are about every record a       *)
(* reader can see, in the process or in the snapshot, because a handler    *)
(* changes one run object and saves or fails to save it.                   *)
(***************************************************************************)
EXTENDS RunEvidence, SequenceTheorems, FiniteSetTheorems,
        WellFoundedInduction, TLAPS

-----------------------------------------------------------------------------
\* The approval a write rests on
Approved(run, a) == /\ a \in DOMAIN run.approvals
                    /\ run.approvals[a] = [tool |-> "write", decision |-> "approve"]

\* The first verification of the id passed.
Proven(run, id) == \E v \in DOMAIN run.verifications :
                     /\ FirstOfId(run, v)
                     /\ run.verifications[v] = [id |-> id, result |-> "passed"]

GoalOk(run, g) == /\ run.goals[g].status = "completed" <=> run.goals[g].refs # << >>
                  /\ \A i \in DOMAIN run.goals[g].refs : Proven(run, run.goals[g].refs[i])
                  /\ run.goals[g].events <= Len(run.goals[g].refs)

WritesOk(run) == \A e \in RecordedWrites(run) : Approved(run, run.executions[e].approval)

RecordInv == \A run \in Records : WritesOk(run) /\ \A g \in Goals : GoalOk(run, g)

\* How many run objects there can be
CountInv == /\ created <= MaxRuns
            /\ Len(objs) <= created
            /\ objs = << >> <=> disk = << >>
            /\ faults = 0 /\ work.stage # "created" /\ objs = << >> => created = 0

\* A callback has made a write that is not on record yet.
WritePending == work.stage = "executed" /\ work.record.left # NoContent

\* What the callback under way found or did in its first part
WorkInv == /\ work.stage = "created" => work.dir \in Places /\ Len(objs) < created
           /\ work.stage = "removed" => objs # << >>
           /\ work.stage = "executed" => work.obj \in DOMAIN objs /\ work.record \in Execution
           /\ WritePending => Approved(objs[work.obj], work.record.approval)
           /\ work.stage = "completed" =>
                /\ work.obj \in DOMAIN objs /\ work.goal \in Goals
                /\ objs[work.obj].goals[work.goal].events < Len(objs[work.obj].goals[work.goal].refs)

\* Without faults the snapshot has the run in the map, and only the goal whose
\* completion is being recorded lacks an event.
EventDue(o, g) == IF work.stage = "completed" /\ work.obj = o /\ work.goal = g THEN 1 ELSE 0

EventInv == faults = 0 =>
  /\ \A i \in DOMAIN disk : disk[i] = objs[Len(objs)]
  /\ \A o \in DOMAIN objs, g \in Goals :
       objs[o].goals[g].events + EventDue(o, g) = Len(objs[o].goals[g].refs)

\* What was told is on every record of the only task.
ToldInv == /\ disk = << >> => \A g \in Goals : told[g] = 0
           /\ created <= 1 =>
                \A run \in Records, g \in Goals : told[g] <= run.goals[g].events

\* The writes of a record that do not continue it, and the content it ends with
Breaks(run) == Cardinality(Unlinked(run))
Now(run)    == LeftBefore(run, Len(run.executions) + 1)

\* No more breaks than disturbances; one less if content is not what the record ends with.
Linked(run, content, disturbances) ==
  /\ Breaks(run) <= disturbances
  /\ content \notin {NoContent, Now(run)} => Breaks(run) < disturbances

\* The run object with the write that is not on record yet
Recorded(run, rec) == [run EXCEPT !.executions = Append(@, rec)]
WithPending(o)     == IF WritePending /\ work.obj = o THEN Recorded(objs[o], work.record)
                                                     ELSE objs[o]

\* The file of the only task is what its record and the pending write say, but for
\* disturbances; a crash adds one and may take away what the snapshot lacks.
LinkInv == created <= 1 =>
  /\ objs = << >> => \A p \in Places : file[p] \notin {NoContent, Original} => 0 < faults + edits
  /\ \A run \in Records : Breaks(run) <= faults + edits
  /\ \A o \in DOMAIN objs : Linked(WithPending(o), file[objs[o].dir], faults + edits)

\* The writes that happened and the writes on record
AccountInv ==
  /\ disk = << >> => writes = 0
  /\ created <= 1 =>
       \A i \in DOMAIN disk :
         /\ writes <= Cardinality(RecordedWrites(disk[i])) + faults + IF WritePending THEN 1 ELSE 0
         /\ \A o \in DOMAIN objs : RecordedWrites(disk[i]) \subseteq RecordedWrites(objs[o])

\* The directory of the only task and what its run object says of it
DirsInv == faults = 0 /\ created <= 1 =>
  /\ created = 0 => dirs = {}
  /\ work.stage = "created" => /\ dirs \subseteq {work.dir}
                               /\ work.dir # Outside => work.dir \in dirs
  /\ \A o \in DOMAIN objs :
       /\ dirs \subseteq {objs[o].dir}
       /\ objs[o].cleaned /\ dirs # {} => RecordedWrites(objs[o]) # {} \/ WritePending
       /\ work.stage = "removed" => dirs = {}
       /\ objs[o].dir # Outside /\ ~objs[o].cleaned /\ work.stage # "removed" =>
            objs[o].dir \in dirs

IInv == TypeOK /\ RecordInv /\ CountInv /\ WorkInv /\ EventInv /\ ToldInv /\ LinkInv
        /\ AccountInv /\ DirsInv

-----------------------------------------------------------------------------
\* The fields of a run object
LEMMA RunFacts ==
  ASSUME NEW run \in Run
  PROVE  /\ run.dir \in Places /\ run.cleaned \in BOOLEAN /\ run.goals \in [Goals -> Goal]
         /\ run.verifications \in Seq(Verification) /\ run.approvals \in Seq(Approval)
         /\ run.executions \in Seq(Execution)
         /\ Len(run.verifications) \in Nat /\ Len(run.approvals) \in Nat
         /\ Len(run.executions) \in Nat
         /\ DOMAIN run.verifications = 1 .. Len(run.verifications)
         /\ DOMAIN run.approvals = 1 .. Len(run.approvals)
         /\ DOMAIN run.executions = 1 .. Len(run.executions)
<1>1. /\ run.dir \in Places /\ run.cleaned \in BOOLEAN /\ run.goals \in [Goals -> Goal]
      /\ run.verifications \in Seq(Verification) /\ run.approvals \in Seq(Approval)
      /\ run.executions \in Seq(Execution)
  BY DEF Run
<1> QED
  BY <1>1, LenProperties

\* The goals of a run object
LEMMA GoalFacts ==
  ASSUME NEW run \in Run, NEW g \in Goals
  PROVE  /\ run.goals[g] \in Goal
         /\ run.goals[g].status \in {"pending", "completed"}
         /\ run.goals[g].refs \in Seq(VerificationIds) /\ Len(run.goals[g].refs) \in Nat
         /\ DOMAIN run.goals[g].refs = 1 .. Len(run.goals[g].refs)
         /\ run.goals[g].events \in Nat
<1>1. run.goals[g] \in Goal
  BY RunFacts
<1>2. /\ run.goals[g].status \in {"pending", "completed"}
      /\ run.goals[g].refs \in Seq(VerificationIds) /\ run.goals[g].events \in Nat
  BY <1>1 DEF Goal
<1> QED
  BY <1>1, <1>2, LenProperties

\* The executions of a run object; those that wrote are finitely many.
LEMMA ExecutionFacts ==
  ASSUME NEW run \in Run
  PROVE  /\ \A e \in DOMAIN run.executions :
              /\ run.executions[e] \in Execution
              /\ run.executions[e].approval \in Nat /\ run.executions[e].left \in Held
              /\ run.executions[e].expected \in Held
         /\ RecordedWrites(run) \subseteq 1 .. Len(run.executions)
         /\ IsFiniteSet(RecordedWrites(run))
         /\ Cardinality(RecordedWrites(run)) \in Nat
<1>1. /\ run.executions \in Seq(Execution) /\ Len(run.executions) \in Nat
      /\ DOMAIN run.executions = 1 .. Len(run.executions)
  BY RunFacts
<1>2. \A e \in DOMAIN run.executions : run.executions[e] \in Execution
  BY <1>1, ElementOfSeq
<1>3. RecordedWrites(run) \subseteq 1 .. Len(run.executions)
  BY <1>1 DEF RecordedWrites
<1>4. IsFiniteSet(RecordedWrites(run))
  <2>1. IsFiniteSet(1 .. Len(run.executions))
    BY <1>1, FS_Interval
  <2>2. RecordedWrites(run) \in SUBSET (1 .. Len(run.executions))
    BY <1>3
  <2> QED
    BY <2>1, <2>2, FS_Subset
<1> QED
  BY <1>2, <1>3, <1>4, FS_CardinalityType DEF Execution

\* The run objects of the process and of the snapshot
LEMMA TableFacts ==
  ASSUME TypeOK
  PROVE  /\ Len(objs) \in Nat /\ DOMAIN objs = 1 .. Len(objs)
         /\ \A o \in DOMAIN objs : objs[o] \in Run /\ objs[o] \in Records
         /\ Len(disk) \in 0 .. 1 /\ DOMAIN disk = 1 .. Len(disk)
         /\ \A i \in DOMAIN disk : disk[i] \in Run /\ disk[i] \in Records
         /\ disk # << >> => DOMAIN disk = {1} /\ disk = << disk[1] >>
         /\ objs # << >> => Len(objs) \in DOMAIN objs
         /\ \A run \in Records : run \in Run
         /\ {writes, created, faults, edits} \subseteq Nat
         /\ told \in [Goals -> Nat]
<1>1. /\ objs \in Seq(Run) /\ disk \in Seq(Run) /\ Len(disk) <= 1
      /\ {writes, created, faults, edits} \subseteq Nat /\ told \in [Goals -> Nat]
  BY DEF TypeOK
<1>2. /\ Len(objs) \in Nat /\ DOMAIN objs = 1 .. Len(objs)
      /\ Len(disk) \in Nat /\ DOMAIN disk = 1 .. Len(disk)
  BY <1>1, LenProperties
<1>3. /\ \A o \in DOMAIN objs : objs[o] \in Run
      /\ \A i \in DOMAIN disk : disk[i] \in Run
  BY <1>1, <1>2, ElementOfSeq
<1>4. disk # << >> => DOMAIN disk = {1} /\ disk = << disk[1] >>
  BY <1>1, <1>2, EmptySeq
<1>5. objs # << >> => Len(objs) \in DOMAIN objs
  BY <1>1, <1>2, EmptySeq
<1> QED
  BY <1>1, <1>2, <1>3, <1>4, <1>5 DEF Records

\* The links of a record depend on its executions only.
LEMMA SameLinks ==
  ASSUME NEW r \in Run, NEW s \in Run, r.executions = s.executions
  PROVE  Breaks(r) = Breaks(s) /\ Now(r) = Now(s)
<1>1. RecordedWrites(r) = RecordedWrites(s)
  BY DEF RecordedWrites
<1>2. \A e : LeftBefore(r, e) = LeftBefore(s, e)
  BY <1>1 DEF LeftBefore
<1>3. Unlinked(r) = Unlinked(s)
  BY <1>1, <1>2 DEF Unlinked
<1> QED
  BY <1>2, <1>3 DEF Breaks, Now

LEMMA LinkFacts ==
  ASSUME NEW run \in Run
  PROVE  IsFiniteSet(Unlinked(run)) /\ Breaks(run) \in Nat
<1>1. IsFiniteSet(RecordedWrites(run)) /\ Unlinked(run) \in SUBSET RecordedWrites(run)
  BY ExecutionFacts DEF Unlinked
<1> QED
  BY <1>1, FS_Subset, FS_CardinalityType DEF Breaks

\* A set of positions has a last one.
LEMMA LastPosition ==
  ASSUME NEW n \in Nat, NEW S \in SUBSET (1 .. n), S # {}
  PROVE  Max(S) \in S /\ \A y \in S : y <= Max(S)
<1> DEFINE T == {n - d : d \in S}
<1>1. T \in SUBSET Nat /\ T # {}
  <2>1. \A d \in S : n - d \in Nat
    OBVIOUS
  <2> QED
    BY <2>1
<1>2. PICK t \in T : \A u \in T : t <= u
  <2> HIDE DEF T
  <2>1. PICK t \in T : \A u \in T : ~(<<u, t>> \in OpToRel(<, Nat))
    BY <1>1, WFMin, NatLessThanWellFounded
  <2>2. \A u \in T : ~(u < t)
    BY <1>1, <2>1 DEF OpToRel
  <2> QED
    BY <1>1, <2>2
<1>3. PICK x \in S : t = n - x
  BY <1>2
<1>4. \A y \in S : n - x <= n - y
  BY <1>2, <1>3
<1>5. \A y \in S : x >= y
  <2> SUFFICES ASSUME NEW y \in S PROVE x >= y
    OBVIOUS
  <2>1. x \in Nat /\ y \in Nat /\ n - x <= n - y
    BY <1>4
  <2> QED
    BY ONLY n \in Nat, <2>1
<1>6. Max(S) \in S /\ \A y \in S : Max(S) >= y
  BY <1>5 DEF Max
<1> QED
  BY <1>6

\* A record one execution longer
LEMMA LongerRecord ==
  ASSUME NEW run \in Run, NEW rec \in Execution
  PROVE  /\ Recorded(run, rec) \in Run
         /\ Recorded(run, rec).executions = Append(run.executions, rec)
         /\ Recorded(run, rec).dir = run.dir
         /\ Len(run.executions) \in Nat
         /\ Len(Recorded(run, rec).executions) = Len(run.executions) + 1
         /\ Recorded(run, rec).executions[Len(run.executions) + 1] = rec
         /\ \A e \in 1 .. Len(run.executions) :
              Recorded(run, rec).executions[e] = run.executions[e]
         /\ RecordedWrites(Recorded(run, rec)) =
              IF rec.left = NoContent THEN RecordedWrites(run)
                                      ELSE RecordedWrites(run) \cup {Len(run.executions) + 1}
         /\ RecordedWrites(run) \subseteq 1 .. Len(run.executions)
         /\ \A e \in 1 .. Len(run.executions) + 1 :
              LeftBefore(Recorded(run, rec), e) = LeftBefore(run, e)
<1> DEFINE r == Recorded(run, rec)
           n == Len(run.executions)
<1>1. /\ run.executions \in Seq(Execution) /\ n \in Nat
      /\ DOMAIN run.executions = 1 .. n
  BY RunFacts
<1>2. r \in Run /\ r.executions = Append(run.executions, rec) /\ r.dir = run.dir
  <2>1. Append(run.executions, rec) \in Seq(Execution)
    BY <1>1
  <2> QED
    BY <2>1 DEF Recorded, Run
<1> HIDE DEF r
<1>3. /\ Len(r.executions) = n + 1 /\ DOMAIN r.executions = 1 .. n + 1
      /\ r.executions[n + 1] = rec
      /\ \A e \in 1 .. n : r.executions[e] = run.executions[e]
  BY <1>1, <1>2
<1> HIDE DEF n
<1>4. RecordedWrites(r) = IF rec.left = NoContent THEN RecordedWrites(run)
                                                 ELSE RecordedWrites(run) \cup {n + 1}
  <2>1. \A e : e \in 1 .. n + 1 <=> e \in 1 .. n \/ e = n + 1
    BY <1>1
  <2>2. n + 1 \notin 1 .. n
    BY <1>1
  <2>3. \A e : e \in RecordedWrites(r) <=> e \in RecordedWrites(run)
                                             \/ (e = n + 1 /\ rec.left # NoContent)
    <3> SUFFICES ASSUME NEW e
                 PROVE  e \in RecordedWrites(r) <=> e \in RecordedWrites(run)
                                                    \/ (e = n + 1 /\ rec.left # NoContent)
      OBVIOUS
    <3>1. CASE e \in 1 .. n
      <4>1. e # n + 1 /\ e \in 1 .. n + 1 /\ r.executions[e] = run.executions[e]
        BY <1>3, <2>1, <2>2, <3>1
      <4>2. e \in DOMAIN r.executions /\ e \in DOMAIN run.executions
        BY <1>1, <1>3, <3>1, <4>1
      <4> QED
        BY ONLY <4>1, <4>2 DEF RecordedWrites
    <3>2. CASE e = n + 1
      BY <1>1, <1>3, <2>1, <2>2, <3>2 DEF RecordedWrites
    <3>3. CASE e \notin 1 .. n + 1
      BY <1>1, <1>3, <2>1, <3>3 DEF RecordedWrites
    <3> QED
      BY <2>1, <3>1, <3>2, <3>3
  <2>4. CASE rec.left = NoContent
    <3>1. \A e : e \in RecordedWrites(r) <=> e \in RecordedWrites(run)
      BY ONLY <2>3, <2>4
    <3>2. RecordedWrites(r) = RecordedWrites(run)
      BY ONLY <3>1
    <3> QED
      BY <2>4, <3>2
  <2>5. CASE rec.left # NoContent
    <3>1. RecordedWrites(r) = RecordedWrites(run) \cup {n + 1}
      BY <2>3, <2>5
    <3> QED
      BY <2>5, <3>1
  <2> QED
    BY <2>4, <2>5
<1>5. RecordedWrites(run) \subseteq 1 .. n
  BY <1>1 DEF RecordedWrites
<1>6. ASSUME NEW e \in 1 .. n + 1
      PROVE  LeftBefore(r, e) = LeftBefore(run, e)
  <2> DEFINE earlier == {d \in RecordedWrites(run) : d < e}
  <2>1. {d \in RecordedWrites(r) : d < e} = earlier
    BY <1>1, <1>4
  <2>2. ASSUME earlier # {} PROVE Max(earlier) \in 1 .. n
    <3>1. earlier \in SUBSET (1 .. n)
      BY <1>5
    <3> HIDE DEF earlier
    <3> QED
      BY <1>1, <2>2, <3>1, LastPosition
  <2> HIDE DEF earlier
  <2>3. earlier # {} => r.executions[Max(earlier)] = run.executions[Max(earlier)]
    BY <1>3, <2>2
  <2>4. /\ LeftBefore(r, e) = IF earlier = {} THEN Original ELSE r.executions[Max(earlier)].left
        /\ LeftBefore(run, e) = IF earlier = {} THEN Original ELSE run.executions[Max(earlier)].left
    BY <2>1 DEF LeftBefore, earlier
  <2> QED
    BY <2>3, <2>4
<1> QED
  BY <1>1, <1>2, <1>3, <1>4, <1>5, <1>6 DEF r, n

\* An execution that wrote nothing
LEMMA QuietRecord ==
  ASSUME NEW run \in Run, NEW rec \in Execution, rec.left = NoContent
  PROVE  Breaks(Recorded(run, rec)) = Breaks(run) /\ Now(Recorded(run, rec)) = Now(run)
<1> DEFINE r == Recorded(run, rec)
           n == Len(run.executions)
<1>1. /\ n \in Nat /\ Len(r.executions) = n + 1
      /\ RecordedWrites(r) = RecordedWrites(run) /\ RecordedWrites(run) \subseteq 1 .. n
      /\ \A e \in 1 .. n : r.executions[e] = run.executions[e]
      /\ \A e \in 1 .. n + 1 : LeftBefore(r, e) = LeftBefore(run, e)
  BY LongerRecord
<1> HIDE DEF r, n
<1>2. Unlinked(r) = Unlinked(run)
  BY <1>1 DEF Unlinked
<1>3. LeftBefore(r, n + 2) = LeftBefore(run, n + 1)
  <2>1. {d \in RecordedWrites(r) : d < n + 2} = {d \in RecordedWrites(run) : d < n + 1}
    BY <1>1
  <2> DEFINE S == {d \in RecordedWrites(run) : d < n + 1}
  <2>2. S # {} => Max(S) \in 1 .. n
    <3> SUFFICES ASSUME S # {} PROVE Max(S) \in 1 .. n
      OBVIOUS
    <3>1. S \in SUBSET (1 .. n)
      BY <1>1
    <3> HIDE DEF S
    <3> QED
      BY <1>1, <3>1, LastPosition
  <2> HIDE DEF S
  <2>3. /\ LeftBefore(r, n + 2) = IF S = {} THEN Original ELSE r.executions[Max(S)].left
        /\ LeftBefore(run, n + 1) = IF S = {} THEN Original ELSE run.executions[Max(S)].left
    BY <2>1 DEF LeftBefore, S
  <2> QED
    BY <1>1, <2>2, <2>3
<1>4. Now(r) = LeftBefore(r, n + 2) /\ Now(run) = LeftBefore(run, n + 1)
  <2>1. n + 1 + 1 = n + 2
    BY <1>1
  <2> QED
    BY <1>1, <2>1 DEF Now, n
<1> QED
  BY <1>2, <1>3, <1>4 DEF Breaks, r

\* A write: the record ends with its content, and has one break more if the write
\* matched another content than the record ended with.
LEMMA WriteRecord ==
  ASSUME NEW run \in Run, NEW rec \in Execution, rec.left # NoContent
  PROVE  /\ Now(Recorded(run, rec)) = rec.left
         /\ Breaks(Recorded(run, rec)) =
              Breaks(run) + IF rec.expected \in {NoContent, Now(run)} THEN 0 ELSE 1
<1> DEFINE r == Recorded(run, rec)
           n == Len(run.executions)
<1>1. /\ n \in Nat /\ Len(r.executions) = n + 1 /\ r.executions[n + 1] = rec
      /\ RecordedWrites(r) = RecordedWrites(run) \cup {n + 1}
      /\ RecordedWrites(run) \subseteq 1 .. n
      /\ \A e \in 1 .. n : r.executions[e] = run.executions[e]
      /\ \A e \in 1 .. n + 1 : LeftBefore(r, e) = LeftBefore(run, e)
  BY LongerRecord
<1>2. Now(run) = LeftBefore(run, n + 1)
  BY DEF Now
<1> HIDE DEF r, n
<1>3. Now(r) = rec.left
  <2> DEFINE S == {d \in RecordedWrites(r) : d < n + 2}
  <2>1. S \in SUBSET (1 .. n + 1) /\ n + 1 \in S /\ n + 1 \in Nat
    BY <1>1
  <2>2. Now(r) = IF S = {} THEN Original ELSE r.executions[Max(S)].left
    <3>1. n + 1 + 1 = n + 2
      BY <1>1
    <3> QED
      BY <1>1, <3>1 DEF Now, LeftBefore
  <2> HIDE DEF S
  <2>3. Max(S) \in S /\ n + 1 <= Max(S)
    BY <2>1, LastPosition
  <2>4. Max(S) = n + 1
    <3>1. Max(S) \in 1 .. n + 1
      BY <2>1, <2>3
    <3> QED
      BY ONLY <1>1, <2>3, <3>1
  <2> QED
    BY <1>1, <2>1, <2>2, <2>4
<1>4. /\ n + 1 \notin Unlinked(run) /\ n + 1 \notin 1 .. n
      /\ IsFiniteSet(Unlinked(run)) /\ Breaks(run) \in Nat
  BY <1>1, LinkFacts DEF Unlinked
<1>5. \A e \in 1 .. n : e \in Unlinked(r) <=> e \in Unlinked(run)
  BY <1>1 DEF Unlinked
<1>6. n + 1 \in Unlinked(r) <=> rec.expected \notin {NoContent, Now(run)}
  BY <1>1, <1>2 DEF Unlinked
<1>7. Unlinked(r) \subseteq 1 .. n \cup {n + 1} /\ Unlinked(run) \subseteq 1 .. n
  BY <1>1 DEF Unlinked
<1>8. CASE rec.expected \in {NoContent, Now(run)}
  <2>1. Unlinked(r) = Unlinked(run)
    BY <1>5, <1>6, <1>7, <1>8, <1>4
  <2> QED
    BY <1>3, <1>4, <1>8, <2>1 DEF Breaks, r
<1>9. CASE rec.expected \notin {NoContent, Now(run)}
  <2>1. Unlinked(r) = Unlinked(run) \cup {n + 1}
    BY <1>5, <1>6, <1>7, <1>9, <1>4
  <2>2. Cardinality(Unlinked(r)) = Cardinality(Unlinked(run)) + 1
    BY <1>4, <2>1, FS_AddElement
  <2> QED
    BY <1>3, <1>9, <2>2 DEF Breaks, r
<1> QED
  BY <1>8, <1>9

\* One run object is replaced by r and saved, or not.
Update(o, r) == /\ objs' = [objs EXCEPT ![o] = r]
                /\ \/ disk' = << objs'[Len(objs')] >> /\ faults' = faults
                   \/ disk' = disk /\ faults' = faults + 1 /\ work' = Idle
                /\ UNCHANGED <<dirs, file, writes, created, edits>>

LEMMA UpdateFacts ==
  ASSUME TypeOK, CountInv, NEW o \in DOMAIN objs, NEW r \in Run, Update(o, r)
  PROVE  /\ objs' \in Seq(Run) /\ Len(objs') = Len(objs) /\ DOMAIN objs' = DOMAIN objs
         /\ objs'[o] = r /\ \A q \in DOMAIN objs : q # o => objs'[q] = objs[q]
         /\ disk' \in Seq(Run) /\ Len(disk') = 1 /\ DOMAIN disk' = {1} /\ disk'[1] \in Run
         /\ disk # << >> /\ disk' # << >> /\ objs # << >> /\ objs' # << >>
         /\ Records' \subseteq Records \cup {r}
         /\ faults' \in {faults, faults + 1}
         /\ disk' = disk \/ disk'[1] = objs'[Len(objs')]
         /\ created <= 1 => o = 1 /\ Len(objs) = 1 /\ DOMAIN objs = {1}
<1>1. /\ Len(objs) \in Nat /\ DOMAIN objs = 1 .. Len(objs)
      /\ Len(disk) \in 0 .. 1 /\ DOMAIN disk = 1 .. Len(disk)
      /\ disk # << >> => DOMAIN disk = {1} /\ disk = << disk[1] >>
      /\ \A i \in DOMAIN disk : disk[i] \in Run
      /\ created \in Nat
  BY TableFacts
<1>2. objs \in Seq(Run) /\ disk \in Seq(Run)
  BY DEF TypeOK
<1>3. objs # << >> /\ disk # << >> /\ Len(objs) \in DOMAIN objs
  BY <1>1 DEF CountInv
<1>4. objs' = [objs EXCEPT ![o] = r]
  BY DEF Update
<1>5. objs' \in Seq(Run) /\ Len(objs') = Len(objs) /\ DOMAIN objs' = DOMAIN objs
  BY <1>1, <1>2, <1>4
<1>6. objs'[o] = r /\ \A q \in DOMAIN objs : q # o => objs'[q] = objs[q]
  BY <1>1, <1>2, <1>4
<1>7. objs' # << >> /\ objs'[Len(objs')] \in Run
  BY <1>1, <1>3, <1>5, ElementOfSeq, EmptySeq
<1>8. \/ disk' = << objs'[Len(objs')] >> /\ faults' = faults
      \/ disk' = disk /\ faults' = faults + 1
  BY DEF Update
<1>9. /\ disk' \in Seq(Run) /\ Len(disk') = 1 /\ DOMAIN disk' = {1} /\ disk'[1] \in Run
      /\ disk' # << >> /\ (disk' = disk \/ disk'[1] = objs'[Len(objs')])
  <2>1. CASE disk' = << objs'[Len(objs')] >>
    BY <2>1, <1>7
  <2>2. CASE disk' = disk
    BY <2>2, <1>1, <1>2, <1>3
  <2> QED
    BY <2>1, <2>2, <1>8
<1>10. Records' \subseteq Records \cup {r}
  <2>1. \A q \in DOMAIN objs' : objs'[q] \in Records \cup {r}
    BY <1>5, <1>6 DEF Records
  <2>2. disk'[1] \in Records \cup {r}
    <3>1. CASE disk' = disk
      BY <3>1, <1>9 DEF Records
    <3>2. CASE disk'[1] = objs'[Len(objs')]
      BY <3>2, <2>1, <1>3, <1>5
    <3> QED
      BY <3>1, <3>2, <1>9
  <2> QED
    BY <2>1, <2>2, <1>9 DEF Records
<1>11. created <= 1 => o = 1 /\ Len(objs) = 1 /\ DOMAIN objs = {1}
  BY <1>1 DEF CountInv
<1>12. faults' \in {faults, faults + 1}
  BY <1>8
<1> QED
  BY <1>3, <1>5, <1>6, <1>7, <1>9, <1>10, <1>11, <1>12

-----------------------------------------------------------------------------
\* What a replaced run object keeps of the invariant, part by part
LEMMA UpdateTypes ==
  ASSUME TypeOK, CountInv, NEW o \in DOMAIN objs, NEW r \in Run, Update(o, r),
         waiting' \in [1 .. MaxRuns -> [Goals -> 0 .. MaxHeads]],
         work'.stage \in Stages, told' \in [Goals -> Nat]
  PROVE  TypeOK'
<1>1. objs' \in Seq(Run) /\ disk' \in Seq(Run) /\ Len(disk') = 1
      /\ faults' \in {faults, faults + 1}
  BY UpdateFacts
<1>2. {writes, created, faults, edits} \subseteq Nat
  BY TableFacts
<1>3. dirs' = dirs /\ file' = file /\ writes' = writes /\ created' = created /\ edits' = edits
  BY DEF Update
<1>4. dirs' \subseteq Dirs /\ file' \in [Places -> Held]
  BY <1>3 DEF TypeOK
<1> QED
  BY <1>1, <1>2, <1>3, <1>4 DEF TypeOK

LEMMA UpdateCount ==
  ASSUME TypeOK, CountInv, NEW o \in DOMAIN objs, NEW r \in Run, Update(o, r)
  PROVE  CountInv'
<1>1. created' = created
  BY DEF Update
<1> QED
  BY <1>1, UpdateFacts DEF CountInv

LEMMA UpdateRecords ==
  ASSUME TypeOK, CountInv, RecordInv, NEW o \in DOMAIN objs, NEW r \in Run, Update(o, r),
         WritesOk(r), \A g \in Goals : GoalOk(r, g)
  PROVE  RecordInv'
<1>1. Records' \subseteq Records \cup {r}
  BY UpdateFacts
<1>2. \A run \in Records' : WritesOk(run) /\ \A g \in Goals : GoalOk(run, g)
  BY <1>1 DEF RecordInv
<1> QED
  BY <1>2, Zenon DEF RecordInv, WritesOk, GoalOk, Approved, Proven, FirstOfId, RecordedWrites

LEMMA UpdateTold ==
  ASSUME TypeOK, CountInv, ToldInv, NEW o \in DOMAIN objs, NEW r \in Run, Update(o, r),
         \A g \in Goals : objs[o].goals[g].events <= r.goals[g].events,
         told' = told
  PROVE  ToldInv'
<1>1. Records' \subseteq Records \cup {r} /\ disk' # << >> /\ created' = created
  BY UpdateFacts DEF Update
<1>2. SUFFICES ASSUME created <= 1, NEW run \in Records', NEW g \in Goals
               PROVE  told[g] <= run.goals[g].events
  BY <1>1 DEF ToldInv
<1>3. CASE run \in Records
  BY <1>3, <1>2 DEF ToldInv
<1>4. CASE run = r
  <2>1. objs[o] \in Records /\ objs[o] \in Run /\ told[g] \in Nat
    BY TableFacts
  <2>2. told[g] <= objs[o].goals[g].events
    BY <2>1, <1>2 DEF ToldInv
  <2>3. objs[o].goals[g].events \in Nat /\ r.goals[g].events \in Nat
    BY <2>1, GoalFacts
  <2>4. objs[o].goals[g].events <= r.goals[g].events
    OBVIOUS
  <2> QED
    BY <2>1, <2>2, <2>3, <2>4, <1>4
<1> QED
  BY <1>1, <1>2, <1>3, <1>4

LEMMA UpdateEvents ==
  ASSUME TypeOK, CountInv, EventInv, NEW o \in DOMAIN objs, NEW r \in Run, Update(o, r),
         faults' = 0 => \A g \in Goals : r.goals[g].events + EventDue(o, g)' = Len(r.goals[g].refs),
         \A q \in DOMAIN objs, g \in Goals : q # o => EventDue(q, g)' = 0 /\ EventDue(q, g) = 0
  PROVE  EventInv'
<1> SUFFICES ASSUME faults' = 0 PROVE EventInv'
  BY DEF EventInv
<1>1. faults \in Nat
  BY TableFacts
<1>2. /\ disk' = << objs'[Len(objs')] >> /\ faults = 0
  BY <1>1 DEF Update
<1>3. /\ DOMAIN objs' = DOMAIN objs /\ objs'[o] = r
      /\ \A q \in DOMAIN objs : q # o => objs'[q] = objs[q]
      /\ DOMAIN disk' = {1}
  BY UpdateFacts
<1>4. \A i \in DOMAIN disk' : disk'[i] = objs'[Len(objs')]
  BY <1>2, <1>3
<1>5. ASSUME NEW q \in DOMAIN objs, NEW g \in Goals
      PROVE  objs'[q].goals[g].events + EventDue(q, g)' = Len(objs'[q].goals[g].refs)
  <2>1. CASE q = o
    BY <2>1, <1>3
  <2>2. CASE q # o
    BY <2>2, <1>2, <1>3 DEF EventInv
  <2> QED
    BY <2>1, <2>2
<1> QED
  BY <1>3, <1>4, <1>5 DEF EventInv

LEMMA NextLinks ==
  ASSUME created' <= 1 =>
           /\ objs' = << >> => \A p \in Places :
                file'[p] \notin {NoContent, Original} => 0 < faults' + edits'
           /\ \A run \in Records' : Breaks(run) <= faults' + edits'
           /\ \A o \in DOMAIN objs' :
                Linked(WithPending(o)', file'[objs'[o].dir], faults' + edits')
  PROVE  LinkInv'
  BY DEF LinkInv

\* A disturbance excuses whatever it does to the file; the file that goes needs none.
LEMMA DisturbedLinks ==
  ASSUME TypeOK, LinkInv, UNCHANGED <<objs, disk, created>>, {faults', edits'} \subseteq Nat,
         \A o \in DOMAIN objs : WithPending(o)' = WithPending(o) /\ WithPending(o) \in Run,
         \/ faults + edits < faults' + edits'
         \/ /\ faults + edits = faults' + edits'
            /\ \A p \in Places : file'[p] \in {NoContent, file[p]}
  PROVE  LinkInv'
<1>1. /\ Records' = Records /\ \A run \in Records : run \in Run
      /\ \A o \in DOMAIN objs : objs[o].dir \in Places
      /\ {faults, edits} \subseteq Nat
  BY TableFacts, RunFacts DEF Records
<1> SUFFICES ASSUME created <= 1
             PROVE  /\ objs = << >> => \A p \in Places :
                         file'[p] \notin {NoContent, Original} => 0 < faults' + edits'
                    /\ \A run \in Records : Breaks(run) <= faults' + edits'
                    /\ \A o \in DOMAIN objs :
                         Linked(WithPending(o), file'[objs[o].dir], faults' + edits')
  BY <1>1, NextLinks
<1>2. ASSUME objs = << >>, NEW p \in Places, file'[p] \notin {NoContent, Original}
      PROVE  0 < faults' + edits'
  <2>1. CASE faults + edits < faults' + edits'
    BY <1>1, <2>1
  <2>2. CASE /\ faults + edits = faults' + edits'
             /\ \A q \in Places : file'[q] \in {NoContent, file[q]}
    BY <1>1, <1>2, <2>2 DEF LinkInv
  <2> QED
    BY <2>1, <2>2
<1>3. ASSUME NEW run \in Records PROVE Breaks(run) <= faults' + edits'
  <2>1. Breaks(run) <= faults + edits /\ Breaks(run) \in Nat
    BY <1>1, LinkFacts DEF LinkInv
  <2> QED
    BY <1>1, <2>1
<1>4. ASSUME NEW o \in DOMAIN objs
      PROVE  Linked(WithPending(o), file'[objs[o].dir], faults' + edits')
  <2>1. Linked(WithPending(o), file[objs[o].dir], faults + edits)
    BY DEF LinkInv
  <2>2. Breaks(WithPending(o)) \in Nat
    BY LinkFacts
  <2> QED
    BY <1>1, <2>1, <2>2 DEF Linked
<1> QED
  BY <1>2, <1>3, <1>4

LEMMA PendingFacts ==
  ASSUME TypeOK, WorkInv
  PROVE  \A o \in DOMAIN objs : WithPending(o) \in Run
<1> SUFFICES ASSUME NEW o \in DOMAIN objs PROVE WithPending(o) \in Run
  OBVIOUS
<1>1. objs[o] \in Run
  BY TableFacts
<1>2. WritePending => work.record \in Execution
  BY DEF WorkInv, WritePending
<1> QED
  BY <1>1, <1>2, LongerRecord DEF WithPending

LEMMA UpdateLinks ==
  ASSUME TypeOK, CountInv, LinkInv, NEW o \in DOMAIN objs, NEW r \in Run, Update(o, r),
         r.dir = objs[o].dir, r.executions = objs[o].executions, ~WritePending, ~WritePending'
  PROVE  LinkInv'
<1>1. /\ Records' \subseteq Records \cup {r} /\ objs' # << >>
      /\ DOMAIN objs' = DOMAIN objs /\ objs'[o] = r /\ faults' \in {faults, faults + 1}
      /\ created' = created /\ file' = file /\ edits' = edits
      /\ created <= 1 => o = 1 /\ DOMAIN objs = {1}
  BY UpdateFacts DEF Update
<1>2. objs[o] \in Records /\ objs[o] \in Run /\ {faults, edits} \subseteq Nat
  BY TableFacts
<1>3. SUFFICES ASSUME created <= 1
               PROVE  /\ \A run \in Records' : Breaks(run) <= faults' + edits
                      /\ Linked(r, file[r.dir], faults' + edits)
  BY <1>1, NextLinks DEF WithPending
<1>4. Breaks(r) = Breaks(objs[o]) /\ Now(r) = Now(objs[o])
  BY <1>2, SameLinks
<1>5. \A run \in Records : Breaks(run) <= faults + edits
  BY <1>3 DEF LinkInv
<1>6. Linked(objs[o], file[objs[o].dir], faults + edits)
  BY <1>3 DEF LinkInv, WithPending
<1>7. Linked(r, file[r.dir], faults' + edits)
  BY <1>1, <1>2, <1>4, <1>6, LinkFacts DEF Linked
<1>8. ASSUME NEW run \in Records' PROVE Breaks(run) <= faults' + edits
  <2>1. run \in Run
    BY <1>1, TableFacts
  <2>2. Breaks(run) <= faults + edits
    BY <1>1, <1>2, <1>4, <1>5
  <2> QED
    BY <1>1, <1>2, <2>1, <2>2, LinkFacts
<1> QED
  BY <1>7, <1>8

LEMMA UpdateAccount ==
  ASSUME TypeOK, CountInv, AccountInv, NEW o \in DOMAIN objs, NEW r \in Run, Update(o, r),
         r.executions = objs[o].executions, ~WritePending, ~WritePending'
  PROVE  AccountInv'
<1>1. /\ disk # << >> /\ disk' # << >> /\ DOMAIN disk' = {1} /\ DOMAIN objs' = DOMAIN objs
      /\ disk'[1] \in Run
      /\ disk' = disk \/ disk'[1] = objs'[Len(objs')]
      /\ created' = created /\ writes' = writes /\ faults' \in {faults, faults + 1}
      /\ objs'[o] = r /\ Len(objs') = Len(objs)
      /\ created <= 1 => o = 1 /\ Len(objs) = 1 /\ DOMAIN objs = {1}
  BY UpdateFacts DEF Update
<1>2. /\ disk[1] \in Run /\ objs[o] \in Run /\ DOMAIN disk = {1}
      /\ {writes, created, faults, edits} \subseteq Nat
  BY <1>1, TableFacts
<1> SUFFICES ASSUME created <= 1 PROVE AccountInv'
  BY <1>1 DEF AccountInv
<1>3. o = 1 /\ Len(objs) = 1 /\ DOMAIN objs = {1}
  BY <1>1
<1>4. /\ writes <= Cardinality(RecordedWrites(disk[1])) + faults
      /\ RecordedWrites(disk[1]) \subseteq RecordedWrites(objs[1])
  <2>1. 1 \in DOMAIN disk /\ 1 \in DOMAIN objs
    BY <1>2, <1>3
  <2>2. writes <= Cardinality(RecordedWrites(disk[1])) + faults + 0
    BY <2>1 DEF AccountInv
  <2> QED
    BY <1>2, <2>1, <2>2, ExecutionFacts DEF AccountInv
<1>5. RecordedWrites(objs'[1]) = RecordedWrites(objs[1])
  BY <1>1, <1>4 DEF RecordedWrites
<1>6. /\ Cardinality(RecordedWrites(disk[1])) \in Nat
      /\ Cardinality(RecordedWrites(objs[1])) \in Nat
      /\ Cardinality(RecordedWrites(disk[1])) <= Cardinality(RecordedWrites(objs[1]))
  <2>1. /\ Cardinality(RecordedWrites(disk[1])) \in Nat
        /\ Cardinality(RecordedWrites(objs[1])) \in Nat
        /\ IsFiniteSet(RecordedWrites(objs[1]))
    BY <1>2, <1>3, ExecutionFacts
  <2>2. RecordedWrites(disk[1]) \in SUBSET RecordedWrites(objs[1])
    BY <1>4
  <2> QED
    BY <2>1, <2>2, FS_Subset
<1>7. /\ writes <= Cardinality(RecordedWrites(disk'[1])) + faults'
      /\ RecordedWrites(disk'[1]) \subseteq RecordedWrites(objs'[1])
  <2>1. CASE disk' = disk
    BY <1>1, <1>2, <1>4, <1>5, <1>6, <2>1
  <2>2. CASE disk'[1] = objs'[1]
    BY <1>1, <1>2, <1>3, <1>4, <1>5, <1>6, <2>2
  <2> QED
    BY <1>1, <1>3, <2>1, <2>2
<1>8. Cardinality(RecordedWrites(disk'[1])) \in Nat
  BY <1>1, ExecutionFacts
<1> QED
  BY <1>1, <1>2, <1>3, <1>7, <1>8 DEF AccountInv, RecordedWrites

LEMMA UpdateDirs ==
  ASSUME TypeOK, CountInv, DirsInv, NEW o \in DOMAIN objs, NEW r \in Run, Update(o, r),
         r.dir = objs[o].dir, r.cleaned = objs[o].cleaned, r.executions = objs[o].executions,
         ~WritePending, {work.stage, work'.stage} \subseteq {"idle", "completed"}
  PROVE  DirsInv'
<1>1. /\ DOMAIN objs' = DOMAIN objs /\ objs'[o] = r
      /\ created <= 1 => o = 1 /\ DOMAIN objs = {1}
      /\ faults' \in {faults, faults + 1}
      /\ created' = created /\ dirs' = dirs
  BY UpdateFacts DEF Update
<1>2. faults \in Nat /\ created \in Nat
  BY TableFacts
<1>3. SUFFICES ASSUME faults' = 0, created <= 1 PROVE DirsInv'
  BY <1>1 DEF DirsInv
<1>4. faults = 0 /\ o = 1 /\ DOMAIN objs = {1}
  BY <1>1, <1>2, <1>3
<1>5. RecordedWrites(r) = RecordedWrites(objs[o])
  BY DEF RecordedWrites
<1>6. /\ created = 0 => dirs = {}
      /\ dirs \subseteq {objs[1].dir}
      /\ objs[1].cleaned /\ dirs # {} => RecordedWrites(objs[1]) # {}
      /\ objs[1].dir # Outside /\ ~objs[1].cleaned => objs[1].dir \in dirs
  BY <1>3, <1>4 DEF DirsInv
<1>7. /\ dirs \subseteq {r.dir}
      /\ r.cleaned /\ dirs # {} => RecordedWrites(r) # {}
      /\ r.dir # Outside /\ ~r.cleaned => r.dir \in dirs
  BY <1>4, <1>5, <1>6
<1> QED
  BY <1>1, <1>4, <1>6, <1>7 DEF DirsInv, RecordedWrites

-----------------------------------------------------------------------------
\* A change of a record that touches neither goals nor executions keeps all that is not
\* about directories.
LEMMA RecordKept ==
  ASSUME IInv, work.stage \in {"idle", "removed"}, NEW o \in DOMAIN objs, NEW r \in Run,
         Update(o, r), work' = Idle, waiting' = waiting, told' = told,
         r.dir = objs[o].dir, r.goals = objs[o].goals, r.executions = objs[o].executions,
         WritesOk(r), \A g \in Goals : GoalOk(r, g)
  PROVE  TypeOK' /\ RecordInv' /\ CountInv' /\ WorkInv' /\ EventInv' /\ ToldInv' /\ LinkInv'
         /\ AccountInv'
<1> USE DEF IInv
<1>1. work'.stage = "idle" /\ ~WritePending /\ ~WritePending'
  BY DEF Idle, WritePending
<1>2. TypeOK'
  <2>1. waiting' \in [1 .. MaxRuns -> [Goals -> 0 .. MaxHeads]] /\ told' \in [Goals -> Nat]
    BY DEF TypeOK
  <2> QED
    BY <1>1, <2>1, UpdateTypes DEF Stages
<1>3. CountInv' /\ RecordInv'
  BY UpdateCount, UpdateRecords
<1>4. WorkInv'
  BY <1>1 DEF WorkInv
<1>5. EventInv'
  <2>1. \A q \in DOMAIN objs, g \in Goals : EventDue(q, g) = 0 /\ EventDue(q, g)' = 0
    BY <1>1 DEF EventDue
  <2>2. ASSUME faults' = 0, NEW g \in Goals
        PROVE  r.goals[g].events + EventDue(o, g)' = Len(r.goals[g].refs)
    <3>1. faults = 0
      BY <2>2, TableFacts DEF Update
    <3>2. objs[o].goals[g].events + 0 = Len(objs[o].goals[g].refs)
      BY <2>1, <3>1 DEF EventInv
    <3> QED
      BY <2>1, <3>2
  <2> QED
    BY <2>1, <2>2, UpdateEvents
<1>6. ToldInv'
  <2>1. \A g \in Goals : objs[o].goals[g].events <= r.goals[g].events
    BY TableFacts, GoalFacts
  <2> QED
    BY <2>1, UpdateTold
<1>7. LinkInv' /\ AccountInv'
  BY <1>1, UpdateLinks, UpdateAccount
<1> QED
  BY <1>2, <1>3, <1>4, <1>5, <1>6, <1>7

\* One record more that is no execution: goals and writes rest on what they rested on.
LEMMA NoteKept ==
  ASSUME IInv, work = Idle, NEW o \in DOMAIN objs, NEW r \in Run,
         Note([objs EXCEPT ![o] = r]),
         r.dir = objs[o].dir, r.cleaned = objs[o].cleaned, r.goals = objs[o].goals,
         r.executions = objs[o].executions, WritesOk(r), \A g \in Goals : GoalOk(r, g)
  PROVE  IInv'
<1>1. Update(o, r) /\ work' = Idle /\ waiting' = waiting /\ told' = told
  BY DEF Note, Save, SaveFails, Update
<1>2. work.stage = "idle" /\ work'.stage = "idle" /\ ~WritePending
  BY <1>1 DEF Idle, WritePending
<1>3. DirsInv'
  BY <1>1, <1>2, UpdateDirs DEF IInv
<1> QED
  BY <1>1, <1>2, <1>3, RecordKept DEF IInv

LEMMA ApproveStep == ASSUME IInv, ApproveToolCall PROVE IInv'
<1>1. PICK o \in DOMAIN objs, approval \in Approval :
        Note([objs EXCEPT ![o].approvals = Append(@, approval)])
  BY DEF ApproveToolCall
<1> DEFINE r == [objs[o] EXCEPT !.approvals = Append(@, approval)]
<1>2. /\ objs[o] \in Run /\ objs[o] \in Records /\ work = Idle
  BY TableFacts DEF IInv, ApproveToolCall
<1>3. /\ r.dir = objs[o].dir /\ r.cleaned = objs[o].cleaned /\ r.goals = objs[o].goals
      /\ r.executions = objs[o].executions /\ r.verifications = objs[o].verifications
      /\ r.approvals = Append(objs[o].approvals, approval) /\ r \in Run
  <2>1. Append(objs[o].approvals, approval) \in Seq(Approval)
    BY <1>2, RunFacts
  <2> QED
    BY <1>2, <2>1 DEF Run
<1>4. Note([objs EXCEPT ![o] = r])
  BY <1>1
<1> HIDE DEF r
<1>5. WritesOk(objs[o]) /\ \A g \in Goals : GoalOk(objs[o], g)
  BY <1>2 DEF IInv, RecordInv
<1>6. ASSUME NEW a, Approved(objs[o], a)
      PROVE  Approved(r, a)
  <2>1. /\ objs[o].approvals \in Seq(Approval) /\ a \in 1 .. Len(objs[o].approvals)
        /\ Len(objs[o].approvals) \in Nat
    BY <1>2, <1>6, RunFacts DEF Approved
  <2>2. a \in DOMAIN r.approvals /\ r.approvals[a] = objs[o].approvals[a]
    BY <1>3, <2>1
  <2> QED
    BY <1>6, <2>2 DEF Approved
<1>7. WritesOk(r)
  BY <1>3, <1>5, <1>6 DEF WritesOk, RecordedWrites
<1>8. \A g \in Goals : GoalOk(r, g)
  <2>1. \A id : Proven(objs[o], id) => Proven(r, id)
    BY <1>3 DEF Proven, FirstOfId
  <2> QED
    BY <1>3, <1>5, <2>1, Zenon DEF GoalOk
<1> QED
  BY <1>2, <1>3, <1>4, <1>7, <1>8, NoteKept

LEMMA VerificationStep == ASSUME IInv, RecordVerification PROVE IInv'
<1>1. PICK o \in DOMAIN objs, v \in Verification :
        Note([objs EXCEPT ![o].verifications = Append(@, v)])
  BY DEF RecordVerification
<1> DEFINE r == [objs[o] EXCEPT !.verifications = Append(@, v)]
<1>2. objs[o] \in Run /\ objs[o] \in Records /\ work = Idle
  BY TableFacts DEF IInv, RecordVerification
<1>3. /\ r.dir = objs[o].dir /\ r.cleaned = objs[o].cleaned /\ r.goals = objs[o].goals
      /\ r.executions = objs[o].executions /\ r.approvals = objs[o].approvals
      /\ r.verifications = Append(objs[o].verifications, v) /\ r \in Run
  <2>1. Append(objs[o].verifications, v) \in Seq(Verification)
    BY <1>2, RunFacts
  <2> QED
    BY <1>2, <2>1 DEF Run
<1>4. Note([objs EXCEPT ![o] = r])
  BY <1>1
<1> HIDE DEF r
<1>5. WritesOk(objs[o]) /\ \A g \in Goals : GoalOk(objs[o], g)
  BY <1>2 DEF IInv, RecordInv
<1>6. ASSUME NEW id, Proven(objs[o], id)
      PROVE  Proven(r, id)
  <2>1. PICK w \in DOMAIN objs[o].verifications :
          /\ FirstOfId(objs[o], w)
          /\ objs[o].verifications[w] = [id |-> id, result |-> "passed"]
    BY <1>6 DEF Proven
  <2>2. /\ objs[o].verifications \in Seq(Verification) /\ w \in 1 .. Len(objs[o].verifications)
        /\ Len(objs[o].verifications) \in Nat
    BY <1>2, RunFacts
  <2>3. /\ w \in DOMAIN r.verifications
        /\ \A u \in 1 .. w : r.verifications[u] = objs[o].verifications[u]
    BY <1>3, <2>2
  <2>4. r.verifications[w] = objs[o].verifications[w]
    BY <2>2, <2>3
  <2>5. FirstOfId(r, w)
    <3> SUFFICES ASSUME NEW u \in 1 .. w - 1
                 PROVE  r.verifications[u].id # r.verifications[w].id
      BY DEF FirstOfId
    <3>1. r.verifications[u] = objs[o].verifications[u]
      BY <2>2, <2>3
    <3> QED
      BY <2>1, <2>4, <3>1 DEF FirstOfId
  <2> QED
    BY <2>1, <2>3, <2>4, <2>5 DEF Proven
<1>7. WritesOk(r)
  BY <1>3, <1>5 DEF WritesOk, RecordedWrites, Approved
<1>8. \A g \in Goals : GoalOk(r, g)
  BY <1>3, <1>5, <1>6, Zenon DEF GoalOk
<1> QED
  BY <1>2, <1>3, <1>4, <1>7, <1>8, NoteKept

-----------------------------------------------------------------------------
\* Nothing but the requests that wait for their body changes.
LEMMA WaitingStep ==
  ASSUME IInv, waiting' \in [1 .. MaxRuns -> [Goals -> 0 .. MaxHeads]],
         UNCHANGED <<objs, disk, dirs, file, work, writes, created, told, faults, edits>>
  PROVE  IInv'
<1> USE DEF IInv
<1>1. TypeOK' /\ CountInv' /\ WorkInv'
  BY DEF TypeOK, CountInv, WorkInv, WritePending, Approved
<1>2. Records' = Records
  BY DEF Records
<1>3. RecordInv' /\ ToldInv'
  BY <1>2 DEF RecordInv, ToldInv, WritesOk, GoalOk, Approved, Proven, FirstOfId, RecordedWrites
<1>4. EventInv' /\ DirsInv'
  BY DEF EventInv, EventDue, DirsInv, WritePending, RecordedWrites
<1>5. LinkInv'
  <2>1. \A o \in DOMAIN objs : WithPending(o)' = WithPending(o) /\ WithPending(o) \in Run
    BY PendingFacts DEF WithPending, WritePending
  <2> QED
    BY <2>1, TableFacts, DisturbedLinks
<1>6. AccountInv'
  <2>1. AccountInv /\ WritePending' = WritePending
    BY DEF WritePending
  <2> HIDE DEF IInv
  <2> QED
    BY <2>1 DEF AccountInv
<1> QED
  BY <1>1, <1>3, <1>4, <1>5, <1>6

LEMMA RequestStep == ASSUME IInv, RequestCompletion \/ RefuseCompletion PROVE IInv'
<1>1. /\ waiting \in [1 .. MaxRuns -> [Goals -> 0 .. MaxHeads]]
      /\ MaxHeads \in Nat /\ MaxRuns \in Nat
      /\ DOMAIN objs = 1 .. Len(objs) /\ Len(objs) \in Nat /\ created \in Nat
      /\ Len(objs) <= created /\ created <= MaxRuns
  BY EvidenceBounds, TableFacts DEF IInv, TypeOK, CountInv
<1>2. \A o \in DOMAIN objs : o \in 1 .. MaxRuns
  BY <1>1
<1>3. /\ waiting' \in [1 .. MaxRuns -> [Goals -> 0 .. MaxHeads]]
      /\ UNCHANGED <<objs, disk, dirs, file, work, writes, created, told, faults, edits>>
  <2>1. CASE RequestCompletion
    <3>1. PICK g \in Goals : /\ waiting[Current][g] < MaxHeads
                             /\ waiting' = [waiting EXCEPT ![Current][g] = @ + 1]
      BY <2>1 DEF RequestCompletion
    <3>2. Current \in 1 .. MaxRuns /\ waiting[Current][g] \in 0 .. MaxHeads
      BY <1>1, <2>1 DEF RequestCompletion, Current
    <3>3. waiting[Current][g] + 1 \in 0 .. MaxHeads
      BY <1>1, <3>1, <3>2
    <3> QED
      BY <1>1, <2>1, <3>1, <3>2, <3>3 DEF RequestCompletion
  <2>2. CASE RefuseCompletion
    <3>1. PICK o \in DOMAIN objs, g \in Goals :
            waiting[o][g] > 0 /\ waiting' = [waiting EXCEPT ![o][g] = @ - 1]
      BY <2>2 DEF RefuseCompletion
    <3>2. o \in 1 .. MaxRuns /\ waiting[o][g] \in 0 .. MaxHeads
      BY <1>1, <1>2
    <3>3. waiting[o][g] - 1 \in 0 .. MaxHeads
      BY <1>1, <3>1, <3>2
    <3> QED
      BY <1>1, <2>2, <3>1, <3>2, <3>3 DEF RefuseCompletion
  <2> QED
    BY <2>1, <2>2
<1> QED
  BY <1>3, WaitingStep

\* The parts a change of goals leaves alone
LEMMA GoalsOnly ==
  ASSUME IInv, NEW o \in DOMAIN objs, NEW r \in Run, Update(o, r),
         r.dir = objs[o].dir, r.cleaned = objs[o].cleaned, r.executions = objs[o].executions,
         {work.stage, work'.stage} \subseteq {"idle", "completed"}
  PROVE  LinkInv' /\ AccountInv' /\ DirsInv'
<1>1. ~WritePending /\ ~WritePending'
  BY DEF WritePending
<1> QED
  BY <1>1, UpdateLinks, UpdateAccount, UpdateDirs DEF IInv

LEMMA CompleteStep == ASSUME IInv, CompleteGoal PROVE IInv'
<1>1. PICK o \in DOMAIN objs, g \in Goals, v \in 1 .. MaxRecords :
        /\ waiting[o][g] > 0
        /\ Evidence(objs[o], v)
        /\ waiting' = [waiting EXCEPT ![o][g] = @ - 1]
        /\ LET os == [objs EXCEPT ![o].goals[g] = CompletedGoal(@, objs[o].verifications[v].id)]
           IN  \/ Save(os) /\ work' = [stage |-> "completed", obj |-> o, goal |-> g]
               \/ SaveFails(os)
  BY DEF CompleteGoal
<1> DEFINE r == [objs[o] EXCEPT !.goals[g] = CompletedGoal(@, objs[o].verifications[v].id)]
<1>2. /\ objs[o] \in Run /\ objs[o] \in Records /\ work.stage = "idle"
      /\ UNCHANGED <<dirs, file, writes, created, told, edits>>
  BY TableFacts DEF IInv, CompleteGoal, Idle
<1>3. /\ objs[o].verifications \in Seq(Verification) /\ v \in DOMAIN objs[o].verifications
      /\ FirstOfId(objs[o], v) /\ objs[o].verifications[v].result = "passed"
  BY <1>1, <1>2, RunFacts DEF Evidence, FindVerification, FirstOfId
<1>4. objs[o].verifications[v] \in Verification
  BY <1>3, ElementOfSeq, LenProperties
<1> DEFINE id == objs[o].verifications[v].id
<1>5. id \in VerificationIds /\ objs[o].verifications[v] = [id |-> id, result |-> "passed"]
  BY <1>3, <1>4 DEF Verification
<1> DEFINE goal == objs[o].goals[g]
<1>6. /\ goal \in Goal /\ goal.refs \in Seq(VerificationIds) /\ Len(goal.refs) \in Nat
      /\ goal.events \in Nat /\ DOMAIN goal.refs = 1 .. Len(goal.refs)
      /\ objs[o].goals \in [Goals -> Goal]
  BY <1>2, GoalFacts, RunFacts
<1> DEFINE new == CompletedGoal(goal, id)
<1>7. /\ new.status = "completed" /\ new.refs = Append(goal.refs, id) /\ new.events = goal.events
      /\ new \in Goal
  <2>1. Append(goal.refs, id) \in Seq(VerificationIds)
    BY <1>5, <1>6
  <2> HIDE DEF id
  <2> QED
    BY <1>6, <2>1 DEF Goal, CompletedGoal
<1>8. /\ r.dir = objs[o].dir /\ r.cleaned = objs[o].cleaned
      /\ r.executions = objs[o].executions /\ r.approvals = objs[o].approvals
      /\ r.verifications = objs[o].verifications
      /\ r.goals = [objs[o].goals EXCEPT ![g] = new] /\ r \in Run
  <2>1. r = [objs[o] EXCEPT !.goals = [objs[o].goals EXCEPT ![g] = new]]
    BY <1>2, <1>6 DEF Run
  <2> HIDE DEF r, new, goal
  <2>2. [objs[o].goals EXCEPT ![g] = new] \in [Goals -> Goal]
    BY <1>6, <1>7
  <2> QED
    BY <1>2, <2>1, <2>2 DEF Run
<1>9. \/ Save([objs EXCEPT ![o] = r]) /\ work' = [stage |-> "completed", obj |-> o, goal |-> g]
      \/ SaveFails([objs EXCEPT ![o] = r])
  BY <1>1
<1> HIDE DEF r
<1>10. /\ r.goals[g] = new
       /\ \A h \in Goals : h # g => r.goals[h] = objs[o].goals[h]
  BY <1>6, <1>8
<1> HIDE DEF new
<1>11. /\ Update(o, r)
       /\ \/ work' = [stage |-> "completed", obj |-> o, goal |-> g] /\ faults' = faults
          \/ work'.stage = "idle" /\ faults' = faults + 1
  BY <1>2, <1>9 DEF Update, Save, SaveFails, Idle
<1>12. WritesOk(objs[o]) /\ \A h \in Goals : GoalOk(objs[o], h)
  BY <1>2 DEF IInv, RecordInv
<1>13. /\ DOMAIN new.refs = 1 .. Len(goal.refs) + 1 /\ Len(new.refs) = Len(goal.refs) + 1
       /\ new.refs[Len(goal.refs) + 1] = id
       /\ \A i \in 1 .. Len(goal.refs) : new.refs[i] = goal.refs[i]
       /\ new.refs # << >>
  <2>1. /\ goal.refs \in Seq(VerificationIds) /\ id \in VerificationIds
        /\ new.refs = Append(goal.refs, id)
    BY <1>5, <1>6, <1>7 DEF Goal
  <2> HIDE DEF new, goal, id
  <2> QED
    BY <2>1
<1>14. \A x : Proven(objs[o], x) => Proven(r, x)
  BY <1>8 DEF Proven, FirstOfId
<1>15. Proven(objs[o], id)
  BY <1>3, <1>5 DEF Proven
<1>16. GoalOk(r, g)
  <2>1. \A i \in 1 .. Len(goal.refs) : Proven(objs[o], goal.refs[i])
    BY <1>6, <1>12 DEF GoalOk
  <2>2. \A i \in DOMAIN new.refs : Proven(r, new.refs[i])
    <3> SUFFICES ASSUME NEW i \in 1 .. Len(goal.refs) + 1 PROVE Proven(r, new.refs[i])
      BY <1>13
    <3>1. CASE i = Len(goal.refs) + 1
      BY <3>1, <1>13, <1>14, <1>15
    <3>2. CASE i \in 1 .. Len(goal.refs)
      BY <3>2, <2>1, <1>13, <1>14
    <3> QED
      BY <3>1, <3>2, <1>6
  <2>3. goal.events <= Len(goal.refs)
    BY <1>12 DEF GoalOk
  <2>4. new.events <= Len(new.refs)
    BY <2>3, <1>6, <1>7, <1>13
  <2> QED
    BY <2>2, <2>4, <1>7, <1>10, <1>13 DEF GoalOk
<1>17. ASSUME NEW h \in Goals, h # g
       PROVE  GoalOk(r, h)
  BY <1>10, <1>12, <1>14, <1>17 DEF GoalOk
<1>18. WritesOk(r)
  BY <1>8, <1>12 DEF WritesOk, RecordedWrites, Approved
<1>19. CountInv' /\ RecordInv'
  BY <1>8, <1>11, <1>16, <1>17, <1>18, UpdateCount, UpdateRecords DEF IInv
<1>20. TypeOK'
  <2>1. waiting \in [1 .. MaxRuns -> [Goals -> 0 .. MaxHeads]] /\ told' \in [Goals -> Nat]
    BY <1>2, TableFacts DEF IInv, TypeOK
  <2>2. MaxRuns \in Nat /\ MaxHeads \in Nat /\ o \in 1 .. MaxRuns
    BY EvidenceBounds, TableFacts DEF IInv, CountInv
  <2>3. waiting[o][g] - 1 \in 0 .. MaxHeads
    BY <2>1, <2>2, <1>1
  <2>4. waiting' \in [1 .. MaxRuns -> [Goals -> 0 .. MaxHeads]]
    BY <2>1, <2>2, <2>3, <1>1
  <2> QED
    BY <2>1, <2>4, <1>8, <1>11, UpdateTypes DEF IInv, Stages
<1>21. goal.events <= Len(goal.refs)
  BY <1>12 DEF GoalOk
<1>22. WorkInv'
  <2>1. objs'[o] = r /\ DOMAIN objs' = DOMAIN objs
    BY <1>8, <1>11, UpdateFacts DEF IInv
  <2>2. r.goals[g].events < Len(r.goals[g].refs)
    BY <1>6, <1>7, <1>10, <1>13, <1>21
  <2> QED
    BY <2>1, <2>2, <1>11 DEF WorkInv, WritePending
<1>23. EventInv'
  <2>1. \A q \in DOMAIN objs, h \in Goals : EventDue(q, h) = 0
    BY <1>2 DEF EventDue
  <2>2. \A q \in DOMAIN objs, h \in Goals : q # o => EventDue(q, h)' = 0
    BY <1>11 DEF EventDue
  <2>3. ASSUME faults' = 0, NEW h \in Goals
        PROVE  r.goals[h].events + EventDue(o, h)' = Len(r.goals[h].refs)
    <3>1. faults = 0 /\ work' = [stage |-> "completed", obj |-> o, goal |-> g]
      BY <1>11, <2>3, TableFacts DEF IInv
    <3>2. objs[o].goals[h].events + 0 = Len(objs[o].goals[h].refs)
      BY <2>1, <3>1 DEF IInv, EventInv
    <3>3. EventDue(o, h)' = IF h = g THEN 1 ELSE 0
      BY <3>1 DEF EventDue
    <3>4. CASE h = g
      BY <3>2, <3>3, <3>4, <1>6, <1>7, <1>10, <1>13
    <3>5. CASE h # g
      BY <3>2, <3>3, <3>5, <1>10
    <3> QED
      BY <3>4, <3>5
  <2> QED
    BY <1>8, <1>11, <2>1, <2>2, <2>3, UpdateEvents DEF IInv
<1>24. ToldInv'
  <2>1. ASSUME NEW h \in Goals PROVE objs[o].goals[h].events <= r.goals[h].events
    <3>1. r.goals[h].events = objs[o].goals[h].events
      BY <1>7, <1>10
    <3> QED
      BY <3>1, <1>2, GoalFacts
  <2> QED
    BY <1>2, <1>8, <1>11, <2>1, UpdateTold DEF IInv
<1>25. LinkInv' /\ AccountInv' /\ DirsInv'
  BY <1>2, <1>8, <1>11, GoalsOnly
<1> QED
  BY <1>19, <1>20, <1>22, <1>23, <1>24, <1>25 DEF IInv

\* The event of a completion, and the answer to the client after it
LEMMA CompletionStep == ASSUME IInv, RecordCompletion PROVE IInv'
<1>0. PICK o \in DOMAIN objs, g \in Goals : o = work.obj /\ g = work.goal
  BY DEF RecordCompletion, IInv, WorkInv
<1> DEFINE r == [objs[o] EXCEPT !.goals[g].events = @ + 1]
           goal == objs[o].goals[g]
<1>1. /\ work.stage = "completed" /\ o \in DOMAIN objs /\ g \in Goals
      /\ UNCHANGED <<dirs, file, waiting, writes, created, edits>>
      /\ goal.events < Len(goal.refs)
      /\ o = work.obj /\ g = work.goal
  BY <1>0 DEF RecordCompletion, IInv, WorkInv
<1>2. objs[o] \in Run /\ objs[o] \in Records
  BY <1>1, TableFacts DEF IInv
<1>3. \/ /\ Save([objs EXCEPT ![o] = r])
         /\ work' = Idle
         /\ told' = [told EXCEPT ![g] = @ + 1]
      \/ SaveFails([objs EXCEPT ![o] = r]) /\ told' = told
  BY <1>0 DEF RecordCompletion
<1>4. /\ goal \in Goal /\ Len(goal.refs) \in Nat /\ goal.events \in Nat
      /\ objs[o].goals \in [Goals -> Goal]
  BY <1>1, <1>2, GoalFacts, RunFacts
<1> DEFINE new == [goal EXCEPT !.events = @ + 1]
<1>5. /\ new \in Goal /\ new.status = goal.status /\ new.refs = goal.refs
      /\ new.events = goal.events + 1
  <2> HIDE DEF goal
  <2>1. goal.events + 1 \in Nat
    BY <1>4
  <2> QED
    BY <1>4, <2>1 DEF Goal
<1>6. /\ r.dir = objs[o].dir /\ r.cleaned = objs[o].cleaned
      /\ r.executions = objs[o].executions /\ r.approvals = objs[o].approvals
      /\ r.verifications = objs[o].verifications
      /\ r.goals = [objs[o].goals EXCEPT ![g] = new] /\ r \in Run
  <2>1. r = [objs[o] EXCEPT !.goals = [objs[o].goals EXCEPT ![g] = new]]
    BY <1>1, <1>2, <1>4 DEF Run
  <2> HIDE DEF r, new, goal
  <2>2. [objs[o].goals EXCEPT ![g] = new] \in [Goals -> Goal]
    BY <1>4, <1>5
  <2> QED
    BY <1>2, <2>1, <2>2 DEF Run
<1> HIDE DEF r
<1>7. r.goals[g] = new /\ \A h \in Goals : h # g => r.goals[h] = objs[o].goals[h]
  BY <1>1, <1>4, <1>6
<1> HIDE DEF new
<1>8. /\ Update(o, r) /\ work'.stage = "idle"
      /\ \/ told' = [told EXCEPT ![g] = @ + 1] /\ faults' = faults
            /\ disk' = << objs'[Len(objs')] >>
         \/ told' = told /\ faults' = faults + 1
  BY <1>1, <1>3 DEF Update, Save, SaveFails, Idle
<1>9. WritesOk(objs[o]) /\ \A h \in Goals : GoalOk(objs[o], h)
  BY <1>2 DEF IInv, RecordInv
<1>10. \A x : Proven(objs[o], x) => Proven(r, x)
  BY <1>6 DEF Proven, FirstOfId
<1>11. WritesOk(r)
  BY <1>6, <1>9 DEF WritesOk, RecordedWrites, Approved
<1>12. ASSUME NEW h \in Goals
       PROVE  GoalOk(r, h)
  <2>1. CASE h # g
    BY <2>1, <1>7, <1>9, <1>10 DEF GoalOk
  <2>2. CASE h = g
    <3>1. goal.events + 1 <= Len(goal.refs)
      BY <1>1, <1>4
    <3>2. GoalOk(objs[o], g)
      BY <1>1, <1>9
    <3> QED
      BY <2>2, <3>1, <3>2, <1>5, <1>7, <1>10 DEF GoalOk
  <2> QED
    BY <2>1, <2>2
<1>13. CountInv' /\ RecordInv'
  BY <1>1, <1>6, <1>8, <1>11, <1>12, UpdateCount, UpdateRecords DEF IInv
<1>14. TypeOK'
  <2>1. told \in [Goals -> Nat] /\ waiting' \in [1 .. MaxRuns -> [Goals -> 0 .. MaxHeads]]
    BY <1>1 DEF IInv, TypeOK
  <2>2. told' \in [Goals -> Nat]
    BY <1>1, <1>8, <2>1
  <2> QED
    BY <1>1, <1>6, <1>8, <2>1, <2>2, UpdateTypes DEF IInv, Stages
<1>15. WorkInv'
  BY <1>8 DEF WorkInv, WritePending
<1>16. EventInv'
  <2>1. \A q \in DOMAIN objs, h \in Goals :
          /\ EventDue(q, h)' = 0
          /\ EventDue(q, h) = IF q = o /\ h = g THEN 1 ELSE 0
    BY <1>1, <1>8 DEF EventDue
  <2>2. ASSUME faults' = 0, NEW h \in Goals
        PROVE  r.goals[h].events + EventDue(o, h)' = Len(r.goals[h].refs)
    <3>1. faults = 0
      BY <1>8, <2>2, TableFacts DEF IInv
    <3>2. objs[o].goals[h].events + EventDue(o, h) = Len(objs[o].goals[h].refs)
      BY <1>1, <3>1 DEF IInv, EventInv
    <3>3. objs[o].goals[h].events \in Nat
      BY <1>2, GoalFacts
    <3>4. CASE h = g
      BY <3>2, <3>3, <3>4, <1>1, <1>4, <1>5, <1>7, <2>1
    <3>5. CASE h # g
      BY <3>2, <3>3, <3>5, <1>1, <1>7, <2>1
    <3> QED
      BY <3>4, <3>5
  <2> QED
    BY <1>1, <1>6, <1>8, <2>1, <2>2, UpdateEvents DEF IInv
<1>17. ToldInv'
  <2>1. /\ disk' # << >> /\ created' = created /\ DOMAIN disk' = {1} /\ objs'[o] = r
        /\ DOMAIN objs' = DOMAIN objs /\ Len(objs') = Len(objs)
        /\ created <= 1 => o = 1 /\ Len(objs) = 1 /\ DOMAIN objs = {1}
    BY <1>1, <1>6, <1>8, UpdateFacts DEF IInv
  <2>2. \A h \in Goals : /\ objs[o].goals[h].events <= r.goals[h].events
                         /\ objs[o].goals[h].events \in Nat /\ r.goals[h].events \in Nat
    <3> SUFFICES ASSUME NEW h \in Goals
                 PROVE  /\ objs[o].goals[h].events <= r.goals[h].events
                        /\ objs[o].goals[h].events \in Nat /\ r.goals[h].events \in Nat
      OBVIOUS
    <3>1. objs[o].goals[h].events \in Nat
      BY <1>2, GoalFacts
    <3>2. CASE h = g
      BY <3>1, <3>2, <1>4, <1>5, <1>7
    <3>3. CASE h # g
      BY <3>1, <3>3, <1>7
    <3> QED
      BY <3>2, <3>3
  <2>3. CASE told' = told
    BY <1>1, <1>6, <1>8, <2>2, <2>3, UpdateTold DEF IInv
  <2>4. CASE told' = [told EXCEPT ![g] = @ + 1] /\ disk' = << objs'[Len(objs')] >>
    <3> SUFFICES ASSUME created <= 1, NEW run \in Records', NEW h \in Goals
                 PROVE  told'[h] <= run.goals[h].events
      BY <2>1 DEF ToldInv
    <3>1. run = r
      BY <2>1, <2>4 DEF Records
    <3>2. told[h] <= objs[o].goals[h].events
      BY <1>2 DEF IInv, ToldInv
    <3>3. told \in [Goals -> Nat]
      BY TableFacts DEF IInv
    <3>4. CASE h = g
      <4>1. told'[h] = told[h] + 1 /\ r.goals[h].events = objs[o].goals[h].events + 1
        BY <1>5, <1>7, <2>4, <3>3, <3>4
      <4> QED
        BY <2>2, <3>1, <3>2, <3>3, <4>1
    <3>5. CASE h # g
      <4>1. told'[h] = told[h]
        BY <2>4, <3>3, <3>5
      <4> QED
        BY <2>2, <3>1, <3>2, <3>3, <4>1
    <3> QED
      BY <3>4, <3>5
  <2> QED
    BY <1>8, <2>3, <2>4
<1>18. LinkInv' /\ AccountInv' /\ DirsInv'
  BY <1>1, <1>6, <1>8, GoalsOnly
<1> QED
  BY <1>13, <1>14, <1>15, <1>16, <1>17, <1>18 DEF IInv

-----------------------------------------------------------------------------
\* A directory is made: no record changes, and the only task has no record yet.
LEMMA MakeStep == ASSUME IInv, MakeWorkspace PROVE IInv'
<1> USE DEF IInv
<1>1. PICK kind \in Kinds, d \in Dirs :
        /\ dirs' = DirsAfter(kind, d)
        /\ file' = FileAfter(kind, d)
        /\ work' = [stage |-> "created", dir |-> IF kind \in Managed THEN d ELSE Outside]
  BY DEF MakeWorkspace
<1>2. /\ work.stage = "idle" /\ work'.stage = "created" /\ created < MaxRuns
      /\ work'.dir = IF kind \in Managed THEN d ELSE Outside
      /\ created' = created + 1 /\ UNCHANGED <<objs, disk, waiting, writes, told, faults, edits>>
  BY <1>1 DEF MakeWorkspace, Idle
<1>3. /\ Len(objs) \in Nat /\ {created, writes, faults} \subseteq Nat /\ MaxRuns \in Nat
      /\ Len(objs) <= created /\ objs \in Seq(Run)
  BY TableFacts, EvidenceBounds DEF CountInv, TypeOK
<1>4. d \in Places /\ Outside \in Places /\ d # Outside
  BY <1>3 DEF Places, Dirs, Outside
<1>5. kind \in Managed \/ kind = "remote_git_clone_failed" \/ kind = "none"
  BY DEF Kinds
<1>6. dirs' \subseteq Dirs /\ file' \in [Places -> Held]
  <2>1. dirs \subseteq Dirs /\ file \in [Places -> Held]
    BY DEF TypeOK
  <2>2. dirs' \subseteq Dirs
    BY <1>1, <1>5, <2>1 DEF DirsAfter, Managed
  <2>3. \/ file' = file \/ file' = [file EXCEPT ![d] = Original]
        \/ file' = [file EXCEPT ![d] = NoContent]
    BY <1>1, <1>5 DEF FileAfter, Managed
  <2> QED
    BY <1>4, <2>1, <2>2, <2>3, EvidenceBounds DEF Held
<1>7. TypeOK'
  BY <1>2, <1>3, <1>6 DEF TypeOK, Stages
<1>8. CountInv' /\ WorkInv'
  BY <1>2, <1>3, <1>4 DEF CountInv, WorkInv, WritePending
<1>9. Records' = Records
  BY <1>2 DEF Records
<1>10. RecordInv'
  BY <1>9 DEF RecordInv, WritesOk, GoalOk, Approved, Proven, FirstOfId, RecordedWrites
<1>11. ToldInv'
  BY <1>2, <1>3, <1>9 DEF ToldInv
<1>12. EventInv'
  BY <1>2 DEF EventInv, EventDue
<1>13. created' <= 1 => created = 0 /\ objs = << >> /\ disk = << >> /\ Records = {}
  <2>1. objs = << >> /\ disk = << >> => Records = {}
    BY DEF Records
  <2> QED
    BY <1>2, <1>3, <2>1, EmptySeq DEF CountInv
<1>14. ~WritePending /\ ~WritePending'
  BY <1>2 DEF WritePending
<1>15. LinkInv'
  <2> SUFFICES ASSUME created' <= 1, NEW p \in Places, file'[p] \notin {NoContent, Original}
               PROVE  0 < faults + edits
    BY <1>2, <1>9, <1>13 DEF LinkInv
  <2>1. \/ file' = file \/ file' = [file EXCEPT ![d] = Original]
        \/ file' = [file EXCEPT ![d] = NoContent]
    BY <1>1, <1>5 DEF FileAfter, Managed
  <2>2. file[p] \notin {NoContent, Original}
    BY <1>4, <2>1 DEF TypeOK
  <2> QED
    BY <1>3, <1>13, <2>2 DEF LinkInv
<1>16. AccountInv'
  BY <1>2, <1>13 DEF AccountInv
<1>17. DirsInv'
  <2> SUFFICES ASSUME faults = 0, created = 0, objs = << >>
               PROVE  /\ dirs' \subseteq {work'.dir}
                      /\ work'.dir # Outside => work'.dir \in dirs'
    BY <1>2, <1>3, <1>13 DEF DirsInv
  <2>1. dirs = {}
    BY <1>3 DEF DirsInv
  <2>2. CASE kind \in Managed
    BY <1>1, <1>2, <2>1, <2>2 DEF DirsAfter, Managed
  <2>3. CASE kind \notin Managed
    BY <1>1, <1>2, <1>5, <2>1, <2>3 DEF DirsAfter
  <2> QED
    BY <2>2, <2>3
<1> QED
  BY <1>7, <1>8, <1>10, <1>11, <1>12, <1>15, <1>16, <1>17

\* The run object of a new task replaces the one of the same id in the snapshot.
LEMMA RegisterStep == ASSUME IInv, RegisterRun PROVE IInv'
<1> USE DEF IInv
<1> DEFINE r == [dir |-> work.dir, cleaned |-> FALSE,
                 goals |-> [g \in Goals |-> [status |-> "pending", refs |-> << >>, events |-> 0]],
                 verifications |-> << >>, approvals |-> << >>, executions |-> << >>]
<1>1. /\ work.stage = "created" /\ Save(Append(objs, r)) /\ work' = Idle
      /\ UNCHANGED <<dirs, file, waiting, writes, created, told, edits>>
  BY DEF RegisterRun
<1>2. /\ Len(objs) < created /\ work.dir \in Places /\ created <= MaxRuns
  BY <1>1 DEF WorkInv, CountInv
<1>3. /\ Len(objs) \in Nat /\ DOMAIN objs = 1 .. Len(objs) /\ objs \in Seq(Run)
      /\ {created, writes, faults, edits} \subseteq Nat
      /\ \A o \in DOMAIN objs : objs[o] \in Run
  BY TableFacts DEF TypeOK
<1>4. /\ r.dir = work.dir /\ r.cleaned = FALSE /\ r.verifications = << >>
      /\ r.approvals = << >> /\ r.executions = << >>
      /\ \A g \in Goals : r.goals[g] = [status |-> "pending", refs |-> << >>, events |-> 0]
      /\ r \in Run
  <2>1. r.goals \in [Goals -> Goal]
    BY DEF Goal
  <2>2. << >> \in Seq(Verification) /\ << >> \in Seq(Approval) /\ << >> \in Seq(Execution)
    OBVIOUS
  <2> QED
    BY <1>2, <2>1, <2>2 DEF Run
<1> HIDE DEF r
<1>5. /\ objs' = Append(objs, r) /\ objs' \in Seq(Run) /\ Len(objs') = Len(objs) + 1
      /\ DOMAIN objs' = 1 .. Len(objs) + 1 /\ objs'[Len(objs) + 1] = r
      /\ \A o \in DOMAIN objs : objs'[o] = objs[o]
      /\ objs' # << >>
  BY <1>1, <1>3, <1>4 DEF Save
<1>6. disk' = << r >> /\ faults' = faults
  BY <1>1, <1>3, <1>5 DEF Save
<1>7. /\ disk' \in Seq(Run) /\ Len(disk') = 1 /\ DOMAIN disk' = {1} /\ disk'[1] = r
      /\ disk' # << >>
  BY <1>4, <1>6
<1>8. work'.stage = "idle" /\ ~WritePending'
  BY <1>1 DEF Idle, WritePending
<1>9. TypeOK'
  BY <1>1, <1>3, <1>5, <1>6, <1>7, <1>8 DEF TypeOK, Stages
<1>10. CountInv' /\ WorkInv'
  BY <1>1, <1>2, <1>3, <1>5, <1>7, <1>8 DEF CountInv, WorkInv
<1>11. RecordedWrites(r) = {}
  BY <1>4 DEF RecordedWrites
<1>12. \A run \in Records' : run \in Records \/ run = r
  BY <1>3, <1>5, <1>7 DEF Records
<1>13. RecordInv'
  <2>1. WritesOk(r)
    BY <1>11 DEF WritesOk
  <2>2. ASSUME NEW g \in Goals PROVE GoalOk(r, g)
    <3>1. /\ r.goals[g].status = "pending" /\ r.goals[g].refs = << >>
          /\ r.goals[g].events = 0
      BY <1>4
    <3> QED
      BY <3>1 DEF GoalOk
  <2>3. \A run \in Records' : WritesOk(run) /\ \A g \in Goals : GoalOk(run, g)
    BY <1>12, <2>1, <2>2 DEF RecordInv
  <2> QED
    BY <2>3, Zenon DEF RecordInv, WritesOk, GoalOk, Approved, Proven, FirstOfId, RecordedWrites
<1>14. EventInv'
  <2> SUFFICES ASSUME faults = 0 PROVE EventInv'
    BY <1>6 DEF EventInv
  <2>1. \A o \in 1 .. Len(objs) + 1, g \in Goals : EventDue(o, g)' = 0
    BY <1>8 DEF EventDue
  <2>2. ASSUME NEW o \in 1 .. Len(objs) + 1, NEW g \in Goals
        PROVE  objs'[o].goals[g].events + EventDue(o, g)' = Len(objs'[o].goals[g].refs)
    <3>1. CASE o = Len(objs) + 1
      BY <3>1, <1>4, <1>5, <2>1
    <3>2. CASE o \in DOMAIN objs
      <4>1. EventDue(o, g) = 0
        BY <1>1 DEF EventDue
      <4> QED
        BY <3>2, <4>1, <1>5, <2>1 DEF EventInv
    <3> QED
      BY <3>1, <3>2, <1>3
  <2> QED
    BY <1>5, <1>7, <2>2 DEF EventInv
<1>15. created <= 1 => objs = << >> /\ disk = << >> /\ Records' = {r} /\ DOMAIN objs' = {1}
                       /\ objs'[1] = r
  <2> SUFFICES ASSUME created <= 1
               PROVE  objs = << >> /\ disk = << >> /\ Records' = {r} /\ DOMAIN objs' = {1}
                      /\ objs'[1] = r
    OBVIOUS
  <2>1. Len(objs) = 0
    BY <1>2, <1>3
  <2>2. objs = << >> /\ disk = << >>
    BY <1>3, <2>1, EmptySeq DEF CountInv
  <2>3. DOMAIN objs' = {1} /\ objs'[1] = r
    BY <1>5, <2>1
  <2> QED
    BY <2>2, <2>3, <1>7 DEF Records
<1>16. ToldInv'
  BY <1>1, <1>4, <1>7, <1>15 DEF ToldInv
<1>17. LinkInv'
  <2> SUFFICES ASSUME created <= 1
               PROVE  Breaks(r) <= faults + edits /\ Linked(r, file[r.dir], faults + edits)
    BY <1>1, <1>5, <1>6, <1>8, <1>15, NextLinks DEF WithPending
  <2>1. Unlinked(r) = {} /\ Breaks(r) = 0
    BY <1>11, FS_EmptySet DEF Unlinked, Breaks
  <2>2. Now(r) = Original
    BY <1>11 DEF Now, LeftBefore
  <2>3. file[r.dir] \notin {NoContent, Original} => 0 < faults + edits
    BY <1>2, <1>4, <1>15 DEF LinkInv
  <2> QED
    BY <1>3, <2>1, <2>2, <2>3 DEF Linked
<1>18. AccountInv'
  <2>1. created <= 1 => writes = 0
    BY <1>15 DEF AccountInv
  <2>3. RecordedWrites(disk[1])' = {}
    BY <1>7, <1>11 DEF RecordedWrites
  <2>4. created <= 1 => writes <= 0 + faults + 0
    BY <1>3, <2>1
  <2>5. ~WritePending' /\ Cardinality({}) = 0
    BY <1>8, FS_EmptySet
  <2> QED
    BY <1>1, <1>6, <1>7, <2>3, <2>4, <2>5 DEF AccountInv
<1>19. DirsInv'
  BY <1>1, <1>2, <1>3, <1>4, <1>6, <1>8, <1>15 DEF DirsInv
<1> QED
  BY <1>9, <1>10, <1>13, <1>14, <1>16, <1>17, <1>18, <1>19

-----------------------------------------------------------------------------
\* No write is made and none recorded.
LEMMA SameAccount ==
  ASSUME AccountInv, ~WritePending, ~WritePending', UNCHANGED <<objs, disk, writes, created, faults>>
  PROVE  AccountInv'
<1>1. ASSUME created <= 1, NEW i \in DOMAIN disk
      PROVE  /\ writes <= Cardinality(RecordedWrites(disk[i])) + faults + 0
             /\ \A o \in DOMAIN objs : RecordedWrites(disk[i]) \subseteq RecordedWrites(objs[o])
  BY <1>1 DEF AccountInv
<1>2. disk = << >> => writes = 0
  BY DEF AccountInv
<1>3. \A run : RecordedWrites(run)' = RecordedWrites(run)
  BY DEF RecordedWrites
<1>4. (IF WritePending THEN 1 ELSE 0)' = 0
  OBVIOUS
<1> QED
  BY <1>1, <1>2, <1>3, <1>4 DEF AccountInv

\* The directory goes and its file with it; the record follows in the next step.
LEMMA RemoveStep == ASSUME IInv, RemoveWorkspace PROVE IInv'
<1> USE DEF IInv
<1>1. PICK p \in Places : /\ p = objs[Current].dir
                          /\ dirs' = dirs \ {p}
                          /\ file' = [file EXCEPT ![p] = NoContent]
  <2>1. objs[Current] \in Run
    BY TableFacts DEF RemoveWorkspace, Current
  <2> QED
    BY <2>1, RunFacts DEF RemoveWorkspace
<1>2. /\ work.stage = "idle" /\ work'.stage = "removed" /\ Len(objs) > 0
      /\ UNCHANGED <<objs, disk, waiting, writes, created, told, faults, edits>>
  BY DEF RemoveWorkspace, Idle, Current
<1>3. /\ Len(objs) \in Nat /\ DOMAIN objs = 1 .. Len(objs)
      /\ {writes, created, faults, edits} \subseteq Nat
      /\ dirs \subseteq Dirs /\ file \in [Places -> Held]
      /\ \A run \in Records : run \in Run
  BY TableFacts DEF TypeOK
<1>4. ~WritePending /\ ~WritePending'
  BY <1>2 DEF WritePending
<1>5. TypeOK'
  <2>1. dirs' \subseteq Dirs /\ file' \in [Places -> Held]
    BY <1>1, <1>3 DEF Held
  <2> QED
    BY <1>2, <2>1 DEF TypeOK, Stages
<1>6. CountInv' /\ WorkInv'
  BY <1>2, <1>3, <1>4, EmptySeq DEF CountInv, WorkInv
<1>7. Records' = Records
  BY <1>2 DEF Records
<1>8. RecordInv'
  BY <1>7 DEF RecordInv, WritesOk, GoalOk, Approved, Proven, FirstOfId, RecordedWrites
<1>9. ToldInv' /\ EventInv'
  BY <1>2, <1>7 DEF ToldInv, EventInv, EventDue
<1>10. LinkInv'
  <2>1. \A o \in DOMAIN objs : WithPending(o)' = WithPending(o) /\ WithPending(o) \in Run
    BY <1>2, <1>4, PendingFacts DEF WithPending
  <2>2. \A q \in Places : file'[q] \in {NoContent, file[q]}
    BY <1>1, <1>3
  <2> QED
    BY <1>2, <1>3, <2>1, <2>2, DisturbedLinks
<1>11. AccountInv'
  BY <1>2, <1>4, SameAccount
<1>12. DirsInv'
  <2> SUFFICES ASSUME faults = 0, created <= 1 PROVE DirsInv'
    BY <1>2 DEF DirsInv
  <2>1. DOMAIN objs = {1} /\ Len(objs) = 1 /\ created # 0
    BY <1>2, <1>3 DEF CountInv
  <2>2. dirs \subseteq {p}
    BY <1>1, <2>1 DEF DirsInv, Current
  <2>3. dirs' = {}
    BY <1>1, <2>2
  <2> QED
    BY <1>2, <2>1, <2>3 DEF DirsInv
<1> QED
  BY <1>5, <1>6, <1>8, <1>9, <1>10, <1>11, <1>12

LEMMA CleanupStep == ASSUME IInv, RecordCleanup PROVE IInv'
<1>1. work.stage = "removed"
  BY DEF RecordCleanup
<1>2. PICK o \in DOMAIN objs : o = Len(objs)
  BY <1>1, TableFacts DEF IInv, WorkInv
<1> DEFINE r == [objs[o] EXCEPT !.cleaned = TRUE]
<1>3. objs[o] \in Run /\ objs[o] \in Records
  BY TableFacts DEF IInv
<1>4. /\ r.dir = objs[o].dir /\ r.cleaned = TRUE /\ r.goals = objs[o].goals
      /\ r.executions = objs[o].executions /\ r.verifications = objs[o].verifications
      /\ r.approvals = objs[o].approvals /\ r \in Run
  BY <1>3 DEF Run
<1>5. Save([objs EXCEPT ![o] = r])
  BY <1>2 DEF RecordCleanup, Current
<1>6. /\ Update(o, r) /\ work' = Idle /\ work'.stage = "idle"
      /\ waiting' = waiting /\ told' = told /\ created' = created /\ dirs' = dirs
      /\ faults' = faults
  BY <1>5 DEF RecordCleanup, Save, Update, Idle
<1> HIDE DEF r
<1>7. WritesOk(objs[o]) /\ \A g \in Goals : GoalOk(objs[o], g)
  BY <1>3 DEF IInv, RecordInv
<1>8. WritesOk(r)
  BY <1>4, <1>7 DEF WritesOk, RecordedWrites, Approved
<1>9. \A g \in Goals : GoalOk(r, g)
  <2>1. \A id : Proven(objs[o], id) => Proven(r, id)
    BY <1>4 DEF Proven, FirstOfId
  <2> QED
    BY <1>4, <1>7, <2>1, Zenon DEF GoalOk
<1>10. DirsInv'
  <2> SUFFICES ASSUME faults = 0, created <= 1 PROVE DirsInv'
    BY <1>6 DEF DirsInv
  <2>1. DOMAIN objs' = {1} /\ objs'[1] = r /\ DOMAIN objs = {1}
    BY <1>4, <1>6, UpdateFacts DEF IInv
  <2>2. dirs = {}
    BY <1>1, <2>1 DEF IInv, DirsInv
  <2> QED
    BY <1>4, <1>6, <2>1, <2>2 DEF DirsInv
<1> QED
  BY <1>1, <1>4, <1>6, <1>8, <1>9, <1>10, RecordKept DEF IInv

-----------------------------------------------------------------------------
\* What no tool touches: the records.
LEMMA ToolKept ==
  ASSUME IInv, work = Idle, NEW o \in DOMAIN objs,
         UNCHANGED <<objs, disk, waiting, created, told, edits>>,
         work'.stage = "executed", work'.obj = o, work'.record \in Execution,
         work'.record.left # NoContent => Approved(objs[o], work'.record.approval),
         faults' \in {faults, faults + 1}, writes' \in Nat, dirs' \subseteq Dirs,
         file' \in [Places -> Held]
  PROVE  /\ TypeOK' /\ RecordInv' /\ CountInv' /\ WorkInv' /\ EventInv' /\ ToldInv'
         /\ Records' = Records /\ ~WritePending
<1> USE DEF IInv
<1>1. work.stage = "idle" /\ ~WritePending
  BY DEF Idle, WritePending
<1>2. {writes, created, faults, edits} \subseteq Nat
  BY TableFacts
<1>3. TypeOK' /\ CountInv'
  BY <1>1, <1>2 DEF TypeOK, Stages, CountInv
<1>4. Records' = Records
  BY DEF Records
<1>5. RecordInv'
  BY <1>4 DEF RecordInv, WritesOk, GoalOk, Approved, Proven, FirstOfId, RecordedWrites
<1>6. WorkInv'
  BY DEF WorkInv, WritePending, Approved
<1>7. EventInv' /\ ToldInv'
  BY <1>1, <1>2, <1>4 DEF EventInv, EventDue, ToldInv
<1> QED
  BY <1>1, <1>3, <1>4, <1>5, <1>6, <1>7

\* A tool that changes nothing outside
LEMMA QuietTool ==
  ASSUME IInv, work = Idle, NEW o \in DOMAIN objs, NEW a \in Nat,
         NEW status \in {"completed", "failed", "blocked"}, work' = Executed(o, a, status, NoContent, NoContent),
         UNCHANGED <<objs, disk, dirs, file, waiting, writes, created, told, faults, edits>>
  PROVE  IInv'
<1>1. /\ work'.stage = "executed" /\ work'.obj = o /\ work'.record \in Execution
      /\ work'.record.left = NoContent /\ work.stage = "idle"
  BY DEF Executed, Execution, Idle, Held
<1>2. /\ writes \in Nat /\ dirs \subseteq Dirs
      /\ file \in [Places -> Held]
  BY TableFacts DEF IInv, TypeOK
<1>3. /\ TypeOK' /\ RecordInv' /\ CountInv' /\ WorkInv' /\ EventInv' /\ ToldInv'
      /\ Records' = Records /\ ~WritePending
  BY <1>1, <1>2, ToolKept
<1>4. ~WritePending'
  BY <1>1 DEF WritePending
<1>5. LinkInv'
  <2>1. \A q \in DOMAIN objs : WithPending(q)' = WithPending(q) /\ WithPending(q) \in Run
    BY <1>3, <1>4, PendingFacts DEF IInv, WithPending
  <2> QED
    BY <2>1, TableFacts, DisturbedLinks DEF IInv
<1>6. AccountInv'
  BY <1>3, <1>4, SameAccount DEF IInv
<1>7. DirsInv'
  BY <1>1, <1>3, <1>4 DEF IInv, DirsInv, RecordedWrites
<1> QED
  BY <1>3, <1>5, <1>6, <1>7 DEF IInv

\* A write that breaks off: the file stays as it was or is torn.
LEMMA TornWrite ==
  ASSUME IInv, work = Idle, NEW o \in DOMAIN objs, NEW a \in Nat, NEW content \in Contents,
         work' = Executed(o, a, "failed", NoContent, NoContent),
         faults' = faults + 1, Remade(objs[o].dir),
         file' \in {file, [file EXCEPT ![objs[o].dir] = content]},
         UNCHANGED <<objs, disk, waiting, writes, created, told, edits>>
  PROVE  IInv'
<1>1. /\ work'.stage = "executed" /\ work'.obj = o /\ work'.record \in Execution
      /\ work'.record.left = NoContent
  BY DEF Executed, Execution, Held
<1>2. objs[o].dir \in Places /\ \A run \in Records : run.dir \in Places
  BY TableFacts, RunFacts DEF IInv
<1>3. /\ {writes, faults, edits} \subseteq Nat /\ dirs \subseteq Dirs
      /\ file \in [Places -> Held]
  BY TableFacts DEF IInv, TypeOK
<1>4. dirs' \subseteq Dirs /\ file' \in [Places -> Held]
  BY <1>2, <1>3 DEF Remade, Places, Held
<1>5. /\ TypeOK' /\ RecordInv' /\ CountInv' /\ WorkInv' /\ EventInv' /\ ToldInv'
      /\ Records' = Records /\ ~WritePending
  BY <1>1, <1>3, <1>4, ToolKept
<1>6. ~WritePending'
  BY <1>1 DEF WritePending
<1>7. LinkInv'
  <2>1. \A q \in DOMAIN objs : WithPending(q)' = WithPending(q) /\ WithPending(q) \in Run
    BY <1>5, <1>6, PendingFacts DEF IInv, WithPending
  <2>2. faults + edits < faults' + edits'
    BY <1>3
  <2> QED
    BY <1>3, <2>1, <2>2, DisturbedLinks DEF IInv
<1>8. AccountInv'
  <2>1. \A i \in DOMAIN disk : Cardinality(RecordedWrites(disk[i])) \in Nat
    BY TableFacts, ExecutionFacts DEF IInv
  <2>2. ASSUME created <= 1, NEW i \in DOMAIN disk
        PROVE  writes <= Cardinality(RecordedWrites(disk[i])) + faults' + 0
    <3>1. writes <= Cardinality(RecordedWrites(disk[i])) + faults + 0
      BY <1>5, <2>2 DEF IInv, AccountInv
    <3> QED
      BY <1>3, <2>1, <3>1
  <2> QED
    BY <1>6, <2>2 DEF IInv, AccountInv, RecordedWrites
<1>9. DirsInv'
  BY <1>3 DEF DirsInv
<1> QED
  BY <1>5, <1>7, <1>8, <1>9 DEF IInv

\* A write that succeeds found what it expects: it continues the record unless the file
\* was disturbed, and there was no break for that yet.
LEMMA FullWrite ==
  ASSUME IInv, work = Idle, NEW o \in DOMAIN objs, NEW a \in Nat, Approved(objs[o], a),
         NEW expected \in Held, NEW content \in Contents, ~StaleWrite(objs[o].dir, expected),
         writes' = writes + 1, file' = [file EXCEPT ![objs[o].dir] = content],
         Remade(objs[o].dir), work' = Executed(o, a, "completed", expected, content),
         UNCHANGED <<objs, disk, waiting, created, told, faults, edits>>
  PROVE  IInv'
<1>1. /\ {writes, faults, edits} \subseteq Nat /\ dirs \subseteq Dirs
      /\ file \in [Places -> Held]
      /\ objs[o] \in Run /\ objs[o] \in Records
  BY TableFacts DEF IInv, TypeOK
<1>2. /\ work'.stage = "executed" /\ work'.obj = o
      /\ work'.record = [approval |-> a, status |-> "completed", expected |-> expected,
                         left |-> content]
  BY DEF Executed
<1>3. /\ work'.record \in Execution /\ work'.record.left # NoContent
      /\ work'.record.left = content
      /\ work'.record.expected = expected /\ work'.record.approval = a
      /\ work.stage = "idle"
  BY <1>1, <1>2, EvidenceBounds DEF Execution, Idle, Held
<1>4. objs[o].dir \in Places /\ \A run \in Records : run.dir \in Places
  BY TableFacts, RunFacts DEF IInv
<1>5. dirs' \subseteq Dirs /\ file' \in [Places -> Held] /\ writes' \in Nat
  BY <1>1, <1>4 DEF Remade, Places, Held
<1>6. /\ TypeOK' /\ RecordInv' /\ CountInv' /\ WorkInv' /\ EventInv' /\ ToldInv'
      /\ Records' = Records /\ ~WritePending
  BY <1>2, <1>3, <1>5, ToolKept
<1>7. WritePending'
  BY <1>2, <1>3 DEF WritePending
<1>8. expected # NoContent => file[objs[o].dir] = expected
  BY DEF StaleWrite
<1>10. LinkInv'
  <2> DEFINE r == Recorded(objs[o], work'.record)
  <2> SUFFICES ASSUME created <= 1
               PROVE  /\ \A run \in Records : Breaks(run) <= faults + edits
                      /\ Linked(r, content, faults + edits)
    <3>1. created <= 1 => o = 1 /\ DOMAIN objs = {1} /\ objs # << >>
      BY TableFacts DEF IInv, CountInv
    <3>2. WithPending(o)' = r /\ file'[objs[o].dir] = content
      BY <1>1, <1>2, <1>4, <1>7 DEF WithPending, Recorded
    <3> QED
      BY <1>6, <3>1, <3>2, NextLinks
  <2>1. Linked(objs[o], file[objs[o].dir], faults + edits)
    BY <1>6 DEF IInv, LinkInv, WithPending
  <2>2. /\ Now(r) = content
        /\ Breaks(r) = Breaks(objs[o]) + IF expected \in {NoContent, Now(objs[o])} THEN 0 ELSE 1
    BY <1>1, <1>3, WriteRecord
  <2>3. Breaks(objs[o]) \in Nat
    BY <1>1, LinkFacts
  <2>4. \A run \in Records : Breaks(run) <= faults + edits
    BY DEF IInv, LinkInv
  <2> HIDE DEF r
  <2>5. CASE expected \in {NoContent, Now(objs[o])}
    BY <1>1, <2>1, <2>2, <2>3, <2>4, <2>5 DEF Linked
  <2>6. CASE expected \notin {NoContent, Now(objs[o])}
    <3>1. Breaks(objs[o]) < faults + edits
      BY <1>8, <2>1, <2>6 DEF Linked
    <3> QED
      BY <1>1, <2>2, <2>3, <2>4, <2>6, <3>1 DEF Linked
  <2> QED
    BY <2>5, <2>6
<1>11. AccountInv'
  <2>1. \A run : RecordedWrites(run)' = RecordedWrites(run)
    BY DEF RecordedWrites
  <2>2. disk # << >>
    BY TableFacts, EmptySeq DEF IInv, CountInv
  <2>3. ASSUME created <= 1, NEW i \in DOMAIN disk
        PROVE  /\ writes' <= Cardinality(RecordedWrites(disk[i])) + faults + 1
               /\ \A q \in DOMAIN objs : RecordedWrites(disk[i]) \subseteq RecordedWrites(objs[q])
    <3>1. Cardinality(RecordedWrites(disk[i])) \in Nat
      BY TableFacts, ExecutionFacts DEF IInv
    <3>2. writes <= Cardinality(RecordedWrites(disk[i])) + faults + 0
      BY <1>6, <2>3 DEF IInv, AccountInv
    <3> QED
      BY <1>1, <2>3, <3>1, <3>2 DEF IInv, AccountInv
  <2> QED
    BY <1>7, <2>1, <2>2, <2>3 DEF AccountInv
<1>12. DirsInv'
  <2> SUFFICES ASSUME faults = 0, created <= 1 PROVE DirsInv'
    BY DEF DirsInv
  <2>1. DOMAIN objs = {1} /\ o = 1 /\ created # 0
    BY TableFacts DEF IInv, CountInv
  <2>2. /\ dirs \subseteq {objs[1].dir}
        /\ objs[1].dir # Outside /\ ~objs[1].cleaned => objs[1].dir \in dirs
    BY <1>3, <2>1 DEF IInv, DirsInv
  <2>3. /\ dirs' \subseteq {objs[1].dir}
        /\ objs[1].dir # Outside => objs[1].dir \in dirs'
    BY <2>1, <2>2 DEF Remade
  <2> QED
    BY <1>2, <1>7, <2>1, <2>3 DEF DirsInv
<1> QED
  BY <1>6, <1>10, <1>11, <1>12 DEF IInv

LEMMA ExecuteStep == ASSUME IInv, ExecuteTool PROVE IInv'
<1>1. PICK o \in DOMAIN objs, a \in 1 .. MaxRecords :
        /\ ApprovedExecution(objs[o], a)
        /\ \/ ReadTool(o, a, objs[o].dir)
           \/ UnsupportedTool(o, a)
           \/ WriteTool(o, a, objs[o].dir)
  BY DEF ExecuteTool, WorkingPlace
<1>2. work = Idle /\ UNCHANGED <<objs, disk, waiting, created, told, edits>>
  BY DEF ExecuteTool
<1>3. a \in Nat /\ objs[o] \in Run
  BY TableFacts DEF IInv
<1>4. CASE ReadTool(o, a, objs[o].dir)
  <2>1. PICK status \in {"completed", "failed", "blocked"} :
          work' = Executed(o, a, status, NoContent, NoContent)
    BY <1>4 DEF ReadTool, ReadFile, SearchFiles, ListFiles, Status
  <2> QED
    BY <1>2, <1>3, <1>4, <2>1, QuietTool DEF ReadTool
<1>5. CASE UnsupportedTool(o, a)
  BY <1>2, <1>3, <1>5, QuietTool DEF UnsupportedTool
<1>6. CASE WriteTool(o, a, objs[o].dir)
  <2> DEFINE p == objs[o].dir
  <2>1. PICK expected \in Held, content \in Contents, path \in Paths :
          LET ok == path = "file" /\ ~StaleWrite(p, expected)
          IN  \/ /\ ok
                 /\ writes' = writes + 1
                 /\ file' = [file EXCEPT ![p] = content]
                 /\ Remade(p)
                 /\ work' = Executed(o, a, "completed", expected, content)
                 /\ UNCHANGED faults
              \/ /\ ok
                 /\ Trouble < MaxTrouble
                 /\ faults' = faults + 1
                 /\ file' \in {file, [file EXCEPT ![p] = content]}
                 /\ Remade(p)
                 /\ work' = Executed(o, a, "failed", NoContent, NoContent)
                 /\ UNCHANGED writes
              \/ /\ ~ok
                 /\ work' = Executed(o, a, "failed", NoContent, NoContent)
                 /\ UNCHANGED <<dirs, file, writes, faults>>
    BY <1>6 DEF WriteTool
  <2>2. Approved(objs[o], a)
    <3>1. /\ a \in DOMAIN objs[o].approvals /\ objs[o].approvals[a].tool = "write"
          /\ objs[o].approvals[a].decision = "approve"
      BY <1>1, <1>6 DEF ApprovedExecution, WriteTool
    <3>2. objs[o].approvals[a] \in Approval
      BY <1>3, <3>1, RunFacts, ElementOfSeq
    <3> QED
      BY <3>1, <3>2 DEF Approved, Approval
  <2>3. CASE /\ ~StaleWrite(p, expected)
             /\ writes' = writes + 1
             /\ file' = [file EXCEPT ![p] = content]
             /\ Remade(p)
             /\ work' = Executed(o, a, "completed", expected, content)
             /\ UNCHANGED faults
    BY <1>2, <1>3, <2>2, <2>3, FullWrite
  <2>4. CASE /\ faults' = faults + 1
             /\ file' \in {file, [file EXCEPT ![p] = content]}
             /\ Remade(p)
             /\ work' = Executed(o, a, "failed", NoContent, NoContent)
             /\ UNCHANGED writes
    BY <1>2, <1>3, <2>4, TornWrite
  <2>5. CASE /\ work' = Executed(o, a, "failed", NoContent, NoContent)
             /\ UNCHANGED <<dirs, file, writes, faults>>
    BY <1>2, <1>3, <2>5, QuietTool
  <2> QED
    BY <2>1, <2>3, <2>4, <2>5
<1> QED
  BY <1>1, <1>4, <1>5, <1>6

\* The execution goes on record: what was pending is one recorded write more.
LEMMA RecordStep == ASSUME IInv, RecordExecution PROVE IInv'
<1>1. PICK o \in DOMAIN objs, rec \in Execution : o = work.obj /\ rec = work.record
  BY DEF RecordExecution, IInv, WorkInv
<1> DEFINE r == [objs[o] EXCEPT !.executions = Append(@, rec)]
<1>2. /\ work.stage = "executed" /\ Note([objs EXCEPT ![o] = r])
      /\ WritePending <=> rec.left # NoContent
  BY <1>1 DEF RecordExecution, WritePending
<1>3. /\ objs[o] \in Run /\ objs[o] \in Records
      /\ objs[o].executions \in Seq(Execution) /\ Len(objs[o].executions) \in Nat
      /\ DOMAIN objs[o].executions = 1 .. Len(objs[o].executions)
      /\ {writes, faults, created, edits} \subseteq Nat
  BY TableFacts, RunFacts DEF IInv
<1> DEFINE n == Len(objs[o].executions) + 1
<1>4. /\ r.dir = objs[o].dir /\ r.cleaned = objs[o].cleaned /\ r.goals = objs[o].goals
      /\ r.approvals = objs[o].approvals /\ r.verifications = objs[o].verifications
      /\ r.executions = Append(objs[o].executions, rec) /\ r \in Run
  <2>1. Append(objs[o].executions, rec) \in Seq(Execution)
    BY <1>3
  <2> QED
    BY <1>3, <2>1 DEF Run
<1> HIDE DEF r
<1>5. /\ DOMAIN r.executions = 1 .. n /\ r.executions[n] = rec
      /\ \A e \in DOMAIN objs[o].executions : r.executions[e] = objs[o].executions[e]
  BY <1>3, <1>4
<1>6. /\ \A e \in DOMAIN r.executions : e = n \/ e \in DOMAIN objs[o].executions
      /\ n \notin DOMAIN objs[o].executions /\ n \in DOMAIN r.executions
      /\ \A e \in DOMAIN objs[o].executions : e \in DOMAIN r.executions
  BY <1>3, <1>5
<1> HIDE DEF n
<1>7. /\ \A e \in RecordedWrites(r) : e = n \/ e \in RecordedWrites(objs[o])
      /\ n \in RecordedWrites(r) <=> rec.left # NoContent
      /\ \A e \in RecordedWrites(objs[o]) : e \in RecordedWrites(r) /\ e # n
      /\ \A e \in RecordedWrites(objs[o]) : r.executions[e] = objs[o].executions[e]
      /\ n \notin RecordedWrites(objs[o])
  BY <1>3, <1>5, <1>6 DEF RecordedWrites
<1>8. /\ Update(o, r) /\ work'.stage = "idle" /\ ~WritePending'
      /\ waiting' = waiting /\ told' = told /\ created' = created /\ dirs' = dirs
      /\ file' = file /\ writes' = writes
      /\ \/ disk' = << objs'[Len(objs')] >> /\ faults' = faults
         \/ disk' = disk /\ faults' = faults + 1
  BY <1>2 DEF Note, Save, SaveFails, Update, Idle, WritePending
<1>9. WritesOk(objs[o]) /\ \A g \in Goals : GoalOk(objs[o], g)
  BY <1>3 DEF IInv, RecordInv
<1>10. WritesOk(r)
  <2> SUFFICES ASSUME NEW e \in RecordedWrites(r) PROVE Approved(r, r.executions[e].approval)
    BY DEF WritesOk
  <2>1. CASE e = n
    <3>1. Approved(objs[o], rec.approval)
      BY <1>1, <1>2, <1>7, <2>1 DEF IInv, WorkInv
    <3> QED
      BY <1>4, <1>5, <2>1, <3>1 DEF Approved
  <2>2. CASE e \in RecordedWrites(objs[o])
    BY <1>4, <1>7, <1>9, <2>2 DEF WritesOk, Approved
  <2> QED
    BY <1>7, <2>1, <2>2
<1>11. \A g \in Goals : GoalOk(r, g)
  <2>1. \A id : Proven(objs[o], id) => Proven(r, id)
    BY <1>4 DEF Proven, FirstOfId
  <2> QED
    BY <1>4, <1>9, <2>1, Zenon DEF GoalOk
<1>12. TypeOK'
  <2>1. waiting' \in [1 .. MaxRuns -> [Goals -> 0 .. MaxHeads]] /\ told' \in [Goals -> Nat]
    BY <1>8 DEF IInv, TypeOK
  <2> QED
    BY <1>4, <1>8, <2>1, UpdateTypes DEF IInv, Stages
<1>13. CountInv' /\ RecordInv'
  BY <1>4, <1>8, <1>10, <1>11, UpdateCount, UpdateRecords DEF IInv
<1>14. WorkInv'
  BY <1>8 DEF WorkInv
<1>15. EventInv'
  <2>1. \A q \in DOMAIN objs, g \in Goals : EventDue(q, g) = 0 /\ EventDue(q, g)' = 0
    BY <1>2, <1>8 DEF EventDue
  <2>2. ASSUME faults' = 0, NEW g \in Goals
        PROVE  r.goals[g].events + EventDue(o, g)' = Len(r.goals[g].refs)
    <3>1. faults = 0
      BY <1>3, <1>8, <2>2
    <3>2. objs[o].goals[g].events + 0 = Len(objs[o].goals[g].refs)
      BY <2>1, <3>1 DEF IInv, EventInv
    <3> QED
      BY <1>4, <2>1, <3>2
  <2> QED
    BY <1>4, <1>8, <2>1, <2>2, UpdateEvents DEF IInv
<1>16. ToldInv'
  <2>1. \A g \in Goals : objs[o].goals[g].events <= r.goals[g].events
    BY <1>3, <1>4, GoalFacts
  <2> QED
    BY <1>4, <1>8, <2>1, UpdateTold DEF IInv
<1>17. /\ DOMAIN objs' = DOMAIN objs /\ objs'[o] = r /\ Len(objs') = Len(objs)
       /\ disk # << >> /\ disk' # << >> /\ DOMAIN disk' = {1}
       /\ Records' \subseteq Records \cup {r}
       /\ created <= 1 => o = 1 /\ Len(objs) = 1 /\ DOMAIN objs = {1}
  BY <1>4, <1>8, UpdateFacts DEF IInv
<1>18. \A run : RecordedWrites(run)' = RecordedWrites(run)
  BY DEF RecordedWrites
<1>19. LinkInv'
  <2>1. r = Recorded(objs[o], rec) /\ {faults, edits, faults', edits'} \subseteq Nat
        /\ faults + edits <= faults' + edits' /\ objs' # << >>
    BY <1>3, <1>8, <1>17, EmptySeq DEF r, Recorded, Update
  <2> SUFFICES ASSUME created <= 1
               PROVE  /\ \A run \in Records' : Breaks(run) <= faults' + edits'
                      /\ Linked(r, file[objs[o].dir], faults' + edits')
    BY <1>4, <1>8, <1>17, <2>1, NextLinks DEF WithPending
  <2>2. Linked(r, file[objs[o].dir], faults + edits)
    <3>1. Linked(WithPending(o), file[objs[o].dir], faults + edits)
      BY DEF IInv, LinkInv
    <3>2. CASE rec.left # NoContent
      BY <1>1, <1>2, <2>1, <3>1, <3>2 DEF WithPending
    <3>3. CASE rec.left = NoContent
      BY <1>1, <1>2, <1>3, <2>1, <3>1, <3>3, QuietRecord DEF WithPending, Linked
    <3> QED
      BY <3>2, <3>3
  <2>3. Breaks(r) \in Nat /\ \A run \in Records : Breaks(run) \in Nat
    BY <1>4, TableFacts, LinkFacts DEF IInv
  <2>4. \A run \in Records : Breaks(run) <= faults + edits
    BY DEF IInv, LinkInv
  <2> QED
    BY <1>17, <2>1, <2>2, <2>3, <2>4 DEF Linked
<1>20. AccountInv'
  <2> SUFFICES ASSUME created <= 1
               PROVE  /\ writes <= Cardinality(RecordedWrites(disk'[1])) + faults'
                      /\ RecordedWrites(disk'[1]) \subseteq RecordedWrites(r)
    <3>1. (IF WritePending THEN 1 ELSE 0)' = 0
      BY <1>8
    <3>2. disk' = << >> => writes' = 0
      BY <1>17
    <3>3. \A c, f \in Nat : writes <= c + f <=> writes <= c + f + 0
      BY <1>3
    <3>4. Cardinality(RecordedWrites(disk'[1])) \in Nat /\ faults' \in Nat
      BY <1>3, <1>4, <1>8, UpdateFacts, ExecutionFacts DEF IInv
    <3> QED
      BY <1>8, <1>17, <1>18, <3>1, <3>2, <3>3, <3>4 DEF AccountInv
  <2>1. o = 1 /\ Len(objs) = 1 /\ DOMAIN objs = {1} /\ DOMAIN disk = {1} /\ disk[1] \in Run
    BY <1>17, TableFacts DEF IInv
  <2> DEFINE old == RecordedWrites(objs[o])
             kept == RecordedWrites(disk[1])
  <2>2. kept \in SUBSET old
    BY <2>1 DEF IInv, AccountInv
  <2>3. IsFiniteSet(old) /\ Cardinality(old) \in Nat /\ Cardinality(kept) \in Nat
    BY <1>3, <2>1, ExecutionFacts
  <2>4. Cardinality(kept) <= Cardinality(old)
    BY <2>2, <2>3, FS_Subset
  <2>5. writes <= Cardinality(kept) + faults + IF WritePending THEN 1 ELSE 0
    BY <2>1 DEF IInv, AccountInv
  <2>6. old \subseteq RecordedWrites(r)
    BY <1>7
  <2> HIDE DEF old, kept
  <2>7. Cardinality(RecordedWrites(r)) = Cardinality(old) + IF WritePending THEN 1 ELSE 0
    <3>1. CASE WritePending
      <4>1. RecordedWrites(r) = old \cup {n} /\ n \notin old
        BY <1>2, <1>7, <3>1 DEF old
      <4> QED
        BY <2>3, <3>1, <4>1, FS_AddElement
    <3>2. CASE ~WritePending
      <4>1. RecordedWrites(r) = old
        BY <1>2, <1>7, <3>2 DEF old
      <4> QED
        BY <2>3, <3>2, <4>1
    <3> QED
      BY <3>1, <3>2
  <2>8. CASE disk' = << objs'[Len(objs')] >> /\ faults' = faults
    <3>1. disk'[1] = r
      BY <1>17, <2>1, <2>8
    <3>2. writes <= Cardinality(RecordedWrites(r)) + faults
      <4>1. CASE WritePending
        BY <1>3, <2>3, <2>4, <2>5, <2>7, <4>1
      <4>2. CASE ~WritePending
        BY <1>3, <2>3, <2>4, <2>5, <2>7, <4>2
      <4> QED
        BY <4>1, <4>2
    <3> QED
      BY <2>8, <3>1, <3>2
  <2>9. CASE disk' = disk /\ faults' = faults + 1
    <3>1. writes <= Cardinality(kept) + faults + 1
      <4>1. CASE WritePending
        BY <1>3, <2>3, <2>5, <4>1
      <4>2. CASE ~WritePending
        BY <1>3, <2>3, <2>5, <4>2
      <4> QED
        BY <4>1, <4>2
    <3> QED
      BY <1>3, <2>2, <2>3, <2>6, <2>9, <3>1 DEF kept
  <2> QED
    BY <1>8, <2>8, <2>9
<1>21. DirsInv'
  <2> SUFFICES ASSUME faults' = 0, created <= 1 PROVE DirsInv'
    BY <1>8 DEF DirsInv
  <2>1. faults = 0 /\ o = 1 /\ DOMAIN objs = {1} /\ objs'[1] = r /\ DOMAIN objs' = {1}
    BY <1>3, <1>8, <1>17
  <2>2. /\ created = 0 => dirs = {}
        /\ dirs \subseteq {objs[o].dir}
        /\ objs[o].cleaned /\ dirs # {} => RecordedWrites(objs[o]) # {} \/ rec.left # NoContent
        /\ objs[o].dir # Outside /\ ~objs[o].cleaned => objs[o].dir \in dirs
    BY <1>2, <2>1 DEF IInv, DirsInv
  <2>3. RecordedWrites(objs[o]) # {} \/ rec.left # NoContent => RecordedWrites(r) # {}
    BY <1>7
  <2>4. /\ dirs \subseteq {r.dir}
        /\ r.cleaned /\ dirs # {} => RecordedWrites(r) # {}
        /\ r.dir # Outside /\ ~r.cleaned => r.dir \in dirs
    BY <1>4, <2>2, <2>3
  <2> QED
    BY <1>8, <1>18, <2>1, <2>2, <2>4 DEF DirsInv
<1> QED
  BY <1>12, <1>13, <1>14, <1>15, <1>16, <1>19, <1>20, <1>21 DEF IInv

\* Others change the file: the records stay, one more disturbance is counted.
LEMMA EditStep == ASSUME IInv, EditFile PROVE IInv'
<1> USE DEF IInv
<1>1. /\ UNCHANGED <<objs, disk, dirs, waiting, work, writes, created, told, faults>>
      /\ edits' = edits + 1 /\ file' \in [Places -> Held]
      /\ {faults, edits} \subseteq Nat
  BY TableFacts DEF EditFile, TypeOK
<1>2. TypeOK' /\ CountInv' /\ WorkInv'
  BY <1>1 DEF TypeOK, CountInv, WorkInv, WritePending, Approved
<1>3. Records' = Records
  BY <1>1 DEF Records
<1>4. RecordInv' /\ ToldInv'
  BY <1>1, <1>3 DEF RecordInv, ToldInv, WritesOk, GoalOk, Approved, Proven, FirstOfId, RecordedWrites
<1>5. EventInv' /\ DirsInv'
  BY <1>1 DEF EventInv, EventDue, DirsInv, WritePending, RecordedWrites
<1>6. LinkInv'
  <2>1. \A o \in DOMAIN objs : WithPending(o)' = WithPending(o) /\ WithPending(o) \in Run
    BY <1>1, PendingFacts DEF WithPending, WritePending
  <2>2. {faults', edits'} \subseteq Nat /\ faults + edits < faults' + edits'
    BY <1>1
  <2> QED
    BY <1>1, <2>1, <2>2, DisturbedLinks
<1>7. AccountInv'
  <2>1. AccountInv /\ WritePending' = WritePending
    BY <1>1 DEF WritePending
  <2> HIDE DEF IInv
  <2> QED
    BY <1>1, <2>1 DEF AccountInv
<1> QED
  BY <1>2, <1>4, <1>5, <1>6, <1>7

-----------------------------------------------------------------------------
\* The process starts again from the snapshot; the fault accounts for what it had not
\* recorded.
LEMMA CrashStep == ASSUME IInv, Crash PROVE IInv'
<1> USE DEF IInv
<1>1. /\ objs' = disk /\ disk' = disk /\ faults' = faults + 1 /\ work'.stage = "idle"
      /\ waiting' = NoHeads /\ UNCHANGED <<dirs, file, writes, created, told, edits>>
  BY DEF Crash, Idle
<1>2. /\ {writes, faults, created, edits} \subseteq Nat /\ disk \in Seq(Run) /\ Len(disk) \in 0 .. 1
      /\ Len(objs) \in Nat /\ MaxHeads \in Nat /\ DOMAIN disk = 1 .. Len(disk)
      /\ disk # << >> => DOMAIN disk = {1}
  BY TableFacts, EvidenceBounds DEF TypeOK
<1>3. TypeOK'
  <2>1. waiting' \in [1 .. MaxRuns -> [Goals -> 0 .. MaxHeads]]
    BY <1>1, <1>2 DEF NoHeads
  <2> QED
    BY <1>1, <1>2, <2>1 DEF TypeOK, Stages
<1>4. CountInv' /\ WorkInv'
  <2>1. Len(disk) <= created
    <3>1. CASE disk = << >>
      BY <1>2, <3>1
    <3>2. CASE disk # << >>
      <4>1. Len(objs) # 0
        BY <3>2, EmptySeq DEF CountInv, TypeOK
      <4> QED
        BY <1>2, <4>1 DEF CountInv
    <3> QED
      BY <3>1, <3>2
  <2> QED
    BY <1>1, <1>2, <2>1 DEF CountInv, WorkInv, WritePending
<1>5. Records' \subseteq Records
  BY <1>1 DEF Records
<1>6. RecordInv'
  <2>1. \A run \in Records' : WritesOk(run) /\ \A g \in Goals : GoalOk(run, g)
    BY <1>5 DEF RecordInv
  <2> QED
    BY <2>1, Zenon DEF RecordInv, WritesOk, GoalOk, Approved, Proven, FirstOfId, RecordedWrites
<1>7. EventInv' /\ DirsInv'
  BY <1>1, <1>2 DEF EventInv, DirsInv
<1>8. ToldInv'
  BY <1>1, <1>5 DEF ToldInv
<1>9. ~WritePending'
  BY <1>1 DEF WritePending
<1>10. LinkInv'
  <2>1. ASSUME NEW run \in Records, created <= 1
        PROVE  Breaks(run) < faults' + edits'
    <3>1. Breaks(run) <= faults + edits /\ Breaks(run) \in Nat
      BY <2>1, TableFacts, LinkFacts DEF LinkInv
    <3> QED
      BY <1>1, <1>2, <3>1
  <2>2. 0 < faults' + edits'
    BY <1>1, <1>2
  <2>3. \A o \in DOMAIN disk : disk[o] \in Records /\ disk[o] \in Run
    BY TableFacts
  <2>4. ASSUME NEW run \in Records, created <= 1
        PROVE  Breaks(run) <= faults' + edits' /\ \A c : Linked(run, c, faults' + edits')
    <3>1. Breaks(run) \in Nat /\ faults' + edits' \in Nat
      BY <1>1, <1>2, <2>4, TableFacts, LinkFacts
    <3> QED
      BY <2>1, <2>4, <3>1 DEF Linked
  <2>5. \A o \in DOMAIN objs' : WithPending(o)' = disk[o]
    BY <1>1, <1>9 DEF WithPending
  <2> QED
    BY <1>1, <1>5, <2>2, <2>3, <2>4, <2>5, NextLinks
<1>11. AccountInv'
  <2>1. \A run : RecordedWrites(run)' = RecordedWrites(run)
    BY DEF RecordedWrites
  <2>2. (IF WritePending THEN 1 ELSE 0)' = 0
    BY <1>9
  <2>3. ASSUME created <= 1, NEW i \in DOMAIN disk
        PROVE  writes <= Cardinality(RecordedWrites(disk[i])) + faults' + 0
    <3>1. Cardinality(RecordedWrites(disk[i])) \in Nat
      BY TableFacts, ExecutionFacts
    <3>2. writes <= Cardinality(RecordedWrites(disk[i])) + faults + IF WritePending THEN 1 ELSE 0
      BY <2>3 DEF AccountInv
    <3>3. CASE WritePending
      BY <1>1, <1>2, <3>1, <3>2, <3>3
    <3>4. CASE ~WritePending
      BY <1>1, <1>2, <3>1, <3>2, <3>4
    <3> QED
      BY <3>3, <3>4
  <2>4. \A i, o \in DOMAIN disk : RecordedWrites(disk[i]) \subseteq RecordedWrites(disk[o])
    BY <1>2
  <2>5. disk = << >> => writes = 0
    BY DEF AccountInv
  <2> QED
    BY <1>1, <2>1, <2>2, <2>3, <2>4, <2>5 DEF AccountInv
<1> QED
  BY <1>3, <1>4, <1>6, <1>7, <1>8, <1>10, <1>11

LEMMA InitStep == ASSUME Init PROVE IInv
<1>1. /\ objs = << >> /\ disk = << >> /\ dirs = {} /\ work.stage = "idle" /\ writes = 0
      /\ created = 0 /\ told = [g \in Goals |-> 0] /\ faults = 0 /\ edits = 0
      /\ \A p \in Places : file[p] \in {NoContent, Original}
  BY DEF Init, Idle
<1>2. TypeOK
  <2>1. waiting \in [1 .. MaxRuns -> [Goals -> 0 .. MaxHeads]]
    BY EvidenceBounds DEF Init, NoHeads
  <2>2. file \in [Places -> Held]
    BY EvidenceBounds DEF Init, Held
  <2> QED
    BY <1>1, <2>1, <2>2 DEF TypeOK, Stages
<1>3. Records = {}
  BY <1>1 DEF Records
<1>4. CountInv /\ WorkInv
  BY <1>1, EvidenceBounds DEF CountInv, WorkInv, WritePending
<1>5. RecordInv /\ ToldInv /\ LinkInv
  BY <1>1, <1>3 DEF RecordInv, ToldInv, LinkInv
<1>6. EventInv /\ AccountInv /\ DirsInv
  BY <1>1 DEF EventInv, AccountInv, DirsInv
<1> QED
  BY <1>2, <1>4, <1>5, <1>6 DEF IInv

-----------------------------------------------------------------------------
\* Every record rests on what it names, accounts for the writes and remembers the
\* directory, but for what the callback under way has yet to record, in every state.
THEOREM EvidenceInvariant == Spec => []IInv
<1>1. IInv /\ [Next]_vars => IInv'
  <2> SUFFICES ASSUME IInv, [Next]_vars PROVE IInv'
    OBVIOUS
  <2>1. CASE MakeWorkspace \/ RegisterRun \/ RemoveWorkspace \/ RecordCleanup
    BY <2>1, MakeStep, RegisterStep, RemoveStep, CleanupStep
  <2>2. CASE ApproveToolCall \/ ExecuteTool \/ RecordExecution \/ RecordVerification
    BY <2>2, ApproveStep, ExecuteStep, RecordStep, VerificationStep
  <2>3. CASE RequestCompletion \/ CompleteGoal \/ RecordCompletion \/ RefuseCompletion
    BY <2>3, RequestStep, CompleteStep, CompletionStep
  <2>4. CASE Crash \/ EditFile
    BY <2>4, CrashStep, EditStep
  <2>5. CASE UNCHANGED vars
    <3>1. waiting' \in [1 .. MaxRuns -> [Goals -> 0 .. MaxHeads]]
      BY <2>5 DEF vars, IInv, TypeOK
    <3> QED
      BY <2>5, <3>1, WaitingStep DEF vars
  <2> QED
    BY <2>1, <2>2, <2>3, <2>4, <2>5 DEF Next
<1> QED
  BY <1>1, InitStep, PTL DEF Spec

\* Run objects, snapshot, directories and files stay within their types.
THEOREM EvidenceTypes == Spec => []TypeOK
<1>1. IInv => TypeOK
  BY DEF IInv
<1> QED
  BY <1>1, EvidenceInvariant, PTL

\* A goal is completed on passed verifications of its own run, and who was told so finds
\* it in the snapshot, whatever overtakes the request and wherever the process dies.
THEOREM GoalsAreProven == Spec => []GoalsRestOnEvidence
<1>1. ASSUME IInv PROVE GoalsRestOnEvidence
  <2> USE <1>1 DEF IInv
  <2>1. ASSUME NEW run \in Records, NEW g \in Goals
        PROVE  /\ run.goals[g].status = "completed" <=> run.goals[g].refs # << >>
               /\ \A i \in DOMAIN run.goals[g].refs :
                    \E v \in DOMAIN run.verifications :
                      /\ FirstOfId(run, v)
                      /\ run.verifications[v] = [id |-> run.goals[g].refs[i], result |-> "passed"]
               /\ run.goals[g].events <= Len(run.goals[g].refs)
    BY <2>1 DEF RecordInv, GoalOk, Proven
  <2>2. ASSUME NEW run \in Records, NEW g \in Goals, faults = 0, work.stage # "completed"
        PROVE  run.goals[g].events = Len(run.goals[g].refs)
    <3>1. PICK o \in DOMAIN objs : run = objs[o]
      <4>1. CASE \E o \in DOMAIN objs : run = objs[o]
        BY <4>1
      <4>2. CASE \E i \in DOMAIN disk : run = disk[i]
        <5>1. disk # << >> /\ run = objs[Len(objs)]
          BY <2>2, <4>2, TableFacts DEF EventInv
        <5> QED
          BY <5>1, TableFacts DEF CountInv
      <4> QED
        BY <4>1, <4>2 DEF Records
    <3>2. EventDue(o, g) = 0
      BY <2>2 DEF EventDue
    <3>3. run.goals[g].events + 0 = Len(run.goals[g].refs)
      BY <2>2, <3>1, <3>2 DEF EventInv
    <3>4. run.goals[g].events \in Nat
      BY TableFacts, GoalFacts
    <3> QED
      BY <3>3, <3>4
  <2>3. created = 1 /\ disk # << >> => \A g \in Goals : told[g] <= disk[1].goals[g].events
    BY TableFacts DEF ToldInv
  <2> QED
    BY <2>1, <2>2, <2>3 DEF GoalsRestOnEvidence
<1> QED
  BY <1>1, EvidenceInvariant, PTL

\* Writes on record are approved, no more of them are missing from the record than there
\* were faults, and a write that matched an expected hash continues the record, but for
\* one exception to each fault and each edit by others.
THEOREM WritesAreOnRecord == Spec => []WritesAreAccounted
<1>1. ASSUME IInv PROVE WritesAreAccounted
  <2> USE <1>1 DEF IInv
  <2>1. ASSUME created = 1, disk # << >>
        PROVE  writes <= Cardinality(RecordedWrites(disk[1])) + faults
                           + IF work.stage = "executed" THEN 1 ELSE 0
    <3>1. /\ 1 \in DOMAIN disk /\ {writes, faults} \subseteq Nat
          /\ Cardinality(RecordedWrites(disk[1])) \in Nat
      BY <2>1, TableFacts, ExecutionFacts
    <3>2. writes <= Cardinality(RecordedWrites(disk[1])) + faults + IF WritePending THEN 1 ELSE 0
      BY <2>1, <3>1 DEF AccountInv
    <3>3. CASE work.stage = "executed"
      BY <3>1, <3>2, <3>3
    <3>4. CASE work.stage # "executed"
      BY <3>1, <3>2, <3>4 DEF WritePending
    <3> QED
      BY <3>3, <3>4
  <2>2. ASSUME NEW run \in Records, NEW e \in RecordedWrites(run)
        PROVE  run.approvals[run.executions[e].approval]
                 = [tool |-> "write", decision |-> "approve"]
    BY <2>2 DEF RecordInv, WritesOk, Approved
  <2>3. ASSUME NEW run \in Records, created = 1
        PROVE  Cardinality(Unlinked(run)) <= faults + edits
    BY <2>3 DEF LinkInv, Breaks
  <2> QED
    BY <2>1, <2>2, <2>3 DEF WritesAreAccounted
<1> QED
  BY <1>1, EvidenceInvariant, PTL

\* Without faults the record of the only task tells which directory there is.
THEOREM DirectoriesAreOnRecord == Spec => []DirectoriesAreRemembered
<1>1. ASSUME IInv PROVE DirectoriesAreRemembered
  <2> USE <1>1 DEF IInv
  <2> SUFFICES ASSUME faults = 0, created = 1,
                      work.stage \notin {"created", "removed", "executed"}
               PROVE  /\ \A d \in dirs : /\ disk[1].dir = d
                                         /\ disk[1].cleaned => RecordedWrites(disk[1]) # {}
                      /\ disk[1].dir # Outside /\ ~disk[1].cleaned => disk[1].dir \in dirs
    BY DEF DirectoriesAreRemembered
  <2>1. objs # << >> /\ disk # << >> /\ ~WritePending
    BY DEF CountInv, WritePending
  <2>2. Len(objs) = 1 /\ DOMAIN objs = {1} /\ disk[1] = objs[1]
    BY <2>1, TableFacts DEF CountInv, EventInv
  <2>3. /\ dirs \subseteq {objs[1].dir}
        /\ objs[1].cleaned /\ dirs # {} => RecordedWrites(objs[1]) # {}
        /\ objs[1].dir # Outside /\ ~objs[1].cleaned => objs[1].dir \in dirs
    BY <2>1, <2>2 DEF DirsInv
  <2> QED
    BY <2>2, <2>3
<1> QED
  BY <1>1, EvidenceInvariant, PTL

=============================================================================
