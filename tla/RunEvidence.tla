------------------------------ MODULE RunEvidence ------------------------------
(***************************************************************************)
(* What the record of a run says about work outside the process: the run's *)
(* workspace directory, the tool calls executed in it for a provider, and  *)
(* the goals completed on the evidence of verifications.                   *)
(*                                                                         *)
(* Every one of these handlers acts first and writes the snapshot later: a *)
(* directory is made before its run exists, removed before the run says    *)
(* so, a file is written before the execution is recorded, and a goal is   *)
(* saved before its event.  A crash or a failed write can fall in between. *)
(*                                                                         *)
(* A run id is the millisecond of its creation, so two tasks can share one *)
(* (two requests in a millisecond, a clock set back).  The model is of one *)
(* run id.  objs holds the run objects made under it since the start of    *)
(* the process: the last is the one in the map, a handler that waits for   *)
(* its body keeps the one it looked up.                                    *)
(***************************************************************************)
EXTENDS Integers, FiniteSets, SequencesExt

CONSTANTS Goals,            \* the success criteria of the task
          VerificationIds,  \* ids of verifications; steps can share one
          Contents,         \* what the file tools write can contain: equal contents, equal hashes
          Original,         \* its content at the source of the workspace
          NoContent,        \* no file, no expected hash, nothing written
          MaxRuns,          \* bound: tasks created under the run id
          MaxRecords,       \* bound: verifications, approvals and executions in all
          MaxHeads,         \* bound: goal completions waiting for their body
          MaxTrouble        \* bound: crashes, failed writes, edits and further tasks together

ASSUME EvidenceBounds == /\ MaxRuns \in Nat \ {0} /\ MaxRecords \in Nat
                         /\ MaxHeads \in Nat /\ MaxTrouble \in Nat
                         /\ Original \in Contents /\ NoContent \notin Contents

VARIABLES objs,    \* the run objects of the run id in this process
          disk,    \* the snapshot: no run, or the run of the id
          dirs,    \* the workspace directories that exist
          file,    \* the content of the file tools write in each place
          waiting, \* goal completions past their header check: object, goal -> number
          work,    \* the callback being executed and what it will record
          writes,  \* tool writes that happened
          created, \* tasks accepted
          told,    \* goal completions answered with 200
          faults,  \* crashes and failed writes
          edits    \* changes others made to the file

vars == <<objs, disk, dirs, file, waiting, work, writes, created, told, faults, edits>>

-----------------------------------------------------------------------------
\* A workspace directory is named by run id and millisecond; 0 stands for the task's
\* repo or the server's directory, where a run without a workspace works.
Outside == 0
Dirs    == 1 .. MaxRuns
Places  == {Outside} \cup Dirs

Managed == {"local_snapshot", "remote_git_clone"}
Kinds   == Managed \cup {"remote_git_clone_failed", "none"}

\* read stands for read_file, search_files and list_files.
Tools == {"read", "write", "other"}

\* A goal that starts as blocked, the run being paused, is completed like a pending one.
Goal         == [status : {"pending", "completed"}, refs : Seq(VerificationIds), events : Nat]
Verification == [id : VerificationIds, result : {"passed", "failed"}]
Approval     == [tool : Tools, decision : {"approve", "reject"}]

Held == Contents \cup {NoContent}

\* approval is a position.  left is what a completed write left in the file and expected
\* the content whose hash it had to match; the record in the code keeps that there was
\* such a write and such a match, and redacts path, content and hash.
Execution == [approval : Nat, status : {"completed", "failed", "blocked"},
              expected : Held, left : Held]

\* The workspace of kind local_snapshot or remote_git_clone is managed and has a
\* directory; the others have none.
Run == [dir : Places, cleaned : BOOLEAN, goals : [Goals -> Goal],
        verifications : Seq(Verification), approvals : Seq(Approval),
        executions : Seq(Execution)]

Stages == {"idle", "created", "removed", "executed", "completed"}

TypeOK == /\ objs \in Seq(Run)
          /\ disk \in Seq(Run) /\ Len(disk) <= 1
          /\ dirs \subseteq Dirs
          /\ file \in [Places -> Held]
          /\ waiting \in [1 .. MaxRuns -> [Goals -> 0 .. MaxHeads]]
          /\ work.stage \in Stages
          /\ {writes, created, faults, edits} \subseteq Nat
          /\ told \in [Goals -> Nat]

Idle     == [stage |-> "idle"]
NoHeads  == [o \in 1 .. MaxRuns |-> [g \in Goals |-> 0]]

Init == /\ objs = << >>
        /\ disk = << >>
        /\ dirs = {}
        /\ file = [p \in Places |-> IF p = Outside THEN Original ELSE NoContent]
        /\ waiting = NoHeads
        /\ work = Idle
        /\ writes = 0
        /\ created = 0
        /\ told = [g \in Goals |-> 0]
        /\ faults = 0
        /\ edits = 0

-----------------------------------------------------------------------------
\* runs.get(run_id), the object in the map
Current == Len(objs)

Trouble == faults + edits + IF created > 1 THEN created - 1 ELSE 0

\* Mutated Save: the snapshot keeps the run it had beside the new one of the same id.
SaveAppends(os) == /\ objs' = os
                   /\ disk' = Append(disk, os[Len(os)])
                   /\ UNCHANGED faults

\* persistRunStore writes the objects in the map; an object that was replaced is lost.
Save(os) == /\ objs' = os
            /\ disk' = << os[Len(os)] >>
            /\ UNCHANGED faults

\* The write throws and the handler's catch block answers with an error: memory
\* keeps the change, and the next write of any handler saves it too.
SaveFails(os) == /\ Trouble < MaxTrouble
                 /\ faults' = faults + 1
                 /\ objs' = os
                 /\ work' = Idle
                 /\ UNCHANGED disk

-----------------------------------------------------------------------------
\* Mutated DirsAfter: a failed clone leaves its directory.
DirsKeepFailed(kind, d) == IF kind = "none" THEN dirs ELSE dirs \cup {d}

\* The directories after createRunWorkspace made, or tried to make, d
DirsAfter(kind, d) ==
  CASE kind \in Managed -> dirs \cup {d}
    [] kind = "remote_git_clone_failed" -> dirs \ {d}
    [] kind = "none" -> dirs

\* The file in them: the copy or clone has the one of its source.
FileAfter(kind, d) ==
  CASE kind \in Managed -> [file EXCEPT ![d] = Original]
    [] kind = "remote_git_clone_failed" -> [file EXCEPT ![d] = NoContent]
    [] kind = "none" -> file

\* createRunWorkspace in POST /tasks.  A snapshot is copied over what is there.  A
\* clone fails for reasons of its own or because the directory of the same run id
\* and millisecond is there, and the failure removes the directory.
MakeWorkspace ==
  /\ work = Idle
  /\ created < MaxRuns
  /\ created > 0 => Trouble < MaxTrouble
  /\ \E kind \in Kinds, d \in Dirs :
       /\ \A e \in Dirs : e < d => e \in dirs \/ \E i \in DOMAIN objs : objs[i].dir = e
       /\ kind = "remote_git_clone" => d \notin dirs
       /\ dirs' = DirsAfter(kind, d)
       /\ file' = FileAfter(kind, d)
       /\ work' = [stage |-> "created",
                   dir |-> IF kind \in Managed THEN d ELSE Outside]
  /\ created' = created + 1
  /\ UNCHANGED <<objs, disk, waiting, writes, told, faults, edits>>

\* The run object replaces one of the same id in the map and is saved.
RegisterRun ==
  /\ work.stage = "created"
  /\ Save(Append(objs,
            [dir |-> work.dir, cleaned |-> FALSE,
             goals |-> [g \in Goals |-> [status |-> "pending", refs |-> << >>, events |-> 0]],
             verifications |-> << >>, approvals |-> << >>, executions |-> << >>]))
  /\ work' = Idle
  /\ UNCHANGED <<dirs, file, waiting, writes, created, told, edits>>

-----------------------------------------------------------------------------
\* POST workspace/cleanup: cleanupRunWorkspace removes the directory of a managed
\* workspace if it exists, whatever the run's record says of an earlier cleanup.
RemoveWorkspace ==
  /\ work = Idle
  /\ Current > 0
  /\ objs[Current].dir \in dirs
  /\ dirs' = dirs \ {objs[Current].dir}
  /\ file' = [file EXCEPT ![objs[Current].dir] = NoContent]
  /\ work' = [stage |-> "removed"]
  /\ UNCHANGED <<objs, disk, waiting, writes, created, told, faults, edits>>

\* The rest of the handler, which has no try block: a failed write ends the process.
RecordCleanup ==
  /\ work.stage = "removed"
  /\ Save([objs EXCEPT ![Current].cleaned = TRUE])
  /\ work' = Idle
  /\ UNCHANGED <<dirs, file, waiting, writes, created, told, edits>>

-----------------------------------------------------------------------------
Size(run) == Len(run.verifications) + Len(run.approvals) + Len(run.executions)
Room      == Current > 0 /\ FoldSeq(LAMBDA run, n : Size(run) + n, 0, objs) < MaxRecords

\* One record more for a run object, saved or not.
Note(os) == /\ \/ Save(os) /\ work' = Idle
               \/ SaveFails(os)
            /\ UNCHANGED <<dirs, file, waiting, writes, created, told, edits>>

\* POST provider-tool-call-approvals: nothing ties the approval to an earlier one
\* of the same tool call, or to the status of the run.
ApproveToolCall ==
  /\ work = Idle
  /\ \E o \in DOMAIN objs, approval \in Approval :
       /\ Room
       /\ Note([objs EXCEPT ![o].approvals = Append(@, approval)])

\* executionCwdForRun, for a run whose workspace was cleaned too: without a managed
\* workspace it is the task's repo or the server's directory.
WorkingPlace(run) == run.dir

\* assertRedactedApproval: the approval is found by its id and approves.
ApprovedExecution(run, a) == a \in DOMAIN run.approvals /\ run.approvals[a].decision = "approve"

\* The execution of approval a of object o, still to be recorded
Executed(o, a, status, expected, left) ==
  [stage |-> "executed", obj |-> o,
   record |-> [approval |-> a, status |-> status, expected |-> expected, left |-> left]]

\* The paths an operator can give, seen from the workspace root; protected is one
\* below .git or node_modules.
Paths == {"empty", "root", "file", "protected", "outside"}

Exists(p) == p \in dirs \cup {Outside}

Status(ok) == IF ok THEN "completed" ELSE "failed"

\* What the adapters answer for a path; they look and touch nothing.
ReadFile(p, path)    == Status(Exists(p) /\ path \in {"file", "protected"})
SearchFiles(p, path) == Status(Exists(p) /\ path \in {"empty", "root", "file", "protected"})
ListFiles(p, path)   == Status(Exists(p) /\ path \in {"root", "file", "protected"})

\* createProviderToolExecution: what the adapter of the tool does in place p.
ReadTool(o, a, p) ==
  /\ objs[o].approvals[a].tool = "read"
  /\ \E path \in Paths :
       \E status \in {ReadFile(p, path), SearchFiles(p, path), ListFiles(p, path)} :
         work' = Executed(o, a, status, NoContent, NoContent)
  /\ UNCHANGED <<dirs, file, writes, faults>>

UnsupportedTool(o, a) ==
  /\ objs[o].approvals[a].tool = "other"
  /\ work' = Executed(o, a, "blocked", NoContent, NoContent)
  /\ UNCHANGED <<dirs, file, writes, faults>>

\* Mutated StaleWrite: it is enough that there is a file.
MissingFile(p, expected) == expected # NoContent /\ file[p] = NoContent

\* The operator's expected_sha256 is not that of what the file contains, or there is none.
\* A content that was replaced and written again fits the old hash again.
StaleWrite(p, expected) == expected # NoContent /\ file[p] # expected

\* mkdirSync makes a removed workspace again.
Remade(p) == dirs' = dirs \cup ({p} \ {Outside})

\* write_file: a bad path and a stale hash fail before anything is touched.  A write
\* that breaks off is recorded as failed and leaves the directory and the file, whole or torn.
WriteTool(o, a, p) ==
  /\ objs[o].approvals[a].tool = "write"
  /\ \E expected \in Held, content \in Contents, path \in Paths :
       LET ok == path = "file" /\ ~StaleWrite(p, expected)
       IN  \/ /\ ok
              /\ writes' = writes + 1
              /\ file' = [file EXCEPT ![p] = content]
              /\ Remade(p)
              /\ work' = Executed(o, a, "completed", expected, content)
              /\ UNCHANGED faults
           \/ /\ ok
              /\ Trouble < MaxTrouble
              /\ faults' = faults + 1
              /\ file' \in {file, [file EXCEPT ![p] = content]}
              /\ Remade(p)
              /\ work' = Executed(o, a, "failed", NoContent, NoContent)
              /\ UNCHANGED writes
           \/ /\ ~ok
              /\ work' = Executed(o, a, "failed", NoContent, NoContent)
              /\ UNCHANGED <<dirs, file, writes, faults>>

\* POST provider-tool-executions: an approval can be executed any number of times.
ExecuteTool ==
  /\ work = Idle
  /\ \E o \in DOMAIN objs, a \in 1 .. MaxRecords :
       /\ ApprovedExecution(objs[o], a)
       /\ Room
       /\ LET p == WorkingPlace(objs[o])
          IN  ReadTool(o, a, p) \/ UnsupportedTool(o, a) \/ WriteTool(o, a, p)
  /\ UNCHANGED <<objs, disk, waiting, created, told, edits>>

\* The execution record is pushed, audited and saved.
RecordExecution ==
  /\ work.stage = "executed"
  /\ Note([objs EXCEPT ![work.obj].executions = Append(@, work.record)])

\* Others change or remove the file at any time: the commands of a run's steps work in
\* the same place, and so may whoever owns the task's repo.
EditFile ==
  /\ Trouble < MaxTrouble
  /\ edits' = edits + 1
  /\ \E p \in dirs \cup {Outside}, content \in Held :
       /\ content # file[p]
       /\ file' = [file EXCEPT ![p] = content]
  /\ UNCHANGED <<objs, disk, dirs, waiting, work, writes, created, told, faults>>

-----------------------------------------------------------------------------
\* The execute handler of a step adds a verification (module StepExecution).
RecordVerification ==
  /\ work = Idle
  /\ \E o \in DOMAIN objs, v \in Verification :
       /\ Room
       /\ Note([objs EXCEPT ![o].verifications = Append(@, v)])

\* POST goals/complete, at the headers: the goal of the object in the map is looked at.
RequestCompletion ==
  /\ work = Idle
  /\ Current > 0
  /\ \E g \in Goals :
       /\ objs[Current].goals[g].status # "completed"
       /\ waiting[Current][g] < MaxHeads
       /\ waiting' = [waiting EXCEPT ![Current][g] = @ + 1]
  /\ UNCHANGED <<objs, disk, dirs, file, work, writes, created, told, faults, edits>>

\* run.verifications.find: v is the first of its id.
FindVerification(run, v) ==
  /\ v \in DOMAIN run.verifications
  /\ \A w \in 1 .. v - 1 : run.verifications[w].id # run.verifications[v].id

\* Mutated Evidence: the result of the verification is not asked for.
AnyEvidence(run, v) == FindVerification(run, v)

\* completeGoalRecord throws unless the verification passed.
Evidence(run, v) == FindVerification(run, v) /\ run.verifications[v].result = "passed"

\* completeGoalRecord: a goal already completed gets one reference more.
CompletedGoal(goal, id) == [goal EXCEPT !.status = "completed", !.refs = Append(@, id)]

\* The same handler at the body, which does not look at the goal's status again.  The
\* completed goal is saved with its audit record, before there is an event.
CompleteGoal ==
  /\ work = Idle
  /\ \E o \in DOMAIN objs, g \in Goals, v \in 1 .. MaxRecords :
       /\ waiting[o][g] > 0
       /\ Evidence(objs[o], v)
       /\ waiting' = [waiting EXCEPT ![o][g] = @ - 1]
       /\ LET os == [objs EXCEPT ![o].goals[g] = CompletedGoal(@, objs[o].verifications[v].id)]
          IN  \/ Save(os) /\ work' = [stage |-> "completed", obj |-> o, goal |-> g]
              \/ SaveFails(os)
  /\ UNCHANGED <<dirs, file, writes, created, told, edits>>

\* The goal_completed event with its own write; the client is told after that.
RecordCompletion ==
  /\ work.stage = "completed"
  /\ LET os == [objs EXCEPT ![work.obj].goals[work.goal].events = @ + 1]
     IN  \/ /\ Save(os)
            /\ work' = Idle
            /\ told' = [told EXCEPT ![work.goal] = @ + 1]
         \/ SaveFails(os) /\ UNCHANGED told
  /\ UNCHANGED <<dirs, file, waiting, writes, created, edits>>

\* The body names no verification, an unknown one or one that failed.
RefuseCompletion ==
  /\ work = Idle
  /\ \E o \in DOMAIN objs, g \in Goals :
       /\ waiting[o][g] > 0
       /\ waiting' = [waiting EXCEPT ![o][g] = @ - 1]
  /\ UNCHANGED <<objs, disk, dirs, file, work, writes, created, told, faults, edits>>

-----------------------------------------------------------------------------
\* The process dies, by a signal or because a write outside a try block throws, and
\* is started again from the snapshot.
Crash ==
  /\ Trouble < MaxTrouble
  /\ faults' = faults + 1
  /\ objs' = disk
  /\ waiting' = NoHeads
  /\ work' = Idle
  /\ UNCHANGED <<disk, dirs, file, writes, created, told, edits>>

Next == \/ MakeWorkspace \/ RegisterRun
        \/ RemoveWorkspace \/ RecordCleanup
        \/ ApproveToolCall \/ ExecuteTool \/ RecordExecution \/ EditFile
        \/ RecordVerification
        \/ RequestCompletion \/ CompleteGoal \/ RecordCompletion \/ RefuseCompletion
        \/ Crash

Spec == Init /\ [][Next]_vars

-----------------------------------------------------------------------------
\* The verification a reader finds for its id
FirstOfId(run, v) == \A w \in 1 .. v - 1 : run.verifications[w].id # run.verifications[v].id

\* The executions of a record that wrote the file
RecordedWrites(run) == {e \in DOMAIN run.executions : run.executions[e].left # NoContent}

\* What the file contained before execution e, as the record knows it
LeftBefore(run, e) ==
  LET earlier == {d \in RecordedWrites(run) : d < e}
  IN  IF earlier = {} THEN Original ELSE run.executions[Max(earlier)].left

\* The writes that matched an expected content the record did not know to be there
Unlinked(run) == {e \in RecordedWrites(run) :
                    run.executions[e].expected \notin {NoContent, LeftBefore(run, e)}}

\* The run objects anybody can read: those of the process and the snapshot's
Records == {objs[o] : o \in DOMAIN objs} \cup {disk[i] : i \in DOMAIN disk}

\* A goal is completed exactly if it names verifications, each of them one of the same
\* run that passed, and is on the timeline once for each of them unless a fault or the
\* handler itself is between the two writes.  Who was told that a goal is completed
\* finds it in the snapshot, as long as the run id is not given to another task.
GoalsRestOnEvidence ==
  /\ \A run \in Records, g \in Goals :
       LET goal == run.goals[g]
       IN  /\ goal.status = "completed" <=> goal.refs # << >>
           /\ \A i \in DOMAIN goal.refs :
                \E v \in DOMAIN run.verifications :
                  /\ FirstOfId(run, v)
                  /\ run.verifications[v] = [id |-> goal.refs[i], result |-> "passed"]
           /\ goal.events <= Len(goal.refs)
           /\ faults = 0 /\ work.stage # "completed" => goal.events = Len(goal.refs)
  /\ created = 1 /\ disk # << >> => \A g \in Goals : told[g] <= disk[1].goals[g].events

\* The snapshot knows every write a tool made, but for those lost to a fault, to
\* another task of the same run id, or being recorded.  Every write on record was
\* approved.  A write with an expected hash replaced what the write before it on record
\* left, or the source: nothing came between them that the record does not know, but for
\* one exception to each fault and each edit by others.
WritesAreAccounted ==
  /\ created = 1 /\ disk # << >> =>
       writes <= Cardinality(RecordedWrites(disk[1])) + faults
                   + IF work.stage = "executed" THEN 1 ELSE 0
  /\ \A run \in Records :
       /\ \A e \in RecordedWrites(run) :
            run.approvals[run.executions[e].approval] = [tool |-> "write", decision |-> "approve"]
       /\ created = 1 => Cardinality(Unlinked(run)) <= faults + edits

\* A directory that exists is the workspace of the run in the snapshot and not yet
\* cleaned, or a tool wrote into it again after the cleanup; one that is gone is known
\* to be cleaned.  Exceptions are the task or the cleanup being recorded, a fault, and
\* a second task of the same run id.
DirectoriesAreRemembered ==
  faults = 0 /\ created = 1 /\ work.stage \notin {"created", "removed", "executed"} =>
    LET run == disk[1]
    IN  /\ \A d \in dirs : run.dir = d /\ (run.cleaned => RecordedWrites(run) # {})
        /\ run.dir # Outside /\ ~run.cleaned => run.dir \in dirs

=============================================================================
