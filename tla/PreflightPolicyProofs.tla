------------------------ MODULE PreflightPolicyProofs ------------------------
(***************************************************************************)
(* Proofs about PreflightPolicy for any limits, policy ids, organisations  *)
(* and number of steps.                                                    *)
(*                                                                         *)
(* The state properties follow from two facts about the policy engine: a   *)
(* text that does more is never decided more leniently (DecisionMonotone), *)
(* and a wider preset never decides more strictly (DecisionByPreset).      *)
(* Both rest on the tables: every preset permits reading, which a text     *)
(* without a known word counts as, no hook looks at it, nothing is cheaper.*)
(***************************************************************************)
EXTENDS PreflightPolicy, SequenceTheorems, WellFoundedInduction, TLAPS

\* The gate decided every step by the run's own task.
StepsInv ==
  /\ steps \in Seq([objective : Objectives, verdict : Decisions])
  /\ Len(steps) <= MaxSteps
  /\ \A i \in DOMAIN steps : steps[i].verdict = Decision(task, steps[i].objective)

\* A text of the run went over the hard limit: the task's (0) or a step's.
OverHard(source) ==
  \/ source = 0 /\ HardCapped(task, task.objective)
  \/ source \in DOMAIN steps /\ HardCapped(task, steps[source].objective)

\* There is a hard cap incident for each of them, and a run over the limit from its
\* first preflight on is paused.
IncidentsInv ==
  /\ \A source \in 0 .. MaxSteps : <<source, "hard">> \in incidents <=> OverHard(source)
  /\ HardCapped(task, task.objective) => status = "paused"

TaskInv == task \in Tasks \cup {NoTask} /\ (task = NoTask => steps = << >>)

IInv == TaskInv /\ StepsInv /\ IncidentsInv

-----------------------------------------------------------------------------
\* What one action costs, if it is among the actions.
Price(a, actions) == IF a \in actions THEN RiskCost[RiskOf[a]] ELSE 0

\* The price of a set of actions, written out.
Total(actions) == Price("shell", actions) + Price("git_push", actions)
                    + Price("file_write", actions) + Price("file_read", actions)

\* The fold estimateCost is modelled by, as a condition on the function it computes.
Sums(actions, f) ==
  f = [s \in SUBSET actions |->
         IF s = {} THEN 0
         ELSE RiskCost[RiskOf[CHOOSE a \in s : TRUE]] + f[s \ {CHOOSE a \in s : TRUE}]]

\* One action less costs its price less.
LEMMA TotalFacts ==
  ASSUME NEW s \in SUBSET ActionTypes
  PROVE  /\ Total(s) \in Nat
         /\ \A a \in s : Total(s) = RiskCost[RiskOf[a]] + Total(s \ {a})
         /\ s = {} => Total(s) = 0
<1>1. /\ RiskCost[RiskOf["shell"]] = 6 /\ RiskCost[RiskOf["git_push"]] = 6
      /\ RiskCost[RiskOf["file_write"]] = 3 /\ RiskCost[RiskOf["file_read"]] = 1
  BY DEF RiskCost, RiskOf
<1>2. \A a \in s : a \in {"shell", "git_push", "file_write", "file_read"}
  BY DEF ActionTypes
<1> QED
  BY <1>1, <1>2 DEF Total, Price

\* Any function the fold can compute gives the total: a smallest set where it did not
\* would have one action more than a set where it does.
LEMMA SumsFacts ==
  ASSUME NEW actions \in SUBSET ActionTypes, NEW f, Sums(actions, f)
  PROVE  \A s \in SUBSET actions : f[s] = Total(s)
<1> DEFINE One(a, s) == IF a \in s THEN 1 ELSE 0
           Many(s)   == One("shell", s) + One("git_push", s)
                          + One("file_write", s) + One("file_read", s)
           Bad       == {s \in SUBSET actions : f[s] # Total(s)}
           Sizes     == {Many(s) : s \in Bad}
<1>1. \A s \in SUBSET actions : Many(s) \in Nat /\ \A a \in s : Many(s \ {a}) < Many(s)
  BY DEF ActionTypes
<1> SUFFICES ASSUME Bad # {} PROVE FALSE
  OBVIOUS
<1> HIDE DEF Many
<1>2. Sizes \subseteq Nat /\ Sizes # {}
  BY <1>1
<1>3. PICK k \in Sizes : \A j \in Sizes : <<j, k>> \notin OpToRel(<, Nat)
  BY <1>2, WFMin, NatLessThanWellFounded
<1>4. \A j \in Sizes : ~(j < k)
  BY <1>2, <1>3, Zenon DEF OpToRel
<1>5. PICK s \in Bad : k = Many(s)
  OBVIOUS
<1>6. s # {}
  BY <1>5, TotalFacts DEF Sums
<1> DEFINE a == CHOOSE b \in s : TRUE
<1>7. a \in s
  BY <1>6
<1> HIDE DEF a
<1>8. s \ {a} \in SUBSET actions /\ s \ {a} \notin Bad
  BY <1>1, <1>4, <1>5, <1>7
<1>9. f[s] = RiskCost[RiskOf[a]] + f[s \ {a}]
  BY <1>5, <1>6 DEF Sums, a
<1> QED
  BY <1>5, <1>7, <1>8, <1>9, TotalFacts

\* estimateCost adds up the prices of the actions, in whatever order.
LEMMA CostFacts ==
  ASSUME NEW actions \in SUBSET ActionTypes
  PROVE  EstimateCost(actions) = Total(actions)
<1>1. EstimateCost(actions) = (CHOOSE f : Sums(actions, f))[actions]
  BY DEF EstimateCost, MapThenSumSet, MapThenFoldSet, Sums
<1> DEFINE total == [s \in SUBSET actions |-> Total(s)]
<1>2. Sums(actions, total)
  <2>1. ASSUME NEW s \in SUBSET actions, s # {}
        PROVE  Total(s) = RiskCost[RiskOf[CHOOSE a \in s : TRUE]]
                            + total[s \ {CHOOSE a \in s : TRUE}]
    <3>1. (CHOOSE a \in s : TRUE) \in s
      BY <2>1
    <3> QED
      BY <3>1, TotalFacts
  <2>2. ASSUME NEW s \in SUBSET actions, s = {} PROVE Total(s) = 0
    BY <2>2, TotalFacts
  <2> HIDE DEF total
  <2>3. total = [s \in SUBSET actions |-> Total(s)]
    BY DEF total
  <2> QED
    BY <2>1, <2>2, <2>3 DEF Sums
<1>3. Sums(actions, CHOOSE f : Sums(actions, f))
  BY <1>2
<1> QED
  BY <1>1, <1>3, SumsFacts

-----------------------------------------------------------------------------
\* What the tables say of reading, the action of a text without a known word.
LEMMA ReadingFacts ==
  /\ \A id : "file_read" \in ResolvePolicy(id).permissions
  /\ \A id : ResolvePolicy(id).threshold \in {"medium", "high", "critical"}
  /\ \A org : ResolvePack(org) \subseteq {BlockDestructive, WarnWrites}
  BY DEF ResolvePolicy, Presets, ResolvePack, Packs, ActionTypes

\* A text that does more costs at least as much.
LEMMA CostMonotone ==
  ASSUME NEW o \in Objectives, NEW p \in Objectives, Within(o, p)
  PROVE  /\ EstimateCost(InferActions(o)) \in Nat /\ EstimateCost(InferActions(p)) \in Nat
         /\ EstimateCost(InferActions(o)) <= EstimateCost(InferActions(p))
<1>1. /\ InferActions(o) \in SUBSET ActionTypes /\ InferActions(p) \in SUBSET ActionTypes
      /\ InferActions(o) \subseteq InferActions(p) \/ InferActions(o) = {"file_read"}
      /\ InferActions(p) # {}
  BY DEF InferActions, Objectives, ActionTypes, Within
<1>2. /\ RiskCost[RiskOf["shell"]] = 6 /\ RiskCost[RiskOf["git_push"]] = 6
      /\ RiskCost[RiskOf["file_write"]] = 3 /\ RiskCost[RiskOf["file_read"]] = 1
  BY DEF RiskCost, RiskOf
<1>3. \A s \in SUBSET ActionTypes : Total(s) \in Nat
  BY TotalFacts
<1>4. Total(InferActions(o)) <= Total(InferActions(p))
  <2>1. CASE InferActions(o) \subseteq InferActions(p)
    BY <1>2, <2>1 DEF Total, Price
  <2>2. CASE InferActions(o) = {"file_read"}
    <3>1. PICK a \in {"shell", "git_push", "file_write", "file_read"} : a \in InferActions(p)
      BY <1>1 DEF ActionTypes
    <3> QED
      BY <1>2, <2>2, <3>1 DEF Total, Price
  <2> QED
    BY <1>1, <2>1, <2>2
<1> QED
  BY <1>1, <1>3, <1>4, CostFacts

\* What the policy blocks of a text it blocks of every text that does more.
LEMMA BlockedMonotone ==
  ASSUME NEW t, t.hard \in Nat \cup {NoLimit},
         NEW o \in Objectives, NEW p \in Objectives, Within(o, p), Blocked(t, o)
  PROVE  Blocked(t, p)
<1>1. \/ InferActions(o) \subseteq InferActions(p)
      \/ InferActions(o) = {"file_read"}
  BY DEF InferActions, Objectives, Within
<1>2. CASE ~(InferActions(o) \subseteq ResolvePolicy(t.policy).permissions)
  BY <1>1, <1>2, ReadingFacts DEF Blocked
<1>3. CASE Exceeds(EstimateCost(InferActions(o)), t.hard)
  <2>1. Exceeds(EstimateCost(InferActions(p)), t.hard)
    BY <1>3, CostMonotone, NoLimitAssumption DEF Exceeds
  <2> QED
    BY <2>1 DEF Blocked
<1>4. CASE \E hook \in ResolvePack(t.org) : hook.effect = "block" /\ HookMatches(hook, o)
  <2>1. PICK hook \in ResolvePack(t.org) : hook.effect = "block" /\ HookMatches(hook, o)
    BY <1>4
  <2>2. hook \in {BlockDestructive, WarnWrites}
    BY ReadingFacts
  <2>3. "file_read" \notin hook.types /\ hook.types # {}
    BY <2>2 DEF BlockDestructive, WarnWrites
  <2>4. hook.types \cap InferActions(p) # {}
    BY <1>1, <2>1, <2>3 DEF HookMatches
  <2>5. hook.text => p.destructive
    BY <2>1 DEF HookMatches, Within
  <2> QED
    BY <2>1, <2>4, <2>5 DEF Blocked, HookMatches
<1> QED
  BY <1>2, <1>3, <1>4 DEF Blocked

\* What needs approval in a text needs it in every text that does more.
LEMMA ApprovalMonotone ==
  ASSUME NEW t, NEW o \in Objectives, NEW p \in Objectives, Within(o, p), NeedsApproval(t, o)
  PROVE  NeedsApproval(t, p)
<1>1. PICK a \in InferActions(o) :
        RiskOrder[RiskOf[a]] >= RiskOrder[ResolvePolicy(t.policy).threshold]
  BY DEF NeedsApproval
<1>2. a # "file_read"
  BY <1>1, ReadingFacts DEF RiskOrder, RiskOf
<1>3. a \in InferActions(p)
  BY <1>2 DEF InferActions, Within
<1> QED
  BY <1>1, <1>3 DEF NeedsApproval

\* The decision by its two parts.
LEMMA DecisionFacts ==
  ASSUME NEW t, NEW o
  PROVE  /\ Decision(t, o) \in Decisions
         /\ Rank[Decision(t, o)] =
              IF Blocked(t, o) THEN 2 ELSE IF NeedsApproval(t, o) THEN 1 ELSE 0
         /\ Decision(t, o) = "block" <=> Blocked(t, o)
<1>1. CASE Blocked(t, o)
  BY <1>1 DEF Decision, Decisions, Rank
<1>2. CASE ~Blocked(t, o) /\ NeedsApproval(t, o)
  BY <1>2 DEF Decision, Decisions, Rank
<1>3. CASE ~Blocked(t, o) /\ ~NeedsApproval(t, o)
  BY <1>3 DEF Decision, Decisions, Rank
<1> QED
  BY <1>1, <1>2, <1>3

\* The same task never decides a text that does more less strictly.
LEMMA DecisionMonotone ==
  ASSUME NEW t, t.hard \in Nat \cup {NoLimit},
         NEW o \in Objectives, NEW p \in Objectives, Within(o, p)
  PROVE  Rank[Decision(t, o)] <= Rank[Decision(t, p)]
<1>1. Blocked(t, o) => Blocked(t, p)
  BY BlockedMonotone
<1>2. NeedsApproval(t, o) => NeedsApproval(t, p)
  BY ApprovalMonotone
<1> QED
  BY <1>1, <1>2, DecisionFacts

\* A task whose policy permits more and asks later never decides a text more strictly.
LEMMA DecisionByPreset ==
  ASSUME NEW t, NEW u, u.hard = t.hard, u.org = t.org, NEW o \in Objectives,
         ResolvePolicy(t.policy).permissions \subseteq ResolvePolicy(u.policy).permissions,
         RiskOrder[ResolvePolicy(t.policy).threshold]
           <= RiskOrder[ResolvePolicy(u.policy).threshold]
  PROVE  Rank[Decision(u, o)] <= Rank[Decision(t, o)]
<1>1. Blocked(u, o) => Blocked(t, o)
  BY DEF Blocked
<1>2. NeedsApproval(u, o) => NeedsApproval(t, o)
  <2> SUFFICES ASSUME NeedsApproval(u, o) PROVE NeedsApproval(t, o)
    OBVIOUS
  <2>1. PICK a \in InferActions(o) :
          RiskOrder[RiskOf[a]] >= RiskOrder[ResolvePolicy(u.policy).threshold]
    BY DEF NeedsApproval
  <2>2. RiskOrder[RiskOf[a]] \in Int
    BY DEF InferActions, Objectives, ActionTypes, RiskOrder, RiskOf
  <2>3. /\ RiskOrder[ResolvePolicy(t.policy).threshold] \in Int
        /\ RiskOrder[ResolvePolicy(u.policy).threshold] \in Int
    BY ReadingFacts DEF RiskOrder
  <2>4. RiskOrder[RiskOf[a]] >= RiskOrder[ResolvePolicy(t.policy).threshold]
    BY <2>1, <2>2, <2>3
  <2> QED
    BY <2>4 DEF NeedsApproval
<1> QED
  BY <1>1, <1>2, DecisionFacts

\* A text over the hard limit pauses the run and is blocked.
LEMMA HardCapFacts ==
  ASSUME NEW t, NEW o
  PROVE  /\ RunStatus(t, o) = "paused" <=> HardCapped(t, o)
         /\ HardCapped(t, o) => Decision(t, o) = "block"
<1>1. HardCapped(t, o) => Blocked(t, o)
  BY DEF HardCapped, Blocked
<1>2. CASE HardCapped(t, o)
  BY <1>1, <1>2, DecisionFacts DEF RunStatus
<1>3. CASE ~HardCapped(t, o)
  BY <1>1, <1>3 DEF RunStatus
<1> QED
  BY <1>2, <1>3

\* createBudgetIncidents records a hard cap incident for its own text only.
LEMMA IncidentFacts ==
  ASSUME NEW t, NEW o, NEW source, NEW other
  PROVE  <<other, "hard">> \in BudgetIncidents(t, o, source)
           <=> (other = source /\ HardCapped(t, o))
  BY DEF BudgetIncidents

-----------------------------------------------------------------------------
\* The task of a run is one of the tasks, or the placeholder before there is one.
LEMMA TaskFacts ==
  ASSUME TaskInv
  PROVE  /\ task.objective \in Objectives /\ task.hard \in Nat \cup {NoLimit}
         /\ task = NoTask => ~HardCapped(task, task.objective)
<1>1. CASE task = NoTask
  <2>1. /\ task.objective = [actions |-> {}, destructive |-> FALSE] /\ task.hard = NoLimit
    BY <1>1 DEF NoTask
  <2>2. task.objective \in Objectives
    BY <2>1 DEF Objectives
  <2> QED
    BY <2>1, <2>2 DEF HardCapped, Exceeds
<1>2. CASE task \in Tasks /\ task # NoTask
  BY <1>2, LimitsAssumption DEF Tasks
<1> QED
  BY <1>1, <1>2 DEF TaskInv

\* The gated steps by position.
LEMMA StepFacts ==
  ASSUME StepsInv, NEW i \in DOMAIN steps
  PROVE  /\ i \in 1 .. MaxSteps
         /\ steps[i].objective \in Objectives
         /\ steps[i].verdict = Decision(task, steps[i].objective)
<1>1. DOMAIN steps = 1 .. Len(steps) /\ Len(steps) \in Nat
  BY LenProperties DEF StepsInv
<1>2. steps[i] \in [objective : Objectives, verdict : Decisions]
  BY <1>1, ElementOfSeq DEF StepsInv
<1> QED
  BY <1>1, <1>2, GateBounds DEF StepsInv

\* Creating the run decides its first status.
LEMMA CreateStep == ASSUME IInv, CreateRun PROVE IInv'
<1>1. PICK t \in Tasks : /\ task' = t /\ status' = RunStatus(t, t.objective)
                         /\ incidents' = BudgetIncidents(t, t.objective, 0)
  BY DEF CreateRun
<1>2. steps = << >> /\ steps' = << >> /\ Len(steps') = 0 /\ DOMAIN steps' = {}
  BY DEF CreateRun, IInv, TaskInv
<1>3. TaskInv' /\ StepsInv'
  BY <1>1, <1>2, GateBounds DEF TaskInv, StepsInv
<1>4. \A source \in 0 .. MaxSteps :
        OverHard(source)' <=> (source = 0 /\ HardCapped(t, t.objective))
  BY <1>1, <1>2 DEF OverHard, HardCapped
<1>5. IncidentsInv'
  <2>1. \A source \in 0 .. MaxSteps : <<source, "hard">> \in incidents' <=> OverHard(source)'
    <3>1. \A source : <<source, "hard">> \in incidents' <=>
                        (source = 0 /\ HardCapped(t, t.objective))
      BY <1>1, IncidentFacts, Zenon
    <3> QED
      BY <1>4, <3>1
  <2>2. HardCapped(t, t.objective) => status' = "paused"
    BY <1>1, HardCapFacts
  <2>3. HardCapped(task, task.objective)' <=> HardCapped(t, t.objective)
    BY <1>1 DEF HardCapped
  <2> QED
    BY <2>1, <2>2, <2>3 DEF IncidentsInv
<1> QED
  BY <1>3, <1>5 DEF IInv

\* A step is gated.
LEMMA GateStepKeeps == ASSUME IInv, GateStep PROVE IInv'
<1>1. PICK o \in Objectives :
        /\ steps' = Append(steps, [objective |-> o, verdict |-> Decision(task, o)])
        /\ incidents' = incidents \cup BudgetIncidents(task, o, Len(steps) + 1)
        /\ status' = IF RunStatus(task, o) = "paused" THEN "paused" ELSE status
  BY DEF GateStep
<1> DEFINE N    == Len(steps)
           step == [objective |-> o, verdict |-> Decision(task, o)]
<1>2. /\ task' = task /\ task # NoTask /\ N < MaxSteps /\ N \in Nat
      /\ DOMAIN steps = 1 .. N /\ steps \in Seq([objective : Objectives, verdict : Decisions])
  BY DEF GateStep, IInv, StepsInv
<1>3. step \in [objective : Objectives, verdict : Decisions]
  BY DecisionFacts
<1>4. /\ steps' \in Seq([objective : Objectives, verdict : Decisions])
      /\ Len(steps') = N + 1 /\ DOMAIN steps' = 1 .. N + 1
      /\ steps'[N + 1] = step /\ \A i \in 1 .. N : steps'[i] = steps[i]
  BY <1>1, <1>2, <1>3
<1>5. TaskInv' /\ StepsInv'
  <2>1. \A i \in DOMAIN steps' : steps'[i].verdict = Decision(task, steps'[i].objective)
    <3> SUFFICES ASSUME NEW i \in 1 .. N + 1
                 PROVE  steps'[i].verdict = Decision(task, steps'[i].objective)
      BY <1>4
    <3>1. CASE i = N + 1
      BY <1>4, <3>1
    <3>2. CASE i \in 1 .. N
      BY <1>2, <1>4, <3>2 DEF IInv, StepsInv
    <3> QED
      BY <1>2, <3>1, <3>2
  <2>2. \A i \in DOMAIN steps' : steps'[i].verdict = Decision(task', steps'[i].objective)
    BY <1>2, <2>1
  <2>3. Len(steps') <= MaxSteps
    BY <1>2, <1>4, GateBounds
  <2> QED
    BY <1>2, <1>4, <2>2, <2>3
       DEF IInv, TaskInv, StepsInv, Decision, Blocked, NeedsApproval
<1>6. \A source \in 0 .. MaxSteps :
        OverHard(source)' <=> OverHard(source) \/ (source = N + 1 /\ HardCapped(task, o))
  <2>1. \A p : HardCapped(task, p)' = HardCapped(task, p)
    BY <1>2 DEF HardCapped
  <2> SUFFICES ASSUME NEW source \in 0 .. MaxSteps
               PROVE  OverHard(source)' <=>
                        OverHard(source) \/ (source = N + 1 /\ HardCapped(task, o))
    OBVIOUS
  <2>2. OverHard(source)' <=> \/ source = 0 /\ HardCapped(task, task.objective)
                              \/ source \in 1 .. N + 1 /\ HardCapped(task, steps'[source].objective)
    BY <1>2, <1>4 DEF OverHard, HardCapped
  <2>3. CASE source = N + 1
    BY <1>2, <1>4, <2>2, <2>3 DEF OverHard
  <2>4. CASE source # N + 1
    BY <1>2, <1>4, <2>2, <2>4 DEF OverHard
  <2> QED
    BY <2>3, <2>4
<1>7. IncidentsInv'
  <2>1. \A source \in 0 .. MaxSteps : <<source, "hard">> \in incidents' <=> OverHard(source)'
    <3>1. \A source : <<source, "hard">> \in BudgetIncidents(task, o, N + 1) <=>
                        (source = N + 1 /\ HardCapped(task, o))
      BY IncidentFacts, Zenon
    <3>2. \A source : <<source, "hard">> \in incidents' <=>
                        \/ <<source, "hard">> \in incidents
                        \/ source = N + 1 /\ HardCapped(task, o)
      BY <1>1, <3>1
    <3>3. \A source \in 0 .. MaxSteps : <<source, "hard">> \in incidents <=> OverHard(source)
      BY DEF IInv, IncidentsInv
    <3> QED
      BY <1>6, <3>2, <3>3
  <2>2. HardCapped(task, task.objective)' => HardCapped(task, task.objective)
    BY <1>2 DEF HardCapped
  <2>3. status = "paused" => status' = "paused"
    BY <1>1
  <2> QED
    BY <2>1, <2>2, <2>3 DEF IInv, IncidentsInv
<1> QED
  BY <1>5, <1>7 DEF IInv

\* Reviewers change the status of runs whose task is within the hard limit.
LEMMA ReviewKeeps == ASSUME IInv, Review PROVE IInv'
<1>1. /\ UNCHANGED <<task, steps, incidents>>
      /\ RunStatus(task, task.objective) = "awaiting_approval"
  BY DEF Review
<1>2. ~HardCapped(task, task.objective)
  BY <1>1, HardCapFacts
<1>3. TaskInv' /\ StepsInv'
  BY <1>1 DEF IInv, TaskInv, StepsInv, Decision, Blocked, NeedsApproval
<1>4. IncidentsInv'
  <2>1. \A source : OverHard(source)' <=> OverHard(source)
    BY <1>1 DEF OverHard, HardCapped
  <2>2. ~HardCapped(task, task.objective)'
    BY <1>1, <1>2 DEF HardCapped
  <2> QED
    BY <1>1, <2>1, <2>2 DEF IInv, IncidentsInv
<1> QED
  BY <1>3, <1>4 DEF IInv

\* At first there is no run.
LEMMA InitIInv == Init => IInv
<1> SUFFICES ASSUME Init PROVE IInv
  OBVIOUS
<1>1. /\ task = NoTask /\ status = "none" /\ steps = << >> /\ incidents = {}
      /\ Len(steps) = 0 /\ DOMAIN steps = {}
  BY DEF Init
<1>2. TaskInv /\ StepsInv
  BY <1>1, GateBounds DEF TaskInv, StepsInv
<1>3. \A source : ~OverHard(source)
  BY <1>1, <1>2, TaskFacts DEF OverHard
<1>4. ~HardCapped(task, task.objective)
  BY <1>1, <1>2, TaskFacts
<1> QED
  BY <1>1, <1>2, <1>3, <1>4 DEF IInv, IncidentsInv

\* In every state each step carries the verdict of the run's own task on it, and the
\* incidents are exactly those of the texts over the limit.
THEOREM GateInvariant == Spec => []IInv
<1>1. IInv /\ [Next]_vars => IInv'
  <2> SUFFICES ASSUME IInv, [Next]_vars PROVE IInv'
    OBVIOUS
  <2>1. CASE CreateRun
    BY <2>1, CreateStep
  <2>2. CASE GateStep
    BY <2>2, GateStepKeeps
  <2>3. CASE Review
    BY <2>3, ReviewKeeps
  <2>4. CASE UNCHANGED vars
    BY <2>4 DEF vars, IInv, TaskInv, StepsInv, IncidentsInv, OverHard, HardCapped, Decision,
       Blocked, NeedsApproval
  <2> QED
    BY <2>1, <2>2, <2>3, <2>4 DEF Next
<1> QED
  BY <1>1, InitIInv, PTL DEF Spec

\* The hard cap incidents of a step.
NewHard == {x \in incidents' \ incidents : x[2] = "hard"}

\* Creating the run records a hard cap incident if the task is over the limit.
LEMMA CreateNewHard ==
  ASSUME IInv, CreateRun
  PROVE  /\ NewHard # {} <=> status' = "paused"
         /\ steps' = << >>
<1>1. PICK t \in Tasks : /\ task' = t /\ status' = RunStatus(t, t.objective)
                         /\ incidents' = BudgetIncidents(t, t.objective, 0)
  BY DEF CreateRun
<1>2. task = NoTask /\ steps' = << >>
  BY DEF CreateRun, IInv, TaskInv
<1>3. <<0, "hard">> \notin incidents
  <2>1. ~OverHard(0)
    BY <1>2, TaskFacts DEF IInv, TaskInv, OverHard
  <2>2. 0 \in 0 .. MaxSteps
    BY GateBounds
  <2> QED
    BY <2>1, <2>2 DEF IInv, IncidentsInv
<1>4. CASE HardCapped(t, t.objective)
  <2>1. status' = "paused"
    BY <1>1, <1>4, HardCapFacts
  <2>2. <<0, "hard">> \in NewHard
    BY <1>1, <1>3, <1>4 DEF BudgetIncidents, NewHard
  <2> QED
    BY <1>2, <2>1, <2>2
<1>5. CASE ~HardCapped(t, t.objective)
  <2>1. status' # "paused"
    BY <1>1, <1>5, HardCapFacts
  <2>2. NewHard = {}
    BY <1>1, <1>5 DEF BudgetIncidents, NewHard
  <2> QED
    BY <1>2, <2>1, <2>2
<1> QED
  BY <1>4, <1>5

\* Gating a step records a hard cap incident if the step is over the limit.
LEMMA GateNewHard ==
  ASSUME IInv, GateStep
  PROVE  /\ NewHard # {} => status' = "paused"
         /\ status # "paused" /\ status' = "paused" => NewHard # {}
         /\ \A i \in DOMAIN steps' : <<i, "hard">> \in NewHard => steps'[i].verdict = "block"
<1>1. PICK o \in Objectives :
        /\ steps' = Append(steps, [objective |-> o, verdict |-> Decision(task, o)])
        /\ incidents' = incidents \cup BudgetIncidents(task, o, Len(steps) + 1)
        /\ status' = IF RunStatus(task, o) = "paused" THEN "paused" ELSE status
  BY DEF GateStep
<1> DEFINE N == Len(steps)
<1>2. /\ N \in Nat /\ N < MaxSteps /\ DOMAIN steps = 1 .. N
      /\ steps'[N + 1].verdict = Decision(task, o)
  BY <1>1 DEF GateStep, IInv, StepsInv
<1>3. <<N + 1, "hard">> \notin incidents
  <2>1. N + 1 \in 0 .. MaxSteps /\ ~OverHard(N + 1)
    BY <1>2, GateBounds DEF OverHard
  <2> QED
    BY <2>1 DEF IInv, IncidentsInv
<1> HIDE DEF N
<1>4. CASE HardCapped(task, o)
  <2>1. status' = "paused" /\ Decision(task, o) = "block"
    BY <1>1, <1>4, HardCapFacts
  <2>2. <<N + 1, "hard">> \in NewHard
    BY <1>1, <1>3, <1>4 DEF BudgetIncidents, NewHard, N
  <2>3. \A i : <<i, "hard">> \in NewHard => i = N + 1
    BY <1>1 DEF BudgetIncidents, NewHard, N
  <2> QED
    BY <1>2, <2>1, <2>2, <2>3
<1>5. CASE ~HardCapped(task, o)
  <2>1. status' = status
    BY <1>1, <1>5, HardCapFacts
  <2>2. NewHard = {}
    BY <1>1, <1>5 DEF BudgetIncidents, NewHard
  <2> QED
    BY <2>1, <2>2
<1> QED
  BY <1>4, <1>5

\* Preflight and the gate record a hard cap incident exactly when they pause a run that
\* was not paused, and a run over the limit from the start stays paused, for any limits
\* and whatever reviewers do.
THEOREM HardCapsPauseRuns == Spec => HardCapsPause
<1> DEFINE Pauses ==
      /\ NewHard # {} => status' = "paused"
      /\ (task' # task \/ steps' # steps) /\ status # "paused" /\ status' = "paused" =>
           NewHard # {}
      /\ \A i \in DOMAIN steps' : <<i, "hard">> \in NewHard => steps'[i].verdict = "block"
      /\ <<0, "hard">> \in incidents' => status' = "paused"
<1>1. ASSUME IInv, [Next]_vars, IInv' PROVE [Pauses]_vars
  <2>1. <<0, "hard">> \in incidents' => status' = "paused"
    <3>1. 0 \in 0 .. MaxSteps /\ 0 \notin DOMAIN steps'
      <4>1. DOMAIN steps' = 1 .. Len(steps')
        BY <1>1 DEF IInv, StepsInv
      <4> QED
        BY <4>1, GateBounds
    <3>2. <<0, "hard">> \in incidents' => OverHard(0)'
      BY <1>1, <3>1, GateBounds DEF IInv, IncidentsInv
    <3> QED
      BY <1>1, <3>1, <3>2 DEF IInv, IncidentsInv, OverHard
  <2>2. CASE CreateRun
    BY <1>1, <2>1, <2>2, CreateNewHard
  <2>3. CASE GateStep
    BY <1>1, <2>1, <2>3, GateNewHard
  <2>4. CASE Review
    <3>1. NewHard = {}
      BY <2>4 DEF Review, NewHard
    <3> QED
      BY <2>1, <2>4, <3>1 DEF Review
  <2>5. CASE UNCHANGED vars
    BY <2>5
  <2> QED
    BY <1>1, <2>2, <2>3, <2>4, <2>5 DEF Next
<1>2. IInv /\ [Next]_vars /\ IInv' => [Pauses]_vars
  BY <1>1
<1>3. [][Pauses]_vars => HardCapsPause
  BY PTL DEF HardCapsPause, NewHard
<1> QED
  BY <1>2, <1>3, GateInvariant, PTL DEF Spec

\* Of two steps of a run the one that does more is never decided more leniently, and
\* none within the task's objective more strictly than the task, for any limits.
THEOREM StepsAreMonotone == Spec => []VerdictsAreMonotone
<1>1. IInv => VerdictsAreMonotone
  <2> SUFFICES ASSUME IInv PROVE VerdictsAreMonotone
    OBVIOUS
  <2>1. task.objective \in Objectives /\ task.hard \in Nat \cup {NoLimit}
    BY TaskFacts DEF IInv
  <2>2. \A i \in DOMAIN steps : /\ steps[i].objective \in Objectives
                                /\ steps[i].verdict = Decision(task, steps[i].objective)
    BY StepFacts DEF IInv
  <2>3. ASSUME NEW i \in DOMAIN steps, NEW j \in DOMAIN steps,
               Within(steps[i].objective, steps[j].objective)
        PROVE  Rank[steps[i].verdict] <= Rank[steps[j].verdict]
    BY <2>1, <2>2, <2>3, DecisionMonotone
  <2>4. ASSUME NEW i \in DOMAIN steps, Within(steps[i].objective, task.objective)
        PROVE  Rank[steps[i].verdict] <= Rank[Decision(task, task.objective)]
    BY <2>1, <2>2, <2>4, DecisionMonotone
  <2> QED
    BY <2>3, <2>4 DEF VerdictsAreMonotone
<1> QED
  BY <1>1, GateInvariant, PTL

\* For every task and every step of it a wider preset decides at most as strictly.
THEOREM PresetsAreOrdered == Spec => []WiderPresetsAllowMore
<1>1. IInv => WiderPresetsAllowMore
  <2> SUFFICES ASSUME IInv,
                      NEW o \in {task.objective} \cup {steps[i].objective : i \in DOMAIN steps}
               PROVE  LET Under(id) == Rank[Decision([task EXCEPT !.policy = id], o)]
                      IN  /\ Under("scoped_edit") <= Under("read_only")
                          /\ Under("safe_exec") <= Under("scoped_edit")
                          /\ Under("full_exec") <= Under("safe_exec")
    BY DEF WiderPresetsAllowMore
  <2>1. o \in Objectives
    BY TaskFacts, StepFacts DEF IInv
  <2>2. \A id : /\ [task EXCEPT !.policy = id].hard = task.hard
                /\ [task EXCEPT !.policy = id].org = task.org
                /\ [task EXCEPT !.policy = id].policy = id
    BY DEF IInv, TaskInv, Tasks, NoTask
  <2>3. /\ ResolvePolicy("read_only").permissions \subseteq ResolvePolicy("scoped_edit").permissions
        /\ ResolvePolicy("scoped_edit").permissions \subseteq ResolvePolicy("safe_exec").permissions
        /\ ResolvePolicy("safe_exec").permissions \subseteq ResolvePolicy("full_exec").permissions
    BY DEF ResolvePolicy, Presets, ActionTypes
  <2>4. /\ RiskOrder[ResolvePolicy("read_only").threshold]
             <= RiskOrder[ResolvePolicy("scoped_edit").threshold]
        /\ RiskOrder[ResolvePolicy("scoped_edit").threshold]
             <= RiskOrder[ResolvePolicy("safe_exec").threshold]
        /\ RiskOrder[ResolvePolicy("safe_exec").threshold]
             <= RiskOrder[ResolvePolicy("full_exec").threshold]
    BY DEF ResolvePolicy, Presets, RiskOrder
  <2> DEFINE Under(id) == Rank[Decision([task EXCEPT !.policy = id], o)]
  <2>5. ASSUME NEW id, NEW wider,
               ResolvePolicy(id).permissions \subseteq ResolvePolicy(wider).permissions,
               RiskOrder[ResolvePolicy(id).threshold]
                 <= RiskOrder[ResolvePolicy(wider).threshold]
        PROVE  Under(wider) <= Under(id)
    BY <2>1, <2>2, <2>5, DecisionByPreset
  <2> HIDE DEF Under
  <2>6. /\ Under("scoped_edit") <= Under("read_only")
        /\ Under("safe_exec") <= Under("scoped_edit")
        /\ Under("full_exec") <= Under("safe_exec")
    BY <2>3, <2>4, <2>5
  <2> QED
    BY <2>6 DEF Under
<1> QED
  BY <1>1, GateInvariant, PTL

=============================================================================
