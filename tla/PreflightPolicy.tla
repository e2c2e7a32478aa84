---------------------------- MODULE PreflightPolicy ----------------------------
(***************************************************************************)
(* The policy engine as the API uses it: preflight decides a task's first  *)
(* status, the step gate decides every step with the task's policy, budget *)
(* and policy pack.  Only the step's text is new, so that the verdicts of  *)
(* one run can be compared with each other.  Between the steps reviewers   *)
(* decide, revise and resubmit; what they may do is RunLifecycle's subject *)
(* and taken here as any change of the status they can bring about.        *)
(*                                                                         *)
(* An objective is what the engine reads in a text: the action rules whose *)
(* patterns match, and whether a hook's pattern (rm -rf, drop database)    *)
(* does.  A permission is named for its one action.  Money is in quarters  *)
(* of a dollar, the unit every price of estimateCost is a multiple of.     *)
(***************************************************************************)
EXTENDS Integers, FiniteSets, Sequences, FiniteSetsExt

CONSTANTS NoLimit,     \* a task without a budget limit
          SoftLimits,  \* the soft limits tasks may have, in quarters, or NoLimit
          HardLimits,  \* the hard limits tasks may have, in quarters, or NoLimit
          PolicyIds,   \* the policy_id values of tasks, known presets or not
          Orgs,        \* the organisations of tasks, with a pack or not
          MaxSteps     \* bound: steps gated in one run

ASSUME NoLimitAssumption == NoLimit \notin Nat
ASSUME LimitsAssumption  == SoftLimits \cup HardLimits \subseteq Nat \cup {NoLimit}
ASSUME GateBounds        == MaxSteps \in Nat

VARIABLES task,       \* the task of the run, or NoTask
          status,     \* run.status
          steps,      \* the gated steps with their verdicts
          incidents   \* the budget incidents, as <<source, threshold>>

vars == <<task, status, steps, incidents>>

-----------------------------------------------------------------------------
ActionTypes == {"shell", "git_push", "file_write", "file_read"}
RiskOrder   == [low |-> 0, medium |-> 1, high |-> 2, critical |-> 3]
RiskOf      == [shell |-> "high", git_push |-> "high",
                file_write |-> "medium", file_read |-> "low"]
RiskCost    == [low |-> 1, medium |-> 3, high |-> 6, critical |-> 12]

\* Mutated Presets: the widest preset asks for approval as early as the narrowest.
PresetsAskEarly ==
  [read_only   |-> [permissions |-> {"file_read"},               threshold |-> "medium"],
   scoped_edit |-> [permissions |-> {"file_read", "file_write"}, threshold |-> "high"],
   safe_exec   |-> [permissions |-> ActionTypes \ {"git_push"},  threshold |-> "high"],
   full_exec   |-> [permissions |-> ActionTypes,                 threshold |-> "medium"]]

\* POLICY_PRESETS
Presets ==
  [read_only   |-> [permissions |-> {"file_read"},               threshold |-> "medium"],
   scoped_edit |-> [permissions |-> {"file_read", "file_write"}, threshold |-> "high"],
   safe_exec   |-> [permissions |-> ActionTypes \ {"git_push"},  threshold |-> "high"],
   full_exec   |-> [permissions |-> ActionTypes,                 threshold |-> "critical"]]

\* The hooks of the two packs.  types is {} for a hook on any action, and text
\* says whether the hook's pattern is tested.
BlockDestructive == [types |-> {"shell"}, text |-> TRUE, effect |-> "block"]
WarnWrites       == [types |-> {"file_write"}, text |-> FALSE, effect |-> "warn"]

Packs == [starter   |-> {BlockDestructive},
          regulated |-> {BlockDestructive, WarnWrites}]

Objectives == [actions : SUBSET ActionTypes, destructive : BOOLEAN]
Tasks == [objective : Objectives, policy : PolicyIds, org : Orgs,
          soft : SoftLimits, hard : HardLimits]
NoTask == [objective |-> [actions |-> {}, destructive |-> FALSE], policy |-> "none",
           org |-> "none", soft |-> NoLimit, hard |-> NoLimit]

Decisions == {"allow", "requires_approval", "block"}
Statuses  == {"queued", "awaiting_approval", "paused", "failed"}

-----------------------------------------------------------------------------
\* resolvePolicy: an id nobody knows, or none, means safe_exec.
ResolvePolicy(id) == IF id \in DOMAIN Presets THEN Presets[id] ELSE Presets["safe_exec"]

\* resolvePolicyPackForTask: an organisation without a pack has the starter pack.
ResolvePack(org) == IF org \in DOMAIN Packs THEN Packs[org] ELSE Packs["starter"]

\* inferActions: a text without a known word counts as reading.
InferActions(o) == IF o.actions = {} THEN {"file_read"} ELSE o.actions

\* estimateCost
EstimateCost(actions) == MapThenSumSet(LAMBDA a : RiskCost[RiskOf[a]], actions)

Exceeds(cost, limit) == limit # NoLimit /\ cost > limit

\* hookMatches
HookMatches(hook, o) ==
  /\ hook.types = {} \/ hook.types \cap InferActions(o) # {}
  /\ hook.text => o.destructive

\* blocked_reasons is not empty
Blocked(t, o) ==
  \/ ~(InferActions(o) \subseteq ResolvePolicy(t.policy).permissions)
  \/ Exceeds(EstimateCost(InferActions(o)), t.hard)
  \/ \E hook \in ResolvePack(t.org) : hook.effect = "block" /\ HookMatches(hook, o)

\* maxRisk against the policy's approval threshold
NeedsApproval(t, o) ==
  \E a \in InferActions(o) :
    RiskOrder[RiskOf[a]] >= RiskOrder[ResolvePolicy(t.policy).threshold]

\* The decision of evaluatePreflight for text o under task t.
Decision(t, o) ==
  CASE Blocked(t, o)                          -> "block"
    [] ~Blocked(t, o) /\ NeedsApproval(t, o)  -> "requires_approval"
    [] OTHER                                  -> "allow"

HardCapped(t, o) == Exceeds(EstimateCost(InferActions(o)), t.hard)
SoftCapped(t, o) == Exceeds(EstimateCost(InferActions(o)), t.soft)

\* runStatusForDecision
RunStatus(t, o) ==
  CASE HardCapped(t, o)                                               -> "paused"
    [] ~HardCapped(t, o) /\ Decision(t, o) = "requires_approval"      -> "awaiting_approval"
    [] ~HardCapped(t, o) /\ Decision(t, o) = "block"                  -> "failed"
    [] OTHER                                                          -> "queued"

\* Mutated BudgetIncidents: the hard limit hides the soft one and is not recorded
\* for steps.
BudgetIncidentsOfTask(t, o, source) ==
  {<<source, "soft">> : x \in IF SoftCapped(t, o) THEN {1} ELSE {}}
    \cup {<<source, "hard">> : x \in IF HardCapped(t, o) /\ source = 0 THEN {1} ELSE {}}

\* createBudgetIncidents; the source is 0 for preflight, else the step's position.
BudgetIncidents(t, o, source) ==
  {<<source, "soft">> : x \in IF SoftCapped(t, o) THEN {1} ELSE {}}
    \cup {<<source, "hard">> : x \in IF HardCapped(t, o) THEN {1} ELSE {}}

-----------------------------------------------------------------------------
Init == /\ task = NoTask
        /\ status = "none"
        /\ steps = << >>
        /\ incidents = {}

\* POST /tasks
CreateRun ==
  /\ task = NoTask
  /\ \E t \in Tasks :
       /\ task' = t
       /\ status' = RunStatus(t, t.objective)
       /\ incidents' = BudgetIncidents(t, t.objective, 0)
  /\ UNCHANGED steps

\* Mutated GateStep: the step is decided by the default policy, not the task's.
GateByDefault ==
  /\ task # NoTask
  /\ Len(steps) < MaxSteps
  /\ \E o \in Objectives :
       LET t == [task EXCEPT !.policy = "safe_exec"]
       IN  /\ steps' = Append(steps, [objective |-> o, verdict |-> Decision(t, o)])
           /\ incidents' = incidents \cup BudgetIncidents(t, o, Len(steps) + 1)
           /\ status' = IF HardCapped(t, o) THEN "paused" ELSE status
  /\ UNCHANGED task

\* POST steps: evaluateStepGate with the run's task and pack.
GateStep ==
  /\ task # NoTask
  /\ Len(steps) < MaxSteps
  /\ \E o \in Objectives :
       /\ steps' = Append(steps, [objective |-> o, verdict |-> Decision(task, o)])
       /\ incidents' = incidents \cup BudgetIncidents(task, o, Len(steps) + 1)
       /\ status' = IF RunStatus(task, o) = "paused" THEN "paused" ELSE status
  /\ UNCHANGED task

\* POST approval, revision and resubmit, whose bodies may be applied late: only a run
\* that once awaited approval is ever reviewed, but then its status can become any.
Review ==
  /\ task # NoTask /\ RunStatus(task, task.objective) = "awaiting_approval"
  /\ status' \in {"queued", "failed", "paused", "awaiting_approval"}
  /\ UNCHANGED <<task, steps, incidents>>

Next == CreateRun \/ GateStep \/ Review

Spec == Init /\ [][Next]_vars

-----------------------------------------------------------------------------
Rank == [allow |-> 0, requires_approval |-> 1, block |-> 2]

Within(o, p) == o.actions \subseteq p.actions /\ (o.destructive => p.destructive)

\* Two steps of a run, in whatever order they were gated: the one that does more is
\* never decided more leniently, and a step that does no more than the task's own
\* objective is never decided more strictly than preflight decided the task.
VerdictsAreMonotone ==
  /\ \A i, j \in DOMAIN steps :
       Within(steps[i].objective, steps[j].objective) =>
         Rank[steps[i].verdict] <= Rank[steps[j].verdict]
  /\ \A i \in DOMAIN steps :
       Within(steps[i].objective, task.objective) =>
         Rank[steps[i].verdict] <= Rank[Decision(task, task.objective)]

\* The presets are ordered: what one decides, a wider one decides at most as
\* strictly, for every task and step that occurs.
WiderPresetsAllowMore ==
  LET Under(id, o) == Rank[Decision([task EXCEPT !.policy = id], o)]
      Seen == {task.objective} \cup {steps[i].objective : i \in DOMAIN steps}
  IN  \A o \in Seen :
        /\ Under("scoped_edit", o) <= Under("read_only", o)
        /\ Under("safe_exec", o) <= Under("scoped_edit", o)
        /\ Under("full_exec", o) <= Under("safe_exec", o)

\* A hard cap incident and the pause it explains are derived apart from each other, for
\* the task and for every step.  Whatever reviewers did in between: a text whose
\* incident is recorded leaves the run paused, a text that pauses the run has its
\* incident, and no such step is allowed.  A run whose task itself is over the limit
\* never leaves the pause, for nobody may review it; of other runs reviewers may lift it.
HardCapsPause ==
  [][LET New == {x \in incidents' \ incidents : x[2] = "hard"}
     IN  /\ New # {} => status' = "paused"
         /\ (task' # task \/ steps' # steps) /\ status # "paused" /\ status' = "paused" =>
              New # {}
         /\ \A i \in DOMAIN steps' : <<i, "hard">> \in New => steps'[i].verdict = "block"
         /\ <<0, "hard">> \in incidents' => status' = "paused"]_vars

=============================================================================
