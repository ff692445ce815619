--------------------------- MODULE LearningJourney ---------------------------
(***************************************************************************)
(* A learner's way through a course: the cold start of the profile, the    *)
(* path, and what one learning step (run_official_learning_step) makes of  *)
(* a verified answer.                                                      *)
(*                                                                         *)
(* The state of a learner is saved at the end of every step.  The numbers  *)
(* of the damping controller and of the gate belong to the process and to  *)
(* a node: all learners of the process share them, a reset of a session    *)
(* keeps them, a restart loses them.                                       *)
(***************************************************************************)
EXTENDS MasteryControl, FiniteSets

CONSTANTS Learners, NoValue,
          Topo,     \* the nodes of the course in topological order
          Plans     \* bounds of the model: a behaviour follows one of them

C == INSTANCE ColdStart
Course == {Topo[i] : i \in DOMAIN Topo}
MasteryThreshold == 6500

\* marks: masteries of the session that was restored.  kept: what a break
\* leaves of a mastery.  rounds: interactions of the cold start, skips: rounds
\* the layer above the handler counts because the learner did not answer.
PlanType ==
    [who : SUBSET Learners, marks : SUBSET (0..Scale), scores : SUBSET (0..Scale),
     kept : SUBSET (1..Scale), answers : Nat, visits : Nat, resets : Nat, restarts : Nat,
     rounds : Nat, skips : Nat, cold : {"service", "handler", "none"}]

ASSUME JourneyAssumption ==
    /\ Topo \in Seq(Course) /\ Topo # << >>
    /\ \A i, j \in DOMAIN Topo : Topo[i] = Topo[j] => i = j
    /\ Plans \subseteq PlanType

VARIABLES
    agent,      \* per learner: AgentState
    control,    \* per node: PIDController._states and PIDReplanController._gates
    cold,       \* session.cold_state, or the entry of internal_state
    stored,     \* the cold state of the last save
    profile,    \* static_profile, as far as the cold start fills it
    page,       \* the question on the learner's page, 0 for none
    plan        \* what is left of the plan

coldVars == <<cold, stored, profile, page>>
journeyVars == <<agent, control, coldVars, plan>>

FreshAgent(mastery) ==
    [mastery |-> mastery, seen |-> {n \in Course : mastery[n] > 0}, path |-> << >>,
     current |-> NoValue, replan |-> FALSE, fails |-> 0, radar |-> FreshRadar,
     misses |-> << >>, strategy |-> "STANDARD_PATH", switched |-> FALSE]
FreshControl == [n \in Course |-> [pid |-> FreshPID, gate |-> FreshGate]]
NoMastery == [n \in Course |-> 0]

JourneyInit ==
    /\ plan \in Plans
    /\ \E mastery \in [Course -> plan.marks] : agent = [l \in Learners |-> FreshAgent(mastery)]
    /\ control = FreshControl
    /\ cold = (IF plan.cold = "service" THEN C!Fresh ELSE NoValue)
    /\ stored = cold /\ profile = C!NoProfile /\ page = 0

Spend(what) == plan[what] > 0 /\ plan' = [plan EXCEPT ![what] = @ - 1]

(***************************************************************************)
(* One learning step.                                                      *)
(***************************************************************************)
\* Faulty variant: the node of the step stays where it is.
StaysInPlace(path, n) == path
\* A path holds each node once: those before n move back by one.
MoveToFront(path, n) ==
    LET k == CHOOSE k \in DOMAIN path : path[k] = n
    IN  [i \in DOMAIN path |->
            IF i = 1 THEN n ELSE IF i <= k THEN path[i - 1] ELSE path[i]]

\* The evaluator, for the node n and the score of a verified answer.
Scored(a, c, n, score) ==
    LET mastery == Updated(c.pid, a.mastery[n], score, a.fails)
        decision == Decision(Recorded(c.gate, Scale - mastery))
    IN  [a EXCEPT !.mastery[n] = mastery,
                  !.fails = FailuresInARow(@, score),
                  !.replan = decision = "trigger" \/ (decision = "pending" /\ @)]

Controlled(a, c, n, score) ==
    LET gate == Recorded(c.gate, Scale - Updated(c.pid, a.mastery[n], score, a.fails))
    IN  [pid |-> NextPID(c.pid, score - a.mastery[n], a.fails),
         gate |-> IF Decision(gate) = "trigger" THEN FreshGate ELSE gate]

\* The profiler: the mastery fades for the time since its last record.
Profiled(a, n, kept) ==
    [a EXCEPT !.mastery[n] = IF n \in a.seen THEN Times(@, kept) ELSE @,
              !.seen = @ \cup {n}]

\* The planner: another path when there is none or one was asked for; the
\* node of the step comes first.
Planned(a, n) ==
    LET path == IF a.path = << >> \/ a.replan THEN Topo ELSE a.path
    IN  [a EXCEPT !.replan = FALSE, !.path = MoveToFront(path, n)]

Assessed(a, score) ==
    LET radar == NextRadar(a.radar, score)
        misses == NextMisses(a.misses, Errors(score))
        strategy == Decide(a.strategy, Mix(radar), a.fails, misses)
    IN  [a EXCEPT !.radar = radar, !.misses = misses, !.strategy = strategy,
                  !.switched = strategy # a.strategy]

\* The first node behind n that is not mastered.
Behind(a, n) ==
    {i \in DOMAIN a.path : /\ i > CHOOSE k \in DOMAIN a.path : a.path[k] = n
                           /\ a.mastery[a.path[i]] < MasteryThreshold}
Advanced(a, n) ==
    [a EXCEPT !.current =
        IF a.mastery[n] < MasteryThreshold \/ Behind(a, n) = {} THEN n
        ELSE a.path[CHOOSE i \in Behind(a, n) : \A j \in Behind(a, n) : i <= j]]

CompleteLearning(l, n, score, kept) ==
    LET a == Profiled(Scored(agent[l], control[n], n, score), n, kept)
    IN  /\ agent' = [agent EXCEPT ![l] = Advanced(Assessed(Planned(a, n), score), n)]
        /\ control' = [control EXCEPT ![n] = Controlled(agent[l], @, n, score)]

\* A step without verified evidence: it only moves the learner.
Browse(l, n) ==
    /\ agent' = [agent EXCEPT ![l] = [Planned(@, n) EXCEPT !.current = n]]
    /\ UNCHANGED control

\* The node of a step that names none.
CurrentNode(a) == IF a.current # NoValue THEN a.current
                  ELSE IF a.path # << >> THEN a.path[1] ELSE Topo[1]

AnswerNode ==
    /\ Spend("answers") /\ UNCHANGED coldVars
    /\ \E l \in plan.who, n \in Course, score \in plan.scores, kept \in plan.kept :
          CompleteLearning(l, n, score, kept)
Visit ==
    /\ Spend("visits") /\ UNCHANGED coldVars
    /\ \E l \in plan.who, n \in Course : Browse(l, n)

\* request_replan: the flag, then a step without a node.
RequestReplan ==
    /\ Spend("visits") /\ UNCHANGED <<coldVars, control>>
    /\ \E l \in plan.who : LET n == CurrentNode(agent[l]) IN
          agent' = [agent EXCEPT ![l] =
                        [Planned([@ EXCEPT !.replan = TRUE], n) EXCEPT !.current = n]]

InitPath ==
    /\ UNCHANGED <<coldVars, control, plan>>
    /\ \E l \in plan.who :
         /\ agent[l].path = << >>
         /\ agent' = [agent EXCEPT ![l].path = Topo, ![l].current = Topo[1]]

ResetLearner ==
    /\ Spend("resets") /\ UNCHANGED <<coldVars, control>>
    /\ \E l \in plan.who : agent' = [agent EXCEPT ![l] = FreshAgent(NoMastery)]

Restart ==
    /\ Spend("restarts")
    /\ control' = FreshControl /\ cold' = stored
    /\ UNCHANGED <<agent, stored, profile, page>>

(***************************************************************************)
(* The cold start of one learner.  The service: a question is fetched      *)
(* without being saved, an answer does not name the question it is for,    *)
(* and its response may be lost.                                           *)
(***************************************************************************)
Shown(c) == IF C!Asks(c) THEN c.phase ELSE 0

GetProbe ==
    /\ plan.cold = "service" /\ Spend("rounds")
    /\ LET c == C!GetNextProbe(cold) IN cold' = c /\ page' = Shown(c)
    /\ UNCHANGED <<agent, control, stored, profile>>

SubmitProbeAnswer ==
    /\ plan.cold = "service" /\ page # 0 /\ Spend("rounds")
    /\ LET c == C!ProcessResponse(cold, page)
           fuse == C!ShouldFuse(c)
           done == fuse \/ C!AllCollected(c)
           after == IF fuse THEN C!ExecuteFusion(c)
                    ELSE IF done THEN c ELSE C!GetNextProbe(c)
       IN  /\ cold' = after /\ stored' = after
           /\ profile' = IF done THEN C!Applied(after, profile) ELSE profile
           /\ page' \in {page, IF done THEN 0 ELSE Shown(after)}
    /\ UNCHANGED <<agent, control>>

(***************************************************************************)
(* The handler of the agent graph keeps the cold state in internal_state   *)
(* and counts rounds with the epoch of the agent state.                    *)
(***************************************************************************)
Received(c, response) ==
    IF response = 0 THEN c
    ELSE IF c.probe THEN C!ProcessResponse(c, response) ELSE [c EXCEPT !.epoch = @ + 1]

HandleColdStartInteraction ==
    /\ plan.cold = "handler" /\ Spend("rounds")
    /\ \E response \in {0, page} :
         LET c == Received(IF cold = NoValue THEN C!Fresh ELSE cold, response)
             asked == C!GetNextProbe(c)
             fused == C!ExecuteFusion(asked)
         IN  \/ /\ C!ShouldFuse(c)
                /\ cold' = C!ExecuteFusion(c) /\ page' = 0
                /\ profile' = C!Applied(C!ExecuteFusion(c), profile)
             \/ /\ ~C!ShouldFuse(c) /\ c.phase = C!Complete
                /\ cold' = NoValue /\ page' = 0 /\ profile' = C!Applied(c, profile)
             \/ /\ ~C!ShouldFuse(c) /\ c.phase # C!Complete /\ C!Asks(asked)
                /\ cold' = asked /\ page' = asked.phase /\ UNCHANGED profile
             \/ /\ ~C!ShouldFuse(c) /\ c.phase # C!Complete /\ ~C!Asks(asked)
                /\ cold' = NoValue /\ page' = 0
                /\ profile' = C!Applied(IF asked.fused THEN fused ELSE asked, profile)
    /\ stored' = cold' /\ UNCHANGED <<agent, control>>

\* The layer above counts a round that brought no answer.
SkipRound ==
    /\ plan.cold = "handler" /\ cold # NoValue /\ Spend("skips")
    /\ cold' = [cold EXCEPT !.epoch = @ + 1] /\ stored' = cold'
    /\ UNCHANGED <<agent, control, profile, page>>

JourneyNext ==
    \/ AnswerNode \/ Visit \/ RequestReplan \/ InitPath \/ ResetLearner \/ Restart
    \/ GetProbe \/ SubmitProbeAnswer \/ HandleColdStartInteraction \/ SkipRound
JourneySpec == JourneyInit /\ [][JourneyNext]_journeyVars

(***************************************************************************)
(* Properties.                                                             *)
(***************************************************************************)
Permutes(path) ==
    /\ path \in Seq(Course)
    /\ \A n \in Course : \E i \in DOMAIN path : path[i] = n
    /\ \A i, j \in DOMAIN path : path[i] = path[j] => i = j
JourneyTypeOK ==
    /\ \A l \in Learners : LET a == agent[l] IN
         /\ a.mastery \in [Course -> 0..Scale] /\ a.current \in Course \cup {NoValue}
         /\ a.path = << >> \/ Permutes(a.path)
         /\ a.strategy \in Strategies /\ ~a.replan
    /\ \A n \in Course : control[n].gate.count \in 0..(TriggerThreshold - 1)
    /\ page \in 0..6 /\ plan \in PlanType

\* Whatever the controller remembers of this and other learners, an answer
\* moves the mastery of its node towards its score and never past it, and a
\* break before it can only lower what it leaves.  (pid_controller.py step,
\* evaluator_node.py evaluate, profiler_node.py apply_decay)
Between(a, x, b) == (a <= x /\ x <= b) \/ (b <= x /\ x <= a)
MasteryFollowsEvidence ==
    [][\A l \in plan.who, n \in Course, score \in plan.scores, kept \in plan.kept :
         agent' # agent /\ n \in agent'[l].seen /\ CompleteLearning(l, n, score, kept) =>
            LET before == agent[l].mastery  after == agent'[l].mastery IN
            /\ kept = Scale => Between(before[n], after[n], score)
            /\ after[n] <= (IF before[n] > score THEN before[n] ELSE score)
            /\ \A x \in Course \ {n} : after[x] = before[x]]_journeyVars

\* A learner who has mastered a node and is kept there has mastered the whole
\* course: the step looks at every other node, also at those the learner
\* jumped over.  (orchestration_core.py _find_next and the move to the front)
NothingLeftBehind ==
    [][\A l \in plan.who, n \in Course, score \in plan.scores, kept \in plan.kept :
         /\ agent'[l].current = n /\ agent'[l].mastery[n] >= MasteryThreshold
         /\ CompleteLearning(l, n, score, kept)
         => \A x \in Course : agent'[l].mastery[x] >= MasteryThreshold]_journeyVars

\* A cold start that says it is complete has a value for every dimension; only
\* after an inference background and education may be missing, and what the
\* profile took over is never a gap.  (cold_start.py process_response,
\* execute_full_fusion, apply_to_agent_state)
CompleteProfileIsWhole ==
    /\ profile # C!NoProfile => \A d \in C!Inferable : profile[d] # C!Missing
    /\ cold # NoValue /\ cold.phase = C!Complete =>
         \A d \in C!Dimensions :
            cold.value[d] # C!Missing \/ (cold.fused /\ d \notin C!Inferable)

(***************************************************************************)
(* What the code or its documentation says and the model refutes.          *)
(***************************************************************************)

\* "The two thresholds keep the strategy from jittering": two assessments in a
\* row never both change it.  (README.md 14.3, assessment_node.py decide)
StrategyIsHeld ==
    [][\A l \in Learners :
         ~(agent[l].switched /\ agent'[l].switched /\ agent'[l].strategy # agent[l].strategy)
      ]_journeyVars

\* An answer is recorded for the question it was given to.
AnswersKeepTheirQuestion ==
    cold # NoValue => \A d \in C!Dimensions : cold.value[d] \in {C!Missing, C!Inferred, d}
=============================================================================
