----------------------------- MODULE ColdStart -----------------------------
(***************************************************************************)
(* The cold start of a learner's profile: six questions in a fixed order,  *)
(* and inference of what is missing after too many rounds without answer.  *)
(* An operator takes the state of a cold start and returns the next one.   *)
(*                                                                         *)
(* A phase is the number of the dimension that is asked, or one of three   *)
(* others.  The value of a dimension is the number of the question its     *)
(* answer was meant for, or Inferred; Missing before there is one.         *)
(***************************************************************************)
EXTENDS Integers, FiniteSets, FiniteSetsExt

Dimensions == 1..6
Welcome == 0
Complete == 7
Fallback == 8
Missing == 0
Inferred == 7
HardEpochLimit == 3

Fresh == [phase |-> Welcome, value |-> [d \in Dimensions |-> Missing], collected |-> 0,
          epoch |-> 0, fused |-> FALSE, probe |-> FALSE]

MarkCollected(c, d, v) ==
    IF c.value[d] # Missing THEN c
    ELSE [c EXCEPT !.value[d] = v, !.collected = @ + 1]

AllCollected(c) == c.collected >= 6
ShouldFuse(c) == c.epoch >= HardEpochLimit /\ ~AllCollected(c) /\ ~c.fused

\* Faulty variant: the last question is never asked.
NextPhaseShort(p) == IF p < 5 THEN p + 1 ELSE Complete
NextPhase(p) == IF p < 6 THEN p + 1 ELSE Complete

\* get_next_probe: a dimension that has a value is passed over.
GetNextProbe(c) ==
    LET ahead == {d \in Dimensions : d >= c.phase /\ c.value[d] = Missing}
    IN  CASE ShouldFuse(c) -> [c EXCEPT !.phase = Fallback, !.fused = TRUE]
          [] ~ShouldFuse(c) /\ c.phase \in {Complete, Fallback} -> c
          [] ~ShouldFuse(c) /\ c.phase = Welcome -> [c EXCEPT !.phase = 1, !.probe = TRUE]
          [] OTHER -> IF ahead = {} THEN [c EXCEPT !.phase = Complete]
                                    ELSE [c EXCEPT !.phase = Min(ahead), !.probe = TRUE]
Asks(c) == c.phase \in Dimensions     \* after GetNextProbe: it returned a probe

ProcessResponse(c, v) ==
    LET marked == IF c.phase \in Dimensions THEN MarkCollected(c, c.phase, v) ELSE c
    IN  CASE AllCollected(marked) -> [marked EXCEPT !.phase = Complete]
          [] ShouldFuse(marked) -> [marked EXCEPT !.phase = Fallback, !.fused = TRUE]
          [] OTHER -> [marked EXCEPT !.phase = NextPhase(@)]

\* Background and education (3 and 4) are evidence and are never inferred.
Inferable == {1, 2, 5, 6}
ExecuteFusion(c) ==
    LET fill == {d \in Inferable : c.value[d] = Missing}
    IN  [c EXCEPT !.value = [d \in Dimensions |-> IF d \in fill THEN Inferred ELSE @[d]],
                  !.collected = @ + Cardinality(fill),
                  !.phase = Complete, !.fused = TRUE]

\* apply_to_agent_state: what the profile takes over.
Applied(c, profile) ==
    [d \in Dimensions |-> IF d \in Inferable /\ c.value[d] # Missing THEN c.value[d] ELSE profile[d]]
NoProfile == [d \in Dimensions |-> Missing]
=============================================================================
