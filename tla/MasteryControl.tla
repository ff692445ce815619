--------------------------- MODULE MasteryControl ---------------------------
(***************************************************************************)
(* What one verified answer does to a learner's numbers: the damped update *)
(* of mastery (PIDController, PIDReplanController), the gate that asks for *)
(* another path (PIDReplanGate), the capability radar and the teaching     *)
(* strategy (AssessmentReporterNode, HysteresisStrategyController).        *)
(*                                                                         *)
(* Numbers between -1 and 1 are integers in units of 1/Scale; quotients    *)
(* are cut towards zero.                                                   *)
(***************************************************************************)
EXTENDS Integers, Sequences

Scale == 10000
Cut(a, b) == IF a >= 0 THEN a \div b ELSE -((-a) \div b)
Times(a, b) == Cut(a * b, Scale)
Clamp(x, low, high) == IF x < low THEN low ELSE IF x > high THEN high ELSE x
Abs(x) == IF x < 0 THEN -x ELSE x

(***************************************************************************)
(* PIDController.step with the set point 0 and the measurement "gap".      *)
(***************************************************************************)
FreshPID == [sum |-> 0, last |-> 0, slope |-> 0]

\* 1000 * sqrt(k / 3) for k = 3, 4, ...; the ratio is limited to 5.
SqrtOfThirds == <<1000, 1155, 1291, 1414, 1528, 1633, 1732, 1826, 1915, 2000, 2082, 2160, 2236>>
Boost(fails) == IF fails < 3 THEN 0 ELSE SqrtOfThirds[Clamp(fails, 3, 15) - 2]
GainP(fails) == 1000 + Boost(fails) \div 2          \* thousandths
GainI(fails) == 100 + Boost(fails) \div 10
GainD == 50

Integral(pid, error) ==
    Clamp(IF Abs(error) <= 3000 THEN pid.sum + error ELSE pid.sum, -2 * Scale, 2 * Scale)
Slope(pid, gap) == pid.slope + Cut(10 * ((pid.last - gap) - pid.slope), 11)

RawOutput(pid, gap, fails) ==
    Cut(GainP(fails) * (-gap) + GainI(fails) * Integral(pid, -gap) + GainD * Slope(pid, gap), 1000)
Output(pid, gap, fails) == Clamp(RawOutput(pid, gap, fails), Scale \div 10, Scale)

\* The part of the output that was cut off is taken back from the integral.
Unwound(pid, gap, fails) ==
    LET excess == RawOutput(pid, gap, fails) - Output(pid, gap, fails)
    IN  Clamp(Integral(pid, -gap) - Cut(excess * 1000, GainI(fails)), -2 * Scale, 2 * Scale)

NextPID(pid, gap, fails) ==
    [sum |-> Unwound(pid, gap, fails), last |-> gap, slope |-> Slope(pid, gap)]

(***************************************************************************)
(* PIDReplanController.evaluate for a behaviour without friction.          *)
(***************************************************************************)
LearningRate == 1500
\* Faulty variant: the direction of the error, which is minus the gap.
DeltaOfError(gap, out) == Clamp(Times(Times(-gap, LearningRate), Abs(out)), -2500, 2500)
Delta(gap, out) == Clamp(Times(Times(gap, LearningRate), Abs(out)), -2500, 2500)
Updated(pid, mastery, score, fails) ==
    Clamp(mastery + Delta(score - mastery, Output(pid, score - mastery, fails)), 0, Scale)

(***************************************************************************)
(* PIDReplanGate: the distance to full mastery must shrink.                *)
(***************************************************************************)
NoError == -1
FreshGate == [count |-> 0, before |-> NoError]
TriggerThreshold == 3

OutOfBounds(gate, error) ==
    /\ gate.before # NoError
    /\ \/ error > gate.before
       \/ Abs(error - gate.before) < 100 /\ error > 3000

Recorded(gate, error) ==
    [count |-> IF OutOfBounds(gate, error) THEN gate.count + 1 ELSE 0, before |-> error]
Decision(gate) == CASE gate.count >= TriggerThreshold -> "trigger"
                    [] gate.count \in 1..(TriggerThreshold - 1) -> "pending"
                    [] OTHER -> "maintain"

\* EvaluatorNode: consecutive failures fall by one with every success.
FailuresInARow(fails, score) ==
    IF score < Scale \div 2 THEN fails + 1 ELSE IF fails = 0 THEN 0 ELSE fails - 1

\* _classify_errors for an answer of which only the score is known: an answer
\* that shows no other error is a boundary miss.
Errors(score) == IF score < 4000 THEN {"logic_flaw"} ELSE {"boundary_miss"}

(***************************************************************************)
(* The assessment: each dimension of the radar is an average that forgets  *)
(* a fifth with every answer.  A quiz says nothing of code and time, whose *)
(* rates keep their defaults.                                              *)
(***************************************************************************)
Smooth(new, old) == Cut(2 * new + 8 * old, 10)
FreshRadar == [concept |-> 5000, code |-> 5000, logic |-> 5000, resilience |-> 5000, time |-> 5000]
Scores(score) ==
    [concept |-> score, code |-> 5000, logic |-> Scale,
     resilience |-> Cut(6 * score + 4 * 5000, 10), time |-> Scale]
NextRadar(radar, score) == [d \in DOMAIN radar |-> Smooth(Scores(score)[d], radar[d])]
Mix(radar) == Cut(radar.concept + radar.code + radar.logic + radar.resilience + radar.time, 5)

\* The moving average of boundary misses; only its last three values are read.
Window == 3
Recent(s) == SubSeq(s, IF Len(s) > Window THEN Len(s) - Window + 1 ELSE 1, Len(s))
NextMisses(misses, errors) ==
    LET now == IF "boundary_miss" \in errors THEN Scale ELSE 0
    IN  Recent(Append(misses, IF misses = << >> THEN now ELSE Smooth(now, misses[Len(misses)])))

Strategies == {"STANDARD_PATH", "SCAFFOLD_HELP", "EDGE_CASE_DRILL"}
Decide(strategy, mix, fails, misses) ==
    LET failing == mix < 4000 /\ fails >= 2
        careless == Len(misses) = Window /\ \A i \in 1..Window : misses[i] > 5000
    IN  CASE strategy # "SCAFFOLD_HELP" /\ failing -> "SCAFFOLD_HELP"
          [] strategy # "STANDARD_PATH" /\ mix > 7500 -> "STANDARD_PATH"
          [] strategy = "STANDARD_PATH" /\ ~failing /\ careless -> "EDGE_CASE_DRILL"
          [] OTHER -> strategy
=============================================================================
