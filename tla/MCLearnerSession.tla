-------------------------- MODULE MCLearnerSession --------------------------
(* Values of the constants of LearnerSession.                              *)
EXTENDS LearnerSession

CONSTANTS q1, q2
One == {{q1}}
Both == {{q1, q2}}
Either == {{q1}, {q2}}

Budget(quizzes, events, revision, receipts, fault, reset) ==
    [quizzes |-> quizzes, events |-> events, revision |-> revision,
     receipts |-> receipts, faults |-> fault, resets |-> reset]

Small == {Budget(One, 3, 2, 0, 0, FALSE),     \* a review with practice
          Budget(Both, 2, 2, 0, 0, FALSE),    \* two items of one quiz
          Budget(Either, 2, 2, 0, 0, FALSE),  \* a retest that asks something else
          Budget(One, 2, 2, 0, 1, FALSE),     \* a retest, one fault
          Budget(One, 2, 0, 2, 1, FALSE),     \* code submissions, one fault
          Budget(One, 1, 1, 0, 1, TRUE),      \* a reset under a running job
          Budget(One, 1, 0, 1, 2, TRUE)}      \* a reset under a submission, one fault
=============================================================================
