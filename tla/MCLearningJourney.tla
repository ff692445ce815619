------------------------- MODULE MCLearningJourney -------------------------
(* Values of the constants of LearningJourney.                             *)
EXTENDS LearningJourney

CONSTANTS ann, ben, n1, n2, n3
ThreeNodes == <<n1, n2, n3>>

Nothing == [who |-> {ann}, marks |-> {0}, scores |-> {Scale}, kept |-> {Scale}, answers |-> 0,
            visits |-> 0, resets |-> 0, restarts |-> 0, rounds |-> 0, skips |-> 0, cold |-> "none"]

\* A learner near the threshold who jumps about; two learners of one process;
\* one who pauses; the two ways of a cold start.
AllPlans ==
    {[Nothing EXCEPT !.marks = {0, 6400, 9000}, !.scores = {0, Scale},
                     !.answers = 2, !.visits = 2],
     [Nothing EXCEPT !.who = {ann, ben}, !.marks = {5000}, !.scores = {2000, Scale},
                     !.answers = 4, !.resets = 1],
     [Nothing EXCEPT !.marks = {6600}, !.scores = {0, 7500}, !.kept = {900, Scale},
                     !.answers = 3, !.restarts = 1],
     [Nothing EXCEPT !.cold = "service", !.rounds = 12, !.restarts = 1],
     [Nothing EXCEPT !.cold = "handler", !.rounds = 9, !.skips = 3, !.restarts = 1]}

OnlyGoodAnswers == {[Nothing EXCEPT !.answers = 9]}
=============================================================================
