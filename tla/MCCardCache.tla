---------------------------- MODULE MCCardCache ----------------------------
EXTENDS CardCache
CONSTANTS a, b, j1, j2, j3, concept, quiz

Learner(mastery, errors, stage, diagnosed) ==
    [mastery |-> mastery, errors |-> errors, style |-> "textual",
     stage |-> stage, diagnosed |-> diagnosed]

New == Learner(50, "none", "STANDARD_PATH", FALSE)
Helped == Learner(40, "none", "SCAFFOLD_HELP", TRUE)
Drilled == Learner(90, "bounds", "EDGE_CASE_DRILL", TRUE)
Near == {New, Helped}
Apart == {New, Drilled}
=============================================================================
