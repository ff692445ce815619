-------------------------- MODULE MCLearningAssets --------------------------
(* Values of the constants of TutorStream and LearningAssets.              *)
EXTENDS TutorStream, TLC

Kinds == {"edits", "unfit", "events", "losses", "hydrates", "logins", "exits", "saves",
          "others", "restarts", "questions", "drops", "evictions"}
Nothing == [b \in Kinds |-> 0]

\* Edits of one or two devices: lost answers, a logout or a closed page during
\* a flush, edits the server refuses, failed saves and a restart, and a thread
\* or a worker that works on the session meanwhile.
Edits == {[Nothing EXCEPT !.edits = 3, !.logins = 1, !.losses = 1],
          [Nothing EXCEPT !.edits = 2, !.logins = 2, !.losses = 1, !.exits = 1],
          [Nothing EXCEPT !.edits = 2, !.logins = 2, !.hydrates = 1, !.saves = 1, !.restarts = 1],
          [Nothing EXCEPT !.edits = 2, !.logins = 2, !.others = 1, !.saves = 1],
          [Nothing EXCEPT !.edits = 2, !.logins = 1, !.others = 1, !.restarts = 1],
          [Nothing EXCEPT !.edits = 1, !.logins = 2, !.unfit = 1, !.events = 1, !.saves = 1]}
\* A question: two broken connections, an expired copy, a restart, and an edit
\* beside it with a save that fails.
Questions == {[Nothing EXCEPT !.questions = 1, !.drops = 2],
              [Nothing EXCEPT !.questions = 1, !.drops = 1, !.evictions = 1],
              [Nothing EXCEPT !.questions = 1, !.restarts = 1],
              [Nothing EXCEPT !.questions = 1, !.edits = 1, !.logins = 1, !.saves = 1]}
EditsAndQuestions == Edits \cup Questions

\* Devices are alike, and so are API processes.
Alike == Permutations(Devices) \cup Permutations(Replicas)

\* For the checks that fail, with healthy saves: a thread that works on the
\* session beside an edit, or beside a question, and a restart.
OtherSavers == {[Nothing EXCEPT !.edits = 1, !.logins = 1, !.others = 1],
                [Nothing EXCEPT !.questions = 1, !.others = 1]}
\* The edits of one device, or a question over two broken connections.
TwoReplicas == {[Nothing EXCEPT !.edits = 2, !.logins = 1, !.hydrates = 1],
                [Nothing EXCEPT !.questions = 1, !.drops = 2]}
=============================================================================
