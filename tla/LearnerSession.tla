--------------------------- MODULE LearnerSession ---------------------------
(***************************************************************************)
(* One learner's session of one course: the learning step, the evidence    *)
(* that may move mastery, the review of wrong answers, and the two durable *)
(* copies a restarted process loads the session from.                      *)
(*                                                                         *)
(* The handlers of the event loop run one at a time and hold the loop      *)
(* while a review handler generates a card; /advance, practice execution   *)
(* and generation jobs run in threads and interleave with them.  A thread  *)
(* keeps the session object it started with, also when a reset has put     *)
(* another in its place: that object is "discarded".                       *)
(*                                                                         *)
(* Mastery has the levels 0..Top.  The n-th event has the id n, so         *)
(* "received after" is a larger id.                                        *)
(***************************************************************************)
EXTENDS ReviewItems, CodeJudging

CONSTANTS Top,
          Budgets   \* bounds of the model: a behaviour spends one of them

\* quizzes: the sets of questions a generated quiz may have.
BudgetType == [quizzes : SUBSET ((SUBSET Questions) \ {{}}), events : Nat, revision : Nat,
               receipts : Nat, faults : Nat, resets : BOOLEAN]

ASSUME LearnerAssumption ==
    /\ Top \in Nat \ {0} /\ Budgets \subseteq BudgetType
    /\ None \notin {"queued", "live", "discarded"}

VARIABLES
    mem,        \* the session of this process, None before it is loaded
    discarded,  \* the object the last reset replaced, None without one
    row,        \* user_state: the last state saved
    snapshot,   \* session_snapshots: the newest version
    handler,    \* the review handler that is waiting for its card
    job,        \* the background generation job
    practice,   \* the code submission being executed
    budget,     \* verified events, quiz revisions, receipts of the behaviour
    faults      \* failed statements, crashes and resets it may still meet

objects == <<mem, discarded>>
durable == <<row, snapshot>>
threads == <<handler, job, practice>>
spent == <<budget, faults>>
learnerVars == <<objects, durable, threads, spent>>

NoHandler  == [op |-> None]
NoJob      == [held |-> None]
NoPractice == [held |-> None]

FreshSession ==
    [mastery |-> [n \in Nodes |-> 0],
     quiz |-> [n \in Nodes |-> NoQuiz], cards |-> {},
     consumed |-> {}, events |-> << >>, attributions |-> << >>,
     receipts |-> << >>, credited |-> {},
     items |-> [i \in ItemIds |-> NoItem]]

Init ==
    /\ mem = None /\ discarded = None
    /\ row = None /\ snapshot = None
    /\ handler = NoHandler /\ job = NoJob /\ practice = NoPractice
    /\ budget \in Budgets /\ faults = budget.faults

(***************************************************************************)
(* persist_session: the state row, then the snapshot.  A failure of either *)
(* is swallowed.                                                           *)
(***************************************************************************)
PersistSession(s) ==
    /\ UNCHANGED budget
    /\ \/ row' = s /\ snapshot' = s /\ UNCHANGED faults
       \/ /\ faults > 0 /\ faults' = faults - 1
          /\ \E c \in {<<s, snapshot>>, <<row, s>>, <<row, snapshot>>} :
                row' = c[1] /\ snapshot' = c[2]

\* The object a thread holds, and that object after the thread changed it.
Object(held) == IF held = "live" THEN mem ELSE discarded
Store(held, s) ==
    /\ IF held = "live" THEN mem' = s /\ UNCHANGED discarded
                        ELSE discarded' = s /\ UNCHANGED mem
    /\ PersistSession(s)

\* A handler of the event loop runs when no other one holds the loop.
Serving == mem # None /\ handler = NoHandler
SaveInHandler(s) == Store("live", s) /\ UNCHANGED threads

\* load_persisted_session prefers the snapshot to the row; a load that fails
\* is taken for an absent session, and a fresh one is saved.
RestoreOrCreate ==
    /\ mem = None
    /\ \/ /\ snapshot # None \/ row # None
          /\ mem' = IF snapshot # None THEN snapshot ELSE row
          /\ UNCHANGED <<discarded, durable, threads, spent>>
       \/ /\ snapshot = None /\ row = None
          /\ Store("live", FreshSession) /\ UNCHANGED threads
       \/ /\ snapshot # None \/ row # None
          /\ faults > 0 /\ faults' = faults - 1
          /\ mem' = FreshSession /\ row' = FreshSession /\ snapshot' = FreshSession
          /\ UNCHANGED <<discarded, threads, budget>>

Crash ==
    /\ mem # None /\ faults > 0 /\ faults' = faults - 1
    /\ mem' = None /\ discarded' = None
    /\ handler' = NoHandler /\ job' = NoJob /\ practice' = NoPractice
    /\ UNCHANGED <<durable, budget>>

\* reset_session deletes the snapshot, then the row, and the new session is
\* saved; a failure of any of these is swallowed.  The threads that run keep
\* the object they started with.  (Bound: one such object.)
Discard(t) == IF t.held = "live" THEN [t EXCEPT !.held = "discarded"] ELSE t
Reset ==
    /\ Serving /\ budget.resets /\ "discarded" \notin {job.held, practice.held}
    /\ mem' = FreshSession
    /\ \/ /\ faults > 0 /\ faults' = faults - 1
          /\ row' = FreshSession /\ snapshot' = FreshSession
       \/ /\ faults > 1 /\ faults' = faults - 2
          /\ row' \in {FreshSession, None, row}
          /\ snapshot' \in {FreshSession, None} \cup (IF row' = None THEN {} ELSE {snapshot})
    /\ discarded' = IF "live" \in {job.held, practice.held} THEN mem ELSE discarded
    /\ job' = Discard(job) /\ practice' = Discard(practice)
    /\ UNCHANGED <<handler, budget>>

\* _verify_quiz_completion: a full answer of the quiz the node has now.
QuizVerified(s, n, rev) ==
    s.quiz[n].rev = rev /\ rev > 0 /\ <<n, rev>> \notin s.consumed

\* The evaluator moves mastery towards the score, then time decays it.
Score(asks, right) == (Top * Cardinality(asks \cap right)) \div Cardinality(asks)
Evaluated(before, score) == 0 .. (IF score > before THEN score ELSE before)

\* Faulty variant: a loss is not attributed.
AttributeGain(s, n, after, why) ==
    IF after <= s.mastery[n] THEN [s EXCEPT !.mastery[n] = after]
    ELSE [s EXCEPT !.mastery[n] = after,
                   !.attributions = Append(@, [node |-> n, before |-> s.mastery[n],
                                               after |-> after, why |-> why])]

Attribute(s, n, after, why) ==
    IF after = s.mastery[n] THEN s
    ELSE [s EXCEPT !.mastery[n] = after,
                   !.attributions = Append(@, [node |-> n, before |-> s.mastery[n],
                                               after |-> after, why |-> why])]

(***************************************************************************)
(* record_learning_event.  The ledger keeps every event; events has those  *)
(* that later code or a property reads, the verified ones, in order.  A    *)
(* retry of a recorded id changes nothing.                                 *)
(***************************************************************************)
Event(kind, n, i, asked, right) ==
    [kind |-> kind, node |-> n, item |-> i, asked |-> asked, right |-> right]
Answer(n, i) == Event("answer_submitted", n, i, {i[2]}, {i[2]})
WithEvent(s, e) == [s EXCEPT !.events = Append(@, e)]
Room(s) == Len(s.events) < budget.events

Completion(s, n, right, after) ==
    LET quiz == s.quiz[n]
    IN [WithEvent(Attribute(s, n, after, <<"quiz", n, quiz.rev>>),
                  Event("lesson_completed", n, None, quiz.asks, right)) EXCEPT
          !.consumed = @ \cup {<<n, quiz.rev>>},
          !.items = RecordVerifiedDiagnostic(@, n, quiz.rev, quiz.asks, right,
                                             Len(s.events) + 1)]

\* The record function is serialised by a lock; /advance calls it in a
\* thread, also while a review handler holds the loop.
LessonCompleted ==
    /\ mem # None /\ Room(mem)
    /\ \E n \in Nodes : LET quiz == mem.quiz[n] IN
         /\ QuizVerified(mem, n, quiz.rev)
         /\ \E right \in SUBSET quiz.asks :
            \E after \in Evaluated(mem.mastery[n], Score(quiz.asks, right)) :
               Store("live", Completion(mem, n, right, after))
    /\ UNCHANGED threads

\* _verify_targeted_practice_answer: the answer key is that of the exercise
\* of the node, the item the one the learner says the answer is for.
AnswerSubmitted ==
    /\ Serving /\ Room(mem)
    /\ \E n \in Nodes, i \in ItemIds :
         /\ <<n, "interactive_exercise">> \in mem.cards /\ Exists(mem.items[i]) /\ ~IsCode(i)
         /\ SaveInHandler(WithEvent(mem, Answer(n, i)))

\* verify_submission_receipt: a receipt is spent on the first event that
\* names it, and one accepted receipt of a resource is credited.
ReceiptVerified(s, n, r) == s.receipts[r].node = n /\ s.receipts[r].spentOn = 0

\* Faulty variant: the resource is not remembered as credited.
CreditsAgain(s, r) == s.receipts[r].verdict = "accepted"
Credits(s, r) == s.receipts[r].verdict = "accepted" /\ s.receipts[r].node \notin s.credited

Credit(s, n, r) ==
    IF ~Credits(s, r) THEN s
    ELSE Attribute([s EXCEPT !.credited = @ \cup {n}], n,
                   IF s.mastery[n] < Top THEN s.mastery[n] + 1 ELSE Top, <<"code", n, r>>)

\* An internal error of the sandbox is no verdict on the code.
CodeSubmission(s, n, r) ==
    LET verdict == s.receipts[r].verdict
    IN [Credit(s, n, r) EXCEPT
          !.events = Append(@, Event("code_submitted", n, <<n, Code>>,
                                     IF verdict = "internal_error" THEN {} ELSE {Code},
                                     IF verdict = "accepted" THEN {Code} ELSE {})),
          !.receipts[r].spentOn = Len(s.events) + 1,
          !.items = RecordVerifiedCode(@, n, verdict)]

CodeSubmitted ==
    /\ Serving /\ Room(mem)
    /\ \E n \in Nodes, r \in DOMAIN mem.receipts :
         /\ ReceiptVerified(mem, n, r)
         /\ SaveInHandler(CodeSubmission(mem, n, r))

(***************************************************************************)
(* Code practice: the source runs in a sandbox, in a thread that holds the *)
(* session object of its start; a receipt of the verdict is kept there.    *)
(* Without a sandbox, or for a run of the public tests, there is none.     *)
(***************************************************************************)
CodeCard(s, n) == <<n, "code_snippet">> \in s.cards
BeginPractice ==
    /\ Serving /\ practice = NoPractice
    /\ \E n \in Nodes :
         /\ CodeCard(mem, n)
         /\ practice' = [held |-> "live", node |-> n]
    /\ UNCHANGED <<objects, durable, handler, job, spent>>

RecordSubmissionReceipt(s, n, verdict) ==
    [s EXCEPT !.receipts = Append(@, [node |-> n, verdict |-> verdict, spentOn |-> 0])]

FinishPractice ==
    /\ Serving /\ practice # NoPractice
    /\ LET s == Object(practice.held)
       IN \/ Store(practice.held, s)
          \/ /\ Len(s.receipts) < budget.receipts
             /\ \E verdict \in Receipts :
                   Store(practice.held, RecordSubmissionReceipt(s, practice.node, verdict))
    /\ practice' = NoPractice /\ UNCHANGED <<handler, job>>

(***************************************************************************)
(* Cards.  A forced quiz is the next revision of the card that is there,   *)
(* every other one the first.  The template that replaces a quiz the       *)
(* quality gate refuses has its id, but says it is the first revision.     *)
(***************************************************************************)
Supporting == {"interactive_exercise", "code_snippet"}

QuizRevision(q, force) == IF force THEN q.says + 1 ELSE 1

Quizzes(q, force) ==
    LET rev == QuizRevision(q, force)
    IN [rev : {rev}, says : {rev}, asks : budget.quizzes, template : BOOLEAN]
         \cup [rev : {rev}, says : {1}, asks : budget.quizzes, template : {TRUE}]

\* One of the cards a thread that holds the session publishes.
PublishQuiz(held, n, force) ==
    /\ QuizRevision(Object(held).quiz[n], force) <= budget.revision
    /\ \E q \in Quizzes(Object(held).quiz[n], force) :
          Store(held, [Object(held) EXCEPT !.quiz[n] = q])
PublishSupporting(held, n, types) ==
    Store(held, [Object(held) EXCEPT !.cards = @ \cup ({n} \X types)])

\* A forced quiz is refused while an item waits for the one that is there;
\* a template counts as missing.
RequestGeneration ==
    /\ Serving /\ job = NoJob
    /\ \E n \in Nodes :
         \/ /\ ~ActiveRetest(mem.items, n)
            /\ job' = [held |-> "queued", node |-> n, quiz |-> TRUE, force |-> TRUE]
         \/ /\ mem.quiz[n].rev = 0 \/ mem.quiz[n].template
            /\ job' = [held |-> "queued", node |-> n, quiz |-> TRUE, force |-> FALSE]
         \/ /\ ~(({n} \X Supporting) \subseteq mem.cards)
            /\ job' = [held |-> "queued", node |-> n, quiz |-> FALSE, force |-> FALSE]
    /\ UNCHANGED <<objects, durable, handler, practice, spent>>

\* The worker asks again when it starts, and from then on holds the session.
ClaimJob ==
    /\ job.held = "queued" /\ mem # None
    /\ job' = IF job.force /\ ActiveRetest(mem.items, job.node) THEN NoJob
              ELSE [job EXCEPT !.held = "live"]
    /\ UNCHANGED <<objects, durable, handler, practice, spent>>

PublishCard ==
    /\ job.held \in {"live", "discarded"}
    /\ IF job.quiz THEN PublishQuiz(job.held, job.node, job.force)
                   ELSE PublishSupporting(job.held, job.node, Supporting)
    /\ job' = NoJob /\ UNCHANGED <<handler, practice>>

FailCard ==
    /\ job.held \in {"live", "discarded"}
    /\ job' = NoJob /\ UNCHANGED <<objects, durable, handler, practice, spent>>

(***************************************************************************)
(* Review handlers.                                                        *)
(***************************************************************************)
Now == Len(mem.events)
SaveItem(i, it) == Store("live", [mem EXCEPT !.items[i] = it])
QuizIsThere(i) == mem.quiz[i[1]].rev = mem.items[i].retest /\ mem.items[i].retest # 0

\* An item whose retest lost its quiz starts again from the material.
Recovered(i) ==
    IF InRetest(mem.items[i]) THEN DueAgain(mem.items[i], Now) ELSE mem.items[i]

\* A start remembers whether the item was due before its card is made.
Wait(op, i, e) ==
    handler' = [op |-> op, item |-> i, event |-> e, made |-> FALSE,
                due |-> op = "start" /\ Recovered(i).status = "due"]

Started(i, it, wasDue) ==
    LET fresh == IF wasDue /\ ~IsCode(i) THEN RequireNewPractice(it, Now) ELSE it
    IN [fresh EXCEPT !.status = "in_progress",
                     !.phase = IF IsCode(i) THEN "code_resubmission" ELSE "material_review"]

StartReview ==
    /\ Serving
    /\ \E i \in ItemIds :
         /\ Open(mem.items[i]) /\ ~(InRetest(mem.items[i]) /\ QuizIsThere(i))
         /\ IF IsCode(i) \/ <<i[1], "interactive_exercise">> \in mem.cards
            THEN SaveItem(i, Started(i, Recovered(i), Recovered(i).status = "due")) /\ UNCHANGED handler
            ELSE SaveItem(i, Recovered(i)) /\ Wait("start", i, 0)
    /\ UNCHANGED <<job, practice>>

InRetestWith(i, it, e) ==
    [it EXCEPT !.status = "in_progress", !.phase = "retest", !.practice = e,
               !.retest = mem.quiz[i[1]].rev]

StartDirectRetest ==
    /\ Serving
    /\ \E i \in ItemIds :
         /\ Open(mem.items[i]) /\ ~IsCode(i) /\ ~(InRetest(mem.items[i]) /\ QuizIsThere(i))
         /\ IF mem.quiz[i[1]].rev # 0
            THEN /\ SaveItem(i, InRetestWith(i, mem.items[i], mem.items[i].practice))
                 /\ UNCHANGED handler
            ELSE /\ Wait("direct", i, 0)
                 /\ UNCHANGED <<objects, durable, spent>>
    /\ UNCHANGED <<job, practice>>

PrepareRetest ==
    /\ Serving
    /\ \E i \in ItemIds, e \in 1 .. Now :
         /\ mem.items[i].status = "in_progress" /\ mem.items[i].phase = "material_review"
         /\ PracticeCounts(mem.items, mem.events, i, e)
         /\ ~BlockedBy(mem.items, i)
         /\ Wait("prepare", i, e)
    /\ UNCHANGED <<objects, durable, job, practice, spent>>

\* The job runs inside the handler.  Its own failure is not told apart: the
\* answer is "generated" all the same, and only the cards say what it made.
GenerateForHandler ==
    /\ handler # NoHandler /\ ~handler.made
    /\ handler' = [handler EXCEPT !.made = TRUE]
    /\ LET n == handler.item[1]
       IN \/ handler.op = "start" /\ PublishSupporting("live", n, {"interactive_exercise"})
          \/ handler.op # "start" /\ PublishQuiz("live", n, handler.op = "prepare")
          \/ UNCHANGED <<objects, durable, spent>>
    /\ UNCHANGED <<job, practice>>

\* A generation that reports an error (a request that is refused, a node that
\* cannot be read back) leaves the item as it is, whatever quiz is there.
FinishHandler ==
    /\ handler # NoHandler /\ handler.made
    /\ LET i == handler.item
           it == mem.items[i]
       IN \/ /\ handler.op = "start" /\ <<i[1], "interactive_exercise">> \in mem.cards
             /\ SaveItem(i, Started(i, it, handler.due))
          \/ /\ handler.op = "direct" /\ mem.quiz[i[1]].rev # 0
             /\ SaveItem(i, InRetestWith(i, it, it.practice))
          \/ /\ handler.op = "prepare" /\ mem.quiz[i[1]].rev # 0
             /\ SaveItem(i, InRetestWith(i, it, handler.event))
          \/ UNCHANGED <<objects, durable, spent>>
    /\ handler' = NoHandler /\ UNCHANGED <<job, practice>>

DeleteReviewItem ==
    /\ Serving
    /\ \E i \in ItemIds : Exists(mem.items[i]) /\ SaveItem(i, NoItem)
    /\ UNCHANGED threads

Next ==
    \/ RestoreOrCreate \/ Crash \/ Reset
    \/ LessonCompleted \/ AnswerSubmitted \/ CodeSubmitted
    \/ BeginPractice \/ FinishPractice
    \/ RequestGeneration \/ ClaimJob \/ PublishCard \/ FailCard
    \/ StartReview \/ StartDirectRetest \/ PrepareRetest
    \/ GenerateForHandler \/ FinishHandler \/ DeleteReviewItem

Spec == Init /\ [][Next]_learnerVars

-----------------------------------------------------------------------------
Copies == {mem, discarded, row, snapshot} \ {None}

ItemType ==
    [status : {None, "due", "in_progress", "completed"},
     phase : {None, "material_review", "code_resubmission", "retest", "completed"},
     required : Nat, practice : Nat, retest : Nat]
EventType ==
    [kind : {"lesson_completed", "answer_submitted", "code_submitted"}, node : Nodes,
     item : ItemIds \cup {None}, asked : SUBSET (Questions \cup {Code}),
     right : SUBSET (Questions \cup {Code})]
AttributionType ==
    [node : Nodes, before : 0 .. Top, after : 0 .. Top, why : {"quiz", "code"} \X Nodes \X Nat]
SessionType ==
    [mastery : [Nodes -> 0 .. Top],
     quiz : [Nodes -> [rev : Nat, says : Nat, asks : SUBSET Questions, template : BOOLEAN]],
     cards : SUBSET (Nodes \X Supporting), consumed : SUBSET (Nodes \X Nat),
     events : Seq(EventType), attributions : Seq(AttributionType),
     receipts : Seq([node : Nodes, verdict : Receipts, spentOn : Nat]),
     credited : SUBSET Nodes, items : [ItemIds -> ItemType]]

ASSUME NoneIsNoSession == None \notin SessionType

\* Type invariant: every copy of the session is well formed, never runs past
\* the bounds, and a handler, a job or a practice runs on a loaded session.
LearnerTypeOK ==
    /\ \A s \in Copies :
         /\ s \in SessionType
         /\ \A n \in Nodes : s.quiz[n].rev <= budget.revision
         /\ Len(s.events) <= budget.events /\ Len(s.receipts) <= budget.receipts
    /\ "live" \in {job.held, practice.held} \/ handler # NoHandler => mem # None
    /\ "discarded" \in {job.held, practice.held} => discarded # None

\* The attributions before the m-th leave node n at a level: the last one
\* that names n says so, or none does.
Leaves(s, n, m, level) ==
    \/ level = 0 /\ \A k \in 1 .. m - 1 : s.attributions[k].node # n
    \/ \E k \in 1 .. m - 1 :
          /\ s.attributions[k].node = n /\ s.attributions[k].after = level
          /\ \A l \in k + 1 .. m - 1 : s.attributions[l].node # n

\* The attributions of a node are a chain from nothing to its mastery: no
\* level was ever gained or lost without one (session_service.py:63,
\* "durable per-mastery-change provenance ledger").
Chain(s, n) ==
    /\ \A k \in 1 .. Len(s.attributions) :
          s.attributions[k].node = n => Leaves(s, n, k, s.attributions[k].before)
    /\ Leaves(s, n, Len(s.attributions) + 1, s.mastery[n])
MasteryIsAttributed == \A s \in Copies, n \in Nodes : Chain(s, n)

\* A quiz revision, a code receipt and the code exercise of a node move
\* mastery at most once, however often the answers are sent again, the card
\* is made again or the process restarts.
EvidenceCountsOnce ==
    \A s \in Copies : \A a, b \in DOMAIN s.attributions :
        LET x == s.attributions[a].why
            y == s.attributions[b].why
        IN a # b => x # y /\ ~(x[1] = "code" /\ y[1] = "code" /\ x[2] = y[2])

\* A completed item was proven: the last verified answer to its question, or
\* the last verdict on its code, is a right one.
Verdicts(s, i) ==
    {k \in DOMAIN s.events :
       /\ s.events[k].kind # "answer_submitted"
       /\ s.events[k].node = i[1] /\ i[2] \in s.events[k].asked}
CompletedWasProven ==
    \A s \in Copies, i \in ItemIds :
        s.items[i].status = "completed" =>
            \E k \in Verdicts(s, i) :
                i[2] \in s.events[k].right /\ \A l \in Verdicts(s, i) : l <= k

\* "Issue a fresh diagnostic quiz": an item in its retest phase whose quiz is
\* still there can be answered with it.
RetestQuizIsFresh ==
    mem # None =>
        \A i \in ItemIds :
            InRetest(mem.items[i]) /\ QuizIsThere(i)
                => <<i[1], mem.items[i].retest>> \notin mem.consumed
=============================================================================
