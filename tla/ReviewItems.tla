----------------------------- MODULE ReviewItems -----------------------------
(***************************************************************************)
(* The review ledger of a session as a value: one item for every question  *)
(* a learner has answered wrongly, one for the code exercise of a node.    *)
(* review_service.py changes it only through these operators.  The cap of  *)
(* 500 items, which drops the least recently updated, is not reached here, *)
(* and the reinforcement items the code has switched off are left out.     *)
(***************************************************************************)
EXTENDS Naturals, Sequences, FiniteSets, Functions

CONSTANTS Nodes, Questions, None

ASSUME ReviewAssumption ==
    IsFiniteSet(Questions) /\ None \notin {"due", "in_progress", "completed"}

Code == "code"
ItemIds == Nodes \X (Questions \cup {Code})
IsCode(i) == i[2] = Code

\* A node keeps one diagnostic quiz: the revision in its id, the one its
\* metadata says, what it asks, and whether it is the template a failed
\* generation falls back to.
NoQuiz == [rev |-> 0, says |-> 0, asks |-> {}, template |-> FALSE]

NoItem == [status |-> None, phase |-> None, required |-> 0, practice |-> 0, retest |-> 0]

Exists(it) == it.status # None
Open(it) == it.status \in {"due", "in_progress"}
InRetest(it) == it.status = "in_progress" /\ it.phase = "retest"

\* practice_required_after: only an event after the now-th counts from here.
RequireNewPractice(it, now) == [it EXCEPT !.required = now, !.practice = 0, !.retest = 0]

DueAgain(it, now) ==
    [RequireNewPractice(it, now) EXCEPT !.status = "due", !.phase = "material_review"]

Closed(it) == [it EXCEPT !.status = "completed", !.phase = "completed"]

\* A started item closes only with the quiz it was given.
IsRetestedBy(it, rev) == it.status = "in_progress" /\ it.retest = rev

(***************************************************************************)
(* record_verified_diagnostic: quiz revision rev of node n was answered,   *)
(* the questions right of those it asks correctly.                         *)
(***************************************************************************)
\* Faulty variant: the quiz an item was given closes it whatever the answer.
ClosesOnAnyAnswer(items, n, rev, asks, right, now) ==
    [i \in ItemIds |->
       IF i[1] # n \/ i[2] \notin asks THEN items[i]
       ELSE IF IsRetestedBy(items[i], rev) THEN Closed(items[i])
       ELSE IF i[2] \notin right THEN DueAgain(items[i], now)
       ELSE items[i]]

RecordVerifiedDiagnostic(items, n, rev, asks, right, now) ==
    [i \in ItemIds |->
       IF i[1] # n \/ i[2] \notin asks THEN items[i]
       ELSE IF i[2] \notin right THEN DueAgain(items[i], now)
       ELSE IF IsRetestedBy(items[i], rev) THEN Closed(items[i])
       ELSE items[i]]

\* record_verified_code_submission: an internal error says nothing of the code.
RecordVerifiedCode(items, n, verdict) ==
    CASE verdict = "accepted" /\ Open(items[<<n, Code>>]) ->
           [items EXCEPT ![<<n, Code>>] = Closed(@)]
      [] verdict \notin {"accepted", "internal_error"} ->
           [items EXCEPT ![<<n, Code>>].status = "due", ![<<n, Code>>].phase = "code_resubmission"]
      [] OTHER -> items

(***************************************************************************)
(* _validated_practice_event: event e, a verified right answer to the      *)
(* exercise of the item, given since practice was last required and not    *)
(* spent on another retest.                                                *)
(***************************************************************************)
PracticeCounts(items, events, i, e) ==
    /\ e \in 1 .. Len(events)
    /\ events[e].kind = "answer_submitted" /\ events[e].right # {}
    /\ events[e].item = i /\ events[e].node = i[1]
    /\ e > items[i].required
    /\ \A j \in ItemIds : items[j].practice # e

\* _active_retest_resource_id: the quiz of the node must not be replaced.
ActiveRetest(items, n) ==
    \E i \in ItemIds : i[1] = n /\ InRetest(items[i]) /\ items[i].retest # 0

BlockedBy(items, i) ==
    \E j \in ItemIds \ {i} : j[1] = i[1] /\ Open(items[j]) /\ items[j].phase = "retest"
=============================================================================
