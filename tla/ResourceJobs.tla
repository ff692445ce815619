---------------------------- MODULE ResourceJobs ----------------------------
(***************************************************************************)
(* The lease protocol of the resource-generation queue: the PostgreSQL     *)
(* tables of src/database/resource_generation_repo.py and the executions   *)
(* of src/application/resource_service.py that claim a job, publish its    *)
(* cards and close it, with the heartbeat, recovery and expiry of          *)
(* src/resource_worker.py running beside them.                             *)
(*                                                                         *)
(* Every repository call that commits is one step.  A call that commits    *)
(* twice (the row first, its event second) is two steps: the events still  *)
(* to be appended wait in `owed` (of a thread) or `notices` (of a sweep).  *)
(* The log keeps the events a client builds its page on or ends with,      *)
(* card_ready and the terminal ones; queued, running, phase_changed and    *)
(* card_failed only report progress and are left out.                      *)
(***************************************************************************)
EXTENDS Naturals, Sequences, FiniteSets

CONSTANTS
    Jobs,       \* job ids
    Cards,      \* card types
    Concept,    \* the card type generated first, "concept_map"
    Requested,  \* [Jobs -> SUBSET Cards], the card_types column
    Forced,     \* the jobs requested with force=True
    Priority,   \* [Jobs -> Nat], the priority_value column
    Contents,   \* payloads a card may get from the model or a cache
    Threads,    \* executions: slots of a worker process, compatibility runs
    Dedicated,  \* the threads of src/resource_worker.py
    Owners,     \* lease owner ids
    OwnerOf,    \* [Threads -> Owners], the owner id a thread writes with
    MaxRetries, \* the max_retries column
    None        \* SQL NULL

ASSUME JobsAssumption ==
    /\ Concept \in Cards
    /\ Requested \in [Jobs -> SUBSET Cards]
    /\ Forced \subseteq Jobs
    /\ Priority \in [Jobs -> Nat]
    /\ Dedicated \subseteq Threads
    /\ OwnerOf \in [Threads -> Owners]
    /\ MaxRetries \in Nat
    /\ None \notin Jobs \cup Cards \cup Contents \cup Owners

VARIABLES
    job,      \* rows of resource_generation_jobs
    card,     \* rows of resource_generation_cards: the published payload
    log,      \* resource_generation_job_events of a job, in commit order
    session,  \* the cards the learner's saved session shows for the job's node
    run,      \* what each thread is executing
    notices   \* jobs a sweep has failed whose event it has still to append

vars == <<job, card, log, session, run, notices>>

-----------------------------------------------------------------------------
Claimable == {"queued", "retrying"}
Terminal == {"completed", "partial", "failed", "cancelled"}
Statuses == {"absent", "running"} \cup Claimable \cup Terminal
Pipeline == {"queued", "retrieving", "blueprint", "concept", "supporting",
             "validating"} \cup Terminal
Leases == {"none", "live", "expired"}
Marks == {"card_ready"} \cup Terminal

Row == [status: Statuses, pipeline: Pipeline, owner: Owners \cup {None},
        lease: Leases, late: BOOLEAN, retries: Nat,
        done: SUBSET Cards, failed: SUBSET Cards]
Event == [type: Marks, card: Cards \cup {None}]

\* Where a thread makes an owned write; elsewhere it only reads, saves the
\* session, or ("done") appends its last events.
Fenced == {"retrieve", "resolve", "enter", "model", "verify", "publish",
           "failcard", "closing"}
Body == Fenced \cup {"project", "close"}
Handler == {"raised", "retrying", "requeue", "failing"}
Points == Body \cup Handler \cup {"idle", "done"}

Thread == [pc: Points, job: Jobs \cup {None},
           todo: SUBSET Cards,            \* cards left in the current loop
           work: SUBSET Cards,            \* cards a later phase must generate
           back: {"resolve", "publish"},  \* the loop a card step returns to
           card: Cards \cup {None}, content: Contents \cup {None},
           seenDone: SUBSET Cards, seenFailed: SUBSET Cards,
           count: Nat, owed: Seq(Event)]

Idle == [pc |-> "idle", job |-> None, todo |-> {}, work |-> {},
         back |-> "resolve", card |-> None, content |-> None,
         seenDone |-> {}, seenFailed |-> {}, count |-> 0, owed |-> <<>>]

\* What a thread holds at its point: a job, a card, a payload.
Engaged(th) ==
    /\ IF th.pc = "idle" THEN th.owed = <<>> ELSE th.job \in Jobs
    /\ th.pc \in {"project", "failcard"} => th.card \in Cards
    /\ th.pc = "project" => th.content \in Contents

Plain(type) == [type |-> type, card |-> None]
About(type, c) == [type |-> type, card |-> c]

-----------------------------------------------------------------------------
(* Shorthands *)

J(t) == run[t].job
At(t, p) == run[t].pc = p /\ run[t].owed = <<>>
\* Faulty variant: writes carry no owner clause.
NoFencing(t) == t \in Threads
\* The owner clause of every write a run makes.
Owns(t) == job[J(t)].owner = OwnerOf[t]
InLoop(t) == At(t, "resolve") \/ At(t, "publish")

Goto(t, p) == run' = [run EXCEPT ![t].pc = p]
Stop(t) == run' = [run EXCEPT ![t] = Idle]

\* A terminal write of update_job also gives the lease back.
Close(row, outcome) ==
    [row EXCEPT !.status = outcome, !.pipeline = outcome,
                !.owner = None, !.lease = "none"]
\* claim_job and claim_next_job
Claimed(row, t) ==
    [row EXCEPT !.status = "running", !.pipeline = "retrieving",
                !.owner = OwnerOf[t], !.lease = "live"]
\* recover_stale_running_jobs, for one stale row
Recovered(row) ==
    LET again == row.retries < MaxRetries
        outcome == IF again THEN "queued" ELSE "failed"
    IN [row EXCEPT !.status = outcome, !.pipeline = outcome,
                   !.retries = IF again THEN @ + 1 ELSE @,
                   !.owner = None, !.lease = "none"]

-----------------------------------------------------------------------------
(* Creating and claiming *)

Init ==
    /\ job = [j \in Jobs |->
                [status |-> "absent", pipeline |-> "queued", owner |-> None,
                 lease |-> "none", late |-> FALSE, retries |-> 0,
                 done |-> {}, failed |-> {}]]
    /\ card = [j \in Jobs |-> [c \in Cards |-> None]]
    /\ log = [j \in Jobs |-> <<>>]
    /\ session = [j \in Jobs |-> [c \in Cards |-> None]]
    /\ run = [t \in Threads |-> Idle]
    /\ notices = {}

\* create_or_get_active_job inserts the row.
Submit(j) ==
    /\ job[j].status = "absent"
    /\ job' = [job EXCEPT ![j].status = "queued"]
    /\ UNCHANGED <<card, log, session, run, notices>>

\* A worker slot takes the oldest job of the highest priority that is not
\* past its deadline; a compatibility run takes the job it was submitted for.
Claim(t, j) ==
    /\ At(t, "idle")
    /\ job[j].status \in Claimable
    /\ t \in Dedicated =>
         /\ ~job[j].late
         /\ \A k \in Jobs : job[k].status \in Claimable /\ ~job[k].late
                              => Priority[k] =< Priority[j]
    /\ job' = [job EXCEPT ![j] = Claimed(@, t)]
    /\ run' = [run EXCEPT ![t] =
                 [Idle EXCEPT !.pc = "retrieve", !.job = j]]
    /\ UNCHANGED <<card, log, session, notices>>

\* append_event, the second transaction of a call of this thread.
AppendOwed(t) ==
    /\ run[t].owed # <<>>
    /\ log' = [log EXCEPT ![J(t)] = Append(@, Head(run[t].owed))]
    /\ IF run[t].pc = "done" /\ Tail(run[t].owed) = <<>>
         THEN Stop(t)
         ELSE run' = [run EXCEPT ![t].owed = Tail(@)]
    /\ UNCHANGED <<job, card, session, notices>>

\* A write that carries a lost owner id matches no row: the run gives up.
LoseLease(t) ==
    /\ \E p \in Fenced : At(t, p)
    /\ ~Owns(t)
    /\ Stop(t)
    /\ UNCHANGED <<job, card, log, session, notices>>

-----------------------------------------------------------------------------
(* Resolving the requested cards *)

Retrieve(t) ==
    /\ At(t, "retrieve") /\ Owns(t)
    /\ job' = [job EXCEPT ![J(t)].pipeline = "retrieving"]
    /\ run' = [run EXCEPT ![t].pc = "resolve", ![t].todo = Requested[J(t)]]
    /\ UNCHANGED <<card, log, session, notices>>

\* The knowledge index is no longer the one the job was created against.
KnowledgeChanged(t) ==
    /\ At(t, "resolve") /\ Owns(t)
    /\ run[t].todo = Requested[J(t)] /\ run[t].work = {}
    /\ job' = [job EXCEPT ![J(t)] = Close(@, "failed")]
    /\ run' = [run EXCEPT ![t].pc = "done", ![t].owed = <<Plain("failed")>>]
    /\ UNCHANGED <<card, log, session, notices>>

LeaveForGeneration(t, c) ==
    /\ At(t, "resolve") /\ c \in run[t].todo
    /\ run' = [run EXCEPT ![t].todo = @ \ {c}, ![t].work = @ \cup {c}]
    /\ UNCHANGED <<job, card, log, session, notices>>

\* Faulty variant: the event is appended although the ledger did not change.
PublishRowToldTwice(j, c, v) ==
    /\ job' = [job EXCEPT ![j].done = @ \cup {c}]
    /\ card' = IF card[j][c] = None THEN [card EXCEPT ![j][c] = v] ELSE card
    /\ log' = [log EXCEPT ![j] = Append(@, About("card_ready", c))]
\* Faulty variant: ON CONFLICT without its WHERE replaces a published card.
PublishRowReplacing(j, c, v) ==
    /\ job' = [job EXCEPT ![j].done = @ \cup {c}]
    /\ card' = [card EXCEPT ![j][c] = v]
    /\ log' = [log EXCEPT ![j] = Append(@, About("card_ready", c))]
\* mark_card_ready: the ledger keeps the first published payload, the job's
\* progress is merged, and card_ready is appended only if the ledger changed,
\* all in one transaction that holds the job row.
PublishRow(j, c, v) ==
    /\ job' = [job EXCEPT ![j].done = @ \cup {c}]
    /\ IF card[j][c] = None
         THEN /\ card' = [card EXCEPT ![j][c] = v]
              /\ log' = [log EXCEPT ![j] = Append(@, About("card_ready", c))]
         ELSE UNCHANGED <<card, log>>

\* A card the session already shows is published again without model work.
ReuseCard(t, c) ==
    /\ At(t, "resolve") /\ Owns(t) /\ c \in run[t].todo
    /\ J(t) \notin Forced
    /\ session[J(t)][c] # None
    /\ PublishRow(J(t), c, session[J(t)][c])
    /\ run' = [run EXCEPT ![t].todo = @ \ {c}]
    /\ UNCHANGED <<session, notices>>

\* A cached card (resolving) or a generated one (publishing) is persisted.
PublishCard(t, c, v) ==
    /\ InLoop(t) /\ Owns(t) /\ c \in run[t].todo
    /\ run[t].pc = "resolve" => J(t) \notin Forced
    /\ PublishRow(J(t), c, v)
    /\ run' = [run EXCEPT ![t].pc = "project", ![t].back = run[t].pc,
                          ![t].todo = @ \ {c}, ![t].card = c,
                          ![t].content = v]
    /\ UNCHANGED <<session, notices>>

\* The learner's session is saved after the ledger, with no owner check; an
\* error of that save is swallowed.
Project(t) ==
    /\ At(t, "project")
    /\ \/ session' = [session EXCEPT ![J(t)][run[t].card] = run[t].content]
       \/ UNCHANGED session
    /\ run' = [run EXCEPT ![t].pc = run[t].back,
                          ![t].card = None, ![t].content = None]
    /\ UNCHANGED <<job, card, log, notices>>

\* A cached card is invalid or a quiz is being retested (resolving), or nothing
\* came back or an error was caught (publishing): mark_card_failed reads the
\* progress ...
RejectCard(t, c) ==
    /\ InLoop(t) /\ c \in run[t].todo
    /\ run' = [run EXCEPT ![t].pc = "failcard", ![t].back = run[t].pc,
                          ![t].todo = @ \ {c}, ![t].card = c,
                          ![t].seenDone = job[J(t)].done,
                          ![t].seenFailed = job[J(t)].failed]
    /\ UNCHANGED <<job, card, log, session, notices>>

\* ... and replaces it as a whole in a later transaction.
FailCard(t) ==
    /\ At(t, "failcard") /\ Owns(t)
    /\ job' = [job EXCEPT ![J(t)].done = run[t].seenDone,
                          ![J(t)].failed = run[t].seenFailed \cup {run[t].card}]
    /\ run' = [run EXCEPT ![t].pc = run[t].back, ![t].card = None,
                          ![t].seenDone = {}, ![t].seenFailed = {}]
    /\ UNCHANGED <<card, log, session, notices>>

\* An error after the publication of a generated card is caught like one
\* before it: the published card is marked failed.
FailPublished(t) ==
    /\ At(t, "project") /\ run[t].back = "publish"
    /\ run' = [run EXCEPT ![t].pc = "failcard", ![t].content = None,
                          ![t].seenDone = job[J(t)].done,
                          ![t].seenFailed = job[J(t)].failed]
    /\ UNCHANGED <<job, card, log, session, notices>>

\* Either loop ends: model work for what is left, or the job is closed.
LoopDone(t) ==
    /\ InLoop(t) /\ run[t].todo = {}
    /\ Goto(t, IF run[t].work = {} THEN "close" ELSE "enter")
    /\ UNCHANGED <<job, card, log, session, notices>>

-----------------------------------------------------------------------------
(* Model phases: the concept map alone, then the supporting cards *)

InConcept(t) == Concept \in run[t].work
Phase(t) == IF InConcept(t) THEN {Concept} ELSE run[t].work

EnterPhase(t) ==
    /\ At(t, "enter") /\ Owns(t)
    /\ job' = [job EXCEPT ![J(t)].pipeline =
                 IF InConcept(t) THEN "blueprint" ELSE "supporting"]
    /\ Goto(t, "model")
    /\ UNCHANGED <<card, log, session, notices>>

\* The generator answers; its budget is written to the progress by the owner.
ModelAnswers(t) ==
    /\ At(t, "model") /\ Owns(t)
    /\ Goto(t, "verify")
    /\ UNCHANGED <<job, card, log, session, notices>>

\* Faulty variant: the concept phase drops the supporting cards.
VerifyPhaseForgetting(t) ==
    /\ At(t, "verify") /\ Owns(t)
    /\ run' = [run EXCEPT ![t].pc = "publish", ![t].todo = Phase(t),
                          ![t].work = {}]
    /\ UNCHANGED <<job, card, log, session, notices>>
VerifyPhase(t) ==
    /\ At(t, "verify") /\ Owns(t)
    /\ job' = [job EXCEPT ![J(t)].pipeline =
                 IF InConcept(t) THEN "concept" ELSE "validating"]
    /\ run' = [run EXCEPT ![t].pc = "publish", ![t].todo = Phase(t),
                          ![t].work = @ \ Phase(t)]
    /\ UNCHANGED <<card, log, session, notices>>

\* No concept map came back: no "concept" state, the card fails.
ConceptMissing(t) ==
    /\ At(t, "verify") /\ InConcept(t)
    /\ run' = [run EXCEPT ![t].pc = "failcard", ![t].back = "publish",
                          ![t].work = @ \ {Concept}, ![t].card = Concept,
                          ![t].seenDone = job[J(t)].done,
                          ![t].seenFailed = job[J(t)].failed]
    /\ UNCHANGED <<job, card, log, session, notices>>

-----------------------------------------------------------------------------
(* Closing the job *)

\* The final progress is read; the outcome is decided on what was read.
ReadProgress(t) ==
    /\ At(t, "close")
    /\ run' = [run EXCEPT ![t].pc = "closing",
                          ![t].seenDone = job[J(t)].done,
                          ![t].seenFailed = job[J(t)].failed]
    /\ UNCHANGED <<job, card, log, session, notices>>

\* Faulty variant: failed cards are not looked at.
MarkCompletedRegardless(t) ==
    /\ At(t, "closing") /\ Owns(t)
    /\ job' = [job EXCEPT ![J(t)] = Close(@, "completed")]
    /\ run' = [run EXCEPT ![t].pc = "done", ![t].owed = <<Plain("completed")>>]
    /\ UNCHANGED <<card, log, session, notices>>
MarkCompleted(t) ==
    /\ At(t, "closing") /\ Owns(t)
    /\ run[t].seenFailed = {}
    /\ job' = [job EXCEPT ![J(t)] = Close(@, "completed")]
    /\ run' = [run EXCEPT ![t].pc = "done", ![t].owed = <<Plain("completed")>>]
    /\ UNCHANGED <<card, log, session, notices>>

\* mark_partial writes back the progress it read and appends a second,
\* compatibility, "completed" event.
MarkPartial(t) ==
    /\ At(t, "closing") /\ Owns(t)
    /\ run[t].seenFailed # {}
    /\ job' = [job EXCEPT ![J(t)] =
                 [Close(@, "partial") EXCEPT !.done = run[t].seenDone,
                                             !.failed = run[t].seenFailed]]
    /\ run' = [run EXCEPT ![t].pc = "done",
                          ![t].owed = <<Plain("partial"), Plain("completed")>>]
    /\ UNCHANGED <<card, log, session, notices>>

-----------------------------------------------------------------------------
(* Exceptions *)

\* Any call or the model may raise: in the body the handler runs, in the
\* handler (or after the last write) the thread ends.  Owed events are lost.
Raise(t) ==
    /\ run[t].pc # "idle"
    /\ run' = [run EXCEPT ![t] =
                 IF @.pc \in Body
                   THEN [Idle EXCEPT !.pc = "raised", !.job = J(t)] ELSE Idle]
    /\ UNCHANGED <<job, card, log, session, notices>>

HandleException(t) ==
    /\ At(t, "raised")
    /\ Goto(t, IF job[J(t)].retries < MaxRetries THEN "retrying" ELSE "failing")
    /\ UNCHANGED <<job, card, log, session, notices>>

\* retry_job reads the count again ...
CountRetry(t) ==
    /\ At(t, "retrying")
    /\ run' = [run EXCEPT ![t].pc = "requeue",
                          ![t].count = job[J(t)].retries + 1]
    /\ UNCHANGED <<job, card, log, session, notices>>

\* ... and requeues without giving the lease back; fenced, the handler goes
\* on to mark_failed.
RetryJob(t) ==
    /\ At(t, "requeue")
    /\ IF Owns(t)
         THEN /\ job' = [job EXCEPT ![J(t)].status = "queued",
                                    ![J(t)].pipeline = "queued",
                                    ![J(t)].retries = run[t].count]
              /\ Stop(t)
         ELSE Goto(t, "failing") /\ UNCHANGED job
    /\ UNCHANGED <<card, log, session, notices>>

MarkFailed(t) ==
    /\ At(t, "failing")
    /\ IF Owns(t)
         THEN /\ job' = [job EXCEPT ![J(t)] = Close(@, "failed")]
              /\ run' = [run EXCEPT ![t].pc = "done", ![t].count = 0,
                                    ![t].owed = <<Plain("failed")>>]
         ELSE Stop(t) /\ UNCHANGED job
    /\ UNCHANGED <<card, log, session, notices>>

-----------------------------------------------------------------------------
(* Heartbeat, recovery, expiry, crashes and time *)

\* heartbeat_job renews by owner id alone, even a lease that has run out.
Heartbeat(t) ==
    /\ run[t].pc # "idle"
    /\ Owns(t) /\ job[J(t)].status \notin Terminal
    /\ job[J(t)].lease # "live"
    /\ job' = [job EXCEPT ![J(t)].lease = "live"]
    /\ UNCHANGED <<card, log, session, run, notices>>

Stale == {j \in Jobs : job[j].status = "running" /\ job[j].lease = "expired"}
\* Faulty variant: only running jobs expire.
OverdueRunning == {j \in Jobs : job[j].late /\ job[j].status = "running"}
\* Faulty variant: jobs that ended expire too.
OverdueOrEnded == {j \in Jobs : job[j].late /\ job[j].status # "failed"}
Overdue == {j \in Jobs : job[j].late
                          /\ job[j].status \in Claimable \cup {"running"}}

\* One UPDATE over the rows it could lock; their events follow one by one.
Recover(S) ==
    /\ S \subseteq Stale /\ S # {}
    /\ job' = [j \in Jobs |-> IF j \in S THEN Recovered(job[j]) ELSE job[j]]
    /\ notices' = notices \cup {j \in S : Recovered(job[j]).status = "failed"}
    /\ UNCHANGED <<card, log, session, run>>

Expire(S) ==
    /\ S \subseteq Overdue /\ S # {}
    /\ job' = [j \in Jobs |-> IF j \in S THEN Close(job[j], "failed")
                                         ELSE job[j]]
    /\ notices' = notices \cup S
    /\ UNCHANGED <<card, log, session, run>>

AppendNotice(j) ==
    /\ j \in notices
    /\ log' = [log EXCEPT ![j] = Append(@, Plain("failed"))]
    /\ notices' = notices \ {j}
    /\ UNCHANGED <<job, card, session, run>>

\* A process dies: its threads, and the sweep it was in, with it.
Crash(t) ==
    /\ run[t].pc # "idle"
    /\ Stop(t)
    /\ UNCHANGED <<job, card, log, session, notices>>

SweepCrash(j) ==
    /\ j \in notices
    /\ notices' = notices \ {j}
    /\ UNCHANGED <<job, card, log, session, run>>

\* No renewal came in time: a dead or stalled heartbeat.
LeaseRunsOut(j) ==
    /\ job[j].status = "running" /\ job[j].lease = "live"
    /\ job' = [job EXCEPT ![j].lease = "expired"]
    /\ UNCHANGED <<card, log, session, run, notices>>

DeadlinePasses(j) ==
    /\ job[j].status \notin {"absent"} \cup Terminal
    /\ ~job[j].late
    /\ job' = [job EXCEPT ![j].late = TRUE]
    /\ UNCHANGED <<card, log, session, run, notices>>

-----------------------------------------------------------------------------
CardStep(t) ==
    \E c \in Cards :
        \/ LeaveForGeneration(t, c)
        \/ ReuseCard(t, c)
        \/ RejectCard(t, c)
        \/ \E v \in Contents : PublishCard(t, c, v)

Execute(t) ==
    \/ AppendOwed(t) \/ LoseLease(t)
    \/ Retrieve(t) \/ KnowledgeChanged(t) \/ CardStep(t)
    \/ Project(t) \/ FailPublished(t) \/ FailCard(t) \/ LoopDone(t)
    \/ EnterPhase(t) \/ ModelAnswers(t) \/ VerifyPhase(t) \/ ConceptMissing(t)
    \/ ReadProgress(t) \/ MarkCompleted(t) \/ MarkPartial(t)
    \/ HandleException(t) \/ CountRetry(t) \/ RetryJob(t) \/ MarkFailed(t)

Worker(t) ==
    \/ \E j \in Jobs : Claim(t, j)
    \/ Execute(t) \/ Heartbeat(t) \/ Raise(t) \/ Crash(t)

Sweep ==
    \/ \E S \in SUBSET Stale : Recover(S)
    \/ \E S \in SUBSET Overdue : Expire(S)
    \/ \E j \in Jobs : AppendNotice(j) \/ SweepCrash(j)

Environment(j) == Submit(j) \/ LeaseRunsOut(j) \/ DeadlinePasses(j)

Next ==
    \/ \E t \in Threads : Worker(t)
    \/ Sweep
    \/ \E j \in Jobs : Environment(j)

Spec == Init /\ [][Next]_vars

\* Time passes, and some process keeps running the periodic expiry (the
\* worker loop every 15 s, the server's sweep every 60 s).  Nothing is assumed
\* of the threads, of recovery or of the heartbeats.
Liveness ==
    \A j \in Jobs :
        /\ WF_vars(DeadlinePasses(j))
        /\ WF_vars(\E S \in SUBSET Overdue : j \in S /\ Expire(S))

FairSpec == Spec /\ Liveness

-----------------------------------------------------------------------------
(* Properties *)

TypeOK ==
    /\ job \in [Jobs -> Row]
    /\ card \in [Jobs -> [Cards -> Contents \cup {None}]]
    /\ log \in [Jobs -> Seq(Event)]
    /\ session \in [Jobs -> [Cards -> Contents \cup {None}]]
    /\ run \in [Threads -> Thread]
    /\ \A t \in Threads : Engaged(run[t])
    /\ notices \subseteq Jobs

Published(j) == {c \in Cards : card[j][c] # None}
Ended(j) == job[j].status \in Terminal

\* An ended job is owned by nobody, so that every late write of the run that
\* lost it (retry_job and mark_card_failed never look at the status) matches
\* no row.
EndedIsReleased == \A j \in Jobs : Ended(j) => job[j].owner = None

\* A completed job has published every card it was requested to make, however
\* many runs, retries and takeovers it took.
CompletedIsWhole ==
    \A j \in Jobs : job[j].status = "completed" => Requested[j] \subseteq Published(j)

\* A run forgets no card: each requested one is still ahead of it, published,
\* or the job has a failed card, at every point between the first read of the
\* request and the decision on the outcome.
Hand(t) == IF run[t].pc = "failcard" THEN {run[t].card} ELSE {}
Ahead(t) == run[t].todo \cup run[t].work \cup Hand(t)
Looping == {"resolve", "publish", "project", "failcard"}
Between == {"enter", "model", "verify", "close"}
Remembers(t) ==
    /\ run[t].pc \in Between => run[t].todo = {}
    /\ run[t].pc = "close" => run[t].work = {}
    /\ run[t].pc \in Looping \cup Between =>
         job[J(t)].failed # {} \/ Requested[J(t)] \subseteq Ahead(t) \cup Published(J(t))
    /\ run[t].pc = "closing" =>
         run[t].seenFailed # {} \/ Requested[J(t)] \subseteq Published(J(t))
NothingForgotten == \A t \in Threads : Remembers(t)

\* The progress a client polls agrees with the card ledger: the whole-object
\* replacement of mark_card_failed and mark_partial never undoes a publication.
ProgressMatchesLedger == \A j \in Jobs : job[j].done = Published(j)

\* A job is not retried beyond its limit although the exception handler tests
\* the count, reads it again and writes it in three transactions.
RetriesBounded == \A j \in Jobs : job[j].retries =< MaxRetries

Positions(j, type) == {i \in DOMAIN log[j] : log[j][i].type = type}
EndPositions(j) == UNION {Positions(j, type) : type \in Terminal}

\* A client is told of each published card exactly once, and never of a card
\* after it was told that the job ended.
CardsAnnouncedOnceBeforeEnd ==
    \A j \in Jobs :
        /\ \A c \in Cards :
             Cardinality({i \in Positions(j, "card_ready") : log[j][i].card = c})
               = IF c \in Published(j) THEN 1 ELSE 0
        /\ \A i \in EndPositions(j), k \in Positions(j, "card_ready") : k < i

\* The end a client is told agrees with the durable status, and comes once:
\* completed for completed and partial jobs, failed for failed ones.
EndAnnouncedTruthfully ==
    \A j \in Jobs :
        /\ Positions(j, "failed") # {} => job[j].status = "failed"
        /\ Positions(j, "completed") # {} => job[j].status \in {"completed", "partial"}
        /\ Cardinality(Positions(j, "failed") \cup Positions(j, "completed")) =< 1

\* An ended job never comes back, whatever the late writers do.
EndIsFinal ==
    [][\A j \in Jobs : Ended(j) => job'[j].status = job[j].status]_vars

\* A card changes in the ledger at most once, while its job is active, by a
\* thread executing that job with the owner id of its row.
OnlyTheOwnerPublishes ==
    [][\A j \in Jobs, c \in Cards :
         card'[j][c] # card[j][c] =>
            /\ card[j][c] = None
            /\ ~Ended(j)
            /\ \E t \in Threads : J(t) = j /\ job[j].owner = OwnerOf[t]]_vars

\* Every job that was created ends, though its workers may die, stall or
\* never pick it up.
EveryJobEnds ==
    \A j \in Jobs : job[j].status # "absent" ~> Ended(j)

\* The protocol implements the promise of JobLifecycle for every job.
Promise(j) == INSTANCE JobLifecycle
    WITH status <- job[j].status, ledger <- card[j], log <- log[j],
         Requested <- Requested[j]

EveryJobKeepsItsPromise ==
    /\ \A j \in Jobs : Promise(j)!Init
    /\ [][\A j \in Jobs : [Promise(j)!Next]_(Promise(j)!vars)]_vars

\* What is left of it where the slots of a worker share one owner id.
EveryJobKeepsItsOverlappingPromise ==
    /\ \A j \in Jobs : Promise(j)!Init
    /\ [][\A j \in Jobs : [Promise(j)!Overlapping]_(Promise(j)!vars)]_vars

(* Statements of the repository that the code does not meet *)

\* A thread whose lease was taken over is fenced: no two threads hold one job.
ExpiredOwnerIsFenced ==
    \A t, u \in Threads :
        t # u /\ J(t) # None /\ J(t) = J(u) => ~(Owns(t) /\ Owns(u))

\* Retries repair the session: once the job ended, the learner's session shows
\* no card other than the published one.
SessionShowsLedger ==
    \A j \in Jobs, c \in Cards :
        job[j].status = "completed" /\ session[j][c] # None
            => session[j][c] = card[j][c]

\* A card that was published is never marked failed.
PublishedCardsNeverFail ==
    [][\A j \in Jobs : (job'[j].failed \ job[j].failed) \cap Published(j) = {}]_vars

=============================================================================
