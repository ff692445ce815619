# A verification project for EduAgent

EduAgent is an adaptive-learning platform: a Python web server and workers that
generate learning resources with language models, keep learners' sessions in
PostgreSQL, and serve a Vue page.  This directory holds TLA+ modules of its
protocols and of the algorithms a learner's path depends on, model-checking
configurations for TLC, and proofs for TLAPS.  `PROJECT.json` maps every
definition to the lines it stands for and lists components, runs, mutants,
hazards, findings and theorems.

Paths below are relative to `src/`, the repository.

## 1. The system

### Components

| component | state | operations | talks to |
|---|---|---|---|
| job repository, `src/database/resource_generation_repo.py` | jobs (status, pipeline state, lease, deadline, retries, progress), cards, events, two card caches | create or reuse, claim, heartbeat, transition, publish/fail, complete/partial/fail/retry, recover, expire, list events | PostgreSQL |
| generation run, `src/application/resource_service.py` | what one execution has resolved, generated, published | `run_generation_job`, `_run_claimed_generation_job`, caches | repository, runtime, session store |
| dedicated worker, `src/resource_worker.py` | slots, one owner id per process, heartbeat threads | claim loop, heartbeat, recovery and expiry every 15 s | repository, run |
| admission, `request_generation`, `create_or_get_active_job` | advisory locks, queue counts | admit, merge, refuse | repository |
| in-process scheduler, `resource_service.py` | executors, futures, retry timers, slots | submit, retry later, sweep, drain | repository, run |
| generation pipeline, `src/orchestration_runtime.py`, `src/resource_generation`, `src/llm` | a pool, a circuit breaker per provider | choose evidence, ask providers under a deadline, validate, repair, judge, fall back to a template | model providers, sandbox, verifier |
| event stream, `frontend/server.py`; page, `useEduAgent.js`, `eduAgentApi.js` | cursor; last event id, attempts, cards shown | replay, final pass; connect, reconnect, poll, settle | repository, session API |
| accounts, `src/auth`, `src/database/account_repo.py`, handlers in `frontend/server.py` | users, action tokens, device sessions, image challenges, replay record in Redis | register, log in, refresh, log out, revoke, reset, verify, change, delete | PostgreSQL, Redis |
| session store, `session_service.py`, `_common.py`, `src/database/session_*.py` | session object per process, state row, snapshots | get, restore, save, reset, advance | PostgreSQL |
| learning step, `orchestration_core.py`, `src/agents`, `src/infrastructure` | agent state of a session; per process and node a controller and a gate | evaluate, decay, plan a path, choose a strategy, cold start | session store |
| reviews and practice, `review_service.py`, `code_practice_service.py` | review items, events, receipts in the session | start, practice, retest, execute and judge code | session store, containers or runner service |
| course graph, `graph_builder.py`, `path_planner.py`, `planner_node.py`, `knowledge_graph_manager.py`, `neo4j_client.py` | stored graph, planner's copy with a cached order | seed, build, reduce, order, plan | Neo4j |
| learning assets, `learning_assets_service.py`, `frontend/src/stores/learningAssets.js` | asset store in the session; queue of edits in local storage | hydrate, patch, flush, record | session store |
| tutor, `tutor_service.py` and the page | replay copies by stream, the message shown | generate, check, replay, reconnect, evict | model client, learning assets |
| limits, catalogue, adapters, search indexes, operations, views | see `PROJECT.json` | | |

### How they interact

A page asks for resources.  **Admission** inserts a job row, or answers with an
active or cached one.  A **dedicated worker** slot, or a future of the
**in-process scheduler** that took a global slot, claims the row and writes a
lease owner.  The **run** resolves what a session or cache has, asks the
**pipeline** in two phases (concept map, then supporting cards), publishes card
by card into ledger, session and caches, and closes the job.  Heartbeats renew
the lease; sweeps of any process recover and expire.  Each call commits the row
first and appends its event in a second transaction, except the publication of
a card.  The page follows the **event stream** from a cursor.

Beside this a learner answers quizzes and submits code; a **learning step**
moves mastery, appends provenance, decides on path and strategy, and files
wrong answers for **review**.  Steps, practice and generation threads share one
session object and save it whole; edits of **assets** and the **tutor**'s
exchanges live in the same session.  Every request carries a pair signed for a
device session of its **account**.

### What is hard

* Several threads and processes write one job row; a run that lost it goes on
  writing.  The only fence is `WHERE lease_owner = ...`.
* Row and event are separate transactions; so are state row, snapshot and index
  of a session, and the statements of an account handler.
* Counts and checks are made before the transaction they matter in.
* Timers, callbacks and drain run on different threads.
* Event ids are taken before commit; streams stop anywhere; answers are lost,
  late, or repeated, and the page reconnects or sends again.
* A thread keeps a session object that a reset has replaced.
* Controllers and gates are shared by learners and lost at a restart.
* One deadline covers a chain of providers that may never answer; any of four
  fallbacks may end up in a published card.
* Cards are used again in situations they were not made for.

The hazards, each at its line, are in `PROJECT.json` with the properties that
would catch them; those without a property say what is missing or what was found.

## 2. The modules

| module | models | state and actions |
|---|---|---|
| `JobLifecycle` | what a client may rely on for one job: the abstract specification, and what is left of it where two runs of one owner id overlap (`Overlapping`) | `status`, `ledger`, `log` |
| `ResourceJobs` | rows, cards, events, session entries, executions of any number of threads | one action per committed repository call or local step |
| `JobAdmission` | `request_generation`, `create_or_get_active_job`, slots as advisory locks, follow-up requests | `call`, `lock`, `slot`, `work`, `status`, `retries` |
| `JobScheduler` | futures, timers, executors, drain, restart | `task`, `futures`, `timer`, `timers`, `drain` |
| `JobStream` | writers of the event ledger, stream generator, page | `job`, `writer`, `lock`, `events`, `reader`, `page` |
| `Accounts` | account handlers over PostgreSQL and Redis, one statement per step | `users`, `tokens`, `sessions`, `pairs`, `cache`, `request` |
| `LearnerSession`, with `ReviewItems` (ledger as a value) and `CodeJudging` (verdict of a submission) | one session: steps, evidence, reviews, threads, saves, restarts | `mem`, `discarded`, `row`, `snapshot`, `handler`, `job`, `practice` |
| `LearningJourney`, with `MasteryControl` (controller, gates, strategy) and `ColdStart` | the way of learners through a course | `agent`, `control`, `cold`, `stored`, `profile`, `page` |
| `CoursePlanning`, with `CourseGraph` (components, cycles, reduction) and `PathPlanning` (order, shortest paths, both planners) | the stored graph, the manager, the planners that read it | `remote`, `manager`, `planner`, `report`, `plan` |
| `CardGeneration`, with `CardChecks` (evidence, validation, templates, gates, guard) | one job's work with providers, breakers, deadline and retry | `site`, `breaker`, `call`, `left`, `phase`, `ledger`, `shelf` |
| `CardCache` | course and personal caches, jobs that read and fill them, learners who change | `base`, `personal`, `cards`, `sit`, `job` |
| `TutorStream` over `LearningAssets` | the page's queue of edits against the services that store them; a tutor's answer with its replay copy, composed with it | `mem`, `snapshot`, `device`, `flow`; `page`, `copy`, `work` |
| `ResourceJobsProofs`, `JobAdmissionProofs`, `ServerProofs` (scheduler and accounts), `JobStreamProofs`, `LearnerProofs`, `CardGenerationProofs`, `TutorStreamProofs`, `CoursePlanningProofs` | theorems | - |
| `MC*` | instances for TLC | - |

`TutorStream` extends `LearningAssets` and its `Next` interleaves both, with
restarts that hit both.  `LearnerSession`, `LearningJourney`, `CoursePlanning`
and `CardGeneration` use their operator modules in every step.  The modules of
the job queue each carry their own view of the row; `ResourceJobs` is the
detailed one, and implements `JobLifecycle`.

### The job queue

`pc` of a thread of `ResourceJobs` follows `_run_claimed_generation_job`:
retrieve, resolve loop, enter, model, verify, publish loop, (again), close,
closing, done, with `project`, `failcard` and the exception handler beside.  It
changes wherever another process may act, that is, between any two
transactions.  `owed` holds events a call has still to append; every action of
a thread waits for them (`At`).  `Owns(t)` is the owner clause; `OwnerOf` the id
a thread writes with, which the slots of a worker process share.  Time is
abstracted: a lease is live or expired, a deadline passed or not.  A payload is
a member of `Contents`.  Progress-only events are not in the log of
`ResourceJobs`; `JobStream` has them.  The learner's advisory lock, taken
inside the first, and `timer.start()` after the lock are folded.  The
`Create`, `Claim`, `NoSlot` and `Finish` of `JobScheduler` stand for the store
in process memory.

### Accounts

A request takes one statement, or one group nobody can see between, per step;
three workers stand for processes.  `pairs` is the history of signed pairs with
the pair each came from; the Redis record `cache` may forget (it is a cache).
`verified`, `claims` and `before` remember what the properties compare.

### The learner's session

Handlers of the event loop are single steps; `/advance`, practice and
generation run in threads and keep the object they started with (`held`).  A
save writes row and snapshot, and may fail in part, silently, as
`persist_session` does.  A test of a submission is a container or a call of the
runner (`CodeJudging`); texts, times and the cut at `MAX_TESTS_PER_EXECUTION`
are left out.  Mastery has levels.  The cap of 500 items is not reached.

### The learner's journey

Numbers are in 1/10000, rounded as the code rounds.  Controller and gate are
keyed by node and belong to the process.  How much of a mastery a break leaves
(`kept`) is a choice.  Other rules of the behaviour cleaner, the sampling of
strategies and the `EduAgentGraph` that no route runs are left out.

### The course graph

Weights and hours are in tenths, mastery and difficulty in hundredths.  Loops and
recursion of the code are recursive functions (`Kahn`, `Relax`,
`ReconstructPath`, `ReduceEdges`, `StrongConnect`).  `Infinity` is a model value
that is no number, as `float("inf")` is no distance.
`GraphBuilder`, `compute_path` and `PlannerNode` over the store are library
code that no request path calls today; the learning step uses only the order.
`Learn` is the learner's profile, which an evaluation may raise or lower.
`Build` ends in a report, in a report of a store it only read, or, when the
database fails, in an exception without one.

### Cards

Time runs in slices of the shortest useful attempt (3 s); the code's attempt of
6, total of 7 and breaker of 10 slices are scaled down.  `words` remembers who
really wrote a payload, `source` is what the service says.  What earlier jobs
left is `Shelves`; other learners are seen through pool workers and breakers.
In `CardCache` course, node and locale are fixed, the content version is part
of the knowledge version, and a situation stands for mastery, errors, style,
stage and diagnostic.

### Assets and tutor

The handlers of the asset routes, and the recording of a tutor exchange, run on
one event loop under the lock of the learner's course: each is one step.  All
else that works on the session (a generation run in an API thread or in the
worker process, `/advance`, practice) is the `saver` of its process.  It takes
the session up or reads the newest snapshot, which replaces what the process has
meanwhile (`TakeUp`, `Install`), dumps it (`Dump`) and makes what it dumped the
newest snapshot (`SaveDump`), without the lock and with any time between; a
process has one such thread at a time.  A failed load makes a fresh session
(`LoadFails`).  A save may store row and snapshot, the row alone, or nothing.  A
page that is closed leaves its requests on their way to the server.  Edits are
numbered.  Local storage works, a device has one tab, a course switch is a
logout and a login; warnings and validation events of the tutor carry no text.

## 3. The runs

Each run is one `cfg`; all are exhaustive within their bounds.

| run | question | bounds |
|---|---|---|
| `core` | Does the lease protocol keep its promises under takeovers, late writers, crashes and lost events, and implement `JobLifecycle`? | 1 job, 2 cards, 2 threads with their own owner ids, 1 retry; 1.1 million states |
| `live` | Does every job end? | 1 job, 1 card, 2 threads, 1 retry |
| `admission` | Do merging, limits and slots hold over interleaved requests and a follow-up? | 3 requests (two the same), 1 follow-up, 2 workers, 2 slots, limits 2/1/1; 1.8 million states |
| `scheduler` | Is work tracked, does the drain see it, is a queued job run? | 1 job, 3 futures, 2 timers, 2 threads, 1 retry |
| `stream` | Does the page get every card once and settle? | 1 card, 2 writers, 2 claims, replays of 2 events, 1 reconnect, 1 poll |
| `accounts` | Do tokens, pairs, revocation, reset, verification and deletion keep together? | 1 user with 2 addresses and passwords, 3 processes (symmetric), 3 requests, 4 pairs, 2 tokens, 1 fault; 70,000 states |
| `learner` | Is mastery accounted for, evidence counted once, a closed review proven? | 1 node, 2 questions, 3 levels, seven budgets of events, receipts, faults and resets; 770,000 states |
| `planning` | Is a built graph sound, a cached order current, a path cheapest? | every graph of 3 nodes with edges of 2 weights, two graphs of 4 nodes edited and searched under every strategy, starts, outages and reseeding |
| `journey` | Does mastery follow evidence, is nothing left behind, is a complete profile whole? | 3 nodes, 2 learners, five plans of answers, browsing, breaks, resets, restarts and both ways of a cold start |
| `cards` | Does a published card say where it comes from, rest on its own evidence, pass the sandbox, and does the job end? | 2 requests of 2 cards, 3 sites, 3 shelves, 2 providers, 1 pool worker, 1 own and 1 foreign chunk, 1 retry |
| `assets` | Does an edit wait until it was accepted, and is every complete answer whole? | 2 devices, 1 key, 2 API processes (both symmetric), 1 worker process, saves of all results, ten budgets of edits, losses, logouts, other savers, failed saves, restarts, broken streams and evictions; 1.1 million states |
| `caches` (violation) | Is the course cache neutral, as its docstring says? | 2 learners, 1 card, 2 situations, 2 jobs |

Why the bounds are enough.  Two threads are a run that lost its job and the one
that took it over; with one retry the job is requeued, taken over, and recovered
for the last time.  Two cards make both phases, a partial outcome, and a
publication beside a failure.  In `admission` every limit is reached, both
workers can hold or want slot zero, and the twin meets the unique index.  In
`accounts` three processes are two requests that race with one token and a
third that revokes, changes or resets; four pairs are the legacy one, a login
and two rotations; the theorems cover any numbers.  Budgets of `learner`,
`journey` and `assets` put together the few events a property needs (a wrong
answer, its practice and its retest; a reset under a running job; a flush, a
lost answer and a second device) and leave out only combinations that do not
share state.  Every strategy of the planners meets a cut path, an unreachable
target and a mastered node.  `cards` lets a provider stay silent past the
deadline, open a breaker, be down for the whole job, and answer with each kind
of defect that a gate tells apart.

What they show:

* `EndIsFinal`, `OnlyTheOwnerPublishes`: giving the lease back in every terminal
  write is what fences late writers; `retry_job` and `mark_card_failed` never
  look at the status.
* `NothingForgotten`, `CompletedIsWhole`, `ProgressMatchesLedger` (which needs
  distinct owner ids), `CardsAnnouncedOnceBeforeEnd`, `EndAnnouncedTruthfully`,
  and the refinement `EveryJobKeepsItsPromise`.
* `OneActivePerKey`, `LearnersBounded`, `NoCircularWait`: checks made before the
  transaction may be stale, those inside are not; and a worker that holds a slot
  while it asks for a follow-up closes no circle.
* `WorkIsTracked`, `DrainSeesRuns`, `QueuedJobsRun`; `EventsArriveOnceInOrder`,
  `CardsAreNeverSkipped`, `TheEndComesAfterTheCards`, `EndedJobsSettleThePage`:
  ids commit out of order, yet no card is passed by, because the foreign key of
  an event waits for the row a publication locks.
* `TokensClaimedOnce`, `RefreshExchangedOnce`: the conditional updates decide,
  whatever Redis forgot.  `NothingSignedAfterRevocation`, `SessionsEndFirst`:
  reset and deletion fail closed.  `VerifiedEmailWasProven`.
* `MasteryIsAttributed`: the provenance of a node is a chain without gaps in
  every copy of a session, also in one that a thread kept over a reset.
  `EvidenceCountsOnce`, `CompletedWasProven`.
* `GraphBuildIsSound` compares Tarjan's search, the cycle resolution and the
  reduction with plain reachability (its part `ReductionIsExact` is proved too);
  `PlannedPathsAreCheapest` compares the relaxation with the enumeration of all
  paths; `CachedOrderIsCurrent`; `MasteryNeverRaisesCost`.
* `MasteryFollowsEvidence`: an answer moves mastery towards its score and never
  past it, whatever the shared controller remembers and its integral was wound
  to.  `NothingLeftBehind`, `CompleteProfileIsWhole`.
* `TruthfulProvenance`, `RestsOnOwnEvidence`, `UncheckedWorkIsHeldBack`: over
  four fallbacks, repairs and reuse, an outage makes the gates stricter.
  `EveryJobComesToItsEnd` though no provider ever has to answer.
* `LastEditsWaitOrAreAccepted`: the last edit of a key is in the page's local
  storage until a server has accepted it.  That it is durable from then on is
  more than the code keeps (section 4).
* `AnswerIsWhole`: where the requests of a message reached one process, a message
  the page calls complete is the whole answer of one generation.

Each property has a mutant in `PROJECT.json`: a faulty variant of one definition
(marked so in the modules) under which the run finds it violated.  Type
invariants and a few weaker invariants (`RetriesBounded`, `SlotsAccounted`,
`AdmissionsBounded`, `PhaseEndsInTime`, `SettledWhenDone`) are in the modules
and hold when they are added to a `cfg`; those of the modules with proofs are
part of the inductive invariants.

Deadlock is not checked: an ended job, a settled page or a spent budget leaves
nothing to do, and that is intended.

### Fairness

* `live`: time passes and some process keeps expiring overdue rows (the worker's
  maintenance every 15 s, the server's sweep every minute).  Runs, recovery and
  heartbeats may all die.
* `scheduler`: sweep, threads, timers and drain get their turn (weak fairness);
  a job that looks for a slot again and again finds one (strong fairness of
  `Claim`: slots are held for a bounded time because jobs have deadlines); the
  process does not restart for ever.
* `stream`: the generator and the page's timers run.  No writer is assumed to
  get any further.
* `cards`: the worker takes its next step and time passes (weak fairness of
  `WorkerStep` and `Tick`).  No provider is assumed to answer, no pool worker of
  another learner to become free.

## 4. Findings

One run of `PROJECT.json` shows a disagreement between code and documentation:

* `caches` (`CourseCardsAreNeutral`): the docstring of
  `_is_generic_course_context` says the course cache only stores output of the
  neutral baseline.  The code tests the context in which a card is stored, not
  the one it was made in: a card made at mastery 40 with a diagnostic is found
  again after a session reset, at mastery 50 in the same bucket, and is then
  stored for the course.

More statements of comments, tests or documents that the code does not meet can
be shown by running these configurations by hand, with the statement in place
of the listed properties where the configuration is that of a run:

| configuration | statement refuted | why |
|---|---|---|
| `ResourceJobs_refuted` | `ExpiredOwnerIsFenced`, `PublishedCardsNeverFail`, `SessionShowsLedger` | slots of a worker share one owner id; an error after a publication is caught as a failure of the card; the session is saved after the ledger, unfenced |
| `JobAdmission_waits` | `RequestsNeverWaitForSlots` | admission lock and slot zero are one advisory key |
| `JobScheduler` | `DrainedMeansIdle`, `ContendedJobsAreResubmitted` | a fired timer is in no table; a timer may fire before its run has returned, and its submission is dropped until the next sweep |
| `JobStream` | `TheFinalPassDeliversTheEnd` | the status commits before its event |
| `LearnerSession_retest` | `RetestQuizIsFresh` | a retest may be given a quiz that was used up or published before |
| `LearnerSession_retest` | `SlowCodeIsTimedOut` | a container out of time answers `ok` with verdict `time_limit` and no `actual`; `_validate_worker_result` makes it `internal_error`, while `tests/application/test_code_practice_service.py:484` expects `time_limit` of the executor |
| `LearningAssets_savers` | `AcknowledgedEditsAreSaved`, `SavedExchangesStay` | one API process and healthy saves: a thread or the worker saves a dump that is older than an acknowledged edit or exchange, and it becomes the newest snapshot; in `LearningAssets` also a save of the row alone, which counts as durable though loads prefer the snapshot |
| `LearningAssets`, `LearningAssets_replicas` | `FinalEditIsShown` | the answer of a hydrate, read before an edit was stored, arrives when the edit has left the queue |
| `LearningAssets_replicas` | `CompleteIsWhole` | each process numbers the events of its own generation from the page's cursor, so a copy of one continues the text of another |
| `CoursePlanning_seeding` | `SeededOnce` | every start finds no nodes of the course, which seeding creates without a course id, and seeds again |
| `CardGeneration` | `CardsShareTheBlueprint`, `TemplatesAreValid`, `FallbackHasTime` | the blueprint of a rejected map is kept; templates made without the knowledge base fail the validator; a bundle's first attempt takes the whole time |
| `CardCache` | `DeletedLearnersLeaveNothing` | a run that outlives the deletion stores a personal row |
| `LearningJourney`, the first with `Plans <- OnlyGoodAnswers` | `StrategyIsHeld`, `AnswersKeepTheirQuestion` | perfect answers at a middle mastery count as stagnation; an answer after a lost response is filed under the next question |

`CardCache.cfg` itself passes (cards suit the key they are filed and read
under; about two minutes).

Smaller observations met on the way: an exported graph is `[]` on a lost
connection; `MERGE` never deletes edges, so a stored graph can stay cyclic while
the report says it is a DAG; `validate_dag` ignores self-loops; budget counters
restart with every claim; the primary provider's breaker is never consulted; a
template that replaces a rejected card is published with the rejected card's
quality result.

## 5. The proofs

For any jobs, cards, payloads, threads, owner ids (shared or not) and retry
limit (`JobsAssumption`), `ResourceJobsProofs` proves `TypeOK`,
`EndedIsReleased`, `EndIsFinal`, `OnlyTheOwnerPublishes`, `NothingForgotten` and
`CompletedIsWhole`.  `TypeOK` includes `Engaged` (a busy thread holds a job, a
card and a payload where it needs them) and is inductive by itself.
`EndedIsReleased` is inductive with it: every write that ends a job clears the
owner, and every write of a run requires an owner that is not NULL.
`CompletedIsWhole` is not inductive; the strengthening is `NothingForgotten`: at
each point of a run a requested card is ahead of it, published, or the job has
a failed card.

For any requests (finitely many), workers, lanes, slots and limits,
`JobAdmissionProofs` proves `OneActivePerKey`, `LearnersBounded` and
`NoCircularWait`.  The invariant `AdmissionInv` says that a caller is inside the
transaction exactly when it holds the lock, so at most one is; that what its
checks found there (no active job of the key, fewer than the limit of the
learner) is true until its insert, because only the insertion makes a job
active that was not.  `Quiet` adds that a worker asks for a follow-up only in
that stage of its work: a worker that waits for a slot holds no admission lock,
and whoever holds the lock waits for nothing, so no circle closes.

For any users, addresses, passwords, processes and numbers of requests
(`AccountsAssumption`), `ServerProofs` proves all five properties of the run
`accounts`.  Its invariant has five parts: `RequestsInv` (what an open request
still knows of its user, pair, token and session), `TokensInv` (a token is
claimed at most once and only while unclaimed), `SignedInv` (session ids are
never used again; the pair a session accepts is its newest and was exchanged by
nobody), `EndedInv` (a revoked session is never revived, and what a reset or
deletion saw before is ended by the time it changes the identity) and
`VerifiedInv` (a verified address has a claimed token for it).  Each is shown
stable under abstract step relations (`TokensStep`, `SignedStep`,
`RequestStep`, ...) and each action is shown to be such a step, so that an
action is expanded once.

The second half of `ResourceJobsProofs` is about what clients are told.  Whoever
ends a job owes its events (`EndsDue`: what the log says or somebody owes fits the end of the
row, and nobody owes what has been said), and a publication is told with it
(`AllCardsTold`: one event per published card, before any end); from these
follow `EndAnnouncedTruthfully` and `CardsAnnouncedOnceBeforeEnd`, for shared
owner ids too.  `ProgressMatchesLedger` is different: two calls write back a
whole progress record they read in an earlier transaction.  That undoes no
publication as long as the thread that holds the job has the row's present
progress (`CurrentOn`), and this is lost when a sibling slot with the
same owner id takes the job over, because the fence then lets the first one
write.  With the ids that `resource_worker.py` really uses this happens
(section 4), so the theorems assume nothing about owner ids and say for each job what is left.
A history variable `shared`, added to the specification without constraining it
(`HistorySpec`), collects the jobs that two threads of one owner id have held at
a time.

* A job that is not in `shared` has exactly its published cards in its progress
  (`ProgressOfUnsharedJobs`), and each of its steps is one of `JobLifecycle`
  (`UnsharedJobsKeepTheirPromise`), whatever became of other jobs.
* Any job, shared or not, has only published cards in its progress
  (`ProgressNamesPublished`: what is written back was read in the row), and
  follows the lifecycle with overlapping runs (`JobsKeepTheirOverlappingPromise`),
  which differs in one point: after `retry_job`, which keeps the owner in the row
  of the queued job, the other run may still publish cards and close the job.

The refinement is proved by classes of steps (`JobMoves`): each action changes
row, cards and log of a job in one of the ways the abstract job may move, or in
none.

`ServerProofs` also holds the proofs about the scheduler, which share nothing with
those about accounts but the module: a run that can still touch its job is the
future the tables hold for it, and that a drain that reports success has seen
all of them.  `JobStreamProofs` proves the three safety properties of `stream`
for any cards, writers and limits.  Its invariant says that event ids are drawn
while the row is locked in the conflicting mode by at most one publication
(`CardsAreLocked`), hence an open card event is above everything any reader
has seen (`OpenCardIsAhead`), that each visible card has an event
(`CardsHaveEvents`), and that ends are final and last (`EndsAreFinal`,
`EndsComeLast`).  The assumption `NullIsNoRow` only separates the empty id from
events.

`LearnerProofs` holds the proofs of both of the learner's modules, which is why
`LearningJourney` names its `JourneyInit`, `JourneyNext` and `JourneySpec` apart.
For `LearnerSession` it treats a session as a value.  `Sound(s)` is what the
properties ask of one copy and what makes it inductive: a chain of attributions
per node, evidence that is spent once it has moved mastery, closed items that
were proven.  `Changes(o, s)` is what a handler may do to a copy; every handler,
step, practice and job is shown to make such a change or none, and every save,
failed save, load and reset to pass on copies that are sound.  So the copies a
thread keeps over a reset, and rows and snapshots of different ages, need no
argument of their own.  `NoneIsNoSession` separates "no session" from sessions.

For `LearningJourney` the cold start is a value too.  `ColdSound(c)` says that its
count is the number of its values, that whoever is asked a question has answered
the ones before it, and that a complete one lacks only what is never inferred,
and nothing unless it was inferred.  The count needs the first part: the code
compares a counter with six, never the values.  Every answer, question,
inference, skipped round and restart keeps it, of the cold start in memory and of
the saved one, and `ProfilesAreWhole` reads off the rest.  `AgentSound` says of a
learner that the path is empty or a permutation of the course and that no request
for another path is pending.  `MoveToFrontPermutes` then makes the node of the
step the first and only place of that node, so that "nothing unmastered behind it"
covers the course (`NothingIsLeftBehind`).  `MasteryFollows` is arithmetic: the
output of the controller lies between a tenth and one whatever its memory holds
(`ControllerIsTyped`), a part of a number lies between it and zero
(`TimesIsBetween`), so an update never overshoots (`UpdateIsBetween`).  The
assumption on the constants is that `Topo` lists every node once, which is what
`compute_topological_order` returns when it returns (`KahnOrders` below).

`CardGenerationProofs` follows a card from the context of its claim
(`ContextIsOwn`: in v4 evidence of the course and node only, a blueprint taken
over from a promised card) over what a model phase makes of any answer
(`MadeIsSound`: truthful, own evidence, templates without defects) to gate,
guard and last look (`OutcomeIsPromised`).  It holds for any providers, drafts,
retrievals, outages and numbers of jobs.  Assumed are the shape of what a model
writes (`DraftAssumption`: of the card type asked for, and only a concept map
has a blueprint; its text and references are free) and that the cards found at
the first claim kept the promise (`ShelfAssumption`), as those of the model do.
`OpenCardsAreComing` and `LedgerIsHonest` give `SettledWhenDone`;
`CallsFitTheBudget` gives `PhaseEndsInTime`.

`TutorStreamProofs` is about the composition of `LearningAssets` and
`TutorStream`, for any number of processes and all results of a save.  `EditsInv`
follows an edit: the last edit a device made of a key is in its local storage
until a server has accepted it, and an answer on its way to a page names an edit
that was accepted (`EditsWaitOrAreAccepted`).

For an answer, `AnswerInv` compares what is still on its way with what the page
shows.  Events that are sent, kept in the copy or replayed *lead* a page to a
text (`Leads`) when, after a reset or from the text shown, their tokens spell the
text to its end; they *finish* a page (`Finishes`) when a `done` follows.
`ReadingInv` says this of the events a connected page waits for and `CopyInv` of
the part of the replay copy a page has not seen, at whatever cursor it comes
back; `UnfitInv` says that a question which is refused by the input checks is never
answered.  So each step of generation, eviction, loss and reconnect has to show
only that it makes the leading events longer at the end (a part, the rest of the
answer) or shorter at the front (an event shown).  A message that becomes
complete has then read a whole answer (`AnswersAreWhole`).  The number of
processes is free.  `StreamInv` (types, and which copies exist) holds whichever of
them the requests reach; `AnswerInv` is carried along as long as they reached
one (`ServedByOne`, which once false stays false: `OnStays`), because then this
process has the only copy the page will meet (`ServedAlone`).  `Backlog` and
`RemovePending` work from the least position with a property; that there is one
is proved from the library's well-foundedness of finite sets (`LeastPosition`),
without induction.

Nothing is proved of what becomes of an accepted edit or a saved exchange: with
threads and a worker process that save older dumps, the code does not keep them
(section 4).

Each strengthening was checked by TLC on the run's instance before it was
proved.

`CoursePlanningProofs` is about loops, which are recursive functions over
numbers.  The library's induction takes an operator, so two lemmas stand for it:
`UpTo` (what holds at the first number and is handed on by each holds for all,
from the least number at which it would fail) and `Recursion` (a function that
is defined from its value at the number before exists).  On these rest
concatenation and selection of sequences (`FlattenOrigin`, `SiftPicks`), which
the code writes as nested loops with a filter.

* *Order.*  `KahnInv` says of each turn of Kahn's loop that a node's degree counts
  the edges from nodes not yet taken, and that the queue has only nodes without
  any.  So, if every node is taken, each stands once and after all its
  prerequisites (`KahnOrders`).  `CourseKept` says that store, planner and masteries
  speak of the course, however often it was seeded, and that what a planner has
  cached is an order of the graph it has: `CachedOrderIsCurrent`.
* *Cheapest paths.*  Relaxing the edges in that order keeps `TreeInv`: every reached
  node but the source was reached over an edge from its predecessor, and the edges
  that are done are settled.  A walk climbs through the order (`WalkClimbs`), hence
  no walk is cheaper than the distance (`WalksAreNotCheaper`); going back over the
  predecessors gives a walk that costs no more (`ReconstructIsWalk`).  Walks in an
  order repeat no node, so they are the paths of the property (`CheapestPaths`).
  `CheapestKept` carries this to the last answer of `compute_path`, cut by length or
  hours or not, and to the last plan of `PlannerNode`.
* *Learning.*  A cost never grows with mastery (`MasteryLowersCost`, with the
  rounding of the code), and relaxation is monotone in the costs
  (`RelaxKeepsCloser`).  `PlanKept` remembers the masteries a plan was made with; a
  later plan of the same journey, for masteries none of which is lower, is no
  dearer (`MasteryNeverRaisesCost`).
* *Reduction.*  A breadth first search gives the least set closed under the edges it
  may use (`SpreadIsLeast`, `SpreadExplores`: a layer adds a node or is the last).
  A set that is closed without an edge is closed with it when the search found a way
  around (`DetourKeepsReach`), so no removal changes what is reachable.  An edge
  that stays was tried when more edges were there than at the end
  (`NoDetourNoReach`).  Neither needs a graph free of cycles, which the docstring
  of `TransitiveReducer` asks for: `ReductionIsExact` holds for the graphs that
  `remove_weakest_edge` leaves cyclic too.

Assumed of the constants is what the data has: masteries and difficulties from 0
to 1, natural weights and hours, edges between nodes of the course, positive
length limits, an `Infinity` that is no integer (`NodesAssumption`,
`CoursesAssumption`, `ContextsAssumption`, `InfinityAssumption`).

Only model-checked: liveness (`live`, `QueuedJobsRun`, `EndedJobsSettleThePage`,
`EveryJobComesToItsEnd`: out of the prover's reach); `CardCache`, whose run shows
a violation; and of `GraphBuildIsSound` all but its part `ReductionIsExact`: that
Tarjan's search finds the components (with every kind of edge allowed), and that
the verdict on cycles is therefore the planners'.  The search recurses over a
node and the state of the search, not over a number, and what it computes for
every graph needs an induction over that tree of calls, which the prover has no
means for.  Every other safety invariant and action property of the passing runs
is stated by a theorem, `ProgressMatchesLedger` and `EveryJobKeepsItsPromise` job
by job, for those that were never shared.

## 6. What is not modelled

Deletion of jobs under a running execution; the process-memory repository after a
database error; snapshot version numbers; the sliding windows of the rate
limiter; the late writes of a tutor thread that ran out of time; document
chunking; prompts, texts, token and cost arithmetic; the search indexes; the
question bank; page views; schema set-up and operations.  Each with its reason
in `PROJECT.json`.  `CardCache` leaves out shadow exposure, the refusal of a
retest, refusals by rate, and the purge of expired metadata.

## 7. Plan

Next, in this order:

1. `GraphBuildIsSound`: Tarjan's search, by an induction on the number of nodes
   not yet visited.
2. Deletion of jobs in `ResourceJobs`, and snapshot versions in `LearnerSession`.
3. The sliding windows of `rate_limiter.py`.
