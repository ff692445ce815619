---------------------------- MODULE JobAdmission ----------------------------
(***************************************************************************)
(* Admission of generation jobs: request_generation of                     *)
(* src/application/resource_service.py, called by API requests and by a    *)
(* worker that follows a concept map up with its supporting bundle, and    *)
(* the transaction of create_or_get_active_job it ends in.  The workers    *)
(* run beside it as far as they matter: they hold the generation slots,    *)
(* which are advisory locks of the namespace the admission lock is in, and *)
(* they move jobs between the states the limits count.                     *)
(*                                                                         *)
(* A request makes its checks twice, before and inside the transaction.    *)
(* The second lock of the transaction, the learner's own, is only ever     *)
(* taken inside the first and is left out.                                 *)
(***************************************************************************)
EXTENDS Naturals, FiniteSets

CONSTANTS
    Clients,     \* API requests; each is also the id of the job it may create
    Bundles,     \* ids of the jobs that follow concept maps up
    Workers,     \* threads that execute jobs
    Dedicated,   \* the workers of src/resource_worker.py, which take no slot
    KeyOf,       \* [Requests -> idempotency keys]
    LearnerOf,   \* [Requests -> learners]
    Lane,        \* [Requests -> Lanes]
    BundleOf,    \* [Requests -> Bundles \cup {None}], the follow-up of a job
    Slots,       \* 0..N-1, the global generation slots
    MaxActive,   \* MAX_ACTIVE_JOBS_PER_USER
    SoftLimit,   \* QUEUE_SOFT_LIMIT
    HardLimit,   \* QUEUE_HARD_LIMIT
    MaxRetries,  \* the max_retries column
    None

Requests == Clients \cup Bundles
Callers == Clients \cup Workers
Lanes == {"concept", "normal", "low"}

ASSUME AdmissionAssumption ==
    /\ Clients \cap Bundles = {} /\ Clients \cap Workers = {}
    /\ Dedicated \subseteq Workers
    /\ DOMAIN KeyOf = Requests /\ DOMAIN LearnerOf = Requests
    /\ Lane \in [Requests -> Lanes]
    /\ BundleOf \in [Requests -> Bundles \cup {None}]
    /\ IsFiniteSet(Requests)
    /\ Slots \subseteq Nat /\ 0 \in Slots
    /\ {MaxActive, SoftLimit, HardLimit, MaxRetries} \subseteq Nat
    /\ SoftLimit =< HardLimit
    /\ {"absent", "queued", "running", "ended"} \cap Workers = {}
    /\ None \notin Requests \cup Callers

VARIABLES
    status,   \* a job: absent, queued, the worker that runs it, or ended
    retries,  \* the retry_count column
    call,     \* what each caller is asking for, and how far it got
    lock,     \* the holder of the admission lock, advisory key 0
    slot,     \* the holder of each generation slot, advisory keys 0..N-1
    work      \* the job each worker thread executes, and how far it got

vars == <<status, retries, call, lock, slot, work>>

-----------------------------------------------------------------------------
Steps == {"idle", "find", "depth", "count", "lock", "insert", "answered"}
Stages == {"idle", "claim", "model", "followup", "closing"}

Queued == {r \in Requests : status[r] = "queued"}
Running == {r \in Requests : status[r] \in Workers}
Active == Queued \cup Running
ActiveOf(learner) == {r \in Active : LearnerOf[r] = learner}
\* Faulty variant: only queued jobs are looked at.
ExistingQueued(r) == {q \in Queued : KeyOf[q] = KeyOf[r]}
\* The active jobs of the same request, as the SELECTs and the unique index
\* uq_resource_generation_jobs_active_request see them.
Existing(r) == {q \in Active : KeyOf[q] = KeyOf[r]}

\* _slot_candidates: slot zero is kept for concept maps.
Candidates(j) == IF Lane[j] = "concept" \/ Slots = {0} THEN Slots ELSE Slots \ {0}

Silent == [at |-> "idle", req |-> None, tx |-> FALSE]

Init ==
    /\ status = [r \in Requests |-> "absent"]
    /\ retries = [r \in Requests |-> 0]
    /\ call = [c \in Callers |-> Silent]
    /\ lock = None
    /\ slot = [s \in Slots |-> None]
    /\ work = [w \in Workers |-> [at |-> "idle", job |-> None]]

-----------------------------------------------------------------------------
(* A request *)

Goto(c, step) == call' = [call EXCEPT ![c].at = step]
Req(c) == call[c].req
Unlock(c) == lock' = IF lock = c THEN None ELSE lock
\* The answer is known; the transaction, if one is open, ends.
Return(c) ==
    /\ call' = [call EXCEPT ![c] = [@ EXCEPT !.at = "answered", !.tx = FALSE]]
    /\ Unlock(c)
Answer(c) ==
    /\ Return(c)
    /\ UNCHANGED <<status, retries, slot, work>>
Proceed(c, step) ==
    /\ Goto(c, step)
    /\ UNCHANGED <<status, retries, lock, slot, work>>

Ask(c) ==
    /\ c \in Clients /\ call[c].at = "idle"
    /\ call' = [call EXCEPT ![c] = [Silent EXCEPT !.at = "find", !.req = c]]
    /\ UNCHANGED <<status, retries, lock, slot, work>>

\* get_active_job before the transaction, its SELECT inside.
FindActive(c) ==
    /\ call[c].at = "find"
    /\ IF Existing(Req(c)) = {} THEN Proceed(c, "depth")
       ELSE IF call[c].tx THEN Answer(c)
       ELSE Proceed(c, "lock")

QueueFull(r) == Cardinality(Queued) >= HardLimit /\ Lane[r] # "concept"
LowPaused(r) == Cardinality(Queued) >= SoftLimit /\ Lane[r] = "low"

CheckDepth(c) ==
    /\ call[c].at = "depth"
    /\ IF QueueFull(Req(c)) \/ LowPaused(Req(c))
         THEN Answer(c) ELSE Proceed(c, "count")

LearnerFull(r) == Cardinality(ActiveOf(LearnerOf[r])) >= MaxActive

CheckLearner(c) ==
    /\ call[c].at = "count"
    /\ IF LearnerFull(Req(c)) THEN Answer(c)
       ELSE Proceed(c, IF call[c].tx THEN "insert" ELSE "lock")

\* Faulty variant: no pg_advisory_xact_lock.
MayLockAlways(c) == c \in Callers
\* Faulty variant: the caller's connection is not the one that holds slot zero.
MayLockElsewhere(c) == c \in Callers /\ lock = None /\ slot[0] = None
\* Key zero is free of every other session, as the admission lock and as
\* generation slot zero.
MayLock(c) == lock = None /\ slot[0] \in {None, c}

\* pg_advisory_xact_lock(namespace, 0)
Lock(c) ==
    /\ call[c].at = "lock" /\ MayLock(c)
    /\ lock' = c
    /\ call' = [call EXCEPT ![c] = [@ EXCEPT !.at = "find", !.tx = TRUE]]
    /\ UNCHANGED <<status, retries, slot, work>>

\* The row is inserted, unless the unique index refuses it, and the end of the
\* transaction gives the lock back.  An id is the latest job of its request.
Insert(c) ==
    /\ call[c].at = "insert"
    /\ IF Existing(Req(c)) = {}
         THEN /\ status' = [status EXCEPT ![Req(c)] = "queued"]
              /\ retries' = [retries EXCEPT ![Req(c)] = 0]
         ELSE UNCHANGED <<status, retries>>
    /\ Return(c)
    /\ UNCHANGED <<slot, work>>

\* An error rolls the transaction back; the caller gets it as its answer.
Abort(c) ==
    /\ call[c].at \notin {"idle", "answered"}
    /\ Answer(c)

-----------------------------------------------------------------------------
(* A worker *)

SlotsOf(w) == {s \in Slots : slot[s] = w}
Release(w) == slot' = [s \in Slots |-> IF slot[s] = w THEN None ELSE slot[s]]
Rest(w) == work' = [work EXCEPT ![w] = [at |-> "idle", job |-> None]]
Stage(w, stage) == work' = [work EXCEPT ![w].at = stage]
Job(w) == work[w].job

\* run_generation_job: a slot first, without waiting for it.
TakeSlot(w, j, s) ==
    /\ w \notin Dedicated /\ work[w].at = "idle"
    /\ status[j] = "queued"
    /\ s \in Candidates(j)
    /\ slot[s] = None /\ (s = 0 => lock = None)
    /\ slot' = [slot EXCEPT ![s] = w]
    /\ work' = [work EXCEPT ![w] = [at |-> "claim", job |-> j]]
    /\ UNCHANGED <<status, retries, call, lock>>

\* claim_job
Claim(w) ==
    /\ work[w].at = "claim"
    /\ IF status[Job(w)] = "queued"
         THEN /\ status' = [status EXCEPT ![Job(w)] = w]
              /\ Stage(w, "model") /\ UNCHANGED slot
         ELSE Release(w) /\ Rest(w) /\ UNCHANGED status
    /\ UNCHANGED <<retries, call, lock>>

\* claim_next_job
ClaimNext(w, j) ==
    /\ w \in Dedicated /\ work[w].at = "idle"
    /\ status[j] = "queued"
    /\ status' = [status EXCEPT ![j] = w]
    /\ work' = [work EXCEPT ![w] = [at |-> "model", job |-> j]]
    /\ UNCHANGED <<retries, call, lock, slot>>

Owns(w) == status[Job(w)] = w

\* The cards are published.  A ready concept map is followed up; the owner is
\* checked first.
FollowUp(w) ==
    /\ work[w].at = "model" /\ Owns(w)
    /\ BundleOf[Job(w)] # None
    /\ Stage(w, "followup")
    /\ call' = [call EXCEPT ![w] =
                  [Silent EXCEPT !.at = "find", !.req = BundleOf[Job(w)]]]
    /\ UNCHANGED <<status, retries, lock, slot>>

\* A refused follow-up is no error: the job is closed as if it had been made.
FollowedUp(w) ==
    /\ work[w].at = "followup" /\ call[w].at = "answered"
    /\ Stage(w, "closing")
    /\ call' = [call EXCEPT ![w] = Silent]
    /\ UNCHANGED <<status, retries, lock, slot>>

\* No concept map, none ready, or every supporting card is there already.
NothingToFollow(w) ==
    /\ work[w].at = "model"
    /\ Stage(w, "closing")
    /\ UNCHANGED <<status, retries, call, lock, slot>>

\* The terminal write, fenced by the owner; the slot is given back either way.
Close(w) ==
    /\ work[w].at = "closing"
    /\ status' = IF Owns(w) THEN [status EXCEPT ![Job(w)] = "ended"] ELSE status
    /\ Release(w) /\ Rest(w)
    /\ UNCHANGED <<retries, call, lock>>

\* What a retry or a recovery makes of a job.
AgainOrEnd(j) ==
    IF retries[j] < MaxRetries
      THEN /\ status' = [status EXCEPT ![j] = "queued"]
           /\ retries' = [retries EXCEPT ![j] = @ + 1]
      ELSE /\ status' = [status EXCEPT ![j] = "ended"]
           /\ UNCHANGED retries

Raise(w) ==
    /\ work[w].at \in {"model", "closing"} /\ Owns(w)
    /\ AgainOrEnd(Job(w))
    /\ Release(w) /\ Rest(w)
    /\ UNCHANGED <<call, lock>>

\* The process dies: its session's locks are gone and its transaction is
\* rolled back; the job waits for its lease to run out.
Crash(w) ==
    /\ work[w].at # "idle"
    /\ Release(w) /\ Rest(w) /\ Unlock(w)
    /\ call' = [call EXCEPT ![w] = Silent]
    /\ UNCHANGED <<status, retries>>

Recover(j) ==
    /\ j \in Running
    /\ AgainOrEnd(j)
    /\ UNCHANGED <<call, lock, slot, work>>

Expire(j) ==
    /\ j \in Active
    /\ status' = [status EXCEPT ![j] = "ended"]
    /\ UNCHANGED <<retries, call, lock, slot, work>>

-----------------------------------------------------------------------------
Step(c) ==
    \/ FindActive(c) \/ CheckDepth(c) \/ CheckLearner(c)
    \/ Lock(c) \/ Insert(c)

Execute(w) ==
    \/ Claim(w) \/ FollowUp(w) \/ FollowedUp(w)
    \/ NothingToFollow(w) \/ Close(w) \/ Raise(w)

Next ==
    \/ \E c \in Callers : Ask(c) \/ Step(c) \/ Abort(c)
    \/ \E w \in Workers : Execute(w) \/ Crash(w)
    \/ \E w \in Workers, j \in Requests :
          ClaimNext(w, j) \/ \E s \in Slots : TakeSlot(w, j, s)
    \/ \E j \in Requests : Recover(j) \/ Expire(j)

Spec == Init /\ [][Next]_vars

-----------------------------------------------------------------------------
(* Properties *)

TypeOK ==
    /\ status \in [Requests -> {"absent", "queued", "ended"} \cup Workers]
    /\ retries \in [Requests -> 0..MaxRetries]
    /\ call \in [Callers -> [at : Steps, req : Requests \cup {None}, tx : BOOLEAN]]
    /\ lock \in Callers \cup {None}
    /\ slot \in [Slots -> Workers \cup {None}]
    /\ work \in [Workers -> [at : Stages, job : Requests \cup {None}]]

\* Requests that mean the same work share one job, however they interleave.
OneActivePerKey ==
    \A r, q \in Active : KeyOf[r] = KeyOf[q] => r = q

\* No learner has more active jobs than the limit, follow-ups and retried
\* jobs included.
LearnersBounded ==
    \A r \in Requests : Cardinality(ActiveOf(LearnerOf[r])) =< MaxActive

\* The queue limits hold across API replicas for the jobs they admit: a retry
\* or a concept map may lengthen the queue further, an admission may not.
Fresh(lanes) == {r \in Queued : retries[r] = 0 /\ Lane[r] \in lanes}
AdmissionsBounded ==
    /\ Cardinality(Fresh({"normal", "low"})) =< HardLimit
    /\ Cardinality(Fresh({"low"})) =< SoftLimit

\* A thread holds one slot while it executes a job and none afterwards, and
\* slot zero is never a supporting bundle's: the concept lane stays open.
SlotsAccounted ==
    /\ \A w \in Workers \ Dedicated :
         Cardinality(SlotsOf(w)) = IF work[w].at = "idle" THEN 0 ELSE 1
    /\ Slots # {0} /\ slot[0] # None => Lane[Job(slot[0])] = "concept"

\* Waiting for the admission lock never goes round in a circle, though workers
\* ask for it while they hold slots: whoever holds key zero can go on.
NoCircularWait ==
    \A c \in Callers :
        call[c].at = "lock" /\ ~MayLock(c) =>
            \/ lock # None /\ call[lock].at # "lock"
            \/ lock = None /\ (call[slot[0]].at = "lock" => MayLock(slot[0]))

(* A statement of the repository that the code does not meet *)

\* The advisory keys of the generation slots collide with no other use of
\* advisory locks: a request never waits for a slot to be given back.
RequestsNeverWaitForSlots ==
    \A c \in Callers : call[c].at = "lock" /\ lock = None => MayLock(c)

=============================================================================
