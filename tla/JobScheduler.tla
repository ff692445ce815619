---------------------------- MODULE JobScheduler ----------------------------
(***************************************************************************)
(* The in-process scheduler of src/application/resource_service.py: the    *)
(* two executors, the table of submitted futures, the retry timers of jobs *)
(* that found no generation slot, the sweep, and drain_generation_workers. *)
(* All of it is memory of one process and is lost when that restarts; the  *)
(* job rows are not.                                                       *)
(*                                                                         *)
(* Futures and timers come from finite pools: an entry is reused once      *)
(* nothing refers to it.                                                   *)
(***************************************************************************)
EXTENDS Naturals, FiniteSets

CONSTANTS
    Jobs,
    Tasks,       \* submitted runs, each with its future
    Timers,      \* retry timers
    Lanes,       \* the executors
    LaneOf,      \* [Jobs -> Lanes], _generation_executor_for_job
    Width,       \* [Lanes -> Nat], threads of an executor
    MaxRetries,  \* the max_retries column
    Nothing      \* no job, no future, no timer

ASSUME SchedulerAssumption ==
    /\ LaneOf \in [Jobs -> Lanes]
    /\ Width \in [Lanes -> Nat \ {0}]
    /\ MaxRetries \in Nat
    /\ Nothing \notin Jobs \cup Tasks \cup Timers

VARIABLES
    status,   \* the job rows
    retries,  \* the retry_count column
    task,     \* every submitted run
    futures,  \* _RESOURCE_JOB_FUTURES
    timer,    \* every retry timer
    timers,   \* _RESOURCE_JOB_RETRY_TIMERS
    drain     \* the call of drain_generation_workers, if there is one

vars == <<status, retries, task, futures, timer, timers, drain>>

-----------------------------------------------------------------------------
Unfinished == {"waiting", "started", "contended", "running", "raised", "leaving"}
TaskSteps == {"free", "done"} \cup Unfinished
TimerSteps == {"free", "ticking", "fired", "popped"}

Free(entry) == entry.at = "free"
NoEntry == [at |-> "free", job |-> Nothing]
Quiet == [at |-> "idle", cancelled |-> {}, waits |-> {}]

Init ==
    /\ status = [j \in Jobs |-> "absent"]
    /\ retries = [j \in Jobs |-> 0]
    /\ task = [k \in Tasks |-> NoEntry]
    /\ futures = [j \in Jobs |-> Nothing]
    /\ timer = [m \in Timers |-> NoEntry]
    /\ timers = [j \in Jobs |-> Nothing]
    /\ drain = Quiet

-----------------------------------------------------------------------------
(* Jobs and their submission *)

\* A request inserts the row; its submission is a step of its own.
Create(j) ==
    /\ status[j] = "absent"
    /\ status' = [status EXCEPT ![j] = "queued"]
    /\ UNCHANGED <<retries, task, futures, timer, timers, drain>>

\* Another process takes the job, or it expires.
TakenElsewhere(j) ==
    /\ status[j] = "queued"
    /\ status' = [status EXCEPT ![j] = "ended"]
    /\ UNCHANGED <<retries, task, futures, timer, timers, drain>>

Submitted(j) == futures[j] # Nothing /\ task[futures[j]].at \in Unfinished

\* _submit_generation_job under the futures lock: task and futures only.
Submit(j, replace, tasks) ==
    IF Submitted(j) /\ ~replace
      THEN task' = tasks /\ UNCHANGED futures
      ELSE \E k \in Tasks :
             /\ Free(tasks[k]) /\ k \notin drain.waits
             /\ task' = [tasks EXCEPT ![k] = [at |-> "waiting", job |-> j]]
             /\ futures' = [futures EXCEPT ![j] = k]

\* Faulty variant: retried jobs are not among the pending ones.
ResubmitFresh(j) ==
    /\ status[j] = "queued" /\ retries[j] = 0
    /\ Submit(j, FALSE, task)
    /\ UNCHANGED <<status, retries, timer, timers, drain>>
\* The request that created the job, one merged with it, or the sweep.
Resubmit(j) ==
    /\ status[j] = "queued"
    /\ Submit(j, FALSE, task)
    /\ UNCHANGED <<status, retries, timer, timers, drain>>

-----------------------------------------------------------------------------
(* A run, on a thread of its executor *)

Job(k) == task[k].job
Step(k, at) == [task EXCEPT ![k].at = at]
Threads(lane) ==
    {k \in Tasks : task[k].at \in Unfinished \ {"waiting"} /\ LaneOf[Job(k)] = lane}

\* run_generation_job returns at once if the job is no longer queued.
Start(k) ==
    /\ task[k].at = "waiting"
    /\ Cardinality(Threads(LaneOf[Job(k)])) < Width[LaneOf[Job(k)]]
    /\ task' = Step(k, IF status[Job(k)] = "queued" THEN "started" ELSE "leaving")
    /\ UNCHANGED <<status, retries, futures, timer, timers, drain>>

\* A slot was free; the claim succeeds if the job still waits.
Claim(k) ==
    /\ task[k].at = "started"
    /\ IF status[Job(k)] = "queued"
         THEN /\ task' = Step(k, "running")
              /\ status' = [status EXCEPT ![Job(k)] = "running"]
         ELSE task' = Step(k, "leaving") /\ UNCHANGED status
    /\ UNCHANGED <<retries, futures, timer, timers, drain>>

NoSlot(k) ==
    /\ task[k].at = "started"
    /\ task' = Step(k, "contended")
    /\ UNCHANGED <<status, retries, futures, timer, timers, drain>>

Alive(m) == m # Nothing /\ ~Free(timer[m])

\* _schedule_generation_job_retry: a timer that is alive is left to do it.
ScheduleRetry(k) ==
    /\ task[k].at = "contended"
    /\ task' = Step(k, "leaving")
    /\ IF Alive(timers[Job(k)])
         THEN UNCHANGED <<timer, timers>>
         ELSE \E m \in Timers :
                /\ Free(timer[m]) /\ m \notin drain.cancelled
                /\ timer' = [timer EXCEPT ![m] = [at |-> "ticking", job |-> Job(k)]]
                /\ timers' = [timers EXCEPT ![Job(k)] = m]
    /\ UNCHANGED <<status, retries, futures, drain>>

\* The job is closed, or its lease was lost.
Finish(k) ==
    /\ task[k].at = "running"
    /\ task' = Step(k, "leaving")
    /\ status' = [status EXCEPT ![Job(k)] = "ended"]
    /\ UNCHANGED <<retries, futures, timer, timers, drain>>

\* retry_job requeues the row, then the run submits its own successor.
Raise(k) ==
    /\ task[k].at = "running"
    /\ IF retries[Job(k)] < MaxRetries
         THEN /\ status' = [status EXCEPT ![Job(k)] = "queued"]
              /\ retries' = [retries EXCEPT ![Job(k)] = @ + 1]
              /\ task' = Step(k, "raised")
         ELSE /\ status' = [status EXCEPT ![Job(k)] = "ended"]
              /\ task' = Step(k, "leaving")
              /\ UNCHANGED retries
    /\ UNCHANGED <<futures, timer, timers, drain>>

ResubmitItself(k) ==
    /\ task[k].at = "raised"
    /\ Submit(Job(k), TRUE, Step(k, "leaving"))
    /\ UNCHANGED <<status, retries, timer, timers, drain>>

\* The future is done; from now on a submission may pass it.
Return(k) ==
    /\ task[k].at = "leaving"
    /\ task' = Step(k, "done")
    /\ UNCHANGED <<status, retries, futures, timer, timers, drain>>

\* Faulty variant: the callback forgets the job, whoever runs it now.
ClearWhoever(k) ==
    /\ task[k].at = "done"
    /\ task' = [task EXCEPT ![k] = NoEntry]
    /\ futures' = [futures EXCEPT ![Job(k)] = Nothing]
    /\ UNCHANGED <<status, retries, timer, timers, drain>>
\* Its done callback.
Clear(k) ==
    /\ task[k].at = "done"
    /\ task' = [task EXCEPT ![k] = NoEntry]
    /\ futures' = IF futures[Job(k)] = k THEN [futures EXCEPT ![Job(k)] = Nothing]
                                         ELSE futures
    /\ UNCHANGED <<status, retries, timer, timers, drain>>

-----------------------------------------------------------------------------
(* Retry timers *)

Fire(m) ==
    /\ timer[m].at = "ticking"
    /\ timer' = [timer EXCEPT ![m].at = "fired"]
    /\ UNCHANGED <<status, retries, task, futures, timers, drain>>

Pop(m) ==
    /\ timer[m].at = "fired"
    /\ timer' = [timer EXCEPT ![m].at = "popped"]
    /\ timers' = [j \in Jobs |-> IF timers[j] = m THEN Nothing ELSE timers[j]]
    /\ UNCHANGED <<status, retries, task, futures, drain>>

Retry(m) ==
    /\ timer[m].at = "popped"
    /\ timer' = [timer EXCEPT ![m] = NoEntry]
    /\ IF status[timer[m].job] = "queued"
         THEN Submit(timer[m].job, FALSE, task)
         ELSE UNCHANGED <<task, futures>>
    /\ UNCHANGED <<status, retries, timers, drain>>

-----------------------------------------------------------------------------
(* drain_generation_workers *)

\* Each round first empties the table of timers ...
DrainTimers ==
    /\ drain.at \in {"idle", "again"}
    /\ drain' = [at |-> "cancel", waits |-> {},
                 cancelled |-> {timers[j] : j \in Jobs} \ {Nothing}]
    /\ timers' = [j \in Jobs |-> Nothing]
    /\ UNCHANGED <<status, retries, task, futures, timer>>

\* ... then cancels what was in it, which stops those that have not fired ...
DrainCancel ==
    /\ drain.at = "cancel"
    /\ drain' = [drain EXCEPT !.at = "futures"]
    /\ timer' = [m \in Timers |->
                   IF m \in drain.cancelled /\ timer[m].at = "ticking"
                     THEN NoEntry ELSE timer[m]]
    /\ UNCHANGED <<status, retries, task, futures, timers>>

\* ... and reads the futures.  With neither, the drain is over.
DrainFutures ==
    LET found == {futures[j] : j \in Jobs} \ {Nothing}
    IN /\ drain.at = "futures"
       /\ drain' = [at |-> IF found = {} /\ drain.cancelled = {}
                             THEN "drained" ELSE "wait",
                    cancelled |-> {}, waits |-> found]
       /\ UNCHANGED <<status, retries, task, futures, timer, timers>>

\* Faulty variant: the round ends with the first future.
DrainAgainEarly ==
    /\ drain.at = "wait"
    /\ drain.waits = {} \/ \E k \in drain.waits : task[k].at \notin Unfinished
    /\ drain' = [Quiet EXCEPT !.at = "drained"]
    /\ UNCHANGED <<status, retries, task, futures, timer, timers>>
DrainAgain ==
    /\ drain.at = "wait"
    /\ \A k \in drain.waits : task[k].at \notin Unfinished
    /\ drain' = [Quiet EXCEPT !.at = "again"]
    /\ UNCHANGED <<status, retries, task, futures, timer, timers>>

\* It returned, or its deadline passed while it waited.
DrainReturns ==
    /\ drain.at \in {"wait", "drained"}
    /\ drain' = Quiet
    /\ UNCHANGED <<status, retries, task, futures, timer, timers>>

-----------------------------------------------------------------------------
(* A restart, and the recovery of what it interrupted *)

Restart ==
    /\ task # [k \in Tasks |-> NoEntry] \/ timer # [m \in Timers |-> NoEntry]
    /\ task' = [k \in Tasks |-> NoEntry]
    /\ futures' = [j \in Jobs |-> Nothing]
    /\ timer' = [m \in Timers |-> NoEntry]
    /\ timers' = [j \in Jobs |-> Nothing]
    /\ drain' = Quiet
    /\ UNCHANGED <<status, retries>>

\* The sweep requeues a job whose lease nobody renews any more.
Recover(j) ==
    /\ status[j] = "running"
    /\ \A k \in Tasks : task[k].at = "running" => Job(k) # j
    /\ IF retries[j] < MaxRetries
         THEN /\ status' = [status EXCEPT ![j] = "queued"]
              /\ retries' = [retries EXCEPT ![j] = @ + 1]
         ELSE /\ status' = [status EXCEPT ![j] = "ended"]
              /\ UNCHANGED retries
    /\ UNCHANGED <<task, futures, timer, timers, drain>>

-----------------------------------------------------------------------------
Run(k) ==
    \/ Start(k) \/ Claim(k) \/ NoSlot(k) \/ ScheduleRetry(k) \/ Finish(k)
    \/ Raise(k) \/ ResubmitItself(k) \/ Return(k) \/ Clear(k)

Ring(m) == Fire(m) \/ Pop(m) \/ Retry(m)

Drain == DrainTimers \/ DrainCancel \/ DrainFutures \/ DrainAgain \/ DrainReturns

Next ==
    \/ \E j \in Jobs : Create(j) \/ TakenElsewhere(j) \/ Resubmit(j) \/ Recover(j)
    \/ \E k \in Tasks : Run(k)
    \/ \E m \in Timers : Ring(m)
    \/ Drain
    \/ Restart

Spec == Init /\ [][Next]_vars

\* The server's sweep runs every minute, threads and timers run, a job that
\* keeps looking for a slot finds one in the end, and restarts come to an end.
Liveness ==
    /\ \A j \in Jobs : WF_vars(Resubmit(j)) /\ WF_vars(Recover(j))
    /\ \A k \in Tasks : WF_vars(Run(k)) /\ SF_vars(Claim(k))
    /\ \A m \in Timers : WF_vars(Ring(m))
    /\ WF_vars(Drain)
    /\ <>[][~Restart]_vars

FairSpec == Spec /\ Liveness

-----------------------------------------------------------------------------
(* Properties *)

Entry(steps) == [at : steps, job : Jobs \cup {Nothing}]

TypeOK ==
    /\ status \in [Jobs -> {"absent", "queued", "running", "ended"}]
    /\ retries \in [Jobs -> 0..MaxRetries]
    /\ task \in [Tasks -> Entry(TaskSteps)]
    /\ futures \in [Jobs -> Tasks \cup {Nothing}]
    /\ timer \in [Timers -> Entry(TimerSteps)]
    /\ timers \in [Jobs -> Timers \cup {Nothing}]
    /\ drain.at \in {"idle", "cancel", "futures", "wait", "again", "drained"}
    /\ drain.waits \subseteq Tasks /\ drain.cancelled \subseteq Timers

\* Work that can still touch its job is in the table of futures, although a run
\* replaces its own entry and the callbacks of finished runs come late.
WorkIsTracked ==
    \A k \in Tasks :
        task[k].at \in Unfinished \ {"leaving"} => futures[Job(k)] = k

\* When drain_generation_workers says that it drained, no run is left.
DrainedMeansNoRuns ==
    drain.at # "drained" /\ drain'.at = "drained"
        => \A k \in Tasks : task[k].at \in Unfinished => task[k].at = "leaving"
DrainSeesRuns == [][DrainedMeansNoRuns]_vars

\* A queued job is executed in the end, though timers are cancelled, runs
\* raise, and the process restarts as long as it does not do so for ever.
QueuedJobsRun ==
    \A j \in Jobs : status[j] = "queued" ~> status[j] # "queued"

(* Statements of the repository that the code does not meet *)

\* drain_generation_workers leaves nothing behind that will still submit work.
DrainedMeansIdle ==
    [][drain.at # "drained" /\ drain'.at = "drained"
         => \A m \in Timers : Free(timer[m])]_vars

\* A job that found no slot is submitted again by its timer: once the timer has
\* done its work there is a run of the job that has still to look for a slot.
ContendedJobsAreResubmitted ==
    [][\A m \in Timers :
         Retry(m) /\ status[timer[m].job] = "queued"
           => \E k \in Tasks : /\ task'[k].job = timer[m].job
                               /\ task'[k].at \in {"waiting", "started", "contended"}]_vars

=============================================================================
