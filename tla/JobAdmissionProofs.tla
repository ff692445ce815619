------------------------- MODULE JobAdmissionProofs -------------------------
(***************************************************************************)
(* Proofs about JobAdmission for every number of requests, workers, slots  *)
(* and replicas, and every limit.                                          *)
(***************************************************************************)
EXTENDS JobAdmission, FiniteSetTheorems, TLAPS

Call == [at : Steps, req : Requests \cup {None}, tx : BOOLEAN]
Work == [at : Stages, job : Requests \cup {None}]

\* The types the proofs need.
Typed ==
    /\ status \in [Requests -> {"absent", "queued", "ended"} \cup Workers]
    /\ call \in [Callers -> Call]
    /\ lock \in Callers \cup {None}
    /\ work \in [Workers -> Work]

\* A caller that asks has a request; a worker that executes has a job.
Engaged ==
    /\ \A c \in Callers : call[c].at \notin {"idle", "answered"} => Req(c) \in Requests
    /\ \A w \in Workers : work[w].at # "idle" => Job(w) \in Requests

\* A transaction holds the admission lock from its first statement to its
\* last, and no other caller does.
Exclusive ==
    \A c \in Callers :
        /\ call[c].tx <=> lock = c
        /\ call[c].tx => call[c].at \in {"find", "depth", "count", "insert"}
        /\ call[c].at = "insert" => call[c].tx

\* What the transaction has counted is still so when it inserts.
Counted ==
    \A c \in Callers : call[c].at = "insert" =>
        Cardinality(ActiveOf(LearnerOf[Req(c)])) < MaxActive

AdmissionInv ==
    Typed /\ Engaged /\ Exclusive /\ Counted /\ OneActivePerKey /\ LearnersBounded

-----------------------------------------------------------------------------

LEMMA FiniteActive ==
    \A learner : /\ ActiveOf(learner) \subseteq Requests
                 /\ IsFiniteSet(ActiveOf(learner))
                 /\ Cardinality(ActiveOf(learner)) \in Nat
<1>1. ASSUME NEW learner
      PROVE  ActiveOf(learner) \subseteq Requests
  BY DEF ActiveOf, Active, Queued, Running
<1>2. QED
  BY <1>1, AdmissionAssumption, FS_Subset, FS_CardinalityType

LEMMA Callees == Workers \subseteq Callers /\ None \notin Callers
  BY AdmissionAssumption DEF Callers

\* The jobs that count: no step but an insertion adds one.
LEMMA FewerActive ==
    ASSUME Active' \subseteq Active
    PROVE  /\ \A learner : Cardinality(ActiveOf(learner)') \in Nat
           /\ \A learner : Cardinality(ActiveOf(learner)') <= Cardinality(ActiveOf(learner))
           /\ OneActivePerKey => OneActivePerKey'
           /\ LearnersBounded => LearnersBounded'
<1>1. ASSUME NEW learner
      PROVE  ActiveOf(learner)' \subseteq ActiveOf(learner)
  BY DEF ActiveOf
<1>2. ASSUME NEW learner
      PROVE  /\ Cardinality(ActiveOf(learner)') \in Nat
             /\ Cardinality(ActiveOf(learner)') <= Cardinality(ActiveOf(learner))
  BY <1>1, FiniteActive, FS_Subset, FS_CardinalityType
<1>3. OneActivePerKey => OneActivePerKey'
  BY DEF OneActivePerKey
<1>4. LearnersBounded => LearnersBounded'
  BY <1>2, FiniteActive, AdmissionAssumption DEF LearnersBounded
<1>5. QED
  BY <1>2, <1>3, <1>4

Places == {"find", "depth", "count", "insert"}
BusyWorkersHaveJobs == \A w \in Workers : work[w].at # "idle" => Job(w) \in Requests

\* A step of one caller that admits nothing.  Its record may take the lock,
\* keep it or give it back, and reaches the insertion with a count below the
\* limit.
LEMMA CallerMoves ==
    ASSUME AdmissionInv, NEW c \in Callers, NEW k \in Call,
           call' = [call EXCEPT ![c] = k],
           k.at \notin {"idle", "answered"} => k.req \in Requests,
           k.tx <=> lock' = c, k.tx => k.at \in Places, k.at = "insert" => k.tx,
           \/ lock' = lock
           \/ lock = c /\ lock' = None
           \/ lock = None /\ lock' = c,
           k.at = "insert" => Cardinality(ActiveOf(LearnerOf[k.req])) < MaxActive,
           Active' \subseteq Active,
           status' \in [Requests -> {"absent", "queued", "ended"} \cup Workers],
           work' \in [Workers -> Work], BusyWorkersHaveJobs'
    PROVE  AdmissionInv'
<1>1. /\ call' \in [Callers -> Call] /\ call'[c] = k
      /\ \A x \in Callers \ {c} : call'[x] = call[x]
  BY DEF AdmissionInv, Typed
<1>2. Typed'
  BY <1>1 DEF AdmissionInv, Typed
<1>3. Engaged'
  BY <1>1 DEF AdmissionInv, Engaged, Req, BusyWorkersHaveJobs, Job
<1>4. Exclusive'
  <2>1. ASSUME NEW x \in Callers
        PROVE  /\ call'[x].tx <=> lock' = x
               /\ call'[x].tx => call'[x].at \in {"find", "depth", "count", "insert"}
               /\ call'[x].at = "insert" => call'[x].tx
    <3>1. CASE x = c
      BY <1>1, <3>1 DEF Places
    <3>2. CASE x # c
      <4>1. /\ call[x].tx <=> lock = x
            /\ call[x].tx => call[x].at \in {"find", "depth", "count", "insert"}
            /\ call[x].at = "insert" => call[x].tx
        BY DEF AdmissionInv, Exclusive
      <4>2. lock' = x <=> lock = x
        BY <3>2, Callees
      <4>3. QED
        BY <1>1, <3>2, <4>1, <4>2
    <3>3. QED
      BY <3>1, <3>2
  <2>2. QED
    BY <2>1 DEF Exclusive
<1>5. Counted'
  <2>1. ASSUME NEW x \in Callers, call'[x].at = "insert",
               NEW learner, learner = LearnerOf[call'[x].req]
        PROVE  Cardinality(ActiveOf(learner)') < MaxActive
    <3>1. Cardinality(ActiveOf(learner)) < MaxActive
      BY <1>1, <2>1 DEF AdmissionInv, Counted, Req
    <3>2. QED
      BY <3>1, FewerActive, FiniteActive, AdmissionAssumption
  <2>2. QED
    BY <2>1 DEF Counted, Req, ActiveOf
<1>6. OneActivePerKey' /\ LearnersBounded'
  BY FewerActive DEF AdmissionInv
<1>7. QED
  BY <1>2, <1>3, <1>4, <1>5, <1>6 DEF AdmissionInv

\* A step that leaves every caller alone.
LEMMA CallersRest ==
    ASSUME AdmissionInv, call' = call, lock' = lock, Active' \subseteq Active,
           status' \in [Requests -> {"absent", "queued", "ended"} \cup Workers],
           work' \in [Workers -> Work], BusyWorkersHaveJobs'
    PROVE  AdmissionInv'
<1>1. Typed' /\ Engaged' /\ Exclusive'
  BY DEF AdmissionInv, Typed, Engaged, Exclusive, Req, BusyWorkersHaveJobs, Job
<1>2. Counted'
  <2>1. ASSUME NEW x \in Callers, call'[x].at = "insert",
               NEW learner, learner = LearnerOf[call'[x].req]
        PROVE  Cardinality(ActiveOf(learner)') < MaxActive
    <3>1. Cardinality(ActiveOf(learner)) < MaxActive
      BY <2>1 DEF AdmissionInv, Counted, Req
    <3>2. QED
      BY <3>1, FewerActive, FiniteActive, AdmissionAssumption
  <2>2. QED
    BY <2>1 DEF Counted, Req, ActiveOf
<1>3. OneActivePerKey' /\ LearnersBounded'
  BY FewerActive DEF AdmissionInv
<1>4. QED
  BY <1>1, <1>2, <1>3 DEF AdmissionInv

\* A job that changes state without being admitted.
LEMMA JobMoves ==
    ASSUME AdmissionInv, NEW j \in Requests, NEW v \in {"queued", "ended"} \cup Workers,
           status' = [status EXCEPT ![j] = v], j \in Active \/ v = "ended"
    PROVE  /\ status' \in [Requests -> {"absent", "queued", "ended"} \cup Workers]
           /\ Active' \subseteq Active
<1>1. /\ status' \in [Requests -> {"absent", "queued", "ended"} \cup Workers]
      /\ status'[j] = v /\ \A r \in Requests \ {j} : status'[r] = status[r]
  BY DEF AdmissionInv, Typed
<1>2. v = "ended" => v # "queued" /\ v \notin Workers
  BY AdmissionAssumption
<1>3. QED
  BY <1>1, <1>2 DEF Active, Queued, Running

LEMMA JobsRest ==
    ASSUME AdmissionInv, status' = status
    PROVE  /\ status' \in [Requests -> {"absent", "queued", "ended"} \cup Workers]
           /\ Active' \subseteq Active
  BY DEF AdmissionInv, Typed, Active, Queued, Running

LEMMA WorkRest ==
    ASSUME AdmissionInv, work' = work
    PROVE  work' \in [Workers -> Work] /\ BusyWorkersHaveJobs'
  BY DEF AdmissionInv, Typed, Engaged, BusyWorkersHaveJobs, Job

LEMMA WorkMoves ==
    ASSUME AdmissionInv, NEW w \in Workers, NEW r \in Work, work' = [work EXCEPT ![w] = r],
           r.at # "idle" => r.job \in Requests
    PROVE  work' \in [Workers -> Work] /\ BusyWorkersHaveJobs'
  BY DEF AdmissionInv, Typed, Engaged, BusyWorkersHaveJobs, Job

LEMMA WorkerRests ==
    ASSUME AdmissionInv, NEW w \in Workers, Rest(w)
    PROVE  work' \in [Workers -> Work] /\ BusyWorkersHaveJobs'
<1>. DEFINE r == [at |-> "idle", job |-> None]
<1>1. r \in Work /\ r.at = "idle"
  BY DEF Work, Stages
<1>2. work' = [work EXCEPT ![w] = r]
  BY DEF Rest
<1>. HIDE DEF r
<1>3. QED
  BY <1>1, <1>2, WorkMoves

LEMMA WorkerGoes ==
    ASSUME AdmissionInv, NEW w \in Workers, NEW stage \in Stages, work[w].at # "idle",
           Stage(w, stage)
    PROVE  work' \in [Workers -> Work] /\ BusyWorkersHaveJobs'
<1>. DEFINE r == [work[w] EXCEPT !.at = stage]
<1>1. work[w] \in Work /\ work[w].job \in Requests
  BY DEF AdmissionInv, Typed, Engaged, Job
<1>2. r \in Work /\ r.job = work[w].job
  BY <1>1 DEF Work
<1>3. work' = [work EXCEPT ![w] = r]
  BY DEF Stage
<1>. HIDE DEF r
<1>4. QED
  BY <1>1, <1>2, <1>3, WorkMoves

\* What a caller that is asking knows of itself.
LEMMA Asking ==
    ASSUME AdmissionInv, NEW c \in Callers
    PROVE  /\ call[c] \in Call
           /\ call[c].at \notin {"idle", "answered"} => call[c].req \in Requests
           /\ call[c].tx <=> lock = c
           /\ call[c].tx => call[c].at \in Places
           /\ call[c].at = "insert" => call[c].tx
  BY DEF AdmissionInv, Typed, Engaged, Exclusive, Req, Places

LEMMA SilentCall ==
    /\ Silent \in Call /\ Silent.at = "idle" /\ Silent.tx = FALSE
    /\ \A r \in Requests :
         LET k == [Silent EXCEPT !.at = "find", !.req = r]
         IN  k \in Call /\ k.at = "find" /\ k.req = r /\ k.tx = FALSE
  BY DEF Silent, Call, Steps

\* A caller whose answer is known.
LEMMA CallerAnswers ==
    ASSUME AdmissionInv, NEW c \in Callers, Return(c), Active' \subseteq Active,
           status' \in [Requests -> {"absent", "queued", "ended"} \cup Workers],
           work' \in [Workers -> Work], BusyWorkersHaveJobs'
    PROVE  AdmissionInv'
<1>. DEFINE k == [call[c] EXCEPT !.at = "answered", !.tx = FALSE]
<1>1. k \in Call /\ k.at = "answered" /\ k.tx = FALSE
  BY Asking DEF Call, Steps
<1>2. call' = [call EXCEPT ![c] = k] /\ lock' = IF lock = c THEN None ELSE lock
  BY DEF Return, Unlock
<1>. HIDE DEF k
<1>3. lock' # c
  BY <1>2, Callees
<1>4. k.at # "insert" /\ ~k.tx
  BY <1>1
<1>5. QED
  BY <1>1, <1>2, <1>3, <1>4, CallerMoves

\* A caller that makes its next check.
LEMMA CallerProceeds ==
    ASSUME AdmissionInv, NEW c \in Callers, NEW step \in Places \cup {"lock"}, Goto(c, step),
           call[c].at \in Places \cup {"lock"},
           step = "lock" => ~call[c].tx,
           step = "insert" => /\ call[c].tx
                              /\ Cardinality(ActiveOf(LearnerOf[Req(c)])) < MaxActive,
           UNCHANGED <<status, lock, work>>
    PROVE  AdmissionInv'
<1>. DEFINE k == [call[c] EXCEPT !.at = step]
<1>1. /\ k \in Call /\ k.at = step /\ k.tx = call[c].tx /\ k.req = call[c].req
      /\ k.req \in Requests
  BY Asking DEF Call, Steps, Places
<1>2. call' = [call EXCEPT ![c] = k] /\ lock' = lock
  BY DEF Goto
<1>. HIDE DEF k
<1>3. k.tx <=> lock' = c
  BY <1>1, <1>2, Asking
<1>4. (k.tx => k.at \in Places) /\ (k.at = "insert" => k.tx)
  BY <1>1, Asking
<1>5. k.at = "insert" => Cardinality(ActiveOf(LearnerOf[k.req])) < MaxActive
  BY <1>1 DEF Req
<1>6. QED
  BY <1>1, <1>2, <1>3, <1>4, <1>5, JobsRest, WorkRest, CallerMoves

\* The insertion adds one job of its request's learner and key.
LEMMA InsertionAdmits ==
    ASSUME AdmissionInv, NEW c \in Callers, Insert(c), Existing(Req(c)) = {}
    PROVE  AdmissionInv'
<1>. DEFINE r == Req(c)
<1>1. /\ call[c].at = "insert" /\ call[c].tx /\ lock = c
      /\ r \in Requests /\ call[c] \in Call
  BY Asking DEF Insert, Req
<1>2. /\ status \in [Requests -> {"absent", "queued", "ended"} \cup Workers]
      /\ status' = [status EXCEPT ![r] = "queued"]
  BY DEF Insert, AdmissionInv, Typed
<1>3. /\ status' \in [Requests -> {"absent", "queued", "ended"} \cup Workers]
      /\ Active' = Active \cup {r}
  BY <1>1, <1>2 DEF Active, Queued, Running
<1>4. \A q \in Active : KeyOf[q] # KeyOf[r]
  BY DEF Existing
<1>5. OneActivePerKey'
  BY <1>3, <1>4 DEF AdmissionInv, OneActivePerKey
<1>6. LearnersBounded'
  <2>1. Cardinality(ActiveOf(LearnerOf[r])) < MaxActive
    BY <1>1 DEF AdmissionInv, Counted
  <2>2. ASSUME NEW learner, learner # LearnerOf[r]
        PROVE  ActiveOf(learner)' = ActiveOf(learner)
    BY <1>3, <2>2 DEF ActiveOf
  <2>3. ASSUME NEW learner, learner = LearnerOf[r]
        PROVE  ActiveOf(learner)' = ActiveOf(learner) \cup {r}
    BY <1>3, <2>3 DEF ActiveOf
  <2>4. ASSUME NEW learner, learner = LearnerOf[r]
        PROVE  Cardinality(ActiveOf(learner)') <= MaxActive
    <3>1. /\ IsFiniteSet(ActiveOf(learner)) /\ Cardinality(ActiveOf(learner)) \in Nat
          /\ Cardinality(ActiveOf(learner)) < MaxActive /\ MaxActive \in Nat
      BY <2>1, <2>4, FiniteActive, AdmissionAssumption
    <3>2. Cardinality(ActiveOf(learner) \cup {r}) =
            IF r \in ActiveOf(learner) THEN Cardinality(ActiveOf(learner))
            ELSE Cardinality(ActiveOf(learner)) + 1
      BY <3>1, FS_AddElement
    <3>3. QED
      BY <2>3, <2>4, <3>1, <3>2
  <2>5. ASSUME NEW q \in Requests, NEW learner, learner = LearnerOf[q]
        PROVE  Cardinality(ActiveOf(learner)') <= MaxActive
    BY <2>2, <2>4, <2>5 DEF AdmissionInv, LearnersBounded
  <2>6. QED
    BY <2>5 DEF LearnersBounded, ActiveOf
<1>. DEFINE k == [call[c] EXCEPT !.at = "answered", !.tx = FALSE]
<1>7. k \in Call /\ k.at = "answered" /\ k.tx = FALSE
  BY <1>1 DEF Call, Steps
<1>8. call' = [call EXCEPT ![c] = k] /\ lock' = None /\ work' = work
  BY <1>1 DEF Insert, Return, Unlock
<1>. HIDE DEF k
<1>9. /\ call' \in [Callers -> Call] /\ call'[c] = k
      /\ \A x \in Callers \ {c} : call'[x] = call[x]
  BY <1>7, <1>8 DEF AdmissionInv, Typed
<1>10. ASSUME NEW x \in Callers
       PROVE  /\ call'[x].tx <=> lock' = x
              /\ call'[x].at # "insert"
              /\ ~call'[x].tx
              /\ call'[x].at \notin {"idle", "answered"} => call'[x].req \in Requests
  <2>1. CASE x = c
    BY <1>7, <1>8, <1>9, <2>1, Callees
  <2>2. CASE x # c
    <3>1. ~call[x].tx /\ call[x].at # "insert" /\ x # None
      BY <1>1, <2>2, Asking, Callees
    <3>2. QED
      BY <1>8, <1>9, <2>2, <3>1, Asking
  <2>3. QED
    BY <2>1, <2>2
<1>11. Typed' /\ Engaged' /\ Exclusive' /\ Counted'
  <2>1. Typed'
    BY <1>3, <1>8, <1>9 DEF AdmissionInv, Typed
  <2>2. Engaged'
    BY <1>8, <1>10 DEF AdmissionInv, Engaged, Req, Job
  <2>3. Exclusive' /\ Counted'
    BY <1>10 DEF Exclusive, Counted
  <2>4. QED
    BY <2>1, <2>2, <2>3
<1>12. QED
  BY <1>5, <1>6, <1>11 DEF AdmissionInv

-----------------------------------------------------------------------------
(* Every step keeps the invariant *)

LEMMA AdmissionInit == Init => AdmissionInv
<1>1. SUFFICES ASSUME Init
               PROVE  AdmissionInv
  OBVIOUS
<1>. \A c \in Callers : call[c] = Silent
  BY <1>1 DEF Init
<1>2. Typed
  <2>1. [at |-> "idle", job |-> None] \in Work
    BY DEF Work, Stages
  <2>2. QED
    BY <1>1, <2>1, SilentCall DEF Init, Typed
<1>3. Engaged /\ Counted
  BY <1>1, SilentCall DEF Init, Engaged, Counted
<1>4. Exclusive
  BY <1>1, SilentCall, Callees DEF Init, Exclusive
<1>5. Active = {}
  BY <1>1, AdmissionAssumption DEF Init, Active, Queued, Running
<1>6. OneActivePerKey /\ LearnersBounded
  <2>1. \A learner : Cardinality(ActiveOf(learner)) = 0
    BY <1>5, FS_EmptySet DEF ActiveOf
  <2>2. QED
    BY <1>5, <2>1, AdmissionAssumption DEF OneActivePerKey, LearnersBounded
<1>7. QED
  BY <1>2, <1>3, <1>4, <1>6 DEF AdmissionInv

LEMMA RequestSteps ==
    ASSUME AdmissionInv, NEW c \in Callers, Ask(c) \/ Step(c) \/ Abort(c)
    PROVE  AdmissionInv'
<1>1. CASE Ask(c)
  <2>. DEFINE k == [Silent EXCEPT !.at = "find", !.req = c]
  <2>1. /\ k \in Call /\ k.at = "find" /\ k.req = c /\ k.tx = FALSE /\ c \in Requests
    BY <1>1, SilentCall DEF Ask, Requests
  <2>2. /\ call' = [call EXCEPT ![c] = k] /\ lock' = lock /\ status' = status /\ work' = work
        /\ ~call[c].tx
    BY <1>1, Asking DEF Ask, Places
  <2>. HIDE DEF k
  <2>3. lock' # c
    BY <2>2, Asking
  <2>4. QED
    BY <2>1, <2>2, <2>3, JobsRest, WorkRest, CallerMoves
<1>2. CASE FindActive(c)
  BY <1>2, CallerAnswers, CallerProceeds, JobsRest, WorkRest
     DEF FindActive, Answer, Proceed, Places
<1>3. CASE CheckDepth(c)
  BY <1>3, CallerAnswers, CallerProceeds, JobsRest, WorkRest
     DEF CheckDepth, Answer, Proceed, Places
<1>4. CASE CheckLearner(c)
  <2>1. CASE LearnerFull(Req(c))
    BY <1>4, <2>1, CallerAnswers, JobsRest, WorkRest DEF CheckLearner, Answer
  <2>2. CASE ~LearnerFull(Req(c))
    <3>1. Cardinality(ActiveOf(LearnerOf[Req(c)])) < MaxActive
      BY <2>2, FiniteActive, AdmissionAssumption DEF LearnerFull
    <3>2. QED
      BY <1>4, <2>2, <3>1, CallerProceeds DEF CheckLearner, Proceed, Places
  <2>3. QED
    BY <2>1, <2>2
<1>5. CASE Lock(c)
  <2>. DEFINE k == [call[c] EXCEPT !.at = "find", !.tx = TRUE]
  <2>1. /\ k \in Call /\ k.at = "find" /\ k.req = call[c].req /\ k.tx = TRUE
        /\ k.req \in Requests
    BY <1>5, Asking DEF Lock, Call, Steps
  <2>2. /\ call' = [call EXCEPT ![c] = k] /\ lock = None /\ lock' = c
        /\ status' = status /\ work' = work
    BY <1>5 DEF Lock, MayLock
  <2>. HIDE DEF k
  <2>3. k.at \in Places /\ k.at # "insert" /\ k.tx
    BY <2>1 DEF Places
  <2>4. QED
    BY <2>1, <2>2, <2>3, JobsRest, WorkRest, CallerMoves
<1>6. CASE Insert(c)
  <2>1. CASE Existing(Req(c)) = {}
    BY <1>6, <2>1, InsertionAdmits
  <2>2. CASE Existing(Req(c)) # {}
    BY <1>6, <2>2, CallerAnswers, JobsRest, WorkRest DEF Insert
  <2>3. QED
    BY <2>1, <2>2
<1>7. CASE Abort(c)
  BY <1>7, CallerAnswers, JobsRest, WorkRest DEF Abort, Answer
<1>8. QED
  BY <1>1, <1>2, <1>3, <1>4, <1>5, <1>6, <1>7 DEF Step

\* A worker asks only while it follows its job up.
Quiet == \A w \in Workers : work[w].at # "followup" => call[w].at = "idle"

LEMMA QuietWorker ==
    ASSUME AdmissionInv, Quiet, NEW w \in Workers, work[w].at # "followup"
    PROVE  call[w].at = "idle" /\ ~call[w].tx /\ lock # w /\ w \in Callers
  BY Asking, Callees DEF Quiet, Places

LEMMA QuietKept ==
    ASSUME AdmissionInv, Quiet, Next
    PROVE  Quiet'
<1>. /\ call \in [Callers -> Call] /\ work \in [Workers -> Work]
     /\ Workers \subseteq Callers
  BY Callees DEF AdmissionInv, Typed
<1>. /\ Silent.at = "idle"
     /\ \A x \in Workers : work[x] \in Work
  BY SilentCall
\* One caller moves, no client's or a worker's that follows up.
<1>1. ASSUME NEW c \in Callers, NEW k, call' = [call EXCEPT ![c] = k], work' = work,
             c \in Clients \/ call[c].at # "idle"
      PROVE  Quiet'
  BY <1>1, AdmissionAssumption DEF Quiet
\* One worker goes on, and stops asking unless it follows up.
<1>2. ASSUME NEW w \in Workers, NEW r, work' = [work EXCEPT ![w] = r],
             \/ r.at = "followup" /\ \E k : call' = [call EXCEPT ![w] = k]
             \/ call' = [call EXCEPT ![w] = Silent]
             \/ call' = call /\ work[w].at # "followup"
      PROVE  Quiet'
  BY <1>2 DEF Quiet
<1>3. ASSUME call' = call, work' = work
      PROVE  Quiet'
  BY <1>3 DEF Quiet
<1>4. ASSUME NEW c \in Callers, Ask(c) \/ Step(c) \/ Abort(c)
      PROVE  Quiet'
  <2>1. work' = work
    BY <1>4 DEF Ask, Step, Abort, FindActive, CheckDepth, CheckLearner, Lock, Insert, Answer,
       Proceed
  <2>2. c \in Clients \/ call[c].at # "idle"
    BY <1>4 DEF Ask, Step, Abort, FindActive, CheckDepth, CheckLearner, Lock, Insert
  <2>3. \E k : call' = [call EXCEPT ![c] = k]
    BY <1>4 DEF Ask, Step, Abort, FindActive, CheckDepth, CheckLearner, Lock, Insert, Answer,
       Proceed, Return, Goto
  <2>4. QED
    BY <1>1, <2>1, <2>2, <2>3
<1>5. ASSUME NEW w \in Workers, Execute(w) \/ Crash(w)
      PROVE  Quiet'
  <2>1. CASE FollowUp(w)
    <3>. DEFINE r == [work[w] EXCEPT !.at = "followup"]
    <3>1. r.at = "followup"
      BY DEF Work
    <3>2. /\ work' = [work EXCEPT ![w] = r]
          /\ \E k : call' = [call EXCEPT ![w] = k]
      BY <2>1 DEF FollowUp, Stage
    <3>. HIDE DEF r
    <3>3. QED
      BY <1>2, <3>1, <3>2
  <2>2. CASE FollowedUp(w)
    BY <1>2, <2>2 DEF FollowedUp, Stage
  <2>3. CASE Claim(w) \/ NothingToFollow(w) \/ Close(w) \/ Raise(w)
    <3>1. call' = call /\ work[w].at # "followup" /\ \E r : work' = [work EXCEPT ![w] = r]
      BY <2>3 DEF Claim, NothingToFollow, Close, Raise, Stage, Rest
    <3>2. QED
      BY <1>2, <3>1
  <2>4. CASE Crash(w)
    BY <1>2, <2>4 DEF Crash, Rest
  <2>5. QED
    BY <1>5, <2>1, <2>2, <2>3, <2>4 DEF Execute
<1>6. ASSUME NEW w \in Workers, NEW j \in Requests,
             ClaimNext(w, j) \/ \E s \in Slots : TakeSlot(w, j, s)
      PROVE  Quiet'
  BY <1>2, <1>6 DEF ClaimNext, TakeSlot
<1>7. ASSUME NEW j \in Requests, Recover(j) \/ Expire(j)
      PROVE  Quiet'
  BY <1>3, <1>7 DEF Recover, Expire
<1>8. QED
  BY <1>4, <1>5, <1>6, <1>7 DEF Next

\* A retry or a recovery of an active job admits nothing new.
LEMMA RetriesMove ==
    ASSUME AdmissionInv, NEW j \in Active, AgainOrEnd(j)
    PROVE  /\ status' \in [Requests -> {"absent", "queued", "ended"} \cup Workers]
           /\ Active' \subseteq Active
<1>1. j \in Requests
  BY DEF Active, Queued, Running
<1>2. QED
  BY <1>1, JobMoves DEF AgainOrEnd

LEMMA WorkerSteps ==
    ASSUME AdmissionInv, Quiet, NEW w \in Workers, Execute(w) \/ Crash(w)
    PROVE  AdmissionInv'
<1>. /\ work[w] \in Work /\ w \in Callers
     /\ work[w].at # "idle" => Job(w) \in Requests
  BY Callees DEF AdmissionInv, Typed, Engaged
<1>. /\ {"claim", "model", "followup", "closing"} \subseteq Stages
     /\ \A j \in Requests : status[j] = "queued" \/ status[j] \in Workers => j \in Active
  BY DEF Stages, Active, Queued, Running
<1>1. CASE Claim(w)
  <2>1. CASE status[Job(w)] = "queued"
    BY <1>1, <2>1, JobMoves, WorkerGoes, CallersRest DEF Claim
  <2>2. CASE status[Job(w)] # "queued"
    BY <1>1, <2>2, JobsRest, WorkerRests, CallersRest DEF Claim
  <2>3. QED
    BY <2>1, <2>2
<1>2. CASE FollowUp(w)
  <2>. DEFINE k == [Silent EXCEPT !.at = "find", !.req = BundleOf[Job(w)]]
  <2>1. BundleOf[Job(w)] \in Requests
    BY <1>2, AdmissionAssumption DEF FollowUp, Requests
  <2>2. /\ k \in Call /\ k.at = "find" /\ k.req \in Requests /\ k.tx = FALSE
    BY <2>1, SilentCall
  <2>3. call' = [call EXCEPT ![w] = k] /\ lock' = lock /\ status' = status
    BY <1>2 DEF FollowUp
  <2>. HIDE DEF k
  <2>4. lock' # w
    BY <1>2, <2>3, QuietWorker DEF FollowUp
  <2>5. work' \in [Workers -> Work] /\ BusyWorkersHaveJobs'
    BY <1>2, WorkerGoes DEF FollowUp
  <2>6. QED
    BY <2>2, <2>3, <2>4, <2>5, JobsRest, CallerMoves
<1>3. CASE FollowedUp(w)
  <2>1. ~call[w].tx /\ lock # w
    BY <1>3, Asking DEF FollowedUp, Places
  <2>2. work' \in [Workers -> Work] /\ BusyWorkersHaveJobs'
    BY <1>3, WorkerGoes DEF FollowedUp
  <2>3. call' = [call EXCEPT ![w] = Silent] /\ lock' = lock /\ status' = status
    BY <1>3 DEF FollowedUp
  <2>4. QED
    BY <2>1, <2>2, <2>3, SilentCall, JobsRest, CallerMoves
<1>4. CASE NothingToFollow(w)
  BY <1>4, JobsRest, WorkerGoes, CallersRest DEF NothingToFollow
<1>5. CASE Close(w)
  <2>1. /\ status' \in [Requests -> {"absent", "queued", "ended"} \cup Workers]
        /\ Active' \subseteq Active
    BY <1>5, JobsRest, JobMoves DEF Close
  <2>2. QED
    BY <1>5, <2>1, WorkerRests, CallersRest DEF Close
<1>6. CASE Raise(w)
  <2>1. Job(w) \in Active
    BY <1>6 DEF Raise, Owns
  <2>2. QED
    BY <1>6, <2>1, RetriesMove, WorkerRests, CallersRest DEF Raise
<1>7. CASE Crash(w)
  <2>1. /\ call' = [call EXCEPT ![w] = Silent] /\ status' = status
        /\ lock' = IF lock = w THEN None ELSE lock
    BY <1>7 DEF Crash, Unlock
  <2>2. lock' # w
    BY <2>1, Callees
  <2>3. work' \in [Workers -> Work] /\ BusyWorkersHaveJobs'
    BY <1>7, WorkerRests DEF Crash
  <2>4. QED
    BY <2>1, <2>2, <2>3, SilentCall, JobsRest, CallerMoves
<1>8. QED
  BY <1>1, <1>2, <1>3, <1>4, <1>5, <1>6, <1>7 DEF Execute

LEMMA OtherSteps ==
    ASSUME AdmissionInv, NEW j \in Requests,
           \/ \E w \in Workers : ClaimNext(w, j) \/ \E s \in Slots : TakeSlot(w, j, s)
           \/ Recover(j) \/ Expire(j)
    PROVE  AdmissionInv'
<1>. status[j] = "queued" \/ status[j] \in Workers <=> j \in Active
  BY DEF Active, Queued, Running
<1>1. ASSUME NEW w \in Workers, NEW stage \in Stages,
             work' = [work EXCEPT ![w] = [at |-> stage, job |-> j]]
      PROVE  work' \in [Workers -> Work] /\ BusyWorkersHaveJobs'
  <2>. DEFINE r == [at |-> stage, job |-> j]
  <2>1. r \in Work /\ r.job = j
    BY DEF Work
  <2>2. work' = [work EXCEPT ![w] = r]
    BY <1>1
  <2>. HIDE DEF r
  <2>3. QED
    BY <2>1, <2>2, WorkMoves
<1>2. "claim" \in Stages /\ "model" \in Stages
  BY DEF Stages
<1>3. ASSUME NEW w \in Workers, ClaimNext(w, j)
      PROVE  AdmissionInv'
  <2>1. /\ status' \in [Requests -> {"absent", "queued", "ended"} \cup Workers]
        /\ Active' \subseteq Active
    BY <1>3, JobMoves DEF ClaimNext
  <2>2. QED
    BY <1>1, <1>2, <1>3, <2>1, CallersRest DEF ClaimNext
<1>4. ASSUME NEW w \in Workers, NEW s \in Slots, TakeSlot(w, j, s)
      PROVE  AdmissionInv'
  BY <1>1, <1>2, <1>4, JobsRest, CallersRest DEF TakeSlot
<1>5. CASE Recover(j)
  BY <1>5, RetriesMove, WorkRest, CallersRest DEF Recover, Active
<1>6. CASE Expire(j)
  BY <1>6, JobMoves, WorkRest, CallersRest DEF Expire
<1>7. QED
  BY <1>3, <1>4, <1>5, <1>6

LEMMA AdmissionNext ==
    ASSUME AdmissionInv, Quiet, [Next]_vars
    PROVE  AdmissionInv' /\ Quiet'
<1>1. CASE Next
  BY <1>1, QuietKept, RequestSteps, WorkerSteps, OtherSteps DEF Next
<1>2. CASE UNCHANGED vars
  <2>1. /\ status' = status /\ call' = call /\ lock' = lock /\ work' = work
    BY <1>2 DEF vars
  <2>2. AdmissionInv'
    BY <2>1, JobsRest, WorkRest, CallersRest
  <2>3. Quiet'
    BY <2>1 DEF Quiet
  <2>4. QED
    BY <2>2, <2>3
<1>3. QED
  BY <1>1, <1>2

-----------------------------------------------------------------------------
(* The theorems *)

\* The invariant the other theorems rest on: the admission lock and the open
\* transaction are one caller's, and what it counted is still so when it
\* inserts.
THEOREM AdmissionInductive == Spec => [](AdmissionInv /\ Quiet)
<1>1. Init => AdmissionInv /\ Quiet
  <2>1. Init => Quiet
    BY SilentCall, Callees, ZenonT(40) DEF Init, Quiet
  <2>2. QED
    BY <2>1, AdmissionInit
<1>2. QED
  BY <1>1, AdmissionNext, PTL DEF Spec

\* Requests for the same work share one job, across any number of replicas.
THEOREM JobsAreShared == Spec => []OneActivePerKey
<1>1. AdmissionInv => OneActivePerKey
  BY DEF AdmissionInv
<1>2. QED
  BY <1>1, AdmissionInductive, PTL

\* The limit of a learner holds although the count and the insertion are
\* separate statements and retries and follow-ups run beside them.
THEOREM LearnersKeepTheirLimit == Spec => []LearnersBounded
<1>1. AdmissionInv => LearnersBounded
  BY DEF AdmissionInv
<1>2. QED
  BY <1>1, AdmissionInductive, PTL

\* Whoever holds advisory key zero, as lock or as slot, can go on.
THEOREM NobodyWaitsInACircle == Spec => []NoCircularWait
<1>1. ASSUME AdmissionInv
      PROVE  NoCircularWait
  <2>1. ASSUME NEW c \in Callers, lock = c
        PROVE  call[c].at # "lock"
    BY <1>1, <2>1, Asking DEF Places
  <2>2. lock # None => lock \in Callers
    BY <1>1 DEF AdmissionInv, Typed
  <2>3. lock = None => MayLock(slot[0])
    BY DEF MayLock
  <2>4. QED
    BY <2>1, <2>2, <2>3 DEF NoCircularWait, MayLock
<1>2. QED
  BY <1>1, AdmissionInductive, PTL
=============================================================================
