-------------------------- MODULE ResourceJobsProofs --------------------------
(***************************************************************************)
(* Proofs about ResourceJobs for every number of jobs, cards, threads and  *)
(* owners, and every retry limit.  Nothing is assumed of OwnerOf, so they  *)
(* hold for worker processes whose slots share one owner id, too, unless a *)
(* theorem says otherwise.                                                 *)
(*                                                                         *)
(* In the first half, what a run does to rows and cards: types, ends,      *)
(* publications, completeness.  In the second, what ResourceJobs tells the *)
(* clients of a job: its event log, the progress they poll, and the        *)
(* promise of JobLifecycle.                                                *)
(***************************************************************************)
EXTENDS ResourceJobs, TLAPS, FiniteSetTheorems

-----------------------------------------------------------------------------
(* Type correctness *)

LEMMA PointSets ==
    /\ Fenced \subseteq Points /\ Body \subseteq Points /\ Handler \subseteq Points
    /\ "idle" \in Points /\ "done" \in Points
    /\ "resolve" \in Points /\ "publish" \in Points
  BY DEF Points, Body, Fenced, Handler

LEMMA RowClose ==
    ASSUME NEW row \in Row, NEW outcome \in Terminal
    PROVE  Close(row, outcome) \in Row
<1>1. outcome \in Statuses /\ outcome \in Pipeline /\ "none" \in Leases
  BY DEF Statuses, Pipeline, Terminal, Leases
<1>2. QED
  BY <1>1 DEF Row, Close

LEMMA RowClaimed ==
    ASSUME NEW row \in Row, NEW t \in Threads
    PROVE  Claimed(row, t) \in Row
<1>1. "running" \in Statuses /\ "retrieving" \in Pipeline /\ "live" \in Leases
  BY DEF Statuses, Pipeline, Terminal, Leases
<1>2. QED
  BY <1>1, JobsAssumption DEF Row, Claimed

LEMMA RowRecovered ==
    ASSUME NEW row \in Row
    PROVE  Recovered(row) \in Row
<1>1. /\ {"queued", "failed"} \subseteq Statuses
      /\ {"queued", "failed"} \subseteq Pipeline
      /\ "none" \in Leases
  BY DEF Statuses, Pipeline, Terminal, Claimable, Leases
<1>2. CASE row.retries < MaxRetries
  <2>1. Recovered(row) = [row EXCEPT !.status = "queued", !.pipeline = "queued",
                                     !.retries = row.retries + 1,
                                     !.owner = None, !.lease = "none"]
    BY <1>2 DEF Recovered
  <2>2. row.retries + 1 \in Nat
    BY DEF Row
  <2>3. QED
    BY <1>1, <2>1, <2>2 DEF Row
<1>3. CASE ~(row.retries < MaxRetries)
  <2>1. Recovered(row) = [row EXCEPT !.status = "failed", !.pipeline = "failed",
                                     !.retries = row.retries,
                                     !.owner = None, !.lease = "none"]
    BY <1>3 DEF Recovered
  <2>2. QED
    BY <1>1, <2>1 DEF Row
<1>4. QED
  BY <1>2, <1>3

LEMMA EventTypes ==
    /\ \A c \in Cards : About("card_ready", c) \in Event
    /\ \A type \in Terminal : Plain(type) \in Event
  BY DEF About, Plain, Event, Marks

LEMMA IdleType == Idle \in Thread /\ Engaged(Idle)
  BY PointSets, JobsAssumption DEF Idle, Thread, Engaged, Event, Marks

\* One thread moves to a well-formed record and every table keeps its type.
LEMMA TypeThread ==
    ASSUME TypeOK, NEW t \in Threads, NEW th \in Thread, Engaged(th),
           run' = [run EXCEPT ![t] = th],
           job' \in [Jobs -> Row],
           card' \in [Jobs -> [Cards -> Contents \cup {None}]],
           log' \in [Jobs -> Seq(Event)],
           session' \in [Jobs -> [Cards -> Contents \cup {None}]],
           notices' \subseteq Jobs
    PROVE  TypeOK'
  BY DEF TypeOK

\* As TypeThread, for a step that leaves every table alone.
LEMMA TypeLocal ==
    ASSUME TypeOK, NEW t \in Threads, NEW th \in Thread, Engaged(th),
           run' = [run EXCEPT ![t] = th],
           UNCHANGED <<job, card, log, session, notices>>
    PROVE  TypeOK'
  BY TypeThread DEF TypeOK

\* A step that rewrites one row and nothing else.
LEMMA TypeRow ==
    ASSUME TypeOK, NEW j \in Jobs, NEW row \in Row,
           job' = [job EXCEPT ![j] = row],
           UNCHANGED <<card, log, session, run, notices>>
    PROVE  TypeOK'
  BY DEF TypeOK

\* A thread moves and rewrites one row.
LEMMA TypeRowThread ==
    ASSUME TypeOK, NEW t \in Threads, NEW th \in Thread, Engaged(th),
           run' = [run EXCEPT ![t] = th],
           NEW j \in Jobs, NEW row \in Row,
           job' = [job EXCEPT ![j] = row],
           UNCHANGED <<card, log, session, notices>>
    PROVE  TypeOK'
<1>1. job' \in [Jobs -> Row]
  BY DEF TypeOK
<1>2. QED
  BY <1>1, TypeThread DEF TypeOK

LEMMA TypePublishRow ==
    ASSUME TypeOK, NEW j \in Jobs, NEW c \in Cards, NEW v \in Contents,
           PublishRow(j, c, v)
    PROVE  /\ job' \in [Jobs -> Row]
           /\ card' \in [Jobs -> [Cards -> Contents \cup {None}]]
           /\ log' \in [Jobs -> Seq(Event)]
<1>. job[j] \in Row
  BY DEF TypeOK
<1>1. [job[j] EXCEPT !.done = @ \cup {c}] \in Row
  BY DEF Row
<1>2. job' \in [Jobs -> Row]
  BY <1>1 DEF TypeOK, PublishRow
<1>3. CASE card[j][c] = None
  <2>2. log' = [log EXCEPT ![j] = Append(log[j], About("card_ready", c))]
    BY <1>3 DEF PublishRow
  <2>3. Append(log[j], About("card_ready", c)) \in Seq(Event)
    BY EventTypes DEF TypeOK
  <2>4. card' = [card EXCEPT ![j][c] = v]
    BY <1>3 DEF PublishRow
  <2>5. QED
    BY <1>2, <2>2, <2>3, <2>4 DEF TypeOK
<1>4. CASE card[j][c] # None
  BY <1>2, <1>4 DEF TypeOK, PublishRow
<1>5. QED
  BY <1>3, <1>4

LEMMA TypeWorkerStep ==
    ASSUME TypeOK, NEW t \in Threads, Worker(t)
    PROVE  TypeOK'
<1> DEFINE th == run[t]
           r == job[J(t)]
<1>0. /\ th \in Thread /\ Engaged(th)
      /\ th.pc # "idle" => J(t) \in Jobs /\ r \in Row
  BY DEF TypeOK, Engaged, J
<1> USE <1>0
<1>1. ASSUME NEW j \in Jobs, Claim(t, j)
      PROVE  TypeOK'
  <2> DEFINE th2 == [Idle EXCEPT !.pc = "retrieve", !.job = j]
  <2>1. th2 \in Thread /\ Engaged(th2)
    BY IdleType, PointSets DEF Idle, Thread, Engaged, Fenced
  <2>2. Claimed(job[j], t) \in Row
    BY RowClaimed DEF TypeOK
  <2>3. QED
    BY <1>1, <2>1, <2>2, TypeRowThread DEF Claim
<1>2. CASE AppendOwed(t)
  <2> DEFINE th2 == IF th.pc = "done" /\ Tail(th.owed) = <<>>
                      THEN Idle ELSE [th EXCEPT !.owed = Tail(th.owed)]
  <2>1. /\ th.owed # <<>> /\ th.owed \in Seq(Event)
        /\ th.pc # "idle" /\ J(t) \in Jobs
    BY <1>2 DEF AppendOwed, Thread, Engaged, J
  <2>2. Head(th.owed) \in Event /\ Tail(th.owed) \in Seq(Event)
    BY <2>1
  <2>3. log' \in [Jobs -> Seq(Event)]
    BY <1>2, <2>1, <2>2 DEF AppendOwed, TypeOK
  <2>4. [th EXCEPT !.owed = Tail(th.owed)] \in Thread
        /\ Engaged([th EXCEPT !.owed = Tail(th.owed)])
    BY <2>1, <2>2 DEF Thread, Engaged, J
  <2>5. th2 \in Thread /\ Engaged(th2)
    BY <2>4, IdleType
  <2>6. run' = [run EXCEPT ![t] = th2]
    BY <1>2 DEF AppendOwed, Stop, TypeOK
  <2>7. QED
    BY <1>2, <2>3, <2>5, <2>6, TypeThread DEF AppendOwed, TypeOK
<1>3. CASE LoseLease(t)
  BY <1>3, IdleType, TypeLocal DEF LoseLease, Stop
<1>4. CASE Retrieve(t)
  <2> DEFINE th2 == [th EXCEPT !.pc = "resolve", !.todo = Requested[J(t)]]
             row == [r EXCEPT !.pipeline = "retrieving"]
  <2>1. th.pc = "retrieve" /\ J(t) \in Jobs
    BY <1>4 DEF Retrieve, At
  <2>2. th2 \in Thread /\ Engaged(th2)
    BY <2>1, PointSets, JobsAssumption DEF Thread, Engaged
  <2>3. row \in Row
    BY <2>1 DEF Row, Pipeline
  <2>4. /\ run' = [run EXCEPT ![t] = th2]
        /\ job' = [job EXCEPT ![J(t)] = row]
    BY <1>4, <2>1 DEF Retrieve, TypeOK
  <2>5. QED
    BY <1>4, <2>1, <2>2, <2>3, <2>4, TypeRowThread DEF Retrieve
<1>5. CASE KnowledgeChanged(t)
  <2> DEFINE th2 == [th EXCEPT !.pc = "done", !.owed = <<Plain("failed")>>]
  <2>1. th.pc = "resolve" /\ J(t) \in Jobs
    BY <1>5 DEF KnowledgeChanged, At
  <2>2. <<Plain("failed")>> \in Seq(Event)
    BY EventTypes DEF Terminal
  <2>3. th2 \in Thread /\ Engaged(th2)
    BY <2>1, <2>2, PointSets DEF Thread, Engaged, J
  <2>4. Close(r, "failed") \in Row
    BY <2>1, RowClose DEF Terminal
  <2>5. run' = [run EXCEPT ![t] = th2]
    BY <1>5, <2>1 DEF KnowledgeChanged, TypeOK
  <2>6. QED
    BY <1>5, <2>1, <2>3, <2>4, <2>5, TypeRowThread DEF KnowledgeChanged
<1>6. ASSUME NEW c \in Cards, LeaveForGeneration(t, c)
      PROVE  TypeOK'
  <2> DEFINE th2 == [th EXCEPT !.todo = @ \ {c}, !.work = @ \cup {c}]
  <2>1. th2 \in Thread /\ Engaged(th2)
    BY DEF Thread, Engaged
  <2>2. run' = [run EXCEPT ![t] = th2]
    BY <1>6 DEF LeaveForGeneration, TypeOK
  <2>3. QED
    BY <1>6, <2>1, <2>2, TypeLocal DEF LeaveForGeneration
<1>7. ASSUME NEW c \in Cards, ReuseCard(t, c)
      PROVE  TypeOK'
  <2> DEFINE th2 == [th EXCEPT !.todo = @ \ {c}]
  <2>1. J(t) \in Jobs /\ session[J(t)][c] \in Contents
    BY <1>7 DEF ReuseCard, At, TypeOK
  <2>2. PublishRow(J(t), c, session[J(t)][c])
    BY <1>7 DEF ReuseCard
  <2>3. th2 \in Thread /\ Engaged(th2)
    BY DEF Thread, Engaged
  <2>4. run' = [run EXCEPT ![t] = th2]
    BY <1>7 DEF ReuseCard, TypeOK
  <2>5. QED
    BY <1>7, <2>1, <2>2, <2>3, <2>4, TypePublishRow, TypeThread DEF ReuseCard, TypeOK
<1>8. ASSUME NEW c \in Cards, NEW v \in Contents, PublishCard(t, c, v)
      PROVE  TypeOK'
  <2> DEFINE th2 == [th EXCEPT !.pc = "project", !.back = th.pc,
                               !.todo = @ \ {c}, !.card = c, !.content = v]
  <2>1. th.pc \in {"resolve", "publish"} /\ J(t) \in Jobs
    BY <1>8 DEF PublishCard, InLoop, At
  <2>2. PublishRow(J(t), c, v)
    BY <1>8 DEF PublishCard
  <2>3. th2 \in Thread /\ Engaged(th2)
    BY <2>1 DEF Thread, Engaged, Points, Body, J
  <2>4. run' = [run EXCEPT ![t] = th2]
    BY <1>8 DEF PublishCard, TypeOK
  <2>5. QED
    BY <1>8, <2>1, <2>2, <2>3, <2>4, TypePublishRow, TypeThread DEF PublishCard, TypeOK
<1>9. CASE Project(t)
  <2> DEFINE th2 == [th EXCEPT !.pc = th.back, !.card = None, !.content = None]
  <2>1. /\ J(t) \in Jobs /\ th.card \in Cards /\ th.content \in Contents
        /\ th.back \in {"resolve", "publish"}
    BY <1>9 DEF Project, At, Engaged, Thread, J
  <2>2. th2 \in Thread /\ Engaged(th2)
    BY <2>1, PointSets DEF Thread, Engaged, J
  <2>3. run' = [run EXCEPT ![t] = th2]
    BY <1>9 DEF Project, TypeOK
  <2>4. session' \in [Jobs -> [Cards -> Contents \cup {None}]]
    <3>1. CASE session' = session
      BY <3>1 DEF TypeOK
    <3>2. CASE session' = [session EXCEPT ![J(t)][th.card] = th.content]
      BY <2>1, <3>2 DEF TypeOK
    <3>3. QED
      BY <1>9, <3>1, <3>2 DEF Project
  <2>5. QED
    BY <1>9, <2>2, <2>3, <2>4, TypeThread DEF Project, TypeOK
<1>10. ASSUME NEW c \in Cards, RejectCard(t, c)
      PROVE  TypeOK'
  <2> DEFINE th2 == [th EXCEPT !.pc = "failcard", !.back = th.pc,
                               !.todo = @ \ {c}, !.card = c,
                               !.seenDone = r.done, !.seenFailed = r.failed]
  <2>1. th.pc \in {"resolve", "publish"} /\ J(t) \in Jobs
    BY <1>10 DEF RejectCard, InLoop, At
  <2>2. th2 \in Thread /\ Engaged(th2)
    BY <2>1, PointSets DEF Thread, Engaged, J, Row, Fenced
  <2>3. run' = [run EXCEPT ![t] = th2]
    BY <1>10 DEF RejectCard, TypeOK
  <2>4. QED
    BY <1>10, <2>2, <2>3, TypeLocal DEF RejectCard
<1>11. CASE FailCard(t)
  <2> DEFINE th2 == [th EXCEPT !.pc = th.back, !.card = None,
                               !.seenDone = {}, !.seenFailed = {}]
             row == [r EXCEPT !.done = th.seenDone, !.failed = th.seenFailed \cup {th.card}]
  <2>1. th.pc # "idle" /\ J(t) \in Jobs
    BY <1>11 DEF FailCard, At
  <2>a. th.card \in Cards /\ th.back \in {"resolve", "publish"}
    BY <1>11 DEF FailCard, At, Engaged, Thread
  <2>2. th2 \in Thread /\ Engaged(th2)
    BY <1>11, <2>1, <2>a, PointSets DEF FailCard, Thread, Engaged, At, J
  <2>3. row \in Row
    BY <2>1, <2>a DEF Row, Thread
  <2>4. run' = [run EXCEPT ![t] = th2]
    BY <1>11 DEF FailCard, Goto, TypeOK
  <2>5. job' = [job EXCEPT ![J(t)] = row]
    BY <1>11, <2>1 DEF FailCard, TypeOK
  <2>6. QED
    BY <1>11, <2>1, <2>2, <2>3, <2>4, <2>5, TypeRowThread DEF FailCard
<1>12. CASE LoopDone(t)
  <2> DEFINE th2 == [th EXCEPT !.pc = IF th.work = {} THEN "close" ELSE "enter"]
  <2>1. th.pc # "idle" /\ J(t) \in Jobs
    BY <1>12 DEF LoopDone, At, InLoop
  <2>2. th2 \in Thread /\ Engaged(th2)
    BY <1>12, <2>1, PointSets, SMTT(30) DEF LoopDone, Thread, Engaged, Row, J, Points, Body, Fenced
  <2>3. run' = [run EXCEPT ![t] = th2]
    BY <1>12 DEF LoopDone, Goto, TypeOK
  <2>4. QED
    BY <1>12, <2>2, <2>3, TypeLocal DEF LoopDone
<1>13. CASE EnterPhase(t)
  <2> DEFINE th2 == [th EXCEPT !.pc = "model"]
             row == [r EXCEPT !.pipeline = IF InConcept(t) THEN "blueprint" ELSE "supporting"]
  <2>1. th.pc # "idle" /\ J(t) \in Jobs
    BY <1>13 DEF EnterPhase, At
  <2>2. th2 \in Thread /\ Engaged(th2)
    BY <1>13, <2>1, PointSets DEF EnterPhase, Thread, Engaged, At, J, Fenced
  <2>3. row \in Row
    BY <2>1, <1>0 DEF Row, Pipeline
  <2>4. run' = [run EXCEPT ![t] = th2]
    BY <1>13 DEF EnterPhase, Goto, TypeOK
  <2>5. job' = [job EXCEPT ![J(t)] = row]
    BY <1>13, <2>1 DEF EnterPhase, TypeOK
  <2>6. QED
    BY <1>13, <2>1, <2>2, <2>3, <2>4, <2>5, TypeRowThread DEF EnterPhase
<1>14. CASE ModelAnswers(t)
  <2> DEFINE th2 == [th EXCEPT !.pc = "verify"]
  <2>1. th.pc # "idle" /\ J(t) \in Jobs
    BY <1>14 DEF ModelAnswers, At, InLoop
  <2>2. th2 \in Thread /\ Engaged(th2)
    BY <1>14, <2>1, PointSets DEF ModelAnswers, Thread, Engaged, Row, J, Points, Body, Fenced
  <2>3. run' = [run EXCEPT ![t] = th2]
    BY <1>14 DEF ModelAnswers, Goto, TypeOK
  <2>4. QED
    BY <1>14, <2>2, <2>3, TypeLocal DEF ModelAnswers
<1>15. CASE VerifyPhase(t)
  <2> DEFINE th2 == [th EXCEPT !.pc = "publish", !.todo = Phase(t),
                               !.work = @ \ Phase(t)]
             row == [r EXCEPT !.pipeline = IF InConcept(t) THEN "concept" ELSE "validating"]
  <2>1. th.pc # "idle" /\ J(t) \in Jobs
    BY <1>15 DEF VerifyPhase, At
  <2>a. Phase(t) \subseteq Cards
    BY JobsAssumption DEF Phase, Thread
  <2>2. th2 \in Thread /\ Engaged(th2)
    BY <1>15, <2>1, <2>a, PointSets DEF VerifyPhase, Thread, Engaged, At, J
  <2>3. row \in Row
    BY <2>1, <1>0 DEF Row, Pipeline
  <2>4. run' = [run EXCEPT ![t] = th2]
    BY <1>15 DEF VerifyPhase, Goto, TypeOK
  <2>5. job' = [job EXCEPT ![J(t)] = row]
    BY <1>15, <2>1 DEF VerifyPhase, TypeOK
  <2>6. QED
    BY <1>15, <2>1, <2>2, <2>3, <2>4, <2>5, TypeRowThread DEF VerifyPhase
<1>16. CASE ConceptMissing(t)
  <2> DEFINE th2 == [th EXCEPT !.pc = "failcard", !.back = "publish",
                               !.work = @ \ {Concept}, !.card = Concept,
                               !.seenDone = r.done, !.seenFailed = r.failed]
  <2>1. th.pc # "idle" /\ J(t) \in Jobs
    BY <1>16 DEF ConceptMissing, At, InLoop
  <2>2. th2 \in Thread /\ Engaged(th2)
    BY <1>16, <2>1, JobsAssumption, PointSets DEF ConceptMissing, Thread, Engaged, Row, J, Fenced
  <2>3. run' = [run EXCEPT ![t] = th2]
    BY <1>16 DEF ConceptMissing, Goto, TypeOK
  <2>4. QED
    BY <1>16, <2>2, <2>3, TypeLocal DEF ConceptMissing
<1>16a. CASE FailPublished(t)
  <2> DEFINE th2 == [th EXCEPT !.pc = "failcard", !.content = None,
                               !.seenDone = r.done, !.seenFailed = r.failed]
  <2>1. th.pc = "project" /\ J(t) \in Jobs
    BY <1>16a DEF FailPublished, At
  <2>2. th2 \in Thread /\ Engaged(th2)
    BY <1>16a, <2>1, PointSets DEF FailPublished, Thread, Engaged, Row, J, Fenced
  <2>3. run' = [run EXCEPT ![t] = th2]
    BY <1>16a DEF FailPublished, TypeOK
  <2>4. QED
    BY <1>16a, <2>2, <2>3, TypeLocal DEF FailPublished
<1>17. CASE ReadProgress(t)
  <2> DEFINE th2 == [th EXCEPT !.pc = "closing", !.seenDone = r.done, !.seenFailed = r.failed]
  <2>1. th.pc # "idle" /\ J(t) \in Jobs
    BY <1>17 DEF ReadProgress, At, InLoop
  <2>2. th2 \in Thread /\ Engaged(th2)
    BY <1>17, <2>1, PointSets DEF ReadProgress, Thread, Engaged, Row, J, Fenced
  <2>3. run' = [run EXCEPT ![t] = th2]
    BY <1>17 DEF ReadProgress, Goto, TypeOK
  <2>4. QED
    BY <1>17, <2>2, <2>3, TypeLocal DEF ReadProgress
<1>18. CASE MarkCompleted(t)
  <2> DEFINE th2 == [th EXCEPT !.pc = "done", !.owed = <<Plain("completed")>>]
             row == Close(r, "completed")
  <2>1. th.pc # "idle" /\ J(t) \in Jobs
    BY <1>18 DEF MarkCompleted, At
  <2>a. <<Plain("completed")>> \in Seq(Event)
    BY EventTypes DEF Terminal
  <2>2. th2 \in Thread /\ Engaged(th2)
    BY <1>18, <2>1, <2>a, PointSets DEF MarkCompleted, Thread, Engaged, At, J
  <2>3. row \in Row
    BY <2>1, RowClose DEF Terminal
  <2>4. run' = [run EXCEPT ![t] = th2]
    BY <1>18 DEF MarkCompleted, Goto, TypeOK
  <2>5. job' = [job EXCEPT ![J(t)] = row]
    BY <1>18, <2>1 DEF MarkCompleted, TypeOK
  <2>6. QED
    BY <1>18, <2>1, <2>2, <2>3, <2>4, <2>5, TypeRowThread DEF MarkCompleted
<1>19. CASE MarkPartial(t)
  <2> DEFINE th2 == [th EXCEPT !.pc = "done",
                               !.owed = <<Plain("partial"), Plain("completed")>>]
             row == [Close(r, "partial") EXCEPT !.done = th.seenDone, !.failed = th.seenFailed]
  <2>1. th.pc # "idle" /\ J(t) \in Jobs
    BY <1>19 DEF MarkPartial, At
  <2>a. <<Plain("partial"), Plain("completed")>> \in Seq(Event)
    BY EventTypes DEF Terminal
  <2>2. th2 \in Thread /\ Engaged(th2)
    BY <1>19, <2>1, <2>a, PointSets DEF MarkPartial, Thread, Engaged, At, J
  <2>3. row \in Row
    BY <2>1, RowClose DEF Terminal, Row, Thread
  <2>4. run' = [run EXCEPT ![t] = th2]
    BY <1>19 DEF MarkPartial, Goto, TypeOK
  <2>5. job' = [job EXCEPT ![J(t)] = row]
    BY <1>19, <2>1 DEF MarkPartial, TypeOK
  <2>6. QED
    BY <1>19, <2>1, <2>2, <2>3, <2>4, <2>5, TypeRowThread DEF MarkPartial
<1>20. CASE HandleException(t)
  <2> DEFINE p == IF r.retries < MaxRetries THEN "retrying" ELSE "failing"
             th2 == [th EXCEPT !.pc = p]
  <2>1. th.pc # "idle" /\ J(t) \in Jobs /\ p \in Handler
    BY <1>20 DEF HandleException, At, Handler
  <2>2. th2 \in Thread /\ Engaged(th2)
    BY <2>1, PointSets DEF Thread, Engaged, J, Handler
  <2>3. run' = [run EXCEPT ![t] = th2]
    BY <1>20 DEF HandleException, Goto, TypeOK
  <2>4. QED
    BY <1>20, <2>2, <2>3, TypeLocal DEF HandleException
<1>21. CASE CountRetry(t)
  <2> DEFINE th2 == [th EXCEPT !.pc = "requeue", !.count = r.retries + 1]
  <2>1. th.pc # "idle" /\ J(t) \in Jobs
    BY <1>21 DEF CountRetry, At
  <2>2. r.retries + 1 \in Nat
    BY <2>1 DEF Row
  <2>3. th2 \in Thread /\ Engaged(th2)
    BY <2>1, <2>2, PointSets DEF Thread, Engaged, J, Handler
  <2>4. run' = [run EXCEPT ![t] = th2]
    BY <1>21 DEF CountRetry, TypeOK
  <2>5. QED
    BY <1>21, <2>3, <2>4, TypeLocal DEF CountRetry
<1>22. CASE RetryJob(t)
  <2>1. th.pc # "idle" /\ J(t) \in Jobs
    BY <1>22 DEF RetryJob, At
  <2>2. CASE Owns(t)
    <3> DEFINE row == [r EXCEPT !.status = "queued", !.pipeline = "queued",
                                !.retries = th.count]
    <3>1. row \in Row
      BY <2>1 DEF Row, Thread, Statuses, Claimable, Pipeline
    <3>2. job' = [job EXCEPT ![J(t)] = row]
      BY <1>22, <2>1, <2>2 DEF RetryJob, TypeOK
    <3>3. QED
      BY <1>22, <2>1, <2>2, <3>1, <3>2, IdleType, TypeRowThread DEF RetryJob, Stop
  <2>3. CASE ~Owns(t)
    <3> DEFINE th2 == [th EXCEPT !.pc = "failing"]
    <3>1. th2 \in Thread /\ Engaged(th2)
      BY <2>1, PointSets DEF Thread, Engaged, J, Handler
    <3>2. run' = [run EXCEPT ![t] = th2]
      BY <1>22, <2>3 DEF RetryJob, Goto, TypeOK
    <3>3. QED
      BY <1>22, <2>3, <3>1, <3>2, TypeLocal DEF RetryJob
  <2>4. QED
    BY <2>2, <2>3
<1>23. CASE MarkFailed(t)
  <2>1. th.pc # "idle" /\ J(t) \in Jobs
    BY <1>23 DEF MarkFailed, At
  <2>2. CASE Owns(t)
    <3> DEFINE th2 == [th EXCEPT !.pc = "done", !.count = 0,
                                 !.owed = <<Plain("failed")>>]
    <3>1. <<Plain("failed")>> \in Seq(Event)
      BY EventTypes DEF Terminal
    <3>2. th2 \in Thread /\ Engaged(th2)
      BY <2>1, <3>1, PointSets DEF Thread, Engaged, J
    <3>3. Close(r, "failed") \in Row
      BY <2>1, RowClose DEF Terminal
    <3>4. run' = [run EXCEPT ![t] = th2]
      BY <1>23, <2>2 DEF MarkFailed, TypeOK
    <3>5. QED
      BY <1>23, <2>1, <2>2, <3>2, <3>3, <3>4, TypeRowThread DEF MarkFailed
  <2>3. CASE ~Owns(t)
    BY <1>23, <2>3, IdleType, TypeLocal DEF MarkFailed, Stop
  <2>4. QED
    BY <2>2, <2>3
<1>24. CASE Heartbeat(t)
  <2> DEFINE row == [r EXCEPT !.lease = "live"]
  <2>1. J(t) \in Jobs /\ row \in Row
    BY <1>24 DEF Heartbeat, Row, Leases
  <2>2. job' = [job EXCEPT ![J(t)] = row]
    BY <1>24, <2>1 DEF Heartbeat, TypeOK
  <2>3. QED
    BY <1>24, <2>1, <2>2, TypeRow DEF Heartbeat
<1>25. CASE Raise(t)
  <2> DEFINE th2 == IF th.pc \in Body
                      THEN [Idle EXCEPT !.pc = "raised", !.job = J(t)] ELSE Idle
  <2>1. J(t) \in Jobs
    BY <1>25 DEF Raise
  <2>2. [Idle EXCEPT !.pc = "raised", !.job = J(t)] \in Thread
        /\ Engaged([Idle EXCEPT !.pc = "raised", !.job = J(t)])
    BY <2>1, IdleType, PointSets DEF Idle, Thread, Engaged, Handler
  <2>3. th2 \in Thread /\ Engaged(th2)
    BY <2>2, IdleType
  <2>4. run' = [run EXCEPT ![t] = th2]
    BY <1>25 DEF Raise
  <2>5. QED
    BY <1>25, <2>3, <2>4, TypeLocal DEF Raise
<1>26. CASE Crash(t)
  BY <1>26, IdleType, TypeLocal DEF Crash, Stop
<1>27. CASE CardStep(t)
  BY <1>6, <1>7, <1>8, <1>10, <1>27 DEF CardStep
<1>28. CASE Execute(t)
  BY <1>28, <1>2, <1>3, <1>4, <1>5, <1>27, <1>9, <1>11, <1>12, <1>13, <1>14,
     <1>15, <1>16, <1>16a, <1>17, <1>18, <1>19, <1>20, <1>21, <1>22, <1>23 DEF Execute
<1>29. QED
  BY <1>1, <1>24, <1>25, <1>26, <1>28 DEF Worker

LEMMA TypeSweep ==
    ASSUME TypeOK, Sweep
    PROVE  TypeOK'
<1>1. ASSUME NEW S \in SUBSET Stale, Recover(S)
      PROVE  TypeOK'
  <2>1. job' \in [Jobs -> Row]
    BY <1>1, RowRecovered DEF Recover, TypeOK
  <2>2. notices' \subseteq Jobs
    BY <1>1 DEF Recover, Stale, TypeOK
  <2>3. QED
    BY <1>1, <2>1, <2>2 DEF Recover, TypeOK
<1>2. ASSUME NEW S \in SUBSET Overdue, Expire(S)
      PROVE  TypeOK'
  <2>1. job' \in [Jobs -> Row]
    BY <1>2, RowClose DEF Expire, TypeOK, Terminal
  <2>2. notices' \subseteq Jobs
    BY <1>2 DEF Expire, Overdue, TypeOK
  <2>3. QED
    BY <1>2, <2>1, <2>2 DEF Expire, TypeOK
<1>3. ASSUME NEW j \in Jobs, AppendNotice(j)
      PROVE  TypeOK'
  <2>1. Append(log[j], Plain("failed")) \in Seq(Event)
    BY EventTypes DEF TypeOK, Terminal
  <2>2. QED
    BY <1>3, <2>1 DEF AppendNotice, TypeOK
<1>4. ASSUME NEW j \in Jobs, SweepCrash(j)
      PROVE  TypeOK'
  BY <1>4 DEF SweepCrash, TypeOK
<1>5. QED
  BY <1>1, <1>2, <1>3, <1>4 DEF Sweep

LEMMA TypeEnvironment ==
    ASSUME TypeOK, NEW j \in Jobs, Environment(j)
    PROVE  TypeOK'
<1> DEFINE r == job[j]
<1>0. r \in Row
  BY DEF TypeOK
<1>1. CASE Submit(j)
  <2>1. [r EXCEPT !.status = "queued"] \in Row
    BY <1>0 DEF Row, Statuses, Claimable
  <2>2. QED
    BY <1>1, <2>1, TypeRow DEF Submit, TypeOK
<1>2. CASE LeaseRunsOut(j)
  <2>1. [r EXCEPT !.lease = "expired"] \in Row
    BY <1>0 DEF Row, Leases
  <2>2. QED
    BY <1>2, <2>1, TypeRow DEF LeaseRunsOut, TypeOK
<1>3. CASE DeadlinePasses(j)
  <2>1. [r EXCEPT !.late = TRUE] \in Row
    BY <1>0 DEF Row
  <2>2. QED
    BY <1>3, <2>1, TypeRow DEF DeadlinePasses, TypeOK
<1>4. QED
  BY <1>1, <1>2, <1>3 DEF Environment

LEMMA TypeInit == Init => TypeOK
<1>1. ASSUME Init PROVE TypeOK
  <2>1. [status |-> "absent", pipeline |-> "queued", owner |-> None,
         lease |-> "none", late |-> FALSE, retries |-> 0,
         done |-> {}, failed |-> {}] \in Row
    BY DEF Row, Statuses, Pipeline, Leases
  <2>2. QED
    BY <1>1, <2>1, IdleType DEF Init, TypeOK
<1>2. QED
  BY <1>1

\* Type correctness: every row, card, event, session entry and thread record
\* keeps its shape, and a busy thread always holds a job.
THEOREM TypeCorrect == Spec => []TypeOK
<1>1. TypeOK /\ [Next]_vars => TypeOK'
  <2> SUFFICES ASSUME TypeOK, [Next]_vars PROVE TypeOK'
    OBVIOUS
  <2>1. CASE UNCHANGED vars
    BY <2>1 DEF vars, TypeOK
  <2>2. CASE Next
    BY <2>2, TypeWorkerStep, TypeSweep, TypeEnvironment DEF Next
  <2>3. QED
    BY <2>1, <2>2
<1>2. QED
  BY <1>1, TypeInit, PTL DEF Spec

-----------------------------------------------------------------------------
(* The end of a job *)

\* Status and owner of a row change only while the job is active, and a step
\* that ends the job releases it.
RowMoves(j) ==
    \/ job'[j].status = job[j].status /\ job'[j].owner = job[j].owner
    \/ /\ ~Ended(j)
       /\ job'[j].status \in Terminal => job'[j].owner = None

\* Who passes the owner clause holds an active job.
LEMMA OwnersAreActive ==
    ASSUME TypeOK, EndedIsReleased, NEW t \in Threads, J(t) \in Jobs, Owns(t)
    PROVE  ~Ended(J(t))
  BY JobsAssumption DEF EndedIsReleased, Owns

LEMMA RowMovesInRun ==
    ASSUME TypeOK, EndedIsReleased, NEW t \in Threads, Worker(t), NEW j \in Jobs
    PROVE  RowMoves(j)
<1> DEFINE th == run[t]
<1>0. /\ th.pc # "idle" => J(t) \in Jobs
      /\ job \in [Jobs -> Row]
  BY DEF TypeOK, Engaged, J
<1>1. ASSUME NEW k \in Jobs, Claim(t, k)
      PROVE  RowMoves(j)
  <2>1. ~Ended(k)
    BY <1>1 DEF Claim, Ended, Claimable, Terminal
  <2>2. job' = [job EXCEPT ![k] = Claimed(job[k], t)]
    BY <1>1 DEF Claim
  <2>3. Claimed(job[k], t).status = "running"
    BY <1>0 DEF Claimed, Row
  <2>4. QED
    BY <1>0, <2>1, <2>2, <2>3 DEF RowMoves, Terminal
<1>2. CASE job' = job
  BY <1>2 DEF RowMoves
<1>3. CASE Retrieve(t)
  BY <1>0, <1>3 DEF Retrieve, At, RowMoves, Row
<1>4. CASE EnterPhase(t)
  BY <1>0, <1>4 DEF EnterPhase, At, RowMoves, Row
<1>5. CASE VerifyPhase(t)
  BY <1>0, <1>5 DEF VerifyPhase, At, RowMoves, Row
<1>6. CASE FailCard(t)
  BY <1>0, <1>6 DEF FailCard, At, RowMoves, Row
<1>7. CASE Heartbeat(t)
  BY <1>0, <1>7 DEF Heartbeat, RowMoves, Row
<1>8. ASSUME NEW c \in Cards, NEW v, PublishRow(J(t), c, v), J(t) \in Jobs
      PROVE  RowMoves(j)
  BY <1>0, <1>8 DEF PublishRow, RowMoves, Row
<1>9. CASE RetryJob(t)
  <2>1. CASE Owns(t)
    BY <1>0, <1>9, <2>1, OwnersAreActive DEF RetryJob, At, RowMoves, Row, Terminal
  <2>2. CASE ~Owns(t)
    BY <1>9, <2>2, <1>2 DEF RetryJob
  <2>3. QED
    BY <2>1, <2>2
<1>10. ASSUME NEW outcome \in Terminal, NEW row, J(t) \in Jobs, Owns(t),
              job' = [job EXCEPT ![J(t)] = row], row.owner = None
       PROVE  RowMoves(j)
  BY <1>0, <1>10, OwnersAreActive DEF RowMoves
<1>11. \A outcome : Close(job[J(t)], outcome).owner = None
  BY <1>0 DEF Close, Row
<1>12. CASE KnowledgeChanged(t)
  BY <1>0, <1>10, <1>11, <1>12 DEF KnowledgeChanged, At, Terminal
<1>13. CASE MarkCompleted(t)
  BY <1>0, <1>10, <1>11, <1>13 DEF MarkCompleted, At, Terminal
<1>14. CASE MarkPartial(t)
  <2>1. J(t) \in Jobs /\ job[J(t)] \in Row
    BY <1>0, <1>14 DEF MarkPartial, At
  <2>2. [Close(job[J(t)], "partial") EXCEPT !.done = run[t].seenDone,
                                            !.failed = run[t].seenFailed].owner = None
    BY <2>1 DEF Close, Row
  <2>3. QED
    BY <1>10, <1>14, <2>1, <2>2 DEF MarkPartial, Terminal
<1>15. CASE MarkFailed(t)
  BY <1>0, <1>2, <1>10, <1>11, <1>15 DEF MarkFailed, At, Terminal
<1>16. CASE CardStep(t)
  BY <1>0, <1>2, <1>8, <1>16 DEF CardStep, LeaveForGeneration, ReuseCard,
     RejectCard, PublishCard, At, InLoop
<1>17. CASE Execute(t)
  BY <1>2, <1>3, <1>4, <1>5, <1>6, <1>9, <1>12, <1>13, <1>14, <1>15, <1>16, <1>17
  DEF Execute, AppendOwed, LoseLease, Project, LoopDone, ModelAnswers,
      ConceptMissing, FailPublished, ReadProgress, HandleException, CountRetry
<1>18. QED
  BY <1>1, <1>2, <1>7, <1>17 DEF Worker, Raise, Crash

LEMMA RowMovesInSweep ==
    ASSUME TypeOK, Sweep, NEW j \in Jobs
    PROVE  RowMoves(j)
<1>0. job[j] \in Row
  BY DEF TypeOK
<1>1. ASSUME NEW S \in SUBSET Stale, Recover(S)
      PROVE  RowMoves(j)
  <2>1. CASE j \in S
    <3>1. ~Ended(j) /\ job'[j] = Recovered(job[j])
      BY <1>1, <2>1 DEF Recover, Stale, Ended, Terminal
    <3>2. Recovered(job[j]).owner = None
      BY <1>0 DEF Recovered, Row
    <3>3. QED
      BY <3>1, <3>2 DEF RowMoves
  <2>2. CASE j \notin S
    BY <1>1, <2>2 DEF Recover, RowMoves
  <2>3. QED
    BY <2>1, <2>2
<1>2. ASSUME NEW S \in SUBSET Overdue, Expire(S)
      PROVE  RowMoves(j)
  <2>1. CASE j \in S
    <3>1. ~Ended(j) /\ job'[j] = Close(job[j], "failed")
      BY <1>2, <2>1 DEF Expire, Overdue, Ended, Claimable, Terminal
    <3>2. Close(job[j], "failed").owner = None
      BY <1>0 DEF Close, Row
    <3>3. QED
      BY <3>1, <3>2 DEF RowMoves
  <2>2. CASE j \notin S
    BY <1>2, <2>2 DEF Expire, RowMoves
  <2>3. QED
    BY <2>1, <2>2
<1>3. CASE job' = job
  BY <1>3 DEF RowMoves
<1>4. QED
  BY <1>1, <1>2, <1>3 DEF Sweep, AppendNotice, SweepCrash

LEMMA RowMovesInEnvironment ==
    ASSUME TypeOK, NEW k \in Jobs, Environment(k), NEW j \in Jobs
    PROVE  RowMoves(j)
<1>0. job \in [Jobs -> Row]
  BY DEF TypeOK
<1>1. CASE Submit(k)
  BY <1>0, <1>1 DEF Submit, RowMoves, Row, Ended, Terminal
<1>2. CASE LeaseRunsOut(k)
  BY <1>0, <1>2 DEF LeaseRunsOut, RowMoves, Row
<1>3. CASE DeadlinePasses(k)
  BY <1>0, <1>3 DEF DeadlinePasses, RowMoves, Row
<1>4. QED
  BY <1>1, <1>2, <1>3 DEF Environment

LEMMA EveryRowMoves ==
    ASSUME TypeOK, EndedIsReleased, [Next]_vars, NEW j \in Jobs
    PROVE  RowMoves(j)
<1>1. CASE UNCHANGED vars
  BY <1>1 DEF vars, RowMoves
<1>2. CASE Next
  BY <1>2, RowMovesInRun, RowMovesInSweep, RowMovesInEnvironment DEF Next
<1>3. QED
  BY <1>1, <1>2

\* An ended job is owned by nobody, so every late write of a run that lost the
\* job is fenced, whatever threads share owner ids.
THEOREM EndedJobsAreReleased == Spec => []EndedIsReleased
<1>1. Init => EndedIsReleased
  BY DEF Init, EndedIsReleased, Ended, Terminal
<1>2. TypeOK /\ EndedIsReleased /\ [Next]_vars => EndedIsReleased'
  BY EveryRowMoves DEF EndedIsReleased, RowMoves, Ended
<1>3. QED
  BY <1>1, <1>2, TypeCorrect, PTL DEF Spec

\* The status of an ended job never changes again.
THEOREM EndsAreFinal == Spec => EndIsFinal
<1>1. TypeOK /\ EndedIsReleased /\ [Next]_vars =>
        [\A j \in Jobs : Ended(j) => job'[j].status = job[j].status]_vars
  BY EveryRowMoves DEF RowMoves
<1>2. QED
  BY <1>1, TypeCorrect, EndedJobsAreReleased, PTL DEF Spec, EndIsFinal

-----------------------------------------------------------------------------
(* The card ledger *)

\* A job's cards change by one publication of a thread that owns the job.
LedgerMoves(j) ==
    \/ card'[j] = card[j]
    \/ \E t \in Threads, c \in Cards, v \in Contents :
          /\ J(t) = j /\ Owns(t)
          /\ card[j][c] = None
          /\ card'[j] = [card[j] EXCEPT ![c] = v]

LEMMA EveryLedgerMoves ==
    ASSUME TypeOK, [Next]_vars, NEW j \in Jobs
    PROVE  LedgerMoves(j)
<1>1. CASE card' = card
  BY <1>1 DEF LedgerMoves
<1>2. ASSUME NEW t \in Threads, NEW c \in Cards, NEW v \in Contents,
             J(t) \in Jobs, Owns(t), PublishRow(J(t), c, v)
      PROVE  LedgerMoves(j)
  <2>1. CASE card[J(t)][c] = None
    <3>1. card' = [card EXCEPT ![J(t)][c] = v]
      BY <1>2, <2>1 DEF PublishRow
    <3>2. CASE J(t) = j
      <4>1. card'[j] = [card[j] EXCEPT ![c] = v]
        BY <3>1, <3>2 DEF TypeOK
      <4>2. QED
        BY <1>2, <2>1, <3>2, <4>1 DEF LedgerMoves
    <3>3. CASE J(t) # j
      BY <3>1, <3>3 DEF TypeOK, LedgerMoves
    <3>4. QED
      BY <3>2, <3>3
  <2>2. CASE card[J(t)][c] # None
    BY <1>1, <1>2, <2>2 DEF PublishRow
  <2>3. QED
    BY <2>1, <2>2
<1>3. ASSUME NEW t \in Threads, CardStep(t)
      PROVE  LedgerMoves(j)
  <2>1. ASSUME NEW c \in Cards, ReuseCard(t, c)
        PROVE  LedgerMoves(j)
    <3>1. J(t) \in Jobs
      BY <2>1 DEF ReuseCard, At, TypeOK, Engaged, J
    <3>2. session[J(t)][c] \in Contents
      BY <2>1, <3>1 DEF ReuseCard, TypeOK
    <3>3. QED
      BY <1>2, <2>1, <3>1, <3>2 DEF ReuseCard
  <2>2. ASSUME NEW c \in Cards, NEW v \in Contents, PublishCard(t, c, v)
        PROVE  LedgerMoves(j)
    <3>1. J(t) \in Jobs
      BY <2>2 DEF PublishCard, InLoop, At, TypeOK, Engaged, J
    <3>2. QED
      BY <1>2, <2>2, <3>1 DEF PublishCard
  <2>3. QED
    BY <1>1, <1>3, <2>1, <2>2 DEF CardStep, LeaveForGeneration, RejectCard
<1>4. ASSUME NEW t \in Threads, Worker(t)
      PROVE  LedgerMoves(j)
  <2>1. CASE Execute(t)
    BY <1>1, <1>3, <2>1 DEF Execute, AppendOwed, LoseLease, Retrieve,
       KnowledgeChanged, Project, FailCard, LoopDone, EnterPhase, ModelAnswers,
       VerifyPhase, ConceptMissing, FailPublished, ReadProgress, MarkCompleted, MarkPartial,
       HandleException, CountRetry, RetryJob, MarkFailed
  <2>2. QED
    BY <1>1, <1>4, <2>1 DEF Worker, Claim, Heartbeat, Raise, Crash
<1>5. CASE Sweep
  BY <1>1, <1>5 DEF Sweep, Recover, Expire, AppendNotice, SweepCrash
<1>6. ASSUME NEW k \in Jobs, Environment(k)
      PROVE  LedgerMoves(j)
  BY <1>1, <1>6 DEF Environment, Submit, LeaseRunsOut, DeadlinePasses
<1>7. QED
  BY <1>1, <1>4, <1>5, <1>6 DEF Next, vars

\* A published card is never replaced or withdrawn, and only a thread that
\* executes an active job with the owner id of its row publishes.
THEOREM PublicationIsOwned == Spec => OnlyTheOwnerPublishes
<1>1. TypeOK /\ EndedIsReleased /\ [Next]_vars =>
        [\A j \in Jobs, c \in Cards :
           card'[j][c] # card[j][c] =>
              /\ card[j][c] = None
              /\ ~Ended(j)
              /\ \E t \in Threads : J(t) = j /\ job[j].owner = OwnerOf[t]]_vars
  <2> SUFFICES ASSUME TypeOK, EndedIsReleased, [Next]_vars,
                      NEW j \in Jobs, NEW c \in Cards, card'[j][c] # card[j][c]
               PROVE  /\ card[j][c] = None
                      /\ ~Ended(j)
                      /\ \E t \in Threads : J(t) = j /\ job[j].owner = OwnerOf[t]
    OBVIOUS
  <2>1. PICK t \in Threads, d \in Cards, v \in Contents :
          /\ J(t) = j /\ Owns(t)
          /\ card[j][d] = None
          /\ card'[j] = [card[j] EXCEPT ![d] = v]
    BY EveryLedgerMoves DEF LedgerMoves
  <2>2. d = c
    BY <2>1 DEF TypeOK
  <2>3. ~Ended(j)
    BY <2>1, OwnersAreActive
  <2>4. QED
    BY <2>1, <2>2, <2>3 DEF Owns
<1>2. QED
  BY <1>1, TypeCorrect, EndedJobsAreReleased, PTL DEF Spec, OnlyTheOwnerPublishes

-----------------------------------------------------------------------------
(* Completed jobs are whole *)

LEMMA PublishedGrows ==
    ASSUME TypeOK, [Next]_vars, NEW j \in Jobs
    PROVE  Published(j) \subseteq Published(j)'
<1>1. CASE card'[j] = card[j]
  BY <1>1 DEF Published
<1>2. ASSUME NEW c \in Cards, NEW v \in Contents,
             card'[j] = [card[j] EXCEPT ![c] = v]
      PROVE  Published(j) \subseteq Published(j)'
  BY <1>2, JobsAssumption DEF Published, TypeOK
<1>3. QED
  BY <1>1, <1>2, EveryLedgerMoves, ZenonT(40) DEF LedgerMoves

\* A publication leaves its card published.
LEMMA PublishedAfter ==
    ASSUME TypeOK, NEW j \in Jobs, NEW c \in Cards, NEW v \in Contents,
           PublishRow(j, c, v)
    PROVE  c \in Published(j)'
<1>1. CASE card[j][c] = None
  BY <1>1, JobsAssumption DEF PublishRow, Published, TypeOK
<1>2. CASE card[j][c] # None
  BY <1>2 DEF PublishRow, Published
<1>3. QED
  BY <1>1, <1>2

\* Once a card of a job has failed, the job's failed cards are never emptied,
\* though mark_card_failed and mark_partial replace them by an older reading.
FailedKept(j) == job[j].failed # {} => job'[j].failed # {}

LEMMA FailedIsKept ==
    ASSUME TypeOK, [Next]_vars, NEW j \in Jobs
    PROVE  FailedKept(j)
<1>0. job \in [Jobs -> Row]
  BY DEF TypeOK
<1>1. CASE job' = job
  BY <1>1 DEF FailedKept
<1>2. ASSUME NEW t \in Threads, Worker(t)
      PROVE  FailedKept(j)
  <2>0. run[t].pc # "idle" => J(t) \in Jobs
    BY DEF TypeOK, Engaged, J
  <2>1. ASSUME NEW k \in Jobs, Claim(t, k)
        PROVE  FailedKept(j)
    BY <1>0, <2>1 DEF Claim, Claimed, FailedKept, Row
  <2>2. CASE CardStep(t)
    <3>1. ASSUME NEW c \in Cards, NEW v, PublishRow(J(t), c, v)
          PROVE  FailedKept(j)
      BY <1>0, <3>1 DEF PublishRow, FailedKept, Row
    <3>2. QED
      BY <1>1, <2>2, <3>1 DEF CardStep, LeaveForGeneration, ReuseCard,
         RejectCard, PublishCard
  <2>3. CASE KnowledgeChanged(t)
    BY <1>0, <2>0, <2>3 DEF KnowledgeChanged, Close, At, FailedKept, Row
  <2>4. CASE Retrieve(t)
    BY <1>0, <2>0, <2>4 DEF Retrieve, At, FailedKept, Row
  <2>5. CASE EnterPhase(t)
    BY <1>0, <2>0, <2>5 DEF EnterPhase, At, FailedKept, Row
  <2>6. CASE VerifyPhase(t)
    BY <1>0, <2>0, <2>6 DEF VerifyPhase, At, FailedKept, Row
  <2>7. CASE FailCard(t)
    <3>1. /\ J(t) \in Jobs
          /\ \/ job'[j] = job[j]
             \/ job'[j].failed = run[t].seenFailed \cup {run[t].card}
      BY <1>0, <2>0, <2>7 DEF FailCard, At, Row
    <3>2. QED
      BY <3>1 DEF FailedKept
  <2>8. CASE MarkCompleted(t)
    BY <1>0, <2>0, <2>8 DEF MarkCompleted, Close, At, FailedKept, Row
  <2>9. CASE MarkPartial(t)
    BY <1>0, <2>0, <2>9 DEF MarkPartial, Close, At, FailedKept, Row
  <2>10. CASE RetryJob(t)
    BY <1>0, <2>0, <2>10 DEF RetryJob, At, FailedKept, Row
  <2>11. CASE MarkFailed(t)
    <3>1. CASE Owns(t)
      <4>1. job' = [job EXCEPT ![J(t)] = Close(@, "failed")]
        BY <2>11, <3>1 DEF MarkFailed
      <4>2. QED
        BY <1>0, <4>1 DEF Close, FailedKept, Row
    <3>2. CASE ~Owns(t)
      BY <1>1, <2>11, <3>2 DEF MarkFailed
    <3>3. QED
      BY <3>1, <3>2
  <2>12. CASE Heartbeat(t)
    BY <1>0, <2>0, <2>12 DEF Heartbeat, FailedKept, Row
  <2>13. CASE Execute(t)
    BY <1>1, <2>2, <2>3, <2>4, <2>5, <2>6, <2>7, <2>8, <2>9, <2>10, <2>11, <2>13
    DEF Execute, AppendOwed, LoseLease, Project, LoopDone, ModelAnswers,
        ConceptMissing, FailPublished, ReadProgress, HandleException, CountRetry
  <2>14. QED
    BY <1>1, <1>2, <2>1, <2>12, <2>13 DEF Worker, Raise, Crash
<1>3. ASSUME NEW S \in SUBSET Stale, Recover(S)
      PROVE  FailedKept(j)
  <2>1. Recovered(job[j]).failed = job[j].failed
    BY <1>0 DEF Recovered, Row
  <2>2. job'[j] = job[j] \/ job'[j] = Recovered(job[j])
    BY <1>3 DEF Recover
  <2>3. QED
    BY <2>1, <2>2 DEF FailedKept
<1>4. ASSUME NEW S \in SUBSET Overdue, Expire(S)
      PROVE  FailedKept(j)
  BY <1>0, <1>4 DEF Expire, Close, FailedKept, Row
<1>5. ASSUME NEW k \in Jobs, Environment(k)
      PROVE  FailedKept(j)
  BY <1>0, <1>5 DEF Environment, Submit, LeaseRunsOut, DeadlinePasses,
     FailedKept, Row
<1>6. QED
  BY <1>1, <1>2, <1>3, <1>4, <1>5 DEF Next, Sweep, AppendNotice, SweepCrash, vars

\* A thread that does not move remembers what it did.
LEMMA OthersRemember ==
    ASSUME TypeOK, [Next]_vars, NEW t \in Threads, Remembers(t), run'[t] = run[t]
    PROVE  Remembers(t)'
<1>1. CASE run[t].pc = "idle"
  BY <1>1 DEF Remembers, Looping, Between
<1>2. CASE run[t].pc # "idle"
  <2>1. J(t) \in Jobs /\ J(t)' = J(t)
    BY <1>2 DEF TypeOK, Engaged, J
  <2>2. Published(J(t)) \subseteq Published(J(t))'
    BY <2>1, PublishedGrows
  <2>3. job[J(t)].failed # {} => job'[J(t)].failed # {}
    BY <2>1, FailedIsKept DEF FailedKept
  <2>4. Ahead(t)' = Ahead(t)
    BY DEF Ahead, Hand
  <2>5. QED
    BY <2>1, <2>2, <2>3, <2>4 DEF Remembers, Published
<1>3. QED
  BY <1>1, <1>2

\* Where a run has read no request yet, or has decided, nothing is owed.
LEMMA NothingToRemember ==
    ASSUME NEW t \in Threads, run'[t].pc \notin Looping \cup Between \cup {"closing"}
    PROVE  Remembers(t)'
  BY DEF Remembers, Looping, Between

\* A run that keeps working on its job remembers its request if it drops no
\* card but a published one.
LEMMA StillRemembers ==
    ASSUME TypeOK, [Next]_vars, NEW t \in Threads, Remembers(t),
           run[t].pc \in Looping \cup Between, run'[t].job = run[t].job,
           run'[t].pc \in Looping \cup Between,
           run'[t].pc \in Between => run'[t].todo = {},
           run'[t].pc = "close" => run'[t].work = {},
           Ahead(t) \subseteq Ahead(t)' \cup Published(J(t))'
    PROVE  Remembers(t)'
<1>1. J(t) \in Jobs /\ J(t)' = J(t)
  BY DEF TypeOK, Engaged, J, Looping, Between
<1>2. Published(J(t)) \subseteq Published(J(t))'
  BY <1>1, PublishedGrows
<1>3. job[J(t)].failed # {} => job'[J(t)].failed # {}
  BY <1>1, FailedIsKept DEF FailedKept
<1>4. job[J(t)].failed # {} \/ Requested[J(t)] \subseteq Ahead(t) \cup Published(J(t))
  BY DEF Remembers
<1>5. job'[J(t)].failed # {}
        \/ Requested[J(t)] \subseteq Ahead(t)' \cup Published(J(t))'
  BY <1>2, <1>3, <1>4
<1>6. run'[t].pc # "closing"
  BY DEF Looping, Between
<1>7. QED
  BY <1>1, <1>5, <1>6 DEF Remembers

LEMMA RunRemembersCards ==
    ASSUME TypeOK, [Next]_vars, NEW t \in Threads, Remembers(t), CardStep(t)
    PROVE  Remembers(t)'
<1>0. run \in [Threads -> Thread]
  BY DEF TypeOK
<1>1. InLoop(t) /\ run[t].pc \in {"resolve", "publish"} /\ J(t) \in Jobs
  BY DEF CardStep, LeaveForGeneration, ReuseCard, RejectCard, PublishCard,
     InLoop, At, TypeOK, Engaged, J
<1>2. ASSUME NEW c \in Cards, LeaveForGeneration(t, c)
      PROVE  Remembers(t)'
  <2>1. run'[t] = [run[t] EXCEPT !.todo = @ \ {c}, !.work = @ \cup {c}]
    BY <1>0, <1>2 DEF LeaveForGeneration
  <2>2. Ahead(t) \subseteq Ahead(t)'
    BY <1>0, <1>1, <2>1 DEF Ahead, Hand, Thread
  <2>3. QED
    BY <1>0, <1>1, <2>1, <2>2, StillRemembers, ZenonT(40) DEF Looping, Between, Thread
<1>3. ASSUME NEW c \in Cards, NEW v \in Contents, PublishRow(J(t), c, v),
             \/ run'[t] = [run[t] EXCEPT !.todo = @ \ {c}]
             \/ run'[t] = [run[t] EXCEPT !.pc = "project", !.back = run[t].pc,
                              !.todo = @ \ {c}, !.card = c, !.content = v]
      PROVE  Remembers(t)'
  <2>0. J(t)' = J(t)
    BY <1>0, <1>3 DEF J, Thread
  <2>1. c \in Published(J(t))'
    BY <1>1, <1>3, <2>0, PublishedAfter
  <2>2. /\ run'[t].job = run[t].job /\ run'[t].pc \in {"resolve", "publish", "project"}
        /\ run'[t].todo = run[t].todo \ {c} /\ run'[t].work = run[t].work
    BY <1>0, <1>1, <1>3 DEF Thread
  <2>3. Ahead(t) \subseteq Ahead(t)' \cup Published(J(t))'
    BY <1>1, <2>1, <2>2 DEF Ahead, Hand
  <2>4. QED
    BY <1>1, <2>2, <2>3, StillRemembers DEF Looping, Between
<1>4. ASSUME NEW c \in Cards, ReuseCard(t, c)
      PROVE  Remembers(t)'
  <2>1. session[J(t)][c] \in Contents /\ PublishRow(J(t), c, session[J(t)][c])
    BY <1>1, <1>4 DEF ReuseCard, TypeOK
  <2>2. QED
    BY <1>0, <1>3, <1>4, <2>1 DEF ReuseCard
<1>5. ASSUME NEW c \in Cards, NEW v \in Contents, PublishCard(t, c, v)
      PROVE  Remembers(t)'
  BY <1>0, <1>3, <1>5 DEF PublishCard
<1>6. ASSUME NEW c \in Cards, RejectCard(t, c)
      PROVE  Remembers(t)'
  <2>1. /\ run'[t].job = run[t].job /\ run'[t].pc = "failcard" /\ run'[t].card = c
        /\ run'[t].todo = run[t].todo \ {c} /\ run'[t].work = run[t].work
    BY <1>0, <1>6 DEF RejectCard, Thread
  <2>2. Ahead(t) \subseteq Ahead(t)'
    BY <1>1, <2>1 DEF Ahead, Hand
  <2>3. QED
    BY <1>1, <2>1, <2>2, StillRemembers DEF Looping, Between
<1>7. QED
  BY <1>2, <1>4, <1>5, <1>6 DEF CardStep

LEMMA RunRemembersPhases ==
    ASSUME TypeOK, [Next]_vars, NEW t \in Threads, Remembers(t),
           \/ Project(t) \/ FailCard(t) \/ LoopDone(t)
           \/ EnterPhase(t) \/ ModelAnswers(t) \/ VerifyPhase(t)
           \/ ConceptMissing(t) \/ FailPublished(t) \/ ReadProgress(t)
    PROVE  Remembers(t)'
<1>0. run \in [Threads -> Thread] /\ job \in [Jobs -> Row]
  BY DEF TypeOK
<1>1. J(t) \in Jobs
  BY DEF Project, FailCard, LoopDone, EnterPhase, ModelAnswers, VerifyPhase,
     ConceptMissing, FailPublished, ReadProgress, InLoop, At, TypeOK, Engaged, J
<1>2. CASE Project(t)
  <2>1. /\ run[t].pc = "project" /\ run'[t].job = run[t].job
        /\ run'[t].pc = run[t].back /\ run[t].back \in {"resolve", "publish"}
        /\ run'[t].todo = run[t].todo /\ run'[t].work = run[t].work
    BY <1>0, <1>2 DEF Project, At, Thread
  <2>2. Ahead(t) \subseteq Ahead(t)'
    BY <2>1 DEF Ahead, Hand
  <2>3. QED
    BY <2>1, <2>2, StillRemembers DEF Looping, Between
<1>3. CASE FailCard(t)
  <2>1. /\ job'[J(t)].failed = run[t].seenFailed \cup {run[t].card}
        /\ run'[t].job = run[t].job
        /\ run'[t].pc = run[t].back /\ run[t].back \in {"resolve", "publish"}
    BY <1>0, <1>1, <1>3 DEF FailCard, Row, Thread
  <2>2. QED
    BY <1>1, <2>1 DEF Remembers, Between, J
<1>4. CASE LoopDone(t)
  <2>1. /\ run[t].pc \in {"resolve", "publish"} /\ run[t].todo = {}
        /\ run'[t] = [run[t] EXCEPT !.pc = IF run[t].work = {} THEN "close"
                                                              ELSE "enter"]
    BY <1>0, <1>4 DEF LoopDone, InLoop, At, Goto
  <2>2. /\ run'[t].job = run[t].job /\ run'[t].pc \in {"close", "enter"}
        /\ run'[t].todo = {} /\ run'[t].work = run[t].work
        /\ run'[t].pc = "close" => run[t].work = {}
    BY <1>0, <2>1 DEF Thread
  <2>3. Ahead(t) \subseteq Ahead(t)'
    BY <2>1, <2>2 DEF Ahead, Hand
  <2>4. QED
    BY <2>1, <2>2, <2>3, StillRemembers DEF Looping, Between
<1>5. CASE EnterPhase(t) \/ ModelAnswers(t)
  <2>1. /\ run[t].pc \in {"enter", "model"} /\ run'[t].pc \in {"model", "verify"}
        /\ run'[t].job = run[t].job
        /\ run'[t].todo = run[t].todo /\ run'[t].work = run[t].work
    BY <1>0, <1>5 DEF EnterPhase, ModelAnswers, At, Goto, Thread
  <2>2. Ahead(t) \subseteq Ahead(t)' /\ run[t].todo = {}
    BY <2>1 DEF Ahead, Hand, Remembers, Between
  <2>3. QED
    BY <2>1, <2>2, StillRemembers DEF Looping, Between
<1>6. CASE VerifyPhase(t)
  <2>1. /\ run[t].pc = "verify" /\ run'[t].pc = "publish"
        /\ run'[t].job = run[t].job /\ run'[t].todo = Phase(t)
        /\ run'[t].work = run[t].work \ Phase(t)
    BY <1>0, <1>6 DEF VerifyPhase, At, Thread
  <2>2. run[t].todo = {}
    BY <2>1 DEF Remembers, Between
  <2>3. Ahead(t) \subseteq Ahead(t)'
    BY <2>1, <2>2 DEF Ahead, Hand
  <2>4. QED
    BY <2>1, <2>3, StillRemembers DEF Looping, Between
<1>7. CASE ConceptMissing(t)
  <2>1. /\ run[t].pc = "verify" /\ run'[t].pc = "failcard"
        /\ run'[t].card = Concept /\ run'[t].job = run[t].job
        /\ run'[t].todo = run[t].todo /\ run'[t].work = run[t].work \ {Concept}
    BY <1>0, <1>7 DEF ConceptMissing, At, Thread
  <2>2. Ahead(t) \subseteq Ahead(t)'
    BY <2>1 DEF Ahead, Hand
  <2>3. QED
    BY <2>1, <2>2, StillRemembers DEF Looping, Between
<1>7a. CASE FailPublished(t)
  <2>1. /\ run[t].pc = "project" /\ run'[t].pc = "failcard"
        /\ run'[t].job = run[t].job
        /\ run'[t].todo = run[t].todo /\ run'[t].work = run[t].work
    BY <1>0, <1>7a DEF FailPublished, At, Thread
  <2>2. Ahead(t) \subseteq Ahead(t)'
    BY <2>1 DEF Ahead, Hand
  <2>3. QED
    BY <2>1, <2>2, StillRemembers DEF Looping, Between
<1>8. CASE ReadProgress(t)
  <2>1. /\ run[t].pc = "close" /\ run'[t].pc = "closing"
        /\ run'[t].job = run[t].job /\ run'[t].seenFailed = job[J(t)].failed
    BY <1>0, <1>8 DEF ReadProgress, At, Thread
  <2>2. job[J(t)].failed # {} \/ Requested[J(t)] \subseteq Published(J(t))
    BY <2>1 DEF Remembers, Between, Ahead, Hand
  <2>3. J(t)' = J(t) /\ Published(J(t)) \subseteq Published(J(t))'
    BY <1>1, <2>1, PublishedGrows DEF J
  <2>4. run'[t].seenFailed # {} \/ Requested[J(t)'] \subseteq Published(J(t))'
    BY <2>1, <2>2, <2>3
  <2>5. QED
    BY <2>1, <2>4 DEF Remembers, Looping, Between
<1>9. QED
  BY <1>2, <1>3, <1>4, <1>5, <1>6, <1>7, <1>7a, <1>8

LEMMA RunRemembers ==
    ASSUME TypeOK, Next, NEW t \in Threads, Remembers(t), Worker(t)
    PROVE  Remembers(t)'
<1>0. run \in [Threads -> Thread] /\ Requested \in [Jobs -> SUBSET Cards]
  BY JobsAssumption DEF TypeOK
<1>1. ASSUME NEW j \in Jobs, Claim(t, j)
      PROVE  Remembers(t)'
  BY <1>0, <1>1, NothingToRemember DEF Claim, Idle, Looping, Between
<1>2. CASE run'[t] = Idle
  BY <1>2, NothingToRemember DEF Idle, Looping, Between
<1>3. CASE run'[t] = run[t]
  BY <1>3, OthersRemember
<1>4. CASE AppendOwed(t)
  <2>1. CASE Stop(t)
    BY <1>0, <1>2, <2>1 DEF Stop
  <2>2. CASE ~Stop(t)
    <3>1. run'[t] = [run[t] EXCEPT !.owed = Tail(@)]
      BY <1>0, <1>4, <2>2 DEF AppendOwed
    <3>2. /\ run'[t].pc = run[t].pc /\ run'[t].job = run[t].job
          /\ run'[t].todo = run[t].todo /\ run'[t].work = run[t].work
          /\ run'[t].card = run[t].card /\ run'[t].seenFailed = run[t].seenFailed
          /\ UNCHANGED <<job, card>>
      BY <1>0, <1>4, <3>1 DEF AppendOwed, Thread
    <3>3. J(t)' = J(t) /\ Ahead(t)' = Ahead(t) /\ Published(J(t))' = Published(J(t))
      BY <3>2 DEF J, Ahead, Hand, Published
    <3>4. QED
      BY <3>2, <3>3 DEF Remembers
  <2>3. QED
    BY <2>1, <2>2
<1>5. CASE Retrieve(t)
  <2>1. /\ run'[t].pc = "resolve" /\ run'[t].job = run[t].job
        /\ run'[t].todo = Requested[J(t)]
    BY <1>0, <1>5 DEF Retrieve, Thread
  <2>2. Requested[J(t)'] \subseteq Ahead(t)'
    BY <2>1 DEF Ahead, J
  <2>3. QED
    BY <2>1, <2>2 DEF Remembers, Between
<1>6. CASE KnowledgeChanged(t) \/ MarkCompleted(t) \/ MarkPartial(t)
  <2>1. run'[t].pc = "done"
    BY <1>0, <1>6 DEF KnowledgeChanged, MarkCompleted, MarkPartial, Thread
  <2>2. QED
    BY <2>1, NothingToRemember DEF Looping, Between
<1>7. CASE HandleException(t) \/ CountRetry(t) \/ RetryJob(t) \/ MarkFailed(t)
  <2>1. run'[t] = Idle \/ run'[t].pc \in {"retrying", "requeue", "failing", "done"}
    <3>1. CASE HandleException(t) \/ CountRetry(t)
      BY <1>0, <3>1 DEF HandleException, CountRetry, Goto, Thread
    <3>2. CASE RetryJob(t)
      BY <1>0, <3>2 DEF RetryJob, Goto, Stop, Thread
    <3>3. CASE MarkFailed(t)
      BY <1>0, <3>3 DEF MarkFailed, Stop, Thread
    <3>4. QED
      BY <1>7, <3>1, <3>2, <3>3
  <2>2. QED
    BY <1>2, <2>1, NothingToRemember DEF Looping, Between
<1>8. CASE Raise(t)
  BY <1>0, <1>8, NothingToRemember DEF Raise, Idle, Looping, Between
<1>9. CASE LoseLease(t) \/ Crash(t)
  BY <1>0, <1>2, <1>9 DEF LoseLease, Crash, Stop
<1>10. CASE Execute(t)
  BY <1>4, <1>5, <1>6, <1>7, <1>9, <1>10, RunRemembersCards, RunRemembersPhases
  DEF Execute
<1>11. QED
  BY <1>1, <1>3, <1>8, <1>9, <1>10 DEF Worker, Heartbeat

\* A step of one thread moves no other.
LEMMA OthersStay ==
    ASSUME TypeOK, NEW u \in Threads, Worker(u), NEW t \in Threads \ {u}
    PROVE  run'[t] = run[t]
<1>0. run \in [Threads -> Thread]
  BY DEF TypeOK
<1>1. CASE Execute(u)
  BY <1>0, <1>1, ZenonT(40) DEF Execute, AppendOwed, LoseLease, Retrieve,
     KnowledgeChanged, CardStep, LeaveForGeneration, ReuseCard, RejectCard,
     PublishCard, Project, FailCard, LoopDone, EnterPhase, ModelAnswers,
     VerifyPhase, ConceptMissing, FailPublished, ReadProgress, MarkCompleted, MarkPartial,
     HandleException, CountRetry, RetryJob, MarkFailed, Goto, Stop
<1>2. QED
  BY <1>0, <1>1 DEF Worker, Claim, Heartbeat, Raise, Crash, Stop

LEMMA EveryRunRemembers ==
    ASSUME TypeOK, [Next]_vars, NothingForgotten
    PROVE  NothingForgotten'
<1> SUFFICES ASSUME NEW t \in Threads
             PROVE  Remembers(t)'
  BY DEF NothingForgotten
<1>0. Remembers(t)
  BY DEF NothingForgotten
<1>1. CASE run'[t] = run[t]
  BY <1>0, <1>1, OthersRemember
<1>2. CASE Next /\ Worker(t)
  BY <1>0, <1>2, RunRemembers
<1>3. CASE Sweep
  BY <1>1, <1>3 DEF Sweep, Recover, Expire, AppendNotice, SweepCrash
<1>4. ASSUME NEW j \in Jobs, Environment(j)
      PROVE  Remembers(t)'
  BY <1>1, <1>4 DEF Environment, Submit, LeaseRunsOut, DeadlinePasses
<1>5. QED
  BY <1>1, <1>2, <1>3, <1>4, OthersStay DEF Next, vars

\* No run loses track of a requested card, whatever the other runs of the same
\* job, the sweeps and the crashes do in between.
THEOREM RunsForgetNothing == Spec => []NothingForgotten
<1>1. Init => NothingForgotten
  BY DEF Init, NothingForgotten, Remembers, Idle, Looping, Between
<1>2. QED
  BY <1>1, EveryRunRemembers, TypeCorrect, PTL DEF Spec

\* Only mark_completed completes a job, on a reading without failed cards.
CompletedBy(j) ==
    job'[j].status = "completed" /\ job[j].status # "completed"
      => \E t \in Threads : J(t) = j /\ MarkCompleted(t)

LEMMA EveryCompletion ==
    ASSUME TypeOK, [Next]_vars, NEW j \in Jobs
    PROVE  CompletedBy(j)
<1>0. job \in [Jobs -> Row]
  BY DEF TypeOK
<1>1. CASE job'[j] = job[j]
  BY <1>1 DEF CompletedBy
<1>2. CASE job'[j].status # "completed"
  BY <1>2 DEF CompletedBy
<1>3. CASE job'[j].status = job[j].status
  BY <1>3 DEF CompletedBy
<1>4. ASSUME NEW t \in Threads, Worker(t)
      PROVE  CompletedBy(j)
  <2>0. run[t].pc # "idle" => J(t) \in Jobs
    BY DEF TypeOK, Engaged, J
  <2>1. ASSUME NEW row, job' = [job EXCEPT ![J(t)] = row],
               row.status \in {"failed", "partial"}
        PROVE  CompletedBy(j)
    BY <1>0, <1>1, <1>2, <2>1
  <2>2. ASSUME NEW k \in Jobs, Claim(t, k)
        PROVE  CompletedBy(j)
    <3>1. Claimed(job[k], t).status = "running"
      BY <1>0 DEF Claimed, Row
    <3>2. QED
      BY <1>0, <1>1, <1>2, <2>2, <3>1 DEF Claim
  <2>3. CASE KnowledgeChanged(t)
    <3>1. Close(job[J(t)], "failed").status = "failed"
      BY <1>0, <2>0, <2>3 DEF KnowledgeChanged, At, Close, Row
    <3>2. QED
      BY <2>1, <2>3, <3>1 DEF KnowledgeChanged
  <2>4. CASE MarkFailed(t)
    <3>1. Close(job[J(t)], "failed").status = "failed"
      BY <1>0, <2>0, <2>4 DEF MarkFailed, At, Close, Row
    <3>2. QED
      BY <1>1, <2>1, <2>4, <3>1 DEF MarkFailed
  <2>5. CASE MarkPartial(t)
    <3>1. [Close(job[J(t)], "partial") EXCEPT
             !.done = run[t].seenDone, !.failed = run[t].seenFailed].status = "partial"
      BY <1>0, <2>0, <2>5 DEF MarkPartial, At, Close, Row
    <3>2. QED
      BY <2>1, <2>5, <3>1 DEF MarkPartial
  <2>6. CASE MarkCompleted(t)
    <3>1. CASE J(t) = j
      BY <2>6, <3>1 DEF CompletedBy
    <3>2. CASE J(t) # j
      BY <1>0, <1>1, <2>6, <3>2 DEF MarkCompleted
    <3>3. QED
      BY <3>1, <3>2
  <2>7. CASE RetryJob(t)
    BY <1>0, <1>1, <1>2, <2>7 DEF RetryJob, Row
  <2>8. CASE \/ Retrieve(t) \/ EnterPhase(t) \/ VerifyPhase(t) \/ Heartbeat(t)
             \/ FailCard(t)
    BY <1>0, <1>3, <2>8 DEF Retrieve, EnterPhase, VerifyPhase, Heartbeat,
       FailCard, Row
  <2>9. CASE CardStep(t)
    <3>1. ASSUME NEW c \in Cards, NEW v, PublishRow(J(t), c, v)
          PROVE  CompletedBy(j)
      BY <1>0, <1>3, <3>1 DEF PublishRow, Row
    <3>2. QED
      BY <1>1, <2>9, <3>1 DEF CardStep, LeaveForGeneration, ReuseCard,
         RejectCard, PublishCard
  <2>10. CASE Execute(t)
    BY <1>1, <2>3, <2>4, <2>5, <2>6, <2>7, <2>8, <2>9, <2>10
    DEF Execute, AppendOwed, LoseLease, Project, LoopDone, ModelAnswers,
        ConceptMissing, FailPublished, ReadProgress, HandleException, CountRetry
  <2>11. QED
    BY <1>1, <1>4, <2>2, <2>8, <2>10 DEF Worker, Raise, Crash
<1>5. ASSUME NEW S \in SUBSET Stale, Recover(S)
      PROVE  CompletedBy(j)
  <2>1. Recovered(job[j]).status # "completed"
    BY <1>0 DEF Recovered, Row
  <2>2. QED
    BY <1>1, <1>2, <1>5, <2>1 DEF Recover
<1>6. ASSUME NEW S \in SUBSET Overdue, Expire(S)
      PROVE  CompletedBy(j)
  <2>1. Close(job[j], "failed").status # "completed"
    BY <1>0 DEF Close, Row
  <2>2. QED
    BY <1>1, <1>2, <1>6, <2>1 DEF Expire
<1>7. ASSUME NEW k \in Jobs, Environment(k)
      PROVE  CompletedBy(j)
  BY <1>0, <1>1, <1>2, <1>3, <1>7 DEF Environment, Submit, LeaseRunsOut,
     DeadlinePasses, Row
<1>8. QED
  BY <1>1, <1>4, <1>5, <1>6, <1>7 DEF Next, Sweep, AppendNotice, SweepCrash, vars

\* A completed job has published every card it was requested to make.
THEOREM CompletedJobsAreWhole == Spec => []CompletedIsWhole
<1>1. Init => CompletedIsWhole
  BY DEF Init, CompletedIsWhole
<1>2. TypeOK /\ NothingForgotten /\ CompletedIsWhole /\ [Next]_vars
        => CompletedIsWhole'
  <2> SUFFICES ASSUME TypeOK, NothingForgotten, CompletedIsWhole, [Next]_vars,
                      NEW j \in Jobs, job'[j].status = "completed"
               PROVE  Requested[j] \subseteq Published(j)'
    BY DEF CompletedIsWhole
  <2>1. Requested[j] \subseteq Published(j)
    <3>1. CASE job[j].status = "completed"
      BY <3>1 DEF CompletedIsWhole
    <3>2. CASE job[j].status # "completed"
      <4>1. PICK t \in Threads : J(t) = j /\ MarkCompleted(t)
        BY <3>2, EveryCompletion DEF CompletedBy
      <4>2. run[t].pc = "closing" /\ run[t].seenFailed = {}
        BY <4>1 DEF MarkCompleted, At
      <4>3. QED
        BY <4>1, <4>2 DEF NothingForgotten, Remembers
    <3>3. QED
      BY <3>1, <3>2
  <2>2. QED
    BY <2>1, PublishedGrows
<1>3. QED
  BY <1>1, <1>2, RunsForgetNothing, TypeCorrect, PTL DEF Spec

-----------------------------------------------------------------------------
(* What one step means to one job *)

\* Who owes an event of the job after the step has not moved in it.
NoNewDebt(j) ==
    \A t \in Threads :
        run'[t].job = j /\ run'[t].owed # <<>> => run'[t] = run[t]

StatusMoves(j) ==
    \/ job'[j].status = job[j].status
    \/ job[j].status = "absent" /\ job'[j].status = "queued"
    \/ job[j].status \in Claimable /\ job'[j].status = "running"
    \/ job[j].status = "running" /\ job'[j].status = "queued"
    \/ /\ \E t \in Threads : J(t) = j /\ run[t].pc = "requeue" /\ Owns(t)
       /\ job'[j].status = "queued"

Quiet(j) ==
    /\ log'[j] = log[j] /\ card'[j] = card[j]
    /\ StatusMoves(j)
    /\ NoNewDebt(j)
    /\ j \in notices' => j \in notices

Announces(j) ==
    \E t \in Threads, c \in Cards, v \in Contents :
        /\ J(t) = j /\ Owns(t) /\ run[t].pc \in {"resolve", "publish"}
        /\ card[j][c] = None
        /\ card'[j] = [card[j] EXCEPT ![c] = v]
        /\ log'[j] = Append(log[j], About("card_ready", c))
        /\ job'[j].status = job[j].status
        /\ NoNewDebt(j)
        /\ notices' = notices

Debt(outcome) ==
    IF outcome = "partial" THEN <<Plain("partial"), Plain("completed")>>
                           ELSE <<Plain(outcome)>>

Decides(j) ==
    \E t \in Threads, outcome \in {"completed", "partial", "failed"} :
        /\ J(t) = j /\ Owns(t) /\ run[t].pc \in Body \cup Handler
        /\ outcome = "completed" =>
             run[t].pc = "closing" /\ run[t].seenFailed = {}
        /\ job'[j].status = outcome
        /\ run'[t].job = j /\ run'[t].owed = Debt(outcome)
        /\ \A u \in Threads \ {t} : run'[u] = run[u]
        /\ UNCHANGED <<card, log, notices>>

Pays(j) ==
    \E t \in Threads :
        /\ J(t) = j /\ run[t].owed # <<>>
        /\ log'[j] = Append(log[j], Head(run[t].owed))
        /\ run'[t].owed = Tail(run[t].owed)
        /\ \A u \in Threads \ {t} : run'[u] = run[u]
        /\ UNCHANGED <<job, card, notices>>

Notifies(j) ==
    /\ j \in notices
    /\ log'[j] = Append(log[j], Plain("failed"))
    /\ notices' = notices \ {j}
    /\ UNCHANGED <<job, card, run>>

GivenUp(j) ==
    /\ job[j].status \in Claimable \cup {"running"}
    /\ job'[j].status = "failed"
    /\ UNCHANGED <<card, log, run>>

JobMoves(j) ==
    \/ Quiet(j) \/ Announces(j) \/ Decides(j)
    \/ Pays(j) \/ Notifies(j) \/ GivenUp(j)

\* A thread that moves without owing an event adds no debt.
LEMMA NoDebtAdded ==
    ASSUME TypeOK, NEW t \in Threads, NEW th,
           run' = [run EXCEPT ![t] = th], th.owed = <<>>, NEW j
    PROVE  NoNewDebt(j)
  BY DEF NoNewDebt, TypeOK

LEMMA QuietThread ==
    ASSUME TypeOK, NEW t \in Threads, NEW th,
           run' = [run EXCEPT ![t] = th], th.owed = <<>>,
           UNCHANGED <<card, log, notices>>, NEW j \in Jobs, StatusMoves(j)
    PROVE  JobMoves(j)
  BY NoDebtAdded DEF Quiet, JobMoves

\* One row is rewritten without a change of its status.
LEMMA StatusKept ==
    ASSUME TypeOK, NEW k \in Jobs, NEW row, job' = [job EXCEPT ![k] = row],
           row.status = job[k].status, NEW j \in Jobs
    PROVE  StatusMoves(j)
  BY DEF TypeOK, StatusMoves

\* What a thread does to its own job is quiet for every other one.
LEMMA QuietElsewhere ==
    ASSUME TypeOK, NEW t \in Threads, NEW th, run' = [run EXCEPT ![t] = th],
           NEW j \in Jobs, th.job # j, StatusMoves(j),
           log'[j] = log[j], card'[j] = card[j], notices' = notices
    PROVE  JobMoves(j)
  BY DEF NoNewDebt, Quiet, JobMoves, TypeOK

LEMMA DecisionMoves ==
    ASSUME TypeOK, NEW t \in Threads, NEW th, run' = [run EXCEPT ![t] = th],
           NEW outcome \in {"completed", "partial", "failed"}, NEW row,
           J(t) \in Jobs, Owns(t), run[t].pc \in Body \cup Handler,
           outcome = "completed" =>
             run[t].pc = "closing" /\ run[t].seenFailed = {},
           job' = [job EXCEPT ![J(t)] = row], row.status = outcome,
           th.job = J(t), th.owed = Debt(outcome),
           UNCHANGED <<card, log, session, notices>>, NEW j \in Jobs
    PROVE  JobMoves(j)
<1>1. CASE j = J(t)
  <2>1. /\ run'[t] = th /\ \A u \in Threads \ {t} : run'[u] = run[u]
        /\ job'[j] = row
    BY <1>1 DEF TypeOK
  <2>2. Decides(j)
    BY <1>1, <2>1 DEF Decides
  <2>3. QED
    BY <2>2 DEF JobMoves
<1>2. CASE j # J(t)
  <2>1. job'[j] = job[j]
    BY <1>2 DEF TypeOK
  <2>2. QED
    BY <1>2, <2>1, QuietElsewhere DEF StatusMoves
<1>3. QED
  BY <1>1, <1>2

LEMMA PublicationMoves ==
    ASSUME TypeOK, NEW t \in Threads, NEW th, run' = [run EXCEPT ![t] = th],
           th.owed = <<>>, J(t) \in Jobs, Owns(t), InLoop(t),
           NEW c \in Cards, NEW v \in Contents, PublishRow(J(t), c, v),
           UNCHANGED <<session, notices>>, NEW j \in Jobs
    PROVE  JobMoves(j)
<1>1. job'[j].status = job[j].status
  BY DEF PublishRow, TypeOK, Row
<1>2. NoNewDebt(j)
  BY NoDebtAdded
<1>3. CASE j = J(t) /\ card[j][c] = None
  <2>1. card' = [card EXCEPT ![j][c] = v]
        /\ log' = [log EXCEPT ![j] = Append(log[j], About("card_ready", c))]
    BY <1>3 DEF PublishRow
  <2>2. card'[j] = [card[j] EXCEPT ![c] = v]
        /\ log'[j] = Append(log[j], About("card_ready", c))
    BY <2>1 DEF TypeOK
  <2>3. run[t].pc \in {"resolve", "publish"}
    BY DEF InLoop, At
  <2>4. Announces(j)
    BY <1>1, <1>2, <1>3, <2>2, <2>3 DEF Announces
  <2>5. QED
    BY <2>4 DEF JobMoves
<1>4. CASE ~(j = J(t) /\ card[j][c] = None)
  <2>1. card'[j] = card[j] /\ log'[j] = log[j]
    BY <1>4 DEF PublishRow, TypeOK
  <2>2. QED
    BY <1>1, <1>2, <2>1 DEF Quiet, JobMoves, StatusMoves
<1>5. QED
  BY <1>3, <1>4

LEMMA MovesInRun ==
    ASSUME TypeOK, NEW t \in Threads, Worker(t), NEW j \in Jobs
    PROVE  JobMoves(j)
<1> DEFINE th == run[t]
           r == job[J(t)]
<1>0. /\ th \in Thread
      /\ th.pc # "idle" => J(t) \in Jobs /\ r \in Row
  BY DEF TypeOK, Engaged, J
<1>a. Idle.owed = <<>>
  BY DEF Idle
<1>b. job' = job => StatusMoves(j)
  BY DEF StatusMoves
<1>1. ASSUME NEW k \in Jobs, Claim(t, k)
      PROVE  JobMoves(j)
  <2> DEFINE th2 == [Idle EXCEPT !.pc = "retrieve", !.job = k]
  <2>1. th2.owed = <<>>
    BY DEF Idle
  <2>2. Claimed(job[k], t).status = "running" /\ job[k].status \in Claimable
    BY <1>1 DEF Claimed, TypeOK, Row, Claim
  <2>3. StatusMoves(j)
    BY <1>1, <2>2 DEF Claim, TypeOK, StatusMoves
  <2>4. QED
    BY <1>1, <2>1, <2>3, QuietThread DEF Claim
<1>2. CASE AppendOwed(t)
  <2>1. th.owed # <<>> /\ J(t) \in Jobs
    BY <1>0, <1>2 DEF AppendOwed, TypeOK, Engaged, J
  <2>2. run'[t].owed = Tail(th.owed) /\ \A u \in Threads \ {t} : run'[u] = run[u]
    BY <1>0, <1>2, <1>a DEF AppendOwed, Stop, TypeOK, Thread
  <2>3. CASE j = J(t)
    <3>1. log'[j] = Append(log[j], Head(th.owed))
      BY <1>2, <2>1, <2>3 DEF AppendOwed, TypeOK
    <3>2. Pays(j)
      BY <1>2, <2>1, <2>2, <2>3, <3>1 DEF AppendOwed, Pays
    <3>3. QED
      BY <3>2 DEF JobMoves
  <2>4. CASE j # J(t)
    <3>1. run'[t].job # j
      BY <1>0, <1>2, <2>4, JobsAssumption DEF AppendOwed, Stop, Idle, TypeOK, Thread, J
    <3>2. log'[j] = log[j]
      BY <1>2, <2>4 DEF AppendOwed, TypeOK
    <3>3. NoNewDebt(j)
      BY <2>2, <3>1 DEF NoNewDebt
    <3>4. QED
      BY <1>2, <1>b, <3>2, <3>3 DEF AppendOwed, Quiet, JobMoves
  <2>5. QED
    BY <2>3, <2>4
<1>3. ASSUME run' = [run EXCEPT ![t] = Idle], UNCHANGED <<job, card, log, notices>>
      PROVE  JobMoves(j)
  BY <1>3, <1>a, <1>b, QuietThread
<1>4. ASSUME NEW p, th.owed = <<>>, Goto(t, p), UNCHANGED <<card, log, notices>>,
             StatusMoves(j)
      PROVE  JobMoves(j)
  <2>1. run' = [run EXCEPT ![t] = [th EXCEPT !.pc = p]]
    BY <1>4 DEF Goto, TypeOK
  <2>2. [th EXCEPT !.pc = p].owed = <<>>
    BY <1>0, <1>4 DEF Thread
  <2>3. QED
    BY <1>4, <2>1, <2>2, QuietThread
<1>5. CASE LoseLease(t) \/ Crash(t)
  BY <1>3, <1>5 DEF LoseLease, Crash, Stop
<1>6. CASE Raise(t)
  <2>1. [Idle EXCEPT !.pc = "raised", !.job = J(t)].owed = <<>>
    BY DEF Idle
  <2>2. QED
    BY <1>6, <1>a, <1>b, <2>1, QuietThread DEF Raise
<1>7. CASE Heartbeat(t)
  <2>1. /\ J(t) \in Jobs
        /\ job' = [job EXCEPT ![J(t)] = [r EXCEPT !.lease = "live"]]
    BY <1>0, <1>7 DEF Heartbeat
  <2>2. [r EXCEPT !.lease = "live"].status = r.status
    BY <1>0, <1>7 DEF Heartbeat, Row
  <2>3. StatusMoves(j)
    BY <2>1, <2>2, StatusKept
  <2>4. QED
    BY <1>7, <2>3 DEF Heartbeat, Quiet, JobMoves, NoNewDebt
<1>8. CASE Retrieve(t)
  <2> DEFINE th2 == [th EXCEPT !.pc = "resolve", !.todo = Requested[J(t)]]
             row == [r EXCEPT !.pipeline = "retrieving"]
  <2>1. J(t) \in Jobs /\ th.owed = <<>>
    BY <1>0, <1>8 DEF Retrieve, At
  <2>2. run' = [run EXCEPT ![t] = th2] /\ job' = [job EXCEPT ![J(t)] = row]
    BY <1>8 DEF Retrieve, TypeOK
  <2>3. th2.owed = <<>> /\ row.status = r.status
    BY <1>0, <2>1 DEF Thread, Row
  <2>4. StatusMoves(j)
    BY <2>1, <2>2, <2>3, StatusKept
  <2>5. QED
    BY <1>8, <2>2, <2>3, <2>4, QuietThread DEF Retrieve
<1>9. CASE EnterPhase(t)
  <2> DEFINE row == [r EXCEPT !.pipeline =
                       IF InConcept(t) THEN "blueprint" ELSE "supporting"]
  <2>1. J(t) \in Jobs /\ th.owed = <<>>
    BY <1>0, <1>9 DEF EnterPhase, At
  <2>2. job' = [job EXCEPT ![J(t)] = row] /\ row.status = r.status
    BY <1>0, <1>9, <2>1 DEF EnterPhase, Row
  <2>3. StatusMoves(j)
    BY <2>1, <2>2, StatusKept
  <2>4. QED
    BY <1>4, <1>9, <2>1, <2>3 DEF EnterPhase
<1>10. CASE VerifyPhase(t)
  <2> DEFINE th2 == [th EXCEPT !.pc = "publish", !.todo = Phase(t),
                               !.work = @ \ Phase(t)]
             row == [r EXCEPT !.pipeline =
                       IF InConcept(t) THEN "concept" ELSE "validating"]
  <2>1. J(t) \in Jobs /\ th.owed = <<>>
    BY <1>0, <1>10 DEF VerifyPhase, At
  <2>2. run' = [run EXCEPT ![t] = th2]
    BY <1>10 DEF VerifyPhase, TypeOK
  <2>3. job' = [job EXCEPT ![J(t)] = row] /\ row.status = r.status
    BY <1>0, <1>10, <2>1 DEF VerifyPhase, Row
  <2>4. th2.owed = <<>>
    BY <1>0, <2>1 DEF Thread
  <2>5. StatusMoves(j)
    BY <2>1, <2>3, StatusKept
  <2>6. QED
    BY <1>10, <2>2, <2>4, <2>5, QuietThread DEF VerifyPhase
<1>11. CASE FailCard(t)
  <2> DEFINE th2 == [th EXCEPT !.pc = th.back, !.card = None,
                               !.seenDone = {}, !.seenFailed = {}]
             row == [r EXCEPT !.done = th.seenDone,
                              !.failed = th.seenFailed \cup {th.card}]
  <2>1. J(t) \in Jobs /\ th.owed = <<>>
    BY <1>0, <1>11 DEF FailCard, At
  <2>2. run' = [run EXCEPT ![t] = th2] /\ job' = [job EXCEPT ![J(t)] = row]
    BY <1>11, <2>1 DEF FailCard, TypeOK
  <2>3. th2.owed = <<>> /\ row.status = r.status
    BY <1>0, <2>1 DEF Thread, Row
  <2>4. StatusMoves(j)
    BY <2>1, <2>2, <2>3, StatusKept
  <2>5. QED
    BY <1>11, <2>2, <2>3, <2>4, QuietThread DEF FailCard
<1>12. CASE KnowledgeChanged(t)
  <2> DEFINE th2 == [th EXCEPT !.pc = "done", !.owed = <<Plain("failed")>>]
  <2>1. J(t) \in Jobs /\ th.owed = <<>> /\ th.pc = "resolve" /\ Owns(t)
    BY <1>0, <1>12 DEF KnowledgeChanged, At
  <2>2. run' = [run EXCEPT ![t] = th2]
        /\ job' = [job EXCEPT ![J(t)] = Close(r, "failed")]
    BY <1>12, <2>1 DEF KnowledgeChanged, TypeOK
  <2>3. th2.job = J(t) /\ th2.owed = Debt("failed")
        /\ Close(r, "failed").status = "failed" /\ th.pc \in Body
    BY <1>0, <2>1 DEF Thread, J, Debt, Close, Row, Body, Fenced
  <2>4. QED
    BY <1>12, <2>1, <2>2, <2>3, DecisionMoves DEF KnowledgeChanged
<1>13. CASE MarkCompleted(t)
  <2> DEFINE th2 == [th EXCEPT !.pc = "done", !.owed = <<Plain("completed")>>]
  <2>1. J(t) \in Jobs /\ th.owed = <<>> /\ th.pc = "closing" /\ Owns(t)
        /\ th.seenFailed = {}
    BY <1>0, <1>13 DEF MarkCompleted, At
  <2>2. run' = [run EXCEPT ![t] = th2]
        /\ job' = [job EXCEPT ![J(t)] = Close(r, "completed")]
    BY <1>13, <2>1 DEF MarkCompleted, TypeOK
  <2>3. th2.job = J(t) /\ th2.owed = Debt("completed")
        /\ Close(r, "completed").status = "completed" /\ th.pc \in Body
    BY <1>0, <2>1 DEF Thread, J, Debt, Close, Row, Body, Fenced
  <2>4. QED
    BY <1>13, <2>1, <2>2, <2>3, DecisionMoves DEF MarkCompleted
<1>14. CASE MarkPartial(t)
  <2> DEFINE th2 == [th EXCEPT !.pc = "done",
                               !.owed = <<Plain("partial"), Plain("completed")>>]
             row == [Close(r, "partial") EXCEPT !.done = th.seenDone,
                                                !.failed = th.seenFailed]
  <2>1. J(t) \in Jobs /\ th.owed = <<>> /\ th.pc = "closing" /\ Owns(t)
    BY <1>0, <1>14 DEF MarkPartial, At
  <2>2. run' = [run EXCEPT ![t] = th2] /\ job' = [job EXCEPT ![J(t)] = row]
    BY <1>14, <2>1 DEF MarkPartial, TypeOK
  <2>3. th2.job = J(t) /\ th2.owed = Debt("partial")
        /\ row.status = "partial" /\ th.pc \in Body
    BY <1>0, <2>1 DEF Thread, J, Debt, Close, Row, Body, Fenced
  <2>4. QED
    BY <1>14, <2>1, <2>2, <2>3, DecisionMoves DEF MarkPartial
<1>15. CASE MarkFailed(t)
  <2>1. J(t) \in Jobs /\ th.owed = <<>> /\ th.pc = "failing"
    BY <1>0, <1>15 DEF MarkFailed, At
  <2>2. CASE ~Owns(t)
    BY <1>3, <1>15, <2>2 DEF MarkFailed, Stop
  <2>3. CASE Owns(t)
    <3> DEFINE th2 == [th EXCEPT !.pc = "done", !.count = 0,
                                 !.owed = <<Plain("failed")>>]
    <3>1. run' = [run EXCEPT ![t] = th2]
          /\ job' = [job EXCEPT ![J(t)] = Close(r, "failed")]
      BY <1>15, <2>1, <2>3 DEF MarkFailed, TypeOK
    <3>2. th2.job = J(t) /\ th2.owed = Debt("failed")
          /\ Close(r, "failed").status = "failed" /\ th.pc \in Handler
      BY <1>0, <2>1 DEF Thread, J, Debt, Close, Row, Handler
    <3>3. QED
      BY <1>15, <2>1, <2>3, <3>1, <3>2, DecisionMoves DEF MarkFailed
  <2>4. QED
    BY <2>2, <2>3
<1>16. CASE RetryJob(t)
  <2>1. J(t) \in Jobs /\ th.owed = <<>> /\ th.pc = "requeue"
    BY <1>0, <1>16 DEF RetryJob, At
  <2>2. CASE ~Owns(t)
    BY <1>4, <1>16, <1>b, <2>1, <2>2 DEF RetryJob
  <2>3. CASE Owns(t)
    <3> DEFINE row == [r EXCEPT !.status = "queued", !.pipeline = "queued",
                                !.retries = th.count]
    <3>1. job' = [job EXCEPT ![J(t)] = row] /\ row.status = "queued"
      BY <1>0, <1>16, <2>1, <2>3 DEF RetryJob, Row
    <3>2. StatusMoves(j)
      BY <2>1, <2>3, <3>1 DEF StatusMoves, TypeOK
    <3>3. QED
      BY <1>16, <1>a, <2>3, <3>2, QuietThread DEF RetryJob, Stop
  <2>4. QED
    BY <2>2, <2>3
<1>17. ASSUME NEW c \in Cards, ReuseCard(t, c)
       PROVE  JobMoves(j)
  <2> DEFINE th2 == [th EXCEPT !.todo = @ \ {c}]
  <2>1. J(t) \in Jobs /\ th.owed = <<>> /\ InLoop(t) /\ Owns(t)
    BY <1>0, <1>17 DEF ReuseCard, At, InLoop
  <2>2. run' = [run EXCEPT ![t] = th2] /\ th2.owed = <<>>
    BY <1>0, <1>17, <2>1 DEF ReuseCard, TypeOK, Thread
  <2>3. session[J(t)][c] \in Contents
    BY <1>17, <2>1 DEF ReuseCard, TypeOK
  <2>4. QED
    BY <1>17, <2>1, <2>2, <2>3, PublicationMoves DEF ReuseCard
<1>18. ASSUME NEW c \in Cards, NEW v \in Contents, PublishCard(t, c, v)
       PROVE  JobMoves(j)
  <2> DEFINE th2 == [th EXCEPT !.pc = "project", !.back = th.pc,
                               !.todo = @ \ {c}, !.card = c, !.content = v]
  <2>1. J(t) \in Jobs /\ th.owed = <<>> /\ InLoop(t) /\ Owns(t)
    BY <1>0, <1>18 DEF PublishCard, At, InLoop
  <2>2. run' = [run EXCEPT ![t] = th2] /\ th2.owed = <<>>
    BY <1>0, <1>18, <2>1 DEF PublishCard, TypeOK, Thread
  <2>3. QED
    BY <1>18, <2>1, <2>2, PublicationMoves DEF PublishCard
<1>19. ASSUME NEW th2, run' = [run EXCEPT ![t] = th2], th2.owed = th.owed,
              th.owed = <<>>, UNCHANGED <<job, card, log, notices>>
       PROVE  JobMoves(j)
  BY <1>19, <1>b, QuietThread
<1>20. ASSUME NEW c \in Cards, LeaveForGeneration(t, c) \/ RejectCard(t, c)
       PROVE  JobMoves(j)
  <2>1. PICK th2 : run' = [run EXCEPT ![t] = th2] /\ th2.owed = th.owed
    <3>1. CASE LeaveForGeneration(t, c)
      <4> DEFINE th2 == [th EXCEPT !.todo = @ \ {c}, !.work = @ \cup {c}]
      <4>1. run' = [run EXCEPT ![t] = th2] /\ th2.owed = th.owed
        BY <1>0, <3>1 DEF LeaveForGeneration, TypeOK, Thread
      <4>2. QED
        BY <4>1
    <3>2. CASE RejectCard(t, c)
      <4> DEFINE th2 == [th EXCEPT !.pc = "failcard", !.back = th.pc,
                               !.todo = @ \ {c}, !.card = c,
                               !.seenDone = r.done, !.seenFailed = r.failed]
      <4>1. run' = [run EXCEPT ![t] = th2] /\ th2.owed = th.owed
        BY <1>0, <3>2 DEF RejectCard, TypeOK, Thread
      <4>2. QED
        BY <4>1
    <3>3. QED
      BY <1>20, <3>1, <3>2
  <2>2. th.owed = <<>> /\ UNCHANGED <<job, card, log, notices>>
    BY <1>20 DEF LeaveForGeneration, RejectCard, InLoop, At
  <2>3. QED
    BY <1>19, <2>1, <2>2
<1>21. CASE CardStep(t)
  BY <1>17, <1>18, <1>20, <1>21 DEF CardStep
<1>22. CASE Project(t) \/ FailPublished(t) \/ ConceptMissing(t) \/ ReadProgress(t)
            \/ CountRetry(t)
  <2>1. PICK th2 : run' = [run EXCEPT ![t] = th2] /\ th2.owed = th.owed
    <3>1. CASE Project(t)
      <4> DEFINE th2 == [th EXCEPT !.pc = th.back, !.card = None, !.content = None]
      <4>1. run' = [run EXCEPT ![t] = th2] /\ th2.owed = th.owed
        BY <1>0, <3>1 DEF Project, TypeOK, Thread
      <4>2. QED
        BY <4>1
    <3>2. CASE FailPublished(t)
      <4> DEFINE th2 == [th EXCEPT !.pc = "failcard", !.content = None,
                               !.seenDone = r.done, !.seenFailed = r.failed]
      <4>1. run' = [run EXCEPT ![t] = th2] /\ th2.owed = th.owed
        BY <1>0, <3>2 DEF FailPublished, TypeOK, Thread
      <4>2. QED
        BY <4>1
    <3>3. CASE ConceptMissing(t)
      <4> DEFINE th2 == [th EXCEPT !.pc = "failcard", !.back = "publish",
                               !.work = @ \ {Concept}, !.card = Concept,
                               !.seenDone = r.done, !.seenFailed = r.failed]
      <4>1. run' = [run EXCEPT ![t] = th2] /\ th2.owed = th.owed
        BY <1>0, <3>3 DEF ConceptMissing, TypeOK, Thread
      <4>2. QED
        BY <4>1
    <3>4. CASE ReadProgress(t)
      <4> DEFINE th2 == [th EXCEPT !.pc = "closing",
                               !.seenDone = r.done, !.seenFailed = r.failed]
      <4>1. run' = [run EXCEPT ![t] = th2] /\ th2.owed = th.owed
        BY <1>0, <3>4 DEF ReadProgress, TypeOK, Thread
      <4>2. QED
        BY <4>1
    <3>5. CASE CountRetry(t)
      <4> DEFINE th2 == [th EXCEPT !.pc = "requeue", !.count = r.retries + 1]
      <4>1. run' = [run EXCEPT ![t] = th2] /\ th2.owed = th.owed
        BY <1>0, <3>5 DEF CountRetry, TypeOK, Thread
      <4>2. QED
        BY <4>1
    <3>6. QED
      BY <1>22, <3>1, <3>2, <3>3, <3>4, <3>5
  <2>2. th.owed = <<>> /\ UNCHANGED <<job, card, log, notices>>
    BY <1>22 DEF Project, FailPublished, ConceptMissing, ReadProgress, CountRetry, At
  <2>3. QED
    BY <1>19, <2>1, <2>2
<1>23. CASE LoopDone(t) \/ ModelAnswers(t) \/ HandleException(t)
  BY <1>4, <1>23, <1>b DEF LoopDone, ModelAnswers, HandleException, InLoop, At
<1>24. CASE Execute(t)
  BY <1>2, <1>5, <1>8, <1>9, <1>10, <1>11, <1>12, <1>13, <1>14, <1>15, <1>16,
     <1>21, <1>22, <1>23, <1>24 DEF Execute
<1>25. QED
  BY <1>1, <1>5, <1>6, <1>7, <1>24 DEF Worker

LEMMA MovesInSweep ==
    ASSUME TypeOK, Sweep, NEW j \in Jobs
    PROVE  JobMoves(j)
<1>0. job[j] \in Row
  BY DEF TypeOK
<1>a. run' = run => NoNewDebt(j)
  BY DEF NoNewDebt
<1>1. ASSUME NEW S \in SUBSET Stale, Recover(S)
      PROVE  JobMoves(j)
  <2>1. CASE j \notin S
    <3>1. job'[j] = job[j] /\ (j \in notices' => j \in notices)
      BY <1>1, <2>1 DEF Recover
    <3>2. QED
      BY <1>1, <1>a, <3>1 DEF Recover, Quiet, StatusMoves, JobMoves
  <2>2. CASE j \in S
    <3>1. job[j].status = "running" /\ job'[j] = Recovered(job[j])
      BY <1>1, <2>2 DEF Recover, Stale
    <3>2. CASE job[j].retries < MaxRetries
      <4>1. job'[j].status = "queued"
        BY <1>0, <3>1, <3>2 DEF Recovered, Row
      <4>2. j \in notices' => j \in notices
        BY <1>1, <3>1, <4>1 DEF Recover
      <4>3. QED
        BY <1>1, <1>a, <3>1, <4>1, <4>2 DEF Recover, Quiet, StatusMoves, JobMoves
    <3>3. CASE ~(job[j].retries < MaxRetries)
      <4>1. job'[j].status = "failed"
        BY <1>0, <3>1, <3>3 DEF Recovered, Row
      <4>2. QED
        BY <1>1, <3>1, <4>1 DEF Recover, GivenUp, JobMoves
    <3>4. QED
      BY <3>2, <3>3
  <2>3. QED
    BY <2>1, <2>2
<1>2. ASSUME NEW S \in SUBSET Overdue, Expire(S)
      PROVE  JobMoves(j)
  <2>1. CASE j \notin S
    <3>1. job'[j] = job[j] /\ (j \in notices' => j \in notices)
      BY <1>2, <2>1 DEF Expire
    <3>2. QED
      BY <1>2, <1>a, <3>1 DEF Expire, Quiet, StatusMoves, JobMoves
  <2>2. CASE j \in S
    <3>1. /\ job[j].status \in Claimable \cup {"running"}
          /\ job'[j] = Close(job[j], "failed")
      BY <1>2, <2>2 DEF Expire, Overdue
    <3>2. job'[j].status = "failed"
      BY <1>0, <3>1 DEF Close, Row
    <3>3. QED
      BY <1>2, <3>1, <3>2 DEF Expire, GivenUp, JobMoves
  <2>3. QED
    BY <2>1, <2>2
<1>3. ASSUME NEW k \in Jobs, AppendNotice(k)
      PROVE  JobMoves(j)
  <2>1. CASE k = j
    BY <1>3, <2>1 DEF AppendNotice, TypeOK, Notifies, JobMoves
  <2>2. CASE k # j
    BY <1>3, <1>a, <2>2 DEF AppendNotice, TypeOK, Quiet, StatusMoves, JobMoves
  <2>3. QED
    BY <2>1, <2>2
<1>4. ASSUME NEW k \in Jobs, SweepCrash(k)
      PROVE  JobMoves(j)
  BY <1>4, <1>a DEF SweepCrash, Quiet, StatusMoves, JobMoves
<1>5. QED
  BY <1>1, <1>2, <1>3, <1>4 DEF Sweep

LEMMA MovesInEnvironment ==
    ASSUME TypeOK, NEW k \in Jobs, Environment(k), NEW j \in Jobs
    PROVE  JobMoves(j)
<1>0. job \in [Jobs -> Row]
  BY DEF TypeOK
<1>1. StatusMoves(j)
  BY <1>0 DEF Environment, Submit, LeaseRunsOut, DeadlinePasses, StatusMoves, Row
<1>2. UNCHANGED <<card, log, run, notices>>
  BY DEF Environment, Submit, LeaseRunsOut, DeadlinePasses
<1>3. QED
  BY <1>1, <1>2 DEF Quiet, NoNewDebt, JobMoves

LEMMA EveryJobMoves ==
    ASSUME TypeOK, [Next]_vars, NEW j \in Jobs
    PROVE  JobMoves(j)
<1>1. CASE UNCHANGED vars
  BY <1>1 DEF vars, Quiet, StatusMoves, NoNewDebt, JobMoves
<1>2. CASE Next
  BY <1>2, MovesInRun, MovesInSweep, MovesInEnvironment DEF Next
<1>3. QED
  BY <1>1, <1>2

-----------------------------------------------------------------------------
(* The end of a job and the events that tell it *)

Said(j) == Positions(j, "failed") \cup Positions(j, "completed")

\* The events a thread still owes fit the durable end of its job, and nobody
\* else tells it or is going to.
OwesTruly(t, j) ==
    /\ \/ job[j].status \in {"completed", "failed"}
            /\ run[t].owed = <<Plain(job[j].status)>>
       \/ job[j].status = "partial" /\ Positions(j, "partial") = {}
            /\ run[t].owed = <<Plain("partial"), Plain("completed")>>
       \/ job[j].status = "partial" /\ Positions(j, "partial") # {}
            /\ run[t].owed = <<Plain("completed")>>
    /\ Said(j) = {}
    /\ j \notin notices
    /\ \A u \in Threads \ {t} : J(u) = j => run[u].owed = <<>>

\* Terminal events are in the log, owed by a sweep, or owed by a thread only
\* when the row has that end.
ToldTruly(j) ==
    /\ Positions(j, "failed") # {} => job[j].status = "failed"
    /\ Positions(j, "completed") # {} => job[j].status \in {"completed", "partial"}
    /\ Positions(j, "partial") # {} => job[j].status = "partial"
    /\ Positions(j, "cancelled") = {}
    /\ j \in notices => job[j].status = "failed" /\ Said(j) = {}
    /\ Said(j) = {} \/ \E i : Said(j) = {i}

EndTruly(j) ==
    /\ ToldTruly(j)
    /\ \A t \in Threads : J(t) = j /\ run[t].owed # <<>> => OwesTruly(t, j)

EndsDue == \A j \in Jobs : EndTruly(j)

\* What one more event does to the places of a type.
LEMMA PlacesKept ==
    ASSUME NEW j \in Jobs, log'[j] = log[j], NEW type
    PROVE  Positions(j, type)' = Positions(j, type)
  BY DEF Positions

LEMMA PlacesAfter ==
    ASSUME TypeOK, NEW j \in Jobs, NEW e \in Event, log'[j] = Append(log[j], e),
           NEW type
    PROVE  Positions(j, type)' =
             Positions(j, type) \cup (IF e.type = type THEN {Len(log[j]) + 1} ELSE {})
<1>1. log[j] \in Seq(Event)
  BY DEF TypeOK
<1>2. /\ DOMAIN log[j] = 1..Len(log[j]) /\ Len(log[j]) \in Nat
      /\ DOMAIN log'[j] = 1..(Len(log[j]) + 1)
      /\ \A i \in 1..Len(log[j]) : log'[j][i] = log[j][i]
      /\ log'[j][Len(log[j]) + 1] = e
  BY <1>1
<1>3. QED
  BY <1>2 DEF Positions

\* An active job has told no end and nobody owes one.
LEMMA ActiveOwesNothing ==
    ASSUME NEW j \in Jobs, ~Ended(j), EndTruly(j)
    PROVE  /\ \A type \in Terminal : Positions(j, type) = {}
           /\ Said(j) = {}
           /\ j \notin notices
           /\ \A t \in Threads : J(t) = j => run[t].owed = <<>>
  BY DEF EndTruly, ToldTruly, OwesTruly, Said, Ended, Terminal

LEMMA QuietKeepsEnds ==
    ASSUME TypeOK, EndedIsReleased, NEW j \in Jobs, EndTruly(j), Quiet(j)
    PROVE  EndTruly(j)'
<1>1. /\ \A type : Positions(j, type)' = Positions(j, type)
      /\ Said(j)' = Said(j)
  BY PlacesKept DEF Quiet, Said
<1>2. \A t \in Threads : run'[t].job = j /\ run'[t].owed # <<>> => run'[t] = run[t]
  BY DEF Quiet, NoNewDebt
<1>3. CASE ~Ended(j)
  <2>1. ToldTruly(j)'
    BY <1>1, <1>3, ActiveOwesNothing DEF ToldTruly, Quiet, Terminal
  <2>2. \A t \in Threads : run'[t].job = j => run'[t].owed = <<>>
    BY <1>2, <1>3, ActiveOwesNothing DEF J
  <2>3. QED
    BY <2>1, <2>2 DEF EndTruly, J
<1>4. CASE Ended(j)
  <2>1. job'[j].status = job[j].status
    BY <1>4, OwnersAreActive DEF Quiet, StatusMoves, Ended, Terminal, Claimable
  <2>2. ToldTruly(j)'
    BY <1>1, <2>1 DEF EndTruly, ToldTruly, Quiet
  <2>3. ASSUME NEW t \in Threads, run'[t].job = j, run'[t].owed # <<>>
        PROVE  OwesTruly(t, j)'
    <3>1. run'[t] = run[t] /\ OwesTruly(t, j)
      BY <1>2, <2>3 DEF EndTruly, J
    <3>2. \A u \in Threads \ {t} : run'[u].job = j => run'[u].owed = <<>>
      BY <1>2, <3>1 DEF OwesTruly, J
    <3>3. QED
      BY <1>1, <2>1, <3>1, <3>2 DEF OwesTruly, Quiet, J
  <2>4. QED
    BY <2>2, <2>3 DEF EndTruly, J
<1>5. QED
  BY <1>3, <1>4

LEMMA AnnouncementKeepsEnds ==
    ASSUME TypeOK, EndedIsReleased, NEW j \in Jobs, EndTruly(j), Announces(j)
    PROVE  EndTruly(j)'
<1>1. PICK c \in Cards : log'[j] = Append(log[j], About("card_ready", c))
  BY DEF Announces
<1>2. ~Ended(j) /\ job'[j].status = job[j].status /\ notices' = notices
  BY OwnersAreActive DEF Announces
<1>3. \A t \in Threads : run'[t].job = j => run'[t].owed = <<>>
  BY <1>2, ActiveOwesNothing DEF Announces, NoNewDebt, J
<1>4. About("card_ready", c) \in Event
  BY EventTypes
<1>5. \A type \in Terminal : Positions(j, type)' = Positions(j, type)
  <2>1. \A type : Positions(j, type)' = Positions(j, type)
                    \cup (IF "card_ready" = type THEN {Len(log[j]) + 1} ELSE {})
    BY <1>1, <1>4, PlacesAfter DEF About
  <2>2. QED
    BY <2>1 DEF Terminal
<1>6. \A type \in Terminal : Positions(j, type)' = {}
  BY <1>2, <1>5, ActiveOwesNothing
<1>7. ToldTruly(j)'
  BY <1>2, <1>6, ActiveOwesNothing DEF ToldTruly, Said, Terminal
<1>8. QED
  BY <1>3, <1>7 DEF EndTruly, J

LEMMA DecisionKeepsEnds ==
    ASSUME TypeOK, EndedIsReleased, NEW j \in Jobs, EndTruly(j), Decides(j)
    PROVE  EndTruly(j)'
<1>1. PICK t \in Threads, outcome \in {"completed", "partial", "failed"} :
        /\ J(t) = j /\ Owns(t)
        /\ job'[j].status = outcome
        /\ run'[t].job = j /\ run'[t].owed = Debt(outcome)
        /\ \A u \in Threads \ {t} : run'[u] = run[u]
        /\ UNCHANGED <<card, log, notices>>
  BY DEF Decides
<1>2. /\ \A type \in Terminal : Positions(j, type) = {}
      /\ Said(j) = {} /\ j \notin notices
      /\ \A u \in Threads : J(u) = j => run[u].owed = <<>>
  BY <1>1, OwnersAreActive, ActiveOwesNothing
<1>3. /\ \A type : Positions(j, type)' = Positions(j, type)
      /\ Said(j)' = Said(j)
  BY <1>1, PlacesKept DEF Said
<1>4. ToldTruly(j)'
  BY <1>1, <1>2, <1>3 DEF ToldTruly, Terminal
<1>5. \A u \in Threads \ {t} : run'[u].job = j => run'[u].owed = <<>>
  BY <1>1, <1>2 DEF J
<1>6. OwesTruly(t, j)'
  BY <1>1, <1>2, <1>3, <1>5 DEF OwesTruly, Debt, J, Terminal
<1>7. QED
  BY <1>4, <1>5, <1>6 DEF EndTruly, J

LEMMA PaymentKeepsEnds ==
    ASSUME TypeOK, NEW j \in Jobs, EndTruly(j), Pays(j)
    PROVE  EndTruly(j)'
<1>1. PICK t \in Threads :
        /\ J(t) = j /\ run[t].owed # <<>>
        /\ log'[j] = Append(log[j], Head(run[t].owed))
        /\ run'[t].owed = Tail(run[t].owed)
        /\ \A u \in Threads \ {t} : run'[u] = run[u]
        /\ UNCHANGED <<job, card, notices>>
  BY DEF Pays
<1>2. OwesTruly(t, j) /\ ToldTruly(j)
  BY <1>1 DEF EndTruly
<1>3. \A u \in Threads \ {t} : run'[u].job = j => run'[u].owed = <<>>
  BY <1>1, <1>2 DEF OwesTruly, J
<1> DEFINE n == Len(log[j]) + 1
<1>4. CASE run[t].owed = <<Plain("partial"), Plain("completed")>>
  <2>1. /\ Head(run[t].owed) = Plain("partial")
        /\ run'[t].owed = <<Plain("completed")>>
    BY <1>1, <1>4
  <2>2. job[j].status = "partial" /\ Positions(j, "partial") = {}
    BY <1>2, <1>4 DEF OwesTruly, Plain
  <2>3. \A type : Positions(j, type)' = Positions(j, type)
                    \cup (IF "partial" = type THEN {n} ELSE {})
    BY <1>1, <2>1, EventTypes, PlacesAfter DEF Plain, Terminal
  <2>4. Said(j)' = Said(j) /\ Said(j) = {} /\ Positions(j, "partial")' # {}
    BY <1>2, <2>3 DEF Said, OwesTruly
  <2>5. ToldTruly(j)'
    BY <1>1, <1>2, <2>2, <2>3, <2>4 DEF ToldTruly
  <2>6. OwesTruly(t, j)'
    BY <1>1, <1>2, <1>3, <2>1, <2>2, <2>4 DEF OwesTruly, J
  <2>7. QED
    BY <1>3, <2>5, <2>6 DEF EndTruly, J
<1>5. CASE run[t].owed # <<Plain("partial"), Plain("completed")>>
  <2>1. PICK type \in {"completed", "failed"} :
          /\ run[t].owed = <<Plain(type)>>
          /\ type = job[j].status \/ (type = "completed" /\ job[j].status = "partial")
    BY <1>2, <1>5 DEF OwesTruly
  <2>2. Head(run[t].owed) = Plain(type) /\ run'[t].owed = <<>>
    BY <1>1, <2>1
  <2>3. \A other : Positions(j, other)' = Positions(j, other)
                     \cup (IF type = other THEN {n} ELSE {})
    BY <1>1, <2>2, EventTypes, PlacesAfter DEF Plain, Terminal
  <2>4. Said(j)' = {n}
    BY <1>2, <2>1, <2>3 DEF Said, OwesTruly
  <2>5. ToldTruly(j)'
    BY <1>1, <1>2, <2>1, <2>3, <2>4 DEF ToldTruly, OwesTruly, Said
  <2>6. QED
    BY <1>3, <2>2, <2>5 DEF EndTruly, J
<1>6. QED
  BY <1>4, <1>5

LEMMA NoticeKeepsEnds ==
    ASSUME TypeOK, NEW j \in Jobs, EndTruly(j), Notifies(j)
    PROVE  EndTruly(j)'
<1> DEFINE n == Len(log[j]) + 1
<1>1. /\ j \in notices /\ j \notin notices'
      /\ log'[j] = Append(log[j], Plain("failed"))
      /\ UNCHANGED <<job, card, run>>
  BY DEF Notifies
<1>2. job[j].status = "failed" /\ Said(j) = {} /\ ToldTruly(j)
  BY <1>1 DEF EndTruly, ToldTruly
<1>3. \A t \in Threads : J(t) = j => run[t].owed = <<>>
  BY <1>1 DEF EndTruly, OwesTruly
<1>4. \A type : Positions(j, type)' = Positions(j, type)
                  \cup (IF "failed" = type THEN {n} ELSE {})
  BY <1>1, EventTypes, PlacesAfter DEF Plain, Terminal
<1>5. Said(j)' = {n}
  BY <1>2, <1>4 DEF Said
<1>6. ToldTruly(j)'
  BY <1>1, <1>2, <1>4, <1>5 DEF ToldTruly, Said
<1>7. QED
  BY <1>1, <1>3, <1>6 DEF EndTruly, J

LEMMA GivingUpKeepsEnds ==
    ASSUME TypeOK, NEW j \in Jobs, EndTruly(j), GivenUp(j)
    PROVE  EndTruly(j)'
<1>1. ~Ended(j) /\ job'[j].status = "failed" /\ UNCHANGED <<card, log, run>>
  BY DEF GivenUp, Ended, Terminal, Claimable
<1>2. /\ \A type \in Terminal : Positions(j, type)' = {}
      /\ \A t \in Threads : J(t) = j => run[t].owed = <<>>
  BY <1>1, ActiveOwesNothing, PlacesKept
<1>3. ToldTruly(j)'
  BY <1>1, <1>2 DEF ToldTruly, Said, Terminal
<1>4. QED
  BY <1>1, <1>2, <1>3 DEF EndTruly, J

LEMMA EveryStepKeepsEnds ==
    ASSUME TypeOK, EndedIsReleased, [Next]_vars, EndsDue
    PROVE  EndsDue'
<1> SUFFICES ASSUME NEW j \in Jobs PROVE EndTruly(j)'
  BY DEF EndsDue
<1>1. EndTruly(j) /\ JobMoves(j)
  BY EveryJobMoves DEF EndsDue
<1>2. QED
  BY <1>1, QuietKeepsEnds, AnnouncementKeepsEnds, DecisionKeepsEnds,
     PaymentKeepsEnds, NoticeKeepsEnds, GivingUpKeepsEnds DEF JobMoves

LEMMA EndsAreDue == Spec => []EndsDue
<1>1. Init => EndsDue
  BY DEF Init, Idle, EndsDue, EndTruly, ToldTruly, OwesTruly, Said, Positions
<1>2. QED
  BY <1>1, EveryStepKeepsEnds, TypeCorrect, EndedJobsAreReleased, PTL DEF Spec

\* The log tells the end the row has, and tells it once, whichever of the
\* owner, the recovery and the expiry decided it, and whoever crashed between
\* the row and the event.
THEOREM EndsAreToldTruthfully == Spec => []EndAnnouncedTruthfully
<1>1. ASSUME EndsDue PROVE EndAnnouncedTruthfully
  <2> SUFFICES ASSUME NEW j \in Jobs
               PROVE  Cardinality(Said(j)) =< 1
    BY <1>1 DEF EndAnnouncedTruthfully, EndsDue, EndTruly, ToldTruly, Said
  <2>1. Said(j) = {} \/ \E i : Said(j) = {i}
    BY <1>1 DEF EndsDue, EndTruly, ToldTruly
  <2>2. CASE Said(j) = {}
    BY <2>2, FS_EmptySet
  <2>3. ASSUME NEW i, Said(j) = {i}
        PROVE  Cardinality(Said(j)) =< 1
    <3>1. Cardinality({i}) = 1
      BY FS_Singleton
    <3>2. QED
      BY <2>3, <3>1
  <2>4. QED
    BY <2>1, <2>2, <2>3
<1>2. QED
  BY <1>1, EndsAreDue, PTL

-----------------------------------------------------------------------------
(* Cards are announced once, before the end *)

Announced(j, c) == {i \in Positions(j, "card_ready") : log[j][i].card = c}

CardsTold(j) ==
    /\ \A c \in Cards : IF c \in Published(j) THEN \E i : Announced(j, c) = {i}
                                              ELSE Announced(j, c) = {}
    /\ \A i \in EndPositions(j), k \in Positions(j, "card_ready") : k < i

AllCardsTold == \A j \in Jobs : CardsTold(j)

LEMMA AnnouncedKept ==
    ASSUME NEW j \in Jobs, log'[j] = log[j], NEW c
    PROVE  Announced(j, c)' = Announced(j, c)
  BY DEF Announced, Positions

LEMMA AnnouncedAfter ==
    ASSUME TypeOK, NEW j \in Jobs, NEW e \in Event, log'[j] = Append(log[j], e),
           NEW c
    PROVE  Announced(j, c)' = Announced(j, c)
             \cup (IF e.type = "card_ready" /\ e.card = c THEN {Len(log[j]) + 1}
                                                          ELSE {})
<1>1. log[j] \in Seq(Event)
  BY DEF TypeOK
<1>2. /\ DOMAIN log[j] = 1..Len(log[j]) /\ Len(log[j]) \in Nat
      /\ DOMAIN log'[j] = 1..(Len(log[j]) + 1)
      /\ \A i \in 1..Len(log[j]) : log'[j][i] = log[j][i]
      /\ log'[j][Len(log[j]) + 1] = e
  BY <1>1
<1>3. QED
  BY <1>2 DEF Announced, Positions

\* A step that leaves a job's log and cards alone keeps what they say.
LEMMA SameStory ==
    ASSUME NEW j \in Jobs, CardsTold(j), log'[j] = log[j], card'[j] = card[j]
    PROVE  CardsTold(j)'
<1>1. /\ \A c : Announced(j, c)' = Announced(j, c)
      /\ \A type : Positions(j, type)' = Positions(j, type)
      /\ Published(j)' = Published(j)
  BY AnnouncedKept, PlacesKept DEF Published
<1>2. EndPositions(j)' = EndPositions(j)
  BY <1>1 DEF EndPositions
<1>3. QED
  BY <1>1, <1>2 DEF CardsTold

\* The end may follow any card.
LEMMA EndFollows ==
    ASSUME TypeOK, NEW j \in Jobs, CardsTold(j), NEW type \in Terminal,
           log'[j] = Append(log[j], Plain(type)), card'[j] = card[j]
    PROVE  CardsTold(j)'
<1> DEFINE n == Len(log[j]) + 1
<1>0. /\ Plain(type) \in Event /\ Plain(type).type = type
      /\ type # "card_ready"
  BY EventTypes DEF Plain, Terminal
<1>1. ASSUME NEW c
      PROVE  Announced(j, c)' = Announced(j, c)
  <2> HIDE DEF n
  <2>1. Announced(j, c)' = Announced(j, c)
          \cup (IF Plain(type).type = "card_ready" /\ Plain(type).card = c
                  THEN {Len(log[j]) + 1} ELSE {})
    BY <1>0, AnnouncedAfter
  <2>2. QED
    BY <1>0, <2>1
<1>2. \A other : Positions(j, other)' = Positions(j, other)
                     \cup (IF type = other THEN {n} ELSE {})
  BY <1>0, PlacesAfter
<1>3. Positions(j, "card_ready")' = Positions(j, "card_ready")
  <2> HIDE DEF n
  <2>1. Positions(j, "card_ready")' = Positions(j, "card_ready")
           \cup (IF type = "card_ready" THEN {n} ELSE {})
    BY <1>2
  <2>2. QED
    BY <1>0, <2>1
<1>4. EndPositions(j)' \subseteq EndPositions(j) \cup {n}
  BY <1>2 DEF EndPositions
<1>5. \A k \in Positions(j, "card_ready") : k < n
  BY DEF TypeOK, Positions
<1>6. Published(j)' = Published(j)
  BY DEF Published
<1>7. QED
  BY <1>1, <1>3, <1>4, <1>5, <1>6 DEF CardsTold

LEMMA AnnouncementTells ==
    ASSUME TypeOK, EndedIsReleased, NEW j \in Jobs, EndTruly(j), CardsTold(j),
           Announces(j)
    PROVE  CardsTold(j)'
<1>1. PICK c \in Cards, v \in Contents :
        /\ card[j][c] = None
        /\ card'[j] = [card[j] EXCEPT ![c] = v]
        /\ log'[j] = Append(log[j], About("card_ready", c))
  BY DEF Announces
<1>2. ~Ended(j)
  BY OwnersAreActive DEF Announces
<1> DEFINE e == About("card_ready", c)
           n == Len(log[j]) + 1
<1>3. e \in Event /\ e.type = "card_ready" /\ e.card = c
  BY EventTypes DEF About
<1>4. \A d : Announced(j, d)' = Announced(j, d) \cup (IF c = d THEN {n} ELSE {})
  <2> HIDE DEF e
  <2>1. QED
    BY <1>1, <1>3, AnnouncedAfter DEF e
<1>5. Published(j)' = Published(j) \cup {c} /\ c \notin Published(j)
  BY <1>1, JobsAssumption DEF Published, TypeOK
<1>6. \A d \in Cards : IF d \in Published(j)' THEN \E i : Announced(j, d)' = {i}
                                              ELSE Announced(j, d)' = {}
  <2> HIDE DEF n, e
  <2> SUFFICES ASSUME NEW d \in Cards
               PROVE  IF d \in Published(j)' THEN \E i : Announced(j, d)' = {i}
                                             ELSE Announced(j, d)' = {}
    OBVIOUS
  <2>1. CASE d = c
    <3>1. Announced(j, d) = {}
      BY <1>5, <2>1 DEF CardsTold
    <3>2. Announced(j, d)' = {n}
      BY <1>4, <2>1, <3>1
    <3>3. QED
      BY <1>5, <2>1, <3>2
  <2>2. CASE d # c
    <3>1. Announced(j, d)' = Announced(j, d)
      BY <1>4, <2>2
    <3>2. d \in Published(j)' <=> d \in Published(j)
      BY <1>5, <2>2
    <3>3. IF d \in Published(j) THEN \E i : Announced(j, d) = {i}
                                ELSE Announced(j, d) = {}
      BY DEF CardsTold
    <3>4. QED
      BY <3>1, <3>2, <3>3
  <2>3. QED
    BY <2>1, <2>2
<1>7. \A type : Positions(j, type)' = Positions(j, type)
                    \cup (IF "card_ready" = type THEN {n} ELSE {})
  BY <1>1, <1>3, PlacesAfter
<1>8. EndPositions(j)' = {}
  BY <1>2, <1>7, ActiveOwesNothing DEF EndPositions, Terminal
<1>9. QED
  BY <1>6, <1>8 DEF CardsTold

LEMMA EveryStepTells ==
    ASSUME TypeOK, EndedIsReleased, EndsDue, [Next]_vars, AllCardsTold
    PROVE  AllCardsTold'
<1> SUFFICES ASSUME NEW j \in Jobs PROVE CardsTold(j)'
  BY DEF AllCardsTold
<1>0. CardsTold(j) /\ EndTruly(j) /\ JobMoves(j)
  BY EveryJobMoves DEF AllCardsTold, EndsDue
<1>1. CASE Quiet(j) \/ Decides(j) \/ GivenUp(j)
  BY <1>0, <1>1, SameStory DEF Quiet, Decides, GivenUp
<1>2. CASE Announces(j)
  BY <1>0, <1>2, AnnouncementTells
<1>3. CASE Pays(j)
  <2>1. PICK t \in Threads :
          /\ J(t) = j /\ run[t].owed # <<>>
          /\ log'[j] = Append(log[j], Head(run[t].owed))
          /\ UNCHANGED card
    BY <1>3 DEF Pays
  <2>2. \E type \in Terminal : Head(run[t].owed) = Plain(type)
    BY <1>0, <2>1 DEF EndTruly, OwesTruly, Terminal
  <2>3. QED
    BY <1>0, <2>1, <2>2, EndFollows
<1>4. CASE Notifies(j)
  BY <1>0, <1>4, EndFollows DEF Notifies, Terminal
<1>5. QED
  BY <1>0, <1>1, <1>2, <1>3, <1>4 DEF JobMoves

LEMMA CardsAreTold == Spec => []AllCardsTold
<1>1. Init => AllCardsTold
  BY DEF Init, AllCardsTold, CardsTold, Published, Announced, Positions,
     EndPositions
<1>2. QED
  BY <1>1, EveryStepTells, EndsAreDue, TypeCorrect, EndedJobsAreReleased, PTL
  DEF Spec

\* A client that replays the log learns of each published card exactly once,
\* of no other card, and of none after the end.
THEOREM CardsAreAnnouncedOnce == Spec => []CardsAnnouncedOnceBeforeEnd
<1>1. ASSUME AllCardsTold PROVE CardsAnnouncedOnceBeforeEnd
  <2>1. ASSUME NEW j \in Jobs, NEW c \in Cards
        PROVE  Cardinality(Announced(j, c)) = IF c \in Published(j) THEN 1 ELSE 0
    <3>1. CASE c \in Published(j)
      <4>1. PICK i : Announced(j, c) = {i}
        BY <1>1, <3>1 DEF AllCardsTold, CardsTold
      <4>2. Cardinality({i}) = 1
        BY FS_Singleton
      <4>3. QED
        BY <3>1, <4>1, <4>2
    <3>2. CASE c \notin Published(j)
      BY <1>1, <3>2, FS_EmptySet DEF AllCardsTold, CardsTold
    <3>3. QED
      BY <3>1, <3>2
  <2>2. QED
    BY <1>1, <2>1 DEF CardsAnnouncedOnceBeforeEnd, AllCardsTold, CardsTold, Announced
<1>2. QED
  BY <1>1, CardsAreTold, PTL

-----------------------------------------------------------------------------
(* The progress of a job *)

\* Who writes with the owner id of the row executes a running job, and the
\* progress it is about to write back is the one in the row.
HolderIsCurrent(t) ==
    run[t].pc \notin {"idle", "done"} /\ Owns(t) =>
      /\ job[J(t)].status = "running"
      /\ run[t].pc \in {"failcard", "closing"} => run[t].seenDone = job[J(t)].done

CurrentOn(j) == \A t \in Threads : J(t) = j => HolderIsCurrent(t)

SameHolding(j) ==
    /\ job'[j].owner = job[j].owner
    /\ job'[j].status = job[j].status
    /\ job'[j].done = job[j].done

\* What a thread's step does to the holder and the progress of a row.
Keeps(j) == SameHolding(j) /\ card'[j] = card[j]
Takes(t, j) ==
    /\ run'[t].job = j /\ job'[j].owner = OwnerOf[t] /\ job'[j].status = "running"
    /\ job'[j].done = job[j].done /\ card'[j] = card[j]
Adds(t, j) ==
    /\ J(t) = j /\ Owns(t) /\ job'[j].owner = OwnerOf[t]
    /\ \E c \in Cards : /\ job'[j].done = job[j].done \cup {c}
                        /\ Published(j)' = Published(j) \cup {c}
WritesBack(t, j) ==
    /\ J(t) = j /\ Owns(t) /\ job'[j].owner \in {None, OwnerOf[t]}
    /\ run[t].pc \in {"failcard", "closing"}
    /\ job'[j].done = run[t].seenDone /\ card'[j] = card[j]
Requeues(t, j) ==
    /\ J(t) = j /\ Owns(t) /\ job'[j].owner = OwnerOf[t]
    /\ job'[j].done = job[j].done /\ card'[j] = card[j]
Releases(j) ==
    /\ job'[j].owner = None
    /\ job'[j].done = job[j].done /\ card'[j] = card[j]

HoldingMoves(t, j) ==
    \/ Keeps(j) \/ Takes(t, j) \/ Adds(t, j)
    \/ WritesBack(t, j) \/ Requeues(t, j) \/ Releases(j)

LEMMA PublicationAdds ==
    ASSUME TypeOK, NEW t \in Threads, J(t) \in Jobs, Owns(t),
           NEW c \in Cards, NEW v \in Contents, PublishRow(J(t), c, v),
           NEW j \in Jobs
    PROVE  HoldingMoves(t, j)
<1>1. CASE j # J(t)
  BY <1>1 DEF PublishRow, TypeOK, HoldingMoves, Keeps, SameHolding
<1>2. CASE j = J(t)
  <2>1. job'[j].done = job[j].done \cup {c} /\ job'[j].owner = OwnerOf[t]
    BY <1>2 DEF PublishRow, TypeOK, Row, Owns
  <2>2. Published(j)' = Published(j) \cup {c}
    <3>1. CASE card[j][c] = None
      <4>1. card' = [card EXCEPT ![j][c] = v] /\ v # None
        BY <1>2, <3>1, JobsAssumption DEF PublishRow
      <4>2. QED
        BY <4>1 DEF Published, TypeOK
    <3>2. CASE card[j][c] # None
      BY <1>2, <3>2 DEF PublishRow, Published
    <3>3. QED
      BY <3>1, <3>2
  <2>3. QED
    BY <1>2, <2>1, <2>2 DEF HoldingMoves, Adds
<1>3. QED
  BY <1>1, <1>2

LEMMA HoldingInRun ==
    ASSUME TypeOK, NEW t \in Threads, Worker(t), NEW j \in Jobs
    PROVE  HoldingMoves(t, j)
<1> DEFINE r == job[J(t)]
<1>0. /\ run \in [Threads -> Thread] /\ job \in [Jobs -> Row]
      /\ run[t].pc # "idle" => J(t) \in Jobs
  BY DEF TypeOK, Engaged, J
<1>1. ASSUME UNCHANGED <<job, card>> PROVE HoldingMoves(t, j)
  BY <1>1 DEF HoldingMoves, Keeps, SameHolding
<1>2. ASSUME NEW k \in Jobs, Claim(t, k)
      PROVE  HoldingMoves(t, j)
  <2>1. CASE j = k
    <3>1. /\ run'[t] = [Idle EXCEPT !.pc = "retrieve", !.job = j]
          /\ job'[j] = Claimed(job[j], t) /\ card' = card
      BY <1>0, <1>2, <2>1 DEF Claim
    <3>2. Takes(t, j)
      BY <1>0, <3>1 DEF Takes, Claimed, Idle, Row
    <3>3. QED
      BY <3>2 DEF HoldingMoves
  <2>2. CASE j # k
    BY <1>0, <1>2, <2>2 DEF Claim, HoldingMoves, Keeps, SameHolding
  <2>3. QED
    BY <2>1, <2>2
\* Writes that leave the holder and the progress alone.
<1>3. ASSUME NEW row, J(t) \in Jobs, job' = [job EXCEPT ![J(t)] = row],
             row.owner = r.owner, row.status = r.status, row.done = r.done,
             UNCHANGED card
      PROVE  HoldingMoves(t, j)
  BY <1>0, <1>3 DEF HoldingMoves, Keeps, SameHolding
<1>4. CASE Retrieve(t) \/ EnterPhase(t) \/ VerifyPhase(t) \/ Heartbeat(t)
  <2>1. J(t) \in Jobs /\ UNCHANGED card
    BY <1>0, <1>4 DEF Retrieve, EnterPhase, VerifyPhase, Heartbeat, At
  <2>2. \/ \E p : job' = [job EXCEPT ![J(t)] = [r EXCEPT !.pipeline = p]]
        \/ job' = [job EXCEPT ![J(t)] = [r EXCEPT !.lease = "live"]]
    BY <1>0, <1>4, <2>1 DEF Retrieve, EnterPhase, VerifyPhase, Heartbeat
  <2>3. ASSUME NEW p, job' = [job EXCEPT ![J(t)] = [r EXCEPT !.pipeline = p]]
        PROVE  HoldingMoves(t, j)
    BY <1>0, <1>3, <2>1, <2>3 DEF Row
  <2>4. CASE job' = [job EXCEPT ![J(t)] = [r EXCEPT !.lease = "live"]]
    BY <1>0, <1>3, <2>1, <2>4 DEF Row
  <2>5. QED
    BY <2>2, <2>3, <2>4
\* Writes that end the job and give it back.
<1>5. ASSUME NEW row, J(t) \in Jobs, job' = [job EXCEPT ![J(t)] = row],
             row.owner = None, row.done = r.done, UNCHANGED card
      PROVE  HoldingMoves(t, j)
  BY <1>0, <1>5 DEF HoldingMoves, Keeps, SameHolding, Releases
<1>6. ASSUME NEW outcome, J(t) \in Jobs, UNCHANGED card,
             job' = [job EXCEPT ![J(t)] = Close(r, outcome)]
      PROVE  HoldingMoves(t, j)
  <2>1. Close(r, outcome).owner = None /\ Close(r, outcome).done = r.done
    BY <1>0, <1>6 DEF Close, Row
  <2>2. QED
    BY <1>5, <1>6, <2>1
<1>7. CASE KnowledgeChanged(t) \/ MarkCompleted(t)
  BY <1>0, <1>6, <1>7 DEF KnowledgeChanged, MarkCompleted, At
<1>8. CASE MarkFailed(t)
  <2>1. J(t) \in Jobs /\ UNCHANGED card
    BY <1>0, <1>8 DEF MarkFailed, At
  <2>2. CASE Owns(t)
    BY <1>6, <1>8, <2>1, <2>2 DEF MarkFailed
  <2>3. CASE ~Owns(t)
    BY <1>1, <1>8, <2>1, <2>3 DEF MarkFailed
  <2>4. QED
    BY <2>2, <2>3
<1>9. CASE MarkPartial(t) \/ FailCard(t)
  <2>1. /\ J(t) \in Jobs /\ UNCHANGED card /\ Owns(t)
        /\ run[t].pc \in {"failcard", "closing"}
    BY <1>0, <1>9 DEF MarkPartial, FailCard, At
  <2>2. CASE j # J(t)
    BY <1>0, <1>9, <2>1, <2>2 DEF MarkPartial, FailCard, HoldingMoves, Keeps, SameHolding
  <2>3. CASE j = J(t)
    <3>1. job'[j].done = run[t].seenDone /\ job'[j].owner \in {None, OwnerOf[t]}
      <4>1. CASE MarkPartial(t)
        BY <1>0, <2>1, <2>3, <4>1 DEF MarkPartial, Close, Row
      <4>2. CASE FailCard(t)
        BY <1>0, <2>1, <2>3, <4>2 DEF FailCard, Row, Owns
      <4>3. QED
        BY <1>9, <4>1, <4>2
    <3>2. QED
      BY <2>1, <2>3, <3>1 DEF HoldingMoves, WritesBack
  <2>4. QED
    BY <2>2, <2>3
<1>10. CASE RetryJob(t)
  <2>1. J(t) \in Jobs /\ UNCHANGED card
    BY <1>0, <1>10 DEF RetryJob, At
  <2>2. CASE Owns(t)
    <3>1. CASE j = J(t)
      <4>1. job'[j].done = job[j].done /\ job'[j].owner = OwnerOf[t]
        BY <1>0, <1>10, <2>2, <3>1 DEF RetryJob, Row, Owns
      <4>2. QED
        BY <2>1, <2>2, <3>1, <4>1 DEF HoldingMoves, Requeues
    <3>2. CASE j # J(t)
      BY <1>0, <1>10, <2>1, <2>2, <3>2 DEF RetryJob, HoldingMoves, Keeps, SameHolding
    <3>3. QED
      BY <3>1, <3>2
  <2>3. CASE ~Owns(t)
    BY <1>1, <1>10, <2>1, <2>3 DEF RetryJob
  <2>4. QED
    BY <2>2, <2>3
<1>11. CASE CardStep(t)
  <2>1. ASSUME NEW c \in Cards, ReuseCard(t, c)
        PROVE  HoldingMoves(t, j)
    <3>1. J(t) \in Jobs /\ Owns(t)
      BY <1>0, <2>1 DEF ReuseCard, At
    <3>2. session[J(t)][c] \in Contents
      BY <2>1, <3>1 DEF ReuseCard, TypeOK
    <3>3. QED
      BY <2>1, <3>1, <3>2, PublicationAdds DEF ReuseCard
  <2>2. ASSUME NEW c \in Cards, NEW v \in Contents, PublishCard(t, c, v)
        PROVE  HoldingMoves(t, j)
    <3>1. J(t) \in Jobs /\ Owns(t)
      BY <1>0, <2>2 DEF PublishCard, InLoop, At
    <3>2. QED
      BY <2>2, <3>1, PublicationAdds DEF PublishCard
  <2>3. QED
    BY <1>1, <1>11, <2>1, <2>2 DEF CardStep, LeaveForGeneration, RejectCard
<1>12. CASE Execute(t)
  BY <1>1, <1>4, <1>7, <1>8, <1>9, <1>10, <1>11, <1>12
  DEF Execute, AppendOwed, LoseLease, Project, LoopDone, ModelAnswers,
      ConceptMissing, FailPublished, ReadProgress, HandleException, CountRetry
<1>13. QED
  BY <1>1, <1>2, <1>4, <1>12 DEF Worker, Raise, Crash

\* A thread that moves stays current: it reads the row before it decides, and
\* where it writes it owns the row.
LEMMA MoverStaysCurrent ==
    ASSUME TypeOK, NEW t \in Threads, Worker(t), HolderIsCurrent(t)
    PROVE  HolderIsCurrent(t)'
<1> DEFINE th == run[t]
           r == job[J(t)]
<1>0. /\ run \in [Threads -> Thread] /\ job \in [Jobs -> Row] /\ th \in Thread
      /\ th.pc # "idle" => J(t) \in Jobs /\ r \in Row
  BY DEF TypeOK, Engaged, J
<1>1. CASE run'[t].pc \in {"idle", "done"}
  BY <1>1 DEF HolderIsCurrent
<1>2. CASE run'[t] = Idle
  BY <1>1, <1>2 DEF Idle
\* The row of the thread keeps its holder, and what the thread keeps in mind
\* is what it kept before, or what it has just read.
<1>3. ASSUME SameHolding(J(t)), run'[t].job = J(t), th.pc \notin {"idle", "done"},
             run'[t].pc \in {"failcard", "closing"} =>
               \/ run'[t].seenDone = r.done
               \/ run'[t].pc = th.pc /\ run'[t].seenDone = th.seenDone
      PROVE  HolderIsCurrent(t)'
  BY <1>3 DEF HolderIsCurrent, SameHolding, Owns, J
<1>a. job' = job => SameHolding(J(t))
  BY DEF SameHolding
<1>4. ASSUME NEW k \in Jobs, Claim(t, k)
      PROVE  HolderIsCurrent(t)'
  <2>1. /\ run'[t].pc = "retrieve" /\ run'[t].job = k
        /\ job'[k].status = "running"
    BY <1>0, <1>4 DEF Claim, Claimed, Idle, Row
  <2>2. QED
    BY <2>1 DEF HolderIsCurrent, J
<1>5. CASE AppendOwed(t)
  <2>1. CASE Stop(t)
    BY <1>0, <1>2, <2>1 DEF Stop
  <2>2. CASE ~Stop(t)
    <3>1. run'[t] = [th EXCEPT !.owed = Tail(th.owed)] /\ job' = job
      BY <1>0, <1>5, <2>2 DEF AppendOwed
    <3>2. run'[t].job = J(t) /\ run'[t].pc = th.pc /\ run'[t].seenDone = th.seenDone
      BY <1>0, <3>1 DEF Thread, J
    <3>3. QED
      BY <1>1, <1>3, <1>a, <3>1, <3>2
  <2>3. QED
    BY <2>1, <2>2
<1>6. CASE LoseLease(t) \/ Crash(t)
  BY <1>0, <1>2, <1>6 DEF LoseLease, Crash, Stop
<1>7. CASE Raise(t)
  <2>1. CASE th.pc \in Body
    <3>1. run'[t].pc = "raised" /\ run'[t].job = J(t) /\ job' = job
      BY <1>0, <1>7, <2>1 DEF Raise, Idle
    <3>2. th.pc \notin {"idle", "done"}
      BY <2>1 DEF Body, Fenced
    <3>3. QED
      BY <1>3, <1>a, <3>1, <3>2
  <2>2. CASE th.pc \notin Body
    BY <1>0, <1>2, <1>7, <2>2 DEF Raise
  <2>3. QED
    BY <2>1, <2>2
<1>8. CASE Heartbeat(t)
  <2>1. run' = run /\ J(t) \in Jobs
        /\ job' = [job EXCEPT ![J(t)] = [r EXCEPT !.lease = "live"]]
    BY <1>0, <1>8 DEF Heartbeat
  <2>2. SameHolding(J(t))
    BY <1>0, <2>1 DEF SameHolding, Row
  <2>3. QED
    BY <1>1, <1>3, <2>1, <2>2 DEF J
<1>9. CASE \/ Retrieve(t) \/ EnterPhase(t) \/ VerifyPhase(t)
           \/ ModelAnswers(t) \/ LoopDone(t) \/ HandleException(t)
           \/ CountRetry(t) \/ Project(t)
  <2>1. th.pc \notin {"idle", "done"} /\ J(t) \in Jobs
    BY <1>0, <1>9 DEF Retrieve, EnterPhase, VerifyPhase, ModelAnswers, LoopDone,
       HandleException, CountRetry, Project, InLoop, At
  <2>2. run'[t].job = J(t) /\ run'[t].pc \notin {"failcard", "closing"}
    BY <1>0, <1>9 DEF Retrieve, EnterPhase, VerifyPhase, ModelAnswers, LoopDone,
       HandleException, CountRetry, Project, Goto, Thread, J
  <2>3. SameHolding(J(t))
    BY <1>0, <1>9, <1>a, <2>1 DEF Retrieve, EnterPhase, VerifyPhase, ModelAnswers,
       LoopDone, HandleException, CountRetry, Project, SameHolding, Row
  <2>4. QED
    BY <1>3, <2>1, <2>2, <2>3
<1>10. CASE FailPublished(t) \/ ConceptMissing(t) \/ ReadProgress(t)
  <2>1. th.pc \notin {"idle", "done"} /\ job' = job
    BY <1>10 DEF FailPublished, ConceptMissing, ReadProgress, At
  <2>2. run'[t].job = J(t) /\ run'[t].seenDone = r.done
    BY <1>0, <1>10 DEF FailPublished, ConceptMissing, ReadProgress, Thread, J
  <2>3. QED
    BY <1>3, <1>a, <2>1, <2>2
<1>11. CASE FailCard(t)
  <2>1. /\ run'[t].pc = th.back /\ th.back \in {"resolve", "publish"}
        /\ run'[t].job = J(t) /\ J(t) \in Jobs /\ th.pc = "failcard" /\ Owns(t)
    BY <1>0, <1>11 DEF FailCard, At, Thread, J
  <2>2. job'[J(t)].status = r.status
    BY <1>0, <1>11, <2>1 DEF FailCard, Row
  <2>3. QED
    BY <2>1, <2>2 DEF HolderIsCurrent, J
<1>12. CASE KnowledgeChanged(t) \/ MarkCompleted(t) \/ MarkPartial(t)
  BY <1>0, <1>1, <1>12 DEF KnowledgeChanged, MarkCompleted, MarkPartial, Thread
<1>13. CASE MarkFailed(t)
  BY <1>0, <1>1, <1>2, <1>13 DEF MarkFailed, Stop, Thread
<1>14. CASE RetryJob(t)
  <2>1. CASE Owns(t)
    BY <1>0, <1>2, <1>14, <2>1 DEF RetryJob, Stop
  <2>2. CASE ~Owns(t)
    <3>1. run'[t].job = J(t) /\ run'[t].pc = "failing" /\ job' = job
          /\ th.pc = "requeue"
      BY <1>0, <1>14, <2>2 DEF RetryJob, Goto, Thread, J, At
    <3>2. QED
      BY <1>3, <1>a, <3>1
  <2>3. QED
    BY <2>1, <2>2
<1>15. ASSUME NEW c \in Cards, LeaveForGeneration(t, c) \/ RejectCard(t, c)
       PROVE  HolderIsCurrent(t)'
  <2>1. th.pc \in {"resolve", "publish"} /\ job' = job
    BY <1>15 DEF LeaveForGeneration, RejectCard, InLoop, At
  <2>2. /\ run'[t].job = J(t)
        /\ run'[t].pc \in {"failcard", "closing"} => run'[t].seenDone = r.done
    BY <1>0, <1>15, <2>1 DEF LeaveForGeneration, RejectCard, Thread, J
  <2>3. QED
    BY <1>3, <1>a, <2>1, <2>2
<1>16. ASSUME NEW c \in Cards, NEW v, PublishRow(J(t), c, v), J(t) \in Jobs,
              th.pc \in {"resolve", "publish"}, Owns(t),
              run'[t].job = J(t), run'[t].pc \notin {"failcard", "closing"}
       PROVE  HolderIsCurrent(t)'
  <2>1. job'[J(t)].status = r.status
    BY <1>0, <1>16 DEF PublishRow, Row
  <2>2. QED
    BY <1>16, <2>1 DEF HolderIsCurrent, J
<1>17. ASSUME NEW c \in Cards, ReuseCard(t, c)
       PROVE  HolderIsCurrent(t)'
  <2>1. /\ th.pc \in {"resolve", "publish"} /\ Owns(t) /\ J(t) \in Jobs
        /\ run'[t].job = J(t) /\ run'[t].pc \notin {"failcard", "closing"}
    BY <1>0, <1>17 DEF ReuseCard, InLoop, At, Thread, J
  <2>2. QED
    BY <1>16, <1>17, <2>1 DEF ReuseCard
<1>18. ASSUME NEW c \in Cards, NEW v \in Contents, PublishCard(t, c, v)
       PROVE  HolderIsCurrent(t)'
  <2>1. /\ th.pc \in {"resolve", "publish"} /\ Owns(t) /\ J(t) \in Jobs
        /\ run'[t].job = J(t) /\ run'[t].pc \notin {"failcard", "closing"}
    BY <1>0, <1>18 DEF PublishCard, InLoop, At, Thread, J
  <2>2. QED
    BY <1>16, <1>18, <2>1 DEF PublishCard
<1>19. CASE CardStep(t)
  BY <1>15, <1>17, <1>18, <1>19 DEF CardStep
<1>20. CASE Execute(t)
  BY <1>5, <1>6, <1>9, <1>10, <1>11, <1>12, <1>13, <1>14, <1>19, <1>20 DEF Execute
<1>21. QED
  BY <1>4, <1>6, <1>7, <1>8, <1>20 DEF Worker

\* A thread that stands still stays current while its row keeps its holder.
LEMMA WatcherStaysCurrent ==
    ASSUME NEW t \in Threads, HolderIsCurrent(t), run'[t] = run[t],
           run[t].pc \notin {"idle", "done"} => SameHolding(J(t)) \/ ~Owns(t)'
    PROVE  HolderIsCurrent(t)'
  BY DEF HolderIsCurrent, SameHolding, Owns, J

\* A thread leaves its job for none, and takes one up when it has none.
LEMMA JobOfAThread ==
    ASSUME TypeOK, NEW t \in Threads, Worker(t)
    PROVE  run[t].pc = "idle" \/ run'[t] = Idle \/ run'[t].job = J(t)
<1>0. run \in [Threads -> Thread] /\ run[t] \in Thread
  BY DEF TypeOK
<1>1. ASSUME NEW th, run' = [run EXCEPT ![t] = th], th = Idle \/ th.job = J(t)
      PROVE  run'[t] = Idle \/ run'[t].job = J(t)
  BY <1>0, <1>1
<1>2. ASSUME NEW p, Goto(t, p) PROVE run'[t].job = J(t)
  BY <1>0, <1>2 DEF Goto, Thread, J
<1>3. ASSUME run' = run PROVE run'[t].job = J(t)
  BY <1>3 DEF J
<1>4. ASSUME Stop(t) PROVE run'[t] = Idle
  BY <1>0, <1>4 DEF Stop
<1>5. ASSUME NEW j \in Jobs, Claim(t, j) PROVE run[t].pc = "idle"
  BY <1>5 DEF Claim, At
<1>6. CASE Heartbeat(t) \/ Crash(t) \/ LoseLease(t)
  BY <1>3, <1>4, <1>6 DEF Heartbeat, Crash, LoseLease
<1>7. CASE Raise(t)
  BY <1>0, <1>7 DEF Raise, Idle, J
<1>8. CASE AppendOwed(t)
  BY <1>0, <1>4, <1>8 DEF AppendOwed, Thread, J
<1>9. CASE Retrieve(t) \/ KnowledgeChanged(t) \/ VerifyPhase(t) \/ ConceptMissing(t)
  BY <1>0, <1>9 DEF Retrieve, KnowledgeChanged, VerifyPhase, ConceptMissing, Thread, J
<1>10. CASE Project(t) \/ FailPublished(t) \/ FailCard(t) \/ ReadProgress(t)
  BY <1>0, <1>10 DEF Project, FailPublished, FailCard, ReadProgress, Thread, J
<1>11. CASE LoopDone(t) \/ EnterPhase(t) \/ ModelAnswers(t) \/ HandleException(t)
  BY <1>2, <1>11 DEF LoopDone, EnterPhase, ModelAnswers, HandleException
<1>12. CASE MarkCompleted(t) \/ MarkPartial(t) \/ CountRetry(t)
  BY <1>0, <1>12 DEF MarkCompleted, MarkPartial, CountRetry, Thread, J
<1>13. CASE RetryJob(t) \/ MarkFailed(t)
  <2>1. \/ Stop(t) \/ Goto(t, "failing")
        \/ run' = [run EXCEPT ![t].pc = "done", ![t].count = 0, ![t].owed = <<Plain("failed")>>]
    BY <1>13 DEF RetryJob, MarkFailed
  <2> QED
    BY <2>1, <1>0, <1>2, <1>4 DEF Thread, J
<1>14. CASE CardStep(t)
  BY <1>0, <1>14
  DEF CardStep, LeaveForGeneration, ReuseCard, RejectCard, PublishCard, Thread, J
<1> QED
  BY <1>5, <1>6, <1>7, <1>8, <1>9, <1>10, <1>11, <1>12, <1>13, <1>14 DEF Worker, Execute

\* The progress a thread is about to write back is one it has read in the row.
LEMMA SeenIsRead ==
    ASSUME TypeOK, NEW t \in Threads, Worker(t), run'[t].pc \in {"failcard", "closing"}
    PROVE  /\ J(t) \in Jobs /\ run'[t].job = J(t)
           /\ \/ run'[t].seenDone = job[J(t)].done
              \/ run'[t].pc = run[t].pc /\ run'[t].seenDone = run[t].seenDone
<1>0. /\ run \in [Threads -> Thread] /\ run[t] \in Thread /\ Idle.pc = "idle"
      /\ run[t].pc # "idle" => J(t) \in Jobs
  BY DEF TypeOK, Engaged, J, Idle
<1>1. run'[t] # Idle
  BY <1>0
<1>2. ASSUME NEW j \in Jobs PROVE ~Claim(t, j)
  <2> SUFFICES ASSUME Claim(t, j) PROVE FALSE
    OBVIOUS
  <2>1. run'[t] = [Idle EXCEPT !.pc = "retrieve", !.job = j]
    BY <1>0 DEF Claim
  <2> QED
    BY <2>1 DEF Idle
<1>3. run[t].pc # "idle"
  <2> SUFFICES ASSUME run[t].pc = "idle" PROVE FALSE
    OBVIOUS
  <2>1. ~Heartbeat(t) /\ ~Raise(t) /\ ~Crash(t)
    BY DEF Heartbeat, Raise, Crash
  <2>2. run[t].owed = << >>
    BY DEF TypeOK, Engaged
  <2>3. Execute(t)
    BY <1>2, <2>1 DEF Worker
  <2> QED
    BY <2>2, <2>3 DEF Execute, AppendOwed, LoseLease, Retrieve, KnowledgeChanged, CardStep,
       LeaveForGeneration, ReuseCard, RejectCard, PublishCard, Project, FailPublished, FailCard,
       LoopDone, EnterPhase, ModelAnswers, VerifyPhase, ConceptMissing, ReadProgress, MarkCompleted,
       MarkPartial, HandleException, CountRetry, RetryJob, MarkFailed, InLoop, At, Fenced
<1>4. J(t) \in Jobs /\ run'[t].job = J(t)
  BY <1>0, <1>1, <1>3, JobOfAThread
<1>5. CASE Heartbeat(t)
  BY <1>4, <1>5 DEF Heartbeat
<1>a. ASSUME Stop(t) PROVE FALSE
  BY <1>0, <1>1, <1>a DEF Stop
<1>b. ASSUME Raise(t) PROVE FALSE
  <2> DEFINE raised == [Idle EXCEPT !.pc = "raised", !.job = J(t)]
  <2>1. run'[t] \in {raised, Idle}
    BY <1>0, <1>b DEF Raise
  <2>2. raised.pc = "raised"
    BY DEF Idle
  <2> QED
    BY <1>0, <2>1, <2>2
<1>6. ~Crash(t) /\ ~LoseLease(t) /\ ~Raise(t)
  BY <1>a, <1>b DEF Crash, LoseLease
<1>c. ASSUME NEW tail, run' = [run EXCEPT ![t].owed = tail]
      PROVE  run'[t].pc = run[t].pc /\ run'[t].seenDone = run[t].seenDone
  BY <1>0, <1>c DEF Thread
<1>7. CASE AppendOwed(t)
  BY <1>4, <1>a, <1>c, <1>7 DEF AppendOwed
<1>8. ASSUME ConceptMissing(t) \/ FailPublished(t) \/ ReadProgress(t)
      PROVE  run'[t].seenDone = job[J(t)].done
  <2>1. CASE ConceptMissing(t)
    <3>1. run' = [run EXCEPT ![t].pc = "failcard", ![t].back = "publish",
                             ![t].work = @ \ {Concept}, ![t].card = Concept,
                             ![t].seenDone = job[J(t)].done,
                             ![t].seenFailed = job[J(t)].failed]
      BY <2>1 DEF ConceptMissing
    <3> QED
      BY <1>0, <3>1 DEF Thread
  <2>2. CASE FailPublished(t)
    <3>1. run' = [run EXCEPT ![t].pc = "failcard", ![t].content = None,
                             ![t].seenDone = job[J(t)].done,
                             ![t].seenFailed = job[J(t)].failed]
      BY <2>2 DEF FailPublished
    <3> QED
      BY <1>0, <3>1 DEF Thread
  <2>3. CASE ReadProgress(t)
    <3>1. run' = [run EXCEPT ![t].pc = "closing", ![t].seenDone = job[J(t)].done,
                             ![t].seenFailed = job[J(t)].failed]
      BY <2>3 DEF ReadProgress
    <3> QED
      BY <1>0, <3>1 DEF Thread
  <2> QED
    BY <1>8, <2>1, <2>2, <2>3
<1>9. ASSUME NEW c \in Cards, RejectCard(t, c)
      PROVE  run'[t].seenDone = job[J(t)].done
  <2>1. run' = [run EXCEPT ![t].pc = "failcard", ![t].back = run[t].pc,
                           ![t].todo = @ \ {c}, ![t].card = c,
                           ![t].seenDone = job[J(t)].done,
                           ![t].seenFailed = job[J(t)].failed]
    BY <1>9 DEF RejectCard
  <2> QED
    BY <1>0, <2>1 DEF Thread
<1>11. CASE Retrieve(t) \/ KnowledgeChanged(t) \/ VerifyPhase(t) \/ Project(t) \/ FailCard(t)
  BY <1>0, <1>11 DEF Retrieve, KnowledgeChanged, VerifyPhase, Project, FailCard, Thread
<1>12. CASE LoopDone(t) \/ EnterPhase(t) \/ ModelAnswers(t) \/ HandleException(t) \/ CountRetry(t)
  BY <1>0, <1>12 DEF LoopDone, EnterPhase, ModelAnswers, HandleException, CountRetry, Goto, Thread
<1>13. CASE MarkCompleted(t) \/ MarkPartial(t) \/ RetryJob(t) \/ MarkFailed(t)
  BY <1>0, <1>1, <1>13 DEF MarkCompleted, MarkPartial, RetryJob, MarkFailed, Goto, Stop, Thread
<1>14. ASSUME NEW c \in Cards, \/ LeaveForGeneration(t, c) \/ ReuseCard(t, c)
                               \/ \E v \in Contents : PublishCard(t, c, v)
       PROVE  FALSE
  BY <1>0, <1>14 DEF LeaveForGeneration, ReuseCard, PublishCard, InLoop, At, Thread
<1> QED
  BY <1>2, <1>4, <1>5, <1>6, <1>7, <1>8, <1>9, <1>11, <1>12, <1>13, <1>14
  DEF Worker, Execute, CardStep

LEMMA SweepWrites ==
    ASSUME TypeOK, Sweep, NEW j \in Jobs
    PROVE  /\ run' = run /\ card' = card
           /\ job'[j].done = job[j].done
           /\ SameHolding(j) \/ job'[j].owner = None
<1>0. job \in [Jobs -> Row]
  BY DEF TypeOK
<1>1. \A row \in {Recovered(job[j]), Close(job[j], "failed")} :
        row.owner = None /\ row.done = job[j].done
  BY <1>0 DEF Recovered, Close, Row
<1>2. job'[j] \in {job[j], Recovered(job[j]), Close(job[j], "failed")}
  BY <1>0 DEF Sweep, Recover, Expire, AppendNotice, SweepCrash
<1>3. run' = run /\ card' = card
  BY DEF Sweep, Recover, Expire, AppendNotice, SweepCrash
<1> QED
  BY <1>1, <1>2, <1>3 DEF SameHolding

LEMMA EnvironmentWrites ==
    ASSUME TypeOK, NEW k \in Jobs, Environment(k), NEW j \in Jobs
    PROVE  /\ run' = run /\ card' = card /\ job'[j].done = job[j].done
           /\ job'[j].owner = job[j].owner
           /\ job'[j].status = job[j].status \/ job[j].status = "absent"
<1>0. job \in [Jobs -> Row] /\ job[j] \in Row
  BY DEF TypeOK
<1>1. CASE Submit(k)
  <2>1. /\ job[k].status = "absent" /\ run' = run /\ card' = card
        /\ job' = [job EXCEPT ![k].status = "queued"]
    BY <1>1 DEF Submit
  <2> QED
    BY <1>0, <2>1 DEF Row
<1>2. CASE LeaseRunsOut(k)
  <2>1. /\ run' = run /\ card' = card
        /\ job' = [job EXCEPT ![k].lease = "expired"]
    BY <1>2 DEF LeaseRunsOut
  <2> QED
    BY <1>0, <2>1 DEF Row
<1>3. CASE DeadlinePasses(k)
  <2>1. /\ run' = run /\ card' = card
        /\ job' = [job EXCEPT ![k].late = TRUE]
    BY <1>3 DEF DeadlinePasses
  <2> QED
    BY <1>0, <2>1 DEF Row
<1> QED
  BY <1>1, <1>2, <1>3 DEF Environment

\* What the progress of a job names is published, whoever shares an owner id:
\* a progress that is written back was read in the row.
ProgressIsTrue ==
    /\ \A j \in Jobs : job[j].done \subseteq Published(j)
    /\ \A t \in Threads :
         run[t].pc \in {"failcard", "closing"} => run[t].seenDone \subseteq Published(J(t))

LEMMA ProgressStaysTrue ==
    ASSUME TypeOK, [Next]_vars, ProgressIsTrue
    PROVE  ProgressIsTrue'
<1>1. \A j \in Jobs : Published(j) \subseteq Published(j)'
  BY PublishedGrows
<1>2. ASSUME NEW j \in Jobs PROVE job'[j].done \subseteq Published(j)'
  <2>0. job[j].done \subseteq Published(j) /\ Published(j) \subseteq Published(j)'
    BY <1>1 DEF ProgressIsTrue
  <2>1. ASSUME NEW t \in Threads, Worker(t) PROVE job'[j].done \subseteq Published(j)'
    <3>1. HoldingMoves(t, j)
      BY <2>1, HoldingInRun
    <3>2. CASE Adds(t, j)
      BY <2>0, <3>2 DEF Adds
    <3>3. CASE WritesBack(t, j)
      BY <2>0, <3>3 DEF WritesBack, ProgressIsTrue
    <3> QED
      BY <2>0, <3>1, <3>2, <3>3 DEF HoldingMoves, Keeps, SameHolding, Takes, Requeues, Releases
  <2>2. CASE Sweep
    BY <2>0, <2>2, SweepWrites
  <2>3. ASSUME NEW k \in Jobs, Environment(k) PROVE job'[j].done \subseteq Published(j)'
    BY <2>0, <2>3, EnvironmentWrites
  <2> QED
    BY <2>0, <2>1, <2>2, <2>3 DEF Next, vars
<1>3. ASSUME NEW t \in Threads, run'[t].pc \in {"failcard", "closing"}
      PROVE  run'[t].seenDone \subseteq Published(J(t))'
  <2>1. ASSUME run'[t] = run[t] PROVE run'[t].seenDone \subseteq Published(J(t))'
    <3>1. J(t) \in Jobs /\ J(t)' = J(t) /\ run[t].seenDone \subseteq Published(J(t))
      BY <1>3, <2>1 DEF ProgressIsTrue, TypeOK, Engaged, J
    <3>2. Published(J(t)) \subseteq Published(J(t))'
      BY <1>1, <3>1 DEF Published
    <3> QED
      BY <2>1, <3>1, <3>2
  <2>2. CASE Worker(t)
    <3>1. /\ J(t) \in Jobs /\ J(t)' = J(t)
          /\ \/ run'[t].seenDone = job[J(t)].done
             \/ run'[t].pc = run[t].pc /\ run'[t].seenDone = run[t].seenDone
      BY <1>3, <2>2, SeenIsRead DEF J
    <3>2. run'[t].seenDone \subseteq Published(J(t))
      BY <1>3, <3>1 DEF ProgressIsTrue
    <3>3. Published(J(t)) \subseteq Published(J(t))'
      BY <1>1, <3>1 DEF Published
    <3> QED
      BY <3>2, <3>3
  <2>3. CASE \/ Sweep \/ \E k \in Jobs : Environment(k)
    BY <2>1, <2>3, SweepWrites, EnvironmentWrites, JobsAssumption
    DEF Sweep, Recover, Expire, AppendNotice, SweepCrash, Environment, Submit, LeaseRunsOut,
        DeadlinePasses
  <2>4. ASSUME NEW u \in Threads \ {t}, Worker(u) PROVE run'[t] = run[t]
    BY <2>4, OthersStay
  <2> QED
    BY <2>1, <2>2, <2>3, <2>4 DEF Next, vars
<1> QED
  BY <1>2, <1>3 DEF ProgressIsTrue

\* Every card the progress of a job names is published, for all threads, crashes
\* and takeovers and also where the slots of a worker process share an owner id:
\* mark_card_failed and mark_partial write back a whole progress they read in an
\* earlier transaction, which may miss publications but invents none.
THEOREM ProgressNamesPublished == Spec => [](\A j \in Jobs : job[j].done \subseteq Published(j))
<1>1. Init => ProgressIsTrue
  BY DEF Init, ProgressIsTrue, Published, Idle
<1>2. ProgressIsTrue => \A j \in Jobs : job[j].done \subseteq Published(j)
  BY DEF ProgressIsTrue
<1> QED
  BY <1>1, <1>2, ProgressStaysTrue, TypeCorrect, PTL DEF Spec

-----------------------------------------------------------------------------
(* What is lost where owner ids are shared *)

\* Two threads execute the job with the owner id of its row: slots of a worker
\* process, of which the one stalled and the other claimed the job again.
HeldTwice(j) ==
    \E t, u \in Threads : t # u /\ J(t) = j /\ J(u) = j /\ Owns(t) /\ Owns(u)

\* A history variable: the jobs that have ever been held twice at a time.
VARIABLE shared
HistorySpec ==
    /\ Init /\ shared = {}
    /\ [][Next /\ shared' = shared \cup {j \in Jobs : HeldTwice(j)'}]_<<vars, shared>>

HistoryStep == [Next /\ shared' = shared \cup {j \in Jobs : HeldTwice(j)'}]_<<vars, shared>>

LEMMA HistoryOfSpec == HistorySpec => Spec
<1>1. HistoryStep => [Next]_vars
  BY DEF HistoryStep, vars
<1> QED
  BY <1>1, PTL DEF HistorySpec, HistoryStep, Spec

LEMMA HoldersStayCurrent ==
    ASSUME TypeOK, NEW j \in Jobs, CurrentOn(j), ~HeldTwice(j), ~HeldTwice(j)', [Next]_vars
    PROVE  CurrentOn(j)'
<1> SUFFICES ASSUME NEW t \in Threads, J(t)' = j
             PROVE  HolderIsCurrent(t)'
  BY DEF CurrentOn
<1>0. job \in [Jobs -> Row] /\ OwnerOf[t] # None /\ Idle.job = None /\ None \notin Jobs
  BY JobsAssumption DEF TypeOK, Idle
<1>1. ASSUME run'[t] = run[t] PROVE J(t) = j /\ HolderIsCurrent(t)
  BY <1>1 DEF CurrentOn, J
<1>2. ASSUME NEW u \in Threads \ {t}, Worker(u)
      PROVE  HolderIsCurrent(t)'
  <2>1. run'[t] = run[t]
    BY <1>2, OthersStay
  <2>2. ASSUME Owns(t)' PROVE SameHolding(j)
    <3>1. HoldingMoves(u, j)
      BY <1>2, HoldingInRun
    <3>2. job'[j].owner = OwnerOf[t] /\ J(t) = j
      BY <1>1, <2>1, <2>2 DEF Owns, J
    <3>3. ~(run'[u].job = j /\ job'[j].owner = OwnerOf[u])
      BY <1>2, <2>2, <3>2 DEF HeldTwice, Owns, J
    <3>4. ~(J(u) = j /\ Owns(u) /\ OwnerOf[u] = OwnerOf[t])
      BY <1>2, <3>2 DEF HeldTwice, Owns
    <3> QED
      BY <1>0, <3>1, <3>2, <3>3, <3>4
      DEF HoldingMoves, Keeps, Takes, Adds, WritesBack, Requeues, Releases
  <2> QED
    BY <1>1, <2>1, <2>2, WatcherStaysCurrent
<1>3. CASE Sweep
  <2>1. run'[t] = run[t] /\ (SameHolding(j) \/ job'[j].owner = None)
    BY <1>3, SweepWrites
  <2> QED
    BY <1>0, <1>1, <2>1, WatcherStaysCurrent DEF Owns, J
<1>4. ASSUME NEW k \in Jobs, Environment(k)
      PROVE  HolderIsCurrent(t)'
  <2>1. /\ run'[t] = run[t] /\ job'[j].done = job[j].done /\ job'[j].owner = job[j].owner
        /\ job'[j].status = job[j].status \/ job[j].status = "absent"
    BY <1>4, EnvironmentWrites
  <2>2. run[t].pc \notin {"idle", "done"} => SameHolding(j) \/ ~Owns(t)'
    BY <1>1, <2>1 DEF HolderIsCurrent, SameHolding, Owns, J
  <2> QED
    BY <1>1, <2>1, <2>2, WatcherStaysCurrent
<1>5. CASE UNCHANGED vars
  BY <1>1, <1>5, WatcherStaysCurrent DEF vars, SameHolding
<1>6. CASE Worker(t)
  <2>1. run[t].pc = "idle" \/ J(t) = j
    BY <1>0, <1>6, JobOfAThread DEF J
  <2>2. HolderIsCurrent(t)
    BY <2>1 DEF CurrentOn, HolderIsCurrent
  <2> QED
    BY <1>6, <2>2, MoverStaysCurrent
<1> QED
  BY <1>2, <1>3, <1>4, <1>5, <1>6 DEF Next

LEMMA ProgressIsKept ==
    ASSUME TypeOK, NEW j \in Jobs, CurrentOn(j), job[j].done = Published(j), [Next]_vars
    PROVE  job'[j].done = Published(j)'
<1>1. ASSUME card'[j] = card[j], job'[j].done = job[j].done
      PROVE  job'[j].done = Published(j)'
  BY <1>1 DEF Published
<1>2. ASSUME NEW t \in Threads, Worker(t)
      PROVE  job'[j].done = Published(j)'
  <2>1. HoldingMoves(t, j)
    BY <1>2, HoldingInRun
  <2>2. CASE Adds(t, j)
    BY <2>2 DEF Adds
  <2>3. CASE WritesBack(t, j)
    <3>1. run[t].seenDone = job[j].done
      BY <2>3 DEF WritesBack, CurrentOn, HolderIsCurrent
    <3> QED
      BY <1>1, <2>3, <3>1 DEF WritesBack
  <2> QED
    BY <1>1, <2>1, <2>2, <2>3
    DEF HoldingMoves, Keeps, SameHolding, Takes, Requeues, Releases
<1>3. CASE Sweep
  BY <1>1, <1>3, SweepWrites
<1>4. ASSUME NEW k \in Jobs, Environment(k)
      PROVE  job'[j].done = Published(j)'
  BY <1>1, <1>4, EnvironmentWrites
<1> QED
  BY <1>1, <1>2, <1>3, <1>4 DEF Next, vars

HistoryInv ==
    \A j \in Jobs \ shared : ~HeldTwice(j) /\ CurrentOn(j) /\ job[j].done = Published(j)

LEMMA HistoryKept == HistorySpec => []HistoryInv
<1>1. Init => HistoryInv
  <2> SUFFICES ASSUME Init, NEW j \in Jobs \ shared
               PROVE  ~HeldTwice(j) /\ CurrentOn(j) /\ job[j].done = Published(j)
    BY DEF HistoryInv
  <2>1. \A t \in Threads : run[t].pc = "idle" /\ J(t) = None
    BY DEF Init, Idle, J
  <2>2. ~HeldTwice(j)
    BY <2>1, JobsAssumption DEF HeldTwice
  <2>3. CurrentOn(j)
    BY <2>1, JobsAssumption DEF CurrentOn, HolderIsCurrent
  <2>4. job[j].done = {} /\ card[j] = [c \in Cards |-> None]
    BY DEF Init
  <2> QED
    BY <2>2, <2>3, <2>4 DEF Published
<1>2. TypeOK /\ HistoryInv /\ HistoryStep => HistoryInv'
  <2> SUFFICES ASSUME TypeOK, HistoryInv, HistoryStep, NEW j \in Jobs \ shared'
               PROVE  ~HeldTwice(j)' /\ CurrentOn(j)' /\ job'[j].done = Published(j)'
    BY DEF HistoryInv
  <2>1. CASE UNCHANGED <<vars, shared>>
    BY <2>1 DEF HistoryInv, HeldTwice, CurrentOn, HolderIsCurrent, Published, Owns, J, vars
  <2>2. CASE Next /\ shared' = shared \cup {k \in Jobs : HeldTwice(k)'}
    <3>1. j \in Jobs \ shared /\ ~HeldTwice(j)'
      BY <2>2
    <3>2. ~HeldTwice(j) /\ CurrentOn(j) /\ job[j].done = Published(j)
      BY <3>1 DEF HistoryInv
    <3> QED
      BY <2>2, <3>1, <3>2, HoldersStayCurrent, ProgressIsKept
  <2> QED
    BY <2>1, <2>2 DEF HistoryStep
<1> QED
  BY <1>1, <1>2, HistoryOfSpec, TypeCorrect, PTL DEF HistorySpec, HistoryStep

\* The progress of a job that was never held by two threads of one owner id at a
\* time names exactly its published cards, for all owner ids: no publication is
\* undone by a progress written back.
THEOREM ProgressOfUnsharedJobs ==
    HistorySpec => [](/\ \A j \in Jobs \ shared : job[j].done = Published(j)
                      /\ shared = {} => ProgressMatchesLedger)
<1>1. HistoryInv => /\ \A j \in Jobs \ shared : job[j].done = Published(j)
                    /\ shared = {} => ProgressMatchesLedger
  BY DEF HistoryInv, ProgressMatchesLedger
<1> QED
  BY <1>1, HistoryKept, PTL

-----------------------------------------------------------------------------
(* The protocol implements JobLifecycle *)

\* The statuses the queue never writes.
NoStrayStatus == \A j \in Jobs : job[j].status \notin {"retrying", "cancelled"}

LEMMA StatusesInUse == Spec => []NoStrayStatus
<1>1. Init => NoStrayStatus
  BY DEF Init, NoStrayStatus
<1>2. TypeOK /\ [Next]_vars /\ NoStrayStatus => NoStrayStatus'
  <2> SUFFICES ASSUME TypeOK, [Next]_vars, NoStrayStatus, NEW j \in Jobs
               PROVE  job'[j].status \notin {"retrying", "cancelled"}
    BY DEF NoStrayStatus
  <2>1. JobMoves(j) /\ job[j].status \notin {"retrying", "cancelled"}
    BY EveryJobMoves DEF NoStrayStatus
  <2>2. QED
    BY <2>1 DEF JobMoves, Quiet, StatusMoves, Announces, Decides, Pays, Notifies, GivenUp
<1>3. QED
  BY <1>1, <1>2, TypeCorrect, PTL DEF Spec

PromiseInv ==
    /\ TypeOK /\ EndedIsReleased /\ NothingForgotten /\ EndsDue /\ NoStrayStatus

\* Who writes with the owner id of the row finds it in one of these statuses.
HeldIn(j, held) ==
    /\ held \subseteq {"queued", "running"} /\ "running" \in held
    /\ \A t \in Threads :
         J(t) = j /\ run[t].pc \notin {"idle", "done"} /\ Owns(t) => job[j].status \in held

LEMMA ToldPlaces ==
    ASSUME NEW j \in Jobs, NEW type
    PROVE  type \in Promise(j)!Told <=> Positions(j, type) # {}
  BY DEF Promise!Told, Positions

LEMMA QuietKeepsPromise ==
    ASSUME PromiseInv, NEW j \in Jobs, NEW held, HeldIn(j, held), Quiet(j)
    PROVE  [Promise(j)!Step(held)]_(Promise(j)!vars)
<1>1. UNCHANGED <<log[j], card[j]>> /\ StatusMoves(j)
  BY DEF Quiet
<1>2. ASSUME NEW t \in Threads, J(t) = j, run[t].pc = "requeue", Owns(t)
      PROVE  job[j].status \in {"queued", "running"}
  BY <1>2 DEF HeldIn
<1>3. \/ job'[j].status = job[j].status
      \/ job[j].status = "absent" /\ job'[j].status = "queued"
      \/ job[j].status = "queued" /\ job'[j].status = "running"
      \/ job[j].status = "running" /\ job'[j].status = "queued"
  BY <1>1, <1>2 DEF StatusMoves, PromiseInv, NoStrayStatus, Claimable
<1>4. QED
  BY <1>1, <1>3 DEF Promise!Step, Promise!Move, Promise!vars

LEMMA AnnouncementIsPublication ==
    ASSUME NEW j \in Jobs, NEW held, HeldIn(j, held), Announces(j)
    PROVE  Promise(j)!Step(held)
<1>1. PICK t \in Threads, c \in Cards, v \in Contents :
        /\ J(t) = j /\ Owns(t) /\ run[t].pc \in {"resolve", "publish"}
        /\ card[j][c] = None
        /\ card'[j] = [card[j] EXCEPT ![c] = v]
        /\ log'[j] = Append(log[j], About("card_ready", c))
        /\ job'[j].status = job[j].status
  BY DEF Announces
<1>2. job[j].status \in held
  BY <1>1 DEF HeldIn
<1>3. Promise(j)!Publish(held, c, v)
  BY <1>1, <1>2 DEF Promise!Publish, About
<1>4. QED
  BY <1>3 DEF Promise!Step

LEMMA DecisionIsAnEnd ==
    ASSUME PromiseInv, NEW j \in Jobs, NEW held, HeldIn(j, held), Decides(j)
    PROVE  Promise(j)!Step(held)
<1>1. PICK t \in Threads, outcome \in {"completed", "partial", "failed"} :
        /\ J(t) = j /\ Owns(t) /\ run[t].pc \in Body \cup Handler
        /\ outcome = "completed" =>
             run[t].pc = "closing" /\ run[t].seenFailed = {}
        /\ job'[j].status = outcome
        /\ UNCHANGED <<card, log>>
  BY DEF Decides
<1>2. run[t].pc \notin {"idle", "done"}
  BY <1>1 DEF Body, Fenced, Handler
<1>3. job[j].status \in held /\ job[j].status \in {"queued", "running"}
  BY <1>1, <1>2 DEF HeldIn
<1>4. UNCHANGED <<card[j], log[j]>>
  BY <1>1
<1>5. CASE outcome = "completed"
  <2>1. Requested[j] \subseteq Published(j)
    BY <1>1, <1>5 DEF PromiseInv, NothingForgotten, Remembers
  <2>2. Promise(j)!Complete(held)
    BY <1>1, <1>3, <1>4, <1>5, <2>1
    DEF Promise!Complete, Promise!Move, Promise!Published, Published
  <2>3. QED
    BY <2>2 DEF Promise!Step
<1>6. CASE outcome = "partial"
  BY <1>1, <1>3, <1>4, <1>6 DEF Promise!Step, Promise!Move
<1>7. CASE outcome = "failed"
  BY <1>1, <1>3, <1>4, <1>7 DEF Promise!Step, Promise!Fail, Promise!Move
<1>8. QED
  BY <1>5, <1>6, <1>7

\* A terminal event of the row's status that is not in the log yet, all those
\* before it told, is the next one to tell.
LEMMA TellingAnEnd ==
    ASSUME NEW j \in Jobs, NEW held, NEW type,
           log'[j] = Append(log[j], Plain(type)),
           Positions(j, type) = {},
           \/ type \in {"completed", "failed"} /\ job[j].status = type
           \/ type = "partial" /\ job[j].status = "partial"
           \/ /\ type = "completed" /\ job[j].status = "partial"
              /\ Positions(j, "partial") # {},
           UNCHANGED <<job, card>>
    PROVE  Promise(j)!Step(held)
<1> DEFINE last == IF type = "completed" /\ job[j].status = "partial" THEN 2 ELSE 1
<1>1. /\ last \in DOMAIN Promise(j)!EndEvents
      /\ Promise(j)!EndEvents[last] = type
      /\ last = 2 => Promise(j)!EndEvents[1] = "partial"
  BY DEF Promise!EndEvents
<1>2. type \notin Promise(j)!Told
  BY ToldPlaces
<1>3. \A k \in 1..(last - 1) : Promise(j)!EndEvents[k] \in Promise(j)!Told
  BY <1>1, ToldPlaces
<1>4. Promise(j)!TellEnd
  <2> HIDE DEF last
  <2>1. QED
    BY <1>1, <1>2, <1>3 DEF Promise!TellEnd, Plain
<1>5. QED
  BY <1>4 DEF Promise!Step

LEMMA PaymentTellsTheEnd ==
    ASSUME PromiseInv, NEW j \in Jobs, NEW held, Pays(j)
    PROVE  Promise(j)!Step(held)
<1>1. PICK t \in Threads :
        /\ J(t) = j /\ run[t].owed # <<>>
        /\ log'[j] = Append(log[j], Head(run[t].owed))
        /\ UNCHANGED <<job, card>>
  BY DEF Pays
<1>2. OwesTruly(t, j)
  BY <1>1 DEF PromiseInv, EndsDue, EndTruly
<1>3. \E type : /\ Head(run[t].owed) = Plain(type)
                /\ \/ type \in {"completed", "failed"} /\ job[j].status = type
                   \/ /\ type = "partial" /\ job[j].status = "partial"
                      /\ Positions(j, "partial") = {}
                   \/ /\ type = "completed" /\ job[j].status = "partial"
                      /\ Positions(j, "partial") # {}
  BY <1>2 DEF OwesTruly
<1>4. Positions(j, "completed") = {} /\ Positions(j, "failed") = {}
  BY <1>2 DEF OwesTruly, Said
<1>5. QED
  BY <1>1, <1>3, <1>4, TellingAnEnd

LEMMA NoticeTellsTheEnd ==
    ASSUME PromiseInv, NEW j \in Jobs, NEW held, Notifies(j)
    PROVE  Promise(j)!Step(held)
<1>1. job[j].status = "failed" /\ Positions(j, "failed") = {}
  BY DEF PromiseInv, EndsDue, EndTruly, ToldTruly, Notifies, Said
<1>2. QED
  BY <1>1, TellingAnEnd DEF Notifies

LEMMA GivingUpFails ==
    ASSUME PromiseInv, NEW j \in Jobs, NEW held, GivenUp(j)
    PROVE  Promise(j)!Step(held)
<1>1. job[j].status \in {"queued", "running"} /\ job'[j].status = "failed"
      /\ UNCHANGED <<card[j], log[j]>>
  BY DEF GivenUp, PromiseInv, NoStrayStatus, Claimable
<1>2. QED
  BY <1>1 DEF Promise!Step, Promise!Fail, Promise!Move

LEMMA EveryStepKeepsPromises ==
    ASSUME PromiseInv, [Next]_vars, NEW j \in Jobs, NEW held, HeldIn(j, held)
    PROVE  [Promise(j)!Step(held)]_(Promise(j)!vars)
<1>1. JobMoves(j)
  BY EveryJobMoves DEF PromiseInv
<1>2. CASE Quiet(j)
  BY <1>2, QuietKeepsPromise
<1>3. CASE Announces(j) \/ Decides(j) \/ Pays(j) \/ Notifies(j) \/ GivenUp(j)
  <2>1. Promise(j)!Step(held)
    BY <1>3, AnnouncementIsPublication, DecisionIsAnEnd, PaymentTellsTheEnd,
       NoticeTellsTheEnd, GivingUpFails
  <2> QED
    BY <2>1
<1> QED
  BY <1>1, <1>2, <1>3 DEF JobMoves

LEMMA PromisesAreMade == Spec => []PromiseInv /\ \A j \in Jobs : Promise(j)!Init
<1>1. Init => \A j \in Jobs : Promise(j)!Init
  BY DEF Init, Promise!Init
<1> QED
  BY <1>1, TypeCorrect, EndedJobsAreReleased, RunsForgetNothing, EndsAreDue, StatusesInUse, PTL
  DEF PromiseInv, Spec

\* Nobody holds a row that is not there.
AbsentIsFree == \A j \in Jobs : job[j].status = "absent" => job[j].owner = None

LEMMA NobodyHoldsAbsent == Spec => []AbsentIsFree
<1>1. Init => AbsentIsFree
  BY DEF Init, AbsentIsFree
<1>2. TypeOK /\ AbsentIsFree /\ [Next]_vars => AbsentIsFree'
  <2> SUFFICES ASSUME TypeOK, AbsentIsFree, [Next]_vars, NEW j \in Jobs,
                      job'[j].status = "absent"
               PROVE  job'[j].owner = None
    BY DEF AbsentIsFree
  <2>1. \A t \in Threads : OwnerOf[t] # None
    BY JobsAssumption
  <2>2. job[j].status = "absent" => job[j].owner = None
    BY DEF AbsentIsFree
  <2>3. job[j].status = "absent"
    BY EveryJobMoves DEF JobMoves, Quiet, StatusMoves, Announces, Decides, Pays, Notifies, GivenUp
  <2>4. ASSUME NEW t \in Threads, Worker(t) PROVE job'[j].owner = None
    <3>1. HoldingMoves(t, j)
      BY <2>4, HoldingInRun
    <3> QED
      BY <2>1, <2>2, <2>3, <3>1 DEF HoldingMoves, Keeps, SameHolding, Takes, Adds, WritesBack,
         Requeues, Releases, Owns
  <2>5. CASE Sweep
    BY <2>2, <2>3, <2>5, SweepWrites DEF SameHolding
  <2>6. ASSUME NEW k \in Jobs, Environment(k) PROVE job'[j].owner = None
    BY <2>2, <2>3, <2>6, EnvironmentWrites
  <2> QED
    BY <2>2, <2>3, <2>4, <2>5, <2>6 DEF Next, vars
<1> QED
  BY <1>1, <1>2, TypeCorrect, PTL DEF Spec

\* The protocol implements the life of a job for every job and all owner ids,
\* also those that the slots of a worker process share: cards are published and
\* the job ends only while it is queued or running, each card once and with its
\* event, completed means whole, an end is final and told once and in order.
THEOREM JobsKeepTheirOverlappingPromise == Spec => EveryJobKeepsItsOverlappingPromise
<1>1. PromiseInv /\ AbsentIsFree /\ [Next]_vars =>
        [\A j \in Jobs : [Promise(j)!Overlapping]_(Promise(j)!vars)]_vars
  <2> SUFFICES ASSUME PromiseInv, AbsentIsFree, [Next]_vars, NEW j \in Jobs
               PROVE  [Promise(j)!Overlapping]_(Promise(j)!vars)
    OBVIOUS
  <2> DEFINE held == {"queued", "running"}
  <2>1. ASSUME NEW t \in Threads, J(t) = j, Owns(t) PROVE job[j].status \in held
    <3>1. job[j].owner # None
      BY <2>1, JobsAssumption DEF Owns
    <3>2. ~Ended(j) /\ job[j].status \notin {"absent", "retrying"}
      BY <3>1 DEF PromiseInv, EndedIsReleased, AbsentIsFree, NoStrayStatus
    <3>3. job[j].status \in Statuses
      BY DEF PromiseInv, TypeOK, Row
    <3> QED
      BY <3>2, <3>3 DEF Ended, Statuses, Claimable, Terminal
  <2>2. HeldIn(j, held)
    BY <2>1 DEF HeldIn
  <2>3. [Promise(j)!Step(held)]_(Promise(j)!vars)
    BY <2>2, EveryStepKeepsPromises
  <2> QED
    BY <2>3 DEF Promise!Overlapping
<1> QED
  BY <1>1, PromisesAreMade, NobodyHoldsAbsent, PTL DEF Spec, EveryJobKeepsItsOverlappingPromise

\* A job that was never held by two threads of one owner id at a time keeps the
\* whole promise of JobLifecycle: only while it is running are its cards
\* published, or is it completed or called partial.
THEOREM UnsharedJobsKeepTheirPromise ==
    HistorySpec => /\ \A j \in Jobs : Promise(j)!Init
                   /\ [][\A j \in Jobs \ shared' :
                            [Promise(j)!Next]_(Promise(j)!vars)]_<<vars, shared>>
<1>1. PromiseInv /\ HistoryInv /\ HistoryStep =>
        [\A j \in Jobs \ shared' : [Promise(j)!Next]_(Promise(j)!vars)]_<<vars, shared>>
  <2> SUFFICES ASSUME PromiseInv, HistoryInv, NEW j \in Jobs \ shared', Next,
                      shared' = shared \cup {k \in Jobs : HeldTwice(k)'}
               PROVE  [Promise(j)!Next]_(Promise(j)!vars)
    BY DEF HistoryStep
  <2> DEFINE held == {"running"}
  <2>1. CurrentOn(j)
    BY DEF HistoryInv
  <2>2. HeldIn(j, held)
    BY <2>1 DEF HeldIn, CurrentOn, HolderIsCurrent
  <2>3. [Promise(j)!Step(held)]_(Promise(j)!vars)
    BY <2>2, EveryStepKeepsPromises
  <2> QED
    BY <2>3 DEF Promise!Next
<1> QED
  BY <1>1, HistoryKept, HistoryOfSpec, PromisesAreMade, PTL DEF HistorySpec, HistoryStep
=============================================================================
