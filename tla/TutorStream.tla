---------------------------- MODULE TutorStream ----------------------------
(***************************************************************************)
(* One question to the tutor: the page that reads the answer as a stream   *)
(* and reconnects, the server that generates it, checks it and keeps a     *)
(* copy for a reconnect, and the exchange it adds to the learner's assets  *)
(* (LearningAssets, whose requests go on meanwhile).                       *)
(*                                                                         *)
(* The i-th request of the page may start the i-th generation.  Its answer *)
(* has the parts <<i, 1>>, ..., <<i, Parts>>, or is replaced as a whole by *)
(* <<i, 0>> when the model fails or the final check refuses what was       *)
(* shown.  Warnings and validation reports carry no text and are left out. *)
(***************************************************************************)
EXTENDS LearningAssets

CONSTANTS Tries,      \* requests the page makes before it gives up
          Parts,      \* parts of an answer
          MaxEvents   \* events the replay copy of a stream keeps

\* _tutor_stream_replay_max_events: every event of the longest stream fits:
\* a reset, all parts, another reset and the replacement, the end.
ASSUME TutorAssumption ==
    /\ Tries \in Nat \ {0} /\ Parts \in Nat \ {0}
    /\ MaxEvents \in Nat /\ MaxEvents >= Parts + 4

VARIABLES
    page,   \* the assistant's message of the page, and its connection
    work,   \* the handler of each request
    copy    \* by replica: the replay copy of this question's stream
tutorVars == <<page, work, copy>>
vars == <<assetVars, tutorVars>>

Attempts == 1..Tries
\* fit: the question passes the input checks.  tries: requests made.
\* on: the request whose response is read, 0 without one.
Blank == [status |-> "idle", fit |-> TRUE, text |-> << >>, cursor |-> 0, tries |-> 0, on |-> 0]
NoWork == [at |-> "none", on |-> None, seq |-> 0, shown |-> 0, todo |-> << >>,
           final |-> None, saved |-> FALSE]

TutorInit == page = Blank /\ work = [i \in Attempts |-> NoWork] /\ copy = [r \in Replicas |-> None]
Init == AssetsInit /\ TutorInit

Event(kind, text) == [id |-> 0, kind |-> kind, text |-> text]
Numbered(events, seq) == [j \in DOMAIN events |-> [events[j] EXCEPT !.id = seq + j]]
Token(i, n) == Event("token", <<<<i, n>>>>)
Whole(i) == [n \in 1..Parts |-> <<i, n>>]

-----------------------------------------------------------------------------
(* The replay copy *)

\* _begin_tutor_stream_replay: the new generation takes the place of the old.
Begun(i) == [epoch |-> i, events |-> << >>, complete |-> FALSE]

\* _append_tutor_stream_events: only the generation that began last may write.
Extended(c, i, events, complete) ==
    LET all == c.events \o events
        kept == IF Len(all) > MaxEvents THEN SubSeq(all, Len(all) - MaxEvents + 1, Len(all)) ELSE all
    IN  IF c = None \/ c.epoch # i THEN c
        ELSE [c EXCEPT !.events = kept, !.complete = @ \/ complete]

\* _read_tutor_stream_replay: the events with an id above the cursor.  Ids grow
\* along a copy, so these are its tail from the first of them.
Backlog(c, cursor) ==
    LET unseen == {j \in DOMAIN c.events : c.events[j].id > cursor}
    IN  IF unseen = {} THEN << >> ELSE SubSeq(c.events, Min(unseen), Len(c.events))

HasAnswer(r) == copy[r] # None /\ copy[r].complete

\* Expiry, or newer streams of others.
Evict(r) ==
    /\ copy[r] # None /\ Spend("evictions")
    /\ copy' = [copy EXCEPT ![r] = None]
    /\ UNCHANGED <<page, work, store, device, flow, fetch, written, accepted, answered>>

-----------------------------------------------------------------------------
(* The page *)

\* The stream ended without its end event, or was refused for capacity.
Retried(p) == [p EXCEPT !.on = 0, !.status = IF p.tries < Tries THEN "waiting" ELSE "error"]

\* dispatch, and the handlers of sendTutorMessage.
Received(p, e) ==
    LET q == [p EXCEPT !.cursor = e.id] IN
    CASE e.kind = "token" -> [q EXCEPT !.text = @ \o e.text]
      [] e.kind = "reset" -> [q EXCEPT !.text = << >>]
      [] e.kind = "done"  -> [q EXCEPT !.status = "complete", !.on = 0]
      [] e.kind = "error" -> [q EXCEPT !.status = "error", !.on = 0]

Ask ==
    /\ page.status = "idle" /\ Spend("questions")
    /\ \E fit \in BOOLEAN : page' = [page EXCEPT !.status = "waiting", !.fit = fit]
    /\ UNCHANGED <<work, copy, store, device, flow, fetch, written, accepted, answered>>

\* The connection breaks; the server may notice later.
Drop ==
    /\ page.status = "reading" /\ Spend("drops")
    /\ page' = Retried(page)
    /\ UNCHANGED <<work, copy, store, device, flow, fetch, written, accepted, answered>>

\* The idle timer, or that of the longest answer.
GiveUp ==
    /\ page.status \in {"waiting", "reading"} /\ Spend("drops")
    /\ page' = [page EXCEPT !.status = "error", !.on = 0]
    /\ UNCHANGED <<work, copy, store, device, flow, fetch, written, accepted, answered>>

-----------------------------------------------------------------------------
(* The server *)

\* _validate_tutor_request accepts the question.
Fit(p) == p.fit

\* _fallback_tutor_response, or the text for an answer that is refused.
Replacement(i) == <<<<i, 0>>>>

\* record_tutor_exchange_asset keeps no exchange with a blocked answer, and
\* none with a text that must not be stored.
Exchanged(s, x, keep) == IF keep THEN Recorded(s, x) ELSE s

\* _run_tutor_unlimited: the session after a whole answer.
PlainAnswer(r, keep) == Exchanged(Session(r), [plain |-> left.questions], keep)

\* run_tutor, which a client without streams asks: it holds the event loop
\* until the answer is recorded and saved.
AnswerPlainly(r, keep, result) ==
    LET kept == PlainAnswer(r, keep) IN
    /\ left.questions > 0 /\ MaySave(result)
    /\ left' = [Spent(left, result) EXCEPT !.questions = @ - 1]
    /\ mem' = [mem EXCEPT ![r] = kept] /\ snapshot' = Saved(kept, result)
    /\ UNCHANGED <<saver, tutorVars, device, flow, fetch, written, accepted, answered>>

Runs(i) == work[i].at \in {"asking", "sending"}
\* The learner's slot of a replica (KeyedConcurrencyLimiter).
SlotTaken(r) == \E i \in Attempts : Runs(i) /\ work[i].on = r

\* stream_tutor: without a slot the answer is a capacity error, which the page
\* retries.  The slots for all learners may be taken by others.
Refuse(r) ==
    /\ page.status = "waiting"
    /\ (SlotTaken(r) /\ UNCHANGED left) \/ Spend("drops")
    /\ page' = Retried([page EXCEPT !.tries = @ + 1])
    /\ UNCHANGED <<work, copy, server, device, flow, fetch, written>>

Connected(i) == page' = [page EXCEPT !.status = "reading", !.tries = i, !.on = i]

\* A complete copy is sent again from the page's cursor on.
Replay(r) ==
    LET i == page.tries + 1 IN
    /\ page.status = "waiting" /\ ~SlotTaken(r)
    /\ HasAnswer(r)
    /\ Connected(i)
    /\ work' = [work EXCEPT ![i] = [NoWork EXCEPT !.at = "sending", !.on = r,
                                        !.todo = Backlog(copy[r], page.cursor)]]
    /\ UNCHANGED <<copy, assetVars>>

\* Mutant: a generation that starts over leaves the page its partial text.
StartsQuietly(cursor) == << >>
\* A generation that starts over tells the page to drop what it has.
StartsOver(cursor) == IF cursor = 0 THEN << >> ELSE <<Event("reset", << >>)>>

\* Anything else is generated, with ids above the page's cursor.
Generate(r) ==
    LET i == page.tries + 1
        opening == Numbered(StartsOver(page.cursor)
                              \o (IF Fit(page) THEN << >> ELSE <<Event("error", << >>)>>), page.cursor)
    IN  /\ page.status = "waiting" /\ ~SlotTaken(r)
        /\ ~HasAnswer(r)
        /\ Connected(i)
        /\ copy' = [copy EXCEPT ![r] = Extended(Begun(i), i, opening, ~Fit(page))]
        /\ work' = [work EXCEPT ![i] = [NoWork EXCEPT
                        !.at = IF Fit(page) THEN "asking" ELSE "sending", !.on = r,
                        !.seq = page.cursor + Len(opening), !.todo = opening]]
        /\ UNCHANGED assetVars

\* Events are written to the copy before they are sent.
Publish(i, events, complete) ==
    LET w == work[i] IN copy' = [copy EXCEPT ![w.on] = Extended(@, i, events, complete)]
Asking(i) == work[i].at = "asking" /\ work[i].todo = << >>

\* The model's next part has passed the checks for what a learner may see.
Show(i) ==
    LET w == work[i]
        shown == Numbered(<<Token(i, w.shown + 1)>>, w.seq)
    IN  /\ Asking(i) /\ w.shown < Parts
        /\ work' = [work EXCEPT ![i] = [w EXCEPT !.shown = @ + 1, !.seq = @ + 1, !.todo = shown]]
        /\ Publish(i, shown, FALSE)
        /\ UNCHANGED <<page, assetVars>>

\* What is left to be sent of an answer, when w.shown parts of it were shown.
Remainder(i, w, replaced) ==
    IF replaced THEN (IF w.shown = 0 THEN << >> ELSE <<Event("reset", << >>)>>) \o <<Token(i, 0)>>
    ELSE [n \in 1..(Parts - w.shown) |-> Token(i, w.shown + n)]

\* The model has finished, failed or timed out: the answer is checked as a
\* whole, recorded with the learner's assets, saved, and its rest is published
\* with the end event.  Nothing of this waits.
Finish(i, replaced, keep, result) ==
    LET w == work[i]
        s == Session(w.on)
        kept == Exchanged(s, [tutor |-> i], keep)
        terminal == Numbered(Remainder(i, w, replaced) \o <<Event("done", << >>)>>, w.seq)
    IN  /\ Asking(i) /\ MaySave(result) /\ left' = Spent(left, result)
        /\ mem' = [mem EXCEPT ![w.on] = kept] /\ snapshot' = Saved(kept, result) /\ UNCHANGED saver
        /\ work' = [work EXCEPT ![i] = [w EXCEPT
               !.at = "sending", !.todo = terminal, !.seq = @ + Len(terminal),
               !.final = IF replaced THEN Replacement(i) ELSE Whole(i),
               !.saved = keep /\ result = "all"]]
        /\ Publish(i, terminal, TRUE)
        /\ UNCHANGED <<page, device, flow, fetch, written, accepted, answered>>

Send(i) ==
    /\ Runs(i) /\ work[i].todo # << >>
    /\ page' = IF page.on = i THEN Received(page, Head(work[i].todo)) ELSE page
    /\ work' = [work EXCEPT ![i].todo = Tail(@)]
    /\ UNCHANGED <<copy, assetVars>>

Over(i) == [work EXCEPT ![i].at = "over", ![i].todo = << >>]

\* The response ends.
End(i) ==
    /\ work[i].at = "sending" /\ work[i].todo = << >>
    /\ work' = Over(i)
    /\ page' = IF page.on = i THEN Retried(page) ELSE page
    /\ UNCHANGED <<copy, assetVars>>

\* The server notices that nobody reads: the handler is cancelled where it
\* waits, its slot is free and its copy stays as it is.
Cancel(i) ==
    /\ Runs(i) /\ page.on # i
    /\ work' = Over(i) /\ UNCHANGED <<page, copy, assetVars>>

RestartTutor(r) ==
    /\ copy' = [copy EXCEPT ![r] = None]
    /\ work' = [i \in Attempts |-> IF Runs(i) /\ work[i].on = r
                                   THEN [work[i] EXCEPT !.at = "over", !.todo = << >>] ELSE work[i]]
    /\ page' = IF page.on # 0 /\ work[page.on].on = r THEN Retried(page) ELSE page

-----------------------------------------------------------------------------
TutorNext ==
    \/ Ask \/ Drop \/ GiveUp
    \/ \E r \in Replicas : Refuse(r) \/ Replay(r) \/ Generate(r) \/ Evict(r)
    \/ \E i \in Attempts : Show(i) \/ Send(i) \/ End(i) \/ Cancel(i)
    \/ \E keep \in BOOLEAN : \E result \in SaveResults :
          \/ \E r \in Replicas : AnswerPlainly(r, keep, result)
          \/ \E i \in Attempts : \E replaced \in BOOLEAN : Finish(i, replaced, keep, result)

Next ==
    \/ \E d \in Devices : DeviceStep(d) /\ UNCHANGED tutorVars
    \/ \E r \in Replicas : ServerStep(r) /\ UNCHANGED tutorVars
    \/ \E p \in Processes : ThreadStep(p) /\ UNCHANGED tutorVars
    \/ \E r \in Replicas : Restart(r) /\ RestartTutor(r)
    \/ \E p \in Workers : Restart(p) /\ UNCHANGED tutorVars
    \/ TutorNext
Spec == Init /\ [][Next]_vars

-----------------------------------------------------------------------------
(* Properties *)

\* No two requests of the page have reached different processes.
ServedByOne ==
    \A i, j \in Attempts : {work[i].on, work[j].on} \subseteq Replicas => work[i].on = work[j].on

\* A message the page calls complete is the whole checked answer of one
\* generation.  The code does not keep this where the requests reach several
\* processes: the numbers of their events do not fit together.
CompleteIsWhole ==
    page.status = "complete" => \E i \in Attempts : work[i].final = page.text

\* Where they reached one process it holds, however often the stream broke,
\* was replayed or started over (tutor_service.py: "a reconnect never receives
\* a silently truncated answer").
AnswerIsWhole == ServedByOne => CompleteIsWhole

\* The exchange of an answer stays in the learner's history once it was saved.
\* The code does not keep this, for the reasons it does not keep
\* AcknowledgedEditsAreSaved.
SavedExchangesStay ==
    \A i \in Attempts : work[i].saved =>
        \A r \in Replicas : [tutor |-> i] \in Session(r).history
=============================================================================
