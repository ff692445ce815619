---------------------------- MODULE JobStream ------------------------------
(***************************************************************************)
(* How a learner's page follows one job: the event ledger that the         *)
(* executions and sweeps append to (resource_generation_repo.py), the      *)
(* event stream api_resource_generation_events of frontend/server.py that  *)
(* replays it after a cursor, and the page of useEduAgent.js that          *)
(* reconnects, falls back to polling and finally settles.                  *)
(*                                                                         *)
(* An event takes its id when it is inserted and becomes visible when its  *)
(* transaction commits: ids are BIGSERIAL, so the two orders may differ.   *)
(* Redis only wakes a reader earlier and is left out.                      *)
(***************************************************************************)
EXTENDS Naturals, Sequences, FiniteSets

CONSTANTS
    Cards,          \* the card types the page asked for
    Writers,        \* executions and sweeps that write to the job
    MaxClaims,      \* how often the job may be claimed: max_retries + 1
    MaxNotes,       \* bound: no progress event is written after this many ids
    Limit,          \* events of one list_events call
    MaxReconnects,  \* RESOURCE_STREAM_MAX_RECONNECTS
    MaxPolls,       \* RESOURCE_GENERATION_POLL_MAX_ATTEMPTS
    None            \* SQL NULL

ASSUME StreamAssumption ==
    /\ MaxNotes \in Nat /\ MaxReconnects \in Nat
    /\ Limit \in Nat \ {0} /\ MaxClaims \in Nat \ {0} /\ MaxPolls \in Nat \ {0}
    /\ None \notin Cards \cup Writers

VARIABLES
    job,      \* the row: its status, lease owner, claims and published cards
    writer,   \* what each writer has still to append, and its open insert
    lock,     \* the writer that holds the row FOR UPDATE
    nextId,   \* the event id sequence
    events,   \* the committed events
    reader,   \* the generator that serves the page's stream
    page      \* the page's entry for the job

vars == <<job, writer, lock, nextId, events, reader, page>>
rowVars == <<job, lock>>
pageVars == <<reader, page>>

-----------------------------------------------------------------------------
Ended == {"completed", "partial", "failed"}
\* terminal_statuses of the generator; "cancelled" is never written
StreamEnds == {"completed", "failed"}
Event == [id: Nat \ {0}, type: {"note", "card_ready"} \cup StreamEnds,
          card: Cards \cup {None}]

ASSUME NullIsNoRow == None \notin Event

Idle == [owed |-> <<>>, open |-> None]
Closed == [pc |-> "off", cursor |-> 0, final |-> FALSE]
Free(w) == writer[w] = Idle
\* The events `types` that w appends one by one after its row has committed.
Owes(w, types) == writer' = [writer EXCEPT ![w].owed = types]

Init ==
    /\ job = [status |-> "queued", owner |-> None, claims |-> 0, cards |-> {}]
    /\ writer = [w \in Writers |-> Idle]
    /\ lock = None
    /\ nextId = 1
    /\ events = {}
    /\ reader = Closed
    /\ page = [state |-> "stream", last |-> 0, tries |-> 0, polls |-> 0, shown |-> {}]

(***************************************************************************)
(* The row.  Each call commits the row, then owes its events; none of them *)
(* passes a row that mark_card_ready holds locked.                         *)
(***************************************************************************)
Move(w, status, owner, types) ==
    /\ Free(w) /\ lock = None
    /\ job' = [job EXCEPT !.status = status, !.owner = owner]
    /\ Owes(w, types)
    /\ UNCHANGED <<lock, nextId, events, pageVars>>

Claim(w) ==
    /\ Free(w) /\ lock = None
    /\ job.status = "queued"
    /\ job' = [job EXCEPT !.status = "running", !.owner = w, !.claims = @ + 1]
    /\ Owes(w, <<"note">>)
    /\ UNCHANGED <<lock, nextId, events, pageVars>>

Owns(w) == job.status = "running" /\ job.owner = w

\* transition_pipeline_state, mark_card_failed: progress the page may show
Report(w) ==
    /\ Owns(w) /\ nextId =< MaxNotes
    /\ Move(w, job.status, w, <<"note">>)

\* mark_completed, mark_partial with its compatibility envelope, mark_failed
Close(w) ==
    /\ Owns(w)
    /\ \/ Cards = job.cards /\ Move(w, "completed", None, <<"completed">>)
       \/ Move(w, "partial", None, <<"note", "completed">>)
       \/ Move(w, "failed", None, <<"failed">>)

\* retry_job by the execution, recover_stale_running_jobs by a sweep, while a
\* retry is left
Requeue(w) ==
    /\ job.status = "running" /\ job.claims < MaxClaims
    /\ Move(w, "queued", None, <<"note">>)

\* expire_deadline_jobs, or a recovery with no retry left
Expire(w) ==
    /\ job.status \notin Ended
    /\ Move(w, "failed", None, <<"failed">>)

(***************************************************************************)
(* The ledger.  mark_card_ready locks the row, inserts the card and its    *)
(* event and commits them together.                                        *)
(***************************************************************************)
Publish(w, c) ==
    /\ Free(w) /\ lock = None
    /\ Owns(w) /\ c \notin job.cards
    /\ lock' = w
    /\ writer' = [writer EXCEPT ![w].open = [id |-> nextId, type |-> "card_ready", card |-> c]]
    /\ nextId' = nextId + 1
    /\ UNCHANGED <<job, events, pageVars>>

CommitCard(w) ==
    /\ lock = w
    /\ job' = [job EXCEPT !.cards = @ \cup {writer[w].open.card}]
    /\ events' = events \cup {writer[w].open}
    /\ lock' = None
    /\ writer' = [writer EXCEPT ![w].open = None]
    /\ UNCHANGED <<nextId, pageVars>>

\* append_event: the insert takes the next id ...
Insert(w) ==
    /\ writer[w].open = None /\ writer[w].owed # <<>>
    /\ writer' = [writer EXCEPT ![w] =
           [owed |-> Tail(@.owed),
            open |-> [id |-> nextId, type |-> Head(@.owed), card |-> None]]]
    /\ nextId' = nextId + 1
    /\ UNCHANGED <<rowVars, events, pageVars>>

\* Faulty variant: no foreign key, so the lock of a card holds nobody up.
CommitEventUnchecked(w) ==
    /\ lock # w /\ writer[w].open # None
    /\ events' = events \cup {writer[w].open}
    /\ writer' = [writer EXCEPT ![w].open = None]
    /\ UNCHANGED <<rowVars, nextId, pageVars>>

\* ... and its foreign key reads the row, which waits for a FOR UPDATE lock,
\* before it can commit.
CommitEvent(w) ==
    /\ lock = None /\ writer[w].open # None
    /\ events' = events \cup {writer[w].open}
    /\ writer' = [writer EXCEPT ![w].open = None]
    /\ UNCHANGED <<rowVars, nextId, pageVars>>

\* The process dies: what it owed is never appended, its open insert and
\* its lock are rolled back, its id stays used; the lease it may have held
\* has no live owner and is left to a sweep.
Die(w) ==
    /\ ~Free(w)
    /\ writer' = [writer EXCEPT ![w] = Idle]
    /\ job' = [job EXCEPT !.owner = IF @ = w THEN None ELSE @]
    /\ lock' = IF lock = w THEN None ELSE lock
    /\ UNCHANGED <<nextId, events, pageVars>>

(***************************************************************************)
(* The stream: event_generator.                                            *)
(***************************************************************************)
\* Faulty variant: the cursor is not taken from the request.
ConnectFromStart ==
    /\ page.state = "stream" /\ reader.pc = "off"
    /\ reader' = [Closed EXCEPT !.pc = "read"]
    /\ UNCHANGED <<rowVars, writer, nextId, events, page>>

\* A fetch of the page, with the last id it received as Last-Event-ID.
Connect ==
    /\ page.state = "stream" /\ reader.pc = "off"
    /\ reader' = [Closed EXCEPT !.pc = "read", !.cursor = page.last]
    /\ UNCHANGED <<rowVars, writer, nextId, events, page>>

After(cursor) == {e \in events: e.id > cursor}
\* Faulty variant: ORDER BY event_id DESC.
ReplayNewest(cursor) ==
    {e \in After(cursor): Cardinality({f \in events: f.id > e.id}) < Limit}
\* list_events: WHERE event_id > cursor ORDER BY event_id ASC LIMIT Limit
Replay(cursor) ==
    {e \in After(cursor): Cardinality({f \in After(cursor): f.id < e.id}) < Limit}

\* scheduleResourceGenerationReconnect: a stream that ended without a
\* terminal event is opened again, then given up for polling.
Lost(p) ==
    IF p.tries >= MaxReconnects THEN [p EXCEPT !.state = "poll"]
    ELSE [p EXCEPT !.tries = @ + 1]

\* One replay is dispatched to the page, up to the first terminal event: the
\* generator returns there and the page ends.  When the connection breaks on
\* the way only the events up to n arrive.
Dispatched(cursor) ==
    {e \in Replay(cursor):
        \A f \in Replay(cursor): f.type \in StreamEnds => e.id =< f.id}

Read ==
    /\ reader.pc = "read"
    /\ \E n \in {page.last} \cup {e.id: e \in Dispatched(reader.cursor)}:
          LET all == Dispatched(reader.cursor)
              sent == {e \in all: e.id =< n}
              cards == {e \in sent: e.type = "card_ready"}
              end == \E e \in sent: e.type \in StreamEnds
              held == [page EXCEPT !.last = n, !.shown = @ \cup {e.card: e \in cards}]
          IN \/ /\ end
                /\ reader' = Closed
                /\ page' = [held EXCEPT !.state = "ended"]
             \/ /\ ~end /\ sent = all
                /\ reader' = [reader EXCEPT !.pc = "look", !.cursor = n]
                /\ page' = held
             \/ /\ sent # all
                /\ reader' = Closed
                /\ page' = Lost(held)
    /\ UNCHANGED <<rowVars, writer, nextId, events>>

\* Faulty variant: only completed jobs end the stream.
LookForever ==
    /\ reader.pc = "look" /\ ~reader.final
    /\ reader' = [reader EXCEPT !.pc = "read",
                                !.final = job.status = "completed"]
    /\ UNCHANGED <<rowVars, writer, nextId, events, page>>

\* The replay is sent: read the job's status, unless this was the final pass,
\* and replay again, after a pause or for the last time.
Look ==
    /\ reader.pc = "look" /\ ~reader.final
    /\ reader' = [reader EXCEPT !.pc = "read",
                                !.final = job.status \in StreamEnds]
    /\ UNCHANGED <<rowVars, writer, nextId, events, page>>

Finish ==
    /\ reader.pc = "look" /\ reader.final
    /\ reader' = Closed
    /\ page' = Lost(page)
    /\ UNCHANGED <<rowVars, writer, nextId, events>>

\* The connection breaks: what was not yet received is lost.
Disconnect ==
    /\ reader.pc # "off"
    /\ reader' = Closed
    /\ page' = Lost(page)
    /\ UNCHANGED <<rowVars, writer, nextId, events>>

\* consumeResourceGenerationPoll reads the learner's saved session, which
\* may lag behind the ledger.
Poll ==
    /\ page.state = "poll"
    /\ \E cs \in SUBSET job.cards:
          LET shown == page.shown \cup cs
              done == shown = Cards \/ page.polls + 1 = MaxPolls
          IN page' = [page EXCEPT !.shown = shown, !.polls = @ + 1,
                                  !.state = IF done THEN "polled" ELSE @]
    /\ UNCHANGED <<rowVars, writer, nextId, events, reader>>

-----------------------------------------------------------------------------
Write(w) ==
    \/ Claim(w) \/ Report(w) \/ Close(w) \/ Requeue(w) \/ Expire(w)
    \/ \E c \in Cards: Publish(w, c)
    \/ CommitCard(w) \/ Insert(w) \/ CommitEvent(w) \/ Die(w)
Serve == Connect \/ Read \/ Look \/ Finish
Next == (\E w \in Writers: Write(w)) \/ Serve \/ Disconnect \/ Poll
Spec == Init /\ [][Next]_vars

\* The server and the page run on timers of their own; no writer is assumed
\* to get any further.
FairSpec == Spec /\ WF_vars(Serve) /\ WF_vars(Poll)

-----------------------------------------------------------------------------
(* Properties *)

TypeOK ==
    /\ job \in [status: {"queued", "running"} \cup Ended, owner: Writers \cup {None},
                claims: 0..MaxClaims, cards: SUBSET Cards]
    /\ writer \in [Writers -> [owed: Seq({"note"} \cup StreamEnds), open: Event \cup {None}]]
    /\ lock \in Writers \cup {None}
    /\ nextId \in Nat \ {0}
    /\ events \in SUBSET Event
    /\ reader \in [pc: {"off", "read", "look"}, cursor: Nat, final: BOOLEAN]
    /\ page \in [state: {"stream", "poll", "ended", "polled"}, last: Nat, tries: 0..MaxReconnects,
                 polls: 0..MaxPolls, shown: SUBSET Cards]

\* Across every broken and reopened stream the page receives an event at
\* most once, and in the order of the ids.
EventsArriveOnceInOrder ==
    [][Read => \A e \in Dispatched(reader.cursor): e.id > page.last]_vars

\* The cursor never passes a card: the page holds the card of every
\* card_ready event that is visible below its last id.  Ids commit out of
\* order, but the foreign key of an event waits for the row a card locks.
CardsAreNeverSkipped ==
    \A e \in events: e.type = "card_ready" /\ e.id =< page.last => e.card \in page.shown

\* A page that a terminal event has settled shows every card of the ledger,
\* whichever execution published it and however often the stream broke.
TheEndComesAfterTheCards == page.state = "ended" => job.cards \subseteq page.shown

\* A job that has completed or failed settles its page, even when the writer
\* died before it appended the terminal event.
EndedJobsSettleThePage ==
    job.status \in StreamEnds ~> page.state \in {"ended", "polled"}

(* A statement of the repository that the code does not meet *)

\* What the comment on the final pass promises: once the ledger has been
\* replayed after a terminal status, the page holds the terminal event.
TheFinalPassDeliversTheEnd ==
    reader.final /\ reader.pc = "look" => page.state = "ended"

=============================================================================
