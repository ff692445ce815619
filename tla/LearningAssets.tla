--------------------------- MODULE LearningAssets ---------------------------
(***************************************************************************)
(* The restoration assets of one learner's course (drafts, annotations,    *)
(* scroll positions, tutor history): the store inside the session, which   *)
(* every process keeps in memory and saves with the session, and the queue *)
(* of edits every device keeps until the server has accepted them.         *)
(*                                                                         *)
(* The n-th edit of a behaviour has the number n, which is also the value  *)
(* it writes; a removal writes Absent.  The handlers of the asset routes   *)
(* run on the event loop under the lock of the learner's course, so each   *)
(* is one step.  Everything else that works on a session (generation runs  *)
(* in API threads and in worker processes, advances, practices) runs in    *)
(* threads that do not take the lock, and loads, changes, dumps and saves  *)
(* it in steps of their own.  There are fewer keys than the store keeps    *)
(* entries, so _prune removes nothing.                                     *)
(***************************************************************************)
EXTENDS Integers, Sequences, FiniteSets, SequencesExt

CONSTANTS Devices, Keys,
          Replicas,   \* API processes
          Workers,    \* processes that run generation jobs and serve no page
          Outcomes,   \* what saving a session may come to: a set of SaveResults
          MaxConflictRetries,
          MaxFlows,   \* bound: unfinished flushes of a device
          Budgets,    \* bounds of the model: a behaviour spends one of them
          None

Absent == 0
SaveResults == {"all", "row", "none"}

BudgetType == [edits : Nat, unfit : Nat, events : Nat, losses : Nat, hydrates : Nat, logins : Nat,
               exits : Nat,
               saves : Nat, others : Nat, restarts : Nat, questions : Nat, drops : Nat, evictions : Nat]

Processes == Replicas \cup Workers

ASSUME AssetsAssumption ==
    /\ Replicas \cap Workers = {} /\ None \notin Processes
    /\ MaxConflictRetries \in Nat /\ MaxFlows \in Nat \ {0}
    /\ Outcomes \subseteq SaveResults /\ "all" \in Outcomes
    /\ Budgets \subseteq BudgetType

VARIABLES
    mem,       \* by process: the assets of its session, None before a load
    snapshot,  \* the assets in the newest session snapshot
    saver,     \* by process: its thread that works on the session outside the lock
    device,    \* the page's store, and its copy in local storage
    flow,      \* by device: its unfinished flushes
    fetch,     \* by device: the hydrate under way
    edits,     \* number of edits so far
    latest,    \* by device and key: the last edit and what it wrote
    accepted,  \* edits whose request was answered "ok" by a server
    answered,  \* by key: what the last accepted edit wrote
    left       \* what the behaviour may still spend
store == <<mem, snapshot, saver>>
assetVars == <<store, device, flow, fetch, edits, latest, accepted, answered, left>>

server == <<store, accepted, answered>>
written == <<edits, latest>>

Spend(what) == left[what] > 0 /\ left' = [left EXCEPT ![what] = @ - 1]

FreshStore == [revision |-> 0, entries |-> [k \in Keys |-> Absent], history |-> {}]
EmptyCache == [revision |-> 0, shown |-> [k \in Keys |-> Absent], pending |-> << >>]
Closed == [open |-> FALSE, hydrated |-> FALSE, revision |-> 0,
           shown |-> EmptyCache.shown, pending |-> << >>, active |-> None,
           promised |-> FALSE, cache |-> EmptyCache, logins |-> 0]
NoFlow == [at |-> "idle"]
NoEdit == [edit |-> 0, value |-> Absent]

AssetsInit ==
    /\ mem = [p \in Processes |-> None] /\ snapshot = FreshStore
    /\ saver = [p \in Processes |-> None]
    /\ device = [d \in Devices |-> Closed]
    /\ flow = [d \in Devices |-> [i \in 1..MaxFlows |-> NoFlow]]
    /\ fetch = [d \in Devices |-> None]
    /\ edits = 0 /\ latest = [d \in Devices |-> [k \in Keys |-> NoEdit]]
    /\ accepted = {} /\ answered = [k \in Keys |-> Absent]
    /\ left \in Budgets

-----------------------------------------------------------------------------
(* The server *)

\* get_session: the object in memory, else the newest snapshot.
Session(p) == IF mem[p] # None THEN mem[p] ELSE snapshot

Touch(s) == [s EXCEPT !.revision = @ + 1]

\* persist_session saves the state row and the snapshot; loads prefer the
\* snapshot, so the row is not followed.  It calls the session durable when
\* either was saved.
Saved(s, result) == IF result = "all" THEN s ELSE snapshot
MaySave(result) == result \in Outcomes /\ (result = "all" \/ left.saves > 0)
Spent(l, result) == IF result = "all" THEN l ELSE [l EXCEPT !.saves = @ - 1]

\* _append_server_asset: the server's own entries (a tutor exchange, an event).
Recorded(s, x) == Touch([s EXCEPT !.history = @ \cup {x}])

\* _assets_response
Answer(kind, s) == [kind |-> kind, revision |-> s.revision, entries |-> s.entries]
Failure == [kind |-> "error"]

\* patch_learning_asset writes only a removal that removes something and every
\* upsert; a removal of nothing is answered without a write.
Writes(s, p) == p.value # Absent \/ s.entries[p.key] # Absent
Patched(s, p) == Touch([s EXCEPT !.entries[p.key] = p.value])

\* _normalize_value and the checks under it accept the value.
Fits(p) == p.fit

\* _persist_asset_mutation: a save that left nothing durable is undone.
Undone(before, after, result) == IF result = "none" THEN before ELSE after

-----------------------------------------------------------------------------
(* Work on the session outside the lock.  Bound: one such thread of a        *)
(* process at a time.                                                        *)

Due == [at |-> "due"]
Loaded(s) == [at |-> "loaded", state |-> s]
Dumped(s) == [at |-> "dumped", state |-> s]
Works(p, stage) == saver[p] # None /\ saver[p].at = stage
pages == <<device, flow, fetch, written, accepted, answered>>

\* A generation run, an advance or a practice takes up the session, and reads
\* the newest snapshot when its process has none.
TakeUp(p) ==
    /\ saver[p] = None /\ Spend("others")
    /\ saver' = [saver EXCEPT ![p] = IF mem[p] # None THEN Due ELSE Loaded(snapshot)]
    /\ UNCHANGED <<mem, snapshot, pages>>

\* replace_session_state: what was read replaces the state of the session, also
\* one that a request has loaded and changed meanwhile.
Install(p) ==
    /\ Works(p, "loaded")
    /\ mem' = [mem EXCEPT ![p] = saver[p].state]
    /\ saver' = [saver EXCEPT ![p] = Due]
    /\ UNCHANGED <<snapshot, pages, left>>

\* record_learning_event_asset, in the thread of an advance that goes on to
\* save the session.
RecordEvent(r, n) ==
    /\ saver[r] = None /\ Spend("events")
    /\ mem' = [mem EXCEPT ![r] = Recorded(Session(r), [event |-> n])]
    /\ saver' = [saver EXCEPT ![r] = Due]
    /\ UNCHANGED <<snapshot, pages>>

\* persist_session dumps the state first ...
Dump(p) ==
    /\ Works(p, "due")
    /\ saver' = [saver EXCEPT ![p] = Dumped(mem[p])]
    /\ UNCHANGED <<mem, snapshot, pages, left>>

\* ... and takes the next version of the snapshot when it writes: the newest
\* snapshot is the one that was written last, however old its state is.
\* Nobody looks at what this save returns.
SaveDump(p, result) ==
    /\ Works(p, "dumped") /\ MaySave(result) /\ left' = Spent(left, result)
    /\ snapshot' = Saved(saver[p].state, result)
    /\ saver' = [saver EXCEPT ![p] = None]
    /\ UNCHANGED <<mem, pages>>

\* restore_or_create_runtime_session cannot tell a load that failed from a
\* session that never was: it makes a fresh one and saves it.
LoadFails(p) ==
    /\ mem[p] = None /\ Spend("saves")
    /\ mem' = [mem EXCEPT ![p] = FreshStore]
    /\ snapshot' \in {FreshStore, snapshot}
    /\ UNCHANGED <<saver, pages>>

-----------------------------------------------------------------------------
(* The page's store *)

\* applyPendingPatches
Overlay(entries, pending) ==
    [k \in Keys |->
        LET own == SelectSeq(pending, LAMBDA p : p.key = k)
        IN  IF own = << >> THEN entries[k] ELSE Last(own).value]

\* persistLocal
KeepLocal(dv) ==
    [dv EXCEPT !.cache = [revision |-> dv.revision, shown |-> dv.shown, pending |-> dv.pending]]

ApplyRemote(dv, answer) ==
    KeepLocal([dv EXCEPT !.shown = Overlay(answer.entries, dv.pending),
                         !.revision = IF answer.revision = 0 THEN @ ELSE answer.revision])

\* enqueuePatch: an edit takes the place of the first one that waits with the
\* same key, unless that one is being sent.
Enqueue(dv, p) ==
    LET waiting == {i \in DOMAIN dv.pending :
                        dv.pending[i] # dv.active /\ dv.pending[i].key = p.key}
    IN  IF waiting = {} THEN Append(dv.pending, p)
                        ELSE [dv.pending EXCEPT ![Min(waiting)] = p]

\* Mutant: an answer removes the patch at the head.
RemovePendingHead(pending, p) == IF pending = << >> THEN pending ELSE Tail(pending)
\* removePendingPatch looks for the very object that was sent; a patch read
\* back from local storage is another object.
RemovePending(pending, p) ==
    LET at == {i \in DOMAIN pending : pending[i] = p}
    IN  IF at = {} THEN pending ELSE RemoveAt(pending, Min(at))

Sent(dv, p, tries) == [at |-> "sent", patch |-> p, base |-> dv.revision, tries |-> tries]
FreeFlows(d) == {i \in 1..MaxFlows : flow[d][i] = NoFlow}

\* flushPending up to its first request.
FlushPending(d, dv) ==
    IF dv.hydrated /\ ~dv.promised /\ dv.pending # << >>
    THEN /\ FreeFlows(d) # {}
         /\ device' = [device EXCEPT ![d] = [dv EXCEPT !.active = Head(dv.pending), !.promised = TRUE]]
         /\ flow' = [flow EXCEPT ![d][Min(FreeFlows(d))] = Sent(dv, Head(dv.pending), 0)]
    ELSE device' = [device EXCEPT ![d] = dv] /\ UNCHANGED flow

\* setSession, and the request of the hydrate that follows it.
Login(d) ==
    LET dv == device[d]
        made == dv.logins + 1
        pending == [i \in DOMAIN dv.cache.pending |-> [dv.cache.pending[i] EXCEPT !.made = made]]
    IN  /\ ~dv.open /\ fetch[d] = None /\ Spend("logins")
        /\ device' = [device EXCEPT ![d] =
                [Closed EXCEPT !.open = TRUE, !.logins = made, !.cache = dv.cache,
                    !.pending = pending, !.revision = dv.cache.revision,
                    !.shown = Overlay(dv.cache.shown, pending)]]
        /\ fetch' = [fetch EXCEPT ![d] = [at |-> "sent"]]
        /\ UNCHANGED <<flow, server, written>>

\* write and remove
Edit(d, k, value, fit) ==
    LET n == edits + 1
        dv == device[d]
        p == [edit |-> n, key |-> k, value |-> value, fit |-> fit, made |-> dv.logins]
        shown == [dv EXCEPT !.shown[k] = value]
    IN  /\ dv.open
        /\ edits' = n /\ latest' = [latest EXCEPT ![d][k] = [edit |-> n, value |-> value]]
        /\ FlushPending(d, KeepLocal([shown EXCEPT !.pending = Enqueue(shown, p)]))
        /\ UNCHANGED <<fetch, server>>
Write(d, k) ==
    \/ Spend("edits") /\ Edit(d, k, edits + 1, TRUE)
    \/ Spend("unfit") /\ Edit(d, k, edits + 1, FALSE)
Delete(d, k) == Spend("edits") /\ Edit(d, k, Absent, TRUE)

\* hydrate of an open session, as after an answer of the tutor.
\* Bound: one hydrate of a device at a time.
Hydrate(d) ==
    /\ device[d].open /\ fetch[d] = None /\ Spend("hydrates")
    /\ fetch' = [fetch EXCEPT ![d] = [at |-> "sent"]]
    /\ UNCHANGED <<device, flow, server, written>>

\* get_learning_assets
ServeFetch(d, r) ==
    /\ fetch[d] # None /\ fetch[d].at = "sent"
    /\ fetch' = [fetch EXCEPT ![d] = [at |-> "answered", answer |-> Answer("ok", Session(r))]]
    /\ mem' = [mem EXCEPT ![r] = Session(r)]
    /\ UNCHANGED <<snapshot, saver, device, flow, written, accepted, answered, left>>

TakeFetch(d) ==
    /\ fetch[d] # None /\ fetch[d].at = "answered"
    /\ fetch' = [fetch EXCEPT ![d] = None]
    /\ FlushPending(d, [ApplyRemote(device[d], fetch[d].answer) EXCEPT !.hydrated = TRUE])
    /\ UNCHANGED <<server, written, left>>

\* The request or its answer is lost, or the server answers with an error.
LoseFetch(d) ==
    /\ fetch[d] # None /\ Spend("losses")
    /\ fetch' = [fetch EXCEPT ![d] = None]
    /\ device' = [device EXCEPT ![d] = KeepLocal([@ EXCEPT !.hydrated = TRUE])]
    /\ UNCHANGED <<flow, server, written>>

\* flush of a closing view, or the learner's retry.
Flush(d) ==
    LET dv == device[d] IN
    /\ dv.open /\ dv.hydrated /\ ~dv.promised /\ dv.pending # << >>
    /\ Spend("hydrates") /\ FlushPending(d, KeepLocal(dv))
    /\ UNCHANGED <<fetch, server, written>>

\* A request on its way to the server, also one whose page was left.
Requested(f) == f.at \in {"sent", "orphaned"}
\* The answer finds nobody when the page was left.
Reply(d, i, answer) ==
    LET f == flow[d][i] IN
    flow' = [flow EXCEPT ![d][i] =
                IF f.at = "orphaned" THEN NoFlow
                ELSE [at |-> "answered", patch |-> f.patch, tries |-> f.tries, answer |-> answer]]

\* The write of p to the session s and its save.  A thread may dump the state
\* of a write that is then undone.
Persist(d, i, r, s, p, result) ==
    /\ MaySave(result) /\ left' = Spent(left, result)
    /\ mem' = [mem EXCEPT ![r] = Undone(s, Patched(s, p), result)]
    /\ snapshot' = Saved(Patched(s, p), result)
    /\ \/ UNCHANGED saver
       \/ /\ result = "none" /\ Works(r, "due")
          /\ saver' = [saver EXCEPT ![r] = Dumped(Patched(s, p))]
    /\ IF result = "none"
       THEN Reply(d, i, Failure) /\ UNCHANGED <<accepted, answered>>
       ELSE /\ Reply(d, i, Answer("ok", Patched(s, p)))
            /\ accepted' = accepted \cup {p.edit}
            /\ answered' = [answered EXCEPT ![p.key] = p.value]

\* api_session_assets_patch: another revision is a conflict, a value that does
\* not fit is refused, a removal of nothing is answered without a write, and a
\* write is saved with the session.
ServeFlow(d, i, r) ==
    LET p == flow[d][i].patch
        s == Session(r)
        fresh == flow[d][i].base = s.revision
    IN  /\ Requested(flow[d][i])
        /\ UNCHANGED <<device, fetch, written>>
        /\ \/ /\ ~fresh /\ Reply(d, i, Answer("conflict", s))
              /\ mem' = [mem EXCEPT ![r] = s]
              /\ UNCHANGED <<snapshot, saver, accepted, answered, left>>
           \/ /\ fresh /\ ~Fits(p) /\ Reply(d, i, Failure)
              /\ mem' = [mem EXCEPT ![r] = s]
              /\ UNCHANGED <<snapshot, saver, accepted, answered, left>>
           \/ /\ fresh /\ Fits(p) /\ ~Writes(s, p) /\ Reply(d, i, Answer("ok", s))
              /\ mem' = [mem EXCEPT ![r] = s] /\ accepted' = accepted \cup {p.edit}
              /\ UNCHANGED <<snapshot, saver, answered, left>>
           \/ /\ fresh /\ Fits(p) /\ Writes(s, p)
              /\ \E result \in SaveResults : Persist(d, i, r, s, p, result)

\* The request is lost, or its answer.
LoseFlow(d, i) ==
    /\ \/ Requested(flow[d][i])
       \/ flow[d][i].at = "answered" /\ flow[d][i].answer # Failure
    /\ Spend("losses") /\ Reply(d, i, Failure)
    /\ UNCHANGED <<device, fetch, server, written>>

Resend(d, i, dv, p, tries) ==
    /\ device' = [device EXCEPT ![d] = [dv EXCEPT !.active = IF tries = 0 THEN p ELSE @]]
    /\ flow' = [flow EXCEPT ![d][i] = Sent(dv, p, tries)]
\* The finally block of a flush.
EndFlow(d, i, dv) ==
    LET ended == [dv EXCEPT !.active = None, !.promised = FALSE]
    IN  /\ device' = [device EXCEPT ![d] = IF dv.open THEN KeepLocal(ended) ELSE ended]
        /\ flow' = [flow EXCEPT ![d][i] = NoFlow]

\* The flush goes on with the answer.  It cannot tell a learner who logged out
\* and in again from one who stayed.
TakeFlow(d, i) ==
    LET f == flow[d][i]
        dv == device[d]
        sent == ApplyRemote([dv EXCEPT !.pending = RemovePending(@, f.patch), !.active = None],
                            f.answer)
        again == ApplyRemote(dv, f.answer)
    IN  /\ f.at = "answered"
        /\ CASE dv.open /\ f.answer.kind = "ok" ->
                   IF sent.pending = << >> THEN EndFlow(d, i, sent)
                   ELSE Resend(d, i, sent, Head(sent.pending), 0)
             [] dv.open /\ f.answer.kind = "conflict" /\ f.tries < MaxConflictRetries ->
                   Resend(d, i, again, f.patch, f.tries + 1)
             [] OTHER -> EndFlow(d, i, dv)
        /\ UNCHANGED <<fetch, server, written, left>>

\* reset, when the learner logs out; requests under way go on.
\* Bound: not during a hydrate.
Logout(d) ==
    /\ device[d].open /\ fetch[d] = None /\ Spend("exits")
    /\ device' = [device EXCEPT ![d] =
            [Closed EXCEPT !.cache = device[d].cache, !.logins = device[d].logins]]
    /\ UNCHANGED <<flow, fetch, server, written>>

\* The page is closed or reloaded: only local storage is left of it, and the
\* edits it has sent, which the server may still get.  What becomes of a hydrate
\* that was sent nobody sees.
Leave(d) ==
    /\ device[d].open /\ Spend("exits")
    /\ device' = [device EXCEPT ![d] =
            [Closed EXCEPT !.cache = device[d].cache, !.logins = device[d].logins]]
    /\ flow' = [flow EXCEPT ![d] = [i \in 1..MaxFlows |->
            IF Requested(flow[d][i]) THEN [flow[d][i] EXCEPT !.at = "orphaned"] ELSE NoFlow]]
    /\ fetch' = [fetch EXCEPT ![d] = None]
    /\ UNCHANGED <<server, written>>

DeviceStep(d) ==
    \/ Login(d) \/ TakeFetch(d) \/ LoseFetch(d) \/ Hydrate(d) \/ Flush(d)
    \/ Logout(d) \/ Leave(d)
    \/ \E k \in Keys : Write(d, k) \/ Delete(d, k)
    \/ \E i \in 1..MaxFlows : LoseFlow(d, i) \/ TakeFlow(d, i)
ServerStep(r) ==
    \/ \E d \in Devices : ServeFetch(d, r)
    \/ \E d \in Devices : \E i \in 1..MaxFlows : ServeFlow(d, i, r)
    \/ RecordEvent(r, left.events)
ThreadStep(p) ==
    \/ TakeUp(p) \/ Install(p) \/ Dump(p) \/ LoadFails(p)
    \/ \E result \in Outcomes : SaveDump(p, result)
Restart(p) ==
    /\ Spend("restarts")
    /\ mem' = [mem EXCEPT ![p] = None] /\ saver' = [saver EXCEPT ![p] = None]
    /\ UNCHANGED <<snapshot, pages>>

-----------------------------------------------------------------------------
(* Properties *)

\* What the server answered "ok" to is in the newest snapshot.  The code does
\* not keep this: a thread or a worker that dumped the session before saves it
\* after, a save may reach the row and not the snapshot, and every process has
\* a session of its own.  It is no property of the runs.
AcknowledgedEditsAreSaved == \A k \in Keys : snapshot.entries[k] = answered[k]

\* The last edit of a key waits in the page's local storage until a server has
\* accepted it, through lost answers, refused saves, stale and fresh sessions,
\* a logout or a reload during a flush and the flush of the next login: nothing
\* is sent for another's answer.
LastEditsWaitOrAreAccepted ==
    \A d \in Devices, k \in Keys :
        LET n == latest[d][k].edit IN
        \/ n = 0 \/ n \in accepted
        \/ \E i \in DOMAIN device[d].cache.pending : device[d].cache.pending[i].edit = n

\* A page whose learner edits a key on no other device shows the last edit of
\* it (ChatArea.learningAssets.spec.js: "saves the final N01 edit").
FinalEditIsShown ==
    \A d \in Devices, k \in Keys :
        (/\ device[d].open /\ latest[d][k] # NoEdit
         /\ \A e \in Devices \ {d} : latest[e][k] = NoEdit)
        => device[d].shown[k] = latest[d][k].value
=============================================================================
