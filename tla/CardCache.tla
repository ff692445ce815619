----------------------------- MODULE CardCache -----------------------------
(***************************************************************************)
(* The two card caches of one course node: the course (base) cache every   *)
(* learner reads and the personal cache of each learner.  Jobs look a card *)
(* up, or have it generated, publish it in the learner's session and store *)
(* it again; learners study, reset their session and delete their account  *)
(* meanwhile, and the process restarts with a newer knowledge index.       *)
(*                                                                         *)
(* Sources: resource_service.py (get_node_resources, request_generation,   *)
(* _run_claimed_generation_job, _persist_ready_card, _store_card_in_caches)*)
(* and the cache tables of resource_generation_repo.py.                    *)
(*                                                                         *)
(* Course, node and locale are fixed.  A situation stands for what the     *)
(* learner's state gives a context: mastery, errors, style, stage and the  *)
(* last diagnostic.  The ledger of the jobs is JobLifecycle's matter: here *)
(* a row is only there or deleted.                                         *)
(***************************************************************************)
EXTENDS FiniteSets, Integers

CONSTANTS
    Learners, Cards, Quiz,  \* Quiz: the card type that only sessions grade
    Situations, Fresh,      \* Fresh: the situation of a new session
    Versions,               \* knowledge index versions, 1 .. n
    Jobs, None

VARIABLES
    sit,        \* sit[l]: the learner's state, as contexts see it
    cards,      \* cards[l][c]: the card in the learner's session
    base,       \* course cache: <<card type, version>> -> card
    personal,   \* personal cache: <<card type, key>> -> card
    jobs,       \* jobs[j]: the job's row and the run that executes it
    lock,       \* lock[l]: the job that holds the learner's session lock
    version,    \* the knowledge index version of the process
    gone        \* learners whose account was deleted

vars == <<sit, cards, base, personal, jobs, lock, version, gone>>
----------------------------------------------------------------------------
(* Contexts and cards *)

Bucket(mastery) == CASE mastery < 35 -> "foundational"
                     [] mastery >= 35 /\ mastery < 65 -> "developing"
                     [] mastery >= 65 /\ mastery < 85 -> "proficient"
                     [] mastery >= 85 -> "advanced"

\* What a job or a reader knows of the learner when its context is built.
Context(l) ==
    [learner |-> l, sit |-> sit[l], version |-> version,
     done |-> {c \in Cards : cards[l][c] # None}]

\* Mutant: the personal cache forgets the mastery bucket.
KeyWithoutBucket(x) ==
    [learner |-> x.learner, bucket |-> "developing",
     errors |-> x.sit.errors, style |-> x.sit.style, version |-> x.version]
\* The columns of the personal cache beside the card type.
Key(x) ==
    [learner |-> x.learner, bucket |-> Bucket(x.sit.mastery),
     errors |-> x.sit.errors, style |-> x.sit.style, version |-> x.version]

\* Whether a card made in this context may be shared by the course.
Neutral(x) ==
    /\ x.sit.mastery = 50
    /\ x.sit.errors = "none"
    /\ x.sit.style = "textual"
    /\ x.done = {}
    /\ ~x.sit.diagnosed
    /\ x.sit.stage = "STANDARD_PATH"

\* A generated card and, with it, the context it was made in.
Made(x, template) == [from |-> x, template |-> template]
Template(card) == card.template
Whole(card) == card # None /\ ~Template(card)

\* _cache_where with the columns of a lookup, and the checks of what it found.
Row(table, k) == IF k \in DOMAIN table THEN table[k] ELSE None
Valid(card, x) == Whole(card) /\ card.from.version = x.version

OwnRow(x, c) == Row(personal, <<c, Key(x)>>)
CourseRow(x, c) == Row(base, <<c, x.version>>)

CacheCard(x, c) ==
    IF Valid(OwnRow(x, c), x) THEN OwnRow(x, c)
    ELSE IF Valid(CourseRow(x, c), x) THEN CourseRow(x, c) ELSE None

\* get_node_resources: the session's cards, then the caches; a quiz is never
\* read from a cache, because only the session's copy can be graded.
Shown(l, c) ==
    IF cards[l][c] # None THEN cards[l][c]
    ELSE IF c = Quiz THEN None ELSE CacheCard(Context(l), c)

\* The upserts and deletes of the two tables.
Stored(table, k, card) ==
    [q \in DOMAIN table \cup {k} |-> IF q = k THEN card ELSE table[q]]
StoredForCourse(x, c, card) == Stored(base, <<c, x.version>>, card)
StoredOwn(x, c, card) == Stored(personal, <<c, Key(x)>>, card)
WithoutCourse(want) ==
    [k \in {q \in DOMAIN base : q[1] \notin want} |-> base[k]]
WithoutOwn(l, want) ==
    [k \in {q \in DOMAIN personal : q[1] \notin want \/ q[2].learner # l} |-> personal[k]]
----------------------------------------------------------------------------
(* Jobs *)

Modes == {"cached", "uncached", "force"}

Job(at, want, mode, key, row) ==
    [at |-> at, want |-> want, mode |-> mode, key |-> key, row |-> row,
     context |-> None, have |-> {}, todo |-> {}, open |-> {}, hand |-> None,
     card |-> None, phase |-> "looking", attached |-> TRUE]
NoJob == Job("free", {}, "cached", None, FALSE)
Over == Job("ended", {}, "cached", None, FALSE)

Active(j) == jobs[j].at \notin {"free", "ended"}
Set(j, r) == jobs' = [jobs EXCEPT ![j] = r]

Init ==
    /\ sit = [l \in Learners |-> Fresh]
    /\ cards = [l \in Learners |-> [c \in Cards |-> None]]
    /\ base = [k \in {} |-> None]
    /\ personal = [k \in {} |-> None]
    /\ jobs = [j \in Jobs |-> NoJob]
    /\ lock = [l \in Learners |-> None]
    /\ version = 1
    /\ gone = {}

\* Card types a request asks to be made: a template counts as missing.
Wanted(l, cs, mode) ==
    IF mode = "force" THEN cs
    ELSE {c \in cs : ~Whole(cards[l][c])}

\* An active job of the same request: the idempotency key covers the types,
\* the mode and everything the personal cache is keyed by.
Same(l, want, mode) ==
    {j \in Jobs : /\ Active(j) /\ jobs[j].want = want /\ jobs[j].mode = mode
                  /\ jobs[j].key = Key(Context(l))}

\* A forced refresh first deletes the course's and the learner's rows of its
\* types, whether or not a job comes of it.
Request(l, cs, mode) ==
    LET want == Wanted(l, cs, mode)
        mine == {j \in Jobs : Active(j) /\ jobs[j].key.learner = l}
    IN  /\ l \notin gone
        /\ want # {}
        /\ base' = IF mode = "force" THEN WithoutCourse(want) ELSE base
        /\ personal' = IF mode = "force" THEN WithoutOwn(l, want) ELSE personal
        /\ IF Same(l, want, mode) = {} /\ Cardinality(mine) < 2
           THEN \E j \in Jobs :
                    /\ jobs[j].at = "free"
                    /\ Set(j, Job("queued", want, mode, Key(Context(l)), TRUE))
           ELSE UNCHANGED jobs
        /\ UNCHANGED <<sit, cards, lock, version, gone>>

\* The claim and the context, under the session lock.
Begin(j) ==
    LET r == jobs[j]
        l == r.key.learner
    IN  /\ r.at = "queued"
        /\ lock[l] = None
        /\ IF ~r.row \/ version # r.key.version
           THEN Set(j, Over) /\ UNCHANGED lock
           ELSE /\ Set(j, [r EXCEPT !.at = "looking", !.context = Context(l),
                                    !.have = {c \in Cards : Whole(cards[l][c])},
                                    !.todo = r.want, !.attached = TRUE])
                /\ lock' = [lock EXCEPT ![l] = j]
        /\ UNCHANGED <<sit, cards, base, personal, version, gone>>

\* One turn of the loop over the requested types: the session has the card,
\* a cache has it, or it is left for generation.
Look(j, c) ==
    LET r == jobs[j]
        found == IF r.mode = "cached" THEN CacheCard(r.context, c) ELSE None
        next == [r EXCEPT !.todo = @ \ {c}]
    IN  /\ r.at = "looking" /\ c \in r.todo
        /\ \/ /\ r.mode # "force" /\ c \in r.have
              /\ Set(j, IF r.row THEN next ELSE [r EXCEPT !.at = "lost"])
           \/ /\ r.mode = "force" \/ c \notin r.have
              /\ found # None
              /\ Set(j, [r EXCEPT !.todo = @ \ {c}, !.at = "found", !.card = c, !.hand = found])
           \/ /\ r.mode = "force" \/ c \notin r.have
              /\ found = None
              /\ Set(j, [r EXCEPT !.todo = @ \ {c}, !.open = @ \cup {c}])
        /\ UNCHANGED <<sit, cards, base, personal, lock, version, gone>>

Looked(j) ==
    LET r == jobs[j] IN
    /\ r.at = "looking" /\ r.todo = {}
    /\ Set(j, [r EXCEPT !.at = "making", !.phase = "making"])
    /\ lock' = [lock EXCEPT ![r.key.learner] = None]
    /\ UNCHANGED <<sit, cards, base, personal, version, gone>>

\* The generator answers outside of the lock, with a card or a template.
Generate(j, c, template) ==
    LET r == jobs[j] IN
    /\ r.at = "making" /\ c \in r.open
    /\ Set(j, [r EXCEPT !.at = "made", !.open = @ \ {c}, !.card = c,
                        !.hand = Made(r.context, template)])
    /\ UNCHANGED <<sit, cards, base, personal, lock, version, gone>>

\* The session the run holds gets the card; after a reset it is nobody's.
Projected(r, card) ==
    IF r.attached THEN [cards EXCEPT ![r.key.learner][r.card] = card] ELSE cards

\* _persist_ready_card up to the session: the gates keep the card, put a
\* template in its place, or refuse both; a deleted row ends the run.
Publish(j, verdict) ==
    LET r == jobs[j]
        l == r.key.learner
        shown == IF verdict = "replaced" THEN Made(r.context, TRUE) ELSE r.hand
    IN  /\ r.at \in {"found", "made"}
        /\ lock[l] \in {None, j}
        /\ IF ~r.row
           THEN Set(j, [r EXCEPT !.at = "lost"]) /\ UNCHANGED <<cards, lock>>
           ELSE IF verdict = "refused"
           THEN /\ Set(j, [r EXCEPT !.at = r.phase, !.hand = None, !.card = None])
                /\ UNCHANGED <<cards, lock>>
           ELSE /\ Set(j, [r EXCEPT !.at = "storing", !.hand = shown])
                /\ cards' = Projected(r, shown)
                /\ lock' = [lock EXCEPT ![l] = j]
        /\ UNCHANGED <<sit, base, personal, version, gone>>

\* What the course cache gets: a card that is stored in a neutral context.
CourseCard(x, card) == IF Neutral(x) THEN card ELSE None

\* _store_card_in_caches: the course cache first, then the personal one; a
\* template is not stored.  A write that fails leaves the rest undone.
Store(j, upto) ==
    LET r == jobs[j]
        x == r.context
        share == CourseCard(x, r.hand)
        worth == ~Template(r.hand)
    IN  /\ r.at = "storing"
        /\ base' = IF worth /\ share # None /\ upto >= 1
                   THEN StoredForCourse(x, r.card, share) ELSE base
        /\ personal' = IF worth /\ upto = 2 THEN StoredOwn(x, r.card, r.hand) ELSE personal
        /\ Set(j, [r EXCEPT !.at = r.phase, !.hand = None, !.card = None])
        /\ lock' = IF r.phase = "making" THEN [lock EXCEPT ![r.key.learner] = None] ELSE lock
        /\ UNCHANGED <<sit, cards, version, gone>>

\* The run is over, or a write told it that the row is gone.
End(j) ==
    LET r == jobs[j] IN
    /\ \/ r.at = "lost"
       \/ r.at = "making" /\ r.open = {}
    /\ Set(j, Over)
    /\ lock' = [l \in Learners |-> IF lock[l] = j THEN None ELSE lock[l]]
    /\ UNCHANGED <<sit, cards, base, personal, version, gone>>

Run(j) ==
    \/ Begin(j) \/ Looked(j) \/ End(j)
    \/ \E c \in Cards : Look(j, c)
    \/ \E c \in Cards, template \in BOOLEAN : Generate(j, c, template)
    \/ \E verdict \in {"kept", "replaced", "refused"} : Publish(j, verdict)
    \/ \E upto \in 0 .. 2 : Store(j, upto)
----------------------------------------------------------------------------
(* Learners and the process *)

\* Answers, assessments and browsing: the neutral start does not come back.
Study(l, s) ==
    /\ l \notin gone
    /\ s # Fresh /\ s # sit[l]
    /\ sit' = [sit EXCEPT ![l] = s]
    /\ UNCHANGED <<cards, base, personal, jobs, lock, version, gone>>

\* Runs that hold the session object of l write to what nobody reads any more;
\* "row" says whether their rows stay.
Detached(l, row) ==
    [j \in Jobs |-> IF Active(j) /\ jobs[j].key.learner = l
                    THEN [jobs[j] EXCEPT !.attached = FALSE, !.row = @ /\ row]
                    ELSE jobs[j]]
NewSession(l) ==
    /\ sit' = [sit EXCEPT ![l] = Fresh]
    /\ cards' = [cards EXCEPT ![l] = [c \in Cards |-> None]]

\* reset_session drops the session and its snapshots; the caches stay.
Reset(l) ==
    /\ l \notin gone
    /\ NewSession(l)
    /\ jobs' = Detached(l, TRUE)
    /\ UNCHANGED <<base, personal, lock, version, gone>>

\* api_account_delete: delete_all removes the job rows and the personal cache;
\* the sessions of the process are dropped.
DeleteAccount(l) ==
    /\ l \notin gone
    /\ gone' = gone \cup {l}
    /\ personal' = WithoutOwn(l, Cards)
    /\ NewSession(l)
    /\ jobs' = Detached(l, FALSE)
    /\ UNCHANGED <<base, lock, version>>

\* A restart with a newer index: sessions come back from their snapshots, jobs
\* are recovered and start over.
Requeued(r) == Job("queued", r.want, r.mode, r.key, r.row)
Upgrade ==
    /\ version + 1 \in Versions
    /\ version' = version + 1
    /\ jobs' = [j \in Jobs |-> IF Active(j) THEN Requeued(jobs[j]) ELSE jobs[j]]
    /\ lock' = [l \in Learners |-> None]
    /\ UNCHANGED <<sit, cards, base, personal, gone>>

Next ==
    \/ \E l \in Learners, mode \in Modes, cs \in SUBSET Cards : Request(l, cs, mode)
    \/ \E j \in Jobs : Run(j)
    \/ \E l \in Learners, s \in Situations : Study(l, s)
    \/ \E l \in Learners : Reset(l) \/ DeleteAccount(l)
    \/ Upgrade

Spec == Init /\ [][Next]_vars
----------------------------------------------------------------------------
(* Properties *)

\* What the columns of a personal row say of the card it holds.
Suits(card, k) ==
    LET own == Key(card.from) IN
    /\ own.version = k.version /\ ~Template(card)
    /\ \/ own.bucket = k.bucket /\ own.errors = k.errors /\ own.style = k.style
       \/ own.bucket = "developing" /\ own.errors = "none" /\ own.style = "textual"

\* However lookups, re-stores, forced refreshes, restarts and resets are mixed,
\* a personal row holds a model's card made from the current index for the
\* bucket, errors and style it is filed under, or a card fit for the course
\* cache (_store_card_in_caches).
FiledCardsSuitTheirKey == \A k \in DOMAIN personal : Suits(personal[k], k[2])

\* So does every page that a cache answers (_read_cached_card_for_get).
ReadCardsSuitTheirReader ==
    \A l \in Learners, c \in Cards :
        cards[l][c] = None /\ Shown(l, c) # None => Suits(Shown(l, c), Key(Context(l)))

\* The docstring of _is_generic_course_context: the course cache only stores
\* output made from the neutral baseline.  The code tests the context in which
\* the card is stored, not the one it was made in.
CourseCardsAreNeutral ==
    \A k \in DOMAIN base : Neutral(base[k].from)

\* After an account was deleted no personal cache row of it is left.
DeletedLearnersLeaveNothing ==
    \A k \in DOMAIN personal : k[2].learner \notin gone
=============================================================================
