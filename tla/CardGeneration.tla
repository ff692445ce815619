--------------------------- MODULE CardGeneration ---------------------------
(* A generation job from its claim to its last card: the context, the calls  *)
(* to the model providers under one deadline, and the publication of every   *)
(* card through gate, guard and template fallback.                           *)
(*                                                                           *)
(* The runtime and its pool are shared by all learners.  One learner's jobs  *)
(* are followed in detail, one after the other; the requests of the others   *)
(* are seen through the pool workers they hold and the breakers they move.   *)
(* ResourceJobs models the job's lease, ledger and events; a crash or an     *)
(* exception here only sends the job back to its queue, as there.            *)
(* Time runs in slices of the shortest useful attempt.                       *)
EXTENDS CardChecks, Sequences

CONSTANTS
    Providers,        \* the provider chain, best first: a sequence
    Attempt,          \* per-attempt timeout, in slices
    OpenFor,          \* how long a breaker stays open, in slices
    Threshold,        \* failures that open a breaker
    Workers,          \* workers of the shared pool
    Sites,            \* deployments: [version, configured, entailed]
    Requests,         \* sets of card types a job may be asked for
    Drafts,           \* what a provider may write, by card type
    NoAnswer,         \* an error, no JSON, or a bundle without this card
    NoCall, NoCard,
    CallBudget,       \* generation_call_budget of a job
    Shelves,          \* what earlier jobs may have left, by card type
    MaxRounds,        \* bound: jobs in a behaviour
    MaxRetries        \* bound: claims of a job after the first

\* The total budget leaves room for one useful attempt after the first.
Total == Attempt + 1
ASSUME TimeAssumption ==
    /\ Attempt \in Nat \ {0} /\ OpenFor \in Nat \ {0}
    /\ Threshold \in Nat \ {0} /\ Workers \in Nat \ {0}

\* What a model writes of a card type; only a concept map has a blueprint.
ASSUME DraftAssumption ==
    \A t \in CardTypes : \A d \in Drafts[t] :
        /\ d \in Payload /\ d.type = t /\ d.words = "model"
        /\ t # "concept_map" => d.blueprint = NoBlueprint
ASSUME SiteAssumption ==
    /\ Sites \subseteq [version : Versions, configured : SUBSET {"nli", "sandbox", "verifier"},
                       entailed : BOOLEAN]
    /\ Requests \subseteq SUBSET CardTypes
    /\ NoCard \notin Payload

(* What the learner is promised of a card. *)

Truthful(card) == (card.source = "llm") <=> (card.words = "model")

BlueprintRefs(card) == IF card.blueprint = NoBlueprint THEN {} ELSE card.blueprint.cites
OwnRefs(card) == (card.cites \cup card.maps \cup BlueprintRefs(card)) \cap ForeignHits = {}
Founded(card) == card.cites # {} /\ card.maps # {} /\ OwnRefs(card)

Approved(t, card, configured) ==
    /\ t = "code_snippet" /\ "sandbox" \in configured =>
          "code_verification_failed" \notin card.flaws
    /\ t = "diagnostic_quiz" /\ "verifier" \in configured =>
          "diagnostic_answer_inconsistent" \notin card.flaws

Promised(t, card, s) ==
    /\ card \in Payload /\ Truthful(card)
    /\ s.version = "v4" => Founded(card) /\ Approved(t, card, s.configured)

\* Earlier jobs of the same deployment kept the promise.
ASSUME ShelfAssumption ==
    \A s \in Sites, sh \in Shelves :
        /\ DOMAIN sh = CardTypes
        /\ \A t \in CardTypes : sh[t] # NoCard => Promised(t, sh[t], s)

VARIABLES
    site,      \* the deployment, fixed
    breaker,   \* by fallback: failures in a row, slices it stays open
    others,    \* pool workers held by abandoned calls and other requests
    round, retries,
    request,   \* the job's card types and whether it is forced
    phase,     \* idle, queued, and the pipeline states of the job
    ctx,       \* the ResourceContext of the claim
    todo,      \* requested types still to be generated
    asking,    \* a model phase is under way
    chain,     \* candidate providers not yet tried
    call,      \* the outstanding call
    left,      \* slices before the phase's deadline
    made,      \* the payloads of the last model phase
    used,      \* generation_calls_used
    ledger,    \* the job's card states
    shelf      \* the learner's cards, with their gate status
vars == <<site, breaker, others, round, retries, request, phase, ctx, todo, asking,
          chain, call, left, made, used, ledger, shelf>>

timeVars == <<breaker, others, chain, call, left>>
jobVars == <<round, retries, request, phase, ctx, todo, asking, made, used, ledger, shelf>>

\* The breaker of the first provider exists too but is never asked.
Fallbacks == {Providers[i] : i \in 2..Len(Providers)}
Idle == [types |-> {}, force |-> FALSE]
NoContext == Context({}, "v3", NoBlueprint)

Init ==
    /\ site \in Sites
    /\ breaker = [p \in Fallbacks |-> [failures |-> 0, open |-> 0]]
    /\ others = 0 /\ round = 0 /\ retries = 0 /\ request = Idle /\ phase = "idle"
    /\ ctx = NoContext /\ todo = {} /\ asking = FALSE /\ chain = <<>> /\ call = NoCall
    /\ left = 0 /\ made = <<>> /\ used = 0
    /\ ledger = [t \in CardTypes |-> "none"]
    /\ shelf \in Shelves

-----------------------------------------------------------------------------
(* Circuit breakers *)

Allows(p) == breaker[p].open = 0
Succeeded(b) == [failures |-> 0, open |-> 0]
Failed(b) == IF b.failures + 1 >= Threshold THEN [failures |-> 0, open |-> OpenFor]
             ELSE [b EXCEPT !.failures = @ + 1]

Judge(p, ok) ==
    [q \in Fallbacks |-> IF q # p THEN breaker[q]
                         ELSE IF ok THEN Succeeded(breaker[q]) ELSE Failed(breaker[q])]

\* _candidate_llms: the current client comes first whatever its breaker says.
Candidates == <<Head(Providers)>> \o SelectSeq(Tail(Providers), Allows)

-----------------------------------------------------------------------------
(* A job is requested, claimed and its context built *)

Request(types, force) ==
    /\ phase = "idle" /\ round < MaxRounds
    /\ round' = round + 1 /\ retries' = 0
    /\ request' = [types |-> types, force |-> force]
    /\ phase' = "queued"
    /\ ledger' = [t \in CardTypes |-> IF t \in types THEN "pending" ELSE "none"]
    /\ UNCHANGED <<site, timeVars, ctx, todo, asking, made, used, shelf>>

\* Cards of the session a job may take over: not templates, unless forced.
Reusable(t) == ~request.force /\ shelf[t] # NoCard /\ shelf[t].source # "template"
StoredBlueprint ==
    IF shelf["concept_map"] = NoCard THEN NoBlueprint ELSE shelf["concept_map"].blueprint

AfterConcept(open) == IF open \ {"concept_map"} = {} THEN "done" ELSE "supporting"
FirstPhase(open) == IF "concept_map" \in open THEN "blueprint" ELSE AfterConcept(open)

\* A claim starts over: the budget counters begin at zero again.
Claim(hits) ==
    LET open == {t \in request.types : ~Reusable(t)} IN
    /\ phase = "queued"
    /\ ctx' = Context(hits, site.version, StoredBlueprint)
    /\ todo' = open
    /\ ledger' = [t \in CardTypes |-> IF t \in request.types \ open THEN "ready" ELSE ledger[t]]
    /\ phase' = FirstPhase(open)
    /\ used' = 0
    /\ UNCHANGED <<site, timeVars, round, retries, request, asking, made, shelf>>

\* An exception of the job, or the death of its worker: the job is retried or
\* failed for good, and what is open with it.
SendBack ==
    /\ asking' = FALSE /\ made' = <<>>
    /\ IF retries < MaxRetries
       THEN /\ retries' = retries + 1 /\ phase' = "queued" /\ ledger' = ledger
       ELSE /\ retries' = retries /\ phase' = "done"
            /\ ledger' = [t \in CardTypes |-> IF ledger[t] = "pending" THEN "failed" ELSE ledger[t]]
    /\ todo' = {}

Crash ==
    /\ phase \notin {"idle", "queued", "done"} /\ retries < MaxRetries
    /\ SendBack
    /\ others' = IF call # NoCall /\ call.state = "running" THEN others + 1 ELSE others
    /\ chain' = <<>> /\ call' = NoCall /\ left' = 0
    /\ UNCHANGED <<site, breaker, round, request, ctx, used, shelf>>

-----------------------------------------------------------------------------
(* Asking the providers *)

Wanted == IF phase = "blueprint" THEN {"concept_map"} ELSE todo \ {"concept_map"}

\* Calls a phase is charged: one per sub-package of the bundle.
Charge ==
    Cardinality({g \in {{"concept_map"}, {"code_snippet", "video_summary"},
                        {"interactive_exercise"}, {"diagnostic_quiz"}} : g \cap Wanted # {}})
NextPhase == IF phase = "blueprint" THEN "concept" ELSE "validating"

\* external_generation_allowed: inTime stands for the job's deadline and its
\* token and cost budgets.
Ask(inTime) ==
    /\ phase \in {"blueprint", "supporting"} /\ ~asking
    /\ inTime /\ used + Charge <= CallBudget
    /\ asking' = TRUE /\ chain' = Candidates /\ left' = Total
    /\ UNCHANGED <<site, breaker, others, call, round, retries, request, phase, ctx, todo, made,
                   used, ledger, shelf>>

\* The phase is over with these payloads.
Deliver(payloads) ==
    /\ made' = payloads /\ asking' = FALSE /\ phase' = NextPhase
    /\ UNCHANGED <<retries, todo, ledger>>

\* template(): the template, bound like a payload of a provider.
TemplateFor(t) == Bind(TemplatePayload(t, ctx, site.entailed), ctx, "template")
\* template() for every wanted card; one that raises ends the job's attempt.
DeliverTemplates ==
    IF \E t \in Wanted : TemplateRaises(t, ctx) THEN SendBack
    ELSE Deliver([t \in Wanted |-> TemplateFor(t)])

\* No budget or no time is left: budget_or_deadline_exhausted.
SkipModels(inTime) ==
    /\ phase \in {"blueprint", "supporting"} /\ ~asking
    /\ ~inTime \/ used + Charge > CallBudget
    /\ DeliverTemplates
    /\ UNCHANGED <<site, timeVars, round, request, ctx, used, shelf>>

\* The next provider.  A single card waits for one attempt, a bundle for all
\* the time that is left.
AttemptTime == IF phase = "blueprint" THEN Attempt ELSE Total
CallTime == IF AttemptTime < left THEN AttemptTime ELSE left
Submit ==
    /\ asking /\ call = NoCall /\ chain # <<>> /\ left >= 1
    /\ call' = [provider |-> Head(chain), state |-> "queued",
                wait |-> CallTime, life |-> CallTime]
    /\ chain' = Tail(chain)
    /\ UNCHANGED <<site, breaker, others, left, jobVars>>

Begin ==
    /\ call # NoCall /\ call.state = "queued" /\ others < Workers
    /\ call' = [call EXCEPT !.state = "running"]
    /\ UNCHANGED <<site, breaker, others, chain, left, jobVars>>

\* What becomes of one card of an answer.
FromAnswer(t, answer) ==
    IF answer = NoAnswer THEN TemplateFor(t) ELSE Result(answer, ctx, "llm", site.entailed)
FromAnswerRaises(t, answer) ==
    IF answer = NoAnswer THEN TemplateRaises(t, ctx) ELSE ResultRaises(answer, ctx, "llm")

\* The call returns.  A payload of the provider in it is its success; only
\* templates count as neither success nor failure, so a provider's own errors,
\* which the generator turns into templates, never reach its breaker.
Returns(answers) ==
    LET results == [t \in Wanted |-> FromAnswer(t, answers[t])]
        raises == \E t \in Wanted : FromAnswerRaises(t, answers[t])
        written == \E t \in Wanted : results[t].source = "llm" IN
    /\ call # NoCall /\ call.state = "running"
    /\ call' = NoCall
    /\ breaker' = IF raises THEN Judge(call.provider, FALSE)
                  ELSE IF written THEN Judge(call.provider, TRUE) ELSE breaker
    /\ IF ~raises /\ written
       THEN /\ Deliver(results) /\ used' = used + Charge
            /\ chain' = <<>> /\ left' = 0
            /\ UNCHANGED <<site, others, round, request, ctx, shelf>>
       ELSE UNCHANGED <<site, others, chain, left, jobVars>>

AnswersTo(types) ==
    {a \in [types -> UNION {Drafts[t] : t \in types} \cup {NoAnswer}] :
        \A t \in types : a[t] \in Drafts[t] \cup {NoAnswer}}
Answer ==
    /\ call # NoCall /\ call.life > 0
    /\ \E answers \in AnswersTo(Wanted) : Returns(answers)

\* The client's own timeout, a moment before that of the waiting request.
ClientTimeout ==
    /\ call # NoCall /\ call.life = 0
    /\ Returns([t \in Wanted |-> NoAnswer])

\* future.result times out: the provider is blamed although the call may still
\* wait for a worker.  A queued call is cancelled, a running one goes on.
Timeout ==
    /\ call # NoCall /\ call.wait = 0 /\ call.life > 0
    /\ breaker' = Judge(call.provider, FALSE)
    /\ others' = IF call.state = "running" THEN others + 1 ELSE others
    /\ call' = NoCall
    /\ UNCHANGED <<site, chain, left, jobVars>>

\* Mutant: the end of the time is not looked at.
NoProviderLeft == chain = <<>>
\* No provider or no useful time is left.
NothingToTry == chain = <<>> \/ left < 1
GiveUp ==
    /\ asking /\ call = NoCall /\ NothingToTry
    /\ DeliverTemplates
    /\ used' = IF \E t \in Wanted : TemplateRaises(t, ctx) THEN used ELSE used + Charge
    /\ chain' = <<>> /\ left' = 0
    /\ UNCHANGED <<site, breaker, others, call, round, request, ctx, shelf>>

-----------------------------------------------------------------------------
(* Publishing the cards: _persist_ready_card *)

NotPublished == [verdict |-> "failed"]
\* publication_attribution_missing: the last look at a v4 card.
Published(p) ==
    IF ctx.version = "v4" /\ (p.cites = {} \/ p.maps = {}) THEN NotPublished
    ELSE [verdict |-> "ready", card |-> p]

\* The guard on the rendered card, with a template in reserve that is not
\* brought before the gate again.
Guarded(p) ==
    IF ~GuardRejects(p) THEN Published(p)
    ELSE IF TemplateRaises(p.type, ctx) THEN NotPublished
    ELSE Published(TemplateFor(p.type))

\* The gate of a v4 card, with a template in reserve that must pass it too.
GatedWith(p, up, upLater) ==
    IF Gate(p, ctx, site.configured, up) # "failed" THEN Guarded(p)
    ELSE IF \/ TemplateRaises(p.type, ctx)
            \/ Gate(TemplateFor(p.type), ctx, site.configured, upLater) = "failed"
    THEN NotPublished
    ELSE Guarded(TemplateFor(p.type))

Outcome(p, up, upLater) == IF ctx.version = "v4" THEN GatedWith(p, up, upLater) ELSE Guarded(p)

\* One card.  After the concept map the context takes over the blueprint of
\* the payload that was generated, whichever card was published in the end.
Publish(t, up, upLater) ==
    LET outcome == Outcome(made[t], up, upLater)
        isReady == outcome.verdict = "ready" IN
    /\ phase \in {"concept", "validating"} /\ t \in DOMAIN made
    /\ ledger' = [ledger EXCEPT ![t] = outcome.verdict]
    /\ shelf' = IF isReady THEN [shelf EXCEPT ![t] = outcome.card] ELSE shelf
    /\ made' = [u \in DOMAIN made \ {t} |-> made[u]]
    /\ todo' = todo \ {t}
    /\ ctx' = IF t = "concept_map" /\ isReady /\ made[t].blueprint # NoBlueprint
              THEN [ctx EXCEPT !.blueprint = made[t].blueprint] ELSE ctx
    /\ phase' = IF t = "concept_map" THEN AfterConcept(todo)
                ELSE IF DOMAIN made = {t} THEN "done" ELSE phase
    /\ UNCHANGED <<site, timeVars, round, retries, request, asking, used>>

Finish ==
    /\ phase = "done"
    /\ phase' = "idle" /\ request' = Idle /\ ctx' = NoContext /\ todo' = {} /\ made' = <<>>
    /\ ledger' = [t \in CardTypes |-> "none"] /\ used' = 0
    /\ UNCHANGED <<site, timeVars, round, retries, asking, shelf>>

-----------------------------------------------------------------------------
(* Time, and the other requests of the process *)

\* Breakers are read when a model phase starts and the pool while it lasts: what
\* the other requests do to them at other times is let happen just then.
BeforeAsking == phase \in {"blueprint", "supporting"} /\ ~asking

Less(n) == IF n > 0 THEN n - 1 ELSE 0

\* Between two calls no time passes; a call that has run out returns first.
Tick ==
    /\ IF asking THEN call # NoCall ELSE BeforeAsking
    /\ call # NoCall => call.wait > 0 /\ (call.state = "running" => call.life > 0)
    /\ call # NoCall \/ \E p \in Fallbacks : breaker[p].open > 0
    /\ breaker' = [p \in Fallbacks |-> [breaker[p] EXCEPT !.open = Less(@)]]
    /\ IF call = NoCall THEN UNCHANGED <<call, left>>
       ELSE /\ left' = left - 1
            /\ call' = [call EXCEPT !.wait = @ - 1,
                                    !.life = IF call.state = "running" THEN @ - 1 ELSE @]
    /\ UNCHANGED <<site, others, chain, jobVars>>

Busy == others + (IF call # NoCall /\ call.state = "running" THEN 1 ELSE 0)
OthersBegin ==
    /\ asking /\ Busy < Workers /\ others' = others + 1
    /\ UNCHANGED <<site, breaker, chain, call, left, jobVars>>
OthersEnd ==
    /\ asking /\ others > 0 /\ others' = others - 1
    /\ UNCHANGED <<site, breaker, chain, call, left, jobVars>>
OthersJudge(p, ok) ==
    /\ BeforeAsking
    /\ breaker' = Judge(p, ok)
    /\ UNCHANGED <<site, others, chain, call, left, jobVars>>

-----------------------------------------------------------------------------
\* Sidecars that answer one card's evaluation after at most one repetition.
Answering == SUBSET site.configured
Publishing ==
    \E t \in DOMAIN made : \E up \in Answering, upLater \in Answering : Publish(t, up, upLater)

\* What the retriever may return, its failure included.
Retrieved == SUBSET (OwnHits \cup ForeignHits)
Claiming == \E hits \in Retrieved : Claim(hits)

\* The steps the worker thread takes by itself.
WorkerStep ==
    \/ Claiming
    \/ \E inTime \in BOOLEAN : Ask(inTime) \/ SkipModels(inTime)
    \/ Submit \/ Begin \/ ClientTimeout \/ Timeout \/ GiveUp
    \/ Publishing \/ Finish

Next ==
    \/ \E types \in Requests, force \in BOOLEAN : Request(types, force)
    \/ WorkerStep
    \/ Answer \/ Crash \/ Tick
    \/ OthersBegin \/ OthersEnd
    \/ \E p \in Fallbacks, ok \in BOOLEAN : OthersJudge(p, ok)

Spec == Init /\ [][Next]_vars

\* The worker thread goes on by itself and time passes; no provider has to
\* answer and no other request has to leave the pool.
FairSpec == Spec /\ WF_vars(WorkerStep) /\ WF_vars(Tick)

-----------------------------------------------------------------------------
(* Properties *)

\* A card is shown as written by the model exactly if the model wrote it: none
\* of the four template fallbacks passes for the provider's work, and no draft
\* for a template (generation metadata of every published card).
TruthfulProvenance == \A t \in CardTypes : shelf[t] # NoCard => Truthful(shelf[t])

\* A v4 card rests on evidence, and on no chunk of another course or node: what
\* the retriever mixes in is neither cited, nor mapped, nor in a blueprint.
RestsOnOwnEvidence ==
    site.version = "v4" => \A t \in CardTypes : shelf[t] # NoCard => Founded(shelf[t])

\* Where the site has a sandbox and a blind verifier, model code and model
\* quizzes reach the learner only after these approved them: an outage makes
\* the gate stricter, never more lenient.
UncheckedWorkIsHeldBack ==
    site.version = "v4" => \A t \in CardTypes :
        shelf[t] # NoCard => Approved(t, shelf[t], site.configured)

\* No chain of providers, timeouts and fallbacks outlasts the phase's deadline.
PhaseEndsInTime == left >= 0

\* When a job is done each of its cards is settled, and what the ledger calls
\* ready is on the learner's shelf, whatever crashes and exceptions came before.
SettledWhenDone ==
    phase = "done" => \A t \in request.types :
        \/ ledger[t] = "failed"
        \/ ledger[t] = "ready" /\ shelf[t] # NoCard

\* Every job comes to its end although no provider ever has to answer.
EveryJobComesToItsEnd == (phase = "queued") ~> (phase = "done")

-----------------------------------------------------------------------------
(* What the documents say and the code does not keep *)

\* docs: the five cards share one teaching blueprint.
CardsShareTheBlueprint ==
    phase \in {"supporting", "validating"} /\ "concept_map" \in request.types
      /\ ledger["concept_map"] = "ready"
        => ctx.blueprint = shelf["concept_map"].blueprint

\* generator.py: template payloads are authored locally and kept valid.
TemplatesAreValid ==
    phase \in {"blueprint", "supporting"} => \A t \in Wanted : ~TemplateRaises(t, ctx)

\* orchestration_runtime.py: the budget leaves a useful slice for a fallback.
FallbackHasTime ==
    asking /\ call = NoCall /\ Len(chain) = Len(Candidates) - 1 /\ chain # <<>> => left >= 1
=============================================================================
