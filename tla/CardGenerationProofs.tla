------------------------ MODULE CardGenerationProofs ------------------------
(* What the cards of CardGeneration promise the learner, proved for every    *)
(* chain of providers, every pool and breaker, every retrieval, every draft  *)
(* that a model may write and every earlier shelf that kept the promise.     *)
(*                                                                           *)
(* The argument follows a card.  The context of a claim holds evidence of    *)
(* the course and node alone (ContextIsOwn); binding, validator and template *)
(* turn any answer into a payload that is truthful and names no other        *)
(* evidence (MadeIsSound); gate, guard and last look let only a Promised     *)
(* card through (OutcomeIsPromised), and a promised shelf is what the next   *)
(* job takes its blueprint from.                                             *)
EXTENDS CardGeneration, TLAPS

ModelPhases == {"blueprint", "supporting"}
Working == ModelPhases \cup {"concept", "validating"}

\* A payload as a model phase hands it over, before the gate.
Sound(t, p, version) ==
    /\ p \in Payload /\ p.type = t /\ Truthful(p)
    /\ p.source = "template" \/ p.marked => p.flaws = {}
    /\ version = "v4" => OwnRefs(p)

OwnContext(c) ==
    /\ c.refs # {} /\ c.refs \cap ForeignHits = {}
    /\ c.blueprint # NoBlueprint => c.blueprint.cites \cap ForeignHits = {}

Contexts == [version : Versions, refs : SUBSET Refs, evidence : {"grounded", "degraded"},
             blueprint : Blueprint \cup {NoBlueprint}]

(* The invariant, part by part. *)

JobShape ==
    /\ site \in Sites /\ request.types \subseteq CardTypes /\ todo \subseteq CardTypes
    /\ phase \in {"idle", "queued", "done"} \cup Working
    /\ ctx \in Contexts
    /\ ledger \in [CardTypes -> {"none", "pending", "ready", "failed"}]

\* Only a model phase waits for a provider.
CallsBelongToPhases ==
    /\ asking => phase \in ModelPhases
    /\ call # NoCall => asking

ContextIsOwn ==
    phase \in Working =>
        /\ ctx.version = site.version
        /\ site.version = "v4" => OwnContext(ctx)

MadeIsSound == \A t \in DOMAIN made : t \in CardTypes /\ Sound(t, made[t], site.version)

ShelfIsPromised ==
    /\ DOMAIN shelf = CardTypes
    /\ \A t \in CardTypes : shelf[t] # NoCard => Promised(t, shelf[t], site)

\* What is still pending is still to be done, by the phase that is on.
OpenCardsAreComing ==
    /\ phase \in Working => todo \subseteq request.types
    /\ phase \in {"blueprint", "concept"} => "concept_map" \in todo
    /\ \A t \in CardTypes : phase \in Working /\ ledger[t] = "pending" => t \in todo
    /\ phase \in {"supporting", "validating"} => "concept_map" \notin todo
    /\ phase = "concept" => DOMAIN made = {"concept_map"}
    /\ phase = "validating" => DOMAIN made = todo

\* The ledger is about the job's cards, calls ready what is on the shelf, and
\* has nothing pending when the job is done.
LedgerIsHonest ==
    /\ \A t \in CardTypes : ledger[t] = "ready" => shelf[t] # NoCard
    /\ \A t \in CardTypes : ledger[t] = "none" <=> t \notin request.types
    /\ phase = "done" => \A t \in CardTypes : ledger[t] # "pending"

\* A call waits no longer than its phase may last.
CallsFitTheBudget ==
    /\ left \in Nat
    /\ call # NoCall => "wait" \in DOMAIN call /\ call.wait \in Nat /\ call.wait <= left

CardInv ==
    /\ JobShape /\ CallsBelongToPhases /\ ContextIsOwn /\ MadeIsSound /\ ShelfIsPromised
    /\ OpenCardsAreComing /\ LedgerIsHonest /\ CallsFitTheBudget

-----------------------------------------------------------------------------
(* Contexts, bindings and templates *)

\* A context names evidence of its course and node, the node record included.
LEMMA KnownIsOwn ==
    ASSUME NEW c, OwnContext(c)
    PROVE  Known(c) \cap ForeignHits = {}
BY EvidenceAssumption DEF OwnContext, Known

\* build_resource_context returns a context of the claim's version, in v4 with
\* evidence of its own only.
LEMMA ContextsAreOwn ==
    ASSUME NEW hits \in SUBSET (OwnHits \cup ForeignHits), NEW version \in Versions,
           NEW b \in Blueprint \cup {NoBlueprint},
           version = "v4" /\ b # NoBlueprint => b.cites \cap ForeignHits = {}
    PROVE  /\ Context(hits, version, b) \in Contexts
           /\ Context(hits, version, b).version = version
           /\ version = "v4" => OwnContext(Context(hits, version, b))
<1> DEFINE chosen == Selected(hits, version)
<1>1. chosen \subseteq hits /\ (version = "v4" => chosen \cap ForeignHits = {})
  BY EvidenceAssumption DEF Selected
<1>2. chosen \subseteq Refs
  BY <1>1 DEF Refs
<1>3. NodeRef \in Refs /\ NodeRef \notin ForeignHits
  BY EvidenceAssumption DEF Refs
<1> DEFINE refs == IF chosen = {} THEN {NodeRef} ELSE chosen
<1>4. refs \in SUBSET Refs /\ refs # {} /\ (version = "v4" => refs \cap ForeignHits = {})
  BY <1>1, <1>2, <1>3
<1> DEFINE grade == IF \/ chosen = {}
                       \/ version = "v4" /\ Cardinality(chosen) < MinEvidence
                    THEN "degraded" ELSE "grounded"
<1>5. grade \in {"grounded", "degraded"}
  OBVIOUS
<1>6. Context(hits, version, b) =
        [version |-> version, refs |-> refs, evidence |-> grade, blueprint |-> b]
  BY DEF Context
<1> HIDE DEF refs, grade, chosen
<1> QED
  BY <1>4, <1>5, <1>6 DEF Contexts, OwnContext

\* Binding keeps what the provider wrote and signs it as the service says.
LEMMA BindKeeps ==
    ASSUME NEW p \in Payload, NEW c \in Contexts, NEW source \in {"llm", "template"}
    PROVE  LET b == Bind(p, c, source) IN
           /\ b \in Payload /\ b.type = p.type /\ b.source = source /\ b.words = p.words
           /\ b.maps = p.maps /\ b.blueprint = p.blueprint
           /\ b.marked = (source = "template") /\ b.flaws \subseteq p.flaws
           /\ c.version = "v4" => b.cites \subseteq c.refs
<1>1. BoundCites(p, c) \in SUBSET Refs
  BY DEF BoundCites, Contexts, Payload
<1>2. c.version = "v4" => BoundCites(p, c) \subseteq c.refs
  BY DEF BoundCites
<1>3. p.flaws \ {"code_example_leaks_practice"} \in SUBSET STRING
  BY DEF Payload
<1> QED
  BY <1>1, <1>2, <1>3 DEF Bind, Payload

\* A template tells the truth about itself, has no defect, and names no other
\* evidence than its context.
LEMMA TemplatesAreSound ==
    ASSUME NEW t \in CardTypes, NEW c \in Contexts, NEW entailed \in BOOLEAN,
           NEW version, version = "v4" => OwnContext(c)
    PROVE  LET p == TemplatePayload(t, c, entailed) IN
           Sound(t, p, version) /\ p.source = "template" /\ p.flaws = {}
<1> DEFINE b == IF t = "concept_map" THEN TemplateBlueprint(c, entailed) ELSE NoBlueprint
           p == TemplatePayload(t, c, entailed)
<1>0. ASSUME NEW m
      PROVE  [[type |-> t, source |-> "template", words |-> "local", marked |-> m,
               cites |-> c.refs, maps |-> c.refs, blueprint |-> NoBlueprint,
               sound |-> entailed, flaws |-> {}] EXCEPT !.blueprint = b] =
             [type |-> t, source |-> "template", words |-> "local", marked |-> m,
              cites |-> c.refs, maps |-> c.refs, blueprint |-> b,
              sound |-> entailed, flaws |-> {}]
  OBVIOUS
<1>1. p = [type |-> t, source |-> "template", words |-> "local", marked |-> FALSE,
           cites |-> c.refs, maps |-> c.refs, blueprint |-> b,
           sound |-> entailed, flaws |-> {}]
  BY <1>0, Zenon DEF TemplatePayload, TemplateCommon
<1>2. c.refs \in SUBSET Refs /\ c.blueprint \in Blueprint \cup {NoBlueprint}
  BY DEF Contexts
<1>3. TemplateBlueprint(c, entailed) \in Blueprint
  BY <1>2 DEF TemplateBlueprint, Blueprint
<1>4. b \in Blueprint \cup {NoBlueprint}
  BY <1>3
<1>5. version = "v4" /\ b # NoBlueprint => b.cites \cap ForeignHits = {}
  BY <1>2 DEF TemplateBlueprint, OwnContext
<1> HIDE DEF b, p
<1>6. p \in Payload /\ p.type = t /\ Truthful(p) /\ p.source = "template" /\ p.flaws = {}
  BY <1>1, <1>2, <1>4 DEF Payload, Truthful
<1>7. version = "v4" => OwnRefs(p)
  BY <1>1, <1>5 DEF OwnRefs, BlueprintRefs, OwnContext
<1> QED
  BY <1>6, <1>7 DEF Sound, p

\* What the validator lets pass in v4 maps its fields to known evidence, and a
\* concept map's claims too.
LEMMA ValidIsGrounded ==
    ASSUME NEW p \in Payload, NEW c \in Contexts, c.version = "v4", Issues(p, c) = {}
    PROVE  /\ p.maps \subseteq Known(c)
           /\ p.type = "concept_map" =>
                p.blueprint # NoBlueprint /\ p.blueprint.cites \subseteq Known(c)
<1>1. "schema_invalid" \notin p.flaws
  BY DEF Issues
<1>2. EvidenceIssues(p, c) = {} /\ BlueprintIssues(p, c) = {}
  BY <1>1 DEF Issues
<1>3. p.maps \subseteq Known(c)
  BY <1>2 DEF EvidenceIssues
<1> QED
  BY <1>2, <1>3 DEF BlueprintIssues

\* _result_from_payload: whatever the model wrote, the result is sound.
LEMMA ResultsAreSound ==
    ASSUME NEW t \in CardTypes, NEW d \in Drafts[t], NEW c \in Contexts,
           NEW entailed \in BOOLEAN,
           c.version = "v4" => OwnContext(c)
    PROVE  Sound(t, Result(d, c, "llm", entailed), c.version)
<1> DEFINE b == Bind(d, c, "llm")
<1>1. /\ d \in Payload /\ d.type = t /\ d.words = "model"
      /\ t # "concept_map" => d.blueprint = NoBlueprint
  BY DraftAssumption
<1>2. /\ b \in Payload /\ b.type = t /\ b.source = "llm" /\ b.words = "model" /\ ~b.marked
      /\ b.blueprint = d.blueprint
      /\ c.version = "v4" => b.cites \subseteq c.refs
  BY <1>1, BindKeeps
<1> HIDE DEF b
<1>3. CASE Issues(b, c) = {}
  <2>1. Result(d, c, "llm", entailed) = b
    BY <1>3 DEF Result, b
  <2>2. Truthful(b) /\ b.source # "template"
    BY <1>2 DEF Truthful
  <2>3. ASSUME c.version = "v4"
        PROVE  OwnRefs(b)
    <3>1. Known(c) \cap ForeignHits = {} /\ c.refs \cap ForeignHits = {}
      BY <2>3, KnownIsOwn DEF OwnContext
    <3>2. b.maps \subseteq Known(c)
      BY <1>2, <1>3, <2>3, ValidIsGrounded
    <3>3. BlueprintRefs(b) \subseteq Known(c)
      BY <1>1, <1>2, <1>3, <2>3, ValidIsGrounded DEF BlueprintRefs
    <3> QED
      BY <1>2, <2>3, <3>1, <3>2, <3>3 DEF OwnRefs
  <2> QED
    BY <1>2, <2>1, <2>2, <2>3 DEF Sound
<1>4. CASE Issues(b, c) # {}
  <2>1. Result(d, c, "llm", entailed) = TemplatePayload(t, c, entailed)
    BY <1>1, <1>4 DEF Result, b
  <2> QED
    BY <2>1, TemplatesAreSound
<1> QED
  BY <1>3, <1>4

-----------------------------------------------------------------------------
(* Gate, guard and last look *)

\* The gate of a v4 card: with a sandbox and a verifier on site, neither code
\* that failed nor a quiz they disagree with passes, and no model work passes
\* while they are away.
LEMMA GateApproves ==
    ASSUME NEW t \in CardTypes, NEW p, Sound(t, p, "v4"), NEW c,
           NEW configured, NEW up \in SUBSET configured,
           Gate(p, c, configured, up) # "failed"
    PROVE  Approved(t, p, configured)
<1>1. GateIssues(p, c, configured, up) \cap HardIssues(p) = {}
  BY DEF Gate
<1>2. p.type = t /\ (p.marked => p.flaws = {}) /\ p.marked \in BOOLEAN
  BY DEF Sound, Payload
<1>3. ASSUME t = "code_snippet", "sandbox" \in configured
      PROVE  "code_verification_failed" \notin p.flaws
  <2>1. "code_verification_failed" \in HardIssues(p) /\ "sandbox_unavailable" \in HardIssues(p)
    BY DEF HardIssues
  <2>2. /\ "code_verification_failed" \notin SandboxIssues(p, configured, up)
        /\ "sandbox_unavailable" \notin SandboxIssues(p, configured, up)
    BY <1>1, <2>1 DEF GateIssues
  <2> QED
    BY <1>2, <1>3, <2>2 DEF SandboxIssues
<1>4. ASSUME t = "diagnostic_quiz", "verifier" \in configured
      PROVE  "diagnostic_answer_inconsistent" \notin p.flaws
  <2>1. CASE p.marked
    BY <1>2, <2>1
  <2>2. CASE ~p.marked
    <3>1. /\ "diagnostic_answer_inconsistent" \in HardIssues(p)
          /\ "diagnostic_blind_verifier_unavailable" \in HardIssues(p)
      BY <2>2 DEF HardIssues
    <3>2. /\ "diagnostic_answer_inconsistent" \notin VerifierIssues(p, configured, up)
          /\ "diagnostic_blind_verifier_unavailable" \notin VerifierIssues(p, configured, up)
      BY <1>1, <3>1 DEF GateIssues
    <3> QED
      BY <1>2, <1>4, <3>2 DEF VerifierIssues
  <2> QED
    BY <2>1, <2>2
<1> QED
  BY <1>3, <1>4 DEF Approved

\* A card without defects has nothing to be disapproved of.
LEMMA FlawlessIsApproved ==
    ASSUME NEW t, NEW p, p.flaws = {}, NEW configured
    PROVE  Approved(t, p, configured)
BY DEF Approved

\* What the lemmas below say of the card and its context, in the state at hand.
InContext ==
    /\ site \in Sites /\ ctx \in Contexts /\ ctx.version = site.version
    /\ site.version = "v4" => OwnContext(ctx)

Kept(t, outcome) ==
    /\ outcome.verdict \in {"ready", "failed"}
    /\ outcome.verdict = "ready" => Promised(t, outcome.card, site)

\* The last look lets only a founded card go out as v4.
LEMMA PublishedIsPromised ==
    ASSUME InContext, NEW t \in CardTypes, NEW p, Sound(t, p, site.version),
           site.version = "v4" => Approved(t, p, site.configured)
    PROVE  Kept(t, Published(p))
<1>1. CASE ctx.version = "v4" /\ (p.cites = {} \/ p.maps = {})
  <2>1. Published(p) = NotPublished
    BY <1>1 DEF Published
  <2> QED
    BY <2>1 DEF Kept, NotPublished
<1>2. CASE ~(ctx.version = "v4" /\ (p.cites = {} \/ p.maps = {}))
  <2>1. Published(p) = [verdict |-> "ready", card |-> p]
    BY <1>2 DEF Published
  <2>2. Promised(t, p, site)
    BY <1>2 DEF Promised, Sound, Founded, InContext
  <2> QED
    BY <2>1, <2>2 DEF Kept
<1> QED
  BY <1>1, <1>2

\* template() in the context at hand.
LEMMA TemplateForIsSound ==
    ASSUME InContext, NEW t \in CardTypes
    PROVE  /\ Sound(t, TemplateFor(t), site.version)
           /\ TemplateFor(t).flaws = {} /\ TemplateFor(t).source = "template"
<1> DEFINE p == TemplatePayload(t, ctx, site.entailed)
<1>1. site.entailed \in BOOLEAN
  BY SiteAssumption DEF InContext
<1>2. Sound(t, p, site.version) /\ p.source = "template" /\ p.flaws = {}
  BY <1>1, TemplatesAreSound DEF InContext
<1>3. TemplateFor(t) = Bind(p, ctx, "template")
  BY DEF TemplateFor
<1> HIDE DEF p
<1> DEFINE b == Bind(p, ctx, "template")
<1> HIDE DEF b
<1>4. p \in Payload /\ p.type = t /\ ctx \in Contexts
  BY <1>2 DEF InContext, Sound
<1>5. /\ b \in Payload /\ b.type = p.type /\ b.source = "template" /\ b.words = p.words
      /\ b.maps = p.maps /\ b.blueprint = p.blueprint /\ b.flaws \subseteq p.flaws
      /\ ctx.version = "v4" => b.cites \subseteq ctx.refs
  BY <1>4, BindKeeps DEF b
<1>6. /\ b \in Payload /\ b.type = t /\ b.source = "template" /\ b.words = p.words
      /\ b.maps = p.maps /\ b.blueprint = p.blueprint /\ b.flaws = {}
      /\ ctx.version = "v4" => b.cites \subseteq ctx.refs
  BY <1>2, <1>4, <1>5
<1>7. Truthful(b)
  BY <1>2, <1>6 DEF Sound, Truthful
<1>8. ASSUME site.version = "v4"
      PROVE  OwnRefs(b)
  <2>1. OwnRefs(p) /\ ctx.refs \cap ForeignHits = {} /\ b.cites \subseteq ctx.refs
    BY <1>2, <1>6, <1>8 DEF Sound, InContext, OwnContext
  <2>2. p.type = b.type
    BY <1>2, <1>6 DEF Sound
  <2> QED
    BY <1>6, <2>1, <2>2 DEF OwnRefs, BlueprintRefs
<1> QED
  BY <1>3, <1>6, <1>7, <1>8 DEF Sound, b

\* The guard publishes the card itself, its template, or nothing.
LEMMA GuardedIsPromised ==
    ASSUME InContext, NEW t \in CardTypes, NEW p, Sound(t, p, site.version),
           site.version = "v4" => Approved(t, p, site.configured)
    PROVE  Kept(t, Guarded(p))
<1>1. p.type = t
  BY DEF Sound
<1>2. Kept(t, Published(p))
  BY PublishedIsPromised
<1>3. Kept(t, Published(TemplateFor(t)))
  BY TemplateForIsSound, FlawlessIsApproved, PublishedIsPromised
<1>4. Kept(t, NotPublished)
  BY DEF Kept, NotPublished
<1> QED
  BY <1>1, <1>2, <1>3, <1>4 DEF Guarded

\* _persist_ready_card: a sound payload ends as a promised card or as a failure.
LEMMA OutcomeIsPromised ==
    ASSUME InContext, NEW t \in CardTypes, NEW p, Sound(t, p, site.version),
           NEW up \in Answering, NEW upLater \in Answering
    PROVE  Kept(t, Outcome(p, up, upLater))
<1>1. p.type = t
  BY DEF Sound
<1>2. CASE ctx.version # "v4"
  <2>1. Kept(t, Guarded(p))
    BY <1>2, GuardedIsPromised DEF InContext
  <2> QED
    BY <1>2, <2>1 DEF Outcome
<1>3. CASE ctx.version = "v4"
  <2>1. site.version = "v4"
    BY <1>3 DEF InContext
  <2>2. ASSUME Gate(p, ctx, site.configured, up) # "failed"
        PROVE  Kept(t, Guarded(p))
    <3>1. Approved(t, p, site.configured)
      BY <2>1, <2>2, GateApproves DEF Answering
    <3> QED
      BY <3>1, GuardedIsPromised
  <2>3. Kept(t, Guarded(TemplateFor(t)))
    BY TemplateForIsSound, FlawlessIsApproved, GuardedIsPromised
  <2>4. Kept(t, NotPublished)
    BY DEF Kept, NotPublished
  <2>5. Kept(t, GatedWith(p, up, upLater))
    BY <1>1, <2>2, <2>3, <2>4 DEF GatedWith
  <2> QED
    BY <1>3, <2>5 DEF Outcome
<1> QED
  BY <1>2, <1>3

-----------------------------------------------------------------------------
(* Jobs start and stop *)

\* Nothing is under way at first, and the shelf is one of the earlier ones.
LEMMA CardInvHoldsAtFirst == Init => CardInv
<1> SUFFICES ASSUME Init PROVE CardInv
  OBVIOUS
<1> USE DEF Init
<1>1. NoContext \in Contexts
  BY ContextsAreOwn DEF NoContext, Versions
<1>2. JobShape
  BY <1>1 DEF JobShape, Idle, Working
<1>3. ShelfIsPromised
  BY ShelfAssumption DEF ShelfIsPromised
<1>4. MadeIsSound
  BY DEF MadeIsSound
<1>5. OpenCardsAreComing
  BY DEF OpenCardsAreComing, Working, ModelPhases
<1>6. LedgerIsHonest
  BY DEF LedgerIsHonest, Idle
<1>7. CallsFitTheBudget /\ CallsBelongToPhases /\ ContextIsOwn
  BY DEF CallsFitTheBudget, CallsBelongToPhases, ContextIsOwn, Working, ModelPhases
<1> QED
  BY <1>2, <1>3, <1>4, <1>5, <1>6, <1>7 DEF CardInv

\* A step that changes nothing keeps the invariant.
LEMMA StutterKeepsCardInv == CardInv /\ UNCHANGED vars => CardInv'
BY DEF CardInv, vars, JobShape, CallsBelongToPhases, ContextIsOwn, MadeIsSound,
       ShelfIsPromised, OpenCardsAreComing, LedgerIsHonest, CallsFitTheBudget

\* Steps of time and of the other requests touch nothing of the job.
LEMMA TimeKeepsCardInv ==
    ASSUME CardInv, UNCHANGED <<site, jobVars>>, CallsBelongToPhases', CallsFitTheBudget'
    PROVE  CardInv'
BY DEF CardInv, jobVars, JobShape, ContextIsOwn, MadeIsSound, ShelfIsPromised,
       OpenCardsAreComing, LedgerIsHonest

\* While a job works, its context is the one the lemmas above speak of.
LEMMA WorkHasContext ==
    ASSUME CardInv, phase \in Working
    PROVE  InContext
BY DEF CardInv, JobShape, ContextIsOwn, InContext

\* A request opens its cards and touches no other state of a job.
LEMMA RequestKeepsCardInv ==
    ASSUME CardInv, NEW types \in Requests, NEW force \in BOOLEAN, Request(types, force)
    PROVE  CardInv'
<1> USE DEF Request, timeVars
<1>1. types \subseteq CardTypes
  BY SiteAssumption
<1>2. JobShape'
  BY <1>1 DEF CardInv, JobShape
<1>3. LedgerIsHonest'
  BY <1>1 DEF CardInv, LedgerIsHonest
<1>4. CallsBelongToPhases'
  BY DEF CardInv, CallsBelongToPhases, ModelPhases
<1>5. ContextIsOwn' /\ OpenCardsAreComing'
  BY DEF ContextIsOwn, OpenCardsAreComing, Working, ModelPhases
<1>6. MadeIsSound' /\ ShelfIsPromised' /\ CallsFitTheBudget'
  BY DEF CardInv, MadeIsSound, ShelfIsPromised, CallsFitTheBudget
<1> QED
  BY <1>2, <1>3, <1>4, <1>5, <1>6 DEF CardInv

\* A claim builds a context of its own evidence; the blueprint it takes over
\* is that of a promised card.
LEMMA ClaimKeepsCardInv ==
    ASSUME CardInv, NEW hits \in Retrieved, Claim(hits)
    PROVE  CardInv'
<1> USE DEF Claim, timeVars
<1> DEFINE open == {t \in request.types : ~Reusable(t)}
<1>1. open \subseteq request.types /\ request.types \subseteq CardTypes
  BY DEF CardInv, JobShape
<1>2. site.version \in Versions
  BY SiteAssumption DEF CardInv, JobShape
<1>3. /\ StoredBlueprint \in Blueprint \cup {NoBlueprint}
      /\ site.version = "v4" /\ StoredBlueprint # NoBlueprint =>
           StoredBlueprint.cites \cap ForeignHits = {}
  <2>1. CASE shelf["concept_map"] = NoCard
    BY <2>1 DEF StoredBlueprint
  <2>2. CASE shelf["concept_map"] # NoCard
    <3>1. Promised("concept_map", shelf["concept_map"], site)
      BY <2>2 DEF CardInv, ShelfIsPromised, CardTypes
    <3> QED
      BY <2>2, <3>1
      DEF StoredBlueprint, Promised, Founded, OwnRefs, BlueprintRefs, Payload
  <2> QED
    BY <2>1, <2>2
<1>4. /\ ctx' \in Contexts /\ ctx'.version = site.version
      /\ site.version = "v4" => OwnContext(ctx')
  BY <1>2, <1>3, ContextsAreOwn DEF Retrieved
<1>5. phase' \in {"done", "blueprint", "supporting"}
  BY DEF FirstPhase, AfterConcept
<1>6. ledger' \in [CardTypes -> {"none", "pending", "ready", "failed"}]
  BY DEF CardInv, JobShape
<1>7. JobShape'
  BY <1>1, <1>4, <1>5, <1>6 DEF CardInv, JobShape, Working, ModelPhases
<1>8. ContextIsOwn'
  BY <1>4 DEF ContextIsOwn
<1>9. CallsBelongToPhases'
  BY DEF CardInv, CallsBelongToPhases, ModelPhases
<1>10. \A t \in CardTypes : ledger'[t] = "pending" => t \in open
  BY DEF CardInv, LedgerIsHonest
<1>11. open = {} => phase' = "done"
  BY DEF FirstPhase, AfterConcept
<1>12. phase' = "done" => open = {}
  BY DEF FirstPhase, AfterConcept
<1>13. phase' = "supporting" => "concept_map" \notin open
  BY DEF FirstPhase
<1>14. OpenCardsAreComing'
  <2>1. phase' = "blueprint" => "concept_map" \in open
    BY DEF FirstPhase, AfterConcept
  <2> QED
    BY <1>1, <1>5, <1>10, <1>13, <2>1 DEF OpenCardsAreComing
<1>15. LedgerIsHonest'
  <2>1. \A t \in CardTypes : ledger'[t] = "ready" => shelf'[t] # NoCard
    BY <1>1 DEF CardInv, LedgerIsHonest, Reusable
  <2>2. \A t \in CardTypes : ledger'[t] = "none" <=> t \notin request'.types
    BY <1>1 DEF CardInv, LedgerIsHonest
  <2> QED
    BY <1>10, <1>12, <2>1, <2>2 DEF LedgerIsHonest
<1>16. MadeIsSound' /\ ShelfIsPromised' /\ CallsFitTheBudget'
  BY DEF CardInv, MadeIsSound, ShelfIsPromised, CallsFitTheBudget
<1> QED
  BY <1>7, <1>8, <1>9, <1>14, <1>15, <1>16 DEF CardInv

\* A job that is sent back, or failed for good, leaves nothing under way.
LEMMA SendBackKeepsCardInv ==
    ASSUME CardInv, SendBack, UNCHANGED <<site, request, ctx, shelf>>,
           call' = NoCall, CallsFitTheBudget'
    PROVE  CardInv'
<1> USE DEF SendBack
<1>1. phase' \in {"queued", "done"}
  OBVIOUS
<1>2. ledger' \in [CardTypes -> {"none", "pending", "ready", "failed"}]
  BY DEF CardInv, JobShape
<1>3. JobShape'
  BY <1>1, <1>2 DEF CardInv, JobShape
<1>4. LedgerIsHonest'
  BY DEF CardInv, LedgerIsHonest
<1>5. ContextIsOwn' /\ OpenCardsAreComing' /\ CallsBelongToPhases'
  BY <1>1 DEF ContextIsOwn, OpenCardsAreComing, CallsBelongToPhases, Working, ModelPhases
<1>6. MadeIsSound' /\ ShelfIsPromised'
  BY DEF CardInv, MadeIsSound, ShelfIsPromised
<1> QED
  BY <1>3, <1>4, <1>5, <1>6 DEF CardInv

LEMMA CrashKeepsCardInv ==
    ASSUME CardInv, Crash
    PROVE  CardInv'
<1>1. CallsFitTheBudget'
  BY DEF Crash, CallsFitTheBudget
<1> QED
  BY <1>1, SendBackKeepsCardInv DEF Crash

-----------------------------------------------------------------------------
(* A model phase and its payloads *)

\* The payloads of a phase go on to be published, one per wanted card.
LEMMA DeliverKeepsCardInv ==
    ASSUME CardInv, phase \in ModelPhases, UNCHANGED <<site, request, ctx, shelf>>,
           call' = NoCall, CallsFitTheBudget',
           NEW payloads, DOMAIN payloads = Wanted,
           \A t \in Wanted : Sound(t, payloads[t], site.version),
           Deliver(payloads)
    PROVE  CardInv'
<1> USE DEF Deliver, ModelPhases
<1>1. phase' = IF phase = "blueprint" THEN "concept" ELSE "validating"
  BY DEF NextPhase
<1>2. Wanted \subseteq CardTypes /\ (phase = "blueprint" => Wanted = {"concept_map"})
  BY DEF CardInv, JobShape, Wanted, CardTypes
<1>3. phase = "supporting" => Wanted = todo /\ "concept_map" \notin todo
  BY DEF CardInv, OpenCardsAreComing, Wanted
<1>4. JobShape'
  BY <1>1 DEF CardInv, JobShape, Working
<1>5. MadeIsSound'
  BY <1>2 DEF MadeIsSound
<1>6. OpenCardsAreComing'
  BY <1>1, <1>2, <1>3 DEF CardInv, OpenCardsAreComing, Working
<1>7. LedgerIsHonest'
  BY <1>1 DEF CardInv, LedgerIsHonest
<1>8. ContextIsOwn' /\ CallsBelongToPhases'
  BY DEF CardInv, ContextIsOwn, CallsBelongToPhases, Working
<1>9. ShelfIsPromised'
  BY DEF CardInv, ShelfIsPromised
<1> QED
  BY <1>4, <1>5, <1>6, <1>7, <1>8, <1>9 DEF CardInv

\* Templates for every wanted card, or the end of the attempt.
LEMMA TemplatesKeepCardInv ==
    ASSUME CardInv, phase \in ModelPhases, UNCHANGED <<site, request, ctx, shelf>>,
           call' = NoCall, CallsFitTheBudget', DeliverTemplates
    PROVE  CardInv'
<1>1. CASE \E t \in Wanted : TemplateRaises(t, ctx)
  BY <1>1, SendBackKeepsCardInv DEF DeliverTemplates
<1>2. CASE ~\E t \in Wanted : TemplateRaises(t, ctx)
  <2> DEFINE payloads == [t \in Wanted |-> TemplateFor(t)]
  <2>1. Wanted \subseteq CardTypes
    BY DEF CardInv, JobShape, Wanted, CardTypes
  <2>2. \A t \in Wanted : Sound(t, payloads[t], site.version)
    BY <2>1, WorkHasContext, TemplateForIsSound DEF Working
  <2>3. Deliver(payloads) /\ DOMAIN payloads = Wanted
    BY <1>2 DEF DeliverTemplates
  <2> HIDE DEF payloads
  <2> QED
    BY <2>2, <2>3, DeliverKeepsCardInv
<1> QED
  BY <1>1, <1>2

LEMMA AskKeepsCardInv ==
    ASSUME CardInv, NEW inTime \in BOOLEAN, Ask(inTime)
    PROVE  CardInv'
<1>1. call = NoCall /\ phase \in ModelPhases
  BY DEF CardInv, CallsBelongToPhases, Ask, ModelPhases
<1>2. left' \in Nat
  BY TimeAssumption DEF Ask, Total
<1>3. CallsFitTheBudget' /\ CallsBelongToPhases'
  BY <1>1, <1>2 DEF CallsFitTheBudget, CallsBelongToPhases, Ask
<1> QED
  BY <1>3 DEF Ask, CardInv, JobShape, ContextIsOwn, MadeIsSound, ShelfIsPromised,
              OpenCardsAreComing, LedgerIsHonest

LEMMA SkipModelsKeepsCardInv ==
    ASSUME CardInv, NEW inTime \in BOOLEAN, SkipModels(inTime)
    PROVE  CardInv'
<1>1. phase \in ModelPhases /\ call' = NoCall /\ CallsFitTheBudget'
  BY DEF CardInv, CallsBelongToPhases, CallsFitTheBudget, SkipModels, timeVars, ModelPhases
<1> QED
  BY <1>1, TemplatesKeepCardInv DEF SkipModels

LEMMA GiveUpKeepsCardInv ==
    ASSUME CardInv, GiveUp
    PROVE  CardInv'
<1>1. phase \in ModelPhases /\ call' = NoCall /\ CallsFitTheBudget'
  BY DEF CardInv, CallsBelongToPhases, CallsFitTheBudget, GiveUp
<1> QED
  BY <1>1, TemplatesKeepCardInv DEF GiveUp

\* The returning call: its answer is delivered, or the chain goes on.
LEMMA ReturnsKeepsCardInv ==
    ASSUME CardInv, NEW answers,
           \A t \in Wanted : answers[t] \in Drafts[t] \cup {NoAnswer},
           Returns(answers)
    PROVE  CardInv'
<1> DEFINE results == [t \in Wanted |-> FromAnswer(t, answers[t])]
           raises == \E t \in Wanted : FromAnswerRaises(t, answers[t])
           written == \E t \in Wanted : results[t].source = "llm"
<1>1. call # NoCall /\ call' = NoCall /\ asking /\ phase \in ModelPhases
  BY DEF Returns, CardInv, CallsBelongToPhases
<1>2. CASE ~raises /\ written
  <2>1. /\ Deliver(results) /\ left' = 0
        /\ UNCHANGED <<site, request, ctx, shelf>>
    BY <1>2 DEF Returns
  <2>2. Wanted \subseteq CardTypes
    BY DEF CardInv, JobShape, Wanted, CardTypes
  <2>3. InContext
    BY <1>1, WorkHasContext DEF Working
  <2>4. ASSUME NEW t \in Wanted
        PROVE  Sound(t, FromAnswer(t, answers[t]), site.version)
    <3>1. t \in CardTypes /\ ctx \in Contexts /\ site.entailed \in BOOLEAN
      BY <2>2, <2>3, SiteAssumption DEF InContext
    <3>2. CASE answers[t] = NoAnswer
      BY <2>3, <3>1, <3>2, TemplateForIsSound DEF FromAnswer
    <3>3. CASE answers[t] # NoAnswer
      <4>1. answers[t] \in Drafts[t]
        BY <3>3
      <4> QED
        BY <2>3, <3>1, <3>3, <4>1, ResultsAreSound DEF FromAnswer, InContext
    <3> QED
      BY <3>2, <3>3
  <2>5. DOMAIN results = Wanted /\ \A t \in Wanted : Sound(t, results[t], site.version)
    BY <2>4
  <2>6. CallsFitTheBudget'
    BY <1>1, <2>1 DEF CallsFitTheBudget
  <2> HIDE DEF results
  <2> QED
    BY <1>1, <2>1, <2>5, <2>6, DeliverKeepsCardInv
<1>3. CASE ~(~raises /\ written)
  <2>1. UNCHANGED <<site, left, jobVars>>
    BY <1>3 DEF Returns
  <2>2. CallsFitTheBudget' /\ CallsBelongToPhases'
    BY <1>1, <2>1 DEF CardInv, CallsFitTheBudget, CallsBelongToPhases, jobVars
  <2> QED
    BY <2>1, <2>2, TimeKeepsCardInv
<1> QED
  BY <1>2, <1>3

-----------------------------------------------------------------------------
(* Publishing a card *)

\* The card published is promised, whichever of draft and template it is, and
\* the context takes over a blueprint of its own evidence only.
LEMMA PublishKeepsCardInv ==
    ASSUME CardInv, NEW t \in DOMAIN made, NEW up \in Answering, NEW upLater \in Answering,
           Publish(t, up, upLater)
    PROVE  CardInv'
<1> DEFINE outcome == Outcome(made[t], up, upLater)
           isReady == outcome.verdict = "ready"
<1>1. /\ phase \in {"concept", "validating"}
      /\ ledger' = [ledger EXCEPT ![t] = outcome.verdict]
      /\ shelf' = IF isReady THEN [shelf EXCEPT ![t] = outcome.card] ELSE shelf
      /\ made' = [u \in DOMAIN made \ {t} |-> made[u]]
      /\ todo' = todo \ {t}
      /\ ctx' = IF t = "concept_map" /\ isReady /\ made[t].blueprint # NoBlueprint
                THEN [ctx EXCEPT !.blueprint = made[t].blueprint] ELSE ctx
      /\ phase' = IF t = "concept_map" THEN AfterConcept(todo)
                  ELSE IF DOMAIN made = {t} THEN "done" ELSE phase
      /\ UNCHANGED <<site, timeVars, request, asking>>
  BY DEF Publish
<1>2. t \in CardTypes /\ Sound(t, made[t], site.version)
  BY DEF CardInv, MadeIsSound
<1>3. InContext
  BY <1>1, WorkHasContext DEF Working
<1>4. Kept(t, outcome)
  BY <1>2, <1>3, OutcomeIsPromised
<1> HIDE DEF outcome
<1>5. /\ phase = "concept" => t = "concept_map" /\ DOMAIN made = {"concept_map"}
      /\ phase = "validating" => t # "concept_map" /\ DOMAIN made = todo
  BY DEF CardInv, OpenCardsAreComing
<1>6. phase' \in {"done", "supporting", "validating"}
  BY <1>1, <1>5 DEF AfterConcept
<1>7. phase' = "done" => todo \ {t} = {}
  BY <1>1, <1>5 DEF AfterConcept
<1>8. phase' = "validating" => phase = "validating" /\ t # "concept_map"
  BY <1>1, <1>5 DEF AfterConcept
<1>9. phase' = "supporting" => t = "concept_map"
  BY <1>1, <1>5
<1>10. ledger \in [CardTypes -> {"none", "pending", "ready", "failed"}]
  BY DEF CardInv, JobShape
<1>11. ledger'[t] \in {"ready", "failed"} /\ \A u \in CardTypes \ {t} : ledger'[u] = ledger[u]
  BY <1>1, <1>2, <1>4, <1>10 DEF Kept
<1>12. /\ ctx' \in Contexts /\ ctx'.version = site.version
       /\ site.version = "v4" => OwnContext(ctx')
  <2>1. CASE ctx' = ctx
    BY <1>3, <2>1 DEF InContext
  <2>2. CASE made[t].blueprint # NoBlueprint /\ ctx' = [ctx EXCEPT !.blueprint = made[t].blueprint]
    <3>1. made[t].blueprint \in Blueprint
      BY <1>2, <2>2 DEF Sound, Payload
    <3>2. site.version = "v4" => made[t].blueprint.cites \cap ForeignHits = {}
      BY <1>2, <2>2 DEF Sound, OwnRefs, BlueprintRefs
    <3> QED
      BY <1>3, <2>2, <3>1, <3>2 DEF InContext, Contexts, OwnContext
  <2> QED
    BY <1>1, <2>1, <2>2
<1>13. JobShape'
  <2>1. ledger' \in [CardTypes -> {"none", "pending", "ready", "failed"}]
    BY <1>1, <1>2, <1>4, <1>10 DEF Kept
  <2> QED
    BY <1>1, <1>6, <1>12, <2>1 DEF CardInv, JobShape, Working, ModelPhases
<1>14. ContextIsOwn'
  BY <1>1, <1>12 DEF ContextIsOwn
<1>15. MadeIsSound'
  BY <1>1 DEF CardInv, MadeIsSound
<1>16. ShelfIsPromised'
  <2>1. DOMAIN shelf = CardTypes /\ DOMAIN shelf' = CardTypes
    BY <1>1 DEF CardInv, ShelfIsPromised
  <2>2. ASSUME NEW u \in CardTypes, shelf'[u] # NoCard
        PROVE  Promised(u, shelf'[u], site)
    <3>1. CASE isReady /\ u = t
      BY <1>1, <1>4, <2>1, <3>1 DEF Kept
    <3>2. CASE ~(isReady /\ u = t)
      <4>1. shelf'[u] = shelf[u]
        BY <1>1, <2>1, <3>2
      <4> QED
        BY <2>2, <4>1 DEF CardInv, ShelfIsPromised
    <3> QED
      BY <3>1, <3>2
  <2>3. site' = site
    BY <1>1
  <2> QED
    BY <2>1, <2>2, <2>3 DEF ShelfIsPromised, Promised
<1>17. OpenCardsAreComing'
  <2>1. \A u \in CardTypes : phase' \in Working /\ ledger'[u] = "pending" => u \in todo'
    BY <1>1, <1>11 DEF CardInv, OpenCardsAreComing, Working
  <2>2. phase' \in {"supporting", "validating"} => "concept_map" \notin todo'
    BY <1>1, <1>8, <1>9 DEF CardInv, OpenCardsAreComing
  <2>3. phase' = "validating" => DOMAIN made' = todo'
    BY <1>1, <1>5, <1>8
  <2>4. todo' \subseteq request'.types
    BY <1>1 DEF CardInv, OpenCardsAreComing, Working
  <2> QED
    BY <1>6, <2>1, <2>2, <2>3, <2>4 DEF OpenCardsAreComing
<1>18. LedgerIsHonest'
  <2>1. ASSUME NEW u \in CardTypes, ledger'[u] = "ready"
        PROVE  shelf'[u] # NoCard
    <3>1. CASE u = t
      <4>1. isReady
        BY <1>1, <1>2, <1>10, <2>1, <3>1
      <4>2. shelf'[t] = outcome.card
        BY <1>1, <1>2, <4>1 DEF CardInv, ShelfIsPromised
      <4> QED
        BY <1>4, <3>1, <4>1, <4>2, SiteAssumption DEF Kept, Promised
    <3>2. CASE u # t
      <4>1. ledger[u] = "ready" /\ shelf'[u] = shelf[u]
        BY <1>1, <1>11, <2>1, <3>2 DEF CardInv, ShelfIsPromised
      <4> QED
        BY <4>1 DEF CardInv, LedgerIsHonest
    <3> QED
      BY <3>1, <3>2
  <2>2. \A u \in CardTypes : ledger'[u] = "none" <=> u \notin request'.types
    <3>1. t \in todo /\ todo \subseteq request.types
      BY <1>1, <1>5 DEF CardInv, OpenCardsAreComing, Working
    <3> QED
      BY <1>1, <1>2, <1>11, <3>1 DEF CardInv, LedgerIsHonest
  <2>3. phase' = "done" => \A u \in CardTypes : ledger'[u] # "pending"
    BY <1>1, <1>7, <1>11 DEF CardInv, OpenCardsAreComing, Working
  <2> QED
    BY <2>1, <2>2, <2>3 DEF LedgerIsHonest
<1>19. CallsFitTheBudget' /\ CallsBelongToPhases'
  BY <1>1 DEF CardInv, CallsFitTheBudget, CallsBelongToPhases, ModelPhases, timeVars
<1> QED
  BY <1>13, <1>14, <1>15, <1>16, <1>17, <1>18, <1>19 DEF CardInv

LEMMA FinishKeepsCardInv ==
    ASSUME CardInv, Finish
    PROVE  CardInv'
<1> USE DEF Finish, timeVars
<1>1. NoContext \in Contexts
  BY ContextsAreOwn DEF NoContext, Versions
<1>2. JobShape'
  BY <1>1 DEF CardInv, JobShape, Idle
<1>3. LedgerIsHonest'
  BY DEF LedgerIsHonest, Idle
<1>4. ContextIsOwn' /\ OpenCardsAreComing' /\ CallsBelongToPhases'
  BY DEF CardInv, ContextIsOwn, OpenCardsAreComing, CallsBelongToPhases, Working, ModelPhases
<1>5. MadeIsSound' /\ ShelfIsPromised' /\ CallsFitTheBudget'
  BY DEF CardInv, MadeIsSound, ShelfIsPromised, CallsFitTheBudget
<1> QED
  BY <1>2, <1>3, <1>4, <1>5 DEF CardInv

-----------------------------------------------------------------------------
(* Calls, time, and every step *)

\* A call fits into what is left of its phase, and time takes as much from both.
LEMMA CallsKeepCardInv ==
    ASSUME CardInv, Submit \/ Begin \/ Timeout \/ Tick
    PROVE  CardInv'
<1> USE DEF CardInv, CallsFitTheBudget, CallsBelongToPhases, jobVars
<1>1. CASE Submit
  <2>1. AttemptTime \in Nat
    BY TimeAssumption DEF AttemptTime, Total
  <2>2. CallTime \in Nat /\ CallTime <= left
    BY <2>1 DEF CallTime
  <2>3. "wait" \in DOMAIN call' /\ call'.wait = CallTime /\ left' = left /\ asking
    BY <1>1 DEF Submit
  <2>4. CallsFitTheBudget' /\ CallsBelongToPhases'
    BY <1>1, <2>2, <2>3 DEF Submit
  <2> QED
    BY <1>1, <2>4, TimeKeepsCardInv DEF Submit
<1>2. CASE Begin
  <2>1. "wait" \in DOMAIN call' /\ call'.wait = call.wait /\ call # NoCall
    BY <1>2 DEF Begin
  <2>2. CallsFitTheBudget' /\ CallsBelongToPhases'
    BY <1>2, <2>1 DEF Begin
  <2> QED
    BY <1>2, <2>2, TimeKeepsCardInv DEF Begin
<1>3. CASE Timeout
  <2>1. CallsFitTheBudget' /\ CallsBelongToPhases'
    BY <1>3 DEF Timeout
  <2> QED
    BY <1>3, <2>1, TimeKeepsCardInv DEF Timeout
<1>4. CASE Tick
  <2>1. CASE call = NoCall
    <3>1. CallsFitTheBudget' /\ CallsBelongToPhases'
      BY <1>4, <2>1 DEF Tick
    <3> QED
      BY <1>4, <3>1, TimeKeepsCardInv DEF Tick
  <2>2. CASE call # NoCall
    <3>1. "wait" \in DOMAIN call' /\ call'.wait = call.wait - 1 /\ left' = left - 1
      BY <1>4, <2>2 DEF Tick
    <3>2. call.wait > 0 /\ asking
      BY <1>4, <2>2 DEF Tick
    <3>3. CallsFitTheBudget' /\ CallsBelongToPhases'
      BY <1>4, <2>2, <3>1, <3>2 DEF Tick
    <3> QED
      BY <1>4, <3>3, TimeKeepsCardInv DEF Tick
  <2> QED
    BY <2>1, <2>2
<1> QED
  BY <1>1, <1>2, <1>3, <1>4

\* The other requests hold workers and move breakers, and that is all.
LEMMA OthersKeepCardInv ==
    ASSUME CardInv,
           \/ OthersBegin \/ OthersEnd
           \/ \E p \in Fallbacks, ok \in BOOLEAN : OthersJudge(p, ok)
    PROVE  CardInv'
<1>1. UNCHANGED <<site, call, left, jobVars>>
  BY DEF OthersBegin, OthersEnd, OthersJudge
<1>2. CallsFitTheBudget' /\ CallsBelongToPhases'
  BY <1>1 DEF CardInv, CallsFitTheBudget, CallsBelongToPhases, jobVars
<1> QED
  BY <1>1, <1>2, TimeKeepsCardInv

LEMMA StepKeepsCardInv == CardInv /\ [Next]_vars => CardInv'
<1> SUFFICES ASSUME CardInv, [Next]_vars
             PROVE  CardInv'
  OBVIOUS
<1>1. ASSUME NEW types \in Requests, NEW force \in BOOLEAN, Request(types, force)
      PROVE  CardInv'
  BY <1>1, RequestKeepsCardInv
<1>2. CASE Claiming
  BY <1>2, ClaimKeepsCardInv DEF Claiming
<1>3. ASSUME NEW inTime \in BOOLEAN, Ask(inTime) \/ SkipModels(inTime)
      PROVE  CardInv'
  BY <1>3, AskKeepsCardInv, SkipModelsKeepsCardInv
<1>4. CASE Submit \/ Begin \/ Timeout \/ Tick
  BY <1>4, CallsKeepCardInv
<1>5. CASE ClientTimeout
  <2>1. \A t \in Wanted : [u \in Wanted |-> NoAnswer][t] \in Drafts[t] \cup {NoAnswer}
    OBVIOUS
  <2> QED
    BY <1>5, <2>1, ReturnsKeepsCardInv DEF ClientTimeout
<1>6. CASE Answer
  <2>1. PICK answers \in AnswersTo(Wanted) : Returns(answers)
    BY <1>6 DEF Answer
  <2>2. \A t \in Wanted : answers[t] \in Drafts[t] \cup {NoAnswer}
    BY DEF AnswersTo
  <2> QED
    BY <2>1, <2>2, ReturnsKeepsCardInv
<1>7. CASE GiveUp
  BY <1>7, GiveUpKeepsCardInv
<1>8. CASE Publishing
  BY <1>8, PublishKeepsCardInv DEF Publishing
<1>9. CASE Finish
  BY <1>9, FinishKeepsCardInv
<1>10. CASE Crash
  BY <1>10, CrashKeepsCardInv
<1>11. CASE \/ OthersBegin \/ OthersEnd
            \/ \E p \in Fallbacks, ok \in BOOLEAN : OthersJudge(p, ok)
  BY <1>11, OthersKeepCardInv
<1>12. CASE UNCHANGED vars
  BY <1>12, StutterKeepsCardInv
<1> QED
  BY <1>1, <1>2, <1>3, <1>4, <1>5, <1>6, <1>7, <1>8, <1>9, <1>10, <1>11, <1>12
  DEF Next, WorkerStep

LEMMA CardInvHolds == Spec => []CardInv
<1>1. CardInv /\ [Next]_vars => CardInv'
  BY StepKeepsCardInv
<1> QED
  BY CardInvHoldsAtFirst, <1>1, PTL DEF Spec

-----------------------------------------------------------------------------
(* The theorems *)

\* The label of a card says who wrote it, after every fallback: the provider's
\* rejected draft, the call that failed, the budget that ran out, the gate and
\* the guard (the generation metadata of _persist_ready_card).
THEOREM LabelsAreTruthful == Spec => []TruthfulProvenance
<1>1. CardInv => TruthfulProvenance
  BY DEF CardInv, ShelfIsPromised, Promised, TruthfulProvenance
<1> QED
  BY <1>1, CardInvHolds, PTL

\* Every v4 card cites and maps evidence, and none of another course or node,
\* whatever the retriever returned and whichever card the blueprint came from.
THEOREM CardsRestOnOwnEvidence == Spec => []RestsOnOwnEvidence
<1>1. CardInv => RestsOnOwnEvidence
  BY DEF CardInv, ShelfIsPromised, Promised, RestsOnOwnEvidence
<1> QED
  BY <1>1, CardInvHolds, PTL

\* Code that failed in the sandbox and a quiz the blind verifier disagrees with
\* reach no learner of a site that has them, outages included.
THEOREM WorkIsApproved == Spec => []UncheckedWorkIsHeldBack
<1>1. CardInv => UncheckedWorkIsHeldBack
  BY DEF CardInv, ShelfIsPromised, Promised, UncheckedWorkIsHeldBack
<1> QED
  BY <1>1, CardInvHolds, PTL

\* A job that is done has settled every card it was asked for, across retries,
\* and every card its ledger calls ready can be seen.
THEOREM DoneJobsAreSettled == Spec => []SettledWhenDone
<1>1. CardInv => SettledWhenDone
  BY DEF CardInv, JobShape, LedgerIsHonest, SettledWhenDone
<1> QED
  BY <1>1, CardInvHolds, PTL

\* The time of a model phase is never overdrawn: each attempt is cut to what is
\* left of the phase's total (orchestration_runtime's deadline).
THEOREM PhasesEndInTime == Spec => []PhaseEndsInTime
<1>1. CardInv => PhaseEndsInTime
  BY DEF CardInv, CallsFitTheBudget, PhaseEndsInTime
<1> QED
  BY <1>1, CardInvHolds, PTL

=============================================================================
