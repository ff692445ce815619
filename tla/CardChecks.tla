----------------------------- MODULE CardChecks -----------------------------
(* What a resource card must satisfy before a learner sees it, as pure       *)
(* operators: binding to the server's context, the payload validator, the    *)
(* local templates, the quality gate and the output guard.                   *)
(*                                                                           *)
EXTENDS Integers, FiniteSets

CONSTANTS
    NodeRef,          \* the id of the synthetic course-node record
    OwnHits,          \* knowledge-base chunks of this course and node
    ForeignHits,      \* chunks of another course or node
    MinEvidence,      \* EVIDENCE_SELECTED_MIN
    NoBlueprint

ASSUME EvidenceAssumption ==
    /\ NodeRef \notin OwnHits \cup ForeignHits
    /\ OwnHits \cap ForeignHits = {}
    /\ MinEvidence \in Nat

CardTypes == {"concept_map", "code_snippet", "interactive_exercise",
              "video_summary", "diagnostic_quiz"}
Versions == {"v3", "v4"}

\* An id that a provider makes up is like one of ForeignHits.
Refs == {NodeRef} \cup OwnHits \cup ForeignHits
\* The evidence of the claims, and whether that evidence entails them.
Blueprint == [cites : SUBSET Refs, sound : BOOLEAN]
\* source is who the service says wrote it, words who really did (not in the
\* code); cites are the source_ref_ids, maps the evidence ids of its
\* evidence_map, {} without one; sound says whether the evidence entails its
\* critical fields; flaws are the validator's issue codes for its text; marked
\* says that its quality profile names the template as its source, which only
\* binding writes into it.
Payload ==
    [type : CardTypes, source : {"llm", "template"}, words : {"model", "local"},
     marked : BOOLEAN,
     cites : SUBSET Refs, maps : SUBSET Refs, blueprint : Blueprint \cup {NoBlueprint},
     sound : BOOLEAN, flaws : SUBSET STRING]

-----------------------------------------------------------------------------
(* The context of a job *)

\* Mutant: the chunks are not matched with the course and node.
SelectedUnscoped(hits, version) == hits

\* The evidence a query result leaves: v4 keeps the chunks of this course and
\* node, v3 whatever the retriever returned.
Selected(hits, version) == IF version = "v4" THEN hits \cap OwnHits ELSE hits

\* build_resource_context: without a usable chunk the course graph stands in
\* as evidence; in both cases too little evidence marks the context degraded.
Context(hits, version, blueprint) ==
    LET chosen == Selected(hits, version) IN
    [version |-> version,
     refs |-> IF chosen = {} THEN {NodeRef} ELSE chosen,
     evidence |-> IF \/ chosen = {}
                     \/ version = "v4" /\ Cardinality(chosen) < MinEvidence
                  THEN "degraded" ELSE "grounded",
     blueprint |-> blueprint]

\* Ids a citation may use: the evidence and the synthetic node record.
Known(ctx) == ctx.refs \cup {NodeRef}

-----------------------------------------------------------------------------
(* Binding and validating a payload *)

\* _bind_source_ref_ids: citations are cut to the server's evidence, v3 fills in
\* the default set.
BoundCites(p, ctx) ==
    LET kept == p.cites \cap ctx.refs IN
    IF kept = {} /\ ctx.version = "v3" THEN ctx.refs ELSE kept

\* _bind_context: what the service owns (language, example binding, practice,
\* verification status) is overwritten, so the example is never the practice,
\* and so is the quality profile.
Bind(p, ctx, source) ==
    [p EXCEPT !.source = source, !.marked = (source = "template"),
              !.cites = BoundCites(p, ctx),
              !.flaws = @ \ {"code_example_leaks_practice"}]

\* Defects of the text by card type: those the validator reports for every
\* version, and those it reports for v4 alone.
ConceptDefects ==
    [always |-> {"mermaid_invalid"},
     v4 |-> {"mermaid_too_shallow", "mermaid_too_dense", "mermaid_edges_missing",
             "mermaid_branch_missing", "mermaid_relation_labels_missing",
             "mermaid_dangling_node", "objective_not_in_blueprint"}]
CodeDefects == [always |-> {"c_syntax_invalid"}, v4 |-> {"code_example_leaks_practice"}]
ExerciseDefects ==
    [always |-> {},
     v4 |-> {"exercise_rubric_missing", "exercise_checkpoints_missing",
             "exercise_hint_levels_invalid"}]
VideoDefects ==
    [always |-> {"video_url_untrusted", "video_source_missing", "video_source_mismatch",
                 "video_duration_mismatch", "video_timeline_mismatch"},
     v4 |-> {"video_metadata_fabricated", "reading_sequence_missing"}]
QuizDefects ==
    [always |-> {"quiz_question_id_duplicate", "quiz_question_duplicate",
                 "quiz_question_bank_source_unknown", "quiz_missing_asset_placeholder",
                 "quiz_levels_missing"},
     v4 |-> {"quiz_v4_coverage_invalid", "quiz_distractor_tags_missing",
             "quiz_distractor_generic"}]
Defects ==
    [concept_map |-> ConceptDefects, code_snippet |-> CodeDefects,
     interactive_exercise |-> ExerciseDefects, video_summary |-> VideoDefects,
     diagnostic_quiz |-> QuizDefects]

\* Citations must be known and at least one must be evidence.
CitationIssues(p, ctx) ==
    (IF p.cites = {} THEN {"source_refs_missing"} ELSE {})
      \cup (IF p.cites \subseteq Known(ctx) THEN {} ELSE {"source_ref_unknown"})
      \cup (IF p.cites \cap ctx.refs = {} THEN {"knowledge_source_required"} ELSE {})

\* The field-level evidence of a v4 card.
EvidenceIssues(p, ctx) ==
    (p.flaws \cap {"objective_ids_missing", "content_language_mismatch", "factual_field_unmapped"})
      \cup (IF p.maps = {} THEN {"evidence_map_missing"} ELSE {})
      \cup (IF p.maps \subseteq Known(ctx) THEN {} ELSE {"evidence_map_unknown"})

\* A v4 concept map carries a blueprint whose claims cite real evidence.
BlueprintIssues(p, ctx) ==
    IF p.type # "concept_map" THEN {}
    ELSE IF p.blueprint = NoBlueprint THEN {"learning_blueprint_missing"}
    ELSE IF p.blueprint.cites # {} /\ p.blueprint.cites \subseteq Known(ctx) THEN {}
    ELSE {"claim_evidence_invalid"}

\* validate_resource_payload: a payload that breaks the schema is reported as
\* such and nothing else is looked at.
Issues(p, ctx) ==
    IF "schema_invalid" \in p.flaws THEN {"schema_invalid"}
    ELSE (p.flaws \cap ({"learner_content_not_chinese"} \cup Defects[p.type].always))
           \cup CitationIssues(p, ctx)
           \cup (IF ctx.version = "v4"
                 THEN (p.flaws \cap Defects[p.type].v4)
                        \cup EvidenceIssues(p, ctx) \cup BlueprintIssues(p, ctx)
                 ELSE {})

-----------------------------------------------------------------------------
(* The local templates *)

\* _template_blueprint: the snapshot of the context, if there is one.
TemplateBlueprint(ctx, entailed) ==
    IF ctx.blueprint # NoBlueprint THEN ctx.blueprint
    ELSE [cites |-> ctx.refs, sound |-> entailed]

\* _template_common: every template cites and maps the evidence at hand.
TemplateCommon(type, ctx, entailed) ==
    [type |-> type, source |-> "template", words |-> "local", marked |-> FALSE,
     cites |-> ctx.refs, maps |-> ctx.refs, blueprint |-> NoBlueprint,
     sound |-> entailed, flaws |-> {}]

\* _template_payload: generic text about the node; "entailed" says whether it
\* follows from the evidence.  It is not bound, so no profile marks it.
TemplatePayload(type, ctx, entailed) ==
    [TemplateCommon(type, ctx, entailed) EXCEPT
        !.blueprint = IF type = "concept_map" THEN TemplateBlueprint(ctx, entailed) ELSE @]

\* "Local fallback validation failed": even the template is refused.
TemplateRaises(type, ctx) ==
    Issues(TemplatePayload(type, ctx, TRUE), ctx) # {}

\* Mutant: the template that replaces an invalid payload keeps its label.
ResultUnlabelled(p, ctx, source, entailed) ==
    IF Issues(Bind(p, ctx, source), ctx) = {} THEN Bind(p, ctx, source)
    ELSE [TemplatePayload(p.type, ctx, entailed) EXCEPT !.source = source]

\* _result_from_payload: the bound payload if it is valid, else the template.
\* Only meaningful where the template does not raise.
Result(p, ctx, source, entailed) ==
    IF Issues(Bind(p, ctx, source), ctx) = {} THEN Bind(p, ctx, source)
    ELSE TemplatePayload(p.type, ctx, entailed)

\* It raises when neither the payload nor the template is valid.
ResultRaises(p, ctx, source) ==
    /\ Issues(Bind(p, ctx, source), ctx) # {}
    /\ TemplateRaises(p.type, ctx)

-----------------------------------------------------------------------------
(* The quality gate.  "up" is the set of sidecars that answer this card, a   *)
(* subset of those the site has configured.                                  *)

\* The blueprint whose claims are judged: the card's own, else the context's.
JudgedBlueprint(p, ctx) ==
    IF p.blueprint # NoBlueprint THEN p.blueprint ELSE ctx.blueprint

\* Claims and fields without known evidence, or that the evidence refutes.
ClaimIssues(p, ctx, up) ==
    LET b == JudgedBlueprint(p, ctx) IN
    IF b = NoBlueprint THEN {}
    ELSE IF b.cites = {} \/ ~(b.cites \subseteq ctx.refs) THEN {"critical_evidence_coverage_insufficient"}
    ELSE IF "nli" \notin up THEN {"critical_nli_unavailable"}
    ELSE IF ~b.sound THEN {"unsupported_critical_claim"} ELSE {}

FieldIssues(p, ctx, up) ==
    IF p.maps = {} THEN {"evidence_map_missing"}
    ELSE (IF p.maps \subseteq ctx.refs THEN {} ELSE {"unknown_evidence_reference"})
      \cup (IF p.maps \cap ctx.refs = {} THEN {"critical_field_evidence_missing"}
            ELSE IF "nli" \notin up THEN {"critical_field_nli_unavailable"}
            ELSE IF ~p.sound THEN {"unsupported_critical_field"} ELSE {})

\* Mutant: a sandbox that does not answer counts as one the site does not have.
SandboxIssuesLenient(p, configured, up) ==
    IF p.type # "code_snippet" THEN {}
    ELSE IF "sandbox" \in up
         THEN p.flaws \cap {"code_verification_failed"}
    ELSE IF p.marked THEN {"sandbox_unavailable_prevalidated_template"}
    ELSE {"sandbox_not_configured"}

\* Code is run in the sandbox; a template that is marked as one does without it,
\* and so does every card of a site that has no sandbox.
SandboxIssues(p, configured, up) ==
    IF p.type # "code_snippet" THEN {}
    ELSE IF "sandbox" \in up
         THEN p.flaws \cap {"code_verification_failed"}
    ELSE IF p.marked THEN {"sandbox_unavailable_prevalidated_template"}
    ELSE IF "sandbox" \notin configured THEN {"sandbox_not_configured"}
    ELSE {"sandbox_unavailable"}

\* The blind verifier answers the quiz without the key.
VerifierIssues(p, configured, up) ==
    IF p.type # "diagnostic_quiz" THEN {}
    ELSE IF "verifier" \in up
         THEN p.flaws \cap {"diagnostic_answer_inconsistent", "diagnostic_generic_distractors"}
    ELSE IF ~p.marked /\ "verifier" \notin configured
         THEN {"diagnostic_blind_verifier_not_configured"}
    ELSE {"diagnostic_blind_verifier_unavailable"}

GateIssues(p, ctx, configured, up) ==
    ClaimIssues(p, ctx, up) \cup FieldIssues(p, ctx, up)
      \cup SandboxIssues(p, configured, up) \cup VerifierIssues(p, configured, up)
      \cup (p.flaws \cap {"fabricated_video_metadata", "trusted_video_attribution_missing",
                          "diagnostic_question_bank_source_unknown",
                          "learner_content_not_chinese"})

\* Issues that fail a card whatever its score.
HardIssues(p) ==
    {"critical_evidence_coverage_insufficient", "unsupported_critical_claim",
     "unknown_evidence_reference", "critical_field_evidence_missing",
     "unsupported_critical_field", "code_verification_failed", "sandbox_unavailable",
     "fabricated_video_metadata", "trusted_video_attribution_missing",
     "diagnostic_question_bank_source_unknown", "diagnostic_answer_inconsistent",
     "learner_content_not_chinese"}
      \cup (IF p.marked THEN {} ELSE {"diagnostic_blind_verifier_unavailable"})

Unverified ==
    {"critical_nli_unavailable", "sandbox_unavailable", "sandbox_not_configured",
     "diagnostic_blind_verifier_unavailable", "diagnostic_blind_verifier_not_configured"}

\* Entailment of what is judged, in percent: 75 stands for a silent NLI.
FactualScore(p, ctx, up) ==
    LET claim == IF ClaimIssues(p, ctx, up) = {} THEN 100
                 ELSE IF "critical_nli_unavailable" \in ClaimIssues(p, ctx, up) THEN 75 ELSE 0
        field == IF FieldIssues(p, ctx, up) = {} THEN 100
                 ELSE IF "critical_field_nli_unavailable" \in FieldIssues(p, ctx, up) THEN 75 ELSE 0
    IN  IF JudgedBlueprint(p, ctx) = NoBlueprint THEN field ELSE (claim + field) \div 2

\* The weighted score, in percent (QUALITY_WEIGHTS).
Score(p, ctx, configured, up) ==
    (30 * FactualScore(p, ctx, up)
       + 15 * (IF p.maps = {} THEN 0 ELSE IF p.maps \subseteq ctx.refs THEN 100 ELSE 50)
       + 20 * (IF "diagnostic_generic_distractors" \in p.flaws THEN 50 ELSE 100)
       + 15 * 100
       + 10 * (IF GateIssues(p, ctx, configured, up) \cap Unverified = {} THEN 100 ELSE 40)
       + 5 * (IF "objective_ids_missing" \in p.flaws THEN 0 ELSE 100)
       + 5 * (IF "learner_content_not_chinese" \in p.flaws THEN 0 ELSE 100)) \div 100

\* evaluate_resource_quality
Gate(p, ctx, configured, up) ==
    LET issues == GateIssues(p, ctx, configured, up)
        score == Score(p, ctx, configured, up)
        outage == Unverified \cup {"critical_field_nli_unavailable"}
    IN  IF issues \cap HardIssues(p) # {} \/ score < 75 THEN "failed"
        ELSE IF ctx.evidence = "degraded" \/ issues \cap outage # {} THEN "degraded"
        ELSE IF score < 85 THEN "warning" ELSE "normal"

-----------------------------------------------------------------------------
(* The output guard looks at the rendered text: unsafe words, broken code    *)
(* and formulas, the language, and whether it names the node it is about; a  *)
(* template may name the node by its id.                                     *)
GuardFlaws == {"unsafe_content", "code_syntax_error", "formula_syntax_error",
               "resource_semantic_mismatch"}
GuardRejects(p) == p.flaws \cap GuardFlaws # {}
=============================================================================
