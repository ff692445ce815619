-------------------------- MODULE MCCardGeneration --------------------------
(* A small instance of CardGeneration: two providers, one pool worker, one   *)
(* chunk of evidence and one foreign chunk, a few drafts per card type.      *)
EXTENDS CardGeneration

CONSTANTS pa, pb, e1, x1

TwoProviders == <<pa, pb>>

Draft(type, refs, flaws) ==
    [type |-> type, source |-> "llm", words |-> "model", marked |-> FALSE,
     cites |-> refs, maps |-> refs,
     blueprint |-> IF type = "concept_map" THEN [cites |-> refs, sound |-> TRUE] ELSE NoBlueprint,
     sound |-> TRUE, flaws |-> flaws]
\* A concept map whose claims the evidence does not entail.
Unfounded == [Draft("concept_map", {e1}, {}) EXCEPT !.blueprint.sound = FALSE]

FewDrafts ==
    [concept_map |-> {Draft("concept_map", {e1}, {}), Unfounded,
                      Draft("concept_map", {x1}, {})},
     code_snippet |-> {Draft("code_snippet", {e1}, {}),
                       Draft("code_snippet", {e1}, {"code_verification_failed"})},
     interactive_exercise |-> {Draft("interactive_exercise", {e1}, {"resource_semantic_mismatch"})},
     video_summary |-> {Draft("video_summary", {e1}, {"video_url_untrusted"})},
     diagnostic_quiz |-> {Draft("diagnostic_quiz", {e1}, {"diagnostic_answer_inconsistent"}),
                          Draft("diagnostic_quiz", {x1}, {"quiz_distractor_generic"})}]

Site(version, configured, entailed) ==
    [version |-> version, configured |-> configured, entailed |-> entailed]
AllSites == {Site("v3", {}, TRUE), Site("v4", {}, TRUE),
             Site("v4", {"nli", "sandbox", "verifier"}, TRUE)}

FewRequests == {{"concept_map", "code_snippet"}, {"diagnostic_quiz", "interactive_exercise"}}

\* Earlier jobs left nothing, a concept map of the model, or a template that
\* was made while the knowledge base was away.
NoCards == [t \in CardTypes |-> NoCard]
EarlierShelves ==
    {NoCards,
     [NoCards EXCEPT !["concept_map"] = Draft("concept_map", {e1}, {})],
     [NoCards EXCEPT !["concept_map"] =
         TemplatePayload("concept_map", Context({}, "v4", NoBlueprint), TRUE)]}
=============================================================================
