--------------------------- MODULE NumberingSteps ---------------------------
(***************************************************************************)
(* Page numbers and the official outline numbering (app/native_numbering.py*)
(* and its wrappers in app/local_cli_bundle_numbering.py).                 *)
(***************************************************************************)
EXTENDS ParagraphSteps

\* _preflight_census: the text hash and the controls.
PreflightCensus(c) == Read(c) \o Read(c)

\* normalize_page_number_request and the native objects it needs
ValidatePageNumber == Check("error") \o Read("error")

\* _page_number_props: the settings of an existing control
PageNumberProps == Check("clean")
\* _first_number_source: where the first number would come from
FirstNumberSource == Check("clean")
\* The document evidence of _apply_page_number: only refusals judged from it are
\* clean, every other failure before PageNumPos is unproven.
PageEvidence ==
    PreflightCensus("clean") \o PageNumberProps \o MayStop \o Check("clean") \o Read("clean")
    \o ValidatedCensus("clean") \o FirstNumberSource

\* The defaults and parameters of PageNumPos, before the caret moves
PageNumberParameters == Read("error") \o Read("error") \o Check("error")
\* One pgnp more, the text and the other controls as they were, its settings as asked
PageNumberReadback == PreflightCensus("mutation") \o Check("mutation") \o Read("mutation") \o Check("mutation")
\* _page_number_delta_problems over the two censuses
PageNumberDelta == Verify

\* _apply_page_number, apply_page_number, _bundle_page_number_apply
PageNumberApply ==
    ValidatePageNumber \o PageEvidence \o PageNumberParameters
    \o Move("error") \o Publish \o Act \o PageNumberReadback \o Read("mutation")
    \o PageNumberDelta \o Tidy \o Report(1)

-----------------------------------------------------------------------------
\* restore_proven_refusal: caret, selection, census, text, controls, caret again.
RestoreProven == Home("error") \o Read("error") \o Same("error") \o Home("error")

\* Preflight of _bundle_official_numbering_apply: an incomplete census refuses before navigation.
OfficialPreflight == Check("error") \o Read("error") \o Check("error") \o Read("clean") \o PreflightCensus("clean")

\* _find_text_on_expected_page, here with every failure but 'not found' unproven
OfficialFind == Move("refusal") \o Read("error") \o Check("error")

\* _locate_unique_body_paragraph
LocateUnique == Move("error") \o Read("error")
\* _anchor_target and the target guard
OfficialTarget == LocateUnique \o Check("error")

\* _read_outline_definition, _read_paragraph_shape
OutlineDefinition == Read("error")
ParagraphShape    == Read("error")

\* The census and shape of the target; only judgements of validated data are semantic refusals.
OfficialTargetShape ==
    PreflightCensus("error") \o Read("error") \o Check("refusal") \o OutlineDefinition \o ParagraphShape \o Check("refusal")

\* _prove_outline_scope
ProveOutlineScope == Check("refusal")

\* _define_official_outline
DefineOutline == Check("error") \o Read("error") \o Publish \o Act \o Read("mutation") \o Read("mutation")

\* The paragraph write; its parameters are set first, and a failure there is
\* reported as a mutation although nothing was issued.
WriteOutlineLevel == Check("mutation") \o Read("error") \o Publish \o Act

\* The paragraph's shape, the text and controls, the definition, then the census again
OfficialReadback == Read("mutation") \o PreflightCensus("mutation") \o Read("mutation") \o Read("mutation")
\* _official_delta_problems with the identities and definitions that may have been renewed
OfficialDelta == Verify

\* _apply_official_numbering: the outline definition, the paragraph, or both
ApplyOfficial(define, write) ==
    OfficialTarget \o OfficialTargetShape \o MayStop
    \o (IF define THEN ProveOutlineScope \o DefineOutline ELSE <<>>)
    \o (IF write THEN WriteOutlineLevel ELSE <<>>)
    \o OfficialReadback \o OfficialDelta
    \o Report((IF define THEN 1 ELSE 0) + (IF write THEN 1 ELSE 0))

\* _bundle_official_numbering_apply; a success puts the caret back
OfficialNumberingApply(define, write) ==
    OfficialPreflight \o Arm \o OfficialFind \o ApplyOfficial(define, write) \o Home("error")
OfficialStill == Home("error")
=============================================================================
