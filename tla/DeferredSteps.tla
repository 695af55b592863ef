---------------------------- MODULE DeferredSteps ----------------------------
(***************************************************************************)
(* The engines that publish intent at their first native mutator and       *)
(* register their own refusals (app/step_refusal.py): layout_exact,        *)
(* object_insert_exact and paragraph_rehome_exact.                         *)
(***************************************************************************)
EXTENDS StepPrograms

\* strict_state, strict_pos, strict_selection: any doubt is technical.
StrictRead == Read("error")

\* restore_caret of a pending refusal, then control.register
DeferredBack == Home("error")

-----------------------------------------------------------------------------
\* normalize_request with the validators, and preflight_refusal: nothing native yet.
LayoutRequest == Check("step") \o Check("step")

\* _layout_require: the caller's stale view is refused, a later difference is technical.
LayoutRequire(initial) == StrictRead \o Check(IF initial THEN "step" ELSE "error")

\* The parameter sets: _layout_pset, _layout_get_default, _layout_items
LayoutItems == Read("error")

\* parse_layout_xml with _body_tokens: sections, columns and the body as tokens
ParseLayout(c) == Check(c)
\* _layout_document before the edit, with the size and time budget of the proof
LayoutBefore == Read("error") \o Check("step") \o ParseLayout("error") \o Check("step")

\* _layout_key_indicator_strict
KeyIndicator == Read("error")

\* _layout_plan around the planner of the kind
PlanPageSetup     == Check("step")
PlanColumns       == Check("step")
PlanSectionInsert == Check("step")
PlanSectionDelete == Check("step")
PlanHangingIndent == Check("step")

\* _layout_execute, _layout_native_run and _layout_raise_if_failed
LayoutAction == Publish \o Act

\* compare_documents and body_token_reasons: everything but what the kind may change
LayoutOutside == Verify
\* verify_page_setup, verify_columns, verify_section_insert, verify_section_delete,
\* verify_hanging_indent
VerifyPageSetup     == LayoutOutside \o Verify
VerifyColumns       == LayoutOutside \o Verify
VerifySectionInsert == LayoutOutside \o Verify
VerifySectionDelete == LayoutOutside \o Verify
VerifyHangingIndent == LayoutOutside \o Verify
\* _layout_after, the verification, _layout_raise_if_unverified, the state for undo
LayoutProof(verified) == Read("mutation") \o ParseLayout("mutation") \o verified \o Read("mutation")

\* _layout_page_setup
PageSetup ==
    LayoutRequire(TRUE) \o LayoutItems \o LayoutBefore \o KeyIndicator \o PlanPageSetup
    \o LayoutItems \o LayoutRequire(FALSE) \o LayoutAction \o LayoutItems \o LayoutProof(VerifyPageSetup)

\* _layout_columns
Columns ==
    LayoutRequire(TRUE) \o LayoutItems \o LayoutBefore \o KeyIndicator \o PlanColumns
    \o LayoutItems \o LayoutRequire(FALSE) \o LayoutAction \o LayoutItems \o LayoutProof(VerifyColumns)

\* _layout_section_insert
SectionInsert ==
    LayoutRequire(TRUE) \o LayoutBefore \o PlanSectionInsert \o LayoutRequire(FALSE) \o LayoutAction
    \o LayoutProof(VerifySectionInsert)

\* _layout_prove_section_start: one MoveLeft, and the caret is put back before the judgement.
ProveSectionStart ==
    KeyIndicator \o Check("step") \o Move("error") \o StrictRead \o KeyIndicator \o Home("error") \o Check("step")

\* _layout_section_delete
SectionDelete ==
    LayoutRequire(TRUE) \o ProveSectionStart \o LayoutBefore \o PlanSectionDelete
    \o LayoutRequire(FALSE) \o LayoutAction \o LayoutProof(VerifySectionDelete)

\* _layout_marker_text
MarkerText == Move("error") \o Read("error")

\* _layout_hanging_indent: the caret is parked behind the marker.
HangingIndent ==
    LayoutRequire(TRUE) \o Move("error") \o LayoutRequire(FALSE) \o LayoutItems \o PlanHangingIndent \o MarkerText
    \o Move("error") \o Check("step") \o LayoutRequire(FALSE) \o LayoutBefore \o LayoutRequire(FALSE)
    \o LayoutAction \o Read("mutation") \o LayoutProof(VerifyHangingIndent)

\* _bundle_layout_exact; restores: the kinds of _RESTORE_CARET_KINDS
LayoutExact(kind, restores) ==
    LayoutRequest \o StrictRead \o Arm \o kind \o (IF restores THEN Tidy ELSE <<>>) \o Report(1)

-----------------------------------------------------------------------------
\* normalize_step, and the kinds of drawing that are supported
InsertRequest == Check("step") \o Check("step")

\* _object_insert_require
InsertRequire(initial) == StrictRead \o Check(IF initial THEN "step" ELSE "error") \o Read("error")

\* summarize, linearize: the controls and the run of the document
Linearize(c) == Check(c)
\* _object_insert_readback before the insert
InsertBefore == Read("error") \o Check("step") \o Linearize("error")

\* dry_run_proof against the time budget, then check_before
InsertAdmitted == Check("step") \o Check("step")

\* _object_insert_prepare_pset, _object_insert_prepare_drawing: read back exactly, nothing executed.
PreparePset == Read("error") \o Check("error")

\* _object_insert_run or _object_insert_execute
InsertNative == Publish \o Act

\* CloseEx back to the list it came from
CloseObject == Move("error") \o Read("error")
\* _object_insert_release: at most one Cancel
ReleaseObject == Read("error") \o Move("error") \o Read("error")

\* _object_insert_mutate: a run or an Execute; a note or a header also types its text.
InsertMutate(executes, types) ==
    (IF executes THEN PreparePset ELSE <<>>) \o InsertRequire(FALSE) \o InsertNative
    \o (IF types THEN Act \o CloseObject ELSE IF executes THEN ReleaseObject ELSE <<>>)

\* _element_reasons, drawing_reasons: the one new object is the requested one
NewObject == Verify
\* evaluate_insert with _locate_insert: nothing else is new
InsertOutside == Verify
InsertProof == Read("mutation") \o Linearize("mutation") \o InsertOutside \o NewObject \o Read("mutation")

\* _bundle_object_insert_exact: nothing before the mutator moves the caret.
ObjectInsertExact(executes, types) ==
    InsertRequest \o InsertRequire(TRUE) \o InsertBefore \o InsertAdmitted \o Read("error")
    \o InsertRequire(FALSE) \o InsertMutate(executes, types) \o InsertProof
    \o Report(IF types THEN 2 ELSE 1)

-----------------------------------------------------------------------------
\* The finder and the strict reads behind located() and select_exact().
LocateText  == Move("error") \o StrictRead \o Check("error")
SelectExact == Move("error") \o StrictRead \o Read("error")

\* _bundle_paragraph_rehome_exact, for a run of n characters.  Only the visible text
\* without spaces is compared afterwards.
ParagraphRehomeExact(n) ==
    Check("step") \o StrictRead \o Read("error") \o Arm
    \o LocateText \o LocateText \o Check("step") \o Check("step") \o SelectExact \o Check("step")
    \o Move("error") \o Publish \o Act \o Try \o SelectExact \o Move("error") \o Times(n, Try)
    \o Read("mutation") \o Peek("mutation") \o Tidy \o Report(2 + n)
=============================================================================
