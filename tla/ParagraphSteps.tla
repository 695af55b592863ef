--------------------------- MODULE ParagraphSteps ---------------------------
(***************************************************************************)
(* Inserting and removing one paragraph (app/native_paragraph_edit.py),    *)
(* formatting one exact range (app/native_format.py), and the wrappers of  *)
(* both in app/local_cli_bundle_numbering.py.                              *)
(***************************************************************************)
EXTENDS TextSteps

\* _guard_protection: a census that was read, validated and found complete.
GuardProtection(c) == Read(c) \o Census(c)

\* _find_text_on_expected_page, strict: every hit is visited.  Not found is a
\* refusal once the state it found is back; a read that raises is unknown.
FindOnExpectedPage == Move("refusal") \o Read("read") \o Check("error")

\* validate_insert_step, validate_remove_step
ValidateParagraphEdit == Check("error")

\* _bundle_paragraph_edit
ParagraphEdit(edit) ==
    ValidateParagraphEdit \o StrictTargetState \o GuardProtection("refusal") \o Arm \o FindOnExpectedPage \o edit
ParagraphBack == GiveBack \o GuardProtection("error") \o Same("error")

\* _read_protection, _require_complete and _target
CensusTarget == Read("refusal") \o Check("refusal") \o Check("refusal")

\* _control_sequence, then _located
LocateTarget == Read("refusal") \o Move("refusal") \o Check("refusal")

\* _shared_problems and _same_content, around what each command expects
SharedProblems == Verify

\* insert_paragraph
InsertParagraph ==
    Check("refusal") \o CensusTarget \o Check("refusal") \o LocateTarget \o Move("refusal")
    \o Read("refusal") \o Read("refusal") \o Read("refusal") \o Publish \o Act
    \o Read("mutation") \o SharedProblems \o Report(1)

\* remove_paragraph
RemoveParagraph ==
    Check("refusal") \o CensusTarget \o Check("refusal") \o LocateTarget \o Move("refusal")
    \o Read("refusal") \o Publish \o Act \o Read("mutation") \o SharedProblems \o Report(1)

-----------------------------------------------------------------------------
\* read() of _bundle_format_exact, and _read of native_format: text, census, model, controls.
FormatReadState == Read("refusal") \o Census("refusal") \o ParseFormatModel("refusal")
ReadFormat(c)   == Read(c) \o Census(c) \o ParseFormatModel(c) \o Read(c)

\* validate_character_step, validate_paragraph_step and _validated_target
ValidateFormat == Check("error")

\* _resolve with _unique_hit and _require_context
ResolveFormat == Check("refusal")
\* _require_no_control_inside, _require_measured_neighbours; _require_font
RangeControls == Check("refusal")
RequireFont   == Check("refusal")
\* _already_character, _char_after, _restore_items and their like: what the range must
\* show afterwards, and the mark that has to be put back
FormatPlan == Check("refusal")
\* _character_block, _paragraph_block: the block and its words
FormatBlock == Check("refusal")
\* _document_problems, then _mark_problems, _character_problems or _paragraph_problems
FormatOutside  == Verify
FormatProblems == Verify

\* _native_list: a table cell's list is known only from a search.
NativeList == Move("refusal") \o Read("refusal") \o Check("refusal")

\* _select: position, page, block, words, and the selection once more.
SelectFormat == Move("refusal") \o Read("refusal") \o Move("refusal") \o Read("refusal") \o Read("refusal")

\* _mark_restore: the number mark at the range's end takes one more action.
RestoreMark == Move("mutation") \o Read("mutation") \o Act

\* apply_format; marked: a second action keeps the paragraph's number mark
ApplyFormat(marked) ==
    ReadFormat("refusal") \o ResolveFormat \o RangeControls \o RequireFont \o FormatPlan
    \o NativeList \o FormatBlock \o MayStop
    \o SelectFormat \o Read("refusal") \o Publish \o Act \o (IF marked THEN RestoreMark ELSE <<>>)
    \o ReadFormat("mutation") \o FormatOutside \o FormatProblems \o Home("mutation") \o Report(IF marked THEN 2 ELSE 1)

\* The 'already_set' branch checks the page before restored().
FormatStill == Move("refusal") \o Read("refusal") \o GiveBack \o Same("error")

\* _bundle_format_exact
FormatExact(marked) == ValidateFormat \o StrictTargetState \o FormatReadState \o Arm \o ApplyFormat(marked)
=============================================================================
