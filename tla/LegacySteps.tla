----------------------------- MODULE LegacySteps -----------------------------
(***************************************************************************)
(* The remaining packages that publish intent before their engine runs:    *)
(* paragraphs by their visible text (app/local_cli_bundle_paragraphs.py),  *)
(* rows, columns and cells (app/local_cli_table_structure.py), text, saving*)
(* and the reports (app/command_packages).                                 *)
(***************************************************************************)
EXTENDS ControlSteps

\* get_text_file or GetTextFile; a text that could not be read is empty.
SoftText == Visit
\* _find_text_on_expected_page, not strict: every hit is visited.
FindText == Move("error") \o Check("error")
\* _capture_nearby_text_context selects the neighbours and puts the caret back.
NearbyText == Visit \o Tidy

\* _find_paragraph_delete_target
FindDeleteTarget == Move("error") \o NearbyText \o Check("error")
\* The recorded match is selected again, with its paragraph break.
SelectParagraph == Check("error") \o Move("error") \o Read("error") \o Check("error")
\* _bundle_paragraph_delete_exact, _paragraph_delete_exact_phases
ParagraphDelete ==
    Check("error") \o SoftText \o Check("error") \o FindDeleteTarget \o NearbyText \o SelectParagraph
    \o Try \o SoftText \o Arm \o Peek("undoable") \o FindText \o NearbyText \o Tidy \o Report(1)

\* _bundle_paragraph_join_previous_exact: n DeleteBack, and the text without spaces must be the same.
ParagraphJoinPrevious(n) ==
    Check("error") \o SoftText \o FindText \o Read("error") \o Move("error") \o NearbyText \o Check("error")
    \o Times(n, Try) \o SoftText \o Arm \o Check("undoable") \o FindText \o Move("error") \o NearbyText \o Tidy \o Report(n)
\* _bundle_paragraph_join_next_exact: n Delete and perhaps a BreakLine, which its n Undo calls leave out
ParagraphJoinNext(n, breaks) ==
    Check("error") \o SoftText \o FindText \o Read("error") \o Move("error") \o NearbyText \o Check("error")
    \o Times(n, Try) \o (IF breaks THEN Try ELSE <<>>) \o SoftText \o Arm \o Check("undoable")
    \o FindText \o FindText \o Move("error") \o NearbyText \o Tidy \o Report(n)
ParagraphBackOut == Revert \o Tidy

\* _bundle_paragraph_style_apply_exact, _bundle_style_inspect
ParagraphStyleApply ==
    Check("error") \o SoftText \o FindText \o Read("error") \o Try \o Read("error") \o Peek("error") \o Tidy \o Report(1)
StyleInspect == Check("error") \o Visit \o Tidy

-----------------------------------------------------------------------------
\* _table_structure_require: the table and the cell, read before each native call
StructureRequire == Read("error") \o Check("error")
\* _table_structure_grid walks the cells of the table.
StructureGrid == Move("error") \o Read("error") \o Check("error")
\* _table_structure_goto_and_require
StructureGoto == Move("error") \o StructureRequire
\* _table_structure_run_action through _table_structure_native: one entry point, once
StructureNative == Act
\* _table_structure_mutate: rows and columns, each repeat from the target cell again
RowColMutate(n) == StructureRequire \o StructureNative \o Times(n - 1, StructureGoto \o StructureNative)
\* The block is read back before TableMergeCell, and cancelled after it.
MergeMutate == StructureRequire \o Move("error") \o Read("error") \o Check("error") \o StructureNative \o Visit
\* TableSplitCell does not go through _table_structure_native, which counts.
SplitMutate == StructureRequire \o Act
\* parse_request and check_plan, evaluate_change over the two grids
StructurePlan   == Check("error")
StructureChange == Peek("error")
\* _bundle_table_structure_exact; n: the edits that were counted
TableStructure(mutate, n) ==
    ResolveControl \o Check("error") \o EnterCell \o StructureGrid \o StructurePlan \o StructureGoto \o mutate
    \o EnterCell \o StructureGrid \o StructureChange \o Tidy \o Report(n)

-----------------------------------------------------------------------------
\* insert_native_table_at_cursor, _fill of its cells through a field
InsertNativeTable == Check("error") \o Try \o Move("error") \o Try \o Try
\* _insert_text_file_at_caret: one call for each line and each break of the text
InsertTextAtCaret(n) == Times(n, Try)
\* _find_occurrences for the three anchors, and their order
AnchorRange == Times(3, Move("error")) \o Check("error") \o Move("error") \o Read("error") \o Check("error")
\* anchor_range_replace_native_table: a failure after the deletion runs one Undo.
AnchorRangeReplace(caption) ==
    Read("error") \o Check("error") \o AnchorRange \o Try \o Arm
    \o (IF caption THEN Phase("try", "undoable") ELSE <<>>)
    \o Check("undoable") \o Phase("try", "undoable") \o Move("undoable") \o Phase("try", "undoable")
    \o Report(1)
AnchorRangeBack == Revert
\* native_table_insert, set_text_file, anchor_insert: nothing is compared afterwards.
NativeTableInsert == InsertNativeTable \o Visit \o Report(1)
\* _capture_set_text_file_target_readback: a mismatch is a warning.
TargetReadback == Visit \o Tidy
SetTextFile(n) == Check("error") \o InsertTextAtCaret(n) \o TargetReadback \o Report(1)
\* _perform_anchor_insert; after-paragraph breaks the paragraph first
AnchorInsert(breaks) == Check("error") \o Move("error") \o (IF breaks THEN Try ELSE <<>>) \o InsertTextAtCaret(1) \o Report(1)
\* selected_text_delete_exact: the exact text is selected; after the deletion nothing is compared.
SelectedTextDelete == Read("error") \o Check("error") \o Check("error") \o Read("error") \o Check("error") \o Try \o Report(1)

-----------------------------------------------------------------------------
\* save_document and export_document_pdf
SaveDocument == Read("error")
ExportToPdf  == Read("error") \o Check("error")
\* hwp_action: allowed navigation only; its status is reported, not judged.
HwpAction   == Check("error") \o Move("error")
\* pyhwpx_call: the same, with the result that must be previewable
PyhwpxCall  == Check("error") \o Move("error") \o Check("error")
\* _capture_selected_text_proof_for_bundle restores the selection that the read lost.
GetSelectedText == Read("error") \o Check("error") \o Home("error")
\* selection_proof, context, readback, typography_overview, layout_inspect, where: reports
SelectionProof     == Visit \o Tidy
ContextProbes      == Visit \o Tidy
ContextReport      == ContextProbes \o Visit
Readback           == ContextReport \o Visit \o Tidy
TypographyOverview == Read("error") \o Check("error")
LayoutInspect      == Read("error") \o Check("error")
Where              == Read("error") \o Visit
=============================================================================
