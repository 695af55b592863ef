----------------------------- MODULE ControlSteps -----------------------------
(***************************************************************************)
(* The commands over one control that is bound by its proof hash           *)
(* (app/local_cli_bundle_controls.py).  Their packages publish intent      *)
(* before the engine is called, so that every failure is held; none of     *)
(* them is ever a refusal.                                                 *)
(***************************************************************************)
EXTENDS StepPrograms

\* _bundle_page_evidence: a page that cannot be read is no page.
PageEvidenceSoft == Visit
\* _bundle_control_proof_item, for every control of the list
ProofItems == Read("error") \o Visit \o Tidy
\* _bundle_find_anchor_evidence
AnchorEvidence == Visit \o Tidy \o Check("error")
\* _capture_control_map_signature, _assert_control_map_unchanged
ControlMap          == Read("error")
ControlMapUnchanged == Check("undoable")
\* _bundle_select_control_exact: a weaker proof of selection is accepted.
SelectControl == Visit \o Visit
\* _bundle_resolve_control_target: found once, same hash, same page, in scope
ResolveControl == Check("error") \o AnchorEvidence \o ProofItems \o Check("error")

\* _bundle_enter_table_cell_for_ctrl, and the caller's check that it worked
EnterCell == Visit \o Check("error")
\* _bundle_native_cell_margin_readback, _bundle_table_cell_metrics
CellMargins == Read("error")
CellMetrics == Visit \o Read("error") \o Tidy
\* _bundle_cell_vertical_align
VerticalAlign == Visit

\* _bundle_control_inventory, _bundle_table_frame_inventory
ControlInventory    == Check("error") \o ProofItems
TableFrameInventory == Check("error") \o ProofItems \o Visit \o Tidy
\* _bundle_exact_control_select_proof with _bundle_navigation_probe
NavigationProbes   == Visit
SelectProof        == ResolveControl \o SelectControl \o Check("error") \o NavigationProbes
\* _bundle_table_cell_structure_exact
TableCellStructure == ResolveControl \o CellMetrics \o EnterCell \o Read("error") \o Tidy

-----------------------------------------------------------------------------
\* _bundle_table_width_snapshot
WidthSnapshot(c) == Visit \o Check(c) \o Read(c) \o Tidy
\* _bundle_set_table_column_widths: False is an error, None is not.
SetColumnWidths == Act
\* The hashes and counts the caller bound, the file on disk, text, controls, BinData, widths
ColumnWidthGuards ==
    Check("error") \o ResolveControl \o Check("error") \o Check("error") \o Read("error") \o Check("error")
    \o ControlMap \o Check("error") \o Read("error") \o Check("error") \o WidthSnapshot("error") \o Check("error")
\* The readback, each part of which undoes the edit when it does not agree
ColumnWidthProof ==
    WidthSnapshot("undoable") \o Read("undoable") \o Read("undoable") \o Peek("undoable") \o ControlMapUnchanged
\* _bundle_table_column_width_exact; its rollback writes the old widths again.
TableColumnWidth == ColumnWidthGuards \o EnterCell \o SetColumnWidths \o Arm \o ColumnWidthProof \o Tidy \o Report(1)
ColumnWidthBack  == EnterCell \o Revert \o Tidy

-----------------------------------------------------------------------------
\* _bundle_set_cell_margin_values
SetCellMargins == Check("error") \o Act
\* _bundle_apply_cell_fill_color, _bundle_apply_cell_border_none: a failed Execute or
\* readback writes the old value once.
FillReadback    == Peek("undoable")
BorderReadback  == Peek("undoable")
ApplyFillColor  == Check("error") \o Read("error") \o Arm \o ActOr("undoable") \o FillReadback
ApplyBorderNone == Check("error") \o Read("error") \o Arm \o ActOr("undoable") \o BorderReadback
\* HAction.Run of TableVAlign...
RunVerticalAlign == Check("error") \o Act
FillBack   == Revert
BorderBack == Revert
\* The cell is measured, and what is already there is an error.
CellFormatTarget == Check("error") \o ResolveControl \o CellMetrics \o Check("error") \o EnterCell \o Visit \o Check("error")
\* The metrics, the number of controls and the target once more
CellFormatProof == Tidy \o CellMetrics \o Peek("mutation") \o Read("mutation") \o Check("mutation")
                   \o ProofItems \o Check("mutation")
\* _bundle_cell_format_exact
CellFormat(apply) == CellFormatTarget \o apply \o CellFormatProof \o Report(1)

\* _bundle_page_table_items
PageTableItems == ProofItems
\* TableLowerCell, up to three attempts each
MoveDownRows(n) == Times(n, Move("error"))
\* _run_table_split_action
RunTableSplit == Retried
\* _bundle_table_split_exact, _table_split_exact_phases
TableSplit(rows) ==
    ResolveControl \o CellMetrics \o PageTableItems \o EnterCell \o MoveDownRows(rows) \o Check("error")
    \o RunTableSplit \o PageTableItems \o Differs("error") \o Tidy \o Report(1)

\* The same target rules, written out once more in these commands
RowFitTarget == Check("error") \o AnchorEvidence \o ProofItems \o Check("error") \o CellMetrics \o Check("error") \o EnterCell
\* set_row_height; or set_para and CharShape; or n times TableResize: no status is read.
RowFitEdits(n) == Check("error") \o Times(n, Try) \o Tidy
\* Only that a value differs, and the same number of controls
RowFitProof == CellMetrics \o Differs("error") \o ControlMap \o Check("error") \o ProofItems \o Check("error")
\* _bundle_cell_row_fit_exact
CellRowFit(n) == RowFitTarget \o RowFitEdits(n) \o RowFitProof \o Report(n)

MoveResizeTarget ==
    Check("error") \o AnchorEvidence \o ProofItems \o Check("error") \o Read("error") \o Check("error") \o SelectControl
MoveResizeProof == Read("error") \o ControlMap \o Check("error") \o ProofItems \o Check("error") \o Differs("error")
\* _bundle_control_move_resize_exact: the properties are assigned at once.
ControlMoveResize == MoveResizeTarget \o Try \o MoveResizeProof \o Report(1)

\* The text without spaces before and after; a text that could not be read is no text.
JoinControlTarget == Check("error") \o ProofItems \o Check("error") \o Move("error")
\* _bundle_control_join_previous_exact
ControlJoinPrevious(n) ==
    JoinControlTarget \o Times(n, Try) \o Arm \o Check("undoable") \o ControlMap \o Check("error")
    \o ProofItems \o Check("error") \o Report(n)
\* As many Undo calls as there were deletions, failures ignored
JoinControlBack == Revert

DeleteControlTarget == Check("error") \o AnchorEvidence \o ProofItems \o Check("error") \o Move("error")
\* _bundle_control_delete_exact: that hash is gone, and one control less.
ControlDelete == DeleteControlTarget \o Try \o ProofItems \o Peek("error") \o ControlMap \o Check("error") \o Report(1)
=============================================================================
