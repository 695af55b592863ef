----------------------------- MODULE DirectSteps -----------------------------
(***************************************************************************)
(* The commands of LocalCliService that are one request each, outside any  *)
(* bundle (app/local_cli_service.py), with the helpers of app/edit_ops.py  *)
(* they call on the owning thread.  What they leave in the selection and   *)
(* in the undo list is the subject of Selection and EditHistory; here they *)
(* are the programs whose failures the runtime judges.                     *)
(***************************************************************************)
EXTENDS LegacySteps

\* _ensure_active_working_copy: the live path is the managed one, or the copy is opened.
ActiveWorkingCopy == Visit \o Check("error")
\* _find_live_match: the candidates are searched and selected until one is the target.
FindLiveMatch == Move("error") \o Read("error") \o Check("error")
\* _selection_end_pos, _move_to_anchor_insert_position; after-paragraph tries to reach the line's end.
AnchorPosition(breaks) ==
    Check("error") \o FindLiveMatch \o Check("error") \o Move("error") \o (IF breaks THEN Visit ELSE <<>>)

\* _move_to_cell_scoped and _resolve_current_table_cell_for_replacement
MoveToCellScoped == Check("error") \o Move("error") \o Read("error") \o Check("error")
ResolveCell == Check("error") \o Read("error") \o MoveToCellScoped \o Read("error") \o Check("error") \o Visit
\* _run_table_cell_action: HAction.Run, the method, or the other method names, until one is accepted
TableCellAction == Move("error")
\* _select_current_cell_contents: the block, or the field of the cell when the block fails
SelectCellContents == Read("error") \o Check("error") \o TableCellAction \o Read("error") \o Check("error")
\* _delete_selection tries nine calls until one neither raises nor answers False.
DeleteSelection == Retried
\* _clear_current_cell_text
ClearCellText ==
    Read("error") \o Check("error") \o SelectCellContents \o Read("error") \o Check("error")
    \o DeleteSelection \o Read("error") \o Check("error")
\* _build_raw_target_readback, strict: the text of the target must be the intended text.
RawReadback == Peek("error")

\* cell_replace: the cell by its anchor, by its address, or both; the control map must not change.
CellTarget(byAnchor, byAddress) ==
    (IF byAnchor THEN FindLiveMatch \o Read("error") ELSE <<>>) \o (IF byAddress THEN ResolveCell ELSE <<>>)
    \o Check("error") \o Visit \o Check("error")
CellSelected == SelectCellContents \o Read("error") \o Check("error")
CellReplace(byAnchor, byAddress) ==
    CellTarget(byAnchor, byAddress) \o CellSelected \o Visit \o ClearCellText \o InsertTextAtCaret(1)
    \o CellSelected \o Visit \o Check("error") \o RawReadback \o Visit \o Report(2)

\* type_text over the live selection, over the remembered range, or at the caret
TypeOverSelection(remembered) ==
    Check("error") \o (IF remembered THEN Move("error") ELSE <<>>) \o Read("error") \o DeleteSelection \o InsertTextAtCaret(1)
    \o Visit \o Report(2)
TypeAtTheCaret == Check("error") \o Read("error") \o InsertTextAtCaret(1) \o Visit \o Report(1)

\* _run_single_action: one call, which is not followed by another when it fails
RunSingleAction == ActOr("error")
BreakParagraph  == RunSingleAction
\* anchor_insert as a command of its own
AnchorInsertCommand(breaks) ==
    ActiveWorkingCopy \o AnchorPosition(breaks) \o (IF breaks THEN BreakParagraph ELSE <<>>) \o InsertTextAtCaret(1) \o Visit \o Report(1)

\* _normalize_image_options and _stage_image_upload run before the command is queued;
\* _insert_picture_with_available_method goes through the forms of the call until one is accepted.
InsertPicture == Retried
\* _capture_current_control_id
CurrentControl == Visit
ImageUpload   == ActiveWorkingCopy \o InsertPicture \o Visit \o Report(1)
ImageAtAnchor == ActiveWorkingCopy \o Visit \o AnchorPosition(FALSE) \o InsertPicture \o CurrentControl \o Visit \o Report(1)
\* figure_section: heading and intro, the picture, caption and body; nothing is read back.
FigureSection(picture) ==
    ActiveWorkingCopy \o Visit \o AnchorPosition(FALSE) \o InsertTextAtCaret(1)
    \o (IF picture THEN InsertPicture \o CurrentControl ELSE <<>>) \o InsertTextAtCaret(1) \o Visit \o Report(1)

\* apply_char_style: set_font, and CharShape when it raised or answered False
ApplyCharStyle == Retried
\* font_size and font_family need a confirmed selection; bold finds it again first.
SelectedForStyle == Read("error") \o Check("error")
FontCommand == SelectedForStyle \o ApplyCharStyle \o Visit \o Report(1)
\* _find_live_match or _restore_selected_range, and the text must be the selected one
SelectAgain == Move("error") \o Read("error") \o Check("error")
BoldCommand == SelectAgain \o ApplyCharStyle \o Visit \o Report(1)

\* _select_whole_paragraph_for_current_selection and PutBullet
ApplyBullet == Move("error") \o RunSingleAction
Bullet(selected) ==
    Check("error") \o Read("error") \o (IF selected THEN DeleteSelection ELSE Read("error") \o BreakParagraph) \o InsertTextAtCaret(1)
    \o Read("error") \o ApplyBullet \o Move("error") \o Visit \o Report(1)
\* create_table_at_cursor: create_table, or the action where there is no such method
CreateTable == Check("error") \o ActOr("error") \o Visit \o Report(1)
\* insert_numbered_list_at_cursor: render_numbered_list_text is typed as one paragraph.
ListItems == Check("error") \o InsertTextAtCaret(1) \o Visit \o Report(1)

-----------------------------------------------------------------------------
\* _resolve_public_macro_leaf and the call; what it did is not known.
Pycall == Check("error") \o Read("error") \o Check("error") \o Try \o Check("error")
\* _media_inventory_readback and media_inventory
MediaInventory(c) == Read(c) \o Check(c)
\* action: refuses when the pictures cannot be counted or the caret moved; runs once;
\* what became of the pictures is reported.
Action(guards) ==
    Check("error") \o (IF guards THEN Read("error") \o MediaInventory("clean") \o Check("clean") ELSE <<>>)
    \o Try \o (IF guards THEN Visit ELSE <<>>)

-----------------------------------------------------------------------------
\* move and select, the handlers: find, select and compare with the request
MoveTo     == FindLiveMatch \o Move("error") \o Visit
SelectText == FindLiveMatch \o Read("error") \o Check("error") \o Visit
\* _require_caret_in_cell, _select_current_cell, _run_cell_move and _run_caret_move
CaretInCell == Read("error") \o Check("error")
SelectCell  == CaretInCell \o Move("error") \o Read("error") \o Visit
CellMove    == CaretInCell \o Move("error") \o Read("error") \o Check("error") \o Visit
CursorMove  == Read("error") \o Move("error") \o Read("error") \o Visit

\* _get_live_document_text, _live_paragraph_records and find: hits in the text, each looked up in the document
FindInDocument == Read("error") \o Check("error") \o Visit \o Tidy
InfoCommand  == Read("error") \o Visit
WhereCommand == Read("error") \o Visit
\* capture_screenshot_artifact
Screenshot == Read("error") \o Check("error") \o Visit
\* numbering_readback: the caret, the census and the controls; what cannot serve as
\* evidence is reported as unavailable, a native exception is not.
NumberingFacts == Times(3, Read("error"))
\* _table_review_facts: the tables' pages are visited, and the caret must come back.
TableReviewFacts == Read("error") \o Move("error") \o Home("error")
NumberingReadback == NumberingFacts \o TableReviewFacts

\* _cell_margins_assert_document and _cell_margins_document_generation
MarginsDocument == Read("refusal") \o Check("refusal") \o Check("refusal")
\* _cell_margins_resolve_target: the control inventory, complete and with one match
MarginsTarget == Move("refusal") \o Read("refusal") \o Check("refusal")
\* _cell_margins_get_native: the cell is entered, read, and everything is compared again
MarginsWalk == Move("refusal") \o Read("refusal") \o Check("refusal") \o MarginsTarget \o MarginsDocument
MarginsHome == Home("clean") \o Same("clean")
CellMarginsGet ==
    Check("error") \o Read("refusal") \o Check("refusal") \o Arm \o MarginsDocument \o MarginsTarget \o MarginsWalk \o MarginsHome \o Visit
CellMarginsBack == Tidy
=============================================================================
