--------------------------- MODULE EditOperations ---------------------------
(***************************************************************************)
(* The operations of a queued edit job (app/edit_ops.py), as programs of   *)
(* StepPrograms.  An operation finds its targets in the document or is     *)
(* addressed by a position; every native call in it may raise, and what    *)
(* raises ends the job's run.  n is the number of targets the document     *)
(* holds; 'required' is MATCH_REQUIRED_OPS without allow_zero_match; 'may' *)
(* is what a call that raised nothing can have made of the document.       *)
(***************************************************************************)
EXTENDS DirectSteps

\* A readback: the edit issued k before the last one shows there.  It tells the edit from
\* a silent failure only when the request asks for it and the text it looks for was not
\* there before: containment, or words in common, is enough (_selected_text_matches_expected).
Shows(k, tells) == IF tells THEN <<[do |-> "shows", raises |-> "error", n |-> k]>> ELSE <<>>

\* How many edits the operation has issued before phase i.
Issued(p, i) == Cardinality({k \in 1..(i - 1) : p[k].do \in EditPhases})

\* What became of the edits so far: those that took effect, whether one did so more than
\* once, and whether something nobody asked for happened.
Untouched == [took |-> {}, twice |-> FALSE, odd |-> FALSE]
Took(s, e) == [s EXCEPT !.took = @ \cup {e}]

\* Where phase i may leave the document s when it does not raise.
Passes(p, i, s) ==
    LET e == Issued(p, i) + 1
        strayed == [s EXCEPT !.odd = TRUE]
    IN  CASE p[i].do = "act"     -> {Took(s, e), strayed}
          [] p[i].do = "try"     -> {Took(s, e), strayed, s}
          [] p[i].do = "retry"   -> {Took(s, e), strayed, s, [Took(s, e) EXCEPT !.twice = TRUE]}
          [] p[i].do = "shows"   -> IF Issued(p, i) - p[i].n \in s.took THEN {s} ELSE {}
          [] OTHER               -> {s}

\* What an operation that raised nothing may have done.
Did(p, s) ==
    IF s.odd THEN "odd"
    ELSE IF s.took = 1..Acts(p) THEN (IF s.twice THEN "over" ELSE "whole")
    ELSE IF s.took = {} THEN "none" ELSE "short"

Outcomes(p) ==
    LET after[i \in 0..Len(p)] ==
            IF i = 0 THEN {Untouched} ELSE UNION {Passes(p, i, s) : s \in after[i - 1]}
    IN  {Did(p, s) : s \in after[Len(p)]}

-----------------------------------------------------------------------------
\* _find_matches: the candidates of _build_find_candidates from the start of the document,
\* each match handed to the operation and the caret moved behind it.
Searched(each, n) == Move("error") \o Times(n, Move("error") \o each \o Move("error"))

Operation(op, required, n, body) ==
    [op |-> op, required |-> required, refused |-> FALSE, n |-> n, reads |-> "nothing", may |-> Outcomes(body)]

\* Of the operations' edits, the request has all read back, some or none.
Reading(reads, ops) == {[o EXCEPT !.reads = reads] : o \in ops}
SomeIf(tells) == IF tells THEN "some" ELSE "nothing"

Found(op, required, pre, each) ==
    {Operation(op, required, n, pre \o Searched(each, n)) : n \in 0..2}
Addressed(op, required, body) == {Operation(op, required, 1, body)}

\* insert_text, set_font, set_para, set_charshape and set_parashape: the status is not read.
TypeText == Try
SetShape == Try
\* _select_whole_paragraph_for_current_selection and its like
WholeParagraph == Move("error")
\* _snapshot_cursor_context reads what it can.
CursorContext == Visit
\* _guard_against_packed_paragraph
PackedGuard == Move("error") \o Read("error") \o Check("error")

\* _safe_replace_matches.  With expected_present_after the new text must be in the
\* paragraph, or oftener in the document than before; with expected_absent_after, unless
\* that is the new text, the old one must occur less often than before.
ReplaceEach(paragraph, present, absent) ==
    PackedGuard \o Read("error") \o (IF paragraph THEN WholeParagraph ELSE <<>>)
    \o DeleteSelection \o TypeText \o Shows(0, present) \o Shows(1, absent)
\* _safe_replace_between_anchors
BetweenEach ==
    PackedGuard \o WholeParagraph \o Read("error") \o Check("error") \o DeleteSelection \o TypeText
\* _safe_replace_paragraph_range
RangeEach ==
    PackedGuard \o WholeParagraph \o Move("error") \o Check("error") \o WholeParagraph \o Check("error")
    \o Move("error") \o DeleteSelection \o TypeText

\* _capture_char_shape and _capture_paragraph_shape; a source that is not found ends the
\* operation with no match, which is the n = 0 of Found.
CaptureShape == Move("error") \o Read("error") \o Check("error")
CloneEach(paragraph) == (IF paragraph THEN WholeParagraph ELSE <<>>) \o SetShape
\* _apply_style_text, _apply_align_paragraph and _apply_paragraph_shape
StyleText      == SetShape
AlignParagraph == SetShape
ParagraphShape == SetShape
\* _apply_style_text_in_paragraph
StyleInParagraph == WholeParagraph \o Read("error") \o Check("error") \o Move("error") \o SetShape

\* _apply_native_list_kind_current: PutBullet is tried by two entry points and then as a
\* shape, the numbers by one; the level and the source's shape follow.
ListKind(bullet, shaped) == (IF bullet THEN Retried ELSE Try) \o (IF shaped THEN SetShape ELSE <<>>)
\* _apply_list_paragraph
ListParagraph(bullet, shaped) == WholeParagraph \o ListKind(bullet, shaped)
\* _apply_replace_empty_native_list_scaffold: the text of the j-th item is read back, its list format is not.
ScaffoldItem(bullet, j, tells) == Move("error") \o ListKind(bullet, FALSE) \o Shows(j, tells)
Scaffold(empty, bullet, tells) ==
    CursorContext \o (IF empty THEN Visit ELSE WholeParagraph \o Check("error") \o DeleteSelection)
    \o TypeText \o ScaffoldItem(bullet, 1, tells) \o ScaffoldItem(bullet, 2, tells)

\* _apply_native_action: NativeActionRunner, and the result must have succeeded
NativeAction == CursorContext \o ActOr("error") \o CursorContext
CursorInsert(deletes) ==
    Check("error") \o Move("error") \o (IF deletes THEN DeleteSelection ELSE <<>>) \o TypeText \o CursorContext
\* _select_cursor_range and the text that is expected there
CursorRange   == Check("error") \o Move("error") \o Move("error") \o Read("error") \o Check("error")
CursorReplace == CursorRange \o DeleteSelection \o TypeText \o CursorContext
CursorDelete  == CursorRange \o DeleteSelection \o CursorContext

-----------------------------------------------------------------------------
\* _scan_tables_for_fingerprint enters up to 64 tables; what it cannot enter is skipped.
ScanTables == Visit
\* _move_to_table_identity: the cell at the position, or the table with the fingerprint, then the cell in it
TableIdentity == Move("error") \o CursorContext \o ScanTables \o Check("error") \o Move("error") \o Check("error")
\* _verify_table_snapshot
VerifySnapshot == Check("error")
\* _apply_cursor_snapshot
CursorSnapshot == TableIdentity \o CursorContext \o Check("error")
\* _inventory_controls_at_cell
ControlsAtCell == Read("error") \o Check("error")
\* _apply_control_delete_by_anchor: where the caret is, or at cursor_pos; _delete_ctrl's
\* answer is recorded, the control must be gone from where it was.
ControlDeleteByAnchor(at) ==
    at \o Check("error") \o ControlsAtCell \o Check("error") \o Move("error") \o Try \o CursorContext \o Shows(0, TRUE)
CellAction == TableIdentity \o WholeParagraph \o Check("error") \o TableCellAction \o VerifySnapshot

\* _apply_table_patch_cells: the entry decides, before anything is written, whether this
\* is the table; an entry that is not goes on to the next match.
PatchEntry == TableIdentity \o Visit \o Check("error") \o Visit
\* Mutant: the cell that was written is not read back.
PatchCell_NoReadback(tells) ==
    MoveToCellScoped \o Check("error") \o ClearCellText \o VerifySnapshot \o TypeText \o Check("error")
PatchCell(tells) ==
    MoveToCellScoped \o Check("error") \o ClearCellText \o VerifySnapshot \o TypeText \o Check("error")
    \o SelectCellContents \o VerifySnapshot \o Shows(0, tells) \o Visit
PatchCells(others, n, tells) == Move("error") \o Times(others, Visit) \o PatchEntry \o Times(n, PatchCell(tells))

CellClear == Check("error") \o TableIdentity \o ClearCellText \o VerifySnapshot
\* _capture_post_write_proof: with an expected_selected_text_present_any_after that was not there
PostWriteProof == MoveToCellScoped \o SelectCellContents \o VerifySnapshot \o Shows(0, TRUE)
\* _apply_table_cell_replace_text: through the cell's field when its name is unique in the document ...
PutFieldText == Visit \o Move("error") \o Retried \o Move("error") \o Check("error") \o VerifySnapshot
\* ... or by clearing and typing; the text that was expected is compared after the clear.
TypeIntoCell == WholeParagraph \o TableIdentity \o ClearCellText \o Check("error") \o VerifySnapshot \o TypeText \o Check("error")
CellReplaceText(byField, proved) ==
    TableIdentity \o Visit \o (IF byField THEN PutFieldText ELSE TypeIntoCell) \o (IF proved THEN PostWriteProof ELSE <<>>)

-----------------------------------------------------------------------------
\* require_queued_job_runtime_support: page_number and official_numbering are refused.
RefusedOperation == [Operation("page_number", FALSE, 1, <<>>) EXCEPT !.refused = TRUE]

\* replace_paragraph_safe and paragraph_replace_native: the two expectations are optional.
ParagraphReplacements ==
    UNION {Reading(IF present /\ absent THEN "all" ELSE SomeIf(present \/ absent),
                   Found(op, TRUE, <<>>, ReplaceEach(TRUE, present, absent))) :
              op \in {"replace_paragraph_safe", "paragraph_replace_native"},
              present \in BOOLEAN, absent \in BOOLEAN}

Replacements ==
    UNION {ParagraphReplacements,
           Found("replace_all", FALSE, Check("error"), ReplaceEach(FALSE, FALSE, FALSE)),
           Found("replace_text_safe", TRUE, <<>>, ReplaceEach(FALSE, FALSE, FALSE)),
           Found("replace_paragraph_range_safe", TRUE, <<>>, RangeEach),
           Found("replace_between_anchors_safe", TRUE, Check("error"), BetweenEach),
           Found("insert_after_text", FALSE, <<>>, ReplaceEach(FALSE, FALSE, FALSE)),
           Found("insert_before_text", FALSE, <<>>, ReplaceEach(FALSE, FALSE, FALSE)),
           Addressed("insert_at_document_end", FALSE, Move("error") \o TypeText)}

Shapes ==
    UNION {Found("clone_text_style", TRUE, CaptureShape, CloneEach(FALSE)),
           Found("clone_paragraph_shape", TRUE, CaptureShape, CloneEach(TRUE)),
           Found("clone_paragraph_layout", FALSE, CaptureShape, CloneEach(TRUE)),
           Found("style_text", TRUE, Check("error"), StyleText),
           Found("align_paragraph", TRUE, Check("error"), AlignParagraph),
           Found("paragraph_shape", TRUE, Check("error"), ParagraphShape),
           Found("style_text_in_paragraph", FALSE, Check("error"), StyleInParagraph),
           Found("list_paragraph", TRUE, CaptureShape, ListParagraph(TRUE, TRUE)),
           Found("list_paragraph", TRUE, <<>>, ListParagraph(FALSE, FALSE))}

Addresses ==
    UNION {Reading(SomeIf(tells), Addressed("replace_empty_native_list_scaffold", TRUE, Scaffold(empty, TRUE, tells))) :
               empty \in BOOLEAN, tells \in BOOLEAN} \cup
    UNION {Found("native_action", TRUE, <<>>, WholeParagraph \o NativeAction),
           Addressed("cursor_insert_text", FALSE, CursorInsert(TRUE)),
           Addressed("cursor_replace_text", FALSE, CursorReplace),
           Addressed("cursor_delete_range", FALSE, CursorDelete),
           Addressed("cursor_snapshot", FALSE, CursorSnapshot)}

DeletesByAnchor ==
    Reading("all", Addressed("control_delete_by_anchor", FALSE, ControlDeleteByAnchor(TableIdentity))
                   \cup Found("control_delete_by_anchor", FALSE, <<>>, ControlDeleteByAnchor(CursorContext)))

Cells ==
    UNION {Reading(SomeIf(tells), Addressed("table_cell_replace_text", TRUE, CellReplaceText(byField, tells))
                                  \cup Addressed("table_patch_cells", TRUE, PatchCells(1, 2, tells))) :
               byField \in BOOLEAN, tells \in BOOLEAN} \cup
    UNION {DeletesByAnchor,
           Addressed("table_cell_action", TRUE, CellAction),
           Addressed("table_cell_clear_text", FALSE, CellClear),
           {Operation(op, TRUE, 0, Move("error")) : op \in {"table_patch_cells", "table_cell_replace_text"}}}

EditOps == Replacements \cup Shapes \cup Addresses \cup Cells \cup {RefusedOperation}
=============================================================================
