------------------------------ MODULE TextSteps ------------------------------
(***************************************************************************)
(* Replacing one exact range of text, and the text of whole table cells    *)
(* (app/native_text_edit.py, app/local_cli_bundle_text.py).                *)
(***************************************************************************)
EXTENDS StepPrograms

\* _strict_target_state: a state that cannot be read is unknown, never a refusal.
StrictTargetState == Read("read")

\* native_numbering_census: where page numbers restart, and the definitions that
\* paragraphs refer to; what cannot be resolved leaves the census incomplete.
PageRestarts(c)       == Check(c)
ResolveDefinitions(c) == Check(c)
\* parse_hwpml2x_census, then _validated_census and _require_complete
ParseCensus(c)     == PageRestarts(c) \o ResolveDefinitions(c) \o Check(c)
ValidatedCensus(c) == Check(c)
Census(c)          == ParseCensus(c) \o ValidatedCensus(c)

\* native_format: the tables of shapes, the atoms of a paragraph, and the model of both
ShapeTables(c)      == Check(c)
ParagraphAtoms(c)   == Check(c)
ParseFormatModel(c) == ShapeTables(c) \o ParagraphAtoms(c)

\* parse_table_model: the facts of a cell and its frame, then the grid they must form.
CellFacts(c)       == Check(c)
ParseTableModel(c) == CellFacts(c) \o Check(c)

\* _text_read_state: one text, from which census and models are parsed.
TextReadState == Read("refusal") \o Census("refusal") \o ParseFormatModel("refusal") \o ParseTableModel("refusal")

\* _give_back and the evidence read again: restored() of the wrappers.
GiveBack == Home("error")
Restored == GiveBack \o Same("error")

\* _insert, _delete: the status must be the documented True.
Insert == Read("mutation") \o Act
Delete == Act

\* _select_words, _caret_at: before the first edit a refusal, after it a mutation error.
SelectWords(c) == Move(c) \o Read(c)
CaretAt(c)     == Move(c) \o Read(c)

\* validate_replace_step, validate_cell_text_step
ValidateReplace  == Check("error")
ValidateCellText == Check("error")

\* _resolve, _require_range
ResolveRange == Check("refusal") \o Check("refusal")

\* nf._select: the old text is selected, read, and on the expected page.
SelectRange == Move("refusal") \o Read("refusal") \o Read("refusal")

\* _replace_problems with _definition_problems: every other paragraph as it was
ReplaceProblems == Verify

\* apply_replace
ApplyReplace ==
    TextReadState \o Check("refusal") \o ResolveRange \o SelectRange \o CaretAt("refusal")
    \o Publish \o Insert \o SelectWords("mutation") \o Delete \o Read("mutation")
    \o ReplaceProblems \o CaretAt("mutation") \o Report(2)

\* _bundle_text_replace_exact
TextReplaceExact == ValidateReplace \o StrictTargetState \o TextReadState \o Arm \o ApplyReplace

-----------------------------------------------------------------------------
\* _plan_cell
PlanCell == Check("refusal")

\* _cell_list: goto_cell and the list the caret is then in.
CellList(c) == Move(c) \o Read(c)

\* The first pass proves every cell before anything is written.
ProveCell(blank) ==
    CellList("refusal")
    \o (IF blank THEN <<>> ELSE CaretAt("refusal") \o SelectWords("refusal")) \o Move("refusal")

WriteCell(blank, first) ==
    LET c == IF first THEN "refusal" ELSE "mutation"
    IN  CellList(c) \o Check(c) \o CaretAt(c) \o Publish \o Insert
        \o (IF blank THEN <<>> ELSE SelectWords("mutation") \o Delete \o Read("mutation"))

\* _cell_problems, _written_problems
CellProblems == Verify

\* apply_cell_text, for one cell and for two
ApplyCellText(b1) ==
    TextReadState \o Check("refusal") \o PlanCell \o Move("refusal") \o ProveCell(b1)
    \o WriteCell(b1, TRUE) \o Move("mutation") \o CellProblems \o Home("mutation")
    \o Report(IF b1 THEN 1 ELSE 2)

ApplyTwoCells(b1, b2) ==
    TextReadState \o Check("refusal") \o PlanCell \o PlanCell \o Move("refusal")
    \o ProveCell(b1) \o ProveCell(b2) \o WriteCell(b1, TRUE) \o WriteCell(b2, FALSE)
    \o Move("mutation") \o CellProblems \o Home("mutation")
    \o Report((IF b1 THEN 1 ELSE 2) + (IF b2 THEN 1 ELSE 2))
=============================================================================
