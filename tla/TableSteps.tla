----------------------------- MODULE TableSteps -----------------------------
(***************************************************************************)
(* The guarded table commands (app/native_table.py and its wrapper         *)
(* app/local_cli_bundle_tables.py).                                        *)
(***************************************************************************)
EXTENDS TextSteps

\* _table_read_state: the text, its census and model, then the controls.
TableReadState == Read("refusal") \o Census("refusal") \o ParseTableModel("refusal") \o Read("refusal")

\* resolve_table; require_binding comes once the table's page is known.
ResolveTable == Check("refusal")
RequireBinding == Check("refusal")

\* validate_edit_step, validate_style_step, validate_width_step, validate_create_step
ValidateEdit   == Check("error")
ValidateTableStyle == Check("error")
ValidateWidth  == Check("error")
ValidateCreate == Check("error")

\* plan_edit: which cells there must be afterwards
PlanInsert == Check("refusal")
PlanDelete == Check("refusal")
PlanMerge  == Check("refusal")
PlanSplit  == Check("refusal")

\* plan_style, plan_width, and where a new table goes
PlanStyle    == Check("refusal")
PlanWidth    == Check("refusal")
CreateAnchor == Check("refusal")

\* edit_problems, style_problems, width_problems, _new_table_problems: the table;
\* document_problems: everything that is not the table.
EditProblems       == Verify
TableStyleProblems == Verify
WidthProblems      == Verify
NewTableProblems   == Verify
OutsideTable       == Verify

\* table_pages visits the anchors; then the caret is given back.
TablePages(c) == Move(c)
EnterTable(c) == Move(c) \o Read(c)
GotoCell(c)   == Move(c) \o Read(c)
SelectBlock(c) == GotoCell(c) \o Move(c) \o Read(c)

\* _table_mutation: restored() first cancels the block.
TableBack == Move("error") \o GiveBack \o Same("error")

\* _table_mutation: validation, the caret, the census to compare with.
TableMutation(validate, apply) == validate \o StrictTargetState \o TableReadState \o Arm \o apply

\* _finish: the caret goes back to the body or to the table's own paragraph.
Finish(n) == Home("mutation") \o Report(n)

\* _execute_edit: one native action over a block, or at a cell.
ExecuteEdit == SelectBlock("refusal") \o Publish \o Act

\* The table is found, its page read, and what the caller saw of it compared.
BindTable == TableReadState \o ResolveTable \o TablePages("refusal") \o RequireBinding

\* apply_edit
ApplyEdit(plan) ==
    BindTable \o plan \o EnterTable("refusal") \o ExecuteEdit \o Read("mutation")
    \o EditProblems \o OutsideTable \o Finish(1)

\* _execute_border, _execute_fill: the defaults are read before intent is published.
ExecuteStyle(c) == Read(c) \o Publish \o Act

\* apply_style, for a border or a fill alone and for both
ApplyStyle(n) ==
    BindTable \o PlanStyle \o MayStop
    \o EnterTable("refusal") \o SelectBlock("refusal") \o ExecuteStyle("refusal")
    \o (IF n = 1 THEN <<>>
        ELSE EnterTable("mutation") \o SelectBlock("mutation") \o ExecuteStyle("mutation"))
    \o Read("mutation") \o TableStyleProblems \o OutsideTable \o Finish(n)

\* apply_width: one native action for each rectangle of the plan.
ExecuteWidth(c) == EnterTable(c) \o SelectBlock(c) \o Read(c) \o Publish \o Act
ApplyWidth(n) ==
    BindTable \o PlanWidth \o MayStop
    \o ExecuteWidth("refusal") \o Times(n - 1, ExecuteWidth("mutation"))
    \o Read("mutation") \o WidthProblems \o OutsideTable \o Finish(n)

\* _fill_new_table: three calls whose status nobody reads.
FillNewTable == Move("mutation") \o Try \o Try \o Try

\* apply_create.  The fill goes through fields, which nobody counted: it reports 0.
ApplyCreate(filled) ==
    TableReadState \o Check("refusal") \o CreateAnchor \o Move("refusal") \o Read("refusal") \o Check("refusal")
    \o Publish \o Act \o (IF filled THEN FillNewTable ELSE <<>>)
    \o Read("mutation") \o OutsideTable \o NewTableProblems \o TablePages("mutation") \o Tidy
    \o Report(IF filled THEN 0 ELSE 1)

\* _bundle_table_inventory, _bundle_table_read: no census is compared, only the caret goes back.
TableInventory == Check("error") \o StrictTargetState \o TableReadState \o Arm \o TablePages("refusal") \o Home("error")
TableRead == Check("error") \o StrictTargetState \o TableReadState \o ResolveTable \o Arm
             \o TablePages("refusal") \o Home("error")
=============================================================================
