--------------------------- MODULE CommandPackages ---------------------------
(***************************************************************************)
(* The commands a bundle can hold: _GUARDED_BUNDLE_OPS, DEFERRED_INTENT_OPS*)
(* and _BUNDLE_UNDO_POLICY, with the engine each op is dispatched to.      *)
(***************************************************************************)
EXTENDS TableSteps, NumberingSteps, AreaSteps, StyleSteps, PictureSteps, DeferredSteps, DirectSteps

Guarded(op, undo, body, back, still) ==
    [op |-> op, family |-> "guarded", edits |-> TRUE, undo |-> undo, body |-> body, back |-> back, still |-> still]

\* A guarded command that only reads.
Inspection(op, body, back) ==
    [op |-> op, family |-> "guarded", edits |-> FALSE, undo |-> "refuse", body |-> body, back |-> back, still |-> <<>>]

\* The engines of DEFERRED_INTENT_OPS
Deferred(op, undo, body, back) ==
    [op |-> op, family |-> "deferred", edits |-> TRUE, undo |-> undo, body |-> body, back |-> back, still |-> <<>>]

\* Every other package: the dispatcher publishes intent before it calls the engine.
Legacy(op, undo, body, back) ==
    [op |-> op, family |-> "legacy", edits |-> TRUE, undo |-> undo, body |-> body, back |-> back, still |-> <<>>]

\* A package of that kind that returns dirty = False
LegacyReport(op, body) == [Legacy(op, "one", body, <<>>) EXCEPT !.edits = FALSE]

\* control_inventory, table_frame_inventory, style_inspect, where
Plain(op, body) ==
    [op |-> op, family |-> "plain", edits |-> FALSE, undo |-> "one", body |-> body, back |-> <<>>, still |-> <<>>]

\* A command of its own that edits: _MUTATING_COMMANDS.
Direct(op, body) ==
    [op |-> op, family |-> "direct", edits |-> TRUE, undo |-> "direct", body |-> body, back |-> <<>>, still |-> <<>>]

\* A command of its own that the runtime counts as a possible edit although it only moves or reads
DirectLook(op, body, back) ==
    [op |-> op, family |-> "direct", edits |-> FALSE, undo |-> "direct", body |-> body, back |-> back, still |-> <<>>]

\* pycall and action: what they do is up to the caller, and they report no 'dirty'.
Macro(op, body) ==
    [op |-> op, family |-> "macro", edits |-> FALSE, undo |-> "direct", body |-> body, back |-> <<>>, still |-> <<>>]

\* The commands the runtime runs without marking intent
Glance(op, body) ==
    [op |-> op, family |-> "glance", edits |-> FALSE, undo |-> "direct", body |-> body, back |-> <<>>, still |-> <<>>]

TextPackages ==
    { Guarded("text_replace_exact", "counted", TextReplaceExact, Restored, <<>>),
      Guarded("table_cell_text_exact", "any", TableMutation(ValidateCellText, ApplyCellText(FALSE)), TableBack, <<>>),
      Guarded("table_cell_text_exact", "any", TableMutation(ValidateCellText, ApplyCellText(TRUE)), TableBack, <<>>),
      Guarded("table_cell_text_exact", "any", TableMutation(ValidateCellText, ApplyTwoCells(FALSE, TRUE)), TableBack, <<>>) }

TablePackages ==
    { Guarded("table_edit_exact", "single", TableMutation(ValidateEdit, ApplyEdit(plan)), TableBack, <<>>) :
          plan \in {PlanInsert, PlanDelete, PlanMerge, PlanSplit} } \cup
    { Guarded("table_style_exact", "counted", TableMutation(ValidateTableStyle, ApplyStyle(1)), TableBack, TableBack),
      Guarded("table_style_exact", "counted", TableMutation(ValidateTableStyle, ApplyStyle(2)), TableBack, TableBack),
      Guarded("table_width_exact", "any", TableMutation(ValidateWidth, ApplyWidth(3)), TableBack, TableBack),
      Guarded("table_create_exact", "single", TableMutation(ValidateCreate, ApplyCreate(FALSE)), TableBack, <<>>),
      Guarded("table_create_exact", "single", TableMutation(ValidateCreate, ApplyCreate(TRUE)), TableBack, <<>>),
      Inspection("table_inventory", TableInventory, GiveBack),
      Inspection("table_read", TableRead, GiveBack) }

ParagraphPackages ==
    { Guarded("paragraph_insert_exact", "single", ParagraphEdit(InsertParagraph), ParagraphBack, <<>>),
      Guarded("paragraph_remove_exact", "single", ParagraphEdit(RemoveParagraph), ParagraphBack, <<>>),
      Guarded("paragraph_format_exact", "single", FormatExact(FALSE), Restored, FormatStill),
      Guarded("character_format_exact", "counted", FormatExact(FALSE), Restored, FormatStill),
      Guarded("character_format_exact", "counted", FormatExact(TRUE), Restored, FormatStill) }

NumberingPackages ==
    { Guarded("page_number_apply", "single", PageNumberApply, <<>>, <<>>),
      Guarded("official_numbering_apply", "single", OfficialNumberingApply(FALSE, TRUE), RestoreProven, OfficialStill),
      Guarded("official_numbering_apply", "single", OfficialNumberingApply(TRUE, FALSE), RestoreProven, OfficialStill),
      Guarded("official_numbering_apply", "single", OfficialNumberingApply(TRUE, TRUE), RestoreProven, OfficialStill) }

AreaPackages ==
    { Guarded("header_footer_text_exact", "counted", HeaderFooterMutation(ValidateAreaText, ApplyAreaText), Restored, <<>>),
      Guarded("header_footer_format_exact", "counted", HeaderFooterMutation(ValidateAreaFormat, ApplyAreaFormat(1)), Restored, <<>>),
      Guarded("header_footer_format_exact", "counted", HeaderFooterMutation(ValidateAreaFormat, ApplyAreaFormat(2)), Restored, <<>>),
      Guarded("field_text_exact", "refuse", FieldTextExact, Restored, <<>>),
      Inspection("header_footer_inventory", HeaderFooterInventory, <<>>),
      Inspection("field_inventory", FieldInventory, <<>>) }

StylePackages ==
    { Guarded("style_apply_exact", "refuse", StyleEdit(ApplyStyleNamed(FALSE)), StyleBack, AlreadyStyled(FALSE)),
      Guarded("style_apply_exact", "refuse", StyleEdit(ApplyStyleNamed(TRUE)), StyleBack, AlreadyStyled(TRUE)),
      Guarded("style_create_exact", "refuse", StyleEdit(CreateStyle(FALSE)), StyleBack, <<>>),
      Guarded("style_create_exact", "refuse", StyleEdit(CreateStyle(TRUE)), StyleBack, <<>>),
      Guarded("style_update_exact", "refuse", StyleEdit(UpdateStyle), StyleBack, StyleBack),
      Inspection("style_inventory", StyleInventory, <<>>) }

PicturePackages ==
    { Guarded("picture_replace_exact", "picture", PictureEdit(TRUE, FALSE), <<>>, <<>>),
      Guarded("picture_replace_exact", "picture", PictureEdit(TRUE, TRUE), <<>>, <<>>),
      Guarded("picture_crop_exact", "picture", PictureEdit(FALSE, FALSE), <<>>, <<>>),
      Guarded("picture_layout_exact", "picture", PictureEdit(FALSE, TRUE), <<>>, <<>>),
      Inspection("picture_inventory", PictureInventory, <<>>) }

DeferredPackages ==
    { Deferred("layout_exact", "state", LayoutExact(PageSetup, TRUE), DeferredBack),
      Deferred("layout_exact", "state", LayoutExact(Columns, TRUE), DeferredBack),
      Deferred("layout_exact", "state", LayoutExact(SectionInsert, FALSE), DeferredBack),
      Deferred("layout_exact", "state", LayoutExact(SectionDelete, FALSE), DeferredBack),
      Deferred("layout_exact", "state", LayoutExact(HangingIndent, TRUE), DeferredBack),
      Deferred("object_insert_exact", "state", ObjectInsertExact(FALSE, FALSE), DeferredBack),
      Deferred("object_insert_exact", "state", ObjectInsertExact(TRUE, FALSE), DeferredBack),
      Deferred("object_insert_exact", "state", ObjectInsertExact(FALSE, TRUE), DeferredBack),
      Deferred("paragraph_rehome_exact", "one", ParagraphRehomeExact(2), DeferredBack) }

ControlPackages ==
    { Legacy("table_column_width_exact", "one", TableColumnWidth, ColumnWidthBack),
      Legacy("cell_format_exact", "one", CellFormat(SetCellMargins), <<>>),
      Legacy("cell_format_exact", "one", CellFormat(ApplyFillColor), FillBack),
      Legacy("cell_format_exact", "one", CellFormat(ApplyBorderNone), BorderBack),
      Legacy("cell_format_exact", "one", CellFormat(RunVerticalAlign), <<>>),
      Legacy("table_split_exact", "one", TableSplit(1), <<>>),
      Legacy("cell_row_fit_exact", "one", CellRowFit(2), <<>>),
      Legacy("control_move_resize_exact", "one", ControlMoveResize, <<>>),
      Legacy("control_join_previous_exact", "one", ControlJoinPrevious(2), JoinControlBack),
      Legacy("control_delete_exact", "one", ControlDelete, <<>>),
      Legacy("table_structure_exact", "single", TableStructure(RowColMutate(1), 1), <<>>),
      Legacy("table_structure_exact", "single", TableStructure(RowColMutate(2), 2), <<>>),
      Legacy("table_structure_exact", "single", TableStructure(MergeMutate, 1), <<>>),
      Legacy("table_structure_exact", "single", TableStructure(SplitMutate, 0), <<>>),
      LegacyReport("exact_control_select_proof", SelectProof),
      LegacyReport("table_cell_structure_exact", TableCellStructure),
      Plain("control_inventory", ControlInventory),
      Plain("table_frame_inventory", TableFrameInventory) }

TextFilePackages ==
    { Legacy("paragraph_delete_exact", "one", ParagraphDelete, ParagraphBackOut),
      Legacy("paragraph_join_previous_exact", "one", ParagraphJoinPrevious(2), ParagraphBackOut),
      Legacy("paragraph_join_next_exact", "one", ParagraphJoinNext(1, TRUE), ParagraphBackOut),
      Legacy("paragraph_style_apply_exact", "one", ParagraphStyleApply, <<>>),
      Legacy("anchor_range_replace_native_table", "one", AnchorRangeReplace(TRUE), AnchorRangeBack),
      Legacy("native_table_insert", "one", NativeTableInsert, <<>>),
      Legacy("set_text_file", "one", SetTextFile(2), <<>>),
      Legacy("anchor_insert", "one", AnchorInsert(TRUE), <<>>),
      Legacy("selected_text_delete_exact", "one", SelectedTextDelete, <<>>) }

ReportPackages ==
    { Plain("where", Where), Plain("style_inspect", StyleInspect),
      LegacyReport("save_document", SaveDocument), LegacyReport("export_pdf", ExportToPdf),
      LegacyReport("hwp_action", HwpAction), LegacyReport("pyhwpx_call", PyhwpxCall),
      LegacyReport("get_selected_text", GetSelectedText), LegacyReport("selection_proof", SelectionProof),
      LegacyReport("context", ContextReport), LegacyReport("readback", Readback),
      LegacyReport("typography_overview", TypographyOverview), LegacyReport("layout_inspect", LayoutInspect) }

DirectCommands ==
    { Direct("cell-replace", CellReplace(byAnchor, ~byAnchor)) : byAnchor \in BOOLEAN } \cup
    { Direct("type", TypeOverSelection(remembered)) : remembered \in BOOLEAN } \cup
    { Direct("anchor-insert", AnchorInsertCommand(breaks)) : breaks \in BOOLEAN } \cup
    { Direct("figure-section", FigureSection(picture)) : picture \in BOOLEAN } \cup
    { Direct("bullet", Bullet(selected)) : selected \in BOOLEAN } \cup
    { Macro("action", Action(guards)) : guards \in BOOLEAN } \cup
    { Direct("cell-replace", CellReplace(TRUE, TRUE)), Direct("type", TypeAtTheCaret),
      Direct("image", ImageUpload), Direct("image-at-anchor", ImageAtAnchor),
      Direct("fontsize", FontCommand), Direct("font", FontCommand), Direct("bold", BoldCommand),
      Direct("table", CreateTable), Direct("list", ListItems), Macro("pycall", Pycall),
      DirectLook("move", MoveTo, <<>>), DirectLook("select", SelectText, <<>>), DirectLook("cell", SelectCell, <<>>),
      DirectLook("cellmove", CellMove, <<>>), DirectLook("cursormove", CursorMove, <<>>),
      DirectLook("cell_margins_get", CellMarginsGet, CellMarginsBack),
      Glance("find", FindInDocument), Glance("info", InfoCommand), Glance("where", WhereCommand),
      Glance("screenshot", Screenshot), Glance("numbering-readback", NumberingReadback) }

Packages == DirectCommands \cup TextPackages \cup TablePackages \cup ParagraphPackages \cup NumberingPackages
            \cup AreaPackages \cup StylePackages \cup PicturePackages
            \cup DeferredPackages \cup ControlPackages \cup TextFilePackages \cup ReportPackages
=============================================================================
