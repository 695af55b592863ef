------------------------------ MODULE AreaSteps ------------------------------
(***************************************************************************)
(* Headers and footers (app/native_header_footer.py), click-here fields    *)
(* (app/native_fields.py) and their wrappers.  Both families stop without  *)
(* another native call when a read is unusable: "read", never a refusal.   *)
(***************************************************************************)
EXTENDS TextSteps

\* parse_areas: headers and footers with their paragraphs, fields and digests
ParseAreas(c) == Check(c)

\* _header_footer_read_state: one text; census, model and areas are parsed from it.
AreaReadState(c) == Read(c) \o Census(c) \o ParseFormatModel(c) \o ParseAreas(c)
\* nf._read behind it also lists the controls.
AreaRead(c) == AreaReadState(c) \o Read(c)

\* validate_text_step, validate_format_step and the binding they share
ValidateAreaText   == Check("error")
ValidateAreaFormat == Check("error")

\* resolve_area, _require_plain and _require_no_field_inside judge parsed data.
ResolveArea  == Check("refusal")
RequirePlain == Check("refusal")

\* _select_area: only other words in the block are a refusal.
SelectArea == Move("read") \o Read("read") \o Check("refusal") \o Read("read")

\* _caret_at of an area
AreaCaretAt == Move("read") \o Read("read")

\* _area_list visits every list up to the area's.
AreaList == Move("read") \o Check("refusal") \o SelectArea \o Move("read")

\* _document_problems, then _text_problems or _format_problems
OutsideArea  == Verify
AreaProblems == Verify

\* _leave
LeaveArea == Home("mutation")

\* apply_text
ApplyAreaText ==
    Read("refusal") \o AreaRead("read") \o ResolveArea \o ResolveRange \o RequirePlain \o AreaList
    \o SelectArea \o AreaCaretAt \o Publish \o Insert \o SelectArea \o Delete
    \o AreaRead("mutation") \o OutsideArea \o AreaProblems \o LeaveArea \o Report(2)

\* apply_format: the character format, the paragraph format or both
ExecuteShape == Publish \o Read("mutation") \o Act \o Move("mutation")
ApplyAreaFormat(n) ==
    Read("refusal") \o AreaRead("read") \o ResolveArea \o Check("refusal") \o RequirePlain \o MayStop
    \o AreaList \o Times(n, SelectArea \o ExecuteShape)
    \o AreaRead("mutation") \o OutsideArea \o AreaProblems \o LeaveArea \o Report(n)

\* _header_footer_mutation
HeaderFooterMutation(validate, apply) ==
    validate \o StrictTargetState \o AreaReadState("read") \o Arm \o apply

\* _bundle_header_footer_inventory
HeaderFooterInventory == Check("error") \o Read("read") \o ParseAreas("read")

-----------------------------------------------------------------------------
\* validate_fill_step
ValidateFill == Check("error")

\* _fields_read_state: one text for census, model, tables and areas.
FieldsReadState(c) == Read(c) \o Census(c) \o ParseFormatModel(c) \o ParseTableModel(c) \o ParseAreas(c)

\* read_census: the field list, the kinds and every text; _census refuses an unusable one.
FieldCensus(c) == Read(c) \o Check(c)

\* resolve and _fill_refusal
ResolveField == Check("refusal")
\* _field_spans, _require_text_in_document: the field's text is where the document shows it
FieldSpans == Check("refusal")

\* _bare_caret
BareCaret == Read("refusal")

\* _census_problems stops before the document is read, _document_problems after.
CensusProblems   == Check("mutation")
DocumentProblems == Verify

\* apply_fill: PutFieldText answers nothing; the caret is reported where it is.
ApplyFill ==
    BareCaret \o FieldsReadState("read") \o Check("refusal") \o FieldCensus("refusal") \o ResolveField
    \o Read("refusal") \o FieldSpans \o MayStop \o Read("refusal") \o Publish \o Act
    \o FieldCensus("mutation") \o CensusProblems \o FieldsReadState("mutation") \o DocumentProblems
    \o Read("mutation") \o Report(1)

\* _bundle_field_text_exact, _bundle_field_inventory
FieldTextExact == ValidateFill \o StrictTargetState \o FieldsReadState("read") \o Arm \o ApplyFill
FieldInventory == Check("error") \o FieldCensus("refusal")
=============================================================================
