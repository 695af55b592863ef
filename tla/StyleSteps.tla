----------------------------- MODULE StyleSteps -----------------------------
(***************************************************************************)
(* Named styles (app/native_styles.py, app/local_cli_bundle_styles.py).    *)
(* After the edit entered native navigation only a well-typed other answer *)
(* is a refusal; a malformed or missing one is "read".                     *)
(***************************************************************************)
EXTENDS TextSteps

\* parse_style_model: the rows of the styles, the shapes they own, and what they refer to
StyleRows(c)      == Check(c)
StyleOwners(c)    == Check(c)
ParseStyleModel(c) == StyleRows(c) \o StyleOwners(c) \o Check(c)

\* _styles_read_state, document_text and the three models
StylesReadState(c) == Read(c) \o ParseStyleModel(c) \o Census(c) \o ParseFormatModel(c)

\* validate_apply_step, validate_create_step, validate_update_step
ValidateStyle == Check("error")

\* _find, _bound, _require_free, _require_identities
BindStyle == Check("refusal")

\* _capabilities: HAction and the parameter set, before anything moves.
Capabilities == Read("refusal")

\* _place, _caret_at and _entered_state
Place         == Move("read")
StyleCaretAt  == Place \o Read("read") \o Check("refusal")

\* _native_list of this module; a body paragraph needs no search.
StyleNativeList(cell) == IF cell THEN Move("read") \o Read("read") \o Check("refusal") ELSE <<>>

\* _select of this module
SelectStyled == Place \o Read("refusal") \o Move("refusal") \o Read("refusal") \o Read("refusal")

\* _defaults, _write, _execute
Defaults    == Read("refusal")
WriteItems  == Read("read")
StyleExecute == Publish \o Act

\* _problems: the document around the style; _link, _kept_style, _unchanged_styles
StyleOutside == Verify
KeptStyles   == Verify
\* _paragraph_check, _character_check; _create_check; _update_check with _use_check
ApplyCheck  == Verify
CreateCheck == Verify
UpdateCheck == Verify

\* _leave: the selection must be gone.
LeaveStyled == Home("mutation")

\* restored() of _style_edit gives the caret back only after navigation was entered.
StyleBack == HomeIfMoved("error") \o Same("error")

\* _bound_items, _item_answer, _same_item: each item of a shape against the style's
BoundItems == Check("refusal")

\* apply_style
ApplyStyleNamed(cell) ==
    StylesReadState("refusal") \o BindStyle \o Check("refusal") \o MayStop
    \o Capabilities \o StyleNativeList(cell) \o SelectStyled \o Defaults \o WriteItems \o StyleExecute
    \o StylesReadState("mutation") \o StyleOutside \o KeptStyles \o ApplyCheck \o LeaveStyled \o Report(1)
\* Its 'already_set' branch still visits the place to compare the page.
AlreadyStyled(cell) == StyleNativeList(cell) \o Place \o Read("refusal") \o StyleBack

\* _legacy: CreateAction, CreateSet and the members of both
LegacyAction(c) == Read(c)
\* _legacy_call, _set_items, _filled_char_shape
SetItems       == Read("read")
FilledCharShape == Read("refusal") \o SetItems

\* _style_char_shape: every item there, and each the style's own
StyleCharShape == Read("refusal") \o BoundItems

\* _stand
Stand == Check("refusal")

\* create_style
CreateStyle(shaped) ==
    StylesReadState("refusal") \o BindStyle \o Check("refusal") \o Stand \o LegacyAction("refusal")
    \o StyleCaretAt \o SetItems \o (IF shaped THEN FilledCharShape ELSE <<>>) \o StyleExecute
    \o StylesReadState("mutation") \o StyleOutside \o KeptStyles \o CreateCheck \o LeaveStyled \o Report(1)

\* update_style
UpdateStyle ==
    StylesReadState("refusal") \o BindStyle \o Check("refusal") \o MayStop \o Check("refusal") \o Stand
    \o StyleCaretAt \o StyleCharShape \o SetItems \o LegacyAction("read") \o SetItems \o StyleExecute
    \o StylesReadState("mutation") \o StyleOutside \o KeptStyles \o UpdateCheck \o LeaveStyled \o Report(1)

\* _style_edit, _bundle_style_inventory
StyleEdit(edit) == ValidateStyle \o StrictTargetState \o StylesReadState("refusal") \o Arm \o edit
StyleInventory  == Check("error") \o Read("read") \o ParseStyleModel("refusal")
=============================================================================
