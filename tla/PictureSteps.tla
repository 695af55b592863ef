---------------------------- MODULE PictureSteps ----------------------------
(***************************************************************************)
(* Existing pictures (app/native_picture.py with picture_request_proof,    *)
(* picture_preservation and hwpx_saved_proof).  The engine has no wrapper: *)
(* a refusal leaves as it is, and nothing is read or put back after it.    *)
(***************************************************************************)
EXTENDS StepPrograms

\* validate_step
ValidatePicture == Check("error")

\* validate_profile: the declared domains, volatile members and history of a profile
ValidateProfile == Check("refusal")
\* _strategy, load_profile: which comparison is the authority, decided before any native call.
Strategy == Check("refusal") \o ValidateProfile

\* _image_file: a bounded PNG, staged below the session's own root.
ImageFile == Check("refusal")

\* parse_pictures over one text
ParsePictures(c) == Read(c) \o Check(c)

\* _target, _selection_universe
PictureTarget     == Check("refusal")
SelectionUniverse == Check("refusal")

\* _Calls.call and _proof: any other answer is unproven, and the latch stays.
Proven == Read("read")

\* read_state with _outer: the members of one complete package
PackageState(c) == Read(c) \o Check(c)
\* bridge: the one picture of the package with the physical facts of the target
Bridge == Check("refusal")
\* reflow_scope: the line cache that the edit may renew
ReflowScope == Check("refusal")
\* saved_proof.copy and record, bridge, reflow_scope, replacement_admissible
PackageBefore == Proven \o PackageState("read") \o Bridge \o ReflowScope \o Check("refusal")
\* caret_values, caret_in_domain
PackageCaret  == Check("refusal")

\* _native_target: the complete census of controls
NativeTarget == Read("refusal")

\* _clear_selection: a selection the caller had is cancelled here.
ClearSelection == Proven \o Move("read") \o Proven

\* The anchor, then SelectCtrlFront and _selection
SelectPicture == Move("read") \o Proven \o Move("read") \o Proven

\* picture_parameters.Parameters, GetDefault, the items and the last checks
PictureParameters == Proven \o Proven \o Proven

\* picture_request_proof.UIPlan.verify and the target's own facts
TargetAsAsked == Verify
\* picture_preservation.prove
PicturePreserved == Verify
\* expect, _replacement: the package the edit should have left
PackageExpected == Check("mutation")
\* compare, with the members that may be volatile
PackageCompared == PackageState("mutation") \o PackageExpected \o Verify

\* What is already so: the requested crop, layout or pixels
AlreadySo == Check("read")

\* edit
PictureEdit(replaces, profile) ==
    LET only(p) == IF profile THEN p ELSE <<>> IN
    ValidatePicture \o Strategy \o (IF replaces THEN ImageFile ELSE <<>>) \o ParsePictures("read")
    \o PictureTarget \o AlreadySo \o MayStop \o Check("refusal") \o SelectionUniverse \o only(PackageBefore)
    \o Proven \o only(PackageCaret) \o NativeTarget \o ClearSelection \o Proven \o only(PackageCaret)
    \o SelectPicture \o PictureParameters \o Publish \o Act \o ParsePictures("mutation")
    \o TargetAsAsked \o PicturePreserved \o only(PackageCompared) \o Report(1)

\* inventory
PictureInventory == ValidatePicture \o Read("read") \o Check("refusal")
=============================================================================
