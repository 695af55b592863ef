----------------------------- MODULE EditHistory -----------------------------
(***************************************************************************)
(* One open document over many commands: what undo may take back, and when *)
(* the document may be closed without losing work.                         *)
(*                                                                         *)
(* Three parties keep a history.  The editor keeps native steps: doc, the  *)
(* steps whose effect is in the document (each named by the edit that made *)
(* it), and ahead, the ones it could redo.  The session's binding keeps    *)
(* one entry per edit: a count of native steps, None when they cannot be   *)
(* counted, or Direct when the command that edited keeps its own count in  *)
(* pending_logical_undo_count.  The live runtime keeps the debt that must  *)
(* be saved before a close, and the last package it verified.              *)
(*                                                                         *)
(* External: the native history, IsModified, Save and SaveAs, as the code  *)
(* uses them.  The content of the document is the sequence of native steps *)
(* in effect, so two states are equal when nothing distinguishes them.     *)
(***************************************************************************)
EXTENDS Integers, Sequences, FiniteSets, SequencesExt

CONSTANTS Clients,     \* requests that may be under way at once
          MaxEdits,    \* edits of a session
          MaxNative,   \* native steps of one edit
          CopyClears,  \* does a private copy clear IsModified (profile: export_native_dirty)
          None, Direct

ASSUME HistoryAssumption ==
    /\ MaxEdits \in Nat /\ MaxNative \in Nat \ {0}
    /\ CopyClears \in BOOLEAN
    /\ None \notin Int /\ Direct \notin Int /\ None # Direct

VARIABLES
    doc, ahead, flag,  \* the editor: native steps in effect, to redo, IsModified
    disk,              \* the working copy
    log,               \* the edits made so far: how many native steps each took
    book,              \* the binding
    rt,                \* the runtime
    req,               \* what each request has read of the binding
    measured,          \* observer: every edit was of a measured kind, and every history command
                       \* ran on the list it had read
    session            \* open, held, closed

editorVars == <<doc, ahead, flag>>
historyVars == <<editorVars, disk, log, book, rt, req, measured, session>>

Idle == [op |-> "none"]

HistoryInit ==
    /\ doc = <<>> /\ ahead = <<>> /\ flag = FALSE /\ disk = <<>> /\ log = <<>>
    /\ book = [undo |-> <<>>, redo |-> <<>>, pending |-> None, marker |-> FALSE, dirty |-> FALSE]
    /\ rt = [debt |-> FALSE, cleared |-> FALSE, verified |-> None]
    /\ req = [c \in Clients |-> Idle] /\ measured = TRUE /\ session = "open"

-----------------------------------------------------------------------------
(* The runtime's side of a command. *)

\* execute(prior_dirty): the binding's debt becomes the runtime's.
Admitted == [rt EXCEPT !.debt = @ \/ book.dirty]

\* Mutant: a recorded package stays current.
Stale_Keeps(v) == v

Stale(v) == IF v = None THEN None ELSE [v EXCEPT !.current = FALSE]

\* _mark_mutating_intent of a command that may change content.
Marked(r) == [r EXCEPT !.debt = TRUE, !.verified = Stale(@)]

\* A private copy taken in this command and recorded as the state in memory.
Recorded(r, content, wasModified) ==
    [r EXCEPT !.verified = [state |-> content, current |-> TRUE],
              !.cleared = @ \/ (wasModified /\ CopyClears)]

\* Exact-clean before and after, with no earlier debt and no private copy of its
\* own: the command adds no debt.
Settles(r, after, copied) == ~r.debt /\ ~flag /\ ~after /\ ~copied

Current == rt.verified # None /\ rt.verified.current

-----------------------------------------------------------------------------
(* Edits. *)

Edit   == Len(log) + 1
Native(n) == [i \in 1..n |-> Edit]

\* The kinds of edit whose native steps the code counts as measured, or refuses
\* to count at all.
MeasuredKinds == {"counted", "uncounted", "picture", "single", "media"}

\* The editor after n native steps of a new edit.
Edits(kind, n) ==
    /\ Len(log) < MaxEdits
    /\ doc' = doc \o Native(n)
    /\ ahead' = IF n = 0 THEN ahead ELSE <<>>
    /\ log' = Append(log, n)
    /\ measured' = (measured /\ kind \in MeasuredKinds)

\* _track_history_edit
Track(b, count, states) ==
    [b EXCEPT !.undo = Append(@, [count |-> count, of |-> Edit, states |-> states]), !.redo = <<>>]

States(kind) == [kind |-> kind, pre |-> doc, post |-> doc']

\* The edit commands outside bundles, by what they leave in
\* pending_logical_undo_count: 'typed' (replace, cell-replace, type) their number
\* of steps, 'single' (anchor-insert, image) and 'section' (figure-section) one,
\* 'quiet' (fontsize, bold, font, bullet, table, list, pycall, action,
\* insert-text-file) nothing; 'media' is an action that changed a picture.
DirectSizes(kind) ==
    CASE kind \in {"single", "media"} -> {1}
      [] kind = "quiet"   -> 0..MaxNative
      [] OTHER            -> 1..MaxNative

PendingAfter(kind, n) ==
    CASE kind = "typed"                 -> n
      [] kind \in {"single", "section"} -> 1
      [] kind = "media"                 -> None
      [] kind = "quiet"                 -> book.pending

\* pycall and action do not report an edit as dirt; the runtime has marked it.
DirectEdit(kind, n, reports) ==
    /\ session = "open" /\ n \in DirectSizes(kind)
    /\ kind # "quiet" => reports
    /\ Edits(kind, n)
    /\ flag' = (flag \/ n > 0)
    /\ book' = [Track(book, Direct, None) EXCEPT
                  !.pending = PendingAfter(kind, n),
                  !.marker  = @ \/ kind = "media",
                  !.dirty   = @ \/ reports]
    /\ rt' = Marked(Admitted)
    /\ UNCHANGED <<disk, req, session>>

\* _record_bundle_undo_state
Uncounted(b) == Track([b EXCEPT !.pending = None, !.marker = TRUE], None, None)
Counted(b, n, states) == Track([b EXCEPT !.pending = n], n, states)

\* A bundle none of whose steps is dirty: the count and the marker it set before
\* it ran are given back.
BundleChangesNothing ==
    /\ session = "open"
    /\ rt' = Admitted
    /\ UNCHANGED <<editorVars, disk, log, book, req, measured, session>>

\* Steps whose policy counts them; a lone step may have recorded the states it
\* started from and ended in.
BundleCounted(n, lone) ==
    /\ session = "open" /\ n \in 1..MaxNative
    /\ Edits("counted", n) /\ flag' = TRUE
    /\ book' = [Counted(book, n, IF lone THEN States("document") ELSE None) EXCEPT !.dirty = TRUE]
    /\ rt' = Marked(Admitted)
    /\ UNCHANGED <<disk, req, session>>

\* At least one dirty step that cannot be counted.
BundleUncounted(n) ==
    /\ session = "open" /\ n \in 0..MaxNative
    /\ Edits("uncounted", n) /\ flag' = (flag \/ n > 0)
    /\ book' = [Uncounted(book) EXCEPT !.dirty = TRUE]
    /\ rt' = Marked(Admitted)
    /\ UNCHANGED <<disk, req, session>>

\* Ops that are not listed in the policy count one unit for a dirty step,
\* however many native actions it issued, and also when it failed.
BundleUnlisted(n) ==
    /\ session = "open" /\ n \in 0..MaxNative
    /\ Edits("unlisted", n) /\ flag' = (flag \/ n > 0)
    /\ book' = [Counted(book, 1, None) EXCEPT !.dirty = TRUE]
    /\ rt' = Marked(Admitted)
    /\ UNCHANGED <<disk, req, session>>

\* A picture edit under a profile: the profile declares its native steps, and its
\* package states come from private copies.
BundlePicture(n) ==
    /\ session = "open" /\ n \in 1..MaxNative
    /\ Edits("picture", n) /\ flag' = ~CopyClears
    /\ book' = [Counted(book, n, States("package")) EXCEPT !.dirty = TRUE]
    /\ rt' = Recorded(Marked(Admitted), doc', TRUE)
    /\ UNCHANGED <<disk, req, session>>

\* A command whose outcome is unknown: the session is held, nothing is tracked.
Held(n) ==
    /\ session = "open" /\ n \in 0..MaxNative
    /\ Edits("held", n) /\ flag' = (flag \/ n > 0)
    /\ book' = [book EXCEPT !.pending = None, !.marker = TRUE, !.dirty = TRUE]
    /\ rt' = Marked(Admitted) /\ session' = "held"
    /\ UNCHANGED <<disk, req>>

-----------------------------------------------------------------------------
(* Undo and redo. *)

\* undo's refusal: an uncounted edit on top, or an uncounted edit below and no
\* count for what is above it.
Blocked(b) == (b.marker /\ b.pending = None) \/ Last(b.undo).count = None

\* Mutant: one native call for every edit.
UndoCount_One(b) == 1

\* How many native calls an undo of the top of b makes.
UndoCount(b) ==
    IF Last(b.undo).count # Direct THEN Last(b.undo).count
    ELSE IF b.pending # None /\ b.pending > 1 THEN b.pending ELSE 1

RedoCount(b) == IF Last(b.redo).count \in Int THEN Last(b.redo).count ELSE 1

\* The request reads the binding and decides how many native calls to make.
DecideUndo(c) ==
    /\ session = "open" /\ req[c].op = "none"
    /\ book.undo # <<>> /\ ~Blocked(book)
    /\ req' = [req EXCEPT ![c] = [op |-> "undo", count |-> UndoCount(book), top |-> Last(book.undo)]]
    /\ UNCHANGED <<editorVars, disk, log, book, rt, measured, session>>

DecideRedo(c) ==
    /\ session = "open" /\ req[c].op = "none"
    /\ book.redo # <<>>
    /\ req' = [req EXCEPT ![c] = [op |-> "redo", count |-> RedoCount(book), top |-> Last(book.redo)]]
    /\ UNCHANGED <<editorVars, disk, log, book, rt, measured, session>>

Package(c) == req[c].top.states # None /\ req[c].top.states.kind = "package"

\* A history command that leaves the document as it is: no evidence could be
\* read, or the editor's first call returned exact False.  A package edit proves
\* the latter with a copy that equals the state it started from.
HistoryRefused(c, copied) ==
    /\ session = "open" /\ req[c].op # "none"
    /\ copied => Package(c) /\ req[c].top.states[IF req[c].op = "undo" THEN "post" ELSE "pre"] = doc
    /\ flag' = (flag /\ ~(copied /\ CopyClears))
    /\ rt' = LET r == IF Settles(Admitted, flag', copied)
                      THEN [Admitted EXCEPT !.verified = Stale(@)] ELSE Marked(Admitted)
             IN IF copied THEN Recorded(r, doc, flag) ELSE r
    /\ req' = [req EXCEPT ![c] = Idle]
    /\ UNCHANGED <<doc, ahead, disk, log, book, measured, session>>

\* A later call, or one that returned something else, is an unknown outcome.
HistoryUnknown(c, k) ==
    /\ session = "open" /\ req[c].op # "none"
    /\ k \in 0..(req[c].count - 1)
    /\ IF req[c].op = "undo"
       THEN /\ k <= Len(doc)
            /\ doc' = SubSeq(doc, 1, Len(doc) - k)
            /\ ahead' = ahead \o Reverse(SubSeq(doc, Len(doc) - k + 1, Len(doc)))
       ELSE /\ k <= Len(ahead)
            /\ ahead' = SubSeq(ahead, 1, Len(ahead) - k)
            /\ doc' = doc \o Reverse(SubSeq(ahead, Len(ahead) - k + 1, Len(ahead)))
    /\ flag' = (flag \/ k > 0)
    /\ book' = [book EXCEPT !.dirty = TRUE]
    /\ rt' = Marked(Admitted) /\ session' = "held"
    /\ req' = [req EXCEPT ![c] = Idle]
    /\ UNCHANGED <<disk, log, measured>>

\* The editor settles IsModified itself when the content is what was saved.
FlagAfter(content) == IF content = disk THEN BOOLEAN ELSE {TRUE}

\* _expected_state against the popped entry: the states may also differ by what
\* the editor renews when it re-creates an object, or not be readable.
Matches(states, name, content) ==
    IF states = None THEN {"uncompared"}
    ELSE {"uncompared", "differs"} \cup (IF states[name] = content THEN {"same"} ELSE {})

\* _stop_history
StopHistory(b) ==
    [b EXCEPT !.undo = Append(@, [count |-> None, of |-> 0, states |-> None]), !.redo = <<>>]

\* undo pops its entry of the binding as it is now.
Undone(b) == [b EXCEPT !.redo = Append(@, Last(b.undo)), !.undo = Front(@), !.pending = None, !.dirty = TRUE]

Redone(b) == [b EXCEPT !.undo = Append(@, Last(b.redo)), !.redo = Front(@), !.dirty = TRUE]

\* The runtime after a history command that ran; a package edit takes a copy.
AfterHistory(c, content, modified) ==
    LET marked == IF Settles(Admitted, modified /\ ~(Package(c) /\ CopyClears), Package(c))
                  THEN [Admitted EXCEPT !.verified = Stale(@)] ELSE Marked(Admitted)
    IN IF Package(c) THEN Recorded(marked, content, modified) ELSE marked

UndoRuns(c, match) ==
    /\ session = "open" /\ req[c].op = "undo" /\ book.undo # <<>>
    /\ req[c].count <= Len(doc)
    /\ LET k == req[c].count
           entry == Last(book.undo)
       IN /\ doc' = SubSeq(doc, 1, Len(doc) - k)
          /\ ahead' = ahead \o Reverse(SubSeq(doc, Len(doc) - k + 1, Len(doc)))
          /\ match \in Matches(entry.states, "pre", doc')
          /\ book' = IF match = "differs" THEN StopHistory(Undone(book)) ELSE Undone(book)
          /\ measured' = (measured /\ entry = req[c].top)
    /\ \E modified \in FlagAfter(doc') :
          /\ flag' = (modified /\ ~(Package(c) /\ CopyClears))
          /\ rt' = AfterHistory(c, doc', modified)
    /\ req' = [req EXCEPT ![c] = Idle]
    /\ UNCHANGED <<disk, log, session>>

RedoRuns(c, match) ==
    /\ session = "open" /\ req[c].op = "redo" /\ book.redo # <<>>
    /\ req[c].count <= Len(ahead)
    /\ LET k == req[c].count
           entry == Last(book.redo)
       IN /\ ahead' = SubSeq(ahead, 1, Len(ahead) - k)
          /\ doc' = doc \o Reverse(SubSeq(ahead, Len(ahead) - k + 1, Len(ahead)))
          /\ match \in Matches(entry.states, "post", doc')
          /\ book' = IF match = "differs" THEN StopHistory(Redone(book)) ELSE Redone(book)
          /\ measured' = (measured /\ entry = req[c].top)
    /\ \E modified \in FlagAfter(doc') :
          /\ flag' = (modified /\ ~(Package(c) /\ CopyClears))
          /\ rt' = AfterHistory(c, doc', modified)
    /\ req' = [req EXCEPT ![c] = Idle]
    /\ UNCHANGED <<disk, log, session>>

-----------------------------------------------------------------------------
(* Reading, saving, exporting, closing. *)

\* find, info, where, screenshot: the binding takes the editor's word for dirt.
Look ==
    /\ session = "open"
    /\ book' = [book EXCEPT !.dirty = flag]
    /\ rt' = Admitted
    /\ UNCHANGED <<editorVars, disk, log, req, measured, session>>

\* move, select, cell, cellmove, cursormove, and a PDF export.
Travel(content) ==
    /\ session = "open"
    /\ book' = [book EXCEPT !.dirty = flag]
    /\ rt' = LET r == IF content THEN Marked(Admitted) ELSE [Admitted EXCEPT !.debt = TRUE]
             IN IF Settles(Admitted, flag, FALSE) THEN [r EXCEPT !.debt = FALSE] ELSE r
    /\ UNCHANGED <<editorVars, disk, log, req, measured, session>>

\* _fresh_save_baseline: a copy that equals the last recorded package.
FreshBaseline(r) == r.cleared /\ r.debt /\ r.verified # None /\ r.verified.state = doc

\* save with IsModified exactly False and no verified package to write: nothing
\* is written and the debt stays.
SaveNothing ==
    /\ session = "open" /\ ~flag
    /\ rt' = Admitted
    /\ UNCHANGED <<editorVars, disk, log, book, req, measured, session>>

Saved(r) == [r EXCEPT !.debt = FALSE, !.cleared = FALSE]

\* An ordinary save; a current verified package must equal what was written.
SaveOrdinary ==
    /\ session = "open" /\ flag
    /\ Current => rt.verified.state = doc
    /\ disk' = doc /\ flag' = FALSE
    /\ book' = [book EXCEPT !.dirty = FALSE]
    /\ rt' = Saved(Admitted)
    /\ UNCHANGED <<doc, ahead, log, req, measured, session>>

\* Save(False): only when our own copy cleared the flag, debt remains and the
\* package in memory is verified, or a fresh copy equals the last one verified.
SaveVerified ==
    /\ session = "open" /\ ~flag
    /\ Admitted.debt /\ rt.cleared
    /\ Current \/ FreshBaseline(Admitted)
    /\ disk' = doc
    /\ book' = [book EXCEPT !.dirty = FALSE]
    /\ rt' = LET base == IF Current THEN Admitted ELSE Recorded(Admitted, doc, FALSE)
             IN Saved(base)
    /\ UNCHANGED <<editorVars, log, req, measured, session>>

\* Mutant: a normal close trusts the editor's flag.
Close_ByFlag ==
    /\ session = "open" /\ ~flag
    /\ session' = "closed"
    /\ rt' = Admitted
    /\ UNCHANGED <<editorVars, disk, log, book, req, measured>>

\* The owning thread closes when nothing is owed and IsModified is not True.
Close ==
    /\ session = "open"
    /\ ~Admitted.debt /\ ~flag
    /\ session' = "closed"
    /\ rt' = Admitted
    /\ UNCHANGED <<editorVars, disk, log, book, req, measured>>

\* A refused close has still taken the binding's debt over.
CloseRefused ==
    /\ session = "open"
    /\ Admitted.debt \/ flag
    /\ rt' = Admitted
    /\ UNCHANGED <<editorVars, disk, log, book, req, measured, session>>

HistoryNext ==
    \/ \E kind \in {"typed", "single", "section", "quiet", "media"}, n \in 0..MaxNative, reports \in BOOLEAN :
          DirectEdit(kind, n, reports)
    \/ BundleChangesNothing
    \/ \E n \in 1..MaxNative, lone \in BOOLEAN : BundleCounted(n, lone)
    \/ \E n \in 0..MaxNative : BundleUncounted(n) \/ BundleUnlisted(n) \/ BundlePicture(n) \/ Held(n)
    \/ \E c \in Clients : DecideUndo(c) \/ DecideRedo(c)
    \/ \E c \in Clients, copied \in BOOLEAN : HistoryRefused(c, copied)
    \/ \E c \in Clients, k \in 0..MaxNative : HistoryUnknown(c, k)
    \/ \E c \in Clients, match \in {"same", "differs", "uncompared"} : UndoRuns(c, match) \/ RedoRuns(c, match)
    \/ Look \/ \E content \in BOOLEAN : Travel(content)
    \/ SaveNothing \/ SaveOrdinary \/ SaveVerified
    \/ Close \/ CloseRefused

HistorySpec == HistoryInit /\ [][HistoryNext]_historyVars

-----------------------------------------------------------------------------
Contents == Seq(1..MaxEdits)
Counts   == 0..MaxNative \cup {None, Direct}
Recordings == {None} \cup [kind : {"document", "package"}, pre : Contents, post : Contents]
Entries  == [count : Counts, of : 0..MaxEdits, states : Recordings]

\* The shape of the three histories (native steps, the binding, the runtime).
HistoryTypeOK ==
    /\ doc \in Contents /\ ahead \in Contents /\ disk \in Contents
    /\ flag \in BOOLEAN /\ measured \in BOOLEAN
    /\ log \in Seq(0..MaxNative) /\ Len(log) <= MaxEdits
    /\ book \in [undo : Seq(Entries), redo : Seq(Entries),
                 pending : 0..MaxNative \cup {None}, marker : BOOLEAN, dirty : BOOLEAN]
    /\ rt.debt \in BOOLEAN /\ rt.cleared \in BOOLEAN
    /\ rt.verified \in {None} \cup [state : Contents, current : BOOLEAN]
    /\ session \in {"open", "held", "closed"}

StepsOf(entry) == [i \in 1..(IF entry.of = 0 THEN 0 ELSE log[entry.of]) |-> entry.of]

\* How many of the native steps belong to the first i edits of the list.
StepsUpTo(steps, list, i) == Cardinality({p \in DOMAIN steps : \E j \in 1..i : list[j].of = steps[p]})

\* The native steps are those of the listed edits, in this order, and every edit is whole.
AreStepsOf(steps, list) ==
    /\ StepsUpTo(steps, list, Len(list)) = Len(steps)
    /\ \A i \in DOMAIN list :
          SubSeq(steps, StepsUpTo(steps, list, i - 1) + 1, StepsUpTo(steps, list, i)) = StepsOf(list[i])

\* As long as every edit was of a measured kind and no history command ran on a
\* stale reading of the list, the edits undo believes in are exactly the edits in
\* the document, in order and whole: undo never takes back part of an edit or an
\* older one, and an edit that could not be counted stays (LocalCliService.undo).
UndoListIsDocument == session = "open" /\ measured => AreStepsOf(doc, book.undo)

\* Under the same conditions the edits redo believes in are the ones the editor
\* would redo, oldest undone last.
RedoListIsAhead ==
    session = "open" /\ measured /\ book.redo # <<>> => AreStepsOf(ahead, book.redo)

\* The histories are well formed and both lists are what the editor would do.
ListsAreDocument == HistoryTypeOK /\ UndoListIsDocument /\ RedoListIsAhead

\* A session whose runtime owes no save has its whole content on disk, whatever
\* was edited, undone, copied, or read in between, and by how many requests.
DebtCoversWork == ~(rt.debt \/ book.dirty) => disk = doc

\* Nor does one that was closed normally lose any.
NoWorkLost == DebtCoversWork /\ (session = "closed" => disk = doc)

\* The package a save may be checked against is the document in memory: the
\* record goes stale with the first command that may change content.
BaselineIsDocument == session # "held" /\ Current => rt.verified.state = doc

\* "undo should roll back the last logical bundle as one": no edit is ever left
\* half taken back in an open session.  This does not hold when a direct command makes
\* two native edits and counts one; see README, "Known differences".
EditsAreWhole ==
    session = "open" =>
        \A e \in DOMAIN log : Cardinality({i \in DOMAIN doc : doc[i] = e}) \in {0, log[e]}
=============================================================================
