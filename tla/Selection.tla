------------------------------ MODULE Selection ------------------------------
(***************************************************************************)
(* What a direct command acts on.  The editor has a caret and at most one  *)
(* live selection; the session's binding remembers what earlier commands   *)
(* saw of it: the match list of `find' (last_find), the range that was     *)
(* last observed selected (selected_range), what `select' reported         *)
(* (last_selection, unsafe_selection_for_type) and whether the last style  *)
(* command used a selection up (style_selection_consumed).  A remembered   *)
(* range is a position: it means whatever is there when it is used.        *)
(*                                                                         *)
(* Commands are atomic here (one operator; the races of two requests are   *)
(* the subject of SessionBinding), and a command that raises holds the     *)
(* session (LiveSession), so only those that return are steps.  A          *)
(* selection is a paragraph or a part of it; paragraphs carry an identity  *)
(* that only the properties look at.                                       *)
(***************************************************************************)
EXTENDS Naturals, Sequences, FiniteSets, SequencesExt

CONSTANTS Texts,         \* what a paragraph may say
          Within,        \* pairs <<q, t>>: the text q occurs in the text t
          Candidates,    \* Candidates[q]: the search texts tried for q, in order
          Stops,         \* Stops[c, t]: how often the editor's Find stops for c in t
          Anchors,       \* pairs <<c, q>>: c is a part of q that may stand for it
          Typed,         \* the text the operator types
          MaxParagraphs, \* length of the document
          MaxEdits,      \* edits that insert, remove or rewrite a paragraph
          None

ASSUME SelectionAssumption ==
    /\ Typed \in Texts /\ MaxParagraphs \in Nat \ {0} /\ MaxEdits \in Nat
    /\ Within \subseteq Texts \X Texts
    /\ \A t \in Texts : <<t, t>> \in Within
    /\ Candidates \in [Texts -> Seq(Texts)] /\ Stops \in [Texts \X Texts -> Nat]
    /\ Anchors \subseteq Texts \X Texts
    /\ None \notin [id : Nat, safe : BOOLEAN, at : Nat] \cup [query : Texts, rank : Nat, safe : BOOLEAN]

VARIABLES
    doc,      \* the paragraphs, each [id, text]
    edits,    \* how many edits were made: the version of the document
    sel,      \* the paragraph the live selection is in, 0 when there is none
    binding,  \* what the binding remembers
    shown,    \* history: what a command last reported as selected, and when
    picked,   \* history: the result of the last `select'
    styled,   \* history: what the last character style command applied to
    did       \* history: what the last command did, and to which paragraph

vars == <<doc, edits, sel, binding, shown, picked, styled, did>>

Paras == 1..Len(doc)
Selections == 0..Len(doc)
IdOf(p) == IF p = 0 THEN 0 ELSE doc[p].id

Nothing == [range |-> 0, last |-> None, unsafe |-> FALSE, consumed |-> FALSE, found |-> None]

Observed(b, p) == [b EXCEPT !.range = p]
Reported(p) == [id |-> IdOf(p), at |-> edits]

\* Mutant: an edit leaves the remembered range alone.
Forgotten_KeepsRange(b) == [b EXCEPT !.last = None, !.unsafe = FALSE, !.found = None]

\* clear_selection_cache and clear_last_find
Forgotten(b) == [b EXCEPT !.range = 0, !.last = None, !.unsafe = FALSE, !.found = None]

NoDeed == [cmd |-> "none", via |-> "none", told |-> FALSE, shown |-> TRUE, found |-> TRUE, pick |-> "none",
           style |-> "none"]

Quietly == did' = NoDeed

\* A command acted on paragraph id: was it the one last shown as selected, and the
\* one `select' had found (as far as the document is still the same)?  told: the
\* operator asked for it (the caret; the match listed), or the counts agree (`bold').
Deed(cmd, via, id, told) ==
    did' = [cmd |-> cmd, via |-> via, told |-> told,
            shown |-> shown.at = edits => id = shown.id,
            found |-> picked # None => (picked.at = edits => id = picked.id),
            pick |-> IF picked = None THEN "none" ELSE IF picked.safe THEN "safe" ELSE "unsafe",
            style |-> styled]

Init ==
    /\ doc \in UNION {{[i \in 1..n |-> [id |-> i, text |-> f[i]]] : f \in [1..n -> Texts \ {Typed}]} :
                         n \in 1..MaxParagraphs}
    /\ edits = 0 /\ sel = 0 /\ binding = Nothing
    /\ shown = [id |-> 0, at |-> 0] /\ picked = None /\ styled = "none"
    /\ did = NoDeed

-----------------------------------------------------------------------------
(***************************************************************************)
(* Looking.  Every report of the location reads the live selection, leaves *)
(* it alone and stores its range; reads that visit paragraphs drop it.     *)
(***************************************************************************)
\* where, info, screenshot, export
Look ==
    /\ binding' = Observed(binding, sel) /\ shown' = Reported(sel)
    /\ Quietly /\ UNCHANGED <<doc, edits, sel, picked, styled>>

\* find_matches: the paragraphs in which q occurs, and the k-th of them from the start
\* of the document, 0 when there are fewer.
Hits(q) == {p \in Paras : <<q, doc[p].text>> \in Within}
Hit(q, k) ==
    LET at == {p \in Hits(q) : Cardinality({i \in Hits(q) : i <= p}) = k}
    IN  IF at = {} THEN 0 ELSE CHOOSE p \in at : TRUE

\* find_matches, then _enrich_live_find_matches_with_cursor_context, which visits
\* every match and gives only the caret back.
Find(q) ==
    LET ranks == 1..Cardinality(Hits(q)) IN
    /\ sel' = IF Hits(q) = {} THEN sel ELSE 0
    /\ binding' = [Observed(binding, sel') EXCEPT !.found =
                      [query |-> q, texts |-> [k \in ranks |-> doc[Hit(q, k)].text],
                       ids |-> [k \in ranks |-> doc[Hit(q, k)].id]]]
    /\ shown' = Reported(sel')
    /\ Quietly /\ UNCHANGED <<doc, edits, picked, styled>>

\* _resolve_live_target: a number stands for the text of that match of the last
\* find, and for its rank among the matches with the same text.
Numbered(n) ==
    [query |-> binding.found.texts[n],
     rank |-> 1 + Cardinality({k \in 1..(n - 1) : binding.found.texts[k] = binding.found.texts[n]}),
     listed |-> binding.found.ids[n]]

Named(q) == [query |-> q, rank |-> 1, listed |-> 0]

Targets ==
    {Named(q) : q \in Texts} \cup
    (IF binding.found = None THEN {} ELSE {Numbered(n) : n \in DOMAIN binding.found.texts})

(***************************************************************************)
(* Searching the live document.  `select' and `bold' try the same search   *)
(* texts (_live_find_candidates) and take the first that has the k-th      *)
(* match they ask for; but `bold' counts wherever the editor's Find stops, *)
(* `select' only what _capture_verified_live_match accepts.                *)
(***************************************************************************)
Stopped(c) == [p \in Paras |-> Stops[c, doc[p].text]]

\* The text Find selected holds the query; or the paragraph does, and is selected and
\* counted as a whole; or what was selected stands for the query.
Accepted(q, c) ==
    [p \in Paras |-> LET t == doc[p].text
                         n == Stops[c, t]
                     IN  IF <<q, c>> \in Within THEN n
                         ELSE IF <<q, t>> \in Within THEN IF n > 0 THEN 1 ELSE 0
                         ELSE IF <<c, q>> \in Anchors THEN n ELSE 0]

\* The paragraph of the k-th of so many matches per paragraph, 0 when there are fewer.
Nth(times, k) ==
    LET matches == UNION {{p} \X (1..times[p]) : p \in Paras}
        upTo(m) == {i \in matches : i[1] < m[1] \/ (i[1] = m[1] /\ i[2] <= m[2])}
        at == {m \in matches : Cardinality(upTo(m)) = k}
    IN  IF at = {} THEN 0 ELSE (CHOOSE m \in at : TRUE)[1]

Verified(t) ==
    LET tried == Candidates[t.query] IN [i \in DOMAIN tried |-> Nth(Accepted(t.query, tried[i]), t.rank)]
Raw(t) ==
    LET tried == Candidates[t.query] IN [i \in DOMAIN tried |-> Nth(Stopped(tried[i]), t.rank)]

\* The search text that is the first to find something
IsFirst(found, i) == i \in DOMAIN found /\ found[i] # 0 /\ \A j \in DOMAIN found : j < i => found[j] = 0
FirstOf(found) ==
    IF \E i \in DOMAIN found : IsFirst(found, i)
    THEN found[CHOOSE i \in DOMAIN found : IsFirst(found, i)] ELSE 0

\* _find_live_match
Match(t) == FirstOf(Verified(t))

\* Every stop for the search texts that `bold' tries is a match to `select', and one
\* of its own.
CountsAgree(t) ==
    \A i \in DOMAIN Candidates[t.query] :
        (\A j \in DOMAIN Raw(t) : j < i => Raw(t)[j] = 0)
            => Accepted(t.query, Candidates[t.query][i]) = Stopped(Candidates[t.query][i])

-----------------------------------------------------------------------------
\* `select': the match is selected and its text verified; it is safe to type over
\* when it is exactly the target and no part of a longer token, and the range was
\* still selected at the end.  The selection may also not survive the checks.
Select(t) ==
    LET p == Match(t) IN
    /\ t.query \in Texts   \* an empty target is refused
    /\ p # 0
    /\ \E exact \in BOOLEAN, kept \in BOOLEAN :
         LET safe == exact /\ kept IN
         /\ exact => <<t.query, doc[p].text>> \in Within
         /\ sel' = IF kept THEN p ELSE 0
         /\ binding' = [binding EXCEPT !.range = IF safe THEN p ELSE 0,
                                       !.last = [query |-> t.query, rank |-> t.rank, safe |-> safe],
                                       !.unsafe = ~safe]
         /\ shown' = IF safe THEN Reported(p) ELSE Reported(0)
         /\ picked' = [id |-> doc[p].id, safe |-> safe, at |-> edits]
    /\ Deed("select", IF t.listed = 0 THEN "text" ELSE "number", doc[p].id, t.listed = 0 \/ t.listed = doc[p].id)
    /\ UNCHANGED <<doc, edits, styled>>

\* move, cursormove, cellmove: the caret moves, and the context read around it
\* would drop any selection.
Move ==
    /\ sel' = 0 /\ binding' = Observed(binding, 0) /\ shown' = Reported(0)
    /\ Quietly /\ UNCHANGED <<doc, edits, picked, styled>>

\* `cell': the block of the current cell, of which the range may not be readable.
Cell ==
    /\ \E p \in Paras, r \in Selections :
         /\ r \in {0, p} /\ sel' = p /\ binding' = Observed(binding, r) /\ shown' = Reported(r)
    /\ Quietly /\ UNCHANGED <<doc, edits, picked, styled>>

\* A bundle that leaves the document alone may leave a selection.
BundleLooks ==
    /\ sel' \in Selections /\ binding' = Observed(binding, sel') /\ shown' = Reported(sel')
    /\ Quietly /\ UNCHANGED <<doc, edits, picked, styled>>

-----------------------------------------------------------------------------
Fresh == MaxParagraphs + edits + 1
Rewritten(p) == [doc EXCEPT ![p].text = Typed]
Inserted(i) == InsertAt(doc, i, [id |-> Fresh, text |-> Typed])

\* The documents one edit can make of this one.
Edited ==
    {Rewritten(p) : p \in Paras}
    \cup (IF Len(doc) < MaxParagraphs THEN {Inserted(i) : i \in 1..(Len(doc) + 1)} ELSE {})
    \cup (IF Len(doc) > 1 THEN {RemoveAt(doc, p) : p \in Paras} ELSE {})

\* What every editing command does to the binding, and to what was reported.
EditDone ==
    /\ edits' = edits + 1 /\ sel' = 0
    /\ binding' = Forgotten(binding)
    /\ shown' = [id |-> 0, at |-> edits + 1] /\ picked' = None

\* cell-replace, anchor-insert, figure-section, image, image-at-anchor, table, list,
\* bullet, undo, redo and a bundle that edits
Edit ==
    /\ edits < MaxEdits
    /\ doc' \in Edited
    /\ EditDone /\ Quietly /\ UNCHANGED styled

\* Mutant: the guard forgets what `select' reported.
MayInsert_Always(caret) == TRUE

\* type_insert_guard_reason
MayInsert(caret) == ~caret => ~(binding.last # None /\ binding.last.safe)

\* `type' over the live selection, unless `select' called it unsafe
TypeOverLive(caret) ==
    /\ edits < MaxEdits /\ sel # 0 /\ ~binding.unsafe
    /\ doc' = Rewritten(sel)
    /\ Deed("type", "live", IdOf(sel), caret) /\ EditDone /\ UNCHANGED styled

\* `type' with no live selection: the remembered range is selected again.
TypeOverRange ==
    /\ edits < MaxEdits /\ sel = 0 /\ binding.range \in Paras
    /\ doc' = Rewritten(binding.range)
    /\ Deed("type", "range", IdOf(binding.range), FALSE) /\ EditDone /\ UNCHANGED styled

TypeAtCaret(caret) ==
    /\ edits < MaxEdits /\ sel = 0 /\ (caret \/ binding.range \notin Paras) /\ MayInsert(caret)
    /\ \E p \in Paras : doc' = Rewritten(p)
    /\ Deed("type", "caret", 0, caret) /\ EditDone /\ UNCHANGED styled

-----------------------------------------------------------------------------
(***************************************************************************)
(* Character styles.  They change no text, forget the selection cache and  *)
(* keep the match list; the context read at their end drops the selection. *)
(***************************************************************************)
StyleDone(scope, consumed) ==
    /\ sel' = 0 /\ shown' = Reported(0) /\ picked' = None /\ styled' = scope
    /\ binding' = [binding EXCEPT !.range = 0, !.last = None, !.unsafe = FALSE, !.consumed = consumed]
    /\ UNCHANGED <<doc, edits>>

\* _style_selection_marker
Consumed(before, after) == before # 0 /\ after = 0

\* fontsize, font; _style_selection_refusal
Font(caret) ==
    /\ caret \/ ~binding.consumed \/ sel # 0
    /\ Deed("font", IF sel = 0 THEN "caret" ELSE "live", IdOf(sel), caret)
    /\ StyleDone(IF sel = 0 THEN "caret" ELSE "selection", Consumed(sel, sel'))

\* Mutant: the search for the proven selection stops at the first match.
Again_First(last) == FirstOf(Raw([query |-> last.query, rank |-> 1]))

\* `bold' with no live selection searches for what `select' reported.
Again(last) == FirstOf(Raw(last))

\* `bold' refuses the caret, and leaves the marker of the other styles alone.
Bold ==
    /\ \/ sel # 0 /\ Deed("bold", "live", IdOf(sel), FALSE)
       \/ /\ sel = 0 /\ binding.last # None /\ Again(binding.last) # 0
          /\ Deed("bold", "search", IdOf(Again(binding.last)), CountsAgree(binding.last))
    /\ StyleDone("bold", binding.consumed)

-----------------------------------------------------------------------------
\* pycall and action: anything may happen in the editor; the binding only drops
\* the match list.
MacroMoves ==
    /\ sel' \in Selections /\ binding' = [binding EXCEPT !.found = None]
    /\ Quietly /\ UNCHANGED <<doc, edits, shown, picked, styled>>

MacroEdits ==
    /\ edits < MaxEdits /\ edits' = edits + 1
    /\ doc' \in Edited /\ sel' \in 0..Len(doc')
    /\ binding' = [binding EXCEPT !.found = None]
    /\ Quietly /\ UNCHANGED <<shown, picked, styled>>

Next ==
    \/ Look \/ (\E q \in Texts : Find(q)) \/ (\E t \in Targets : Select(t)) \/ Move \/ Cell \/ BundleLooks
    \/ Edit \/ (\E caret \in BOOLEAN : TypeOverLive(caret) \/ TypeAtCaret(caret) \/ Font(caret))
    \/ TypeOverRange \/ Bold \/ MacroMoves \/ MacroEdits

Spec == Init /\ [][Next]_vars

-----------------------------------------------------------------------------
Ids == 0..(MaxParagraphs + MaxEdits)

\* The document, what is selected and what is remembered stay well formed; a
\* paragraph has one identity.
TypeOK ==
    /\ doc \in Seq([id : Ids, text : Texts]) /\ Len(doc) \in 1..MaxParagraphs
    /\ \A i, j \in Paras : doc[i].id = doc[j].id => i = j
    /\ edits \in 0..MaxEdits /\ sel \in Selections
    /\ binding.range \in 0..MaxParagraphs /\ binding.unsafe \in BOOLEAN /\ binding.consumed \in BOOLEAN
    /\ binding.last = None \/ (binding.last.query \in Texts /\ binding.last.safe \in BOOLEAN)
    /\ binding.found = None \/ Len(binding.found.texts) <= MaxParagraphs
    /\ shown \in [id : Ids, at : 0..MaxEdits]
    /\ picked = None \/ picked \in [id : Ids, safe : BOOLEAN, at : 0..MaxEdits]

\* When `type' finds no live selection and selects the remembered range again, the
\* text it overwrites is in the paragraph that a command last reported as selected,
\* whatever was looked at, selected, styled or edited in between; only a macro that
\* edits behind the binding's back can make the position wrong.
TypeOverwritesShown ==
    did.cmd = "type" /\ did.via = "range" => did.shown

\* While a selection that `select' reported as safe is on record, `type' does not
\* fall back to inserting at the caret unless it was told to.
TypeNeverSlips ==
    did.cmd = "type" /\ did.via = "caret" /\ ~did.told => did.pick # "safe"

\* A font or size command never styles the bare caret position right after another
\* one that used the operator's selection up, unless it was told to.
StyleNeverSlips ==
    did.cmd = "font" /\ did.via = "caret" /\ ~did.told => did.style # "selection"

\* The state is well formed, and no command falls back to the caret while a selection
\* of the operator is on record, or was until the command before it.
NeverSlips == TypeOK /\ TypeNeverSlips /\ StyleNeverSlips

\* `bold' with no live selection styles the paragraph that `select' had found, as long
\* as `select' would count what `bold' counts: where a search text also stops at what
\* `select' does not accept, or twice in what it takes as one, the k-th stop can be
\* another paragraph.
BoldFollowsSelect ==
    did.cmd = "bold" /\ did.via = "search" /\ did.told => did.found
=============================================================================
