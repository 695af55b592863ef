-------------------------- MODULE SelectionProofs --------------------------
(***************************************************************************)
(* Proofs about Selection for documents of any length, any texts that      *)
(* occur in one another, and any number of edits: what a command acts on   *)
(* is what an earlier one showed.                                          *)
(***************************************************************************)
EXTENDS Selection, FiniteSetTheorems, TLAPS

-----------------------------------------------------------------------------
(* The document. *)

\* A document whose identities are numbers up to n, each given once.
Paragraphs(n) == [id : 1..n, text : Texts]
Document(d, n) ==
    /\ d \in Seq(Paragraphs(n)) /\ Len(d) \in 1..MaxParagraphs
    /\ \A i, j \in 1..Len(d) : d[i].id = d[j].id => i = j

\* No paragraph has an identity that is still to come.
Identified == Document(doc, MaxParagraphs + edits)

\* The elements of a concatenation.
LEMMA Concatenated ==
    ASSUME NEW S, NEW a \in Seq(S), NEW b \in Seq(S)
    PROVE  /\ a \o b \in Seq(S) /\ Len(a \o b) = Len(a) + Len(b)
           /\ \A k \in 1..(Len(a) + Len(b)) :
                 (a \o b)[k] = IF k <= Len(a) THEN a[k] ELSE b[k - Len(a)]
OBVIOUS

\* An inserted element stands at its place, the others before and behind it in order.
LEMMA InsertAtIs ==
    ASSUME NEW S, NEW s \in Seq(S), NEW i \in 1..(Len(s) + 1), NEW e \in S
    PROVE  /\ InsertAt(s, i, e) \in Seq(S)
           /\ Len(InsertAt(s, i, e)) = Len(s) + 1
           /\ \A k \in 1..(Len(s) + 1) :
                 InsertAt(s, i, e)[k] = IF k < i THEN s[k] ELSE IF k = i THEN e ELSE s[k - 1]
<1> DEFINE a == SubSeq(s, 1, i - 1)
           b == SubSeq(s, i, Len(s))
           c == a \o <<e>>
<1>0. Len(s) \in Nat /\ i \in Nat /\ 1 <= i /\ i <= Len(s) + 1
  OBVIOUS
<1>1. a \in Seq(S) /\ Len(a) = i - 1 /\ \A k \in 1..(i - 1) : a[k] = s[k]
  OBVIOUS
<1>2. b \in Seq(S) /\ Len(b) = Len(s) - i + 1 /\ \A k \in 1..(Len(s) - i + 1) : b[k] = s[i + k - 1]
  OBVIOUS
<1>3. InsertAt(s, i, e) = c \o b
  BY DEF InsertAt
<1>4. <<e>> \in Seq(S) /\ Len(<<e>>) = 1 /\ <<e>>[1] = e
  OBVIOUS
<1> HIDE DEF a, b
<1>5. /\ c \in Seq(S) /\ Len(c) = i
      /\ \A k \in 1..i : c[k] = IF k <= i - 1 THEN a[k] ELSE <<e>>[k - (i - 1)]
  <2>1. Len(a) + Len(<<e>>) = i
    BY <1>0, <1>1, <1>4
  <2> QED BY <1>1, <1>4, <2>1, Concatenated
<1> HIDE DEF c
<1>6. /\ c \o b \in Seq(S) /\ Len(c \o b) = Len(s) + 1
      /\ \A k \in 1..(Len(s) + 1) : (c \o b)[k] = IF k <= i THEN c[k] ELSE b[k - i]
  <2>1. Len(c) + Len(b) = Len(s) + 1
    BY <1>0, <1>2, <1>5
  <2>2. /\ c \o b \in Seq(S) /\ Len(c \o b) = Len(c) + Len(b)
        /\ \A k \in 1..(Len(c) + Len(b)) :
              (c \o b)[k] = IF k <= Len(c) THEN c[k] ELSE b[k - Len(c)]
    BY <1>2, <1>5, Concatenated, Zenon
  <2> QED BY <1>5, <2>1, <2>2
<1>7. ASSUME NEW k \in 1..(Len(s) + 1)
      PROVE  (c \o b)[k] = IF k < i THEN s[k] ELSE IF k = i THEN e ELSE s[k - 1]
  <2>1. CASE k < i
    <3>1. k \in 1..i /\ k \in 1..(i - 1) /\ k <= i
      BY <1>0, <2>1
    <3>2. c[k] = s[k]
      BY <1>1, <1>5, <3>1
    <3> QED BY <1>6, <2>1, <3>1, <3>2
  <2>2. CASE k = i
    <3>1. i \in 1..i /\ i - (i - 1) = 1 /\ ~(i <= i - 1)
      BY <1>0
    <3>2. c[i] = e
      BY <1>4, <1>5, <3>1
    <3> QED BY <1>0, <1>6, <2>2, <3>2
  <2>3. CASE k > i
    <3>1. k - i \in 1..(Len(s) - i + 1) /\ i + (k - i) - 1 = k - 1
      BY <1>0, <2>3
    <3>2. b[k - i] = s[k - 1]
      BY <1>2, <3>1
    <3>3. (c \o b)[k] = b[k - i]
      BY <1>0, <1>6, <2>3
    <3> QED BY <1>0, <2>3, <3>2, <3>3
  <2>4. k < i \/ k = i \/ k > i
    BY <1>0
  <2> QED BY <2>1, <2>2, <2>3, <2>4, Zenon
<1> QED BY <1>3, <1>6, <1>7

\* A removed element is gone, the others keep their order.
LEMMA RemoveAtIs ==
    ASSUME NEW S, NEW s \in Seq(S), NEW i \in 1..Len(s)
    PROVE  /\ RemoveAt(s, i) \in Seq(S)
           /\ Len(RemoveAt(s, i)) = Len(s) - 1
           /\ \A k \in 1..(Len(s) - 1) : RemoveAt(s, i)[k] = IF k < i THEN s[k] ELSE s[k + 1]
<1> DEFINE a == SubSeq(s, 1, i - 1)
           b == SubSeq(s, i + 1, Len(s))
<1>0. Len(s) \in Nat /\ i \in Nat /\ 1 <= i /\ i <= Len(s)
  OBVIOUS
<1>1. a \in Seq(S) /\ Len(a) = i - 1 /\ \A k \in 1..(i - 1) : a[k] = s[k]
  OBVIOUS
<1>2. b \in Seq(S) /\ Len(b) = Len(s) - i /\ \A k \in 1..(Len(s) - i) : b[k] = s[i + k]
  OBVIOUS
<1>3. RemoveAt(s, i) = a \o b
  BY DEF RemoveAt
<1> HIDE DEF a, b
<1>4. /\ a \o b \in Seq(S) /\ Len(a \o b) = Len(s) - 1
      /\ \A k \in 1..(Len(s) - 1) :
            (a \o b)[k] = IF k <= i - 1 THEN a[k] ELSE b[k - (i - 1)]
  <2>1. Len(a) + Len(b) = Len(s) - 1
    BY <1>0, <1>1, <1>2
  <2>2. /\ a \o b \in Seq(S) /\ Len(a \o b) = Len(a) + Len(b)
        /\ \A k \in 1..(Len(a) + Len(b)) :
              (a \o b)[k] = IF k <= Len(a) THEN a[k] ELSE b[k - Len(a)]
    BY <1>1, <1>2, Concatenated, Zenon
  <2> QED BY <1>1, <2>1, <2>2
<1>5. ASSUME NEW k \in 1..(Len(s) - 1)
      PROVE  (a \o b)[k] = IF k < i THEN s[k] ELSE s[k + 1]
  <2>1. CASE k < i
    <3>1. k <= i - 1 /\ k \in 1..(i - 1)
      BY <1>0, <2>1
    <3> QED BY <1>1, <1>4, <2>1, <3>1
  <2>2. CASE k >= i
    <3>1. k - (i - 1) \in 1..(Len(s) - i) /\ i + (k - (i - 1)) = k + 1 /\ ~(k <= i - 1)
      BY <1>0, <2>2
    <3>2. b[k - (i - 1)] = s[k + 1]
      BY <1>2, <3>1
    <3>3. (a \o b)[k] = b[k - (i - 1)]
      BY <1>4, <3>1
    <3> QED BY <1>0, <2>2, <3>2, <3>3
  <2>3. k < i \/ k >= i
    BY <1>0
  <2> QED BY <2>1, <2>2, <2>3, Zenon
<1> QED BY <1>3, <1>4, <1>5

\* A sequence of elements of a set is one of elements of a larger set.
LEMMA Wider ==
    ASSUME NEW S, NEW T, S \subseteq T, NEW s \in Seq(S)
    PROVE  s \in Seq(T)
OBVIOUS

\* What one edit makes of a document is one again, with at most one identity more.
LEMMA EditedIs ==
    ASSUME edits \in Nat, Identified, NEW d \in Edited
    PROVE  Document(d, MaxParagraphs + edits + 1)
<1> DEFINE n == MaxParagraphs + edits
           new == [id |-> Fresh, text |-> Typed]
           P == Paragraphs(n + 1)
<1>0. n \in Nat /\ MaxParagraphs \in Nat /\ Fresh = n + 1 /\ Typed \in Texts
  BY SelectionAssumption DEF Fresh
<1> HIDE DEF n
<1>1. Paragraphs(n) \subseteq P /\ new \in P
  BY <1>0 DEF Paragraphs
<1>2. doc \in Seq(P) /\ Len(doc) \in 1..MaxParagraphs
  BY <1>1, Wider DEF Identified, Document, n
<1>3. \A p \in Paras : doc[p] \in Paragraphs(n)
  BY DEF Identified, Document, Paras, n
<1>4. \A i, j \in Paras : doc[i].id = doc[j].id => i = j
  BY DEF Identified, Document, Paras
<1>5. \A p \in Paras : doc[p].id # Fresh
  BY <1>0, <1>3 DEF Paragraphs
<1> HIDE DEF P
<1>6. ASSUME NEW p \in Paras, d = Rewritten(p)
      PROVE  Document(d, n + 1)
  <2>1. doc[p] \in P /\ [doc[p] EXCEPT !.text = Typed] \in P
    BY <1>0, <1>2, <1>3 DEF P, Paragraphs, Paras
  <2>2. d = [doc EXCEPT ![p] = [doc[p] EXCEPT !.text = Typed]]
    BY <1>6 DEF Rewritten
  <2>3. d \in Seq(P) /\ Len(d) = Len(doc)
    BY <1>2, <2>1, <2>2 DEF Paras
  <2>4. \A i \in Paras : d[i].id = doc[i].id
    BY <1>2, <1>3, <2>2 DEF Paras, Paragraphs
  <2> QED BY <1>2, <1>4, <2>3, <2>4 DEF Document, P, Paras
<1>7. ASSUME Len(doc) < MaxParagraphs, NEW i \in 1..(Len(doc) + 1), d = Inserted(i)
      PROVE  Document(d, n + 1)
  <2>1. /\ d \in Seq(P) /\ Len(d) = Len(doc) + 1
        /\ \A k \in 1..(Len(doc) + 1) :
              d[k] = IF k < i THEN doc[k] ELSE IF k = i THEN new ELSE doc[k - 1]
    BY <1>1, <1>2, <1>7, InsertAtIs DEF Inserted
  <2>2. ASSUME NEW k \in 1..Len(d), NEW l \in 1..Len(d), d[k].id = d[l].id
        PROVE  k = l
    <3> DEFINE at(m) == IF m < i THEN m ELSE m - 1
    <3>0. Len(doc) \in Nat /\ i \in Nat /\ k \in Nat /\ l \in Nat
      BY <1>2, <2>1
    <3>1. k # i => at(k) \in Paras /\ d[k] = doc[at(k)]
      BY <2>1, <3>0 DEF Paras
    <3>2. l # i => at(l) \in Paras /\ d[l] = doc[at(l)]
      BY <2>1, <3>0 DEF Paras
    <3>3. (k = i => d[k].id = Fresh) /\ (l = i => d[l].id = Fresh)
      BY <2>1
    <3>4. CASE k # i /\ l # i
      <4>1. at(k) = at(l)
        BY <1>4, <2>2, <3>1, <3>2, <3>4
      <4> QED BY <3>0, <3>4, <4>1
    <3>5. CASE k = i \/ l = i
      BY <1>5, <2>2, <3>1, <3>2, <3>3, <3>5
    <3> QED BY <3>4, <3>5
  <2>3. Len(d) \in 1..MaxParagraphs
    BY <1>0, <1>2, <1>7, <2>1
  <2> QED BY <2>1, <2>2, <2>3 DEF Document, P
<1>8. ASSUME Len(doc) > 1, NEW p \in Paras, d = RemoveAt(doc, p)
      PROVE  Document(d, n + 1)
  <2>1. /\ d \in Seq(P) /\ Len(d) = Len(doc) - 1
        /\ \A k \in 1..(Len(doc) - 1) : d[k] = IF k < p THEN doc[k] ELSE doc[k + 1]
    BY <1>2, <1>8, RemoveAtIs DEF Paras
  <2>2. ASSUME NEW k \in 1..Len(d), NEW l \in 1..Len(d), d[k].id = d[l].id
        PROVE  k = l
    <3> DEFINE at(m) == IF m < p THEN m ELSE m + 1
    <3>0. Len(doc) \in Nat /\ p \in Nat /\ k \in Nat /\ l \in Nat
      BY <1>2, <2>1 DEF Paras
    <3>1. at(k) \in Paras /\ d[k] = doc[at(k)]
      BY <2>1, <3>0 DEF Paras
    <3>2. at(l) \in Paras /\ d[l] = doc[at(l)]
      BY <2>1, <3>0 DEF Paras
    <3>3. at(k) = at(l)
      BY <1>4, <2>2, <3>1, <3>2
    <3> QED BY <3>0, <3>3
  <2>3. Len(d) \in 1..MaxParagraphs
    BY <1>0, <1>2, <1>8, <2>1
  <2> QED BY <2>1, <2>2, <2>3 DEF Document, P
<1> QED BY <1>6, <1>7, <1>8 DEF Edited, n

-----------------------------------------------------------------------------
(* What is remembered, and what it stands for. *)

Remembered == [query : Texts, rank : Nat, safe : BOOLEAN]

\* The binding has its fields, and what `select' reported names a match.
BindingOK ==
    /\ binding = [range |-> binding.range, last |-> binding.last, unsafe |-> binding.unsafe,
                  consumed |-> binding.consumed, found |-> binding.found]
    /\ binding.last \in Remembered \cup {None}
    /\ binding.found # None => \E m \in Nat : DOMAIN binding.found.texts = 1..m

\* As long as nothing has been edited since, the remembered range is what was shown.
RangeOK ==
    shown.at <= edits /\ (shown.at = edits => binding.range \in Selections
                                              /\ shown.id = IdOf(binding.range))

\* The result of `select' is on record as long as it counts, and would be found again.
PickOK ==
    picked # None =>
        /\ picked.at <= edits
        /\ binding.last # None
        /\ picked.safe => binding.last.safe
        /\ picked.at = edits /\ Again(binding.last) # 0 /\ CountsAgree(binding.last)
              => IdOf(Again(binding.last)) = picked.id

\* A style that used the selection up has left its mark.
StyleOK == styled = "selection" => binding.consumed

\* What an earlier command left is what the properties speak of.
DeedsOK == TypeOverwritesShown /\ TypeNeverSlips /\ StyleNeverSlips /\ BoldFollowsSelect

Inv == TypeOK /\ Identified /\ BindingOK /\ RangeOK /\ PickOK /\ StyleOK /\ DeedsOK

\* There are no more matches than paragraphs, and each is one.
LEMMA HitsAre ==
    ASSUME Len(doc) \in Nat, NEW q
    PROVE  /\ IsFiniteSet(Hits(q)) /\ Cardinality(Hits(q)) \in 0..Len(doc)
           /\ \A k : Hit(q, k) # 0 => Hit(q, k) \in Hits(q)
<1>1. IsFiniteSet(Paras) /\ Cardinality(Paras) = Len(doc)
  BY FS_Interval DEF Paras
<1>2. Hits(q) \subseteq Paras
  BY DEF Hits
<1>3. IsFiniteSet(Hits(q)) /\ Cardinality(Hits(q)) <= Len(doc) /\ Cardinality(Hits(q)) \in Nat
  BY <1>1, <1>2, FS_Subset, FS_CardinalityType
<1>4. ASSUME NEW k, Hit(q, k) # 0
      PROVE  Hit(q, k) \in Hits(q)
  BY <1>4 DEF Hit
<1> QED BY <1>3, <1>4

\* The match of a target is a paragraph.
LEMMA MatchIs ==
    ASSUME NEW t, Match(t) # 0
    PROVE  Match(t) \in Paras
<1>1. ASSUME NEW times, NEW k, Nth(times, k) # 0 PROVE Nth(times, k) \in Paras
  <2> DEFINE matches == UNION {{p} \X (1..times[p]) : p \in Paras}
  <2>1. PICK m \in matches : Nth(times, k) = m[1]
    <3> DEFINE upTo(m) == {i \in matches : i[1] < m[1] \/ (i[1] = m[1] /\ i[2] <= m[2])}
               at == {m \in matches : Cardinality(upTo(m)) = k}
    <3>1. Nth(times, k) = IF at = {} THEN 0 ELSE (CHOOSE m \in at : TRUE)[1]
      BY Zenon DEF Nth
    <3>2. at \subseteq matches
      OBVIOUS
    <3> HIDE DEF at, matches
    <3>3. at # {}
      BY <1>1, <3>1
    <3> QED BY <3>1, <3>2, <3>3
  <2>2. PICK p \in Paras : m \in {p} \X (1..times[p])
    BY <2>1
  <2> QED BY <2>1, <2>2
<1>2. PICK i \in DOMAIN Verified(t) : Match(t) = Verified(t)[i]
  BY DEF Match, FirstOf
<1>3. \E times : Verified(t)[i] = Nth(times, t.rank)
  BY <1>2 DEF Verified
<1> QED BY <1>1, <1>2, <1>3

\* What finds something first does so in every list that agrees with it up to there.
LEMMA SameFirst ==
    ASSUME NEW raw, NEW seen, DOMAIN raw = DOMAIN seen, DOMAIN raw \subseteq Nat, FirstOf(raw) # 0,
           \A i \in DOMAIN raw : (\A j \in DOMAIN raw : j < i => raw[j] = 0) => seen[i] = raw[i]
    PROVE  FirstOf(seen) = FirstOf(raw)
<1>1. PICK i \in DOMAIN raw : IsFirst(raw, i)
  BY DEF FirstOf
<1>2. \A j \in DOMAIN raw : IsFirst(raw, j) => j = i
  BY <1>1 DEF IsFirst
<1>3. seen[i] = raw[i] /\ IsFirst(seen, i)
  <2>1. \A j \in DOMAIN raw : j < i => seen[j] = raw[j]
    BY <1>1 DEF IsFirst
  <2> QED BY <1>1, <2>1 DEF IsFirst
<1>4. \A j \in DOMAIN seen : IsFirst(seen, j) => j = i
  BY <1>1, <1>3 DEF IsFirst
<1> QED BY <1>1, <1>2, <1>3, <1>4 DEF FirstOf

\* Where the counts agree, `bold' finds what `select' found.
LEMMA SamePlace ==
    ASSUME NEW t, t.query \in Texts, Again(t) # 0, CountsAgree(t)
    PROVE  Again(t) = Match(t)
<1> DEFINE tried == Candidates[t.query]
<1>1. DOMAIN Raw(t) = DOMAIN tried /\ DOMAIN Verified(t) = DOMAIN tried
  BY DEF Raw, Verified
<1>2. DOMAIN tried \subseteq Nat
  <2>1. tried \in Seq(Texts)
    BY SelectionAssumption
  <2> HIDE DEF tried
  <2> QED BY <2>1
<1>3. \A i \in DOMAIN tried : (\A j \in DOMAIN Raw(t) : j < i => Raw(t)[j] = 0)
                                 => Verified(t)[i] = Raw(t)[i]
  BY DEF CountsAgree, Raw, Verified
<1> HIDE DEF tried
<1> QED BY <1>1, <1>2, <1>3, SameFirst DEF Again, Match

\* A target has a rank.
LEMMA TargetIs ==
    ASSUME BindingOK, NEW t \in Targets
    PROVE  t.rank \in Nat
<1>1. CASE \E q \in Texts : t = Named(q)
  BY <1>1 DEF Named
<1>2. ASSUME NEW n \in DOMAIN binding.found.texts, t = Numbered(n), binding.found # None
      PROVE  t.rank \in Nat
  <2> DEFINE before == {k \in 1..(n - 1) : binding.found.texts[k] = binding.found.texts[n]}
  <2>1. n \in Nat
    BY <1>2 DEF BindingOK
  <2>2. IsFiniteSet(1..(n - 1)) /\ before \subseteq 1..(n - 1)
    BY <2>1, FS_Interval
  <2>3. Cardinality(before) \in Nat
    BY <2>2, FS_Subset, FS_CardinalityType
  <2> QED BY <1>2, <2>3 DEF Numbered
<1> QED BY <1>1, <1>2 DEF Targets

\* What a step may put into the binding and into the histories.
BindingTyped ==
    /\ binding.range \in 0..MaxParagraphs /\ binding.unsafe \in BOOLEAN
    /\ binding.consumed \in BOOLEAN
    /\ binding.last = None \/ (binding.last.query \in Texts /\ binding.last.safe \in BOOLEAN)
    /\ binding.found = None \/ Len(binding.found.texts) <= MaxParagraphs
    /\ BindingOK
HistoryTyped ==
    /\ shown \in [id : Ids, at : 0..MaxEdits]
    /\ picked = None \/ picked \in [id : Ids, safe : BOOLEAN, at : 0..MaxEdits]

\* Every paragraph has an identity that a report can name.
LEMMA Reportable ==
    ASSUME TypeOK, NEW p \in Selections
    PROVE  /\ Reported(p) \in [id : Ids, at : 0..MaxEdits] /\ p \in 0..MaxParagraphs
           /\ p # 0 => doc[p].id \in Ids
<1>1. p # 0 => doc[p] \in [id : Ids, text : Texts]
  <2> DEFINE P == [id : Ids, text : Texts]
  <2>1. doc \in Seq(P) /\ p \in 0..Len(doc)
    BY DEF TypeOK, Selections
  <2> HIDE DEF P
  <2>2. p # 0 => p \in 1..Len(doc) /\ doc[p] \in P
    BY <2>1
  <2> QED BY <2>2 DEF P
<1>2. p \in 0..MaxParagraphs /\ 0 \in Ids
  BY SelectionAssumption DEF TypeOK, Selections, Ids
<1>3. IdOf(p) \in Ids
  BY <1>1, <1>2 DEF IdOf
<1> QED BY <1>1, <1>2, <1>3 DEF TypeOK, Reported

\* What is observed, forgotten or styled leaves a binding.
LEMMA BindingsTyped ==
    ASSUME BindingTyped
    PROVE  /\ \A p \in 0..MaxParagraphs :
                 binding' = Observed(binding, p) => BindingTyped'
           /\ binding' = Forgotten(binding) => BindingTyped'
           /\ binding' = [binding EXCEPT !.found = None] => BindingTyped'
           /\ binding' = binding => BindingTyped'
<1>1. ASSUME NEW p \in 0..MaxParagraphs, binding' = Observed(binding, p) PROVE BindingTyped'
  BY <1>1 DEF Observed, BindingTyped, BindingOK
<1>2. ASSUME binding' = Forgotten(binding) PROVE BindingTyped'
  <2>1. /\ binding'.range = 0 /\ binding'.last = None /\ binding'.unsafe = FALSE
        /\ binding'.found = None /\ binding'.consumed = binding.consumed
        /\ binding' = [range |-> 0, last |-> None, unsafe |-> FALSE,
                       consumed |-> binding.consumed, found |-> None]
    BY <1>2, Zenon DEF Forgotten, BindingTyped, BindingOK
  <2>2. 0 \in 0..MaxParagraphs
    BY SelectionAssumption
  <2> QED BY <2>1, <2>2, Zenon DEF BindingTyped, BindingOK
<1>3. ASSUME binding' = [binding EXCEPT !.found = None] PROVE BindingTyped'
  BY <1>3 DEF BindingTyped, BindingOK
<1>4. ASSUME binding' = binding PROVE BindingTyped'
  BY <1>4 DEF BindingTyped, BindingOK
<1> QED BY <1>1, <1>2, <1>3, <1>4

\* An edit puts Typed documents in the place of typed ones and forgets what was remembered.
LEMMA EditTyped ==
    ASSUME TypeOK, Identified, BindingOK, edits < MaxEdits, doc' \in Edited,
           edits' = edits + 1, sel' \in 0..Len(doc'), BindingTyped',
           HistoryTyped'
    PROVE  (TypeOK /\ Identified /\ BindingOK)'
<1>1. edits \in 0..MaxEdits /\ edits' \in 0..MaxEdits /\ MaxEdits \in Nat /\ MaxParagraphs \in Nat
  BY SelectionAssumption DEF TypeOK
<1>2. MaxParagraphs + edits' = MaxParagraphs + edits + 1
  BY <1>1
<1>3. Identified'
  <2>1. Document(doc', MaxParagraphs + edits + 1)
    BY <1>1, EditedIs
  <2>2. Document(doc', MaxParagraphs + edits')
    BY <1>2, <2>1
  <2> QED BY <2>2 DEF Identified, Document
<1>4. (doc \in Seq([id : Ids, text : Texts]))'
  <2> DEFINE P == [id : Ids, text : Texts]
             Q == Paragraphs(MaxParagraphs + edits')
  <2>1. Q \subseteq P
    BY <1>1 DEF Paragraphs, Ids
  <2>2. doc' \in Seq(Q)
    BY <1>3 DEF Identified, Document, Paragraphs
  <2> HIDE DEF P, Q
  <2>3. doc' \in Seq(P)
    BY <2>1, <2>2, Wider
  <2> QED BY <2>3 DEF P, Ids
<1>5. (sel \in Selections)'
  BY DEF Selections
<1> QED BY <1>1, <1>3, <1>4, <1>5 DEF TypeOK, Identified, Document, BindingTyped,
           HistoryTyped, Paras, Selections

\* A step that leaves the document alone.
LEMMA LookTyped ==
    ASSUME TypeOK, Identified, BindingOK, UNCHANGED <<doc, edits>>, sel' \in Selections,
           BindingTyped', HistoryTyped'
    PROVE  (TypeOK /\ Identified /\ BindingOK)'
BY DEF TypeOK, Identified, Document, Paragraphs, BindingTyped, HistoryTyped, Paras, Selections

\* A text typed over a paragraph is an edit.
LEMMA RewrittenIs == \A p \in Paras : Rewritten(p) \in Edited
BY DEF Edited

\* What every edit leaves of the binding and of the histories is typed.
LEMMA EditDoneTyped ==
    ASSUME TypeOK, BindingOK, edits < MaxEdits, EditDone
    PROVE  edits' = edits + 1 /\ sel' = 0 /\ BindingTyped' /\ HistoryTyped'
<1>1. BindingTyped
  BY DEF TypeOK, BindingTyped
<1>2. edits \in Nat /\ MaxEdits \in Nat /\ edits + 1 \in 0..MaxEdits /\ 0 \in Ids
  BY SelectionAssumption DEF TypeOK, Ids
<1>3. shown' \in [id : Ids, at : 0..MaxEdits]
  BY <1>2 DEF EditDone
<1> QED BY <1>1, <1>3, BindingsTyped DEF EditDone, HistoryTyped, Ids

\* Every step keeps the state well formed, and an identity is given out once.
LEMMA TypeStep ==
    ASSUME TypeOK, Identified, BindingOK, [Next]_vars
    PROVE  (TypeOK /\ Identified /\ BindingOK)'
<1>0. /\ Len(doc) \in Nat /\ MaxParagraphs \in Nat /\ edits \in Nat /\ BindingTyped
      /\ HistoryTyped /\ sel \in Selections /\ 0 \in Selections /\ 0 \in 0..MaxParagraphs
  BY SelectionAssumption DEF TypeOK, BindingTyped, HistoryTyped, Selections
<1>h. ASSUME UNCHANGED picked, shown' \in [id : Ids, at : 0..MaxEdits]
      PROVE  HistoryTyped'
  BY <1>0, <1>h DEF HistoryTyped, Ids
<1>o. ASSUME NEW p \in Selections, NEW r \in Selections, binding' = Observed(binding, p),
             shown' = Reported(r), UNCHANGED picked
      PROVE  BindingTyped' /\ HistoryTyped'
  BY <1>0, <1>h, <1>o, BindingsTyped, Reportable
<1>1. CASE Look
  BY <1>0, <1>1, <1>o, LookTyped DEF Look
<1>2. ASSUME NEW q \in Texts, Find(q) PROVE (TypeOK /\ Identified /\ BindingOK)'
  <2>1. sel' \in Selections
    BY <1>0, <1>2 DEF Find
  <2>2. Cardinality(Hits(q)) \in 0..MaxParagraphs
    BY <1>0, HitsAre DEF TypeOK
  <2>3. BindingTyped'
    <3> DEFINE ranks == 1..Cardinality(Hits(q))
               texts == [k \in ranks |-> doc[Hit(q, k)].text]
               found == [query |-> q, texts |-> texts, ids |-> [k \in ranks |-> doc[Hit(q, k)].id]]
    <3>1. Len(texts) <= MaxParagraphs /\ DOMAIN texts = ranks /\ Cardinality(Hits(q)) \in Nat
      BY <2>2
    <3> HIDE DEF texts
    <3>2. binding' = [Observed(binding, sel') EXCEPT !.found = found] /\ found.texts = texts
      BY <1>2 DEF Find, texts
    <3> HIDE DEF found
    <3>3. sel' \in 0..MaxParagraphs
      BY <2>1, Reportable
    <3> QED BY <1>0, <3>1, <3>2, <3>3 DEF Observed, BindingTyped, BindingOK
  <2>4. HistoryTyped'
    BY <1>2, <1>h, <2>1, Reportable DEF Find
  <2> QED BY <1>2, <2>1, <2>3, <2>4, LookTyped DEF Find
<1>3. ASSUME NEW t \in Targets, Select(t) PROVE (TypeOK /\ Identified /\ BindingOK)'
  <2> DEFINE p == Match(t)
  <2>1. p \in Paras /\ t.query \in Texts /\ t.rank \in Nat
    BY <1>0, <1>3, MatchIs, TargetIs DEF Select
  <2>2. p \in Selections /\ p # 0
    BY <1>0, <2>1 DEF Paras, Selections
  <2> HIDE DEF p
  <2>3. PICK exact \in BOOLEAN, kept \in BOOLEAN :
          LET safe == exact /\ kept IN
          /\ sel' = IF kept THEN p ELSE 0
          /\ binding' = [binding EXCEPT !.range = IF safe THEN p ELSE 0,
                                        !.last = [query |-> t.query, rank |-> t.rank, safe |-> safe],
                                        !.unsafe = ~safe]
          /\ shown' = IF safe THEN Reported(p) ELSE Reported(0)
          /\ picked' = [id |-> doc[p].id, safe |-> safe, at |-> edits]
    BY <1>3 DEF Select, p
  <2> DEFINE safe == exact /\ kept
  <2>4. sel' \in Selections
    BY <1>0, <2>2, <2>3
  <2>5. BindingTyped'
    <3> DEFINE last == [query |-> t.query, rank |-> t.rank, safe |-> safe]
    <3>1. /\ binding' = [binding EXCEPT !.range = IF safe THEN p ELSE 0, !.last = last,
                                        !.unsafe = ~safe]
          /\ safe \in BOOLEAN /\ (~safe) \in BOOLEAN
          /\ (IF safe THEN p ELSE 0) \in 0..MaxParagraphs
      BY <1>0, <2>2, <2>3, Reportable
    <3>2. last \in Remembered /\ last.query = t.query /\ last.safe = safe
      BY <2>1, <3>1, Zenon DEF Remembered
    <3> HIDE DEF last, safe
    <3> QED BY <1>0, <2>1, <3>1, <3>2, Zenon DEF BindingTyped, BindingOK
  <2>6. HistoryTyped'
    <3>1. doc[p].id \in Ids /\ Reported(p) \in [id : Ids, at : 0..MaxEdits]
          /\ Reported(0) \in [id : Ids, at : 0..MaxEdits]
      BY <1>0, <2>2, Reportable
    <3>2. edits \in 0..MaxEdits /\ safe \in BOOLEAN
      BY <2>3 DEF TypeOK
    <3> HIDE DEF safe
    <3>3. picked' \in [id : Ids, safe : BOOLEAN, at : 0..MaxEdits]
      BY <2>3, <3>1, <3>2, Zenon DEF safe
    <3>4. shown' \in [id : Ids, at : 0..MaxEdits]
      BY <2>3, <3>1, Zenon
    <3> QED BY <3>3, <3>4 DEF HistoryTyped, Ids
  <2> QED BY <1>3, <2>4, <2>5, <2>6, LookTyped DEF Select
<1>4. CASE Move
  BY <1>0, <1>4, <1>o, LookTyped DEF Move
<1>5. CASE Cell
  <2>1. PICK p \in Paras, r \in Selections :
          r \in {0, p} /\ sel' = p /\ binding' = Observed(binding, r) /\ shown' = Reported(r)
    BY <1>5 DEF Cell
  <2>2. p \in Selections
    BY DEF Paras, Selections
  <2> QED BY <1>5, <1>o, <2>1, <2>2, LookTyped DEF Cell
<1>6. CASE BundleLooks
  BY <1>0, <1>6, <1>o, LookTyped DEF BundleLooks
<1>e. ASSUME edits < MaxEdits, doc' \in Edited, EditDone
      PROVE  (TypeOK /\ Identified /\ BindingOK)'
  <2>1. Document(doc', MaxParagraphs + edits + 1)
    BY <1>0, <1>e, EditedIs
  <2>2. sel' \in 0..Len(doc')
    BY <1>e, <2>1, EditDoneTyped DEF Document
  <2> QED BY <1>e, <2>2, EditDoneTyped, EditTyped
<1>7. CASE Edit
  BY <1>7, <1>e DEF Edit
<1>8. ASSUME NEW caret \in BOOLEAN, TypeOverLive(caret)
      PROVE  (TypeOK /\ Identified /\ BindingOK)'
  <2>1. sel \in Paras
    BY <1>0, <1>8 DEF TypeOverLive, Selections, Paras
  <2> QED BY <1>8, <1>e, <2>1, RewrittenIs DEF TypeOverLive
<1>9. CASE TypeOverRange
  BY <1>9, <1>e, RewrittenIs DEF TypeOverRange
<1>10. ASSUME NEW caret \in BOOLEAN, TypeAtCaret(caret)
      PROVE  (TypeOK /\ Identified /\ BindingOK)'
  BY <1>10, <1>e, RewrittenIs DEF TypeAtCaret
<1>s. ASSUME NEW scope, NEW consumed \in BOOLEAN, StyleDone(scope, consumed)
      PROVE  (TypeOK /\ Identified /\ BindingOK)'
  <2>1. BindingTyped'
    BY <1>0, <1>s, Zenon DEF StyleDone, BindingTyped, BindingOK
  <2>2. HistoryTyped'
    <3>1. shown' \in [id : Ids, at : 0..MaxEdits] /\ picked' = None
      BY <1>0, <1>s, Reportable DEF StyleDone
    <3> QED BY <3>1 DEF HistoryTyped, Ids
  <2> QED BY <1>0, <1>s, <2>1, <2>2, LookTyped DEF StyleDone
<1>11. ASSUME NEW caret \in BOOLEAN, Font(caret)
      PROVE  (TypeOK /\ Identified /\ BindingOK)'
  <2>1. Consumed(sel, sel') \in BOOLEAN
    BY DEF Consumed
  <2> QED BY <1>11, <1>s, <2>1 DEF Font
<1>12. CASE Bold
  BY <1>0, <1>12, <1>s DEF Bold, BindingTyped
<1>13. CASE MacroMoves
  <2>1. BindingTyped' /\ HistoryTyped'
    BY <1>0, <1>13, BindingsTyped DEF MacroMoves, HistoryTyped, Ids
  <2> QED BY <1>13, <2>1, LookTyped DEF MacroMoves
<1>14. CASE MacroEdits
  <2>1. BindingTyped' /\ HistoryTyped'
    BY <1>0, <1>14, BindingsTyped DEF MacroEdits, HistoryTyped, Ids
  <2> QED BY <1>14, <2>1, EditTyped DEF MacroEdits
<1>15. CASE UNCHANGED vars
  <2>1. BindingTyped' /\ HistoryTyped' /\ sel' \in Selections
    BY <1>0, <1>15, BindingsTyped DEF vars, HistoryTyped, Ids
  <2> QED BY <1>15, <2>1, LookTyped DEF vars
<1> QED
  BY <1>1, <1>2, <1>3, <1>4, <1>5, <1>6, <1>7, <1>8, <1>9, <1>10, <1>11, <1>12, <1>13,
     <1>14, <1>15 DEF Next

-----------------------------------------------------------------------------
(* What a step makes of the histories. *)

\* A step that leaves the document alone leaves every match where it is.
LEMMA SameMatch ==
    ASSUME UNCHANGED doc
    PROVE  /\ \A t : Match(t)' = Match(t) /\ Again(t)' = Again(t)
           /\ \A t : CountsAgree(t)' <=> CountsAgree(t)
           /\ \A p : IdOf(p)' = IdOf(p)
           /\ Selections' = Selections
<1>1. /\ \A c : Stopped(c)' = Stopped(c)
      /\ \A q, c : Accepted(q, c)' = Accepted(q, c)
      /\ \A times, k : Nth(times, k)' = Nth(times, k)
  BY DEF Stopped, Accepted, Nth, Paras
<1>2. \A t : Raw(t)' = Raw(t) /\ Verified(t)' = Verified(t)
  BY <1>1 DEF Raw, Verified
<1>3. \A t : Match(t)' = Match(t) /\ Again(t)' = Again(t)
  BY <1>2 DEF Match, Again, FirstOf, IsFirst
<1>4. \A t : CountsAgree(t)' <=> CountsAgree(t)
  BY <1>1, <1>2 DEF CountsAgree
<1> QED BY <1>3, <1>4 DEF IdOf, Selections

\* What was shown before an edit does not count after it.
LEMMA RangeStep ==
    ASSUME TypeOK, TypeOK', BindingOK, RangeOK, [Next]_vars
    PROVE  RangeOK'
<1> USE SelectionAssumption
<1>0. edits \in Nat /\ 0 \in Selections /\ sel \in Selections /\ Len(doc) \in Nat /\ shown.at \in Nat
  BY DEF TypeOK, Selections
<1>i. /\ \A p : IdOf(p) = IF p = 0 THEN 0 ELSE doc[p].id
      /\ \A p : Reported(p).at = edits /\ Reported(p).id = IdOf(p)
      /\ \A p : Observed(binding, p).range = p
  BY DEF IdOf, Reported, Observed, BindingOK
<1>k. ASSUME UNCHANGED <<doc, edits>>, NEW p \in Selections, binding'.range = p, shown' = Reported(p)
      PROVE  RangeOK'
  BY <1>0, <1>i, <1>k, SameMatch DEF RangeOK
<1>u. ASSUME UNCHANGED <<doc, edits, shown>>, binding'.range = binding.range
      PROVE  RangeOK'
  BY <1>u, SameMatch DEF RangeOK
<1>e. ASSUME edits' = edits + 1, UNCHANGED shown
      PROVE  RangeOK'
  BY <1>0, <1>e DEF RangeOK
<1>d. ASSUME EditDone
      PROVE  RangeOK'
  <2>1. binding'.range = 0 /\ shown'.id = 0 /\ shown'.at = edits' /\ edits' \in Nat
    BY <1>0, <1>d DEF EditDone, Forgotten, BindingOK
  <2>2. IdOf(binding.range)' = 0 /\ (binding.range \in Selections)'
    BY <2>1 DEF TypeOK, IdOf, Selections
  <2> QED BY <2>1, <2>2 DEF RangeOK
<1>1. CASE Look \/ Move \/ BundleLooks
  BY <1>0, <1>1, <1>i, <1>k DEF Look, Move, BundleLooks
<1>2. ASSUME NEW q \in Texts, Find(q) PROVE RangeOK'
  <2>1. binding'.range = sel' /\ sel' \in Selections /\ shown' = Reported(sel') /\ UNCHANGED <<doc, edits>>
    BY <1>0, <1>2 DEF Find, Observed, BindingOK
  <2> QED BY <1>k, <2>1
<1>3. ASSUME NEW t \in Targets, Select(t) PROVE RangeOK'
  <2>1. Match(t) \in Selections
    BY <1>0, <1>3, MatchIs DEF Select, Paras, Selections
  <2>2. UNCHANGED <<doc, edits>> /\ \E p \in {0, Match(t)} : binding'.range = p /\ shown' = Reported(p)
    BY <1>3 DEF Select, BindingOK
  <2> QED BY <1>0, <1>k, <2>1, <2>2
<1>4. CASE Cell
  <2>1. UNCHANGED <<doc, edits>> /\ \E r \in Selections : binding'.range = r /\ shown' = Reported(r)
    BY <1>4, <1>i DEF Cell
  <2> QED BY <1>k, <2>1
<1>5. CASE Edit \/ TypeOverRange
  BY <1>5, <1>d DEF Edit, TypeOverRange
<1>6. ASSUME NEW caret \in BOOLEAN, TypeOverLive(caret) \/ TypeAtCaret(caret) PROVE RangeOK'
  BY <1>6, <1>d DEF TypeOverLive, TypeAtCaret
<1>s. ASSUME NEW scope, NEW consumed, StyleDone(scope, consumed) PROVE RangeOK'
  <2>1. binding'.range = 0 /\ shown' = Reported(0) /\ UNCHANGED <<doc, edits>>
    BY <1>s DEF StyleDone, BindingOK
  <2> QED BY <1>0, <1>k, <2>1
<1>7. CASE Bold \/ \E caret \in BOOLEAN : Font(caret)
  BY <1>7, <1>s DEF Bold, Font
<1>8. CASE MacroMoves \/ UNCHANGED vars
  BY <1>8, <1>u DEF MacroMoves, vars, BindingOK
<1>9. CASE MacroEdits
  BY <1>9, <1>e DEF MacroEdits
<1> QED BY <1>1, <1>2, <1>3, <1>4, <1>5, <1>6, <1>7, <1>8, <1>9 DEF Next

\* A result of `select' is forgotten together with its place, or found again by it.
LEMMA PickStep ==
    ASSUME TypeOK, BindingOK, PickOK, [Next]_vars
    PROVE  PickOK'
<1> USE SelectionAssumption
<1>0. edits \in Nat /\ (picked # None => picked.at \in Nat)
  BY DEF TypeOK
<1>k. ASSUME UNCHANGED <<doc, edits, picked>>, binding'.last = binding.last
      PROVE  PickOK'
  BY <1>k, SameMatch DEF PickOK
<1>n. ASSUME picked' = None
      PROVE  PickOK'
  BY <1>n DEF PickOK
<1>1. CASE Look \/ Move \/ BundleLooks \/ Cell \/ MacroMoves \/ UNCHANGED vars
  BY <1>1, <1>k DEF Look, Move, BundleLooks, Cell, MacroMoves, vars, Observed, BindingOK
<1>2. ASSUME NEW q \in Texts, Find(q) PROVE PickOK'
  BY <1>2, <1>k DEF Find, Observed, BindingOK
<1>3. ASSUME NEW t \in Targets, Select(t) PROVE PickOK'
  <2>1. PICK safe \in BOOLEAN :
          /\ binding'.last = [query |-> t.query, rank |-> t.rank, safe |-> safe]
          /\ picked' = [id |-> doc[Match(t)].id, safe |-> safe, at |-> edits]
    <3>1. PICK exact \in BOOLEAN, kept \in BOOLEAN :
            /\ binding'.last = [query |-> t.query, rank |-> t.rank, safe |-> exact /\ kept]
            /\ picked' = [id |-> doc[Match(t)].id, safe |-> exact /\ kept, at |-> edits]
      BY <1>3, Zenon DEF Select, BindingOK
    <3>2. (exact /\ kept) \in BOOLEAN
      OBVIOUS
    <3> QED BY <3>1, <3>2, Zenon
  <2>2. Match(t) # 0 /\ UNCHANGED <<doc, edits>> /\ t.query \in Texts /\ t.rank \in Nat
    BY <1>3, MatchIs, TargetIs DEF Select, TypeOK
  <2>3. binding'.last # None /\ (picked'.safe => binding'.last.safe) /\ picked'.at = edits
        /\ picked'.id = doc[Match(t)].id
        /\ binding'.last.query = t.query /\ binding'.last.rank = t.rank
    <3> DEFINE last == [query |-> t.query, rank |-> t.rank, safe |-> safe]
               pick == [id |-> doc[Match(t)].id, safe |-> safe, at |-> edits]
    <3>1. last \in [query : Texts, rank : Nat, safe : BOOLEAN]
      BY <2>1, <2>2, Zenon
    <3>2. last # None
      <4> HIDE DEF last
      <4> QED BY <3>1
    <3>3. last.query = t.query /\ last.rank = t.rank
      BY Zenon
    <3>4. pick.safe => last.safe
      BY Zenon
    <3>5. pick.id = doc[Match(t)].id /\ pick.at = edits
      BY Zenon
    <3>6. binding'.last = last /\ picked' = pick
      BY <2>1
    <3> HIDE DEF last, pick
    <3> QED BY <3>2, <3>3, <3>4, <3>5, <3>6
  <2>4. ASSUME (Again(binding.last) # 0 /\ CountsAgree(binding.last))'
        PROVE  IdOf(Again(binding.last))' = picked'.id
    <3> DEFINE last == binding'.last
    <3>1. Again(binding.last)' = Again(last) /\ (CountsAgree(binding.last)' <=> CountsAgree(last))
      BY <2>2, SameMatch
    <3>2. Again(last) = Match(last)
      BY <2>2, <2>3, <2>4, <3>1, SamePlace
    <3>3. Match(last) = Match(t)
      BY <2>3 DEF Match, Verified
    <3> QED BY <2>2, <2>3, <3>1, <3>2, <3>3, SameMatch DEF IdOf
  <2> QED BY <1>0, <2>2, <2>3, <2>4 DEF PickOK
<1>4. CASE Edit \/ TypeOverRange \/ \E caret \in BOOLEAN : TypeOverLive(caret) \/ TypeAtCaret(caret)
  BY <1>4, <1>n DEF Edit, TypeOverRange, TypeOverLive, TypeAtCaret, EditDone
<1>5. CASE Bold \/ \E caret \in BOOLEAN : Font(caret)
  BY <1>5, <1>n DEF Bold, Font, StyleDone
<1>6. CASE MacroEdits
  <2>1. UNCHANGED picked /\ edits' = edits + 1 /\ binding'.last = binding.last
    BY <1>6 DEF MacroEdits, BindingOK
  <2> QED BY <1>0, <2>1 DEF PickOK
<1> QED BY <1>1, <1>2, <1>3, <1>4, <1>5, <1>6 DEF Next

\* Only a font command or `bold' changes the mark, and both say what they styled.
LEMMA StyleStep ==
    ASSUME TypeOK, BindingOK, StyleOK, [Next]_vars
    PROVE  StyleOK'
<1>k. ASSUME UNCHANGED styled, binding'.consumed = binding.consumed
      PROVE  StyleOK'
  BY <1>k, Zenon DEF StyleOK
<1>1. CASE Look \/ Move \/ BundleLooks \/ Cell \/ MacroMoves \/ MacroEdits \/ UNCHANGED vars
  BY <1>1, <1>k DEF Look, Move, BundleLooks, Cell, MacroMoves, MacroEdits, vars, Observed, BindingOK
<1>2. ASSUME NEW q \in Texts, Find(q) PROVE StyleOK'
  BY <1>2, <1>k DEF Find, Observed, BindingOK
<1>3. ASSUME NEW t \in Targets, Select(t) PROVE StyleOK'
  BY <1>3, <1>k DEF Select, BindingOK
<1>4. CASE Edit \/ TypeOverRange \/ \E caret \in BOOLEAN : TypeOverLive(caret) \/ TypeAtCaret(caret)
  BY <1>4, <1>k DEF Edit, TypeOverRange, TypeOverLive, TypeAtCaret, EditDone, Forgotten, BindingOK
<1>5. ASSUME NEW caret \in BOOLEAN, Font(caret) PROVE StyleOK'
  <2>1. styled' = IF sel = 0 THEN "caret" ELSE "selection"
    BY <1>5 DEF Font, StyleDone
  <2>2. binding'.consumed = (sel # 0 /\ sel' = 0) /\ sel' = 0
    BY <1>5, Zenon DEF Font, StyleDone, Consumed, BindingOK
  <2> QED BY <2>1, <2>2, Zenon DEF StyleOK
<1>6. CASE Bold
  <2>1. styled' = "bold"
    BY <1>6 DEF Bold, StyleDone
  <2> QED BY <2>1 DEF StyleOK
<1> QED BY <1>1, <1>2, <1>3, <1>4, <1>5, <1>6 DEF Next

-----------------------------------------------------------------------------
(* What a command did. *)

\* The fields of what a command is recorded to have done.
LEMMA DeedIs ==
    ASSUME NEW cmd, NEW via, NEW id, NEW told \in BOOLEAN, Deed(cmd, via, id, told)
    PROVE  /\ did'.cmd = cmd /\ did'.via = via /\ (did'.told <=> told)
           /\ (shown.at = edits => id = shown.id) => did'.shown
           /\ (picked # None => (picked.at = edits => id = picked.id)) => did'.found
           /\ did'.pick = (IF picked = None THEN "none" ELSE IF picked.safe THEN "safe" ELSE "unsafe")
           /\ did'.style = styled
BY Zenon DEF Deed

\* What a command of a given kind must have done.
LEMMA DeedsAre ==
    ASSUME did'.cmd = "type" /\ did'.via = "range" => did'.shown,
           did'.cmd = "type" /\ did'.via = "caret" => did'.told \/ did'.pick # "safe",
           did'.cmd = "font" /\ did'.via = "caret" => did'.told \/ did'.style # "selection",
           did'.cmd = "bold" /\ did'.via = "search" /\ did'.told => did'.found
    PROVE  DeedsOK'
<1>1. TypeOverwritesShown'
  BY Zenon DEF TypeOverwritesShown
<1>2. TypeNeverSlips'
  BY Zenon DEF TypeNeverSlips
<1>3. StyleNeverSlips'
  BY Zenon DEF StyleNeverSlips
<1>4. BoldFollowsSelect'
  BY Zenon DEF BoldFollowsSelect
<1> QED BY <1>1, <1>2, <1>3, <1>4 DEF DeedsOK

\* Every command acts on what an earlier one showed.
LEMMA DeedsStep ==
    ASSUME TypeOK, BindingOK, RangeOK, PickOK, StyleOK, DeedsOK, [Next]_vars
    PROVE  DeedsOK'
<1>n. ASSUME did' = NoDeed
      PROVE  DeedsOK'
  <2>1. did'.cmd = "none"
    BY <1>n DEF NoDeed
  <2> QED BY <2>1, DeedsAre
<1>1. CASE Look \/ Move \/ BundleLooks \/ Cell \/ Edit \/ MacroMoves \/ MacroEdits
           \/ \E q \in Texts : Find(q)
  BY <1>1, <1>n DEF Look, Move, BundleLooks, Cell, Edit, MacroMoves, MacroEdits, Find, Quietly
<1>2. ASSUME NEW t \in Targets, Select(t) PROVE DeedsOK'
  <2>1. did'.cmd = "select"
    BY <1>2 DEF Select, Deed
  <2> QED BY <2>1, DeedsAre
<1>3. ASSUME NEW caret \in BOOLEAN, TypeOverLive(caret) PROVE DeedsOK'
  <2>1. did'.cmd = "type" /\ did'.via = "live"
    BY <1>3 DEF TypeOverLive, Deed
  <2> QED BY <2>1, DeedsAre
<1>4. CASE TypeOverRange
  <2>1. did'.cmd = "type" /\ did'.via = "range"
    BY <1>4 DEF TypeOverRange, Deed
  <2>2. shown.at = edits => IdOf(binding.range) = shown.id
    BY DEF RangeOK
  <2>3. did'.shown
    BY <1>4, <2>2, DeedIs, Zenon DEF TypeOverRange
  <2> QED BY <2>1, <2>3, DeedsAre
<1>5. ASSUME NEW caret \in BOOLEAN, TypeAtCaret(caret) PROVE DeedsOK'
  <2>1. Deed("type", "caret", 0, caret) /\ MayInsert(caret)
    BY <1>5 DEF TypeAtCaret
  <2>2. /\ did'.cmd = "type" /\ did'.via = "caret" /\ (did'.told <=> caret)
        /\ did'.pick = (IF picked = None THEN "none" ELSE IF picked.safe THEN "safe" ELSE "unsafe")
    BY <2>1, DeedIs, Zenon
  <2>3. ~caret /\ picked # None => ~picked.safe
    BY <2>1, Zenon DEF MayInsert, PickOK
  <2>4. did'.told \/ did'.pick # "safe"
    <3>1. ~caret => did'.pick = "none" \/ did'.pick = "unsafe"
      BY <2>2, <2>3, Zenon
    <3> QED BY <2>2, <3>1, Zenon
  <2> QED BY <2>2, <2>4, DeedsAre
<1>6. ASSUME NEW caret \in BOOLEAN, Font(caret) PROVE DeedsOK'
  <2> DEFINE via == IF sel = 0 THEN "caret" ELSE "live"
  <2>1. Deed("font", via, IdOf(sel), caret) /\ (caret \/ ~binding.consumed \/ sel # 0)
    BY <1>6, Zenon DEF Font
  <2>2. did'.cmd = "font" /\ did'.via = via /\ (did'.told <=> caret) /\ did'.style = styled
    BY <2>1, DeedIs, Zenon
  <2>3. via = "caret" => (caret \/ styled # "selection")
    BY <2>1, Zenon DEF StyleOK
  <2> HIDE DEF via
  <2>4. did'.via = "caret" => (did'.told \/ did'.style # "selection")
    BY <2>2, <2>3, Zenon
  <2> QED BY <2>2, <2>4, DeedsAre
<1>7. CASE Bold
  <2>1. CASE Deed("bold", "live", IdOf(sel), FALSE)
    <3>1. did'.cmd = "bold" /\ did'.via = "live"
      BY <2>1 DEF Deed
    <3> QED BY <3>1, DeedsAre
  <2>2. CASE Again(binding.last) # 0
             /\ Deed("bold", "search", IdOf(Again(binding.last)), CountsAgree(binding.last))
    <3> DEFINE agree == CountsAgree(binding.last)
    <3>1. did'.cmd = "bold"
      BY <2>2 DEF Deed
    <3>2. agree => (picked # None => (picked.at = edits => IdOf(Again(binding.last)) = picked.id))
      BY <2>2, Zenon DEF PickOK
    <3>3. agree \in BOOLEAN
      BY DEF CountsAgree
    <3> HIDE DEF agree
    <3>4. (did'.told <=> agree) /\ (agree => did'.found)
      BY <2>2, <3>2, <3>3, DeedIs, Zenon DEF agree
    <3> QED BY <3>1, <3>4, DeedsAre
  <2> QED BY <1>7, <2>1, <2>2 DEF Bold
<1>8. CASE UNCHANGED vars
  <2>1. did' = did
    BY <1>8 DEF vars
  <2> QED BY <2>1, Zenon DEF DeedsOK, TypeOverwritesShown, TypeNeverSlips, StyleNeverSlips,
             BoldFollowsSelect
<1> QED BY <1>1, <1>2, <1>3, <1>4, <1>5, <1>6, <1>7, <1>8 DEF Next

-----------------------------------------------------------------------------
(* The theorems. *)

\* A session starts with a numbered document, and nothing remembered.
LEMMA InitHolds == Init => Inv
<1> SUFFICES ASSUME Init PROVE Inv
  OBVIOUS
<1> USE SelectionAssumption
<1>0. MaxParagraphs \in Nat /\ MaxParagraphs >= 1 /\ MaxEdits \in Nat
  OBVIOUS
<1>n. PICK n \in 1..MaxParagraphs :
        doc \in {[i \in 1..n |-> [id |-> i, text |-> f[i]]] : f \in [1..n -> Texts \ {Typed}]}
  <2> DEFINE Docs(m) == {[i \in 1..m |-> [id |-> i, text |-> f[i]]] : f \in [1..m -> Texts \ {Typed}]}
  <2>1. doc \in UNION {Docs(m) : m \in 1..MaxParagraphs}
    BY Zenon DEF Init
  <2> HIDE DEF Docs
  <2>2. \E m \in 1..MaxParagraphs : doc \in Docs(m)
    BY <2>1
  <2> QED BY <2>2 DEF Docs
<1>1. PICK f \in [1..n -> Texts \ {Typed}] : doc = [i \in 1..n |-> [id |-> i, text |-> f[i]]]
  BY <1>n
<1>2. \A i \in 1..n : doc[i] = [id |-> i, text |-> f[i]] /\ f[i] \in Texts /\ i \in 1..MaxParagraphs
  BY <1>1
<1>3. ASSUME NEW S, \A i \in 1..n : [id |-> i, text |-> f[i]] \in S
      PROVE  doc \in Seq(S)
  BY <1>1, <1>3
<1>4. Len(doc) = n /\ Paras = 1..n /\ Selections = 0..n
  BY <1>1, <1>0 DEF Paras, Selections
<1>5. \A i, j \in 1..n : doc[i].id = doc[j].id => i = j
  <2>1. ASSUME NEW i \in 1..n PROVE doc[i].id = i
    <3>1. doc[i] = [id |-> i, text |-> f[i]]
      BY <1>2
    <3>2. [id |-> i, text |-> f[i]].id = i
      BY Zenon
    <3> QED BY <3>1, <3>2
  <2> QED BY <2>1
<1>6. Identified
  <2>1. doc \in Seq(Paragraphs(MaxParagraphs))
    BY <1>2, <1>3 DEF Paragraphs
  <2>2. MaxParagraphs + edits = MaxParagraphs
    BY <1>0 DEF Init
  <2> QED BY <1>1, <1>4, <1>5, <2>1, <2>2 DEF Identified, Document
<1>7. TypeOK
  <2>1. doc \in Seq([id : Ids, text : Texts])
    <3>1. 1..MaxParagraphs \subseteq Ids
      BY <1>0 DEF Ids
    <3> QED BY <1>2, <1>3, <3>1
  <2>2. shown \in [id : Ids, at : 0..MaxEdits]
    BY <1>0 DEF Init, Ids
  <2>3. edits \in 0..MaxEdits /\ sel \in Selections /\ picked = None
    BY <1>0, <1>4 DEF Init
  <2>4. /\ binding.range \in 0..MaxParagraphs /\ binding.unsafe \in BOOLEAN
        /\ binding.consumed \in BOOLEAN /\ binding.last = None /\ binding.found = None
    BY <1>0 DEF Init, Nothing
  <2> QED BY <1>1, <1>4, <1>5, <2>1, <2>2, <2>3, <2>4 DEF TypeOK
<1>8. BindingOK /\ StyleOK /\ PickOK /\ RangeOK
  BY <1>0, <1>4 DEF Init, Nothing, BindingOK, StyleOK, PickOK, RangeOK, IdOf
<1>9. DeedsOK
  BY DEF Init, NoDeed, DeedsOK, TypeOverwritesShown, TypeNeverSlips, StyleNeverSlips,
         BoldFollowsSelect
<1> QED BY <1>6, <1>7, <1>8, <1>9 DEF Inv

\* Every step preserves the invariant.
LEMMA StepHolds == Inv /\ [Next]_vars => Inv'
BY TypeStep, RangeStep, PickStep, StyleStep, DeedsStep DEF Inv

LEMMA InvHolds == Spec => []Inv
BY InitHolds, StepHolds, PTL DEF Spec

\* When type_text selects the remembered range again, it overwrites the paragraph that
\* a command last reported as selected, unless a macro has edited the document since.
THEOREM OverwritesShown == Spec => []TypeOverwritesShown
<1>1. Inv => TypeOverwritesShown
  BY DEF Inv, DeedsOK
<1> QED BY <1>1, InvHolds, PTL

\* While a selection that `select' proved is on record, type_text does not insert at
\* the caret; while the last style command's mark stands, font and font_size do not
\* style it; both only when told to.
THEOREM SelectionNeverSlips == Spec => []NeverSlips
<1>1. Inv => NeverSlips
  BY DEF Inv, DeedsOK, NeverSlips
<1> QED BY <1>1, InvHolds, PTL

\* When `bold' has no live selection, it styles the paragraph that `select' had found,
\* unless a macro has edited the document since or one of the search texts it tried
\* stops where `select' does not count a match.
THEOREM BoldFollows == Spec => []BoldFollowsSelect
<1>1. Inv => BoldFollowsSelect
  BY DEF Inv, DeedsOK
<1> QED BY <1>1, InvHolds, PTL
=============================================================================
