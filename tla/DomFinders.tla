----------------------------- MODULE DomFinders -----------------------------
(***************************************************************************)
(* What the adapter's DOM resolvers pick: each scans the visible elements   *)
(* of one kind in DOM order, scores how their texts cover the words of the  *)
(* step, and takes the best one.  A text is the set of its words; a page is *)
(* `dom', a sequence of elements, of which those in V are visible.          *)
(***************************************************************************)
EXTENDS Integers, Sequences, FiniteSets, FiniteSetsExt

CONSTANTS
    Word,      \* words long enough to be tokens
    Inside,    \* Inside[w]: the words that occur in w as substrings, w too
    Folded,    \* Folded[w]: w in lower case
    Stop       \* words that describe the action or the kind of widget

ASSUME WordAssumption ==
    /\ IsFiniteSet(Word)
    /\ Inside \in [Word -> SUBSET Word] /\ \A w \in Word : w \in Inside[w]
    /\ Folded \in [Word -> Word]
    /\ Stop \subseteq Word

Unit == 10000     \* 1.0 of a score
None == 0         \* no element
Text == SUBSET Word

Kinds == {"button", "link", "item", "row", "input", "editor", "radio", "checkbox",
          "collapse", "select", "file", "range", "header", "cell", "more"}
Wheres == {"page", "dialog", "popup", "menu"}

Element ==
    [kind : Kinds, where : Wheres, id : BOOLEAN, disabled : BOOLEAN, multi : BOOLEAN, icon : BOOLEAN,
     label : Text, hint : Text, section : Text, column : Text, group : Text,
     panel : Text, side : {"none", "start", "end"}, row : Nat]

Of(dom, V, kinds) == {i \in V : dom[i].kind \in kinds}
DialogOpen(dom, V) == \E i \in V : dom[i].where = "dialog"

\* Inside the topmost open dialog, unless it holds nothing of the kind.
Scoped(dom, V, S) ==
    LET inDialog == {i \in S : dom[i].where = "dialog"}
    IN  IF DialogOpen(dom, V) /\ inDialog # {} THEN inDialog ELSE S

\* Radios and checkboxes: the dialog counts as holding one that is not visible.
Boxed(dom, V, kind) == V \intersect Scoped(dom, V, Of(dom, DOMAIN dom, {kind}))

\* Position among the candidates, from 0, and from the end.
Rank(S, i)  == Cardinality({j \in S : j < i})
Ahead(S, i) == Cardinality(S) - Rank(S, i)

\* The best of S: the first in DOM order among equal scores.
BestOf(S, score) ==
    IF S = {} THEN None
    ELSE LET top == Max({score[i] : i \in S}) IN Min({i \in S : score[i] = top})

\* The share of the tokens that occur in the text: as substrings, or as words.
Share(n, tokens) == IF tokens = {} THEN 0 ELSE (Unit * n) \div Cardinality(tokens)
Hits(tokens, text) == {t \in tokens : \E w \in text : t \in Inside[w]}
Overlap(tokens, text)     == Share(Cardinality(Hits(tokens, text)), tokens)
WordOverlap(tokens, text) == Share(Cardinality(tokens \cap text), tokens)

\* Equality or containment with the blanks removed.
Tight(phrase, text) ==
    IF phrase # {} /\ text # {} /\ (phrase \subseteq text \/ text \subseteq phrase)
    THEN Unit ELSE 0

\* Exact name, then whatever its case, then as a part of a name.
Fold(text) == {Folded[w] : w \in text}
NamedIn(dom, S, want, contains) ==
    LET exact  == {i \in S : dom[i].label = want}
        nocase == {i \in S : Fold(dom[i].label) = Fold(want)}
        part   == {i \in S : Fold(want) \subseteq Fold(dom[i].label)}
    IN  IF exact # {} THEN exact ELSE IF nocase # {} \/ ~contains THEN nocase ELSE part
-----------------------------------------------------------------------------
\* Text inputs, with what the caller needs to know of a shared label.
Fillable(dom, V) == {i \in Of(dom, V, {"input", "editor"}) : ~dom[i].disabled}

InputMatch(dom, phrase) ==
    [i \in DOMAIN dom |->
        3 * Overlap(phrase, dom[i].label) + (12 * Overlap(phrase, dom[i].hint)) \div 10
        + Overlap(phrase, dom[i].section)
        + 3 * Tight(phrase, dom[i].label) + (12 * Tight(phrase, dom[i].hint)) \div 10]

FindInput(dom, V, phrase) ==
    LET S    == Scoped(dom, V, Fillable(dom, V))
        real == InputMatch(dom, phrase)
        best == BestOf(S, [i \in S |-> real[i] + 10 * Ahead(S, i)])
    IN  IF best = None THEN None ELSE IF real[best] = 0 THEN None ELSE best

\* The winner shares its on-screen identity, and its section is what won.
OnScreen(e) == IF e.label # {} THEN e.label ELSE e.hint
Sectioned(dom, V, phrase, i) ==
    LET S    == Scoped(dom, V, Fillable(dom, V))
        same == {j \in S : Overlap(phrase, OnScreen(dom[j])) >= Overlap(phrase, OnScreen(dom[i]))}
    IN  /\ Overlap(phrase, OnScreen(dom[i])) > 0
        /\ Overlap(phrase, dom[i].section) > 0
        /\ Cardinality(same) >= 2

\* A rich-text editor, when it is the best of all fields, dialog or not.
FindRichText(dom, V, phrase) ==
    LET S     == Of(dom, V, {"input", "editor"})
        match == [i \in S |-> 3 * Overlap(phrase, dom[i].label)
                              + (12 * Overlap(phrase, dom[i].hint)) \div 10
                              - (IF dom[i].disabled THEN 5 * Unit ELSE 0) + 10 * Ahead(S, i)]
        best  == BestOf(S, match)
    IN  IF best = None THEN None
        ELSE IF /\ match[best] > -Unit /\ dom[best].kind = "editor"
                /\ 2 * Overlap(phrase, dom[best].label) >= Unit
             THEN best ELSE None
-----------------------------------------------------------------------------
\* Radios, checkboxes and collapsible panels: the option's words, then the
\* section the step names; fewer extra words win.
Context(ctx, phrase) == ctx \ (Stop \union phrase)
OptionScore(e, phrase, ctx) ==
    LET cover == WordOverlap(phrase, e.label)
        extra == Min({Cardinality(e.label \ phrase), 4})
    IN  cover - (IF cover > 0 THEN 500 * extra ELSE 0)
        + Overlap(Context(ctx, phrase), e.section) \div 2

Claimed(score, best) == IF best = None THEN None ELSE IF score[best] <= 0 THEN None ELSE best

\* The later of equal radios wins.
FindRadio(dom, V, phrase, ctx) ==
    LET S     == Boxed(dom, V, "radio")
        score == [i \in S |-> OptionScore(dom[i], phrase, ctx) + Rank(S, i)]
    IN  Claimed(score, BestOf(S, score))

\* A mistake: the section is not looked at.
FindCheckboxAnywhere(dom, V, phrase, ctx) ==
    LET S     == Boxed(dom, V, "checkbox")
        score == [i \in S |-> OptionScore(dom[i], phrase, {}) - Rank(S, i)]
    IN  Claimed(score, BestOf(S, score))

FindCheckbox(dom, V, phrase, ctx) ==
    LET S     == Boxed(dom, V, "checkbox")
        score == [i \in S |-> OptionScore(dom[i], phrase, ctx) - Rank(S, i)]
    IN  Claimed(score, BestOf(S, score))

FindCollapse(dom, V, phrase, ctx) ==
    LET S     == Of(dom, V, {"collapse"})
        score == [i \in S |-> WordOverlap(phrase, dom[i].label)
                              + Overlap(Context(ctx, phrase), dom[i].section) \div 2 - Rank(S, i)]
    IN  Claimed(score, BestOf(S, score))
-----------------------------------------------------------------------------
\* The start or end input of a range picker; never one behind an open dialog.
FindRange(dom, V, side, phrase) ==
    LET S     == {i \in Of(dom, V, {"range"}) :
                     dom[i].side = side /\ (DialogOpen(dom, V) => dom[i].where = "dialog")}
        match == [i \in S |-> Cardinality(Hits(phrase, dom[i].label))
                              + Cardinality(Hits(phrase, dom[i].hint))]
    IN  BestOf(S, match)

\* File inputs are hidden by design: visibility is not asked.
FindFile(dom, V, phrase) ==
    LET S == Scoped(dom, V, {i \in DOMAIN dom : dom[i].kind = "file"})
    IN  BestOf(S, [i \in S |-> Overlap(phrase, dom[i].label \union dom[i].section)
                               + Ahead(S, i)])

\* Dropdown triggers.  `disp' are the texts they display, `shows' those that display
\* the wanted value and no more.  One word of the phrase, the first, names a panel.
PanelNamed(dom, S, phrase) ==
    LET named == phrase \cap UNION {dom[i].panel : i \in S}
    IN  IF named = {} THEN {} ELSE {CHOOSE w \in named : TRUE}
TriggerScore(dom, S, phrase, shows, disp, i) ==
    LET e == dom[i]
        named == PanelNamed(dom, S, phrase)
    IN  3 * Overlap(phrase, e.label) + (25 * Overlap(phrase, e.column)) \div 10
        + 2 * Overlap(phrase, e.group) + (8 * Overlap(phrase, e.hint)) \div 10
        + Overlap(phrase, disp[i]) \div 2 + Overlap(phrase, e.section) \div 2
        + (IF i \in shows THEN (15 * Unit) \div 10 ELSE 0)
        + (IF named = {} \/ e.panel = {} THEN 0
           ELSE IF named \subseteq e.panel THEN 4 * Unit ELSE -4 * Unit)
        + (IF e.multi THEN (3 * Unit) \div 10 ELSE 0)
        + 10 * Ahead(S, i)

\* The best score starts at -1: what scores below it is not taken.
FindTrigger(dom, V, phrase, shows, disp) ==
    LET S     == Of(dom, V, {"select"})
        score == [i \in S |-> TriggerScore(dom, S, phrase, shows, disp, i)]
        best  == BestOf(S, score)
    IN  IF best = None THEN None ELSE IF score[best] <= -Unit THEN None ELSE best
-----------------------------------------------------------------------------
\* Clickable elements by name, anywhere on the page; else a table row.
Clickable == {"button", "link", "item"}
RoleRank(e) == CASE e.kind = "button" -> 3 [] e.kind = "link" -> 2 [] OTHER -> 1
FindClickable(dom, V, want) ==
    LET named == NamedIn(dom, Of(dom, V, Clickable), want, TRUE)
        rows  == NamedIn(dom, Of(dom, V, {"row"}), want, TRUE)
    IN  IF want = {} THEN None
        ELSE IF named # {} THEN BestOf(named, [i \in named |-> RoleRank(dom[i])])
        ELSE IF rows # {} THEN Min(rows) ELSE None

\* Whole names in an open popup first, then names in the topmost dialog.
FindDialogClickable(dom, V, want) ==
    LET inPopup  == {i \in Of(dom, V, Clickable) : dom[i].where = "popup"}
        inDialog == {i \in Of(dom, V, Clickable) : dom[i].where = "dialog"}
        popup    == NamedIn(dom, inPopup, want, FALSE)
        dialog   == NamedIn(dom, inDialog, want, TRUE)
    IN  IF want = {} THEN None
        ELSE IF popup # {} THEN Min(popup) ELSE IF dialog # {} THEN Min(dialog) ELSE None

FindOverflow(dom, V) == LET S == Of(dom, V, {"more"}) IN IF S = {} THEN None ELSE Min(S)

FindLink(dom, V, want) ==
    LET S == NamedIn(dom, Of(dom, V, {"link"}), want, TRUE)
    IN  IF want = {} \/ S = {} THEN None ELSE Min(S)

\* Column headings: equal, else one that contains the wanted one.
Columns(dom, S, want, either) ==
    LET same == {i \in S : dom[i].column = want}
    IN  IF same # {} THEN same
        ELSE {i \in S : \/ want \subseteq dom[i].column
                        \/ either /\ dom[i].column # {} /\ dom[i].column \subseteq want}

\* A control in the header of a column: the one named, or the only one there.
FindHeaderControl(dom, V, column, control) ==
    LET All    == Of(dom, V, {"header"})
        S      == Columns(dom, Scoped(dom, V, All), column, FALSE)
        T      == IF S = {} THEN Columns(dom, All, column, FALSE) ELSE S
        Peers(i) == {j \in T : dom[j].column = dom[i].column}
        hits   == [i \in T |-> Cardinality(control \cap dom[i].label)]
        Good   == {i \in T : control = {} \/ hits[i] > 0 \/ Peers(i) = {i}}
        first  == IF Good = {} THEN {} ELSE Peers(Min(Good))
    IN  IF column = {} \/ first = {} THEN None ELSE BestOf(first, hits)

\* An element of a table, by its row and what the step names in it: the n-th
\* row (-1 is the last) or the one with a value in a column; then its checkbox,
\* a link or button with a text, or the cell of a column.
RowsOf(dom, V) == {dom[i].row : i \in {j \in V : dom[j].row > 0}}
RowWanted(dom, V, spec) ==
    LET rows == RowsOf(dom, V)
        hit(r) == \E i \in Columns(dom, {j \in V : dom[j].row = r}, spec.where, TRUE) :
                     Fold(spec.value) \subseteq Fold(dom[i].label)
    IN  CASE spec.where # {} -> {r \in rows : hit(r)}
          [] spec.where = {} /\ spec.row = -1 -> IF rows = {} THEN {} ELSE {Max(rows)}
          [] OTHER           -> {spec.row} \cap rows
FindCell(dom, V, spec) ==
    LET rows == RowWanted(dom, V, spec)
        In   == {i \in V : dom[i].row = Min(rows)}
        want == CASE spec.control = "checkbox" -> {i \in In : dom[i].kind = "checkbox"}
                  [] spec.control = "text"     -> NamedIn(dom, Of(dom, In, {"link", "button"}), spec.text, TRUE)
                  [] OTHER                     -> Columns(dom, In, spec.column, TRUE)
    IN  IF rows = {} THEN None ELSE IF want = {} THEN None ELSE Min(want)
=============================================================================
