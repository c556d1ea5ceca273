--------------------------- MODULE PageResolvers ---------------------------
(***************************************************************************)
(* What the built-in resolvers find on a page: for each, the candidates it *)
(* returns for a step, in snapshot order, with the confidence and signals  *)
(* the code gives them (core/grounding/resolvers).                         *)
(*                                                                         *)
(* A page is its accessibility snapshot: a sequence of [role, label].  How *)
(* a label compares with the step's phrase is a constant: string matching  *)
(* itself is not modelled.                                                 *)
(***************************************************************************)
EXTENDS Ranking

CONSTANTS
    NameMatch,   \* [Label -> {"phrase", "keyword", "partial", "none"}]: the label is the
                 \* step's phrase, one of its words, several words with one of
                 \* them, or neither
    FuzzyRatio   \* [Label -> Bp]: difflib's best ratio, over synonyms too

ASSUME PageResolversAssumption ==
    /\ NoName \notin Label
    /\ NameMatch \in [Label -> {"phrase", "keyword", "partial", "none"}]
    /\ FuzzyRatio \in [Label -> Bp]

Element == [role : Role, label : Label \union {NoName}]
Reading == {"verify", "extract"}

\* What the resolvers are told of a step (StepIntent).
Intent ==
    [ action : {"click", "tap", "type", "select"} \union Reading, hint : STRING, dropdown : BOOLEAN,
      selector : Ref \union {NoName} ]

RefOf(e)  == <<e.role, e.label>>
Matched(page, ref) ==   \* the elements a locator finds
    {i \in DOMAIN page : page[i].label = ref[2] /\ ref[1] \in {page[i].role, "text"}}

DropdownIntent(step) ==
    step.action = "select" \/ step.hint \in {"combobox", "select", "dropdown"} \/ step.dropdown

\* _KIND_ROLE_ALIGNMENT
Aligned(hint, role) ==
    CASE hint \in {"dropdown", "select"} -> role \in {"combobox", "listbox"}
      [] hint = "input"                  -> role = "textbox"
      [] OTHER                           -> role = hint

RoleSignal(step, role) ==
    LET fit == RoleFit(step.action, role) IN
    CASE step.hint = "none"       -> fit
      [] Aligned(step.hint, role) -> 10000
      [] OTHER                    -> (fit * 7) \div 10

\* Explicit selector, priority 0.
ExplicitFinds(step) ==
    IF step.selector = NoName THEN <<>>
    ELSE << [ ref |-> step.selector, raw |-> 10000, role |-> NoRole, named |-> FALSE,
              weighed |-> TRUE, by |-> "explicit_selector",
              signals |-> [ text |-> 10000, role |-> 10000, vis |-> 10000,
                            uniq |-> 10000, prox |-> 10000, mem |-> 0 ] ] >>

\* Memory cache, priority 10: the recorded target, with its signals where it
\* had any, and a memory signal of at least 0.8.
Replay(c) ==
    [c EXCEPT !.weighed = TRUE,
              !.by = "memory_cache",
              !.signals = IF c.weighed
                            THEN [c.signals EXCEPT !.mem = Max({@, 8000})]
                            ELSE [ text |-> c.raw, role |-> 0, vis |-> 5000,
                                   uniq |-> 8000, prox |-> 5000, mem |-> 8000 ]]

-----------------------------------------------------------------------------
\* Accessibility tree, priority 20.

\* _score: 0 is no match.
TreeConfidence(step, e) ==
    LET fit == RoleFit(step.action, e.role) IN
    CASE e.label = NoName                                   -> IF fit > 0 THEN 6000 ELSE 0
      [] e.label # NoName /\ NameMatch[e.label] \in {"phrase", "keyword"} -> 9600
      [] e.label # NoName /\ NameMatch[e.label] = "partial" -> IF fit > 0 THEN 8000 ELSE 7000
      [] OTHER                                              -> 0

\* _signal_text_match
TreeText(step, e) ==
    CASE e.label = NoName                       -> TreeConfidence(step, e)
      [] e.label # NoName /\ NameMatch[e.label] = "partial" -> 9500
      [] e.label # NoName /\ NameMatch[e.label] = "keyword" /\ step.action \in Reading -> 8200
      [] OTHER                                  -> 10000

\* _is_strong_verify_extract_match
Strong(step, e) ==
    step.action \in Reading /\ e.label # NoName /\ NameMatch[e.label] = "phrase"

TreeSignals(step, found, e) ==
    [ text |-> TreeText(step, e),
      role |-> RoleSignal(step, e.role),
      vis  |-> IF Strong(step, e) THEN 10000 ELSE 8000,
      uniq |-> IF Cardinality({i \in DOMAIN found : RefOf(found[i]) = RefOf(e)}) = 1
                 THEN 10000 ELSE 6000,
      prox |-> IF Strong(step, e) THEN 10000 ELSE 0,
      mem  |-> 0 ]

Biased(step, e) ==
    Min({10000, TreeConfidence(step, e)
                  + IF Aligned(step.hint, e.role) THEN 300 ELSE 0})

\* The one nameless combobox of a dropdown step is lifted to 0.72, without
\* signals.
Nameless(e) == e.role \in {"combobox", "listbox"} /\ e.label = NoName
NamelessFallback == 7200

TreeFinds(step, page) ==
    LET found == Kept(page, {i \in DOMAIN page : TreeConfidence(step, page[i]) > 0})
        lone  == {i \in DOMAIN found : Nameless(found[i])}
        Lifted(i) == DropdownIntent(step) /\ lone = {i} /\ Biased(step, found[i]) < NamelessFallback
    IN  [ i \in DOMAIN found |->
            [ ref     |-> RefOf(found[i]),
              raw     |-> IF Lifted(i) THEN NamelessFallback ELSE Biased(step, found[i]),
              role    |-> found[i].role,
              named   |-> found[i].label # NoName,
              weighed |-> ~Lifted(i),
              signals |-> IF Lifted(i) THEN NoSignals ELSE TreeSignals(step, found, found[i]),
              by      |-> "accessibility_tree" ] ]

-----------------------------------------------------------------------------
\* The hits on the page in order, the first of each value of Id only (`seen').
FirstOfEach(page, Hit(_), Id(_)) ==
    Kept(page, {i \in DOMAIN page :
        Hit(page[i]) /\ \A j \in 1..(i - 1) : Hit(page[j]) => Id(page[j]) # Id(page[i])})

\* Exact text, priority 30.
TextFinds(page) ==
    LET Hit(e) == e.label # NoName /\ NameMatch[e.label] \in {"phrase", "keyword"}
        found  == FirstOfEach(page, Hit, LAMBDA e : e.label)
    IN  [ i \in DOMAIN found |->
            [ ref |-> <<"text", found[i].label>>, raw |-> 9000, role |-> NoRole, named |-> FALSE,
              weighed |-> TRUE, by |-> "exact_text",
              signals |-> [ text |-> 10000, role |-> 0, vis |-> 5000,
                            uniq |-> 10000, prox |-> 0, mem |-> 0 ] ] ]

\* Fuzzy text, priority 45.
FuzzyConfidence(ratio) ==
    CASE ratio >= 8500 -> 8200
      [] ratio >= 6500 /\ ratio < 8500 -> 7200
      [] OTHER -> 6200

FuzzyFinds(step, page) ==
    LET Hit(e) == e.label # NoName /\ FuzzyRatio[e.label] >= 5000
        found  == FirstOfEach(page, Hit, RefOf)
    IN  [ i \in DOMAIN found |->
            [ ref |-> RefOf(found[i]), raw |-> FuzzyConfidence(FuzzyRatio[found[i].label]),
              role |-> found[i].role, named |-> FALSE,
              weighed |-> TRUE, by |-> "fuzzy_text",
              signals |-> [ text |-> FuzzyRatio[found[i].label],
                            role |-> RoleSignal(step, found[i].role), vis |-> 8000,
                            uniq |-> 10000, prox |-> 0, mem |-> 0 ] ] ]

-----------------------------------------------------------------------------
\* LLM grounding, priority 50: a parsed answer.  A ref without a name and a
\* confidence under the reject threshold are discarded.
ModelFinds(ref, confidence) ==
    IF ~Specific(ref) \/ confidence < RejectThreshold THEN <<>>
    ELSE << [ ref |-> ref, raw |-> confidence, role |-> NoRole, named |-> FALSE,
              weighed |-> TRUE, by |-> "llm_grounding",
              signals |-> [ text |-> confidence,
                            role |-> IF ref[1] # "text" THEN 10000 ELSE 5000,
                            vis |-> 10000, uniq |-> 7000, prox |-> 5000, mem |-> 0 ] ] >>

\* _run_tier: resolvers in priority order, at most four of them, until one
\* reaches the threshold.
RunTier(results, stop) ==
    LET Runs(n)  == n \in DOMAIN results /\ \A k \in 1..(n - 1) : ~Reaches(results[k], stop)
        Found(n) == IF Runs(n) THEN results[n] ELSE <<>>
    IN  TierDedupe(Found(1) \o Found(2) \o Found(3) \o Found(4))
=============================================================================
