------------------------------ MODULE Ranking ------------------------------
(***************************************************************************)
(* How the engine compares candidates: core/grounding/ranker.py, the ref   *)
(* deduplication and the ambiguity check of core/grounding/engine.py.      *)
(*                                                                         *)
(* Confidences and signals are in basis points (0.85 is 8500): the code    *)
(* rounds every ranked confidence to four decimals.                        *)
(***************************************************************************)
EXTENDS Integers, SequencesExt

CONSTANTS
    Label,     \* accessible names
    NoName     \* an element without one

Role == {"button", "switch", "tab", "link", "combobox", "listbox", "textbox", "heading"}
NoRole == ""

\* A ref is what a locator matches by: a role and a name, a text, or a CSS
\* selector (named after the element it is meant for).
Ref == (Role \union {"text", "css"}) \X (Label \union {NoName})
Specific(ref) == ref[2] # NoName   \* _is_specific_ref

Bp == 0..10000
Signals == [text : Bp, role : Bp, vis : Bp, uniq : Bp, prox : Bp, mem : Bp]
NoSignals == [text |-> 0, role |-> 0, vis |-> 0, uniq |-> 0, prox |-> 0, mem |-> 0]

\* Who resolves: the tiers of the engine, and the SDK when they do not.
Resolver ==
    {"explicit_selector", "memory_cache", "accessibility_tree", "exact_text", "fuzzy_text",
     "llm_grounding", "dom_pin", "clickable_dom", "fallback_selector"}

\* A ResolvedTarget: the resolver's own confidence, and the metadata the engine
\* reads (weighed: the resolver supplied signals).
Candidate ==
    [ ref : Ref, raw : Bp, role : Role \union {NoRole}, named : BOOLEAN,
      weighed : BOOLEAN, signals : Signals, by : Resolver ]

AcceptThreshold == 8500
ReviewThreshold == 7000
AmbiguousGap    == 500
RejectThreshold == 5000

\* CandidateRanker.score

Score(c) ==
    IF c.weighed
      THEN (30 * c.signals.text + 20 * c.signals.role + 15 * c.signals.vis
              + 15 * c.signals.uniq + 10 * c.signals.prox + 10 * c.signals.mem + 50) \div 100
      ELSE c.raw

\* rank() returns copies whose confidence is the score.
Ranked(c) == [c EXCEPT !.raw = Score(c)]

BestScore(cs) == Max({Score(cs[i]) : i \in DOMAIN cs})
Reaches(cs, threshold) == cs # <<>> /\ BestScore(cs) >= threshold

\* signals.py, role_fit_score
ClickFit(role) ==
    CASE role \in {"button", "switch", "combobox"} -> 10000
      [] role = "tab"                              -> 8000
      [] role = "link"                             -> 7000
      [] role = NoRole                             -> 0
      [] OTHER                                     -> 5000
TypeFit(role) == CASE role = "textbox" -> 10000 [] role = "combobox" -> 7000 [] OTHER -> 0
RoleFit(action, role) ==
    CASE action \in {"verify", "extract"} -> IF role = NoRole THEN 0 ELSE 10000
      [] action \in {"click", "tap"}      -> ClickFit(role)
      [] action = "type"                  -> TypeFit(role)
      [] action = "select"                -> IF role \in {"combobox", "listbox"} THEN 10000 ELSE 0

\* _rank_for_action: by score, then role fit, then the order found (both sorts
\* are stable).
\* (PrecedesLatest, a mistake: sorting upwards and reversing, which turns the
\* order of equals around.)
PrecedesLatest(cs, action, i, j) ==
    \/ Score(cs[i]) > Score(cs[j])
    \/ Score(cs[i]) = Score(cs[j]) /\ i > j

Precedes(cs, action, i, j) ==
    \/ Score(cs[i]) > Score(cs[j])
    \/ /\ Score(cs[i]) = Score(cs[j])
       /\ \/ RoleFit(action, cs[i].role) > RoleFit(action, cs[j].role)
          \/ RoleFit(action, cs[i].role) = RoleFit(action, cs[j].role) /\ i < j

FirstOf(cs, action, I) == CHOOSE i \in I : \A j \in I \ {i} : Precedes(cs, action, i, j)

BestForAction(cs, action) == Ranked(cs[FirstOf(cs, action, DOMAIN cs)])

\* _check_ambiguity
\* (AmbiguousOnlyTies, a mistake: only exact ties of one role count.)
AmbiguousOnlyTies(cs, action) ==
    /\ action \notin {"verify", "extract"}
    /\ Len(cs) >= 2
    /\ LET i == FirstOf(cs, action, DOMAIN cs)
           j == FirstOf(cs, action, DOMAIN cs \ {i})
       IN  Score(cs[i]) = Score(cs[j]) /\ cs[i].ref[1] = cs[j].ref[1]

Ambiguous(cs, action) ==
    /\ action \notin {"verify", "extract"}
    /\ Len(cs) >= 2
    /\ LET i == FirstOf(cs, action, DOMAIN cs)
           j == FirstOf(cs, action, DOMAIN cs \ {i})
       IN  /\ Score(cs[i]) - Score(cs[j]) < AmbiguousGap
           /\ RoleFit(action, cs[i].role) <= RoleFit(action, cs[j].role)

-----------------------------------------------------------------------------
\* What s holds at the places I, in their order.
Kept(s, I) ==
    [n \in 1..Cardinality(I) |-> s[CHOOSE i \in I : Cardinality({j \in I : j < i}) = n - 1]]

\* One candidate per collapsible ref, at the place of its first one: the first
\* that no other of them beats.
OnePerRef(cs, Collapses(_), Beats(_, _)) ==
    LET Twins(i)  == IF Collapses(cs[i].ref)
                       THEN {j \in DOMAIN cs : cs[j].ref = cs[i].ref}
                       ELSE {i}
        Winner(i) == Min({j \in Twins(i) : ~ \E k \in Twins(i) : Beats(cs[k], cs[j])})
    IN  Kept([i \in DOMAIN cs |-> cs[Winner(i)]], {i \in DOMAIN cs : i = Min(Twins(i))})

\* _dedupe_by_ref, within a tier: specific refs only, and a role breaks ties.
TierDedupe(cs) ==
    OnePerRef(cs, Specific, LAMBDA a, b :
        \/ a.raw > b.raw
        \/ a.raw = b.raw /\ a.role # NoRole /\ b.role = NoRole)

\* The dictionary of the final fallback: every ref, by the resolvers' own
\* confidence.
FinalDedupe(cs) == OnePerRef(cs, LAMBDA ref : TRUE, LAMBDA a, b : a.raw > b.raw)
=============================================================================
