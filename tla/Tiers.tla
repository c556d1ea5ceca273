------------------------------- MODULE Tiers -------------------------------
(***************************************************************************)
(* What the deterministic tiers of GroundingEngine.ground make of a page:  *)
(* the resolvers of a tier, the choice among its candidates, the fallback  *)
(* once every tier has run (core/grounding/engine.py).                     *)
(***************************************************************************)
EXTENDS PageResolvers

CONSTANT NoMemo   \* no target recorded for this screen and step

Resolved(c)  == [kind |-> "resolved", target |-> c]
Failed(kind) == [kind |-> kind]

Outcome ==
    [kind : {"resolved"}, target : Candidate]
      \union [kind : {"ambiguous", "low_confidence", "not_found", "cost_blocked"}]

StopAt(tier) == IF tier = 1 THEN AcceptThreshold ELSE ReviewThreshold

MemoryFinds(memo) == IF memo = NoMemo THEN <<>> ELSE <<Replay(memo)>>

\* What the resolvers of a deterministic tier return, in priority order, ...
TierFinds(page, step, memo, tier) ==
    IF tier = 1
      THEN <<ExplicitFinds(step), MemoryFinds(memo), TreeFinds(step, page), TextFinds(page)>>
      ELSE <<FuzzyFinds(step, page)>>

\* ... and what the tier makes of them.
TierResult(page, step, memo, tier) ==
    RunTier(TierFinds(page, step, memo, tier), StopAt(tier))

Pick(step, cs) ==
    IF Ambiguous(cs, step.action)
      THEN Failed("ambiguous")
      ELSE Resolved(BestForAction(cs, step.action))

\* The dropdown relax: the only combobox, named or found once.
Relaxed(step, all, unique) ==
    LET combos == {i \in DOMAIN unique : unique[i].role \in {"combobox", "listbox"}}
        only   == unique[CHOOSE i \in combos : TRUE]
    IN  IF /\ DropdownIntent(step)
           /\ Cardinality(combos) = 1
           /\ only.raw >= RejectThreshold
           /\ only.named \/ Cardinality({i \in DOMAIN all : all[i].ref = only.ref}) = 1
          THEN Resolved(only)
          ELSE Failed("low_confidence")

\* When no tier decided: the review band, over every candidate there was.
Fallback(step, all) ==
    LET unique == FinalDedupe(all) IN
    CASE all = <<>>                                     -> Failed("not_found")
      [] all # <<>> /\ Reaches(unique, ReviewThreshold)  -> Pick(step, unique)
      [] all # <<>> /\ ~Reaches(unique, ReviewThreshold) -> Relaxed(step, all, unique)

\* Whether Tier 1 or Tier 2 stops the search, without the fallback.
DecidesAlone(page, step, memo) ==
    \E tier \in {1, 2} : Reaches(TierResult(page, step, memo, tier), StopAt(tier))

\* ground() when no model is asked.
Offline(page, step, memo) ==
    LET t1 == TierResult(page, step, memo, 1)
        t2 == TierResult(page, step, memo, 2)
    IN  CASE Reaches(t1, StopAt(1))                            -> Pick(step, t1)
          [] ~Reaches(t1, StopAt(1)) /\ Reaches(t2, StopAt(2))  -> Pick(step, t2)
          [] ~Reaches(t1, StopAt(1)) /\ ~Reaches(t2, StopAt(2)) -> Fallback(step, t1 \o t2)
=============================================================================
