---------------------------- MODULE MCStepRunner ----------------------------
(* Small instances of StepRunner for TLC: the step is "Click Save".        *)
EXTENDS StepRunner

CONSTANTS Save, Apply, SaveDraft, noName

MCNameMatch  == [l \in Label |-> CASE l = Save -> "phrase" [] l = SaveDraft -> "partial" [] OTHER -> "none"]
\* "apply" is a synonym of "save".
MCFuzzyRatio == [l \in Label |-> IF l = SaveDraft THEN 3636 ELSE 10000]
MCDrift      == [l \in Label |-> IF l = Apply THEN "review" ELSE "none"]

E(role, label) == [role |-> role, label |-> label]
Plain       == <<E("button", Save), E("link", Apply)>>
Renamed     == <<E("button", Apply)>>
Undecidable == <<E("button", SaveDraft), E("button", SaveDraft)>>
Renaming   == {Plain, Renamed}
Unsettled  == {Renamed, Undecidable}
MCPages    == Renaming \union Unsettled
MCSuites   == {[pages |-> Renaming, recovers |-> FALSE], [pages |-> Unsettled, recovers |-> TRUE]}
ClickStep == [action |-> "click", hint |-> "none", dropdown |-> FALSE, selector |-> noName]

MCSelector == <<"css", Apply>>
MCSafety   == <<"css", Save>>

\* Everything works; one element is covered; only selectors are stale; nothing
\* works.
MCOutages ==
    { {}, {<<"button", Save>>, <<"text", Save>>}, {MCSelector, MCSafety}, Ref }
=============================================================================
