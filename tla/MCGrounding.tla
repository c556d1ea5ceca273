---------------------------- MODULE MCGrounding ----------------------------
(* Small instances of Grounding for TLC: the step's phrase is "Save".      *)
EXTENDS Grounding

CONSTANTS Save, Apply, SaveAll, SaveDraftChanges, Home, noName, c2

MCNameMatch ==
    [l \in Label |-> CASE l = Save -> "phrase"
                       [] l \in {SaveAll, SaveDraftChanges} -> "partial"
                       [] OTHER -> "none"]

\* "apply" is a synonym of "save"; the others are difflib's ratios.
MCFuzzyRatio ==
    [l \in Label |-> CASE l \in {Save, Apply}  -> 10000
                       [] l = SaveAll          -> 6667
                       [] l = SaveDraftChanges -> 3636
                       [] OTHER                -> 2500]

E(role, label) == [role |-> role, label |-> label]

NamedElements == {E(r, l) : r \in {"button", "switch", "link"}, l \in Label}
\* Three elements: one of two rivals, or both, may be there twice.
Crowd      == {E(r, l) : r \in {"button", "switch", "combobox", "listbox"}, l \in {Save, SaveAll}}
NamedPages == {<<>>} \union {<<a>> : a \in NamedElements} \union {<<a, b>> : a, b \in NamedElements}
                \union {<<a, b, c>> : a, b, c \in Crowd}

StepOf(action, hint, dropdown) ==
    [action |-> action, hint |-> hint, dropdown |-> dropdown, selector |-> noName]
ClickSteps == {StepOf("click", h, FALSE) : h \in {"none", "link", "dropdown"}}
VerifyStep == StepOf("verify", "none", FALSE)
SelectorStep == [StepOf("click", "none", FALSE) EXCEPT !.selector = <<"css", Save>>]

\* With a strong model, the API that knows strict schemas.
OptionOf(aiFirst, cost, provider, strong) ==
    [aiFirst |-> aiFirst, cost |-> cost, provider |-> provider, strict |-> strong, strong |-> strong]

\* Pages on which Tiers 1 and 2 leave something to the model, and one on which
\* they do not.
AIPages == { <<E("button", SaveDraftChanges)>>, <<E("button", Home), E("link", SaveDraftChanges)>>,
             <<E("button", Home)>>, <<E("button", Save)>>, <<E("heading", Home)>> }
ClickStep == StepOf("click", "none", FALSE)

NoAI     == {OptionOf(f, c, FALSE, FALSE) : f \in BOOLEAN, c \in {"low", "medium"}}
AI       == {OptionOf(f, c, TRUE, s) : f \in BOOLEAN, c \in {"low", "medium"}, s \in BOOLEAN}
MCSteps  == ClickSteps \union {VerifyStep, SelectorStep}
AISteps  == {ClickStep}
AllPages   == NamedPages \union AIPages
AllOptions == NoAI \union AI

\* Two calls on the pages that need a model, with one and without; and without
\* one, a call on every page for every step.
MCCases ==
    \/ screen \in AIPages /\ intent \in AISteps
    \/ ~opt.provider /\ screen \in NamedPages /\ calls[c2] = IdleCall
MCStray == <<"text", Home>>
=============================================================================
