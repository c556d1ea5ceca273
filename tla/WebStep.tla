------------------------------ MODULE WebStep -------------------------------
(***************************************************************************)
(* The steps a script performs on a web page, one after the other: the DOM  *)
(* resolvers that claim a step ahead of grounding, grounding, the DOM       *)
(* fallbacks, the execution of the action by the adapter with its retry,    *)
(* and the recovery by the same fallbacks when it fails.  The page may      *)
(* re-render, open or close a dialog or change a control under a step.      *)
(***************************************************************************)
EXTENDS DomFinders, Combobox

CONSTANTS
    Scenarios,    \* pages with the steps performed on them
    TextOf,       \* TextOf[o]: the words of the label o
    MaxEvents,    \* things the page does on its own
    Retries       \* the retry budget of a step, at most 1

ASSUME RetriesAssumption ==
    Retries \in {0, 1} /\ MaxEvents \in Nat /\ TextOf \in [Option -> Text]

\* A step: what it says to do, and the words it does it with; the value as it is
\* written, and what its commas part it into.
Step ==
    [ action : STRING, phrase : Text, ctx : Text, says : SUBSET STRING, side : STRING,
      whole : Option, value : Seq(Option),
      spec : [ kind : STRING, where : Text, value : Text, row : Int, control : STRING,
               text : Text, column : Text ] ]

\* A dialog comes and goes with all that is in it; file inputs are never visible.
InDialog(page) == {i \in DOMAIN page : page[i].where = "dialog" /\ page[i].kind # "file"}

ASSUME ScenariosAssumption ==
    \A s \in Scenarios :
        /\ s.dom \in Seq(Element) /\ s.shown \subseteq DOMAIN s.dom /\ s.on \subseteq DOMAIN s.dom
        /\ s.steps \in Seq(Step) /\ s.steps # <<>>
        /\ s.boxes \in Seq(Box) /\ s.chosen \in [DOMAIN s.boxes -> SUBSET Option]
        /\ Len(s.boxes) = Cardinality({i \in DOMAIN s.dom : s.dom[i].kind = "select"}) + 1
        /\ s.boxes[Len(s.boxes)] = NoWidget
        /\ InDialog(s.dom) \subseteq s.shown \/ InDialog(s.dom) \cap s.shown = {}

Clicks  == {"click", "tap"}
Types   == {"type", "fill"}
Toggles == {"select", "check", "click", "tap", "uncheck"}

VARIABLES
    dom,      \* the elements of the page, in DOM order
    shown,    \* those that are visible
    on,       \* the checked radios and checkboxes and the expanded panels
    mark,     \* mark[a]: the elements that carry the marker of finder a
    steps,    \* the steps still to do
    call,     \* the step being done
    events    \* what the page still may do on its own

pageVars == <<dom, shown, on, mark, steps, call, events>>
vars == <<pageVars, boxVars, sel>>

\* The finders; those that mark what they found use a marker of their own.
Finders == {"cell", "link", "header", "range", "file", "dialog", "collapse", "radio",
            "checkbox", "editor", "input", "select", "click"}
\* They prefer the id of an element to a marker.
ById == {"dialog", "collapse", "radio", "checkbox", "input", "select"}

\* The widgets are the dropdowns of the page, in DOM order, and NoWidget.
Selects == {i \in DOMAIN dom : dom[i].kind = "select"}
BoxOf(e) == IF e \in Selects THEN Rank(Selects, e) + 1 ELSE Len(boxes)
Displays(value) == {e \in Of(dom, shown, {"select"}) : chosen[BoxOf(e)] = {value}}
Displayed == [e \in Selects |-> UNION {TextOf[o] : o \in chosen[BoxOf(e)]}]

\* What a finder returned for the step: ran, and the element it found.
Claim(attr, ran, el, act) == [attr |-> attr, ran |-> ran, el |-> IF ran THEN el ELSE None, act |-> act]

\* What the words of the step say of a control.
DesiredOff(s) == s.says \intersect {"uncheck", "unselect", "deselect", "untick", "clear"} # {}
SaysPanel(s)  == s.says \intersect {"expand", "collapse", "accordion", "unfold", "fold"} # {}
\* "fold" is looked for with a blank after it, and "unfold" ends in it.
WantOpen(s)   == s.says \intersect {"collapse", "close", "hide", "fold", "unfold"} = {} \/ "expand" \in s.says
IsDropdown(s, act) == act = "select" \/ "dropdown" \in s.says
-----------------------------------------------------------------------------
\* The resolvers ahead of grounding: when each looks, and what it finds.
CellClaim(s)   == Claim("cell", s.spec.kind = "cell", FindCell(dom, shown, s.spec), s.action)
LinkClaim(s)   == Claim("link", s.spec.kind = "link", FindLink(dom, shown, s.phrase), s.action)
HeaderClaim(s) == Claim("header", s.action \in Clicks /\ s.spec.kind = "header",
                        FindHeaderControl(dom, shown, s.spec.column, s.phrase), s.action)
RangeClaim(s)  == Claim("range", s.action \in Types /\ s.side # "none", FindRange(dom, shown, s.side, s.phrase), s.action)
FileClaim(s)   == Claim("file", s.action = "upload" /\ s.phrase # {}, FindFile(dom, shown, s.phrase), s.action)
DialogClaim(s) == Claim("dialog", s.action \in Clicks, FindDialogClickable(dom, shown, s.phrase), s.action)
PanelClaim(s)  == Claim("collapse", s.action \in Clicks \union {"select"} /\ SaysPanel(s) /\ s.phrase # {},
                        FindCollapse(dom, shown, s.phrase, s.ctx), "click")
RadioClaim(s)  == Claim("radio", s.action \in Toggles /\ "radio" \in s.says /\ s.phrase # {},
                        FindRadio(dom, shown, s.phrase, s.ctx), "click")
CheckClaim(s)  == Claim("checkbox", s.action \in Toggles /\ "checkbox" \in s.says /\ s.phrase # {},
                        FindCheckbox(dom, shown, s.phrase, s.ctx), IF DesiredOff(s) THEN "uncheck" ELSE "check")
EditorClaim(s) == Claim("editor", s.action \in Types /\ s.phrase # {}, FindRichText(dom, shown, s.phrase), s.action)
InputClaim(s)  == Claim("input", s.action \in Types /\ s.phrase # {}, FindInput(dom, shown, s.phrase), s.action)

\* Their order.
Claims(s) ==
    << CellClaim(s), LinkClaim(s), HeaderClaim(s), RangeClaim(s), FileClaim(s), DialogClaim(s),
       PanelClaim(s), RadioClaim(s), CheckClaim(s), EditorClaim(s), InputClaim(s) >>

\* The finders that ran until the first that claims; all if none does.
RanUpTo(all, first) ==
    {all[i] : i \in {j \in DOMAIN all : all[j].ran /\ (first = 0 \/ j <= first)}}

\* An input is claimed early only when its section tells it from a namesake.
Claiming(s, c) == c.el # None /\ (c.attr = "input" => Sectioned(dom, shown, s.phrase, c.el))

\* The fallbacks when grounding or the action fails, for the action as it stands.
Fallbacks(s, act) ==
    << Claim("select", IsDropdown(s, act),
             FindTrigger(dom, shown, s.phrase, Displays(s.whole), Displayed), act),
       Claim("click", act \in Clicks, FindClickable(dom, shown, s.phrase), act),
       Claim("input", act \in Types /\ s.phrase # {}, FindInput(dom, shown, s.phrase), act) >>

\* Each finder that ran takes its marker off the page before it marks its find.
\* A mistake: the markers of earlier steps stay.
MarksKept(ran) ==
    [a \in Finders |-> mark[a] \union ({c.el : c \in {d \in ran : d.attr = a}} \ {None})]
Marks(ran) ==
    [a \in Finders |-> IF \E c \in ran : c.attr = a
                       THEN {c.el : c \in {d \in ran : d.attr = a}} \ {None} ELSE mark[a]]

\* How a found element is addressed: by its id, by the marker, or by its name.
RefTo(attr, el) ==
    [by |-> IF attr = "name" THEN "name" ELSE IF attr \in ById /\ dom[el].id THEN "id" ELSE "mark",
     attr |-> attr, el |-> el]
NoRef == [by |-> "none", attr |-> "none", el |-> None]
\* Two refs are the same selector.
SameRef(p, q) ==
    /\ p.by = q.by
    /\ CASE p.by = "id"   -> p.el = q.el
         [] p.by = "mark" -> p.attr = q.attr
         [] OTHER         -> dom[p.el].label = dom[q.el].label
\* What the three fallbacks found, but for the ref that was tried.
Untried(all, ref) ==
    LET RefAt(i) == RefTo(all[i].attr, all[i].el)
        IfNew(i) == IF all[i].el # None /\ ~SameRef(RefAt(i), ref) THEN <<RefAt(i)>> ELSE <<>>
    IN  IfNew(1) \o IfNew(2) \o IfNew(3)
\* What a ref matches on the page now; a file input may be hidden.
Present == {i \in DOMAIN dom : i \in shown \/ dom[i].kind = "file"}
Targets(ref) ==
    Present \intersect
    CASE ref.by = "id"   -> {ref.el}
      [] ref.by = "mark" -> mark[ref.attr]
      [] OTHER           -> {i \in shown : /\ dom[i].kind = dom[ref.el].kind
                                           /\ dom[i].label = dom[ref.el].label}
-----------------------------------------------------------------------------
NewCall(s, n) ==
    [n |-> n, step |-> s, pc |-> "resolve", ref |-> NoRef, act |-> s.action, claim |-> "none",
     tries |-> 0, recovering |-> FALSE, queue |-> <<>>, hits |-> <<>>, lates |-> 0,
     outside |-> FALSE, result |-> "none"]

Init ==
    \E s \in Scenarios :
       /\ dom = s.dom /\ shown = s.shown /\ on = s.on
       /\ boxes = s.boxes /\ tagged = 0 /\ popups = {b \in DOMAIN s.boxes : s.boxes[b].stays}
       /\ focus = 0 /\ sel = NoSelect
       /\ chosen = s.chosen /\ draft = s.chosen
       /\ mark = [a \in Finders |-> {}]
       /\ steps = Tail(s.steps) /\ call = NewCall(Head(s.steps), 1)
       /\ events = MaxEvents

Still == UNCHANGED <<dom, steps, events>>
End(result) == [call EXCEPT !.pc = "done", !.result = result]
Target(ref, act) == [call EXCEPT !.pc = "act", !.ref = ref, !.act = act]

\* The trigger mark, which the probing of other dropdowns leaves out.
TagTrigger(m) == tagged' = IF m["select"] = {} THEN 0 ELSE BoxOf(CHOOSE e \in m["select"] : TRUE)

\* act(): the resolvers ahead of grounding.  A panel that already is as wanted
\* passes without a touch.
Resolve ==
    /\ call.pc = "resolve"
    /\ \E all \in {Claims(call.step)} : \E first \in {SelectInSeq(all, LAMBDA c : Claiming(call.step, c))} :
          /\ mark' = Marks(RanUpTo(all, first))
          /\ call' = IF first = 0 THEN [call EXCEPT !.pc = "ground"]
                     ELSE IF all[first].attr = "collapse" /\ (all[first].el \in on) = WantOpen(call.step)
                     THEN [End("passed") EXCEPT !.claim = "collapse", !.ref = RefTo("collapse", all[first].el)]
                     ELSE [Target(RefTo(all[first].attr, all[first].el), all[first].act) EXCEPT
                              !.claim = all[first].attr]
    /\ Still /\ UNCHANGED <<shown, on, boxVars, sel>>

\* Grounding names a visible element that shares a word with the phrase, or fails.
Ground ==
    /\ call.pc = "ground"
    /\ \/ \E e \in {i \in shown : dom[i].label \intersect call.step.phrase # {}} :
             call' = Target(RefTo("name", e), call.act)
       \/ call' = [call EXCEPT !.pc = "fall"]
    /\ Still /\ UNCHANGED <<shown, on, mark, boxVars, sel>>

\* The DOM fallbacks, in their order: the first that finds something.
FallBack ==
    /\ call.pc = "fall"
    /\ \E all \in {Fallbacks(call.step, call.act)}, more \in {FindOverflow(dom, shown)} :
       \E first \in {SelectInSeq(all, LAMBDA c : c.el # None)} :
           /\ mark' = Marks(RanUpTo(all, first)) /\ TagTrigger(mark')
           /\ IF first # 0
              THEN /\ call' = Target(RefTo(all[first].attr, all[first].el), call.act)
                   /\ UNCHANGED shown
              ELSE IF call.act \in Clicks /\ more # None /\ more \in shown
                      /\ ~({i \in DOMAIN dom : dom[i].where = "menu"} \subseteq shown)
              THEN /\ shown' = shown \union {i \in DOMAIN dom : dom[i].where = "menu"}
                   /\ UNCHANGED call
              ELSE /\ call' = End("failed")
                   /\ UNCHANGED shown
    /\ Still /\ UNCHANGED <<on, boxes, chosen, draft, popups, focus, sel>>
-----------------------------------------------------------------------------
\* The end of a target: the recovery, its next candidate, or the end.
GiveUp ==
    IF ~call.recovering THEN [call EXCEPT !.pc = "recover"]
    ELSE IF call.queue = <<>> THEN End("failed")
    ELSE [Target(Head(call.queue), call.act) EXCEPT !.queue = Tail(@), !.tries = 0]

\* A failed attempt is made once more if the error passes.  A mistake: attempts are
\* not counted.
RetryForever(transient) ==
    IF transient /\ Retries > 0 THEN [call EXCEPT !.pc = "act"] ELSE GiveUp
Retry(transient) ==
    IF transient /\ call.tries < Retries
    THEN [call EXCEPT !.pc = "act", !.tries = @ + 1] ELSE GiveUp

Matched == Targets(call.ref)
\* Several matches: value entry refuses, other actions take one of them.
Strict == Cardinality(Matched) > 1 /\ call.act \in Types \union {"set"}

\* _pick_click_by_visible_text: of several matches the one whose text on screen is
\* the phrase, else contains it; else, and for other actions, the first.
OnSight(e) == IF dom[e].icon THEN {} ELSE dom[e].label
Struck ==
    LET hint == Fold(call.step.phrase)
        same == {e \in Matched : Fold(OnSight(e)) = hint}
        part == {e \in Matched : hint \subseteq Fold(OnSight(e))}
    IN  IF call.act \notin Clicks \/ hint = {} \/ part = {} THEN Min(Matched)
        ELSE IF same # {} THEN Min(same) ELSE Min(part)

\* The attempt fails before it does anything: nothing matches, or too much, or what
\* matches cannot be acted on (covered, disabled), which is an event of the page.
CannotAct ==
    /\ call.pc = "act"
    /\ \E transient \in BOOLEAN :
          /\ call' = Retry(transient)
          /\ \/ /\ Matched = {} /\ transient
                /\ UNCHANGED events
             \/ /\ Matched # {} /\ Strict /\ ~transient
                /\ UNCHANGED events
             \/ /\ Matched # {} /\ ~Strict /\ call.act # "select"
                /\ events > 0 /\ events' = events - 1
    /\ UNCHANGED <<dom, steps, shown, on, mark, boxVars, sel>>

\* The action took effect: the step passed.
Passed == End("passed")

\* A click flips a checkbox or a panel and sets a radio of its group.
Clicked(e) ==
    CASE dom[e].kind = "radio" ->
             {i \in on : dom[i].kind # "radio" \/ dom[i].group # dom[e].group} \union {e}
      [] dom[e].kind \in {"checkbox", "collapse"} -> IF e \in on THEN on \ {e} ELSE on \union {e}
      [] OTHER -> on

\* _set_checkbox reads the state first.  A mistake: it just clicks.
SetWithoutReading(e, wanted) == Clicked(e)
SetCheckbox(e, wanted) == IF (e \in on) = wanted THEN on ELSE Clicked(e)

Effect(e) ==
    CASE call.act \in Clicks -> Clicked(e)
      [] call.act \in {"check", "uncheck"} /\ dom[e].kind = "checkbox" -> SetCheckbox(e, call.act = "check")
      [] OTHER -> on

\* The action is done.  It may still be reported as a timeout, which is an event of
\* the page: `lates' counts them.
DoAction ==
    /\ call.pc = "act" /\ call.act # "select"
    /\ Matched # {} /\ ~Strict
    /\ \E e \in {Struck} : \E hits \in {Append(call.hits, [ref |-> call.ref, got |-> e])} :
           /\ on' = Effect(e)
           /\ \/ /\ call' = [Passed EXCEPT !.hits = hits]
                 /\ UNCHANGED events
              \/ /\ events > 0 /\ events' = events - 1
                 /\ call' = [Retry(TRUE) EXCEPT !.hits = hits, !.lates = @ + 1]
    /\ UNCHANGED <<dom, steps, shown, mark, boxVars, sel>>

\* A multi-select takes the value of the step apart, and a panel does if it has no
\* item of the value as it is written.
Parts(s) == IF s.value # <<>> THEN s.value ELSE <<s.whole>>
Values(s, b) == IF boxes[b].kind # "native" /\ boxes[b].multi THEN Parts(s) ELSE <<s.whole>>
Items(s, b) == IF s.whole \in boxes[b].offers THEN <<s.whole>> ELSE Parts(s)

\* A select opens what it resolved to, whatever that is.
StartSelecting ==
    /\ call.pc = "act" /\ call.act = "select" /\ Matched # {}
    /\ LET e == Min(Matched)
           b == BoxOf(e)
       IN
       /\ sel' = StartSelect(Candidate(b, call.ref.by = "name"), Values(call.step, b), Items(call.step, b))
       /\ call' = [call EXCEPT !.pc = "select", !.hits = Append(@, [ref |-> call.ref, got |-> e])]
    /\ Still /\ UNCHANGED <<shown, on, mark, boxVars>>

Select ==
    /\ call.pc = "select" /\ sel.pc # "done"
    /\ Selecting
    /\ UNCHANGED pageVars

\* A value that is not offered is no transient error; a click that raised may be one,
\* and an option waited for in a native select is.
Transient(error) ==
    CASE error = "timeout" -> {TRUE} [] error = "click" -> BOOLEAN [] OTHER -> {FALSE}
EndSelecting ==
    /\ call.pc = "select" /\ sel.pc = "done"
    /\ IF sel.result = "passed" THEN call' = End("passed")
       ELSE \E transient \in Transient(sel.error) : call' = Retry(transient)
    /\ Still /\ UNCHANGED <<shown, on, mark, boxVars, sel>>

\* _recover_failed_execution: all fallbacks look, then those whose selector was
\* not tried are executed in turn.
Recover ==
    /\ call.pc = "recover"
    /\ \E all \in {Fallbacks(call.step, call.act)} : \E refs \in {Untried(all, call.ref)} :
           /\ mark' = Marks(RanUpTo(all, 0)) /\ TagTrigger(mark')
           /\ call' = IF refs = <<>> THEN End("failed")
                      ELSE [Target(Head(refs), call.act) EXCEPT
                               !.queue = Tail(refs), !.recovering = TRUE, !.tries = 0]
    /\ Still /\ UNCHANGED <<shown, on, boxes, chosen, draft, popups, focus, sel>>

NextStep ==
    /\ call.pc = "done" /\ steps # <<>>
    /\ call' = NewCall(Head(steps), call.n + 1) /\ steps' = Tail(steps)
    /\ sel' = NoSelect
    /\ UNCHANGED <<dom, shown, on, mark, events, boxVars>>
-----------------------------------------------------------------------------
\* The page on its own, while the script thinks.
Busy == call.pc # "done" /\ call.pc # "select"
Spend == Busy /\ events > 0 /\ events' = events - 1

\* The app renders an element anew: the markers on it are gone.
Rerender ==
    /\ Spend
    /\ \E e \in shown : /\ \E a \in Finders : e \in mark[a]
                        /\ mark' = [a \in Finders |-> mark[a] \ {e}]
                        /\ tagged' = IF dom[e].kind = "select" /\ tagged = BoxOf(e) THEN 0 ELSE tagged
    /\ UNCHANGED <<dom, shown, on, steps, call, boxes, chosen, draft, popups, focus, sel>>

\* A dialog opens or closes.
DialogFlips ==
    /\ Spend
    /\ LET inside == InDialog(dom)
       IN  /\ inside # {}
           /\ shown' = IF inside \subseteq shown THEN shown \ inside ELSE shown \union inside
    /\ UNCHANGED <<dom, on, mark, steps, call, boxVars, sel>>

\* The app flips a control.
ControlFlips ==
    /\ Spend
    /\ \E e \in Of(dom, shown, {"checkbox", "collapse", "radio"}) : on' = Clicked(e)
    /\ call' = [call EXCEPT !.outside = TRUE]
    /\ UNCHANGED <<dom, shown, mark, steps, boxVars, sel>>

Script ==
    \/ Resolve \/ Ground \/ FallBack \/ CannotAct \/ DoAction
    \/ StartSelecting \/ Select \/ EndSelecting \/ Recover \/ NextStep
Next == Script \/ Rerender \/ DialogFlips \/ ControlFlips

Spec == Init /\ [][Next]_vars /\ WF_vars(Script)
-----------------------------------------------------------------------------
\* An action that a finder addressed by an id or a marker lands on the element
\* the finder found, whatever earlier steps marked (data-bg-*).
LandsWhereFound ==
    \A h \in Range(call.hits) : h.ref.by # "name" => h.got = h.ref.el

\* A passed checkbox step leaves the box as the step says, even when an attempt
\* that took effect was reported as a timeout and tried again (_set_checkbox).
CheckboxEndsAsWanted ==
    call.pc = "done" /\ call.result = "passed" /\ call.claim = "checkbox"
        /\ ~call.outside /\ ~call.recovering
        => (call.ref.el \in on) = ~DesiredOff(call.step)

\* A passed expand or collapse step leaves the panel as the step says, when the app
\* does not flip it and no click on it was reported late; after a late report the
\* click is repeated and the panel flips back (_maybe_resolve_collapse reads the
\* panel once; "unfold" is taken for "fold").
SaysOpen(s) == s.says \intersect {"collapse", "close", "hide", "fold"} = {} \/ "expand" \in s.says
PanelEndsAsWanted ==
    call.pc = "done" /\ call.result = "passed" /\ call.claim = "collapse"
        /\ ~call.outside /\ ~call.recovering /\ "unfold" \notin call.step.says
        => (call.ref.el \in on) = (SaysOpen(call.step) = (call.lates = 0))

\* A field found by its texts shares a word with the phrase: an unlabelled or
\* unrelated field is never typed into (_FIND_INPUT_JS).
FieldsMatchTheirPhrase ==
    \A h \in Range(call.hits) :
        h.ref.attr = "input" =>
            LET e == dom[h.ref.el] IN
            Hits(call.step.phrase, e.label \union e.hint \union e.section) # {}

\* Of options with the same label the one whose section the step names is taken, on
\* a page whose positions, which are part of the score, weigh less than a word.
SectionDecides ==
    call.claim \in {"radio", "checkbox"} /\ call.pc = "act" /\ ~call.recovering =>
        LET e == call.ref.el
            words == Context(call.step.ctx, call.step.phrase)
        IN  2 * Cardinality(words) * Len(dom) <= Unit =>
            \A f \in Of(dom, shown, {dom[e].kind}) :
                dom[f].label = dom[e].label /\ dom[f].where = dom[e].where
                    => Overlap(words, dom[f].section) <= Overlap(words, dom[e].section)

\* A step does its action once, and once more for each attempt that took effect and
\* was reported as a timeout.  (A dropdown that refused is opened again.)
OneEffect ==
    call.act # "select" => Len(call.hits) <= 1 + call.lates

\* What a passed step did is what it said, up to attempts reported late.
DoneAsSaid == CheckboxEndsAsWanted /\ PanelEndsAsWanted /\ OneEffect

\* The words of a step choose its target; position breaks ties and no more.
WordsDecide == FieldsMatchTheirPhrase /\ SectionDecides

\* Every step ends: retries, recovery and probing of dropdowns are bounded.
StepsEnd == <>(call.pc = "done" /\ steps = <<>>)
-----------------------------------------------------------------------------
Selected == sel.pc = "done" /\ sel.result = "passed"

\* Widgets whose selections can be seen and whose list shows what was typed.
Verifiable == \A b \in DOMAIN boxes \ {Len(boxes)} : boxes[b].ant /\ boxes[b].search

\* The value was taken by a dropdown: what is none is clicked and not looked at.
TakenByWidget == sel.picked # 0 => PickedBox # Len(boxes)

\* No option that the dropdown shows for one value of the step goes for another.
ValuesApart ==
    \A v, w \in Range(sel.wants) :
        v # w => \A o \in Trigger.offers \intersect Holds[w] : ~Committed(v, {o})

\* A passed selection of verifiable widgets shows at its end the values that it
\* did not report as missed: probing and undoing leaves them in place.
PassedMeansSelected ==
    Selected /\ Verifiable /\ TakenByWidget /\ ValuesApart
        => \A v \in Range(sel.wants) \ sel.missed : \E b \in DOMAIN boxes : Committed(v, chosen[b])

\* A list that stays on screen is one that a click opens.
StayingOpens == \A b \in DOMAIN boxes : boxes[b].stays => boxes[b].opens

\* Probing leaves nothing behind: a multi-select that was tried and not picked
\* ends with no selection it did not have when the probing began, whichever
\* widget lost the focus to which, unless a click that removes one failed
\* (_remove_new_selections).
ProbingLeavesNothing ==
    sel.pc = "done" /\ StayingOpens =>
        \A i \in DOMAIN sel.cands :
            LET c == sel.cands[i] IN
            i # sel.picked /\ c.box \notin sel.kept /\ boxes[c.box].multi /\ boxes[c.box].ant /\ ~c.inner
                => chosen[c.box] \subseteq sel.before[c.box]

\* A value that the step's own dropdown offers goes to it and to no namesake,
\* when its clicks take and it names its popup (_owned_dropdown); the widget that
\* had the focus may select on its own.
NamesakesUntouched ==
    Selected /\ Trigger.kind = "list" /\ Trigger.owned /\ Trigger.opens /\ Trigger.ant
        /\ ~sel.slipped /\ Range(sel.wants) \subseteq Trigger.offers
        => \A b \in DOMAIN boxes \ {sel.trigger.box, sel.from} : chosen[b] = sel.first[b]

\* Only the dropdown of the step keeps a selection it did not have.
OthersUntouched == ProbingLeavesNothing /\ NamesakesUntouched

\* A panel with a confirm button applies all the values of the step, with what it
\* showed as ticked when the step came to it, or nothing; when the step failed
\* nothing, unless the click that confirmed it took effect and raised
\* (_try_checkable_panel).
PanelAllOrNothing ==
    sel.pc = "done" /\ sel.panel /\ Confirms(sel.trigger.box) =>
        LET b == sel.trigger.box IN
        IF sel.result = "passed" \/ sel.late THEN chosen[b] = sel.ticked \union Range(sel.wants)
                                             ELSE chosen[b] = sel.first[b]

\* Nothing half-applied is committed: what a passed step applies through a panel is
\* its own, and not what a failed step before it left ticked.
PanelAppliesItsOwn ==
    Selected /\ sel.panel /\ Confirms(sel.trigger.box) =>
        chosen[sel.trigger.box] \subseteq sel.first[sel.trigger.box] \union Range(sel.wants)
=============================================================================
