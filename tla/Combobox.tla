------------------------------ MODULE Combobox ------------------------------
(***************************************************************************)
(* Selecting options in the dropdowns of a page: open the widget, narrow    *)
(* its list by typing, click an option, see whether the click took, and     *)
(* when this widget does not offer the value try the others, undoing what   *)
(* the probing selected by accident.  A widget with a picker panel is       *)
(* ticked item by item and confirmed as a whole.                            *)
(***************************************************************************)
EXTENDS Integers, Sequences, FiniteSets, SequencesExt

CONSTANTS
    Option,      \* labels of options
    Holds,       \* Holds[v]: the labels that contain v, v itself too
    MaxOthers,   \* how many other dropdowns are tried (6 in the code)
    MaxRemovals  \* how many selections are removed from one that was (6)

ASSUME OptionAssumption ==
    /\ Holds \in [Option -> SUBSET Option] /\ \A v \in Option : v \in Holds[v]
    /\ MaxOthers \in Nat /\ MaxRemovals \in Nat

\* A widget: a native <select>, a list of options or a panel.  `ant' shows its
\* selections as items, `owned' names its popup, `search' narrows the list to
\* what is typed, `opens' takes a click, `blurs' may select an option when it
\* loses the focus, `stays' keeps its list on screen, `confirm' is a panel that
\* applies nothing before its button.  The last one stands for an element that
\* is no dropdown at all.
Box == [kind : {"native", "list", "panel", "none"}, multi : BOOLEAN, ant : BOOLEAN, owned : BOOLEAN,
        search : BOOLEAN, opens : BOOLEAN, blurs : BOOLEAN, stays : BOOLEAN,
        confirm : BOOLEAN, offers : SUBSET Option]

NoWidget == [kind |-> "none", multi |-> FALSE, ant |-> FALSE, owned |-> FALSE, search |-> FALSE,
             opens |-> TRUE, blurs |-> FALSE, stays |-> FALSE, confirm |-> FALSE, offers |-> {}]

VARIABLES
    boxes,    \* the widgets, in DOM order
    tagged,   \* the widget that an earlier step marked as its trigger, or 0
    chosen,   \* chosen[b]: the selections of widget b
    draft,    \* draft[b]: the items that a panel on screen shows as ticked
    popups,   \* the widgets whose options are on screen
    focus,    \* the widget that has the focus, or 0
    sel       \* the select call

boxVars == <<boxes, tagged, chosen, draft, popups, focus>>

\* A locator of a widget: its container, or an element inside it.
Candidate(b, inner) == [box |-> b, inner |-> inner]

NoSelect == [pc |-> "idle", trigger |-> Candidate(0, FALSE), wants |-> <<>>, left |-> <<>>,
             items |-> <<>>, panel |-> FALSE, ticked |-> {}, late |-> FALSE,
             opened |-> FALSE, cands |-> <<>>, at |-> 0, tries |-> <<>>, was |-> {},
             before |-> <<>>, picked |-> 0, first |-> <<>>, from |-> 0, slipped |-> FALSE,
             kept |-> {}, missed |-> {}, problem |-> FALSE, result |-> "none", error |-> "none"]

\* _do_select: the values of the step for a list, and those for a panel.
StartSelect(trigger, values, items) ==
    [NoSelect EXCEPT !.pc = "open", !.trigger = trigger, !.wants = values, !.left = values,
                     !.items = items, !.first = chosen, !.from = focus]

want == Head(sel.left)
Trigger == boxes[sel.trigger.box]
here == sel.cands[sel.at].box

\* Clicking the option o of widget b: multi-selects and panels toggle, others
\* replace; a panel that is to be confirmed applies nothing yet.
Many(b) == boxes[b].multi \/ boxes[b].kind = "panel"
Confirms(b) == boxes[b].kind = "panel" /\ boxes[b].confirm
Toggle(S, b, o) == IF ~Many(b) THEN {o} ELSE IF o \in S THEN S \ {o} ELSE S \union {o}
Toggled(b, o) == IF Confirms(b) THEN chosen ELSE [chosen EXCEPT ![b] = Toggle(@, b, o)]
Drafted(b, o) == IF Confirms(b) THEN [draft EXCEPT ![b] = Toggle(@, b, o)] ELSE draft

\* The focus moves to b; the widget that loses it may select its active option,
\* unless it is the one whose option was just committed.
Blurred(b, committed) ==
    {chosen} \union
    (IF focus \in {0, b, committed} THEN {}
     ELSE IF ~boxes[focus].blurs THEN {}
     ELSE {[chosen EXCEPT ![focus] = IF Many(focus) THEN @ \union {o} ELSE {o}] :
              o \in boxes[focus].offers})
FocusOn(b, committed) ==
    /\ focus' = b
    /\ chosen' \in Blurred(b, committed)

Opened(b) == {b} \union {c \in popups : boxes[c].stays}
Closed(b) == {c \in popups : c # b \/ boxes[c].stays}
\* A panel shows what is selected when it opens; one that is open keeps its ticks.
Redrawn(b) == IF b \in popups THEN draft ELSE [draft EXCEPT ![b] = chosen[b]]
-----------------------------------------------------------------------------
\* A native select takes the value or the label and no other with it, or waits
\* for it in vain; other widgets are opened.
SelectNative ==
    /\ sel.pc = "open" /\ Trigger.kind = "native"
    /\ IF want \in Trigger.offers
       THEN /\ chosen' = [chosen EXCEPT ![sel.trigger.box] = {want}]
            /\ sel' = [sel EXCEPT !.pc = "done", !.result = "passed"]
       ELSE /\ sel' = [sel EXCEPT !.pc = "done", !.result = "failed", !.error = "timeout"]
            /\ UNCHANGED chosen
    /\ UNCHANGED <<boxes, tagged, draft, popups, focus>>

\* The click that opens a panel shuts it, perhaps, when it was left open: what
\* follows then looks for options.
OpenTrigger ==
    /\ sel.pc = "open" /\ Trigger.kind # "native"
    /\ LET b == sel.trigger.box IN
       \/ /\ Trigger.opens
          /\ FocusOn(b, 0) /\ draft' = Redrawn(b)
          /\ \/ /\ popups' = Opened(b)
                /\ sel' = IF Trigger.kind # "panel" THEN [sel EXCEPT !.pc = "pick", !.opened = TRUE]
                          ELSE [sel EXCEPT !.pc = "panel", !.opened = TRUE, !.wants = sel.items,
                                           !.left = sel.items, !.panel = TRUE, !.ticked = draft'[b]]
             \/ /\ Trigger.kind = "panel" /\ b \in popups /\ ~Trigger.stays
                /\ popups' = Opened(b) \ {b}
                /\ sel' = [sel EXCEPT !.pc = "pick", !.opened = TRUE]
       \/ /\ ~Trigger.opens
          /\ sel' = [sel EXCEPT !.pc = "pick"]
          /\ UNCHANGED <<chosen, draft, popups, focus>>
    /\ UNCHANGED <<boxes, tagged>>

\* One item of a panel: kept when it is ticked, else clicked and looked at again.
\* The click, or the one that is forced after it, may raise, with or without its
\* effect: the panel is left as it is, open.
TickItem ==
    /\ sel.pc = "panel" /\ sel.left # <<>>
    /\ LET b     == sel.trigger.box
           ticks == /\ want \in Trigger.offers
                    /\ want \notin IF Confirms(b) THEN draft[b] ELSE chosen[b]
       IN  \E responds, raises \in BOOLEAN :
              /\ responds \/ raises => ticks
              /\ chosen' = IF responds THEN Toggled(b, want) ELSE chosen
              /\ draft' = IF responds THEN Drafted(b, want) ELSE draft
              /\ sel' = IF raises THEN [sel EXCEPT !.pc = "done", !.result = "failed", !.error = "click"]
                        ELSE [sel EXCEPT !.left = Tail(@),
                                         !.problem = @ \/ want \notin Trigger.offers
                                                       \/ (ticks /\ ~responds)]
    /\ UNCHANGED <<boxes, tagged, popups, focus>>

\* All items were taken: confirm; one was not: cancel, and fail.  The click on the
\* button may raise, with or without its effect; one that does not raise works.
\* A mistake: the panel is confirmed whatever happened.
PressConfirm(problem) == TRUE
Press(problem) == ~problem
ClosePanel ==
    /\ sel.pc = "panel" /\ sel.left = <<>>
    /\ LET b == sel.trigger.box IN
       \E raises, works \in BOOLEAN :
          /\ raises \/ works
          /\ chosen' = IF works /\ Press(sel.problem) /\ Confirms(b)
                       THEN [chosen EXCEPT ![b] = draft[b]] ELSE chosen
          /\ popups' = IF works THEN Closed(b) ELSE popups
          /\ sel' = [sel EXCEPT !.pc = "done", !.late = raises /\ works /\ ~sel.problem,
                                !.result = IF raises \/ sel.problem THEN "failed" ELSE "passed",
                                !.error = IF raises THEN "click" ELSE IF sel.problem THEN "value" ELSE "none"]
    /\ UNCHANGED <<boxes, tagged, draft, focus>>
-----------------------------------------------------------------------------
\* The numbers of S in their order: the n-th of them.
Nth(S, n) == CHOOSE x \in S : Cardinality({y \in S : y <= x}) = n

\* The other triggers on the page, but the one that carries the trigger mark.
OtherTriggers ==
    LET all == {b \in DOMAIN boxes : b # tagged /\ boxes[b].kind \notin {"native", "none"}}
    IN  [n \in {i \in 1..Cardinality(all) : i <= MaxOthers} |-> Candidate(Nth(all, n), FALSE)]

\* One candidate per widget, the first.  A mistake: all are kept.
KeepAll(cands) == cands
Dedupe(cands) ==
    LET first == {i \in DOMAIN cands : \A j \in 1..i - 1 : cands[j].box # cands[i].box}
    IN  [n \in 1..Cardinality(first) |-> cands[Nth(first, n)]]

\* _select_single: the trigger, then the others unless several values are wanted.
StartPick ==
    /\ sel.pc = "pick"
    /\ sel' = [sel EXCEPT !.pc = "try", !.at = 1, !.before = chosen,
                          !.cands = Dedupe(<<sel.trigger>> \o
                                       IF Len(sel.wants) = 1 THEN OtherTriggers ELSE <<>>)]
    /\ UNCHANGED boxVars

\* The shapes an option is looked for in: the popup the widget owns, then the
\* page.
Shapes(b) ==
    (IF boxes[b].owned THEN <<"own", "own", "own part">> ELSE <<>>)
    \o <<"page", "page part", "page", "marked">>

\* Open the candidate, unless it is the trigger just opened, and type the value.
TryCandidate ==
    /\ sel.pc = "try" /\ sel.at <= Len(sel.cands)
    /\ LET next == [sel EXCEPT !.pc = "click", !.tries = Shapes(here), !.opened = FALSE,
                               !.was = chosen'[here]]
       IN  \/ /\ sel.opened
              /\ UNCHANGED <<chosen, draft, popups, focus>>
              /\ sel' = next
           \/ /\ ~sel.opened /\ boxes[here].opens
              /\ FocusOn(here, 0) /\ popups' = Opened(here) /\ draft' = Redrawn(here)
              /\ sel' = next
           \/ /\ ~sel.opened /\ ~boxes[here].opens
              /\ UNCHANGED <<chosen, draft, popups, focus>>
              /\ sel' = [sel EXCEPT !.at = @ + 1]
    /\ UNCHANGED <<boxes, tagged>>

\* The rows on screen: of the popup being searched, those that contain the value.
Rows ==
    UNION {{<<b, o>> : o \in IF b = here /\ boxes[b].search
                             THEN boxes[b].offers \intersect Holds[want] ELSE boxes[b].offers} :
           b \in popups}

\* The rows a shape finds; the last one falls back on the only row there is.
Found(shape) ==
    LET exact == {r \in Rows : r[2] = want}
        part  == {r \in Rows : r[2] \in Holds[want]}
    IN  CASE shape = "own"       -> {r \in exact : r[1] = here}
          [] shape = "own part"  -> {r \in part : r[1] = here}
          [] shape = "page"      -> exact
          [] shape = "page part" -> part
          [] OTHER               -> IF exact # {} THEN exact ELSE IF part # {} THEN part
                                    ELSE IF Cardinality(Rows) = 1 THEN Rows ELSE {}

\* _value_committed: the value is among the selections, or contains or is part of one.
Committed(v, selections) == \E t \in selections : t \in Holds[v] \/ v \in Holds[t]

\* The candidate number i took the value; 0 if none did.
Picked(i) == [sel EXCEPT !.pc = "undo", !.picked = i, !.at = 1, !.tries = <<>>]

\* Click the first row of the next shape.  A click need not take; for a widget
\* that shows its selections the adapter looks, for others it does not.
ClickOption ==
    /\ sel.pc = "click" /\ sel.tries # <<>>
    /\ IF Found(Head(sel.tries)) = {}
       THEN /\ sel' = [sel EXCEPT !.tries = Tail(@)]
            /\ UNCHANGED <<chosen, draft, popups>>
       ELSE \E r \in Found(Head(sel.tries)), takes \in BOOLEAN :
               /\ chosen' = IF takes THEN Toggled(r[1], r[2]) ELSE chosen
               /\ draft' = IF takes THEN Drafted(r[1], r[2]) ELSE draft
               /\ popups' = IF takes /\ ~Many(r[1]) THEN Closed(r[1]) ELSE popups
               /\ sel' = IF \/ ~boxes[here].ant
                            \/ Committed(want, chosen'[here])
                            \/ chosen'[here] # sel.was /\ popups' = {}
                         THEN Picked(sel.at)
                         ELSE [sel EXCEPT !.tries = Tail(@), !.slipped = @ \/ ~takes]
    /\ UNCHANGED <<boxes, tagged, focus>>

\* Nothing clicked took.  Enter commits the highlighted row, if the value was
\* typed and the list shows it once or shows one row that contains it; else
\* the filter is cleared and Escape closes the popup.
EnterOrLeave ==
    LET exact == {r \in Rows : r[2] = want}
        enter == /\ boxes[here].search
                 /\ \/ Cardinality(exact) = 1
                    \/ Cardinality(Rows) = 1 /\ \A r \in Rows : r[2] \in Holds[want]
        leave == [sel EXCEPT !.pc = "try", !.at = @ + 1]
    IN  /\ sel.pc = "click" /\ sel.tries = <<>>
        /\ \E takes \in BOOLEAN, r \in Rows \union {<<here, want>>} :
              /\ takes => enter /\ r \in Rows /\ r[1] = here
              /\ chosen' = IF takes THEN Toggled(here, r[2]) ELSE chosen
              /\ draft' = IF takes THEN Drafted(here, r[2]) ELSE draft
              /\ sel' = IF enter /\ Committed(want, chosen'[here]) THEN Picked(sel.at) ELSE leave
        /\ popups' = IF sel'.pc = "undo" /\ boxes[here].multi THEN popups ELSE Closed(here)
        /\ UNCHANGED <<boxes, tagged, focus>>

\* No candidate took the value.
NoneTook ==
    /\ sel.pc = "try" /\ sel.at > Len(sel.cands)
    /\ sel' = Picked(0)
    /\ UNCHANGED boxVars
-----------------------------------------------------------------------------
\* _remove_new_selections: a new item is removed by its x, which only the
\* container of a multi-select has.  A mistake: only when nothing was picked.
News(i) == chosen[sel.cands[i].box] \ sel.before[sel.cands[i].box]
UndoableIfNonePicked(i) ==
    LET c == sel.cands[i] IN
    /\ sel.picked = 0 /\ boxes[c.box].multi /\ boxes[c.box].ant /\ ~c.inner
    /\ News(i) # {}
Undoable(i) ==
    LET c == sel.cands[i] IN
    /\ i # sel.picked /\ boxes[c.box].multi /\ boxes[c.box].ant /\ ~c.inner
    /\ News(i) # {}
PickedBox == IF sel.picked = 0 THEN 0 ELSE sel.cands[sel.picked].box

\* A few are removed, or fewer when the click on an x fails: `stay'.
Undo ==
    /\ sel.pc = "undo" /\ sel.at <= Len(sel.cands)
    /\ IF Undoable(sel.at)
       THEN \E stay \in SUBSET News(sel.at) :
               /\ Cardinality(News(sel.at) \ stay) <= MaxRemovals
               /\ sel' = [sel EXCEPT !.at = @ + 1, !.kept = IF stay = {} THEN @ ELSE @ \union {here}]
               /\ focus' = IF focus = here THEN here ELSE 0
               /\ \E after \in Blurred(here, PickedBox) :
                     chosen' = [after EXCEPT ![here] = (@ \intersect sel.before[here]) \union stay]
       ELSE /\ sel' = [sel EXCEPT !.at = @ + 1]
            /\ UNCHANGED <<chosen, focus>>
    /\ UNCHANGED <<boxes, tagged, draft, popups>>

\* The value is done with: the next one of a multi-select, or the end.
EndPick ==
    /\ sel.pc = "undo" /\ sel.at > Len(sel.cands)
    /\ LET missed == IF sel.picked = 0 THEN sel.missed \union {want} ELSE sel.missed
           all    == missed = Range(sel.wants)
       IN  sel' = IF Len(sel.left) > 1
                  THEN [sel EXCEPT !.pc = "pick", !.left = Tail(@), !.missed = missed, !.opened = FALSE]
                  ELSE [sel EXCEPT !.pc = "done", !.missed = missed,
                                   !.result = IF all THEN "failed" ELSE "passed",
                                   !.error = IF all THEN "value" ELSE "none"]
    /\ UNCHANGED boxVars

Selecting ==
    \/ SelectNative \/ OpenTrigger \/ TickItem \/ ClosePanel
    \/ StartPick \/ TryCandidate \/ ClickOption \/ EnterOrLeave \/ NoneTook
    \/ Undo \/ EndPick
=============================================================================
