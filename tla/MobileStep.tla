------------------------------ MODULE MobileStep ------------------------------
(***************************************************************************)
(* The steps a script performs on a mobile app: act, verify and extract of  *)
(* core/sdk.py on the mobile channel over the Appium adapter, reads a host  *)
(* does with the adapter alone, and actions of the device.  Every access to *)
(* the driver is a step of its own, and between two of them the app may     *)
(* show another screen or the system an alert.                             *)
(***************************************************************************)
EXTENDS ScreenTargets, Surfaces

CONSTANTS
    Scripts,      \* apps with their configuration and the calls made on them
    Polls,        \* readings of the hierarchy that fit into the stability timeout
    MaxChanges,   \* things the app or the system does on its own
    MaxErrors     \* accesses to the driver that fail

ASSUME BoundsAssumption == Polls \in Nat /\ MaxChanges \in Nat /\ MaxErrors \in Nat

\* _MAX_RETRY_CAP: whatever a step asks for, its gesture is repeated once at most.
ASSUME RetryCapAssumption == \A s \in Scripts : s.opt.execRetries \in {0, 1}

\* An app shows screens it has; every screen below another is one of them.
ScreenFits(x) == {x.nodes, x.web} \subseteq Seq(Node) /\ x.seen \in Seq(Sight)
AppFits(s) ==
    /\ s.start \in DOMAIN s.screens /\ s.below \in [DOMAIN s.screens -> DOMAIN s.screens]
    /\ \A a \in DOMAIN s.screens : ScreenFits(s.screens[a])

\* A step's phrase is the instruction where the parser finds no other, so what is to
\* be acted on has words; what is not acted on is not tapped or typed into either.
StepFits(t) ==
    /\ t.phrase \subseteq Word
    /\ t.op = "act" => t.phrase # {}
    /\ t.op # "act" => t.action \notin {"tap", "click", "type"}
ASSUME ScriptsAssumption ==
    \A s \in Scripts : AppFits(s) /\ s.calls \in Seq(Range(s.calls)) /\ s.calls # <<>> /\ \A t \in Range(s.calls) : StepFits(t)

VARIABLES
    script,    \* the app: its screens, what a swipe shows, the configuration
    shown,     \* the screen that is shown
    alert,     \* whether an alert of the system covers it
    ctx,       \* the context the driver is in
    calls,     \* the calls still to make
    call,      \* the call being made
    changes,   \* how much may still happen by itself
    errors     \* how many accesses may still fail

app  == <<script, shown, alert, ctx>>
vars == <<app, calls, call, changes, errors>>

Screen == script.screens[shown]
opt    == script.opt
NativeApp == [kind |-> "native", name |-> "NATIVE_APP"]

\* What the hierarchy of the driver's context shows; nothing if it was not read.
Reading == [nodes |-> IF ctx = NativeApp THEN Screen.nodes ELSE Screen.web, signs |-> Screen.signs]
Nothing == [nodes |-> <<>>, signs |-> {}]
NoMark  == <<"", Nothing>>

Device == {"system"}      \* operations without grounding
Host   == {"read"}        \* extract_text called on the adapter

NewCall(s) ==
    [step |-> s, pc |-> IF s.op \in Device THEN "system" ELSE "plan", purpose |-> "first", polls |-> 0,
     taken |-> Nothing, nodes |-> <<>>, state |-> Nothing, mark |-> NoMark, prev |-> NoMark,
     canvas |-> FALSE, seen |-> <<>>, tries |-> 0, scrolls |-> 0, ref |-> NoRef, by |-> "none",
     el |-> <<>>, looks |-> 0, attempts |-> 0, did |-> <<>>, ctx0 |-> ctx, plan |-> NoIndex, into |-> ctx,
     refreshes |-> 0, switch |-> "none", result |-> "none", value |-> {}]

Init ==
    \E s \in Scripts :
       /\ script = s /\ shown = s.start /\ alert = s.alert /\ ctx = NativeApp
       /\ calls = Tail(s.calls) /\ call = NewCall(Head(s.calls))
       /\ changes = MaxChanges /\ errors = MaxErrors

Fails == errors > 0 /\ errors' = errors - 1
Works == UNCHANGED errors
Idle  == UNCHANGED <<app, calls, changes>>     \* nothing but the call moves
Ended(c, result, value) == [c EXCEPT !.pc = "done", !.result = result, !.value = value]
-----------------------------------------------------------------------------
\* The host plans a switch to a webview from what it collects ahead of the call.
Plan ==
    /\ call.pc = "plan"
    /\ LET operation == IF call.step.op = "verify" THEN "verify" ELSE "extract"
           index == IF call.step.op \in {"verify", "read"}
                    THEN SwitchPlan(opt.config, operation, opt.platform, Screen.contexts, ctx.kind, Reading.signs)
                    ELSE NoIndex
       IN  call' = [call EXCEPT !.plan = index,
                        !.pc = IF call.step.op \in Host THEN "enter" ELSE IF opt.settle THEN "settle" ELSE "alert"]
    /\ Works /\ Idle

\* wait_until_stable: another reading, until two agree and nothing spins, the app
\* is wedged, a reading fails or the time is over.
Settle ==
    /\ call.pc = "settle"
    /\ \/ /\ call.polls < Polls
          /\ call' = [call EXCEPT !.polls = @ + 1, !.taken = Reading]
          /\ Works
       \/ /\ \/ Fails
             \/ /\ \/ call.polls = Polls
                   \/ Blocker(Reading.signs) \in {"crash", "anr"}
                   \/ Reading = call.taken /\ Blocker(Reading.signs) # "progress"
                /\ Works
          /\ call' = [call EXCEPT !.pc = "alert"]
    /\ Idle

\* handle_system_alert: accepted or dismissed, the alert goes; a failure of the
\* driver is swallowed.
AnswerAlert == (Works /\ alert' = FALSE) \/ (Fails /\ alert /\ UNCHANGED alert)

\* _maybe_handle_system_alert
HandleAlert ==
    /\ call.pc = "alert"
    /\ IF opt.alerts # "ignore" THEN AnswerAlert ELSE Works /\ UNCHANGED alert
    /\ call' = [call EXCEPT !.pc = "collect"]
    /\ UNCHANGED <<script, shown, ctx, calls, changes>>

\* collect_context reads the hierarchy first, which may fail.
Collect ==
    /\ call.pc = "collect"
    /\ \/ Works /\ call' = [call EXCEPT !.taken = Reading, !.pc = "merge"]
       \/ Fails /\ call' = [call EXCEPT !.taken = Nothing, !.pc = "merge"]
    /\ Idle

\* Then the screenshot and the activity: what is merged into the intent.  An
\* earlier hierarchy stays where none was read, recognized texts where there are any.
Mark == <<Screen.activity, call.taken>>
SeenNow == IF opt.vision /\ call.seen = <<>> THEN Screen.seen ELSE call.seen
Merged ==
    [call EXCEPT !.nodes = IF call.taken.nodes = <<>> THEN @ ELSE call.taken.nodes,
                 !.state = call.taken, !.mark = Mark,
                 !.seen = SeenNow]

ToolkitOf(c) == Toolkit(c.state.signs, opt.platform)

\* What recognition shows of a screen that draws itself: the answer to a
\* verification, or the text to read.
Answered(c) ==
    LET pick == PickSeen(c.step.phrase, c.seen)
    IN  CASE c.step.op = "verify" /\ c.step.asserts = "text_visible" ->
                 Ended(c, IF TextSeen(c.step.expected, c.seen) THEN "passed" ELSE "failed", {})
          [] c.step.op = "extract" /\ pick # 0 -> Ended(c, "passed", c.seen[pick].text)
          [] OTHER -> [c EXCEPT !.pc = "ground"]

\* The first snapshot fails a wedged app and answers on a canvas.
Opened(c) ==
    CASE Blocker(c.state.signs) \in {"crash", "anr"} -> Ended(c, "failed", {})
      [] Blocker(c.state.signs) \notin {"crash", "anr"} /\ c.canvas -> Answered(c)
      [] OTHER -> [c EXCEPT !.pc = "ground"]

Merge ==
    /\ call.pc = "merge"
    /\ \E c \in {Merged} :
          call' = CASE call.purpose = "first"  ->
                         Opened([c EXCEPT !.canvas = RoutesToVision(c.nodes, ToolkitOf(c))])
                    [] call.purpose = "retry"  -> [c EXCEPT !.pc = "ground"]
                    [] OTHER ->     \* after a swipe
                         IF Mark = call.prev THEN [call EXCEPT !.pc = "fallback"]
                         ELSE [c EXCEPT !.pc = "ground", !.tries = 0, !.prev = Mark]
    /\ Works /\ Idle
-----------------------------------------------------------------------------
Action(s) == IF s.op = "act" THEN s.action ELSE s.op

\* What the engine may use of the screenshot: it is of high cost.
Pictures(c) == IF opt.high THEN c.seen ELSE <<>>
Found(c) ==
    IF c.step.selector # NoRef THEN Outcome("resolved", c.step.selector)
    ELSE Grounded(IF opt.compact THEN Compacted(c.nodes) ELSE c.nodes,
                  Pictures(c), c.step.phrase, Action(c.step), ToolkitOf(c))

\* A target to act on, and what is done with one that grounding named.
Target(ref, by) == [call EXCEPT !.ref = ref, !.by = by, !.attempts = 1, !.pc = "find"]

\* A point instead of an element: for a tap, where that is opted in or the
\* screen draws itself.
MayPoint(sight) ==
    /\ call.step.op = "act" /\ call.step.action \in {"tap", "click"}
    /\ opt.points \/ call.canvas
    /\ sight.box

\* _maybe_hydrate_visual_target: what was seen becomes an element or a point; else
\* the step fails, whatever selector the tester gave.
OnPictured(ref) ==
    LET el == IF opt.platform = "ios" THEN NoRef ELSE Hydrated(call.nodes, ref.words)
    IN  CASE el # NoRef /\ call.step.op = "act"     -> Target(el, "vision")
          [] el # NoRef /\ call.step.op = "extract" -> [call EXCEPT !.ref = el, !.by = "vision", !.pc = "read"]
          [] el = NoRef /\ MayPoint(call.seen[ref.attr]) ->
                 [call EXCEPT !.ref = RefTo("canvas", "text", ref.words), !.by = "vision", !.pc = "point"]
          [] OTHER -> Ended(call, "failed", {})

\* A verification does without the element itself.
OnGrounded(ref) ==
    CASE call.step.op = "verify"  -> [call EXCEPT !.ref = ref, !.by = "grounding", !.pc = "enter"]
      [] call.step.op # "verify" /\ ref.kind = "vision" -> OnPictured(ref)
      [] call.step.op = "act" /\ ref.kind # "vision" ->
             Target(ref, IF call.step.selector = NoRef THEN "grounding" ELSE "selector")
      [] OTHER -> [call EXCEPT !.ref = ref, !.by = "grounding", !.pc = "read"]

\* _maybe_scroll_to_target: opted in, nothing found and something scrolls.
MayScroll(kind) ==
    /\ opt.maxScrolls > 0 /\ kind = "not_found"
    /\ call.step.action \in {"tap", "click", "type", "select"}
    /\ ScrollPlan(call.state.nodes) = "candidate"
SwipesAgain == ScrollPlan(call.state.nodes) # "unsupported" /\ call.scrolls < opt.maxScrolls

\* act() where grounding failed: the field of a label or the row of a text, what
\* recognition shows there, a swipe, the selector of the tester.
OnMissed(kind) ==
    LET field == Associated(call.nodes, call.step.phrase, call.step.action)
        pick  == PickSeen(call.step.phrase, call.seen)
    IN  CASE call.step.op # "act" -> Ended(call, "failed", {})
          [] call.step.op = "act" /\ call.scrolls > 0 ->
                 [call EXCEPT !.pc = IF SwipesAgain THEN "swipe" ELSE "fallback"]
          [] OTHER ->
                 IF field # NoRef THEN Target(field, "field")
                 ELSE IF call.canvas /\ call.step.action \in {"tap", "click"} /\ pick # 0
                   THEN [call EXCEPT !.ref = RefTo("canvas", "text", call.seen[pick].text), !.by = "canvas", !.pc = "point"]
                 ELSE [call EXCEPT !.pc = IF MayScroll(kind) THEN "swipe" ELSE "fallback", !.prev = call.mark]

\* _ground_with_wait: what is not there or not good enough may still come.
Ground ==
    /\ call.pc = "ground"
    /\ \E found \in {Found(call)} :
          call' = IF found.kind = "resolved" THEN OnGrounded(found.ref)
                  ELSE IF found.kind # "ambiguous" /\ call.tries < opt.retries
                    THEN [call EXCEPT !.tries = @ + 1, !.purpose = "retry", !.pc = "collect"]
                  ELSE OnMissed(found.kind)
    /\ Works /\ Idle

\* scroll_screen, and the screen is read again.  A mistake: the swipes are not counted.
SwipedUncounted(c) == [c EXCEPT !.scrolls = 1, !.purpose = "scroll", !.pc = "collect"]
Swiped(c) == [c EXCEPT !.scrolls = @ + 1, !.purpose = "scroll", !.pc = "collect"]
Swipe ==
    /\ call.pc = "swipe"
    /\ \/ /\ Works /\ shown' = script.below[shown]
          /\ call' = Swiped(call)
       \/ /\ Fails /\ UNCHANGED shown
          /\ call' = [call EXCEPT !.pc = "fallback"]
    /\ UNCHANGED <<script, alert, ctx, calls, changes>>

\* _fallback_selector_target
FallBack ==
    /\ call.pc = "fallback"
    /\ call' = IF call.step.fallback = NoRef THEN Ended(call, "failed", {})
               ELSE Target(call.step.fallback, "fallback")
    /\ Works /\ Idle
-----------------------------------------------------------------------------
\* AppiumAdapter.execute: an attempt that failed is made again while the error
\* passes and the budget lasts; else the selector of the tester is tried once.
\* A mistake: every error passes.
FailedWhatever(c, passing) ==
    IF c.attempts <= opt.execRetries THEN [c EXCEPT !.attempts = @ + 1, !.pc = "find"]
    ELSE IF c.by # "fallback" /\ c.step.fallback # NoRef THEN [c EXCEPT !.pc = "fallback"]
    ELSE Ended(c, "failed", {})
Failed(c, passing) ==
    IF passing /\ c.attempts <= opt.execRetries THEN [c EXCEPT !.attempts = @ + 1, !.pc = "find"]
    ELSE IF c.by # "fallback" /\ c.step.fallback # NoRef THEN [c EXCEPT !.pc = "fallback"]
    ELSE Ended(c, "failed", {})

\* Typing empties the field first.
Begins == IF call.step.op = "act" /\ call.step.action = "type" THEN "clear" ELSE "touch"

\* What matches a ref now, in document order.
Matches == Matching(Reading.nodes, call.ref)

Find ==
    /\ call.pc = "find"
    /\ \/ /\ Works
          /\ call' = IF Matches = {} THEN Failed(call, TRUE)
                     ELSE [call EXCEPT !.el = <<shown, Min(Matches)>>, !.looks = 0,
                                       !.pc = IF opt.wait \in {"none", "present"} THEN Begins ELSE "wait"]
       \/ Fails /\ \E passing \in BOOLEAN : call' = Failed(call, passing)
    /\ Idle

\* _wait_for_mode: until the element is displayed.  It is found again for every
\* further look; what the gesture is made on stays the one found first.
Stale == call.el[1] # shown
Displayed(n) == IF n.off THEN BOOLEAN ELSE {TRUE}     \* disabled, or hidden
Looked(displayed) ==
    CASE displayed -> [call EXCEPT !.pc = Begins]
      [] ~displayed /\ call.looks < Polls -> [call EXCEPT !.looks = @ + 1]
      [] OTHER -> Failed(call, FALSE)
Wait ==
    /\ call.pc = "wait"
    /\ \/ /\ Works
          /\ CASE opt.wait # "visible" -> call' = Failed(call, FALSE)
               [] opt.wait = "visible" /\ (IF call.looks = 0 THEN Stale ELSE Matches = {}) -> call' = Failed(call, TRUE)
               [] OTHER -> \E displayed \in Displayed(Reading.nodes[IF call.looks = 0 THEN call.el[2] ELSE Min(Matches)]) :
                               call' = Looked(displayed)
       \/ Fails /\ \E passing \in BOOLEAN : call' = Failed(call, passing)
    /\ Idle

\* What was done and how the driver reported it.
Done(report) == [call EXCEPT !.did = Append(@, [ref |-> call.ref, by |-> call.by, el |-> call.el, report |-> report])]

\* _execute_action: a screen that went takes its elements along; an alert takes
\* the gesture; one that took effect may be reported as failed.  Typing empties
\* the field, which may fail with or without effect, and then sends the keys.
Clear ==
    /\ call.pc = "clear"
    /\ \/ /\ Works
          /\ call' = CASE Stale -> Failed(call, TRUE)
                       [] ~Stale /\ alert -> Failed(call, FALSE)
                       [] OTHER -> [call EXCEPT !.pc = "touch"]
       \/ Fails /\ \E passing \in BOOLEAN : call' = Failed(call, passing)
    /\ Idle

Touch ==
    /\ call.pc = "touch"
    /\ IF Stale THEN Works /\ call' = Failed(call, TRUE)
       ELSE IF alert THEN Works /\ call' = Failed(call, FALSE)
       ELSE \/ Works /\ call' = Ended(Done("ok"), "passed", {})
            \/ Fails /\ \E report \in {"passing", "other"} :
                           call' = Failed(Done(report), report = "passing")
    /\ Idle

\* _execute_coordinate_action: the point, whatever is there now; never again.
Point ==
    /\ call.pc = "point"
    /\ \/ Works /\ call' = Ended(Done("ok"), "passed", {})
       \/ Fails /\ \E c \in {call, Done("other")} :
                      call' = IF call.step.fallback = NoRef THEN Ended(c, "failed", {}) ELSE [c EXCEPT !.pc = "fallback"]
    /\ Idle

\* _act_system: one access to the device, which may leave the screen.
System ==
    /\ call.pc = "system"
    /\ \/ Works /\ call' = Ended(call, "passed", {}) /\ shown' \in DOMAIN script.screens
       \/ Fails /\ call' = Ended(call, "failed", {}) /\ UNCHANGED shown
    /\ UNCHANGED <<script, alert, ctx, calls, changes>>
-----------------------------------------------------------------------------
\* _run_assertion: what the screen shows now.
Holds(s) ==
    LET hits == Matching(Reading.nodes, s.target)
    IN  CASE s.asserts = "text_visible"  ->
                 \E n \in Range(Reading.nodes) : \E a \in Range(Attrs(n)) : s.expected \subseteq a.words
          [] s.asserts = "element_state" -> hits # {} /\ ~Reading.nodes[Min(hits)].off
          [] s.asserts = "activity"      -> Screen.activity = s.activity

\* _extract_text_base: the first text of the first match, which raises if it has none.
TextOf(n) == CASE n.text # {} -> n.text [] n.text = {} /\ n.desc # {} -> n.desc [] OTHER -> n.value
TextNow(ref) ==
    LET hits == Matching(Reading.nodes, ref)
    IN  IF hits = {} THEN {} ELSE TextOf(Reading.nodes[Min(hits)])

\* What a verification or a read yields: whether it went through, and its value.
Yield(ok, value) == [ok |-> ok, value |-> value]
Yields ==
    IF call.step.op = "verify" THEN Yield(Holds(call.step), IF Holds(call.step) THEN call.step.expected ELSE {})
    ELSE Yield(TextNow(call.step.target) # {}, TextNow(call.step.target))

\* A failure is an answer of a verification, and raises from a read.
Concluded(c, y) == Ended(c, IF y.ok THEN "passed" ELSE "failed", y.value)

\* extract() reads the grounded element, never in a webview: its ref is a string.
Read ==
    /\ call.pc = "read"
    /\ \/ Works /\ call' = Concluded(call, Yield(TextNow(call.ref) # {}, TextNow(call.ref)))
       \/ Fails /\ call' = Ended(call, "failed", {})
    /\ Idle

\* _build_real_switch_execution_args: the planned index in a new inventory.
Current == IF call.plan + 1 \in DOMAIN Named(Screen.contexts) THEN Named(Screen.contexts)[call.plan + 1] ELSE NativeApp
Enter ==
    /\ call.pc = "enter"
    /\ \/ /\ Works
          /\ call' = IF call.plan = NoIndex \/ (Current = NativeApp /\ ~opt.readiness)
                     THEN [call EXCEPT !.pc = "plain"]
                     ELSE [call EXCEPT !.into = Current, !.pc = "ready"]
       \/ Fails /\ call' = [call EXCEPT !.into = NativeApp, !.pc = IF opt.readiness /\ call.plan # NoIndex THEN "ready" ELSE "plain"]
    /\ Idle

\* Without a switch.
Plain ==
    /\ call.pc = "plain"
    /\ \/ Works /\ call' = Concluded(call, Yields)
       \/ Fails /\ call' = Ended(call, "failed", {})
    /\ Idle

\* A switch that is refused or has failed: a failed verification, an empty read.
Refused(c) == Ended(c, IF c.step.op = "verify" THEN "failed" ELSE "passed", {})

\* build_webview_readiness_plan, as the adapter calls it: without an inventory; a
\* timeout of zero, the default, fails it whatever is there.
ReadinessPlan ==
    CASE ~opt.readiness -> "not_checked"
      [] opt.readiness /\ ~opt.patient -> "failed_closed"
      [] OTHER -> "waiting"

\* _evaluate_webview_readiness_before_switch: at most three more inventories.  If
\* it fails open, the switch without a context is refused in its turn.
Readiness == IF opt.readiness /\ call.into = NativeApp /\ opt.failClosed THEN "failed_closed" ELSE ReadinessPlan
Ready ==
    /\ call.pc = "ready"
    /\ \/ /\ call.into = NativeApp /\ opt.patient /\ call.refreshes < opt.refreshes
          /\ \/ Works /\ call' = [call EXCEPT !.refreshes = @ + 1, !.into = Current]
             \/ Fails /\ call' = [call EXCEPT !.refreshes = @ + 1]
       \/ /\ Works
          /\ call' = IF Readiness = "failed_closed" THEN Refused(call) ELSE [call EXCEPT !.pc = "switch"]
    /\ Idle

\* execute_real_driver_switch_with_ref: a switch that raised is not restored,
\* also where it took effect; without a context nothing is switched.
Switch ==
    /\ call.pc = "switch"
    /\ \/ /\ Works
          /\ IF call.into \in Range(Named(Screen.contexts))
             THEN ctx' = call.into /\ call' = [call EXCEPT !.pc = "operate"]
             ELSE UNCHANGED ctx /\ call' = Refused(call)
       \/ /\ call.into # NativeApp
          /\ Fails /\ ctx' \in {ctx, call.into}
          /\ call' = Refused(call)
    /\ UNCHANGED <<script, shown, alert, calls, changes>>

\* The operation; an exception of it fails the switch.
Operate ==
    /\ call.pc = "operate"
    /\ \/ /\ Works
          /\ \E y \in {Yields} :
                call' = [call EXCEPT !.value = y.value, !.pc = "restore",
                                     !.switch = IF y.ok THEN "passed" ELSE IF call.step.op = "verify" THEN "no" ELSE "failed"]
       \/ /\ Fails
          /\ call' = [call EXCEPT !.pc = "restore", !.switch = IF call.step.op = "verify" THEN "no" ELSE "failed"]
    /\ Idle

\* _apply_post_switch_readiness_wait: it waits for the page of the webview and,
\* whatever has come, fails if it fails closed.
TooLate == opt.waitsAfter /\ opt.failClosed

\* Back to the context it came from, and the wait after the switch.
\* A mistake: that the way back failed goes unnoticed.
ConcludedUnrestored(restored) ==
    IF call.switch = "failed" \/ TooLate THEN Refused(call)
    ELSE Ended(call, IF call.switch = "passed" THEN "passed" ELSE "failed", call.value)
ConcludedAfter(restored) ==
    IF call.switch = "failed" \/ ~restored \/ TooLate THEN Refused(call)
    ELSE Ended(call, IF call.switch = "passed" THEN "passed" ELSE "failed", call.value)
Restore ==
    /\ call.pc = "restore"
    /\ \/ Works /\ ctx' = call.ctx0 /\ call' = ConcludedAfter(TRUE)
       \/ Fails /\ UNCHANGED ctx /\ call' = ConcludedAfter(FALSE)
    /\ UNCHANGED <<script, shown, alert, calls, changes>>
-----------------------------------------------------------------------------
NextCall ==
    /\ call.pc = "done" /\ calls # <<>>
    /\ call' = NewCall(Head(calls)) /\ calls' = Tail(calls)
    /\ Works /\ UNCHANGED <<app, changes>>

Script ==
    \/ Plan \/ Settle \/ HandleAlert \/ Collect \/ Merge \/ Ground \/ Swipe \/ FallBack
    \/ Find \/ Wait \/ Clear \/ Touch \/ Point \/ System
    \/ Read \/ Enter \/ Plain \/ Ready \/ Switch \/ Operate \/ Restore \/ NextCall

\* The app moves on by itself, or an alert comes up, while the call thinks.
Change ==
    /\ call.pc # "done" /\ changes > 0 /\ changes' = changes - 1
    /\ \/ shown' \in DOMAIN script.screens \ {shown} /\ UNCHANGED alert
       \/ alert' = TRUE /\ ~alert /\ UNCHANGED shown
    /\ UNCHANGED <<script, ctx, calls, call, errors>>

\* The script is through.
Over == call.pc = "done" /\ calls = <<>>
Finished == Over /\ UNCHANGED vars

Next == Script \/ Change \/ Finished

\* The script goes on until it is through: weak fairness of Script, which is
\* enabled exactly till then, or Next would deadlock.
Spec == Init /\ [][Next]_vars /\ ([]<>Over \/ []<><<call' # call>>_vars)
-----------------------------------------------------------------------------
\* A call that passes with something verified or read leaves the driver in the
\* context it was in (webview_real_driver_switch.py: restore in a finally).
ContextRestored ==
    call.pc = "done" /\ call.result = "passed" /\ call.value # {} => ctx = call.ctx0

\* A gesture is done again only on a report that passes, at most once on one ref;
\* nothing follows one that was reported done, and a passed step has such a one last.
\* (The tester's selector may repeat one that took effect and was reported failed.)
RepeatsOnlyTransient ==
    /\ \A i, j \in DOMAIN call.did :
          i < j /\ call.did[i].ref = call.did[j].ref /\ call.did[i].by = call.did[j].by
             => j = i + 1 /\ call.did[i].report = "passing"
    /\ \A i, j \in DOMAIN call.did : i < j => call.did[i].report # "ok"
    /\ call.pc = "done" /\ call.result = "passed" /\ call.did # <<>> => Last(call.did).report = "ok"

\* Text goes into fields only, unless a selector says otherwise: neither a label
\* that reads like the phrase nor a button is typed into.
TypesIntoFields ==
    \A d \in Range(call.did) :
        call.step.action = "type" /\ d.by \in {"grounding", "field"} => d.ref.kind = "field"

\* Where an enabled control reads exactly like the phrase, a tap that grounding
\* aims takes one that does, and not one that reads almost like it.  Left out is
\* one with a disabled twin: both have one ref, the first bears its score
\* (GroundingEngine.ground: deduped), and a lookalike may pass it.
ReadsExactly(kind, off) == \E n \in Range(call.nodes) : n.kind = kind /\ n.off = off /\ n.text = call.step.phrase
ExactControlWins ==
    call.by = "grounding" /\ call.step.action \in {"tap", "click"}
        /\ (\E kind \in {"button", "label"} : ReadsExactly(kind, FALSE) /\ ~ReadsExactly(kind, TRUE))
        => call.ref.words = call.step.phrase

\* What a gesture is aimed at fits the step, in kind and in name.
AimsFit == TypesIntoFields /\ ExactControlWins

\* Compaction changes nothing that grounding finds, where no node that takes no
\* part in the layout has an id alone (hierarchy_compaction.py).
CompactionKeepsOutcome ==
    call.pc = "ground" /\ (\A n \in Range(call.nodes) : n.gone => n.rid = {} \/ Speaks(n)) =>
        Grounded(Compacted(call.nodes), Pictures(call), call.step.phrase, Action(call.step), ToolkitOf(call))
            = Grounded(call.nodes, Pictures(call), call.step.phrase, Action(call.step), ToolkitOf(call))

\* Every call ends: polling, retries, swipes and refreshes are bounded.
MobileStepsEnd == <>Over
-----------------------------------------------------------------------------
\* A tap passes only where it is on what the step names, or on what contains it
\* (field_association.py: redirect to the nearest clickable ancestor).
TapLandsOnNamed ==
    call.by = "field" /\ call.step.action = "tap" =>
        \A d \in Range(call.did) :
            LET nodes == script.screens[d.el[1]].nodes IN
            \E i \in DOMAIN nodes : d.el[2] \in Line(nodes, i) /\ nodes[i].text = call.step.phrase
=============================================================================
