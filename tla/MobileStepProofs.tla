--------------------------- MODULE MobileStepProofs ---------------------------
(***************************************************************************)
(* For every app, configuration and script:                                *)
(*  - a call that passes with a value leaves the driver in the context it   *)
(*    came from.  The driver leaves a call's context only between the       *)
(*    switch and the way back, and on the ways out on which one of the two  *)
(*    failed; those end without a value;                                    *)
(*  - a gesture is made again only on an error that passes;                 *)
(*  - compaction of the hierarchy changes nothing that grounding finds;     *)
(*  - what a gesture is aimed at fits the step: text goes into fields, and  *)
(*    an exact control is not passed by for one that is almost it.          *)
(***************************************************************************)
EXTENDS MobileStep, FiniteSetTheorems, SequenceTheorems, WellFoundedInduction, TLAPS

\* A call has the fields that matter here.
Shaped(c) == {"pc", "result", "value", "ctx0", "switch", "step"} \subseteq DOMAIN c

\* A call d that goes on from the call c is to return to the same context.
Follows(c, d) == Shaped(d) /\ d.ctx0 = c.ctx0

\* Away from its context only between the switch and the end.
AwayOnlyInside == call.pc \notin {"operate", "restore", "done"} => ctx = call.ctx0

CInv == Shaped(call) /\ AwayOnlyInside /\ ContextRestored

\* The ways a call goes on.
LEMMA EndedFollows ==
    ASSUME NEW c, Shaped(c), NEW result, NEW value
    PROVE  /\ Follows(c, Ended(c, result, value))
           /\ Ended(c, result, value).value = value
  BY DEF Shaped, Follows, Ended

LEMMA RefusedFollows ==
    ASSUME NEW c, Shaped(c)
    PROVE  Follows(c, Refused(c)) /\ Refused(c).value = {}
  BY EndedFollows DEF Refused

LEMMA ConcludedFollows ==
    ASSUME NEW c, Shaped(c), NEW y
    PROVE  Follows(c, Concluded(c, y))
  BY EndedFollows DEF Concluded

LEMMA FailedFollows ==
    ASSUME NEW c, Shaped(c), NEW passing
    PROVE  Follows(c, Failed(c, passing))
<1>1. Follows(c, Ended(c, "failed", {}))
  BY EndedFollows
<1>2. Follows(c, [c EXCEPT !.attempts = @ + 1, !.pc = "find"]) /\ Follows(c, [c EXCEPT !.pc = "fallback"])
  BY DEF Shaped, Follows
<1>3. QED
  BY <1>1, <1>2 DEF Failed

LEMMA TargetFollows ==
    ASSUME Shaped(call), NEW ref, NEW by
    PROVE  Follows(call, Target(ref, by))
  BY DEF Shaped, Follows, Target

LEMMA DoneFollows ==
    ASSUME Shaped(call), NEW report
    PROVE  Follows(call, Done(report))
  BY DEF Shaped, Follows, Done

LEMMA FollowsTransitive ==
    ASSUME NEW c, NEW d, NEW e, Follows(c, d), Follows(d, e)
    PROVE  Follows(c, e)
  BY DEF Follows

\* A call that is in its context and goes on without touching it stays so.
LEMMA StaysInContext ==
    ASSUME CInv, call.pc \notin {"operate", "restore", "done"}, Follows(call, call'), ctx' = ctx
    PROVE  CInv'
  BY DEF CInv, Shaped, AwayOnlyInside, ContextRestored, Follows
-----------------------------------------------------------------------------
LEMMA ContextInitially == Init => CInv
<1>1. SUFFICES ASSUME NEW s \in Scripts, call = NewCall(Head(s.calls)), ctx = NativeApp
               PROVE  CInv
  BY DEF Init
<1>2. /\ {"pc", "result", "value", "ctx0", "switch", "step"} \subseteq DOMAIN NewCall(Head(s.calls))
      /\ NewCall(Head(s.calls)).ctx0 = ctx
      /\ NewCall(Head(s.calls)).pc # "done"
  BY DEF NewCall
<1>3. QED
  BY <1>1, <1>2 DEF CInv, Shaped, AwayOnlyInside, ContextRestored

\* Up to the grounding.
LEMMA ReadingKeeps ==
    ASSUME CInv, Plan \/ Settle \/ HandleAlert \/ Collect
    PROVE  CInv'
<1>1. Shaped(call)
  BY DEF CInv
<1>2. call.pc \in {"plan", "settle", "alert", "collect"} /\ ctx' = ctx
  BY DEF Plan, Settle, HandleAlert, Collect, Idle, app
<1>3. Follows(call, call')
  <2>1. CASE Plan
    BY <1>1, <2>1 DEF Plan, Shaped, Follows
  <2>2. CASE Settle
    BY <1>1, <2>2 DEF Settle, Shaped, Follows
  <2>3. CASE HandleAlert
    BY <1>1, <2>3 DEF HandleAlert, Shaped, Follows
  <2>4. CASE Collect
    BY <1>1, <2>4 DEF Collect, Shaped, Follows
  <2>5. QED
    BY <2>1, <2>2, <2>3, <2>4
<1>4. QED
  BY <1>2, <1>3, StaysInContext

\* What the first snapshot makes of a call.
LEMMA OpenedFollows ==
    ASSUME NEW c, Shaped(c)
    PROVE  Follows(c, Opened(c))
<1>1. \A result, value : Follows(c, Ended(c, result, value))
  BY EndedFollows
<1>2. Follows(c, [c EXCEPT !.pc = "ground"])
  BY DEF Shaped, Follows
<1>3. Follows(c, Answered(c))
  BY <1>1, <1>2 DEF Answered
<1>4. QED
  BY <1>1, <1>2, <1>3 DEF Opened

LEMMA MergeKeeps ==
    ASSUME CInv, Merge
    PROVE  CInv'
<1>1. Shaped(call)
  BY DEF CInv
<1>2. call.pc = "merge" /\ ctx' = ctx
  BY DEF Merge, Idle, app
<1>3. Follows(call, Merged)
  BY <1>1 DEF Shaped, Follows, Merged
<1>4. DEFINE canvased == [Merged EXCEPT !.canvas = RoutesToVision(Merged.nodes, ToolkitOf(Merged))]
<1>5. Follows(call, canvased)
  BY <1>3 DEF Shaped, Follows
<1>6. Follows(call, Opened(canvased))
  <2>1. Shaped(canvased)
    BY <1>5 DEF Follows
  <2>2. Follows(canvased, Opened(canvased))
    BY <2>1, OpenedFollows
  <2>3. QED
    BY <1>5, <2>2, FollowsTransitive
<1>7. Follows(call, [Merged EXCEPT !.pc = "ground"])
  BY <1>3 DEF Shaped, Follows
<1>8. Follows(call, [call EXCEPT !.pc = "fallback"])
  BY <1>1 DEF Shaped, Follows
<1>9. Follows(call, [Merged EXCEPT !.pc = "ground", !.tries = 0, !.prev = Mark])
  BY <1>3 DEF Shaped, Follows
<1>10. \/ call' = Opened(canvased)
       \/ call' = [Merged EXCEPT !.pc = "ground"]
       \/ call' = [call EXCEPT !.pc = "fallback"]
       \/ call' = [Merged EXCEPT !.pc = "ground", !.tries = 0, !.prev = Mark]
  BY DEF Merge
<1>11. QED
  BY <1>2, <1>6, <1>7, <1>8, <1>9, <1>10, StaysInContext

\* Grounding, what follows it, and the gestures.
LEMMA GroundKeeps ==
    ASSUME CInv, Ground
    PROVE  CInv'
<1>1. Shaped(call)
  BY DEF CInv
<1>2. call.pc = "ground" /\ ctx' = ctx
  BY DEF Ground, Idle, app
<1>3. ASSUME NEW ref PROVE Follows(call, OnGrounded(ref))
  <2>1. \A by : Follows(call, Target(ref, by))
    BY <1>1, TargetFollows
  <2>2. Follows(call, [call EXCEPT !.ref = ref, !.by = "grounding", !.pc = "enter"])
    BY <1>1 DEF Shaped, Follows
  <2>3. ASSUME NEW el, NEW by, NEW pc
        PROVE  Follows(call, [call EXCEPT !.ref = el, !.by = by, !.pc = pc])
    BY <1>1 DEF Shaped, Follows
  <2>4. \A el, by : Follows(call, Target(el, by))
    BY <1>1, TargetFollows
  <2>5. Follows(call, Ended(call, "failed", {}))
    BY <1>1, EndedFollows
  <2>6. Follows(call, OnPictured(ref))
    BY <2>3, <2>4, <2>5 DEF OnPictured
  <2>7. QED
    BY <2>1, <2>2, <2>3, <2>6 DEF OnGrounded
<1>4. ASSUME NEW kind PROVE Follows(call, OnMissed(kind))
  <2>1. \A ref, by : Follows(call, Target(ref, by))
    BY <1>1, TargetFollows
  <2>2. Follows(call, Ended(call, "failed", {}))
    BY <1>1, EndedFollows
  <2>3. ASSUME NEW pc, NEW ref, NEW by, NEW prev
        PROVE  /\ Follows(call, [call EXCEPT !.pc = pc])
               /\ Follows(call, [call EXCEPT !.ref = ref, !.by = by, !.pc = pc])
               /\ Follows(call, [call EXCEPT !.pc = pc, !.prev = prev])
    BY <1>1 DEF Shaped, Follows
  <2>4. QED
    BY <2>1, <2>2, <2>3 DEF OnMissed
<1>5. Follows(call, [call EXCEPT !.tries = @ + 1, !.purpose = "retry", !.pc = "collect"])
  BY <1>1 DEF Shaped, Follows
<1>6. Follows(call, call')
  BY <1>3, <1>4, <1>5 DEF Ground
<1>7. QED
  BY <1>2, <1>6, StaysInContext

\* The ways a search for the element goes on.
Towards(el, pc) == [call EXCEPT !.el = el, !.looks = 0, !.pc = pc]
LEMMA FindWays ==
    ASSUME Find
    PROVE  \/ \E passing \in BOOLEAN : call' = Failed(call, passing)
           \/ \E pc \in {"wait", "clear", "touch"} : call' = Towards(<<shown, Min(Matches)>>, pc)
<1> DEFINE pc == IF opt.wait \in {"none", "present"} THEN Begins ELSE "wait"
<1>1. pc \in {"wait", "clear", "touch"}
  BY DEF Begins
<1>2. CASE Matches = {}
  BY <1>2 DEF Find
<1>3. CASE Matches # {}
  <2>1. \/ call' = Towards(<<shown, Min(Matches)>>, pc)
        \/ \E passing \in BOOLEAN : call' = Failed(call, passing)
    BY <1>3 DEF Find, Towards
  <2> HIDE DEF pc
  <2>2. QED
    BY <1>1, <2>1
<1>4. QED
  BY <1>2, <1>3

LEMMA GestureKeeps ==
    ASSUME CInv, Swipe \/ FallBack \/ Find \/ Wait \/ Clear \/ Touch \/ Point \/ System
    PROVE  CInv'
<1>1. Shaped(call)
  BY DEF CInv
<1>2. call.pc \in {"swipe", "fallback", "find", "wait", "clear", "touch", "point", "system"} /\ ctx' = ctx
  BY DEF Swipe, FallBack, Find, Wait, Clear, Touch, Point, System, Idle, app
<1>3. ASSUME NEW c, Shaped(c), NEW result PROVE Follows(c, Ended(c, result, {}))
  BY <1>3, EndedFollows
<1>4. ASSUME NEW c, Shaped(c), NEW passing PROVE Follows(c, Failed(c, passing))
  BY <1>4, FailedFollows
<1>5. \A report : Shaped(Done(report)) /\ Follows(call, Done(report))
  BY <1>1, DoneFollows DEF Follows
<1>6. ASSUME NEW pc PROVE Follows(call, [call EXCEPT !.pc = pc])
  BY <1>1 DEF Shaped, Follows
<1>7. Follows(call, call')
  <2>1. CASE Swipe
    <3>1. Follows(call, Swiped(call))
      BY <1>1 DEF Shaped, Follows, Swiped
    <3>2. QED
      BY <1>6, <2>1, <3>1 DEF Swipe
  <2>2. CASE FallBack
    BY <1>1, <1>3, <2>2, TargetFollows DEF FallBack
  <2>3. CASE Find
    <3>1. \A el, pc : Follows(call, Towards(el, pc))
      BY <1>1 DEF Shaped, Follows, Towards
    <3>2. \A passing : Follows(call, Failed(call, passing))
      BY <1>1, <1>4
    <3>3. QED
      BY <2>3, <3>1, <3>2, FindWays
  <2>8. CASE Wait
    <3>1. Follows(call, [call EXCEPT !.looks = @ + 1])
      BY <1>1 DEF Shaped, Follows
    <3>2. \A displayed : Follows(call, Looked(displayed))
      BY <1>1, <1>4, <1>6, <3>1 DEF Looked
    <3>3. QED
      BY <1>1, <1>4, <2>8, <3>2 DEF Wait
  <2>9. CASE Clear
    BY <1>1, <1>4, <1>6, <2>9 DEF Clear
  <2>4. CASE Touch
    <3>1. \A passing : Follows(call, Failed(call, passing))
      BY <1>1, <1>4
    <3>2. ASSUME NEW report
          PROVE  Follows(call, Failed(Done(report), report = "passing"))
      <4>1. Shaped(Done(report)) /\ Follows(call, Done(report))
        BY <1>5
      <4>2. Follows(Done(report), Failed(Done(report), report = "passing"))
        BY <4>1, FailedFollows
      <4>3. QED
        BY <4>1, <4>2, FollowsTransitive
    <3>3. \A report, result : Follows(call, Ended(Done(report), result, {}))
      BY <1>3, <1>5, FollowsTransitive
    <3>4. QED
      BY <2>4, <3>1, <3>2, <3>3 DEF Touch
  <2>5. CASE Point
    <3>1. ASSUME NEW c \in {call, Done("other"), Done("ok")}, NEW result
          PROVE  Follows(call, Ended(c, result, {})) /\ Follows(call, [c EXCEPT !.pc = "fallback"])
      <4>1. Shaped(c) /\ Follows(call, c)
        BY <1>1, <1>5 DEF Follows
      <4>2. Follows(c, [c EXCEPT !.pc = "fallback"])
        BY <4>1 DEF Shaped, Follows
      <4>3. QED
        BY <1>3, <4>1, <4>2, FollowsTransitive
    <3>2. QED
      BY <2>5, <3>1 DEF Point
  <2>6. CASE System
    BY <1>1, <1>3, <2>6 DEF System
  <2>7. QED
    BY <2>1, <2>2, <2>3, <2>4, <2>5, <2>6, <2>8, <2>9
<1>8. QED
  BY <1>2, <1>7, StaysInContext

\* Verifications and reads without a switch, and what comes before one.
LEMMA PlainKeeps ==
    ASSUME CInv, Read \/ Enter \/ Plain \/ Ready
    PROVE  CInv'
<1>1. Shaped(call)
  BY DEF CInv
<1>2. call.pc \in {"read", "enter", "plain", "ready"} /\ ctx' = ctx
  BY DEF Read, Enter, Plain, Ready, Idle, app
<1>3. \A result, value : Follows(call, Ended(call, result, value))
  BY <1>1, EndedFollows
<1>4. \A y : Follows(call, Concluded(call, y))
  BY <1>1, ConcludedFollows
<1>5. Follows(call, Refused(call))
  BY <1>1, RefusedFollows
<1>6. /\ Follows(call, [call EXCEPT !.refreshes = @ + 1, !.into = Current])
      /\ Follows(call, [call EXCEPT !.refreshes = @ + 1])
      /\ Follows(call, [call EXCEPT !.pc = "switch"])
  BY <1>1 DEF Shaped, Follows
<1>7. Follows(call, call')
  <2>1. CASE Read
    BY <1>3, <1>4, <2>1 DEF Read
  <2>2. CASE Enter
    <3>1. \/ call' = [call EXCEPT !.pc = "plain"]
          \/ call' = [call EXCEPT !.into = Current, !.pc = "ready"]
          \/ \E pc : call' = [call EXCEPT !.into = NativeApp, !.pc = pc]
      BY <2>2 DEF Enter
    <3>2. QED
      BY <1>1, <3>1 DEF Shaped, Follows
  <2>3. CASE Plain
    BY <1>3, <1>4, <2>3 DEF Plain
  <2>4. CASE Ready
    BY <1>5, <1>6, <2>4 DEF Ready
  <2>5. QED
    BY <2>1, <2>2, <2>3, <2>4
<1>8. QED
  BY <1>2, <1>7, StaysInContext

\* The switch, the operation in the webview, and the way back: only here the
\* driver is away from the context, and a call that ends away has no value.
LEMMA SwitchKeeps ==
    ASSUME CInv, Switch
    PROVE  CInv'
<1>1. Shaped(call)
  BY DEF CInv
<1>2. Follows(call, Refused(call)) /\ Refused(call).value = {} /\ Refused(call).pc = "done"
  BY <1>1, RefusedFollows DEF Refused, Ended, Shaped
<1>3. CASE call' = Refused(call)
  BY <1>2, <1>3 DEF CInv, AwayOnlyInside, ContextRestored, Follows
<1>4. CASE call' = [call EXCEPT !.pc = "operate"]
  <2>1. Shaped(call') /\ call'.pc = "operate"
    BY <1>1, <1>4 DEF Shaped
  <2>2. QED
    BY <2>1 DEF CInv, AwayOnlyInside, ContextRestored
<1>5. QED
  BY <1>3, <1>4 DEF Switch

LEMMA OperateKeeps ==
    ASSUME CInv, Operate
    PROVE  CInv'
<1>1. Shaped(call)
  BY DEF CInv
<1>2. \/ \E value, switch : call' = [call EXCEPT !.value = value, !.pc = "restore", !.switch = switch]
      \/ \E switch : call' = [call EXCEPT !.pc = "restore", !.switch = switch]
  BY DEF Operate
<1>3. Shaped(call') /\ call'.pc = "restore"
  BY <1>1, <1>2 DEF Shaped
<1>4. QED
  BY <1>3 DEF CInv, AwayOnlyInside, ContextRestored

LEMMA RestoreKeeps ==
    ASSUME CInv, Restore
    PROVE  CInv'
<1>1. Shaped(call)
  BY DEF CInv
<1>2. /\ Follows(call, Refused(call)) /\ Refused(call).value = {} /\ Refused(call).pc = "done"
      /\ \A result : /\ Follows(call, Ended(call, result, call.value))
                     /\ Ended(call, result, call.value).pc = "done"
  BY <1>1, RefusedFollows, EndedFollows DEF Refused, Ended, Shaped
<1>3. CASE ctx' = call.ctx0 /\ call' = ConcludedAfter(TRUE)
  <2>1. Follows(call, call')
    BY <1>2, <1>3 DEF ConcludedAfter
  <2>2. QED
    BY <1>3, <2>1 DEF CInv, AwayOnlyInside, ContextRestored, Follows
<1>4. CASE call' = ConcludedAfter(FALSE)
  <2>1. call' = Refused(call)
    BY <1>4 DEF ConcludedAfter
  <2>2. QED
    BY <1>2, <2>1 DEF CInv, AwayOnlyInside, ContextRestored, Follows
<1>5. QED
  BY <1>3, <1>4 DEF Restore

LEMMA NextCallKeeps ==
    ASSUME CInv, NextCall
    PROVE  CInv'
<1>1. ctx' = ctx /\ call' = NewCall(Head(calls))
  BY DEF NextCall, app
<1>2. Shaped(NewCall(Head(calls))) /\ NewCall(Head(calls)).ctx0 = ctx
  BY DEF Shaped, NewCall
<1>3. NewCall(Head(calls)).pc # "done"
  BY DEF NewCall
<1>4. QED
  BY <1>1, <1>2, <1>3 DEF CInv, AwayOnlyInside, ContextRestored
-----------------------------------------------------------------------------
\* ContextRestored of MobileStep, for every app and script: a call that passes
\* with something verified or read leaves the driver in its context, whatever of
\* the switch, the operation and the way back fails
\* (webview_real_driver_switch.py: restore in a finally).
THEOREM ContextIsRestored == Spec => []ContextRestored
<1>1. CInv /\ [Next]_vars => CInv'
  <2>1. SUFFICES ASSUME CInv, [Next]_vars PROVE CInv'
    OBVIOUS
  <2>2. CASE Script
    BY <2>1, <2>2, ReadingKeeps, MergeKeeps, GroundKeeps, GestureKeeps, PlainKeeps,
       SwitchKeeps, OperateKeeps, RestoreKeeps, NextCallKeeps DEF Script
  <2>3. CASE Change
    BY <2>1, <2>3 DEF Change, CInv, AwayOnlyInside, ContextRestored, Shaped
  <2>4. CASE UNCHANGED vars
    BY <2>1, <2>4 DEF vars, app, CInv, AwayOnlyInside, ContextRestored, Shaped
  <2>5. QED
    BY <2>1, <2>2, <2>3, <2>4 DEF Next, Finished
<1>2. CInv => ContextRestored
  BY DEF CInv
<1>3. QED
  BY ContextInitially, <1>1, <1>2, PTL DEF Spec
-----------------------------------------------------------------------------
(***************************************************************************)
(* Gestures.  A call makes none before it has a target; while it works on  *)
(* a target, what it did on this one before is at most the gesture just    *)
(* made, reported as passing; and the tester's selector comes last.        *)
(***************************************************************************)

\* A call that has the fields the gestures are about.
Told(c) ==
    /\ {"pc", "did", "ref", "by", "el", "attempts", "result", "step"} \subseteq DOMAIN c
    /\ \E S : c.did \in Seq(S)

NoneBy(c, by) == \A i \in DOMAIN c.did : c.did[i].by # by

\* The parts of RepeatsOnlyTransient; a call that goes on has no gesture reported done.
RepeatsPassing(c) ==
    \A i, j \in DOMAIN c.did :
        i < j /\ c.did[i].ref = c.did[j].ref /\ c.did[i].by = c.did[j].by
           => j = i + 1 /\ c.did[i].report = "passing"
Unanswered(c) == \A i \in DOMAIN c.did : c.did[i].report # "ok"
AnsweredLast(c) == \A i, j \in DOMAIN c.did : i < j => c.did[i].report # "ok"
PassedIsDone(c) ==
    /\ c.pc = "done" /\ c.result = "passed" /\ c.did # <<>> => Last(c.did).report = "ok"
    /\ AnsweredLast(c)
    /\ c.pc # "done" => Unanswered(c)

\* Before there is a target nothing was done.
NothingYet(c) == c.pc \notin {"find", "wait", "clear", "touch", "fallback", "done"} => c.did = <<>>

\* The selector is tried when nothing else is left.
SelectorLast(c) ==
    /\ c.pc = "fallback" => NoneBy(c, "fallback")
    /\ c.pc = "point" => c.by # "fallback"
    /\ c.pc \in {"find", "wait", "clear", "touch"} /\ c.by # "fallback" => NoneBy(c, "fallback")

\* On the present target at most one gesture was made: the last one, to be repeated.
OneRepeat(c) ==
    c.pc \in {"find", "wait", "clear", "touch"} =>
        /\ c.attempts \in {1, 2}
        /\ \A i \in DOMAIN c.did :
              c.did[i].by = c.by => c.attempts = 2 /\ i = Len(c.did) /\ c.did[i].report = "passing"

GestureInv(c) ==
    Told(c) /\ RepeatsPassing(c) /\ PassedIsDone(c) /\ NothingYet(c) /\ SelectorLast(c) /\ OneRepeat(c)

\* The cap is about the script that runs.
Capped == opt.execRetries \in {0, 1}
GInv == GestureInv(call) /\ Capped

\* Nothing done yet; a target that was just found is tried for the first time.
Fresh(c) ==
    /\ Told(c) /\ c.did = <<>>
    /\ c.pc \in {"find", "wait", "clear", "touch"} => c.attempts = 1
    /\ c.pc = "point" => c.by # "fallback"

LEMMA FreshIsGood ==
    ASSUME NEW c, Fresh(c)
    PROVE  GestureInv(c)
<1>1. DOMAIN c.did = {}
  BY DEF Fresh
<1>2. QED
  BY <1>1 DEF Fresh, GestureInv, RepeatsPassing, PassedIsDone, Unanswered, AnsweredLast, NothingYet, SelectorLast, OneRepeat, NoneBy

\* A call d that has done what c has, and whose field f alone may differ beside pc.
LEMMA EndedTold ==
    ASSUME NEW c, Told(c), NEW result, NEW value
    PROVE  /\ Told(Ended(c, result, value))
           /\ Ended(c, result, value).pc = "done" /\ Ended(c, result, value).did = c.did
           /\ Ended(c, result, value).result = result
  BY DEF Told, Ended

LEMMA EndedFresh ==
    ASSUME NEW c, Told(c), c.did = <<>>, NEW result, NEW value
    PROVE  Fresh(Ended(c, result, value))
  BY EndedTold DEF Fresh

\* An unsuccessful end, whatever was done.
LEMMA EndedFailedGood ==
    ASSUME NEW c, Told(c), RepeatsPassing(c), Unanswered(c)
    PROVE  GestureInv(Ended(c, "failed", {}))
<1> DEFINE d == Ended(c, "failed", {})
<1>1. Told(d) /\ d.pc = "done" /\ d.did = c.did /\ d.result = "failed"
  BY EndedTold
<1> HIDE DEF d
<1>2. GestureInv(d)
  BY <1>1 DEF GestureInv, RepeatsPassing, PassedIsDone, Unanswered, AnsweredLast, NothingYet, SelectorLast, OneRepeat
<1>3. QED
  BY <1>2 DEF d

LEMMA TargetGood ==
    ASSUME Told(call), RepeatsPassing(call), Unanswered(call), NEW ref, NEW by, NoneBy(call, by),
           by # "fallback" => NoneBy(call, "fallback")
    PROVE  GestureInv(Target(ref, by))
<1> DEFINE d == Target(ref, by)
<1>1. Told(d) /\ d.pc = "find" /\ d.did = call.did /\ d.by = by /\ d.attempts = 1
  BY DEF Told, Target
<1> HIDE DEF d
<1>2. GestureInv(d)
  BY <1>1 DEF GestureInv, RepeatsPassing, PassedIsDone, Unanswered, AnsweredLast, NothingYet, SelectorLast, OneRepeat, NoneBy
<1>3. QED
  BY <1>2 DEF d

LEMMA TargetFresh ==
    ASSUME Told(call), call.did = <<>>, NEW ref, NEW by
    PROVE  Fresh(Target(ref, by))
  BY DEF Told, Target, Fresh

\* After a failed attempt: again, or the selector, or the end.
LEMMA FailedGood ==
    ASSUME NEW c, Told(c), RepeatsPassing(c), Unanswered(c), Capped, NEW passing \in BOOLEAN, c.attempts \in {1, 2},
           c.by # "fallback" => NoneBy(c, "fallback"),
           passing /\ c.attempts = 1 =>
               \A i \in DOMAIN c.did : c.did[i].by = c.by => i = Len(c.did) /\ c.did[i].report = "passing"
    PROVE  GestureInv(Failed(c, passing))
<1>1. CASE passing /\ c.attempts <= opt.execRetries
  <2> DEFINE d == [c EXCEPT !.attempts = @ + 1, !.pc = "find"]
  <2>1. c.attempts = 1
    BY <1>1 DEF Capped
  <2>2. Told(d) /\ d.pc = "find" /\ d.did = c.did /\ d.by = c.by /\ d.attempts = 2
    BY <2>1 DEF Told
  <2>3. Failed(c, passing) = d
    BY <1>1 DEF Failed
  <2> HIDE DEF d
  <2>4. GestureInv(d)
    BY <1>1, <2>1, <2>2 DEF GestureInv, RepeatsPassing, PassedIsDone, Unanswered, AnsweredLast, NothingYet, SelectorLast, OneRepeat, NoneBy
  <2>5. QED
    BY <2>3, <2>4
<1>2. CASE ~(passing /\ c.attempts <= opt.execRetries) /\ c.by # "fallback" /\ c.step.fallback # NoRef
  <2> DEFINE d == [c EXCEPT !.pc = "fallback"]
  <2>1. Told(d) /\ d.pc = "fallback" /\ d.did = c.did
    BY DEF Told
  <2>2. NoneBy(d, "fallback")
    BY <1>2, <2>1 DEF NoneBy
  <2>3. Failed(c, passing) = d
    BY <1>2 DEF Failed
  <2> HIDE DEF d
  <2>4. GestureInv(d)
    BY <2>1, <2>2 DEF GestureInv, RepeatsPassing, PassedIsDone, Unanswered, AnsweredLast, NothingYet, SelectorLast, OneRepeat
  <2>5. QED
    BY <2>3, <2>4
<1>3. CASE ~(passing /\ c.attempts <= opt.execRetries) /\ ~(c.by # "fallback" /\ c.step.fallback # NoRef)
  BY <1>3, EndedFailedGood DEF Failed
<1>4. QED
  BY <1>1, <1>2, <1>3

\* What a gesture adds: the last entry, about the present target.
LEMMA DoneAdds ==
    ASSUME Told(call), NEW report
    PROVE  LET d == Done(report) IN
           /\ Told(d)
           /\ d.by = call.by /\ d.attempts = call.attempts /\ d.pc = call.pc /\ d.step = call.step
           /\ Len(d.did) = Len(call.did) + 1 /\ Len(call.did) \in Nat
           /\ DOMAIN call.did = 1..Len(call.did) /\ DOMAIN d.did = 1..Len(d.did)
           /\ \A i \in DOMAIN call.did : d.did[i] = call.did[i]
           /\ d.did[Len(d.did)].by = call.by /\ d.did[Len(d.did)].ref = call.ref
           /\ d.did[Len(d.did)].report = report
           /\ d.did # <<>> /\ Last(d.did) = d.did[Len(d.did)]
<1> DEFINE new == [ref |-> call.ref, by |-> call.by, el |-> call.el, report |-> report]
           d == Done(report)
<1>1. PICK S : call.did \in Seq(S)
  BY DEF Told
<1>2. call.did \in Seq(S \cup {new}) /\ new \in S \cup {new}
  BY <1>1
<1>3. d.did = Append(call.did, new)
  BY DEF Told, Done
<1>4. d.did \in Seq(S \cup {new})
  BY <1>2, <1>3
<1>5. /\ {"pc", "did", "ref", "by", "el", "attempts", "result", "step"} \subseteq DOMAIN d
      /\ d.by = call.by /\ d.attempts = call.attempts /\ d.pc = call.pc /\ d.step = call.step
  BY DEF Told, Done
<1>6. /\ Len(d.did) = Len(call.did) + 1 /\ Len(call.did) \in Nat
      /\ DOMAIN call.did = 1..Len(call.did) /\ DOMAIN d.did = 1..Len(d.did)
      /\ \A i \in DOMAIN call.did : d.did[i] = call.did[i]
      /\ d.did[Len(d.did)] = new
  BY <1>2, <1>3
<1>7. new.by = call.by /\ new.ref = call.ref /\ new.report = report
  OBVIOUS
<1>8. d.did # <<>>
  BY <1>6
<1> HIDE DEF d, new
<1>9. Told(d) /\ Last(d.did) = d.did[Len(d.did)]
  BY <1>4, <1>5 DEF Told, Last
<1>10. QED
  BY <1>5, <1>6, <1>7, <1>8, <1>9 DEF d

\* A gesture on a target keeps the order of gestures.
LEMMA DoneKeepsOrder ==
    ASSUME GestureInv(call), call.pc \in {"find", "wait", "clear", "touch"}, NEW report
    PROVE  RepeatsPassing(Done(report))
<1> DEFINE d == Done(report)
<1>1. /\ Len(d.did) = Len(call.did) + 1 /\ Len(call.did) \in Nat
      /\ DOMAIN call.did = 1..Len(call.did) /\ DOMAIN d.did = 1..Len(d.did)
      /\ \A i \in DOMAIN call.did : d.did[i] = call.did[i]
      /\ d.did[Len(d.did)].by = call.by
  BY DoneAdds DEF GestureInv
<1> HIDE DEF d
<1>2. SUFFICES ASSUME NEW i \in DOMAIN d.did, NEW j \in DOMAIN d.did, i < j,
                      d.did[i].ref = d.did[j].ref, d.did[i].by = d.did[j].by
               PROVE  j = i + 1 /\ d.did[i].report = "passing"
  BY DEF RepeatsPassing, d
<1>3. CASE j <= Len(call.did)
  <2>1. i \in DOMAIN call.did /\ j \in DOMAIN call.did
    BY <1>1, <1>2, <1>3
  <2>2. d.did[i] = call.did[i] /\ d.did[j] = call.did[j]
    BY <1>1, <2>1
  <2>3. QED
    BY <1>2, <2>1, <2>2 DEF GestureInv, RepeatsPassing
<1>4. CASE j = Len(d.did)
  <2>1. i \in DOMAIN call.did /\ d.did[i] = call.did[i]
    BY <1>1, <1>2, <1>4
  <2>2. call.did[i].by = call.by
    BY <1>1, <1>2, <1>4, <2>1
  <2>3. i = Len(call.did) /\ call.did[i].report = "passing"
    BY <2>1, <2>2 DEF GestureInv, OneRepeat
  <2>4. QED
    BY <1>1, <1>4, <2>1, <2>3
<1>5. QED
  BY <1>1, <1>3, <1>4
\* Capped holds from the start and stays: the script does not change.
LEMMA ScriptStays ==
    ASSUME [Next]_vars, Capped
    PROVE  Capped'
<1>1. script' = script
  BY DEF Next, Script, Change, Finished, vars, app, Idle, Plan, Settle, HandleAlert, Collect, Merge,
         Ground, Swipe, FallBack, Find, Wait, Clear, Touch, Point, System, Read, Enter, Plain, Ready, Switch,
         Operate, Restore, NextCall
<1>2. QED
  BY <1>1 DEF Capped, opt

LEMMA NewCallFresh ==
    ASSUME NEW s
    PROVE  Fresh(NewCall(s))
<1>1. <<>> \in Seq({})
  OBVIOUS
<1>2. QED
  BY <1>1 DEF NewCall, Fresh, Told

LEMMA GesturesInitially == Init => GInv
<1> SUFFICES ASSUME Init PROVE GInv
  OBVIOUS
<1>1. PICK s \in Scripts : script = s /\ call = NewCall(Head(s.calls))
  BY DEF Init
<1>2. Capped
  BY <1>1, RetryCapAssumption DEF Capped, opt
<1>3. QED
  BY <1>1, <1>2, NewCallFresh, FreshIsGood DEF GInv

\* What goes on without a target: the reading, the look at the screen, the answers.
LEMMA ReadingStaysFresh ==
    ASSUME GestureInv(call), Plan \/ Settle \/ HandleAlert \/ Collect \/ System \/ Read \/ NextCall
    PROVE  Fresh(call')
<1>1. CASE NextCall
  BY <1>1, NewCallFresh DEF NextCall
<1>2. CASE ~NextCall
  <2>1. Told(call) /\ call.did = <<>>
    BY <1>2 DEF GestureInv, NothingYet, Plan, Settle, HandleAlert, Collect, System, Read
  <2>2. CASE Plan \/ Settle \/ HandleAlert \/ Collect
    BY <2>1, <2>2 DEF Plan, Settle, HandleAlert, Collect, Told, Fresh
  <2>3. CASE System \/ Read
    BY <2>1, <2>3, EndedFresh DEF System, Read, Concluded
  <2>4. QED
    BY <1>2, <2>2, <2>3
<1>3. QED
  BY <1>1, <1>2

LEMMA MergeStaysFresh ==
    ASSUME GestureInv(call), Merge
    PROVE  Fresh(call')
<1> DEFINE c == [Merged EXCEPT !.canvas = RoutesToVision(Merged.nodes, ToolkitOf(Merged))]
<1>1. Told(call) /\ call.did = <<>>
  BY DEF GestureInv, NothingYet, Merge
<1>2. /\ Told(Merged) /\ Merged.did = <<>>
      /\ Told(c) /\ c.did = <<>>
  BY <1>1 DEF Merged, Told
<1>3. Told([c EXCEPT !.pc = "ground"]) /\ Fresh([c EXCEPT !.pc = "ground"])
  BY <1>2 DEF Told, Fresh
<1>4. Fresh([Merged EXCEPT !.pc = "ground"])
  BY <1>2 DEF Told, Fresh
<1>5. Fresh([call EXCEPT !.pc = "fallback"])
  BY <1>1 DEF Told, Fresh
<1>6. Fresh([Merged EXCEPT !.pc = "ground", !.tries = 0, !.prev = Mark])
  BY <1>2 DEF Told, Fresh
<1> HIDE DEF c
<1>7. Fresh(Answered(c)) /\ Fresh(Opened(c))
  <2>1. Fresh(Answered(c))
    BY <1>2, <1>3, EndedFresh DEF Answered
  <2>2. QED
    BY <1>2, <1>3, <2>1, EndedFresh DEF Opened
<1>8. QED
  BY <1>4, <1>5, <1>6, <1>7 DEF Merge, c

LEMMA GroundStaysFresh ==
    ASSUME GestureInv(call), Ground \/ Swipe
    PROVE  Fresh(call')
<1>1. Told(call) /\ call.did = <<>>
  BY DEF GestureInv, NothingYet, Ground, Swipe
<1>2. Fresh(Ended(call, "failed", {}))
  BY <1>1, EndedFresh
<1>3. CASE Swipe
  BY <1>1, <1>3 DEF Swipe, Swiped, Told, Fresh
<1>4. CASE Ground
  <2>1. \A ref : Fresh(OnPictured(ref))
    <3>1. ASSUME NEW ref, NEW el PROVE Fresh([call EXCEPT !.ref = el, !.by = "vision", !.pc = "read"])
      BY <1>1 DEF Told, Fresh
    <3>2. ASSUME NEW el PROVE Fresh([call EXCEPT !.ref = el, !.by = "vision", !.pc = "point"])
      BY <1>1 DEF Told, Fresh
    <3>3. QED
      BY <1>1, <1>2, <3>1, <3>2, TargetFresh DEF OnPictured
  <2>2. \A ref : Fresh(OnGrounded(ref))
    <3>1. ASSUME NEW ref
          PROVE  /\ Fresh([call EXCEPT !.ref = ref, !.by = "grounding", !.pc = "enter"])
                 /\ Fresh([call EXCEPT !.ref = ref, !.by = "grounding", !.pc = "read"])
      BY <1>1 DEF Told, Fresh
    <3>2. QED
      BY <1>1, <2>1, <3>1, TargetFresh DEF OnGrounded
  <2>3. \A kind : Fresh(OnMissed(kind))
    <3>1. ASSUME NEW pc \in {"swipe", "fallback"}
          PROVE  Fresh([call EXCEPT !.pc = pc]) /\ Fresh([call EXCEPT !.pc = pc, !.prev = call.mark])
      BY <1>1 DEF Told, Fresh
    <3>2. ASSUME NEW ref PROVE Fresh([call EXCEPT !.ref = ref, !.by = "canvas", !.pc = "point"])
      BY <1>1 DEF Told, Fresh
    <3>3. QED
      BY <1>1, <1>2, <3>1, <3>2, TargetFresh DEF OnMissed
  <2>4. Fresh([call EXCEPT !.tries = @ + 1, !.purpose = "retry", !.pc = "collect"])
    BY <1>1 DEF Told, Fresh
  <2>5. QED
    BY <1>4, <2>2, <2>3, <2>4 DEF Ground
<1>5. QED
  BY <1>3, <1>4

LEMMA YieldStaysFresh ==
    ASSUME GestureInv(call), Enter \/ Plain \/ Ready \/ Switch \/ Operate \/ Restore
    PROVE  Fresh(call')
<1>1. Told(call) /\ call.did = <<>>
  BY DEF GestureInv, NothingYet, Enter, Plain, Ready, Switch, Operate, Restore
<1>2. \A result, value : Fresh(Ended(call, result, value))
  BY <1>1, EndedFresh
<1>3. CASE Enter
  BY <1>1, <1>3 DEF Enter, Told, Fresh
<1>4. CASE Plain
  BY <1>2, <1>4 DEF Plain, Concluded
<1>5. CASE Ready
  <2>1. Fresh(Refused(call))
    BY <1>2 DEF Refused
  <2>2. QED
    BY <1>1, <1>5, <2>1 DEF Ready, Told, Fresh
<1>6. CASE Switch
  <2>1. Fresh(Refused(call))
    BY <1>2 DEF Refused
  <2>2. QED
    BY <1>1, <1>6, <2>1 DEF Switch, Told, Fresh
<1>7. CASE Operate
  BY <1>1, <1>7 DEF Operate, Told, Fresh
<1>8. CASE Restore
  <2>1. \A restored : Fresh(ConcludedAfter(restored))
    BY <1>2 DEF ConcludedAfter, Refused
  <2>2. QED
    BY <1>8, <2>1 DEF Restore
<1>9. QED
  BY <1>3, <1>4, <1>5, <1>6, <1>7, <1>8
-----------------------------------------------------------------------------
LEMMA FallBackGood ==
    ASSUME GestureInv(call), FallBack
    PROVE  GestureInv(call')
<1>1. Told(call) /\ RepeatsPassing(call) /\ Unanswered(call) /\ NoneBy(call, "fallback")
  BY DEF GestureInv, PassedIsDone, SelectorLast, FallBack
<1>2. QED
  BY <1>1, EndedFailedGood, TargetGood DEF FallBack

\* An attempt that failed before the gesture was made.
LEMMA MissedGood ==
    ASSUME GInv, call.pc \in {"find", "wait", "clear", "touch"}, NEW passing \in BOOLEAN
    PROVE  GestureInv(Failed(call, passing))
<1>1. /\ Told(call) /\ RepeatsPassing(call) /\ Unanswered(call) /\ Capped /\ call.attempts \in {1, 2}
      /\ call.by # "fallback" => NoneBy(call, "fallback")
      /\ \A i \in DOMAIN call.did :
              call.did[i].by = call.by => call.attempts = 2 /\ i = Len(call.did) /\ call.did[i].report = "passing"
  BY DEF GInv, GestureInv, PassedIsDone, SelectorLast, OneRepeat
<1>2. QED
  BY <1>1, FailedGood

\* On the way to the gesture nothing is done.
LEMMA TriesOn ==
    ASSUME GInv, call.pc \in {"find", "wait", "clear", "touch"}, NEW d, Told(d),
           d.pc \in {"find", "wait", "clear", "touch"},
           d.did = call.did, d.by = call.by, d.attempts = call.attempts
    PROVE  GestureInv(d)
  BY DEF GInv, GestureInv, RepeatsPassing, PassedIsDone, Unanswered, AnsweredLast, NothingYet, SelectorLast, OneRepeat, NoneBy

LEMMA FindGood ==
    ASSUME GInv, Find \/ Wait \/ Clear
    PROVE  GestureInv(call')
<1>1. call.pc \in {"find", "wait", "clear"} /\ Told(call)
  BY DEF Find, Wait, Clear, GInv, GestureInv
<1>2. \A passing \in BOOLEAN : GestureInv(Failed(call, passing))
  BY <1>1, MissedGood
<1>3. ASSUME NEW el, NEW pc \in {"wait", "clear", "touch"}
      PROVE  /\ GestureInv(Towards(el, pc))
             /\ GestureInv([call EXCEPT !.pc = pc])
  <2>1. ASSUME NEW d \in {Towards(el, pc), [call EXCEPT !.pc = pc]}
        PROVE  Told(d) /\ d.pc = pc /\ d.did = call.did /\ d.by = call.by /\ d.attempts = call.attempts
    BY <1>1, <2>1 DEF Told, Towards
  <2>2. QED
    BY <1>1, <2>1, TriesOn
<1>4. Begins \in {"clear", "touch"}
  BY DEF Begins
<1>5. CASE Find
  BY <1>2, <1>3, <1>5, FindWays
<1>6. CASE Wait
  <2>1. GestureInv([call EXCEPT !.looks = @ + 1])
    <3> DEFINE d == [call EXCEPT !.looks = @ + 1]
    <3>1. Told(d) /\ d.pc = call.pc /\ d.did = call.did /\ d.by = call.by /\ d.attempts = call.attempts
      BY <1>1 DEF Told
    <3> HIDE DEF d
    <3>2. GestureInv(d)
      BY <1>1, <3>1, TriesOn
    <3>3. QED
      BY <3>2 DEF d
  <2>2. \A displayed : GestureInv(Looked(displayed))
    BY <1>2, <1>3, <1>4, <2>1 DEF Looked
  <2>3. QED
    BY <1>2, <1>6, <2>2 DEF Wait
<1>7. CASE Clear
  BY <1>2, <1>3, <1>7 DEF Clear
<1>8. QED
  BY <1>5, <1>6, <1>7

\* An attempt that failed although the gesture may have been made.
LEMMA ReportedGood ==
    ASSUME GInv, call.pc = "touch", NEW report, report # "ok"
    PROVE  GestureInv(Failed(Done(report), report = "passing"))
<1> DEFINE d == Done(report)
<1>1. /\ Told(d) /\ d.by = call.by /\ d.attempts = call.attempts
      /\ Len(d.did) = Len(call.did) + 1 /\ Len(call.did) \in Nat
      /\ DOMAIN call.did = 1..Len(call.did) /\ DOMAIN d.did = 1..Len(d.did)
      /\ \A i \in DOMAIN call.did : d.did[i] = call.did[i]
      /\ d.did[Len(d.did)].by = call.by /\ d.did[Len(d.did)].report = report
  BY DoneAdds DEF GInv, GestureInv
<1>2. RepeatsPassing(d)
  BY DoneKeepsOrder DEF GInv
<1> HIDE DEF d
<1>3. /\ d.attempts \in {1, 2}
      /\ call.by # "fallback" => NoneBy(call, "fallback")
      /\ \A i \in DOMAIN call.did : call.did[i].by = call.by => call.attempts = 2
      /\ Unanswered(call)
  BY <1>1 DEF GInv, GestureInv, PassedIsDone, SelectorLast, OneRepeat
<1>4. \A i \in DOMAIN d.did : i \in DOMAIN call.did \/ i = Len(d.did)
  BY <1>1
<1>5. Unanswered(d)
  BY <1>1, <1>3, <1>4 DEF Unanswered
<1>6. d.by # "fallback" => NoneBy(d, "fallback")
  BY <1>1, <1>3, <1>4 DEF NoneBy
<1>7. report = "passing" /\ d.attempts = 1 =>
        \A i \in DOMAIN d.did : d.did[i].by = d.by => i = Len(d.did) /\ d.did[i].report = "passing"
  BY <1>1, <1>3, <1>4
<1>8. GestureInv(Failed(d, report = "passing"))
  <2>1. (report = "passing") \in BOOLEAN
    OBVIOUS
  <2>2. QED
    BY <1>1, <1>2, <1>3, <1>5, <1>6, <1>7, <2>1, FailedGood DEF GInv
<1>9. QED
  BY <1>8 DEF d

\* A gesture that was reported done ends the call.
LEMMA DoneGood ==
    ASSUME GestureInv(call), call.pc \in {"touch", "point"}, RepeatsPassing(Done("ok"))
    PROVE  GestureInv(Ended(Done("ok"), "passed", {}))
<1> DEFINE c == Done("ok")
           d == Ended(c, "passed", {})
<1>1. Told(c) /\ Last(c.did) = c.did[Len(c.did)] /\ c.did[Len(c.did)].report = "ok"
  BY DoneAdds DEF GestureInv
<1>2. Told(d) /\ d.pc = "done" /\ d.did = c.did
  BY <1>1, EndedTold
<1>3. AnsweredLast(c)
  <2>1. /\ Len(c.did) = Len(call.did) + 1 /\ Len(call.did) \in Nat
        /\ DOMAIN call.did = 1..Len(call.did) /\ DOMAIN c.did = 1..Len(c.did)
        /\ \A i \in DOMAIN call.did : c.did[i] = call.did[i]
    BY DoneAdds DEF GestureInv
  <2>2. Unanswered(call)
    BY DEF GestureInv, PassedIsDone
  <2> HIDE DEF c
  <2>3. \A i, j \in DOMAIN c.did : i < j => i \in DOMAIN call.did
    BY <2>1
  <2>4. QED
    BY <2>1, <2>2, <2>3 DEF Unanswered, AnsweredLast
<1> HIDE DEF c, d
<1>4. AnsweredLast(d)
  BY <1>2, <1>3 DEF AnsweredLast
<1>5. GestureInv(d)
  BY <1>1, <1>2, <1>4 DEF GestureInv, RepeatsPassing, PassedIsDone, Unanswered, AnsweredLast, NothingYet, SelectorLast, OneRepeat, c
<1>6. QED
  BY <1>5 DEF c, d

LEMMA TouchGood ==
    ASSUME GInv, Touch
    PROVE  GestureInv(call')
<1>1. call.pc = "touch" /\ GestureInv(call)
  BY DEF Touch, GInv
<1>2. \A passing \in BOOLEAN : GestureInv(Failed(call, passing))
  BY <1>1, MissedGood
<1>3. GestureInv(Ended(Done("ok"), "passed", {}))
  BY <1>1, DoneKeepsOrder, DoneGood
<1>4. \A report : report # "ok" => GestureInv(Failed(Done(report), report = "passing"))
  BY <1>1, ReportedGood
<1>5. QED
  BY <1>2, <1>3, <1>4 DEF Touch

\* A single gesture at a point is the only one.
LEMMA PointGood ==
    ASSUME GestureInv(call), Point
    PROVE  GestureInv(call')
<1>1. call.pc = "point" /\ Told(call) /\ call.did = <<>> /\ call.by # "fallback"
  BY DEF GestureInv, NothingYet, SelectorLast, Point
<1>2. \A report : /\ Told(Done(report)) /\ RepeatsPassing(Done(report)) /\ NoneBy(Done(report), "fallback")
  <2>1. SUFFICES ASSUME NEW report
                 PROVE  Told(Done(report)) /\ RepeatsPassing(Done(report)) /\ NoneBy(Done(report), "fallback")
    OBVIOUS
  <2> DEFINE d == Done(report)
  <2>2. /\ Told(d) /\ Len(d.did) = Len(call.did) + 1 /\ DOMAIN d.did = 1..Len(d.did)
        /\ d.did[Len(d.did)].by = call.by
    BY <1>1, DoneAdds
  <2> HIDE DEF d
  <2>3. Len(call.did) = 0
    BY <1>1
  <2>4. DOMAIN d.did = {1} /\ d.did[1].by = call.by
    BY <2>2, <2>3
  <2>5. QED
    BY <1>1, <2>2, <2>4 DEF RepeatsPassing, NoneBy, d
<1>3. GestureInv(Ended(Done("ok"), "passed", {}))
  BY <1>1, <1>2, DoneGood
<1>4. \A c \in {call, Done("other")} :
         /\ GestureInv(Ended(c, "failed", {}))
         /\ GestureInv([c EXCEPT !.pc = "fallback"])
  <2>1. SUFFICES ASSUME NEW c \in {call, Done("other")}
                 PROVE  GestureInv(Ended(c, "failed", {})) /\ GestureInv([c EXCEPT !.pc = "fallback"])
    OBVIOUS
  <2>2. Told(c) /\ RepeatsPassing(c) /\ NoneBy(c, "fallback")
    BY <1>1, <1>2 DEF RepeatsPassing, NoneBy
  <2>3. Unanswered(c)
    <3>1. CASE c = call
      BY <1>1, <3>1 DEF Unanswered
    <3>2. CASE c = Done("other")
      <4>1. /\ Len(c.did) = Len(call.did) + 1 /\ DOMAIN c.did = 1..Len(c.did)
            /\ c.did[Len(c.did)].report = "other"
        BY <1>1, <3>2, DoneAdds
      <4>2. Len(call.did) = 0
        BY <1>1
      <4>3. QED
        BY <4>1, <4>2 DEF Unanswered
    <3>3. QED
      BY <3>1, <3>2
  <2> DEFINE d == [c EXCEPT !.pc = "fallback"]
  <2>4. Told(d) /\ d.pc = "fallback" /\ d.did = c.did
    BY <2>2 DEF Told
  <2> HIDE DEF d
  <2>5. GestureInv(d)
    BY <2>2, <2>3, <2>4 DEF GestureInv, RepeatsPassing, PassedIsDone, Unanswered, AnsweredLast, NothingYet, SelectorLast, OneRepeat, NoneBy
  <2>6. QED
    BY <2>2, <2>3, <2>5, EndedFailedGood DEF d
<1>5. QED
  BY <1>3, <1>4 DEF Point
-----------------------------------------------------------------------------
LEMMA GesturesStay == GInv /\ [Next]_vars => GInv'
<1>1. SUFFICES ASSUME GInv, [Next]_vars PROVE GestureInv(call')
  BY ScriptStays DEF GInv
<1>2. GestureInv(call)
  BY <1>1 DEF GInv
<1>3. CASE Script
  <2>1. CASE FallBack \/ Find \/ Wait \/ Clear \/ Touch \/ Point
    BY <1>1, <1>2, <2>1, FallBackGood, FindGood, TouchGood, PointGood
  <2>2. CASE ~(FallBack \/ Find \/ Wait \/ Clear \/ Touch \/ Point)
    <3>1. Fresh(call')
      BY <1>2, <1>3, <2>2, ReadingStaysFresh, MergeStaysFresh, GroundStaysFresh, YieldStaysFresh DEF Script
    <3>2. QED
      BY <3>1, FreshIsGood
  <2>3. QED
    BY <2>1, <2>2
<1>4. CASE Change \/ Finished \/ UNCHANGED vars
  BY <1>2, <1>4 DEF Change, Finished, vars
<1>5. QED
  BY <1>1, <1>3, <1>4 DEF Next

\* RepeatsOnlyTransient of MobileStep, for every app and script whose retries are
\* within the adapter's cap: a gesture is made again only on the report of an
\* error that passes, directly after and once on one target, nothing is done after
\* one that was reported done, and a step passes only on such a one, its last
\* (appium/adapter.py: execute; act: the tester's selector).
THEOREM GesturesRepeatOnlyTransient == Spec => []RepeatsOnlyTransient
<1>1. GInv => RepeatsOnlyTransient
  BY DEF GInv, GestureInv, RepeatsPassing, PassedIsDone, AnsweredLast, RepeatsOnlyTransient
<1>2. QED
  BY GesturesInitially, GesturesStay, <1>1, PTL DEF Spec
-----------------------------------------------------------------------------
(***************************************************************************)
(* Places in a list.  Kept takes the places of a set in their order: its    *)
(* n-th is the one with n - 1 before it.                                    *)
(***************************************************************************)
LEMMA MinIs ==
    ASSUME NEW S, S \subseteq Nat, S # {}
    PROVE  Min(S) \in S /\ \A y \in S : Min(S) <= y
<1> DEFINE Less == OpToRel(<, Nat)
<1>1. \A x, y \in S : <<y, x>> \in Less <=> y < x
  BY DEF OpToRel
<1>2. IsWellFoundedOn(Less, Nat)
  BY NatLessThanWellFounded
<1> HIDE DEF Less
<1>3. PICK x \in S : \A y \in S : ~(<<y, x>> \in Less)
  BY <1>2, WFMin
<1>4. x \in Nat /\ \A y \in S : y \in Nat /\ ~(y < x)
  BY <1>1, <1>3
<1>5. \A y \in S : x <= y
  BY <1>4
<1>6. QED
  BY <1>5 DEF Min

LEMMA MaxIs ==
    ASSUME NEW S, S \subseteq Int, S # {}, IsFiniteSet(S)
    PROVE  Max(S) \in S /\ \A y \in S : Max(S) >= y
<1> DEFINE Top(T, x) == x \in T /\ \A y \in T : x >= y
           Bad == {n \in Nat : \E T \in SUBSET Int : /\ T # {} /\ IsFiniteSet(T) /\ Cardinality(T) = n
                                                     /\ \A x \in T : ~Top(T, x)}
<1>1. Bad = {}
  <2>1. SUFFICES ASSUME Bad # {} PROVE FALSE
    OBVIOUS
  <2>2. PICK n \in Bad : \A k \in Bad : n <= k
    BY <2>1, MinIs
  <2>3. PICK T \in SUBSET Int : /\ T # {} /\ IsFiniteSet(T) /\ Cardinality(T) = n
                                /\ \A x \in T : ~Top(T, x)
    BY <2>2
  <2>4. PICK x \in T : TRUE
    BY <2>3
  <2>5. IsFiniteSet(T \ {x}) /\ Cardinality(T \ {x}) = n - 1 /\ n - 1 \in Nat
    <3> HIDE DEF Bad, Top
    <3>1. IsFiniteSet(T \ {x}) /\ Cardinality(T \ {x}) = Cardinality(T) - 1
      BY <2>3, <2>4, FS_RemoveElement
    <3>2. QED
      BY <2>3, <3>1, FS_CardinalityType
  <2>6. T \ {x} # {}
    BY <2>3, <2>4
  <2>7. n - 1 \notin Bad
    BY <2>2, <2>5
  <2>8. PICK m \in T \ {x} : Top(T \ {x}, m)
    <3>1. T \ {x} \in SUBSET Int
      OBVIOUS
    <3> HIDE DEF Top
    <3>2. QED
      BY <2>5, <2>6, <2>7, <3>1
  <2>9. Top(T, x) \/ Top(T, m)
    BY <2>4, <2>8
  <2>10. QED
    BY <2>3, <2>4, <2>8, <2>9
<1>2. PICK x \in S : Top(S, x)
  <2>1. Cardinality(S) \in Nat
    BY FS_CardinalityType
  <2>2. QED
    BY <1>1, <2>1
<1>3. QED
  BY <1>2 DEF Max

\* Ranking counts with a copy of the library of its own.
LEMMA RanksAlike == \A S : R!Cardinality(S) = Cardinality(S) /\ R!Min(S) = Min(S) /\ R!Max(S) = Max(S)
<1>1. \A S : R!Cardinality(S) = Cardinality(S)
  BY Zenon DEF Cardinality, R!Cardinality
<1>2. \A S : R!Min(S) = Min(S) /\ R!Max(S) = Max(S)
  BY Zenon DEF Min, R!Min, Max, R!Max
<1>3. QED
  BY <1>1, <1>2

Rank(I, i) == Cardinality({j \in I : j < i})
Place(I, n) == CHOOSE i \in I : R!Cardinality({j \in I : j < i}) = n - 1

LEMMA RankRises ==
    ASSUME NEW I, I \subseteq Nat, IsFiniteSet(I)
    PROVE  /\ Cardinality(I) \in Nat
           /\ \A i \in I : Rank(I, i) \in Nat /\ Rank(I, i) < Cardinality(I)
           /\ \A i, k \in I : i < k => Rank(I, i) < Rank(I, k)
<1> DEFINE B(i) == {j \in I : j < i}
<1>1. \A i \in I : IsFiniteSet(B(i)) /\ Cardinality(B(i)) \in Nat /\ Cardinality(B(i)) < Cardinality(I)
  <2>1. SUFFICES ASSUME NEW i \in I
                 PROVE  IsFiniteSet(B(i)) /\ Cardinality(B(i)) \in Nat /\ Cardinality(B(i)) < Cardinality(I)
    OBVIOUS
  <2>2. B(i) \in SUBSET I /\ i \notin B(i)
    BY <2>1
  <2> HIDE DEF B
  <2>3. IsFiniteSet(B(i)) /\ Cardinality(B(i)) <= Cardinality(I) /\ Cardinality(I) # Cardinality(B(i))
    BY <2>1, <2>2, FS_Subset
  <2>4. Cardinality(B(i)) \in Nat /\ Cardinality(I) \in Nat
    BY <2>3, FS_CardinalityType
  <2>5. QED
    BY <2>3, <2>4
<1>2. \A i, k \in I : i < k => Cardinality(B(i)) < Cardinality(B(k))
  <2>1. SUFFICES ASSUME NEW i \in I, NEW k \in I, i < k
                 PROVE  Cardinality(B(i)) < Cardinality(B(k))
    OBVIOUS
  <2>2. B(i) \in SUBSET B(k) /\ i \in B(k) /\ i \notin B(i)
    <3>1. \A j \in I : j \in Nat /\ ~(i < i)
      BY <2>1
    <3>2. \A j \in I : j < i => j < k
      BY <2>1, <3>1
    <3>3. QED
      BY <2>1, <3>1, <3>2
  <2> HIDE DEF B
  <2>3. Cardinality(B(i)) <= Cardinality(B(k)) /\ Cardinality(B(i)) # Cardinality(B(k))
    BY <1>1, <2>2, FS_Subset
  <2>4. QED
    BY <1>1, <2>1, <2>3
<1>3. Cardinality(I) \in Nat
  BY FS_CardinalityType
<1>4. \A i : Rank(I, i) = Cardinality(B(i))
  BY DEF Rank
<1> HIDE DEF B
<1>5. QED
  BY <1>1, <1>2, <1>3, <1>4

LEMMA PlacesAre ==
    ASSUME NEW I, I \subseteq Nat, IsFiniteSet(I)
    PROVE  /\ \A n \in 1..Cardinality(I) : Place(I, n) \in I /\ Rank(I, Place(I, n)) = n - 1
           /\ \A i \in I : Rank(I, i) + 1 \in 1..Cardinality(I) /\ Place(I, Rank(I, i) + 1) = i
<1>1. /\ Cardinality(I) \in Nat
      /\ \A i \in I : Rank(I, i) \in Nat /\ Rank(I, i) < Cardinality(I)
      /\ \A i, k \in I : i < k => Rank(I, i) < Rank(I, k)
  BY RankRises
<1>2. \A i, k \in I : Rank(I, i) = Rank(I, k) => i = k
  <2>1. SUFFICES ASSUME NEW i \in I, NEW k \in I, Rank(I, i) = Rank(I, k) PROVE i = k
    OBVIOUS
  <2>2. ~(i < k) /\ ~(k < i)
    BY <1>1, <2>1
  <2>3. QED
    BY <2>1, <2>2
<1> DEFINE T == 1..Cardinality(I)
           f == [i \in I |-> Rank(I, i) + 1]
<1>3. f \in [I -> T]
  BY <1>1
<1>4. \A i, k \in I : f[i] = f[k] => i = k
  <2>1. SUFFICES ASSUME NEW i \in I, NEW k \in I, f[i] = f[k] PROVE i = k
    OBVIOUS
  <2>2. Rank(I, i) + 1 = Rank(I, k) + 1 /\ Rank(I, i) \in Nat /\ Rank(I, k) \in Nat
    BY <1>1, <2>1
  <2>3. Rank(I, i) = Rank(I, k)
    BY <2>2
  <2>4. QED
    BY <1>2, <2>3
<1>5. f \in Injection(I, T)
  BY <1>3, <1>4 DEF Injection, IsInjective
<1>6. IsFiniteSet(T) /\ Cardinality(T) = Cardinality(I)
  <2>1. IsFiniteSet(T) /\ Cardinality(T) = IF 1 > Cardinality(I) THEN 0 ELSE Cardinality(I) - 1 + 1
    BY <1>1, FS_Interval
  <2>2. QED
    BY <1>1, <2>1
<1>7. f \in Surjection(I, T)
  <2> HIDE DEF f, T
  <2>1. QED
    BY <1>5, <1>6, FS_Injection
<1>8. \A n \in T : \E i \in I : Rank(I, i) = n - 1
  <2>1. SUFFICES ASSUME NEW n \in T PROVE \E i \in I : Rank(I, i) = n - 1
    OBVIOUS
  <2>2. PICK i \in I : f[i] = n
    <3> HIDE DEF f, T
    <3>1. QED
      BY <1>7 DEF Surjection
  <2>3. Rank(I, i) + 1 = n /\ Rank(I, i) \in Nat
    BY <1>1, <2>2
  <2>4. QED
    BY <2>3
<1>9. \A n \in T : Place(I, n) \in I /\ Rank(I, Place(I, n)) = n - 1
  BY <1>8, RanksAlike DEF Place, Rank
<1>10. \A i \in I : Rank(I, i) + 1 \in T
  BY <1>1
<1>11. \A i \in I : Place(I, Rank(I, i) + 1) = i
  <2>1. SUFFICES ASSUME NEW i \in I PROVE Place(I, Rank(I, i) + 1) = i
    OBVIOUS
  <2> DEFINE p == Place(I, Rank(I, i) + 1)
  <2>2. p \in I /\ Rank(I, p) = Rank(I, i) + 1 - 1 /\ Rank(I, i) \in Nat
    BY <1>1, <1>9, <1>10, <2>1
  <2> HIDE DEF p
  <2>3. Rank(I, p) = Rank(I, i)
    BY <2>2
  <2>4. QED
    BY <1>2, <2>1, <2>2, <2>3 DEF p
<1>12. QED
  BY <1>9, <1>10, <1>11

LEMMA KeptIs ==
    ASSUME NEW s, NEW I
    PROVE  R!Kept(s, I) = [n \in 1..Cardinality(I) |-> s[Place(I, n)]]
<1>1. R!Cardinality(I) = Cardinality(I)
  BY RanksAlike
<1>2. QED
  BY <1>1, Zenon DEF R!Kept, Place
\* What is taken from what was taken: the places of I among those of K.
Among(K, I) == {p \in 1..Cardinality(K) : Place(K, p) \in I}

TakesInOrder(K, I, J) ==
    /\ J \subseteq Nat /\ IsFiniteSet(J) /\ IsFiniteSet(I) /\ Cardinality(J) = Cardinality(I)
    /\ \A n \in 1..Cardinality(I) : Place(J, n) \in J /\ Place(K, Place(J, n)) = Place(I, n)

LEMMA TakenFromTaken ==
    ASSUME NEW K, K \subseteq Nat, IsFiniteSet(K), NEW I, I \subseteq K
    PROVE  TakesInOrder(K, I, Among(K, I))
<1> SUFFICES ASSUME NEW J, J = Among(K, I)
             PROVE  /\ J \subseteq Nat /\ IsFiniteSet(J) /\ IsFiniteSet(I) /\ Cardinality(J) = Cardinality(I)
                    /\ \A n \in 1..Cardinality(I) : Place(J, n) \in J /\ Place(K, Place(J, n)) = Place(I, n)
  BY Zenon DEF TakesInOrder
<1> USE DEF Among
<1> DEFINE P(p) == Place(K, p)
<1>0. /\ Cardinality(K) \in Nat
      /\ \A i, k \in K : i < k => Rank(K, i) < Rank(K, k)
  BY RankRises
<1>1. /\ Cardinality(K) \in Nat
      /\ \A i, k \in K : i < k => Rank(K, i) < Rank(K, k)
      /\ \A p \in 1..Cardinality(K) : P(p) \in K /\ Rank(K, P(p)) = p - 1
      /\ \A i \in K : Rank(K, i) + 1 \in 1..Cardinality(K) /\ P(Rank(K, i) + 1) = i
  BY <1>0, PlacesAre, Zenon
<1>2. I \subseteq Nat /\ IsFiniteSet(I) /\ J \subseteq Nat
  <2>1. I \in SUBSET K
    OBVIOUS
  <2>2. IsFiniteSet(I)
    BY <2>1, FS_Subset
  <2>3. J \subseteq Nat
    BY <1>0
  <2>4. QED
    BY <2>1, <2>2, <2>3
<1>3. /\ \A p \in J : p \in 1..Cardinality(K) /\ p \in Nat /\ P(p) \in I /\ P(p) \in K /\ P(p) \in Nat
                      /\ Rank(K, P(p)) = p - 1
      /\ \A i \in I : \E p \in J : P(p) = i
  BY <1>1, <1>2
<1> HIDE DEF P
<1>4. \A p, q \in J : (p < q <=> P(p) < P(q)) /\ (P(p) = P(q) => p = q)
  <2>1. SUFFICES ASSUME NEW p \in J, NEW q \in J
                 PROVE  (p < q <=> P(p) < P(q)) /\ (P(p) = P(q) => p = q)
    OBVIOUS
  <2>2. p \in Nat /\ q \in Nat /\ P(p) \in Nat /\ P(q) \in Nat /\ Rank(K, P(p)) = p - 1 /\ Rank(K, P(q)) = q - 1
    BY <1>3
  <2>3. P(p) = P(q) => p = q
    BY <2>2
  <2>4. P(p) < P(q) => p < q
    <3>1. P(p) < P(q) => Rank(K, P(p)) < Rank(K, P(q))
      BY <1>1, <1>3
    <3>2. QED
      BY <2>2, <3>1
  <2>5. P(q) < P(p) => q < p
    <3>1. P(q) < P(p) => Rank(K, P(q)) < Rank(K, P(p))
      BY <1>1, <1>3
    <3>2. QED
      BY <2>2, <3>1
  <2>6. QED
    BY <2>2, <2>3, <2>4, <2>5
\* A part of J and the places it stands for have the same size.
<1>5. ASSUME NEW A \in SUBSET J, NEW B, B = {i \in I : \E p \in A : P(p) = i}
      PROVE  IsFiniteSet(A) /\ Cardinality(A) = Cardinality(B)
  <2> DEFINE f == [p \in A |-> P(p)]
  <2>1. f \in [A -> B]
    BY <1>3, <1>5
  <2>2. \A p, q \in A : f[p] = f[q] => p = q
    BY <1>4
  <2>3. \A i \in B : \E p \in A : f[p] = i
    BY <1>5
  <2>4. f \in Injection(A, B) /\ f \in Surjection(A, B)
    <3> HIDE DEF f
    <3>1. QED
      BY <2>1, <2>2, <2>3 DEF Injection, IsInjective, Surjection
  <2>5. B \in SUBSET I
    BY <1>5
  <2>6. IsFiniteSet(B)
    BY <1>2, <2>5, FS_Subset
  <2> HIDE DEF f
  <2>7. QED
    BY <2>4, <2>6, FS_Injection
<1>6. IsFiniteSet(J) /\ Cardinality(J) = Cardinality(I)
  <2>1. I = {i \in I : \E p \in J : P(p) = i}
    BY <1>3
  <2>2. QED
    BY <1>5, <2>1
<1>7. \A p \in J : Rank(J, p) = Rank(I, P(p))
  <2>1. SUFFICES ASSUME NEW p \in J PROVE Rank(J, p) = Rank(I, P(p))
    OBVIOUS
  <2> DEFINE A == {q \in J : q < p}
             B == {i \in I : i < P(p)}
  <2>2. A \in SUBSET J
    OBVIOUS
  <2>3. B = {i \in I : \E q \in A : P(q) = i}
    <3>1. \A i \in I : i < P(p) => \E q \in A : P(q) = i
      BY <1>3, <1>4
    <3>2. \A q \in A : P(q) < P(p)
      BY <1>4
    <3> HIDE DEF A
    <3>3. QED
      BY <3>1, <3>2
  <2>4. Rank(J, p) = Cardinality(A) /\ Rank(I, P(p)) = Cardinality(B)
    BY DEF Rank
  <2> HIDE DEF A, B
  <2>5. QED
    BY <1>5, <2>2, <2>3, <2>4
<1>8. \A n \in 1..Cardinality(I) : Place(J, n) \in J /\ P(Place(J, n)) = Place(I, n)
  <2>1. SUFFICES ASSUME NEW n \in 1..Cardinality(I)
                 PROVE  Place(J, n) \in J /\ P(Place(J, n)) = Place(I, n)
    OBVIOUS
  <2>2. Place(J, n) \in J /\ Rank(J, Place(J, n)) = n - 1
    BY <1>2, <1>6, <2>1, PlacesAre
  <2>3. P(Place(J, n)) \in I /\ Rank(I, P(Place(J, n))) = n - 1
    BY <1>3, <1>7, <2>2
  <2>4. Place(I, Rank(I, P(Place(J, n))) + 1) = P(Place(J, n))
    BY <1>2, <2>3, PlacesAre
  <2>5. n - 1 + 1 = n
    <3>1. Cardinality(I) \in Nat
      BY <1>2, FS_CardinalityType
    <3>2. QED
      BY <2>1, <3>1
  <2>6. QED
    BY <2>2, <2>3, <2>4, <2>5
<1>9. QED
  BY <1>2, <1>6, <1>8 DEF P

\* The places of a list that are looked at, in their order.
LEMMA InOrderIs ==
    ASSUME NEW list, NEW len \in Nat, DOMAIN list = 1..len, NEW I, I \subseteq DOMAIN list
    PROVE  /\ I \subseteq Nat /\ IsFiniteSet(I) /\ Cardinality(I) \in Nat
           /\ InOrder(list, I) = [n \in 1..Cardinality(I) |-> Place(I, n)]
<1>1. I \subseteq Nat /\ I \in SUBSET (1..len) /\ 1 \in Int /\ len \in Int
  OBVIOUS
<1>2. IsFiniteSet(I) /\ Cardinality(I) \in Nat
  <2>1. IsFiniteSet(1..len)
    BY <1>1, FS_Interval
  <2>2. QED
    BY <1>1, <2>1, FS_Subset, FS_CardinalityType
<1>3. \A n \in 1..Cardinality(I) : Place(I, n) \in DOMAIN list
  BY <1>1, <1>2, PlacesAre
<1> DEFINE id == [i \in DOMAIN list |-> i]
<1>4. \A n \in 1..Cardinality(I) : id[Place(I, n)] = Place(I, n)
  BY <1>3
<1>5. InOrder(list, I) = [n \in 1..Cardinality(I) |-> id[Place(I, n)]]
  BY KeptIs DEF InOrder
<1> HIDE DEF id
<1>6. QED
  BY <1>1, <1>2, <1>4, <1>5
-----------------------------------------------------------------------------
(***************************************************************************)
(* Compaction.  A node that anything is matched by is kept, so what is      *)
(* matched among the kept nodes is what is matched among all.              *)
(***************************************************************************)
IsList(nodes) == \E len \in Nat : DOMAIN nodes = 1..len

\* What compact_hierarchy_xml keeps, and what a phrase is matched by.
KeptPlaces(nodes) ==
    ({1} \union UNION {Line(nodes, i) : i \in {j \in DOMAIN nodes : Useful(nodes[j])}}) \intersect DOMAIN nodes
Hits(nodes, phrase) == {i \in DOMAIN nodes : AttrFor(nodes[i], phrase) # 0}

LEMMA AttrIs ==
    ASSUME NEW n, NEW phrase
    PROVE  \/ AttrFor(n, phrase) = 0 /\ \A k \in 1..4 : ~Alike(phrase, Attrs(n)[k].words)
           \/ /\ AttrFor(n, phrase) \in 1..4
              /\ Alike(phrase, Attrs(n)[AttrFor(n, phrase)].words)
              /\ \A k \in 1..4 : Alike(phrase, Attrs(n)[k].words) => AttrFor(n, phrase) <= k
<1> DEFINE T == {k \in 1..Len(Attrs(n)) : Alike(phrase, Attrs(n)[k].words)}
<1>1. AttrFor(n, phrase) = IF T # {} THEN Min(T) ELSE 0
  BY DEF AttrFor, SelectInSeq
<1>2. Len(Attrs(n)) = 4
  BY DEF Attrs
<1>3. T \subseteq Nat /\ T = {k \in 1..4 : Alike(phrase, Attrs(n)[k].words)}
  BY <1>2
<1> HIDE DEF T
<1>4. T # {} => Min(T) \in T /\ \A k \in T : Min(T) <= k
  BY <1>3, MinIs
<1>5. QED
  BY <1>1, <1>3, <1>4

LEMMA HitsAreUseful ==
    ASSUME NEW n, NEW phrase, AttrFor(n, phrase) # 0, n.gone => n.rid = {} \/ Speaks(n)
    PROVE  Useful(n)
<1>1. PICK k \in 1..4 : Attrs(n)[k].words # {}
  BY AttrIs DEF Alike
<1>2. n.text # {} \/ n.desc # {} \/ n.rid # {} \/ n.value # {}
  BY <1>1 DEF Attrs
<1>3. QED
  BY <1>2 DEF Useful, Speaks

LEMMA UsefulIsKept ==
    ASSUME NEW nodes, NEW i \in DOMAIN nodes, Useful(nodes[i])
    PROVE  i \in KeptPlaces(nodes)
<1>1. i \in Line(nodes, i)
  BY DEF Line
<1>2. QED
  BY <1>1 DEF KeptPlaces

LEMMA CompactedIs ==
    ASSUME NEW nodes, IsList(nodes)
    PROVE  /\ KeptPlaces(nodes) \subseteq DOMAIN nodes /\ KeptPlaces(nodes) \subseteq Nat
           /\ IsFiniteSet(KeptPlaces(nodes)) /\ Cardinality(KeptPlaces(nodes)) \in Nat
           /\ Compacted(nodes) = [n \in 1..Cardinality(KeptPlaces(nodes)) |-> nodes[Place(KeptPlaces(nodes), n)]]
<1> DEFINE K == KeptPlaces(nodes)
<1>1. PICK len \in Nat : DOMAIN nodes = 1..len
  BY DEF IsList
<1>2. K \subseteq DOMAIN nodes
  BY DEF KeptPlaces
<1>3. Compacted(nodes) = R!Kept(nodes, K)
  BY Zenon DEF Compacted, KeptPlaces
<1> HIDE DEF K
<1>4. K \subseteq Nat /\ IsFiniteSet(K) /\ Cardinality(K) \in Nat
  BY <1>1, <1>2, InOrderIs
<1>5. QED
  BY <1>2, <1>3, <1>4, KeptIs DEF K

\* All the candidates come from the kept nodes.
LEMMA CompactedSame ==
    ASSUME NEW nodes, IsList(nodes), NEW phrase, NEW action, NEW toolkit,
           \A n \in Range(nodes) : n.gone => n.rid = {} \/ Speaks(n)
    PROVE  Candidates(Compacted(nodes), phrase, action, toolkit) = Candidates(nodes, phrase, action, toolkit)
<1> DEFINE K == KeptPlaces(nodes)
           I == Hits(nodes, phrase)
           kept == Compacted(nodes)
           J == Hits(kept, phrase)
<1>1. /\ K \subseteq DOMAIN nodes /\ K \subseteq Nat /\ IsFiniteSet(K) /\ Cardinality(K) \in Nat
      /\ kept = [n \in 1..Cardinality(K) |-> nodes[Place(K, n)]]
  BY CompactedIs
<1>2. I \subseteq K
  <2>1. \A i \in I : i \in DOMAIN nodes /\ nodes[i] \in Range(nodes) /\ AttrFor(nodes[i], phrase) # 0
    BY DEF Hits, Range
  <2>2. QED
    BY <2>1, HitsAreUseful, UsefulIsKept
<1>3. \A p \in 1..Cardinality(K) : Place(K, p) \in K
  BY <1>1, PlacesAre
<1>4. J = {p \in 1..Cardinality(K) : Place(K, p) \in I} /\ J = Among(K, I)
  BY <1>1, <1>3 DEF Hits, Among
<1> HIDE DEF K, I, J, kept
<1>5. /\ J \subseteq Nat /\ IsFiniteSet(J) /\ IsFiniteSet(I) /\ Cardinality(J) = Cardinality(I)
      /\ \A n \in 1..Cardinality(I) : Place(J, n) \in J /\ Place(K, Place(J, n)) = Place(I, n)
  <2>1. K \subseteq Nat /\ IsFiniteSet(K)
    BY <1>1
  <2>2. TakesInOrder(K, I, Among(K, I))
    BY <2>1, <1>2, TakenFromTaken, Zenon
  <2>3. J = Among(K, I)
    BY <1>4
  <2>4. QED
    BY <2>2, <2>3, Zenon DEF TakesInOrder
<1>6. InOrder(nodes, I) = [n \in 1..Cardinality(I) |-> Place(I, n)]
  BY <1>1, <1>2, InOrderIs DEF IsList
<1>7. InOrder(kept, J) = [n \in 1..Cardinality(I) |-> Place(J, n)]
  <2>1. DOMAIN kept = 1..Cardinality(K) /\ J \subseteq DOMAIN kept /\ Cardinality(K) \in Nat
    BY <1>1, <1>4
  <2>2. InOrder(kept, J) = [n \in 1..Cardinality(J) |-> Place(J, n)]
    BY <2>1, InOrderIs
  <2>3. QED
    BY <1>5, <2>2
<1>8. \A n \in 1..Cardinality(I) : kept[Place(J, n)] = nodes[Place(I, n)]
  BY <1>1, <1>4, <1>5
<1> DEFINE C(n) == CandidateOf(n, phrase, action, toolkit)
<1>9. Candidates(nodes, phrase, action, toolkit) =
         IF action \notin Supports THEN <<>> ELSE [k \in DOMAIN InOrder(nodes, I) |-> C(nodes[InOrder(nodes, I)[k]])]
  BY Zenon DEF Candidates, I, Hits
<1>10. Candidates(kept, phrase, action, toolkit) =
         IF action \notin Supports THEN <<>> ELSE [k \in DOMAIN InOrder(kept, J) |-> C(kept[InOrder(kept, J)[k]])]
  BY Zenon DEF Candidates, J, Hits
<1> HIDE DEF C
<1>11. [k \in DOMAIN InOrder(nodes, I) |-> C(nodes[InOrder(nodes, I)[k]])]
       = [k \in DOMAIN InOrder(kept, J) |-> C(kept[InOrder(kept, J)[k]])]
  BY <1>6, <1>7, <1>8
<1>12. QED
  BY <1>9, <1>10, <1>11 DEF kept
-----------------------------------------------------------------------------
(***************************************************************************)
(* What a match is worth.  The length of a text is that of its letters, so  *)
(* qualities, confidences and scores are integers, and no confidence is     *)
(* above that of an exact match.                                           *)
(***************************************************************************)
LEMMA SizeIs ==
    ASSUME NEW t \in SUBSET Word
    PROVE  Size(t) \in Int /\ (t # {} => Size(t) > 0)
<1> DEFINE f == [w \in t |-> {w} \X (0..Letters[w])]
           All == UNION {{w} \X (0..Letters[w]) : w \in t}
<1>1. IsFiniteSet(t) /\ \A w \in t : Letters[w] \in Nat \ {0}
  BY WordsAssumption, FS_Subset
<1>2. \A w \in t : IsFiniteSet(f[w])
  <2>1. SUFFICES ASSUME NEW w \in t PROVE IsFiniteSet({w} \X (0..Letters[w]))
    OBVIOUS
  <2>2. IsFiniteSet({w})
    BY FS_Singleton
  <2>3. IsFiniteSet(0..Letters[w])
    BY <1>1, <2>1, FS_Interval
  <2>4. QED
    BY <2>2, <2>3, FS_Product
<1> DEFINE F == {f[w] : w \in t}
<1>3. IsFiniteSet(F)
  <2>1. f \in Surjection(t, F)
    <3> HIDE DEF F
    <3>1. f \in [t -> F] /\ \A x \in F : \E w \in t : f[w] = x
      BY DEF F
    <3>2. QED
      BY <3>1 DEF Surjection
  <2> HIDE DEF F, f
  <2>2. QED
    BY <1>1, <2>1, FS_Surjection
<1>4. IsFiniteSet(UNION F)
  <2>1. \A T \in F : IsFiniteSet(T)
    BY <1>2
  <2> HIDE DEF F, f
  <2>2. QED
    BY <1>3, <2>1, FS_UNION
<1>5. UNION F = All
  OBVIOUS
<1>6. Cardinality(All) \in Nat
  BY <1>4, <1>5, FS_CardinalityType
<1>7. ASSUME t # {} PROVE Cardinality(All) > 1
  <2>1. PICK w \in t : TRUE
    BY <1>7
  <2> DEFINE two == {<<w, 0>>, <<w, 1>>}
  <2>2. <<w, 0>> \in {w} \X (0..Letters[w]) /\ <<w, 1>> \in {w} \X (0..Letters[w])
    BY <1>1, <2>1
  <2>3. two \in SUBSET All
    BY <2>1, <2>2
  <2>4. Cardinality(two) = 2
    <3>1. IsFiniteSet({<<w, 0>>}) /\ Cardinality({<<w, 0>>}) = 1
      BY FS_Singleton
    <3> DEFINE one == {<<w, 0>>}
    <3>2. <<w, 1>> \notin one /\ two = one \union {<<w, 1>>}
      OBVIOUS
    <3>3. IsFiniteSet(one) /\ Cardinality(one) = 1
      BY <3>1
    <3> HIDE DEF one, two
    <3>4. Cardinality(one \union {<<w, 1>>}) = IF <<w, 1>> \in one THEN Cardinality(one) ELSE Cardinality(one) + 1
      BY <3>3, FS_AddElement
    <3>5. QED
      BY <3>2, <3>3, <3>4
  <2>5. Cardinality(two) <= Cardinality(All)
    <3> HIDE DEF two, All
    <3>1. IsFiniteSet(All)
      BY <1>4, <1>5
    <3>2. QED
      BY <2>3, <3>1, FS_Subset
  <2>6. QED
    BY <1>6, <2>4, <2>5
<1>8. Size(t) = Cardinality(All) - 1
  BY Zenon DEF Size
<1> HIDE DEF All
<1>9. QED
  BY <1>6, <1>7, <1>8

LEMMA QualityIs ==
    ASSUME NEW phrase \in SUBSET Word, NEW t \in SUBSET Word, t # {}
    PROVE  Quality(phrase, t) \in Int
<1> DEFINE S == {Size(phrase), Size(t)}
<1>1. Size(phrase) \in Int /\ Size(t) \in Int /\ Size(t) > 0
  BY SizeIs
<1>2. Max(S) \in S /\ Max(S) >= Size(t)
  <2>1. S \subseteq Int /\ S # {}
    BY <1>1
  <2>2. IsFiniteSet(S)
    <3>1. IsFiniteSet({Size(phrase)}) /\ S = {Size(phrase)} \union {Size(t)}
      BY FS_Singleton
    <3> HIDE DEF S
    <3>2. QED
      BY <3>1, FS_AddElement
  <2> HIDE DEF S
  <2>3. Max(S) \in S /\ \A y \in S : Max(S) >= y
    BY <2>1, <2>2, MaxIs
  <2>4. QED
    BY <2>3 DEF S
<1>3. Min(S) \in S
  BY <1>1 DEF Min
<1>4. Min(S) \in Int /\ Max(S) \in Int /\ Max(S) > 0
  BY <1>1, <1>2, <1>3
<1> HIDE DEF S
<1>5. (10000 * Min(S)) \div Max(S) \in Int
  BY <1>4
<1>6. QED
  BY <1>5 DEF Quality, S

LEMMA ScaledIs ==
    ASSUME NEW base \in {9200, 8500, 8000, 7500}, NEW q \in Int
    PROVE  /\ Scaled(base, q) \in Int /\ Scaled(base, q) <= base
           /\ q >= 10000 => Scaled(base, q) = base
<1>1. CASE base = 9200
  BY <1>1 DEF Scaled
<1>2. CASE base = 8500
  BY <1>2 DEF Scaled
<1>3. CASE base = 8000
  BY <1>3 DEF Scaled
<1>4. CASE base = 7500
  BY <1>4 DEF Scaled
<1>5. QED
  BY <1>1, <1>2, <1>3, <1>4

\* What a node's candidate is: by the attribute that fits first.
LEMMA RoleScoreIs ==
    ASSUME NEW n, NEW action, NEW toolkit
    PROVE  /\ RoleScore(n, action, toolkit) \in {2000, 4000, 5000, 9000, 10000}
           /\ action = "type" /\ n.kind # "field" => RoleScore(n, action, toolkit) = 2000
           /\ action \in {"tap", "click"} /\ n.kind \in {"button", "label"} => RoleScore(n, action, toolkit) = 10000
<1>1. /\ TapScore(n, toolkit) \in {4000, 9000, 10000}
      /\ n.kind \in {"button", "label"} => TapScore(n, toolkit) = 10000
  BY DEF TapScore
<1>2. CASE action \in {"tap", "click"}
  <2>1. RoleScore(n, action, toolkit) = TapScore(n, toolkit)
    BY <1>2 DEF RoleScore
  <2>2. QED
    BY <1>1, <1>2, <2>1
<1>3. CASE action = "type"
  <2>1. RoleScore(n, action, toolkit) = IF n.kind = "field" THEN 10000 ELSE 2000
    BY <1>3 DEF RoleScore
  <2>2. QED
    BY <1>3, <2>1
<1>4. CASE action \notin {"tap", "click", "type"}
  <2>1. RoleScore(n, action, toolkit) =
           IF action = "verify" THEN IF n.kind \in {"label", "field", "button"} THEN 9000 ELSE 5000 ELSE 5000
    BY <1>4 DEF RoleScore
  <2>2. QED
    BY <1>4, <2>1
<1>5. QED
  BY <1>2, <1>3, <1>4
Counted(c) == R!Score(c) \in Int /\ c.raw \in Int

LEMMA AttrConf ==
    ASSUME NEW n, NEW k \in 1..4
    PROVE  Attrs(n)[k].conf \in {9200, 8500, 7500} /\ Attrs(n)[k].signal \in {9200, 8500, 8000, 7500}
<1>1. Attrs(n)[1].conf = 9200 /\ Attrs(n)[2].conf = 8500 /\ Attrs(n)[3].conf = 7500 /\ Attrs(n)[4].conf = 8500
  BY DEF Attrs
<1>2. Attrs(n)[1].signal = 9200 /\ Attrs(n)[2].signal = 8500 /\ Attrs(n)[3].signal = 7500 /\ Attrs(n)[4].signal = 8000
  BY DEF Attrs
<1>3. k = 1 \/ k = 2 \/ k = 3 \/ k = 4
  OBVIOUS
<1>4. QED
  BY <1>1, <1>2, <1>3

LEMMA AttrWords ==
    ASSUME NEW n, NEW k \in 1..4
    PROVE  Attrs(n)[k].words = n.text \/ Attrs(n)[k].words = n.desc \/ Attrs(n)[k].words = n.rid \/ Attrs(n)[k].words = n.value
<1>1. /\ Attrs(n)[1].words = n.text /\ Attrs(n)[2].words = n.desc
      /\ Attrs(n)[3].words = n.rid /\ Attrs(n)[4].words = n.value
  BY DEF Attrs
<1>2. k = 1 \/ k = 2 \/ k = 3 \/ k = 4
  OBVIOUS
<1>3. QED
  BY <1>1, <1>2

LEMMA TextComesFirst ==
    ASSUME NEW n
    PROVE  /\ Attrs(n)[1] = [name |-> "text", words |-> n.text, conf |-> 9200, signal |-> 9200]
           /\ \A k \in 1..4 : Attrs(n)[k].name = "text" => k = 1
<1>1. /\ Attrs(n)[1] = [name |-> "text", words |-> n.text, conf |-> 9200, signal |-> 9200]
      /\ Attrs(n)[2].name = "desc" /\ Attrs(n)[3].name = "rid" /\ Attrs(n)[4].name = "value"
  BY DEF Attrs
<1>2. \A k \in 1..4 : k = 1 \/ k = 2 \/ k = 3 \/ k = 4
  OBVIOUS
<1>3. QED
  BY <1>1, <1>2

LEMMA OnlyTextIsText ==
    ASSUME NEW n, NEW k \in 1..4, Attrs(n)[k].name = "text"
    PROVE  k = 1
<1>1. Attrs(n)[2].name # "text" /\ Attrs(n)[3].name # "text" /\ Attrs(n)[4].name # "text"
  BY DEF Attrs
<1>2. k = 1 \/ k = 2 \/ k = 3 \/ k = 4
  OBVIOUS
<1>3. QED
  BY <1>1, <1>2

\* A candidate of the hierarchy: a score that its role, and its text, bound.
LEMMA CandidateIs ==
    ASSUME NEW n \in Node, NEW phrase \in SUBSET Word, NEW action, NEW toolkit, AttrFor(n, phrase) # 0,
           NEW c, c = CandidateOf(n, phrase, action, toolkit)
    PROVE  /\ Counted(c) /\ R!Score(c) <= 7460
           /\ c.ref = <<n.kind, <<Attrs(n)[AttrFor(n, phrase)].name, Attrs(n)[AttrFor(n, phrase)].words>>>>
           /\ c.role = R!NoRole /\ c.ref[1] = n.kind /\ c.ref[1] # "vision"
           /\ action = "type" /\ n.kind # "field" => R!Score(c) < 7000
           /\ n.text = phrase /\ phrase # {} =>
                 /\ c.ref = <<n.kind, <<"text", phrase>>>> /\ c.raw = 9200
                 /\ action \in {"tap", "click"} /\ n.kind \in {"button", "label"} /\ ~n.off => R!Score(c) = 7460
<1> DEFINE k == AttrFor(n, phrase)
           a == Attrs(n)[k]
           q == IF a.name = "rid" THEN 10000 ELSE Quality(phrase, a.words)
           t == Scaled(a.signal, q)
           role == RoleScore(n, action, toolkit)
           vis == IF n.off THEN 2000 ELSE 10000
<1>1. k \in 1..4 /\ Alike(phrase, a.words)
  BY AttrIs
<1>2. a.words \in SUBSET Word /\ a.words # {}
  <2>1. a.words = n.text \/ a.words = n.desc \/ a.words = n.rid \/ a.words = n.value
    BY <1>1, AttrWords
  <2>2. n.text \in SUBSET Word /\ n.desc \in SUBSET Word /\ n.rid \in SUBSET Word /\ n.value \in SUBSET Word
    BY DEF Node
  <2>3. QED
    BY <1>1, <2>1, <2>2 DEF Alike
<1>3. q \in Int
  BY <1>2, QualityIs
<1>4. a.conf \in {9200, 8500, 7500} /\ a.signal \in {9200, 8500, 8000, 7500}
  BY <1>1, AttrConf
<1> HIDE DEF q, k, a
<1>5. t \in Int /\ t <= 9200 /\ Scaled(a.conf, q) \in Int
  <2>1. t \in Int /\ t <= a.signal /\ Scaled(a.conf, q) \in Int
    BY <1>3, <1>4, ScaledIs
  <2>2. QED
    BY <1>4, <2>1
<1>6. /\ role \in {2000, 4000, 5000, 9000, 10000}
      /\ action = "type" /\ n.kind # "field" => role = 2000
      /\ action \in {"tap", "click"} /\ n.kind \in {"button", "label"} => role = 10000
  BY RoleScoreIs
<1>7. CandidateOf(n, phrase, action, toolkit) =
          [ref |-> <<n.kind, <<a.name, a.words>>>>, raw |-> Scaled(a.conf, q), role |-> R!NoRole,
           named |-> FALSE, weighed |-> TRUE, by |-> "appium_hierarchy",
           signals |-> [text |-> t, role |-> role, vis |-> vis, uniq |-> 8000, prox |-> 0, mem |-> 0]]
  BY DEF CandidateOf, a, q, k
<1> HIDE DEF t, role, vis
<1>8. vis \in {2000, 10000} /\ (~n.off => vis = 10000)
  BY DEF vis
<1>9. R!Score(c) = (30 * t + 20 * role + 15 * vis + 15 * 8000 + 10 * 0 + 10 * 0 + 50) \div 100
  BY <1>7 DEF R!Score
<1>10. R!Score(c) \in Int /\ R!Score(c) <= 7460
  BY <1>5, <1>6, <1>8, <1>9
<1>11. action = "type" /\ n.kind # "field" => R!Score(c) < 7000
  BY <1>5, <1>6, <1>8, <1>9
<1>12. /\ c.ref = <<n.kind, <<a.name, a.words>>>> /\ c.raw = Scaled(a.conf, q) /\ c.role = R!NoRole
       /\ c.ref[1] = n.kind
  BY <1>7
<1>13. n.kind # "vision"
  BY DEF Node
<1>14. ASSUME n.text = phrase, phrase # {}
       PROVE  /\ c.ref = <<n.kind, <<"text", phrase>>>> /\ c.raw = 9200
              /\ action \in {"tap", "click"} /\ n.kind \in {"button", "label"} /\ ~n.off => R!Score(c) = 7460
  <2>1. Attrs(n)[1] = [name |-> "text", words |-> n.text, conf |-> 9200, signal |-> 9200]
    BY TextComesFirst
  <2>2. Alike(phrase, Attrs(n)[1].words)
    BY <1>14, <2>1 DEF Alike
  <2>3. k <= 1 /\ k \in 1..4
    BY <1>1, <2>2, AttrIs DEF k
  <2>4. a = [name |-> "text", words |-> phrase, conf |-> 9200, signal |-> 9200]
    BY <1>14, <2>1, <2>3 DEF a
  <2>5. q = 10000
    BY <2>4 DEF q, Quality
  <2>6. t = 9200 /\ Scaled(a.conf, q) = 9200
    BY <2>4, <2>5, ScaledIs DEF t
  <2>7. QED
    BY <1>6, <1>8, <1>9, <1>12, <2>4, <2>6
<1>15. QED
  BY <1>5, <1>10, <1>11, <1>12, <1>13, <1>14 DEF Counted, a, k
\* What was seen: its score is a number, and its ref is known by its kind.
LEMMA PictureIs ==
    ASSUME NEW seen \in Seq(Sight), NEW i \in DOMAIN seen, NEW phrase \in SUBSET Word, NEW action,
           NEW c, c = PicturedAs(seen, i, phrase, action)
    PROVE  Counted(c) /\ c.ref = <<"vision", <<i, seen[i].text>>>> /\ c.ref[1] = "vision"
<1> DEFINE x == seen[i]
           twins == {j \in DOMAIN seen : seen[j].text = x.text}
           t == VisionText(x, phrase)
           role == VisionRole(x, phrase, action)
           u == 10000 \div Cardinality(twins)
           v == 100 * x.conf
           b == [ref |-> <<"vision", <<i, x.text>>>>, raw |-> 0, role |-> x.role, named |-> FALSE,
                 weighed |-> TRUE, by |-> "vision_model",
                 signals |-> [text |-> t, role |-> role, vis |-> v, uniq |-> u, prox |-> 5000, mem |-> 0]]
<1>1. x \in Sight
  OBVIOUS
<1> HIDE DEF x
<1>2. x.text \in SUBSET Word /\ x.conf \in Int
  <2>1. x.text \in SUBSET Word
    BY <1>1 DEF Sight
  <2> DEFINE sure == 0..100
  <2>2. x.conf \in sure
    <3>1. x \in [text : SUBSET Word, conf : sure, role : {"button", "link", "textbox", "none"}, box : BOOLEAN]
      BY <1>1 DEF Sight
    <3> HIDE DEF sure
    <3>2. QED
      BY <3>1
  <2>3. \A k \in sure : k \in Int
    OBVIOUS
  <2> HIDE DEF sure
  <2>4. QED
    BY <2>1, <2>2, <2>3, Zenon
<1>3. t \in Int
  <2>1. IsFiniteSet(x.text) /\ IsFiniteSet(x.text \intersect phrase)
    <3>1. IsFiniteSet(Word) /\ x.text \intersect phrase \in SUBSET Word
      BY <1>2, WordsAssumption
    <3>2. QED
      BY <1>2, <3>1, FS_Subset
  <2>2. Cardinality(x.text) \in Nat /\ Cardinality(x.text \intersect phrase) \in Nat
    BY <2>1, FS_CardinalityType
  <2>3. x.text # {} => Cardinality(x.text) # 0
    BY <2>1, FS_EmptySet
  <2> DEFINE m == (10000 * Cardinality(x.text \intersect phrase)) \div Cardinality(x.text)
  <2>4. x.text # {} => m \in Int
    BY <2>2, <2>3
  <2> HIDE DEF m
  <2>5. x.text # {} => Min({9000, m}) \in Int
    BY <2>4 DEF Min
  <2>6. t = IF x.text \subseteq phrase THEN 10000 ELSE Min({9000, m})
    BY DEF VisionText, m
  <2>7. QED
    BY <2>5, <2>6
<1>4. role \in Int
  <2>1. role = 10000 \/ role = 7000 \/ role = 0
    BY DEF VisionRole
  <2>2. QED
    BY <2>1
<1>5. u \in Int
  <2>1. i \in twins /\ twins \in SUBSET DOMAIN seen
    BY DEF x
  <2>2. IsFiniteSet(DOMAIN seen)
    <3>1. Len(seen) \in Int /\ 1 \in Int /\ DOMAIN seen = 1..Len(seen)
      OBVIOUS
    <3>2. QED
      BY <3>1, FS_Interval
  <2> HIDE DEF twins
  <2>3. IsFiniteSet(twins)
    BY <2>1, <2>2, FS_Subset
  <2>4. Cardinality(twins) \in Nat /\ Cardinality(twins) # 0
    BY <2>1, <2>3, FS_EmptySet, FS_CardinalityType
  <2>5. QED
    BY <2>4
<1>6. PicturedAs(seen, i, phrase, action) = R!Ranked(b)
  <2> USE DEF x
  <2>1. QED
    BY SMT DEF PicturedAs
<1>6a. v \in Int
  BY <1>2
<1> HIDE DEF t, role, u, v
<1>7. R!Score(b) = (30 * t + 20 * role + 15 * v + 15 * u + 10 * 5000 + 10 * 0 + 50) \div 100
  BY DEF R!Score
<1>8. R!Score(b) \in Int
  <2>1. (30 * t + 20 * role + 15 * v + 15 * u + 10 * 5000 + 10 * 0 + 50) \div 100 \in Int
    BY <1>6a, <1>3, <1>4, <1>5
  <2> HIDE DEF b
  <2>2. QED
    BY <1>7, <2>1
<1>9. R!Ranked(b) = [b EXCEPT !.raw = R!Score(b)]
  BY DEF R!Ranked
<1> DEFINE r == [b EXCEPT !.raw = R!Score(b)]
<1>10. r.weighed /\ r.signals = b.signals /\ r.raw = R!Score(b) /\ r.ref = b.ref /\ b.weighed
  OBVIOUS
<1>11. b.ref = <<"vision", <<i, x.text>>>> /\ b.ref[1] = "vision"
  OBVIOUS
<1> HIDE DEF b, r
<1>12. R!Score(r) = R!Score(b)
  BY <1>10 DEF R!Score
<1>13. c = r
  BY <1>6, <1>9 DEF r
<1>14. QED
  BY <1>8, <1>10, <1>11, <1>12, <1>13 DEF Counted, x

-----------------------------------------------------------------------------
\* The largest value among some places.
Topmost(h, J, a) == a \in J /\ \A j \in J : h[a] >= h[j]

LEMMA SomeTopmost ==
    ASSUME NEW J, J # {}, IsFiniteSet(J), NEW h \in [J -> Int]
    PROVE  \E a \in J : Topmost(h, J, a)
<1> DEFINE S == {h[i] : i \in J}
<1>1. S \subseteq Int /\ S # {}
  OBVIOUS
<1>2. IsFiniteSet(S)
  <2>1. h \in Surjection(J, S)
    <3> HIDE DEF S
    <3>1. h \in [J -> S] /\ \A x \in S : \E i \in J : h[i] = x
      BY DEF S
    <3>2. QED
      BY <3>1 DEF Surjection
  <2> HIDE DEF S
  <2>2. QED
    BY <2>1, FS_Surjection
<1> HIDE DEF S
<1>3. Max(S) \in S /\ \A y \in S : Max(S) >= y
  BY <1>1, <1>2, MaxIs
<1>4. PICK a \in J : h[a] = Max(S)
  BY <1>3 DEF S
<1>5. \A j \in J : h[j] \in S
  BY DEF S
<1>6. \A j \in J : h[a] >= h[j]
  BY <1>3, <1>4, <1>5
<1>7. QED
  BY <1>6 DEF Topmost

\* The engine's choice.  Of candidates that count, the first in its order has the
\* best score of those it is the first of.
LEMMA FirstIs ==
    ASSUME NEW cs, NEW action, NEW I, I \subseteq Nat, I # {}, IsFiniteSet(I),
           \A i \in I : R!Score(cs[i]) \in Int /\ R!RoleFit(action, cs[i].role) \in Int
    PROVE  /\ R!FirstOf(cs, action, I) \in I
           /\ \A j \in I : R!Score(cs[R!FirstOf(cs, action, I)]) >= R!Score(cs[j])
<1> DEFINE s == [i \in I |-> R!Score(cs[i])]
           f == [i \in I |-> R!RoleFit(action, cs[i].role)]
           Before(i, j) == s[i] > s[j] \/ (s[i] = s[j] /\ (f[i] > f[j] \/ (f[i] = f[j] /\ i < j)))
<1>1. s \in [I -> Int] /\ f \in [I -> Int] /\ \A i \in I : i \in Nat
  OBVIOUS
<1>2. \A i, j \in I : R!Precedes(cs, action, i, j) <=> Before(i, j)
  BY DEF R!Precedes
<1>3. \A i \in I : s[i] = R!Score(cs[i])
  OBVIOUS
<1> HIDE DEF s, f
<1>4. PICK a \in I : Topmost(s, I, a)
  BY <1>1, SomeTopmost
<1>5. \A j \in I : s[a] >= s[j]
  BY <1>4 DEF Topmost
<1> DEFINE A == {i \in I : s[i] = s[a]}
           g == [i \in A |-> f[i]]
<1>6. PICK b \in A : Topmost(g, A, b)
  <2>1. A \in SUBSET I /\ A # {} /\ g \in [A -> Int]
    BY <1>1
  <2> HIDE DEF A, g
  <2>2. IsFiniteSet(A)
    BY <2>1, FS_Subset
  <2>3. QED
    BY <2>1, <2>2, SomeTopmost
<1>7. \A j \in A : f[b] >= f[j]
  BY <1>6 DEF Topmost
<1> DEFINE B == {i \in A : f[i] = f[b]}
<1>8. Min(B) \in B /\ \A j \in B : Min(B) <= j
  <2>1. B \subseteq Nat /\ B # {}
    BY <1>1
  <2> HIDE DEF B
  <2>2. QED
    BY <2>1, MinIs
<1> DEFINE m == Min(B)
<1>9. m \in I /\ \A j \in I \ {m} : Before(m, j)
  <2>1. m \in I /\ s[m] = s[a] /\ f[m] = f[b]
    BY <1>8
  <2>2. SUFFICES ASSUME NEW j \in I, j # m PROVE Before(m, j)
    BY <2>1
  <2>3. s[j] <= s[m] /\ s[j] \in Int /\ s[m] \in Int
    BY <1>1, <1>5, <2>1
  <2>4. s[j] = s[m] => f[j] <= f[m] /\ f[j] \in Int /\ f[m] \in Int
    BY <1>1, <1>7, <2>1
  <2>5. s[j] = s[m] /\ f[j] = f[m] => m < j
    <3>1. s[j] = s[m] /\ f[j] = f[m] => m <= j
      BY <1>8, <2>1
    <3>2. m # j /\ m \in Nat /\ j \in Nat
      BY <1>1, <2>1, <2>2
    <3> HIDE DEF m
    <3>3. QED
      BY <3>1, <3>2
  <2> HIDE DEF m
  <2>6. QED
    BY <2>3, <2>4, <2>5
<1> HIDE DEF m, Before
<1> DEFINE x == R!FirstOf(cs, action, I)
<1>10. x \in I /\ \A j \in I \ {x} : R!Precedes(cs, action, x, j)
  <2>1. \A j \in I \ {m} : R!Precedes(cs, action, m, j)
    BY <1>2, <1>9
  <2>2. QED
    BY <1>9, <2>1, Zenon DEF R!FirstOf
<1> HIDE DEF x
<1>11. \A j \in I : s[x] >= s[j]
  <2>1. SUFFICES ASSUME NEW j \in I PROVE s[x] >= s[j]
    OBVIOUS
  <2>2. CASE j = x
    BY <1>1, <1>10, <2>2
  <2>3. CASE j # x
    <3>1. Before(x, j)
      BY <1>2, <1>10, <2>3
    <3>2. QED
      BY <1>1, <1>10, <3>1 DEF Before
  <2>4. QED
    BY <2>2, <2>3
<1>12. QED
  BY <1>3, <1>10, <1>11 DEF x

\* A list, as it is built by taking, joining and mapping.
Listing(cs) == \E n \in Nat : cs = [k \in 1..n |-> cs[k]]

LEMMA ListingIs ==
    ASSUME NEW cs, Listing(cs)
    PROVE  Len(cs) \in Nat /\ DOMAIN cs = 1..Len(cs) /\ cs \in Seq(Range(cs))
<1>1. PICK n \in Nat : cs = [k \in 1..n |-> cs[k]]
  BY DEF Listing
<1>2. DOMAIN cs = 1..n
  BY <1>1
<1>3. cs \in [1..n -> Range(cs)]
  <2>1. \A k \in 1..n : cs[k] \in Range(cs)
    BY <1>2 DEF Range
  <2>2. QED
    BY <1>1, <2>1
<1>4. cs \in Seq(Range(cs))
  BY <1>3, SeqDef
<1>5. QED
  BY <1>4

LEMMA JoinedIs ==
    ASSUME NEW s, NEW t, Listing(s), Listing(t)
    PROVE  /\ Listing(s \o t)
           /\ \A k \in DOMAIN (s \o t) : (\E i \in DOMAIN s : (s \o t)[k] = s[i]) \/ (\E i \in DOMAIN t : (s \o t)[k] = t[i])
           /\ \A i \in DOMAIN s : i \in DOMAIN (s \o t) /\ (s \o t)[i] = s[i]
<1>1. /\ Len(s) \in Nat /\ DOMAIN s = 1..Len(s) /\ s \in Seq(Range(s))
      /\ Len(t) \in Nat /\ DOMAIN t = 1..Len(t) /\ t \in Seq(Range(t))
  BY ListingIs
<1> DEFINE S == Range(s) \union Range(t)
<1>2. s \in Seq(S) /\ t \in Seq(S)
  BY <1>1
<1> HIDE DEF S
<1> DEFINE st == s \o t
<1>3. st \in Seq(S) /\ Len(st) = Len(s) + Len(t) /\ DOMAIN st = 1..Len(s) + Len(t)
  BY <1>1, <1>2
<1>4. \A k \in 1..Len(s) + Len(t) : st[k] = IF k <= Len(s) THEN s[k] ELSE t[k - Len(s)]
  BY <1>1, <1>2
<1> HIDE DEF st
<1>5. Listing(st)
  <2>1. st \in [1..Len(st) -> S]
    BY <1>3
  <2>2. QED
    BY <1>1, <1>3, <2>1 DEF Listing
<1>6. \A k \in DOMAIN st : (\E i \in DOMAIN s : st[k] = s[i]) \/ (\E i \in DOMAIN t : st[k] = t[i])
  <2>1. SUFFICES ASSUME NEW k \in DOMAIN st
                 PROVE  (\E i \in DOMAIN s : st[k] = s[i]) \/ (\E i \in DOMAIN t : st[k] = t[i])
    OBVIOUS
  <2>2. CASE k <= Len(s)
    BY <1>1, <1>3, <1>4, <2>2
  <2>3. CASE k > Len(s)
    <3>1. k - Len(s) \in DOMAIN t /\ st[k] = t[k - Len(s)]
      BY <1>1, <1>3, <1>4, <2>3
    <3>2. QED
      BY <3>1
  <2>4. QED
    BY <1>1, <1>3, <2>2, <2>3
<1>7. \A i \in DOMAIN s : i \in DOMAIN st /\ st[i] = s[i]
  BY <1>1, <1>3, <1>4
<1>8. QED
  BY <1>5, <1>6, <1>7 DEF st

\* Of the candidates with one ref, one remains.
LEMMA DedupeIs ==
    ASSUME NEW cs, Listing(cs), \A i \in DOMAIN cs : cs[i].raw \in Int, NEW d, d = R!FinalDedupe(cs)
    PROVE  /\ Listing(d)
           /\ \A k \in DOMAIN d : \E i \in DOMAIN cs : d[k] = cs[i]
           /\ \A i \in DOMAIN cs : \E k \in DOMAIN d : d[k].ref = cs[i].ref
<1> DEFINE T(i) == {j \in DOMAIN cs : cs[j].ref = cs[i].ref}
           U(i) == {j \in T(i) : ~ \E k \in T(i) : cs[k].raw > cs[j].raw}
           w == [i \in DOMAIN cs |-> cs[Min(U(i))]]
           I == {i \in DOMAIN cs : i = Min(T(i))}
<1>1. d = R!Kept(w, I)
  BY RanksAlike DEF R!FinalDedupe, R!OnePerRef
<1>2. Len(cs) \in Nat /\ DOMAIN cs = 1..Len(cs)
  BY ListingIs
<1>3. ASSUME NEW i \in DOMAIN cs PROVE Min(T(i)) \in T(i) /\ Min(U(i)) \in T(i)
  <2>1. T(i) \in SUBSET (1..Len(cs)) /\ i \in T(i) /\ T(i) \subseteq Nat /\ U(i) \subseteq T(i)
    BY <1>2, <1>3
  <2>2. Min(T(i)) \in T(i)
    <3> HIDE DEF T
    <3>1. QED
      BY <2>1, MinIs
  <2>3. IsFiniteSet(T(i))
    <3>1. IsFiniteSet(1..Len(cs))
      BY <1>2, FS_Interval
    <3> HIDE DEF T
    <3>2. QED
      BY <2>1, <3>1, FS_Subset
  <2> DEFINE h == [j \in T(i) |-> cs[j].raw]
  <2>4. h \in [T(i) -> Int]
    OBVIOUS
  <2>5. PICK a \in T(i) : Topmost(h, T(i), a)
    <3> HIDE DEF h, T
    <3>1. QED
      BY <2>1, <2>3, <2>4, SomeTopmost
  <2>6. a \in U(i)
    <3>1. \A k \in T(i) : cs[a].raw >= cs[k].raw /\ cs[a].raw \in Int /\ cs[k].raw \in Int
      BY <2>5 DEF Topmost
    <3>2. \A k \in T(i) : ~(cs[k].raw > cs[a].raw)
      BY <3>1
    <3> HIDE DEF T
    <3>3. QED
      BY <3>2
  <2>7. Min(U(i)) \in U(i)
    <3> HIDE DEF U, T
    <3>1. QED
      BY <2>1, <2>6, MinIs
  <2> HIDE DEF U, T
  <2>8. QED
    BY <2>1, <2>2, <2>7
<1>4. \A i \in DOMAIN cs : w[i] = cs[Min(U(i))] /\ Min(U(i)) \in DOMAIN cs /\ cs[Min(U(i))].ref = cs[i].ref
  <2>1. \A i \in DOMAIN cs : w[i] = cs[Min(U(i))]
    OBVIOUS
  <2> HIDE DEF U, w
  <2>2. QED
    BY <1>3, <2>1
<1>5. I \subseteq DOMAIN cs /\ \A i \in DOMAIN cs : \E m \in I : cs[m].ref = cs[i].ref
  <2>1. SUFFICES ASSUME NEW i \in DOMAIN cs PROVE \E m \in I : cs[m].ref = cs[i].ref
    OBVIOUS
  <2>2. Min(T(i)) \in DOMAIN cs /\ cs[Min(T(i))].ref = cs[i].ref
    BY <1>3
  <2>3. T(Min(T(i))) = T(i)
    BY <2>2
  <2>4. QED
    BY <2>2, <2>3
<1> HIDE DEF w, I, T, U
<1>6. IsFiniteSet(I) /\ I \subseteq Nat /\ Cardinality(I) \in Nat
  BY <1>2, <1>5, InOrderIs
<1>7. d = [k \in 1..Cardinality(I) |-> w[Place(I, k)]]
  BY <1>1, KeptIs
<1>8. \A k \in 1..Cardinality(I) : Place(I, k) \in I /\ Place(I, k) \in DOMAIN cs
  BY <1>5, <1>6, PlacesAre
<1>9. Listing(d)
  BY <1>6, <1>7 DEF Listing
<1>10. \A k \in DOMAIN d : \E i \in DOMAIN cs : d[k] = cs[i]
  BY <1>4, <1>7, <1>8
<1>11. \A i \in DOMAIN cs : \E k \in DOMAIN d : d[k].ref = cs[i].ref
  <2>1. SUFFICES ASSUME NEW i \in DOMAIN cs PROVE \E k \in DOMAIN d : d[k].ref = cs[i].ref
    OBVIOUS
  <2>2. PICK m \in I : cs[m].ref = cs[i].ref
    BY <1>5
  <2>3. Rank(I, m) + 1 \in 1..Cardinality(I) /\ Place(I, Rank(I, m) + 1) = m
    BY <1>6, PlacesAre
  <2>4. d[Rank(I, m) + 1] = w[m] /\ Rank(I, m) + 1 \in DOMAIN d
    BY <1>7, <2>3
  <2>5. w[m].ref = cs[m].ref
    BY <1>4, <1>5
  <2>6. QED
    BY <2>2, <2>4, <2>5
<1>12. QED
  BY <1>9, <1>10, <1>11

LEMMA CandidatesAre ==
    ASSUME NEW nodes \in Seq(Node), NEW phrase, NEW action, NEW toolkit,
           NEW cs, cs = Candidates(nodes, phrase, action, toolkit)
    PROVE  /\ Listing(cs)
           /\ \A k \in DOMAIN cs : \E i \in Hits(nodes, phrase) : cs[k] = CandidateOf(nodes[i], phrase, action, toolkit)
           /\ action \in Supports => \A i \in Hits(nodes, phrase) :
                 \E k \in DOMAIN cs : cs[k] = CandidateOf(nodes[i], phrase, action, toolkit)
<1> DEFINE I == Hits(nodes, phrase)
           C(n) == CandidateOf(n, phrase, action, toolkit)
<1>1. I \subseteq DOMAIN nodes /\ DOMAIN nodes = 1..Len(nodes) /\ Len(nodes) \in Nat
  BY DEF Hits
<1>2. cs = IF action \notin Supports THEN <<>> ELSE [k \in DOMAIN InOrder(nodes, I) |-> C(nodes[InOrder(nodes, I)[k]])]
  BY Zenon DEF Candidates, Hits
<1> HIDE DEF I, C
<1>3. /\ I \subseteq Nat /\ IsFiniteSet(I) /\ Cardinality(I) \in Nat
      /\ InOrder(nodes, I) = [n \in 1..Cardinality(I) |-> Place(I, n)]
  BY <1>1, InOrderIs
<1>4. /\ \A n \in 1..Cardinality(I) : Place(I, n) \in I
      /\ \A i \in I : Rank(I, i) + 1 \in 1..Cardinality(I) /\ Place(I, Rank(I, i) + 1) = i
  BY <1>3, PlacesAre
<1>5. CASE action \notin Supports
  <2>1. cs = <<>> /\ DOMAIN cs = {}
    BY <1>2, <1>5
  <2>2. cs = [k \in 1..0 |-> cs[k]]
    BY <2>1
  <2>3. QED
    BY <1>5, <2>1, <2>2 DEF Listing
<1>6. CASE action \in Supports
  <2>1. cs = [k \in 1..Cardinality(I) |-> C(nodes[Place(I, k)])]
    BY <1>2, <1>3, <1>6
  <2>2. Listing(cs)
    BY <1>3, <2>1 DEF Listing
  <2>3. \A k \in DOMAIN cs : \E i \in I : cs[k] = C(nodes[i])
    BY <1>4, <2>1
  <2>4. \A i \in I : \E k \in DOMAIN cs : cs[k] = C(nodes[i])
    <3>1. SUFFICES ASSUME NEW i \in I PROVE \E k \in DOMAIN cs : cs[k] = C(nodes[i])
      OBVIOUS
    <3>2. Rank(I, i) + 1 \in DOMAIN cs /\ cs[Rank(I, i) + 1] = C(nodes[i])
      BY <1>4, <2>1
    <3>3. QED
      BY <3>2
  <2>5. QED
    BY <2>2, <2>3, <2>4 DEF I, C
<1>7. QED
  BY <1>5, <1>6

LEMMA PicturedAre ==
    ASSUME NEW seen \in Seq(Sight), NEW phrase, NEW action, NEW ps, ps = Pictured(seen, phrase, action)
    PROVE  Listing(ps) /\ \A k \in DOMAIN ps : \E i \in DOMAIN seen : ps[k] = PicturedAs(seen, i, phrase, action)
<1> DEFINE all == [i \in DOMAIN seen |-> PicturedAs(seen, i, phrase, action)]
           I == {i \in DOMAIN seen : all[i].raw >= 4800 /\ (seen[i].text \union {seen[i].role}) \intersect phrase # {}}
<1>1. I \subseteq DOMAIN seen /\ DOMAIN seen = 1..Len(seen) /\ Len(seen) \in Nat
  OBVIOUS
<1>2. ps = [k \in DOMAIN InOrder(seen, I) |-> all[InOrder(seen, I)[k]]]
  BY Zenon DEF Pictured
<1>3. \A i \in DOMAIN seen : all[i] = PicturedAs(seen, i, phrase, action)
  OBVIOUS
<1> HIDE DEF I, all
<1>4. /\ I \subseteq Nat /\ IsFiniteSet(I) /\ Cardinality(I) \in Nat
      /\ InOrder(seen, I) = [n \in 1..Cardinality(I) |-> Place(I, n)]
  BY <1>1, InOrderIs
<1>5. \A n \in 1..Cardinality(I) : Place(I, n) \in I
  BY <1>4, PlacesAre
<1>6. ps = [k \in 1..Cardinality(I) |-> all[Place(I, k)]]
  BY <1>2, <1>4
<1>7. Listing(ps)
  BY <1>4, <1>6 DEF Listing
<1>8. \A k \in DOMAIN ps : Place(I, k) \in DOMAIN seen /\ ps[k] = PicturedAs(seen, Place(I, k), phrase, action)
  BY <1>1, <1>3, <1>5, <1>6
<1>9. QED
  BY <1>7, <1>8

Gestures == {"type", "tap", "click"}

LEMMA RoleFitIs ==
    ASSUME NEW action \in Gestures, NEW role
    PROVE  /\ R!RoleFit(action, role) \in Int
           /\ action \in {"tap", "click"} => R!RoleFit(action, role) >= 0 /\ R!RoleFit(action, R!NoRole) = 0
<1>1. CASE action = "type"
  <2>1. R!RoleFit(action, role) = R!TypeFit(role)
    BY <1>1 DEF R!RoleFit
  <2>2. R!TypeFit(role) \in {10000, 7000, 0}
    BY DEF R!TypeFit
  <2>3. QED
    BY <1>1, <2>1, <2>2
<1>2. CASE action \in {"tap", "click"}
  <2>1. \A r : R!RoleFit(action, r) = R!ClickFit(r)
    BY <1>2 DEF R!RoleFit
  <2>2. R!ClickFit(role) \in {10000, 8000, 7000, 0, 5000}
    BY DEF R!ClickFit
  <2>3. R!ClickFit(R!NoRole) = 0
    BY DEF R!ClickFit, R!NoRole
  <2>4. QED
    BY <1>2, <2>1, <2>2, <2>3
<1>3. QED
  BY <1>1, <1>2 DEF Gestures

\* Of candidates that count and reach the threshold, the best reaches it.
LEMMA BestReaches ==
    ASSUME NEW cs, Listing(cs), \A i \in DOMAIN cs : Counted(cs[i]), NEW action \in Gestures, cs # <<>>,
           NEW x, x = R!FirstOf(cs, action, DOMAIN cs)
    PROVE  /\ x \in DOMAIN cs /\ \A j \in DOMAIN cs : R!Score(cs[x]) >= R!Score(cs[j])
           /\ \A j \in DOMAIN cs \ {x} : \E y : /\ y = R!FirstOf(cs, action, DOMAIN cs \ {x}) /\ y \in DOMAIN cs \ {x}
                                                /\ R!Score(cs[y]) >= R!Score(cs[j])
           /\ \A least \in Int : R!Reaches(cs, least) => R!Score(cs[x]) >= least
<1>1. Len(cs) \in Nat /\ DOMAIN cs = 1..Len(cs) /\ cs \in Seq(Range(cs))
  BY ListingIs
<1>2. DOMAIN cs # {}
  BY <1>1
<1>3. IsFiniteSet(DOMAIN cs) /\ IsFiniteSet(DOMAIN cs \ {x})
  <2>1. IsFiniteSet(1..Len(cs))
    BY <1>1, FS_Interval
  <2>2. DOMAIN cs \ {x} \in SUBSET DOMAIN cs
    OBVIOUS
  <2>3. QED
    BY <1>1, <2>1, <2>2, FS_Subset
<1>4. \A i \in DOMAIN cs : i \in Nat /\ R!Score(cs[i]) \in Int /\ R!RoleFit(action, cs[i].role) \in Int
  BY <1>1, RoleFitIs DEF Counted
<1>5. x \in DOMAIN cs /\ \A j \in DOMAIN cs : R!Score(cs[x]) >= R!Score(cs[j])
  BY <1>2, <1>3, <1>4, FirstIs
<1>6. ASSUME NEW j \in DOMAIN cs \ {x}
      PROVE  \E y : /\ y = R!FirstOf(cs, action, DOMAIN cs \ {x}) /\ y \in DOMAIN cs \ {x}
                    /\ R!Score(cs[y]) >= R!Score(cs[j])
  <2> DEFINE I == DOMAIN cs \ {x}
  <2>1. I \subseteq Nat /\ I # {} /\ IsFiniteSet(I)
        /\ \A i \in I : R!Score(cs[i]) \in Int /\ R!RoleFit(action, cs[i].role) \in Int
    BY <1>3, <1>4, <1>6
  <2>2. j \in I
    BY <1>6
  <2> HIDE DEF I
  <2>3. R!FirstOf(cs, action, I) \in I /\ R!Score(cs[R!FirstOf(cs, action, I)]) >= R!Score(cs[j])
    BY <2>1, <2>2, FirstIs
  <2>4. QED
    BY <2>3 DEF I
<1>7. ASSUME NEW least \in Int, R!Reaches(cs, least) PROVE R!Score(cs[x]) >= least
  <2> DEFINE h == [i \in DOMAIN cs |-> R!Score(cs[i])]
             S == {R!Score(cs[i]) : i \in DOMAIN cs}
  <2>1. Max(S) >= least
    BY <1>7, RanksAlike DEF R!Reaches, R!BestScore
  <2>2. IsFiniteSet(S)
    <3>1. h \in Surjection(DOMAIN cs, S)
      <4>1. h \in [DOMAIN cs -> S] /\ \A v \in S : \E i \in DOMAIN cs : h[i] = v
        OBVIOUS
      <4> HIDE DEF h, S
      <4>2. QED
        BY <4>1 DEF Surjection
    <3> HIDE DEF h, S
    <3>2. QED
      BY <1>3, <3>1, FS_Surjection
  <2>3. S \subseteq Int /\ S # {}
    BY <1>2, <1>4
  <2>4. Max(S) \in S
    <3> HIDE DEF S
    <3>1. QED
      BY <2>2, <2>3, MaxIs
  <2>5. PICK j \in DOMAIN cs : Max(S) = R!Score(cs[j])
    BY <2>4
  <2> HIDE DEF S
  <2>6. QED
    BY <1>4, <1>5, <1>7, <2>1, <2>5
<1>8. QED
  BY <1>5, <1>6, <1>7

\* What grounding finds fits the gesture: text goes into a field, and a tap where an
\* enabled control, and no disabled one of its kind, reads like the phrase takes a
\* node that does.
Bears(nodes, phrase, kind, off) == \E n \in Range(nodes) : n.kind = kind /\ n.off = off /\ n.text = phrase
Controls == {"button", "label"}
Exact(nodes, phrase) ==
    \E kind \in Controls : Bears(nodes, phrase, kind, FALSE) /\ ~Bears(nodes, phrase, kind, TRUE)

\* The candidates that the engine weighs, and those who win by the exact text.
Weighed(nodes, seen, phrase, action, toolkit, c) ==
    \/ /\ c.ref[1] = "vision"
    \/ \E i \in Hits(nodes, phrase) : c = CandidateOf(nodes[i], phrase, action, toolkit)
AllOfThem(nodes, seen, phrase, action, toolkit) ==
    R!FinalDedupe(Candidates(nodes, phrase, action, toolkit) \o Pictured(seen, phrase, action))
WeighedAll(nodes, seen, phrase, action, toolkit, all) ==
    /\ Listing(all)
    /\ \A k \in DOMAIN all : Counted(all[k]) /\ Weighed(nodes, seen, phrase, action, toolkit, all[k])
    /\ \A i \in Hits(nodes, phrase) : \E k \in DOMAIN all :
          all[k].ref = CandidateOf(nodes[i], phrase, action, toolkit).ref

LEMMA AllAreWeighed ==
    ASSUME NEW nodes \in Seq(Node), NEW seen \in Seq(Sight), NEW phrase \in SUBSET Word, NEW action \in Gestures,
           NEW toolkit, NEW all, all = AllOfThem(nodes, seen, phrase, action, toolkit)
    PROVE  WeighedAll(nodes, seen, phrase, action, toolkit, all)
<1> DEFINE cs == Candidates(nodes, phrase, action, toolkit)
           ps == Pictured(seen, phrase, action)
           both == cs \o ps
<1>1. /\ Listing(cs)
      /\ \A k \in DOMAIN cs : \E i \in Hits(nodes, phrase) : cs[k] = CandidateOf(nodes[i], phrase, action, toolkit)
      /\ \A i \in Hits(nodes, phrase) : \E k \in DOMAIN cs : cs[k] = CandidateOf(nodes[i], phrase, action, toolkit)
  <2>1. action \in Supports
    BY DEF Supports, Gestures
  <2>2. QED
    BY <2>1, CandidatesAre
<1>2. Listing(ps) /\ \A k \in DOMAIN ps : \E i \in DOMAIN seen : ps[k] = PicturedAs(seen, i, phrase, action)
  BY PicturedAre
<1> HIDE DEF cs, ps
<1>3. \A i \in Hits(nodes, phrase) : Counted(CandidateOf(nodes[i], phrase, action, toolkit))
  <2>1. \A i \in Hits(nodes, phrase) : nodes[i] \in Node /\ AttrFor(nodes[i], phrase) # 0
    BY DEF Hits
  <2>2. QED
    BY <2>1, CandidateIs
<1>4. \A k \in DOMAIN cs : Counted(cs[k]) /\ Weighed(nodes, seen, phrase, action, toolkit, cs[k])
  <2>1. SUFFICES ASSUME NEW k \in DOMAIN cs PROVE Counted(cs[k]) /\ Weighed(nodes, seen, phrase, action, toolkit, cs[k])
    OBVIOUS
  <2>2. PICK i \in Hits(nodes, phrase) : cs[k] = CandidateOf(nodes[i], phrase, action, toolkit)
    BY <1>1
  <2>3. QED
    BY <1>3, <2>2 DEF Weighed
<1>5. \A k \in DOMAIN ps : Counted(ps[k]) /\ Weighed(nodes, seen, phrase, action, toolkit, ps[k])
  <2>1. SUFFICES ASSUME NEW k \in DOMAIN ps PROVE Counted(ps[k]) /\ Weighed(nodes, seen, phrase, action, toolkit, ps[k])
    OBVIOUS
  <2>2. PICK i \in DOMAIN seen : ps[k] = PicturedAs(seen, i, phrase, action)
    BY <1>2
  <2>3. Counted(ps[k]) /\ ps[k].ref[1] = "vision"
    BY <2>2, PictureIs
  <2>4. QED
    BY <2>3 DEF Weighed
<1>6. /\ Listing(both)
      /\ \A k \in DOMAIN both : (\E i \in DOMAIN cs : both[k] = cs[i]) \/ (\E i \in DOMAIN ps : both[k] = ps[i])
      /\ \A i \in DOMAIN cs : i \in DOMAIN both /\ both[i] = cs[i]
  BY <1>1, <1>2, JoinedIs
<1>7. all = R!FinalDedupe(both)
  BY Zenon DEF AllOfThem, cs, ps
<1> HIDE DEF both
<1>8. \A k \in DOMAIN both : Counted(both[k]) /\ Weighed(nodes, seen, phrase, action, toolkit, both[k])
  BY <1>4, <1>5, <1>6
<1>9. /\ Listing(all)
      /\ \A k \in DOMAIN all : \E i \in DOMAIN both : all[k] = both[i]
      /\ \A i \in DOMAIN both : \E k \in DOMAIN all : all[k].ref = both[i].ref
  <2>1. \A i \in DOMAIN both : both[i].raw \in Int
    BY <1>8 DEF Counted
  <2>2. QED
    BY <1>6, <1>7, <2>1, DedupeIs
<1>10. \A k \in DOMAIN all : Counted(all[k]) /\ Weighed(nodes, seen, phrase, action, toolkit, all[k])
  BY <1>8, <1>9
<1>11. ASSUME NEW i \in Hits(nodes, phrase)
       PROVE  \E k \in DOMAIN all : all[k].ref = CandidateOf(nodes[i], phrase, action, toolkit).ref
  <2>1. PICK p \in DOMAIN cs : cs[p] = CandidateOf(nodes[i], phrase, action, toolkit)
    BY <1>1, <1>11
  <2>2. p \in DOMAIN both /\ both[p] = CandidateOf(nodes[i], phrase, action, toolkit)
    BY <1>6, <2>1
  <2>3. QED
    BY <1>9, <2>2
<1>12. QED
  BY <1>9, <1>10, <1>11 DEF WeighedAll

\* A candidate named by the exact text, where none of its kind is disabled.
ScoresExactly(nodes, phrase, kind, action, toolkit) ==
    \A i \in Hits(nodes, phrase) :
       CandidateOf(nodes[i], phrase, action, toolkit).ref = <<kind, <<"text", phrase>>>>
          => R!Score(CandidateOf(nodes[i], phrase, action, toolkit)) = 7460

LEMMA ExactScores ==
    ASSUME NEW nodes \in Seq(Node), NEW phrase \in SUBSET Word, phrase # {}, NEW action \in Gestures, action # "type",
           NEW toolkit, NEW kind \in Controls, ~Bears(nodes, phrase, kind, TRUE)
    PROVE  ScoresExactly(nodes, phrase, kind, action, toolkit)
<1> SUFFICES ASSUME NEW i \in Hits(nodes, phrase),
                    CandidateOf(nodes[i], phrase, action, toolkit).ref = <<kind, <<"text", phrase>>>>
             PROVE  R!Score(CandidateOf(nodes[i], phrase, action, toolkit)) = 7460
  BY DEF ScoresExactly
<1> DEFINE n == nodes[i]
           k == AttrFor(n, phrase)
           a == Attrs(n)[k]
<1>1. n \in Node /\ n \in Range(nodes) /\ k # 0
  BY DEF Hits, Range
<1> HIDE DEF n
<1>2. CandidateOf(n, phrase, action, toolkit).ref = <<n.kind, <<a.name, a.words>>>>
  BY <1>1, CandidateIs
<1>3. n.kind = kind /\ a.name = "text" /\ a.words = phrase
  <2> HIDE DEF a
  <2>1. <<n.kind, <<a.name, a.words>>>> = <<kind, <<"text", phrase>>>>
    BY <1>2 DEF n
  <2>2. QED
    BY <2>1
<1>4. k = 1 /\ k \in 1..4
  <2>1. k \in 1..4
    BY <1>1, AttrIs
  <2> HIDE DEF k
  <2>2. Attrs(n)[k].name = "text"
    BY <1>3
  <2>3. QED
    BY <2>1, <2>2, OnlyTextIsText
<1>5. n.text = phrase
  <2>1. Attrs(n)[1].words = n.text
    BY DEF Attrs
  <2>2. QED
    BY <1>3, <1>4, <2>1
<1>6. n.off = FALSE
  <2>1. n.off \in BOOLEAN
    BY <1>1 DEF Node
  <2>2. QED
    BY <1>1, <1>3, <1>5, <2>1 DEF Bears
<1>7. QED
  BY <1>1, <1>3, <1>5, <1>6, CandidateIs DEF n, Gestures, Controls

Answers(nodes, phrase, action, ref) ==
    /\ action = "type" => ref.kind = "field"
    /\ action \in {"tap", "click"} /\ Exact(nodes, phrase) => ref.words = phrase

LEMMA GroundedFits ==
    ASSUME NEW nodes \in Seq(Node), NEW seen \in Seq(Sight), NEW phrase \in SUBSET Word, phrase # {},
           NEW action \in Gestures, NEW toolkit,
           NEW g, g = Grounded(nodes, seen, phrase, action, toolkit), g.kind = "resolved", g.ref.kind # "vision"
    PROVE  Answers(nodes, phrase, action, g.ref)
<1> DEFINE ps == Pictured(seen, phrase, action)
           all == IF R!Reaches(ps, R!ReviewThreshold) THEN ps ELSE AllOfThem(nodes, seen, phrase, action, toolkit)
           x == R!FirstOf(all, action, DOMAIN all)
           best == R!BestForAction(all, action).ref
<1>1. /\ all # <<>> /\ R!Reaches(all, R!ReviewThreshold) /\ ~R!Ambiguous(all, action)
      /\ g = Outcome("resolved", RefTo(best[1], best[2][1], best[2][2]))
  <2>1. g = IF all = <<>> THEN Outcome("not_found", NoRef)
            ELSE IF ~R!Reaches(all, R!ReviewThreshold) THEN Outcome("low_confidence", NoRef)
            ELSE IF R!Ambiguous(all, action) THEN Outcome("ambiguous", NoRef)
            ELSE Outcome("resolved", RefTo(best[1], best[2][1], best[2][2]))
    BY Zenon DEF Grounded, AllOfThem
  <2> HIDE DEF all, best
  <2>2. \A kind, ref : Outcome(kind, ref).kind = kind
    BY DEF Outcome
  <2>3. QED
    BY <2>1, <2>2
<1>2. best = all[x].ref
  <2> HIDE DEF all
  <2>1. R!BestForAction(all, action) = R!Ranked(all[x])
    BY Zenon DEF R!BestForAction
  <2>2. \A c : R!Ranked(c).ref = c.ref
    BY DEF R!Ranked
  <2>3. QED
    BY <2>1, <2>2
<1>3. g.ref.kind = best[1] /\ g.ref.words = best[2][2]
  <2> HIDE DEF best
  <2>1. QED
    BY <1>1 DEF Outcome, RefTo
<1>4. Listing(ps) /\ \A k \in DOMAIN ps : Counted(ps[k]) /\ ps[k].ref[1] = "vision"
  <2>1. Listing(ps) /\ \A k \in DOMAIN ps : \E i \in DOMAIN seen : ps[k] = PicturedAs(seen, i, phrase, action)
    BY PicturedAre
  <2> HIDE DEF ps
  <2>2. QED
    BY <2>1, PictureIs
<1>5. ~R!Reaches(ps, R!ReviewThreshold)
  <2>1. SUFFICES ASSUME R!Reaches(ps, R!ReviewThreshold) PROVE FALSE
    OBVIOUS
  <2>2. all = ps
    BY <2>1
  <2> HIDE DEF all, ps, best
  <2>3. x \in DOMAIN ps
    BY <1>1, <1>4, <2>2, BestReaches
  <2> HIDE DEF x
  <2>4. QED
    BY <1>2, <1>3, <1>4, <2>2, <2>3
<1>6. all = AllOfThem(nodes, seen, phrase, action, toolkit)
  BY <1>5
<1> HIDE DEF ps, all, best, x
<1>7. /\ Listing(all)
      /\ \A k \in DOMAIN all : Counted(all[k]) /\ Weighed(nodes, seen, phrase, action, toolkit, all[k])
      /\ \A i \in Hits(nodes, phrase) : \E k \in DOMAIN all :
            all[k].ref = CandidateOf(nodes[i], phrase, action, toolkit).ref
  <2>1. WeighedAll(nodes, seen, phrase, action, toolkit, all)
    BY <1>6, AllAreWeighed, Zenon
  <2>2. QED
    BY <2>1 DEF WeighedAll
<1>8. /\ x \in DOMAIN all /\ \A j \in DOMAIN all : R!Score(all[x]) >= R!Score(all[j])
      /\ \A j \in DOMAIN all \ {x} : \E y : /\ y = R!FirstOf(all, action, DOMAIN all \ {x}) /\ y \in DOMAIN all \ {x}
                                            /\ R!Score(all[y]) >= R!Score(all[j])
      /\ R!Score(all[x]) >= R!ReviewThreshold
  <2>1. R!ReviewThreshold \in Int
    BY DEF R!ReviewThreshold
  <2>2. QED
    BY <1>1, <1>7, <2>1, BestReaches DEF x
<1>9. PICK i \in Hits(nodes, phrase) : all[x] = CandidateOf(nodes[i], phrase, action, toolkit)
  BY <1>2, <1>3, <1>7, <1>8 DEF Weighed
<1>10. nodes[i] \in Node /\ AttrFor(nodes[i], phrase) # 0
  BY DEF Hits
<1>11. /\ Counted(all[x]) /\ R!Score(all[x]) <= 7460 /\ all[x].ref[1] = nodes[i].kind /\ all[x].role = R!NoRole
       /\ action = "type" /\ nodes[i].kind # "field" => R!Score(all[x]) < 7000
  BY <1>9, <1>10, CandidateIs
<1>12. action = "type" => g.ref.kind = "field"
  <2>1. R!Score(all[x]) \in Int /\ R!Score(all[x]) >= 7000
    BY <1>8, <1>11 DEF Counted, R!ReviewThreshold
  <2>2. QED
    BY <1>2, <1>3, <1>11, <2>1
<1>13. ASSUME action \in {"tap", "click"}, Exact(nodes, phrase)
       PROVE  g.ref.words = phrase
  <2>1. PICK kind \in Controls : Bears(nodes, phrase, kind, FALSE) /\ ~Bears(nodes, phrase, kind, TRUE)
    BY <1>13 DEF Exact
  <2>2. PICK e \in DOMAIN nodes : nodes[e].kind = kind /\ nodes[e].off = FALSE /\ nodes[e].text = phrase
    BY <2>1 DEF Range, Bears
  <2>3. nodes[e] \in Node
    OBVIOUS
  <2>4. AttrFor(nodes[e], phrase) # 0
    <3>1. Attrs(nodes[e])[1].words = phrase
      BY <2>2 DEF Attrs
    <3>2. Alike(phrase, Attrs(nodes[e])[1].words)
      BY <3>1 DEF Alike
    <3>3. QED
      BY <3>2, AttrIs
  <2>5. e \in Hits(nodes, phrase)
    BY <2>4 DEF Hits
  <2>6. CandidateOf(nodes[e], phrase, action, toolkit).ref = <<kind, <<"text", phrase>>>>
    BY <2>2, <2>3, <2>4, CandidateIs
  <2>7. PICK k \in DOMAIN all : all[k].ref = <<kind, <<"text", phrase>>>>
    BY <1>7, <2>5, <2>6
  <2>8. all[k].ref[1] # "vision" /\ all[k].ref[2][2] = phrase
    BY <2>7 DEF Controls
  <2>9. PICK j \in Hits(nodes, phrase) : all[k] = CandidateOf(nodes[j], phrase, action, toolkit)
    <3>1. Weighed(nodes, seen, phrase, action, toolkit, all[k])
      BY <1>7
    <3>2. QED
      BY <2>8, <3>1, Zenon DEF Weighed
  <2>10. R!Score(all[k]) = 7460
    <3>1. action # "type"
      BY <1>13
    <3>2. ScoresExactly(nodes, phrase, kind, action, toolkit)
      BY <2>1, <3>1, ExactScores, Zenon
    <3>3. QED
      BY <2>7, <2>9, <3>2 DEF ScoresExactly
  <2>11. CASE k = x
    BY <1>2, <1>3, <2>8, <2>11
  <2>12. CASE k # x
    <3>1. PICK y : /\ y = R!FirstOf(all, action, DOMAIN all \ {x}) /\ y \in DOMAIN all \ {x}
                   /\ R!Score(all[y]) >= R!Score(all[k])
      BY <1>8, <2>12
    <3>2. Len(all) \in Nat /\ DOMAIN all = 1..Len(all)
      BY <1>7, ListingIs
    <3>3. Len(all) >= 2
      BY <1>8, <2>12, <3>2
    <3>4. R!Score(all[x]) - R!Score(all[y]) < R!AmbiguousGap
      <4>1. R!Score(all[x]) \in Int /\ R!Score(all[y]) \in Int
        BY <1>7, <1>8, <3>1 DEF Counted
      <4>2. QED
        BY <1>11, <2>10, <3>1, <4>1 DEF R!AmbiguousGap
    <3>5. R!RoleFit(action, all[x].role) <= R!RoleFit(action, all[y].role)
      BY <1>11, <1>13, RoleFitIs
    <3>6. R!Ambiguous(all, action)
      <4>1. action \notin {"verify", "extract"}
        BY <1>13
      <4>2. QED
        BY <3>1, <3>3, <3>4, <3>5, <4>1 DEF R!Ambiguous, x
    <3>7. QED
      BY <1>1, <3>6
  <2>13. QED
    BY <2>11, <2>12
<1>14. QED
  BY <1>12, <1>13 DEF Answers
-----------------------------------------------------------------------------
(***************************************************************************)
(* The field of a label.  What is most like the phrase among some places is *)
(* one of them, and the nearest field is a field.                          *)
(***************************************************************************)
LEMMA LikenessIs ==
    ASSUME NEW n \in Node, NEW key \in SUBSET Word
    PROVE  Likeness(n, key) \in Int
<1> DEFINE q(k) == Quality(key, Attrs(n)[k].words)
           four == ((({0} \union {q(1)}) \union {q(2)}) \union {q(3)}) \union {q(4)}
           alike == {b \in Range(Attrs(n)) : Alike(key, b.words)}
           S == {0} \union {Quality(key, a.words) : a \in alike}
<1>1. Likeness(n, key) = Max(S)
  BY DEF Likeness
<1>2. \A a \in Range(Attrs(n)) : \E k \in 1..4 : a = Attrs(n)[k]
  BY DEF Attrs, Range
<1>3. S \in SUBSET four
  <2>1. SUFFICES ASSUME NEW a \in alike PROVE Quality(key, a.words) \in four
    OBVIOUS
  <2>2. PICK k \in 1..4 : a = Attrs(n)[k]
    BY <1>2
  <2>3. Quality(key, a.words) = q(k) /\ (k = 1 \/ k = 2 \/ k = 3 \/ k = 4)
    BY <2>2
  <2> HIDE DEF q
  <2>4. QED
    BY <2>3
<1>4. IsFiniteSet(four)
  <2> HIDE DEF q
  <2> DEFINE one == {0} \union {q(1)}
             two == one \union {q(2)}
             three == two \union {q(3)}
  <2>1. IsFiniteSet({0})
    BY FS_Singleton
  <2>2. IsFiniteSet(one)
    BY <2>1, FS_AddElement
  <2> HIDE DEF one
  <2>3. IsFiniteSet(two)
    BY <2>2, FS_AddElement
  <2> HIDE DEF two
  <2>4. IsFiniteSet(three)
    BY <2>3, FS_AddElement
  <2> HIDE DEF three
  <2>5. IsFiniteSet(three \union {q(4)})
    BY <2>4, FS_AddElement
  <2>6. QED
    BY <2>5 DEF one, two, three
<1>5. S \subseteq Int /\ S # {}
  <2>1. ASSUME NEW a \in alike PROVE Quality(key, a.words) \in Int
    <3>1. PICK k \in 1..4 : a = Attrs(n)[k]
      BY <1>2
    <3>2. a.words = n.text \/ a.words = n.desc \/ a.words = n.rid \/ a.words = n.value
      BY <3>1, AttrWords
    <3>3. n.text \in SUBSET Word /\ n.desc \in SUBSET Word /\ n.rid \in SUBSET Word /\ n.value \in SUBSET Word
      BY DEF Node
    <3>4. a.words \in SUBSET Word /\ a.words # {}
      BY <3>2, <3>3 DEF Alike
    <3>5. QED
      BY <3>4, QualityIs
  <2> HIDE DEF alike
  <2>2. QED
    BY <2>1
<1> HIDE DEF S, four
<1>6. IsFiniteSet(S)
  BY <1>3, <1>4, FS_Subset
<1>7. QED
  BY <1>1, <1>5, <1>6, MaxIs

LEMMA MostLikeIs ==
    ASSUME NEW nodes \in Seq(Node), NEW I, I \subseteq DOMAIN nodes, NEW key \in SUBSET Word
    PROVE  MostLike(nodes, I, key) = 0 \/ MostLike(nodes, I, key) \in I
<1> DEFINE like == {i \in I : Likeness(nodes[i], key) > 0}
           h == [i \in like |-> Likeness(nodes[i], key)]
           best == {i \in like : \A j \in like : Likeness(nodes[j], key) <= Likeness(nodes[i], key)}
<1>1. MostLike(nodes, I, key) = IF like = {} THEN 0 ELSE Min(best)
  BY DEF MostLike
<1>2. ASSUME like # {} PROVE Min(best) \in I
  <2>1. like \in SUBSET (1..Len(nodes)) /\ Len(nodes) \in Nat /\ best \subseteq like /\ like \subseteq I
    OBVIOUS
  <2>2. \A i \in like : Likeness(nodes[i], key) \in Int
    BY LikenessIs
  <2>3. IsFiniteSet(like)
    <3>1. IsFiniteSet(1..Len(nodes))
      BY <2>1, FS_Interval
    <3> HIDE DEF like
    <3>2. QED
      BY <2>1, <3>1, FS_Subset
  <2>4. h \in [like -> Int]
    BY <2>2
  <2>5. PICK a \in like : Topmost(h, like, a)
    <3> HIDE DEF h, like
    <3>1. QED
      BY <1>2, <2>3, <2>4, SomeTopmost
  <2>6. a \in best
    <3>1. \A j \in like : Likeness(nodes[a], key) >= Likeness(nodes[j], key)
      BY <2>5 DEF Topmost
    <3>2. QED
      BY <2>2, <3>1
  <2> HIDE DEF best, like
  <2>7. Min(best) \in best
    BY <2>1, <2>6, MinIs
  <2>8. QED
    BY <2>1, <2>7
<1>3. QED
  BY <1>1, <1>2

LEMMA HeightIs ==
    ASSUME NEW n \in Node
    PROVE  n.y \in Nat
<1> DEFINE N == Nat
<1>1. n \in [kind : {"button", "label", "field", "view", "group", "image", "list", "canvas"},
             text : SUBSET Word, desc : SUBSET Word, rid : SUBSET Word, value : SUBSET Word,
             tap : BOOLEAN, off : BOOLEAN, gone : BOOLEAN, scrolls : BOOLEAN, y : N, up : N]
  BY DEF Node
<1> HIDE DEF N
<1>2. n.y \in N
  BY <1>1
<1>3. QED
  BY <1>2 DEF N

LEMMA ClosestBelowIs ==
    ASSUME NEW nodes \in Seq(Node), NEW label \in DOMAIN nodes, NEW I, I \subseteq DOMAIN nodes, I # {}
    PROVE  ClosestBelow(nodes, label, I) \in I
<1> DEFINE D(i) == Distance(nodes, label, i)
           far == [i \in I |-> -(D(i)[1])]
           T == {i \in I : \A j \in I : ~Nearer(D(j), D(i))}
<1>1. \A i \in I : D(i)[1] \in Int /\ D(i)[2] \in Int
  <2>1. SUFFICES ASSUME NEW i \in I PROVE D(i)[1] \in Int /\ D(i)[2] \in Int
    OBVIOUS
  <2>2. nodes[i].y \in Nat /\ nodes[label].y \in Nat
    BY HeightIs
  <2>3. nodes[i].y - nodes[label].y \in Int /\ -(nodes[i].y - nodes[label].y) \in Int
    BY <2>2
  <2> DEFINE d == nodes[i].y - nodes[label].y
  <2>4. D(i) = <<0, d>> \/ D(i) = <<2, -d>>
    BY Zenon DEF Distance
  <2> HIDE DEF D
  <2>5. CASE D(i) = <<0, d>>
    BY <2>3, <2>5
  <2>6. CASE D(i) = <<2, -d>>
    BY <2>3, <2>6
  <2>7. QED
    BY <2>4, <2>5, <2>6
<1>2. I \in SUBSET (1..Len(nodes)) /\ Len(nodes) \in Nat /\ I \subseteq Nat
  OBVIOUS
<1>3. IsFiniteSet(I)
  <2>1. IsFiniteSet(1..Len(nodes))
    BY <1>2, FS_Interval
  <2>2. QED
    BY <1>2, <2>1, FS_Subset
<1>4. ClosestBelow(nodes, label, I) = Min(T)
  BY DEF ClosestBelow
<1> HIDE DEF D
<1>5. PICK a \in I : Topmost(far, I, a)
  <2>1. far \in [I -> Int]
    BY <1>1
  <2> HIDE DEF far
  <2>2. QED
    BY <1>3, <2>1, SomeTopmost
<1>6. \A j \in I : D(a)[1] <= D(j)[1]
  <2>1. \A j \in I : -(D(a)[1]) >= -(D(j)[1])
    BY <1>5 DEF Topmost
  <2>2. QED
    BY <1>1, <2>1
<1> DEFINE A == {i \in I : D(i)[1] = D(a)[1]}
           off == [i \in A |-> -(D(i)[2])]
<1>7. PICK b \in A : Topmost(off, A, b)
  <2>1. A \in SUBSET I /\ A # {} /\ off \in [A -> Int]
    BY <1>1
  <2> HIDE DEF A, off
  <2>2. IsFiniteSet(A)
    BY <1>3, <2>1, FS_Subset
  <2>3. QED
    BY <2>1, <2>2, SomeTopmost
<1>8. \A j \in A : D(b)[2] <= D(j)[2]
  <2>1. \A j \in A : -(D(b)[2]) >= -(D(j)[2])
    BY <1>7 DEF Topmost
  <2>2. QED
    BY <1>1, <2>1
<1>9. b \in T
  <2>1. SUFFICES ASSUME NEW j \in I PROVE ~Nearer(D(j), D(b))
    OBVIOUS
  <2>2. D(b)[1] = D(a)[1] /\ D(b)[1] <= D(j)[1] /\ (D(j)[1] = D(b)[1] => D(b)[2] <= D(j)[2])
    BY <1>6, <1>8
  <2>3. D(j)[1] \in Int /\ D(j)[2] \in Int /\ D(b)[1] \in Int /\ D(b)[2] \in Int
    BY <1>1
  <2> HIDE DEF A
  <2>4. QED
    BY <2>2, <2>3 DEF Nearer
<1>10. T \subseteq I /\ T \subseteq Nat
  BY <1>2
<1> HIDE DEF T
<1>11. Min(T) \in T
  BY <1>9, <1>10, MinIs
<1>12. QED
  BY <1>4, <1>10, <1>11

LEMMA NearestFieldIs ==
    ASSUME NEW nodes \in Seq(Node), NEW label \in DOMAIN nodes
    PROVE  NearestField(nodes, label) = 0 \/ NearestField(nodes, label) \in Fields(nodes)
<1> DEFINE climb[k \in 0..3] == IF k = 0 THEN label ELSE IF climb[k-1] = 0 THEN 0 ELSE nodes[climb[k-1]].up
           Within(k) == {i \in Fields(nodes) : climb[k] \in Line(nodes, i)}
           Fits(k) == climb[k] # 0 /\ Within(k) # {}
           four == <<0, 1, 2, 3>>
           F == {k \in 1..Len(four) : Fits(four[k])}
           first == IF F # {} THEN Min(F) ELSE 0
           I == IF first = 0 THEN Fields(nodes) ELSE Within(first - 1)
<1>1. NearestField(nodes, label) = IF Fields(nodes) = {} THEN 0 ELSE ClosestBelow(nodes, label, I)
  BY Zenon DEF NearestField, SelectInSeq
<1> HIDE DEF climb
<1>2. \A k : Within(k) \subseteq Fields(nodes)
  OBVIOUS
<1> HIDE DEF Within
<1>3. F \subseteq Nat /\ \A k \in F : Within(k - 1) # {}
  <2>1. Len(four) = 4 /\ four[1] = 0 /\ four[2] = 1 /\ four[3] = 2 /\ four[4] = 3
    OBVIOUS
  <2> HIDE DEF four
  <2>2. \A k \in 1..4 : k = 1 \/ k = 2 \/ k = 3 \/ k = 4
    OBVIOUS
  <2>3. QED
    BY <2>1, <2>2
<1> HIDE DEF F
<1>4. F # {} => Min(F) \in F
  BY <1>3, MinIs
<1>5. Fields(nodes) # {} => I \subseteq Fields(nodes) /\ I # {}
  BY <1>2, <1>3, <1>4
<1> HIDE DEF I
<1>6. Fields(nodes) \subseteq DOMAIN nodes
  BY DEF Fields
<1>7. QED
  BY <1>1, <1>5, <1>6, ClosestBelowIs

LEMMA FieldForIs ==
    ASSUME NEW nodes \in Seq(Node), NEW key \in SUBSET Word
    PROVE  FieldFor(nodes, key) = NoRef \/ FieldFor(nodes, key).kind = "field"
<1> DEFINE F == Fields(nodes)
           own == MostLike(nodes, F, key)
           label == MostLike(nodes, DOMAIN nodes \ F, key)
           Good(r) == r = NoRef \/ r.kind = "field"
<1>1. F \subseteq DOMAIN nodes /\ \A i \in F : nodes[i].kind = "field"
  BY DEF Fields
<1> HIDE DEF F
<1>2. \A i \in F : Good(BestRef(nodes[i]))
  <2>1. SUFFICES ASSUME NEW i \in F PROVE Good(BestRef(nodes[i]))
    OBVIOUS
  <2>2. \A attr, words : RefTo(nodes[i].kind, attr, words).kind = "field"
    BY <1>1 DEF RefTo
  <2>3. QED
    BY <2>2, Zenon DEF BestRef
<1>3. own # 0 => own \in F
  BY <1>1, MostLikeIs
<1>4. label # 0 => label \in DOMAIN nodes
  <2>1. DOMAIN nodes \ F \subseteq DOMAIN nodes
    OBVIOUS
  <2>2. QED
    BY <2>1, MostLikeIs
<1>5. label # 0 /\ NearestField(nodes, label) # 0 => NearestField(nodes, label) \in F
  BY <1>4, NearestFieldIs DEF F
<1> DEFINE Own(least) == own # 0 /\ Likeness(nodes[own], key) >= least /\ BestRef(nodes[own]) # NoRef
<1>6. FieldFor(nodes, key) =
        IF Own(9000) THEN BestRef(nodes[own])
        ELSE IF label # 0 /\ Likeness(nodes[label], key) >= 6000
          THEN IF NearestField(nodes, label) = 0 THEN NoRef ELSE BestRef(nodes[NearestField(nodes, label)])
        ELSE IF Own(6000) THEN BestRef(nodes[own]) ELSE NoRef
  BY Zenon DEF FieldFor, F
<1> HIDE DEF own, label
<1>7. Good(FieldFor(nodes, key))
  <2> HIDE DEF Good
  <2>1. Good(NoRef)
    BY DEF Good
  <2>2. QED
    BY <1>2, <1>3, <1>5, <1>6, <2>1
<1>8. QED
  BY <1>7
-----------------------------------------------------------------------------
(***************************************************************************)
(* What a call is aimed at.  Before there is a target the call has none;    *)
(* grounding and the field of a label give one that fits, and what was done *)
(* was done to the target of the moment.                                   *)
(***************************************************************************)
Early == {"plan", "settle", "alert", "collect", "merge", "ground", "swipe"}

\* A call has the fields this is about, and they hold what the screens do.
Laid(c) ==
    /\ {"pc", "step", "taken", "nodes", "seen", "ref", "by", "did"} \subseteq DOMAIN c
    /\ c.nodes \in Seq(Node) /\ c.taken.nodes \in Seq(Node) /\ c.seen \in Seq(Sight)
    /\ StepFits(c.step)

\* A target that grounding, or the field of a label, gave.
TargetFits(c, by, ref) ==
    /\ by \in {"grounding", "field"} /\ c.step.action = "type" => ref.kind = "field"
    /\ by = "grounding" /\ c.step.action \in {"tap", "click"} /\ Exact(c.nodes, c.step.phrase)
          => ref.words = c.step.phrase
DoneFits(c) ==
    \A i \in DOMAIN c.did :
        c.did[i].by \in {"grounding", "field"} /\ c.step.action = "type" => c.did[i].ref.kind = "field"

AimInv(c) ==
    /\ Laid(c) /\ TargetFits(c, c.by, c.ref) /\ DoneFits(c)
    /\ c.pc \in Early => c.by = "none"

\* The app has the screen that is shown, and the calls to come are steps.
Running ==
    /\ AppFits(script) /\ shown \in DOMAIN script.screens
    /\ \E S : calls \in Seq(S) /\ \A t \in S : StepFits(t)

AInv == AimInv(call) /\ Running

LEMMA AimImpliesFit == AimInv(call) => AimsFit
<1> SUFFICES ASSUME AimInv(call) PROVE AimsFit
  OBVIOUS
<1>1. TypesIntoFields
  BY DEF AimInv, DoneFits, TypesIntoFields, Range
<1>2. \A kind, off : ReadsExactly(kind, off) <=> Bears(call.nodes, call.step.phrase, kind, off)
  BY Zenon DEF ReadsExactly, Bears
<1>3. ExactControlWins
  BY <1>2 DEF AimInv, TargetFits, Exact, Controls, ExactControlWins
<1>4. QED
  BY <1>1, <1>3 DEF AimsFit

\* A call without a target and with nothing done.
Unaimed(c) == Laid(c) /\ c.by = "none" /\ c.did = <<>>

LEMMA UnaimedIs ==
    ASSUME NEW c, Unaimed(c)
    PROVE  AimInv(c)
<1>1. DOMAIN c.did = {}
  BY DEF Unaimed
<1>2. TargetFits(c, c.by, c.ref)
  BY DEF Unaimed, TargetFits
<1>3. QED
  BY <1>1, <1>2 DEF Unaimed, AimInv, DoneFits

\* A call d that goes on from c with what it knows; with the target it has.
GoesOn(c, d) ==
    /\ {"pc", "step", "taken", "nodes", "seen", "ref", "by", "did"} \subseteq DOMAIN d
    /\ d.step = c.step /\ d.nodes = c.nodes /\ d.taken = c.taken /\ d.seen = c.seen
SameAim(c, d) == GoesOn(c, d) /\ d.by = c.by /\ d.ref = c.ref /\ d.did = c.did /\ d.pc \notin Early

LEMMA GoesOnLaid ==
    ASSUME NEW c, Laid(c), NEW d, GoesOn(c, d)
    PROVE  Laid(d)
BY DEF Laid, GoesOn

LEMMA AimedAlike ==
    ASSUME NEW c, AimInv(c), NEW d, SameAim(c, d)
    PROVE  AimInv(d)
<1>1. Laid(d) /\ d.step = c.step /\ d.nodes = c.nodes /\ d.by = c.by /\ d.ref = c.ref /\ d.did = c.did /\ d.pc \notin Early
  BY GoesOnLaid DEF AimInv, SameAim, GoesOn
<1>2. TargetFits(d, d.by, d.ref) /\ DoneFits(d)
  BY <1>1 DEF AimInv, TargetFits, DoneFits
<1>3. QED
  BY <1>1, <1>2 DEF AimInv

\* A call that gets a target.
LEMMA AimedAnew ==
    ASSUME NEW c, AimInv(c), NEW d, GoesOn(c, d), d.did = c.did, d.pc \notin Early, TargetFits(c, d.by, d.ref)
    PROVE  AimInv(d)
<1>1. Laid(d) /\ d.step = c.step /\ d.nodes = c.nodes
  BY GoesOnLaid DEF AimInv, GoesOn
<1>2. TargetFits(d, d.by, d.ref) /\ DoneFits(d)
  BY <1>1 DEF AimInv, TargetFits, DoneFits
<1>3. QED
  BY <1>1, <1>2 DEF AimInv

LEMMA EndedAlike ==
    ASSUME NEW c, AimInv(c), NEW result, NEW value
    PROVE  AimInv(Ended(c, result, value))
<1> DEFINE d == Ended(c, result, value)
<1>1. SameAim(c, d)
  BY DEF AimInv, Laid, SameAim, GoesOn, Ended, Early
<1> HIDE DEF d
<1>2. QED
  BY <1>1, AimedAlike DEF d

LEMMA NewCallUnaimed ==
    ASSUME NEW s, StepFits(s)
    PROVE  Unaimed(NewCall(s))
<1> DEFINE d == NewCall(s)
<1>1. {"pc", "step", "taken", "nodes", "seen", "ref", "by", "did"} \subseteq DOMAIN d
  BY DEF NewCall
<1>2. /\ d.step = s /\ d.taken = Nothing /\ d.nodes = <<>> /\ d.seen = <<>>
      /\ d.by = "none" /\ d.did = <<>>
  BY DEF NewCall
<1>3. Nothing.nodes = <<>>
  BY DEF Nothing
<1>4. \A S : <<>> \in Seq(S)
  OBVIOUS
<1> HIDE DEF d
<1>5. Unaimed(d)
  BY <1>1, <1>2, <1>3, <1>4 DEF Unaimed, Laid
<1>6. QED
  BY <1>5 DEF d

LEMMA AimsInitially == Init => AInv
<1> SUFFICES ASSUME Init PROVE AInv
  OBVIOUS
<1>1. PICK s \in Scripts : script = s /\ shown = s.start /\ calls = Tail(s.calls) /\ call = NewCall(Head(s.calls))
  BY DEF Init
<1>2. AppFits(s) /\ s.calls \in Seq(Range(s.calls)) /\ s.calls # <<>> /\ \A t \in Range(s.calls) : StepFits(t)
  BY ScriptsAssumption
<1>3. Tail(s.calls) \in Seq(Range(s.calls)) /\ Head(s.calls) \in Range(s.calls)
  <2> DEFINE todo == s.calls
             S == Range(s.calls)
  <2>1. todo \in Seq(S) /\ todo # <<>>
    BY <1>2
  <2> HIDE DEF todo, S
  <2>2. Tail(todo) \in Seq(S) /\ Head(todo) \in S
    BY <2>1
  <2>3. QED
    BY <2>2 DEF todo, S
<1>4. AimInv(call)
  BY <1>1, <1>2, <1>3, NewCallUnaimed, UnaimedIs
<1>5. Running
  BY <1>1, <1>2, <1>3 DEF Running, AppFits
<1>6. QED
  BY <1>4, <1>5 DEF AInv

LEMMA ScreensFit ==
    ASSUME Running
    PROVE  Screen.nodes \in Seq(Node) /\ Screen.seen \in Seq(Sight) /\ Reading.nodes \in Seq(Node)
<1>1. ScreenFits(Screen)
  BY DEF Running, AppFits, Screen
<1>2. Screen.nodes \in Seq(Node) /\ Screen.web \in Seq(Node) /\ Screen.seen \in Seq(Sight)
  BY <1>1 DEF ScreenFits
<1>3. Reading.nodes = IF ctx = NativeApp THEN Screen.nodes ELSE Screen.web
  BY DEF Reading
<1>4. QED
  BY <1>2, <1>3

LEMMA RunningStays ==
    ASSUME Running, [Next]_vars
    PROVE  Running'
<1>1. script' = script
  BY DEF Next, Script, Change, Finished, vars, app, Idle, Plan, Settle, HandleAlert, Collect, Merge,
         Ground, Swipe, FallBack, Find, Wait, Clear, Touch, Point, System, Read, Enter, Plain, Ready, Switch,
         Operate, Restore, NextCall
<1>2. shown' \in DOMAIN script.screens
  <2>1. shown' = shown \/ shown' = script.below[shown] \/ shown' \in DOMAIN script.screens
    BY DEF Next, Script, Change, Finished, vars, app, Idle, Plan, Settle, HandleAlert, Collect, Merge,
           Ground, Swipe, FallBack, Find, Wait, Clear, Touch, Point, System, Read, Enter, Plain, Ready, Switch,
           Operate, Restore, NextCall
  <2>2. script.below[shown] \in DOMAIN script.screens
    BY DEF Running, AppFits
  <2>3. QED
    BY <2>1, <2>2 DEF Running
<1>3. \E S : calls' \in Seq(S) /\ \A t \in S : StepFits(t)
  <2>1. calls' = calls \/ (calls' = Tail(calls) /\ calls # <<>>)
    BY DEF Next, Script, Change, Finished, vars, app, Idle, Plan, Settle, HandleAlert, Collect, Merge,
           Ground, Swipe, FallBack, Find, Wait, Clear, Touch, Point, System, Read, Enter, Plain, Ready, Switch,
           Operate, Restore, NextCall
  <2>2. PICK S : calls \in Seq(S) /\ \A t \in S : StepFits(t)
    BY DEF Running
  <2>3. calls' \in Seq(S)
    BY <2>1, <2>2
  <2>4. QED
    BY <2>2, <2>3
<1>4. QED
  BY <1>1, <1>2, <1>3 DEF Running

\* An early call has no target and has done nothing.
LEMMA EarlyIsUnaimed ==
    ASSUME GInv, AInv, call.pc \in Early
    PROVE  Unaimed(call) /\ Told(call)
  BY DEF GInv, GestureInv, NothingYet, AInv, AimInv, Early, Unaimed

\* Readings and the look at the screen.
LEMMA LooksUnaimed ==
    ASSUME GInv, AInv, Plan \/ Settle \/ HandleAlert \/ Collect
    PROVE  AimInv(call')
<1>1. Unaimed(call)
  BY EarlyIsUnaimed DEF Plan, Settle, HandleAlert, Collect, Early
<1>2. Reading.nodes \in Seq(Node) /\ Nothing.nodes \in Seq(Node)
  BY ScreensFit DEF AInv, Nothing
<1>3. ASSUME NEW d, GoesOn([call EXCEPT !.taken = d.taken], d), d.taken \in {call.taken, Reading, Nothing},
             d.by = call.by, d.did = call.did
      PROVE  AimInv(d)
  <2>1. d.step = call.step /\ d.nodes = call.nodes /\ d.seen = call.seen
    BY <1>1, <1>3 DEF GoesOn, Unaimed, Laid
  <2>2. d.taken.nodes \in Seq(Node)
    BY <1>1, <1>2, <1>3 DEF Unaimed, Laid
  <2>3. Unaimed(d)
    BY <1>1, <1>3, <2>1, <2>2 DEF Unaimed, Laid, GoesOn
  <2>4. QED
    BY <2>3, UnaimedIs
<1>4. /\ GoesOn([call EXCEPT !.taken = call'.taken], call') /\ call'.taken \in {call.taken, Reading, Nothing}
      /\ call'.by = call.by /\ call'.did = call.did
  <2>1. {"pc", "step", "taken", "nodes", "seen", "ref", "by", "did"} \subseteq DOMAIN call
    BY <1>1 DEF Unaimed, Laid
  <2>2. CASE Plan
    BY <2>1, <2>2 DEF Plan, GoesOn
  <2>3. CASE Settle
    BY <2>1, <2>3 DEF Settle, GoesOn
  <2>4. CASE HandleAlert
    BY <2>1, <2>4 DEF HandleAlert, GoesOn
  <2>5. CASE Collect
    BY <2>1, <2>5 DEF Collect, GoesOn
  <2>6. QED
    BY <2>2, <2>3, <2>4, <2>5
<1>5. QED
  BY <1>3, <1>4

LEMMA MergeUnaimed ==
    ASSUME GInv, AInv, Merge
    PROVE  AimInv(call')
<1> DEFINE c == [Merged EXCEPT !.canvas = RoutesToVision(Merged.nodes, ToolkitOf(Merged))]
<1>1. Unaimed(call)
  BY EarlyIsUnaimed DEF Merge, Early
<1>2. Unaimed(Merged)
  <2>1. SeenNow \in Seq(Sight)
    BY <1>1, ScreensFit DEF SeenNow, AInv, Unaimed, Laid
  <2> DEFINE nodes == IF call.taken.nodes = <<>> THEN call.nodes ELSE call.taken.nodes
  <2>2. nodes \in Seq(Node)
    BY <1>1 DEF Unaimed, Laid
  <2>3. /\ {"pc", "step", "taken", "nodes", "seen", "ref", "by", "did"} \subseteq DOMAIN Merged
        /\ Merged.step = call.step /\ Merged.taken = call.taken /\ Merged.nodes = nodes /\ Merged.seen = SeenNow
        /\ Merged.by = call.by /\ Merged.did = call.did
    BY <1>1 DEF Merged, Unaimed, Laid
  <2> HIDE DEF nodes
  <2>4. QED
    BY <1>1, <2>1, <2>2, <2>3 DEF Unaimed, Laid
<1>3. Unaimed(c)
  BY <1>2 DEF Unaimed, Laid
<1>4. \A d : Unaimed(d) => \A pc : Unaimed([d EXCEPT !.pc = pc])
  BY DEF Unaimed, Laid
<1>5. \A d, result, value : Unaimed(d) => Unaimed(Ended(d, result, value))
  BY DEF Unaimed, Laid, Ended
<1>6. Unaimed([Merged EXCEPT !.pc = "ground", !.tries = 0, !.prev = Mark])
  BY <1>2 DEF Unaimed, Laid
<1> HIDE DEF c
<1>7. Unaimed(Opened(c))
  <2>1. Unaimed(Answered(c))
    BY <1>3, <1>4, <1>5 DEF Answered
  <2>2. QED
    BY <1>3, <1>4, <1>5, <2>1 DEF Opened
<1>8. Unaimed(call')
  BY <1>1, <1>2, <1>4, <1>6, <1>7 DEF Merge, c
<1>9. QED
  BY <1>8, UnaimedIs

LEMMA SwipeUnaimed ==
    ASSUME GInv, AInv, Swipe
    PROVE  AimInv(call')
<1>1. Unaimed(call)
  BY EarlyIsUnaimed DEF Swipe, Early
<1>2. Unaimed(call')
  BY <1>1 DEF Swipe, Swiped, Unaimed, Laid
<1>3. QED
  BY <1>2, UnaimedIs

LEMMA NextCallAims ==
    ASSUME AInv, NextCall
    PROVE  AimInv(call')
<1>1. PICK S : calls \in Seq(S) /\ \A t \in S : StepFits(t)
  BY DEF AInv, Running
<1>2. Head(calls) \in S
  BY <1>1 DEF NextCall
<1>3. QED
  BY <1>1, <1>2, NewCallUnaimed, UnaimedIs DEF NextCall

\* A verification and a read go on with the target they have.
LEMMA YieldsAimAlike ==
    ASSUME AInv, Read \/ Enter \/ Plain \/ Ready \/ Switch \/ Operate \/ Restore \/ System
    PROVE  AimInv(call')
<1>1. AimInv(call)
  BY DEF AInv
<1>2. {"pc", "step", "taken", "nodes", "seen", "ref", "by", "did"} \subseteq DOMAIN call
  BY <1>1 DEF AimInv, Laid
<1>3. \A result, value : AimInv(Ended(call, result, value))
  BY <1>1, EndedAlike
<1>4. AimInv(Refused(call))
  BY <1>3 DEF Refused
<1>5. CASE Read \/ Plain \/ System
  BY <1>3, <1>5 DEF Read, Plain, System, Concluded
<1>6. CASE Enter
  <2>1. SameAim(call, call')
    BY <1>2, <1>6 DEF Enter, SameAim, GoesOn, Early
  <2>2. QED
    BY <1>1, <2>1, AimedAlike
<1>7. CASE Ready
  <2>1. SameAim(call, call') \/ call' = Refused(call)
    BY <1>2, <1>7 DEF Ready, SameAim, GoesOn, Early
  <2>2. QED
    BY <1>1, <1>4, <2>1, AimedAlike
<1>8. CASE Switch
  <2>1. SameAim(call, call') \/ call' = Refused(call)
    BY <1>2, <1>8 DEF Switch, SameAim, GoesOn, Early
  <2>2. QED
    BY <1>1, <1>4, <2>1, AimedAlike
<1>9. CASE Operate
  <2>1. SameAim(call, call')
    BY <1>2, <1>9 DEF Operate, SameAim, GoesOn, Early
  <2>2. QED
    BY <1>1, <2>1, AimedAlike
<1>10. CASE Restore
  <2>1. \A restored : AimInv(ConcludedAfter(restored))
    BY <1>3, <1>4 DEF ConcludedAfter
  <2>2. QED
    BY <1>10, <2>1 DEF Restore
<1>11. QED
  BY <1>5, <1>6, <1>7, <1>8, <1>9, <1>10

\* What is done is done to the target.
LEMMA DoneAims ==
    ASSUME AimInv(call), Told(call), call.pc \in {"touch", "point"}, NEW report
    PROVE  AimInv(Done(report))
<1> DEFINE d == Done(report)
<1>1. /\ d.step = call.step /\ d.by = call.by /\ d.pc = call.pc
      /\ Len(d.did) = Len(call.did) + 1 /\ Len(call.did) \in Nat
      /\ DOMAIN call.did = 1..Len(call.did) /\ DOMAIN d.did = 1..Len(d.did)
      /\ \A i \in DOMAIN call.did : d.did[i] = call.did[i]
      /\ d.did[Len(d.did)].by = call.by /\ d.did[Len(d.did)].ref = call.ref
  BY DoneAdds
<1>2. GoesOn(call, d) /\ d.ref = call.ref
  BY DEF AimInv, Laid, GoesOn, Done
<1> HIDE DEF d
<1>3. \A i \in DOMAIN d.did : i \in DOMAIN call.did \/ i = Len(d.did)
  BY <1>1
<1>4. Laid(d) /\ d.nodes = call.nodes
  BY <1>2, GoesOnLaid DEF AimInv, GoesOn
<1>5. TargetFits(d, d.by, d.ref) /\ DoneFits(d)
  BY <1>1, <1>2, <1>3, <1>4 DEF AimInv, TargetFits, DoneFits
<1>6. d.pc \notin Early
  BY <1>1 DEF Early
<1>7. QED
  BY <1>4, <1>5, <1>6 DEF AimInv, d

LEMMA FailedAims ==
    ASSUME NEW c, AimInv(c), NEW passing
    PROVE  AimInv(Failed(c, passing))
<1>1. SameAim(c, [c EXCEPT !.attempts = @ + 1, !.pc = "find"])
  BY DEF AimInv, Laid, SameAim, GoesOn, Early
<1>2. SameAim(c, [c EXCEPT !.pc = "fallback"])
  BY DEF AimInv, Laid, SameAim, GoesOn, Early
<1>3. AimInv([c EXCEPT !.attempts = @ + 1, !.pc = "find"])
  BY <1>1, AimedAlike
<1>4. AimInv([c EXCEPT !.pc = "fallback"])
  BY <1>2, AimedAlike
<1>5. AimInv(Ended(c, "failed", {}))
  BY EndedAlike
<1>6. QED
  BY <1>3, <1>4, <1>5 DEF Failed

LEMMA GestureAims ==
    ASSUME GInv, AInv, FallBack \/ Find \/ Wait \/ Clear \/ Touch \/ Point
    PROVE  AimInv(call')
<1>1. AimInv(call) /\ Told(call)
  BY DEF AInv, GInv, GestureInv
<1>2. {"pc", "step", "taken", "nodes", "seen", "ref", "by", "did"} \subseteq DOMAIN call
  BY <1>1 DEF AimInv, Laid
<1>3. \A passing \in BOOLEAN : AimInv(Failed(call, passing))
  BY <1>1, FailedAims
<1>4. CASE FallBack
  <2> DEFINE d == Target(call.step.fallback, "fallback")
  <2>1. GoesOn(call, d) /\ d.did = call.did /\ d.pc \notin Early /\ d.by = "fallback"
    BY <1>2 DEF GoesOn, Target, Early
  <2>2. call' = Ended(call, "failed", {}) \/ call' = d
    BY <1>4 DEF FallBack
  <2> HIDE DEF d
  <2>3. AimInv(d)
    BY <1>1, <2>1, AimedAnew DEF TargetFits
  <2>4. QED
    BY <1>1, <2>2, <2>3, EndedAlike
<1>5. CASE Find \/ Wait \/ Clear
  <2>1. ASSUME NEW el, NEW pc \in {"wait", "clear", "touch"}
        PROVE  /\ AimInv(Towards(el, pc))
               /\ AimInv([call EXCEPT !.pc = pc])
    <3>1. ASSUME NEW d \in {Towards(el, pc), [call EXCEPT !.pc = pc]}
          PROVE  AimInv(d)
      <4>1. SameAim(call, d)
        BY <1>2, <3>1 DEF SameAim, GoesOn, Early, Towards
      <4>2. QED
        BY <1>1, <4>1, AimedAlike
    <3>2. QED
      BY <3>1
  <2>2. Begins \in {"clear", "touch"}
    BY DEF Begins
  <2>3. CASE Find
    BY <1>3, <2>1, <2>3, FindWays
  <2>4. CASE Wait
    <3> DEFINE d == [call EXCEPT !.looks = @ + 1]
    <3>1. SameAim(call, d)
      BY <1>2, <2>4 DEF SameAim, GoesOn, Early, Wait
    <3> HIDE DEF d
    <3>2. AimInv(d)
      BY <1>1, <3>1, AimedAlike
    <3>3. \A displayed : AimInv(Looked(displayed))
      BY <1>3, <2>1, <2>2, <3>2 DEF Looked, d
    <3>4. QED
      BY <1>3, <2>4, <3>3 DEF Wait
  <2>5. CASE Clear
    BY <1>3, <2>1, <2>5 DEF Clear
  <2>6. QED
    BY <1>5, <2>3, <2>4, <2>5
<1>6. CASE Touch
  <2>1. \A report : AimInv(Done(report))
    BY <1>1, <1>6, DoneAims DEF Touch
  <2>2. \A report : AimInv(Failed(Done(report), report = "passing"))
    BY <2>1, FailedAims
  <2>3. AimInv(Ended(Done("ok"), "passed", {}))
    BY <2>1, EndedAlike
  <2>4. QED
    BY <1>3, <1>6, <2>2, <2>3 DEF Touch
<1>7. CASE Point
  <2>1. \A report : AimInv(Done(report))
    BY <1>1, <1>7, DoneAims DEF Point
  <2>2. \A c \in {call, Done("other")} : AimInv(Ended(c, "failed", {})) /\ AimInv([c EXCEPT !.pc = "fallback"])
    <3>1. SUFFICES ASSUME NEW c \in {call, Done("other")}
                   PROVE  AimInv(Ended(c, "failed", {})) /\ AimInv([c EXCEPT !.pc = "fallback"])
      OBVIOUS
    <3>2. AimInv(c)
      BY <1>1, <2>1
    <3> DEFINE d == [c EXCEPT !.pc = "fallback"]
    <3>3. SameAim(c, d)
      BY <3>2 DEF AimInv, Laid, SameAim, GoesOn, Early
    <3> HIDE DEF d
    <3>4. AimInv(d)
      BY <3>2, <3>3, AimedAlike
    <3>5. QED
      BY <3>2, <3>4, EndedAlike DEF d
  <2>3. AimInv(Ended(Done("ok"), "passed", {}))
    BY <2>1, EndedAlike
  <2>4. QED
    BY <1>7, <2>2, <2>3 DEF Point
<1>8. QED
  BY <1>4, <1>5, <1>6, <1>7

\* Compaction keeps the nodes that matter here, and no others come in.
LEMMA CompactedFits ==
    ASSUME NEW nodes \in Seq(Node), NEW phrase, phrase # {}
    PROVE  Compacted(nodes) \in Seq(Node) /\ (Exact(nodes, phrase) => Exact(Compacted(nodes), phrase))
<1> DEFINE K == KeptPlaces(nodes)
           kept == Compacted(nodes)
<1>1. DOMAIN nodes = 1..Len(nodes) /\ Len(nodes) \in Nat
  OBVIOUS
<1>2. /\ K \subseteq DOMAIN nodes /\ K \subseteq Nat /\ IsFiniteSet(K) /\ Cardinality(K) \in Nat
      /\ kept = [n \in 1..Cardinality(K) |-> nodes[Place(K, n)]]
  BY <1>1, CompactedIs DEF IsList
<1> HIDE DEF K, kept
<1>3. /\ \A p \in 1..Cardinality(K) : Place(K, p) \in K
      /\ \A i \in K : Rank(K, i) + 1 \in 1..Cardinality(K) /\ Place(K, Rank(K, i) + 1) = i
  BY <1>2, PlacesAre
<1>4. \A p \in 1..Cardinality(K) : kept[p] = nodes[Place(K, p)] /\ Place(K, p) \in DOMAIN nodes
  BY <1>2, <1>3
<1>5. kept \in Seq(Node)
  <2>1. \A p \in 1..Cardinality(K) : nodes[Place(K, p)] \in Node
    BY <1>4
  <2>2. kept \in [1..Cardinality(K) -> Node]
    BY <1>2, <2>1
  <2>3. QED
    BY <1>2, <2>2, SeqDef
<1>6. ASSUME NEW n \in Range(kept) PROVE n \in Range(nodes)
  <2>1. PICK p \in DOMAIN kept : n = kept[p]
    BY <1>6 DEF Range
  <2>2. p \in 1..Cardinality(K)
    BY <1>2, <2>1
  <2>3. QED
    BY <1>4, <2>1, <2>2 DEF Range
<1>7. ASSUME NEW n \in Range(nodes), n.text # {} PROVE n \in Range(kept)
  <2>1. PICK i \in DOMAIN nodes : n = nodes[i]
    BY <1>7 DEF Range
  <2>2. Useful(nodes[i])
    BY <1>7, <2>1 DEF Useful, Speaks
  <2>3. i \in K
    BY <2>2, UsefulIsKept DEF K
  <2>4. Rank(K, i) + 1 \in DOMAIN kept /\ kept[Rank(K, i) + 1] = n
    BY <1>2, <1>3, <2>1, <2>3
  <2>5. QED
    BY <2>4 DEF Range
<1>8. \A kind, off : Bears(kept, phrase, kind, off) <=> Bears(nodes, phrase, kind, off)
  BY <1>6, <1>7 DEF Bears
<1>9. Exact(nodes, phrase) => Exact(kept, phrase)
  BY <1>8 DEF Exact
<1>10. QED
  BY <1>5, <1>9 DEF kept

\* What grounding finds fits the step: it is of a picture, or a target that fits.
LEMMA FoundFits ==
    ASSUME AimInv(call), call.step.op = "act", call.step.selector = NoRef,
           Found(call).kind = "resolved", Found(call).ref.kind # "vision"
    PROVE  TargetFits(call, "grounding", Found(call).ref)
<1> DEFINE nodes == IF opt.compact THEN Compacted(call.nodes) ELSE call.nodes
           seen == Pictures(call)
           phrase == call.step.phrase
           action == call.step.action
           g == Grounded(nodes, seen, phrase, action, ToolkitOf(call))
<1>1. phrase \in SUBSET Word /\ phrase # {} /\ call.nodes \in Seq(Node) /\ call.seen \in Seq(Sight)
  BY DEF AimInv, Laid, StepFits
<1>2. nodes \in Seq(Node) /\ (Exact(call.nodes, phrase) => Exact(nodes, phrase))
  <2> HIDE DEF phrase
  <2>1. QED
    BY <1>1, CompactedFits
<1>3. seen \in Seq(Sight)
  BY <1>1 DEF Pictures
<1>4. Found(call) = g
  BY Zenon DEF Found, Action
<1> HIDE DEF nodes, seen, phrase, action
<1>5. g.kind = "resolved" /\ g.ref.kind # "vision"
  BY <1>4
<1> HIDE DEF g
<1>6. ASSUME action \in Gestures
      PROVE  Answers(nodes, phrase, action, g.ref)
  BY <1>1, <1>2, <1>3, <1>5, <1>6, GroundedFits, Zenon DEF g
<1>7. /\ action = "type" => g.ref.kind = "field"
      /\ action \in {"tap", "click"} /\ Exact(call.nodes, phrase) => g.ref.words = phrase
  BY <1>2, <1>6 DEF Gestures, Answers
<1>8. QED
  BY <1>4, <1>7 DEF TargetFits, phrase, action

\* What stands for a label when text is typed is a field.
LEMMA AssociatedFits ==
    ASSUME AimInv(call), NEW ref, ref = Associated(call.nodes, call.step.phrase, call.step.action), ref # NoRef
    PROVE  TargetFits(call, "field", ref)
<1> DEFINE key == call.step.phrase \ FieldWord
<1>1. call.step.phrase \in SUBSET Word /\ call.nodes \in Seq(Node)
  BY DEF AimInv, Laid, StepFits
<1>2. key \in SUBSET Word
  BY <1>1
<1> HIDE DEF key
<1>3. call.step.action = "type" => ref = FieldFor(call.nodes, key)
  BY Zenon DEF Associated, key
<1>4. FieldFor(call.nodes, key) = NoRef \/ FieldFor(call.nodes, key).kind = "field"
  BY <1>1, <1>2, FieldForIs
<1>5. QED
  BY <1>3, <1>4 DEF TargetFits

LEMMA GroundAims ==
    ASSUME GInv, AInv, Ground
    PROVE  AimInv(call')
<1>1. AimInv(call) /\ Unaimed(call)
  BY EarlyIsUnaimed DEF AInv, Ground, Early
<1>2. {"pc", "step", "taken", "nodes", "seen", "ref", "by", "did"} \subseteq DOMAIN call
  BY <1>1 DEF Unaimed, Laid
<1>3. AimInv(Ended(call, "failed", {}))
  BY <1>1, EndedAlike
<1>4. ASSUME NEW ref, NEW by, TargetFits(call, by, ref)
      PROVE  /\ AimInv(Target(ref, by))
             /\ \A pc \in {"enter", "read", "point"} : AimInv([call EXCEPT !.ref = ref, !.by = by, !.pc = pc])
  <2>1. ASSUME NEW d, GoesOn(call, d), d.did = call.did, d.pc \notin Early, d.ref = ref, d.by = by PROVE AimInv(d)
    BY <1>1, <1>4, <2>1, AimedAnew
  <2>2. AimInv(Target(ref, by))
    <3> DEFINE d == Target(ref, by)
    <3>1. GoesOn(call, d) /\ d.did = call.did /\ d.pc \notin Early /\ d.ref = ref /\ d.by = by
      BY <1>2 DEF GoesOn, Target, Early
    <3> HIDE DEF d
    <3>2. AimInv(d)
      BY <2>1, <3>1
    <3>3. QED
      BY <3>2 DEF d
  <2>3. ASSUME NEW pc \in {"enter", "read", "point"} PROVE AimInv([call EXCEPT !.ref = ref, !.by = by, !.pc = pc])
    <3> DEFINE d == [call EXCEPT !.ref = ref, !.by = by, !.pc = pc]
    <3>1. GoesOn(call, d) /\ d.did = call.did /\ d.pc \notin Early /\ d.ref = ref /\ d.by = by
      BY <1>2, <2>3 DEF GoesOn, Early
    <3> HIDE DEF d
    <3>2. AimInv(d)
      BY <2>1, <3>1
    <3>3. QED
      BY <3>2 DEF d
  <2>4. QED
    BY <2>2, <2>3
<1>5. \A ref, by : by \notin {"grounding", "field"} => TargetFits(call, by, ref)
  BY DEF TargetFits
<1>6. call.step.op # "act" => \A ref, by : TargetFits(call, by, ref)
  BY <1>1 DEF TargetFits, Unaimed, Laid, StepFits
<1>7. \A ref : AimInv(OnPictured(ref))
  <2>1. SUFFICES ASSUME NEW ref PROVE AimInv(OnPictured(ref))
    OBVIOUS
  <2> DEFINE el == IF opt.platform = "ios" THEN NoRef ELSE Hydrated(call.nodes, ref.words)
             point == RefTo("canvas", "text", ref.words)
  <2>2. /\ AimInv(Target(el, "vision"))
        /\ AimInv([call EXCEPT !.ref = el, !.by = "vision", !.pc = "read"])
        /\ AimInv([call EXCEPT !.ref = point, !.by = "vision", !.pc = "point"])
    <3> HIDE DEF el, point
    <3>1. TargetFits(call, "vision", el) /\ TargetFits(call, "vision", point)
      BY <1>5
    <3>2. QED
      BY <1>4, <3>1
  <2>3. QED
    BY <1>3, <2>2, Zenon DEF OnPictured
<1>8. ASSUME Found(call).kind = "resolved" PROVE AimInv(OnGrounded(Found(call).ref))
  <2> DEFINE ref == Found(call).ref
  <2>1. call.step.op # "act" => TargetFits(call, "grounding", ref)
    BY <1>6
  <2>2. call.step.op = "act" /\ ref.kind # "vision" =>
           TargetFits(call, IF call.step.selector = NoRef THEN "grounding" ELSE "selector", ref)
    BY <1>1, <1>5, <1>8, FoundFits
  <2> HIDE DEF ref
  <2>3. call.step.op # "act" =>
           /\ AimInv([call EXCEPT !.ref = ref, !.by = "grounding", !.pc = "enter"])
           /\ AimInv([call EXCEPT !.ref = ref, !.by = "grounding", !.pc = "read"])
    BY <1>4, <2>1
  <2>4. call.step.op = "act" /\ ref.kind # "vision" =>
           AimInv(Target(ref, IF call.step.selector = NoRef THEN "grounding" ELSE "selector"))
    BY <1>4, <2>2
  <2>5. CASE call.step.op = "act" /\ ref.kind # "vision"
    <3>1. OnGrounded(ref) = Target(ref, IF call.step.selector = NoRef THEN "grounding" ELSE "selector")
      BY <2>5 DEF OnGrounded
    <3>2. QED
      BY <2>4, <2>5, <3>1 DEF ref
  <2>6. CASE call.step.op = "verify"
    <3>1. OnGrounded(ref) = [call EXCEPT !.ref = ref, !.by = "grounding", !.pc = "enter"]
      BY <2>6 DEF OnGrounded
    <3>2. QED
      BY <2>3, <2>6, <3>1 DEF ref
  <2>7. CASE call.step.op # "verify" /\ ref.kind = "vision"
    <3>1. OnGrounded(ref) = OnPictured(ref)
      BY <2>7 DEF OnGrounded
    <3>2. QED
      BY <1>7, <3>1 DEF ref
  <2>8. CASE call.step.op \notin {"act", "verify"} /\ ref.kind # "vision"
    <3>1. OnGrounded(ref) = [call EXCEPT !.ref = ref, !.by = "grounding", !.pc = "read"]
      BY <2>8 DEF OnGrounded
    <3>2. QED
      BY <2>3, <2>8, <3>1 DEF ref
  <2>9. QED
    BY <2>5, <2>6, <2>7, <2>8
<1>9. AimInv([call EXCEPT !.tries = @ + 1, !.purpose = "retry", !.pc = "collect"])
  <2>1. Unaimed([call EXCEPT !.tries = @ + 1, !.purpose = "retry", !.pc = "collect"])
    BY <1>1 DEF Unaimed, Laid
  <2>2. QED
    BY <2>1, UnaimedIs
<1>10. \A kind : AimInv(OnMissed(kind))
  <2>1. SUFFICES ASSUME NEW kind PROVE AimInv(OnMissed(kind))
    OBVIOUS
  <2> DEFINE field == Associated(call.nodes, call.step.phrase, call.step.action)
             pick == PickSeen(call.step.phrase, call.seen)
             point == RefTo("canvas", "text", call.seen[pick].text)
  <2>2. ASSUME NEW pc PROVE AimInv([call EXCEPT !.pc = pc]) /\ AimInv([call EXCEPT !.pc = pc, !.prev = call.mark])
    <3>1. Unaimed([call EXCEPT !.pc = pc]) /\ Unaimed([call EXCEPT !.pc = pc, !.prev = call.mark])
      BY <1>1 DEF Unaimed, Laid
    <3>2. QED
      BY <3>1, UnaimedIs
  <2>3. field # NoRef => AimInv(Target(field, "field"))
    <3> HIDE DEF field
    <3>1. field # NoRef => TargetFits(call, "field", field)
      BY <1>1, AssociatedFits DEF field
    <3>2. QED
      BY <1>4, <3>1
  <2>4. AimInv([call EXCEPT !.ref = point, !.by = "canvas", !.pc = "point"])
    <3> HIDE DEF point
    <3>1. TargetFits(call, "canvas", point)
      BY <1>5
    <3>2. QED
      BY <1>4, <3>1
  <2>5. CASE call.step.op # "act"
    <3>1. OnMissed(kind) = Ended(call, "failed", {})
      BY <2>5 DEF OnMissed
    <3>2. QED
      BY <1>3, <3>1
  <2>6. CASE call.step.op = "act" /\ call.scrolls > 0
    <3>1. OnMissed(kind) = [call EXCEPT !.pc = IF SwipesAgain THEN "swipe" ELSE "fallback"]
      BY <2>6 DEF OnMissed
    <3>2. QED
      BY <2>2, <3>1
  <2>7. CASE call.step.op = "act" /\ ~(call.scrolls > 0)
    <3>1. OnMissed(kind) =
             IF field # NoRef THEN Target(field, "field")
             ELSE IF call.canvas /\ call.step.action \in {"tap", "click"} /\ pick # 0
               THEN [call EXCEPT !.ref = point, !.by = "canvas", !.pc = "point"]
             ELSE [call EXCEPT !.pc = IF MayScroll(kind) THEN "swipe" ELSE "fallback", !.prev = call.mark]
      BY <2>7, Zenon DEF OnMissed
    <3> HIDE DEF field, pick, point
    <3>2. QED
      BY <2>2, <2>3, <2>4, <3>1
  <2>8. QED
    BY <2>5, <2>6, <2>7
<1>11. QED
  BY <1>8, <1>9, <1>10 DEF Ground

LEMMA AimsStay == GInv /\ AInv /\ [Next]_vars => AInv'
<1> SUFFICES ASSUME GInv, AInv, [Next]_vars PROVE AInv'
  OBVIOUS
<1>1. Running'
  BY RunningStays DEF AInv
<1>2. CASE Script
  <2>1. AimInv(call')
    BY <1>2, LooksUnaimed, MergeUnaimed, GroundAims, SwipeUnaimed, GestureAims, YieldsAimAlike, NextCallAims DEF Script
  <2>2. QED
    BY <1>1, <2>1 DEF AInv
<1>3. CASE Change \/ Finished \/ UNCHANGED vars
  <2>1. call' = call
    BY <1>3 DEF Change, Finished, vars
  <2>2. QED
    BY <1>1, <2>1 DEF AInv
<1>4. QED
  BY <1>2, <1>3 DEF Next
-----------------------------------------------------------------------------
\* AimsFit of MobileStep, for every app, configuration and script: what a gesture is
\* aimed at fits the step, also where the screen changes in between.  Text goes into
\* a field, because no other candidate of the hierarchy reaches the threshold
\* (grounding/ranker.py) and a label leads to a field (mobile/field_association.py);
\* an exact control is not passed by, because a lookalike ties with it at best, and
\* the engine refuses a tie (grounding/engine.py: _check_ambiguity).
THEOREM AimsFitTheSteps == Spec => []AimsFit
<1>1. AInv => AimsFit
  BY AimImpliesFit DEF AInv
<1>2. QED
  BY GesturesInitially, GesturesStay, AimsInitially, AimsStay, <1>1, PTL DEF Spec

\* CompactionKeepsOutcome of MobileStep, for every screen: whatever a phrase is
\* matched by is kept (mobile/hierarchy_compaction.py), and in its place among the
\* matches, so grounding ends in the same way, target and ties included.
THEOREM CompactionLosesNothing == Spec => []CompactionKeepsOutcome
<1>1. AInv => CompactionKeepsOutcome
  <2>1. SUFFICES ASSUME AInv, \A n \in Range(call.nodes) : n.gone => n.rid = {} \/ Speaks(n),
                        NEW seen, NEW phrase, NEW action, NEW toolkit
                 PROVE  Grounded(Compacted(call.nodes), seen, phrase, action, toolkit)
                          = Grounded(call.nodes, seen, phrase, action, toolkit)
    BY Zenon DEF CompactionKeepsOutcome
  <2>2. IsList(call.nodes)
    <3>1. call.nodes \in Seq(Node)
      BY <2>1 DEF AInv, AimInv, Laid
    <3>2. DOMAIN call.nodes = 1..Len(call.nodes) /\ Len(call.nodes) \in Nat
      BY <3>1
    <3>3. QED
      BY <3>2 DEF IsList
  <2>3. Candidates(Compacted(call.nodes), phrase, action, toolkit) = Candidates(call.nodes, phrase, action, toolkit)
    BY <2>1, <2>2, CompactedSame
  <2>4. QED
    BY <2>3, Zenon DEF Grounded
<1>2. QED
  BY GesturesInitially, GesturesStay, AimsInitially, AimsStay, <1>1, PTL DEF Spec
=============================================================================
