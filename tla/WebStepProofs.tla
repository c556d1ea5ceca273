---------------------------- MODULE WebStepProofs ----------------------------
(***************************************************************************)
(* Steps on any page of any application, whatever it does on its own.       *)
(*                                                                         *)
(* Five invariants.  What a finder marked is acted on: a marker that is     *)
(* still to be looked up is at most on the element it was put on, also for  *)
(* the candidates of a recovery that are still waiting (WInv).  What a      *)
(* claimed step did is what it said, and once (DoneInv).  A panel that is   *)
(* confirmed as a whole takes all the values of a step or none (TickInv).   *)
(* What the words of a step chose is what is acted on (ChoiceInv).  What a  *)
(* dropdown showed before a value was tried, it shows when the value is     *)
(* done with (DropInv).                                                    *)
(***************************************************************************)
EXTENDS WebStep, FiniteSetTheorems, WellFoundedInduction, TLAPS

IsCall(c) ==
    c = [ n |-> c.n, step |-> c.step, pc |-> c.pc, ref |-> c.ref, act |-> c.act, claim |-> c.claim,
          tries |-> c.tries, recovering |-> c.recovering, queue |-> c.queue, hits |-> c.hits,
          lates |-> c.lates, outside |-> c.outside, result |-> c.result ]

PageFits ==
    /\ dom \in Seq(Element) /\ shown \subseteq DOMAIN dom
    /\ steps \in Seq(Step)
    /\ IsCall(call) /\ call.step \in Step

\* A ref that is still to be looked up finds what was found, or nothing.
Aimed(m, r) ==
    /\ r.by \in {"name", "id", "mark"}
    /\ r.by = "mark" => r.attr \in Finders /\ m[r.attr] \subseteq {r.el}

Marked(m, c) ==
    /\ m = [a \in Finders |-> m[a]]
    /\ c.pc \in {"act", "select"} => Aimed(m, c.ref)
    /\ \E S : c.queue \in Seq(S)
    /\ \A i \in DOMAIN c.queue : Aimed(m, c.queue[i])
    /\ c.pc \in {"resolve", "ground", "fall", "recover"} => ~c.recovering
    /\ ~c.recovering => c.queue = <<>>

\* What was acted on is what was found.
AsFound(hits) ==
    /\ \E S : hits \in Seq(S)
    /\ \A i \in DOMAIN hits : hits[i].ref.by # "name" => hits[i].got = hits[i].ref.el
Landed(c) == AsFound(c.hits)

WInv == PageFits /\ Marked(mark, call) /\ Landed(call)

-----------------------------------------------------------------------------
LEMMA MinIs ==
    ASSUME NEW S, S \subseteq Nat, S # {}
    PROVE  Min(S) \in S /\ \A y \in S : Min(S) <= y
<1> DEFINE R == OpToRel(<, Nat)
<1>1. \A x, y \in S : <<y, x>> \in R <=> y < x
  BY DEF OpToRel
<1>2. IsWellFoundedOn(R, Nat)
  BY NatLessThanWellFounded
<1> HIDE DEF R
<1>3. PICK x \in S : \A y \in S : ~(<<y, x>> \in R)
  BY <1>2, WFMin
<1>4. x \in Nat /\ \A y \in S : y \in Nat /\ ~(y < x)
  BY <1>1, <1>3
<1>5. \A y \in S : x <= y
  BY <1>4
<1>6. QED
  BY <1>5 DEF Min

\* What a ref other than a name finds is what it was made for.
LEMMA TargetsOne ==
    ASSUME PageFits, NEW r, Aimed(mark, r), r.by # "name", Targets(r) # {}
    PROVE  r.el \in DOMAIN dom /\ Targets(r) = {r.el} /\ Min(Targets(r)) = r.el
<1>1. Targets(r) \subseteq {r.el} /\ Targets(r) \subseteq DOMAIN dom
  BY DEF Targets, Aimed, Present
<1>2. Targets(r) = {r.el} /\ r.el \in DOMAIN dom
  BY <1>1
<1>3. DOMAIN dom \subseteq Nat
  BY DEF PageFits
<1>4. QED
  BY <1>2, <1>3, MinIs

LEMMA MatchesInDom ==
    ASSUME PageFits, NEW r
    PROVE  Targets(r) \subseteq DOMAIN dom /\ Targets(r) \subseteq Nat
<1>1. Targets(r) \subseteq DOMAIN dom
  BY DEF Targets, Present, PageFits
<1>2. QED
  BY <1>1 DEF PageFits

\* What is acted on matches.
LEMMA StruckMatches ==
    ASSUME PageFits, Targets(call.ref) # {}
    PROVE  Struck \in Targets(call.ref)
<1>1. \A S : S \subseteq Targets(call.ref) /\ S # {} => Min(S) \in Targets(call.ref)
  BY MatchesInDom, MinIs
<1>2. QED
  BY <1>1 DEF Struck, Matched

\* Finders of different markers ran, and all those up to the one whose find is used.
LEMMA MarksAim ==
    ASSUME NEW all, NEW i \in DOMAIN all, NEW last, last = 0 \/ i <= last,
           \A j \in DOMAIN all : all[j].attr = all[i].attr => j = i,
           all[i].attr \in Finders, all[i].ran
    PROVE  LET m == Marks(RanUpTo(all, last)) IN
           /\ m = [a \in Finders |-> m[a]]
           /\ Aimed(m, RefTo(all[i].attr, all[i].el))
<1> DEFINE ran == RanUpTo(all, last)
<1>1. all[i] \in ran /\ \A c \in ran : c.attr = all[i].attr => c = all[i]
  BY DEF RanUpTo
<1> HIDE DEF ran
<1>2. Marks(ran)[all[i].attr] \subseteq {all[i].el}
  BY <1>1 DEF Marks
<1>3. Marks(ran) = [a \in Finders |-> Marks(ran)[a]]
  BY DEF Marks
<1>4. "name" \notin Finders
  BY DEF Finders
<1>5. RefTo(all[i].attr, all[i].el) = [by |-> RefTo(all[i].attr, all[i].el).by, attr |-> all[i].attr, el |-> all[i].el]
      /\ RefTo(all[i].attr, all[i].el).by \in {"id", "mark"}
  BY <1>4 DEF RefTo
<1>6. QED
  BY <1>2, <1>3, <1>5 DEF Aimed, ran

\* What ran found what it claims; the finders are told apart by their markers.
LEMMA ClaimsFit ==
    ASSUME NEW s, NEW i \in DOMAIN Claims(s)
    PROVE  LET all == Claims(s) IN
           /\ DOMAIN all = 1..11 /\ Len(all) = 11
           /\ all[i].attr \in Finders
           /\ all[i].el # None => all[i].ran
           /\ \A j \in DOMAIN all : all[j].attr = all[i].attr => j = i
<1> DEFINE all == Claims(s)
           names == <<"cell", "link", "header", "range", "file", "dialog", "collapse", "radio", "checkbox", "editor", "input">>
<1>1. DOMAIN all = 1..11 /\ Len(all) = 11
  BY DEF Claims
<1>2. \A attr, ran, el, act : LET c == Claim(attr, ran, el, act) IN c.attr = attr /\ (c.el # None => c.ran)
  BY DEF Claim
<1>3. \A k \in 1..11 : all[k].attr = names[k] /\ (all[k].el # None => all[k].ran)
  BY <1>2 DEF Claims, CellClaim, LinkClaim, HeaderClaim, RangeClaim, FileClaim, DialogClaim, PanelClaim,
              RadioClaim, CheckClaim, EditorClaim, InputClaim
<1>4. \A k, l \in 1..11 : names[k] \in Finders /\ (names[k] = names[l] => k = l)
  BY DEF Finders
<1> HIDE DEF all, names
<1>5. QED
  BY <1>1, <1>3, <1>4 DEF all

LEMMA FallbacksFit ==
    ASSUME NEW s, NEW act, NEW i \in DOMAIN Fallbacks(s, act)
    PROVE  LET all == Fallbacks(s, act) IN
           /\ DOMAIN all = 1..3 /\ Len(all) = 3
           /\ all[i].attr \in Finders
           /\ all[i].el # None => all[i].ran
           /\ \A j \in DOMAIN all : all[j].attr = all[i].attr => j = i
<1> DEFINE all == Fallbacks(s, act)
           names == <<"select", "click", "input">>
<1>1. DOMAIN all = 1..3 /\ Len(all) = 3
  BY DEF Fallbacks
<1>2. \A attr, ran, el, do : LET c == Claim(attr, ran, el, do) IN c.attr = attr /\ (c.el # None => c.ran)
  BY DEF Claim
<1>3. \A k \in 1..3 : all[k].attr = names[k] /\ (all[k].el # None => all[k].ran)
  BY <1>2 DEF Fallbacks
<1>4. \A k, l \in 1..3 : names[k] \in Finders /\ (names[k] = names[l] => k = l)
  BY DEF Finders
<1> HIDE DEF all, names
<1>5. QED
  BY <1>1, <1>3, <1>4 DEF all

-----------------------------------------------------------------------------
\* The recovery's candidates, each with its marker.
LEMMA UntriedAim ==
    ASSUME NEW s, NEW act, NEW ref
    PROVE  LET all  == Fallbacks(s, act)
               refs == Untried(all, ref)
               m    == Marks(RanUpTo(all, 0))
           IN  /\ \E S : refs \in Seq(S)
               /\ \A i \in DOMAIN refs : Aimed(m, refs[i])
               /\ m = [a \in Finders |-> m[a]]
<1> DEFINE all == Fallbacks(s, act)
           m   == Marks(RanUpTo(all, 0))
           RefAt(i) == RefTo(all[i].attr, all[i].el)
           IfNew(i) == IF all[i].el # None /\ ~SameRef(RefAt(i), ref) THEN <<RefAt(i)>> ELSE <<>>
           Good == {r \in {RefAt(i) : i \in 1..3} : Aimed(m, r)}
<1>1. \A i \in 1..3 : all[i].el # None => RefAt(i) \in Good
  <2>1. DOMAIN all = 1..3
    BY DEF Fallbacks
  <2> HIDE DEF all
  <2>2. ASSUME NEW i \in 1..3, all[i].el # None PROVE Aimed(m, RefAt(i))
    <3>1. /\ all[i].attr \in Finders /\ all[i].ran
          /\ \A j \in DOMAIN all : all[j].attr = all[i].attr => j = i
      BY <2>1, <2>2, FallbacksFit DEF all
    <3>2. QED
      BY <2>1, <3>1, MarksAim
  <2>3. QED
    BY <2>2
<1>2. m = [a \in Finders |-> m[a]]
  BY DEF Marks
<1>3. Untried(all, ref) = IfNew(1) \o IfNew(2) \o IfNew(3)
  BY DEF Untried
<1>4. \A r \in Good : Aimed(m, r)
  OBVIOUS
<1> HIDE DEF all, m, RefAt, Good
<1>5. \A i \in 1..3 : IfNew(i) \in Seq(Good)
  BY <1>1
<1> HIDE DEF IfNew
<1>6. IfNew(1) \o IfNew(2) \o IfNew(3) \in Seq(Good)
  BY <1>5
<1>7. QED
  BY <1>2, <1>3, <1>4, <1>6 DEF all, m

LEMMA NewCallFits ==
    ASSUME NEW s \in Step, NEW n
    PROVE  /\ IsCall(NewCall(s, n)) /\ NewCall(s, n).step \in Step
           /\ Landed(NewCall(s, n))
           /\ \A m : m = [a \in Finders |-> m[a]] => Marked(m, NewCall(s, n))
<1>1. <<>> \in Seq({})
  OBVIOUS
<1>2. QED
  BY <1>1 DEF NewCall, IsCall, Landed, AsFound, Marked

LEMMA StepsInitially == Init => WInv
<1>1. SUFFICES ASSUME NEW s \in Scenarios,
                      dom = s.dom, shown = s.shown, mark = [a \in Finders |-> {}],
                      steps = Tail(s.steps), call = NewCall(Head(s.steps), 1)
               PROVE  WInv
  BY DEF Init
<1>2. dom \in Seq(Element) /\ shown \subseteq DOMAIN dom /\ s.steps \in Seq(Step) /\ s.steps # <<>>
  BY <1>1, ScenariosAssumption
<1>3. Head(s.steps) \in Step /\ Tail(s.steps) \in Seq(Step)
  BY <1>2
<1>4. mark = [a \in Finders |-> mark[a]]
  BY <1>1
<1>5. QED
  BY <1>1, <1>2, <1>3, <1>4, NewCallFits DEF WInv, PageFits

\* A call without a target ahead.
LEMMA IdleFits ==
    ASSUME WInv, NEW m, m = [a \in Finders |-> m[a]], ~call.recovering, NEW c,
           IsCall(c), c.step = call.step, c.queue = call.queue, c.hits = call.hits,
           c.recovering = call.recovering, c.pc \notin {"act", "select"}
    PROVE  Marked(m, c) /\ Landed(c)
<1>1. call.queue = <<>>
  BY DEF WInv, Marked
<1>2. QED
  BY <1>1 DEF WInv, Marked, Landed

\* A call that ends, or is tried again.
LEMMA EndFits ==
    ASSUME IsCall(call), NEW m, Marked(m, call), Landed(call), NEW result, NEW c, c = End(result)
    PROVE  /\ IsCall(c) /\ c.step = call.step /\ Marked(m, c) /\ Landed(c)
  BY DEF End, IsCall, Marked, Landed

LEMMA RetryFits ==
    ASSUME IsCall(call), NEW m, Marked(m, call), NEW hits, NEW lates, NEW transient \in BOOLEAN,
           AsFound(hits), call.pc \in {"act", "select"},
           NEW c, c = [Retry(transient) EXCEPT !.hits = hits, !.lates = lates]
    PROVE  /\ IsCall(c) /\ c.step = call.step /\ Marked(m, c) /\ Landed(c)
<1>1. CASE transient /\ call.tries < Retries
  <2>1. Retry(transient) = [call EXCEPT !.pc = "act", !.tries = call.tries + 1]
    BY <1>1 DEF Retry
  <2>2. /\ c.pc = "act" /\ c.ref = call.ref /\ c.queue = call.queue /\ c.hits = hits
        /\ c.recovering = call.recovering /\ IsCall(c) /\ c.step = call.step
    BY <2>1, Zenon DEF IsCall
  <2>3. QED
    BY <2>2 DEF Marked, Landed
<1>2. CASE ~(transient /\ call.tries < Retries) /\ call.recovering /\ call.queue = <<>>
  BY <1>2 DEF Retry, GiveUp, End, IsCall, Marked, Landed
<1>3. CASE ~(transient /\ call.tries < Retries) /\ call.recovering /\ call.queue # <<>>
  <2>1. PICK S : call.queue \in Seq(S)
    BY DEF Marked
  <2>2. /\ Head(call.queue) = call.queue[1] /\ 1 \in DOMAIN call.queue /\ Tail(call.queue) \in Seq(S)
        /\ \A i \in DOMAIN Tail(call.queue) : i + 1 \in DOMAIN call.queue /\ Tail(call.queue)[i] = call.queue[i + 1]
    BY <1>3, <2>1
  <2>3. Aimed(m, Head(call.queue)) /\ \A i \in DOMAIN Tail(call.queue) : Aimed(m, Tail(call.queue)[i])
    BY <2>2 DEF Marked
  <2> DEFINE h == Head(call.queue)
             t == Tail(call.queue)
  <2>4. c = [call EXCEPT !.pc = "act", !.ref = h, !.queue = t, !.tries = 0, !.hits = hits, !.lates = lates]
    BY <1>3 DEF Retry, GiveUp, Target, IsCall
  <2> HIDE DEF h, t
  <2>5. c.pc = "act" /\ c.ref = h /\ c.queue = t /\ c.hits = hits /\ c.recovering = call.recovering /\ IsCall(c) /\ c.step = call.step
    BY <2>4 DEF IsCall
  <2>6. QED
    BY <1>3, <2>2, <2>3, <2>5 DEF Marked, Landed, h, t
<1>4. CASE ~(transient /\ call.tries < Retries) /\ ~call.recovering
  BY <1>4 DEF Retry, GiveUp, IsCall, Marked, Landed
<1>5. QED
  BY <1>1, <1>2, <1>3, <1>4

\* Only an attempt reported late is counted.
LEMMA RetryCounts ==
    ASSUME IsCall(call), NEW hits
    PROVE  [Retry(TRUE) EXCEPT !.hits = hits, !.lates = @ + 1]
           = [Retry(TRUE) EXCEPT !.hits = hits, !.lates = call.lates + 1]
<1>1. Retry(TRUE).lates = call.lates
  <2>1. CASE call.tries < Retries
    BY <2>1 DEF Retry, IsCall
  <2>2. CASE ~(call.tries < Retries)
    BY <2>2 DEF Retry, GiveUp, End, Target, IsCall
  <2>3. QED
    BY <2>1, <2>2
<1>2. QED
  BY <1>1

\* A retry leaves what was done so far.
LEMMA RetryKeeps ==
    ASSUME IsCall(call), NEW transient
    PROVE  Retry(transient) = [Retry(transient) EXCEPT !.hits = call.hits, !.lates = call.lates]
<1> DEFINE Kind(r) == r = [r EXCEPT !.hits = call.hits, !.lates = call.lates]
<1>1. Kind([call EXCEPT !.pc = "act", !.tries = call.tries + 1]) /\ Kind([call EXCEPT !.pc = "recover"]) /\ Kind(End("failed"))
  BY DEF IsCall, End
<1>2. \A h, t : Kind([call EXCEPT !.pc = "act", !.ref = h, !.act = call.act, !.queue = t, !.tries = 0])
  BY DEF IsCall
<1>3. Retry(transient) = [call EXCEPT !.pc = "act", !.tries = call.tries + 1] \/ Retry(transient) = GiveUp
  BY DEF Retry
<1>4. \/ GiveUp = [call EXCEPT !.pc = "recover"] \/ GiveUp = End("failed")
      \/ GiveUp = [Target(Head(call.queue), call.act) EXCEPT !.queue = Tail(@), !.tries = 0]
  BY DEF GiveUp
<1>5. [Target(Head(call.queue), call.act) EXCEPT !.queue = Tail(@), !.tries = 0]
      = [call EXCEPT !.pc = "act", !.ref = Head(call.queue), !.act = call.act, !.queue = Tail(call.queue), !.tries = 0]
  BY DEF Target, IsCall
<1> HIDE DEF Kind
<1>6. Kind(GiveUp)
  <2>1. CASE GiveUp = [call EXCEPT !.pc = "recover"]
    BY <1>1, <2>1, Zenon
  <2>2. CASE GiveUp = End("failed")
    BY <1>1, <2>2, Zenon
  <2>3. CASE GiveUp = [Target(Head(call.queue), call.act) EXCEPT !.queue = Tail(@), !.tries = 0]
    BY <1>2, <1>5, <2>3, Zenon
  <2>4. QED
    BY <1>4, <2>1, <2>2, <2>3
<1>7. CASE Retry(transient) = [call EXCEPT !.pc = "act", !.tries = call.tries + 1]
  BY <1>1, <1>7, Zenon DEF Kind
<1>8. CASE Retry(transient) = GiveUp
  BY <1>6, <1>8, Zenon DEF Kind
<1>9. QED
  BY <1>3, <1>7, <1>8

-----------------------------------------------------------------------------
\* One step of the script, or of the page.
LEMMA ResolveAims ==
    ASSUME WInv, Resolve
    PROVE  WInv'
<1> DEFINE all   == Claims(call.step)
           I     == {i \in 1..Len(all) : Claiming(call.step, all[i])}
           first == SelectInSeq(all, LAMBDA c : Claiming(call.step, c))
<1>1. first = IF I # {} THEN Min(I) ELSE 0
  BY DEF SelectInSeq
<1>2. DOMAIN all = 1..11 /\ Len(all) = 11
  BY DEF Claims
<1>3. /\ mark' = Marks(RanUpTo(all, first))
      /\ call' = IF first = 0 THEN [call EXCEPT !.pc = "ground"]
                 ELSE IF all[first].attr = "collapse" /\ (all[first].el \in on) = WantOpen(call.step)
                 THEN [End("passed") EXCEPT !.claim = "collapse", !.ref = RefTo("collapse", all[first].el)]
                 ELSE [Target(RefTo(all[first].attr, all[first].el), all[first].act) EXCEPT
                          !.claim = all[first].attr]
  BY DEF Resolve
<1>4. mark' = [a \in Finders |-> mark'[a]]
  BY <1>3 DEF Marks
<1>5. /\ call.pc = "resolve" /\ UNCHANGED <<dom, steps, shown>>
  BY DEF Resolve, Still
<1>6. CASE first = 0
  <2>1. call' = [call EXCEPT !.pc = "ground"] /\ ~call.recovering
    BY <1>3, <1>5, <1>6 DEF WInv, Marked
  <2>2. /\ IsCall(call') /\ call'.step = call.step /\ call'.queue = call.queue /\ call'.hits = call.hits
        /\ call'.recovering = call.recovering /\ call'.pc = "ground"
    BY <2>1 DEF WInv, PageFits, IsCall
  <2>3. Marked(mark, call)' /\ Landed(call)'
    BY <1>4, <2>1, <2>2, IdleFits
  <2>4. QED
    BY <1>5, <2>2, <2>3 DEF WInv, PageFits
<1>7. CASE first # 0
  <2>1. first \in I
    BY <1>1, <1>2, <1>7, MinIs
  <2>2. first \in 1..11 /\ all[first].el # None
    BY <1>2, <2>1 DEF Claiming
  <2>3. /\ all[first].attr \in Finders /\ all[first].ran
        /\ \A j \in DOMAIN all : all[j].attr = all[first].attr => j = first
    BY <1>2, <2>2, ClaimsFit
  <2> HIDE DEF all, first, I
  <2>4. Aimed(mark', RefTo(all[first].attr, all[first].el))
    BY <1>2, <1>3, <2>2, <2>3, MarksAim
  <2> DEFINE ref == RefTo(all[first].attr, all[first].el)
  <2>5. \/ call' = [call EXCEPT !.pc = "done", !.result = "passed", !.claim = "collapse", !.ref = RefTo("collapse", all[first].el)]
        \/ call' = [call EXCEPT !.pc = "act", !.ref = ref, !.act = all[first].act, !.claim = all[first].attr]
    BY <1>3, <1>7 DEF Target, End, WInv, PageFits, IsCall
  <2> HIDE DEF ref
  <2>6. /\ call'.queue = <<>> /\ IsCall(call') /\ call'.step = call.step /\ call'.hits = call.hits
        /\ call'.pc = "done" \/ (call'.pc = "act" /\ call'.ref = ref)
        /\ call'.recovering = call.recovering
    BY <1>5, <2>5 DEF WInv, PageFits, IsCall, Marked
  <2>7. Marked(mark, call)' /\ Landed(call)'
    BY <1>4, <2>4, <2>6 DEF ref, Marked, WInv, Landed
  <2>8. PageFits'
    BY <1>5, <2>6 DEF PageFits, WInv
  <2>9. QED
    BY <2>7, <2>8 DEF WInv
<1>8. QED
  BY <1>6, <1>7

LEMMA FallBackAims ==
    ASSUME WInv, FallBack
    PROVE  WInv'
<1> DEFINE all   == Fallbacks(call.step, call.act)
           I     == {i \in 1..Len(all) : all[i].el # None}
           first == SelectInSeq(all, LAMBDA c : c.el # None)
<1>1. first = IF I # {} THEN Min(I) ELSE 0
  BY DEF SelectInSeq
<1>2. DOMAIN all = 1..3 /\ Len(all) = 3
  BY DEF Fallbacks
<1>3. /\ mark' = Marks(RanUpTo(all, first))
      /\ IF first # 0
            THEN call' = Target(RefTo(all[first].attr, all[first].el), call.act)
            ELSE call' = call \/ call' = End("failed")
      /\ \/ UNCHANGED shown
         \/ shown' = shown \union {i \in DOMAIN dom : dom[i].where = "menu"}
  BY DEF FallBack
<1>4. mark' = [a \in Finders |-> mark'[a]]
  BY <1>3 DEF Marks
<1>5. call.pc = "fall" /\ UNCHANGED <<dom, steps>> /\ shown' \subseteq DOMAIN dom
  BY <1>3 DEF FallBack, Still, WInv, PageFits
<1>6. CASE first = 0
  <2>1. call' = call \/ call' = [call EXCEPT !.pc = "done", !.result = "failed"]
    BY <1>3, <1>6 DEF End
  <2>2. /\ IsCall(call') /\ call'.step = call.step /\ call'.queue = call.queue /\ call'.hits = call.hits
        /\ call'.recovering = call.recovering /\ call'.pc \in {"fall", "done"}
    BY <1>5, <2>1 DEF WInv, PageFits, IsCall
  <2>3. Marked(mark, call)' /\ Landed(call)'
    BY <1>4, <1>5, <2>2, IdleFits DEF WInv, Marked
  <2>4. QED
    BY <1>5, <2>2, <2>3 DEF WInv, PageFits
<1>7. CASE first # 0
  <2>1. first \in I
    BY <1>1, <1>2, <1>7, MinIs
  <2>2. first \in 1..3 /\ all[first].el # None
    BY <1>2, <2>1
  <2>3. /\ all[first].attr \in Finders /\ all[first].ran
        /\ \A j \in DOMAIN all : all[j].attr = all[first].attr => j = first
    BY <1>2, <2>2, FallbacksFit
  <2> HIDE DEF all, first, I
  <2>4. Aimed(mark', RefTo(all[first].attr, all[first].el))
    BY <1>2, <1>3, <2>2, <2>3, MarksAim
  <2> DEFINE ref == RefTo(all[first].attr, all[first].el)
  <2>5. call' = [call EXCEPT !.pc = "act", !.ref = ref]
    BY <1>3, <1>7 DEF Target, WInv, PageFits, IsCall
  <2> HIDE DEF ref
  <2>6. /\ call'.queue = <<>> /\ IsCall(call') /\ call'.step = call.step /\ call'.hits = call.hits
        /\ call'.pc = "act" /\ call'.ref = ref /\ call'.recovering = call.recovering
    BY <1>5, <2>5 DEF WInv, PageFits, IsCall, Marked
  <2>7. Marked(mark, call)' /\ Landed(call)'
    BY <1>4, <2>4, <2>6 DEF ref, Marked, WInv, Landed
  <2>8. PageFits'
    BY <1>5, <2>6 DEF PageFits, WInv
  <2>9. QED
    BY <2>7, <2>8 DEF WInv
<1>8. QED
  BY <1>6, <1>7

LEMMA RecoverAims ==
    ASSUME WInv, Recover
    PROVE  WInv'
<1> DEFINE all  == Fallbacks(call.step, call.act)
           refs == Untried(all, call.ref)
<1>1. /\ mark' = Marks(RanUpTo(all, 0))
      /\ call' = IF refs = <<>> THEN End("failed")
                 ELSE [Target(Head(refs), call.act) EXCEPT
                          !.queue = Tail(refs), !.recovering = TRUE, !.tries = 0]
      /\ call.pc = "recover" /\ UNCHANGED <<dom, steps, shown>>
  BY DEF Recover, Still
<1>2. /\ \E S : refs \in Seq(S)
      /\ \A i \in DOMAIN refs : Aimed(mark', refs[i])
      /\ mark' = [a \in Finders |-> mark'[a]]
  BY <1>1, UntriedAim
<1> HIDE DEF all, refs
<1>3. CASE refs = <<>>
  BY <1>1, <1>2, <1>3 DEF WInv, PageFits, Marked, Landed, IsCall, End
<1>4. CASE refs # <<>>
  <2>1. PICK S : refs \in Seq(S)
    BY <1>2
  <2>2. /\ Head(refs) = refs[1] /\ 1 \in DOMAIN refs /\ Tail(refs) \in Seq(S)
        /\ \A i \in DOMAIN Tail(refs) : i + 1 \in DOMAIN refs /\ Tail(refs)[i] = refs[i + 1]
    BY <1>4, <2>1
  <2> DEFINE h == Head(refs)
             t == Tail(refs)
  <2>3. Aimed(mark', h) /\ \A i \in DOMAIN t : Aimed(mark', t[i])
    BY <1>2, <2>2
  <2>4. call' = [call EXCEPT !.pc = "act", !.ref = h, !.queue = t, !.recovering = TRUE, !.tries = 0]
    BY <1>1, <1>4 DEF Target, WInv, PageFits, IsCall
  <2> HIDE DEF h, t
  <2>5. /\ call'.pc = "act" /\ call'.ref = h /\ call'.queue = t /\ call'.recovering
        /\ call'.hits = call.hits /\ call'.step = call.step /\ IsCall(call')
    BY <2>4 DEF WInv, PageFits, IsCall
  <2>6. Marked(mark, call)' /\ Landed(call)'
    BY <1>2, <2>2, <2>3, <2>5 DEF Marked, WInv, Landed, t
  <2>7. PageFits'
    BY <1>1, <2>5 DEF PageFits, WInv
  <2>8. QED
    BY <2>6, <2>7 DEF WInv
<1>5. QED
  BY <1>3, <1>4

LEMMA AttemptAims ==
    ASSUME WInv, CannotAct \/ DoAction \/ StartSelecting \/ EndSelecting
    PROVE  WInv'
<1>1. UNCHANGED <<dom, steps, shown, mark>>
  BY DEF CannotAct, DoAction, StartSelecting, EndSelecting, Still
<1>2. SUFFICES IsCall(call') /\ call'.step = call.step /\ Marked(mark, call') /\ Landed(call')
  BY <1>1 DEF WInv, PageFits, Marked
<1>3. IsCall(call) /\ Marked(mark, call) /\ Landed(call)
  BY DEF WInv, PageFits
<1>4. \A e, hits : e \in Targets(call.ref) /\ Targets(call.ref) # {} /\ call.pc = "act"
                     /\ hits = Append(call.hits, [ref |-> call.ref, got |-> e])
         => AsFound(hits)
  <2>1. SUFFICES ASSUME NEW e, NEW hits, e \in Targets(call.ref), Targets(call.ref) # {}, call.pc = "act",
                        hits = Append(call.hits, [ref |-> call.ref, got |-> e])
                 PROVE  AsFound(hits)
    OBVIOUS
  <2>2. call.ref.by # "name" => e = call.ref.el
    BY <2>1, TargetsOne DEF WInv, Marked
  <2>3. PICK S : call.hits \in Seq(S)
    BY DEF WInv, Landed, AsFound
  <2> DEFINE new == [ref |-> call.ref, got |-> e]
  <2>4. new.ref = call.ref /\ new.got = e
    OBVIOUS
  <2> HIDE DEF new
  <2>5. /\ hits \in Seq(S \union {new}) /\ DOMAIN hits = 1..(Len(call.hits) + 1) /\ DOMAIN call.hits = 1..Len(call.hits)
        /\ \A i \in DOMAIN call.hits : hits[i] = call.hits[i]
        /\ hits[Len(call.hits) + 1] = new
    <3>1. hits = Append(call.hits, new)
      BY <2>1 DEF new
    <3>2. call.hits \in Seq(S \union {new})
      BY <2>3
    <3>3. QED
      BY <3>1, <3>2
  <2>6. \A i \in DOMAIN hits : i \in DOMAIN call.hits \/ i = Len(call.hits) + 1
    BY <2>3, <2>5
  <2>7. QED
    BY <2>2, <2>4, <2>5, <2>6 DEF WInv, Landed, AsFound
<1>5. CASE CannotAct
  <2>1. PICK t \in BOOLEAN : call' = Retry(t) /\ call.pc = "act"
    BY <1>5 DEF CannotAct
  <2>2. call' = [Retry(t) EXCEPT !.hits = call.hits, !.lates = call.lates]
    BY <1>3, <2>1, RetryKeeps
  <2>3. AsFound(call.hits) /\ call.pc \in {"act", "select"}
    BY <1>3, <2>1 DEF Landed
  <2>4. QED
    BY <1>3, <2>2, <2>3, RetryFits
<1>6. CASE DoAction
  <2>1. PICK hits : /\ hits = Append(call.hits, [ref |-> call.ref, got |-> Struck])
                    /\ Targets(call.ref) # {} /\ call.pc = "act"
                    /\ \/ call' = [Passed EXCEPT !.hits = hits]
                       \/ call' = [Retry(TRUE) EXCEPT !.hits = hits, !.lates = call.lates + 1]
    <3>1. PICK hits : /\ hits = Append(call.hits, [ref |-> call.ref, got |-> Struck])
                      /\ Targets(call.ref) # {} /\ call.pc = "act"
                      /\ \/ call' = [Passed EXCEPT !.hits = hits]
                         \/ call' = [Retry(TRUE) EXCEPT !.hits = hits, !.lates = @ + 1]
      BY <1>6 DEF DoAction, Matched
    <3>2. [Retry(TRUE) EXCEPT !.hits = hits, !.lates = @ + 1]
          = [Retry(TRUE) EXCEPT !.hits = hits, !.lates = call.lates + 1]
      BY <1>3, RetryCounts
    <3>3. QED
      BY <3>1, <3>2
  <2>2. AsFound(hits)
    BY <1>4, <2>1, StruckMatches DEF WInv
  <2>3. CASE call' = [Passed EXCEPT !.hits = hits]
    <3>1. call' = [call EXCEPT !.pc = "done", !.result = "passed", !.hits = hits]
      BY <2>3 DEF Passed, End
    <3>2. /\ IsCall(call') /\ call'.step = call.step /\ call'.hits = hits /\ call'.queue = call.queue
          /\ call'.recovering = call.recovering /\ call'.pc = "done"
      BY <1>3, <3>1 DEF IsCall
    <3>3. QED
      BY <1>3, <2>2, <3>2 DEF Marked, Landed
  <2>4. CASE call' = [Retry(TRUE) EXCEPT !.hits = hits, !.lates = call.lates + 1]
    BY <1>3, <2>1, <2>2, <2>4, RetryFits
  <2>5. QED
    BY <2>1, <2>3, <2>4
<1>7. CASE StartSelecting
  <2>1. PICK hits : /\ hits = Append(call.hits, [ref |-> call.ref, got |-> Min(Targets(call.ref))])
                    /\ Targets(call.ref) # {} /\ call.pc = "act"
                    /\ call' = [call EXCEPT !.pc = "select", !.hits = hits]
    BY <1>7 DEF StartSelecting, Matched
  <2>2. AsFound(hits)
    <3>1. Min(Targets(call.ref)) \in Targets(call.ref)
      BY <2>1, MatchesInDom, MinIs DEF WInv
    <3>2. QED
      BY <1>4, <2>1, <3>1
  <2>3. /\ IsCall(call') /\ call'.step = call.step /\ call'.hits = hits /\ call'.queue = call.queue
        /\ call'.recovering = call.recovering /\ call'.pc = "select" /\ call'.ref = call.ref
    BY <1>3, <2>1 DEF IsCall
  <2>4. QED
    BY <1>3, <2>1, <2>2, <2>3 DEF Marked, Landed
<1>8. CASE EndSelecting
  <2>1. (call' = End("passed") \/ \E t \in BOOLEAN : call' = Retry(t)) /\ call.pc = "select"
    BY <1>8 DEF EndSelecting, Transient
  <2>2. CASE call' = End("passed")
    BY <1>3, <2>2, EndFits
  <2>3. CASE \E t \in BOOLEAN : call' = Retry(t)
    <3>0. PICK t \in BOOLEAN : call' = Retry(t)
      BY <2>3
    <3>1. call' = [Retry(t) EXCEPT !.hits = call.hits, !.lates = call.lates]
      BY <1>3, <3>0, RetryKeeps
    <3>2. AsFound(call.hits) /\ call.pc \in {"act", "select"}
      BY <1>3, <2>1 DEF Landed
    <3>3. QED
      BY <1>3, <3>1, <3>2, RetryFits
  <2>4. QED
    BY <2>1, <2>2, <2>3
<1>9. QED
  BY <1>5, <1>6, <1>7, <1>8

LEMMA StepsAim ==
    ASSUME WInv, [Next]_vars
    PROVE  WInv'
<1>1. IsCall(call) /\ Marked(mark, call) /\ Landed(call)
  BY DEF WInv, PageFits
<1>2. CASE Ground
  <2>1. /\ UNCHANGED <<dom, steps, shown, mark>> /\ call.pc = "ground"
        /\ \/ \E e \in shown : call' = Target(RefTo("name", e), call.act)
           \/ call' = [call EXCEPT !.pc = "fall"]
    BY <1>2 DEF Ground, Still
  <2>2. CASE \E e \in shown : call' = Target(RefTo("name", e), call.act)
    <3>0. PICK e : call' = Target(RefTo("name", e), call.act)
      BY <2>2
    <3> DEFINE ref == RefTo("name", e)
    <3>1. Aimed(mark, ref) /\ call' = [call EXCEPT !.pc = "act", !.ref = ref]
      BY <1>1, <3>0 DEF Target, RefTo, Aimed, IsCall
    <3> HIDE DEF ref
    <3>2. /\ IsCall(call') /\ call'.step = call.step /\ call'.hits = call.hits /\ call'.queue = call.queue
          /\ call'.recovering = call.recovering /\ call'.pc = "act" /\ call'.ref = ref
      BY <1>1, <3>1 DEF IsCall
    <3>3. QED
      BY <1>1, <2>1, <3>1, <3>2 DEF WInv, PageFits, Marked, Landed
  <2>3. CASE call' = [call EXCEPT !.pc = "fall"]
    <3>1. /\ IsCall(call') /\ call'.step = call.step /\ call'.hits = call.hits /\ call'.queue = call.queue
          /\ call'.recovering = call.recovering /\ call'.pc = "fall"
      BY <1>1, <2>3 DEF IsCall
    <3>2. QED
      BY <1>1, <2>1, <3>1 DEF WInv, PageFits, Marked, Landed
  <2>4. QED
    BY <2>1, <2>2, <2>3
<1>3. CASE NextStep
  <2>1. /\ UNCHANGED <<dom, shown, mark>> /\ steps # <<>> /\ steps' = Tail(steps)
        /\ call' = NewCall(Head(steps), call.n + 1)
    BY <1>3 DEF NextStep
  <2>2. Head(steps) \in Step /\ Tail(steps) \in Seq(Step)
    BY <2>1 DEF WInv, PageFits
  <2>3. mark' = [a \in Finders |-> mark'[a]]
    BY <1>1, <2>1 DEF Marked
  <2>4. QED
    BY <2>1, <2>2, <2>3, NewCallFits DEF WInv, PageFits
<1>4. CASE Rerender
  <2>1. PICK e : mark' = [a \in Finders |-> mark[a] \ {e}]
    BY <1>4 DEF Rerender
  <2>2. \A r : Aimed(mark, r) => Aimed(mark', r)
    BY <2>1 DEF Aimed
  <2>3. UNCHANGED <<dom, shown, steps, call>>
    BY <1>4 DEF Rerender
  <2>4. QED
    BY <1>1, <2>1, <2>2, <2>3 DEF WInv, PageFits, Marked
<1>5. CASE DialogFlips
  <2>1. shown' \subseteq DOMAIN dom /\ UNCHANGED <<dom, mark, steps, call>>
    BY <1>5 DEF DialogFlips, InDialog, WInv, PageFits
  <2>2. QED
    BY <2>1 DEF WInv, PageFits
<1>6. CASE ControlFlips
  <2>1. call' = [call EXCEPT !.outside = TRUE] /\ UNCHANGED <<dom, shown, mark, steps>>
    BY <1>6 DEF ControlFlips
  <2>2. /\ IsCall(call') /\ call'.step = call.step /\ call'.hits = call.hits /\ call'.queue = call.queue
        /\ call'.recovering = call.recovering /\ call'.pc = call.pc /\ call'.ref = call.ref
    BY <1>1, <2>1 DEF IsCall
  <2>3. QED
    BY <1>1, <2>1, <2>2 DEF WInv, PageFits, Marked, Landed
<1>7. CASE Select \/ UNCHANGED vars
  <2>1. UNCHANGED <<dom, shown, mark, steps, call>>
    BY <1>7 DEF Select, vars, pageVars
  <2>2. QED
    BY <2>1 DEF WInv, PageFits
<1>8. QED
  BY <1>2, <1>3, <1>4, <1>5, <1>6, <1>7, ResolveAims, FallBackAims, RecoverAims, AttemptAims DEF Next, Script

LEMMA StepsInvariant == Spec => []WInv
<1>1. Init => WInv
  BY StepsInitially
<1>2. WInv /\ [Next]_vars => WInv'
  BY StepsAim
<1>3. QED
  BY <1>1, <1>2, PTL DEF Spec

\* Whatever re-renders, opens or closes between a finder and its action, and
\* whatever earlier steps marked, the action lands on the element that was found.
THEOREM ActionsLandWhereFound == Spec => []LandsWhereFound
<1>1. WInv => LandsWhereFound
  <2>1. SUFFICES ASSUME WInv, NEW h \in Range(call.hits), h.ref.by # "name" PROVE h.got = h.ref.el
    BY DEF LandsWhereFound
  <2>2. PICK i \in DOMAIN call.hits : h = call.hits[i]
    BY <2>1 DEF Range
  <2>3. QED
    BY <2>1, <2>2 DEF WInv, Landed, AsFound
<1>2. QED
  BY <1>1, StepsInvariant, PTL
-----------------------------------------------------------------------------
\* What a scan of the page returns is one of the elements it scanned.
LEMMA MaxIs ==
    ASSUME NEW S, S \subseteq Int, S # {}, IsFiniteSet(S)
    PROVE  Max(S) \in S /\ \A y \in S : Max(S) >= y
<1> DEFINE Top(T, x) == x \in T /\ \A y \in T : x >= y
           Bad == {n \in Nat : \E T \in SUBSET Int : /\ T # {} /\ IsFiniteSet(T) /\ Cardinality(T) = n
                                                     /\ \A x \in T : ~Top(T, x)}
<1>1. Bad = {}
  <2>1. SUFFICES ASSUME Bad # {} PROVE FALSE
    OBVIOUS
  <2>2. PICK n \in Bad : \A k \in Bad : n <= k
    BY <2>1, MinIs
  <2>3. PICK T \in SUBSET Int : /\ T # {} /\ IsFiniteSet(T) /\ Cardinality(T) = n
                                /\ \A x \in T : ~Top(T, x)
    BY <2>2
  <2>4. PICK x \in T : TRUE
    BY <2>3
  <2>5. IsFiniteSet(T \ {x}) /\ Cardinality(T \ {x}) = n - 1 /\ n - 1 \in Nat
    <3> HIDE DEF Bad, Top
    <3>1. IsFiniteSet(T \ {x}) /\ Cardinality(T \ {x}) = Cardinality(T) - 1
      BY <2>3, <2>4, FS_RemoveElement
    <3>2. QED
      BY <2>3, <3>1, FS_CardinalityType
  <2>6. T \ {x} # {}
    BY <2>3, <2>4
  <2>7. n - 1 \notin Bad
    BY <2>2, <2>5
  <2>8. PICK m \in T \ {x} : Top(T \ {x}, m)
    <3>1. T \ {x} \in SUBSET Int
      OBVIOUS
    <3> HIDE DEF Top
    <3>2. QED
      BY <2>5, <2>6, <2>7, <3>1
  <2>9. Top(T, x) \/ Top(T, m)
    BY <2>4, <2>8
  <2>10. QED
    BY <2>3, <2>4, <2>8, <2>9
<1>2. PICK x \in S : Top(S, x)
  <2>1. Cardinality(S) \in Nat
    BY FS_CardinalityType
  <2>2. QED
    BY <1>1, <2>1
<1>3. QED
  BY <1>2 DEF Max

LEMMA BestScanned ==
    ASSUME NEW S, S \subseteq Nat, IsFiniteSet(S), NEW score, \A i \in S : score[i] \in Int
    PROVE  BestOf(S, score) \in S \union {None}
<1>1. CASE S = {}
  BY <1>1 DEF BestOf
<1>2. CASE S # {}
  <2> DEFINE scores == {score[i] : i \in S}
             best   == {i \in S : score[i] = Max(scores)}
  <2>1. scores \subseteq Int /\ scores # {} /\ IsFiniteSet(scores)
    <3> DEFINE f == [i \in S |-> score[i]]
    <3>1. f \in Surjection(S, scores)
      BY DEF Surjection
    <3>2. QED
      BY <1>2, <3>1, FS_Surjection
  <2>2. Max(scores) \in scores
    BY <2>1, MaxIs
  <2>3. best # {} /\ best \subseteq Nat
    BY <2>2
  <2>4. Min(best) \in best
    BY <2>3, MinIs
  <2>5. BestOf(S, score) = Min(best)
    BY <1>2 DEF BestOf
  <2>6. QED
    BY <2>4, <2>5
<1>3. QED
  BY <1>1, <1>2

LEMMA ShareType ==
    ASSUME NEW n \in Nat, NEW tokens, tokens \subseteq Word
    PROVE  Share(n, tokens) \in Int
<1>1. CASE tokens = {}
  BY <1>1 DEF Share
<1>2. CASE tokens # {}
  <2>1. IsFiniteSet(tokens)
    BY WordAssumption, FS_Subset
  <2>2. Cardinality(tokens) \in Nat /\ Cardinality(tokens) # 0
    BY <1>2, <2>1, FS_CardinalityType, FS_EmptySet
  <2> DEFINE k == Cardinality(tokens)
  <2> HIDE DEF k
  <2>3. k \in Nat \ {0} => (Unit * n) \div k \in Int
    BY DEF Unit
  <2>4. QED
    BY <1>2, <2>2, <2>3 DEF Share, k
<1>3. QED
  BY <1>1, <1>2

LEMMA OverlapsType ==
    ASSUME NEW tokens, tokens \subseteq Word, NEW text
    PROVE  Overlap(tokens, text) \in Int /\ WordOverlap(tokens, text) \in Int
<1>1. IsFiniteSet(tokens)
  BY WordAssumption, FS_Subset
<1>2. Hits(tokens, text) \subseteq tokens
  BY DEF Hits
<1>3. Cardinality(Hits(tokens, text)) \in Nat /\ Cardinality(tokens \cap text) \in Nat
  BY <1>1, <1>2, FS_Subset, FS_CardinalityType
<1>4. QED
  BY <1>3, ShareType DEF Overlap, WordOverlap

\* The score of an option: what its label gives, and its section.
Base(e, phrase) ==
    LET cover == WordOverlap(phrase, e.label)
    IN  cover - (IF cover > 0 THEN 500 * Min({Cardinality(e.label \ phrase), 4}) ELSE 0)

LEMMA OptionType ==
    ASSUME NEW e \in Element, NEW phrase \in Text, NEW ctx \in Text
    PROVE  /\ OptionScore(e, phrase, ctx) \in Int
           /\ WordOverlap(phrase, e.label) \in Int
           /\ Overlap(Context(ctx, phrase), e.section) \div 2 \in Int
           /\ Base(e, phrase) \in Int
           /\ OptionScore(e, phrase, ctx) = Base(e, phrase) + Overlap(Context(ctx, phrase), e.section) \div 2
<1>1. e.label \in Text /\ Context(ctx, phrase) \subseteq Word /\ phrase \subseteq Word
  BY DEF Element, Context, Text
<1>2. WordOverlap(phrase, e.label) \in Int /\ Overlap(Context(ctx, phrase), e.section) \in Int
  BY <1>1, OverlapsType
<1>3. Min({Cardinality(e.label \ phrase), 4}) \in Int
  <2>1. Cardinality(e.label \ phrase) \in Nat
    BY <1>1, WordAssumption, FS_Subset, FS_CardinalityType DEF Text
  <2>2. {Cardinality(e.label \ phrase), 4} \subseteq Nat /\ {Cardinality(e.label \ phrase), 4} # {}
    BY <2>1
  <2>3. QED
    BY <2>2, MinIs
<1> DEFINE a == WordOverlap(phrase, e.label)
           b == Overlap(Context(ctx, phrase), e.section)
           m == Min({Cardinality(e.label \ phrase), 4})
<1>4. /\ OptionScore(e, phrase, ctx) = a - (IF a > 0 THEN 500 * m ELSE 0) + b \div 2
      /\ Base(e, phrase) = a - (IF a > 0 THEN 500 * m ELSE 0)
  BY DEF OptionScore, Base
<1> HIDE DEF a, b, m
<1>5. a \in Int /\ b \in Int /\ m \in Int => /\ a - (IF a > 0 THEN 500 * m ELSE 0) + b \div 2 \in Int
                                               /\ b \div 2 \in Int /\ a - (IF a > 0 THEN 500 * m ELSE 0) \in Int
  OBVIOUS
<1>6. QED
  BY <1>2, <1>3, <1>4, <1>5 DEF a, b, m

\* A panel or a checkbox that is claimed is a panel or a checkbox.
LEMMA ControlFound ==
    ASSUME PageFits, NEW phrase \in Text, NEW ctx \in Text
    PROVE  /\ LET e == FindCheckbox(dom, shown, phrase, ctx) IN e # None => dom[e].kind = "checkbox"
           /\ LET e == FindCollapse(dom, shown, phrase, ctx) IN e # None => dom[e].kind = "collapse"
<1>1. IsFiniteSet(shown) /\ shown \subseteq Nat /\ \A i \in shown : dom[i] \in Element
  <2>1. IsFiniteSet(DOMAIN dom)
    BY FS_Interval DEF PageFits
  <2>2. QED
    BY <2>1, FS_Subset DEF PageFits
<1>2. \A S \in SUBSET shown : \A i \in S : Rank(S, i) \in Nat
  BY <1>1, FS_Subset, FS_CardinalityType DEF Rank
<1>3. \A i \in shown : /\ OptionScore(dom[i], phrase, ctx) \in Int
                         /\ WordOverlap(phrase, dom[i].label) \in Int
                         /\ Overlap(Context(ctx, phrase), dom[i].section) \div 2 \in Int
  BY <1>1, OptionType
<1>4. ASSUME NEW S \in SUBSET shown, NEW score, \A i \in S : score[i] \in Int
      PROVE  LET e == Claimed(score, BestOf(S, score)) IN e # None => e \in S
  <2>1. BestOf(S, score) \in S \union {None}
    BY <1>1, <1>4, BestScanned, FS_Subset
  <2>2. QED
    BY <2>1 DEF Claimed
<1>5. LET e == FindCheckbox(dom, shown, phrase, ctx) IN e # None => dom[e].kind = "checkbox"
  <2> DEFINE S     == Boxed(dom, shown, "checkbox")
             score == [i \in S |-> OptionScore(dom[i], phrase, ctx) - Rank(S, i)]
  <2>1. S \subseteq shown /\ \A i \in S : dom[i].kind = "checkbox"
    BY DEF Boxed, Scoped, Of
  <2>2. FindCheckbox(dom, shown, phrase, ctx) = Claimed(score, BestOf(S, score))
    BY DEF FindCheckbox
  <2>3. \A i \in S : score[i] \in Int
    <3>1. \A i \in S : score[i] = OptionScore(dom[i], phrase, ctx) - Rank(S, i)
      OBVIOUS
    <3> HIDE DEF S, score
    <3>2. QED
      BY <1>2, <1>3, <2>1, <3>1
  <2> HIDE DEF S, score
  <2>4. QED
    BY <1>4, <2>1, <2>2, <2>3
<1>6. LET e == FindCollapse(dom, shown, phrase, ctx) IN e # None => dom[e].kind = "collapse"
  <2> DEFINE S     == Of(dom, shown, {"collapse"})
             score == [i \in S |-> WordOverlap(phrase, dom[i].label)
                                   + Overlap(Context(ctx, phrase), dom[i].section) \div 2 - Rank(S, i)]
  <2>1. S \subseteq shown /\ \A i \in S : dom[i].kind = "collapse"
    BY DEF Of
  <2>2. FindCollapse(dom, shown, phrase, ctx) = Claimed(score, BestOf(S, score))
    BY DEF FindCollapse
  <2>3. \A i \in S : score[i] \in Int
    <3> DEFINE x(i) == WordOverlap(phrase, dom[i].label)
               y(i) == Overlap(Context(ctx, phrase), dom[i].section) \div 2
    <3>1. \A i \in S : score[i] = x(i) + (y(i) - Rank(S, i))
      OBVIOUS
    <3> HIDE DEF S, score
    <3>2. \A i \in S : x(i) \in Int /\ y(i) \in Int
      BY <1>3, <2>1
    <3> HIDE DEF x, y
    <3>3. QED
      BY <1>2, <2>1, <3>1, <3>2
  <2> HIDE DEF S, score
  <2>4. QED
    BY <1>4, <2>1, <2>2, <2>3
<1>7. QED
  BY <1>5, <1>6

\* What the finders of checkboxes and panels make of the step.
LEMMA ClaimsSay ==
    ASSUME PageFits, NEW s \in Step, NEW i \in DOMAIN Claims(s), Claims(s)[i].el # None
    PROVE  LET c == Claims(s)[i] IN
           /\ c.attr = "checkbox" => /\ dom[c.el].kind = "checkbox"
                                     /\ c.act = IF DesiredOff(s) THEN "uncheck" ELSE "check"
           /\ c.attr = "collapse" => dom[c.el].kind = "collapse" /\ c.act = "click"
<1> DEFINE all   == Claims(s)
           names == <<"cell", "link", "header", "range", "file", "dialog", "collapse", "radio", "checkbox", "editor", "input">>
<1>1. i \in 1..11
  BY DEF Claims
<1>2. \A attr, ran, el, act : LET c == Claim(attr, ran, el, act) IN
          c.attr = attr /\ c.act = act /\ (c.el # None => c.el = el)
  BY DEF Claim
<1>3. \A k \in 1..11 : all[k].attr = names[k]
  BY <1>2 DEF Claims, CellClaim, LinkClaim, HeaderClaim, RangeClaim, FileClaim, DialogClaim, PanelClaim,
              RadioClaim, CheckClaim, EditorClaim, InputClaim
<1>4. \A k \in 1..11 : (names[k] = "checkbox" => k = 9) /\ (names[k] = "collapse" => k = 7)
  OBVIOUS
<1>5. all[7] = PanelClaim(s) /\ all[9] = CheckClaim(s)
  BY DEF Claims
<1>6. s.phrase \in Text /\ s.ctx \in Text
  BY DEF Step
<1>7. PanelClaim(s).act = "click"
      /\ (PanelClaim(s).el # None => PanelClaim(s).el = FindCollapse(dom, shown, s.phrase, s.ctx))
  BY <1>2 DEF PanelClaim
<1>8. CheckClaim(s).act = (IF DesiredOff(s) THEN "uncheck" ELSE "check")
      /\ (CheckClaim(s).el # None => CheckClaim(s).el = FindCheckbox(dom, shown, s.phrase, s.ctx))
  BY <1>2 DEF CheckClaim
<1> HIDE DEF all, names
<1>9. QED
  BY <1>1, <1>3, <1>4, <1>5, <1>6, <1>7, <1>8, ControlFound DEF all

\* Where a failed attempt leaves the call.
Left(c, hits, lates) ==
    /\ c.step = call.step /\ c.act = call.act /\ c.claim = call.claim /\ c.outside = call.outside
    /\ c.recovering = call.recovering /\ c.hits = hits /\ c.lates = lates
    /\ c.tries \in {0, call.tries, call.tries + 1}
    /\ \/ /\ c.pc = "act" /\ c.ref = call.ref /\ c.result = call.result
          /\ c.tries = call.tries + 1 /\ call.tries < Retries
       \/ c.pc = "recover" /\ c.ref = call.ref /\ ~call.recovering
       \/ c.pc = "done" /\ c.result = "failed" /\ call.recovering
       \/ c.pc = "act" /\ call.recovering

LEMMA RetryLeft ==
    ASSUME IsCall(call), NEW t, NEW hits, NEW lates
    PROVE  Left([Retry(t) EXCEPT !.hits = hits, !.lates = lates], hits, lates)
<1> DEFINE c == [Retry(t) EXCEPT !.hits = hits, !.lates = lates]
<1>1. CASE t /\ call.tries < Retries
  <2>1. c = [call EXCEPT !.pc = "act", !.tries = call.tries + 1, !.hits = hits, !.lates = lates]
    BY <1>1 DEF Retry, IsCall
  <2> HIDE DEF c
  <2>2. Left(c, hits, lates)
    BY <1>1, <2>1 DEF Left, IsCall
  <2>3. QED
    BY <2>2 DEF c
<1>2. CASE ~(t /\ call.tries < Retries) /\ ~call.recovering
  <2>1. c = [call EXCEPT !.pc = "recover", !.hits = hits, !.lates = lates]
    BY <1>2 DEF Retry, GiveUp, IsCall
  <2> HIDE DEF c
  <2>2. Left(c, hits, lates)
    BY <1>2, <2>1 DEF Left, IsCall
  <2>3. QED
    BY <2>2 DEF c
<1>3. CASE ~(t /\ call.tries < Retries) /\ call.recovering /\ call.queue = <<>>
  <2>1. c = [call EXCEPT !.pc = "done", !.result = "failed", !.hits = hits, !.lates = lates]
    BY <1>3 DEF Retry, GiveUp, End, IsCall
  <2> HIDE DEF c
  <2>2. Left(c, hits, lates)
    BY <1>3, <2>1 DEF Left, IsCall
  <2>3. QED
    BY <2>2 DEF c
<1>4. CASE ~(t /\ call.tries < Retries) /\ call.recovering /\ call.queue # <<>>
  <2> DEFINE h == Head(call.queue)
             q == Tail(call.queue)
  <2>1. c = [call EXCEPT !.pc = "act", !.ref = h, !.queue = q, !.tries = 0, !.hits = hits, !.lates = lates]
    BY <1>4 DEF Retry, GiveUp, Target, IsCall
  <2> HIDE DEF h, q
  <2> HIDE DEF c
  <2>2. Left(c, hits, lates)
    BY <1>4, <2>1 DEF Left, IsCall
  <2>3. QED
    BY <2>2 DEF c
<1>5. QED
  BY <1>1, <1>2, <1>3, <1>4

\* Where the resolvers leave the call.
LEMMA ResolveShape ==
    ASSUME WInv, Resolve
    PROVE  /\ UNCHANGED <<dom, on>> /\ call.pc = "resolve"
           /\ call'.step = call.step /\ call'.hits = call.hits /\ call'.lates = call.lates /\ call'.tries = call.tries
           /\ call'.outside = call.outside /\ call'.recovering = call.recovering /\ call'.queue = call.queue
           /\ \/ call'.pc = "ground" /\ call'.ref = call.ref /\ call'.claim = call.claim /\ call'.act = call.act
              \/ \E i \in DOMAIN Claims(call.step) : LET c == Claims(call.step)[i] IN
                    /\ c.el # None /\ call'.claim = c.attr /\ call'.ref.by # "name"
                    /\ call'.ref.el = c.el /\ call'.ref.attr = c.attr
                    /\ \/ /\ call'.pc = "done" /\ call'.result = "passed" /\ c.attr = "collapse"
                          /\ (c.el \in on) = WantOpen(call.step)
                       \/ /\ call'.pc = "act" /\ call'.act = c.act
                          /\ c.attr = "collapse" => (c.el \in on) # WantOpen(call.step)
<1> DEFINE all   == Claims(call.step)
           I     == {i \in 1..Len(all) : Claiming(call.step, all[i])}
           first == SelectInSeq(all, LAMBDA c : Claiming(call.step, c))
<1>1. first = IF I # {} THEN Min(I) ELSE 0
  BY DEF SelectInSeq
<1>2. DOMAIN all = 1..11 /\ Len(all) = 11
  BY DEF Claims
<1>3. call' = IF first = 0 THEN [call EXCEPT !.pc = "ground"]
              ELSE IF all[first].attr = "collapse" /\ (all[first].el \in on) = WantOpen(call.step)
              THEN [End("passed") EXCEPT !.claim = "collapse", !.ref = RefTo("collapse", all[first].el)]
              ELSE [Target(RefTo(all[first].attr, all[first].el), all[first].act) EXCEPT
                       !.claim = all[first].attr]
  BY DEF Resolve
<1>4. call.pc = "resolve" /\ UNCHANGED <<dom, on>> /\ IsCall(call)
  BY DEF Resolve, Still, WInv, PageFits
<1>5. CASE first = 0
  BY <1>3, <1>4, <1>5 DEF IsCall
<1>6. CASE first # 0
  <2>1. first \in I
    BY <1>1, <1>2, <1>6, MinIs
  <2>2. first \in 1..11 /\ all[first].el # None
    BY <1>2, <2>1 DEF Claiming
  <2>3. all[first].attr \in Finders
    BY <1>2, <2>2, ClaimsFit
  <2> HIDE DEF all, first, I
  <2> DEFINE attr == all[first].attr
             el   == all[first].el
             do   == all[first].act
             ref  == RefTo(attr, el)
  <2>4. ref.by # "name" /\ ref.el = el /\ ref.attr = attr
    BY <2>3 DEF RefTo, Finders
  <2>5. CASE attr = "collapse" /\ (el \in on) = WantOpen(call.step)
    <3>1. call' = [call EXCEPT !.pc = "done", !.result = "passed", !.claim = "collapse", !.ref = ref]
      BY <1>3, <1>4, <1>6, <2>5 DEF End, IsCall
    <3> HIDE DEF ref
    <3>2. /\ call'.step = call.step /\ call'.hits = call.hits /\ call'.lates = call.lates /\ call'.tries = call.tries
          /\ call'.outside = call.outside /\ call'.recovering = call.recovering /\ call'.queue = call.queue
          /\ call'.pc = "done" /\ call'.result = "passed" /\ call'.claim = attr /\ call'.ref = ref
      BY <1>4, <2>5, <3>1 DEF IsCall
    <3>3. QED
      BY <1>2, <1>4, <2>2, <2>4, <2>5, <3>2 DEF all
  <2>6. CASE ~(attr = "collapse" /\ (el \in on) = WantOpen(call.step))
    <3>1. call' = [call EXCEPT !.pc = "act", !.ref = ref, !.act = do, !.claim = attr]
      BY <1>3, <1>4, <1>6, <2>6 DEF Target, IsCall
    <3> HIDE DEF ref
    <3>2. /\ call'.step = call.step /\ call'.hits = call.hits /\ call'.lates = call.lates /\ call'.tries = call.tries
          /\ call'.outside = call.outside /\ call'.recovering = call.recovering /\ call'.queue = call.queue
          /\ call'.pc = "act" /\ call'.act = do /\ call'.claim = attr /\ call'.ref = ref
      BY <1>4, <3>1 DEF IsCall
    <3>3. QED
      BY <1>2, <1>4, <2>2, <2>4, <2>6, <3>2 DEF all
  <2>7. QED
    BY <2>5, <2>6
<1>7. QED
  BY <1>5, <1>6

-----------------------------------------------------------------------------
\* A checkbox or panel that a finder of its kind claimed: it is what the action is
\* aimed at until a recovery, and a passed call has left it as the step says.
Settles(c, o) ==
    c.claim \in {"checkbox", "collapse"} /\ ~c.recovering =>
        /\ c.pc \in {"act", "recover", "done"}
        /\ c.ref.by # "name"
        /\ dom[c.ref.el].kind = c.claim
        /\ c.claim = "checkbox" =>
              /\ c.act = IF DesiredOff(c.step) THEN "uncheck" ELSE "check"
              /\ c.pc = "done" /\ c.result = "passed" /\ ~c.outside => (c.ref.el \in o <=> ~DesiredOff(c.step))
        /\ c.claim = "collapse" =>
              /\ c.pc = "act" => /\ c.act = "click" /\ c.lates <= c.tries /\ c.tries <= Retries
                                 /\ ~c.outside => (c.ref.el \in o <=> (~WantOpen(c.step) <=> c.lates = 0))
              /\ c.pc = "done" /\ c.result = "passed" /\ ~c.outside
                    => (c.ref.el \in o <=> (WantOpen(c.step) <=> c.lates = 0))

\* Every attempt that did something but the last was reported late.
Once(c) ==
    /\ c.lates \in Nat /\ c.tries \in Nat
    /\ c.pc \in {"resolve", "ground", "fall"} => c.hits = <<>> /\ c.lates = 0 /\ c.tries = 0
    /\ c.pc = "select" => c.act = "select"
    /\ c.act # "select" => Len(c.hits) <= c.lates + IF c.pc = "done" THEN 1 ELSE 0

DoneInv == WInv /\ Settles(call, on) /\ Once(call)

\* What an attempt does to a control it is aimed at.
LEMMA EffectSettles ==
    ASSUME WInv, Settles(call, on), call.pc = "act", Targets(call.ref) # {}, ~call.recovering,
           call.claim \in {"checkbox", "collapse"}, on' = Effect(Struck)
    PROVE  /\ call.claim = "checkbox" => (call.ref.el \in on' <=> ~DesiredOff(call.step))
           /\ call.claim = "collapse" => (call.ref.el \in on' <=> ~(call.ref.el \in on))
<1> DEFINE e == call.ref.el
<1>1. Struck = e
  BY TargetsOne, StruckMatches DEF WInv, Marked, Settles
<1>2. dom[e].kind = call.claim
  BY DEF Settles
<1>3. CASE call.claim = "checkbox"
  <2>1. call.act = (IF DesiredOff(call.step) THEN "uncheck" ELSE "check")
    BY <1>3 DEF Settles
  <2>2. Clicked(e) = IF e \in on THEN on \ {e} ELSE on \union {e}
    BY <1>2, <1>3 DEF Clicked
  <2>3. on' = SetCheckbox(e, call.act = "check")
    BY <1>1, <1>2, <1>3, <2>1 DEF Effect, Clicks
  <2>4. CASE DesiredOff(call.step)
    <3>1. call.act = "uncheck"
      BY <2>1, <2>4
    <3>2. on' = IF (e \in on) = FALSE THEN on ELSE Clicked(e)
      BY <2>3, <3>1 DEF SetCheckbox
    <3>3. QED
      BY <1>3, <2>2, <2>4, <3>2
  <2>5. CASE ~DesiredOff(call.step)
    <3>1. call.act = "check"
      BY <2>1, <2>5
    <3>2. on' = IF (e \in on) = TRUE THEN on ELSE Clicked(e)
      BY <2>3, <3>1 DEF SetCheckbox
    <3>3. QED
      BY <1>3, <2>2, <2>5, <3>2
  <2>6. QED
    BY <2>4, <2>5
<1>4. CASE call.claim = "collapse"
  <2>1. call.act = "click"
    BY <1>4 DEF Settles
  <2>2. on' = IF e \in on THEN on \ {e} ELSE on \union {e}
    BY <1>1, <1>2, <1>4, <2>1 DEF Effect, Clicked, Clicks
  <2>3. QED
    BY <1>4, <2>2
<1>5. QED
  BY <1>3, <1>4

LEMMA SettlesInitially == Init => Settles(call, on) /\ Once(call)
<1>1. SUFFICES ASSUME NEW s, call = NewCall(s, 1) PROVE Settles(call, on) /\ Once(call)
  BY DEF Init
<1>2. /\ call.claim = "none" /\ call.pc = "resolve" /\ call.hits = <<>>
      /\ call.lates = 0 /\ call.tries = 0
  BY <1>1 DEF NewCall
<1>3. Len(<<>>) = 0
  OBVIOUS
<1>4. QED
  BY <1>2, <1>3 DEF Settles, Once

LEMMA StepsSettle ==
    ASSUME DoneInv, [Next]_vars
    PROVE  (Settles(call, on) /\ Once(call))'
<1>1. WInv /\ IsCall(call) /\ Settles(call, on) /\ Once(call) /\ PageFits
  BY DEF DoneInv, WInv, PageFits
<1>0. IsCall(call)
  BY <1>1
<1>13. \A r : Target(r, call.act) = [call EXCEPT !.pc = "act", !.ref = r]
  BY <1>0 DEF Target, IsCall
<1>2. \A t : Retry(t) = [Retry(t) EXCEPT !.hits = call.hits, !.lates = call.lates]
  BY <1>1, RetryKeeps
<1>14. \A x : Len(Append(call.hits, x)) = Len(call.hits) + 1 /\ Len(call.hits) \in Nat
  <2>1. PICK S : call.hits \in Seq(S)
    BY <1>1 DEF WInv, Landed, AsFound
  <2>2. QED
    BY <2>1
<1>15. Retries \in {0, 1} /\ Len(<<>>) = 0
  BY RetriesAssumption
<1>16. Len(call.hits) \in Nat /\ call.lates \in Nat /\ call.tries \in Nat
  BY <1>1, <1>14 DEF Once
<1>17. ASSUME call'.lates \in Nat, call'.tries \in Nat, call'.pc \notin {"resolve", "ground", "fall", "select"},
              call'.act = call.act, Len(call'.hits) \in Nat,
              call.act # "select" => Len(call'.hits) <= call'.lates
       PROVE  Once(call)'
  <2>1. call'.act # "select" => Len(call'.hits) <= call'.lates + IF call'.pc = "done" THEN 1 ELSE 0
    BY <1>17
  <2>2. QED
    BY <1>17, <2>1 DEF Once
<1>3. CASE Resolve
  <2>1. ~call.recovering /\ call.hits = <<>> /\ call.pc = "resolve"
    BY <1>1, <1>3, ResolveShape DEF WInv, Marked, Once
  <2>2. call.claim \notin {"checkbox", "collapse"}
    BY <1>1, <2>1 DEF Settles
  <2>3. CASE call'.pc = "ground" /\ call'.claim = call.claim /\ call'.act = call.act
    BY <1>1, <1>3, <2>1, <2>2, <2>3, ResolveShape DEF Settles, Once
  <2>4. CASE \E i \in DOMAIN Claims(call.step) : LET c == Claims(call.step)[i] IN
                    /\ c.el # None /\ call'.claim = c.attr /\ call'.ref.by # "name" /\ call'.ref.el = c.el
                    /\ \/ /\ call'.pc = "done" /\ call'.result = "passed" /\ c.attr = "collapse"
                          /\ (c.el \in on) = WantOpen(call.step)
                       \/ /\ call'.pc = "act" /\ call'.act = c.act
                          /\ c.attr = "collapse" => (c.el \in on) # WantOpen(call.step)
    <3>1. PICK i \in DOMAIN Claims(call.step) : LET c == Claims(call.step)[i] IN
                    /\ c.el # None /\ call'.claim = c.attr /\ call'.ref.by # "name" /\ call'.ref.el = c.el
                    /\ \/ /\ call'.pc = "done" /\ call'.result = "passed" /\ c.attr = "collapse"
                          /\ (c.el \in on) = WantOpen(call.step)
                       \/ /\ call'.pc = "act" /\ call'.act = c.act
                          /\ c.attr = "collapse" => (c.el \in on) # WantOpen(call.step)
      BY <2>4
    <3>2. LET c == Claims(call.step)[i] IN
           /\ c.attr = "checkbox" => /\ dom[c.el].kind = "checkbox"
                                     /\ c.act = IF DesiredOff(call.step) THEN "uncheck" ELSE "check"
           /\ c.attr = "collapse" => dom[c.el].kind = "collapse" /\ c.act = "click"
      BY <1>1, <3>1, ClaimsSay DEF PageFits
    <3> DEFINE c == Claims(call.step)[i]
    <3> HIDE DEF c
    <3>3. UNCHANGED <<dom, on>> /\ call'.step = call.step /\ call'.hits = call.hits
          /\ call'.lates = call.lates /\ call'.tries = call.tries /\ call.lates = 0 /\ call.tries = 0
      BY <1>1, <1>3, <2>1, ResolveShape DEF Once
    <3>4. Once(call)'
      <4>1. call'.pc \in {"act", "done"}
        BY <3>1
      <4>2. call'.act # "select" => Len(call'.hits) <= call'.lates + IF call'.pc = "done" THEN 1 ELSE 0
        BY <1>15, <2>1, <3>3
      <4>3. QED
        BY <3>3, <4>1, <4>2 DEF Once
    <3>5. /\ call'.claim = c.attr /\ call'.ref.by # "name" /\ call'.ref.el = c.el
          /\ \/ /\ call'.pc = "done" /\ c.attr = "collapse"
                /\ c.el \in on <=> WantOpen(call.step)
             \/ /\ call'.pc = "act" /\ call'.act = c.act
                /\ c.attr = "collapse" => (c.el \in on <=> ~WantOpen(call.step))
      BY <3>1 DEF c, WantOpen
    <3>6. Settles(call, on)'
      <4>1. WantOpen(call.step) \in BOOLEAN /\ DesiredOff(call.step) \in BOOLEAN
        BY DEF WantOpen, DesiredOff
      <4>2. /\ c.attr = "checkbox" => /\ dom[c.el].kind = "checkbox"
                                      /\ c.act = IF DesiredOff(call.step) THEN "uncheck" ELSE "check"
            /\ c.attr = "collapse" => dom[c.el].kind = "collapse" /\ c.act = "click"
        BY <3>2 DEF c
      <4>3. DesiredOff(call'.step) = DesiredOff(call.step) /\ WantOpen(call'.step) = WantOpen(call.step)
        BY <3>3
      <4>4. 0 <= 0 /\ 0 <= Retries
        BY <1>15
      <4>5. QED
        BY <3>3, <3>5, <4>1, <4>2, <4>3, <4>4 DEF Settles
    <3>7. QED
      BY <3>4, <3>6
  <2>5. QED
    BY <1>1, <1>3, <2>3, <2>4, ResolveShape
<1>4. CASE Ground \/ FallBack
  <2>1. UNCHANGED <<dom, on>> /\ call.pc \in {"ground", "fall"}
    BY <1>4 DEF Ground, FallBack, Still
  <2>2. call.hits = <<>> /\ ~call.recovering /\ call.lates = 0 /\ call.tries = 0
    BY <1>1, <2>1 DEF Once, WInv, Marked
  <2>3. call.claim \notin {"checkbox", "collapse"}
    BY <1>1, <2>1, <2>2 DEF Settles
  <2>4. \/ \E r : call' = [call EXCEPT !.pc = "act", !.ref = r]
        \/ call' = [call EXCEPT !.pc = "fall"] \/ call' = [call EXCEPT !.pc = "done", !.result = "failed"]
        \/ call' = call
    <3> HIDE DEF IsCall
    <3>1. CASE Ground
      BY <1>13, <3>1 DEF Ground
    <3>2. CASE FallBack
      <4> DEFINE all   == Fallbacks(call.step, call.act)
                 first == SelectInSeq(all, LAMBDA c : c.el # None)
                 ref   == RefTo(all[first].attr, all[first].el)
      <4>1. call' = Target(ref, call.act) \/ call' = call \/ call' = End("failed")
        BY <3>2 DEF FallBack
      <4> HIDE DEF ref
      <4>2. QED
        BY <1>13, <4>1 DEF End
    <3>3. QED
      BY <1>4, <3>1, <3>2
  <2>5. /\ call'.claim = call.claim /\ call'.hits = call.hits /\ call'.pc # "select"
        /\ call'.lates = call.lates /\ call'.tries = call.tries
    <3>1. CASE \E r : call' = [call EXCEPT !.pc = "act", !.ref = r]
      BY <1>1, <3>1 DEF IsCall
    <3>2. CASE call' = [call EXCEPT !.pc = "fall"]
      BY <1>1, <3>2 DEF IsCall
    <3>3. CASE call' = [call EXCEPT !.pc = "done", !.result = "failed"]
      BY <1>1, <3>3 DEF IsCall
    <3>4. CASE call' = call
      BY <2>1, <3>4
    <3>5. QED
      BY <2>4, <3>1, <3>2, <3>3, <3>4
  <2>6. Len(call'.hits) <= call'.lates + IF call'.pc = "done" THEN 1 ELSE 0
    BY <1>15, <2>2, <2>5
  <2>7. QED
    BY <2>1, <2>2, <2>3, <2>5, <2>6 DEF Settles, Once
<1>5. CASE CannotAct \/ EndSelecting
  <2>1. UNCHANGED <<dom, on>> /\ call.pc \in {"act", "select"} /\ (CannotAct => call.pc = "act")
        /\ (EndSelecting => call.pc = "select")
    BY <1>5 DEF CannotAct, EndSelecting, Still
  <2>2. (\E t : call' = Retry(t)) \/ (call.pc = "select" /\ call' = End("passed"))
    BY <1>5 DEF CannotAct, EndSelecting, Transient
  <2>3. CASE \E t : call' = Retry(t)
    <3>1. PICK t : call' = [Retry(t) EXCEPT !.hits = call.hits, !.lates = call.lates]
      BY <1>2, <2>3
    <3>2. Left(call', call.hits, call.lates)
      BY <1>0, <3>1, RetryLeft
    <3>3. Once(call)'
      <4>1. call'.lates = call.lates /\ call'.hits = call.hits /\ call'.act = call.act
            /\ call'.tries \in Nat /\ call'.pc \in {"act", "recover", "done"}
        BY <1>16, <3>2 DEF Left
      <4>2. call.act # "select" => Len(call.hits) <= call.lates
        BY <1>1, <1>16, <2>1 DEF Once
      <4>3. QED
        BY <1>16, <1>17, <4>1, <4>2
    <3>4. Settles(call, on)'
      BY <1>1, <1>15, <1>16, <2>1, <3>2 DEF Left, Settles
    <3>5. QED
      BY <3>3, <3>4
  <2>4. CASE call.pc = "select" /\ call' = End("passed")
    <3>1. call' = [call EXCEPT !.pc = "done", !.result = "passed"]
      BY <2>4 DEF End
    <3>2. /\ call'.claim = call.claim /\ call'.recovering = call.recovering /\ call'.act = call.act
          /\ call'.pc = "done" /\ call'.lates = call.lates /\ call'.tries = call.tries
      BY <1>1, <3>1 DEF IsCall
    <3>3. call.act = "select"
      BY <1>1, <2>4 DEF Once
    <3>4. QED
      BY <1>1, <1>16, <2>4, <3>2, <3>3 DEF Settles, Once
  <2>5. QED
    BY <2>2, <2>3, <2>4
<1>6. CASE StartSelecting
  <2>1. UNCHANGED <<dom, on>> /\ call.pc = "act" /\ call.act = "select"
        /\ \E hits : call' = [call EXCEPT !.pc = "select", !.hits = hits]
    BY <1>6 DEF StartSelecting, Still
  <2>2. /\ call'.claim = call.claim /\ call'.recovering = call.recovering /\ call'.act = call.act /\ call'.pc = "select"
        /\ call'.lates = call.lates /\ call'.tries = call.tries
    BY <1>1, <2>1 DEF IsCall
  <2>3. DesiredOff(call.step) \in BOOLEAN
    BY DEF DesiredOff
  <2>4. QED
    BY <1>1, <2>1, <2>2, <2>3 DEF Settles, Once
<1>7. CASE DoAction
  <2>1. PICK hits : /\ hits = Append(call.hits, [ref |-> call.ref, got |-> Struck])
                    /\ Targets(call.ref) # {} /\ call.pc = "act" /\ call.act # "select"
                    /\ on' = Effect(Struck)
                    /\ \/ call' = [Passed EXCEPT !.hits = hits]
                       \/ call' = [Retry(TRUE) EXCEPT !.hits = hits, !.lates = call.lates + 1]
    BY <1>0, <1>7, RetryCounts DEF DoAction, Matched
  <2>2. UNCHANGED dom
    BY <1>7 DEF DoAction
  <2>3. CASE call' = [Passed EXCEPT !.hits = hits]
    <3>1. call' = [call EXCEPT !.pc = "done", !.result = "passed", !.hits = hits]
      BY <2>3 DEF Passed, End
    <3>2. /\ call'.step = call.step /\ call'.act = call.act /\ call'.claim = call.claim /\ call'.outside = call.outside
          /\ call'.recovering = call.recovering /\ call'.hits = hits /\ call'.lates = call.lates
          /\ call'.pc = "done" /\ call'.ref = call.ref /\ call'.tries = call.tries
      BY <1>1, <3>1 DEF IsCall
    <3>3. Len(hits) = Len(call.hits) + 1
      BY <1>14, <2>1
    <3>4. Once(call)'
      <4>1. Len(call.hits) <= call.lates
        BY <1>1, <1>16, <2>1 DEF Once
      <4>2. Len(call'.hits) <= call'.lates + IF call'.pc = "done" THEN 1 ELSE 0
        BY <1>16, <3>2, <3>3, <4>1
      <4>3. QED
        BY <1>16, <3>2, <4>2 DEF Once
    <3>5. ~call.recovering /\ call.claim \in {"checkbox", "collapse"} =>
              /\ call.claim = "checkbox" => (call.ref.el \in on' <=> ~DesiredOff(call.step))
              /\ call.claim = "collapse" => (call.ref.el \in on' <=> ~(call.ref.el \in on))
      BY <1>1, <2>1, EffectSettles
    <3>6. QED
      BY <1>1, <2>1, <2>2, <3>2, <3>4, <3>5 DEF Settles
  <2>4. CASE call' = [Retry(TRUE) EXCEPT !.hits = hits, !.lates = call.lates + 1]
    <3>1. Left(call', hits, call.lates + 1)
      BY <1>0, <2>4, RetryLeft
    <3>2. Once(call)'
      <4>1. call'.lates = call.lates + 1 /\ call'.hits = hits /\ call'.act = call.act
            /\ call'.tries \in Nat /\ call'.pc \in {"act", "recover", "done"}
        BY <1>16, <3>1 DEF Left
      <4>2. Len(call.hits) <= call.lates
        BY <1>1, <1>16, <2>1 DEF Once
      <4>3. Len(hits) = Len(call.hits) + 1
        BY <1>14, <2>1
      <4>4. QED
        BY <1>16, <1>17, <4>1, <4>2, <4>3
    <3>3. ~call.recovering /\ call.claim \in {"checkbox", "collapse"} =>
              /\ call.claim = "checkbox" => (call.ref.el \in on' <=> ~DesiredOff(call.step))
              /\ call.claim = "collapse" => (call.ref.el \in on' <=> ~(call.ref.el \in on))
      BY <1>1, <2>1, EffectSettles
    <3>4. Settles(call, on)'
      BY <1>1, <1>15, <1>16, <2>1, <2>2, <3>1, <3>3 DEF Left, Settles
    <3>5. QED
      BY <3>2, <3>4
  <2>5. QED
    BY <2>1, <2>3, <2>4
<1>8. CASE Recover
  <2>1. UNCHANGED <<dom, on>> /\ call.pc = "recover"
        /\ \/ call' = [call EXCEPT !.pc = "done", !.result = "failed"]
           \/ \E h, q : call' = [call EXCEPT !.pc = "act", !.ref = h, !.queue = q, !.recovering = TRUE, !.tries = 0]
    <3> DEFINE refs == Untried(Fallbacks(call.step, call.act), call.ref)
               h == Head(refs)
               q == Tail(refs)
    <3>1. /\ UNCHANGED <<dom, on>> /\ call.pc = "recover"
          /\ \/ call' = End("failed")
             \/ call' = [Target(h, call.act) EXCEPT !.queue = q, !.recovering = TRUE, !.tries = 0]
      BY <1>8 DEF Recover, Still
    <3> HIDE DEF h, q
    <3>2. [Target(h, call.act) EXCEPT !.queue = q, !.recovering = TRUE, !.tries = 0]
          = [call EXCEPT !.pc = "act", !.ref = h, !.queue = q, !.recovering = TRUE, !.tries = 0]
      BY <1>0 DEF Target, IsCall
    <3>3. CASE call' = End("failed")
      BY <3>1, <3>3 DEF End
    <3>4. CASE call' = [Target(h, call.act) EXCEPT !.queue = q, !.recovering = TRUE, !.tries = 0]
      <4>1. call' = [call EXCEPT !.pc = "act", !.ref = h, !.queue = q, !.recovering = TRUE, !.tries = 0]
        BY <3>2, <3>4, Zenon
      <4>2. QED
        BY <3>1, <4>1, Zenon
    <3>5. QED
      BY <3>1, <3>3, <3>4
  <2>0. call.act # "select" => Len(call.hits) <= call.lates
    <3>1. call.pc = "recover"
      BY <2>1
    <3>2. QED
      BY <1>1, <1>16, <3>1 DEF Once
  <2>2. CASE call' = [call EXCEPT !.pc = "done", !.result = "failed"]
    <3>1. /\ call'.step = call.step /\ call'.act = call.act /\ call'.claim = call.claim /\ call'.ref = call.ref
          /\ call'.recovering = call.recovering /\ call'.hits = call.hits /\ call'.lates = call.lates
          /\ call'.pc = "done" /\ call'.result = "failed" /\ call'.tries = call.tries
      BY <1>1, <2>2 DEF IsCall
    <3>2. call.act # "select" => Len(call.hits) <= call.lates
      BY <2>0
    <3>3. Once(call)'
      BY <1>16, <1>17, <3>1, <3>2
    <3>4. Settles(call, on)'
      BY <1>1, <2>1, <3>1 DEF Settles
    <3>5. QED
      BY <3>3, <3>4
  <2>3. CASE \E h, q : call' = [call EXCEPT !.pc = "act", !.ref = h, !.queue = q, !.recovering = TRUE, !.tries = 0]
    <3>1. /\ call'.recovering /\ call'.act = call.act /\ call'.hits = call.hits /\ call'.lates = call.lates
          /\ call'.pc = "act" /\ call'.tries = 0
      BY <1>1, <2>3 DEF IsCall
    <3>2. call.act # "select" => Len(call.hits) <= call.lates
      BY <2>0
    <3>3. QED
      BY <1>16, <1>17, <3>1, <3>2 DEF Settles
  <2>4. QED
    BY <2>1, <2>2, <2>3
<1>9. CASE NextStep
  <2>1. PICK s, n : call' = NewCall(s, n)
    BY <1>9 DEF NextStep
  <2>2. call'.claim = "none" /\ call'.pc = "resolve" /\ call'.hits = <<>> /\ call'.lates = 0 /\ call'.tries = 0
    BY <2>1 DEF NewCall
  <2>3. QED
    BY <1>15, <2>2 DEF Settles, Once
<1>10. CASE ControlFlips
  <2>1. call' = [call EXCEPT !.outside = TRUE] /\ call.pc # "done" /\ UNCHANGED dom
    BY <1>10 DEF ControlFlips, Spend, Busy
  <2>2. /\ call'.step = call.step /\ call'.act = call.act /\ call'.claim = call.claim /\ call'.ref = call.ref
        /\ call'.recovering = call.recovering /\ call'.hits = call.hits /\ call'.lates = call.lates
        /\ call'.pc = call.pc /\ call'.outside /\ call'.tries = call.tries
    BY <1>1, <2>1 DEF IsCall
  <2>3. QED
    BY <1>1, <2>1, <2>2 DEF Settles, Once
<1>11. CASE Rerender \/ DialogFlips \/ Select \/ UNCHANGED vars
  <2>1. UNCHANGED <<dom, on, call>>
    BY <1>11 DEF Rerender, DialogFlips, Select, vars, pageVars
  <2>2. QED
    BY <1>1, <2>1 DEF Settles, Once
<1>12. QED
  BY <1>3, <1>4, <1>5, <1>6, <1>7, <1>8, <1>9, <1>10, <1>11 DEF Next, Script

\* On any page, with any labels and sections: a passed checkbox step has left the box
\* checked as the step says even when an attempt was reported late and made again; a
\* passed expand or collapse step has left the panel as it says when no attempt was
\* reported late, and the other way round when one was, the retry being one; and no
\* step acts more often than once and once for each attempt reported late.
THEOREM PassedStepsDidAsSaid == Spec => []DoneAsSaid
<1>1. Init => DoneInv
  BY StepsInitially, SettlesInitially DEF DoneInv
<1>2. DoneInv /\ [Next]_vars => DoneInv'
  BY StepsAim, StepsSettle DEF DoneInv
<1>3. DoneInv => DoneAsSaid
  <2>1. SUFFICES ASSUME DoneInv PROVE DoneAsSaid
    OBVIOUS
  <2>2. CheckboxEndsAsWanted
    BY <2>1 DEF DoneInv, CheckboxEndsAsWanted, Settles
  <2>3. PanelEndsAsWanted
    <3>1. "unfold" \notin call.step.says => (WantOpen(call.step) <=> SaysOpen(call.step))
      BY DEF WantOpen, SaysOpen
    <3>2. call.pc = "done" /\ call.result = "passed" /\ call.claim = "collapse" /\ ~call.outside /\ ~call.recovering
            => (call.ref.el \in on <=> (WantOpen(call.step) <=> call.lates = 0))
      BY <2>1 DEF DoneInv, Settles
    <3>3. SaysOpen(call.step) \in BOOLEAN /\ (call.ref.el \in on) \in BOOLEAN
      BY DEF SaysOpen
    <3>4. QED
      BY <3>1, <3>2, <3>3 DEF PanelEndsAsWanted
  <2>4. OneEffect
    BY <2>1 DEF DoneInv, OneEffect, Once
  <2>5. QED
    BY <2>2, <2>3, <2>4 DEF DoneAsSaid
<1>4. QED
  BY <1>1, <1>2, <1>3, PTL DEF Spec

-----------------------------------------------------------------------------
\* Panels with a confirm button.
IsSel(x) ==
    x = [ pc |-> x.pc, trigger |-> x.trigger, wants |-> x.wants, left |-> x.left, items |-> x.items,
          panel |-> x.panel, ticked |-> x.ticked, late |-> x.late, opened |-> x.opened,
          cands |-> x.cands, at |-> x.at, tries |-> x.tries, was |-> x.was, before |-> x.before,
          picked |-> x.picked, first |-> x.first, from |-> x.from, slipped |-> x.slipped, kept |-> x.kept,
          missed |-> x.missed, problem |-> x.problem, result |-> x.result, error |-> x.error ]

BoxesFit ==
    /\ boxes \in Seq(Box) /\ Len(boxes) = Cardinality(Selects) + 1
    /\ boxes[Len(boxes)] = NoWidget
    /\ chosen = [b \in DOMAIN boxes |-> chosen[b]]
    /\ draft = [b \in DOMAIN boxes |-> draft[b]]

\* While items are ticked the application holds what it held before, and what is
\* ticked and what is left make up what was ticked at first and what the step wants.
Ticking(x, now, shows) ==
    LET b == x.trigger.box IN
    /\ x.pc = "panel" =>
          /\ x.left \in Seq(Option) /\ now = x.first[b]
          /\ ~x.problem => shows \union Range(x.left) = x.ticked \union Range(x.wants)
    /\ x.pc = "done" /\ x.panel =>
          now = IF x.result = "passed" \/ x.late THEN x.ticked \union Range(x.wants) ELSE x.first[b]

Ticked(x, ch, dr) ==
    LET b == x.trigger.box IN
    /\ IsSel(x)
    /\ x.pc # "idle" => b \in DOMAIN boxes /\ x.items \in Seq(Option)
    /\ x.pc = "open" => x.first[b] = ch[b] /\ ~x.problem
    /\ x.pc \in {"open", "panel"} => ~x.late /\ x.result = "none"
    /\ x.panel => x.pc \in {"panel", "done"}
    /\ x.pc = "panel" => x.panel
    /\ x.pc # "idle" /\ Confirms(b) => Ticking(x, ch[b], dr[b])

TickInv == WInv /\ BoxesFit /\ Ticked(sel, chosen, draft)

LEMMA RangeOfRest ==
    ASSUME NEW S, NEW s \in Seq(S), s # <<>>
    PROVE  Range(s) = {Head(s)} \union Range(Tail(s)) /\ Tail(s) \in Seq(S)
<1>1. /\ Len(s) \in Nat \ {0} /\ DOMAIN s = 1..Len(s) /\ Head(s) = s[1] /\ Tail(s) \in Seq(S)
      /\ DOMAIN Tail(s) = 1..(Len(s) - 1) /\ \A i \in DOMAIN Tail(s) : Tail(s)[i] = s[i + 1]
  OBVIOUS
<1>2. \A i \in DOMAIN s : i = 1 \/ (i - 1 \in DOMAIN Tail(s) /\ Tail(s)[i - 1] = s[i])
  BY <1>1
<1>3. \A i \in DOMAIN Tail(s) : i + 1 \in DOMAIN s /\ Tail(s)[i] = s[i + 1]
  BY <1>1
<1>4. 1 \in DOMAIN s
  BY <1>1
<1> DEFINE h == Head(s)
           t == Tail(s)
<1>5. h = s[1] /\ t \in Seq(S)
  BY <1>1
<1>6. \A i \in DOMAIN t : i + 1 \in DOMAIN s /\ t[i] = s[i + 1]
  BY <1>3
<1>7. \A i \in DOMAIN s : s[i] = h \/ \E j \in DOMAIN t : s[i] = t[j]
  BY <1>1, <1>2
<1> HIDE DEF h, t
<1>8. Range(s) = {h} \union Range(t)
  BY <1>4, <1>5, <1>6, <1>7 DEF Range
<1>9. QED
  BY <1>5, <1>8 DEF h, t

LEMMA BoxOfFits ==
    ASSUME PageFits, BoxesFit, NEW e
    PROVE  BoxOf(e) \in DOMAIN boxes
<1>1. IsFiniteSet(Selects)
  <2>1. IsFiniteSet(DOMAIN dom) /\ Selects \subseteq DOMAIN dom
    BY FS_Interval DEF PageFits, Selects
  <2>2. QED
    BY <2>1, FS_Subset
<1>2. Rank(Selects, e) \in Nat /\ Cardinality(Selects) \in Nat /\ Rank(Selects, e) <= Cardinality(Selects)
  <2>1. {j \in Selects : j < e} \subseteq Selects
    OBVIOUS
  <2>2. QED
    BY <1>1, <2>1, FS_Subset, FS_CardinalityType DEF Rank
<1>3. DOMAIN boxes = 1..Len(boxes) /\ Len(boxes) = Cardinality(Selects) + 1
  BY DEF BoxesFit
<1>4. CASE e \in Selects
  BY <1>2, <1>3, <1>4 DEF BoxOf
<1>5. CASE e \notin Selects
  BY <1>2, <1>3, <1>5 DEF BoxOf
<1>6. QED
  BY <1>4, <1>5

LEMMA TicksInitially == Init => BoxesFit /\ Ticked(sel, chosen, draft)
<1>1. SUFFICES ASSUME NEW s \in Scenarios, dom = s.dom, boxes = s.boxes, chosen = s.chosen, draft = s.chosen,
                      sel = NoSelect
               PROVE  BoxesFit /\ Ticked(sel, chosen, draft)
  BY DEF Init
<1>2. /\ s.boxes \in Seq(Box) /\ s.chosen \in [DOMAIN s.boxes -> SUBSET Option]
      /\ Len(s.boxes) = Cardinality({i \in DOMAIN s.dom : s.dom[i].kind = "select"}) + 1
      /\ s.boxes[Len(s.boxes)] = NoWidget
  BY ScenariosAssumption
<1>3. chosen = [b \in DOMAIN boxes |-> chosen[b]] /\ draft = [b \in DOMAIN boxes |-> draft[b]]
  BY <1>1, <1>2
<1>4. Ticked(sel, chosen, draft)
  BY <1>1 DEF Ticked, IsSel, NoSelect
<1>5. QED
  BY <1>1, <1>2, <1>3, <1>4 DEF BoxesFit, Selects

\* What a widget loses with the focus is its own.
LEMMA BlurFits ==
    ASSUME BoxesFit, NEW b, NEW done, NEW ch \in Blurred(b, done)
    PROVE  ch = [x \in DOMAIN boxes |-> ch[x]] /\ ch[b] = chosen[b]
<1>1. ch = chosen \/ \E S : focus # b /\ ch = [chosen EXCEPT ![focus] = S]
  BY DEF Blurred
<1>2. CASE ch = chosen
  BY <1>2 DEF BoxesFit
<1>3. CASE \E S : focus # b /\ ch = [chosen EXCEPT ![focus] = S]
  <2>1. PICK S : focus # b /\ ch = [chosen EXCEPT ![focus] = S]
    BY <1>3
  <2>2. DOMAIN ch = DOMAIN boxes /\ ch = [x \in DOMAIN chosen |-> IF x = focus THEN S ELSE chosen[x]]
    BY <2>1 DEF BoxesFit
  <2>3. CASE b \in DOMAIN boxes
    BY <2>1, <2>2, <2>3 DEF BoxesFit
  <2>4. QED
    BY <2>1, <2>2, <2>3 DEF BoxesFit
<1>4. QED
  BY <1>1, <1>2, <1>3

\* Clicking an option, ticking and undoing leave every widget with selections.
LEMMA TogglesFit ==
    ASSUME BoxesFit, NEW b, NEW S
    PROVE  /\ LET ch == [chosen EXCEPT ![b] = S] IN ch = [x \in DOMAIN boxes |-> ch[x]]
           /\ LET dr == [draft EXCEPT ![b] = S] IN dr = [x \in DOMAIN boxes |-> dr[x]]
  BY DEF BoxesFit

LEMMA ClicksFit ==
    ASSUME BoxesFit, NEW b, NEW o
    PROVE  /\ Toggled(b, o) = [x \in DOMAIN boxes |-> Toggled(b, o)[x]]
           /\ Drafted(b, o) = [x \in DOMAIN boxes |-> Drafted(b, o)[x]]
           /\ Redrawn(b) = [x \in DOMAIN boxes |-> Redrawn(b)[x]]
<1>1. DOMAIN Toggled(b, o) = DOMAIN boxes /\ DOMAIN Drafted(b, o) = DOMAIN boxes /\ DOMAIN Redrawn(b) = DOMAIN boxes
  BY DEF BoxesFit, Toggled, Drafted, Redrawn
<1>2. /\ Toggled(b, o) = [x \in DOMAIN chosen |-> Toggled(b, o)[x]]
      /\ Drafted(b, o) = [x \in DOMAIN draft |-> Drafted(b, o)[x]]
      /\ Redrawn(b) = [x \in DOMAIN draft |-> Redrawn(b)[x]]
  BY DEF BoxesFit, Toggled, Drafted, Redrawn
<1>3. QED
  BY <1>2 DEF BoxesFit

LEMMA SelectingTicks ==
    ASSUME BoxesFit, Ticked(sel, chosen, draft), Selecting
    PROVE  /\ UNCHANGED boxes /\ chosen' = [b \in DOMAIN boxes |-> chosen'[b]]
           /\ draft' = [b \in DOMAIN boxes |-> draft'[b]] /\ Ticked(sel', chosen', draft')
<1> DEFINE b == sel.trigger.box
<1>1. /\ IsSel(sel) /\ (sel.pc # "idle" => b \in DOMAIN boxes /\ sel.items \in Seq(Option))
      /\ sel.pc = "open" => sel.first[b] = chosen[b] /\ ~sel.problem
      /\ sel.pc \in {"open", "panel"} => ~sel.late /\ sel.result = "none"
      /\ sel.panel => sel.pc \in {"panel", "done"}
      /\ sel.pc = "panel" => sel.panel
      /\ sel.pc # "idle" /\ Confirms(b) => Ticking(sel, chosen[b], draft[b])
  BY DEF Ticked
<1>2. UNCHANGED boxes
  BY DEF Selecting, SelectNative, OpenTrigger, TickItem, ClosePanel, StartPick, TryCandidate, ClickOption,
         EnterOrLeave, NoneTook, Undo, EndPick, boxVars
<1>3. ASSUME IsSel(sel'), sel'.trigger = sel.trigger, sel'.items = sel.items, sel'.panel = sel.panel,
             sel.pc \notin {"idle", "panel", "done"}, sel'.pc \notin {"open", "panel"}
      PROVE  Ticked(sel', chosen', draft')
  BY <1>1, <1>2, <1>3 DEF Ticked, Confirms, Ticking
<1>5. chosen = [x \in DOMAIN boxes |-> chosen[x]] /\ draft = [x \in DOMAIN boxes |-> draft[x]]
  BY DEF BoxesFit
<1>6. CASE SelectNative
  <2>1. sel.pc = "open" /\ draft' = draft
    BY <1>6 DEF SelectNative
  <2>2. \/ chosen' = chosen
        \/ \E S : chosen' = [chosen EXCEPT ![b] = S]
    BY <1>6 DEF SelectNative
  <2>3. \E r, e : sel' = [sel EXCEPT !.pc = "done", !.result = r, !.error = e]
    <3>1. \/ sel' = [sel EXCEPT !.pc = "done", !.result = "passed"]
          \/ sel' = [sel EXCEPT !.pc = "done", !.result = "failed", !.error = "timeout"]
      BY <1>6 DEF SelectNative
    <3>2. sel' = [sel EXCEPT !.pc = "done", !.result = "passed"]
            => sel' = [sel EXCEPT !.pc = "done", !.result = "passed", !.error = sel.error]
      BY <1>1 DEF IsSel
    <3>3. QED
      BY <3>1, <3>2
  <2>4. /\ IsSel(sel') /\ sel'.trigger = sel.trigger /\ sel'.items = sel.items /\ sel'.panel = sel.panel
        /\ sel'.pc = "done"
    BY <1>1, <2>3 DEF IsSel
  <2>5. QED
    BY <1>2, <1>3, <1>5, <2>1, <2>2, <2>4, TogglesFit
<1>7. CASE OpenTrigger
  <2>1. /\ sel.pc = "open"
        /\ chosen' = chosen \/ chosen' \in Blurred(b, 0)
        /\ draft' = draft \/ draft' = Redrawn(b)
    <3>1. FocusOn(b, 0) => chosen' \in Blurred(b, 0)
      BY DEF FocusOn
    <3> HIDE DEF b
    <3>2. (FocusOn(b, 0) /\ draft' = Redrawn(b)) \/ UNCHANGED <<chosen, draft>>
      BY <1>7 DEF OpenTrigger, b
    <3>3. sel.pc = "open"
      BY <1>7 DEF OpenTrigger
    <3>4. QED
      BY <3>1, <3>2, <3>3
  <2>2. /\ chosen' = [x \in DOMAIN boxes |-> chosen'[x]] /\ chosen'[b] = chosen[b]
        /\ draft' = [x \in DOMAIN boxes |-> draft'[x]]
    <3>1. chosen' = [x \in DOMAIN boxes |-> chosen'[x]] /\ chosen'[b] = chosen[b]
      <4> HIDE DEF b
      <4>1. QED
        BY <1>5, <2>1, BlurFits
    <3>2. draft' = [x \in DOMAIN boxes |-> draft'[x]]
      <4> HIDE DEF b
      <4>1. QED
        BY <1>5, <2>1, ClicksFit
    <3>3. QED
      BY <3>1, <3>2
  <2>3. \/ \E o : sel' = [sel EXCEPT !.pc = "pick", !.opened = o]
        \/ sel' = [sel EXCEPT !.pc = "panel", !.opened = TRUE, !.wants = sel.items, !.left = sel.items,
                              !.panel = TRUE, !.ticked = draft'[b]]
    <3>1. \/ sel' = [sel EXCEPT !.pc = "pick", !.opened = TRUE] \/ sel' = [sel EXCEPT !.pc = "pick"]
          \/ sel' = [sel EXCEPT !.pc = "panel", !.opened = TRUE, !.wants = sel.items, !.left = sel.items,
                                !.panel = TRUE, !.ticked = draft'[b]]
      BY <1>7 DEF OpenTrigger
    <3>2. sel' = [sel EXCEPT !.pc = "pick"] => sel' = [sel EXCEPT !.pc = "pick", !.opened = sel.opened]
      BY <1>1 DEF IsSel
    <3>3. QED
      BY <3>1, <3>2
  <2>4. CASE \E o : sel' = [sel EXCEPT !.pc = "pick", !.opened = o]
    <3>1. /\ IsSel(sel') /\ sel'.trigger = sel.trigger /\ sel'.items = sel.items /\ sel'.panel = sel.panel
          /\ sel'.pc = "pick"
      BY <1>1, <2>4 DEF IsSel
    <3>2. QED
      BY <1>2, <1>3, <2>1, <2>2, <3>1
  <2>5. CASE sel' = [sel EXCEPT !.pc = "panel", !.opened = TRUE, !.wants = sel.items, !.left = sel.items,
                                !.panel = TRUE, !.ticked = draft'[b]]
    <3>1. /\ IsSel(sel') /\ sel'.trigger = sel.trigger /\ sel'.items = sel.items /\ sel'.panel
          /\ sel'.pc = "panel" /\ sel'.wants = sel.items /\ sel'.left = sel.items /\ sel'.ticked = draft'[b]
          /\ sel'.first = sel.first /\ sel'.late = sel.late /\ sel'.result = sel.result
      BY <1>1, <2>5 DEF IsSel
    <3>2. Ticking(sel', chosen'[b], draft'[b])
      BY <1>1, <2>1, <2>2, <3>1 DEF Ticking
    <3>3. QED
      BY <1>1, <1>2, <2>1, <2>2, <3>1, <3>2 DEF Ticked, Confirms
  <2>6. QED
    BY <2>3, <2>4, <2>5
<1>8. CASE TickItem
  <2>1. sel.pc = "panel" /\ sel.left # <<>>
    BY <1>8 DEF TickItem
  <2> DEFINE w == Head(sel.left)
             t == Tail(sel.left)
  <2>2. PICK responds \in BOOLEAN, raises \in BOOLEAN :
          LET ticks == w \in Trigger.offers /\ w \notin IF Confirms(b) THEN draft[b] ELSE chosen[b]
          IN  /\ responds \/ raises => ticks
              /\ chosen' = IF responds THEN Toggled(b, w) ELSE chosen
              /\ draft' = IF responds THEN Drafted(b, w) ELSE draft
              /\ sel' = IF raises THEN [sel EXCEPT !.pc = "done", !.result = "failed", !.error = "click"]
                        ELSE [sel EXCEPT !.left = t,
                                         !.problem = sel.problem \/ w \notin Trigger.offers
                                                       \/ (ticks /\ ~responds)]
    BY <1>1, <1>8 DEF TickItem, want, IsSel
  <2>3. /\ chosen' = [x \in DOMAIN boxes |-> chosen'[x]]
        /\ draft' = [x \in DOMAIN boxes |-> draft'[x]]
    BY <1>5, <2>2, ClicksFit
  <2>4. Confirms(b) => /\ chosen' = chosen
                       /\ responds => draft'[b] = draft[b] \union {w}
    <3>1. SUFFICES ASSUME Confirms(b) PROVE chosen' = chosen /\ (responds => draft'[b] = draft[b] \union {w})
      OBVIOUS
    <3>2. Toggled(b, w) = chosen /\ Drafted(b, w) = [draft EXCEPT ![b] = Toggle(draft[b], b, w)]
      BY <3>1 DEF Confirms, Toggled, Drafted
    <3>3. responds => w \notin draft[b]
      BY <2>2, <3>1 DEF Confirms, Trigger
    <3>4. responds => Toggle(draft[b], b, w) = draft[b] \union {w}
      BY <3>1, <3>3 DEF Confirms, Toggle, Many
    <3> HIDE DEF w
    <3>5. QED
      BY <1>1, <1>5, <2>1, <2>2, <3>2, <3>4
  <2>5. CASE raises
    <3>1. sel' = [sel EXCEPT !.pc = "done", !.result = "failed", !.error = "click"]
      BY <2>2, <2>5
    <3>2. /\ IsSel(sel') /\ sel'.trigger = sel.trigger /\ sel'.items = sel.items /\ sel'.panel = sel.panel
          /\ sel'.first = sel.first /\ sel'.late = sel.late /\ sel'.pc = "done" /\ sel'.result = "failed"
      BY <1>1, <3>1 DEF IsSel
    <3>3. Confirms(b) => Ticking(sel', chosen'[b], draft'[b])
      BY <1>1, <2>1, <2>4, <3>2 DEF Ticking
    <3>4. QED
      BY <1>1, <1>2, <2>1, <2>3, <3>2, <3>3 DEF Ticked, Confirms
  <2>6. CASE ~raises
    <3> DEFINE problem == sel.problem \/ w \notin Trigger.offers
                             \/ (/\ w \in Trigger.offers /\ w \notin IF Confirms(b) THEN draft[b] ELSE chosen[b]
                                 /\ ~responds)
    <3>1. sel' = [sel EXCEPT !.left = t, !.problem = problem]
      BY <2>2, <2>6
    <3>2. Confirms(b) /\ ~problem => ~sel.problem /\ draft'[b] = draft[b] \union {w}
      <4>1. SUFFICES ASSUME Confirms(b), ~problem PROVE draft'[b] = draft[b] \union {w}
        OBVIOUS
      <4>2. Trigger.confirm
        BY <4>1 DEF Confirms, Trigger
      <4>3. w \in draft[b] \/ responds
        BY <4>1, <4>2
      <4>4. ~responds => draft' = draft
        BY <2>2
      <4>5. QED
        BY <2>4, <4>1, <4>3, <4>4
    <3> HIDE DEF problem, w, t
    <3>3. /\ IsSel(sel') /\ sel'.trigger = sel.trigger /\ sel'.items = sel.items /\ sel'.panel = sel.panel
          /\ sel'.first = sel.first /\ sel'.late = sel.late /\ sel'.pc = sel.pc /\ sel'.result = sel.result
          /\ sel'.wants = sel.wants /\ sel'.left = t /\ sel'.ticked = sel.ticked /\ sel'.problem = problem
      BY <1>1, <3>1 DEF IsSel
    <3>4. Confirms(b) => Ticking(sel', chosen'[b], draft'[b])
      <4>1. SUFFICES ASSUME Confirms(b) PROVE Ticking(sel', chosen'[b], draft'[b])
        OBVIOUS
      <4>2. sel.left \in Seq(Option) /\ Ticking(sel, chosen[b], draft[b])
        BY <1>1, <2>1, <4>1 DEF Ticking
      <4>3. Range(sel.left) = {w} \union Range(t) /\ t \in Seq(Option)
        BY <2>1, <4>2, RangeOfRest DEF w, t
      <4>4. QED
        BY <2>1, <2>4, <3>2, <3>3, <4>1, <4>2, <4>3 DEF Ticking
    <3>5. QED
      BY <1>1, <1>2, <2>1, <2>3, <3>3, <3>4 DEF Ticked, Confirms
  <2>7. QED
    BY <2>5, <2>6
<1>9. CASE ClosePanel
  <2>1. sel.pc = "panel" /\ sel.left = <<>> /\ draft' = draft
    BY <1>9 DEF ClosePanel
  <2>2. PICK raises \in BOOLEAN, works \in BOOLEAN :
          /\ raises \/ works
          /\ chosen' = IF works /\ Press(sel.problem) /\ Confirms(b)
                       THEN [chosen EXCEPT ![b] = draft[b]] ELSE chosen
          /\ sel' = [sel EXCEPT !.pc = "done", !.late = raises /\ works /\ ~sel.problem,
                                !.result = IF raises \/ sel.problem THEN "failed" ELSE "passed",
                                !.error = IF raises THEN "click" ELSE IF sel.problem THEN "value" ELSE "none"]
    BY <1>9 DEF ClosePanel
  <2>3. chosen' = [x \in DOMAIN boxes |-> chosen'[x]]
    BY <1>5, <2>2, TogglesFit
  <2> DEFINE late == raises /\ works /\ ~sel.problem
             result == IF raises \/ sel.problem THEN "failed" ELSE "passed"
             error == IF raises THEN "click" ELSE IF sel.problem THEN "value" ELSE "none"
  <2>4. sel' = [sel EXCEPT !.pc = "done", !.late = late, !.result = result, !.error = error]
    BY <2>2
  <2>5. (result = "passed" \/ late) <=> works /\ ~sel.problem
    BY <2>2
  <2> HIDE DEF late, result, error
  <2>6. /\ IsSel(sel') /\ sel'.trigger = sel.trigger /\ sel'.items = sel.items /\ sel'.panel = sel.panel
        /\ sel'.first = sel.first /\ sel'.late = late /\ sel'.pc = "done" /\ sel'.result = result
        /\ sel'.wants = sel.wants /\ sel'.ticked = sel.ticked
    BY <1>1, <2>4 DEF IsSel
  <2>7. Confirms(b) => Ticking(sel', chosen'[b], draft'[b])
    <3>1. SUFFICES ASSUME Confirms(b) PROVE Ticking(sel', chosen'[b], draft'[b])
      OBVIOUS
    <3>2. Ticking(sel, chosen[b], draft[b]) /\ b \in DOMAIN boxes
      BY <1>1, <2>1, <3>1
    <3>3. Range(sel.left) = {}
      BY <2>1 DEF Range
    <3>4. chosen'[b] = IF works /\ ~sel.problem THEN draft[b] ELSE chosen[b]
      BY <1>5, <2>2, <3>1, <3>2 DEF Press, Confirms, Trigger
    <3>5. QED
      BY <2>1, <2>5, <2>6, <3>2, <3>3, <3>4 DEF Ticking
  <2>8. QED
    BY <1>1, <1>2, <1>5, <2>1, <2>3, <2>6, <2>7 DEF Ticked, Confirms
<1>10. CASE StartPick \/ NoneTook \/ EndPick
  <2>1. sel.pc \in {"pick", "try", "undo"} /\ chosen' = chosen /\ draft' = draft
    BY <1>10 DEF StartPick, NoneTook, EndPick, boxVars
  <2>2. /\ IsSel(sel') /\ sel'.trigger = sel.trigger /\ sel'.items = sel.items /\ sel'.panel = sel.panel
        /\ sel'.pc \notin {"open", "panel"}
    <3>1. CASE StartPick
      BY <1>1, <3>1 DEF StartPick, IsSel
    <3>2. CASE NoneTook
      BY <1>1, <3>2 DEF NoneTook, Picked, IsSel
    <3>3. CASE EndPick
      BY <1>1, <3>3 DEF EndPick, IsSel
    <3>4. QED
      BY <1>10, <3>1, <3>2, <3>3
  <2>3. QED
    BY <1>2, <1>3, <1>5, <2>1, <2>2
<1>11. CASE TryCandidate
  <2>1. sel.pc = "try"
    BY <1>11 DEF TryCandidate
  <2>2. /\ chosen' = chosen \/ chosen' \in Blurred(here, 0)
        /\ draft' = draft \/ draft' = Redrawn(here)
    BY <1>11 DEF TryCandidate, FocusOn
  <2>3. chosen' = [x \in DOMAIN boxes |-> chosen'[x]] /\ draft' = [x \in DOMAIN boxes |-> draft'[x]]
    BY <1>5, <2>2, BlurFits, ClicksFit
  <2>4. \/ \E tries, was : sel' = [sel EXCEPT !.pc = "click", !.tries = tries, !.opened = FALSE, !.was = was]
        \/ \E at : sel' = [sel EXCEPT !.at = at]
    <3> DEFINE tries == Shapes(here)
               was   == chosen'[here]
               at    == sel.at + 1
    <3>1. \/ sel' = [sel EXCEPT !.pc = "click", !.tries = tries, !.opened = FALSE, !.was = was]
          \/ sel' = [sel EXCEPT !.at = at]
      BY <1>1, <1>11 DEF TryCandidate, IsSel
    <3> HIDE DEF tries, was, at
    <3>2. QED
      BY <3>1
  <2>5. /\ IsSel(sel') /\ sel'.trigger = sel.trigger /\ sel'.items = sel.items /\ sel'.panel = sel.panel
        /\ sel'.pc \in {"click", "try"}
    BY <1>1, <2>1, <2>4 DEF IsSel
  <2>6. QED
    BY <1>2, <1>3, <2>1, <2>3, <2>5
<1>12. CASE ClickOption
  <2>1. sel.pc = "click"
    BY <1>12 DEF ClickOption
  <2>2. /\ chosen' = chosen \/ \E x, o : chosen' = Toggled(x, o)
        /\ draft' = draft \/ \E x, o : draft' = Drafted(x, o)
    BY <1>12 DEF ClickOption
  <2>3. chosen' = [x \in DOMAIN boxes |-> chosen'[x]] /\ draft' = [x \in DOMAIN boxes |-> draft'[x]]
    BY <1>5, <2>2, ClicksFit
  <2>4. \/ \E tries, slipped : sel' = [sel EXCEPT !.tries = tries, !.slipped = slipped]
        \/ \E i : sel' = Picked(i)
        \/ \E tries : sel' = [sel EXCEPT !.tries = tries]
    BY <1>12 DEF ClickOption
  <2>5. /\ IsSel(sel') /\ sel'.trigger = sel.trigger /\ sel'.items = sel.items /\ sel'.panel = sel.panel
        /\ sel'.pc \in {"click", "undo"}
    BY <1>1, <2>1, <2>4 DEF Picked, IsSel
  <2>6. QED
    BY <1>2, <1>3, <2>1, <2>3, <2>5
<1>13. CASE EnterOrLeave
  <2>1. sel.pc = "click"
    BY <1>13 DEF EnterOrLeave
  <2>2. /\ chosen' = chosen \/ \E x, o : chosen' = Toggled(x, o)
        /\ draft' = draft \/ \E x, o : draft' = Drafted(x, o)
    BY <1>13 DEF EnterOrLeave
  <2>3. chosen' = [x \in DOMAIN boxes |-> chosen'[x]] /\ draft' = [x \in DOMAIN boxes |-> draft'[x]]
    BY <1>5, <2>2, ClicksFit
  <2>4. \/ sel' = Picked(sel.at)
        \/ \E at : sel' = [sel EXCEPT !.pc = "try", !.at = at]
    BY <1>13 DEF EnterOrLeave
  <2>5. /\ IsSel(sel') /\ sel'.trigger = sel.trigger /\ sel'.items = sel.items /\ sel'.panel = sel.panel
        /\ sel'.pc \in {"try", "undo"}
    BY <1>1, <2>4 DEF Picked, IsSel
  <2>6. QED
    BY <1>2, <1>3, <2>1, <2>3, <2>5
<1>14. CASE Undo
  <2>1. sel.pc = "undo" /\ draft' = draft
    BY <1>14 DEF Undo
  <2>2. chosen' = chosen \/ \E after \in Blurred(here, PickedBox) : \E S : chosen' = [after EXCEPT ![here] = S]
    BY <1>14 DEF Undo
  <2>3. chosen' = [x \in DOMAIN boxes |-> chosen'[x]]
    <3>1. CASE chosen' = chosen
      BY <1>5, <3>1
    <3>2. CASE \E after \in Blurred(here, PickedBox) : \E S : chosen' = [after EXCEPT ![here] = S]
      <4>0. PICK after \in Blurred(here, PickedBox) : \E S : chosen' = [after EXCEPT ![here] = S]
        BY <3>2
      <4>1. PICK S : chosen' = [after EXCEPT ![here] = S]
        BY <4>0
      <4>2. after = [x \in DOMAIN boxes |-> after[x]]
        BY <4>0, BlurFits
      <4>3. QED
        BY <4>1, <4>2
    <3>3. QED
      BY <2>2, <3>1, <3>2
  <2>4. \E kept : sel' = [sel EXCEPT !.at = sel.at + 1, !.kept = kept]
    <3>1. CASE Undoable(sel.at)
      <4>1. PICK stay : sel' = [sel EXCEPT !.at = sel.at + 1,
                                           !.kept = IF stay = {} THEN sel.kept ELSE sel.kept \union {here}]
        BY <1>1, <1>14, <3>1 DEF Undo, IsSel
      <4>2. QED
        BY <4>1
    <3>2. CASE ~Undoable(sel.at)
      <4>1. sel' = [sel EXCEPT !.at = sel.at + 1]
        BY <1>1, <1>14, <3>2 DEF Undo, IsSel
      <4>2. sel' = [sel EXCEPT !.at = sel.at + 1, !.kept = sel.kept]
        BY <1>1, <4>1 DEF IsSel
      <4>3. QED
        BY <4>2
    <3>3. QED
      BY <3>1, <3>2
  <2>5. /\ IsSel(sel') /\ sel'.trigger = sel.trigger /\ sel'.items = sel.items /\ sel'.panel = sel.panel
        /\ sel'.pc = "undo"
    BY <1>1, <2>1, <2>4 DEF IsSel
  <2>6. QED
    BY <1>2, <1>3, <1>5, <2>1, <2>3, <2>5
<1>15. QED
  BY <1>6, <1>7, <1>8, <1>9, <1>10, <1>11, <1>12, <1>13, <1>14 DEF Selecting

LEMMA StepsTick ==
    ASSUME TickInv, [Next]_vars
    PROVE  (BoxesFit /\ Ticked(sel, chosen, draft))'
<1>1. BoxesFit /\ Ticked(sel, chosen, draft) /\ PageFits
  BY DEF TickInv, WInv
<1>2. UNCHANGED dom
  BY DEF Next, Script, Resolve, Ground, FallBack, CannotAct, DoAction, StartSelecting, Select, EndSelecting,
         Recover, NextStep, Rerender, DialogFlips, ControlFlips, Still, vars, pageVars
<1>3. Selects' = Selects
  BY <1>2 DEF Selects
<1>4. CASE UNCHANGED <<boxes, chosen, draft, sel>>
  BY <1>1, <1>3, <1>4 DEF BoxesFit, Ticked, Ticking, Confirms
<1>5. CASE StartSelecting
  <2> DEFINE b == BoxOf(Min(Matched))
  <2>1. UNCHANGED <<boxes, chosen, draft>>
    BY <1>5 DEF StartSelecting, boxVars
  <2>2. sel' = StartSelect(Candidate(b, call.ref.by = "name"), Values(call.step, b), Items(call.step, b))
    BY <1>5 DEF StartSelecting
  <2>3. b \in DOMAIN boxes /\ Items(call.step, b) \in Seq(Option)
    <3>1. call.step.value \in Seq(Option) /\ call.step.whole \in Option
      BY <1>1 DEF PageFits, Step
    <3>2. QED
      BY <1>1, <3>1, BoxOfFits DEF Items, Parts
  <2> DEFINE v == Values(call.step, b)
             i == Items(call.step, b)
  <2> HIDE DEF b, v, i
  <2>4. /\ IsSel(sel') /\ sel'.pc = "open" /\ sel'.trigger.box = b /\ sel'.items = i
        /\ sel'.first = chosen /\ ~sel'.problem /\ ~sel'.panel /\ ~sel'.late /\ sel'.result = "none"
    <3>1. sel' = [NoSelect EXCEPT !.pc = "open", !.trigger = [box |-> b, inner |-> call.ref.by = "name"], !.wants = v, !.left = v,
                     !.items = i, !.first = chosen, !.from = focus]
      BY <2>2 DEF StartSelect, Candidate, v, i
    <3>2. QED
      BY <3>1 DEF NoSelect, IsSel
  <2>5. QED
    BY <1>1, <1>3, <2>1, <2>3, <2>4 DEF BoxesFit, Ticked, Ticking, i
<1>6. CASE Select
  <2>1. /\ UNCHANGED boxes /\ chosen' = [b \in DOMAIN boxes |-> chosen'[b]]
        /\ draft' = [b \in DOMAIN boxes |-> draft'[b]] /\ Ticked(sel', chosen', draft')
    BY <1>1, <1>6, SelectingTicks DEF Select
  <2>2. QED
    BY <1>1, <1>3, <2>1 DEF BoxesFit, Ticked, Ticking, Confirms
<1>7. CASE NextStep
  <2>1. UNCHANGED <<boxes, chosen, draft>> /\ sel' = NoSelect
    BY <1>7 DEF NextStep, boxVars
  <2>2. IsSel(sel') /\ sel'.pc = "idle" /\ ~sel'.panel
    BY <2>1 DEF NoSelect, IsSel
  <2>3. QED
    BY <1>1, <1>3, <2>1, <2>2 DEF BoxesFit, Ticked
<1>8. QED
  BY <1>4, <1>5, <1>6, <1>7 DEF Next, Script, Resolve, Ground, FallBack, CannotAct, DoAction, EndSelecting,
         Recover, Rerender, DialogFlips, ControlFlips, vars, boxVars

\* Of a panel that is confirmed as a whole, with any items and values, however often
\* the page does not respond and whichever of its clicks raise, a step applies all its
\* values, with the items that were ticked when it came, or nothing; a failed step
\* applies them only when the click that confirmed took effect and raised.
THEOREM PanelsTakeAllOrNothing == Spec => []PanelAllOrNothing
<1>1. Init => TickInv
  BY StepsInitially, TicksInitially DEF TickInv
<1>2. TickInv /\ [Next]_vars => TickInv'
  BY StepsAim, StepsTick DEF TickInv
<1>3. TickInv => PanelAllOrNothing
  BY DEF TickInv, Ticked, Ticking, Confirms, Trigger, PanelAllOrNothing
<1>4. QED
  BY <1>1, <1>2, <1>3, PTL DEF Spec
-----------------------------------------------------------------------------
\* The best of a scan has the highest score.
LEMMA BestIs ==
    ASSUME NEW S, S \subseteq Nat, S # {}, IsFiniteSet(S), NEW score, \A i \in S : score[i] \in Int
    PROVE  BestOf(S, score) \in S /\ \A i \in S : score[i] <= score[BestOf(S, score)]
<1> DEFINE scores == {score[i] : i \in S}
           best   == {i \in S : score[i] = Max(scores)}
<1>1. scores \subseteq Int /\ scores # {} /\ IsFiniteSet(scores)
  <2> DEFINE f == [i \in S |-> score[i]]
  <2>1. f \in Surjection(S, scores)
    BY DEF Surjection
  <2>2. QED
    BY <2>1, FS_Surjection
<1>2. Max(scores) \in scores /\ \A y \in scores : Max(scores) >= y
  BY <1>1, MaxIs
<1>3. best # {} /\ best \subseteq Nat
  BY <1>2
<1>4. Min(best) \in best
  BY <1>3, MinIs
<1>5. BestOf(S, score) = Min(best)
  BY DEF BestOf
<1>6. QED
  BY <1>2, <1>4, <1>5

\* The shares of a text: none of nothing, and no less of more.
LEMMA ShareOrder ==
    ASSUME NEW tokens, tokens \subseteq Word, NEW n \in Nat, NEW m \in Nat
    PROVE  /\ Share(0, tokens) = 0
           /\ n <= m => Share(n, tokens) <= Share(m, tokens)
<1>1. CASE tokens = {}
  BY <1>1 DEF Share
<1>2. CASE tokens # {}
  <2>1. IsFiniteSet(tokens)
    BY WordAssumption, FS_Subset
  <2>2. Cardinality(tokens) \in Nat /\ Cardinality(tokens) # 0
    BY <1>2, <2>1, FS_CardinalityType, FS_EmptySet
  <2> DEFINE k == Cardinality(tokens)
             x == (Unit * n) \div k
             y == (Unit * m) \div k
  <2>3. Share(n, tokens) = x /\ Share(m, tokens) = y /\ Share(0, tokens) = (Unit * 0) \div k
    BY <1>2 DEF Share
  <2>4. k \in Nat /\ k > 0
    BY <2>2
  <2> HIDE DEF k
  <2>5. (Unit * 0) \div k = 0
    BY <2>4 DEF Unit
  <2>6. x \in Int /\ y \in Int /\ k * x <= Unit * n /\ Unit * m < k * (y + 1)
    BY <2>4 DEF Unit
  <2> HIDE DEF x, y
  <2>7. ASSUME n <= m, y < x PROVE FALSE
    <3>1. y + 1 <= x
      BY <2>6, <2>7
    <3>2. k * (y + 1) <= k * x
      BY <2>4, <2>6, <3>1
    <3>3. Unit * n <= Unit * m
      BY <2>7 DEF Unit
    <3>4. Unit * n \in Int /\ Unit * m \in Int /\ k * x \in Int /\ k * (y + 1) \in Int
      BY <2>4, <2>6 DEF Unit
    <3>5. QED
      BY <2>6, <3>2, <3>3, <3>4
  <2>8. QED
    BY <2>3, <2>5, <2>6, <2>7
<1>3. QED
  BY <1>1, <1>2

\* One word more weighs more than the positions on a small page.
LEMMA ShareStep ==
    ASSUME NEW tokens, tokens \subseteq Word, tokens # {}, NEW n \in Nat, NEW m \in Nat, n < m,
           NEW N \in Nat, 2 * Cardinality(tokens) * N <= Unit
    PROVE  Share(m, tokens) \div 2 >= Share(n, tokens) \div 2 + N
<1>1. IsFiniteSet(tokens)
  BY WordAssumption, FS_Subset
<1>2. Cardinality(tokens) \in Nat /\ Cardinality(tokens) # 0
  BY <1>1, FS_CardinalityType, FS_EmptySet
<1> DEFINE k == Cardinality(tokens)
           x == (Unit * n) \div k
           y == (Unit * m) \div k
<1>3. Share(n, tokens) = x /\ Share(m, tokens) = y
  BY DEF Share
<1>4. k \in Nat /\ k > 0 /\ 2 * k * N <= Unit
  BY <1>2
<1> HIDE DEF k
<1>5. x \in Int /\ y \in Int /\ k * x <= Unit * n /\ Unit * m < k * (y + 1)
  BY <1>4 DEF Unit
<1> HIDE DEF x, y
<1>6. y >= x + 2 * N
  <2>1. SUFFICES ASSUME y + 1 <= x + 2 * N PROVE FALSE
    BY <1>5
  <2>2. k * (y + 1) <= k * (x + 2 * N)
    BY <1>4, <1>5, <2>1
  <2>3. k * (x + 2 * N) = k * x + 2 * k * N
    BY <1>4, <1>5
  <2>4. Unit * n + Unit <= Unit * m
    BY DEF Unit
  <2>5. k * x \in Int /\ 2 * k * N \in Int /\ k * (y + 1) \in Int
    BY <1>4, <1>5
  <2>6. QED
    BY <1>4, <1>5, <2>2, <2>3, <2>4, <2>5 DEF Unit
<1>7. QED
  BY <1>3, <1>5, <1>6

\* Of options with one label, on a small page, the section decides.
LEMMA SectionWins ==
    ASSUME PageFits, NEW phrase \in Text, NEW ctx \in Text, NEW S, S \subseteq shown,
           NEW at, \A i \in S : at[i] \in Int, \A i, j \in S : at[i] - at[j] < Len(dom),
           NEW score, \A i \in S : score[i] = OptionScore(dom[i], phrase, ctx) + at[i],
           NEW e, e = Claimed(score, BestOf(S, score)), e # None,
           2 * Cardinality(Context(ctx, phrase)) * Len(dom) <= Unit,
           NEW f \in S, dom[f].label = dom[e].label
    PROVE  Overlap(Context(ctx, phrase), dom[f].section) <= Overlap(Context(ctx, phrase), dom[e].section)
<1> DEFINE words == Context(ctx, phrase)
           n == Cardinality(Hits(words, dom[e].section))
           m == Cardinality(Hits(words, dom[f].section))
           N == Len(dom)
<1>1. IsFiniteSet(S) /\ S \subseteq Nat /\ N \in Nat /\ \A i \in S : dom[i] \in Element
  <2>1. IsFiniteSet(DOMAIN dom)
    BY FS_Interval DEF PageFits
  <2>2. QED
    BY <2>1, FS_Subset DEF PageFits
<1>2. \A i \in S : score[i] \in Int
  <2>1. \A i \in S : OptionScore(dom[i], phrase, ctx) \in Int
    BY <1>1, OptionType
  <2>2. \A s, t \in Int : s + t \in Int
    OBVIOUS
  <2>3. QED
    BY <2>1, <2>2
<1>3. e \in S /\ score[f] <= score[e]
  <2>1. e = BestOf(S, score)
    BY DEF Claimed
  <2>2. QED
    BY <1>1, <1>2, <2>1, BestIs
<1>4. words \subseteq Word /\ IsFiniteSet(words)
  BY WordAssumption, FS_Subset DEF Context, Text
<1>5. n \in Nat /\ m \in Nat
  <2>1. \A t : Hits(words, t) \subseteq words
    BY DEF Hits
  <2>2. QED
    BY <1>4, <2>1, FS_Subset, FS_CardinalityType
<1>6. Overlap(words, dom[e].section) = Share(n, words) /\ Overlap(words, dom[f].section) = Share(m, words)
  BY DEF Overlap
<1>7. Base(dom[e], phrase) = Base(dom[f], phrase) /\ Base(dom[f], phrase) \in Int
  BY <1>1, OptionType DEF Base
<1> DEFINE b == Base(dom[f], phrase)
           x == Share(n, words) \div 2
           y == Share(m, words) \div 2
<1>8. /\ score[e] = b + x + at[e] /\ score[f] = b + y + at[f] /\ x \in Int /\ y \in Int
      /\ at[e] \in Int /\ at[f] \in Int /\ at[e] - at[f] < N
  <2>1. /\ OptionScore(dom[e], phrase, ctx) = b + x /\ OptionScore(dom[f], phrase, ctx) = b + y
        /\ x \in Int /\ y \in Int
    <3>1. x = Overlap(words, dom[e].section) \div 2 /\ y = Overlap(words, dom[f].section) \div 2
      BY <1>6
    <3> HIDE DEF n, m, x, y
    <3>2. OptionScore(dom[e], phrase, ctx) = Base(dom[e], phrase) + Overlap(words, dom[e].section) \div 2
          /\ Overlap(words, dom[e].section) \div 2 \in Int
      BY <1>1, <1>3, OptionType
    <3>3. OptionScore(dom[f], phrase, ctx) = Base(dom[f], phrase) + Overlap(words, dom[f].section) \div 2
          /\ Overlap(words, dom[f].section) \div 2 \in Int
      BY <1>1, OptionType
    <3>4. QED
      BY <1>7, <3>1, <3>2, <3>3
  <2> HIDE DEF x, y, b, N
  <2>2. QED
    BY <1>3, <2>1 DEF N
<1>9. ASSUME n < m PROVE FALSE
  <2>1. words # {}
    <3>1. CASE words = {}
      BY <1>9, <3>1, FS_EmptySet DEF Hits
    <3>2. QED
      BY <3>1
  <2> HIDE DEF n, m, words
  <2>2. y >= x + N
    <3>1. 2 * Cardinality(words) * N <= Unit
      BY DEF words
    <3> HIDE DEF N
    <3>2. QED
      BY <1>1, <1>4, <1>5, <1>9, <2>1, <3>1, ShareStep
  <2> HIDE DEF x, y, b, N
  <2>3. b \in Int
    BY <1>7 DEF b
  <2>4. QED
    BY <1>1, <1>3, <1>8, <2>2, <2>3
<1>10. QED
  <2> HIDE DEF n, m, words
  <2>1. m <= n
    BY <1>5, <1>9
  <2>2. Share(m, words) <= Share(n, words)
    BY <1>4, <1>5, <2>1, ShareOrder
  <2>3. QED
    BY <1>6, <2>2 DEF words

\* Positions differ by less than there are elements.
LEMMA RanksApart ==
    ASSUME PageFits, NEW S, S \subseteq shown
    PROVE  /\ \A i \in S : Rank(S, i) \in Nat
           /\ \A i, j \in S : Rank(S, i) - Rank(S, j) < Len(dom)
<1>1. IsFiniteSet(S) /\ S \subseteq DOMAIN dom /\ S \subseteq Nat /\ Len(dom) \in Nat /\ DOMAIN dom = 1..Len(dom)
  <2>1. IsFiniteSet(DOMAIN dom)
    BY FS_Interval DEF PageFits
  <2>2. QED
    BY <2>1, FS_Subset DEF PageFits
<1>2. \A i \in S : Rank(S, i) \in Nat
  BY <1>1, FS_Subset, FS_CardinalityType DEF Rank
<1>3. \A i \in S : Rank(S, i) < Len(dom)
  <2>1. SUFFICES ASSUME NEW i \in S PROVE Rank(S, i) < Len(dom)
    OBVIOUS
  <2> DEFINE T == {j \in S : j < i}
  <2>2. T \subseteq 1..(i - 1) /\ i \in Nat /\ i <= Len(dom) /\ i >= 1
    BY <1>1
  <2>3. IsFiniteSet(1..(i - 1)) /\ Cardinality(1..(i - 1)) = i - 1
    BY <2>2, FS_Interval
  <2>4. Cardinality(T) <= Cardinality(1..(i - 1)) /\ Cardinality(T) \in Nat
    <3> HIDE DEF T
    <3>1. QED
      BY <2>2, <2>3, FS_Subset, FS_CardinalityType
  <2>5. QED
    BY <1>1, <2>2, <2>3, <2>4 DEF Rank
<1>4. QED
  BY <1>1, <1>2, <1>3

\* All that is in a dialog is shown, or none of it.
DialogWhole == InDialog(dom) \subseteq shown \/ InDialog(dom) \cap shown = {}

\* Of the controls named alike that are or may come in sight, e is in the section
\* that has most of the words.
Prefers(e, words) ==
    2 * Cardinality(words) * Len(dom) <= Unit =>
        \A f \in DOMAIN dom :
            /\ dom[f].kind = dom[e].kind /\ dom[f].label = dom[e].label /\ dom[f].where = dom[e].where
            /\ dom[f].where # "dialog" => f \in shown
            => Overlap(words, dom[f].section) <= Overlap(words, dom[e].section)

\* The scan of a kind of controls, all of a place or none, for the words of a step.
Scan(S, kind, phrase, ctx, at, score) ==
    /\ S \subseteq Of(dom, shown, {kind})
    /\ \A i \in S : \A j \in Of(dom, shown, {kind}) : dom[i].where = dom[j].where => j \in S
    /\ \A i \in S : at[i] \in Int
    /\ \A i, j \in S : at[i] - at[j] < Len(dom)
    /\ \A i \in S : score[i] = OptionScore(dom[i], phrase, ctx) + at[i]

Takes(S, score, e) == e = Claimed(score, BestOf(S, score)) /\ e # None

LEMMA ScanPrefers ==
    ASSUME PageFits, DialogWhole, NEW phrase \in Text, NEW ctx \in Text, NEW kind, kind # "file",
           NEW S, NEW at, NEW score, Scan(S, kind, phrase, ctx, at, score),
           NEW e, Takes(S, score, e)
    PROVE  dom[e].kind = kind /\ Prefers(e, Context(ctx, phrase))
<1>0. /\ S \subseteq Of(dom, shown, {kind})
      /\ \A i \in S : \A j \in Of(dom, shown, {kind}) : dom[i].where = dom[j].where => j \in S
      /\ \A i \in S : at[i] \in Int
      /\ \A i, j \in S : at[i] - at[j] < Len(dom)
      /\ \A i \in S : score[i] = OptionScore(dom[i], phrase, ctx) + at[i]
  BY DEF Scan
<1>10. e = Claimed(score, BestOf(S, score)) /\ e # None
  BY DEF Takes
<1>1. S \subseteq shown /\ \A i \in S : dom[i].kind = kind
  BY <1>0 DEF Of
<1>2. e \in S
  <2>1. IsFiniteSet(DOMAIN dom) /\ S \subseteq DOMAIN dom
    BY <1>1, FS_Interval DEF PageFits
  <2>2. IsFiniteSet(S) /\ S \subseteq Nat
    BY <2>1, FS_Subset DEF PageFits
  <2>3. \A i \in S : OptionScore(dom[i], phrase, ctx) \in Int
    <3>1. \A i \in S : dom[i] \in Element
      BY <1>1 DEF PageFits
    <3>2. QED
      BY <3>1, OptionType
  <2>4. \A s, t \in Int : s + t \in Int
    OBVIOUS
  <2>5. \A i \in S : score[i] \in Int
    BY <1>0, <2>3, <2>4
  <2>6. BestOf(S, score) \in S \union {None}
    BY <2>2, <2>5, BestScanned
  <2>7. QED
    BY <1>10, <2>6 DEF Claimed
<1>3. SUFFICES ASSUME NEW f \in DOMAIN dom, 2 * Cardinality(Context(ctx, phrase)) * Len(dom) <= Unit,
                      dom[f].kind = kind, dom[f].label = dom[e].label, dom[f].where = dom[e].where,
                      dom[f].where # "dialog" => f \in shown
               PROVE  Overlap(Context(ctx, phrase), dom[f].section) <= Overlap(Context(ctx, phrase), dom[e].section)
  BY <1>1, <1>2 DEF Prefers
<1>4. f \in shown
  BY <1>1, <1>2, <1>3 DEF DialogWhole, InDialog, PageFits
<1>5. f \in S
  BY <1>0, <1>2, <1>3, <1>4 DEF Of
<1>6. QED
  BY <1>0, <1>10, <1>1, <1>3, <1>5, SectionWins

LEMMA OptionsPrefer ==
    ASSUME PageFits, DialogWhole, NEW phrase \in Text, NEW ctx \in Text
    PROVE  /\ LET e == FindRadio(dom, shown, phrase, ctx) IN
              e # None => dom[e].kind = "radio" /\ Prefers(e, Context(ctx, phrase))
           /\ LET e == FindCheckbox(dom, shown, phrase, ctx) IN
              e # None => dom[e].kind = "checkbox" /\ Prefers(e, Context(ctx, phrase))
<1>1. ASSUME FindRadio(dom, shown, phrase, ctx) # None
      PROVE  LET e == FindRadio(dom, shown, phrase, ctx) IN
             dom[e].kind = "radio" /\ Prefers(e, Context(ctx, phrase))
  <2> DEFINE S     == Boxed(dom, shown, "radio")
             score == [i \in S |-> OptionScore(dom[i], phrase, ctx) + Rank(S, i)]
             at    == [i \in S |-> Rank(S, i)]
             e     == FindRadio(dom, shown, phrase, ctx)
  <2>1. S \subseteq shown
    BY DEF Boxed, Scoped, Of, PageFits
  <2>2. e = Claimed(score, BestOf(S, score))
    BY DEF FindRadio
  <2>3. \A i \in S : score[i] = OptionScore(dom[i], phrase, ctx) + at[i] /\ at[i] = Rank(S, i)
    OBVIOUS
  <2>4. /\ S \subseteq Of(dom, shown, {"radio"})
        /\ \A i \in S : \A j \in Of(dom, shown, {"radio"}) : dom[i].where = dom[j].where => j \in S
    BY DEF Boxed, Scoped, Of, PageFits
  <2> HIDE DEF S, score, at
  <2>5. (\A i \in S : at[i] \in Int) /\ \A i, j \in S : at[i] - at[j] < Len(dom)
    BY <2>1, <2>3, RanksApart
  <2> HIDE DEF e
  <2>6. e # None
    BY <1>1 DEF e
  <2>7. \A i \in S : score[i] = OptionScore(dom[i], phrase, ctx) + at[i]
    BY <2>3
  <2>8. Scan(S, "radio", phrase, ctx, at, score) /\ "radio" # "file"
    BY <2>4, <2>5, <2>7 DEF Scan
  <2>9. Takes(S, score, e)
    BY <2>2, <2>6 DEF Takes
  <2>10. dom[e].kind = "radio" /\ Prefers(e, Context(ctx, phrase))
    BY <2>8, <2>9, ScanPrefers, Zenon
  <2>11. QED
    BY <2>10 DEF e
<1>2. ASSUME FindCheckbox(dom, shown, phrase, ctx) # None
      PROVE  LET e == FindCheckbox(dom, shown, phrase, ctx) IN
             dom[e].kind = "checkbox" /\ Prefers(e, Context(ctx, phrase))
  <2> DEFINE S     == Boxed(dom, shown, "checkbox")
             score == [i \in S |-> OptionScore(dom[i], phrase, ctx) - Rank(S, i)]
             at    == [i \in S |-> -Rank(S, i)]
             e     == FindCheckbox(dom, shown, phrase, ctx)
  <2>1. S \subseteq shown
    BY DEF Boxed, Scoped, Of, PageFits
  <2>2. e = Claimed(score, BestOf(S, score))
    BY DEF FindCheckbox
  <2>3. \A i \in S : score[i] = OptionScore(dom[i], phrase, ctx) - Rank(S, i) /\ at[i] = -Rank(S, i)
    OBVIOUS
  <2>4. /\ S \subseteq Of(dom, shown, {"checkbox"})
        /\ \A i \in S : \A j \in Of(dom, shown, {"checkbox"}) : dom[i].where = dom[j].where => j \in S
        /\ \A i \in S : dom[i] \in Element
    BY <2>1 DEF PageFits, Boxed, Scoped, Of
  <2> HIDE DEF S, score, at
  <2>5. (\A i \in S : at[i] \in Int) /\ \A i, j \in S : at[i] - at[j] < Len(dom)
    <3>1. \A r, t \in Nat, n \in Nat : r - t < n => -t - -r < n
      OBVIOUS
    <3>2. \A i \in S : Rank(S, i) \in Nat
      BY <2>1, RanksApart
    <3>3. Len(dom) \in Nat
      BY DEF PageFits
    <3>4. \A i, j \in S : Rank(S, j) - Rank(S, i) < Len(dom)
      BY <2>1, RanksApart
    <3>5. ASSUME NEW i \in S, NEW j \in S PROVE at[i] \in Int /\ at[i] - at[j] < Len(dom)
      <4> DEFINE r == Rank(S, j)
                 t == Rank(S, i)
      <4>1. r \in Nat /\ t \in Nat /\ r - t < Len(dom) /\ at[i] = -t /\ at[j] = -r
        BY <2>3, <3>2, <3>4
      <4> HIDE DEF r, t
      <4>2. QED
        BY <3>1, <3>3, <4>1
    <3>6. QED
      BY <3>5
  <2>6. \A i \in S : score[i] = OptionScore(dom[i], phrase, ctx) + at[i]
    <3>1. \A x \in Int, r \in Nat : x - r = x + -r
      OBVIOUS
    <3>2. \A i \in S : OptionScore(dom[i], phrase, ctx) \in Int
      BY <2>4, OptionType
    <3>3. \A i \in S : Rank(S, i) \in Nat
      BY <2>1, RanksApart
    <3>4. SUFFICES ASSUME NEW i \in S PROVE score[i] = OptionScore(dom[i], phrase, ctx) + at[i]
      OBVIOUS
    <3> DEFINE x == OptionScore(dom[i], phrase, ctx)
               r == Rank(S, i)
    <3>5. score[i] = x - r /\ at[i] = -r /\ x \in Int /\ r \in Nat
      BY <2>3, <3>2, <3>3
    <3> HIDE DEF x, r
    <3>6. score[i] = x + at[i]
      BY <3>1, <3>5
    <3>7. QED
      BY <3>6 DEF x
  <2> HIDE DEF e
  <2>7. e # None
    BY <1>2 DEF e
  <2>8. Scan(S, "checkbox", phrase, ctx, at, score) /\ "checkbox" # "file"
    BY <2>4, <2>5, <2>6 DEF Scan
  <2>9. Takes(S, score, e)
    BY <2>2, <2>7 DEF Takes
  <2>10. dom[e].kind = "checkbox" /\ Prefers(e, Context(ctx, phrase))
    BY <2>8, <2>9, ScanPrefers, Zenon
  <2>11. QED
    BY <2>10 DEF e
<1>3. QED
  BY <1>1, <1>2

\* A field that is found shares a word with the phrase.
Shares(phrase, e) == Hits(phrase, e.label \union e.hint \union e.section) # {}

LEMMA FieldShares ==
    ASSUME PageFits, NEW phrase \in Text, NEW e, e = FindInput(dom, shown, phrase), e # None
    PROVE  Shares(phrase, dom[e])
<1> DEFINE S     == Scoped(dom, shown, Fillable(dom, shown))
           real  == InputMatch(dom, phrase)
           score == [i \in S |-> real[i] + 10 * Ahead(S, i)]
<1>1. e = BestOf(S, score) /\ real[e] # 0
  BY DEF FindInput
<1>2. S \subseteq shown
  BY DEF Scoped, Fillable, Of
<1>3. IsFiniteSet(S) /\ S \subseteq DOMAIN dom /\ S \subseteq Nat /\ \A i \in S : dom[i] \in Element
  <2>1. IsFiniteSet(DOMAIN dom)
    BY FS_Interval DEF PageFits
  <2>2. QED
    BY <1>2, <2>1, FS_Subset DEF PageFits
<1>4. phrase \subseteq Word
  BY DEF Text
<1>5. ASSUME NEW i \in S
      PROVE  real[i] \in Int /\ (~Shares(phrase, dom[i]) => real[i] = 0)
  <2> DEFINE l  == Overlap(phrase, dom[i].label)
             h  == Overlap(phrase, dom[i].hint)
             s  == Overlap(phrase, dom[i].section)
             tl == Tight(phrase, dom[i].label)
             th == Tight(phrase, dom[i].hint)
  <2>1. real[i] = 3 * l + (12 * h) \div 10 + s + 3 * tl + (12 * th) \div 10
    BY <1>3 DEF InputMatch
  <2>2. l \in Int /\ h \in Int /\ s \in Int
    BY <1>4, OverlapsType
  <2>3. tl \in {0, Unit} /\ th \in {0, Unit}
    BY DEF Tight
  <2>4. ASSUME ~Shares(phrase, dom[i])
        PROVE  l = 0 /\ h = 0 /\ s = 0 /\ tl = 0 /\ th = 0
    <3>1. /\ Hits(phrase, dom[i].label) = {} /\ Hits(phrase, dom[i].hint) = {}
          /\ Hits(phrase, dom[i].section) = {}
      BY <2>4 DEF Shares, Hits
    <3>2. l = 0 /\ h = 0 /\ s = 0
      BY <1>4, <3>1, ShareOrder, FS_EmptySet DEF Overlap
    <3>3. \A t : Hits(phrase, t) = {} => Tight(phrase, t) = 0
      BY <1>4, WordAssumption DEF Hits, Tight
    <3>4. QED
      BY <3>1, <3>2, <3>3
  <2> HIDE DEF l, h, s, tl, th, real
  <2>5. QED
    BY <2>1, <2>2, <2>3, <2>4 DEF Unit
<1>6. \A i \in S : score[i] \in Int
  <2>1. \A i \in S : Ahead(S, i) \in Int
    <3>1. \A i \in S : Rank(S, i) \in Nat
      BY <1>2, RanksApart
    <3>2. Cardinality(S) \in Nat
      BY <1>3, FS_CardinalityType
    <3> HIDE DEF S
    <3>3. QED
      BY <3>1, <3>2 DEF Ahead
  <2>2. \A i \in S : score[i] = real[i] + 10 * Ahead(S, i)
    OBVIOUS
  <2> HIDE DEF S, score, real
  <2>3. QED
    BY <1>5, <2>1, <2>2
<1> HIDE DEF S, score, real
<1>7. e \in S
  BY <1>1, <1>3, <1>6, BestScanned
<1>8. QED
  BY <1>1, <1>5, <1>7

\* What the finders claim of the words of a step.
LEMMA ClaimsChoose ==
    ASSUME PageFits, DialogWhole, NEW s \in Step, NEW i \in DOMAIN Claims(s), Claims(s)[i].el # None
    PROVE  LET c == Claims(s)[i] IN
           /\ c.attr = "input" => Shares(s.phrase, dom[c.el])
           /\ c.attr \in {"radio", "checkbox"} => Prefers(c.el, Context(s.ctx, s.phrase))
<1> DEFINE all   == Claims(s)
           names == <<"cell", "link", "header", "range", "file", "dialog", "collapse", "radio", "checkbox", "editor", "input">>
<1>1. i \in 1..11
  BY DEF Claims
<1>2. \A attr, ran, el, act : LET c == Claim(attr, ran, el, act) IN
          c.attr = attr /\ (c.el # None => c.el = el)
  BY DEF Claim
<1>3. \A k \in 1..11 : all[k].attr = names[k]
  BY <1>2 DEF Claims, CellClaim, LinkClaim, HeaderClaim, RangeClaim, FileClaim, DialogClaim, PanelClaim,
              RadioClaim, CheckClaim, EditorClaim, InputClaim
<1>4. \A k \in 1..11 : (names[k] = "checkbox" => k = 9) /\ (names[k] = "radio" => k = 8) /\ (names[k] = "input" => k = 11)
  OBVIOUS
<1>5. all[8] = RadioClaim(s) /\ all[9] = CheckClaim(s) /\ all[11] = InputClaim(s)
  BY DEF Claims
<1>6. s.phrase \in Text /\ s.ctx \in Text
  BY DEF Step
<1>7. RadioClaim(s).el # None => RadioClaim(s).el = FindRadio(dom, shown, s.phrase, s.ctx)
  BY <1>2 DEF RadioClaim
<1>8. CheckClaim(s).el # None => CheckClaim(s).el = FindCheckbox(dom, shown, s.phrase, s.ctx)
  BY <1>2 DEF CheckClaim
<1>9. InputClaim(s).el # None => InputClaim(s).el = FindInput(dom, shown, s.phrase)
  BY <1>2 DEF InputClaim
<1> HIDE DEF all, names
<1>10. CASE i = 8
  BY <1>1, <1>3, <1>4, <1>5, <1>6, <1>7, <1>10, OptionsPrefer DEF all
<1>11. CASE i = 9
  BY <1>1, <1>3, <1>4, <1>5, <1>6, <1>8, <1>11, OptionsPrefer DEF all
<1>12. CASE i = 11
  BY <1>1, <1>3, <1>4, <1>5, <1>6, <1>9, <1>12, FieldShares DEF all
<1>13. QED
  BY <1>1, <1>3, <1>4, <1>10, <1>11, <1>12 DEF all

LEMMA FallbacksChoose ==
    ASSUME PageFits, NEW s \in Step, NEW act, NEW i \in 1..3, Fallbacks(s, act)[i].el # None,
           Fallbacks(s, act)[i].attr = "input"
    PROVE  Shares(s.phrase, dom[Fallbacks(s, act)[i].el])
<1> DEFINE all   == Fallbacks(s, act)
           names == <<"select", "click", "input">>
<1>1. \A attr, ran, el, do : LET c == Claim(attr, ran, el, do) IN c.attr = attr /\ (c.el # None => c.el = el)
  BY DEF Claim
<1>2. \A k \in 1..3 : all[k].attr = names[k]
  BY <1>1 DEF Fallbacks
<1>3. names[1] # "input" /\ names[2] # "input"
  OBVIOUS
<1>4. all[3].el # None => all[3].el = FindInput(dom, shown, s.phrase)
  BY <1>1 DEF Fallbacks
<1>5. s.phrase \in Text
  BY DEF Step
<1> HIDE DEF all, names
<1>6. i = 3
  BY <1>2, <1>3 DEF all
<1>7. QED
  BY <1>4, <1>5, <1>6, FieldShares DEF all

\* What the words chose: the field of a ref, what was acted on, and the option claimed.
Fits(c, r) == r.attr = "input" => Shares(c.step.phrase, dom[r.el])
Chosen(c) ==
    /\ Fits(c, c.ref)
    /\ \A i \in DOMAIN c.queue : Fits(c, c.queue[i])
    /\ \A i \in DOMAIN c.hits : Fits(c, c.hits[i].ref)
    /\ c.claim \in {"radio", "checkbox"} /\ c.pc \in {"act", "select"} /\ ~c.recovering
          => Prefers(c.ref.el, Context(c.step.ctx, c.step.phrase))
    /\ c.pc \in {"resolve", "ground", "fall"} => c.claim = "none"
ChoiceInv == WInv /\ DialogWhole /\ Chosen(call)

\* A call that goes on with other targets, or none.
Onward(c, d) ==
    /\ d.step = c.step /\ d.claim = c.claim /\ d.recovering = c.recovering
    /\ \A i \in DOMAIN d.queue : Fits(c, d.queue[i])
    /\ \A i \in DOMAIN d.hits : Fits(c, d.hits[i].ref)
    /\ d.ref = c.ref \/ Fits(c, d.ref)
    /\ d.pc \in {"act", "select"} => \/ c.pc \in {"act", "select"} /\ d.ref = c.ref
                                   \/ c.pc \in {"ground", "fall"} \/ c.recovering
    /\ d.pc \in {"resolve", "ground", "fall"} => c.pc \in {"resolve", "ground", "fall"}

LEMMA OnwardChosen ==
    ASSUME NEW c, Chosen(c), NEW d, Onward(c, d)
    PROVE  Chosen(d)
<1>1. \A r : Fits(c, r) <=> Fits(d, r)
  BY DEF Onward, Fits
<1>2. QED
  BY <1>1 DEF Onward, Chosen

LEMMA RetryOnward ==
    ASSUME IsCall(call), Chosen(call), \E S : call.queue \in Seq(S), NEW t, NEW hits, NEW lates,
           \A i \in DOMAIN hits : Fits(call, hits[i].ref), call.pc \in {"act", "select"}
    PROVE  Onward(call, [Retry(t) EXCEPT !.hits = hits, !.lates = lates])
<1> DEFINE c == [Retry(t) EXCEPT !.hits = hits, !.lates = lates]
<1>0. \A i \in DOMAIN call.queue : Fits(call, call.queue[i])
  BY DEF Chosen
<1>1. CASE t /\ call.tries < Retries
  <2>1. c = [call EXCEPT !.pc = "act", !.tries = call.tries + 1, !.hits = hits, !.lates = lates]
    BY <1>1 DEF Retry, IsCall
  <2> HIDE DEF c
  <2>2. /\ c.step = call.step /\ c.claim = call.claim /\ c.recovering = call.recovering /\ c.queue = call.queue
        /\ c.hits = hits /\ c.ref = call.ref /\ c.pc = "act"
    BY <2>1 DEF IsCall
  <2>3. Onward(call, c)
    BY <1>0, <2>2 DEF Onward
  <2>4. QED
    BY <2>3 DEF c
<1>2. CASE ~(t /\ call.tries < Retries) /\ ~call.recovering
  <2>1. c = [call EXCEPT !.pc = "recover", !.hits = hits, !.lates = lates]
    BY <1>2 DEF Retry, GiveUp, IsCall
  <2> HIDE DEF c
  <2>2. /\ c.step = call.step /\ c.claim = call.claim /\ c.recovering = call.recovering /\ c.queue = call.queue
        /\ c.hits = hits /\ c.ref = call.ref /\ c.pc = "recover"
    BY <2>1 DEF IsCall
  <2>3. Onward(call, c)
    BY <1>0, <2>2 DEF Onward
  <2>4. QED
    BY <2>3 DEF c
<1>3. CASE ~(t /\ call.tries < Retries) /\ call.recovering /\ call.queue = <<>>
  <2>1. c = [call EXCEPT !.pc = "done", !.result = "failed", !.hits = hits, !.lates = lates]
    BY <1>3 DEF Retry, GiveUp, End, IsCall
  <2> HIDE DEF c
  <2>2. /\ c.step = call.step /\ c.claim = call.claim /\ c.recovering = call.recovering /\ c.queue = call.queue
        /\ c.hits = hits /\ c.ref = call.ref /\ c.pc = "done"
    BY <2>1 DEF IsCall
  <2>3. Onward(call, c)
    BY <1>0, <2>2 DEF Onward
  <2>4. QED
    BY <2>3 DEF c
<1>4. CASE ~(t /\ call.tries < Retries) /\ call.recovering /\ call.queue # <<>>
  <2> DEFINE h == Head(call.queue)
             q == Tail(call.queue)
  <2>1. c = [call EXCEPT !.pc = "act", !.ref = h, !.queue = q, !.tries = 0, !.hits = hits, !.lates = lates]
    BY <1>4 DEF Retry, GiveUp, Target, IsCall
  <2>2. Fits(call, h) /\ \A i \in DOMAIN q : Fits(call, q[i])
    <3>1. PICK S : call.queue \in Seq(S)
      OBVIOUS
    <3>2. /\ h = call.queue[1] /\ 1 \in DOMAIN call.queue
          /\ \A i \in DOMAIN q : i + 1 \in DOMAIN call.queue /\ q[i] = call.queue[i + 1]
      BY <1>4, <3>1
    <3>3. QED
      BY <1>0, <3>2
  <2> HIDE DEF h, q
  <2> HIDE DEF c
  <2>3. /\ c.step = call.step /\ c.claim = call.claim /\ c.recovering = call.recovering /\ c.queue = q
        /\ c.hits = hits /\ c.ref = h /\ c.pc = "act"
    BY <2>1 DEF IsCall
  <2>4. Onward(call, c)
    BY <1>4, <2>2, <2>3 DEF Onward
  <2>5. QED
    BY <2>4 DEF c
<1>5. QED
  BY <1>1, <1>2, <1>3, <1>4

\* An attempt is on the ref of the call.
LEMMA HitsFit ==
    ASSUME WInv, Chosen(call), NEW e
    PROVE  LET hits == Append(call.hits, [ref |-> call.ref, got |-> e]) IN
           \A i \in DOMAIN hits : Fits(call, hits[i].ref)
<1>1. PICK S : call.hits \in Seq(S)
  BY DEF WInv, Landed, AsFound
<1> DEFINE new == [ref |-> call.ref, got |-> e]
<1>2. new.ref = call.ref
  OBVIOUS
<1> HIDE DEF new
<1> DEFINE hits == Append(call.hits, new)
<1>3. call.hits \in Seq(S \union {new})
  BY <1>1
<1>4. \A i \in DOMAIN hits : (i \in DOMAIN call.hits /\ hits[i] = call.hits[i]) \/ hits[i] = new
  BY <1>3
<1> HIDE DEF hits
<1>5. \A i \in DOMAIN hits : Fits(call, hits[i].ref)
  BY <1>2, <1>4 DEF Chosen
<1>6. QED
  BY <1>5 DEF hits, new

\* What the recovery tries is what its finders found.
LEMMA UntriedFits ==
    ASSUME PageFits, NEW ref
    PROVE  LET refs == Untried(Fallbacks(call.step, call.act), ref) IN
           /\ \E S : refs \in Seq(S)
           /\ \A i \in DOMAIN refs : Fits(call, refs[i])
<1> DEFINE all == Fallbacks(call.step, call.act)
           RefAt(i) == RefTo(all[i].attr, all[i].el)
           IfNew(i) == IF all[i].el # None /\ ~SameRef(RefAt(i), ref) THEN <<RefAt(i)>> ELSE <<>>
           Good == {r \in {RefAt(i) : i \in 1..3} : Fits(call, r)}
<1>1. ASSUME NEW i \in 1..3, all[i].el # None PROVE RefAt(i) \in Good
  <2>1. RefAt(i).attr = all[i].attr /\ RefAt(i).el = all[i].el
    BY DEF RefTo
  <2>2. all[i].attr = "input" => Shares(call.step.phrase, dom[all[i].el])
    BY <1>1, FallbacksChoose DEF PageFits
  <2>3. Fits(call, RefAt(i))
    BY <2>1, <2>2 DEF Fits
  <2>4. QED
    BY <2>3
<1>2. Untried(all, ref) = IfNew(1) \o IfNew(2) \o IfNew(3)
  BY DEF Untried
<1>3. \A r \in Good : Fits(call, r)
  OBVIOUS
<1> HIDE DEF all, RefAt, Good
<1>4. \A i \in 1..3 : IfNew(i) \in Seq(Good)
  BY <1>1
<1> HIDE DEF IfNew
<1>5. IfNew(1) \o IfNew(2) \o IfNew(3) \in Seq(Good)
  BY <1>4
<1>6. QED
  BY <1>2, <1>3, <1>5 DEF all

LEMMA NewCallChosen ==
    ASSUME NEW s, NEW n
    PROVE  Chosen(NewCall(s, n))
<1>1. DOMAIN <<>> = {}
  OBVIOUS
<1>2. QED
  BY <1>1 DEF NewCall, Chosen, Fits, NoRef

\* A choice stands when what is out of the dialogs does not come in sight.
LEMMA PageStays ==
    ASSUME UNCHANGED dom, Chosen(call'),
           \/ \A f \in DOMAIN dom : dom[f].where # "dialog" /\ f \in shown' => f \in shown
           \/ call'.claim = "none"
    PROVE  Chosen(call)'
<1>1. \A r : Fits(call', r) => Fits(call, r)'
  BY DEF Fits, Shares
<1>2. ASSUME NEW e, NEW words, Prefers(e, words),
             \A f \in DOMAIN dom : dom[f].where # "dialog" /\ f \in shown' => f \in shown
      PROVE  Prefers(e, words)'
  BY <1>2 DEF Prefers
<1>3. call'.claim = "none" => call'.claim \notin {"radio", "checkbox"}
  OBVIOUS
<1>4. QED
  BY <1>2, <1>3 DEF Chosen, Fits, Shares

LEMMA ChoicesInitially == Init => ChoiceInv
<1>1. SUFFICES ASSUME NEW s \in Scenarios, dom = s.dom, shown = s.shown,
                      call = NewCall(Head(s.steps), 1), WInv
               PROVE  DialogWhole /\ Chosen(call)
  BY StepsInitially DEF Init, ChoiceInv
<1>2. DialogWhole
  BY <1>1, ScenariosAssumption DEF DialogWhole
<1>3. Chosen(call)
  BY <1>1, NewCallChosen
<1>4. QED
  BY <1>2, <1>3

LEMMA DialogsStayWhole ==
    ASSUME DialogWhole, UNCHANGED dom,
           \/ UNCHANGED shown
           \/ shown' = shown \union {i \in DOMAIN dom : dom[i].where = "menu"}
           \/ DialogFlips
    PROVE  DialogWhole'
<1>1. InDialog(dom)' = InDialog(dom)
  BY DEF InDialog
<1>2. CASE UNCHANGED shown
  BY <1>1, <1>2 DEF DialogWhole
<1>3. CASE shown' = shown \union {i \in DOMAIN dom : dom[i].where = "menu"}
  <2>1. InDialog(dom) \cap {i \in DOMAIN dom : dom[i].where = "menu"} = {}
    BY DEF InDialog
  <2>2. QED
    BY <1>1, <1>3, <2>1 DEF DialogWhole
<1>4. CASE DialogFlips
  <2>1. shown' = IF InDialog(dom) \subseteq shown THEN shown \ InDialog(dom) ELSE shown \union InDialog(dom)
    BY <1>4 DEF DialogFlips
  <2>2. QED
    BY <1>1, <2>1 DEF DialogWhole
<1>5. QED
  BY <1>2, <1>3, <1>4

LEMMA ResolveChooses ==
    ASSUME ChoiceInv, Resolve
    PROVE  Chosen(call')
<1>1. /\ PageFits /\ DialogWhole /\ Chosen(call) /\ call.step \in Step /\ ~call.recovering /\ call.queue = <<>>
      /\ call.claim = "none"
  BY DEF ChoiceInv, WInv, PageFits, Marked, Resolve, Chosen
<1>2. \A r : Fits(call', r) <=> Fits(call, r)
  BY <1>1, ResolveShape DEF Fits, ChoiceInv
<1>3. /\ \A i \in DOMAIN call'.queue : Fits(call', call'.queue[i])
      /\ \A i \in DOMAIN call'.hits : Fits(call', call'.hits[i].ref)
  BY <1>1, <1>2, ResolveShape DEF Chosen, ChoiceInv
<1>4. CASE call'.pc = "ground" /\ call'.ref = call.ref /\ call'.claim = call.claim
  BY <1>1, <1>2, <1>3, <1>4 DEF Chosen
<1>5. CASE call'.pc # "ground"
  <2>1. PICK i \in DOMAIN Claims(call.step) :
           LET c == Claims(call.step)[i] IN
           /\ c.el # None /\ call'.claim = c.attr /\ call'.ref.el = c.el /\ call'.ref.attr = c.attr
           /\ call'.pc \in {"act", "done"}
    BY <1>5, ResolveShape DEF ChoiceInv
  <2>2. LET c == Claims(call.step)[i] IN
        /\ c.attr = "input" => Shares(call.step.phrase, dom[c.el])
        /\ c.attr \in {"radio", "checkbox"} => Prefers(c.el, Context(call.step.ctx, call.step.phrase))
    BY <1>1, <2>1, ClaimsChoose
  <2>3. call'.step = call.step
    BY ResolveShape DEF ChoiceInv
  <2> DEFINE c == Claims(call.step)[i]
  <2> HIDE DEF c
  <2>4. /\ call'.claim = c.attr /\ call'.ref.el = c.el /\ call'.ref.attr = c.attr
        /\ c.attr = "input" => Shares(call.step.phrase, dom[c.el])
        /\ c.attr \in {"radio", "checkbox"} => Prefers(c.el, Context(call.step.ctx, call.step.phrase))
    BY <2>1, <2>2 DEF c
  <2>5. Fits(call', call'.ref)
    BY <2>3, <2>4 DEF Fits
  <2>6. QED
    BY <1>3, <2>1, <2>3, <2>4, <2>5 DEF Chosen
<1>6. QED
  BY <1>4, <1>5, ResolveShape DEF ChoiceInv

LEMMA FallBackOnward ==
    ASSUME ChoiceInv, FallBack
    PROVE  Onward(call, call')
<1> DEFINE all   == Fallbacks(call.step, call.act)
           I     == {i \in 1..Len(all) : all[i].el # None}
           first == SelectInSeq(all, LAMBDA c : c.el # None)
<1>1. first = IF I # {} THEN Min(I) ELSE 0
  BY DEF SelectInSeq
<1>2. DOMAIN all = 1..3 /\ Len(all) = 3
  BY DEF Fallbacks
<1>3. /\ IF first # 0
            THEN call' = Target(RefTo(all[first].attr, all[first].el), call.act)
            ELSE call' = call \/ call' = End("failed")
      /\ call.pc = "fall" /\ IsCall(call) /\ PageFits /\ call.step \in Step /\ Chosen(call)
  BY DEF FallBack, ChoiceInv, WInv, PageFits
<1>4. /\ \A i \in DOMAIN call.queue : Fits(call, call.queue[i])
      /\ \A i \in DOMAIN call.hits : Fits(call, call.hits[i].ref)
  BY <1>3 DEF Chosen
<1>5. CASE first = 0
  <2>1. call' = call \/ call' = [call EXCEPT !.pc = "done", !.result = "failed"]
    BY <1>3, <1>5 DEF End
  <2>2. /\ call'.step = call.step /\ call'.claim = call.claim /\ call'.recovering = call.recovering
        /\ call'.queue = call.queue /\ call'.hits = call.hits /\ call'.ref = call.ref /\ call'.pc \in {"fall", "done"}
    BY <1>3, <2>1 DEF IsCall
  <2>3. QED
    BY <1>3, <1>4, <2>2 DEF Onward
<1>6. CASE first # 0
  <2>1. first \in I
    BY <1>1, <1>2, <1>6, MinIs
  <2>2. first \in 1..3 /\ all[first].el # None
    BY <1>2, <2>1
  <2>3. all[first].attr = "input" => Shares(call.step.phrase, dom[all[first].el])
    BY <1>3, <2>2, FallbacksChoose
  <2> HIDE DEF all, first, I
  <2> DEFINE ref == RefTo(all[first].attr, all[first].el)
  <2>4. Fits(call, ref)
    BY <2>3 DEF RefTo, Fits
  <2>5. call' = [call EXCEPT !.pc = "act", !.ref = ref]
    BY <1>3, <1>6 DEF Target, IsCall
  <2> HIDE DEF ref
  <2>6. /\ call'.step = call.step /\ call'.claim = call.claim /\ call'.recovering = call.recovering
        /\ call'.queue = call.queue /\ call'.hits = call.hits /\ call'.ref = ref /\ call'.pc = "act"
    BY <1>3, <2>5 DEF IsCall
  <2>7. QED
    BY <1>3, <1>4, <2>4, <2>6 DEF Onward
<1>7. QED
  BY <1>5, <1>6

LEMMA RecoverChooses ==
    ASSUME ChoiceInv, Recover
    PROVE  Chosen(call')
<1> DEFINE refs == Untried(Fallbacks(call.step, call.act), call.ref)
<1>1. /\ call' = IF refs = <<>> THEN End("failed")
                 ELSE [Target(Head(refs), call.act) EXCEPT
                          !.queue = Tail(refs), !.recovering = TRUE, !.tries = 0]
      /\ call.pc = "recover" /\ IsCall(call) /\ PageFits /\ Chosen(call)
  BY DEF Recover, ChoiceInv, WInv, PageFits
<1>2. /\ \E S : refs \in Seq(S)
      /\ \A i \in DOMAIN refs : Fits(call, refs[i])
  BY <1>1, UntriedFits
<1> HIDE DEF refs
<1>3. CASE refs = <<>>
  <2>1. call' = [call EXCEPT !.pc = "done", !.result = "failed"]
    BY <1>1, <1>3 DEF End
  <2>2. /\ call'.step = call.step /\ call'.claim = call.claim /\ call'.queue = call.queue
        /\ call'.hits = call.hits /\ call'.ref = call.ref /\ call'.pc = "done"
    BY <1>1, <2>1 DEF IsCall
  <2>3. QED
    BY <1>1, <2>2 DEF Chosen, Fits
<1>4. CASE refs # <<>>
  <2>1. PICK S : refs \in Seq(S)
    BY <1>2
  <2>2. /\ Head(refs) = refs[1] /\ 1 \in DOMAIN refs
        /\ \A i \in DOMAIN Tail(refs) : i + 1 \in DOMAIN refs /\ Tail(refs)[i] = refs[i + 1]
    BY <1>4, <2>1
  <2> DEFINE h == Head(refs)
             q == Tail(refs)
  <2>3. Fits(call, h) /\ \A i \in DOMAIN q : Fits(call, q[i])
    BY <1>2, <2>2
  <2>4. call' = [call EXCEPT !.pc = "act", !.ref = h, !.queue = q, !.recovering = TRUE, !.tries = 0]
    BY <1>1, <1>4 DEF Target, IsCall
  <2> HIDE DEF h, q
  <2>5. /\ call'.step = call.step /\ call'.queue = q /\ call'.recovering
        /\ call'.hits = call.hits /\ call'.ref = h /\ call'.pc = "act"
    BY <1>1, <2>4 DEF IsCall
  <2>6. \A r : Fits(call, r) <=> Fits(call', r)
    BY <2>5 DEF Fits
  <2>7. QED
    BY <1>1, <2>3, <2>5, <2>6 DEF Chosen
<1>5. QED
  BY <1>3, <1>4

LEMMA AttemptChooses ==
    ASSUME ChoiceInv, CannotAct \/ DoAction \/ StartSelecting \/ EndSelecting
    PROVE  Onward(call, call')
<1>1. /\ WInv /\ IsCall(call) /\ Chosen(call) /\ \E S : call.queue \in Seq(S)
      /\ \A i \in DOMAIN call.queue : Fits(call, call.queue[i])
      /\ \A i \in DOMAIN call.hits : Fits(call, call.hits[i].ref)
  BY DEF ChoiceInv, WInv, PageFits, Marked, Chosen
<1>2. ASSUME NEW d, NEW hits, d = [call EXCEPT !.pc = "done", !.result = "passed", !.hits = hits]
                              \/ (d = [call EXCEPT !.pc = "select", !.hits = hits] /\ call.pc = "act"),
             \A i \in DOMAIN hits : Fits(call, hits[i].ref)
      PROVE  Onward(call, d)
  <2>1. /\ d.step = call.step /\ d.claim = call.claim /\ d.recovering = call.recovering
        /\ d.queue = call.queue /\ d.hits = hits /\ d.ref = call.ref /\ d.pc \in {"done", "select"}
        /\ d.pc = "select" => call.pc = "act"
    BY <1>1, <1>2 DEF IsCall
  <2>2. QED
    BY <1>1, <1>2, <2>1 DEF Onward
<1>3. ASSUME NEW t, call' = Retry(t), call.pc \in {"act", "select"}
      PROVE  Onward(call, call')
  <2>1. call' = [Retry(t) EXCEPT !.hits = call.hits, !.lates = call.lates]
    BY <1>1, <1>3, RetryKeeps
  <2>2. IsCall(call) /\ Chosen(call) /\ \E S : call.queue \in Seq(S)
    BY <1>1, Zenon
  <2>3. \A i \in DOMAIN call.hits : Fits(call, call.hits[i].ref)
    BY <1>1, Zenon
  <2>4. Onward(call, [Retry(t) EXCEPT !.hits = call.hits, !.lates = call.lates])
    BY <1>3, <2>2, <2>3, RetryOnward, Zenon
  <2>5. QED
    BY <2>1, <2>4, Zenon
<1>4. CASE CannotAct
  BY <1>3, <1>4 DEF CannotAct
<1>5. CASE EndSelecting
  <2>1. ((\E t : call' = Retry(t)) \/ call' = End("passed")) /\ call.pc = "select"
    BY <1>5 DEF EndSelecting
  <2>2. CASE call' = End("passed")
    <3>1. call' = [call EXCEPT !.pc = "done", !.result = "passed", !.hits = call.hits]
      BY <1>1, <2>2 DEF End, IsCall
    <3>2. QED
      BY <1>1, <1>2, <3>1
  <2>3. QED
    BY <1>3, <2>1, <2>2
<1>6. CASE DoAction \/ StartSelecting
  <2>1. PICK e, hits : /\ hits = Append(call.hits, [ref |-> call.ref, got |-> e])
                       /\ call.pc = "act"
                       /\ \/ call' = [Passed EXCEPT !.hits = hits]
                          \/ call' = [Retry(TRUE) EXCEPT !.hits = hits, !.lates = call.lates + 1]
                          \/ call' = [call EXCEPT !.pc = "select", !.hits = hits]
    <3>1. CASE DoAction
      <4>1. PICK e, hits : /\ hits = Append(call.hits, [ref |-> call.ref, got |-> e])
                           /\ call.pc = "act"
                           /\ \/ call' = [Passed EXCEPT !.hits = hits]
                              \/ call' = [Retry(TRUE) EXCEPT !.hits = hits, !.lates = @ + 1]
        BY <3>1 DEF DoAction
      <4>2. [Retry(TRUE) EXCEPT !.hits = hits, !.lates = @ + 1]
            = [Retry(TRUE) EXCEPT !.hits = hits, !.lates = call.lates + 1]
        BY <1>1, RetryCounts
      <4>3. QED
        BY <4>1, <4>2
    <3>2. CASE StartSelecting
      BY <3>2 DEF StartSelecting
    <3>3. QED
      BY <1>6, <3>1, <3>2
  <2>2. \A i \in DOMAIN hits : Fits(call, hits[i].ref)
    BY <1>1, <2>1, HitsFit
  <2>3. CASE call' = [Passed EXCEPT !.hits = hits]
    <3>1. call' = [call EXCEPT !.pc = "done", !.result = "passed", !.hits = hits]
      BY <2>3 DEF Passed, End
    <3>2. QED
      BY <1>2, <2>2, <3>1
  <2>4. CASE call' = [Retry(TRUE) EXCEPT !.hits = hits, !.lates = call.lates + 1]
    BY <1>1, <2>1, <2>2, <2>4, RetryOnward
  <2>5. CASE call' = [call EXCEPT !.pc = "select", !.hits = hits]
    BY <1>2, <2>1, <2>2, <2>5
  <2>6. QED
    BY <2>1, <2>3, <2>4, <2>5
<1>7. QED
  BY <1>4, <1>5, <1>6

LEMMA StepsChoose ==
    ASSUME ChoiceInv, [Next]_vars
    PROVE  ChoiceInv'
<1>1. WInv' /\ WInv /\ Chosen(call) /\ DialogWhole /\ IsCall(call)
  BY StepsAim DEF ChoiceInv, WInv, PageFits
<1>2. /\ \A i \in DOMAIN call.queue : Fits(call, call.queue[i])
      /\ \A i \in DOMAIN call.hits : Fits(call, call.hits[i].ref)
  BY <1>1 DEF Chosen
<1>3. UNCHANGED dom
  BY DEF Next, Script, Resolve, Ground, FallBack, CannotAct, DoAction, StartSelecting, Select, EndSelecting,
         Recover, NextStep, Rerender, DialogFlips, ControlFlips, Still, vars, pageVars
<1>4. \/ UNCHANGED shown \/ DialogFlips
      \/ FallBack /\ shown' = shown \union {i \in DOMAIN dom : dom[i].where = "menu"}
  BY DEF Next, Script, Resolve, Ground, FallBack, CannotAct, DoAction, StartSelecting, Select, EndSelecting,
         Recover, NextStep, Rerender, ControlFlips, Still, vars, pageVars
<1>5. DialogWhole'
  BY <1>1, <1>3, <1>4, DialogsStayWhole
<1>6. Chosen(call')
  <2>1. CASE Resolve
    BY <2>1, ResolveChooses
  <2>2. CASE Recover
    BY <2>2, RecoverChooses
  <2>3. CASE NextStep
    BY <2>3, NewCallChosen DEF NextStep
  <2>4. CASE FallBack
    BY <1>1, <2>4, FallBackOnward, OnwardChosen
  <2>5. CASE CannotAct \/ DoAction \/ StartSelecting \/ EndSelecting
    BY <1>1, <2>5, AttemptChooses, OnwardChosen
  <2>6. CASE Ground
    <3>1. /\ call.pc = "ground"
          /\ \/ \E e \in shown : call' = Target(RefTo("name", e), call.act)
             \/ call' = [call EXCEPT !.pc = "fall"]
      BY <2>6 DEF Ground
    <3>2. ASSUME NEW e, call' = Target(RefTo("name", e), call.act)
          PROVE  Onward(call, call')
      <4> DEFINE ref == RefTo("name", e)
      <4>1. Fits(call, ref) /\ call' = [call EXCEPT !.pc = "act", !.ref = ref]
        BY <1>1, <3>2 DEF RefTo, Fits, Target, IsCall
      <4> HIDE DEF ref
      <4>2. /\ call'.step = call.step /\ call'.claim = call.claim /\ call'.recovering = call.recovering
            /\ call'.queue = call.queue /\ call'.hits = call.hits /\ call'.ref = ref /\ call'.pc = "act"
        BY <1>1, <4>1 DEF IsCall
      <4>3. QED
        BY <1>2, <3>1, <4>1, <4>2 DEF Onward
    <3>3. ASSUME call' = [call EXCEPT !.pc = "fall"]
          PROVE  Onward(call, call')
      <4>1. /\ call'.step = call.step /\ call'.claim = call.claim /\ call'.recovering = call.recovering
            /\ call'.queue = call.queue /\ call'.hits = call.hits /\ call'.ref = call.ref /\ call'.pc = "fall"
        BY <1>1, <3>3 DEF IsCall
      <4>2. QED
        BY <1>2, <3>1, <4>1 DEF Onward
    <3>4. QED
      BY <1>1, <3>1, <3>2, <3>3, OnwardChosen
  <2>7. CASE ControlFlips
    <3>1. call' = [call EXCEPT !.outside = TRUE]
      BY <2>7 DEF ControlFlips
    <3>2. /\ call'.step = call.step /\ call'.claim = call.claim /\ call'.recovering = call.recovering
          /\ call'.queue = call.queue /\ call'.hits = call.hits /\ call'.ref = call.ref /\ call'.pc = call.pc
      BY <1>1, <3>1 DEF IsCall
    <3>3. QED
      BY <1>1, <1>2, <3>2, OnwardChosen DEF Onward
  <2>8. CASE Select \/ Rerender \/ DialogFlips \/ UNCHANGED vars
    <3>1. call' = call
      BY <2>8 DEF Select, Rerender, DialogFlips, vars, pageVars
    <3>2. QED
      BY <1>1, <3>1
  <2>9. QED
    BY <2>1, <2>2, <2>3, <2>4, <2>5, <2>6, <2>7, <2>8 DEF Next, Script
<1>7. \/ \A f \in DOMAIN dom : dom[f].where # "dialog" /\ f \in shown' => f \in shown
      \/ call'.claim = "none"
  <2>1. CASE UNCHANGED shown
    BY <2>1
  <2>2. CASE DialogFlips
    <3>1. shown' = IF InDialog(dom) \subseteq shown THEN shown \ InDialog(dom) ELSE shown \union InDialog(dom)
      BY <2>2 DEF DialogFlips
    <3>2. QED
      BY <3>1 DEF InDialog
  <2>3. CASE FallBack
    <3>1. call.claim = "none"
      BY <1>1, <2>3 DEF Chosen, FallBack
    <3>2. QED
      BY <2>3, <3>1, FallBackOnward DEF Onward
  <2>4. QED
    BY <1>4, <2>1, <2>2, <2>3
<1>8. Chosen(call)'
  BY <1>3, <1>6, <1>7, PageStays
<1>9. QED
  BY <1>1, <1>5, <1>8 DEF ChoiceInv

\* The words of a step choose what it acts on: a field shares a word with the phrase
\* (_FIND_INPUT_JS), and among options with one label, as long as positions weigh
\* less than a word, the section the step names decides (_FIND_RADIO_JS).  Dialogs
\* that open and markers that vanish in between change nothing about that.
THEOREM WordsChooseTheTarget == Spec => []WordsDecide
<1>1. ChoiceInv => WordsDecide
  <2>1. SUFFICES ASSUME ChoiceInv PROVE FieldsMatchTheirPhrase /\ SectionDecides
    BY DEF WordsDecide
  <2>2. FieldsMatchTheirPhrase
    <3>1. ASSUME NEW h \in Range(call.hits), h.ref.attr = "input"
          PROVE  LET e == dom[h.ref.el] IN
                 Hits(call.step.phrase, e.label \union e.hint \union e.section) # {}
      <4>1. PICK i \in DOMAIN call.hits : h = call.hits[i]
        BY <3>1 DEF Range
      <4>2. QED
        BY <2>1, <3>1, <4>1 DEF ChoiceInv, Chosen, Fits, Shares
    <3>2. QED
      BY <3>1 DEF FieldsMatchTheirPhrase
  <2>3. SectionDecides
    BY <2>1 DEF SectionDecides, ChoiceInv, Chosen, Prefers, Of, WInv, PageFits
  <2>4. QED
    BY <2>2, <2>3
<1>2. QED
  BY ChoicesInitially, StepsChoose, <1>1, PTL DEF Spec
-----------------------------------------------------------------------------
\* Several dropdowns.  A call of select is at x, the widgets hold ch, f has the focus and
\* p have their options on screen.
OnBoxes(ch) == ch = [b \in DOMAIN boxes |-> ch[b]]
PopsUp(b, p) == p \subseteq {b} \union {c \in DOMAIN boxes : boxes[c].stays}
Focusable(f) == f = 0 \/ (f \in DOMAIN boxes /\ boxes[f].opens)

\* The candidates of a value are widgets of their own, the trigger first and alone
\* when there are several values.
CandsFit(x) ==
    /\ Len(x.cands) \in Nat \ {0} /\ DOMAIN x.cands = 1..Len(x.cands)
    /\ \A i \in DOMAIN x.cands : x.cands[i].box \in DOMAIN boxes
    /\ \A i, j \in DOMAIN x.cands : x.cands[i].box = x.cands[j].box => i = j
    /\ x.cands[1] = x.trigger
    /\ Len(x.wants) # 1 => Len(x.cands) = 1
    /\ OnBoxes(x.before)

PickedIn(x) == IF x.picked = 0 THEN 0 ELSE x.cands[x.picked].box

Splits(b) == boxes[b].kind # "native" /\ boxes[b].multi
OpensPanel(b) == boxes[b].kind = "panel" /\ boxes[b].opens

\* What holds in each part of a call.
Placed(x, f, p) ==
    /\ x.pc \in {"idle", "open", "panel", "pick", "try", "click", "undo", "done"}
    /\ x.pc # "idle" =>
          /\ x.trigger.box \in DOMAIN boxes
          /\ x.wants \in Seq(Option) /\ x.wants # <<>>
          /\ x.items \in Seq(Option) /\ x.items # <<>>
          /\ x.left \in Seq(Option) /\ Range(x.left) \subseteq Range(x.wants)
          /\ Len(x.left) <= Len(x.wants)
    /\ x.pc \in {"open", "pick", "try", "click", "undo"} =>
          /\ x.left # <<>>
          /\ Len(x.wants) = 1 \/ Splits(x.trigger.box)
    /\ x.pc = "open" => ~x.opened /\ x.left = x.wants
    /\ x.pc \in {"open", "panel"} => x.cands = <<>>
    /\ x.pc = "panel" => OpensPanel(x.trigger.box)
    /\ x.pc \in {"pick", "try"} /\ x.opened =>
          f = x.trigger.box /\ boxes[f].opens /\ (f \in p \/ OpensPanel(f)) /\ PopsUp(f, p)
    /\ x.pc \in {"try", "click", "undo"} => CandsFit(x) /\ x.at \in Nat \ {0}
    /\ x.pc = "try" /\ x.opened => x.at = 1
    /\ x.pc = "click" =>
          x.at \in DOMAIN x.cands /\ f = x.cands[x.at].box /\ boxes[f].opens /\ PopsUp(f, p) /\ ~x.opened
    /\ x.pc = "undo" =>
          x.picked \in {0} \union DOMAIN x.cands /\ (x.picked # 0 => f \in {0, PickedIn(x)})

\* Nothing is left behind.
Tried(x, i) ==
    LET c == x.cands[i] IN
    i # x.picked /\ c.box \notin x.kept /\ boxes[c.box].multi /\ boxes[c.box].ant /\ ~c.inner
LastOpened(x, f) ==
    \E j \in DOMAIN x.cands :
        /\ x.pc = "try" => j < x.at
        /\ f = x.cands[j].box
        /\ \A k \in DOMAIN x.cands : j < k /\ (x.pc = "try" => k < x.at) => ~boxes[x.cands[k].box].opens
Clean(x, ch, f) ==
    /\ x.pc \in {"try", "click", "undo"} => \A b \in DOMAIN boxes : ~boxes[b].opens => ch[b] = x.before[b]
    /\ x.pc = "try" => ch = x.before \/ LastOpened(x, f)
    /\ x.pc = "undo" => f = 0 \/ x.picked # 0 \/ ch = x.before \/ LastOpened(x, f)
    /\ x.pc \in {"undo", "done"} =>
          \A i \in DOMAIN x.cands : (x.pc = "undo" => i < x.at) /\ Tried(x, i)
              => ch[x.cands[i].box] \subseteq x.before[x.cands[i].box]

\* The dropdown of the step takes its values.
OwnCase(x) ==
    LET t == boxes[x.trigger.box] IN
    t.kind = "list" /\ t.owned /\ t.opens /\ t.ant /\ ~x.slipped /\ Range(x.wants) \subseteq t.offers
Own(x, ch, f, p) ==
    LET b == x.trigger.box IN
    /\ \A c \in DOMAIN boxes \ {b, x.from} : ch[c] = x.first[c]
    /\ x.pc = "open" => ch = x.first /\ f = x.from
    /\ x.pc \in {"pick", "try", "click", "undo"} => f = b
    /\ x.pc \in {"try", "click"} => x.at = 1
    /\ x.pc \in {"try", "click", "undo"} => \A c \in DOMAIN boxes \ {b} : ch[c] = x.before[c]
    /\ x.pc = "click" =>
          /\ b \in p
          /\ \/ x.tries = Shapes(b)
             \/ x.tries = Tail(Shapes(b)) /\ boxes[b].multi /\ Head(x.left) \notin ch[b]
    /\ x.pc = "undo" => x.picked = 1

\* Values that were taken stay.
Apart(x) ==
    \A v, w \in Range(x.wants) :
        v # w => \A o \in boxes[x.trigger.box].offers \intersect Holds[w] : ~Committed(v, {o})
Settled(x) == Range(x.wants) \ (Range(x.left) \union x.missed)
Ticks(b, ch, dr) == IF Confirms(b) THEN dr[b] ELSE ch[b]
Took(x, ch, dr, p) ==
    LET b == x.trigger.box IN
    /\ x.pc = "panel" /\ ~x.problem => Range(x.wants) \subseteq Ticks(b, ch, dr) \union Range(x.left)
    /\ x.pc = "pick" => \A v \in Settled(x) : Committed(v, ch[b])
    /\ x.pc \in {"try", "click", "undo"} =>
          \A v \in Settled(x) : Committed(v, x.before[b])
                                /\ \A t \in x.before[b] : Committed(v, {t}) => t \in ch[b]
    /\ x.pc = "click" /\ x.cands[x.at].box # Len(boxes) =>
          x.cands[x.at].box \in p \/ ch[x.cands[x.at].box] = x.was
    /\ x.pc = "undo" /\ x.picked # 0 /\ PickedIn(x) # Len(boxes) => Committed(Head(x.left), ch[PickedIn(x)])
    /\ x.pc = "done" /\ x.result = "passed" /\ (x.picked # 0 => PickedIn(x) # Len(boxes)) =>
          \A v \in Range(x.wants) \ x.missed : \E c \in DOMAIN boxes : Committed(v, ch[c])

Dropdowns(x, ch, dr, f, p) ==
    /\ Focusable(f) /\ p \subseteq DOMAIN boxes /\ Placed(x, f, p)
    /\ StayingOpens => Clean(x, ch, f)
    /\ x.pc # "idle" /\ OwnCase(x) => Own(x, ch, f, p)
    /\ x.pc # "idle" /\ Verifiable /\ Apart(x) => Took(x, ch, dr, p)
DropInv == TickInv /\ Dropdowns(sel, chosen, draft, focus, popups)

\* The n-th number of a finite set is one of its numbers, and of the first n the last.
LEMMA NthIs ==
    ASSUME NEW S, IsFiniteSet(S), S \subseteq Int, NEW n \in 1..Cardinality(S)
    PROVE  Nth(S, n) \in S /\ Cardinality({y \in S : y <= Nth(S, n)}) = n
<1> DEFINE upto(x) == {y \in S : y <= x}
           k == Cardinality(S)
           r == [x \in S |-> Cardinality(upto(x))]
<1>1. k \in Nat
  BY FS_CardinalityType
<1>2. \A x \in S : upto(x) \subseteq S /\ IsFiniteSet(upto(x)) /\ Cardinality(upto(x)) \in Nat
                  /\ Cardinality(upto(x)) <= k
  <2>1. \A x \in S : upto(x) \subseteq S
    OBVIOUS
  <2>2. QED
    BY <2>1, FS_Subset, FS_CardinalityType
<1>3. \A x \in S : Cardinality(upto(x)) \in 1..k
  <2>1. TAKE x \in S
  <2>2. x \in upto(x)
    OBVIOUS
  <2>3. Cardinality(upto(x)) # 0
    BY <1>2, <2>2, FS_EmptySet
  <2>4. QED
    BY <1>1, <1>2, <2>3
<1>4. \A x, y \in S : x < y => Cardinality(upto(x)) < Cardinality(upto(y))
  <2>1. SUFFICES ASSUME NEW x \in S, NEW y \in S, x < y PROVE Cardinality(upto(x)) < Cardinality(upto(y))
    OBVIOUS
  <2>2. upto(x) \subseteq upto(y) /\ upto(x) # upto(y)
    <3>1. y \in upto(y) /\ y \notin upto(x)
      BY <2>1
    <3>2. x \in Int /\ y \in Int /\ \A z \in S : z \in Int
      BY <2>1
    <3>3. \A z \in S : z <= x => z <= y
      BY <2>1, <3>2
    <3>4. QED
      BY <3>1, <3>3
  <2> HIDE DEF upto
  <2>3. IsFiniteSet(upto(y)) /\ IsFiniteSet(upto(x)) /\ Cardinality(upto(x)) \in Nat /\ Cardinality(upto(y)) \in Nat
    BY <1>2
  <2>4. Cardinality(upto(x)) <= Cardinality(upto(y)) /\ Cardinality(upto(x)) # Cardinality(upto(y))
    BY <2>2, <2>3, FS_Subset
  <2>5. QED
    BY <2>3, <2>4
<1>5. \A x, y \in S : x # y => r[x] # r[y]
  <2>1. SUFFICES ASSUME NEW x \in S, NEW y \in S, x # y PROVE r[x] # r[y]
    OBVIOUS
  <2>2. x < y \/ y < x
    BY <2>1
  <2>3. Cardinality(upto(x)) \in Int /\ Cardinality(upto(y)) \in Int
    BY <1>2
  <2> HIDE DEF upto
  <2>4. Cardinality(upto(x)) # Cardinality(upto(y))
    BY <1>4, <2>2, <2>3
  <2>5. QED
    BY <2>4
<1>6. r \in Injection(S, 1..k)
  <2>1. r \in [S -> 1..k]
    BY <1>3
  <2> HIDE DEF r
  <2>2. \A x, y \in S : r[x] = r[y] => x = y
    BY <1>5
  <2>3. QED
    BY <2>1, <2>2 DEF Injection, IsInjective
<1>7. IsFiniteSet(1..k) /\ Cardinality(1..k) = k
  <2>1. Cardinality(1..k) = IF 1 > k THEN 0 ELSE k - 1 + 1
    BY <1>1, FS_Interval
  <2>2. QED
    BY <1>1, <2>1, FS_Interval
<1> HIDE DEF r, k
<1>8. r \in Surjection(S, 1..k)
  BY <1>6, <1>7, FS_Injection DEF k
<1>9. \E x \in S : r[x] = n
  BY <1>8 DEF Surjection, k
<1>10. \E x \in S : Cardinality({y \in S : y <= x}) = n
  BY <1>9 DEF r
<1>11. QED
  BY <1>10 DEF Nth

LEMMA NthDiffer ==
    ASSUME NEW S, IsFiniteSet(S), S \subseteq Int, NEW n \in 1..Cardinality(S), NEW m \in 1..Cardinality(S), n # m
    PROVE  Nth(S, n) # Nth(S, m)
<1>1. Cardinality({y \in S : y <= Nth(S, n)}) = n
  BY NthIs
<1>2. Cardinality({y \in S : y <= Nth(S, m)}) = m
  BY NthIs
<1>3. QED
  BY <1>1, <1>2

\* One candidate is kept for each widget, the trigger first.
LEMMA DedupeFits ==
    ASSUME NEW L, NEW t \in L, NEW rest \in Seq(L)
    PROVE  LET kept == Dedupe(<<t>> \o rest) IN
           /\ Len(kept) \in Nat \ {0} /\ DOMAIN kept = 1..Len(kept)
           /\ \A i \in DOMAIN kept : kept[i] \in L
           /\ \A i, j \in DOMAIN kept : kept[i].box = kept[j].box => i = j
           /\ kept[1] = t
           /\ rest = <<>> => Len(kept) = 1
<1> DEFINE all == <<t>> \o rest
           first == {i \in DOMAIN all : \A j \in 1..i - 1 : all[j].box # all[i].box}
           kept == Dedupe(all)
           n == Cardinality(first)
<1>1. all \in Seq(L) /\ DOMAIN all = 1..Len(all) /\ Len(all) = Len(rest) + 1 /\ Len(all) \in Nat /\ all[1] = t
  OBVIOUS
<1>2. \A i \in DOMAIN all : all[i] \in L
  BY <1>1
<1>3. kept = [i \in 1..n |-> all[Nth(first, i)]]
  BY DEF Dedupe
<1> HIDE DEF all
<1>4. IsFiniteSet(first) /\ first \subseteq Int /\ first \subseteq DOMAIN all
  <2>1. first \subseteq 1..Len(all) /\ IsFiniteSet(1..Len(all))
    BY <1>1, FS_Interval
  <2>2. QED
    BY <1>1, <2>1, FS_Subset
<1>5. 1 \in first
  BY <1>1
<1>6. n \in Nat /\ n # 0
  <2>1. first # {}
    BY <1>5
  <2> HIDE DEF first
  <2>2. QED
    BY <1>4, <2>1, FS_CardinalityType, FS_EmptySet
<1>7. \A i \in 1..n : Nth(first, i) \in first
  BY <1>4, NthIs
<1>8. \A i, j \in 1..n : i # j => Nth(first, i) # Nth(first, j)
  <2> HIDE DEF first
  <2>1. QED
    BY <1>4, NthDiffer
<1>9. \A i, j \in first : all[i].box = all[j].box => i = j
  <2>1. SUFFICES ASSUME NEW i \in first, NEW j \in first, i < j PROVE all[i].box # all[j].box
    BY <1>4
  <2>2. i \in 1..j - 1
    BY <1>1, <1>4, <2>1
  <2>3. QED
    BY <2>2
<1>10. Nth(first, 1) = 1
  <2>1. Nth(first, 1) \in first /\ Cardinality({y \in first : y <= Nth(first, 1)}) = 1
    <3> HIDE DEF first
    <3>1. 1 \in 1..n
      BY <1>6
    <3>2. QED
      BY <1>4, <3>1, NthIs
  <2> DEFINE x == Nth(first, 1)
             low == {y \in first : y <= x}
  <2>2. x \in Int /\ 1 <= x
    BY <1>1, <1>4, <2>1
  <2>3. 1 \in low /\ x \in low
    BY <1>5, <2>1, <2>2
  <2>4. IsFiniteSet(low) /\ Cardinality(low) = 1
    <3>1. low \subseteq first
      OBVIOUS
    <3>2. QED
      BY <1>4, <2>1, <3>1, FS_Subset
  <2> HIDE DEF low, x, first
  <2>5. PICK z : low = {z}
    BY <2>4, FS_Singleton
  <2>6. x = 1
    BY <2>3, <2>5
  <2>7. QED
    BY <2>6 DEF x
<1> HIDE DEF kept, first, n
<1>11. Len(kept) = n /\ DOMAIN kept = 1..n
  BY <1>3, <1>6
<1>12. \A i \in 1..n : kept[i] = all[Nth(first, i)]
  BY <1>3
<1>13. \A i \in 1..n : kept[i] \in L
  BY <1>2, <1>4, <1>7, <1>12
<1>14. \A i, j \in 1..n : kept[i].box = kept[j].box => i = j
  BY <1>7, <1>8, <1>9, <1>12
<1>15. kept[1] = t
  <2>1. 1 \in 1..n
    BY <1>6
  <2>2. QED
    BY <1>1, <1>10, <1>12, <2>1
<1>16. rest = <<>> => n = 1
  <2>1. SUFFICES ASSUME rest = <<>> PROVE n = 1
    OBVIOUS
  <2>2. Len(all) = 1
    BY <1>1, <2>1
  <2>3. first = {1}
    <3>1. DOMAIN all = {1}
      BY <1>1, <2>2
    <3>2. QED
      BY <1>4, <1>5, <3>1
  <2>4. QED
    BY <2>3, FS_Singleton DEF n
<1>17. QED
  BY <1>6, <1>11, <1>13, <1>14, <1>15, <1>16 DEF kept, all

LEMMA CandidatesFit ==
    ASSUME BoxesFit, NEW t, t.box \in DOMAIN boxes, NEW one \in BOOLEAN
    PROVE  LET kept == Dedupe(<<t>> \o IF one THEN OtherTriggers ELSE <<>>) IN
           /\ Len(kept) \in Nat \ {0} /\ DOMAIN kept = 1..Len(kept)
           /\ \A i \in DOMAIN kept : kept[i].box \in DOMAIN boxes
           /\ \A i, j \in DOMAIN kept : kept[i].box = kept[j].box => i = j
           /\ kept[1] = t
           /\ ~one => Len(kept) = 1
<1> DEFINE S == {b \in DOMAIN boxes : b # tagged /\ boxes[b].kind \notin {"native", "none"}}
           L == {t} \union {Candidate(b, FALSE) : b \in DOMAIN boxes}
           k == Cardinality(S)
           m == IF k <= MaxOthers THEN k ELSE MaxOthers
           rest == IF one THEN OtherTriggers ELSE <<>>
<1>1. DOMAIN boxes = 1..Len(boxes) /\ Len(boxes) \in Nat
  BY DEF BoxesFit
<1>2. IsFiniteSet(S) /\ S \subseteq DOMAIN boxes /\ S \subseteq Int /\ k \in Nat
  <2>1. S \subseteq 1..Len(boxes) /\ IsFiniteSet(1..Len(boxes))
    BY <1>1, FS_Interval
  <2>2. IsFiniteSet(S)
    BY <2>1, FS_Subset
  <2>3. QED
    BY <1>1, <2>1, <2>2, FS_CardinalityType
<1>3. MaxOthers \in Nat
  BY OptionAssumption
<1> HIDE DEF S, k
<1>4. OtherTriggers = [n \in 1..m |-> Candidate(Nth(S, n), FALSE)]
  <2>1. {i \in 1..k : i <= MaxOthers} = 1..m
    BY <1>2, <1>3
  <2>2. QED
    BY <2>1 DEF OtherTriggers, S, k
<1>5. \A n \in 1..m : Nth(S, n) \in DOMAIN boxes
  <2>1. TAKE n \in 1..m
  <2>2. n \in 1..k
    BY <1>2, <1>3
  <2>3. Nth(S, n) \in S
    BY <1>2, <2>2, NthIs DEF k
  <2>4. QED
    BY <1>2, <2>3
<1>6. m \in Nat
  BY <1>2, <1>3
<1> HIDE DEF m
<1>7. OtherTriggers \in Seq(L)
  <2>1. \A n \in 1..m : Candidate(Nth(S, n), FALSE) \in L
    BY <1>5
  <2> HIDE DEF L
  <2>2. OtherTriggers \in [1..m -> L]
    BY <1>4, <2>1
  <2>3. QED
    BY <1>6, <2>2
<1>8. rest \in Seq(L) /\ t \in L /\ (~one => rest = <<>>)
  <2>1. t \in L
    OBVIOUS
  <2> HIDE DEF L
  <2>2. QED
    BY <1>7, <2>1
<1>9. \A c \in L : c.box \in DOMAIN boxes
  BY DEF Candidate
<1> HIDE DEF L, rest
<1> DEFINE kept == Dedupe(<<t>> \o rest)
<1>10. /\ Len(kept) \in Nat \ {0} /\ DOMAIN kept = 1..Len(kept)
       /\ \A i \in DOMAIN kept : kept[i] \in L
       /\ \A i, j \in DOMAIN kept : kept[i].box = kept[j].box => i = j
       /\ kept[1] = t
       /\ rest = <<>> => Len(kept) = 1
  BY <1>8, DedupeFits
<1> HIDE DEF kept
<1>11. \A i \in DOMAIN kept : kept[i].box \in DOMAIN boxes
  BY <1>9, <1>10
<1>12. QED
  BY <1>8, <1>10, <1>11 DEF kept, rest

\* What a step leaves alone of the call, by the part of the call it belongs to.
SameTask(x, y) == y.trigger = x.trigger /\ y.items = x.items /\ y.first = x.first /\ y.from = x.from
SameCall(x, y) == SameTask(x, y) /\ y.wants = x.wants
SameValue(x, y) == /\ y.left = x.left /\ y.cands = x.cands /\ y.before = x.before /\ y.missed = x.missed
                   /\ y.problem = x.problem /\ y.result = x.result
SamePlace(x, y) == y.at = x.at /\ y.picked = x.picked /\ y.slipped = x.slipped

LEMMA NativeStep ==
    ASSUME IsSel(sel), SelectNative
    PROVE  LET b == sel.trigger.box IN
           /\ sel.pc = "open" /\ boxes[b].kind = "native"
           /\ SameCall(sel, sel') /\ SamePlace(sel, sel')
           /\ sel'.left = sel.left /\ sel'.cands = sel.cands /\ sel'.missed = sel.missed
           /\ sel'.pc = "done" /\ UNCHANGED <<popups, focus>>
           /\ sel'.result = "passed" => chosen' = [chosen EXCEPT ![b] = {Head(sel.left)}]
<1>1. sel.pc = "open" /\ Trigger.kind = "native" /\ UNCHANGED <<popups, focus>>
  BY DEF SelectNative
<1>2. \/ sel' = [sel EXCEPT !.pc = "done", !.result = "passed"]
         /\ chosen' = [chosen EXCEPT ![sel.trigger.box] = {Head(sel.left)}]
      \/ sel' = [sel EXCEPT !.pc = "done", !.result = "failed", !.error = "timeout"]
  BY DEF SelectNative, want
<1>3. CASE sel' = [sel EXCEPT !.pc = "done", !.result = "passed"]
           /\ chosen' = [chosen EXCEPT ![sel.trigger.box] = {Head(sel.left)}]
  BY <1>1, <1>3 DEF IsSel, SameCall, SameTask, SamePlace, Trigger
<1>4. CASE sel' = [sel EXCEPT !.pc = "done", !.result = "failed", !.error = "timeout"]
  BY <1>1, <1>4 DEF IsSel, SameCall, SameTask, SamePlace, Trigger
<1>5. QED
  BY <1>2, <1>3, <1>4

LEMMA OpenStep ==
    ASSUME IsSel(sel), OpenTrigger
    PROVE  LET b == sel.trigger.box IN
           /\ sel.pc = "open" /\ boxes[b].kind # "native"
           /\ SameTask(sel, sel') /\ SamePlace(sel, sel')
           /\ sel'.cands = sel.cands /\ sel'.missed = sel.missed
           /\ sel'.pc = "pick" => SameCall(sel, sel') /\ sel'.left = sel.left
           /\ sel'.pc = "panel" => sel'.wants = sel.items /\ sel'.left = sel.items
           /\ \/ /\ boxes[b].opens /\ focus' = b /\ chosen' \in Blurred(b, 0) /\ sel'.opened
                 /\ \/ popups' = Opened(b) /\ boxes[b].kind # "panel" /\ sel'.pc = "pick"
                    \/ popups' = Opened(b) /\ boxes[b].kind = "panel" /\ sel'.pc = "panel"
                    \/ popups' = Opened(b) \ {b} /\ boxes[b].kind = "panel" /\ sel'.pc = "pick"
              \/ /\ ~boxes[b].opens /\ UNCHANGED <<chosen, popups, focus>>
                 /\ sel'.pc = "pick" /\ sel'.opened = sel.opened
<1> DEFINE b == sel.trigger.box
<1>1. sel.pc = "open" /\ Trigger.kind # "native"
  BY DEF OpenTrigger
<1>2. CASE Trigger.opens
  <2>1. /\ focus' = b /\ chosen' \in Blurred(b, 0)
        /\ \/ /\ popups' = Opened(b) /\ Trigger.kind # "panel"
              /\ sel' = [sel EXCEPT !.pc = "pick", !.opened = TRUE]
           \/ /\ popups' = Opened(b) /\ Trigger.kind = "panel"
              /\ sel' = [sel EXCEPT !.pc = "panel", !.opened = TRUE, !.wants = sel.items,
                                    !.left = sel.items, !.panel = TRUE, !.ticked = draft'[b]]
           \/ /\ popups' = Opened(b) \ {b} /\ Trigger.kind = "panel"
              /\ sel' = [sel EXCEPT !.pc = "pick", !.opened = TRUE]
    BY <1>2 DEF OpenTrigger, FocusOn
  <2> DEFINE shows == draft'[b]
  <2> HIDE DEF shows
  <2>2. ASSUME sel' = [sel EXCEPT !.pc = "pick", !.opened = TRUE]
        PROVE  /\ SameCall(sel, sel') /\ SamePlace(sel, sel') /\ sel'.left = sel.left
               /\ sel'.cands = sel.cands /\ sel'.missed = sel.missed /\ sel'.pc = "pick" /\ sel'.opened
    BY <2>2 DEF IsSel, SameCall, SameTask, SamePlace
  <2>3. ASSUME sel' = [sel EXCEPT !.pc = "panel", !.opened = TRUE, !.wants = sel.items,
                                  !.left = sel.items, !.panel = TRUE, !.ticked = shows]
        PROVE  /\ SameTask(sel, sel') /\ SamePlace(sel, sel') /\ sel'.wants = sel.items /\ sel'.left = sel.items
               /\ sel'.cands = sel.cands /\ sel'.missed = sel.missed /\ sel'.pc = "panel" /\ sel'.opened
    BY <2>3 DEF IsSel, SameTask, SamePlace
  <2>4. QED
    BY <1>1, <1>2, <2>1, <2>2, <2>3 DEF Trigger, SameCall, shows
<1>3. CASE ~Trigger.opens
  <2>1. sel' = [sel EXCEPT !.pc = "pick"] /\ UNCHANGED <<chosen, popups, focus>>
    BY <1>3 DEF OpenTrigger
  <2>2. QED
    BY <1>1, <1>3, <2>1 DEF IsSel, SameCall, SameTask, SamePlace, Trigger
<1>4. QED
  BY <1>2, <1>3

LEMMA TickStep ==
    ASSUME BoxesFit, IsSel(sel), sel.trigger.box \in DOMAIN boxes, boxes[sel.trigger.box].kind = "panel", TickItem
    PROVE  LET b == sel.trigger.box IN
           /\ sel.pc = "panel" /\ sel.left # <<>>
           /\ SameCall(sel, sel') /\ SamePlace(sel, sel') /\ sel'.cands = sel.cands /\ sel'.missed = sel.missed
           /\ UNCHANGED <<popups, focus>>
           /\ \/ sel'.pc = "done" /\ sel'.left = sel.left /\ sel'.result = "failed"
              \/ /\ sel'.pc = "panel" /\ sel'.left = Tail(sel.left)
                 /\ ~sel'.problem =>
                       ~sel.problem /\ Ticks(b, chosen', draft') = Ticks(b, chosen, draft) \union {Head(sel.left)}
<1> DEFINE b == sel.trigger.box
           w == Head(sel.left)
           t == Tail(sel.left)
           ticks == w \in boxes[b].offers /\ w \notin Ticks(b, chosen, draft)
<1>1. sel.pc = "panel" /\ sel.left # <<>> /\ UNCHANGED <<popups, focus>>
  BY DEF TickItem
<1>2. PICK responds \in BOOLEAN, raises \in BOOLEAN :
          /\ responds \/ raises => ticks
          /\ chosen' = IF responds THEN Toggled(b, w) ELSE chosen
          /\ draft' = IF responds THEN Drafted(b, w) ELSE draft
          /\ sel' = IF raises THEN [sel EXCEPT !.pc = "done", !.result = "failed", !.error = "click"]
                    ELSE [sel EXCEPT !.left = t,
                                     !.problem = sel.problem \/ w \notin boxes[b].offers \/ (ticks /\ ~responds)]
  BY DEF TickItem, want, Trigger, Ticks, IsSel
<1>3. Ticks(b, chosen', draft') = IF responds THEN Toggle(Ticks(b, chosen, draft), b, w) ELSE Ticks(b, chosen, draft)
  BY <1>2 DEF Ticks, Toggled, Drafted, BoxesFit
<1>4. responds => Toggle(Ticks(b, chosen, draft), b, w) = Ticks(b, chosen, draft) \union {w}
  BY <1>2 DEF Toggle, Many
<1> DEFINE problem == sel.problem \/ w \notin boxes[b].offers \/ (ticks /\ ~responds)
<1>5. ~problem => ~sel.problem /\ Ticks(b, chosen', draft') = Ticks(b, chosen, draft) \union {w}
  <2> DEFINE S == Ticks(b, chosen, draft)
  <2> HIDE DEF S
  <2>1. QED
    BY <1>3, <1>4 DEF S
<1>6. \/ sel' = [sel EXCEPT !.pc = "done", !.result = "failed", !.error = "click"]
      \/ sel' = [sel EXCEPT !.left = t, !.problem = problem]
  BY <1>2
<1> HIDE DEF problem, w, t, ticks
<1>7. CASE sel' = [sel EXCEPT !.pc = "done", !.result = "failed", !.error = "click"]
  BY <1>1, <1>7 DEF IsSel, SameCall, SameTask, SamePlace
<1>8. CASE sel' = [sel EXCEPT !.left = t, !.problem = problem]
  <2>1. /\ SameCall(sel, sel') /\ SamePlace(sel, sel') /\ sel'.cands = sel.cands /\ sel'.missed = sel.missed
        /\ sel'.pc = "panel" /\ sel'.left = t /\ sel'.problem = problem
    BY <1>1, <1>8 DEF IsSel, SameCall, SameTask, SamePlace
  <2>2. QED
    BY <1>1, <1>5, <2>1 DEF w, t
<1>9. QED
  BY <1>6, <1>7, <1>8

LEMMA CloseStep ==
    ASSUME BoxesFit, IsSel(sel), sel.trigger.box \in DOMAIN boxes, ClosePanel
    PROVE  LET b == sel.trigger.box IN
           /\ sel.pc = "panel" /\ sel.left = <<>>
           /\ SameCall(sel, sel') /\ SamePlace(sel, sel') /\ sel'.left = sel.left /\ sel'.cands = sel.cands
           /\ sel'.pc = "done" /\ popups' \in {popups, Closed(b)} /\ focus' = focus
           /\ sel'.result = "passed" => ~sel.problem /\ chosen'[b] = Ticks(b, chosen, draft)
<1> DEFINE b == sel.trigger.box
<1>1. sel.pc = "panel" /\ sel.left = <<>> /\ focus' = focus
  BY DEF ClosePanel
<1>2. PICK raises \in BOOLEAN, works \in BOOLEAN :
          /\ raises \/ works
          /\ chosen' = IF works /\ ~sel.problem /\ Confirms(b) THEN [chosen EXCEPT ![b] = draft[b]] ELSE chosen
          /\ popups' = IF works THEN Closed(b) ELSE popups
          /\ sel' = [sel EXCEPT !.pc = "done", !.late = raises /\ works /\ ~sel.problem,
                                !.result = IF raises \/ sel.problem THEN "failed" ELSE "passed",
                                !.error = IF raises THEN "click" ELSE IF sel.problem THEN "value" ELSE "none"]
  BY DEF ClosePanel, Press
<1> DEFINE late == raises /\ works /\ ~sel.problem
           result == IF raises \/ sel.problem THEN "failed" ELSE "passed"
           error == IF raises THEN "click" ELSE IF sel.problem THEN "value" ELSE "none"
<1>3. sel' = [sel EXCEPT !.pc = "done", !.late = late, !.result = result, !.error = error]
  BY <1>2
<1>4. result = "passed" => ~raises /\ works /\ ~sel.problem
  BY <1>2
<1> HIDE DEF late, result, error
<1>5. /\ SameCall(sel, sel') /\ SamePlace(sel, sel') /\ sel'.left = sel.left /\ sel'.cands = sel.cands
      /\ sel'.pc = "done" /\ sel'.result = result
  BY <1>3 DEF IsSel, SameCall, SameTask, SamePlace
<1>6. ~raises /\ works /\ ~sel.problem => chosen'[b] = Ticks(b, chosen, draft)
  BY <1>2 DEF Ticks, BoxesFit
<1>7. QED
  BY <1>1, <1>2, <1>4, <1>5, <1>6

LEMMA PickStep ==
    ASSUME IsSel(sel), StartPick, BoxesFit, sel.trigger.box \in DOMAIN boxes
    PROVE  /\ sel.pc = "pick"
           /\ SameCall(sel, sel') /\ sel'.left = sel.left /\ sel'.missed = sel.missed /\ sel'.slipped = sel.slipped
           /\ sel'.pc = "try" /\ sel'.at = 1 /\ sel'.opened = sel.opened /\ sel'.before = chosen
           /\ CandsFit(sel')
           /\ UNCHANGED <<chosen, popups, focus>>
<1> DEFINE one == Len(sel.wants) = 1
           kept == Dedupe(<<sel.trigger>> \o IF one THEN OtherTriggers ELSE <<>>)
<1>1. sel.pc = "pick" /\ UNCHANGED <<chosen, popups, focus>>
      /\ sel' = [sel EXCEPT !.pc = "try", !.at = 1, !.before = chosen, !.cands = kept]
  BY DEF StartPick, boxVars
<1>2. /\ Len(kept) \in Nat \ {0} /\ DOMAIN kept = 1..Len(kept)
      /\ \A i \in DOMAIN kept : kept[i].box \in DOMAIN boxes
      /\ \A i, j \in DOMAIN kept : kept[i].box = kept[j].box => i = j
      /\ kept[1] = sel.trigger
      /\ ~one => Len(kept) = 1
  <2>1. one \in BOOLEAN
    OBVIOUS
  <2> HIDE DEF one
  <2>2. QED
    BY <2>1, CandidatesFit
<1> HIDE DEF kept
<1>3. /\ SameCall(sel, sel') /\ sel'.left = sel.left /\ sel'.missed = sel.missed /\ sel'.slipped = sel.slipped
      /\ sel'.pc = "try" /\ sel'.at = 1 /\ sel'.opened = sel.opened /\ sel'.before = chosen /\ sel'.cands = kept
  BY <1>1 DEF IsSel, SameCall, SameTask
<1>4. OnBoxes(chosen)
  BY DEF BoxesFit, OnBoxes
<1>5. CandsFit(sel')
  BY <1>2, <1>3, <1>4 DEF CandsFit, SameCall, SameTask
<1>6. QED
  BY <1>1, <1>3, <1>5

LEMMA TryStep ==
    ASSUME IsSel(sel), TryCandidate
    PROVE  LET b == sel.cands[sel.at].box IN
           /\ sel.pc = "try" /\ sel.at <= Len(sel.cands)
           /\ SameCall(sel, sel') /\ SameValue(sel, sel') /\ sel'.picked = sel.picked /\ sel'.slipped = sel.slipped
           /\ \/ /\ sel.opened /\ UNCHANGED <<chosen, popups, focus>>
                 /\ sel'.pc = "click" /\ sel'.at = sel.at /\ sel'.tries = Shapes(b) /\ ~sel'.opened
                 /\ sel'.was = chosen'[b]
              \/ /\ ~sel.opened /\ boxes[b].opens
                 /\ focus' = b /\ chosen' \in Blurred(b, 0) /\ popups' = Opened(b)
                 /\ sel'.pc = "click" /\ sel'.at = sel.at /\ sel'.tries = Shapes(b) /\ ~sel'.opened
                 /\ sel'.was = chosen'[b]
              \/ /\ ~sel.opened /\ ~boxes[b].opens /\ UNCHANGED <<chosen, popups, focus>>
                 /\ sel'.pc = "try" /\ sel'.at = sel.at + 1 /\ ~sel'.opened
<1> DEFINE b == here
           tries == Shapes(b)
           was == chosen'[b]
           next == [sel EXCEPT !.pc = "click", !.tries = tries, !.opened = FALSE, !.was = was]
<1>1. /\ sel.pc = "try" /\ sel.at <= Len(sel.cands)
      /\ \/ sel.opened /\ UNCHANGED <<chosen, popups, focus>> /\ sel' = next
         \/ /\ ~sel.opened /\ boxes[b].opens
            /\ focus' = b /\ chosen' \in Blurred(b, 0) /\ popups' = Opened(b) /\ sel' = next
         \/ /\ ~sel.opened /\ ~boxes[b].opens /\ UNCHANGED <<chosen, popups, focus>>
            /\ sel' = [sel EXCEPT !.at = sel.at + 1]
  BY DEF TryCandidate, FocusOn, IsSel
<1>2. b = sel.cands[sel.at].box
  BY DEF here
<1> HIDE DEF b, tries, was
<1>3. ASSUME sel' = next
      PROVE  /\ SameCall(sel, sel') /\ SameValue(sel, sel') /\ sel'.picked = sel.picked /\ sel'.slipped = sel.slipped
             /\ sel'.pc = "click" /\ sel'.at = sel.at /\ sel'.tries = tries /\ ~sel'.opened /\ sel'.was = was
  BY <1>3 DEF IsSel, SameCall, SameTask, SameValue
<1>4. ASSUME sel' = [sel EXCEPT !.at = sel.at + 1], ~sel.opened, sel.pc = "try"
      PROVE  /\ SameCall(sel, sel') /\ SameValue(sel, sel') /\ sel'.picked = sel.picked /\ sel'.slipped = sel.slipped
             /\ sel'.pc = "try" /\ sel'.at = sel.at + 1 /\ ~sel'.opened
  BY <1>4 DEF IsSel, SameCall, SameTask, SameValue
<1> HIDE DEF next
<1>5. QED
  BY <1>1, <1>2, <1>3, <1>4 DEF tries, was

\* The candidate takes the value.
Accepts(b, v, ch, p) ==
    ~boxes[b].ant \/ Committed(v, ch[b]) \/ (ch[b] # sel.was /\ p = {})

LEMMA ClickStep ==
    ASSUME IsSel(sel), ClickOption
    PROVE  LET b == sel.cands[sel.at].box IN
           /\ sel.pc = "click" /\ sel.tries # <<>> /\ focus' = focus
           /\ SameCall(sel, sel') /\ SameValue(sel, sel') /\ sel'.opened = sel.opened
           /\ \/ /\ Found(Head(sel.tries)) = {} /\ UNCHANGED <<chosen, popups>>
                 /\ sel'.pc = "click" /\ sel'.at = sel.at /\ sel'.tries = Tail(sel.tries)
                 /\ sel'.slipped = sel.slipped /\ sel'.was = sel.was
              \/ \E r \in Found(Head(sel.tries)), takes \in BOOLEAN :
                    /\ chosen' = IF takes THEN Toggled(r[1], r[2]) ELSE chosen
                    /\ popups' = IF takes /\ ~Many(r[1]) THEN Closed(r[1]) ELSE popups
                    /\ \/ /\ Accepts(b, Head(sel.left), chosen', popups')
                          /\ sel'.pc = "undo" /\ sel'.picked = sel.at /\ sel'.at = 1 /\ sel'.slipped = sel.slipped
                       \/ /\ ~Accepts(b, Head(sel.left), chosen', popups')
                          /\ sel'.pc = "click" /\ sel'.at = sel.at /\ sel'.tries = Tail(sel.tries)
                          /\ sel'.slipped = (sel.slipped \/ ~takes) /\ sel'.was = sel.was
<1>1. sel.pc = "click" /\ sel.tries # <<>> /\ focus' = focus
  BY DEF ClickOption
<1>2. CASE Found(Head(sel.tries)) = {}
  <2>1. sel' = [sel EXCEPT !.tries = Tail(sel.tries)] /\ UNCHANGED <<chosen, popups>>
    BY <1>2 DEF ClickOption, IsSel
  <2> DEFINE t == Tail(sel.tries)
  <2>2. sel' = [sel EXCEPT !.tries = t]
    BY <2>1
  <2> HIDE DEF t
  <2>3. /\ SameCall(sel, sel') /\ SameValue(sel, sel') /\ sel'.opened = sel.opened
        /\ sel'.pc = "click" /\ sel'.at = sel.at /\ sel'.tries = t /\ sel'.slipped = sel.slipped /\ sel'.was = sel.was
    BY <1>1, <2>2 DEF IsSel, SameCall, SameTask, SameValue
  <2>4. QED
    BY <1>1, <1>2, <2>1, <2>3 DEF t
<1>3. CASE Found(Head(sel.tries)) # {}
  <2>1. PICK r \in Found(Head(sel.tries)), takes \in BOOLEAN :
          /\ chosen' = IF takes THEN Toggled(r[1], r[2]) ELSE chosen
          /\ popups' = IF takes /\ ~Many(r[1]) THEN Closed(r[1]) ELSE popups
          /\ sel' = IF Accepts(here, want, chosen', popups') THEN Picked(sel.at)
                    ELSE [sel EXCEPT !.tries = Tail(sel.tries), !.slipped = sel.slipped \/ ~takes]
    BY <1>3 DEF ClickOption, Accepts, IsSel
  <2> DEFINE t == Tail(sel.tries)
             slip == sel.slipped \/ ~takes
             i == sel.at
             took == Accepts(here, want, chosen', popups')
  <2>2. /\ took => sel' = [sel EXCEPT !.pc = "undo", !.picked = i, !.at = 1, !.tries = <<>>]
        /\ ~took => sel' = [sel EXCEPT !.tries = t, !.slipped = slip]
    BY <2>1 DEF Picked
  <2>3. took = Accepts(sel.cands[sel.at].box, Head(sel.left), chosen', popups')
    BY DEF here, want
  <2> HIDE DEF t, slip, took, i
  <2>4. CASE took
    <3>1. sel' = [sel EXCEPT !.pc = "undo", !.picked = i, !.at = 1, !.tries = <<>>]
      BY <2>2, <2>4
    <3>2. /\ sel'.trigger = sel.trigger /\ sel'.items = sel.items /\ sel'.first = sel.first
          /\ sel'.from = sel.from /\ sel'.wants = sel.wants
      BY <3>1, SMTT(30) DEF IsSel
    <3>3. /\ sel'.left = sel.left /\ sel'.cands = sel.cands /\ sel'.before = sel.before
          /\ sel'.missed = sel.missed /\ sel'.problem = sel.problem /\ sel'.result = sel.result
      BY <3>1, SMTT(30) DEF IsSel
    <3>4. /\ sel'.opened = sel.opened /\ sel'.slipped = sel.slipped
          /\ sel'.pc = "undo" /\ sel'.picked = i /\ sel'.at = 1
      BY <3>1, SMTT(30) DEF IsSel
    <3>5. SameCall(sel, sel') /\ SameValue(sel, sel')
      BY <3>2, <3>3 DEF SameCall, SameTask, SameValue
    <3>6. QED
      BY <1>1, <2>1, <2>3, <2>4, <3>4, <3>5 DEF i
  <2>5. CASE ~took
    <3>1. /\ SameCall(sel, sel') /\ SameValue(sel, sel') /\ sel'.opened = sel.opened
          /\ sel'.pc = "click" /\ sel'.at = sel.at /\ sel'.tries = t /\ sel'.slipped = slip /\ sel'.was = sel.was
      BY <1>1, <2>2, <2>5 DEF IsSel, SameCall, SameTask, SameValue
    <3>2. QED
      BY <1>1, <2>1, <2>3, <2>5, <3>1 DEF t, slip
  <2>6. QED
    BY <2>4, <2>5
<1>4. QED
  BY <1>2, <1>3

LEMMA EnterStep ==
    ASSUME IsSel(sel), EnterOrLeave
    PROVE  LET b == sel.cands[sel.at].box IN
           /\ sel.pc = "click" /\ sel.tries = <<>> /\ focus' = focus
           /\ SameCall(sel, sel') /\ SameValue(sel, sel') /\ sel'.opened = sel.opened /\ sel'.slipped = sel.slipped
           /\ popups' \in {popups, Closed(b)}
           /\ \/ chosen' = chosen
              \/ \E o : <<b, o>> \in Rows /\ chosen' = Toggled(b, o)
           /\ \/ Committed(Head(sel.left), chosen'[b]) /\ sel'.pc = "undo" /\ sel'.picked = sel.at /\ sel'.at = 1
              \/ sel'.pc = "try" /\ sel'.at = sel.at + 1
<1> DEFINE enter == /\ boxes[here].search
                    /\ \/ Cardinality({r \in Rows : r[2] = want}) = 1
                       \/ Cardinality(Rows) = 1 /\ \A r \in Rows : r[2] \in Holds[want]
           leave == [sel EXCEPT !.pc = "try", !.at = sel.at + 1]
<1>1. sel.pc = "click" /\ sel.tries = <<>> /\ focus' = focus /\ popups' \in {popups, Closed(here)}
  BY DEF EnterOrLeave
<1>2. PICK takes \in BOOLEAN, r \in Rows \union {<<here, want>>} :
        /\ takes => enter /\ r \in Rows /\ r[1] = here
        /\ chosen' = IF takes THEN Toggled(here, r[2]) ELSE chosen
        /\ sel' = IF enter /\ Committed(want, chosen'[here]) THEN Picked(sel.at) ELSE leave
  BY DEF EnterOrLeave, IsSel
<1> HIDE DEF enter
<1>3. chosen' = chosen \/ \E o : <<here, o>> \in Rows /\ chosen' = Toggled(here, o)
  <2>1. CASE takes
    <3>1. r \in Rows /\ r[1] = here /\ chosen' = Toggled(here, r[2])
      BY <1>2, <2>1
    <3>2. r = <<r[1], r[2]>>
      BY <3>1 DEF Rows
    <3>3. QED
      BY <3>1, <3>2
  <2>2. QED
    BY <1>2, <2>1
<1> DEFINE i == sel.at
           k == sel.at + 1
<1>4. \/ Committed(want, chosen'[here]) /\ sel' = [sel EXCEPT !.pc = "undo", !.picked = i, !.at = 1, !.tries = <<>>]
      \/ sel' = [sel EXCEPT !.pc = "try", !.at = k]
  BY <1>2 DEF Picked
<1> HIDE DEF i, k
<1>5. CASE Committed(want, chosen'[here]) /\ sel' = [sel EXCEPT !.pc = "undo", !.picked = i, !.at = 1, !.tries = <<>>]
  <2>1. /\ SameCall(sel, sel') /\ SameValue(sel, sel') /\ sel'.opened = sel.opened /\ sel'.slipped = sel.slipped
        /\ sel'.pc = "undo" /\ sel'.picked = i /\ sel'.at = 1
    BY <1>5 DEF IsSel, SameCall, SameTask, SameValue
  <2>2. QED
    BY <1>1, <1>3, <1>5, <2>1 DEF i, here, want
<1>6. CASE sel' = [sel EXCEPT !.pc = "try", !.at = k]
  <2>1. /\ SameCall(sel, sel') /\ SameValue(sel, sel') /\ sel'.opened = sel.opened /\ sel'.slipped = sel.slipped
        /\ sel'.pc = "try" /\ sel'.at = k
    BY <1>6 DEF IsSel, SameCall, SameTask, SameValue
  <2>2. QED
    BY <1>1, <1>3, <2>1 DEF k, here
<1>7. QED
  BY <1>4, <1>5, <1>6

LEMMA NoneStep ==
    ASSUME IsSel(sel), NoneTook
    PROVE  /\ sel.pc = "try" /\ sel.at > Len(sel.cands) /\ UNCHANGED <<chosen, popups, focus>>
           /\ SameCall(sel, sel') /\ SameValue(sel, sel') /\ sel'.opened = sel.opened /\ sel'.slipped = sel.slipped
           /\ sel'.pc = "undo" /\ sel'.picked = 0 /\ sel'.at = 1
<1>1. sel.pc = "try" /\ sel.at > Len(sel.cands) /\ UNCHANGED <<chosen, popups, focus>>
      /\ sel' = [sel EXCEPT !.pc = "undo", !.picked = 0, !.at = 1, !.tries = <<>>]
  BY DEF NoneTook, Picked, boxVars
<1>2. QED
  BY <1>1 DEF IsSel, SameCall, SameTask, SameValue

LEMMA UndoStep ==
    ASSUME IsSel(sel), Undo
    PROVE  LET b == sel.cands[sel.at].box IN
           /\ sel.pc = "undo" /\ sel.at <= Len(sel.cands) /\ popups' = popups
           /\ SameCall(sel, sel') /\ SameValue(sel, sel') /\ sel'.opened = sel.opened /\ sel'.slipped = sel.slipped
           /\ sel'.pc = "undo" /\ sel'.picked = sel.picked /\ sel'.at = sel.at + 1
           /\ \/ ~Undoable(sel.at) /\ UNCHANGED <<chosen, focus>> /\ sel'.kept = sel.kept
              \/ /\ Undoable(sel.at)
                 /\ focus' = IF focus = b THEN b ELSE 0
                 /\ \E after \in Blurred(b, PickedIn(sel)), stay \in SUBSET News(sel.at) :
                       /\ sel'.kept = IF stay = {} THEN sel.kept ELSE sel.kept \union {b}
                       /\ chosen' = [after EXCEPT ![b] = (@ \intersect sel.before[b]) \union stay]
<1> DEFINE k == sel.at + 1
<1>1. sel.pc = "undo" /\ sel.at <= Len(sel.cands) /\ popups' = popups
  BY DEF Undo
<1>2. here = sel.cands[sel.at].box /\ PickedBox = PickedIn(sel)
  BY DEF here, PickedBox, PickedIn
<1>3. ASSUME NEW kept, sel' = [sel EXCEPT !.at = k, !.kept = kept]
      PROVE  /\ SameCall(sel, sel') /\ SameValue(sel, sel') /\ sel'.opened = sel.opened /\ sel'.slipped = sel.slipped
             /\ sel'.pc = sel.pc /\ sel'.picked = sel.picked /\ sel'.at = k /\ sel'.kept = kept
  <2> HIDE DEF k
  <2>1. QED
    BY <1>3 DEF IsSel, SameCall, SameTask, SameValue
<1>4. CASE ~Undoable(sel.at)
  <2>1. sel' = [sel EXCEPT !.at = k] /\ UNCHANGED <<chosen, focus>>
    BY <1>4 DEF Undo, IsSel
  <2>2. sel' = [sel EXCEPT !.at = k, !.kept = sel.kept]
    <3> HIDE DEF k
    <3>1. QED
      BY <2>1 DEF IsSel
  <2>3. QED
    BY <1>1, <1>3, <1>4, <2>1, <2>2
<1>5. CASE Undoable(sel.at)
  <2>1. PICK stay \in SUBSET News(sel.at) :
          /\ sel' = [sel EXCEPT !.at = k, !.kept = IF stay = {} THEN sel.kept ELSE sel.kept \union {here}]
          /\ focus' = IF focus = here THEN here ELSE 0
          /\ \E after \in Blurred(here, PickedBox) :
                chosen' = [after EXCEPT ![here] = (@ \intersect sel.before[here]) \union stay]
    BY <1>5 DEF Undo, IsSel
  <2> DEFINE kept == IF stay = {} THEN sel.kept ELSE sel.kept \union {here}
  <2>2. sel' = [sel EXCEPT !.at = k, !.kept = kept]
    BY <2>1
  <2> HIDE DEF kept
  <2>3. /\ SameCall(sel, sel') /\ SameValue(sel, sel') /\ sel'.opened = sel.opened /\ sel'.slipped = sel.slipped
        /\ sel'.pc = sel.pc /\ sel'.picked = sel.picked /\ sel'.at = k /\ sel'.kept = kept
    BY <1>3, <2>2
  <2>4. PICK after \in Blurred(here, PickedBox) : chosen' = [after EXCEPT ![here] = (@ \intersect sel.before[here]) \union stay]
    BY <2>1
  <2>5. \E a \in Blurred(here, PickedBox), s \in SUBSET News(sel.at) :
           /\ sel'.kept = IF s = {} THEN sel.kept ELSE sel.kept \union {here}
           /\ chosen' = [a EXCEPT ![here] = (@ \intersect sel.before[here]) \union s]
    <3>1. WITNESS after \in Blurred(here, PickedBox), stay \in SUBSET News(sel.at)
    <3>2. QED
      BY <2>3, <2>4 DEF kept
  <2> DEFINE b == sel.cands[sel.at].box
             q == PickedIn(sel)
  <2>6. here = b /\ PickedBox = q
    BY <1>2
  <2> HIDE DEF b, q
  <2>7. \E a \in Blurred(b, q), s \in SUBSET News(sel.at) :
           /\ sel'.kept = IF s = {} THEN sel.kept ELSE sel.kept \union {b}
           /\ chosen' = [a EXCEPT ![b] = (@ \intersect sel.before[b]) \union s]
    BY <2>5, <2>6
  <2>8. QED
    BY <1>1, <1>5, <2>1, <2>3, <2>6, <2>7 DEF b, q
<1>6. QED
  BY <1>4, <1>5

LEMMA EndStep ==
    ASSUME IsSel(sel), EndPick
    PROVE  LET missed == IF sel.picked = 0 THEN sel.missed \union {Head(sel.left)} ELSE sel.missed IN
           /\ sel.pc = "undo" /\ sel.at > Len(sel.cands) /\ UNCHANGED <<chosen, popups, focus>>
           /\ SameCall(sel, sel') /\ sel'.cands = sel.cands /\ sel'.before = sel.before /\ sel'.kept = sel.kept
           /\ sel'.picked = sel.picked /\ sel'.slipped = sel.slipped /\ sel'.missed = missed
           /\ \/ Len(sel.left) > 1 /\ sel'.pc = "pick" /\ sel'.left = Tail(sel.left) /\ ~sel'.opened
              \/ ~(Len(sel.left) > 1) /\ sel'.pc = "done" /\ sel'.left = sel.left
<1> DEFINE missed == IF sel.picked = 0 THEN sel.missed \union {want} ELSE sel.missed
           t == Tail(sel.left)
           result == IF missed = Range(sel.wants) THEN "failed" ELSE "passed"
           error == IF missed = Range(sel.wants) THEN "value" ELSE "none"
<1>1. /\ sel.pc = "undo" /\ sel.at > Len(sel.cands) /\ UNCHANGED <<chosen, popups, focus>>
      /\ sel' = IF Len(sel.left) > 1
                THEN [sel EXCEPT !.pc = "pick", !.left = t, !.missed = missed, !.opened = FALSE]
                ELSE [sel EXCEPT !.pc = "done", !.missed = missed, !.result = result, !.error = error]
  BY DEF EndPick, boxVars, IsSel
<1>2. missed = IF sel.picked = 0 THEN sel.missed \union {Head(sel.left)} ELSE sel.missed
  BY DEF want
<1> HIDE DEF missed, t, result, error
<1>3. CASE Len(sel.left) > 1
  <2>1. sel' = [sel EXCEPT !.pc = "pick", !.left = t, !.missed = missed, !.opened = FALSE]
    BY <1>1, <1>3
  <2>2. /\ SameCall(sel, sel') /\ sel'.cands = sel.cands /\ sel'.before = sel.before /\ sel'.kept = sel.kept
        /\ sel'.picked = sel.picked /\ sel'.slipped = sel.slipped /\ sel'.missed = missed
        /\ sel'.pc = "pick" /\ sel'.left = t /\ ~sel'.opened
    BY <2>1 DEF IsSel, SameCall, SameTask
  <2>3. QED
    BY <1>1, <1>2, <1>3, <2>2 DEF t
<1>4. CASE ~(Len(sel.left) > 1)
  <2>1. sel' = [sel EXCEPT !.pc = "done", !.missed = missed, !.result = result, !.error = error]
    BY <1>1, <1>4
  <2>2. /\ SameCall(sel, sel') /\ sel'.cands = sel.cands /\ sel'.before = sel.before /\ sel'.kept = sel.kept
        /\ sel'.picked = sel.picked /\ sel'.slipped = sel.slipped /\ sel'.missed = missed
        /\ sel'.pc = "done" /\ sel'.left = sel.left
    BY <2>1 DEF IsSel, SameCall, SameTask
  <2>3. QED
    BY <1>1, <1>2, <1>4, <2>2
<1>5. QED
  BY <1>3, <1>4

\* Opening and clicking leave on screen what stays there and the widget opened last.
LEMMA OpenedPops ==
    ASSUME NEW b \in DOMAIN boxes, popups \subseteq DOMAIN boxes
    PROVE  Opened(b) \subseteq DOMAIN boxes /\ b \in Opened(b) /\ PopsUp(b, Opened(b))
  BY DEF Opened, PopsUp

LEMMA RowsFit ==
    ASSUME NEW r \in Rows
    PROVE  /\ r = <<r[1], r[2]>> /\ r[1] \in popups /\ r[2] \in boxes[r[1]].offers
           /\ r[1] = here /\ boxes[here].search => r[2] \in Holds[want]
  BY DEF Rows

LEMMA FoundAreRows ==
    ASSUME NEW shape
    PROVE  Found(shape) \subseteq Rows
<1> DEFINE exact == {r \in Rows : r[2] = want}
           part  == {r \in Rows : r[2] \in Holds[want]}
<1>1. exact \subseteq Rows /\ part \subseteq Rows
  OBVIOUS
<1>2. Found(shape) \in {{r \in exact : r[1] = here}, {r \in part : r[1] = here}, exact, part, Rows, {}}
  BY DEF Found
<1>3. QED
  BY <1>1, <1>2

LEMMA SelectingPlaces ==
    ASSUME BoxesFit, IsSel(sel), Focusable(focus), popups \subseteq DOMAIN boxes,
           Placed(sel, focus, popups), Selecting
    PROVE  Focusable(focus') /\ popups' \subseteq DOMAIN boxes /\ Placed(sel', focus', popups')
<1> DEFINE b == sel.trigger.box
           h == sel.cands[sel.at].box
<1>1. \A c : Closed(c) \subseteq popups
  BY DEF Closed
<1>2. CASE SelectNative
  <2>1. /\ sel.pc = "open" /\ SameCall(sel, sel') /\ sel'.left = sel.left /\ sel'.pc = "done" /\ UNCHANGED <<popups, focus>>
    BY <1>2, NativeStep
  <2>2. QED
    BY <2>1 DEF Placed, SameCall, SameTask
<1>3. CASE OpenTrigger
  <2>1. /\ sel.pc = "open" /\ SameTask(sel, sel') /\ sel'.cands = sel.cands
        /\ sel'.pc = "pick" => SameCall(sel, sel') /\ sel'.left = sel.left
        /\ sel'.pc = "panel" => sel'.wants = sel.items /\ sel'.left = sel.items
        /\ \/ /\ boxes[b].opens /\ focus' = b /\ sel'.opened
              /\ \/ popups' = Opened(b) /\ sel'.pc = "pick"
                 \/ popups' = Opened(b) /\ boxes[b].kind = "panel" /\ sel'.pc = "panel"
                 \/ popups' = Opened(b) \ {b} /\ boxes[b].kind = "panel" /\ sel'.pc = "pick"
           \/ ~boxes[b].opens /\ UNCHANGED <<popups, focus>> /\ sel'.pc = "pick" /\ sel'.opened = sel.opened
    BY <1>3, OpenStep
  <2>2. b \in DOMAIN boxes
    BY <2>1 DEF Placed
  <2>3. Opened(b) \subseteq DOMAIN boxes /\ b \in Opened(b) /\ PopsUp(b, Opened(b))
    BY <2>2, OpenedPops
  <2>4. Focusable(focus') /\ popups' \subseteq DOMAIN boxes
    BY <2>1, <2>2, <2>3 DEF Focusable
  <2>5. PopsUp(b, Opened(b) \ {b})
    BY <2>3 DEF PopsUp
  <2>6. CASE sel'.pc = "pick"
    BY <2>1, <2>2, <2>3, <2>4, <2>5, <2>6 DEF Placed, SameCall, SameTask, OpensPanel
  <2>7. CASE sel'.pc = "panel"
    <3>1. Len(sel'.left) <= Len(sel'.wants)
      BY <2>1, <2>7 DEF Placed
    <3>2. QED
      BY <2>1, <2>2, <2>4, <2>7, <3>1 DEF Placed, SameTask, OpensPanel
  <2>8. QED
    BY <2>1, <2>6, <2>7
<1>4. CASE TickItem
  <2>0. sel.pc = "panel"
    BY <1>4 DEF TickItem
  <2>1. /\ sel.left # <<>> /\ SameCall(sel, sel') /\ sel'.cands = sel.cands /\ UNCHANGED <<popups, focus>>
        /\ \/ sel'.pc = "done" /\ sel'.left = sel.left
           \/ sel'.pc = "panel" /\ sel'.left = Tail(sel.left)
    BY <1>4, <2>0, TickStep DEF Placed, OpensPanel
  <2>2. sel.left \in Seq(Option) /\ Range(sel.left) \subseteq Range(sel.wants) /\ Len(sel.left) <= Len(sel.wants)
        /\ sel.wants \in Seq(Option)
    BY <2>0 DEF Placed
  <2>3. Range(Tail(sel.left)) \subseteq Range(sel.left) /\ Tail(sel.left) \in Seq(Option)
    BY <2>1, <2>2, RangeOfRest
  <2>4. Len(Tail(sel.left)) <= Len(sel.wants)
    BY <2>1, <2>2
  <2>5. QED
    BY <2>0, <2>1, <2>2, <2>3, <2>4 DEF Placed, SameCall, SameTask
<1>5. CASE ClosePanel
  <2>0. sel.pc = "panel"
    BY <1>5 DEF ClosePanel
  <2>1. /\ SameCall(sel, sel') /\ sel'.left = sel.left /\ sel'.pc = "done"
        /\ popups' \in {popups, Closed(b)} /\ focus' = focus
    BY <1>5, <2>0, CloseStep DEF Placed
  <2>2. QED
    BY <1>1, <2>0, <2>1 DEF Placed, SameCall, SameTask
<1>6. CASE StartPick
  <2>0. b \in DOMAIN boxes
    BY <1>6 DEF StartPick, Placed
  <2>1. /\ sel.pc = "pick" /\ SameCall(sel, sel') /\ sel'.left = sel.left
        /\ sel'.pc = "try" /\ sel'.at = 1 /\ sel'.opened = sel.opened /\ CandsFit(sel')
        /\ UNCHANGED <<popups, focus>>
    BY <1>6, <2>0, PickStep
  <2>2. QED
    BY <2>1 DEF Placed, SameCall, SameTask
<1>7. CASE TryCandidate
  <2>1. /\ sel.pc = "try" /\ sel.at <= Len(sel.cands) /\ SameCall(sel, sel') /\ SameValue(sel, sel')
        /\ \/ sel.opened /\ UNCHANGED <<popups, focus>> /\ sel'.pc = "click" /\ sel'.at = sel.at /\ ~sel'.opened
           \/ /\ boxes[h].opens /\ focus' = h /\ popups' = Opened(h)
              /\ sel'.pc = "click" /\ sel'.at = sel.at /\ ~sel'.opened
           \/ UNCHANGED <<popups, focus>> /\ sel'.pc = "try" /\ sel'.at = sel.at + 1 /\ ~sel'.opened
    BY <1>7, TryStep
  <2>2. CandsFit(sel) /\ sel.at \in Nat \ {0} /\ sel.at \in DOMAIN sel.cands
    BY <2>1 DEF Placed, CandsFit
  <2>3. h \in DOMAIN boxes /\ sel.cands[1].box = b
    BY <2>2 DEF CandsFit
  <2>4. CandsFit(sel')
    BY <2>1, <2>2 DEF CandsFit, SameCall, SameTask, SameValue
  <2>5. Opened(h) \subseteq DOMAIN boxes /\ h \in Opened(h) /\ PopsUp(h, Opened(h))
    BY <2>3, OpenedPops
  <2>6. Focusable(focus') /\ popups' \subseteq DOMAIN boxes
    BY <2>1, <2>3, <2>5 DEF Focusable
  <2>7. QED
    BY <2>1, <2>2, <2>3, <2>4, <2>5, <2>6 DEF Placed, SameCall, SameTask, SameValue
<1>8. CASE ClickOption
  <2>1. /\ sel.pc = "click" /\ focus' = focus /\ SameCall(sel, sel') /\ SameValue(sel, sel') /\ sel'.opened = sel.opened
        /\ popups' \subseteq popups
        /\ \/ sel'.pc = "click" /\ sel'.at = sel.at
           \/ sel'.pc = "undo" /\ sel'.picked = sel.at /\ sel'.at = 1
    BY <1>1, <1>8, ClickStep
  <2>2. CandsFit(sel) /\ sel.at \in Nat \ {0} /\ sel.at \in DOMAIN sel.cands
    BY <2>1 DEF Placed
  <2>3. CandsFit(sel')
    BY <2>1, <2>2 DEF CandsFit, SameCall, SameTask, SameValue
  <2>4. PopsUp(h, popups) => PopsUp(h, popups')
    BY <2>1 DEF PopsUp
  <2>5. QED
    BY <2>1, <2>2, <2>3, <2>4 DEF Placed, SameCall, SameTask, SameValue, PickedIn
<1>9. CASE EnterOrLeave
  <2>1. /\ sel.pc = "click" /\ focus' = focus /\ SameCall(sel, sel') /\ SameValue(sel, sel') /\ sel'.opened = sel.opened
        /\ popups' \subseteq popups
        /\ \/ sel'.pc = "try" /\ sel'.at = sel.at + 1
           \/ sel'.pc = "undo" /\ sel'.picked = sel.at /\ sel'.at = 1
    BY <1>1, <1>9, EnterStep
  <2>2. CandsFit(sel) /\ sel.at \in Nat \ {0} /\ sel.at \in DOMAIN sel.cands
    BY <2>1 DEF Placed
  <2>3. CandsFit(sel')
    BY <2>1, <2>2 DEF CandsFit, SameCall, SameTask, SameValue
  <2>4. QED
    BY <2>1, <2>2, <2>3 DEF Placed, SameCall, SameTask, SameValue, PickedIn
<1>10. CASE NoneTook
  <2>1. /\ sel.pc = "try" /\ UNCHANGED <<popups, focus>> /\ SameCall(sel, sel') /\ SameValue(sel, sel')
        /\ sel'.pc = "undo" /\ sel'.picked = 0 /\ sel'.at = 1
    BY <1>10, NoneStep
  <2>2. CandsFit(sel')
    BY <2>1 DEF Placed, CandsFit, SameCall, SameTask, SameValue
  <2>3. QED
    BY <2>1, <2>2 DEF Placed, SameCall, SameTask, SameValue
<1>11. CASE Undo
  <2>1. /\ sel.pc = "undo" /\ sel.at <= Len(sel.cands) /\ popups' = popups
        /\ SameCall(sel, sel') /\ SameValue(sel, sel')
        /\ sel'.pc = "undo" /\ sel'.picked = sel.picked /\ sel'.at = sel.at + 1
        /\ \/ ~Undoable(sel.at) /\ focus' = focus
           \/ Undoable(sel.at) /\ focus' = IF focus = h THEN h ELSE 0
    BY <1>11, UndoStep
  <2>2. CandsFit(sel) /\ sel.at \in Nat \ {0}
    BY <2>1 DEF Placed
  <2>3. CandsFit(sel')
    BY <2>1, <2>2 DEF CandsFit, SameCall, SameTask, SameValue
  <2>4. focus' \in {focus, 0}
    BY <2>1
  <2>5. PickedIn(sel') = PickedIn(sel)
    BY <2>1 DEF PickedIn, SameValue
  <2>6. Focusable(focus')
    BY <2>4 DEF Focusable
  <2>7. QED
    BY <2>1, <2>2, <2>3, <2>4, <2>5, <2>6 DEF Placed, SameCall, SameTask, SameValue
<1>12. CASE EndPick
  <2>1. /\ sel.pc = "undo" /\ UNCHANGED <<popups, focus>> /\ SameCall(sel, sel')
        /\ \/ Len(sel.left) > 1 /\ sel'.pc = "pick" /\ sel'.left = Tail(sel.left) /\ ~sel'.opened
           \/ sel'.pc = "done" /\ sel'.left = sel.left
    BY <1>12, EndStep
  <2>2. sel.left \in Seq(Option) /\ Range(sel.left) \subseteq Range(sel.wants) /\ Len(sel.left) <= Len(sel.wants)
        /\ sel.wants \in Seq(Option) /\ sel.left # <<>>
    BY <2>1 DEF Placed
  <2>3. Range(Tail(sel.left)) \subseteq Range(sel.left) /\ Tail(sel.left) \in Seq(Option)
    BY <2>2, RangeOfRest
  <2>4. Len(Tail(sel.left)) <= Len(sel.wants) /\ (Len(sel.left) > 1 => Tail(sel.left) # <<>>)
    <3>1. Len(Tail(sel.left)) = Len(sel.left) - 1 /\ Len(sel.left) \in Nat /\ Len(sel.wants) \in Nat
      BY <2>2
    <3>2. Len(Tail(sel.left)) <= Len(sel.wants)
      BY <2>2, <3>1
    <3> DEFINE t == Tail(sel.left)
               n == Len(sel.left)
               m == Len(t)
    <3>3. n > 1 => m # 0
      <4>1. m = n - 1 /\ n \in Nat
        BY <3>1
      <4> HIDE DEF m, n
      <4>2. QED
        BY <4>1
    <3>4. Len(t) # 0 => t # <<>>
      <4> HIDE DEF t
      <4>1. QED
        OBVIOUS
    <3>5. QED
      BY <3>2, <3>3, <3>4
  <2>5. QED
    BY <2>1, <2>2, <2>3, <2>4 DEF Placed, SameCall, SameTask
<1>13. QED
  BY <1>2, <1>3, <1>4, <1>5, <1>6, <1>7, <1>8, <1>9, <1>10, <1>11, <1>12 DEF Selecting

LEMMA BlurKeeps ==
    ASSUME BoxesFit, NEW b, NEW done, NEW ch \in Blurred(b, done)
    PROVE  /\ \A c \in DOMAIN boxes : c # focus => ch[c] = chosen[c]
           /\ focus \in {0, b, done} => ch = chosen
<1>1. ch = chosen \/ \E S : focus \notin {0, b, done} /\ ch = [chosen EXCEPT ![focus] = S]
  BY DEF Blurred
<1>2. CASE ch = chosen
  BY <1>2
<1>3. CASE \E S : focus \notin {0, b, done} /\ ch = [chosen EXCEPT ![focus] = S]
  <2>1. PICK S : focus \notin {0, b, done} /\ ch = [chosen EXCEPT ![focus] = S]
    BY <1>3
  <2>2. DOMAIN chosen = DOMAIN boxes
    BY DEF BoxesFit
  <2>3. QED
    BY <2>1, <2>2
<1>4. QED
  BY <1>1, <1>2, <1>3

LEMMA ToggleKeeps ==
    ASSUME BoxesFit, NEW b, NEW o
    PROVE  \A c \in DOMAIN boxes : c # b => Toggled(b, o)[c] = chosen[c]
<1>1. DOMAIN chosen = DOMAIN boxes
  BY DEF BoxesFit
<1>2. Toggled(b, o) = chosen \/ \E S : Toggled(b, o) = [chosen EXCEPT ![b] = S]
  BY DEF Toggled
<1>3. QED
  BY <1>1, <1>2

LEMMA SelectingCleans ==
    ASSUME BoxesFit, IsSel(sel), Focusable(focus), popups \subseteq DOMAIN boxes,
           Placed(sel, focus, popups), StayingOpens, Clean(sel, chosen, focus), Selecting
    PROVE  Clean(sel', chosen', focus')
<1> DEFINE h == sel.cands[sel.at].box
           Shut(ch) == \A b \in DOMAIN boxes : ~boxes[b].opens => ch[b] = sel.before[b]
<1>0. \A c \in DOMAIN boxes : ~boxes[c].opens => c # focus
  <2>1. 0 \notin DOMAIN boxes
    BY DEF BoxesFit
  <2>2. QED
    BY <2>1 DEF Focusable
<1>1. CASE SelectNative \/ ClosePanel
  <2>1. sel.pc \in {"open", "panel"} /\ sel'.pc = "done" /\ sel'.cands = sel.cands
    <3>1. ClosePanel => sel.pc = "panel"
      BY DEF ClosePanel
    <3>2. QED
      BY <1>1, <3>1, NativeStep, CloseStep DEF Placed
  <2>2. DOMAIN sel'.cands = {}
    BY <2>1 DEF Placed
  <2>3. QED
    BY <2>1, <2>2 DEF Clean
<1>2. CASE OpenTrigger \/ TickItem
  <2>1. sel'.pc \in {"panel", "pick"} \/ (sel'.pc = "done" /\ DOMAIN sel'.cands = {})
    <3>1. TickItem => sel.pc = "panel"
      BY DEF TickItem
    <3>2. QED
      BY <1>2, <3>1, OpenStep, TickStep DEF Placed, OpensPanel
  <2>2. QED
    BY <2>1 DEF Clean
<1>3. CASE StartPick
  <2>1. sel.trigger.box \in DOMAIN boxes
    BY <1>3 DEF StartPick, Placed
  <2>2. sel'.pc = "try" /\ sel'.before = chosen /\ chosen' = chosen
    BY <1>3, <2>1, PickStep
  <2>3. QED
    BY <2>2 DEF Clean
<1>4. CASE TryCandidate
  <2>1. /\ sel.pc = "try" /\ sel.at <= Len(sel.cands) /\ SameValue(sel, sel')
        /\ \/ chosen' = chosen /\ sel'.pc = "click"
           \/ chosen' \in Blurred(h, 0) /\ sel'.pc = "click"
           \/ /\ ~boxes[h].opens /\ UNCHANGED <<chosen, focus>>
              /\ sel'.pc = "try" /\ sel'.at = sel.at + 1
    BY <1>4, TryStep
  <2>2. Shut(chosen) /\ CandsFit(sel) /\ sel.at \in Nat
    BY <2>1 DEF Clean, Placed
  <2>3. CASE chosen' = chosen /\ sel'.pc = "click"
    BY <2>1, <2>2, <2>3 DEF Clean, SameValue
  <2>4. CASE chosen' \in Blurred(h, 0) /\ sel'.pc = "click"
    <3>1. \A c \in DOMAIN boxes : c # focus => chosen'[c] = chosen[c]
      BY <2>4, BlurKeeps
    <3>2. Shut(chosen')
      BY <1>0, <2>2, <3>1
    <3>3. QED
      BY <2>1, <2>4, <3>2 DEF Clean, SameValue
  <2>5. CASE ~boxes[h].opens /\ UNCHANGED <<chosen, focus>> /\ sel'.pc = "try" /\ sel'.at = sel.at + 1
    <3>1. chosen = sel.before \/ LastOpened(sel, focus)
      BY <2>1 DEF Clean
    <3>2. LastOpened(sel, focus) => LastOpened(sel', focus)
      <4>1. SUFFICES ASSUME LastOpened(sel, focus) PROVE LastOpened(sel', focus)
        OBVIOUS
      <4>2. PICK j \in DOMAIN sel.cands :
              /\ j < sel.at /\ focus = sel.cands[j].box
              /\ \A k \in DOMAIN sel.cands : j < k /\ k < sel.at => ~boxes[sel.cands[k].box].opens
        BY <2>1, <4>1 DEF LastOpened
      <4>3. DOMAIN sel.cands \subseteq Nat
        BY <2>2 DEF CandsFit
      <4>4. \A k \in DOMAIN sel.cands : j < k /\ k < sel.at + 1 => ~boxes[sel.cands[k].box].opens
        BY <2>2, <2>5, <4>2, <4>3
      <4>5. j < sel.at + 1
        BY <2>2, <4>2, <4>3
      <4>6. QED
        BY <2>1, <2>5, <4>2, <4>4, <4>5 DEF LastOpened, SameValue
    <3>3. QED
      BY <2>1, <2>2, <2>5, <3>1, <3>2 DEF Clean, SameValue
  <2>6. QED
    BY <2>1, <2>3, <2>4, <2>5
<1>5. CASE ClickOption
  <2>1. /\ sel.pc = "click" /\ focus' = focus /\ SameValue(sel, sel')
        /\ chosen' = chosen \/ \E r \in Rows : chosen' = Toggled(r[1], r[2])
        /\ \/ sel'.pc = "click"
           \/ sel'.pc = "undo" /\ sel'.picked = sel.at /\ sel'.at = 1
    BY <1>5, ClickStep, FoundAreRows
  <2>2. /\ Shut(chosen) /\ CandsFit(sel) /\ sel.at \in Nat \ {0}
        /\ focus = h /\ boxes[h].opens /\ PopsUp(focus, popups)
    BY <2>1 DEF Clean, Placed
  <2>3. Shut(chosen')
    <3>1. CASE chosen' = chosen
      BY <2>2, <3>1
    <3>2. CASE \E r \in Rows : chosen' = Toggled(r[1], r[2])
      <4>1. PICK r \in Rows : chosen' = Toggled(r[1], r[2])
        BY <3>2
      <4>2. r[1] \in popups
        BY RowsFit
      <4>3. boxes[r[1]].opens
        BY <2>2, <4>2 DEF PopsUp, StayingOpens
      <4>4. \A c \in DOMAIN boxes : c # r[1] => chosen'[c] = chosen[c]
        BY <4>1, ToggleKeeps
      <4>5. QED
        BY <2>2, <4>3, <4>4
    <3>3. QED
      BY <2>1, <3>1, <3>2
  <2>4. \A i \in DOMAIN sel.cands : ~(i < 1)
    BY <2>2 DEF CandsFit
  <2>5. QED
    BY <2>1, <2>2, <2>3, <2>4 DEF Clean, SameValue
<1>6. CASE EnterOrLeave
  <2>1. /\ sel.pc = "click" /\ focus' = focus /\ SameValue(sel, sel')
        /\ chosen' = chosen \/ \E o : chosen' = Toggled(h, o)
        /\ \/ sel'.pc = "try" /\ sel'.at = sel.at + 1
           \/ sel'.pc = "undo" /\ sel'.picked = sel.at /\ sel'.at = 1
    BY <1>6, EnterStep
  <2>2. /\ Shut(chosen) /\ CandsFit(sel) /\ sel.at \in Nat \ {0} /\ sel.at \in DOMAIN sel.cands
        /\ focus = h /\ boxes[h].opens
    BY <2>1 DEF Clean, Placed
  <2>3. Shut(chosen')
    <3>1. \A c \in DOMAIN boxes : c # h => chosen'[c] = chosen[c]
      BY <2>1, ToggleKeeps
    <3>2. QED
      BY <2>2, <3>1
  <2>4. \A i \in DOMAIN sel.cands : i \in Nat /\ ~(i < 1) /\ ~(sel.at < i /\ i < sel.at + 1)
    BY <2>2 DEF CandsFit
  <2>5. CASE sel'.pc = "try" /\ sel'.at = sel.at + 1
    <3>1. sel.at < sel'.at
      BY <2>2, <2>5
    <3>2. LastOpened(sel', focus)
      BY <2>1, <2>2, <2>4, <2>5, <3>1 DEF LastOpened, SameValue
    <3>3. QED
      BY <2>1, <2>3, <2>5, <3>2 DEF Clean, SameValue
  <2>6. CASE sel'.pc = "undo" /\ sel'.picked = sel.at /\ sel'.at = 1
    BY <2>1, <2>2, <2>3, <2>4, <2>6 DEF Clean, SameValue
  <2>7. QED
    BY <2>1, <2>5, <2>6
<1>7. CASE NoneTook
  <2>1. /\ sel.pc = "try" /\ sel.at > Len(sel.cands) /\ UNCHANGED <<chosen, focus>> /\ SameValue(sel, sel')
        /\ sel'.pc = "undo" /\ sel'.picked = 0 /\ sel'.at = 1
    BY <1>7, NoneStep
  <2>2. Shut(chosen) /\ CandsFit(sel) /\ sel.at \in Nat \ {0}
    BY <2>1 DEF Clean, Placed
  <2>3. \A i \in DOMAIN sel.cands : ~(i < 1) /\ i < sel.at
    BY <2>1, <2>2 DEF CandsFit
  <2>4. chosen = sel.before \/ LastOpened(sel, focus)
    BY <2>1 DEF Clean
  <2>5. LastOpened(sel, focus) => LastOpened(sel', focus)
    BY <2>1, <2>3 DEF LastOpened, SameValue
  <2>6. QED
    BY <2>1, <2>2, <2>3, <2>4, <2>5 DEF Clean, SameValue
<1>8. CASE Undo
  <2>1. /\ sel.pc = "undo" /\ sel.at <= Len(sel.cands) /\ SameValue(sel, sel')
        /\ sel'.pc = "undo" /\ sel'.picked = sel.picked /\ sel'.at = sel.at + 1
        /\ \/ ~Undoable(sel.at) /\ UNCHANGED <<chosen, focus>> /\ sel'.kept = sel.kept
           \/ /\ Undoable(sel.at)
              /\ focus' = IF focus = h THEN h ELSE 0
              /\ \E after \in Blurred(h, PickedIn(sel)), stay \in SUBSET News(sel.at) :
                    /\ sel'.kept = IF stay = {} THEN sel.kept ELSE sel.kept \union {h}
                    /\ chosen' = [after EXCEPT ![h] = (@ \intersect sel.before[h]) \union stay]
    BY <1>8, UndoStep
  <2>2. /\ Shut(chosen) /\ CandsFit(sel) /\ sel.at \in Nat \ {0}
        /\ sel.picked # 0 => focus \in {0, PickedIn(sel)}
    BY <2>1 DEF Clean, Placed
  <2>3. sel.at \in DOMAIN sel.cands /\ h \in DOMAIN boxes /\ \A i \in DOMAIN sel.cands : i \in Nat
    BY <2>1, <2>2 DEF CandsFit
  <2>4. \A i \in DOMAIN sel.cands : i < sel.at + 1 => i < sel.at \/ i = sel.at
    BY <2>2, <2>3
  <2>5. /\ focus = 0 \/ sel.picked # 0 \/ chosen = sel.before \/ LastOpened(sel, focus)
        /\ \A i \in DOMAIN sel.cands : i < sel.at /\ Tried(sel, i)
              => chosen[sel.cands[i].box] \subseteq sel.before[sel.cands[i].box]
    BY <2>1 DEF Clean
  <2>6. \A i : Tried(sel', i) => Tried(sel, i)
    BY <2>1 DEF Tried, SameValue
  <2>7. CASE ~Undoable(sel.at) /\ UNCHANGED <<chosen, focus>>
    <3>1. Tried(sel, sel.at) => chosen[h] \subseteq sel.before[h]
      BY <2>7 DEF Tried, Undoable, News
    <3>2. LastOpened(sel, focus) => LastOpened(sel', focus)
      BY <2>1 DEF LastOpened, SameValue
    <3>3. \A i \in DOMAIN sel.cands : i < sel.at + 1 /\ Tried(sel, i)
              => chosen[sel.cands[i].box] \subseteq sel.before[sel.cands[i].box]
      BY <2>4, <2>5, <3>1
    <3>4. QED
      BY <2>1, <2>2, <2>5, <2>6, <2>7, <3>2, <3>3 DEF Clean, SameValue
  <2>8. CASE /\ Undoable(sel.at)
             /\ focus' = IF focus = h THEN h ELSE 0
             /\ \E after \in Blurred(h, PickedIn(sel)), stay \in SUBSET News(sel.at) :
                   /\ sel'.kept = IF stay = {} THEN sel.kept ELSE sel.kept \union {h}
                   /\ chosen' = [after EXCEPT ![h] = (@ \intersect sel.before[h]) \union stay]
    <3>1. PICK after \in Blurred(h, PickedIn(sel)), stay \in SUBSET News(sel.at) :
            /\ sel'.kept = IF stay = {} THEN sel.kept ELSE sel.kept \union {h}
            /\ chosen' = [after EXCEPT ![h] = (@ \intersect sel.before[h]) \union stay]
      BY <2>8
    <3>2. /\ \A c \in DOMAIN boxes : c # focus => after[c] = chosen[c]
          /\ focus \in {0, h, PickedIn(sel)} => after = chosen
      BY BlurKeeps
    <3>3. DOMAIN after = DOMAIN boxes
      BY BlurFits
    <3>4. /\ chosen'[h] = (after[h] \intersect sel.before[h]) \union stay
          /\ \A c \in DOMAIN boxes : c # h => chosen'[c] = after[c]
      BY <2>3, <3>1, <3>3
    <3>5. chosen[h] # sel.before[h] /\ sel.at # sel.picked
      BY <2>8 DEF Undoable, News
    <3>11. Tried(sel', sel.at) => chosen'[h] \subseteq sel.before[h]
      <4>1. Tried(sel', sel.at) => h \notin sel'.kept
        BY <2>1 DEF Tried, SameValue
      <4>2. QED
        BY <3>1, <3>4, <4>1
    <3>6. boxes[h].opens
      BY <2>2, <2>3, <3>5
    <3>7. Shut(chosen')
      <4>1. SUFFICES ASSUME NEW c \in DOMAIN boxes, ~boxes[c].opens PROVE chosen'[c] = sel.before[c]
        OBVIOUS
      <4>2. c # h /\ c # focus
        BY <1>0, <3>6, <4>1
      <4>3. QED
        BY <2>2, <3>2, <3>4, <4>1, <4>2
    <3>8. CASE focus \in {0, h, PickedIn(sel)}
      <4>1. after = chosen
        BY <3>2, <3>8
      <4>2. \A i \in DOMAIN sel.cands : i < sel.at + 1 /\ Tried(sel', i)
              => chosen'[sel.cands[i].box] \subseteq sel.before[sel.cands[i].box]
        <5>1. SUFFICES ASSUME NEW i \in DOMAIN sel.cands, i < sel.at + 1, Tried(sel', i)
                       PROVE  chosen'[sel.cands[i].box] \subseteq sel.before[sel.cands[i].box]
          OBVIOUS
        <5>2. CASE i = sel.at
          BY <3>11, <5>1, <5>2
        <5>3. CASE i # sel.at
          <6>1. sel.cands[i].box # h /\ sel.cands[i].box \in DOMAIN boxes
            BY <2>2, <2>3, <5>3 DEF CandsFit
          <6>2. i < sel.at
            BY <2>4, <5>1, <5>3
          <6>3. QED
            BY <2>5, <2>6, <3>4, <4>1, <5>1, <6>1, <6>2
        <5>4. QED
          BY <5>2, <5>3
      <4>3. focus' = 0 \/ sel'.picked # 0 \/ chosen' = sel'.before \/ LastOpened(sel', focus')
        <5>1. CASE focus = h /\ sel.picked = 0 /\ h # 0
          <6>1. chosen # sel.before
            BY <3>5
          <6>2. focus # 0
            BY <5>1
          <6>3. LastOpened(sel, focus)
            BY <2>5, <5>1, <6>1, <6>2
          <6>4. LastOpened(sel', focus)
            BY <2>1, <6>3 DEF LastOpened, SameValue
          <6>5. QED
            BY <2>8, <5>1, <6>4
        <5>2. QED
          BY <2>1, <2>8, <5>1
      <4>4. QED
        BY <2>1, <2>6, <3>7, <4>2, <4>3 DEF Clean, SameValue
    <3>9. CASE focus \notin {0, h, PickedIn(sel)}
      <4>1. sel.picked = 0 /\ focus' = 0 /\ chosen # sel.before
        BY <2>2, <2>8, <3>5, <3>9
      <4>2. PICK j \in DOMAIN sel.cands :
              /\ focus = sel.cands[j].box
              /\ \A k \in DOMAIN sel.cands : j < k => ~boxes[sel.cands[k].box].opens
        BY <2>1, <2>5, <3>9, <4>1 DEF LastOpened
      <4>3. sel.at < j
        <5>1. ~(j < sel.at)
          BY <2>3, <3>6, <4>2
        <5>2. j # sel.at
          BY <3>9, <4>2
        <5>3. QED
          BY <2>2, <2>3, <5>1, <5>2
      <4>4. \A i \in DOMAIN sel.cands : i < sel.at + 1 /\ Tried(sel', i)
              => chosen'[sel.cands[i].box] \subseteq sel.before[sel.cands[i].box]
        <5>1. SUFFICES ASSUME NEW i \in DOMAIN sel.cands, i < sel.at + 1, Tried(sel', i)
                       PROVE  chosen'[sel.cands[i].box] \subseteq sel.before[sel.cands[i].box]
          OBVIOUS
        <5>2. CASE i = sel.at
          BY <3>11, <5>1, <5>2
        <5>3. CASE i # sel.at
          <6>1. i < sel.at
            BY <2>4, <5>1, <5>3
          <6>2. i # j
            BY <2>2, <2>3, <4>3, <6>1
          <6>3. sel.cands[i].box # h /\ sel.cands[i].box # focus /\ sel.cands[i].box \in DOMAIN boxes
            BY <2>2, <2>3, <4>2, <5>3, <6>2 DEF CandsFit
          <6>4. QED
            BY <2>5, <2>6, <3>2, <3>4, <5>1, <6>1, <6>3
        <5>4. QED
          BY <5>2, <5>3
      <4>5. QED
        BY <2>1, <2>6, <3>7, <4>1, <4>4 DEF Clean, SameValue
    <3>10. QED
      BY <3>8, <3>9
  <2>9. QED
    BY <2>1, <2>7, <2>8
<1>9. CASE EndPick
  <2>1. /\ sel.pc = "undo" /\ sel.at > Len(sel.cands) /\ chosen' = chosen
        /\ sel'.cands = sel.cands /\ sel'.before = sel.before /\ sel'.picked = sel.picked
        /\ sel'.kept = sel.kept /\ sel'.pc \in {"pick", "done"}
    BY <1>9, EndStep
  <2>2. CandsFit(sel) /\ sel.at \in Nat
    BY <2>1 DEF Placed
  <2>3. \A i \in DOMAIN sel.cands : i < sel.at
    BY <2>1, <2>2 DEF CandsFit
  <2>4. QED
    BY <2>1, <2>3 DEF Clean, Tried
<1>10. QED
  BY <1>1, <1>2, <1>3, <1>4, <1>5, <1>6, <1>7, <1>8, <1>9 DEF Selecting

LEMMA SecondOf ==
    ASSUME NEW S, NEW s \in Seq(S), Len(s) > 1
    PROVE  s # <<>> /\ Head(s) = s[1] /\ Tail(s) # <<>> /\ Head(Tail(s)) = s[2]
<1>1. DOMAIN Tail(s) = 1..(Len(s) - 1) /\ \A i \in DOMAIN Tail(s) : Tail(s)[i] = s[i + 1]
  OBVIOUS
<1>2. 1 \in DOMAIN Tail(s) /\ Tail(s) \in Seq(S)
  BY <1>1
<1>3. Tail(s)[1] = s[2]
  BY <1>1, <1>2
<1> DEFINE t == Tail(s)
<1>4. t \in Seq(S) /\ 1 \in DOMAIN t /\ t[1] = s[2]
  BY <1>2, <1>3
<1> HIDE DEF t
<1>5. t # <<>> /\ Head(t) = t[1]
  BY <1>4
<1>6. s # <<>> /\ Head(s) = s[1]
  OBVIOUS
<1>7. QED
  BY <1>4, <1>5, <1>6 DEF t

LEMMA OwnShapes ==
    ASSUME NEW b, boxes[b].owned
    PROVE  /\ Shapes(b) # <<>> /\ Head(Shapes(b)) = "own"
           /\ Tail(Shapes(b)) # <<>> /\ Head(Tail(Shapes(b))) = "own"
<1> DEFINE p == <<"own", "own", "own part">>
           q == <<"page", "page part", "page", "marked">>
           S == {"own", "own part", "page", "page part", "marked"}
<1>1. Shapes(b) = p \o q
  BY DEF Shapes
<1>2. Shapes(b) \in Seq(S) /\ Len(Shapes(b)) = 7 /\ Shapes(b)[1] = "own" /\ Shapes(b)[2] = "own"
  <2>1. p \in Seq(S)
    OBVIOUS
  <2>2. q \in Seq(S)
    OBVIOUS
  <2>3. Len(p) = 3 /\ Len(q) = 4
    OBVIOUS
  <2>4. p[1] = "own" /\ p[2] = "own"
    OBVIOUS
  <2> HIDE DEF p, q, S
  <2>5. Len(p \o q) = 7 /\ p \o q \in Seq(S)
    <3>1. Len(p \o q) = Len(p) + Len(q)
      BY <2>1, <2>2
    <3>2. p \o q \in Seq(S)
      BY <2>1, <2>2
    <3>3. QED
      BY <2>3, <3>1, <3>2
  <2>6. 1 \in 1..(Len(p) + Len(q)) /\ 2 \in 1..(Len(p) + Len(q)) /\ 1 <= Len(p) /\ 2 <= Len(p)
    BY <2>3
  <2>7. (p \o q)[1] = p[1]
    BY <2>1, <2>2, <2>6
  <2>8. (p \o q)[2] = p[2]
    BY <2>1, <2>2, <2>6
  <2>9. QED
    BY <1>1, <2>4, <2>5, <2>7, <2>8
<1> HIDE DEF S
<1>3. Shapes(b) \in Seq(S) /\ Len(Shapes(b)) > 1
  BY <1>2
<1>4. QED
  BY <1>2, <1>3, SecondOf

\* The row of the dropdown itself is what its own shape finds.
LEMMA OwnRowFound ==
    ASSUME here \in popups, want \in boxes[here].offers, want \in Option
    PROVE  Found("own") # {} /\ \A r \in Found("own") : r[1] = here /\ r[2] = want
<1>1. want \in Holds[want]
  BY OptionAssumption
<1>2. <<here, want>> \in Rows
  BY <1>1 DEF Rows
<1>3. Found("own") = {r \in {q \in Rows : q[2] = want} : r[1] = here}
  BY DEF Found
<1>4. <<here, want>> \in Found("own")
  BY <1>2, <1>3
<1>5. QED
  BY <1>3, <1>4

\* The task of a call stays, and its values unless its trigger opened a panel.
LEMMA SelectingSame ==
    ASSUME BoxesFit, IsSel(sel), Placed(sel, focus, popups), Selecting
    PROVE  /\ SameTask(sel, sel') /\ (sel.slipped => sel'.slipped) /\ sel.pc # "idle"
           /\ SameCall(sel, sel') \/ (OpenTrigger /\ sel'.pc = "panel" /\ boxes[sel.trigger.box].kind = "panel")
<1> DEFINE b == sel.trigger.box
<1>0. sel.pc # "idle"
  BY DEF Selecting, SelectNative, OpenTrigger, TickItem, ClosePanel, StartPick, TryCandidate, ClickOption, EnterOrLeave,
         NoneTook, Undo, EndPick
<1>1. b \in DOMAIN boxes
  BY <1>0 DEF Placed
<1>2. CASE SelectNative
  BY <1>0, <1>2, NativeStep DEF SamePlace, SameCall
<1>3. CASE OpenTrigger
  BY <1>0, <1>3, OpenStep DEF SamePlace
<1>4. CASE TickItem \/ ClosePanel
  <2>1. sel.pc = "panel"
    BY <1>4 DEF TickItem, ClosePanel
  <2>2. QED
    BY <1>0, <1>1, <1>4, <2>1, TickStep, CloseStep DEF SamePlace, SameCall, Placed, OpensPanel
<1>5. CASE StartPick \/ TryCandidate \/ EnterOrLeave
  BY <1>0, <1>1, <1>5, PickStep, TryStep, EnterStep DEF SameCall
<1>6. CASE NoneTook \/ Undo \/ EndPick
  BY <1>0, <1>6, NoneStep, UndoStep, EndStep DEF SameCall
<1>7. CASE ClickOption
  BY <1>0, <1>7, ClickStep DEF SameCall
<1>8. QED
  BY <1>2, <1>3, <1>4, <1>5, <1>6, <1>7 DEF Selecting

LEMMA SelectingOwns ==
    ASSUME BoxesFit, IsSel(sel), popups \subseteq DOMAIN boxes, Placed(sel, focus, popups),
           OwnCase(sel) => Own(sel, chosen, focus, popups), OwnCase(sel'), Selecting
    PROVE  Own(sel', chosen', focus', popups')
<1> DEFINE b == sel.trigger.box
           h == sel.cands[sel.at].box
<1>1. SameCall(sel, sel') /\ (sel.slipped => sel'.slipped) /\ sel.pc # "idle"
  BY SelectingSame DEF OwnCase, SameTask
<1>2. /\ boxes[b].kind = "list" /\ boxes[b].owned /\ boxes[b].opens /\ boxes[b].ant /\ ~sel.slipped /\ ~sel'.slipped
      /\ Range(sel.wants) \subseteq boxes[b].offers
  BY <1>1 DEF OwnCase, SameCall, SameTask
<1>3. Own(sel, chosen, focus, popups)
  BY <1>2 DEF OwnCase
<1>4. b \in DOMAIN boxes
  BY <1>1 DEF Placed
<1> DEFINE Others(ch) == \A c \in DOMAIN boxes \ {b, sel.from} : ch[c] = sel.first[c]
           Rest(ch) == \A c \in DOMAIN boxes \ {b} : ch[c] = sel.before[c]
<1>5. Others(chosen)
  BY <1>3 DEF Own
<1>6. ~SelectNative /\ ~TickItem /\ ~ClosePanel
  <2>1. ~SelectNative
    BY <1>2, NativeStep
  <2>2. sel.pc # "panel"
    BY <1>2 DEF Placed, OpensPanel
  <2>3. QED
    BY <2>1, <2>2 DEF TickItem, ClosePanel
<1>7. CASE OpenTrigger
  <2>1. /\ sel.pc = "open" /\ focus' = b /\ chosen' \in Blurred(b, 0) /\ sel'.pc = "pick"
    BY <1>2, <1>7, OpenStep
  <2>2. focus = sel.from
    BY <1>3, <2>1 DEF Own
  <2>3. \A c \in DOMAIN boxes : c # focus => chosen'[c] = chosen[c]
    BY <2>1, BlurKeeps
  <2>4. Others(chosen')
    BY <1>5, <2>2, <2>3
  <2>5. QED
    BY <1>1, <2>1, <2>4 DEF Own, SameCall, SameTask
<1>8. CASE StartPick
  <2>1. sel.pc = "pick" /\ sel'.pc = "try" /\ sel'.at = 1 /\ sel'.before = chosen /\ UNCHANGED <<chosen, focus>>
    BY <1>4, <1>8, PickStep
  <2>2. focus = b
    BY <1>3, <2>1 DEF Own
  <2>3. QED
    BY <1>1, <1>5, <2>1, <2>2 DEF Own, SameCall, SameTask
<1>9. CASE TryCandidate
  <2>1. sel.pc = "try"
    BY <1>9, TryStep
  <2>2. sel.at = 1 /\ focus = b /\ Rest(chosen) /\ CandsFit(sel)
    BY <1>3, <2>1 DEF Own, Placed
  <2>3. h = b
    BY <2>2 DEF CandsFit
  <2>4. /\ SameValue(sel, sel')
        /\ \/ sel.opened /\ UNCHANGED <<chosen, popups, focus>>
           \/ focus' = b /\ chosen' \in Blurred(b, 0) /\ popups' = Opened(b)
        /\ sel'.pc = "click" /\ sel'.at = sel.at /\ sel'.tries = Shapes(b)
    <3> HIDE DEF b, h
    <3>1. QED
      BY <1>2, <1>9, <2>3, TryStep DEF h
  <2>5. chosen' = chosen /\ focus' = b /\ b \in popups'
    <3>1. CASE sel.opened /\ UNCHANGED <<chosen, popups, focus>>
      BY <1>2, <2>1, <2>2, <3>1 DEF Placed, OpensPanel
    <3>2. CASE focus' = b /\ chosen' \in Blurred(b, 0) /\ popups' = Opened(b)
      BY <1>4, <2>2, <3>2, BlurKeeps, OpenedPops
    <3>3. QED
      BY <2>4, <3>1, <3>2
  <2>6. QED
    BY <1>1, <1>5, <2>2, <2>4, <2>5 DEF Own, SameCall, SameTask, SameValue
<1>10. CASE ClickOption
  <2>1. sel.pc = "click"
    BY <1>10, ClickStep
  <2>2. /\ sel.at = 1 /\ focus = b /\ Rest(chosen) /\ CandsFit(sel) /\ b \in popups
        /\ \/ sel.tries = Shapes(b)
           \/ sel.tries = Tail(Shapes(b)) /\ boxes[b].multi /\ Head(sel.left) \notin chosen[b]
        /\ sel.left # <<>> /\ sel.left \in Seq(Option) /\ Range(sel.left) \subseteq Range(sel.wants)
    BY <1>3, <2>1 DEF Own, Placed
  <2>3. h = b /\ here = b
    BY <2>2 DEF CandsFit, here
  <2> DEFINE w == Head(sel.left)
  <2>4. w \in boxes[b].offers /\ w \in Option /\ want = w
    <3>1. w \in Range(sel.left)
      BY <2>2, RangeOfRest
    <3>2. w \in Option
      BY <2>2
    <3>3. QED
      BY <1>2, <2>2, <3>1, <3>2 DEF want
  <2>5. Head(sel.tries) = "own"
    BY <1>2, <2>2, OwnShapes
  <2>6. Found("own") # {} /\ \A r \in Found("own") : r[1] = b /\ r[2] = w
    BY <2>2, <2>3, <2>4, OwnRowFound
  <2>7. /\ focus' = focus /\ SameValue(sel, sel')
        /\ \E r \in Found(Head(sel.tries)), takes \in BOOLEAN :
                    /\ chosen' = IF takes THEN Toggled(r[1], r[2]) ELSE chosen
                    /\ popups' = IF takes /\ ~Many(r[1]) THEN Closed(r[1]) ELSE popups
                    /\ \/ sel'.pc = "undo" /\ sel'.picked = sel.at
                       \/ /\ ~Accepts(h, Head(sel.left), chosen', popups')
                          /\ sel'.pc = "click" /\ sel'.at = sel.at /\ sel'.tries = Tail(sel.tries)
                          /\ sel'.slipped = (sel.slipped \/ ~takes)
    BY <1>10, <2>5, <2>6, ClickStep
  <2>8. PICK takes \in BOOLEAN :
                    /\ chosen' = IF takes THEN Toggled(b, w) ELSE chosen
                    /\ popups' = IF takes /\ ~Many(b) THEN Closed(b) ELSE popups
                    /\ \/ sel'.pc = "undo" /\ sel'.picked = 1
                       \/ /\ ~Accepts(b, w, chosen', popups')
                          /\ sel'.pc = "click" /\ sel'.at = 1 /\ sel'.tries = Tail(sel.tries)
                          /\ sel'.slipped = (sel.slipped \/ ~takes)
    BY <2>2, <2>3, <2>5, <2>6, <2>7
  <2>9. Others(chosen') /\ Rest(chosen')
    <3>1. \A c \in DOMAIN boxes : c # b => chosen'[c] = chosen[c]
      BY <2>8, ToggleKeeps
    <3>2. QED
      BY <1>5, <2>2, <3>1
  <2>10. CASE sel'.pc = "undo" /\ sel'.picked = 1
    BY <1>1, <2>2, <2>7, <2>9, <2>10 DEF Own, SameCall, SameTask, SameValue
  <2>11. CASE ~Accepts(b, w, chosen', popups') /\ sel'.pc = "click" /\ sel'.at = 1 /\ sel'.tries = Tail(sel.tries)
              /\ sel'.slipped = (sel.slipped \/ ~takes)
    <3>1. takes /\ chosen' = Toggled(b, w)
      BY <1>2, <2>8, <2>11
    <3>2. ~Committed(w, chosen'[b])
      BY <1>2, <2>11 DEF Accepts
    <3>3. w \notin chosen'[b]
      BY <2>4, <3>2, OptionAssumption DEF Committed
    <3>4. chosen'[b] = IF ~boxes[b].multi THEN {w} ELSE IF w \in chosen[b] THEN chosen[b] \ {w} ELSE chosen[b] \union {w}
      <4>1. b \in DOMAIN chosen
        BY <1>4 DEF BoxesFit
      <4>2. QED
        BY <1>2, <3>1, <4>1 DEF Toggled, Toggle, Many, Confirms
    <3>5. boxes[b].multi /\ w \in chosen[b]
      BY <3>3, <3>4
    <3>6. sel.tries = Shapes(b) /\ popups' = popups
      BY <2>2, <2>8, <3>5 DEF Many
    <3>7. QED
      BY <1>1, <2>2, <2>7, <2>9, <2>11, <3>3, <3>5, <3>6 DEF Own, SameCall, SameTask, SameValue
  <2>12. QED
    BY <2>8, <2>10, <2>11
<1>11. ~EnterOrLeave
  <2>1. SUFFICES ASSUME EnterOrLeave PROVE FALSE
    OBVIOUS
  <2>2. sel.pc = "click" /\ sel.tries = <<>>
    BY <2>1, EnterStep
  <2>3. sel.tries = Shapes(b) \/ sel.tries = Tail(Shapes(b))
    BY <1>3, <2>2 DEF Own
  <2>4. QED
    BY <1>2, <2>2, <2>3, OwnShapes
<1>12. ~NoneTook
  <2>1. SUFFICES ASSUME NoneTook PROVE FALSE
    OBVIOUS
  <2>2. sel.pc = "try" /\ sel.at > Len(sel.cands)
    BY <2>1, NoneStep
  <2>3. sel.at = 1 /\ CandsFit(sel)
    BY <1>3, <2>2 DEF Own, Placed
  <2>4. QED
    BY <2>2, <2>3 DEF CandsFit
<1>13. CASE Undo
  <2>1. /\ sel.pc = "undo" /\ sel.at <= Len(sel.cands) /\ SameValue(sel, sel')
        /\ sel'.pc = "undo" /\ sel'.picked = sel.picked
        /\ Undoable(sel.at) \/ UNCHANGED <<chosen, focus>>
    BY <1>13, UndoStep
  <2>2. sel.picked = 1 /\ focus = b /\ Rest(chosen) /\ CandsFit(sel) /\ sel.at \in Nat \ {0}
    BY <1>3, <2>1 DEF Own, Placed
  <2>3. ~Undoable(sel.at)
    <3>1. CASE sel.at = 1
      BY <2>2, <3>1 DEF Undoable
    <3>2. CASE sel.at # 1
      <4>1. 1 \in DOMAIN sel.cands /\ sel.at \in DOMAIN sel.cands /\ sel.cands[1].box = b
        BY <2>1, <2>2 DEF CandsFit
      <4>2. h # b /\ h \in DOMAIN boxes
        BY <2>2, <3>2, <4>1 DEF CandsFit
      <4>3. chosen[h] = sel.before[h]
        BY <2>2, <4>2
      <4>4. QED
        BY <4>3 DEF Undoable, News
    <3>3. QED
      BY <3>1, <3>2
  <2>4. QED
    BY <1>1, <1>5, <2>1, <2>2, <2>3 DEF Own, SameCall, SameTask, SameValue
<1>14. CASE EndPick
  <2>1. sel.pc = "undo" /\ UNCHANGED <<chosen, focus>> /\ sel'.pc \in {"pick", "done"}
    BY <1>14, EndStep
  <2>2. focus = b
    BY <1>3, <2>1 DEF Own
  <2>3. QED
    BY <1>1, <1>5, <2>1, <2>2 DEF Own, SameCall, SameTask
<1>15. QED
  BY <1>6, <1>7, <1>8, <1>9, <1>10, <1>11, <1>12, <1>13, <1>14 DEF Selecting

\* A value shows when one of the selections shows it.
LEMMA CommittedOne ==
    ASSUME NEW v, NEW S
    PROVE  Committed(v, S) <=> \E t \in S : Committed(v, {t})
  BY DEF Committed

LEMMA CommittedItself ==
    ASSUME NEW v \in Option, NEW S, v \in S
    PROVE  Committed(v, S)
  BY OptionAssumption DEF Committed

LEMMA RangeOfOne ==
    ASSUME NEW S, NEW s \in Seq(S), Len(s) <= 1, s # <<>>
    PROVE  Range(s) = {Head(s)}
<1>1. Len(s) \in Nat /\ DOMAIN s = 1..Len(s)
  OBVIOUS
<1>2. Len(s) # 0
  OBVIOUS
<1> DEFINE n == Len(s)
<1>3. n = 1
  <2>1. n \in Nat /\ n # 0 /\ n <= 1
    BY <1>1, <1>2
  <2> HIDE DEF n
  <2>2. QED
    BY <2>1
<1>4. DOMAIN s = {1}
  BY <1>1, <1>3
<1>5. Head(s) = s[1]
  OBVIOUS
<1>6. QED
  BY <1>4, <1>5 DEF Range

\* Only a multi-select is asked for several values.
LEMMA SeveralAreForWidgets ==
    ASSUME BoxesFit, NEW b \in DOMAIN boxes, Splits(b), Verifiable
    PROVE  b # Len(boxes) /\ boxes[b].multi /\ boxes[b].ant /\ boxes[b].search
  BY DEF BoxesFit, Splits, NoWidget, Verifiable

LEMMA SettledAlone ==
    ASSUME Placed(sel, focus, popups), sel.pc \in {"pick", "try", "click", "undo"}, NEW v \in Settled(sel)
    PROVE  /\ Splits(sel.trigger.box) /\ v # Head(sel.left)
           /\ sel.pc # "pick" => Len(sel.cands) = 1 /\ DOMAIN sel.cands = {1} /\ sel.cands[1] = sel.trigger
<1>1. /\ sel.left \in Seq(Option) /\ sel.left # <<>> /\ sel.wants \in Seq(Option) /\ sel.wants # <<>>
      /\ Range(sel.left) \subseteq Range(sel.wants)
      /\ Len(sel.wants) = 1 \/ Splits(sel.trigger.box)
      /\ sel.pc # "pick" => CandsFit(sel)
  BY DEF Placed
<1>2. v \in Range(sel.wants) /\ v \notin Range(sel.left)
  BY DEF Settled
<1>3. Head(sel.left) \in Range(sel.left)
  BY <1>1, RangeOfRest
<1>4. Len(sel.wants) # 1
  <2>1. SUFFICES ASSUME Len(sel.wants) = 1 PROVE FALSE
    OBVIOUS
  <2> DEFINE s == sel.wants
  <2>2. s \in Seq(Option) /\ s # <<>> /\ Len(s) <= 1
    BY <1>1, <2>1
  <2> HIDE DEF s
  <2>3. Range(s) = {Head(s)}
    BY <2>2, RangeOfOne
  <2>4. QED
    BY <1>1, <1>2, <1>3, <2>3 DEF s
<1>5. sel.pc # "pick" => Len(sel.cands) = 1 /\ DOMAIN sel.cands = {1} /\ sel.cands[1] = sel.trigger
  <2>1. CandsFit(sel) => Len(sel.cands) = 1 /\ DOMAIN sel.cands = 1..Len(sel.cands) /\ sel.cands[1] = sel.trigger
    BY <1>4 DEF CandsFit
  <2>2. 1..1 = {1}
    OBVIOUS
  <2>3. QED
    BY <1>1, <2>1, <2>2
<1>6. QED
  BY <1>1, <1>2, <1>3, <1>4, <1>5

\* A click for one value leaves the selections that show another.
LEMMA RowKeeps ==
    ASSUME BoxesFit, popups \subseteq DOMAIN boxes, Placed(sel, focus, popups), sel.pc = "click",
           Verifiable, Apart(sel), NEW v \in Settled(sel), NEW r \in Rows, NEW t \in chosen[sel.trigger.box],
           Committed(v, {t})
    PROVE  t \in Toggled(r[1], r[2])[sel.trigger.box]
<1> DEFINE b == sel.trigger.box
           w == Head(sel.left)
<1>1. /\ Splits(b) /\ v # w
      /\ DOMAIN sel.cands = {1} /\ sel.cands[1] = sel.trigger
  BY SettledAlone
<1>2. b \in DOMAIN boxes /\ sel.at \in DOMAIN sel.cands /\ sel.left \in Seq(Option) /\ sel.left # <<>>
      /\ Range(sel.left) \subseteq Range(sel.wants)
  BY DEF Placed
<1>3. here = b /\ want = w
  BY <1>1, <1>2 DEF here, want
<1>4. b # Len(boxes) /\ boxes[b].multi /\ boxes[b].search
  BY <1>1, <1>2, SeveralAreForWidgets
<1>5. CASE r[1] = b
  <2>1. r[2] \in boxes[b].offers /\ r[2] \in Holds[w]
    BY <1>3, <1>4, <1>5, RowsFit
  <2>2. v \in Range(sel.wants) /\ w \in Range(sel.wants)
    BY <1>2, RangeOfRest DEF Settled
  <2>3. ~Committed(v, {r[2]})
    BY <1>1, <2>1, <2>2 DEF Apart
  <2>4. t # r[2]
    BY <2>3
  <2>5. b \in DOMAIN chosen
    BY <1>2 DEF BoxesFit
  <2>6. Toggled(b, r[2])[b] \in {chosen[b], chosen[b] \ {r[2]}, chosen[b] \union {r[2]}}
    BY <1>4, <2>5 DEF Toggled, Toggle, Many
  <2>7. QED
    BY <1>5, <2>4, <2>6
<1>6. CASE r[1] # b
  BY <1>2, <1>6, ToggleKeeps
<1>7. QED
  BY <1>5, <1>6

\* What the widget clicked in shows after the click, if it is still to be seen to act.
LEMMA ClickShows ==
    ASSUME BoxesFit, NEW b \in DOMAIN boxes, b = here, b # Len(boxes), Verifiable,
           b \in popups \/ chosen[b] = sel.was,
           NEW r \in Rows, NEW takes \in BOOLEAN,
           chosen' = IF takes THEN Toggled(r[1], r[2]) ELSE chosen,
           popups' = IF takes /\ ~Many(r[1]) THEN Closed(r[1]) ELSE popups
    PROVE  Committed(want, chosen'[b]) \/ b \in popups' \/ chosen'[b] = sel.was
<1>1. CASE b \notin popups
  <2>1. r[1] # b
    BY <1>1, RowsFit
  <2>2. chosen'[b] = chosen[b]
    BY <2>1, ToggleKeeps
  <2>3. QED
    BY <1>1, <2>2
<1>2. CASE b \in popups /\ (r[1] # b \/ ~takes \/ Many(b))
  BY <1>2 DEF Closed
<1>3. CASE r[1] = b /\ takes /\ ~Many(b)
  <2>1. boxes[b].search
    BY DEF Verifiable
  <2>2. r[2] \in Holds[want]
    BY <1>3, <2>1, RowsFit
  <2>3. b \in DOMAIN chosen
    BY DEF BoxesFit
  <2>4. chosen'[b] = {r[2]}
    BY <1>3, <2>3 DEF Toggled, Toggle, Many, Confirms
  <2>5. QED
    BY <2>2, <2>4 DEF Committed
<1>4. QED
  BY <1>1, <1>2, <1>3

\* What was settled still shows when the selections that showed it are kept.
LEMMA SettledShows ==
    ASSUME NEW v, NEW S, NEW T, Committed(v, S), \A t \in S : Committed(v, {t}) => t \in T
    PROVE  Committed(v, T)
  BY CommittedOne

LEMMA SelectingTakes ==
    ASSUME BoxesFit, IsSel(sel), popups \subseteq DOMAIN boxes, Placed(sel, focus, popups), Verifiable,
           Apart(sel) => Took(sel, chosen, draft, popups), Apart(sel'), Selecting
    PROVE  Took(sel', chosen', draft', popups')
<1> DEFINE b == sel.trigger.box
           h == sel.cands[sel.at].box
           w == Head(sel.left)
           Keeps(x, ch) == \A v \in Settled(x) : Committed(v, x.before[b])
                                     /\ \A t \in x.before[b] : Committed(v, {t}) => t \in ch[b]
<1>0. sel.pc # "idle"
  BY DEF Selecting, SelectNative, OpenTrigger, TickItem, ClosePanel, StartPick, TryCandidate, ClickOption, EnterOrLeave,
         NoneTook, Undo, EndPick
<1>1. /\ b \in DOMAIN boxes /\ b \in DOMAIN chosen /\ DOMAIN boxes = DOMAIN chosen
      /\ sel.wants \in Seq(Option) /\ sel.wants # <<>>
      /\ sel.left \in Seq(Option) /\ Range(sel.left) \subseteq Range(sel.wants) /\ Len(sel.left) <= Len(sel.wants)
  BY <1>0 DEF Placed, BoxesFit
<1>2. \A v \in Range(sel.wants) : v \in Option
  BY <1>1 DEF Range
<1>6. CASE OpenTrigger
  <2>1. /\ sel.pc = "open" /\ sel'.missed = sel.missed
        /\ sel'.pc = "pick" => SameCall(sel, sel') /\ sel'.left = sel.left
        /\ sel'.pc = "panel" => sel'.wants = sel.items /\ sel'.left = sel.items
        /\ sel'.pc \in {"pick", "panel"}
    BY <1>6, OpenStep
  <2>2. sel.left = sel.wants
    BY <2>1 DEF Placed
  <2>3. Settled(sel') = {} /\ Range(sel'.wants) \subseteq Range(sel'.left)
    BY <2>1, <2>2 DEF Settled, SameCall
  <2>4. QED
    BY <2>1, <2>3 DEF Took
<1> SUFFICES ASSUME ~OpenTrigger PROVE Took(sel', chosen', draft', popups')
  BY <1>6
<1>17. SameCall(sel, sel') /\ Took(sel, chosen, draft, popups) /\ Apart(sel)
  <2>1. SameCall(sel, sel')
    BY SelectingSame
  <2>2. Apart(sel)
    BY <2>1 DEF Apart, SameCall, SameTask
  <2>3. QED
    BY <2>1, <2>2
<1>3. sel.pc \in {"try", "click", "undo"} => Keeps(sel, chosen) /\ CandsFit(sel) /\ sel.at \in Nat \ {0}
  BY <1>17 DEF Took, Placed
<1>4. SameCall(sel, sel') /\ SameValue(sel, sel') => Settled(sel') = Settled(sel)
  BY DEF SameCall, SameTask, SameValue, Settled
<1>5. CASE SelectNative
  <2>1. /\ sel.pc = "open" /\ boxes[b].kind = "native" /\ SameCall(sel, sel') /\ sel'.pc = "done"
        /\ sel'.result = "passed" => chosen' = [chosen EXCEPT ![b] = {w}]
    BY <1>5, NativeStep
  <2>2. Len(sel.wants) = 1 /\ sel.left = sel.wants
    BY <2>1 DEF Placed, Splits
  <2>3. Range(sel.wants) = {w}
    <3> DEFINE s == sel.wants
    <3>1. s \in Seq(Option) /\ s # <<>> /\ Len(s) <= 1
      BY <1>1, <2>2
    <3> HIDE DEF s
    <3>2. Range(s) = {Head(s)}
      BY <3>1, RangeOfOne
    <3>3. QED
      BY <2>2, <3>2 DEF s
  <2>4. sel'.result = "passed" => w \in chosen'[b]
    BY <1>1, <2>1
  <2>5. w \in Option
    BY <1>2, <2>3
  <2>6. sel'.result = "passed" => Committed(w, chosen'[b])
    BY <2>4, <2>5, CommittedItself
  <2>7. QED
    BY <1>1, <2>1, <2>3, <2>6 DEF Took, SameCall, SameTask
<1>7. CASE TickItem
  <2>0. sel.pc = "panel" /\ boxes[b].kind = "panel"
    BY <1>7 DEF TickItem, Placed, OpensPanel
  <2> DEFINE S == Ticks(b, chosen, draft)
             T == Ticks(b, chosen', draft')
  <2>1. /\ sel.left # <<>> /\ SameCall(sel, sel')
        /\ \/ sel'.pc = "done" /\ sel'.result = "failed"
           \/ /\ sel'.pc = "panel" /\ sel'.left = Tail(sel.left)
              /\ ~sel'.problem => ~sel.problem /\ T = S \union {w}
    BY <1>1, <1>7, <2>0, TickStep
  <2>2. Range(sel.left) = {w} \union Range(Tail(sel.left))
    BY <1>1, <2>1, RangeOfRest
  <2>3. ~sel.problem => Range(sel.wants) \subseteq S \union Range(sel.left)
    BY <1>17, <2>0 DEF Took
  <2>4. ~sel'.problem /\ sel'.pc = "panel" => Range(sel.wants) \subseteq T \union Range(Tail(sel.left))
    <3> HIDE DEF S, T
    <3>1. QED
      BY <2>1, <2>2, <2>3
  <2>5. CASE sel'.pc = "done" /\ sel'.result = "failed"
    BY <2>5 DEF Took
  <2>6. CASE sel'.pc = "panel" /\ sel'.left = Tail(sel.left)
    BY <2>1, <2>4, <2>6 DEF Took, SameCall, SameTask
  <2>7. QED
    BY <2>1, <2>5, <2>6
<1>8. CASE ClosePanel
  <2> DEFINE S == Ticks(b, chosen, draft)
  <2>0. sel.pc = "panel"
    BY <1>8 DEF ClosePanel
  <2>1. /\ sel.left = <<>> /\ SameCall(sel, sel') /\ sel'.pc = "done"
        /\ sel'.result = "passed" => ~sel.problem /\ chosen'[b] = S
    BY <1>1, <1>8, CloseStep
  <2>2. Range(sel.left) = {}
    BY <2>1 DEF Range
  <2>3. ~sel.problem => Range(sel.wants) \subseteq S
    BY <1>17, <2>0, <2>2 DEF Took
  <2>4. sel'.result = "passed" => Range(sel.wants) \subseteq chosen'[b]
    <3> HIDE DEF S
    <3>1. QED
      BY <2>1, <2>3
  <2>5. \A v \in Range(sel.wants) : sel'.result = "passed" => Committed(v, chosen'[b])
    BY <1>2, <2>4, CommittedItself
  <2>6. QED
    BY <1>1, <2>1, <2>5 DEF Took, SameCall, SameTask
<1>9. CASE StartPick
  <2>1. /\ sel.pc = "pick" /\ SameCall(sel, sel') /\ sel'.left = sel.left /\ sel'.missed = sel.missed
        /\ sel'.pc = "try" /\ sel'.before = chosen /\ chosen' = chosen
    BY <1>1, <1>9, PickStep
  <2>2. \A v \in Settled(sel) : Committed(v, chosen[b])
    BY <1>17, <2>1 DEF Took
  <2>3. Settled(sel') = Settled(sel)
    BY <2>1 DEF Settled, SameCall, SameTask
  <2>4. QED
    BY <2>1, <2>2, <2>3 DEF Took, SameCall, SameTask
<1>10. CASE TryCandidate
  <2>1. /\ sel.pc = "try" /\ sel.at <= Len(sel.cands) /\ SameCall(sel, sel') /\ SameValue(sel, sel')
        /\ \/ sel.opened /\ UNCHANGED <<chosen, popups, focus>> /\ sel'.pc = "click" /\ sel'.at = sel.at
           \/ chosen' \in Blurred(h, 0) /\ popups' = Opened(h) /\ sel'.pc = "click" /\ sel'.at = sel.at
           \/ chosen' = chosen /\ sel'.pc = "try"
        /\ sel'.pc = "click" => sel'.was = chosen'[h]
    BY <1>10, TryStep
  <2>2. h \in DOMAIN boxes /\ sel.cands[1] = sel.trigger
    BY <1>3, <2>1 DEF CandsFit
  <2>3. Keeps(sel', chosen')
    <3>1. SUFFICES ASSUME NEW v \in Settled(sel) PROVE chosen'[b] = chosen[b]
      BY <1>3, <1>4, <2>1 DEF SameValue
    <3>2. Len(sel.cands) = 1
      BY <2>1, SettledAlone
    <3>3. sel.at = 1
      BY <1>3, <2>1, <3>2
    <3>4. h = b
      BY <2>2, <3>3
    <3>5. \A ch \in Blurred(b, 0) : ch[b] = chosen[b]
      BY BlurFits
    <3>6. QED
      BY <2>1, <3>4, <3>5
  <2>4. sel'.pc = "click" => sel'.cands[sel'.at].box = h /\ chosen'[h] = sel'.was
    BY <2>1 DEF SameValue
  <2>5. QED
    BY <2>1, <2>3, <2>4 DEF Took, SameCall, SameTask
<1>11. CASE ClickOption
  <2>1. /\ sel.pc = "click" /\ SameCall(sel, sel') /\ SameValue(sel, sel')
        /\ \/ UNCHANGED <<chosen, popups>> /\ sel'.pc = "click" /\ sel'.at = sel.at /\ sel'.was = sel.was
           \/ \E r \in Found(Head(sel.tries)), takes \in BOOLEAN :
                    /\ chosen' = IF takes THEN Toggled(r[1], r[2]) ELSE chosen
                    /\ popups' = IF takes /\ ~Many(r[1]) THEN Closed(r[1]) ELSE popups
                    /\ \/ Accepts(h, w, chosen', popups') /\ sel'.pc = "undo" /\ sel'.picked = sel.at
                       \/ ~Accepts(h, w, chosen', popups') /\ sel'.pc = "click" /\ sel'.at = sel.at /\ sel'.was = sel.was
    BY <1>11, ClickStep
  <2>2. sel.at \in DOMAIN sel.cands /\ h \in DOMAIN boxes /\ sel.at # 0
    BY <1>3, <2>1 DEF CandsFit, Placed
  <2>3. h # Len(boxes) => h \in popups \/ chosen[h] = sel.was
    BY <1>17, <2>1 DEF Took
  <2>4. CASE UNCHANGED <<chosen, popups>> /\ sel'.pc = "click" /\ sel'.at = sel.at /\ sel'.was = sel.was
    <3>1. Keeps(sel', chosen')
      BY <1>3, <1>4, <2>1, <2>4 DEF SameValue
    <3>2. sel'.cands[sel'.at].box = h
      BY <2>1, <2>4 DEF SameValue
    <3>3. QED
      BY <2>1, <2>3, <2>4, <3>1, <3>2 DEF Took, SameCall, SameTask
  <2>5. CASE \E r \in Found(Head(sel.tries)), takes \in BOOLEAN :
                    /\ chosen' = IF takes THEN Toggled(r[1], r[2]) ELSE chosen
                    /\ popups' = IF takes /\ ~Many(r[1]) THEN Closed(r[1]) ELSE popups
                    /\ \/ Accepts(h, w, chosen', popups') /\ sel'.pc = "undo" /\ sel'.picked = sel.at
                       \/ ~Accepts(h, w, chosen', popups') /\ sel'.pc = "click" /\ sel'.at = sel.at /\ sel'.was = sel.was
    <3>1. PICK r \in Rows, takes \in BOOLEAN :
                    /\ chosen' = IF takes THEN Toggled(r[1], r[2]) ELSE chosen
                    /\ popups' = IF takes /\ ~Many(r[1]) THEN Closed(r[1]) ELSE popups
                    /\ \/ Accepts(h, w, chosen', popups') /\ sel'.pc = "undo" /\ sel'.picked = sel.at
                       \/ ~Accepts(h, w, chosen', popups') /\ sel'.pc = "click" /\ sel'.at = sel.at /\ sel'.was = sel.was
      BY <2>5, FoundAreRows
    <3>2. Keeps(sel', chosen')
      <4>1. SUFFICES ASSUME NEW v \in Settled(sel), NEW t \in chosen[b], Committed(v, {t})
                     PROVE  t \in chosen'[b]
        BY <1>3, <1>4, <2>1 DEF SameValue
      <4>2. t \in Toggled(r[1], r[2])[b]
        BY <1>17, <2>1, <4>1, RowKeeps
      <4>3. QED
        BY <3>1, <4>1, <4>2
    <3>3. h # Len(boxes) => Committed(w, chosen'[h]) \/ h \in popups' \/ chosen'[h] = sel.was
      <4>1. SUFFICES ASSUME h # Len(boxes) PROVE Committed(w, chosen'[h]) \/ h \in popups' \/ chosen'[h] = sel.was
        OBVIOUS
      <4>2. h = here /\ want = w
        BY DEF here, want
      <4>3. chosen' = (IF takes THEN Toggled(r[1], r[2]) ELSE chosen)
            /\ popups' = (IF takes /\ ~Many(r[1]) THEN Closed(r[1]) ELSE popups)
        BY <3>1
      <4>4. Committed(want, chosen'[here]) \/ here \in popups' \/ chosen'[here] = sel.was
        BY <2>2, <2>3, <4>1, <4>2, <4>3, ClickShows
      <4>5. QED
        BY <4>2, <4>4
    <3>4. CASE Accepts(h, w, chosen', popups') /\ sel'.pc = "undo" /\ sel'.picked = sel.at
      <4>1. PickedIn(sel') = h /\ sel'.left = sel.left
        BY <2>1, <2>2, <3>4 DEF PickedIn, SameValue
      <4>2. h # Len(boxes) => boxes[h].ant
        BY <2>2 DEF Verifiable
      <4>3. h # Len(boxes) => Committed(w, chosen'[h])
        BY <3>3, <3>4, <4>2 DEF Accepts
      <4>4. QED
        BY <2>1, <3>2, <3>4, <4>1, <4>3 DEF Took, SameCall, SameTask
    <3>5. CASE ~Accepts(h, w, chosen', popups') /\ sel'.pc = "click" /\ sel'.at = sel.at /\ sel'.was = sel.was
      <4>1. sel'.cands[sel'.at].box = h
        BY <2>1, <3>5 DEF SameValue
      <4>2. h # Len(boxes) => h \in popups' \/ chosen'[h] = sel'.was
        BY <3>3, <3>5 DEF Accepts
      <4>3. QED
        BY <2>1, <3>2, <3>5, <4>1, <4>2 DEF Took, SameCall, SameTask
    <3>6. QED
      BY <3>1, <3>4, <3>5
  <2>6. QED
    BY <2>1, <2>4, <2>5
<1>12. CASE EnterOrLeave
  <2>1. /\ sel.pc = "click" /\ SameCall(sel, sel') /\ SameValue(sel, sel')
        /\ chosen' = chosen \/ \E o : <<h, o>> \in Rows /\ chosen' = Toggled(h, o)
        /\ \/ Committed(w, chosen'[h]) /\ sel'.pc = "undo" /\ sel'.picked = sel.at
           \/ sel'.pc = "try"
    BY <1>12, EnterStep
  <2>2. sel.at # 0
    BY <1>3, <2>1
  <2>3. Keeps(sel', chosen')
    <3>1. SUFFICES ASSUME NEW v \in Settled(sel), NEW t \in chosen[b], Committed(v, {t})
                   PROVE  t \in chosen'[b]
      BY <1>3, <1>4, <2>1 DEF SameValue
    <3>2. ASSUME NEW o, <<h, o>> \in Rows PROVE t \in Toggled(h, o)[b]
      <4> DEFINE r == <<h, o>>
      <4>1. r \in Rows /\ r[1] = h /\ r[2] = o
        BY <3>2
      <4> HIDE DEF r
      <4>2. t \in Toggled(r[1], r[2])[b]
        BY <1>17, <2>1, <3>1, <4>1, RowKeeps
      <4>3. QED
        BY <4>1, <4>2
    <3>3. QED
      BY <2>1, <3>1, <3>2
  <2>4. CASE Committed(w, chosen'[h]) /\ sel'.pc = "undo" /\ sel'.picked = sel.at
    <3>1. PickedIn(sel') = h /\ sel'.left = sel.left
      BY <2>1, <2>2, <2>4 DEF PickedIn, SameValue
    <3>2. QED
      BY <2>1, <2>3, <2>4, <3>1 DEF Took, SameCall, SameTask
  <2>5. CASE sel'.pc = "try"
    BY <2>1, <2>3, <2>5 DEF Took, SameCall, SameTask
  <2>6. QED
    BY <2>1, <2>4, <2>5
<1>13. CASE NoneTook
  <2>1. /\ sel.pc = "try" /\ chosen' = chosen /\ SameCall(sel, sel') /\ SameValue(sel, sel')
        /\ sel'.pc = "undo" /\ sel'.picked = 0
    BY <1>13, NoneStep
  <2>2. Keeps(sel', chosen')
    BY <1>3, <1>4, <2>1 DEF SameValue
  <2>3. QED
    BY <2>1, <2>2 DEF Took, SameCall, SameTask
<1>14. CASE Undo
  <2>1. /\ sel.pc = "undo" /\ sel.at <= Len(sel.cands) /\ SameCall(sel, sel') /\ SameValue(sel, sel')
        /\ sel'.pc = "undo" /\ sel'.picked = sel.picked
        /\ \/ chosen' = chosen
           \/ /\ Undoable(sel.at)
              /\ \E after \in Blurred(h, PickedIn(sel)), stay \in SUBSET News(sel.at) :
                    chosen' = [after EXCEPT ![h] = (@ \intersect sel.before[h]) \union stay]
    BY <1>14, UndoStep
  <2>2. /\ sel.at \in DOMAIN sel.cands /\ h \in DOMAIN boxes /\ sel.cands[1] = sel.trigger
        /\ sel.picked \in {0} \union DOMAIN sel.cands /\ (sel.picked # 0 => focus \in {0, PickedIn(sel)})
    BY <1>3, <2>1 DEF CandsFit, Placed
  <2>3. PickedIn(sel') = PickedIn(sel) /\ sel'.left = sel.left
    BY <2>1 DEF PickedIn, SameValue
  <2>4. sel.picked # 0 /\ PickedIn(sel) # Len(boxes) => Committed(w, chosen[PickedIn(sel)])
    BY <1>17, <2>1 DEF Took
  <2>5. CASE chosen' = chosen
    <3>1. Keeps(sel', chosen')
      BY <1>3, <1>4, <2>1, <2>5 DEF SameValue
    <3>2. QED
      BY <2>1, <2>3, <2>4, <2>5, <3>1 DEF Took, SameCall, SameTask
  <2>6. CASE /\ Undoable(sel.at)
             /\ \E after \in Blurred(h, PickedIn(sel)), stay \in SUBSET News(sel.at) :
                   chosen' = [after EXCEPT ![h] = (@ \intersect sel.before[h]) \union stay]
    <3>1. PICK after \in Blurred(h, PickedIn(sel)), stay \in SUBSET News(sel.at) :
            chosen' = [after EXCEPT ![h] = (@ \intersect sel.before[h]) \union stay]
      BY <2>6
    <3>2. after[h] = chosen[h] /\ DOMAIN after = DOMAIN boxes
      BY BlurFits
    <3>3. focus \in {0, h, PickedIn(sel)} => after = chosen
      BY BlurKeeps
    <3>4. /\ chosen'[h] = (chosen[h] \intersect sel.before[h]) \union stay
          /\ \A c \in DOMAIN boxes : c # h => chosen'[c] = after[c]
      BY <2>2, <3>1, <3>2
    <3>5. Keeps(sel', chosen')
      <4>1. SUFFICES ASSUME NEW v \in Settled(sel), NEW t \in sel.before[b], t \in chosen[b]
                     PROVE  t \in chosen'[b]
        BY <1>3, <1>4, <2>1 DEF SameValue
      <4>2. DOMAIN sel.cands = {1}
        BY <2>1, SettledAlone
      <4>3. h = b
        BY <2>2, <4>2
      <4>4. QED
        BY <3>4, <4>1, <4>3
    <3>6. sel.picked # 0 => chosen'[PickedIn(sel)] = chosen[PickedIn(sel)]
      <4>1. SUFFICES ASSUME sel.picked # 0 PROVE chosen'[PickedIn(sel)] = chosen[PickedIn(sel)]
        OBVIOUS
      <4>2. after = chosen
        BY <2>2, <3>3, <4>1
      <4>3. sel.at # sel.picked
        BY <2>6 DEF Undoable
      <4>4. PickedIn(sel) # h /\ PickedIn(sel) \in DOMAIN boxes
        BY <1>3, <2>1, <2>2, <4>1, <4>3 DEF CandsFit, PickedIn
      <4>5. QED
        BY <3>4, <4>2, <4>4
    <3>7. QED
      BY <2>1, <2>3, <2>4, <3>5, <3>6 DEF Took, SameCall, SameTask
  <2>7. QED
    BY <2>1, <2>5, <2>6
<1>15. CASE EndPick
  <2>1. /\ sel.pc = "undo" /\ chosen' = chosen /\ SameCall(sel, sel')
        /\ sel'.cands = sel.cands /\ sel'.picked = sel.picked
        /\ sel'.missed = IF sel.picked = 0 THEN sel.missed \union {w} ELSE sel.missed
        /\ \/ Len(sel.left) > 1 /\ sel'.pc = "pick" /\ sel'.left = Tail(sel.left)
           \/ ~(Len(sel.left) > 1) /\ sel'.pc = "done"
    BY <1>15, EndStep
  <2>2. /\ sel.left # <<>> /\ (Len(sel.wants) = 1 \/ Splits(b)) /\ sel.picked \in {0} \union DOMAIN sel.cands
    BY <2>1 DEF Placed
  <2>3. Range(sel.left) = {w} \union Range(Tail(sel.left))
    BY <1>1, <2>2, RangeOfRest
  <2>4. \A v \in Settled(sel) : Committed(v, chosen[b])
    <3>1. TAKE v \in Settled(sel)
    <3>2. Committed(v, sel.before[b]) /\ \A t \in sel.before[b] : Committed(v, {t}) => t \in chosen[b]
      BY <1>3, <2>1
    <3> DEFINE S == sel.before[b]
               T == chosen[b]
    <3> HIDE DEF S, T
    <3>3. Committed(v, S) /\ \A t \in S : Committed(v, {t}) => t \in T
      BY <3>2 DEF S, T
    <3>4. Committed(v, T)
      BY <3>3, SettledShows
    <3>5. QED
      BY <3>4 DEF T
  <2>5. sel.picked # 0 /\ PickedIn(sel) # Len(boxes) => Committed(w, chosen[PickedIn(sel)])
    BY <1>17, <2>1 DEF Took
  <2>6. CASE Len(sel.left) > 1 /\ sel'.pc = "pick" /\ sel'.left = Tail(sel.left)
    <3>1. Len(sel.wants) # 1
      <4> DEFINE n == Len(sel.left)
                 m == Len(sel.wants)
      <4>1. n \in Nat /\ m \in Nat /\ n > 1 /\ n <= m
        BY <1>1, <2>6
      <4> HIDE DEF n, m
      <4>2. m # 1
        BY <4>1
      <4>3. QED
        BY <4>2 DEF m
    <3>2. Splits(b)
      BY <2>2, <3>1
    <3>3. b # Len(boxes)
      BY <1>1, <3>2, SeveralAreForWidgets
    <3>4. sel.picked # 0 => PickedIn(sel) = b
      <4>1. Len(sel.cands) = 1 /\ DOMAIN sel.cands = 1..Len(sel.cands) /\ sel.cands[1] = sel.trigger
        BY <1>3, <2>1, <3>1 DEF CandsFit
      <4>2. sel.picked # 0 => sel.picked = 1
        BY <2>2, <4>1
      <4>3. QED
        BY <4>1, <4>2 DEF PickedIn
    <3>5. \A v \in Settled(sel') : Committed(v, chosen[b])
      <4>1. TAKE v \in Settled(sel')
      <4>2. v \in Range(sel.wants) /\ v \notin Range(Tail(sel.left)) /\ v \notin sel'.missed
        BY <2>1, <2>6 DEF Settled, SameCall, SameTask
      <4>3. CASE v = w
        <5>1. sel.picked # 0
          BY <2>1, <4>2, <4>3
        <5>2. QED
          BY <2>5, <3>3, <3>4, <4>3, <5>1
      <4>4. CASE v # w
        <5>1. v \notin sel.missed
          BY <2>1, <4>2
        <5>2. v \in Settled(sel)
          BY <2>3, <4>2, <4>4, <5>1 DEF Settled
        <5>3. QED
          BY <2>4, <5>2
      <4>5. QED
        BY <4>3, <4>4
    <3>6. QED
      BY <2>1, <2>6, <3>5 DEF Took, SameCall, SameTask
  <2>7. CASE ~(Len(sel.left) > 1) /\ sel'.pc = "done"
    <3>1. Range(sel.left) = {w}
      <4> DEFINE s == sel.left
      <4>1. s \in Seq(Option) /\ s # <<>>
        BY <1>1, <2>2
      <4>2. Len(s) <= 1
        <5> DEFINE n == Len(s)
        <5>1. n \in Nat /\ ~(n > 1)
          BY <1>1, <2>7
        <5> HIDE DEF n
        <5>2. n <= 1
          BY <5>1
        <5>3. QED
          BY <5>2 DEF n
      <4> HIDE DEF s
      <4>3. Range(s) = {Head(s)}
        BY <4>1, <4>2, RangeOfOne
      <4>4. QED
        BY <4>3 DEF s
    <3>2. PickedIn(sel') = PickedIn(sel) /\ (sel.picked # 0 => PickedIn(sel) \in DOMAIN boxes)
      BY <1>3, <2>1, <2>2 DEF PickedIn, CandsFit
    <3>3. ASSUME sel.picked # 0 => PickedIn(sel) # Len(boxes), NEW v \in Range(sel.wants), v \notin sel'.missed
          PROVE  \E c \in DOMAIN boxes : Committed(v, chosen[c])
      <4>1. CASE v = w
        <5>1. sel.picked # 0
          BY <2>1, <3>3, <4>1
        <5>2. QED
          BY <2>5, <3>2, <3>3, <4>1, <5>1
      <4>2. CASE v # w
        <5>1. v \notin sel.missed
          BY <2>1, <3>3
        <5>2. v \in Settled(sel)
          BY <3>1, <3>3, <4>2, <5>1 DEF Settled
        <5>3. QED
          BY <1>1, <2>4, <5>2
      <4>3. QED
        BY <4>1, <4>2
    <3>4. QED
      BY <2>1, <2>7, <3>2, <3>3 DEF Took, SameCall, SameTask
  <2>8. QED
    BY <2>1, <2>6, <2>7
<1>16. QED
  BY <1>5, <1>7, <1>8, <1>9, <1>10, <1>11, <1>12, <1>13, <1>14, <1>15 DEF Selecting

LEMMA DropdownsPrimed ==
    ASSUME UNCHANGED boxes, Dropdowns(sel', chosen', draft', focus', popups')
    PROVE  (Dropdowns(sel, chosen, draft, focus, popups))'
<1>1. /\ Focusable(focus') /\ popups' \subseteq DOMAIN boxes /\ Placed(sel', focus', popups')
      /\ StayingOpens => Clean(sel', chosen', focus')
      /\ sel'.pc # "idle" /\ OwnCase(sel') => Own(sel', chosen', focus', popups')
      /\ sel'.pc # "idle" /\ Verifiable /\ Apart(sel') => Took(sel', chosen', draft', popups')
  BY DEF Dropdowns
<1>2. (Focusable(focus) /\ popups \subseteq DOMAIN boxes)'
  BY <1>1 DEF Focusable
<1>3. Placed(sel, focus, popups)'
  BY <1>1 DEF Placed, Splits, OpensPanel, PopsUp, CandsFit, OnBoxes, PickedIn
<1>4. (StayingOpens => Clean(sel, chosen, focus))'
  <2>1. StayingOpens' <=> StayingOpens
    BY DEF StayingOpens
  <2>2. Clean(sel', chosen', focus') => Clean(sel, chosen, focus)'
    BY DEF Clean, LastOpened, Tried
  <2>3. QED
    BY <1>1, <2>1, <2>2
<1>5. (sel.pc # "idle" /\ OwnCase(sel) => Own(sel, chosen, focus, popups))'
  <2>1. OwnCase(sel)' => OwnCase(sel')
    BY DEF OwnCase
  <2>2. Own(sel', chosen', focus', popups') => Own(sel, chosen, focus, popups)'
    BY DEF Own, Shapes
  <2>3. QED
    BY <1>1, <2>1, <2>2
<1>6. (sel.pc # "idle" /\ Verifiable /\ Apart(sel) => Took(sel, chosen, draft, popups))'
  <2>1. Verifiable' <=> Verifiable
    BY DEF Verifiable
  <2>2. Apart(sel)' => Apart(sel')
    BY DEF Apart, Committed
  <2>3. Took(sel', chosen', draft', popups') => Took(sel, chosen, draft, popups)'
    BY DEF Took, Ticks, Confirms, Settled, Committed, PickedIn
  <2>4. QED
    BY <1>1, <2>1, <2>2, <2>3
<1>7. QED
  BY <1>2, <1>3, <1>4, <1>5, <1>6 DEF Dropdowns

LEMMA DropsInitially == Init => Dropdowns(sel, chosen, draft, focus, popups)
<1>1. SUFFICES ASSUME Init PROVE Dropdowns(sel, chosen, draft, focus, popups)
  OBVIOUS
<1>2. sel = NoSelect /\ focus = 0 /\ popups \subseteq DOMAIN boxes
  BY <1>1 DEF Init
<1>3. sel.pc = "idle"
  BY <1>2 DEF NoSelect
<1>4. Placed(sel, focus, popups) /\ Focusable(focus)
  BY <1>2, <1>3 DEF Placed, Focusable
<1>5. Clean(sel, chosen, focus)
  BY <1>3 DEF Clean
<1>6. QED
  BY <1>2, <1>3, <1>4, <1>5 DEF Dropdowns

LEMMA StartDrops ==
    ASSUME PageFits, BoxesFit, Dropdowns(sel, chosen, draft, focus, popups), StartSelecting
    PROVE  UNCHANGED boxes /\ Dropdowns(sel', chosen', draft', focus', popups')
<1> DEFINE b == BoxOf(Min(Matched))
           v == Values(call.step, b)
           u == Items(call.step, b)
<1>1. UNCHANGED <<boxes, chosen, draft, popups, focus>>
  BY DEF StartSelecting, boxVars
<1>2. sel' = StartSelect(Candidate(b, call.ref.by = "name"), v, u)
  BY DEF StartSelecting
<1>3. b \in DOMAIN boxes
  BY BoxOfFits
<1>4. /\ v \in Seq(Option) /\ v # <<>>
      /\ Len(v) = 1 \/ Splits(b)
      /\ u \in Seq(Option) /\ u # <<>>
  <2> DEFINE s == call.step
             one == <<s.whole>>
  <2>1. s.value \in Seq(Option) /\ s.whole \in Option
    BY DEF PageFits, Step
  <2>2. one \in Seq(Option) /\ one # <<>> /\ Len(one) = 1
    BY <2>1
  <2>3. v = one \/ (v = s.value /\ v # <<>> /\ Splits(b))
    BY DEF Values, Parts, Splits
  <2>4. u = one \/ (u = s.value /\ u # <<>>)
    BY DEF Items, Parts
  <2> HIDE DEF v, u, one, s
  <2>5. QED
    BY <2>1, <2>2, <2>3, <2>4
<1> HIDE DEF b, v, u
<1>5. /\ sel'.pc = "open" /\ sel'.trigger.box = b /\ sel'.wants = v /\ sel'.left = v /\ sel'.items = u
      /\ sel'.first = chosen /\ sel'.from = focus /\ ~sel'.opened /\ sel'.cands = <<>>
  <2>1. sel' = [NoSelect EXCEPT !.pc = "open", !.trigger = [box |-> b, inner |-> call.ref.by = "name"], !.wants = v,
                   !.left = v, !.items = u, !.first = chosen, !.from = focus]
    BY <1>2 DEF StartSelect, Candidate
  <2>2. QED
    BY <2>1 DEF NoSelect
<1>6. Placed(sel', focus', popups')
  <2>1. Len(v) <= Len(v)
    BY <1>4
  <2>2. QED
    BY <1>3, <1>4, <1>5, <2>1 DEF Placed
<1>7. Clean(sel', chosen', focus')
  BY <1>5 DEF Clean
<1>8. Own(sel', chosen', focus', popups')
  BY <1>1, <1>5 DEF Own
<1>9. Took(sel', chosen', draft', popups')
  BY <1>5 DEF Took
<1>10. QED
  BY <1>1, <1>6, <1>7, <1>8, <1>9 DEF Dropdowns

LEMMA SelectingDrops ==
    ASSUME BoxesFit, IsSel(sel), Dropdowns(sel, chosen, draft, focus, popups), Selecting
    PROVE  Dropdowns(sel', chosen', draft', focus', popups')
<1>1. /\ Focusable(focus) /\ popups \subseteq DOMAIN boxes /\ Placed(sel, focus, popups)
      /\ StayingOpens => Clean(sel, chosen, focus)
      /\ sel.pc # "idle" /\ OwnCase(sel) => Own(sel, chosen, focus, popups)
      /\ sel.pc # "idle" /\ Verifiable /\ Apart(sel) => Took(sel, chosen, draft, popups)
  BY DEF Dropdowns
<1>2. sel.pc # "idle"
  BY <1>1, SelectingSame
<1>3. Focusable(focus') /\ popups' \subseteq DOMAIN boxes /\ Placed(sel', focus', popups')
  BY <1>1, SelectingPlaces
<1>4. StayingOpens => Clean(sel', chosen', focus')
  BY <1>1, SelectingCleans
<1>5. OwnCase(sel') => Own(sel', chosen', focus', popups')
  BY <1>1, <1>2, SelectingOwns
<1>6. Verifiable /\ Apart(sel') => Took(sel', chosen', draft', popups')
  BY <1>1, <1>2, SelectingTakes
<1>7. QED
  BY <1>3, <1>4, <1>5, <1>6 DEF Dropdowns

LEMMA StepsDrop ==
    ASSUME TickInv, Dropdowns(sel, chosen, draft, focus, popups), [Next]_vars
    PROVE  (Dropdowns(sel, chosen, draft, focus, popups))'
<1>1. PageFits /\ BoxesFit /\ Ticked(sel, chosen, draft) /\ IsSel(sel)
  BY DEF TickInv, WInv, Ticked
<1>2. CASE UNCHANGED <<boxes, chosen, draft, popups, focus, sel>>
  <2>1. Dropdowns(sel', chosen', draft', focus', popups')
    BY <1>2
  <2>2. QED
    BY <1>2, <2>1, DropdownsPrimed
<1>3. CASE StartSelecting
  BY <1>1, <1>3, StartDrops, DropdownsPrimed
<1>4. CASE Select
  <2>1. Selecting
    BY <1>4 DEF Select
  <2>2. UNCHANGED boxes
    BY <1>1, <2>1, SelectingTicks
  <2>3. QED
    BY <1>1, <2>1, <2>2, SelectingDrops, DropdownsPrimed
<1>5. CASE NextStep
  <2>1. UNCHANGED <<boxes, chosen, draft, popups, focus>> /\ sel' = NoSelect
    BY <1>5 DEF NextStep, boxVars
  <2>2. sel'.pc = "idle"
    BY <2>1 DEF NoSelect
  <2>3. Placed(sel', focus', popups') /\ Clean(sel', chosen', focus')
    BY <2>2 DEF Placed, Clean
  <2>4. Focusable(focus') /\ popups' \subseteq DOMAIN boxes
    BY <2>1 DEF Dropdowns
  <2>5. Dropdowns(sel', chosen', draft', focus', popups')
    BY <2>2, <2>3, <2>4 DEF Dropdowns
  <2>6. QED
    BY <2>1, <2>5, DropdownsPrimed
<1>6. QED
  BY <1>2, <1>3, <1>4, <1>5 DEF Next, Script, Resolve, Ground, FallBack, CannotAct, DoAction, EndSelecting,
         Recover, Rerender, DialogFlips, ControlFlips, vars, boxVars

LEMMA DropsInvariant == Spec => []DropInv
<1>1. Init => DropInv
  BY StepsInitially, TicksInitially, DropsInitially DEF TickInv, DropInv
<1>2. DropInv /\ [Next]_vars => DropInv'
  BY StepsAim, StepsTick, StepsDrop DEF TickInv, DropInv
<1>3. QED
  BY <1>1, <1>2, PTL DEF Spec

\* Whatever dropdowns a page has and whichever of them select on their own when they
\* lose the focus: trying them leaves no selection behind that was not there before,
\* and a value that the dropdown of the step offers goes to it alone.
THEOREM ProbingLeavesOthersAlone == Spec => []OthersUntouched
<1>1. DropInv => OthersUntouched
  <2>1. SUFFICES ASSUME DropInv PROVE OthersUntouched
    OBVIOUS
  <2>2. Dropdowns(sel, chosen, draft, focus, popups)
    BY <2>1 DEF DropInv
  <2>3. ProbingLeavesNothing
    <3>1. sel.pc = "done" /\ StayingOpens => Clean(sel, chosen, focus)
      BY <2>2 DEF Dropdowns
    <3>2. QED
      BY <3>1 DEF ProbingLeavesNothing, Clean, Tried
  <2>4. NamesakesUntouched
    <3>1. sel.pc # "idle" /\ OwnCase(sel) => Own(sel, chosen, focus, popups)
      BY <2>2 DEF Dropdowns
    <3>2. QED
      BY <3>1 DEF NamesakesUntouched, Selected, OwnCase, Own, Trigger
  <2>5. QED
    BY <2>3, <2>4 DEF OthersUntouched
<1>2. QED
  BY <1>1, DropsInvariant, PTL

\* However many values a step has, in whichever widget and way they were taken and
\* whatever was undone after it, a passed selection shows those not reported missed.
THEOREM PassedSelectionsShow == Spec => []PassedMeansSelected
<1>1. DropInv => PassedMeansSelected
  <2>1. SUFFICES ASSUME DropInv, Selected, Verifiable, TakenByWidget, ValuesApart,
                        NEW v \in Range(sel.wants) \ sel.missed
                 PROVE  \E b \in DOMAIN boxes : Committed(v, chosen[b])
    BY DEF PassedMeansSelected
  <2>2. sel.pc = "done" /\ sel.result = "passed"
    BY <2>1 DEF Selected
  <2>3. Apart(sel)
    BY <2>1 DEF ValuesApart, Apart, Trigger
  <2>4. Took(sel, chosen, draft, popups)
    BY <2>1, <2>2, <2>3 DEF DropInv, Dropdowns
  <2>5. PickedBox = PickedIn(sel)
    BY DEF PickedBox, PickedIn
  <2>6. QED
    BY <2>1, <2>2, <2>4, <2>5 DEF Took, TakenByWidget
<1>2. QED
  BY <1>1, DropsInvariant, PTL
=============================================================================
