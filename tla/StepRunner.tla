----------------------------- MODULE StepRunner -----------------------------
(***************************************************************************)
(* act() and recover() (core/sdk.py) for one click step on the web: take a *)
(* snapshot of the page, ground the step, execute, heal, record the target *)
(* under the snapshot's signature.  The page may change under a call       *)
(* whenever it awaits, and elements may stop answering.                    *)
(*                                                                         *)
(* No model is configured, so grounding is Tiers' Offline.  What the DOM   *)
(* helpers of act() find on the live page is left open.  One call at a     *)
(* time: a test has one page and awaits each step.  Dates and counts of    *)
(* the recorded rows are MemoryLayer's matter.                             *)
(***************************************************************************)
EXTENDS Tiers

CONSTANTS
    Page,         \* what the page may look like
    Step,         \* the step
    Drift,        \* [Label -> {"none", "info", "review"}]: the advisory for a fuzzy match
    Outage,       \* sets of refs that may stop answering together
    Selector,     \* the failed_selector of recover()
    Safety,       \* the fallback_selector of act()
    NoRef,
    Retries,      \* resolve_retries
    Suites        \* test suites: the pages their application shows, and whether they call recover()

ASSUME StepRunnerAssumption ==
    /\ Page \subseteq Seq(Element)
    /\ Drift \in [Label -> {"none", "info", "review"}]
    /\ Outage \subseteq SUBSET Ref
    /\ Step \in Intent /\ (Step.selector # NoName => Step.selector[1] = "css")
    /\ \A ref \in {Selector, Safety} : ref \in Ref /\ ref[1] = "css"
    /\ NoRef \notin Ref
    /\ Retries \in Nat
    /\ Suites \subseteq [pages : SUBSET Page, recovers : BOOLEAN]

VARIABLES
    suite,  \* the suite that runs
    live,   \* the page as it is
    dead,   \* the refs that do not answer
    rows,   \* memory.db: for each signature, the recorded target or NoMemo
    call    \* the call in progress, or the last one's result

vars == <<suite, live, dead, rows, call>>

\* fingerprint.py: a page's elements whatever their order.  A snapshot that fails
\* has the signature of an empty page.
Signature(page) ==
    LET elements == {page[i] : i \in DOMAIN page}
    IN  [e \in elements |-> Cardinality({i \in DOMAIN page : page[i] = e})]
NoPage     == <<>>
Signatures == {Signature(p) : p \in Page \union {NoPage}}

\* intent.context: the snapshot resolvers read, and the key of the memory row.
Context == [page : Page \union {NoPage}, sig : Signatures]
Shot(page) == [page |-> page, sig |-> Signature(page)]

\* _merge_context: an empty snapshot does not replace an earlier one, its
\* signature does.
\* (MergeKeepsSignature, a mistake: the page is refreshed, its key is not.)
MergeKeepsSignature(ctx, shot) ==
    [ctx EXCEPT !.page = IF shot.page = NoPage THEN @ ELSE shot.page]
Merge(ctx, shot) == [shot EXCEPT !.page = IF @ = NoPage THEN ctx.page ELSE @]

\* A target's metadata carries its healing note into the row and back.
Healing == {"none", "info", "review", "execution"}
Memo == [target : Candidate, healing : Healing]

RecordedAt(sig) == IF rows[sig] = NoMemo THEN NoMemo ELSE rows[sig].target

\* A call: its context and retries, the target it works with and the alternative
\* it tries instead, every ref it has executed, and how it ended.
NewCall(pc, shot, safety) ==
    [ pc |-> pc, ctx |-> shot, tries |-> 0, safety |-> safety,
      memo |-> NoMemo, alt |-> NoMemo, tried |-> {}, status |-> "none" ]

Init ==
    /\ suite \in Suites
    /\ live \in suite.pages
    /\ dead \in Outage
    /\ rows = [s \in Signatures |-> NoMemo]
    /\ call = NewCall("idle", Shot(NoPage), NoRef)

-----------------------------------------------------------------------------
\* A target of the SDK's own: it carries no signals.
Dom(ref, confidence, role, by) ==
    [ ref |-> ref, raw |-> confidence, role |-> role, named |-> FALSE,
      weighed |-> FALSE, signals |-> NoSignals, by |-> by ]
Fresh(target)  == [target |-> target, healing |-> "none"]
Pinned(ref)    == Fresh(Dom(ref, 9000, NoRole, "dom_pin"))
Clickable(ref) == Fresh(Dom(ref, 7500, "button", "clickable_dom"))
SafetyNet      == Fresh(Dom(call.safety, 5000, NoRole, "fallback_selector"))

\* A grounded target; a replayed one brings the note recorded with it.
Grounded(target) ==
    [ target  |-> target,
      healing |-> IF target.by = "memory_cache" THEN rows[call.ctx.sig].healing ELSE "none" ]

\* What the DOM helpers may find: an element of the live page by its name.
DomRefs ==
    {<<"css", live[i].label>> : i \in
        {i \in DOMAIN live : live[i].label # NoName /\ NameMatch[live[i].label] # "none"}}

\* What execute() answers for a ref.
Answers(ref) ==
    /\ ref \notin dead
    /\ ref[1] = "css" \/ Matched(live, ref) # {}

Goto(pc) == call' = [call EXCEPT !.pc = pc]
Execute(pc, m) == call' = [call EXCEPT !.pc = pc, !.memo = m]
Instead(pc, m) == call' = [call EXCEPT !.pc = pc, !.alt = m]
End(status, m, tried) ==
    call' = [call EXCEPT !.pc = "done", !.status = status, !.memo = m, !.alt = NoMemo,
                         !.tried = tried]
EndFailed(m, tried) == End("failed", m, tried)

\* Memory: the target that worked replaces whatever the row held.
Record(m) == rows' = [rows EXCEPT ![call.ctx.sig] = m]

\* _resolve_healing_advisory: a fresh fuzzy match, or a replayed one.
\* (AdviceOnlyFresh, a mistake: the replay of a substitution is not one.)
AdviceOnlyFresh(m) ==
    IF m.target.by = "fuzzy_text" THEN Drift[m.target.ref[2]] ELSE "none"
Advice(m) ==
    CASE m.target.by = "fuzzy_text"                                           -> Drift[m.target.ref[2]]
      [] m.target.by = "memory_cache" /\ m.healing \in {"info", "review"}     -> m.healing
      [] OTHER                                                                -> "none"
Advised(m) == IF Advice(m) = "none" THEN m ELSE [m EXCEPT !.healing = Advice(m)]

\* The end of act() once m has been executed.
Succeed(m, healed) ==
    /\ End(IF healed \/ Advice(m) = "review" THEN "recovered" ELSE "passed",
           Advised(m), call.tried \union {m.target.ref})
    /\ IF m.target.by = "fallback_selector"
         THEN UNCHANGED rows
         ELSE Record(Advised(m))

-----------------------------------------------------------------------------
Resting == call.pc \in {"idle", "done"}

Act ==
    /\ Resting
    /\ \E page \in {live, NoPage}, safety \in {Safety, NoRef} :
          call' = NewCall("pin", Shot(page), safety)
    /\ UNCHANGED <<suite, live, dead, rows>>

\* The DOM resolvers that go first pin a target, find the step already done, or
\* leave it to grounding.
PreResolve ==
    /\ call.pc = "pin"
    /\ \/ Goto("ground")
       \/ \E ref \in DomRefs :
             Execute("execute", Pinned(ref)) \/ End("passed", Pinned(ref), {})
    /\ UNCHANGED <<suite, live, dead, rows>>

\* _ground_with_wait
MayRetry(tries) == tries < Retries
Ground ==
    /\ call.pc = "ground"
    /\ LET outcome == Offline(call.ctx.page, Step, RecordedAt(call.ctx.sig)) IN
          \/ /\ outcome.kind = "resolved"
             /\ Execute("execute", Grounded(outcome.target))
          \/ /\ outcome.kind \in {"not_found", "low_confidence"}
             /\ MayRetry(call.tries)
             /\ call' = [call EXCEPT !.pc = "wait", !.tries = @ + 1]
          \/ /\ outcome.kind # "resolved"
             /\ outcome.kind = "ambiguous" \/ ~MayRetry(call.tries)
             /\ Goto("fallback")
    /\ UNCHANGED <<suite, live, dead, rows>>

Recollect ==
    /\ call.pc = "wait"
    /\ \E page \in {live, NoPage} :
          call' = [call EXCEPT !.pc = "ground", !.ctx = Merge(@, Shot(page))]
    /\ UNCHANGED <<suite, live, dead, rows>>

\* Grounding gave up: find_clickable, then the tester's selector.
FallBack ==
    /\ call.pc = "fallback"
    /\ \/ \E ref \in DomRefs : Execute("execute", Clickable(ref))
       \/ call.safety # NoRef /\ Execute("execute", SafetyNet)
       \/ call.safety = NoRef /\ EndFailed(NoMemo, call.tried)
    /\ UNCHANGED <<suite, live, dead, rows>>

ExecuteTarget ==
    /\ call.pc = "execute"
    /\ LET ref == call.memo.target.ref IN
          IF Answers(ref)
            THEN Succeed(call.memo, FALSE)
            ELSE /\ call' = [call EXCEPT !.pc = "heal", !.tried = @ \union {ref}]
                 /\ UNCHANGED rows
    /\ UNCHANGED <<suite, live, dead>>

\* _recover_failed_execution: another ref than the one that failed, if any.
Heal ==
    /\ call.pc = "heal"
    /\ \/ Goto("net")
       \/ \E ref \in DomRefs \ {call.memo.target.ref} : Instead("heal_execute", Clickable(ref))
    /\ UNCHANGED <<suite, live, dead, rows>>

HealExecute ==
    /\ call.pc = "heal_execute"
    /\ LET ref == call.alt.target.ref IN
          IF Answers(ref)
            THEN Succeed([call.alt EXCEPT !.healing = "execution"], TRUE)
            ELSE /\ call' = [call EXCEPT !.pc = "net", !.tried = @ \union {ref}]
                 /\ UNCHANGED rows
    /\ UNCHANGED <<suite, live, dead>>

\* The safety net under a failed execution.
\* (NetOnlyWhenUngrounded, a mistake: kept for grounding failures only.)
NetOnlyWhenUngrounded == FALSE
NetUsable == call.safety # NoRef /\ call.memo.target.by # "fallback_selector"
Net ==
    /\ call.pc = "net"
    /\ \/ NetUsable /\ Instead("net_execute", SafetyNet)
       \/ ~NetUsable /\ EndFailed(call.memo, call.tried)
    /\ UNCHANGED <<suite, live, dead, rows>>

NetExecute ==
    /\ call.pc = "net_execute"
    /\ LET ref == call.alt.target.ref IN
          IF Answers(ref)
            THEN Succeed(call.alt, FALSE)
            ELSE /\ EndFailed(call.memo, call.tried \union {ref})
                 /\ UNCHANGED rows
    /\ UNCHANGED <<suite, live, dead>>

-----------------------------------------------------------------------------
Recover ==
    /\ suite.recovers
    /\ Resting
    /\ \E page \in {live, NoPage} : call' = NewCall("recover_ground", Shot(page), NoRef)
    /\ UNCHANGED <<suite, live, dead, rows>>

\* recover() grounds twice, at most: with the failed selector, and without it.
GroundOnce(step, next) ==
    LET outcome == Offline(call.ctx.page, step, RecordedAt(call.ctx.sig)) IN
    \/ /\ outcome.kind = "resolved"
       /\ Execute(next, Grounded(outcome.target))
    \/ /\ outcome.kind # "resolved"
       /\ EndFailed(call.memo, call.tried)

RecoverGround ==
    /\ \/ call.pc = "recover_ground" /\ GroundOnce([Step EXCEPT !.selector = Selector], "recover_execute")
       \/ call.pc = "reground" /\ GroundOnce(Step, "recover_again")
    /\ UNCHANGED <<suite, live, dead, rows>>

UsedExplicit(m) == m.target.by = "explicit_selector" /\ m.target.ref = Selector

RecoverExecute ==
    /\ call.pc \in {"recover_execute", "recover_again"}
    /\ LET m     == call.memo
           tried == call.tried \union {m.target.ref}
       IN  \/ /\ Answers(m.target.ref)
              /\ End(IF UsedExplicit(m) THEN "passed" ELSE "recovered", m, tried)
              /\ Record(m)
           \/ /\ ~Answers(m.target.ref)
              /\ IF call.pc = "recover_execute"
                   THEN call' = [call EXCEPT !.pc = "reground", !.tried = tried]
                   ELSE EndFailed(m, tried)
              /\ UNCHANGED rows
    /\ UNCHANGED <<suite, live, dead>>

\* The application's own doing.
PageChanges ==
    /\ live' \in suite.pages
    /\ dead' \in Outage
    /\ UNCHANGED <<suite, rows, call>>

Working ==
    \/ PreResolve \/ Ground \/ Recollect \/ FallBack
    \/ ExecuteTarget \/ Heal \/ HealExecute \/ Net \/ NetExecute
    \/ RecoverGround \/ RecoverExecute

Next == Act \/ Recover \/ Working \/ PageChanges

Spec == Init /\ [][Next]_vars

-----------------------------------------------------------------------------
Ended == call.pc = "done"

\* README.md, "Self-healing is visible": a step that acted on an element whose
\* label shares no word with its own is not reported as plainly passed, neither
\* when the match was made nor any time its recorded target is replayed.  (recover()
\* records targets without their advisory: suites that call it are another matter.)
Foreign(label) == NameMatch[label] = "none" /\ Drift[label] = "review"
HealedStepsAreReported ==
    Ended /\ ~suite.recovers /\ call.status = "passed" /\ call.memo.target.ref[1] # "css"
      /\ call.memo.target.ref[2] \in Label
    => ~Foreign(call.memo.target.ref[2])

\* A row only holds a locator of the page it is filed under, although snapshots
\* fail, retries replace them, and the page changes before the target is recorded
\* (selectors are not visible in a snapshot).  Not so for a dropdown: the lifted
\* combobox without a name loses to its own replay, which scores less, so the step
\* fails on a page on which it passes without the row; when the retry's snapshot
\* fails too, the page found before is grounded without that row, and the combobox
\* recorded as one of the empty page.
RowsMatchTheirPage ==
    ~DropdownIntent(Step) =>
        \A page \in Page \union {NoPage} :
            LET m == rows[Signature(page)] IN
            m # NoMemo /\ m.target.ref[1] # "css" => Matched(page, m.target.ref) # {}

\* sdk.py: the fallback selector is a safety net "so one DOM change can't red-fail
\* a critical step": no act() given one fails without having tried it.
SafetyNetTried ==
    Ended /\ call.status = "failed" /\ call.safety # NoRef => call.safety \in call.tried

=============================================================================
