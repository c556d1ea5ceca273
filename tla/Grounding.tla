----------------------------- MODULE Grounding -----------------------------
(***************************************************************************)
(* GroundingEngine.ground (core/grounding/engine.py) with its resolvers,   *)
(* the LLM decision cache, the run's cost tracker and the recorded target  *)
(* of the step: calls for one step on one unchanging page, some of them in *)
(* flight together, over several runs of the suite.                        *)
(*                                                                         *)
(* A call only yields to another while it awaits a model, so a tier is one *)
(* step.  OCR, vision and embeddings are off, as they are by default.      *)
(***************************************************************************)
EXTENDS Tiers

CONSTANTS
    Call,          \* concurrent ground() calls
    Screen,        \* the pages considered, sequences of Element
    Intents,       \* the steps: [action, hint, dropdown, selector]
    Option,        \* [aiFirst, cost, provider, strict, strong]
    Stray,         \* a ref a model may name that is not on the page
    ModelConfidence, \* the confidences a model may give: 0.0 to 1.0, as it is asked for
    EscalateBelow, \* confidence under which the strong model is asked
    Budget,        \* per-run cost budget, 0 is none
    Price,         \* of one completion
    MaxRetries,    \* ai.max_retries: attempts after the first
    MaxSpent       \* bound: spend after which no model is asked, without a budget

ASSUME GroundingAssumption ==
    /\ IsFiniteSet(Call)
    /\ Budget \in Nat /\ Price \in Nat /\ EscalateBelow \in Bp /\ MaxRetries \in Nat
    /\ Screen \subseteq Seq(Element)
    /\ Stray \in Ref /\ ModelConfidence \subseteq Bp
    /\ Intents \subseteq Intent
    /\ \A st \in Intents : st.selector # NoName => st.selector[1] = "css"
    /\ Option \subseteq [aiFirst : BOOLEAN, cost : {"low", "medium", "high"},
                         provider : BOOLEAN, strict : BOOLEAN, strong : BOOLEAN]

VARIABLES
    screen, intent, opt,  \* what the calls are about: they never change
    recorded,         \* the recorded target of the step on this screen
    decided,          \* llm_cache: the model's targets for this screen and step
    spent,            \* CostTracker
    calls

engine == <<screen, intent, opt, recorded, decided, spent, calls>>
fixed == <<screen, intent, opt>>

\* A call: where it is, the tiers left, every candidate so far, what the fast
\* model found, the recorded target its Tier 1 has read, and its outcome.
IdleCall == [pc |-> "idle"]
CallOf(pc, tiers, all, seen) ==
    [pc |-> pc, tiers |-> tiers, all |-> all, fast |-> <<>>, seen |-> seen]
Done(outcome, seen) == [pc |-> "done", outcome |-> outcome, seen |-> seen]

TypeOK ==
    /\ screen \in Screen /\ intent \in Intents /\ opt \in Option
    /\ recorded \in Candidate \union {NoMemo}
    /\ decided \in Seq(Candidate) /\ Len(decided) <= 1
    /\ spent \in Nat
    /\ \A c \in Call :
          \/ calls[c] = IdleCall
          \/ /\ \/ calls[c].pc = "tier"
                \/ /\ calls[c].pc \in {"ask", "ask_strong"}
                   /\ calls[c].tries \in 0..MaxRetries /\ calls[c].strict \in BOOLEAN
             /\ calls[c].tiers \in Seq(1..3)
             /\ calls[c].all \in Seq(Candidate) /\ calls[c].fast \in Seq(Candidate)
             /\ calls[c].seen \in Candidate \union {NoMemo}
          \/ calls[c].pc = "done" /\ calls[c].outcome \in Outcome

EngineInit ==
    /\ screen \in Screen /\ intent \in Intents /\ opt \in Option
    /\ recorded = NoMemo
    /\ decided = <<>>
    /\ spent = 0
    /\ calls = [c \in Call |-> IdleCall]

-----------------------------------------------------------------------------
\* The LLM resolver is always registered, so Tier 3 always exists: it is only
\* runnable for ai_first when the cost policy permits it.
AITierRunnable == opt.cost # "low"
TierOrder == IF opt.aiFirst /\ AITierRunnable THEN <<3, 1, 2>> ELSE <<1, 2, 3>>

BudgetExceeded == Budget > 0 /\ spent >= Budget

\* _filter_snapshot: without a relevant line the model is not asked.
AskableRoles ==
    CASE intent.action = "click"  -> {"button", "link", "tab", "switch"}
      [] intent.action = "type"   -> {"textbox", "combobox"}
      [] intent.action = "select" -> {"combobox", "listbox"}
      [] intent.action \in Reading -> Role
Askable == \E i \in DOMAIN screen : screen[i].role \in AskableRoles

\* What a finished tier makes of the call.
\* (AfterTierForgets, a mistake: candidates below the bar are not kept.)
AfterTierForgets(c, tier, found) ==
    IF Reaches(found, StopAt(tier))
      THEN Done(Pick(intent, found), calls[c].seen)
      ELSE CallOf("tier", Tail(calls[c].tiers), calls[c].all, calls[c].seen)

AfterTier(c, tier, found) ==
    IF Reaches(found, StopAt(tier))
      THEN Done(Pick(intent, found), calls[c].seen)
      ELSE CallOf("tier", Tail(calls[c].tiers), calls[c].all \o found, calls[c].seen)

\* A call that awaits a model's answer to its first attempt.  A strict request
\* (opt.strict: OpenAI's json_schema) may be repeated without the schema.
Waiting(c, pc, fast) ==
    [pc |-> pc, tiers |-> calls[c].tiers, all |-> calls[c].all, fast |-> fast, seen |-> calls[c].seen,
     tries |-> 0, strict |-> opt.strict]

Become(c, state) == calls' = [calls EXCEPT ![c] = state]

At(c, tier) == calls[c].pc = "tier" /\ calls[c].tiers # <<>> /\ Head(calls[c].tiers) = tier

-----------------------------------------------------------------------------
Begin(c) ==
    /\ calls[c].pc = "idle"
    /\ Become(c, CallOf("tier", TierOrder, <<>>, NoMemo))
    /\ UNCHANGED <<fixed, recorded, decided, spent>>

RunDeterministic(c) ==
    /\ \E tier \in {1, 2} :
          /\ At(c, tier)
          /\ Become(c, [ AfterTier(c, tier, TierResult(screen, intent, recorded, tier))
                           EXCEPT !.seen = IF tier = 1 THEN recorded ELSE @ ])
    /\ UNCHANGED <<fixed, recorded, decided, spent>>

\* (Blocked by the policy alone, a mistake: the budget is never consulted.)
BlockedByPolicyOnly == opt.cost = "low"
Blocked == opt.cost = "low" \/ BudgetExceeded

BlockAI(c) ==
    /\ At(c, 3)
    /\ Blocked
    /\ Become(c, Done(Failed("cost_blocked"), calls[c].seen))
    /\ UNCHANGED <<fixed, recorded, decided, spent>>

AsksModel == opt.provider /\ Askable /\ decided = <<>>

\* Tier 3 without a model call: no provider, nothing to ask about, or a decision
\* cached for this screen and step.
SkipModel(c) ==
    /\ At(c, 3)
    /\ ~Blocked
    /\ ~AsksModel
    /\ Become(c, AfterTier(c, 3, IF opt.provider /\ Askable THEN decided ELSE <<>>))
    /\ UNCHANGED <<fixed, recorded, decided, spent>>

AskModel(c) ==
    /\ At(c, 3)
    /\ ~Blocked
    /\ AsksModel
    /\ Budget = 0 => spent < MaxSpent
    /\ Become(c, Waiting(c, "ask", <<>>))
    /\ UNCHANGED <<fixed, recorded, decided, spent>>

\* An attempt failed for a passing reason (timeout, rate limit, 5xx): after a
\* while, the next.  Whatever the failed one cost, it is not charged.
Retry(c) ==
    /\ calls[c].pc \in {"ask", "ask_strong"}
    /\ calls[c].tries < MaxRetries
    /\ Become(c, [calls[c] EXCEPT !.tries = @ + 1])
    /\ UNCHANGED <<fixed, recorded, decided, spent>>

\* The API takes no strict schema: all over again, once, in plain JSON.
AskPlainly(c) ==
    /\ calls[c].pc \in {"ask", "ask_strong"}
    /\ calls[c].strict
    /\ Become(c, [calls[c] EXCEPT !.strict = FALSE, !.tries = 0])
    /\ UNCHANGED <<fixed, recorded, decided, spent>>

\* llm_cache.put keeps nothing when there is nothing to keep.
Decide(found) == IF found = <<>> THEN decided ELSE found

\* A completion is charged by the tokens its API reports, which may report none.
Completed(found) == {<<found, Price>>, <<found, 0>>}

\* What comes of a request and what is charged for it: a target on the page or
\* not, or nothing usable.  A failure (of the last attempt, or one that is not
\* repeated) is nothing usable for nothing.
ModelResults ==
    LET refs == {RefOf(screen[i]) : i \in DOMAIN screen} \union {Stray}
        answers == {ModelFinds(r, conf) : r \in refs, conf \in ModelConfidence}
    IN  UNION {Completed(found) : found \in answers \union {<<>>}}

RawBest(found) == IF found = <<>> THEN 0 ELSE found[1].raw

\* The fast model's answer.  Below EscalateBelow the strong model is asked too,
\* and what the fast one found is kept meanwhile.
ModelAnswers(c) ==
    /\ calls[c].pc = "ask"
    /\ \E result \in ModelResults :
          /\ spent' = spent + result[2]
          /\ IF opt.strong /\ RawBest(result[1]) < EscalateBelow
               THEN /\ Become(c, Waiting(c, "ask_strong", result[1]))
                    /\ UNCHANGED decided
               ELSE /\ Become(c, AfterTier(c, 3, result[1]))
                    /\ decided' = Decide(result[1])
    /\ UNCHANGED <<fixed, recorded>>

StrongModelAnswers(c) ==
    /\ calls[c].pc = "ask_strong"
    /\ \E result \in ModelResults :
          LET found == IF RawBest(result[1]) > RawBest(calls[c].fast)
                         THEN result[1] ELSE calls[c].fast
          IN  /\ spent' = spent + result[2]
              /\ Become(c, AfterTier(c, 3, found))
              /\ decided' = Decide(found)
    /\ UNCHANGED <<fixed, recorded>>

Exhaust(c) ==
    /\ calls[c].pc = "tier"
    /\ calls[c].tiers = <<>>
    /\ Become(c, Done(Fallback(intent, calls[c].all), calls[c].seen))
    /\ UNCHANGED <<fixed, recorded, decided, spent>>

\* The caller gets the outcome; the SDK records the target once the action on it
\* has succeeded, which it may not.
Return(c) ==
    /\ calls[c].pc = "done"
    /\ Become(c, IdleCall)
    /\ \/ UNCHANGED recorded
       \/ calls[c].outcome.kind = "resolved" /\ recorded' = calls[c].outcome.target
    /\ UNCHANGED <<fixed, decided, spent>>

\* Another run of the suite: a new process, the same memory.db.
NewRun ==
    /\ \A c \in Call : calls[c].pc = "idle"
    /\ decided' = <<>>
    /\ spent' = 0
    /\ UNCHANGED <<fixed, recorded, calls>>

EngineNext ==
    \/ \E c \in Call :
          \/ Begin(c) \/ RunDeterministic(c)
          \/ BlockAI(c) \/ SkipModel(c) \/ AskModel(c)
          \/ Retry(c) \/ AskPlainly(c)
          \/ ModelAnswers(c) \/ StrongModelAnswers(c)
          \/ Exhaust(c) \/ Return(c)
    \/ NewRun

EngineSpec == EngineInit /\ [][EngineNext]_engine

-----------------------------------------------------------------------------
Finished(c) == calls[c].pc = "done"
Found(c)    == Finished(c) /\ calls[c].outcome.kind = "resolved"

\* What the same call yields with Tiers 1 and 2 alone.
DeterministicOutcome(c) == Offline(screen, intent, calls[c].seen)

\* The spend of a run stays within its budget but for what the calls already
\* past the check still cost: with a strong model, two completions each.
Completions == IF opt.strong THEN 2 ELSE 1
SpendBounded ==
    Budget > 0 => spent < Budget + Price * (Completions * Cardinality(Call))

\* A target found on the page (not by a model, not by memory) is never chosen
\* over an equally good rival: another locator with as good a name and a role
\* as fit for the action, that matches as many elements.  For a dropdown step a
\* button is no rival of a combobox: the relax looks for comboboxes only.  With a
\* model a dropdown step may be a guess: what the model names has no role, and its
\* twin remains as the only combobox.
DropdownRoles == {"combobox", "listbox"}

Alike(e, f) ==
    /\ e.label # NoName /\ f.label # NoName
    /\ NameMatch[e.label] = NameMatch[f.label]
    /\ FuzzyRatio[e.label] = FuzzyRatio[f.label]
    /\ RoleFit(intent.action, e.role) = RoleFit(intent.action, f.role)
    /\ RoleSignal(intent, e.role) = RoleSignal(intent, f.role)
    /\ Cardinality(Matched(screen, RefOf(e))) = Cardinality(Matched(screen, RefOf(f)))
    /\ DropdownIntent(intent) => (e.role \in DropdownRoles <=> f.role \in DropdownRoles)

Rivals(c) ==
    LET elements == {screen[i] : i \in DOMAIN screen} IN
    {e \in elements :
        /\ RefOf(e) # calls[c].outcome.target.ref
        /\ \E f \in elements : RefOf(f) = calls[c].outcome.target.ref /\ Alike(e, f)}

NoGuessBetweenRivals ==
    \A c \in Call :
        Found(c) /\ intent.action \notin Reading /\ ~(opt.provider /\ DropdownIntent(intent))
          /\ calls[c].outcome.target.by \in {"accessibility_tree", "exact_text", "fuzzy_text"}
        => Rivals(c) = {}

\* With the AI off, a call ends as Tiers 1 and 2 alone would end it.  Off by having
\* no provider: whatever ai_first and the budget say, fallback included.  Off by
\* max_cost_level=low, with a provider or without: where one of the two tiers
\* stops the search; where none does, it is the policy that fails the call, before
\* the fallback has seen what they found (engine.py, ground).
AIOff == ~opt.provider \/ opt.cost = "low"
AIOffIsDeterministic ==
    \A c \in Call :
        Finished(c) /\ AIOff =>
            calls[c].outcome = IF opt.cost = "low" /\ ~DecidesAlone(screen, intent, calls[c].seen)
                                 THEN Failed("cost_blocked")
                                 ELSE DeterministicOutcome(c)

\* Without a model, a replayed candidate competes with the page's own: the same
\* step on the same page still finds the target it recorded, and never starts to
\* fail, except for a dropdown, where the relax takes target and replay for two
\* comboboxes.
WarmCallsAgree ==
    \A c \in Call :
        Finished(c) /\ calls[c].seen # NoMemo /\ ~opt.provider /\ ~Blocked /\ ~DropdownIntent(intent) =>
            /\ calls[c].outcome.kind = "resolved"
            /\ calls[c].outcome.target.ref = calls[c].seen.ref

=============================================================================
