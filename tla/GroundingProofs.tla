--------------------------- MODULE GroundingProofs ---------------------------
(***************************************************************************)
(* The spend of a run is bounded for every budget, price and number of     *)
(* concurrent calls.  SpendBounded alone is not inductive: it says nothing *)
(* of the calls that have passed the budget check and not been charged     *)
(* yet.  The invariant counts the completions they may still be charged.   *)
(*                                                                         *)
(* Without a provider the deterministic tiers decide alone: what a call    *)
(* has gathered is what the tiers behind it find.                          *)
(*                                                                         *)
(* And a step finds the target it has recorded.  WarmCallsAgree alone is   *)
(* not inductive: it says nothing of the rows that calls have read.  Each  *)
(* is the target the page has without a row, or that target's replay, and  *)
(* the tiers find it again (RowAgrees).                                    *)
(*                                                                         *)
(* Last, no call ends with one of two elements it cannot tell apart.  Both *)
(* are found wherever one is (TwinsFound), and score so alike that neither *)
(* is chosen.  FairInv follows what could still tell them apart by mistake *)
(* of one: a row for it, or what a model said of it.                       *)
(*                                                                         *)
(* The lemmas about candidates, tiers and their choice are those of        *)
(* StepRunnerProofs, whose steps are grounded by the same tiers.           *)
(***************************************************************************)
EXTENDS Grounding, StepRunnerProofs

Asking       == {c \in Call : calls[c].pc = "ask"}
AskingStrong == {c \in Call : calls[c].pc = "ask_strong"}

\* Completions that may still be charged to this run.
Owed == Completions * Cardinality(Asking) + Cardinality(AskingStrong)

SpendInv ==
    /\ spent \in Nat
    /\ opt \in Option
    /\ DOMAIN calls = Call
    /\ calls = [c \in Call |-> calls[c]]
    /\ AskingStrong # {} => opt.strong
    /\ Budget > 0 => spent + Price * Owed < Budget + Price * (Completions * Cardinality(Call))

-----------------------------------------------------------------------------
\* Multiplication by a price keeps order.
LEMMA PriceMonotone ==
    ASSUME NEW p \in Nat, NEW x \in Nat, NEW y \in Nat, x <= y
    PROVE  p * x \in Nat /\ p * y \in Nat /\ p * x <= p * y
<1>1. PICK d \in Nat : y = x + d
  BY y - x \in Nat, y = x + (y - x)
<1>2. p * d \in Nat /\ p * x \in Nat
  OBVIOUS
<1>3. p * (x + d) = p * x + p * d
  OBVIOUS
<1>4. QED
  BY <1>1, <1>2, <1>3

LEMMA PriceStep ==
    ASSUME NEW p \in Nat, NEW x \in Nat
    PROVE  p * (x + 1) = p * x + p
  OBVIOUS

\* One completion, or two with a strong model.
LEMMA CompletionsPositive ==
    ASSUME opt \in Option
    PROVE  /\ opt.strong \in BOOLEAN
           /\ opt.strong => Completions = 2
           /\ ~opt.strong => Completions = 1
  BY GroundingAssumption DEF Completions

\* The calls that ask are calls, and finitely many.
LEMMA AskingFinite ==
    /\ IsFiniteSet(Asking) /\ Cardinality(Asking) \in Nat
    /\ IsFiniteSet(AskingStrong) /\ Cardinality(AskingStrong) \in Nat
    /\ Cardinality(Call) \in Nat
    /\ Cardinality(Asking) + Cardinality(AskingStrong) <= Cardinality(Call)
<1>1. Asking \in SUBSET Call /\ AskingStrong \in SUBSET Call
      /\ Asking \cap AskingStrong = {} /\ Asking \cup AskingStrong \in SUBSET Call
  BY DEF Asking, AskingStrong
<1>2. IsFiniteSet(Call)
  BY GroundingAssumption
<1>3. /\ IsFiniteSet(Asking) /\ IsFiniteSet(AskingStrong)
      /\ Cardinality(Asking \cup AskingStrong) <= Cardinality(Call)
  BY <1>1, <1>2, FS_Subset
<1>4. Cardinality(Asking \cup AskingStrong)
        = Cardinality(Asking) + Cardinality(AskingStrong) - Cardinality({})
  BY <1>1, <1>3, FS_Union
<1>5. QED
  BY <1>2, <1>3, <1>4, FS_EmptySet, FS_CardinalityType

LEMMA AskingFinitePrimed ==
    /\ Cardinality(Asking') \in Nat /\ Cardinality(AskingStrong') \in Nat
    /\ Cardinality(Call) \in Nat
    /\ Cardinality(Asking') + Cardinality(AskingStrong') <= Cardinality(Call)
<1>1. AskingFinite'
  BY AskingFinite, PTL
<1>2. QED
  BY <1>1

\* A finished tier leaves its call between tiers or done.
LEMMA AfterTierNeverAsks ==
    ASSUME NEW c, NEW tier, NEW found
    PROVE  AfterTier(c, tier, found).pc \in {"tier", "done"}
<1>1. CASE Reaches(found, StopAt(tier))
  BY <1>1 DEF AfterTier, Done
<1>2. CASE ~Reaches(found, StopAt(tier))
  BY <1>2 DEF AfterTier, CallOf
<1>3. QED
  BY <1>1, <1>2

-----------------------------------------------------------------------------
THEOREM SpendInvInit == EngineInit => SpendInv
<1> SUFFICES ASSUME EngineInit PROVE SpendInv
  OBVIOUS
<1>1. Asking = {} /\ AskingStrong = {}
  BY DEF EngineInit, IdleCall, Asking, AskingStrong
<1>2. Owed = 0
  BY <1>1, FS_EmptySet, CompletionsPositive DEF Owed, EngineInit
<1>3. Budget \in Nat /\ Price \in Nat /\ Cardinality(Call) \in Nat
  BY GroundingAssumption, FS_CardinalityType
<1>4. Price * 0 = 0 /\ Completions * Cardinality(Call) \in Nat
  BY <1>3, CompletionsPositive DEF EngineInit
<1>5. Price * (Completions * Cardinality(Call)) \in Nat
  BY <1>3, <1>4, PriceMonotone
<1>6. QED
  BY <1>1, <1>2, <1>3, <1>4, <1>5 DEF EngineInit, SpendInv

\* A step of a call that neither was asking nor starts to, or goes on asking.
LEMMA QuietStep ==
    ASSUME SpendInv, UNCHANGED <<fixed, spent>>,
           NEW c \in Call, NEW state,
           Become(c, state),
           \/ calls[c].pc \notin {"ask", "ask_strong"} /\ state.pc \notin {"ask", "ask_strong"}
           \/ state.pc = calls[c].pc
    PROVE  SpendInv'
<1>1. DOMAIN calls' = Call /\ calls' = [d \in Call |-> calls'[d]]
  BY DEF Become, SpendInv
<1>2. \A d \in Call : calls'[d] = IF d = c THEN state ELSE calls[d]
  BY DEF Become, SpendInv
<1>3. Asking' = Asking /\ AskingStrong' = AskingStrong
  BY <1>2 DEF Asking, AskingStrong
<1>4. opt' = opt /\ spent' = spent
  BY DEF fixed
<1>5. QED
  BY <1>1, <1>3, <1>4 DEF SpendInv, Owed, Completions

\* A call that passes the budget check owes its completions from then on.
LEMMA AskStep ==
    ASSUME SpendInv, NEW c \in Call, AskModel(c)
    PROVE  SpendInv'
<1>1. /\ DOMAIN calls' = Call /\ calls' = [d \in Call |-> calls'[d]]
      /\ \A d \in Call : calls'[d].pc = IF d = c THEN "ask" ELSE calls[d].pc
  BY DEF AskModel, Become, SpendInv, Waiting
<1>2. AskingStrong' = AskingStrong
  BY <1>1 DEF AskingStrong, AskModel, At
<1>3. opt' = opt /\ spent' = spent
  BY DEF AskModel, fixed
<1>4. ASSUME Budget > 0
      PROVE  spent + Price * Owed' < Budget + Price * (Completions * Cardinality(Call))
  <2>1. spent \in Nat /\ Budget \in Nat /\ Price \in Nat /\ spent < Budget
    BY <1>4, GroundingAssumption DEF AskModel, Blocked, BudgetExceeded, SpendInv
  <2>2. /\ Cardinality(Asking') \in Nat /\ Cardinality(AskingStrong') \in Nat
        /\ Cardinality(Call) \in Nat
        /\ Cardinality(Asking') + Cardinality(AskingStrong') <= Cardinality(Call)
    BY AskingFinitePrimed
  <2>3. Owed' = Completions * Cardinality(Asking') + Cardinality(AskingStrong')
    BY <1>3 DEF Owed, Completions
  <2>4. /\ Owed' \in Nat /\ Completions * Cardinality(Call) \in Nat
        /\ Owed' <= Completions * Cardinality(Call)
    BY <2>2, <2>3, CompletionsPositive DEF SpendInv
  <2>5. /\ Price * Owed' \in Nat
        /\ Price * (Completions * Cardinality(Call)) \in Nat
        /\ Price * Owed' <= Price * (Completions * Cardinality(Call))
    BY <2>1, <2>4, PriceMonotone
  <2>6. QED
    BY <2>1, <2>5
<1>5. QED
  BY <1>1, <1>2, <1>3, <1>4 DEF SpendInv, Completions

\* Being charged is no more than what was owed.
LEMMA ChargeKeepsBound ==
    ASSUME NEW p \in Nat, NEW owed \in Nat, NEW left \in Nat, left < owed,
           NEW cost \in {p, 0}, NEW s \in Nat, NEW bound \in Nat, s + p * owed < bound
    PROVE  s + cost + p * left < bound
<1>1. left + 1 <= owed /\ left + 1 \in Nat
  OBVIOUS
<1>2. p * (left + 1) <= p * owed /\ p * left \in Nat /\ p * owed \in Nat
  BY <1>1, PriceMonotone
<1>3. p * (left + 1) = p * left + p
  BY PriceStep
<1>4. QED
  BY <1>2, <1>3

\* What a model call may cost.
LEMMA ResultCost ==
    ASSUME NEW result \in ModelResults
    PROVE  result[2] \in {Price, 0}
<1>1. PICK found : result \in Completed(found)
  BY DEF ModelResults
<1>2. QED
  BY <1>1 DEF Completed

\* The answer of one model, charged to the run, moves its call on.
LEMMA AnswerStep ==
    ASSUME SpendInv, UNCHANGED fixed, NEW c \in Call, NEW state, NEW cost \in {Price, 0},
           Become(c, state), spent' = spent + cost,
           \/ calls[c].pc = "ask" /\ state.pc \in {"tier", "done"}
           \/ calls[c].pc = "ask" /\ state.pc = "ask_strong" /\ opt.strong
           \/ calls[c].pc = "ask_strong" /\ state.pc \in {"tier", "done"}
    PROVE  SpendInv'
<1>1. /\ DOMAIN calls' = Call /\ calls' = [d \in Call |-> calls'[d]]
      /\ \A d \in Call : calls'[d] = IF d = c THEN state ELSE calls[d]
  BY DEF Become, SpendInv
<1>2. opt' = opt /\ opt \in Option /\ opt.strong \in BOOLEAN
  BY CompletionsPositive DEF fixed, SpendInv
<1>3. spent \in Nat /\ Price \in Nat /\ Budget \in Nat /\ spent' \in Nat
  BY GroundingAssumption DEF SpendInv
<1>4. AskingStrong' # {} => opt.strong
  BY <1>1 DEF AskingStrong, SpendInv
<1>5. Owed \in Nat /\ Owed' \in Nat /\ Owed' < Owed
  <2>1. /\ IsFiniteSet(Asking) /\ Cardinality(Asking) \in Nat
        /\ IsFiniteSet(AskingStrong) /\ Cardinality(AskingStrong) \in Nat
    BY AskingFinite
  <2>2. Owed' = Completions * Cardinality(Asking') + Cardinality(AskingStrong')
    BY <1>2 DEF Owed, Completions
  <2>3. CASE calls[c].pc = "ask" /\ state.pc \in {"tier", "done"}
    <3>1. Asking' = Asking \ {c} /\ AskingStrong' = AskingStrong /\ c \in Asking
      BY <1>1, <2>3 DEF Asking, AskingStrong
    <3>2. Cardinality(Asking') = Cardinality(Asking) - 1 /\ Cardinality(Asking') \in Nat
      BY <2>1, <3>1, FS_RemoveElement, FS_CardinalityType
    <3>3. QED
      BY <1>2, <2>1, <2>2, <3>1, <3>2, CompletionsPositive DEF Owed
  <2>4. CASE calls[c].pc = "ask" /\ state.pc = "ask_strong" /\ opt.strong
    <3>1. /\ Asking' = Asking \ {c} /\ c \in Asking
          /\ AskingStrong' = AskingStrong \cup {c} /\ c \notin AskingStrong
      BY <1>1, <2>4 DEF Asking, AskingStrong
    <3>2. /\ Cardinality(Asking') = Cardinality(Asking) - 1
          /\ Cardinality(Asking') \in Nat
      BY <2>1, <3>1, FS_RemoveElement, FS_CardinalityType
    <3>3. Cardinality(AskingStrong') = Cardinality(AskingStrong) + 1
      BY <2>1, <3>1, FS_AddElement
    <3>4. QED
      BY <1>2, <2>1, <2>2, <2>4, <3>2, <3>3, CompletionsPositive DEF Owed
  <2>5. CASE calls[c].pc = "ask_strong" /\ state.pc \in {"tier", "done"}
    <3>1. Asking' = Asking /\ AskingStrong' = AskingStrong \ {c} /\ c \in AskingStrong
      BY <1>1, <2>5 DEF Asking, AskingStrong
    <3>2. /\ Cardinality(AskingStrong') = Cardinality(AskingStrong) - 1
          /\ Cardinality(AskingStrong') \in Nat
      BY <2>1, <3>1, FS_RemoveElement, FS_CardinalityType
    <3>3. QED
      BY <1>2, <2>1, <2>2, <3>1, <3>2, CompletionsPositive DEF Owed
  <2>6. QED
    BY <2>3, <2>4, <2>5
<1>6. ASSUME Budget > 0
      PROVE  spent' + Price * Owed' < Budget + Price * (Completions * Cardinality(Call))
  <2>1. Cardinality(Call) \in Nat
    BY AskingFinite
  <2>2. Completions * Cardinality(Call) \in Nat
    BY <1>2, <2>1, CompletionsPositive
  <2>3. Price * (Completions * Cardinality(Call)) \in Nat
    BY <1>3, <2>2, PriceMonotone
  <2>4. Budget + Price * (Completions * Cardinality(Call)) \in Nat
    BY <1>3, <2>3
  <2>5. spent + Price * Owed < Budget + Price * (Completions * Cardinality(Call))
    BY <1>6 DEF SpendInv
  <2> DEFINE bound == Budget + Price * (Completions * Cardinality(Call))
  <2>6. bound \in Nat /\ spent + Price * Owed < bound
    BY <2>4, <2>5
  <2> HIDE DEF bound
  <2>7. spent + cost + Price * Owed' < bound
    BY ONLY <1>3, <1>5, <2>6, ChargeKeepsBound, cost \in {Price, 0}
  <2>8. QED
    BY <2>7 DEF bound
<1>7. QED
  BY <1>1, <1>2, <1>3, <1>4, <1>6 DEF SpendInv, Completions

-----------------------------------------------------------------------------
\* The invariant is kept by every action.
THEOREM SpendInvStep == SpendInv /\ [EngineNext]_engine => SpendInv'
<1> SUFFICES ASSUME SpendInv, [EngineNext]_engine PROVE SpendInv'
  OBVIOUS
<1>1. ASSUME NEW c \in Call, Begin(c) PROVE SpendInv'
  <2>1. CallOf("tier", TierOrder, <<>>, NoMemo).pc = "tier"
    BY DEF CallOf
  <2>2. QED
    BY <1>1, <2>1, QuietStep DEF Begin
<1>2. ASSUME NEW c \in Call, RunDeterministic(c) PROVE SpendInv'
  <2>1. PICK tier \in {1, 2} :
          /\ At(c, tier)
          /\ Become(c, [ AfterTier(c, tier, TierResult(screen, intent, recorded, tier))
                           EXCEPT !.seen = IF tier = 1 THEN recorded ELSE @ ])
    BY <1>2 DEF RunDeterministic
  <2> DEFINE state == [ AfterTier(c, tier, TierResult(screen, intent, recorded, tier))
                          EXCEPT !.seen = IF tier = 1 THEN recorded ELSE @ ]
  <2>2. state.pc = AfterTier(c, tier, TierResult(screen, intent, recorded, tier)).pc
    OBVIOUS
  <2>3. state.pc \in {"tier", "done"}
    BY <2>2, AfterTierNeverAsks
  <2> HIDE DEF state
  <2>4. Become(c, state) /\ UNCHANGED <<fixed, spent>> /\ calls[c].pc = "tier"
    BY <1>2, <2>1 DEF RunDeterministic, At, state
  <2>5. QED
    BY <2>3, <2>4, QuietStep
<1>3. ASSUME NEW c \in Call, BlockAI(c) PROVE SpendInv'
  <2>1. Done(Failed("cost_blocked"), calls[c].seen).pc = "done"
    BY DEF Done
  <2>2. QED
    BY <1>3, <2>1, QuietStep DEF BlockAI, At
<1>4. ASSUME NEW c \in Call, SkipModel(c) PROVE SpendInv'
  BY <1>4, AfterTierNeverAsks, QuietStep DEF SkipModel, At
<1>5. ASSUME NEW c \in Call, AskModel(c) PROVE SpendInv'
  BY <1>5, AskStep
<1>6. ASSUME NEW c \in Call, ModelAnswers(c) PROVE SpendInv'
  <2>1. PICK result \in ModelResults :
          /\ spent' = spent + result[2]
          /\ IF opt.strong /\ RawBest(result[1]) < EscalateBelow
               THEN Become(c, Waiting(c, "ask_strong", result[1]))
               ELSE Become(c, AfterTier(c, 3, result[1]))
    BY <1>6 DEF ModelAnswers
  <2>2. result[2] \in {Price, 0}
    BY ResultCost
  <2>3. Waiting(c, "ask_strong", result[1]).pc = "ask_strong"
    BY DEF Waiting
  <2>4. AfterTier(c, 3, result[1]).pc \in {"tier", "done"}
    BY AfterTierNeverAsks
  <2>5. UNCHANGED fixed /\ calls[c].pc = "ask"
    BY <1>6 DEF ModelAnswers
  <2>6. CASE opt.strong /\ RawBest(result[1]) < EscalateBelow
    BY <2>1, <2>2, <2>3, <2>5, <2>6, AnswerStep
  <2>7. CASE ~(opt.strong /\ RawBest(result[1]) < EscalateBelow)
    BY <2>1, <2>2, <2>4, <2>5, <2>7, AnswerStep
  <2>8. QED
    BY <2>6, <2>7
<1>7. ASSUME NEW c \in Call, StrongModelAnswers(c) PROVE SpendInv'
  <2>1. PICK result \in ModelResults :
          \E found \in {result[1], calls[c].fast} :
             /\ spent' = spent + result[2]
             /\ Become(c, AfterTier(c, 3, found))
    BY <1>7 DEF StrongModelAnswers
  <2>2. PICK found \in {result[1], calls[c].fast} :
          /\ spent' = spent + result[2]
          /\ Become(c, AfterTier(c, 3, found))
    BY <2>1
  <2>3. result[2] \in {Price, 0}
    BY ResultCost
  <2>4. AfterTier(c, 3, found).pc \in {"tier", "done"}
    BY AfterTierNeverAsks
  <2>5. UNCHANGED fixed /\ calls[c].pc = "ask_strong"
    BY <1>7 DEF StrongModelAnswers
  <2>6. QED
    BY <2>2, <2>3, <2>4, <2>5, AnswerStep
<1>8. ASSUME NEW c \in Call, Exhaust(c) PROVE SpendInv'
  <2>1. Done(Fallback(intent, calls[c].all), calls[c].seen).pc = "done"
    BY DEF Done
  <2>2. QED
    BY <1>8, <2>1, QuietStep DEF Exhaust
<1>9. ASSUME NEW c \in Call, Return(c) PROVE SpendInv'
  <2>1. IdleCall.pc = "idle"
    BY DEF IdleCall
  <2>2. QED
    BY <1>9, <2>1, QuietStep DEF Return
<1>10. ASSUME NewRun PROVE SpendInv'
  <2>1. Asking = {} /\ AskingStrong = {} /\ Asking' = {} /\ AskingStrong' = {}
    BY <1>10 DEF NewRun, Asking, AskingStrong
  <2>2. opt' = opt /\ calls' = calls /\ spent' = 0
    BY <1>10 DEF NewRun, fixed
  <2>3. Owed' = 0
    BY <2>1, <2>2, FS_EmptySet, CompletionsPositive DEF Owed, Completions, SpendInv
  <2>4. Price \in Nat /\ Budget \in Nat /\ Cardinality(Call) \in Nat
    BY GroundingAssumption, AskingFinite
  <2>5. Price * 0 = 0 /\ Completions * Cardinality(Call) \in Nat
    BY <2>4, CompletionsPositive DEF SpendInv
  <2>6. Price * (Completions * Cardinality(Call)) \in Nat
    BY <2>4, <2>5, PriceMonotone
  <2>7. QED
    BY <2>1, <2>2, <2>3, <2>4, <2>5, <2>6 DEF SpendInv, Completions
<1>11. CASE UNCHANGED engine
  BY <1>11 DEF engine, fixed, SpendInv, Owed, Asking, AskingStrong, Completions
<1>12. ASSUME NEW c \in Call, Retry(c) PROVE SpendInv'
  <2> DEFINE state == [calls[c] EXCEPT !.tries = @ + 1]
  <2>1. state.pc = calls[c].pc
    OBVIOUS
  <2> HIDE DEF state
  <2>2. Become(c, state) /\ UNCHANGED <<fixed, spent>>
    BY <1>12 DEF Retry, state
  <2>3. QED
    BY <2>1, <2>2, QuietStep
<1>13. ASSUME NEW c \in Call, AskPlainly(c) PROVE SpendInv'
  <2> DEFINE state == [calls[c] EXCEPT !.strict = FALSE, !.tries = 0]
  <2>1. state.pc = calls[c].pc
    OBVIOUS
  <2> HIDE DEF state
  <2>2. Become(c, state) /\ UNCHANGED <<fixed, spent>>
    BY <1>13 DEF AskPlainly, state
  <2>3. QED
    BY <2>1, <2>2, QuietStep
<1>14. QED
  BY <1>1, <1>2, <1>3, <1>4, <1>5, <1>6, <1>7, <1>8, <1>9, <1>10, <1>11, <1>12, <1>13 DEF EngineNext

THEOREM SpendInvBounds == SpendInv => SpendBounded
<1> SUFFICES ASSUME SpendInv, Budget > 0
             PROVE  spent < Budget + Price * (Completions * Cardinality(Call))
  BY DEF SpendBounded
<1>1. /\ spent \in Nat /\ Price \in Nat /\ Budget \in Nat
      /\ Cardinality(Asking) \in Nat /\ Cardinality(AskingStrong) \in Nat /\ Cardinality(Call) \in Nat
  BY GroundingAssumption, AskingFinite DEF SpendInv
<1>2. Owed \in Nat /\ Completions * Cardinality(Call) \in Nat
  BY <1>1, CompletionsPositive DEF Owed, SpendInv
<1>3. Price * Owed \in Nat /\ Price * (Completions * Cardinality(Call)) \in Nat
  BY <1>1, <1>2, PriceMonotone
<1>4. QED
  BY <1>1, <1>3 DEF SpendInv

\* However many calls are in flight and whatever the models answer, the spend of
\* a run exceeds its budget by less than the completions the calls in flight at
\* that moment could still order.
THEOREM SpendStaysBounded == EngineSpec => []SpendBounded
  BY SpendInvInit, SpendInvStep, SpendInvBounds, PTL DEF EngineSpec

-----------------------------------------------------------------------------
\* Without a provider.  What a call has gathered is what the tiers behind it
\* found, the unused one nothing: so it ends where Tiers 1 and 2 alone end.

IsSequence(s) == \E n \in Nat : DOMAIN s = 1..n /\ s = [i \in 1..n |-> s[i]]

LEMMA SequenceOf ==
    ASSUME NEW s, IsSequence(s)
    PROVE  \E S : s \in Seq(S)
<1>1. PICK n \in Nat : DOMAIN s = 1..n /\ s = [i \in 1..n |-> s[i]]
  BY DEF IsSequence
<1> DEFINE S == {s[i] : i \in 1..n}
<1>2. s \in [1..n -> S]
  BY <1>1
<1>3. s \in Seq(S)
  BY <1>2
<1>4. QED
  BY <1>3

LEMMA OfSequence ==
    ASSUME NEW S, NEW s \in Seq(S)
    PROVE  IsSequence(s)
  BY Len(s) \in Nat, s \in [1..Len(s) -> S] DEF IsSequence

LEMMA SequenceJoin ==
    ASSUME NEW s, NEW t, IsSequence(s), IsSequence(t)
    PROVE  IsSequence(s \o t)
<1>1. PICK S : s \in Seq(S)
  BY SequenceOf
<1>2. PICK T : t \in Seq(T)
  BY SequenceOf
<1>3. s \in Seq(S \union T) /\ t \in Seq(S \union T)
  BY <1>1, <1>2
<1>4. s \o t \in Seq(S \union T)
  BY <1>3
<1>5. QED
  BY <1>4, OfSequence

LEMMA SequenceFinite ==
    ASSUME NEW s, IsSequence(s), NEW I \in SUBSET DOMAIN s
    PROVE  Cardinality(I) \in Nat
<1>1. PICK n \in Nat : DOMAIN s = 1..n
  BY DEF IsSequence
<1>2. IsFiniteSet(1..n)
  BY FS_Interval
<1>3. QED
  BY <1>1, <1>2, FS_Subset, FS_CardinalityType

LEMMA KeptSequence ==
    ASSUME NEW s, NEW I, Cardinality(I) \in Nat
    PROVE  IsSequence(Kept(s, I)) /\ DOMAIN Kept(s, I) = 1..Cardinality(I)
  BY DEF Kept, IsSequence

LEMMA DedupedSequence ==
    ASSUME NEW cs, IsSequence(cs)
    PROVE  IsSequence(TierDedupe(cs))
<1>1. \A I : I \subseteq DOMAIN cs => Cardinality(I) \in Nat
  BY SequenceFinite
<1>2. \A s, I : I \subseteq DOMAIN cs => IsSequence(Kept(s, I))
  BY <1>1, KeptSequence
<1>3. QED
  BY <1>2 DEF TierDedupe, OnePerRef

\* What a resolver finds is a sequence.
LEMMA FindsSequences ==
    ASSUME NEW p \in Seq(Element), NEW st, NEW m
    PROVE  /\ IsSequence(<<>>)
           /\ IsSequence(ExplicitFinds(st)) /\ IsSequence(MemoryFinds(m))
           /\ IsSequence(TreeFinds(st, p)) /\ IsSequence(TextFinds(p)) /\ IsSequence(FuzzyFinds(st, p))
<1>0. IsSequence(p)
  BY OfSequence
<1>1. \A I : I \subseteq DOMAIN p => Cardinality(I) \in Nat
  BY <1>0, SequenceFinite
<1>2. \A I : I \subseteq DOMAIN p => \E n \in Nat : DOMAIN Kept(p, I) = 1..n
  BY <1>1, KeptSequence
<1>3. ASSUME NEW x PROVE IsSequence(<<x>>)
  BY DEF IsSequence
<1>4. IsSequence(<<>>)
  BY DEF IsSequence
<1>5. IsSequence(ExplicitFinds(st)) /\ IsSequence(MemoryFinds(m))
  BY <1>3, <1>4 DEF ExplicitFinds, MemoryFinds
<1> DEFINE tree  == {i \in DOMAIN p : TreeConfidence(st, p[i]) > 0}
           Hit(e) == e.label # NoName /\ NameMatch[e.label] \in {"phrase", "keyword"}
           Near(e) == e.label # NoName /\ FuzzyRatio[e.label] >= 5000
<1>6. \E n \in Nat : DOMAIN Kept(p, tree) = 1..n
  BY <1>2
<1>7. DOMAIN TreeFinds(st, p) = DOMAIN Kept(p, tree)
      /\ TreeFinds(st, p) = [i \in DOMAIN Kept(p, tree) |-> TreeFinds(st, p)[i]]
  BY DEF TreeFinds
<1> DEFINE text  == FirstOfEach(p, Hit, LAMBDA e : e.label)
           fuzzy == FirstOfEach(p, Near, RefOf)
<1>8. \E n \in Nat : DOMAIN text = 1..n
  BY <1>2 DEF FirstOfEach
<1>9. \E n \in Nat : DOMAIN fuzzy = 1..n
  BY <1>2 DEF FirstOfEach
<1>10. DOMAIN TextFinds(p) = DOMAIN text
       /\ TextFinds(p) = [i \in DOMAIN text |-> TextFinds(p)[i]]
  BY DEF TextFinds
<1>11. DOMAIN FuzzyFinds(st, p) = DOMAIN fuzzy
       /\ FuzzyFinds(st, p) = [i \in DOMAIN fuzzy |-> FuzzyFinds(st, p)[i]]
  BY DEF FuzzyFinds
<1> HIDE DEF tree, text, fuzzy
<1>12. QED
  BY <1>4, <1>5, <1>6, <1>7, <1>8, <1>9, <1>10, <1>11 DEF IsSequence

LEMMA TierSequence ==
    ASSUME NEW p \in Seq(Element), NEW st, NEW m, NEW tier \in {1, 2}
    PROVE  IsSequence(TierResult(p, st, m, tier))
<1> DEFINE results  == TierFinds(p, st, m, tier)
           Runs(n)  == n \in DOMAIN results /\ \A k \in 1..(n - 1) : ~Reaches(results[k], StopAt(tier))
           Part(n)  == IF Runs(n) THEN results[n] ELSE <<>>
<1>1. \A n \in DOMAIN results : IsSequence(results[n])
  BY FindsSequences DEF TierFinds
<1>2. IsSequence(<<>>)
  BY FindsSequences
<1> HIDE DEF results
<1>3. ASSUME NEW n PROVE IsSequence(Part(n))
  BY <1>1, <1>2
<1>4. IsSequence(Part(1) \o Part(2) \o Part(3) \o Part(4))
  <2> HIDE DEF Part
  <2>1. QED
    BY <1>3, SequenceJoin
<1>5. IsSequence(TierDedupe(Part(1) \o Part(2) \o Part(3) \o Part(4)))
  BY <1>4, DedupedSequence
<1>6. QED
  BY <1>5 DEF TierResult, RunTier, results

\* What the deterministic tiers find on page p, given what the memory held.
First(p, st, s)  == TierResult(p, st, s.seen, 1)
Second(p, st)    == TierResult(p, st, NoMemo, 2)

\* A call s between tiers has gathered what those behind it found, which was
\* not good enough.
Gathering(p, st, s) ==
    \/ s.tiers \in {<<1, 2, 3>>, <<3, 1, 2>>, <<1, 2>>} /\ s.all = <<>>
    \/ /\ s.tiers \in {<<2, 3>>, <<2>>}
       /\ s.all = First(p, st, s) /\ ~Reaches(First(p, st, s), StopAt(1))
    \/ /\ s.tiers \in {<<3>>, <<>>}
       /\ s.all = First(p, st, s) \o Second(p, st)
       /\ ~Reaches(First(p, st, s), StopAt(1)) /\ ~Reaches(Second(p, st), StopAt(2))

\* How a call ends with the AI off; cheap, when it is max_cost_level=low that says so.
EndsUnaided(p, st, m, cheap) ==
    IF cheap /\ ~DecidesAlone(p, st, m) THEN Failed("cost_blocked") ELSE Offline(p, st, m)

Cheap == opt.cost = "low"

Unaided(p, st, s, cheap) ==
    /\ s.pc \in {"idle", "tier", "done"}
    /\ s.pc = "tier" => Gathering(p, st, s) /\ (cheap => s.tiers \in {<<1, 2, 3>>, <<2, 3>>, <<3>>})
    /\ s.pc = "done" => s.outcome = EndsUnaided(p, st, s.seen, cheap)

OfflineInv ==
    /\ ~opt.provider => spent = 0
    /\ AIOff =>
        /\ screen \in Screen /\ intent \in Intents
        /\ \A c \in Call : Unaided(screen, intent, calls[c], Cheap)

\* The second tier does not look at memory.
LEMMA SecondForAll ==
    ASSUME NEW p, NEW st, NEW m
    PROVE  TierResult(p, st, m, 2) = Second(p, st)
  BY DEF Second, TierResult, TierFinds

LEMMA NothingIsNotEnough == \A threshold : ~Reaches(<<>>, threshold)
  BY DEF Reaches

LEMMA JoinsNothing ==
    ASSUME NEW s, IsSequence(s)
    PROVE  <<>> \o s = s /\ s \o <<>> = s
<1>1. PICK S : s \in Seq(S)
  BY SequenceOf
<1>2. QED
  BY <1>1

LEMMA OfflineInitially == EngineInit => OfflineInv
  BY DEF EngineInit, OfflineInv, Unaided, IdleCall

\* One call moves, nothing is spent.
LEMMA OneMoves ==
    ASSUME SpendInv, OfflineInv, UNCHANGED <<fixed, spent>>, NEW c \in Call, NEW state, Become(c, state),
           AIOff => Unaided(screen, intent, state, Cheap)
    PROVE  OfflineInv'
<1>1. \A d \in Call : calls'[d] = IF d = c THEN state ELSE calls[d]
  BY DEF Become, SpendInv
<1>2. /\ screen' = screen /\ intent' = intent /\ opt' = opt /\ spent' = spent
      /\ Cheap' = Cheap /\ AIOff' = AIOff
  BY DEF fixed, Cheap, AIOff
<1>3. QED
  BY <1>1, <1>2 DEF OfflineInv

LEMMA TierLists ==
    /\ Tail(<<1, 2, 3>>) = <<2, 3>> /\ Tail(<<1, 2>>) = <<2>> /\ Tail(<<3, 1, 2>>) = <<1, 2>>
    /\ Tail(<<2, 3>>) = <<3>> /\ Tail(<<2>>) = <<>> /\ Tail(<<3>>) = <<>>
    /\ <<>> \notin {<<1, 2, 3>>, <<3, 1, 2>>, <<1, 2>>, <<2, 3>>, <<2>>, <<3>>}
<1>1. /\ Tail(<<1, 2, 3>>) = <<2, 3>> /\ Tail(<<1, 2>>) = <<2>> /\ Tail(<<3, 1, 2>>) = <<1, 2>>
      /\ Tail(<<2, 3>>) = <<3>> /\ Tail(<<2>>) = <<>> /\ Tail(<<3>>) = <<>>
  OBVIOUS
<1>2. Len(<<>>) = 0 /\ Len(<<1, 2, 3>>) = 3 /\ Len(<<3, 1, 2>>) = 3 /\ Len(<<1, 2>>) = 2
      /\ Len(<<2, 3>>) = 2 /\ Len(<<2>>) = 1 /\ Len(<<3>>) = 1
  OBVIOUS
<1>3. QED
  BY <1>1, <1>2

\* A deterministic tier ends the call as Offline would, or adds what it found.
LEMMA TierGathers ==
    ASSUME OfflineInv, AIOff, NEW c \in Call, NEW tier \in {1, 2}, At(c, tier)
    PROVE  Unaided(screen, intent,
                   [ AfterTier(c, tier, TierResult(screen, intent, recorded, tier))
                       EXCEPT !.seen = IF tier = 1 THEN recorded ELSE @ ], Cheap)
<1> DEFINE found == TierResult(screen, intent, recorded, tier)
           after == AfterTier(c, tier, found)
           seen  == IF tier = 1 THEN recorded ELSE calls[c].seen
           state == [after EXCEPT !.seen = IF tier = 1 THEN recorded ELSE @]
           t1    == TierResult(screen, intent, seen, 1)
           t2    == Second(screen, intent)
<1> SUFFICES Unaided(screen, intent, state, Cheap)
  OBVIOUS
<1>1. /\ screen \in Seq(Element) /\ calls[c].pc = "tier" /\ calls[c].tiers # <<>> /\ Head(calls[c].tiers) = tier
      /\ Gathering(screen, intent, calls[c])
      /\ Cheap => calls[c].tiers \in {<<1, 2, 3>>, <<2, 3>>, <<3>>}
  BY GroundingAssumption DEF OfflineInv, Unaided, At
<1>2. IsSequence(t1) /\ IsSequence(t2)
  BY <1>1, TierSequence DEF Second
<1>3. First(screen, intent, [seen |-> seen]) = t1 /\ \A s : s.seen = seen => First(screen, intent, s) = t1
  BY DEF First
<1>4. Offline(screen, intent, seen) =
        CASE Reaches(t1, StopAt(1)) -> Pick(intent, t1)
          [] ~Reaches(t1, StopAt(1)) /\ Reaches(t2, StopAt(2)) -> Pick(intent, t2)
          [] ~Reaches(t1, StopAt(1)) /\ ~Reaches(t2, StopAt(2)) -> Fallback(intent, t1 \o t2)
  BY SecondForAll DEF Offline
<1>4a. DecidesAlone(screen, intent, seen) <=> Reaches(t1, StopAt(1)) \/ Reaches(t2, StopAt(2))
  BY SecondForAll DEF DecidesAlone
<1>5. CASE tier = 1
  <2>1. calls[c].tiers \in {<<1, 2, 3>>, <<1, 2>>} /\ calls[c].all = <<>>
        /\ (Cheap => calls[c].tiers = <<1, 2, 3>>)
    BY <1>1, <1>5 DEF Gathering
  <2>2. found = t1 /\ seen = recorded /\ <<>> \o t1 = t1
    BY <1>2, <1>5, JoinsNothing
  <2>3. state = [after EXCEPT !.seen = seen]
    BY <1>5
  <2> HIDE DEF found, t1, seen, state
  <2>4. CASE Reaches(t1, StopAt(1))
    <3>1. after = [pc |-> "done", outcome |-> Pick(intent, t1), seen |-> calls[c].seen]
      BY <1>5, <2>2, <2>4 DEF AfterTier, Done
    <3>2. state.pc = "done" /\ state.outcome = Pick(intent, t1) /\ state.seen = seen
      BY <2>3, <3>1
    <3>3. QED
      BY <1>4, <1>4a, <2>4, <3>2 DEF Unaided, EndsUnaided
  <2>5. CASE ~Reaches(t1, StopAt(1))
    <3>1. after = [pc |-> "tier", tiers |-> Tail(calls[c].tiers), all |-> t1, fast |-> <<>>, seen |-> calls[c].seen]
      BY <1>5, <2>1, <2>2, <2>5 DEF AfterTier, CallOf
    <3>2. Tail(calls[c].tiers) \in {<<2, 3>>, <<2>>} /\ (Cheap => Tail(calls[c].tiers) = <<2, 3>>)
      BY <2>1, TierLists
    <3>3. /\ state.pc = "tier" /\ state.tiers \in {<<2, 3>>, <<2>>} /\ state.all = t1 /\ state.seen = seen
          /\ Cheap => state.tiers = <<2, 3>>
      BY <2>3, <3>1, <3>2
    <3>4. First(screen, intent, state) = t1
      BY <1>3, <3>3
    <3>5. QED
      BY <2>5, <3>3, <3>4 DEF Unaided, Gathering
  <2>6. QED
    BY <2>4, <2>5
<1>6. CASE tier = 2
  <2>1. /\ calls[c].tiers \in {<<2, 3>>, <<2>>}
        /\ calls[c].all = t1 /\ ~Reaches(t1, StopAt(1))
        /\ Cheap => calls[c].tiers = <<2, 3>>
    BY <1>1, <1>6 DEF Gathering, First
  <2>2. found = t2 /\ seen = calls[c].seen
    BY <1>6, SecondForAll
  <2>3. state = [after EXCEPT !.seen = seen]
    <3>1. after.seen = calls[c].seen
      BY DEF AfterTier, Done, CallOf
    <3>2. QED
      BY <1>6, <3>1
  <2> HIDE DEF found, t1, t2, seen, state
  <2>4. CASE Reaches(t2, StopAt(2))
    <3>1. after = [pc |-> "done", outcome |-> Pick(intent, t2), seen |-> calls[c].seen]
      BY <1>6, <2>2, <2>4 DEF AfterTier, Done
    <3>2. state.pc = "done" /\ state.outcome = Pick(intent, t2) /\ state.seen = seen
      BY <2>3, <3>1
    <3>3. QED
      BY <1>4, <1>4a, <2>1, <2>4, <3>2 DEF Unaided, EndsUnaided
  <2>5. CASE ~Reaches(t2, StopAt(2))
    <3>1. after = [pc |-> "tier", tiers |-> Tail(calls[c].tiers), all |-> t1 \o t2,
                   fast |-> <<>>, seen |-> calls[c].seen]
      BY <1>6, <2>1, <2>2, <2>5 DEF AfterTier, CallOf
    <3>2. Tail(calls[c].tiers) \in {<<3>>, <<>>} /\ (Cheap => Tail(calls[c].tiers) = <<3>>)
      BY <2>1, TierLists
    <3>3. /\ state.pc = "tier" /\ state.tiers \in {<<3>>, <<>>} /\ state.all = t1 \o t2 /\ state.seen = seen
          /\ Cheap => state.tiers = <<3>>
      BY <2>3, <3>1, <3>2
    <3>4. First(screen, intent, state) = t1
      BY <1>3, <3>3
    <3>5. QED
      BY <2>1, <2>5, <3>3, <3>4 DEF Unaided, Gathering, t2
  <2>6. QED
    BY <2>4, <2>5
<1>7. QED
  BY <1>5, <1>6

\* The unused tier adds nothing.
LEMMA NothingAdded ==
    ASSUME OfflineInv, AIOff, ~Cheap, NEW c \in Call, At(c, 3)
    PROVE  Unaided(screen, intent, AfterTier(c, 3, <<>>), Cheap)
<1> DEFINE state == AfterTier(c, 3, <<>>)
           t1    == First(screen, intent, calls[c])
           t2    == Second(screen, intent)
<1> SUFFICES Unaided(screen, intent, state, Cheap)
  OBVIOUS
<1>1. /\ screen \in Seq(Element) /\ calls[c].pc = "tier" /\ calls[c].tiers # <<>> /\ Head(calls[c].tiers) = 3
      /\ Gathering(screen, intent, calls[c])
  BY GroundingAssumption DEF OfflineInv, Unaided, At
<1>2. \/ calls[c].tiers = <<3, 1, 2>> /\ calls[c].all = <<>>
      \/ /\ calls[c].tiers = <<3>> /\ calls[c].all = t1 \o t2
         /\ ~Reaches(t1, StopAt(1)) /\ ~Reaches(t2, StopAt(2))
  BY <1>1 DEF Gathering
<1>3. IsSequence(t1) /\ IsSequence(t2) /\ IsSequence(<<>>)
  BY <1>1, TierSequence, FindsSequences DEF First, Second
<1>4. calls[c].all \o <<>> = calls[c].all
  BY <1>2, <1>3, SequenceJoin, JoinsNothing
<1>5. state = [pc |-> "tier", tiers |-> Tail(calls[c].tiers), all |-> calls[c].all, fast |-> <<>>, seen |-> calls[c].seen]
  BY <1>4, NothingIsNotEnough DEF AfterTier, CallOf
<1> HIDE DEF state
<1>6. /\ state.pc = "tier" /\ state.all = calls[c].all
      /\ state.tiers = Tail(calls[c].tiers) /\ First(screen, intent, state) = t1
  BY <1>5 DEF First
<1> HIDE DEF t1, t2
<1>7. Gathering(screen, intent, state)
  BY <1>2, <1>6, TierLists DEF Gathering, t2
<1>8. QED
  BY <1>6, <1>7 DEF Unaided

LEMMA OfflineStep == SpendInv /\ OfflineInv /\ [EngineNext]_engine => OfflineInv'
<1> SUFFICES ASSUME SpendInv, OfflineInv, [EngineNext]_engine PROVE OfflineInv'
  OBVIOUS
<1>1. ASSUME NEW c \in Call, Begin(c) PROVE OfflineInv'
  <2>1. Unaided(screen, intent, CallOf("tier", TierOrder, <<>>, NoMemo), Cheap)
    BY DEF Unaided, CallOf, Gathering, TierOrder, AITierRunnable, Cheap
  <2>2. QED
    BY <1>1, <2>1, OneMoves DEF Begin
<1>2. ASSUME NEW c \in Call, RunDeterministic(c) PROVE OfflineInv'
  BY <1>2, TierGathers, OneMoves DEF RunDeterministic
<1>3. ASSUME NEW c \in Call, BlockAI(c) PROVE OfflineInv'
  <2> SUFFICES ASSUME AIOff
               PROVE  Unaided(screen, intent, Done(Failed("cost_blocked"), calls[c].seen), Cheap)
    BY <1>3, OneMoves DEF BlockAI
  <2>1. Cheap
    BY <1>3, GroundingAssumption DEF BlockAI, Blocked, BudgetExceeded, OfflineInv, AIOff, Cheap
  <2>2. /\ calls[c].pc = "tier" /\ Head(calls[c].tiers) = 3
        /\ Gathering(screen, intent, calls[c]) /\ calls[c].tiers \in {<<1, 2, 3>>, <<2, 3>>, <<3>>}
    BY <1>3, <2>1 DEF BlockAI, At, OfflineInv, Unaided
  <2>3. calls[c].tiers = <<3>>
    BY <2>2
  <2>4. ~Reaches(First(screen, intent, calls[c]), StopAt(1)) /\ ~Reaches(Second(screen, intent), StopAt(2))
    BY <2>2, <2>3 DEF Gathering
  <2>5. ~DecidesAlone(screen, intent, calls[c].seen)
    BY <2>4, SecondForAll DEF DecidesAlone, First
  <2>6. QED
    BY <2>1, <2>5 DEF Unaided, Done, EndsUnaided
<1>4. ASSUME NEW c \in Call, SkipModel(c) PROVE OfflineInv'
  <2> SUFFICES ASSUME AIOff
               PROVE  Unaided(screen, intent,
                              AfterTier(c, 3, IF opt.provider /\ Askable THEN decided ELSE <<>>), Cheap)
    BY <1>4, OneMoves DEF SkipModel
  <2>1. ~Cheap /\ ~opt.provider /\ At(c, 3)
    BY <1>4 DEF SkipModel, Blocked, Cheap, AIOff
  <2>2. QED
    BY <2>1, NothingAdded
<1>5. ASSUME NEW c \in Call, AskModel(c) PROVE OfflineInv'
  <2>1. opt' = opt /\ opt.provider /\ ~AIOff
    BY <1>5 DEF AskModel, AsksModel, Blocked, AIOff, fixed
  <2>2. QED
    BY <2>1 DEF OfflineInv, AIOff
<1>6. ASSUME NEW c \in Call, Retry(c) \/ AskPlainly(c) \/ ModelAnswers(c) \/ StrongModelAnswers(c)
      PROVE OfflineInv'
  <2>1. opt' = opt /\ calls[c].pc \in {"ask", "ask_strong"}
    BY <1>6 DEF Retry, AskPlainly, ModelAnswers, StrongModelAnswers, fixed
  <2>2. ~AIOff
    BY <2>1 DEF OfflineInv, Unaided
  <2>3. QED
    BY <2>1, <2>2 DEF OfflineInv, AIOff
<1>7. ASSUME NEW c \in Call, Exhaust(c) PROVE OfflineInv'
  <2>1. ASSUME AIOff
        PROVE  Unaided(screen, intent, Done(Fallback(intent, calls[c].all), calls[c].seen), Cheap)
    <3>1. /\ calls[c].all = First(screen, intent, calls[c]) \o Second(screen, intent)
          /\ ~Reaches(First(screen, intent, calls[c]), StopAt(1)) /\ ~Reaches(Second(screen, intent), StopAt(2))
          /\ ~Cheap
      BY <1>7, <2>1, TierLists DEF Exhaust, OfflineInv, Unaided, Gathering
    <3>2. Fallback(intent, calls[c].all) = Offline(screen, intent, calls[c].seen)
      BY <3>1, SecondForAll DEF Offline, First
    <3>3. QED
      BY <3>1, <3>2 DEF Unaided, Done, EndsUnaided
  <2>2. QED
    BY <1>7, <2>1, OneMoves DEF Exhaust
<1>8. ASSUME NEW c \in Call, Return(c) PROVE OfflineInv'
  BY <1>8, OneMoves DEF Return, Unaided, IdleCall
<1>9. CASE NewRun
  BY <1>9 DEF NewRun, OfflineInv, Unaided, fixed, Cheap, AIOff
<1>10. CASE UNCHANGED engine
  BY <1>10 DEF engine, fixed, OfflineInv, Cheap, AIOff
<1>11. QED
  BY <1>1, <1>2, <1>3, <1>4, <1>5, <1>6, <1>7, <1>8, <1>9, <1>10 DEF EngineNext

\* With the AI off, for want of a provider or by max_cost_level=low, a call ends as
\* the deterministic tiers alone would end it, whether ai_first put the unused tier
\* first or the budget is watched, on every page and for every step, with the one
\* exception that the property names: low refuses what neither tier stops at
\* (engine.py, __init__ and ground).
THEOREM AIOffChangesNothing == EngineSpec => []AIOffIsDeterministic
<1>1. OfflineInv => AIOffIsDeterministic
  BY DEF OfflineInv, Unaided, EndsUnaided, Cheap, AIOffIsDeterministic, Finished, DeterministicOutcome
<1>2. QED
  BY SpendInvInit, SpendInvStep, OfflineInitially, OfflineStep, <1>1, PTL DEF EngineSpec

-----------------------------------------------------------------------------
\* What is kept of a sequence is kept once, and a kept first one stays the first.
PlacedAt(d, s, I, at) ==
    /\ \A n \in DOMAIN d : at[n] \in I /\ d[n] = s[at[n]]
    /\ \A n, k \in DOMAIN d : at[n] = at[k] => n = k
    /\ \A i \in I : \E n \in DOMAIN d : at[n] = i
    /\ 1 \in I => 1 \in DOMAIN d /\ at[1] = 1

LEMMA KeptPlaces ==
    ASSUME NEW N \in Nat, NEW s, NEW I \in SUBSET (1..N)
    PROVE  \E at : PlacedAt(Kept(s, I), s, I, at)
<1>1. IsFiniteSet(I) /\ Cardinality(I) \in Nat /\ I \in SUBSET Nat
  <2>1. IsFiniteSet(1..N) /\ 1..N \subseteq Nat
    BY FS_Interval
  <2>2. IsFiniteSet(I)
    BY <2>1, FS_Subset
  <2>3. QED
    BY <2>1, <2>2, FS_CardinalityType
<1> DEFINE place(n) == CHOOSE i \in I : Cardinality({j \in I : j < i}) = n - 1
           D  == 1..Cardinality(I)
           at == [n \in D |-> place(n)]
<1>2. ASSUME NEW n \in D PROVE place(n) \in I /\ Cardinality(Before(I, place(n))) = n - 1
  BY <1>1, PlaceExists DEF Before
<1>3. Kept(s, I) = [n \in D |-> s[place(n)]]
  BY DEF Kept
<1> HIDE DEF place
<1>4. DOMAIN Kept(s, I) = D /\ \A n \in D : at[n] \in I /\ Kept(s, I)[n] = s[at[n]] /\ at[n] = place(n)
  BY <1>2, <1>3
<1>5. ASSUME NEW n \in D, NEW k \in D, at[n] = at[k] PROVE n = k
  <2>1. place(n) = place(k)
    BY <1>4, <1>5
  <2>2. n - 1 = k - 1
    BY <1>2, <2>1
  <2>3. QED
    BY <1>1, <2>2
<1>6. ASSUME 1 \in I PROVE 1 \in D /\ at[1] = 1
  <2>1. Cardinality(I) # 0
    BY <1>1, <1>6, FS_EmptySet
  <2>2. 1 \in D
    BY <1>1, <2>1
  <2>3. Cardinality(Before(I, place(1))) = 0 /\ place(1) \in I
    BY <1>2, <2>2
  <2>4. Before(I, place(1)) = {}
    <3>1. IsFiniteSet(Before(I, place(1)))
      BY <1>1, FS_Subset, Before(I, place(1)) \subseteq I DEF Before
    <3>2. QED
      BY <2>3, <3>1, FS_EmptySet
  <2>5. ~(1 < place(1))
    BY <1>6, <2>4 DEF Before
  <2>6. place(1) \in 1..N
    BY <2>3
  <2>7. place(1) = 1
    BY <2>5, <2>6
  <2>8. QED
    BY <1>4, <2>2, <2>7
<1> HIDE DEF at, D
<1>7. ASSUME NEW i \in I PROVE \E n \in D : at[n] = i
  <2> DEFINE b == Cardinality(Before(I, i))
             n == b + 1
  <2>1. b \in 0..(Cardinality(I) - 1)
    BY <1>1, BeforeGrows
  <2> HIDE DEF b
  <2>2. n \in D /\ n - 1 = b /\ n - 1 \in Nat
    BY <1>1, <2>1 DEF D
  <2> HIDE DEF n
  <2>3. place(n) \in I /\ Cardinality(Before(I, place(n))) = n - 1
    BY <1>2, <2>2
  <2>4. ~(i < place(n)) /\ ~(place(n) < i)
    <3>1. /\ i < place(n) => Cardinality(Before(I, i)) < Cardinality(Before(I, place(n)))
          /\ place(n) < i => Cardinality(Before(I, place(n))) < Cardinality(Before(I, i))
      BY <1>1, <2>3, BeforeGrows
    <3>2. QED
      BY <2>2, <2>3, <3>1 DEF b
  <2>5. place(n) = i
    <3>1. place(n) \in Nat /\ i \in Nat
      BY <1>1, <2>3
    <3>2. QED
      BY <2>4, <3>1
  <2>6. QED
    BY <1>4, <2>2, <2>5
<1>8. PlacedAt(Kept(s, I), s, I, at)
  BY <1>4, <1>5, <1>6, <1>7 DEF PlacedAt
<1>9. QED
  BY <1>8

\* Of each set of twins one is left, and the first ref stays the first.
LEMMA ChoiceOrder ==
    ASSUME NEW cs \in Seq(Candidate), NEW d, NEW twins, NEW best, Choice(d, cs, twins, best)
    PROVE  /\ cs # <<>> => 1 \in DOMAIN d /\ d[1].ref = cs[1].ref
           /\ (\A i, j \in DOMAIN cs : cs[j].ref = cs[i].ref => j \in twins[i])
                => \A n, k \in DOMAIN d : d[n].ref = d[k].ref => n = k
<1> DEFINE s == [i \in DOMAIN cs |-> cs[best[i]]]
           I == {i \in DOMAIN cs : i = Min(twins[i])}
<1>1. Len(cs) \in Nat /\ DOMAIN cs = 1..Len(cs) /\ (cs # <<>> => 1 \in DOMAIN cs)
  OBVIOUS
<1>2. d = Kept(s, I)
  BY DEF Choice, Chosen
<1>3. /\ \A i \in DOMAIN cs : i \in twins[i] /\ twins[i] \subseteq DOMAIN cs /\ best[i] \in twins[i]
      /\ \A i \in DOMAIN cs : \A j \in twins[i] : twins[j] = twins[i]
      /\ \A i \in DOMAIN cs : \A k \in twins[i] : cs[k].ref = cs[i].ref
  BY DEF Choice, AreTwins
<1>4. \A i \in I : i \in DOMAIN cs /\ i = Min(twins[i]) /\ s[i] = cs[best[i]]
  OBVIOUS
<1>5. ASSUME 1 \in DOMAIN cs PROVE 1 \in I
  <2> DEFINE T == twins[1]
  <2>1. T \subseteq Nat /\ T # {} /\ 1 \in T
    <3>1. 1..Len(cs) \subseteq Nat
      OBVIOUS
    <3>2. T \subseteq DOMAIN cs /\ 1 \in T
      BY <1>3, <1>5
    <3>3. QED
      BY <1>1, <3>1, <3>2
  <2>2. \A j \in T : j >= 1
    BY <1>1, <1>3, <1>5
  <2> HIDE DEF T
  <2>3. Min(T) \in T /\ \A j \in T : Min(T) <= j
    BY <2>1, MinIs
  <2>4. Min(T) = 1
    <3> DEFINE m == Min(T)
    <3>1. m \in Nat /\ m <= 1 /\ m >= 1
      BY <2>1, <2>2, <2>3
    <3> HIDE DEF m
    <3>2. m = 1
      BY <3>1
    <3>3. QED
      BY <3>2 DEF m
  <2>5. 1 = Min(twins[1])
    BY <2>4 DEF T
  <2>6. QED
    BY <1>5, <2>5
<1> HIDE DEF s, I
<1>6. PICK at : /\ \A n \in DOMAIN d : at[n] \in I /\ d[n] = s[at[n]]
                /\ \A n, k \in DOMAIN d : at[n] = at[k] => n = k
                /\ 1 \in I => 1 \in DOMAIN d /\ at[1] = 1
  <2>1. I \in SUBSET (1..Len(cs)) /\ Len(cs) \in Nat
    BY <1>1, <1>4
  <2>2. PICK at : PlacedAt(Kept(s, I), s, I, at)
    BY <2>1, KeptPlaces
  <2>3. QED
    BY <1>2, <2>2 DEF PlacedAt
<1>7. \A n \in DOMAIN d : at[n] \in DOMAIN cs /\ d[n] = cs[best[at[n]]] /\ d[n].ref = cs[at[n]].ref
  BY <1>3, <1>4, <1>6
<1>8. cs # <<>> => 1 \in DOMAIN d /\ d[1].ref = cs[1].ref
  BY <1>1, <1>5, <1>6, <1>7
<1>9. ASSUME \A i, j \in DOMAIN cs : cs[j].ref = cs[i].ref => j \in twins[i],
             NEW n \in DOMAIN d, NEW k \in DOMAIN d, d[n].ref = d[k].ref
      PROVE  n = k
  <2>1. cs[at[n]].ref = cs[at[k]].ref
    BY <1>7, <1>9
  <2>2. at[n] \in twins[at[k]]
    BY <1>7, <1>9, <2>1
  <2>3. twins[at[n]] = twins[at[k]]
    BY <1>3, <1>7, <2>2
  <2>4. at[n] = at[k]
    BY <1>4, <1>6, <2>3
  <2>5. QED
    BY <1>6, <2>4
<1>10. QED
  BY <1>8, <1>9

LEMMA TierDedupeFirst ==
    ASSUME NEW cs \in Seq(Candidate), cs # <<>>
    PROVE  1 \in DOMAIN TierDedupe(cs) /\ TierDedupe(cs)[1].ref = cs[1].ref
<1>1. PICK twins, best : Choice(TierDedupe(cs), cs, twins, best)
  BY Candidate \in SUBSET Candidate, TierDedupeChooses
<1>2. QED
  BY <1>1, ChoiceOrder

LEMMA FinalDedupeOnce ==
    ASSUME NEW cs \in Seq(Candidate)
    PROVE  /\ cs # <<>> => 1 \in DOMAIN FinalDedupe(cs) /\ FinalDedupe(cs)[1].ref = cs[1].ref
           /\ \A n, k \in DOMAIN FinalDedupe(cs) : FinalDedupe(cs)[n].ref = FinalDedupe(cs)[k].ref => n = k
<1>1. PICK twins, best : /\ Choice(FinalDedupe(cs), cs, twins, best)
                         /\ \A i, j \in DOMAIN cs : cs[j].ref = cs[i].ref => j \in twins[i]
  BY Candidate \in SUBSET Candidate, FinalDedupeChooses
<1>2. QED
  BY <1>1, ChoiceOrder

LEMMA SingleDedupe ==
    ASSUME NEW c \in Candidate
    PROVE  TierDedupe(<<c>>) = <<c>>
<1> DEFINE cs == <<c>>
           d  == TierDedupe(cs)
           S  == {c}
<1>1. cs \in Seq(S) /\ S \in SUBSET Candidate /\ cs # <<>> /\ DOMAIN cs = {1}
  OBVIOUS
<1> HIDE DEF cs, S
<1>2. PICK twins, best : Choice(d, cs, twins, best)
  BY <1>1, TierDedupeChooses
<1> HIDE DEF d
<1>3. \A i, j \in DOMAIN cs : j \in twins[i]
  BY <1>1, <1>2 DEF Choice, AreTwins
<1>4. cs \in Seq(Candidate)
  BY <1>1
<1>5. 1 \in DOMAIN d /\ \A n, k \in DOMAIN d : d[n].ref = d[k].ref => n = k
  BY <1>1, <1>2, <1>3, <1>4, ChoiceOrder
<1>6. d \in Seq(S) /\ \A n \in DOMAIN d : d[n] \in S
  BY <1>1, <1>2, ChoiceKeeps, SeqMembers
<1>7. \A n \in DOMAIN d : d[n] = c /\ n = 1
  BY <1>5, <1>6 DEF S
<1>8. Len(d) \in Nat /\ DOMAIN d = 1..Len(d) /\ d = [n \in 1..Len(d) |-> d[n]]
  BY <1>6
<1>9. Len(d) = 1
  <2>1. Len(d) \in 1..Len(d)
    BY <1>5, <1>8
  <2>2. QED
    BY <1>7, <1>8, <2>1
<1>10. d = <<c>>
  BY <1>7, <1>8, <1>9
<1>11. QED
  BY <1>10 DEF d, cs

LEMMA SinglePick ==
    ASSUME NEW st, StepOK(st), NEW c \in Candidate
    PROVE  Pick(st, <<c>>) = Resolved(Ranked(c))
<1> DEFINE cs == <<c>>
<1>1. cs \in Seq(Candidate) /\ DOMAIN cs = {1} /\ Len(cs) = 1 /\ cs[1] = c
  OBVIOUS
<1> HIDE DEF cs
<1>2. FirstOf(cs, st.action, DOMAIN cs) \in DOMAIN cs
  BY <1>1, BestExists
<1>3. BestForAction(cs, st.action) = Ranked(c)
  BY <1>1, <1>2 DEF BestForAction
<1>4. ~Ambiguous(cs, st.action)
  BY <1>1 DEF Ambiguous
<1>5. QED
  BY <1>3, <1>4 DEF Pick, cs

-----------------------------------------------------------------------------
\* What the first tier makes of a step without a selector.

\* What it finds on the page itself.
Own(p, st) == ToSet(TreeFinds(st, p)) \union (IF Reaches(TreeFinds(st, p), 8500) THEN {} ELSE ToSet(TextFinds(p)))

\* cs has one of each ref of X, and none of a lower confidence.
Covers(cs, X) ==
    /\ \A c \in ToSet(cs) : c \in X
    /\ \A c \in X : \E d \in ToSet(cs) : d.ref = c.ref /\ d.raw >= c.raw

StartsWith(cs, m) == m # NoMemo => 1 \in DOMAIN cs /\ cs[1].ref = Replay(m).ref

LEMMA FindsType ==
    ASSUME NEW p \in Seq(Element), NEW st, StepOK(st), NEW m, MemoOK(m)
    PROVE  /\ ExplicitFinds(st) \in Seq(Candidate) /\ MemoryFinds(m) \in Seq(Candidate)
           /\ TreeFinds(st, p) \in Seq(Candidate) /\ TextFinds(p) \in Seq(Candidate)
           /\ FuzzyFinds(st, p) \in Seq(Candidate)
<1>1. Apt(p, st, m) \subseteq Candidate
  BY DEF Apt
<1>2. /\ ExplicitFinds(st) \in Seq(Apt(p, st, m)) /\ MemoryFinds(m) \in Seq(Apt(p, st, m))
      /\ TreeFinds(st, p) \in Seq(Apt(p, st, m)) /\ TextFinds(p) \in Seq(Apt(p, st, m))
      /\ FuzzyFinds(st, p) \in Seq(Apt(p, st, m))
  BY ExplicitApt, MemoryApt, TreeApt, TextApt, FuzzyApt
<1>3. \A cs : cs \in Seq(Apt(p, st, m)) => cs \in Seq(Candidate)
  BY <1>1
<1>4. QED
  BY <1>2, <1>3

LEMMA Unselected ==
    ASSUME NEW p \in Seq(Element), NEW st, StepOK(st), st.selector = NoName, NEW m, MemoOK(m)
    PROVE  /\ Reaches(MemoryFinds(m), 8500) => TierResult(p, st, m, 1) = TierDedupe(MemoryFinds(m))
           /\ ~Reaches(MemoryFinds(m), 8500) =>
                TierResult(p, st, m, 1) =
                  TierDedupe(MemoryFinds(m) \o TreeFinds(st, p)
                               \o (IF ~Reaches(TreeFinds(st, p), 8500) THEN TextFinds(p) ELSE <<>>))
<1> DEFINE r1 == ExplicitFinds(st)
           r2 == MemoryFinds(m)
           r3 == TreeFinds(st, p)
           r4 == TextFinds(p)
           t1 == TierResult(p, st, m, 1)
           F2 == IF ~Reaches(r1, 8500) THEN r2 ELSE <<>>
           F3 == IF ~Reaches(r1, 8500) /\ ~Reaches(r2, 8500) THEN r3 ELSE <<>>
           F4 == IF ~Reaches(r1, 8500) /\ ~Reaches(r2, 8500) /\ ~Reaches(r3, 8500) THEN r4 ELSE <<>>
           G4 == IF ~Reaches(r3, 8500) THEN r4 ELSE <<>>
<1>1. t1 = TierDedupe(r1 \o F2 \o F3 \o F4)
  BY TierOneIs
<1>2. /\ r2 \in Seq(Candidate) /\ r3 \in Seq(Candidate) /\ r4 \in Seq(Candidate) /\ <<>> \in Seq(Candidate)
  BY FindsType
<1>3. r1 = <<>> /\ ~Reaches(r1, 8500)
  BY DEF ExplicitFinds, Reaches
<1> HIDE DEF r1, r2, r3, r4, t1
<1>4. F2 = r2
  BY <1>3
<1>5. ASSUME Reaches(r2, 8500) PROVE t1 = TierDedupe(r2)
  <2>1. F3 = <<>> /\ F4 = <<>>
    BY <1>5
  <2> HIDE DEF F2, F3, F4
  <2>2. r1 \o F2 \o F3 \o F4 = r2
    BY <1>2, <1>3, <1>4, <2>1, NothingJoined
  <2>3. QED
    BY <1>1, <2>2
<1>6. ASSUME ~Reaches(r2, 8500) PROVE t1 = TierDedupe(r2 \o r3 \o G4)
  <2>1. F3 = r3 /\ F4 = G4
    BY <1>3, <1>6
  <2> HIDE DEF F2, F3, F4, G4
  <2>2. r1 \o F2 = r2
    BY <1>2, <1>3, <1>4, NothingJoined
  <2>3. QED
    BY <1>1, <2>1, <2>2
<1>7. QED
  BY <1>5, <1>6 DEF t1, r1, r2, r3, r4

LEMMA DedupeCovers ==
    ASSUME NEW cs \in Seq(Candidate)
    PROVE  TierDedupe(cs) \in Seq(Candidate) /\ Covers(TierDedupe(cs), ToSet(cs))
<1> DEFINE d == TierDedupe(cs)
<1>1. cs \in Seq(ToSet(cs)) /\ ToSet(cs) \in SUBSET Candidate
  BY OwnMembers
<1>2. /\ d \in Seq(ToSet(cs))
      /\ \A c \in ToSet(cs) : \E e \in ToSet(d) : e.ref = c.ref /\ e.raw >= c.raw
  BY <1>1, TierDedupeKeeps
<1> HIDE DEF d
<1>3. d \in Seq(Candidate) /\ \A c \in ToSet(d) : c \in ToSet(cs)
  BY <1>1, <1>2, SeqMembers
<1>4. QED
  BY <1>2, <1>3 DEF Covers, d

LEMMA JoinFirst ==
    ASSUME NEW S, NEW a \in Seq(S), NEW b \in Seq(S), a # <<>>
    PROVE  a \o b # <<>> /\ (a \o b)[1] = a[1]
<1>1. Len(a) \in Nat /\ Len(a) # 0 /\ Len(b) \in Nat
  OBVIOUS
<1>2. Len(a \o b) = Len(a) + Len(b) /\ 1 \in 1..Len(a)
  BY <1>1
<1>3. (a \o b)[1] = a[1]
  BY <1>2
<1>4. Len(a \o b) # 0
  BY <1>1, <1>2
<1>5. QED
  BY <1>3, <1>4

LEMMA TierOneCovers ==
    ASSUME NEW p \in Seq(Element), NEW st, StepOK(st), st.selector = NoName, NEW m, MemoOK(m),
           ~Reaches(MemoryFinds(m), 8500)
    PROVE  /\ Covers(TierResult(p, st, m, 1), ToSet(MemoryFinds(m)) \union Own(p, st))
           /\ StartsWith(TierResult(p, st, m, 1), m)
<1> DEFINE r2 == MemoryFinds(m)
           r3 == TreeFinds(st, p)
           r4 == IF ~Reaches(r3, 8500) THEN TextFinds(p) ELSE <<>>
           t1 == TierResult(p, st, m, 1)
           cs == r2 \o r3 \o r4
<1>1. t1 = TierDedupe(cs)
  BY Unselected
<1>2. r2 \in Seq(Candidate) /\ r3 \in Seq(Candidate) /\ r4 \in Seq(Candidate)
  BY FindsType, <<>> \in Seq(Candidate)
<1>3. ToSet(r4) = IF Reaches(r3, 8500) THEN {} ELSE ToSet(TextFinds(p))
  <2>1. ToSet(<<>>) = {}
    BY DEF ToSet
  <2>2. CASE Reaches(r3, 8500)
    <3>1. r4 = <<>>
      BY <2>2
    <3>2. QED
      BY <2>1, <2>2, <3>1
  <2>3. CASE ~Reaches(r3, 8500)
    <3>1. r4 = TextFinds(p)
      BY <2>3
    <3>2. QED
      BY <2>3, <3>1
  <2>4. QED
    BY <2>2, <2>3
<1>4. m # NoMemo => r2 = <<Replay(m)>>
  BY Zenon DEF MemoryFinds
<1> HIDE DEF r2, r4, t1
<1>5. Own(p, st) = ToSet(r3) \union ToSet(r4)
  BY <1>3 DEF Own
<1> HIDE DEF r3
<1>6. r2 \o r3 \in Seq(Candidate) /\ ToSet(r2 \o r3) = ToSet(r2) \union ToSet(r3)
  BY <1>2, ToSetJoin
<1> DEFINE a == r2 \o r3
<1>7. a \in Seq(Candidate) /\ ToSet(a) = ToSet(r2) \union ToSet(r3)
  BY <1>6
<1>8. a \o r4 \in Seq(Candidate) /\ ToSet(a \o r4) = ToSet(a) \union ToSet(r4)
  <2> HIDE DEF a
  <2>1. QED
    BY <1>2, <1>7, ToSetJoin
<1>9. cs \in Seq(Candidate) /\ ToSet(cs) = ToSet(r2) \union Own(p, st)
  BY <1>5, <1>7, <1>8
<1>10. m # NoMemo => cs # <<>> /\ cs[1] = Replay(m)
  <2> DEFINE x == Replay(m)
  <2> HIDE DEF x
  <2> SUFFICES ASSUME m # NoMemo PROVE cs # <<>> /\ cs[1] = x
    BY DEF x
  <2>1. r2 = <<x>>
    BY <1>4 DEF x
  <2>2. r2 # <<>> /\ r2[1] = x
    BY <2>1
  <2>3. a # <<>> /\ a[1] = x
    BY <1>2, <2>2, JoinFirst
  <2> HIDE DEF a
  <2>4. a \o r4 # <<>> /\ (a \o r4)[1] = x
    BY <1>2, <1>7, <2>3, JoinFirst
  <2>5. QED
    BY <2>4 DEF a
<1> HIDE DEF cs
<1>11. Covers(t1, ToSet(cs))
  <2>1. cs \in Seq(Candidate)
    BY <1>9
  <2>2. Covers(TierDedupe(cs), ToSet(cs))
    BY <2>1, DedupeCovers
  <2>3. QED
    BY <1>1, <2>2
<1>12. m # NoMemo => 1 \in DOMAIN t1 /\ t1[1].ref = Replay(m).ref
  BY <1>1, <1>9, <1>10, TierDedupeFirst
<1>13. QED
  BY <1>9, <1>11, <1>12 DEF t1, r2, StartsWith

\* What is found on the page: weighed, and of one ref and confidence there is one.
TextHit(e) == e.label # NoName /\ NameMatch[e.label] \in {"phrase", "keyword"}
TextFound(p) ==
    Kept(p, {i \in DOMAIN p :
        TextHit(p[i]) /\ \A j \in 1..(i - 1) : TextHit(p[j]) => p[j].label # p[i].label})
TextTarget(e) ==
    [ ref |-> <<"text", e.label>>, raw |-> 9000, role |-> NoRole, named |-> FALSE,
      weighed |-> TRUE, by |-> "exact_text",
      signals |-> [ text |-> 10000, role |-> 0, vis |-> 5000,
                    uniq |-> 10000, prox |-> 0, mem |-> 0 ] ]

LEMMA TextIs ==
    ASSUME NEW p \in Seq(Element)
    PROVE  TextFinds(p) = [i \in DOMAIN TextFound(p) |-> TextTarget(TextFound(p)[i])]
  BY DEF TextFinds, FirstOfEach, TextFound, TextTarget, TextHit

LEMMA TextOnce ==
    ASSUME NEW p \in Seq(Element), NEW c \in ToSet(TextFinds(p)), NEW d \in ToSet(TextFinds(p)), c.ref = d.ref
    PROVE  c = d
<1>1. PICK e : c = TextTarget(e)
  BY TextIs DEF ToSet
<1>2. PICK f : d = TextTarget(f)
  BY TextIs DEF ToSet
<1>3. <<"text", e.label>> = <<"text", f.label>>
  BY <1>1, <1>2 DEF TextTarget
<1>4. e.label = f.label
  BY <1>3
<1>5. QED
  BY <1>1, <1>2, <1>4 DEF TextTarget

LEMMA OwnOnce ==
    ASSUME NEW p \in Seq(Element), NEW st, StepOK(st), ~DropdownIntent(st),
           NEW c \in Own(p, st), NEW d \in Own(p, st), c.ref = d.ref
    PROVE  c = d
<1>1. ASSUME NEW x \in ToSet(TreeFinds(st, p)), NEW y \in ToSet(TextFinds(p)) PROVE x.ref # y.ref
  BY TreeMarks, TextMarks DEF Role
<1>2. QED
  BY <1>1, TreeMarks, TextOnce DEF Own

LEMMA TreeNamedRaw ==
    ASSUME NEW p \in Seq(Element), NEW st, StepOK(st), ~DropdownIntent(st),
           NEW c \in ToSet(TreeFinds(st, p)), c.ref[2] # NoName
    PROVE  c.raw \in {7000, 7300, 8000, 8300, 9600, 9900}
<1>1. PICK e \in Element : c = TreeTarget(st, TreeFound(st, p), e) /\ TreeConfidence(st, e) > 0
  BY TreeShape
<1>2. c.ref = <<e.role, e.label>> /\ c.raw = Biased(st, e)
  BY <1>1 DEF TreeTarget, RefOf
<1>3. e.label # NoName
  BY <1>2
<1>4. TreeConfidence(st, e) \in {7000, 8000, 9600}
  BY <1>1, <1>3, TreeRaw
<1>5. QED
  BY <1>2, <1>4, TreeRaw

LEMMA FuzzyOnce ==
    ASSUME NEW p \in Seq(Element), NEW st
    PROVE  /\ \A c \in ToSet(FuzzyFinds(st, p)) : c.ref[2] # NoName /\ c.ref[1] \in Role
           /\ \A c, d \in ToSet(FuzzyFinds(st, p)) : c.ref = d.ref => c = d
<1>1. ASSUME NEW c \in ToSet(FuzzyFinds(st, p))
      PROVE  \E e \in Element : c = FuzzyTarget(st, e) /\ FuzzyHit(e)
  <2> DEFINE I == {i \in DOMAIN p :
                     FuzzyHit(p[i]) /\ \A j \in 1..(i - 1) : FuzzyHit(p[j]) => RefOf(p[j]) # RefOf(p[i])}
             found == FuzzyFound(p)
  <2>1. found \in Seq({p[i] : i \in I})
    BY PageKept DEF FuzzyFound
  <2>2. \A x \in {p[i] : i \in I} : x \in Element /\ FuzzyHit(x)
    OBVIOUS
  <2> HIDE DEF I, found
  <2>3. \A n \in DOMAIN found : found[n] \in Element /\ FuzzyHit(found[n])
    BY <2>1, <2>2, SeqMembers
  <2>4. PICK n \in DOMAIN found : c = FuzzyTarget(st, found[n])
    BY FuzzyIs DEF ToSet, found
  <2>5. QED
    BY <2>3, <2>4
<1>2. \A e \in Element : e = [role |-> e.role, label |-> e.label] /\ e.role \in Role
  BY DEF Element
<1>3. \A e : FuzzyTarget(st, e).ref = <<e.role, e.label>>
  BY DEF FuzzyTarget, RefOf
<1>4. ASSUME NEW c \in ToSet(FuzzyFinds(st, p)) PROVE c.ref[2] # NoName /\ c.ref[1] \in Role
  BY <1>1, <1>2, <1>3 DEF FuzzyHit
<1>5. ASSUME NEW c \in ToSet(FuzzyFinds(st, p)), NEW d \in ToSet(FuzzyFinds(st, p)), c.ref = d.ref PROVE c = d
  <2>1. PICK e \in Element : c = FuzzyTarget(st, e)
    BY <1>1
  <2>2. PICK f \in Element : d = FuzzyTarget(st, f)
    BY <1>1
  <2>3. <<e.role, e.label>> = <<f.role, f.label>>
    BY <1>3, <1>5, <2>1, <2>2
  <2>4. e.role = f.role /\ e.label = f.label
    BY <2>3
  <2>5. e = f
    BY <1>2, <2>4
  <2>6. QED
    BY <2>1, <2>2, <2>5
<1>6. QED
  BY <1>4, <1>5

\* Everything the two tiers find on the page.
OnPage(p, st) == Own(p, st) \union ToSet(FuzzyFinds(st, p))

LEMMA OnPageOnce ==
    ASSUME NEW p \in Seq(Element), NEW st, StepOK(st), ~DropdownIntent(st),
           NEW c \in OnPage(p, st), NEW d \in OnPage(p, st), c.ref = d.ref, c.raw = d.raw
    PROVE  c = d
<1>1. ASSUME NEW x \in Own(p, st), NEW y \in ToSet(FuzzyFinds(st, p)), x.ref = y.ref, x.raw = y.raw PROVE FALSE
  <2>1. y.ref[2] # NoName /\ y.ref[1] \in Role /\ y.raw \in {8200, 7200, 6200}
    BY FuzzyOnce, FuzzyMarks
  <2>2. x \notin ToSet(TextFinds(p))
    BY <1>1, <2>1, TextMarks DEF Role
  <2>3. x \in ToSet(TreeFinds(st, p))
    BY <2>2 DEF Own
  <2>4. x.raw \in {7000, 7300, 8000, 8300, 9600, 9900}
    BY <1>1, <2>1, <2>3, TreeNamedRaw
  <2>5. QED
    BY <1>1, <2>1, <2>4
<1>2. CASE c \in Own(p, st) /\ d \in Own(p, st)
  BY <1>2, OwnOnce
<1>3. CASE c \in ToSet(FuzzyFinds(st, p)) /\ d \in ToSet(FuzzyFinds(st, p))
  BY <1>3, FuzzyOnce
<1>4. QED
  BY <1>1, <1>2, <1>3 DEF OnPage

\* Nothing found on a page, or given by a selector, has a memory signal.
Memoryless(c) == c.weighed /\ c.signals.mem = 0

LEMMA FoundFresh ==
    ASSUME NEW p \in Seq(Element), NEW st, ~DropdownIntent(st)
    PROVE  \A c \in UNION {ToSet(ExplicitFinds(st)), ToSet(TreeFinds(st, p)),
                           ToSet(TextFinds(p)), ToSet(FuzzyFinds(st, p))} : Memoryless(c)
<1>1. ASSUME NEW c \in ToSet(ExplicitFinds(st)) PROVE Memoryless(c)
  BY DEF ExplicitFinds, ToSet, Memoryless
<1>2. ASSUME NEW c \in ToSet(TreeFinds(st, p)) PROVE Memoryless(c)
  <2>1. PICK e : c = TreeTarget(st, TreeFound(st, p), e)
    BY TreeShape
  <2>2. QED
    BY <2>1 DEF TreeTarget, TreeSignals, Memoryless
<1>3. ASSUME NEW c \in ToSet(TextFinds(p)) PROVE Memoryless(c)
  <2>1. PICK e : c = TextTarget(e)
    BY TextIs DEF ToSet
  <2>2. QED
    BY <2>1 DEF TextTarget, Memoryless
<1>4. ASSUME NEW c \in ToSet(FuzzyFinds(st, p)) PROVE Memoryless(c)
  <2>1. PICK e : c = FuzzyTarget(st, e)
    BY FuzzyIs DEF ToSet
  <2>2. QED
    BY <2>1 DEF FuzzyTarget, Memoryless
<1>5. QED
  BY <1>1, <1>2, <1>3, <1>4

-----------------------------------------------------------------------------
\* Targets and their replays.

\* m is the target g or a replay of it.
SignalsOf(g, x) == [g.signals EXCEPT !.mem = x]
Kin(m, g) ==
    /\ m \in Candidate /\ m.ref = g.ref /\ m.role = g.role
    /\ m.weighed /\ m.raw = Score(m)
    /\ \E x \in {0, 8000} : m.signals = SignalsOf(g, x)

LEMMA SignalsNat ==
    ASSUME NEW s \in Signals
    PROVE  s.text \in Nat /\ s.role \in Nat /\ s.vis \in Nat /\ s.uniq \in Nat /\ s.prox \in Nat /\ s.mem \in Nat
  BY BpNat DEF Signals

LEMMA SignalsSet ==
    ASSUME NEW g \in Candidate
    PROVE  /\ g.signals.mem = 0 => SignalsOf(g, 0) = g.signals
           /\ \A x \in {0, 8000} : SignalsOf(g, x) \in Signals /\ SignalsOf(g, x).mem = x
           /\ \A m, x, y : m.signals = SignalsOf(g, x) => SignalsOf(m, y) = SignalsOf(g, y)
<1>1. g.signals \in Signals
  BY DEF Candidate
<1>2. 0 \in Bp /\ 8000 \in Bp
  BY DEF Bp
<1>3. \A x \in Bp : SignalsOf(g, x) \in Signals /\ SignalsOf(g, x).mem = x
  BY <1>1 DEF SignalsOf, Signals
<1>4. g.signals.mem = 0 => SignalsOf(g, 0) = g.signals
  BY <1>1 DEF SignalsOf, Signals
<1>5. \A m, x, y : m.signals = SignalsOf(g, x) => SignalsOf(m, y) = SignalsOf(g, y)
  BY <1>1 DEF SignalsOf, Signals
<1>6. QED
  BY <1>2, <1>3, <1>4, <1>5

\* The weight of a memory signal.
LEMMA MemoryWeight ==
    ASSUME NEW g \in Candidate, g.weighed, g.signals.mem = 0,
           NEW m \in Candidate, m.weighed, m.signals = SignalsOf(g, 8000)
    PROVE  Score(m) = Score(g) + 800
<1> DEFINE s == g.signals
           b == 30 * s.text + 20 * s.role + 15 * s.vis + 15 * s.uniq + 10 * s.prox
<1>1. s \in Signals
  BY DEF Candidate
<1>2. s.text \in Nat /\ s.role \in Nat /\ s.vis \in Nat /\ s.uniq \in Nat /\ s.prox \in Nat
  BY <1>1, SignalsNat
<1>3. Score(g) = (b + 10 * 0 + 50) \div 100
  BY DEF Score
<1>4. /\ m.signals.text = s.text /\ m.signals.role = s.role /\ m.signals.vis = s.vis
      /\ m.signals.uniq = s.uniq /\ m.signals.prox = s.prox /\ m.signals.mem = 8000
  BY <1>1 DEF Signals, SignalsOf
<1>5. Score(m) = (b + 10 * 8000 + 50) \div 100
  BY <1>4 DEF Score
<1>6. b \in Nat
  BY <1>2
<1> HIDE DEF b
<1>7. (b + 10 * 8000 + 50) \div 100 = (b + 10 * 0 + 50) \div 100 + 800
  BY <1>6, SMT
<1>8. QED
  BY <1>3, <1>5, <1>7

LEMMA RankedKin ==
    ASSUME NEW c \in Candidate, NEW g, c.ref = g.ref, c.role = g.role, c.weighed,
           NEW x \in {0, 8000}, c.signals = SignalsOf(g, x)
    PROVE  Kin(Ranked(c), g)
<1>1. Score(c) \in Bp
  BY ScoreType
<1>2. /\ Ranked(c) \in Candidate /\ Ranked(c).role = c.role /\ Ranked(c).signals = c.signals
  BY <1>1 DEF Ranked, Candidate, Resolver
<1>3. Ranked(c).raw = Score(Ranked(c)) /\ Ranked(c).ref = c.ref /\ Ranked(c).weighed
  BY RankedScore
<1>4. QED
  BY <1>2, <1>3 DEF Kin

Restamp(m, s) == [m EXCEPT !.weighed = TRUE, !.by = "memory_cache", !.signals = s]
LEMMA Restamped ==
    ASSUME NEW m \in Candidate, NEW s \in Signals
    PROVE  /\ Restamp(m, s) \in Candidate /\ Restamp(m, s).ref = m.ref /\ Restamp(m, s).role = m.role
           /\ Restamp(m, s).weighed /\ Restamp(m, s).signals = s
<1> DEFINE r == Restamp(m, s)
<1>1. r = [m EXCEPT !.weighed = TRUE, !.by = "memory_cache", !.signals = s]
  BY DEF Restamp
<1>2. m \in Candidate /\ s \in Signals
  OBVIOUS
<1> HIDE DEF r
<1>3. r \in Candidate /\ r.ref = m.ref /\ r.role = m.role /\ r.weighed /\ r.signals = s
  BY <1>1, <1>2 DEF Candidate, Resolver
<1>4. QED
  BY <1>3 DEF r

LEMMA WeighedReplay ==
    ASSUME NEW m \in Candidate, m.weighed, [m.signals EXCEPT !.mem = Max({@, 8000})] \in Signals
    PROVE  /\ Replay(m) \in Candidate /\ Replay(m).ref = m.ref /\ Replay(m).role = m.role
           /\ Replay(m).weighed /\ Replay(m).signals = [m.signals EXCEPT !.mem = Max({@, 8000})]
<1> DEFINE s == [m.signals EXCEPT !.mem = Max({@, 8000})]
<1>1. Replay(m) = Restamp(m, s)
  BY DEF Replay, Restamp
<1>2. s \in Signals
  OBVIOUS
<1> HIDE DEF s
<1>3. /\ Restamp(m, s) \in Candidate /\ Restamp(m, s).ref = m.ref /\ Restamp(m, s).role = m.role
      /\ Restamp(m, s).weighed /\ Restamp(m, s).signals = s
  BY <1>2, Restamped
<1>4. QED
  BY <1>1, <1>3 DEF s

LEMMA ReplayOfKin ==
    ASSUME NEW g \in Candidate, Memoryless(g), NEW m, Kin(m, g)
    PROVE  /\ Replay(m) \in Candidate
           /\ Replay(m).ref = g.ref /\ Replay(m).role = g.role /\ Replay(m).weighed
           /\ Replay(m).signals = SignalsOf(g, 8000)
           /\ Score(Replay(m)) = Score(g) + 800
           /\ Kin(Ranked(Replay(m)), g)
<1>1. m \in Candidate /\ m.ref = g.ref /\ m.role = g.role /\ m.weighed
  BY DEF Kin
<1>2. PICK x \in {0, 8000} : m.signals = SignalsOf(g, x)
  BY DEF Kin
<1>3. m.signals.mem = x /\ SignalsOf(g, 8000) \in Signals
  BY <1>2, SignalsSet
<1>4. Max({m.signals.mem, 8000}) = 8000
  <2>1. x = 0 \/ x = 8000
    OBVIOUS
  <2>2. Max({0, 8000}) = 8000
    BY DEF Max
  <2>3. Max({8000, 8000}) = 8000
    BY DEF Max
  <2>4. QED
    BY <1>3, <2>1, <2>2, <2>3
<1>5. [m.signals EXCEPT !.mem = 8000] = SignalsOf(g, 8000)
  <2>1. SignalsOf(m, 8000) = SignalsOf(g, 8000)
    BY <1>2, SignalsSet
  <2>2. QED
    BY <2>1 DEF SignalsOf
<1> DEFINE r == Replay(m)
<1>6. [m.signals EXCEPT !.mem = Max({@, 8000})] = SignalsOf(g, 8000)
  BY <1>4, <1>5
<1>7. /\ r \in Candidate /\ r.ref = g.ref /\ r.role = g.role /\ r.weighed
      /\ r.signals = SignalsOf(g, 8000)
  <2>1. /\ r \in Candidate /\ r.ref = m.ref /\ r.role = m.role /\ r.weighed
        /\ r.signals = [m.signals EXCEPT !.mem = Max({@, 8000})]
    BY <1>1, <1>3, <1>6, WeighedReplay
  <2>2. QED
    BY <1>1, <1>6, <2>1
<1> HIDE DEF r
<1>8. Score(r) = Score(g) + 800
  BY <1>7, MemoryWeight DEF Memoryless
<1>9. Kin(Ranked(r), g)
  BY <1>7, RankedKin
<1>10. QED
  BY <1>7, <1>8, <1>9 DEF r

-----------------------------------------------------------------------------
\* A choice stands when the chosen scores no less and the others are the same.

\* By score and then by role.
AtLeast(st, c, d) ==
    \/ Score(c) > Score(d)
    \/ Score(c) = Score(d) /\ RoleFit(st.action, c.role) >= RoleFit(st.action, d.role)

LEMMA MarksNat ==
    ASSUME NEW st, StepOK(st), NEW c \in Candidate
    PROVE  Score(c) \in Nat /\ RoleFit(st.action, c.role) \in Nat
<1>1. c.role \in Role \union {NoRole}
  BY DEF Candidate
<1>2. RoleFit(st.action, c.role) \in Bp
  BY <1>1, FitType
<1>3. RoleFit(st.action, c.role) \in Nat
  <2> DEFINE x == RoleFit(st.action, c.role)
  <2> HIDE DEF x
  <2>1. x \in Bp
    BY <1>2 DEF x
  <2>2. x \in Nat
    BY <2>1, BpNat
  <2>3. QED
    BY <2>2 DEF x
<1>4. Score(c) \in Nat
  BY ScoreNat
<1>5. QED
  BY <1>3, <1>4

\* The first among some places of a list.
LEMMA BestOf ==
    ASSUME NEW st, StepOK(st), NEW cs \in Seq(Candidate), NEW I \in SUBSET DOMAIN cs, I # {}
    PROVE  /\ FirstOf(cs, st.action, I) \in I
           /\ \A j \in I : AtLeast(st, cs[FirstOf(cs, st.action, I)], cs[j])
<1> DEFINE i == FirstOf(cs, st.action, I)
<1>1. i \in I /\ \A j \in I \ {i} : Precedes(cs, st.action, i, j)
  BY BestExists
<1> HIDE DEF i
<1>2. \A j \in I : cs[j] \in Candidate
  BY SeqMembers
<1>3. ASSUME NEW j \in I PROVE AtLeast(st, cs[i], cs[j])
  <2>1. Score(cs[i]) \in Nat /\ RoleFit(st.action, cs[i].role) \in Nat
    BY <1>1, <1>2, MarksNat
  <2>2. Score(cs[j]) \in Nat /\ RoleFit(st.action, cs[j].role) \in Nat
    BY <1>2, MarksNat
  <2>3. CASE j = i
    BY <2>1, <2>3 DEF AtLeast
  <2>4. CASE j # i
    <3>1. Precedes(cs, st.action, i, j)
      BY <1>1, <2>4
    <3>2. QED
      BY <2>1, <2>2, <3>1 DEF Precedes, AtLeast
  <2>5. QED
    BY <2>3, <2>4
<1>4. QED
  BY <1>1, <1>3 DEF i

\* V is the list U with another candidate of T's ref in T's stead, the first one.
Stead(U, V, T) ==
    /\ \A n, k \in DOMAIN U : U[n].ref = U[k].ref => n = k
    /\ \A n, k \in DOMAIN V : V[n].ref = V[k].ref => n = k
    /\ \A c : c.ref # T.ref => (c \in ToSet(U) <=> c \in ToSet(V))
    /\ V # <<>> /\ V[1].ref = T.ref /\ V[1].role = T.role /\ Score(V[1]) >= Score(T)

LEMMA FirstStays ==
    ASSUME NEW st, StepOK(st), NEW U \in Seq(Candidate), NEW V \in Seq(Candidate), U # <<>>,
           Stead(U, V, U[FirstOf(U, st.action, DOMAIN U)])
    PROVE  FirstOf(V, st.action, DOMAIN V) = 1
<1> DEFINE T == U[FirstOf(U, st.action, DOMAIN U)]
           k == FirstOf(V, st.action, DOMAIN V)
<1>0. /\ \A n, l \in DOMAIN V : V[n].ref = V[l].ref => n = l
      /\ \A c : c.ref # T.ref => (c \in ToSet(U) <=> c \in ToSet(V))
      /\ V # <<>> /\ V[1].ref = T.ref /\ V[1].role = T.role /\ Score(V[1]) >= Score(T)
  BY DEF Stead
<1>1. DOMAIN U # {} /\ DOMAIN V # {}
  BY <1>0, SeqMembers
<1>2. DOMAIN V = 1..Len(V) /\ Len(V) \in Nat
  OBVIOUS
<1>3. 1 \in DOMAIN V /\ \A n \in DOMAIN V : n \in Nat /\ n >= 1
  BY <1>1, <1>2
<1>4. k \in DOMAIN V /\ \A j \in DOMAIN V \ {k} : Precedes(V, st.action, k, j)
  BY <1>1, BestExists
<1>5. T \in Candidate /\ \A j \in DOMAIN U : AtLeast(st, T, U[j])
  BY <1>1, BestOf, SeqMembers
<1> HIDE DEF T, k
<1>6. SUFFICES ASSUME k # 1 PROVE FALSE
  BY DEF k
<1>7. Precedes(V, st.action, k, 1)
  BY <1>3, <1>4, <1>6
<1>8. V[k].ref # T.ref /\ V[k] \in ToSet(V) /\ V[k] \in Candidate /\ V[1] \in Candidate
  BY <1>0, <1>3, <1>4, <1>6, SeqMembers DEF ToSet
<1>9. AtLeast(st, T, V[k])
  BY <1>0, <1>5, <1>8 DEF ToSet
<1>10. /\ Score(T) \in Nat /\ RoleFit(st.action, T.role) \in Nat
       /\ Score(V[k]) \in Nat /\ RoleFit(st.action, V[k].role) \in Nat
       /\ Score(V[1]) \in Nat
  BY <1>5, <1>8, MarksNat
<1>11. RoleFit(st.action, V[1].role) = RoleFit(st.action, T.role) /\ Score(V[1]) >= Score(T)
  BY <1>0
<1>12. ~(k < 1)
  BY <1>3, <1>4
<1>13. QED
  BY <1>7, <1>9, <1>10, <1>11, <1>12 DEF Precedes, AtLeast

LEMMA StillChosen ==
    ASSUME NEW st, StepOK(st), NEW U \in Seq(Candidate), NEW V \in Seq(Candidate), U # <<>>,
           Stead(U, V, U[FirstOf(U, st.action, DOMAIN U)]), ~Ambiguous(U, st.action)
    PROVE  Pick(st, V) = Resolved(Ranked(V[1]))
<1> DEFINE a == st.action
           i == FirstOf(U, a, DOMAIN U)
           T == U[i]
           j == FirstOf(V, a, DOMAIN V \ {1})
           q == FirstOf(U, a, DOMAIN U \ {i})
<1>0. /\ \A n, l \in DOMAIN U : U[n].ref = U[l].ref => n = l
      /\ \A n, l \in DOMAIN V : V[n].ref = V[l].ref => n = l
      /\ \A c : c.ref # T.ref => (c \in ToSet(U) <=> c \in ToSet(V))
      /\ V # <<>> /\ V[1].ref = T.ref /\ V[1].role = T.role /\ Score(V[1]) >= Score(T)
  BY DEF Stead
<1>1. FirstOf(V, a, DOMAIN V) = 1
  BY FirstStays
<1>2. ~Ambiguous(V, a) => Pick(st, V) = Resolved(Ranked(V[1]))
  BY <1>1 DEF Pick, BestForAction
<1>3. ASSUME Ambiguous(V, a) PROVE FALSE
  <2>1. /\ a \notin {"verify", "extract"} /\ Len(V) >= 2
        /\ Score(V[1]) - Score(V[j]) < AmbiguousGap
        /\ RoleFit(a, V[1].role) <= RoleFit(a, V[j].role)
    BY <1>1, <1>3 DEF Ambiguous
  <2>2. 1 \in DOMAIN V /\ 2 \in DOMAIN V
    BY <2>1, DOMAIN V = 1..Len(V), Len(V) \in Nat
  <2>3. DOMAIN U # {} /\ i \in DOMAIN U
    <3>1. DOMAIN U # {}
      BY SeqMembers
    <3>2. QED
      BY <3>1, BestOf
  <2>4. j \in DOMAIN V \ {1} /\ \A n \in DOMAIN V \ {1} : AtLeast(st, V[j], V[n])
    <3>1. 2 \in DOMAIN V \ {1}
      BY <2>2
    <3>2. DOMAIN V \ {1} \in SUBSET DOMAIN V /\ DOMAIN V \ {1} # {}
      BY <3>1
    <3>3. QED
      BY <3>2, BestOf
  <2> HIDE DEF j
  <2>5. V[j] \in ToSet(V) /\ V[j].ref # T.ref
    BY <1>0, <2>2, <2>4 DEF ToSet
  <2>6. PICK l \in DOMAIN U : U[l] = V[j]
    BY <1>0, <2>5 DEF ToSet
  <2>7. l # i
    BY <2>5, <2>6
  <2>8. q \in DOMAIN U \ {i} /\ \A n \in DOMAIN U \ {i} : AtLeast(st, U[q], U[n])
    <3>1. DOMAIN U \ {i} \in SUBSET DOMAIN U /\ DOMAIN U \ {i} # {}
      BY <2>6, <2>7
    <3>2. QED
      BY <3>1, BestOf
  <2> HIDE DEF q
  <2>9. U[q] \in ToSet(U) /\ U[q].ref # T.ref
    BY <1>0, <2>3, <2>8 DEF ToSet
  <2>10. PICK n \in DOMAIN V : V[n] = U[q]
    BY <1>0, <2>9 DEF ToSet
  <2>11. n # 1
    BY <1>0, <2>9, <2>10
  <2>12. AtLeast(st, U[q], V[j]) /\ AtLeast(st, V[j], U[q])
    BY <2>4, <2>6, <2>7, <2>8, <2>10, <2>11
  <2>13. Len(U) >= 2
    <3>1. DOMAIN U = 1..Len(U) /\ Len(U) \in Nat
      OBVIOUS
    <3> HIDE DEF i, T
    <3>2. i \in 1..Len(U) /\ q \in 1..Len(U) /\ q # i
      BY <2>3, <2>8, <3>1
    <3>3. QED
      BY <3>1, <3>2
  <2>14. ~(Score(T) - Score(U[q]) < AmbiguousGap /\ RoleFit(a, T.role) <= RoleFit(a, U[q].role))
    BY <2>1, <2>13 DEF Ambiguous, q
  <2>15. T \in Candidate /\ U[q] \in Candidate /\ V[j] \in Candidate /\ V[1] \in Candidate
    BY <2>2, <2>3, <2>4, <2>8, SeqMembers
  <2> HIDE DEF T
  <2>16. /\ Score(T) \in Nat /\ Score(V[1]) \in Nat
         /\ Score(U[q]) \in Nat /\ RoleFit(a, U[q].role) \in Nat
         /\ Score(V[j]) \in Nat /\ RoleFit(a, V[j].role) \in Nat
    BY <2>15, MarksNat
  <2>17. Score(U[q]) = Score(V[j]) /\ RoleFit(a, U[q].role) = RoleFit(a, V[j].role)
    BY <2>12, <2>16 DEF AtLeast
  <2>18. RoleFit(a, V[1].role) = RoleFit(a, T.role) /\ Score(V[1]) >= Score(T)
    BY <1>0
  <2>19. QED
    BY <2>1, <2>14, <2>16, <2>17, <2>18 DEF AmbiguousGap
<1>4. QED
  BY <1>2, <1>3

-----------------------------------------------------------------------------
\* Grounding again, with the row of an earlier call.

Cold(p, st) == Offline(p, st, NoMemo)
Agrees(p, st, m) ==
    Offline(p, st, m).kind = "resolved" /\ Kin(Offline(p, st, m).target, Cold(p, st).target)

LEMMA NoMemoOK == MemoOK(NoMemo) /\ MemoryFinds(NoMemo) = <<>> /\ ToSet(MemoryFinds(NoMemo)) = {}
  BY DEF MemoOK, MemoryFinds, ToSet

LEMMA ColdTarget ==
    ASSUME NEW p \in Seq(Element), NEW st, StepOK(st), ~DropdownIntent(st), Cold(p, st).kind = "resolved"
    PROVE  \E T \in Candidate : Memoryless(T) /\ Cold(p, st).target = Ranked(T)
<1>1. PICK c \in Candidate : Cold(p, st).target = Ranked(c) /\ Deciding(p, st, NoMemo, c)
  BY NoMemoOK, Decided DEF Cold
<1>2. /\ ToSet(Every(p, st, NoMemo)) = ToSet(TierResult(p, st, NoMemo, 1)) \union ToSet(TierResult(p, st, NoMemo, 2))
      /\ \A x \in ToSet(FinalDedupe(Every(p, st, NoMemo))) : x \in ToSet(Every(p, st, NoMemo))
  BY NoMemoOK, TiersType
<1>3. c \in ToSet(TierResult(p, st, NoMemo, 1)) \/ c \in ToSet(TierResult(p, st, NoMemo, 2))
  BY <1>1, <1>2 DEF Deciding
<1>4. \/ c \in ToSet(ExplicitFinds(st)) \/ c \in ToSet(TreeFinds(st, p))
      \/ c \in ToSet(TextFinds(p)) \/ c \in ToSet(FuzzyFinds(st, p))
  BY <1>3, NoMemoOK, TierOneHolds, TierTwoHolds
<1>5. Memoryless(c)
  BY <1>4, FoundFresh
<1>6. QED
  BY <1>1, <1>5

\* What is answered with: a target without a memory signal is kin to itself.
LEMMA MemorylessKin ==
    ASSUME NEW T \in Candidate, Memoryless(T)
    PROVE  /\ Ranked(T) \in Candidate /\ Memoryless(Ranked(T)) /\ Ranked(T).ref = T.ref
           /\ Ranked(T).role = T.role /\ Score(Ranked(T)) = Score(T)
           /\ Kin(Ranked(T), Ranked(T))
<1> DEFINE g == Ranked(T)
<1>1. Score(T) \in Bp
  BY ScoreType
<1>2. g \in Candidate /\ g.role = T.role /\ g.signals = T.signals
  BY <1>1 DEF Ranked, Candidate, Resolver
<1>3. g.raw = Score(T) /\ Score(g) = Score(T) /\ g.ref = T.ref /\ g.weighed = T.weighed
  BY RankedScore
<1> HIDE DEF g
<1>4. Memoryless(g)
  BY <1>2, <1>3 DEF Memoryless
<1>5. g.signals = SignalsOf(g, 0)
  BY <1>2, <1>4, SignalsSet DEF Memoryless
<1>6. Kin(g, g)
  BY <1>2, <1>3, <1>4, <1>5 DEF Kin, Memoryless
<1>7. QED
  BY <1>2, <1>3, <1>4, <1>6 DEF g

LEMMA ColdAgrees ==
    ASSUME NEW p \in Seq(Element), NEW st, StepOK(st), ~DropdownIntent(st), Cold(p, st).kind = "resolved"
    PROVE  Agrees(p, st, NoMemo) /\ Memoryless(Cold(p, st).target) /\ Cold(p, st).target \in Candidate
<1>1. PICK T \in Candidate : Memoryless(T) /\ Cold(p, st).target = Ranked(T)
  BY ColdTarget
<1>2. Ranked(T) \in Candidate /\ Memoryless(Ranked(T)) /\ Kin(Ranked(T), Ranked(T))
  BY <1>1, MemorylessKin
<1>3. QED
  BY <1>1, <1>2 DEF Agrees, Cold

\* What does not look at the row ends the same.
LEMMA SameTier ==
    ASSUME NEW p, NEW st, NEW m, TierResult(p, st, m, 1) = TierResult(p, st, NoMemo, 1)
    PROVE  Offline(p, st, m) = Cold(p, st)
  BY SecondForAll DEF Offline, Cold

LEMMA SelectorAgrees ==
    ASSUME NEW p, NEW st, st.selector # NoName, NEW m
    PROVE  Offline(p, st, m) = Cold(p, st)
<1>1. PICK x : ExplicitFinds(st) = <<x>> /\ Score(x) >= 8500
  BY ExplicitScores
<1>2. Reaches(ExplicitFinds(st), 8500)
  <2> DEFINE cs == ExplicitFinds(st)
  <2>1. cs # <<>> /\ DOMAIN cs = {1} /\ cs[1] = x
    BY <1>1
  <2> HIDE DEF cs
  <2>2. {Score(cs[i]) : i \in DOMAIN cs} = {Score(x)}
    BY <2>1
  <2>3. Max({Score(x)}) = Score(x)
    BY DEF Max
  <2>4. QED
    BY <1>1, <2>1, <2>2, <2>3 DEF Reaches, BestScore, cs
<1>3. TierResult(p, st, m, 1) = TierResult(p, st, NoMemo, 1)
  BY <1>2, TierOneIs
<1>4. QED
  BY <1>3, SameTier

LEMMA RowFound == \A m : m # NoMemo => MemoryFinds(m) = <<Replay(m)>>
  BY Zenon DEF MemoryFinds

\* The row alone decides.
LEMMA SureAgrees ==
    ASSUME NEW p \in Seq(Element), NEW st, StepOK(st), ~DropdownIntent(st), Cold(p, st).kind = "resolved",
           st.selector = NoName, NEW m, m # NoMemo, Kin(m, Cold(p, st).target), Score(Replay(m)) >= 8500
    PROVE  Agrees(p, st, m)
<1> DEFINE g == Cold(p, st).target
           r == Replay(m)
           t1 == TierResult(p, st, m, 1)
<1>1. g \in Candidate /\ Memoryless(g)
  BY ColdAgrees
<1>2. r \in Candidate /\ Kin(Ranked(r), g)
  BY <1>1, ReplayOfKin
<1>3. MemoryFinds(m) = <<r>>
  BY RowFound
<1>4. MemoOK(m)
  BY DEF MemoOK, Kin
<1> HIDE DEF r, g
<1>5. Reaches(<<r>>, 8500) /\ 8500 \in Nat
  BY <1>2, SingleTier, 8500 \in Nat DEF r
<1>6. TierDedupe(<<r>>) = <<r>>
  BY <1>2, SingleDedupe
<1>7. t1 = <<r>>
  <2>1. Reaches(MemoryFinds(m), 8500)
    BY <1>3, <1>5
  <2>2. t1 = TierDedupe(MemoryFinds(m))
    BY <1>4, <2>1, Unselected
  <2>3. QED
    BY <1>3, <1>6, <2>2
<1>8. Offline(p, st, m) = Pick(st, <<r>>)
  BY <1>5, <1>7 DEF Offline, StopAt, AcceptThreshold
<1>9. Pick(st, <<r>>) = Resolved(Ranked(r))
  BY <1>2, SinglePick
<1>10. Offline(p, st, m).kind = "resolved" /\ Offline(p, st, m).target = Ranked(r)
  BY <1>8, <1>9 DEF Resolved
<1>11. QED
  BY <1>2, <1>10 DEF Agrees, g

\* The first tier without a row has found all it finds of the page, each once.
LEMMA ColdTierOne ==
    ASSUME NEW p \in Seq(Element), NEW st, StepOK(st), ~DropdownIntent(st), st.selector = NoName
    PROVE  \A c : c \in ToSet(TierResult(p, st, NoMemo, 1)) <=> c \in Own(p, st)
<1> DEFINE t1 == TierResult(p, st, NoMemo, 1)
<1>1. ~Reaches(MemoryFinds(NoMemo), 8500)
  BY NoMemoOK, NothingIsNotEnough
<1>2. Covers(t1, ToSet(MemoryFinds(NoMemo)) \union Own(p, st))
  BY <1>1, NoMemoOK, TierOneCovers
<1> HIDE DEF t1
<1>3. ToSet(MemoryFinds(NoMemo)) \union Own(p, st) = Own(p, st)
  BY NoMemoOK
<1>4. Covers(t1, Own(p, st))
  BY <1>2, <1>3
<1>5. \A c \in ToSet(t1) : c \in Own(p, st)
  BY <1>4 DEF Covers
<1>6. ASSUME NEW c \in Own(p, st) PROVE c \in ToSet(t1)
  <2>1. PICK d \in ToSet(t1) : d.ref = c.ref
    BY <1>4 DEF Covers
  <2>2. d = c
    BY <1>5, <2>1, OwnOnce
  <2>3. QED
    BY <2>1, <2>2
<1>7. QED
  BY <1>5, <1>6 DEF t1

\* Neither world's first tier decides.
LEMMA BothUndecided ==
    ASSUME NEW p \in Seq(Element), NEW st, StepOK(st), ~DropdownIntent(st), Cold(p, st).kind = "resolved",
           st.selector = NoName, NEW m, m # NoMemo, Kin(m, Cold(p, st).target), ~(Score(Replay(m)) >= 8500)
    PROVE  /\ ~Reaches(TierResult(p, st, NoMemo, 1), 8500)
           /\ ~Reaches(TierResult(p, st, m, 1), 8500)
           /\ ~Reaches(MemoryFinds(m), 8500)
           /\ MemoOK(m) /\ MemoryFinds(m) = <<Replay(m)>>
           /\ \A c \in ToSet(TierResult(p, st, m, 1)) : c = Replay(m) \/ c \in Own(p, st)
<1> DEFINE g == Cold(p, st).target
           r == Replay(m)
           t0 == TierResult(p, st, NoMemo, 1)
           t1 == TierResult(p, st, m, 1)
<1>1. g \in Candidate /\ Memoryless(g)
  BY ColdAgrees
<1>2. r \in Candidate /\ Score(r) = Score(g) + 800
  BY <1>1, ReplayOfKin
<1>3. MemoryFinds(m) = <<r>>
  BY RowFound
<1>4. MemoOK(m)
  BY DEF MemoOK, Kin
<1>5. t0 \in Seq(Candidate) /\ t1 \in Seq(Candidate)
  BY <1>4, NoMemoOK, TiersType
<1>6. 8500 \in Nat /\ Score(r) \in Nat /\ Score(g) \in Nat
  BY <1>1, <1>2, ScoreNat
<1>7. ~Reaches(t0, 8500)
  <2> SUFFICES ASSUME Reaches(t0, 8500) PROVE FALSE
    OBVIOUS
  <2>1. Cold(p, st) = Pick(st, t0)
    BY DEF Cold, Offline, StopAt, AcceptThreshold
  <2>2. Pick(st, t0).kind = "resolved"
    BY <2>1
  <2> HIDE DEF t0
  <2>3. PICK c \in ToSet(t0) : Pick(st, t0).target = Ranked(c) /\ Score(c) >= 8500
    BY <1>5, <1>6, <2>2, PickedScores
  <2>4. c \in Candidate /\ g = Ranked(c)
    BY <1>5, <2>1, <2>3, SeqMembers
  <2>5. Score(g) = Score(c)
    BY <2>4, RankedScore
  <2> HIDE DEF g, r
  <2>6. Score(r) >= 8500
    BY <1>2, <1>6, <2>3, <2>5
  <2>7. QED
    BY <2>6 DEF r
<1>8. \A c \in ToSet(<<r>>) : c = r
  BY DEF ToSet
<1>9. ~Reaches(MemoryFinds(m), 8500)
  <2> SUFFICES ASSUME Reaches(<<r>>, 8500) PROVE FALSE
    BY <1>3
  <2> DEFINE cs == <<r>>
  <2>1. cs \in Seq(Candidate) /\ cs # <<>> /\ \A c \in ToSet(cs) : c = r
    BY <1>2, <1>8
  <2>2. BestScore(cs) >= 8500
    BY DEF Reaches
  <2> HIDE DEF cs, r
  <2>3. PICK c \in ToSet(cs) : Score(c) = BestScore(cs)
    BY <2>1, BestScoreIs
  <2>4. QED
    BY <2>1, <2>2, <2>3 DEF r
<1>10. Covers(t1, ToSet(MemoryFinds(m)) \union Own(p, st))
  BY <1>4, <1>9, TierOneCovers
<1>11. \A c \in ToSet(t1) : c = r \/ c \in Own(p, st)
  BY <1>3, <1>8, <1>10 DEF Covers
<1>12. ~Reaches(t1, 8500)
  <2> SUFFICES ASSUME Reaches(t1, 8500) PROVE FALSE
    OBVIOUS
  <2>1. t1 # <<>> /\ BestScore(t1) >= 8500
    BY DEF Reaches
  <2>2. \A c \in ToSet(t0) : ~(Score(c) >= 8500)
    BY <1>5, <1>6, <1>7, NotReached
  <2>3. \A c \in Own(p, st) : ~(Score(c) >= 8500)
    BY <2>2, ColdTierOne
  <2> HIDE DEF t0, t1, r
  <2>4. PICK c \in ToSet(t1) : Score(c) = BestScore(t1)
    BY <1>5, <2>1, BestScoreIs
  <2>5. QED
    BY <1>11, <2>1, <2>3, <2>4 DEF r
<1>13. QED
  BY <1>3, <1>4, <1>7, <1>9, <1>11, <1>12

\* U has the most confident of each ref of A.
Leads(U, A) ==
    /\ \A c \in ToSet(U) : c \in A
    /\ \A c \in A : \E d \in ToSet(U) : d.ref = c.ref /\ d.raw >= c.raw
    /\ \A d \in ToSet(U) : \A c \in A : c.ref = d.ref => d.raw >= c.raw

\* Of a ref and a confidence there is one.
Once(A) == \A c, d \in A : c.ref = d.ref /\ c.raw = d.raw => c = d

\* B is A but for the candidates of a ref, and has none of a lower confidence.
SameBut(ref, A, B) ==
    /\ \A c \in B : c.ref # ref => c \in A
    /\ \A c \in A : \E d \in B : d.ref = c.ref /\ d.raw >= c.raw

LEMMA FinalLeads ==
    ASSUME NEW all \in Seq(Candidate)
    PROVE  Leads(FinalDedupe(all), ToSet(all))
<1>1. all \in Seq(ToSet(all)) /\ ToSet(all) \in SUBSET Candidate
  BY OwnMembers
<1>2. /\ FinalDedupe(all) \in Seq(ToSet(all))
      /\ \A c \in ToSet(all) : \E d \in ToSet(FinalDedupe(all)) : d.ref = c.ref /\ d.raw >= c.raw
      /\ \A d \in ToSet(FinalDedupe(all)) : \A c \in ToSet(all) : c.ref = d.ref => d.raw >= c.raw
  BY <1>1, FinalDedupeKeeps
<1>3. \A c \in ToSet(FinalDedupe(all)) : c \in ToSet(all)
  BY <1>2, SeqMembers
<1>4. QED
  BY <1>2, <1>3 DEF Leads

LEMMA OthersSame ==
    ASSUME NEW A \in SUBSET Candidate, NEW B \in SUBSET Candidate, Once(A), NEW ref, SameBut(ref, A, B),
           NEW U, NEW V, Leads(U, A), Leads(V, B)
    PROVE  \A c : c.ref # ref => (c \in ToSet(U) <=> c \in ToSet(V))
<1>1. \A c \in A \union B : c.raw \in Nat
  BY RawNat
<1>2. ASSUME NEW c \in ToSet(U), c.ref # ref PROVE c \in ToSet(V)
  <2>1. c \in A
    BY DEF Leads
  <2>2. PICK d \in B : d.ref = c.ref /\ d.raw >= c.raw
    BY <2>1 DEF SameBut
  <2>3. PICK e \in ToSet(V) : e.ref = d.ref /\ e.raw >= d.raw
    BY DEF Leads
  <2>4. e \in B /\ e.ref = c.ref
    BY <2>2, <2>3 DEF Leads
  <2>5. e \in A
    BY <1>2, <2>4 DEF SameBut
  <2>6. c.raw >= e.raw
    BY <2>4, <2>5 DEF Leads
  <2>7. c.raw \in Nat /\ d.raw \in Nat /\ e.raw \in Nat
    BY <1>1, <2>1, <2>4
  <2>8. c.raw = e.raw
    BY <2>2, <2>3, <2>6, <2>7
  <2>9. c = e
    BY <2>1, <2>4, <2>5, <2>8 DEF Once
  <2>10. QED
    BY <2>9
<1>3. ASSUME NEW c \in ToSet(V), c.ref # ref PROVE c \in ToSet(U)
  <2>1. c \in B
    BY DEF Leads
  <2>2. c \in A
    BY <1>3, <2>1 DEF SameBut
  <2>3. PICK e \in ToSet(U) : e.ref = c.ref /\ e.raw >= c.raw
    BY <2>2 DEF Leads
  <2>4. e \in A
    BY DEF Leads
  <2>5. PICK d \in B : d.ref = e.ref /\ d.raw >= e.raw
    BY <2>4 DEF SameBut
  <2>6. c.raw >= d.raw
    BY <2>3, <2>5 DEF Leads
  <2>7. c.raw \in Nat /\ d.raw \in Nat /\ e.raw \in Nat
    BY <1>1, <2>1, <2>4
  <2>8. c.raw = e.raw
    BY <2>3, <2>5, <2>6, <2>7
  <2>9. c = e
    BY <2>2, <2>3, <2>4, <2>8 DEF Once
  <2>10. QED
    BY <2>9
<1>4. QED
  BY <1>2, <1>3

\* With and without the row, the candidates the fallback considers.
LEMMA CandidatesCompare ==
    ASSUME NEW p \in Seq(Element), NEW st, StepOK(st), ~DropdownIntent(st), Cold(p, st).kind = "resolved",
           st.selector = NoName, NEW m, m # NoMemo, Kin(m, Cold(p, st).target), ~(Score(Replay(m)) >= 8500)
    PROVE  /\ ToSet(Every(p, st, NoMemo)) = Own(p, st) \union ToSet(TierResult(p, st, NoMemo, 2))
           /\ ToSet(Every(p, st, NoMemo)) \in SUBSET Candidate /\ Once(ToSet(Every(p, st, NoMemo)))
           /\ ToSet(Every(p, st, m)) \in SUBSET Candidate
           /\ SameBut(Replay(m).ref, ToSet(Every(p, st, NoMemo)), ToSet(Every(p, st, m)))
           /\ \A c \in ToSet(Every(p, st, m)) : c = Replay(m) \/ c \in ToSet(Every(p, st, NoMemo))
           /\ Every(p, st, m) # <<>> /\ Every(p, st, m)[1].ref = Replay(m).ref
<1> DEFINE A  == ToSet(Every(p, st, NoMemo))
           B  == ToSet(Every(p, st, m))
           t0 == TierResult(p, st, NoMemo, 1)
           t1 == TierResult(p, st, m, 1)
           t2 == TierResult(p, st, NoMemo, 2)
           r  == Replay(m)
<1>1. /\ ~Reaches(MemoryFinds(m), 8500) /\ MemoOK(m) /\ MemoryFinds(m) = <<r>>
      /\ \A c \in ToSet(t1) : c = r \/ c \in Own(p, st)
  BY BothUndecided
<1>2. /\ Every(p, st, NoMemo) \in Seq(Candidate) /\ A = ToSet(t0) \union ToSet(t2)
      /\ Every(p, st, m) \in Seq(Candidate) /\ t1 \in Seq(Candidate) /\ t2 \in Seq(Candidate)
      /\ TierResult(p, st, m, 2) = t2
  BY <1>1, NoMemoOK, TiersType, SecondForAll
<1>3. B = ToSet(t1) \union ToSet(t2)
  BY <1>1, <1>2, TiersType
<1>4. A \in SUBSET Candidate /\ B \in SUBSET Candidate
  BY <1>2, OwnMembers
<1>5. A = Own(p, st) \union ToSet(t2)
  BY <1>2, ColdTierOne
<1>6. Once(A)
  <2>1. \A c \in A : c \in OnPage(p, st)
    BY <1>5, NoMemoOK, TierTwoHolds DEF OnPage
  <2>2. QED
    BY <2>1, OnPageOnce DEF Once
<1>7. /\ Covers(t1, ToSet(MemoryFinds(m)) \union Own(p, st))
      /\ 1 \in DOMAIN t1 /\ t1[1].ref = r.ref
  <2>1. MemoOK(m) /\ ~Reaches(MemoryFinds(m), 8500)
    BY <1>1
  <2>2. Covers(t1, ToSet(MemoryFinds(m)) \union Own(p, st)) /\ StartsWith(t1, m)
    BY <2>1, TierOneCovers
  <2>3. 1 \in DOMAIN t1 /\ t1[1].ref = r.ref
    BY <2>2 DEF StartsWith
  <2>4. QED
    BY <2>2, <2>3
<1>8. Every(p, st, m) = t1 \o t2
  BY <1>2 DEF Every
<1>9. t1 # <<>>
  BY <1>7
<1> HIDE DEF t0, t1, t2, r, A, B
<1>10. Every(p, st, m) # <<>> /\ Every(p, st, m)[1].ref = r.ref
  BY <1>2, <1>7, <1>8, <1>9, JoinFirst
<1>11. \A c \in B : c = r \/ c \in A
  BY <1>1, <1>3, <1>5
<1>12. \A c \in A : \E d \in B : d.ref = c.ref /\ d.raw >= c.raw
  <2>1. \A c \in Own(p, st) : \E d \in ToSet(t1) : d.ref = c.ref /\ d.raw >= c.raw
    BY <1>7 DEF Covers
  <2>2. ASSUME NEW c \in ToSet(t2) PROVE c \in B /\ c.raw >= c.raw
    <3>1. c \in B /\ c \in Candidate
      BY <1>3, <1>4
    <3>2. c.raw \in Nat
      BY <3>1, RawNat
    <3>3. QED
      BY <3>1, <3>2
  <2>3. QED
    BY <1>3, <1>5, <2>1, <2>2
<1>13. SameBut(r.ref, A, B)
  BY <1>11, <1>12 DEF SameBut
<1>14. QED
  BY <1>4, <1>5, <1>6, <1>10, <1>11, <1>13 DEF A, B, t2, r

\* What a list's choice is, when it is one.
LEMMA PickIs ==
    ASSUME NEW st, StepOK(st), NEW U \in Seq(Candidate), Reaches(U, 7000), Pick(st, U).kind = "resolved"
    PROVE  LET T == U[FirstOf(U, st.action, DOMAIN U)]
           IN  /\ U # <<>> /\ ~Ambiguous(U, st.action)
               /\ T \in ToSet(U) /\ T \in Candidate /\ Score(T) >= 7000
               /\ Pick(st, U).target = Ranked(T)
<1> DEFINE i == FirstOf(U, st.action, DOMAIN U)
           T == U[i]
<1>1. U # <<>>
  BY DEF Reaches
<1>2. ~Ambiguous(U, st.action) /\ Pick(st, U).target = Ranked(T)
  BY DEF Pick, Failed, Resolved, BestForAction
<1>3. DOMAIN U # {}
  BY <1>1, SeqMembers
<1>4. i \in DOMAIN U
  BY <1>3, BestOf
<1> HIDE DEF i
<1>5. T \in ToSet(U) /\ T \in Candidate
  BY <1>4, SeqMembers DEF ToSet
<1>6. PICK c \in ToSet(U) : Pick(st, U).target = Ranked(c) /\ Score(c) >= 7000
  BY PickedScores, 7000 \in Nat
<1>7. c \in Candidate
  BY SeqMembers
<1> HIDE DEF T
<1>8. Score(T) = Score(c)
  <2>1. Score(Ranked(c)) = Score(c)
    BY <1>7, RankedScore
  <2>2. Score(Ranked(T)) = Score(T)
    BY <1>5, RankedScore
  <2>3. Ranked(c) = Ranked(T)
    BY <1>2, <1>6
  <2>4. QED
    BY <2>1, <2>2, <2>3
<1>9. Score(T) >= 7000
  BY <1>6, <1>8
<1>10. QED
  BY <1>1, <1>2, <1>5, <1>9 DEF T, i

LEMMA ReachesBy ==
    ASSUME NEW cs \in Seq(Candidate), NEW c \in ToSet(cs), NEW t \in Nat, Score(c) >= t
    PROVE  cs # <<>> /\ Reaches(cs, t)
<1>1. cs # <<>>
  BY DEF ToSet
<1>2. PICK d \in ToSet(cs) : Score(d) = BestScore(cs)
  BY <1>1, BestScoreIs
<1>3. Score(c) <= BestScore(cs)
  BY <1>1, BestScoreIs
<1>4. Score(c) \in Nat /\ BestScore(cs) \in Nat
  BY <1>2, SeqMembers, ScoreNat
<1>5. QED
  BY <1>1, <1>3, <1>4 DEF Reaches

\* The fallback of both worlds: the target is the tree's, its row scores more, and
\* whichever of the two is left stands where the target stood.
LEMMA FallbackStead ==
    ASSUME NEW p \in Seq(Element), NEW st, StepOK(st), ~DropdownIntent(st), Cold(p, st).kind = "resolved",
           st.selector = NoName, NEW m, m # NoMemo, Kin(m, Cold(p, st).target), ~(Score(Replay(m)) >= 8500),
           ~Reaches(TierResult(p, st, NoMemo, 2), 7000),
           NEW T \in Candidate, T \in ToSet(FinalDedupe(Every(p, st, NoMemo))), Score(T) >= 7000,
           Cold(p, st).target = Ranked(T)
    PROVE  /\ Stead(FinalDedupe(Every(p, st, NoMemo)), FinalDedupe(Every(p, st, m)), T)
           /\ FinalDedupe(Every(p, st, m))[1] \in {T, Replay(m)} /\ Memoryless(T)
<1> DEFINE A  == ToSet(Every(p, st, NoMemo))
           B  == ToSet(Every(p, st, m))
           U  == FinalDedupe(Every(p, st, NoMemo))
           V  == FinalDedupe(Every(p, st, m))
           W  == V[1]
           r  == Replay(m)
           g  == Cold(p, st).target
           t2 == TierResult(p, st, NoMemo, 2)
<1>1. MemoOK(m)
  BY BothUndecided
<1>2. /\ Every(p, st, NoMemo) \in Seq(Candidate) /\ U \in Seq(Candidate) /\ t2 \in Seq(Candidate)
      /\ Every(p, st, m) \in Seq(Candidate) /\ V \in Seq(Candidate)
  BY <1>1, NoMemoOK, TiersType
<1>3. /\ A = Own(p, st) \union ToSet(t2)
      /\ A \in SUBSET Candidate /\ Once(A) /\ B \in SUBSET Candidate
      /\ SameBut(r.ref, A, B)
      /\ \A c \in B : c = r \/ c \in A
      /\ Every(p, st, m) # <<>> /\ Every(p, st, m)[1].ref = r.ref
  BY CandidatesCompare
<1>4. Leads(U, A) /\ Leads(V, B)
  BY <1>2, FinalLeads
<1>5. g \in Candidate /\ Memoryless(g)
  BY ColdAgrees
<1>6. /\ r \in Candidate /\ r.ref = g.ref /\ r.role = g.role
      /\ Score(r) = Score(g) + 800
  BY <1>5, ReplayOfKin
<1>7. /\ \A n, k \in DOMAIN U : U[n].ref = U[k].ref => n = k
      /\ \A n, k \in DOMAIN V : V[n].ref = V[k].ref => n = k
      /\ 1 \in DOMAIN V /\ V[1].ref = r.ref
  BY <1>2, <1>3, FinalDedupeOnce
<1>8. W \in ToSet(V) /\ V # <<>>
  BY <1>7 DEF ToSet
<1>9. \A c \in ToSet(t2) : ~(Score(c) >= 7000)
  BY <1>2, NotReached, 7000 \in Nat
<1> HIDE DEF A, B, U, V, W, r, g, t2
<1>10. g = Ranked(T) /\ T \in ToSet(U) /\ T \in A
  BY <1>4 DEF g, U, Leads
<1>11. g.ref = T.ref /\ Score(g) = Score(T)
  BY <1>10, RankedScore
<1>12. g.role = T.role
  <2>1. Score(T) \in Bp
    BY ScoreType
  <2>2. QED
    BY <1>10, <2>1 DEF Ranked, Candidate, Resolver
<1>13. T \in Own(p, st) /\ T \notin ToSet(t2)
  BY <1>3, <1>9, <1>10
<1>14. W \in B /\ W.ref = T.ref
  BY <1>4, <1>6, <1>7, <1>8, <1>11 DEF Leads, W
<1>15. W \in {T, r}
  <2>1. CASE W = r
    BY <2>1
  <2>2. CASE W \in A
    <3>1. T.raw >= W.raw
      BY <1>4, <1>10, <1>14, <2>2 DEF Leads
    <3>2. PICK d \in B : d.ref = T.ref /\ d.raw >= T.raw
      BY <1>3, <1>10 DEF SameBut
    <3>3. W.raw >= d.raw
      BY <1>4, <1>8, <1>14, <3>2 DEF Leads
    <3>4. T.raw \in Nat /\ W.raw \in Nat /\ d.raw \in Nat
      BY <1>3, <1>14, RawNat
    <3>5. W.raw = T.raw
      BY <3>1, <3>2, <3>3, <3>4
    <3>6. W = T
      BY <1>3, <1>10, <1>14, <2>2, <3>5 DEF Once
    <3>7. QED
      BY <3>6
  <2>3. QED
    BY <1>3, <1>14, <2>1, <2>2
<1>16. Memoryless(T)
  <2>1. T \in ToSet(TreeFinds(st, p)) \/ T \in ToSet(TextFinds(p))
    BY <1>13 DEF Own
  <2>2. QED
    BY <2>1, FoundFresh
<1>17. W.role = T.role /\ Score(W) >= Score(T)
  <2>1. Score(T) \in Nat
    BY ScoreNat
  <2>2. CASE W = T
    BY <2>1, <2>2
  <2>3. CASE W = r
    BY <1>6, <1>11, <1>12, <2>1, <2>3
  <2>4. QED
    BY <1>15, <2>2, <2>3
<1>18. \A c : c.ref # T.ref => (c \in ToSet(U) <=> c \in ToSet(V))
  <2>1. SameBut(T.ref, A, B)
    BY <1>3, <1>6, <1>11
  <2>2. QED
    BY <1>3, <1>4, <2>1, OthersSame
<1>19. Stead(U, V, T)
  BY <1>7, <1>8, <1>14, <1>17, <1>18 DEF Stead, W
<1>20. QED
  BY <1>15, <1>16, <1>19 DEF U, V, W, r

LEMMA FallbackAgrees ==
    ASSUME NEW p \in Seq(Element), NEW st, StepOK(st), ~DropdownIntent(st), Cold(p, st).kind = "resolved",
           st.selector = NoName, NEW m, m # NoMemo, Kin(m, Cold(p, st).target), ~(Score(Replay(m)) >= 8500),
           ~Reaches(TierResult(p, st, NoMemo, 2), 7000)
    PROVE  Agrees(p, st, m)
<1> DEFINE U == FinalDedupe(Every(p, st, NoMemo))
           V == FinalDedupe(Every(p, st, m))
           T == U[FirstOf(U, st.action, DOMAIN U)]
           g == Cold(p, st).target
           r == Replay(m)
<1>1. /\ ~Reaches(TierResult(p, st, NoMemo, 1), 8500) /\ ~Reaches(TierResult(p, st, m, 1), 8500)
      /\ MemoOK(m) /\ TierResult(p, st, m, 2) = TierResult(p, st, NoMemo, 2)
  BY BothUndecided, SecondForAll
<1>2. Cold(p, st) = Fallback(st, Every(p, st, NoMemo)) /\ Offline(p, st, m) = Fallback(st, Every(p, st, m))
  BY <1>1 DEF Cold, Offline, Every, StopAt, AcceptThreshold, ReviewThreshold
<1>3. U \in Seq(Candidate) /\ V \in Seq(Candidate) /\ Every(p, st, m) # <<>>
  BY <1>1, NoMemoOK, TiersType, CandidatesCompare
<1>4. Reaches(U, 7000) /\ Cold(p, st) = Pick(st, U)
  BY <1>2 DEF Fallback, Failed, Relaxed, ReviewThreshold
<1>5. /\ U # <<>> /\ ~Ambiguous(U, st.action)
      /\ T \in ToSet(U) /\ T \in Candidate /\ Score(T) >= 7000 /\ Pick(st, U).target = Ranked(T)
  <2>1. Pick(st, U).kind = "resolved"
    BY <1>4
  <2> HIDE DEF U
  <2>2. QED
    BY <1>3, <1>4, <2>1, PickIs
<1>6. g = Ranked(T)
  BY <1>4, <1>5
<1>7. g \in Candidate /\ Memoryless(g)
  BY ColdAgrees
<1>8. r \in Candidate /\ Score(r) = Score(g) + 800 /\ Kin(Ranked(r), g)
  BY <1>7, ReplayOfKin
<1> HIDE DEF T
<1>9. Stead(U, V, T) /\ V[1] \in {T, r} /\ Memoryless(T)
  BY <1>5, <1>6, FallbackStead
<1>10. Pick(st, V) = Resolved(Ranked(V[1]))
  <2> HIDE DEF U, V
  <2>1. Stead(U, V, U[FirstOf(U, st.action, DOMAIN U)])
    BY <1>9 DEF T
  <2>2. QED
    BY <1>3, <1>5, <2>1, StillChosen
<1>11. Kin(Ranked(T), g) /\ Score(T) = Score(g)
  BY <1>5, <1>6, <1>9, MemorylessKin
<1> HIDE DEF U, V, g, r
<1>12. Kin(Ranked(V[1]), g)
  BY <1>8, <1>9, <1>11
<1>13. V[1] \in ToSet(V) /\ Score(V[1]) >= 7000
  <2>1. V # <<>> /\ Score(V[1]) >= Score(T)
    BY <1>9 DEF Stead
  <2>2. 1 \in DOMAIN V
    BY <1>3, <2>1
  <2>3. V[1] \in ToSet(V)
    BY <2>2 DEF ToSet
  <2>4. Score(V[1]) \in Nat /\ Score(T) \in Nat
    BY <1>3, <1>5, <2>2, SeqMembers, ScoreNat
  <2>5. QED
    BY <1>5, <2>1, <2>3, <2>4
<1>14. Reaches(V, 7000)
  BY <1>3, <1>13, ReachesBy, 7000 \in Nat
<1>15. Offline(p, st, m) = Pick(st, V)
  BY <1>2, <1>3, <1>14 DEF Fallback, ReviewThreshold, V
<1>16. Offline(p, st, m).kind = "resolved" /\ Offline(p, st, m).target = Ranked(V[1])
  BY <1>10, <1>15 DEF Resolved
<1>17. QED
  BY <1>12, <1>16 DEF Agrees, g

\* With the row of an earlier target, or a replay of it, grounding finds it again.
LEMMA RowAgrees ==
    ASSUME NEW p \in Seq(Element), NEW st, StepOK(st), ~DropdownIntent(st), Cold(p, st).kind = "resolved",
           NEW m, m = NoMemo \/ Kin(m, Cold(p, st).target)
    PROVE  Agrees(p, st, m)
<1>1. CASE m = NoMemo
  BY <1>1, ColdAgrees
<1>2. Offline(p, st, m) = Cold(p, st) => Agrees(p, st, m)
  BY ColdAgrees DEF Agrees, Cold
<1>3. CASE st.selector # NoName
  BY <1>2, <1>3, SelectorAgrees
<1>4. CASE m # NoMemo /\ st.selector = NoName /\ Score(Replay(m)) >= 8500
  BY <1>4, SureAgrees
<1>5. CASE m # NoMemo /\ st.selector = NoName /\ ~(Score(Replay(m)) >= 8500)
  <2>1. Kin(m, Cold(p, st).target)
    BY <1>5
  <2>2. CASE Reaches(TierResult(p, st, NoMemo, 2), 7000)
    <3>1. /\ ~Reaches(TierResult(p, st, NoMemo, 1), 8500) /\ ~Reaches(TierResult(p, st, m, 1), 8500)
          /\ TierResult(p, st, m, 2) = TierResult(p, st, NoMemo, 2)
      BY <1>5, <2>1, BothUndecided, SecondForAll
    <3>2. Offline(p, st, m) = Cold(p, st)
      BY <2>2, <3>1 DEF Cold, Offline, StopAt, AcceptThreshold, ReviewThreshold
    <3>3. QED
      BY <1>2, <3>2
  <2>3. CASE ~Reaches(TierResult(p, st, NoMemo, 2), 7000)
    BY <1>5, <2>1, <2>3, FallbackAgrees
  <2>4. QED
    BY <2>2, <2>3
<1>6. QED
  BY <1>1, <1>3, <1>4, <1>5

-----------------------------------------------------------------------------
\* What is recorded, and what a call has read, is the target of the page or a replay
\* of it, however many runs and calls there have been: without a provider nothing
\* else is ever found for the step.
Warm(p, st, m) == m = NoMemo \/ (Cold(p, st).kind = "resolved" /\ Kin(m, Cold(p, st).target))

RowInv ==
    ~opt.provider /\ ~DropdownIntent(intent) =>
        /\ Warm(screen, intent, recorded)
        /\ \A c \in Call : calls[c].pc # "idle" => Warm(screen, intent, calls[c].seen)

\* A call that ends with a target ends with one of these.
LEMMA WarmEnds ==
    ASSUME OfflineInv, RowInv, ~opt.provider, ~DropdownIntent(intent),
           NEW c \in Call, Finished(c), calls[c].outcome.kind = "resolved" \/ calls[c].seen # NoMemo,
           ~Blocked \/ calls[c].outcome.kind = "resolved"
    PROVE  /\ calls[c].outcome.kind = "resolved" /\ Cold(screen, intent).kind = "resolved"
           /\ Kin(calls[c].outcome.target, Cold(screen, intent).target)
           /\ calls[c].seen # NoMemo => Kin(calls[c].seen, Cold(screen, intent).target)
<1>1. screen \in Seq(Element) /\ StepOK(intent)
  BY GroundingAssumption DEF OfflineInv, AIOff, StepOK
<1>2. calls[c].outcome = Offline(screen, intent, calls[c].seen)
  <2>1. calls[c].outcome = EndsUnaided(screen, intent, calls[c].seen, Cheap)
    BY DEF OfflineInv, AIOff, Unaided, Finished
  <2>2. Failed("cost_blocked").kind # "resolved"
    BY DEF Failed
  <2>3. ~Cheap \/ calls[c].outcome.kind = "resolved"
    BY DEF Cheap, Blocked
  <2>4. QED
    BY <2>1, <2>2, <2>3 DEF EndsUnaided
<1>3. Warm(screen, intent, calls[c].seen)
  BY DEF RowInv, Finished
<1>4. Cold(screen, intent).kind = "resolved"
  BY <1>2, <1>3 DEF Warm, Cold
<1>5. calls[c].seen = NoMemo \/ Kin(calls[c].seen, Cold(screen, intent).target)
  BY <1>3 DEF Warm
<1>6. Agrees(screen, intent, calls[c].seen)
  BY <1>1, <1>4, <1>5, RowAgrees
<1>7. QED
  BY <1>2, <1>4, <1>5, <1>6 DEF Agrees

LEMMA RowInitially == EngineInit => RowInv
  BY DEF EngineInit, RowInv, IdleCall, Warm

LEMMA RowMoves ==
    ASSUME SpendInv, RowInv, UNCHANGED <<fixed, recorded>>, NEW c \in Call, NEW state, Become(c, state),
           ~opt.provider /\ ~DropdownIntent(intent) /\ state.pc # "idle" => Warm(screen, intent, state.seen)
    PROVE  RowInv'
<1>1. \A d \in Call : calls'[d] = IF d = c THEN state ELSE calls[d]
  BY DEF Become, SpendInv
<1>2. screen' = screen /\ intent' = intent /\ opt' = opt /\ recorded' = recorded
  BY DEF fixed
<1>3. QED
  BY <1>1, <1>2 DEF RowInv

LEMMA RowStep == SpendInv /\ OfflineInv /\ RowInv /\ [EngineNext]_engine => RowInv'
<1> SUFFICES ASSUME SpendInv, OfflineInv, RowInv, [EngineNext]_engine PROVE RowInv'
  OBVIOUS
<1>0. ASSUME NEW c \in Call, NEW tier, NEW found
      PROVE  AfterTier(c, tier, found).seen = calls[c].seen
             /\ \A seen : [AfterTier(c, tier, found) EXCEPT !.seen = seen].seen = seen
  BY DEF AfterTier, Done, CallOf
<1>1. ASSUME NEW c \in Call, Begin(c) PROVE RowInv'
  <2>1. Warm(screen, intent, CallOf("tier", TierOrder, <<>>, NoMemo).seen)
    BY DEF Warm, CallOf
  <2>2. QED
    BY <1>1, <2>1, RowMoves DEF Begin
<1>2. ASSUME NEW c \in Call, RunDeterministic(c) PROVE RowInv'
  <2> DEFINE state(tier) == [ AfterTier(c, tier, TierResult(screen, intent, recorded, tier))
                                EXCEPT !.seen = IF tier = 1 THEN recorded ELSE @ ]
  <2>1. PICK tier \in {1, 2} : At(c, tier) /\ Become(c, state(tier)) /\ UNCHANGED <<fixed, recorded>>
    BY <1>2 DEF RunDeterministic
  <2>2. state(tier).seen \in {recorded, calls[c].seen}
    BY <1>0
  <2>3. calls[c].pc # "idle"
    BY <2>1 DEF At
  <2> HIDE DEF state
  <2>4. ~opt.provider /\ ~DropdownIntent(intent) => Warm(screen, intent, state(tier).seen)
    BY <2>2, <2>3 DEF RowInv
  <2>5. QED
    BY <2>1, <2>4, RowMoves
<1>3. ASSUME NEW c \in Call, BlockAI(c) \/ SkipModel(c) \/ Exhaust(c) PROVE RowInv'
  <2>1. calls[c].pc # "idle"
    BY <1>3 DEF BlockAI, SkipModel, Exhaust, At
  <2>2. \A outcome : Done(outcome, calls[c].seen).seen = calls[c].seen
    BY DEF Done
  <2>3. PICK state : Become(c, state) /\ state.seen = calls[c].seen /\ UNCHANGED <<fixed, recorded>>
    BY <1>0, <1>3, <2>2 DEF BlockAI, SkipModel, Exhaust
  <2>4. ~opt.provider /\ ~DropdownIntent(intent) => Warm(screen, intent, state.seen)
    BY <2>1, <2>3 DEF RowInv
  <2>5. QED
    BY <2>3, <2>4, RowMoves
<1>4. ASSUME NEW c \in Call, AskModel(c) \/ Retry(c) \/ AskPlainly(c) \/ ModelAnswers(c) \/ StrongModelAnswers(c)
      PROVE  RowInv'
  <2>1. opt' = opt /\ (calls[c].pc \in {"ask", "ask_strong"} \/ opt.provider)
    BY <1>4 DEF AskModel, AsksModel, Retry, AskPlainly, ModelAnswers, StrongModelAnswers, fixed
  <2>2. opt.provider
    BY <2>1 DEF OfflineInv, AIOff, Unaided
  <2>3. QED
    BY <2>1, <2>2 DEF RowInv
<1>5. ASSUME NEW c \in Call, Return(c) PROVE RowInv'
  <2>1. /\ \A d \in Call : calls'[d].pc # "idle" => calls'[d] = calls[d]
        /\ screen' = screen /\ intent' = intent /\ opt' = opt
    BY <1>5 DEF Return, Become, IdleCall, SpendInv, fixed
  <2>2. \/ recorded' = recorded
        \/ calls[c].outcome.kind = "resolved" /\ recorded' = calls[c].outcome.target
    BY <1>5 DEF Return
  <2>3. ~opt.provider /\ ~DropdownIntent(intent) /\ calls[c].outcome.kind = "resolved"
          => Warm(screen, intent, calls[c].outcome.target)
    BY <1>5, WarmEnds DEF Return, Finished, Warm
  <2>4. QED
    BY <2>1, <2>2, <2>3 DEF RowInv
<1>6. CASE NewRun
  BY <1>6 DEF NewRun, RowInv, fixed
<1>7. CASE UNCHANGED engine
  BY <1>7 DEF engine, fixed, RowInv
<1>8. QED
  BY <1>1, <1>2, <1>3, <1>4, <1>5, <1>6, <1>7 DEF EngineNext

\* Without a provider, a step that is not a dropdown's finds on the same page the
\* target it has recorded, and never starts to fail: for every page, step, row and
\* number of calls and runs (memory_cache.py and engine.py, ground).
THEOREM WarmCallsFindTheSame == EngineSpec => []WarmCallsAgree
<1>1. OfflineInv /\ RowInv => WarmCallsAgree
  <2> SUFFICES ASSUME OfflineInv, RowInv, NEW c \in Call, Finished(c), calls[c].seen # NoMemo,
                      ~opt.provider, ~Blocked, ~DropdownIntent(intent)
               PROVE  calls[c].outcome.kind = "resolved" /\ calls[c].outcome.target.ref = calls[c].seen.ref
    BY DEF WarmCallsAgree
  <2>1. /\ calls[c].outcome.kind = "resolved"
        /\ Kin(calls[c].outcome.target, Cold(screen, intent).target)
        /\ Kin(calls[c].seen, Cold(screen, intent).target)
    BY WarmEnds
  <2>2. QED
    BY <2>1 DEF Kin
<1>2. QED
  BY SpendInvInit, SpendInvStep, OfflineInitially, OfflineStep, RowInitially, RowStep, <1>1, PTL DEF EngineSpec
-----------------------------------------------------------------------------
\* No guess between rivals.  What each of two that are alike is found with, by the
\* tree and by the fuzzy resolver, differs in nothing that counts.

\* On the page, both ways.
LEMMA TreeMembers ==
    ASSUME NEW p \in Seq(Element), NEW st
    PROVE  /\ \A c \in ToSet(TreeFinds(st, p)) :
                 /\ c.ref[1] \in Role /\ c.role = c.ref[1] /\ c.by = "accessibility_tree"
                 /\ c.ref[2] # NoName =>
                      \E i \in DOMAIN p : /\ c = TreeTarget(st, TreeFound(st, p), p[i]) /\ c.ref = RefOf(p[i])
                                          /\ TreeConfidence(st, p[i]) > 0
           /\ \A i \in DOMAIN p : TreeConfidence(st, p[i]) > 0 /\ p[i].label # NoName =>
                 TreeTarget(st, TreeFound(st, p), p[i]) \in ToSet(TreeFinds(st, p))
<1> DEFINE found == TreeFound(st, p)
           I == {i \in DOMAIN p : TreeConfidence(st, p[i]) > 0}
           cs == TreeFinds(st, p)
<1>1. SamePlaces(found, p, I)
  <2>1. Len(p) \in Nat /\ DOMAIN p = 1..Len(p)
    OBVIOUS
  <2>2. I \in SUBSET (1..Len(p))
    BY <2>1
  <2>3. QED
    BY <2>1, <2>2, KeptHas DEF TreeFound
<1>2. /\ DOMAIN cs = DOMAIN found
      /\ \A n \in DOMAIN found :
            /\ cs[n].ref = RefOf(found[n]) /\ cs[n].role = found[n].role /\ cs[n].by = "accessibility_tree"
            /\ found[n].label # NoName => cs[n] = TreeTarget(st, found, found[n])
  BY DEF TreeFinds, TreeFound, TreeTarget, Nameless
<1>3. \A i \in I : i \in DOMAIN p /\ p[i] \in Element /\ TreeConfidence(st, p[i]) > 0
  OBVIOUS
<1>4. \A i \in DOMAIN p : TreeConfidence(st, p[i]) > 0 => i \in I
  OBVIOUS
<1> HIDE DEF found, I, cs
<1>5. \A n \in DOMAIN found : \E i \in I : found[n] = p[i]
  BY <1>1 DEF SamePlaces
<1>6. \A i \in I : \E n \in DOMAIN found : found[n] = p[i]
  BY <1>1 DEF SamePlaces
<1>7. \A e \in Element : e.role \in Role /\ RefOf(e)[1] = e.role /\ RefOf(e)[2] = e.label
  BY DEF Element, RefOf
<1>8. ASSUME NEW c \in ToSet(cs)
      PROVE  /\ c.ref[1] \in Role /\ c.role = c.ref[1] /\ c.by = "accessibility_tree"
             /\ c.ref[2] # NoName =>
                  \E i \in DOMAIN p : c = TreeTarget(st, found, p[i]) /\ c.ref = RefOf(p[i]) /\ TreeConfidence(st, p[i]) > 0
  <2>1. PICK n \in DOMAIN found : c = cs[n]
    BY <1>2 DEF ToSet
  <2>2. PICK i \in I : found[n] = p[i]
    BY <1>5
  <2>3. i \in DOMAIN p /\ p[i] \in Element /\ TreeConfidence(st, p[i]) > 0
    BY <1>3
  <2>4. c.ref = RefOf(p[i]) /\ c.role = p[i].role /\ c.by = "accessibility_tree"
    BY <1>2, <2>1, <2>2
  <2>5. p[i].label # NoName => c = TreeTarget(st, found, p[i])
    BY <1>2, <2>1, <2>2
  <2>6. QED
    BY <1>7, <2>3, <2>4, <2>5
<1>9. ASSUME NEW i \in DOMAIN p, TreeConfidence(st, p[i]) > 0, p[i].label # NoName
      PROVE  TreeTarget(st, found, p[i]) \in ToSet(cs)
  <2>1. PICK n \in DOMAIN found : found[n] = p[i]
    BY <1>4, <1>6, <1>9
  <2>2. cs[n] = TreeTarget(st, found, p[i])
    BY <1>2, <1>9, <2>1
  <2>3. QED
    BY <1>2, <2>1, <2>2 DEF ToSet
<1>10. QED
  BY <1>8, <1>9 DEF cs, found

LEMMA FuzzyMembers ==
    ASSUME NEW p \in Seq(Element), NEW st
    PROVE  /\ \A c \in ToSet(FuzzyFinds(st, p)) :
                 \E i \in DOMAIN p : c = FuzzyTarget(st, p[i]) /\ c.ref = RefOf(p[i]) /\ FuzzyHit(p[i])
           /\ \A i \in DOMAIN p : FuzzyHit(p[i]) => FuzzyTarget(st, p[i]) \in ToSet(FuzzyFinds(st, p))
<1> DEFINE found == FuzzyFound(p)
           I == {i \in DOMAIN p :
                     FuzzyHit(p[i]) /\ \A j \in 1..(i - 1) : FuzzyHit(p[j]) => RefOf(p[j]) # RefOf(p[i])}
           cs == FuzzyFinds(st, p)
<1>0. Len(p) \in Nat /\ DOMAIN p = 1..Len(p)
  OBVIOUS
<1>1. SamePlaces(found, p, I)
  <2>1. I \in SUBSET (1..Len(p))
    BY <1>0
  <2>2. QED
    BY <1>0, <2>1, KeptHas DEF FuzzyFound
<1>2. DOMAIN cs = DOMAIN found /\ \A n \in DOMAIN found : cs[n] = FuzzyTarget(st, found[n])
  BY FuzzyIs
<1>3. \A i \in I : i \in DOMAIN p /\ FuzzyHit(p[i])
  OBVIOUS
<1>4. ASSUME NEW i \in DOMAIN p, FuzzyHit(p[i]) PROVE \E k \in I : p[k] = p[i]
  <2> DEFINE T == {j \in DOMAIN p : FuzzyHit(p[j]) /\ RefOf(p[j]) = RefOf(p[i])}
             k == Min(T)
  <2>1. i \in T /\ T \subseteq Nat
    BY <1>0, <1>4
  <2>2. k \in T /\ \A y \in T : k <= y
    BY <2>1, MinIs
  <2>3. \A j \in 1..(k - 1) : j \in DOMAIN p /\ ~(k <= j)
    BY <1>0, <2>2
  <2>4. k \in I
    BY <2>2, <2>3
  <2>5. \A e, f \in Element : RefOf(e) = RefOf(f) => e = f
    BY DEF Element, RefOf
  <2>6. p[k] \in Element /\ p[i] \in Element /\ RefOf(p[k]) = RefOf(p[i])
    BY <2>2
  <2>7. QED
    BY <2>4, <2>5, <2>6
<1> HIDE DEF found, I, cs
<1>5. ASSUME NEW c \in ToSet(cs)
      PROVE  \E i \in DOMAIN p : c = FuzzyTarget(st, p[i]) /\ c.ref = RefOf(p[i]) /\ FuzzyHit(p[i])
  <2>1. PICK n \in DOMAIN found : c = FuzzyTarget(st, found[n])
    BY <1>2 DEF ToSet
  <2>2. PICK i \in I : found[n] = p[i]
    BY <1>1 DEF SamePlaces
  <2>3. c.ref = RefOf(p[i])
    BY <2>1, <2>2 DEF FuzzyTarget
  <2>4. QED
    BY <1>3, <2>1, <2>2, <2>3
<1>6. ASSUME NEW i \in DOMAIN p, FuzzyHit(p[i]) PROVE FuzzyTarget(st, p[i]) \in ToSet(cs)
  <2>1. PICK k \in I : p[k] = p[i]
    BY <1>4, <1>6
  <2>2. PICK n \in DOMAIN found : found[n] = p[k]
    BY <1>1 DEF SamePlaces
  <2>3. QED
    BY <1>2, <2>1, <2>2 DEF ToSet
<1>7. QED
  BY <1>5, <1>6 DEF cs

\* A locator that the tree finds once matches once, and the other way round.
LEMMA FoundOnce ==
    ASSUME NEW p \in Seq(Element), NEW st, NEW k \in DOMAIN p, TreeConfidence(st, p[k]) > 0, p[k].label # NoName
    PROVE  Cardinality({n \in DOMAIN TreeFound(st, p) : RefOf(TreeFound(st, p)[n]) = RefOf(p[k])}) = 1
             <=> Cardinality(Matched(p, RefOf(p[k]))) = 1
<1> DEFINE found == TreeFound(st, p)
           I == {i \in DOMAIN p : TreeConfidence(st, p[i]) > 0}
           r == RefOf(p[k])
           A == {n \in DOMAIN found : RefOf(found[n]) = r}
           M == Matched(p, r)
<1>0. \A i \in DOMAIN p : p[i] \in Element /\ p[i].role \in Role
  <2>1. \A e \in Element : e.role \in Role
    BY DEF Element
  <2>2. QED
    BY <2>1
<1>1. Len(p) \in Nat /\ DOMAIN p = 1..Len(p)
  OBVIOUS
<1>2. PICK at : PlacedAt(found, p, I, at)
  <2>1. I \in SUBSET (1..Len(p))
    BY <1>1
  <2>2. QED
    BY <1>1, <2>1, KeptPlaces DEF TreeFound
<1>3. M \subseteq DOMAIN p /\ \A i \in DOMAIN p : i \in M <=> RefOf(p[i]) = r
  <2>1. \A i \in DOMAIN p : p[i].role \in Role
    BY <1>0
  <2>2. r[1] = p[k].role /\ r[2] = p[k].label /\ r[1] \in Role
    BY <2>1 DEF RefOf
  <2>3. "text" \notin Role
    BY DEF Role
  <2>4. \A i \in DOMAIN p : RefOf(p[i]) = r <=> p[i].label = r[2] /\ r[1] = p[i].role
    BY <2>2 DEF RefOf
  <2> HIDE DEF r
  <2>5. QED
    BY <2>2, <2>3, <2>4 DEF Matched
<1>4. M \subseteq I
  <2>1. \A e, f \in Element : RefOf(e) = RefOf(f) => e = f
    BY DEF RefOf, Element
  <2>2. \A i \in DOMAIN p : RefOf(p[i]) = r => p[i] = p[k]
    BY <1>0, <2>1
  <2>3. QED
    BY <1>3, <2>2
<1>5. DOMAIN found = 1..Cardinality(I) /\ IsFiniteSet(I) /\ Cardinality(I) \in Nat
  <2>1. IsFiniteSet(I)
    <3>1. IsFiniteSet(1..Len(p)) /\ I \subseteq 1..Len(p)
      BY <1>1, FS_Interval
    <3> HIDE DEF I
    <3>2. QED
      BY <3>1, FS_Subset
  <2>2. DOMAIN found = 1..Cardinality(I)
    BY DEF TreeFound, Kept
  <2>3. QED
    BY <2>1, <2>2, FS_CardinalityType
<1>6. IsFiniteSet(A) /\ IsFiniteSet(M)
  <2>1. IsFiniteSet(DOMAIN found) /\ A \subseteq DOMAIN found
    <3> HIDE DEF found, I
    <3>1. IsFiniteSet(1..Cardinality(I))
      BY <1>5, FS_Interval
    <3>2. QED
      BY <1>5, <3>1
  <2> HIDE DEF found, I, M, A
  <2>2. QED
    BY <1>4, <1>5, <2>1, FS_Subset
<1>7. \A n \in DOMAIN found : at[n] \in I /\ at[n] \in DOMAIN p /\ found[n] = p[at[n]]
  BY <1>2 DEF PlacedAt
<1>8. \A i \in I : \E n \in DOMAIN found : at[n] = i
  BY <1>2 DEF PlacedAt
<1>9. \A n, l \in DOMAIN found : at[n] = at[l] => n = l
  BY <1>2 DEF PlacedAt
<1> HIDE DEF found, I, M, r
<1>10. \A n \in DOMAIN found : n \in A <=> at[n] \in M
  BY <1>3, <1>7
<1>11. ASSUME NEW x, A = {x} PROVE \E y : M = {y}
  <2>1. x \in DOMAIN found /\ at[x] \in M
    BY <1>10, <1>11
  <2>2. \A y \in M : y = at[x]
    BY <1>4, <1>8, <1>10, <1>11
  <2>3. M = {at[x]}
    BY <2>1, <2>2
  <2>4. QED
    BY <2>3
<1>12. ASSUME NEW y, M = {y} PROVE \E x : A = {x}
  <2>1. PICK x \in DOMAIN found : at[x] = y
    BY <1>4, <1>8, <1>12
  <2>2. x \in A /\ \A z \in A : z = x
    BY <1>9, <1>10, <1>12, <2>1
  <2>3. A = {x}
    BY <2>2
  <2>4. QED
    BY <2>3
<1>13. Cardinality(A) = 1 <=> Cardinality(M) = 1
  <2>1. Cardinality(A) = 1 <=> \E x : A = {x}
    BY <1>6, FS_Singleton
  <2>2. Cardinality(M) = 1 <=> \E x : M = {x}
    BY <1>6, FS_Singleton
  <2>3. QED
    BY <1>11, <1>12, <2>1, <2>2
<1>14. QED
  BY <1>13 DEF A, M, found, r

\* Alike, on any page for any step.
AlikeOn(p, st, e, f) ==
    /\ e.label # NoName /\ f.label # NoName
    /\ NameMatch[e.label] = NameMatch[f.label]
    /\ FuzzyRatio[e.label] = FuzzyRatio[f.label]
    /\ RoleFit(st.action, e.role) = RoleFit(st.action, f.role)
    /\ RoleSignal(st, e.role) = RoleSignal(st, f.role)
    /\ Cardinality(Matched(p, RefOf(e))) = Cardinality(Matched(p, RefOf(f)))
    /\ DropdownIntent(st) => (e.role \in DropdownRoles <=> f.role \in DropdownRoles)

OfTree(p, st, e) == TreeTarget(st, TreeFound(st, p), e)

\* What each of the two is found with.
SameMarks(p, st, e, f) ==
    /\ TreeConfidence(st, e) = TreeConfidence(st, f)
    /\ TreeConfidence(st, f) > 0 =>
         OfTree(p, st, e).raw = OfTree(p, st, f).raw /\ Score(OfTree(p, st, e)) = Score(OfTree(p, st, f))
    /\ FuzzyHit(e) <=> FuzzyHit(f)
    /\ FuzzyTarget(st, e).raw = FuzzyTarget(st, f).raw
    /\ Score(FuzzyTarget(st, e)) = Score(FuzzyTarget(st, f))

LEMMA TwinsFound ==
    ASSUME NEW p \in Seq(Element), NEW st, StepOK(st), st.action \notin Reading,
           NEW i \in DOMAIN p, NEW j \in DOMAIN p, AlikeOn(p, st, p[i], p[j])
    PROVE  SameMarks(p, st, p[i], p[j])
<1> DEFINE e == p[i]
           f == p[j]
           Te == OfTree(p, st, e)
           Tf == OfTree(p, st, f)
<1>1. /\ e \in Element /\ f \in Element
      /\ e.label # NoName /\ f.label # NoName
      /\ NameMatch[e.label] = NameMatch[f.label] /\ FuzzyRatio[e.label] = FuzzyRatio[f.label]
      /\ RoleFit(st.action, e.role) = RoleFit(st.action, f.role)
      /\ RoleSignal(st, e.role) = RoleSignal(st, f.role)
      /\ Cardinality(Matched(p, RefOf(e))) = Cardinality(Matched(p, RefOf(f)))
  BY DEF AlikeOn
<1>2. TreeConfidence(st, e) = TreeConfidence(st, f)
  BY <1>1 DEF TreeConfidence
<1>3. TreeText(st, e) = TreeText(st, f)
  BY <1>1 DEF TreeText
<1>4. ~Strong(st, e) /\ ~Strong(st, f)
  BY DEF Strong
<1>5. Aligned(st.hint, e.role) <=> Aligned(st.hint, f.role)
  <2>1. e.role \in Role /\ f.role \in Role
    BY <1>1 DEF Element
  <2>2. CASE st.hint = "none"
    <3>1. \A r \in Role : ~Aligned("none", r)
      BY DEF Aligned, Role
    <3>2. QED
      BY <2>1, <2>2, <3>1
  <2>3. CASE st.hint # "none"
    <3>1. ASSUME NEW r \in Role
          PROVE  IF Aligned(st.hint, r) THEN RoleSignal(st, r) = 10000 ELSE RoleSignal(st, r) < 10000
      <4>1. RoleFit(st.action, r) \in 0..10000
        <5>1. r \in Role \union {NoRole}
          OBVIOUS
        <5>2. RoleFit(st.action, r) \in Bp
          BY <5>1, FitType
        <5>3. QED
          BY <5>2 DEF Bp
      <4>2. RoleSignal(st, r) = IF Aligned(st.hint, r) THEN 10000 ELSE (RoleFit(st.action, r) * 7) \div 10
        BY <2>3 DEF RoleSignal
      <4> DEFINE x == RoleFit(st.action, r)
      <4> HIDE DEF x
      <4>3. x \in 0..10000 => (x * 7) \div 10 < 10000
        BY SMT
      <4>4. QED
        BY <4>1, <4>2, <4>3 DEF x
    <3>2. QED
      BY <1>1, <2>1, <3>1
  <2>4. QED
    BY <2>2, <2>3
<1>6. Te.raw = Tf.raw
  <2> DEFINE plus(x) == IF Aligned(st.hint, x.role) THEN 300 ELSE 0
  <2>1. plus(e) = plus(f)
    BY <1>5
  <2> HIDE DEF plus
  <2>2. Min({10000, TreeConfidence(st, e) + plus(e)}) = Min({10000, TreeConfidence(st, f) + plus(f)})
    BY <1>2, <2>1
  <2>3. Biased(st, e) = Biased(st, f)
    BY <2>2 DEF Biased, plus
  <2>4. QED
    BY <2>3 DEF OfTree, TreeTarget
<1>7. ASSUME TreeConfidence(st, f) > 0 PROVE Score(Te) = Score(Tf)
  <2>1. TreeSignals(st, TreeFound(st, p), e) = TreeSignals(st, TreeFound(st, p), f)
    <3>1. Cardinality({n \in DOMAIN TreeFound(st, p) : RefOf(TreeFound(st, p)[n]) = RefOf(e)}) = 1
            <=> Cardinality({n \in DOMAIN TreeFound(st, p) : RefOf(TreeFound(st, p)[n]) = RefOf(f)}) = 1
      BY <1>1, <1>2, <1>7, FoundOnce
    <3>2. QED
      BY <1>1, <1>3, <1>4, <3>1 DEF TreeSignals
  <2>2. QED
    BY <2>1 DEF Score, OfTree, TreeTarget
<1>8. FuzzyHit(e) <=> FuzzyHit(f)
  BY <1>1 DEF FuzzyHit
<1>9. FuzzyTarget(st, e).raw = FuzzyTarget(st, f).raw
  BY <1>1 DEF FuzzyTarget
<1>10. Score(FuzzyTarget(st, e)) = Score(FuzzyTarget(st, f))
  BY <1>1 DEF Score, FuzzyTarget
<1>11. QED
  BY <1>2, <1>6, <1>7, <1>8, <1>9, <1>10 DEF SameMarks

LEMMA IsCandidate ==
    ASSUME NEW ref \in Ref, NEW raw \in Bp, NEW role \in Role, NEW named \in BOOLEAN,
           NEW signals \in Signals, NEW by \in Resolver
    PROVE  [ref |-> ref, raw |-> raw, role |-> role, named |-> named, weighed |-> TRUE,
            signals |-> signals, by |-> by] \in Candidate
BY DEF Candidate

\* To act, a resolver that knows the page is never surer than this, and the two
\* never agree on a confidence.
LEMMA PageMarks ==
    ASSUME NEW p \in Seq(Element), NEW st, StepOK(st), st.action \notin Reading,
           NEW e \in Element, e.label # NoName
    PROVE  /\ OfTree(p, st, e) \in Candidate /\ ~(Score(OfTree(p, st, e)) >= 7701)
           /\ TreeConfidence(st, e) > 0 => OfTree(p, st, e).raw \in {7000, 7300, 8000, 8300, 9600, 9900}
           /\ FuzzyTarget(st, e) \in Candidate /\ ~(Score(FuzzyTarget(st, e)) >= 7701)
           /\ FuzzyTarget(st, e).raw \in {6200, 7200, 8200}
<1> DEFINE T == OfTree(p, st, e)
           F == FuzzyTarget(st, e)
           r == RoleSignal(st, e.role)
           t == TreeText(st, e)
           q == FuzzyRatio[e.label]
<1>1. e.role \in Role /\ e.label \in Label /\ RefOf(e) \in Ref
  BY DEF Element, RefOf, Ref
<1>2. r \in Bp
  BY <1>1, FitType
<1>3. q \in Bp
  BY <1>1, PageResolversAssumption
<1>4. /\ TreeConfidence(st, e) \in {0, 7000, 8000, 9600}
      /\ Biased(st, e) \in {TreeConfidence(st, e), TreeConfidence(st, e) + 300}
  <2>1. /\ TreeConfidence(st, e) \in {0, 6000, 7000, 8000, 9600}
        /\ e.label # NoName => TreeConfidence(st, e) # 6000
        /\ Biased(st, e) \in {TreeConfidence(st, e), TreeConfidence(st, e) + 300}
    BY TreeRaw
  <2>2. QED
    BY <2>1
<1>5. t \in {10000, 9500, 8200}
  BY DEF TreeText
<1>6. \A x \in {0, 300, 5000, 6000, 6200, 7000, 7200, 7300, 8000, 8200, 8300, 9500, 9600, 9900, 10000} : x \in Bp
  BY DEF Bp
<1> HIDE DEF r, t, q
<1>7. T.signals.text = t /\ T.signals.role = r /\ T.signals.vis = 8000 /\ T.signals.uniq \in {10000, 6000}
      /\ T.signals.prox = 0 /\ T.signals.mem = 0 /\ T.signals \in Signals
  <2>1. ~Strong(st, e)
    BY DEF Strong
  <2> DEFINE u == T.signals.uniq
  <2>2. T.signals = [text |-> t, role |-> r, vis |-> 8000, uniq |-> u, prox |-> 0, mem |-> 0] /\ u \in {10000, 6000}
    BY <2>1 DEF OfTree, TreeTarget, TreeSignals, t, r
  <2> HIDE DEF u, T
  <2>3. t \in Bp /\ u \in Bp /\ 8000 \in Bp /\ 0 \in Bp
    BY <1>5, <1>6, <2>2
  <2>4. QED
    BY <1>2, <2>2, <2>3 DEF Signals, u
<1>8. T \in Candidate
  <2>1. T.raw \in Bp
    <3>1. T.raw \in {0, 300, 7000, 7300, 8000, 8300, 9600, 9900}
      BY <1>4 DEF OfTree, TreeTarget
    <3>2. QED
      BY <1>6, <3>1
  <2>2. T = [ref |-> RefOf(e), raw |-> T.raw, role |-> e.role, named |-> TRUE, weighed |-> TRUE,
             signals |-> T.signals, by |-> "accessibility_tree"]
    BY DEF OfTree, TreeTarget
  <2>3. "accessibility_tree" \in Resolver
    BY DEF Resolver
  <2> HIDE DEF T
  <2> DEFINE R == [ref |-> RefOf(e), raw |-> T.raw, role |-> e.role, named |-> TRUE, weighed |-> TRUE,
                   signals |-> T.signals, by |-> "accessibility_tree"]
  <2>4. R \in Candidate
    <3>1. RefOf(e) \in Ref /\ T.raw \in Bp /\ e.role \in Role /\ T.signals \in Signals
      BY <1>1, <1>7, <2>1
    <3>2. QED
      BY <2>3, <3>1, IsCandidate
  <2>5. T = R
    BY <2>2
  <2> HIDE DEF R
  <2>6. QED
    BY <2>4, <2>5
<1>9. T.raw = Biased(st, e) /\ T.weighed
  BY DEF OfTree, TreeTarget
<1>10. ~(Score(T) >= 7701)
  <2> DEFINE x == 30 * T.signals.text + 20 * T.signals.role + 15 * T.signals.vis + 15 * T.signals.uniq
                    + 10 * T.signals.prox + 10 * T.signals.mem + 50
             u == T.signals.uniq
  <2>1. Score(T) = x \div 100
    BY <1>9 DEF Score
  <2>2. x = 30 * t + 20 * r + 15 * 8000 + 15 * u + 10 * 0 + 10 * 0 + 50 /\ u \in {10000, 6000}
    BY <1>7
  <2> HIDE DEF x, u, T
  <2>3. r \in Nat /\ r <= 10000
    BY <1>2 DEF Bp
  <2>4. x \in Nat /\ x < 100 * 7701
    BY <1>5, <2>2, <2>3
  <2>5. QED
    BY <2>1, <2>4, Hundredth, 7701 \in Nat
<1>11. F.signals = [text |-> q, role |-> r, vis |-> 8000, uniq |-> 10000, prox |-> 0, mem |-> 0]
       /\ F.weighed /\ F.raw \in {6200, 7200, 8200}
  BY DEF FuzzyTarget, FuzzyConfidence, q, r
<1>12. F \in Candidate
  <2>1. F = [ref |-> RefOf(e), raw |-> F.raw, role |-> e.role, named |-> FALSE, weighed |-> TRUE,
             signals |-> F.signals, by |-> "fuzzy_text"]
    BY DEF FuzzyTarget
  <2> HIDE DEF F
  <2>2. F.raw \in Bp /\ F.signals \in Signals
    BY <1>2, <1>3, <1>6, <1>11 DEF Signals
  <2>3. "fuzzy_text" \in Resolver
    BY DEF Resolver
  <2>4. QED
    BY <1>1, <2>1, <2>2, <2>3, IsCandidate
<1>13. ~(Score(F) >= 7701)
  <2> DEFINE x == 30 * q + 20 * r + 15 * 8000 + 15 * 10000 + 10 * 0 + 10 * 0 + 50
  <2> HIDE DEF F
  <2>1. Score(F) = x \div 100
    BY <1>11 DEF Score
  <2>2. r \in Nat /\ r <= 10000 /\ q \in Nat /\ q <= 10000
    BY <1>2, <1>3 DEF Bp
  <2>3. x \in Nat /\ x < 100 * 7701
    BY <2>2
  <2> HIDE DEF x
  <2>4. QED
    BY <2>1, <2>3, Hundredth, 7701 \in Nat
<1>14. TreeConfidence(st, e) > 0 => T.raw \in {7000, 7300, 8000, 8300, 9600, 9900}
  <2> HIDE DEF T
  <2>1. QED
    BY <1>4, <1>9
<1>15. QED
  BY <1>8, <1>10, <1>11, <1>12, <1>13, <1>14

\* What is picked is as good as anything at another ref, and better than all of it
\* in score or in role fit.
Apart(st, cs, c) == c \in ToSet(cs) /\ \A d \in ToSet(cs) : d.ref # c.ref => ~AtLeast(st, d, c)

LEMMA PickedApart ==
    ASSUME NEW st, StepOK(st), st.action \notin Reading, NEW cs \in Seq(Candidate), NEW t \in Nat, Reaches(cs, t),
           Pick(st, cs).kind = "resolved"
    PROVE  \E c \in Candidate : Pick(st, cs).target = Ranked(c) /\ Apart(st, cs, c) /\ Score(c) >= t
<1> DEFINE a == st.action
           i == FirstOf(cs, a, DOMAIN cs)
           c == cs[i]
           q == FirstOf(cs, a, DOMAIN cs \ {i})
<1>1. ~Ambiguous(cs, a) /\ Pick(st, cs).target = Ranked(c)
  BY DEF Pick, Failed, Resolved, BestForAction
<1>2. DOMAIN cs # {} /\ DOMAIN cs \in SUBSET DOMAIN cs
  BY SeqMembers DEF Reaches
<1>3. i \in DOMAIN cs /\ \A j \in DOMAIN cs : AtLeast(st, c, cs[j])
  BY <1>2, BestOf
<1> HIDE DEF i
<1>4. c \in Candidate /\ c \in ToSet(cs)
  BY <1>3, SeqMembers DEF ToSet
<1>5. Score(c) >= t
  <2>1. PICK d \in ToSet(cs) : Pick(st, cs).target = Ranked(d) /\ Score(d) >= t
    BY PickedScores
  <2>2. d \in Candidate
    BY SeqMembers
  <2> HIDE DEF c
  <2>3. Score(Ranked(d)) = Score(d) /\ Score(Ranked(c)) = Score(c)
    BY <1>4, <2>2, RankedScore
  <2>4. QED
    BY <1>1, <2>1, <2>3
<1>6. ASSUME NEW d \in ToSet(cs), d.ref # c.ref, AtLeast(st, d, c) PROVE FALSE
  <2>1. PICK j \in DOMAIN cs : d = cs[j]
    BY DEF ToSet
  <2>2. j # i
    BY <1>6, <2>1
  <2>3. DOMAIN cs \ {i} \in SUBSET DOMAIN cs /\ DOMAIN cs \ {i} # {}
    BY <2>1, <2>2
  <2>4. q \in DOMAIN cs \ {i} /\ AtLeast(st, cs[q], d)
    BY <2>1, <2>2, <2>3, BestOf
  <2>5. AtLeast(st, c, cs[q])
    BY <1>3, <2>4
  <2>6. Len(cs) >= 2
    <3>1. DOMAIN cs = 1..Len(cs) /\ Len(cs) \in Nat
      OBVIOUS
    <3>2. i \in 1..Len(cs) /\ j \in 1..Len(cs) /\ i # j
      BY <1>3, <2>1, <2>2, <3>1
    <3>3. QED
      BY <3>1, <3>2
  <2>7. ~(Score(c) - Score(cs[q]) < AmbiguousGap /\ RoleFit(a, c.role) <= RoleFit(a, cs[q].role))
    BY <1>1, <2>6 DEF Ambiguous, Reading, i
  <2>8. cs[q] \in Candidate /\ d \in Candidate
    BY <2>4, SeqMembers
  <2> HIDE DEF q, c
  <2>9. /\ Score(c) \in Nat /\ RoleFit(a, c.role) \in Nat
        /\ Score(d) \in Nat /\ RoleFit(a, d.role) \in Nat
        /\ Score(cs[q]) \in Nat /\ RoleFit(a, cs[q].role) \in Nat
    BY <1>4, <2>8, MarksNat
  <2>10. Score(cs[q]) = Score(c) /\ RoleFit(a, cs[q].role) >= RoleFit(a, c.role)
    BY <1>6, <2>4, <2>5, <2>9 DEF AtLeast
  <2>11. QED
    BY <2>7, <2>9, <2>10 DEF AmbiguousGap
<1>7. QED
  BY <1>1, <1>4, <1>5, <1>6 DEF Apart

\* A row whose replay outranks what the tree finds at the same ref, unless the
\* fuzzy resolver finds it with more confidence.
Outranks(p, st, m) ==
    \A i \in DOMAIN p :
        /\ RefOf(p[i]) = m.ref /\ p[i].label # NoName /\ TreeConfidence(st, p[i]) > 0
        /\ FuzzyHit(p[i]) => FuzzyTarget(st, p[i]).raw < OfTree(p, st, p[i]).raw
        => Score(Replay(m)) > Score(OfTree(p, st, p[i]))

\* A target that is known by its role carries it.
Roled(m) == m.ref[1] \in Role => m.role = m.ref[1]

TargetFit(p, st, m) == m \in Candidate /\ Outranks(p, st, m) /\ (DropdownIntent(st) => Roled(m))
RowFit(p, st, m) == m = NoMemo \/ TargetFit(p, st, m)

LEMMA ReplayScores ==
    ASSUME NEW g \in Candidate, Memoryless(g)
    PROVE  Score(Replay(g)) = Score(g) + 800
<1>1. g.signals \in Signals /\ 8000 \in Bp
  BY DEF Candidate, Bp
<1>2. Max({0, 8000}) = 8000
  <2>1. Max({0, 8000}) \in {0, 8000}
    BY MaxOfTwo
  <2>2. Max({0, 8000}) = CHOOSE x \in {0, 8000} : \A y \in {0, 8000} : x >= y
    BY DEF Max
  <2>3. \E x \in {0, 8000} : \A y \in {0, 8000} : x >= y
    OBVIOUS
  <2>4. QED
    BY <2>2, <2>3
<1>3. [g.signals EXCEPT !.mem = Max({@, 8000})] = SignalsOf(g, 8000)
  BY <1>1, <1>2 DEF Memoryless, SignalsOf, Signals
<1>4. SignalsOf(g, 8000) \in Signals
  BY SignalsSet
<1>5. Replay(g) \in Candidate /\ Replay(g).weighed /\ Replay(g).signals = SignalsOf(g, 8000)
  BY <1>3, <1>4, WeighedReplay DEF Memoryless
<1>6. QED
  BY <1>5, MemoryWeight DEF Memoryless

\* The signals of a replay.
Resigned(m) ==
    IF m.weighed THEN [m.signals EXCEPT !.mem = Max({@, 8000})]
    ELSE [text |-> m.raw, role |-> 0, vis |-> 5000, uniq |-> 8000, prox |-> 5000, mem |-> 8000]

LEMMA MemorySignal == \A x \in Bp : Max({x, 8000}) \in Bp
<1> TAKE x \in Bp
<1>1. x \in Nat /\ 8000 \in Nat /\ 8000 \in Bp
  BY DEF Bp
<1>2. Max({x, 8000}) \in {x, 8000}
  BY <1>1, MaxOfTwo
<1>3. QED
  BY <1>1, <1>2

LEMMA ReplayType ==
    ASSUME NEW m \in Candidate
    PROVE  /\ Replay(m) \in Candidate /\ Replay(m).ref = m.ref /\ Replay(m).role = m.role
           /\ Replay(m).weighed /\ Replay(m).by = "memory_cache" /\ Replay(m).signals = Resigned(m)
<1>1. Replay(m).by = "memory_cache"
  BY DEF Replay, Candidate
<1>2. Replay(m) = Restamp(m, Resigned(m))
  BY DEF Replay, Restamp, Resigned
<1>3. Resigned(m) \in Signals
  <2>1. m.signals \in Signals /\ m.raw \in Bp
    BY DEF Candidate
  <2>2. m.signals.mem \in Bp
    BY <2>1 DEF Signals
  <2>3. [m.signals EXCEPT !.mem = Max({m.signals.mem, 8000})] \in Signals
    <3> DEFINE y == Max({m.signals.mem, 8000})
    <3>1. y \in Bp
      BY <2>2, MemorySignal
    <3> HIDE DEF y
    <3>2. [m.signals EXCEPT !.mem = y] \in Signals
      BY <2>1, <3>1 DEF Signals
    <3>3. QED
      BY <3>2 DEF y
  <2>4. [text |-> m.raw, role |-> 0, vis |-> 5000, uniq |-> 8000, prox |-> 5000, mem |-> 8000] \in Signals
    <3>1. m.raw \in Bp /\ 0 \in Bp /\ 5000 \in Bp /\ 8000 \in Bp
      BY <2>1 DEF Bp
    <3>2. QED
      BY <3>1 DEF Signals
  <2>5. [m.signals EXCEPT !.mem = Max({@, 8000})] \in Signals
    BY <2>3
  <2>6. CASE m.weighed
    BY <2>5, <2>6 DEF Resigned
  <2>7. CASE ~m.weighed
    BY <2>4, <2>7 DEF Resigned
  <2>8. QED
    BY <2>6, <2>7
<1>4. /\ Restamp(m, Resigned(m)) \in Candidate /\ Restamp(m, Resigned(m)).ref = m.ref
      /\ Restamp(m, Resigned(m)).role = m.role /\ Restamp(m, Resigned(m)).weighed
      /\ Restamp(m, Resigned(m)).signals = Resigned(m)
  BY <1>3, Restamped
<1>5. QED
  BY <1>1, <1>2, <1>4

LEMMA RankedReplay ==
    ASSUME NEW c \in Candidate
    PROVE  /\ Ranked(c) \in Candidate /\ Ranked(c).ref = c.ref /\ Ranked(c).role = c.role /\ Ranked(c).by = c.by
           /\ Score(Replay(Ranked(c))) = Score(Replay(c))
<1> DEFINE r == Ranked(c)
<1>1. Score(c) \in Bp
  BY ScoreType
<1>2. r.raw = Score(c) /\ r.ref = c.ref /\ r.role = c.role /\ r.by = c.by /\ r.weighed = c.weighed /\ r.signals = c.signals
  BY DEF Ranked, Candidate
<1>3. r \in Candidate
  <2>1. r = [c EXCEPT !.raw = Score(c)]
    BY DEF Ranked
  <2>2. QED
    BY <1>1, <2>1 DEF Candidate
<1> HIDE DEF r
<1>4. ~c.weighed => r.raw = c.raw
  BY <1>2 DEF Score
<1>5. Replay(r).signals = Replay(c).signals /\ Replay(r).weighed /\ Replay(c).weighed
  <2>1. Resigned(r) = Resigned(c)
    BY <1>2, <1>4 DEF Resigned
  <2>2. QED
    BY <1>3, <2>1, ReplayType
<1>6. Score(Replay(r)) = Score(Replay(c))
  BY <1>5 DEF Score
<1>7. QED
  BY <1>2, <1>3, <1>6 DEF r

\* Neither ranking nor a replay makes a target less fit for a row, and one that a
\* tier decided for is fit.
LEMMA RankedFits ==
    ASSUME NEW p, NEW st, NEW c, TargetFit(p, st, c)
    PROVE  TargetFit(p, st, Ranked(c))
<1>1. c \in Candidate
  BY DEF TargetFit
<1>2. /\ Ranked(c) \in Candidate /\ Ranked(c).ref = c.ref /\ Ranked(c).role = c.role
      /\ Score(Replay(Ranked(c))) = Score(Replay(c))
  BY <1>1, RankedReplay
<1>3. QED
  BY <1>2 DEF TargetFit, Outranks, Roled

LEMMA ReplayFits ==
    ASSUME NEW p \in Seq(Element), NEW st, StepOK(st), st.action \notin Reading, NEW m, TargetFit(p, st, m)
    PROVE  TargetFit(p, st, Replay(m))
<1>1. m \in Candidate
  BY DEF TargetFit
<1>2. Replay(m) \in Candidate /\ Replay(m).ref = m.ref /\ Replay(m).role = m.role /\ Replay(m).weighed
  BY <1>1, ReplayType
<1>3. Score(Replay(Replay(m))) >= Score(Replay(m)) /\ Replay(Replay(m)) \in Candidate
  BY <1>2, ReplayMarks, ReplayType
<1>4. Score(Replay(Replay(m))) \in Nat /\ Score(Replay(m)) \in Nat
  BY <1>2, <1>3, ScoreNat
<1>5. ASSUME NEW i \in DOMAIN p, p[i].label # NoName, Score(Replay(m)) > Score(OfTree(p, st, p[i]))
      PROVE  Score(Replay(Replay(m))) > Score(OfTree(p, st, p[i]))
  <2>1. p[i] \in Element
    OBVIOUS
  <2>2. OfTree(p, st, p[i]) \in Candidate
    BY <1>5, <2>1, PageMarks
  <2>3. Score(OfTree(p, st, p[i])) \in Nat
    BY <2>2, ScoreNat
  <2>4. QED
    BY <1>3, <1>4, <1>5, <2>3
<1>6. Outranks(p, st, Replay(m))
  BY <1>2, <1>5 DEF TargetFit, Outranks
<1>7. QED
  BY <1>2, <1>6 DEF TargetFit, Roled

LEMMA SureFits ==
    ASSUME NEW p \in Seq(Element), NEW st, StepOK(st), st.action \notin Reading,
           NEW c \in Candidate, Memoryless(c), Score(c) >= 7000, DropdownIntent(st) => Roled(c)
    PROVE  TargetFit(p, st, c)
<1>1. Score(Replay(c)) = Score(c) + 800 /\ Score(c) \in Nat
  BY ReplayScores, ScoreNat
<1>2. ASSUME NEW i \in DOMAIN p, p[i].label # NoName PROVE Score(Replay(c)) > Score(OfTree(p, st, p[i]))
  <2>1. p[i] \in Element
    OBVIOUS
  <2>2. OfTree(p, st, p[i]) \in Candidate /\ ~(Score(OfTree(p, st, p[i])) >= 7701)
    BY <1>2, <2>1, PageMarks
  <2>3. Score(OfTree(p, st, p[i])) \in Nat
    BY <2>2, ScoreNat
  <2>4. QED
    BY <1>1, <2>2, <2>3
<1>3. QED
  BY <1>2 DEF TargetFit, Outranks

\* A target without an element's ref is no row for an element.
LEMMA OtherFits ==
    ASSUME NEW p \in Seq(Element), NEW st, NEW c \in Candidate, c.ref[1] \notin Role \/ c.ref[2] = NoName,
           DropdownIntent(st) => Roled(c)
    PROVE  TargetFit(p, st, c)
<1>1. ASSUME NEW i \in DOMAIN p, p[i].label # NoName PROVE RefOf(p[i]) # c.ref
  <2>1. p[i] \in Element
    OBVIOUS
  <2>2. p[i].role \in Role
    BY <2>1 DEF Element
  <2>3. QED
    BY <1>1, <2>2 DEF RefOf
<1>2. QED
  BY <1>1 DEF TargetFit, Outranks

\* What is found is never a guess between two that are alike.
Unguessed(p, st, t) ==
    t.by \in {"accessibility_tree", "exact_text", "fuzzy_text"} =>
        \A i, j \in DOMAIN p : RefOf(p[j]) = t.ref /\ RefOf(p[i]) # t.ref => ~AlikeOn(p, st, p[i], p[j])
Fair(p, st, t) == Unguessed(p, st, t) /\ TargetFit(p, st, t)
EndsFair(p, st, outcome) == outcome.kind = "resolved" => Fair(p, st, outcome.target)

\* A model's target that did not decide.
Weak(c) == c.by = "llm_grounding" /\ ~(Score(c) >= 7000) /\ (c.ref[1] \in Role => ~(c.raw >= 7000))

\* What every tier has left, and what the final choice makes of it.
LeftOver(p, st, m, all) ==
    /\ all \in Seq(Candidate)
    /\ ~Reaches(TierResult(p, st, m, 1), 8500) /\ ~Reaches(TierResult(p, st, m, 2), 7000)
    /\ \A c \in ToSet(TierResult(p, st, m, 1)) : c \in ToSet(all)
    /\ \A c \in ToSet(TierResult(p, st, m, 2)) : c \in ToSet(all)
    /\ \A c \in ToSet(all) : \/ c \in ToSet(TierResult(p, st, m, 1))
                             \/ c \in ToSet(TierResult(p, st, m, 2))
                             \/ ~DropdownIntent(st) /\ Weak(c)

Kinds(p, st, m, c) ==
    \/ m # NoMemo /\ c = Replay(m)
    \/ c \in ToSet(TreeFinds(st, p)) \/ c \in ToSet(TextFinds(p)) \/ c \in ToSet(FuzzyFinds(st, p))
    \/ ~DropdownIntent(st) /\ Weak(c)
Stands(c, U) ==
    /\ \E d \in ToSet(U) : d.ref = c.ref
    /\ \A d \in ToSet(U) : d.ref = c.ref => d.raw >= c.raw
Remaining(p, st, m, U) ==
    /\ U \in Seq(Candidate)
    /\ \A c \in ToSet(U) : Kinds(p, st, m, c)
    /\ \A c \in ToSet(TreeFinds(st, p)) : Stands(c, U)
    /\ \A c \in ToSet(FuzzyFinds(st, p)) : Stands(c, U) /\ ~(Score(c) >= 7000)

LEMMA TierTwoIs ==
    ASSUME NEW p \in Seq(Element), NEW st, StepOK(st), NEW m, MemoOK(m)
    PROVE  TierResult(p, st, m, 2) = TierDedupe(FuzzyFinds(st, p))
<1> DEFINE f == FuzzyFinds(st, p)
           rs == TierFinds(p, st, m, 2)
           Runs(n) == n \in DOMAIN rs /\ \A k \in 1..(n - 1) : ~Reaches(rs[k], StopAt(2))
           Finds(n) == IF Runs(n) THEN rs[n] ELSE <<>>
<1>1. rs = <<f>>
  BY DEF TierFinds
<1>2. f \in Seq(Candidate)
  BY FindsType
<1>3. TierResult(p, st, m, 2) = TierDedupe(Finds(1) \o Finds(2) \o Finds(3) \o Finds(4))
  BY DEF TierResult, RunTier
<1> HIDE DEF f, rs
<1>4. Finds(1) = f /\ Finds(2) = <<>> /\ Finds(3) = <<>> /\ Finds(4) = <<>>
  BY <1>1
<1> HIDE DEF Finds
<1>5. Finds(1) \o Finds(2) \o Finds(3) \o Finds(4) = f
  BY <1>2, <1>4, NothingJoined
<1>6. QED
  BY <1>3, <1>5 DEF f

LEMMA RemainsIs ==
    ASSUME NEW p \in Seq(Element), NEW st, StepOK(st), NEW m, MemoOK(m), NEW all, LeftOver(p, st, m, all)
    PROVE  Remaining(p, st, m, FinalDedupe(all))
<1> DEFINE U == FinalDedupe(all)
           t1 == TierResult(p, st, m, 1)
           t2 == TierResult(p, st, m, 2)
<1>1. all \in Seq(Candidate) /\ ~Reaches(t1, 8500) /\ ~Reaches(t2, 7000)
  BY DEF LeftOver
<1>2. Candidate \in SUBSET Candidate
  OBVIOUS
<1>3. /\ U \in Seq(Candidate)
      /\ \A c \in ToSet(all) : \E d \in ToSet(U) : d.ref = c.ref /\ d.raw >= c.raw
      /\ \A d \in ToSet(U) : \A c \in ToSet(all) : c.ref = d.ref => d.raw >= c.raw
  BY <1>1, <1>2, FinalDedupeKeeps
<1>4. \A c \in ToSet(U) : c \in ToSet(all)
  BY <1>1, FinalLeads DEF Leads
<1>5. TierOneLeft(p, st, m, t1)
  BY <1>1, TierOneUndecided
<1>6. t1 \in Seq(Candidate) /\ t2 \in Seq(Candidate) /\ FuzzyFinds(st, p) \in Seq(Candidate)
      /\ TreeFinds(st, p) \in Seq(Candidate)
  BY TiersType, FindsType
<1>7. \A c \in ToSet(MemoryFinds(m)) : m # NoMemo /\ c = Replay(m)
  BY DEF MemoryFinds, ToSet
<1>8. \A c \in ToSet(t2) : c \in ToSet(FuzzyFinds(st, p))
  BY TierTwoHolds
<1>9. ASSUME NEW c \in ToSet(FuzzyFinds(st, p)) PROVE c \in ToSet(t2) /\ ~(Score(c) >= 7000)
  <2>1. t2 = TierDedupe(FuzzyFinds(st, p))
    BY TierTwoIs
  <2>2. PICK d \in ToSet(t2) : d.ref = c.ref
    <3>1. Covers(TierDedupe(FuzzyFinds(st, p)), ToSet(FuzzyFinds(st, p)))
      BY <1>6, DedupeCovers
    <3>2. QED
      BY <2>1, <3>1 DEF Covers
  <2>3. d = c
    BY <1>8, <2>2, FuzzyOnce
  <2>4. c \in ToSet(t2)
    BY <2>2, <2>3
  <2>5. QED
    BY <1>1, <1>6, <2>4, NotReached, 7000 \in Nat
<1>10. ASSUME NEW c \in ToSet(TreeFinds(st, p)) PROVE \E d \in ToSet(all) : d.ref = c.ref /\ d.raw >= c.raw
  <2>1. PICK d \in ToSet(t1) : d.ref = c.ref /\ d.raw >= c.raw
    BY <1>5 DEF TierOneLeft
  <2>2. d \in ToSet(all)
    BY <2>1 DEF LeftOver
  <2>3. QED
    BY <2>1, <2>2
<1>11. \A c \in ToSet(U) : Kinds(p, st, m, c)
  <2> SUFFICES ASSUME NEW c \in ToSet(U) PROVE Kinds(p, st, m, c)
    OBVIOUS
  <2>1. c \in ToSet(t1) \/ c \in ToSet(t2) \/ (~DropdownIntent(st) /\ Weak(c))
    BY <1>4 DEF LeftOver
  <2>2. c \in ToSet(t1) =>
          c \in ToSet(MemoryFinds(m)) \/ c \in ToSet(TreeFinds(st, p)) \/ c \in ToSet(TextFinds(p))
    BY <1>5 DEF TierOneLeft
  <2>3. QED
    BY <1>7, <1>8, <2>1, <2>2 DEF Kinds
<1>12. ASSUME NEW c \in Candidate, NEW x \in ToSet(all), x.ref = c.ref, x.raw >= c.raw PROVE Stands(c, U)
  <2>1. x \in Candidate
    BY <1>1, SeqMembers
  <2>2. ASSUME NEW d \in ToSet(U), d.ref = c.ref PROVE d.raw >= c.raw
    <3>1. d \in Candidate /\ d.raw >= x.raw
      BY <1>3, <1>12, <2>2, SeqMembers
    <3>2. d.raw \in Nat /\ x.raw \in Nat /\ c.raw \in Nat
      BY <2>1, <3>1, RawNat
    <3>3. QED
      BY <1>12, <3>1, <3>2
  <2>3. \E d \in ToSet(U) : d.ref = c.ref
    BY <1>3, <1>12
  <2>4. QED
    BY <2>2, <2>3 DEF Stands
<1>13. \A c \in ToSet(TreeFinds(st, p)) : Stands(c, U)
  BY <1>6, <1>10, <1>12, SeqMembers
<1>14. \A c \in ToSet(FuzzyFinds(st, p)) : Stands(c, U) /\ ~(Score(c) >= 7000)
  <2> SUFFICES ASSUME NEW c \in ToSet(FuzzyFinds(st, p)) PROVE Stands(c, U) /\ ~(Score(c) >= 7000)
    OBVIOUS
  <2>1. c \in ToSet(all) /\ ~(Score(c) >= 7000)
    BY <1>9 DEF LeftOver
  <2>2. c \in Candidate /\ c.raw >= c.raw
    <3>1. c \in Candidate
      BY <1>6, SeqMembers
    <3>2. QED
      BY <3>1, RawNat
  <2>3. QED
    BY <1>12, <2>1, <2>2
<1>15. QED
  BY <1>3, <1>11, <1>13, <1>14 DEF Remaining

\* What stands for a named element of the page.
LEMMA Representative ==
    ASSUME NEW p \in Seq(Element), NEW st, NEW m, NEW i \in DOMAIN p, p[i].label # NoName,
           NEW d, Kinds(p, st, m, d), d.ref = RefOf(p[i])
    PROVE  \/ d = OfTree(p, st, p[i]) /\ TreeConfidence(st, p[i]) > 0
           \/ d = FuzzyTarget(st, p[i]) /\ FuzzyHit(p[i])
           \/ m # NoMemo /\ d = Replay(m)
           \/ ~DropdownIntent(st) /\ Weak(d)
<1>1. \A e, f \in Element : RefOf(e) = RefOf(f) => e = f
  BY DEF Element, RefOf
<1>2. p[i] \in Element
  OBVIOUS
<1>3. p[i].role \in Role /\ d.ref[1] = p[i].role /\ d.ref[2] # NoName
  BY <1>2 DEF Element, RefOf
<1>4. d \notin ToSet(TextFinds(p))
  <2>1. "text" \notin Role
    BY DEF Role
  <2>2. QED
    BY <1>3, <2>1, TextMarks
<1>5. CASE d \in ToSet(TreeFinds(st, p))
  <2>1. PICK k \in DOMAIN p : d = OfTree(p, st, p[k]) /\ d.ref = RefOf(p[k]) /\ TreeConfidence(st, p[k]) > 0
    BY <1>3, <1>5, TreeMembers DEF OfTree
  <2>2. p[k] = p[i]
    BY <1>1, <1>2, <2>1
  <2>3. QED
    BY <2>1, <2>2
<1>6. CASE d \in ToSet(FuzzyFinds(st, p))
  <2>1. PICK k \in DOMAIN p : d = FuzzyTarget(st, p[k]) /\ d.ref = RefOf(p[k]) /\ FuzzyHit(p[k])
    BY <1>6, FuzzyMembers
  <2>2. p[k] = p[i]
    BY <1>1, <1>2, <2>1
  <2>3. QED
    BY <2>1, <2>2
<1>7. QED
  BY <1>4, <1>5, <1>6 DEF Kinds

\* The marks of the two, as they are compared.
LEMMA TwinMarks ==
    ASSUME NEW p \in Seq(Element), NEW st, StepOK(st), st.action \notin Reading,
           NEW i \in DOMAIN p, NEW j \in DOMAIN p, AlikeOn(p, st, p[i], p[j])
    PROVE  /\ p[i].label # NoName /\ p[j].label # NoName
           /\ TreeConfidence(st, p[j]) > 0 =>
                /\ TreeConfidence(st, p[i]) > 0
                /\ OfTree(p, st, p[i]).raw = OfTree(p, st, p[j]).raw
                /\ AtLeast(st, OfTree(p, st, p[i]), OfTree(p, st, p[j]))
           /\ FuzzyHit(p[i]) <=> FuzzyHit(p[j])
           /\ FuzzyTarget(st, p[i]).raw = FuzzyTarget(st, p[j]).raw
           /\ AtLeast(st, FuzzyTarget(st, p[i]), FuzzyTarget(st, p[j]))
<1>1. SameMarks(p, st, p[i], p[j])
  BY TwinsFound
<1>2. /\ p[i].label # NoName /\ p[j].label # NoName
      /\ RoleFit(st.action, p[i].role) = RoleFit(st.action, p[j].role)
  BY DEF AlikeOn
<1>3. \A e : OfTree(p, st, e).role = e.role /\ FuzzyTarget(st, e).role = e.role
  BY DEF OfTree, TreeTarget, FuzzyTarget
<1>4. p[j] \in Element
  OBVIOUS
<1>5. p[j].role \in Role \union {NoRole}
  BY <1>4 DEF Element
<1>6. RoleFit(st.action, p[j].role) \in Nat
  BY <1>5, FitType, BpNat
<1>7. QED
  BY <1>1, <1>2, <1>3, <1>6 DEF SameMarks, AtLeast

\* The choice of the last resort, over the review band.
LEMMA PickFair ==
    ASSUME NEW p \in Seq(Element), NEW st, StepOK(st), st.action \notin Reading, NEW m, RowFit(p, st, m),
           NEW U, Remaining(p, st, m, U), NEW c \in Candidate, Apart(st, U, c)
    PROVE  c.by \in {"accessibility_tree", "exact_text"} => Unguessed(p, st, c)
<1> SUFFICES ASSUME c.by \in {"accessibility_tree", "exact_text"},
                    NEW i \in DOMAIN p, NEW j \in DOMAIN p, RefOf(p[j]) = c.ref, RefOf(p[i]) # c.ref,
                    AlikeOn(p, st, p[i], p[j])
             PROVE  FALSE
  BY DEF Unguessed
<1> DEFINE Ti == OfTree(p, st, p[i])
           Tj == OfTree(p, st, p[j])
           Fi == FuzzyTarget(st, p[i])
           Fj == FuzzyTarget(st, p[j])
<1>1. /\ p[i].label # NoName /\ p[j].label # NoName
      /\ TreeConfidence(st, p[j]) > 0 => TreeConfidence(st, p[i]) > 0 /\ Ti.raw = Tj.raw /\ AtLeast(st, Ti, Tj)
      /\ FuzzyHit(p[i]) <=> FuzzyHit(p[j])
      /\ Fi.raw = Fj.raw
  BY TwinMarks
<1>2. c \in ToSet(U) /\ Kinds(p, st, m, c)
  BY DEF Apart, Remaining
<1>3. Fj.by = "fuzzy_text" /\ Fj.ref = RefOf(p[j]) /\ Ti.ref = RefOf(p[i]) /\ Tj.ref = RefOf(p[j])
  BY DEF OfTree, TreeTarget, FuzzyTarget
<1>4. m # NoMemo => m \in Candidate /\ Replay(m).by = "memory_cache" /\ Replay(m).ref = m.ref /\ Outranks(p, st, m)
  BY ReplayType DEF RowFit, TargetFit
<1>5. c = Tj /\ TreeConfidence(st, p[j]) > 0
  <2>1. \/ c = Tj /\ TreeConfidence(st, p[j]) > 0
        \/ c = Fj /\ FuzzyHit(p[j])
        \/ m # NoMemo /\ c = Replay(m)
        \/ ~DropdownIntent(st) /\ Weak(c)
    BY <1>1, <1>2, Representative
  <2>2. c.by # "fuzzy_text" /\ c.by # "memory_cache" /\ c.by # "llm_grounding"
    OBVIOUS
  <2> HIDE DEF Tj, Fj
  <2>3. QED
    BY <1>3, <1>4, <2>1, <2>2 DEF Weak
<1>6. p[i] \in Element /\ p[j] \in Element
  OBVIOUS
<1>7. /\ Ti \in Candidate /\ Ti.raw \in {7000, 7300, 8000, 8300, 9600, 9900}
      /\ Fi \in Candidate /\ Fi.raw \in {6200, 7200, 8200}
  <2>1. /\ Ti \in Candidate /\ ~(Score(Ti) >= 7701)
        /\ TreeConfidence(st, p[i]) > 0 => Ti.raw \in {7000, 7300, 8000, 8300, 9600, 9900}
        /\ Fi \in Candidate /\ ~(Score(Fi) >= 7701)
        /\ Fi.raw \in {6200, 7200, 8200}
    BY <1>1, <1>6, PageMarks
  <2> HIDE DEF Ti, Fi
  <2>2. QED
    BY <1>1, <1>5, <2>1
<1>8. Ti \in ToSet(TreeFinds(st, p))
  BY <1>1, <1>5, TreeMembers DEF OfTree
<1>9. FuzzyHit(p[i]) => Fi.raw < Ti.raw
  <2> SUFFICES ASSUME FuzzyHit(p[i]) PROVE Fi.raw < Ti.raw
    OBVIOUS
  <2>1. Fj \in ToSet(FuzzyFinds(st, p))
    BY <1>1, FuzzyMembers
  <2>2. c.raw >= Fj.raw
    BY <1>2, <1>3, <2>1 DEF Remaining, Stands
  <2> HIDE DEF Ti, Tj, Fi, Fj
  <2>3. Ti.raw >= Fi.raw
    BY <1>1, <1>5, <2>2
  <2>4. QED
    BY <1>7, <2>3
<1>10. PICK d \in ToSet(U) : d.ref = Ti.ref /\ d.raw >= Ti.raw
  BY <1>8 DEF Remaining, Stands
<1>11. d \in Candidate /\ Kinds(p, st, m, d) /\ ~AtLeast(st, d, c) /\ d.ref = RefOf(p[i])
  <2>1. d.ref = RefOf(p[i]) /\ d.ref # c.ref
    BY <1>3, <1>10
  <2>2. QED
    BY <2>1, SeqMembers DEF Remaining, Apart
<1>12. \/ d = Ti
       \/ d = Fi /\ FuzzyHit(p[i])
       \/ m # NoMemo /\ d = Replay(m)
       \/ ~DropdownIntent(st) /\ Weak(d)
  <2>1. p[i].label # NoName /\ Kinds(p, st, m, d) /\ d.ref = RefOf(p[i])
    BY <1>1, <1>11
  <2>2. \/ d = Ti /\ TreeConfidence(st, p[i]) > 0
        \/ d = Fi /\ FuzzyHit(p[i])
        \/ m # NoMemo /\ d = Replay(m)
        \/ ~DropdownIntent(st) /\ Weak(d)
    BY <2>1, Representative
  <2>3. QED
    BY <2>2
<1>13. d.raw \in Nat
  BY <1>11, RawNat
<1>14. d # Ti
  BY <1>1, <1>5, <1>11
<1>15. ~(d = Fi /\ FuzzyHit(p[i]))
  <2> HIDE DEF Ti, Fi
  <2>1. QED
    BY <1>7, <1>9, <1>10
<1>16. ~Weak(d)
  <2>1. d.ref[1] \in Role
    BY <1>6, <1>11 DEF RefOf, Element
  <2> HIDE DEF Ti
  <2>2. d.raw >= 7000
    BY <1>7, <1>10, <1>13
  <2>3. QED
    BY <2>1, <2>2 DEF Weak
<1>17. ~(m # NoMemo /\ d = Replay(m))
  <2> SUFFICES ASSUME m # NoMemo, d = Replay(m) PROVE FALSE
    OBVIOUS
  <2>1. m.ref = RefOf(p[i])
    BY <1>4, <1>11
  <2>2. Score(d) > Score(Ti)
    BY <1>1, <1>4, <1>5, <1>9, <2>1 DEF Outranks
  <2>3. Score(Ti) \in Nat /\ Score(Tj) \in Nat /\ Score(d) \in Nat
    BY <1>5, <1>7, <1>11, ScoreNat
  <2>4. AtLeast(st, Ti, Tj)
    BY <1>1, <1>5
  <2> HIDE DEF Ti, Tj
  <2>5. Score(d) > Score(Tj)
    BY <2>2, <2>3, <2>4 DEF AtLeast
  <2>6. QED
    BY <1>5, <1>11, <2>5 DEF AtLeast
<1>18. QED
  BY <1>12, <1>14, <1>15, <1>16, <1>17

LEMMA TreeFits ==
    ASSUME NEW p \in Seq(Element), NEW st, StepOK(st), st.action \notin Reading,
           NEW c \in Candidate, c \in ToSet(TreeFinds(st, p))
    PROVE  TargetFit(p, st, c)
<1>1. /\ c.ref[1] \in Role /\ c.role = c.ref[1]
      /\ c.ref[2] # NoName =>
           \E k \in DOMAIN p : c = OfTree(p, st, p[k]) /\ c.ref = RefOf(p[k]) /\ TreeConfidence(st, p[k]) > 0
  BY TreeMembers DEF OfTree
<1>2. Roled(c)
  BY <1>1 DEF Roled
<1>3. CASE c.ref[2] = NoName
  BY <1>2, <1>3, OtherFits
<1>4. CASE c.ref[2] # NoName
  <2>1. PICK k \in DOMAIN p : c = OfTree(p, st, p[k]) /\ c.ref = RefOf(p[k])
    BY <1>1, <1>4
  <2>2. Memoryless(c)
    BY <2>1 DEF Memoryless, OfTree, TreeTarget, TreeSignals
  <2>3. Score(Replay(c)) = Score(c) + 800 /\ Score(c) \in Nat
    BY <2>2, ReplayScores, ScoreNat
  <2>4. \A e, f \in Element : RefOf(e) = RefOf(f) => e = f
    BY DEF Element, RefOf
  <2>5. \A i \in DOMAIN p : RefOf(p[i]) = c.ref => p[i] = p[k]
    BY <2>1, <2>4
  <2>6. \A i \in DOMAIN p : RefOf(p[i]) = c.ref => Score(Replay(c)) > Score(OfTree(p, st, p[i]))
    BY <2>1, <2>3, <2>5
  <2>7. QED
    BY <1>2, <2>6 DEF TargetFit, Outranks
<1>5. QED
  BY <1>3, <1>4

LEMMA FairRanked ==
    ASSUME NEW p, NEW st, NEW c \in Candidate, Unguessed(p, st, c), TargetFit(p, st, c)
    PROVE  Fair(p, st, Ranked(c))
<1>1. Ranked(c).ref = c.ref /\ Ranked(c).by = c.by
  BY RankedReplay
<1>2. TargetFit(p, st, Ranked(c))
  BY RankedFits
<1>3. QED
  BY <1>1, <1>2 DEF Fair, Unguessed

LEMMA ReplayUnguessed ==
    ASSUME NEW p \in Seq(Element), NEW st, StepOK(st), st.action \notin Reading, NEW m, m # NoMemo, RowFit(p, st, m)
    PROVE  Replay(m) \in Candidate /\ Unguessed(p, st, Replay(m)) /\ TargetFit(p, st, Replay(m))
<1>1. TargetFit(p, st, m) /\ m \in Candidate
  BY DEF RowFit, TargetFit
<1>2. Replay(m) \in Candidate /\ Replay(m).by = "memory_cache"
  BY <1>1, ReplayType
<1>3. TargetFit(p, st, Replay(m))
  BY <1>1, ReplayFits
<1>4. QED
  BY <1>2, <1>3 DEF Unguessed

\* The last choice, over the review band ...
LEMMA BandFair ==
    ASSUME NEW p \in Seq(Element), NEW st, StepOK(st), st.action \notin Reading, NEW m, RowFit(p, st, m),
           NEW U, Remaining(p, st, m, U), NEW c \in Candidate, Apart(st, U, c), Score(c) >= 7000
    PROVE  Fair(p, st, Ranked(c))
<1>1. Kinds(p, st, m, c)
  BY DEF Apart, Remaining
<1>2. CASE m # NoMemo /\ c = Replay(m)
  BY <1>2, ReplayUnguessed, FairRanked
<1>3. CASE c \in ToSet(TreeFinds(st, p))
  <2>1. c.by = "accessibility_tree"
    BY <1>3, TreeMembers
  <2>2. Unguessed(p, st, c)
    BY <2>1, PickFair
  <2>3. TargetFit(p, st, c)
    BY <1>3, TreeFits
  <2>4. QED
    BY <2>2, <2>3, FairRanked
<1>4. c \notin ToSet(TextFinds(p))
  BY TextMarks
<1>5. c \notin ToSet(FuzzyFinds(st, p))
  BY DEF Remaining
<1>6. ~Weak(c)
  BY DEF Weak
<1>7. QED
  BY <1>1, <1>2, <1>3, <1>4, <1>5, <1>6 DEF Kinds

\* ... and for a dropdown, under it: a combobox that the tree or the fuzzy resolver
\* finds is not the only one when there is another that is alike.
TheOnly(U, c) == c \in ToSet(U) /\ c.role \in DropdownRoles /\ \A d \in ToSet(U) : d.role \in DropdownRoles => d = c

LEMMA RelaxIs ==
    ASSUME NEW st, NEW all, NEW U \in Seq(Candidate), Relaxed(st, all, U).kind = "resolved"
    PROVE  DropdownIntent(st) /\ TheOnly(U, Relaxed(st, all, U).target)
<1> DEFINE combos == {i \in DOMAIN U : U[i].role \in {"combobox", "listbox"}}
           only == U[CHOOSE i \in combos : TRUE]
<1>1. DropdownIntent(st) /\ Cardinality(combos) = 1 /\ Relaxed(st, all, U).target = only
  BY DEF Relaxed, Resolved, Failed
<1>2. IsFiniteSet(combos)
  <2>1. DOMAIN U = 1..Len(U) /\ Len(U) \in Nat
    OBVIOUS
  <2>2. IsFiniteSet(DOMAIN U) /\ combos \subseteq DOMAIN U
    BY <2>1, FS_Interval
  <2> HIDE DEF combos
  <2>3. QED
    BY <2>2, FS_Subset
<1>3. PICK x : combos = {x}
  <2> HIDE DEF combos
  <2>1. Cardinality(combos) = 1 <=> \E x : combos = {x}
    BY <1>2, FS_Singleton
  <2>2. QED
    BY <1>1, <2>1
<1>4. only = U[x] /\ x \in combos
  BY <1>3
<1>5. \A d \in ToSet(U) : d.role \in DropdownRoles => d = U[x]
  BY <1>3 DEF ToSet, DropdownRoles
<1>6. U[x] \in ToSet(U) /\ U[x].role \in DropdownRoles
  BY <1>4 DEF ToSet, DropdownRoles
<1> HIDE DEF only, combos
<1>7. QED
  BY <1>1, <1>4, <1>5, <1>6 DEF TheOnly

LEMMA OnlyFair ==
    ASSUME NEW p \in Seq(Element), NEW st, StepOK(st), st.action \notin Reading, DropdownIntent(st),
           NEW m, RowFit(p, st, m), NEW U, Remaining(p, st, m, U), NEW c \in Candidate, TheOnly(U, c)
    PROVE  Fair(p, st, c)
<1>1. c \in ToSet(U) /\ Kinds(p, st, m, c) /\ c.role \in DropdownRoles /\ U \in Seq(Candidate)
  BY DEF TheOnly, Remaining
<1>2. m # NoMemo => /\ m \in Candidate /\ Replay(m).by = "memory_cache" /\ Replay(m).ref = m.ref
                    /\ Replay(m).role = m.role /\ Roled(m)
  BY ReplayType DEF RowFit, TargetFit
<1>3. ASSUME NEW i \in DOMAIN p, NEW j \in DOMAIN p, RefOf(p[j]) = c.ref, RefOf(p[i]) # c.ref,
             AlikeOn(p, st, p[i], p[j]), c.by \in {"accessibility_tree", "exact_text", "fuzzy_text"}
      PROVE  FALSE
  <2> DEFINE Ti == OfTree(p, st, p[i])
             Tj == OfTree(p, st, p[j])
             Fi == FuzzyTarget(st, p[i])
             Fj == FuzzyTarget(st, p[j])
  <2>1. /\ p[i].label # NoName /\ p[j].label # NoName
        /\ TreeConfidence(st, p[j]) > 0 => TreeConfidence(st, p[i]) > 0
        /\ FuzzyHit(p[i]) <=> FuzzyHit(p[j])
    BY <1>3, TwinMarks
  <2>2. p[i].role \in DropdownRoles <=> p[j].role \in DropdownRoles
    BY <1>3 DEF AlikeOn
  <2>3. /\ Ti.ref = RefOf(p[i]) /\ Ti.role = p[i].role /\ Fi.ref = RefOf(p[i]) /\ Fi.role = p[i].role
        /\ Tj.role = p[j].role /\ Fj.role = p[j].role
    BY DEF OfTree, TreeTarget, FuzzyTarget
  <2>4. (c = Tj /\ TreeConfidence(st, p[j]) > 0) \/ (c = Fj /\ FuzzyHit(p[j]))
    <3>1. \/ c = Tj /\ TreeConfidence(st, p[j]) > 0
          \/ c = Fj /\ FuzzyHit(p[j])
          \/ m # NoMemo /\ c = Replay(m)
          \/ ~DropdownIntent(st) /\ Weak(c)
      BY <1>1, <1>3, <2>1, Representative
    <3>2. c.by # "memory_cache"
      BY <1>3
    <3> HIDE DEF Tj, Fj
    <3>3. QED
      BY <1>2, <3>1, <3>2
  <2>5. PICK d \in ToSet(U) : d.ref = RefOf(p[i])
    <3>1. CASE TreeConfidence(st, p[j]) > 0
      <4>1. Ti \in ToSet(TreeFinds(st, p))
        BY <2>1, <3>1, TreeMembers DEF OfTree
      <4> HIDE DEF Ti
      <4>2. QED
        BY <2>3, <4>1 DEF Remaining, Stands
    <3>2. CASE FuzzyHit(p[j])
      <4>1. Fi \in ToSet(FuzzyFinds(st, p))
        BY <2>1, <3>2, FuzzyMembers
      <4> HIDE DEF Fi
      <4>2. QED
        BY <2>3, <4>1 DEF Remaining, Stands
    <3>3. QED
      BY <2>4, <3>1, <3>2
  <2>6. p[i] \in Element
    OBVIOUS
  <2>7. p[i].role \in Role /\ RefOf(p[i])[1] = p[i].role
    BY <2>6 DEF Element, RefOf
  <2>8. d.role = p[i].role
    <3>1. Kinds(p, st, m, d)
      BY DEF Remaining
    <3>2. \/ d = Ti /\ TreeConfidence(st, p[i]) > 0
          \/ d = Fi /\ FuzzyHit(p[i])
          \/ m # NoMemo /\ d = Replay(m)
          \/ ~DropdownIntent(st) /\ Weak(d)
      BY <2>1, <2>5, <3>1, Representative
    <3> HIDE DEF Ti, Fi
    <3>3. m # NoMemo /\ d = Replay(m) => d.role = p[i].role
      BY <1>2, <2>5, <2>7 DEF Roled
    <3>4. QED
      BY <2>3, <3>2, <3>3
  <2>9. p[j].role = c.role
    <3> HIDE DEF Tj, Fj
    <3>1. QED
      BY <2>3, <2>4
  <2>10. d.role \in DropdownRoles
    BY <1>1, <2>2, <2>8, <2>9
  <2>11. d = c
    BY <2>10 DEF TheOnly
  <2>12. QED
    BY <1>3, <2>5, <2>11
<1>4. Unguessed(p, st, c)
  BY <1>3 DEF Unguessed
<1>5. TargetFit(p, st, c)
  <2>1. CASE m # NoMemo /\ c = Replay(m)
    BY <2>1, ReplayUnguessed
  <2>2. CASE c \in ToSet(TreeFinds(st, p))
    BY <2>2, TreeFits
  <2>3. c \notin ToSet(TextFinds(p))
    <3>1. \A e : TextTarget(e).role = NoRole
      BY DEF TextTarget
    <3>2. c \in ToSet(TextFinds(p)) => c.role = NoRole
      BY <3>1, TextIs DEF ToSet
    <3>3. NoRole \notin DropdownRoles
      BY DEF NoRole, DropdownRoles
    <3>4. QED
      BY <1>1, <3>2, <3>3
  <2>4. CASE c \in ToSet(FuzzyFinds(st, p))
    <3>1. PICK k \in DOMAIN p : c = FuzzyTarget(st, p[k]) /\ c.ref = RefOf(p[k]) /\ FuzzyHit(p[k])
      BY <2>4, FuzzyMembers
    <3>2. Roled(c)
      BY <3>1 DEF Roled, RefOf, FuzzyTarget
    <3>3. \A e, f \in Element : RefOf(e) = RefOf(f) => e = f
      BY DEF Element, RefOf
    <3>4. ASSUME NEW i \in DOMAIN p, RefOf(p[i]) = c.ref, p[i].label # NoName, TreeConfidence(st, p[i]) > 0,
                 FuzzyHit(p[i]) => FuzzyTarget(st, p[i]).raw < OfTree(p, st, p[i]).raw
          PROVE  FALSE
      <4>1. p[i] = p[k] /\ p[i] \in Element
        BY <3>1, <3>3, <3>4
      <4> DEFINE T == OfTree(p, st, p[i])
      <4>2. T \in ToSet(TreeFinds(st, p)) /\ T.ref = RefOf(p[i])
        BY <3>4, TreeMembers DEF OfTree, TreeTarget
      <4>3. c.raw >= T.raw
        BY <1>1, <3>4, <4>2 DEF Remaining, Stands
      <4>4. c.raw < T.raw
        BY <3>1, <3>4, <4>1
      <4>5. T \in Candidate
        BY <3>4, <4>1, PageMarks
      <4>6. T.raw \in Nat /\ c.raw \in Nat
        BY <4>5, RawNat
      <4> HIDE DEF T
      <4>7. QED
        BY <4>3, <4>4, <4>6
    <3>5. QED
      BY <3>2, <3>4 DEF TargetFit, Outranks
  <2>5. QED
    BY <1>1, <2>1, <2>2, <2>3, <2>4 DEF Kinds
<1>6. QED
  BY <1>4, <1>5 DEF Fair

LEMMA FallbackFair ==
    ASSUME NEW p \in Seq(Element), NEW st, StepOK(st), st.action \notin Reading, NEW m, RowFit(p, st, m),
           NEW all, LeftOver(p, st, m, all)
    PROVE  EndsFair(p, st, Fallback(st, all))
<1> DEFINE U == FinalDedupe(all)
           o == Fallback(st, all)
<1>1. MemoOK(m)
  BY DEF MemoOK, RowFit, TargetFit
<1>2. Remaining(p, st, m, U)
  BY <1>1, RemainsIs
<1>3. U \in Seq(Candidate)
  BY <1>2 DEF Remaining
<1>4. o = CASE all = <<>>                         -> Failed("not_found")
            [] all # <<>> /\ Reaches(U, 7000)  -> Pick(st, U)
            [] all # <<>> /\ ~Reaches(U, 7000) -> Relaxed(st, all, U)
  BY DEF Fallback, ReviewThreshold
<1> HIDE DEF U, o
<1>5. CASE all = <<>>
  BY <1>4, <1>5 DEF EndsFair, Failed, o
<1>6. CASE all # <<>> /\ Reaches(U, 7000)
  <2>1. o = Pick(st, U)
    BY <1>4, <1>6
  <2>2. ASSUME o.kind = "resolved" PROVE Fair(p, st, o.target)
    <3>1. PICK c \in Candidate : Pick(st, U).target = Ranked(c) /\ Apart(st, U, c) /\ Score(c) >= 7000
      BY <1>3, <1>6, <2>1, <2>2, PickedApart, 7000 \in Nat
    <3>2. Fair(p, st, Ranked(c))
      BY <1>2, <3>1, BandFair
    <3>3. QED
      BY <2>1, <3>1, <3>2
  <2>3. QED
    BY <2>2 DEF EndsFair, o
<1>7. CASE all # <<>> /\ ~Reaches(U, 7000)
  <2>1. o = Relaxed(st, all, U)
    BY <1>4, <1>7
  <2>2. ASSUME o.kind = "resolved" PROVE Fair(p, st, o.target)
    <3>1. DropdownIntent(st) /\ TheOnly(U, o.target)
      BY <1>3, <2>1, <2>2, RelaxIs
    <3>2. o.target \in Candidate
      BY <1>3, <3>1, SeqMembers DEF TheOnly
    <3>3. QED
      BY <1>2, <3>1, <3>2, OnlyFair
  <2>3. QED
    BY <2>2 DEF EndsFair, o
<1>8. QED
  BY <1>5, <1>6, <1>7

\* A tier that decides.
LEMMA TierOneFair ==
    ASSUME NEW p \in Seq(Element), NEW st, StepOK(st), st.action \notin Reading, NEW m, RowFit(p, st, m),
           Reaches(TierResult(p, st, m, 1), 8500)
    PROVE  EndsFair(p, st, Pick(st, TierResult(p, st, m, 1)))
<1> DEFINE t1 == TierResult(p, st, m, 1)
<1>0. MemoOK(m)
  BY DEF MemoOK, RowFit, TargetFit
<1>1. t1 \in Seq(Candidate)
  BY <1>0, TiersType
<1>2. SUFFICES ASSUME NEW c \in Candidate, c \in ToSet(t1), Score(c) >= 8500
               PROVE  Unguessed(p, st, c) /\ TargetFit(p, st, c)
  <2>1. ASSUME Pick(st, t1).kind = "resolved" PROVE Fair(p, st, Pick(st, t1).target)
    <3>1. PICK c \in Candidate : Pick(st, t1).target = Ranked(c) /\ Apart(st, t1, c) /\ Score(c) >= 8500
      BY <1>1, <2>1, PickedApart, 8500 \in Nat
    <3>2. c \in ToSet(t1)
      BY <3>1 DEF Apart
    <3>3. Unguessed(p, st, c) /\ TargetFit(p, st, c)
      BY <1>2, <3>1, <3>2
    <3>4. QED
      BY <3>1, <3>3, FairRanked
  <2>2. QED
    BY <2>1 DEF EndsFair
<1>3. \/ c \in ToSet(ExplicitFinds(st)) \/ c \in ToSet(MemoryFinds(m))
      \/ c \in ToSet(TreeFinds(st, p)) \/ c \in ToSet(TextFinds(p))
  BY <1>0, <1>2, TierOneHolds
<1> HIDE DEF t1
<1>4. CASE c \in ToSet(ExplicitFinds(st))
  <2>1. st.selector # NoName /\ c.by = "explicit_selector" /\ c.ref = st.selector
    BY <1>4 DEF ExplicitFinds, ToSet
  <2>2. c.ref[1] = "css" /\ "css" \notin Role
    BY <2>1 DEF StepOK, Role
  <2>3. TargetFit(p, st, c)
    BY <2>2, OtherFits DEF Roled
  <2>4. QED
    BY <2>1, <2>3 DEF Unguessed
<1>5. CASE c \in ToSet(MemoryFinds(m))
  <2>1. m # NoMemo /\ c = Replay(m)
    BY <1>5 DEF MemoryFinds, ToSet
  <2>2. QED
    BY <2>1, ReplayUnguessed
<1>6. CASE c \in ToSet(TreeFinds(st, p))
  <2>1. /\ c.ref[1] \in Role /\ c.role = c.ref[1]
        /\ c.ref[2] # NoName =>
             \E k \in DOMAIN p : c = OfTree(p, st, p[k]) /\ c.ref = RefOf(p[k]) /\ TreeConfidence(st, p[k]) > 0
    BY <1>6, TreeMembers DEF OfTree
  <2>2. c.ref[2] = NoName
    <3> SUFFICES ASSUME c.ref[2] # NoName PROVE FALSE
      OBVIOUS
    <3>1. PICK k \in DOMAIN p : c = OfTree(p, st, p[k]) /\ c.ref = RefOf(p[k])
      BY <2>1
    <3>2. p[k] \in Element /\ p[k].label # NoName
      BY <3>1 DEF RefOf
    <3>3. ~(Score(c) >= 7701)
      BY <3>1, <3>2, PageMarks
    <3>4. QED
      BY <1>2, <3>3, ScoreNat
  <2>3. Unguessed(p, st, c)
    BY <2>2 DEF Unguessed, AlikeOn, RefOf
  <2>4. QED
    BY <1>6, <2>3, TreeFits
<1>7. c \notin ToSet(TextFinds(p))
  <2>1. Score(c) >= 7000
    BY <1>2, ScoreNat
  <2>2. QED
    BY <2>1, TextMarks
<1>8. QED
  BY <1>3, <1>4, <1>5, <1>6, <1>7

LEMMA TierTwoFair ==
    ASSUME NEW p \in Seq(Element), NEW st, StepOK(st), st.action \notin Reading, NEW m, MemoOK(m),
           Reaches(TierResult(p, st, m, 2), 7000)
    PROVE  EndsFair(p, st, Pick(st, TierResult(p, st, m, 2)))
<1> DEFINE t2 == TierResult(p, st, m, 2)
<1>1. t2 \in Seq(Candidate) /\ FuzzyFinds(st, p) \in Seq(Candidate)
  BY TiersType, FindsType
<1>2. \A c \in ToSet(t2) : c \in ToSet(FuzzyFinds(st, p))
  BY TierTwoHolds
<1>3. \A c \in ToSet(FuzzyFinds(st, p)) : c \in ToSet(t2)
  <2> SUFFICES ASSUME NEW c \in ToSet(FuzzyFinds(st, p)) PROVE c \in ToSet(t2)
    OBVIOUS
  <2>1. Covers(TierDedupe(FuzzyFinds(st, p)), ToSet(FuzzyFinds(st, p)))
    BY <1>1, DedupeCovers
  <2>2. PICK d \in ToSet(t2) : d.ref = c.ref
    BY <2>1, TierTwoIs DEF Covers
  <2>3. d = c
    BY <1>2, <2>2, FuzzyOnce
  <2>4. QED
    BY <2>2, <2>3
<1> HIDE DEF t2
<1>4. ASSUME Pick(st, t2).kind = "resolved" PROVE Fair(p, st, Pick(st, t2).target)
  <2>1. PICK c \in Candidate : Pick(st, t2).target = Ranked(c) /\ Apart(st, t2, c) /\ Score(c) >= 7000
    BY <1>1, <1>4, PickedApart, 7000 \in Nat DEF t2
  <2>2. c \in ToSet(FuzzyFinds(st, p))
    BY <1>2, <2>1 DEF Apart
  <2>3. PICK k \in DOMAIN p : c = FuzzyTarget(st, p[k]) /\ c.ref = RefOf(p[k]) /\ FuzzyHit(p[k])
    BY <2>2, FuzzyMembers
  <2>4. \A e, f \in Element : RefOf(e) = RefOf(f) => e = f
    BY DEF Element, RefOf
  <2>5. ASSUME NEW i \in DOMAIN p, NEW j \in DOMAIN p, RefOf(p[j]) = c.ref, RefOf(p[i]) # c.ref,
               AlikeOn(p, st, p[i], p[j])
        PROVE  FALSE
    <3>1. p[j] = p[k]
      BY <2>3, <2>4, <2>5
    <3>2. /\ FuzzyHit(p[i]) <=> FuzzyHit(p[j])
          /\ AtLeast(st, FuzzyTarget(st, p[i]), FuzzyTarget(st, p[j]))
      BY <2>5, TwinMarks
    <3>3. FuzzyTarget(st, p[i]) \in ToSet(FuzzyFinds(st, p))
      BY <2>3, <3>1, <3>2, FuzzyMembers
    <3>4. FuzzyTarget(st, p[i]) \in ToSet(t2) /\ FuzzyTarget(st, p[i]).ref # c.ref
      BY <1>3, <2>5, <3>3 DEF FuzzyTarget
    <3>5. QED
      BY <2>1, <2>3, <3>1, <3>2, <3>4 DEF Apart
  <2>6. Unguessed(p, st, c)
    BY <2>5 DEF Unguessed
  <2>7. Memoryless(c) /\ Roled(c)
    BY <2>3 DEF Memoryless, Roled, FuzzyTarget, RefOf
  <2>8. TargetFit(p, st, c)
    BY <2>1, <2>7, SureFits
  <2>9. QED
    BY <2>1, <2>6, <2>8, FairRanked
<1>5. QED
  BY <1>4 DEF EndsFair, t2

\* A model's answer, or what is kept of one.
ModelLists == {<<>>} \union {ModelFinds(ref, conf) : ref \in Ref, conf \in Bp}

LEMMA ModelListed ==
    ASSUME NEW found \in ModelLists
    PROVE  /\ found \in Seq(Candidate)
           /\ \A c \in ToSet(found) :
                 /\ c \in Candidate /\ c.by = "llm_grounding" /\ Memoryless(c)
                 /\ ~(Score(c) >= 7000) => Weak(c)
<1>1. CASE found = <<>>
  BY <1>1 DEF ToSet
<1>2. CASE found # <<>>
  <2>1. PICK ref \in Ref, conf \in Bp : found = ModelFinds(ref, conf)
    BY <1>2 DEF ModelLists
  <2> DEFINE r == IF ref[1] # "text" THEN 10000 ELSE 5000
             s == [text |-> conf, role |-> r, vis |-> 10000, uniq |-> 7000, prox |-> 5000, mem |-> 0]
             c == [ref |-> ref, raw |-> conf, role |-> NoRole, named |-> FALSE,
                   weighed |-> TRUE, by |-> "llm_grounding", signals |-> s]
  <2>2. found = <<c>>
    <3>1. ModelFinds(ref, conf) = IF ~Specific(ref) \/ conf < RejectThreshold THEN <<>> ELSE <<c>>
      BY DEF ModelFinds
    <3> HIDE DEF c
    <3>2. QED
      BY <1>2, <2>1, <3>1
  <2>3. s \in Signals
    <3>1. \A x \in {0, 5000, 7000, 10000} : x \in Bp
      BY DEF Bp
    <3>2. r \in Bp
      BY <3>1
    <3> HIDE DEF r
    <3>3. QED
      BY <3>1, <3>2 DEF Signals
  <2>4. Score(c) = (30 * conf + 20 * r + 15 * 10000 + 15 * 7000 + 10 * 5000 + 10 * 0 + 50) \div 100
    BY DEF Score
  <2>5. c \in Candidate
    <3> HIDE DEF s
    <3>1. QED
      BY <2>3 DEF Candidate, Resolver
  <2>6. c.by = "llm_grounding" /\ Memoryless(c) /\ c.ref = ref /\ c.raw = conf
    BY DEF Memoryless
  <2>7. ASSUME ref[1] \in Role, conf >= 7000 PROVE Score(c) >= 7000
    <3>1. r = 10000
      BY <2>7 DEF Role
    <3>2. conf \in Int
      BY DEF Bp
    <3> DEFINE x == 30 * conf + 20 * 10000 + 15 * 10000 + 15 * 7000 + 10 * 5000 + 10 * 0 + 50
    <3>3. Score(c) = x \div 100
      BY <2>4, <3>1
    <3>4. x \in Int /\ x >= 700000
      BY <2>7, <3>2
    <3> HIDE DEF x
    <3>5. x \div 100 >= 7000
      BY <3>4, SMT
    <3>6. QED
      BY <3>3, <3>5
  <2> HIDE DEF c
  <2>8. ~(Score(c) >= 7000) => Weak(c)
    BY <2>6, <2>7 DEF Weak
  <2>9. ToSet(<<c>>) = {c} /\ <<c>> \in Seq(Candidate)
    <3>1. DOMAIN <<c>> = {1} /\ <<c>>[1] = c
      BY SMT
    <3>2. ToSet(<<c>>) = {c}
      BY <3>1 DEF ToSet
    <3>3. QED
      BY <2>5, <3>2
  <2>10. QED
    BY <2>2, <2>5, <2>6, <2>8, <2>9
<1>3. QED
  BY <1>1, <1>2

LEMMA ModelFair ==
    ASSUME NEW p \in Seq(Element), NEW st, StepOK(st), st.action \notin Reading, ~DropdownIntent(st),
           NEW found \in ModelLists, Reaches(found, 7000)
    PROVE  EndsFair(p, st, Pick(st, found))
<1>1. found \in Seq(Candidate)
  BY ModelListed
<1>2. ASSUME Pick(st, found).kind = "resolved" PROVE Fair(p, st, Pick(st, found).target)
  <2>1. PICK c \in Candidate : Pick(st, found).target = Ranked(c) /\ Apart(st, found, c) /\ Score(c) >= 7000
    BY <1>1, <1>2, PickedApart, 7000 \in Nat
  <2>2. c.by = "llm_grounding" /\ Memoryless(c)
    BY <2>1, ModelListed DEF Apart
  <2>3. Unguessed(p, st, c)
    BY <2>2 DEF Unguessed
  <2>4. TargetFit(p, st, c)
    BY <2>1, <2>2, SureFits
  <2>5. QED
    BY <2>1, <2>3, <2>4, FairRanked
<1>3. QED
  BY <1>2 DEF EndsFair

LEMMA OfflineFair ==
    ASSUME NEW p \in Seq(Element), NEW st, StepOK(st), st.action \notin Reading, NEW m, RowFit(p, st, m)
    PROVE  EndsFair(p, st, Offline(p, st, m))
<1> DEFINE t1 == TierResult(p, st, m, 1)
           t2 == TierResult(p, st, m, 2)
<1>1. MemoOK(m)
  BY DEF MemoOK, RowFit, TargetFit
<1>2. t1 \o t2 \in Seq(Candidate) /\ ToSet(t1 \o t2) = ToSet(t1) \union ToSet(t2)
  BY <1>1, TiersType DEF Every
<1>3. Offline(p, st, m) = CASE Reaches(t1, 8500)                         -> Pick(st, t1)
                            [] ~Reaches(t1, 8500) /\ Reaches(t2, 7000)  -> Pick(st, t2)
                            [] ~Reaches(t1, 8500) /\ ~Reaches(t2, 7000) -> Fallback(st, t1 \o t2)
  BY DEF Offline, StopAt, AcceptThreshold, ReviewThreshold
<1>4. CASE Reaches(t1, 8500)
  <2>1. EndsFair(p, st, Pick(st, t1))
    BY <1>4, TierOneFair
  <2> HIDE DEF t1, t2
  <2>2. QED
    BY <1>3, <1>4, <2>1
<1>5. CASE ~Reaches(t1, 8500) /\ Reaches(t2, 7000)
  <2>1. EndsFair(p, st, Pick(st, t2))
    BY <1>1, <1>5, TierTwoFair
  <2> HIDE DEF t1, t2
  <2>2. QED
    BY <1>3, <1>5, <2>1
<1>6. CASE ~Reaches(t1, 8500) /\ ~Reaches(t2, 7000)
  <2>1. LeftOver(p, st, m, t1 \o t2)
    BY <1>2, <1>6 DEF LeftOver
  <2>2. EndsFair(p, st, Fallback(st, t1 \o t2))
    BY <2>1, FallbackFair
  <2> HIDE DEF t1, t2
  <2>3. QED
    BY <1>3, <1>6, <2>2
<1>7. QED
  BY <1>4, <1>5, <1>6

-----------------------------------------------------------------------------
\* What a call that may ask a model has gathered: what the tiers behind it find, and
\* targets of a model that did not decide, wherever the order of the tiers put them.
Orders  == {<<1, 2, 3>>, <<2, 3>>, <<3>>, <<>>, <<3, 1, 2>>, <<1, 2>>, <<2>>}
OneDone == {<<2, 3>>, <<3>>, <<2>>, <<>>}
TwoDone == {<<3>>, <<>>}

Collected(p, st, s) ==
    /\ s.tiers \in Orders /\ s.all \in Seq(Candidate)
    /\ s.tiers \in OneDone => /\ ~Reaches(TierResult(p, st, s.seen, 1), 8500)
                              /\ \A c \in ToSet(TierResult(p, st, s.seen, 1)) : c \in ToSet(s.all)
    /\ s.tiers \in TwoDone => /\ ~Reaches(TierResult(p, st, s.seen, 2), 7000)
                              /\ \A c \in ToSet(TierResult(p, st, s.seen, 2)) : c \in ToSet(s.all)
    /\ \A c \in ToSet(s.all) : \/ s.tiers \in OneDone /\ c \in ToSet(TierResult(p, st, s.seen, 1))
                               \/ s.tiers \in TwoDone /\ c \in ToSet(TierResult(p, st, s.seen, 2))
                               \/ Weak(c)

Aided(p, st, s) ==
    /\ s.pc \in {"idle", "tier", "ask", "ask_strong", "done"}
    /\ s.pc \in {"tier", "ask", "ask_strong"} => Collected(p, st, s)
    /\ s.pc \in {"ask", "ask_strong"} => s.tiers # <<>> /\ Head(s.tiers) = 3 /\ s.fast \in ModelLists
    /\ s.pc = "done" => EndsFair(p, st, s.outcome)

CallFair(p, st, asks, s) ==
    /\ s.pc # "idle" => RowFit(p, st, s.seen)
    /\ asks => Aided(p, st, s)

\* The steps the property is about.
Concerned == intent.action \notin Reading /\ ~(opt.provider /\ DropdownIntent(intent))
FairInv ==
    /\ screen \in Screen /\ intent \in Intents
    /\ Concerned =>
         /\ RowFit(screen, intent, recorded)
         /\ opt.provider => decided \in ModelLists
         /\ \A c \in Call : CallFair(screen, intent, opt.provider, calls[c])

LEMMA OrdersStep ==
    ASSUME NEW ts \in Orders, ts # <<>>
    PROVE  /\ Tail(ts) \in Orders /\ Head(ts) \in {1, 2, 3}
           /\ Head(ts) = 1 => ts \notin OneDone /\ ts \notin TwoDone /\ Tail(ts) \in OneDone /\ Tail(ts) \notin TwoDone
           /\ Head(ts) = 2 => ts \in OneDone /\ ts \notin TwoDone /\ Tail(ts) \in OneDone /\ Tail(ts) \in TwoDone
           /\ Head(ts) = 3 => (ts \in OneDone <=> Tail(ts) \in OneDone) /\ (ts \in TwoDone <=> Tail(ts) \in TwoDone)
<1>1. CASE ts = <<1, 2, 3>>
  BY <1>1 DEF Orders, OneDone, TwoDone
<1>2. CASE ts = <<2, 3>>
  BY <1>2 DEF Orders, OneDone, TwoDone
<1>3. CASE ts = <<3>>
  BY <1>3 DEF Orders, OneDone, TwoDone
<1>4. CASE ts = <<3, 1, 2>>
  BY <1>4 DEF Orders, OneDone, TwoDone
<1>5. CASE ts = <<1, 2>>
  BY <1>5 DEF Orders, OneDone, TwoDone
<1>6. CASE ts = <<2>>
  BY <1>6 DEF Orders, OneDone, TwoDone
<1>7. QED
  BY <1>1, <1>2, <1>3, <1>4, <1>5, <1>6 DEF Orders

LEMMA FairInitially == EngineInit => FairInv
<1> SUFFICES ASSUME EngineInit PROVE FairInv
  OBVIOUS
<1>1. RowFit(screen, intent, recorded) /\ decided \in ModelLists
  BY DEF EngineInit, RowFit, ModelLists
<1>2. ASSUME NEW c \in Call PROVE CallFair(screen, intent, opt.provider, calls[c])
  <2>1. calls[c].pc = "idle"
    BY DEF EngineInit, IdleCall
  <2>2. QED
    BY <2>1 DEF CallFair, Aided
<1>3. QED
  BY <1>1, <1>2 DEF EngineInit, FairInv

\* One call moves.
LEMMA FairMoves ==
    ASSUME SpendInv, FairInv, UNCHANGED <<fixed, recorded>>,
           Concerned /\ opt.provider => decided' = decided \/ decided' \in ModelLists,
           NEW c \in Call, NEW state, Become(c, state),
           Concerned => CallFair(screen, intent, opt.provider, state)
    PROVE  FairInv'
<1>1. \A d \in Call : calls'[d] = IF d = c THEN state ELSE calls[d]
  BY DEF Become, SpendInv
<1>2. screen' = screen /\ intent' = intent /\ opt' = opt /\ recorded' = recorded
  BY DEF fixed
<1>3. Concerned' <=> Concerned
  BY <1>2 DEF Concerned
<1>4. ASSUME Concerned, NEW d \in Call PROVE CallFair(screen, intent, opt.provider, calls'[d])
  BY <1>1, <1>4 DEF FairInv
<1>5. Concerned /\ opt.provider => decided' \in ModelLists
  BY DEF FairInv
<1>6. QED
  BY <1>2, <1>3, <1>4, <1>5 DEF FairInv

LEMMA FairStart ==
    ASSUME NEW p, NEW st, NEW asks
    PROVE  CallFair(p, st, asks, CallOf("tier", TierOrder, <<>>, NoMemo)) /\ CallFair(p, st, asks, IdleCall)
<1> DEFINE s == CallOf("tier", TierOrder, <<>>, NoMemo)
<1>1. s.pc = "tier" /\ s.tiers \in {<<1, 2, 3>>, <<3, 1, 2>>} /\ s.all = <<>> /\ s.seen = NoMemo
  BY DEF CallOf, TierOrder
<1> HIDE DEF s
<1>2. s.tiers \in Orders /\ s.tiers \notin OneDone /\ s.tiers \notin TwoDone
  BY <1>1, TierLists DEF Orders, OneDone, TwoDone
<1>3. s.all \in Seq(Candidate) /\ ToSet(s.all) = {}
  BY <1>1 DEF ToSet
<1>4. Collected(p, st, s)
  BY <1>2, <1>3 DEF Collected
<1>5. CallFair(p, st, asks, s)
  BY <1>1, <1>4 DEF CallFair, Aided, RowFit
<1>6. CallFair(p, st, asks, IdleCall)
  BY DEF IdleCall, CallFair, Aided
<1>7. QED
  BY <1>5, <1>6 DEF s

\* A tier ends a call fairly, or adds what it found.
LEMMA FairTier ==
    ASSUME FairInv, Concerned, NEW c \in Call, NEW tier \in {1, 2}, At(c, tier)
    PROVE  CallFair(screen, intent, opt.provider,
                    [ AfterTier(c, tier, TierResult(screen, intent, recorded, tier))
                        EXCEPT !.seen = IF tier = 1 THEN recorded ELSE @ ])
<1> DEFINE found == TierResult(screen, intent, recorded, tier)
           after == AfterTier(c, tier, found)
           seen  == IF tier = 1 THEN recorded ELSE calls[c].seen
           state == [after EXCEPT !.seen = IF tier = 1 THEN recorded ELSE @]
           t1    == TierResult(screen, intent, seen, 1)
           t2    == TierResult(screen, intent, seen, 2)
<1> SUFFICES CallFair(screen, intent, opt.provider, state)
  OBVIOUS
<1>1. screen \in Seq(Element) /\ StepOK(intent) /\ intent.action \notin Reading
  BY GroundingAssumption DEF FairInv, StepOK, Concerned
<1>2. calls[c].pc = "tier" /\ calls[c].tiers # <<>> /\ Head(calls[c].tiers) = tier
  BY DEF At
<1>3. /\ RowFit(screen, intent, recorded)
      /\ CallFair(screen, intent, opt.provider, calls[c])
  BY DEF FairInv
<1>4. RowFit(screen, intent, calls[c].seen)
  BY <1>2, <1>3 DEF CallFair
<1>5. RowFit(screen, intent, seen) /\ MemoOK(seen) /\ MemoOK(recorded)
  BY <1>3, <1>4 DEF RowFit, TargetFit, MemoOK
<1>6. t1 \in Seq(Candidate) /\ t2 \in Seq(Candidate)
  BY <1>1, <1>5, TiersType
<1>7. found = IF tier = 1 THEN t1 ELSE t2
  BY SecondForAll
<1>8. StopAt(1) = 8500 /\ StopAt(2) = 7000
  BY DEF StopAt, AcceptThreshold, ReviewThreshold
<1>9. after.seen = calls[c].seen
  BY DEF AfterTier, Done, CallOf
<1>10. state = [after EXCEPT !.seen = seen] /\ state.seen = seen
  BY <1>9 DEF AfterTier, Done, CallOf
<1> HIDE DEF found, t1, t2, seen, state
<1>11. SUFFICES ASSUME opt.provider PROVE Aided(screen, intent, state)
  BY <1>5, <1>10 DEF CallFair
<1>12. Collected(screen, intent, calls[c])
  BY <1>2, <1>3, <1>11 DEF CallFair, Aided
<1>13. /\ calls[c].tiers \in Orders /\ calls[c].all \in Seq(Candidate)
       /\ \A d \in ToSet(calls[c].all) :
             \/ calls[c].tiers \in OneDone /\ d \in ToSet(TierResult(screen, intent, calls[c].seen, 1))
             \/ calls[c].tiers \in TwoDone /\ d \in ToSet(TierResult(screen, intent, calls[c].seen, 2))
             \/ Weak(d)
  BY <1>12 DEF Collected
<1>14. CASE Reaches(found, StopAt(tier))
  <2>1. EndsFair(screen, intent, Pick(intent, found))
    <3>1. CASE tier = 1
      <4>1. found = t1 /\ Reaches(t1, 8500)
        BY <1>7, <1>8, <1>14, <3>1
      <4>2. EndsFair(screen, intent, Pick(intent, t1))
        BY <1>1, <1>5, <4>1, TierOneFair DEF t1
      <4>3. QED
        BY <4>1, <4>2
    <3>2. CASE tier = 2
      <4>1. found = t2 /\ Reaches(t2, 7000)
        BY <1>7, <1>8, <1>14, <3>2
      <4>2. EndsFair(screen, intent, Pick(intent, t2))
        BY <1>1, <1>5, <4>1, TierTwoFair DEF t2
      <4>3. QED
        BY <4>1, <4>2
    <3>3. QED
      BY <3>1, <3>2
  <2>2. after = [pc |-> "done", outcome |-> Pick(intent, found), seen |-> calls[c].seen]
    BY <1>14 DEF AfterTier, Done
  <2>3. state.pc = "done" /\ state.outcome = Pick(intent, found)
    BY <1>10, <2>2
  <2>4. QED
    BY <2>1, <2>3 DEF Aided
<1>15. CASE ~Reaches(found, StopAt(tier))
  <2> DEFINE all == calls[c].all \o found
  <2>1. after = [pc |-> "tier", tiers |-> Tail(calls[c].tiers), all |-> all,
                 fast |-> <<>>, seen |-> calls[c].seen]
    BY <1>15 DEF AfterTier, CallOf
  <2>2. state.pc = "tier" /\ state.tiers = Tail(calls[c].tiers) /\ state.all = all
    BY <1>10, <2>1
  <2>3. found \in Seq(Candidate)
    BY <1>6, <1>7
  <2>4. all \in Seq(Candidate) /\ ToSet(all) = ToSet(calls[c].all) \union ToSet(found)
    BY <1>13, <2>3, ToSetJoin
  <2> HIDE DEF all
  <2>5. Tail(calls[c].tiers) \in Orders
    BY <1>2, <1>13, OrdersStep
  <2>6. CASE tier = 1
    <3>1. /\ calls[c].tiers \notin OneDone /\ calls[c].tiers \notin TwoDone
          /\ state.tiers \in OneDone /\ state.tiers \notin TwoDone
      BY <1>2, <1>13, <2>2, <2>6, OrdersStep
    <3>2. found = t1 /\ ~Reaches(t1, 8500)
      BY <1>7, <1>8, <1>15, <2>6
    <3>3. \A d \in ToSet(calls[c].all) : Weak(d)
      BY <1>13, <3>1
    <3>4. t1 = TierResult(screen, intent, state.seen, 1)
      BY <1>10 DEF t1
    <3>5. Collected(screen, intent, state)
      BY <2>2, <2>4, <2>5, <3>1, <3>2, <3>3, <3>4 DEF Collected
    <3>6. QED
      BY <2>2, <3>5 DEF Aided
  <2>7. CASE tier = 2
    <3>1. /\ calls[c].tiers \in OneDone /\ calls[c].tiers \notin TwoDone
          /\ state.tiers \in OneDone /\ state.tiers \in TwoDone
      BY <1>2, <1>13, <2>2, <2>7, OrdersStep
    <3>2. found = t2 /\ ~Reaches(t2, 7000)
      BY <1>7, <1>8, <1>15, <2>7
    <3>3. seen = calls[c].seen
      BY <2>7 DEF seen
    <3>4. t1 = TierResult(screen, intent, state.seen, 1) /\ t1 = TierResult(screen, intent, calls[c].seen, 1)
      BY <1>10, <3>3 DEF t1
    <3>5. t2 = TierResult(screen, intent, state.seen, 2)
      BY <1>10 DEF t2
    <3>6. ~Reaches(t1, 8500) /\ \A d \in ToSet(t1) : d \in ToSet(calls[c].all)
      BY <1>12, <3>1, <3>4 DEF Collected
    <3>7. \A d \in ToSet(calls[c].all) : d \in ToSet(t1) \/ Weak(d)
      BY <1>13, <3>1, <3>4
    <3>8. Collected(screen, intent, state)
      BY <2>2, <2>4, <2>5, <3>1, <3>2, <3>4, <3>5, <3>6, <3>7 DEF Collected
    <3>9. QED
      BY <2>2, <3>8 DEF Aided
  <2>8. QED
    BY <2>6, <2>7
<1>16. QED
  BY <1>14, <1>15

\* So does what is kept of a model's answer, or that there was none.
LEMMA FairModelTier ==
    ASSUME FairInv, Concerned, NEW c \in Call, opt.provider,
           calls[c].pc \in {"tier", "ask", "ask_strong"}, calls[c].tiers # <<>>, Head(calls[c].tiers) = 3,
           NEW found \in ModelLists
    PROVE  CallFair(screen, intent, opt.provider, AfterTier(c, 3, found))
<1> DEFINE state == AfterTier(c, 3, found)
           t1    == TierResult(screen, intent, calls[c].seen, 1)
           t2    == TierResult(screen, intent, calls[c].seen, 2)
<1>1. /\ screen \in Seq(Element) /\ StepOK(intent)
      /\ intent.action \notin Reading /\ ~DropdownIntent(intent)
  BY GroundingAssumption DEF FairInv, StepOK, Concerned
<1>2. CallFair(screen, intent, opt.provider, calls[c])
  BY DEF FairInv
<1>3. RowFit(screen, intent, calls[c].seen) /\ Collected(screen, intent, calls[c])
  BY <1>2 DEF CallFair, Aided
<1>4. found \in Seq(Candidate) /\ \A d \in ToSet(found) : d \in Candidate /\ (~(Score(d) >= 7000) => Weak(d))
  BY ModelListed
<1>5. StopAt(3) = 7000
  BY DEF StopAt, ReviewThreshold
<1>6. state.seen = calls[c].seen
  BY DEF AfterTier, Done, CallOf
<1> HIDE DEF state, t1, t2
<1>7. SUFFICES Aided(screen, intent, state)
  BY <1>3, <1>6 DEF CallFair, state
<1>8. CASE Reaches(found, 7000)
  <2>1. EndsFair(screen, intent, Pick(intent, found))
    BY <1>1, <1>8, ModelFair
  <2>2. state.pc = "done" /\ state.outcome = Pick(intent, found)
    BY <1>5, <1>8 DEF AfterTier, Done, state
  <2>3. QED
    BY <2>1, <2>2 DEF Aided
<1>9. CASE ~Reaches(found, 7000)
  <2> DEFINE all == calls[c].all \o found
  <2>1. state.pc = "tier" /\ state.tiers = Tail(calls[c].tiers) /\ state.all = all
    BY <1>5, <1>9 DEF AfterTier, CallOf, state
  <2>2. calls[c].tiers \in Orders /\ calls[c].all \in Seq(Candidate)
    BY <1>3 DEF Collected
  <2>3. all \in Seq(Candidate) /\ ToSet(all) = ToSet(calls[c].all) \union ToSet(found)
    BY <1>4, <2>2, ToSetJoin
  <2>4. \A d \in ToSet(found) : Weak(d)
    BY <1>4, <1>9, NotReached, 7000 \in Nat
  <2> HIDE DEF all
  <2>5. /\ state.tiers \in Orders
        /\ state.tiers \in OneDone <=> calls[c].tiers \in OneDone
        /\ state.tiers \in TwoDone <=> calls[c].tiers \in TwoDone
    BY <2>1, <2>2, OrdersStep
  <2>6. t1 = TierResult(screen, intent, state.seen, 1) /\ t2 = TierResult(screen, intent, state.seen, 2)
    BY <1>6 DEF t1, t2
  <2>7. /\ calls[c].tiers \in OneDone => ~Reaches(t1, 8500) /\ \A d \in ToSet(t1) : d \in ToSet(calls[c].all)
        /\ calls[c].tiers \in TwoDone => ~Reaches(t2, 7000) /\ \A d \in ToSet(t2) : d \in ToSet(calls[c].all)
        /\ \A d \in ToSet(calls[c].all) : \/ calls[c].tiers \in OneDone /\ d \in ToSet(t1)
                                          \/ calls[c].tiers \in TwoDone /\ d \in ToSet(t2)
                                          \/ Weak(d)
    BY <1>3 DEF Collected, t1, t2
  <2>8. Collected(screen, intent, state)
    BY <2>1, <2>3, <2>4, <2>5, <2>6, <2>7 DEF Collected
  <2>9. QED
    BY <2>1, <2>8 DEF Aided
<1>10. QED
  BY <1>8, <1>9

LEMMA ModelResultsListed ==
    ASSUME screen \in Seq(Element), NEW result \in ModelResults
    PROVE  result[1] \in ModelLists
<1> DEFINE refs == {RefOf(screen[i]) : i \in DOMAIN screen} \union {Stray}
           answers == {ModelFinds(r, conf) : r \in refs, conf \in ModelConfidence}
<1>1. refs \subseteq Ref
  <2>1. ASSUME NEW i \in DOMAIN screen PROVE RefOf(screen[i]) \in Ref
    <3>1. screen[i] \in Element
      BY <2>1
    <3>2. screen[i].role \in Role /\ screen[i].label \in Label \union {NoName}
      BY <3>1 DEF Element
    <3>3. QED
      BY <3>2 DEF RefOf, Ref
  <2>2. QED
    BY <2>1, GroundingAssumption
<1>2. answers \subseteq ModelLists
  BY <1>1, GroundingAssumption DEF ModelLists
<1>3. PICK found \in answers \union {<<>>} : result \in Completed(found)
  BY DEF ModelResults
<1>4. result[1] = found
  BY <1>3 DEF Completed
<1> HIDE DEF answers
<1>5. QED
  BY <1>2, <1>3, <1>4 DEF ModelLists

\* When every tier is done, the final choice is fair.
LEMMA FairExhausted ==
    ASSUME FairInv, Concerned, NEW c \in Call, calls[c].pc = "tier", calls[c].tiers = <<>>
    PROVE  CallFair(screen, intent, opt.provider, Done(Fallback(intent, calls[c].all), calls[c].seen))
<1> DEFINE state == Done(Fallback(intent, calls[c].all), calls[c].seen)
           t1    == TierResult(screen, intent, calls[c].seen, 1)
           t2    == TierResult(screen, intent, calls[c].seen, 2)
<1>1. screen \in Seq(Element) /\ StepOK(intent) /\ intent.action \notin Reading
  BY GroundingAssumption DEF FairInv, StepOK, Concerned
<1>2. CallFair(screen, intent, opt.provider, calls[c])
  BY DEF FairInv
<1>3. RowFit(screen, intent, calls[c].seen)
  BY <1>2 DEF CallFair
<1>4. state.pc = "done" /\ state.seen = calls[c].seen /\ state.outcome = Fallback(intent, calls[c].all)
  BY DEF Done
<1> HIDE DEF state, t1, t2
<1>5. ASSUME opt.provider PROVE EndsFair(screen, intent, Fallback(intent, calls[c].all))
  <2>1. Collected(screen, intent, calls[c]) /\ ~DropdownIntent(intent)
    BY <1>2, <1>5 DEF CallFair, Aided, Concerned
  <2>2. calls[c].tiers \in OneDone /\ calls[c].tiers \in TwoDone
    BY DEF OneDone, TwoDone
  <2>3. /\ calls[c].all \in Seq(Candidate)
        /\ ~Reaches(t1, 8500) /\ \A d \in ToSet(t1) : d \in ToSet(calls[c].all)
        /\ ~Reaches(t2, 7000) /\ \A d \in ToSet(t2) : d \in ToSet(calls[c].all)
        /\ \A d \in ToSet(calls[c].all) : d \in ToSet(t1) \/ d \in ToSet(t2) \/ Weak(d)
    BY <2>1, <2>2 DEF Collected, t1, t2
  <2>4. LeftOver(screen, intent, calls[c].seen, calls[c].all)
    BY <2>1, <2>3 DEF LeftOver, t1, t2
  <2>5. QED
    BY <1>1, <1>3, <2>4, FallbackFair
<1>6. Aided(screen, intent, state) \/ ~opt.provider
  BY <1>4, <1>5 DEF Aided
<1>7. CallFair(screen, intent, opt.provider, state)
  BY <1>3, <1>4, <1>6 DEF CallFair
<1>8. QED
  BY <1>7 DEF state

\* A call that is through has ended fairly, with a model or without.
LEMMA FairEnd ==
    ASSUME OfflineInv, FairInv, Concerned, NEW c \in Call, Finished(c)
    PROVE  EndsFair(screen, intent, calls[c].outcome)
<1>1. screen \in Seq(Element) /\ StepOK(intent) /\ intent.action \notin Reading
  BY GroundingAssumption DEF FairInv, StepOK, Concerned
<1>2. CallFair(screen, intent, opt.provider, calls[c]) /\ calls[c].pc = "done"
  BY DEF FairInv, Finished
<1>3. CASE opt.provider
  BY <1>2, <1>3 DEF CallFair, Aided
<1>4. CASE ~opt.provider
  <2>1. calls[c].outcome = Failed("cost_blocked") \/ calls[c].outcome = Offline(screen, intent, calls[c].seen)
    BY <1>2, <1>4 DEF OfflineInv, AIOff, Unaided, EndsUnaided
  <2>2. RowFit(screen, intent, calls[c].seen)
    BY <1>2 DEF CallFair
  <2>3. EndsFair(screen, intent, Offline(screen, intent, calls[c].seen))
    BY <1>1, <2>2, OfflineFair
  <2>4. EndsFair(screen, intent, Failed("cost_blocked"))
    BY DEF EndsFair, Failed
  <2>5. QED
    BY <2>1, <2>3, <2>4
<1>5. QED
  BY <1>3, <1>4

\* A state of a call that only the wait for a model changes.
LEMMA FairWait ==
    ASSUME NEW p, NEW st, NEW asks, NEW s, NEW state, CallFair(p, st, asks, s),
           s.pc \in {"tier", "ask", "ask_strong"}, s.tiers # <<>>, Head(s.tiers) = 3,
           state.pc \in {"ask", "ask_strong"}, state.tiers = s.tiers, state.all = s.all, state.seen = s.seen,
           asks => state.fast \in ModelLists
    PROVE  CallFair(p, st, asks, state)
<1>1. RowFit(p, st, state.seen)
  BY DEF CallFair
<1>2. ASSUME asks PROVE Aided(p, st, state)
  <2>1. Collected(p, st, s)
    BY <1>2 DEF CallFair, Aided
  <2>2. Collected(p, st, state)
    BY <2>1 DEF Collected
  <2>3. QED
    BY <1>2, <2>2 DEF Aided
<1>3. QED
  BY <1>1, <1>2 DEF CallFair

LEMMA FairStep == SpendInv /\ OfflineInv /\ FairInv /\ [EngineNext]_engine => FairInv'
<1> SUFFICES ASSUME SpendInv, OfflineInv, FairInv, [EngineNext]_engine PROVE FairInv'
  OBVIOUS
<1>0. screen \in Seq(Element)
  BY GroundingAssumption DEF FairInv
<1>1. ASSUME NEW c \in Call, Begin(c) PROVE FairInv'
  <2>1. CallFair(screen, intent, opt.provider, CallOf("tier", TierOrder, <<>>, NoMemo))
    BY FairStart
  <2>2. QED
    BY <1>1, <2>1, FairMoves DEF Begin
<1>2. ASSUME NEW c \in Call, RunDeterministic(c) PROVE FairInv'
  <2> DEFINE state(tier) == [ AfterTier(c, tier, TierResult(screen, intent, recorded, tier))
                                EXCEPT !.seen = IF tier = 1 THEN recorded ELSE @ ]
  <2>1. PICK tier \in {1, 2} : At(c, tier) /\ Become(c, state(tier))
    BY <1>2 DEF RunDeterministic
  <2>2. UNCHANGED <<fixed, recorded>> /\ decided' = decided
    BY <1>2 DEF RunDeterministic
  <2>3. Concerned => CallFair(screen, intent, opt.provider, state(tier))
    BY <2>1, FairTier
  <2> HIDE DEF state
  <2>4. QED
    BY <2>1, <2>2, <2>3, FairMoves
<1>3. ASSUME NEW c \in Call, BlockAI(c) PROVE FairInv'
  <2> DEFINE state == Done(Failed("cost_blocked"), calls[c].seen)
  <2>1. /\ calls[c].pc = "tier" /\ Become(c, state)
        /\ UNCHANGED <<fixed, recorded>> /\ decided' = decided
    BY <1>3 DEF BlockAI, At
  <2>2. state.pc = "done" /\ state.seen = calls[c].seen /\ state.outcome.kind # "resolved"
    BY DEF Done, Failed
  <2> HIDE DEF state
  <2>3. Concerned => CallFair(screen, intent, opt.provider, state)
    BY <2>1, <2>2 DEF FairInv, CallFair, Aided, EndsFair
  <2>4. QED
    BY <2>1, <2>3, FairMoves
<1>4. ASSUME NEW c \in Call, SkipModel(c) PROVE FairInv'
  <2> DEFINE found == IF opt.provider /\ Askable THEN decided ELSE <<>>
             state == AfterTier(c, 3, found)
  <2>1. /\ calls[c].pc = "tier" /\ calls[c].tiers # <<>> /\ Head(calls[c].tiers) = 3 /\ Become(c, state)
        /\ UNCHANGED <<fixed, recorded>> /\ decided' = decided
    BY <1>4 DEF SkipModel, At
  <2>2. Concerned /\ opt.provider => found \in ModelLists
    BY DEF FairInv, ModelLists
  <2>3. state.seen = calls[c].seen
    BY DEF AfterTier, Done, CallOf
  <2> HIDE DEF found
  <2>4. Concerned /\ opt.provider => CallFair(screen, intent, opt.provider, state)
    BY <2>1, <2>2, FairModelTier
  <2> HIDE DEF state
  <2>5. Concerned /\ ~opt.provider => CallFair(screen, intent, opt.provider, state)
    BY <2>1, <2>3 DEF FairInv, CallFair
  <2>6. QED
    BY <2>1, <2>4, <2>5, FairMoves
<1>5. ASSUME NEW c \in Call, AskModel(c) PROVE FairInv'
  <2> DEFINE state == Waiting(c, "ask", <<>>)
  <2>1. /\ calls[c].pc = "tier" /\ calls[c].tiers # <<>> /\ Head(calls[c].tiers) = 3 /\ Become(c, state)
        /\ UNCHANGED <<fixed, recorded>> /\ decided' = decided
    BY <1>5 DEF AskModel, At
  <2>2. /\ state.pc = "ask" /\ state.tiers = calls[c].tiers /\ state.all = calls[c].all
        /\ state.seen = calls[c].seen /\ state.fast \in ModelLists
    BY DEF Waiting, ModelLists
  <2> HIDE DEF state
  <2>3. Concerned => CallFair(screen, intent, opt.provider, calls[c])
    BY DEF FairInv
  <2>4. Concerned => CallFair(screen, intent, opt.provider, state)
    BY <2>1, <2>2, <2>3, FairWait
  <2>5. QED
    BY <2>1, <2>4, FairMoves
<1>6. ASSUME NEW c \in Call, calls[c].pc \in {"ask", "ask_strong"}
      PROVE  /\ opt.provider
             /\ Concerned => /\ calls[c].tiers # <<>> /\ Head(calls[c].tiers) = 3 /\ calls[c].fast \in ModelLists
                             /\ CallFair(screen, intent, opt.provider, calls[c])
  <2>1. opt.provider
    BY <1>6 DEF OfflineInv, AIOff, Unaided
  <2>2. QED
    BY <1>6, <2>1 DEF FairInv, CallFair, Aided
<1>7. ASSUME NEW c \in Call, Retry(c) \/ AskPlainly(c) PROVE FairInv'
  <2>1. calls[c].pc \in {"ask", "ask_strong"} /\ UNCHANGED <<fixed, recorded>> /\ decided' = decided
    BY <1>7 DEF Retry, AskPlainly
  <2>2. PICK state : /\ Become(c, state) /\ state.pc = calls[c].pc /\ state.tiers = calls[c].tiers
                     /\ state.all = calls[c].all /\ state.seen = calls[c].seen /\ state.fast = calls[c].fast
    <3>1. CASE Retry(c)
      <4> DEFINE state == [calls[c] EXCEPT !.tries = @ + 1]
      <4>1. state.pc = calls[c].pc /\ state.tiers = calls[c].tiers /\ state.all = calls[c].all
        OBVIOUS
      <4>2. state.seen = calls[c].seen /\ state.fast = calls[c].fast
        OBVIOUS
      <4>3. Become(c, state)
        BY <3>1 DEF Retry
      <4> HIDE DEF state
      <4>4. QED
        BY <4>1, <4>2, <4>3
    <3>2. CASE AskPlainly(c)
      <4> DEFINE state == [calls[c] EXCEPT !.strict = FALSE, !.tries = 0]
      <4>1. state.pc = calls[c].pc /\ state.tiers = calls[c].tiers /\ state.all = calls[c].all
        OBVIOUS
      <4>2. state.seen = calls[c].seen /\ state.fast = calls[c].fast
        OBVIOUS
      <4>3. Become(c, state)
        BY <3>2 DEF AskPlainly
      <4> HIDE DEF state
      <4>4. QED
        BY <4>1, <4>2, <4>3
    <3>3. QED
      BY <1>7, <3>1, <3>2
  <2>3. Concerned => CallFair(screen, intent, opt.provider, state)
    <3>1. ASSUME Concerned PROVE CallFair(screen, intent, opt.provider, state)
      <4>1. /\ calls[c].tiers # <<>> /\ Head(calls[c].tiers) = 3 /\ calls[c].fast \in ModelLists
            /\ CallFair(screen, intent, opt.provider, calls[c])
        BY <1>6, <2>1, <3>1
      <4>2. state.fast \in ModelLists /\ state.pc \in {"ask", "ask_strong"}
        BY <2>1, <2>2, <4>1
      <4>3. QED
        BY <2>1, <2>2, <4>1, <4>2, FairWait
    <3>2. QED
      BY <3>1
  <2>4. QED
    BY <2>1, <2>2, <2>3, FairMoves
<1>8. ASSUME NEW c \in Call, ModelAnswers(c) PROVE FairInv'
  <2>1. PICK result \in ModelResults :
           \/ Become(c, Waiting(c, "ask_strong", result[1])) /\ decided' = decided
           \/ Become(c, AfterTier(c, 3, result[1])) /\ decided' = Decide(result[1])
    BY <1>8 DEF ModelAnswers
  <2>2. calls[c].pc = "ask" /\ UNCHANGED <<fixed, recorded>>
    BY <1>8 DEF ModelAnswers
  <2>3. result[1] \in ModelLists
    BY <1>0, ModelResultsListed
  <2>4. CASE Become(c, Waiting(c, "ask_strong", result[1])) /\ decided' = decided
    <3> DEFINE state == Waiting(c, "ask_strong", result[1])
    <3>1. /\ state.pc = "ask_strong" /\ state.tiers = calls[c].tiers /\ state.all = calls[c].all
          /\ state.seen = calls[c].seen /\ state.fast \in ModelLists
      BY <2>3 DEF Waiting
    <3>2. Become(c, state)
      BY <2>4
    <3> HIDE DEF state
    <3>3. Concerned => CallFair(screen, intent, opt.provider, state)
      <4>1. ASSUME Concerned PROVE CallFair(screen, intent, opt.provider, state)
        <5>1. /\ calls[c].tiers # <<>> /\ Head(calls[c].tiers) = 3
              /\ CallFair(screen, intent, opt.provider, calls[c])
          BY <1>6, <2>2, <4>1
        <5>2. QED
          BY <2>2, <3>1, <5>1, FairWait
      <4>2. QED
        BY <4>1
    <3>4. QED
      BY <2>2, <2>4, <3>2, <3>3, FairMoves
  <2>5. CASE Become(c, AfterTier(c, 3, result[1])) /\ decided' = Decide(result[1])
    <3>1. ASSUME Concerned PROVE CallFair(screen, intent, opt.provider, AfterTier(c, 3, result[1]))
      BY <1>6, <2>2, <2>3, <3>1, FairModelTier
    <3>2. decided' = decided \/ decided' \in ModelLists
      BY <2>3, <2>5 DEF Decide
    <3>3. QED
      BY <2>2, <2>5, <3>1, <3>2, FairMoves
  <2>6. QED
    BY <2>1, <2>4, <2>5
<1>9. ASSUME NEW c \in Call, StrongModelAnswers(c) PROVE FairInv'
  <2> DEFINE best(result) == IF RawBest(result[1]) > RawBest(calls[c].fast) THEN result[1] ELSE calls[c].fast
  <2>1. PICK result \in ModelResults :
           Become(c, AfterTier(c, 3, best(result))) /\ decided' = Decide(best(result))
    BY <1>9 DEF StrongModelAnswers
  <2>2. calls[c].pc = "ask_strong" /\ UNCHANGED <<fixed, recorded>>
    BY <1>9 DEF StrongModelAnswers
  <2>3. Concerned => best(result) \in ModelLists
    BY <1>0, <1>6, <2>2, ModelResultsListed
  <2> HIDE DEF best
  <2>4. ASSUME Concerned PROVE CallFair(screen, intent, opt.provider, AfterTier(c, 3, best(result)))
    BY <1>6, <2>2, <2>3, <2>4, FairModelTier
  <2>5. Concerned => decided' = decided \/ decided' \in ModelLists
    BY <2>1, <2>3 DEF Decide
  <2>6. QED
    BY <2>1, <2>2, <2>4, <2>5, FairMoves
<1>10. ASSUME NEW c \in Call, Exhaust(c) PROVE FairInv'
  <2>1. Concerned => CallFair(screen, intent, opt.provider, Done(Fallback(intent, calls[c].all), calls[c].seen))
    BY <1>10, FairExhausted DEF Exhaust
  <2>2. QED
    BY <1>10, <2>1, FairMoves DEF Exhaust
<1>11. ASSUME NEW c \in Call, Return(c) PROVE FairInv'
  <2>1. /\ \A d \in Call : calls'[d] = IF d = c THEN IdleCall ELSE calls[d]
        /\ screen' = screen /\ intent' = intent /\ opt' = opt /\ decided' = decided
    BY <1>11 DEF Return, Become, SpendInv, fixed
  <2>2. \/ recorded' = recorded
        \/ calls[c].outcome.kind = "resolved" /\ recorded' = calls[c].outcome.target
    BY <1>11 DEF Return
  <2>3. Concerned => EndsFair(screen, intent, calls[c].outcome)
    BY <1>11, FairEnd DEF Return, Finished
  <2>4. Concerned => RowFit(screen, intent, recorded')
    BY <2>2, <2>3 DEF FairInv, EndsFair, Fair, RowFit
  <2>5. ASSUME Concerned, NEW d \in Call PROVE CallFair(screen, intent, opt.provider, calls'[d])
    BY <2>1, <2>5, FairStart DEF FairInv
  <2>6. Concerned' <=> Concerned
    BY <2>1 DEF Concerned
  <2>7. QED
    BY <2>1, <2>4, <2>5, <2>6 DEF FairInv
<1>12. CASE NewRun
  <2>1. decided' \in ModelLists
    BY <1>12 DEF NewRun, ModelLists
  <2>2. screen' = screen /\ intent' = intent /\ opt' = opt /\ recorded' = recorded /\ calls' = calls
    BY <1>12 DEF NewRun, fixed
  <2>3. Concerned' <=> Concerned
    BY <2>2 DEF Concerned
  <2>4. QED
    BY <2>1, <2>2, <2>3 DEF FairInv
<1>13. CASE UNCHANGED engine
  <2>1. /\ screen' = screen /\ intent' = intent /\ opt' = opt /\ recorded' = recorded
        /\ decided' = decided /\ calls' = calls
    BY <1>13 DEF engine
  <2>2. Concerned' <=> Concerned
    BY <2>1 DEF Concerned
  <2>3. QED
    BY <2>1, <2>2 DEF FairInv
<1>14. QED
  BY <1>1, <1>2, <1>3, <1>4, <1>5, <1>7, <1>8, <1>9, <1>10, <1>11, <1>12, <1>13 DEF EngineNext

\* A target found on the page is never one of two that are alike, whatever a
\* model has answered and the memory kept, on every page, for every step and
\* number of calls and runs (engine.py, ground; ranker.py, is_ambiguous).
THEOREM RivalsAreNeverGuessed == EngineSpec => []NoGuessBetweenRivals
<1>1. OfflineInv /\ FairInv => NoGuessBetweenRivals
  <2> SUFFICES ASSUME OfflineInv, FairInv, NEW c \in Call, Found(c), intent.action \notin Reading,
                      ~(opt.provider /\ DropdownIntent(intent)),
                      calls[c].outcome.target.by \in {"accessibility_tree", "exact_text", "fuzzy_text"},
                      NEW e \in Rivals(c)
               PROVE  FALSE
    BY DEF NoGuessBetweenRivals
  <2>1. EndsFair(screen, intent, calls[c].outcome) /\ calls[c].outcome.kind = "resolved"
    BY FairEnd DEF Concerned, Found
  <2>2. Unguessed(screen, intent, calls[c].outcome.target)
    BY <2>1 DEF EndsFair, Fair
  <2>3. PICK i, j \in DOMAIN screen :
           /\ RefOf(screen[i]) # calls[c].outcome.target.ref /\ RefOf(screen[j]) = calls[c].outcome.target.ref
           /\ Alike(screen[i], screen[j])
    BY DEF Rivals
  <2>4. AlikeOn(screen, intent, screen[i], screen[j])
    BY <2>3 DEF Alike, AlikeOn
  <2>5. QED
    BY <2>2, <2>3, <2>4 DEF Unguessed
<1>2. QED
  BY SpendInvInit, SpendInvStep, OfflineInitially, OfflineStep, FairInitially, FairStep, <1>1, PTL DEF EngineSpec
=============================================================================
