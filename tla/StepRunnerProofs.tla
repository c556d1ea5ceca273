-------------------------- MODULE StepRunnerProofs --------------------------
(***************************************************************************)
(* act() and recover() on any pages, for any step and any suites.          *)
(***************************************************************************)
EXTENDS StepRunner, FiniteSetTheorems, WellFoundedInduction, TLAPS

-----------------------------------------------------------------------------
\* Minima and maxima.

LEMMA MinIs ==
    ASSUME NEW S, S \subseteq Nat, S # {}
    PROVE  Min(S) \in S /\ \A y \in S : Min(S) <= y
<1> DEFINE R == OpToRel(<, Nat)
<1>1. \A x, y \in S : <<y, x>> \in R <=> y < x
  BY DEF OpToRel
<1>2. IsWellFoundedOn(R, Nat)
  BY NatLessThanWellFounded
<1> HIDE DEF R
<1>3. PICK x \in S : \A y \in S : ~(<<y, x>> \in R)
  BY <1>2, WFMin
<1>4. x \in Nat /\ \A y \in S : y \in Nat /\ ~(y < x)
  BY <1>1, <1>3
<1>5. \A y \in S : x <= y
  BY <1>4
<1>6. QED
  BY <1>5 DEF Min

\* A bounded set of numbers has a largest one.
LEMMA SomeLargest ==
    ASSUME NEW S, NEW b \in Nat, S \subseteq 0..b, S # {}
    PROVE  \E x \in S : \A y \in S : y <= x
<1> DEFINE T == {n \in Nat : \E x \in S : x = b - n}
<1>1. \A x \in S : x \in Nat /\ b - x \in Nat /\ x = b - (b - x)
  OBVIOUS
<1>2. T \subseteq Nat /\ \A x \in S : b - x \in T
  BY <1>1
<1>3. PICK t \in T : \A u \in T : t <= u
  BY <1>2, MinIs
<1>4. PICK x \in S : x = b - t
  OBVIOUS
<1>5. \A y \in S : t <= b - y
  BY <1>2, <1>3
<1>6. QED
  BY <1>1, <1>4, <1>5

LEMMA MinOfTwo ==
    ASSUME NEW a \in Nat, NEW b \in Nat
    PROVE  Min({a, b}) \in Nat /\ Min({a, b}) <= a /\ (Min({a, b}) = a \/ Min({a, b}) = b)
  BY MinIs, {a, b} \subseteq Nat, {a, b} # {}

LEMMA MaxOfTwo ==
    ASSUME NEW a \in Nat, NEW b \in Nat
    PROVE  Max({a, b}) \in {a, b}
<1>1. \E x \in {a, b} : \A y \in {a, b} : x >= y
  OBVIOUS
<1>2. QED
  BY <1>1 DEF Max

-----------------------------------------------------------------------------
\* Kept: the n-th place is the one with n - 1 of them before it.
Before(I, i) == {j \in I : j < i}

LEMMA BeforeGrows ==
    ASSUME NEW I \in SUBSET Nat, IsFiniteSet(I)
    PROVE  /\ \A i \in I : Cardinality(Before(I, i)) \in 0..(Cardinality(I) - 1)
           /\ \A i, k \in I : i < k => Cardinality(Before(I, i)) < Cardinality(Before(I, k))
<1>1. Cardinality(I) \in Nat
  BY FS_CardinalityType
<1>2. ASSUME NEW S \in SUBSET I
      PROVE  IsFiniteSet(S) /\ Cardinality(S) \in Nat /\ Cardinality(S) <= Cardinality(I)
  BY FS_Subset, FS_CardinalityType
<1>3. ASSUME NEW S \in SUBSET I, NEW i \in I, i \notin S
      PROVE  Cardinality(S \union {i}) = Cardinality(S) + 1
  <2>1. IsFiniteSet(S)
    BY <1>2
  <2>2. QED
    BY <1>3, <2>1, FS_AddElement
<1>4. ASSUME NEW i \in I PROVE Cardinality(Before(I, i)) \in 0..(Cardinality(I) - 1)
  <2>1. Before(I, i) \in SUBSET I /\ i \notin Before(I, i) /\ Before(I, i) \union {i} \in SUBSET I
    BY DEF Before
  <2>2. Cardinality(Before(I, i)) + 1 <= Cardinality(I) /\ Cardinality(Before(I, i)) \in Nat
    BY <1>2, <1>3, <2>1
  <2>3. QED
    BY <1>1, <2>2
<1>5. ASSUME NEW i \in I, NEW k \in I, i < k
      PROVE  Cardinality(Before(I, i)) < Cardinality(Before(I, k))
  <2>1. /\ Before(I, i) \in SUBSET I /\ i \notin Before(I, i)
        /\ Before(I, i) \union {i} \in SUBSET Before(I, k) /\ Before(I, k) \in SUBSET I
    <3>1. i \in Nat /\ k \in Nat /\ I \subseteq Nat
      OBVIOUS
    <3>2. \A j \in I : j < i => j < k
      BY <1>5, <3>1
    <3>3. ~(i < i)
      BY <3>1
    <3>4. QED
      BY <1>5, <3>2, <3>3 DEF Before
  <2>2. Cardinality(Before(I, i)) + 1 <= Cardinality(Before(I, k))
    BY <1>2, <1>3, <2>1, FS_Subset
  <2>3. QED
    BY <1>2, <2>1, <2>2
<1>6. QED
  BY <1>4, <1>5

LEMMA PlaceExists ==
    ASSUME NEW I \in SUBSET Nat, IsFiniteSet(I), NEW n \in 1..Cardinality(I)
    PROVE  \E i \in I : Cardinality({j \in I : j < i}) = n - 1
<1> DEFINE rank == [i \in I |-> Cardinality(Before(I, i))]
           T == 0..(Cardinality(I) - 1)
<1>1. Cardinality(I) \in Nat
  BY FS_CardinalityType
<1>4. ASSUME NEW i \in I PROVE rank[i] \in T
  BY BeforeGrows
<1>5. ASSUME NEW i \in I, NEW k \in I, i < k PROVE rank[i] < rank[k]
  BY <1>5, BeforeGrows
<1>6. rank \in Injection(I, T)
  <2>1. rank \in [I -> T]
    BY <1>4
  <2>2. ASSUME NEW i \in I, NEW k \in I, rank[i] = rank[k] PROVE i = k
    <3>1. rank[i] \in Int /\ rank[k] \in Int
      BY <1>4, <1>1
    <3> HIDE DEF rank
    <3>2. QED
      BY <1>5, <2>2, <3>1
  <2>3. QED
    BY <2>1, <2>2 DEF Injection, IsInjective
<1>7. IsFiniteSet(T) /\ Cardinality(T) = Cardinality(I)
  <2> DEFINE c == Cardinality(I) - 1
  <2>1. 0 \in Int /\ c \in Int /\ Cardinality(I) = IF 0 > c THEN 0 ELSE c - 0 + 1
    BY <1>1
  <2> HIDE DEF c
  <2>2. IsFiniteSet(0..c) /\ Cardinality(0..c) = Cardinality(I)
    BY <2>1, FS_Interval
  <2>3. QED
    BY <2>2 DEF c
<1>8. rank \in Surjection(I, T)
  BY <1>6, <1>7, FS_Injection
<1>9. n - 1 \in T
  BY <1>1
<1>10. PICK i \in I : rank[i] = n - 1
  <2> HIDE DEF rank, T
  <2>1. QED
    BY <1>8, <1>9 DEF Surjection
<1>11. QED
  BY <1>10 DEF Before

\* Every place kept is one of theirs, and all of them are kept.
SamePlaces(d, s, I) ==
    /\ \A n \in DOMAIN d : \E i \in I : d[n] = s[i]
    /\ \A i \in I : \E n \in DOMAIN d : d[n] = s[i]

LEMMA KeptHas ==
    ASSUME NEW N \in Nat, NEW s, NEW I \in SUBSET (1..N)
    PROVE  SamePlaces(Kept(s, I), s, I)
<1>1. IsFiniteSet(I) /\ Cardinality(I) \in Nat /\ I \in SUBSET Nat
  <2>1. IsFiniteSet(1..N) /\ 1..N \subseteq Nat
    BY FS_Interval
  <2>2. IsFiniteSet(I)
    BY <2>1, FS_Subset
  <2>3. QED
    BY <2>1, <2>2, FS_CardinalityType
<1> DEFINE at(n) == CHOOSE i \in I : Cardinality({j \in I : j < i}) = n - 1
<1>2. ASSUME NEW n \in 1..Cardinality(I) PROVE at(n) \in I /\ Cardinality(Before(I, at(n))) = n - 1
  BY <1>1, PlaceExists DEF Before
<1>3. Kept(s, I) = [n \in 1..Cardinality(I) |-> s[at(n)]]
  BY DEF Kept
<1> HIDE DEF at
<1>4. ASSUME NEW i \in I PROVE \E n \in 1..Cardinality(I) : at(n) = i
  <2> DEFINE r == Cardinality(Before(I, i))
  <2>1. r \in 0..(Cardinality(I) - 1)
    BY <1>1, BeforeGrows
  <2>2. PICK n \in 1..Cardinality(I) : n - 1 = r
    <3> DEFINE n == r + 1
    <3>1. n \in 1..Cardinality(I) /\ n - 1 = r
      BY <1>1, <2>1
    <3> HIDE DEF r, n
    <3>2. QED
      BY <3>1
  <2>3. PICK k \in I : k = at(n) /\ Cardinality(Before(I, k)) = n - 1
    BY <1>2
  <2>4. ASSUME k < i \/ i < k PROVE FALSE
    <3>1. Cardinality(Before(I, k)) < r \/ r < Cardinality(Before(I, k))
      BY <1>1, <2>4, BeforeGrows
    <3> HIDE DEF r
    <3>2. r \in Int
      BY <2>1
    <3>3. QED
      BY <2>2, <2>3, <3>1, <3>2
  <2>5. k \in Nat /\ i \in Nat
    BY <1>1
  <2>6. k = i
    BY <2>4, <2>5
  <2>7. QED
    BY <2>3, <2>6
<1>5. QED
  BY <1>2, <1>3, <1>4 DEF SamePlaces

\* What is kept of a sequence is a sequence of its elements.
LEMMA KeptType ==
    ASSUME NEW S, NEW N \in Nat, NEW s, NEW I \in SUBSET (1..N), \A i \in I : s[i] \in S
    PROVE  Kept(s, I) \in Seq(S) /\ (I # {} => Kept(s, I) # <<>>)
<1>1. IsFiniteSet(I) /\ Cardinality(I) \in Nat /\ I \in SUBSET Nat
  <2>1. IsFiniteSet(1..N) /\ 1..N \subseteq Nat
    BY FS_Interval
  <2>2. IsFiniteSet(I)
    BY <2>1, FS_Subset
  <2>3. QED
    BY <2>1, <2>2, FS_CardinalityType
<1> DEFINE at(n) == CHOOSE i \in I : Cardinality({j \in I : j < i}) = n - 1
<1>2. ASSUME NEW n \in 1..Cardinality(I) PROVE at(n) \in I
  BY <1>1, PlaceExists
<1>3. Kept(s, I) = [n \in 1..Cardinality(I) |-> s[at(n)]]
  BY DEF Kept
<1> HIDE DEF at
<1>4. Kept(s, I) \in [1..Cardinality(I) -> S]
  BY <1>2, <1>3
<1>5. Kept(s, I) \in Seq(S) /\ Len(Kept(s, I)) = Cardinality(I)
  BY <1>1, <1>4
<1>6. I # {} => Cardinality(I) # 0
  BY <1>1, FS_EmptySet
<1>7. QED
  BY <1>5, <1>6

-----------------------------------------------------------------------------
\* What the resolvers find are candidates, and apt ones.

StepOK(step) == step \in Intent /\ (step.selector # NoName => step.selector[1] = "css")
MemoOK(memo) == memo = NoMemo \/ memo \in Candidate

\* The step itself names the label, when it is one.
NamedBy(ref) == ref[2] \in Label => NameMatch[ref[2]] # "none"

\* Where a target may come from: a selector, the memory, a fuzzy match, or a name.
\* Grounding never makes up the tester's safety net, or an element that is not on
\* the page; only a dropdown's has no signals.
FromMemory(memo, c) == c.by = "memory_cache" /\ memo # NoMemo /\ c.ref = memo.ref
Apt(page, step, memo) ==
    {c \in Candidate :
        /\ c.by # "fallback_selector"
        /\ c.ref[1] = "css" \/ FromMemory(memo, c) \/ c.by = "fuzzy_text" \/ NamedBy(c.ref)
        /\ c.ref[1] = "css" \/ FromMemory(memo, c) \/ Matched(page, c.ref) # {}
        /\ DropdownIntent(step) \/ c.weighed}

LEMMA BpIs == \A x \in Int : x \in Bp <=> 0 <= x /\ x <= 10000
  BY DEF Bp

LEMMA BpNat == Bp \subseteq Nat
  BY DEF Bp

LEMMA RawNat == \A c \in Candidate : c.raw \in Nat /\ c.raw <= 10000
<1>1. \A x \in Bp : x \in Nat /\ x <= 10000
  BY DEF Bp
<1>2. \A c \in Candidate : c.raw \in Bp
  BY DEF Candidate
<1>3. QED
  BY <1>1, <1>2

LEMMA FitType ==
    ASSUME NEW step, StepOK(step), NEW role \in Role \union {NoRole}
    PROVE  RoleFit(step.action, role) \in Bp /\ RoleSignal(step, role) \in Bp
<1>1. step.action \in {"click", "tap", "type", "select", "verify", "extract"}
  BY DEF StepOK, Intent, Reading
<1>2. RoleFit(step.action, role) \in {0, 5000, 7000, 8000, 10000}
  <2>1. ClickFit(role) \in {0, 5000, 7000, 8000, 10000}
    BY DEF ClickFit
  <2>2. TypeFit(role) \in {0, 5000, 7000, 8000, 10000}
    BY DEF TypeFit
  <2>3. QED
    BY <1>1, <2>1, <2>2 DEF RoleFit
<1>3. \A f \in {0, 5000, 7000, 8000, 10000} : f \in Bp /\ (f * 7) \div 10 \in Bp
  BY DEF Bp
<1>4. 10000 \in Bp
  BY DEF Bp
<1>5. RoleSignal(step, role) \in {RoleFit(step.action, role), 10000, (RoleFit(step.action, role) * 7) \div 10}
  BY DEF RoleSignal
<1>6. QED
  BY <1>2, <1>3, <1>4, <1>5

\* A weighted mean of marks up to 10000 is one.
LEMMA WeightedMean ==
    ASSUME NEW text \in Int, NEW role \in Int, NEW vis \in Int, NEW uniq \in Int, NEW prox \in Int,
           NEW mem \in Int, 0 <= text, text <= 10000, 0 <= role, role <= 10000, 0 <= vis, vis <= 10000,
           0 <= uniq, uniq <= 10000, 0 <= prox, prox <= 10000, 0 <= mem, mem <= 10000,
           NEW x, x = 30 * text + 20 * role + 15 * vis + 15 * uniq + 10 * prox + 10 * mem + 50
    PROVE  x \div 100 \in Bp
<1>1. x \in Int /\ 50 <= x /\ x <= 1000050
  BY SMT
<1>2. QED
  <2> SUFFICES ASSUME NEW y \in Int, 50 <= y, y <= 1000050
               PROVE  y \div 100 \in Bp
    BY <1>1
  <2>1. y \div 100 \in Int /\ 0 <= y \div 100 /\ y \div 100 <= 10000
    BY SMT
  <2>2. QED
    BY <2>1, SMT DEF Bp

LEMMA ScoreType ==
    ASSUME NEW c \in Candidate
    PROVE  Score(c) \in Bp
<1> DEFINE t == c.signals.text
           r == c.signals.role
           v == c.signals.vis
           u == c.signals.uniq
           p == c.signals.prox
           m == c.signals.mem
           x == 30 * t + 20 * r + 15 * v + 15 * u + 10 * p + 10 * m + 50
<1>1. c.raw \in Bp /\ t \in Bp /\ r \in Bp /\ v \in Bp /\ u \in Bp /\ p \in Bp /\ m \in Bp
  <2>1. c.raw \in Bp /\ c.signals \in Signals
    BY DEF Candidate, Resolver
  <2>2. QED
    BY <2>1 DEF Signals
<1>2. (c.weighed => Score(c) = x \div 100) /\ (~c.weighed => Score(c) = c.raw)
  <2>1. CASE c.weighed
    BY <2>1 DEF Score
  <2>2. CASE ~c.weighed
    BY <2>2 DEF Score
  <2>3. QED
    BY <2>1, <2>2
<1> HIDE DEF t, r, v, u, p, m
<1>3. /\ t \in Int /\ r \in Int /\ v \in Int /\ u \in Int /\ p \in Int /\ m \in Int
      /\ 0 <= t /\ t <= 10000 /\ 0 <= r /\ r <= 10000 /\ 0 <= v /\ v <= 10000
      /\ 0 <= u /\ u <= 10000 /\ 0 <= p /\ p <= 10000 /\ 0 <= m /\ m <= 10000
  BY <1>1, SMT DEF Bp
<1>4. x \div 100 \in Bp
  BY <1>3, WeightedMean
<1> HIDE DEF x
<1>5. QED
  BY <1>1, <1>2, <1>4

LEMMA ExplicitApt ==
    ASSUME NEW page, NEW step, StepOK(step), NEW memo
    PROVE  ExplicitFinds(step) \in Seq(Apt(page, step, memo))
<1> DEFINE c == [ ref |-> step.selector, raw |-> 10000, role |-> NoRole, named |-> FALSE,
                  weighed |-> TRUE, by |-> "explicit_selector",
                  signals |-> [ text |-> 10000, role |-> 10000, vis |-> 10000,
                                uniq |-> 10000, prox |-> 10000, mem |-> 0 ] ]
<1>1. CASE step.selector = NoName
  BY <1>1 DEF ExplicitFinds
<1>2. CASE step.selector # NoName
  <2>1. step.selector \in Ref /\ step.selector[1] = "css"
    BY <1>2 DEF StepOK, Intent
  <2>2. c \in Candidate
    BY <2>1 DEF Candidate, Resolver, Signals, Bp
  <2>3. c \in Apt(page, step, memo)
    BY <2>1, <2>2 DEF Apt
  <2> HIDE DEF c
  <2>4. <<c>> \in Seq(Apt(page, step, memo))
    BY <2>3
  <2>5. QED
    BY <1>2, <2>4 DEF ExplicitFinds, c
<1>3. QED
  BY <1>1, <1>2

LEMMA MemoryApt ==
    ASSUME NEW page, NEW step, NEW memo, MemoOK(memo)
    PROVE  MemoryFinds(memo) \in Seq(Apt(page, step, memo))
<1>1. CASE memo = NoMemo
  BY <1>1 DEF MemoryFinds
<1>2. CASE memo # NoMemo
  <2>1. memo \in Candidate
    BY <1>2 DEF MemoOK
  <2>2. memo.signals \in Signals /\ memo.raw \in Bp
    BY <2>1 DEF Candidate
  <2>3. Max({memo.signals.mem, 8000}) \in Bp
    <3>1. memo.signals.mem \in Bp
      BY <2>2 DEF Signals
    <3>2. memo.signals.mem \in Nat
      BY <3>1, BpNat
    <3>3. 8000 \in Nat /\ 8000 \in Bp
      BY BpIs
    <3>4. Max({memo.signals.mem, 8000}) \in {memo.signals.mem, 8000}
      BY <3>2, <3>3, MaxOfTwo
    <3>5. QED
      BY <3>1, <3>3, <3>4
  <2> DEFINE signals == IF memo.weighed
                          THEN [memo.signals EXCEPT !.mem = Max({@, 8000})]
                          ELSE [ text |-> memo.raw, role |-> 0, vis |-> 5000,
                                 uniq |-> 8000, prox |-> 5000, mem |-> 8000 ]
  <2>4. [memo.signals EXCEPT !.mem = Max({@, 8000})] \in Signals
    BY <2>2, <2>3 DEF Signals
  <2>5. signals \in Signals
    <3>1. 0 \in Bp /\ 5000 \in Bp /\ 8000 \in Bp
      BY BpIs
    <3>2. CASE memo.weighed
      BY <2>4, <3>2
    <3>3. CASE ~memo.weighed
      BY <2>2, <3>1, <3>3 DEF Signals
    <3>4. QED
      BY <3>2, <3>3
  <2>6. Replay(memo) = [memo EXCEPT !.weighed = TRUE, !.by = "memory_cache", !.signals = signals]
    BY DEF Replay
  <2> HIDE DEF signals
  <2>7. /\ Replay(memo) \in Candidate /\ Replay(memo).by = "memory_cache" /\ Replay(memo).ref = memo.ref
        /\ Replay(memo).weighed
    BY <2>1, <2>5, <2>6 DEF Candidate, Resolver
  <2>8. Replay(memo) \in Apt(page, step, memo)
    BY <1>2, <2>7 DEF Apt, FromMemory
  <2>9. QED
    BY <1>2, <2>8 DEF MemoryFinds
<1>3. QED
  BY <1>1, <1>2

LEMMA PageKept ==
    ASSUME NEW page \in Seq(Element), NEW I \in SUBSET DOMAIN page
    PROVE  Kept(page, I) \in Seq({page[i] : i \in I})
<1>1. Len(page) \in Nat /\ DOMAIN page = 1..Len(page)
  OBVIOUS
<1>2. QED
  BY <1>1, KeptType

\* A resolver's candidates, one for each element it has found.
LEMMA EachFound ==
    ASSUME NEW S, NEW E, NEW found \in Seq(E), NEW cs,
           cs = [i \in DOMAIN found |-> cs[i]], \A i \in DOMAIN found : cs[i] \in S
    PROVE  cs \in Seq(S)
<1>1. Len(found) \in Nat /\ DOMAIN found = 1..Len(found)
  OBVIOUS
<1>2. cs \in [1..Len(found) -> S]
  BY <1>1
<1>3. QED
  BY <1>1, <1>2

LEMMA TextApt ==
    ASSUME NEW page \in Seq(Element), NEW step, NEW memo
    PROVE  TextFinds(page) \in Seq(Apt(page, step, memo))
<1> DEFINE Hit(e) == e.label # NoName /\ NameMatch[e.label] \in {"phrase", "keyword"}
           I     == {i \in DOMAIN page :
                        Hit(page[i]) /\ \A j \in 1..(i - 1) : Hit(page[j]) => page[j].label # page[i].label}
           found == Kept(page, I)
           E     == {page[i] : i \in I}
           Is(e) == [ ref |-> <<"text", e.label>>, raw |-> 9000, role |-> NoRole, named |-> FALSE,
                      weighed |-> TRUE, by |-> "exact_text",
                      signals |-> [ text |-> 10000, role |-> 0, vis |-> 5000,
                                    uniq |-> 10000, prox |-> 0, mem |-> 0 ] ]
<1>1. found \in Seq(E)
  BY PageKept
<1>2. \A e \in E : e \in Element /\ Hit(e)
  OBVIOUS
<1>3. TextFinds(page) = [i \in DOMAIN found |-> Is(found[i])]
  BY DEF TextFinds, FirstOfEach
<1>4. ASSUME NEW e \in E PROVE Is(e) \in Apt(page, step, memo)
  <2>1. e.label \in Label \union {NoName} /\ NameMatch[e.label] # "none"
    BY <1>2 DEF Element
  <2>2. Matched(page, <<"text", e.label>>) # {}
    BY DEF Matched
  <2> HIDE DEF E
  <2>3. Is(e) \in Candidate
    BY <2>1 DEF Candidate, Resolver, Signals, Bp, Ref
  <2>4. Is(e).ref = <<"text", e.label>> /\ Is(e).by = "exact_text" /\ Is(e).weighed
    OBVIOUS
  <2> HIDE DEF Is
  <2>5. QED
    BY <2>1, <2>2, <2>3, <2>4 DEF Apt, NamedBy
<1> HIDE DEF found, E, Is
<1>5. \A i \in DOMAIN found : found[i] \in E
  BY <1>1
<1>6. QED
  BY <1>1, <1>3, <1>4, <1>5, EachFound

LEMMA FuzzyApt ==
    ASSUME NEW page \in Seq(Element), NEW step, StepOK(step), NEW memo
    PROVE  FuzzyFinds(step, page) \in Seq(Apt(page, step, memo))
<1> DEFINE Hit(e) == e.label # NoName /\ FuzzyRatio[e.label] >= 5000
           I     == {i \in DOMAIN page :
                        Hit(page[i]) /\ \A j \in 1..(i - 1) : Hit(page[j]) => RefOf(page[j]) # RefOf(page[i])}
           found == Kept(page, I)
           E     == {page[i] : i \in I}
           Is(e) == [ ref |-> RefOf(e), raw |-> FuzzyConfidence(FuzzyRatio[e.label]),
                      role |-> e.role, named |-> FALSE,
                      weighed |-> TRUE, by |-> "fuzzy_text",
                      signals |-> [ text |-> FuzzyRatio[e.label],
                                    role |-> RoleSignal(step, e.role), vis |-> 8000,
                                    uniq |-> 10000, prox |-> 0, mem |-> 0 ] ]
<1>1. found \in Seq(E)
  BY PageKept
<1>2. \A e \in E : e \in Element /\ Hit(e)
  OBVIOUS
<1>3. FuzzyFinds(step, page) = [i \in DOMAIN found |-> Is(found[i])]
  BY DEF FuzzyFinds, FirstOfEach
<1>4. ASSUME NEW e \in E PROVE Is(e) \in Apt(page, step, memo)
  <2>1. e.label \in Label /\ e.role \in Role
    BY <1>2 DEF Element
  <2>2. RoleSignal(step, e.role) \in Bp /\ FuzzyRatio[e.label] \in Bp
    BY <2>1, FitType, PageResolversAssumption
  <2>3. FuzzyConfidence(FuzzyRatio[e.label]) \in Bp
    BY DEF FuzzyConfidence, Bp
  <2>10. Matched(page, RefOf(e)) # {}
    BY DEF Matched, RefOf
  <2> HIDE DEF E
  <2>4. 0 \in Bp /\ 8000 \in Bp /\ 10000 \in Bp
    BY BpIs
  <2>5. Is(e).signals \in Signals
    BY <2>2, <2>4 DEF Signals
  <2>6. RefOf(e) \in Ref
    BY <2>1 DEF Ref, RefOf
  <2> DEFINE signals == Is(e).signals
  <2>7. Is(e) = [ ref |-> RefOf(e), raw |-> FuzzyConfidence(FuzzyRatio[e.label]), role |-> e.role, named |-> FALSE,
                  weighed |-> TRUE, by |-> "fuzzy_text", signals |-> signals ]
    OBVIOUS
  <2> HIDE DEF signals
  <2>8. Is(e) \in Candidate
    BY <2>1, <2>3, <2>5, <2>6, <2>7 DEF signals, Candidate, Resolver
  <2>9. QED
    BY <2>7, <2>8, <2>10 DEF Apt
<1> HIDE DEF found, E, Is
<1>5. \A i \in DOMAIN found : found[i] \in E
  BY <1>1
<1>6. QED
  BY <1>1, <1>3, <1>4, <1>5, EachFound

LEMMA TreeApt ==
    ASSUME NEW page \in Seq(Element), NEW step, StepOK(step), NEW memo
    PROVE  TreeFinds(step, page) \in Seq(Apt(page, step, memo))
<1> DEFINE I     == {i \in DOMAIN page : TreeConfidence(step, page[i]) > 0}
           found == Kept(page, I)
           E     == {page[i] : i \in I}
           lone  == {i \in DOMAIN found : Nameless(found[i])}
           Lifted(i) == DropdownIntent(step) /\ lone = {i} /\ Biased(step, found[i]) < NamelessFallback
           Is(i) == [ ref     |-> RefOf(found[i]),
                      raw     |-> IF Lifted(i) THEN NamelessFallback ELSE Biased(step, found[i]),
                      role    |-> found[i].role,
                      named   |-> found[i].label # NoName,
                      weighed |-> ~Lifted(i),
                      signals |-> IF Lifted(i) THEN NoSignals ELSE TreeSignals(step, found, found[i]),
                      by      |-> "accessibility_tree" ]
<1>1. found \in Seq(E)
  BY PageKept
<1>2. \A e \in E : e \in Element /\ TreeConfidence(step, e) > 0
  OBVIOUS
<1>3. TreeFinds(step, page) = [i \in DOMAIN found |-> Is(i)]
  BY DEF TreeFinds
<1>4. ASSUME NEW e \in E
      PROVE  RefOf(e) \in Ref /\ e.role \in Role /\ NamedBy(RefOf(e)) /\ Matched(page, RefOf(e)) # {}
  <2>5. Matched(page, RefOf(e)) # {}
    BY DEF Matched, RefOf
  <2>1. e.label \in Label \union {NoName} /\ e.role \in Role /\ TreeConfidence(step, e) > 0
    BY <1>2 DEF Element
  <2> HIDE DEF E
  <2>2. RefOf(e) \in Ref
    BY <2>1 DEF Ref, RefOf
  <2>3. e.label # NoName /\ NameMatch[e.label] = "none" => TreeConfidence(step, e) = 0
    BY DEF TreeConfidence
  <2>4. QED
    BY <2>1, <2>2, <2>3, <2>5, PageResolversAssumption DEF NamedBy, RefOf
<1>5. ASSUME NEW e \in E PROVE TreeConfidence(step, e) \in Bp /\ TreeText(step, e) \in Bp
  <2>1. e.label = NoName \/ e.label \in Label
    BY <1>2 DEF Element
  <2>2. TreeConfidence(step, e) \in Bp
    BY <2>1, PageResolversAssumption DEF TreeConfidence, Bp
  <2>3. QED
    BY <2>2 DEF TreeText, Bp
<1>6. ASSUME NEW e \in E PROVE Biased(step, e) \in Bp
  <2> DEFINE b == TreeConfidence(step, e) + IF Aligned(step.hint, e.role) THEN 300 ELSE 0
  <2>1. TreeConfidence(step, e) \in Nat
    BY <1>5, BpNat
  <2>2. b = TreeConfidence(step, e) + 300 \/ b = TreeConfidence(step, e)
    <3>1. CASE Aligned(step.hint, e.role)
      BY <3>1
    <3>2. CASE ~Aligned(step.hint, e.role)
      BY <2>1, <3>2
    <3>3. QED
      BY <3>1, <3>2
  <2>3. Biased(step, e) = Min({10000, b})
    BY DEF Biased
  <2> HIDE DEF b
  <2>4. b \in Nat
    BY <2>1, <2>2
  <2>5. Min({10000, b}) \in Nat /\ Min({10000, b}) <= 10000
    BY <2>4, MinOfTwo
  <2>6. QED
    BY <2>3, <2>5, BpIs
<1>7. ASSUME NEW e \in E, NEW f PROVE TreeSignals(step, f, e) \in Signals
  <2>1. RoleSignal(step, e.role) \in Bp /\ TreeText(step, e) \in Bp
    BY <1>4, <1>5, FitType
  <2>2. {8000, 10000, 6000, 0} \subseteq Bp
    BY DEF Bp
  <2>3. QED
    BY <2>1, <2>2 DEF TreeSignals, Signals
<1> HIDE DEF E, found
<1>8. ASSUME NEW i \in DOMAIN found PROVE Is(i) \in Apt(page, step, memo)
  <2>1. found[i] \in E
    BY <1>1
  <2>2. NoSignals \in Signals /\ NamelessFallback \in Bp
    BY DEF NoSignals, Signals, NamelessFallback, Bp
  <2>3. Biased(step, found[i]) \in Bp /\ TreeSignals(step, found, found[i]) \in Signals
    BY <1>6, <1>7, <2>1
  <2>4. /\ RefOf(found[i]) \in Ref /\ found[i].role \in Role
        /\ NamedBy(RefOf(found[i])) /\ Matched(page, RefOf(found[i])) # {}
    BY <1>4, <2>1
  <2>5. Lifted(i) \in BOOLEAN /\ (Lifted(i) => DropdownIntent(step))
    BY DEF DropdownIntent
  <2> HIDE DEF Lifted
  <2>6. Is(i) \in Candidate
    BY <2>2, <2>3, <2>4, <2>5 DEF Candidate, Resolver
  <2>7. Is(i).ref = RefOf(found[i]) /\ Is(i).by = "accessibility_tree" /\ (DropdownIntent(step) \/ Is(i).weighed)
    BY <2>5
  <2> HIDE DEF Is
  <2>8. QED
    BY <2>4, <2>6, <2>7 DEF Apt
<1> HIDE DEF Is
<1>9. QED
  BY <1>1, <1>3, <1>8, EachFound

-----------------------------------------------------------------------------
\* Deduplication and ranking choose among what there is.

\* Of some places, one that no other beats: an order by numbers.
LEMMA SomeUnbeaten ==
    ASSUME NEW I, I # {}, NEW f, \E b \in Nat : \A i \in I : f[i] \in Nat /\ f[i] <= b
    PROVE  \E j \in I : \A k \in I : ~(f[k] > f[j])
<1>0. PICK b \in Nat : \A i \in I : f[i] \in Nat /\ f[i] <= b
  OBVIOUS
<1> DEFINE S == {n \in 0..b : \E i \in I : f[i] = n}
<1>1. S \subseteq 0..b /\ S # {}
  BY <1>0
<1>2. PICK x \in S : \A y \in S : y <= x
  BY <1>1, SomeLargest
<1>3. PICK j \in I : f[j] = x
  OBVIOUS
<1>4. \A k \in I : f[k] \in S
  BY <1>0
<1>5. \A k \in I : f[k] <= f[j] /\ f[k] \in Int /\ f[j] \in Int
  BY <1>2, <1>3, <1>4
<1>6. QED
  BY <1>5

\* One of each set of twins: what is chosen among them.
Chosen(cs, twins, best, D) == Kept([i \in D |-> cs[best[i]]], {i \in D : i = Min(twins[i])})

AreTwins(twins, best, D) ==
    /\ \A i \in D : i \in twins[i] /\ twins[i] \subseteq D /\ best[i] \in twins[i]
    /\ \A i \in D : \A j \in twins[i] : twins[j] = twins[i]
OneOfEach(d, cs, twins, best, D) ==
    /\ \A n \in DOMAIN d : \E i \in D : d[n] = cs[best[i]]
    /\ \A i \in D : \E n \in DOMAIN d, k \in D : twins[k] = twins[i] /\ d[n] = cs[best[k]]

LEMMA OneForEach ==
    ASSUME NEW N \in Nat, NEW cs, NEW twins, NEW best, AreTwins(twins, best, 1..N)
    PROVE  OneOfEach(Chosen(cs, twins, best, 1..N), cs, twins, best, 1..N)
<1> DEFINE s == [i \in 1..N |-> cs[best[i]]]
           I == {i \in 1..N : i = Min(twins[i])}
           d == Chosen(cs, twins, best, 1..N)
<1>0. /\ \A i \in 1..N : i \in twins[i] /\ twins[i] \subseteq 1..N /\ best[i] \in twins[i]
      /\ \A i \in 1..N : \A j \in twins[i] : twins[j] = twins[i]
  BY DEF AreTwins
<1>1. SamePlaces(d, s, I)
  <2>1. I \in SUBSET (1..N) /\ d = Kept(s, I)
    BY DEF Chosen
  <2> HIDE DEF s, I, d
  <2>2. SamePlaces(Kept(s, I), s, I)
    BY <2>1, KeptHas
  <2>3. QED
    BY <2>1, <2>2
<1>2. ASSUME NEW i \in 1..N PROVE \E k \in I : twins[k] = twins[i]
  <2>1. twins[i] \subseteq Nat /\ twins[i] # {}
    <3>1. \A x \in 1..N : x \in Nat
      OBVIOUS
    <3>2. QED
      BY <1>0, <3>1
  <2>2. Min(twins[i]) \in twins[i]
    BY <2>1, MinIs
  <2>3. QED
    BY <1>0, <2>2
<1>3. \A i \in I : i \in 1..N /\ s[i] = cs[best[i]]
  OBVIOUS
<1> HIDE DEF s, I, d
<1>4. ASSUME NEW n \in DOMAIN d PROVE \E i \in 1..N : d[n] = cs[best[i]]
  <2>1. PICK i \in I : d[n] = s[i]
    BY <1>1 DEF SamePlaces
  <2>2. QED
    BY <1>3, <2>1
<1>5. ASSUME NEW i \in 1..N
      PROVE  \E n \in DOMAIN d, k \in 1..N : twins[k] = twins[i] /\ d[n] = cs[best[k]]
  <2>1. PICK k \in I : twins[k] = twins[i]
    BY <1>2
  <2>2. PICK n \in DOMAIN d : d[n] = s[k]
    BY <1>1 DEF SamePlaces
  <2>3. QED
    BY <1>3, <2>1, <2>2
<1>6. QED
  BY <1>4, <1>5 DEF d, OneOfEach

\* d is one of each set of twins of cs, all of one ref: none of them has a higher
\* confidence.
Choice(d, cs, twins, best) ==
    /\ AreTwins(twins, best, DOMAIN cs)
    /\ d = Chosen(cs, twins, best, DOMAIN cs)
    /\ \A i \in DOMAIN cs : \A k \in twins[i] : cs[k].ref = cs[i].ref /\ cs[best[i]].raw >= cs[k].raw

LEMMA TierDedupeChooses ==
    ASSUME NEW S \in SUBSET Candidate, NEW cs \in Seq(S)
    PROVE  \E twins, best : Choice(TierDedupe(cs), cs, twins, best)
<1> DEFINE Beats(a, b) == a.raw > b.raw \/ (a.raw = b.raw /\ a.role # NoRole /\ b.role = NoRole)
           Twins(i)  == IF Specific(cs[i].ref)
                          THEN {j \in DOMAIN cs : cs[j].ref = cs[i].ref}
                          ELSE {i}
           Unbeaten(i) == {j \in Twins(i) : ~ \E k \in Twins(i) : Beats(cs[k], cs[j])}
           Winner(i) == Min(Unbeaten(i))
           weight == [j \in DOMAIN cs |-> 2 * cs[j].raw + IF cs[j].role # NoRole THEN 1 ELSE 0]
<1>1. Len(cs) \in Nat /\ DOMAIN cs = 1..Len(cs)
  OBVIOUS
<1>2. \A j \in DOMAIN cs : cs[j] \in S /\ cs[j].raw \in Nat /\ cs[j].raw <= 10000
  BY RawNat
<1> DEFINE extra(j) == IF cs[j].role # NoRole THEN 1 ELSE 0
<1>3. /\ \A j \in DOMAIN cs : weight[j] \in Nat /\ weight[j] <= 20001
      /\ \A j, k \in DOMAIN cs : Beats(cs[k], cs[j]) => weight[k] > weight[j]
  <2>1. /\ \A j \in DOMAIN cs : weight[j] = 2 * cs[j].raw + extra(j)
        /\ \A j \in DOMAIN cs : extra(j) \in {0, 1} /\ (extra(j) = 1 <=> cs[j].role # NoRole)
    OBVIOUS
  <2> HIDE DEF weight, extra
  <2>2. \A j \in DOMAIN cs : weight[j] \in Nat /\ weight[j] <= 20001
    BY <1>2, <2>1
  <2>3. ASSUME NEW j \in DOMAIN cs, NEW k \in DOMAIN cs, Beats(cs[k], cs[j]) PROVE weight[k] > weight[j]
    <3>1. weight[j] = 2 * cs[j].raw + extra(j) /\ weight[k] = 2 * cs[k].raw + extra(k)
      BY <2>1
    <3>2. /\ extra(j) \in {0, 1} /\ extra(k) \in {0, 1} /\ cs[j].raw \in Nat /\ cs[k].raw \in Nat
          /\ cs[k].raw > cs[j].raw \/ (cs[k].raw = cs[j].raw /\ extra(k) = 1 /\ extra(j) = 0)
      BY <1>2, <2>1, <2>3
    <3>3. QED
      BY <3>1, <3>2
  <2>4. QED
    BY <2>2, <2>3
<1>5. ASSUME NEW i \in DOMAIN cs
      PROVE  Winner(i) \in DOMAIN cs /\ Winner(i) \in Twins(i) /\ \A k \in Twins(i) : ~Beats(cs[k], cs[Winner(i)])
  <2>1. Twins(i) \subseteq DOMAIN cs /\ Twins(i) # {}
    OBVIOUS
  <2> HIDE DEF weight, Twins, Beats
  <2> DEFINE T == Twins(i)
  <2>2. PICK j \in T : \A k \in T : ~(weight[k] > weight[j])
    <3>1. T # {} /\ \E b \in Nat : \A k \in T : weight[k] \in Nat /\ weight[k] <= b
      BY <1>3, <2>1, 20001 \in Nat
    <3> HIDE DEF T
    <3>2. QED
      BY <3>1, SomeUnbeaten
  <2>3. Unbeaten(i) # {} /\ Unbeaten(i) \subseteq Twins(i)
    BY <1>3, <2>1, <2>2
  <2>4. Unbeaten(i) \subseteq Nat
    BY <1>1, <2>1, <2>3
  <2>5. \A u \in Unbeaten(i) : u \in Twins(i) /\ \A k \in Twins(i) : ~Beats(cs[k], cs[u])
    OBVIOUS
  <2> HIDE DEF Unbeaten
  <2>6. Winner(i) \in Unbeaten(i)
    BY <2>3, <2>4, MinIs
  <2>7. QED
    BY <2>1, <2>5, <2>6
<1> DEFINE winners == [i \in DOMAIN cs |-> cs[Winner(i)]]
           I == {i \in DOMAIN cs : i = Min(Twins(i))}
           twins == [i \in DOMAIN cs |-> Twins(i)]
           best  == [i \in DOMAIN cs |-> Winner(i)]
           d     == TierDedupe(cs)
<1>6. d = Kept(winners, I)
  BY DEF TierDedupe, OnePerRef
<1>7. /\ \A i \in DOMAIN cs : i \in Twins(i) /\ Twins(i) \subseteq DOMAIN cs
      /\ \A i \in DOMAIN cs : \A j \in Twins(i) : Twins(j) = Twins(i) /\ cs[j].ref = cs[i].ref
  OBVIOUS
<1>8. \A i \in DOMAIN cs : \A k \in Twins(i) : cs[Winner(i)].raw >= cs[k].raw
  <2> HIDE DEF Winner, Twins
  <2>1. QED
    BY <1>2, <1>5, <1>7
<1> HIDE DEF Winner, Twins, d
<1>9. d = Chosen(cs, twins, best, DOMAIN cs)
  BY <1>6 DEF Chosen
<1>10. AreTwins(twins, best, DOMAIN cs)
  BY <1>5, <1>7 DEF AreTwins
<1>11. \A i \in DOMAIN cs : \A k \in twins[i] : cs[k].ref = cs[i].ref /\ cs[best[i]].raw >= cs[k].raw
  BY <1>7, <1>8
<1> HIDE DEF twins, best
<1>12. Choice(d, cs, twins, best)
  BY <1>9, <1>10, <1>11 DEF Choice
<1>13. QED
  BY <1>12 DEF d

LEMMA FinalDedupeChooses ==
    ASSUME NEW S \in SUBSET Candidate, NEW cs \in Seq(S)
    PROVE  \E twins, best :
               /\ Choice(FinalDedupe(cs), cs, twins, best)
               /\ \A i, j \in DOMAIN cs : cs[j].ref = cs[i].ref => j \in twins[i]
<1> DEFINE Twins(i)  == IF TRUE THEN {j \in DOMAIN cs : cs[j].ref = cs[i].ref} ELSE {i}
           Unbeaten(i) == {j \in Twins(i) : ~ \E k \in Twins(i) : cs[k].raw > cs[j].raw}
           Winner(i) == Min(Unbeaten(i))
           weight == [j \in DOMAIN cs |-> cs[j].raw]
<1>1. Len(cs) \in Nat /\ DOMAIN cs = 1..Len(cs)
  OBVIOUS
<1>2. \A j \in DOMAIN cs : cs[j] \in S /\ weight[j] \in Nat /\ weight[j] <= 10000
  BY RawNat
<1>3. ASSUME NEW i \in DOMAIN cs
      PROVE  Winner(i) \in DOMAIN cs /\ Winner(i) \in Twins(i) /\ \A k \in Twins(i) : ~(cs[k].raw > cs[Winner(i)].raw)
  <2>1. Twins(i) \subseteq DOMAIN cs /\ Twins(i) # {}
    OBVIOUS
  <2>2. \A j, k \in DOMAIN cs : cs[k].raw > cs[j].raw => weight[k] > weight[j]
    OBVIOUS
  <2> HIDE DEF weight, Twins
  <2> DEFINE T == Twins(i)
  <2>3. PICK j \in T : \A k \in T : ~(weight[k] > weight[j])
    <3>1. T # {} /\ \E b \in Nat : \A k \in T : weight[k] \in Nat /\ weight[k] <= b
      BY <1>2, <2>1, 10000 \in Nat
    <3> HIDE DEF T
    <3>2. QED
      BY <3>1, SomeUnbeaten
  <2>4. Unbeaten(i) # {} /\ Unbeaten(i) \subseteq Twins(i)
    BY <2>1, <2>2, <2>3
  <2>5. Unbeaten(i) \subseteq Nat
    BY <1>1, <2>1, <2>4
  <2>6. \A u \in Unbeaten(i) : u \in Twins(i) /\ \A k \in Twins(i) : ~(cs[k].raw > cs[u].raw)
    OBVIOUS
  <2> HIDE DEF Unbeaten
  <2>7. Winner(i) \in Unbeaten(i)
    BY <2>4, <2>5, MinIs
  <2>8. QED
    BY <2>1, <2>6, <2>7
<1> DEFINE winners == [i \in DOMAIN cs |-> cs[Winner(i)]]
           I == {i \in DOMAIN cs : i = Min(Twins(i))}
           twins == [i \in DOMAIN cs |-> Twins(i)]
           best  == [i \in DOMAIN cs |-> Winner(i)]
           d     == FinalDedupe(cs)
<1>4. d = Kept(winners, I)
  BY DEF FinalDedupe, OnePerRef
<1>5. /\ \A i \in DOMAIN cs : i \in Twins(i) /\ Twins(i) \subseteq DOMAIN cs
      /\ \A i \in DOMAIN cs : \A j \in Twins(i) : Twins(j) = Twins(i) /\ cs[j].ref = cs[i].ref
      /\ \A i, j \in DOMAIN cs : cs[j].ref = cs[i].ref => j \in Twins(i)
  OBVIOUS
<1>6. \A i \in DOMAIN cs : \A k \in Twins(i) : cs[Winner(i)].raw >= cs[k].raw
  <2> HIDE DEF Winner, Twins
  <2>1. \A j \in DOMAIN cs : cs[j].raw \in Nat
    BY <1>2
  <2>2. QED
    BY <1>3, <1>5, <2>1
<1> HIDE DEF Winner, Twins, d
<1>7. d = Chosen(cs, twins, best, DOMAIN cs)
  BY <1>4 DEF Chosen
<1>8. AreTwins(twins, best, DOMAIN cs)
  BY <1>3, <1>5 DEF AreTwins
<1>9. \A i \in DOMAIN cs : \A k \in twins[i] : cs[k].ref = cs[i].ref /\ cs[best[i]].raw >= cs[k].raw
  BY <1>5, <1>6
<1>10. \A i, j \in DOMAIN cs : cs[j].ref = cs[i].ref => j \in twins[i]
  BY <1>5
<1> HIDE DEF twins, best
<1>11. Choice(d, cs, twins, best)
  BY <1>7, <1>8, <1>9 DEF Choice
<1>12. QED
  BY <1>10, <1>11 DEF d

LEMMA ChoiceKeeps ==
    ASSUME NEW S \in SUBSET Candidate, NEW cs \in Seq(S), NEW d, NEW twins, NEW best,
           Choice(d, cs, twins, best)
    PROVE  /\ d \in Seq(S)
           /\ \A c \in ToSet(cs) : \E e \in ToSet(d) : e.ref = c.ref /\ e.raw >= c.raw
           /\ \A n \in DOMAIN d : \E i \in DOMAIN cs :
                  d[n].ref = cs[i].ref /\ \A k \in twins[i] : d[n].raw >= cs[k].raw
<1>1. Len(cs) \in Nat /\ DOMAIN cs = 1..Len(cs) /\ \A i \in DOMAIN cs : cs[i] \in S
  OBVIOUS
<1>2. /\ \A i \in DOMAIN cs : i \in twins[i] /\ best[i] \in twins[i] /\ best[i] \in DOMAIN cs
      /\ \A i \in DOMAIN cs : \A k \in twins[i] : cs[k].ref = cs[i].ref /\ cs[best[i]].raw >= cs[k].raw
  BY DEF Choice, AreTwins
<1>3. OneOfEach(d, cs, twins, best, DOMAIN cs)
  <2>1. AreTwins(twins, best, 1..Len(cs)) /\ d = Chosen(cs, twins, best, 1..Len(cs))
    BY <1>1 DEF Choice
  <2>2. OneOfEach(Chosen(cs, twins, best, 1..Len(cs)), cs, twins, best, 1..Len(cs))
    BY <1>1, <2>1, OneForEach
  <2>3. QED
    BY <1>1, <2>1, <2>2
<1>4. ASSUME NEW i \in DOMAIN cs PROVE \E n \in DOMAIN d : d[n].ref = cs[i].ref /\ d[n].raw >= cs[i].raw
  <2>1. PICK n \in DOMAIN d, k \in DOMAIN cs : twins[k] = twins[i] /\ d[n] = cs[best[k]]
    BY <1>3 DEF OneOfEach
  <2>2. i \in twins[k] /\ best[k] \in twins[k] /\ k \in twins[k]
    BY <1>2, <2>1
  <2>3. cs[i].ref = cs[k].ref /\ cs[best[k]].ref = cs[k].ref /\ cs[best[k]].raw >= cs[i].raw
    BY <1>2, <2>2
  <2>4. QED
    BY <2>1, <2>3
<1>5. ASSUME NEW n \in DOMAIN d
      PROVE  \E i \in DOMAIN cs : d[n].ref = cs[i].ref /\ \A k \in twins[i] : d[n].raw >= cs[k].raw
  <2>1. PICK i \in DOMAIN cs : d[n] = cs[best[i]]
    BY <1>3 DEF OneOfEach
  <2>2. d[n].ref = cs[i].ref
    BY <1>2, <2>1
  <2>3. \A k \in twins[i] : d[n].raw >= cs[k].raw
    BY <1>2, <2>1
  <2>4. QED
    BY <2>2, <2>3
<1>6. d \in Seq(S)
  <2> DEFINE s == [i \in DOMAIN cs |-> cs[best[i]]]
             I == {i \in DOMAIN cs : i = Min(twins[i])}
  <2>1. d = Kept(s, I)
    BY DEF Choice, Chosen
  <2>2. \A i \in I : s[i] \in S
    BY <1>1, <1>2
  <2>3. I \in SUBSET (1..Len(cs))
    BY <1>1
  <2> HIDE DEF s, I
  <2>4. QED
    BY <1>1, <2>1, <2>2, <2>3, KeptType
<1>7. ASSUME NEW c \in ToSet(cs) PROVE \E e \in ToSet(d) : e.ref = c.ref /\ e.raw >= c.raw
  <2>1. PICK i \in DOMAIN cs : c = cs[i]
    BY DEF ToSet
  <2>2. QED
    BY <1>4, <2>1 DEF ToSet
<1>8. QED
  BY <1>5, <1>6, <1>7

LEMMA TierDedupeKeeps ==
    ASSUME NEW S \in SUBSET Candidate, NEW cs \in Seq(S)
    PROVE  /\ TierDedupe(cs) \in Seq(S)
           /\ \A c \in ToSet(cs) : \E d \in ToSet(TierDedupe(cs)) : d.ref = c.ref /\ d.raw >= c.raw
<1>1. PICK twins, best : Choice(TierDedupe(cs), cs, twins, best)
  BY TierDedupeChooses
<1>2. QED
  BY <1>1, ChoiceKeeps

LEMMA FinalDedupeKeeps ==
    ASSUME NEW S \in SUBSET Candidate, NEW cs \in Seq(S)
    PROVE  /\ FinalDedupe(cs) \in Seq(S)
           /\ \A c \in ToSet(cs) : \E d \in ToSet(FinalDedupe(cs)) : d.ref = c.ref /\ d.raw >= c.raw
           /\ \A d \in ToSet(FinalDedupe(cs)) : \A c \in ToSet(cs) : c.ref = d.ref => d.raw >= c.raw
<1> DEFINE d == FinalDedupe(cs)
<1>1. PICK twins, best :
          /\ Choice(d, cs, twins, best)
          /\ \A i, j \in DOMAIN cs : cs[j].ref = cs[i].ref => j \in twins[i]
  BY FinalDedupeChooses
<1> HIDE DEF d
<1>2. /\ d \in Seq(S)
      /\ \A c \in ToSet(cs) : \E e \in ToSet(d) : e.ref = c.ref /\ e.raw >= c.raw
      /\ \A n \in DOMAIN d : \E i \in DOMAIN cs :
             d[n].ref = cs[i].ref /\ \A k \in twins[i] : d[n].raw >= cs[k].raw
  BY <1>1, ChoiceKeeps
<1>3. ASSUME NEW n \in DOMAIN d, NEW k \in DOMAIN cs, cs[k].ref = d[n].ref PROVE d[n].raw >= cs[k].raw
  BY <1>1, <1>2, <1>3
<1>4. QED
  BY <1>2, <1>3 DEF ToSet, d

\* There is a best candidate: by score, then by role, then the first.
LEMMA BestExists ==
    ASSUME NEW cs \in Seq(Candidate), NEW step, StepOK(step), NEW I \in SUBSET DOMAIN cs, I # {}
    PROVE  LET i == FirstOf(cs, step.action, I)
           IN  i \in I /\ \A j \in I \ {i} : Precedes(cs, step.action, i, j)
<1> DEFINE score == [i \in I |-> Score(cs[i])]
           fit   == [i \in I |-> RoleFit(step.action, cs[i].role)]
<1>1. \A i \in I : i \in Nat /\ cs[i] \in Candidate
  OBVIOUS
<1>2. \A i \in I : score[i] \in Nat /\ score[i] <= 10000 /\ fit[i] \in Nat /\ fit[i] <= 10000
  <2>1. \A x \in Bp : x \in Nat /\ x <= 10000
    BY DEF Bp
  <2>2. \A i \in I : cs[i].role \in Role \union {NoRole}
    BY <1>1 DEF Candidate
  <2>3. \A i \in I : Score(cs[i]) \in Bp /\ RoleFit(step.action, cs[i].role) \in Bp
    BY <1>1, <2>2, ScoreType, FitType
  <2>4. QED
    BY <2>1, <2>3
<1>3. \A i, j \in I : Precedes(cs, step.action, i, j) <=>
          \/ score[i] > score[j]
          \/ score[i] = score[j] /\ (fit[i] > fit[j] \/ (fit[i] = fit[j] /\ i < j))
  BY DEF Precedes
<1> HIDE DEF score, fit
<1>4. PICK a \in I : \A k \in I : ~(score[k] > score[a])
  <2>1. \E b \in Nat : \A i \in I : score[i] \in Nat /\ score[i] <= b
    BY <1>2, 10000 \in Nat
  <2>2. QED
    BY <2>1, SomeUnbeaten
<1> DEFINE J == {j \in I : score[j] = score[a]}
<1>5. PICK b \in J : \A k \in J : ~(fit[k] > fit[b])
  <2>1. \E n \in Nat : \A j \in J : fit[j] \in Nat /\ fit[j] <= n
    <3>1. \A i \in J : fit[i] \in Nat /\ fit[i] <= 10000
      BY <1>2
    <3> HIDE DEF J
    <3>2. QED
      BY <3>1, 10000 \in Nat
  <2>2. a \in J
    OBVIOUS
  <2> HIDE DEF J
  <2>3. QED
    BY <2>1, <2>2, SomeUnbeaten
<1> DEFINE K == {j \in J : fit[j] = fit[b]}
<1>6. Min(K) \in K /\ \A k \in K : Min(K) <= k
  <2>1. K \subseteq Nat /\ K # {}
    BY <1>1
  <2>2. QED
    BY <2>1, MinIs
<1> DEFINE m == Min(K)
<1>7. m \in I /\ score[m] = score[a] /\ fit[m] = fit[b] /\ m \in Nat
  BY <1>1, <1>6
<1>8. ASSUME NEW j \in I \ {m} PROVE Precedes(cs, step.action, m, j)
  <2>0. /\ j \in Nat /\ m \in Nat /\ j # m
        /\ score[j] \in Int /\ score[m] \in Int /\ fit[j] \in Int /\ fit[m] \in Int
    BY <1>1, <1>2, <1>7
  <2>1. CASE score[j] # score[a]
    <3>1. ~(score[j] > score[m]) /\ score[j] # score[m]
      BY <1>4, <1>7, <2>1
    <3> HIDE DEF m
    <3>2. score[m] > score[j]
      BY <2>0, <3>1
    <3>3. QED
      BY <1>3, <1>7, <3>2
  <2>2. CASE score[j] = score[a] /\ fit[j] # fit[b]
    <3>1. ~(fit[j] > fit[m]) /\ fit[j] # fit[m] /\ score[j] = score[m]
      BY <1>5, <1>7, <2>2
    <3> HIDE DEF m
    <3>2. fit[m] > fit[j]
      BY <2>0, <3>1
    <3>3. QED
      BY <1>3, <1>7, <3>1, <3>2
  <2>3. CASE score[j] = score[a] /\ fit[j] = fit[b]
    <3>1. m <= j
      BY <1>6, <2>3
    <3>2. score[j] = score[m] /\ fit[j] = fit[m]
      BY <1>7, <2>3
    <3> HIDE DEF m
    <3>3. m < j
      BY <2>0, <3>1
    <3>4. QED
      BY <1>3, <1>7, <3>2, <3>3
  <2>4. QED
    BY <2>1, <2>2, <2>3
<1>9. \E i \in I : \A j \in I \ {i} : Precedes(cs, step.action, i, j)
  BY <1>7, <1>8
<1>10. QED
  BY <1>9 DEF FirstOf

LEMMA RankedApt ==
    ASSUME NEW page, NEW step, NEW memo, NEW c \in Apt(page, step, memo)
    PROVE  Ranked(c) \in Apt(page, step, memo)
<1>1. c \in Candidate /\ Score(c) \in Bp
  BY ScoreType DEF Apt
<1>2. Ranked(c) \in Candidate /\ Ranked(c).ref = c.ref /\ Ranked(c).by = c.by /\ Ranked(c).weighed = c.weighed
  BY <1>1 DEF Ranked, Candidate, Resolver
<1>3. QED
  BY <1>2 DEF Apt, FromMemory

-----------------------------------------------------------------------------
\* What grounding answers with is apt.

LEMMA TierApt ==
    ASSUME NEW page \in Seq(Element), NEW step, StepOK(step), NEW memo, MemoOK(memo), NEW tier \in {1, 2}
    PROVE  TierResult(page, step, memo, tier) \in Seq(Apt(page, step, memo))
<1> DEFINE results  == TierFinds(page, step, memo, tier)
           Runs(n)  == n \in DOMAIN results /\ \A k \in 1..(n - 1) : ~Reaches(results[k], StopAt(tier))
           Found(n) == IF Runs(n) THEN results[n] ELSE <<>>
<1>1. \A n \in DOMAIN results : results[n] \in Seq(Apt(page, step, memo))
  BY ExplicitApt, MemoryApt, TreeApt, TextApt, FuzzyApt DEF TierFinds
<1>2. Apt(page, step, memo) \in SUBSET Candidate
  BY DEF Apt
<1> HIDE DEF results
<1>3. ASSUME NEW n PROVE Found(n) \in Seq(Apt(page, step, memo))
  BY <1>1
<1>4. Found(1) \o Found(2) \o Found(3) \o Found(4) \in Seq(Apt(page, step, memo))
  <2> HIDE DEF Found
  <2>1. QED
    BY <1>3
<1>5. QED
  BY <1>2, <1>4, TierDedupeKeeps DEF TierResult, RunTier, results

LEMMA PickApt ==
    ASSUME NEW page, NEW step, StepOK(step), NEW memo, NEW cs \in Seq(Apt(page, step, memo)), cs # <<>>,
           Pick(step, cs).kind = "resolved"
    PROVE  Pick(step, cs).target \in Apt(page, step, memo)
<1>1. cs \in Seq(Candidate) /\ DOMAIN cs # {}
  <2>1. Apt(page, step, memo) \subseteq Candidate
    BY DEF Apt
  <2>2. QED
    BY <2>1
<1>2. FirstOf(cs, step.action, DOMAIN cs) \in DOMAIN cs
  BY <1>1, BestExists
<1>3. BestForAction(cs, step.action) \in Apt(page, step, memo)
  BY <1>2, RankedApt DEF BestForAction
<1>4. QED
  BY <1>3 DEF Pick, Failed, Resolved

LEMMA FallbackApt ==
    ASSUME NEW page, NEW step, StepOK(step), NEW memo, NEW all \in Seq(Apt(page, step, memo)),
           Fallback(step, all).kind = "resolved"
    PROVE  Fallback(step, all).target \in Apt(page, step, memo)
<1> DEFINE unique == FinalDedupe(all)
           combos == {i \in DOMAIN unique : unique[i].role \in {"combobox", "listbox"}}
           only   == unique[CHOOSE i \in combos : TRUE]
<1>1. unique \in Seq(Apt(page, step, memo))
  <2>1. Apt(page, step, memo) \in SUBSET Candidate
    BY DEF Apt
  <2>2. QED
    BY <2>1, FinalDedupeKeeps
<1>2. CASE all = <<>>
  BY <1>2 DEF Fallback, Failed
<1>3. CASE all # <<>> /\ Reaches(unique, ReviewThreshold)
  <2>1. Fallback(step, all) = Pick(step, unique)
    BY <1>3 DEF Fallback
  <2>2. unique # <<>>
    BY <1>3 DEF Reaches
  <2>3. QED
    BY <1>1, <2>1, <2>2, PickApt
<1>4. CASE all # <<>> /\ ~Reaches(unique, ReviewThreshold)
  <2>1. Fallback(step, all) = Relaxed(step, all, unique)
    BY <1>4 DEF Fallback
  <2>2. Relaxed(step, all, unique).kind = "resolved" => Cardinality(combos) = 1 /\ Relaxed(step, all, unique).target = only
    BY DEF Relaxed, Resolved, Failed
  <2>3. combos # {}
    <3> HIDE DEF combos, only, unique
    <3>1. Cardinality(combos) = 1
      BY <2>1, <2>2
    <3>2. Cardinality({}) = 0
      BY FS_EmptySet
    <3>3. 0 # 1
      OBVIOUS
    <3>4. QED
      BY <3>1, <3>2, <3>3, Zenon
  <2> HIDE DEF unique
  <2>4. \A i \in combos : unique[i] \in Apt(page, step, memo)
    BY <1>1
  <2> HIDE DEF combos
  <2>5. only \in Apt(page, step, memo)
    BY <2>3, <2>4
  <2>6. QED
    BY <2>1, <2>2, <2>5 DEF unique
<1>5. QED
  BY <1>2, <1>3, <1>4

LEMMA OfflineApt ==
    ASSUME NEW page \in Seq(Element), NEW step, StepOK(step), NEW memo, MemoOK(memo),
           Offline(page, step, memo).kind = "resolved"
    PROVE  Offline(page, step, memo).target \in Apt(page, step, memo)
<1> DEFINE t1 == TierResult(page, step, memo, 1)
           t2 == TierResult(page, step, memo, 2)
<1>1. t1 \in Seq(Apt(page, step, memo)) /\ t2 \in Seq(Apt(page, step, memo))
  BY TierApt
<1> HIDE DEF t1, t2
<1>2. t1 \o t2 \in Seq(Apt(page, step, memo))
  BY <1>1
<1>3. \/ Offline(page, step, memo) = Pick(step, t1) /\ t1 # <<>>
      \/ Offline(page, step, memo) = Pick(step, t2) /\ t2 # <<>>
      \/ Offline(page, step, memo) = Fallback(step, t1 \o t2)
  BY DEF Offline, Reaches, t1, t2
<1>4. QED
  BY <1>1, <1>2, <1>3, PickApt, FallbackApt

-----------------------------------------------------------------------------
\* Scores: what reaches a threshold, and what is picked.

LEMMA ScoreNat == \A c \in Candidate : Score(c) \in Nat /\ Score(c) <= 10000
<1>1. \A x \in Bp : x \in Nat /\ x <= 10000
  BY DEF Bp
<1>2. QED
  BY <1>1, ScoreType

LEMMA SeqMembers ==
    ASSUME NEW S, NEW cs \in Seq(S)
    PROVE  /\ \A c \in ToSet(cs) : c \in S
           /\ \A i \in DOMAIN cs : cs[i] \in S
           /\ cs # <<>> => ToSet(cs) # {} /\ DOMAIN cs # {}
<1>1. \A i \in DOMAIN cs : cs[i] \in S
  OBVIOUS
<1>2. cs # <<>> => 1 \in DOMAIN cs
  OBVIOUS
<1>3. QED
  BY <1>1, <1>2 DEF ToSet

LEMMA BestScoreIs ==
    ASSUME NEW cs \in Seq(Candidate), cs # <<>>
    PROVE  /\ \E c \in ToSet(cs) : Score(c) = BestScore(cs)
           /\ \A c \in ToSet(cs) : Score(c) <= BestScore(cs)
<1> DEFINE I == DOMAIN cs
           score == [i \in I |-> Score(cs[i])]
           S == {Score(cs[i]) : i \in I}
<1>1. I # {} /\ \A i \in I : cs[i] \in Candidate
  BY SeqMembers
<1>2. \A i \in I : score[i] \in Nat /\ score[i] <= 10000
  BY <1>1, ScoreNat
<1>3. /\ \A x \in S : \E i \in I : x = score[i]
      /\ \A i \in I : score[i] \in S /\ score[i] = Score(cs[i])
  OBVIOUS
<1>4. BestScore(cs) = Max(S)
  BY DEF BestScore
<1>5. \E b \in Nat : \A i \in I : score[i] \in Nat /\ score[i] <= b
  <2>1. 10000 \in Nat
    OBVIOUS
  <2>2. QED
    BY <1>2, <2>1
<1> HIDE DEF score, S, I
<1>6. PICK j \in I : \A k \in I : ~(score[k] > score[j])
  BY <1>1, <1>5, SomeUnbeaten
<1>7. \A y \in S : score[j] >= y
  <2>1. ASSUME NEW k \in I PROVE score[j] >= score[k]
    BY <1>2, <1>6
  <2>2. QED
    BY <1>3, <2>1
<1>8. \E x \in S : \A y \in S : x >= y
  BY <1>3, <1>7
<1>9. Max(S) \in S /\ \A y \in S : Max(S) >= y
  BY <1>8 DEF Max
<1>10. PICK m \in I : Max(S) = score[m]
  BY <1>3, <1>9
<1>11. ASSUME NEW i \in I PROVE Score(cs[i]) <= BestScore(cs)
  <2>1. score[m] >= score[i]
    BY <1>3, <1>9, <1>10
  <2>2. QED
    BY <1>2, <1>3, <1>4, <1>10, <2>1
<1>12. Score(cs[m]) = BestScore(cs)
  BY <1>3, <1>4, <1>10
<1>13. QED
  BY <1>11, <1>12 DEF ToSet, I

LEMMA NotReached ==
    ASSUME NEW cs \in Seq(Candidate), NEW t \in Nat, ~Reaches(cs, t)
    PROVE  \A c \in ToSet(cs) : ~(Score(c) >= t)
<1> SUFFICES ASSUME NEW c \in ToSet(cs), Score(c) >= t PROVE FALSE
  OBVIOUS
<1>1. cs # <<>> /\ c \in Candidate
  BY DEF ToSet
<1>2. PICK b \in Candidate : Score(b) = BestScore(cs)
  BY <1>1, BestScoreIs, SeqMembers
<1>3. Score(c) <= BestScore(cs) /\ Score(c) \in Nat /\ BestScore(cs) \in Nat
  BY <1>1, <1>2, BestScoreIs, ScoreNat
<1>4. BestScore(cs) >= t
  BY <1>3
<1>5. QED
  BY <1>1, <1>4 DEF Reaches

LEMMA RankedScore ==
    ASSUME NEW c \in Candidate
    PROVE  /\ Ranked(c).raw = Score(c) /\ Score(Ranked(c)) = Score(c)
           /\ Ranked(c).ref = c.ref /\ Ranked(c).weighed = c.weighed
<1>1. /\ Ranked(c).raw = Score(c) /\ Ranked(c).ref = c.ref /\ Ranked(c).weighed = c.weighed
      /\ Ranked(c).signals = c.signals
  BY DEF Ranked, Candidate
<1>2. QED
  BY <1>1 DEF Score

\* What is picked has the best score.
LEMMA PickedScores ==
    ASSUME NEW step, StepOK(step), NEW cs \in Seq(Candidate), NEW t \in Nat, Reaches(cs, t),
           Pick(step, cs).kind = "resolved"
    PROVE  \E c \in ToSet(cs) : Pick(step, cs).target = Ranked(c) /\ Score(c) >= t
<1> DEFINE i == FirstOf(cs, step.action, DOMAIN cs)
<1>1. cs # <<>> /\ BestScore(cs) >= t /\ DOMAIN cs # {}
  <2>1. cs # <<>> /\ BestScore(cs) >= t
    BY DEF Reaches
  <2> HIDE DEF Reaches
  <2>2. cs # <<>> => DOMAIN cs # {}
    BY SeqMembers
  <2>3. QED
    BY <2>1, <2>2
<1>2. i \in DOMAIN cs /\ \A j \in DOMAIN cs \ {i} : Precedes(cs, step.action, i, j)
  BY <1>1, BestExists
<1>3. Pick(step, cs).target = Ranked(cs[i])
  BY DEF Pick, Failed, Resolved, BestForAction
<1> HIDE DEF i
<1>4. PICK j \in DOMAIN cs : Score(cs[j]) = BestScore(cs)
  BY <1>1, BestScoreIs DEF ToSet
<1>5. Score(cs[i]) \in Nat /\ Score(cs[j]) \in Nat
  BY <1>2, ScoreNat
<1>6. Score(cs[i]) >= Score(cs[j])
  <2>1. CASE j = i
    BY <1>5, <2>1
  <2>2. CASE j # i
    <3>1. Precedes(cs, step.action, i, j)
      BY <1>2, <2>2
    <3>2. Score(cs[i]) > Score(cs[j]) \/ Score(cs[i]) = Score(cs[j])
      BY <3>1 DEF Precedes
    <3>3. QED
      BY <1>5, <3>2
  <2>3. QED
    BY <2>1, <2>2
<1>7. Score(cs[i]) >= t
  BY <1>1, <1>4, <1>5, <1>6
<1>8. QED
  BY <1>2, <1>3, <1>7 DEF ToSet

-----------------------------------------------------------------------------
\* The marks of what is found on a page by a step that is not a dropdown's.

LEMMA Hundredth ==
    ASSUME NEW x \in Nat, NEW k \in Nat, x < 100 * k
    PROVE  ~(x \div 100 >= k)
<1>1. x \div 100 \in Int /\ 100 * (x \div 100) <= x
  BY SMT
<1> DEFINE q == x \div 100
<1>2. q \in Int /\ 100 * q <= x
  BY <1>1
<1> HIDE DEF q
<1>3. ~(q >= k)
  BY <1>2, SMT
<1>4. QED
  BY <1>3 DEF q

TreeFound(step, page) == Kept(page, {i \in DOMAIN page : TreeConfidence(step, page[i]) > 0})
TreeTarget(step, found, e) ==
    [ ref |-> RefOf(e), raw |-> Biased(step, e), role |-> e.role, named |-> e.label # NoName,
      weighed |-> TRUE, signals |-> TreeSignals(step, found, e), by |-> "accessibility_tree" ]

LEMMA TreeShape ==
    ASSUME NEW page \in Seq(Element), NEW step, ~DropdownIntent(step), NEW c \in ToSet(TreeFinds(step, page))
    PROVE  \E e \in Element :
               /\ c = TreeTarget(step, TreeFound(step, page), e) /\ TreeConfidence(step, e) > 0
               /\ \E i \in DOMAIN page : page[i] = e
<1> DEFINE found == TreeFound(step, page)
           I == {i \in DOMAIN page : TreeConfidence(step, page[i]) > 0}
<1>1. found \in Seq({page[i] : i \in I})
  BY PageKept DEF TreeFound
<1>2. \A x \in {page[i] : i \in I} :
          x \in Element /\ TreeConfidence(step, x) > 0 /\ \E i \in DOMAIN page : page[i] = x
  OBVIOUS
<1>3. /\ DOMAIN TreeFinds(step, page) = DOMAIN found
      /\ \A i \in DOMAIN found : TreeFinds(step, page)[i] = TreeTarget(step, found, found[i])
  BY DEF TreeFinds, TreeFound, TreeTarget
<1> HIDE DEF found, I
<1>4. \A j \in DOMAIN found :
          found[j] \in Element /\ TreeConfidence(step, found[j]) > 0 /\ \E i \in DOMAIN page : page[i] = found[j]
  BY <1>1, <1>2, SeqMembers
<1>5. PICK i \in DOMAIN found : c = TreeFinds(step, page)[i]
  BY <1>3 DEF ToSet
<1>6. QED
  BY <1>3, <1>4, <1>5 DEF found

LEMMA TreeRaw ==
    ASSUME NEW step, NEW e \in Element
    PROVE  /\ TreeConfidence(step, e) \in {0, 6000, 7000, 8000, 9600}
           /\ e.label # NoName => TreeConfidence(step, e) # 6000
           /\ e.label = NoName => TreeConfidence(step, e) \in {0, 6000}
           /\ Strong(step, e) => TreeConfidence(step, e) = 9600
           /\ Biased(step, e) \in {TreeConfidence(step, e), TreeConfidence(step, e) + 300}
<1>1. e.label \in Label \/ e.label = NoName
  BY DEF Element
<1>2. e.label \in Label => NameMatch[e.label] \in {"phrase", "keyword", "partial", "none"}
  BY PageResolversAssumption
<1>3. /\ TreeConfidence(step, e) \in {0, 6000, 7000, 8000, 9600}
      /\ e.label # NoName => TreeConfidence(step, e) # 6000
      /\ e.label = NoName => TreeConfidence(step, e) \in {0, 6000}
  <2>1. CASE e.label = NoName
    BY <2>1 DEF TreeConfidence
  <2>2. CASE e.label # NoName
    BY <1>1, <1>2, <2>2 DEF TreeConfidence
  <2>3. QED
    BY <2>1, <2>2
<1>4. Strong(step, e) => TreeConfidence(step, e) = 9600
  BY DEF Strong, TreeConfidence
<1>5. Biased(step, e) \in {TreeConfidence(step, e), TreeConfidence(step, e) + 300}
  <2> DEFINE t == TreeConfidence(step, e)
             b == t + IF Aligned(step.hint, e.role) THEN 300 ELSE 0
  <2>1. t \in Nat /\ t <= 9600
    BY <1>3
  <2>2. Biased(step, e) = Min({10000, b})
    BY DEF Biased
  <2> HIDE DEF t
  <2>3. b = t \/ b = t + 300
    <3>1. CASE Aligned(step.hint, e.role)
      BY <3>1
    <3>2. CASE ~Aligned(step.hint, e.role)
      BY <2>1, <3>2
    <3>3. QED
      BY <3>1, <3>2
  <2> HIDE DEF b
  <2>4. b \in Nat /\ b <= 9900
    BY <2>1, <2>3
  <2>5. Min({10000, b}) \in Nat /\ Min({10000, b}) <= b
    <3>1. Min({10000, b}) \in {10000, b} /\ \A y \in {10000, b} : Min({10000, b}) <= y
      BY <2>4, MinIs, {10000, b} \subseteq Nat, {10000, b} # {}
    <3>2. QED
      BY <2>4, <3>1
  <2>6. Min({10000, b}) = 10000 \/ Min({10000, b}) = b
    BY <2>4, MinOfTwo, 10000 \in Nat
  <2>7. Min({10000, b}) = b
    BY <2>4, <2>5, <2>6
  <2>8. QED
    BY <2>2, <2>3, <2>7 DEF t
<1>6. QED
  BY <1>3, <1>4, <1>5

LEMMA TreeScore ==
    ASSUME NEW step, StepOK(step), NEW found, NEW e \in Element
    PROVE  /\ e.label = NoName => ~(Score(TreeTarget(step, found, e)) >= 7000)
           /\ ~Strong(step, e) => ~(Score(TreeTarget(step, found, e)) >= 8500)
<1> DEFINE s == TreeSignals(step, found, e)
           t == TreeText(step, e)
           r == RoleSignal(step, e.role)
           u == s.uniq
           x == 30 * s.text + 20 * s.role + 15 * s.vis + 15 * s.uniq + 10 * s.prox + 10 * s.mem + 50
<1>1. Score(TreeTarget(step, found, e)) = x \div 100
  BY DEF Score, TreeTarget
<1>2. s.text = t /\ s.role = r /\ u \in {10000, 6000} /\ s.mem = 0
  BY DEF TreeSignals
<1>3. ~Strong(step, e) => s.vis = 8000 /\ s.prox = 0
  BY DEF TreeSignals
<1>4. r \in Nat /\ r <= 10000
  <2>1. e.role \in Role \union {NoRole}
    BY DEF Element
  <2>2. r \in Bp
    BY <2>1, FitType
  <2> HIDE DEF r
  <2>3. QED
    BY <2>2 DEF Bp
<1>5. t \in Nat /\ t <= 10000 /\ (e.label = NoName => t <= 6000 /\ ~Strong(step, e))
  <2>1. e.label = NoName => t = TreeConfidence(step, e) /\ ~Strong(step, e)
    BY DEF TreeText, Strong
  <2>2. t \in {TreeConfidence(step, e), 9500, 8200, 10000}
    BY DEF TreeText
  <2>3. /\ TreeConfidence(step, e) \in {0, 6000, 7000, 8000, 9600}
        /\ e.label = NoName => TreeConfidence(step, e) \in {0, 6000}
    BY TreeRaw
  <2> HIDE DEF t
  <2>4. t \in {0, 6000, 7000, 8000, 9600, 9500, 8200, 10000}
    BY <2>2, <2>3
  <2>5. e.label = NoName => t \in {0, 6000}
    BY <2>1, <2>3 DEF t
  <2>6. QED
    BY <2>1, <2>4, <2>5
<1> HIDE DEF t, r
<1>6. ASSUME ~Strong(step, e) PROVE x \in Nat /\ x < 100 * 8500 /\ (e.label = NoName => x < 100 * 7000)
  <2>1. x = 30 * t + 20 * r + 15 * 8000 + 15 * u + 10 * 0 + 10 * 0 + 50
    BY <1>2, <1>3, <1>6
  <2> HIDE DEF x, u
  <2>2. QED
    BY <1>2, <1>4, <1>5, <2>1
<1> HIDE DEF x
<1>7. QED
  BY <1>1, <1>5, <1>6, Hundredth, 8500 \in Nat, 7000 \in Nat

\* What is found in the tree and scores well has a confidence no fuzzy match has,
\* and is not found twice.
LEMMA TreeMarks ==
    ASSUME NEW page \in Seq(Element), NEW step, StepOK(step), ~DropdownIntent(step),
           NEW c \in ToSet(TreeFinds(step, page))
    PROVE  /\ c.ref[1] \in Role
           /\ Score(c) >= 7000 => c.raw \in {7000, 7300, 8000, 8300, 9600, 9900}
           /\ Score(c) >= 8500 => c.raw >= 9600
           /\ \A d \in ToSet(TreeFinds(step, page)) : d.ref = c.ref => d = c
<1> DEFINE found == TreeFound(step, page)
<1>1. PICK e \in Element : c = TreeTarget(step, found, e) /\ TreeConfidence(step, e) > 0
  BY TreeShape
<1>2. e.role \in Role /\ e = [role |-> e.role, label |-> e.label]
  BY DEF Element
<1>3. c.ref = <<e.role, e.label>> /\ c.raw = Biased(step, e)
  BY <1>1 DEF TreeTarget, RefOf
<1>4. e.label # NoName => c.raw \in {7000, 7300, 8000, 8300, 9600, 9900}
  <2>1. e.label # NoName => TreeConfidence(step, e) \in {7000, 8000, 9600}
    BY <1>1, TreeRaw
  <2>2. QED
    BY <1>3, <2>1, TreeRaw
<1>5. Score(c) >= 7000 => c.raw \in {7000, 7300, 8000, 8300, 9600, 9900}
  BY <1>1, <1>4, TreeScore
<1>6. Score(c) >= 8500 => c.raw >= 9600
  <2>1. Score(c) >= 8500 => Strong(step, e)
    BY <1>1, TreeScore
  <2>2. QED
    BY <1>3, <2>1, TreeRaw
<1>7. ASSUME NEW d \in ToSet(TreeFinds(step, page)), d.ref = c.ref PROVE d = c
  <2>1. PICK f \in Element : d = TreeTarget(step, found, f)
    BY TreeShape
  <2>2. f = [role |-> f.role, label |-> f.label] /\ d.ref = <<f.role, f.label>>
    BY <2>1 DEF Element, TreeTarget, RefOf
  <2>3. f.role = e.role /\ f.label = e.label
    BY <1>3, <1>7, <2>2
  <2>4. f = e
    BY <1>2, <2>2, <2>3
  <2>5. QED
    BY <1>1, <2>1, <2>4
<1>8. QED
  BY <1>2, <1>3, <1>5, <1>6, <1>7

FuzzyHit(e) == e.label # NoName /\ FuzzyRatio[e.label] >= 5000
FuzzyFound(page) ==
    Kept(page, {i \in DOMAIN page :
        FuzzyHit(page[i]) /\ \A j \in 1..(i - 1) : FuzzyHit(page[j]) => RefOf(page[j]) # RefOf(page[i])})
FuzzyTarget(step, e) ==
    [ ref |-> RefOf(e), raw |-> FuzzyConfidence(FuzzyRatio[e.label]), role |-> e.role, named |-> FALSE,
      weighed |-> TRUE, by |-> "fuzzy_text",
      signals |-> [ text |-> FuzzyRatio[e.label], role |-> RoleSignal(step, e.role), vis |-> 8000,
                    uniq |-> 10000, prox |-> 0, mem |-> 0 ] ]

LEMMA FuzzyIs ==
    ASSUME NEW step, NEW page \in Seq(Element)
    PROVE  FuzzyFinds(step, page) = [i \in DOMAIN FuzzyFound(page) |-> FuzzyTarget(step, FuzzyFound(page)[i])]
  BY DEF FuzzyFinds, FirstOfEach, FuzzyFound, FuzzyTarget, FuzzyHit

LEMMA FuzzyMarks ==
    ASSUME NEW step, NEW page \in Seq(Element), NEW c \in ToSet(FuzzyFinds(step, page))
    PROVE  c.raw \in {8200, 7200, 6200}
<1>1. PICK e : c = FuzzyTarget(step, e)
  BY FuzzyIs DEF ToSet
<1>2. c.raw = FuzzyConfidence(FuzzyRatio[e.label])
  BY <1>1 DEF FuzzyTarget
<1>3. ASSUME NEW ratio PROVE FuzzyConfidence(ratio) \in {8200, 7200, 6200}
  <2>1. CASE ratio >= 8500
    BY <2>1 DEF FuzzyConfidence
  <2>2. CASE ~(ratio >= 8500) /\ ratio >= 6500 /\ ratio < 8500
    BY <2>2 DEF FuzzyConfidence
  <2>3. CASE ~(ratio >= 8500) /\ ~(ratio >= 6500 /\ ratio < 8500)
    BY <2>3 DEF FuzzyConfidence
  <2>4. QED
    BY <2>1, <2>2, <2>3
<1>4. QED
  BY <1>2, <1>3

LEMMA TextMarks ==
    ASSUME NEW page \in Seq(Element), NEW c \in ToSet(TextFinds(page))
    PROVE  c.ref[1] = "text" /\ ~(Score(c) >= 7000)
<1> DEFINE Hit(e) == e.label # NoName /\ NameMatch[e.label] \in {"phrase", "keyword"}
           found  == FirstOfEach(page, Hit, LAMBDA e : e.label)
<1>1. PICK i \in DOMAIN TextFinds(page) : c = TextFinds(page)[i]
  BY DEF ToSet
<1>2. /\ c.ref[1] = "text" /\ c.weighed
      /\ c.signals = [text |-> 10000, role |-> 0, vis |-> 5000, uniq |-> 10000, prox |-> 0, mem |-> 0]
  BY <1>1 DEF TextFinds
<1>3. Score(c) = (30 * 10000 + 20 * 0 + 15 * 5000 + 15 * 10000 + 10 * 0 + 10 * 0 + 50) \div 100
  BY <1>2 DEF Score
<1>4. 30 * 10000 + 20 * 0 + 15 * 5000 + 15 * 10000 + 10 * 0 + 10 * 0 + 50 < 100 * 7000
  BY SMT
<1>5. QED
  BY <1>2, <1>3, <1>4, Hundredth, 30 * 10000 + 20 * 0 + 15 * 5000 + 15 * 10000 + 10 * 0 + 10 * 0 + 50 \in Nat

\* A replay scores no less than what it replays, where that had signals.
LEMMA ReplayMarks ==
    ASSUME NEW m \in Candidate
    PROVE  /\ Replay(m).ref = m.ref /\ Replay(m).raw = m.raw
           /\ m.weighed => Score(Replay(m)) >= Score(m)
<1> DEFINE M == Max({m.signals.mem, 8000})
           s == m.signals
           b == 30 * s.text + 20 * s.role + 15 * s.vis + 15 * s.uniq + 10 * s.prox
           x == b + 10 * s.mem + 50
           y == b + 10 * M + 50
<1>1. Replay(m).ref = m.ref /\ Replay(m).raw = m.raw
  BY DEF Replay, Candidate
<1>2. s.text \in Nat /\ s.role \in Nat /\ s.vis \in Nat /\ s.uniq \in Nat /\ s.prox \in Nat /\ s.mem \in Nat
  <2>1. m.signals \in Signals
    BY DEF Candidate
  <2>2. QED
    BY <2>1, BpNat DEF Signals
<1>3. M \in Nat /\ M >= s.mem
  <2>1. \E k \in {s.mem, 8000} : \A l \in {s.mem, 8000} : k >= l
    BY <1>2
  <2>2. M \in {s.mem, 8000} /\ \A l \in {s.mem, 8000} : M >= l
    BY <2>1 DEF Max
  <2> HIDE DEF M
  <2>3. QED
    BY <1>2, <2>2
<1>4. ASSUME m.weighed PROVE Score(m) = x \div 100 /\ Score(Replay(m)) = y \div 100
  <2>1. Score(m) = x \div 100
    BY <1>4 DEF Score
  <2>2. Replay(m).weighed /\ Replay(m).signals = [s EXCEPT !.mem = M]
    BY <1>4 DEF Replay, Candidate
  <2>3. s \in Signals
    BY DEF Candidate
  <2> HIDE DEF M
  <2>4. /\ Replay(m).signals.text = s.text /\ Replay(m).signals.role = s.role /\ Replay(m).signals.vis = s.vis
        /\ Replay(m).signals.uniq = s.uniq /\ Replay(m).signals.prox = s.prox /\ Replay(m).signals.mem = M
    BY <2>2, <2>3 DEF Signals
  <2>5. QED
    BY <2>1, <2>2, <2>4 DEF Score
<1>5. b \in Nat
  BY <1>2
<1> HIDE DEF M, b, s
<1>6. x \in Nat /\ y \in Nat /\ x <= y
  BY <1>2, <1>3, <1>5
<1> HIDE DEF x, y
<1>7. y \div 100 >= x \div 100
  BY <1>6, SMT
<1>8. QED
  BY <1>1, <1>4, <1>7

LEMMA ToSetJoin ==
    ASSUME NEW S, NEW a \in Seq(S), NEW b \in Seq(S)
    PROVE  a \o b \in Seq(S) /\ ToSet(a \o b) = ToSet(a) \union ToSet(b)
<1>1. /\ a \o b \in Seq(S) /\ Len(a) \in Nat /\ Len(b) \in Nat
      /\ DOMAIN a = 1..Len(a) /\ DOMAIN b = 1..Len(b) /\ DOMAIN (a \o b) = 1..(Len(a) + Len(b))
      /\ \A i \in 1..Len(a) : (a \o b)[i] = a[i]
      /\ \A i \in (Len(a) + 1)..(Len(a) + Len(b)) : (a \o b)[i] = b[i - Len(a)]
  OBVIOUS
<1>2. ASSUME NEW i \in DOMAIN a PROVE a[i] \in ToSet(a \o b)
  <2>1. i \in DOMAIN (a \o b) /\ (a \o b)[i] = a[i]
    BY <1>1
  <2>2. QED
    BY <2>1 DEF ToSet
<1>3. ASSUME NEW i \in DOMAIN b PROVE b[i] \in ToSet(a \o b)
  <2> DEFINE j == i + Len(a)
  <2>1. j \in DOMAIN (a \o b) /\ j \in (Len(a) + 1)..(Len(a) + Len(b)) /\ j - Len(a) = i
    BY <1>1
  <2> HIDE DEF j
  <2>2. (a \o b)[j] = b[i]
    BY <1>1, <2>1
  <2>3. QED
    BY <2>1, <2>2 DEF ToSet
<1>4. ASSUME NEW i \in DOMAIN (a \o b) PROVE (a \o b)[i] \in ToSet(a) \union ToSet(b)
  <2>1. CASE i \in DOMAIN a
    BY <1>1, <2>1 DEF ToSet
  <2>2. CASE i \notin DOMAIN a
    <3>1. i \in (Len(a) + 1)..(Len(a) + Len(b)) /\ i - Len(a) \in DOMAIN b
      BY <1>1, <2>2
    <3>2. (a \o b)[i] = b[i - Len(a)]
      BY <1>1, <3>1
    <3>3. QED
      BY <3>1, <3>2 DEF ToSet
  <2>3. QED
    BY <2>1, <2>2
<1>5. ToSet(a) \subseteq ToSet(a \o b) /\ ToSet(b) \subseteq ToSet(a \o b)
  BY <1>2, <1>3 DEF ToSet
<1>6. ToSet(a \o b) \subseteq ToSet(a) \union ToSet(b)
  BY <1>4 DEF ToSet
<1>7. QED
  BY <1>1, <1>5, <1>6

-----------------------------------------------------------------------------
\* What a tier leaves when it does not decide.

LEMMA NothingJoined ==
    ASSUME NEW S, NEW a \in Seq(S)
    PROVE  <<>> \o a = a /\ a \o <<>> = a
  OBVIOUS

LEMMA SingleTier ==
    ASSUME NEW c \in Candidate, NEW t \in Nat, Score(c) >= t
    PROVE  Reaches(<<c>>, t) /\ Reaches(TierDedupe(<<c>>), t)
<1> DEFINE S == {c}
           d == TierDedupe(<<c>>)
<1>1. S \in SUBSET Candidate /\ <<c>> \in Seq(S) /\ c \in ToSet(<<c>>)
  BY DEF ToSet
<1>2. d \in Seq(S) /\ \E x \in ToSet(d) : x.ref = c.ref
  <2> HIDE DEF S
  <2>1. QED
    BY <1>1, TierDedupeKeeps
<1>3. c \in ToSet(d)
  <2>1. \A x \in ToSet(d) : x \in S
    BY <1>2, SeqMembers
  <2>2. QED
    BY <1>2, <2>1
<1> HIDE DEF d
<1>4. d \in Seq(Candidate) /\ <<c>> \in Seq(Candidate)
  BY <1>2
<1>5. QED
  BY <1>1, <1>3, <1>4, NotReached DEF d

LEMMA ExplicitScores ==
    ASSUME NEW step, step.selector # NoName
    PROVE  \E x : ExplicitFinds(step) = <<x>> /\ Score(x) >= 8500
<1> DEFINE x == [ ref |-> step.selector, raw |-> 10000, role |-> NoRole, named |-> FALSE,
              weighed |-> TRUE, by |-> "explicit_selector",
              signals |-> [ text |-> 10000, role |-> 10000, vis |-> 10000,
                            uniq |-> 10000, prox |-> 10000, mem |-> 0 ] ]
<1>0. ExplicitFinds(step) = IF step.selector = NoName THEN <<>> ELSE <<x>>
  BY DEF ExplicitFinds
<1>1. ExplicitFinds(step) = <<x>>
  <2> HIDE DEF x
  <2>1. QED
    BY <1>0, Zenon
<1>2. Score(x) = (30 * 10000 + 20 * 10000 + 15 * 10000 + 15 * 10000 + 10 * 10000 + 10 * 0 + 50) \div 100
  BY DEF Score
<1>3. (30 * 10000 + 20 * 10000 + 15 * 10000 + 15 * 10000 + 10 * 10000 + 10 * 0 + 50) \div 100 = 9000
  BY SMT
<1> HIDE DEF x
<1>4. Score(x) >= 8500
  BY <1>2, <1>3
<1>5. QED
  BY <1>1, <1>4

\* In the first tier a resolver runs when none before it was sure.
LEMMA TierOneIs ==
    ASSUME NEW page, NEW step, NEW memo
    PROVE  TierResult(page, step, memo, 1) =
             TierDedupe(ExplicitFinds(step)
               \o (IF ~Reaches(ExplicitFinds(step), 8500) THEN MemoryFinds(memo) ELSE <<>>)
               \o (IF ~Reaches(ExplicitFinds(step), 8500) /\ ~Reaches(MemoryFinds(memo), 8500)
                     THEN TreeFinds(step, page) ELSE <<>>)
               \o (IF ~Reaches(ExplicitFinds(step), 8500) /\ ~Reaches(MemoryFinds(memo), 8500)
                        /\ ~Reaches(TreeFinds(step, page), 8500) THEN TextFinds(page) ELSE <<>>))
<1> DEFINE r1 == ExplicitFinds(step)
           r2 == MemoryFinds(memo)
           r3 == TreeFinds(step, page)
           r4 == TextFinds(page)
           t1 == TierResult(page, step, memo, 1)
           F2 == IF ~Reaches(r1, 8500) THEN r2 ELSE <<>>
           F3 == IF ~Reaches(r1, 8500) /\ ~Reaches(r2, 8500) THEN r3 ELSE <<>>
           F4 == IF ~Reaches(r1, 8500) /\ ~Reaches(r2, 8500) /\ ~Reaches(r3, 8500) THEN r4 ELSE <<>>
<1> DEFINE rs == <<r1, r2, r3, r4>>
           Runs(n)  == n \in DOMAIN rs /\ \A k \in 1..(n - 1) : ~Reaches(rs[k], 8500)
           Found(n) == IF Runs(n) THEN rs[n] ELSE <<>>
<1>1. t1 = TierDedupe(Found(1) \o Found(2) \o Found(3) \o Found(4))
  BY DEF TierResult, TierFinds, RunTier, StopAt, AcceptThreshold
<1>2. 1..(1 - 1) = {} /\ 1..(2 - 1) = {1} /\ 1..(3 - 1) = {1, 2} /\ 1..(4 - 1) = {1, 2, 3}
  BY SMT
<1>3. DOMAIN rs = {1, 2, 3, 4} /\ rs[1] = r1 /\ rs[2] = r2 /\ rs[3] = r3 /\ rs[4] = r4
  OBVIOUS
<1> HIDE DEF r1, r2, r3, r4, rs
<1>4. Found(1) = r1
  BY <1>2, <1>3
<1>5. Found(2) = F2
  BY <1>2, <1>3
<1>6. Found(3) = F3
  BY <1>2, <1>3
<1>7. Found(4) = F4
  BY <1>2, <1>3
<1> HIDE DEF Found, F2, F3, F4, t1
<1>8. t1 = TierDedupe(r1 \o F2 \o F3 \o F4)
  BY <1>1, <1>4, <1>5, <1>6, <1>7
<1>9. QED
  BY <1>8 DEF t1, F2, F3, F4, r1, r2, r3, r4

\* The first tier, undecided: no selector, and each of the tree's candidates, or
\* another that beats it, is left.
TierOneLeft(page, step, memo, t1) ==
    /\ step.selector = NoName
    /\ \A c \in ToSet(t1) :
          c \in ToSet(MemoryFinds(memo)) \/ c \in ToSet(TreeFinds(step, page)) \/ c \in ToSet(TextFinds(page))
    /\ \A c \in ToSet(TreeFinds(step, page)) : \E d \in ToSet(t1) : d.ref = c.ref /\ d.raw >= c.raw

LEMMA TierOneUndecided ==
    ASSUME NEW page \in Seq(Element), NEW step, StepOK(step), NEW memo, MemoOK(memo),
           ~Reaches(TierResult(page, step, memo, 1), 8500)
    PROVE  TierOneLeft(page, step, memo, TierResult(page, step, memo, 1))
<1> DEFINE r1 == ExplicitFinds(step)
           r2 == MemoryFinds(memo)
           r3 == TreeFinds(step, page)
           r4 == TextFinds(page)
           t1 == TierResult(page, step, memo, 1)
           F2 == IF ~Reaches(r1, 8500) THEN r2 ELSE <<>>
           F3 == IF ~Reaches(r1, 8500) /\ ~Reaches(r2, 8500) THEN r3 ELSE <<>>
           F4 == IF ~Reaches(r1, 8500) /\ ~Reaches(r2, 8500) /\ ~Reaches(r3, 8500) THEN r4 ELSE <<>>
<1>1. t1 = TierDedupe(r1 \o F2 \o F3 \o F4)
  BY TierOneIs
<1>2. /\ r1 \in Seq(Candidate) /\ r2 \in Seq(Candidate) /\ r3 \in Seq(Candidate) /\ r4 \in Seq(Candidate)
  <2>1. Apt(page, step, memo) \in SUBSET Candidate
    BY DEF Apt
  <2>2. /\ r1 \in Seq(Apt(page, step, memo)) /\ r2 \in Seq(Apt(page, step, memo))
        /\ r3 \in Seq(Apt(page, step, memo)) /\ r4 \in Seq(Apt(page, step, memo))
    BY ExplicitApt, MemoryApt, TreeApt, TextApt
  <2> HIDE DEF r1, r2, r3, r4
  <2>3. QED
    BY <2>1, <2>2
<1>3. ~Reaches(t1, 8500)
  OBVIOUS
<1>4. 8500 \in Nat /\ <<>> \in Seq(Candidate)
  OBVIOUS
<1>5. step.selector = NoName
  <2> SUFFICES ASSUME step.selector # NoName PROVE FALSE
    OBVIOUS
  <2>1. PICK x : r1 = <<x>> /\ Score(x) >= 8500
    BY ExplicitScores
  <2> HIDE DEF r1, r2, r3, r4, t1
  <2>5. x \in Candidate
    <3>1. x \in ToSet(r1)
      BY <2>1 DEF ToSet
    <3>2. QED
      BY <1>2, <3>1, SeqMembers
  <2>6. Reaches(r1, 8500) /\ Reaches(TierDedupe(r1), 8500)
    BY <1>4, <2>1, <2>5, SingleTier
  <2>7. t1 = TierDedupe(r1)
    BY <1>1, <1>2, <1>4, <2>6, NothingJoined
  <2>8. QED
    BY <1>3, <2>6, <2>7
<1>6. r1 = <<>> /\ ~Reaches(r1, 8500)
  BY <1>5 DEF ExplicitFinds, Reaches
<1>7. ~Reaches(r2, 8500)
  <2> SUFFICES ASSUME Reaches(r2, 8500) PROVE FALSE
    OBVIOUS
  <2> DEFINE x == Replay(memo)
  <2>1. r2 = <<x>>
    BY DEF Reaches, MemoryFinds
  <2> HIDE DEF x, r1, r2, r3, r4, t1
  <2>2. x \in Candidate /\ x \in ToSet(r2) /\ ToSet(r2) = {x}
    <3>1. ToSet(r2) = {x}
      BY <2>1 DEF ToSet
    <3>2. QED
      BY <1>2, <3>1, SeqMembers
  <2>3. Score(x) >= 8500
    <3>1. BestScore(r2) >= 8500 /\ r2 # <<>>
      BY DEF Reaches
    <3>2. PICK y \in ToSet(r2) : Score(y) = BestScore(r2)
      BY <1>2, <3>1, BestScoreIs
    <3>3. QED
      BY <2>2, <3>1, <3>2
  <2>4. Reaches(TierDedupe(r2), 8500)
    BY <1>4, <2>1, <2>2, <2>3, SingleTier
  <2>5. t1 = TierDedupe(r2)
    BY <1>1, <1>2, <1>4, <1>6, NothingJoined
  <2>6. QED
    BY <1>3, <2>4, <2>5
<1>8. t1 = TierDedupe(r2 \o r3 \o F4)
  BY <1>1, <1>2, <1>6, <1>7, NothingJoined
<1> DEFINE cs == r2 \o r3 \o F4
<1> HIDE DEF r1, r2, r3, r4, t1
<1>9. /\ cs \in Seq(Candidate) /\ \A c \in ToSet(cs) : c \in ToSet(r2) \/ c \in ToSet(r3) \/ c \in ToSet(r4)
      /\ \A c \in ToSet(r3) : c \in ToSet(cs)
  <2>1. F4 \in Seq(Candidate) /\ \A c \in ToSet(F4) : c \in ToSet(r4)
    <3>1. ToSet(<<>>) = {}
      BY DEF ToSet
    <3>2. QED
      BY <1>2, <1>4, <3>1
  <2> HIDE DEF F4
  <2>2. r2 \o r3 \in Seq(Candidate) /\ ToSet(r2 \o r3) = ToSet(r2) \union ToSet(r3)
    BY <1>2, ToSetJoin
  <2> DEFINE a == r2 \o r3
  <2>3. a \in Seq(Candidate) /\ ToSet(a) = ToSet(r2) \union ToSet(r3)
    BY <2>2
  <2> HIDE DEF a
  <2>4. a \o F4 \in Seq(Candidate) /\ ToSet(a \o F4) = ToSet(a) \union ToSet(F4)
    BY <2>1, <2>3, ToSetJoin
  <2>5. cs = a \o F4
    BY DEF a
  <2>6. QED
    BY <2>1, <2>3, <2>4, <2>5
<1> HIDE DEF cs
<1>10. /\ t1 \in Seq(ToSet(cs))
       /\ \A c \in ToSet(cs) : \E d \in ToSet(t1) : d.ref = c.ref /\ d.raw >= c.raw
  <2>1. ToSet(cs) \in SUBSET Candidate /\ cs \in Seq(ToSet(cs))
    <3>1. \A i \in DOMAIN cs : cs[i] \in ToSet(cs)
      BY DEF ToSet
    <3>2. ToSet(cs) \subseteq Candidate
      BY <1>9, SeqMembers
    <3>3. cs \in Seq(ToSet(cs))
      <4>1. Len(cs) \in Nat /\ DOMAIN cs = 1..Len(cs) /\ cs = [i \in 1..Len(cs) |-> cs[i]]
        BY <1>9
      <4>2. cs \in [1..Len(cs) -> ToSet(cs)]
        BY <3>1, <4>1
      <4>3. QED
        BY <4>1, <4>2
    <3>4. QED
      BY <3>2, <3>3
  <2>2. t1 = TierDedupe(cs)
    BY <1>8 DEF cs
  <2>3. QED
    BY <2>1, <2>2, TierDedupeKeeps
<1>11. \A c \in ToSet(t1) : c \in ToSet(cs)
  BY <1>10, SeqMembers
<1>12. \A c \in ToSet(r3) : \E d \in ToSet(t1) : d.ref = c.ref /\ d.raw >= c.raw
  BY <1>9, <1>10
<1>13. \A c \in ToSet(t1) : c \in ToSet(r2) \/ c \in ToSet(r3) \/ c \in ToSet(r4)
  BY <1>9, <1>11
<1>14. QED
  BY <1>5, <1>12, <1>13 DEF TierOneLeft, r2, r3, r4, t1

LEMMA OwnMembers ==
    ASSUME NEW S, NEW cs \in Seq(S)
    PROVE  cs \in Seq(ToSet(cs)) /\ ToSet(cs) \in SUBSET S
<1>1. \A i \in DOMAIN cs : cs[i] \in ToSet(cs)
  BY DEF ToSet
<1>2. Len(cs) \in Nat /\ DOMAIN cs = 1..Len(cs) /\ cs = [i \in 1..Len(cs) |-> cs[i]]
  OBVIOUS
<1>3. cs \in [1..Len(cs) -> ToSet(cs)]
  BY <1>1, <1>2
<1>4. cs \in Seq(ToSet(cs))
  BY <1>2, <1>3
<1>5. ToSet(cs) \subseteq S
  BY SeqMembers
<1>6. QED
  BY <1>4, <1>5

\* A tier has what its resolvers have found.
LEMMA TierOneHolds ==
    ASSUME NEW page \in Seq(Element), NEW step, StepOK(step), NEW memo, MemoOK(memo),
           NEW c \in ToSet(TierResult(page, step, memo, 1))
    PROVE  \/ c \in ToSet(ExplicitFinds(step)) \/ c \in ToSet(MemoryFinds(memo))
           \/ c \in ToSet(TreeFinds(step, page)) \/ c \in ToSet(TextFinds(page))
<1> DEFINE rs == TierFinds(page, step, memo, 1)
           S == UNION {ToSet(rs[n]) : n \in 1..4}
           Runs(n)  == n \in DOMAIN rs /\ \A k \in 1..(n - 1) : ~Reaches(rs[k], StopAt(1))
           Found(n) == IF Runs(n) THEN rs[n] ELSE <<>>
<1>1. /\ DOMAIN rs = 1..4 /\ rs[1] = ExplicitFinds(step) /\ rs[2] = MemoryFinds(memo)
      /\ rs[3] = TreeFinds(step, page) /\ rs[4] = TextFinds(page)
  BY DEF TierFinds
<1>2. ASSUME NEW n \in 1..4 PROVE rs[n] \in Seq(Apt(page, step, memo))
  <2>1. n \in {1, 2, 3, 4}
    OBVIOUS
  <2> HIDE DEF rs
  <2>2. QED
    BY <1>1, <2>1, ExplicitApt, MemoryApt, TreeApt, TextApt
<1> HIDE DEF rs
<1>3. ASSUME NEW n \in 1..4 PROVE rs[n] \in Seq(S)
  <2>1. rs[n] \in Seq(ToSet(rs[n])) /\ ToSet(rs[n]) \subseteq S
    BY <1>2, OwnMembers
  <2> HIDE DEF S
  <2>2. QED
    BY <2>1
<1>4. S \in SUBSET Candidate
  <2>1. ASSUME NEW n \in 1..4 PROVE ToSet(rs[n]) \subseteq Candidate
    <3>1. ToSet(rs[n]) \subseteq Apt(page, step, memo)
      BY <1>2, OwnMembers
    <3>2. QED
      BY <3>1 DEF Apt
  <2>2. QED
    BY <2>1
<1> HIDE DEF S
<1>5. ASSUME NEW n PROVE Found(n) \in Seq(S)
  BY <1>1, <1>3
<1>6. Found(1) \o Found(2) \o Found(3) \o Found(4) \in Seq(S)
  <2> HIDE DEF Found
  <2>1. QED
    BY <1>5
<1>7. TierResult(page, step, memo, 1) \in Seq(S)
  BY <1>4, <1>6, TierDedupeKeeps DEF TierResult, RunTier, rs
<1>8. c \in S
  BY <1>7, SeqMembers
<1>9. PICK n \in 1..4 : c \in ToSet(rs[n])
  BY <1>8 DEF S
<1>10. n \in {1, 2, 3, 4}
  OBVIOUS
<1>11. QED
  BY <1>1, <1>9, <1>10

LEMMA TierTwoHolds ==
    ASSUME NEW page \in Seq(Element), NEW step, StepOK(step), NEW memo, MemoOK(memo)
    PROVE  /\ \A c \in ToSet(TierResult(page, step, memo, 2)) : c \in ToSet(FuzzyFinds(step, page))
           /\ \A m : TierResult(page, step, m, 2) = TierResult(page, step, memo, 2)
<1> DEFINE r == FuzzyFinds(step, page)
           rs == TierFinds(page, step, memo, 2)
           Runs(n)  == n \in DOMAIN rs /\ \A k \in 1..(n - 1) : ~Reaches(rs[k], StopAt(2))
           Found(n) == IF Runs(n) THEN rs[n] ELSE <<>>
<1>1. rs = <<r>>
  BY DEF TierFinds
<1>2. r \in Seq(ToSet(r)) /\ ToSet(r) \in SUBSET Candidate
  <2>1. r \in Seq(Apt(page, step, memo))
    BY FuzzyApt
  <2>2. Apt(page, step, memo) \subseteq Candidate
    BY DEF Apt
  <2> HIDE DEF r
  <2>3. QED
    BY <2>1, <2>2, OwnMembers
<1> DEFINE S == ToSet(r)
<1> HIDE DEF r, rs
<1>3. \A n \in DOMAIN rs : rs[n] \in Seq(S)
  BY <1>1, <1>2
<1> HIDE DEF S
<1>4. ASSUME NEW n PROVE Found(n) \in Seq(S)
  BY <1>3
<1>5. Found(1) \o Found(2) \o Found(3) \o Found(4) \in Seq(S)
  <2> HIDE DEF Found
  <2>1. QED
    BY <1>4
<1>6. S \in SUBSET Candidate
  BY <1>2 DEF S
<1>7. TierResult(page, step, memo, 2) \in Seq(S)
  BY <1>5, <1>6, TierDedupeKeeps DEF TierResult, RunTier, rs
<1>8. \A c \in ToSet(TierResult(page, step, memo, 2)) : c \in S
  BY <1>7, SeqMembers
<1>9. \A m : TierResult(page, step, m, 2) = TierResult(page, step, memo, 2)
  BY DEF TierResult, TierFinds
<1>10. QED
  BY <1>8, <1>9 DEF S, r

-----------------------------------------------------------------------------
\* A page on which a step other than a dropdown's has once failed for want of a
\* candidate is hopeless: it fails again without the row it had.

GoodMemo(m) ==
    m = NoMemo \/ (m \in Candidate /\ (m.ref[1] = "css" \/ (m.weighed /\ m.raw = Score(m))))

Every(page, step, memo) == TierResult(page, step, memo, 1) \o TierResult(page, step, memo, 2)

LEMMA TiersType ==
    ASSUME NEW page \in Seq(Element), NEW step, StepOK(step), NEW memo, MemoOK(memo)
    PROVE  /\ TierResult(page, step, memo, 1) \in Seq(Candidate)
           /\ TierResult(page, step, memo, 2) \in Seq(Candidate)
           /\ Every(page, step, memo) \in Seq(Candidate)
           /\ ToSet(Every(page, step, memo)) =
                 ToSet(TierResult(page, step, memo, 1)) \union ToSet(TierResult(page, step, memo, 2))
           /\ FinalDedupe(Every(page, step, memo)) \in Seq(Candidate)
           /\ \A c \in ToSet(FinalDedupe(Every(page, step, memo))) : c \in ToSet(Every(page, step, memo))
<1> DEFINE t1 == TierResult(page, step, memo, 1)
           t2 == TierResult(page, step, memo, 2)
           all == Every(page, step, memo)
<1>1. t1 \in Seq(Apt(page, step, memo)) /\ t2 \in Seq(Apt(page, step, memo))
  BY TierApt
<1>2. Apt(page, step, memo) \subseteq Candidate
  BY DEF Apt
<1>3. all = t1 \o t2
  BY DEF Every
<1> HIDE DEF t1, t2, all
<1>4. t1 \in Seq(Candidate) /\ t2 \in Seq(Candidate)
  BY <1>1, <1>2
<1>5. all \in Seq(Candidate) /\ ToSet(all) = ToSet(t1) \union ToSet(t2)
  BY <1>3, <1>4, ToSetJoin
<1>6. FinalDedupe(all) \in Seq(ToSet(all)) /\ ToSet(all) \subseteq Candidate
  BY <1>5, OwnMembers, FinalDedupeKeeps
<1>7. FinalDedupe(all) \in Seq(Candidate) /\ \A c \in ToSet(FinalDedupe(all)) : c \in ToSet(all)
  BY <1>6, SeqMembers
<1>8. QED
  BY <1>4, <1>5, <1>7 DEF t1, t2, all

LEMMA Undecided ==
    ASSUME NEW page \in Seq(Element), NEW step, StepOK(step), NEW memo, MemoOK(memo),
           Offline(page, step, memo).kind \in {"not_found", "low_confidence"}
    PROVE  /\ ~Reaches(TierResult(page, step, memo, 1), 8500)
           /\ ~Reaches(TierResult(page, step, memo, 2), 7000)
           /\ \A c \in ToSet(FinalDedupe(Every(page, step, memo))) : ~(Score(c) >= 7000)
<1> DEFINE t1 == TierResult(page, step, memo, 1)
           t2 == TierResult(page, step, memo, 2)
           all == Every(page, step, memo)
           unique == FinalDedupe(all)
<1>1. \A cs : Pick(step, cs).kind \notin {"not_found", "low_confidence"}
  BY DEF Pick, Failed, Resolved
<1>2. \/ Offline(page, step, memo) = Pick(step, t1)
      \/ Offline(page, step, memo) = Pick(step, t2)
      \/ /\ Offline(page, step, memo) = Fallback(step, all)
         /\ ~Reaches(t1, 8500) /\ ~Reaches(t2, 7000)
  BY DEF Offline, Every, StopAt, AcceptThreshold, ReviewThreshold
<1>3. /\ Offline(page, step, memo) = Fallback(step, all)
      /\ ~Reaches(t1, 8500) /\ ~Reaches(t2, 7000)
  BY <1>1, <1>2
<1>4. unique \in Seq(Candidate) /\ \A c \in ToSet(unique) : c \in ToSet(all)
  BY TiersType
<1>5. CASE all = <<>>
  <2>1. ToSet(all) = {}
    BY <1>5 DEF ToSet
  <2>2. QED
    BY <1>3, <1>4, <2>1
<1>6. CASE all # <<>>
  <2>1. Reaches(unique, 7000) => Fallback(step, all) = Pick(step, unique)
    BY <1>6 DEF Fallback, ReviewThreshold
  <2>2. ~Reaches(unique, 7000)
    BY <1>1, <1>3, <2>1
  <2> HIDE DEF unique
  <2>3. 7000 \in Nat
    OBVIOUS
  <2>4. \A c \in ToSet(unique) : ~(Score(c) >= 7000)
    BY <1>4, <2>2, <2>3, NotReached
  <2>5. QED
    BY <1>3, <2>4 DEF unique
<1>7. QED
  BY <1>5, <1>6

\* Where the target of a step other than a dropdown's comes from.
Deciding(page, step, memo, c) ==
    \/ c \in ToSet(TierResult(page, step, memo, 1)) /\ Score(c) >= 8500
    \/ c \in ToSet(TierResult(page, step, memo, 2)) /\ Reaches(TierResult(page, step, memo, 2), 7000)
    \/ c \in ToSet(FinalDedupe(Every(page, step, memo))) /\ Score(c) >= 7000

LEMMA Decided ==
    ASSUME NEW page \in Seq(Element), NEW step, StepOK(step), NEW memo, MemoOK(memo),
           ~DropdownIntent(step), Offline(page, step, memo).kind = "resolved"
    PROVE  \E c \in Candidate : Offline(page, step, memo).target = Ranked(c) /\ Deciding(page, step, memo, c)
<1> DEFINE t1 == TierResult(page, step, memo, 1)
           t2 == TierResult(page, step, memo, 2)
           all == Every(page, step, memo)
           unique == FinalDedupe(all)
           outcome == Offline(page, step, memo)
<1>1. t1 \in Seq(Candidate) /\ t2 \in Seq(Candidate) /\ unique \in Seq(Candidate)
  BY TiersType
<1>2. \/ outcome = Pick(step, t1) /\ Reaches(t1, 8500)
      \/ outcome = Pick(step, t2) /\ Reaches(t2, 7000)
      \/ outcome = Fallback(step, all)
  BY DEF Offline, Every, StopAt, AcceptThreshold, ReviewThreshold
<1>3. outcome = Fallback(step, all) => outcome = Pick(step, unique) /\ Reaches(unique, 7000)
  BY DEF Fallback, Failed, Relaxed, ReviewThreshold
<1>4. outcome.kind = "resolved"
  OBVIOUS
<1>5. 8500 \in Nat /\ 7000 \in Nat
  OBVIOUS
<1> HIDE DEF t1, t2, unique, outcome
<1>6. CASE outcome = Pick(step, t1) /\ Reaches(t1, 8500)
  <2>1. PICK c \in ToSet(t1) : outcome.target = Ranked(c) /\ Score(c) >= 8500
    BY <1>1, <1>4, <1>5, <1>6, PickedScores
  <2>2. QED
    BY <1>1, <2>1, SeqMembers DEF Deciding, t1, outcome
<1>7. CASE outcome = Pick(step, t2) /\ Reaches(t2, 7000)
  <2>1. PICK c \in ToSet(t2) : outcome.target = Ranked(c) /\ Score(c) >= 7000
    BY <1>1, <1>4, <1>5, <1>7, PickedScores
  <2>2. QED
    BY <1>1, <1>7, <2>1, SeqMembers DEF Deciding, t2, outcome
<1>8. CASE outcome = Pick(step, unique) /\ Reaches(unique, 7000)
  <2>1. PICK c \in ToSet(unique) : outcome.target = Ranked(c) /\ Score(c) >= 7000
    BY <1>1, <1>4, <1>5, <1>8, PickedScores
  <2>2. QED
    BY <1>1, <2>1, SeqMembers DEF Deciding, unique, outcome
<1>9. QED
  BY <1>2, <1>3, <1>6, <1>7, <1>8

\* What a failure says of the tree's better candidates: a fuzzy match outbids each.
LEMMA Outbid ==
    ASSUME NEW page \in Seq(Element), NEW step, StepOK(step), ~DropdownIntent(step),
           NEW memo, GoodMemo(memo),
           Offline(page, step, memo).kind \in {"not_found", "low_confidence"},
           NEW c \in ToSet(TreeFinds(step, page)), Score(c) >= 7000
    PROVE  \E f \in ToSet(TierResult(page, step, memo, 2)) : f.ref = c.ref /\ f.raw > c.raw
<1> DEFINE t1 == TierResult(page, step, memo, 1)
           t2 == TierResult(page, step, memo, 2)
           all == Every(page, step, memo)
           unique == FinalDedupe(all)
<1>1. MemoOK(memo)
  BY DEF GoodMemo, MemoOK
<1>2. ~Reaches(t1, 8500) /\ \A u \in ToSet(unique) : ~(Score(u) >= 7000)
  BY <1>1, Undecided
<1>3. TierOneLeft(page, step, memo, t1)
  BY <1>1, <1>2, TierOneUndecided
<1>4. all \in Seq(Candidate) /\ ToSet(all) = ToSet(t1) \union ToSet(t2) /\ \A u \in ToSet(unique) : u \in ToSet(all)
  BY <1>1, TiersType
<1>5. PICK d \in ToSet(t1) : d.ref = c.ref /\ d.raw >= c.raw
  BY <1>3 DEF TierOneLeft
<1>6. PICK u \in ToSet(unique) : u.ref = d.ref /\ u.raw >= d.raw
  <2>1. Candidate \in SUBSET Candidate /\ d \in ToSet(all)
    BY <1>4, <1>5
  <2> HIDE DEF all
  <2>2. QED
    BY <1>4, <2>1, FinalDedupeKeeps
<1>7. c.ref[1] \in Role /\ c.raw \in {7000, 7300, 8000, 8300, 9600, 9900}
  BY TreeMarks
<1>8. u \in Candidate /\ d \in Candidate /\ u.raw \in Nat /\ d.raw \in Nat
  <2>1. \A x \in ToSet(all) : x \in Candidate
    BY <1>4, SeqMembers
  <2>2. u \in ToSet(all) /\ d \in ToSet(all)
    BY <1>4, <1>5, <1>6
  <2>3. QED
    BY <2>1, <2>2, RawNat
<1>9. u.ref = c.ref /\ u.raw >= c.raw /\ ~(Score(u) >= 7000)
  BY <1>2, <1>5, <1>6, <1>7, <1>8
<1>10. u \in ToSet(t1) \/ u \in ToSet(t2)
  BY <1>4, <1>6
<1>11. ASSUME u \in ToSet(MemoryFinds(memo)) PROVE FALSE
  <2>1. memo # NoMemo /\ u = Replay(memo)
    BY <1>11 DEF MemoryFinds, ToSet
  <2>2. memo \in Candidate
    BY <2>1 DEF GoodMemo
  <2>3. u.ref = memo.ref /\ u.raw = memo.raw
    BY <2>1, <2>2, ReplayMarks
  <2>4. memo.ref[1] # "css"
    BY <1>7, <1>9, <2>3 DEF Role
  <2>5. memo.weighed /\ memo.raw = Score(memo)
    BY <2>1, <2>4 DEF GoodMemo
  <2>6. Score(u) >= Score(memo) /\ Score(u) \in Nat /\ Score(memo) \in Nat
    BY <1>8, <2>1, <2>2, <2>5, ReplayMarks, ScoreNat
  <2>7. QED
    BY <1>7, <1>9, <2>3, <2>5, <2>6
<1>12. ASSUME u \in ToSet(TreeFinds(step, page)) PROVE FALSE
  BY <1>9, <1>12, TreeMarks
<1>13. ASSUME u \in ToSet(TextFinds(page)) PROVE FALSE
  BY <1>7, <1>9, <1>13, TextMarks DEF Role
<1>14. u \in ToSet(t2)
  BY <1>3, <1>10, <1>11, <1>12, <1>13 DEF TierOneLeft
<1>15. u.raw \in {8200, 7200, 6200}
  BY <1>1, <1>14, TierTwoHolds, FuzzyMarks
<1>16. u.raw > c.raw
  BY <1>7, <1>9, <1>15
<1>17. QED
  BY <1>9, <1>14, <1>16

Hopeless(page, step) ==
    \A m : /\ m = NoMemo \/ (m \in Candidate /\ m.ref[1] = "css")
           /\ Offline(page, step, m).kind = "resolved"
           => Offline(page, step, m).target.ref[1] = "css"

LEMMA FailedIsHopeless ==
    ASSUME NEW page \in Seq(Element), NEW step, StepOK(step), ~DropdownIntent(step),
           NEW memo, GoodMemo(memo),
           Offline(page, step, memo).kind \in {"not_found", "low_confidence"}
    PROVE  Hopeless(page, step)
<1> SUFFICES ASSUME NEW m, m = NoMemo \/ (m \in Candidate /\ m.ref[1] = "css"),
                    Offline(page, step, m).kind = "resolved"
             PROVE  Offline(page, step, m).target.ref[1] = "css"
  BY DEF Hopeless
<1> DEFINE t2 == TierResult(page, step, memo, 2)
<1>1. MemoOK(memo) /\ MemoOK(m)
  BY DEF GoodMemo, MemoOK
<1>2. ~Reaches(TierResult(page, step, memo, 1), 8500) /\ ~Reaches(t2, 7000)
  BY <1>1, Undecided
<1>3. step.selector = NoName
  BY <1>1, <1>2, TierOneUndecided DEF TierOneLeft
<1>4. PICK c \in Candidate : Offline(page, step, m).target = Ranked(c) /\ Deciding(page, step, m, c)
  BY <1>1, Decided
<1>5. TierResult(page, step, m, 2) = t2
  BY <1>1, TierTwoHolds
<1>6. ASSUME c.ref[1] # "css" PROVE FALSE
  <2>1. \A f \in ToSet(t2) : ~(Score(f) >= 7000)
    <3>1. t2 \in Seq(Candidate) /\ 7000 \in Nat
      BY <1>1, TiersType
    <3>2. QED
      BY <1>2, <3>1, NotReached
  <2>2. Score(c) \in Nat
    BY ScoreNat
  <2>3. \/ c \in ToSet(TierResult(page, step, m, 1)) /\ Score(c) >= 8500
        \/ c \in ToSet(FinalDedupe(Every(page, step, m))) /\ Score(c) >= 7000
    BY <1>2, <1>4, <1>5 DEF Deciding
  <2>4. Score(c) >= 7000
    BY <2>2, <2>3
  <2>5. ToSet(Every(page, step, m)) = ToSet(TierResult(page, step, m, 1)) \union ToSet(t2)
        /\ \A x \in ToSet(FinalDedupe(Every(page, step, m))) : x \in ToSet(Every(page, step, m))
    BY <1>1, <1>5, TiersType
  <2>6. c \in ToSet(TierResult(page, step, m, 1))
    BY <2>1, <2>3, <2>4, <2>5
  <2>7. c \notin ToSet(ExplicitFinds(step))
    BY <1>3 DEF ExplicitFinds, ToSet
  <2>8. c \notin ToSet(TextFinds(page))
    BY <2>4, TextMarks
  <2>9. c \notin ToSet(MemoryFinds(m))
    <3>1. ASSUME c \in ToSet(MemoryFinds(m)) PROVE FALSE
      <4>1. m # NoMemo /\ c = Replay(m)
        BY <3>1 DEF MemoryFinds, ToSet
      <4>2. QED
        BY <1>6, <4>1, ReplayMarks
    <3>2. QED
      BY <3>1
  <2>10. c \in ToSet(TreeFinds(step, page))
    BY <1>1, <2>6, <2>7, <2>8, <2>9, TierOneHolds
  <2>11. PICK f \in ToSet(t2) : f.ref = c.ref /\ f.raw > c.raw
    BY <2>4, <2>10, Outbid
  <2>12. f.raw \in {8200, 7200, 6200} /\ c.raw \in Nat
    BY <1>1, TierTwoHolds, FuzzyMarks, RawNat
  <2>13. ~(Score(c) >= 8500)
    BY <2>10, <2>11, <2>12, TreeMarks
  <2>14. c.raw >= f.raw
    <3>1. Every(page, step, m) \in Seq(Candidate) /\ f \in ToSet(Every(page, step, m)) /\ Candidate \in SUBSET Candidate
      BY <1>1, <2>5, TiersType
    <3>2. c \in ToSet(FinalDedupe(Every(page, step, m)))
      BY <2>3, <2>13
    <3>3. QED
      BY <2>11, <3>1, <3>2, FinalDedupeKeeps
  <2>15. QED
    BY <2>11, <2>12, <2>14
<1>7. Ranked(c).ref = c.ref
  BY RankedScore
<1>8. QED
  BY <1>4, <1>6, <1>7

-----------------------------------------------------------------------------
\* The invariant: where the targets of a call in progress come from, what it has
\* tried, and what the rows say of them.

IsMemo(m) == m = [target |-> m.target, healing |-> m.healing] /\ m.target \in Candidate

IsForeign(m) ==
    m.target.ref[1] # "css" /\ m.target.ref[2] \in Label /\ Foreign(m.target.ref[2])

\* A foreign target is known to be one: it was matched fuzzily, or its row says so.
Sound(m) ==
    IsForeign(m) => \/ m.target.by = "fuzzy_text"
                    \/ m.target.by = "memory_cache" /\ m.healing = "review"
Noted(m) == IsForeign(m) => m.healing = "review"

Acting     == {"execute", "heal", "heal_execute", "net", "net_execute"}
Recovering == {"recover_ground", "reground", "recover_execute", "recover_again"}

CallShape(c) ==
    /\ c = [ pc |-> c.pc, ctx |-> c.ctx, tries |-> c.tries, safety |-> c.safety,
             memo |-> c.memo, alt |-> c.alt, tried |-> c.tried, status |-> c.status ]
    /\ c.ctx \in Context /\ c.safety \in {Safety, NoRef}

\* The safety net is only ever aimed at as such.
Aims(c) ==
    /\ c.pc \in Acting => IsMemo(c.memo) /\ (c.memo.target.by = "fallback_selector" => c.memo.target.ref = c.safety)
    /\ c.pc \in {"recover_execute", "recover_again"} => IsMemo(c.memo)
    /\ c.pc \in {"heal_execute", "net_execute"} => IsMemo(c.alt) /\ c.alt.target.ref[1] = "css"
    /\ c.pc = "net_execute" => c.alt.target.ref = c.safety

Tried(c) ==
    /\ c.pc \in {"heal", "heal_execute", "net", "net_execute"} => c.memo.target.ref \in c.tried
    /\ c.pc \in Recovering => c.safety = NoRef
    /\ c.pc = "done" /\ c.status = "failed" /\ c.safety # NoRef => c.safety \in c.tried

Reported(c) ==
    /\ c.pc \notin Recovering
    /\ c.pc \in Acting => Sound(c.memo)
    /\ c.pc = "done" /\ c.status = "passed" => ~IsForeign(c.memo)

CallFits(c, recovers) == CallShape(c) /\ Aims(c) /\ Tried(c) /\ (~recovers => Reported(c))

RowFits(m, recovers) == m = NoMemo \/ (IsMemo(m) /\ (~recovers => Noted(m)))

RInv ==
    /\ suite \in Suites /\ live \in Page
    /\ rows = [s \in Signatures |-> rows[s]]
    /\ \A s \in Signatures : RowFits(rows[s], suite.recovers)
    /\ CallFits(call, suite.recovers)

-----------------------------------------------------------------------------
LEMMA ShotType ==
    ASSUME NEW page \in Page \union {NoPage}
    PROVE  Shot(page) \in Context /\ Shot(page).page = page
  BY DEF Shot, Context, Signatures

LEMMA NewCallFits ==
    ASSUME NEW page \in Page \union {NoPage}, NEW safety \in {Safety, NoRef}, NEW recovers,
           NEW pc \in {"idle", "pin", "recover_ground"},
           pc = "recover_ground" => safety = NoRef /\ recovers
    PROVE  CallFits(NewCall(pc, Shot(page), safety), recovers)
<1>1. Shot(page) \in Context
  BY ShotType
<1>2. QED
  BY <1>1 DEF CallFits, CallShape, Aims, Tried, Reported, Acting, Recovering, NewCall

LEMMA RunnerInitially == Init => RInv
<1> SUFFICES ASSUME Init PROVE RInv
  OBVIOUS
<1>1. suite \in Suites /\ live \in Page
  BY StepRunnerAssumption DEF Init
<1>2. CallFits(call, suite.recovers)
  BY NewCallFits DEF Init
<1>3. QED
  BY <1>1, <1>2 DEF Init, RInv, RowFits

\* A step of the call that records nothing.
LEMMA CallMoves ==
    ASSUME RInv, UNCHANGED <<suite, live, rows>>, CallFits(call', suite.recovers)
    PROVE  RInv'
  BY DEF RInv

LEMMA DomType ==
    ASSUME RInv
    PROVE  /\ \A ref \in DomRefs :
                 /\ IsMemo(Pinned(ref)) /\ IsMemo(Clickable(ref)) /\ ref[1] = "css"
                 /\ Pinned(ref).target.ref = ref /\ Pinned(ref).target.by = "dom_pin"
                 /\ Clickable(ref).target.ref = ref /\ Clickable(ref).target.by = "clickable_dom"
           /\ call.safety # NoRef => /\ IsMemo(SafetyNet) /\ SafetyNet.target.ref = call.safety
                                     /\ call.safety[1] = "css"
<1>1. ASSUME NEW ref \in Ref, NEW n \in Bp, NEW role \in Role \union {NoRole}, NEW by \in Resolver
      PROVE  Dom(ref, n, role, by) \in Candidate
  BY DEF Dom, Candidate, Resolver, NoSignals, Signals, Bp
<1>2. 9000 \in Bp /\ 7500 \in Bp /\ 5000 \in Bp /\ "button" \in Role
  BY DEF Bp, Role
<1>3. ASSUME NEW ref \in DomRefs PROVE ref \in Ref /\ ref[1] = "css"
  <2>1. live \in Seq(Element)
    BY StepRunnerAssumption DEF RInv
  <2>2. PICK i \in DOMAIN live : ref = <<"css", live[i].label>>
    BY DEF DomRefs
  <2>3. live[i] \in Element
    BY <2>1
  <2>4. live[i].label \in Label \union {NoName}
    BY <2>3 DEF Element
  <2>5. QED
    BY <2>2, <2>4 DEF Ref
<1>4. call.safety # NoRef => call.safety \in Ref /\ call.safety[1] = "css"
  BY StepRunnerAssumption DEF RInv, CallFits, CallShape
<1>5. \A target \in Candidate : IsMemo(Fresh(target)) /\ Fresh(target).target = target
  BY DEF Fresh, IsMemo
<1>6. \A ref, n, role, by : Dom(ref, n, role, by).ref = ref /\ Dom(ref, n, role, by).by = by
  BY DEF Dom
<1>7. {"dom_pin", "clickable_dom", "fallback_selector"} \subseteq Resolver
  BY DEF Resolver
<1>8. ASSUME NEW ref \in DomRefs
      PROVE  /\ IsMemo(Pinned(ref)) /\ IsMemo(Clickable(ref)) /\ ref[1] = "css"
             /\ Pinned(ref).target.ref = ref /\ Pinned(ref).target.by = "dom_pin"
             /\ Clickable(ref).target.ref = ref /\ Clickable(ref).target.by = "clickable_dom"
  <2>1. ref \in Ref /\ ref[1] = "css"
    BY <1>3
  <2>2. Dom(ref, 9000, NoRole, "dom_pin") \in Candidate /\ Dom(ref, 7500, "button", "clickable_dom") \in Candidate
    BY <1>1, <1>2, <1>7, <2>1
  <2>3. QED
    BY <1>5, <1>6, <2>1, <2>2 DEF Pinned, Clickable
<1>9. ASSUME call.safety # NoRef
      PROVE  IsMemo(SafetyNet) /\ SafetyNet.target.ref = call.safety /\ call.safety[1] = "css"
  <2>1. Dom(call.safety, 5000, NoRole, "fallback_selector") \in Candidate
    <3>1. ASSUME NEW ref \in Ref PROVE Dom(ref, 5000, NoRole, "fallback_selector") \in Candidate
      <4>1. "fallback_selector" \in Resolver
        BY <1>7
      <4>2. NoRole \in Role \union {NoRole} /\ 5000 \in Bp
        BY <1>2
      <4>3. QED
        BY <1>1, <4>1, <4>2
    <3>2. QED
      BY <1>4, <1>9, <3>1
  <2> DEFINE d == Dom(call.safety, 5000, NoRole, "fallback_selector")
  <2>2. d \in Candidate /\ d.ref = call.safety /\ SafetyNet = Fresh(d)
    BY <1>6, <2>1 DEF SafetyNet
  <2> HIDE DEF d
  <2>3. QED
    BY <1>4, <1>5, <1>9, <2>2
<1>10. QED
  BY <1>8, <1>9

\* Grounding.
LEMMA GroundedFits ==
    ASSUME RInv, NEW step, StepOK(step),
           NEW outcome, outcome = Offline(call.ctx.page, step, RecordedAt(call.ctx.sig)), outcome.kind = "resolved"
    PROVE  /\ IsMemo(Grounded(outcome.target))
           /\ Grounded(outcome.target).target.by # "fallback_selector"
           /\ ~suite.recovers => Sound(Grounded(outcome.target))
<1> DEFINE sig  == call.ctx.sig
           memo == RecordedAt(sig)
           m    == Grounded(outcome.target)
<1>1. call.ctx.page \in Seq(Element) /\ sig \in Signatures
  <2>1. call.ctx.page \in Page \union {NoPage} /\ sig \in Signatures
    BY DEF RInv, CallFits, CallShape, Context
  <2>2. Page \subseteq Seq(Element) /\ NoPage \in Seq(Element)
    BY StepRunnerAssumption DEF NoPage
  <2>3. QED
    BY <2>1, <2>2
<1>2. RowFits(rows[sig], suite.recovers)
  BY <1>1 DEF RInv
<1>3. MemoOK(memo)
  BY <1>2 DEF RecordedAt, MemoOK, RowFits, IsMemo
<1>4. outcome.target \in Apt(call.ctx.page, step, memo)
  BY <1>1, <1>3, OfflineApt
<1>5. m = [target |-> outcome.target, healing |-> m.healing] /\ IsMemo(m)
  BY <1>4 DEF Grounded, IsMemo, Apt
<1>6. outcome.target.by # "fallback_selector"
  BY <1>4 DEF Apt
<1>7. ASSUME ~suite.recovers, IsForeign(m)
      PROVE  m.target.by = "fuzzy_text" \/ (m.target.by = "memory_cache" /\ m.healing = "review")
  <2>1. /\ m.target = outcome.target
        /\ m.target.by = "memory_cache" => m.healing = rows[sig].healing
    BY DEF Grounded
  <2>2. CASE m.target.by = "memory_cache" /\ memo # NoMemo /\ m.target.ref = memo.ref
    <3>1. rows[sig] # NoMemo /\ memo = rows[sig].target
      BY <2>2 DEF RecordedAt
    <3>2. IsForeign(rows[sig])
      BY <1>7, <2>2, <3>1 DEF IsForeign
    <3>3. rows[sig].healing = "review"
      BY <1>2, <1>7, <3>1, <3>2 DEF RowFits, Noted
    <3>4. QED
      BY <2>1, <2>2, <3>3
  <2>3. CASE m.target.by # "memory_cache" \/ memo = NoMemo \/ m.target.ref # memo.ref
    <3>1. m.target.ref[1] # "css" /\ ~NamedBy(m.target.ref)
      BY <1>7 DEF IsForeign, Foreign, NamedBy
    <3> HIDE DEF memo, m
    <3>2. QED
      BY <1>4, <2>1, <2>3, <3>1 DEF Apt, FromMemory
  <2>4. QED
    BY <2>2, <2>3
<1>8. QED
  BY <1>5, <1>6, <1>7 DEF Sound

-----------------------------------------------------------------------------
\* What a successful execution records says what it should.
LEMMA SucceedKeeps ==
    ASSUME RInv, UNCHANGED <<suite, live>>, NEW m, IsMemo(m), NEW healed \in BOOLEAN, Succeed(m, healed),
           ~suite.recovers => Sound(m) /\ call.pc \notin Recovering
    PROVE  RInv'
<1> DEFINE a == Advised(m)
<1>1. IsMemo(a) /\ a.target = m.target
  BY DEF Advised, IsMemo
<1>2. ASSUME ~suite.recovers, IsForeign(m) PROVE Advice(m) = "review" /\ a.healing = "review"
  <2>1. Drift[m.target.ref[2]] = "review"
    BY <1>2 DEF IsForeign, Foreign
  <2>2. Advice(m) = "review"
    BY <1>2, <2>1 DEF Sound, Advice
  <2>3. QED
    BY <2>2 DEF Advised, IsMemo
<1>3. ~suite.recovers => Noted(a)
  BY <1>1, <1>2 DEF Noted, IsForeign
<1>4. rows' = rows \/ rows' = [rows EXCEPT ![call.ctx.sig] = a]
  BY DEF Succeed, Record
<1>5. CallShape(call)
  BY DEF RInv, CallFits
<1>6. /\ call'.pc = "done" /\ call'.memo = a /\ call'.safety = call.safety
      /\ call'.status = IF healed \/ Advice(m) = "review" THEN "recovered" ELSE "passed"
      /\ CallShape(call')
  BY <1>5 DEF Succeed, End, CallShape
<1> HIDE DEF a
<1>7. CallFits(call', suite.recovers)
  <2>1. ~suite.recovers /\ call'.status = "passed" => ~IsForeign(call'.memo)
    BY <1>1, <1>2, <1>6 DEF IsForeign
  <2>2. QED
    BY <1>6, <2>1 DEF CallFits, Aims, Tried, Reported, Acting, Recovering
<1>8. \A s \in Signatures : RowFits(rows'[s], suite.recovers)
  BY <1>1, <1>3, <1>4 DEF RInv, RowFits
<1>9. rows' = [s \in Signatures |-> rows'[s]]
  BY <1>4 DEF RInv
<1>10. QED
  BY <1>7, <1>8, <1>9 DEF RInv

LEMMA CallIs ==
    ASSUME RInv
    PROVE  /\ CallShape(call) /\ Aims(call) /\ Tried(call) /\ (~suite.recovers => Reported(call))
           /\ live \in Page
  BY DEF RInv, CallFits

LEMMA PreResolveKeeps == ASSUME RInv, PreResolve PROVE RInv'
<1>1. CallShape(call) /\ (~suite.recovers => Reported(call))
  BY CallIs
<1>2. CASE Goto("ground")
  <2>1. CallFits(call', suite.recovers)
    BY <1>1, <1>2 DEF Goto, CallFits, CallShape, Aims, Tried, Reported, Acting, Recovering
  <2>2. QED
    BY <2>1, CallMoves DEF PreResolve
<1>3. ASSUME NEW ref \in DomRefs, Execute("execute", Pinned(ref)) PROVE RInv'
  <2>1. IsMemo(Pinned(ref)) /\ Pinned(ref).target.by # "fallback_selector" /\ ~IsForeign(Pinned(ref))
    BY DomType DEF IsForeign
  <2>2. CallFits(call', suite.recovers)
    BY <1>1, <1>3, <2>1 DEF Execute, CallFits, CallShape, Aims, Tried, Reported, Acting, Recovering, Sound
  <2>3. QED
    BY <2>2, CallMoves DEF PreResolve
<1>4. ASSUME NEW ref \in DomRefs, End("passed", Pinned(ref), {}) PROVE RInv'
  <2>1. ~IsForeign(Pinned(ref))
    BY DomType DEF IsForeign
  <2>2. CallFits(call', suite.recovers)
    BY <1>1, <1>4, <2>1 DEF End, CallFits, CallShape, Aims, Tried, Reported, Acting, Recovering
  <2>3. QED
    BY <2>2, CallMoves DEF PreResolve
<1>5. QED
  BY <1>2, <1>3, <1>4 DEF PreResolve

LEMMA GroundKeeps == ASSUME RInv, Ground PROVE RInv'
<1> DEFINE outcome == Offline(call.ctx.page, Step, RecordedAt(call.ctx.sig))
<1>1. CallShape(call) /\ (~suite.recovers => Reported(call)) /\ call.pc = "ground"
  BY CallIs DEF Ground
<1>2. ASSUME outcome.kind = "resolved", Execute("execute", Grounded(outcome.target)) PROVE RInv'
  <2>1. StepOK(Step)
    BY StepRunnerAssumption DEF StepOK
  <2>2. /\ IsMemo(Grounded(outcome.target)) /\ Grounded(outcome.target).target.by # "fallback_selector"
        /\ ~suite.recovers => Sound(Grounded(outcome.target))
    BY <1>2, <2>1, GroundedFits
  <2> HIDE DEF outcome
  <2>3. CallFits(call', suite.recovers)
    BY <1>1, <1>2, <2>2 DEF Execute, CallFits, CallShape, Aims, Tried, Reported, Acting, Recovering
  <2>4. QED
    BY <2>3, CallMoves DEF Ground
<1>3. ASSUME call' = [call EXCEPT !.pc = "wait", !.tries = @ + 1] PROVE RInv'
  <2>1. CallFits(call', suite.recovers)
    BY <1>1, <1>3 DEF CallFits, CallShape, Aims, Tried, Reported, Acting, Recovering
  <2>2. QED
    BY <2>1, CallMoves DEF Ground
<1>4. ASSUME Goto("fallback") PROVE RInv'
  <2>1. CallFits(call', suite.recovers)
    BY <1>1, <1>4 DEF Goto, CallFits, CallShape, Aims, Tried, Reported, Acting, Recovering
  <2>2. QED
    BY <2>1, CallMoves DEF Ground
<1>5. QED
  BY <1>2, <1>3, <1>4 DEF Ground

LEMMA RecollectKeeps == ASSUME RInv, Recollect PROVE RInv'
<1>1. CallShape(call) /\ (~suite.recovers => Reported(call)) /\ live \in Page
  BY CallIs
<1>2. PICK page \in {live, NoPage} : call' = [call EXCEPT !.pc = "ground", !.ctx = Merge(@, Shot(page))]
  BY DEF Recollect
<1>3. Shot(page) \in Context /\ call.ctx \in Context
  BY <1>1, ShotType DEF CallShape
<1>4. Merge(call.ctx, Shot(page)) \in Context
  BY <1>3 DEF Merge, Context
<1>5. CallFits(call', suite.recovers)
  BY <1>1, <1>2, <1>4 DEF CallFits, CallShape, Aims, Tried, Reported, Acting, Recovering
<1>6. QED
  BY <1>5, CallMoves DEF Recollect

LEMMA FallBackKeeps == ASSUME RInv, FallBack PROVE RInv'
<1>1. CallShape(call) /\ (~suite.recovers => Reported(call))
  BY CallIs
<1>2. ASSUME NEW ref \in DomRefs, Execute("execute", Clickable(ref)) PROVE RInv'
  <2>1. IsMemo(Clickable(ref)) /\ Clickable(ref).target.by # "fallback_selector" /\ ~IsForeign(Clickable(ref))
    BY DomType DEF IsForeign
  <2>2. CallFits(call', suite.recovers)
    BY <1>1, <1>2, <2>1 DEF Execute, CallFits, CallShape, Aims, Tried, Reported, Acting, Recovering, Sound
  <2>3. QED
    BY <2>2, CallMoves DEF FallBack
<1>3. ASSUME call.safety # NoRef, Execute("execute", SafetyNet) PROVE RInv'
  <2>1. IsMemo(SafetyNet) /\ SafetyNet.target.ref = call.safety /\ ~IsForeign(SafetyNet)
    BY <1>3, DomType DEF IsForeign
  <2>2. CallFits(call', suite.recovers)
    BY <1>1, <1>3, <2>1 DEF Execute, CallFits, CallShape, Aims, Tried, Reported, Acting, Recovering, Sound
  <2>3. QED
    BY <2>2, CallMoves DEF FallBack
<1>4. ASSUME call.safety = NoRef, EndFailed(NoMemo, call.tried) PROVE RInv'
  <2>1. CallFits(call', suite.recovers)
    BY <1>1, <1>4 DEF EndFailed, End, CallFits, CallShape, Aims, Tried, Reported, Acting, Recovering
  <2>2. QED
    BY <2>1, CallMoves DEF FallBack
<1>5. QED
  BY <1>2, <1>3, <1>4 DEF FallBack

LEMMA ExecuteTargetKeeps == ASSUME RInv, ExecuteTarget PROVE RInv'
<1>1. /\ CallShape(call) /\ Aims(call) /\ Tried(call) /\ (~suite.recovers => Reported(call))
      /\ call.pc = "execute"
  BY CallIs DEF ExecuteTarget
<1>2. IsMemo(call.memo) /\ (~suite.recovers => Sound(call.memo))
  BY <1>1 DEF Aims, Reported, Acting
<1>3. CASE Answers(call.memo.target.ref)
  BY <1>1, <1>2, <1>3, SucceedKeeps DEF ExecuteTarget, Recovering
<1>4. CASE ~Answers(call.memo.target.ref)
  <2>1. call' = [call EXCEPT !.pc = "heal", !.tried = @ \union {call.memo.target.ref}]
    BY <1>4 DEF ExecuteTarget
  <2>2. CallFits(call', suite.recovers)
    BY <1>1, <2>1 DEF CallFits, CallShape, Aims, Tried, Reported, Acting, Recovering
  <2>3. QED
    BY <1>4, <2>2, CallMoves DEF ExecuteTarget
<1>5. QED
  BY <1>3, <1>4

LEMMA HealKeeps == ASSUME RInv, Heal PROVE RInv'
<1>1. /\ CallShape(call) /\ Aims(call) /\ Tried(call) /\ (~suite.recovers => Reported(call))
      /\ call.pc = "heal"
  BY CallIs DEF Heal
<1>2. CASE Goto("net")
  <2>1. CallFits(call', suite.recovers)
    BY <1>1, <1>2 DEF Goto, CallFits, CallShape, Aims, Tried, Reported, Acting, Recovering
  <2>2. QED
    BY <2>1, CallMoves DEF Heal
<1>3. ASSUME NEW ref \in DomRefs, Instead("heal_execute", Clickable(ref)) PROVE RInv'
  <2>1. IsMemo(Clickable(ref)) /\ Clickable(ref).target.ref[1] = "css"
    BY DomType
  <2>2. CallFits(call', suite.recovers)
    BY <1>1, <1>3, <2>1 DEF Instead, CallFits, CallShape, Aims, Tried, Reported, Acting, Recovering
  <2>3. QED
    BY <2>2, CallMoves DEF Heal
<1>4. QED
  BY <1>2, <1>3 DEF Heal

LEMMA HealExecuteKeeps == ASSUME RInv, HealExecute PROVE RInv'
<1>1. /\ CallShape(call) /\ Aims(call) /\ Tried(call) /\ (~suite.recovers => Reported(call))
      /\ call.pc = "heal_execute"
  BY CallIs DEF HealExecute
<1>2. IsMemo(call.alt) /\ call.alt.target.ref[1] = "css"
  BY <1>1 DEF Aims
<1>3. CASE Answers(call.alt.target.ref)
  <2> DEFINE m == [call.alt EXCEPT !.healing = "execution"]
  <2>1. IsMemo(m) /\ m.target = call.alt.target
    BY <1>2 DEF IsMemo
  <2>2. Succeed(m, TRUE) /\ UNCHANGED <<suite, live>>
    BY <1>3 DEF HealExecute
  <2> HIDE DEF m
  <2>3. Sound(m)
    BY <1>2, <2>1 DEF Sound, IsForeign
  <2>4. QED
    BY <1>1, <2>1, <2>2, <2>3, SucceedKeeps DEF Recovering
<1>4. CASE ~Answers(call.alt.target.ref)
  <2>1. call' = [call EXCEPT !.pc = "net", !.tried = @ \union {call.alt.target.ref}]
    BY <1>4 DEF HealExecute
  <2>2. CallFits(call', suite.recovers)
    BY <1>1, <2>1 DEF CallFits, CallShape, Aims, Tried, Reported, Acting, Recovering
  <2>3. QED
    BY <1>4, <2>2, CallMoves DEF HealExecute
<1>5. QED
  BY <1>3, <1>4

\* The safety net is passed over only when there is none, or when it has failed
\* already.
LEMMA NetKeeps == ASSUME RInv, Net PROVE RInv'
<1>1. /\ CallShape(call) /\ Aims(call) /\ Tried(call) /\ (~suite.recovers => Reported(call))
      /\ call.pc = "net"
  BY CallIs DEF Net
<1>2. ASSUME NetUsable, Instead("net_execute", SafetyNet) PROVE RInv'
  <2>1. IsMemo(SafetyNet) /\ SafetyNet.target.ref = call.safety /\ call.safety[1] = "css"
    BY <1>2, DomType DEF NetUsable
  <2>2. CallFits(call', suite.recovers)
    BY <1>1, <1>2, <2>1 DEF Instead, CallFits, CallShape, Aims, Tried, Reported, Acting, Recovering
  <2>3. QED
    BY <2>2, CallMoves DEF Net
<1>3. ASSUME ~NetUsable, EndFailed(call.memo, call.tried) PROVE RInv'
  <2>1. call.safety # NoRef => call.safety \in call.tried
    BY <1>1, <1>3 DEF NetUsable, Aims, Tried, Acting
  <2>2. CallFits(call', suite.recovers)
    BY <1>1, <1>3, <2>1 DEF EndFailed, End, CallFits, CallShape, Aims, Tried, Reported, Acting, Recovering
  <2>3. QED
    BY <2>2, CallMoves DEF Net
<1>4. QED
  BY <1>2, <1>3 DEF Net

LEMMA NetExecuteKeeps == ASSUME RInv, NetExecute PROVE RInv'
<1>1. /\ CallShape(call) /\ Aims(call) /\ Tried(call) /\ (~suite.recovers => Reported(call))
      /\ call.pc = "net_execute"
  BY CallIs DEF NetExecute
<1>2. IsMemo(call.alt) /\ call.alt.target.ref[1] = "css" /\ call.alt.target.ref = call.safety
  BY <1>1 DEF Aims
<1>3. CASE Answers(call.alt.target.ref)
  <2>1. Sound(call.alt)
    BY <1>2 DEF Sound, IsForeign
  <2>2. QED
    BY <1>1, <1>2, <1>3, <2>1, SucceedKeeps DEF NetExecute, Recovering
<1>4. CASE ~Answers(call.alt.target.ref)
  <2>1. EndFailed(call.memo, call.tried \union {call.safety})
    BY <1>2, <1>4 DEF NetExecute
  <2>2. CallFits(call', suite.recovers)
    BY <1>1, <2>1 DEF EndFailed, End, CallFits, CallShape, Aims, Tried, Reported, Acting, Recovering
  <2>3. QED
    BY <1>4, <2>2, CallMoves DEF NetExecute
<1>5. QED
  BY <1>3, <1>4

-----------------------------------------------------------------------------
LEMMA RecoverGroundKeeps == ASSUME RInv, RecoverGround PROVE RInv'
<1>1. /\ CallShape(call) /\ Tried(call) /\ call.pc \in {"recover_ground", "reground"}
      /\ suite.recovers /\ call.safety = NoRef
  BY CallIs DEF RecoverGround, Reported, Recovering, Tried
<1>2. PICK step, next : /\ GroundOnce(step, next)
                        /\ StepOK(step) /\ next \in {"recover_execute", "recover_again"}
  <2>1. StepOK(Step) /\ StepOK([Step EXCEPT !.selector = Selector])
    BY StepRunnerAssumption DEF StepOK, Intent
  <2>2. QED
    BY <2>1 DEF RecoverGround
<1> DEFINE outcome == Offline(call.ctx.page, step, RecordedAt(call.ctx.sig))
<1>3. CASE outcome.kind = "resolved" /\ Execute(next, Grounded(outcome.target))
  <2>1. IsMemo(Grounded(outcome.target))
    BY <1>2, <1>3, GroundedFits
  <2> HIDE DEF outcome
  <2>2. CallFits(call', suite.recovers)
    BY <1>1, <1>2, <1>3, <2>1 DEF Execute, CallFits, CallShape, Aims, Tried, Acting, Recovering
  <2>3. QED
    BY <2>2, CallMoves DEF RecoverGround
<1>4. CASE EndFailed(call.memo, call.tried)
  <2>1. CallFits(call', suite.recovers)
    BY <1>1, <1>4 DEF EndFailed, End, CallFits, CallShape, Aims, Tried, Acting, Recovering
  <2>2. QED
    BY <2>1, CallMoves DEF RecoverGround
<1>5. QED
  BY <1>2, <1>3, <1>4 DEF GroundOnce

LEMMA RecoverExecuteKeeps == ASSUME RInv, RecoverExecute PROVE RInv'
<1> DEFINE m == call.memo
           tried == call.tried \union {m.target.ref}
<1>1. /\ CallShape(call) /\ Tried(call) /\ call.pc \in {"recover_execute", "recover_again"}
      /\ suite.recovers /\ call.safety = NoRef /\ IsMemo(m)
  BY CallIs DEF RecoverExecute, Reported, Recovering, Tried, Aims
<1>2. ASSUME NEW status, NEW tr, End(status, m, tr) PROVE CallFits(call', suite.recovers)
  BY <1>1, <1>2 DEF End, CallFits, CallShape, Aims, Tried, Acting, Recovering
<1>3. CASE Answers(m.target.ref)
  <2>1. CallFits(call', suite.recovers) /\ Record(m) /\ UNCHANGED <<suite, live>>
    BY <1>2, <1>3 DEF RecoverExecute
  <2>2. RowFits(m, suite.recovers)
    BY <1>1 DEF RowFits
  <2> HIDE DEF m
  <2>3. QED
    BY <2>1, <2>2 DEF RInv, Record
<1>4. CASE ~Answers(m.target.ref)
  <2>1. \/ call' = [call EXCEPT !.pc = "reground", !.tried = tried]
        \/ End("failed", m, tried)
    BY <1>4 DEF RecoverExecute, EndFailed
  <2>2. ASSUME call' = [call EXCEPT !.pc = "reground", !.tried = tried] PROVE CallFits(call', suite.recovers)
    BY <1>1, <2>2 DEF CallFits, CallShape, Aims, Tried, Acting, Recovering
  <2>3. QED
    BY <1>2, <1>4, <2>1, <2>2, CallMoves DEF RecoverExecute
<1>5. QED
  BY <1>3, <1>4

LEMMA RunnerStep == RInv /\ [Next]_vars => RInv'
<1> SUFFICES ASSUME RInv, [Next]_vars PROVE RInv'
  OBVIOUS
<1>1. live \in Page /\ suite \in Suites
  BY DEF RInv
<1>2. CASE Act
  <2>1. CallFits(call', suite.recovers)
    BY <1>1, <1>2, NewCallFits DEF Act
  <2>2. QED
    BY <1>2, <2>1, CallMoves DEF Act
<1>3. CASE Recover
  <2>1. CallFits(call', suite.recovers)
    BY <1>1, <1>3, NewCallFits DEF Recover
  <2>2. QED
    BY <1>3, <2>1, CallMoves DEF Recover
<1>4. CASE Working
  BY <1>4, PreResolveKeeps, GroundKeeps, RecollectKeeps, FallBackKeeps, ExecuteTargetKeeps, HealKeeps,
     HealExecuteKeeps, NetKeeps, NetExecuteKeeps, RecoverGroundKeeps, RecoverExecuteKeeps DEF Working
<1>5. CASE PageChanges
  <2>1. live' \in Page
    BY <1>1, <1>5, StepRunnerAssumption DEF PageChanges
  <2>2. QED
    BY <1>5, <2>1 DEF PageChanges, RInv
<1>6. CASE UNCHANGED vars
  BY <1>6 DEF vars, RInv
<1>7. QED
  BY <1>2, <1>3, <1>4, <1>5, <1>6 DEF Next

LEMMA RunnerInvariant == Spec => []RInv
  BY RunnerInitially, RunnerStep, PTL DEF Spec

\* Whatever the page does meanwhile, a step on an element whose label shares no word
\* with it is not reported as plainly passed, when it is found nor when it is
\* replayed: every row that could replay it says that it was healed
\* (_resolve_healing_advisory, record_success).
THEOREM HealingIsVisible == Spec => []HealedStepsAreReported
<1>1. RInv => HealedStepsAreReported
  BY DEF RInv, CallFits, Reported, IsForeign, HealedStepsAreReported, Ended
<1>2. QED
  BY RunnerInvariant, <1>1, PTL

\* However a step with a fallback selector comes to fail, the selector has been
\* tried (_fallback_selector_target: after grounding, and after an execution).
THEOREM NoFailureWithoutSafetyNet == Spec => []SafetyNetTried
<1>1. RInv => SafetyNetTried
  BY DEF RInv, CallFits, Tried, SafetyNetTried, Ended
<1>2. QED
  BY RunnerInvariant, <1>1, PTL
-----------------------------------------------------------------------------
\* The invariant of the rows, for a step other than a dropdown's: a row's target
\* is a selector or an element listed by the signature, scored as it was picked.
\* The context of a call is a snapshot and its signature; only a call that has
\* failed on its page may look for the row of the empty page instead.

Listed(sig, ref) == \E e \in DOMAIN sig : e.label = ref[2] /\ ref[1] \in {e.role, "text"}

Belongs(t, sig) == t.ref[1] = "css" \/ (t.weighed /\ t.raw = Score(t) /\ Listed(sig, t.ref))

Placed(c) ==
    /\ \/ c.ctx.sig = Signature(c.ctx.page)
       \/ /\ c.ctx.sig = Signature(NoPage) /\ Hopeless(c.ctx.page, Step)
          /\ c.pc \notin Recovering
    /\ c.pc = "wait" => Hopeless(c.ctx.page, Step)
    /\ c.pc \in {"execute", "recover_execute", "recover_again"} => Belongs(c.memo.target, c.ctx.sig)

RowsBelong == \A s \in Signatures : rows[s] # NoMemo => Belongs(rows[s].target, s)

PInv == RInv /\ RowsBelong /\ Placed(call)

LEMMA ListedIs ==
    ASSUME NEW page, NEW ref
    PROVE  Listed(Signature(page), ref) <=> Matched(page, ref) # {}
<1>1. DOMAIN Signature(page) = {page[i] : i \in DOMAIN page}
  BY DEF Signature
<1>2. QED
  BY <1>1 DEF Listed, Matched

LEMMA NothingListed == \A ref : ~Listed(Signature(NoPage), ref)
<1>1. \A ref : Matched(NoPage, ref) = {}
  BY DEF Matched, NoPage
<1>2. QED
  BY <1>1, ListedIs

\* A target is scored, and found on the page or in the memory.
LEMMA TargetPlaced ==
    ASSUME NEW page \in Seq(Element), NEW step, StepOK(step), ~DropdownIntent(step), NEW memo, MemoOK(memo),
           Offline(page, step, memo).kind = "resolved"
    PROVE  LET t == Offline(page, step, memo).target
           IN  /\ t.weighed /\ t.raw = Score(t)
               /\ t.ref[1] = "css" \/ Matched(page, t.ref) # {} \/ (memo # NoMemo /\ t.ref = memo.ref)
<1> DEFINE t == Offline(page, step, memo).target
<1>1. t \in Apt(page, step, memo)
  BY OfflineApt
<1>2. PICK c \in Candidate : t = Ranked(c)
  BY Decided
<1> HIDE DEF t
<1>3. t.raw = Score(t)
  BY <1>2, RankedScore
<1>4. t.weighed /\ (t.ref[1] = "css" \/ Matched(page, t.ref) # {} \/ (memo # NoMemo /\ t.ref = memo.ref))
  BY <1>1 DEF Apt, FromMemory
<1>5. QED
  BY <1>3, <1>4 DEF t

LEMMA ContextIs ==
    ASSUME PInv, ~DropdownIntent(Step)
    PROVE  /\ call.ctx.page \in Seq(Element) /\ call.ctx.sig \in Signatures
           /\ MemoOK(RecordedAt(call.ctx.sig)) /\ GoodMemo(RecordedAt(call.ctx.sig))
           /\ RecordedAt(call.ctx.sig) # NoMemo => Belongs(RecordedAt(call.ctx.sig), call.ctx.sig)
           /\ CallShape(call) /\ Placed(call)
           /\ StepOK(Step) /\ StepOK([Step EXCEPT !.selector = Selector])
           /\ ~DropdownIntent([Step EXCEPT !.selector = Selector])
<1> DEFINE sig == call.ctx.sig
           m   == RecordedAt(sig)
<1>1. call.ctx.page \in Page \union {NoPage} /\ sig \in Signatures /\ CallShape(call) /\ Placed(call)
  BY DEF PInv, RInv, CallFits, CallShape, Context
<1>2. Page \subseteq Seq(Element) /\ NoPage \in Seq(Element)
  BY StepRunnerAssumption DEF NoPage
<1>3. RowFits(rows[sig], suite.recovers) /\ (rows[sig] # NoMemo => Belongs(rows[sig].target, sig))
  BY <1>1 DEF PInv, RInv, RowsBelong
<1>4. m = NoMemo \/ (m \in Candidate /\ Belongs(m, sig))
  BY <1>3 DEF RecordedAt, RowFits, IsMemo
<1>5. MemoOK(m) /\ GoodMemo(m)
  BY <1>4 DEF MemoOK, GoodMemo, Belongs
<1>6. StepOK(Step) /\ StepOK([Step EXCEPT !.selector = Selector])
  BY StepRunnerAssumption DEF StepOK, Intent
<1>7. ~DropdownIntent([Step EXCEPT !.selector = Selector])
  BY StepRunnerAssumption DEF Intent, DropdownIntent
<1>8. QED
  BY <1>1, <1>2, <1>4, <1>5, <1>6, <1>7

\* What a call grounds belongs to the row it will be recorded in.
LEMMA GroundedBelongs ==
    ASSUME PInv, ~DropdownIntent(Step), NEW step,
           step = Step \/ (step = [Step EXCEPT !.selector = Selector] /\ call.pc \in Recovering),
           Offline(call.ctx.page, step, RecordedAt(call.ctx.sig)).kind = "resolved"
    PROVE  Belongs(Grounded(Offline(call.ctx.page, step, RecordedAt(call.ctx.sig)).target).target, call.ctx.sig)
<1> DEFINE page == call.ctx.page
           sig == call.ctx.sig
           m   == RecordedAt(sig)
           t   == Offline(page, step, m).target
<1>1. /\ page \in Seq(Element) /\ sig \in Signatures /\ MemoOK(m)
      /\ m # NoMemo => m \in Candidate /\ Belongs(m, sig)
      /\ Placed(call) /\ StepOK(step) /\ ~DropdownIntent(step)
  BY ContextIs DEF MemoOK
<1>2. Grounded(t).target = t
  BY DEF Grounded
<1>3. CASE sig = Signature(page)
  <2>1. /\ t.weighed /\ t.raw = Score(t)
        /\ t.ref[1] = "css" \/ Matched(page, t.ref) # {} \/ (m # NoMemo /\ t.ref = m.ref)
    BY <1>1, TargetPlaced
  <2> HIDE DEF t, m, page, sig
  <2>2. t.ref[1] = "css" \/ Listed(sig, t.ref)
    BY <1>1, <1>3, <2>1, ListedIs DEF Belongs
  <2>3. QED
    BY <1>2, <2>1, <2>2 DEF Belongs, t, m, page, sig
<1>4. CASE sig # Signature(page)
  <2>1. sig = Signature(NoPage) /\ Hopeless(page, Step) /\ step = Step
    BY <1>1, <1>4 DEF Placed
  <2>2. m = NoMemo \/ (m \in Candidate /\ m.ref[1] = "css")
    BY <1>1, <2>1, NothingListed DEF Belongs
  <2>3. Offline(page, Step, m).kind = "resolved" /\ t = Offline(page, Step, m).target
    BY <2>1
  <2> HIDE DEF t, m, page, sig
  <2>4. t.ref[1] = "css"
    BY <2>1, <2>2, <2>3 DEF Hopeless
  <2>5. QED
    BY <1>2, <2>4 DEF Belongs, t, m, page, sig
<1>5. QED
  BY <1>3, <1>4

-----------------------------------------------------------------------------
\* A step of the call that records nothing.
LEMMA PlaceMoves ==
    ASSUME PInv, UNCHANGED rows, Placed(call')
    PROVE  RowsBelong' /\ Placed(call)'
  BY DEF PInv, RowsBelong

\* A step that ends the call, and may record what belongs to its row.
LEMMA EndPlaces ==
    ASSUME PInv, NEW status, NEW memo, NEW tried, End(status, memo, tried)
    PROVE  Placed(call') /\ call'.ctx = call.ctx
<1>1. CallShape(call) /\ Placed(call)
  BY DEF PInv, RInv, CallFits
<1>2. call'.ctx = call.ctx /\ call'.pc = "done"
  BY <1>1 DEF End, CallShape
<1>3. QED
  BY <1>1, <1>2 DEF Placed, Recovering

LEMMA RecordPlaces ==
    ASSUME PInv, NEW m, Belongs(m.target, call.ctx.sig), Record(m) \/ UNCHANGED rows
    PROVE  RowsBelong'
<1>1. rows' = rows \/ rows' = [rows EXCEPT ![call.ctx.sig] = m]
  BY DEF Record
<1>2. QED
  BY <1>1 DEF PInv, RInv, RowsBelong

LEMMA SucceedPlaces ==
    ASSUME PInv, NEW m, IsMemo(m), Belongs(m.target, call.ctx.sig), NEW healed, Succeed(m, healed)
    PROVE  RowsBelong' /\ Placed(call)'
<1> DEFINE a == Advised(m)
<1>1. a.target = m.target
  BY DEF Advised, IsMemo
<1>2. PICK status, tried : End(status, a, tried)
  BY DEF Succeed
<1>3. Record(a) \/ UNCHANGED rows
  BY DEF Succeed
<1> HIDE DEF a
<1>4. RowsBelong'
  BY <1>1, <1>3, RecordPlaces
<1>5. Placed(call')
  BY <1>2, EndPlaces
<1>6. QED
  BY <1>4, <1>5

LEMMA SelectorBelongs == \A m, sig : m.target.ref[1] = "css" => Belongs(m.target, sig)
  BY DEF Belongs
-----------------------------------------------------------------------------
LEMMA GroundPlaces ==
    ASSUME PInv, ~DropdownIntent(Step), Ground
    PROVE  RowsBelong' /\ Placed(call)'
<1> DEFINE outcome == Offline(call.ctx.page, Step, RecordedAt(call.ctx.sig))
<1>1. CallShape(call) /\ Placed(call) /\ call.pc = "ground" /\ UNCHANGED rows
  BY ContextIs DEF Ground
<1>2. ASSUME outcome.kind = "resolved", Execute("execute", Grounded(outcome.target)) PROVE Placed(call')
  <2>1. Belongs(Grounded(outcome.target).target, call.ctx.sig)
    BY <1>2, GroundedBelongs
  <2> HIDE DEF outcome
  <2>2. QED
    BY <1>1, <1>2, <2>1 DEF Execute, CallShape, Placed, Recovering
<1>3. ASSUME outcome.kind \in {"not_found", "low_confidence"}, call' = [call EXCEPT !.pc = "wait", !.tries = @ + 1]
      PROVE  Placed(call')
  <2>1. Hopeless(call.ctx.page, Step)
    BY <1>3, ContextIs, FailedIsHopeless
  <2>2. QED
    BY <1>1, <1>3, <2>1 DEF CallShape, Placed, Recovering
<1>4. ASSUME Goto("fallback") PROVE Placed(call')
  BY <1>1, <1>4 DEF Goto, CallShape, Placed, Recovering
<1>5. Placed(call')
  BY <1>2, <1>3, <1>4 DEF Ground
<1>6. QED
  BY <1>1, <1>5, PlaceMoves

LEMMA RecollectPlaces ==
    ASSUME PInv, ~DropdownIntent(Step), Recollect
    PROVE  RowsBelong' /\ Placed(call)'
<1>1. CallShape(call) /\ Placed(call) /\ call.pc = "wait" /\ UNCHANGED rows
  BY ContextIs DEF Recollect
<1>2. PICK page \in {live, NoPage} : call' = [call EXCEPT !.pc = "ground", !.ctx = Merge(@, Shot(page))]
  BY DEF Recollect
<1>3. Hopeless(call.ctx.page, Step)
  BY <1>1 DEF Placed
<1>4. /\ Merge(call.ctx, Shot(page)).sig = Signature(page)
      /\ Merge(call.ctx, Shot(page)).page = IF page = NoPage THEN call.ctx.page ELSE page
  BY DEF Merge, Shot
<1>5. call'.pc = "ground" /\ call'.ctx = Merge(call.ctx, Shot(page))
  BY <1>1, <1>2 DEF CallShape
<1>6. Placed(call')
  <2>1. CASE page = NoPage
    BY <1>3, <1>4, <1>5, <2>1 DEF Placed, Recovering
  <2>2. CASE page # NoPage
    BY <1>4, <1>5, <2>2 DEF Placed, Recovering
  <2>3. QED
    BY <2>1, <2>2
<1>7. QED
  BY <1>1, <1>6, PlaceMoves

LEMMA DomPlaces ==
    ASSUME PInv, PreResolve \/ FallBack
    PROVE  RowsBelong' /\ Placed(call)'
<1>1. CallShape(call) /\ Placed(call) /\ call.pc \in {"pin", "fallback"} /\ UNCHANGED rows
  BY DEF PInv, RInv, CallFits, PreResolve, FallBack
<1>2. /\ \A ref \in DomRefs : Pinned(ref).target.ref[1] = "css" /\ Clickable(ref).target.ref[1] = "css"
      /\ call.safety # NoRef => SafetyNet.target.ref[1] = "css"
  BY DomType DEF PInv
<1>3. CASE Goto("ground")
  <2>1. Placed(call')
    BY <1>1, <1>3 DEF Goto, CallShape, Placed, Recovering
  <2>2. QED
    BY <1>1, <2>1, PlaceMoves
<1>4. ASSUME NEW m, m.target.ref[1] = "css", Execute("execute", m) PROVE RowsBelong' /\ Placed(call)'
  <2>1. Belongs(m.target, call.ctx.sig)
    BY <1>4, SelectorBelongs
  <2>2. Placed(call')
    BY <1>1, <1>4, <2>1 DEF Execute, CallShape, Placed, Recovering
  <2>3. QED
    BY <1>1, <2>2, PlaceMoves
<1>5. ASSUME NEW status, NEW m, NEW tried, End(status, m, tried) PROVE RowsBelong' /\ Placed(call)'
  BY <1>1, <1>5, EndPlaces, PlaceMoves
<1>6. QED
  BY <1>2, <1>3, <1>4, <1>5 DEF PreResolve, FallBack, EndFailed

LEMMA ExecutePlaces ==
    ASSUME PInv, ExecuteTarget
    PROVE  RowsBelong' /\ Placed(call)'
<1>1. CallShape(call) /\ Placed(call) /\ call.pc = "execute" /\ IsMemo(call.memo)
  BY DEF PInv, RInv, CallFits, Aims, Acting, ExecuteTarget
<1>2. CASE Answers(call.memo.target.ref)
  <2>1. Belongs(call.memo.target, call.ctx.sig) /\ Succeed(call.memo, FALSE)
    BY <1>1, <1>2 DEF Placed, ExecuteTarget
  <2>2. QED
    BY <1>1, <2>1, SucceedPlaces
<1>3. CASE ~Answers(call.memo.target.ref)
  <2>1. /\ call' = [call EXCEPT !.pc = "heal", !.tried = @ \union {call.memo.target.ref}]
        /\ UNCHANGED rows
    BY <1>3 DEF ExecuteTarget
  <2>2. Placed(call')
    BY <1>1, <2>1 DEF CallShape, Placed, Recovering
  <2>3. QED
    BY <2>1, <2>2, PlaceMoves
<1>4. QED
  BY <1>2, <1>3

LEMMA HealPlaces ==
    ASSUME PInv, Heal \/ Net
    PROVE  RowsBelong' /\ Placed(call)'
<1>1. CallShape(call) /\ Placed(call) /\ call.pc \in {"heal", "net"} /\ UNCHANGED rows
  BY DEF PInv, RInv, CallFits, Heal, Net
<1>2. \/ Goto("net")
      \/ \E pc \in {"heal_execute", "net_execute"} : \E m : Instead(pc, m)
      \/ \E status, m, tried : End(status, m, tried)
  BY DEF Heal, Net, EndFailed
<1>3. Placed(call')
  <2>1. CASE Goto("net")
    BY <1>1, <2>1 DEF Goto, CallShape, Placed, Recovering
  <2>2. ASSUME NEW pc \in {"heal_execute", "net_execute"}, NEW m, Instead(pc, m) PROVE Placed(call')
    BY <1>1, <2>2 DEF Instead, CallShape, Placed, Recovering
  <2>3. QED
    BY <1>2, <2>1, <2>2, EndPlaces
<1>4. QED
  BY <1>1, <1>3, PlaceMoves

LEMMA InsteadPlaces ==
    ASSUME PInv, HealExecute \/ NetExecute
    PROVE  RowsBelong' /\ Placed(call)'
<1>1. /\ CallShape(call) /\ Placed(call) /\ call.pc \in {"heal_execute", "net_execute"}
      /\ IsMemo(call.alt) /\ call.alt.target.ref[1] = "css"
  BY DEF PInv, RInv, CallFits, Aims, HealExecute, NetExecute
<1> DEFINE healed == [call.alt EXCEPT !.healing = "execution"]
<1>2. IsMemo(healed) /\ healed.target = call.alt.target
  BY <1>1 DEF IsMemo
<1>3. Belongs(call.alt.target, call.ctx.sig) /\ Belongs(healed.target, call.ctx.sig)
  BY <1>1, <1>2, SelectorBelongs
<1> HIDE DEF healed
<1>4. CASE Answers(call.alt.target.ref)
  <2>1. Succeed(healed, TRUE) \/ Succeed(call.alt, FALSE)
    BY <1>4 DEF HealExecute, NetExecute, healed
  <2>2. QED
    BY <1>1, <1>2, <1>3, <2>1, SucceedPlaces
<1>5. CASE ~Answers(call.alt.target.ref)
  <2>1. /\ \/ call' = [call EXCEPT !.pc = "net", !.tried = @ \union {call.alt.target.ref}]
           \/ End("failed", call.memo, call.tried \union {call.alt.target.ref})
        /\ UNCHANGED rows
    BY <1>5 DEF HealExecute, NetExecute, EndFailed
  <2>2. ASSUME call' = [call EXCEPT !.pc = "net", !.tried = @ \union {call.alt.target.ref}] PROVE Placed(call')
    BY <1>1, <2>2 DEF CallShape, Placed, Recovering
  <2>3. Placed(call')
    BY <2>1, <2>2, EndPlaces
  <2>4. QED
    BY <2>1, <2>3, PlaceMoves
<1>6. QED
  BY <1>4, <1>5

LEMMA RecoverGroundPlaces ==
    ASSUME PInv, ~DropdownIntent(Step), RecoverGround
    PROVE  RowsBelong' /\ Placed(call)'
<1>1. CallShape(call) /\ Placed(call) /\ call.pc \in {"recover_ground", "reground"} /\ UNCHANGED rows
  BY ContextIs DEF RecoverGround
<1>2. call.ctx.sig = Signature(call.ctx.page)
  BY <1>1 DEF Placed, Recovering
<1>3. PICK step, next : /\ GroundOnce(step, next)
                        /\ step = Step \/ (step = [Step EXCEPT !.selector = Selector] /\ call.pc \in Recovering)
                        /\ next \in {"recover_execute", "recover_again"}
  BY DEF RecoverGround, Recovering
<1> DEFINE outcome == Offline(call.ctx.page, step, RecordedAt(call.ctx.sig))
<1>4. CASE outcome.kind = "resolved" /\ Execute(next, Grounded(outcome.target))
  <2>1. Belongs(Grounded(outcome.target).target, call.ctx.sig)
    BY <1>3, <1>4, GroundedBelongs
  <2> HIDE DEF outcome
  <2>2. Placed(call')
    BY <1>1, <1>2, <1>3, <1>4, <2>1 DEF Execute, CallShape, Placed
  <2>3. QED
    BY <1>1, <2>2, PlaceMoves
<1>5. CASE EndFailed(call.memo, call.tried)
  BY <1>1, <1>5, EndPlaces, PlaceMoves DEF EndFailed
<1>6. QED
  BY <1>3, <1>4, <1>5 DEF GroundOnce

LEMMA RecoverExecutePlaces ==
    ASSUME PInv, RecoverExecute
    PROVE  RowsBelong' /\ Placed(call)'
<1> DEFINE m == call.memo
           tried == call.tried \union {m.target.ref}
<1>1. /\ CallShape(call) /\ Placed(call) /\ call.pc \in {"recover_execute", "recover_again"}
      /\ Belongs(m.target, call.ctx.sig) /\ call.ctx.sig = Signature(call.ctx.page)
  BY DEF PInv, RInv, CallFits, RecoverExecute, Placed, Recovering
<1>2. CASE Answers(m.target.ref)
  <2>1. Record(m) /\ \E status : End(status, m, tried)
    BY <1>2 DEF RecoverExecute
  <2> HIDE DEF m
  <2>2. QED
    BY <1>1, <2>1, EndPlaces, RecordPlaces
<1>3. CASE ~Answers(m.target.ref)
  <2>1. /\ UNCHANGED rows
        /\ \/ call' = [call EXCEPT !.pc = "reground", !.tried = tried]
           \/ End("failed", m, tried)
    BY <1>3 DEF RecoverExecute, EndFailed
  <2>2. ASSUME call' = [call EXCEPT !.pc = "reground", !.tried = tried] PROVE Placed(call')
    BY <1>1, <2>2 DEF CallShape, Placed
  <2>3. Placed(call')
    BY <2>1, <2>2, EndPlaces
  <2>4. QED
    BY <2>1, <2>3, PlaceMoves
<1>4. QED
  BY <1>2, <1>3

LEMMA PlacesInitially == ~DropdownIntent(Step) /\ Init => PInv
<1> SUFFICES ASSUME Init PROVE PInv
  OBVIOUS
<1>1. RInv
  BY RunnerInitially
<1>2. RowsBelong
  BY DEF Init, RowsBelong
<1>3. Placed(call)
  BY DEF Init, Placed, NewCall, Shot
<1>4. QED
  BY <1>1, <1>2, <1>3 DEF PInv

LEMMA PlacesStep == ~DropdownIntent(Step) /\ PInv /\ [Next]_vars => PInv'
<1> SUFFICES ASSUME ~DropdownIntent(Step), PInv, [Next]_vars PROVE PInv'
  OBVIOUS
<1>1. RInv'
  BY RunnerStep DEF PInv
<1>2. RowsBelong' /\ Placed(call)'
  <2>1. CASE Act \/ Recover
    <3>1. UNCHANGED rows /\ \E pc \in {"pin", "recover_ground"} : \E page, safety : call' = NewCall(pc, Shot(page), safety)
      BY <2>1 DEF Act, Recover
    <3>2. Placed(call')
      BY <3>1 DEF Placed, NewCall, Shot
    <3>3. QED
      BY <3>1, <3>2, PlaceMoves
  <2>2. CASE Working
    BY <2>2, GroundPlaces, RecollectPlaces, DomPlaces, ExecutePlaces, HealPlaces, InsteadPlaces,
       RecoverGroundPlaces, RecoverExecutePlaces DEF Working
  <2>3. CASE PageChanges \/ UNCHANGED vars
    <3>1. UNCHANGED <<rows, call>>
      BY <2>3 DEF PageChanges, vars
    <3>2. QED
      BY <3>1 DEF PInv, RowsBelong
  <2>4. QED
    BY <2>1, <2>2, <2>3 DEF Next
<1>3. QED
  BY <1>1, <1>2 DEF PInv

\* However snapshots fail, are retried and grow stale before a target is recorded,
\* a row's target is an element of the page whose signature the row bears: where the
\* row of the empty page serves a page found before, that page yields selectors alone
\* (act: _collect_grounding_context, _merge_context, _ground_with_wait, record_success).
THEOREM RowsBelongToTheirPage == Spec => []RowsMatchTheirPage
<1>1. ~DropdownIntent(Step) /\ PInv => RowsMatchTheirPage
  <2> SUFFICES ASSUME PInv, NEW page \in Page \union {NoPage},
                      rows[Signature(page)] # NoMemo, rows[Signature(page)].target.ref[1] # "css"
               PROVE  Matched(page, rows[Signature(page)].target.ref) # {}
    BY DEF RowsMatchTheirPage
  <2>1. Signature(page) \in Signatures
    BY DEF Signatures
  <2>2. Listed(Signature(page), rows[Signature(page)].target.ref)
    BY <2>1 DEF PInv, RowsBelong, Belongs
  <2>3. QED
    BY <2>2, ListedIs
<1>2. DropdownIntent(Step) => RowsMatchTheirPage
  BY DEF RowsMatchTheirPage
<1>3. CASE DropdownIntent(Step)
  BY <1>2, <1>3, PTL
<1>4. CASE ~DropdownIntent(Step)
  <2>1. Init => PInv
    BY <1>4, PlacesInitially
  <2>2. PInv /\ [Next]_vars => PInv'
    BY <1>4, PlacesStep
  <2>3. PInv => RowsMatchTheirPage
    BY <1>1, <1>4
  <2>4. QED
    BY <2>1, <2>2, <2>3, PTL DEF Spec
<1>5. QED
  BY <1>3, <1>4
=============================================================================
