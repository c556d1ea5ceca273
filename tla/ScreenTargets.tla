---------------------------- MODULE ScreenTargets ----------------------------
(***************************************************************************)
(* What a step finds on a mobile screen: the candidates of the hierarchy   *)
(* resolver, what the engine makes of them, the input a label stands for,   *)
(* the row a text is in, and what text recognition offers where a screen    *)
(* draws itself.  A screen's hierarchy is a sequence of nodes, a parent     *)
(* before its children; a text is the set of its words.  Confidences and    *)
(* scores are in basis points, as in Ranking.                               *)
(***************************************************************************)
EXTENDS Integers, Sequences, FiniteSets, SequencesExt, FiniteSetsExt, Functions

CONSTANTS
    Word,
    Letters,   \* how long a word is
    FieldWord  \* the words for a kind of field, such as "field"

ASSUME WordsAssumption == IsFiniteSet(Word) /\ Letters \in [Word -> Nat \ {0}]

R == INSTANCE Ranking WITH Label <- {}, NoName <- {}

\* The places I of a list, in its order.
InOrder(list, I) == R!Kept([i \in DOMAIN list |-> i], I)

\* A node: its class, its texts, whether it may be tapped, is disabled or hidden
\* (off), takes no part in the layout (gone), scrolls; its height and its parent.
Node ==
    [kind : {"button", "label", "field", "view", "group", "image", "list", "canvas"},
     text : SUBSET Word, desc : SUBSET Word, rid : SUBSET Word, value : SUBSET Word,
     tap : BOOLEAN, off : BOOLEAN, gone : BOOLEAN, scrolls : BOOLEAN, y : Nat, up : Nat]

\* How long a text is: its letters, and a blank between two words.
Size(t) == Cardinality(UNION {{w} \X (0..Letters[w]) : w \in t}) - 1
Alike(phrase, t) == t # {} /\ (t \subseteq phrase \/ phrase \subseteq t)

\* How tight a match is: the shorter text's share of the longer.
Quality(phrase, t) ==
    IF phrase = t THEN 10000
    ELSE (10000 * Min({Size(phrase), Size(t)})) \div Max({Size(phrase), Size(t)})
Scaled(base, q) == IF q >= 10000 THEN base ELSE (base * (70000 + 3 * q) + 50000) \div 100000

\* The attributes a node is matched by, in their order, with the confidence and
\* the text signal they give; an id counts the same however tight.
Attrs(n) == << [name |-> "text",  words |-> n.text,  conf |-> 9200, signal |-> 9200],
               [name |-> "desc",  words |-> n.desc,  conf |-> 8500, signal |-> 8500],
               [name |-> "rid",   words |-> n.rid,   conf |-> 7500, signal |-> 7500],
               [name |-> "value", words |-> n.value, conf |-> 8500, signal |-> 8000] >>
AttrFor(n, phrase) == SelectInSeq(Attrs(n), LAMBDA a : Alike(phrase, a.words))

\* _role_match_for_action
\* A mistake: whatever is named may be typed into.
RoleScoreAnyField(n, action, toolkit) ==
    IF action = "type" \/ n.kind \in {"button", "label"} THEN 10000 ELSE 4000

TapScore(n, toolkit) ==
    IF n.kind \in {"button", "label"} THEN 10000
    ELSE IF n.kind = "view" /\ n.tap /\ toolkit \in {"compose", "react native"} THEN 9000 ELSE 4000
RoleScore(n, action, toolkit) ==
    CASE action \in {"tap", "click"} -> TapScore(n, toolkit)
      [] action = "type"   -> IF n.kind = "field" THEN 10000 ELSE 2000
      [] action = "verify" -> IF n.kind \in {"label", "field", "button"} THEN 9000 ELSE 5000
      [] OTHER             -> 5000

CandidateOf(n, phrase, action, toolkit) ==
    LET a == Attrs(n)[AttrFor(n, phrase)]
        q == IF a.name = "rid" THEN 10000 ELSE Quality(phrase, a.words)
    IN  [ref |-> <<n.kind, <<a.name, a.words>>>>, raw |-> Scaled(a.conf, q), role |-> R!NoRole,
         named |-> FALSE, weighed |-> TRUE, by |-> "appium_hierarchy",
         signals |-> [text |-> Scaled(a.signal, q), role |-> RoleScore(n, action, toolkit),
                      vis |-> IF n.off THEN 2000 ELSE 10000, uniq |-> 8000, prox |-> 0, mem |-> 0]]

Supports == {"tap", "click", "type", "select", "scroll", "swipe", "verify", "extract"}

Candidates(nodes, phrase, action, toolkit) ==
    LET hits == InOrder(nodes, {i \in DOMAIN nodes : AttrFor(nodes[i], phrase) # 0})
    IN  IF action \notin Supports THEN <<>>
        ELSE [k \in DOMAIN hits |-> CandidateOf(nodes[hits[k]], phrase, action, toolkit)]

\* A ref as the adapter takes it: an attribute's value in a class.
NoRef == [kind |-> "none", attr |-> "none", words |-> {}]
RefTo(kind, attr, words) == [kind |-> kind, attr |-> attr, words |-> words]
Bearers(nodes, attr, words) ==
    {i \in DOMAIN nodes : \E a \in Range(Attrs(nodes[i])) : a.name = attr /\ a.words = words}
Matching(nodes, ref) ==
    {i \in Bearers(nodes, ref.attr, ref.words) : ref.kind \in {nodes[i].kind, "any"}}

\* What vision saw on a screenshot: a text, a role ("none" counts as a role when
\* roles are compared), how sure it is, and a box or none.  VisionModelResolver:
Sight == [text : SUBSET Word, conf : 0..100, role : {"button", "link", "textbox", "none"}, box : BOOLEAN]
VisionRole(s, phrase, action) ==
    CASE s.role \in {"button", "link"} /\ action \in {"tap", "click"} -> 10000
      [] s.role = "textbox" /\ action = "type"                      -> 10000
      [] OTHER -> IF s.role \in phrase THEN 7000 ELSE 0
VisionText(s, phrase) ==
    IF s.text \subseteq phrase THEN 10000
    ELSE Min({9000, (10000 * Cardinality(s.text \intersect phrase)) \div Cardinality(s.text)})
PicturedAs(seen, i, phrase, action) ==
    LET s == seen[i]
        twins == {j \in DOMAIN seen : seen[j].text = s.text}
        c == [ref |-> <<"vision", <<i, s.text>>>>, raw |-> 0, role |-> s.role, named |-> FALSE,
              weighed |-> TRUE, by |-> "vision_model",
              signals |-> [text |-> VisionText(s, phrase), role |-> VisionRole(s, phrase, action),
                           vis |-> 100 * s.conf, uniq |-> 10000 \div Cardinality(twins), prox |-> 5000, mem |-> 0]]
    IN  R!Ranked(c)
Pictured(seen, phrase, action) ==
    LET all == [i \in DOMAIN seen |-> PicturedAs(seen, i, phrase, action)]
        hits == InOrder(seen, {i \in DOMAIN seen :
                   all[i].raw >= 4800 /\ (seen[i].text \union {seen[i].role}) \intersect phrase # {}})
    IN  [k \in DOMAIN hits |-> all[hits[k]]]

\* VisualRefHydrator: the element of the hierarchy for a text that was seen, if
\* one alone bears it (as its id: a bare name).
Hydrated(nodes, words) ==
    LET first == SelectInSeq(<<"text", "desc", "rid">>, LAMBDA a : Bearers(nodes, a, words) # {})
        attr  == <<"text", "desc", "rid">>[first]
    IN  IF first = 0 \/ Cardinality(Bearers(nodes, attr, words)) > 1 THEN NoRef ELSE RefTo("any", attr, words)

\* What the engine makes of the candidates: none in the hierarchy scores high
\* enough to end a tier, what was seen may; else its final fallback decides.
Outcome(kind, ref) == [kind |-> kind, ref |-> ref]
Grounded(nodes, seen, phrase, action, toolkit) ==
    LET visual == Pictured(seen, phrase, action)
        all    == IF R!Reaches(visual, R!ReviewThreshold) THEN visual
                  ELSE R!FinalDedupe(Candidates(nodes, phrase, action, toolkit) \o visual)
        best   == R!BestForAction(all, action).ref
    IN  IF all = <<>> THEN Outcome("not_found", NoRef)
        ELSE IF ~R!Reaches(all, R!ReviewThreshold) THEN Outcome("low_confidence", NoRef)
        ELSE IF R!Ambiguous(all, action) THEN Outcome("ambiguous", NoRef)
        ELSE Outcome("resolved", RefTo(best[1], best[2][1], best[2][2]))
-----------------------------------------------------------------------------
\* A node's ancestors, itself among them.
Line(nodes, i) ==
    LET above[j \in DOMAIN nodes] == IF nodes[j].up = 0 THEN {} ELSE {nodes[j].up} \union above[nodes[j].up]
    IN  {i} \union above[i]

\* Compaction: what may be grounded and what it is in, and the root.
Speaks(n) == n.text \union n.desc \union n.value # {}
\* A mistake: only the text itself counts.
UsefulByText(n) == n.text # {} \/ n.rid # {} \/ n.tap \/ n.scrolls \/ n.kind \in {"button", "field", "image"}
Useful(n) ==
    /\ Speaks(n) \/ n.rid # {} \/ n.tap \/ n.scrolls \/ n.kind \in {"button", "field", "image"}
    /\ n.gone => Speaks(n)
Compacted(nodes) ==
    LET kept == {1} \union UNION {Line(nodes, i) : i \in {j \in DOMAIN nodes : Useful(nodes[j])}}
    IN  R!Kept(nodes, kept \intersect DOMAIN nodes)
-----------------------------------------------------------------------------
\* _View.matches and best_ref.
Likeness(n, key) ==
    Max({0} \union {Quality(key, a.words) : a \in {b \in Range(Attrs(n)) : Alike(key, b.words)}})
BestRef(n) ==
    LET have == SelectInSeq(<<"rid", "desc", "text", "value">>, LAMBDA a : n[a] # {})
        attr == <<"rid", "desc", "text", "value">>[have]
    IN  IF have = 0 THEN NoRef ELSE RefTo(n.kind, attr, n[attr])

\* The first of those most like it, 0 if none is.
MostLike(nodes, I, key) ==
    LET like == {i \in I : Likeness(nodes[i], key) > 0}
    IN  IF like = {} THEN 0
        ELSE Min({i \in like : \A j \in like : Likeness(nodes[j], key) <= Likeness(nodes[i], key)})

Fields(nodes) == {i \in DOMAIN nodes : nodes[i].kind = "field"}

\* The nearest below, else the nearest above.
Distance(nodes, label, i) ==
    LET d == nodes[i].y - nodes[label].y IN IF d >= 0 THEN <<0, d>> ELSE <<2, -d>>
Nearer(d, e) == d[1] < e[1] \/ (d[1] = e[1] /\ d[2] < e[2])
ClosestBelow(nodes, label, I) ==
    Min({i \in I : \A j \in I : ~Nearer(Distance(nodes, label, j), Distance(nodes, label, i))})

\* _nearest_editable_to: the container first, three levels up, then the screen.
NearestField(nodes, label) ==
    LET climb[k \in 0..3] == IF k = 0 THEN label ELSE IF climb[k-1] = 0 THEN 0 ELSE nodes[climb[k-1]].up
        Within(k) == {i \in Fields(nodes) : climb[k] \in Line(nodes, i)}
        first == SelectInSeq(<<0, 1, 2, 3>>, LAMBDA k : climb[k] # 0 /\ Within(k) # {})
    IN  IF Fields(nodes) = {} THEN 0
        ELSE ClosestBelow(nodes, label, IF first = 0 THEN Fields(nodes) ELSE Within(first - 1))

\* _resolve_type
FieldFor(nodes, key) ==
    LET own   == MostLike(nodes, Fields(nodes), key)
        label == MostLike(nodes, DOMAIN nodes \ Fields(nodes), key)
        Own(least) == own # 0 /\ Likeness(nodes[own], key) >= least /\ BestRef(nodes[own]) # NoRef
    IN  IF Own(9000) THEN BestRef(nodes[own])
        ELSE IF label # 0 /\ Likeness(nodes[label], key) >= 6000
          THEN IF NearestField(nodes, label) = 0 THEN NoRef ELSE BestRef(nodes[NearestField(nodes, label)])
        ELSE IF Own(6000) THEN BestRef(nodes[own]) ELSE NoRef

\* _resolve_tap: the nearest tappable ancestor, six levels up at most.
RowFor(nodes, key) ==
    LET hit == MostLike(nodes, DOMAIN nodes, key)
        up[k \in 0..6] == IF k = 0 THEN hit ELSE IF up[k-1] = 0 THEN 0 ELSE nodes[up[k-1]].up
        first == SelectInSeq(<<1, 2, 3, 4, 5, 6>>, LAMBDA k : up[k] # 0 /\ nodes[up[k]].tap)
    IN  IF hit = 0 \/ Likeness(nodes[hit], key) < 6000 \/ nodes[hit].tap \/ first = 0 THEN NoRef
        ELSE BestRef(nodes[up[first]])

\* resolve_field_ref
Associated(nodes, phrase, action) ==
    LET key == phrase \ FieldWord
    IN  IF key = {} THEN NoRef
        ELSE IF action \in {"type", "fill"} THEN FieldFor(nodes, key)
        ELSE IF action \in {"tap", "click", "press", "select"} THEN RowFor(nodes, key)
        ELSE NoRef
-----------------------------------------------------------------------------
\* Screens that draw themselves.
RoutesToVision(nodes, toolkit) ==
    \/ toolkit = "flutter" \/ nodes = <<>>
    \/ \A i \in DOMAIN nodes : ~Speaks(nodes[i])
    \/ /\ \E i \in DOMAIN nodes : nodes[i].kind = "canvas"
       /\ Cardinality({i \in DOMAIN nodes : Speaks(nodes[i])}) <= 1

\* Whether recognized texts show what is expected, in one or across them.
TextSeen(expected, seen) == seen # <<>> /\ expected # {} /\ expected \subseteq UNION {c.text : c \in Range(seen)}

\* select_canvas_vision_candidate: the first best, 0 if none scores half; the
\* confidence of the recognition breaks ties.
TextScore(phrase, t) ==
    LET common == Cardinality(phrase \intersect t)
    IN  IF t = phrase THEN 10000
        ELSE IF Alike(phrase, t) THEN 9000
        ELSE (6000 * common) \div Cardinality(phrase) + (4000 * common) \div Cardinality(t)
PickSeen(phrase, seen) ==
    LET good == {i \in DOMAIN seen : seen[i].box /\ TextScore(phrase, seen[i].text) >= 5000}
        Worth(i) == 1000 * TextScore(phrase, seen[i].text) + seen[i].conf
    IN  IF phrase = {} \/ good = {} THEN 0
        ELSE Min({i \in good : \A j \in good : Worth(j) <= Worth(i)})

\* Whether there is something to scroll.
ScrollPlan(nodes) ==
    IF nodes = <<>> THEN "unknown"
    ELSE IF \E i \in DOMAIN nodes : nodes[i].scrolls \/ nodes[i].kind = "list" THEN "candidate" ELSE "unsupported"

\* What blocks a screen, of the signs on it.
Blocker(signs) ==
    CASE "crash" \in signs -> "crash"
      [] "crash" \notin signs /\ "anr" \in signs -> "anr"
      [] {"crash", "anr"} \intersect signs = {} /\ "progress" \in signs -> "progress"
      [] OTHER -> "none"

\* The toolkit a screen's classes tell.
Toolkit(signs, platform) ==
    CASE "flutter" \in signs -> "flutter"
      [] "flutter" \notin signs /\ ("react native" \in signs \/ (platform = "ios" /\ "rct" \in signs)) -> "react native"
      [] {"flutter", "react native"} \intersect signs = {} /\ platform # "ios" /\ "compose" \in signs -> "compose"
      [] OTHER -> "native"
=============================================================================
