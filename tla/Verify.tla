------------------------------- MODULE Verify -------------------------------
(***************************************************************************)
(* verify() on a web page: which check a sentence is routed to, what the    *)
(* check reads of a page that changes under it, what it falls back on, how  *)
(* long it waits, and the screenshots and responses it keeps.  A sentence   *)
(* is the set of the kinds of words it has (`says') and what its author     *)
(* means by it (`facts'); a text is the set of its words.                   *)
(***************************************************************************)
EXTENDS Integers, Sequences, FiniteSets, SequencesExt

CONSTANTS
    Scripts,      \* the pages of an application and the calls made on them
    Timeout,      \* how often a check that waits looks again
    MaxChanges,   \* changes of the page
    MaxErrors,    \* readings of the page that fail
    Tolerance     \* the difference of two screenshots that counts as none

ASSUME BoundsAssumption == {Timeout, MaxChanges, MaxErrors, Tolerance} \subseteq Nat

VARIABLES
    pages,      \* what the application may show
    page,       \* which of them it shows
    due,        \* responses of the backend that are still to come
    recorder,   \* whether responses are recorded
    log,        \* the recorded ones
    baseline,   \* the stored screenshot
    calls,      \* the calls still to come
    call,       \* the current one
    time,       \* how often it may look again
    changes, errors,
    hist        \* responses, those since the first call, facts that held, since when all do

scene == <<pages, page, due, changes>>
vars == <<scene, recorder, log, baseline, calls, call, time, errors, hist>>

Here == pages[page]
NoImage == [size |-> 0, look |-> 0]

Shown(p, t) == t # {} /\ \E s \in p.texts : t \subseteq s
Alike(s, t) == s # {} /\ t # {} /\ (s \subseteq t \/ t \subseteq s)
-----------------------------------------------------------------------------
\* The sentence's way: an explicit assertion_type, else its words.
Plain(a) == a.type = "none"
Says(a, words) == a.says \intersect words # {}
Negated(a) == \/ a.type = "absent"
              \/ a.type # "present" /\ Says(a, {"not", "absence"})

\* A mistake: the word alone is enough, whatever type was asked for.
AsksTableByWord(a) == a.type = "table" \/ "table" \in a.says

AsksTable(a)    == a.type = "table" \/ (Plain(a) /\ "table" \in a.says)
AsksSelected(a) == Plain(a) /\ "radio" \in a.says /\ Says(a, {"state", "unstate"})
AsksStatus(a)   == \/ a.type = "status"
                   \/ Plain(a) /\ "status" \in a.says /\ ("is" \in a.says \/ a.quoted # <<>>)
AsksHeader(a)   == \/ a.type = "header"
                   \/ Plain(a) /\ "column" \notin a.says
                      /\ (\/ "page header" \in a.says
                          \/ "header" \in a.says /\ "is" \in a.says /\ Len(a.quoted) = 1)
AsksAlert(a)    == a.type = "alert" \/ (Plain(a) /\ {"alert", "shows"} \subseteq a.says)
AsksOptions(a)  == \/ a.type = "options"
                   \/ Plain(a) /\ {"dropdown", "lists"} \subseteq a.says /\ Len(a.quoted) >= 2
AsksActive(a)   == \/ a.type = "active"
                   \/ Plain(a) /\ (\/ "bold" \in a.says
                                   \/ {"active", "nav"} \subseteq a.says /\ a.quoted # <<>>)
AsksPresent(a)  == \/ a.type \in {"present", "absent"}
                   \/ /\ Plain(a) /\ Says(a, {"presence", "absence"})
                      /\ (Says(a, {"not", "absence"}) \/ a.kind # "none")

\* The order of the checks.
Route(a) ==
    LET asks == << AsksTable(a), AsksSelected(a), AsksStatus(a), AsksHeader(a), AsksAlert(a),
                   AsksOptions(a), AsksActive(a), AsksPresent(a) >>
        ways == << "table", "selected", "status", "header", "alert", "options", "active",
                   IF Negated(a) THEN "absent" ELSE "present" >>
        Yes  == {i \in DOMAIN asks : asks[i]}
    IN  IF a.type \in {"a11y", "network", "visual", "extract"} THEN a.type
        ELSE IF Yes = {} THEN "text"
        ELSE ways[CHOOSE i \in Yes : \A j \in Yes : i <= j]

\* What is looked for: expected_value, the quoted text, or what the wording
\* leaves; the name of an element is never the word for its kind.
Quoted(a)   == IF a.explicit # {} THEN a.explicit ELSE IF a.quoted # <<>> THEN a.quoted[1] ELSE {}
Expected(a) == IF Quoted(a) # {} THEN Quoted(a) ELSE a.bare
Name(a)     == IF Quoted(a) \subseteq a.kindWords THEN {} ELSE Quoted(a)
Subject(a)  == IF Name(a) # {} THEN Name(a) ELSE a.bare
Texts(a)    == IF a.type \in {"none", "text_visible"} /\ a.explicit = {} /\ Len(a.quoted) >= 2
               THEN a.quoted ELSE <<Expected(a)>>
-----------------------------------------------------------------------------
\* Tables: the first that has all the columns, a row that matches the key and
\* has the cells.  A column is named by its heading, else by a part of it.
Heading(c, headers) ==
    IF c \in headers THEN c
    ELSE LET part == {h \in headers : Alike(c, h)} IN IF part = {} THEN {} ELSE CHOOSE h \in part : TRUE
CellMatches(row, headers, pair) ==
    LET value == row[Heading(pair[1], headers)]
    IN  IF pair[2] = {} THEN value = {} ELSE pair[2] \subseteq value
Columns(m) == m.columns \union {pair[1] : pair \in m.key \union m.cells}
Covers(m, t) == \A c \in Columns(m) : Heading(c, t.headers) # {}
RowHolds(m, t) ==
    m.key \union m.cells = {} \/
        \E row \in t.rows : \A pair \in m.key \union m.cells : CellMatches(row, t.headers, pair)

\* A mistake: the columns are enough.
TableHoldsByColumns(m, tables) == \E i \in DOMAIN tables : Covers(m, tables[i])
TableHolds(m, tables) ==
    LET first == SelectInSeq(tables, LAMBDA t : Covers(m, t))
    IN  first # 0 /\ RowHolds(m, tables[first])

\* A response with the method, the URL and the status asked for, where asked.
Matches(r, m) == \A part \in DOMAIN m : m[part] # "any" => r[part] = m[part]

\* Screenshots of one size that differ by no more than the tolerance.
Similar(s, t) == s.size = t.size /\ s.look - t.look \in -Tolerance..Tolerance
-----------------------------------------------------------------------------
Elements(p, kind, name) == {e \in p.elements : e.kind = kind /\ name \subseteq e.name}
CounterKnows(kind) == kind \notin {"none", "other"}

\* What is labelled so, with the fewest words beside it.
Closest(things, label) ==
    LET found == {t \in things : label # {} /\ label \subseteq t.label}
    IN  {t \in found : \A q \in found : Cardinality(t.label) <= Cardinality(q.label)}
Radio(p, label) == Closest({t \in p.toggles : t.kind = "radio"}, label)
Items(p, label) == Closest(p.items, label)

\* The dropdown that shares the words, else any; what is read is the rows of
\* all the lists on screen.
Trigger(p, label) ==
    LET named == {d \in p.drops : Alike(d.label, label)} IN IF named # {} THEN named ELSE p.drops
OptionsRead(p, d) == d.options \union p.lists

\* The heading the page is known by: an h1, else level 1, else a class for titles,
\* ..., else the largest, else the last of the breadcrumbs.
Header(p) == {h \in p.headings : \A g \in p.headings : h.rank <= g.rank}

\* Tables of one library are read first, then native ones, then grids of roles.
TablesRead(p) ==
    LET Built(how) == SelectSeq(p.tables, LAMBDA t : t.built = how)
    IN  Built("ant") \o Built("native") \o Built("aria")

AlertSays(a, alert) ==
    IF "description" \in a.says /\ alert.description # {} THEN alert.description ELSE alert.text

Verdict(ok) == IF ok THEN "passed" ELSE "failed"

\* The checks that read the page once: what they say, or "wait" for the text.
ProbePresent(a, p) ==
    IF CounterKnows(a.kind) THEN Verdict(Elements(p, a.kind, Name(a)) # {})
    ELSE IF Subject(a) # {} THEN "wait" ELSE "failed"

OrWait(ok, a) == IF ~ok /\ Expected(a) # {} THEN "wait" ELSE Verdict(ok)
ProbeSelected(a, p) ==
    {Verdict(r.on = ("unstate" \notin a.says)) : r \in Radio(p, Expected(a))}
ProbeStatus(a, p) == {OrWait(\E t \in p.pills : Alike(t, Expected(a)), a)}
ProbeAlert(a, p) ==
    {OrWait(Expected(a) # {} /\ \E al \in p.alerts : Expected(a) \subseteq AlertSays(a, al), a)}
ProbeHeader(a, p) == {Verdict(\E h \in Header(p) : Alike(h.text, Expected(a)))}
ProbeActive(a, p) == {Verdict(i.marks # {}) : i \in Items(p, Expected(a))}
ProbeOptions(a, p) ==
    {Verdict(\A o \in Range(Tail(a.quoted)) : \E q \in OptionsRead(p, d) : o \subseteq q) :
        d \in Trigger(p, Head(a.quoted))}

\* Nothing was found that the sentence could be about: it fails.
Probe(a, p) ==
    LET said == CASE Route(a) = "selected" -> ProbeSelected(a, p)
                  [] Route(a) = "status"   -> ProbeStatus(a, p)
                  [] Route(a) = "alert"    -> ProbeAlert(a, p)
                  [] Route(a) = "header"   -> ProbeHeader(a, p)
                  [] Route(a) = "active"   -> ProbeActive(a, p)
                  [] Route(a) = "options"  -> ProbeOptions(a, p)
                  [] Route(a) = "present"  -> {ProbePresent(a, p)}
    IN  IF said = {} THEN {"failed"} ELSE said

\* The same when the reading failed: as if nothing had been found.
ProbeFailed(a) ==
    CASE Route(a) \in {"status", "alert"} /\ Expected(a) # {} -> "wait"
      [] Route(a) = "present" /\ Subject(a) # {} -> "wait"
      [] OTHER -> "failed"
-----------------------------------------------------------------------------
Once == {"selected", "status", "alert", "header", "active", "options", "present"}
NoCall == [n |-> 0, route |-> "none", pc |-> "done", result |-> "none", left |-> <<>>, ok |-> TRUE,
           counts |-> TRUE, erred |-> FALSE, blind |-> FALSE, base |-> NoImage, found |-> {}, value |-> {}]
NewCall(a, n) ==
    [NoCall EXCEPT !.n = n, !.route = Route(a), !.base = baseline,
        !.pc = CASE Route(a) \in Once -> "probe"
                 [] Route(a) \in {"text", "extract"} -> "ground"
                 [] OTHER -> Route(a)]
Ask == calls[1]
Settle(c, result) == [c EXCEPT !.pc = "done", !.result = result]
Ends(result) == Settle(call, result)
Waits(texts) == [call EXCEPT !.pc = "wait", !.left = texts]

Init ==
    \E s \in Scripts :
       /\ pages = s.pages /\ page \in DOMAIN pages /\ due = s.due
       /\ calls = <<s.calls[1]>> \o s.calls   \* the head is the current one
       /\ recorder = FALSE /\ log = {} /\ baseline = s.baseline /\ call = NoCall
       /\ time = Timeout /\ changes = MaxChanges /\ errors = MaxErrors
       /\ hist = [arrived |-> {}, later |-> {}, held |-> {}, since |-> -1]

Begin ==
    /\ call.pc = "done" /\ Len(calls) > 1
    /\ calls' = Tail(calls)
    /\ call' = NewCall(calls[2], call.n + 1)
    /\ time' = Timeout
    /\ UNCHANGED <<scene, log, baseline, errors>>

\* A reading of the page may fail.
Reading(fails) == errors' = IF fails THEN errors - 1 ELSE errors
Faults == IF errors > 0 THEN BOOLEAN ELSE {FALSE}
Erred(c, fails) == [c EXCEPT !.erred = @ \/ fails]

ProbePage ==
    /\ call.pc = "probe"
    /\ \E fails \in Faults : \E seen \in IF fails THEN {ProbeFailed(Ask)} ELSE Probe(Ask, Here) :
          /\ Reading(fails)
          /\ call' = Erred(IF seen = "wait"
                           THEN Waits(<<IF call.route = "present" THEN Subject(Ask) ELSE Expected(Ask)>>)
                           ELSE Ends(seen), fails)
    /\ UNCHANGED <<scene, log, baseline, calls, time>>

\* A text check grounds the phrase first, and fails where that does.
Ground ==
    /\ call.pc = "ground"
    /\ \/ call' = Erred(Ends("failed"), TRUE)
       \/ /\ call.route = "text" /\ call' = Waits(Texts(Ask))
       \/ /\ call.route = "extract"
          /\ \E f \in Here.fields : call' = [call EXCEPT !.pc = "read", !.found = f.label]
    /\ UNCHANGED <<scene, log, baseline, calls, time, errors>>

\* validate(): a text or an element to come, the URL as it is.
Observed(a, p, t) ==
    CASE a.type = "page_transition" -> t \subseteq p.url
      [] a.type = "element_state"   -> Elements(p, "css", t) # {}
      [] OTHER                      -> Shown(p, t)

\* A wait that fails is over: the text is looked for once more, which may fail too.
Answers(fails, seen) == IF fails THEN {FALSE} \union (IF Ask.type = "element_state" THEN {} ELSE {seen}) ELSE {seen}
Wait ==
    /\ call.pc = "wait"
    /\ \E fails \in IF Ask.type = "page_transition" THEN {FALSE} ELSE Faults :
       \E seen \in Answers(fails, Observed(Ask, Here, Head(call.left))) :
          LET rest == Tail(call.left)
          IN  /\ Reading(fails)
              /\ IF seen \/ fails \/ time = 0 \/ Ask.type = "page_transition"
                 THEN /\ time' = Timeout
                      /\ call' = Erred(IF rest = <<>> THEN Ends(Verdict(call.ok /\ seen))
                                       ELSE [call EXCEPT !.left = rest, !.ok = @ /\ seen], fails)
                 ELSE /\ time' = time - 1 /\ UNCHANGED call
    /\ UNCHANGED <<scene, log, baseline, calls>>

\* What extract() reads is the first match of the ref when it reads.
Read ==
    /\ call.pc = "read"
    /\ LET there == {f \in Here.fields : f.label = call.found}
       IN  IF there # {}
           THEN /\ \E f \in there : call' = [Ends("passed") EXCEPT !.value = f.value]
                /\ UNCHANGED time
           ELSE /\ time' = IF time = 0 THEN 0 ELSE time - 1
                /\ call' = IF time = 0 THEN Ends("failed") ELSE call
    /\ UNCHANGED <<scene, log, baseline, calls, errors>>

\* The loops: look, and end when that is the answer or the time is over.
\* A mistake: the time is not looked at.
LookAgainForGood(answer, next) ==
    \/ answer /\ call' = Settle(next, "passed") /\ UNCHANGED time
    \/ ~answer /\ call' = next /\ UNCHANGED time
LookAgain(answer, next) ==
    \/ answer /\ call' = Settle(next, "passed") /\ UNCHANGED time
    \/ ~answer /\ time = 0 /\ call' = Settle(next, "failed") /\ UNCHANGED time
    \/ ~answer /\ time > 0 /\ call' = next /\ time' = time - 1

PollTable ==
    /\ call.pc = "table"
    /\ \E fails \in Faults :
          /\ Reading(fails)
          /\ \/ fails /\ call' = Erred(Ends("failed"), TRUE) /\ UNCHANGED time
             \/ ~fails /\ LookAgain(TableHolds(Ask.spec, TablesRead(Here)), call)
    /\ UNCHANGED <<scene, log, baseline, calls>>

\* Absence: the counter, and after it failed or did not know the kind the text.
\* A look at the text that failed has seen nothing either, and the call passes.
PollAbsent ==
    /\ call.pc = "absent"
    /\ \E fails \in IF call.counts THEN Faults ELSE {FALSE} :
          LET counted == call.counts /\ ~fails /\ CounterKnows(Ask.kind)
              next    == Erred([call EXCEPT !.counts = counted], fails)
              spared  == IF fails THEN errors - 1 ELSE errors
          IN  \/ /\ errors' = spared
                 /\ LookAgain(IF counted THEN Elements(Here, Ask.kind, Name(Ask)) = {} ELSE ~Shown(Here, Subject(Ask)), next)
              \/ /\ ~counted /\ Subject(Ask) # {} /\ spared > 0 /\ errors' = spared - 1
                 /\ LookAgain(TRUE, [Erred(next, TRUE) EXCEPT !.blind = TRUE])
    /\ UNCHANGED <<scene, log, baseline, calls>>

\* A response: one that was recorded, or the next to come.
CheckLog ==
    /\ call.pc = "network"
    /\ call' = IF \E r \in log : Matches(r, Ask.spec) THEN Ends("passed")
               ELSE [call EXCEPT !.pc = "listen"]
    /\ UNCHANGED <<scene, log, baseline, calls, time, errors>>
ListenTimeout ==
    /\ call.pc = "listen"
    /\ time' = IF time = 0 THEN 0 ELSE time - 1
    /\ call' = IF time = 0 THEN Ends("failed") ELSE call
    /\ UNCHANGED <<scene, log, baseline, calls, errors>>

\* A screenshot: kept when there is none or an update is asked for, else compared.
\* A mistake: what differs becomes the baseline.
CompareKeepsLatest(image) ==
    /\ baseline' = image
    /\ call' = Ends(Verdict(baseline = NoImage \/ Similar(image, baseline)))
Compare(image) ==
    \/ /\ Ask.update \/ baseline = NoImage
       /\ baseline' = image /\ call' = Ends("passed")
    \/ /\ ~Ask.update /\ baseline # NoImage
       /\ call' = Ends(Verdict(Similar(image, baseline)))
       /\ UNCHANGED baseline
Shoot ==
    /\ call.pc = "visual"
    /\ \E fails \in Faults :
          /\ Reading(fails)
          /\ \/ fails /\ call' = Erred(Ends("failed"), TRUE) /\ UNCHANGED baseline
             \/ ~fails /\ Compare(Here.image)
    /\ UNCHANGED <<scene, log, calls, time>>

\* The accessibility audit: no violation of the impact asked for or a worse one;
\* violations without an impact do not count.
Audit ==
    /\ call.pc = "a11y"
    /\ \E fails \in Faults :
          /\ Reading(fails)
          /\ call' = IF fails THEN Erred(Ends("failed"), TRUE)
                     ELSE Ends(Verdict(\A i \in Here.impacts : i < Ask.spec))
    /\ UNCHANGED <<scene, log, baseline, calls, time>>
-----------------------------------------------------------------------------
\* The recorder starts with the first step that reads the page.  A mistake: with
\* the first network check.
RecordsFromCheck == call.pc = "network"
Records == call.pc \in {"ground", "network"}

PageChanges ==
    /\ changes > 0 /\ call.pc # "done"
    /\ changes' = changes - 1
    /\ \E p \in DOMAIN pages \ {page} : page' = p
    /\ UNCHANGED <<pages, due, log, recorder, baseline, calls, call, time, errors>>
Respond ==
    /\ \E r \in due :
          /\ due' = due \ {r}
          /\ log' = IF recorder THEN log \union {r} ELSE log
          /\ call' = IF call.pc = "listen" /\ Matches(r, Ask.spec) THEN Ends("passed") ELSE call
    /\ UNCHANGED <<pages, page, changes, recorder, baseline, calls, time, errors>>
-----------------------------------------------------------------------------
\* What the author of a sentence means.
Holds(f, p, c, arrived) ==
    LET what == f.what IN
    CASE f.of = "text"      -> Shown(p, what)
      [] f.of = "no text"   -> ~Shown(p, what)
      [] f.of = "status"    -> \E t \in p.pills : what \subseteq t
      [] f.of = "no status" -> ~\E t \in p.pills : what \subseteq t
      [] f.of = "alert"     -> (\E al \in p.alerts : what \subseteq al.text) \/ Shown(p, what)
      [] f.of = "header"    -> \E h \in Header(p) : Alike(h.text, what)
      [] f.of = "active"    -> \E i \in Items(p, what) : i.marks # {}
      [] f.of = "not active" -> \E i \in Items(p, what) : i.marks = {}
      [] f.of = "on"        -> \E r \in p.toggles : what = r.label /\ r.on
      [] f.of = "off"       -> \E r \in p.toggles : what = r.label /\ ~r.on
      [] f.of = "options"   -> \E d \in p.drops : d.label = what[1] /\ what[2] \subseteq d.options
      [] f.of = "element"   -> Elements(p, what[1], what[2]) # {}
      [] f.of = "no element" -> Elements(p, what[1], what[2]) = {}
      [] f.of = "row"       -> \E i \in DOMAIN p.tables : Covers(what, p.tables[i]) /\ RowHolds(what, p.tables[i])
      [] f.of = "response"  -> \E r \in arrived : Matches(r, what)
      [] f.of = "look"      -> c.base = NoImage \/ Similar(p.image, c.base)
      [] f.of = "impacts"   -> \A i \in p.impacts : i < what
      [] f.of = "url"       -> what \subseteq p.url
      [] f.of = "field"     -> \E g \in p.fields : g.label = what

\* What a presence or an absence says where the counter failed: the name as a text.
Fallback(a) == [of |-> IF Negated(a) THEN "no text" ELSE "text", what |-> Subject(a)]

\* The history: what has held in the course of the call, and for how long.
Watch ==
    LET came    == due \ due'
        arrived == hist.arrived \union came
        later   == hist.later \union (IF call.n > 1 \/ (call.n = 1 /\ call.pc = "done") THEN came ELSE {})
        facts   == calls'[1].facts
        watched == facts \union {Fallback(calls'[1])}
        now     == {f \in watched : Holds(f, pages'[page'], call', arrived)}
        all     == \A f \in facts : Holds(f, pages'[page'], call', later)
        fresh   == call'.n # call.n
    IN  hist' = [arrived |-> arrived, later |-> later,
                 held    |-> IF fresh THEN now
                             ELSE IF call.pc = "done" THEN hist.held
                             ELSE hist.held \union now,
                 since   |-> IF fresh THEN IF all THEN Timeout + 1 ELSE -1
                             ELSE IF call.pc = "done" THEN hist.since
                             ELSE IF ~all THEN -1
                             ELSE IF hist.since >= 0 THEN hist.since ELSE time']

Script ==
    /\ \/ Begin \/ ProbePage \/ Ground \/ Wait \/ Read \/ PollTable \/ PollAbsent
       \/ CheckLog \/ ListenTimeout \/ Shoot \/ Audit
    /\ recorder' = (recorder \/ Records)
    /\ Watch
Next == Script \/ ((PageChanges \/ Respond) /\ Watch)

Spec == Init /\ [][Next]_vars /\ WF_vars(Script)
-----------------------------------------------------------------------------

Passed == call.n > 0 /\ call.result = "passed"
Failed == call.n > 0 /\ call.result = "failed"

\* A passed call was right: everything its sentence means was true of the page
\* at some moment of the call, whatever the page turned into meanwhile.  Where the
\* counter failed, a presence or an absence is one of the name as a text
\* (_verify_present, _verify_absent); left out is an absence that nobody saw,
\* because that reading failed as well (adapter.validate).
PassWasWitnessed ==
    Passed /\ ~call.blind =>
        IF call.route \in {"present", "absent"} /\ call.erred THEN Fallback(Ask) \in hist.held
        ELSE Ask.facts \subseteq hist.held

\* What is true from the beginning of a call to its end is confirmed, unless a
\* reading or the grounding of the phrase fails.
SteadyTruthPasses ==
    Failed /\ ~call.erred /\ Ask.facts # {} => hist.since <= Timeout

\* The checks that wait do not miss what becomes true, and stays, before their last
\* look: rows, texts, responses, things that go away (_verify_table, _verify_absent).
LateTruthPasses ==
    Failed /\ ~call.erred /\ Ask.facts # {} /\ Len(Ask.quoted) <= 1
        /\ call.route \in {"table", "absent", "text", "network", "status", "alert"}
        /\ Ask.type # "page_transition"
        => hist.since = -1

\* A check does not fail over what was there, early or late.
TruthPasses == SteadyTruthPasses /\ LateTruthPasses

\* An explicit assertion_type is never overruled by the wording.
Named == [present |-> {"present"}, absent |-> {"absent"}, table |-> {"table"}, status |-> {"status"},
          header |-> {"header"}, alert |-> {"alert"}, options |-> {"options"}, active |-> {"active"},
          text_visible |-> {"text"}, element_state |-> {"text"}, page_transition |-> {"text"}]
ExplicitTypeWins ==
    call.n > 0 /\ Ask.type \in DOMAIN Named => call.route \in Named[Ask.type]

\* A screenshot becomes the baseline when there was none or on request: one that
\* failed the comparison fails it again (_verify_visual).
BaselineOnRequest ==
    [][baseline' # baseline => call'.result = "passed" /\ (Ask.update \/ baseline = NoImage)]_vars

\* Every call ends.
VerifyEnds == <>(call.pc = "done" /\ Len(calls) = 1)
=============================================================================
