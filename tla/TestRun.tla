-------------------------------- MODULE TestRun --------------------------------
(***************************************************************************)
(* Test processes from their first step to their reports: the session that *)
(* collects results while several tasks use it, screenshots of failures,   *)
(* soft assertions, the flaky history that pytest processes share, the      *)
(* quarantine in the JUnit report, and the summary page that processes of   *)
(* the bridge build together.                                              *)
(***************************************************************************)
EXTENDS Integers, Sequences, FiniteSets, SequencesExt, FiniteSetsExt, Functions

CONSTANTS
    Proc,        \* processes that run tests
    Step,        \* identities of steps: their actions (flaky.py also looks for a
                 \* screen signature on the target; nothing leaves one there)
    Tests,       \* what a process may run
    MinRuns,     \* observed runs before a step is judged flaky
    Threshold,   \* pass rate, in percent, under which it is
    Quarantine,  \* whether the failures of flaky steps are downgraded
    MaxRuns,     \* test runs in all
    MaxErrors    \* statements, screenshots and bootstraps that fail, and deaths

ASSUME CountsAssumption ==
    /\ MinRuns \in Nat /\ Threshold \in 0..100 /\ Quarantine \in BOOLEAN
    /\ MaxRuns \in Nat /\ MaxErrors \in Nat /\ IsFiniteSet(Proc)
    /\ Tests \subseteq [name : STRING, title : STRING, label : BOOLEAN, dry : BOOLEAN, ends : {"record", "summary"},
                        tasks : Seq(Seq([call : STRING, step : Step]))]

VARIABLES
    run,       \* per process, its test and its session
    history,   \* the table of flaky outcomes
    manifest,  \* the summary's record of tests and title
    page,      \* the tests the summary page shows
    truth,     \* how many finished runs saw a step pass or fail
    written,   \* the tests whose summary was written to the end
    begun,     \* runs so far
    errors     \* how much may still fail

disk   == <<history, manifest, page>>
ghosts == <<truth, written>>
vars   == <<run, disk, ghosts, begun, errors>>

Fails == errors > 0 /\ errors' = errors - 1
Works == UNCHANGED errors

\* A flaky row; no row is a row of zeros.  Its runs are its passes and fails.
NoRow   == [passes |-> 0, fails |-> 0]
NoTable == [s \in Step |-> NoRow]
NoSnapshot == <<>>

\* The manifest's states: not there, cut off, or a list of tests with a title.
Fresh == [runs |-> {}, title |-> "none", torn |-> FALSE]
Torn  == [Fresh EXCEPT !.torn = TRUE]

\* A task of a test: the place in its list of calls, and what its call needs.
NewTask == [at |-> 1, pc |-> "ready", soft |-> FALSE, before |-> FALSE, shot |-> 0]
NewRun(t) ==
    [pc |-> "enter", test |-> t, results |-> <<>>, soft |-> FALSE, softs |-> {},
     tasks |-> [i \in DOMAIN t.tasks |-> NewTask], shots |-> {}, raised |-> FALSE,
     left |-> {}, snap |-> NoSnapshot, held |-> {}, lock |-> FALSE, flaky |-> {}, junit |-> <<>>, mine |-> Fresh]
NoTest == [name |-> "none", tasks |-> <<>>, ends |-> "none", title |-> "none", label |-> FALSE, dry |-> FALSE]
NoRun  == [NewRun(NoTest) EXCEPT !.pc = "over"]

Init ==
    /\ run = [p \in Proc |-> NoRun]
    /\ history = NoTable /\ manifest = Fresh /\ page = {}
    /\ truth = [s \in Step |-> [passed |-> 0, failed |-> 0]] /\ written = {}
    /\ begun = 0 /\ errors = MaxErrors

At(p, pc) == run[p].pc = pc
Become(p, r) == run' = [run EXCEPT ![p] = r]
-----------------------------------------------------------------------------
\* A process starts another test, with a session and a connection of its own.
Launch(p) ==
    /\ At(p, "over") /\ begun < MaxRuns /\ begun' = begun + 1
    /\ \E t \in Tests : Become(p, NewRun(t))
    /\ Works /\ UNCHANGED <<disk, ghosts>>

\* __aenter__: the bootstrap, which may raise; the test then has no results.
Enter(p) ==
    /\ At(p, "enter")
    /\ \/ Works /\ Become(p, [run[p] EXCEPT !.pc = "steps"])
       \/ Fails /\ Become(p, [run[p] EXCEPT !.pc = run[p].test.ends])
    /\ UNCHANGED <<disk, ghosts, begun>>

Calls   == {"act", "verify", "extract", "recover"}
Dry     == {"probe", "explain"}            \* resolved and never recorded
Current(p, i) == run[p].test.tasks[i][run[p].tasks[i].at]
MayCall(p, i) ==
    At(p, "steps") /\ run[p].tasks[i].pc = "ready" /\ run[p].tasks[i].at <= Len(run[p].test.tasks[i])

\* soft_assertions(), entered and left.
Soft(p, i) ==
    /\ MayCall(p, i)
    /\ LET t == run[p].tasks[i] IN
       \/ /\ Current(p, i).call = "soft"
          /\ Become(p, [run[p] EXCEPT !.soft = TRUE, !.tasks[i].before = run[p].soft, !.tasks[i].at = @ + 1])
       \/ /\ Current(p, i).call = "hard"
          /\ Become(p, [run[p] EXCEPT !.soft = t.before, !.tasks[i].at = @ + 1])
    /\ Works /\ UNCHANGED <<disk, ghosts, begun>>

\* A step sets out; whether a verification is soft is settled now.
Call(p, i) ==
    /\ MayCall(p, i) /\ Current(p, i).call \in Calls \union Dry
    /\ Become(p, [run[p] EXCEPT !.tasks[i].pc = "called", !.tasks[i].soft = run[p].soft])
    /\ Works /\ UNCHANGED <<disk, ghosts, begun>>

\* Its result is appended, and the screenshot of a failure is named, in one go.
Statuses(r, call) ==
    IF r.test.dry THEN {"dry_run"} ELSE {"passed", "failed"} \union IF call = "recover" THEN {"recovered"} ELSE {}
Appended(r, i, call, status) ==
    LET n == Len(r.results) + 1
    IN  [r EXCEPT !.results = Append(@, [step |-> call.step, status |-> status]),
                  !.softs = IF call.call = "verify" /\ r.tasks[i].soft /\ status = "failed" THEN @ \union {n} ELSE @]
Return(p, i) ==
    /\ run[p].tasks[i].pc = "called"
    /\ LET call == Current(p, i) IN
       \/ /\ call.call \in Dry
          /\ Become(p, [run[p] EXCEPT !.tasks[i] = [NewTask EXCEPT !.at = run[p].tasks[i].at + 1]])
       \/ /\ call.call \in Calls
          /\ \E status \in Statuses(run[p], call.call) :
                LET r == Appended(run[p], i, call, status) IN
                Become(p, IF status = "failed" /\ r.test.label
                          THEN [r EXCEPT !.tasks[i].pc = "shot", !.tasks[i].shot = Len(r.results)]
                          ELSE [r EXCEPT !.tasks[i].pc = "ready", !.tasks[i].at = @ + 1])
    /\ Works /\ UNCHANGED <<disk, ghosts, begun>>

\* _maybe_screenshot_on_failure awaits the page; a failure of it is swallowed.
\* A mistake: the file is named when the screenshot is there.
NameWhenTaken(r, i) == Len(r.results)
Name(r, i) == r.tasks[i].shot
Shoot(p, i) ==
    /\ run[p].tasks[i].pc = "shot"
    /\ LET r == [run[p] EXCEPT !.tasks[i].pc = "ready", !.tasks[i].at = @ + 1] IN
       \/ Works /\ Become(p, [r EXCEPT !.shots = @ \union {Name(run[p], i)}])
       \/ Fails /\ Become(p, r)
    /\ UNCHANGED <<disk, ghosts, begun>>

\* A step's outcome in a run: failed if it failed anywhere, else passed.
Good == {"passed", "recovered"}
With(results, s, statuses) == {i \in DOMAIN results : results[i].step = s /\ results[i].status \in statuses}
\* A mistake: the last occurrence decides.
PassedLast(results, s) ==
    With(results, s, Good) # {} /\ results[Max(With(results, s, Good \union {"failed"}))].status \in Good
Passed(results, s) == With(results, s, Good) # {} /\ With(results, s, {"failed"}) = {}

\* The steps with an outcome, each where it is first met; they are recorded in this order.
Observed(results) ==
    {i \in DOMAIN results : i = Min({Len(results) + 1} \union With(results, results[i].step, Good \union {"failed"}))}

\* assert_all_passed when the tasks are through, and the fixture's last picture of
\* a test that raised.
Conclude(p) ==
    /\ At(p, "steps") /\ \A i \in DOMAIN run[p].tasks : run[p].tasks[i].at > Len(run[p].test.tasks[i])
    /\ LET results == run[p].results
           raised  == \E i \in DOMAIN results : results[i].status = "failed"
           r == [run[p] EXCEPT !.raised = raised, !.left = Observed(results), !.pc = run[p].test.ends]
       IN  \/ Works /\ Become(p, [r EXCEPT !.shots = IF raised /\ r.test.label THEN @ \union {0} ELSE @])
           \/ raised /\ r.test.label /\ Fails /\ Become(p, r)
    /\ IF run[p].test.ends = "record"
       THEN truth' = [s \in Step |->
                [passed |-> truth[s].passed + IF With(run[p].results, s, Good) # {} /\ With(run[p].results, s, {"failed"}) = {} THEN 1 ELSE 0,
                 failed |-> truth[s].failed + IF With(run[p].results, s, {"failed"}) # {} THEN 1 ELSE 0]]
       ELSE UNCHANGED truth
    /\ UNCHANGED <<disk, written, begun>>
-----------------------------------------------------------------------------
\* pytest_sessionfinish: FlakyTracker.record_run, a statement and a commit per
\* step.  What fails leaves its transaction open: the rows executed in it wait for
\* the connection's next commit, its lock keeps every other process from writing,
\* and without the lock its snapshot keeps it from writing once another has.
Upserts(results, rows) ==
    [s \in Step |->
        IF \E i \in rows : results[i].step = s
        THEN [passes |-> history[s].passes + IF Passed(results, s) THEN 1 ELSE 0,
              fails  |-> history[s].fails + IF Passed(results, s) THEN 0 ELSE 1]
        ELSE history[s]]
MayWrite(p) == run[p].snap \in {NoSnapshot, history} /\ \A q \in Proc : run[q].lock => q = p

Recorded(p, i, r) ==
    /\ MayWrite(p) /\ Works
    /\ history' = Upserts(run[p].results, run[p].held \union {i})
    /\ Become(p, [r EXCEPT !.snap = NoSnapshot, !.held = {}, !.lock = FALSE])

\* It failed before the lock was taken, or was not granted the lock.
Refused(p, r) ==
    /\ IF MayWrite(p) THEN Fails ELSE Works
    /\ \E snap \in {run[p].snap, history} :
          Become(p, [r EXCEPT !.snap = IF run[p].snap = NoSnapshot THEN snap ELSE @])
    /\ UNCHANGED history

\* It failed with the lock: the statement, or the commit after it.
Broken(p, i, r) ==
    /\ MayWrite(p) /\ Fails
    /\ \E held \in {run[p].held, run[p].held \union {i}} :
          Become(p, [r EXCEPT !.snap = history, !.held = held, !.lock = TRUE])
    /\ UNCHANGED history

Record(p) ==
    /\ At(p, "record") /\ run[p].left # {}
    /\ LET i == Min(run[p].left)
           r == [run[p] EXCEPT !.left = @ \ {i}]
       IN  Recorded(p, i, r) \/ Refused(p, r) \/ Broken(p, i, r)
    /\ UNCHANGED <<manifest, page, ghosts, begun>>

\* classify.  A mistake: a step that never passed counts.
ClassifyUnstable(row) ==
    LET runs == row.passes + row.fails
    IN  runs >= MinRuns /\ row.fails > 0 /\ 100 * row.passes < Threshold * runs
Classify(row) ==
    LET runs == row.passes + row.fails
    IN  runs >= MinRuns /\ row.passes > 0 /\ row.fails > 0 /\ 100 * row.passes < Threshold * runs

\* flaky_index: what the connection sees, its own rows included; nothing on an error.
Seen(r) ==
    IF r.lock THEN Upserts(r.results, r.held) ELSE IF r.snap = NoSnapshot THEN history ELSE r.snap
Index(p) ==
    /\ At(p, "record") /\ run[p].left = {}
    /\ LET r == [run[p] EXCEPT !.pc = "junit"] IN
       \/ Works /\ Become(p, [r EXCEPT !.flaky = {s \in Step : Classify(Seen(run[p])[s])}])
       \/ Fails /\ Become(p, r)
    /\ UNCHANGED <<disk, ghosts, begun>>

\* build_junit_tree: the test case of each result.
Case(r, result) ==
    CASE result.status \in Good      -> "passed"
      [] result.status = "dry_run"   -> "skipped"
      [] result.status = "failed"    -> IF Quarantine /\ result.step \in r.flaky THEN "skipped" ELSE "failed"
Junit(p) ==
    /\ At(p, "junit")
    /\ Become(p, [NoRun EXCEPT !.junit = [i \in DOMAIN run[p].results |->
            [result |-> run[p].results[i], case |-> Case(run[p], run[p].results[i])]]])
    /\ Works /\ UNCHANGED <<disk, ghosts, begun>>
-----------------------------------------------------------------------------
\* write_summary: the manifest is read and this test put into it; one that cannot
\* be read starts fresh.
Upsert(runs, name) == (runs \ {name}) \union {name}
Header(title, stored) == IF title # "none" THEN title ELSE IF stored # "none" THEN stored ELSE "default"
Load(p) ==
    /\ At(p, "summary")
    /\ LET old == IF manifest.torn THEN Fresh ELSE manifest
           t   == run[p].test
       IN  Become(p, [run[p] EXCEPT !.pc = "tear",
                        !.mine = [old EXCEPT !.runs = Upsert(@, t.name), !.title = Header(t.title, @)]])
    /\ Works /\ UNCHANGED <<disk, ghosts, begun>>

\* write_text cuts the file off before it writes.
Tear(p) ==
    /\ At(p, "tear") /\ manifest' = Torn
    /\ Become(p, [run[p] EXCEPT !.pc = "save"])
    /\ Works /\ UNCHANGED <<history, page, ghosts, begun>>
Save(p) ==
    /\ At(p, "save") /\ manifest' = run[p].mine
    /\ Become(p, [run[p] EXCEPT !.pc = "render"])
    /\ Works /\ UNCHANGED <<history, page, ghosts, begun>>

\* The page shows the tests of the manifest as this process saved it.
Render(p) ==
    /\ At(p, "render") /\ page' = run[p].mine.runs
    /\ written' = written \union {run[p].test.name}
    /\ Become(p, NoRun)
    /\ Works /\ UNCHANGED <<history, manifest, truth, begun>>

\* A process is killed among its reports; its transaction is rolled back.
Die(p) ==
    /\ run[p].pc \in {"record", "junit", "save", "render"} /\ Fails
    /\ Become(p, NoRun)
    /\ UNCHANGED <<disk, ghosts, begun>>
-----------------------------------------------------------------------------
TaskOf(p, i) == Soft(p, i) \/ Call(p, i) \/ Return(p, i) \/ Shoot(p, i)
Process(p) ==
    \/ Launch(p) \/ Enter(p) \/ (\E i \in DOMAIN run[p].tasks : TaskOf(p, i)) \/ Conclude(p)
    \/ Record(p) \/ Index(p) \/ Junit(p) \/ Load(p) \/ Tear(p) \/ Save(p) \/ Render(p) \/ Die(p)

AllOver == begun = MaxRuns /\ \A p \in Proc : At(p, "over")
Done == AllOver /\ UNCHANGED vars
Next == (\E p \in Proc : Process(p)) \/ Done
Spec == Init /\ [][Next]_vars
-----------------------------------------------------------------------------
Failed(r) == {i \in DOMAIN r.results : r.results[i].status = "failed"}

\* A picture step<N>.png shows the failure of step N, whatever other tasks did
\* while it was taken, and where none failed to be taken every failure has one
\* (session.py: _maybe_screenshot_on_failure).
EachFailureHasItsShot ==
    \A p \in Proc : LET r == run[p] IN
        /\ r.shots \ {0} \subseteq Failed(r)
        /\ errors = MaxErrors /\ r.pc \notin {"enter", "steps"} /\ r.test.label => Failed(r) \subseteq r.shots

\* The history counts a run at most once per step, and as a fail where the step
\* failed anywhere in it; with no failing statement it counts every run
\* (flaky.py: record_run, layer.py: record_flaky_outcome).
HistoryCountsAddUp ==
    /\ \A s \in Step : history[s].passes <= truth[s].passed /\ history[s].fails <= truth[s].failed
    /\ errors = MaxErrors /\ (\A p \in Proc : ~At(p, "record")) =>
          \A s \in Step : history[s].passes = truth[s].passed /\ history[s].fails = truth[s].failed

\* Quarantine hides no broken step: a failure is skipped only where runs passed
\* and failed, often enough; every other failure fails the build (junit_report.py).
QuarantineOnlyIntermittent ==
    \A p \in Proc : \A c \in Range(run[p].junit) : c.result.status = "failed" =>
        \/ c.case = "failed"
        \/ LET t == truth[c.result.step] IN t.passed > 0 /\ t.failed > 0 /\ t.passed + t.failed >= MinRuns
-----------------------------------------------------------------------------
\* When all is written, the manifest the page is rebuilt from holds every test
\* whose summary was (summary_report.py: "it always shows all tests").
SummaryKeepsAll == AllOver => written \subseteq manifest.runs
=============================================================================
