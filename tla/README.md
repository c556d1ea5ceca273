# Bubblegum in TLA+

Bubblegum turns one line of plain English ("Click Save") into an action on a web
page or a mobile screen, and heals the step when the page changes. This directory
specifies the parts of it in which that can go wrong: how a target is chosen, how
it is remembered and shared between runs and processes, what a step, a check and a
selection do on a page that moves under them, and how results reach their reports
when tasks, processes and the two ends of a bridge interleave and fail.

Contents: [the system](#the-system), [modules](#modules), [runs](#runs),
[bounds](#bounds-and-why-they-are-enough), [fairness](#fairness),
[proofs](#proofs), [findings](#where-code-and-documents-disagree),
[what is not modelled](#what-is-not-modelled), [plan](#plan).

## The system

A test calls the SDK (`bubblegum/core/sdk.py`), directly, through a
`BubblegumSession`, a pytest fixture, BDD steps, or from Node over a JSON-RPC
bridge. The SDK takes a snapshot of the screen through an adapter (Playwright,
Appium), asks the grounding engine for a target, has the adapter execute it, and
records the target that worked in a SQLite file, which the next run reads back.

| Component | State it keeps | Operations | Hard because |
|---|---|---|---|
| Memory layer, `core/memory/layer.py` | table `bubblegum_memory` in `memory.db`: per (screen, step) a target, date of the last success, success and failure counts | record_success, record_failure, lookup, export, import_from | rows of two databases are merged column by column; entries expire and are retired |
| The same file in parallel runs | a connection per process: transaction, snapshot, write lock | execute, commit, close | busy timeouts, deaths, errors that are swallowed |
| Resolvers, `core/grounding/resolvers` | none | resolve: candidates with confidences and signals | what a replay scores differs from what it scored when it won |
| Ranking, `ranker.py`, `signals.py` | none | score, order, deduplicate, ambiguity | thresholds, ties, equal elements |
| Engine, `core/grounding/engine.py` | budget spent, decision cache | ground | tiers in two orders, cost policy, awaits between check and charge |
| SDK runner, `core/sdk.py` | the call's context and target | act, recover | the page changes at every await; five places a target may come from; each may fail |
| Web steps: DOM finders, actions and dropdowns, `adapters/web/playwright/adapter.py` | markers on the page, the widgets' selections | resolve_*, execute, custom_select | re-renders between finding and acting, retries of what took effect, focus that moves selects by accident |
| Checks: verify(), extract() in `core/sdk.py`, `visual.py`, `table.py`, `network.py` | baselines, recorded responses | verify, extract | words of several checks in one sentence; pages that change and readings that fail while it waits |
| Mobile steps: `core/mobile`, `adapters/mobile/appium` | the driver's context | act, verify, extract, device actions | one driver, each access may fail; labels, fields and rows that read alike; scrolling; alerts |
| Webview switching, `core/mobile/webview_*.py` | the driver's context | readiness, switch, operate, restore | each may fail, the switch also after it took effect |
| Session and scope, `session.py` | results, soft failures, picture numbers, scope stack | act ..., soft_assertions, close | tasks share one session |
| Flaky tracking, `flaky.py`, `pytest_plugin.py` | table `flaky_steps` | record_run, quarantine in JUnit | collapse of repeats, processes that end at once, failing statements |
| Reports, `reporting/` | the summary's manifest | upsert, render | read, change, write by several processes |
| Bridge server, `bridge/` | session table, report cursor | session.open, act, report.write, session.close | factories and teardowns that fail half-way, end of input, death |
| Node client, `clients/node` | pending requests | launch, call, report, close | answers, exit and close in any order |
| Model providers, `core/models` | none | complete, retry, ask again without a schema | what an attempt that failed has cost |
| Embeddings, OCR, parser, element graph, recorder, converter, BDD, CLI | mostly none | I/O and text | outside a model's reach, or pure formatting |

How they interact: `act()` calls the adapter (snapshot), then the engine, which
calls the resolvers; one of these, the memory cache, reads the memory layer, and
one, the LLM resolver, awaits a model, consults the decision cache and charges the
cost tracker. `act()` then calls the adapter (execute) and writes the memory layer.
The session collects what `act()`, `verify()` and `extract()` return, and at its end
the plugin writes the flaky history (the same `memory.db`) and the JUnit report; the
bridge keeps one session per `session.open`, and reports from a cursor. Everything but
the model call, the browser and sleeping is synchronous inside one event loop;
processes share `memory.db`, exported cache files and the summary's manifest.

What must hold, by component:

* **memory**: a row pairs a locator with a success it really had; importing does
  not invent successes; an expired or retired entry needs evidence to come back;
  parallel workers lose no update and see each other's.
* **engine**: it never guesses between equally good elements; where no model is asked,
  calls end as the deterministic tiers decide, but for what a policy refuses; a replayed
  step finds what it recorded; spend is bounded whatever the concurrency.
* **runner**: a substitution is reported whenever it happens or is replayed; a row
  belongs to the screen it is filed under; the tester's safety net is really tried.
* **web steps**: an action lands where the finder looked or the step fails; it is done
  once, and once more for each time it took effect and was reported as a timeout; probing
  dropdowns leaves nothing selected by accident; a panel of items is confirmed with all
  the values of the step or not at all.
* **checks**: a pass was true at some moment of the call; what is true is confirmed;
  a failed screenshot is not accepted by looking twice.
* **mobile**: gestures are aimed at what the step names, in fields for text; what is
  repeated was reported as passing; the driver comes back to its context.
* **session, flaky, reports**: a picture shows the step it is named for; a history
  counts each run once; quarantine hides no step that is simply broken.
* **bridge**: every request settles once and says what happened; a step never loses
  its browser; no step is missing from, or twice in, the reports.

## Modules

An arrow is EXTENDS; `~>` a refinement.

```
CacheRow -> MemoryLayer                 Ranking -> PageResolvers -> Tiers -> Grounding
        `-> SharedMemory ~> MemoryLayer                                 `-> StepRunner
Calls <~ Bridge                         DomFinders, Combobox -> WebStep
Verify                                  ScreenTargets, Surfaces -> MobileStep
TestRun
```

Each state machine `M` has an instance `MCM` for TLC, and most a module `MProofs`.

**CacheRow** is a row of `bubblegum_memory` and what each SQL statement makes of it
(`SuccessRow`, `FailureRow`, `MergeColumns`, `ReplaceRow`), and lookup's staleness
checks. The four columns ref, confidence, resolver_name and metadata_json, which
are always written together, are one payload; dates are days.

**MemoryLayer** is what callers see: several databases (`store`, one table per
site), an exported `file`, the date, and one atomic action per public operation.
`observed` and `wins` are history: the successes that really happened.

**SharedMemory** is the same table as several processes share it. `Enter` (through
`RecordSuccess`, `RecordFailure`, `Import`) is Python's implicit BEGIN, `Execute` a
statement, `Commit` the commit, `GiveUp` the "database is locked" error and `Break` any
other error of a statement or a commit. `record_*` swallow these and `import_from` raises
them, and nobody rolls back: what the call had executed stays in the open transaction,
with the lock, until the connection's next commit publishes it (`broke`).
`Lookup` is a SELECT, which pins a snapshot if a transaction happens to be open;
`Close` is close(), the death of the process, or an error at which SQLite ends the
transaction itself. SQLite's WAL rules (one writer; a
reader whose snapshot is old may not write) are modelled from their documented
behaviour. `Layer` is the refinement mapping: the committed table is
MemoryLayer's store of a single site, and a commit one of its operations, without the
bounds of that module, unless it publishes leftovers.

**Ranking** is `CandidateRanker`, `role_fit_score`, the deduplication of candidates
by ref and the ambiguity check. Scores are integers in basis points (0.85 is 8500).

**PageResolvers** gives, for a page (a sequence of role and label), the candidates
each resolver returns. How a label compares with the step's phrase is a constant
(`NameMatch`, `FuzzyRatio`): string matching is not modelled, everything decided from
its result is.

**Tiers** composes them: what a deterministic tier returns, the choice in it, and the
review-band fallback with its dropdown relaxation. `Offline` is `ground()` when no
model is asked.

**Grounding** is `ground()` as concurrent calls: `Begin`, a step per tier
(`RunDeterministic`), the cost gate (`BlockAI`), the LLM tier without (`SkipModel`)
and with a model call (`AskModel`, then `ModelAnswers` and, for the escalation model,
`StrongModelAnswers`; in between `Retry` is another attempt after a
passing error and `AskPlainly` one without a schema the API refused), `Exhaust` for the fallback, `Return` for the caller, who may
record the target, and `NewRun` for a new process. `decided` is the decision cache,
`spent` the cost tracker, `recorded` the recorded target. A model may answer any ref on
the page, one that is not there, nothing, or fail.

**StepRunner** is `act()` and `recover()` for one click step on the web. `call` carries
what the coroutine's locals do: its context (`ctx`: the page the resolvers see and the
signature rows are filed under), retries, the target and the alternative being
tried. Every await is a place where `PageChanges` may come in between: the page
becomes another one and elements stop or start answering. `PreResolve` stands for the
DOM resolvers that run before grounding, `FallBack` and `Heal` for those after it: what
they find is left open, any element that matches. `Record` writes the row of the
call's signature. A suite says whether its tests call `recover()`.

Refs are `<<role, name>>`, `<<"text", name>>` and `<<"css", name>>`, where the last stands
for a selector, whose element is not decided by the snapshot. A `healing` note stands
for the advisory in a target's metadata ("execution" for the note of a failed
execution that was rescued).

**Calls** is what the bridge promises: an issued call is performed at most once, its
promise settles once, with what the engine did, and closing settles whatever is open.

**Bridge** is the Node client, the pipe and the Python engine. On the client's side
`Launch` ... `ClosedMine` are `Bubblegum.launch()` and `close()` with their error paths,
`Task` any concurrent call, `Settle` and `Hang` what an answer and the exit event do
to the pending map. `inbox` and `outbox` are the pipe. `Send` writes a line; to an engine
that is gone this raises an error event on its stdin that the client does not listen
for, and `Uncaught` is the end of the client's process by it (`host`). The engine takes a line at a time
(`Begin`), works on it through awaits that may fail (`LaunchHandle`, `Enter`, `Step`,
`Teardown`), writes the answer, and at the end of input closes what is open
(`CloseAll`). It may also be terminated or crash. `table` is the session table,
`handle` each session's browser, `cursor` the report cursor; `ran` and `told` are history.
`C` maps it to Calls: a call is performed when the engine is done with it.

**DomFinders** says what each resolver of the Playwright adapter picks from a page: the
word overlap, section and modal scoping, tie-breaks by position, and the disqualifiers of
`resolve_*`. A text is the set of its words. **Combobox** is `custom_select`: opening,
typing, clicking an option, looking whether it took, probing the other dropdowns, undoing
what probing selected (a few items, or fewer when a click fails), and panels with items and
a confirm button: `draft` is what a panel on screen shows as ticked, and the clicks on items,
Cancel and OK may each raise, with or without their effect. **WebStep** composes
both into the steps of a script: `Resolve` (finders ahead of grounding), `Ground` (any
element or none: the engine is Grounding's subject), `FallBack`, the attempt that fails
before it does anything (`CannotAct`) or does it (`DoAction`, which may still be reported
as a timeout: `lates`), with the choice among several matches (`Struck`) and the retry,
`Recover`, while `Rerender`, `DialogFlips` and `ControlFlips` are what a page does on its
own. A finder marks what it found with an attribute (`mark`) and the action looks it up
again, which is what a re-render in between breaks.

**Verify** is `verify()` on the web: `Route` is the chain of conditions that decides which
check a sentence is, `Probe...` what each reads of the page, then the waits, falls back and
second looks of each, screenshots with baselines, recorded responses, and the audit; and
`extract()`. A reading may fail (`Faults`), and so may the second look at a text; an absence
that passes on such an error is marked (`blind`). A sentence is the set of the kinds of words it has, and `facts`, what its
author means, which only the properties read. `hist` is history: which facts held when.

**ScreenTargets** is what a step finds on a mobile screen: the hierarchy resolver's
candidates and scores, field association, rows, compaction, what vision sees of a screenshot
and the elements its refs stand for, canvas routing.
**Surfaces** is the decision whether an operation may be done in a webview: surface,
diagnosis, guardrails, eligibility, selection, configuration. **MobileStep** composes them
into `act`, `verify`, `extract` and device actions over one driver, whose every access is a
step of its own that may fail, with readiness, alerts, scrolling, the wait for an element to be
displayed (`Wait`), emptying a field before typing (`Clear`), points tapped on a picture, and
the switch to a webview and back.

**TestRun** is a test from its first step to its reports, in several processes: tasks that
share a session (`Call`, `Return`, `Shoot`), soft assertions, `Conclude`, the flaky history
(`Record`: a statement and a commit per step, which is `Recorded`, `Refused` for want of the
lock, or `Broken` with its row and the lock left in the open transaction; `Index`), the JUnit verdicts (`Junit`), the summary's manifest (`Load`, `Tear`,
`Save`, `Render`) and `Die` at any point. `truth` and `written` are history.

The MC modules give the constants their small instances. Definitions whose comment
says "a mistake" are variants of the definition after them, as a plausible bug would
have it; nothing in the specifications uses them. Each property listed under `runs`
in `PROJECT.json` fails when such a variant takes its definition's place, which shows that
the run's bounds reach the situation the property is about.

## Runs

`tlc -config X.cfg M`, in this directory. Passing runs:

| Configuration | Module | Distinct states | Shows |
|---|---|---|---|
| MemoryLayer.cfg | MCMemoryLayer | 25,920 | `Provenance`, `CountsNotInflated`, `RevivedOnlyByEvidence` over two databases exchanging a file both ways |
| SharedMemory.cfg | MCSharedMemory | 218,748 | two processes implement MemoryLayer (`ImplementsLayer`), a call that did not fail leaves neither transaction nor lock behind (`NothingStaysOpen`), calls return, and a connection none of whose writes failed sees what is committed (`SharedUnlessGaveUp`) |
| Grounding.cfg | MCGrounding | 1,135,103 | `NoGuessBetweenRivals`, `AIOffIsDeterministic`, `WarmCallsAgree` on every page of up to two elements, and the first on crowded ones of three; `SpendBounded` for two concurrent calls, with and without an escalation model, in both tier orders |
| StepRunner.cfg | MCStepRunner | 524,904 | `HealedStepsAreReported`, `SafetyNetTried`, `RowsMatchTheirPage` for act(), and act() with recover() |
| Bridge.cfg | MCBridge | 465,286 | client, pipe and engine implement Calls; every call settles; no step loses its browser (`CallsUseLiveHandles`); a browser left behind was reported (`OrphansAreReported`); reports tell each step once |
| WebStep.cfg | MCWebStep | 59,918 | steps on moving pages land where found and leave controls as said, up to clicks that are reported late and made again; dropdowns take what the step says and nothing else, panels all of it or nothing; every step ends |
| Verify.cfg | MCVerify | 50,990 | passes were true, truths pass, the explicit type wins, baselines change on request, every call ends |
| MobileStep.cfg | MCMobileStep | 175,396 | the context comes back, gestures are aimed at what is named and repeated only on passing errors, or by the tester's selector after a reported failure, compaction changes no outcome, every call ends |
| TestRun.cfg | MCTestRun | 4,639,119 | pictures, flaky history and quarantine of two processes with concurrent tasks |

Three more configurations check one sentence of a document or comment each, which the code
contradicts (see [below](#where-code-and-documents-disagree)).

Type invariants are in every module of the proofs and are checked where they are listed;
`SharedMemory!TypeOK` is proved. Deadlock checking is off where a model comes to rest by
itself: MemoryLayer (its bounds are used up), Bridge (a closed client has nothing more to
do), WebStep and Verify (the script is over; that it gets there is `StepsEnd` and
`VerifyEnds`). MobileStep and TestRun say when they are over (`Finished`, `Done`), so
that a deadlock anywhere else would be found.

### What the properties mean

Each is explained where it is defined; the ones with most to them:

* `Provenance`: a row never dates one target with another target's success, through
  any sequence of merges. It is what makes expiry mean something.
* `RevivedOnlyByEvidence`: a row lookup refuses becomes usable only by a success today or
  the import of a row that passes the check this one failed.
* `NothingStaysOpen`: a connection whose writes did not fail holds no lock and no transaction
  between its calls. The case with most to it is a failure recorded for a step without a row:
  the UPDATE matches nothing and still takes the lock, which only the commit gives back.
* `SharedUnlessGaveUp`: sharing holds, except on a connection with a failed write, for a
  swallowed busy timeout say, and there it is lost until a commit or a close.
* `ImplementsLayer`: the committed table moves by whole operations, with one exception. A failed
  call's statements are published by the connection's next commit (`Leftovers`): a half of an
  import, or a success that was reported as not recorded. It loses no row and no success.
* `NoGuessBetweenRivals`: a target found on the page has no rival at another locator that the
  resolvers cannot tell from it: an equal name match and ratio, a role that fits as well and
  aligns as well with the hint, and as many elements behind its locator. Less than that is
  no rival: an element that occurs twice loses 0.06 for not being unique, more than the gap.
  For a dropdown step the relaxation tells a combobox from a button of the same name, so
  these are no rivals there; and with a model such a step is left out, because there the
  property does not hold: of a combobox and a listbox that match the step alike but weakly, the
  model names one below the bar, what it names carries no role, and the relaxation
  takes the other for the only combobox on the page.
* `AIOffIsDeterministic`: with no model configured, every order of tiers and every budget ends
  as Tiers 1 and 2 alone do, fallback included. With max_cost_level low, with a model or
  without, it does so only where one of the two tiers ends the search by itself: where none
  does, the gate of the AI tier fails the call as blocked by cost, before the
  fallback, so that a match in the review band is refused which resolves where the
  policy is not low.
* `WarmCallsAgree`: on an unchanged page a recorded step finds its recorded element
  again, although its replay is scored from other signals. For steps that are not about a
  dropdown: there the relaxation may take target and replay for two comboboxes.
* `SpendBounded`: concurrent calls that pass the budget check together overspend by less
  than the completions they may order. The README's "hard stop" is soft by that much.
* `ImplementsCalls` and `EveryCallSettles`: answers, the exit event and close() race for each
  pending promise; exactly one settles it, and a resolved one was performed.
* `EachStepReportedOnce`: the cursor moves only when a report was written, so a report
  that fails repeats its steps in the next and none is told twice.
* `LandsWhereFound`, `DoneAsSaid`: between a finder and its action the page may re-render
  or a dialog cover it. What is acted on carries the finder's mark; what a checkbox or a
  panel was when it was found may have flipped. A click that took effect and was reported as
  a timeout is made again (`lates` counts these): harmless for a checkbox, whose state is read
  before each click and which ends as the step says; a panel it flips back, so that a passed
  panel step ends as it says exactly if no click on it was reported late. Beyond
  the late reports a step acts once. Flips by the app itself (`outside`) are left out.
* `PanelAllOrNothing`: whichever clicks on items, Cancel or OK raise, a panel with a confirm button
  applies all values of the step, with what it showed as ticked when the step came to it, or
  nothing. What it shows then may be what a failed step before it left ticked; that this is
  confirmed too is a finding (WebStep_panel.cfg).
* `WordsDecide`: what is found covers the words of the step best; position breaks ties only.
* `OthersUntouched`: while a value is looked for in one dropdown after the other, each that
  loses the focus may select its highlighted option; at the end none but the step's own
  has a selection it did not have (nor the one that had the focus when the step began).
  `PassedMeansSelected` is its counterpart. Each condition of the two is needed: TLC finds
  a counterexample without it. A list that stays on screen but takes no click is undone
  after the widget opened last, which then loses the focus and may select (`StayingOpens`); an element that is no dropdown is not looked at
  after the click (`TakenByWidget`); and as labels that contain each other count as equal,
  the click for "Tea" may take "Green tea" off again (`ValuesApart`).
* `PassWasWitnessed` and `TruthPasses`: over a page that changes twice while it is being read,
  a pass was true at some moment, what holds throughout (or comes and stays, for the checks
  that wait) is confirmed. Left out is a presence or absence after a reading that failed:
  `_verify_present` and `_verify_absent` then look for the name as a text, and a page with
  the text of a removed button passes. An absence counts as seen also if that look failed (`blind`).
* `RepeatsOnlyTransient`: on one ref a gesture is repeated once, directly, and only after a report
  that passes; nothing follows one that was reported done. The tester's selector comes last
  and may repeat a gesture that took effect and was reported failed.
* `ContextRestored`: a call that passes with a value verified or read leaves the driver in the
  context it was in, whatever switch, operation and restore did. A switch that reports
  a failure after it took effect is not undone; the call fails then.
* `CompactionKeepsOutcome`: grounding in a compacted hierarchy finds what the whole one does.
* `EachFailureHasItsShot`: tasks append results while another's picture is being taken; the
  number in its name still is that of the failure.
* `QuarantineOnlyIntermittent`: what JUnit reports as skipped passed and failed, often enough.

## Bounds, and why they are enough

* MemoryLayer: 2 sites, 1 key, 2 payloads, ttl 1 day, clock to day 2, 3 successes and
  2 failures per row. Operations on different keys touch different rows and no action
  relates two keys, so one key is general; two payloads and a file that may go both
  ways suffice for a merge of unequal rows, and day 2 lets a row expire. The proofs
  remove all these bounds. Sites and payloads are symmetric.
* SharedMemory: 2 processes, 2 keys (an import of more than one row may be interrupted
  between them), 1 payload, 1 success per key before new calls stop, and one statement or
  commit that fails for another reason than the lock (`MaxBreaks`). `MaxFails` = 0: failures are
  recorded for keys without a row, but another process may commit one before the statement
  runs, so rows with a failure occur; MemoryLayer.cfg has the failures in a row. A run takes less than a day (`Today`); a cache file
  is not exported while one is being imported. The proofs remove the bounds.
* Grounding: pages of up to two elements out of three roles and five labels, one for each
  way to compare with the phrase (the phrase itself, a synonym, a partial match that
  fuzzy matching accepts, one that it rejects, and no match), steps click (with and
  without a kind hint), verify, and click with a selector. Choice and ambiguity concern
  a first and a second candidate, which two elements and their text and memory
  candidates provide; uniqueness is a third element's doing, so the calls of `Crowd` have
  three, of four roles and two labels. `MCCases` splits the instance: one call on every page where nothing
  is shared while it runs (no model), two calls on few pages where the budget and the
  decision cache are. `MaxSpent` bounds the spend where no budget does; a completion has
  one attempt after the first (`MaxRetries` = 1), and a request with a schema (the strong
  model's) may be refused once.
* StepRunner: three pages (the element and a synonym of it, only the synonym, two
  elements no one can tell apart), four outages (none, one element, the selectors, all),
  one retry. A suite has two of the pages; one calls `recover()` and one does not. A call
  holds at most three refs (the target, an alternative, the selector), which two pages
  and four outages can make fail or answer in every combination.
* Bridge: five calls, enough for two sessions with a step, a close or a report between
  them; two steps per session; one engine, which may crash. Every await of the engine may
  fail. The proofs remove these bounds.
* WebStep: scripts of one or two steps on pages of up to six elements, one page for each
  case the finders tell apart (namesakes in two sections, a dialog and what is behind
  it, tables, ranges, uploads, an overflow menu), and dropdowns in pairs, out of six shapes
  of widget and three of neighbour (lists and tags that search or do not, that stay open,
  select on blur, or do not open); panels with and without confirmation, left open by a step
  that failed and opened by the next. `MaxEvents` = 2: of re-renders, flips, attempts that
  cannot act and late reports, what one step can meet between finding, acting and retrying;
  one retry. Clicks in dropdowns and panels may fail at any time. `MaxOthers` is the code's 6; `MaxRemovals` = 1,
  so that an item may stay for want of attempts as well as by a failing click. `TextOf` gives an option the words that a
  trigger displays, which a finder counts. The second step of a script meets the marks and the focus the first left.
* Verify: a page and up to three that it may turn into, for each check; `MaxChanges` = 2,
  so that something may come and go within one call; `Timeout` = 2 looks, `MaxErrors` = 2
  failed readings (a count and the look at the text after it), `Tolerance` = 1 for screenshots that differ by 0, 1, 2 and 3. For
  the routing, every sentence with any three of the eighteen kinds of words, or with any two
  and each explicit type.
* MobileStep: apps of one to four screens, one for each case: a form with a label, its field
  and a lookalike, lists (three screens long, endless, at once at the end), rows, a screen that
  draws itself, screenshots whose texts one, two or no elements of the hierarchy bear, a stuck one under an alert, and a hybrid app with one webview, two, none, and
  a browser. Twice something changes by itself, two accesses to the driver fail: a switch and
  its restore, or a gesture and its repetition.
* TestRun: two processes, three runs between them of five tests (a loop over one step, a dry
  run, two tasks with soft assertions, two of the bridge), one failing statement, picture or
  bootstrap. A row needs two runs to be classified (`MinRuns` = 2), the threshold is the code's
  default. Processes are interchangeable, so symmetry on them is sound for the
  invariants the run checks.

Scores: the code computes with floats rounded to four decimals; the model with basis
points. They differ only where a gap equals a threshold up to a rounding error of the
float subtraction.

## Fairness

Liveness is stated where the code promises an end, under what its scheduling gives:

* SharedMemory: `WF_vars(Running(w))` for a process inside a call. SQLite answers every
  statement, at the latest when the busy timeout expires, and the code around it does
  nothing but the next statement or the commit. Calls and closes are not assumed.
* Bridge: `WF_vars(Serve)`, as the event loop resumes the engine whenever an await ends, and
  Playwright's calls end by their timeouts; `WF_vars(Deliver)`, as Node reads its pipe;
  `WF_vars(HearExit)`, as it emits a child's exit. That anything is asked, closed or killed
  is not assumed.
* WebStep, Verify: `WF_vars(Script)`. The script is one coroutine whose every await ends by a
  timeout. The page's own steps are not fair, and bounded.
* MobileStep: the same, written out: `call` changes again and again until the script is over.
  TLC evaluates this form faster than ENABLED of so large an action; it says the same,
  as `Script` is enabled until the script is over and every step of it changes `call`.
* Grounding, StepRunner and TestRun state none: their properties are safety properties. That
  `act()` ends is `StepsEnd` of WebStep, with the loops in it.

## Proofs

Checked with `tlapm`; they hold for all values of the constants that satisfy the ASSUMEs of
the modules (finitely many processes or calls, natural numbers, records of their types).

*MemoryLayerProofs*, for any number of databases, keys, payloads and days:

* `TypeCorrect`: `Spec => []TypeOK`.
* `RowsTraceToSuccesses` and `SuccessesCountedOnce`: `Provenance` and `CountsNotInflated`. Neither
  is inductive on tables alone: a merge takes rows from the file, so the invariant speaks of
  every row of every site and of the file at once (`RowsGood`), and a merged row is good
  because the payload and its date come from the same one of two good rows, and its count is
  one of theirs (`MergeColumnsPicks` and the other lemmas on what an SQL statement does to a row).
* `RevivalNeedsEvidence`: the action property `RevivedOnlyByEvidence`, from type correctness
  and a case per action; only recording a success and an import can revive a row.

*SharedMemoryProofs*, for any number of processes and keys:

* `CallsEndTheirTransactions` (`NothingStaysOpen`) and `BlindOnlyAfterGivingUp` (`SharedUnlessGaveUp`).
  `LInv` says that a connection has a transaction during its calls and outside them only after
  a failed write (`Transactions`), that a snapshot not known to be old is what is committed,
  that a holder outside a call has failed, and that what it holds changes the
  committed table only if it wrote something, which loses no row (`Locking`, `PendingKeeps`):
  a commit of an UPDATE that matched nothing leaves the others' snapshots current because
  it changes nothing.

* `SharedMemoryIsOneLayer`: the refinement `Spec => ImplementsLayer`. `Transacted` says what the
  holder's transaction is after some of its statements, where no failed call has left anything
  in it: the operation's rows where one was executed, the committed ones elsewhere, so
  that the commit of the last is the whole operation (`CommitImplements`). A commit with
  leftovers publishes more, and `PendingKeeps` is why it loses nothing (`CommitPublishes`).

*GroundingProofs*, for any number of calls, any budget and price and any answers:

* `SpendStaysBounded`: `SpendBounded`. A call in flight has passed the check and has not been
  charged, so the bound on `spent` alone is not kept by `ModelAnswers`. The invariant
  `SpendInv` bounds the spend plus the price of what the calls in flight may still be
  charged (`Owed`: two completions for a call awaiting the fast model when there is a
  strong one, one for a call awaiting its last): asking keeps it because the check
  leaves room for every call's completions, and an answer moves its price from `Owed`
  to `spent`. A completion is taken to cost at most `Price`,
  and an attempt without an answer nothing: the code charges what an answer reports.
* `AIOffChangesNothing` (`AIOffIsDeterministic`). `OfflineInv` follows what a call has
  gathered: what the deterministic tiers behind it find, which was not good enough. That
  the AI tier may lie anywhere between them, and that joining its empty result changes
  nothing, is what `JoinsNothing` and the sequence lemmas are for. Where the cost
  policy is low, the AI tier ends the call when its turn comes, so that a call is done by
  one of the two tiers or blocked (`EndsUnaided`).
* `WarmCallsFindTheSame` (`WarmCallsAgree`). What a call finds depends on the row it has read, and
  the row on what earlier calls found, so the property is not kept by itself. `RowInv`
  follows the row: it is missing, or a replay of the target a call without a row finds,
  or of a replay of that (`Warm`, `Kin`). What is left is that one call with such a row
  finds the row's element (`RowAgrees`). A replay scores 800 more than the target or as
  much (`ReplayOfKin`), and a tier can end in three ways: the target alone was sure enough
  and the row is too; no tier decides, with the row or without; or the fallback takes the
  best of all, where the row may stand in the target's stead because it ranks no lower
  and the other refs' best candidates are what they were (`Stead`, `StillChosen`,
  `OthersSame`). What the resolvers yield is bounded by the lemmas of *StepRunnerProofs*,
  which this module extends. `GroundingAssumption` says that a step comes from the parser
  and that a selector in it is CSS, as in the runs.
* `RivalsAreNeverGuessed` (`NoGuessBetweenRivals`). Of two elements alike, the tree and the
  fuzzy resolver find both or neither, with signals and confidences that differ in nothing
  that counts (`TwinsFound`, `PageMarks`), so wherever one is a candidate, the other scores
  as much, and a choice of the first would be within the gap of the second
  (`PickedApart`). That must survive what could favour one of them: the deduplications,
  which keep the best of each ref (`Representative`), a row, whose replay outranks
  what the tree finds at its ref and so is not mistaken for it (`Outranks`), an undecided
  model answer, and the relaxation, which takes a lone combobox (`OnlyFair`). `FairInv` carries it:
  rows are fit (`RowFit`), what is left after the tiers is what they found and what
  a model said too weakly (`Collected`), so each outcome is fair and fit to be the next row
  (`EndsFair`). `GroundingAssumption` has the model's confidences between 0 and 1, as its
  prompt asks and `ResolvedTarget` says; nothing in the code enforces it.

*StepRunnerProofs*, for any pages, step, suites, retries and outcomes of executions:

* `HealingIsVisible` (`HealedStepsAreReported`). A target is *apt* if it is named by what the
  step says, or came out of the fuzzy resolver, memory, or the selector; lemmas carry this
  from each resolver through the tiers, both deduplications, the choice and the dropdown
  relaxation (`OfflineApt`). With it `RInv` says of the call that a target which shares no
  word with the step was matched fuzzily or has a row that says so (`Sound`), and of
  the rows that they do (`Noted`): the row is what carries the note from one call to the
  next, and neither half is kept without the other.
* `NoFailureWithoutSafetyNet` (`SafetyNetTried`): `Aims` and `Tried` say that a target reported as
  the selector's is the selector, and that what a call gave up on was tried.
* `RowsBelongToTheirPage` (`RowsMatchTheirPage`). What is recorded was executed, which ties it to
  the page it was grounded on, and what a row replays to the page of its signature; the two
  differ only once, when a retry's snapshot fails: the page found before is then grounded
  with the row of the empty page. It gets there only from a failed grounding, and such a page
  is *hopeless* (`FailedIsHopeless`): without a row it yields selectors alone. For what could
  have been found there, a candidate of the tree that scores enough, was outbid by a fuzzy
  match of the same ref (`Outbid`), as it will be again; the row itself did not outbid it,
  because a replay scores no less than what was recorded (`ReplayMarks`) and its confidence is that
  score. `PInv` says this of the call (`Placed`) and of the rows (`RowsBelong`). Dropdown steps are
  excepted in the property, and why is said there.

*WebStepProofs*, for any pages, scripts, retries and events of the page, and whatever its
dropdowns hold (`ScenariosAssumption` gives the scenarios their types):

* `ActionsLandWhereFound`: `LandsWhereFound`. A marker is on the page and the ref that names it in
  the call, and steps, finders and re-renders move them apart. `WInv` says of a ref that is
  still to be looked up, the current one and those the recovery keeps for later, that its
  marker is on the element it was put on or nowhere (`Aimed`): each finder clears its own marker,
  no two finders of a pass share one (`ClaimsFit`, `FallbacksFit`), re-renders only take markers
  away, and the recovery's candidates come from one pass (`UntriedAim`), so that executing
  one leaves the others' markers alone. An element addressed by its id is found by `MinIs`.
* `PassedStepsDidAsSaid`: `DoneAsSaid`. What a box or a panel was before the step is not in the
  state, so `DoneInv` follows the claim instead: until the effect the ref names the control of
  that kind, the pending action is the one the words ask for, and a panel is still in the
  state the step wants changed, or after a late report no longer (`Settles`); what was
  done so far was reported late, and after an attempt that was not the call is over
  (`Once`). The same attempt repeated after a late report leaves a box as it is and flips
  a panel back (`EffectSettles`); as there is one retry, there is one late report at most
  before a pass.
* `PanelsTakeAllOrNothing`: `PanelAllOrNothing`. While items are ticked the application holds
  what it held, and what is ticked and what is left of the values make up what was ticked at first
  and what the step wants (`Ticking`), until an item is missed. A click that raises ends the
  call in the middle: with nothing applied, unless it was the one on OK and took effect.
* `ProbingLeavesOthersAlone` (`OthersUntouched`) and `PassedSelectionsShow` (`PassedMeansSelected`), for
  any number of dropdowns of any shapes, whichever select on blur, and any values, clicks that
  do not take included. `DropInv` says in each phase of a call what later phases undo or rely on.
  `Placed`: a candidate is one widget each, the trigger first and alone when there are
  several values; what is clicked in has the focus, and no popup is open beside it but those that
  stay. `Clean`: undoing one widget takes the focus from another, which may select then; so
  selections came about only if the widget opened last has the focus (`LastOpened`), and until it
  is undone in its turn, no widget after it needs undoing. `Own`: the first two shapes look in the
  popup the widget owns, where its value is; a click that takes puts it there or, if it was
  selected already, takes it away and the second click brings it back. `Took`: selections that show
  a value taken before are kept by the clicks for the others, which is where the values must be
  apart (`RowKeeps`), and by the undoing, which never touches the widget that was picked. A
  widget from which an item could not be removed is excepted (`kept`).
* `WordsChooseTheTarget`: `WordsDecide`. The finders compare sums of a label's share, a section's
  and a position's. Of options with one label only the last two differ: a word more in the
  section weighs at least `Unit` over twice the words the step has, positions together less than
  the page is long (`ShareOrder`, `SectionWins`), hence the premise of `SectionDecides` on the length
  of the page. A field that shares no word scores 0 or less and is not taken (`Shares`). The
  choice is made once and acted on several states later: `ChoiceInv` carries it from the claim
  to the last attempt, also over a dialog that opens or closes, which comes and goes with
  all its options (`DialogWhole`, from `ScenariosAssumption`), so that a rival in the
  same place that is visible now was visible to the finder. Steps of retrying, giving up and
  recovering keep the call's words and take no target of their own (`Onward`).

*BridgeProofs*, for any number of calls, sessions and steps:

* `BridgeImplementsCalls`: `Spec => ImplementsCalls`. `BInv` says where a call can be: its line
  is in the pipe at most once and before its work, work ends once, an answer is of a call
  that was performed, and a closed client has nobody waiting.
* `StepsHaveTheirBrowser` (`CallsUseLiveHandles`) and `ReportsTellEachStepOnce`
  (`EachStepReportedOnce`). `HInv` adds that the engine works on one line at a time
  (`OneAtATime`), that an open session's browser is live unless its own teardown is under way
  (`OpenIsLive`), and that each phase of the work fits the call it is for.
* `OrphansHaveBeenTold` (`OrphansAreReported`): `OInv` says of each browser without a session that
  work in hand will tell what becomes of it or somebody has been told.

*MobileStepProofs*, for any app, configuration and script:

* `ContextIsRestored`: `ContextRestored`, from `CInv`: the driver is away from the call's
  context only between the switch and the end, and the ways out on which a switch or a
  restore failed end without a value.
* `GesturesRepeatOnlyTransient` (`RepeatsOnlyTransient`): for the same target at most one gesture
  was made, the last one (`OneRepeat`), nothing before there is a target, the tester's
  selector comes last (`SelectorLast`), and a call that goes on has no gesture that was
  reported done (`Unanswered`). The cap on retries is a constant the code bounds
  by one for gestures (`RetryCapAssumption`).
* `AimsFitTheSteps` (`AimsFit`) is an argument about scores. A candidate of the hierarchy scores
  .746 at most, which only an enabled exact text on a control reaches; what is no field scores under
  .70 for a type step, so that the review threshold keeps text out of it. A lookalike can
  tie with the exact control and no more, and a tie is refused, as a candidate of the hierarchy
  has no role that could break it. `AimInv` carries this from the grounding to the gesture: until
  there is a target the call holds the hierarchy it was grounded in, then the target fits that
  hierarchy, and a gesture is made on an element of the target's class. Excepted are a
  text also borne by a disabled control of the class (both have one ref, and the
  engine keeps the first of equal refs, at the disabled one's score) and targets that did not
  come from the hierarchy: seen by vision, associated with a label, or the tester's selector.
* `CompactionLosesNothing` (`CompactionKeepsOutcome`): a node a phrase matches is worth keeping
  (`Useful`), so it is kept, and what is kept stays in order; hence the same list of
  candidates, on which everything else depends. Also for refs that vision's texts are
  hydrated to. `WordsAssumption` says that words have a length and are finitely many,
  `ScriptsAssumption` that screens are well-formed, that a step acted on has words in its
  phrase, and that what is verified or read is not typed into.

*TestRunProofs*, for any processes, tests and tasks:

* `FailuresHaveTheirShots`: `EachFailureHasItsShot`. Between a result and its picture the
  property says nothing, so `TInv` follows the number: a task that takes a picture holds the
  number of a failure, and as long as nothing failed every failure has its picture or a
  task that is taking it.
* `HistoryIsTrue` (`HistoryCountsAddUp`) and `QuarantineHidesNoBreak` (`QuarantineOnlyIntermittent`).
  Runs record a step at a time, so the table alone is behind what was observed: `CountsFit`
  adds the runs that still owe a record of the step, and those whose row waits in an open
  transaction. What a run read of the history may be
  old when it judges by it; outcomes only grow, so what was often enough still is (`Judges`).

Only model-checked: liveness (`CallsReturn`, `EveryCallSettles`, `StepsEnd`, `VerifyEnds`,
`MobileStepsEnd`), out of the prover's reach, as ENABLED is; and the properties of Verify. Its
checks take labels for each other that merely share words, and fall back from one reading of
the page to a looser one, so what a pass witnessed is decided by which labels a page
holds side by side: the run has the pages on which it comes out right.

## Where code and documents disagree

Three configurations state one quoted sentence each, and TLC finds it violated:

| Configuration | Sentence | What happens |
|---|---|---|
| MobileStep_row.cfg | the row of a text is named by its "most stable executable ref" | rows of a list share an id: the tap on the second row's text lands on the first row, and passes |
| WebStep_panel.cfg | a panel is cancelled on an error, "so nothing half-applied is committed" (`adapter.py:2953`, CHANGELOG.md:49) | a click on an item or on Cancel raises, the panel stays open half ticked, and the next step that opens it confirms that too |
| TestRun_summary.cfg | the combined report "always shows all tests" | two processes that end at once: one loses its row |

Met while modelling, and visible in the definitions, without a configuration of its own:

*Memory and grounding*
* cache hits are described as shared across workers; after a swallowed busy timeout the
  open transaction pins an old snapshot (`SharedUnlessGaveUp` says exactly when);
* the import merge keeps the entry with the higher success_count, as its docstring says
  (`layer.py:402`), but gives it the lower of the two failure counts (`layer.py:465`);
* with max_cost_level low "all Tier-1/2 features (text, fuzzy, synonyms, memory, healing) still
  work" (USER_GUIDE.md:963), but matches in the review band fail at the AI gate before the fallback
  (`AIOffIsDeterministic` says exactly which calls); `ai_first` is said never to block deterministic resolution (`engine.py:155`), yet with the
  budget spent it refuses a step that Tier 1 would accept (`engine.py:207`);
* a nameless combobox that is the only one resolves in the first run and not in the second;
  elements equal in role and name collapse to one candidate, so they are no rivals;
* a model's target stored with a confidence below about 0.88 replays under Tier 1's bar
  (`memory_cache.py:113`), so the model is asked again where `sdk.py:262` promises none;
* `embed_cached` promises None on a provider's error and lets it raise; `_parse_response`
  "never raises" and does on a confidence of null or an answer that is no object. Their
  callers catch both.

*The runner*
* `recover()` records without the advisory, so the substitution replays as passed
  (`sdk.py:2431`, README.md:322-323);
* failures are said to age out (`memory_cache.py:68-70`, `sdk.py:32`), and no failed replay
  is ever recorded (`sdk.py:745`);
* `recover()` leaves the failed selector to downstream resolvers (`sdk.py:2331`), but memory may
  hand that very selector back (`sdk.py:2391`);
* a dropdown step whose combobox has no name passes without its row and fails with it; if the
  snapshot of the retry fails as well, the combobox is recorded as one of the empty page
  (`sdk.py:2583-2590`), hence the premise of `RowsMatchTheirPage`;
* the ref that rescued a failed execution is stored (`sdk.py:3265`), and its replay, at
  about 0.55, loses to the ref that failed.

*Web steps and checks*
* a list that cannot be searched and shows one row has that row clicked, whatever it says
  (`adapter.py:3258`); `PassedMeansSelected` holds because the selection is looked at after;
* "unfold X" is taken as wanting it shut (`sdk.py:2946-2948`); "uncheck" of a radio clicks it;
  the rich-text finder ignores the modal scope that `adapter.py:84-87` announces;
* a panel that applies at once cannot be cancelled: "nothing applied" is not true of it;
* the collapse resolver is "idempotent", so that "a second run can't toggle it shut"
  (`sdk.py:2929`), but its click may be reported as a timeout after it took effect, and the
  retry toggles it shut (`DoneAsSaid`);
* words of negation are ignored by the checks of status, alert, active item and header
  (`sdk.py:1290`, against `sdk.py:907`); "checkbox is checked" looks among radios only;
  `evaluate_table` judges by the first table that has the columns;
* `_verify_absent` and `_verify_present` fall back for good on a text check of the name after
  one failed count, so a removed button whose name is still a text passes; and as `validate`
  reports an error as a failure (`adapter.py:4450`), an absence passes where that check could
  not read the page either, though it "passes only when nothing matches" (`sdk.py:1579`);
* the network check misses responses before the first step that collects context.

*Mobile*
* `extract("Get the balance", channel="mobile")` is shown as the way to read a text
  (HOW_TO_USE_MOBILE.md:106); an exact label scores .646 for it, below the review threshold;
* the tester's selector is for an action that "didn't take" (`sdk.py:758`); it is used after any
  reported failure, also of a gesture that took effect, which is then made twice;
* "Allow" and "Don't Allow" on one alert: the exact label is refused as ambiguous, .746 against
  .701 (`appium_hierarchy.py:117-121`); on iOS any permission word makes a system dialog;
* a node with an id and no text is dropped by compaction (the outcome stays a failure, by
  another reason), and an id alone never grounds, at .695;
* `webview_switch_allowed_operations: ["extract_text", "validate"]` (HOW_TO_USE_MOBILE.md:266, USER_GUIDE.md:822)
  turns webview switching off: the code's names for the operations differ; and with the default
  timeout of 0 the readiness check refuses everything (`config.py:332-333`);
* with vision allowed, a text seen with a role scores above any match of the hierarchy; one
  that no element bears, or two, fails the step (`sdk.py:706-716`) and the tester's selector,
  the "last resort", is not tried;
* health is checked on the first snapshot only; a tap on a notification that fails passes;
* a switch that took effect and then raised is not undone.

*Sessions, reports and bridge*
* soft assertions of two tasks that overlap leave the session soft; two tasks that enter one
  session at once bootstrap it twice; `close_dialog` reads the scope on both sides of an await;
* a torn manifest starts the summary fresh; detail files of tests whose names have one slug
  overwrite each other;
* a run's outcomes are recorded before its steps are classified (`pytest_plugin.py:272-286`),
  so the first failure a step ever had may make it flaky, and quarantined, at once;
* `close()` ends the input and sends SIGTERM together (`client.ts:98`), where
  docs/bridge-protocol.md:83 has the engine shut down in order; the exit event may reject calls
  whose answers are still in the pipe;
* a write to an engine that is gone raises an error event on its stdin, to which the client does
  not listen (`client.ts:85-94`): it may end the client's process before the exit event
  has rejected its calls, and `EveryCallSettles` excepts that process.

## What is not modelled

* *Text*: the parsing of steps, of specifications of tables and screenshots, string matching
  (a constant, or words as sets), normalisation, prompts and model answers beyond "a ref or
  none". The element graph and relational steps ("in the row of ..."), which are built on it.
* *Tiers that are off by default*: embeddings (the semantic resolver), OCR blocks, and vision
  on the web. On mobile, vision and the hydration of its refs are in ScreenTargets.
* *Pure I/O*: report rendering and analytics, traces and metrics, screenshots as pictures,
  configuration, command line, factories of providers and drivers.
* *Tools around it*: recorder, REPL, converter, BDD, fixtures.
* *Within modelled parts*: dry runs; memory replays on mobile, icons, repeated regions, several
  quoted phrases, hiding the keyboard; typing into date pickers, frames, popup windows and
  `wait_until_stable` on the web; malformed lines, notifications and attached sessions of the
  bridge; the scope stack, which no resolver reads; import of files this program did not
  write. `scroll_resolution.py`, `execute_bounded_mobile_scroll_search` and
  `webview_switch_execution.py` are called by nothing but tests.

Assumptions worth knowing. SQLite runs in WAL mode and a failed statement leaves its
transaction open; the errors at which SQLite ends it by itself are `Close` of SharedMemory. A
flaky step is the label of its action: nothing in the source puts a `screen_signature` into a
target's metadata, where `step_identity` looks for one. A widget's selection commits before the
adapter looks at it or never; lists that select several stay open; a phrase names at most one
panel; actions elsewhere leave an open panel as it is; a click on a panel's button that does
not raise works. A dialog comes and goes with all its controls. Of a mobile element that is
not enabled it is open whether it is displayed; a gesture that an error interrupts may have reached
the screen or not. A client's process may outlive an error event that nobody listens to. A step of Grounding
sees an unchanged page (StepRunner has those that change). `extract()` never switches to a
webview; the host decides on switching for a validation before it starts.

## Plan

1. Vision on the web, with the hydration of its refs to roles and texts, and its cost; then
   `SafetyNetTried` for mobile, as far as it holds.
2. The semantic resolver and its cache; typing into date pickers; the scope stack, once a
   resolver reads it.
3. Proofs: Verify, once its conditions on the labels of a page are stated.
