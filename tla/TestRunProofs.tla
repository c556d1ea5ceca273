---------------------------- MODULE TestRunProofs ----------------------------
(***************************************************************************)
(* A failure's screenshot and the flaky history, for any number of          *)
(* processes, tests, tasks in a test and things that fail.                  *)
(* The first invariant follows the number a failure was given from its      *)
(* result to its picture: a task that is taking one holds the number of a   *)
(* failure, and as long as nothing went wrong each failure has its picture  *)
(* or a task that is taking it.  The second adds to the table what the runs *)
(* have still to record, and keeps what they judge flaky true.              *)
(***************************************************************************)
EXTENDS TestRun, FiniteSetTheorems, WellFoundedInduction, TLAPS

RunFields  == {"pc", "test", "results", "soft", "softs", "tasks", "shots", "raised", "left", "snap", "held", "lock",
                "flaky", "junit", "mine"}
TaskFields == {"at", "pc", "soft", "before", "shot"}
Result     == [step : Step, status : {"dry_run", "passed", "failed", "recovered"}]

Shaped(r) ==
    /\ DOMAIN r = RunFields /\ r.test \in Tests \union {NoTest}
    /\ r.results \in Seq(Result)
    /\ DOMAIN r.tasks = DOMAIN r.test.tasks
    /\ \A i \in DOMAIN r.tasks : DOMAIN r.tasks[i] = TaskFields /\ r.tasks[i].at \in Nat \ {0}

\* A task is in a call of its list; once the test is through, none is.
InTheirCalls(r) ==
    \A i \in DOMAIN r.tasks : r.tasks[i].pc # "ready" =>
        r.tasks[i].at <= Len(r.test.tasks[i]) /\ r.pc = "steps"

\* The picture a task is taking, and those there are, are of failures.
OfFailures(r) ==
    /\ r.shots \ {0} \subseteq Failed(r)
    /\ \A i \in DOMAIN r.tasks : r.tasks[i].pc = "shot" => r.tasks[i].shot \in Failed(r)

\* Nothing having failed to be taken, a failure has its picture or will have.
Covered(r) ==
    r.test.label => \A n \in Failed(r) :
        n \in r.shots \/ \E i \in DOMAIN r.tasks : r.tasks[i].pc = "shot" /\ r.tasks[i].shot = n

Fit(r, e) == Shaped(r) /\ InTheirCalls(r) /\ OfFailures(r) /\ (e = MaxErrors => Covered(r))

TInv == errors \in 0..MaxErrors /\ DOMAIN run = Proc /\ \A p \in Proc : Fit(run[p], errors)

-----------------------------------------------------------------------------
\* Nothing that goes wrong is forgotten.
LEMMA ErrorsOnlyFall ==
    ASSUME errors \in 0..MaxErrors, Works \/ Fails
    PROVE  errors' \in 0..MaxErrors /\ (errors' = MaxErrors => errors = MaxErrors /\ ~Fails)
  BY CountsAssumption DEF Works, Fails

LEMMA ElementOfSeq ==
    ASSUME NEW S, NEW q \in Seq(S), NEW n \in 1..Len(q)
    PROVE  q[n] \in S
  OBVIOUS

LEMMA TestShape ==
    ASSUME NEW t \in Tests \union {NoTest}
    PROVE  /\ t.tasks \in Seq(Seq([call : STRING, step : Step]))
           /\ t.label \in BOOLEAN /\ t.dry \in BOOLEAN
<1>1. CASE t \in Tests
  BY <1>1, CountsAssumption
<1>2. CASE t = NoTest
  BY <1>2 DEF NoTest
<1>3. QED
  BY <1>1, <1>2

\* A run that has not begun, or is over.
LEMMA NewRunFits ==
    ASSUME NEW t \in Tests \union {NoTest}, NEW e
    PROVE  Fit(NewRun(t), e)
<1> DEFINE r == NewRun(t)
<1>1. /\ DOMAIN r = RunFields /\ r.test = t /\ r.results = <<>> /\ r.shots = {} /\ r.pc = "enter"
      /\ r.tasks = [i \in DOMAIN t.tasks |-> NewTask]
  BY DEF NewRun, RunFields
<1>2. DOMAIN NewTask = TaskFields /\ NewTask.at = 1 /\ NewTask.pc = "ready"
  BY DEF NewTask, TaskFields
<1>3. <<>> \in Seq(Result) /\ DOMAIN <<>> = {}
  OBVIOUS
<1> HIDE DEF r
<1>4. Failed(r) = {}
  BY <1>1, <1>3 DEF Failed
<1>5. \A i \in DOMAIN r.tasks : r.tasks[i] = NewTask
  BY <1>1
<1>6. DOMAIN r.tasks = DOMAIN r.test.tasks
  BY <1>1
<1>7. Shaped(r)
  BY <1>1, <1>2, <1>3, <1>5, <1>6 DEF Shaped
<1>8. \A i \in DOMAIN r.tasks : r.tasks[i].pc = "ready"
  BY <1>2, <1>5
<1>9. InTheirCalls(r) /\ OfFailures(r)
  BY <1>1, <1>8 DEF InTheirCalls, OfFailures
<1>10. Covered(r)
  BY <1>4 DEF Covered
<1>11. QED
  BY <1>7, <1>9, <1>10 DEF Fit, r

\* What no invariant looks at may change once the test is through.
LEMMA SameRunFits ==
    ASSUME NEW r, NEW e, Fit(r, e), NEW s, NEW f, f = MaxErrors => e = MaxErrors,
           DOMAIN s = RunFields, r.pc = "steps" => s.pc = "steps",
           s.test = r.test, s.results = r.results, s.tasks = r.tasks, s.shots = r.shots
    PROVE  Fit(s, f)
  BY DEF Fit, Shaped, InTheirCalls, OfFailures, Covered, Failed

LEMMA NoRunFits == ASSUME NEW e PROVE Fit(NoRun, e)
<1> DEFINE n == NewRun(NoTest)
<1>1. Fit(n, e)
  BY NewRunFits
<1>2. DOMAIN n = RunFields /\ n.pc = "enter"
  BY DEF NewRun, RunFields
<1>3. NoRun = [n EXCEPT !.pc = "over"]
  BY DEF NoRun
<1> HIDE DEF n
<1>4. /\ DOMAIN NoRun = RunFields
      /\ NoRun.test = n.test /\ NoRun.results = n.results /\ NoRun.tasks = n.tasks /\ NoRun.shots = n.shots
  BY <1>2, <1>3 DEF RunFields
<1>5. QED
  BY <1>1, <1>2, <1>4, SameRunFits

-----------------------------------------------------------------------------
\* A task's record changes, at most to leave a call or set out on one.
LEMMA TaskMoves ==
    ASSUME NEW r, NEW i \in DOMAIN r.tasks, NEW t, Shaped(r), DOMAIN t = TaskFields, t.at \in Nat \ {0},
           NEW s, DOMAIN s = RunFields, s.test = r.test, s.results \in Seq(Result), s.tasks = [r.tasks EXCEPT ![i] = t]
    PROVE  /\ Shaped(s) /\ s.tasks[i] = t /\ DOMAIN s.tasks = DOMAIN r.tasks
           /\ \A j \in DOMAIN r.tasks \ {i} : s.tasks[j] = r.tasks[j]
<1>1. DOMAIN s.tasks = DOMAIN r.tasks
  OBVIOUS
<1>2. s.tasks[i] = t /\ \A j \in DOMAIN r.tasks \ {i} : s.tasks[j] = r.tasks[j]
  OBVIOUS
<1>3. QED
  BY <1>1, <1>2 DEF Shaped

\* One that takes no picture leaves the rest of the run as it was.
LEMMA QuietTaskFits ==
    ASSUME NEW r, NEW e, Fit(r, e), NEW i \in DOMAIN r.tasks, NEW t, DOMAIN t = TaskFields, t.at \in Nat \ {0},
           r.tasks[i].pc # "shot", t.pc # "shot", r.pc = "steps", t.pc # "ready" => t.at <= Len(r.test.tasks[i]),
           NEW s, DOMAIN s = RunFields, s.test = r.test, s.results = r.results, s.shots = r.shots, s.pc = r.pc,
           s.tasks = [r.tasks EXCEPT ![i] = t]
    PROVE  Fit(s, e)
<1>1. Shaped(r) /\ InTheirCalls(r) /\ OfFailures(r)
  BY DEF Fit
<1>2. /\ Shaped(s) /\ s.tasks[i] = t /\ DOMAIN s.tasks = DOMAIN r.tasks
      /\ \A j \in DOMAIN r.tasks \ {i} : s.tasks[j] = r.tasks[j]
  BY <1>1, TaskMoves DEF Shaped
<1>3. Failed(s) = Failed(r)
  BY DEF Failed
<1>4. InTheirCalls(s)
  BY <1>1, <1>2 DEF InTheirCalls
<1>5. OfFailures(s)
  BY <1>1, <1>2, <1>3 DEF OfFailures
<1>6. Covered(r) => Covered(s)
  BY <1>2, <1>3 DEF Covered
<1>7. QED
  BY <1>2, <1>4, <1>5, <1>6 DEF Fit

LEMMA SoftFits ==
    ASSUME TInv, NEW p \in Proc, NEW i \in DOMAIN run[p].tasks, Soft(p, i)
    PROVE  \E s : Become(p, s) /\ Fit(s, errors)
<1> DEFINE r == run[p]
<1>1. /\ Fit(r, errors) /\ r.tasks[i].pc = "ready" /\ r.pc = "steps"
  BY DEF TInv, Soft, MayCall, At
<1>2. DOMAIN r = RunFields /\ DOMAIN r.tasks[i] = TaskFields /\ r.tasks[i].at \in Nat \ {0}
  BY <1>1 DEF Fit, Shaped
<1>3. CASE Become(p, [r EXCEPT !.soft = TRUE, !.tasks[i].before = r.soft, !.tasks[i].at = @ + 1])
  <2> DEFINE s == [r EXCEPT !.soft = TRUE, !.tasks[i].before = r.soft, !.tasks[i].at = @ + 1]
             t == [r.tasks[i] EXCEPT !.before = r.soft, !.at = @ + 1]
  <2>1. DOMAIN t = TaskFields /\ t.pc = "ready" /\ t.at \in Nat \ {0}
    BY <1>1, <1>2 DEF TaskFields
  <2>2. /\ DOMAIN s = RunFields /\ s.test = r.test /\ s.results = r.results /\ s.shots = r.shots /\ s.pc = r.pc
    BY <1>2 DEF RunFields
  <2>3. s.tasks = [r.tasks EXCEPT ![i] = t]
    BY <1>2 DEF RunFields, TaskFields
  <2> HIDE DEF t
  <2>4. Fit(s, errors)
    BY <1>1, <2>1, <2>2, <2>3, QuietTaskFits
  <2>5. QED
    BY <1>3, <2>4
<1>4. CASE Become(p, [r EXCEPT !.soft = r.tasks[i].before, !.tasks[i].at = @ + 1])
  <2> DEFINE s == [r EXCEPT !.soft = r.tasks[i].before, !.tasks[i].at = @ + 1]
             t == [r.tasks[i] EXCEPT !.at = @ + 1]
  <2>1. DOMAIN t = TaskFields /\ t.pc = "ready" /\ t.at \in Nat \ {0}
    BY <1>1, <1>2 DEF TaskFields
  <2>2. /\ DOMAIN s = RunFields /\ s.test = r.test /\ s.results = r.results /\ s.shots = r.shots /\ s.pc = r.pc
    BY <1>2 DEF RunFields
  <2>3. s.tasks = [r.tasks EXCEPT ![i] = t]
    BY <1>2 DEF RunFields, TaskFields
  <2> HIDE DEF t
  <2>4. Fit(s, errors)
    BY <1>1, <2>1, <2>2, <2>3, QuietTaskFits
  <2>5. QED
    BY <1>4, <2>4
<1>5. QED
  BY <1>3, <1>4 DEF Soft

LEMMA CallFits ==
    ASSUME TInv, NEW p \in Proc, NEW i \in DOMAIN run[p].tasks, Call(p, i)
    PROVE  \E s : Become(p, s) /\ Fit(s, errors)
<1> DEFINE r == run[p]
           s == [r EXCEPT !.tasks[i].pc = "called", !.tasks[i].soft = r.soft]
           t == [r.tasks[i] EXCEPT !.pc = "called", !.soft = r.soft]
<1>1. /\ Fit(r, errors) /\ r.tasks[i].pc = "ready" /\ r.pc = "steps" /\ r.tasks[i].at <= Len(r.test.tasks[i])
      /\ Become(p, s)
  BY DEF TInv, Call, MayCall, At
<1>2. DOMAIN r = RunFields /\ DOMAIN r.tasks[i] = TaskFields /\ r.tasks[i].at \in Nat \ {0}
  BY <1>1 DEF Fit, Shaped
<1>3. DOMAIN t = TaskFields /\ t.pc = "called" /\ t.at = r.tasks[i].at
  BY <1>2 DEF TaskFields
<1>4. /\ DOMAIN s = RunFields /\ s.test = r.test /\ s.results = r.results /\ s.shots = r.shots /\ s.pc = r.pc
  BY <1>2 DEF RunFields
<1>5. s.tasks = [r.tasks EXCEPT ![i] = t]
  BY <1>2 DEF RunFields, TaskFields
<1> HIDE DEF t
<1>6. Fit(s, errors)
  BY <1>1, <1>2, <1>3, <1>4, <1>5, QuietTaskFits
<1>7. QED
  BY <1>1, <1>6

\* A result is appended, and where it is a failure to be pictured, its task
\* holds its number.
LEMMA AppendedFits ==
    ASSUME NEW r, NEW e, Fit(r, e), NEW i \in DOMAIN r.tasks, r.tasks[i].pc = "called",
           NEW q \in Result, NEW t, DOMAIN t = TaskFields, t.at \in Nat \ {0},
           \/ t.pc = "ready" /\ (q.status # "failed" \/ ~r.test.label)
           \/ t.pc = "shot" /\ t.shot = Len(r.results) + 1 /\ t.at = r.tasks[i].at /\ q.status = "failed",
           NEW s, DOMAIN s = RunFields, s.test = r.test, s.shots = r.shots, s.pc = r.pc,
           s.results = Append(r.results, q), s.tasks = [r.tasks EXCEPT ![i] = t]
    PROVE  Fit(s, e)
<1>1. Shaped(r) /\ InTheirCalls(r) /\ OfFailures(r)
  BY DEF Fit
<1>2. r.results \in Seq(Result) /\ s.results \in Seq(Result)
  BY <1>1 DEF Shaped
<1>3. /\ Shaped(s) /\ s.tasks[i] = t /\ DOMAIN s.tasks = DOMAIN r.tasks
      /\ \A j \in DOMAIN r.tasks \ {i} : s.tasks[j] = r.tasks[j]
  <2>1. DOMAIN s.tasks = DOMAIN r.tasks
    OBVIOUS
  <2>2. s.tasks[i] = t /\ \A j \in DOMAIN r.tasks \ {i} : s.tasks[j] = r.tasks[j]
    OBVIOUS
  <2>3. Shaped(s)
    BY <1>1, <1>2, <2>1, <2>2 DEF Shaped
  <2>4. QED
    BY <2>1, <2>2, <2>3
<1>4. /\ Len(r.results) \in Nat /\ DOMAIN r.results = 1..Len(r.results) /\ DOMAIN s.results = 1..(Len(r.results) + 1)
      /\ s.results[Len(r.results) + 1] = q
      /\ \A n \in 1..Len(r.results) : s.results[n] = r.results[n]
  BY <1>2
<1>5. Failed(r) \subseteq Failed(s)
  BY <1>4 DEF Failed
<1>6. \A n \in Failed(s) : n \in Failed(r) \/ (n = Len(r.results) + 1 /\ q.status = "failed")
  BY <1>4 DEF Failed
<1>7. t.pc = "shot" => t.shot \in Failed(s)
  BY <1>4 DEF Failed
<1>8. InTheirCalls(s)
  BY <1>1, <1>3 DEF InTheirCalls
<1>9. OfFailures(s)
  BY <1>1, <1>3, <1>5, <1>7 DEF OfFailures
<1>10. ASSUME Covered(r) PROVE Covered(s)
  <2>1. SUFFICES ASSUME s.test.label, NEW n \in Failed(s)
                 PROVE  n \in s.shots \/ \E j \in DOMAIN s.tasks : s.tasks[j].pc = "shot" /\ s.tasks[j].shot = n
    BY DEF Covered
  <2>2. CASE n \in Failed(r)
    <3>1. n \in r.shots \/ \E j \in DOMAIN r.tasks : r.tasks[j].pc = "shot" /\ r.tasks[j].shot = n
      BY <1>10, <2>1, <2>2 DEF Covered
    <3>2. \A j \in DOMAIN r.tasks : r.tasks[j].pc = "shot" => j # i
      OBVIOUS
    <3>3. QED
      BY <1>3, <3>1, <3>2
  <2>3. CASE n = Len(r.results) + 1 /\ q.status = "failed"
    <3>1. t.pc = "shot" /\ t.shot = n
      BY <2>1, <2>3
    <3>2. QED
      BY <1>3, <3>1
  <2>4. QED
    BY <1>6, <2>2, <2>3
<1>11. QED
  BY <1>3, <1>8, <1>9, <1>10 DEF Fit

LEMMA ReturnFits ==
    ASSUME TInv, NEW p \in Proc, NEW i \in DOMAIN run[p].tasks, Return(p, i)
    PROVE  \E s : Become(p, s) /\ Fit(s, errors)
<1> DEFINE r == run[p]
           call == Current(p, i)
<1>1. Fit(r, errors) /\ r.tasks[i].pc = "called"
  BY DEF TInv, Return
<1>2. /\ DOMAIN r = RunFields /\ DOMAIN r.tasks[i] = TaskFields /\ r.tasks[i].at \in Nat \ {0}
      /\ r.tasks[i].at <= Len(r.test.tasks[i]) /\ r.pc = "steps" /\ i \in DOMAIN r.test.tasks
      /\ r.test \in Tests \union {NoTest} /\ r.results \in Seq(Result)
  BY <1>1 DEF Fit, Shaped, InTheirCalls
<1>3. call \in [call : STRING, step : Step]
  <2>1. r.test.tasks \in Seq(Seq([call : STRING, step : Step]))
    BY <1>2, TestShape
  <2>2. r.test.tasks[i] \in Seq([call : STRING, step : Step])
    BY <1>2, <2>1
  <2>3. r.tasks[i].at \in 1..Len(r.test.tasks[i])
    BY <1>2, <2>2
  <2>4. QED
    BY <2>2, <2>3, ElementOfSeq DEF Current
<1>4. CASE Become(p, [r EXCEPT !.tasks[i] = [NewTask EXCEPT !.at = r.tasks[i].at + 1]])
  <2> DEFINE t == [NewTask EXCEPT !.at = r.tasks[i].at + 1]
             s == [r EXCEPT !.tasks[i] = t]
  <2>1. DOMAIN t = TaskFields /\ t.pc = "ready" /\ t.at \in Nat \ {0}
    BY <1>2 DEF NewTask, TaskFields
  <2> HIDE DEF t
  <2>2. /\ DOMAIN s = RunFields /\ s.test = r.test /\ s.results = r.results /\ s.shots = r.shots /\ s.pc = r.pc
        /\ s.tasks = [r.tasks EXCEPT ![i] = t]
    BY <1>2 DEF RunFields
  <2>3. Fit(s, errors)
    BY <1>1, <1>2, <2>1, <2>2, QuietTaskFits
  <2>4. QED
    BY <1>4, <2>3 DEF t
<1>5. ASSUME NEW status \in Statuses(r, call.call),
             LET a == Appended(r, i, call, status) IN
             Become(p, IF status = "failed" /\ a.test.label
                       THEN [a EXCEPT !.tasks[i].pc = "shot", !.tasks[i].shot = Len(a.results)]
                       ELSE [a EXCEPT !.tasks[i].pc = "ready", !.tasks[i].at = @ + 1])
      PROVE  \E s : Become(p, s) /\ Fit(s, errors)
  <2>1. status \in {"dry_run", "passed", "failed", "recovered"}
    BY <1>2, TestShape DEF Statuses
  <2> DEFINE q == [step |-> call.step, status |-> status]
             a == Appended(r, i, call, status)
  <2>2. q \in Result /\ q.status = status
    BY <1>3, <2>1 DEF Result
  <2> HIDE DEF q
  <2>3. /\ DOMAIN a = RunFields /\ a.test = r.test /\ a.shots = r.shots /\ a.pc = r.pc /\ a.tasks = r.tasks
        /\ a.results = Append(r.results, q)
    BY <1>2 DEF Appended, RunFields, q
  <2>4. Len(a.results) = Len(r.results) + 1
    BY <1>2, <2>2, <2>3
  <2> HIDE DEF a
  <2>5. CASE status = "failed" /\ a.test.label
    <3> DEFINE s == [a EXCEPT !.tasks[i].pc = "shot", !.tasks[i].shot = Len(a.results)]
               t == [r.tasks[i] EXCEPT !.pc = "shot", !.shot = Len(a.results)]
    <3>1. DOMAIN t = TaskFields /\ t.pc = "shot" /\ t.at = r.tasks[i].at /\ t.shot = Len(r.results) + 1
      BY <1>2, <2>4 DEF TaskFields
    <3>2. /\ DOMAIN s = RunFields /\ s.test = r.test /\ s.shots = r.shots /\ s.pc = r.pc /\ s.results = Append(r.results, q)
      BY <2>3 DEF RunFields
    <3>3. s.tasks = [r.tasks EXCEPT ![i] = t]
      BY <1>2, <2>3 DEF RunFields, TaskFields
    <3> HIDE DEF t
    <3>4. t.pc = "shot" /\ t.shot = Len(r.results) + 1 /\ t.at = r.tasks[i].at /\ q.status = "failed"
      BY <2>2, <2>5, <3>1
    <3>5. DOMAIN t = TaskFields /\ t.at \in Nat \ {0}
      BY <1>2, <3>1
    <3> HIDE DEF s, r, call
    <3>6. Fit(s, errors)
      BY <1>1, <2>2, <3>2, <3>3, <3>4, <3>5, AppendedFits DEF r
    <3>7. QED
      BY <1>5, <2>5, <3>6 DEF a, s, r, call
  <2>6. CASE ~(status = "failed" /\ a.test.label)
    <3> DEFINE s == [a EXCEPT !.tasks[i].pc = "ready", !.tasks[i].at = @ + 1]
               t == [r.tasks[i] EXCEPT !.pc = "ready", !.at = @ + 1]
    <3>1. DOMAIN t = TaskFields /\ t.pc = "ready" /\ t.at \in Nat \ {0}
      BY <1>2 DEF TaskFields
    <3>2. /\ DOMAIN s = RunFields /\ s.test = r.test /\ s.shots = r.shots /\ s.pc = r.pc /\ s.results = Append(r.results, q)
      BY <2>3 DEF RunFields
    <3>3. s.tasks = [r.tasks EXCEPT ![i] = t]
      BY <1>2, <2>3 DEF RunFields, TaskFields
    <3>4. q.status # "failed" \/ ~r.test.label
      BY <2>2, <2>3, <2>6
    <3> HIDE DEF t
    <3> HIDE DEF s, r, call
    <3>5. Fit(s, errors)
      BY <1>1, <2>2, <3>1, <3>2, <3>3, <3>4, AppendedFits DEF r
    <3>6. QED
      BY <1>5, <2>6, <3>5 DEF a, s, r, call
  <2>7. QED
    BY <2>5, <2>6
<1>6. QED
  BY <1>4, <1>5 DEF Return

\* A picture that is taken carries the number its task holds.
LEMMA ShootFits ==
    ASSUME TInv, NEW p \in Proc, NEW i \in DOMAIN run[p].tasks, Shoot(p, i)
    PROVE  \E s : Become(p, s) /\ Fit(s, errors')
<1> DEFINE r == run[p]
           t == [r.tasks[i] EXCEPT !.pc = "ready", !.at = @ + 1]
           quiet == [r EXCEPT !.tasks[i].pc = "ready", !.tasks[i].at = @ + 1]
           taken == [quiet EXCEPT !.shots = @ \union {r.tasks[i].shot}]
<1>1. Fit(r, errors) /\ r.tasks[i].pc = "shot"
  BY DEF TInv, Shoot
<1>2. /\ DOMAIN r = RunFields /\ DOMAIN r.tasks[i] = TaskFields /\ r.tasks[i].at \in Nat \ {0}
      /\ r.tasks[i].shot \in Failed(r) /\ Shaped(r) /\ InTheirCalls(r) /\ OfFailures(r)
      /\ r.results \in Seq(Result)
  BY <1>1 DEF Fit, Shaped, OfFailures
<1>3. DOMAIN t = TaskFields /\ t.pc = "ready" /\ t.at \in Nat \ {0}
  BY <1>2 DEF TaskFields
<1>4. /\ DOMAIN quiet = RunFields /\ quiet.test = r.test /\ quiet.results = r.results
      /\ quiet.shots = r.shots /\ quiet.pc = r.pc
  BY <1>2 DEF RunFields
<1>5. quiet.tasks = [r.tasks EXCEPT ![i] = t]
  BY <1>2 DEF RunFields, TaskFields
<1>6. \/ Works /\ Become(p, taken)
      \/ Fails /\ Become(p, quiet)
  BY DEF Shoot, Name
<1> HIDE DEF t, quiet
<1>7. /\ Shaped(quiet) /\ quiet.tasks[i] = t /\ DOMAIN quiet.tasks = DOMAIN r.tasks
      /\ \A j \in DOMAIN r.tasks \ {i} : quiet.tasks[j] = r.tasks[j]
  BY <1>2, <1>3, <1>4, <1>5, TaskMoves
<1>8. Failed(quiet) = Failed(r)
  BY <1>4 DEF Failed
<1>9. InTheirCalls(quiet) /\ OfFailures(quiet)
  BY <1>2, <1>3, <1>4, <1>7, <1>8 DEF InTheirCalls, OfFailures
<1>10. CASE Works /\ Become(p, taken)
  <2>1. /\ DOMAIN taken = RunFields /\ taken.test = r.test /\ taken.results = r.results /\ taken.pc = r.pc
        /\ taken.shots = r.shots \union {r.tasks[i].shot} /\ taken.tasks = quiet.tasks
    BY <1>4 DEF RunFields
  <2> HIDE DEF taken
  <2>2. Failed(taken) = Failed(r)
    BY <2>1 DEF Failed
  <2>3. Shaped(taken) /\ InTheirCalls(taken)
    BY <1>4, <1>7, <1>9, <2>1 DEF Shaped, InTheirCalls
  <2>4. OfFailures(taken)
    BY <1>2, <1>4, <1>8, <1>9, <2>1, <2>2 DEF OfFailures
  <2>5. Covered(r) => Covered(taken)
    <3>1. SUFFICES ASSUME Covered(r), taken.test.label, NEW n \in Failed(taken)
                   PROVE  n \in taken.shots \/ \E j \in DOMAIN taken.tasks : taken.tasks[j].pc = "shot" /\ taken.tasks[j].shot = n
      BY DEF Covered
    <3>2. n \in r.shots \/ \E j \in DOMAIN r.tasks : r.tasks[j].pc = "shot" /\ r.tasks[j].shot = n
      BY <2>1, <2>2, <3>1 DEF Covered
    <3>3. QED
      BY <1>7, <2>1, <3>2
  <2>6. errors' = errors
    BY <1>10 DEF Works
  <2>7. Fit(taken, errors')
    BY <1>1, <2>3, <2>4, <2>5, <2>6 DEF Fit
  <2>8. QED
    BY <1>10, <2>7
<1>11. CASE Fails /\ Become(p, quiet)
  <2>1. errors' # MaxErrors
    BY <1>11, CountsAssumption DEF Fails, TInv
  <2>2. Fit(quiet, errors')
    BY <1>7, <1>9, <2>1 DEF Fit
  <2>3. QED
    BY <1>11, <2>2
<1>12. QED
  BY <1>6, <1>10, <1>11

\* Once every task is through its list, none is in a call: what was not taken
\* went wrong.
LEMMA ConcludeFits ==
    ASSUME TInv, NEW p \in Proc, Conclude(p)
    PROVE  (Works \/ Fails) /\ \E s : Become(p, s) /\ Fit(s, errors')
<1> DEFINE r == run[p]
<1>1. Fit(r, errors) /\ \A i \in DOMAIN r.tasks : r.tasks[i].at > Len(r.test.tasks[i])
  BY DEF TInv, Conclude
<1>2. /\ DOMAIN r = RunFields /\ Shaped(r) /\ InTheirCalls(r) /\ OfFailures(r) /\ (errors = MaxErrors => Covered(r))
      /\ r.test \in Tests \union {NoTest} /\ \A i \in DOMAIN r.tasks : r.tasks[i].at \in Nat \ {0} /\ i \in DOMAIN r.test.tasks
  BY <1>1 DEF Fit, Shaped
<1>3. ASSUME NEW i \in DOMAIN r.tasks PROVE r.tasks[i].pc = "ready"
  <2>1. r.test.tasks \in Seq(Seq([call : STRING, step : Step]))
    BY <1>2, TestShape
  <2>2. Len(r.test.tasks[i]) \in Nat
    BY <1>2, <2>1
  <2>3. QED
    BY <1>1, <1>2, <2>2 DEF InTheirCalls
<1>4. errors \in 0..MaxErrors
  BY DEF TInv
<1>5. ASSUME NEW e, e = MaxErrors => errors = MaxErrors,
             NEW s, DOMAIN s = RunFields, s.test = r.test, s.results = r.results, s.tasks = r.tasks,
             s.shots = r.shots \/ s.shots = r.shots \union {0}
      PROVE  Fit(s, e)
  <2>1. Failed(s) = Failed(r)
    BY <1>5 DEF Failed
  <2>2. Shaped(s) /\ InTheirCalls(s)
    BY <1>2, <1>3, <1>5 DEF Shaped, InTheirCalls
  <2>3. OfFailures(s)
    BY <1>2, <1>3, <1>5, <2>1 DEF OfFailures
  <2>4. Covered(r) => Covered(s)
    BY <1>5, <2>1 DEF Covered
  <2>5. QED
    BY <1>2, <1>5, <2>2, <2>3, <2>4 DEF Fit
<1> DEFINE raised == \E i \in DOMAIN r.results : r.results[i].status = "failed"
           t == [r EXCEPT !.raised = raised, !.left = Observed(r.results), !.pc = r.test.ends]
           u == [t EXCEPT !.shots = IF raised /\ r.test.label THEN @ \union {0} ELSE @]
<1>6. /\ DOMAIN t = RunFields /\ t.test = r.test /\ t.results = r.results /\ t.tasks = r.tasks
      /\ t.shots = r.shots
  BY <1>2 DEF RunFields
<1>7. \/ Works /\ Become(p, u)
      \/ Fails /\ Become(p, t)
  BY DEF Conclude
<1> HIDE DEF t, raised
<1>8. /\ DOMAIN u = RunFields /\ u.test = r.test /\ u.results = r.results /\ u.tasks = r.tasks
      /\ u.shots = r.shots \/ u.shots = r.shots \union {0}
  BY <1>6 DEF RunFields
<1> HIDE DEF u
<1>9. errors' = MaxErrors => errors = MaxErrors
  BY <1>4, <1>7, ErrorsOnlyFall
<1>10. Fit(t, errors') /\ Fit(u, errors')
  BY <1>5, <1>6, <1>8, <1>9
<1>11. QED
  BY <1>7, <1>10

\* What a run does before its steps and after them.
LEMMA ReportsFit ==
    ASSUME TInv, NEW p \in Proc,
           Launch(p) \/ Enter(p) \/ Record(p) \/ Index(p) \/ Junit(p) \/ Load(p) \/ Tear(p) \/ Save(p) \/ Render(p) \/ Die(p)
    PROVE  (Works \/ Fails) /\ \E s : Become(p, s) /\ Fit(s, errors')
<1> DEFINE r == run[p]
<1>1. Fit(r, errors) /\ DOMAIN r = RunFields
  BY DEF TInv, Fit, Shaped
<1>2. Works \/ Fails
  BY DEF Launch, Enter, Record, Recorded, Refused, Broken, Index, Junit, Load, Tear, Save, Render, Die
<1>3. errors' = MaxErrors => errors = MaxErrors
  BY <1>2, ErrorsOnlyFall DEF TInv
<1>4. CASE Launch(p)
  <2>1. PICK t \in Tests : Become(p, NewRun(t))
    BY <1>4 DEF Launch
  <2>2. QED
    BY <1>2, <2>1, NewRunFits
<1>5. CASE Render(p) \/ Die(p)
  BY <1>2, <1>5, NoRunFits DEF Render, Die
<1>6. CASE Junit(p)
  <2>1. PICK j : Become(p, [NoRun EXCEPT !.junit = j])
    BY <1>6 DEF Junit
  <2> DEFINE s == [NoRun EXCEPT !.junit = j]
  <2>2. Fit(NoRun, errors') /\ DOMAIN NoRun = RunFields
    BY NoRunFits DEF Fit, Shaped
  <2>3. /\ DOMAIN s = RunFields /\ s.test = NoRun.test /\ s.results = NoRun.results
        /\ s.tasks = NoRun.tasks /\ s.shots = NoRun.shots /\ s.pc = NoRun.pc
    BY <2>2 DEF RunFields
  <2> HIDE DEF s
  <2>4. Fit(s, errors')
    BY <2>2, <2>3, SameRunFits
  <2>5. QED
    BY <1>2, <2>1, <2>4 DEF s
<1>7. ASSUME NEW s, r.pc # "steps", DOMAIN s = RunFields, s.test = r.test, s.results = r.results,
             s.tasks = r.tasks, s.shots = r.shots
      PROVE  Fit(s, errors')
  BY <1>1, <1>3, <1>7, SameRunFits
<1>8. CASE Enter(p) \/ Tear(p) \/ Save(p)
  <2>1. PICK c : r.pc # "steps" /\ Become(p, [r EXCEPT !.pc = c])
    BY <1>8 DEF Enter, Tear, Save, At
  <2> DEFINE s == [r EXCEPT !.pc = c]
  <2>2. DOMAIN s = RunFields /\ s.test = r.test /\ s.results = r.results /\ s.tasks = r.tasks /\ s.shots = r.shots
    BY <1>1 DEF RunFields
  <2> HIDE DEF s
  <2>3. Fit(s, errors')
    BY <1>7, <2>1, <2>2
  <2>4. QED
    BY <1>2, <2>1, <2>3 DEF s
<1>9. CASE Record(p)
  <2> DEFINE q == [r EXCEPT !.left = @ \ {Min(r.left)}]
  <2>1. /\ r.pc # "steps"
        /\ \/ \E snap : Become(p, [q EXCEPT !.snap = snap])
           \/ \E snap, held, lock : Become(p, [q EXCEPT !.snap = snap, !.held = held, !.lock = lock])
    BY <1>9 DEF Record, Recorded, Refused, Broken, At
  <2>2. DOMAIN q = RunFields /\ q.test = r.test /\ q.results = r.results /\ q.tasks = r.tasks /\ q.shots = r.shots
    BY <1>1 DEF RunFields
  <2> HIDE DEF q
  <2>3. ASSUME NEW snap PROVE Fit([q EXCEPT !.snap = snap], errors')
    <3> DEFINE s == [q EXCEPT !.snap = snap]
    <3>1. DOMAIN s = RunFields /\ s.test = r.test /\ s.results = r.results /\ s.tasks = r.tasks /\ s.shots = r.shots
      BY <2>2 DEF RunFields
    <3> HIDE DEF s
    <3>2. Fit(s, errors')
      BY <1>7, <2>1, <3>1
    <3>3. QED
      BY <3>2 DEF s
  <2>4. ASSUME NEW snap, NEW held, NEW lock PROVE Fit([q EXCEPT !.snap = snap, !.held = held, !.lock = lock], errors')
    <3> DEFINE s == [q EXCEPT !.snap = snap, !.held = held, !.lock = lock]
    <3>1. DOMAIN s = RunFields /\ s.test = r.test /\ s.results = r.results /\ s.tasks = r.tasks /\ s.shots = r.shots
      BY <2>2 DEF RunFields
    <3> HIDE DEF s
    <3>2. Fit(s, errors')
      BY <1>7, <2>1, <3>1
    <3>3. QED
      BY <3>2 DEF s
  <2>5. QED
    BY <1>2, <2>1, <2>3, <2>4
<1>10. CASE Index(p)
  <2>1. r.pc # "steps" /\ (\/ Become(p, [r EXCEPT !.pc = "junit"])
                           \/ \E flaky : Become(p, [[r EXCEPT !.pc = "junit"] EXCEPT !.flaky = flaky]))
    BY <1>10 DEF Index, At
  <2> DEFINE s == [r EXCEPT !.pc = "junit"]
  <2>2. DOMAIN s = RunFields /\ s.test = r.test /\ s.results = r.results /\ s.tasks = r.tasks /\ s.shots = r.shots
    BY <1>1 DEF RunFields
  <2> HIDE DEF s
  <2>3. ASSUME NEW flaky PROVE Fit([s EXCEPT !.flaky = flaky], errors')
    <3> DEFINE u == [s EXCEPT !.flaky = flaky]
    <3>1. DOMAIN u = RunFields /\ u.test = r.test /\ u.results = r.results /\ u.tasks = r.tasks /\ u.shots = r.shots
      BY <2>2 DEF RunFields
    <3> HIDE DEF u
    <3>2. Fit(u, errors')
      BY <1>7, <2>1, <3>1
    <3>3. QED
      BY <3>2 DEF u
  <2>4. Fit(s, errors')
    BY <1>7, <2>1, <2>2
  <2>5. QED
    BY <1>2, <2>1, <2>3, <2>4 DEF s
<1>11. CASE Load(p)
  <2>1. r.pc # "steps" /\ \E m : Become(p, [r EXCEPT !.pc = "tear", !.mine = m])
    BY <1>11 DEF Load, At
  <2>2. PICK m : Become(p, [r EXCEPT !.pc = "tear", !.mine = m])
    BY <2>1
  <2> DEFINE s == [r EXCEPT !.pc = "tear", !.mine = m]
  <2>3. DOMAIN s = RunFields /\ s.test = r.test /\ s.results = r.results /\ s.tasks = r.tasks /\ s.shots = r.shots
    BY <1>1 DEF RunFields
  <2> HIDE DEF s
  <2>4. Fit(s, errors')
    BY <1>7, <2>1, <2>3
  <2>5. QED
    BY <1>2, <2>2, <2>4 DEF s
<1>12. QED
  BY <1>4, <1>5, <1>6, <1>8, <1>9, <1>10, <1>11

-----------------------------------------------------------------------------
LEMMA ProcessFits ==
    ASSUME TInv, NEW p \in Proc, Process(p)
    PROVE  (Works \/ Fails) /\ \E s : Become(p, s) /\ Fit(s, errors')
<1>1. ASSUME NEW i \in DOMAIN run[p].tasks, TaskOf(p, i)
      PROVE  (Works \/ Fails) /\ \E s : Become(p, s) /\ Fit(s, errors')
  <2>1. CASE Soft(p, i) \/ Call(p, i) \/ Return(p, i)
    <3>1. Works /\ errors' = errors
      BY <2>1 DEF Soft, Call, Return, Works
    <3>2. \E s : Become(p, s) /\ Fit(s, errors)
      BY <2>1, SoftFits, CallFits, ReturnFits
    <3>3. QED
      BY <3>1, <3>2
  <2>2. CASE Shoot(p, i)
    <3>1. Works \/ Fails
      BY <2>2 DEF Shoot
    <3>2. QED
      BY <2>2, <3>1, ShootFits
  <2>3. QED
    BY <1>1, <2>1, <2>2 DEF TaskOf
<1>2. QED
  BY <1>1, ConcludeFits, ReportsFit DEF Process

LEMMA RunsFit == Spec => []TInv
<1>1. Init => TInv
  <2>1. SUFFICES ASSUME Init PROVE TInv
    OBVIOUS
  <2>2. errors \in 0..MaxErrors /\ DOMAIN run = Proc /\ \A p \in Proc : run[p] = NoRun
    BY <2>1, CountsAssumption DEF Init
  <2>3. QED
    BY <2>2, NoRunFits DEF TInv
<1>2. TInv /\ [Next]_vars => TInv'
  <2>1. SUFFICES ASSUME TInv, [Next]_vars PROVE TInv'
    OBVIOUS
  <2>2. CASE UNCHANGED vars
    BY <2>1, <2>2 DEF vars, TInv
  <2>3. ASSUME NEW p \in Proc, Process(p) PROVE TInv'
    <3>1. Works \/ Fails
      BY <2>1, <2>3, ProcessFits
    <3>2. PICK s : Become(p, s) /\ Fit(s, errors')
      BY <2>1, <2>3, ProcessFits
    <3>3. errors' \in 0..MaxErrors /\ (errors' = MaxErrors => errors = MaxErrors)
      BY <2>1, <3>1, ErrorsOnlyFall DEF TInv
    <3>4. run' = [run EXCEPT ![p] = s] /\ DOMAIN run = Proc
      BY <2>1, <3>2 DEF Become, TInv
    <3>5. DOMAIN run' = Proc /\ run'[p] = s /\ \A q \in Proc \ {p} : run'[q] = run[q]
      BY <3>4
    <3>6. ASSUME NEW q \in Proc PROVE Fit(run'[q], errors')
      <4>1. CASE q = p
        BY <3>2, <3>5, <4>1
      <4>2. CASE q # p
        BY <2>1, <3>3, <3>5, <4>2 DEF TInv, Fit
      <4>3. QED
        BY <4>1, <4>2
    <3>7. QED
      BY <3>3, <3>5, <3>6 DEF TInv
  <2>4. QED
    BY <2>1, <2>2, <2>3 DEF Next, Done
<1>3. QED
  BY <1>1, <1>2, PTL DEF Spec

\* Whatever the tasks of a test do while a screenshot is taken, and however many
\* there are, a picture bears the number of a failure, and where none failed to be
\* taken every failure of a finished test has its own.
THEOREM FailuresHaveTheirShots == Spec => []EachFailureHasItsShot
<1>1. TInv => EachFailureHasItsShot
  <2>1. SUFFICES ASSUME TInv, NEW p \in Proc
                 PROVE  LET r == run[p] IN
                        /\ r.shots \ {0} \subseteq Failed(r)
                        /\ errors = MaxErrors /\ r.pc \notin {"enter", "steps"} /\ r.test.label => Failed(r) \subseteq r.shots
    BY DEF EachFailureHasItsShot
  <2>2. InTheirCalls(run[p]) /\ OfFailures(run[p]) /\ (errors = MaxErrors => Covered(run[p]))
    BY <2>1 DEF TInv, Fit
  <2>3. QED
    BY <2>2 DEF InTheirCalls, OfFailures, Covered
<1>2. QED
  BY <1>1, RunsFit, PTL
-----------------------------------------------------------------------------
\* The flaky history.  What a run has still to record makes up the difference
\* between what was observed and what the table has.

LEMMA MinIs ==
    ASSUME NEW S, S \subseteq Nat, S # {}
    PROVE  Min(S) \in S /\ \A y \in S : Min(S) <= y
<1> DEFINE R == OpToRel(<, Nat)
<1>1. \A x, y \in S : <<y, x>> \in R <=> y < x
  BY DEF OpToRel
<1>2. IsWellFoundedOn(R, Nat)
  BY NatLessThanWellFounded
<1> HIDE DEF R
<1>3. PICK x \in S : \A y \in S : ~(<<y, x>> \in R)
  BY <1>2, WFMin
<1>4. x \in Nat /\ \A y \in S : y \in Nat /\ ~(y < x)
  BY <1>1, <1>3
<1>5. \A y \in S : x <= y
  BY <1>4
<1>6. QED
  BY <1>5 DEF Min

\* A step with an outcome is observed at one place.
LEMMA ObservedOnce ==
    ASSUME NEW results \in Seq(Result), NEW s
    PROVE  /\ Observed(results) \subseteq DOMAIN results
           /\ (\E i \in Observed(results) : results[i].step = s) <=> With(results, s, Good \union {"failed"}) # {}
           /\ \A i, j \in Observed(results) : results[i].step = results[j].step => i = j
<1> DEFINE W(t) == With(results, t, Good \union {"failed"})
           end == Len(results) + 1
<1>1. DOMAIN results = 1..Len(results) /\ end \in Nat /\ end \notin 1..Len(results) /\ 1..Len(results) \subseteq Nat
  OBVIOUS
<1>2. \A t : W(t) \subseteq 1..Len(results)
  BY <1>1 DEF With
<1>3. ASSUME NEW t
      PROVE  Min({end} \union W(t)) \in {end} \union W(t) /\ \A y \in W(t) : Min({end} \union W(t)) <= y
  <2>1. {end} \union W(t) \subseteq Nat /\ {end} \union W(t) # {}
    BY <1>1, <1>2
  <2>2. QED
    BY <2>1, MinIs
<1>4. \A i \in DOMAIN results : i \in Observed(results) <=> i = Min({end} \union W(results[i].step))
  BY DEF Observed
<1>5. \A t : \A i \in W(t) : results[i].step = t
  BY DEF With
<1> HIDE DEF W, end
<1>6. ASSUME NEW i \in Observed(results) PROVE i \in W(results[i].step)
  <2>1. i \in DOMAIN results /\ i = Min({end} \union W(results[i].step))
    BY <1>4 DEF Observed
  <2>2. i # end
    BY <1>1, <2>1
  <2>3. QED
    BY <1>3, <2>1, <2>2
<1>7. ASSUME W(s) # {} PROVE \E i \in Observed(results) : results[i].step = s
  <2> DEFINE m == Min({end} \union W(s))
  <2>1. PICK y \in W(s) : m <= y
    BY <1>3, <1>7
  <2>2. m \in {end} \union W(s)
    BY <1>3
  <2> HIDE DEF m
  <2>3. m # end
    <3>1. y \in 1..Len(results) /\ Len(results) \in Nat
      BY <1>2
    <3>2. QED
      BY <2>1, <3>1 DEF end
  <2>4. m \in W(s) /\ m \in DOMAIN results /\ results[m].step = s
    BY <1>1, <1>2, <1>5, <2>2, <2>3
  <2>5. m \in Observed(results)
    BY <1>4, <2>4 DEF m
  <2>6. QED
    BY <2>4, <2>5
<1>8. \A i, j \in Observed(results) : results[i].step = results[j].step => i = j
  BY <1>4 DEF Observed
<1>9. \A t : W(t) = With(results, t, Good \union {"failed"})
  BY DEF W
<1>10. QED
  BY <1>5, <1>6, <1>7, <1>8, <1>9 DEF Observed

-----------------------------------------------------------------------------
Row      == [passes : Nat, fails : Nat]
Outcomes == [passed : Nat, failed : Nat]

\* What a run has still to record or to commit of a step, as a pass or as a fail.
Owing(r, s, ok) ==
    /\ r.pc = "record"
    /\ \E i \in r.left \union r.held : r.results[i].step = s
    /\ Passed(r.results, s) <=> ok
Owes(s, ok) == {p \in Proc : Owing(run[p], s, ok)}

Counted(row, ok) == IF ok THEN row.passes ELSE row.fails
Truly(t, ok)     == IF ok THEN t.passed ELSE t.failed
Below(row, t)    == row.passes <= t.passed /\ row.fails <= t.failed
Often(t)         == t.passed > 0 /\ t.failed > 0 /\ t.passed + t.failed >= MinRuns

\* What is recorded and what is still to be are no more than what was observed,
\* and as long as nothing went wrong just that.
CountsFit ==
    \A s \in Step, ok \in BOOLEAN :
        /\ Counted(history[s], ok) + Cardinality(Owes(s, ok)) <= Truly(truth[s], ok)
        /\ errors = MaxErrors => Counted(history[s], ok) + Cardinality(Owes(s, ok)) = Truly(truth[s], ok)

\* What a run holds of the history was true when it was read, and remains so.
Judges(r, tr, e) ==
    /\ r.pc = "enter" => r.left = {}
    /\ r.pc \in {"enter", "steps"} => r.held = {}
    /\ r.pc = "record" => /\ r.left \union r.held \subseteq Observed(r.results) /\ r.left \intersect r.held = {}
                          /\ r.held # {} => e # MaxErrors
    /\ r.lock => e # MaxErrors
    /\ r.snap # NoSnapshot => e # MaxErrors /\ r.snap \in [Step -> Row] /\ \A s \in Step : Below(r.snap[s], tr[s])
    /\ \A s \in r.flaky : s \in Step /\ Often(tr[s])
    /\ \A c \in Range(r.junit) : c.result.status = "failed" =>
          c.case = "failed" \/ (c.result.step \in Step /\ Often(tr[c.result.step]))

Grows(t, u) == t.passed <= u.passed /\ t.failed <= u.failed

RInv ==
    /\ history \in [Step -> Row] /\ truth \in [Step -> Outcomes]
    /\ CountsFit /\ \A p \in Proc : Judges(run[p], truth, errors)

LEMMA JudgesOn ==
    ASSUME NEW r, NEW tr, NEW e, Judges(r, tr, e), NEW u, NEW f, f = MaxErrors => e = MaxErrors,
           tr \in [Step -> Outcomes], u \in [Step -> Outcomes], \A s \in Step : Grows(tr[s], u[s])
    PROVE  Judges(r, u, f)
<1>1. \A s \in Step : /\ tr[s].passed \in Nat /\ tr[s].failed \in Nat
                      /\ u[s].passed \in Nat /\ u[s].failed \in Nat
                      /\ tr[s].passed <= u[s].passed /\ tr[s].failed <= u[s].failed
  BY DEF Outcomes, Grows
<1>2. \A s \in Step : Often(tr[s]) => Often(u[s])
  BY <1>1, CountsAssumption DEF Often
<1>3. ASSUME NEW s \in Step, NEW row \in Row, Below(row, tr[s])
      PROVE  Below(row, u[s])
  <2>1. row.passes \in Nat /\ row.fails \in Nat
    BY DEF Row
  <2>2. QED
    BY <1>1, <1>3, <2>1 DEF Below
<1>4. r.snap \in [Step -> Row] => \A s \in Step : r.snap[s] \in Row
  OBVIOUS
<1>5. QED
  BY <1>2, <1>3, <1>4 DEF Judges

\* One process moves: the sets of those who owe differ in it alone.
LEMMA OwesMoves ==
    ASSUME NEW p \in Proc, NEW x, DOMAIN run = Proc, Become(p, x), NEW s, NEW ok
    PROVE  /\ Cardinality(Owes(s, ok)) \in Nat /\ Cardinality(Owes(s, ok)') \in Nat
           /\ Cardinality(Owes(s, ok)') + (IF Owing(run[p], s, ok) THEN 1 ELSE 0)
                = Cardinality(Owes(s, ok)) + (IF Owing(x, s, ok) THEN 1 ELSE 0)
<1>1. run'[p] = x /\ \A q \in Proc \ {p} : run'[q] = run[q]
  BY DEF Become
<1> DEFINE O == Owes(s, ok)
           N == {q \in Proc : Owing(run'[q], s, ok)}
<1>2. Owes(s, ok)' = N
  BY DEF Owes, Owing
<1>3. IsFiniteSet(O) /\ IsFiniteSet(N)
  <2>1. O \subseteq Proc /\ N \subseteq Proc
    BY DEF Owes
  <2>2. QED
    BY <2>1, CountsAssumption, FS_Subset
<1>4. (p \in O <=> Owing(run[p], s, ok)) /\ (p \in N <=> Owing(x, s, ok))
  BY <1>1 DEF Owes
<1>5. O \ {p} = N \ {p}
  BY <1>1 DEF Owes
<1> HIDE DEF O, N
<1>6. /\ Cardinality(O) \in Nat /\ Cardinality(N) \in Nat
      /\ Cardinality(O \ {p}) = IF p \in O THEN Cardinality(O) - 1 ELSE Cardinality(O)
      /\ Cardinality(N \ {p}) = IF p \in N THEN Cardinality(N) - 1 ELSE Cardinality(N)
  BY <1>3, FS_CardinalityType, FS_RemoveElement
<1>7. Cardinality(N) + (IF p \in O THEN 1 ELSE 0) = Cardinality(O) + (IF p \in N THEN 1 ELSE 0)
  BY <1>5, <1>6
<1>8. QED
  BY <1>2, <1>4, <1>6, <1>7 DEF O

\* A process moves on and owes what it owed, or something went wrong and it owes less.
LEMMA QuietCounts ==
    ASSUME TInv, RInv, NEW p \in Proc, NEW x, Become(p, x), UNCHANGED <<history, truth>>,
           errors' = MaxErrors => errors = MaxErrors,
           \A s \in Step, ok \in BOOLEAN : Owing(x, s, ok) => Owing(run[p], s, ok),
           errors' = MaxErrors => \A s \in Step, ok \in BOOLEAN : Owing(run[p], s, ok) => Owing(x, s, ok),
           Judges(x, truth, errors')
    PROVE  RInv'
<1>1. DOMAIN run = Proc
  BY DEF TInv
<1>2. ASSUME NEW q \in Proc PROVE Judges(run'[q], truth, errors')
  <2>1. CASE q = p
    BY <1>1, <2>1 DEF Become
  <2>2. CASE q # p
    <3>1. run'[q] = run[q]
      BY <1>1, <2>2 DEF Become
    <3>2. Judges(run[q], truth, errors)
      BY DEF RInv
    <3>3. \A s \in Step : Grows(truth[s], truth[s])
      BY DEF RInv, Outcomes, Grows
    <3>4. QED
      BY <3>1, <3>2, <3>3, JudgesOn DEF RInv
  <2>3. QED
    BY <2>1, <2>2
<1>3. CountsFit'
  <2>1. SUFFICES ASSUME NEW s \in Step, NEW ok \in BOOLEAN
                 PROVE  /\ Counted(history[s], ok) + Cardinality(Owes(s, ok)') <= Truly(truth[s], ok)
                        /\ errors' = MaxErrors => Counted(history[s], ok) + Cardinality(Owes(s, ok)') = Truly(truth[s], ok)
    BY DEF CountsFit
  <2>2. /\ Counted(history[s], ok) + Cardinality(Owes(s, ok)) <= Truly(truth[s], ok)
        /\ errors = MaxErrors => Counted(history[s], ok) + Cardinality(Owes(s, ok)) = Truly(truth[s], ok)
    BY DEF RInv, CountsFit
  <2>3. Counted(history[s], ok) \in Nat /\ Truly(truth[s], ok) \in Nat
    BY DEF RInv, Row, Outcomes, Counted, Truly
  <2>4. /\ Cardinality(Owes(s, ok)) \in Nat /\ Cardinality(Owes(s, ok)') \in Nat
        /\ Cardinality(Owes(s, ok)') + (IF Owing(run[p], s, ok) THEN 1 ELSE 0)
                = Cardinality(Owes(s, ok)) + (IF Owing(x, s, ok) THEN 1 ELSE 0)
    BY <1>1, OwesMoves
  <2> DEFINE c == Counted(history[s], ok)
             t == Truly(truth[s], ok)
             a == Cardinality(Owes(s, ok))
             b == Cardinality(Owes(s, ok)')
  <2>5. b <= a /\ (errors' = MaxErrors => b = a)
    BY <2>4
  <2> HIDE DEF c, t, a, b
  <2>6. c + b <= t /\ (errors' = MaxErrors => c + b = t)
    <3>1. c \in Nat /\ t \in Nat /\ a \in Nat /\ b \in Nat
      BY <2>3, <2>4 DEF c, t, a, b
    <3>2. c + a <= t /\ (errors = MaxErrors => c + a = t)
      BY <2>2 DEF c, t, a
    <3>3. QED
      BY <2>5, <3>1, <3>2
  <2>7. QED
    BY <2>6 DEF c, t, b
<1>4. QED
  BY <1>2, <1>3 DEF RInv

\* A process that has nothing to record, before and after.
LEMMA NotRecording ==
    ASSUME TInv, RInv, NEW p \in Proc, NEW x, Become(p, x), UNCHANGED <<history, truth>>, Works \/ Fails,
           run[p].pc # "record", x.pc # "record", Judges(x, truth, errors')
    PROVE  RInv'
<1>1. errors' = MaxErrors => errors = MaxErrors
  BY ErrorsOnlyFall DEF TInv
<1>2. \A s \in Step, ok \in BOOLEAN : ~Owing(x, s, ok) /\ ~Owing(run[p], s, ok)
  BY DEF Owing
<1>3. QED
  BY <1>1, <1>2, QuietCounts

\* What a run holds of the history is kept, or dropped.
LEMMA JudgesKept ==
    ASSUME TInv, RInv, Works \/ Fails, NEW p \in Proc, NEW x, x.pc \notin {"enter", "record"},
           x.pc = "steps" => run[p].pc = "steps" /\ x.held = run[p].held,
           x.lock = run[p].lock, x.snap = run[p].snap, x.flaky = run[p].flaky, x.junit = run[p].junit
    PROVE  Judges(x, truth, errors')
<1>1. Judges(run[p], truth, errors) /\ (errors' = MaxErrors => errors = MaxErrors)
  BY ErrorsOnlyFall DEF RInv, TInv
<1>2. QED
  BY <1>1 DEF Judges

LEMMA NothingToJudge ==
    ASSUME NEW x, NEW tr, NEW e, x.left = {}, x.held = {}, ~x.lock, x.snap = NoSnapshot, x.flaky = {}, x.junit = <<>>
    PROVE  Judges(x, tr, e)
<1>1. Range(x.junit) = {}
  BY DEF Range
<1>2. QED
  BY <1>1 DEF Judges

LEMMA NewRunHolds ==
    ASSUME NEW t
    PROVE  /\ NewRun(t).left = {} /\ NewRun(t).snap = NoSnapshot /\ NewRun(t).flaky = {} /\ NewRun(t).junit = <<>>
           /\ NewRun(t).pc = "enter" /\ NewRun(t).held = {} /\ NoRun.held = {} /\ ~NewRun(t).lock /\ ~NoRun.lock
           /\ NoRun.left = {} /\ NoRun.snap = NoSnapshot /\ NoRun.flaky = {} /\ NoRun.junit = <<>>
           /\ NoRun.pc = "over" /\ DOMAIN NoRun = RunFields
<1>1. \A u : /\ NewRun(u).left = {} /\ NewRun(u).snap = NoSnapshot /\ NewRun(u).flaky = {} /\ NewRun(u).junit = <<>>
             /\ NewRun(u).pc = "enter" /\ NewRun(u).held = {} /\ ~NewRun(u).lock /\ DOMAIN NewRun(u) = RunFields
  BY DEF NewRun, RunFields
<1> DEFINE n == NewRun(NoTest)
<1>2. NoRun = [n EXCEPT !.pc = "over"]
  BY DEF NoRun
<1>3. n.left = {} /\ n.held = {} /\ ~n.lock /\ n.snap = NoSnapshot /\ n.flaky = {} /\ n.junit = <<>> /\ DOMAIN n = RunFields
  BY <1>1
<1> HIDE DEF n
<1>4. QED
  BY <1>1, <1>2, <1>3 DEF RunFields

\* The tasks.
LEMMA TasksCount ==
    ASSUME TInv, RInv, NEW p \in Proc, NEW i \in DOMAIN run[p].tasks, TaskOf(p, i)
    PROVE  RInv'
<1> DEFINE r == run[p]
<1>1. DOMAIN r = RunFields /\ InTheirCalls(r)
  BY DEF TInv, Fit, Shaped
<1>2. UNCHANGED <<history, truth>> /\ (Works \/ Fails)
  BY DEF TaskOf, Soft, Call, Return, Shoot, disk, ghosts
<1>3. r.pc = "steps"
  BY <1>1 DEF TaskOf, Soft, Call, Return, Shoot, MayCall, At, InTheirCalls
<1> DEFINE Same(x) == x.pc = r.pc /\ x.held = r.held /\ x.lock = r.lock /\ x.snap = r.snap /\ x.flaky = r.flaky /\ x.junit = r.junit
<1>4. \E x : Become(p, x) /\ Same(x)
  <2>1. CASE Soft(p, i)
    <3>1. \A b : Same([r EXCEPT !.soft = TRUE, !.tasks[i].before = b, !.tasks[i].at = @ + 1])
      BY <1>1 DEF RunFields
    <3>2. \A b : Same([r EXCEPT !.soft = b, !.tasks[i].at = @ + 1])
      BY <1>1 DEF RunFields
    <3> HIDE DEF Same
    <3>3. \/ Become(p, [r EXCEPT !.soft = TRUE, !.tasks[i].before = r.soft, !.tasks[i].at = @ + 1])
          \/ Become(p, [r EXCEPT !.soft = r.tasks[i].before, !.tasks[i].at = @ + 1])
      BY <2>1 DEF Soft
    <3>4. QED
      BY <3>1, <3>2, <3>3
  <2>2. CASE Call(p, i)
    <3>1. \A b : Same([r EXCEPT !.tasks[i].pc = "called", !.tasks[i].soft = b])
      BY <1>1 DEF RunFields
    <3>2. QED
      BY <2>2, <3>1 DEF Call
  <2>3. CASE Return(p, i)
    <3> DEFINE call == Current(p, i)
    <3>1. \A u : Same([r EXCEPT !.tasks[i] = u])
      BY <1>1 DEF RunFields
    <3>2. ASSUME NEW status
          PROVE  LET a == Appended(r, i, call, status) IN
                 /\ Same([a EXCEPT !.tasks[i].pc = "shot", !.tasks[i].shot = Len(a.results)])
                 /\ Same([a EXCEPT !.tasks[i].pc = "ready", !.tasks[i].at = @ + 1])
      <4> DEFINE a == Appended(r, i, call, status)
      <4>1. DOMAIN a = RunFields /\ Same(a)
        BY <1>1 DEF Appended, RunFields
      <4> HIDE DEF a
      <4>2. \A n : Same([a EXCEPT !.tasks[i].pc = "shot", !.tasks[i].shot = n])
        BY <4>1 DEF RunFields
      <4>3. Same([a EXCEPT !.tasks[i].pc = "ready", !.tasks[i].at = @ + 1])
        BY <4>1 DEF RunFields
      <4>4. QED
        BY <4>2, <4>3 DEF a
    <3> HIDE DEF Same, call
    <3>3. CASE Become(p, [r EXCEPT !.tasks[i] = [NewTask EXCEPT !.at = r.tasks[i].at + 1]])
      BY <3>1, <3>3
    <3>4. ASSUME NEW status,
                 LET a == Appended(r, i, call, status) IN
                 Become(p, IF status = "failed" /\ a.test.label
                           THEN [a EXCEPT !.tasks[i].pc = "shot", !.tasks[i].shot = Len(a.results)]
                           ELSE [a EXCEPT !.tasks[i].pc = "ready", !.tasks[i].at = @ + 1])
          PROVE  \E x : Become(p, x) /\ Same(x)
      BY <3>2, <3>4
    <3>5. QED
      BY <2>3, <3>3, <3>4 DEF Return, call
  <2>4. CASE Shoot(p, i)
    <3> DEFINE q == [r EXCEPT !.tasks[i].pc = "ready", !.tasks[i].at = @ + 1]
    <3>1. DOMAIN q = RunFields /\ Same(q)
      BY <1>1 DEF RunFields
    <3>2. \E n : Become(p, q) \/ Become(p, [q EXCEPT !.shots = @ \union {n}])
      BY <2>4 DEF Shoot
    <3> HIDE DEF q
    <3>3. \A n : Same([q EXCEPT !.shots = @ \union {n}])
      BY <3>1 DEF RunFields
    <3>4. QED
      BY <3>1, <3>2, <3>3
  <2>5. QED
    BY <2>1, <2>2, <2>3, <2>4 DEF TaskOf
<1>5. PICK x : Become(p, x) /\ Same(x)
  BY <1>4
<1>6. Judges(x, truth, errors')
  BY <1>2, <1>3, <1>5, JudgesKept
<1>7. QED
  BY <1>2, <1>3, <1>5, <1>6, NotRecording

\* What a run does without observing or recording anything.
LEMMA RestCounts ==
    ASSUME TInv, RInv, NEW p \in Proc, Launch(p) \/ Load(p) \/ Tear(p) \/ Save(p) \/ Render(p)
    PROVE  RInv'
<1> DEFINE r == run[p]
<1>1. DOMAIN r = RunFields
  BY DEF TInv, Fit, Shaped
<1>2. UNCHANGED <<history, truth>> /\ Works /\ r.pc # "record"
  BY DEF Launch, Load, Tear, Save, Render, disk, ghosts, At
<1>3. CASE Launch(p) \/ Render(p)
  <2>1. PICK x : Become(p, x) /\ (x = NoRun \/ \E t : x = NewRun(t))
    BY <1>3 DEF Launch, Render
  <2>2. x.pc # "record" /\ Judges(x, truth, errors')
    BY <2>1, NewRunHolds, NothingToJudge
  <2>3. QED
    BY <1>2, <2>1, <2>2, NotRecording
<1>4. CASE Load(p)
  <2>1. PICK m : Become(p, [r EXCEPT !.pc = "tear", !.mine = m])
    BY <1>4 DEF Load
  <2> DEFINE x == [r EXCEPT !.pc = "tear", !.mine = m]
  <2>2. x.pc = "tear" /\ x.lock = r.lock /\ x.snap = r.snap /\ x.flaky = r.flaky /\ x.junit = r.junit
    BY <1>1 DEF RunFields
  <2> HIDE DEF x
  <2>3. Judges(x, truth, errors')
    BY <1>2, <2>2, JudgesKept
  <2>4. QED
    BY <1>2, <2>1, <2>2, <2>3, NotRecording DEF x
<1>5. CASE Tear(p) \/ Save(p)
  <2>1. PICK c \in {"save", "render"} : Become(p, [r EXCEPT !.pc = c])
    BY <1>5 DEF Tear, Save
  <2> DEFINE x == [r EXCEPT !.pc = c]
  <2>2. x.pc = c /\ x.lock = r.lock /\ x.snap = r.snap /\ x.flaky = r.flaky /\ x.junit = r.junit
    BY <1>1 DEF RunFields
  <2> HIDE DEF x
  <2>3. Judges(x, truth, errors')
    BY <1>2, <2>2, JudgesKept
  <2>4. QED
    BY <1>2, <2>1, <2>2, <2>3, NotRecording DEF x
<1>6. QED
  BY <1>3, <1>4, <1>5

\* A bootstrap that fails leaves a run that observed nothing.
LEMMA EnterCounts ==
    ASSUME TInv, RInv, NEW p \in Proc, Enter(p)
    PROVE  RInv'
<1> DEFINE r == run[p]
<1>1. DOMAIN r = RunFields /\ Judges(r, truth, errors)
  BY DEF TInv, Fit, Shaped, RInv
<1>2. UNCHANGED <<history, truth>> /\ (Works \/ Fails) /\ r.pc = "enter"
  BY DEF Enter, disk, ghosts, At
<1>3. PICK c : c # "enter" /\ Become(p, [r EXCEPT !.pc = c])
  <2>1. r.test.ends # "enter"
    <3>1. r.test \in Tests \/ r.test = NoTest
      BY DEF TInv, Fit, Shaped
    <3>2. QED
      BY <3>1, CountsAssumption DEF NoTest
  <2>2. QED
    BY <2>1 DEF Enter
<1> DEFINE x == [r EXCEPT !.pc = c]
<1>4. x.pc = c /\ x.left = r.left /\ x.held = r.held /\ x.lock = r.lock /\ x.snap = r.snap /\ x.flaky = r.flaky /\ x.junit = r.junit
  BY <1>1 DEF RunFields
<1> HIDE DEF x
<1>5. r.left = {} /\ r.held = {}
  BY <1>1, <1>2 DEF Judges
<1>6. errors' = MaxErrors => errors = MaxErrors
  BY <1>2, ErrorsOnlyFall DEF TInv
<1>7. Judges(x, truth, errors')
  BY <1>1, <1>3, <1>4, <1>5, <1>6 DEF Judges
<1>8. \A s \in Step, ok \in BOOLEAN : ~Owing(x, s, ok) /\ ~Owing(r, s, ok)
  BY <1>2, <1>4, <1>5 DEF Owing
<1>9. QED
  BY <1>2, <1>3, <1>6, <1>7, <1>8, QuietCounts DEF x

\* A run that dies records nothing more.
LEMMA DieCounts ==
    ASSUME TInv, RInv, NEW p \in Proc, Die(p)
    PROVE  RInv'
<1>1. Fails /\ Become(p, NoRun) /\ UNCHANGED <<history, truth>>
  BY DEF Die, disk, ghosts
<1>2. errors' # MaxErrors
  BY <1>1, ErrorsOnlyFall DEF TInv
<1>3. \A s \in Step, ok \in BOOLEAN : ~Owing(NoRun, s, ok)
  BY NewRunHolds DEF Owing
<1>4. Judges(NoRun, truth, errors')
  BY NewRunHolds, NothingToJudge
<1>5. QED
  BY <1>1, <1>2, <1>3, <1>4, QuietCounts

-----------------------------------------------------------------------------
\* The table has no more than what was observed.
LEMMA HistoryBelow ==
    ASSUME TInv, RInv, NEW s \in Step
    PROVE  history[s] \in Row /\ Below(history[s], truth[s])
<1>1. history[s] \in Row /\ truth[s] \in Outcomes
  BY DEF RInv
<1>2. ASSUME NEW ok \in BOOLEAN
      PROVE  Counted(history[s], ok) <= Truly(truth[s], ok)
  <2>1. Counted(history[s], ok) + Cardinality(Owes(s, ok)) <= Truly(truth[s], ok)
    BY DEF RInv, CountsFit
  <2>2. Cardinality(Owes(s, ok)) \in Nat
    <3>1. Owes(s, ok) \subseteq Proc
      BY DEF Owes
    <3>2. QED
      BY <3>1, CountsAssumption, FS_Subset, FS_CardinalityType
  <2>3. Counted(history[s], ok) \in Nat /\ Truly(truth[s], ok) \in Nat
    BY <1>1 DEF Row, Outcomes, Counted, Truly
  <2>4. QED
    BY <2>1, <2>2, <2>3
<1>3. Counted(history[s], TRUE) <= Truly(truth[s], TRUE) /\ Counted(history[s], FALSE) <= Truly(truth[s], FALSE)
  BY <1>2
<1>4. QED
  BY <1>1, <1>3 DEF Below, Counted, Truly

\* What a connection sees of a table that has no more than what was observed: its
\* own uncommitted rows are among what was.
LEMMA SeenBelow ==
    ASSUME TInv, RInv, NEW p \in Proc, run[p].pc = "record", NEW s \in Step
    PROVE  LET row == Seen(run[p])[s] IN row \in Row /\ Below(row, truth[s])
<1> DEFINE r == run[p]
           held == \E i \in r.held : r.results[i].step = s
<1>1. Judges(r, truth, errors) /\ history[s] \in Row /\ truth[s] \in Outcomes /\ Below(history[s], truth[s])
  BY HistoryBelow DEF RInv
<1>2. CASE ~r.lock
  BY <1>1, <1>2 DEF Seen, Judges
<1>3. CASE r.lock /\ ~held
  BY <1>1, <1>3 DEF Seen, Upserts
<1>4. CASE r.lock /\ held
  <2> DEFINE ok == Passed(r.results, s)
             a  == Cardinality(Owes(s, ok))
  <2>1. Owing(r, s, ok) /\ ok \in BOOLEAN
    <3>1. ok \in BOOLEAN
      BY DEF Passed
    <3>2. QED
      BY <1>4, <3>1 DEF Owing
  <2>2. a \in Nat /\ a >= 1
    <3>1. p \in Owes(s, ok) /\ Owes(s, ok) \subseteq Proc
      BY <2>1 DEF Owes
    <3>2. IsFiniteSet(Owes(s, ok))
      BY <3>1, CountsAssumption, FS_Subset
    <3>3. Cardinality(Owes(s, ok) \ {p}) = a - 1 /\ Cardinality(Owes(s, ok) \ {p}) \in Nat /\ a \in Nat
      BY <3>1, <3>2, FS_RemoveElement, FS_CardinalityType
    <3> HIDE DEF a
    <3>4. QED
      BY <3>3
  <2>3. Counted(history[s], ok) + a <= Truly(truth[s], ok)
    BY <2>1 DEF RInv, CountsFit
  <2>4. Seen(r)[s] = [passes |-> history[s].passes + (IF ok THEN 1 ELSE 0), fails |-> history[s].fails + (IF ok THEN 0 ELSE 1)]
    BY <1>4 DEF Seen, Upserts
  <2> HIDE DEF ok, a
  <2>5. /\ history[s].passes \in Nat /\ history[s].fails \in Nat /\ truth[s].passed \in Nat /\ truth[s].failed \in Nat
        /\ history[s].passes <= truth[s].passed /\ history[s].fails <= truth[s].failed
    BY <1>1 DEF Row, Outcomes, Below
  <2>6. CASE ok
    BY <2>2, <2>3, <2>4, <2>5, <2>6 DEF Counted, Truly, Row, Below
  <2>7. CASE ~ok
    BY <2>2, <2>3, <2>4, <2>5, <2>7 DEF Counted, Truly, Row, Below
  <2>8. QED
    BY <2>6, <2>7
<1>5. QED
  BY <1>2, <1>3, <1>4

\* flaky_index, from the table, from the snapshot of a failed transaction or with
\* what is uncommitted.
LEMMA IndexCounts ==
    ASSUME TInv, RInv, NEW p \in Proc, Index(p)
    PROVE  RInv'
<1> DEFINE r == run[p]
           seen == Seen(r)
           t == [r EXCEPT !.pc = "junit"]
           judged == {s \in Step : Classify(seen[s])}
<1>1. DOMAIN r = RunFields /\ Judges(r, truth, errors)
  BY DEF TInv, Fit, Shaped, RInv
<1>2. UNCHANGED <<history, truth>> /\ (Works \/ Fails) /\ r.left = {} /\ r.pc = "record"
  BY DEF Index, disk, ghosts, At
<1>3. Become(p, t) \/ Become(p, [t EXCEPT !.flaky = judged])
  BY DEF Index
<1>4. ASSUME NEW s \in judged PROVE s \in Step /\ Often(truth[s])
  <2>1. s \in Step /\ Classify(seen[s])
    OBVIOUS
  <2>2. seen[s] \in Row /\ Below(seen[s], truth[s])
    BY <1>2, <2>1, SeenBelow
  <2> HIDE DEF seen
  <2>3. /\ seen[s].passes \in Nat /\ seen[s].fails \in Nat /\ truth[s].passed \in Nat /\ truth[s].failed \in Nat
        /\ seen[s].passes <= truth[s].passed /\ seen[s].fails <= truth[s].failed
    BY <2>1, <2>2 DEF Row, Below, RInv, Outcomes
  <2>4. seen[s].passes > 0 /\ seen[s].fails > 0 /\ seen[s].passes + seen[s].fails >= MinRuns
    BY <2>1 DEF Classify
  <2>5. QED
    BY <2>1, <2>3, <2>4, CountsAssumption DEF Often
<1> HIDE DEF seen
<1>5. /\ DOMAIN t = RunFields /\ t.pc = "junit" /\ t.lock = r.lock /\ t.snap = r.snap /\ t.flaky = r.flaky /\ t.junit = r.junit
  BY <1>1 DEF RunFields
<1> HIDE DEF t, judged
<1> DEFINE u == [t EXCEPT !.flaky = judged]
<1>6. /\ u.pc = "junit" /\ u.lock = r.lock /\ u.snap = r.snap /\ u.flaky = judged /\ u.junit = r.junit
  BY <1>5 DEF RunFields
<1> HIDE DEF u
<1>7. errors' = MaxErrors => errors = MaxErrors
  BY <1>2, ErrorsOnlyFall DEF TInv
<1>8. Judges(t, truth, errors') /\ Judges(u, truth, errors')
  BY <1>1, <1>4, <1>5, <1>6, <1>7 DEF Judges
<1>9. \A s \in Step, ok \in BOOLEAN : /\ ~Owing(t, s, ok) /\ ~Owing(u, s, ok)
                                      /\ errors' = MaxErrors => ~Owing(r, s, ok)
  BY <1>1, <1>2, <1>5, <1>6, <1>7 DEF Owing, Judges
<1>10. QED
  BY <1>2, <1>3, <1>7, <1>8, <1>9, QuietCounts DEF u

\* A failure that is skipped in the report is of a step that was judged flaky.
LEMMA JunitCounts ==
    ASSUME TInv, RInv, NEW p \in Proc, Junit(p)
    PROVE  RInv'
<1> DEFINE r == run[p]
           cases == [i \in DOMAIN r.results |-> [result |-> r.results[i], case |-> Case(r, r.results[i])]]
           x == [NoRun EXCEPT !.junit = cases]
<1>1. r.results \in Seq(Result) /\ Judges(r, truth, errors)
  BY DEF TInv, Fit, Shaped, RInv
<1>2. Become(p, x) /\ Works /\ UNCHANGED <<history, truth>> /\ r.pc = "junit"
  BY DEF Junit, disk, ghosts, At
<1>3. ASSUME NEW c \in Range(cases), c.result.status = "failed"
      PROVE  c.case = "failed" \/ (c.result.step \in Step /\ Often(truth[c.result.step]))
  <2>1. PICK i \in DOMAIN r.results : c = [result |-> r.results[i], case |-> Case(r, r.results[i])]
    BY DEF Range
  <2>2. r.results[i] \in Result /\ r.results[i].status = "failed"
    BY <1>1, <1>3, <2>1
  <2>3. Case(r, r.results[i]) = IF Quarantine /\ r.results[i].step \in r.flaky THEN "skipped" ELSE "failed"
    BY <2>2 DEF Case, Good
  <2>4. r.results[i].step \in Step
    BY <2>2 DEF Result
  <2>5. QED
    BY <1>1, <2>1, <2>3, <2>4 DEF Judges
<1>4. /\ x.left = {} /\ ~x.lock /\ x.snap = NoSnapshot /\ x.flaky = {} /\ x.junit = cases /\ x.pc = "over"
  BY NewRunHolds DEF RunFields
<1> HIDE DEF cases, x
<1>5. Judges(x, truth, errors')
  BY <1>3, <1>4 DEF Judges
<1>6. QED
  BY <1>2, <1>4, <1>5, NotRecording

\* record_run: a statement and its commit count what the run owes of the steps
\* executed so far, or one step is lost or left to the next commit.
LEMMA RecordCounts ==
    ASSUME TInv, RInv, NEW p \in Proc, Record(p)
    PROVE  RInv'
<1> DEFINE r == run[p]
<1>1. /\ DOMAIN r = RunFields /\ r.results \in Seq(Result) /\ Judges(r, truth, errors)
      /\ r.pc = "record" /\ r.left # {} /\ UNCHANGED truth /\ (Works \/ Fails)
  BY DEF TInv, Fit, Shaped, RInv, Record, Recorded, Refused, Broken, At, ghosts
<1>2. /\ r.left \subseteq Observed(r.results) /\ r.left \subseteq Nat /\ r.held \subseteq Observed(r.results)
      /\ r.left \intersect r.held = {} /\ (r.held # {} \/ r.lock => errors # MaxErrors)
  <2>1. /\ r.left \subseteq Observed(r.results) /\ r.held \subseteq Observed(r.results)
        /\ r.left \intersect r.held = {} /\ (r.held # {} \/ r.lock => errors # MaxErrors)
    BY <1>1 DEF Judges
  <2>2. DOMAIN r.results \subseteq Nat
    BY <1>1
  <2>3. QED
    BY <1>1, <2>1, <2>2, ObservedOnce
<1>3. PICK i \in r.left : i = Min(r.left)
  BY <1>1, <1>2, MinIs
<1>4. \A j, k \in r.left \union r.held : r.results[j].step = r.results[k].step => j = k
  <2>1. \A j, k \in Observed(r.results) : r.results[j].step = r.results[k].step => j = k
    BY <1>1, ObservedOnce
  <2> HIDE DEF r
  <2>2. QED
    BY <1>2, <2>1
<1>5. errors' = MaxErrors => errors = MaxErrors /\ ~Fails
  BY <1>1, ErrorsOnlyFall DEF TInv
<1>6. history \in [Step -> Row] /\ truth \in [Step -> Outcomes]
  BY DEF RInv
<1> DEFINE t == [r EXCEPT !.left = @ \ {i}]
<1>7. Recorded(p, i, t) \/ Refused(p, t) \/ Broken(p, i, t)
  BY <1>3 DEF Record
<1>8. /\ DOMAIN t = RunFields /\ t.pc = "record" /\ t.left = r.left \ {i} /\ t.results = r.results
      /\ t.snap = r.snap /\ t.held = r.held /\ t.lock = r.lock /\ t.flaky = r.flaky /\ t.junit = r.junit
  BY <1>1 DEF RunFields
<1> HIDE DEF t
<1> DEFINE Same(x) == x.pc = "record" /\ x.left = r.left \ {i} /\ x.results = r.results /\ x.flaky = r.flaky /\ x.junit = r.junit
<1>9. ASSUME NEW snap, NEW held, NEW lock
      PROVE  LET x == [t EXCEPT !.snap = snap, !.held = held, !.lock = lock] IN
             Same(x) /\ x.snap = snap /\ x.held = held /\ x.lock = lock
  BY <1>8 DEF RunFields
<1>10. ASSUME NEW snap
       PROVE  LET x == [t EXCEPT !.snap = snap] IN
              Same(x) /\ x.snap = snap /\ x.held = r.held /\ x.lock = r.lock
  BY <1>8 DEF RunFields
<1>11. CASE Recorded(p, i, t)
  <2> DEFINE x == [t EXCEPT !.snap = NoSnapshot, !.held = {}, !.lock = FALSE]
             rows == r.held \union {i}
             In(u) == \E j \in rows : r.results[j].step = u
             pass(u) == Passed(r.results, u)
  <2>1. Same(x) /\ x.snap = NoSnapshot /\ x.held = {} /\ x.lock = FALSE
    BY <1>9
  <2>2. Become(p, x) /\ history' = Upserts(r.results, rows)
    BY <1>11 DEF Recorded
  <2> HIDE DEF x
\* What it still owes is what it did, but for these rows.
  <2>3. ASSUME NEW u \in Step, NEW ok \in BOOLEAN
        PROVE  Owing(x, u, ok) <=> Owing(r, u, ok) /\ ~In(u)
    <3>1. (\E j \in r.left \union r.held : r.results[j].step = u) /\ ~In(u)
             <=> \E j \in r.left \ {i} : r.results[j].step = u
      <4>1. ASSUME NEW j \in r.left \ {i}, r.results[j].step = u PROVE ~In(u)
        <5>1. \A k \in rows : k \in r.left \union r.held /\ k # j
          BY <1>2, <1>3
        <5> HIDE DEF rows
        <5>2. QED
          BY <1>4, <4>1, <5>1
      <4>2. QED
        BY <1>3, <4>1
    <3>2. QED
      BY <1>1, <2>1, <3>1 DEF Owing
  <2>4. ASSUME NEW u \in Step, NEW ok \in BOOLEAN, In(u)
        PROVE  Owing(r, u, ok) <=> (pass(u) <=> ok)
    BY <1>1, <1>3, <2>4 DEF Owing
  <2>5. \A u \in Step : history[u] \in Row /\ history[u].passes \in Nat /\ history[u].fails \in Nat
    BY <1>6 DEF Row
  <2>6. ASSUME NEW u \in Step
        PROVE  /\ In(u) => history'[u] = [passes |-> history[u].passes + (IF pass(u) THEN 1 ELSE 0),
                                          fails  |-> history[u].fails + (IF pass(u) THEN 0 ELSE 1)]
               /\ ~In(u) => history'[u] = history[u]
    BY <2>2 DEF Upserts
  <2> HIDE DEF In, pass
  <2>7. ASSUME NEW u \in Step PROVE history'[u] \in Row
    <3>1. CASE In(u)
      <4> DEFINE a == history[u].passes + (IF pass(u) THEN 1 ELSE 0)
                 b == history[u].fails + (IF pass(u) THEN 0 ELSE 1)
      <4>1. a \in Nat /\ b \in Nat
        BY <2>5
      <4>2. history'[u] = [passes |-> a, fails |-> b]
        BY <2>6, <3>1
      <4> HIDE DEF a, b
      <4>3. QED
        BY <4>1, <4>2 DEF Row
    <3>2. CASE ~In(u)
      BY <2>5, <2>6, <3>2
    <3>3. QED
      BY <3>1, <3>2
  <2>8. history' \in [Step -> Row]
    <3>1. history' = [u \in Step |-> history'[u]]
      BY <2>2 DEF Upserts
    <3>2. QED
      BY <2>7, <3>1
  <2>9. ASSUME NEW u \in Step, NEW ok \in BOOLEAN
        PROVE  Counted(history'[u], ok) = Counted(history[u], ok) + (IF In(u) /\ Owing(r, u, ok) THEN 1 ELSE 0)
    <3>1. CASE In(u)
      <4>1. Owing(r, u, ok) <=> (pass(u) <=> ok)
        BY <2>4, <3>1
      <4>2. CASE pass(u)
        <5>1. history'[u] = [passes |-> history[u].passes + 1, fails |-> history[u].fails + 0]
          BY <2>6, <3>1, <4>2
        <5>2. history'[u].passes = history[u].passes + 1 /\ history'[u].fails = history[u].fails
          BY <2>5, <5>1
        <5>3. Owing(r, u, ok) <=> ok
          BY <4>1, <4>2
        <5>4. QED
          BY <2>5, <3>1, <5>2, <5>3 DEF Counted
      <4>3. CASE ~pass(u)
        <5>1. history'[u] = [passes |-> history[u].passes + 0, fails |-> history[u].fails + 1]
          BY <2>6, <3>1, <4>3
        <5>2. history'[u].passes = history[u].passes /\ history'[u].fails = history[u].fails + 1
          BY <2>5, <5>1
        <5>3. Owing(r, u, ok) <=> ~ok
          BY <4>1, <4>3
        <5>4. QED
          BY <2>5, <3>1, <5>2, <5>3 DEF Counted
      <4>4. QED
        BY <4>2, <4>3
    <3>2. CASE ~In(u)
      <4>1. Counted(history[u], ok) \in Nat
        BY <2>5 DEF Counted
      <4>2. history'[u] = history[u]
        BY <2>6, <3>2
      <4>3. QED
        BY <3>2, <4>1, <4>2
    <3>3. QED
      BY <3>1, <3>2
  <2> HIDE DEF rows
  <2>10. ASSUME NEW u \in Step, NEW ok \in BOOLEAN
         PROVE  /\ Counted(history'[u], ok) + Cardinality(Owes(u, ok)') <= Truly(truth[u], ok)
                /\ errors' = MaxErrors => Counted(history'[u], ok) + Cardinality(Owes(u, ok)') = Truly(truth[u], ok)
    <3> DEFINE a == Cardinality(Owes(u, ok))
               b == Cardinality(Owes(u, ok)')
               c == Counted(history[u], ok)
               d == Counted(history'[u], ok)
               n == Truly(truth[u], ok)
    <3>1. a \in Nat /\ b \in Nat /\ b + (IF Owing(r, u, ok) THEN 1 ELSE 0) = a + (IF Owing(x, u, ok) THEN 1 ELSE 0)
      BY <2>2, OwesMoves DEF TInv
    <3>2. Owing(x, u, ok) <=> Owing(r, u, ok) /\ ~In(u)
      BY <2>3
    <3>3. d = c + (IF In(u) /\ Owing(r, u, ok) THEN 1 ELSE 0)
      BY <2>9
    <3>4. c \in Nat /\ n \in Nat
      BY <1>6 DEF Row, Outcomes, Counted, Truly
    <3>5. c + a <= n /\ (errors = MaxErrors => c + a = n)
      BY DEF RInv, CountsFit
    <3> HIDE DEF a, b, c, d, n
    <3>6. d + b = c + a
      BY <3>1, <3>2, <3>3, <3>4
    <3>7. d + b <= n /\ (errors' = MaxErrors => d + b = n)
      BY <1>5, <3>5, <3>6
    <3>8. QED
      BY <3>7 DEF b, d, n
  <2>11. CountsFit'
    BY <1>1, <2>10 DEF CountsFit
  <2>12. ASSUME NEW q \in Proc PROVE Judges(run'[q], truth, errors')
    <3>1. CASE q = p
      <4>1. run'[q] = x
        BY <2>2, <3>1 DEF Become, TInv
      <4>2. x.left \union x.held \subseteq Observed(x.results)
        BY <1>2, <2>1
      <4>3. QED
        BY <1>1, <2>1, <4>1, <4>2 DEF Judges
    <3>2. CASE q # p
      <4>1. run'[q] = run[q]
        BY <2>2, <3>2 DEF Become, TInv
      <4>2. Judges(run[q], truth, errors) /\ \A u \in Step : Grows(truth[u], truth[u])
        BY <1>6 DEF RInv, Outcomes, Grows
      <4>3. QED
        BY <1>5, <1>6, <4>1, <4>2, JudgesOn
    <3>3. QED
      BY <3>1, <3>2
  <2>13. QED
    BY <1>1, <1>6, <2>8, <2>11, <2>12 DEF RInv
\* Something went wrong, now or before, and the run owes no more than it did.
<1>12. ASSUME NEW x, Same(x), Become(p, x), UNCHANGED history, errors' # MaxErrors,
              x.snap = r.snap \/ x.snap = history, x.held = r.held \/ x.held = r.held \union {i}
       PROVE  RInv'
  <2>1. x.snap # NoSnapshot => x.snap \in [Step -> Row] /\ \A u \in Step : Below(x.snap[u], truth[u])
    BY <1>1, <1>6, <1>12, HistoryBelow DEF Judges
  <2>2. x.left \union x.held \subseteq Observed(x.results) /\ x.left \intersect x.held = {}
    BY <1>2, <1>3, <1>12
  <2>3. Judges(x, truth, errors')
    BY <1>1, <1>12, <2>1, <2>2 DEF Judges
  <2>4. \A u \in Step, ok \in BOOLEAN : Owing(x, u, ok) => Owing(r, u, ok)
    BY <1>1, <1>3, <1>12 DEF Owing
  <2>5. QED
    BY <1>1, <1>5, <1>12, <2>3, <2>4, QuietCounts
<1>13. CASE Refused(p, t)
  <2>1. PICK snap \in {r.snap, history} : Become(p, [t EXCEPT !.snap = IF r.snap = NoSnapshot THEN snap ELSE @])
    BY <1>13 DEF Refused
  <2> DEFINE new == IF r.snap = NoSnapshot THEN snap ELSE r.snap
             x == [t EXCEPT !.snap = new]
  <2>2. Become(p, x) /\ new \in {r.snap, history}
    BY <1>8, <2>1
  <2>3. Same(x) /\ x.snap = new /\ x.held = r.held
    BY <1>10
  <2>4. errors' # MaxErrors
    <3>1. CASE MayWrite(p)
      BY <1>5, <1>13, <3>1 DEF Refused
    <3>2. CASE r.snap # NoSnapshot
      BY <1>1, <1>5, <3>2 DEF Judges
    <3>3. CASE \E q \in Proc : run[q].lock
      BY <1>5, <3>3 DEF RInv, Judges
    <3>4. QED
      BY <3>1, <3>2, <3>3 DEF MayWrite
  <2> HIDE DEF x, new, Same
  <2>5. QED
    BY <1>12, <1>13, <2>2, <2>3, <2>4 DEF Refused
<1>14. CASE Broken(p, i, t)
  <2>1. PICK held \in {r.held, r.held \union {i}} : Become(p, [t EXCEPT !.snap = history, !.held = held, !.lock = TRUE])
    BY <1>14 DEF Broken
  <2> DEFINE x == [t EXCEPT !.snap = history, !.held = held, !.lock = TRUE]
  <2>2. Same(x) /\ x.snap = history /\ x.held = held
    BY <1>9
  <2>3. UNCHANGED history /\ errors' # MaxErrors
    BY <1>5, <1>14 DEF Broken
  <2> HIDE DEF x, Same
  <2>4. QED
    BY <1>12, <2>1, <2>2, <2>3 DEF x
<1>15. QED
  BY <1>7, <1>11, <1>13, <1>14

\* A run that ends is observed, and owes what was.
LEMMA ConcludeCounts ==
    ASSUME TInv, RInv, NEW p \in Proc, Conclude(p)
    PROVE  RInv'
<1> DEFINE r == run[p]
<1>1. /\ DOMAIN r = RunFields /\ r.results \in Seq(Result) /\ Judges(r, truth, errors)
      /\ r.pc = "steps" /\ UNCHANGED history /\ (Works \/ Fails)
  BY DEF TInv, Fit, Shaped, RInv, Conclude, At, disk
<1>2. errors' = MaxErrors => errors = MaxErrors
  BY <1>1, ErrorsOnlyFall DEF TInv
<1>3. history \in [Step -> Row] /\ truth \in [Step -> Outcomes]
  BY DEF RInv
<1>4. PICK x : /\ Become(p, x) /\ x.held = r.held /\ x.lock = r.lock /\ x.pc = r.test.ends /\ x.left = Observed(r.results) /\ x.results = r.results
               /\ x.snap = r.snap /\ x.flaky = r.flaky /\ x.junit = r.junit
  <2> DEFINE raised == \E i \in DOMAIN r.results : r.results[i].status = "failed"
             t == [r EXCEPT !.raised = raised, !.left = Observed(r.results), !.pc = r.test.ends]
             u == [t EXCEPT !.shots = IF raised /\ r.test.label THEN @ \union {0} ELSE @]
  <2>1. Become(p, u) \/ Become(p, t)
    BY DEF Conclude
  <2>2. /\ DOMAIN t = RunFields /\ t.held = r.held /\ t.lock = r.lock /\ t.pc = r.test.ends /\ t.left = Observed(r.results) /\ t.results = r.results
        /\ t.snap = r.snap /\ t.flaky = r.flaky /\ t.junit = r.junit
    BY <1>1 DEF RunFields
  <2> HIDE DEF t, raised
  <2>3. /\ u.held = r.held /\ u.lock = r.lock /\ u.pc = r.test.ends /\ u.left = Observed(r.results) /\ u.results = r.results
        /\ u.snap = r.snap /\ u.flaky = r.flaky /\ u.junit = r.junit
    BY <2>2 DEF RunFields
  <2> HIDE DEF u
  <2>4. QED
    BY <2>1, <2>2, <2>3
<1> DEFINE good(s) == With(r.results, s, Good) # {}
           bad(s)  == With(r.results, s, {"failed"}) # {}
           seen(s, ok) == IF ok THEN good(s) /\ ~bad(s) ELSE bad(s)
<1>5. r.test.ends \in {"record", "summary", "none"} /\ r.held = {}
  <2>1. r.test \in Tests \/ r.test = NoTest
    BY DEF TInv, Fit, Shaped
  <2>2. r.test.ends \in {"record", "summary", "none"}
    BY <2>1, CountsAssumption DEF NoTest
  <2>3. QED
    BY <1>1, <2>2 DEF Judges
<1>6. ASSUME NEW s \in Step, NEW ok \in BOOLEAN
      PROVE  ~Owing(r, s, ok) /\ (Owing(x, s, ok) <=> r.test.ends = "record" /\ seen(s, ok))
  <2>1. (\E i \in Observed(r.results) : r.results[i].step = s) <=> good(s) \/ bad(s)
    <3>1. With(r.results, s, Good \union {"failed"}) = With(r.results, s, Good) \union With(r.results, s, {"failed"})
      BY DEF With
    <3>2. QED
      BY <1>1, <3>1, ObservedOnce
  <2>2. Passed(r.results, s) <=> good(s) /\ ~bad(s)
    BY DEF Passed
  <2> HIDE DEF good, bad
  <2>3. QED
    BY <1>1, <1>4, <1>5, <2>1, <2>2 DEF Owing
\* What was observed is counted.
<1>7. /\ truth' \in [Step -> Outcomes]
      /\ \A s \in Step, ok \in BOOLEAN :
            Truly(truth'[s], ok) = Truly(truth[s], ok) + (IF r.test.ends = "record" /\ seen(s, ok) THEN 1 ELSE 0)
  <2>1. CASE r.test.ends = "record"
    <3>1. truth' = [s \in Step |->
                [passed |-> truth[s].passed + IF good(s) /\ ~bad(s) THEN 1 ELSE 0,
                 failed |-> truth[s].failed + IF bad(s) THEN 1 ELSE 0]]
      BY <2>1 DEF Conclude
    <3> HIDE DEF good, bad
    <3>2. \A s \in Step : truth[s].passed \in Nat /\ truth[s].failed \in Nat
      BY <1>3 DEF Outcomes
    <3>3. ASSUME NEW s \in Step
          PROVE  /\ truth'[s] \in Outcomes
                 /\ truth'[s].passed = truth[s].passed + (IF good(s) /\ ~bad(s) THEN 1 ELSE 0)
                 /\ truth'[s].failed = truth[s].failed + (IF bad(s) THEN 1 ELSE 0)
      BY <3>1, <3>2 DEF Outcomes
    <3>4. truth' \in [Step -> Outcomes]
      BY <3>1, <3>3
    <3>5. QED
      BY <2>1, <3>3, <3>4 DEF Truly
  <2>2. CASE r.test.ends # "record"
    <3>1. truth' = truth
      BY <2>2 DEF Conclude
    <3>2. \A s \in Step, ok \in BOOLEAN : Truly(truth[s], ok) \in Nat
      BY <1>3 DEF Outcomes, Truly
    <3>3. QED
      BY <1>3, <2>2, <3>1, <3>2
  <2>3. QED
    BY <2>1, <2>2
<1> HIDE DEF seen
<1>8. \A s \in Step : Grows(truth[s], truth'[s])
  <2>1. SUFFICES ASSUME NEW s \in Step PROVE Grows(truth[s], truth'[s])
    OBVIOUS
  <2>2. \A ok \in BOOLEAN : Truly(truth[s], ok) \in Nat /\ Truly(truth[s], ok) <= Truly(truth'[s], ok)
    <3>1. SUFFICES ASSUME NEW ok \in BOOLEAN
                   PROVE  Truly(truth[s], ok) \in Nat /\ Truly(truth[s], ok) <= Truly(truth'[s], ok)
      OBVIOUS
    <3>2. Truly(truth[s], ok) \in Nat
      BY <1>3 DEF Outcomes, Truly
    <3>3. QED
      BY <1>7, <3>2
  <2>3. QED
    BY <2>2 DEF Grows, Truly
<1>9. ASSUME NEW s \in Step, NEW ok \in BOOLEAN
      PROVE  /\ Counted(history[s], ok) + Cardinality(Owes(s, ok)') <= Truly(truth'[s], ok)
             /\ errors' = MaxErrors => Counted(history[s], ok) + Cardinality(Owes(s, ok)') = Truly(truth'[s], ok)
  <2> DEFINE a == Cardinality(Owes(s, ok))
             b == Cardinality(Owes(s, ok)')
             c == Counted(history[s], ok)
             n == Truly(truth[s], ok)
             m == Truly(truth'[s], ok)
  <2>1. a \in Nat /\ b \in Nat /\ b + (IF Owing(r, s, ok) THEN 1 ELSE 0) = a + (IF Owing(x, s, ok) THEN 1 ELSE 0)
    BY <1>4, OwesMoves DEF TInv
  <2>2. c \in Nat /\ n \in Nat
    BY <1>3 DEF Row, Outcomes, Counted, Truly
  <2>3. c + a <= n /\ (errors = MaxErrors => c + a = n)
    BY DEF RInv, CountsFit
  <2>4. m = n + (IF r.test.ends = "record" /\ seen(s, ok) THEN 1 ELSE 0)
    BY <1>7
  <2> HIDE DEF a, b, c, n, m
  <2>5. c + b <= m /\ (errors' = MaxErrors => c + b = m)
    BY <1>2, <1>6, <2>1, <2>2, <2>3, <2>4
  <2>6. QED
    BY <2>5 DEF b, c, m
<1>10. CountsFit'
  BY <1>1, <1>9 DEF CountsFit
<1>11. ASSUME NEW q \in Proc PROVE Judges(run'[q], truth', errors')
  <2>1. CASE q = p
    <3>1. Judges(r, truth', errors')
      BY <1>1, <1>2, <1>3, <1>7, <1>8, JudgesOn
    <3>2. run'[q] = x
      BY <1>4, <2>1 DEF Become, TInv
    <3>3. QED
      BY <1>4, <1>5, <3>1, <3>2 DEF Judges
  <2>2. CASE q # p
    <3>1. run'[q] = run[q] /\ Judges(run[q], truth, errors)
      BY <1>4, <2>2 DEF Become, TInv, RInv
    <3>2. QED
      BY <1>2, <1>3, <1>7, <1>8, <3>1, JudgesOn
  <2>3. QED
    BY <2>1, <2>2
<1>12. QED
  BY <1>1, <1>3, <1>7, <1>10, <1>11 DEF RInv

-----------------------------------------------------------------------------
LEMMA HistoryInitially == Init => RInv
<1>1. SUFFICES ASSUME Init PROVE RInv
  OBVIOUS
<1>2. /\ history = [s \in Step |-> [passes |-> 0, fails |-> 0]]
      /\ truth = [s \in Step |-> [passed |-> 0, failed |-> 0]]
      /\ \A p \in Proc : run[p] = NoRun
  BY <1>1 DEF Init, NoTable, NoRow
<1>3. history \in [Step -> Row] /\ truth \in [Step -> Outcomes]
  BY <1>2 DEF Row, Outcomes
<1>4. \A s, ok : Owes(s, ok) = {}
  BY <1>2, NewRunHolds DEF Owes, Owing
<1>5. CountsFit
  <2>1. SUFFICES ASSUME NEW s \in Step, NEW ok \in BOOLEAN
                 PROVE  Counted(history[s], ok) + Cardinality(Owes(s, ok)) = Truly(truth[s], ok) /\ Truly(truth[s], ok) = 0
    BY DEF CountsFit
  <2>2. Cardinality(Owes(s, ok)) = 0
    BY <1>4, FS_EmptySet
  <2>3. Counted(history[s], ok) = 0 /\ Truly(truth[s], ok) = 0
    BY <1>2 DEF Counted, Truly
  <2>4. QED
    BY <2>2, <2>3
<1>6. \A p \in Proc : Judges(run[p], truth, errors)
  BY <1>2, NewRunHolds, NothingToJudge
<1>7. QED
  BY <1>3, <1>5, <1>6 DEF RInv

LEMMA HistoryKept ==
    ASSUME TInv, RInv, [Next]_vars
    PROVE  RInv'
<1>1. CASE UNCHANGED vars
  <2>1. UNCHANGED <<run, history, truth, errors>>
    BY <1>1 DEF vars, disk, ghosts
  <2>2. QED
    BY <2>1 DEF RInv, CountsFit, Owes, Owing, Judges
<1>2. ASSUME NEW p \in Proc, Process(p) PROVE RInv'
  BY <1>2, RestCounts, EnterCounts, TasksCount, ConcludeCounts, RecordCounts, IndexCounts, JunitCounts, DieCounts DEF Process
<1>3. QED
  BY <1>1, <1>2 DEF Next, Done

LEMMA HistoryHolds == Spec => [](TInv /\ RInv)
<1>1. TInv /\ RInv /\ [Next]_vars => RInv'
  BY HistoryKept
<1>2. QED
  BY <1>1, HistoryInitially, RunsFit, PTL DEF Spec

\* For any number of processes and runs, and whatever statements fail or
\* processes die, the history never counts a pass or a fail that was not, and as
\* long as nothing failed it counts every run that has recorded once per step
\* (flaky.py: record_run, layer.py: record_flaky_outcome).
THEOREM HistoryIsTrue == Spec => []HistoryCountsAddUp
<1>1. TInv /\ RInv => HistoryCountsAddUp
  <2>1. SUFFICES ASSUME TInv, RInv PROVE HistoryCountsAddUp
    OBVIOUS
  <2>2. \A s \in Step : history[s].passes <= truth[s].passed /\ history[s].fails <= truth[s].failed
    BY <2>1, HistoryBelow DEF Below
  <2>3. ASSUME errors = MaxErrors, \A p \in Proc : ~At(p, "record"), NEW s \in Step
        PROVE  history[s].passes = truth[s].passed /\ history[s].fails = truth[s].failed
    <3>1. ASSUME NEW ok \in BOOLEAN PROVE Counted(history[s], ok) = Truly(truth[s], ok)
      <4>1. Owes(s, ok) = {}
        BY <2>3 DEF Owes, Owing, At
      <4>2. Cardinality(Owes(s, ok)) = 0
        BY <4>1, FS_EmptySet
      <4>3. Counted(history[s], ok) \in Nat
        BY <2>1 DEF RInv, Row, Counted
      <4>4. QED
        BY <2>1, <2>3, <4>2, <4>3 DEF RInv, CountsFit
    <3>2. Counted(history[s], TRUE) = Truly(truth[s], TRUE) /\ Counted(history[s], FALSE) = Truly(truth[s], FALSE)
      BY <3>1
    <3>3. QED
      BY <3>2 DEF Counted, Truly
  <2>4. QED
    BY <2>2, <2>3 DEF HistoryCountsAddUp
<1>2. QED
  BY <1>1, HistoryHolds, PTL

\* Whatever part of the history a process saw when it judged, a failure it skips
\* is of a step that did pass and did fail, often enough (junit_report.py).
THEOREM QuarantineHidesNoBreak == Spec => []QuarantineOnlyIntermittent
<1>1. RInv => QuarantineOnlyIntermittent
  BY DEF RInv, Judges, Often, QuarantineOnlyIntermittent
<1>2. QED
  BY <1>1, HistoryHolds, PTL
=============================================================================
