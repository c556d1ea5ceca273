------------------------------- MODULE MCTestRun -------------------------------
(***************************************************************************)
(* Tests of two concurrent tasks, of a loop over one step, with a soft      *)
(* verification, and of the bridge.                                        *)
(***************************************************************************)
EXTENDS TestRun, TLC

Steps == {"a", "b"}
C(call, step) == [call |-> call, step |-> step]
Test(name, tasks, ends, label) == [name |-> name, tasks |-> tasks, ends |-> ends, title |-> "none", label |-> label, dry |-> FALSE]

Twice    == Test("twice", << <<C("act", "a"), C("verify", "a")>> >>, "record", FALSE)
Both     == Test("both", << <<C("act", "a")>>, <<C("soft", "b"), C("verify", "b"), C("hard", "b")>> >>, "record", TRUE)
Bridged  == [Test("one", << <<C("recover", "b"), C("probe", "b")>> >>, "summary", TRUE) EXCEPT !.title = "Nightly"]
Bridged2 == Test("two", << <<C("extract", "a")>> >>, "summary", FALSE)

DryTest  == [Twice EXCEPT !.dry = TRUE]
AllTests == {Twice, DryTest, Both, Bridged, Bridged2}
Processes == Permutations(Proc)
Summed   == {Bridged, Bridged2}
=============================================================================
