---------------------------- MODULE BridgeProofs ----------------------------
(***************************************************************************)
(* The bridge implements Calls, for any number of calls, sessions and      *)
(* channels.  The invariant says where a call can be: a line is in the pipe *)
(* once and before its work, work ends once, and an answer is of a call     *)
(* that was performed.                                                     *)
(***************************************************************************)
EXTENDS Bridge, TLAPS

Shapes ==
    /\ promise \in [Ids -> {"none", "pending", "resolved", "rejected", "lost", "refused"}]
    /\ outcome \in [Ids -> {"none", "ok", "error"}]
    /\ work \in [Ids -> Work]
    /\ inbox \in Seq(Ids) /\ outbox \in Seq(Ids)
    /\ nextId \in 1..(MaxId + 1) /\ closed \in BOOLEAN

\* Sent and not turned away.
Sent(id) == promise[id] \notin {"none", "refused"}

\* The calls made so far are those below the next id.
Numbered == \A id \in Ids : promise[id] = "none" <=> id >= nextId

\* A closed client has nobody waiting.
NobodyWaits == closed => \A id \in Ids : promise[id] # "pending"

\* A line in the pipe is there once, of a call nothing was done for yet.
LinesAreNew ==
    /\ \A i \in 1..Len(inbox) : Sent(inbox[i]) /\ outcome[inbox[i]] = "none" /\ work[inbox[i]] = "none"
    /\ \A i, j \in 1..Len(inbox) : inbox[i] = inbox[j] => i = j

\* Work is of a call that was sent, and ends it once.
WorkEndsOnce ==
    \A id \in Ids :
        /\ outcome[id] # "none" => Sent(id)
        /\ work[id] \in {"launch", "enter", "step", "teardown"} => Sent(id) /\ outcome[id] = "none"
        /\ work[id] \in {"ok", "error"} => outcome[id] # "none"

AnswersArePerformed == \A i \in 1..Len(outbox) : outcome[outbox[i]] # "none"

BInv == Shapes /\ Numbered /\ NobodyWaits /\ LinesAreNew /\ WorkEndsOnce /\ AnswersArePerformed

-----------------------------------------------------------------------------
LEMMA BridgeInitially == Init => BInv /\ C!Init
<1>1. SUFFICES ASSUME Init PROVE BInv /\ C!Init
  OBVIOUS
<1>2. Shapes
  <2>1. 1 \in 1..(MaxId + 1) /\ <<>> \in Seq(Ids)
    BY BridgeAssumption
  <2>2. /\ promise \in [Ids -> {"none", "pending", "resolved", "rejected", "lost", "refused"}]
        /\ outcome \in [Ids -> {"none", "ok", "error"}]
        /\ work \in [Ids -> Work]
    BY <1>1 DEF Init, Work
  <2>3. inbox = <<>> /\ outbox = <<>> /\ nextId = 1 /\ closed \in BOOLEAN
    BY <1>1 DEF Init
  <2>4. QED
    BY <2>1, <2>2, <2>3 DEF Shapes
<1>3. Numbered /\ NobodyWaits /\ LinesAreNew /\ WorkEndsOnce /\ AnswersArePerformed
  BY <1>1 DEF Init, Numbered, NobodyWaits, LinesAreNew, WorkEndsOnce, AnswersArePerformed, Ids
<1>4. C!Init
  BY <1>1 DEF Init, C!Init
<1>5. QED
  BY <1>2, <1>3, <1>4 DEF BInv

\* A call is issued under the next id.
LEMMA RequestIssues ==
    ASSUME BInv, NEW c, Request(c), UNCHANGED <<closed, outbox, work, outcome>>
    PROVE  BInv' /\ C!Issue(nextId)
<1>1. nextId \in Ids /\ nextId' = nextId + 1 /\ promise[nextId] = "none"
  BY DEF Request, BInv, Shapes, Numbered, Ids
<1>2. promise' = [promise EXCEPT ![nextId] = IF closed THEN "refused" ELSE "pending"]
  BY DEF Request
<1>3. /\ promise'[nextId] = IF closed THEN "refused" ELSE "pending"
      /\ \A id \in Ids \ {nextId} : promise'[id] = promise[id]
      /\ promise' \in [Ids -> {"none", "pending", "resolved", "rejected", "lost", "refused"}]
  BY <1>1, <1>2 DEF BInv, Shapes
<1>4. inbox' = inbox \/ (~closed /\ inbox' = Append(inbox, nextId))
  BY DEF Request, Send
<1>5. Shapes'
  <2>1. inbox' \in Seq(Ids)
    BY <1>1, <1>4 DEF BInv, Shapes
  <2>2. nextId' \in 1..(MaxId + 1)
    BY <1>1, BridgeAssumption DEF Ids
  <2>3. QED
    BY <1>3, <2>1, <2>2 DEF BInv, Shapes
<1>6. Numbered'
  BY <1>1, <1>3 DEF BInv, Numbered, Shapes, Ids
<1>7. NobodyWaits'
  BY <1>3 DEF BInv, NobodyWaits
<1>8. outcome[nextId] = "none" /\ work[nextId] = "none"
  BY <1>1 DEF BInv, WorkEndsOnce, Sent, Shapes, Work
<1>9. LinesAreNew'
  <2>1. \A i \in 1..Len(inbox) :
          /\ inbox[i] \in Ids /\ inbox[i] # nextId
          /\ promise'[inbox[i]] \notin {"none", "refused"}
          /\ outcome[inbox[i]] = "none" /\ work[inbox[i]] = "none"
    <3>1. SUFFICES ASSUME NEW i \in 1..Len(inbox)
                   PROVE  /\ inbox[i] \in Ids /\ inbox[i] # nextId
                          /\ promise'[inbox[i]] \notin {"none", "refused"}
                          /\ outcome[inbox[i]] = "none" /\ work[inbox[i]] = "none"
      OBVIOUS
    <3>2. inbox[i] \in Ids
      BY DEF BInv, Shapes
    <3>3. /\ promise[inbox[i]] \notin {"none", "refused"}
          /\ outcome[inbox[i]] = "none" /\ work[inbox[i]] = "none"
      BY DEF BInv, LinesAreNew, Sent
    <3>4. QED
      BY <1>1, <1>3, <3>2, <3>3
  <2>2. \A i, j \in 1..Len(inbox) : inbox[i] = inbox[j] => i = j
    BY DEF BInv, LinesAreNew
  <2>3. CASE inbox' = inbox
    BY <2>1, <2>2, <2>3 DEF LinesAreNew, Sent
  <2>4. CASE ~closed /\ inbox' = Append(inbox, nextId)
    <3>1. /\ Len(inbox') = Len(inbox) + 1 /\ inbox'[Len(inbox) + 1] = nextId
          /\ \A i \in 1..Len(inbox) : inbox'[i] = inbox[i]
          /\ Len(inbox) \in Nat
      BY <1>1, <2>4 DEF BInv, Shapes
    <3>2. promise'[nextId] = "pending"
      BY <1>3, <2>4
    <3>3. \A i \in 1..Len(inbox') : i = Len(inbox) + 1 \/ i \in 1..Len(inbox)
      BY <3>1
    <3>4. ASSUME NEW i \in 1..Len(inbox')
          PROVE  promise'[inbox'[i]] \notin {"none", "refused"} /\ outcome[inbox'[i]] = "none" /\ work[inbox'[i]] = "none"
      <4>1. CASE i = Len(inbox) + 1
        BY <1>8, <3>1, <3>2, <4>1
      <4>2. CASE i \in 1..Len(inbox)
        BY <2>1, <3>1, <4>2
      <4>3. QED
        BY <3>3, <4>1, <4>2
    <3>5. ASSUME NEW i \in 1..Len(inbox'), NEW j \in 1..Len(inbox'), inbox'[i] = inbox'[j]
          PROVE  i = j
      BY <2>1, <2>2, <3>1, <3>3, <3>5
    <3>6. QED
      BY <3>4, <3>5 DEF LinesAreNew, Sent
  <2>5. QED
    BY <1>4, <2>3, <2>4
<1>10. WorkEndsOnce' /\ AnswersArePerformed'
  BY <1>1, <1>3 DEF BInv, WorkEndsOnce, AnswersArePerformed, Sent
<1>11. C!Issue(nextId)
  BY <1>1, <1>2 DEF C!Issue
<1>12. QED
  BY <1>5, <1>6, <1>7, <1>9, <1>10, <1>11 DEF BInv

-----------------------------------------------------------------------------
\* The engine takes k lines from the pipe.
Drops(k) ==
    /\ inbox' \in Seq(Ids) /\ k \in {0, 1} /\ k <= Len(inbox)
    /\ Len(inbox') = Len(inbox) - k
    /\ \A i \in 1..Len(inbox') : inbox'[i] = inbox[i + k]

\* Work on id may end, or go on to its next phase.
Ready(id, k) ==
    /\ Drops(k)
    /\ Sent(id) /\ outcome[id] = "none"
    /\ \A i \in 1..Len(inbox') : inbox'[i] # id

LEMMA TailDrops ==
    ASSUME BInv, inbox # <<>>, inbox' = Tail(inbox)
    PROVE  Head(inbox) \in Ids /\ Ready(Head(inbox), 1)
<1>1. inbox \in Seq(Ids) /\ Len(inbox) \in Nat /\ Len(inbox) # 0 /\ Head(inbox) = inbox[1]
  BY DEF BInv, Shapes
<1>2. inbox' \in Seq(Ids) /\ Len(inbox') = Len(inbox) - 1
  BY <1>1
<1>3. \A i \in 1..Len(inbox') : inbox'[i] = inbox[i + 1] /\ i + 1 \in 1..Len(inbox) /\ i + 1 # 1
  BY <1>1, <1>2
<1>4. Drops(1)
  BY <1>1, <1>2, <1>3 DEF Drops
<1>5. 1 \in 1..Len(inbox) /\ inbox[1] \in Ids
  BY <1>1
<1>6. Sent(inbox[1]) /\ outcome[inbox[1]] = "none"
  BY <1>5 DEF BInv, LinesAreNew
<1>7. \A i \in 1..Len(inbox') : inbox'[i] # inbox[1]
  BY <1>3, <1>5 DEF BInv, LinesAreNew
<1>8. QED
  BY <1>1, <1>4, <1>5, <1>6, <1>7 DEF Ready

LEMMA WorkingIsReady ==
    ASSUME BInv, NEW id \in Ids, work[id] \in {"launch", "enter", "step", "teardown"}, inbox' = inbox
    PROVE  Ready(id, 0)
<1>1. Drops(0)
  BY DEF Drops, BInv, Shapes
<1>2. Sent(id) /\ outcome[id] = "none"
  BY DEF BInv, WorkEndsOnce
<1>3. \A i \in 1..Len(inbox') : inbox'[i] # id
  BY DEF BInv, LinesAreNew
<1>4. QED
  BY <1>1, <1>2, <1>3 DEF Ready

\* What is left in the pipe was there, of calls whose work is as it was.
LEMMA LinesStayNew ==
    ASSUME BInv, NEW id \in Ids, NEW k \in {0, 1}, Ready(id, k), promise' = promise,
           \A x \in Ids \ {id} : work'[x] = work[x] /\ outcome'[x] = outcome[x]
    PROVE  LinesAreNew'
<1>1. \A i \in 1..Len(inbox') : inbox'[i] = inbox[i + k] /\ i + k \in 1..Len(inbox)
  BY DEF Ready, Drops, BInv, Shapes
<1>2. ASSUME NEW i \in 1..Len(inbox')
      PROVE  promise[inbox'[i]] \notin {"none", "refused"} /\ outcome'[inbox'[i]] = "none" /\ work'[inbox'[i]] = "none"
  <2>1. inbox'[i] \in Ids \ {id}
    BY DEF Ready, Drops
  <2>2. promise[inbox[i + k]] \notin {"none", "refused"} /\ outcome[inbox[i + k]] = "none" /\ work[inbox[i + k]] = "none"
    BY <1>1 DEF BInv, LinesAreNew, Sent
  <2>3. QED
    BY <1>1, <2>1, <2>2
<1>3. ASSUME NEW i \in 1..Len(inbox'), NEW j \in 1..Len(inbox'), inbox'[i] = inbox'[j]
      PROVE  i = j
  <2>1. i + k = j + k
    BY <1>1, <1>3 DEF BInv, LinesAreNew
  <2>2. QED
    BY <2>1
<1>4. QED
  BY <1>2, <1>3 DEF LinesAreNew, Sent

\* Work that ends performs its call.
LEMMA FinishPerforms ==
    ASSUME BInv, NEW id \in Ids, NEW k \in {0, 1}, NEW o \in {"ok", "error"}, Ready(id, k), Finish(id, o),
           UNCHANGED <<promise, closed, nextId, outbox>>
    PROVE  BInv' /\ C!Perform(id)
<1>1. /\ work'[id] = o /\ outcome'[id] = o
      /\ \A x \in Ids \ {id} : work'[x] = work[x] /\ outcome'[x] = outcome[x]
      /\ work' \in [Ids -> Work] /\ outcome' \in [Ids -> {"none", "ok", "error"}]
  BY DEF Finish, BInv, Shapes, Work
<1>2. Shapes'
  <2>1. inbox' \in Seq(Ids)
    BY DEF Ready, Drops
  <2>2. QED
    BY <1>1, <2>1 DEF BInv, Shapes
<1>3. Numbered' /\ NobodyWaits'
  BY DEF BInv, Numbered, NobodyWaits
<1>4. LinesAreNew'
  BY <1>1, LinesStayNew
<1>5. WorkEndsOnce'
  BY <1>1 DEF BInv, WorkEndsOnce, Ready, Sent
<1>6. AnswersArePerformed'
  <2>1. \A i \in 1..Len(outbox) : outbox[i] \in Ids
    BY DEF BInv, Shapes
  <2>2. QED
    BY <1>1, <2>1 DEF BInv, AnswersArePerformed
<1>7. C!Perform(id)
  BY DEF C!Perform, Finish, Ready, Sent
<1>8. QED
  BY <1>2, <1>3, <1>4, <1>5, <1>6, <1>7 DEF BInv

\* Work that goes on is not seen from outside.
LEMMA GoesIsQuiet ==
    ASSUME BInv, NEW id \in Ids, NEW k \in {0, 1}, NEW w \in {"launch", "enter", "step", "teardown"},
           Ready(id, k), Goes(id, w), UNCHANGED <<promise, closed, nextId, outbox>>
    PROVE  BInv' /\ UNCHANGED C!vars
<1>1. /\ work'[id] = w /\ outcome' = outcome
      /\ \A x \in Ids \ {id} : work'[x] = work[x]
      /\ work' \in [Ids -> Work]
  BY DEF Goes, BInv, Shapes, Work
<1>2. Shapes'
  <2>1. inbox' \in Seq(Ids)
    BY DEF Ready, Drops
  <2>2. QED
    BY <1>1, <2>1 DEF BInv, Shapes
<1>3. Numbered' /\ NobodyWaits' /\ AnswersArePerformed'
  BY <1>1 DEF BInv, Numbered, NobodyWaits, AnswersArePerformed
<1>4. LinesAreNew'
  BY <1>1, LinesStayNew
<1>5. WorkEndsOnce'
  BY <1>1 DEF BInv, WorkEndsOnce, Ready, Sent
<1>6. UNCHANGED C!vars
  BY <1>1 DEF C!vars
<1>7. QED
  BY <1>2, <1>3, <1>4, <1>5, <1>6 DEF BInv

\* What the rest of a line's beginning, or of a phase, does to a call.
LEMMA BeginImplements ==
    ASSUME BInv, Begin
    PROVE  BInv' /\ (UNCHANGED C!vars \/ \E id \in Ids : C!Perform(id))
<1> DEFINE id == Head(inbox)
<1>1. id \in Ids /\ Ready(id, 1)
  BY TailDrops DEF Begin
<1>2. UNCHANGED <<promise, closed, nextId, outbox>>
  BY DEF Begin, client
<1>3. \/ \E o \in {"ok", "error"} : Finish(id, o)
      \/ \E w \in {"launch", "enter", "step", "teardown"} : Goes(id, w)
  BY DEF Begin, Handshake, SessionOpen, NotOpen, Perform, ReportWrite, SessionClose
<1>4. CASE \E o \in {"ok", "error"} : Finish(id, o)
  <2>1. PICK o \in {"ok", "error"} : Finish(id, o)
    BY <1>4
  <2>2. BInv' /\ C!Perform(id)
    BY <1>1, <1>2, <2>1, FinishPerforms
  <2>3. QED
    BY <1>1, <2>2
<1>5. CASE \E w \in {"launch", "enter", "step", "teardown"} : Goes(id, w)
  <2>1. PICK w \in {"launch", "enter", "step", "teardown"} : Goes(id, w)
    BY <1>5
  <2>2. QED
    BY <1>1, <1>2, <2>1, GoesIsQuiet
<1>6. QED
  BY <1>3, <1>4, <1>5

LEMMA PhaseImplements ==
    ASSUME BInv, NEW id \in Ids, LaunchHandle(id) \/ Enter(id) \/ Step(id) \/ Teardown(id)
    PROVE  BInv' /\ (UNCHANGED C!vars \/ C!Perform(id))
<1>1. UNCHANGED <<promise, closed, nextId, outbox, inbox>>
  BY DEF LaunchHandle, Enter, Step, Teardown, client, pipe
<1>2. work[id] \in {"launch", "enter", "step", "teardown"}
  BY DEF LaunchHandle, Enter, Step, Teardown
<1>3. Ready(id, 0)
  BY <1>1, <1>2, WorkingIsReady
<1>4. (\E o \in {"ok", "error"} : Finish(id, o)) \/ Goes(id, "enter")
  BY DEF LaunchHandle, Enter, Step, Teardown
<1>5. CASE \E o \in {"ok", "error"} : Finish(id, o)
  <2>1. PICK o \in {"ok", "error"} : Finish(id, o)
    BY <1>5
  <2>2. QED
    BY <1>1, <1>3, <2>1, FinishPerforms
<1>6. CASE Goes(id, "enter")
  BY <1>1, <1>3, <1>6, GoesIsQuiet
<1>7. QED
  BY <1>4, <1>5, <1>6

\* The answer leaves for the pipe.
LEMMA WriteIsQuiet ==
    ASSUME BInv, NEW id \in Ids, Write(id)
    PROVE  BInv' /\ UNCHANGED C!vars
<1>1. /\ UNCHANGED <<promise, closed, nextId, inbox, outcome>>
      /\ outbox' = Append(outbox, id) /\ outcome[id] # "none"
  BY DEF Write, client, BInv, WorkEndsOnce
<1>2. /\ work'[id] = "none" /\ work' \in [Ids -> Work]
      /\ \A x \in Ids \ {id} : work'[x] = work[x]
  BY DEF Write, BInv, Shapes, Work
<1>3. outbox \in Seq(Ids) /\ outbox' \in Seq(Ids)
  BY <1>1 DEF BInv, Shapes
<1>4. Shapes'
  BY <1>1, <1>2, <1>3 DEF BInv, Shapes
<1>5. Numbered' /\ NobodyWaits'
  BY <1>1 DEF BInv, Numbered, NobodyWaits
<1>6. \A i \in 1..Len(inbox) : inbox[i] \in Ids
  BY DEF BInv, Shapes
<1>7. LinesAreNew'
  BY <1>1, <1>2, <1>6 DEF BInv, LinesAreNew, Sent
<1>8. WorkEndsOnce'
  BY <1>1, <1>2 DEF BInv, WorkEndsOnce, Sent
<1>9. AnswersArePerformed'
  <2>1. \A i \in 1..Len(outbox') : \/ i = Len(outbox) + 1 /\ outbox'[i] = id
                                   \/ i \in 1..Len(outbox) /\ outbox'[i] = outbox[i]
    <3>1. Len(outbox) \in Nat /\ Len(outbox') = Len(outbox) + 1
      BY <1>1, <1>3
    <3>2. outbox'[Len(outbox) + 1] = id /\ \A i \in 1..Len(outbox) : outbox'[i] = outbox[i]
      BY <1>1, <1>3
    <3>3. QED
      BY <3>1, <3>2
  <2>2. QED
    BY <1>1, <2>1 DEF BInv, AnswersArePerformed
<1>10. QED
  BY <1>1, <1>4, <1>5, <1>7, <1>8, <1>9 DEF BInv, C!vars

\* An answer settles its call if that still waits.
LEMMA DeliverAnswers ==
    ASSUME BInv, Deliver
    PROVE  BInv' /\ (UNCHANGED C!vars \/ \E id \in Ids : C!Answer(id))
<1> DEFINE id == Head(outbox)
<1>1. UNCHANGED <<closed, nextId, inbox, work, outcome>> /\ Settle(id) /\ outbox' = Tail(outbox) /\ outbox # <<>>
  BY DEF Deliver, engine
<1>2. outbox \in Seq(Ids) /\ outbox' \in Seq(Ids) /\ id \in Ids /\ id = outbox[1] /\ 1 \in 1..Len(outbox)
  BY <1>1 DEF BInv, Shapes
<1>3. outcome[id] # "none"
  <2>1. outcome[outbox[1]] # "none"
    BY <1>2 DEF BInv, AnswersArePerformed
  <2>2. QED
    BY <1>2, <2>1
<1>4. /\ promise' \in [Ids -> {"none", "pending", "resolved", "rejected", "lost", "refused"}]
      /\ \A x \in Ids : promise'[x] = promise[x] \/ (promise[x] = "pending" /\ promise'[x] \in {"resolved", "rejected"})
  <2>1. promise \in [Ids -> {"none", "pending", "resolved", "rejected", "lost", "refused"}]
    BY DEF BInv, Shapes
  <2>2. CASE promise[id] # "pending"
    <3>1. promise' = promise
      BY <1>1, <2>2 DEF Settle
    <3>2. QED
      BY <2>1, <3>1
  <2>3. CASE promise[id] = "pending"
    <3> DEFINE r == IF outcome[id] = "ok" THEN "resolved" ELSE "rejected"
    <3>1. promise' = [promise EXCEPT ![id] = r]
      BY <1>1, <2>3 DEF Settle
    <3>2. r \in {"resolved", "rejected"}
      OBVIOUS
    <3> HIDE DEF r
    <3>3. promise'[id] = r /\ \A x \in Ids \ {id} : promise'[x] = promise[x]
      BY <1>2, <2>1, <3>1
    <3>4. promise' \in [Ids -> {"none", "pending", "resolved", "rejected", "lost", "refused"}]
      BY <1>2, <2>1, <3>1, <3>2
    <3>5. QED
      BY <2>3, <3>2, <3>3, <3>4
  <2>4. QED
    BY <2>2, <2>3
<1>5. Shapes'
  BY <1>1, <1>2, <1>4 DEF BInv, Shapes
<1>6. \A x \in Ids : /\ promise'[x] = "none" <=> promise[x] = "none"
                     /\ promise'[x] \in {"none", "refused"} <=> promise[x] \in {"none", "refused"}
                     /\ promise'[x] = "pending" => promise[x] = "pending"
  BY <1>4
<1>7. Numbered'
  BY <1>1, <1>6 DEF BInv, Numbered
<1>8. NobodyWaits'
  BY <1>1, <1>6 DEF BInv, NobodyWaits
<1>9. \A i \in 1..Len(inbox) : inbox[i] \in Ids
  BY DEF BInv, Shapes
<1>10. LinesAreNew'
  BY <1>1, <1>6, <1>9 DEF BInv, LinesAreNew, Sent
<1>11. WorkEndsOnce'
  BY <1>1, <1>6 DEF BInv, WorkEndsOnce, Sent
<1>12. AnswersArePerformed'
  <2>1. \A i \in 1..Len(outbox') : outbox'[i] = outbox[i + 1] /\ i + 1 \in 1..Len(outbox)
    BY <1>1, <1>2
  <2>2. QED
    BY <1>1, <2>1 DEF BInv, AnswersArePerformed
<1>13. UNCHANGED C!vars \/ C!Answer(id)
  BY <1>1, <1>3 DEF Settle, C!vars, C!Answer
<1>14. QED
  BY <1>2, <1>5, <1>7, <1>8, <1>10, <1>11, <1>12, <1>13 DEF BInv

\* Closing the link settles every call that waits, once.
LEMMA HangCloses ==
    ASSUME BInv, Hang, UNCHANGED <<nextId, inbox, outbox, work, outcome>>
    PROVE  BInv' /\ (UNCHANGED C!vars \/ C!Close)
<1>1. /\ closed' = TRUE
      /\ promise' = [id \in Ids |-> IF promise[id] = "pending" THEN "lost" ELSE promise[id]]
  BY DEF Hang
<1>2. promise \in [Ids -> {"none", "pending", "resolved", "rejected", "lost", "refused"}]
  BY DEF BInv, Shapes
<1>3. /\ promise' \in [Ids -> {"none", "pending", "resolved", "rejected", "lost", "refused"}]
      /\ \A x \in Ids : promise'[x] = IF promise[x] = "pending" THEN "lost" ELSE promise[x]
  BY <1>1, <1>2
<1>4. Shapes'
  BY <1>1, <1>3 DEF BInv, Shapes
<1>5. Numbered' /\ NobodyWaits'
  BY <1>1, <1>3 DEF BInv, Numbered, NobodyWaits
<1>6. \A i \in 1..Len(inbox) : inbox[i] \in Ids
  BY DEF BInv, Shapes
<1>7. LinesAreNew'
  BY <1>3, <1>6 DEF BInv, LinesAreNew, Sent
<1>8. WorkEndsOnce' /\ AnswersArePerformed'
  BY <1>3 DEF BInv, WorkEndsOnce, AnswersArePerformed, Sent
<1>9. CASE closed
  <2>1. \A x \in Ids : promise[x] # "pending"
    BY <1>9 DEF BInv, NobodyWaits
  <2>2. promise' = promise
    BY <1>1, <1>2, <2>1
  <2>3. closed' = closed
    BY <1>1, <1>9 DEF BInv, Shapes
  <2>4. UNCHANGED C!vars
    BY <2>2, <2>3 DEF C!vars
  <2>5. QED
    BY <1>4, <1>5, <1>7, <1>8, <2>4 DEF BInv
<1>10. CASE ~closed
  <2>1. C!Close
    BY <1>1, <1>10 DEF C!Close
  <2>2. QED
    BY <1>4, <1>5, <1>7, <1>8, <2>1 DEF BInv
<1>11. QED
  BY <1>9, <1>10

\* A process that ends leaves no work and reads no line.
LEMMA DieIsQuiet ==
    ASSUME BInv, Die
    PROVE  BInv' /\ UNCHANGED C!vars
<1>1. /\ UNCHANGED <<promise, closed, nextId, outbox, outcome>>
      /\ inbox' = <<>> /\ work' = [id \in Ids |-> "none"]
  BY DEF Die, client
<1>2. Shapes'
  <2>1. <<>> \in Seq(Ids) /\ work' \in [Ids -> Work]
    BY <1>1 DEF Work
  <2>2. QED
    BY <1>1, <2>1 DEF BInv, Shapes
<1>3. Numbered' /\ NobodyWaits' /\ AnswersArePerformed'
  BY <1>1 DEF BInv, Numbered, NobodyWaits, AnswersArePerformed
<1>4. LinesAreNew'
  BY <1>1 DEF LinesAreNew
<1>5. WorkEndsOnce'
  BY <1>1 DEF BInv, WorkEndsOnce, Sent
<1>6. QED
  BY <1>1, <1>2, <1>3, <1>4, <1>5 DEF BInv, C!vars

\* What neither the calls nor the pipe notice.
LEMMA RestIsQuiet ==
    ASSUME BInv, UNCHANGED <<promise, outcome, work, inbox, outbox, nextId, closed>>
    PROVE  BInv' /\ UNCHANGED C!vars
  BY DEF BInv, Shapes, Numbered, NobodyWaits, LinesAreNew, WorkEndsOnce, AnswersArePerformed, Sent, C!vars

-----------------------------------------------------------------------------
LEMMA BridgeSteps ==
    ASSUME BInv, [Next]_vars
    PROVE  BInv' /\ [C!Next]_(C!vars)
<1>1. CASE Launch \/ OpenMine \/ Task \/ CloseMine
  <2>1. (\E c : Request(c)) /\ UNCHANGED <<closed, outbox, work, outcome>>
    BY <1>1 DEF Launch, OpenMine, Task, CloseMine, engine
  <2>2. PICK c : Request(c)
    BY <2>1
  <2>3. BInv' /\ C!Issue(nextId)
    BY <2>1, <2>2, RequestIssues
  <2>4. nextId \in Ids
    BY <2>2 DEF Request
  <2>5. QED
    BY <2>3, <2>4 DEF C!Next
<1>2. CASE Opened \/ GiveUp \/ ClosedMine \/ Uncaught \/ Eof \/ CloseAll \/ UNCHANGED vars
  <2>1. UNCHANGED <<promise, outcome, work, inbox, outbox, nextId, closed>>
    BY <1>2 DEF Opened, GiveUp, ClosedMine, Uncaught, Eof, CloseAll, vars, client, pipe, engine
  <2>2. QED
    BY <2>1, RestIsQuiet
<1>3. CASE Stop \/ HearExit
  <2>1. Hang /\ UNCHANGED <<nextId, inbox, outbox, work, outcome>>
    BY <1>3 DEF Stop, HearExit, engine
  <2>2. QED
    BY <2>1, HangCloses DEF C!Next
<1>4. CASE Deliver
  BY <1>4, DeliverAnswers DEF C!Next
<1>5. CASE Begin
  BY <1>5, BeginImplements DEF C!Next
<1>6. ASSUME NEW id \in Ids, LaunchHandle(id) \/ Enter(id) \/ Step(id) \/ Teardown(id)
      PROVE  BInv' /\ [C!Next]_(C!vars)
  BY <1>6, PhaseImplements DEF C!Next
<1>7. ASSUME NEW id \in Ids, Write(id)
      PROVE  BInv' /\ [C!Next]_(C!vars)
  BY <1>7, WriteIsQuiet
<1>8. CASE Exit \/ Terminate \/ Crash
  <2>1. Die
    BY <1>8 DEF Exit, Terminate, Crash
  <2>2. QED
    BY <2>1, DieIsQuiet
<1>9. QED
  BY <1>1, <1>2, <1>3, <1>4, <1>5, <1>6, <1>7, <1>8 DEF Next, App, Serve

\* However many calls, sessions and channels there are, whatever dies when, and
\* whatever the order of answers, exit and close, a call over the bridge is
\* performed at most once, settles exactly once, and with what was done.
THEOREM BridgeImplementsCalls == Spec => ImplementsCalls
<1>1. Init => BInv /\ C!Init
  BY BridgeInitially
<1>2. BInv /\ [Next]_vars => BInv' /\ [C!Next]_(C!vars)
  BY BridgeSteps
<1>3. QED
  BY <1>1, <1>2, PTL DEF Spec, ImplementsCalls, C!Spec

-----------------------------------------------------------------------------
\* The engine's side: what it does at any time, and for which session.
Tables ==
    /\ table \subseteq Ids /\ proc \in {"running", "draining", "gone"}
    /\ handle \in [Ids -> {"none", "live", "closed"}]
    /\ ran \in [Ids -> Nat] /\ cursor \in [Ids -> Nat]
    /\ told \in [Ids -> [1..MaxSteps -> Nat]]

\* serve() does one thing at a time, and nothing once its input has ended.
OneAtATime ==
    /\ \A x, y \in Ids : work[x] # "none" /\ work[y] # "none" => x = y
    /\ proc # "running" => \A x \in Ids : work[x] = "none"

OpenIsLive == proc # "gone" => \A s \in table : handle[s] = "live"

PhasesFit ==
    \A id \in Ids :
        /\ work[id] = "enter" => handle[id] = "live"
        /\ work[id] = "step" => call[id].of \in table
        /\ work[id] = "teardown" => call[id].of \in Ids /\ call[id].of \notin table

HInv == Tables /\ OneAtATime /\ OpenIsLive /\ PhasesFit /\ EachStepReportedOnce

\* The client's moves leave the engine, and the calls it works on, alone.
LEMMA ClientLeavesTheEngine ==
    ASSUME BInv, HInv, UNCHANGED engine, UNCHANGED call \/ \E c : Request(c)
    PROVE  HInv'
<1>1. \A id \in Ids : work[id] # "none" => call'[id] = call[id]
  <2>1. CASE UNCHANGED call
    BY <2>1
  <2>2. CASE \E c : Request(c)
    <3>1. PICK c : Request(c)
      BY <2>2
    <3>2. nextId \in Ids /\ call' = [call EXCEPT ![nextId] = c] /\ promise[nextId] = "none"
      BY <3>1 DEF Request, BInv, Numbered, Shapes, Ids
    <3>3. work[nextId] = "none"
      BY <3>2 DEF BInv, WorkEndsOnce, Sent, Shapes, Work
    <3>4. \A id \in Ids : id # nextId => call'[id] = call[id]
      BY <3>2
    <3>5. QED
      BY <3>3, <3>4
  <2>3. QED
    BY <2>1, <2>2
<1>2. Tables' /\ OneAtATime' /\ OpenIsLive' /\ EachStepReportedOnce'
  BY DEF engine, HInv, Tables, OneAtATime, OpenIsLive, EachStepReportedOnce
<1>3. PhasesFit'
  BY <1>1 DEF engine, HInv, PhasesFit
<1>4. QED
  BY <1>2, <1>3 DEF HInv

LEMMA BeginKeepsHandles ==
    ASSUME BInv, HInv, Begin
    PROVE  HInv'
<1> DEFINE id == Head(inbox)
<1>1. id \in Ids
  BY TailDrops DEF Begin
<1>2. /\ UNCHANGED <<call, proc, handle, ran>> /\ proc = "running"
      /\ \A x \in Ids : work[x] = "none"
  BY DEF Begin, client, Busy
<1>3. \A x \in Ids \ {id} : work'[x] = "none"
  BY <1>1, <1>2 DEF Begin, Handshake, SessionOpen, NotOpen, Perform, ReportWrite, SessionClose, Finish, Goes, BInv, Shapes
<1>4. OneAtATime'
  BY <1>2, <1>3 DEF OneAtATime
<1>5. CASE Handshake(id) \/ SessionOpen(id) \/ NotOpen(id) \/ Perform(id)
  <2>1. UNCHANGED <<table, cursor, told>>
    BY <1>5 DEF Handshake, SessionOpen, NotOpen, Perform
  <2>2. Tables' /\ OpenIsLive' /\ EachStepReportedOnce'
    BY <1>2, <2>1 DEF HInv, Tables, OpenIsLive, EachStepReportedOnce
  <2>3. work'[id] \in {"ok", "error", "launch"} \/ (work'[id] = "step" /\ call[id].of \in table)
    BY <1>1, <1>5 DEF Handshake, SessionOpen, NotOpen, Perform, Finish, Goes, BInv, Shapes
  <2>4. PhasesFit'
    BY <1>2, <1>3, <2>1, <2>3 DEF PhasesFit
  <2>5. QED
    BY <1>4, <2>2, <2>4 DEF HInv
<1>6. CASE ReportWrite(id)
  <2> DEFINE s == call[id].of
  <2>1. s \in Ids /\ table' = table /\ work'[id] \in {"ok", "error"}
    BY <1>1, <1>6 DEF ReportWrite, Finish, BInv, Shapes, HInv, Tables
  <2>2. PhasesFit' /\ OpenIsLive'
    BY <1>2, <1>3, <2>1 DEF PhasesFit, HInv, OpenIsLive
  <2>3. \/ UNCHANGED <<cursor, told>>
        \/ /\ cursor' = [cursor EXCEPT ![s] = ran[s]]
           /\ told' = [told EXCEPT ![s] = [n \in DOMAIN @ |-> @[n] + IF n \in (cursor[s] + 1)..ran[s] THEN 1 ELSE 0]]
    BY <1>6 DEF ReportWrite
  <2>4. CASE UNCHANGED <<cursor, told>>
    BY <1>2, <1>4, <2>1, <2>2, <2>4 DEF HInv, Tables, EachStepReportedOnce
  <2>5. CASE /\ cursor' = [cursor EXCEPT ![s] = ran[s]]
             /\ told' = [told EXCEPT ![s] = [n \in DOMAIN @ |-> @[n] + IF n \in (cursor[s] + 1)..ran[s] THEN 1 ELSE 0]]
    <3>1. /\ cursor \in [Ids -> Nat] /\ ran \in [Ids -> Nat]
          /\ told \in [Ids -> [1..MaxSteps -> Nat]]
      BY DEF HInv, Tables
    <3> HIDE DEF s
    <3>2. cursor' \in [Ids -> Nat] /\ cursor'[s] = ran[s] /\ \A x \in Ids \ {s} : cursor'[x] = cursor[x]
      BY <2>1, <2>5, <3>1
    <3> DEFINE T == [n \in 1..MaxSteps |-> told[s][n] + IF n \in (cursor[s] + 1)..ran[s] THEN 1 ELSE 0]
    <3>3. T \in [1..MaxSteps -> Nat] /\ \A n \in 1..MaxSteps : T[n] = told[s][n] + IF n \in (cursor[s] + 1)..ran[s] THEN 1 ELSE 0
      <4>1. \A n \in 1..MaxSteps : told[s][n] \in Nat
        BY <2>1, <3>1
      <4>2. \A n \in 1..MaxSteps : (told[s][n] + IF n \in (cursor[s] + 1)..ran[s] THEN 1 ELSE 0) \in Nat
        BY <4>1
      <4>3. QED
        BY <4>2
    <3>4. told' = [told EXCEPT ![s] = T]
      BY <2>1, <2>5, <3>1
    <3> HIDE DEF T
    <3>5. told' \in [Ids -> [1..MaxSteps -> Nat]] /\ told'[s] = T /\ \A x \in Ids \ {s} : told'[x] = told[x]
      BY <2>1, <3>1, <3>3, <3>4
    <3>6. ASSUME NEW n \in 1..MaxSteps
          PROVE  T[n] = IF n <= ran[s] THEN 1 ELSE 0
      <4>1. told[s][n] = (IF n <= cursor[s] THEN 1 ELSE 0) /\ cursor[s] <= ran[s]
        BY <2>1 DEF HInv, EachStepReportedOnce
      <4>2. n \in Nat /\ cursor[s] \in Nat /\ ran[s] \in Nat
        BY <2>1, <3>1, BridgeAssumption
      <4>3. QED
        BY <3>3, <4>1, <4>2
    <3>7. EachStepReportedOnce'
      <4>1. ASSUME NEW x \in Ids, NEW n \in 1..MaxSteps
            PROVE  told'[x][n] = (IF n <= cursor'[x] THEN 1 ELSE 0) /\ cursor'[x] <= ran[x]
        <5>1. CASE x = s
          BY <2>1, <3>1, <3>2, <3>5, <3>6, <5>1
        <5>2. CASE x # s
          BY <3>2, <3>5, <5>2 DEF HInv, EachStepReportedOnce
        <5>3. QED
          BY <5>1, <5>2
      <4>2. QED
        BY <1>2, <4>1 DEF EachStepReportedOnce
    <3>8. Tables'
      BY <1>2, <2>1, <3>2, <3>5 DEF HInv, Tables
    <3>9. QED
      BY <1>4, <2>2, <3>7, <3>8 DEF HInv
  <2>6. QED
    BY <2>3, <2>4, <2>5
<1>7. CASE SessionClose(id)
  <2>1. /\ call[id].of \in table /\ table' = table \ {call[id].of}
        /\ work'[id] = "teardown" /\ UNCHANGED <<cursor, told>>
    BY <1>1, <1>7 DEF SessionClose, Goes, BInv, Shapes
  <2>2. Tables' /\ OpenIsLive' /\ EachStepReportedOnce'
    BY <1>2, <2>1 DEF HInv, Tables, OpenIsLive, EachStepReportedOnce
  <2>3. PhasesFit'
    BY <1>2, <1>3, <2>1 DEF PhasesFit, HInv, Tables
  <2>4. QED
    BY <1>4, <2>2, <2>3 DEF HInv
<1>8. QED
  BY <1>5, <1>6, <1>7 DEF Begin

LEMMA PhaseKeepsHandles ==
    ASSUME BInv, HInv, NEW id \in Ids, LaunchHandle(id) \/ Enter(id) \/ Step(id) \/ Teardown(id) \/ Write(id)
    PROVE  HInv'
<1>1. UNCHANGED <<call, proc, cursor, told>> /\ work[id] # "none" /\ proc = "running"
  <2>1. UNCHANGED <<call, proc, cursor, told>> /\ work[id] # "none"
    BY DEF LaunchHandle, Enter, Step, Teardown, Write, client
  <2>2. QED
    BY <2>1 DEF HInv, OneAtATime
<1>2. \A x \in Ids \ {id} : work[x] = "none" /\ work'[x] = "none"
  BY <1>1 DEF LaunchHandle, Enter, Step, Teardown, Write, Finish, Goes, HInv, OneAtATime, BInv, Shapes
<1>3. OneAtATime'
  BY <1>1, <1>2 DEF OneAtATime
<1>4. CASE LaunchHandle(id)
  <2>1. UNCHANGED <<table, ran>>
    BY <1>4 DEF LaunchHandle
  <2>2. \/ handle' = handle /\ work'[id] = "error"
        \/ handle' = [handle EXCEPT ![id] = "live"] /\ work'[id] = "enter"
    BY <1>4 DEF LaunchHandle, Finish, Goes, BInv, Shapes
  <2>3. /\ handle' \in [Ids -> {"none", "live", "closed"}]
        /\ \A x \in Ids : handle[x] = "live" => handle'[x] = "live"
        /\ work'[id] = "enter" => handle'[id] = "live"
        /\ work'[id] \in {"error", "enter"}
    BY <2>2 DEF HInv, Tables
  <2>4. Tables' /\ EachStepReportedOnce'
    BY <1>1, <2>1, <2>3 DEF HInv, Tables, EachStepReportedOnce
  <2>5. OpenIsLive'
    BY <1>1, <2>1, <2>3 DEF HInv, Tables, OpenIsLive
  <2>6. PhasesFit'
    BY <1>2, <2>3 DEF PhasesFit
  <2>7. QED
    BY <1>3, <2>4, <2>5, <2>6 DEF HInv
<1>5. CASE Enter(id)
  <2>1. UNCHANGED <<handle, ran>> /\ work'[id] \in {"ok", "error"} /\ table' \in {table, table \union {id}} /\ handle[id] = "live"
    BY <1>5 DEF Enter, Finish, HInv, PhasesFit, BInv, Shapes
  <2>2. Tables' /\ OpenIsLive' /\ EachStepReportedOnce'
    BY <1>1, <2>1 DEF HInv, Tables, OpenIsLive, EachStepReportedOnce
  <2>3. PhasesFit'
    BY <1>2, <2>1 DEF PhasesFit
  <2>4. QED
    BY <1>3, <2>2, <2>3 DEF HInv
<1>6. CASE Step(id)
  <2> DEFINE s == call[id].of
  <2>1. s \in Ids /\ UNCHANGED <<handle, table>> /\ work'[id] \in {"ok", "error"}
    BY <1>6 DEF Step, Finish, HInv, Tables, PhasesFit, BInv, Shapes
  <2>2. ran' = ran \/ ran' = [ran EXCEPT ![s] = @ + 1]
    BY <1>6 DEF Step
  <2>3. ran \in [Ids -> Nat] /\ cursor \in [Ids -> Nat]
    BY DEF HInv, Tables
  <2> HIDE DEF s
  <2>4. ran' \in [Ids -> Nat] /\ \A x \in Ids : ran[x] <= ran'[x]
    BY <2>1, <2>2, <2>3
  <2>5. Tables' /\ OpenIsLive'
    BY <1>1, <2>1, <2>4 DEF HInv, Tables, OpenIsLive
  <2>6. EachStepReportedOnce'
    <3>1. ASSUME NEW x \in Ids, NEW n \in 1..MaxSteps
          PROVE  told[x][n] = (IF n <= cursor[x] THEN 1 ELSE 0) /\ cursor[x] <= ran'[x]
      <4>1. told[x][n] = (IF n <= cursor[x] THEN 1 ELSE 0) /\ cursor[x] <= ran[x]
        BY DEF HInv, EachStepReportedOnce
      <4>2. cursor[x] \in Nat /\ ran[x] \in Nat /\ ran'[x] \in Nat /\ ran[x] <= ran'[x]
        BY <2>3, <2>4
      <4>3. QED
        BY <4>1, <4>2
    <3>2. QED
      BY <1>1, <3>1 DEF EachStepReportedOnce
  <2>7. PhasesFit'
    BY <1>2, <2>1 DEF PhasesFit
  <2>8. QED
    BY <1>3, <2>5, <2>6, <2>7 DEF HInv
<1>7. CASE Teardown(id)
  <2> DEFINE s == call[id].of
  <2>1. s \in Ids /\ s \notin table /\ UNCHANGED <<ran, table>> /\ work'[id] \in {"ok", "error"}
    BY <1>7 DEF Teardown, Finish, HInv, PhasesFit, BInv, Shapes
  <2>2. handle' = handle \/ handle' = [handle EXCEPT ![s] = "closed"]
    BY <1>7 DEF Teardown
  <2>3. handle' \in [Ids -> {"none", "live", "closed"}] /\ \A x \in Ids \ {s} : handle'[x] = handle[x]
    BY <2>1, <2>2 DEF HInv, Tables
  <2>4. Tables' /\ OpenIsLive' /\ EachStepReportedOnce'
    BY <1>1, <2>1, <2>3 DEF HInv, Tables, OpenIsLive, EachStepReportedOnce
  <2>5. PhasesFit'
    BY <1>2, <2>1 DEF PhasesFit
  <2>6. QED
    BY <1>3, <2>4, <2>5 DEF HInv
<1>8. CASE Write(id)
  <2>1. UNCHANGED <<handle, ran, table>> /\ work'[id] = "none"
    BY <1>8 DEF Write, BInv, Shapes
  <2>2. Tables' /\ OpenIsLive' /\ EachStepReportedOnce'
    BY <1>1, <2>1 DEF HInv, Tables, OpenIsLive, EachStepReportedOnce
  <2>3. PhasesFit'
    BY <1>2, <2>1 DEF PhasesFit
  <2>4. QED
    BY <1>3, <2>2, <2>3 DEF HInv
<1>9. QED
  BY <1>4, <1>5, <1>6, <1>7, <1>8

\* The end of the input, and of the process, find no work under way or end it.
LEMMA EndingsKeepHandles ==
    ASSUME BInv, HInv, Eof \/ CloseAll \/ Exit \/ Terminate \/ Crash
    PROVE  HInv'
<1>1. CASE Eof
  <2>1. UNCHANGED <<call, work, table, handle, ran, cursor, told>> /\ proc = "running" /\ proc' = "draining" /\ \A x \in Ids : work[x] = "none"
    BY <1>1 DEF Eof, client, Busy
  <2>2. QED
    BY <2>1 DEF HInv, Tables, OneAtATime, OpenIsLive, PhasesFit, EachStepReportedOnce
<1>2. CASE CloseAll
  <2>1. UNCHANGED <<call, work, proc, ran, cursor, told>> /\ \A x \in Ids : work[x] = "none"
    BY <1>2 DEF CloseAll, client, HInv, OneAtATime
  <2>2. PICK s \in table : table' = table \ {s} /\ handle' \in {handle, [handle EXCEPT ![s] = "closed"]}
    BY <1>2 DEF CloseAll
  <2>3. handle' \in [Ids -> {"none", "live", "closed"}] /\ \A x \in Ids \ {s} : handle'[x] = handle[x]
    BY <2>2 DEF HInv, Tables
  <2>4. QED
    BY <2>1, <2>2, <2>3 DEF HInv, Tables, OneAtATime, OpenIsLive, PhasesFit, EachStepReportedOnce
<1>3. CASE Exit \/ Terminate \/ Crash
  <2>1. /\ UNCHANGED <<table, ran, cursor, told>> /\ proc' = "gone"
        /\ handle' = [id \in Ids |-> IF handle[id] = "live" /\ call[id].channel = "web" THEN "closed" ELSE handle[id]]
        /\ work' = [id \in Ids |-> "none"]
    BY <1>3 DEF Exit, Terminate, Crash, Die
  <2>2. handle' \in [Ids -> {"none", "live", "closed"}] /\ \A x \in Ids : work'[x] = "none"
    BY <2>1 DEF HInv, Tables
  <2>3. QED
    BY <2>1, <2>2 DEF HInv, Tables, OneAtATime, OpenIsLive, PhasesFit, EachStepReportedOnce
<1>4. QED
  BY <1>1, <1>2, <1>3

LEMMA HandlesInitially == Init => HInv
<1>1. SUFFICES ASSUME Init PROVE HInv
  OBVIOUS
<1>2. Tables
  BY <1>1 DEF Init, Tables
<1>3. OneAtATime /\ OpenIsLive /\ PhasesFit
  BY <1>1 DEF Init, OneAtATime, OpenIsLive, PhasesFit
<1>4. EachStepReportedOnce
  BY <1>1 DEF Init, EachStepReportedOnce
<1>5. QED
  BY <1>2, <1>3, <1>4 DEF HInv

LEMMA HandlesKept ==
    ASSUME BInv, HInv, [Next]_vars
    PROVE  HInv'
<1>1. CASE App \/ Task \/ Deliver \/ HearExit \/ Uncaught \/ UNCHANGED vars
  <2>1. UNCHANGED engine /\ (UNCHANGED call \/ \E c : Request(c))
    BY <1>1 DEF App, Launch, OpenMine, Opened, GiveUp, CloseMine, ClosedMine, Stop, Task, Deliver, HearExit, Uncaught,
                 vars, client
  <2>2. QED
    BY <2>1, ClientLeavesTheEngine
<1>2. CASE Begin
  BY <1>2, BeginKeepsHandles
<1>3. ASSUME NEW id \in Ids, LaunchHandle(id) \/ Enter(id) \/ Step(id) \/ Teardown(id) \/ Write(id)
      PROVE  HInv'
  BY <1>3, PhaseKeepsHandles
<1>4. CASE Eof \/ CloseAll \/ Exit \/ Terminate \/ Crash
  BY <1>4, EndingsKeepHandles
<1>5. QED
  BY <1>1, <1>2, <1>3, <1>4 DEF Next, Serve

LEMMA BridgeInvariant == Spec => [](BInv /\ HInv)
<1>1. Init => BInv /\ HInv
  BY BridgeInitially, HandlesInitially
<1>2. BInv /\ HInv /\ [Next]_vars => (BInv /\ HInv)'
  BY BridgeSteps, HandlesKept
<1>3. QED
  BY <1>1, <1>2, PTL DEF Spec

\* No step of the engine runs on a session that was closed, or whose browser
\* is gone, for any number of sessions and of calls in the pipe.
THEOREM StepsHaveTheirBrowser == Spec => []CallsUseLiveHandles
<1>1. BInv /\ HInv => CallsUseLiveHandles
  BY DEF HInv, CallsUseLiveHandles, PhasesFit, OneAtATime, OpenIsLive, Tables
<1>2. QED
  BY <1>1, BridgeInvariant, PTL

\* since_last reports of any number of steps and calls tell each step once.
THEOREM ReportsTellEachStepOnce == Spec => []EachStepReportedOnce
<1>1. BInv /\ HInv => EachStepReportedOnce
  BY DEF HInv
<1>2. QED
  BY <1>1, BridgeInvariant, PTL
-----------------------------------------------------------------------------
\* Orphans.  Work under way will tell what becomes of a session; a browser that
\* neither the table nor such work knows of has been told of already.
IsCall(c) == c = [op |-> c.op, of |-> c.of, channel |-> c.channel] /\ (c.op # "open" => c.channel = "none")

InHand(id, s) ==
    \/ work[id] \in {"launch", "enter"} /\ id = s
    \/ work[id] = "teardown" /\ call[id].of = s

Tells(id, s) ==
    outcome[id] = "error" /\ (id = s \/ call[id] = [op |-> "close", of |-> s, channel |-> "none"])

OrphanTold(s) ==
    handle[s] = "live" /\ call[s].channel = "web" /\ ~(\E id \in Ids : InHand(id, s))
        => \E id \in Ids : Tells(id, s)

\* Calls are well formed, browsers belong to calls, closings to close calls.
CallsFit ==
    /\ call = [id \in Ids |-> call[id]]
    /\ \A id \in Ids :
        /\ Sent(id) => IsCall(call[id])
        /\ handle[id] = "live" => Sent(id)
        /\ work[id] = "teardown" => call[id].op = "close"

OInv == CallsFit /\ (proc = "running" => \A s \in Ids \ table : OrphanTold(s))

LEMMA OrphansInitially == Init => OInv
  BY DEF Init, OInv, CallsFit, OrphanTold, Sent

LEMMA ClientLeavesOrphans ==
    ASSUME BInv, OInv, UNCHANGED engine,
           \/ UNCHANGED call /\ \A id \in Ids : Sent(id) <=> Sent(id)'
           \/ \E c : IsCall(c) /\ Request(c)
    PROVE  OInv'
<1>1. /\ \A id \in Ids : Sent(id) => Sent(id)' /\ call'[id] = call[id]
      /\ \A id \in Ids : Sent(id)' => IsCall(call'[id])
  <2>1. CASE UNCHANGED call /\ \A id \in Ids : Sent(id) <=> Sent(id)'
    BY <2>1 DEF OInv, CallsFit
  <2>2. CASE \E c : IsCall(c) /\ Request(c)
    <3>1. PICK c : IsCall(c) /\ Request(c)
      BY <2>2
    <3>2. /\ nextId \in Ids /\ promise[nextId] = "none"
          /\ call' = [call EXCEPT ![nextId] = c]
          /\ \E p : promise' = [promise EXCEPT ![nextId] = p]
      BY <3>1 DEF Request, BInv, Numbered, Shapes, Ids
    <3>3. \A id \in Ids \ {nextId} : call'[id] = call[id] /\ promise'[id] = promise[id]
      BY <3>2 DEF BInv, Shapes
    <3>4. call'[nextId] = c
      BY <3>2 DEF OInv, CallsFit
    <3>5. QED
      BY <3>1, <3>2, <3>3, <3>4 DEF OInv, CallsFit, Sent
  <2>3. QED
    BY <2>1, <2>2
<1>2. \A id \in Ids : work[id] # "none" \/ outcome[id] = "error" \/ handle[id] = "live" => Sent(id)
  BY DEF BInv, WorkEndsOnce, OInv, CallsFit, Shapes, Work
<1>3. UNCHANGED <<proc, work, outcome, table, handle>>
  BY DEF engine
<1>4. CallsFit'
  <2>1. call' = [id \in Ids |-> call'[id]]
    BY DEF OInv, CallsFit, Request
  <2>2. QED
    BY <1>1, <1>2, <1>3, <2>1 DEF OInv, CallsFit
<1>5. ASSUME NEW s \in Ids, OrphanTold(s)
      PROVE  OrphanTold(s)'
  <2>1. \A id \in Ids : InHand(id, s) => InHand(id, s)'
    BY <1>1, <1>2, <1>3 DEF InHand
  <2>2. \A id \in Ids : Tells(id, s) => Tells(id, s)'
    BY <1>1, <1>2, <1>3 DEF Tells
  <2>3. QED
    BY <1>1, <1>2, <1>3, <1>5, <2>1, <2>2 DEF OrphanTold
<1>6. QED
  BY <1>3, <1>4, <1>5 DEF OInv

\* An engine's step on the call id, which ends without having ended before.
LEMMA WorkKeepsOrphans ==
    ASSUME BInv, OInv, UNCHANGED <<call, promise>>, proc = "running", NEW id \in Ids,
           \A x \in Ids \ {id} : work'[x] = work[x] /\ outcome'[x] = outcome[x],
           outcome'[id] = "error" \/ outcome'[id] = outcome[id] \/ outcome[id] = "none",
           work'[id] = "teardown" => call[id].op = "close",
           \A x \in Ids : handle'[x] = "live" => handle[x] = "live" \/ (x = id /\ work[id] = "launch"),
           \A s \in Ids \ table' : handle'[s] = "live" =>
               \/ s \notin table /\ (InHand(id, s) => InHand(id, s)' \/ Tells(id, s)' \/ call[s].channel # "web")
                  /\ handle[s] = "live"
               \/ InHand(id, s)' \/ Tells(id, s)'
    PROVE  OInv'
<1>1. CallsFit'
  <2>1. \A x \in Ids : Sent(x)' <=> Sent(x)
    BY DEF Sent
  <2>2. work[id] = "launch" => Sent(id)
    BY DEF BInv, WorkEndsOnce
  <2>3. QED
    BY <2>1, <2>2 DEF OInv, CallsFit
<1>2. ASSUME NEW s \in Ids \ table'
      PROVE  OrphanTold(s)'
  <2>1. \A x \in Ids \ {id} : (InHand(x, s) <=> InHand(x, s)') /\ (Tells(x, s) <=> Tells(x, s)')
    BY DEF InHand, Tells
  <2>2. SUFFICES ASSUME handle'[s] = "live", call[s].channel = "web", ~(\E x \in Ids : InHand(x, s)')
                 PROVE  \E x \in Ids : Tells(x, s)'
    BY DEF OrphanTold
  <2>3. CASE Tells(id, s)'
    BY <2>3
  <2>4. CASE ~Tells(id, s)'
    <3>1. s \notin table /\ ~InHand(id, s) /\ handle[s] = "live"
      BY <1>2, <2>2, <2>4
    <3>2. PICK x \in Ids : Tells(x, s)
      BY <2>1, <2>2, <3>1 DEF OInv, OrphanTold
    <3>3. Tells(x, s) => x # id \/ Tells(id, s)'
      BY DEF Tells
    <3>4. QED
      BY <2>1, <3>2, <3>3
  <2>5. QED
    BY <2>3, <2>4
<1>3. QED
  BY <1>1, <1>2 DEF OInv

LEMMA BeginKeepsOrphans ==
    ASSUME BInv, HInv, OInv, Begin
    PROVE  OInv'
<1>0. PICK id \in Ids : id = Head(inbox)
  BY TailDrops DEF Begin
<1>1. outcome[id] = "none"
  BY <1>0, TailDrops DEF Begin, Ready
<1>2. /\ UNCHANGED <<call, promise, proc, handle>> /\ proc = "running"
      /\ \A x \in Ids : work[x] = "none"
  BY DEF Begin, client, Busy
<1>3. /\ \A x \in Ids \ {id} : work'[x] = work[x] /\ outcome'[x] = outcome[x]
      /\ work'[id] = "teardown" => call[id].op = "close"
  BY <1>0, <1>2 DEF Begin, Handshake, SessionOpen, NotOpen, Perform, ReportWrite, SessionClose, Finish, Goes, BInv, Shapes
<1>4. ASSUME NEW s \in Ids \ table', s \in table
      PROVE  InHand(id, s)'
  <2>1. SessionClose(id)
    BY <1>0, <1>4 DEF Begin, Handshake, SessionOpen, NotOpen, Perform, ReportWrite
  <2>2. work'[id] = "teardown" /\ s = call[id].of
    BY <1>4, <2>1 DEF SessionClose, Goes, BInv, Shapes
  <2>3. QED
    BY <1>2, <2>2 DEF InHand
<1>5. \A s \in Ids : ~InHand(id, s)
  BY <1>1, <1>2 DEF InHand
<1>6. QED
  BY <1>1, <1>2, <1>3, <1>4, <1>5, WorkKeepsOrphans

LEMMA PhaseKeepsOrphans ==
    ASSUME BInv, HInv, OInv, NEW id \in Ids, LaunchHandle(id) \/ Enter(id) \/ Step(id) \/ Teardown(id) \/ Write(id)
    PROVE  OInv'
<1>1. UNCHANGED <<call, promise, proc>> /\ work[id] # "none" /\ proc = "running"
  <2>1. UNCHANGED <<call, promise, proc>> /\ work[id] # "none"
    BY DEF LaunchHandle, Enter, Step, Teardown, Write, client
  <2>2. QED
    BY <2>1 DEF HInv, OneAtATime
<1>2. /\ \A x \in Ids \ {id} : work'[x] = work[x] /\ outcome'[x] = outcome[x]
      /\ work'[id] # "teardown"
  BY DEF LaunchHandle, Enter, Step, Teardown, Write, Finish, Goes, BInv, Shapes
<1>3. outcome[id] = "none" \/ Write(id)
  BY DEF LaunchHandle, Enter, Step, Teardown, BInv, WorkEndsOnce
<1>4. handle \in [Ids -> {"none", "live", "closed"}]
  BY DEF HInv, Tables
<1>5. CASE LaunchHandle(id)
  <2>1. UNCHANGED table /\ work[id] = "launch"
    BY <1>5 DEF LaunchHandle
  <2>2. \/ handle' = handle /\ outcome'[id] = "error"
        \/ handle' = [handle EXCEPT ![id] = "live"] /\ work'[id] = "enter"
    BY <1>5 DEF LaunchHandle, Finish, Goes, BInv, Shapes
  <2>3. \A x \in Ids \ {id} : handle'[x] = handle[x]
    BY <1>4, <2>2
  <2>4. InHand(id, id)' \/ Tells(id, id)'
    BY <2>2 DEF InHand, Tells
  <2>5. \A s \in Ids \ {id} : ~InHand(id, s)
    BY <2>1 DEF InHand
  <2>6. QED
    BY <1>1, <1>2, <1>3, <1>5, <2>1, <2>3, <2>4, <2>5, WorkKeepsOrphans DEF Write
<1>6. CASE Enter(id)
  <2>1. UNCHANGED handle /\ work[id] = "enter"
    BY <1>6 DEF Enter
  <2>2. \/ table' = table /\ outcome'[id] = "error"
        \/ table' = table \union {id}
    BY <1>6 DEF Enter, Finish, BInv, Shapes
  <2>3. \A s \in Ids : InHand(id, s) => s = id
    BY <2>1 DEF InHand
  <2>4. id \notin table' => Tells(id, id)'
    BY <2>2 DEF Tells
  <2>5. QED
    BY <1>1, <1>2, <1>3, <1>6, <2>1, <2>2, <2>3, <2>4, WorkKeepsOrphans DEF Write
<1>7. CASE Step(id)
  <2>1. UNCHANGED <<handle, table>> /\ work[id] = "step"
    BY <1>7 DEF Step
  <2>2. \A s \in Ids : ~InHand(id, s)
    BY <2>1 DEF InHand
  <2>3. QED
    BY <1>1, <1>2, <1>3, <1>7, <2>1, <2>2, WorkKeepsOrphans DEF Write
<1>8. CASE Teardown(id)
  <2>0. PICK t \in Ids : t = call[id].of
    BY <1>8 DEF Teardown, HInv, PhasesFit
  <2>1. UNCHANGED table /\ work[id] = "teardown"
    BY <1>8 DEF Teardown
  <2>2. \/ handle' = [handle EXCEPT ![t] = "closed"]
        \/ handle' = handle /\ (call[t].channel = "web" => outcome'[id] = "error")
    BY <1>8, <2>0 DEF Teardown, Finish, BInv, Shapes
  <2>3. call[id] = [op |-> "close", of |-> t, channel |-> "none"]
    BY <2>0, <2>1 DEF BInv, WorkEndsOnce, OInv, CallsFit, IsCall
  <2>4. \A s \in Ids : InHand(id, s) => s = t
    BY <2>0, <2>1 DEF InHand
  <2>5. \A x \in Ids : handle'[x] = "live" => handle[x] = "live"
    BY <1>4, <2>2
  <2>6. handle'[t] = "live" /\ call[t].channel = "web" => Tells(id, t)'
    BY <1>1, <1>4, <2>2, <2>3 DEF Tells
  <2>7. QED
    BY <1>1, <1>2, <1>3, <1>8, <2>1, <2>4, <2>5, <2>6, WorkKeepsOrphans DEF Write
<1>9. CASE Write(id)
  <2>1. UNCHANGED <<handle, table, outcome>> /\ work[id] \in {"ok", "error"}
    BY <1>9 DEF Write
  <2>2. \A s \in Ids : ~InHand(id, s)
    BY <2>1 DEF InHand
  <2>3. QED
    BY <1>1, <1>2, <2>1, <2>2, WorkKeepsOrphans
<1>10. QED
  BY <1>5, <1>6, <1>7, <1>8, <1>9

\* The end of the input, and of the process: nothing is promised any more.
LEMMA EndingsKeepOrphans ==
    ASSUME BInv, HInv, OInv, Eof \/ CloseAll \/ Exit \/ Terminate \/ Crash
    PROVE  OInv'
<1>1. UNCHANGED <<call, promise>> /\ proc' # "running"
  BY DEF Eof, CloseAll, Exit, Terminate, Crash, Die, client
<1>2. \A x \in Ids : work'[x] = "none" \/ work'[x] = work[x]
  BY DEF Eof, CloseAll, Exit, Terminate, Crash, Die
<1>3. \A x \in Ids : handle'[x] = "live" => handle[x] = "live"
  BY DEF Eof, CloseAll, Exit, Terminate, Crash, Die, HInv, Tables
<1>4. QED
  BY <1>1, <1>2, <1>3 DEF OInv, CallsFit, Sent

LEMMA OrphansKept ==
    ASSUME BInv, HInv, OInv, [Next]_vars
    PROVE  OInv'
<1>1. CASE Launch \/ OpenMine \/ CloseMine \/ Task
  <2>1. \A op \in Ops : \A of, channel :
            op = "open" \/ channel = "none" => IsCall([op |-> op, of |-> of, channel |-> channel])
    BY DEF IsCall
  <2>2. UNCHANGED engine /\ \E c : IsCall(c) /\ Request(c)
    BY <1>1, <2>1 DEF Launch, OpenMine, CloseMine, Task, Ops
  <2>3. QED
    BY <2>2, ClientLeavesOrphans
<1>2. CASE Opened \/ GiveUp \/ ClosedMine \/ Stop \/ Deliver \/ HearExit \/ Uncaught \/ UNCHANGED vars
  <2>1. UNCHANGED <<engine, call>>
    BY <1>2 DEF Opened, GiveUp, ClosedMine, Stop, Deliver, HearExit, Uncaught, vars, client
  <2>2. promise' = promise \/ Hang \/ Settle(Head(outbox))
    BY <1>2 DEF Opened, GiveUp, ClosedMine, Stop, Deliver, HearExit, Uncaught, vars, client
  <2>3. \A id \in Ids : Sent(id) <=> Sent(id)'
    BY <2>2 DEF Sent, Hang, Settle, BInv, Shapes
  <2>4. QED
    BY <2>1, <2>3, ClientLeavesOrphans
<1>3. CASE Begin
  BY <1>3, BeginKeepsOrphans
<1>4. ASSUME NEW id \in Ids, LaunchHandle(id) \/ Enter(id) \/ Step(id) \/ Teardown(id) \/ Write(id)
      PROVE  OInv'
  BY <1>4, PhaseKeepsOrphans
<1>5. CASE Eof \/ CloseAll \/ Exit \/ Terminate \/ Crash
  BY <1>5, EndingsKeepOrphans
<1>6. QED
  BY <1>1, <1>2, <1>3, <1>4, <1>5 DEF Next, App, Serve

\* OrphansAreReported of Bridge, for any number of calls and sessions: a browser
\* that a failed opening or closing left behind is never without an error to a
\* caller, the one that opened it or one that closed it (sessions.py: open, close).
THEOREM OrphansHaveBeenTold == Spec => []OrphansAreReported
<1>1. Init => BInv /\ HInv /\ OInv
  BY BridgeInitially, HandlesInitially, OrphansInitially
<1>2. BInv /\ HInv /\ OInv /\ [Next]_vars => (BInv /\ HInv /\ OInv)'
  BY BridgeSteps, HandlesKept, OrphansKept
<1>3. HInv /\ OInv => OrphansAreReported
  <2>1. SUFFICES ASSUME HInv, OInv, proc = "running", NEW s \in Ids \ table,
                        handle[s] = "live", call[s].channel = "web",
                        ~\E id \in Busy : id = s \/ call[id].of = s
                 PROVE  \E id \in Ids : Tells(id, s)
    BY DEF OrphansAreReported, Tells
  <2>2. ~\E id \in Ids : InHand(id, s)
    BY <2>1 DEF InHand, Busy
  <2>3. QED
    BY <2>1, <2>2 DEF OInv, OrphanTold
<1>4. QED
  BY <1>1, <1>2, <1>3, PTL DEF Spec
=============================================================================
