-------------------------------- MODULE Bridge -------------------------------
(***************************************************************************)
(* The JSON-RPC bridge: the Node client (clients/node/src/client.ts and     *)
(* session.ts), the pipe between the processes, and the Python engine's     *)
(* serve loop with its table of sessions (bubblegum/bridge, cli/bridge.py). *)
(* A call is known by its id; the session that call opens has the same id.  *)
(***************************************************************************)
EXTENDS Naturals, Sequences, SequencesExt, FiniteSets

CONSTANTS
    MaxId,     \* calls a client makes
    MaxSteps,  \* steps of a session
    Channels,  \* of "web" and "mobile"
    MayCrash   \* the engine's process may die of itself

ASSUME BridgeAssumption ==
    /\ MaxId \in Nat /\ MaxSteps \in Nat
    /\ Channels \subseteq {"web", "mobile"}
    /\ MayCrash \in BOOLEAN

Ids == 1..MaxId
NoId == 0

VARIABLES
    \* the Node client
    call,     \* what each id asks for
    promise,  \* what its caller sees
    nextId, closed,
    app,      \* where Bubblegum.launch() and close() are
    waits,    \* the id they await
    mine,     \* the session of launch()
    host,     \* its process: "up", "failed" (a write raised an error nobody listens for), "down"
    \* the pipe
    inbox, outbox,  \* lines to the engine, answers from it
    link,           \* "open", "shut" (transport closed: EOF and SIGTERM are under way)
    heardExit,      \* the child's exit event has been delivered
    \* the engine
    proc,     \* "running", "draining" (close_all), "gone"
    work,     \* what the engine is doing for each call
    outcome,  \* how it ended it
    table,    \* SessionManager's open sessions
    handle,   \* each session's browser or device session
    ran,      \* steps each session recorded
    cursor,   \* its report cursor
    told      \* how many finished since_last reports contain each step

client == <<call, promise, nextId, closed, app, waits, mine, host>>
pipe   == <<inbox, outbox, link, heardExit>>
engine == <<proc, work, outcome, table, handle, ran, cursor, told>>
vars   == <<client, pipe, engine>>

Ops   == {"handshake", "open", "call", "report", "close"}
Call  == [op : Ops, of : Ids \union {NoId}, channel : Channels \union {"none", "unknown"}]
NoCall == [op |-> "none", of |-> NoId, channel |-> "none"]
Work  == {"none", "launch", "enter", "step", "teardown", "ok", "error"}

TypeOK ==
    /\ call \in [Ids -> Call \union {NoCall}]
    /\ promise \in [Ids -> {"none", "pending", "resolved", "rejected", "lost", "refused"}]
    /\ nextId \in 1..(MaxId + 1) /\ closed \in BOOLEAN /\ heardExit \in BOOLEAN
    /\ app \in {"new", "handshake", "opening", "ready", "closing", "stop", "over"}
    /\ waits \in Ids \union {NoId} /\ mine \in Ids \union {NoId}
    /\ host \in {"up", "failed", "down"}
    /\ inbox \in Seq(Ids) /\ outbox \in Seq(Ids)
    /\ link \in {"open", "shut"}
    /\ proc \in {"running", "draining", "gone"}
    /\ work \in [Ids -> Work] /\ outcome \in [Ids -> {"none", "ok", "error"}]
    /\ table \subseteq Ids
    /\ handle \in [Ids -> {"none", "live", "closed"}]
    /\ ran \in [Ids -> 0..MaxSteps] /\ cursor \in [Ids -> 0..MaxSteps]
    /\ told \in [Ids -> [1..MaxSteps -> Nat]]

Init ==
    /\ call = [id \in Ids |-> NoCall] /\ promise = [id \in Ids |-> "none"]
    /\ nextId = 1 /\ closed = FALSE
    /\ app = "new" /\ waits = NoId /\ mine = NoId /\ host = "up"
    /\ inbox = <<>> /\ outbox = <<>> /\ link = "open" /\ heardExit = FALSE
    /\ proc = "running"
    /\ work = [id \in Ids |-> "none"] /\ outcome = [id \in Ids |-> "none"]
    /\ table = {} /\ handle = [id \in Ids |-> "none"]
    /\ ran = [id \in Ids |-> 0] /\ cursor = [id \in Ids |-> 0]
    /\ told = [id \in Ids |-> [n \in 1..MaxSteps |-> 0]]

-----------------------------------------------------------------------------
\* The client.

\* The transport's send(): a line written to a pipe nobody reads is lost, and
\* Node raises the failed write as an event of stdin, which has no listener.
Send(id) ==
    IF link = "open" /\ proc # "gone"
      THEN inbox' = Append(inbox, id) /\ host' = host
      ELSE inbox' = inbox /\ host' = "failed"

\* A mistake: a client that closed goes on sending.
RequestUnchecked(c) ==
    /\ host # "down" /\ nextId \in Ids
    /\ call' = [call EXCEPT ![nextId] = c]
    /\ promise' = [promise EXCEPT ![nextId] = "pending"]
    /\ Send(nextId)
    /\ nextId' = nextId + 1

\* BridgeClient.request().
Request(c) ==
    /\ host # "down" /\ nextId \in Ids
    /\ call' = [call EXCEPT ![nextId] = c]
    /\ IF closed
         THEN /\ promise' = [promise EXCEPT ![nextId] = "refused"]
              /\ inbox' = inbox /\ host' = host
         ELSE /\ promise' = [promise EXCEPT ![nextId] = "pending"]
              /\ Send(nextId)
    /\ nextId' = nextId + 1

Settled(id) == promise[id] \notin {"none", "pending"}

\* BridgeClient.onClose(): every pending call is rejected, now.
Hang ==
    /\ closed' = TRUE
    /\ promise' = [id \in Ids |-> IF promise[id] = "pending" THEN "lost" ELSE promise[id]]

\* launch() sends the handshake, then, to an engine it supports, session.open.
Launch ==
    /\ app = "new"
    /\ Request([op |-> "handshake", of |-> NoId, channel |-> "none"])
    /\ app' = "handshake" /\ waits' = nextId
    /\ UNCHANGED <<closed, mine, outbox, link, heardExit, engine>>

OpenMine ==
    /\ app = "handshake" /\ promise[waits] = "resolved"
    /\ \E ch \in Channels : Request([op |-> "open", of |-> NoId, channel |-> ch])
    /\ app' = "opening" /\ waits' = nextId
    /\ UNCHANGED <<closed, mine, outbox, link, heardExit, engine>>

Opened ==
    /\ host # "down" /\ app = "opening" /\ promise[waits] = "resolved"
    /\ app' = "ready" /\ mine' = waits
    /\ UNCHANGED <<call, promise, nextId, closed, waits, host, pipe, engine>>

\* An unsupported version, a missing capability or a rejection: launch() gives up.
GiveUp ==
    /\ host # "down"
    /\ \/ app = "handshake" /\ Settled(waits)
       \/ app = "opening" /\ Settled(waits) /\ promise[waits] # "resolved"
    /\ app' = "stop"
    /\ UNCHANGED <<call, promise, nextId, closed, waits, mine, host, pipe, engine>>

Known == {id \in Ids : call[id].op = "open" /\ promise[id] = "resolved"}
CallsOn(s) == {id \in Ids : call[id].op = "call" /\ call[id].of = s}

\* The test's tasks, concurrently: steps and since_last reports of any session
\* they know, sessions opened and closed through bg.bridge, one of a channel
\* the engine does not know.
Task ==
    /\ app \in {"ready", "closing", "over"} /\ mine # NoId
    /\ \/ \E s \in Known : Cardinality(CallsOn(s)) < MaxSteps /\ Request([op |-> "call", of |-> s, channel |-> "none"])
       \/ \E s \in Known, op \in {"report", "close"} : Request([op |-> op, of |-> s, channel |-> "none"])
       \/ \E ch \in Channels \union {"unknown"} : Request([op |-> "open", of |-> NoId, channel |-> ch])
    /\ UNCHANGED <<closed, app, waits, mine, outbox, link, heardExit, engine>>

\* Bubblegum.close(): session.close, and whatever becomes of it, client.close().
CloseMine ==
    /\ app = "ready"
    /\ Request([op |-> "close", of |-> mine, channel |-> "none"])
    /\ app' = "closing" /\ waits' = nextId
    /\ UNCHANGED <<closed, mine, outbox, link, heardExit, engine>>

ClosedMine ==
    /\ host # "down" /\ app = "closing" /\ Settled(waits)
    /\ app' = "stop"
    /\ UNCHANGED <<call, promise, nextId, closed, waits, mine, host, pipe, engine>>

\* BridgeClient.close(): no line is read any more, the engine gets EOF and a
\* SIGTERM, and the pending calls are rejected.
Stop ==
    /\ host # "down" /\ app = "stop"
    /\ Hang
    /\ link' = "shut" /\ app' = "over"
    /\ UNCHANGED <<call, nextId, waits, mine, host, inbox, outbox, heardExit, engine>>

\* BridgeClient.onLine(): the answer settles the call with its id, if it waits.
Settle(id) ==
    promise' = IF promise[id] = "pending"
                 THEN [promise EXCEPT ![id] = IF outcome[id] = "ok" THEN "resolved" ELSE "rejected"]
                 ELSE promise

Deliver ==
    /\ host # "down" /\ link = "open" /\ outbox # <<>>
    /\ Settle(Head(outbox))
    /\ outbox' = Tail(outbox)
    /\ UNCHANGED <<call, nextId, closed, app, waits, mine, host, inbox, link, heardExit, engine>>

\* A mistake: nobody listens for the child's exit.
HearExitUnnoticed ==
    /\ host # "down" /\ proc = "gone" /\ ~heardExit
    /\ heardExit' = TRUE
    /\ UNCHANGED <<client, inbox, outbox, link, engine>>

\* The child's exit event may come before the last lines it wrote.
HearExit ==
    /\ host # "down" /\ proc = "gone" /\ ~heardExit
    /\ heardExit' = TRUE
    /\ Hang
    /\ UNCHANGED <<call, nextId, app, waits, mine, host, inbox, outbox, link, engine>>

\* The failed write ends the client's process, unless something in it (a test
\* runner) handles uncaught errors. After the exit event stdin is destroyed
\* and raises nothing.
Uncaught ==
    /\ host = "failed" /\ ~heardExit
    /\ host' = "down"
    /\ UNCHANGED <<call, promise, nextId, closed, app, waits, mine, pipe, engine>>

-----------------------------------------------------------------------------
\* The engine: one request at a time, from its line to its answer.

Busy == {id \in Ids : work[id] # "none"}

Finish(id, o) ==
    /\ work' = [work EXCEPT ![id] = o]
    /\ outcome' = [outcome EXCEPT ![id] = o]

Goes(id, w) == work' = [work EXCEPT ![id] = w] /\ UNCHANGED outcome

Handshake(id) ==
    /\ call[id].op = "handshake"
    /\ Finish(id, "ok")
    /\ UNCHANGED <<table, cursor, told>>

\* OpenSpec.from_params() refuses a channel it does not know.
SessionOpen(id) ==
    /\ call[id].op = "open"
    /\ IF call[id].channel = "unknown" THEN Finish(id, "error") ELSE Goes(id, "launch")
    /\ UNCHANGED <<table, cursor, told>>

\* SessionManager.get() raises for a session that is not open.
NotOpen(id) ==
    /\ call[id].op \in {"call", "report", "close"} /\ call[id].of \notin table
    /\ Finish(id, "error")
    /\ UNCHANGED <<table, cursor, told>>

Perform(id) ==
    /\ call[id].op = "call" /\ call[id].of \in table
    /\ Goes(id, "step")
    /\ UNCHANGED <<table, cursor, told>>

\* A mistake: the cursor moves before the files are written.
ReportWriteAdvancesFirst(id) ==
    LET s == call[id].of IN
    /\ call[id].op = "report" /\ s \in table
    /\ cursor' = [cursor EXCEPT ![s] = ran[s]]
    /\ \/ /\ Finish(id, "error")
          /\ UNCHANGED told
       \/ /\ Finish(id, "ok")
          /\ told' = [told EXCEPT ![s] = [n \in DOMAIN @ |-> @[n] + IF n \in (cursor[s] + 1)..ran[s] THEN 1 ELSE 0]]
    /\ UNCHANGED table

\* report.write with scope since_last: the cursor moves when all is written.
ReportWrite(id) ==
    LET s == call[id].of IN
    /\ call[id].op = "report" /\ s \in table
    /\ \/ /\ Finish(id, "error")
          /\ UNCHANGED <<cursor, told>>
       \/ /\ Finish(id, "ok")
          /\ cursor' = [cursor EXCEPT ![s] = ran[s]]
          /\ told' = [told EXCEPT ![s] = [n \in DOMAIN @ |-> @[n] + IF n \in (cursor[s] + 1)..ran[s] THEN 1 ELSE 0]]
    /\ UNCHANGED table

\* SessionManager.close() forgets the session, then awaits its teardown.
SessionClose(id) ==
    /\ call[id].op = "close" /\ call[id].of \in table
    /\ table' = table \ {call[id].of}
    /\ Goes(id, "teardown")
    /\ UNCHANGED <<cursor, told>>

\* A mistake: each line is dispatched as a task of its own.
BeginAtOnce ==
    /\ proc = "running" /\ inbox # <<>>
    /\ LET id == Head(inbox) IN
         \/ Handshake(id) \/ SessionOpen(id) \/ NotOpen(id)
         \/ Perform(id) \/ ReportWrite(id) \/ SessionClose(id)
    /\ inbox' = Tail(inbox)
    /\ UNCHANGED <<client, outbox, link, heardExit, proc, handle, ran>>

\* serve(): the next line is read when the last answer has been written.
Begin ==
    /\ proc = "running" /\ Busy = {} /\ inbox # <<>>
    /\ LET id == Head(inbox) IN
         \/ Handshake(id) \/ SessionOpen(id) \/ NotOpen(id)
         \/ Perform(id) \/ ReportWrite(id) \/ SessionClose(id)
    /\ inbox' = Tail(inbox)
    /\ UNCHANGED <<client, outbox, link, heardExit, proc, handle, ran>>

\* default_session_factory(), its first half: the browser or device session.
LaunchHandle(id) ==
    /\ proc # "gone" /\ work[id] = "launch"
    /\ \/ Finish(id, "error") /\ UNCHANGED handle
       \/ Goes(id, "enter") /\ handle' = [handle EXCEPT ![id] = "live"]
    /\ UNCHANGED <<client, pipe, proc, table, ran, cursor, told>>

\* Its second half: on the web the first navigation may fail, and leaves the browser.
Enter(id) ==
    /\ proc # "gone" /\ work[id] = "enter"
    /\ \/ /\ call[id].channel = "web"
          /\ Finish(id, "error") /\ UNCHANGED table
       \/ Finish(id, "ok") /\ table' = table \union {id}
    /\ UNCHANGED <<client, pipe, proc, handle, ran, cursor, told>>


\* act(), verify() ...: a step that raises is not recorded.
Step(id) ==
    LET s == call[id].of IN
    /\ proc # "gone" /\ work[id] = "step"
    /\ \/ Finish(id, "ok") /\ ran' = [ran EXCEPT ![s] = @ + 1]
       \/ Finish(id, "error") /\ UNCHANGED ran
    /\ UNCHANGED <<client, pipe, proc, table, handle, cursor, told>>

\* A mistake: a browser that fails to close is not reported either.
TeardownQuiet(id) ==
    LET s == call[id].of IN
    /\ proc # "gone" /\ work[id] = "teardown"
    /\ \/ Finish(id, "ok") /\ handle' = [handle EXCEPT ![s] = "closed"]
       \/ Finish(id, "ok") /\ UNCHANGED handle
    /\ UNCHANGED <<client, pipe, proc, table, ran, cursor, told>>

\* aclose(): browser.close() may raise; a failing driver.quit() is swallowed.
Teardown(id) ==
    LET s == call[id].of IN
    /\ proc # "gone" /\ work[id] = "teardown"
    /\ \/ Finish(id, "ok") /\ handle' = [handle EXCEPT ![s] = "closed"]
       \/ Finish(id, IF call[s].channel = "web" THEN "error" ELSE "ok") /\ UNCHANGED handle
    /\ UNCHANGED <<client, pipe, proc, table, ran, cursor, told>>

\* write_line(): the answer goes into the pipe.
Write(id) ==
    /\ proc # "gone" /\ work[id] \in {"ok", "error"}
    /\ work' = [work EXCEPT ![id] = "none"]
    /\ outbox' = Append(outbox, id)
    /\ UNCHANGED <<client, inbox, link, heardExit, proc, outcome, table, handle, ran, cursor, told>>

\* readline() returns "": _serve() runs close_all().
Eof ==
    /\ proc = "running" /\ Busy = {} /\ inbox = <<>> /\ link = "shut"
    /\ proc' = "draining"
    /\ UNCHANGED <<client, pipe, work, outcome, table, handle, ran, cursor, told>>

\* close_all(): one session at a time, whatever becomes of its teardown.
CloseAll ==
    /\ proc = "draining"
    /\ \E s \in table :
         /\ table' = table \ {s}
         /\ handle' \in {handle, [handle EXCEPT ![s] = "closed"]}
    /\ UNCHANGED <<client, pipe, proc, work, outcome, ran, cursor, told>>

\* The process ends: its browsers with it, device sessions live on.
Die ==
    /\ proc' = "gone"
    /\ handle' = [id \in Ids |-> IF handle[id] = "live" /\ call[id].channel = "web" THEN "closed" ELSE handle[id]]
    /\ work' = [id \in Ids |-> "none"]
    /\ inbox' = <<>>
    /\ UNCHANGED <<client, outbox, link, heardExit, outcome, table, ran, cursor, told>>

Exit      == proc = "draining" /\ table = {} /\ Die
Terminate == proc # "gone" /\ link = "shut" /\ Die   \* SIGTERM, which Python does not catch
Crash     == proc # "gone" /\ MayCrash /\ Die

-----------------------------------------------------------------------------
Serve == Begin \/ Eof \/ CloseAll \/ Exit \/ \E id \in Ids :
             LaunchHandle(id) \/ Enter(id) \/ Step(id) \/ Teardown(id) \/ Write(id)

App == Launch \/ OpenMine \/ Opened \/ GiveUp \/ CloseMine \/ ClosedMine \/ Stop

Next == App \/ Task \/ Deliver \/ HearExit \/ Uncaught \/ Serve \/ Terminate \/ Crash

\* A step or a teardown ends, an answer in the pipe is read, an exit is heard.
Fairness == WF_vars(Serve) /\ WF_vars(Deliver) /\ WF_vars(HearExit)

Spec == Init /\ [][Next]_vars /\ Fairness

-----------------------------------------------------------------------------
\* A step runs on a session that is open and whose browser is there: no close
\* that came before it in the pipe, or after it, takes the page from under it
\* (serve() handles one line at a time).
CallsUseLiveHandles ==
    \A id \in Ids : work[id] = "step" => call[id].of \in table /\ handle[call[id].of] = "live"

\* A browser the engine no longer has a session for, because its opening or
\* its closing failed half-way, is never left without an error to the caller.
OrphansAreReported ==
    proc = "running" =>
      \A s \in Ids \ table :
        (handle[s] = "live" /\ call[s].channel = "web" /\ ~\E id \in Busy : id = s \/ call[id].of = s)
          => \E id \in Ids : outcome[id] = "error" /\ (id = s \/ call[id] = [op |-> "close", of |-> s, channel |-> "none"])

\* since_last reports tell each step once: a step up to the cursor is in
\* exactly one finished report, however many failed, a later one in none.
EachStepReportedOnce ==
    \A s \in Ids : \A n \in 1..MaxSteps :
      told[s][n] = (IF n <= cursor[s] THEN 1 ELSE 0) /\ cursor[s] <= ran[s]

\* Client, pipe and engine together keep the promise of a call (Calls).
C == INSTANCE Calls WITH open <- ~closed
ImplementsCalls == C!Spec

\* Every promise settles: by its answer, or by the end of the engine or of the
\* client, whatever the order of answers, exit and close; unless an unheard
\* write error takes the process of the promise with it.
EveryCallSettles ==
    \A id \in Ids : promise[id] = "pending" ~> promise[id] # "pending" \/ host = "down"
=============================================================================
