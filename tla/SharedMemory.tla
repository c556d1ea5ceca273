---------------------------- MODULE SharedMemory ----------------------------
(***************************************************************************)
(* Several processes (pytest-xdist workers) on one memory.db, each with    *)
(* its own sqlite3 connection (MemoryLayer._get_conn: WAL, busy timeout).  *)
(* Every write is execute() then commit(): Python's sqlite3 opens a        *)
(* transaction before the first INSERT or UPDATE, SQLite takes the one     *)
(* write lock when that statement runs, and the busy timeout bounds the    *)
(* wait.  A SELECT opens no transaction of its own.                        *)
(*                                                                         *)
(* The error of a failed call, a lock not granted in time or the disk, is  *)
(* swallowed by record_success and record_failure and raised by            *)
(* import_from; nothing rolls the open transaction back in either case.    *)
(*                                                                         *)
(* A run lasts less than a day, so the clock of MemoryLayer stands still;  *)
(* and a cache file is not exported while it is being imported.            *)
(***************************************************************************)
EXTENDS CacheRow, FiniteSets

CONSTANTS
    Worker,    \* the processes
    Key,
    NoWorker,  \* nobody holds the write lock
    NoJob,     \* the process is not inside a write
    NoFile,
    MaxWins,   \* bound: successes recorded for one key before new calls stop
    MaxFails,  \* bound: the same for failures in a row
    MaxBreaks  \* bound: statements and commits that fail other than for the lock

Table == [Key -> MaybeRow]
EmptyTable == [k \in Key |-> NoRow]
Today == 0

\* A call in progress and the statements it still has to execute, one per key.
Job ==
    [kind : {"success"}, payload : Payload, todo : SUBSET Key, key : Key]
      \union [kind : {"failure"}, todo : SUBSET Key, key : Key]
      \union [kind : {"import"}, todo : SUBSET Key]

ASSUME SharedMemoryAssumption ==
    /\ IsFiniteSet(Worker)
    /\ NoWorker \notin Worker
    /\ NoJob \notin Job
    /\ NoFile \notin Table
    /\ MaxWins \in Nat
    /\ MaxFails \in Nat
    /\ MaxBreaks \in Nat

VARIABLES
    db,        \* what is committed
    pending,   \* what the lock's holder has executed and not committed
    wrote,     \* whether that changed anything in the file
    holder,    \* who holds the write lock
    conn,      \* each connection's transaction
    snap,      \* what a connection with a read snapshot sees
    job,       \* each process's write in progress
    file,      \* the exported cache file
    gaveUp,    \* history: a write of this connection failed and no commit or
               \* close has ended its transaction since
    broke,     \* history: that transaction holds statements of a failed call
    breaks,
    observed,  \* history, as in MemoryLayer
    wins

vars == <<db, pending, wrote, holder, conn, snap, job, file, gaveUp, broke, breaks, observed, wins>>
transaction == <<pending, wrote, holder>>
failures == <<gaveUp, broke, breaks>>

\* "auto": no transaction.  "begun": BEGIN was issued, nothing was read yet.
\* "pinned": the transaction reads from a snapshot, which is still current.
\* "stale": somebody has committed since.
ConnState == {"auto", "begun", "pinned", "stale"}

Idle(w)      == job[w] = NoJob
Snapshot(w)  == conn[w] \in {"pinned", "stale"}
Visible(w) ==
    CASE holder = w                 -> pending
      [] holder # w /\ Snapshot(w)  -> snap[w]
      [] holder # w /\ ~Snapshot(w) -> db

TypeOK ==
    /\ db \in Table
    /\ pending \in Table
    /\ wrote \in BOOLEAN
    /\ holder \in Worker \union {NoWorker}
    /\ conn \in [Worker -> ConnState]
    /\ snap \in [Worker -> Table]
    /\ job \in [Worker -> Job \union {NoJob}]
    /\ file \in Table \union {NoFile}
    /\ gaveUp \in [Worker -> BOOLEAN]
    /\ broke \in [Worker -> BOOLEAN]
    /\ breaks \in Nat
    /\ observed \subseteq Key \X Payload \X Nat
    /\ wins \in [Key -> Nat]

Init ==
    /\ db = EmptyTable
    /\ pending = EmptyTable
    /\ wrote = FALSE
    /\ holder = NoWorker
    /\ conn = [w \in Worker |-> "auto"]
    /\ snap = [w \in Worker |-> EmptyTable]
    /\ job = [w \in Worker |-> NoJob]
    /\ file = NoFile
    /\ gaveUp = [w \in Worker |-> FALSE]
    /\ broke = [w \in Worker |-> FALSE]
    /\ breaks = 0
    /\ observed = {}
    /\ wins = [k \in Key |-> 0]

-----------------------------------------------------------------------------
\* Entering a write: the statement is prepared, BEGIN is issued unless an
\* earlier failure left a transaction open.
Enter(w, j) ==
    /\ Idle(w)
    /\ job' = [job EXCEPT ![w] = j]
    /\ conn' = [conn EXCEPT ![w] = IF @ = "auto" THEN "begun" ELSE @]
    /\ UNCHANGED <<db, transaction, snap, file, failures, observed, wins>>

RecordSuccess(w, k, p) ==
    /\ wins[k] < MaxWins
    /\ Enter(w, [kind |-> "success", payload |-> p, key |-> k, todo |-> {k}])

RecordFailure(w, k) ==
    /\ db[k] # NoRow => db[k].fail < MaxFails
    /\ Enter(w, [kind |-> "failure", key |-> k, todo |-> {k}])

\* One statement per entry of the file; a file without entries writes nothing.
Import(w) ==
    /\ file # NoFile
    /\ file # EmptyTable
    /\ Enter(w, [kind |-> "import", todo |-> {k \in Key : file[k] # NoRow}])

\* The row a statement of job j makes of a row.
RowAfter(j, k, row) ==
    CASE j.kind = "success" -> SuccessRow(row, j.payload, Today)
      [] j.kind = "failure" -> FailureRow(row)
      [] j.kind = "import"  -> MergeRow(row, file[k])

\* SQLite lets a statement write when its connection already holds the lock,
\* or can take it: the lock is free and the snapshot, if any, is current.
MayWrite(w) ==
    \/ holder = w
    \/ holder = NoWorker /\ conn[w] # "stale"

\* An UPDATE that matches nothing writes nothing.
Execute(w, k) ==
    /\ ~Idle(w)
    /\ k \in job[w].todo
    /\ MayWrite(w)
    /\ holder' = w
    /\ pending' = [Visible(w) EXCEPT ![k] = RowAfter(job[w], k, @)]
    /\ wrote' = (wrote \/ job[w].kind # "failure" \/ Visible(w)[k] # NoRow)
    /\ job' = [job EXCEPT ![w].todo = @ \ {k}]
    /\ UNCHANGED <<db, conn, snap, file, failures, observed, wins>>

\* commit(): what was executed becomes visible, with it what a failed call of the
\* connection has left; the lock is free, and if anything was written every
\* snapshot taken before is out of date.
AfterCommit(w) ==
    [v \in Worker |->
        CASE v = w                                  -> "auto"
          [] v # w /\ conn[v] = "pinned" /\ wrote     -> "stale"
          [] v # w /\ ~(conn[v] = "pinned" /\ wrote)  -> conn[v]]

\* import_from commits once, after its loop.
\* (ReadyAnytime, a mistake: committing inside the loop.)
ReadyAnytime(w) == TRUE
Ready(w) == job[w].todo = {}

Publish(w) ==
    /\ db' = pending
    /\ pending' = EmptyTable
    /\ wrote' = FALSE
    /\ holder' = NoWorker
    /\ conn' = AfterCommit(w)
    /\ snap' = [snap EXCEPT ![w] = EmptyTable]
    /\ job' = [job EXCEPT ![w] = NoJob]
    /\ gaveUp' = [gaveUp EXCEPT ![w] = FALSE]
    /\ broke' = [broke EXCEPT ![w] = FALSE]
    /\ IF job[w].kind = "success"
         THEN /\ observed' = observed \union {<<job[w].key, job[w].payload, Today>>}
              /\ wins' = [wins EXCEPT ![job[w].key] = @ + 1]
         ELSE UNCHANGED <<observed, wins>>
    /\ UNCHANGED <<file, breaks>>

\* (CommitIfMatched, a mistake: a failure that matched no row returns without its
\* commit.)
Executed(w) == ~Idle(w) /\ holder = w /\ Ready(w)
CommitIfMatched(w) ==
    /\ Executed(w)
    /\ IF wrote
         THEN Publish(w)
         ELSE /\ job' = [job EXCEPT ![w] = NoJob]
              /\ UNCHANGED <<db, transaction, conn, snap, file, failures, observed, wins>>
Commit(w) == Executed(w) /\ Publish(w)

\* "database is locked": after the busy timeout when the lock is taken, at once
\* when this connection reads from a snapshot.  The exception leaves the call;
\* the transaction stays open.
\* (LockedByOther, a mistake: waiting for an old snapshot to become current.)
LockedByOther(w) == holder \notin {w, NoWorker}
Locked(w) == holder \notin {w, NoWorker} \/ conn[w] = "stale"

GiveUp(w) ==
    /\ ~Idle(w)
    /\ Locked(w)
    /\ job' = [job EXCEPT ![w] = NoJob]
    /\ gaveUp' = [gaveUp EXCEPT ![w] = TRUE]
    /\ UNCHANGED <<db, transaction, conn, snap, file, broke, breaks, observed, wins>>

\* A statement or the commit fails for another reason, the disk being full say, and
\* SQLite undoes that statement only: what the call has executed before stays in
\* the open transaction, and so does the lock, also when it was this statement
\* that took it.
Break(w) ==
    /\ ~Idle(w)
    /\ breaks < MaxBreaks
    /\ \/ UNCHANGED transaction
       \/ /\ holder = NoWorker /\ MayWrite(w)
          /\ holder' = w /\ pending' = Visible(w)
          /\ UNCHANGED wrote
    /\ job' = [job EXCEPT ![w] = NoJob]
    /\ gaveUp' = [gaveUp EXCEPT ![w] = TRUE]
    /\ broke' = [broke EXCEPT ![w] = @ \/ (holder = w /\ wrote)]
    /\ breaks' = breaks + 1
    /\ UNCHANGED <<db, conn, snap, file, observed, wins>>

\* A SELECT inside an open transaction takes its snapshot, and keeps it.
\* (ReadPinsAlways, a mistake: SELECTs that open transactions themselves.)
ReadPinsAlways(w) == conn[w] \in {"auto", "begun"}
ReadPins(w) == conn[w] = "begun"

\* lookup, which answers from Visible(w)
Lookup(w) ==
    /\ Idle(w)
    /\ conn' = [conn EXCEPT ![w] = IF ReadPins(w) THEN "pinned" ELSE @]
    /\ snap' = [snap EXCEPT ![w] = IF ReadPins(w) THEN db ELSE @]
    /\ UNCHANGED <<db, transaction, job, file, failures, observed, wins>>

\* export, by a script with a connection of its own.
Export ==
    /\ ~ \E w \in Worker : ~Idle(w) /\ job[w].kind = "import"
    /\ file' = db
    /\ UNCHANGED <<db, transaction, conn, snap, job, failures, observed, wins>>

\* The process dies, or close()s, or fails with an error at which SQLite ends the
\* transaction by itself: it is rolled back and the lock is free.
Close(w) ==
    /\ conn[w] # "auto"
    /\ conn' = [conn EXCEPT ![w] = "auto"]
    /\ snap' = [snap EXCEPT ![w] = EmptyTable]
    /\ job' = [job EXCEPT ![w] = NoJob]
    /\ gaveUp' = [gaveUp EXCEPT ![w] = FALSE]
    /\ broke' = [broke EXCEPT ![w] = FALSE]
    /\ IF holder = w
         THEN holder' = NoWorker /\ pending' = EmptyTable /\ wrote' = FALSE
         ELSE UNCHANGED transaction
    /\ UNCHANGED <<db, file, breaks, observed, wins>>

Next ==
    \/ \E w \in Worker, k \in Key :
          \/ \E p \in Payload : RecordSuccess(w, k, p)
          \/ RecordFailure(w, k)
          \/ Execute(w, k)
    \/ \E w \in Worker : Import(w) \/ Commit(w) \/ GiveUp(w) \/ Break(w) \/ Lookup(w) \/ Close(w)
    \/ Export

Spec == Init /\ [][Next]_vars

\* A process that is inside a call keeps running: SQLite answers every
\* statement, at the latest when the busy timeout expires.
Running(w) == (\E k \in Key : Execute(w, k)) \/ Commit(w) \/ GiveUp(w)
FairSpec == Spec /\ \A w \in Worker : WF_vars(Running(w))

-----------------------------------------------------------------------------
\* No transaction and no lock outlives the call it was opened for: between calls a
\* connection holds neither, unless a write of it failed.  (A connection that keeps
\* the lock starves every other process, one that keeps a transaction goes blind.)
NothingStaysOpen ==
    \A w \in Worker : Idle(w) /\ ~gaveUp[w] => holder # w /\ conn[w] = "auto"

\* lookup sees every committed row and nothing else, unless an earlier write of
\* the same connection failed.
SharedUnlessGaveUp ==
    \A w \in Worker : Idle(w) /\ ~gaveUp[w] => Visible(w) = db

\* The whole database is a MemoryLayer: every commit is one of its operations
\* on the committed table (so no update is lost and no import is half done, also
\* when a process dies), and everything else changes nothing.  With the one
\* exception of a commit that publishes what a failed call of the same connection
\* has left in its transaction, the half of an import or a row already reported as
\* not recorded: it loses no row and no success that was counted.
Layer == INSTANCE MemoryLayer WITH
            Site <- {"memory.db"},
            store <- [s \in {"memory.db"} |-> db],
            now <- Today,
            MaxDay <- Today
NothingLost == \A k \in Key : db[k] # NoRow => db'[k] # NoRow /\ db'[k].succ >= db[k].succ
Leftovers == NothingLost /\ \E w \in Worker : broke[w] /\ Commit(w)
ImplementsLayer == Layer!Init /\ [][Layer!Operation \/ Leftovers]_(Layer!vars)

\* Every call returns.
CallsReturn == \A w \in Worker : ~Idle(w) ~> Idle(w)
=============================================================================
