------------------------- MODULE SharedMemoryProofs -------------------------
(***************************************************************************)
(* memory.db and its processes, for any number of processes, keys and rows.*)
(*                                                                         *)
(* First the transactions.  That none outlives its call is not inductive:  *)
(* it needs what the lock's holder has executed and whose statements they  *)
(* are, also where a failed call has left some.                            *)
(*                                                                         *)
(* Then that the processes together are one MemoryLayer: each commit is    *)
(* one of its operations, but for what failed calls have left.  That       *)
(* invariant says what a transaction has executed so far: the rows of its  *)
(* finished statements are the operation's, the others what is committed.  *)
(***************************************************************************)
EXTENDS SharedMemory, TLAPS

\* A call in progress has a transaction; without one, and without a write that
\* failed, there is none.
Transactions ==
    \A w \in Worker : /\ ~Idle(w) => conn[w] # "auto"
                      /\ Idle(w) /\ ~gaveUp[w] => conn[w] = "auto"

\* What the open transaction makes of the table loses no row and no success.
PendingKeeps == \A k \in Key : db[k] # NoRow => pending[k] # NoRow /\ pending[k].succ >= db[k].succ

\* The lock's holder works on what is committed; a snapshot not known to be old is
\* what is committed; and what is there between two calls, a failed one has left.
Locking ==
    /\ \A w \in Worker : /\ holder = w => conn[w] \in {"begun", "pinned"}
                         /\ conn[w] = "pinned" => snap[w] = db
                         /\ holder = w /\ Idle(w) => gaveUp[w]
                         /\ holder = w /\ Idle(w) /\ wrote => broke[w]
                         /\ broke[w] => holder = w
    /\ holder = NoWorker => ~wrote
    /\ holder # NoWorker => PendingKeeps /\ (wrote \/ pending = db)

\* An import has a file.
ImportsHaveFile ==
    \A w \in Worker : ~Idle(w) /\ job[w].kind = "import" => file # NoFile

LInv == TypeOK /\ Transactions /\ Locking /\ ImportsHaveFile

\* A statement keeps a row and its successes.
RowKeeps(row, new) ==
    /\ new \in MaybeRow
    /\ row # NoRow => new # NoRow /\ new.succ >= row.succ

\* What the statements make of a row.
LEMMA MergeKept ==
    ASSUME NEW row \in MaybeRow, NEW in \in MaybeRow
    PROVE  RowKeeps(row, MergeRow(row, in))
<1>1. ASSUME row # NoRow, in # NoRow
      PROVE  MergeColumns(row, in) \in Row /\ MergeColumns(row, in).succ >= row.succ
  <2>1. row \in Row /\ in \in Row
    BY <1>1 DEF MaybeRow
  <2>2. CASE in.succ > row.succ
    BY <2>1, <2>2 DEF MergeColumns, Merged, Stronger, FewerFails, Row
  <2>3. CASE ~(in.succ > row.succ)
    BY <2>1, <2>3 DEF MergeColumns, Merged, Stronger, FewerFails, Row
  <2>4. QED
    BY <2>2, <2>3
<1>2. CASE in = NoRow
  BY <1>2 DEF RowKeeps, MergeRow, MaybeRow, Row
<1>3. CASE in # NoRow /\ row = NoRow
  BY <1>3 DEF RowKeeps, MergeRow
<1>4. CASE in # NoRow /\ row # NoRow
  BY <1>1, <1>4, CacheRowAssumption DEF RowKeeps, MergeRow, MaybeRow
<1>5. QED
  BY <1>2, <1>3, <1>4

LEMMA SuccessKept ==
    ASSUME NEW row \in MaybeRow, NEW p \in Payload
    PROVE  RowKeeps(row, SuccessRow(row, p, Today))
<1>1. CASE row = NoRow
  BY <1>1 DEF RowKeeps, SuccessRow, Today, MaybeRow, Row
<1>2. CASE row # NoRow
  BY <1>2, CacheRowAssumption DEF RowKeeps, SuccessRow, Today, MaybeRow, Row
<1>3. QED
  BY <1>1, <1>2

LEMMA FailureKept ==
    ASSUME NEW row \in MaybeRow
    PROVE  RowKeeps(row, FailureRow(row))
  BY CacheRowAssumption DEF RowKeeps, FailureRow, MaybeRow, Row

\* What the kinds of jobs are made of.
LEMMA JobFields ==
    ASSUME NEW j \in Job
    PROVE  /\ j # NoJob
           /\ j.kind \in {"success", "failure", "import"}
           /\ j.todo \subseteq Key
           /\ j.kind \in {"success", "failure"} => j.key \in Key
           /\ j.kind = "success" => j.payload \in Payload
           /\ \A k \in Key : [j EXCEPT !.todo = @ \ {k}] \in Job
           /\ \A k \in Key : LET i == [j EXCEPT !.todo = @ \ {k}] IN
                 i.kind = j.kind /\ i.todo = j.todo \ {k} /\ (j.kind = "failure" => i.key = j.key)
<1>1. j # NoJob
  BY SharedMemoryAssumption
<1>2. CASE j \in [kind : {"success"}, payload : Payload, todo : SUBSET Key, key : Key]
  BY <1>1, <1>2 DEF Job
<1>3. CASE j \in [kind : {"failure"}, todo : SUBSET Key, key : Key]
  BY <1>1, <1>3 DEF Job
<1>4. CASE j \in [kind : {"import"}, todo : SUBSET Key]
  BY <1>1, <1>4 DEF Job
<1>5. QED
  BY <1>2, <1>3, <1>4 DEF Job
-----------------------------------------------------------------------------
LEMMA LockInitially == Init => LInv
<1>1. SUFFICES ASSUME Init PROVE LInv
  OBVIOUS
<1>2. EmptyTable \in Table
  BY DEF EmptyTable, Table, MaybeRow
<1>3. TypeOK
  <2>1. db \in Table /\ pending \in Table /\ holder \in Worker \union {NoWorker}
    BY <1>1, <1>2 DEF Init
  <2>2. /\ conn \in [Worker -> ConnState] /\ gaveUp \in [Worker -> BOOLEAN] /\ broke \in [Worker -> BOOLEAN]
        /\ breaks \in Nat /\ wrote \in BOOLEAN
    BY <1>1 DEF Init, ConnState
  <2>3. snap \in [Worker -> Table] /\ job \in [Worker -> Job \union {NoJob}]
    BY <1>1, <1>2 DEF Init
  <2>4. file \in Table \union {NoFile} /\ observed \subseteq Key \X Payload \X Nat
    BY <1>1 DEF Init
  <2>5. wins \in [Key -> Nat]
    BY <1>1 DEF Init
  <2>6. QED
    BY <2>1, <2>2, <2>3, <2>4, <2>5 DEF TypeOK
<1>4. \A w \in Worker : Idle(w) /\ conn[w] = "auto" /\ holder # w /\ ~broke[w]
  BY <1>1, SharedMemoryAssumption DEF Init, Idle
<1>5. holder = NoWorker /\ ~wrote
  BY <1>1 DEF Init
<1>6. QED
  BY <1>3, <1>4, <1>5 DEF LInv, Locking, Transactions, ImportsHaveFile

\* A process enters a write.
LEMMA EnterKeeps ==
    ASSUME LInv, NEW w \in Worker, NEW j \in Job, j.kind = "import" => file # NoFile, Enter(w, j)
    PROVE  LInv'
<1>1. j # NoJob /\ Idle(w)
  BY JobFields DEF Enter
<1>2. /\ job' = [job EXCEPT ![w] = j] /\ job'[w] = j
      /\ \A v \in Worker \ {w} : job'[v] = job[v] /\ conn'[v] = conn[v]
      /\ conn' \in [Worker -> ConnState] /\ conn'[w] # "auto"
      /\ conn[w] # "auto" => conn'[w] = conn[w]
      /\ conn'[w] = "pinned" => conn[w] = "pinned"
      /\ UNCHANGED <<db, pending, wrote, holder, snap, file, gaveUp, broke, breaks, observed, wins>>
  BY DEF Enter, LInv, TypeOK, ConnState, transaction, failures
<1>3. TypeOK'
  BY <1>2 DEF LInv, TypeOK
<1>4. Locking'
  <2>1. PendingKeeps' = PendingKeeps
    BY <1>2 DEF PendingKeeps
  <2>2. ASSUME NEW v \in Worker
        PROVE  /\ holder = v => conn'[v] \in {"begun", "pinned"}
               /\ conn'[v] = "pinned" => snap[v] = db
               /\ holder = v /\ Idle(v)' => gaveUp[v]
               /\ holder = v /\ Idle(v)' /\ wrote => broke[v]
    <3>1. CASE v = w
      BY <1>1, <1>2, <3>1 DEF LInv, Locking, Idle
    <3>2. CASE v # w
      BY <1>2, <3>2 DEF LInv, Locking, Idle
    <3>3. QED
      BY <3>1, <3>2
  <2>3. QED
    BY <1>2, <2>1, <2>2 DEF LInv, Locking
<1>5. Transactions'
  BY <1>1, <1>2 DEF LInv, Transactions, Idle
<1>6. ImportsHaveFile'
  BY <1>1, <1>2 DEF LInv, ImportsHaveFile, Idle
<1>7. QED
  BY <1>3, <1>4, <1>5, <1>6 DEF LInv

LEMMA WritesEntered ==
    ASSUME LInv, NEW w \in Worker,
           (\E k \in Key : (\E p \in Payload : RecordSuccess(w, k, p)) \/ RecordFailure(w, k)) \/ Import(w)
    PROVE  LInv'
<1>1. ASSUME NEW k \in Key, NEW p \in Payload, RecordSuccess(w, k, p) PROVE LInv'
  <2> DEFINE j == [kind |-> "success", payload |-> p, key |-> k, todo |-> {k}]
  <2>1. j \in Job /\ j.kind = "success" /\ Enter(w, j)
    BY <1>1 DEF Job, RecordSuccess
  <2> HIDE DEF j
  <2>2. QED
    BY <2>1, EnterKeeps
<1>2. ASSUME NEW k \in Key, RecordFailure(w, k) PROVE LInv'
  <2> DEFINE j == [kind |-> "failure", key |-> k, todo |-> {k}]
  <2>1. j \in Job /\ j.kind = "failure" /\ Enter(w, j)
    BY <1>2 DEF Job, RecordFailure
  <2> HIDE DEF j
  <2>2. QED
    BY <2>1, EnterKeeps
<1>3. CASE Import(w)
  <2> DEFINE j == [kind |-> "import", todo |-> {l \in Key : file[l] # NoRow}]
  <2>1. j \in Job /\ j.kind = "import" /\ file # NoFile /\ Enter(w, j)
    BY <1>3 DEF Job, Import
  <2> HIDE DEF j
  <2>2. QED
    BY <2>1, EnterKeeps
<1>4. QED
  BY <1>1, <1>2, <1>3

\* What a connection that may write sees: what is committed, or what it has
\* executed itself.
LEMMA SeesCommitted ==
    ASSUME LInv, NEW w \in Worker, ~Idle(w), MayWrite(w)
    PROVE  /\ Visible(w) \in Table /\ conn[w] \in {"begun", "pinned"}
           /\ holder # w => holder = NoWorker /\ Visible(w) = db
           /\ holder = w => Visible(w) = pending
           /\ ~wrote => Visible(w) = db
           /\ \A k \in Key : db[k] # NoRow => Visible(w)[k] # NoRow /\ Visible(w)[k].succ >= db[k].succ
<1>1. db \in Table /\ pending \in Table /\ holder \in Worker \union {NoWorker} /\ conn[w] \in ConnState
  BY DEF LInv, TypeOK
<1>2. conn[w] \in {"begun", "pinned"} /\ (conn[w] = "pinned" => snap[w] = db)
  BY <1>1 DEF LInv, Transactions, Locking, ConnState, MayWrite
<1>3. CASE holder = w
  <2>1. holder # NoWorker /\ Visible(w) = pending
    BY <1>3, SharedMemoryAssumption DEF Visible
  <2>2. QED
    BY <1>1, <1>2, <1>3, <2>1 DEF LInv, Locking, PendingKeeps
<1>4. CASE holder # w
  <2>1. holder = NoWorker /\ Visible(w) = db
    BY <1>2, <1>4 DEF MayWrite, Visible, Snapshot
  <2>2. \A k \in Key : db[k] # NoRow => db[k].succ \in Nat
    BY <1>1 DEF Table, MaybeRow, Row
  <2>3. QED
    BY <1>1, <1>2, <1>4, <2>1, <2>2
<1>5. QED
  BY <1>3, <1>4

\* A statement.
LEMMA ExecuteKeeps ==
    ASSUME LInv, NEW w \in Worker, NEW k \in Key, Execute(w, k)
    PROVE  LInv'
<1> DEFINE base == Visible(w)
           new  == RowAfter(job[w], k, base[k])
           j    == [job[w] EXCEPT !.todo = @ \ {k}]
<1>1. /\ job[w] \in Job /\ job[w] # NoJob /\ ~Idle(w) /\ k \in job[w].todo /\ MayWrite(w)
      /\ db \in Table /\ pending \in Table /\ job \in [Worker -> Job \union {NoJob}]
  BY DEF Execute, Idle, LInv, TypeOK
<1>2. /\ base \in Table /\ conn[w] \in {"begun", "pinned"}
      /\ holder # w => holder = NoWorker /\ base = db
      /\ ~wrote => base = db
      /\ \A l \in Key : db[l] # NoRow => base[l] # NoRow /\ base[l].succ >= db[l].succ
  BY <1>1, SeesCommitted
<1>3. base[k] \in MaybeRow /\ (base[k] # NoRow => base[k].succ \in Nat) /\ (db[k] # NoRow => db[k].succ \in Nat)
  BY <1>1, <1>2 DEF Table, MaybeRow, Row
<1>4. /\ job' = [job EXCEPT ![w] = j] /\ holder' = w
      /\ pending' = [base EXCEPT ![k] = new]
      /\ wrote' = (wrote \/ job[w].kind # "failure" \/ base[k] # NoRow)
      /\ UNCHANGED <<db, conn, snap, file, gaveUp, broke, breaks, observed, wins>>
  BY <1>2 DEF Execute, failures, Table
<1>5. /\ j \in Job /\ j # NoJob /\ j.kind = job[w].kind
  BY <1>1, JobFields
<1> HIDE DEF base, j
<1>6. RowKeeps(base[k], new)
  <2>1. CASE job[w].kind = "success"
    <3>1. job[w].payload \in Payload
      BY <1>1, <2>1, JobFields
    <3>2. QED
      BY <1>3, <2>1, <3>1, SuccessKept DEF RowAfter
  <2>2. CASE job[w].kind = "failure"
    BY <1>3, <2>2, FailureKept DEF RowAfter
  <2>3. CASE job[w].kind = "import"
    <3>1. file[k] \in MaybeRow
      BY <1>1, <2>3 DEF LInv, ImportsHaveFile, TypeOK, Table
    <3>2. new = MergeRow(base[k], file[k])
      BY <2>3 DEF RowAfter
    <3>3. QED
      BY <1>3, <3>1, <3>2, MergeKept
  <2>4. QED
    BY <1>1, <2>1, <2>2, <2>3, JobFields
<1> HIDE DEF new
<1>7. /\ pending' \in Table /\ pending'[k] = new
      /\ \A l \in Key \ {k} : pending'[l] = base[l]
  BY <1>2, <1>4, <1>6 DEF Table, RowKeeps
<1>8. job'[w] = j /\ \A v \in Worker \ {w} : job'[v] = job[v]
  BY <1>1, <1>4
<1>9. \A v \in Worker : Idle(v)' = Idle(v)
  BY <1>1, <1>5, <1>8 DEF Idle
<1>10. TypeOK'
  <2>1. job' \in [Worker -> Job \union {NoJob}] /\ wrote' \in BOOLEAN
    BY <1>1, <1>4, <1>5 DEF LInv, TypeOK
  <2>2. QED
    BY <1>4, <1>7, <2>1 DEF LInv, TypeOK
<1>11. PendingKeeps'
  <2>1. ASSUME NEW l \in Key, db[l] # NoRow
        PROVE  pending'[l] # NoRow /\ pending'[l].succ >= db[l].succ
    <3>1. CASE l = k
      <4>1. base[k] # NoRow /\ base[k].succ >= db[k].succ /\ new # NoRow /\ new.succ >= base[k].succ
        BY <1>2, <1>6, <2>1, <3>1 DEF RowKeeps
      <4>2. new.succ \in Nat /\ base[k].succ \in Nat /\ db[k].succ \in Nat
        BY <1>3, <1>6, <2>1, <3>1, <4>1 DEF RowKeeps, MaybeRow, Row
      <4>3. QED
        BY <1>7, <3>1, <4>1, <4>2
    <3>2. CASE l # k
      BY <1>2, <1>7, <2>1, <3>2
    <3>3. QED
      BY <3>1, <3>2
  <2>2. QED
    BY <1>4, <2>1 DEF PendingKeeps
<1>12. wrote' \/ pending' = db
  <2>1. ASSUME ~wrote' PROVE pending' = db
    <3>1. ~wrote /\ job[w].kind = "failure" /\ base[k] = NoRow /\ base = db
      BY <1>2, <1>4, <2>1
    <3>2. new = NoRow
      BY <3>1 DEF new, RowAfter, FailureRow
    <3>3. QED
      BY <1>1, <1>7, <3>1, <3>2 DEF Table
  <2>2. QED
    BY <2>1
<1>13. Locking'
  <2>1. holder' # NoWorker
    BY <1>4, SharedMemoryAssumption
  <2>2. \A v \in Worker : broke[v] => v = w
    BY <1>2, SharedMemoryAssumption DEF LInv, Locking
  <2>3. QED
    BY <1>1, <1>2, <1>4, <1>9, <1>11, <1>12, <2>1, <2>2 DEF LInv, Locking
<1>14. Transactions'
  BY <1>4, <1>9 DEF LInv, Transactions
<1>15. ImportsHaveFile'
  BY <1>1, <1>4, <1>5, <1>8, <1>9 DEF LInv, ImportsHaveFile, Idle
<1>16. QED
  BY <1>10, <1>13, <1>14, <1>15 DEF LInv

\* A commit: the connections that read another version are out of date.
LEMMA CommitKeeps ==
    ASSUME LInv, NEW w \in Worker, Commit(w)
    PROVE  LInv'
<1>1. /\ job[w] \in Job /\ job[w] # NoJob /\ holder = w /\ holder # NoWorker
      /\ db \in Table /\ pending \in Table
  BY SharedMemoryAssumption DEF Commit, Executed, Idle, LInv, TypeOK
<1>2. EmptyTable \in Table
  BY DEF EmptyTable, Table, MaybeRow
<1>3. /\ db' = pending /\ pending' = EmptyTable /\ wrote' = FALSE /\ holder' = NoWorker
      /\ conn' = AfterCommit(w)
      /\ snap' = [snap EXCEPT ![w] = EmptyTable]
      /\ job' = [job EXCEPT ![w] = NoJob]
      /\ gaveUp' = [gaveUp EXCEPT ![w] = FALSE]
      /\ broke' = [broke EXCEPT ![w] = FALSE]
      /\ file' = file /\ breaks' = breaks
  BY DEF Commit, Publish
<1>4. /\ job'[w] = NoJob /\ \A v \in Worker \ {w} : job'[v] = job[v] /\ snap'[v] = snap[v]
      /\ \A v \in Worker \ {w} : gaveUp'[v] = gaveUp[v] /\ broke'[v] = broke[v]
      /\ broke'[w] = FALSE
  BY <1>3 DEF LInv, TypeOK
<1>5. conn'[w] = "auto" /\ conn' \in [Worker -> ConnState]
  BY <1>3 DEF AfterCommit, LInv, TypeOK, ConnState
<1>6. ASSUME NEW v \in Worker, v # w
      PROVE  /\ conn'[v] = "auto" <=> conn[v] = "auto"
             /\ conn'[v] = "pinned" => conn[v] = "pinned"
             /\ conn'[v] = "pinned" => ~wrote
  BY <1>3, <1>6 DEF AfterCommit, LInv, TypeOK, ConnState
<1>7. observed' \subseteq Key \X Payload \X Nat /\ wins' \in [Key -> Nat]
  <2>1. CASE job[w].kind = "success"
    <3>1. job[w].key \in Key /\ job[w].payload \in Payload /\ Today \in Nat
      BY <1>1, <2>1, JobFields DEF Today
    <3>2. /\ observed' = observed \union {<<job[w].key, job[w].payload, Today>>}
          /\ wins' = [wins EXCEPT ![job[w].key] = @ + 1]
      BY <2>1 DEF Commit, Publish
    <3>3. QED
      BY <3>1, <3>2 DEF LInv, TypeOK
  <2>2. CASE job[w].kind # "success"
    BY <2>2 DEF Commit, Publish, LInv, TypeOK
  <2>3. QED
    BY <2>1, <2>2
<1>8. TypeOK'
  <2>1. db' \in Table /\ pending' \in Table /\ holder' \in Worker \union {NoWorker} /\ wrote' \in BOOLEAN
    BY <1>1, <1>2, <1>3
  <2>2. snap' \in [Worker -> Table] /\ job' \in [Worker -> Job \union {NoJob}]
    BY <1>2, <1>3 DEF LInv, TypeOK
  <2>3. /\ gaveUp' \in [Worker -> BOOLEAN] /\ broke' \in [Worker -> BOOLEAN] /\ breaks' \in Nat
        /\ file' \in Table \union {NoFile}
    BY <1>3 DEF LInv, TypeOK
  <2>4. QED
    BY <1>5, <1>7, <2>1, <2>2, <2>3 DEF TypeOK
<1>9. ~wrote => db' = db
  BY <1>1, <1>3 DEF LInv, Locking
<1>10. \A v \in Worker : holder' # v /\ ~broke'[v]
  <2>1. \A v \in Worker : holder' # v
    BY <1>3, SharedMemoryAssumption
  <2>2. \A v \in Worker \ {w} : ~broke[v]
    BY <1>1 DEF LInv, Locking
  <2>3. QED
    BY <1>4, <2>1, <2>2
<1>11. Locking'
  <2>1. ASSUME NEW v \in Worker, conn'[v] = "pinned"
        PROVE  snap'[v] = db'
    <3>1. v # w
      BY <1>5, <2>1
    <3>2. conn[v] = "pinned" /\ ~wrote
      BY <1>6, <2>1, <3>1
    <3>3. snap'[v] = snap[v] /\ db' = db
      BY <1>4, <1>9, <3>1, <3>2
    <3>4. snap[v] = db
      BY <3>2 DEF LInv, Locking
    <3>5. QED
      BY <3>3, <3>4
  <2>2. QED
    BY <1>3, <1>10, <2>1 DEF Locking
<1>12. Transactions' /\ ImportsHaveFile'
  <2>1. \A v \in Worker \ {w} : Idle(v)' = Idle(v)
    BY <1>4 DEF Idle
  <2>2. Idle(w)'
    BY <1>4 DEF Idle
  <2>3. Transactions'
    <3>1. ASSUME NEW v \in Worker, v # w
          PROVE  /\ ~Idle(v)' => conn'[v] # "auto"
                 /\ Idle(v)' /\ ~gaveUp'[v] => conn'[v] = "auto"
      <4>1. /\ ~Idle(v) => conn[v] # "auto"
            /\ Idle(v) /\ ~gaveUp[v] => conn[v] = "auto"
        BY DEF LInv, Transactions
      <4>2. gaveUp'[v] = gaveUp[v] /\ Idle(v)' = Idle(v) /\ (conn'[v] = "auto" <=> conn[v] = "auto")
        BY <1>4, <1>6, <2>1, <3>1
      <4>3. QED
        BY <4>1, <4>2
    <3>2. QED
      BY <1>5, <2>2, <3>1 DEF Transactions
  <2>4. ImportsHaveFile'
    BY <1>3, <1>4, <2>1, <2>2 DEF LInv, ImportsHaveFile
  <2>5. QED
    BY <2>3, <2>4
<1>13. QED
  BY <1>8, <1>11, <1>12 DEF LInv

\* The calls that only end, read or copy.
LEMMA GiveUpKeeps ==
    ASSUME LInv, NEW w \in Worker, GiveUp(w)
    PROVE  LInv'
<1>1. holder # w
  BY DEF GiveUp, Locked, LInv, Locking
<1>2. /\ job' = [job EXCEPT ![w] = NoJob] /\ gaveUp' = [gaveUp EXCEPT ![w] = TRUE]
      /\ UNCHANGED <<db, pending, wrote, holder, conn, snap, file, broke, breaks, observed, wins>>
  BY DEF GiveUp, transaction
<1>3. /\ Idle(w)' /\ gaveUp'[w] = TRUE
      /\ \A v \in Worker \ {w} : Idle(v)' = Idle(v) /\ job'[v] = job[v] /\ gaveUp'[v] = gaveUp[v]
  BY <1>2 DEF LInv, TypeOK, Idle
<1>4. TypeOK'
  <2>1. job' \in [Worker -> Job \union {NoJob}] /\ gaveUp' \in [Worker -> BOOLEAN]
    BY <1>2 DEF LInv, TypeOK
  <2>2. QED
    BY <1>2, <2>1 DEF LInv, TypeOK
<1>5. Locking'
  BY <1>1, <1>2, <1>3 DEF LInv, Locking, PendingKeeps
<1>6. Transactions'
  BY <1>2, <1>3 DEF LInv, Transactions
<1>7. ImportsHaveFile'
  BY <1>2, <1>3 DEF LInv, ImportsHaveFile
<1>8. QED
  BY <1>4, <1>5, <1>6, <1>7 DEF LInv

\* What a failed statement leaves is accounted for.
LEMMA BreakKeeps ==
    ASSUME LInv, NEW w \in Worker, Break(w)
    PROVE  LInv'
<1>1. /\ job' = [job EXCEPT ![w] = NoJob] /\ gaveUp' = [gaveUp EXCEPT ![w] = TRUE]
      /\ broke' = [broke EXCEPT ![w] = @ \/ (holder = w /\ wrote)] /\ breaks' = breaks + 1
      /\ ~Idle(w) /\ UNCHANGED <<db, wrote, conn, snap, file, observed, wins>>
  BY DEF Break, transaction
<1>2. /\ Idle(w)' /\ gaveUp'[w] = TRUE
      /\ \A v \in Worker \ {w} : /\ Idle(v)' = Idle(v) /\ job'[v] = job[v] /\ gaveUp'[v] = gaveUp[v]
                                /\ broke'[v] = broke[v]
      /\ broke'[w] = (broke[w] \/ (holder = w /\ wrote))
  BY <1>1 DEF LInv, TypeOK, Idle
<1>3. \/ holder' = holder /\ pending' = pending
      \/ /\ holder = NoWorker /\ holder' = w /\ pending' = db /\ db \in Table
         /\ conn[w] \in {"begun", "pinned"} /\ ~wrote
  <2>1. CASE holder = NoWorker /\ MayWrite(w) /\ holder' = w /\ pending' = Visible(w)
    <3>1. holder # w
      BY <2>1, SharedMemoryAssumption
    <3>2. QED
      BY <1>1, <2>1, <3>1, SeesCommitted DEF LInv, TypeOK, Locking
  <2>2. QED
    BY <2>1 DEF Break, transaction
<1>4. TypeOK'
  <2>1. /\ job' \in [Worker -> Job \union {NoJob}] /\ gaveUp' \in [Worker -> BOOLEAN]
        /\ broke' \in [Worker -> BOOLEAN] /\ breaks' \in Nat
    BY <1>1 DEF LInv, TypeOK
  <2>2. holder' \in Worker \union {NoWorker} /\ pending' \in Table
    BY <1>3 DEF LInv, TypeOK
  <2>3. QED
    BY <1>1, <2>1, <2>2 DEF LInv, TypeOK
<1>5. Locking'
  <2>1. CASE holder' = holder /\ pending' = pending
    <3>1. PendingKeeps' = PendingKeeps
      BY <1>1, <2>1 DEF PendingKeeps
    <3>2. ASSUME NEW v \in Worker
          PROVE  /\ holder = v => conn[v] \in {"begun", "pinned"}
                 /\ conn[v] = "pinned" => snap[v] = db
                 /\ holder = v /\ Idle(v)' => gaveUp'[v]
                 /\ holder = v /\ Idle(v)' /\ wrote => broke'[v]
                 /\ broke'[v] => holder = v
      <4>1. CASE v = w
        BY <1>2, <4>1 DEF LInv, Locking
      <4>2. CASE v # w
        BY <1>2, <4>2 DEF LInv, Locking
      <4>3. QED
        BY <4>1, <4>2
    <3>3. QED
      BY <1>1, <2>1, <3>1, <3>2 DEF LInv, Locking
  <2>2. CASE /\ holder = NoWorker /\ holder' = w /\ pending' = db /\ db \in Table
             /\ conn[w] \in {"begun", "pinned"} /\ ~wrote
    <3>1. PendingKeeps'
      BY <1>1, <2>2 DEF PendingKeeps, Table, MaybeRow, Row
    <3>2. \A v \in Worker : holder # v /\ ~broke[v]
      BY <2>2, SharedMemoryAssumption DEF LInv, Locking
    <3>3. QED
      BY <1>1, <1>2, <2>2, <3>1, <3>2, SharedMemoryAssumption DEF LInv, Locking
  <2>3. QED
    BY <1>3, <2>1, <2>2
<1>6. Transactions'
  BY <1>1, <1>2 DEF LInv, Transactions
<1>7. ImportsHaveFile'
  BY <1>1, <1>2 DEF LInv, ImportsHaveFile
<1>8. QED
  BY <1>4, <1>5, <1>6, <1>7 DEF LInv

LEMMA LookupKeeps ==
    ASSUME LInv, NEW w \in Worker, Lookup(w)
    PROVE  LInv'
<1>1. /\ Idle(w) /\ UNCHANGED <<db, pending, wrote, holder, job, file, gaveUp, broke, breaks, observed, wins>>
      /\ conn' = [conn EXCEPT ![w] = IF ReadPins(w) THEN "pinned" ELSE @]
      /\ snap' = [snap EXCEPT ![w] = IF ReadPins(w) THEN db ELSE @]
  BY DEF Lookup, transaction, failures
<1>2. CASE conn[w] = "begun"
  <2>1. /\ conn' = [conn EXCEPT ![w] = "pinned"] /\ snap' = [snap EXCEPT ![w] = db]
    BY <1>1, <1>2 DEF ReadPins
  <2>2. /\ conn'[w] = "pinned" /\ snap'[w] = db
        /\ \A v \in Worker \ {w} : conn'[v] = conn[v] /\ snap'[v] = snap[v]
        /\ conn' \in [Worker -> ConnState] /\ snap' \in [Worker -> Table]
    BY <2>1 DEF LInv, TypeOK, ConnState
  <2>3. TypeOK'
    BY <1>1, <2>2 DEF LInv, TypeOK
  <2>4. Locking'
    BY <1>1, <2>2 DEF LInv, Locking, PendingKeeps, Idle
  <2>5. Transactions'
    BY <1>1, <1>2, <2>2 DEF LInv, Transactions, Idle
  <2>6. ImportsHaveFile'
    BY <1>1 DEF LInv, ImportsHaveFile, Idle
  <2>7. QED
    BY <2>3, <2>4, <2>5, <2>6 DEF LInv
<1>3. CASE conn[w] # "begun"
  <2>1. conn' = conn /\ snap' = snap
    BY <1>1, <1>3 DEF ReadPins, LInv, TypeOK
  <2>2. QED
    BY <1>1, <2>1 DEF LInv, TypeOK, Locking, PendingKeeps, Transactions, ImportsHaveFile, Idle
<1>4. QED
  BY <1>2, <1>3

LEMMA ExportKeeps ==
    ASSUME LInv, Export
    PROVE  LInv'
<1>1. file' = db /\ UNCHANGED <<db, pending, wrote, holder, conn, snap, job, gaveUp, broke, breaks, observed, wins>>
  BY DEF Export, transaction, failures
<1>2. file' \in Table /\ file' # NoFile
  BY <1>1, SharedMemoryAssumption DEF LInv, TypeOK
<1>3. TypeOK'
  BY <1>1, <1>2 DEF LInv, TypeOK
<1>4. Locking' /\ Transactions'
  BY <1>1 DEF LInv, Locking, PendingKeeps, Transactions, Idle
<1>5. ImportsHaveFile'
  BY <1>2 DEF ImportsHaveFile
<1>6. QED
  BY <1>3, <1>4, <1>5 DEF LInv

LEMMA CloseKeeps ==
    ASSUME LInv, NEW w \in Worker, Close(w)
    PROVE  LInv'
<1>1. EmptyTable \in Table
  BY DEF EmptyTable, Table, MaybeRow
<1>2. /\ conn' = [conn EXCEPT ![w] = "auto"] /\ snap' = [snap EXCEPT ![w] = EmptyTable]
      /\ job' = [job EXCEPT ![w] = NoJob] /\ gaveUp' = [gaveUp EXCEPT ![w] = FALSE]
      /\ broke' = [broke EXCEPT ![w] = FALSE]
      /\ UNCHANGED <<db, file, breaks, observed, wins>>
  BY DEF Close
<1>3. /\ conn'[w] = "auto" /\ Idle(w)' /\ ~broke'[w]
      /\ \A v \in Worker \ {w} : /\ conn'[v] = conn[v] /\ snap'[v] = snap[v]
                                /\ gaveUp'[v] = gaveUp[v] /\ broke'[v] = broke[v]
                                /\ Idle(v)' = Idle(v) /\ job'[v] = job[v]
  BY <1>2 DEF LInv, TypeOK, Idle
<1>4. \/ holder = w /\ holder' = NoWorker /\ pending' = EmptyTable /\ wrote' = FALSE
      \/ holder # w /\ holder' = holder /\ pending' = pending /\ wrote' = wrote
  BY DEF Close, transaction
<1>5. /\ holder' # w
      /\ \A v \in Worker : holder' = v => holder = v /\ pending' = pending /\ wrote' = wrote
      /\ \A v \in Worker \ {w} : holder = v => holder' = v
  BY <1>4, SharedMemoryAssumption
<1>6. TypeOK'
  <2>1. conn' \in [Worker -> ConnState] /\ snap' \in [Worker -> Table]
    BY <1>1, <1>2 DEF LInv, TypeOK, ConnState
  <2>2. job' \in [Worker -> Job \union {NoJob}]
    BY <1>2 DEF LInv, TypeOK
  <2>3. gaveUp' \in [Worker -> BOOLEAN] /\ broke' \in [Worker -> BOOLEAN]
    BY <1>2 DEF LInv, TypeOK
  <2>4. holder' \in Worker \union {NoWorker} /\ pending' \in Table /\ wrote' \in BOOLEAN
    BY <1>1, <1>4 DEF LInv, TypeOK
  <2>5. QED
    BY <1>2, <2>1, <2>2, <2>3, <2>4 DEF LInv, TypeOK
<1>7. Locking'
  <2>1. ASSUME NEW v \in Worker
        PROVE  /\ holder' = v => conn'[v] \in {"begun", "pinned"}
               /\ conn'[v] = "pinned" => snap'[v] = db'
               /\ holder' = v /\ Idle(v)' => gaveUp'[v]
               /\ holder' = v /\ Idle(v)' /\ wrote' => broke'[v]
               /\ broke'[v] => holder' = v
    <3>1. CASE v = w
      BY <1>3, <1>5, <3>1
    <3>2. CASE v # w
      BY <1>2, <1>3, <1>5, <3>2 DEF LInv, Locking
    <3>3. QED
      BY <3>1, <3>2
  <2>2. holder' = NoWorker => ~wrote'
    BY <1>4 DEF LInv, Locking
  <2>3. holder' # NoWorker => PendingKeeps' /\ (wrote' \/ pending' = db')
    BY <1>2, <1>4 DEF LInv, Locking, PendingKeeps
  <2>4. QED
    BY <2>1, <2>2, <2>3 DEF Locking
<1>8. Transactions'
  <2>1. ASSUME NEW v \in Worker, v # w
        PROVE  /\ ~Idle(v)' => conn'[v] # "auto"
               /\ Idle(v)' /\ ~gaveUp'[v] => conn'[v] = "auto"
    <3>1. /\ ~Idle(v) => conn[v] # "auto"
          /\ Idle(v) /\ ~gaveUp[v] => conn[v] = "auto"
      BY DEF LInv, Transactions
    <3>2. gaveUp'[v] = gaveUp[v] /\ Idle(v)' = Idle(v) /\ conn'[v] = conn[v]
      BY <1>3, <2>1
    <3>3. QED
      BY <3>1, <3>2
  <2>2. QED
    BY <1>3, <2>1 DEF Transactions
<1>9. ImportsHaveFile'
  <2>1. ASSUME NEW v \in Worker, ~Idle(v)'
        PROVE  v # w /\ ~Idle(v) /\ job'[v] = job[v]
    BY <1>3, <2>1
  <2>2. QED
    BY <1>2, <2>1 DEF LInv, ImportsHaveFile
<1>10. QED
  BY <1>6, <1>7, <1>8, <1>9 DEF LInv
-----------------------------------------------------------------------------
LEMMA LockInvariant == Spec => []LInv
<1>1. LInv /\ [Next]_vars => LInv'
  <2>1. SUFFICES ASSUME LInv, [Next]_vars PROVE LInv'
    OBVIOUS
  <2>2. CASE \E w \in Worker, k \in Key :
                (\E p \in Payload : RecordSuccess(w, k, p)) \/ RecordFailure(w, k) \/ Execute(w, k)
    BY <2>1, <2>2, WritesEntered, ExecuteKeeps
  <2>3. CASE \E w \in Worker : Import(w)
    BY <2>1, <2>3, WritesEntered
  <2>4. CASE \E w \in Worker : Commit(w) \/ GiveUp(w) \/ Break(w) \/ Lookup(w) \/ Close(w)
    BY <2>1, <2>4, CommitKeeps, GiveUpKeeps, BreakKeeps, LookupKeeps, CloseKeeps
  <2>5. CASE Export
    BY <2>1, <2>5, ExportKeeps
  <2>6. CASE UNCHANGED vars
    BY <2>1, <2>6 DEF vars, LInv, TypeOK, Locking, PendingKeeps, Transactions, ImportsHaveFile, Idle
  <2>7. QED
    BY <2>1, <2>2, <2>3, <2>4, <2>5, <2>6 DEF Next
<1>2. QED
  BY LockInitially, <1>1, PTL DEF Spec

\* TypeOK of SharedMemory (MemoryLayer._get_conn: one connection per process).
THEOREM SharedTypeCorrect == Spec => []TypeOK
<1>1. LInv => TypeOK
  BY DEF LInv
<1>2. QED
  BY LockInvariant, <1>1, PTL

\* NothingStaysOpen, for any number of processes: no transaction and no lock
\* outlives the call it was opened for, unless a write of the connection failed
\* (record_success, record_failure, import_from: execute, commit).
THEOREM CallsEndTheirTransactions == Spec => []NothingStaysOpen
<1>1. LInv => NothingStaysOpen
  BY DEF LInv, Transactions, Locking, NothingStaysOpen
<1>2. QED
  BY LockInvariant, <1>1, PTL

\* SharedUnlessGaveUp: only a write that failed can leave a process blind for what
\* the others commit (layer.py: no rollback after an OperationalError).
THEOREM BlindOnlyAfterGivingUp == Spec => []SharedUnlessGaveUp
<1>1. LInv => SharedUnlessGaveUp
  BY DEF LInv, Transactions, Locking, SharedUnlessGaveUp, Visible, Snapshot
<1>2. QED
  BY LockInvariant, <1>1, PTL

-----------------------------------------------------------------------------
\* The keys a call has a statement for, given the cache file.
Full(j, f) == IF j.kind = "import" THEN {k \in Key : f[k] # NoRow} ELSE {j.key}

\* What the operation makes of a row, and of a table as far as it got.
Made(j, f, k, row) ==
    CASE j.kind = "success" -> SuccessRow(row, j.payload, Today)
      [] j.kind = "failure" -> FailureRow(row)
      [] j.kind = "import"  -> MergeRow(row, f[k])
SoFar(j, f, d) == [k \in Key |-> IF k \in Full(j, f) /\ k \notin j.todo THEN Made(j, f, k, d[k]) ELSE d[k]]

\* Where no failed call has left anything, the transaction is as far as the call.
Transacted ==
    \A w \in Worker : job[w] # NoJob =>
        /\ job[w].todo \subseteq Full(job[w], file)
        /\ holder # w => job[w].todo = Full(job[w], file)
        /\ holder = w /\ ~broke[w] => pending = SoFar(job[w], file, db)

-----------------------------------------------------------------------------
LEMMA LayerInitially == Init => Transacted /\ Layer!Init
<1>1. SUFFICES ASSUME Init PROVE Transacted /\ Layer!Init
  OBVIOUS
<1>2. \A w \in Worker : job[w] = NoJob
  BY <1>1 DEF Init
<1>3. Transacted
  BY <1>2 DEF Transacted
<1>4. Layer!Init
  BY <1>1 DEF Init, EmptyTable, Layer!Init, Layer!EmptyTable, Today
<1>5. QED
  BY <1>3, <1>4

\* A call that enters has everything before it.
LEMMA EnterStarts ==
    ASSUME LInv, Transacted, NEW w \in Worker, NEW j \in Job, j.todo = Full(j, file), Enter(w, j)
    PROVE  Transacted' /\ UNCHANGED Layer!vars
<1>1. /\ j # NoJob /\ Idle(w) /\ db \in Table
      /\ job'[w] = j /\ \A v \in Worker \ {w} : job'[v] = job[v]
      /\ UNCHANGED <<db, pending, holder, file, broke, observed, wins>>
  BY JobFields DEF Enter, LInv, TypeOK, transaction, failures
<1>2. SoFar(j, file, db) = db
  <2>1. SoFar(j, file, db) = [k \in Key |-> db[k]]
    BY DEF SoFar
  <2>2. QED
    BY <1>1, <2>1 DEF Table
<1>3. holder = w /\ ~broke[w] => pending = db
  BY <1>1, SharedMemoryAssumption DEF LInv, Locking
<1>4. ASSUME NEW v \in Worker, job'[v] # NoJob
      PROVE  /\ job'[v].todo \subseteq Full(job'[v], file)
             /\ holder # v => job'[v].todo = Full(job'[v], file)
             /\ holder = v /\ ~broke[v] => pending = SoFar(job'[v], file, db)
  <2>1. CASE v = w
    BY <1>1, <1>2, <1>3, <2>1
  <2>2. CASE v # w
    BY <1>1, <1>4, <2>2 DEF Transacted
  <2>3. QED
    BY <2>1, <2>2
<1>5. Transacted'
  BY <1>1, <1>4 DEF Transacted
<1>6. UNCHANGED Layer!vars
  BY <1>1 DEF Layer!vars, Today
<1>7. QED
  BY <1>5, <1>6

LEMMA CallsStart ==
    ASSUME LInv, Transacted, NEW w \in Worker,
           (\E k \in Key : (\E p \in Payload : RecordSuccess(w, k, p)) \/ RecordFailure(w, k)) \/ Import(w)
    PROVE  Transacted' /\ UNCHANGED Layer!vars
<1>1. ASSUME NEW k \in Key, NEW p \in Payload, RecordSuccess(w, k, p)
      PROVE  Transacted' /\ UNCHANGED Layer!vars
  <2> DEFINE j == [kind |-> "success", payload |-> p, key |-> k, todo |-> {k}]
  <2>1. j \in Job /\ j.todo = Full(j, file) /\ Enter(w, j)
    BY <1>1 DEF Job, RecordSuccess, Full
  <2> HIDE DEF j
  <2>2. QED
    BY <2>1, EnterStarts
<1>2. ASSUME NEW k \in Key, RecordFailure(w, k)
      PROVE  Transacted' /\ UNCHANGED Layer!vars
  <2> DEFINE j == [kind |-> "failure", key |-> k, todo |-> {k}]
  <2>1. j \in Job /\ j.todo = Full(j, file) /\ Enter(w, j)
    BY <1>2 DEF Job, RecordFailure, Full
  <2> HIDE DEF j
  <2>2. QED
    BY <2>1, EnterStarts
<1>3. CASE Import(w)
  <2> DEFINE j == [kind |-> "import", todo |-> {l \in Key : file[l] # NoRow}]
  <2>1. j \in Job /\ j.todo = Full(j, file) /\ Enter(w, j)
    BY <1>3 DEF Job, Import, Full
  <2> HIDE DEF j
  <2>2. QED
    BY <2>1, EnterStarts
<1>4. QED
  BY <1>1, <1>2, <1>3

\* What a statement leaves of its call.
LEMMA StatementDone ==
    ASSUME NEW j \in Job, NEW k \in Key
    PROVE  LET i == [j EXCEPT !.todo = @ \ {k}] IN
           /\ i # NoJob /\ i.kind = j.kind /\ i.todo = j.todo \ {k}
           /\ j.kind \in {"success", "failure"} => i.key = j.key
           /\ j.kind = "success" => i.payload = j.payload
<1>1. j \in Job /\ [j EXCEPT !.todo = @ \ {k}] \in Job /\ [j EXCEPT !.todo = @ \ {k}] # NoJob
  BY JobFields, SharedMemoryAssumption
<1>2. CASE j \in [kind : {"success"}, payload : Payload, todo : SUBSET Key, key : Key]
  BY <1>1, <1>2
<1>3. CASE j \in [kind : {"failure"}, todo : SUBSET Key, key : Key]
  BY <1>1, <1>3
<1>4. CASE j \in [kind : {"import"}, todo : SUBSET Key]
  BY <1>1, <1>4
<1>5. QED
  BY <1>1, <1>2, <1>3, <1>4 DEF Job

\* A statement takes its transaction one row further.
LEMMA ExecuteAdvances ==
    ASSUME LInv, Transacted, NEW w \in Worker, NEW k \in Key, Execute(w, k)
    PROVE  Transacted' /\ UNCHANGED Layer!vars
<1> DEFINE j == [job[w] EXCEPT !.todo = @ \ {k}]
<1>1. /\ job[w] \in Job /\ job[w] # NoJob /\ ~Idle(w) /\ k \in job[w].todo /\ MayWrite(w) /\ db \in Table
  BY DEF Execute, Idle, LInv, TypeOK
<1>2. /\ j # NoJob /\ j.kind = job[w].kind /\ j.todo = job[w].todo \ {k} /\ j.kind \in {"success", "failure", "import"}
      /\ j.kind \in {"success", "failure"} => j.key = job[w].key
      /\ j.kind = "success" => j.payload = job[w].payload
  BY <1>1, StatementDone, JobFields
<1>3. /\ job' = [job EXCEPT ![w] = j] /\ holder' = w /\ UNCHANGED <<db, file, broke, observed, wins>>
      /\ pending' = [Visible(w) EXCEPT ![k] = RowAfter(job[w], k, @)]
  BY DEF Execute, failures
<1> HIDE DEF j
<1>4. job'[w] = j /\ \A v \in Worker \ {w} : job'[v] = job[v]
  BY <1>3 DEF LInv, TypeOK
<1>5. Full(j, file) = Full(job[w], file) /\ job[w].todo \subseteq Full(job[w], file)
  BY <1>1, <1>2 DEF Full, Transacted
<1>6. \A l \in Key : Made(j, file, l, db[l]) = Made(job[w], file, l, db[l])
  BY <1>2 DEF Made
<1>7. ASSUME ~broke[w]
      PROVE  pending' = SoFar(j, file, db)
  <2>1. Visible(w) = SoFar(job[w], file, db)
    <3>1. CASE holder = w
      BY <1>1, <1>7, <3>1, SeesCommitted DEF Transacted
    <3>2. CASE holder # w
      <4>1. Visible(w) = db
        BY <1>1, <3>2, SeesCommitted
      <4>2. job[w].todo = Full(job[w], file)
        BY <1>1, <3>2 DEF Transacted
      <4>3. SoFar(job[w], file, db) = [l \in Key |-> db[l]]
        BY <4>2 DEF SoFar
      <4>4. QED
        BY <1>1, <4>1, <4>3 DEF Table
    <3>3. QED
      BY <3>1, <3>2
  <2>2. SoFar(job[w], file, db)[k] = db[k] /\ RowAfter(job[w], k, db[k]) = Made(job[w], file, k, db[k])
    BY <1>1 DEF SoFar, RowAfter, Made
  <2>3. pending' = [SoFar(job[w], file, db) EXCEPT ![k] = Made(job[w], file, k, db[k])]
    BY <1>3, <2>1, <2>2
  <2>4. pending' = [l \in Key |-> IF l = k THEN Made(job[w], file, k, db[k]) ELSE SoFar(job[w], file, db)[l]]
    BY <2>3 DEF SoFar
  <2>5. ASSUME NEW l \in Key PROVE pending'[l] = SoFar(j, file, db)[l]
    BY <1>1, <1>2, <1>5, <1>6, <2>4 DEF SoFar
  <2>6. QED
    BY <2>4, <2>5 DEF SoFar
<1>8. Transacted'
  <2>1. ASSUME NEW v \in Worker, job'[v] # NoJob
        PROVE  /\ job'[v].todo \subseteq Full(job'[v], file)
               /\ w # v => job'[v].todo = Full(job'[v], file)
               /\ w = v /\ ~broke[v] => pending' = SoFar(job'[v], file, db)
    <3>1. CASE v = w
      BY <1>2, <1>4, <1>5, <1>7, <3>1
    <3>2. CASE v # w
      BY <1>1, <1>4, <2>1, <3>2, SharedMemoryAssumption DEF Transacted, MayWrite
    <3>3. QED
      BY <3>1, <3>2
  <2>2. QED
    BY <1>3, <2>1 DEF Transacted
<1>9. UNCHANGED Layer!vars
  BY <1>3 DEF Layer!vars, Today
<1>10. QED
  BY <1>8, <1>9

\* A call that fails, or whose process dies, changes nothing that others see.
LEMMA LeavingChangesNothing ==
    ASSUME LInv, Transacted, NEW w \in Worker, GiveUp(w) \/ Break(w) \/ Close(w)
    PROVE  Transacted' /\ UNCHANGED Layer!vars
<1>1. /\ job' = [job EXCEPT ![w] = NoJob] /\ UNCHANGED <<db, file, observed, wins>>
      /\ \/ holder' = holder /\ pending' = pending
         \/ holder = w /\ holder' = NoWorker
         \/ holder = NoWorker /\ holder' = w
  BY DEF GiveUp, Break, Close, transaction
<1>2. /\ job'[w] = NoJob
      /\ \A v \in Worker \ {w} : job'[v] = job[v] /\ broke'[v] = broke[v]
  BY <1>1 DEF LInv, TypeOK, GiveUp, Break, Close
<1>3. ASSUME NEW v \in Worker, job'[v] # NoJob
      PROVE  /\ job'[v].todo \subseteq Full(job'[v], file)
             /\ holder' # v => job'[v].todo = Full(job'[v], file)
             /\ holder' = v /\ ~broke'[v] => pending' = SoFar(job'[v], file, db)
  <2>1. v # w /\ job'[v] = job[v] /\ broke'[v] = broke[v]
    BY <1>2, <1>3
  <2>2. holder' = v <=> holder = v
    BY <1>1, <2>1, SharedMemoryAssumption
  <2>3. holder = v => pending' = pending
    BY <1>1, <2>1, SharedMemoryAssumption
  <2>4. QED
    BY <1>3, <2>1, <2>2, <2>3 DEF Transacted
<1>4. Transacted'
  BY <1>1, <1>3 DEF Transacted
<1>5. UNCHANGED Layer!vars
  BY <1>1 DEF Layer!vars, Today
<1>6. QED
  BY <1>4, <1>5

LEMMA ExportExports ==
    ASSUME LInv, Transacted, Export
    PROVE  Transacted' /\ Layer!Export("memory.db")
<1>1. UNCHANGED <<db, pending, holder, job, broke, observed, wins>> /\ file' = db
  BY DEF Export, transaction, failures
<1>2. \A w \in Worker : job[w] # NoJob => job[w].kind # "import"
  BY DEF Export, Idle
<1>3. Transacted'
  <2>1. ASSUME NEW v \in Worker, job[v] # NoJob
        PROVE  /\ Full(job[v], file') = Full(job[v], file)
               /\ SoFar(job[v], file', db) = SoFar(job[v], file, db)
    <3>1. job[v].kind \in {"success", "failure"}
      BY <1>2, <2>1, JobFields DEF LInv, TypeOK
    <3>2. Full(job[v], file') = Full(job[v], file)
      BY <3>1 DEF Full
    <3>3. \A k \in Key : Made(job[v], file', k, db[k]) = Made(job[v], file, k, db[k])
      BY <3>1 DEF Made
    <3>4. QED
      BY <3>2, <3>3 DEF SoFar
  <2>2. QED
    BY <1>1, <2>1 DEF Transacted
<1>4. Layer!Export("memory.db")
  BY <1>1 DEF Layer!Export, Today
<1>5. QED
  BY <1>3, <1>4

\* A commit ends its call; without leftovers it makes the whole operation visible.
LEMMA CommitShows ==
    ASSUME LInv, Transacted, NEW w \in Worker, Commit(w)
    PROVE  /\ job[w] \in Job /\ job[w] # NoJob /\ holder = w
           /\ ~broke[w] => db' = [k \in Key |-> IF k \in Full(job[w], file) THEN Made(job[w], file, k, db[k]) ELSE db[k]]
           /\ db' = pending /\ file' = file /\ holder' = NoWorker
           /\ job'[w] = NoJob /\ \A v \in Worker \ {w} : job'[v] = job[v]
<1>1. job[w] \in Job /\ job[w] # NoJob /\ holder = w /\ job[w].todo = {}
  BY DEF Commit, Executed, Idle, Ready, LInv, TypeOK
<1>2. db' = pending /\ file' = file /\ holder' = NoWorker /\ job' = [job EXCEPT ![w] = NoJob]
  BY DEF Commit, Publish
<1>3. ~broke[w] => db' = SoFar(job[w], file, db)
  BY <1>1, <1>2 DEF Transacted
<1>4. job'[w] = NoJob /\ \A v \in Worker \ {w} : job'[v] = job[v]
  BY <1>2 DEF LInv, TypeOK
<1>5. QED
  BY <1>1, <1>2, <1>3, <1>4 DEF SoFar

\* The rows of the instance are the rows here.
LEMMA LayerRows ==
    /\ \A row, p : Layer!SuccessRow(row, p, Today) = SuccessRow(row, p, Today)
    /\ \A row : Layer!FailureRow(row) = FailureRow(row)
    /\ \A old, in : Layer!MergeRow(old, in) = MergeRow(old, in)
<1>1. \A row, p : Layer!SuccessRow(row, p, Today) = SuccessRow(row, p, Today)
  BY DEF Layer!SuccessRow, SuccessRow
<1>2. \A row : Layer!FailureRow(row) = FailureRow(row)
  BY DEF Layer!FailureRow, FailureRow
<1>3. \A old, in : Layer!MergeColumns(old, in) = MergeColumns(old, in)
  BY DEF Layer!MergeColumns, MergeColumns, Layer!Merged, Merged, Layer!Stronger, Stronger,
         Layer!FewerFails, FewerFails
<1>4. \A old, in : Layer!MergeRow(old, in) = MergeRow(old, in)
  BY <1>3 DEF Layer!MergeRow, MergeRow
<1>5. QED
  BY <1>1, <1>2, <1>4

LEMMA CommitImplements ==
    ASSUME LInv, Transacted, NEW w \in Worker, Commit(w), ~broke[w]
    PROVE  Layer!Operation
<1> DEFINE j == job[w]
<1> DEFINE d == "memory.db"
<1>1. /\ j \in Job /\ j # NoJob /\ holder = w /\ file' = file
      /\ db' = [k \in Key |-> IF k \in Full(j, file) THEN Made(j, file, k, db[k]) ELSE db[k]]
  BY CommitShows
<1>2. db \in Table
  BY DEF LInv, TypeOK
<1>3. CASE j.kind = "success"
  <2>1. j.key \in Key /\ j.payload \in Payload
    BY <1>1, <1>3, JobFields
  <2>2. db' = [db EXCEPT ![j.key] = SuccessRow(db[j.key], j.payload, Today)]
    BY <1>1, <1>2, <1>3, <2>1 DEF Full, Made, Table
  <2>3. /\ observed' = observed \union {<<j.key, j.payload, Today>>}
        /\ wins' = [wins EXCEPT ![j.key] = @ + 1]
    BY <1>3 DEF Commit, Publish
  <2>4. Layer!RecordSuccess(d, j.key, j.payload)
    <3>1. UNCHANGED <<file, Today>>
      BY <1>1 DEF Today
    <3>2. [s \in {d} |-> db]' = [[s \in {d} |-> db] EXCEPT ![d][j.key] = SuccessRow(db[j.key], j.payload, Today)]
      BY <2>2
    <3>3. QED
      BY <2>3, <3>1, <3>2, LayerRows DEF Layer!RecordSuccess, Layer!Put
  <2>5. QED
    BY <2>1, <2>4 DEF Layer!Operation
<1>4. CASE j.kind = "failure"
  <2>1. j.key \in Key
    BY <1>1, <1>4, JobFields
  <2>2. db' = [db EXCEPT ![j.key] = FailureRow(db[j.key])]
    BY <1>1, <1>2, <1>4, <2>1 DEF Full, Made, Table
  <2>3. UNCHANGED <<observed, wins>>
    BY <1>4 DEF Commit, Publish
  <2>4. Layer!RecordFailure(d, j.key)
    <3>1. UNCHANGED <<file, Today, observed, wins>>
      BY <1>1, <2>3 DEF Today
    <3>2. [s \in {d} |-> db]' = [[s \in {d} |-> db] EXCEPT ![d][j.key] = FailureRow(db[j.key])]
      BY <2>2
    <3>3. QED
      BY <3>1, <3>2, LayerRows DEF Layer!RecordFailure, Layer!Put
  <2>5. QED
    BY <2>1, <2>4 DEF Layer!Operation
<1>5. CASE j.kind = "import"
  <2>1. file # NoFile
    BY <1>1, <1>5 DEF LInv, ImportsHaveFile, Idle
  <2>2. UNCHANGED <<observed, wins>>
    BY <1>5 DEF Commit, Publish
  <2>3. db' = [k \in Key |-> MergeRow(db[k], file[k])]
    <3>1. ASSUME NEW k \in Key
          PROVE  (IF k \in Full(j, file) THEN Made(j, file, k, db[k]) ELSE db[k]) = MergeRow(db[k], file[k])
      BY <1>5 DEF Full, Made, MergeRow
    <3>2. QED
      BY <1>1, <3>1
  <2>4. Layer!ImportMerge(d)
    <3>1. UNCHANGED <<file, Today, observed, wins>>
      BY <1>1, <2>2 DEF Today
    <3>2. [s \in {d} |-> db]' = [[s \in {d} |-> db] EXCEPT ![d] = [k \in Key |-> MergeRow(db[k], file[k])]]
      BY <2>3
    <3>3. \A k \in Key : Layer!MergeRow(db[k], file[k]) = MergeRow(db[k], file[k])
      BY LayerRows
    <3>4. QED
      BY <2>1, <3>1, <3>2, <3>3 DEF Layer!ImportMerge, Layer!ImportWith
  <2>5. QED
    BY <2>4 DEF Layer!Operation
<1>6. QED
  BY <1>1, <1>3, <1>4, <1>5, JobFields

\* A commit with leftovers loses nothing, and the calls of the others are as far as
\* they were.
LEMMA CommitPublishes ==
    ASSUME LInv, Transacted, NEW w \in Worker, Commit(w)
    PROVE  Transacted' /\ (Layer!Operation \/ Leftovers)
<1>1. /\ holder = w /\ db' = pending /\ file' = file /\ holder' = NoWorker
      /\ job'[w] = NoJob /\ \A v \in Worker \ {w} : job'[v] = job[v]
  BY CommitShows
<1>2. Transacted'
  <2>1. ASSUME NEW v \in Worker, job'[v] # NoJob
        PROVE  /\ job'[v].todo \subseteq Full(job'[v], file)
               /\ job'[v].todo = Full(job'[v], file)
    BY <1>1, <2>1 DEF Transacted
  <2>2. \A v \in Worker : holder' # v
    BY <1>1, SharedMemoryAssumption
  <2>3. QED
    BY <1>1, <2>1, <2>2 DEF Transacted
<1>3. NothingLost
  BY <1>1, SharedMemoryAssumption DEF LInv, Locking, PendingKeeps, NothingLost
<1>4. QED
  BY <1>2, <1>3, CommitImplements DEF Leftovers

-----------------------------------------------------------------------------
LEMMA LayerSteps ==
    ASSUME LInv, Transacted, [Next]_vars
    PROVE  Transacted' /\ [Layer!Operation \/ Leftovers]_(Layer!vars)
<1>1. ASSUME UNCHANGED <<db, pending, holder, job, file, broke, observed, wins>>
      PROVE  Transacted' /\ UNCHANGED Layer!vars
  BY <1>1 DEF Transacted, Layer!vars, Today
<1>2. CASE UNCHANGED vars
  BY <1>1, <1>2 DEF vars
<1>3. ASSUME NEW w \in Worker, NEW k \in Key, (\E p \in Payload : RecordSuccess(w, k, p)) \/ RecordFailure(w, k)
      PROVE  Transacted' /\ UNCHANGED Layer!vars
  BY <1>3, CallsStart
<1>4. ASSUME NEW w \in Worker, NEW k \in Key, Execute(w, k)
      PROVE  Transacted' /\ UNCHANGED Layer!vars
  BY <1>4, ExecuteAdvances
<1>5. ASSUME NEW w \in Worker, Import(w)
      PROVE  Transacted' /\ UNCHANGED Layer!vars
  BY <1>5, CallsStart
<1>6. ASSUME NEW w \in Worker, Commit(w)
      PROVE  Transacted' /\ (Layer!Operation \/ Leftovers)
  BY <1>6, CommitPublishes
<1>7. ASSUME NEW w \in Worker, GiveUp(w) \/ Break(w) \/ Close(w)
      PROVE  Transacted' /\ UNCHANGED Layer!vars
  BY <1>7, LeavingChangesNothing
<1>8. ASSUME NEW w \in Worker, Lookup(w)
      PROVE  Transacted' /\ UNCHANGED Layer!vars
  BY <1>1, <1>8 DEF Lookup, transaction, failures
<1>9. CASE Export
  <2>1. Transacted' /\ Layer!Export("memory.db")
    BY <1>9, ExportExports
  <2>2. QED
    BY <2>1 DEF Layer!Operation
<1>10. QED
  BY <1>2, <1>3, <1>4, <1>5, <1>6, <1>7, <1>8, <1>9 DEF Next

\* ImplementsLayer, for any number of processes, keys and calls: memory.db with all
\* its processes is one MemoryLayer, but for the commits that publish what a failed
\* call has left, which lose nothing (layer.py: execute, then one commit per call).
THEOREM SharedMemoryIsOneLayer == Spec => ImplementsLayer
<1>1. LInv /\ Transacted /\ [Next]_vars => Transacted' /\ [Layer!Operation \/ Leftovers]_(Layer!vars)
  BY LayerSteps
<1>2. Init => Transacted /\ Layer!Init
  BY LayerInitially
<1>3. QED
  BY LockInvariant, <1>1, <1>2, PTL DEF Spec, ImplementsLayer
=============================================================================
