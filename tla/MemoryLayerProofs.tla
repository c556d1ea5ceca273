------------------------- MODULE MemoryLayerProofs -------------------------
(***************************************************************************)
(* MemoryLayer keeps its promises whatever the sites, keys, payloads and   *)
(* bounds are.                                                             *)
(***************************************************************************)
EXTENDS MemoryLayer, TLAPS

-----------------------------------------------------------------------------
\* What each SQL statement can do to a row, for every row.

\* A success always leaves a well-formed row, whatever was there.
LEMMA SuccessRowType ==
    ASSUME NEW row \in MaybeRow, NEW p \in Payload, NEW d \in Nat
    PROVE  SuccessRow(row, p, d) \in Row
  BY DEF SuccessRow, MaybeRow, Row

\* A failure changes only the failure count, and only of a row that exists.
LEMMA FailureRowType ==
    ASSUME NEW row \in MaybeRow
    PROVE  /\ FailureRow(row) \in MaybeRow
           /\ row # NoRow => /\ FailureRow(row) \in Row
                             /\ FailureRow(row).payload = row.payload
                             /\ FailureRow(row).seen = row.seen
                             /\ FailureRow(row).succ = row.succ
                             /\ FailureRow(row).fail = row.fail + 1
           /\ row = NoRow => FailureRow(row) = NoRow
  BY DEF FailureRow, MaybeRow, Row

\* A merged row is one of the two rows, but for its failure count, which is
\* that of one of the two and no larger than either.
LEMMA MergeColumnsPicks ==
    ASSUME NEW old \in Row, NEW in \in Row
    PROVE  LET m == MergeColumns(old, in) IN
           /\ m \in Row
           /\ \E src \in {old, in} : /\ m.payload = src.payload
                                     /\ m.seen = src.seen
                                     /\ m.succ = src.succ
           /\ m.succ >= old.succ
           /\ m.fail \in {old.fail, in.fail}
           /\ m.fail <= old.fail
           /\ m.fail <= in.fail
<1>1. CASE in.succ > old.succ
  BY <1>1 DEF MergeColumns, Merged, Stronger, FewerFails, Row
<1>2. CASE ~(in.succ > old.succ)
  BY <1>2 DEF MergeColumns, Merged, Stronger, FewerFails, Row
<1>3. QED
  BY <1>1, <1>2

\* Merging never makes a row of nothing, and keeps rows rows.
LEMMA MergeRowType ==
    ASSUME NEW old \in MaybeRow, NEW in \in MaybeRow
    PROVE  /\ MergeRow(old, in) \in MaybeRow
           /\ MergeRow(old, in) = NoRow <=> old = NoRow /\ in = NoRow
<1>1. CASE in = NoRow
  BY <1>1 DEF MergeRow
<1>2. CASE in # NoRow /\ old = NoRow
  BY <1>2 DEF MergeRow
<1>3. CASE in # NoRow /\ old # NoRow
  <2>1. old \in Row /\ in \in Row
    BY <1>3 DEF MaybeRow
  <2>2. MergeRow(old, in) = MergeColumns(old, in)
    BY <1>3 DEF MergeRow
  <2>3. QED
    BY <1>3, <2>1, <2>2, MergeColumnsPicks, CacheRowAssumption DEF MaybeRow
<1>4. QED
  BY <1>1, <1>2, <1>3

\* Merging the same row again changes nothing: importing a file twice is
\* importing it once.
LEMMA MergeIdempotent ==
    ASSUME NEW old \in MaybeRow, NEW in \in MaybeRow
    PROVE  MergeRow(MergeRow(old, in), in) = MergeRow(old, in)
<1>1. CASE in = NoRow
  BY <1>1 DEF MergeRow
<1>2. CASE in # NoRow /\ old = NoRow
  BY <1>2 DEF MergeRow, MergeColumns, Merged, Stronger, FewerFails, MaybeRow, Row
<1>3. CASE in # NoRow /\ old # NoRow
  <2>1. old \in Row /\ in \in Row
    BY <1>3 DEF MaybeRow
  <2> DEFINE m == MergeColumns(old, in)
  <2>2. m \in Row /\ m # NoRow
    BY <2>1, MergeColumnsPicks, CacheRowAssumption
  <2>3. MergeColumns(m, in) = m
    <3>1. CASE in.succ > old.succ
      BY <2>1, <3>1 DEF MergeColumns, Merged, Stronger, FewerFails, Row
    <3>2. CASE ~(in.succ > old.succ)
      BY <2>1, <3>2 DEF MergeColumns, Merged, Stronger, FewerFails, Row
    <3>3. QED
      BY <3>1, <3>2
  <2>4. QED
    BY <1>3, <2>2, <2>3 DEF MergeRow
<1>4. QED
  BY <1>1, <1>2, <1>3

-----------------------------------------------------------------------------
\* Tables.

\* An import changes the importing site's table only, and leaves it a table.
LEMMA ImportType ==
    ASSUME TypeOK, NEW s \in Site, ImportMerge(s) \/ ImportReplace(s)
    PROVE  /\ file # NoFile /\ file \in Table
           /\ store' \in [Site -> Table]
           /\ UNCHANGED <<file, now, observed, wins>>
<1>1. file # NoFile /\ file \in Table /\ UNCHANGED <<file, now, observed, wins>>
  BY DEF TypeOK, ImportMerge, ImportReplace, ImportWith
<1>2. CASE ImportMerge(s)
  <2>1. \A k \in Key : MergeRow(store[s][k], file[k]) \in MaybeRow
    BY <1>1, MergeRowType DEF TypeOK, Table
  <2>2. QED
    BY <1>1, <1>2, <2>1 DEF ImportMerge, ImportWith, TypeOK, Table
<1>3. CASE ImportReplace(s)
  <2>1. \A k \in Key : ReplaceRow(store[s][k], file[k]) \in MaybeRow
    BY <1>1 DEF TypeOK, Table, ReplaceRow
  <2>2. QED
    BY <1>1, <1>3, <2>1 DEF ImportReplace, ImportWith, TypeOK, Table
<1>4. QED
  BY <1>1, <1>2, <1>3

\* What an import does to one row.
LEMMA ImportedRow ==
    ASSUME TypeOK, NEW s \in Site, ImportMerge(s) \/ ImportReplace(s),
           NEW t \in Site, NEW k \in Key
    PROVE  /\ t # s => store'[t][k] = store[t][k]
           /\ t = s => \/ store'[t][k] = MergeRow(store[t][k], file[k])
                       \/ store'[t][k] = ReplaceRow(store[t][k], file[k])
<1>1. CASE ImportMerge(s)
  BY <1>1 DEF ImportMerge, ImportWith, TypeOK, Table
<1>2. CASE ImportReplace(s)
  BY <1>2 DEF ImportReplace, ImportWith, TypeOK, Table
<1>3. QED
  BY <1>1, <1>2

\* TypeOK: the tables hold only well-formed rows.
THEOREM TypeCorrect == Spec => []TypeOK
<1>1. Init => TypeOK
  BY DEF Init, TypeOK, EmptyTable, Table, MaybeRow
<1>2. TypeOK /\ [Next]_vars => TypeOK'
  <2> SUFFICES ASSUME TypeOK, [Next]_vars PROVE TypeOK'
    OBVIOUS
  <2>1. ASSUME NEW s \in Site, NEW k \in Key, NEW p \in Payload, RecordSuccess(s, k, p)
        PROVE  TypeOK'
    <3>1. SuccessRow(store[s][k], p, now) \in MaybeRow
      BY <2>1, SuccessRowType DEF TypeOK, Table, MaybeRow
    <3>2. QED
      BY <2>1, <3>1 DEF RecordSuccess, Put, TypeOK, Table
  <2>2. ASSUME NEW s \in Site, NEW k \in Key, RecordFailure(s, k)
        PROVE  TypeOK'
    <3>1. FailureRow(store[s][k]) \in MaybeRow
      BY <2>2, FailureRowType DEF TypeOK, Table
    <3>2. QED
      BY <2>2, <3>1 DEF RecordFailure, Put, TypeOK, Table
  <2>3. ASSUME NEW s \in Site, Export(s)
        PROVE  TypeOK'
    BY <2>3 DEF Export, TypeOK
  <2>4. ASSUME NEW s \in Site, ImportMerge(s) \/ ImportReplace(s)
        PROVE  TypeOK'
    BY <2>4, ImportType DEF TypeOK
  <2>5. CASE Tick
    BY <2>5 DEF Tick, TypeOK
  <2>6. CASE UNCHANGED vars
    BY <2>6 DEF vars, TypeOK
  <2>7. QED
    BY <2>1, <2>2, <2>3, <2>4, <2>5, <2>6 DEF Next
<1>3. QED
  BY <1>1, <1>2, PTL DEF Spec

-----------------------------------------------------------------------------
\* What every row of every table satisfies survives an import when merging and
\* replacing preserve it.  Good is Provenance or CountsNotInflated of one row.

\* Provenance: a merge never dates one entry's locator with another's success.
ProvenanceOf(k, row) == row # NoRow => <<k, row.payload, row.seen>> \in observed

\* CountsNotInflated, of one row.
CountOf(k, row) == row # NoRow => row.succ <= wins[k]

RowsGood ==
    /\ \A s \in Site, k \in Key : ProvenanceOf(k, store[s][k]) /\ CountOf(k, store[s][k])
    /\ file # NoFile => \A k \in Key : ProvenanceOf(k, file[k]) /\ CountOf(k, file[k])

\* RowsGood says what the two invariants say, row by row.
LEMMA RowsGoodIsBoth == RowsGood <=> Provenance /\ CountsNotInflated
  BY DEF RowsGood, ProvenanceOf, CountOf, Provenance, CountsNotInflated, Tables

\* Merging or replacing good rows of a key leaves a good row of that key.
LEMMA CombineGood ==
    ASSUME NEW k \in Key, NEW old \in MaybeRow, NEW in \in MaybeRow,
           ProvenanceOf(k, old), CountOf(k, old), ProvenanceOf(k, in), CountOf(k, in),
           NEW m, m = MergeRow(old, in) \/ m = ReplaceRow(old, in)
    PROVE  ProvenanceOf(k, m) /\ CountOf(k, m)
<1>1. CASE m = MergeRow(old, in) /\ in # NoRow /\ old # NoRow
  <2>1. old \in Row /\ in \in Row /\ m = MergeColumns(old, in)
    BY <1>1 DEF MaybeRow, MergeRow
  <2>2. PICK src \in {old, in} : m.payload = src.payload /\ m.seen = src.seen /\ m.succ = src.succ
    BY <2>1, MergeColumnsPicks
  <2>3. QED
    BY <1>1, <2>2 DEF ProvenanceOf, CountOf
<1>2. CASE ~(m = MergeRow(old, in) /\ in # NoRow /\ old # NoRow)
  <2>1. m = old \/ m = in
    BY <1>2 DEF MergeRow, ReplaceRow
  <2>2. QED
    BY <2>1
<1>3. QED
  BY <1>1, <1>2

\* Every row of every table is good, in every reachable state.
LEMMA RowsStayGood == Spec => []RowsGood
<1>1. Init => RowsGood
  BY DEF Init, EmptyTable, RowsGood, ProvenanceOf, CountOf
<1>2. TypeOK /\ TypeOK' /\ RowsGood /\ [Next]_vars => RowsGood'
  <2> SUFFICES ASSUME TypeOK, TypeOK', RowsGood, [Next]_vars PROVE RowsGood'
    OBVIOUS
  <2>1. ASSUME NEW s \in Site, NEW k \in Key, NEW p \in Payload, RecordSuccess(s, k, p)
        PROVE  RowsGood'
    <3> DEFINE new == SuccessRow(store[s][k], p, now)
    <3>1. new # NoRow /\ new.payload = p /\ new.seen = now
      BY <2>1, SuccessRowType, CacheRowAssumption DEF TypeOK, Table, SuccessRow
    <3>2. new.succ <= wins[k] + 1
      <4>1. CASE store[s][k] = NoRow
        BY <4>1 DEF SuccessRow, TypeOK
      <4>2. CASE store[s][k] # NoRow
        <5>1. store[s][k] \in Row /\ wins[k] \in Nat /\ store[s][k].succ <= wins[k]
          BY <4>2 DEF TypeOK, Table, MaybeRow, RowsGood, CountOf
        <5>2. QED
          BY <4>2, <5>1 DEF SuccessRow, Row
      <4>3. QED
        BY <4>1, <4>2
    <3>3. /\ observed' = observed \union {<<k, p, now>>}
          /\ wins' = [wins EXCEPT ![k] = @ + 1]
          /\ UNCHANGED <<file, now>>
          /\ store' = [store EXCEPT ![s][k] = new]
      BY <2>1 DEF RecordSuccess, Put
    <3>4. \A j \in Key : wins[j] \in Nat /\ wins'[j] >= wins[j] /\ wins'[k] = wins[k] + 1
      BY <3>3 DEF TypeOK
    <3>5. \A j \in Key, row \in MaybeRow :
             ProvenanceOf(j, row) /\ CountOf(j, row) => ProvenanceOf(j, row)' /\ CountOf(j, row)'
      <4> SUFFICES ASSUME NEW j \in Key, NEW row \in MaybeRow, ProvenanceOf(j, row), CountOf(j, row),
                          row # NoRow
                   PROVE  <<j, row.payload, row.seen>> \in observed' /\ row.succ <= wins'[j]
        BY DEF ProvenanceOf, CountOf
      <4>1. row \in Row /\ row.succ <= wins[j]
        BY DEF MaybeRow, CountOf
      <4>2. QED
        BY <3>3, <3>4, <4>1 DEF ProvenanceOf, Row
    <3>6. \A t \in Site, j \in Key : ProvenanceOf(j, store[t][j])' /\ CountOf(j, store[t][j])'
      <4> TAKE t \in Site, j \in Key
      <4>1. CASE t = s /\ j = k
        <5>1. store'[t][j] = new
          BY <3>3, <4>1 DEF TypeOK, Table
        <5>2. QED
          BY <3>1, <3>2, <3>3, <3>4, <4>1, <5>1 DEF ProvenanceOf, CountOf
      <4>2. CASE ~(t = s /\ j = k)
        <5>1. store'[t][j] = store[t][j] /\ store[t][j] \in MaybeRow
          BY <3>3, <4>2 DEF TypeOK, Table
        <5>2. ProvenanceOf(j, store[t][j]) /\ CountOf(j, store[t][j])
          BY DEF RowsGood
        <5>3. QED
          BY <3>5, <5>1, <5>2 DEF ProvenanceOf, CountOf
      <4>3. QED
        BY <4>1, <4>2
    <3>7. file' # NoFile => \A j \in Key : ProvenanceOf(j, file[j])' /\ CountOf(j, file[j])'
      <4> SUFFICES ASSUME file # NoFile, NEW j \in Key
                   PROVE  ProvenanceOf(j, file[j])' /\ CountOf(j, file[j])'
        BY <3>3
      <4>1. file[j] \in MaybeRow /\ ProvenanceOf(j, file[j]) /\ CountOf(j, file[j])
        BY DEF TypeOK, Table, RowsGood
      <4>2. QED
        BY <3>3, <3>5, <4>1 DEF ProvenanceOf, CountOf
    <3>8. QED
      BY <3>6, <3>7 DEF RowsGood
  <2>2. ASSUME NEW s \in Site, NEW k \in Key, RecordFailure(s, k)
        PROVE  RowsGood'
    <3>1. \A t \in Site, j \in Key :
             \/ store'[t][j] = store[t][j]
             \/ store[t][j] # NoRow /\ store'[t][j] = FailureRow(store[t][j])
      BY <2>2, FailureRowType DEF RecordFailure, Put, TypeOK, Table
    <3>2. UNCHANGED <<file, observed, wins>>
      BY <2>2 DEF RecordFailure
    <3>3. \A t \in Site, j \in Key : ProvenanceOf(j, store[t][j])' /\ CountOf(j, store[t][j])'
      BY <3>1, <3>2, FailureRowType DEF RowsGood, ProvenanceOf, CountOf, TypeOK, Table
    <3>4. QED
      BY <3>2, <3>3 DEF RowsGood, ProvenanceOf, CountOf
  <2>3. ASSUME NEW s \in Site, Export(s)
        PROVE  RowsGood'
    BY <2>3 DEF Export, RowsGood, ProvenanceOf, CountOf
  <2>4. ASSUME NEW s \in Site, ImportMerge(s) \/ ImportReplace(s)
        PROVE  RowsGood'
    <3>1. file # NoFile /\ UNCHANGED <<file, observed, wins>>
      BY <2>4 DEF ImportMerge, ImportReplace, ImportWith
    <3>2. ASSUME NEW t \in Site, NEW j \in Key
          PROVE  ProvenanceOf(j, store'[t][j]) /\ CountOf(j, store'[t][j])
      <4>1. /\ store[t][j] \in MaybeRow /\ file[j] \in MaybeRow
            /\ ProvenanceOf(j, store[t][j]) /\ CountOf(j, store[t][j])
            /\ ProvenanceOf(j, file[j]) /\ CountOf(j, file[j])
        BY <2>4, <3>1, ImportedRow DEF RowsGood, TypeOK, Table
      <4>2. CASE t = s
        BY <2>4, <4>1, <4>2, ImportedRow, CombineGood
      <4>3. CASE t # s
        BY <2>4, <4>1, <4>3, ImportedRow
      <4>4. QED
        BY <4>2, <4>3
    <3>3. QED
      BY <3>1, <3>2 DEF RowsGood, ProvenanceOf, CountOf
  <2>5. CASE Tick
    BY <2>5 DEF Tick, RowsGood, ProvenanceOf, CountOf
  <2>6. CASE UNCHANGED vars
    BY <2>6 DEF vars, RowsGood, ProvenanceOf, CountOf
  <2>7. QED
    BY <2>1, <2>2, <2>3, <2>4, <2>5, <2>6 DEF Next
<1>3. QED
  BY <1>1, <1>2, TypeCorrect, PTL DEF Spec

\* Provenance: however rows travel between databases and the file (export,
\* import_from), each pairs a locator with a day on which it succeeded.
THEOREM RowsTraceToSuccesses == Spec => []Provenance
  BY RowsStayGood, RowsGoodIsBoth, PTL

\* CountsNotInflated: importing, also a file that came from here, never counts
\* a success twice (the MAX of success_count in import_from).
THEOREM SuccessesCountedOnce == Spec => []CountsNotInflated
  BY RowsStayGood, RowsGoodIsBoth, PTL

-----------------------------------------------------------------------------
\* RevivedOnlyByEvidence, for every database, key, clock and bound: an entry
\* that is too old or failed out comes back only with a success of today, or
\* with an imported row that passes the check the entry failed.
THEOREM RevivalNeedsEvidence == Spec => RevivedOnlyByEvidence
<1> DEFINE Justified(s, k) ==
        Revived(s, k) => \/ store'[s][k].seen = now /\ store'[s][k].succ > store[s][k].succ
                         \/ FileClears(s, k)
<1>1. TypeOK /\ [Next]_vars => \A s \in Site, k \in Key : Justified(s, k)
  <2> SUFFICES ASSUME TypeOK, [Next]_vars, NEW t \in Site, NEW j \in Key, Revived(t, j)
               PROVE  \/ store'[t][j].seen = now /\ store'[t][j].succ > store[t][j].succ
                      \/ FileClears(t, j)
    OBVIOUS
  <2>1. store[t][j] \in Row /\ now \in Nat /\ now' \in {now, now + 1}
    <3>1. now' \in {now, now + 1}
      BY DEF Next, vars, Tick, RecordSuccess, RecordFailure, Export,
             ImportMerge, ImportReplace, ImportWith
    <3>2. QED
      BY <3>1 DEF Revived, TypeOK, Table, MaybeRow
  <2>2. store'[t][j] # store[t][j]
    <3>1. ASSUME store'[t][j] = store[t][j] PROVE FALSE
      <4>1. ~Expired(store[t][j], now') => ~Expired(store[t][j], now)
        BY <2>1, CacheRowAssumption DEF Expired, Row
      <4>2. QED
        BY <3>1, <4>1 DEF Revived, Replayable
    <3>2. QED
      BY <3>1
  <2>3. now' = now
    BY <2>2 DEF Next, vars, Tick, RecordSuccess, RecordFailure, Export,
                ImportMerge, ImportReplace, ImportWith
  <2>4. store[t][j] \in Row /\ store'[t][j] # store[t][j] /\ now' = now
    BY <2>1, <2>2, <2>3
  <2>5. ASSUME NEW s \in Site, NEW k \in Key, NEW p \in Payload, RecordSuccess(s, k, p)
        PROVE  store'[t][j].seen = now /\ store'[t][j].succ > store[t][j].succ
    <3>1. store' = [store EXCEPT ![s][k] = SuccessRow(store[s][k], p, now)]
      BY <2>5 DEF RecordSuccess, Put
    <3>2. t = s /\ j = k
      BY <2>4, <3>1 DEF TypeOK, Table
    <3>3. store'[t][j] = SuccessRow(store[t][j], p, now)
      BY <3>1, <3>2 DEF TypeOK, Table
    <3>4. QED
      BY <2>4, <3>3 DEF SuccessRow, Row, Revived
  <2>6. ASSUME NEW s \in Site, NEW k \in Key, RecordFailure(s, k)
        PROVE  FALSE
    <3>1. store' = [store EXCEPT ![s][k] = FailureRow(store[s][k])] /\ now' = now
      BY <2>6 DEF RecordFailure, Put
    <3>2. store'[t][j] = FailureRow(store[t][j])
      BY <2>4, <3>1 DEF TypeOK, Table
    <3>3. store'[t][j].seen = store[t][j].seen /\ store'[t][j].fail = store[t][j].fail + 1
      BY <2>4, <3>2, FailureRowType, CacheRowAssumption DEF MaybeRow
    <3>4. QED
      BY <2>4, <3>1, <3>3, CacheRowAssumption
         DEF Revived, Replayable, Expired, FailedOut, Row
  <2>7. ASSUME NEW s \in Site, Export(s)
        PROVE  FALSE
    BY <2>4, <2>7 DEF Export
  <2>8. ASSUME NEW s \in Site, ImportMerge(s) \/ ImportReplace(s)
        PROVE  FileClears(t, j)
    <3>1. file # NoFile /\ file[j] \in MaybeRow /\ now' = now
      BY <2>8, ImportType DEF Table
    <3>2. \/ store'[t][j] = MergeRow(store[t][j], file[j])
          \/ store'[t][j] = ReplaceRow(store[t][j], file[j])
      BY <2>4, <2>8, ImportedRow
    <3>3. store[t][j] # NoRow /\ file[j] # NoRow
      BY <2>4, <3>2 DEF MergeRow, ReplaceRow, Revived
    <3>4. /\ ~Expired(store'[t][j], now) /\ ~FailedOut(store'[t][j])
          /\ file[j] \in Row
      BY <3>1, <3>3 DEF Revived, Replayable, MaybeRow
    <3>5. CASE store'[t][j] = ReplaceRow(store[t][j], file[j])
      BY <3>1, <3>3, <3>4, <3>5 DEF ReplaceRow, FileClears
    <3>6. CASE store'[t][j] = MergeRow(store[t][j], file[j])
      <4>1. store'[t][j] = MergeColumns(store[t][j], file[j])
        BY <3>3, <3>6 DEF MergeRow
      <4>2. /\ \/ store'[t][j].seen = store[t][j].seen
               \/ store'[t][j].seen = file[j].seen
            /\ store'[t][j].fail \in {store[t][j].fail, file[j].fail}
        BY <2>4, <3>4, <4>1, MergeColumnsPicks
      <4>3. QED
        BY <3>1, <3>3, <3>4, <4>2 DEF FileClears, Expired, FailedOut
    <3>7. QED
      BY <3>2, <3>5, <3>6
  <2>9. QED
    BY <2>4, <2>5, <2>6, <2>7, <2>8 DEF Next, Tick, vars
<1>2. QED
  BY <1>1, TypeCorrect, PTL DEF Spec, RevivedOnlyByEvidence
=============================================================================
