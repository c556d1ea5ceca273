---------------------------- MODULE MemoryLayer ----------------------------
(***************************************************************************)
(* core/memory/layer.py as its callers see it: databases that each record  *)
(* successes and failures of cached resolutions, and exchange them through *)
(* one exported file (docs/ci.md).  Every public operation is one atomic   *)
(* step here; SharedMemory shows that several processes on one SQLite file *)
(* implement it.                                                           *)
(*                                                                         *)
(* `observed' and `wins' are history variables: no code keeps them.        *)
(***************************************************************************)
EXTENDS CacheRow

CONSTANTS
    Site,      \* the databases: a developer's, a CI runner's
    Key,       \* (screen_sig, step_hash)
    NoFile,    \* nothing exported yet
    MaxDay,    \* bound: days the clock may reach
    MaxWins,   \* bound: successes recorded for one key
    MaxFails   \* bound: failures in a row of one row

Table == [Key -> MaybeRow]

ASSUME MemoryLayerAssumption ==
    /\ NoFile \notin Table
    /\ MaxDay \in Nat
    /\ MaxWins \in Nat
    /\ MaxFails \in Nat

VARIABLES
    store,     \* each site's table
    file,      \* the exported cache file
    now,       \* today
    observed,  \* history: the (key, payload, day) of every success recorded
    wins       \* history: successes ever recorded for a key, over all sites

vars == <<store, file, now, observed, wins>>

TypeOK ==
    /\ store \in [Site -> Table]
    /\ file \in Table \union {NoFile}
    /\ now \in Nat
    /\ observed \subseteq Key \X Payload \X Nat
    /\ wins \in [Key -> Nat]

EmptyTable == [k \in Key |-> NoRow]

Init ==
    /\ store = [s \in Site |-> EmptyTable]
    /\ file = NoFile
    /\ now = 0
    /\ observed = {}
    /\ wins = [k \in Key |-> 0]

Put(s, k, row) == store' = [store EXCEPT ![s][k] = row]

RecordSuccess(s, k, p) ==
    /\ Put(s, k, SuccessRow(store[s][k], p, now))
    /\ observed' = observed \union {<<k, p, now>>}
    /\ wins' = [wins EXCEPT ![k] = @ + 1]
    /\ UNCHANGED <<file, now>>

RecordFailure(s, k) ==
    /\ Put(s, k, FailureRow(store[s][k]))
    /\ UNCHANGED <<file, now, observed, wins>>

Export(s) ==
    /\ file' = store[s]
    /\ UNCHANGED <<store, now, observed, wins>>

ImportWith(s, Combine(_, _)) ==
    /\ file # NoFile
    /\ store' = [store EXCEPT ![s] = [k \in Key |-> Combine(@[k], file[k])]]
    /\ UNCHANGED <<file, now, observed, wins>>

ImportMerge(s)   == ImportWith(s, MergeRow)
ImportReplace(s) == ImportWith(s, ReplaceRow)

Tick ==
    /\ now' = now + 1
    /\ UNCHANGED <<store, file, observed, wins>>

Operation ==
    \/ \E s \in Site, k \in Key, p \in Payload : RecordSuccess(s, k, p)
    \/ \E s \in Site, k \in Key : RecordFailure(s, k)
    \/ \E s \in Site : Export(s) \/ ImportMerge(s) \/ ImportReplace(s)
    \/ Tick

\* The operations within the bounds.
Next ==
    \/ \E s \in Site, k \in Key, p \in Payload : wins[k] < MaxWins /\ RecordSuccess(s, k, p)
    \/ \E s \in Site, k \in Key :
          (store[s][k] # NoRow => store[s][k].fail < MaxFails) /\ RecordFailure(s, k)
    \/ \E s \in Site : Export(s) \/ ImportMerge(s) \/ ImportReplace(s)
    \/ now < MaxDay /\ Tick

Spec == Init /\ [][Next]_vars

-----------------------------------------------------------------------------
\* The tables there are: the sites' and, once exported, the file's.
Tables == {store[s] : s \in Site} \union ({file} \ {NoFile})

\* A row, however often it was exported, merged or replaced, pairs a payload
\* with a day on which exactly that payload succeeded for that key: the merge
\* never dates one entry's locator with the other entry's success.
Provenance ==
    \A t \in Tables, k \in Key :
        t[k] # NoRow => <<k, t[k].payload, t[k].seen>> \in observed

\* Importing, twice or from a file that came from here, never counts a success
\* again: no row claims more successes than were ever recorded for its key.
\* (success_count decides who wins a merge, so inflation would spread.)
CountsNotInflated ==
    \A t \in Tables, k \in Key : t[k] # NoRow => t[k].succ <= wins[k]

\* What brings a row that lookup refuses back: the step succeeding today, or an
\* import of a row that does not fail the same staleness check.
Revived(s, k) ==
    /\ store[s][k] # NoRow
    /\ ~Replayable(store[s][k], now)
    /\ Replayable(store'[s][k], now')

FileClears(s, k) ==
    /\ file # NoFile
    /\ file[k] # NoRow
    /\ Expired(store[s][k], now) => ~Expired(file[k], now)
    /\ FailedOut(store[s][k]) => ~FailedOut(file[k])

\* An entry that is too old or failed out returns only on fresh evidence.
RevivedOnlyByEvidence ==
    [][\A s \in Site, k \in Key :
          Revived(s, k) =>
              \/ store'[s][k].seen = now /\ store'[s][k].succ > store[s][k].succ
              \/ FileClears(s, k)]_vars
=============================================================================
