------------------------------ MODULE CacheRow ------------------------------
(***************************************************************************)
(* The rows of the table bubblegum_memory (core/memory/layer.py) and what  *)
(* each SQL statement of MemoryLayer makes of one row.                     *)
(*                                                                         *)
(* The columns ref, confidence, resolver_name and metadata_json are always *)
(* written together, so they are one payload.  last_success is counted in  *)
(* days, the unit of ttl_days.                                             *)
(***************************************************************************)
EXTENDS Integers

CONSTANTS
    Payload,      \* what a resolution recorded: ref, confidence, resolver, metadata
    NoRow,        \* the key is not in the table
    TTLDays,      \* lookup's ttl_days
    MaxFailures   \* lookup's max_failures

Row == [payload : Payload, seen : Nat, succ : Nat \ {0}, fail : Nat]

ASSUME CacheRowAssumption ==
    /\ TTLDays \in Nat
    /\ MaxFailures \in Nat
    /\ NoRow \notin Row

MaybeRow == Row \union {NoRow}

\* A mistake of the INSERT: counting starts at the first conflict.
SuccessRowCountsFromZero(row, p, now) ==
    [ payload |-> p,
      seen    |-> now,
      succ    |-> IF row = NoRow THEN 0 ELSE row.succ + 1,
      fail    |-> 0 ]

\* record_success: INSERT ... ON CONFLICT DO UPDATE.
SuccessRow(row, p, now) ==
    [ payload |-> p,
      seen    |-> now,
      succ    |-> IF row = NoRow THEN 1 ELSE row.succ + 1,
      fail    |-> 0 ]

\* record_failure: an UPDATE, which touches nothing when the key is absent.
FailureRow(row) ==
    IF row = NoRow THEN NoRow ELSE [row EXCEPT !.fail = @ + 1]

\* import_from, merge = True: every column but failure_count is the incoming
\* one exactly when that row has strictly more successes (success_count itself
\* by MAX, which says the same); failure_count is the MIN of the two.
Stronger(old, in) == IF in.succ > old.succ THEN in ELSE old
FewerFails(old, in) == IF in.fail < old.fail THEN in.fail ELSE old.fail

Merged(old, in, seen, succ, fail) ==
    [payload |-> Stronger(old, in).payload, seen |-> seen, succ |-> succ, fail |-> fail]

\* Mistakes this statement invites, one per column.
MergeLatestDate(old, in) ==
    Merged(old, in, IF in.seen > old.seen THEN in.seen ELSE old.seen,
           Stronger(old, in).succ, FewerFails(old, in))
MergeAddsCounts(old, in) ==
    Merged(old, in, Stronger(old, in).seen, old.succ + in.succ, FewerFails(old, in))
MergeForgetsFailures(old, in) ==
    Merged(old, in, Stronger(old, in).seen, Stronger(old, in).succ, 0)

MergeColumns(old, in) ==
    Merged(old, in, Stronger(old, in).seen, Stronger(old, in).succ, FewerFails(old, in))

MergeRow(old, in) ==
    CASE in = NoRow  -> old
      [] old = NoRow -> in
      [] OTHER       -> MergeColumns(old, in)

\* import_from, merge = False: INSERT OR REPLACE.
ReplaceRow(old, in) == IF in = NoRow THEN old ELSE in

\* The two staleness checks of lookup.
Expired(row, now)   == now - row.seen > TTLDays
FailedOut(row)      == row.fail >= MaxFailures
Replayable(row, now) ==
    /\ row # NoRow
    /\ ~Expired(row, now)
    /\ ~FailedOut(row)
=============================================================================
