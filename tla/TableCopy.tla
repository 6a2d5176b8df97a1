------------------------------ MODULE TableCopy ------------------------------
(***************************************************************************)
(* Moving a table from MySQL to PostgreSQL (tools/migrate/copy.mjs): a     *)
(* full copy by pages while the source is still written to, then deltas of *)
(* what has changed since, and the sequence set to the largest id.  Only a *)
(* delta of a table with updated_at overwrites rows, and only it runs in   *)
(* one transaction.                                                        *)
(*                                                                         *)
(* Rows are never removed, only marked: a row is when it was added, when   *)
(* it was last changed and which change that was.  Conversions keep what   *)
(* they convert.                                                           *)
(***************************************************************************)
EXTENDS Integers, FiniteSets, FiniteSetsExt

CONSTANTS
    Ids,            \* primary keys, numbers
    BatchSize,      \* BATCH
    MaxTime,        \* bound: time
    MaxChanges,     \* bound: changes of the source
    MaxRuns,        \* bound: runs
    None

VARIABLES
    kind,           \* "dated": updated_at and one key column; "plain": no
                    \* updated_at; "pairs": no updated_at, a composite key;
                    \* None before it is known
    source,         \* by id: the row, or None
    target,         \* the same, of the copy
    sequence,       \* of the copy's ids
    now,            \* time
    changes,        \* changes of the source so far
    run,            \* the run under way, or None
    runs,           \* runs begun
    first,          \* when the first run began, or None
    covered         \* every change before this time is in the copy, or None

copyVars == <<kind, source, target, sequence, now, changes, run, runs, first, covered>>

Row == [added: 0..MaxTime, at: 0..MaxTime, change: 1..MaxChanges]
Table == [Ids -> Row \cup {None}]
Run == [mode: {"full", "delta"}, since: 0..MaxTime, start: 0..MaxTime,
        lastSeen: Ids \cup {0}, offset: 0..Cardinality(Ids), rows: Table]

\* Every variable has its type.
TypeOK ==
    /\ kind \in {"dated", "plain", "pairs", None}
    /\ source \in Table /\ target \in Table
    /\ sequence \in Ids \cup {0}
    /\ now \in 0..MaxTime /\ changes \in 0..MaxChanges /\ runs \in 0..MaxRuns
    /\ run \in Run \cup {None}
    /\ {first, covered} \subseteq 0..MaxTime \cup {None}

-----------------------------------------------------------------------------
Held(table) == {i \in Ids : table[i] # None}
Dated == kind = "dated"                       \* meta.hasUpdatedAt
UseKeyset == kind # "pairs"
Upserts(r) == Dated /\ r.mode = "delta"       \* also: in one transaction

\* Variant: the rows of the very moment are left out.
ChangedAfter(r) == {i \in Held(source) : Upserts(r) => source[i].at > r.since}

\* WHERE updated_at >= since, for a delta of a table that has it.
Changed(r) == {i \in Held(source) : Upserts(r) => source[i].at >= r.since}

\* How many ids come before it.
Rank(i, ids) == Cardinality({j \in ids : j < i})

\* Up to n ids in order, after the first skip.
Slice(ids, skip, n) == {i \in ids : skip <= Rank(i, ids) /\ Rank(i, ids) < skip + n}

\* The next rows in key order, past the last one seen or past the count read.
Page(r) ==
    IF UseKeyset THEN Slice({i \in Changed(r) : i > r.lastSeen}, 0, BatchSize)
                 ELSE Slice(Changed(r), r.offset, BatchSize)

\* ON CONFLICT DO UPDATE or DO NOTHING.
Inserted(r, page) ==
    [i \in Ids |-> IF i \in page /\ (Upserts(r) \/ r.rows[i] = None)
                   THEN source[i] ELSE r.rows[i]]

-----------------------------------------------------------------------------
Init ==
    /\ kind = None
    /\ source = [i \in Ids |-> None] /\ target = source
    /\ sequence = 0 /\ now = 0 /\ changes = 0 /\ run = None /\ runs = 0
    /\ first = None /\ covered = None

\* describeTable: what PostgreSQL says of the table's columns and primary key.
Describe(k) ==
    /\ kind = None
    /\ kind' = k
    /\ UNCHANGED <<source, target, sequence, now, changes, run, runs, first, covered>>

\* The old server adds or changes a row (marking one deleted is a change).
\* Time need not have passed since the last change.
SourceChange(i) ==
    /\ kind # None /\ changes < MaxChanges
    /\ changes' = changes + 1
    /\ source' = [source EXCEPT ![i] =
            [added |-> IF @ = None THEN now ELSE @.added, at |-> now, change |-> changes']]
    /\ UNCHANGED <<kind, target, sequence, now, run, runs, first, covered>>

TimePasses ==
    /\ kind # None /\ now < MaxTime
    /\ now' = now + 1
    /\ UNCHANGED <<kind, source, target, sequence, changes, run, runs, first, covered>>

\* copyTable begins; a delta may be told any time.
BeginCopy(mode, since) ==
    /\ kind # None /\ run = None /\ runs < MaxRuns
    /\ mode = "full" => since = 0
    /\ run' = [mode |-> mode, since |-> since, start |-> now,
               lastSeen |-> 0, offset |-> 0, rows |-> target]
    /\ runs' = runs + 1
    /\ first' = IF first = None THEN now ELSE first
    /\ UNCHANGED <<kind, source, target, sequence, now, changes, covered>>

\* One page, read and written; outside a transaction it is there to stay.
CopyPage ==
    LET page == Page(run)
    IN  /\ run # None /\ page # {}
        /\ run' = [run EXCEPT !.rows = Inserted(run, page),
                              !.lastSeen = Max(page),
                              !.offset = @ + Cardinality(page)]
        /\ target' = IF Upserts(run) THEN target ELSE run'.rows
        /\ UNCHANGED <<kind, source, sequence, now, changes, runs, first, covered>>

\* What the run that ends vouches for.  A table without updated_at is read
\* through every time.  A full copy keeps the rows an earlier run left there,
\* so it only vouches for the time of the first one.
Vouched ==
    CASE ~Dated -> run.start
      [] Dated /\ run.mode = "full" -> IF covered = None THEN first ELSE covered
      [] OTHER -> IF covered # None /\ run.since <= covered THEN run.start ELSE covered

\* An empty page: COMMIT, and once every table is done resetSequences.
FinishCopy ==
    /\ run # None /\ Page(run) = {}
    /\ target' = run.rows
    /\ sequence' = Max(Held(target') \cup {0})
    /\ covered' = Vouched
    /\ run' = None
    /\ UNCHANGED <<kind, source, now, changes, runs, first>>

\* An error or a dead process: what was not committed is rolled back.
FailCopy ==
    /\ run # None
    /\ run' = None
    /\ UNCHANGED <<kind, source, target, sequence, now, changes, runs, first, covered>>

Next ==
    \/ \E k \in {"dated", "plain", "pairs"} : Describe(k)
    \/ \E i \in Ids : SourceChange(i)
    \/ TimePasses
    \/ \E mode \in {"full", "delta"}, since \in 0..now : BeginCopy(mode, since)
    \/ CopyPage \/ FinishCopy \/ FailCopy

Spec == Init /\ [][Next]_copyVars
-----------------------------------------------------------------------------
\* What was last changed before the covered time is in the copy as it is in
\* the source (of a table without updated_at: what was added before it is
\* there), whatever runs failed half way, were run again or were overtaken by
\* changes; and between runs the copy's sequence is past the ids of every
\* completed run.
CopyIsExact ==
    covered # None =>
        \A i \in Held(source) :
            /\ Dated /\ source[i].at < covered => target[i] = source[i]
            /\ source[i].added < covered =>
                    /\ target[i] # None
                    /\ i <= sequence
=============================================================================
