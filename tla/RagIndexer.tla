------------------------------ MODULE RagIndexer ------------------------------
(***************************************************************************)
(* The background indexer of services/rag/indexer.ts: posts are written by *)
(* request handlers, a row of embedding_jobs records for every post what   *)
(* was indexed and when, and drains - started by cron, by a write or by    *)
(* the backfill tool, kept apart by a lock in the cache - turn pending     *)
(* rows into rows of post_chunks.                                          *)
(*                                                                         *)
(* Every query and every cache call is an await, so each is a step of its  *)
(* own and anything may happen between two of them.                        *)
(*                                                                         *)
(* Abstractions.  A text stands for title and content and is its own hash. *)
(* Timestamps are kept as the only thing the code asks of them: how they   *)
(* compare with posts.updated_at ("stale": the post was written later) or, *)
(* for the lock, with LOCK_STALE_MS.  Row ids are serial, so all a drain   *)
(* can tell of the id it selected is whether that row still exists.        *)
(* created_at only orders the rows a drain takes; a drain here takes any   *)
(* rows up to its limit, in any order.                                     *)
(***************************************************************************)
EXTENDS Naturals, FiniteSets

CONSTANTS
    Posts,          \* post ids
    Texts,          \* title and content of a post, as one value
    ChunkCount,     \* ChunkCount[t]: how many chunks chunkText makes of t
    Boards,         \* board ids
    IndexedBoards,  \* INDEXED_BOARD_IDS
    FreeBoard,      \* freeBoardId, the board every public post is created in
    Drainers,       \* drain() calls that can be under way at once
    Writers,        \* write requests whose background part can be under way
    DrainLimits,    \* the limits drain is called with (1, 20 and 50)
    SweepLimit,     \* the limit of sweep
    MaxAttempts,    \* MAX_ATTEMPTS
    SlowDrains,     \* may a drain outlive LOCK_STALE_MS?
    MaxWrites,      \* bound: writes of posts in a behaviour
    MaxFaults,      \* bound: crashes and failed queries in a behaviour
    None

ASSUME ConstantsOK ==
    /\ ChunkCount \in [Texts -> Nat]
    /\ IndexedBoards \subseteq Boards
    /\ FreeBoard \in Boards
    /\ DrainLimits \subseteq Nat \ {0}
    /\ SweepLimit \in Nat \ {0}
    /\ MaxAttempts \in Nat \ {0}
    /\ SlowDrains \in BOOLEAN
    /\ MaxWrites \in Nat
    /\ MaxFaults \in Nat

VARIABLES
    posts,      \* table posts: status, board and text of every post
    jobs,       \* table embedding_jobs, by post_id (unique)
    chunks,     \* table post_chunks: the rows of a post, by chunk_index
    lock,       \* the cache field rag:locks/drain
    pc,         \* pc[d]: the await a drain stands at
    batch,      \* batch[d]: the rows it selected and has not dealt with yet
    run,        \* run[d]: what runJob holds of the post it is working on
    request,    \* request[w]: the background part of a write request
    sweeping,   \* sweep has run its first statement and not its second
    history,    \* what happened to a post that the tables do not record
    writes,     \* counts up to MaxWrites
    faults      \* counts up to MaxFaults

database == <<posts, jobs, chunks>>
drainer  == <<pc, batch, run>>
bounds   == <<writes, faults>>
vars     == <<database, lock, drainer, request, sweeping, history, bounds>>
-----------------------------------------------------------------------------
(* The rows of the three tables. *)

Post  == [status: {"absent", "live", "deleted"}, board: Boards, text: Texts]

\* indexedAt: NULL, earlier than posts.updated_at ("stale") or not ("fresh");
\* failedAt likewise.
JobRow == [status: {"pending", "done", "failed"}, attempts: 0..MaxAttempts,
           contentHash: Texts \cup {None},
           indexedAt: {"null", "stale", "fresh"},
           failedAt: {"null", "stale", "fresh"}]

NewJob == [status |-> "pending", attempts |-> 0, contentHash |-> None,
           indexedAt |-> "null", failedAt |-> "null"]

\* index i here is chunk_index i - 1.
ChunkRow == [index: Nat \ {0}, text: Texts, board: Boards, embedded: BOOLEAN]

\* The rows of post_chunks a finished run leaves for text t on board b.
IndexOf(t, b) == {[index |-> i, text |-> t, board |-> b, embedded |-> TRUE] :
                      i \in 1..ChunkCount[t]}

Live(p) == posts[p].status = "live"

HasJob(p) == jobs[p] # None
-----------------------------------------------------------------------------
(* What a drain keeps between two awaits. *)

\* A row as drain's SELECT returned it.  row: the row it names still exists.
Snapshot == [attempts: 0..MaxAttempts, contentHash: Texts \cup {None}, row: BOOLEAN]

\* None is no id, no text and no row.
ASSUME NoneIsNew == None \notin Posts \cup Texts \cup JobRow \cup Snapshot

EmptyBatch == [p \in Posts |-> None]

Left(d) == {p \in Posts : batch[d][p] # None}

\* What runJob read of its post, which of its chunks were embedded, and how
\* many are stored.
Run   == [post: Posts, text: Texts, board: Boards, embedded: SUBSET Nat, stored: Nat]
NoRun == [post |-> None]

\* The awaits of runJob after its read of a live post.
Committed == {"verify", "touch", "embed", "store", "finish", "fail"}

Dropping == {"dropChunks", "dropJob"}

\* Where a drain may stand.
Awaits == {"idle", "contend", "steal", "select", "next", "release"} \cup Committed \cup Dropping

\* A drain inside the lock, as far as it knows.
Holding(d) == pc[d] \in {"select", "next", "release"} \cup Committed \cup Dropping

\* runJob has read a live p and has not dealt with its row yet.
Indexing(d, p) == run[d].post = p /\ pc[d] \in Committed

\* UPDATE embedding_jobs ... WHERE id = the selected one: it changes nothing
\* once that row is gone.
UpdateRow(d, p, new) ==
    jobs' = IF batch[d][p].row THEN [jobs EXCEPT ![p] = new] ELSE jobs

\* The rows selected by any drain when the row of p is deleted.
RowGone(p) ==
    [d \in Drainers |->
        IF batch[d][p] = None THEN batch[d]
                              ELSE [batch[d] EXCEPT ![p].row = FALSE]]

GoTo(d, l) == pc' = [pc EXCEPT ![d] = l]

\* runJob is over, the loop of drain goes on with the rows that are left.
NextJob(d) ==
    /\ GoTo(d, "next")
    /\ batch' = [batch EXCEPT ![d][run[d].post] = None]
    /\ run' = [run EXCEPT ![d] = NoRun]

\* drain is over, normally or not.
Forget(d) ==
    /\ batch' = [batch EXCEPT ![d] = EmptyBatch]
    /\ run' = [run EXCEPT ![d] = NoRun]

\* SELECT ... LIMIT n: n of the rows, or all of them.
Limited(S, rows, n) ==
    /\ S \subseteq rows
    /\ Cardinality(S) <= n
    /\ S = rows \/ Cardinality(S) = n

Fault == faults < MaxFaults /\ faults' = faults + 1

NoFault == UNCHANGED faults
-----------------------------------------------------------------------------
(* Writes of posts. *)

NoRequest == [op |-> "none", post |-> None]

Request == [op: {"save", "enqueue", "dropChunks", "dropJob"}, post: Posts]

\* A removal of what the index has of p is under way in the background.
Removing(p) ==
    \E w \in Writers : request[w].op \in {"dropChunks", "dropJob"} /\ request[w].post = p

\* The index has let go of p: no chunks are left and nobody is at work on it.
Gone(p) ==
    /\ chunks[p] = {}
    /\ \A d \in Drainers : batch[d][p] = None
    /\ ~Removing(p)

Later(at) == IF at = "fresh" THEN "stale" ELSE at

Outdated(job) ==
    IF job = None THEN None
    ELSE [job EXCEPT !.indexedAt = Later(job.indexedAt), !.failedAt = Later(job.failedAt)]

\* One UPDATE or INSERT of posts: updated_at moves past indexed_at and
\* failed_at.  A drain may have read the row before it, and a deleted post may
\* come back before the index has let go of it.
Write(p, status, board, text) ==
    /\ writes < MaxWrites
    /\ writes' = writes + 1
    /\ posts' = [posts EXCEPT ![p] = [status |-> status, board |-> board, text |-> text]]
    /\ jobs' = [jobs EXCEPT ![p] = Outdated(@)]
    /\ history' = [history EXCEPT
           ![p].raced = \E d \in Drainers : Indexing(d, p),
           ![p].restored = /\ status = "live"
                           /\ IF posts[p].status = "deleted" THEN ~Gone(p) ELSE @]
    /\ UNCHANGED <<chunks, lock, drainer, sweeping, faults>>

\* The handler answers and leaves `void ragIndexer.op(p)' behind.
Background(w, op, p) ==
    /\ request[w] = NoRequest
    /\ request' = [request EXCEPT ![w] = [op |-> op, post |-> p]]

\* post_controller.create: the post is stored, then enqueued in the background.
CreatePost(w, p) ==
    /\ posts[p].status = "absent"
    /\ \E t \in Texts : Write(p, "live", FreeBoard, t)
    /\ Background(w, "enqueue", p)

\* post_controller.update loads a post that is not deleted.
EditPost(w, p) ==
    /\ Live(p)
    /\ Background(w, "save", p)
    /\ UNCHANGED <<database, lock, drainer, sweeping, history, bounds>>

\* Then it saves all of what it loaded: board, title and content come from the
\* payload, and lastEdit changes, so updated_at moves even when the text does
\* not.  deletedAt was NULL when it was loaded: a deletion that came since is
\* undone, unless it comes after the row as save itself reads it again.
SavePost(w) ==
    LET p == request[w].post IN
    /\ request[w].op = "save"
    /\ \E status \in {"live", posts[p].status}, t \in Texts, b \in Boards :
          Write(p, status, b, t)
    /\ request' = [request EXCEPT ![w].op = "enqueue"]

\* routesPost.update and the generic create of the admin save the body as it
\* is, deletedAt included, and never enqueue.
AdminSave(p) ==
    /\ \E status \in {"live", "deleted"}, t \in Texts, b \in Boards :
          Write(p, status, b, t)
    /\ UNCHANGED request

\* post_controller.delete and routesPost.delete: a soft delete, then
\* removeChunks in the background.  Neither minds a post deleted meanwhile.
DeletePost(w, p) ==
    /\ posts[p].status # "absent"
    /\ Write(p, "deleted", posts[p].board, posts[p].text)
    /\ Background(w, "dropChunks", p)
-----------------------------------------------------------------------------
(* The background part of a write request. *)

Answered(w) == request' = [request EXCEPT ![w] = NoRequest]

\* Variant: the upsert forgets attempts.
EnqueuedAsTried(job) ==
    IF job = None THEN NewJob ELSE [job EXCEPT !.status = "pending", !.failedAt = "null"]

Enqueued(job) ==
    IF job = None THEN NewJob
    ELSE [job EXCEPT !.status = "pending", !.attempts = 0, !.failedAt = "null"]

\* enqueue; the drain(1) it may be followed by is TryLock of some drain.
Enqueue(w) ==
    /\ request[w].op = "enqueue"
    /\ jobs' = [jobs EXCEPT ![request[w].post] = Enqueued(@)]
    /\ Answered(w)
    /\ UNCHANGED <<posts, chunks, lock, drainer, sweeping, history, bounds>>

\* removeChunks, first query.
RequestDropChunks(w) ==
    /\ request[w].op = "dropChunks"
    /\ chunks' = [chunks EXCEPT ![request[w].post] = {}]
    /\ request' = [request EXCEPT ![w].op = "dropJob"]
    /\ UNCHANGED <<posts, jobs, lock, drainer, sweeping, history, bounds>>

\* removeChunks, second query.
RequestDropJob(w) ==
    /\ request[w].op = "dropJob"
    /\ jobs' = [jobs EXCEPT ![request[w].post] = None]
    /\ batch' = RowGone(request[w].post)
    /\ Answered(w)
    /\ UNCHANGED <<posts, chunks, lock, pc, run, sweeping, history, bounds>>

\* A failed query, which enqueue and removeChunks swallow, or a restart.
RequestLost(w) ==
    /\ request[w] # NoRequest
    /\ Fault
    /\ Answered(w)
    /\ UNCHANGED <<database, lock, drainer, sweeping, history, writes>>
-----------------------------------------------------------------------------
(* sweep: cron every five minutes, and the backfill tool once. *)

\* Variant: failed rows are taken like the others, every five minutes.
SweepableFailed ==
    {p \in Posts :
        /\ Live(p)
        /\ posts[p].board \in IndexedBoards
        /\ ~HasJob(p) \/ jobs[p].indexedAt # "fresh"}

\* Variant: a row that was done once is never looked at again.
SweepableOnce ==
    {p \in Posts :
        /\ Live(p)
        /\ posts[p].board \in IndexedBoards
        /\ \/ ~HasJob(p)
           \/ jobs[p].status # "failed" /\ jobs[p].indexedAt = "null"
           \/ jobs[p].status = "failed" /\ jobs[p].failedAt = "stale"}

\* The posts sweep takes.  A failed row always has a failed_at here: every
\* UPDATE that sets the one sets the other.
Sweepable ==
    {p \in Posts :
        /\ Live(p)
        /\ posts[p].board \in IndexedBoards
        /\ \/ ~HasJob(p)
           \/ jobs[p].status # "failed" /\ jobs[p].indexedAt # "fresh"
           \/ jobs[p].status = "failed" /\ jobs[p].failedAt = "stale"}

\* Variant: being swept counts as an attempt.
SweptAsAttempt(job) ==
    IF job = None THEN NewJob
    ELSE [job EXCEPT !.status = "pending", !.attempts = job.attempts + 1, !.failedAt = "null"]

Swept(job) ==
    IF job = None THEN NewJob
    ELSE [job EXCEPT !.status = "pending",
                     !.attempts = IF job.status = "failed" THEN 0 ELSE job.attempts,
                     !.failedAt = "null"]

\* The INSERT ... ON CONFLICT of sweep.
SweepJobs ==
    /\ ~sweeping
    /\ sweeping' = TRUE
    /\ \E S \in SUBSET Sweepable :
          /\ Limited(S, Sweepable, SweepLimit)
          /\ jobs' = [p \in Posts |-> IF p \in S THEN Swept(jobs[p]) ELSE jobs[p]]
    /\ UNCHANGED <<posts, chunks, lock, drainer, request, history, bounds>>

\* Variant: a soft-deleted post still exists.
KnownChunks == [p \in Posts |-> IF posts[p].status # "absent" THEN chunks[p] ELSE {}]

LiveChunks == [p \in Posts |-> IF Live(p) THEN chunks[p] ELSE {}]

\* Its DELETE of the chunks whose post is not live.
SweepChunks ==
    /\ sweeping
    /\ sweeping' = FALSE
    /\ chunks' = LiveChunks
    /\ UNCHANGED <<posts, jobs, lock, drainer, request, history, bounds>>

\* The process ends between the two, or the second query fails.
SweepLost ==
    /\ sweeping
    /\ sweeping' = FALSE
    /\ Fault
    /\ UNCHANGED <<database, lock, drainer, request, history, writes>>
-----------------------------------------------------------------------------
(* withLock.  The value of the lock is only the time it was taken at. *)

\* hSetNX.
TryLock(d) ==
    /\ pc[d] = "idle"
    /\ IF lock = "free" THEN lock' = "fresh" /\ GoTo(d, "select")
                        ELSE UNCHANGED lock /\ GoTo(d, "contend")
    /\ UNCHANGED <<database, batch, run, request, sweeping, history, bounds>>

\* A lock that is gone by now counts as old.
Abandoned == lock # "fresh"

\* hGetAll.
ReadLock(d) ==
    /\ pc[d] = "contend"
    /\ GoTo(d, IF Abandoned THEN "steal" ELSE "idle")
    /\ UNCHANGED <<database, lock, batch, run, request, sweeping, history, bounds>>

\* hSet, whatever the lock has become since it was read.
StealLock(d) ==
    /\ pc[d] = "steal"
    /\ lock' = "fresh"
    /\ GoTo(d, "select")
    /\ UNCHANGED <<database, batch, run, request, sweeping, history, bounds>>

\* LOCK_STALE_MS passes.  Unless SlowDrains, no drain takes that long.
LockAges ==
    /\ lock = "fresh"
    /\ SlowDrains \/ \A d \in Drainers : ~Holding(d)
    /\ lock' = "stale"
    /\ UNCHANGED <<database, drainer, request, sweeping, history, bounds>>

\* hDel in the finally block, whoever the lock belongs to by now.
Unlock(d) ==
    /\ \/ pc[d] = "release"
       \/ pc[d] = "next" /\ Left(d) = {}
    /\ lock' = "free"
    /\ GoTo(d, "idle")
    /\ UNCHANGED <<database, batch, run, request, sweeping, history, bounds>>
-----------------------------------------------------------------------------
(* drain and runJob. *)

\* The rows drain's SELECT looks for.
Due == {p \in Posts : HasJob(p) /\ jobs[p].status = "pending" /\ jobs[p].attempts < MaxAttempts}

SelectJobs(d) ==
    /\ pc[d] = "select"
    /\ \E n \in DrainLimits, S \in SUBSET Due :
          /\ Limited(S, Due, n)
          /\ batch' = [batch EXCEPT ![d] = [p \in Posts |->
                          IF p \in S
                          THEN [attempts |-> jobs[p].attempts,
                                contentHash |-> jobs[p].contentHash, row |-> TRUE]
                          ELSE None]]
    /\ GoTo(d, "next")
    /\ UNCHANGED <<database, lock, run, request, sweeping, history, bounds>>

Begin(d, p) ==
    run' = [run EXCEPT ![d] = [post |-> p, text |-> posts[p].text,
                               board |-> posts[p].board, embedded |-> {}, stored |-> 0]]

\* runJob reads the post, and compares its hash with the row's.
ReadPost(d) ==
    /\ pc[d] = "next"
    /\ \E p \in Left(d) :
          /\ Begin(d, p)
          /\ \/ ~Live(p) /\ GoTo(d, "dropChunks")
             \/ Live(p) /\ GoTo(d, IF batch[d][p].contentHash = posts[p].text
                                    THEN "verify" ELSE "embed")
    /\ UNCHANGED <<database, lock, batch, request, sweeping, history, bounds>>

\* The hash is unchanged: are there chunks, and has each its vector?
Verify(d) ==
    LET rows == chunks[run[d].post] IN
    /\ pc[d] = "verify"
    /\ GoTo(d, IF rows # {} /\ \A r \in rows : r.embedded THEN "touch" ELSE "embed")
    /\ UNCHANGED <<database, lock, batch, run, request, sweeping, history, bounds>>

\* There are: the row is done as it is.
Touch(d) ==
    LET p == run[d].post IN
    /\ pc[d] = "touch"
    /\ UpdateRow(d, p, [jobs[p] EXCEPT !.status = "done", !.indexedAt = "fresh",
                                       !.failedAt = "null"])
    /\ NextJob(d)
    /\ UNCHANGED <<posts, chunks, lock, request, sweeping, history, bounds>>

\* embedding.embed never throws: cached or called for, batch by batch, it
\* leaves null wherever it failed.
Embeddings(all) == SUBSET all

\* When all of it did, runJob throws before anything is stored.
Embed(d) ==
    LET all == 1..ChunkCount[run[d].text] IN
    /\ pc[d] = "embed"
    /\ \E ok \in Embeddings(all) :
          /\ run' = [run EXCEPT ![d].embedded = ok]
          /\ GoTo(d, IF ok = {} /\ all # {} THEN "fail" ELSE "store")
    /\ UNCHANGED <<database, lock, batch, request, sweeping, history, bounds>>

\* One upsert of replaceChunks.
StoreChunk(d) ==
    LET p == run[d].post
        i == run[d].stored + 1 IN
    /\ pc[d] = "store"
    /\ i <= ChunkCount[run[d].text]
    /\ chunks' = [chunks EXCEPT ![p] =
                     {r \in @ : r.index # i} \cup
                     {[index |-> i, text |-> run[d].text, board |-> run[d].board,
                       embedded |-> i \in run[d].embedded]}]
    /\ run' = [run EXCEPT ![d].stored = i]
    /\ history' = [history EXCEPT ![p].torn = TRUE]
    /\ UNCHANGED <<posts, jobs, lock, pc, batch, request, sweeping, bounds>>

\* Variants: one chunk too many survives, one too few.
KeptOneMore(rows, n) == {r \in rows : r.index <= n + 1}
KeptOneLess(rows, n) == {r \in rows : r.index < n}

\* The chunks that DELETE ... chunk_index >= n spares.
Kept(rows, n) == {r \in rows : r.index <= n}

\* The last query of replaceChunks deletes what a longer text has left.
\* runJob throws when a chunk has no vector.
TrimChunks(d) ==
    LET p == run[d].post
        n == ChunkCount[run[d].text] IN
    /\ pc[d] = "store"
    /\ run[d].stored = n
    /\ chunks' = [chunks EXCEPT ![p] = Kept(@, n)]
    /\ GoTo(d, IF run[d].embedded = 1..n THEN "finish" ELSE "fail")
    /\ history' = [history EXCEPT ![p].torn = TRUE]
    /\ UNCHANGED <<posts, jobs, lock, batch, run, request, sweeping, bounds>>

\* The UPDATE that ends runJob.  attempts stays.
Finish(d) ==
    LET p == run[d].post IN
    /\ pc[d] = "finish"
    /\ UpdateRow(d, p, [jobs[p] EXCEPT !.status = "done", !.contentHash = run[d].text,
                                       !.indexedAt = "fresh", !.failedAt = "null"])
    /\ NextJob(d)
    /\ history' = [history EXCEPT ![p].torn = FALSE]
    /\ UNCHANGED <<posts, chunks, lock, request, sweeping, bounds>>

\* The catch of drain counts from the attempts it selected.
RecordFailure(d) ==
    LET p == run[d].post
        n == batch[d][p].attempts + 1
        failed == n >= MaxAttempts IN
    /\ pc[d] = "fail"
    /\ UpdateRow(d, p, [jobs[p] EXCEPT !.attempts = n,
                                       !.status = IF failed THEN "failed" ELSE "pending",
                                       !.failedAt = IF failed THEN "fresh" ELSE "null"])
    /\ NextJob(d)
    /\ UNCHANGED <<posts, chunks, lock, request, sweeping, history, bounds>>

\* The post is gone: removeChunks, both queries.
DropChunks(d) ==
    /\ pc[d] = "dropChunks"
    /\ chunks' = [chunks EXCEPT ![run[d].post] = {}]
    /\ GoTo(d, "dropJob")
    /\ UNCHANGED <<posts, jobs, lock, batch, run, request, sweeping, history, bounds>>

DropJob(d) ==
    LET p == run[d].post IN
    /\ pc[d] = "dropJob"
    /\ jobs' = [jobs EXCEPT ![p] = None]
    /\ batch' = [RowGone(p) EXCEPT ![d][p] = None]
    /\ run' = [run EXCEPT ![d] = NoRun]
    /\ GoTo(d, "next")
    /\ UNCHANGED <<posts, chunks, lock, request, sweeping, history, bounds>>
-----------------------------------------------------------------------------
(* Failed queries and crashes. *)

\* The read of runJob throws: the catch of drain deals with it.
ReadThrows(d) ==
    /\ pc[d] = "next"
    /\ Fault
    /\ \E p \in Left(d) : Begin(d, p)
    /\ GoTo(d, "fail")
    /\ UNCHANGED <<database, lock, batch, request, sweeping, history, writes>>

\* A later query of runJob throws.
RunThrows(d) ==
    /\ pc[d] \in {"verify", "touch", "store", "finish"}
    /\ Fault
    /\ GoTo(d, "fail")
    /\ UNCHANGED <<database, lock, batch, run, request, sweeping, history, writes>>

\* A query of removeChunks throws, and removeChunks swallows it.
DropThrows(d) ==
    /\ pc[d] \in Dropping
    /\ Fault
    /\ NextJob(d)
    /\ UNCHANGED <<database, lock, request, sweeping, history, writes>>

\* drain's own SELECT, or the UPDATE of its catch, throws: out to the finally.
DrainThrows(d) ==
    /\ pc[d] \in {"select", "fail"}
    /\ Fault
    /\ GoTo(d, "release")
    /\ Forget(d)
    /\ UNCHANGED <<database, lock, request, sweeping, history, writes>>

\* The process of the drain ends (or its hDel fails): the lock stays.
Crash(d) ==
    /\ pc[d] # "idle"
    /\ Fault
    /\ GoTo(d, "idle")
    /\ Forget(d)
    /\ UNCHANGED <<database, lock, request, sweeping, history, writes>>
-----------------------------------------------------------------------------
\* A post nobody has written yet.
Unwritten == [status |-> "absent", board |-> FreeBoard, text |-> CHOOSE t \in Texts : TRUE]

\* Posts that are older than the index have no row in embedding_jobs.
Init ==
    /\ posts \in [Posts -> {q \in Post : q.status = "live" \/ q = Unwritten}]
    /\ jobs = [p \in Posts |-> None]
    /\ chunks = [p \in Posts |-> {}]
    /\ lock = "free"
    /\ pc = [d \in Drainers |-> "idle"]
    /\ batch = [d \in Drainers |-> EmptyBatch]
    /\ run = [d \in Drainers |-> NoRun]
    /\ request = [w \in Writers |-> NoRequest]
    /\ sweeping = FALSE
    /\ history = [p \in Posts |-> [raced |-> FALSE, torn |-> FALSE, restored |-> FALSE]]
    /\ writes = 0
    /\ faults = 0

WritePosts ==
    \E p \in Posts :
        \/ AdminSave(p)
        \/ \E w \in Writers : CreatePost(w, p) \/ EditPost(w, p) \/ DeletePost(w, p)

FinishRequest(w) ==
    SavePost(w) \/ Enqueue(w) \/ RequestDropChunks(w) \/ RequestDropJob(w) \/ RequestLost(w)

Sweep == SweepJobs \/ SweepChunks

\* One await of a drain comes back.
DrainStep(d) ==
    \/ TryLock(d) \/ ReadLock(d) \/ StealLock(d) \/ Unlock(d)
    \/ SelectJobs(d) \/ ReadPost(d) \/ Verify(d) \/ Touch(d) \/ Embed(d)
    \/ StoreChunk(d) \/ TrimChunks(d) \/ Finish(d) \/ RecordFailure(d)
    \/ DropChunks(d) \/ DropJob(d)

DrainFault(d) == ReadThrows(d) \/ RunThrows(d) \/ DropThrows(d) \/ DrainThrows(d) \/ Crash(d)

Next ==
    \/ WritePosts
    \/ \E w \in Writers : FinishRequest(w)
    \/ Sweep \/ SweepLost
    \/ LockAges
    \/ \E d \in Drainers : DrainStep(d) \/ DrainFault(d)

Spec == Init /\ [][Next]_vars

\* cron starts a sweep and a drain every five minutes, an await comes back, and
\* time passes.  Nothing is assumed of users or of the background part of
\* their requests: the sweep is there for what those leave undone.
Fairness ==
    /\ WF_vars(SweepJobs)
    /\ WF_vars(SweepChunks)
    /\ WF_vars(LockAges)
    /\ \A d \in Drainers : WF_vars(DrainStep(d))

FairSpec == Spec /\ Fairness
-----------------------------------------------------------------------------
(* Properties. *)

\* Every variable has its type.
TypeOK ==
    /\ posts \in [Posts -> Post]
    /\ jobs \in [Posts -> JobRow \cup {None}]
    /\ chunks \in [Posts -> SUBSET ChunkRow]
    /\ lock \in {"free", "fresh", "stale"}
    /\ pc \in [Drainers -> Awaits]
    /\ batch \in [Drainers -> [Posts -> Snapshot \cup {None}]]
    /\ run \in [Drainers -> Run \cup {NoRun}]
    /\ request \in [Writers -> Request \cup {NoRequest}]
    /\ sweeping \in BOOLEAN
    /\ history \in [Posts -> [raced: BOOLEAN, torn: BOOLEAN, restored: BOOLEAN]]
    /\ writes \in 0..MaxWrites
    /\ faults \in 0..MaxFaults

Status(p) == IF HasJob(p) THEN jobs[p].status ELSE "none"

\* The row says p is indexed as it is now: neither drain nor sweep takes it.
Settled(p) == Live(p) /\ Status(p) = "done" /\ jobs[p].indexedAt = "fresh"

\* The chunks, apart from the board they are stored under.
Content(rows) == {[index |-> r.index, text |-> r.text, embedded |-> r.embedded] : r \in rows}

\* What search finds of a settled post is the post: all of its present text and
\* nothing of an earlier one.  The three windows in which the code gives this up
\* are named: a write between runJob's read and its last UPDATE (raced), a run
\* that ended between the first upsert of replaceChunks and that UPDATE (torn),
\* and a deletion undone before the index had let go of the post (restored).
SettledIsIndexed ==
    \A p \in Posts :
        Settled(p) /\ ~history[p].raced /\ ~history[p].torn /\ ~history[p].restored =>
            /\ jobs[p].contentHash = posts[p].text
            /\ Content(chunks[p]) = Content(IndexOf(posts[p].text, posts[p].board))

\* The row of p was given up, and p has not been written since.
GivenUp(p) == Status(p) = "failed" /\ jobs[p].failedAt = "fresh"

\* No row waits for a drain that will never select it: whatever order successes,
\* failures, sweeps and late enqueues come in, a pending row has attempts left.
PendingIsDue == \A p \in Posts : Status(p) = "pending" => p \in Due

\* A row given up as failed costs nothing more until its post is written: only
\* the enqueue of a write, or a sweep that sees a later updated_at, revives it.
GivenUpStays ==
    \A p \in Posts :
        GivenUp(p) =>
            \/ Status(p)' \in {"failed", "none"}
            \/ \E w \in Writers : Enqueue(w) /\ request[w].post = p

FailedStaysFailed == [][GivenUpStays]_vars

\* p is live, and was so ever since the index last had nothing of it.
Steady(p) == Live(p) /\ ~history[p].restored

\* The index of a live post is rewritten but never emptied - not by a deletion
\* that did not happen, an embedding that failed, or a drain that lost its lock.
\* Only a deletion that did happen, and was undone while its removal was still
\* under way, can empty it (restored).
IndexStays ==
    \A p \in Posts :
        chunks[p] # {} /\ Steady(p)' /\ (\A t \in Texts : ChunkCount[t] > 0) => chunks'[p] # {}

LiveKeepsChunks == [][IndexStays]_vars

\* A post that is deleted, and stays so, leaves the index for good, even when its
\* background removeChunks is lost or was never asked for, and a drain was storing
\* its chunks at that moment.
DeletedLeavesIndex ==
    \A p \in Posts : <>[](posts[p].status = "deleted") => <>[](chunks[p] = {})

Wanted(p) == Live(p) /\ posts[p].board \in IndexedBoards

\* The row says done, and it is the present text that was indexed.
Current(p) == Settled(p) /\ jobs[p].contentHash = posts[p].text

\* After every write the row of a post the index is for comes to say done with
\* the text the post has then, or given up since then: no crash, lost enqueue,
\* failed query or undone deletion leaves the post out, or at an earlier text.
\* Only a write that came in the middle of a run (raced) may stay unnoticed.
PostsAreSettled ==
    \A p \in Posts : Wanted(p) ~> ~Wanted(p) \/ Current(p) \/ GivenUp(p) \/ history[p].raced
-----------------------------------------------------------------------------
(* What the invariants above rest on; RagIndexerProofs proves them. *)

\* A drain inside runJob has read a post and holds that post's row; a row it
\* holds had attempts left when it was selected, and is there unless deleted.
DrainOK ==
    \A d \in Drainers :
        /\ pc[d] \in Committed \cup Dropping =>
              run[d] \in Run /\ batch[d][run[d].post] # None
        /\ \A p \in Posts : batch[d][p] # None =>
              /\ batch[d][p].attempts < MaxAttempts
              /\ batch[d][p].row => HasJob(p)

\* No other drain: what the lock is for, and what OneDrainAtATime denies.
SoleDrainer == \A d, e \in Drainers : d = e

\* While a single drain holds a row nothing but that drain ends its wait.
HeldIsPending ==
    \A d \in Drainers, p \in Posts :
        batch[d][p] # None /\ batch[d][p].row => Status(p) = "pending"

\* Attempts run out only by being given up.
AttemptsLeft ==
    \A p \in Posts :
        HasJob(p) /\ jobs[p].status # "failed" => jobs[p].attempts < MaxAttempts

\* p is deleted, or came back before the index had let go of it.
Unsteady(p) == posts[p].status = "deleted" \/ history[p].restored

\* Nothing refers to a post before it is written, and only a post that is
\* deleted, or was not let go of when it came back, is being removed from the index.
ReferencesOK ==
    /\ \A p \in Posts : posts[p].status = "absent" =>
          /\ ~HasJob(p) /\ chunks[p] = {}
          /\ \A d \in Drainers : batch[d][p] = None
    /\ \A w \in Writers : request[w] # NoRequest =>
          posts[request[w].post].status # "absent"
    /\ \A w \in Writers : request[w].op \in {"dropChunks", "dropJob"} => Unsteady(request[w].post)
    /\ \A d \in Drainers : pc[d] \in Dropping => Unsteady(run[d].post)

\* Chunks of a live post are numbered from the first, and a run that has
\* stored some of them still finds the first one there.
FirstChunkStays ==
    \A p \in Posts : Steady(p) =>
        /\ chunks[p] # {} => \E r \in chunks[p] : r.index = 1
        /\ \A d \in Drainers :
              Indexing(d, p) /\ run[d].stored > 0 => chunks[p] # {}
-----------------------------------------------------------------------------
(* What comments and tests of the code say, and the code does not do. *)

\* tests/rag_indexer.test.ts: one drain at a time.
OneDrainAtATime == \A d, e \in Drainers : Holding(d) /\ Holding(e) => d = e

\* indexer.ts: the sweep catches whatever the write path misses.  A live post
\* whose row records another text is pending, given up, or due for the sweep.
SweepCatchesEdits ==
    \A p \in Posts :
        /\ Live(p) /\ posts[p].board \in IndexedBoards
        /\ HasJob(p) /\ jobs[p].contentHash # posts[p].text
        => p \in Sweepable \/ Status(p) \in {"pending", "failed"}

\* post_chunk.ts: when a post changes boards, indexing it again moves its chunks.
ChunksFollowBoard ==
    \A p \in Posts :
        Settled(p) /\ ~history[p].raced => \A r \in chunks[p] : r.board = posts[p].board

\* embedding_job.ts: the row is the record of what was indexed.
RecordIsTrue ==
    \A p \in Posts :
        Settled(p) => \A r \in chunks[p] : r.text = jobs[p].contentHash
=============================================================================
