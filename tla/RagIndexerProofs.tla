--------------------------- MODULE RagIndexerProofs ---------------------------
(***************************************************************************)
(* Theorems about RagIndexer, for every value of its constants.            *)
(***************************************************************************)
EXTENDS RagIndexer, TLAPS

-----------------------------------------------------------------------------
(* Type correctness. *)

\* The types, together with what a drain inside runJob holds: runJob uses the
\* post it read and the row it selected, and counts from that row's attempts.
IInv == TypeOK /\ DrainOK

\* A drain keeps what it holds through any step that leaves the drains alone
\* and removes no row.
LEMMA DrainOKStays ==
    ASSUME DrainOK, UNCHANGED drainer, \A p \in Posts : HasJob(p) => HasJob(p)'
    PROVE  DrainOK'
BY DEF DrainOK, drainer, Committed, Dropping

\* The helpers that end a drain's work on a row.
LEMMA ForgetOK ==
    ASSUME NEW d \in Drainers, IInv, Forget(d), UNCHANGED jobs,
           pc' = [pc EXCEPT ![d] = "idle"] \/ pc' = [pc EXCEPT ![d] = "release"]
    PROVE  /\ batch' \in [Drainers -> [Posts -> Snapshot \cup {None}]]
           /\ run' \in [Drainers -> Run \cup {NoRun}]
           /\ DrainOK'
<1>1. EmptyBatch \in [Posts -> Snapshot \cup {None}]
    BY DEF EmptyBatch
<1>2. /\ batch' \in [Drainers -> [Posts -> Snapshot \cup {None}]]
      /\ run' \in [Drainers -> Run \cup {NoRun}]
    BY <1>1 DEF Forget, IInv, TypeOK
<1>3. DrainOK'
    BY DEF Forget, EmptyBatch, IInv, TypeOK, DrainOK, HasJob, Committed, Dropping
<1> QED BY <1>2, <1>3

LEMMA NextJobOK ==
    ASSUME NEW d \in Drainers, IInv, NextJob(d), pc[d] \in Committed \cup Dropping,
           \A p \in Posts : HasJob(p) => HasJob(p)'
    PROVE  /\ batch' \in [Drainers -> [Posts -> Snapshot \cup {None}]]
           /\ run' \in [Drainers -> Run \cup {NoRun}]
           /\ pc' \in [Drainers -> Awaits]
           /\ DrainOK'
<1>1. run[d].post \in Posts
    BY DEF IInv, DrainOK, Run
<1>2. batch' = [batch EXCEPT ![d] = [batch[d] EXCEPT ![run[d].post] = None]]
    BY DEF NextJob, IInv, TypeOK
<1>3. /\ batch' \in [Drainers -> [Posts -> Snapshot \cup {None}]]
      /\ run' \in [Drainers -> Run \cup {NoRun}]
      /\ pc' \in [Drainers -> Awaits]
    BY <1>1, <1>2 DEF NextJob, GoTo, IInv, TypeOK, Awaits
<1>4. DrainOK'
    BY <1>1, <1>2 DEF NextJob, GoTo, IInv, TypeOK, DrainOK, Committed, Dropping
<1> QED BY <1>3, <1>4

LEMMA UpdateRowOK ==
    ASSUME NEW d \in Drainers, NEW p \in Posts, NEW new \in JobRow,
           IInv, batch[d][p] # None, UpdateRow(d, p, new)
    PROVE  /\ jobs' \in [Posts -> JobRow \cup {None}]
           /\ \A q \in Posts : HasJob(q) => HasJob(q)'
BY NoneIsNew DEF UpdateRow, IInv, TypeOK, DrainOK, HasJob

\* A write of a post ages the row's timestamps and nothing else.
LEMMA OutdatedOK ==
    ASSUME NEW job \in JobRow \cup {None}
    PROVE  /\ Outdated(job) \in JobRow \cup {None}
           /\ Outdated(job) = None <=> job = None
           /\ job # None => /\ Outdated(job).status = job.status
                            /\ Outdated(job).attempts = job.attempts
<1>1. CASE job = None
    BY <1>1 DEF Outdated
<1>2. CASE job # None
    <2> DEFINE new == [job EXCEPT !.indexedAt = Later(job.indexedAt),
                                  !.failedAt = Later(job.failedAt)]
    <2>1. job \in JobRow
        BY <1>2
    <2>2. new \in JobRow /\ new.status = job.status /\ new.attempts = job.attempts
        BY <2>1 DEF Later, JobRow
    <2>3. Outdated(job) = new
        BY <1>2 DEF Outdated
    <2> HIDE DEF new
    <2> QED BY <1>2, <2>2, <2>3, NoneIsNew
<1> QED BY <1>1, <1>2

\* What a write records of the history of its post, and of no other.
LEMMA WriteHistory ==
    ASSUME NEW p \in Posts, NEW status, NEW board, NEW text, IInv, Write(p, status, board, text)
    PROVE  /\ history' \in [Posts -> [raced: BOOLEAN, torn: BOOLEAN, restored: BOOLEAN]]
           /\ \A q \in Posts : q # p => history'[q] = history[q]
           /\ history'[p].torn = history[p].torn
           /\ history'[p].raced = \E d \in Drainers : Indexing(d, p)
           /\ history'[p].restored =
                 (status = "live" /\ IF posts[p].status = "deleted" THEN ~Gone(p)
                                                                  ELSE history[p].restored)
<1> DEFINE raced == \E d \in Drainers : Indexing(d, p)
           restored == /\ status = "live"
                       /\ IF posts[p].status = "deleted" THEN ~Gone(p) ELSE history[p].restored
           new == [history[p] EXCEPT !.raced = raced, !.restored = restored]
<1>1. history \in [Posts -> [raced: BOOLEAN, torn: BOOLEAN, restored: BOOLEAN]]
    BY DEF IInv, TypeOK
<1>2. history[p] \in [raced: BOOLEAN, torn: BOOLEAN, restored: BOOLEAN]
    BY <1>1
<1>3. history' = [history EXCEPT ![p] = new]
    BY <1>1 DEF Write
<1>4. raced \in BOOLEAN
    BY Zenon
<1>5. restored \in BOOLEAN
    <2>1. history[p].restored \in BOOLEAN /\ (~Gone(p)) \in BOOLEAN
        BY <1>2, Zenon
    <2> HIDE DEF Gone
    <2> QED BY <2>1
<1> HIDE DEF raced, restored
<1>6. /\ new \in [raced: BOOLEAN, torn: BOOLEAN, restored: BOOLEAN]
      /\ new.torn = history[p].torn /\ new.raced = raced /\ new.restored = restored
    BY <1>2, <1>4, <1>5
<1> HIDE DEF new
<1>7. /\ history' \in [Posts -> [raced: BOOLEAN, torn: BOOLEAN, restored: BOOLEAN]]
      /\ \A q \in Posts : q # p => history'[q] = history[q]
      /\ history'[p] = new
    BY <1>1, <1>3, <1>6
<1> QED BY <1>6, <1>7 DEF raced, restored

\* A run that stores and one that ends record whether the chunks are torn.
LEMMA TornHistory ==
    ASSUME NEW p \in Posts, NEW torn \in BOOLEAN, IInv,
           history' = [history EXCEPT ![p].torn = torn]
    PROVE  /\ history' \in [Posts -> [raced: BOOLEAN, torn: BOOLEAN, restored: BOOLEAN]]
           /\ \A q \in Posts : /\ q # p => history'[q] = history[q]
                                /\ history'[q].raced = history[q].raced
                                /\ history'[q].restored = history[q].restored
           /\ history'[p].torn = torn
<1> DEFINE new == [history[p] EXCEPT !.torn = torn]
<1>1. history \in [Posts -> [raced: BOOLEAN, torn: BOOLEAN, restored: BOOLEAN]]
    BY DEF IInv, TypeOK
<1>2. history[p] \in [raced: BOOLEAN, torn: BOOLEAN, restored: BOOLEAN]
    BY <1>1
<1>3. history' = [history EXCEPT ![p] = new]
    BY <1>1
<1>4. /\ new \in [raced: BOOLEAN, torn: BOOLEAN, restored: BOOLEAN] /\ new.torn = torn
      /\ new.raced = history[p].raced /\ new.restored = history[p].restored
    BY <1>2
<1> HIDE DEF new
<1> QED BY <1>1, <1>3, <1>4

\* A write of posts: the types of what it changes, whoever issues it.
LEMMA WriteOK ==
    ASSUME NEW p \in Posts, NEW status \in {"absent", "live", "deleted"}, NEW board \in Boards,
           NEW text \in Texts, IInv, Write(p, status, board, text),
           request' \in [Writers -> Request \cup {NoRequest}]
    PROVE  IInv'
<1>1. posts' \in [Posts -> Post]
    BY DEF Write, IInv, TypeOK, Post
<1>2. /\ Outdated(jobs[p]) \in JobRow \cup {None}
      /\ jobs[p] # None => Outdated(jobs[p]) # None
    BY OutdatedOK DEF IInv, TypeOK
<1>3. /\ jobs' \in [Posts -> JobRow \cup {None}]
      /\ \A q \in Posts : HasJob(q) => HasJob(q)'
    BY <1>2 DEF Write, IInv, TypeOK, HasJob
<1>4. history' \in [Posts -> [raced: BOOLEAN, torn: BOOLEAN, restored: BOOLEAN]]
    BY WriteHistory
<1>5. writes' \in 0..MaxWrites
    BY ConstantsOK DEF Write, IInv, TypeOK
<1>6. DrainOK'
    BY <1>3, DrainOKStays DEF Write, IInv
<1> QED BY <1>1, <1>2, <1>4, <1>5, <1>6 DEF Write, IInv, TypeOK, drainer

\* What a drain holds of the rows when the row of p is deleted.
LEMMA RowGoneOK ==
    ASSUME NEW p \in Posts, IInv
    PROVE  RowGone(p) \in [Drainers -> [Posts -> Snapshot \cup {None}]]
<1> SUFFICES ASSUME NEW d \in Drainers
             PROVE  RowGone(p)[d] \in [Posts -> Snapshot \cup {None}]
    BY DEF RowGone
<1>1. batch[d] \in [Posts -> Snapshot \cup {None}]
    BY DEF IInv, TypeOK
<1>2. CASE batch[d][p] = None
    BY <1>1, <1>2 DEF RowGone
<1>3. CASE batch[d][p] # None
    <2>1. [batch[d][p] EXCEPT !.row = FALSE] \in Snapshot
        BY <1>1, <1>3 DEF Snapshot
    <2> QED BY <1>1, <1>3, <2>1 DEF RowGone
<1> QED BY <1>2, <1>3

\* Every step of Next keeps the invariant, action by action.
LEMMA WritePostsOK == IInv /\ WritePosts => IInv'
<1> SUFFICES ASSUME IInv, NEW p \in Posts,
                    \/ AdminSave(p)
                    \/ \E w \in Writers : CreatePost(w, p) \/ EditPost(w, p) \/ DeletePost(w, p)
             PROVE  IInv'
    BY DEF WritePosts
<1>1. ASSUME NEW w \in Writers, NEW op \in {"save", "enqueue", "dropChunks"}, Background(w, op, p)
      PROVE  request' \in [Writers -> Request \cup {NoRequest}]
    BY <1>1 DEF Background, Request, IInv, TypeOK
<1>2. CASE AdminSave(p)
    <2>1. request' \in [Writers -> Request \cup {NoRequest}]
        BY <1>2 DEF AdminSave, IInv, TypeOK
    <2> QED BY <1>2, <2>1, WriteOK DEF AdminSave
<1>3. ASSUME NEW w \in Writers, CreatePost(w, p)
      PROVE  IInv'
    <2>1. request' \in [Writers -> Request \cup {NoRequest}]
        BY <1>1, <1>3 DEF CreatePost
    <2> QED BY <1>3, <2>1, WriteOK, ConstantsOK DEF CreatePost
<1>4. ASSUME NEW w \in Writers, EditPost(w, p)
      PROVE  IInv'
    <2>1. request' \in [Writers -> Request \cup {NoRequest}]
        BY <1>1, <1>4 DEF EditPost
    <2>2. DrainOK'
        BY <1>4, DrainOKStays DEF EditPost, IInv, HasJob, database
    <2> QED BY <1>4, <2>1, <2>2 DEF EditPost, IInv, TypeOK, drainer, database, bounds
<1>5. ASSUME NEW w \in Writers, DeletePost(w, p)
      PROVE  IInv'
    <2>1. request' \in [Writers -> Request \cup {NoRequest}]
        BY <1>1, <1>5 DEF DeletePost
    <2>2. posts[p].board \in Boards /\ posts[p].text \in Texts
        BY DEF IInv, TypeOK, Post
    <2> QED BY <1>5, <2>1, <2>2, WriteOK DEF DeletePost
<1> QED BY <1>2, <1>3, <1>4, <1>5

\* A row of embedding_jobs is deleted: a drain keeps what it selected, and the
\* rows it still finds are of other posts.
LEMMA RowGoneKeeps ==
    ASSUME NEW p \in Posts, IInv, NEW d \in Drainers, NEW q \in Posts
    PROVE  /\ batch[d][q] # None <=> RowGone(p)[d][q] # None
           /\ batch[d][q] # None =>
                 /\ RowGone(p)[d][q].attempts < MaxAttempts
                 /\ RowGone(p)[d][q].row => batch[d][q].row /\ q # p
<1>1. batch[d] \in [Posts -> Snapshot \cup {None}]
    BY DEF IInv, TypeOK
<1>2. CASE batch[d][p] = None
    BY <1>1, <1>2 DEF RowGone, IInv, DrainOK
<1>3. CASE batch[d][p] # None
    <2> DEFINE gone == [batch[d][p] EXCEPT !.row = FALSE]
    <2>1. /\ gone \in Snapshot /\ gone # None /\ ~gone.row
          /\ gone.attempts = batch[d][p].attempts
        BY <1>1, <1>3, NoneIsNew DEF Snapshot
    <2>2. RowGone(p)[d] = [batch[d] EXCEPT ![p] = gone]
        BY <1>3 DEF RowGone
    <2> HIDE DEF gone
    <2> QED BY <1>1, <1>3, <2>1, <2>2 DEF IInv, DrainOK
<1> QED BY <1>2, <1>3

\* Both upserts of embedding_jobs make a pending row, of a row or of none; the
\* sweep's keeps the attempts of a row that was not given up.
LEMMA UpsertOK ==
    ASSUME NEW job \in JobRow \cup {None}
    PROVE  /\ Enqueued(job) \in JobRow
           /\ Enqueued(job).status = "pending" /\ Enqueued(job).attempts = 0
           /\ Swept(job) \in JobRow
           /\ Swept(job).status = "pending"
           /\ \/ Swept(job).attempts = 0
              \/ /\ job # None /\ job.status # "failed"
                 /\ Swept(job).attempts = job.attempts
<1>1. CASE job = None
    <2>1. NewJob \in JobRow /\ NewJob.status = "pending" /\ NewJob.attempts = 0
        BY ConstantsOK DEF NewJob, JobRow
    <2> QED BY <1>1, <2>1 DEF Enqueued, Swept
<1>2. CASE job # None
    <2>1. job \in JobRow /\ 0 \in 0..MaxAttempts
        BY <1>2, ConstantsOK
    <2>2. Enqueued(job) = [job EXCEPT !.status = "pending", !.attempts = 0, !.failedAt = "null"]
        BY <1>2 DEF Enqueued
    <2>3. Swept(job) = [job EXCEPT !.status = "pending",
                           !.attempts = IF job.status = "failed" THEN 0 ELSE job.attempts,
                           !.failedAt = "null"]
        BY <1>2 DEF Swept
    <2> QED BY <1>2, <2>1, <2>2, <2>3 DEF JobRow
<1> QED BY <1>1, <1>2

LEMMA RequestsOK == ASSUME NEW w \in Writers, IInv, FinishRequest(w) PROVE IInv'
<1>1. /\ request[w] \in Request \/ request[w] = NoRequest
      /\ request[w] # NoRequest => request[w].post \in Posts
    BY DEF IInv, TypeOK, Request
<1>2. [request EXCEPT ![w] = NoRequest] \in [Writers -> Request \cup {NoRequest}]
    BY DEF IInv, TypeOK
<1>3. CASE Enqueue(w)
    <2>1. request[w].post \in Posts
        BY <1>1, <1>3 DEF Enqueue, NoRequest
    <2>2. Enqueued(jobs[request[w].post]) \in JobRow
        BY <2>1, UpsertOK DEF IInv, TypeOK
    <2>3. /\ jobs' \in [Posts -> JobRow \cup {None}]
          /\ \A q \in Posts : HasJob(q) => HasJob(q)'
        BY <1>3, <2>1, <2>2, NoneIsNew DEF Enqueue, IInv, TypeOK, HasJob
    <2>4. DrainOK'
        BY <1>3, <2>3, DrainOKStays DEF Enqueue, IInv
    <2> QED BY <1>2, <1>3, <2>3, <2>4 DEF Enqueue, Answered, IInv, TypeOK, drainer, bounds
<1>4. CASE RequestDropChunks(w)
    <2>1. request[w].post \in Posts
        BY <1>1, <1>4 DEF RequestDropChunks, NoRequest
    <2>2. chunks' \in [Posts -> SUBSET ChunkRow]
        BY <1>4 DEF RequestDropChunks, IInv, TypeOK
    <2>3. request' \in [Writers -> Request \cup {NoRequest}]
        BY <1>1, <1>4 DEF RequestDropChunks, IInv, TypeOK, Request, NoRequest
    <2>4. DrainOK'
        BY <1>4, DrainOKStays DEF RequestDropChunks, IInv, HasJob
    <2> QED BY <1>4, <2>2, <2>3, <2>4 DEF RequestDropChunks, IInv, TypeOK, drainer, bounds
<1>5. CASE RequestDropJob(w)
    <2>1. request[w].post \in Posts
        BY <1>1, <1>5 DEF RequestDropJob, NoRequest
    <2>2. jobs' \in [Posts -> JobRow \cup {None}]
        BY <1>5 DEF RequestDropJob, IInv, TypeOK
    <2>3. batch' \in [Drainers -> [Posts -> Snapshot \cup {None}]]
        BY <1>5, <2>1, RowGoneOK DEF RequestDropJob
    <2>4. DrainOK'
        <3>1. \A e \in Drainers, q \in Posts :
                  /\ batch[e][q] # None <=> batch'[e][q] # None
                  /\ batch[e][q] # None =>
                        /\ batch'[e][q].attempts < MaxAttempts
                        /\ batch'[e][q].row => batch[e][q].row /\ q # request[w].post
            BY <1>5, <2>1, RowGoneKeeps DEF RequestDropJob
        <3>2. \A q \in Posts : HasJob(q) /\ q # request[w].post => HasJob(q)'
            BY <1>5 DEF RequestDropJob, HasJob, IInv, TypeOK
        <3>3. pc' = pc /\ run' = run
            BY <1>5 DEF RequestDropJob
        <3> QED BY <3>1, <3>2, <3>3 DEF IInv, DrainOK, Run, Committed, Dropping
    <2> QED BY <1>2, <1>5, <2>2, <2>3, <2>4 DEF RequestDropJob, Answered, IInv, TypeOK, bounds
<1>6. CASE RequestLost(w)
    <2>1. faults' \in 0..MaxFaults
        BY <1>6, ConstantsOK DEF RequestLost, Fault, IInv, TypeOK
    <2>2. DrainOK'
        BY <1>6, DrainOKStays DEF RequestLost, IInv, HasJob, database
    <2> QED BY <1>2, <1>6, <2>1, <2>2 DEF RequestLost, Answered, IInv, TypeOK, drainer, database
<1>7. CASE SavePost(w)
    <2> DEFINE p == request[w].post
    <2>1. p \in Posts /\ request[w] \in Request
        BY <1>1, <1>7 DEF SavePost, NoRequest
    <2>2. request' \in [Writers -> Request \cup {NoRequest}]
        BY <1>7, <2>1 DEF SavePost, IInv, TypeOK, Request
    <2>3. PICK status \in {"live", posts[p].status}, t \in Texts, b \in Boards :
              Write(p, status, b, t)
        BY <1>7 DEF SavePost
    <2>4. status \in {"absent", "live", "deleted"}
        BY <2>1 DEF IInv, TypeOK, Post
    <2> QED BY <2>1, <2>2, <2>3, <2>4, WriteOK
<1> QED BY <1>3, <1>4, <1>5, <1>6, <1>7 DEF FinishRequest

LEMMA SweepsOK == IInv /\ (Sweep \/ SweepLost) => IInv'
<1> SUFFICES ASSUME IInv, Sweep \/ SweepLost PROVE IInv'
    OBVIOUS
<1>1. CASE SweepJobs
    <2>1. /\ jobs' \in [Posts -> JobRow \cup {None}]
          /\ \A p \in Posts : HasJob(p) => HasJob(p)'
        BY <1>1, UpsertOK, NoneIsNew DEF SweepJobs, IInv, TypeOK, HasJob
    <2>2. DrainOK'
        BY <1>1, <2>1, DrainOKStays DEF SweepJobs, IInv
    <2> QED BY <1>1, <2>1, <2>2 DEF SweepJobs, IInv, TypeOK, drainer, bounds
<1>2. CASE SweepChunks
    <2>1. chunks' \in [Posts -> SUBSET ChunkRow]
        BY <1>2 DEF SweepChunks, LiveChunks, IInv, TypeOK
    <2>2. DrainOK'
        BY <1>2, DrainOKStays DEF SweepChunks, LiveChunks, IInv, HasJob
    <2> QED BY <1>2, <2>1, <2>2 DEF SweepChunks, LiveChunks, IInv, TypeOK, drainer, bounds
<1>3. CASE SweepLost
    <2>1. faults' \in 0..MaxFaults
        BY <1>3, ConstantsOK DEF SweepLost, Fault, IInv, TypeOK
    <2>2. DrainOK'
        BY <1>3, DrainOKStays DEF SweepLost, IInv, HasJob, database
    <2> QED BY <1>3, <2>1, <2>2 DEF SweepLost, IInv, TypeOK, drainer, database
<1> QED BY <1>1, <1>2, <1>3 DEF Sweep

\* withLock: the drain moves between labels at which it holds nothing.
LEMMA LockOK ==
    ASSUME IInv,
           LockAges \/ \E d \in Drainers : TryLock(d) \/ ReadLock(d) \/ StealLock(d) \/ Unlock(d)
    PROVE  IInv'
<1>1. CASE LockAges
    <2>1. DrainOK'
        BY <1>1, DrainOKStays DEF LockAges, IInv, HasJob, database
    <2> QED BY <1>1, <2>1 DEF LockAges, IInv, TypeOK, drainer, database, bounds
<1>2. ASSUME NEW d \in Drainers, TryLock(d) \/ ReadLock(d) \/ StealLock(d) \/ Unlock(d)
      PROVE  IInv'
    <2>1. \E l \in {"idle", "contend", "steal", "select"} : pc' = [pc EXCEPT ![d] = l]
        BY <1>2 DEF TryLock, ReadLock, StealLock, Unlock, GoTo
    <2>2. /\ lock' \in {"free", "fresh", "stale"}
          /\ UNCHANGED <<posts, jobs, chunks, batch, run, request, sweeping, history, writes, faults>>
        BY <1>2 DEF TryLock, ReadLock, StealLock, Unlock, IInv, TypeOK, database, bounds
    <2>3. pc' \in [Drainers -> Awaits]
        BY <2>1 DEF IInv, TypeOK, Awaits
    <2>4. DrainOK'
        BY <2>1, <2>2 DEF IInv, TypeOK, DrainOK, HasJob, Committed, Dropping
    <2> QED BY <2>2, <2>3, <2>4 DEF IInv, TypeOK
<1> QED BY <1>1, <1>2

LEMMA DrainsOK == ASSUME NEW d \in Drainers, IInv, DrainStep(d) PROVE IInv'
<1>1. pc[d] \in Committed \cup Dropping =>
          /\ run[d] \in Run
          /\ run[d].post \in Posts
          /\ batch[d][run[d].post] \in Snapshot
          /\ batch[d][run[d].post] # None
    BY DEF IInv, TypeOK, DrainOK, Run
<1>2. CASE TryLock(d) \/ ReadLock(d) \/ StealLock(d) \/ Unlock(d)
    BY <1>2, LockOK
<1>3. CASE SelectJobs(d)
    <2>1. PICK S \in SUBSET Due :
              batch' = [batch EXCEPT ![d] = [p \in Posts |->
                          IF p \in S
                          THEN [attempts |-> jobs[p].attempts,
                                contentHash |-> jobs[p].contentHash, row |-> TRUE]
                          ELSE None]]
        BY <1>3 DEF SelectJobs
    <2>2. \A p \in S : [attempts |-> jobs[p].attempts,
                        contentHash |-> jobs[p].contentHash, row |-> TRUE] \in Snapshot
        BY DEF Due, HasJob, IInv, TypeOK, JobRow, Snapshot
    <2>3. batch' \in [Drainers -> [Posts -> Snapshot \cup {None}]]
        BY <2>1, <2>2 DEF IInv, TypeOK
    <2>4. pc' \in [Drainers -> Awaits]
        BY <1>3 DEF SelectJobs, GoTo, IInv, TypeOK, Awaits
    <2>5. DrainOK'
        BY <1>3, <2>1, <2>2 DEF SelectJobs, GoTo, Due, HasJob, database, IInv, TypeOK, DrainOK,
              Committed, Dropping
    <2> QED BY <1>3, <2>3, <2>4, <2>5 DEF SelectJobs, IInv, TypeOK, database, bounds
<1>4. CASE ReadPost(d)
    <2>1. PICK p \in Left(d) :
              /\ Begin(d, p)
              /\ \E l \in {"dropChunks", "verify", "embed"} : GoTo(d, l)
        BY <1>4 DEF ReadPost
    <2>2. run'[d] \in Run /\ run'[d].post = p /\ run' \in [Drainers -> Run \cup {NoRun}]
        BY <2>1 DEF Begin, Left, IInv, TypeOK, Post, Run
    <2>3. pc' \in [Drainers -> Awaits]
        BY <2>1 DEF GoTo, IInv, TypeOK, Awaits, Committed, Dropping
    <2>4. DrainOK'
        BY <1>4, <2>1, <2>2 DEF ReadPost, GoTo, Begin, Left, HasJob, database, IInv, TypeOK, DrainOK
    <2> QED BY <1>4, <2>2, <2>3, <2>4 DEF ReadPost, IInv, TypeOK, database, bounds
<1>5. CASE Verify(d)
    <2>1. \E l \in {"touch", "embed"} : GoTo(d, l)
        BY <1>5 DEF Verify
    <2>2. pc' \in [Drainers -> Awaits]
        BY <2>1 DEF GoTo, IInv, TypeOK, Awaits, Committed, Dropping
    <2>3. DrainOK'
        BY <1>5, <2>1 DEF Verify, GoTo, Committed, HasJob, database, IInv, TypeOK, DrainOK
    <2> QED BY <1>5, <2>2, <2>3 DEF Verify, IInv, TypeOK, database, bounds
<1>6. CASE Touch(d)
    <2> DEFINE p == run[d].post
               new == [jobs[p] EXCEPT !.status = "done", !.indexedAt = "fresh",
                                      !.failedAt = "null"]
    <2>1. pc[d] \in Committed
        BY <1>6 DEF Touch, Committed
    <2>2. jobs[p] \in JobRow => new \in JobRow
        BY DEF JobRow
    <2>3. /\ jobs' \in [Posts -> JobRow \cup {None}]
          /\ \A q \in Posts : HasJob(q) => HasJob(q)'
        <3>1. CASE batch[d][p].row
            <4>1. jobs[p] \in JobRow
                BY <1>1, <2>1, <3>1 DEF IInv, TypeOK, DrainOK, HasJob
            <4> QED BY <1>1, <1>6, <2>1, <2>2, <4>1, UpdateRowOK DEF Touch
        <3>2. CASE ~batch[d][p].row
            BY <1>6, <3>2 DEF Touch, UpdateRow, IInv, TypeOK, HasJob
        <3> QED BY <3>1, <3>2
    <2> QED BY <1>6, <2>1, <2>3, NextJobOK DEF Touch, IInv, TypeOK, bounds
<1>7. CASE Embed(d)
    <2>1. PICK ok \in SUBSET (1..ChunkCount[run[d].text]) :
              /\ run' = [run EXCEPT ![d].embedded = ok]
              /\ \E l \in {"fail", "store"} : GoTo(d, l)
        BY <1>7 DEF Embed, Embeddings
    <2>2. pc[d] \in Committed
        BY <1>7 DEF Embed, Committed
    <2>3. ok \subseteq Nat
        BY <1>1, <2>2, ConstantsOK DEF Run
    <2>4. /\ run'[d] \in Run /\ run'[d].post = run[d].post
          /\ run' \in [Drainers -> Run \cup {NoRun}]
        BY <1>1, <2>1, <2>2, <2>3 DEF IInv, TypeOK, Run
    <2>5. pc' \in [Drainers -> Awaits]
        BY <2>1 DEF GoTo, IInv, TypeOK, Awaits, Committed
    <2>6. DrainOK'
        BY <1>1, <1>7, <2>1, <2>2, <2>4 DEF Embed, GoTo, HasJob, database, IInv, TypeOK, DrainOK
    <2> QED BY <1>7, <2>4, <2>5, <2>6 DEF Embed, IInv, TypeOK, database, bounds
<1>8. CASE StoreChunk(d)
    <2> DEFINE p   == run[d].post
               i   == run[d].stored + 1
               row == [index |-> i, text |-> run[d].text, board |-> run[d].board,
                       embedded |-> i \in run[d].embedded]
    <2>1. pc[d] \in Committed
        BY <1>8 DEF StoreChunk, Committed
    <2>2. row \in ChunkRow /\ i \in Nat
        BY <1>1, <2>1 DEF ChunkRow, Run
    <2>3. chunks' = [chunks EXCEPT ![p] = {r \in chunks[p] : r.index # i} \cup {row}]
        BY <1>8 DEF StoreChunk
    <2>4. chunks' \in [Posts -> SUBSET ChunkRow]
        BY <1>1, <2>1, <2>2, <2>3 DEF IInv, TypeOK
    <2>5. /\ run'[d] \in Run /\ run'[d].post = run[d].post
          /\ run' \in [Drainers -> Run \cup {NoRun}]
        BY <1>1, <1>8, <2>1, <2>2 DEF StoreChunk, IInv, TypeOK, Run
    <2>6. history' \in [Posts -> [raced: BOOLEAN, torn: BOOLEAN, restored: BOOLEAN]]
        BY <1>8 DEF StoreChunk, IInv, TypeOK
    <2>7. DrainOK'
        BY <1>1, <1>8, <2>1, <2>5 DEF StoreChunk, HasJob, IInv, TypeOK, DrainOK
    <2> QED BY <1>8, <2>4, <2>5, <2>6, <2>7 DEF StoreChunk, IInv, TypeOK, bounds
<1>9. CASE TrimChunks(d)
    <2>1. chunks' \in [Posts -> SUBSET ChunkRow]
        BY <1>9 DEF TrimChunks, Kept, IInv, TypeOK
    <2>2. history' \in [Posts -> [raced: BOOLEAN, torn: BOOLEAN, restored: BOOLEAN]]
        BY <1>9 DEF TrimChunks, Kept, IInv, TypeOK
    <2>3. \E l \in {"finish", "fail"} : GoTo(d, l)
        BY <1>9 DEF TrimChunks, Kept
    <2>4. pc' \in [Drainers -> Awaits]
        BY <2>3 DEF GoTo, IInv, TypeOK, Awaits, Committed
    <2>5. DrainOK'
        BY <1>9, <2>3 DEF TrimChunks, Kept, GoTo, Committed, HasJob, IInv, TypeOK, DrainOK
    <2> QED BY <1>9, <2>1, <2>2, <2>4, <2>5 DEF TrimChunks, Kept, IInv, TypeOK, bounds
<1>10. CASE Finish(d)
    <2> DEFINE p == run[d].post
               new == [jobs[p] EXCEPT !.status = "done", !.contentHash = run[d].text,
                                      !.indexedAt = "fresh", !.failedAt = "null"]
    <2>1. pc[d] \in Committed
        BY <1>10 DEF Finish, Committed
    <2>2. jobs[p] \in JobRow => new \in JobRow
        BY <1>1, <2>1 DEF JobRow, Run
    <2>3. /\ jobs' \in [Posts -> JobRow \cup {None}]
          /\ \A q \in Posts : HasJob(q) => HasJob(q)'
        <3>1. CASE batch[d][p].row
            <4>1. jobs[p] \in JobRow
                BY <1>1, <2>1, <3>1 DEF IInv, TypeOK, DrainOK, HasJob
            <4> QED BY <1>1, <1>10, <2>1, <2>2, <4>1, UpdateRowOK DEF Finish
        <3>2. CASE ~batch[d][p].row
            BY <1>10, <3>2 DEF Finish, UpdateRow, IInv, TypeOK, HasJob
        <3> QED BY <3>1, <3>2
    <2>4. history' \in [Posts -> [raced: BOOLEAN, torn: BOOLEAN, restored: BOOLEAN]]
        BY <1>10 DEF Finish, IInv, TypeOK
    <2> QED BY <1>10, <2>1, <2>3, <2>4, NextJobOK DEF Finish, IInv, TypeOK, bounds
<1>11. CASE RecordFailure(d)
    <2> DEFINE p == run[d].post
               n == batch[d][p].attempts + 1
               failed == n >= MaxAttempts
               new == [jobs[p] EXCEPT !.attempts = n,
                                      !.status = IF failed THEN "failed" ELSE "pending",
                                      !.failedAt = IF failed THEN "fresh" ELSE "null"]
    <2>1. pc[d] \in Committed
        BY <1>11 DEF RecordFailure, Committed
    <2>2. n \in 0..MaxAttempts
        BY <1>1, <2>1, ConstantsOK DEF IInv, DrainOK, Snapshot
    <2>3. jobs[p] \in JobRow => new \in JobRow
        BY <2>2 DEF JobRow
    <2>4. /\ jobs' \in [Posts -> JobRow \cup {None}]
          /\ \A q \in Posts : HasJob(q) => HasJob(q)'
        <3>1. CASE batch[d][p].row
            <4>1. jobs[p] \in JobRow
                BY <1>1, <2>1, <3>1 DEF IInv, TypeOK, DrainOK, HasJob
            <4> QED BY <1>1, <1>11, <2>1, <2>3, <4>1, UpdateRowOK DEF RecordFailure
        <3>2. CASE ~batch[d][p].row
            BY <1>11, <3>2 DEF RecordFailure, UpdateRow, IInv, TypeOK, HasJob
        <3> QED BY <3>1, <3>2
    <2> QED BY <1>11, <2>1, <2>4, NextJobOK DEF RecordFailure, IInv, TypeOK, bounds
<1>12. CASE DropChunks(d)
    <2>1. chunks' \in [Posts -> SUBSET ChunkRow]
        BY <1>12 DEF DropChunks, IInv, TypeOK
    <2>2. pc' \in [Drainers -> Awaits]
        BY <1>12 DEF DropChunks, GoTo, IInv, TypeOK, Awaits, Dropping
    <2>3. DrainOK'
        BY <1>12 DEF DropChunks, GoTo, Dropping, HasJob, IInv, TypeOK, DrainOK
    <2> QED BY <1>12, <2>1, <2>2, <2>3 DEF DropChunks, IInv, TypeOK, bounds
<1>13. CASE DropJob(d)
    <2> DEFINE p == run[d].post
    <2>1. p \in Posts
        BY <1>1, <1>13 DEF DropJob, Dropping
    <2>2. jobs' \in [Posts -> JobRow \cup {None}]
        BY <1>13 DEF DropJob, IInv, TypeOK
    <2>3. RowGone(p) \in [Drainers -> [Posts -> Snapshot \cup {None}]]
        BY <2>1, RowGoneOK
    <2>4. batch' \in [Drainers -> [Posts -> Snapshot \cup {None}]]
        BY <1>13, <2>3 DEF DropJob
    <2>5. pc' \in [Drainers -> Awaits] /\ run' \in [Drainers -> Run \cup {NoRun}]
        BY <1>13 DEF DropJob, GoTo, IInv, TypeOK, Awaits
    <2>6. \A e \in Drainers, q \in Posts :
              batch'[e][q] = IF e = d /\ q = p THEN None ELSE RowGone(p)[e][q]
        BY <1>13, <2>1, <2>3 DEF DropJob
    <2>7. DrainOK'
        <3>1. \A e \in Drainers, q \in Posts :
                  /\ e # d => (batch[e][q] # None <=> batch'[e][q] # None)
                  /\ batch'[e][q] # None =>
                        /\ batch'[e][q].attempts < MaxAttempts
                        /\ batch'[e][q].row => batch[e][q] # None /\ batch[e][q].row /\ q # p
            BY <2>1, <2>6, RowGoneKeeps
        <3>2. \A q \in Posts : HasJob(q) /\ q # p => HasJob(q)'
            BY <1>13 DEF DropJob, HasJob, IInv, TypeOK
        <3>3. /\ pc'[d] = "next"
              /\ \A e \in Drainers : e # d => pc'[e] = pc[e] /\ run'[e] = run[e]
            BY <1>13 DEF DropJob, GoTo, IInv, TypeOK
        <3> QED BY <3>1, <3>2, <3>3 DEF IInv, DrainOK, Run, Committed, Dropping
    <2> QED BY <1>13, <2>2, <2>4, <2>5, <2>7 DEF DropJob, IInv, TypeOK, bounds
<1> QED BY <1>2, <1>3, <1>4, <1>5, <1>6, <1>7, <1>8, <1>9, <1>10, <1>11, <1>12, <1>13 DEF DrainStep

\* A failure or a crash: the drain goes to the catch, or drops all it holds.
LEMMA FaultsOK == ASSUME NEW d \in Drainers, IInv, DrainFault(d) PROVE IInv'
<1>1. pc[d] \in Committed \cup Dropping => run[d] \in Run /\ run[d].post \in Posts
    BY DEF IInv, DrainOK, Run
<1>2. faults' \in 0..MaxFaults
    BY ConstantsOK DEF DrainFault, ReadThrows, RunThrows, DropThrows, DrainThrows, Crash, Fault,
        IInv, TypeOK
<1>3. CASE ReadThrows(d)
    <2>1. PICK p \in Left(d) : Begin(d, p)
        BY <1>3 DEF ReadThrows
    <2>2. run'[d] \in Run /\ run'[d].post = p /\ run' \in [Drainers -> Run \cup {NoRun}]
        BY <2>1 DEF Begin, Left, IInv, TypeOK, Post, Run
    <2>3. pc' \in [Drainers -> Awaits]
        BY <1>3 DEF ReadThrows, GoTo, IInv, TypeOK, Awaits, Committed
    <2>4. DrainOK'
        BY <1>3, <2>1, <2>2 DEF ReadThrows, GoTo, Begin, Left, HasJob, database, IInv, TypeOK, DrainOK
    <2> QED BY <1>2, <1>3, <2>2, <2>3, <2>4 DEF ReadThrows, IInv, TypeOK, database
<1>4. CASE RunThrows(d)
    <2>1. pc' \in [Drainers -> Awaits]
        BY <1>4 DEF RunThrows, GoTo, IInv, TypeOK, Awaits, Committed
    <2>2. DrainOK'
        BY <1>4 DEF RunThrows, GoTo, Committed, HasJob, database, IInv, TypeOK, DrainOK
    <2> QED BY <1>2, <1>4, <2>1, <2>2 DEF RunThrows, IInv, TypeOK, database
<1>5. CASE DropThrows(d)
    <2>1. \A p \in Posts : HasJob(p) => HasJob(p)'
        BY <1>5 DEF DropThrows, database, HasJob
    <2> QED BY <1>2, <1>5, <2>1, NextJobOK DEF DropThrows, IInv, TypeOK, database
<1>6. CASE DrainThrows(d) \/ Crash(d)
    <2>1. pc' = [pc EXCEPT ![d] = "idle"] \/ pc' = [pc EXCEPT ![d] = "release"]
        BY <1>6 DEF DrainThrows, Crash, GoTo
    <2>2. pc' \in [Drainers -> Awaits]
        BY <2>1 DEF IInv, TypeOK, Awaits
    <2> QED BY <1>2, <1>6, <2>1, <2>2, ForgetOK DEF DrainThrows, Crash, IInv, TypeOK, database
<1> QED BY <1>3, <1>4, <1>5, <1>6 DEF DrainFault

LEMMA InitOK == Init => IInv
<1> SUFFICES ASSUME Init PROVE IInv
    OBVIOUS
<1>1. TypeOK
    <2>1. posts \in [Posts -> Post] /\ jobs \in [Posts -> JobRow \cup {None}]
        BY DEF Init
    <2>2. writes \in 0..MaxWrites /\ faults \in 0..MaxFaults
        BY ConstantsOK DEF Init
    <2>3. pc \in [Drainers -> Awaits] /\ batch \in [Drainers -> [Posts -> Snapshot \cup {None}]]
        BY DEF Init, EmptyBatch, Awaits
    <2> QED BY <2>1, <2>2, <2>3 DEF Init, TypeOK
<1>2. DrainOK
    BY DEF Init, DrainOK, EmptyBatch, Committed, Dropping
<1> QED BY <1>1, <1>2 DEF IInv

LEMMA StepOK == IInv /\ [Next]_vars => IInv'
<1>1. IInv /\ UNCHANGED vars => IInv'
    BY DrainOKStays DEF vars, database, drainer, bounds, IInv, TypeOK, HasJob
<1> QED BY <1>1, WritePostsOK, RequestsOK, SweepsOK, LockOK, DrainsOK, FaultsOK DEF Next

\* Every variable keeps its type, whatever drains, writers and failures do.
THEOREM TypeCorrect == Spec => [](TypeOK /\ DrainOK)
BY InitOK, StepOK, PTL DEF Spec, IInv
-----------------------------------------------------------------------------
(* One drain at a time: what the lock is for.  Under SoleDrainer no row is  *)
(* left waiting and no row that was given up is paid for again.            *)

\* A pending row is due because attempts run out only by being given up
\* (AttemptsLeft); a success, which leaves attempts as it is, falls on a row
\* that was still pending (HeldIsPending).
WaitInv == IInv /\ HeldIsPending /\ AttemptsLeft

\* What a step may do to the rows without any drain losing its hold.
LEMMA RowsStay ==
    ASSUME WaitInv, IInv',
           \A d \in Drainers, p \in Posts :
               batch'[d][p] # None /\ batch'[d][p].row => batch[d][p] # None /\ batch[d][p].row,
           \A p \in Posts :
               \/ jobs'[p] = jobs[p]
               \/ jobs'[p] = None /\ \A d \in Drainers : batch'[d][p] # None => ~batch'[d][p].row
               \/ jobs'[p] = Outdated(jobs[p])
    PROVE  HeldIsPending' /\ AttemptsLeft' /\ GivenUpStays
<1>1. ASSUME NEW p \in Posts
      PROVE  \/ jobs'[p] = None /\ \A d \in Drainers : batch'[d][p] # None => ~batch'[d][p].row
             \/ HasJob(p)' <=> HasJob(p)
    BY OutdatedOK DEF HasJob, WaitInv, IInv, TypeOK
<1>2. ASSUME NEW p \in Posts, HasJob(p), HasJob(p)'
      PROVE  jobs'[p].status = jobs[p].status /\ jobs'[p].attempts = jobs[p].attempts
    BY <1>2, OutdatedOK DEF HasJob, WaitInv, IInv, TypeOK
<1>3. HeldIsPending'
    BY <1>1, <1>2 DEF WaitInv, HeldIsPending, Status, HasJob
<1>4. AttemptsLeft'
    BY <1>1, <1>2 DEF WaitInv, AttemptsLeft, HasJob
<1>5. GivenUpStays
    BY <1>1, <1>2 DEF GivenUpStays, GivenUp, Status, HasJob
<1> QED BY <1>3, <1>4, <1>5

\* An upsert makes its row pending, with attempts left, and the sweep passes
\* over rows that were given up and not written since.
LEMMA RowsRevived ==
    ASSUME WaitInv, UNCHANGED batch,
           \A p \in Posts :
               \/ jobs'[p] = jobs[p]
               \/ jobs'[p] = Enqueued(jobs[p])
               \/ jobs'[p] = Swept(jobs[p])
    PROVE  HeldIsPending' /\ AttemptsLeft'
<1>1. ASSUME NEW p \in Posts
      PROVE  \A job \in {Enqueued(jobs[p]), Swept(jobs[p])} :
                 job # None /\ job.status = "pending" /\ job.attempts < MaxAttempts
    <2>1. jobs[p] \in JobRow \cup {None}
        BY DEF WaitInv, IInv, TypeOK
    <2>2. jobs[p] # None /\ jobs[p].status # "failed" => jobs[p].attempts < MaxAttempts
        BY DEF WaitInv, AttemptsLeft, HasJob
    <2> QED BY <2>1, <2>2, ConstantsOK, UpsertOK, NoneIsNew
<1>2. HeldIsPending'
    BY <1>1 DEF WaitInv, HeldIsPending, Status, HasJob
<1>3. AttemptsLeft'
    BY <1>1 DEF WaitInv, AttemptsLeft, HasJob
<1> QED BY <1>2, <1>3

\* The last UPDATE of a run: the drain that makes it held a pending row, and it
\* lets go of it.
LEMMA RowsEnded ==
    ASSUME SoleDrainer, WaitInv, IInv', NEW d \in Drainers, Touch(d) \/ Finish(d) \/ RecordFailure(d)
    PROVE  HeldIsPending' /\ AttemptsLeft' /\ GivenUpStays
<1> DEFINE p == run[d].post
<1>1. p \in Posts /\ batch[d][p] \in Snapshot /\ batch[d][p] # None
    BY DEF Touch, Finish, RecordFailure, Committed, WaitInv, IInv, TypeOK, DrainOK, Run
<1>2. /\ batch'[d][p] = None
      /\ \A q \in Posts : q # p => batch'[d][q] = batch[d][q]
    BY <1>1 DEF Touch, Finish, RecordFailure, NextJob, WaitInv, IInv, TypeOK
<1>3. \A e \in Drainers : e = d
    BY DEF SoleDrainer
<1>4. \A q \in Posts : q # p => jobs'[q] = jobs[q]
    BY DEF Touch, Finish, RecordFailure, UpdateRow, WaitInv, IInv, TypeOK
<1>5. HeldIsPending'
    BY <1>2, <1>3, <1>4 DEF WaitInv, HeldIsPending, Status, HasJob
<1>6. CASE ~batch[d][p].row
    <2>1. jobs' = jobs
        BY <1>6 DEF Touch, Finish, RecordFailure, UpdateRow
    <2> QED BY <1>5, <2>1 DEF WaitInv, AttemptsLeft, GivenUpStays, GivenUp, Status, HasJob
<1>7. CASE batch[d][p].row
    <2>1. jobs[p] \in JobRow /\ jobs[p].status = "pending" /\ jobs[p].attempts < MaxAttempts
        BY <1>1, <1>7 DEF WaitInv, IInv, TypeOK, HeldIsPending, AttemptsLeft, Status, HasJob
    <2>2. jobs'[p].status # "failed" => jobs'[p].attempts < MaxAttempts
        <3>1. CASE Touch(d)
            <4>1. jobs'[p] = [jobs[p] EXCEPT !.status = "done", !.indexedAt = "fresh",
                                             !.failedAt = "null"]
                BY <1>1, <1>7, <3>1 DEF Touch, UpdateRow, WaitInv, IInv, TypeOK
            <4> QED BY <2>1, <4>1 DEF JobRow
        <3>2. CASE Finish(d)
            <4>1. jobs'[p] = [jobs[p] EXCEPT !.status = "done", !.contentHash = run[d].text,
                                             !.indexedAt = "fresh", !.failedAt = "null"]
                BY <1>1, <1>7, <3>2 DEF Finish, UpdateRow, WaitInv, IInv, TypeOK
            <4> QED BY <2>1, <4>1 DEF JobRow
        <3>3. CASE RecordFailure(d)
            <4> DEFINE n == batch[d][p].attempts + 1
            <4>1. jobs'[p] = [jobs[p] EXCEPT !.attempts = n,
                                 !.status = IF n >= MaxAttempts THEN "failed" ELSE "pending",
                                 !.failedAt = IF n >= MaxAttempts THEN "fresh" ELSE "null"]
                BY <1>1, <1>7, <3>3 DEF RecordFailure, UpdateRow, WaitInv, IInv, TypeOK
            <4>2. n \in Nat
                BY <1>1 DEF Snapshot
            <4> HIDE DEF n
            <4>3. jobs'[p].attempts = n /\ (n >= MaxAttempts => jobs'[p].status = "failed")
                BY <2>1, <4>1 DEF JobRow
            <4> QED BY <4>2, <4>3, ConstantsOK
        <3> QED BY <3>1, <3>2, <3>3
    <2>3. AttemptsLeft'
        BY <1>4, <2>2 DEF WaitInv, AttemptsLeft, HasJob
    <2>4. GivenUpStays
        BY <1>4, <2>1 DEF GivenUpStays, GivenUp, Status, HasJob
    <2> QED BY <1>5, <2>3, <2>4
<1> QED BY <1>6, <1>7

\* Every step keeps the rows waiting that a drain holds, and revives no row
\* that was given up, but the enqueue of its post.
LEMMA WaitStep ==
    ASSUME SoleDrainer, WaitInv, [Next]_vars
    PROVE  WaitInv' /\ [GivenUpStays]_vars
<1> USE DEF database, drainer, bounds
<1>1. IInv'
    BY StepOK DEF WaitInv
<1>2. SUFFICES HeldIsPending' /\ AttemptsLeft' /\ [GivenUpStays]_vars
    BY <1>1 DEF WaitInv
<1>3. ASSUME UNCHANGED <<jobs, batch>>
      PROVE  HeldIsPending' /\ AttemptsLeft' /\ GivenUpStays
    BY <1>1, <1>3, RowsStay
<1>4. ASSUME NEW d \in Drainers, UNCHANGED jobs, NextJob(d) \/ Forget(d)
      PROVE  HeldIsPending' /\ AttemptsLeft' /\ GivenUpStays
    <2>1. \A e \in Drainers, p \in Posts : batch'[e][p] # None => batch'[e][p] = batch[e][p]
        <3>1. batch[d] \in [Posts -> Snapshot \cup {None}]
            BY DEF WaitInv, IInv, TypeOK
        <3>2. CASE NextJob(d)
            <4>1. batch' = [batch EXCEPT ![d] = [batch[d] EXCEPT ![run[d].post] = None]]
                BY <3>2 DEF NextJob
            <4> QED BY <3>1, <4>1 DEF WaitInv, IInv, TypeOK
        <3>3. CASE Forget(d)
            BY <3>1, <3>3 DEF Forget, EmptyBatch, WaitInv, IInv, TypeOK
        <3> QED BY <1>4, <3>2, <3>3
    <2> QED BY <1>1, <1>4, <2>1, RowsStay
<1>5. CASE WritePosts
    <2>1. CASE UNCHANGED <<jobs, batch>>
        BY <1>3, <2>1
    <2>2. ASSUME NEW p \in Posts, jobs' = [jobs EXCEPT ![p] = Outdated(jobs[p])], UNCHANGED batch
          PROVE  HeldIsPending' /\ AttemptsLeft' /\ GivenUpStays
        <3>1. \A q \in Posts : jobs'[q] = jobs[q] \/ jobs'[q] = Outdated(jobs[q])
            BY <2>2 DEF WaitInv, IInv, TypeOK
        <3> QED BY <1>1, <2>2, <3>1, RowsStay
    <2> QED BY <1>5, <2>1, <2>2
            DEF WritePosts, AdminSave, CreatePost, EditPost, DeletePost, Write
<1>6. ASSUME NEW w \in Writers, FinishRequest(w)
      PROVE  HeldIsPending' /\ AttemptsLeft' /\ GivenUpStays
    <2> DEFINE p == request[w].post
    <2>1. CASE Enqueue(w)
        <3>1. \A q \in Posts : q # p => jobs'[q] = jobs[q]
            BY <2>1 DEF Enqueue, WaitInv, IInv, TypeOK
        <3>2. \A q \in Posts : jobs'[q] = jobs[q] \/ jobs'[q] = Enqueued(jobs[q])
            BY <2>1, <3>1 DEF Enqueue, WaitInv, IInv, TypeOK
        <3>3. HeldIsPending' /\ AttemptsLeft'
            BY <2>1, <3>2, RowsRevived DEF Enqueue
        <3>4. GivenUpStays
            BY <2>1, <3>1 DEF GivenUpStays, GivenUp, Status, HasJob
        <3> QED BY <3>3, <3>4
    <2>2. CASE RequestDropJob(w)
        <3>1. p \in Posts
            BY <2>2 DEF RequestDropJob, NoRequest, WaitInv, IInv, TypeOK, Request
        <3>2. \A d \in Drainers, q \in Posts : batch'[d][q] # None /\ batch'[d][q].row =>
                  batch[d][q] # None /\ batch[d][q].row /\ q # p
            BY <2>2, <3>1, RowGoneKeeps DEF RequestDropJob, WaitInv
        <3>3. \A q \in Posts : IF q = p THEN jobs'[q] = None ELSE jobs'[q] = jobs[q]
            BY <2>2 DEF RequestDropJob, WaitInv, IInv, TypeOK
        <3> QED BY <1>1, <3>2, <3>3, RowsStay
    <2>3. CASE RequestDropChunks(w) \/ RequestLost(w)
        BY <1>3, <2>3 DEF RequestDropChunks, RequestLost
    <2>4. CASE SavePost(w)
        <3>1. UNCHANGED batch /\ jobs' = [jobs EXCEPT ![p] = Outdated(jobs[p])]
            BY <2>4 DEF SavePost, Write
        <3>2. \A q \in Posts : jobs'[q] = jobs[q] \/ jobs'[q] = Outdated(jobs[q])
            BY <3>1 DEF WaitInv, IInv, TypeOK
        <3> QED BY <1>1, <3>1, <3>2, RowsStay
    <2> QED BY <1>6, <2>1, <2>2, <2>3, <2>4 DEF FinishRequest
<1>7. CASE Sweep \/ SweepLost
    <2>1. CASE SweepJobs
        <3>1. \A q \in Posts :
                  jobs'[q] = jobs[q] \/ (q \in Sweepable /\ jobs'[q] = Swept(jobs[q]))
            <4>1. PICK S \in SUBSET Sweepable :
                      jobs' = [q \in Posts |-> IF q \in S THEN Swept(jobs[q]) ELSE jobs[q]]
                BY <2>1 DEF SweepJobs
            <4> QED BY <4>1
        <3>2. HeldIsPending' /\ AttemptsLeft'
            BY <2>1, <3>1, RowsRevived DEF SweepJobs
        <3>3. GivenUpStays
            BY <3>1 DEF GivenUpStays, GivenUp, Status, HasJob, Sweepable
        <3> QED BY <3>2, <3>3
    <2>2. CASE SweepChunks \/ SweepLost
        BY <1>3, <2>2 DEF SweepChunks, LiveChunks, SweepLost
    <2> QED BY <1>7, <2>1, <2>2 DEF Sweep
<1>8. CASE LockAges
    BY <1>3, <1>8 DEF LockAges
<1>9. ASSUME NEW d \in Drainers, DrainStep(d)
      PROVE  HeldIsPending' /\ AttemptsLeft' /\ GivenUpStays
    <2>1. CASE Touch(d) \/ Finish(d) \/ RecordFailure(d)
        BY <1>1, <2>1, RowsEnded
    <2>2. CASE SelectJobs(d)
        <3>1. \A e \in Drainers, p \in Posts :
                  batch'[e][p] # None => batch'[e][p] = batch[e][p] \/ p \in Due
            BY <2>2 DEF SelectJobs, WaitInv, IInv, TypeOK
        <3>2. jobs' = jobs
            BY <2>2 DEF SelectJobs
        <3>3. HeldIsPending'
            BY <3>1, <3>2 DEF WaitInv, HeldIsPending, Due, Status, HasJob
        <3>4. AttemptsLeft'
            BY <3>2 DEF WaitInv, AttemptsLeft, HasJob
        <3>5. GivenUpStays
            BY <3>2 DEF GivenUpStays, GivenUp, Status, HasJob
        <3> QED BY <3>3, <3>4, <3>5
    <2>3. CASE DropJob(d)
        <3> DEFINE p == run[d].post
        <3>1. p \in Posts
            BY <2>3 DEF DropJob, Dropping, WaitInv, IInv, DrainOK, Run
        <3>2. \A e \in Drainers, q \in Posts :
                  batch'[e][q] = IF e = d /\ q = p THEN None ELSE RowGone(p)[e][q]
            BY <2>3, <3>1, RowGoneOK DEF DropJob, WaitInv
        <3>3. \A e \in Drainers, q \in Posts : batch'[e][q] # None /\ batch'[e][q].row =>
                  batch[e][q] # None /\ batch[e][q].row /\ q # p
            BY <3>1, <3>2, RowGoneKeeps DEF WaitInv
        <3>4. \A q \in Posts : IF q = p THEN jobs'[q] = None ELSE jobs'[q] = jobs[q]
            BY <2>3 DEF DropJob, WaitInv, IInv, TypeOK
        <3> QED BY <1>1, <3>3, <3>4, RowsStay
    <2>4. CASE \/ TryLock(d) \/ ReadLock(d) \/ StealLock(d) \/ Unlock(d) \/ ReadPost(d) \/ Verify(d)
               \/ Embed(d) \/ StoreChunk(d) \/ TrimChunks(d) \/ DropChunks(d)
        <3>1. UNCHANGED <<jobs, batch>>
            BY <2>4 DEF TryLock, ReadLock, StealLock, Unlock, ReadPost, Verify, Embed, StoreChunk,
                  TrimChunks, DropChunks
        <3> QED BY <1>3, <3>1
    <2> QED BY <1>9, <2>1, <2>2, <2>3, <2>4 DEF DrainStep
<1>10. ASSUME NEW d \in Drainers, DrainFault(d)
       PROVE  HeldIsPending' /\ AttemptsLeft' /\ GivenUpStays
    <2>1. CASE ReadThrows(d) \/ RunThrows(d)
        BY <1>3, <2>1 DEF ReadThrows, RunThrows
    <2>2. CASE DropThrows(d) \/ DrainThrows(d) \/ Crash(d)
        BY <1>4, <2>2 DEF DropThrows, DrainThrows, Crash
    <2> QED BY <1>10, <2>1, <2>2 DEF DrainFault
<1>11. CASE UNCHANGED vars
    BY <1>3, <1>11 DEF vars
<1> QED BY <1>5, <1>6, <1>7, <1>8, <1>9, <1>10, <1>11 DEF Next

LEMMA WaitInit == Init => WaitInv
<1> SUFFICES ASSUME Init PROVE WaitInv
    OBVIOUS
<1>1. HeldIsPending /\ AttemptsLeft
    BY DEF Init, EmptyBatch, HeldIsPending, AttemptsLeft, HasJob
<1> QED BY <1>1, InitOK DEF WaitInv

\* While drains do not overlap, no pending row is out of attempts: none waits
\* for a drain that will never select it.
THEOREM PendingRowsAreDue ==
    ASSUME SoleDrainer
    PROVE  Spec => []PendingIsDue
<1>1. WaitInv => PendingIsDue
    BY DEF WaitInv, AttemptsLeft, PendingIsDue, Due, Status, HasJob
<1>2. WaitInv /\ [Next]_vars => WaitInv'
    BY WaitStep
<1> QED BY <1>1, <1>2, WaitInit, PTL DEF Spec

\* While drains do not overlap, a row given up as failed is only revived by a
\* write of its post.
THEOREM GivenUpIsFinal ==
    ASSUME SoleDrainer
    PROVE  Spec => FailedStaysFailed
<1>1. WaitInv /\ [Next]_vars => WaitInv' /\ [GivenUpStays]_vars
    BY WaitStep
<1> QED BY <1>1, WaitInit, PTL DEF Spec, FailedStaysFailed
-----------------------------------------------------------------------------
(* The index of a live post is never emptied, however many drains overlap. *)

RefInv == IInv /\ ReferencesOK

\* No table, drain or request says anything of a post that was never written.
LEMMA RefStep == RefInv /\ [Next]_vars => RefInv'
<1> SUFFICES ASSUME RefInv, [Next]_vars PROVE ReferencesOK'
    BY StepOK DEF RefInv
<1> USE DEF database, drainer, bounds
<1>1. /\ IInv /\ TypeOK /\ DrainOK /\ IInv' /\ TypeOK'
      /\ ReferencesOK
    BY StepOK DEF RefInv, IInv
<1>2. ASSUME NEW d \in Drainers, pc[d] \in Committed \cup Dropping
      PROVE  /\ run[d].post \in Posts
             /\ batch[d][run[d].post] # None
             /\ posts[run[d].post].status # "absent"
    BY <1>1, <1>2 DEF DrainOK, Run, ReferencesOK
<1>3. ASSUME NEW p \in Posts, NEW status \in {"live", "deleted"}, NEW b \in Boards, NEW t \in Texts,
             Write(p, status, b, t),
             \A w \in Writers :
                 \/ request'[w] = request[w]
                 \/ request'[w] = [op |-> "enqueue", post |-> p]
                 \/ status = "deleted" /\ request'[w] = [op |-> "dropChunks", post |-> p]
      PROVE  ReferencesOK'
    <2>1. /\ posts'[p].status = status
          /\ \A q \in Posts : q # p => posts'[q] = posts[q] /\ jobs'[q] = jobs[q]
                                        /\ history'[q] = history[q]
        BY <1>1, <1>3, WriteHistory DEF Write, TypeOK
    <2>2. \A q \in Posts : posts'[q].status = "absent" =>
              /\ ~HasJob(q)' /\ chunks'[q] = {}
              /\ \A d \in Drainers : batch'[d][q] = None
        BY <1>1, <1>3, <2>1 DEF Write, ReferencesOK, HasJob
    <2>3. history'[p].restored = (status = "live" /\ IF posts[p].status = "deleted"
                                                     THEN ~Gone(p) ELSE history[p].restored)
        BY <1>1, <1>3, WriteHistory
    <2>4. \A q \in Posts : Unsteady(q) /\ ~Gone(q) => Unsteady(q)'
        BY <2>1, <2>3 DEF Unsteady
    <2>5. ASSUME NEW w \in Writers
          PROVE  /\ request'[w] # NoRequest => posts'[request'[w].post].status # "absent"
                 /\ request'[w].op \in {"dropChunks", "dropJob"} => Unsteady(request[w].post)'
        <3>1. CASE request'[w] = request[w]
            <4>1. CASE request[w] = NoRequest
                BY <3>1, <4>1 DEF NoRequest
            <4>2. CASE request[w] # NoRequest
                <5>1. request[w].post \in Posts
                    BY <1>1, <4>2 DEF TypeOK, Request
                <5>2. posts'[request[w].post].status # "absent"
                    BY <1>1, <2>1, <4>2, <5>1 DEF ReferencesOK
                <5>3. request[w].op \in {"dropChunks", "dropJob"} => Unsteady(request[w].post)'
                    BY <1>1, <2>4, <3>1, <5>1 DEF ReferencesOK, Gone, Removing
                <5> QED BY <3>1, <5>2, <5>3
            <4> QED BY <4>1, <4>2
        <3>2. CASE request'[w] = [op |-> "enqueue", post |-> p]
            BY <2>1, <3>2
        <3>3. CASE status = "deleted" /\ request'[w] = [op |-> "dropChunks", post |-> p]
            BY <2>1, <3>3 DEF Unsteady
        <3> QED BY <1>3, <3>1, <3>2, <3>3
    <2>6. \A d \in Drainers : pc'[d] \in Dropping => Unsteady(run[d].post)'
        <3> SUFFICES ASSUME NEW d \in Drainers, pc[d] \in Dropping PROVE Unsteady(run[d].post)'
            BY <1>3 DEF Write
        <3>1. Unsteady(run[d].post) /\ ~Gone(run[d].post) /\ run[d].post \in Posts
            BY <1>1, <1>2 DEF ReferencesOK, Gone
        <3>2. run' = run
            BY <1>3 DEF Write
        <3> QED BY <2>4, <3>1, <3>2
    <2> QED BY <2>2, <2>5, <2>6 DEF ReferencesOK
<1>4. CASE WritePosts
    <2>1. \A p \in Posts : posts[p].board \in Boards /\ posts[p].text \in Texts
        BY <1>1 DEF TypeOK, Post
    <2>2. ASSUME NEW p \in Posts, AdminSave(p) PROVE ReferencesOK'
        BY <1>3, <2>2 DEF AdminSave
    <2>3. ASSUME NEW p \in Posts, NEW w \in Writers, CreatePost(w, p) \/ DeletePost(w, p)
          PROVE  ReferencesOK'
        <3>1. PICK status \in {"live", "deleted"} :
                  /\ \E b \in Boards, t \in Texts : Write(p, status, b, t)
                  /\ Background(w, IF status = "live" THEN "enqueue" ELSE "dropChunks", p)
            BY <2>1, <2>3, ConstantsOK DEF CreatePost, DeletePost
        <3>2. \A v \in Writers :
                 \/ request'[v] = request[v]
                 \/ request'[v] = [op |-> "enqueue", post |-> p]
                 \/ status = "deleted" /\ request'[v] = [op |-> "dropChunks", post |-> p]
            BY <1>1, <3>1 DEF Background, TypeOK
        <3> QED BY <1>3, <3>1, <3>2
    <2>4. ASSUME NEW p \in Posts, NEW w \in Writers, EditPost(w, p) PROVE ReferencesOK'
        <3>1. posts' = posts /\ jobs' = jobs /\ chunks' = chunks /\ pc' = pc /\ batch' = batch
                  /\ run' = run /\ history' = history /\ posts[p].status = "live"
            BY <2>4 DEF EditPost, Live
        <3>2. \A v \in Writers : request'[v] = request[v] \/ request'[v] = [op |-> "save", post |-> p]
            BY <1>1, <2>4 DEF EditPost, Background, TypeOK
        <3>3. ASSUME NEW v \in Writers
              PROVE  /\ request'[v] # NoRequest => posts'[request'[v].post].status # "absent"
                     /\ request'[v].op \in {"dropChunks", "dropJob"} => Unsteady(request[v].post)'
            <4>1. CASE request'[v] = request[v]
                BY <1>1, <3>1, <4>1 DEF ReferencesOK, Unsteady
            <4>2. CASE request'[v] = [op |-> "save", post |-> p]
                BY <3>1, <4>2
            <4> QED BY <3>2, <4>1, <4>2
        <3> QED BY <1>1, <3>1, <3>3 DEF ReferencesOK, HasJob, Unsteady
    <2> QED BY <1>4, <2>2, <2>3, <2>4 DEF WritePosts
\* Steps that leave the posts alone.
<1>5. ASSUME UNCHANGED posts, \A q \in Posts : history'[q].restored = history[q].restored,
             \A p \in Posts : posts[p].status = "absent" =>
                 jobs'[p] = jobs[p] /\ chunks'[p] \subseteq chunks[p]
                     /\ \A d \in Drainers : batch[d][p] = None => batch'[d][p] = None,
             \A w \in Writers :
                 \/ request'[w] = request[w]
                 \/ request'[w] = NoRequest
                 \/ request[w].op = "dropChunks" /\ request'[w] = [request[w] EXCEPT !.op = "dropJob"],
             \A d \in Drainers : pc'[d] \in Dropping =>
                 \/ pc[d] \in Dropping /\ run'[d] = run[d]
                 \/ Unsteady(run'[d].post)
      PROVE  ReferencesOK'
    <2>4. \A q \in Posts : Unsteady(q) => Unsteady(q)'
        BY <1>5 DEF Unsteady
    <2>1. ASSUME NEW w \in Writers
          PROVE  /\ request'[w] # NoRequest => posts'[request'[w].post].status # "absent"
                 /\ request'[w].op \in {"dropChunks", "dropJob"} => Unsteady(request[w].post)'
        <3>1. CASE request'[w] = NoRequest
            BY <3>1 DEF NoRequest
        <3>2. CASE request[w].op = "dropChunks" /\ request'[w] = [request[w] EXCEPT !.op = "dropJob"]
            <4>1. request[w] \in Request
                BY <1>1, <3>2 DEF TypeOK, NoRequest
            <4>2. request'[w].post = request[w].post /\ request[w].post \in Posts
                BY <3>2, <4>1 DEF Request
            <4> QED BY <1>1, <1>5, <2>4, <3>2, <4>2 DEF ReferencesOK, NoRequest
        <3>3. CASE request'[w] = request[w] /\ request[w] # NoRequest
            <4>1. request[w].post \in Posts
                BY <1>1, <3>3 DEF TypeOK, Request
            <4> QED BY <1>1, <1>5, <2>4, <3>3, <4>1 DEF ReferencesOK
        <3> QED BY <1>5, <3>1, <3>2, <3>3
    <2>2. \A d \in Drainers : pc'[d] \in Dropping => Unsteady(run[d].post)'
        <3> SUFFICES ASSUME NEW d \in Drainers, pc'[d] \in Dropping PROVE Unsteady(run[d].post)'
            OBVIOUS
        <3>1. run'[d].post \in Posts
            BY <1>1 DEF DrainOK, Run, IInv
        <3> QED BY <1>1, <1>5, <2>4, <3>1 DEF ReferencesOK
    <2>3. \A q \in Posts : posts'[q].status = "absent" =>
              /\ ~HasJob(q)' /\ chunks'[q] = {}
              /\ \A d \in Drainers : batch'[d][q] = None
        BY <1>1, <1>5 DEF ReferencesOK, HasJob
    <2> QED BY <2>1, <2>2, <2>3 DEF ReferencesOK
<1>6. ASSUME NEW w \in Writers, FinishRequest(w)
      PROVE  ReferencesOK'
    <2> DEFINE p == request[w].post
    <2>1. request[w] # NoRequest => request[w] \in Request /\ p \in Posts /\ posts[p].status # "absent"
        BY <1>1 DEF TypeOK, Request, ReferencesOK
    <2>2. CASE Enqueue(w)
        <3>1. \A q \in Posts : q # p => jobs'[q] = jobs[q]
            BY <1>1, <2>2 DEF Enqueue, TypeOK
        <3>2. \A v \in Writers : request'[v] = request[v] \/ request'[v] = NoRequest
            BY <1>1, <2>2 DEF Enqueue, Answered, TypeOK
        <3> QED BY <1>5, <2>1, <2>2, <3>1, <3>2 DEF Enqueue, NoRequest
    <2>3. CASE RequestDropChunks(w)
        <3>1. \A q \in Posts : chunks'[q] \subseteq chunks[q]
            BY <1>1, <2>3 DEF RequestDropChunks, TypeOK
        <3>2. \A v \in Writers :
                  \/ request'[v] = request[v]
                  \/ request[v].op = "dropChunks" /\ request'[v] = [request[v] EXCEPT !.op = "dropJob"]
            BY <1>1, <2>3 DEF RequestDropChunks, TypeOK
        <3> QED BY <1>5, <2>3, <3>1, <3>2 DEF RequestDropChunks
    <2>4. CASE RequestDropJob(w)
        <3>1. \A q \in Posts : q # p => jobs'[q] = jobs[q]
            BY <1>1, <2>4 DEF RequestDropJob, TypeOK
        <3>2. \A v \in Writers : request'[v] = request[v] \/ request'[v] = NoRequest
            BY <1>1, <2>4 DEF RequestDropJob, Answered, TypeOK
        <3>3. p \in Posts /\ posts[p].status # "absent"
            BY <2>1, <2>4 DEF RequestDropJob, NoRequest
        <3>4. \A d \in Drainers, q \in Posts : batch[d][q] = None => batch'[d][q] = None
            BY <1>1, <2>4, <3>3, RowGoneKeeps DEF RequestDropJob
        <3> QED BY <1>5, <2>4, <3>1, <3>2, <3>3, <3>4 DEF RequestDropJob
    <2>5. CASE RequestLost(w)
        <3>1. \A v \in Writers : request'[v] = request[v] \/ request'[v] = NoRequest
            BY <1>1, <2>5 DEF RequestLost, Answered, TypeOK
        <3> QED BY <1>5, <2>5, <3>1 DEF RequestLost
    <2>6. CASE SavePost(w)
        <3>1. PICK status \in {"live", posts[p].status} :
                  \E t \in Texts, b \in Boards : Write(p, status, b, t)
            BY <2>6 DEF SavePost
        <3>2. request[w] \in Request /\ p \in Posts /\ status \in {"live", "deleted"}
            BY <1>1, <2>1, <2>6, <3>1 DEF SavePost, NoRequest, TypeOK, Post
        <3>3. [request[w] EXCEPT !.op = "enqueue"] = [op |-> "enqueue", post |-> p]
            BY <3>2 DEF Request
        <3>4. \A v \in Writers :
                  request'[v] = request[v] \/ request'[v] = [op |-> "enqueue", post |-> p]
            BY <1>1, <2>6, <3>3 DEF SavePost, TypeOK
        <3> QED BY <1>3, <3>1, <3>2, <3>4
    <2> QED BY <1>6, <2>2, <2>3, <2>4, <2>5, <2>6 DEF FinishRequest
<1>7. CASE Sweep \/ SweepLost
    <2>1. CASE SweepJobs
        <3>1. PICK S \in SUBSET Sweepable :
                  jobs' = [q \in Posts |-> IF q \in S THEN Swept(jobs[q]) ELSE jobs[q]]
            BY <2>1 DEF SweepJobs
        <3>2. \A q \in Posts : posts[q].status = "absent" => jobs'[q] = jobs[q]
            BY <3>1 DEF Sweepable, Live
        <3> QED BY <1>5, <2>1, <3>2 DEF SweepJobs
    <2>2. CASE SweepChunks
        <3>1. \A q \in Posts : chunks'[q] \subseteq chunks[q]
            BY <2>2 DEF SweepChunks, LiveChunks
        <3> QED BY <1>5, <2>2, <3>1 DEF SweepChunks, LiveChunks
    <2>3. CASE SweepLost
        BY <1>5, <2>3 DEF SweepLost
    <2> QED BY <1>7, <2>1, <2>2, <2>3 DEF Sweep
<1>8. CASE LockAges
    BY <1>5, <1>8 DEF LockAges
\* A drain that lets go of what it holds goes on to nothing new.
<1>9. ASSUME NEW d \in Drainers, NextJob(d) \/ (Forget(d) /\ \E l \in {"idle", "release"} : GoTo(d, l))
      PROVE  /\ \A e \in Drainers, q \in Posts : batch[e][q] = None => batch'[e][q] = None
             /\ \A e \in Drainers : pc'[e] \in Dropping => pc[e] \in Dropping /\ run'[e] = run[e]
    <2>1. batch[d] \in [Posts -> Snapshot \cup {None}]
        BY <1>1 DEF TypeOK
    <2>2. CASE NextJob(d)
        <3>1. batch' = [batch EXCEPT ![d] = [batch[d] EXCEPT ![run[d].post] = None]]
            BY <2>2 DEF NextJob
        <3>2. \A e \in Drainers, q \in Posts : batch[e][q] = None => batch'[e][q] = None
            BY <1>1, <2>1, <3>1 DEF TypeOK
        <3> QED BY <1>1, <2>2, <3>2 DEF NextJob, GoTo, TypeOK, Dropping
    <2>3. CASE Forget(d) /\ \E l \in {"idle", "release"} : GoTo(d, l)
        BY <1>1, <2>1, <2>3 DEF Forget, EmptyBatch, GoTo, TypeOK, Dropping
    <2> QED BY <1>9, <2>2, <2>3
<1>10. ASSUME NEW d \in Drainers, DrainStep(d)
       PROVE  ReferencesOK'
    <2> DEFINE p == run[d].post
    <2>1. CASE Touch(d) \/ Finish(d) \/ RecordFailure(d)
        <3>1. \A q \in Posts : posts[q].status = "absent" => jobs'[q] = jobs[q]
            BY <1>1, <1>2, <2>1 DEF Touch, Finish, RecordFailure, UpdateRow, Committed, TypeOK
        <3>2. NextJob(d) /\ UNCHANGED <<posts, chunks, request>>
            BY <2>1 DEF Touch, Finish, RecordFailure
        <3>3. \A q \in Posts : history'[q].restored = history[q].restored
            <4>1. CASE Finish(d)
                BY <1>1, <1>2, <4>1, TornHistory DEF Finish, Committed
            <4> QED BY <2>1, <4>1 DEF Touch, RecordFailure
        <3> QED BY <1>5, <1>9, <3>1, <3>2, <3>3
    <2>2. CASE SelectJobs(d)
        <3>1. \A e \in Drainers, q \in Posts : batch[e][q] = None => batch'[e][q] = None \/ q \in Due
            BY <1>1, <2>2 DEF SelectJobs, TypeOK
        <3>2. \A q \in Posts : posts[q].status = "absent" => q \notin Due
            BY <1>1 DEF Due, ReferencesOK
        <3>3. \A e \in Drainers : pc'[e] \in Dropping => pc[e] \in Dropping
            BY <1>1, <2>2 DEF SelectJobs, GoTo, TypeOK, Dropping
        <3> QED BY <1>5, <2>2, <3>1, <3>2, <3>3 DEF SelectJobs
    <2>3. CASE ReadPost(d)
        <3>1. PICK q \in Left(d) : Begin(d, q) /\ (pc'[d] \in Dropping => ~Live(q))
            BY <1>1, <2>3 DEF ReadPost, GoTo, TypeOK, Dropping
        <3>2. q \in Posts /\ posts[q].status # "absent" /\ run'[d].post = q
            BY <1>1, <3>1 DEF Left, ReferencesOK, Begin, TypeOK
        <3>3. pc'[d] \in Dropping => Unsteady(run'[d].post)
            BY <1>1, <3>1, <3>2 DEF Live, Unsteady, TypeOK, Post
        <3>4. \A e \in Drainers : e # d => pc'[e] = pc[e] /\ run'[e] = run[e]
            BY <1>1, <2>3, <3>1 DEF ReadPost, GoTo, Begin, TypeOK
        <3>5. \A e \in Drainers : pc'[e] \in Dropping =>
                  \/ pc[e] \in Dropping /\ run'[e] = run[e]
                  \/ Unsteady(run'[e].post)
            BY <3>3, <3>4
        <3> QED BY <1>5, <2>3, <3>5 DEF ReadPost
    <2>4. CASE StoreChunk(d) \/ TrimChunks(d)
        <3>1. p \in Posts /\ posts[p].status # "absent"
            BY <1>2, <2>4 DEF StoreChunk, TrimChunks, Kept, Committed
        <3>2. \A q \in Posts : q # p => chunks'[q] = chunks[q]
            BY <1>1, <2>4 DEF StoreChunk, TrimChunks, Kept, TypeOK
        <3>3. \A e \in Drainers : pc'[e] \in Dropping => pc[e] \in Dropping /\ run'[e] = run[e]
            BY <1>1, <2>4 DEF StoreChunk, TrimChunks, Kept, GoTo, TypeOK, Dropping
        <3>4. UNCHANGED <<posts, jobs, batch, request>>
            BY <2>4 DEF StoreChunk, TrimChunks, Kept
        <3>5. \A q \in Posts : history'[q].restored = history[q].restored
            <4>1. history' = [history EXCEPT ![p].torn = TRUE]
                BY <2>4 DEF StoreChunk, TrimChunks
            <4> HIDE DEF p
            <4> QED BY <1>2, <3>1, <4>1, TornHistory
        <3> QED BY <1>5, <3>1, <3>2, <3>3, <3>4, <3>5
    <2>5. CASE DropChunks(d)
        <3>1. \A q \in Posts : chunks'[q] \subseteq chunks[q]
            BY <1>1, <2>5 DEF DropChunks, TypeOK
        <3>2. \A e \in Drainers : pc'[e] \in Dropping => pc[e] \in Dropping
            BY <1>1, <2>5 DEF DropChunks, GoTo, TypeOK, Dropping
        <3> QED BY <1>5, <2>5, <3>1, <3>2 DEF DropChunks
    <2>6. CASE DropJob(d)
        <3>1. p \in Posts /\ posts[p].status # "absent"
            BY <1>2, <2>6 DEF DropJob, Dropping
        <3>2. \A q \in Posts : q # p => jobs'[q] = jobs[q]
            BY <1>1, <2>6 DEF DropJob, TypeOK
        <3>3. \A e \in Drainers, q \in Posts : batch[e][q] = None => batch'[e][q] = None
            BY <1>1, <2>6, <3>1, RowGoneOK, RowGoneKeeps DEF DropJob
        <3>4. \A e \in Drainers : pc'[e] \in Dropping => pc[e] \in Dropping /\ run'[e] = run[e]
            BY <1>1, <2>6 DEF DropJob, GoTo, TypeOK, Dropping
        <3> QED BY <1>5, <2>6, <3>1, <3>2, <3>3, <3>4 DEF DropJob
    <2>7. CASE TryLock(d) \/ ReadLock(d) \/ StealLock(d) \/ Unlock(d) \/ Verify(d) \/ Embed(d)
        <3>1. UNCHANGED <<posts, jobs, chunks, batch, request, history>>
            BY <2>7 DEF TryLock, ReadLock, StealLock, Unlock, Verify, Embed
        <3>2. \A e \in Drainers : pc'[e] \in Dropping => pc[e] \in Dropping /\ run'[e] = run[e]
            BY <1>1, <2>7 DEF TryLock, ReadLock, StealLock, Unlock, Verify, Embed, GoTo, TypeOK, Dropping
        <3> QED BY <1>5, <3>1, <3>2
    <2> QED BY <1>10, <2>1, <2>2, <2>3, <2>4, <2>5, <2>6, <2>7 DEF DrainStep
<1>11. ASSUME NEW d \in Drainers, DrainFault(d)
       PROVE  ReferencesOK'
    <2>1. CASE ReadThrows(d) \/ RunThrows(d)
        <3>1. UNCHANGED <<posts, jobs, chunks, batch, request, history>>
            BY <2>1 DEF ReadThrows, RunThrows
        <3>2. \A e \in Drainers : pc'[e] \in Dropping => pc[e] \in Dropping /\ run'[e] = run[e]
            BY <1>1, <2>1 DEF ReadThrows, RunThrows, Begin, GoTo, TypeOK, Dropping
        <3> QED BY <1>5, <3>1, <3>2
    <2>2. CASE DropThrows(d) \/ DrainThrows(d) \/ Crash(d)
        <3>1. NextJob(d) \/ (Forget(d) /\ \E l \in {"idle", "release"} : GoTo(d, l))
            BY <2>2 DEF DropThrows, DrainThrows, Crash
        <3>2. UNCHANGED <<posts, jobs, chunks, request, history>>
            BY <2>2 DEF DropThrows, DrainThrows, Crash
        <3> QED BY <1>5, <1>9, <3>1, <3>2
    <2> QED BY <1>11, <2>1, <2>2 DEF DrainFault
<1>12. CASE UNCHANGED vars
    BY <1>5, <1>12 DEF vars
<1> QED BY <1>4, <1>6, <1>7, <1>8, <1>10, <1>11, <1>12 DEF Next

ChunkInv == RefInv /\ FirstChunkStays

\* What StoreChunk and TrimChunks do to the chunks of a live post: the first
\* one stays, or is the one that is stored.
LEMMA ChunksStored ==
    ASSUME \A t \in Texts : ChunkCount[t] > 0, ChunkInv, IInv', NEW d \in Drainers,
           StoreChunk(d) \/ TrimChunks(d)
    PROVE  FirstChunkStays' /\ IndexStays
<1> DEFINE p == run[d].post
           n == ChunkCount[run[d].text]
           First(rows) == \E r \in rows : r.index = 1
<1>1. TypeOK /\ DrainOK
    BY DEF ChunkInv, RefInv, IInv
<1>2. pc[d] \in Committed /\ run[d] \in Run /\ p \in Posts /\ n \in Nat /\ n > 0
    BY <1>1, ConstantsOK DEF StoreChunk, TrimChunks, Kept, Committed, DrainOK, Run
<1>3. \A q \in Posts : Steady(q) =>
          /\ chunks[q] # {} => First(chunks[q])
          /\ \A e \in Drainers : Indexing(e, q) /\ run[e].stored > 0 => chunks[q] # {}
    BY DEF ChunkInv, FirstChunkStays
<1>4. posts' = posts /\ \A q \in Posts : q # p => chunks'[q] = chunks[q]
    BY <1>1 DEF StoreChunk, TrimChunks, Kept, TypeOK
<1>5. Steady(p) => First(chunks'[p])
    <2> SUFFICES ASSUME Steady(p) PROVE First(chunks'[p])
        OBVIOUS
    <2>1. run[d].stored > 0 => First(chunks[p])
        BY <1>2, <1>3 DEF Indexing
    <2>2. CASE StoreChunk(d)
        <3> DEFINE i   == run[d].stored + 1
                   row == [index |-> i, text |-> run[d].text, board |-> run[d].board,
                           embedded |-> i \in run[d].embedded]
        <3>1. chunks'[p] = {r \in chunks[p] : r.index # i} \cup {row}
            BY <1>1, <1>2, <2>2 DEF StoreChunk, TypeOK
        <3>2. row.index = run[d].stored + 1 /\ run[d].stored \in Nat
            BY <1>2 DEF Run
        <3> HIDE DEF row
        <3> QED BY <2>1, <3>1, <3>2
    <2>3. CASE TrimChunks(d)
        <3>1. chunks'[p] = {r \in chunks[p] : r.index <= n} /\ run[d].stored = n
            BY <1>1, <1>2, <2>3 DEF TrimChunks, Kept, TypeOK
        <3> QED BY <1>2, <2>1, <3>1
    <2> QED BY <2>2, <2>3
<1>6. \A e \in Drainers, q \in Posts : q # p =>
          (Indexing(e, q)' => Indexing(e, q) /\ run'[e].stored = run[e].stored)
    <2>1. run' = run \/ run' = [run EXCEPT ![d].stored = run[d].stored + 1]
        BY DEF StoreChunk, TrimChunks, Kept
    <2>2. \A e \in Drainers : e # d => pc'[e] = pc[e] /\ run'[e] = run[e]
        BY <1>1, <2>1 DEF StoreChunk, TrimChunks, Kept, GoTo, TypeOK
    <2>3. run'[d].post = p
        BY <1>1, <1>2, <2>1 DEF TypeOK, Run
    <2> QED BY <2>2, <2>3 DEF Indexing
<1>7. \A q \in Posts : Steady(q)' <=> Steady(q)
    <2>1. history' = [history EXCEPT ![p].torn = TRUE]
        BY DEF StoreChunk, TrimChunks
    <2>2. \A q \in Posts : history'[q].restored = history[q].restored
        <3> HIDE DEF p
        <3> QED BY <1>2, <2>1, TornHistory DEF ChunkInv, RefInv
    <2> QED BY <1>4, <2>2 DEF Steady, Live
<1>8. FirstChunkStays'
    BY <1>3, <1>4, <1>5, <1>6, <1>7 DEF FirstChunkStays
<1>9. IndexStays
    BY <1>4, <1>5, <1>7 DEF IndexStays
<1> QED BY <1>8, <1>9

\* Every other step leaves the chunks of a live post as they are; a post that was
\* deleted comes back with none.
LEMMA ChunksStay ==
    ASSUME ChunkInv,
           \A p \in Posts : Steady(p)' =>
               /\ posts[p].status = "absent" \/ Gone(p) \/ Steady(p)
               /\ chunks'[p] = chunks[p]
               /\ \A d \in Drainers : Indexing(d, p)' =>
                     run'[d].stored = 0 \/ (Indexing(d, p) /\ run'[d].stored = run[d].stored)
    PROVE  FirstChunkStays' /\ IndexStays
<1>1. \A p \in Posts : posts[p].status = "absent" \/ Gone(p) =>
          /\ chunks[p] = {}
          /\ \A d \in Drainers : ~Indexing(d, p)
    BY DEF ChunkInv, RefInv, IInv, DrainOK, ReferencesOK, Indexing, Gone
<1>2. FirstChunkStays'
    BY <1>1 DEF ChunkInv, FirstChunkStays
<1>3. IndexStays
    BY DEF IndexStays
<1> QED BY <1>2, <1>3

LEMMA ChunkStep ==
    ASSUME \A t \in Texts : ChunkCount[t] > 0, ChunkInv, [Next]_vars
    PROVE  ChunkInv' /\ [IndexStays]_vars
<1> USE DEF database, drainer, bounds
<1>1. /\ TypeOK /\ DrainOK /\ ReferencesOK
      /\ IInv /\ IInv' /\ TypeOK' /\ RefInv'
    BY StepOK, RefStep DEF ChunkInv, RefInv, IInv
<1>2. SUFFICES FirstChunkStays' /\ [IndexStays]_vars
    BY <1>1 DEF ChunkInv
<1>3. ASSUME UNCHANGED <<posts, chunks>>,
             \A p \in Posts : history'[p].restored = history[p].restored,
             \A p \in Posts, d \in Drainers : Indexing(d, p)' =>
                 run'[d].stored = 0 \/ (Indexing(d, p) /\ run'[d].stored = run[d].stored)
      PROVE  FirstChunkStays' /\ IndexStays
    <2>1. \A p \in Posts : Steady(p)' => Steady(p)
        BY <1>3 DEF Steady, Live
    <2> QED BY <1>3, <2>1, ChunksStay
<1>4. ASSUME UNCHANGED <<posts, chunks, pc, run, history>>
      PROVE  FirstChunkStays' /\ IndexStays
    BY <1>3, <1>4 DEF Indexing
<1>5. ASSUME NEW p \in Posts, NEW status \in {"live", "deleted"}, NEW board, NEW text,
             Write(p, status, board, text)
      PROVE  FirstChunkStays' /\ IndexStays
    <2>1. /\ UNCHANGED <<chunks, pc, run>>
          /\ posts'[p].status = status
          /\ \A q \in Posts : q # p => posts'[q] = posts[q]
        BY <1>1, <1>5 DEF Write, TypeOK
    <2>2. /\ \A q \in Posts : q # p => history'[q] = history[q]
          /\ history'[p].restored = (status = "live" /\ IF posts[p].status = "deleted" THEN ~Gone(p)
                                                        ELSE history[p].restored)
        BY <1>1, <1>5, WriteHistory
    <2>3. posts[p].status \in {"absent", "live", "deleted"}
        BY <1>1 DEF TypeOK, Post
    <2>4. \A q \in Posts : Steady(q)' => posts[q].status = "absent" \/ Gone(q) \/ Steady(q)
        BY <2>1, <2>2, <2>3 DEF Steady, Live
    <2> QED BY <2>1, <2>4, ChunksStay DEF Indexing
<1>6. CASE WritePosts
    <2>1. CASE \E p \in Posts, w \in Writers : EditPost(w, p)
        BY <1>4, <2>1 DEF EditPost
    <2>2. CASE ~\E p \in Posts, w \in Writers : EditPost(w, p)
        BY <1>5, <1>6, <2>2 DEF WritePosts, AdminSave, CreatePost, DeletePost
    <2> QED BY <2>1, <2>2
<1>7. ASSUME NEW w \in Writers, FinishRequest(w)
      PROVE  FirstChunkStays' /\ IndexStays
    <2>1. CASE RequestDropChunks(w)
        <3>1. Unsteady(request[w].post)
            BY <1>1, <2>1 DEF RequestDropChunks, ReferencesOK
        <3>2. \A q \in Posts : q # request[w].post => chunks'[q] = chunks[q]
            BY <1>1, <2>1 DEF RequestDropChunks, TypeOK
        <3>3. UNCHANGED <<posts, pc, run, history>>
            BY <2>1 DEF RequestDropChunks
        <3>4. \A q \in Posts : Steady(q)' => Steady(q) /\ q # request[w].post
            BY <3>1, <3>3 DEF Steady, Live, Unsteady
        <3> QED BY <3>2, <3>3, <3>4, ChunksStay DEF Indexing
    <2>2. CASE Enqueue(w) \/ RequestDropJob(w) \/ RequestLost(w)
        BY <1>4, <2>2 DEF Enqueue, RequestDropJob, RequestLost
    <2>3. CASE SavePost(w)
        <3>1. request[w].post \in Posts
            BY <1>1, <2>3 DEF SavePost, ReferencesOK, TypeOK, Request, NoRequest
        <3>2. PICK status \in {"live", posts[request[w].post].status} :
                  \E t \in Texts, b \in Boards : Write(request[w].post, status, b, t)
            BY <2>3 DEF SavePost
        <3>3. status \in {"live", "deleted"}
            <4>1. request[w] # NoRequest
                BY <2>3 DEF SavePost, NoRequest
            <4>2. posts[request[w].post].status # "absent"
                BY <1>1, <4>1 DEF ReferencesOK
            <4> QED BY <1>1, <3>1, <4>2 DEF TypeOK, Post
        <3> QED BY <1>5, <3>1, <3>2, <3>3
    <2> QED BY <1>7, <2>1, <2>2, <2>3 DEF FinishRequest
<1>8. CASE Sweep \/ SweepLost
    <2>1. CASE SweepChunks
        BY <2>1, ChunksStay DEF SweepChunks, LiveChunks, Steady, Live, Indexing
    <2>2. CASE SweepJobs \/ SweepLost
        BY <1>4, <2>2 DEF SweepJobs, SweepLost
    <2> QED BY <1>8, <2>1, <2>2 DEF Sweep
<1>9. CASE LockAges
    BY <1>4, <1>9 DEF LockAges
<1>10. ASSUME NEW d \in Drainers, DrainStep(d) \/ DrainFault(d)
      PROVE  FirstChunkStays' /\ IndexStays
    <2>1. \A e \in Drainers : e # d => pc'[e] = pc[e] /\ run'[e] = run[e]
        BY <1>1, <1>10 DEF DrainStep, TryLock, ReadLock, StealLock, Unlock, SelectJobs, ReadPost,
              Verify, Touch, Embed, StoreChunk, TrimChunks, Kept, Finish, RecordFailure, DropChunks,
              DropJob, DrainFault, ReadThrows, RunThrows, DropThrows, DrainThrows, Crash,
              GoTo, NextJob, Forget, Begin, TypeOK
    <2>2. ASSUME UNCHANGED <<posts, chunks>>,
                 \A p \in Posts : history'[p].restored = history[p].restored,
                 \/ pc'[d] \notin Committed
                 \/ run'[d].stored = 0
                 \/ /\ pc[d] \in Committed /\ run'[d].post = run[d].post
                    /\ run'[d].stored = run[d].stored
          PROVE  FirstChunkStays' /\ IndexStays
        BY <1>3, <2>1, <2>2 DEF Indexing
    <2>3. CASE StoreChunk(d) \/ TrimChunks(d)
        BY <1>1, <2>3, ChunksStored
    <2>4. CASE DropChunks(d)
        <3>1. Unsteady(run[d].post)
            BY <1>1, <2>4 DEF DropChunks, ReferencesOK, Dropping
        <3>2. \A q \in Posts : q # run[d].post => chunks'[q] = chunks[q]
            BY <1>1, <2>4 DEF DropChunks, TypeOK
        <3>3. UNCHANGED <<posts, history, run>> /\ pc'[d] \notin Committed
            BY <1>1, <2>4 DEF DropChunks, GoTo, TypeOK, Committed
        <3>4. \A q \in Posts : Steady(q)' => Steady(q) /\ q # run[d].post
            BY <3>1, <3>3 DEF Steady, Live, Unsteady
        <3> QED BY <2>1, <3>2, <3>3, <3>4, ChunksStay DEF Indexing
    <2>5. CASE ReadPost(d) \/ ReadThrows(d)
        BY <1>1, <2>2, <2>5 DEF ReadPost, ReadThrows, Begin, TypeOK
    <2>6. CASE Embed(d)
        <3>1. run[d] \in Run
            BY <1>1, <2>6 DEF Embed, DrainOK, Committed
        <3>2. run'[d].post = run[d].post /\ run'[d].stored = run[d].stored
            BY <1>1, <2>6, <3>1 DEF Embed, TypeOK, Run
        <3> QED BY <2>2, <2>6, <3>2 DEF Embed, Committed
    <2>7. CASE Verify(d) \/ RunThrows(d)
        BY <2>2, <2>7 DEF Verify, RunThrows, Committed
    <2>8. CASE \/ TryLock(d) \/ ReadLock(d) \/ StealLock(d) \/ Unlock(d) \/ SelectJobs(d) \/ Touch(d)
               \/ Finish(d) \/ RecordFailure(d) \/ DropJob(d)
               \/ DropThrows(d) \/ DrainThrows(d) \/ Crash(d)
        <3>1. pc'[d] \notin Committed
            BY <1>1, <2>8 DEF TryLock, ReadLock, StealLock, Unlock, SelectJobs, Touch, Finish,
                  RecordFailure, DropJob, DropThrows, DrainThrows, Crash, GoTo, NextJob,
                  TypeOK, Committed
        <3>2. UNCHANGED <<posts, chunks>>
            BY <2>8 DEF TryLock, ReadLock, StealLock, Unlock, SelectJobs, Touch, Finish,
                  RecordFailure, DropJob, DropThrows, DrainThrows, Crash
        <3>3. \A p \in Posts : history'[p].restored = history[p].restored
            <4>1. CASE Finish(d)
                <5>1. history' = [history EXCEPT ![run[d].post].torn = FALSE]
                    BY <4>1 DEF Finish
                <5>2. run[d].post \in Posts
                    BY <1>1, <4>1 DEF Finish, DrainOK, Committed, Run
                <5> QED BY <1>1, <5>1, <5>2, TornHistory
            <4> QED BY <2>8, <4>1 DEF TryLock, ReadLock, StealLock, Unlock, SelectJobs, Touch,
                      RecordFailure, DropJob, DropThrows, DrainThrows, Crash
        <3> QED BY <2>2, <3>1, <3>2, <3>3
    <2> QED BY <1>10, <2>3, <2>4, <2>5, <2>6, <2>7, <2>8 DEF DrainStep, DrainFault
<1>11. CASE UNCHANGED vars
    BY <1>4, <1>11 DEF vars
<1> QED BY <1>6, <1>7, <1>8, <1>9, <1>10, <1>11 DEF Next

\* However drains overlap, fail or lose their lock, the index of a live post is
\* never emptied; only a deletion undone while its removal was under way does.
THEOREM IndexNeverEmptied ==
    ASSUME \A t \in Texts : ChunkCount[t] > 0
    PROVE  Spec => LiveKeepsChunks
<1>1. Init => ChunkInv
    <2> SUFFICES ASSUME Init PROVE ChunkInv
        OBVIOUS
    <2>1. ReferencesOK /\ FirstChunkStays
        BY DEF Init, EmptyBatch, NoRequest, ReferencesOK, FirstChunkStays, HasJob, Indexing,
              Committed, Dropping
    <2> QED BY <2>1, InitOK DEF ChunkInv, RefInv
<1>2. ChunkInv /\ [Next]_vars => ChunkInv' /\ [IndexStays]_vars
    BY ChunkStep
<1> QED BY <1>1, <1>2, PTL DEF Spec, LiveKeepsChunks

-----------------------------------------------------------------------------
(* That an index row which says done tells the truth, for a single drain. *)

\* The content of the chunks a finished run leaves for text t.
IndexContent(t) == {[index |-> i, text |-> t, embedded |-> TRUE] : i \in 1..ChunkCount[t]}

\* What runJob read is what the post is, unless a write came after.
RunIsCurrent ==
    \A d \in Drainers, p \in Posts :
        Indexing(d, p) /\ ~history[p].raced => run[d].text = posts[p].text

\* A row a drain holds records what it did when it was selected; only the row of
\* a post that is deleted, or came back too early, goes.
HeldIsRecorded ==
    \A d \in Drainers, p \in Posts :
        batch[d][p] # None =>
            IF batch[d][p].row THEN jobs[p].contentHash = batch[d][p].contentHash
                               ELSE Unsteady(p)

\* A run that may leave everything as it is read the text its row records; and
\* before the first upsert nothing is stored.
RunBegins ==
    \A d \in Drainers :
        /\ pc[d] \in {"verify", "touch"} => batch[d][run[d].post].contentHash = run[d].text
        /\ pc[d] \in {"verify", "touch", "embed"} => run[d].stored = 0

\* What a run has stored so far of its post.
StoredBy(d) ==
    {[index |-> i, text |-> run[d].text, embedded |-> i \in run[d].embedded] :
        i \in 1..run[d].stored}

\* That is what the chunks begin with; and a run that leaves the chunks as they are
\* has seen some.
RunStores ==
    \A d \in Drainers, p \in Posts :
        Steady(p) /\ Indexing(d, p) =>
            /\ pc[d] = "touch" => chunks[p] # {}
            /\ pc[d] = "store" => Content({r \in chunks[p] : r.index <= run[d].stored}) = StoredBy(d)
            /\ pc[d] = "finish" => Content(chunks[p]) = IndexContent(run[d].text)

\* Unless a run was torn, the chunks are those of the text the row records; a row
\* that outlived its post may find the post back without any.
RecordMatches ==
    \A p \in Posts :
        Steady(p) /\ HasJob(p) /\ ~history[p].torn /\ jobs[p].contentHash # None =>
            \/ Content(chunks[p]) = IndexContent(jobs[p].contentHash)
            \/ chunks[p] = {} /\ ~Settled(p)

\* A settled row records the present text, unless a write raced with its run.
SettledIsRead ==
    \A p \in Posts :
        Settled(p) /\ Steady(p) /\ ~history[p].raced => jobs[p].contentHash = posts[p].text

Follows ==
    /\ RunIsCurrent /\ HeldIsRecorded /\ RunBegins
    /\ RunStores /\ RecordMatches /\ SettledIsRead

SettledInv == RefInv /\ Follows
-----------------------------------------------------------------------------
(* What the helpers of RagIndexer keep. *)

LEMMA ContentOfIndex ==
    ASSUME NEW t, NEW b
    PROVE  Content(IndexOf(t, b)) = IndexContent(t)
<1> DEFINE Row(i) == [index |-> i, text |-> t, board |-> b, embedded |-> TRUE]
           Bare(r) == [index |-> r.index, text |-> r.text, embedded |-> r.embedded]
<1>1. IndexOf(t, b) = {Row(i) : i \in 1..ChunkCount[t]}
    BY DEF IndexOf
<1>2. Content(IndexOf(t, b)) = {Bare(r) : r \in {Row(i) : i \in 1..ChunkCount[t]}}
    BY <1>1 DEF Content
<1>3. ASSUME NEW i PROVE Bare(Row(i)) = [index |-> i, text |-> t, embedded |-> TRUE]
    OBVIOUS
<1>4. IndexContent(t) = {Bare(Row(i)) : i \in 1..ChunkCount[t]}
    BY <1>3 DEF IndexContent
<1> HIDE DEF Row, Bare
<1> QED BY <1>2, <1>4

LEMMA UpsertHash ==
    ASSUME NEW job \in JobRow \cup {None}
    PROVE  /\ Enqueued(job).contentHash = IF job = None THEN None ELSE job.contentHash
           /\ Swept(job).contentHash = IF job = None THEN None ELSE job.contentHash
<1>1. CASE job = None
    BY <1>1 DEF Enqueued, Swept, NewJob
<1>2. CASE job # None
    <2>1. job \in JobRow
        BY <1>2
    <2>2. /\ Enqueued(job) = [job EXCEPT !.status = "pending", !.attempts = 0, !.failedAt = "null"]
          /\ Swept(job) = [job EXCEPT !.status = "pending",
                               !.attempts = IF job.status = "failed" THEN 0 ELSE job.attempts,
                               !.failedAt = "null"]
        BY <1>2 DEF Enqueued, Swept
    <2> QED BY <1>2, <2>1, <2>2 DEF JobRow
<1> QED BY <1>1, <1>2

LEMMA OutdatedHash ==
    ASSUME NEW job \in JobRow
    PROVE  Outdated(job).contentHash = job.contentHash /\ Outdated(job).indexedAt # "fresh"
<1>1. job # None
    BY NoneIsNew
<1>2. Outdated(job) = [job EXCEPT !.indexedAt = Later(job.indexedAt),
                                  !.failedAt = Later(job.failedAt)]
    BY <1>1 DEF Outdated
<1>3. Later(job.indexedAt) # "fresh"
    BY DEF Later
<1> QED BY <1>2, <1>3 DEF JobRow

LEMMA RowGoneHash ==
    ASSUME NEW p \in Posts, IInv, NEW d \in Drainers, NEW q \in Posts, batch[d][q] # None
    PROVE  /\ RowGone(p)[d][q].contentHash = batch[d][q].contentHash
           /\ q # p => RowGone(p)[d][q] = batch[d][q]
           /\ q = p => ~RowGone(p)[d][q].row
<1>1. batch[d] \in [Posts -> Snapshot \cup {None}]
    BY DEF IInv, TypeOK
<1>2. CASE batch[d][p] = None
    BY <1>1, <1>2 DEF RowGone
<1>3. CASE batch[d][p] # None
    <2> DEFINE gone == [batch[d][p] EXCEPT !.row = FALSE]
    <2>1. ~gone.row /\ gone.contentHash = batch[d][p].contentHash
        BY <1>1, <1>3 DEF Snapshot
    <2>2. RowGone(p)[d] = [batch[d] EXCEPT ![p] = gone]
        BY <1>3 DEF RowGone
    <2> HIDE DEF gone
    <2> QED BY <1>1, <1>3, <2>1, <2>2
<1> QED BY <1>2, <1>3

\* What a drain inside runJob holds.
LEMMA RunHolds ==
    ASSUME SettledInv, NEW d \in Drainers, pc[d] \in Committed \cup Dropping
    PROVE  /\ run[d] \in Run /\ run[d].post \in Posts
           /\ batch[d][run[d].post] \in Snapshot /\ batch[d][run[d].post] # None
           /\ posts[run[d].post].status # "absent"
BY DEF SettledInv, RefInv, ReferencesOK, IInv, TypeOK, DrainOK, Run

\* An UPDATE by the id a drain selected finds the row of a live post.
LEMMA LiveRowIsThere ==
    ASSUME SettledInv, NEW d \in Drainers, NEW p \in Posts, batch[d][p] # None, Steady(p)
    PROVE  /\ batch[d][p].row /\ HasJob(p) /\ jobs[p] \in JobRow
           /\ jobs[p].contentHash = batch[d][p].contentHash
<1>1. ~Unsteady(p)
    BY DEF Steady, Unsteady, Live
<1> QED BY <1>1 DEF SettledInv, Follows, HeldIsRecorded, RefInv, IInv, TypeOK, DrainOK, HasJob
-----------------------------------------------------------------------------
(* Steps of others than the drain. *)

LEMMA OthersOK ==
    ASSUME SettledInv, UNCHANGED <<posts, drainer, history>>,
           \A p \in Posts : Steady(p) => chunks'[p] = chunks[p],
           \A p \in Posts :
              \/ jobs'[p] = jobs[p]
              \/ /\ HasJob(p)' /\ jobs'[p].status = "pending"
                 /\ jobs'[p].contentHash = IF HasJob(p) THEN jobs[p].contentHash ELSE None
    PROVE  Follows'
<1>1. UNCHANGED <<pc, batch, run>>
    BY DEF drainer
<1>2. RunIsCurrent' /\ RunBegins'
    BY <1>1 DEF SettledInv, Follows, RunIsCurrent, RunBegins, Indexing
<1>3. HeldIsRecorded'
    BY <1>1 DEF SettledInv, Follows, HeldIsRecorded, Unsteady, RefInv, IInv, DrainOK, HasJob
<1>4. RunStores'
    BY <1>1 DEF SettledInv, Follows, RunStores, Indexing, Steady, Live, StoredBy
<1>5. RecordMatches'
    BY DEF SettledInv, Follows, RecordMatches, Steady, Settled, Status, Live, HasJob
<1>6. SettledIsRead'
    BY DEF SettledInv, Follows, SettledIsRead, Steady, Settled, Status, Live, HasJob
<1> QED BY <1>2, <1>3, <1>4, <1>5, <1>6 DEF Follows

LEMMA WriteFollows ==
    ASSUME SettledInv, NEW p \in Posts, NEW status \in {"live", "deleted"},
           NEW board, NEW text, Write(p, status, board, text)
    PROVE  Follows'
<1>1. /\ posts' = [posts EXCEPT ![p] = [status |-> status, board |-> board, text |-> text]]
      /\ jobs' = [jobs EXCEPT ![p] = Outdated(jobs[p])]
      /\ UNCHANGED <<chunks, pc, batch, run>>
    BY DEF Write, drainer, SettledInv, RefInv, IInv, TypeOK
<1>2. \A q \in Posts \ {p} : posts'[q] = posts[q] /\ jobs'[q] = jobs[q] /\ history'[q] = history[q]
    <2>1. \A q \in Posts : q # p => history'[q] = history[q]
        BY WriteHistory DEF SettledInv, RefInv
    <2> QED BY <1>1, <2>1 DEF SettledInv, RefInv, IInv, TypeOK
<1>3. /\ history'[p].torn = history[p].torn
      /\ history'[p].raced = (\E d \in Drainers : Indexing(d, p))
      /\ history'[p].restored = (status = "live" /\ IF posts[p].status = "deleted" THEN ~Gone(p)
                                                    ELSE history[p].restored)
    BY WriteHistory DEF SettledInv, RefInv
<1>4. /\ HasJob(p)' => HasJob(p)
      /\ HasJob(p) => /\ jobs'[p].contentHash = jobs[p].contentHash
                      /\ jobs'[p].indexedAt # "fresh"
    <2>1. jobs'[p] = Outdated(jobs[p])
        BY <1>1 DEF SettledInv, RefInv, IInv, TypeOK
    <2>2. jobs[p] = None => Outdated(jobs[p]) = None
        BY DEF Outdated
    <2>3. jobs[p] # None => jobs[p] \in JobRow
        BY DEF SettledInv, RefInv, IInv, TypeOK
    <2> QED BY <2>1, <2>2, <2>3, OutdatedHash DEF HasJob
<1>5. /\ posts'[p].status = status
      /\ posts[p].status \in {"absent", "live", "deleted"}
      /\ posts[p].status = "absent" => ~HasJob(p) /\ \A d \in Drainers : batch[d][p] = None
    BY <1>1 DEF SettledInv, RefInv, ReferencesOK, IInv, TypeOK, Post
<1>13. ASSUME NEW d \in Drainers, NEW q \in Posts, batch[d][q] # None
       PROVE  /\ Steady(q)' => Steady(q)
              /\ Unsteady(q) => Unsteady(q)'
    <2>1. ~Gone(q)
        BY <1>13 DEF Gone
    <2> QED BY <1>2, <1>3, <1>5, <1>13, <2>1 DEF Steady, Unsteady, Live
<1>14. ASSUME NEW q \in Posts, Steady(q)', HasJob(q)
       PROVE  Steady(q) \/ (q = p /\ chunks[q] = {})
    BY <1>2, <1>3, <1>5, <1>14 DEF Steady, Live, Gone
<1>6. \A d \in Drainers, q \in Posts : Indexing(d, q) => batch[d][q] # None
    BY DEF SettledInv, RefInv, IInv, DrainOK, Indexing
<1>7. RunIsCurrent'
    <2> SUFFICES ASSUME NEW d \in Drainers, NEW q \in Posts, Indexing(d, q), ~history'[q].raced
                 PROVE  run[d].text = posts'[q].text
        BY <1>1 DEF RunIsCurrent, Indexing
    <2>1. q # p
        BY <1>3
    <2> QED BY <1>2, <2>1 DEF SettledInv, Follows, RunIsCurrent
<1>8. HeldIsRecorded'
    <2> SUFFICES ASSUME NEW d \in Drainers, NEW q \in Posts, batch[d][q] # None
                 PROVE  IF batch[d][q].row THEN jobs'[q].contentHash = batch[d][q].contentHash
                                           ELSE Unsteady(q)'
        BY <1>1 DEF HeldIsRecorded
    <2>1. CASE ~batch[d][q].row
        BY <1>13, <2>1 DEF SettledInv, Follows, HeldIsRecorded
    <2>2. CASE batch[d][q].row
        <3>1. jobs[q].contentHash = batch[d][q].contentHash /\ HasJob(q)
            BY <2>2 DEF SettledInv, Follows, HeldIsRecorded, RefInv, IInv, DrainOK
        <3> QED BY <1>2, <1>4, <2>2, <3>1
    <2> QED BY <2>1, <2>2
<1>9. RunBegins'
    BY <1>1 DEF SettledInv, Follows, RunBegins
<1>10. RunStores'
    <2> SUFFICES ASSUME NEW d \in Drainers, NEW q \in Posts, Steady(q)', Indexing(d, q)
                 PROVE  /\ pc[d] = "touch" => chunks[q] # {}
                        /\ pc[d] = "store" =>
                               Content({r \in chunks[q] : r.index <= run[d].stored}) = StoredBy(d)
                        /\ pc[d] = "finish" => Content(chunks[q]) = IndexContent(run[d].text)
        BY <1>1 DEF RunStores, Indexing, StoredBy
    <2>1. Steady(q)
        BY <1>6, <1>13
    <2> QED BY <2>1 DEF SettledInv, Follows, RunStores
<1>11. RecordMatches'
    <2> SUFFICES ASSUME NEW q \in Posts, Steady(q)', HasJob(q)', ~history'[q].torn,
                        jobs'[q].contentHash # None
                 PROVE  \/ Content(chunks[q]) = IndexContent(jobs'[q].contentHash)
                        \/ chunks[q] = {} /\ ~Settled(q)'
        BY <1>1 DEF RecordMatches
    <2>1. HasJob(q) /\ ~history[q].torn /\ jobs'[q].contentHash = jobs[q].contentHash
        BY <1>2, <1>3, <1>4 DEF HasJob
    <2>2. q = p => ~Settled(q)'
        BY <1>4, <2>1 DEF Settled, HasJob
    <2>3. CASE Steady(q)
        <3>1. q # p => (Settled(q)' <=> Settled(q))
            BY <1>2 DEF Settled, Status, HasJob, Live
        <3> QED BY <2>1, <2>2, <2>3, <3>1 DEF SettledInv, Follows, RecordMatches
    <2>4. CASE q = p /\ chunks[q] = {}
        BY <2>2, <2>4
    <2> QED BY <1>14, <2>1, <2>3, <2>4
<1>12. SettledIsRead'
    <2> SUFFICES ASSUME NEW q \in Posts, Settled(q)', Steady(q)', ~history'[q].raced
                 PROVE  jobs'[q].contentHash = posts'[q].text
        BY DEF SettledIsRead
    <2>1. HasJob(q)' /\ jobs'[q].indexedAt = "fresh"
        BY DEF Settled, Status
    <2>2. q # p
        BY <1>4, <2>1
    <2>3. Settled(q) /\ Steady(q) /\ ~history[q].raced
        BY <1>2, <2>2 DEF Settled, Steady, Status, HasJob, Live
    <2> QED BY <1>2, <2>2, <2>3 DEF SettledInv, Follows, SettledIsRead
<1> QED BY <1>7, <1>8, <1>9, <1>10, <1>11, <1>12 DEF Follows

LEMMA DropJobFollows ==
    ASSUME SettledInv, NEW w \in Writers, RequestDropJob(w) PROVE Follows'
<1> DEFINE p == request[w].post
<1>1. /\ p \in Posts /\ Unsteady(p)
      /\ jobs' = [jobs EXCEPT ![p] = None] /\ batch' = RowGone(p)
      /\ UNCHANGED <<posts, chunks, pc, run, history>>
    BY DEF RequestDropJob, NoRequest, Request, SettledInv, RefInv, ReferencesOK, IInv, TypeOK
<1> HIDE DEF p
<1>2. \A q \in Posts \ {p} : jobs'[q] = jobs[q]
    BY <1>1 DEF SettledInv, RefInv, IInv, TypeOK
<1>3. \A d \in Drainers, q \in Posts :
          /\ batch[d][q] # None <=> batch'[d][q] # None
          /\ batch[d][q] # None =>
                /\ batch'[d][q].contentHash = batch[d][q].contentHash
                /\ q # p => batch'[d][q] = batch[d][q]
                /\ q = p => ~batch'[d][q].row
    BY <1>1, RowGoneKeeps, RowGoneHash DEF SettledInv, RefInv
<1>4. ~Steady(p)
    BY <1>1 DEF Steady, Unsteady, Live
<1>5. RunIsCurrent'
    BY <1>1 DEF SettledInv, Follows, RunIsCurrent, Indexing
<1>6. HeldIsRecorded'
    BY <1>1, <1>2, <1>3 DEF SettledInv, Follows, HeldIsRecorded, Unsteady
<1>7. RunBegins'
    BY <1>1, <1>3, RunHolds DEF SettledInv, Follows, RunBegins, Committed
<1>8. RunStores'
    BY <1>1 DEF SettledInv, Follows, RunStores, Indexing, Steady, Live, StoredBy
<1>9. RecordMatches' /\ SettledIsRead'
    BY <1>1, <1>2, <1>4 DEF SettledInv, Follows, RecordMatches, SettledIsRead, Steady, Settled, Status,
                            Live, HasJob
<1> QED BY <1>5, <1>6, <1>7, <1>8, <1>9 DEF Follows

\* Both upserts keep the hash a row records, and make none where there was none.
LEMMA UpsertsFollow ==
    ASSUME SettledInv, UNCHANGED <<posts, chunks, drainer, history>>,
           \A p \in Posts :
               \/ jobs'[p] = jobs[p]
               \/ jobs'[p] = Enqueued(jobs[p])
               \/ jobs'[p] = Swept(jobs[p])
    PROVE  Follows'
<1>1. ASSUME NEW p \in Posts
      PROVE  \A job \in {Enqueued(jobs[p]), Swept(jobs[p])} :
                 /\ job # None /\ job.status = "pending"
                 /\ job.contentHash = IF HasJob(p) THEN jobs[p].contentHash ELSE None
    <2>1. jobs[p] \in JobRow \cup {None}
        BY DEF SettledInv, RefInv, IInv, TypeOK
    <2>2. /\ Enqueued(jobs[p]) \in JobRow /\ Enqueued(jobs[p]).status = "pending"
          /\ Swept(jobs[p]) \in JobRow /\ Swept(jobs[p]).status = "pending"
        BY <2>1, UpsertOK
    <2>3. /\ Enqueued(jobs[p]).contentHash = IF HasJob(p) THEN jobs[p].contentHash ELSE None
          /\ Swept(jobs[p]).contentHash = IF HasJob(p) THEN jobs[p].contentHash ELSE None
        BY <2>1, UpsertHash DEF HasJob
    <2> QED BY <2>2, <2>3, NoneIsNew
<1>2. \A p \in Posts :
          \/ jobs'[p] = jobs[p]
          \/ /\ HasJob(p)' /\ jobs'[p].status = "pending"
             /\ jobs'[p].contentHash = IF HasJob(p) THEN jobs[p].contentHash ELSE None
    BY <1>1 DEF HasJob
<1> QED BY <1>2, OthersOK

LEMMA OthersFollow ==
    ASSUME SettledInv,
           \/ WritePosts
           \/ \E w \in Writers : FinishRequest(w)
           \/ Sweep \/ SweepLost \/ LockAges
           \/ UNCHANGED vars
    PROVE  Follows'
<1> USE DEF database, drainer, bounds
<1>1. ASSUME NEW p \in Posts, AdminSave(p) PROVE Follows'
    BY <1>1, WriteFollows DEF AdminSave
<1>2. ASSUME NEW p \in Posts, NEW w \in Writers, CreatePost(w, p) PROVE Follows'
    BY <1>2, WriteFollows DEF CreatePost
<1>3. ASSUME NEW w \in Writers, SavePost(w) PROVE Follows'
    <2> DEFINE p == request[w].post
    <2>1. request[w] # NoRequest /\ p \in Posts /\ posts[p] \in Post
        BY <1>3 DEF SavePost, NoRequest, SettledInv, RefInv, IInv, TypeOK, Request
    <2>2. posts[p].status \in {"live", "deleted"}
        BY <2>1 DEF SettledInv, RefInv, ReferencesOK, Post
    <2>3. PICK status \in {"live", posts[p].status} :
              \E t \in Texts, b \in Boards : Write(p, status, b, t)
        BY <1>3 DEF SavePost
    <2> QED BY <2>1, <2>2, <2>3, WriteFollows
<1>4. ASSUME NEW p \in Posts, NEW w \in Writers, DeletePost(w, p) PROVE Follows'
    BY <1>4, WriteFollows DEF DeletePost
<1>5. ASSUME NEW w \in Writers, Enqueue(w) PROVE Follows'
    <2>1. \A p \in Posts : jobs'[p] = jobs[p] \/ jobs'[p] = Enqueued(jobs[p])
        BY <1>5 DEF Enqueue, SettledInv, RefInv, IInv, TypeOK
    <2> QED BY <1>5, <2>1, UpsertsFollow DEF Enqueue
<1>6. ASSUME NEW w \in Writers, RequestDropChunks(w) PROVE Follows'
    <2>1. Unsteady(request[w].post)
        BY <1>6 DEF RequestDropChunks, SettledInv, RefInv, ReferencesOK
    <2>2. \A p \in Posts : Steady(p) => chunks'[p] = chunks[p]
        BY <1>6, <2>1 DEF RequestDropChunks, SettledInv, RefInv, IInv, TypeOK, Steady, Unsteady, Live
    <2> QED BY <1>6, <2>2, OthersOK DEF RequestDropChunks
<1>7. ASSUME NEW w \in Writers, RequestDropJob(w) PROVE Follows'
    BY <1>7, DropJobFollows
<1>8. CASE SweepJobs
    <2>1. \A p \in Posts : jobs'[p] = jobs[p] \/ jobs'[p] = Swept(jobs[p])
        BY <1>8 DEF SweepJobs
    <2> QED BY <1>8, <2>1, UpsertsFollow DEF SweepJobs
<1>9. CASE SweepChunks
    <2>1. \A p \in Posts : Steady(p) => chunks'[p] = chunks[p]
        BY <1>9 DEF SweepChunks, LiveChunks, Steady
    <2> QED BY <1>9, <2>1, OthersOK DEF SweepChunks
<1>10. ASSUME UNCHANGED <<posts, jobs, chunks, pc, batch, run, history>> PROVE Follows'
    BY <1>10, OthersOK
<1>13. ASSUME NEW p \in Posts, NEW w \in Writers, EditPost(w, p) PROVE Follows'
    BY <1>10, <1>13 DEF EditPost
<1>11. ASSUME NEW w \in Writers, RequestLost(w) PROVE Follows'
    BY <1>10, <1>11 DEF RequestLost
<1>12. SweepLost \/ LockAges \/ UNCHANGED vars => Follows'
    BY <1>10 DEF SweepLost, LockAges, vars
<1> QED BY <1>1, <1>2, <1>3, <1>4, <1>5, <1>6, <1>7, <1>8, <1>9, <1>11, <1>12, <1>13
        DEF WritePosts, FinishRequest, Sweep
-----------------------------------------------------------------------------
(* Steps of the one drain. *)

\* A drain that is not working on a live post has nothing to answer for.
LEMMA RunIsOver ==
    ASSUME SoleDrainer, NEW d \in Drainers, pc'[d] \notin Committed
    PROVE  RunIsCurrent' /\ RunBegins' /\ RunStores'
BY DEF SoleDrainer, RunIsCurrent, RunBegins, RunStores, Indexing, Committed

LEMMA TablesStay ==
    ASSUME SettledInv, UNCHANGED <<posts, history>>,
           \A p \in Posts : Steady(p) => jobs'[p] = jobs[p] /\ chunks'[p] = chunks[p]
    PROVE  RecordMatches' /\ SettledIsRead'
BY DEF SettledInv, Follows, RecordMatches, SettledIsRead, Steady, Settled, Status, Live, HasJob

LEMMA HeldStays ==
    ASSUME SettledInv, UNCHANGED <<posts, jobs>>,
           \A p \in Posts : history'[p].restored = history[p].restored,
           \A d \in Drainers, p \in Posts :
               batch'[d][p] # None => batch'[d][p] = batch[d][p]
    PROVE  HeldIsRecorded'
BY DEF SettledInv, Follows, HeldIsRecorded, Unsteady

LEMMA NextJobHolds ==
    ASSUME SettledInv, NEW d \in Drainers, pc[d] \in Committed \cup Dropping, NextJob(d)
    PROVE  /\ pc'[d] \notin Committed
           /\ batch'[d][run[d].post] = None
           /\ \A e \in Drainers, p \in Posts :
                 batch'[e][p] # None => batch'[e][p] = batch[e][p]
<1>1. run[d].post \in Posts
    BY RunHolds
<1>2. batch' = [batch EXCEPT ![d] = [batch[d] EXCEPT ![run[d].post] = None]]
    BY DEF NextJob, SettledInv, RefInv, IInv, TypeOK
<1>3. pc'[d] = "next"
    BY DEF NextJob, GoTo, SettledInv, RefInv, IInv, TypeOK
<1> QED BY <1>1, <1>2, <1>3 DEF Committed, SettledInv, RefInv, IInv, TypeOK

\* The UPDATE that ends a run is of the row of its post, if that is still live.
LEMMA RowUpdated ==
    ASSUME SoleDrainer, SettledInv, NEW d \in Drainers, pc[d] \in Committed, NEW new,
           UpdateRow(d, run[d].post, new), NextJob(d), UNCHANGED <<posts, chunks>>,
           \A p \in Posts : history'[p].restored = history[p].restored
    PROVE  /\ RunIsCurrent' /\ RunBegins' /\ RunStores' /\ HeldIsRecorded'
           /\ \A q \in Posts : Steady(q) =>
                 jobs'[q] = IF q = run[d].post THEN new ELSE jobs[q]
<1> DEFINE p == run[d].post
<1>1. p \in Posts /\ batch[d][p] # None
    BY RunHolds
<1>2. /\ pc'[d] \notin Committed
      /\ batch'[d][p] = None
      /\ \A e \in Drainers, q \in Posts : batch'[e][q] # None => batch'[e][q] = batch[e][q]
    BY NextJobHolds
<1>3. \A q \in Posts : q # p => jobs'[q] = jobs[q]
    BY DEF UpdateRow, SettledInv, RefInv, IInv, TypeOK
<1>4. Steady(p) => jobs'[p] = new
    BY <1>1, LiveRowIsThere DEF UpdateRow, SettledInv, RefInv, IInv, TypeOK
<1>5. RunIsCurrent' /\ RunBegins' /\ RunStores'
    BY <1>2, RunIsOver
<1>6. HeldIsRecorded'
    <2> SUFFICES ASSUME NEW e \in Drainers, NEW q \in Posts, batch'[e][q] # None
                 PROVE  IF batch'[e][q].row THEN jobs'[q].contentHash = batch'[e][q].contentHash
                                            ELSE Unsteady(q)'
        BY DEF HeldIsRecorded
    <2>1. batch'[e][q] = batch[e][q] /\ q # p
        BY <1>2 DEF SoleDrainer
    <2> QED BY <1>3, <2>1 DEF SettledInv, Follows, HeldIsRecorded, Unsteady
<1> HIDE DEF p
<1>7. \A q \in Posts : Steady(q) => jobs'[q] = IF q = p THEN new ELSE jobs[q]
    BY <1>3, <1>4
<1> QED BY <1>5, <1>6, <1>7 DEF p

LEMMA TouchFollows ==
    ASSUME SoleDrainer, SettledInv, NEW d \in Drainers, Touch(d) PROVE Follows'
<1> DEFINE p == run[d].post
           new == [jobs[p] EXCEPT !.status = "done", !.indexedAt = "fresh", !.failedAt = "null"]
<1>1. /\ pc[d] = "touch" /\ UpdateRow(d, p, new) /\ NextJob(d)
      /\ UNCHANGED <<posts, chunks, history>>
    BY DEF Touch
<1>2. pc[d] \in Committed
    BY <1>1 DEF Committed
<1>3. p \in Posts /\ batch[d][p] # None
    BY <1>2, RunHolds
<1>4. ASSUME Steady(p)
      PROVE  /\ HasJob(p) /\ new.contentHash = jobs[p].contentHash
             /\ ~history[p].raced => jobs[p].contentHash = posts[p].text
             /\ chunks[p] # {}
    <2>1. HasJob(p) /\ jobs[p] \in JobRow /\ jobs[p].contentHash = batch[d][p].contentHash
        BY <1>3, <1>4, LiveRowIsThere
    <2>2. new.contentHash = jobs[p].contentHash
        BY <2>1 DEF JobRow
    <2>3. batch[d][p].contentHash = run[d].text
        BY <1>1 DEF SettledInv, Follows, RunBegins
    <2>4. ~history[p].raced => run[d].text = posts[p].text
        BY <1>2, <1>3 DEF SettledInv, Follows, RunIsCurrent, Indexing
    <2>5. chunks[p] # {}
        BY <1>1, <1>2, <1>3, <1>4 DEF SettledInv, Follows, RunStores, Indexing
    <2> QED BY <2>1, <2>2, <2>3, <2>4, <2>5
<1>5. /\ RunIsCurrent' /\ RunBegins' /\ RunStores' /\ HeldIsRecorded'
      /\ \A q \in Posts : Steady(q) => jobs'[q] = IF q = p THEN new ELSE jobs[q]
    BY <1>1, <1>2, RowUpdated
<1> HIDE DEF p, new
<1>6. ASSUME NEW q \in Posts, Steady(q)
      PROVE  \/ jobs'[q] = jobs[q]
             \/ /\ q = p /\ HasJob(q) /\ jobs'[q].contentHash = jobs[q].contentHash
                /\ ~history[q].raced => jobs[q].contentHash = posts[q].text
                /\ chunks[q] # {}
    BY <1>4, <1>5, <1>6
<1>7. RecordMatches'
    BY <1>1, <1>6 DEF SettledInv, Follows, RecordMatches, Steady, Settled, Status, Live, HasJob
<1>8. SettledIsRead'
    BY <1>1, <1>6 DEF SettledInv, Follows, SettledIsRead, Steady, Settled, Status, Live, HasJob
<1> QED BY <1>5, <1>7, <1>8 DEF Follows

LEMMA FinishFollows ==
    ASSUME SoleDrainer, SettledInv, NEW d \in Drainers, Finish(d) PROVE Follows'
<1> DEFINE p == run[d].post
           new == [jobs[p] EXCEPT !.status = "done", !.contentHash = run[d].text,
                                  !.indexedAt = "fresh", !.failedAt = "null"]
<1>1. /\ pc[d] = "finish" /\ UpdateRow(d, p, new) /\ NextJob(d)
      /\ history' = [history EXCEPT ![p].torn = FALSE]
      /\ UNCHANGED <<posts, chunks>>
    BY DEF Finish
<1>2. pc[d] \in Committed
    BY <1>1 DEF Committed
<1>3. p \in Posts /\ batch[d][p] # None
    BY <1>2, RunHolds
<1>4. Steady(p) => new.contentHash = run[d].text
    <2>1. Steady(p) => jobs[p] \in JobRow
        BY <1>3, LiveRowIsThere
    <2> QED BY <2>1 DEF JobRow
<1>5. /\ Steady(p) => Content(chunks[p]) = IndexContent(run[d].text)
      /\ ~history[p].raced => run[d].text = posts[p].text
    BY <1>1, <1>2, <1>3 DEF SettledInv, Follows, RunStores, RunIsCurrent, Indexing
<1>7. \A q \in Posts : /\ history'[q].raced = history[q].raced
                       /\ history'[q].restored = history[q].restored
                       /\ q # p => history'[q] = history[q]
    <2> HIDE DEF p
    <2> QED BY <1>1, <1>3, TornHistory DEF SettledInv, RefInv
<1>6. /\ RunIsCurrent' /\ RunBegins' /\ RunStores' /\ HeldIsRecorded'
      /\ \A q \in Posts : Steady(q) => jobs'[q] = IF q = p THEN new ELSE jobs[q]
    BY <1>1, <1>2, <1>7, RowUpdated
<1> HIDE DEF p, new
<1>8. ASSUME NEW q \in Posts, Steady(q)
      PROVE  \/ q # p /\ jobs'[q] = jobs[q] /\ history'[q] = history[q]
             \/ /\ Content(chunks[q]) = IndexContent(jobs'[q].contentHash)
                /\ ~history[q].raced => jobs'[q].contentHash = posts[q].text
    BY <1>4, <1>5, <1>6, <1>7, <1>8
<1>9. RecordMatches'
    BY <1>1, <1>7, <1>8 DEF SettledInv, Follows, RecordMatches, Steady, Settled, Status, Live, HasJob
<1>10. SettledIsRead'
    BY <1>1, <1>7, <1>8 DEF SettledInv, Follows, SettledIsRead, Steady, Settled, Status, Live, HasJob
<1> QED BY <1>6, <1>9, <1>10 DEF Follows

LEMMA FailureFollows ==
    ASSUME SoleDrainer, SettledInv, NEW d \in Drainers, RecordFailure(d) PROVE Follows'
<1> DEFINE p == run[d].post
           n == batch[d][p].attempts + 1
           failed == n >= MaxAttempts
           new == [jobs[p] EXCEPT !.attempts = n,
                                  !.status = IF failed THEN "failed" ELSE "pending",
                                  !.failedAt = IF failed THEN "fresh" ELSE "null"]
<1>1. /\ pc[d] = "fail" /\ UpdateRow(d, p, new) /\ NextJob(d)
      /\ UNCHANGED <<posts, chunks, history>>
    BY DEF RecordFailure
<1>2. pc[d] \in Committed
    BY <1>1 DEF Committed
<1>3. p \in Posts /\ batch[d][p] # None
    BY <1>2, RunHolds
<1> HIDE DEF failed, n
<1>4. Steady(p) => /\ HasJob(p) /\ new.contentHash = jobs[p].contentHash
                 /\ new.status # "done"
    <2>1. Steady(p) => HasJob(p) /\ jobs[p] \in JobRow
        BY <1>3, LiveRowIsThere
    <2> QED BY <2>1 DEF JobRow
<1>5. /\ RunIsCurrent' /\ RunBegins' /\ RunStores' /\ HeldIsRecorded'
      /\ \A q \in Posts : Steady(q) => jobs'[q] = IF q = p THEN new ELSE jobs[q]
    BY <1>1, <1>2, RowUpdated
<1> HIDE DEF p, new
<1>6. ASSUME NEW q \in Posts, Steady(q)
      PROVE  \/ jobs'[q] = jobs[q]
             \/ /\ HasJob(q) /\ jobs'[q].contentHash = jobs[q].contentHash
                /\ jobs'[q].status # "done"
    BY <1>4, <1>5, <1>6
<1>7. RecordMatches'
    BY <1>1, <1>6 DEF SettledInv, Follows, RecordMatches, Steady, Settled, Status, Live, HasJob
<1>8. SettledIsRead'
    BY <1>1, <1>6 DEF SettledInv, Follows, SettledIsRead, Steady, Settled, Status, Live, HasJob
<1> QED BY <1>5, <1>7, <1>8 DEF Follows

\* Steps after which the drain works on nothing, or that leave the tables and
\* what it selected alone.
LEMMA IdleFollows ==
    ASSUME SoleDrainer, SettledInv, NEW d \in Drainers, pc'[d] \notin Committed,
           UNCHANGED <<posts, jobs, chunks, history>>,
           \A e \in Drainers, p \in Posts :
               batch'[e][p] # None => batch'[e][p] = batch[e][p]
    PROVE  Follows'
<1>1. RunIsCurrent' /\ RunBegins' /\ RunStores'
    BY RunIsOver
<1>2. HeldIsRecorded'
    BY HeldStays
<1>3. RecordMatches' /\ SettledIsRead'
    BY TablesStay
<1> QED BY <1>1, <1>2, <1>3 DEF Follows

LEMMA ControlFollows ==
    ASSUME SoleDrainer, SettledInv, NEW d \in Drainers,
           \/ TryLock(d) \/ ReadLock(d) \/ StealLock(d) \/ Unlock(d)
           \/ DropThrows(d) \/ DrainThrows(d) \/ Crash(d)
    PROVE  Follows'
<1> USE DEF database
<1>1. CASE TryLock(d) \/ ReadLock(d) \/ StealLock(d) \/ Unlock(d)
    <2>1. pc'[d] \notin Committed
        BY <1>1 DEF TryLock, ReadLock, StealLock, Unlock, GoTo, Committed, SettledInv, RefInv, IInv,
                    TypeOK
    <2> QED BY <1>1, <2>1, IdleFollows DEF TryLock, ReadLock, StealLock, Unlock
<1>2. CASE DropThrows(d)
    <2>1. /\ pc'[d] \notin Committed
          /\ \A e \in Drainers, p \in Posts :
                batch'[e][p] # None => batch'[e][p] = batch[e][p]
        BY <1>2, NextJobHolds DEF DropThrows
    <2> QED BY <1>2, <2>1, IdleFollows DEF DropThrows
<1>3. CASE DrainThrows(d) \/ Crash(d)
    <2>1. pc'[d] \notin Committed
        BY <1>3 DEF DrainThrows, Crash, GoTo, Committed, SettledInv, RefInv, IInv, TypeOK
    <2>2. \A e \in Drainers, p \in Posts : batch'[e][p] # None => batch'[e][p] = batch[e][p]
        BY <1>3 DEF DrainThrows, Crash, Forget, EmptyBatch, SettledInv, RefInv, IInv, TypeOK
    <2> QED BY <1>3, <2>1, <2>2, IdleFollows DEF DrainThrows, Crash
<1> QED BY <1>1, <1>2, <1>3

LEMMA SelectFollows ==
    ASSUME SoleDrainer, SettledInv, NEW d \in Drainers, SelectJobs(d) PROVE Follows'
<1> USE DEF database
<1>1. PICK S \in SUBSET Due :
          batch' = [batch EXCEPT ![d] = [p \in Posts |->
                       IF p \in S
                       THEN [attempts |-> jobs[p].attempts,
                             contentHash |-> jobs[p].contentHash, row |-> TRUE]
                       ELSE None]]
    BY DEF SelectJobs
<1>2. \A e \in Drainers, p \in Posts : batch'[e][p] # None =>
          batch'[e][p].row /\ batch'[e][p].contentHash = jobs[p].contentHash
    <2> SUFFICES ASSUME NEW e \in Drainers, NEW p \in Posts, batch'[e][p] # None
                 PROVE  batch'[e][p].row /\ batch'[e][p].contentHash = jobs[p].contentHash
        OBVIOUS
    <2>1. e = d
        BY DEF SoleDrainer
    <2>2. p \in S /\ batch'[e][p] = [attempts |-> jobs[p].attempts,
                                     contentHash |-> jobs[p].contentHash, row |-> TRUE]
        BY <1>1, <2>1 DEF SettledInv, RefInv, IInv, TypeOK
    <2> QED BY <2>2
<1>3. HeldIsRecorded'
    BY <1>2 DEF SelectJobs, HeldIsRecorded
<1>4. pc'[d] \notin Committed
    BY DEF SelectJobs, GoTo, Committed, SettledInv, RefInv, IInv, TypeOK
<1>5. RunIsCurrent' /\ RunBegins' /\ RunStores'
    BY <1>4, RunIsOver
<1>6. RecordMatches' /\ SettledIsRead'
    BY TablesStay DEF SelectJobs
<1> QED BY <1>3, <1>5, <1>6 DEF Follows

\* runJob reads a post: what it holds is the post as it is now.
LEMMA ReadFollows ==
    ASSUME SoleDrainer, SettledInv, NEW d \in Drainers, ReadPost(d) \/ ReadThrows(d)
    PROVE  Follows'
<1> USE DEF database
<1>1. PICK p \in Left(d) :
          /\ Begin(d, p)
          /\ \/ pc' = [pc EXCEPT ![d] = "dropChunks"]
             \/ pc' = [pc EXCEPT ![d] = "fail"]
             \/ pc' = [pc EXCEPT ![d] = "embed"]
             \/ /\ pc' = [pc EXCEPT ![d] = "verify"]
                /\ batch[d][p].contentHash = posts[p].text
    BY DEF ReadPost, ReadThrows, GoTo
<1>2. UNCHANGED <<posts, jobs, chunks, batch, history>>
    BY DEF ReadPost, ReadThrows
<1>3. /\ run'[d].post = p /\ run'[d].text = posts[p].text /\ run'[d].stored = 0
      /\ pc'[d] \in {"dropChunks", "fail", "embed", "verify"}
      /\ pc'[d] = "verify" => batch[d][p].contentHash = posts[p].text
    BY <1>1 DEF Begin, SettledInv, RefInv, IInv, TypeOK
<1>4. RunIsCurrent'
    BY <1>2, <1>3 DEF SoleDrainer, RunIsCurrent, Indexing
<1>5. RunBegins'
    BY <1>2, <1>3 DEF SoleDrainer, RunBegins
<1>6. RunStores'
    BY <1>3 DEF SoleDrainer, RunStores
<1>7. HeldIsRecorded'
    BY <1>2, HeldStays
<1>8. RecordMatches' /\ SettledIsRead'
    BY <1>2, TablesStay
<1> QED BY <1>4, <1>5, <1>6, <1>7, <1>8 DEF Follows

\* A run goes on: the tables stay as they are, and so does what it read.
LEMMA RunFollows ==
    ASSUME SoleDrainer, SettledInv, NEW d \in Drainers, Verify(d) \/ Embed(d) \/ RunThrows(d)
    PROVE  Follows'
<1> USE DEF database
<1>1. UNCHANGED <<posts, jobs, chunks, batch, history>>
    BY DEF Verify, Embed, RunThrows
<1>2. pc[d] \in Committed
    BY DEF Verify, Embed, RunThrows, Committed
<1>3. /\ run'[d].post = run[d].post /\ run'[d].text = run[d].text
      /\ run'[d].stored = run[d].stored
    BY <1>2, RunHolds DEF Verify, Embed, RunThrows, Run, SettledInv, RefInv, IInv, TypeOK
<1>4. /\ pc'[d] \in {"touch", "embed", "fail", "store"}
      /\ pc'[d] = "touch" => pc[d] = "verify"
      /\ pc'[d] = "embed" => pc[d] = "verify"
      /\ pc'[d] = "store" => pc[d] = "embed"
    BY DEF Verify, Embed, RunThrows, GoTo, SettledInv, RefInv, IInv, TypeOK
<1>5. RunIsCurrent'
    BY <1>1, <1>2, <1>3 DEF SoleDrainer, SettledInv, Follows, RunIsCurrent, Indexing
<1>6. RunBegins'
    BY <1>1, <1>3, <1>4 DEF SoleDrainer, SettledInv, Follows, RunBegins
<1>7. ASSUME NEW q \in Posts, pc'[d] = "store"
      PROVE  Content({r \in chunks'[q] : r.index <= run'[d].stored}) = StoredBy(d)'
    <2>1. run'[d].stored = 0
        BY <1>3, <1>4, <1>7 DEF SettledInv, Follows, RunBegins
    <2>2. StoredBy(d)' = {}
        BY <2>1 DEF StoredBy
    <2>3. {r \in chunks[q] : r.index <= 0} = {}
        BY DEF SettledInv, RefInv, IInv, TypeOK, ChunkRow
    <2> QED BY <1>1, <2>1, <2>2, <2>3 DEF Content
<1>10. pc'[d] = "touch" => chunks[run[d].post] # {}
    BY <1>4 DEF Verify, Embed, RunThrows, GoTo, SettledInv, RefInv, IInv, TypeOK
<1>11. RunStores'
    <2>1. \A q \in Posts : Indexing(d, q)' => q = run[d].post
        BY <1>3 DEF Indexing
    <2> QED BY <1>1, <1>4, <1>7, <1>10, <2>1 DEF SoleDrainer, RunStores
<1>8. HeldIsRecorded'
    BY <1>1, HeldStays
<1>9. RecordMatches' /\ SettledIsRead'
    BY <1>1, TablesStay
<1> QED BY <1>5, <1>6, <1>8, <1>9, <1>11 DEF Follows

\* A post that is gone is taken out of the index: nothing is said of it.
LEMMA DropFollows ==
    ASSUME SoleDrainer, SettledInv, NEW d \in Drainers, DropChunks(d) \/ DropJob(d)
    PROVE  Follows'
<1> DEFINE p == run[d].post
<1>1. p \in Posts /\ Unsteady(p) /\ batch[d][p] # None /\ pc[d] \in Dropping
    BY RunHolds DEF DropChunks, DropJob, Dropping, SettledInv, RefInv, ReferencesOK
<1>2. pc'[d] \notin Committed /\ UNCHANGED <<posts, history>>
    BY DEF DropChunks, DropJob, GoTo, Committed, SettledInv, RefInv, IInv, TypeOK
<1>3. RunIsCurrent' /\ RunBegins' /\ RunStores'
    BY <1>2, RunIsOver
<1>4. RecordMatches' /\ SettledIsRead'
    <2>1. \A q \in Posts : Steady(q) => jobs'[q] = jobs[q] /\ chunks'[q] = chunks[q]
        BY <1>1 DEF DropChunks, DropJob, Steady, Unsteady, Live, SettledInv, RefInv, IInv, TypeOK
    <2> QED BY <1>2, <2>1, TablesStay
<1>5. CASE DropChunks(d)
    BY <1>5, <1>3, <1>4, HeldStays DEF DropChunks, Follows
<1>6. CASE DropJob(d)
    <2>1. \A q \in Posts : batch'[d][q] # None =>
              q # p /\ batch[d][q] # None /\ batch'[d][q] = RowGone(p)[d][q]
        <3>1. batch' = [RowGone(p) EXCEPT ![d] = [RowGone(p)[d] EXCEPT ![p] = None]]
            BY <1>6 DEF DropJob
        <3>2. RowGone(p) \in [Drainers -> [Posts -> Snapshot \cup {None}]]
            BY <1>1, RowGoneOK DEF SettledInv, RefInv
        <3>3. \A q \in Posts : RowGone(p)[d][q] # None => batch[d][q] # None
            BY <1>1, RowGoneKeeps DEF SettledInv, RefInv
        <3> QED BY <1>1, <3>1, <3>2, <3>3
    <2>2. \A q \in Posts : batch'[d][q] # None => q # p /\ batch'[d][q] = batch[d][q]
        BY <1>1, <2>1, RowGoneHash DEF SettledInv, RefInv
    <2>3. \A q \in Posts : q # p => jobs'[q] = jobs[q]
        BY <1>6 DEF DropJob, SettledInv, RefInv, IInv, TypeOK
    <2>4. HeldIsRecorded'
        BY <1>2, <2>2, <2>3 DEF SoleDrainer, SettledInv, Follows, HeldIsRecorded, Unsteady
    <2> QED BY <1>3, <1>4, <2>4 DEF Follows
<1> QED BY <1>5, <1>6

\* The content of two sets of rows is the content of each.
LEMMA ContentOfUnion ==
    ASSUME NEW A, NEW B
    PROVE  Content(A \cup B) = Content(A) \cup Content(B)
BY DEF Content

\* An upsert of replaceChunks: one chunk more is stored, in order.
LEMMA StoreFollows ==
    ASSUME SoleDrainer, SettledInv, NEW d \in Drainers, StoreChunk(d) PROVE Follows'
<1> DEFINE p == run[d].post
           i == run[d].stored + 1
           row == [index |-> i, text |-> run[d].text, board |-> run[d].board,
                   embedded |-> i \in run[d].embedded]
<1>1. /\ pc[d] = "store" /\ UNCHANGED <<posts, jobs, pc, batch>>
      /\ chunks' = [chunks EXCEPT ![p] = {r \in chunks[p] : r.index # i} \cup {row}]
      /\ run' = [run EXCEPT ![d] = [run[d] EXCEPT !.stored = i]]
      /\ history' = [history EXCEPT ![p].torn = TRUE]
    BY DEF StoreChunk, SettledInv, RefInv, IInv, TypeOK
<1>2. pc[d] \in Committed
    BY <1>1 DEF Committed
<1>3. p \in Posts /\ run[d] \in Run
    BY <1>2, RunHolds
<1>4. /\ run'[d].post = p /\ run'[d].text = run[d].text
      /\ run'[d].embedded = run[d].embedded /\ run'[d].stored = i
    BY <1>1, <1>3 DEF Run, SettledInv, RefInv, IInv, TypeOK
<1>5. /\ \A q \in Posts : /\ history'[q].raced = history[q].raced
                         /\ history'[q].restored = history[q].restored
      /\ \A q \in Posts : q # p => chunks'[q] = chunks[q] /\ history'[q] = history[q]
      /\ history'[p].torn
      /\ chunks'[p] = {r \in chunks[p] : r.index # i} \cup {row}
    <2>1. /\ \A q \in Posts : /\ q # p => history'[q] = history[q]
                               /\ history'[q].raced = history[q].raced
                               /\ history'[q].restored = history[q].restored
          /\ history'[p].torn
        <3> HIDE DEF p
        <3> QED BY <1>1, <1>3, TornHistory DEF SettledInv, RefInv
    <2> QED BY <1>1, <1>3, <2>1 DEF SettledInv, RefInv, IInv, TypeOK
<1>6. RunIsCurrent'
    BY <1>1, <1>4, <1>5 DEF SoleDrainer, SettledInv, Follows, RunIsCurrent, Indexing
<1>7. RunBegins'
    BY <1>1 DEF SoleDrainer, RunBegins
<1>8. HeldIsRecorded'
    BY <1>1, <1>5, HeldStays
<1>9. RecordMatches'
    BY <1>1, <1>5 DEF SettledInv, Follows, RecordMatches, Steady, Settled, Status, Live, HasJob
<1>10. SettledIsRead'
    BY <1>1, <1>5 DEF SettledInv, Follows, SettledIsRead, Steady, Settled, Status, Live, HasJob
<1>11. ASSUME Steady(p)
       PROVE  Content({r \in chunks'[p] : r.index <= i}) = StoredBy(d)'
    <2> DEFINE old == {r \in chunks[p] : r.index <= run[d].stored}
               At(j) == [index |-> j, text |-> run[d].text, embedded |-> j \in run[d].embedded]
    <2>1. run[d].stored \in Nat /\ i \in Nat /\ i = run[d].stored + 1
        BY <1>3 DEF Run
    <2>2. \A r \in chunks[p] : r.index \in Nat
        BY <1>3 DEF SettledInv, RefInv, IInv, TypeOK, ChunkRow
    <2>3. row.index = i
        OBVIOUS
    <2>4. Content({row}) = {At(i)}
        BY DEF Content
    <2>5. Content(old) = {At(j) : j \in 1..run[d].stored}
        BY <1>1, <1>2, <1>3, <1>11 DEF SettledInv, Follows, RunStores, Indexing, StoredBy
    <2> HIDE DEF i, row, p
    <2>6. {r \in chunks'[p] : r.index <= i} = old \cup {row}
        BY <1>5, <2>1, <2>2, <2>3
    <2>7. Content({r \in chunks'[p] : r.index <= i}) = Content(old) \cup Content({row})
        BY <2>6, ContentOfUnion
    <2>8. StoredBy(d)' = {At(j) : j \in 1..i}
        BY <1>4 DEF StoredBy
    <2> HIDE DEF At, old
    <2>9. {At(j) : j \in 1..i} = {At(j) : j \in 1..run[d].stored} \cup {At(i)}
        BY <2>1
    <2> QED BY <2>4, <2>5, <2>7, <2>8, <2>9
<1>12. RunStores'
    <2>1. \A e \in Drainers, q \in Posts :
              Indexing(e, q)' => e = d /\ q = p /\ pc'[e] = "store" /\ run'[e].stored = i
        BY <1>1, <1>4 DEF SoleDrainer, Indexing
    <2>2. \A q \in Posts : Steady(q)' => Steady(q)
        BY <1>1, <1>5 DEF Steady, Live
    <2> HIDE DEF p, i, row
    <2> QED BY <1>11, <2>1, <2>2 DEF RunStores
<1> QED BY <1>6, <1>7, <1>8, <1>9, <1>10, <1>12 DEF Follows

\* The last query of replaceChunks: what a longer text has left is gone, and
\* what stays is all that was stored.
LEMMA TrimFollows ==
    ASSUME SoleDrainer, SettledInv, NEW d \in Drainers, TrimChunks(d) PROVE Follows'
<1> DEFINE p == run[d].post
           n == ChunkCount[run[d].text]
<1>1. /\ pc[d] = "store" /\ run[d].stored = n /\ UNCHANGED <<posts, jobs, batch, run>>
      /\ chunks' = [chunks EXCEPT ![p] = Kept(chunks[p], n)]
      /\ history' = [history EXCEPT ![p].torn = TRUE]
    BY DEF TrimChunks, SettledInv, RefInv, IInv, TypeOK
<1>2. /\ pc'[d] \in {"finish", "fail"}
      /\ pc'[d] = "finish" => run[d].embedded = 1..n
    BY DEF TrimChunks, GoTo, SettledInv, RefInv, IInv, TypeOK
<1>3. pc[d] \in Committed
    BY <1>1 DEF Committed
<1>4. p \in Posts
    BY <1>3, RunHolds
<1>5. /\ \A q \in Posts : /\ history'[q].raced = history[q].raced
                         /\ history'[q].restored = history[q].restored
      /\ \A q \in Posts : q # p => chunks'[q] = chunks[q] /\ history'[q] = history[q]
      /\ history'[p].torn
      /\ chunks'[p] = {r \in chunks[p] : r.index <= n}
    <2>1. /\ \A q \in Posts : /\ q # p => history'[q] = history[q]
                               /\ history'[q].raced = history[q].raced
                               /\ history'[q].restored = history[q].restored
          /\ history'[p].torn
        <3> HIDE DEF p
        <3> QED BY <1>1, <1>4, TornHistory DEF SettledInv, RefInv
    <2> QED BY <1>1, <1>4, <2>1 DEF Kept, SettledInv, RefInv, IInv, TypeOK
<1>6. RunIsCurrent'
    BY <1>1, <1>3, <1>5 DEF SoleDrainer, SettledInv, Follows, RunIsCurrent, Indexing
<1>7. RunBegins'
    BY <1>2 DEF SoleDrainer, RunBegins
<1>8. HeldIsRecorded'
    BY <1>1, <1>5, HeldStays
<1>9. RecordMatches'
    BY <1>1, <1>5 DEF SettledInv, Follows, RecordMatches, Steady, Settled, Status, Live, HasJob
<1>10. SettledIsRead'
    BY <1>1, <1>5 DEF SettledInv, Follows, SettledIsRead, Steady, Settled, Status, Live, HasJob
<1>11. ASSUME Steady(p), pc'[d] = "finish"
       PROVE  Content(chunks'[p]) = IndexContent(run[d].text)
    <2>1. Content(chunks'[p]) = StoredBy(d)
        BY <1>1, <1>3, <1>4, <1>5, <1>11 DEF SettledInv, Follows, RunStores, Indexing
    <2>2. \A j \in 1..n : (j \in run[d].embedded) = TRUE
        BY <1>2, <1>11
    <2> QED BY <1>1, <2>1, <2>2 DEF StoredBy, IndexContent
<1>12. RunStores'
    BY <1>1, <1>2, <1>5, <1>11 DEF SoleDrainer, RunStores, Indexing, Steady, Live
<1> QED BY <1>6, <1>7, <1>8, <1>9, <1>10, <1>12 DEF Follows
-----------------------------------------------------------------------------
LEMMA SettledStep == ASSUME SoleDrainer, SettledInv, [Next]_vars PROVE SettledInv'
<1>1. RefInv'
    BY RefStep DEF SettledInv
<1>2. ASSUME NEW d \in Drainers, DrainStep(d) PROVE Follows'
    BY <1>2, ControlFollows, SelectFollows, ReadFollows, RunFollows, TouchFollows, StoreFollows,
       TrimFollows, FinishFollows, FailureFollows, DropFollows DEF DrainStep
<1>3. ASSUME NEW d \in Drainers, DrainFault(d) PROVE Follows'
    BY <1>3, ControlFollows, ReadFollows, RunFollows DEF DrainFault
<1>4. Follows'
    BY <1>2, <1>3, OthersFollow DEF Next
<1> QED BY <1>1, <1>4 DEF SettledInv

LEMMA SettledInit == Init => SettledInv
<1> SUFFICES ASSUME Init PROVE SettledInv
    OBVIOUS
<1>1. RefInv
    <2>1. ReferencesOK
        BY DEF Init, EmptyBatch, NoRequest, ReferencesOK, HasJob, Dropping
    <2> QED BY <2>1, InitOK DEF RefInv
<1>2. Follows
    BY DEF Init, EmptyBatch, HasJob, Indexing, Committed, Settled, Status, Follows, RunIsCurrent,
           HeldIsRecorded, RunBegins, RunStores, RecordMatches, SettledIsRead
<1> QED BY <1>1, <1>2 DEF SettledInv

\* While drains do not overlap, a row that says done tells the truth: the
\* chunks search finds of its post are those of the post's present text, unless
\* a write came between runJob's read and its last UPDATE, a run ended between
\* the first upsert of replaceChunks and that UPDATE, or the post was deleted and
\* came back before the index had let go of it.
THEOREM SettledPostsAreIndexed ==
    ASSUME SoleDrainer
    PROVE  Spec => []SettledIsIndexed
<1>1. SettledInv => SettledIsIndexed
    <2> SUFFICES ASSUME SettledInv, NEW p \in Posts, Settled(p), ~history[p].raced, ~history[p].torn,
                        ~history[p].restored
                 PROVE  /\ jobs[p].contentHash = posts[p].text
                        /\ Content(chunks[p]) = Content(IndexOf(posts[p].text, posts[p].board))
        BY DEF SettledIsIndexed
    <2>5. Steady(p)
        BY DEF Settled, Steady
    <2>1. jobs[p].contentHash = posts[p].text
        BY <2>5 DEF SettledInv, Follows, SettledIsRead
    <2>2. posts[p].text \in Texts
        BY DEF SettledInv, RefInv, IInv, TypeOK, Post
    <2>3. Live(p) /\ HasJob(p) /\ jobs[p].contentHash # None
        BY <2>1, <2>2, NoneIsNew DEF Settled, Status
    <2>4. Content(chunks[p]) = IndexContent(jobs[p].contentHash)
        BY <2>3, <2>5 DEF SettledInv, Follows, RecordMatches
    <2> QED BY <2>1, <2>4, ContentOfIndex
<1>2. SettledInv /\ [Next]_vars => SettledInv'
    BY SettledStep
<1> QED BY <1>1, <1>2, SettledInit, PTL DEF Spec
=============================================================================
