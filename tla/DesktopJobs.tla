---------------------------- MODULE DesktopJobs ----------------------------
(***************************************************************************)
(* The capture queue of services/content/desktop_jobs.ts and the home PC   *)
(* of capture_desktop/index.js that works it off.  Requests queue a job    *)
(* for a streamer, one job per streamer; the home PC polls, and the same   *)
(* call reports its last job done and hands out the next.                  *)
(*                                                                         *)
(* Three cache hashes are shared: the queue, when a streamer was last      *)
(* captured, and when a user's job was last queued for it.  A handler      *)
(* reads a hash, deletes what has expired and goes on with what it read;   *)
(* every reply of the cache is a step, with the other handlers in between. *)
(* Commands issued together reach the cache together: a Promise.all is one *)
(* step.                                                                   *)
(*                                                                         *)
(* Abstractions.  Times are kept as ages, in ticks; a tick is minutes and  *)
(* a handler's few cache calls are milliseconds, so no tick falls inside a *)
(* handler.  Names and channel urls are left out.  The heartbeat           *)
(* (desktopLastSeen) is only shown to people and is left out too.          *)
(***************************************************************************)
EXTENDS Naturals, FiniteSets, Sequences

CONSTANTS
    Streamers,
    Handlers,           \* requests the server works on at once
    QUEUED_TTL,         \* ticks a job may be in the queue
    RUNNING_TTL,        \* ticks a job may be running before it is handed out again
    USER_COOLDOWN,      \* ticks after a capture in which users are refused
    HOUR,               \* ticks a stamp counts
    USER_HOURLY_LIMIT,
    SlowCaptures,       \* may a capture take longer than RUNNING_TTL?
    MaxJobs,            \* bound: enqueue requests in a behaviour
    MaxRestarts,        \* bound: restarts of the server in a behaviour
    MaxHomeFaults,      \* bound: lost polls and restarts of the home PC, or None
    None

ASSUME DesktopConstantsOK ==
    /\ {QUEUED_TTL, RUNNING_TTL, USER_COOLDOWN, USER_HOURLY_LIMIT} \subseteq Nat
    /\ HOUR \in Nat \ {0}
    /\ SlowCaptures \in BOOLEAN
    /\ {MaxJobs, MaxRestarts} \subseteq Nat
    /\ MaxHomeFaults \in Nat \cup {None}
    /\ None \notin Nat \cup Streamers

VARIABLES
    jobs,       \* content:desktopJobQueue, by streamer
    stamps,     \* content:desktopCaptured and content:desktopUserQueued
    handler,    \* what a request has read, and the cache calls it has left
    home,       \* the loop of the home PC
    issued,     \* how many job ids have been generated
    finished,   \* ids of the jobs the server has taken off as done
    faults      \* count up to MaxRestarts and MaxHomeFaults

vars == <<jobs, stamps, handler, home, issued, finished, faults>>
-----------------------------------------------------------------------------
Ids == 1..MaxJobs

\* ran: how long ago the home PC took it; None is waiting.
Job == [id: Ids, age: 0..QUEUED_TTL + 1, ran: 0..RUNNING_TTL + 1 \cup {None}]

JobMap == [Streamers -> Job \cup {None}]

\* A stamp is as old as it is; HOUR is an hour or more.
StampMap == [Streamers -> 0..HOUR \cup {None}]

NoStamps == [s \in Streamers |-> None]

\* The cache calls of an operation, in order.
Path == [status |-> <<"jobs", "prune", "revert", "stamps", "forget">>,
         user   |-> <<"stamps", "forget", "jobs", "prune", "revert", "insert", "stamp">>,
         admin  |-> <<"insert">>,
         poll   |-> <<"jobs", "prune", "revert", "drop", "claim">>]

\* A handler at rest holds nothing.  view: the queue as it was read.  blocked:
\* what userRequestBlockedBy makes of the stamps that were read.  old: those of
\* them that were an hour old.
Free == [op |-> "status", left |-> <<>>, streamer |-> None, id |-> None,
         view |-> [s \in Streamers |-> None], blocked |-> FALSE,
         old |-> [captured |-> {}, queued |-> {}]]

At(h, call) == handler[h].left # <<>> /\ Head(handler[h].left) = call

\* h goes on to its next call, having learned what new says.
Goes(h, new) == handler' = [handler EXCEPT ![h] = [new EXCEPT !.left = Tail(@)]]

Answers(h) == handler' = [handler EXCEPT ![h] = Free]

HomeFault ==
    IF MaxHomeFaults = None THEN UNCHANGED faults
    ELSE faults.home < MaxHomeFaults /\ faults' = [faults EXCEPT !.home = @ + 1]
-----------------------------------------------------------------------------
(* The pure parts. *)

\* Variant: what runs is never thrown away.
ExpiredWaiting(job) == job # None /\ job.ran = None /\ job.age > QUEUED_TTL

Expired(job) == job # None /\ job.age > QUEUED_TTL

\* Variant: whatever is running is put back.
StuckAtOnce(job) == job # None /\ ~Expired(job) /\ job.ran # None

Stuck(job) == job # None /\ ~Expired(job) /\ job.ran # None /\ job.ran > RUNNING_TTL

pruneJobs(view) ==
    [s \in Streamers |->
        IF Expired(view[s]) THEN None
        ELSE IF Stuck(view[s]) THEN [view[s] EXCEPT !.ran = None]
        ELSE view[s]]

\* Those claimNextJob may give out: the ones that have waited longest.
Waiting(pending) == {s \in Streamers : pending[s] # None /\ pending[s].ran = None}

Oldest(pending) ==
    {s \in Waiting(pending) : \A t \in Waiting(pending) : pending[t].age <= pending[s].age}

Recent(stamp) == {s \in Streamers : stamp[s] # None /\ stamp[s] < HOUR}

\* Variant: the limit counts what was captured, not what was queued.
BlockedOnCaptures(s) ==
    \/ s \in Recent(stamps.captured) /\ stamps.captured[s] < USER_COOLDOWN
    \/ Cardinality(Recent(stamps.captured)) >= USER_HOURLY_LIMIT

\* userRequestBlockedBy, of the stamps as they are.
BlockedBy(s) ==
    \/ s \in Recent(stamps.captured) /\ stamps.captured[s] < USER_COOLDOWN
    \/ Cardinality(Recent(stamps.queued)) >= USER_HOURLY_LIMIT
-----------------------------------------------------------------------------
(* Requests arrive. *)

Begin(h, op, s, id) ==
    /\ handler[h] = Free
    /\ handler' = [handler EXCEPT ![h] =
                      [Free EXCEPT !.op = op, !.left = Path[op], !.streamer = s, !.id = id]]

Status(h) ==
    /\ Begin(h, "status", None, None)
    /\ UNCHANGED <<jobs, stamps, home, issued, finished, faults>>

\* enqueue: byUser unless an admin forces it.  The job id is generated here.
Enqueue(h, op, s) ==
    /\ issued < MaxJobs
    /\ issued' = issued + 1
    /\ Begin(h, op, s, issued')
    /\ UNCHANGED <<jobs, stamps, home, finished, faults>>

\* One turn of runForever, which tells what it did last.
HomePolls(h) ==
    /\ home.doing = "resting"
    /\ home' = [home EXCEPT !.doing = "asking", !.at = h]
    /\ Begin(h, "poll", None, home.done)
    /\ UNCHANGED <<jobs, stamps, issued, finished, faults>>
-----------------------------------------------------------------------------
(* liveJobs: hGetAll, the hDel of what expired, the hSet of what is put    *)
(* back.  All three go by what the first one read.                         *)

ReadJobs(h) ==
    /\ At(h, "jobs")
    /\ Goes(h, [handler[h] EXCEPT !.view = jobs])
    /\ UNCHANGED <<jobs, stamps, home, issued, finished, faults>>

Prune(h) ==
    /\ At(h, "prune")
    /\ jobs' = [s \in Streamers |-> IF Expired(handler[h].view[s]) THEN None ELSE jobs[s]]
    /\ Goes(h, handler[h])
    /\ UNCHANGED <<stamps, home, issued, finished, faults>>

Revert(h) ==
    LET view == handler[h].view IN
    /\ At(h, "revert")
    /\ jobs' = [s \in Streamers |-> IF Stuck(view[s]) THEN pruneJobs(view)[s] ELSE jobs[s]]
    /\ Goes(h, [handler[h] EXCEPT !.view = pruneJobs(view)])
    /\ UNCHANGED <<stamps, home, issued, finished, faults>>

\* liveStamps, likewise.  status reads the one hash, enqueue both.
HourOld(stamp) == {s \in Streamers : stamp[s] = HOUR}

ReadStamps(h) ==
    LET user == handler[h].op = "user" IN
    /\ At(h, "stamps")
    /\ Goes(h, [handler[h] EXCEPT
                   !.blocked = user /\ BlockedBy(handler[h].streamer),
                   !.old = [captured |-> HourOld(stamps.captured),
                            queued |-> IF user THEN HourOld(stamps.queued) ELSE {}]])
    /\ UNCHANGED <<jobs, stamps, home, issued, finished, faults>>

Without(stamp, old) == [s \in Streamers |-> IF s \in old THEN None ELSE stamp[s]]

Forget(h) ==
    /\ At(h, "forget")
    /\ stamps' = [captured |-> Without(stamps.captured, handler[h].old.captured),
                  queued |-> Without(stamps.queued, handler[h].old.queued)]
    /\ Goes(h, [handler[h] EXCEPT !.old = Free.old])
    /\ UNCHANGED <<jobs, home, issued, finished, faults>>
-----------------------------------------------------------------------------
(* The rest of enqueue. *)

\* A user is refused, unless the streamer was seen in the queue already.
Refused(h) ==
    LET s == handler[h].streamer IN
    handler[h].blocked /\ handler[h].view[s] = None

\* hSetNX.
Insert(h) ==
    LET s == handler[h].streamer IN
    /\ At(h, "insert")
    /\ \/ /\ Refused(h) \/ jobs[s] # None
          /\ Answers(h)
          /\ UNCHANGED jobs
       \/ /\ ~Refused(h) /\ jobs[s] = None
          /\ jobs' = [jobs EXCEPT ![s] = [id |-> handler[h].id, age |-> 0, ran |-> None]]
          /\ IF handler[h].op = "user" THEN Goes(h, handler[h]) ELSE Answers(h)
    /\ UNCHANGED <<stamps, home, issued, finished, faults>>

\* Only what went into the queue counts, under the name of the streamer.
Stamp(h) ==
    /\ At(h, "stamp")
    /\ stamps' = [stamps EXCEPT !.queued[handler[h].streamer] = 0]
    /\ Answers(h)
    /\ UNCHANGED <<jobs, home, issued, finished, faults>>

StatusEnds(h) ==
    /\ handler[h] # Free /\ handler[h].left = <<>>
    /\ Answers(h)
    /\ UNCHANGED <<jobs, stamps, home, issued, finished, faults>>
-----------------------------------------------------------------------------
(* The rest of poll. *)

\* The streamer whose job, as it was read, is the one the home PC has done.
Done(h) == {s \in Streamers : handler[h].view[s] # None /\ handler[h].view[s].id = handler[h].id}

\* Variant: the job is taken off the list that was read, not off the queue.
DroppedFromList(h) == jobs

Dropped(h) == [s \in Streamers |-> IF s \in Done(h) THEN None ELSE jobs[s]]

Drop(h) ==
    /\ At(h, "drop")
    /\ jobs' = Dropped(h)
    /\ finished' = IF Done(h) # {} THEN finished \cup {handler[h].id} ELSE finished
    /\ Goes(h, [handler[h] EXCEPT
                   !.view = [s \in Streamers |-> IF s \in Done(h) THEN None ELSE @[s]]])
    /\ UNCHANGED <<stamps, home, issued, faults>>

\* The home PC reads the answer, if it still waits for this one.  Without a
\* job it may be time for its own round.
Hears(h, s, id) ==
    IF home.doing = "asking" /\ home.at = h
    THEN IF s = None
         THEN \E next \in {"resting", "round"} :
                 home' = [doing |-> next, at |-> None, streamer |-> None, id |-> None, done |-> None]
         ELSE home' = [doing |-> "capturing", at |-> None, streamer |-> s, id |-> id, done |-> None]
    ELSE UNCHANGED home

\* claimNextJob, and the hSet of what it gives out.
Claim(h) ==
    LET pending == handler[h].view IN
    /\ At(h, "claim")
    /\ \/ /\ Oldest(pending) = {}
          /\ Hears(h, None, None)
          /\ UNCHANGED jobs
       \/ \E s \in Oldest(pending) :
             /\ jobs' = [jobs EXCEPT ![s] = [pending[s] EXCEPT !.ran = 0]]
             /\ Hears(h, s, pending[s].id)
    /\ Answers(h)
    /\ UNCHANGED <<stamps, issued, finished, faults>>
-----------------------------------------------------------------------------
(* The home PC. *)

Mark(s) == stamps' = [stamps EXCEPT !.captured[s] = 0]

\* Its desktop_report of the job's streamer reaches the server: markCaptured.
Report ==
    /\ home.doing = "capturing"
    /\ Mark(home.streamer)
    /\ home' = [home EXCEPT !.doing = "reported"]
    /\ UNCHANGED <<jobs, handler, issued, finished, faults>>

\* Variants: only a capture that got through is told; it is told by streamer.
DoneIfReported == IF home.doing = "reported" THEN home.id ELSE None
DoneStreamer == home.streamer

doneId == home.id

\* Captured or failed, the job is done as far as the home PC is concerned.
Finish ==
    /\ home.doing \in {"capturing", "reported"}
    /\ home' = [doing |-> "resting", at |-> None, streamer |-> None, id |-> None, done |-> doneId]
    /\ UNCHANGED <<jobs, stamps, handler, issued, finished, faults>>

\* A report of its own round over all streamers.
RoundReport(s) ==
    /\ home.doing = "round"
    /\ Mark(s)
    /\ UNCHANGED <<jobs, handler, home, issued, finished, faults>>

RoundEnds ==
    /\ home.doing = "round"
    /\ home' = [home EXCEPT !.doing = "resting"]
    /\ UNCHANGED <<jobs, stamps, handler, issued, finished, faults>>

\* The poll fails on the way there or back: the server may be working on it
\* still, and what was done is told again.
GivesUp ==
    /\ home.doing = "asking"
    /\ HomeFault
    /\ home' = [home EXCEPT !.doing = "resting", !.at = None]
    /\ UNCHANGED <<jobs, stamps, handler, issued, finished>>

HomeRestarts ==
    /\ HomeFault
    /\ home' = [doing |-> "resting", at |-> None, streamer |-> None, id |-> None, done |-> None]
    /\ UNCHANGED <<jobs, stamps, handler, issued, finished>>

\* The queue is in the cache and survives.
ServerRestarts ==
    /\ faults.server < MaxRestarts
    /\ faults' = [faults EXCEPT !.server = @ + 1]
    /\ handler' = [h \in Handlers |-> Free]
    /\ home' = IF home.doing = "asking" THEN [home EXCEPT !.doing = "resting", !.at = None] ELSE home
    /\ UNCHANGED <<jobs, stamps, issued, finished>>
-----------------------------------------------------------------------------
Older(age, limit) == IF age = None \/ age = limit THEN age ELSE age + 1

OlderStamps(stamp) == [s \in Streamers |-> Older(stamp[s], HOUR)]

Tick ==
    /\ \A h \in Handlers : handler[h] = Free
    /\ \/ SlowCaptures
       \/ home.id = None /\ home.done = None
       \/ \A s \in Streamers : jobs[s] # None => jobs[s].ran \in 0..RUNNING_TTL - 1 \cup {None}
    /\ jobs' = [s \in Streamers |->
                   IF jobs[s] = None THEN None
                   ELSE [jobs[s] EXCEPT !.age = Older(@, QUEUED_TTL + 1),
                                        !.ran = Older(@, RUNNING_TTL + 1)]]
    /\ stamps' = [captured |-> OlderStamps(stamps.captured), queued |-> OlderStamps(stamps.queued)]
    /\ UNCHANGED <<handler, home, issued, finished, faults>>

Init ==
    /\ jobs = [s \in Streamers |-> None]
    /\ stamps = [captured |-> NoStamps, queued |-> NoStamps]
    /\ handler = [h \in Handlers |-> Free]
    /\ home = [doing |-> "resting", at |-> None, streamer |-> None, id |-> None, done |-> None]
    /\ issued = 0
    /\ finished = {}
    /\ faults = [server |-> 0, home |-> 0]

\* The cache answers a handler.
HandlerStep(h) ==
    \/ ReadJobs(h) \/ Prune(h) \/ Revert(h) \/ ReadStamps(h) \/ Forget(h)
    \/ Insert(h) \/ Stamp(h) \/ StatusEnds(h) \/ Drop(h) \/ Claim(h)

HomeStep == Finish \/ RoundEnds \/ \E h \in Handlers : HomePolls(h)

Next ==
    \/ \E h \in Handlers :
          \/ Status(h)
          \/ \E s \in Streamers, op \in {"user", "admin"} : Enqueue(h, op, s)
          \/ HandlerStep(h)
    \/ HomeStep \/ Report \/ \E s \in Streamers : RoundReport(s)
    \/ GivesUp \/ HomeRestarts \/ ServerRestarts
    \/ Tick

Spec == Init /\ [][Next]_vars

\* The cache answers, the loop of the home PC goes on, time passes - strongly,
\* since requests that keep coming do not stop the clock.
Fairness ==
    /\ \A h \in Handlers : WF_vars(HandlerStep(h))
    /\ SF_vars(HomeStep)
    /\ SF_vars(Tick)

FairSpec == Spec /\ Fairness
-----------------------------------------------------------------------------
(* Properties. *)

\* Every variable has its type.
TypeOK ==
    /\ jobs \in JobMap
    /\ stamps \in [captured: StampMap, queued: StampMap]
    /\ \A h \in Handlers :
          /\ handler[h].op \in DOMAIN Path
          /\ handler[h].view \in JobMap
          /\ handler[h].blocked \in BOOLEAN
          /\ handler[h].old \in [captured: SUBSET Streamers, queued: SUBSET Streamers]
          /\ handler[h].streamer \in Streamers \cup {None}
          /\ handler[h].id \in Ids \cup {None}
    /\ home.doing \in {"resting", "asking", "capturing", "reported", "round"}
    /\ home.streamer \in Streamers \cup {None}
    /\ {home.id, home.done} \subseteq Ids \cup {None}
    /\ issued \in 0..MaxJobs
    /\ finished \subseteq Ids
    /\ faults \in [server: 0..MaxRestarts, home: Nat]

\* A job that has been queued leaves the queue only when the home PC has done
\* it or when it has waited for QUEUED_TTL: never because of another job.
JobStays ==
    \A s \in Streamers :
        jobs[s] # None /\ ~Expired(jobs[s]) =>
            \/ jobs'[s] # None /\ jobs'[s].id = jobs[s].id
            \/ jobs[s].id \in finished'

AcceptedStays == [][JobStays]_vars

\* What the home PC has done is not in the queue again: nobody pays for the
\* same capture twice.
FinishedIsGone == \A s \in Streamers : jobs[s] # None => jobs[s].id \notin finished

\* At most one job is out, and it is the one the home PC works on or has just
\* finished: no two streams are opened from the same address at once.
OneRunning ==
    \A s \in Streamers :
        jobs[s] # None /\ jobs[s].ran # None => jobs[s].id \in {home.id, home.done}

\* The streamers users have queued within the hour never exceed the limit, when
\* requests do not overlap.
QuotaHolds == Cardinality(Recent(stamps.queued)) <= USER_HOURLY_LIMIT

\* The jobs requests have asked for and not been answered.
Asked == {[id |-> handler[h].id, streamer |-> handler[h].streamer] :
             h \in {h \in Handlers : \E i \in DOMAIN handler[h].left : handler[h].left[i] = "insert"}}

\* The job the home PC works on or has done, and what a poll tells of it.
Hands == ({home.id, home.done} \cup {handler[h].id : h \in {h \in Handlers : handler[h].op = "poll"}})
             \ {None}

Queue == INSTANCE CaptureQueue WITH queue <- jobs, asked <- Asked, hands <- Hands, last <- issued

\* As long as requests do not overlap, all their reads and writes amount to
\* those of one queue: every step is one of CaptureQueue's or none.
DeskRefines == Queue!Spec

\* A queued job leaves the queue in the end: captured, or dropped as too old,
\* also when its capture fails, its claim is lost or the home PC restarts.
JobsLeave ==
    \A s \in Streamers, i \in Ids :
        (jobs[s] # None /\ jobs[s].id = i) ~> ~(jobs[s] # None /\ jobs[s].id = i)
=============================================================================
