---------------------------- MODULE CaptureQueue ----------------------------
(***************************************************************************)
(* What the capture queue of services/content/desktop_jobs.ts promises,    *)
(* as one object that every request meets at one moment: a streamer has    *)
(* one job at most, a job leaves the queue when the home PC tells that it  *)
(* has done it or when it has waited for too long, one that has been out   *)
(* for too long waits again, and the oldest is handed out first.           *)
(*                                                                         *)
(* The reads and writes this takes, and the order they reach the cache in, *)
(* are those of DesktopJobs, which implements this queue as long as        *)
(* requests do not overlap.                                                *)
(***************************************************************************)
EXTENDS Naturals

CONSTANTS
    Streamers,
    QUEUED_TTL,     \* ticks a job may be in the queue
    RUNNING_TTL,    \* ticks a job may be out before it is handed out again
    MaxJobs,        \* bound: jobs asked for
    None

VARIABLES
    queue,          \* by streamer: the job, its age and how long it has been out
    asked,          \* requests for a job that have not been answered
    hands,          \* ids the home PC has been given, or is about to tell
    last            \* ids given

queueVars == <<queue, asked, hands, last>>

Expired(job) == job # None /\ job.age > QUEUED_TTL

\* Those that wait, and those of them that have been in the queue the longest.
Waiting == {s \in Streamers : queue[s] # None /\ queue[s].ran = None}

Oldest == {s \in Waiting : \A t \in Waiting : queue[t].age <= queue[s].age}
-----------------------------------------------------------------------------
\* A job is asked for a streamer; its id is new.
Ask(s) ==
    /\ last < MaxJobs
    /\ last' = last + 1
    /\ asked' = asked \cup {[id |-> last', streamer |-> s]}
    /\ UNCHANGED <<queue, hands>>

\* It is queued, if its streamer has none; or it is refused.
Accept(r) ==
    /\ queue[r.streamer] = None
    /\ queue' = [queue EXCEPT ![r.streamer] = [id |-> r.id, age |-> 0, ran |-> None]]
    /\ asked' = asked \ {r}
    /\ UNCHANGED <<hands, last>>

Refuse(r) ==
    /\ asked' = asked \ {r}
    /\ UNCHANGED <<queue, hands, last>>

\* Whatever is too old goes at once.
Drop ==
    /\ queue' = [s \in Streamers |-> IF Expired(queue[s]) THEN None ELSE queue[s]]
    /\ UNCHANGED <<asked, hands, last>>

\* What has been out for too long waits again, unless it is too old.
PutBack ==
    /\ queue' = [s \in Streamers |->
           IF queue[s] # None /\ ~Expired(queue[s]) /\ queue[s].ran \notin 0..RUNNING_TTL \cup {None}
           THEN [queue[s] EXCEPT !.ran = None]
           ELSE queue[s]]
    /\ UNCHANGED <<asked, hands, last>>

\* The oldest is handed out: the answer may get lost, and what the home PC had
\* told may be forgotten with it.
Take(s) ==
    /\ s \in Oldest
    /\ queue' = [queue EXCEPT ![s].ran = 0]
    /\ hands' \in SUBSET (hands \cup {queue[s].id})
    /\ UNCHANGED <<asked, last>>

\* The home PC tells that it has done the job of s.
Done(s) ==
    /\ queue[s] # None
    /\ queue[s].id \in hands
    /\ queue' = [queue EXCEPT ![s] = None]
    /\ UNCHANGED <<asked, hands, last>>

\* A request ends without an answer, or the home PC forgets what it has.
Lose ==
    /\ asked' \in SUBSET asked
    /\ hands' \in SUBSET hands
    /\ UNCHANGED <<queue, last>>

\* Time passes.  An age beyond its limit is not told apart from the next.
Older(age, limit) == IF age \in {None, limit} THEN age ELSE age + 1

Tick ==
    /\ queue' = [s \in Streamers |->
           IF queue[s] = None THEN None
           ELSE [id |-> queue[s].id,
                 age |-> Older(queue[s].age, QUEUED_TTL + 1),
                 ran |-> Older(queue[s].ran, RUNNING_TTL + 1)]]
    /\ UNCHANGED <<asked, hands, last>>
-----------------------------------------------------------------------------
Init ==
    /\ queue = [s \in Streamers |-> None]
    /\ asked = {} /\ hands = {} /\ last = 0

Next ==
    \/ \E s \in Streamers : Ask(s) \/ Take(s) \/ Done(s)
    \/ \E r \in asked : Accept(r) \/ Refuse(r)
    \/ Drop \/ PutBack \/ Lose \/ Tick

Spec == Init /\ [][Next]_queueVars
=============================================================================
