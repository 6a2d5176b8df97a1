-------------------------- MODULE DesktopJobsProofs --------------------------
(***************************************************************************)
(* Theorems about DesktopJobs, for every value of its constants: its       *)
(* types, and that requests which do not overlap implement CaptureQueue    *)
(* and keep the users' quota.                                              *)
(***************************************************************************)
EXTENDS DesktopJobs, FiniteSetTheorems, TLAPS

-----------------------------------------------------------------------------
(* Where a handler may stand: the calls it has left are the end of its path. *)

StatusLeft ==
    {<<"jobs", "prune", "revert", "stamps", "forget">>,
     <<"prune", "revert", "stamps", "forget">>, <<"revert", "stamps", "forget">>,
     <<"stamps", "forget">>, <<"forget">>, <<>>}

UserLeft ==
    {<<"stamps", "forget", "jobs", "prune", "revert", "insert", "stamp">>,
     <<"forget", "jobs", "prune", "revert", "insert", "stamp">>,
     <<"jobs", "prune", "revert", "insert", "stamp">>,
     <<"prune", "revert", "insert", "stamp">>, <<"revert", "insert", "stamp">>,
     <<"insert", "stamp">>, <<"stamp">>}

PollLeft ==
    {<<"jobs", "prune", "revert", "drop", "claim">>, <<"prune", "revert", "drop", "claim">>,
     <<"revert", "drop", "claim">>, <<"drop", "claim">>, <<"claim">>}

Lefts == [status |-> StatusLeft, user |-> UserLeft, admin |-> {<<"insert">>}, poll |-> PollLeft]

Inserts(left) == \E i \in DOMAIN left : left[i] = "insert"

\* What follows what, on each path.
LEMMA StatusPath ==
    ASSUME NEW left \in StatusLeft
    PROVE  /\ ~Inserts(left)
           /\ left # <<>> =>
                 /\ Tail(left) \in StatusLeft
                 /\ \/ Head(left) = "jobs" /\ Tail(left) # <<>> /\ Head(Tail(left)) = "prune"
                    \/ Head(left) = "prune" /\ Tail(left) # <<>> /\ Head(Tail(left)) = "revert"
                    \/ Head(left) = "revert" /\ Tail(left) # <<>> /\ Head(Tail(left)) = "stamps"
                    \/ Head(left) = "stamps" /\ Tail(left) # <<>> /\ Head(Tail(left)) = "forget"
                    \/ Head(left) = "forget" /\ Tail(left) = <<>>
<1>1. CASE left = <<"jobs", "prune", "revert", "stamps", "forget">>
    BY <1>1 DEF StatusLeft, Inserts
<1>2. CASE left = <<"prune", "revert", "stamps", "forget">>
    BY <1>2 DEF StatusLeft, Inserts
<1>3. CASE left = <<"revert", "stamps", "forget">>
    BY <1>3 DEF StatusLeft, Inserts
<1>4. CASE left = <<"stamps", "forget">>
    BY <1>4 DEF StatusLeft, Inserts
<1>5. CASE left = <<"forget">>
    BY <1>5 DEF StatusLeft, Inserts
<1>6. CASE left = <<>>
    BY <1>6 DEF Inserts
<1> QED BY <1>1, <1>2, <1>3, <1>4, <1>5, <1>6 DEF StatusLeft

LEMMA UserPath ==
    ASSUME NEW left \in UserLeft
    PROVE  /\ left # <<>>
           /\ \/ /\ Inserts(left) /\ Tail(left) # <<>> /\ Tail(left) \in UserLeft
                 /\ \/ Head(left) = "stamps" /\ Head(Tail(left)) = "forget" /\ Inserts(Tail(left))
                    \/ Head(left) = "forget" /\ Head(Tail(left)) = "jobs" /\ Inserts(Tail(left))
                    \/ Head(left) = "jobs" /\ Head(Tail(left)) = "prune" /\ Inserts(Tail(left))
                    \/ Head(left) = "prune" /\ Head(Tail(left)) = "revert" /\ Inserts(Tail(left))
                    \/ Head(left) = "revert" /\ Head(Tail(left)) = "insert" /\ Inserts(Tail(left))
                    \/ Head(left) = "insert" /\ Head(Tail(left)) = "stamp" /\ ~Inserts(Tail(left))
              \/ Head(left) = "stamp" /\ ~Inserts(left)
<1>1. CASE left = <<"stamps", "forget", "jobs", "prune", "revert", "insert", "stamp">>
    <2>1. Tail(left) = <<"forget", "jobs", "prune", "revert", "insert", "stamp">>
        BY <1>1
    <2>2. left[6] = "insert" /\ Tail(left)[5] = "insert" /\ 6 \in DOMAIN left /\ 5 \in DOMAIN Tail(left)
        BY <1>1, <2>1
    <2> QED BY <1>1, <2>1, <2>2 DEF UserLeft, Inserts
<1>2. CASE left = <<"forget", "jobs", "prune", "revert", "insert", "stamp">>
    <2>1. Tail(left) = <<"jobs", "prune", "revert", "insert", "stamp">>
        BY <1>2
    <2>2. left[5] = "insert" /\ Tail(left)[4] = "insert" /\ 5 \in DOMAIN left /\ 4 \in DOMAIN Tail(left)
        BY <1>2, <2>1
    <2> QED BY <1>2, <2>1, <2>2 DEF UserLeft, Inserts
<1>3. CASE left = <<"jobs", "prune", "revert", "insert", "stamp">>
    <2>1. Tail(left) = <<"prune", "revert", "insert", "stamp">>
        BY <1>3
    <2>2. left[4] = "insert" /\ Tail(left)[3] = "insert" /\ 4 \in DOMAIN left /\ 3 \in DOMAIN Tail(left)
        BY <1>3, <2>1
    <2> QED BY <1>3, <2>1, <2>2 DEF UserLeft, Inserts
<1>4. CASE left = <<"prune", "revert", "insert", "stamp">>
    <2>1. Tail(left) = <<"revert", "insert", "stamp">>
        BY <1>4
    <2>2. left[3] = "insert" /\ Tail(left)[2] = "insert" /\ 3 \in DOMAIN left /\ 2 \in DOMAIN Tail(left)
        BY <1>4, <2>1
    <2> QED BY <1>4, <2>1, <2>2 DEF UserLeft, Inserts
<1>5. CASE left = <<"revert", "insert", "stamp">>
    <2>1. Tail(left) = <<"insert", "stamp">>
        BY <1>5
    <2>2. left[2] = "insert" /\ Tail(left)[1] = "insert" /\ 2 \in DOMAIN left /\ 1 \in DOMAIN Tail(left)
        BY <1>5, <2>1
    <2> QED BY <1>5, <2>1, <2>2 DEF UserLeft, Inserts
<1>6. CASE left = <<"insert", "stamp">>
    <2>1. Tail(left) = <<"stamp">>
        BY <1>6
    <2>2. left[1] = "insert" /\ 1 \in DOMAIN left
        BY <1>6
    <2>3. ~Inserts(Tail(left))
        <3>1. ASSUME NEW rest, rest = <<"stamp">> PROVE ~Inserts(rest)
            BY <3>1 DEF Inserts
        <3> QED BY <2>1, <3>1
    <2>4. Inserts(left)
        BY <2>2 DEF Inserts
    <2>5. Tail(left) \in UserLeft
        BY <2>1 DEF UserLeft
    <2>6. left # <<>> /\ Head(left) = "insert" /\ Head(Tail(left)) = "stamp" /\ Tail(left) # <<>>
        BY <1>6, <2>1
    <2> QED BY <2>3, <2>4, <2>5, <2>6
<1>7. CASE left = <<"stamp">>
    BY <1>7 DEF Inserts
<1> QED BY <1>1, <1>2, <1>3, <1>4, <1>5, <1>6, <1>7 DEF UserLeft

LEMMA AdminPath ==
    ASSUME NEW left \in {<<"insert">>}
    PROVE  left # <<>> /\ Head(left) = "insert" /\ Inserts(left)
<1>1. left = <<"insert">> /\ left[1] = "insert" /\ 1 \in DOMAIN left
    OBVIOUS
<1> QED BY <1>1 DEF Inserts

LEMMA PollPath ==
    ASSUME NEW left \in PollLeft
    PROVE  /\ left # <<>> /\ ~Inserts(left)
           /\ \/ /\ Tail(left) # <<>> /\ Tail(left) \in PollLeft
                 /\ \/ Head(left) = "jobs" /\ Head(Tail(left)) = "prune"
                    \/ Head(left) = "prune" /\ Head(Tail(left)) = "revert"
                    \/ Head(left) = "revert" /\ Head(Tail(left)) = "drop"
                    \/ Head(left) = "drop" /\ Head(Tail(left)) = "claim"
              \/ Head(left) = "claim"
<1>1. CASE left = <<"jobs", "prune", "revert", "drop", "claim">>
    BY <1>1 DEF PollLeft, Inserts
<1>2. CASE left = <<"prune", "revert", "drop", "claim">>
    BY <1>2 DEF PollLeft, Inserts
<1>3. CASE left = <<"revert", "drop", "claim">>
    BY <1>3 DEF PollLeft, Inserts
<1>4. CASE left = <<"drop", "claim">>
    BY <1>4 DEF PollLeft, Inserts
<1>5. CASE left = <<"claim">>
    BY <1>5 DEF PollLeft, Inserts
<1> QED BY <1>1, <1>2, <1>3, <1>4, <1>5 DEF PollLeft
-----------------------------------------------------------------------------
(* Types. *)

Ops == {"status", "user", "admin", "poll"}

HandlerRec ==
    [op: Ops, left: StatusLeft \cup UserLeft \cup {<<"insert">>} \cup PollLeft,
     streamer: Streamers \cup {None}, id: Ids \cup {None}, view: JobMap, blocked: BOOLEAN,
     old: [captured: SUBSET Streamers, queued: SUBSET Streamers]]

HomeRec ==
    [doing: {"resting", "asking", "capturing", "reported", "round"}, at: Handlers \cup {None},
     streamer: Streamers \cup {None}, id: Ids \cup {None}, done: Ids \cup {None}]

\* A request has a job to store as long as it may store one.
HandlerOK(r) ==
    /\ r.left \in Lefts[r.op]
    /\ r.op \in {"user", "admin"} => r.streamer \in Streamers /\ r.id \in Ids

HandlersOK ==
    /\ handler \in [Handlers -> HandlerRec]
    /\ \A h \in Handlers : HandlerOK(handler[h])

HomeOK ==
    /\ home \in HomeRec
    /\ home.doing = "capturing" => home.streamer \in Streamers

DeskTypes ==
    /\ jobs \in JobMap
    /\ stamps \in [captured: StampMap, queued: StampMap]
    /\ HandlersOK /\ HomeOK
    /\ issued \in 0..MaxJobs
    /\ finished \subseteq Ids
    /\ faults \in [server: 0..MaxRestarts, home: Nat]

LEMMA FreeOK == Free \in HandlerRec /\ HandlerOK(Free) /\ Free.op = "status" /\ Free.left = <<>>
<1>1. [s \in Streamers |-> None] \in JobMap
    BY DEF JobMap
<1>2. <<>> \in StatusLeft
    BY DEF StatusLeft
<1> QED BY <1>1, <1>2 DEF Free, HandlerRec, HandlerOK, Lefts, Ops

\* A handler goes on to its next call.
LEMMA GoesOK ==
    ASSUME HandlersOK, NEW h \in Handlers, NEW new \in HandlerRec, Goes(h, new),
           new.op = handler[h].op, new.left = handler[h].left,
           new.streamer = handler[h].streamer, new.id = handler[h].id,
           new.left # <<>>, Head(new.left) \notin {"stamp", "claim"}, new.op # "admin"
    PROVE  /\ HandlersOK'
           /\ handler'[h].op = new.op /\ handler'[h].left = Tail(new.left)
           /\ handler'[h].streamer = new.streamer /\ handler'[h].id = new.id
           /\ handler'[h].view = new.view /\ handler'[h].blocked = new.blocked
           /\ handler'[h].old = new.old
           /\ \A g \in Handlers : g # h => handler'[g] = handler[g]
<1> DEFINE next == [new EXCEPT !.left = Tail(new.left)]
<1>1. HandlerOK(handler[h])
    BY DEF HandlersOK
<1>2. Tail(new.left) \in Lefts[new.op]
    <2>1. new.op \in Ops
        BY DEF HandlerRec
    <2>2. CASE new.op = "status"
        BY <1>1, <2>2, StatusPath DEF HandlerOK, Lefts
    <2>3. CASE new.op = "user"
        BY <1>1, <2>3, UserPath DEF HandlerOK, Lefts
    <2>4. CASE new.op = "poll"
        BY <1>1, <2>4, PollPath DEF HandlerOK, Lefts
    <2> QED BY <2>1, <2>2, <2>3, <2>4 DEF Ops
<1>3. Tail(new.left) \in StatusLeft \cup UserLeft \cup {<<"insert">>} \cup PollLeft
    BY <1>2 DEF Lefts, HandlerRec, Ops
<1>4. /\ next \in HandlerRec
      /\ next.op = new.op /\ next.left = Tail(new.left) /\ next.streamer = new.streamer
      /\ next.id = new.id /\ next.view = new.view /\ next.blocked = new.blocked
      /\ next.old = new.old
    BY <1>3 DEF HandlerRec
<1>5. handler' = [handler EXCEPT ![h] = next]
    BY DEF Goes
<1> HIDE DEF next
<1>6. HandlerOK(next)
    BY <1>1, <1>2, <1>4 DEF HandlerOK
<1>7. handler'[h] = next /\ \A g \in Handlers : g # h => handler'[g] = handler[g]
    BY <1>5 DEF HandlersOK
<1>8. HandlersOK'
    BY <1>4, <1>5, <1>6, <1>7 DEF HandlersOK
<1> QED BY <1>4, <1>7, <1>8

LEMMA AnswersOK ==
    ASSUME HandlersOK, NEW h \in Handlers, Answers(h)
    PROVE  /\ HandlersOK' /\ handler'[h] = Free
           /\ \A g \in Handlers : g # h => handler'[g] = handler[g]
<1>1. handler'[h] = Free /\ \A g \in Handlers : g # h => handler'[g] = handler[g]
    BY DEF Answers, HandlersOK
<1>2. handler' \in [Handlers -> HandlerRec]
    BY FreeOK DEF Answers, HandlersOK
<1> QED BY <1>1, <1>2, FreeOK DEF HandlersOK

LEMMA BeginOK ==
    ASSUME HandlersOK, NEW h \in Handlers, NEW op \in Ops, NEW s \in Streamers \cup {None},
           NEW id \in Ids \cup {None}, Begin(h, op, s, id),
           op \in {"user", "admin"} => s \in Streamers /\ id \in Ids
    PROVE  /\ HandlersOK' /\ handler[h] = Free
           /\ handler'[h].op = op /\ handler'[h].left = Path[op]
           /\ handler'[h].streamer = s /\ handler'[h].id = id
           /\ \A g \in Handlers : g # h => handler'[g] = handler[g]
<1> DEFINE next == [Free EXCEPT !.op = op, !.left = Path[op], !.streamer = s, !.id = id]
<1>1. Path[op] \in Lefts[op]
    BY DEF Path, Lefts, Ops, StatusLeft, UserLeft, PollLeft
<1>2. Lefts[op] \subseteq StatusLeft \cup UserLeft \cup {<<"insert">>} \cup PollLeft
    BY DEF Lefts, Ops
<1>3. Path[op] \in StatusLeft \cup UserLeft \cup {<<"insert">>} \cup PollLeft
    BY <1>1, <1>2
<1>4. /\ next \in HandlerRec
      /\ next.op = op /\ next.left = Path[op] /\ next.streamer = s /\ next.id = id
    BY <1>3, FreeOK DEF HandlerRec
<1>5. handler[h] = Free /\ handler' = [handler EXCEPT ![h] = next]
    BY DEF Begin
<1> HIDE DEF next
<1>6. HandlerOK(next)
    BY <1>1, <1>4 DEF HandlerOK
<1>7. handler'[h] = next /\ \A g \in Handlers : g # h => handler'[g] = handler[g]
    BY <1>5 DEF HandlersOK
<1> QED BY <1>4, <1>5, <1>6, <1>7 DEF HandlersOK

\* Which operation a call belongs to, and what comes after it.
LEMMA CallOf ==
    ASSUME HandlersOK, NEW h \in Handlers, NEW call, At(h, call)
    PROVE  /\ handler[h] \in HandlerRec /\ handler[h].op \in Ops /\ HandlerOK(handler[h])
           /\ handler[h].left # <<>> /\ Head(handler[h].left) = call
           /\ call # "insert" => handler[h].op # "admin"
           /\ call = "insert" => handler[h].op \in {"user", "admin"}
           /\ call = "stamp" => handler[h].op = "user"
           /\ call \in {"drop", "claim"} => handler[h].op = "poll"
<1>1. /\ handler[h] \in HandlerRec /\ HandlerOK(handler[h])
      /\ handler[h].left # <<>> /\ Head(handler[h].left) = call
    BY DEF HandlersOK, At
<1>2. handler[h].op \in Ops
    BY <1>1 DEF HandlerRec
<1>3. CASE handler[h].op = "status"
    BY <1>1, <1>2, <1>3, StatusPath DEF HandlerOK, Lefts
<1>4. CASE handler[h].op = "user"
    BY <1>1, <1>2, <1>4, UserPath DEF HandlerOK, Lefts
<1>5. CASE handler[h].op = "admin"
    BY <1>1, <1>2, <1>5, AdminPath DEF HandlerOK, Lefts
<1>6. CASE handler[h].op = "poll"
    BY <1>1, <1>2, <1>6, PollPath DEF HandlerOK, Lefts
<1> QED BY <1>2, <1>3, <1>4, <1>5, <1>6 DEF Ops

\* Only the request of a job may store one, and only once.
LEMMA InsertsOf ==
    ASSUME HandlersOK, NEW h \in Handlers
    PROVE  /\ Inserts(handler[h].left) => handler[h].op \in {"user", "admin"}
           /\ At(h, "insert") => Inserts(handler[h].left)
           /\ handler[h].op \in {"user", "admin"} => handler[h].left # <<>>
<1>1. HandlerOK(handler[h]) /\ handler[h].op \in Ops
    BY DEF HandlersOK, HandlerRec
<1>0. At(h, "insert") => handler[h].op \in {"user", "admin"}
    BY CallOf
<1>2. CASE handler[h].op = "status"
    BY <1>1, <1>2, <1>0, StatusPath DEF HandlerOK, Lefts
<1>3. CASE handler[h].op = "user"
    <2>1. handler[h].left \in UserLeft
        BY <1>1, <1>3 DEF HandlerOK, Lefts
    <2>2. handler[h].left # <<>> /\ (Head(handler[h].left) = "insert" => Inserts(handler[h].left))
        BY <2>1, UserPath
    <2> QED BY <1>3, <2>2 DEF At
<1>4. CASE handler[h].op = "admin"
    <2>1. handler[h].left \in {<<"insert">>}
        BY <1>1, <1>4 DEF HandlerOK, Lefts
    <2>2. handler[h].left # <<>> /\ Inserts(handler[h].left)
        BY <2>1, AdminPath
    <2> QED BY <1>4, <2>2
<1>5. CASE handler[h].op = "poll"
    BY <1>1, <1>5, <1>0, PollPath DEF HandlerOK, Lefts
<1> QED BY <1>1, <1>2, <1>3, <1>4, <1>5 DEF Ops

LEMMA Constants ==
    /\ QUEUED_TTL \in Nat /\ RUNNING_TTL \in Nat /\ HOUR \in Nat \ {0} /\ USER_HOURLY_LIMIT \in Nat
    /\ MaxJobs \in Nat /\ MaxRestarts \in Nat
    /\ None \notin Nat /\ None \notin Streamers /\ None \notin Ids
BY DesktopConstantsOK DEF Ids

LEMMA PruneJobsOK ==
    ASSUME NEW view \in JobMap
    PROVE  /\ pruneJobs(view) \in JobMap
           /\ \A s \in Streamers :
                 pruneJobs(view)[s] = IF Expired(view[s]) THEN None
                                      ELSE IF Stuck(view[s]) THEN [view[s] EXCEPT !.ran = None]
                                      ELSE view[s]
<1> SUFFICES ASSUME NEW s \in Streamers
             PROVE  pruneJobs(view)[s] \in Job \cup {None}
    BY DEF pruneJobs, JobMap
<1>1. view[s] \in Job \cup {None}
    BY DEF JobMap
<1>2. Stuck(view[s]) => view[s] \in Job
    BY <1>1 DEF Stuck
<1>3. Stuck(view[s]) => [view[s] EXCEPT !.ran = None] \in Job
    BY <1>2 DEF Job
<1> QED BY <1>1, <1>3 DEF pruneJobs

LEMMA RequestTypes ==
    ASSUME DeskTypes, NEW h \in Handlers,
           \/ Status(h)
           \/ \E s \in Streamers, op \in {"user", "admin"} : Enqueue(h, op, s)
           \/ HomePolls(h)
    PROVE  DeskTypes'
<1>1. CASE Status(h)
    <2>1. HandlersOK'
        BY <1>1, BeginOK DEF Status, DeskTypes, Ops
    <2> QED BY <1>1, <2>1 DEF Status, DeskTypes, HomeOK
<1>2. ASSUME NEW s \in Streamers, NEW op \in {"user", "admin"}, Enqueue(h, op, s)
      PROVE  DeskTypes'
    <2>1. issued' = issued + 1 /\ issued' \in 0..MaxJobs /\ issued' \in Ids
        BY <1>2, Constants DEF Enqueue, DeskTypes, Ids
    <2>2. HandlersOK'
        BY <1>2, <2>1, BeginOK DEF Enqueue, DeskTypes, Ops
    <2> QED BY <1>2, <2>1, <2>2 DEF Enqueue, DeskTypes, HomeOK
<1>3. CASE HomePolls(h)
    <2>1. HandlersOK'
        BY <1>3, BeginOK DEF HomePolls, DeskTypes, HomeOK, HomeRec, Ops
    <2>2. HomeOK'
        BY <1>3 DEF HomePolls, DeskTypes, HomeOK, HomeRec
    <2> QED BY <1>3, <2>1, <2>2 DEF HomePolls, DeskTypes
<1> QED BY <1>1, <1>2, <1>3

LEMMA ReadTypes ==
    ASSUME DeskTypes, NEW h \in Handlers, ReadJobs(h) \/ ReadStamps(h)
    PROVE  DeskTypes'
<1>1. handler[h] \in HandlerRec
    BY DEF DeskTypes, HandlersOK
<1>2. CASE ReadJobs(h)
    <2> DEFINE new == [handler[h] EXCEPT !.view = jobs]
    <2>1. /\ new \in HandlerRec /\ new.op = handler[h].op /\ new.left = handler[h].left
          /\ new.streamer = handler[h].streamer /\ new.id = handler[h].id
        BY <1>1 DEF HandlerRec, DeskTypes
    <2>2. Goes(h, new)
        BY <1>2 DEF ReadJobs
    <2>3. At(h, "jobs") /\ HandlersOK
        BY <1>2 DEF ReadJobs, DeskTypes
    <2>4. /\ new.left # <<>> /\ Head(new.left) \notin {"stamp", "claim"} /\ new.op # "admin"
        BY <2>1, <2>3, CallOf
    <2> HIDE DEF new
    <2>5. HandlersOK'
        BY <2>1, <2>2, <2>3, <2>4, GoesOK
    <2> QED BY <1>2, <2>5 DEF ReadJobs, DeskTypes, HomeOK
<1>3. CASE ReadStamps(h)
    <2> DEFINE user == handler[h].op = "user"
               blocked == user /\ BlockedBy(handler[h].streamer)
               old == [captured |-> HourOld(stamps.captured),
                       queued |-> IF user THEN HourOld(stamps.queued) ELSE {}]
               new == [handler[h] EXCEPT !.blocked = blocked, !.old = old]
    <2>1. blocked \in BOOLEAN
        BY DEF BlockedBy
    <2>2. old \in [captured: SUBSET Streamers, queued: SUBSET Streamers]
        BY DEF HourOld
    <2>3. Goes(h, new)
        BY <1>3 DEF ReadStamps
    <2> HIDE DEF blocked, old
    <2>4. /\ new \in HandlerRec /\ new.op = handler[h].op /\ new.left = handler[h].left
          /\ new.streamer = handler[h].streamer /\ new.id = handler[h].id
        BY <1>1, <2>1, <2>2 DEF HandlerRec
    <2>5. At(h, "stamps") /\ HandlersOK
        BY <1>3 DEF ReadStamps, DeskTypes
    <2>6. /\ new.left # <<>> /\ Head(new.left) \notin {"stamp", "claim"} /\ new.op # "admin"
        BY <2>4, <2>5, CallOf
    <2> HIDE DEF new
    <2>7. HandlersOK'
        BY <2>3, <2>4, <2>5, <2>6, GoesOK
    <2> QED BY <1>3, <2>7 DEF ReadStamps, DeskTypes, HomeOK
<1> QED BY <1>2, <1>3

\* What a handler writes has the type of what is there.
LEMMA JobsTypes ==
    ASSUME DeskTypes, NEW h \in Handlers, Prune(h) \/ Revert(h)
    PROVE  DeskTypes'
<1>1. handler[h] \in HandlerRec /\ handler[h].view \in JobMap /\ jobs \in JobMap /\ HandlersOK
    BY DEF DeskTypes, HandlersOK, HandlerRec
<1>2. CASE Prune(h)
    <2>1. jobs' \in JobMap
        BY <1>1, <1>2 DEF Prune, JobMap
    <2>2. Goes(h, handler[h]) /\ At(h, "prune")
        BY <1>2 DEF Prune
    <2>3. /\ handler[h].left # <<>> /\ Head(handler[h].left) \notin {"stamp", "claim"}
          /\ handler[h].op # "admin"
        BY <1>1, <2>2, CallOf
    <2>4. HandlersOK'
        BY <1>1, <2>2, <2>3, GoesOK
    <2> QED BY <1>2, <2>1, <2>4 DEF Prune, DeskTypes, HomeOK
<1>3. CASE Revert(h)
    <2> DEFINE view == handler[h].view
               pruned == pruneJobs(view)
               new == [handler[h] EXCEPT !.view = pruned]
    <2>1. pruned \in JobMap
        BY <1>1, PruneJobsOK
    <2>2. jobs' = [s \in Streamers |-> IF Stuck(view[s]) THEN pruned[s] ELSE jobs[s]]
        BY <1>3 DEF Revert
    <2>3. Goes(h, new) /\ At(h, "revert")
        BY <1>3 DEF Revert
    <2> HIDE DEF pruned
    <2>4. jobs' \in JobMap
        BY <1>1, <2>1, <2>2 DEF JobMap
    <2>5. /\ new \in HandlerRec /\ new.op = handler[h].op /\ new.left = handler[h].left
          /\ new.streamer = handler[h].streamer /\ new.id = handler[h].id
        BY <1>1, <2>1 DEF HandlerRec
    <2>6. /\ new.left # <<>> /\ Head(new.left) \notin {"stamp", "claim"} /\ new.op # "admin"
        BY <1>1, <2>3, <2>5, CallOf
    <2> HIDE DEF new
    <2>7. HandlersOK'
        BY <1>1, <2>3, <2>5, <2>6, GoesOK
    <2> QED BY <1>3, <2>4, <2>7 DEF Revert, DeskTypes, HomeOK
<1> QED BY <1>2, <1>3

LEMMA StampTypes ==
    ASSUME DeskTypes, NEW h \in Handlers, Forget(h) \/ Stamp(h) \/ StatusEnds(h)
    PROVE  DeskTypes'
<1>1. /\ handler[h] \in HandlerRec /\ HandlersOK
      /\ stamps \in [captured: StampMap, queued: StampMap]
    BY DEF DeskTypes, HandlersOK
<1>2. CASE Forget(h)
    <2> DEFINE new == [handler[h] EXCEPT !.old = Free.old]
    <2>1. stamps' \in [captured: StampMap, queued: StampMap]
        <3>1. ASSUME NEW stamp \in StampMap, NEW old PROVE Without(stamp, old) \in StampMap
            BY DEF Without, StampMap
        <3> QED BY <1>1, <1>2, <3>1 DEF Forget
    <2>2. Goes(h, new) /\ At(h, "forget")
        BY <1>2 DEF Forget
    <2>3. Free.old \in [captured: SUBSET Streamers, queued: SUBSET Streamers]
        BY DEF Free
    <2>4. /\ new \in HandlerRec /\ new.op = handler[h].op /\ new.left = handler[h].left
          /\ new.streamer = handler[h].streamer /\ new.id = handler[h].id
        BY <1>1, <2>3 DEF HandlerRec
    <2>5. /\ new.left # <<>> /\ Head(new.left) \notin {"stamp", "claim"} /\ new.op # "admin"
        BY <1>1, <2>2, <2>4, CallOf
    <2> HIDE DEF new
    <2>6. HandlersOK'
        BY <1>1, <2>2, <2>4, <2>5, GoesOK
    <2> QED BY <1>2, <2>1, <2>6 DEF Forget, DeskTypes, HomeOK
<1>3. CASE Stamp(h)
    <2>1. At(h, "stamp")
        BY <1>3 DEF Stamp
    <2>2. handler[h].op = "user" /\ HandlerOK(handler[h])
        BY <1>1, <2>1, CallOf
    <2>3. handler[h].streamer \in Streamers /\ 0 \in 0..HOUR
        BY <2>2, Constants DEF HandlerOK
    <2>4. stamps' \in [captured: StampMap, queued: StampMap]
        BY <1>1, <1>3, <2>3 DEF Stamp, StampMap
    <2>5. HandlersOK'
        BY <1>1, <1>3, AnswersOK DEF Stamp
    <2> QED BY <1>3, <2>4, <2>5 DEF Stamp, DeskTypes, HomeOK
<1>4. CASE StatusEnds(h)
    <2>1. HandlersOK'
        BY <1>1, <1>4, AnswersOK DEF StatusEnds
    <2> QED BY <1>4, <2>1 DEF StatusEnds, DeskTypes, HomeOK
<1> QED BY <1>2, <1>3, <1>4

LEMMA InsertTypes ==
    ASSUME DeskTypes, NEW h \in Handlers, Insert(h)
    PROVE  DeskTypes'
<1>1. handler[h] \in HandlerRec /\ HandlersOK /\ jobs \in JobMap
    BY DEF DeskTypes, HandlersOK
<1>2. At(h, "insert")
    BY DEF Insert
<1>3. /\ handler[h].op \in {"user", "admin"} /\ HandlerOK(handler[h])
      /\ handler[h].left # <<>> /\ Head(handler[h].left) = "insert"
    BY <1>1, <1>2, CallOf
<1>4. handler[h].streamer \in Streamers /\ handler[h].id \in Ids
    BY <1>3 DEF HandlerOK
<1>5. HandlersOK'
    <2>1. CASE Answers(h)
        BY <1>1, <2>1, AnswersOK
    <2>2. CASE handler[h].op = "user" /\ Goes(h, handler[h])
        BY <1>1, <1>3, <2>2, GoesOK
    <2> QED BY <2>1, <2>2 DEF Insert
<1>6. [id |-> handler[h].id, age |-> 0, ran |-> None] \in Job
    BY <1>4, Constants DEF Job
<1>7. jobs' \in JobMap
    BY <1>1, <1>4, <1>6 DEF Insert, JobMap
<1> QED BY <1>5, <1>7 DEF Insert, DeskTypes, HomeOK

LEMMA DoneOf ==
    ASSUME HandlersOK, NEW h \in Handlers, NEW s \in Done(h)
    PROVE  /\ s \in Streamers /\ handler[h].view[s] \in Job
           /\ handler[h].view[s].id = handler[h].id /\ handler[h].id \in Ids
<1>1. /\ s \in Streamers /\ handler[h].view[s] # None
      /\ handler[h].view[s].id = handler[h].id
    BY DEF Done
<1>2. handler[h].view[s] \in Job
    BY <1>1 DEF HandlersOK, HandlerRec, JobMap
<1> QED BY <1>1, <1>2 DEF Job

LEMMA DropTypes ==
    ASSUME DeskTypes, NEW h \in Handlers, Drop(h)
    PROVE  DeskTypes'
<1> DEFINE view == [s \in Streamers |-> IF s \in Done(h) THEN None ELSE handler[h].view[s]]
           new == [handler[h] EXCEPT !.view = view]
<1>1. handler[h] \in HandlerRec /\ handler[h].view \in JobMap /\ HandlersOK /\ jobs \in JobMap
    BY DEF DeskTypes, HandlersOK, HandlerRec
<1>2. jobs' \in JobMap
    BY <1>1 DEF Drop, Dropped, JobMap
<1>3. finished' \subseteq Ids
    BY <1>1, DoneOf DEF Drop, DeskTypes
<1>4. view \in JobMap
    BY <1>1 DEF JobMap
<1>5. Goes(h, new) /\ At(h, "drop")
    BY DEF Drop
<1> HIDE DEF view
<1>6. /\ new \in HandlerRec /\ new.op = handler[h].op /\ new.left = handler[h].left
      /\ new.streamer = handler[h].streamer /\ new.id = handler[h].id
    BY <1>1, <1>4 DEF HandlerRec
<1>7. /\ new.left # <<>> /\ Head(new.left) \notin {"stamp", "claim"} /\ new.op # "admin"
    BY <1>1, <1>5, <1>6, CallOf
<1> HIDE DEF new
<1>8. HandlersOK'
    BY <1>1, <1>5, <1>6, <1>7, GoesOK
<1> QED BY <1>2, <1>3, <1>8 DEF Drop, DeskTypes, HomeOK

\* What the home PC makes of an answer.
LEMMA HearsOK ==
    ASSUME HomeOK, NEW h \in Handlers, NEW s \in Streamers \cup {None}, NEW id \in Ids \cup {None},
           Hears(h, s, id)
    PROVE  /\ HomeOK'
           /\ \/ UNCHANGED home
              \/ home'.id \in {id, None} /\ home'.done = None
BY DEF Hears, HomeOK, HomeRec

LEMMA ClaimTypes ==
    ASSUME DeskTypes, NEW h \in Handlers, Claim(h)
    PROVE  DeskTypes'
<1> DEFINE pending == handler[h].view
<1>1. pending \in JobMap /\ HandlersOK /\ jobs \in JobMap /\ HomeOK
    BY DEF DeskTypes, HandlersOK, HandlerRec
<1>2. HandlersOK'
    BY <1>1, AnswersOK DEF Claim
<1>3. CASE Hears(h, None, None) /\ UNCHANGED jobs
    <2>1. HomeOK'
        BY <1>1, <1>3, HearsOK
    <2> QED BY <1>2, <1>3, <2>1 DEF Claim, DeskTypes
<1>4. ASSUME NEW s \in Oldest(pending),
             jobs' = [jobs EXCEPT ![s] = [pending[s] EXCEPT !.ran = 0]],
             Hears(h, s, pending[s].id)
      PROVE  DeskTypes'
    <2>1. s \in Streamers /\ pending[s] \in Job
        BY <1>1 DEF Oldest, Waiting, JobMap
    <2>2. [pending[s] EXCEPT !.ran = 0] \in Job /\ pending[s].id \in Ids
        BY <2>1, Constants DEF Job
    <2>3. jobs' \in JobMap
        BY <1>1, <1>4, <2>1, <2>2 DEF JobMap
    <2>4. HomeOK'
        BY <1>1, <1>4, <2>1, <2>2, HearsOK
    <2> QED BY <1>2, <2>3, <2>4 DEF Claim, DeskTypes
<1> QED BY <1>3, <1>4 DEF Claim

LEMMA HomeTypes ==
    ASSUME DeskTypes,
           \/ Finish \/ RoundEnds \/ Report \/ GivesUp \/ HomeRestarts \/ ServerRestarts
           \/ \E s \in Streamers : RoundReport(s)
    PROVE  DeskTypes'
<1>1. /\ home \in HomeRec /\ HomeOK /\ HandlersOK /\ jobs \in JobMap
      /\ stamps \in [captured: StampMap, queued: StampMap]
      /\ faults \in [server: 0..MaxRestarts, home: Nat]
    BY DEF DeskTypes, HomeOK
<1>2. ASSUME NEW s \in Streamers, Mark(s) PROVE stamps' \in [captured: StampMap, queued: StampMap]
    <2>1. 0 \in 0..HOUR
        BY Constants
    <2> QED BY <1>1, <1>2, <2>1 DEF Mark, StampMap
<1>3. HomeFault => faults' \in [server: 0..MaxRestarts, home: Nat]
    BY <1>1 DEF HomeFault
<1>4. CASE Finish
    <2>1. HomeOK'
        BY <1>1, <1>4 DEF Finish, HomeOK, HomeRec, doneId
    <2> QED BY <1>4, <2>1 DEF Finish, DeskTypes, HandlersOK
<1>5. CASE RoundEnds
    <2>1. HomeOK'
        BY <1>1, <1>5 DEF RoundEnds, HomeOK, HomeRec
    <2> QED BY <1>5, <2>1 DEF RoundEnds, DeskTypes, HandlersOK
<1>6. CASE Report
    <2>1. HomeOK'
        BY <1>1, <1>6 DEF Report, HomeOK, HomeRec
    <2>2. stamps' \in [captured: StampMap, queued: StampMap]
        BY <1>1, <1>2, <1>6 DEF Report, HomeOK
    <2> QED BY <1>6, <2>1, <2>2 DEF Report, DeskTypes, HandlersOK
<1>7. CASE GivesUp
    <2>1. HomeOK'
        BY <1>1, <1>7 DEF GivesUp, HomeOK, HomeRec
    <2> QED BY <1>3, <1>7, <2>1 DEF GivesUp, DeskTypes, HandlersOK
<1>8. CASE HomeRestarts
    <2>1. HomeOK'
        BY <1>8 DEF HomeRestarts, HomeOK, HomeRec
    <2> QED BY <1>3, <1>8, <2>1 DEF HomeRestarts, DeskTypes, HandlersOK
<1>9. CASE ServerRestarts
    <2>1. HomeOK'
        BY <1>1, <1>9 DEF ServerRestarts, HomeOK, HomeRec
    <2>2. HandlersOK'
        BY <1>9, FreeOK DEF ServerRestarts, HandlersOK
    <2>3. faults' \in [server: 0..MaxRestarts, home: Nat]
        <3>1. faults.server + 1 \in 0..MaxRestarts
            BY <1>1, <1>9, Constants DEF ServerRestarts
        <3> QED BY <1>1, <1>9, <3>1 DEF ServerRestarts
    <2> QED BY <1>9, <2>1, <2>2, <2>3 DEF ServerRestarts, DeskTypes
<1>10. ASSUME NEW s \in Streamers, RoundReport(s) PROVE DeskTypes'
    BY <1>2, <1>10 DEF RoundReport, DeskTypes, HandlersOK, HomeOK
<1> QED BY <1>4, <1>5, <1>6, <1>7, <1>8, <1>9, <1>10

LEMMA OlderOK ==
    ASSUME NEW limit \in Nat, NEW age \in 0..limit \cup {None}
    PROVE  Older(age, limit) \in 0..limit \cup {None} /\ (age \in 0..limit => Older(age, limit) \in 0..limit)
BY Constants DEF Older

\* What has waited for longer waits no less long.
LEMMA OlderJob ==
    ASSUME NEW job \in Job
    PROVE  LET older == [job EXCEPT !.age = Older(@, QUEUED_TTL + 1), !.ran = Older(@, RUNNING_TTL + 1)]
           IN  /\ older \in Job /\ older.id = job.id
               /\ older.age = Older(job.age, QUEUED_TTL + 1) /\ older.ran = Older(job.ran, RUNNING_TTL + 1)
<1> DEFINE older == [job EXCEPT !.age = Older(@, QUEUED_TTL + 1), !.ran = Older(@, RUNNING_TTL + 1)]
<1>1. Older(job.age, QUEUED_TTL + 1) \in 0..QUEUED_TTL + 1
    BY Constants, OlderOK DEF Job
<1>2. Older(job.ran, RUNNING_TTL + 1) \in 0..RUNNING_TTL + 1 \cup {None}
    <2>1. job.ran \in 0..(RUNNING_TTL + 1) \cup {None} /\ RUNNING_TTL + 1 \in Nat
        BY Constants DEF Job
    <2> QED BY <2>1, OlderOK
<1> QED BY <1>1, <1>2 DEF Job

LEMMA TickTypes ==
    ASSUME DeskTypes, Tick
    PROVE  DeskTypes'
<1>1. jobs' \in JobMap
    <2> SUFFICES ASSUME NEW s \in Streamers PROVE jobs'[s] \in Job \cup {None}
        BY DEF Tick, JobMap
    <2>1. jobs[s] \in Job \cup {None}
        BY DEF DeskTypes, JobMap
    <2> QED BY <2>1, OlderJob DEF Tick
<1>2. stamps' \in [captured: StampMap, queued: StampMap]
    <2>1. ASSUME NEW stamp \in StampMap PROVE OlderStamps(stamp) \in StampMap
        <3> SUFFICES ASSUME NEW s \in Streamers PROVE Older(stamp[s], HOUR) \in 0..HOUR \cup {None}
            BY DEF OlderStamps, StampMap
        <3> QED BY OlderOK, Constants DEF StampMap
    <2> QED BY <2>1 DEF Tick, DeskTypes
<1> QED BY <1>1, <1>2 DEF Tick, DeskTypes, HandlersOK, HomeOK

LEMMA InitTypes == Init => DeskTypes
<1> SUFFICES ASSUME Init PROVE DeskTypes
    OBVIOUS
<1>1. HandlersOK
    BY FreeOK DEF Init, HandlersOK
<1>2. HomeOK
    BY DEF Init, HomeOK, HomeRec
<1>3. NoStamps \in StampMap /\ jobs \in JobMap
    BY DEF Init, NoStamps, StampMap, JobMap
<1> QED BY <1>1, <1>2, <1>3, Constants DEF Init, DeskTypes

LEMMA StepTypes == DeskTypes /\ [Next]_vars => DeskTypes'
<1> SUFFICES ASSUME DeskTypes, [Next]_vars PROVE DeskTypes'
    OBVIOUS
<1>1. ASSUME NEW h \in Handlers, HandlerStep(h) PROVE DeskTypes'
    BY <1>1, ReadTypes, JobsTypes, StampTypes, InsertTypes, DropTypes, ClaimTypes DEF HandlerStep
<1>2. ASSUME NEW h \in Handlers,
             Status(h) \/ HomePolls(h)
             \/ \E s \in Streamers, op \in {"user", "admin"} : Enqueue(h, op, s)
      PROVE  DeskTypes'
    BY <1>2, RequestTypes
<1>3. CASE UNCHANGED vars
    BY <1>3 DEF vars, DeskTypes, HandlersOK, HomeOK
<1>4. CASE Tick
    BY <1>4, TickTypes
<1> QED BY <1>1, <1>2, <1>3, <1>4, HomeTypes DEF Next, HomeStep

\* Types, with what ties a handler's calls to its operation.
THEOREM DeskTypesHold == Spec => []DeskTypes
<1> QED BY InitTypes, StepTypes, PTL DEF Spec

\* Every variable has its type, however many requests overlap.
THEOREM TypesHold == Spec => []TypeOK
<1>1. DeskTypes => TypeOK
    <2> SUFFICES ASSUME DeskTypes PROVE TypeOK
        OBVIOUS
    <2>1. ASSUME NEW h \in Handlers
          PROVE  /\ handler[h].op \in Ops /\ handler[h].view \in JobMap
                 /\ handler[h].blocked \in BOOLEAN
                 /\ handler[h].old \in [captured: SUBSET Streamers, queued: SUBSET Streamers]
                 /\ handler[h].streamer \in Streamers \cup {None}
                 /\ handler[h].id \in Ids \cup {None}
        BY DEF DeskTypes, HandlersOK, HandlerRec
    <2>2. DOMAIN Path = Ops
        BY DEF Path, Ops
    <2>3. /\ home.doing \in {"resting", "asking", "capturing", "reported", "round"}
          /\ home.streamer \in Streamers \cup {None}
          /\ {home.id, home.done} \subseteq Ids \cup {None}
        BY DEF DeskTypes, HomeOK, HomeRec
    <2> QED BY <2>1, <2>2, <2>3 DEF TypeOK, DeskTypes
<1> QED BY <1>1, DeskTypesHold, PTL
-----------------------------------------------------------------------------
(* Requests that do not overlap: the server works on one at a time.  What a  *)
(* handler has read is then what is there, and every id is one job's.        *)

\* Every job has an id of its own, given before, and not one of what is done.
IdsOK ==
    /\ finished \subseteq 1..issued
    /\ \A s \in Streamers : jobs[s] # None => jobs[s].id \in 1..issued /\ jobs[s].id \notin finished
    /\ \A s, t \in Streamers :
          jobs[s] # None /\ jobs[t] # None /\ jobs[s].id = jobs[t].id => s = t

\* The id of a job that is to be stored is neither in the queue nor done.
AskedOK(h) ==
    Inserts(handler[h].left) =>
        /\ handler[h].id \in 1..issued /\ handler[h].id \notin finished
        /\ \A s \in Streamers : jobs[s] # None => jobs[s].id # handler[h].id

\* What a handler goes by when it writes is what is there.
ViewOK(h) ==
    LET view == handler[h].view IN
    /\ At(h, "prune") => view = jobs
    /\ At(h, "revert") => jobs = [s \in Streamers |-> IF Expired(view[s]) THEN None ELSE view[s]]
    /\ At(h, "drop") \/ At(h, "claim") \/ (At(h, "insert") /\ handler[h].op = "user") => view = jobs

\* A user's request that has not been refused found the quota not used up.
QuotaOK(h) ==
    /\ QuotaHolds
    /\ handler[h].op = "user" /\ ~At(h, "stamps") /\ (At(h, "stamp") \/ ~handler[h].blocked) =>
           Cardinality(Recent(stamps.queued)) < USER_HOURLY_LIMIT

SoleInv(h) == DeskTypes /\ IdsOK /\ AskedOK(h) /\ ViewOK(h)

\* What the next call of a handler is, and whether it may still store a job.
LEMMA NextCall ==
    ASSUME HandlersOK, NEW h \in Handlers, NEW left, left = handler[h].left, left # <<>>,
           NEW call, call = Head(left), NEW op, op = handler[h].op
    PROVE  /\ call = "jobs" => Tail(left) # <<>> /\ Head(Tail(left)) = "prune"
           /\ call = "prune" => Tail(left) # <<>> /\ Head(Tail(left)) = "revert"
           /\ call = "revert" =>
                 /\ Tail(left) # <<>>
                 /\ \/ op = "status" /\ Head(Tail(left)) = "stamps"
                    \/ op = "user" /\ Head(Tail(left)) = "insert"
                    \/ op = "poll" /\ Head(Tail(left)) = "drop"
           /\ call = "stamps" => Tail(left) # <<>> /\ Head(Tail(left)) = "forget"
           /\ call = "forget" => \/ op = "status" /\ Tail(left) = <<>>
                                 \/ op = "user" /\ Tail(left) # <<>> /\ Head(Tail(left)) = "jobs"
           /\ call = "drop" => Tail(left) # <<>> /\ Head(Tail(left)) = "claim"
           /\ call = "insert" /\ op = "user" =>
                 Tail(left) # <<>> /\ Head(Tail(left)) = "stamp" /\ ~Inserts(Tail(left))
           /\ call \notin {"insert", "stamp", "claim"} => (Inserts(Tail(left)) <=> Inserts(left))
<1>1. HandlerOK(handler[h]) /\ op \in Ops
    BY DEF HandlersOK, HandlerRec
<1>2. CASE op = "status"
    <2>1. left \in StatusLeft
        BY <1>1, <1>2 DEF HandlerOK, Lefts
    <2>2. CASE Tail(left) = <<>>
        <3>1. ~Inserts(Tail(left))
            BY <2>2 DEF Inserts
        <3> QED BY <1>2, <2>1, <2>2, <3>1, StatusPath
    <2>3. CASE Tail(left) # <<>>
        <3>1. Tail(left) \in StatusLeft
            BY <2>1, StatusPath
        <3>2. ~Inserts(Tail(left))
            BY <3>1, StatusPath
        <3> QED BY <1>2, <2>1, <2>3, <3>2, StatusPath
    <2> QED BY <2>2, <2>3
<1>3. CASE op = "user"
    <2>1. left \in UserLeft
        BY <1>1, <1>3 DEF HandlerOK, Lefts
    <2> QED BY <1>3, <2>1, UserPath
<1>4. CASE op = "admin"
    <2>1. left \in {<<"insert">>}
        BY <1>1, <1>4 DEF HandlerOK, Lefts
    <2> QED BY <1>4, <2>1, AdminPath
<1>5. CASE op = "poll"
    <2>1. left \in PollLeft
        BY <1>1, <1>5 DEF HandlerOK, Lefts
    <2>2. CASE call = "claim"
        BY <1>5, <2>2
    <2>3. CASE call # "claim"
        <3>1. Tail(left) \in PollLeft
            BY <2>1, <2>3, PollPath
        <3>2. ~Inserts(Tail(left))
            BY <3>1, PollPath
        <3> QED BY <1>5, <2>1, <2>3, <3>2, PollPath
    <2> QED BY <2>2, <2>3
<1> QED BY <1>1, <1>2, <1>3, <1>4, <1>5 DEF Ops

\* Jobs leave the queue, or change but for their ids.
Shrinks == \A s \in Streamers : jobs'[s] # None => jobs[s] # None /\ jobs'[s].id = jobs[s].id

LEMMA ShrinksKeepsIds ==
    ASSUME IdsOK, Shrinks, UNCHANGED <<issued, finished>>
    PROVE  IdsOK'
BY DEF IdsOK, Shrinks

LEMMA ShrinksKeepsAsked ==
    ASSUME NEW h, AskedOK(h), Shrinks, UNCHANGED <<issued, finished>>,
           Inserts(handler'[h].left) => Inserts(handler[h].left) /\ handler'[h].id = handler[h].id
    PROVE  AskedOK(h)'
BY DEF AskedOK, Shrinks, Inserts

LEMMA FreeSole ==
    ASSUME NEW h \in Handlers, handler'[h] = Free
    PROVE  /\ ~Inserts(handler'[h].left) /\ AskedOK(h)' /\ ViewOK(h)'
           /\ \A call : ~At(h, call)'
<1>1. handler'[h].left = <<>>
    BY FreeOK
<1>2. ~Inserts(handler'[h].left)
    BY <1>1 DEF Inserts
<1>3. \A call : ~At(h, call)'
    BY <1>1 DEF At
<1> QED BY <1>2, <1>3 DEF AskedOK, ViewOK, Inserts

LEMMA MovesTo ==
    ASSUME HandlersOK, NEW h \in Handlers, NEW new \in HandlerRec, Goes(h, new)
    PROVE  /\ handler'[h].op = new.op /\ handler'[h].left = Tail(new.left)
           /\ handler'[h].streamer = new.streamer /\ handler'[h].id = new.id
           /\ handler'[h].view = new.view /\ handler'[h].blocked = new.blocked
<1> DEFINE next == [new EXCEPT !.left = Tail(new.left)]
<1>1. /\ next.op = new.op /\ next.left = Tail(new.left) /\ next.streamer = new.streamer
      /\ next.id = new.id /\ next.view = new.view /\ next.blocked = new.blocked
    BY DEF HandlerRec
<1>2. handler'[h] = next
    BY DEF Goes, HandlersOK
<1> QED BY <1>1, <1>2

\* What a handler that goes on keeps, and what it has learned.
Keeps(h) ==
    /\ handler'[h].op = handler[h].op /\ handler'[h].left = Tail(handler[h].left)
    /\ handler'[h].streamer = handler[h].streamer /\ handler'[h].id = handler[h].id

LEMMA Learns ==
    ASSUME DeskTypes, NEW h \in Handlers
    PROVE  /\ ReadJobs(h) => Keeps(h) /\ handler'[h].view = jobs /\ UNCHANGED handler[h].blocked
           /\ Prune(h) => Keeps(h) /\ UNCHANGED <<handler[h].view, handler[h].blocked>>
           /\ Revert(h) => /\ Keeps(h) /\ UNCHANGED handler[h].blocked
                           /\ handler'[h].view = pruneJobs(handler[h].view)
           /\ ReadStamps(h) =>
                 /\ Keeps(h) /\ UNCHANGED handler[h].view
                 /\ handler'[h].blocked = (handler[h].op = "user" /\ BlockedBy(handler[h].streamer))
           /\ Forget(h) => Keeps(h) /\ UNCHANGED <<handler[h].view, handler[h].blocked>>
           /\ Drop(h) => /\ Keeps(h) /\ UNCHANGED handler[h].blocked
                         /\ handler'[h].view = [s \in Streamers |-> IF s \in Done(h) THEN None
                                                                    ELSE handler[h].view[s]]
<1>1. handler[h] \in HandlerRec /\ handler[h].view \in JobMap /\ HandlersOK /\ jobs \in JobMap
    BY DEF DeskTypes, HandlersOK, HandlerRec
<1>2. ASSUME NEW view \in JobMap, Goes(h, [handler[h] EXCEPT !.view = view])
      PROVE  Keeps(h) /\ handler'[h].view = view /\ UNCHANGED handler[h].blocked
    <2> DEFINE new == [handler[h] EXCEPT !.view = view]
    <2>1. /\ new \in HandlerRec /\ new.op = handler[h].op /\ new.left = handler[h].left
          /\ new.streamer = handler[h].streamer /\ new.id = handler[h].id
          /\ new.view = view /\ new.blocked = handler[h].blocked
        BY <1>1 DEF HandlerRec
    <2>2. Goes(h, new)
        BY <1>2
    <2> HIDE DEF new
    <2> QED BY <1>1, <2>1, <2>2, MovesTo DEF Keeps
<1>3. ReadJobs(h) => Keeps(h) /\ handler'[h].view = jobs /\ UNCHANGED handler[h].blocked
    BY <1>1, <1>2 DEF ReadJobs
<1>4. Prune(h) => Keeps(h) /\ UNCHANGED <<handler[h].view, handler[h].blocked>>
    BY <1>1, MovesTo DEF Prune, Keeps
<1>5. ASSUME Revert(h)
      PROVE  Keeps(h) /\ UNCHANGED handler[h].blocked /\ handler'[h].view = pruneJobs(handler[h].view)
    <2>1. pruneJobs(handler[h].view) \in JobMap
        BY <1>1, PruneJobsOK
    <2> QED BY <1>2, <1>5, <2>1 DEF Revert
<1>6. ASSUME ReadStamps(h)
      PROVE  /\ Keeps(h) /\ UNCHANGED handler[h].view
             /\ handler'[h].blocked = (handler[h].op = "user" /\ BlockedBy(handler[h].streamer))
    <2> DEFINE blocked == handler[h].op = "user" /\ BlockedBy(handler[h].streamer)
               old == [captured |-> HourOld(stamps.captured),
                       queued |-> IF handler[h].op = "user" THEN HourOld(stamps.queued) ELSE {}]
               new == [handler[h] EXCEPT !.blocked = blocked, !.old = old]
    <2>1. blocked \in BOOLEAN
        BY DEF BlockedBy
    <2>2. old \in [captured: SUBSET Streamers, queued: SUBSET Streamers]
        BY DEF HourOld
    <2>3. Goes(h, new)
        BY <1>6 DEF ReadStamps
    <2> HIDE DEF blocked, old
    <2>4. /\ new \in HandlerRec /\ new.op = handler[h].op /\ new.left = handler[h].left
          /\ new.streamer = handler[h].streamer /\ new.id = handler[h].id
          /\ new.view = handler[h].view /\ new.blocked = blocked
        BY <1>1, <2>1, <2>2 DEF HandlerRec
    <2> HIDE DEF new
    <2>5. Keeps(h) /\ UNCHANGED handler[h].view /\ handler'[h].blocked = blocked
        BY <1>1, <2>3, <2>4, MovesTo DEF Keeps
    <2> QED BY <2>5 DEF blocked
<1>7. ASSUME Forget(h) PROVE Keeps(h) /\ UNCHANGED <<handler[h].view, handler[h].blocked>>
    <2> DEFINE new == [handler[h] EXCEPT !.old = Free.old]
    <2>1. Goes(h, new)
        BY <1>7 DEF Forget
    <2>2. Free.old \in [captured: SUBSET Streamers, queued: SUBSET Streamers]
        BY DEF Free
    <2>3. /\ new \in HandlerRec /\ new.op = handler[h].op /\ new.left = handler[h].left
          /\ new.streamer = handler[h].streamer /\ new.id = handler[h].id
          /\ new.view = handler[h].view /\ new.blocked = handler[h].blocked
        BY <1>1, <2>2 DEF HandlerRec
    <2> HIDE DEF new
    <2> QED BY <1>1, <2>1, <2>3, MovesTo DEF Keeps
<1>8. ASSUME Drop(h)
      PROVE  /\ Keeps(h) /\ UNCHANGED handler[h].blocked
             /\ handler'[h].view = [s \in Streamers |-> IF s \in Done(h) THEN None
                                                        ELSE handler[h].view[s]]
    <2> DEFINE view == [s \in Streamers |-> IF s \in Done(h) THEN None ELSE handler[h].view[s]]
    <2>1. view \in JobMap
        BY <1>1 DEF JobMap
    <2>2. Goes(h, [handler[h] EXCEPT !.view = view])
        BY <1>8 DEF Drop
    <2> QED BY <1>2, <2>1, <2>2
<1> QED BY <1>3, <1>4, <1>5, <1>6, <1>7, <1>8

\* Where a handler that goes on stands.
LEMMA StandsAt ==
    ASSUME HandlersOK, NEW h \in Handlers, Keeps(h), NEW call, At(h, call),
           call \notin {"insert", "stamp", "claim"}
    PROVE  /\ Inserts(handler'[h].left) <=> Inserts(handler[h].left)
           /\ call = "jobs" => \A c : At(h, c)' <=> c = "prune"
           /\ call = "prune" => \A c : At(h, c)' <=> c = "revert"
           /\ call = "revert" => \A c : At(h, c)' => c \in {"stamps", "insert", "drop"}
           /\ call = "stamps" => \A c : At(h, c)' <=> c = "forget"
           /\ call = "forget" => \A c : At(h, c)' => c = "jobs"
           /\ call = "drop" => \A c : At(h, c)' <=> c = "claim"
<1> DEFINE left == handler[h].left
<1>1. handler'[h].left = Tail(left) /\ left # <<>> /\ Head(left) = call
    BY DEF Keeps, At
<1>2. \A c : At(h, c)' <=> Tail(left) # <<>> /\ Head(Tail(left)) = c
    BY <1>1 DEF At
<1>3. /\ call = "jobs" => Tail(left) # <<>> /\ Head(Tail(left)) = "prune"
      /\ call = "prune" => Tail(left) # <<>> /\ Head(Tail(left)) = "revert"
      /\ call = "revert" => Tail(left) # <<>> /\ Head(Tail(left)) \in {"stamps", "insert", "drop"}
      /\ call = "stamps" => Tail(left) # <<>> /\ Head(Tail(left)) = "forget"
      /\ call = "forget" => Tail(left) = <<>> \/ Head(Tail(left)) = "jobs"
      /\ call = "drop" => Tail(left) # <<>> /\ Head(Tail(left)) = "claim"
      /\ Inserts(Tail(left)) <=> Inserts(left)
    BY <1>1, NextCall
<1> HIDE DEF left
<1>4. Inserts(handler'[h].left) <=> Inserts(handler[h].left)
    BY <1>1, <1>3 DEF left
<1> QED BY <1>2, <1>3, <1>4

LEMMA SoleReads ==
    ASSUME NEW h \in Handlers, SoleInv(h), ReadJobs(h) \/ ReadStamps(h) \/ Forget(h)
    PROVE  (IdsOK /\ AskedOK(h) /\ ViewOK(h))'
<1>1. HandlersOK /\ DeskTypes /\ IdsOK /\ AskedOK(h)
    BY DEF SoleInv, DeskTypes
<1>2. Keeps(h) /\ UNCHANGED <<jobs, issued, finished>>
    BY <1>1, Learns DEF ReadJobs, ReadStamps, Forget
<1>3. Shrinks
    BY <1>2 DEF Shrinks
<1>4. IdsOK'
    BY <1>1, <1>2, <1>3, ShrinksKeepsIds
<1>5. PICK call \in {"jobs", "stamps", "forget"} : At(h, call)
    BY DEF ReadJobs, ReadStamps, Forget
<1>6. AskedOK(h)'
    <2>1. Inserts(handler'[h].left) => Inserts(handler[h].left) /\ handler'[h].id = handler[h].id
        BY <1>1, <1>2, <1>5, StandsAt DEF Keeps
    <2> QED BY <1>1, <1>2, <1>3, <2>1, ShrinksKeepsAsked
<1>7. ViewOK(h)'
    <2>1. CASE ReadJobs(h)
        <3>1. \A c : At(h, c)' <=> c = "prune"
            BY <1>1, <1>2, <2>1, StandsAt DEF ReadJobs
        <3>2. handler'[h].view = jobs'
            BY <1>1, <1>2, <2>1, Learns
        <3> QED BY <3>1, <3>2 DEF ViewOK
    <2>2. CASE ReadStamps(h)
        <3>1. \A c : At(h, c)' <=> c = "forget"
            BY <1>1, <1>2, <2>2, StandsAt DEF ReadStamps
        <3> QED BY <3>1 DEF ViewOK
    <2>3. CASE Forget(h)
        <3>1. \A c : At(h, c)' => c = "jobs"
            BY <1>1, <1>2, <2>3, StandsAt DEF Forget
        <3> QED BY <3>1 DEF ViewOK
    <2> QED BY <2>1, <2>2, <2>3
<1> QED BY <1>4, <1>6, <1>7

LEMMA SolePrune ==
    ASSUME NEW h \in Handlers, SoleInv(h), Prune(h)
    PROVE  (IdsOK /\ AskedOK(h) /\ ViewOK(h))'
<1>1. HandlersOK /\ DeskTypes /\ IdsOK /\ AskedOK(h) /\ ViewOK(h) /\ At(h, "prune")
    BY DEF SoleInv, DeskTypes, Prune
<1>2. Keeps(h) /\ handler'[h].view = handler[h].view /\ UNCHANGED <<issued, finished>>
    BY <1>1, Learns DEF Prune
<1>3. handler[h].view = jobs
    BY <1>1 DEF ViewOK
<1>4. jobs' = [s \in Streamers |-> IF Expired(jobs[s]) THEN None ELSE jobs[s]]
    BY <1>3 DEF Prune
<1>5. Shrinks
    BY <1>4 DEF Shrinks
<1>6. \A c : At(h, c)' <=> c = "revert"
    BY <1>1, <1>2, StandsAt
<1>7. AskedOK(h)'
    <2>1. Inserts(handler'[h].left) => Inserts(handler[h].left) /\ handler'[h].id = handler[h].id
        BY <1>1, <1>2, StandsAt DEF Keeps
    <2> QED BY <1>1, <1>2, <1>5, <2>1, ShrinksKeepsAsked
<1>8. ViewOK(h)'
    <2>1. jobs' = [s \in Streamers |-> IF Expired(handler'[h].view[s]) THEN None ELSE handler'[h].view[s]]
        BY <1>2, <1>3, <1>4
    <2> QED BY <1>6, <2>1 DEF ViewOK
<1> QED BY <1>1, <1>2, <1>5, <1>7, <1>8, ShrinksKeepsIds

\* The put-back makes the queue what the handler goes on with.
LEMMA RevertWrites ==
    ASSUME NEW h \in Handlers, SoleInv(h), Revert(h)
    PROVE  /\ jobs' = pruneJobs(handler[h].view)
           /\ jobs' = [s \in Streamers |->
                          IF Stuck(handler[h].view[s]) THEN [jobs[s] EXCEPT !.ran = None] ELSE jobs[s]]
           /\ \A s \in Streamers : Stuck(handler[h].view[s]) => jobs[s] = handler[h].view[s]
<1> DEFINE view == handler[h].view
<1>1. view \in JobMap /\ jobs \in JobMap
    BY DEF SoleInv, DeskTypes, HandlersOK, HandlerRec
<1>2. jobs = [s \in Streamers |-> IF Expired(view[s]) THEN None ELSE view[s]]
    BY DEF SoleInv, ViewOK, Revert
<1>3. jobs' = [s \in Streamers |-> IF Stuck(view[s]) THEN pruneJobs(view)[s] ELSE jobs[s]]
    BY DEF Revert
<1> HIDE DEF view
<1>4. \A s \in Streamers : Stuck(view[s]) => ~Expired(view[s])
    BY DEF Stuck
<1>5. \A s \in Streamers : Stuck(view[s]) => jobs[s] = view[s]
    BY <1>2, <1>4
<1>6. \A s \in Streamers : ~Stuck(view[s]) => jobs[s] = pruneJobs(view)[s]
    BY <1>1, <1>2, PruneJobsOK
<1>7. jobs' = pruneJobs(view)
    <2>1. pruneJobs(view) = [s \in Streamers |-> pruneJobs(view)[s]]
        BY DEF pruneJobs
    <2>2. jobs' = [s \in Streamers |-> pruneJobs(view)[s]]
        BY <1>3, <1>6
    <2> QED BY <2>1, <2>2
<1>8. \A s \in Streamers : Stuck(view[s]) => pruneJobs(view)[s] = [jobs[s] EXCEPT !.ran = None]
    BY <1>1, <1>4, <1>5, PruneJobsOK
<1>9. jobs' = [s \in Streamers |-> IF Stuck(view[s]) THEN [jobs[s] EXCEPT !.ran = None] ELSE jobs[s]]
    BY <1>3, <1>8
<1> QED BY <1>5, <1>7, <1>9 DEF view

LEMMA SoleRevert ==
    ASSUME NEW h \in Handlers, SoleInv(h), Revert(h)
    PROVE  (IdsOK /\ AskedOK(h) /\ ViewOK(h))'
<1>1. /\ HandlersOK /\ DeskTypes /\ IdsOK /\ AskedOK(h) /\ At(h, "revert")
      /\ jobs \in JobMap /\ handler[h].view \in JobMap
    BY DEF SoleInv, DeskTypes, Revert, HandlersOK, HandlerRec
<1>2. Keeps(h) /\ handler'[h].view = pruneJobs(handler[h].view) /\ UNCHANGED <<issued, finished>>
    BY <1>1, Learns DEF Revert
<1>3. handler'[h].view = jobs'
    BY <1>2, RevertWrites
<1>4. Shrinks
    <2> SUFFICES ASSUME NEW s \in Streamers, jobs'[s] # None
                 PROVE  jobs[s] # None /\ jobs'[s].id = jobs[s].id
        BY DEF Shrinks
    <2>1. CASE Stuck(handler[h].view[s])
        <3>1. jobs'[s] = [jobs[s] EXCEPT !.ran = None] /\ jobs[s] = handler[h].view[s]
            BY <2>1, RevertWrites
        <3>2. jobs[s] # None /\ jobs[s] \in Job
            BY <1>1, <2>1, <3>1 DEF Stuck, JobMap
        <3> QED BY <3>1, <3>2 DEF Job
    <2>2. CASE ~Stuck(handler[h].view[s])
        BY <2>2, RevertWrites
    <2> QED BY <2>1, <2>2
<1>5. \A c : At(h, c)' => c \in {"stamps", "insert", "drop"}
    BY <1>1, <1>2, StandsAt
<1>6. AskedOK(h)'
    <2>1. Inserts(handler'[h].left) => Inserts(handler[h].left) /\ handler'[h].id = handler[h].id
        BY <1>1, <1>2, StandsAt DEF Keeps
    <2> QED BY <1>1, <1>2, <1>4, <2>1, ShrinksKeepsAsked
<1>7. ViewOK(h)'
    BY <1>3, <1>5 DEF ViewOK
<1> QED BY <1>1, <1>2, <1>4, <1>6, <1>7, ShrinksKeepsIds

LEMMA SoleDrop ==
    ASSUME NEW h \in Handlers, SoleInv(h), Drop(h)
    PROVE  (IdsOK /\ AskedOK(h) /\ ViewOK(h))'
<1>1. HandlersOK /\ DeskTypes /\ IdsOK /\ AskedOK(h) /\ ViewOK(h) /\ At(h, "drop")
    BY DEF SoleInv, DeskTypes, Drop
<1>2. /\ Keeps(h) /\ UNCHANGED issued
      /\ handler'[h].view = [s \in Streamers |-> IF s \in Done(h) THEN None ELSE handler[h].view[s]]
    BY <1>1, Learns DEF Drop
<1>3. handler[h].view = jobs
    BY <1>1 DEF ViewOK
<1>4. jobs' = [s \in Streamers |-> IF s \in Done(h) THEN None ELSE jobs[s]]
    BY DEF Drop, Dropped
<1>5. \A s \in Streamers : s \in Done(h) <=> jobs[s] # None /\ jobs[s].id = handler[h].id
    BY <1>3 DEF Done
<1>6. Shrinks
    BY <1>4 DEF Shrinks
<1>7. \A s \in Streamers : jobs'[s] # None => jobs'[s] = jobs[s] /\ jobs[s].id # handler[h].id
    BY <1>4, <1>5
<1>8. IdsOK'
    <2>1. CASE Done(h) = {}
        <3>1. UNCHANGED finished
            BY <2>1 DEF Drop
        <3> QED BY <1>1, <1>2, <1>6, <3>1, ShrinksKeepsIds
    <2>2. CASE Done(h) # {}
        <3>1. PICK s \in Streamers : jobs[s] # None /\ jobs[s].id = handler[h].id
            BY <1>5, <2>2 DEF Done
        <3>2. handler[h].id \in 1..issued
            BY <1>1, <3>1 DEF IdsOK
        <3>3. finished' = finished \cup {handler[h].id}
            BY <2>2 DEF Drop
        <3> QED BY <1>1, <1>2, <1>7, <3>2, <3>3 DEF IdsOK
    <2> QED BY <2>1, <2>2
<1>9. ~Inserts(handler[h].left)
    <2>1. handler[h].op = "poll"
        BY <1>1, CallOf
    <2> QED BY <1>1, <2>1, InsertsOf
<1>10. AskedOK(h)'
    <2>1. ~Inserts(handler'[h].left)
        BY <1>1, <1>2, <1>9, StandsAt
    <2> QED BY <2>1 DEF AskedOK, Inserts
<1>11. ViewOK(h)'
    <2>1. \A c : At(h, c)' <=> c = "claim"
        BY <1>1, <1>2, StandsAt
    <2>2. handler'[h].view = jobs'
        BY <1>2, <1>3, <1>4
    <2> QED BY <2>1, <2>2 DEF ViewOK
<1> QED BY <1>8, <1>10, <1>11

\* The job that is given out is as the queue has it.
LEMMA ClaimWrites ==
    ASSUME NEW h \in Handlers, SoleInv(h), Claim(h)
    PROVE  \/ Oldest(jobs) = {} /\ UNCHANGED jobs /\ Hears(h, None, None)
           \/ \E s \in Oldest(jobs) :
                 /\ s \in Streamers /\ jobs[s] # None /\ jobs[s] \in Job
                 /\ jobs' = [jobs EXCEPT ![s] = [jobs[s] EXCEPT !.ran = 0]]
                 /\ Hears(h, s, jobs[s].id)
<1>1. handler[h].view = jobs
    BY DEF SoleInv, ViewOK, Claim
<1>2. jobs \in JobMap
    BY DEF SoleInv, DeskTypes
<1>3. \A s \in Oldest(jobs) : s \in Streamers /\ jobs[s] # None /\ jobs[s] \in Job
    BY <1>2 DEF Oldest, Waiting, JobMap
<1> QED BY <1>1, <1>3 DEF Claim

LEMMA SoleClaim ==
    ASSUME NEW h \in Handlers, SoleInv(h), Claim(h)
    PROVE  (IdsOK /\ AskedOK(h) /\ ViewOK(h))'
<1>1. HandlersOK /\ IdsOK /\ jobs \in JobMap /\ UNCHANGED <<issued, finished>> /\ Answers(h)
    BY DEF SoleInv, DeskTypes, Claim
<1>2. Shrinks
    <2>1. CASE UNCHANGED jobs
        BY <2>1 DEF Shrinks
    <2>2. ASSUME NEW s \in Streamers, jobs[s] # None, jobs[s] \in Job,
                 jobs' = [jobs EXCEPT ![s] = [jobs[s] EXCEPT !.ran = 0]]
          PROVE  Shrinks
        <3>1. [jobs[s] EXCEPT !.ran = 0].id = jobs[s].id
            BY <2>2 DEF Job
        <3>2. jobs'[s].id = jobs[s].id
            BY <1>1, <2>2, <3>1 DEF JobMap
        <3>3. \A t \in Streamers : t # s => jobs'[t] = jobs[t]
            BY <1>1, <2>2 DEF JobMap
        <3> QED BY <2>2, <3>2, <3>3 DEF Shrinks
    <2> QED BY <2>1, <2>2, ClaimWrites
<1>3. handler'[h] = Free
    BY <1>1, AnswersOK
<1> QED BY <1>1, <1>2, <1>3, ShrinksKeepsIds, FreeSole

LEMMA SoleAnswers ==
    ASSUME NEW h \in Handlers, SoleInv(h), Stamp(h) \/ StatusEnds(h)
    PROVE  (IdsOK /\ AskedOK(h) /\ ViewOK(h))'
<1>1. HandlersOK /\ IdsOK /\ UNCHANGED <<jobs, issued, finished>> /\ Answers(h)
    BY DEF SoleInv, DeskTypes, Stamp, StatusEnds
<1>2. Shrinks
    BY <1>1 DEF Shrinks
<1>3. handler'[h] = Free
    BY <1>1, AnswersOK
<1> QED BY <1>1, <1>2, <1>3, ShrinksKeepsIds, FreeSole

\* What an answered or stored request leaves behind.
LEMMA InsertMoves ==
    ASSUME DeskTypes, NEW h \in Handlers, Insert(h)
    PROVE  /\ handler[h].op \in {"user", "admin"} /\ handler[h].streamer \in Streamers
           /\ handler[h].id \in Ids /\ Inserts(handler[h].left)
           /\ ~Inserts(handler'[h].left) /\ ViewOK(h)'
           /\ \/ handler'[h] = Free
              \/ /\ handler[h].op = "user" /\ ~Refused(h) /\ jobs[handler[h].streamer] = None
                 /\ Keeps(h) /\ \A c : At(h, c)' <=> c = "stamp"
<1>1. HandlersOK /\ At(h, "insert") /\ handler[h] \in HandlerRec
    BY DEF DeskTypes, HandlersOK, Insert
<1>2. /\ handler[h].op \in {"user", "admin"} /\ HandlerOK(handler[h])
      /\ handler[h].left # <<>> /\ Head(handler[h].left) = "insert"
    BY <1>1, CallOf
<1>3. handler[h].streamer \in Streamers /\ handler[h].id \in Ids /\ Inserts(handler[h].left)
    BY <1>1, <1>2, InsertsOf DEF HandlerOK
<1>4. CASE Answers(h)
    <2>1. handler'[h] = Free
        BY <1>1, <1>4, AnswersOK
    <2> QED BY <1>2, <1>3, <2>1, FreeSole
<1>5. CASE /\ ~Refused(h) /\ jobs[handler[h].streamer] = None
           /\ handler[h].op = "user" /\ Goes(h, handler[h])
    <2>1. Keeps(h)
        BY <1>1, <1>5, MovesTo DEF Keeps
    <2> DEFINE left == handler[h].left
    <2>2. Tail(left) # <<>> /\ Head(Tail(left)) = "stamp" /\ ~Inserts(Tail(left))
        BY <1>1, <1>2, <1>5, NextCall
    <2>3. handler'[h].left = Tail(left)
        BY <2>1 DEF Keeps
    <2> HIDE DEF left
    <2>4. \A c : At(h, c)' <=> c = "stamp"
        BY <2>2, <2>3 DEF At
    <2>5. ~Inserts(handler'[h].left)
        BY <2>2, <2>3
    <2>6. ViewOK(h)'
        BY <2>4 DEF ViewOK
    <2> QED BY <1>2, <1>3, <1>5, <2>1, <2>4, <2>5, <2>6
<1> QED BY <1>4, <1>5 DEF Insert

LEMMA SoleInsert ==
    ASSUME NEW h \in Handlers, SoleInv(h), Insert(h)
    PROVE  (IdsOK /\ AskedOK(h) /\ ViewOK(h))'
<1> DEFINE s == handler[h].streamer
<1>1. HandlersOK /\ DeskTypes /\ IdsOK /\ AskedOK(h) /\ jobs \in JobMap /\ UNCHANGED <<issued, finished>>
    BY DEF SoleInv, DeskTypes, Insert
<1>2. /\ s \in Streamers /\ Inserts(handler[h].left)
      /\ ~Inserts(handler'[h].left) /\ ViewOK(h)'
    BY <1>1, InsertMoves
<1>3. AskedOK(h)'
    BY <1>2 DEF AskedOK, Inserts
<1>4. /\ handler[h].id \in 1..issued /\ handler[h].id \notin finished
      /\ \A t \in Streamers : jobs[t] # None => jobs[t].id # handler[h].id
    BY <1>1, <1>2 DEF AskedOK
<1>5. CASE UNCHANGED jobs
    BY <1>1, <1>2, <1>3, <1>5 DEF IdsOK
<1>6. CASE jobs' = [jobs EXCEPT ![s] = [id |-> handler[h].id, age |-> 0, ran |-> None]]
    <2>1. jobs'[s].id = handler[h].id
        BY <1>1, <1>2, <1>6 DEF JobMap
    <2>2. \A t \in Streamers : t # s => jobs'[t] = jobs[t]
        BY <1>1, <1>2, <1>6 DEF JobMap
    <2> HIDE DEF s
    <2>3. \A t \in Streamers : jobs'[t] # None =>
              jobs'[t].id \in 1..issued /\ jobs'[t].id \notin finished
        BY <1>1, <1>2, <1>4, <2>1, <2>2 DEF IdsOK
    <2>4. \A t, u \in Streamers :
              jobs'[t] # None /\ jobs'[u] # None /\ jobs'[t].id = jobs'[u].id => t = u
        BY <1>1, <1>2, <1>4, <2>1, <2>2 DEF IdsOK
    <2>5. IdsOK'
        BY <1>1, <2>3, <2>4 DEF IdsOK
    <2> QED BY <1>2, <1>3, <2>5
<1> QED BY <1>5, <1>6 DEF Insert

LEMMA PathStarts ==
    /\ Path["status"] \in StatusLeft /\ Path["status"] # <<>> /\ Head(Path["status"]) = "jobs"
    /\ Path["user"] \in UserLeft /\ Path["user"] # <<>> /\ Head(Path["user"]) = "stamps"
    /\ Path["admin"] \in {<<"insert">>} /\ Path["admin"] # <<>> /\ Head(Path["admin"]) = "insert"
    /\ Path["poll"] \in PollLeft /\ Path["poll"] # <<>> /\ Head(Path["poll"]) = "jobs"
    /\ ~Inserts(Path["status"]) /\ Inserts(Path["user"]) /\ Inserts(Path["admin"]) /\ ~Inserts(Path["poll"])
<1>1. /\ Path["status"] \in StatusLeft /\ Path["status"] # <<>> /\ Head(Path["status"]) = "jobs"
      /\ Path["user"] \in UserLeft /\ Path["user"] # <<>> /\ Head(Path["user"]) = "stamps"
      /\ Path["admin"] \in {<<"insert">>} /\ Path["admin"] # <<>> /\ Head(Path["admin"]) = "insert"
      /\ Path["poll"] \in PollLeft /\ Path["poll"] # <<>> /\ Head(Path["poll"]) = "jobs"
    BY DEF Path, StatusLeft, UserLeft, PollLeft
<1>2. ~Inserts(Path["status"])
    BY <1>1, StatusPath
<1>3. Inserts(Path["user"])
    BY <1>1, UserPath
<1>4. Inserts(Path["admin"])
    BY <1>1, AdminPath
<1>5. ~Inserts(Path["poll"])
    BY <1>1, PollPath
<1> QED BY <1>1, <1>2, <1>3, <1>4, <1>5

LEMMA SoleBegins ==
    ASSUME NEW h \in Handlers, SoleInv(h),
           \/ Status(h)
           \/ \E s \in Streamers, op \in {"user", "admin"} : Enqueue(h, op, s)
           \/ HomePolls(h)
    PROVE  (IdsOK /\ AskedOK(h) /\ ViewOK(h))'
<1>1. HandlersOK /\ DeskTypes /\ IdsOK /\ HomeOK /\ issued \in 0..MaxJobs
    BY DEF SoleInv, DeskTypes
<1>2. CASE Status(h) \/ HomePolls(h)
    <2>1. UNCHANGED <<jobs, issued, finished>> /\ Shrinks
        BY <1>2 DEF Status, HomePolls, Shrinks
    <2>2. handler'[h].left = Path["status"] \/ handler'[h].left = Path["poll"]
        <3>1. CASE Status(h)
            BY <1>1, <3>1, BeginOK DEF Status, Ops
        <3>2. CASE HomePolls(h)
            BY <1>1, <3>2, BeginOK DEF HomePolls, Ops, HomeOK, HomeRec
        <3> QED BY <1>2, <3>1, <3>2
    <2>3. ~Inserts(handler'[h].left) /\ \A c : At(h, c)' <=> c = "jobs"
        BY <2>2, PathStarts DEF At
    <2>4. AskedOK(h)' /\ ViewOK(h)'
        BY <2>3 DEF AskedOK, ViewOK, Inserts
    <2> QED BY <1>1, <2>1, <2>4, ShrinksKeepsIds
<1>3. ASSUME NEW s \in Streamers, NEW op \in {"user", "admin"}, Enqueue(h, op, s)
      PROVE  (IdsOK /\ AskedOK(h) /\ ViewOK(h))'
    <2>1. issued' = issued + 1 /\ issued' \in Ids /\ issued \in Nat /\ UNCHANGED <<jobs, finished>>
        BY <1>1, <1>3, Constants DEF Enqueue, Ids
    <2>2. Begin(h, op, s, issued')
        BY <1>3 DEF Enqueue
    <2>3. handler'[h].left = Path[op] /\ handler'[h].op = op /\ handler'[h].id = issued'
        BY <1>1, <2>1, <2>2, BeginOK DEF Ops
    <2>4. /\ 1..issued \subseteq 1..issued' /\ issued' \in 1..issued' /\ issued' \notin 1..issued
        BY <2>1
    <2>5. IdsOK'
        BY <1>1, <2>1, <2>4 DEF IdsOK
    <2>6. AskedOK(h)'
        BY <1>1, <2>1, <2>3, <2>4 DEF AskedOK, IdsOK
    <2>7. ViewOK(h)'
        <3>1. CASE op = "user"
            <4>1. \A c : At(h, c)' <=> c = "stamps"
                BY <2>3, <3>1, PathStarts DEF At
            <4> QED BY <4>1 DEF ViewOK
        <3>2. CASE op = "admin"
            <4>1. \A c : At(h, c)' <=> c = "insert"
                BY <2>3, <3>2, PathStarts DEF At
            <4> QED BY <2>3, <3>2, <4>1 DEF ViewOK
        <3> QED BY <3>1, <3>2
    <2> QED BY <2>5, <2>6, <2>7
<1> QED BY <1>2, <1>3

\* The home PC and the clock leave requests and ids alone.
LEMMA SoleRest ==
    ASSUME NEW h \in Handlers, SoleInv(h),
           \/ Finish \/ RoundEnds \/ Report \/ GivesUp \/ HomeRestarts \/ ServerRestarts \/ Tick
           \/ \E s \in Streamers : RoundReport(s)
           \/ UNCHANGED vars
    PROVE  (IdsOK /\ AskedOK(h) /\ ViewOK(h))'
<1>1. DeskTypes /\ IdsOK /\ AskedOK(h) /\ ViewOK(h) /\ jobs \in JobMap
    BY DEF SoleInv, DeskTypes
<1>2. CASE UNCHANGED <<jobs, handler, issued, finished>>
    BY <1>1, <1>2 DEF IdsOK, AskedOK, ViewOK, At, Inserts
<1>3. CASE ServerRestarts
    <2>1. handler'[h] = Free /\ UNCHANGED <<jobs, issued, finished>>
        BY <1>3 DEF ServerRestarts
    <2>2. Shrinks
        BY <2>1 DEF Shrinks
    <2> QED BY <1>1, <2>1, <2>2, FreeSole, ShrinksKeepsIds
<1>4. CASE Tick
    <2>1. handler'[h] = Free /\ UNCHANGED <<issued, finished>>
        BY <1>4 DEF Tick
    <2>2. Shrinks
        <3> SUFFICES ASSUME NEW s \in Streamers, jobs'[s] # None
                     PROVE  jobs[s] # None /\ jobs'[s].id = jobs[s].id
            BY DEF Shrinks
        <3>1. jobs[s] # None
            BY <1>4 DEF Tick
        <3>2. jobs[s] \in Job
            BY <1>1, <3>1 DEF JobMap
        <3>3. jobs'[s] = [jobs[s] EXCEPT !.age = Older(@, QUEUED_TTL + 1), !.ran = Older(@, RUNNING_TTL + 1)]
            BY <1>4, <3>1 DEF Tick
        <3> QED BY <3>1, <3>2, <3>3, OlderJob
    <2> QED BY <1>1, <2>1, <2>2, FreeSole, ShrinksKeepsIds
<1> QED BY <1>2, <1>3, <1>4
        DEF vars, Finish, RoundEnds, Report, GivesUp, HomeRestarts, RoundReport

LEMMA SoleStep ==
    ASSUME NEW h, Handlers = {h}, SoleInv(h), [Next]_vars
    PROVE  SoleInv(h)'
<1>1. h \in Handlers /\ \A g \in Handlers : g = h
    OBVIOUS
<1>2. DeskTypes'
    BY StepTypes DEF SoleInv
<1>3. CASE HandlerStep(h)
    BY <1>1, <1>2, <1>3, SoleReads, SolePrune, SoleRevert, SoleInsert, SoleAnswers, SoleDrop, SoleClaim
       DEF HandlerStep, SoleInv
<1>4. CASE \/ Status(h)
           \/ \E s \in Streamers, op \in {"user", "admin"} : Enqueue(h, op, s)
           \/ HomePolls(h)
    BY <1>1, <1>2, <1>4, SoleBegins DEF SoleInv
<1>5. CASE \/ Finish \/ RoundEnds \/ Report \/ GivesUp \/ HomeRestarts \/ ServerRestarts \/ Tick
           \/ \E s \in Streamers : RoundReport(s)
           \/ UNCHANGED vars
    BY <1>1, <1>2, <1>5, SoleRest DEF SoleInv
<1> QED BY <1>1, <1>3, <1>4, <1>5 DEF Next, HomeStep

LEMMA SoleStart ==
    ASSUME NEW h, Handlers = {h}
    PROVE  Init => SoleInv(h)
<1> SUFFICES ASSUME Init PROVE SoleInv(h)
    OBVIOUS
<1>1. handler[h] = Free /\ handler[h].left = <<>>
    BY FreeOK DEF Init
<1>2. IdsOK
    BY DEF Init, IdsOK
<1>3. AskedOK(h) /\ ViewOK(h)
    BY <1>1 DEF AskedOK, ViewOK, At, Inserts
<1> QED BY <1>2, <1>3, InitTypes DEF SoleInv

\* If no two requests overlap, what a handler goes by when it writes is what is
\* there, and an id is one job's, queued or done or asked for.
THEOREM SoleInvHolds ==
    ASSUME NEW h, Handlers = {h}
    PROVE  Spec => []SoleInv(h)
<1>1. Init => SoleInv(h)
    BY SoleStart
<1>2. SoleInv(h) /\ [Next]_vars => SoleInv(h)'
    BY SoleStep
<1> QED BY <1>1, <1>2, PTL DEF Spec

\* What the home PC has done is not in the queue again, if no two requests
\* overlap.
THEOREM FinishedStaysGone ==
    ASSUME NEW h, Handlers = {h}
    PROVE  Spec => []FinishedIsGone
<1>1. SoleInv(h) => FinishedIsGone
    BY DEF SoleInv, IdsOK, FinishedIsGone
<1> QED BY <1>1, SoleInvHolds, PTL
-----------------------------------------------------------------------------
(* The quota of the users. *)

LEMMA Fewer ==
    ASSUME IsFiniteSet(Streamers), NEW new, NEW old, Recent(new) \subseteq Recent(old)
    PROVE  /\ Cardinality(Recent(new)) \in Nat /\ Cardinality(Recent(old)) \in Nat
           /\ Cardinality(Recent(new)) <= Cardinality(Recent(old))
<1>1. Recent(old) \subseteq Streamers
    BY DEF Recent
<1>2. IsFiniteSet(Recent(old)) /\ IsFiniteSet(Recent(new))
    BY <1>1, FS_Subset
<1>3. Cardinality(Recent(new)) \in Nat /\ Cardinality(Recent(old)) \in Nat
    BY <1>2, FS_CardinalityType
<1> QED BY <1>2, <1>3, FS_Subset

LEMMA OneMore ==
    ASSUME IsFiniteSet(Streamers), NEW new, NEW old, NEW s,
           Recent(new) \subseteq Recent(old) \cup {s}
    PROVE  Cardinality(Recent(new)) <= Cardinality(Recent(old)) + 1
<1>1. IsFiniteSet(Recent(old)) /\ Cardinality(Recent(old)) \in Nat
    <2>1. Recent(old) \subseteq Streamers
        BY DEF Recent
    <2> QED BY <2>1, FS_Subset, FS_CardinalityType
<1>2. /\ IsFiniteSet(Recent(old) \cup {s})
      /\ Cardinality(Recent(old) \cup {s}) <= Cardinality(Recent(old)) + 1
      /\ Cardinality(Recent(old) \cup {s}) \in Nat
    <2>1. IsFiniteSet(Recent(old) \cup {s})
        BY <1>1, FS_AddElement
    <2>2. /\ Cardinality(Recent(old) \cup {s}) =
                 IF s \in Recent(old) THEN Cardinality(Recent(old)) ELSE Cardinality(Recent(old)) + 1
        BY <1>1, FS_AddElement
    <2> QED BY <1>1, <2>1, <2>2
<1>3. IsFiniteSet(Recent(new)) /\ Cardinality(Recent(new)) <= Cardinality(Recent(old) \cup {s})
    BY <1>2, FS_Subset
<1>4. Cardinality(Recent(new)) \in Nat
    BY <1>3, FS_CardinalityType
<1> QED BY <1>1, <1>2, <1>3, <1>4

\* Stamps that are forgotten, or grow old, leave the quota as it is.
LEMMA QuotaKept ==
    ASSUME IsFiniteSet(Streamers), NEW h \in Handlers, QuotaOK(h),
           Recent(stamps'.queued) \subseteq Recent(stamps.queued),
           handler'[h].op = "user" /\ ~At(h, "stamps")'
               /\ (At(h, "stamp")' \/ ~handler'[h].blocked) =>
               Cardinality(Recent(stamps.queued)) < USER_HOURLY_LIMIT
    PROVE  QuotaOK(h)'
<1> DEFINE old == Cardinality(Recent(stamps.queued))
           new == Cardinality(Recent(stamps'.queued))
<1>1. old \in Nat /\ new \in Nat /\ new <= old /\ USER_HOURLY_LIMIT \in Nat
    BY Fewer, Constants
<1>2. old <= USER_HOURLY_LIMIT
    BY DEF QuotaOK, QuotaHolds
<1> HIDE DEF old, new
<1>3. new <= USER_HOURLY_LIMIT /\ (old < USER_HOURLY_LIMIT => new < USER_HOURLY_LIMIT)
    BY <1>1, <1>2
<1>4. QuotaHolds'
    BY <1>3 DEF QuotaHolds, new
<1>5. (handler'[h].op = "user" /\ ~At(h, "stamps")' /\ (At(h, "stamp")' \/ ~handler'[h].blocked)) =>
          Cardinality(Recent(stamps'.queued)) < USER_HOURLY_LIMIT
    BY <1>3 DEF old, new
<1> QED BY <1>4, <1>5 DEF QuotaOK

LEMMA QuotaFree ==
    ASSUME IsFiniteSet(Streamers), NEW h \in Handlers, QuotaOK(h),
           Recent(stamps'.queued) \subseteq Recent(stamps.queued), handler'[h].op # "user"
    PROVE  QuotaOK(h)'
BY QuotaKept

LEMMA QuotaReads ==
    ASSUME IsFiniteSet(Streamers), NEW h \in Handlers, SoleInv(h), QuotaOK(h),
           ReadJobs(h) \/ Prune(h) \/ Revert(h) \/ ReadStamps(h) \/ Forget(h) \/ Drop(h)
    PROVE  QuotaOK(h)'
<1>1. /\ HandlersOK /\ DeskTypes /\ stamps \in [captured: StampMap, queued: StampMap]
    BY DEF SoleInv, DeskTypes
<1>2. Keeps(h)
    BY <1>1, Learns
<1>3. PICK call \in {"jobs", "prune", "revert", "stamps", "forget", "drop"} : At(h, call)
    BY DEF ReadJobs, Prune, Revert, ReadStamps, Forget, Drop
<1>4. ~At(h, "stamp")' /\ (call # "revert" => ~At(h, "stamps")')
    BY <1>1, <1>2, <1>3, StandsAt
<1>5. CASE ReadJobs(h) \/ Prune(h) \/ Revert(h) \/ Drop(h)
    <2>1. UNCHANGED stamps /\ ~At(h, "stamps")
        BY <1>5 DEF ReadJobs, Prune, Revert, Drop, At
    <2>2. handler'[h].op = handler[h].op /\ handler'[h].blocked = handler[h].blocked
        BY <1>1, <1>5, Learns DEF Keeps
    <2>3. (handler'[h].op = "user" /\ ~At(h, "stamps")' /\ (At(h, "stamp")' \/ ~handler'[h].blocked)) =>
              Cardinality(Recent(stamps.queued)) < USER_HOURLY_LIMIT
        BY <1>4, <2>1, <2>2 DEF QuotaOK
    <2> QED BY <2>1, <2>3, QuotaKept
<1>6. CASE ReadStamps(h)
    <2>1. UNCHANGED stamps
        BY <1>6 DEF ReadStamps
    <2>2. /\ handler'[h].op = handler[h].op
          /\ handler'[h].blocked = (handler[h].op = "user" /\ BlockedBy(handler[h].streamer))
        BY <1>1, <1>6, Learns DEF Keeps
    <2>3. ~BlockedBy(handler[h].streamer) => ~(Cardinality(Recent(stamps.queued)) >= USER_HOURLY_LIMIT)
        BY DEF BlockedBy
    <2>4. Cardinality(Recent(stamps.queued)) \in Nat /\ USER_HOURLY_LIMIT \in Nat
        BY Fewer, Constants
    <2>5. (handler'[h].op = "user" /\ ~At(h, "stamps")' /\ (At(h, "stamp")' \/ ~handler'[h].blocked)) =>
              ~(Cardinality(Recent(stamps.queued)) >= USER_HOURLY_LIMIT)
        BY <1>4, <2>2, <2>3
    <2>6. (handler'[h].op = "user" /\ ~At(h, "stamps")' /\ (At(h, "stamp")' \/ ~handler'[h].blocked)) =>
              Cardinality(Recent(stamps.queued)) < USER_HOURLY_LIMIT
        BY <2>4, <2>5
    <2> QED BY <2>1, <2>6, QuotaKept
<1>7. CASE Forget(h)
    <2>1. stamps'.queued = Without(stamps.queued, handler[h].old.queued) /\ ~At(h, "stamps")
        BY <1>7 DEF Forget, At
    <2>2. Recent(stamps'.queued) \subseteq Recent(stamps.queued)
        BY <1>1, <2>1 DEF Recent, Without
    <2>3. handler'[h].op = handler[h].op /\ handler'[h].blocked = handler[h].blocked
        BY <1>1, <1>7, Learns DEF Keeps
    <2>4. (handler'[h].op = "user" /\ ~At(h, "stamps")' /\ (At(h, "stamp")' \/ ~handler'[h].blocked)) =>
              Cardinality(Recent(stamps.queued)) < USER_HOURLY_LIMIT
        BY <1>4, <2>1, <2>3 DEF QuotaOK
    <2> QED BY <2>2, <2>4, QuotaKept
<1> QED BY <1>5, <1>6, <1>7

\* A user's request stores a job, and counts it, only below the limit.
LEMMA QuotaWrites ==
    ASSUME IsFiniteSet(Streamers), NEW h \in Handlers, SoleInv(h), QuotaOK(h), Insert(h) \/ Stamp(h)
    PROVE  QuotaOK(h)'
<1>1. HandlersOK /\ DeskTypes /\ ViewOK(h) /\ stamps \in [captured: StampMap, queued: StampMap]
    BY DEF SoleInv, DeskTypes
<1>2. CASE Insert(h)
    <2>1. UNCHANGED stamps /\ At(h, "insert")
        BY <1>2 DEF Insert
    <2>2. CASE handler'[h] = Free
        BY <2>1, <2>2, FreeOK, QuotaFree
    <2>3. CASE handler[h].op = "user" /\ ~Refused(h) /\ jobs[handler[h].streamer] = None
        <3>1. handler[h].view = jobs
            BY <1>1, <2>1, <2>3 DEF ViewOK
        <3>2. ~handler[h].blocked
            BY <2>3, <3>1 DEF Refused
        <3>3. ~At(h, "stamps")
            BY <2>1 DEF At
        <3>4. Cardinality(Recent(stamps.queued)) < USER_HOURLY_LIMIT
            BY <2>3, <3>2, <3>3 DEF QuotaOK
        <3> QED BY <2>1, <3>4, QuotaKept
    <2> QED BY <1>1, <1>2, <2>2, <2>3, InsertMoves
<1>3. CASE Stamp(h)
    <2> DEFINE s == handler[h].streamer
               old == Cardinality(Recent(stamps.queued))
               new == Cardinality(Recent(stamps'.queued))
    <2>1. At(h, "stamp") /\ Answers(h)
        BY <1>3 DEF Stamp
    <2>2. handler[h].op = "user" /\ ~At(h, "stamps") /\ handler'[h] = Free
        <3>1. handler[h].op = "user"
            BY <1>1, <2>1, CallOf
        <3>2. handler'[h] = Free
            BY <1>1, <2>1, AnswersOK
        <3> QED BY <2>1, <3>1, <3>2 DEF At
    <2>3. old < USER_HOURLY_LIMIT
        BY <2>1, <2>2 DEF QuotaOK
    <2>4. \A t \in Streamers : t # s => stamps'.queued[t] = stamps.queued[t]
        BY <1>1, <1>3 DEF Stamp, StampMap
    <2>5. Recent(stamps'.queued) \subseteq Recent(stamps.queued) \cup {s}
        BY <2>4 DEF Recent
    <2>6. new <= old + 1 /\ old \in Nat /\ new \in Nat /\ USER_HOURLY_LIMIT \in Nat
        BY <2>5, OneMore, Fewer, Constants
    <2> HIDE DEF old, new
    <2>7. new <= USER_HOURLY_LIMIT
        BY <2>3, <2>6
    <2>8. QuotaHolds'
        BY <2>7 DEF QuotaHolds, new
    <2> QED BY <2>2, <2>8, FreeOK DEF QuotaOK
<1> QED BY <1>2, <1>3

LEMMA QuotaStep ==
    ASSUME IsFiniteSet(Streamers), NEW h, Handlers = {h}, SoleInv(h), QuotaOK(h), [Next]_vars
    PROVE  QuotaOK(h)'
<1>1. h \in Handlers /\ \A g \in Handlers : g = h
    OBVIOUS
<1>2. HandlersOK /\ HomeOK /\ issued \in 0..MaxJobs /\ stamps \in [captured: StampMap, queued: StampMap]
    BY DEF SoleInv, DeskTypes
<1>3. CASE StatusEnds(h) \/ Claim(h)
    <2>1. handler'[h] = Free /\ UNCHANGED stamps
        BY <1>1, <1>2, <1>3, AnswersOK DEF StatusEnds, Claim
    <2> QED BY <1>1, <2>1, FreeOK, QuotaFree
<1>4. CASE HandlerStep(h)
    BY <1>1, <1>3, <1>4, QuotaReads, QuotaWrites DEF HandlerStep
<1>5. CASE Status(h) \/ HomePolls(h)
    <2>1. UNCHANGED stamps
        BY <1>5 DEF Status, HomePolls
    <2>2. handler'[h].op # "user"
        <3>1. CASE Status(h)
            BY <1>1, <1>2, <3>1, BeginOK DEF Status, Ops
        <3>2. CASE HomePolls(h)
            BY <1>1, <1>2, <3>2, BeginOK DEF HomePolls, Ops, HomeOK, HomeRec
        <3> QED BY <1>5, <3>1, <3>2
    <2> QED BY <1>1, <2>1, <2>2, QuotaFree
<1>6. ASSUME NEW s \in Streamers, NEW op \in {"user", "admin"}, Enqueue(h, op, s)
      PROVE  QuotaOK(h)'
    <2>1. issued' \in Ids /\ UNCHANGED stamps /\ Begin(h, op, s, issued')
        BY <1>2, <1>6, Constants DEF Enqueue, Ids
    <2>2. handler'[h].left = Path[op] /\ handler'[h].op = op
        BY <1>1, <1>2, <2>1, BeginOK DEF Ops
    <2>3. op = "user" => At(h, "stamps")'
        BY <2>2, PathStarts DEF At
    <2> QED BY <1>1, <2>1, <2>2, <2>3, QuotaKept
<1>7. CASE ServerRestarts \/ Tick
    <2>1. handler'[h] = Free
        BY <1>1, <1>7 DEF ServerRestarts, Tick
    <2>2. Recent(stamps'.queued) \subseteq Recent(stamps.queued)
        <3>1. CASE ServerRestarts
            BY <3>1 DEF ServerRestarts
        <3>2. CASE Tick
            <4> SUFFICES ASSUME NEW s \in Streamers, s \in Recent(stamps'.queued)
                         PROVE  s \in Recent(stamps.queued)
                BY DEF Recent
            <4>1. stamps'.queued[s] = Older(stamps.queued[s], HOUR)
                BY <3>2 DEF Tick, OlderStamps
            <4>2. stamps'.queued[s] # None /\ stamps'.queued[s] < HOUR
                BY DEF Recent
            <4>3. stamps.queued[s] \in 0..HOUR \cup {None}
                BY <1>2 DEF StampMap
            <4>4. stamps.queued[s] # None /\ stamps.queued[s] < HOUR
                BY <4>1, <4>2, <4>3, Constants DEF Older
            <4> QED BY <4>4 DEF Recent
        <3> QED BY <1>7, <3>1, <3>2
    <2> QED BY <1>1, <2>1, <2>2, FreeOK, QuotaFree
<1>8. CASE \/ Finish \/ RoundEnds \/ Report \/ GivesUp \/ HomeRestarts
           \/ \E s \in Streamers : RoundReport(s)
           \/ UNCHANGED vars
    <2>1. UNCHANGED handler /\ stamps'.queued = stamps.queued
        <3>1. \A s : Mark(s) => stamps'.queued = stamps.queued
            BY <1>2 DEF Mark
        <3> QED BY <1>8, <3>1
                DEF vars, Finish, RoundEnds, Report, GivesUp, HomeRestarts, RoundReport
    <2> QED BY <2>1 DEF QuotaOK, QuotaHolds, At
<1> QED BY <1>1, <1>4, <1>5, <1>6, <1>7, <1>8 DEF Next, HomeStep

\* The streamers users have queued within the hour never exceed the limit, if
\* no two requests overlap.
THEOREM QuotaIsKept ==
    ASSUME IsFiniteSet(Streamers), NEW h, Handlers = {h}
    PROVE  Spec => []QuotaHolds
<1>1. Init => QuotaOK(h)
    <2> SUFFICES ASSUME Init PROVE QuotaOK(h)
        OBVIOUS
    <2>1. Recent(stamps.queued) = {}
        BY DEF Init, NoStamps, Recent
    <2>2. Cardinality(Recent(stamps.queued)) = 0
        BY <2>1, FS_EmptySet
    <2>3. QuotaHolds
        BY <2>2, Constants DEF QuotaHolds
    <2>4. handler[h].op = "status"
        BY FreeOK DEF Init
    <2> QED BY <2>3, <2>4 DEF QuotaOK
<1>2. SoleInv(h) /\ QuotaOK(h) /\ [Next]_vars => QuotaOK(h)'
    BY QuotaStep
<1>3. QuotaOK(h) => QuotaHolds
    BY DEF QuotaOK
<1> QED BY <1>1, <1>2, <1>3, SoleInvHolds, PTL DEF Spec
-----------------------------------------------------------------------------
(* The refinement. *)

AskedBy(r) == IF Inserts(r.left) THEN {[id |-> r.id, streamer |-> r.streamer]} ELSE {}

HandsOf(r, theHome) ==
    ({theHome.id, theHome.done} \cup (IF r.op = "poll" THEN {r.id} ELSE {})) \ {None}

LEMMA SoleAsked ==
    ASSUME NEW h, Handlers = {h}
    PROVE  /\ Asked = AskedBy(handler[h]) /\ Asked' = AskedBy(handler'[h])
           /\ Hands = HandsOf(handler[h], home) /\ Hands' = HandsOf(handler'[h], home')
BY DEF Asked, AskedBy, Hands, HandsOf, Inserts

\* The queue keeps its state and its requests; some of these, or what the home
\* PC has, may be forgotten.
LEMMA Loses ==
    ASSUME UNCHANGED <<jobs, issued>>, Asked' \subseteq Asked, Hands' \subseteq Hands
    PROVE  [Queue!Next]_Queue!queueVars
BY DEF Queue!Next, Queue!Lose

\* The calls that read, and those that end a request.
LEMMA QuietSteps ==
    ASSUME NEW h, Handlers = {h}, SoleInv(h),
           \/ ReadJobs(h) \/ ReadStamps(h) \/ Forget(h) \/ Stamp(h) \/ StatusEnds(h)
    PROVE  [Queue!Next]_Queue!queueVars
<1>1. HandlersOK /\ DeskTypes /\ h \in Handlers
    BY DEF SoleInv, DeskTypes
<1>2. UNCHANGED <<jobs, issued, home>>
    BY DEF ReadJobs, ReadStamps, Forget, Stamp, StatusEnds
<1>3. CASE ReadJobs(h) \/ ReadStamps(h) \/ Forget(h)
    <2>1. Keeps(h)
        BY <1>1, <1>3, Learns
    <2>2. PICK call \in {"jobs", "stamps", "forget"} : At(h, call)
        BY <1>3 DEF ReadJobs, ReadStamps, Forget
    <2>3. Inserts(handler'[h].left) <=> Inserts(handler[h].left)
        BY <1>1, <2>1, <2>2, StandsAt
    <2>4. AskedBy(handler'[h]) = AskedBy(handler[h]) /\ HandsOf(handler'[h], home') = HandsOf(handler[h], home)
        BY <1>2, <2>1, <2>3 DEF Keeps, AskedBy, HandsOf
    <2> QED BY <1>2, <2>4, SoleAsked, Loses
<1>4. CASE Stamp(h) \/ StatusEnds(h)
    <2>1. handler'[h] = Free
        BY <1>1, <1>4, AnswersOK DEF Stamp, StatusEnds
    <2>2. ~Inserts(handler'[h].left) /\ handler'[h].op # "poll"
        BY <1>1, <2>1, FreeSole, FreeOK
    <2>3. AskedBy(handler'[h]) = {} /\ HandsOf(handler'[h], home') \subseteq HandsOf(handler[h], home)
        BY <1>2, <2>2 DEF AskedBy, HandsOf
    <2> QED BY <1>2, <2>3, SoleAsked, Loses
<1> QED BY <1>3, <1>4

\* The calls of liveJobs that write.
LEMMA LiveSteps ==
    ASSUME NEW h, Handlers = {h}, SoleInv(h), Prune(h) \/ Revert(h)
    PROVE  [Queue!Next]_Queue!queueVars
<1>1. /\ HandlersOK /\ DeskTypes /\ ViewOK(h) /\ h \in Handlers
      /\ jobs \in JobMap /\ handler[h].view \in JobMap
    BY DEF SoleInv, DeskTypes, HandlersOK, HandlerRec
<1>2. UNCHANGED <<issued, home>> /\ Keeps(h)
    BY <1>1, Learns DEF Prune, Revert
<1>3. PICK call \in {"prune", "revert"} : At(h, call)
    BY DEF Prune, Revert
<1>4. Inserts(handler'[h].left) <=> Inserts(handler[h].left)
    BY <1>1, <1>2, <1>3, StandsAt
<1>5. AskedBy(handler'[h]) = AskedBy(handler[h]) /\ HandsOf(handler'[h], home') = HandsOf(handler[h], home)
    BY <1>2, <1>4 DEF Keeps, AskedBy, HandsOf
<1>6. UNCHANGED <<Asked, Hands, issued>>
    BY <1>2, <1>5, SoleAsked
<1>7. CASE Prune(h)
    <2>1. handler[h].view = jobs
        BY <1>1, <1>7 DEF ViewOK, Prune
    <2>2. jobs' = [s \in Streamers |-> IF Expired(jobs[s]) THEN None ELSE jobs[s]]
        BY <1>7, <2>1 DEF Prune
    <2>3. Queue!Drop
        BY <1>6, <2>2 DEF Queue!Drop, Queue!Expired, Expired
    <2> QED BY <2>3 DEF Queue!Next
<1>8. CASE Revert(h)
    <2> DEFINE view == handler[h].view
               back == [s \in Streamers |->
                   IF jobs[s] # None /\ ~Expired(jobs[s]) /\ jobs[s].ran \notin 0..RUNNING_TTL \cup {None}
                   THEN [jobs[s] EXCEPT !.ran = None] ELSE jobs[s]]
    <2>1. jobs = [s \in Streamers |-> IF Expired(view[s]) THEN None ELSE view[s]]
        BY <1>1, <1>8 DEF ViewOK, Revert
    <2>2. /\ jobs' = [s \in Streamers |->
                         IF Stuck(view[s]) THEN [jobs[s] EXCEPT !.ran = None] ELSE jobs[s]]
          /\ \A s \in Streamers : Stuck(view[s]) => jobs[s] = view[s]
        BY <1>1, <1>8, RevertWrites
    <2> HIDE DEF view
    <2>3. ASSUME NEW s \in Streamers
          PROVE  Stuck(view[s]) <=>
                     jobs[s] # None /\ ~Expired(jobs[s]) /\ jobs[s].ran \notin 0..RUNNING_TTL \cup {None}
        <3>1. jobs[s] # None => jobs[s] \in Job /\ jobs[s] = view[s]
            BY <1>1, <2>1 DEF JobMap
        <3>2. jobs[s] # None =>
                  (jobs[s].ran # None /\ jobs[s].ran > RUNNING_TTL <=> jobs[s].ran \notin 0..RUNNING_TTL \cup {None})
            <4>1. ASSUME jobs[s] # None PROVE jobs[s].ran \in 0..(RUNNING_TTL + 1) \cup {None}
                BY <3>1, <4>1 DEF Job
            <4> QED BY <4>1, Constants
        <3> QED BY <2>2, <3>1, <3>2 DEF Stuck
    <2>4. jobs' = back
        BY <2>2, <2>3
    <2>5. Queue!PutBack
        BY <1>6, <2>4 DEF Queue!PutBack, Queue!Expired, Expired
    <2> QED BY <2>5 DEF Queue!Next
<1> QED BY <1>7, <1>8

LEMMA InsertSteps ==
    ASSUME NEW h, Handlers = {h}, SoleInv(h), Insert(h)
    PROVE  [Queue!Next]_Queue!queueVars
<1> DEFINE s == handler[h].streamer
           r == [id |-> handler[h].id, streamer |-> s]
<1>1. DeskTypes /\ h \in Handlers /\ UNCHANGED <<issued, home>>
    BY DEF SoleInv, Insert
<1>2. /\ handler[h].op \in {"user", "admin"} /\ s \in Streamers
      /\ Inserts(handler[h].left) /\ ~Inserts(handler'[h].left)
      /\ handler'[h].op # "poll"
    <2>1. handler'[h] = Free => handler'[h].op # "poll"
        BY FreeOK
    <2>2. Keeps(h) /\ handler[h].op = "user" => handler'[h].op # "poll"
        BY DEF Keeps
    <2> QED BY <1>1, <2>1, <2>2, InsertMoves
<1>3. Asked = {r} /\ Asked' = {} /\ Hands' = Hands
    <2>1. AskedBy(handler[h]) = {r} /\ AskedBy(handler'[h]) = {}
        BY <1>2 DEF AskedBy
    <2>2. HandsOf(handler'[h], home') = HandsOf(handler[h], home)
        BY <1>1, <1>2 DEF HandsOf
    <2> QED BY <2>1, <2>2, SoleAsked
<1>4. CASE UNCHANGED jobs
    BY <1>1, <1>3, <1>4, Loses
<1>5. CASE /\ jobs[s] = None
           /\ jobs' = [jobs EXCEPT ![s] = [id |-> handler[h].id, age |-> 0, ran |-> None]]
    <2>1. r.id = handler[h].id /\ r.streamer = s
        OBVIOUS
    <2> HIDE DEF r, s
    <2>2. r \in Asked /\ Asked' = Asked \ {r}
        BY <1>3
    <2>3. Queue!Accept(r)
        BY <1>1, <1>3, <1>5, <2>1, <2>2 DEF Queue!Accept
    <2> QED BY <2>2, <2>3 DEF Queue!Next
<1> QED BY <1>4, <1>5 DEF Insert

LEMMA DropSteps ==
    ASSUME NEW h, Handlers = {h}, SoleInv(h), Drop(h)
    PROVE  [Queue!Next]_Queue!queueVars
<1>1. /\ HandlersOK /\ DeskTypes /\ IdsOK /\ ViewOK(h) /\ h \in Handlers /\ At(h, "drop")
      /\ jobs \in JobMap
    BY DEF SoleInv, DeskTypes, Drop
<1>2. Keeps(h) /\ UNCHANGED <<issued, home>>
    BY <1>1, Learns DEF Drop
<1>3. handler[h].op = "poll"
    BY <1>1, CallOf
<1>4. Inserts(handler'[h].left) <=> Inserts(handler[h].left)
    BY <1>1, <1>2, StandsAt
<1>5. Asked' = Asked /\ Hands' = Hands
    <2>1. AskedBy(handler'[h]) = AskedBy(handler[h]) /\ HandsOf(handler'[h], home') = HandsOf(handler[h], home)
        BY <1>2, <1>4 DEF Keeps, AskedBy, HandsOf
    <2> QED BY <2>1, SoleAsked
<1>6. jobs' = [s \in Streamers |-> IF s \in Done(h) THEN None ELSE jobs[s]]
    BY DEF Drop, Dropped
<1>7. CASE Done(h) = {}
    <2>1. jobs' = jobs
        BY <1>1, <1>6, <1>7 DEF JobMap
    <2> QED BY <1>2, <1>5, <2>1, Loses
<1>8. ASSUME NEW s \in Done(h) PROVE Queue!Done(s)
    <2>1. handler[h].view = jobs
        BY <1>1 DEF ViewOK
    <2>2. s \in Streamers /\ jobs[s] # None /\ jobs[s].id = handler[h].id /\ handler[h].id \in Ids
        BY <1>1, <1>8, <2>1, DoneOf DEF Done
    <2>3. \A t \in Streamers : t \in Done(h) => t = s
        BY <1>1, <2>1, <2>2 DEF Done, IdsOK
    <2>4. jobs' = [jobs EXCEPT ![s] = None]
        BY <1>1, <1>6, <1>8, <2>3 DEF JobMap
    <2>5. jobs[s].id \in Hands
        <3>1. handler[h].id # None
            BY <2>2, Constants
        <3> QED BY <1>3, <2>2, <3>1, SoleAsked DEF HandsOf
    <2> QED BY <1>2, <1>5, <2>2, <2>4, <2>5 DEF Queue!Done
<1>9. CASE Done(h) # {}
    <2>1. PICK s \in Done(h) : s \in Streamers
        BY <1>9 DEF Done
    <2>2. Queue!Done(s)
        BY <1>8, <2>1
    <2> QED BY <2>1, <2>2 DEF Queue!Next
<1> QED BY <1>7, <1>9

LEMMA ClaimSteps ==
    ASSUME NEW h, Handlers = {h}, SoleInv(h), Claim(h)
    PROVE  [Queue!Next]_Queue!queueVars
<1>1. /\ HandlersOK /\ DeskTypes /\ HomeOK /\ h \in Handlers /\ At(h, "claim") /\ Answers(h)
      /\ jobs \in JobMap /\ UNCHANGED issued
    BY DEF SoleInv, DeskTypes, Claim
<1>2. handler[h].op = "poll" /\ handler'[h] = Free
    BY <1>1, CallOf, AnswersOK
<1>3. ~Inserts(handler[h].left) /\ ~Inserts(handler'[h].left) /\ handler'[h].op # "poll"
    <2>1. ~Inserts(handler'[h].left)
        BY <1>1, <1>2, FreeSole
    <2> QED BY <1>1, <1>2, <2>1, InsertsOf, FreeOK
<1>4. Asked' = Asked
    BY <1>3, SoleAsked DEF AskedBy
<1>5. ASSUME NEW id, UNCHANGED home \/ (home'.id \in {id, None} /\ home'.done = None)
      PROVE  Hands' \subseteq Hands \cup {id}
    <2>1. HandsOf(handler'[h], home') \subseteq HandsOf(handler[h], home) \cup {id}
        BY <1>3, <1>5 DEF HandsOf
    <2> QED BY <2>1, SoleAsked
<1>6. CASE UNCHANGED jobs /\ Hears(h, None, None)
    <2>1. UNCHANGED home \/ (home'.id \in {None, None} /\ home'.done = None)
        BY <1>1, <1>6, HearsOK
    <2>2. Hands' \subseteq Hands \cup {None}
        BY <1>5, <2>1
    <2>3. Hands' \subseteq Hands
        BY <2>2 DEF Hands
    <2> QED BY <1>1, <1>4, <1>6, <2>3, Loses
<1>7. ASSUME NEW s \in Oldest(jobs), s \in Streamers, jobs[s] # None, jobs[s] \in Job,
             jobs' = [jobs EXCEPT ![s] = [jobs[s] EXCEPT !.ran = 0]],
             Hears(h, s, jobs[s].id)
      PROVE  [Queue!Next]_Queue!queueVars
    <2>1. jobs[s].id \in Ids
        BY <1>7 DEF Job
    <2>2. UNCHANGED home \/ (home'.id \in {jobs[s].id, None} /\ home'.done = None)
        BY <1>1, <1>7, <2>1, HearsOK
    <2>3. Hands' \in SUBSET (Hands \cup {jobs[s].id})
        BY <1>5, <2>2
    <2>4. s \in Queue!Oldest
        BY <1>7 DEF Oldest, Waiting, Queue!Oldest, Queue!Waiting
    <2>5. jobs' = [jobs EXCEPT ![s].ran = 0]
        BY <1>7
    <2>6. Queue!Take(s)
        BY <1>1, <1>4, <2>3, <2>4, <2>5 DEF Queue!Take
    <2> QED BY <1>7, <2>6 DEF Queue!Next
<1> QED BY <1>6, <1>7, ClaimWrites, <1>1

LEMMA BeginSteps ==
    ASSUME NEW h, Handlers = {h}, SoleInv(h),
           \/ Status(h)
           \/ \E s \in Streamers, op \in {"user", "admin"} : Enqueue(h, op, s)
           \/ HomePolls(h)
    PROVE  [Queue!Next]_Queue!queueVars
<1>1. HandlersOK /\ HomeOK /\ home \in HomeRec /\ issued \in 0..MaxJobs /\ h \in Handlers
    BY DEF SoleInv, DeskTypes, HomeOK
<1>2. handler[h] = Free /\ UNCHANGED jobs
    BY DEF Status, Enqueue, HomePolls, Begin
<1>3. AskedBy(handler[h]) = {} /\ HandsOf(handler[h], home) = {home.id, home.done} \ {None}
    <2>1. handler[h].left = <<>> /\ handler[h].op # "poll"
        BY <1>2, FreeOK
    <2>2. ~Inserts(handler[h].left)
        BY <2>1 DEF Inserts
    <2> QED BY <2>1, <2>2 DEF AskedBy, HandsOf
<1>4. CASE Status(h)
    <2>1. handler'[h].left = Path["status"] /\ handler'[h].op = "status" /\ UNCHANGED <<issued, home>>
        BY <1>1, <1>4, BeginOK DEF Status, Ops
    <2>2. AskedBy(handler'[h]) = {} /\ HandsOf(handler'[h], home') = {home.id, home.done} \ {None}
        BY <2>1, PathStarts DEF AskedBy, HandsOf
    <2> QED BY <1>2, <1>3, <2>1, <2>2, SoleAsked, Loses
<1>5. CASE HomePolls(h)
    <2>1. /\ handler'[h].left = Path["poll"] /\ handler'[h].id = home.done /\ UNCHANGED issued
          /\ home'.id = home.id /\ home'.done = home.done
        BY <1>1, <1>5, BeginOK DEF HomePolls, Ops, HomeRec
    <2>2. AskedBy(handler'[h]) = {} /\ HandsOf(handler'[h], home') = {home.id, home.done} \ {None}
        BY <2>1, PathStarts DEF AskedBy, HandsOf
    <2> QED BY <1>2, <1>3, <2>1, <2>2, SoleAsked, Loses
<1>6. ASSUME NEW s \in Streamers, NEW op \in {"user", "admin"}, Enqueue(h, op, s)
      PROVE  Queue!Ask(s)
    <2>1. /\ issued < MaxJobs /\ issued' = issued + 1 /\ issued' \in Ids /\ UNCHANGED home
          /\ Begin(h, op, s, issued')
        BY <1>1, <1>6, Constants DEF Enqueue, Ids
    <2>2. /\ handler'[h].left = Path[op] /\ handler'[h].op = op
          /\ handler'[h].id = issued' /\ handler'[h].streamer = s
        BY <1>1, <2>1, BeginOK DEF Ops
    <2>3. AskedBy(handler'[h]) = {[id |-> issued', streamer |-> s]}
        BY <2>2, PathStarts DEF AskedBy
    <2>4. HandsOf(handler'[h], home') = {home.id, home.done} \ {None}
        BY <2>1, <2>2 DEF HandsOf
    <2>5. Asked' = Asked \cup {[id |-> issued', streamer |-> s]} /\ Hands' = Hands
        BY <1>3, <2>3, <2>4, SoleAsked
    <2> QED BY <1>2, <2>1, <2>5 DEF Queue!Ask
<1>7. (\E s \in Streamers, op \in {"user", "admin"} : Enqueue(h, op, s)) => Queue!Next
    BY <1>6 DEF Queue!Next
<1> QED BY <1>4, <1>5, <1>7

\* The home PC and the clock.
LEMMA RestSteps ==
    ASSUME NEW h, Handlers = {h}, SoleInv(h),
           \/ Finish \/ RoundEnds \/ Report \/ GivesUp \/ HomeRestarts \/ ServerRestarts \/ Tick
           \/ \E s \in Streamers : RoundReport(s)
           \/ UNCHANGED vars
    PROVE  [Queue!Next]_Queue!queueVars
<1>1. HomeOK /\ home \in HomeRec /\ jobs \in JobMap /\ h \in Handlers
    BY DEF SoleInv, DeskTypes, HomeOK
<1>2. CASE UNCHANGED <<jobs, handler, issued>> /\ {home'.id, home'.done} \subseteq {home.id, home.done, None}
    <2>1. Asked' = Asked /\ HandsOf(handler'[h], home') \subseteq HandsOf(handler[h], home)
        BY <1>2 DEF Asked, HandsOf
    <2> QED BY <1>2, <2>1, SoleAsked, Loses
<1>3. CASE ServerRestarts
    <2>1. /\ handler'[h] = Free /\ UNCHANGED <<jobs, issued>>
          /\ home'.id = home.id /\ home'.done = home.done
        BY <1>1, <1>3 DEF ServerRestarts, HomeRec
    <2>2. ~Inserts(handler'[h].left) /\ handler'[h].op # "poll"
        BY <1>1, <2>1, FreeSole, FreeOK
    <2>3. AskedBy(handler'[h]) = {} /\ HandsOf(handler'[h], home') \subseteq HandsOf(handler[h], home)
        BY <2>1, <2>2 DEF AskedBy, HandsOf
    <2> QED BY <2>1, <2>3, SoleAsked, Loses
<1>4. CASE Tick
    <2>1. UNCHANGED <<handler, home, issued>>
        BY <1>4 DEF Tick
    <2>2. Asked' = Asked /\ Hands' = Hands
        BY <2>1 DEF Asked, Hands
    <2>3. \A age, limit : Queue!Older(age, limit) = Older(age, limit)
        BY DEF Older, Queue!Older
    <2> DEFINE older(job) == [id |-> job.id, age |-> Older(job.age, QUEUED_TTL + 1),
                              ran |-> Older(job.ran, RUNNING_TTL + 1)]
    <2>4. ASSUME NEW job \in Job
          PROVE  [job EXCEPT !.age = Older(@, QUEUED_TTL + 1), !.ran = Older(@, RUNNING_TTL + 1)]
                     = older(job)
        <3>1. ASSUME NEW a, NEW r
              PROVE  [job EXCEPT !.age = a, !.ran = r] = [id |-> job.id, age |-> a, ran |-> r]
            <4> DEFINE x == [job EXCEPT !.age = a, !.ran = r]
                       y == [id |-> job.id, age |-> a, ran |-> r]
            <4>1. x \in [id: {job.id}, age: {a}, ran: {r}]
                BY DEF Job
            <4>2. y \in [id: {job.id}, age: {a}, ran: {r}]
                OBVIOUS
            <4> HIDE DEF x, y
            <4>3. x = y
                BY <4>1, <4>2
            <4> QED BY <4>3 DEF x, y
        <3> QED BY <3>1
    <2>5. jobs' = [s \in Streamers |-> IF jobs[s] = None THEN None ELSE older(jobs[s])]
        <3>1. \A s \in Streamers : jobs[s] # None => jobs[s] \in Job
            BY <1>1 DEF JobMap
        <3> HIDE DEF older
        <3>2. \A s \in Streamers : jobs[s] # None =>
                 [jobs[s] EXCEPT !.age = Older(@, QUEUED_TTL + 1), !.ran = Older(@, RUNNING_TTL + 1)]
                     = older(jobs[s])
            BY <2>4, <3>1
        <3> QED BY <1>4, <3>2 DEF Tick
    <2>6. Queue!Tick
        BY <2>1, <2>2, <2>3, <2>5 DEF Queue!Tick
    <2> QED BY <2>6 DEF Queue!Next
<1>5. CASE \/ Finish \/ RoundEnds \/ Report \/ GivesUp \/ HomeRestarts
           \/ \E s \in Streamers : RoundReport(s)
           \/ UNCHANGED vars
    <2>1. UNCHANGED <<jobs, handler, issued>>
        BY <1>5 DEF vars, Finish, RoundEnds, Report, GivesUp, HomeRestarts, RoundReport
    <2>2. {home'.id, home'.done} \subseteq {home.id, home.done, None}
        <3>1. CASE Finish
            BY <3>1 DEF Finish, doneId
        <3>2. CASE RoundEnds \/ Report \/ GivesUp
            BY <1>1, <3>2 DEF RoundEnds, Report, GivesUp, HomeRec
        <3>3. CASE HomeRestarts
            BY <3>3 DEF HomeRestarts
        <3>4. CASE (\E s \in Streamers : RoundReport(s)) \/ UNCHANGED vars
            BY <3>4 DEF RoundReport, vars
        <3> QED BY <1>5, <3>1, <3>2, <3>3, <3>4
    <2> QED BY <1>2, <2>1, <2>2
<1> QED BY <1>3, <1>4, <1>5

\* Requests that do not overlap implement CaptureQueue: all their reads and
\* writes of the cache amount to those of one queue.
THEOREM DeskImplementsQueue ==
    ASSUME NEW h, Handlers = {h}
    PROVE  Spec => DeskRefines
<1>1. Init => Queue!Init
    <2> SUFFICES ASSUME Init PROVE Queue!Init
        OBVIOUS
    <2>1. handler[h].left = <<>> /\ handler[h].op # "poll" /\ home.id = None /\ home.done = None
        BY FreeOK DEF Init
    <2>2. ~Inserts(handler[h].left)
        BY <2>1 DEF Inserts
    <2>3. Asked = {} /\ Hands = {}
        BY <2>1, <2>2, SoleAsked DEF AskedBy, HandsOf
    <2> QED BY <2>3 DEF Init, Queue!Init
<1>2. SoleInv(h) /\ [Next]_vars => [Queue!Next]_Queue!queueVars
    <2> SUFFICES ASSUME SoleInv(h), [Next]_vars PROVE [Queue!Next]_Queue!queueVars
        OBVIOUS
    <2>1. h \in Handlers /\ \A g \in Handlers : g = h
        OBVIOUS
    <2>2. CASE HandlerStep(h)
        BY <2>2, QuietSteps, LiveSteps, InsertSteps, DropSteps, ClaimSteps DEF HandlerStep
    <2>3. CASE \/ Status(h) \/ HomePolls(h)
               \/ \E s \in Streamers, op \in {"user", "admin"} : Enqueue(h, op, s)
        BY <2>3, BeginSteps
    <2>4. CASE \/ Finish \/ RoundEnds \/ Report \/ GivesUp \/ HomeRestarts \/ ServerRestarts \/ Tick
               \/ \E s \in Streamers : RoundReport(s)
               \/ UNCHANGED vars
        BY <2>4, RestSteps
    <2> QED BY <2>1, <2>2, <2>3, <2>4 DEF Next, HomeStep
<1> QED BY <1>1, <1>2, SoleInvHolds, PTL DEF Spec, DeskRefines, Queue!Spec
-----------------------------------------------------------------------------
(* Requests that overlap, as long as the home PC hears every answer and no   *)
(* capture is slow.                                                          *)

\* What the two invariants below suppose: a capture is over before its job is
\* handed out again, and no answer to the home PC is lost.
Undisturbed == ~SlowCaptures /\ MaxHomeFaults = 0

Runs(s) == jobs[s] # None /\ jobs[s].ran # None

\* Nothing that runs has run for too long.
Calm(view) ==
    \A s \in Streamers : view[s] # None /\ view[s].ran # None => view[s].ran \in 0..RUNNING_TTL

\* The home PC has one job at most, at work or done.
OneInHand ==
    /\ home.doing \in {"resting", "asking", "round"} => home.id = None
    /\ home.doing \in {"capturing", "reported"} => home.done = None

\* There is one poll, the one the home PC waits for; until it hands a job out,
\* what runs is as it has read it, and then nothing runs.
PollSees(h) ==
    handler[h].op = "poll" =>
        /\ home.doing = "asking" /\ home.at = h /\ handler[h].id = home.done
        /\ At(h, "prune") \/ At(h, "revert") \/ At(h, "drop") =>
              \A s \in Streamers : Runs(s) => handler[h].view[s] = jobs[s]
        /\ At(h, "revert") => \A s \in Streamers : Runs(s) => ~Expired(jobs[s])
        /\ At(h, "claim") => \A s \in Streamers : ~Runs(s)

\* The jobs a poll goes by have been given their ids and are not done; an id is
\* one streamer's, in the poll and in the queue.
PollIds(h) ==
    handler[h].op = "poll" =>
        \A s \in Streamers :
            handler[h].view[s] # None =>
                /\ handler[h].view[s].id \in 1..issued /\ handler[h].view[s].id \notin finished
                /\ \A t \in Streamers : jobs[t] # None /\ jobs[t].id = handler[h].view[s].id => t = s

\* Nobody else has the id of a job that is to be stored.
AskedApart(h) ==
    Inserts(handler[h].left) =>
        /\ handler[h].id \notin {home.id, home.done}
        /\ \A g \in Handlers :
              /\ Inserts(handler[g].left) /\ handler[g].id = handler[h].id => g = h
              /\ handler[g].op = "poll" =>
                    \A s \in Streamers :
                        handler[g].view[s] # None => handler[g].view[s].id # handler[h].id

BusyHandler(h) ==
    /\ Calm(handler[h].view)
    /\ PollSees(h) /\ PollIds(h) /\ AskedOK(h) /\ AskedApart(h)

HomeIds == {home.id, home.done} \subseteq 1..issued \cup {None}

BusyDesk == OneInHand /\ OneRunning /\ Calm(jobs) /\ IdsOK /\ HomeIds

BusyInv == DeskTypes /\ BusyDesk /\ \A h \in Handlers : BusyHandler(h)

\* Nothing begins to run, and what goes on running is left as it was.
Quiet == \A s \in Streamers : Runs(s)' => Runs(s) /\ jobs'[s] = jobs[s]

\* No job is asked for anew, and a poll learns of no job.
Narrows(h) ==
    /\ Inserts(handler'[h].left) => Inserts(handler[h].left) /\ handler'[h].id = handler[h].id
    /\ handler'[h].op = "poll" =>
          /\ handler[h].op = "poll"
          /\ \A s \in Streamers :
                handler'[h].view[s] # None =>
                    handler[h].view[s] # None /\ handler'[h].view[s].id = handler[h].view[s].id

LEMMA QuietDesk ==
    ASSUME OneInHand, OneRunning, Calm(jobs), Quiet, UNCHANGED home
    PROVE  (OneInHand /\ OneRunning /\ Calm(jobs))'
<1>1. OneInHand'
    BY DEF OneInHand
<1>2. OneRunning'
    BY DEF OneRunning, Quiet, Runs
<1>3. Calm(jobs)'
    BY DEF Calm, Quiet, Runs
<1> QED BY <1>1, <1>2, <1>3

LEMMA QuietPoll ==
    ASSUME NEW h \in Handlers, PollSees(h), Quiet, UNCHANGED <<home, handler[h]>>
    PROVE  PollSees(h)'
<1>1. \A call : At(h, call)' <=> At(h, call)
    BY DEF At
<1>2. \A s \in Streamers : Runs(s)' => Runs(s) /\ jobs'[s] = jobs[s] /\ (Expired(jobs[s])' <=> Expired(jobs[s]))
    BY DEF Quiet, Expired
<1> QED BY <1>1, <1>2 DEF PollSees

\* Every id stays whose it was.
LEMMA NarrowIds ==
    ASSUME BusyInv, \A h \in Handlers : Narrows(h), Shrinks,
           UNCHANGED <<home, issued, finished>>
    PROVE  /\ (IdsOK /\ HomeIds)'
           /\ \A h \in Handlers : (PollIds(h) /\ AskedOK(h) /\ AskedApart(h))'
<1>1. IdsOK /\ HomeIds /\ \A h \in Handlers : PollIds(h) /\ AskedOK(h) /\ AskedApart(h)
    BY DEF BusyInv, BusyDesk, BusyHandler
<1>2. IdsOK' /\ HomeIds'
    BY <1>1, ShrinksKeepsIds DEF HomeIds
<1> SUFFICES ASSUME NEW h \in Handlers
             PROVE  (PollIds(h) /\ AskedOK(h) /\ AskedApart(h))'
    BY <1>2
<1>3. PollIds(h)'
    BY <1>1 DEF PollIds, Narrows, Shrinks
<1>4. AskedOK(h)'
    BY <1>1, ShrinksKeepsAsked DEF Narrows
<1>5. AskedApart(h)'
    <2> SUFFICES ASSUME Inserts(handler'[h].left)
                 PROVE  /\ handler'[h].id \notin {home.id, home.done}
                        /\ \A g \in Handlers :
                              /\ Inserts(handler'[g].left) /\ handler'[g].id = handler'[h].id => g = h
                              /\ handler'[g].op = "poll" =>
                                    \A s \in Streamers :
                                        handler'[g].view[s] # None => handler'[g].view[s].id # handler'[h].id
        BY DEF AskedApart, Inserts
    <2>1. Inserts(handler[h].left) /\ handler'[h].id = handler[h].id
        BY DEF Narrows
    <2> QED BY <1>1, <2>1 DEF AskedApart, Narrows
<1> QED BY <1>3, <1>4, <1>5

\* A handler that goes on, or answers.
LEMMA OthersNarrow ==
    ASSUME DeskTypes, NEW h \in Handlers, \A g \in Handlers : g # h => handler'[g] = handler[g],
           Narrows(h)
    PROVE  \A g \in Handlers : Narrows(g)
BY DEF Narrows, Inserts

LEMMA FreeBusy ==
    ASSUME NEW h \in Handlers, handler'[h] = Free
    PROVE  BusyHandler(h)' /\ Narrows(h)
<1>1. ~Inserts(handler'[h].left) /\ AskedOK(h)'
    BY FreeSole
<1>2. handler'[h].op = "status" /\ \A s \in Streamers : handler'[h].view[s] = None
    BY DEF Free
<1>3. Calm(handler[h].view)'
    BY <1>2 DEF Calm
<1>4. PollSees(h)' /\ PollIds(h)' /\ Narrows(h)
    BY <1>1, <1>2 DEF PollSees, PollIds, Narrows
<1>5. AskedApart(h)'
    BY <1>1 DEF AskedApart, Inserts
<1> QED BY <1>1, <1>3, <1>4, <1>5 DEF BusyHandler

\* A step of one handler that begins nothing: what there is to show of it.
LEMMA QuietStep ==
    ASSUME BusyInv, NEW h \in Handlers, \A g \in Handlers : g # h => handler'[g] = handler[g],
           Narrows(h), Shrinks, Quiet, UNCHANGED <<home, issued, finished>>,
           PollSees(h)', Calm(handler[h].view)'
    PROVE  BusyDesk' /\ \A g \in Handlers : BusyHandler(g)'
<1>1. DeskTypes /\ BusyDesk /\ \A g \in Handlers : BusyHandler(g)
    BY DEF BusyInv
<1>2. \A g \in Handlers : Narrows(g)
    BY <1>1, OthersNarrow
<1>3. /\ (IdsOK /\ HomeIds)'
      /\ \A g \in Handlers : (PollIds(g) /\ AskedOK(g) /\ AskedApart(g))'
    BY <1>2, NarrowIds
<1>4. (OneInHand /\ OneRunning /\ Calm(jobs))'
    BY <1>1, QuietDesk DEF BusyDesk
<1>5. ASSUME NEW g \in Handlers PROVE PollSees(g)' /\ Calm(handler[g].view)'
    <2>1. CASE g = h
        BY <2>1
    <2>2. CASE g # h
        <3>1. PollSees(g) /\ Calm(handler[g].view) /\ handler'[g] = handler[g]
            BY <1>1, <2>2 DEF BusyHandler
        <3>2. PollSees(g)'
            BY <3>1, QuietPoll
        <3> QED BY <3>1, <3>2 DEF Calm
    <2> QED BY <2>1, <2>2
<1> QED BY <1>3, <1>4, <1>5 DEF BusyDesk, BusyHandler

\* What the handlers' steps have in common: types, and who moves.
LEMMA BusyParts ==
    ASSUME BusyInv, NEW h \in Handlers
    PROVE  /\ DeskTypes /\ HandlersOK /\ jobs \in JobMap /\ handler[h].view \in JobMap
           /\ BusyDesk /\ IdsOK /\ HomeIds /\ OneInHand /\ OneRunning /\ Calm(jobs)
           /\ Calm(handler[h].view) /\ PollSees(h) /\ PollIds(h) /\ AskedOK(h) /\ AskedApart(h)
           /\ BusyHandler(h)
BY DEF BusyInv, BusyDesk, BusyHandler, DeskTypes, HandlersOK, HandlerRec

LEMMA OthersStay ==
    ASSUME NEW h \in Handlers, NEW new, Goes(h, new) \/ Answers(h), HandlersOK
    PROVE  \A g \in Handlers : g # h => handler'[g] = handler[g]
BY DEF Goes, Answers, HandlersOK

LEMMA BusyAnswers ==
    ASSUME BusyInv, NEW h \in Handlers, Stamp(h) \/ StatusEnds(h)
    PROVE  BusyDesk' /\ \A g \in Handlers : BusyHandler(g)'
<1>1. HandlersOK /\ Answers(h) /\ UNCHANGED <<jobs, home, issued, finished>>
    BY BusyParts DEF Stamp, StatusEnds
<1>2. handler'[h] = Free /\ \A g \in Handlers : g # h => handler'[g] = handler[g]
    BY <1>1, AnswersOK
<1>3. BusyHandler(h)' /\ Narrows(h)
    BY <1>2, FreeBusy
<1>4. Shrinks /\ Quiet
    BY <1>1 DEF Shrinks, Quiet, Runs
<1> QED BY <1>1, <1>2, <1>3, <1>4, QuietStep DEF BusyHandler

LEMMA BusyStamps ==
    ASSUME BusyInv, NEW h \in Handlers, ReadStamps(h) \/ Forget(h)
    PROVE  BusyDesk' /\ \A g \in Handlers : BusyHandler(g)'
<1>1. /\ DeskTypes /\ HandlersOK /\ Calm(handler[h].view)
      /\ UNCHANGED <<jobs, home, issued, finished>>
    BY BusyParts DEF ReadStamps, Forget
<1>2. Keeps(h) /\ UNCHANGED handler[h].view
    BY <1>1, Learns
<1>3. PICK call \in {"stamps", "forget"} : At(h, call)
    BY DEF ReadStamps, Forget
<1>4. \A g \in Handlers : g # h => handler'[g] = handler[g]
    BY <1>1, OthersStay DEF ReadStamps, Forget
<1>5. Inserts(handler'[h].left) <=> Inserts(handler[h].left)
    BY <1>1, <1>2, <1>3, StandsAt
<1>6. Narrows(h)
    BY <1>2, <1>5 DEF Narrows, Keeps
<1>7. handler[h].op # "poll"
    <2>1. HandlerOK(handler[h]) /\ handler[h].left # <<>> /\ Head(handler[h].left) = call
        BY <1>1, <1>3, CallOf
    <2>2. ASSUME handler[h].op = "poll" PROVE FALSE
        <3>1. handler[h].left \in PollLeft
            BY <2>1, <2>2 DEF HandlerOK, Lefts
        <3> QED BY <2>1, <3>1, PollPath
    <2> QED BY <2>2
<1>8. PollSees(h)' /\ Calm(handler[h].view)'
    BY <1>1, <1>2, <1>7 DEF PollSees, Keeps, Calm
<1>9. Shrinks /\ Quiet
    BY <1>1 DEF Shrinks, Quiet, Runs
<1> QED BY <1>1, <1>4, <1>6, <1>8, <1>9, QuietStep

LEMMA BusyReads ==
    ASSUME BusyInv, NEW h \in Handlers, ReadJobs(h)
    PROVE  BusyDesk' /\ \A g \in Handlers : BusyHandler(g)'
<1>1. /\ DeskTypes /\ HandlersOK /\ BusyDesk /\ Calm(jobs) /\ At(h, "jobs") /\ PollSees(h)
      /\ UNCHANGED <<jobs, home, issued, finished>>
    BY BusyParts DEF ReadJobs
<1>2. Keeps(h) /\ handler'[h].view = jobs
    BY <1>1, Learns
<1>3. \A g \in Handlers : g # h => handler'[g] = handler[g]
    BY <1>1, OthersStay DEF ReadJobs
<1>4. /\ Inserts(handler'[h].left) <=> Inserts(handler[h].left)
      /\ \A c : At(h, c)' <=> c = "prune"
    BY <1>1, <1>2, StandsAt
<1>5. PollSees(h)'
    <2>1. ~At(h, "revert")' /\ ~At(h, "drop")' /\ ~At(h, "claim")'
        BY <1>4
    <2> QED BY <1>1, <1>2, <2>1 DEF PollSees, Keeps, Runs
<1>6. Calm(handler[h].view)'
    BY <1>1, <1>2 DEF Calm
<1>7. Shrinks /\ Quiet
    BY <1>1 DEF Shrinks, Quiet, Runs
<1>8. CASE handler[h].op # "poll"
    <2>1. Narrows(h)
        BY <1>2, <1>4, <1>8 DEF Narrows, Keeps
    <2> QED BY <1>1, <1>3, <1>5, <1>6, <1>7, <2>1, QuietStep
<1>9. CASE handler[h].op = "poll"
    <2>1. ~Inserts(handler[h].left) /\ ~Inserts(handler'[h].left)
        BY <1>1, <1>4, <1>9, InsertsOf
    <2>2. (OneInHand /\ OneRunning /\ Calm(jobs) /\ IdsOK /\ HomeIds)'
        <3>1. OneInHand /\ OneRunning /\ Calm(jobs) /\ IdsOK /\ HomeIds
            BY <1>1 DEF BusyDesk
        <3>2. (IdsOK /\ HomeIds)'
            BY <1>1, <1>7, <3>1, ShrinksKeepsIds DEF HomeIds
        <3> QED BY <1>1, <1>7, <3>1, <3>2, QuietDesk
    <2>3. PollIds(h)'
        BY <1>1, <1>2, BusyParts DEF PollIds, IdsOK
    <2>4. AskedOK(h)' /\ AskedApart(h)'
        BY <2>1 DEF AskedOK, AskedApart, Inserts
    <2>5. BusyHandler(h)'
        BY <1>5, <1>6, <2>3, <2>4 DEF BusyHandler
    <2>6. ASSUME NEW g \in Handlers, g # h PROVE BusyHandler(g)'
        <3>1. handler'[g] = handler[g] /\ Calm(handler[g].view) /\ PollSees(g) /\ PollIds(g)
                  /\ AskedOK(g) /\ AskedApart(g)
            BY <1>3, <2>6, BusyParts
        <3>2. PollSees(g)' /\ PollIds(g)' /\ Calm(handler[g].view)'
            <4>1. PollSees(g)'
                BY <1>1, <1>7, <3>1, QuietPoll
            <4> QED BY <1>1, <3>1, <4>1 DEF PollIds, Calm
        <3>3. AskedOK(g)'
            BY <1>1, <3>1 DEF AskedOK, Inserts
        <3>4. AskedApart(g)'
            <4> SUFFICES ASSUME Inserts(handler'[g].left)
                         PROVE  /\ handler'[g].id \notin {home.id, home.done}
                                /\ \A k \in Handlers :
                                      /\ Inserts(handler'[k].left) /\ handler'[k].id = handler'[g].id => k = g
                                      /\ handler'[k].op = "poll" =>
                                            \A s \in Streamers :
                                                handler'[k].view[s] # None => handler'[k].view[s].id # handler'[g].id
                BY <1>1 DEF AskedApart, Inserts
            <4>1. Inserts(handler[g].left)
                BY <3>1
            <4>2. ASSUME NEW k \in Handlers, k # h
                  PROVE  /\ Inserts(handler'[k].left) /\ handler'[k].id = handler'[g].id => k = g
                         /\ handler'[k].op = "poll" =>
                                \A s \in Streamers :
                                    handler'[k].view[s] # None => handler'[k].view[s].id # handler'[g].id
                BY <1>3, <3>1, <4>1, <4>2 DEF AskedApart
            <4>3. \A s \in Streamers : handler'[h].view[s] # None => handler'[h].view[s].id # handler'[g].id
                BY <1>2, <3>1, <4>1 DEF AskedOK
            <4> QED BY <2>1, <3>1, <4>1, <4>2, <4>3 DEF AskedApart
        <3> QED BY <3>2, <3>3, <3>4 DEF BusyHandler
    <2> QED BY <2>2, <2>5, <2>6 DEF BusyDesk
<1> QED BY <1>8, <1>9

LEMMA BusyPrune ==
    ASSUME BusyInv, NEW h \in Handlers, Prune(h)
    PROVE  BusyDesk' /\ \A g \in Handlers : BusyHandler(g)'
<1>1. /\ DeskTypes /\ HandlersOK /\ At(h, "prune") /\ PollSees(h) /\ Calm(handler[h].view)
      /\ UNCHANGED <<home, issued, finished>>
    BY BusyParts DEF Prune
<1>2. Keeps(h) /\ UNCHANGED handler[h].view
    BY <1>1, Learns
<1>3. \A g \in Handlers : g # h => handler'[g] = handler[g]
    BY <1>1, OthersStay DEF Prune
<1>4. /\ Inserts(handler'[h].left) <=> Inserts(handler[h].left)
      /\ \A c : At(h, c)' <=> c = "revert"
    BY <1>1, <1>2, StandsAt
<1>5. \A s \in Streamers : jobs'[s] = IF Expired(handler[h].view[s]) THEN None ELSE jobs[s]
    BY DEF Prune
<1>6. Shrinks /\ Quiet
    BY <1>5 DEF Shrinks, Quiet, Runs
<1>7. Narrows(h)
    BY <1>2, <1>4 DEF Narrows, Keeps
<1>8. Calm(handler[h].view)'
    BY <1>1, <1>2 DEF Calm
<1>9. PollSees(h)'
    <2> SUFFICES ASSUME handler[h].op = "poll"
                 PROVE  \A s \in Streamers : Runs(s)' => handler[h].view[s] = jobs'[s] /\ ~Expired(jobs'[s])
        <3>1. ~At(h, "claim")'
            BY <1>4
        <3>2. handler'[h].op = handler[h].op /\ handler'[h].id = handler[h].id
            BY <1>2 DEF Keeps
        <3>3. handler[h].op = "poll" => home.doing = "asking" /\ home.at = h /\ handler[h].id = home.done
            BY <1>1 DEF PollSees
        <3> QED BY <1>1, <1>2, <3>1, <3>2, <3>3 DEF PollSees, Expired
    <2>1. ASSUME NEW s \in Streamers, Runs(s)'
          PROVE  handler[h].view[s] = jobs'[s] /\ ~Expired(jobs'[s])
        <3>1. ~Expired(handler[h].view[s]) /\ jobs'[s] = jobs[s] /\ Runs(s)
            BY <1>5, <2>1 DEF Runs
        <3>2. handler[h].view[s] = jobs[s]
            BY <1>1, <3>1 DEF PollSees
        <3> QED BY <3>1, <3>2
    <2> QED BY <2>1
<1> QED BY <1>1, <1>3, <1>6, <1>7, <1>8, <1>9, QuietStep

LEMMA BusyRevert ==
    ASSUME BusyInv, NEW h \in Handlers, Revert(h)
    PROVE  BusyDesk' /\ \A g \in Handlers : BusyHandler(g)'
<1>1. /\ DeskTypes /\ HandlersOK /\ At(h, "revert") /\ PollSees(h) /\ Calm(handler[h].view)
      /\ handler[h].view \in JobMap /\ jobs \in JobMap
      /\ UNCHANGED <<home, issued, finished>>
    BY BusyParts DEF Revert
<1>2. Keeps(h) /\ handler'[h].view = pruneJobs(handler[h].view)
    BY <1>1, Learns
<1>3. \A g \in Handlers : g # h => handler'[g] = handler[g]
    BY <1>1, OthersStay DEF Revert
<1>4. /\ Inserts(handler'[h].left) <=> Inserts(handler[h].left)
      /\ \A c : At(h, c)' => c \in {"stamps", "insert", "drop"}
    BY <1>1, <1>2, StandsAt
<1>5. \A s \in Streamers : ~Stuck(handler[h].view[s])
    <2> SUFFICES ASSUME NEW s \in Streamers, Stuck(handler[h].view[s]) PROVE FALSE
        OBVIOUS
    <2>1. handler[h].view[s].ran \in 0..RUNNING_TTL /\ handler[h].view[s].ran > RUNNING_TTL
        BY <1>1 DEF Stuck, Calm
    <2> QED BY <2>1, Constants
<1>6. UNCHANGED jobs
    <2>1. \A s \in Streamers : jobs'[s] = jobs[s]
        BY <1>5 DEF Revert
    <2>2. jobs' = [s \in Streamers |-> jobs'[s]] /\ jobs = [s \in Streamers |-> jobs[s]]
        BY <1>1 DEF Revert, JobMap
    <2> QED BY <2>1, <2>2
<1>7. \A s \in Streamers :
          handler'[h].view[s] = IF Expired(handler[h].view[s]) THEN None ELSE handler[h].view[s]
    BY <1>1, <1>2, <1>5, PruneJobsOK
<1>8. Shrinks /\ Quiet
    BY <1>6 DEF Shrinks, Quiet, Runs
<1>9. Narrows(h)
    BY <1>2, <1>4, <1>7 DEF Narrows, Keeps
<1>10. Calm(handler[h].view)'
    BY <1>1, <1>7 DEF Calm
<1>11. PollSees(h)'
    <2>1. ~At(h, "prune")' /\ ~At(h, "revert")' /\ ~At(h, "claim")'
        BY <1>4
    <2>2. handler'[h].op = handler[h].op /\ handler'[h].id = handler[h].id
        BY <1>2 DEF Keeps
    <2>3. handler[h].op = "poll" =>
              /\ home.doing = "asking" /\ home.at = h /\ handler[h].id = home.done
              /\ \A s \in Streamers : Runs(s) => handler[h].view[s] = jobs[s] /\ ~Expired(jobs[s])
        BY <1>1 DEF PollSees
    <2>4. handler[h].op = "poll" => \A s \in Streamers : Runs(s)' => handler'[h].view[s] = jobs'[s]
        BY <1>6, <1>7, <2>3 DEF Runs
    <2> QED BY <1>1, <2>1, <2>2, <2>3, <2>4 DEF PollSees
<1> QED BY <1>1, <1>3, <1>8, <1>9, <1>10, <1>11, QuietStep

LEMMA BusyInsert ==
    ASSUME BusyInv, NEW h \in Handlers, Insert(h)
    PROVE  BusyDesk' /\ \A g \in Handlers : BusyHandler(g)'
<1> DEFINE s == handler[h].streamer
<1>1. /\ DeskTypes /\ HandlersOK /\ BusyDesk /\ AskedOK(h) /\ AskedApart(h) /\ jobs \in JobMap
      /\ handler[h].view \in JobMap /\ Calm(handler[h].view)
      /\ UNCHANGED <<home, issued, finished>>
    BY BusyParts DEF Insert
<1>2. /\ handler[h].op \in {"user", "admin"} /\ s \in Streamers
      /\ Inserts(handler[h].left) /\ ~Inserts(handler'[h].left)
      /\ handler'[h] = Free \/ Keeps(h)
    BY <1>1, InsertMoves
<1>3. \A g \in Handlers : g # h => handler'[g] = handler[g]
    BY <1>1, OthersStay DEF Insert
<1>4. \/ UNCHANGED jobs
      \/ jobs[s] = None /\ jobs' = [jobs EXCEPT ![s] = [id |-> handler[h].id, age |-> 0, ran |-> None]]
    BY DEF Insert
<1>5. /\ \A t \in Streamers : t # s => jobs'[t] = jobs[t]
      /\ jobs'[s] = jobs[s] \/ (jobs'[s].id = handler[h].id /\ jobs'[s].ran = None)
    BY <1>1, <1>2, <1>4 DEF JobMap
<1>6. handler'[h].op # "poll" /\ Calm(handler'[h].view)
    <2>1. CASE handler'[h] = Free
        <3>1. handler'[h].op = "status" /\ \A t \in Streamers : handler'[h].view[t] = None
            BY <2>1 DEF Free
        <3> QED BY <3>1 DEF Calm
    <2>2. CASE Goes(h, handler[h])
        <3>1. handler'[h].op = handler[h].op /\ handler'[h].view = handler[h].view
            BY <1>1, <2>2, MovesTo, BusyParts DEF HandlersOK
        <3> QED BY <1>1, <1>2, <3>1 DEF Calm
    <2> QED BY <1>1, <2>1, <2>2, AnswersOK DEF Insert
<1>7. Quiet
    BY <1>5 DEF Quiet, Runs
<1>8. /\ handler[h].id \in 1..issued /\ handler[h].id \notin finished /\ handler[h].id \notin {home.id, home.done}
      /\ \A t \in Streamers : jobs[t] # None => jobs[t].id # handler[h].id
      /\ \A g \in Handlers :
            /\ Inserts(handler[g].left) /\ handler[g].id = handler[h].id => g = h
            /\ handler[g].op = "poll" =>
                  \A t \in Streamers : handler[g].view[t] # None => handler[g].view[t].id # handler[h].id
    BY <1>1, <1>2 DEF AskedOK, AskedApart
<1> HIDE DEF s
<1>9. (OneInHand /\ OneRunning /\ Calm(jobs) /\ IdsOK /\ HomeIds)'
    <2>1. OneInHand /\ OneRunning /\ Calm(jobs) /\ IdsOK /\ HomeIds
        BY <1>1 DEF BusyDesk
    <2>2. \A t \in Streamers : jobs'[t] # None => jobs'[t].id \in 1..issued /\ jobs'[t].id \notin finished
        BY <1>2, <1>5, <1>8, <2>1 DEF IdsOK
    <2>3. \A t, u \in Streamers :
              jobs'[t] # None /\ jobs'[u] # None /\ jobs'[t].id = jobs'[u].id => t = u
        BY <1>2, <1>5, <1>8, <2>1 DEF IdsOK
    <2>4. (IdsOK /\ HomeIds)'
        BY <1>1, <2>1, <2>2, <2>3 DEF IdsOK, HomeIds
    <2> QED BY <1>1, <1>7, <2>1, <2>4, QuietDesk
<1>10. BusyHandler(h)'
    <2>1. PollSees(h)' /\ PollIds(h)'
        BY <1>6 DEF PollSees, PollIds
    <2>2. AskedOK(h)' /\ AskedApart(h)'
        BY <1>2 DEF AskedOK, AskedApart, Inserts
    <2>3. Calm(handler[h].view)'
        BY <1>6 DEF Calm
    <2> QED BY <2>1, <2>2, <2>3 DEF BusyHandler
<1>11. ASSUME NEW g \in Handlers, g # h PROVE BusyHandler(g)'
    <2>1. /\ handler'[g] = handler[g] /\ Calm(handler[g].view) /\ PollSees(g) /\ PollIds(g)
          /\ AskedOK(g) /\ AskedApart(g)
        BY <1>3, <1>11, BusyParts
    <2>2. PollSees(g)'
        BY <1>1, <1>7, <2>1, QuietPoll
    <2>3. Calm(handler[g].view)'
        BY <2>1 DEF Calm
    <2>4. PollIds(g)'
        <3> SUFFICES ASSUME handler[g].op = "poll", NEW t \in Streamers, handler[g].view[t] # None
                     PROVE  /\ handler[g].view[t].id \in 1..issued /\ handler[g].view[t].id \notin finished
                            /\ \A u \in Streamers :
                                  jobs'[u] # None /\ jobs'[u].id = handler[g].view[t].id => u = t
            BY <1>1, <2>1 DEF PollIds
        <3>1. handler[g].view[t].id # handler[h].id
            BY <1>8
        <3> QED BY <1>2, <1>5, <2>1, <3>1 DEF PollIds
    <2>5. AskedOK(g)'
        <3> SUFFICES ASSUME Inserts(handler[g].left)
                     PROVE  \A t \in Streamers : jobs'[t] # None => jobs'[t].id # handler[g].id
            BY <1>1, <2>1 DEF AskedOK, Inserts
        <3>1. handler[g].id # handler[h].id
            BY <1>8, <1>11
        <3> QED BY <1>2, <1>5, <2>1, <3>1 DEF AskedOK
    <2>6. AskedApart(g)'
        <3> SUFFICES ASSUME Inserts(handler[g].left)
                     PROVE  \A k \in Handlers :
                                /\ Inserts(handler'[k].left) /\ handler'[k].id = handler[g].id => k = g
                                /\ handler'[k].op = "poll" =>
                                      \A t \in Streamers :
                                          handler'[k].view[t] # None => handler'[k].view[t].id # handler[g].id
            BY <1>1, <2>1 DEF AskedApart, Inserts
        <3> QED BY <1>2, <1>3, <1>6, <2>1 DEF AskedApart
    <2> QED BY <2>1, <2>2, <2>3, <2>4, <2>5, <2>6 DEF BusyHandler
<1> QED BY <1>9, <1>10, <1>11 DEF BusyDesk

\* There is one poll at most.
LEMMA OnePoll ==
    ASSUME BusyInv, NEW h \in Handlers, handler[h].op = "poll"
    PROVE  /\ \A g \in Handlers : g # h => handler[g].op # "poll"
           /\ home.doing = "asking" /\ home.at = h /\ handler[h].id = home.done /\ home.id = None
           /\ ~Inserts(handler[h].left)
<1>1. \A g \in Handlers : handler[g].op = "poll" => home.doing = "asking" /\ home.at = g
    BY BusyParts DEF PollSees
<1>2. handler[h].id = home.done /\ OneInHand /\ HandlersOK
    BY BusyParts DEF PollSees
<1>3. ~Inserts(handler[h].left)
    BY <1>2, InsertsOf
<1> QED BY <1>1, <1>2, <1>3 DEF OneInHand

LEMMA BusyDrop ==
    ASSUME BusyInv, NEW h \in Handlers, Drop(h)
    PROVE  BusyDesk' /\ \A g \in Handlers : BusyHandler(g)'
<1>1. /\ DeskTypes /\ HandlersOK /\ BusyDesk /\ At(h, "drop") /\ PollSees(h) /\ PollIds(h)
      /\ Calm(handler[h].view) /\ handler[h].view \in JobMap /\ jobs \in JobMap
      /\ UNCHANGED <<home, issued>>
    BY BusyParts DEF Drop
<1>2. /\ Keeps(h)
      /\ handler'[h].view = [s \in Streamers |-> IF s \in Done(h) THEN None ELSE handler[h].view[s]]
    BY <1>1, Learns
<1>3. \A g \in Handlers : g # h => handler'[g] = handler[g]
    BY <1>1, OthersStay DEF Drop
<1>4. /\ Inserts(handler'[h].left) <=> Inserts(handler[h].left)
      /\ \A c : At(h, c)' <=> c = "claim"
    BY <1>1, <1>2, StandsAt
<1>5. handler[h].op = "poll"
    BY <1>1, CallOf
<1>6. /\ \A g \in Handlers : g # h => handler[g].op # "poll"
      /\ home.doing = "asking" /\ home.at = h /\ handler[h].id = home.done /\ home.id = None
      /\ ~Inserts(handler[h].left)
    BY <1>5, OnePoll
<1>7. \A s \in Streamers : jobs'[s] = IF s \in Done(h) THEN None ELSE jobs[s]
    BY DEF Drop, Dropped
<1>8. \A s \in Streamers :
          s \in Done(h) <=> handler[h].view[s] # None /\ handler[h].view[s].id = handler[h].id
    BY DEF Done
<1>9. Shrinks /\ Quiet
    BY <1>7 DEF Shrinks, Quiet, Runs
\* What ran is the job the home PC has done.
<1>10. \A s \in Streamers : ~Runs(s)'
    <2> SUFFICES ASSUME NEW s \in Streamers, Runs(s)' PROVE FALSE
        OBVIOUS
    <2>1. Runs(s) /\ s \notin Done(h) /\ jobs[s] # None /\ jobs[s] \in Job
        BY <1>1, <1>7 DEF Runs, JobMap
    <2>2. jobs[s].id \in {home.id, home.done}
        BY <1>1, <2>1 DEF BusyDesk, OneRunning, Runs
    <2>3. jobs[s].id # None
        BY <2>1, Constants DEF Job
    <2>4. handler[h].view[s] = jobs[s]
        BY <1>1, <1>5, <2>1 DEF PollSees
    <2> QED BY <1>6, <1>8, <2>1, <2>2, <2>3, <2>4
\* A job with the id that is done was in the list that was read.
<1>11. Done(h) # {} =>
           /\ handler[h].id \in 1..issued /\ handler[h].id = home.done
           /\ \A s \in Streamers : jobs'[s] # None => jobs'[s].id # handler[h].id
    <2> SUFFICES ASSUME NEW s \in Done(h)
                 PROVE  /\ handler[h].id \in 1..issued
                        /\ \A t \in Streamers : jobs'[t] # None => jobs'[t].id # handler[h].id
        BY <1>6
    <2>1. s \in Streamers /\ handler[h].view[s] # None /\ handler[h].view[s].id = handler[h].id
        BY DEF Done
    <2>2. /\ handler[h].id \in 1..issued
          /\ \A t \in Streamers : jobs[t] # None /\ jobs[t].id = handler[h].id => t = s
        BY <1>1, <1>5, <2>1 DEF PollIds
    <2> QED BY <1>7, <2>2
<1>12. finished' = IF Done(h) # {} THEN finished \cup {handler[h].id} ELSE finished
    BY DEF Drop
<1>13. (OneInHand /\ OneRunning /\ Calm(jobs) /\ IdsOK /\ HomeIds)'
    <2>1. OneInHand /\ OneRunning /\ Calm(jobs) /\ IdsOK /\ HomeIds
        BY <1>1 DEF BusyDesk
    <2>2. HomeIds'
        BY <1>1, <2>1 DEF HomeIds
    <2>3. \A s \in Streamers : jobs'[s] # None => jobs'[s] = jobs[s]
        BY <1>7
    <2>4. finished' \subseteq 1..issued
        BY <1>11, <1>12, <2>1 DEF IdsOK
    <2>5. \A s \in Streamers : jobs'[s] # None => jobs'[s].id \notin finished'
        BY <1>11, <1>12, <2>1, <2>3 DEF IdsOK
    <2>6. IdsOK'
        BY <1>1, <2>1, <2>3, <2>4, <2>5 DEF IdsOK
    <2> QED BY <1>1, <1>9, <2>1, <2>2, <2>6, QuietDesk
<1>14. BusyHandler(h)'
    <2>1. PollSees(h)'
        <3>1. ~At(h, "prune")' /\ ~At(h, "revert")' /\ ~At(h, "drop")'
            BY <1>4
        <3> QED BY <1>1, <1>2, <1>6, <1>10, <3>1 DEF PollSees, Keeps
    <2>2. \A s \in Streamers : handler'[h].view[s] # None =>
              handler'[h].view[s] = handler[h].view[s] /\ handler[h].view[s].id # handler[h].id
        BY <1>2, <1>8
    <2>3. PollIds(h)'
        <3> SUFFICES ASSUME NEW s \in Streamers, handler'[h].view[s] # None
                     PROVE  /\ handler'[h].view[s].id \in 1..issued
                            /\ handler'[h].view[s].id \notin finished'
                            /\ \A t \in Streamers :
                                  jobs'[t] # None /\ jobs'[t].id = handler'[h].view[s].id => t = s
            BY <1>1 DEF PollIds
        <3>1. /\ handler[h].view[s].id \in 1..issued /\ handler[h].view[s].id \notin finished
              /\ \A t \in Streamers : jobs[t] # None /\ jobs[t].id = handler[h].view[s].id => t = s
            BY <1>1, <1>5, <2>2 DEF PollIds
        <3>2. handler'[h].view[s].id \notin finished'
            BY <1>12, <2>2, <3>1
        <3> QED BY <1>7, <2>2, <3>1, <3>2
    <2>4. AskedOK(h)' /\ AskedApart(h)'
        BY <1>4, <1>6 DEF AskedOK, AskedApart, Inserts
    <2>5. Calm(handler[h].view)'
        BY <1>1, <2>2 DEF Calm
    <2> QED BY <2>1, <2>3, <2>4, <2>5 DEF BusyHandler
<1>15. ASSUME NEW g \in Handlers, g # h PROVE BusyHandler(g)'
    <2>1. /\ handler'[g] = handler[g] /\ Calm(handler[g].view) /\ handler[g].op # "poll"
          /\ AskedOK(g) /\ AskedApart(g)
        BY <1>3, <1>6, <1>15, BusyParts
    <2>2. PollSees(g)' /\ PollIds(g)' /\ Calm(handler[g].view)'
        BY <2>1 DEF PollSees, PollIds, Calm
    <2>3. Inserts(handler[g].left) => handler[g].id # home.done
        BY <2>1 DEF AskedApart
    <2>4. Inserts(handler[g].left) => handler[g].id \notin finished'
        BY <1>11, <1>12, <2>1, <2>3 DEF AskedOK
    <2>5. AskedOK(g)'
        BY <1>1, <1>7, <2>1, <2>4 DEF AskedOK, Inserts
    <2>6. \A k \in Handlers :
              /\ Inserts(handler'[k].left) => k # h /\ handler'[k] = handler[k]
              /\ handler'[k].op = "poll" => k = h
        BY <1>3, <1>4, <1>6
    <2>7. \A s \in Streamers : handler'[h].view[s] # None =>
              handler[h].view[s] # None /\ handler'[h].view[s].id = handler[h].view[s].id
        BY <1>2
    <2>8. AskedApart(g)'
        <3> SUFFICES ASSUME Inserts(handler[g].left)
                     PROVE  \A k \in Handlers :
                                /\ Inserts(handler'[k].left) /\ handler'[k].id = handler[g].id => k = g
                                /\ handler'[k].op = "poll" =>
                                      \A t \in Streamers :
                                          handler'[k].view[t] # None => handler'[k].view[t].id # handler[g].id
            BY <1>1, <2>1 DEF AskedApart, Inserts
        <3> QED BY <1>5, <2>1, <2>6, <2>7 DEF AskedApart
    <2> QED BY <2>2, <2>5, <2>8 DEF BusyHandler
<1> QED BY <1>13, <1>14, <1>15 DEF BusyDesk

\* What the home PC makes of an answer it has waited for.
LEMMA HeardOf ==
    ASSUME NEW h, NEW s, NEW id, Hears(h, s, id), home.doing = "asking", home.at = h
    PROVE  /\ home'.done = None
           /\ s = None => home'.doing \in {"resting", "round"} /\ home'.id = None
           /\ s # None => home'.doing = "capturing" /\ home'.id = id
BY DEF Hears

\* Nothing is out when a poll hands a job out.
LEMMA BusyClaim ==
    ASSUME BusyInv, NEW h \in Handlers, Claim(h)
    PROVE  BusyDesk' /\ \A g \in Handlers : BusyHandler(g)'
<1>1. /\ DeskTypes /\ HandlersOK /\ BusyDesk /\ At(h, "claim") /\ PollSees(h) /\ PollIds(h)
      /\ Calm(handler[h].view) /\ handler[h].view \in JobMap /\ jobs \in JobMap
      /\ Answers(h) /\ UNCHANGED <<issued, finished>>
    BY BusyParts DEF Claim
<1>2. handler'[h] = Free /\ \A g \in Handlers : g # h => handler'[g] = handler[g]
    BY <1>1, AnswersOK
<1>3. handler[h].op = "poll"
    BY <1>1, CallOf
<1>4. /\ \A g \in Handlers : g # h => handler[g].op # "poll"
      /\ home.doing = "asking" /\ home.at = h
    BY <1>3, OnePoll
<1>5. \A s \in Streamers : ~Runs(s)
    BY <1>1, <1>3 DEF PollSees
<1>6. OneInHand /\ OneRunning /\ Calm(jobs) /\ IdsOK /\ HomeIds
    BY <1>1 DEF BusyDesk
<1>7. BusyHandler(h)' /\ ~Inserts(handler'[h].left) /\ handler'[h].op # "poll"
    BY <1>2, FreeBusy, FreeSole, FreeOK
<1>8. ASSUME NEW g \in Handlers, g # h, home'.done = None,
             \A t \in Streamers : jobs'[t] # None =>
                 \/ jobs'[t] = jobs[t]
                 \/ handler[h].view[t] # None /\ jobs'[t].id = handler[h].view[t].id,
             home'.id = None
             \/ \E t \in Streamers : handler[h].view[t] # None /\ home'.id = handler[h].view[t].id,
             handler[g].id # None \/ ~Inserts(handler[g].left)
      PROVE  BusyHandler(g)'
    <2>1. /\ handler'[g] = handler[g] /\ Calm(handler[g].view) /\ handler[g].op # "poll"
          /\ AskedOK(g) /\ AskedApart(g)
        BY <1>2, <1>4, <1>8, BusyParts
    <2>2. PollSees(g)' /\ PollIds(g)' /\ Calm(handler[g].view)'
        BY <2>1 DEF PollSees, PollIds, Calm
    <2>3. Inserts(handler[g].left) =>
              \A t \in Streamers : handler[h].view[t] # None => handler[h].view[t].id # handler[g].id
        BY <1>3, <2>1 DEF AskedApart
    <2>4. AskedOK(g)'
        <3> SUFFICES ASSUME Inserts(handler[g].left)
                     PROVE  \A t \in Streamers : jobs'[t] # None => jobs'[t].id # handler[g].id
            BY <1>1, <2>1 DEF AskedOK, Inserts
        <3> QED BY <1>8, <2>1, <2>3 DEF AskedOK
    <2>5. AskedApart(g)'
        <3> SUFFICES ASSUME Inserts(handler[g].left)
                     PROVE  /\ handler[g].id \notin {home'.id, home'.done}
                            /\ \A k \in Handlers :
                                  /\ Inserts(handler'[k].left) /\ handler'[k].id = handler[g].id => k = g
                                  /\ handler'[k].op # "poll"
            BY <2>1 DEF AskedApart, Inserts
        <3>1. handler[g].id \notin {home'.id, home'.done}
            BY <1>8, <2>3
        <3>2. \A k \in Handlers : Inserts(handler'[k].left) => k # h /\ handler'[k] = handler[k]
            BY <1>2, <1>7
        <3>3. \A k \in Handlers : handler'[k].op # "poll"
            BY <1>2, <1>4, <1>7
        <3> QED BY <2>1, <3>1, <3>2, <3>3 DEF AskedApart
    <2> QED BY <2>2, <2>4, <2>5 DEF BusyHandler
<1>9. \A g \in Handlers : handler[g].id # None \/ ~Inserts(handler[g].left)
    <2> SUFFICES ASSUME NEW g \in Handlers, Inserts(handler[g].left) PROVE handler[g].id # None
        OBVIOUS
    <2>1. handler[g].op \in {"user", "admin"} /\ HandlerOK(handler[g])
        BY <1>1, InsertsOf DEF HandlersOK
    <2>2. handler[g].id \in Ids
        BY <2>1 DEF HandlerOK
    <2> QED BY <2>2, Constants
<1>10. CASE Hears(h, None, None) /\ UNCHANGED jobs
    <2>1. home'.done = None /\ home'.doing \in {"resting", "round"} /\ home'.id = None
        BY <1>4, <1>10, HeardOf
    <2>2. OneInHand' /\ HomeIds'
        BY <2>1 DEF OneInHand, HomeIds
    <2>3. OneRunning' /\ Calm(jobs)' /\ IdsOK'
        BY <1>1, <1>5, <1>6, <1>10 DEF OneRunning, Calm, IdsOK, Runs
    <2>4. ASSUME NEW g \in Handlers PROVE BusyHandler(g)'
        BY <1>7, <1>8, <1>9, <1>10, <2>1
    <2> QED BY <2>2, <2>3, <2>4 DEF BusyDesk
<1>11. ASSUME NEW s \in Oldest(handler[h].view),
              jobs' = [jobs EXCEPT ![s] = [handler[h].view[s] EXCEPT !.ran = 0]],
              Hears(h, s, handler[h].view[s].id)
       PROVE  BusyDesk' /\ \A g \in Handlers : BusyHandler(g)'
    <2>1. s \in Streamers /\ handler[h].view[s] # None /\ handler[h].view[s] \in Job
        BY <1>1 DEF Oldest, Waiting, JobMap
    <2>2. PICK id \in Ids : id = handler[h].view[s].id
        BY <2>1 DEF Job
    <2>3. [handler[h].view[s] EXCEPT !.ran = 0].id = id /\ [handler[h].view[s] EXCEPT !.ran = 0].ran = 0
        BY <2>1, <2>2 DEF Job
    <2>4. /\ jobs'[s].id = id /\ jobs'[s].ran = 0
          /\ \A t \in Streamers : t # s => jobs'[t] = jobs[t]
        BY <1>1, <1>11, <2>1, <2>3 DEF JobMap
    <2>5. home'.done = None /\ home'.doing = "capturing" /\ home'.id = id
        BY <1>4, <1>11, <2>1, <2>2, HeardOf, Constants
    <2>6. /\ id \in 1..issued /\ id \notin finished
          /\ \A t \in Streamers : jobs[t] # None /\ jobs[t].id = id => t = s
        BY <1>1, <1>3, <2>1, <2>2 DEF PollIds
    <2>7. OneInHand' /\ HomeIds'
        BY <1>1, <2>5, <2>6 DEF OneInHand, HomeIds
    <2>8. OneRunning'
        BY <1>5, <2>4, <2>5 DEF OneRunning, Runs
    <2>9. Calm(jobs)'
        BY <1>5, <2>4, Constants DEF Calm, Runs
    <2>10. \A t \in Streamers : jobs'[t] # None => jobs'[t].id \in 1..issued /\ jobs'[t].id \notin finished
        BY <1>6, <2>4, <2>6 DEF IdsOK
    <2>11. \A t, u \in Streamers :
               jobs'[t] # None /\ jobs'[u] # None /\ jobs'[t].id = jobs'[u].id => t = u
        BY <1>6, <2>4, <2>6 DEF IdsOK
    <2>12. IdsOK'
        BY <1>1, <1>6, <2>10, <2>11 DEF IdsOK
    <2>13. /\ \A t \in Streamers : jobs'[t] # None =>
                 jobs'[t] = jobs[t] \/ (handler[h].view[t] # None /\ jobs'[t].id = handler[h].view[t].id)
           /\ \E t \in Streamers : handler[h].view[t] # None /\ home'.id = handler[h].view[t].id
        BY <2>1, <2>2, <2>4, <2>5
    <2>14. ASSUME NEW g \in Handlers PROVE BusyHandler(g)'
        BY <1>7, <1>8, <1>9, <2>5, <2>13
    <2> QED BY <2>7, <2>8, <2>9, <2>12, <2>14 DEF BusyDesk
<1> QED BY <1>10, <1>11 DEF Claim

\* What a request begins with: it has read nothing.
LEMMA Starts ==
    ASSUME HandlersOK, NEW h \in Handlers, NEW op \in Ops, NEW s, NEW id, Begin(h, op, s, id)
    PROVE  \A t \in Streamers : handler'[h].view[t] = None
<1> DEFINE next == [Free EXCEPT !.op = op, !.left = Path[op], !.streamer = s, !.id = id]
<1>1. \A t \in Streamers : next.view[t] = None
    BY DEF Free
<1>2. handler' = [handler EXCEPT ![h] = next]
    BY DEF Begin
<1> HIDE DEF next
<1>3. handler'[h] = next
    BY <1>2 DEF HandlersOK
<1> QED BY <1>1, <1>3

LEMMA BusyStatus ==
    ASSUME BusyInv, NEW h \in Handlers, Status(h)
    PROVE  BusyDesk' /\ \A g \in Handlers : BusyHandler(g)'
<1>1. HandlersOK /\ DeskTypes /\ Begin(h, "status", None, None) /\ UNCHANGED <<jobs, home, issued, finished>>
    BY BusyParts DEF Status
<1>2. /\ handler'[h].op = "status" /\ handler'[h].left = Path["status"]
      /\ \A g \in Handlers : g # h => handler'[g] = handler[g]
    BY <1>1, BeginOK DEF Ops
<1>3. \A t \in Streamers : handler'[h].view[t] = None
    BY <1>1, Starts DEF Ops
<1>4. ~Inserts(handler'[h].left)
    BY <1>2, PathStarts
<1>5. Narrows(h) /\ PollSees(h)'
    BY <1>2, <1>4 DEF Narrows, PollSees
<1>6. Calm(handler[h].view)'
    BY <1>3 DEF Calm
<1>7. Shrinks /\ Quiet
    BY <1>1 DEF Shrinks, Quiet, Runs
<1> QED BY <1>1, <1>2, <1>5, <1>6, <1>7, QuietStep

LEMMA BusyPolls ==
    ASSUME BusyInv, NEW h \in Handlers, HomePolls(h)
    PROVE  BusyDesk' /\ \A g \in Handlers : BusyHandler(g)'
<1>1. /\ HandlersOK /\ DeskTypes /\ HomeOK /\ OneInHand /\ OneRunning /\ Calm(jobs) /\ IdsOK /\ HomeIds
      /\ Begin(h, "poll", None, home.done) /\ home.doing = "resting"
      /\ UNCHANGED <<jobs, issued, finished>>
    BY BusyParts DEF HomePolls, DeskTypes
<1>2. home \in HomeRec /\ home.done \in Ids \cup {None} /\ home.id = None
    BY <1>1 DEF HomeOK, HomeRec, OneInHand
<1>3. /\ handler'[h].op = "poll" /\ handler'[h].left = Path["poll"] /\ handler'[h].id = home.done
      /\ \A g \in Handlers : g # h => handler'[g] = handler[g]
    BY <1>1, <1>2, BeginOK DEF Ops
<1>4. \A t \in Streamers : handler'[h].view[t] = None
    BY <1>1, Starts DEF Ops
<1>5. ~Inserts(handler'[h].left) /\ \A c : At(h, c)' <=> c = "jobs"
    BY <1>3, PathStarts DEF At
<1>6. home' = [home EXCEPT !.doing = "asking", !.at = h]
    BY DEF HomePolls
<1>7. home'.doing = "asking" /\ home'.at = h /\ home'.id = home.id /\ home'.done = home.done
    BY <1>2, <1>6 DEF HomeRec
<1>8. (OneInHand /\ OneRunning /\ Calm(jobs) /\ IdsOK /\ HomeIds)'
    BY <1>1, <1>2, <1>7 DEF OneInHand, OneRunning, Calm, IdsOK, HomeIds
<1>9. BusyHandler(h)'
    <2>1. ~At(h, "prune")' /\ ~At(h, "revert")' /\ ~At(h, "drop")' /\ ~At(h, "claim")'
        BY <1>5
    <2>2. PollSees(h)'
        BY <1>3, <1>7, <2>1 DEF PollSees
    <2>3. PollIds(h)' /\ Calm(handler[h].view)'
        BY <1>4 DEF PollIds, Calm
    <2>4. AskedOK(h)' /\ AskedApart(h)'
        BY <1>5 DEF AskedOK, AskedApart, Inserts
    <2> QED BY <2>2, <2>3, <2>4 DEF BusyHandler
<1>10. ASSUME NEW g \in Handlers, g # h PROVE BusyHandler(g)'
    <2>1. /\ handler'[g] = handler[g] /\ Calm(handler[g].view) /\ PollSees(g)
          /\ AskedOK(g) /\ AskedApart(g)
        BY <1>3, <1>10, BusyParts
    <2>2. handler[g].op # "poll"
        BY <1>1, <2>1 DEF PollSees
    <2>3. PollSees(g)' /\ PollIds(g)' /\ Calm(handler[g].view)'
        BY <2>1, <2>2 DEF PollSees, PollIds, Calm
    <2>4. AskedOK(g)'
        BY <1>1, <2>1 DEF AskedOK, Inserts
    <2>5. AskedApart(g)'
        <3> SUFFICES ASSUME Inserts(handler[g].left)
                     PROVE  /\ handler[g].id \notin {home.id, home.done}
                            /\ \A k \in Handlers :
                                  /\ Inserts(handler'[k].left) /\ handler'[k].id = handler[g].id => k = g
                                  /\ handler'[k].op = "poll" =>
                                        \A t \in Streamers :
                                            handler'[k].view[t] # None => handler'[k].view[t].id # handler[g].id
            BY <1>7, <2>1 DEF AskedApart, Inserts
        <3>1. ASSUME NEW k \in Handlers, k # h
              PROVE  /\ Inserts(handler'[k].left) /\ handler'[k].id = handler[g].id => k = g
                     /\ handler'[k].op = "poll" =>
                           \A t \in Streamers :
                               handler'[k].view[t] # None => handler'[k].view[t].id # handler[g].id
            BY <1>3, <2>1, <3>1 DEF AskedApart
        <3> QED BY <1>4, <1>5, <2>1, <3>1 DEF AskedApart
    <2> QED BY <2>3, <2>4, <2>5 DEF BusyHandler
<1> QED BY <1>8, <1>9, <1>10 DEF BusyDesk

\* A job gets its id.
LEMMA BusyEnqueue ==
    ASSUME BusyInv, NEW h \in Handlers, NEW s \in Streamers, NEW op \in {"user", "admin"},
           Enqueue(h, op, s)
    PROVE  BusyDesk' /\ \A g \in Handlers : BusyHandler(g)'
<1>1. /\ HandlersOK /\ DeskTypes /\ OneInHand /\ OneRunning /\ Calm(jobs) /\ IdsOK /\ HomeIds
      /\ issued \in 0..MaxJobs /\ UNCHANGED <<jobs, home, finished>>
    BY BusyParts DEF Enqueue, DeskTypes
<1>2. issued \in Nat /\ issued' = issued + 1 /\ issued' \in Ids
    BY <1>1, Constants DEF Enqueue, Ids
<1>3. 1..issued \subseteq 1..issued' /\ issued' \in 1..issued' /\ issued' \notin 1..issued /\ issued' # None
    BY <1>2, Constants
<1>4. Begin(h, op, s, issued')
    BY DEF Enqueue
<1>5. /\ handler'[h].op = op /\ handler'[h].left = Path[op] /\ handler'[h].id = issued'
      /\ \A g \in Handlers : g # h => handler'[g] = handler[g]
    BY <1>1, <1>2, <1>4, BeginOK DEF Ops
<1>6. \A t \in Streamers : handler'[h].view[t] = None
    BY <1>1, <1>4, Starts DEF Ops
<1>7. (OneInHand /\ OneRunning /\ Calm(jobs))'
    BY <1>1 DEF OneInHand, OneRunning, Calm
<1>8. IdsOK' /\ HomeIds'
    BY <1>1, <1>3 DEF IdsOK, HomeIds
<1>9. ASSUME NEW g \in Handlers, Inserts(handler[g].left) PROVE handler[g].id # issued'
    <2>1. handler[g].id \in 1..issued
        BY <1>9, BusyParts DEF AskedOK
    <2> QED BY <1>3, <2>1
<1>10. handler'[h].op # "poll"
    BY <1>5
<1>11. BusyHandler(h)'
    <2>1. PollSees(h)' /\ PollIds(h)' /\ Calm(handler[h].view)'
        BY <1>6, <1>10 DEF PollSees, PollIds, Calm
    <2>2. AskedOK(h)'
        BY <1>1, <1>3, <1>5 DEF AskedOK, IdsOK, Inserts
    <2>3. issued' \notin {home.id, home.done}
        BY <1>1, <1>3 DEF HomeIds
    <2>4. ASSUME NEW g \in Handlers
          PROVE  /\ Inserts(handler'[g].left) /\ handler'[g].id = issued' => g = h
                 /\ handler'[g].op = "poll" =>
                        \A t \in Streamers : handler'[g].view[t] # None => handler'[g].view[t].id # issued'
        <3>1. CASE g = h
            BY <1>10, <3>1
        <3>2. CASE g # h
            <4>1. handler'[g] = handler[g] /\ PollIds(g)
                BY <1>5, <3>2, BusyParts
            <4>2. handler[g].op = "poll" =>
                      \A t \in Streamers : handler[g].view[t] # None => handler[g].view[t].id # issued'
                BY <1>3, <4>1 DEF PollIds
            <4> QED BY <1>9, <4>1, <4>2
        <3> QED BY <3>1, <3>2
    <2>5. AskedApart(h)'
        BY <1>1, <1>5, <2>3, <2>4 DEF AskedApart, Inserts
    <2> QED BY <2>1, <2>2, <2>5 DEF BusyHandler
<1>12. ASSUME NEW g \in Handlers, g # h PROVE BusyHandler(g)'
    <2>1. /\ handler'[g] = handler[g] /\ Calm(handler[g].view) /\ PollSees(g) /\ PollIds(g)
          /\ AskedOK(g) /\ AskedApart(g)
        BY <1>5, <1>12, BusyParts
    <2>2. Quiet
        BY <1>1 DEF Quiet, Runs
    <2>3. PollSees(g)'
        BY <1>1, <2>1, <2>2, QuietPoll
    <2>4. PollIds(g)' /\ AskedOK(g)' /\ Calm(handler[g].view)'
        BY <1>1, <1>3, <2>1 DEF PollIds, AskedOK, Inserts, Calm
    <2>5. AskedApart(g)'
        <3> SUFFICES ASSUME Inserts(handler[g].left)
                     PROVE  \A k \in Handlers :
                                /\ Inserts(handler'[k].left) /\ handler'[k].id = handler[g].id => k = g
                                /\ handler'[k].op = "poll" =>
                                      \A t \in Streamers :
                                          handler'[k].view[t] # None => handler'[k].view[t].id # handler[g].id
            BY <1>1, <2>1 DEF AskedApart, Inserts
        <3>1. handler[g].id # issued'
            BY <1>9
        <3> QED BY <1>5, <1>10, <2>1, <3>1 DEF AskedApart
    <2> QED BY <2>3, <2>4, <2>5 DEF BusyHandler
<1> QED BY <1>7, <1>8, <1>11, <1>12 DEF BusyDesk

\* A step of the home PC while it waits for nothing.
LEMMA HomeMoves ==
    ASSUME BusyInv, UNCHANGED <<jobs, handler, issued, finished>>, home.doing # "asking",
           {home'.id, home'.done} \subseteq {home.id, home.done} \cup {None}
    PROVE  (IdsOK /\ HomeIds /\ Calm(jobs))' /\ \A h \in Handlers : BusyHandler(h)'
<1>1. IdsOK /\ HomeIds /\ Calm(jobs) /\ HandlersOK
    BY DEF BusyInv, BusyDesk, DeskTypes
<1>2. (IdsOK /\ HomeIds /\ Calm(jobs))'
    BY <1>1 DEF IdsOK, HomeIds, Calm
<1>3. ASSUME NEW h \in Handlers PROVE BusyHandler(h)'
    <2>1. Calm(handler[h].view) /\ PollSees(h) /\ PollIds(h) /\ AskedOK(h) /\ AskedApart(h)
        BY BusyParts
    <2>2. PollSees(h)' /\ PollIds(h)' /\ AskedOK(h)' /\ Calm(handler[h].view)'
        BY <2>1 DEF PollSees, PollIds, AskedOK, Inserts, Calm
    <2>3. Inserts(handler[h].left) => handler[h].id # None
        <3> SUFFICES ASSUME Inserts(handler[h].left) PROVE handler[h].id # None
            OBVIOUS
        <3>1. HandlerOK(handler[h]) /\ handler[h].op \in {"user", "admin"}
            BY <1>1, InsertsOf DEF HandlersOK
        <3>2. handler[h].id \in Ids
            BY <3>1 DEF HandlerOK
        <3> QED BY <3>2, Constants
    <2>4. AskedApart(h)'
        BY <2>1, <2>3 DEF AskedApart, Inserts
    <2> QED BY <2>2, <2>4 DEF BusyHandler
<1> QED BY <1>2, <1>3

LEMMA BusyHome ==
    ASSUME BusyInv, Finish \/ RoundEnds \/ Report \/ \E s \in Streamers : RoundReport(s)
    PROVE  BusyDesk' /\ \A h \in Handlers : BusyHandler(h)'
<1>1. OneInHand /\ OneRunning /\ home \in HomeRec
    BY DEF BusyInv, BusyDesk, DeskTypes, HomeOK
<1>2. UNCHANGED <<jobs, handler, issued, finished>> /\ home.doing # "asking"
    BY DEF Finish, RoundEnds, Report, RoundReport
<1>3. \/ /\ home.doing \in {"capturing", "reported"}
         /\ home'.doing = "resting" /\ home'.id = None /\ home'.done = home.id
      \/ /\ home.doing = "round" /\ home'.doing \in {"resting", "round"}
         /\ home'.id = home.id /\ home'.done = home.done
      \/ /\ home.doing = "capturing" /\ home'.doing = "reported"
         /\ home'.id = home.id /\ home'.done = home.done
    BY <1>1 DEF Finish, RoundEnds, Report, RoundReport, HomeRec, doneId
<1>4. OneInHand'
    BY <1>1, <1>3 DEF OneInHand
<1>5. OneRunning'
    <2> SUFFICES ASSUME NEW s \in Streamers, jobs[s] # None, jobs[s].ran # None
                 PROVE  jobs[s].id \in {home'.id, home'.done}
        BY <1>2 DEF OneRunning
    <2>1. jobs[s].id \in {home.id, home.done} /\ jobs[s] \in Job
        BY <1>1 DEF OneRunning, BusyInv, DeskTypes, JobMap
    <2>2. jobs[s].id # None
        BY <2>1, Constants DEF Job
    <2> QED BY <1>1, <1>3, <2>1, <2>2 DEF OneInHand
<1>6. {home'.id, home'.done} \subseteq {home.id, home.done} \cup {None}
    BY <1>3
<1>7. (IdsOK /\ HomeIds /\ Calm(jobs))' /\ \A h \in Handlers : BusyHandler(h)'
    BY <1>2, <1>6, HomeMoves
<1> QED BY <1>4, <1>5, <1>7 DEF BusyDesk

\* No request is at work: after a restart of the server, and when time passes.
LEMMA NobodyBusy ==
    ASSUME \A h \in Handlers : handler'[h] = Free
    PROVE  \A h \in Handlers : BusyHandler(h)'
BY FreeBusy

LEMMA BusyRestarts ==
    ASSUME BusyInv, ServerRestarts
    PROVE  BusyDesk' /\ \A h \in Handlers : BusyHandler(h)'
<1>1. OneInHand /\ OneRunning /\ Calm(jobs) /\ IdsOK /\ HomeIds /\ home \in HomeRec
    BY DEF BusyInv, BusyDesk, DeskTypes, HomeOK
<1>2. UNCHANGED <<jobs, issued, finished>> /\ \A h \in Handlers : handler'[h] = Free
    BY DEF ServerRestarts
<1>3. /\ home'.id = home.id /\ home'.done = home.done
      /\ home'.doing = home.doing \/ (home.doing = "asking" /\ home'.doing = "resting")
    BY <1>1 DEF ServerRestarts, HomeRec
<1>4. (OneInHand /\ OneRunning /\ Calm(jobs) /\ IdsOK /\ HomeIds)'
    BY <1>1, <1>2, <1>3 DEF OneInHand, OneRunning, Calm, IdsOK, HomeIds
<1> QED BY <1>2, <1>4, NobodyBusy DEF BusyDesk

\* A capture that is under way lets time pass no further than RUNNING_TTL.
LEMMA BusyTick ==
    ASSUME BusyInv, Undisturbed, Tick
    PROVE  BusyDesk' /\ \A h \in Handlers : BusyHandler(h)'
<1>1. OneInHand /\ OneRunning /\ Calm(jobs) /\ IdsOK /\ HomeIds /\ jobs \in JobMap
    BY DEF BusyInv, BusyDesk, DeskTypes
<1>2. UNCHANGED <<home, issued, finished>> /\ \A h \in Handlers : handler'[h] = Free
    BY DEF Tick
<1>3. ASSUME NEW s \in Streamers, jobs'[s] # None
      PROVE  /\ jobs[s] # None /\ jobs[s] \in Job /\ jobs'[s].id = jobs[s].id
             /\ jobs'[s].ran = Older(jobs[s].ran, RUNNING_TTL + 1)
    <2>1. jobs[s] # None /\ jobs[s] \in Job
        BY <1>1, <1>3 DEF Tick, JobMap
    <2>2. jobs'[s] = [jobs[s] EXCEPT !.age = Older(@, QUEUED_TTL + 1), !.ran = Older(@, RUNNING_TTL + 1)]
        BY <2>1 DEF Tick
    <2> QED BY <2>1, <2>2, OlderJob
<1>4. ASSUME NEW s \in Streamers, Runs(s) PROVE jobs[s].ran \in 0..RUNNING_TTL - 1
    <2>1. jobs[s] \in Job /\ jobs[s].id \in {home.id, home.done}
        BY <1>1, <1>4 DEF OneRunning, Runs, JobMap
    <2>2. jobs[s].id # None
        BY <2>1, Constants DEF Job
    <2> QED BY <1>4, <2>1, <2>2 DEF Tick, Undisturbed, Runs
<1>5. ASSUME NEW s \in Streamers, jobs'[s] # None, jobs'[s].ran # None
      PROVE  Runs(s) /\ jobs'[s].ran \in 0..RUNNING_TTL
    <2>1. jobs[s] # None /\ jobs[s] \in Job /\ jobs'[s].ran = Older(jobs[s].ran, RUNNING_TTL + 1)
        BY <1>3, <1>5
    <2>2. jobs[s].ran # None
        BY <1>5, <2>1 DEF Older
    <2>3. jobs[s].ran \in 0..RUNNING_TTL - 1
        BY <1>4, <2>1, <2>2 DEF Runs
    <2>4. jobs'[s].ran = jobs[s].ran + 1
        BY <2>1, <2>2, <2>3, Constants DEF Older
    <2> QED BY <2>1, <2>2, <2>3, <2>4, Constants DEF Runs
<1>6. OneRunning'
    BY <1>1, <1>2, <1>3, <1>5 DEF OneRunning, Runs
<1>7. Calm(jobs)'
    BY <1>5 DEF Calm
<1>8. Shrinks
    BY <1>3 DEF Shrinks
<1>9. (OneInHand /\ IdsOK /\ HomeIds)'
    BY <1>1, <1>2, <1>8, ShrinksKeepsIds DEF OneInHand, HomeIds
<1> QED BY <1>2, <1>6, <1>7, <1>9, NobodyBusy DEF BusyDesk

LEMMA BusyStep ==
    ASSUME Undisturbed, BusyInv, [Next]_vars
    PROVE  BusyInv'
<1>1. DeskTypes' /\ DeskTypes
    BY StepTypes DEF BusyInv
<1> SUFFICES BusyDesk' /\ \A h \in Handlers : BusyHandler(h)'
    BY <1>1 DEF BusyInv
<1>2. ASSUME NEW h \in Handlers, HandlerStep(h)
      PROVE  BusyDesk' /\ \A g \in Handlers : BusyHandler(g)'
    BY <1>2, BusyReads, BusyPrune, BusyRevert, BusyStamps, BusyInsert, BusyAnswers, BusyDrop, BusyClaim
       DEF HandlerStep
<1>3. ~HomeFault
    <2>1. faults.home \in Nat
        BY <1>1 DEF DeskTypes
    <2>2. MaxHomeFaults = 0 /\ 0 # None
        BY Constants DEF Undisturbed
    <2> QED BY <2>1, <2>2 DEF HomeFault
<1>4. CASE UNCHANGED vars
    <2>1. UNCHANGED <<jobs, handler, home, issued, finished>>
        BY <1>4 DEF vars
    <2>2. OneInHand /\ OneRunning /\ Calm(jobs) /\ IdsOK /\ HomeIds
        BY DEF BusyInv, BusyDesk
    <2>3. (OneInHand /\ OneRunning /\ Calm(jobs) /\ IdsOK /\ HomeIds)'
        BY <2>1, <2>2 DEF OneInHand, OneRunning, Calm, IdsOK, HomeIds
    <2>4. ASSUME NEW h \in Handlers PROVE BusyHandler(h)'
        <3>1. Calm(handler[h].view) /\ PollSees(h) /\ PollIds(h) /\ AskedOK(h) /\ AskedApart(h)
            BY BusyParts
        <3>2. Quiet
            BY <2>1 DEF Quiet, Runs
        <3>3. PollSees(h)'
            BY <2>1, <3>1, <3>2, QuietPoll
        <3>4. PollIds(h)' /\ AskedOK(h)' /\ AskedApart(h)' /\ Calm(handler[h].view)'
            BY <2>1, <3>1 DEF PollIds, AskedOK, AskedApart, Inserts, Calm
        <3> QED BY <3>3, <3>4 DEF BusyHandler
    <2> QED BY <2>3, <2>4 DEF BusyDesk
<1>5. CASE Tick
    BY <1>5, BusyTick
<1>6. CASE ServerRestarts
    BY <1>6, BusyRestarts
<1>7. ~GivesUp /\ ~HomeRestarts
    BY <1>3 DEF GivesUp, HomeRestarts
<1>8. ASSUME NEW h \in Handlers,
             Status(h) \/ HomePolls(h)
             \/ \E s \in Streamers, op \in {"user", "admin"} : Enqueue(h, op, s)
      PROVE  BusyDesk' /\ \A g \in Handlers : BusyHandler(g)'
    BY <1>8, BusyStatus, BusyPolls, BusyEnqueue
<1> QED BY <1>2, <1>4, <1>5, <1>6, <1>7, <1>8, BusyHome DEF Next, HomeStep

LEMMA BusyStart == Init => BusyInv
<1> SUFFICES ASSUME Init PROVE BusyInv
    OBVIOUS
<1>1. DeskTypes
    BY InitTypes
<1>2. OneInHand /\ OneRunning /\ Calm(jobs) /\ IdsOK /\ HomeIds
    BY DEF Init, OneInHand, OneRunning, Calm, IdsOK, HomeIds
<1>3. ASSUME NEW h \in Handlers PROVE BusyHandler(h)
    <2>1. handler[h] = Free
        BY DEF Init
    <2>2. handler[h].op = "status" /\ \A s \in Streamers : handler[h].view[s] = None
        BY <2>1 DEF Free
    <2>3. handler[h].left = <<>>
        BY <2>1, FreeOK
    <2>4. ~Inserts(handler[h].left)
        BY <2>3 DEF Inserts
    <2> QED BY <2>2, <2>4 DEF BusyHandler, Calm, PollSees, PollIds, AskedOK, AskedApart, Inserts
<1> QED BY <1>1, <1>2, <1>3 DEF BusyInv, BusyDesk

\* However many requests overlap and the server restarts: at most one job is
\* out, the one the home PC works on or has just finished, as long as no
\* capture is slow and the home PC hears every answer.
THEOREM OneIsOut == Undisturbed => (Spec => []OneRunning)
<1> SUFFICES ASSUME Undisturbed PROVE Spec => []OneRunning
    OBVIOUS
<1>1. BusyInv /\ [Next]_vars => BusyInv'
    BY BusyStep
<1>2. BusyInv => OneRunning
    BY DEF BusyInv, BusyDesk
<1> QED BY BusyStart, <1>1, <1>2, PTL DEF Spec

\* Under the same conditions, what the home PC has done is not in the queue
\* again.
THEOREM DoneStaysGone == Undisturbed => (Spec => []FinishedIsGone)
<1> SUFFICES ASSUME Undisturbed PROVE Spec => []FinishedIsGone
    OBVIOUS
<1>1. BusyInv /\ [Next]_vars => BusyInv'
    BY BusyStep
<1>2. BusyInv => FinishedIsGone
    BY DEF BusyInv, BusyDesk, IdsOK, FinishedIsGone
<1> QED BY BusyStart, <1>1, <1>2, PTL DEF Spec
=============================================================================
