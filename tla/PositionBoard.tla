---------------------------- MODULE PositionBoard ----------------------------
(***************************************************************************)
(* The board of streamers' positions and the inbox of reports about them:  *)
(* services/content/real_time_position.ts, position_reports.ts and the     *)
(* pure judgements of position_model.ts.                                   *)
(*                                                                         *)
(* A report is what a model read off a livestream, or what a user sent in; *)
(* it goes into the inbox and to a Slack channel, where somebody ticks     *)
(* what is right and approves or rejects it.  Approved positions go to the *)
(* board, and the users are told when the headline changes.                *)
(*                                                                         *)
(* Board and inbox are one cache value each, read whole and written whole. *)
(* A step runs from the reply a handler waits for to its next await; the   *)
(* command it ends with takes effect there, since one connection keeps     *)
(* their order, and other handlers run before its reply is seen.  all()    *)
(* makes every handler an object of its own, and leaves the module         *)
(* variable cachedPositions pointing at the newest of them.                *)
(*                                                                         *)
(* Abstractions.  A position is its contract and its notional value.       *)
(* Names, links, onAir and lastUpdate are left out, and so are adding a    *)
(* streamer (set without an id), the copy kept for the dashboard, and      *)
(* human reports without usable values.                                    *)
(***************************************************************************)
EXTENDS Naturals, FiniteSets, Sequences

CONSTANTS
    Streamers,
    Contracts,
    Readings,           \* sets of positions a screen, a user or an admin may show
    Editable,           \* the streamers users may report on
    Handlers,           \* requests the server works on at once
    AutoApprove,        \* what POSITION_AUTO_APPROVE may say: a set of BOOLEAN
    HUMAN_LIMIT,
    SLACK_OPTION_LIMIT,
    MaxOps,             \* bound: edits, user reports, clicks in a behaviour
    MaxFaults,          \* bound: bad readings, failed notifications and restarts
    MaxChanges,         \* bound: changes of what a stream shows
    None

Position == [contract: Contracts, notional: Nat \ {0}]

\* One position a contract: validate sees to it for people, the model is taken
\* to do so.
ASSUME BoardConstantsOK ==
    /\ \A P \in Readings :
          /\ P \subseteq Position /\ IsFiniteSet(P)
          /\ \A p, q \in P : p.contract = q.contract => p = q
    /\ {} \in Readings
    /\ Editable \subseteq Streamers
    /\ AutoApprove \subseteq BOOLEAN /\ FALSE \in AutoApprove
    /\ {HUMAN_LIMIT, SLACK_OPTION_LIMIT} \subseteq Nat \ {0}
    /\ {MaxOps, MaxFaults, MaxChanges} \subseteq Nat
    /\ None \notin Streamers \cup Handlers

VARIABLES
    board,      \* content:realTimePositions: positions by streamer, None when deleted
    inbox,      \* content:positionReports: the desktop and the human lane
    copy,       \* the object all() made for a handler
    latest,     \* the handler whose object cachedPositions is
    handler,    \* what a request has read and what it waits for
    slack,      \* the messages that have buttons
    screen,     \* what each stream shows
    told,       \* the headline users were last told, by streamer
    allowed,    \* positions someone has let onto the board, by streamer
    orphans,    \* reports a restart caught before anyone was told
    made,       \* the reports there have been, in order
    spent       \* counts up to the bounds

vars == <<board, inbox, copy, latest, handler, slack, screen, told, allowed, orphans,
          made, spent>>

external == <<slack, screen, told, allowed, orphans, made, spent>>
-----------------------------------------------------------------------------
(* position_model.ts. *)

PositionSets == SUBSET (UNION Readings)

contractsOf(P) == {p.contract : p \in P}

\* Variant: only the headline is compared.
HeadlineHasChanged(P, Q) ==
    {p \in P : \A q \in P : q.notional <= p.notional} #
    {q \in Q : \A p \in Q : p.notional <= q.notional}

\* Sorted and compared in pairs: two sets.
positionSetHasChanged(P, Q) == P # Q

\* The largest by notional, or nothing when the first two are equal.
pickPosition(P) ==
    LET top == {p \in P : \A q \in P \ {p} : q.notional < p.notional}
    IN IF top = {} THEN None ELSE CHOOSE p \in top : TRUE

upsertPositions(P, incoming, remove) ==
    {p \in P : p.contract \notin remove \cup contractsOf(incoming)} \cup incoming

\* An unreadable screen closes nothing.
unseenContracts(P, read) == IF read = {} THEN {} ELSE contractsOf(P) \ contractsOf(read)
-----------------------------------------------------------------------------
(* position_reports.ts. *)

Report == [streamer: Streamers, lane: {"desktop", "human"}, positions: PositionSets,
           selected: SUBSET Contracts, unseen: SUBSET Contracts, no: Nat, at: Nat]

\* reportedAt is the present time in whole seconds: since the last report a
\* second has passed or it has not.
Seconds ==
    IF made = <<>> THEN {0} ELSE {made[Len(made)].at, made[Len(made)].at + 1}

\* A report has a number of its own, which the code does not know.
Made(report) ==
    made' = Append(made, [streamer |-> report.streamer, at |-> report.at,
                          positions |-> report.positions])

selectedPositions(report) == {p \in report.positions : p.contract \in report.selected}

\* The human lane is a list.  Its reports have places, the later ones the
\* higher; next is the place of the next one.
OfStreamer(box, s) == {i \in DOMAIN box.human : box.human[i].streamer = s}

Oldest(places) == CHOOSE i \in places : \A j \in places : i <= j

Keep(lane, places) == [i \in places |-> lane[i]]

\* find without reportedAt: the desktop report hides the human ones, the
\* oldest of those the rest.
Found(box, s) ==
    IF box.desktop[s] # None THEN box.desktop[s]
    ELSE IF OfStreamer(box, s) # {} THEN box.human[Oldest(OfStreamer(box, s))]
    ELSE None

\* Variant: an old message finds whatever report there is.
FindAny(box, s, at) == Found(box, s)

find(box, s, at) ==
    IF Found(box, s) # None /\ Found(box, s).at = at THEN Found(box, s) ELSE None

\* Variant: nothing is dropped.
NewestAll(lane) == lane

Newest(lane) ==
    IF Cardinality(DOMAIN lane) > HUMAN_LIMIT
    THEN Keep(lane, DOMAIN lane \ {Oldest(DOMAIN lane)})
    ELSE lane

Appended(box, report) ==
    [i \in DOMAIN box.human \cup {box.next} |->
        IF i = box.next THEN report ELSE box.human[i]]

put(box, report) ==
    IF report.lane = "desktop"
    THEN [box EXCEPT !.desktop[report.streamer] = report]
    ELSE [desktop |-> box.desktop,
          human   |-> Newest(Appended(box, report)),
          next    |-> box.next + 1]

\* Variant: the report of the desktop is left behind.
removeHuman(box, s) ==
    [box EXCEPT !.human = Keep(box.human, DOMAIN box.human \ OfStreamer(box, s))]

remove(box, s) ==
    [desktop |-> [box.desktop EXCEPT ![s] = None],
     human   |-> Keep(box.human, DOMAIN box.human \ OfStreamer(box, s)),
     next    |-> box.next]

select(box, s, contracts) ==
    LET ticked == [Found(box, s) EXCEPT !.selected = contracts]
    IN IF Found(box, s) = None THEN box
       ELSE IF box.desktop[s] # None THEN [box EXCEPT !.desktop[s] = ticked]
       ELSE [box EXCEPT !.human[Oldest(OfStreamer(box, s))] = ticked]

\* The checkboxes hold the largest positions; the others are cut off.
shown(P) ==
    {p \in P : Cardinality({q \in P : q.notional > p.notional}) < SLACK_OPTION_LIMIT}

Messages == [streamer: Streamers, no: Nat, at: Nat, positions: PositionSets]

Message(report) ==
    [streamer |-> report.streamer, no |-> report.no, at |-> report.at,
     positions |-> shown(report.positions)]

ASSUME NoneIsNothing == None \notin Report /\ None \notin Messages
-----------------------------------------------------------------------------
(* Handlers. *)

Free == [at |-> "idle", op |-> "look", streamer |-> None, positions |-> {}, unseen |-> {},
         before |-> {}, report |-> None, message |-> None, reply |-> None]

Begin(h, new) == handler[h] = Free /\ handler' = [handler EXCEPT ![h] = new]

AsksBoard(h, new) == [new EXCEPT !.at = "board", !.reply = board]
AsksInbox(h, new, at) == [new EXCEPT !.at = at, !.reply = inbox]

Goes(h, new) == handler' = [handler EXCEPT ![h] = new]
Ends(h) == Goes(h, Free)

\* The reply to all() has come: an object of its own, and cachedPositions.
Holds(h, object) == copy' = [copy EXCEPT ![h] = object] /\ latest' = h

Spend(what, bound) == spent[what] < bound /\ spent' = [spent EXCEPT ![what] = @ + 1]

\* Requests that begin with all().
Ask(h, op, s, P) == Begin(h, AsksBoard(h, [Free EXCEPT !.op = op, !.streamer = s, !.positions = P]))

\* The public list of positions, desktopTargets, enqueueCapture.
Look(h) ==
    /\ Ask(h, "look", None, {})
    /\ UNCHANGED <<board, inbox, copy, latest, external>>

DesktopReport(h, s, live) ==
    /\ Ask(h, IF live THEN "desktop" ELSE "offline", s, {})
    /\ UNCHANGED <<board, inbox, copy, latest, external>>

Set(h, s, P) ==
    /\ Ask(h, "set", s, P)
    /\ Spend("ops", MaxOps)
    /\ allowed' = [allowed EXCEPT ![s] = @ \cup P]
    /\ UNCHANGED <<board, inbox, copy, latest, slack, screen, told, orphans, made>>

Delete(h, s) ==
    /\ Ask(h, "delete", s, {})
    /\ Spend("ops", MaxOps)
    /\ UNCHANGED <<board, inbox, copy, latest, slack, screen, told, allowed, orphans, made>>

\* A user reports one position.
Create(h, s, p) ==
    /\ Ask(h, "create", s, {p})
    /\ Spend("ops", MaxOps)
    /\ UNCHANGED <<board, inbox, copy, latest, slack, screen, told, allowed, orphans, made>>

\* A click in Slack, on any message that is still there.
Click(h, op, m, contracts) ==
    /\ Begin(h, AsksInbox(h, [Free EXCEPT !.op = op, !.streamer = m.streamer, !.message = m,
                                          !.unseen = contracts], op))
    /\ Spend("ops", MaxOps)
    /\ UNCHANGED <<board, inbox, copy, latest, slack, screen, told, orphans, made>>

Toggle(h, m, contracts) == Click(h, "select", m, contracts) /\ UNCHANGED allowed

\* A message without options has no button to approve.
Approve(h, m) ==
    /\ m.positions # {}
    /\ Click(h, "approve", m, {})
    /\ allowed' = [allowed EXCEPT ![m.streamer] = @ \cup m.positions]

Reject(h, m) == Click(h, "reject", m, {}) /\ UNCHANGED allowed
-----------------------------------------------------------------------------
(* The reply to all() has come. *)

LookEnds(h) ==
    LET r == handler[h] IN
    /\ r.at = "board"
    /\ \/ r.op = "look"
       \/ r.op \notin {"look", "create", "delete"} /\ r.reply[r.streamer] = None
    /\ Holds(h, r.reply)
    /\ Ends(h)
    /\ UNCHANGED <<board, inbox, external>>

DeleteNow(h) ==
    LET r == handler[h]
        object == [r.reply EXCEPT ![r.streamer] = None]
    IN
    /\ r.at = "board" /\ r.op = "delete"
    /\ Holds(h, object)
    /\ board' = object
    /\ told' = [told EXCEPT ![r.streamer] = None]
    /\ Ends(h)
    /\ UNCHANGED <<inbox, slack, screen, allowed, orphans, made, spent>>

\* set and applyReportedPositions: what the streamer has from now on.
Merged(r) ==
    IF r.op = "set" THEN r.positions
    ELSE upsertPositions(r.reply[r.streamer], r.positions, r.unseen)

\* Variant: the positions from before are looked at after the change.
BeforeIsAfter(r) == Merged(r)

Before(r) == r.reply[r.streamer]

Change(h) ==
    LET r == handler[h] IN
    /\ r.at = "board" /\ r.op \in {"set", "approve", "auto"}
    /\ r.reply[r.streamer] # None
    /\ Holds(h, [r.reply EXCEPT ![r.streamer] = Merged(r)])
    /\ Goes(h, AsksInbox(h, [r EXCEPT !.before = Before(r)], "remove"))
    /\ UNCHANGED <<board, inbox, external>>

\* desktopReport notes that the stream was seen: the whole board is written.
Seen(h) ==
    LET r == handler[h] IN
    /\ r.at = "board" /\ r.op \in {"desktop", "offline"}
    /\ r.reply[r.streamer] # None
    /\ Holds(h, r.reply)
    /\ board' = r.reply
    /\ IF r.op = "offline" THEN Ends(h) ELSE Goes(h, [r EXCEPT !.at = "screen", !.reply = None])
    /\ UNCHANGED <<inbox, external>>

\* changeNotification.create: compared with the position of that contract.
CreateNow(h) ==
    LET r == handler[h]
        report(at) ==
            [streamer |-> r.streamer, lane |-> "human", positions |-> r.positions,
             selected |-> contractsOf(r.positions), unseen |-> {},
             no |-> Len(made) + 1, at |-> at]
        current == IF r.reply[r.streamer] = None THEN {} ELSE r.reply[r.streamer]
        refused == \/ r.reply[r.streamer] # None /\ r.streamer \notin Editable
                   \/ r.positions \subseteq current
    IN
    /\ r.at = "board" /\ r.op = "create"
    /\ Holds(h, r.reply)
    /\ \/ refused /\ Ends(h) /\ UNCHANGED made
       \/ /\ ~refused
          /\ \E at \in Seconds :
                /\ Goes(h, [r EXCEPT !.at = "upload", !.report = report(at), !.reply = None])
                /\ Made(report(at))
    /\ UNCHANGED <<board, inbox, slack, screen, told, allowed, orphans, spent>>
-----------------------------------------------------------------------------
(* desktopReport, from the reading on. *)

\* found.positions: of this handler's own object, as old as its all().
ReadsAs(h, P) ==
    LET r == handler[h] IN
    IF positionSetHasChanged(copy[h][r.streamer], P)
    THEN Goes(h, AsksInbox(h, [r EXCEPT !.positions = P], "previous"))
    ELSE Ends(h)

Read(h) ==
    /\ handler[h].at = "screen"
    /\ ReadsAs(h, screen[handler[h].streamer])
    /\ UNCHANGED <<board, inbox, copy, latest, external>>

\* Something else is read, or every call fails.
Misread(h) ==
    /\ handler[h].at = "screen"
    /\ Spend("faults", MaxFaults)
    /\ Ends(h) \/ \E P \in Readings : ReadsAs(h, P)
    /\ UNCHANGED <<board, inbox, copy, latest, slack, screen, told, allowed, orphans, made>>

Previous(h) ==
    LET r == handler[h]
        previous == Found(r.reply, r.streamer)
        unseen == unseenContracts(copy[h][r.streamer], r.positions)
        report(at) ==
            [streamer |-> r.streamer, lane |-> "desktop", positions |-> r.positions,
             selected |-> contractsOf(r.positions), unseen |-> unseen,
             no |-> Len(made) + 1, at |-> at]
        known == previous # None /\ ~positionSetHasChanged(previous.positions, r.positions)
    IN
    /\ r.at = "previous"
    /\ \/ known /\ Ends(h) /\ UNCHANGED <<allowed, made>>
       \/ /\ ~known /\ TRUE \in AutoApprove /\ r.positions # {}
          /\ Goes(h, AsksBoard(h, [r EXCEPT !.op = "auto", !.unseen = unseen]))
          /\ allowed' = [allowed EXCEPT ![r.streamer] = @ \cup r.positions]
          /\ UNCHANGED made
       \/ /\ ~known
          /\ \E at \in Seconds :
                /\ Goes(h, [r EXCEPT !.at = "upload", !.report = report(at), !.reply = None])
                /\ Made(report(at))
          /\ UNCHANGED allowed
    /\ UNCHANGED <<board, inbox, copy, latest, slack, screen, told, orphans, spent>>
-----------------------------------------------------------------------------
(* file: put, notify, and remove when notify fails. *)

\* What came before is awaited: the frame is uploaded, or the user looked up.
Uploaded(h) ==
    /\ handler[h].at = "upload"
    /\ Goes(h, AsksInbox(h, handler[h], "put"))
    /\ UNCHANGED <<board, inbox, copy, latest, external>>

Put(h) ==
    LET r == handler[h] IN
    /\ r.at = "put"
    /\ inbox' = put(r.reply, r.report)
    /\ Goes(h, [r EXCEPT !.at = "notify", !.reply = None])
    /\ UNCHANGED <<board, copy, latest, external>>

Notify(h) ==
    /\ handler[h].at = "notify"
    /\ slack' = slack \cup {Message(handler[h].report)}
    /\ Ends(h)
    /\ UNCHANGED <<board, inbox, copy, latest, screen, told, allowed, orphans, made, spent>>

NotifyFails(h) ==
    /\ handler[h].at = "notify"
    /\ Spend("faults", MaxFaults)
    /\ Goes(h, AsksInbox(h, handler[h], "remove"))
    /\ UNCHANGED <<board, inbox, copy, latest, slack, screen, told, allowed, orphans, made>>

Remove(h) ==
    LET r == handler[h] IN
    /\ r.at = "remove"
    /\ inbox' = remove(r.reply, r.streamer)
    /\ Goes(h, [r EXCEPT !.at = "removed", !.reply = None])
    /\ UNCHANGED <<board, copy, latest, external>>

\* commit: what is stored is cachedPositions, whoever's object that is.  The
\* users are told when the headline of this handler's object has changed.
Commit(h) ==
    LET r == handler[h]
        was == pickPosition(r.before)
        is == pickPosition(copy[h][r.streamer])
    IN
    /\ r.at = "removed" /\ r.op \in {"set", "approve", "auto"}
    /\ told' = IF was # is THEN [told EXCEPT ![r.streamer] = is] ELSE told
    /\ board' = copy[latest]
    /\ slack' = slack \ {r.message}
    /\ Ends(h)
    /\ UNCHANGED <<inbox, copy, latest, screen, allowed, orphans, made, spent>>

\* A report that was rejected, or that nobody could be told of, is gone.
Close(h) ==
    LET r == handler[h] IN
    /\ r.at = "removed" /\ r.op \in {"reject", "desktop", "create"}
    /\ slack' = slack \ {r.message}
    /\ Ends(h)
    /\ UNCHANGED <<board, inbox, copy, latest, screen, told, allowed, orphans, made, spent>>
-----------------------------------------------------------------------------
(* Slack: select and resolveReport. *)

Select(h) ==
    LET r == handler[h] IN
    /\ r.at = "select"
    /\ inbox' = IF Found(r.reply, r.streamer) = None THEN inbox
                ELSE select(r.reply, r.streamer, r.unseen)
    /\ Ends(h)
    /\ UNCHANGED <<board, copy, latest, external>>

Resolve(h) ==
    LET r == handler[h]
        report == find(r.reply, r.streamer, r.message.at)
        chosen == IF report = None THEN {} ELSE selectedPositions(report)
    IN
    /\ r.at \in {"approve", "reject"}
    /\ \/ /\ chosen = {} /\ (r.op = "reject" => report = None)
          /\ Ends(h)
       \/ /\ r.op = "reject" /\ report # None
          /\ Goes(h, AsksInbox(h, r, "remove"))
       \/ /\ r.op = "approve" /\ chosen # {}
          /\ Goes(h, AsksBoard(h, [r EXCEPT !.positions = chosen, !.unseen = report.unseen]))
    /\ UNCHANGED <<board, inbox, copy, latest, external>>
-----------------------------------------------------------------------------
\* The streamer trades.
ScreenChanges(s) ==
    /\ Spend("changes", MaxChanges)
    /\ \E P \in Readings : screen' = [screen EXCEPT ![s] = P]
    /\ UNCHANGED <<board, inbox, copy, latest, handler, slack, told, allowed, orphans, made>>

\* h has a report in the inbox that nobody has been told of.
Notifying(h) == handler[h].report # None /\ handler[h].at \in {"notify", "remove"}

\* Board and inbox are in the cache and survive.
Restart ==
    /\ Spend("faults", MaxFaults)
    /\ handler' = [h \in Handlers |-> Free]
    /\ orphans' = orphans \cup {handler[h].report.no : h \in {g \in Handlers : Notifying(g)}}
    /\ UNCHANGED <<board, inbox, copy, latest, slack, screen, told, allowed, made>>

Init ==
    /\ board \in [Streamers -> Readings]
    /\ screen = board
    /\ inbox = [desktop |-> [s \in Streamers |-> None], human |-> [i \in {} |-> None],
                next |-> 1]
    /\ copy = [h \in Handlers |-> board]
    /\ latest \in Handlers
    /\ handler = [h \in Handlers |-> Free]
    /\ slack = {}
    /\ told = [s \in Streamers |-> pickPosition(board[s])]
    /\ allowed = board
    /\ orphans = {}
    /\ made = <<>>
    /\ spent = [ops |-> 0, faults |-> 0, changes |-> 0]

HandlerStep(h) ==
    \/ LookEnds(h) \/ DeleteNow(h) \/ Change(h) \/ Seen(h) \/ CreateNow(h)
    \/ Read(h) \/ Previous(h) \/ Uploaded(h) \/ Put(h) \/ Notify(h)
    \/ Remove(h) \/ Commit(h) \/ Close(h) \/ Select(h) \/ Resolve(h)

Request(h) ==
    \/ Look(h)
    \/ \E s \in Streamers :
          \/ \E live \in BOOLEAN : DesktopReport(h, s, live)
          \/ \E P \in Readings : Set(h, s, P)
          \/ Delete(h, s)
          \/ \E p \in UNION Readings : Create(h, s, p)
    \/ \E m \in slack :
          \/ \E contracts \in SUBSET contractsOf(m.positions) : Toggle(h, m, contracts)
          \/ Approve(h, m)
          \/ Reject(h, m)

Next ==
    \/ \E h \in Handlers : Request(h) \/ HandlerStep(h) \/ Misread(h) \/ NotifyFails(h)
    \/ \E s \in Streamers : ScreenChanges(s)
    \/ Restart

Spec == Init /\ [][Next]_vars

\* What a handler awaits comes, and the home PC looks at every stream again and
\* again, however busy the server is.
Fairness ==
    /\ \A h \in Handlers : WF_vars(HandlerStep(h))
    /\ \A s \in Streamers : SF_vars(\E h \in Handlers : DesktopReport(h, s, TRUE))

FairSpec == Spec /\ Fairness
-----------------------------------------------------------------------------
(* Properties. *)

BoardMap == [Streamers -> PositionSets \cup {None}]

\* Every variable has its type, and no streamer has a contract twice.
TypeOK ==
    /\ board \in BoardMap
    /\ \A s \in Streamers : board[s] # None =>
          \A p, q \in board[s] : p.contract = q.contract => p = q
    /\ inbox.desktop \in [Streamers -> Report \cup {None}]
    /\ inbox.next \in Nat
    /\ \A i \in DOMAIN inbox.human :
          i \in Nat /\ i < inbox.next /\ inbox.human[i] \in Report
    /\ Cardinality(DOMAIN inbox.human) <= HUMAN_LIMIT
    /\ copy \in [Handlers -> BoardMap]
    /\ latest \in Handlers
    /\ \A h \in Handlers :
          /\ handler[h].streamer \in Streamers \cup {None}
          /\ handler[h].report \in Report \cup {None}
          /\ {handler[h].positions, handler[h].before} \subseteq PositionSets
    /\ slack \subseteq Messages
    /\ screen \in [Streamers -> Readings]
    /\ told \in [Streamers -> Position \cup {None}]
    /\ allowed \in [Streamers -> PositionSets]
    /\ orphans \subseteq Nat
    /\ made \in Seq([streamer: Streamers, at: Nat, positions: PositionSets])

\* What reports of s say that were made in one second with another of s: find
\* tells reports apart by reportedAt, and cannot tell these.
SameSecond(s) ==
    UNION {made[i].positions :
              i \in {j \in DOMAIN made :
                        /\ made[j].streamer = s
                        /\ \E k \in DOMAIN made \ {j} :
                              made[k].streamer = s /\ made[k].at = made[j].at}}

\* Nothing is on the board that nobody let onto it: set by an admin, approved
\* automatically, or shown on the very message whose button was pressed - not
\* on an older message of the streamer, and not merely read.  Only two reports
\* of a streamer within one second may be taken for each other.
OnlyApproved ==
    \A s \in Streamers : board[s] # None => board[s] \subseteq allowed[s] \cup SameSecond(s)

\* Users have been told the headline that is on the board, and no other.
ToldIsStored == \A s \in Streamers : board[s] # None => told[s] = pickPosition(board[s])

Reports(box) == ({box.desktop[s] : s \in Streamers} \ {None}) \cup
                {box.human[i] : i \in DOMAIN box.human}

InInbox == Reports(inbox)

Filing(report) ==
    \E h \in Handlers :
        handler[h].report # None /\ handler[h].report.no = report.no

HasMessage(report) == \E m \in slack : m.no = report.no

\* A report in the inbox silences the next ones like it, so somebody must have
\* been told of it; only a restart between put and the answer of notify leaves one
\* behind of which nobody was.
ReportsAreShown ==
    \A report \in InInbox : Filing(report) \/ HasMessage(report) \/ report.no \in orphans

\* What a stream goes on showing gets to the board or in front of somebody who
\* can approve it, whatever was misread, rejected or not delivered before.
OnHand(s, P) ==
    LET report == Found(inbox, s) IN
    report # None /\ report.positions = P /\ (HasMessage(report) \/ report.no \in orphans)

ChangeIsReported ==
    \A s \in Streamers, P \in Readings \ {{}} :
        screen[s] = P ~> screen[s] # P \/ board[s] \in {P, None} \/ OnHand(s, P)
-----------------------------------------------------------------------------
(* What a comment of the code says, and the code does not do. *)

\* real_time_position.ts on commit: it stores, and tells the users when the
\* headline has changed.  What is told is what is stored, then.
StoresWhatItTells ==
    [][\A h \in Handlers :
          Commit(h) => board'[handler[h].streamer] = copy[h][handler[h].streamer]]_vars
=============================================================================
