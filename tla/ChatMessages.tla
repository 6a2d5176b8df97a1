---------------------------- MODULE ChatMessages ----------------------------
(***************************************************************************)
(* The texts of the chat that no ban stops: their check and their insert   *)
(* (chat/message_handler.ts, chat/helpers.ts), and the latest messages the *)
(* server keeps for newcomers (chat/store.ts), loaded again after every    *)
(* insert and whenever the API server has hidden messages.                 *)
(*                                                                         *)
(* A handler awaits the check of an image, the insert and, not waited for  *)
(* by anyone, the queries of the next load; other handlers run meanwhile.  *)
(* Sending a text to the connections changes nothing here and is left out, *)
(* as are the reactions of a message and the users the ban list names.     *)
(***************************************************************************)
EXTENDS Naturals, FiniteSets, Sequences, SequencesExt

CONSTANTS
    Handlers,       \* texts that can be under way at once
    Loads,          \* bound: loads of the latest messages under way at once
    NumLatest,      \* numLatestMessages
    MaxTexts,       \* bound: texts in a behaviour
    MaxFaults,      \* bound: failed queries, lost calls and restarts
    None

VARIABLES
    handler,        \* the await a text stands at
    rows,           \* table messages, in the order of its ids
    recent,         \* state.recentMessages, newest first
    loads,          \* loadRecentMessages: asked, or what it has read
    marks,          \* reads so far, the read on show, the next one that counts
    notice,         \* the API server has hidden rows and not yet said so
    count           \* texts and faults, up to their bounds

chatMessageVars ==
    <<handler, rows, recent, loads, marks, notice, count>>

Fault == count.faults < MaxFaults /\ count' = [count EXCEPT !.faults = @ + 1]

Idle == [at |-> "idle", text |-> 0]
-----------------------------------------------------------------------------
(* The text handler. *)

\* A text is let through by ChatBans; an empty or too long one ends there.
TextComes(h) ==
    /\ handler[h] = Idle
    /\ count.texts < MaxTexts
    /\ count' = [count EXCEPT !.texts = @ + 1]
    /\ handler' = [handler EXCEPT ![h] = [at |-> "checking", text |-> count'.texts]]
    /\ UNCHANGED <<rows, recent, loads, marks, notice>>

Goes(h, at) == handler' = [handler EXCEPT ![h] = IF at = "idle" THEN Idle ELSE [@ EXCEPT !.at = at]]

\* Variant: the list is not cut.
AllOf(seq) == seq

Latest(seq) == SubSeq(seq, 1, IF Len(seq) < NumLatest THEN Len(seq) ELSE NumLatest)

\* challengeSoundnessOfMessage answers.  A text it rejects is inserted hidden;
\* one whose session has expired is dropped; any other is put on show at once.
Checked(h) ==
    /\ handler[h].at = "checking"
    /\ \/ Goes(h, "hiding") /\ UNCHANGED recent
       \/ Goes(h, "idle") /\ UNCHANGED recent
       \/ Goes(h, "inserting") /\ recent' = Latest(<<handler[h].text>> \o recent)
    /\ UNCHANGED <<rows, loads, marks, notice, count>>

\* loadRecentMessages begins.
BeginLoad ==
    \E l \in Loads :
        /\ loads[l] = None
        /\ loads' = [loads EXCEPT ![l] = [at |-> "asked", no |-> 0, texts |-> <<>>]]

\* The insert of saveMessage.
Insert(h) ==
    /\ \/ handler[h].at = "inserting" /\ BeginLoad
       \/ handler[h].at = "hiding" /\ UNCHANGED loads
    /\ rows' = Append(rows, [text |-> handler[h].text, hidden |-> handler[h].at = "hiding"])
    /\ Goes(h, "idle")
    /\ UNCHANGED <<recent, marks, notice, count>>

\* It fails: the text stays on show until the next load.
NextReadCounts == marks' = [marks EXCEPT !.due = marks.read + 1]

InsertFails(h) ==
    /\ handler[h].at \in {"inserting", "hiding"}
    /\ Fault
    /\ Goes(h, "idle")
    /\ NextReadCounts
    /\ UNCHANGED <<rows, recent, loads, notice>>
-----------------------------------------------------------------------------
(* The latest messages. *)

\* Variant: createQueryBuilder is taken to return deleted rows too.
AllRows == DOMAIN rows

VisibleRows == {i \in DOMAIN rows : ~rows[i].hidden}

Newer(i) == Cardinality({j \in VisibleRows : j > i})

\* ORDER BY id DESC LIMIT numLatestMessages.
NewestRows ==
    LET all == Cardinality(VisibleRows) IN
    [k \in 1..(IF all < NumLatest THEN all ELSE NumLatest) |->
        rows[CHOOSE i \in VisibleRows : Newer(i) = k - 1].text]

LoadReads(l) ==
    /\ loads[l] # None
    /\ loads[l].at = "asked"
    /\ marks' = [marks EXCEPT !.read = @ + 1]
    /\ loads' = [loads EXCEPT ![l] = [at |-> "read", no |-> marks.read + 1,
                                      texts |-> NewestRows]]
    /\ UNCHANGED <<handler, rows, recent, notice, count>>

\* Its reactions have been read as well: what it holds is on show, however old.
LoadAnswers(l) ==
    /\ loads[l] # None
    /\ loads[l].at = "read"
    /\ recent' = loads[l].texts
    /\ marks' = [marks EXCEPT !.shown = loads[l].no]
    /\ loads' = [loads EXCEPT ![l] = None]
    /\ UNCHANGED <<handler, rows, notice, count>>

LoadFails(l) ==
    /\ loads[l] # None
    /\ Fault
    /\ loads' = [loads EXCEPT ![l] = None]
    /\ NextReadCounts
    /\ UNCHANGED <<handler, rows, recent, notice>>

\* admin_controller.createBannedUser with deleteMessages.
Hide ==
    /\ ~notice
    /\ \E i \in DOMAIN rows :
          /\ ~rows[i].hidden
          /\ rows' = [rows EXCEPT ![i].hidden = TRUE]
    /\ notice' = TRUE
    /\ UNCHANGED <<handler, recent, loads, marks, count>>

\* chatService.invalidate reaches the chat server, or does not.
Invalidate ==
    /\ notice
    /\ notice' = FALSE
    /\ \/ BeginLoad /\ UNCHANGED <<marks, count>>
       \/ Fault /\ NextReadCounts /\ UNCHANGED loads
    /\ UNCHANGED <<handler, rows, recent>>

\* The process ends, and the next start loads the latest messages.
Restart ==
    /\ Fault
    /\ handler' = [h \in Handlers |-> Idle]
    /\ recent' = <<>>
    /\ \E l \in Loads : loads' = [m \in Loads |->
          IF m = l THEN [at |-> "asked", no |-> 0, texts |-> <<>>] ELSE None]
    /\ marks' = [marks EXCEPT !.shown = 0]
    /\ UNCHANGED <<rows, notice>>
-----------------------------------------------------------------------------
Init ==
    /\ handler = [h \in Handlers |-> Idle]
    /\ rows = <<>>
    /\ recent = <<>>
    /\ loads = [l \in Loads |-> None]
    /\ marks = [read |-> 0, shown |-> 0, due |-> 0]
    /\ notice = FALSE
    /\ count = [texts |-> 0, faults |-> 0]

Next ==
    \/ \E h \in Handlers : TextComes(h) \/ Checked(h) \/ Insert(h) \/ InsertFails(h)
    \/ \E l \in Loads : LoadReads(l) \/ LoadAnswers(l) \/ LoadFails(l)
    \/ Hide \/ Invalidate \/ Restart

Spec == Init /\ [][Next]_chatMessageVars
-----------------------------------------------------------------------------
(* Properties. *)

Said == 1..MaxTexts

\* Every variable has its type.
TypeOK ==
    /\ handler \in [Handlers -> [at: {"idle", "checking", "hiding", "inserting"},
                                 text: Said \cup {0}]]
    /\ rows \in Seq([text: Said, hidden: BOOLEAN])
    /\ recent \in Seq(Said) /\ Len(recent) <= NumLatest
    /\ \A l \in Loads : loads[l] = None \/ loads[l].texts \in Seq(Said)
    /\ marks \in [read: Nat, shown: Nat, due: Nat]
    /\ notice \in BOOLEAN
    /\ count \in [texts: 0..MaxTexts, faults: 0..MaxFaults]

\* Nothing of the latest messages is under way.
Quiet ==
    /\ \A h \in Handlers : handler[h] = Idle
    /\ \A l \in Loads : loads[l] = None
    /\ ~notice

NewestVisible ==
    LET visible == {i \in DOMAIN rows : ~rows[i].hidden}
        newer(i) == {j \in visible : j > i}
    IN  {rows[i].text : i \in {i \in visible : Cardinality(newer(i)) < NumLatest}}

\* Newcomers are shown the newest messages and none that was hidden, once
\* nothing is under way: unless a load was overtaken by an older one, or a
\* query or call failed and nothing has been read since.
ShownIsNewest ==
    Quiet /\ marks.shown = marks.read /\ marks.due <= marks.read =>
        /\ ToSet(recent) = NewestVisible
        /\ Len(recent) = Cardinality(NewestVisible)
=============================================================================
