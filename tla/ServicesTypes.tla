---------------------------- MODULE ServicesTypes ----------------------------
(***************************************************************************)
(* The variables of every service have their types: the invariants of      *)
(* ServicesProofs, and the bounds they leave out.                          *)
(***************************************************************************)
EXTENDS ServicesProofs

LEMMA BoundsAreNumbers ==
    /\ MaxRestarts \in Nat /\ MaxBanTexts \in Nat /\ MaxBans \in Nat /\ MaxTexts \in Nat
    /\ MaxFaults \in Nat /\ MaxInput \in Nat /\ MaxEmbeds \in Nat /\ MaxSignIns \in Nat
    /\ MaxWork \in Nat /\ MaxCopyTime \in Nat /\ MaxChanges \in Nat /\ MaxRuns \in Nat
BY ServicesOK DEF ServicesOK, BoundsOK
-----------------------------------------------------------------------------
(* The users of the chat. *)

UsersTyped == ChatUserInv /\ restarts \in 0..MaxRestarts

LEMMA UserTypesHold == Spec => []ChatU!TypeOK
<1>1. Init => UsersTyped
    <2>1. Init => restarts = 0
        BY DEF Init, ChatU!Init
    <2> QED BY <2>1, ChatUsersStart, BoundsAreNumbers DEF UsersTyped
<1>2. UsersTyped /\ [Next]_serviceVars => UsersTyped'
    <2> SUFFICES ASSUME UsersTyped, [Next]_serviceVars PROVE UsersTyped'
        OBVIOUS
    <2>1. restarts' = restarts \/ (restarts < MaxRestarts /\ restarts' = restarts + 1)
        <3>1. ChatU!Next \/ UNCHANGED chatUserVars
            BY EachTakesItsOwnSteps
        <3>2. ASSUME ChatU!Next
              PROVE  restarts' = restarts \/ (restarts < MaxRestarts /\ restarts' = restarts + 1)
            BY <3>2 DEF ChatU!Next, ChatU!Close, ChatU!Ping, ChatU!AdoptProfile, ChatU!TakesOwn,
                   ChatU!Connect, ChatU!UpdateProfile, ChatU!UpdateSetting, ChatU!Delete,
                   ChatU!GrowIdle, ChatU!DeleteOld, ChatU!LoadAnswers, ChatU!LoadFails, ChatU!Restart
        <3> QED BY <3>1, <3>2 DEF chatUserVars
    <2>2. restarts' \in 0..MaxRestarts
        BY <2>1, BoundsAreNumbers DEF UsersTyped
    <2> QED BY <2>2, ChatUsersGoOn DEF UsersTyped
<1>3. UsersTyped => ChatU!TypeOK
    <2>1. ChatU!Entries = [Tokens -> Entry]
        BY DEF ChatU!Entries, Entry
    <2> QED BY <2>1, UserNames DEF UsersTyped, ChatUserInv, UserTypes, ChatU!TypeOK
<1> QED BY <1>1, <1>2, <1>3, PTL DEF Spec
-----------------------------------------------------------------------------
(* The bans of the chat. *)

BansTyped ==
    /\ BanInv
    /\ \A a \in alarms : a.left <= MaxDelay
    /\ said <= MaxBanTexts /\ harder <= MaxBans

LEMMA AlarmsWait ==
    ASSUME BansTyped, NEW ip \in IPs, NEW t \in Nat, ChatB!Ban(ip, t)
    PROVE  \A a \in alarms' : a.left <= MaxDelay
<1>1. \A a \in alarms' : a \in alarms \/ a.left = ChatB!Delay(t)
    BY DEF ChatB!Ban
<1>2. ChatB!Delay(t) <= MaxDelay
    BY BanNames DEF ChatB!Delay
<1> QED BY <1>1, <1>2 DEF BansTyped

LEMMA BanTypesHold == Spec => []ChatB!TypeOK
<1>1. Init => BansTyped
    <2>1. Init => alarms = {} /\ said = 0 /\ harder = 0
        BY DEF Init, ChatB!Init
    <2> QED BY <2>1, BansStart, BoundsAreNumbers DEF BansTyped
<1>2. BansTyped /\ [Next]_serviceVars => BansTyped'
    <2> SUFFICES ASSUME BansTyped, [Next]_serviceVars PROVE BansTyped'
        OBVIOUS
    <2> DEFINE BansHold == /\ \A a \in alarms' : a.left <= MaxDelay
                           /\ said' <= MaxBanTexts /\ harder' <= MaxBans
    <2>0. /\ said \in Nat /\ harder \in Nat /\ alarms \subseteq Alarm
          /\ said <= MaxBanTexts /\ harder <= MaxBans
        BY DEF BansTyped, BanInv, BanTypes
    <2>20. \A a \in alarms : a.left <= MaxDelay
        BY DEF BansTyped
    <2>1. ASSUME NEW ip \in IPs, ChatB!TextArrives(ip) PROVE BansHold
        <3>1. said < MaxBanTexts /\ said' = said + 1 /\ harder' = harder /\ ChatB!Ban(ip, Frequency)
            BY <2>1 DEF ChatB!TextArrives
        <3> QED BY <2>0, <3>1, AlarmsWait, BanNames, BoundsAreNumbers
    <2>2. ASSUME NEW ip \in IPs, NEW t \in BanTimes, ChatB!AdminBan(ip, t) PROVE BansHold
        <3>1. harder < MaxBans /\ harder' = harder + 1 /\ said' = said /\ ChatB!Ban(ip, t) /\ t \in Nat
            BY <2>2, BanNames DEF ChatB!AdminBan
        <3> QED BY <2>0, <3>1, AlarmsWait, BoundsAreNumbers
    <2>3. ASSUME NEW a \in alarms, ChatB!AlarmRings(a) PROVE BansHold
        BY <2>0, <2>20, <2>3 DEF ChatB!AlarmRings
    <2>4. ASSUME ChatB!Tick PROVE BansHold
        <3>1. said' = said /\ harder' = harder
            BY <2>4 DEF ChatB!Tick
        <3>2. ASSUME NEW b \in alarms' PROVE b.left <= MaxDelay
            <4>1. PICK a \in alarms : b = [a EXCEPT !.left = ChatB!Sooner(a.left)]
                BY <2>4 DEF ChatB!Tick
            <4>2. a \in Alarm /\ a.left \in Nat /\ a.left <= MaxDelay
                BY <2>0, <2>20 DEF Alarm
            <4>3. b.left = ChatB!Sooner(a.left)
                BY <4>1, <4>2 DEF Alarm
            <4>4. ChatB!Sooner(a.left) \in Nat /\ ChatB!Sooner(a.left) <= a.left
                BY <4>2 DEF ChatB!Sooner
            <4> QED BY <4>2, <4>3, <4>4, BanNames
        <3> QED BY <2>0, <3>1, <3>2
    <2>5. ASSUME ChatB!Forget PROVE BansHold
        <3>1. harder < MaxBans /\ harder' = harder + 1 /\ said' = said /\ alarms' = {}
            BY <2>5 DEF ChatB!Forget
        <3>2. \A a \in alarms' : a.left <= MaxDelay
            BY <3>1
        <3>3. said' <= MaxBanTexts /\ harder' <= MaxBans
            BY <2>0, <3>1, BoundsAreNumbers
        <3> QED BY <3>2, <3>3
    <2>6. ASSUME UNCHANGED chatBanVars PROVE BansHold
        <3>1. alarms' = alarms /\ said' = said /\ harder' = harder
            BY <2>6 DEF chatBanVars
        <3> QED BY <2>0, <2>20, <3>1
    <2>7. BansHold
        <3> HIDE DEF BansHold
        <3> QED BY <2>1, <2>2, <2>3, <2>4, <2>5, <2>6, EachTakesItsOwnSteps DEF ChatB!Next
    <2> QED BY <2>7, BansGoOn DEF BansTyped
<1>3. BansTyped => ChatB!TypeOK
    <2> SUFFICES ASSUME BansTyped PROVE ChatB!TypeOK
        OBVIOUS
    <2>1. \A ip \in IPs : bans[ip] = None \/ bans[ip] \in [left: Nat, no: Nat, whole: BOOLEAN]
        BY DEF BansTyped, BanInv, BanTypes, BanEntry
    <2>2. ASSUME NEW a \in alarms PROVE a \in [ip: IPs, left: 0..MaxDelay, no: Nat]
        <3>1. a \in [ip: IPs, left: Nat, no: Nat] /\ a.left <= MaxDelay
            BY DEF BansTyped, BanInv, BanTypes, Alarm
        <3> QED BY <3>1, BanNames
    <2>3. ASSUME NEW ip \in IPs PROVE since[ip] \in 0..Frequency
        BY BanNames DEF BansTyped, BanInv, BanTypes
    <2>4. since \in [IPs -> 0..Frequency]
        BY <2>3 DEF BansTyped, BanInv, BanTypes
    <2>5. overlapped \in [IPs -> BOOLEAN] /\ said \in 0..MaxBanTexts /\ harder \in 0..MaxBans
        BY BoundsAreNumbers DEF BansTyped, BanInv, BanTypes
    <2> QED BY <2>1, <2>2, <2>4, <2>5 DEF ChatB!TypeOK
<1> QED BY <1>1, <1>2, <1>3, PTL DEF Spec
-----------------------------------------------------------------------------
(* The latest messages. *)

\* Up to NumLatest texts.
Shown == {seq \in Seq(ChatM!Said) : Len(seq) <= NumLatest}

MessagesTyped ==
    /\ MessageInv
    /\ \A h \in Handlers : handler[h].text \in ChatM!Said \cup {0}
                           /\ (handler[h].at # "idle" => handler[h].text \in ChatM!Said)
    /\ \A i \in DOMAIN rows : rows[i].text \in ChatM!Said
    /\ recent \in Shown
    /\ \A l \in Loads : loads[l] # None => loads[l].texts \in Shown
    /\ count.texts <= MaxTexts /\ count.faults <= MaxFaults

LEMMA EmptyIsShown == <<>> \in Shown
<1>1. NumLatest \in Nat
    BY ServicesOK DEF ServicesOK, MessagesOK
<1> QED BY <1>1 DEF Shown

LEMMA LatestIsShown ==
    ASSUME NEW x \in ChatM!Said, NEW seq \in Seq(ChatM!Said)
    PROVE  ChatM!Latest(<<x>> \o seq) \in Shown
<1>1. NumLatest \in Nat
    BY ServicesOK DEF ServicesOK, MessagesOK
<1>2. <<x>> \o seq \in Seq(ChatM!Said)
    OBVIOUS
<1>3. ASSUME NEW S, NEW all \in Seq(S)
      PROVE  ChatM!Latest(all) \in Seq(S) /\ Len(ChatM!Latest(all)) <= NumLatest
    <2> DEFINE n == IF Len(all) < NumLatest THEN Len(all) ELSE NumLatest
    <2>1. n \in Nat /\ n <= Len(all) /\ n <= NumLatest
        BY <1>1
    <2> HIDE DEF n
    <2>2. SubSeq(all, 1, n) \in Seq(S) /\ Len(SubSeq(all, 1, n)) = n
        BY <2>1
    <2> QED BY <2>1, <2>2 DEF n, ChatM!Latest
<1> QED BY <1>2, <1>3 DEF Shown

\* The list that is read.
LEMMA ListIsShown ==
    ASSUME MessagesTyped
    PROVE  ChatM!NewestRows \in Shown
<1> DEFINE V == ChatM!VisibleRows
           size == ChatM!Cardinality(V)
           length == IF size < NumLatest THEN size ELSE NumLatest
           row(k) == CHOOSE i \in V : ChatM!Newer(i) = k - 1
<1>1. MessageTypes
    BY DEF MessagesTyped, MessageInv
<1>2. /\ NumLatest \in Nat /\ size \in Nat
      /\ \A n \in 0..(size - 1) : \E i \in V : ChatM!Newer(i) = n
    BY <1>1, NewerIs, ServicesOK DEF ServicesOK, MessagesOK
<1>3. length \in Nat /\ length <= size /\ length <= NumLatest
    <2> HIDE DEF size
    <2> QED BY <1>2
<1>4. ChatM!NewestRows = [k \in 1..length |-> rows[row(k)].text]
    BY DEF ChatM!NewestRows
<1>5. ASSUME NEW k \in 1..length PROVE rows[row(k)].text \in ChatM!Said
    <2>1. k - 1 \in 0..(size - 1)
        <3> HIDE DEF size, length
        <3> QED BY <1>2, <1>3
    <2>2. row(k) \in V
        <3>1. \E i \in V : ChatM!Newer(i) = k - 1
            BY <1>2, <2>1
        <3> HIDE DEF V
        <3> QED BY <3>1
    <2>3. row(k) \in DOMAIN rows
        <3> HIDE DEF row
        <3> QED BY <2>2 DEF ChatM!VisibleRows
    <2> QED BY <2>3 DEF MessagesTyped
<1> HIDE DEF length, row
<1>6. ChatM!NewestRows \in [1..length -> ChatM!Said]
    BY <1>4, <1>5
<1>7. ChatM!NewestRows \in Seq(ChatM!Said) /\ Len(ChatM!NewestRows) = length
    BY <1>3, <1>6
<1> QED BY <1>3, <1>7 DEF Shown

\* What the handlers hold and what is kept of the bounds, when nothing else of
\* the types can be disturbed.
LEMMA HandlerGoes ==
    ASSUME MessagesTyped, NEW h \in Handlers, NEW at \in {"idle", "checking", "hiding", "inserting"},
           handler[h].at # "idle", ChatM!Goes(h, at)
    PROVE  \A g \in Handlers : /\ handler'[g].text \in ChatM!Said \cup {0}
                               /\ handler'[g].at # "idle" => handler'[g].text \in ChatM!Said
<1>1. MessageTypes
    BY DEF MessagesTyped, MessageInv
<1>2. /\ handler'[h].at = at /\ (at # "idle" => handler'[h].text = handler[h].text)
      /\ \A g \in Handlers \ {h} : handler'[g] = handler[g]
    BY <1>1, GoesIs
<1>3. handler[h].text \in ChatM!Said
    BY DEF MessagesTyped
<1>4. at = "idle" => handler'[h].text = 0
    <2>1. at = "idle" => handler' = [handler EXCEPT ![h] = ChatM!Idle]
        BY DEF ChatM!Goes
    <2> QED BY <1>1, <2>1 DEF MessageTypes, ChatM!Idle
<1> QED BY <1>2, <1>3, <1>4 DEF MessagesTyped

LEMMA FaultsCounted ==
    ASSUME MessagesTyped, ChatM!Fault
    PROVE  count'.texts <= MaxTexts /\ count'.faults <= MaxFaults
<1>1. count \in [texts: Nat, faults: Nat] /\ count.texts <= MaxTexts
    BY DEF MessagesTyped, MessageInv, MessageTypes
<1>2. count.faults < MaxFaults /\ count' = [count EXCEPT !.faults = @ + 1]
    BY DEF ChatM!Fault
<1>3. /\ count.texts \in Nat /\ count.faults \in Nat
      /\ count'.texts = count.texts /\ count'.faults = count.faults + 1
    BY <1>1, <1>2
<1> QED BY <1>1, <1>2, <1>3, BoundsAreNumbers

LEMMA LoadBegun ==
    ASSUME MessagesTyped, ChatM!BeginLoad
    PROVE  \A l \in Loads : loads'[l] # None => loads'[l].texts \in Shown
<1>1. PICK l \in Loads : loads' = [loads EXCEPT ![l] = [at |-> "asked", no |-> 0, texts |-> <<>>]]
    BY DEF ChatM!BeginLoad
<1>2. loads'[l].texts = <<>> /\ \A m \in Loads \ {l} : loads'[m] = loads[m]
    BY <1>1 DEF MessagesTyped, MessageInv, MessageTypes
<1> QED BY <1>2, EmptyIsShown DEF MessagesTyped

\* The bounds of MessagesTyped, after a step.
HandlersHold ==
    \A h \in Handlers : /\ handler[h].text \in ChatM!Said \cup {0}
                        /\ handler[h].at # "idle" => handler[h].text \in ChatM!Said

RowsHold == \A i \in DOMAIN rows : rows[i].text \in ChatM!Said

LoadsHold == \A l \in Loads : loads[l] # None => loads[l].texts \in Shown

CountHolds == count.texts <= MaxTexts /\ count.faults <= MaxFaults

LEMMA MessagesTypedStep ==
    ASSUME MessagesTyped, ChatM!Next \/ UNCHANGED chatMessageVars
    PROVE  MessagesTyped'
<1>0. MessageInv' /\ MessageInv /\ MessageTypes
    BY MessageStep DEF MessagesTyped, MessageInv
<1>1. HandlersHold /\ RowsHold /\ LoadsHold /\ CountHolds /\ recent \in Shown
    BY DEF MessagesTyped, HandlersHold, RowsHold, LoadsHold, CountHolds
<1> DEFINE Hold == HandlersHold' /\ RowsHold' /\ LoadsHold' /\ CountHolds' /\ recent' \in Shown
<1>2. ASSUME UNCHANGED chatMessageVars PROVE Hold
    BY <1>1, <1>2 DEF chatMessageVars, HandlersHold, RowsHold, LoadsHold, CountHolds
<1>3. ASSUME NEW h \in Handlers, ChatM!TextComes(h) PROVE Hold
    <2>1. /\ count.texts < MaxTexts /\ count' = [count EXCEPT !.texts = @ + 1]
          /\ handler' = [handler EXCEPT ![h] = [at |-> "checking", text |-> count'.texts]]
          /\ UNCHANGED <<rows, recent, loads, marks, notice>>
        BY <1>3 DEF ChatM!TextComes
    <2>2. count.texts \in Nat /\ count'.texts = count.texts + 1 /\ count'.faults = count.faults
        BY <1>0, <2>1 DEF MessageTypes
    <2>3. count'.texts \in ChatM!Said /\ CountHolds'
        BY <1>1, <2>1, <2>2, BoundsAreNumbers DEF ChatM!Said, CountHolds
    <2>4. handler'[h].text = count'.texts /\ \A g \in Handlers \ {h} : handler'[g] = handler[g]
        BY <1>0, <2>1 DEF MessageTypes
    <2>5. HandlersHold'
        BY <1>1, <2>3, <2>4 DEF HandlersHold
    <2> QED BY <1>1, <2>1, <2>3, <2>5 DEF RowsHold, LoadsHold
<1>4. ASSUME NEW h \in Handlers, ChatM!Checked(h) PROVE Hold
    <2>1. PICK at \in {"hiding", "idle", "inserting"} :
            /\ ChatM!Goes(h, at)
            /\ UNCHANGED recent \/ recent' = ChatM!Latest(<<handler[h].text>> \o recent)
        BY <1>4 DEF ChatM!Checked
    <2>2. handler[h].at = "checking" /\ UNCHANGED <<rows, loads, marks, notice, count>>
        BY <1>4 DEF ChatM!Checked
    <2>3. HandlersHold'
        BY <2>1, <2>2, HandlerGoes DEF HandlersHold
    <2>4. handler[h].text \in ChatM!Said /\ recent \in Seq(ChatM!Said)
        BY <1>1, <2>2 DEF HandlersHold, Shown
    <2>5. recent' \in Shown
        BY <1>1, <2>1, <2>4, LatestIsShown
    <2> QED BY <1>1, <2>2, <2>3, <2>5 DEF RowsHold, LoadsHold, CountHolds
<1>5. ASSUME NEW h \in Handlers, ChatM!Insert(h) PROVE Hold
    <2>1. /\ handler[h].at # "idle" /\ (ChatM!BeginLoad \/ UNCHANGED loads)
          /\ rows' = Append(rows, [text |-> handler[h].text, hidden |-> handler[h].at = "hiding"])
          /\ ChatM!Goes(h, "idle") /\ UNCHANGED <<recent, marks, notice, count>>
        BY <1>5 DEF ChatM!Insert
    <2>2. HandlersHold'
        BY <2>1, HandlerGoes DEF HandlersHold
    <2>3. LoadsHold'
        BY <1>1, <2>1, LoadBegun DEF LoadsHold
    <2>4. handler[h].text \in ChatM!Said
        BY <1>1, <2>1 DEF HandlersHold
    <2>5. RowsHold'
        <3> DEFINE new == [text |-> handler[h].text, hidden |-> handler[h].at = "hiding"]
                   Set == [text: Nat, hidden: BOOLEAN]
        <3>1. rows \in Seq(Set) /\ rows' = Append(rows, new) /\ new.text = handler[h].text
            BY <1>0, <2>1 DEF MessageTypes
        <3> HIDE DEF new, Set
        <3>2. \A i \in DOMAIN rows' : (i \in DOMAIN rows /\ rows'[i] = rows[i]) \/ rows'[i] = new
            BY <3>1
        <3> QED BY <1>1, <2>4, <3>1, <3>2 DEF RowsHold
    <2> QED BY <1>1, <2>1, <2>2, <2>3, <2>5 DEF CountHolds
<1>6. ASSUME NEW h \in Handlers, ChatM!InsertFails(h) PROVE Hold
    <2>1. /\ handler[h].at # "idle" /\ ChatM!Fault /\ ChatM!Goes(h, "idle")
          /\ UNCHANGED <<rows, recent, loads, notice>>
        BY <1>6 DEF ChatM!InsertFails
    <2>2. HandlersHold' /\ CountHolds'
        BY <2>1, HandlerGoes, FaultsCounted DEF HandlersHold, CountHolds
    <2> QED BY <1>1, <2>1, <2>2 DEF RowsHold, LoadsHold
<1>7. ASSUME NEW l \in Loads, ChatM!LoadReads(l) PROVE Hold
    <2>1. /\ loads' = [loads EXCEPT ![l] = [at |-> "read", no |-> marks.read + 1,
                                           texts |-> ChatM!NewestRows]]
          /\ UNCHANGED <<handler, rows, recent, notice, count>>
        BY <1>7 DEF ChatM!LoadReads
    <2>2. loads'[l].texts = ChatM!NewestRows /\ \A m \in Loads \ {l} : loads'[m] = loads[m]
        BY <1>0, <2>1 DEF MessageTypes
    <2>3. LoadsHold'
        BY <1>1, <2>2, ListIsShown DEF LoadsHold
    <2> QED BY <1>1, <2>1, <2>3 DEF HandlersHold, RowsHold, CountHolds
<1>8. ASSUME NEW l \in Loads, ChatM!LoadAnswers(l) \/ ChatM!LoadFails(l) PROVE Hold
    <2>1. /\ loads[l] # None /\ loads' = [loads EXCEPT ![l] = None]
          /\ UNCHANGED <<handler, rows, notice>>
          /\ \/ recent' = loads[l].texts /\ UNCHANGED count
             \/ UNCHANGED recent /\ ChatM!Fault
        BY <1>8 DEF ChatM!LoadAnswers, ChatM!LoadFails
    <2>2. loads'[l] = None /\ \A m \in Loads \ {l} : loads'[m] = loads[m]
        BY <1>0, <2>1 DEF MessageTypes
    <2>3. LoadsHold' /\ recent' \in Shown
        BY <1>1, <2>1, <2>2 DEF LoadsHold
    <2>4. CountHolds'
        BY <1>1, <2>1, FaultsCounted DEF CountHolds
    <2> QED BY <1>1, <2>1, <2>3, <2>4 DEF HandlersHold, RowsHold
<1>9. ASSUME ChatM!Hide PROVE Hold
    <2>1. /\ \E i \in DOMAIN rows : rows' = [rows EXCEPT ![i].hidden = TRUE]
          /\ UNCHANGED <<handler, recent, loads, marks, count>>
        BY <1>9 DEF ChatM!Hide
    <2>2. PICK i \in DOMAIN rows : rows' = [rows EXCEPT ![i].hidden = TRUE]
        BY <2>1
    <2>3. ASSUME NEW j \in DOMAIN rows' PROVE j \in DOMAIN rows /\ rows'[j].text = rows[j].text
        <3>1. rows \in Seq([text: Nat, hidden: BOOLEAN])
            BY <1>0 DEF MessageTypes
        <3>2. \A S : rows \in Seq(S) => \A k \in DOMAIN rows : rows[k] \in S
            OBVIOUS
        <3>3. rows[i] \in [text: Nat, hidden: BOOLEAN] /\ j \in DOMAIN rows
            BY <2>2, <3>1, <3>2
        <3>4. rows'[j] = IF j = i THEN [rows[i] EXCEPT !.hidden = TRUE] ELSE rows[j]
            BY <2>2, <3>3
        <3> QED BY <3>3, <3>4
    <2>4. RowsHold'
        BY <1>1, <2>3 DEF RowsHold
    <2> QED BY <1>1, <2>1, <2>4 DEF HandlersHold, LoadsHold, CountHolds
<1>10. ASSUME ChatM!Invalidate PROVE Hold
    <2>1. /\ UNCHANGED <<handler, rows, recent>>
          /\ (ChatM!BeginLoad /\ UNCHANGED count) \/ (ChatM!Fault /\ UNCHANGED loads)
        BY <1>10 DEF ChatM!Invalidate
    <2>2. LoadsHold' /\ CountHolds'
        BY <1>1, <2>1, LoadBegun, FaultsCounted DEF LoadsHold, CountHolds
    <2> QED BY <1>1, <2>1, <2>2 DEF HandlersHold, RowsHold
<1>11. ASSUME ChatM!Restart PROVE Hold
    <2>1. /\ ChatM!Fault /\ handler' = [h \in Handlers |-> ChatM!Idle] /\ recent' = <<>>
          /\ \E l \in Loads : loads' = [m \in Loads |->
                 IF m = l THEN [at |-> "asked", no |-> 0, texts |-> <<>>] ELSE None]
          /\ UNCHANGED <<rows, notice>>
        BY <1>11 DEF ChatM!Restart
    <2>2. HandlersHold'
        BY <2>1 DEF HandlersHold, ChatM!Idle
    <2>3. LoadsHold'
        BY <2>1, EmptyIsShown DEF LoadsHold
    <2>4. CountHolds' /\ recent' \in Shown
        BY <2>1, FaultsCounted, EmptyIsShown DEF CountHolds
    <2> QED BY <1>1, <2>1, <2>2, <2>3, <2>4 DEF RowsHold
<1>12. Hold
    <2> HIDE DEF Hold
    <2> QED BY <1>2, <1>3, <1>4, <1>5, <1>6, <1>7, <1>8, <1>9, <1>10, <1>11 DEF ChatM!Next
<1> QED BY <1>0, <1>12 DEF MessagesTyped, HandlersHold, RowsHold, LoadsHold, CountHolds

LEMMA MessageTypesHold == Spec => []ChatM!TypeOK
<1>1. Init => MessagesTyped
    <2> SUFFICES ASSUME ChatM!Init PROVE MessagesTyped
        BY DEF Init
    <2>1. /\ handler = [h \in Handlers |-> ChatM!Idle] /\ rows = <<>> /\ recent = <<>>
          /\ loads = [l \in Loads |-> None] /\ count = [texts |-> 0, faults |-> 0]
        BY DEF ChatM!Init
    <2> QED BY <2>1, MessagesStart, EmptyIsShown, BoundsAreNumbers DEF MessagesTyped, ChatM!Idle
<1>2. MessagesTyped /\ [Next]_serviceVars => MessagesTyped'
    BY MessagesTypedStep, EachTakesItsOwnSteps
<1>3. MessagesTyped => ChatM!TypeOK
    <2> SUFFICES ASSUME MessagesTyped PROVE ChatM!TypeOK
        OBVIOUS
    <2>1. MessageTypes
        BY DEF MessagesTyped, MessageInv
    <2>2. handler \in [Handlers -> [at: {"idle", "checking", "hiding", "inserting"},
                                    text: ChatM!Said \cup {0}]]
        <3>1. \A h \in Handlers : handler[h] \in [at: {"idle", "checking", "hiding", "inserting"},
                                                 text: ChatM!Said \cup {0}]
            <4> TAKE h \in Handlers
            <4>1. handler[h] \in TextStates /\ handler[h].text \in ChatM!Said \cup {0}
                BY <2>1 DEF MessageTypes, MessagesTyped
            <4> QED BY <4>1 DEF TextStates
        <3> QED BY <2>1, <3>1 DEF MessageTypes
    <2>3. rows \in Seq([text: ChatM!Said, hidden: BOOLEAN])
        <3> DEFINE Set == [text: Nat, hidden: BOOLEAN]
                   Less == [text: ChatM!Said, hidden: BOOLEAN]
        <3>1. rows \in Seq(Set)
            BY <2>1 DEF MessageTypes
        <3>2. ASSUME NEW i \in DOMAIN rows PROVE rows[i] \in Less
            <4>1. rows[i] \in Set
                <5> HIDE DEF Set
                <5> QED BY <3>1
            <4>2. rows[i].text \in ChatM!Said
                BY DEF MessagesTyped
            <4> QED BY <4>1, <4>2
        <3> HIDE DEF Set, Less
        <3>3. DOMAIN rows = 1..Len(rows) /\ Len(rows) \in Nat /\ rows = [i \in 1..Len(rows) |-> rows[i]]
            BY <3>1
        <3>4. rows \in [1..Len(rows) -> Less]
            BY <3>2, <3>3
        <3>5. \A n \in Nat : \A seq \in [1..n -> Less] : seq \in Seq(Less)
            OBVIOUS
        <3>6. rows \in Seq(Less)
            BY <3>3, <3>4, <3>5
        <3> QED BY <3>6 DEF Less
    <2>4. recent \in Seq(ChatM!Said) /\ Len(recent) <= NumLatest
        BY DEF MessagesTyped, Shown
    <2>5. \A l \in Loads : loads[l] = None \/ loads[l].texts \in Seq(ChatM!Said)
        BY DEF MessagesTyped, Shown
    <2>6. count \in [texts: 0..MaxTexts, faults: 0..MaxFaults]
        <3>1. count \in [texts: Nat, faults: Nat] /\ count.texts <= MaxTexts /\ count.faults <= MaxFaults
            BY <2>1 DEF MessageTypes, MessagesTyped
        <3> QED BY <3>1, BoundsAreNumbers
    <2>7. marks \in [read: Nat, shown: Nat, due: Nat] /\ notice \in BOOLEAN
        BY <2>1 DEF MessageTypes
    <2> QED BY <2>2, <2>3, <2>4, <2>5, <2>6, <2>7 DEF ChatM!TypeOK
<1> QED BY <1>1, <1>2, <1>3, PTL DEF Spec
-----------------------------------------------------------------------------
(* Search, reactions, the rate limit and the dashboard: their invariants say *)
(* it all.                                                                   *)

LEMMA SearchTypesHold == Spec => []Search!TypeOK
<1>1. SearchInv => Search!TypeOK
    BY DEF SearchInv
<1> QED BY <1>1, SearchInvariant, PTL

LEMMA ReactionTypesHold == Spec => []React!TypeOK
<1>1. Init => ReactInv
    BY ReactInit DEF Init
<1>2. ReactInv /\ [Next]_serviceVars => ReactInv'
    BY ReactStep, EachTakesItsOwnSteps
<1>3. ReactInv => React!TypeOK
    BY DEF ReactInv
<1> QED BY <1>1, <1>2, <1>3, PTL DEF Spec

LEMMA LimitTypesHold == Spec => []Limit!TypeOK
<1>1. Init => LimitInv
    BY LimitInit, ServicesOK DEF Init, ServicesOK
<1>2. LimitInv /\ [Next]_serviceVars => LimitInv'
    BY LimitStep, ServicesOK DEF ServicesOK
<1>3. LimitInv => Limit!TypeOK
    BY DEF LimitInv
<1> QED BY <1>1, <1>2, <1>3, PTL DEF Spec

LEMMA MarketTypesHold == Spec => []Market!TypeOK
<1>1. MarketInv => Market!TypeOK
    BY DEF MarketInv
<1> QED BY <1>1, MarketInvariant, PTL
-----------------------------------------------------------------------------
(* Embedding. *)

\* Places of a list are filled anew.
LEMMA FilledAnew ==
    ASSUME NEW S, NEW seq, NEW n \in Nat, DOMAIN seq = 1..n, seq = [i \in 1..n |-> seq[i]],
           \A i \in 1..n : seq[i] \in S
    PROVE  seq \in Seq(S)
<1>1. seq \in [1..n -> S]
    OBVIOUS
<1>2. \A m \in Nat : \A f \in [1..m -> S] : f \in Seq(S)
    OBVIOUS
<1> QED BY <1>1, <1>2

LEMMA EmbedTypesStep ==
    ASSUME EmbedInv, Embed!TypeOK, Embed!Next \/ UNCHANGED embeddingVars
    PROVE  Embed!TypeOK'
<1>0. /\ cached \in [Embed!Vectors -> Embed!Vectors \cup {None}]
      /\ texts \in Seq(Texts) /\ task \in Tasks \cup {None} /\ out \in Seq(Embed!Vectors \cup {None})
      /\ missing \subseteq DOMAIN texts /\ short \subseteq DOMAIN texts /\ calls \in 0..MaxEmbeds
    BY DEF Embed!TypeOK
<1>1. DOMAIN out = 1..Len(out) /\ Len(out) \in Nat
    BY <1>0
<1>2. Embed!Batch \subseteq missing
    BY DEF Embed!Batch
<1>3. ASSUME UNCHANGED embeddingVars PROVE Embed!TypeOK'
    BY <1>0, <1>3 DEF embeddingVars, Embed!TypeOK
<1>4. ASSUME Embed!Embed PROVE Embed!TypeOK'
    <2>1. PICK seq \in Embed!SeqOf(Texts, MaxInput), t \in Tasks :
              texts' = seq /\ task' = t /\ Embed!Read(seq, t)
        BY <1>4 DEF Embed!Embed
    <2>2. calls < MaxEmbeds /\ calls' = calls + 1 /\ short' = {} /\ cached' = cached
        BY <1>4 DEF Embed!Embed
    <2>3. PICK n \in 0..MaxInput : seq \in [1..n -> Texts]
        BY <2>1 DEF Embed!SeqOf
    <2>4. n \in Nat /\ seq \in Seq(Texts)
        BY <2>3, BoundsAreNumbers
    <2>5. PICK hit \in SUBSET Embed!ToSet(seq) :
            LET vector(x) == IF x \in hit THEN cached[Embed!Key(x, t)] ELSE None IN
            /\ out' = [i \in DOMAIN seq |-> vector(seq[i])]
            /\ missing' = {i \in DOMAIN seq : vector(seq[i]) = None}
        BY <2>1 DEF Embed!Read
    <2>6. \A i \in 1..n : out'[i] \in Embed!Vectors \cup {None}
        <3> TAKE i \in 1..n
        <3>1. Embed!Key(seq[i], t) \in Embed!Vectors
            BY <2>3 DEF Embed!Key, Embed!Vectors
        <3>2. cached[Embed!Key(seq[i], t)] \in Embed!Vectors \cup {None}
            BY <1>0, <3>1
        <3>3. out'[i] = IF seq[i] \in hit THEN cached[Embed!Key(seq[i], t)] ELSE None
            BY <2>3, <2>5
        <3> QED BY <3>2, <3>3
    <2>7. DOMAIN out' = 1..n /\ out' = [i \in 1..n |-> out'[i]] /\ missing' \subseteq DOMAIN texts'
        BY <2>1, <2>3, <2>5
    <2>8. out' \in Seq(Embed!Vectors \cup {None})
        BY <2>4, <2>6, <2>7, FilledAnew
    <2>9. calls' \in 0..MaxEmbeds
        BY <1>0, <2>2, BoundsAreNumbers
    <2> QED BY <1>0, <2>1, <2>2, <2>4, <2>7, <2>8, <2>9 DEF Embed!TypeOK
<1>5. ASSUME Embed!BatchReturns PROVE Embed!TypeOK'
    <2>1. PICK n \in 0..Embed!Cardinality(Embed!Firsts) :
            /\ out' = Embed!Place(n)
            /\ short' = short \cup {i \in Embed!Batch : texts[i] \notin Embed!Answered(n)}
            /\ \E arrived \in SUBSET Embed!Answered(n) : cached' = Embed!Stored(arrived)
        BY <1>5 DEF Embed!BatchReturns
    <2>2. missing' = missing \ Embed!Batch /\ texts' = texts /\ task' = task /\ calls' = calls
        BY <1>5 DEF Embed!BatchReturns
    <2>3. /\ DOMAIN out' = 1..Len(out) /\ out' = [i \in 1..Len(out) |-> out'[i]]
          /\ \A i \in 1..Len(out) : out'[i] \in {out[i], [text |-> texts[i], task |-> task], None}
        BY <1>1, <2>1 DEF Embed!Place
    <2>4. \A i \in 1..Len(out) : out'[i] \in Embed!Vectors \cup {None}
        <3>1. \A i \in 1..Len(out) : [text |-> texts[i], task |-> task] \in Embed!Vectors
            BY <1>1 DEF EmbedInv, CallKnown
        <3>2. \A i \in 1..Len(out) : out[i] \in Embed!Vectors \cup {None}
            BY <1>0
        <3> QED BY <2>3, <3>1, <3>2
    <2>5. out' \in Seq(Embed!Vectors \cup {None})
        BY <1>1, <2>3, <2>4, FilledAnew
    <2>6. cached' \in [Embed!Vectors -> Embed!Vectors \cup {None}]
        <3>1. PICK arrived : cached' = Embed!Stored(arrived)
            BY <2>1
        <3>2. DOMAIN cached' = Embed!Vectors /\ cached' = [key \in Embed!Vectors |-> cached'[key]]
            BY <1>0, <3>1 DEF Embed!Stored
        <3>3. \A key \in Embed!Vectors : cached'[key] \in {key, None}
            BY <1>5, BatchReturnsOK DEF EmbedInv, VectorsKept
        <3> QED BY <3>2, <3>3
    <2>7. short' \subseteq DOMAIN texts
        BY <1>0, <1>2, <2>1
    <2> QED BY <1>0, <2>2, <2>5, <2>6, <2>7 DEF Embed!TypeOK
<1>6. ASSUME Embed!BatchFails PROVE Embed!TypeOK'
    <2>1. /\ missing' = missing \ Embed!Batch /\ short' = short \cup Embed!Batch
          /\ UNCHANGED <<cached, texts, task, out, calls>>
        BY <1>6 DEF Embed!BatchFails
    <2> QED BY <1>0, <1>2, <2>1 DEF Embed!TypeOK
<1>7. ASSUME Embed!Return PROVE Embed!TypeOK'
    <2>1. /\ missing = {} /\ task' = None /\ texts' = <<>> /\ out' = <<>> /\ short' = {}
          /\ UNCHANGED <<cached, missing, calls>>
        BY <1>7 DEF Embed!Return
    <2> QED BY <1>0, <2>1 DEF Embed!TypeOK
<1>8. ASSUME NEW t \in Tasks, Embed!Expire(t) PROVE Embed!TypeOK'
    <2>1. /\ cached' = [key \in DOMAIN cached |-> IF key.task = t THEN None ELSE cached[key]]
          /\ UNCHANGED <<texts, task, out, missing, short, calls>>
        BY <1>8 DEF Embed!Expire
    <2>2. cached' \in [Embed!Vectors -> Embed!Vectors \cup {None}]
        BY <1>0, <2>1
    <2> QED BY <1>0, <2>1, <2>2 DEF Embed!TypeOK
<1> QED BY <1>3, <1>4, <1>5, <1>6, <1>7, <1>8 DEF Embed!Next

LEMMA EmbeddingTypesHold == Spec => []Embed!TypeOK
<1>1. Init => EmbedInv /\ Embed!TypeOK
    <2> SUFFICES ASSUME Embed!Init PROVE EmbedInv /\ Embed!TypeOK
        BY DEF Init
    <2>1. EmbedInv
        BY DEF Embed!Init, EmbedInv, VectorsKept, CallKnown, Embed!EmbedAligned
    <2>2. /\ cached = [key \in Embed!Vectors |-> None] /\ texts = <<>> /\ task = None /\ out = <<>>
          /\ missing = {} /\ short = {} /\ calls = 0
        BY DEF Embed!Init
    <2> QED BY <2>1, <2>2, BoundsAreNumbers DEF Embed!TypeOK
<1>2. EmbedInv /\ Embed!TypeOK /\ [Next]_serviceVars => (EmbedInv /\ Embed!TypeOK)'
    BY EmbedStep, EmbedTypesStep, EachTakesItsOwnSteps
<1> QED BY <1>1, <1>2, PTL DEF Spec
-----------------------------------------------------------------------------
(* What answers cost. *)

\* Of a day no more is recorded than was started, and was under way before it.
LedgerTyped ==
    /\ LedgerInv
    /\ recorded[day] + Cardinality(Calling) <= started + Cardinality(Questions)
    /\ started <= MaxAnswers
    /\ \A d \in Ledger!Days : /\ recorded[d] <= MaxAnswers + Cardinality(Questions)
                              /\ raw[d] <= recorded[d]

LEMMA LedgerTypesHold == Spec => []Ledger!TypeOK
<1>1. Init => LedgerTyped
    <2> SUFFICES ASSUME Ledger!Init PROVE LedgerTyped
        BY DEF Init
    <2>1. Calling = {} /\ Cardinality({}) = 0 /\ Cardinality(Questions) \in Nat
        BY FS_EmptySet, LedgerConstants, FS_CardinalityType DEF Ledger!Init, Calling
    <2>2. /\ day = 0 /\ started = 0 /\ day \in Ledger!Days
          /\ \A d \in Ledger!Days : raw[d] = 0 /\ recorded[d] = 0
        BY LedgerConstants DEF Ledger!Init, Ledger!Days
    <2> QED BY <2>1, <2>2, LedgerInit, LedgerConstants DEF LedgerTyped
<1>2. LedgerTyped /\ [Next]_serviceVars => LedgerTyped'
    <2> SUFFICES ASSUME LedgerTyped, [Next]_serviceVars PROVE LedgerTyped'
        OBVIOUS
    <2>0. /\ LedgerInv /\ LedgerTypes /\ LedgerInv' /\ LedgerTypes'
          /\ Ledger!Next \/ UNCHANGED ledgerVars
        BY LedgerStep, EachTakesItsOwnSteps DEF LedgerTyped, LedgerInv
    <2> DEFINE Q == Cardinality(Questions)
               N == Cardinality(Calling)
               OfDay(r, t, n) == /\ r[day'] + n <= t + Q /\ t <= MaxAnswers
                                 /\ \A d \in Ledger!Days : r[d] <= MaxAnswers + Q /\ raw'[d] <= r[d]
               Goal == OfDay(recorded', started', N')
    <2>1. /\ Q \in Nat /\ N \in Nat /\ N' \in Nat /\ N <= Q /\ N' <= Q /\ MaxAnswers \in Nat
          /\ N' = Cardinality(Calling)'
        <3>1. Calling \in SUBSET Questions /\ Calling' \in SUBSET Questions
            BY DEF Calling
        <3> QED BY <3>1, LedgerConstants, FS_Subset, FS_CardinalityType
    <2>2. /\ day \in Ledger!Days /\ started \in Nat
          /\ \A d \in Ledger!Days : /\ d \in Nat /\ raw[d] \in Nat /\ recorded[d] \in Nat
                                    /\ raw'[d] \in Nat /\ recorded'[d] \in Nat
        BY <2>0 DEF LedgerTypes, Ledger!Days
    <2>3. /\ recorded[day] + N <= started + Q /\ started <= MaxAnswers
          /\ \A d \in Ledger!Days : recorded[d] <= MaxAnswers + Q /\ raw[d] <= recorded[d]
        BY DEF LedgerTyped
    <2>4. ASSUME UNCHANGED <<day, raw, recorded, started>>, N' = N PROVE Goal
        BY <2>2, <2>3, <2>4
    <2>5. ASSUME UNCHANGED ledgerVars PROVE Goal
        BY <2>4, <2>5, CountsStay DEF ledgerVars
    <2>6. ASSUME NEW r \in Questions, Ledger!CheckCap(r) PROVE Goal
        <3>1. /\ asking[r] = "idle" /\ asking' = [asking EXCEPT ![r] = "allowed"]
              /\ UNCHANGED <<day, raw, recorded, started>>
            BY <2>6 DEF Ledger!CheckCap
        <3>2. Calling' = Calling
            BY <2>0, <3>1 DEF Calling, LedgerTypes
        <3> QED BY <2>4, <3>1, <3>2
    <2>7. ASSUME NEW r \in Questions, Ledger!Call(r) \/ Ledger!CallUnchecked(r) PROVE Goal
        <3>1. /\ asking[r] # "calling" /\ started < MaxAnswers /\ started' = started + 1
              /\ asking' = [asking EXCEPT ![r] = "calling"]
              /\ UNCHANGED <<day, raw, recorded>>
            BY <2>7 DEF Ledger!Call, Ledger!CallUnchecked, Ledger!Starts
        <3>2. "calling" \in {"idle", "allowed", "calling"}
            OBVIOUS
        <3>3. N' = N + 1
            <4>1. Cardinality(Calling)' = Cardinality(Calling)
                      + (IF "calling" = "calling" THEN 1 ELSE 0)
                      - (IF asking[r] = "calling" THEN 1 ELSE 0)
                BY <2>0, <3>1, <3>2, Moves
            <4> QED BY <2>1, <3>1, <4>1
        <3> HIDE DEF N, Q
        <3> QED BY <2>1, <2>2, <2>3, <3>1, <3>3
    <2>8. ASSUME NEW r \in Questions, Ledger!RecordFails(r) PROVE Goal
        <3>1. /\ asking[r] = "calling" /\ asking' = [asking EXCEPT ![r] = "idle"]
              /\ UNCHANGED <<day, raw, recorded, started>>
            BY <2>8 DEF Ledger!RecordFails
        <3>2. "idle" \in {"idle", "allowed", "calling"}
            OBVIOUS
        <3>3. N' = N - 1
            <4>1. Cardinality(Calling)' = Cardinality(Calling)
                      + (IF "idle" = "calling" THEN 1 ELSE 0)
                      - (IF asking[r] = "calling" THEN 1 ELSE 0)
                BY <2>0, <3>1, <3>2, Moves
            <4>2. "idle" # "calling"
                OBVIOUS
            <4> QED BY <2>1, <3>1, <4>1, <4>2
        <3> HIDE DEF N, Q
        <3> QED BY <2>1, <2>2, <2>3, <3>1, <3>3
    <2>9. ASSUME NEW r \in Questions, Ledger!Record(r) PROVE Goal
        <3>1. /\ asking[r] = "calling" /\ asking' = [asking EXCEPT ![r] = "idle"]
              /\ raw' = [raw EXCEPT ![day] = @ + 1] /\ recorded' = [recorded EXCEPT ![day] = @ + 1]
              /\ UNCHANGED <<day, started>>
            BY <2>9 DEF Ledger!Record
        <3>2. "idle" \in {"idle", "allowed", "calling"}
            OBVIOUS
        <3>3. N' = N - 1
            <4>1. Cardinality(Calling)' = Cardinality(Calling)
                      + (IF "idle" = "calling" THEN 1 ELSE 0)
                      - (IF asking[r] = "calling" THEN 1 ELSE 0)
                BY <2>0, <3>1, <3>2, Moves
            <4>2. "idle" # "calling"
                OBVIOUS
            <4> QED BY <2>1, <3>1, <4>1, <4>2
        <3>4. /\ raw'[day] = raw[day] + 1 /\ recorded'[day] = recorded[day] + 1
              /\ \A d \in Ledger!Days \ {day} : raw'[d] = raw[d] /\ recorded'[d] = recorded[d]
            BY <2>0, <2>2, <3>1 DEF LedgerTypes
        <3>5. recorded'[day'] + N' <= started' + Q /\ started' <= MaxAnswers
            <4> HIDE DEF N, Q
            <4> QED BY <2>1, <2>2, <2>3, <3>1, <3>3, <3>4
        <3>6. recorded'[day] <= MaxAnswers + Q /\ raw'[day] <= recorded'[day]
            <4> HIDE DEF N, Q
            <4> QED BY <2>1, <2>2, <2>3, <3>1, <3>3, <3>4
        <3> HIDE DEF N, Q
        <3> QED BY <2>3, <3>4, <3>5, <3>6
    <2>10. ASSUME Ledger!Midnight PROVE Goal
        <3>1. /\ day' = day + 1 /\ started' = 0 /\ UNCHANGED <<raw, recorded, asking>>
            BY <2>10 DEF Ledger!Midnight
        <3>2. day' \in Ledger!Days /\ day' > day
            BY <2>0, <2>2, <3>1 DEF LedgerTypes
        <3>3. recorded[day'] = 0
            BY <2>0, <3>2 DEF LedgerInv, DayOK
        <3>4. N' = N
            BY <3>1, CountsStay
        <3> HIDE DEF N, Q
        <3> QED BY <2>1, <2>2, <2>3, <3>1, <3>3, <3>4
    <2>11. ASSUME Ledger!Nightly PROVE Goal
        <3>1. PICK pruned \in BOOLEAN : Ledger!Prune(pruned)
            BY <2>11 DEF Ledger!Nightly
        <3>2. UNCHANGED <<day, recorded, asking, started>>
            BY <2>11 DEF Ledger!Nightly
        <3>3. \A d \in Ledger!Days : raw'[d] <= raw[d]
            <4>1. CASE ~pruned
                BY <2>2, <3>1, <4>1 DEF Ledger!Prune
            <4>2. CASE pruned
                <5>1. PICK kept \in 0..MaxAnswers :
                          raw' = [d \in Ledger!Days |->
                              IF d + Retention < day THEN 0
                              ELSE IF d + Retention = day /\ kept < raw[d] THEN kept ELSE raw[d]]
                    BY <3>1, <4>2 DEF Ledger!Prune
                <5> QED BY <2>1, <2>2, <5>1
            <4> QED BY <4>1, <4>2
        <3>4. N' = N
            BY <3>2, CountsStay
        <3> HIDE DEF N, Q
        <3> QED BY <2>1, <2>2, <2>3, <3>2, <3>3, <3>4
    <2>12. Goal
        <3> HIDE DEF Goal
        <3> QED BY <2>0, <2>5, <2>6, <2>7, <2>8, <2>9, <2>10, <2>11 DEF Ledger!Next
    <2>13. /\ recorded'[day'] + Cardinality(Calling)' <= started' + Cardinality(Questions)
           /\ started' <= MaxAnswers
           /\ \A d \in Ledger!Days : /\ recorded'[d] <= MaxAnswers + Cardinality(Questions)
                                     /\ raw'[d] <= recorded'[d]
        BY <2>1, <2>12
    <2> QED BY <2>0, <2>13 DEF LedgerTyped
<1>3. LedgerTyped => Ledger!TypeOK
    <2> SUFFICES ASSUME LedgerTyped PROVE Ledger!TypeOK
        OBVIOUS
    <2>1. LedgerInv /\ LedgerTypes
        BY DEF LedgerTyped, LedgerInv
    <2>2. /\ Cardinality(Questions) \in Nat /\ MaxAnswers \in Nat
          /\ Ledger!Cardinality(Questions) = Cardinality(Questions)
        BY LedgerConstants, FS_CardinalityType
    <2>3. Ledger!Amounts = 0..(MaxAnswers + Cardinality(Questions))
        BY <2>2 DEF Ledger!Amounts
    <2>4. ASSUME NEW d \in Ledger!Days
          PROVE  raw[d] \in Ledger!Amounts /\ recorded[d] \in Ledger!Amounts
        <3>1. raw[d] \in Nat /\ recorded[d] \in Nat
            BY <2>1 DEF LedgerTypes
        <3>2. recorded[d] <= MaxAnswers + Cardinality(Questions) /\ raw[d] <= recorded[d]
            BY DEF LedgerTyped
        <3> QED BY <2>2, <2>3, <3>1, <3>2
    <2>5. \A d \in Ledger!Days : daily[d] \in Ledger!Amounts \cup {Ledger!NoRow}
        BY <2>1, <2>4 DEF LedgerInv, DayOK
    <2>6. /\ raw \in [Ledger!Days -> Ledger!Amounts] /\ recorded \in [Ledger!Days -> Ledger!Amounts]
          /\ daily \in [Ledger!Days -> Ledger!Amounts \cup {Ledger!NoRow}]
        BY <2>1, <2>4, <2>5 DEF LedgerTypes
    <2>7. started \in 0..MaxAnswers
        BY <2>1, <2>2 DEF LedgerTyped, LedgerTypes
    <2> QED BY <2>1, <2>6, <2>7 DEF LedgerTypes, Ledger!TypeOK
<1> QED BY <1>1, <1>2, <1>3, PTL DEF Spec
-----------------------------------------------------------------------------
(* Signing in, however many sign-ins meet. *)

\* The rows are numbered without gaps, and those that may still be made are of
\* other sign-ins.
Numbered(S, pending, n) ==
    /\ IsFiniteSet(pending)
    /\ \E m \in Nat : S = 1..m /\ m + Cardinality(pending) <= n

\* Requests that may still make a token, and those that may still make a user.
TokenPending == {r \in Arrivals : request[r].at \in {"token", "newToken"}}

UserPending == {r \in Arrivals : request[r].at \in {"token", "newToken", "user", "newUser"}}

ArrivalTypes == [at: Stages, token: 0..MaxSignIns, user: 0..MaxSignIns]

\* What a request holds is there.
HoldsRows(r) ==
    /\ request[r].at \in {"user", "newUser", "profile"} => request[r].token \in DOMAIN tokens
    /\ request[r].at = "profile" => request[r].user \in users

Arriving ==
    /\ request \in [Arrivals -> ArrivalTypes]
    /\ \A r \in Arrivals : HoldsRows(r)

RowTypes ==
    /\ profiles \subseteq users /\ account \subseteq users
    /\ tokens \in [DOMAIN tokens -> users \cup {None}]
    /\ linking \subseteq [token: DOMAIN tokens, user: users]
    /\ {met, unlinked, refused} \subseteq BOOLEAN

SignInTyped ==
    /\ Arriving /\ RowTypes
    /\ Numbered(DOMAIN tokens, TokenPending, signIns)
    /\ Numbered(users, UserPending, signIns)
    /\ signIns \in 0..MaxSignIns

LEMMA RowsStay ==
    ASSUME NEW S, NEW P, NEW n \in Nat, Numbered(S, P, n), NEW Q \in SUBSET P
    PROVE  Numbered(S, Q, n)
<1>1. PICK m \in Nat : S = 1..m /\ m + Cardinality(P) <= n
    BY DEF Numbered
<1>2. /\ IsFiniteSet(Q) /\ Cardinality(Q) <= Cardinality(P)
      /\ Cardinality(P) \in Nat /\ Cardinality(Q) \in Nat
    BY FS_Subset, FS_CardinalityType DEF Numbered
<1>3. m + Cardinality(Q) <= n
    BY <1>1, <1>2
<1> QED BY <1>1, <1>2, <1>3 DEF Numbered

LEMMA RowsAwaited ==
    ASSUME NEW S, NEW P, NEW n \in Nat, Numbered(S, P, n), NEW r
    PROVE  Numbered(S, P \cup {r}, n + 1)
<1>1. PICK m \in Nat : S = 1..m /\ m + Cardinality(P) <= n
    BY DEF Numbered
<1>2. IsFiniteSet(P) /\ Cardinality(P) \in Nat
    BY FS_CardinalityType DEF Numbered
<1>3. /\ IsFiniteSet(P \cup {r})
      /\ Cardinality(P \cup {r}) = Cardinality(P) \/ Cardinality(P \cup {r}) = Cardinality(P) + 1
    BY <1>2, FS_AddElement
<1>4. m + Cardinality(P \cup {r}) <= n + 1
    BY <1>1, <1>2, <1>3
<1> QED BY <1>1, <1>3, <1>4 DEF Numbered

LEMMA RowMade ==
    ASSUME NEW S, NEW P, NEW n \in Nat, Numbered(S, P, n), NEW r \in P
    PROVE  LET c == Cardinality(S) + 1 IN
           /\ c \in 1..n /\ S \cup {c} = 1..c /\ c \notin S
           /\ Numbered(1..c, P \ {r}, n)
<1>1. PICK m \in Nat : S = 1..m /\ m + Cardinality(P) <= n
    BY DEF Numbered
<1>2. IsFiniteSet(P) /\ Cardinality(P) \in Nat
    BY FS_CardinalityType DEF Numbered
<1>3. Cardinality(S) = m
    BY <1>1, FS_Interval
<1>4. /\ IsFiniteSet(P \ {r}) /\ Cardinality(P \ {r}) = Cardinality(P) - 1
      /\ Cardinality(P \ {r}) \in Nat
    BY <1>2, FS_RemoveElement, FS_CardinalityType
<1>5. m + 1 + Cardinality(P \ {r}) <= n /\ m + 1 \in Nat /\ m + 1 \in 1..n
    BY <1>1, <1>2, <1>4
<1>6. S \cup {m + 1} = 1..(m + 1) /\ m + 1 \notin S
    BY <1>1
<1>7. Numbered(1..(m + 1), P \ {r}, n)
    BY <1>4, <1>5 DEF Numbered
<1> QED BY <1>3, <1>5, <1>6, <1>7

\* A request goes on, with rows that are there.
LEMMA ArrivalGoes ==
    ASSUME Arriving, NEW r \in Arrivals, NEW at \in Stages,
           NEW t \in 0..MaxSignIns, NEW u \in 0..MaxSignIns, SignIn!Goes(r, at, t, u),
           DOMAIN tokens \subseteq DOMAIN tokens', users \subseteq users',
           at \in {"user", "newUser", "profile"} => t \in DOMAIN tokens',
           at = "profile" => u \in users'
    PROVE  /\ Arriving'
           /\ TokenPending' = IF at \in {"token", "newToken"}
                              THEN TokenPending \cup {r} ELSE TokenPending \ {r}
           /\ UserPending' = IF at \in {"token", "newToken", "user", "newUser"}
                             THEN UserPending \cup {r} ELSE UserPending \ {r}
<1>1. request' = [request EXCEPT ![r] = [at |-> at, token |-> t, user |-> u]]
    BY DEF SignIn!Goes
<1>2. [at |-> at, token |-> t, user |-> u] \in ArrivalTypes
    BY DEF ArrivalTypes
<1>3. /\ request' \in [Arrivals -> ArrivalTypes]
      /\ request'[r] = [at |-> at, token |-> t, user |-> u]
      /\ \A q \in Arrivals \ {r} : request'[q] = request[q]
    BY <1>1, <1>2 DEF Arriving
<1>4. request'[r].at = at /\ request'[r].token = t /\ request'[r].user = u
    BY <1>3
<1>5. HoldsRows(r)'
    BY <1>4 DEF HoldsRows
<1>6. ASSUME NEW q \in Arrivals \ {r} PROVE HoldsRows(q)'
    BY <1>3 DEF Arriving, HoldsRows
<1>7. Arriving'
    BY <1>3, <1>5, <1>6 DEF Arriving
<1>8. TokenPending' = IF at \in {"token", "newToken"}
                      THEN TokenPending \cup {r} ELSE TokenPending \ {r}
    BY <1>3, <1>4 DEF TokenPending
<1>9. UserPending' = IF at \in {"token", "newToken", "user", "newUser"}
                     THEN UserPending \cup {r} ELSE UserPending \ {r}
    BY <1>3, <1>4 DEF UserPending
<1> QED BY <1>7, <1>8, <1>9

LEMMA RowNumbers ==
    ASSUME SignInTyped
    PROVE  /\ signIns \in Nat /\ MaxSignIns \in Nat /\ signIns <= MaxSignIns
           /\ users \subseteq 1..MaxSignIns /\ DOMAIN tokens \subseteq 1..MaxSignIns
           /\ 0 \in 0..MaxSignIns
<1>1. signIns \in Nat /\ MaxSignIns \in Nat /\ signIns <= MaxSignIns
    BY BoundsAreNumbers DEF SignInTyped
<1>2. ASSUME NEW S, NEW P, Numbered(S, P, signIns) PROVE S \subseteq 1..MaxSignIns
    <2>1. PICK m \in Nat : S = 1..m /\ m + Cardinality(P) <= signIns
        BY <1>2 DEF Numbered
    <2>2. Cardinality(P) \in Nat
        BY <1>2, FS_CardinalityType DEF Numbered
    <2>3. m <= MaxSignIns
        BY <1>1, <2>1, <2>2
    <2> QED BY <1>1, <2>1, <2>3
<1> QED BY <1>1, <1>2 DEF SignInTyped

\* The same rows, and no request to await that was not.
LEMMA SameRows ==
    ASSUME SignInTyped, Arriving', RowTypes', UNCHANGED <<users, signIns>>,
           DOMAIN tokens' = DOMAIN tokens,
           TokenPending' \subseteq TokenPending, UserPending' \subseteq UserPending
    PROVE  SignInTyped'
<1>1. Numbered(DOMAIN tokens, TokenPending', signIns)
    BY RowNumbers, RowsStay DEF SignInTyped
<1>2. Numbered(users, UserPending', signIns)
    BY RowNumbers, RowsStay DEF SignInTyped
<1> QED BY <1>1, <1>2 DEF SignInTyped

LEMMA VerifyTyped ==
    ASSUME SignInTyped, NEW r \in Arrivals, SignIn!Verify(r) PROVE SignInTyped'
<1>1. /\ signIns < MaxSignIns /\ signIns' = signIns + 1 /\ SignIn!Goes(r, "token", 0, 0)
      /\ UNCHANGED <<users, profiles, tokens, linking, account, refused>>
      /\ met' \in BOOLEAN /\ unlinked' \in BOOLEAN
    BY DEF SignIn!Verify, SignInTyped, RowTypes
<1>2. /\ Arriving' /\ TokenPending' = TokenPending \cup {r} /\ UserPending' = UserPending \cup {r}
    BY <1>1, ArrivalGoes, RowNumbers DEF SignInTyped, Stages
<1>3. /\ Numbered(DOMAIN tokens, TokenPending \cup {r}, signIns + 1)
      /\ Numbered(users, UserPending \cup {r}, signIns + 1)
    BY RowNumbers, RowsAwaited DEF SignInTyped
<1>4. signIns' \in 0..MaxSignIns
    BY <1>1, RowNumbers
<1>5. RowTypes'
    BY <1>1 DEF SignInTyped, RowTypes
<1>6. Numbered(DOMAIN tokens, TokenPending, signIns)' /\ Numbered(users, UserPending, signIns)'
    BY <1>1, <1>2, <1>3
<1> QED BY <1>2, <1>4, <1>5, <1>6 DEF SignInTyped

\* A request that makes no row goes on, or ends.
LEMMA ArrivalEnds ==
    ASSUME SignInTyped, NEW r \in Arrivals, SignIn!Goes(r, "none", 0, 0),
           UNCHANGED <<users, tokens, signIns>>, RowTypes'
    PROVE  SignInTyped'
<1>1. Arriving' /\ TokenPending' = TokenPending \ {r} /\ UserPending' = UserPending \ {r}
    BY ArrivalGoes, RowNumbers DEF SignInTyped, Stages
<1> QED BY <1>1, SameRows

LEMMA FindTokenTyped ==
    ASSUME SignInTyped, NEW r \in Arrivals, SignIn!FindToken(r) PROVE SignInTyped'
<1>1. PICK t \in DOMAIN tokens :
          IF tokens[t] \in profiles
          THEN SignIn!Goes(r, "none", 0, 0) /\ account' = account \cup {tokens[t]}
          ELSE SignIn!Goes(r, "user", t, 0) /\ UNCHANGED account
    BY DEF SignIn!FindToken
<1>2. request[r].at = "token"
      /\ UNCHANGED <<users, profiles, tokens, linking, signIns, met, unlinked, refused>>
    BY DEF SignIn!FindToken
<1>3. RowTypes'
    BY <1>1, <1>2 DEF SignInTyped, RowTypes
<1>4. CASE tokens[t] \in profiles
    BY <1>1, <1>2, <1>3, <1>4, ArrivalEnds
<1>5. CASE tokens[t] \notin profiles
    <2>1. t \in 0..MaxSignIns
        BY RowNumbers
    <2>2. r \in UserPending
        BY <1>2 DEF UserPending
    <2>3. /\ Arriving' /\ TokenPending' = TokenPending \ {r} /\ UserPending' = UserPending \cup {r}
        BY <1>1, <1>2, <1>5, <2>1, ArrivalGoes, RowNumbers DEF SignInTyped, Stages
    <2> QED BY <1>2, <1>3, <2>2, <2>3, SameRows
<1> QED BY <1>4, <1>5

LEMMA MissTokenTyped ==
    ASSUME SignInTyped, NEW r \in Arrivals, SignIn!MissToken(r) PROVE SignInTyped'
<1>1. /\ request[r].at = "token" /\ SignIn!Goes(r, "newToken", 0, 0)
      /\ UNCHANGED <<users, profiles, tokens, linking, signIns, account, met, unlinked, refused>>
    BY DEF SignIn!MissToken
<1>2. r \in TokenPending /\ r \in UserPending
    BY <1>1 DEF TokenPending, UserPending
<1>3. /\ Arriving' /\ TokenPending' = TokenPending \cup {r} /\ UserPending' = UserPending \cup {r}
    BY <1>1, ArrivalGoes, RowNumbers DEF SignInTyped, Stages
<1>4. RowTypes'
    BY <1>1 DEF SignInTyped, RowTypes
<1> QED BY <1>1, <1>2, <1>3, <1>4, SameRows

LEMMA SaveTokenTyped ==
    ASSUME SignInTyped, NEW r \in Arrivals, SignIn!SaveToken(r) PROVE SignInTyped'
<1> DEFINE t == Cardinality(DOMAIN tokens) + 1
<1>1. /\ request[r].at = "newToken"
      /\ tokens' = [u \in 1..t |-> IF u = t THEN None ELSE tokens[u]]
      /\ SignIn!Goes(r, "user", t, 0)
      /\ UNCHANGED <<users, profiles, linking, signIns, account, met, unlinked, refused>>
    BY OneCardinality DEF SignIn!SaveToken
<1>2. r \in TokenPending /\ r \in UserPending
    BY <1>1 DEF TokenPending, UserPending
<1>3. /\ t \in 1..signIns /\ DOMAIN tokens \cup {t} = 1..t /\ t \notin DOMAIN tokens
      /\ Numbered(1..t, TokenPending \ {r}, signIns)
    BY <1>2, RowMade, RowNumbers DEF SignInTyped
<1> HIDE DEF t
<1>4. DOMAIN tokens' = 1..t /\ DOMAIN tokens \subseteq DOMAIN tokens' /\ t \in DOMAIN tokens'
    BY <1>1, <1>3
<1>5. t \in 0..MaxSignIns
    BY <1>3, RowNumbers
<1>6. /\ Arriving' /\ TokenPending' = TokenPending \ {r} /\ UserPending' = UserPending \cup {r}
    BY <1>1, <1>4, <1>5, ArrivalGoes, RowNumbers DEF SignInTyped, Stages
<1>7. RowTypes'
    <2>1. \A u \in 1..t : tokens'[u] \in users \cup {None}
        BY <1>1, <1>3 DEF SignInTyped, RowTypes
    <2>2. tokens' \in [1..t -> users \cup {None}]
        BY <1>1, <2>1
    <2>3. linking \subseteq [token: DOMAIN tokens', user: users]
        BY <1>4 DEF SignInTyped, RowTypes
    <2> QED BY <1>1, <1>4, <2>2, <2>3 DEF SignInTyped, RowTypes
<1>8. Numbered(DOMAIN tokens, TokenPending, signIns)'
    BY <1>1, <1>3, <1>4, <1>6
<1>9. Numbered(users, UserPending, signIns)'
    <2>1. UserPending' = UserPending
        BY <1>2, <1>6
    <2> QED BY <1>1, <2>1 DEF SignInTyped
<1> QED BY <1>1, <1>6, <1>7, <1>8, <1>9 DEF SignInTyped

LEMMA FindUserTyped ==
    ASSUME SignInTyped, NEW r \in Arrivals, SignIn!FindUser(r) PROVE SignInTyped'
<1>1. PICK u \in users : SignIn!Goes(r, "profile", request[r].token, u)
    BY DEF SignIn!FindUser, SignIn!Found
<1>2. /\ request[r].at = "user"
      /\ UNCHANGED <<users, profiles, tokens, linking, signIns, account, met, unlinked, refused>>
    BY DEF SignIn!FindUser
<1>3. request[r].token \in DOMAIN tokens
    BY <1>2 DEF SignInTyped, Arriving, HoldsRows
<1>4. request[r].token \in 0..MaxSignIns /\ u \in 0..MaxSignIns
    BY <1>3, RowNumbers
<1>5. /\ Arriving' /\ TokenPending' = TokenPending \ {r} /\ UserPending' = UserPending \ {r}
    BY <1>1, <1>2, <1>3, <1>4, ArrivalGoes DEF SignInTyped, Stages
<1>6. RowTypes'
    BY <1>2 DEF SignInTyped, RowTypes
<1> QED BY <1>2, <1>5, <1>6, SameRows

LEMMA MissUserTyped ==
    ASSUME SignInTyped, NEW r \in Arrivals, SignIn!MissUser(r) PROVE SignInTyped'
<1>1. /\ request[r].at = "user" /\ SignIn!Goes(r, "newUser", request[r].token, 0)
      /\ UNCHANGED <<users, profiles, tokens, linking, signIns, account, met, unlinked, refused>>
    BY DEF SignIn!MissUser
<1>2. r \in UserPending
    BY <1>1 DEF UserPending
<1>3. request[r].token \in DOMAIN tokens
    BY <1>1 DEF SignInTyped, Arriving, HoldsRows
<1>4. request[r].token \in 0..MaxSignIns
    BY <1>3, RowNumbers
<1>5. /\ Arriving' /\ TokenPending' = TokenPending \ {r} /\ UserPending' = UserPending \cup {r}
    BY <1>1, <1>3, <1>4, ArrivalGoes, RowNumbers DEF SignInTyped, Stages
<1>6. RowTypes'
    BY <1>1 DEF SignInTyped, RowTypes
<1> QED BY <1>1, <1>2, <1>5, <1>6, SameRows

LEMMA SaveUserTyped ==
    ASSUME SignInTyped, NEW r \in Arrivals, SignIn!SaveUser(r) PROVE SignInTyped'
<1> DEFINE u == Cardinality(users) + 1
<1>1. /\ request[r].at = "newUser" /\ users' = users \cup {u}
      /\ SignIn!Goes(r, "profile", request[r].token, u)
      /\ UNCHANGED <<profiles, tokens, linking, signIns, account, met, unlinked, refused>>
    BY OneCardinality DEF SignIn!SaveUser
<1>2. r \in UserPending /\ r \notin TokenPending
    BY <1>1 DEF TokenPending, UserPending
<1>3. /\ u \in 1..signIns /\ users \cup {u} = 1..u
      /\ Numbered(1..u, UserPending \ {r}, signIns)
    BY <1>2, RowMade, RowNumbers DEF SignInTyped
<1> HIDE DEF u
<1>4. request[r].token \in DOMAIN tokens
    BY <1>1 DEF SignInTyped, Arriving, HoldsRows
<1>5. request[r].token \in 0..MaxSignIns /\ u \in 0..MaxSignIns
    BY <1>3, <1>4, RowNumbers
<1>6. /\ Arriving' /\ TokenPending' = TokenPending \ {r} /\ UserPending' = UserPending \ {r}
    BY <1>1, <1>4, <1>5, ArrivalGoes DEF SignInTyped, Stages
<1>7. RowTypes'
    BY <1>1 DEF SignInTyped, RowTypes
<1>8. Numbered(users, UserPending, signIns)'
    BY <1>1, <1>3, <1>6
<1>9. Numbered(DOMAIN tokens, TokenPending, signIns)'
    <2>1. TokenPending' = TokenPending
        BY <1>2, <1>6
    <2> QED BY <1>1, <2>1 DEF SignInTyped
<1> QED BY <1>1, <1>6, <1>7, <1>8, <1>9 DEF SignInTyped

LEMMA SaveProfileTyped ==
    ASSUME SignInTyped, NEW r \in Arrivals, SignIn!SaveProfile(r) PROVE SignInTyped'
<1> DEFINE u == request[r].user
<1>1. /\ request[r].at = "profile" /\ SignIn!Goes(r, "none", 0, 0)
      /\ UNCHANGED <<users, tokens, signIns, met, unlinked>>
      /\ \/ refused' = TRUE /\ UNCHANGED <<profiles, linking, account>>
         \/ /\ profiles' = profiles \cup {u}
            /\ linking' = linking \cup {[token |-> request[r].token, user |-> u]}
            /\ account' = account \cup {u}
            /\ UNCHANGED refused
    BY DEF SignIn!SaveProfile
<1>2. request[r].token \in DOMAIN tokens /\ u \in users
    BY <1>1 DEF SignInTyped, Arriving, HoldsRows
<1> HIDE DEF u
<1>3. [token |-> request[r].token, user |-> u] \in [token: DOMAIN tokens, user: users]
    BY <1>2
<1>4. linking' \subseteq [token: DOMAIN tokens, user: users]
    BY <1>1, <1>3 DEF SignInTyped, RowTypes
<1>5. profiles' \subseteq users /\ account' \subseteq users /\ refused' \in BOOLEAN
    BY <1>1, <1>2 DEF SignInTyped, RowTypes
<1>6. RowTypes'
    BY <1>1, <1>4, <1>5 DEF SignInTyped, RowTypes
<1> QED BY <1>1, <1>6, ArrivalEnds

LEMMA FailTyped ==
    ASSUME SignInTyped, NEW r \in Arrivals, SignIn!Fail(r) PROVE SignInTyped'
<1>1. /\ SignIn!Goes(r, "none", 0, 0)
      /\ UNCHANGED <<users, profiles, tokens, linking, signIns, account, met, unlinked, refused>>
    BY DEF SignIn!Fail
<1>2. RowTypes'
    BY <1>1 DEF SignInTyped, RowTypes
<1> QED BY <1>1, <1>2, ArrivalEnds

LEMMA LinkTyped ==
    ASSUME SignInTyped, NEW link \in linking, SignIn!Link(link) PROVE SignInTyped'
<1>1. /\ \/ tokens' = [tokens EXCEPT ![link.token] = link.user] /\ UNCHANGED unlinked
         \/ unlinked' = TRUE /\ UNCHANGED tokens
      /\ linking' = linking \ {link}
      /\ UNCHANGED <<users, profiles, request, signIns, account, met, refused>>
    BY DEF SignIn!Link
<1>2. link.token \in DOMAIN tokens /\ link.user \in users
    BY DEF SignInTyped, RowTypes
<1>3. DOMAIN tokens' = DOMAIN tokens /\ tokens' \in [DOMAIN tokens -> users \cup {None}]
    BY <1>1, <1>2 DEF SignInTyped, RowTypes
<1>4. RowTypes'
    BY <1>1, <1>3 DEF SignInTyped, RowTypes
<1>5. Arriving'
    BY <1>1, <1>3 DEF SignInTyped, Arriving, HoldsRows
<1>6. TokenPending' = TokenPending /\ UserPending' = UserPending
    BY <1>1 DEF TokenPending, UserPending
<1> QED BY <1>1, <1>3, <1>4, <1>5, <1>6, SameRows

LEMMA SignInTypesHold == Spec => []SignIn!TypeOK
<1>1. Init => SignInTyped
    <2> SUFFICES ASSUME SignIn!Init PROVE SignInTyped
        BY DEF Init
    <2>1. /\ users = {} /\ profiles = {} /\ tokens = <<>> /\ linking = {} /\ account = {}
          /\ request = [r \in Arrivals |-> SignIn!Absent] /\ signIns = 0
          /\ met = FALSE /\ unlinked = FALSE /\ refused = FALSE
        BY DEF SignIn!Init
    <2>2. SignIn!Absent \in ArrivalTypes /\ SignIn!Absent.at = "none" /\ 0 \in 0..MaxSignIns
        BY BoundsAreNumbers DEF SignIn!Absent, ArrivalTypes, Stages
    <2>3. Arriving /\ TokenPending = {} /\ UserPending = {}
        BY <2>1, <2>2 DEF Arriving, HoldsRows, TokenPending, UserPending
    <2>4. DOMAIN tokens = {} /\ RowTypes
        <3>1. <<>> \in Seq(users \cup {None}) /\ Len(<<>>) = 0 /\ 1..0 = {}
            OBVIOUS
        <3>2. <<>> \in [{} -> users \cup {None}] /\ DOMAIN <<>> = {}
            BY <3>1
        <3> QED BY <2>1, <3>2 DEF RowTypes
    <2>5. Numbered({}, {}, 0)
        <3>1. {} = 1..0 /\ 0 + 0 <= 0
            OBVIOUS
        <3> QED BY <3>1, FS_EmptySet DEF Numbered
    <2>6. /\ Numbered(DOMAIN tokens, TokenPending, signIns)
          /\ Numbered(users, UserPending, signIns)
        BY <2>1, <2>3, <2>4, <2>5
    <2> QED BY <2>1, <2>2, <2>3, <2>4, <2>6 DEF SignInTyped
<1>2. SignInTyped /\ [Next]_serviceVars => SignInTyped'
    <2> SUFFICES ASSUME SignInTyped, [Next]_serviceVars PROVE SignInTyped'
        OBVIOUS
    <2>1. SignIn!Next \/ UNCHANGED signInVars
        BY EachTakesItsOwnSteps
    <2>2. CASE UNCHANGED signInVars
        <3>1. /\ UNCHANGED <<users, signIns>> /\ DOMAIN tokens' = DOMAIN tokens
              /\ TokenPending' = TokenPending /\ UserPending' = UserPending
            BY <2>2 DEF signInVars, TokenPending, UserPending
        <3>2. Arriving' /\ RowTypes'
            BY <2>2 DEF signInVars, SignInTyped, Arriving, HoldsRows, RowTypes
        <3> QED BY <3>1, <3>2, SameRows
    <2>3. CASE SignIn!Next
        BY <2>3, VerifyTyped, FindTokenTyped, MissTokenTyped, SaveTokenTyped, FindUserTyped,
           MissUserTyped, SaveUserTyped, SaveProfileTyped, FailTyped, LinkTyped DEF SignIn!Next
    <2> QED BY <2>1, <2>2, <2>3
<1>3. SignInTyped => SignIn!TypeOK
    <2> SUFFICES ASSUME SignInTyped PROVE SignIn!TypeOK
        OBVIOUS
    <2>1. /\ users \subseteq 1..MaxSignIns /\ DOMAIN tokens \subseteq 1..MaxSignIns
        BY RowNumbers
    <2>2. request \in [Arrivals -> [at: {"none", "token", "newToken", "user", "newUser", "profile"},
                                    token: 0..MaxSignIns, user: 0..MaxSignIns]]
        BY DEF SignInTyped, Arriving, ArrivalTypes, Stages
    <2> QED BY <2>1, <2>2 DEF SignInTyped, RowTypes, SignIn!TypeOK
<1> QED BY <1>1, <1>2, <1>3, PTL DEF Spec
-----------------------------------------------------------------------------
(* The maps of URLs. *)

UrlsTyped ==
    /\ UrlInv
    /\ service \in {"crawled", "moderated", "detected", None}
    /\ busy \subseteq Urls /\ unsafe \subseteq Urls /\ cold \in BOOLEAN
    /\ work \in 0..MaxWork

LEMMA UrlTypesHold == Spec => []Caches!TypeOK
<1>1. Init => UrlsTyped
    <2> SUFFICES ASSUME Caches!Init PROVE UrlsTyped
        BY DEF Init
    <2>1. service = None /\ busy = {} /\ unsafe = {} /\ cold = TRUE /\ work \in 0..MaxWork
        BY BoundsAreNumbers DEF Caches!Init
    <2> QED BY <2>1, UrlInit DEF UrlsTyped
<1>2. UrlsTyped /\ [Next]_serviceVars => UrlsTyped'
    <2> SUFFICES ASSUME UrlsTyped, [Next]_serviceVars PROVE UrlsTyped'
        OBVIOUS
    <2>1. UrlInv' /\ (Caches!Next \/ UNCHANGED urlVars)
        BY UrlStep, EachTakesItsOwnSteps DEF UrlsTyped
    <2>2. UrlTypes /\ Caches!Map(known) \subseteq Urls /\ Caches!Map(saved) \subseteq Urls
        BY MapOfSet DEF UrlsTyped, UrlInv, UrlTypes
    <2> DEFINE Goal == /\ service' \in {"crawled", "moderated", "detected", None}
                       /\ busy' \subseteq Urls /\ unsafe' \subseteq Urls /\ cold' \in BOOLEAN
                       /\ work' \in 0..MaxWork
    <2>3. ASSUME UNCHANGED urlVars PROVE Goal
        BY <2>3 DEF UrlsTyped, urlVars
    <2>4. ASSUME NEW s \in {"crawled", "moderated", "detected"}, Caches!Begin(s) PROVE Goal
        BY <2>4 DEF UrlsTyped, Caches!Begin
    <2>5. ASSUME NEW c \in Calls, NEW url \in Urls, Caches!Ask(c, url) PROVE Goal
        <3>1. work < MaxWork /\ work' = work + 1 /\ UNCHANGED <<service, busy, cold, unsafe>>
            BY <2>5 DEF Caches!Ask
        <3> QED BY <3>1, BoundsAreNumbers DEF UrlsTyped
    <2>6. ASSUME NEW c \in Calls, Caches!Find(c) PROVE Goal
        <3>1. /\ call[c].at = "reading" /\ busy' \subseteq busy \cup {call[c].url}
              /\ cold' = FALSE /\ UNCHANGED <<service, work, unsafe>>
            BY <2>6 DEF Caches!Find
        <3>2. call[c].url \in Urls
            BY <2>2, <3>1 DEF UrlTypes
        <3> QED BY <3>1, <3>2 DEF UrlsTyped
    <2>7. ASSUME NEW c \in Calls, Caches!Answered(c) PROVE Goal
        <3>1. /\ call[c].at = "working" /\ busy' \subseteq busy
              /\ unsafe' \subseteq unsafe \cup {call[c].url}
              /\ UNCHANGED <<service, work, cold>>
            BY <2>7 DEF Caches!Answered, Caches!Frees
        <3>2. call[c].url \in Urls
            BY <2>2, <3>1 DEF UrlTypes
        <3> QED BY <3>1, <3>2 DEF UrlsTyped
    <2>8. ASSUME NEW c \in Calls, Caches!Fails(c) PROVE Goal
        <3>1. /\ busy' \subseteq busy /\ unsafe' \subseteq unsafe \cup Caches!Map(known)
              /\ UNCHANGED <<service, work, cold>>
            BY <2>8 DEF Caches!Fails, Caches!Frees
        <3> QED BY <2>2, <3>1 DEF UrlsTyped
    <2>9. ASSUME NEW c \in Calls, Caches!List(c) \/ Caches!Listed(c) PROVE Goal
        BY <2>9 DEF UrlsTyped, Caches!List, Caches!Listed
    <2>10. ASSUME NEW c \in Calls, NEW left, known # None, Caches!Keep(c, left), busy' \subseteq busy
           PROVE  Goal
        <3>1. /\ unsafe' \subseteq unsafe \cup Caches!Map(known) \cup Caches!Map(saved)
              /\ cold' = FALSE /\ UNCHANGED <<service, work>>
            BY <2>10 DEF Caches!Keep, Caches!Taken, Caches!Map
        <3> QED BY <2>2, <2>10, <3>1 DEF UrlsTyped
    <2>11. ASSUME NEW c \in Calls, NEW url \in Urls, Caches!Delete(c, url) PROVE Goal
        <3>1. Caches!Keep(c, known \ {url}) /\ busy' \subseteq busy /\ known # None
            BY <2>11 DEF Caches!Delete
        <3> QED BY <2>10, <3>1
    <2>12. ASSUME NEW c \in Calls, Caches!DeleteBulk(c) PROVE Goal
        <3>1. PICK labelled \in SUBSET known : Caches!Keep(c, labelled)
            BY <2>12 DEF Caches!DeleteBulk
        <3>2. busy' \subseteq busy /\ known # None
            BY <2>12 DEF Caches!DeleteBulk
        <3> QED BY <2>10, <3>1, <3>2
    <2>13. ASSUME Caches!Restart PROVE Goal
        <3>1. /\ work < MaxWork /\ work' = work + 1 /\ busy' = {} /\ unsafe' = {}
              /\ cold' = TRUE /\ service' = service
            BY <2>13 DEF Caches!Restart
        <3> QED BY <3>1, BoundsAreNumbers DEF UrlsTyped
    <2>14. Goal
        <3> HIDE DEF Goal
        <3> QED BY <2>1, <2>3, <2>4, <2>5, <2>6, <2>7, <2>8, <2>9, <2>11, <2>12, <2>13 DEF Caches!Next
    <2> QED BY <2>1, <2>14 DEF UrlsTyped
<1>3. UrlsTyped => Caches!TypeOK
    <2> SUFFICES ASSUME UrlsTyped PROVE Caches!TypeOK
        OBVIOUS
    <2>1. \A m \in {known, saved} : m = None \/ m \subseteq Urls
        BY MapIs DEF UrlsTyped, UrlInv, UrlTypes
    <2>2. \A c \in Calls : call[c].at \in {"none", "reading", "listing", "working"}
        BY DEF UrlsTyped, UrlInv, UrlTypes
    <2> QED BY <2>1, <2>2 DEF UrlsTyped, Caches!TypeOK
<1> QED BY <1>1, <1>2, <1>3, PTL DEF Spec
-----------------------------------------------------------------------------
(* The copy of a table. *)

UpTo(n) == {i \in Ids : i <= n}

\* A run has counted no more rows than there are up to where it is.
CountedOK ==
    run # None =>
        IF Copy!UseKeyset THEN run.offset <= Cardinality(UpTo(run.lastSeen))
                          ELSE run.offset <= Cardinality(Copy!Held(source))

CopyTyped ==
    /\ CopyInv
    /\ source \in Copy!Table /\ target \in Copy!Table
    /\ sequence \in Ids \cup {0}
    /\ now \in 0..MaxCopyTime /\ changes \in 0..MaxChanges /\ runs \in 0..MaxRuns
    /\ {first, covered} \subseteq 0..MaxCopyTime \cup {None}
    /\ run \in Copy!Run \cup {None}
    /\ CountedOK

LEMMA CopyBounds ==
    /\ MaxCopyTime \in Nat /\ MaxChanges \in Nat /\ MaxRuns \in Nat
    /\ IsFiniteSet(Ids) /\ Cardinality(Ids) \in Nat
    /\ \A S \in SUBSET Ids : /\ IsFiniteSet(S) /\ Cardinality(S) \in Nat
                             /\ Cardinality(S) <= Cardinality(Ids)
                             /\ S \in SUBSET Nat
    /\ \A S : Copy!Cardinality(S) = Cardinality(S)
    /\ None \notin Copy!Run
<1>1. IsFiniteSet(Ids) /\ Ids \in SUBSET Nat
    BY ServicesOK DEF ServicesOK, CopyOK
<1>2. \A S \in SUBSET Ids : /\ IsFiniteSet(S) /\ Cardinality(S) \in Nat
                            /\ Cardinality(S) <= Cardinality(Ids)
                            /\ S \in SUBSET Nat
    BY <1>1, FS_Subset, FS_CardinalityType
<1>3. \A S : Copy!Cardinality(S) = Cardinality(S)
    BY DEF Copy!Cardinality, Cardinality
<1>4. None \notin Copy!Run
    <2>1. SUFFICES ASSUME None \in Copy!Run PROVE FALSE
        OBVIOUS
    <2>2. Copy!Row \subseteq CopyRows
        BY BoundsAreNumbers DEF Copy!Row, CopyRows
    <2>3. Copy!Table \subseteq CopyTables
        BY <2>2 DEF Copy!Table, CopyTables
    <2>4. /\ None.lastSeen \in Ids \cup {0} /\ None.offset \in 0..Copy!Cardinality(Ids)
          /\ None.since \in 0..MaxCopyTime /\ None.start \in 0..MaxCopyTime
          /\ None.rows \in CopyTables /\ None.mode \in {"full", "delta"}
        BY <2>1, <2>3 DEF Copy!Run
    <2>5. /\ None.lastSeen \in Nat /\ None.offset \in Nat /\ None.since \in Nat /\ None.start \in Nat
        <3>1. Copy!Cardinality(Ids) \in Nat
            BY <1>1, <1>3, FS_CardinalityType
        <3>2. None.offset \in Nat
            BY <2>4, <3>1
        <3>3. \A x \in Ids \cup {0} : x \in Nat
            BY IdsAreNumbers
        <3>4. None.lastSeen \in Nat
            BY <2>4, <3>3
        <3>5. MaxCopyTime \in Nat
            BY BoundsAreNumbers
        <3>6. None.since \in Nat /\ None.start \in Nat
            BY <2>4, <3>5
        <3> QED BY <3>2, <3>4, <3>6
    <2>6. None \in [mode: {"full", "delta"}, since: Nat, start: Nat, lastSeen: Nat, offset: Nat,
                    rows: CopyTables]
        BY <2>1, <2>4, <2>5 DEF Copy!Run
    <2> QED BY <2>6, NoneIsNoRow
<1> QED BY <1>1, <1>2, <1>3, <1>4, FS_CardinalityType, BoundsAreNumbers

LEMMA RunParts ==
    ASSUME CopyTyped, run # None
    PROVE  /\ run \in Copy!Run /\ run.mode \in {"full", "delta"}
           /\ run.since \in 0..MaxCopyTime /\ run.start \in 0..MaxCopyTime
           /\ run.lastSeen \in Ids \cup {0} /\ run.offset \in 0..Cardinality(Ids)
           /\ run.rows \in Copy!Table
           /\ first # None /\ kind # None
<1>1. run \in Copy!Run
    BY DEF CopyTyped
<1>2. first # None /\ kind # None
    BY DEF CopyTyped, CopyInv, RunsInOrder
<1> QED BY <1>1, <1>2, CopyBounds DEF Copy!Run

\* What a page counts fits between what was counted and all there is.
LEMMA KeysetCounts ==
    ASSUME CopyTyped, run # None, Copy!UseKeyset, Copy!Page(run) # {}
    PROVE  /\ Copy!Max(Copy!Page(run)) \in Ids
           /\ run.offset + Cardinality(Copy!Page(run))
                 <= Cardinality(UpTo(Copy!Max(Copy!Page(run))))
           /\ Cardinality(Copy!Page(run)) \in Nat
<1> DEFINE page == Copy!Page(run)
           m == Copy!Max(page)
           before == UpTo(run.lastSeen)
<1>1. /\ page \in SUBSET Copy!Held(source) /\ Copy!Held(source) \in SUBSET Ids
      /\ \A i \in page : i > run.lastSeen
    BY CopyFacts DEF CopyTyped, Copy!Page, Copy!Slice, Copy!Changed
<1>2. page \in SUBSET Ids /\ before \in SUBSET Ids /\ UpTo(m) \in SUBSET Ids
    BY <1>1 DEF UpTo
<1>3. run.offset \in Nat /\ run.lastSeen \in Nat /\ run.offset <= Cardinality(before)
    BY CopyFacts DEF CopyTyped, CountedOK
<1> HIDE DEF page, before
<1>4. /\ page \in SUBSET Nat /\ IsFiniteSet(page) /\ Cardinality(page) \in Nat
      /\ IsFiniteSet(before) /\ Cardinality(before) \in Nat
      /\ IsFiniteSet(UpTo(m)) /\ Cardinality(UpTo(m)) \in Nat
    BY <1>2, CopyBounds
<1>5. m \in page /\ m \in Nat /\ \A x \in page : x <= m
    BY <1>4, MaxIs DEF page
<1> HIDE DEF m
<1>6. page \cap before = {}
    <2> SUFFICES ASSUME NEW i \in page, i \in before PROVE FALSE
        OBVIOUS
    <2>1. i \in Nat /\ i > run.lastSeen
        BY <1>1, <1>4
    <2>2. i <= run.lastSeen
        BY DEF UpTo, before
    <2> QED BY <1>3, <2>1, <2>2
<1>7. page \cup before \in SUBSET UpTo(m)
    <2>1. \A i \in before : i \in Ids /\ i \in Nat /\ i <= run.lastSeen
        BY <1>2, IdsAreNumbers DEF before, UpTo
    <2>2. run.lastSeen < m
        BY <1>1, <1>3, <1>5
    <2>3. \A i \in before : i <= m
        BY <1>3, <1>5, <2>1, <2>2
    <2> QED BY <1>2, <1>5, <2>1, <2>3 DEF UpTo
<1>8. Cardinality(page \cup before) = Cardinality(page) + Cardinality(before)
    <2>1. Cardinality(page \cup before)
              = Cardinality(page) + Cardinality(before) - Cardinality(page \cap before)
        BY <1>4, FS_Union
    <2>2. Cardinality(page \cap before) = 0
        BY <1>6, FS_EmptySet
    <2> QED BY <1>4, <2>1, <2>2
<1>9. Cardinality(page \cup before) <= Cardinality(UpTo(m))
    BY <1>4, <1>7, FS_Subset
<1>10. run.offset + Cardinality(page) <= Cardinality(UpTo(m))
    BY <1>3, <1>4, <1>8, <1>9
<1> QED BY <1>2, <1>4, <1>5, <1>10 DEF page, m

LEMMA OffsetCounts ==
    ASSUME CopyTyped, run # None, ~Copy!UseKeyset
    PROVE  /\ run.offset + Cardinality(Copy!Page(run)) <= Cardinality(Copy!Held(source))
           /\ Cardinality(Copy!Page(run)) \in Nat
<1> DEFINE page == Copy!Page(run)
           all == Copy!Held(source)
           place == [i \in page |-> Copy!Rank(i, all)]
           room == run.offset..(Cardinality(all) - 1)
<1>1. /\ all \in SUBSET Ids /\ page = Copy!Slice(all, run.offset, CopyBatch)
    BY CopyFacts, CountedPageIs DEF CopyTyped, Copy!Page
<1>2. page \in SUBSET all /\ \A i \in page : run.offset <= Copy!Rank(i, all)
    BY <1>1 DEF Copy!Slice
<1>3. run.offset \in Nat /\ run.offset <= Cardinality(all)
    BY CopyFacts DEF CopyTyped, CountedOK
<1> HIDE DEF page, all
<1>4. /\ all \in SUBSET Nat /\ IsFiniteSet(all) /\ Cardinality(all) \in Nat
      /\ page \in SUBSET Ids /\ IsFiniteSet(page) /\ Cardinality(page) \in Nat
    BY <1>1, <1>2, CopyBounds
<1>5. ASSUME NEW i \in page PROVE Copy!Rank(i, all) \in room
    <2>1. i \in Nat /\ i \in all
        BY <1>2, <1>4
    <2>2. /\ Copy!Rank(i, all) = Cardinality({j \in all : j < i}) /\ Copy!Rank(i, all) \in Nat
        BY <1>4, <2>1, RankIs
    <2>3. {j \in all : j < i} \in SUBSET (all \ {i}) /\ IsFiniteSet(all \ {i})
          /\ Cardinality(all \ {i}) = Cardinality(all) - 1
        BY <1>4, <2>1, FS_RemoveElement
    <2>4. Cardinality({j \in all : j < i}) <= Cardinality(all) - 1
        BY <2>3, FS_Subset
    <2> QED BY <1>2, <1>3, <1>4, <2>2, <2>4
<1>6. ASSUME NEW i \in page, NEW j \in page, Copy!Rank(i, all) = Copy!Rank(j, all) PROVE i = j
    <2>1. i \in all /\ j \in all /\ i \in Nat /\ j \in Nat
        BY <1>2, <1>4
    <2>2. Copy!Rank(i, all) \in Nat /\ Copy!Rank(j, all) \in Nat
        BY <1>4, <2>1, RankIs
    <2>3. ~(i < j) /\ ~(j < i)
        BY <1>4, <1>6, <2>1, <2>2, RankGrows
    <2> QED BY <2>1, <2>3
<1>7. place \in Injection(page, room)
    <2> HIDE DEF room
    <2> QED BY <1>5, <1>6 DEF Injection, IsInjective
<1>8. /\ IsFiniteSet(room) /\ Cardinality(room) = Cardinality(all) - run.offset
    <2>0. run.offset \in Int /\ Cardinality(all) - 1 \in Int
        BY <1>3, <1>4
    <2>1. IsFiniteSet(room) /\ Cardinality(room)
              = IF run.offset > Cardinality(all) - 1 THEN 0
                ELSE (Cardinality(all) - 1) - run.offset + 1
        BY ONLY <2>0, FS_Interval
    <2> HIDE DEF room
    <2> QED BY <1>3, <1>4, <2>1
<1>9. Cardinality(page) <= Cardinality(room)
    <2> HIDE DEF room, place
    <2> QED BY <1>7, <1>8, FS_Injection
<1>10. run.offset + Cardinality(page) <= Cardinality(all)
    <2> HIDE DEF room
    <2> QED BY <1>3, <1>4, <1>8, <1>9
<1> QED BY <1>4, <1>10 DEF page, all

\* A step of the source, or of time, beside a run.
LEMMA RunWaits ==
    ASSUME CopyTyped, UNCHANGED <<run, kind>>, Copy!Held(source) \subseteq Copy!Held(source'),
           Copy!Held(source') \in SUBSET Ids
    PROVE  CountedOK'
<1>1. Cardinality(Copy!Held(source)) <= Cardinality(Copy!Held(source'))
    BY CopyBounds, FS_Subset
<1>2. /\ Cardinality(Copy!Held(source)) \in Nat /\ Cardinality(Copy!Held(source')) \in Nat
    BY CopyBounds
<1>3. run # None => run.offset \in Nat
    BY CopyFacts DEF CopyTyped
<1>4. Copy!UseKeyset' <=> Copy!UseKeyset
    BY DEF Copy!UseKeyset
<1>5. Copy!Held(source)' = Copy!Held(source')
    BY DEF Copy!Held
<1>6. ASSUME run' # None, Copy!UseKeyset'
      PROVE  run'.offset <= Cardinality(UpTo(run.lastSeen))'
    BY <1>4, <1>6 DEF CopyTyped, CountedOK, UpTo
<1>7. ASSUME run' # None, ~Copy!UseKeyset'
      PROVE  run'.offset <= Cardinality(Copy!Held(source'))
    <2>1. run.offset <= Cardinality(Copy!Held(source))
        BY <1>4, <1>7 DEF CopyTyped, CountedOK
    <2> QED BY <1>1, <1>2, <1>3, <1>7, <2>1
<1> QED BY <1>5, <1>6, <1>7 DEF CountedOK

CopyRest ==
    /\ source \in Copy!Table /\ target \in Copy!Table
    /\ sequence \in Ids \cup {0}
    /\ now \in 0..MaxCopyTime /\ changes \in 0..MaxChanges /\ runs \in 0..MaxRuns
    /\ {first, covered} \subseteq 0..MaxCopyTime \cup {None}
    /\ run \in Copy!Run \cup {None}

LEMMA SourceChangeTyped ==
    ASSUME CopyTyped, NEW i \in Ids, Copy!SourceChange(i) PROVE CopyRest' /\ CountedOK'
<1> DEFINE new == [added |-> IF source[i] = None THEN now ELSE source[i].added,
                   at |-> now, change |-> changes']
<1>1. /\ changes < MaxChanges /\ changes' = changes + 1 /\ source' = [source EXCEPT ![i] = new]
      /\ UNCHANGED <<kind, target, sequence, now, run, runs, first, covered>>
    BY DEF Copy!SourceChange
<1>2. /\ changes' \in 1..MaxChanges /\ changes' \in 0..MaxChanges /\ now \in 0..MaxCopyTime
    BY <1>1, CopyBounds DEF CopyTyped
<1>3. source \in [Ids -> Copy!Row \cup {None}]
    BY DEF CopyTyped, Copy!Table
<1>4. source[i] # None => source[i].added \in 0..MaxCopyTime
    BY <1>3 DEF Copy!Row
<1>5. new \in Copy!Row
    BY <1>2, <1>4 DEF Copy!Row
<1>6. new # None
    <2>1. Copy!Row \subseteq CopyRows
        BY CopyBounds DEF Copy!Row, CopyRows
    <2> HIDE DEF new
    <2> QED BY <1>5, <2>1, NoneIsNoRow
<1> HIDE DEF new
<1>7. source' \in Copy!Table
    BY <1>1, <1>3, <1>5 DEF Copy!Table
<1>8. Copy!Held(source) \subseteq Copy!Held(source') /\ Copy!Held(source') \in SUBSET Ids
    BY <1>1, <1>3, <1>6 DEF Copy!Held
<1>9. CountedOK'
    BY <1>1, <1>8, RunWaits
<1> QED BY <1>1, <1>2, <1>7, <1>9 DEF CopyTyped, CopyRest

LEMMA BeginCopyTyped ==
    ASSUME CopyTyped, NEW mode \in {"full", "delta"}, NEW told \in 0..now, Copy!BeginCopy(mode, told)
    PROVE  CopyRest' /\ CountedOK'
<1>1. /\ runs < MaxRuns /\ runs' = runs + 1
      /\ run' = [mode |-> mode, since |-> told, start |-> now,
                 lastSeen |-> 0, offset |-> 0, rows |-> target]
      /\ first' = (IF first = None THEN now ELSE first)
      /\ UNCHANGED <<kind, source, target, sequence, now, changes, covered>>
    BY DEF Copy!BeginCopy
<1>2. /\ now \in 0..MaxCopyTime /\ told \in 0..MaxCopyTime /\ runs' \in 0..MaxRuns
      /\ 0 \in 0..Copy!Cardinality(Ids)
    BY <1>1, CopyBounds DEF CopyTyped
<1>3. run' \in Copy!Run
    BY <1>1, <1>2 DEF CopyTyped, Copy!Run
<1>4. run'.offset = 0
    BY <1>1
<1>5. /\ Cardinality(UpTo(run.lastSeen))' \in Nat /\ Cardinality(Copy!Held(source))' \in Nat
    <2>1. UpTo(run.lastSeen)' \in SUBSET Ids /\ Copy!Held(source)' \in SUBSET Ids
        BY DEF UpTo, Copy!Held
    <2> QED BY <2>1, CopyBounds
<1>6. CountedOK'
    BY <1>4, <1>5 DEF CountedOK
<1>7. {first', covered'} \subseteq 0..MaxCopyTime \cup {None}
    BY <1>1, <1>2 DEF CopyTyped
<1> QED BY <1>1, <1>2, <1>3, <1>6, <1>7 DEF CopyTyped, CopyRest

LEMMA CopyPageTyped == ASSUME CopyTyped, Copy!CopyPage PROVE CopyRest' /\ CountedOK'
<1> DEFINE page == Copy!Page(run)
           new == Copy!Inserted(run, page)
           m == Copy!Max(page)
           n == run.offset + Cardinality(page)
<1>1. /\ run # None /\ page # {}
      /\ run' = [run EXCEPT !.rows = new, !.lastSeen = m, !.offset = n]
      /\ target' = (IF Copy!Upserts(run) THEN target ELSE run'.rows)
      /\ UNCHANGED <<kind, source, sequence, now, changes, runs, first, covered>>
    BY CopyBounds DEF Copy!CopyPage
<1>2. /\ run \in Copy!Run /\ run.rows \in Copy!Table /\ run.lastSeen \in Ids \cup {0}
      /\ run.offset \in Nat /\ source \in Copy!Table
    BY <1>1, RunParts, CopyBounds DEF CopyTyped
<1>3. page \in SUBSET Copy!Held(source) /\ Copy!Held(source) \in SUBSET Ids
    BY <1>1, PageIs, CopyFacts DEF CopyTyped
<1>4. new \in Copy!Table
    BY <1>2 DEF Copy!Inserted, Copy!Table
<1>5. m \in Ids
    <2>1. /\ page \in SUBSET Ids /\ page \in SUBSET Nat /\ IsFiniteSet(page)
        BY <1>3, CopyBounds
    <2> HIDE DEF page
    <2>2. Copy!Max(page) \in page
        BY <1>1, <2>1, MaxIs
    <2> QED BY <2>1, <2>2
<1>6. /\ Copy!UseKeyset => n <= Cardinality(UpTo(m))
      /\ ~Copy!UseKeyset => n <= Cardinality(Copy!Held(source))
      /\ Cardinality(page) \in Nat
    BY <1>1, KeysetCounts, OffsetCounts
<1>7. UpTo(m) \in SUBSET Ids
    BY DEF UpTo
<1> HIDE DEF page, new, m
<1>8. n \in 0..Copy!Cardinality(Ids)
    <2>1. n \in Nat
        BY <1>2, <1>6
    <2>2. /\ Cardinality(UpTo(m)) <= Cardinality(Ids) /\ Cardinality(UpTo(m)) \in Nat
          /\ Cardinality(Copy!Held(source)) <= Cardinality(Ids)
          /\ Cardinality(Copy!Held(source)) \in Nat /\ Cardinality(Ids) \in Nat
          /\ Copy!Cardinality(Ids) = Cardinality(Ids)
        BY <1>3, <1>7, CopyBounds
    <2> HIDE DEF n
    <2> QED BY <1>6, <2>1, <2>2
<1> HIDE DEF n
<1>9. /\ run' \in Copy!Run /\ run'.rows = new /\ run'.lastSeen = m /\ run'.offset = n
    BY <1>1, <1>2, <1>4, <1>5, <1>8 DEF Copy!Run
<1>10. CountedOK'
    <2>1. Copy!UseKeyset' <=> Copy!UseKeyset
        BY <1>1 DEF Copy!UseKeyset
    <2>2. UpTo(run.lastSeen)' = UpTo(m) /\ Copy!Held(source)' = Copy!Held(source)
        BY <1>1, <1>9 DEF UpTo, Copy!Held
    <2> QED BY <1>6, <1>9, <2>1, <2>2 DEF CountedOK
<1>11. target' \in Copy!Table
    BY <1>1, <1>4, <1>9 DEF CopyTyped
<1> QED BY <1>1, <1>9, <1>10, <1>11 DEF CopyTyped, CopyRest

LEMMA FinishCopyTyped == ASSUME CopyTyped, Copy!FinishCopy PROVE CopyRest' /\ CountedOK'
<1>1. /\ run # None /\ target' = run.rows /\ covered' = Copy!Vouched /\ run' = None
      /\ sequence' = Copy!Max(Copy!Held(target') \cup {0})
      /\ UNCHANGED <<kind, source, now, changes, runs, first>>
    BY DEF Copy!FinishCopy
<1>2. run.rows \in Copy!Table /\ run.start \in 0..MaxCopyTime
    BY <1>1, RunParts
<1>3. Copy!Vouched \in {run.start, first, covered}
    BY DEF Copy!Vouched
<1>4. {first', covered'} \subseteq 0..MaxCopyTime \cup {None}
    BY <1>1, <1>2, <1>3 DEF CopyTyped
<1>5. sequence' \in Ids \cup {0}
    <2> DEFINE ids == Copy!Held(target') \cup {0}
    <2>1. Copy!Held(target') \in SUBSET Ids
        BY DEF Copy!Held
    <2>2. /\ ids \in SUBSET Nat /\ ids # {} /\ IsFiniteSet(ids) /\ ids \subseteq Ids \cup {0}
        BY <2>1, CopyBounds, FS_AddElement
    <2> HIDE DEF ids
    <2>3. Copy!Max(ids) \in ids
        BY <2>2, MaxIs
    <2> QED BY <1>1, <2>2, <2>3 DEF ids
<1> QED BY <1>1, <1>2, <1>4, <1>5 DEF CopyTyped, CopyRest, CountedOK

LEMMA CopyTypesHold == Spec => []Copy!TypeOK
<1>1. Init => CopyTyped
    <2> SUFFICES ASSUME Copy!Init PROVE CopyTyped
        BY DEF Init
    <2>1. /\ source = [i \in Ids |-> None] /\ target = source
          /\ sequence = 0 /\ now = 0 /\ changes = 0 /\ run = None /\ runs = 0
          /\ first = None /\ covered = None
        BY DEF Copy!Init
    <2>2. source \in Copy!Table /\ target \in Copy!Table
        BY <2>1 DEF Copy!Table
    <2> QED BY <2>1, <2>2, CopyStarts, CopyBounds DEF CopyTyped, CountedOK
<1>2. CopyTyped /\ [Next]_serviceVars => CopyTyped'
    <2> SUFFICES ASSUME CopyTyped, [Next]_serviceVars PROVE CopyTyped'
        OBVIOUS
    <2>1. CopyInv' /\ (Copy!Next \/ UNCHANGED copyVars)
        BY CopyStep, EachTakesItsOwnSteps DEF CopyTyped
    <2>2. Copy!Held(source) \in SUBSET Ids
        BY CopyFacts DEF CopyTyped
    <2>3. ASSUME UNCHANGED copyVars PROVE CopyRest' /\ CountedOK'
        <3>1. CountedOK'
            BY <2>2, <2>3, RunWaits DEF copyVars
        <3> QED BY <2>3, <3>1 DEF copyVars, CopyTyped, CopyRest
    <2>4. ASSUME NEW k \in {"dated", "plain", "pairs"}, Copy!Describe(k) PROVE CopyRest' /\ CountedOK'
        <3>1. /\ kind = None
              /\ UNCHANGED <<source, target, sequence, now, changes, run, runs, first, covered>>
            BY <2>4 DEF Copy!Describe
        <3>2. run = None
            BY <3>1, RunParts
        <3>3. CountedOK'
            BY <3>1, <3>2 DEF CountedOK
        <3> QED BY <3>1, <3>3 DEF CopyTyped, CopyRest
    <2>5. ASSUME Copy!TimePasses PROVE CopyRest' /\ CountedOK'
        <3>1. /\ now < MaxCopyTime /\ now' = now + 1
              /\ UNCHANGED <<kind, source, target, sequence, changes, run, runs, first, covered>>
            BY <2>5 DEF Copy!TimePasses
        <3>2. now' \in 0..MaxCopyTime
            BY <3>1, CopyBounds DEF CopyTyped
        <3>3. CountedOK'
            BY <2>2, <3>1, RunWaits
        <3> QED BY <3>1, <3>2, <3>3 DEF CopyTyped, CopyRest
    <2>6. ASSUME Copy!FailCopy PROVE CopyRest' /\ CountedOK'
        BY <2>6 DEF Copy!FailCopy, CopyTyped, CopyRest, CountedOK
    <2>7. CopyRest' /\ CountedOK'
        BY <2>1, <2>3, <2>4, <2>5, <2>6, SourceChangeTyped, BeginCopyTyped, CopyPageTyped,
           FinishCopyTyped DEF Copy!Next
    <2> QED BY <2>1, <2>7 DEF CopyTyped, CopyRest
<1>3. CopyTyped => Copy!TypeOK
    BY DEF CopyTyped, CopyInv, CopyTypes, Copy!TypeOK
<1> QED BY <1>1, <1>2, <1>3, PTL DEF Spec
-----------------------------------------------------------------------------
(* Every service. *)

\* Every variable of every service has its type: rows, requests, calls, runs
\* and counts stay what the code of each service makes of them, for any number
\* of them.
THEOREM TypesOfServices == Spec => []ServicesTypeOK
<1>1. Init => which \in Services \cup {None}
    BY DEF Init
<1>2. which \in Services \cup {None} /\ [Next]_serviceVars => (which \in Services \cup {None})'
    <2> SUFFICES ASSUME which \in Services \cup {None}, [Next]_serviceVars
                 PROVE  which' \in Services \cup {None}
        OBVIOUS
    <2>1. CASE UNCHANGED serviceVars
        BY <2>1 DEF serviceVars
    <2>2. CASE Next
        BY <2>2 DEF Next, Take, Rest
    <2> QED BY <2>1, <2>2
<1>3. /\ which \in Services \cup {None}
      /\ ChatU!TypeOK /\ ChatB!TypeOK /\ ChatM!TypeOK /\ Search!TypeOK /\ Embed!TypeOK
      /\ Ledger!TypeOK /\ Limit!TypeOK /\ React!TypeOK /\ SignIn!TypeOK /\ Caches!TypeOK
      /\ Market!TypeOK /\ Copy!TypeOK
      => ServicesTypeOK
    BY DEF ServicesTypeOK
<1>4. Spec => [](which \in Services \cup {None})
    BY <1>1, <1>2, PTL DEF Spec
<1> QED BY <1>3, <1>4, UserTypesHold, BanTypesHold, MessageTypesHold, SearchTypesHold,
           EmbeddingTypesHold, LedgerTypesHold, LimitTypesHold, ReactionTypesHold, SignInTypesHold,
           UrlTypesHold, MarketTypesHold, CopyTypesHold, PTL
=============================================================================
