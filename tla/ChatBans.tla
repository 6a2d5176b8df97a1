------------------------------ MODULE ChatBans ------------------------------
(***************************************************************************)
(* The bans of the chat (chat/store.ts banIP, chat/message_handler.ts      *)
(* text): an address is banned for a moment by each of its texts and for    *)
(* longer by an administrator, and every ban is ended by a timer that      *)
(* removes whichever ban the address has when it rings.                    *)
(***************************************************************************)
EXTENDS Naturals

CONSTANTS
    IPs,            \* addresses
    Frequency,      \* allowedChatFrequency, in ticks
    BanTimes,       \* the times an administrator bans for
    MaxDelay,       \* the longest delay setTimeout takes: 2^31 - 1 ms
    MaxTexts,       \* bound: texts in a behaviour
    MaxBans,        \* bound: bans by administrators, and restarts
    None

VARIABLES
    bans,           \* state.bannedUntil: the time left, and which ban it is
    alarms,         \* the setTimeouts of banIP
    since,          \* by address: time since its last text, up to Frequency
    overlapped,     \* by address: a ban by an administrator came since that text,
                    \* or an alarm of an earlier ban was still set then
    said,          \* counts up to MaxTexts
    harder          \* bans by administrators and restarts, up to MaxBans

chatBanVars == <<bans, alarms, since, overlapped, said, harder>>

\* Variant: the alarm is set for a tick too early.
DelayTooShort(t) == t - 1

\* setTimeout takes what it cannot hold for one millisecond.
Delay(t) == IF t > MaxDelay THEN 0 ELSE t

\* banIP: the ban replaces the one before it, whose alarm stays set.
Ban(ip, t) ==
    LET no == said + harder + 1 IN
    /\ bans' = [bans EXCEPT ![ip] = [left |-> t, no |-> no, whole |-> t <= MaxDelay]]
    /\ alarms' = alarms \cup {[ip |-> ip, left |-> Delay(t), no |-> no]}

AdminBan(ip, t) ==
    /\ harder < MaxBans
    /\ harder' = harder + 1
    /\ Ban(ip, t)
    /\ overlapped' = [overlapped EXCEPT ![ip] = TRUE]
    /\ UNCHANGED <<since, said>>

\* delete state.bannedUntil[ip], whichever ban is there by now.
AlarmRings(a) ==
    /\ a.left = 0
    /\ bans' = [bans EXCEPT ![a.ip] = None]
    /\ alarms' = alarms \ {a}
    /\ UNCHANGED <<since, overlapped, said, harder>>

Sooner(n) == IF n = 0 THEN 0 ELSE n - 1

\* Time passes; an alarm may ring late.
Tick ==
    /\ \/ alarms # {}
       \/ \E ip \in IPs : bans[ip] # None \/ since[ip] < Frequency
    /\ alarms' = {[a EXCEPT !.left = Sooner(@)] : a \in alarms}
    /\ bans' = [ip \in IPs |->
                   IF bans[ip] = None THEN None ELSE [bans[ip] EXCEPT !.left = Sooner(@)]]
    /\ since' = [ip \in IPs |-> IF since[ip] < Frequency THEN since[ip] + 1 ELSE Frequency]
    /\ UNCHANGED <<overlapped, said, harder>>
\* Variant: only what an administrator bans for is a ban.
BannedForLong(ip) == bans[ip] # None /\ bans[ip].left > Frequency

\* bannedUntil is asked for being there, not for its time.
Banned(ip) == bans[ip] # None

\* A text arrives: its address is banned for a moment before anything else is
\* looked at.
TextArrives(ip) ==
    /\ said < MaxTexts
    /\ ~Banned(ip)
    /\ said' = said + 1
    /\ Ban(ip, Frequency)
    /\ since' = [since EXCEPT ![ip] = 0]
    /\ overlapped' = [overlapped EXCEPT ![ip] = \E a \in alarms : a.ip = ip]
    /\ UNCHANGED harder

\* The process ends, and the bans with it.
Forget ==
    /\ harder < MaxBans
    /\ harder' = harder + 1
    /\ bans' = [ip \in IPs |-> None]
    /\ alarms' = {}
    /\ since' = [ip \in IPs |-> Frequency]
    /\ overlapped' = [ip \in IPs |-> FALSE]
    /\ UNCHANGED said
-----------------------------------------------------------------------------
Init ==
    /\ bans = [ip \in IPs |-> None]
    /\ alarms = {}
    /\ since = [ip \in IPs |-> Frequency]
    /\ overlapped = [ip \in IPs |-> FALSE]
    /\ said = 0
    /\ harder = 0

Next ==
    \/ \E ip \in IPs : TextArrives(ip) \/ \E t \in BanTimes : AdminBan(ip, t)
    \/ \E a \in alarms : AlarmRings(a)
    \/ Tick
    \/ Forget

Spec == Init /\ [][Next]_chatBanVars
-----------------------------------------------------------------------------
(* Properties. *)

\* Every variable has its type.
TypeOK ==
    /\ \A ip \in IPs : bans[ip] = None \/ bans[ip] \in [left: Nat, no: Nat, whole: BOOLEAN]
    /\ alarms \subseteq [ip: IPs, left: 0..MaxDelay, no: Nat]
    /\ since \in [IPs -> 0..Frequency]
    /\ overlapped \in [IPs -> BOOLEAN]
    /\ said \in 0..MaxTexts
    /\ harder \in 0..MaxBans

\* Two texts of one address are Frequency apart, whatever the order of their
\* checks and alarms: unless bans of the address overlapped, by which one alarm
\* ends the ban of another.
FarEnough ==
    \A ip \in IPs :
        TextArrives(ip) => since[ip] = Frequency \/ overlapped[ip]

TextsAreLimited == [][FarEnough]_chatBanVars

\* A ban lasts as long as the banned address was told: it ends early only by
\* the alarm of another ban of that address, by a time longer than an alarm can
\* wait, or with the process.
BansEndInTime ==
    \A ip \in IPs :
        bans[ip] # None /\ bans'[ip] = None =>
            \/ bans[ip].left = 0
            \/ ~bans[ip].whole
            \/ \E a \in alarms \ alarms' : a.ip = ip /\ a.no # bans[ip].no
            \/ Forget

BansLast == [][BansEndInTime]_chatBanVars
=============================================================================
