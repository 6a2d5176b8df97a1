------------------------------- MODULE AiLedger -------------------------------
(***************************************************************************)
(* What AI calls cost (services/ai_usage.ts), the daily limit answers keep *)
(* to (allWithLLM of services/post.ts) and the nightly roll-up of the      *)
(* records (services/cron.ts).                                             *)
(*                                                                         *)
(* An answer costs one unit, the limit is Cap units.  Only the tasks that  *)
(* count towards the limit are modelled.  Days are UTC days, of the        *)
(* database and of the server alike.                                       *)
(***************************************************************************)
EXTENDS Naturals, FiniteSets

CONSTANTS
    Requests,       \* requests for answers under way at once
    Cap,            \* DAILY_COST_CAP_MICROS, in answers
    Retention,      \* prune: days a record is kept, 90
    MaxDay,         \* bound: days after the first
    MaxAnswers      \* bound: answers of a day

VARIABLES
    day,            \* today
    raw,            \* by day: what the rows of ai_usage still add up to
    daily,          \* by day: the row of ai_usage_daily, or nothing
    recorded,       \* by day: what was ever recorded that day
    asking,         \* by request: "idle", "allowed" or "calling"
    started,        \* answers asked of the model today
    unseen,         \* of those, the ones the limit did not see: let through
                    \* because the sum could not be read, or never recorded
    ledgerFolded    \* days whose roll-up has succeeded on the day after

ledgerVars ==
    <<day, raw, daily, recorded, asking, started, unseen, ledgerFolded>>

Days == 0..MaxDay

\* What stands for the row of a day that has none: more than any sum.
NoRow == MaxAnswers + Cardinality(Requests) + 1
-----------------------------------------------------------------------------
(* Answers. *)

\* Variant: what was spent is read from the daily table.
SpentByDaily == IF daily[day] = NoRow THEN 0 ELSE daily[day]

\* aggregate(utcDay()), and cappedCostMicros of it.
Spent == raw[day]

\* The posts have been found: is today's limit reached?
CheckCap(r) ==
    /\ asking[r] = "idle"
    /\ Spent < Cap
    /\ asking' = [asking EXCEPT ![r] = "allowed"]
    /\ UNCHANGED <<day, raw, daily, recorded, started, unseen, ledgerFolded>>

\* generateContent: the day is that of the call.
Starts(r, through) ==
    /\ started < MaxAnswers
    /\ asking' = [asking EXCEPT ![r] = "calling"]
    /\ started' = started + 1
    /\ unseen' = IF through THEN unseen + 1 ELSE unseen
    /\ UNCHANGED <<day, raw, daily, recorded, ledgerFolded>>

Call(r) == asking[r] = "allowed" /\ Starts(r, FALSE)

\* The sum cannot be read: the limit is passed over.
CallUnchecked(r) == asking[r] = "idle" /\ Starts(r, TRUE)

Record(r) ==
    /\ asking[r] = "calling"
    /\ asking' = [asking EXCEPT ![r] = "idle"]
    /\ raw' = [raw EXCEPT ![day] = @ + 1]
    /\ recorded' = [recorded EXCEPT ![day] = @ + 1]
    /\ UNCHANGED <<day, daily, started, unseen, ledgerFolded>>

\* The insert fails, or the process ends first: nothing is thrown.
RecordFails(r) ==
    /\ asking[r] = "calling"
    /\ asking' = [asking EXCEPT ![r] = "idle"]
    /\ unseen' = unseen + 1
    /\ UNCHANGED <<day, raw, daily, recorded, started, ledgerFolded>>

\* Midnight: calls under way will be recorded on the new day, and a request
\* that passed the check of the old one calls on the new.
Midnight ==
    /\ day < MaxDay
    /\ day' = day + 1
    /\ started' = 0
    /\ unseen' = 0
    /\ UNCHANGED <<raw, daily, recorded, asking, ledgerFolded>>
-----------------------------------------------------------------------------
(* The nightly job: at the start of every process and every 24 hours. *)

\* Variant: a roll-up adds to the row there is.
AddedTo(d) == IF daily[d] = NoRow THEN raw[d] ELSE daily[d] + raw[d]

\* upsertDaily: the row is overwritten.
Folded(d) == raw[d]

\* rollup of yesterday; without rows nothing is written.
RollUp(ok) ==
    IF ok /\ day > 0
    THEN /\ daily' = IF raw[day - 1] = 0 THEN daily
                     ELSE [daily EXCEPT ![day - 1] = Folded(day - 1)]
         /\ ledgerFolded' = ledgerFolded \cup {day - 1}
    ELSE UNCHANGED <<daily, ledgerFolded>>

\* prune: rows older than 90 times 24 hours, so a part of the oldest day's.
Prune(ok) ==
    IF ok
    THEN \E kept \in 0..MaxAnswers :
            raw' = [d \in Days |->
                IF d + Retention < day THEN 0
                ELSE IF d + Retention = day /\ kept < raw[d] THEN kept ELSE raw[d]]
    ELSE UNCHANGED raw

\* Each part catches its own failure, and the next goes on.
Nightly ==
    /\ \E rolled, pruned \in BOOLEAN : RollUp(rolled) /\ Prune(pruned)
    /\ UNCHANGED <<day, recorded, asking, started, unseen>>
-----------------------------------------------------------------------------
Init ==
    /\ day = 0
    /\ raw = [d \in Days |-> 0]
    /\ daily = [d \in Days |-> NoRow]
    /\ recorded = [d \in Days |-> 0]
    /\ asking = [r \in Requests |-> "idle"]
    /\ started = 0
    /\ unseen = 0
    /\ ledgerFolded = {}

Next ==
    \/ \E r \in Requests :
          CheckCap(r) \/ Call(r) \/ CallUnchecked(r) \/ Record(r) \/ RecordFails(r)
    \/ Midnight
    \/ Nightly

Spec == Init /\ [][Next]_ledgerVars
-----------------------------------------------------------------------------
(* Properties. *)

Amounts == 0..(MaxAnswers + Cardinality(Requests))

\* Every variable has its type.
TypeOK ==
    /\ day \in Days
    /\ raw \in [Days -> Amounts] /\ recorded \in [Days -> Amounts]
    /\ daily \in [Days -> Amounts \cup {NoRow}]
    /\ asking \in [Requests -> {"idle", "allowed", "calling"}]
    /\ started \in 0..MaxAnswers /\ unseen \in Nat
    /\ ledgerFolded \subseteq Days

\* A day's answers pass the limit by no more than the requests under way at
\* once, whose calls the sum they read could not yet hold, and by the calls it
\* never held.
AnswersBounded ==
    started <= Cap - 1 + Cardinality(Requests) + unseen

\* What a past day cost is known for ever: from its row, and from the records
\* as long as they are kept; unless no roll-up succeeded on the day after it.
DaysRemembered ==
    \A d \in Days :
        /\ daily[d] \in {recorded[d], NoRow}
        /\ d \in ledgerFolded /\ recorded[d] > 0 => daily[d] = recorded[d]
        /\ d <= day /\ day < d + Retention => raw[d] = recorded[d]
=============================================================================
