----------------------------- MODULE MarketCache -----------------------------
(***************************************************************************)
(* Other sites' data, kept in the cache for a while                        *)
(* (services/market_info.ts, services/dashboard.ts): plain pages, some of  *)
(* which cron fetches again ahead of time (services/cron.ts), the market   *)
(* indices with the last good answer as their reserve, and NASDAQ's prices, *)
(* which need the list of its stocks first.  A value is the time at which  *)
(* its site answered.  A site may be slow, fail or answer nonsense; time   *)
(* passes at every await.                                                  *)
(***************************************************************************)
EXTENDS Integers

CONSTANTS
    Handlers,       \* requests, and the jobs of cron, under way at a time
    Pages,          \* pages kept without a reserve
    Forced,         \* the pages cron fetches in advance
    Short, Long,    \* ticks that figures, and that lists, are kept
    Day,            \* INDICES_LAST_GOOD_TTL
    MaxTime,        \* bound: ticks
    MaxCalls,       \* bound: requests and jobs
    None

VARIABLES
    minute,         \* ticks
    held,           \* by key: [born, left] of the value in the cache, or None
    reader,         \* by handler: what it stands at
    began,          \* requests and jobs so far
    newest          \* when the site last answered for the indices, or None

marketVars == <<minute, held, reader, began, newest>>

\* What may be asked for.
Asked == Pages \cup {"indices", "prices"}

Keys == Asked \cup {"lastGood", "stocks"}

\* Variant: the reserve is kept no longer than what it stands in for.
KeptAlike(key) == IF key \in {"symbols", "stocks"} THEN Long ELSE Short

\* The seconds given to cache.set.
Ttl(key) == CASE key = "lastGood" -> Day
              [] key \in {"symbols", "stocks"} -> Long
              [] OTHER -> Short

Rests == [at |-> "rest", key |-> None, born |-> None]

Value(key) == [born |-> minute, left |-> Ttl(key)]

\* A handler waits for a site to answer.
Fetches(key) == [at |-> "fetch", key |-> key, born |-> None]

\* It has answered with the value of that time, or refused (no value).
Answers(key, born) == [at |-> "answered", key |-> key, born |-> born]

Step(h, state) == reader' = [reader EXCEPT ![h] = state]

\* Time passes, and what is kept expires.
MinutePasses ==
    LET older(v) == IF v = None \/ v.left = 1 THEN None ELSE [v EXCEPT !.left = @ - 1] IN
    /\ minute < MaxTime
    /\ minute' = minute + 1
    /\ held' = [key \in Keys |-> older(held[key])]
    /\ UNCHANGED <<reader, began, newest>>

\* indices, symbols, markets, leaderboard, assetsIncludingMetal, nasdaq.markets
\* and main: what is stored is the answer; cron asks the site all the same.
AskFor(h, key, force) ==
    /\ reader[h].at = "rest"
    /\ began < MaxCalls
    /\ began' = began + 1
    /\ IF held[key] # None /\ ~force THEN Step(h, Answers(key, held[key].born))
       ELSE Step(h, IF key = "prices" THEN [Fetches(key) EXCEPT !.at = "list"] ELSE Fetches(key))
    /\ UNCHANGED <<minute, held, newest>>

\* nasdaq.symbols, called by nasdaq.markets: the stored list will do.
FindList(h) ==
    /\ reader[h].at = "list"
    /\ Step(h, IF held["stocks"] # None THEN Fetches("prices")
               ELSE [Fetches("prices") EXCEPT !.at = "fetchList"])
    /\ UNCHANGED <<minute, held, began, newest>>

ListAnswers(h) ==
    /\ reader[h].at = "fetchList"
    /\ held' = [held EXCEPT !["stocks"] = Value("stocks")]
    /\ Step(h, Fetches("prices"))
    /\ UNCHANGED <<minute, began, newest>>

\* The site answers: stored, indices twice, and answered.
SiteAnswers(h) ==
    LET key == reader[h].key
        stored == IF key = "indices" THEN {"indices", "lastGood"} ELSE {key}
    IN  /\ reader[h].at = "fetch"
        /\ held' = [k \in Keys |-> IF k \in stored THEN Value(k) ELSE held[k]]
        /\ newest' = IF key = "indices" THEN minute ELSE newest
        /\ Step(h, Answers(key, minute))
        /\ UNCHANGED <<minute, began>>

\* The site fails, or its answer is no use: refused, or indices look for the
\* last good answer.  The dashboard never fails: what it cannot get is left out.
SiteFails(h) ==
    /\ reader[h].at \in {"fetch", "fetchList"}
    /\ reader[h].key # "dashboard"
    /\ Step(h, IF reader[h].key = "indices" THEN [reader[h] EXCEPT !.at = "reserve"]
               ELSE Answers(reader[h].key, None))
    /\ UNCHANGED <<minute, held, began, newest>>

Reserve(h) ==
    LET last == held["lastGood"] IN
    /\ reader[h].at = "reserve"
    /\ Step(h, Answers("indices", IF last = None THEN None ELSE last.born))
    /\ UNCHANGED <<minute, held, began, newest>>

Leave(h) ==
    /\ reader[h].at = "answered"
    /\ Step(h, Rests)
    /\ UNCHANGED <<minute, held, began, newest>>
-----------------------------------------------------------------------------
Init ==
    /\ minute = 0
    /\ held = [key \in Keys |-> None]
    /\ reader = [h \in Handlers |-> Rests]
    /\ began = 0
    /\ newest = None

Next ==
    \/ MinutePasses
    \/ \E h \in Handlers :
          \/ \E key \in Asked : AskFor(h, key, FALSE)
          \/ \E key \in Forced : AskFor(h, key, TRUE)
          \/ FindList(h) \/ ListAnswers(h) \/ SiteAnswers(h) \/ SiteFails(h)
          \/ Reserve(h) \/ Leave(h)

Spec == Init /\ [][Next]_marketVars
-----------------------------------------------------------------------------
(* Properties. *)

\* Every variable has its type.
TypeOK ==
    /\ minute \in 0..MaxTime
    /\ held \in [Keys -> [born: Nat, left: Nat \ {0}] \cup {None}]
    /\ reader \in [Handlers -> [at: {"rest", "list", "fetchList", "fetch", "reserve", "answered"},
                                key: Asked \cup {None}, born: Nat \cup {None}]]
    /\ began \in 0..MaxCalls
    /\ newest \in Nat \cup {None}

\* A step in which handler h answers.
Ends(h) == reader[h].at # "answered" /\ reader'[h].at = "answered"

\* If its own request to the site fails, a request for the indices is answered
\* with the newest there are, whoever asked for those, and refused only when the
\* site has told nobody anything for a day.  Any other answer is no older than
\* its kind is kept: an old value only stands in for a failure.
IndicesStandIn ==
    [][\A h \in Handlers : Ends(h) =>
          LET born == reader'[h].born
              key == reader'[h].key
          IN  IF reader[h].at = "reserve"
              THEN IF newest # None /\ minute - newest < Day THEN born = newest ELSE born = None
              ELSE born # None => minute - born < Ttl(key)]_marketVars
=============================================================================
