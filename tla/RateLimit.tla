------------------------------ MODULE RateLimit ------------------------------
(***************************************************************************)
(* The limit on requests (core/rate_limit.ts) and the counter it stands on *)
(* (incr of core/cache.ts): a count by window that the cache server raises *)
(* by itself and forgets two windows after its first request.  A command   *)
(* may wait for the connection, fail, or be the last before the end of the *)
(* process, between raising a count and telling it to expire.              *)
(***************************************************************************)
EXTENDS Naturals

CONSTANTS
    Requests,       \* bound: requests
    MaxAllowed,     \* limit
    WindowTicks,    \* windowSeconds
    MaxTime,        \* bound: ticks
    None, Done

VARIABLES
    clock,          \* ticks
    counters,       \* by window: the count, and its time to live or None
    asked,          \* by request: None, the window it was asked in, or Done
    raised,         \* requests whose count is raised and not yet told to expire
    passed,         \* by window: its requests let through by the count
    late            \* windows of which a count was raised a whole window late

limitVars == <<clock, counters, asked, raised, passed, late>>

Windows == 0..(MaxTime \div WindowTicks)

\* Variant: the count expires with a part of its window.
TooShortlyKept == 1

\* windowSeconds * 2
Kept == 2 * WindowTicks

UnderWay(r) == asked[r] \notin {None, Done}

Unused == [count |-> 0, left |-> None]

Expired(counter) == counter.left = 0

\* Time passes; what has expired is gone.
Pass ==
    LET next(c) == IF c.left = None THEN c ELSE [c EXCEPT !.left = @ - 1] IN
    /\ clock < MaxTime
    /\ clock' = clock + 1
    /\ counters' = [w \in Windows |->
           IF Expired(next(counters[w])) THEN Unused ELSE next(counters[w])]
    /\ UNCHANGED <<asked, raised, passed, late>>

\* rateLimit: the key is that of the window it is now.
Ask(r) ==
    /\ asked[r] = None
    /\ asked' = [asked EXCEPT ![r] = clock \div WindowTicks]
    /\ UNCHANGED <<clock, counters, raised, passed, late>>

\* incr: only the one that made the key will tell it to expire; the others know.
Raise(r) ==
    LET w == asked[r]
        next == counters[w].count + 1
    IN  /\ UnderWay(r)
        /\ r \notin raised
        /\ counters' = [counters EXCEPT ![w].count = next]
        /\ passed' = IF next <= MaxAllowed THEN [passed EXCEPT ![w] = @ + 1] ELSE passed
        /\ IF next = 1
           THEN raised' = raised \cup {r} /\ UNCHANGED asked
           ELSE asked' = [asked EXCEPT ![r] = Done] /\ UNCHANGED raised
        /\ late' = IF clock >= (w + 2) * WindowTicks THEN late \cup {w} ELSE late
        /\ UNCHANGED clock

Expire(r) ==
    /\ r \in raised
    /\ counters' = [counters EXCEPT ![asked[r]].left = Kept]
    /\ raised' = raised \ {r}
    /\ asked' = [asked EXCEPT ![r] = Done]
    /\ UNCHANGED <<clock, passed, late>>

\* Either command fails: the request passes all the same, and a count already
\* raised stays, for good if its key was not told to expire.
CacheFails(r) ==
    /\ UnderWay(r)
    /\ asked' = [asked EXCEPT ![r] = Done]
    /\ raised' = raised \ {r}
    /\ UNCHANGED <<clock, counters, passed, late>>
-----------------------------------------------------------------------------
Init ==
    /\ clock = 0
    /\ counters = [w \in Windows |-> Unused]
    /\ asked = [r \in Requests |-> None]
    /\ raised = {}
    /\ passed = [w \in Windows |-> 0]
    /\ late = {}

Next == Pass \/ \E r \in Requests : Ask(r) \/ Raise(r) \/ Expire(r) \/ CacheFails(r)

Spec == Init /\ [][Next]_limitVars
-----------------------------------------------------------------------------
(* Properties. *)

\* Every variable has its type.
TypeOK ==
    /\ clock \in 0..MaxTime
    /\ counters \in [Windows -> [count: Nat, left: 1..Kept \cup {None}]]
    /\ asked \in [Requests -> Windows \cup {None, Done}]
    /\ raised \subseteq Requests
    /\ passed \in [Windows -> Nat]
    /\ late \subseteq Windows

\* The count lets no more than limit requests of a window through, however they
\* interleave and whether or not its key was told to expire: unless one of them
\* reaches the cache server more than a window late, when the key may be gone.
WindowHolds == \A w \in Windows : passed[w] <= MaxAllowed \/ w \in late
=============================================================================
