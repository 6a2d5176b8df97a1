----------------------------- MODULE UpbitProxy -----------------------------
(***************************************************************************)
(* proxy_upbit/main.go: one WebSocket to Upbit shared by all clients.      *)
(*                                                                         *)
(* Each client has a goroutine that reads its subscriptions; whenever they *)
(* change, or the client goes, that goroutine takes the union of all       *)
(* clients' subscriptions, stores it in globalSubs and sends globalSubs to *)
(* Upbit.  Another goroutine keeps the connection and sends globalSubs     *)
(* after every dial.  A third hands out, every THROTTLING_MS, the latest   *)
(* message of each stream to the clients subscribed to it.                 *)
(*                                                                         *)
(* A step is what happens under one lock, together with taking clientsMu   *)
(* for the loop that follows: nothing that comes between would tell.       *)
(* clientsMu is held for reading over a whole loop, so connecting and      *)
(* leaving wait for those loops.                                           *)
(*                                                                         *)
(* Abstractions.  A stream is a type and a code; messages are numbered.    *)
(* Unreadable client messages, types without codes, and THROTTLING_MS = 0  *)
(* are left out, and every client goes on reading its socket.              *)
(***************************************************************************)
EXTENDS Naturals, FiniteSets

CONSTANTS
    Clients,
    Streams,
    Upbit,              \* the goroutine of connectToUpbit
    MaxChanges,         \* bound: what clients ask for, and their leaving
    MaxEvents,          \* bound: messages of Upbit and losses of its connection
    None

ASSUME ProxyConstantsOK ==
    /\ Upbit \notin Clients
    /\ {MaxChanges, MaxEvents} \subseteq Nat

VARIABLES
    clients,        \* the connected ones
    subs,           \* Client.Subs
    globalSubs,
    upbitConn,      \* the connection others are to write to
    line,           \* the connection there is, None when it is lost
    asked,          \* what Upbit has been asked for on that connection
    pc,             \* what each goroutine does next
    union,          \* newGlobalSubs of a recalculation
    todo,           \* the clients its loop has not come to yet
    conn,           \* the connection a goroutine has read from upbitConn
    latest,         \* latestData: number of the newest message, 0 for none
    snapshot,       \* what the broadcaster is handing out
    serving,        \* the clients its loop has not come to yet, None outside
    got,            \* the newest message each client was sent, by stream
    count,          \* counts up to the bounds
    overlapped      \* have two recalculations ever overlapped?

vars == <<clients, subs, globalSubs, upbitConn, line, asked, pc, union, todo, conn, latest,
          snapshot, serving, got, count, overlapped>>

upstream == <<upbitConn, line, asked>>
downstream == <<latest, snapshot, serving, got>>
merging == <<union, todo, overlapped>>
-----------------------------------------------------------------------------
Goroutines == Clients \cup {Upbit}

Nothing == [k \in Streams |-> 0]

\* Variant: the broadcaster goes through the clients without the lock.
UnreadByMerges == \A g \in Clients : pc[g] # "gather"

\* clientsMu is free of readers.
Unread == serving = None /\ \A g \in Clients : pc[g] # "gather"

Goes(g, where) == pc' = [pc EXCEPT ![g] = where]

Changes ==
    /\ count.changes < MaxChanges
    /\ count' = [count EXCEPT !.changes = @ + 1]

\* Upbit sends a message, or its connection is lost.
Happens(what) ==
    /\ count.drops + count.messages < MaxEvents
    /\ count' = [count EXCEPT ![what] = @ + 1]

Merging(g) == pc[g] \in {"gather", "store"}

\* recalculateGlobalSubscriptions begins: clientsMu is held for reading.
Recalculates(c, among) ==
    /\ Goes(c, IF among = {} THEN "store" ELSE "gather")
    /\ todo' = [todo EXCEPT ![c] = among]
    /\ overlapped' = (overlapped \/ \E d \in Clients \ {c} : Merging(d))
    /\ UNCHANGED union
-----------------------------------------------------------------------------
(* handleClientConnection. *)

Connect(c) ==
    /\ pc[c] = "gone" /\ Unread
    /\ clients' = clients \cup {c}
    /\ Goes(c, "reading")
    /\ UNCHANGED <<subs, globalSubs, upstream, conn, downstream, merging, count>>

\* What a client asks for replaces what it had asked for.
Subscribe(c, S) ==
    /\ pc[c] = "reading"
    /\ Changes
    /\ subs' = [subs EXCEPT ![c] = S]
    /\ Recalculates(c, clients)
    /\ UNCHANGED <<clients, globalSubs, upstream, conn, downstream>>

\* The connection is closed.  Nobody sees the Client any more.
Leave(c) ==
    /\ pc[c] = "reading" /\ Unread
    /\ Changes
    /\ clients' = clients \ {c}
    /\ subs' = [subs EXCEPT ![c] = {}]
    /\ got' = [got EXCEPT ![c] = Nothing]
    /\ Recalculates(c, clients')
    /\ UNCHANGED <<globalSubs, upstream, conn, latest, snapshot, serving>>
-----------------------------------------------------------------------------
(* recalculateGlobalSubscriptions: the loop, each client under its own     *)
(* lock, and the store.                                                    *)

Gather(c, d) ==
    /\ pc[c] = "gather" /\ d \in todo[c]
    /\ union' = [union EXCEPT ![c] = @ \cup subs[d]]
    /\ todo' = [todo EXCEPT ![c] = @ \ {d}]
    /\ Goes(c, IF todo[c] = {d} THEN "store" ELSE "gather")
    /\ UNCHANGED <<clients, subs, globalSubs, upstream, conn, downstream, count, overlapped>>

\* Variant: what was there before is kept.
StoredWithOld(c) == globalSubs \cup union[c]

Stored(c) == union[c]

Store(c) ==
    /\ pc[c] = "store"
    /\ globalSubs' = Stored(c)
    /\ union' = [union EXCEPT ![c] = {}]
    /\ Goes(c, "peek")
    /\ UNCHANGED <<clients, subs, upstream, conn, downstream, count, todo, overlapped>>
-----------------------------------------------------------------------------
(* sendGlobalSubscriptionsToUpbit: the connection is read under one lock,  *)
(* globalSubs sent under another.                                          *)

Finished(g) ==
    Goes(g, IF g = Upbit \/ g \in clients THEN "reading" ELSE "gone")

Peek(g) ==
    /\ pc[g] = "peek"
    /\ conn' = [conn EXCEPT ![g] = upbitConn]
    /\ IF upbitConn = None THEN Finished(g) ELSE Goes(g, "send")
    /\ UNCHANGED <<clients, subs, globalSubs, upstream, downstream, count, merging>>

\* Nothing is sent when there is nothing to ask for.  On a connection that is
\* lost the write fails, which is logged.
Send(g) ==
    /\ pc[g] = "send"
    /\ asked' = IF conn[g] = line /\ globalSubs # {} THEN globalSubs ELSE asked
    /\ conn' = [conn EXCEPT ![g] = None]
    /\ Finished(g)
    /\ UNCHANGED <<clients, subs, globalSubs, upbitConn, line, downstream, count, merging>>
-----------------------------------------------------------------------------
(* connectToUpbit. *)

\* Variant: the subscriptions are left to the clients.
NotSent == "reading"

AfterDial == "peek"

Dial ==
    /\ pc[Upbit] = "dialing"
    /\ line' = count.drops
    /\ asked' = {}
    /\ conn' = [conn EXCEPT ![Upbit] = count.drops]
    /\ Goes(Upbit, "dialed")
    /\ UNCHANGED <<clients, subs, globalSubs, upbitConn, downstream, count, merging>>

Dialed ==
    /\ pc[Upbit] = "dialed"
    /\ upbitConn' = conn[Upbit]
    /\ Goes(Upbit, AfterDial)
    /\ UNCHANGED <<clients, subs, globalSubs, line, asked, conn, downstream, count, merging>>

\* Upbit or the network closes the connection, at any moment.  A connection is
\* known by the number of those lost before it.
Drop ==
    /\ line # None
    /\ Happens("drops")
    /\ line' = None /\ asked' = {}
    /\ UNCHANGED <<clients, subs, globalSubs, upbitConn, pc, conn, downstream, merging>>

\* ReadMessage returns an error.
ReadFails ==
    /\ pc[Upbit] = "reading" /\ line = None
    /\ upbitConn' = None
    /\ Goes(Upbit, "dialing")
    /\ UNCHANGED <<clients, subs, globalSubs, line, asked, conn, downstream, count, merging>>

\* Variant: a message pushes out those of the other streams.
BufferedAlone(k, n) == [Nothing EXCEPT ![k] = n]

Buffered(k, n) == [latest EXCEPT ![k] = n]

\* Upbit sends a message of a stream it was asked for: processUpbitMessage.
Message(k) ==
    /\ pc[Upbit] = "reading" /\ k \in asked
    /\ Happens("messages")
    /\ latest' = Buffered(k, count.messages + 1)
    /\ UNCHANGED <<clients, subs, globalSubs, upstream, pc, conn, snapshot, serving, got, merging>>
-----------------------------------------------------------------------------
(* throttledBroadcaster. *)

Take ==
    /\ snapshot = Nothing /\ latest # Nothing
    /\ snapshot' = latest
    /\ latest' = Nothing
    /\ UNCHANGED <<clients, subs, globalSubs, upstream, pc, conn, serving, got, count, merging>>

Serve ==
    /\ snapshot # Nothing /\ serving = None
    /\ serving' = clients
    /\ UNCHANGED <<clients, subs, globalSubs, upstream, pc, conn, latest, snapshot, got, count, merging>>

Deliver(c) ==
    /\ serving # None /\ c \in serving
    /\ got' = [got EXCEPT ![c] = [k \in Streams |->
                  IF k \in subs[c] /\ snapshot[k] # 0 THEN snapshot[k] ELSE @[k]]]
    /\ serving' = serving \ {c}
    /\ UNCHANGED <<clients, subs, globalSubs, upstream, pc, conn, latest, snapshot, count, merging>>

Served ==
    /\ serving = {}
    /\ serving' = None /\ snapshot' = Nothing
    /\ UNCHANGED <<clients, subs, globalSubs, upstream, pc, conn, latest, got, count, merging>>
-----------------------------------------------------------------------------
Init ==
    /\ clients = {}
    /\ subs = [c \in Clients |-> {}]
    /\ globalSubs = {}
    /\ upbitConn = None /\ line = None /\ asked = {}
    /\ pc = [g \in Goroutines |-> IF g = Upbit THEN "dialing" ELSE "gone"]
    /\ union = [c \in Clients |-> {}]
    /\ todo = [c \in Clients |-> {}]
    /\ conn = [g \in Goroutines |-> None]
    /\ latest = Nothing /\ snapshot = Nothing /\ serving = None
    /\ got = [c \in Clients |-> Nothing]
    /\ count = [changes |-> 0, drops |-> 0, messages |-> 0]
    /\ overlapped = FALSE

ClientStep(c) ==
    \/ Store(c) \/ Peek(c) \/ Send(c)
    \/ \E d \in Clients : Gather(c, d)

UpbitStep == Dial \/ Dialed \/ Peek(Upbit) \/ Send(Upbit) \/ ReadFails

BroadcasterStep == Take \/ Serve \/ Served \/ \E c \in Clients : Deliver(c)

Next ==
    \/ \E c \in Clients :
          \/ Connect(c) \/ Leave(c) \/ ClientStep(c)
          \/ \E S \in SUBSET Streams : Subscribe(c, S)
    \/ UpbitStep \/ Drop \/ \E k \in Streams : Message(k)
    \/ BroadcasterStep

Spec == Init /\ [][Next]_vars

\* Every goroutine goes on; clients come and go as they please.
Fairness ==
    /\ \A c \in Clients : WF_vars(ClientStep(c))
    /\ WF_vars(UpbitStep)
    /\ WF_vars(BroadcasterStep)

FairSpec == Spec /\ Fairness
-----------------------------------------------------------------------------
(* Properties. *)

\* Every variable has its type, and a client is registered as long as its
\* goroutine has not left.
TypeOK ==
    /\ clients \subseteq Clients
    /\ \A c \in Clients : pc[c] = "reading" => c \in clients
    /\ subs \in [Clients -> SUBSET Streams]
    /\ {globalSubs, asked} \subseteq SUBSET Streams
    /\ {upbitConn, line} \subseteq 0..MaxEvents \cup {None}
    /\ union \in [Clients -> SUBSET Streams]
    /\ todo \in [Clients -> SUBSET Clients]
    /\ conn \in [Goroutines -> 0..MaxEvents \cup {None}]
    /\ {latest, snapshot} \subseteq [Streams -> 0..MaxEvents]
    /\ serving = None \/ serving \subseteq clients
    /\ got \in [Clients -> [Streams -> 0..MaxEvents]]

\* Nobody is on the way to Upbit with a change.
Calm == \A g \in Goroutines : pc[g] \notin {"dialed", "peek", "send"}

\* Upbit has been asked for globalSubs as it is now, however recalculations,
\* lost connections and redials have overlapped.
AskedForGlobal ==
    Calm /\ line # None /\ upbitConn = line /\ globalSubs # {} => asked = globalSubs

Merged == UNION {subs[c] : c \in clients}

\* globalSubs is the union of what the clients want - unless recalculations
\* overlapped.
UnionIsMerged ==
    ~overlapped /\ (\A c \in Clients : ~Merging(c)) => globalSubs = Merged

\* The latest message of a stream reaches every client that is subscribed to it
\* when it comes and stays so, or a later one does.
Arrives(c, k) ==
    \A n \in 1..MaxEvents :
        (latest[k] = n /\ c \in clients /\ k \in subs[c]) ~>
            (got[c][k] >= n \/ c \notin clients \/ k \notin subs[c])

LatestArrives == \A c \in Clients, k \in Streams : Arrives(c, k)
-----------------------------------------------------------------------------
(* What a comment of the code says, and the code does not do. *)

\* main.go: the subscriptions of all connected clients are merged.
UnionOfAll == (\A c \in Clients : ~Merging(c)) => globalSubs = Merged
=============================================================================
