--------------------------- MODULE UpbitProxyProofs ---------------------------
(***************************************************************************)
(* Theorems about UpbitProxy, for any number of clients and streams, and   *)
(* however often clients change what they want and connections are lost.   *)
(***************************************************************************)
EXTENDS UpbitProxy, TLAPS

\* Where goroutines can be, and what is counted.
PlacesOK ==
    /\ pc \in [Goroutines -> {"gone", "reading", "gather", "store", "peek", "send", "dialing", "dialed"}]
    /\ pc[Upbit] \in {"dialing", "dialed", "peek", "send", "reading"}
    /\ \A c \in Clients : pc[c] \notin {"dialing", "dialed"}
    /\ count \in [changes : Nat, drops : Nat, messages : Nat]
    /\ count.drops + count.messages <= MaxEvents
    /\ overlapped \in BOOLEAN

\* The connection there is has been published, or is about to be.
LineOK ==
    line # None =>
        \/ pc[Upbit] = "dialed" /\ conn[Upbit] = line
        \/ pc[Upbit] \in {"peek", "send", "reading"} /\ upbitConn = line

\* Goroutines that will still ask for globalSubs on that connection.
Asks(g) ==
    \/ pc[g] \in {"dialed", "peek"}
    \/ pc[g] = "send" /\ conn[g] = line

AskingOK ==
    line # None /\ globalSubs # {} => asked = globalSubs \/ \E g \in Goroutines : Asks(g)

\* What a recalculation has, and what it still has to look at.
Gathered(c) == union[c] \cup UNION {subs[d] : d \in todo[c]}

\* A recalculation begins with nothing, and clients that left want nothing.
MergingOK ==
    /\ \A c \in Clients : ~Merging(c) => union[c] = {}
    /\ \A c \in Clients : pc[c] = "gather" \/ todo[c] = {}
    /\ \A c \in Clients \ clients : subs[c] = {}

\* As long as none have overlapped, the only one there is will find what the
\* clients want; and when there is none, it is known.
UnionOK ==
    ~overlapped =>
        /\ \A c, d \in Clients : Merging(c) /\ Merging(d) => c = d
        /\ \A c \in Clients : Merging(c) => Gathered(c) = Merged
        /\ (\A c \in Clients : ~Merging(c)) => globalSubs = Merged

ProxyInv == TypeOK /\ PlacesOK /\ LineOK /\ AskingOK /\ MergingOK /\ UnionOK
-----------------------------------------------------------------------------
LEMMA ProxyInit == Init => ProxyInv
<1> SUFFICES ASSUME Init PROVE ProxyInv
    OBVIOUS
<1> USE ProxyConstantsOK
<1>1. TypeOK
    BY DEF Init, TypeOK, Nothing, Goroutines
<1>2. PlacesOK
    <2>1. /\ pc = [g \in Goroutines |-> IF g = Upbit THEN "dialing" ELSE "gone"]
          /\ Clients \subseteq Goroutines /\ Upbit \in Goroutines
        BY DEF Init, Goroutines
    <2>2. count = [changes |-> 0, drops |-> 0, messages |-> 0] /\ overlapped = FALSE
        BY DEF Init
    <2>3. pc[Upbit] = "dialing" /\ \A c \in Clients : pc[c] = "gone"
        BY <2>1
    <2>4. MaxEvents \in Nat
        OBVIOUS
    <2>5. overlapped \in BOOLEAN
        BY <2>2
    <2>6. /\ count \in [changes : Nat, drops : Nat, messages : Nat]
          /\ count.drops + count.messages <= MaxEvents
        BY <2>2, <2>4
    <2>7. pc \in [Goroutines -> {"gone", "reading", "gather", "store", "peek", "send", "dialing", "dialed"}]
        BY <2>1
    <2> QED BY <2>3, <2>5, <2>6, <2>7 DEF PlacesOK
<1>4. LineOK /\ AskingOK
    BY DEF Init, LineOK, AskingOK
<1>3. MergingOK /\ UnionOK
    BY DEF Init, MergingOK, UnionOK, Merging, Merged, Goroutines
<1> QED BY <1>1, <1>2, <1>3, <1>4 DEF ProxyInv
-----------------------------------------------------------------------------
(* Steps that leave the merging and the asking alone. *)

LEMMA MergingStays ==
    ASSUME ProxyInv, UNCHANGED <<clients, subs, globalSubs, union, todo, overlapped>>,
           \A c \in Clients : Merging(c)' = Merging(c),
           \A c \in Clients : pc'[c] = "gather" <=> pc[c] = "gather"
    PROVE  MergingOK' /\ UnionOK'
<1>1. Merged' = Merged
    BY DEF Merged
<1>2. \A c \in Clients : Gathered(c)' = Gathered(c)
    BY DEF Gathered
<1>3. MergingOK'
    BY DEF ProxyInv, MergingOK
<1>4. UnionOK'
    BY <1>1, <1>2 DEF ProxyInv, UnionOK
<1> QED BY <1>3, <1>4

LEMMA AskingStays ==
    ASSUME ProxyInv, UNCHANGED <<globalSubs, line, asked>>,
           \A g \in Goroutines : Asks(g) => Asks(g)'
    PROVE  AskingOK'
BY DEF ProxyInv, AskingOK

LEMMA BroadcastOK ==
    ASSUME ProxyInv, BroadcasterStep \/ \E k \in Streams : Message(k)
    PROVE  ProxyInv'
<1> USE ProxyConstantsOK
<1>1. UNCHANGED <<clients, subs, globalSubs, upstream, pc, conn, merging>>
    BY DEF BroadcasterStep, Take, Serve, Served, Deliver, Message
<1>2. PlacesOK' /\ count' \in [changes : Nat, drops : Nat, messages : Nat]
    BY <1>1 DEF BroadcasterStep, Take, Serve, Served, Deliver, Message, Happens,
                merging, ProxyInv, PlacesOK
<1>3. LineOK' /\ AskingOK'
    BY <1>1, AskingStays DEF upstream, ProxyInv, LineOK, Asks
<1>4. MergingOK' /\ UnionOK'
    BY <1>1, MergingStays DEF merging, Merging
<1>5. TypeOK'
    <2>1. CASE Take
        BY <1>1, <2>1 DEF Take, upstream, merging, Nothing, ProxyInv, TypeOK
    <2>2. CASE Serve
        BY <1>1, <2>2 DEF Serve, upstream, merging, ProxyInv, TypeOK
    <2>3. CASE Served
        BY <1>1, <2>3 DEF Served, upstream, merging, Nothing, ProxyInv, TypeOK
    <2>4. ASSUME NEW c \in Clients, Deliver(c) PROVE TypeOK'
        <3>1. snapshot \in [Streams -> 0..MaxEvents] /\ got \in [Clients -> [Streams -> 0..MaxEvents]]
            BY DEF ProxyInv, TypeOK
        <3>2. got' \in [Clients -> [Streams -> 0..MaxEvents]]
            BY <2>4, <3>1 DEF Deliver
        <3> QED BY <1>1, <2>4, <3>2 DEF Deliver, upstream, merging, ProxyInv, TypeOK
    <2>5. ASSUME NEW k \in Streams, Message(k) PROVE TypeOK'
        <3>1. count.messages + 1 \in 0..MaxEvents
            BY <2>5 DEF Message, Happens, ProxyInv, PlacesOK
        <3>2. latest' \in [Streams -> 0..MaxEvents]
            BY <2>5, <3>1 DEF Message, Buffered, ProxyInv, TypeOK
        <3> QED BY <1>1, <2>5, <3>2 DEF Message, upstream, merging, ProxyInv, TypeOK
    <2> QED BY <2>1, <2>2, <2>3, <2>4, <2>5 DEF BroadcasterStep
<1> QED BY <1>2, <1>3, <1>4, <1>5 DEF ProxyInv
-----------------------------------------------------------------------------
(* The goroutine of connectToUpbit. *)

LEMMA DropOK == ASSUME ProxyInv, Drop PROVE ProxyInv'
<1>1. /\ UNCHANGED <<clients, subs, globalSubs, upbitConn, pc, conn, downstream, merging>>
      /\ line' = None /\ asked' = {}
    BY DEF Drop
<1>2. /\ count' = [count EXCEPT !.drops = @ + 1]
      /\ count.drops + count.messages < MaxEvents
    BY DEF Drop, Happens
<1>3. PlacesOK'
    BY <1>1, <1>2, ProxyConstantsOK DEF merging, ProxyInv, PlacesOK
<1>4. LineOK' /\ AskingOK'
    BY <1>1 DEF LineOK, AskingOK
<1>5. MergingOK' /\ UnionOK'
    BY <1>1, MergingStays DEF merging, Merging
<1>6. TypeOK'
    BY <1>1 DEF downstream, merging, ProxyInv, TypeOK
<1> QED BY <1>3, <1>4, <1>5, <1>6 DEF ProxyInv

\* A goroutine that goes from one place outside a recalculation to another.
LEMMA Moves ==
    ASSUME ProxyInv, NEW g \in Goroutines, NEW where, Goes(g, where),
           where \in {"gone", "reading", "peek", "send", "dialing", "dialed"},
           g = Upbit => where # "gone", g # Upbit => where \notin {"dialing", "dialed"},
           where = "reading" => g = Upbit \/ g \in clients,
           pc[g] \in {"gone", "reading", "peek", "send", "dialing", "dialed"},
           UNCHANGED <<clients, subs, globalSubs, downstream, count, merging>>
    PROVE  /\ PlacesOK' /\ MergingOK' /\ UnionOK'
           /\ pc'[g] = where /\ \A h \in Goroutines \ {g} : pc'[h] = pc[h]
           /\ \A c \in Clients : pc'[c] = "reading" => c \in clients'
<1>1. pc' = [pc EXCEPT ![g] = where] /\ Upbit \in Goroutines /\ Upbit \notin Clients
    BY ProxyConstantsOK DEF Goes, Goroutines
<1>2. /\ pc'[g] = where /\ \A h \in Goroutines \ {g} : pc'[h] = pc[h]
      /\ Clients \subseteq Goroutines
    BY <1>1 DEF Goroutines, ProxyInv, PlacesOK
<1>3. PlacesOK'
    BY <1>1, <1>2 DEF merging, Goroutines, ProxyInv, PlacesOK
<1>4. MergingOK' /\ UnionOK'
    BY <1>2, MergingStays DEF merging, Merging
<1>5. \A c \in Clients : pc'[c] = "reading" => c \in clients'
    BY <1>1, <1>2 DEF ProxyInv, TypeOK
<1> QED BY <1>2, <1>3, <1>4, <1>5

LEMMA DialOK == ASSUME ProxyInv, Dial PROVE ProxyInv'
<1>1. /\ pc[Upbit] = "dialing" /\ Goes(Upbit, "dialed") /\ Upbit \in Goroutines
      /\ line' = count.drops /\ conn' = [conn EXCEPT ![Upbit] = count.drops] /\ asked' = {}
      /\ UNCHANGED <<clients, subs, globalSubs, upbitConn, downstream, count, merging>>
    BY DEF Dial, Goroutines
<1>2. /\ PlacesOK' /\ MergingOK' /\ UnionOK' /\ pc'[Upbit] = "dialed"
      /\ \A c \in Clients : pc'[c] = "reading" => c \in clients'
    BY <1>1, Moves
<1>3. count.drops \in 0..MaxEvents
    BY ProxyConstantsOK DEF ProxyInv, PlacesOK
<1>4. TypeOK'
    <2>1. conn' \in [Goroutines -> 0..MaxEvents \cup {None}]
        BY <1>1, <1>3 DEF ProxyInv, TypeOK
    <2> QED BY <1>1, <1>2, <1>3, <2>1 DEF downstream, merging, ProxyInv, TypeOK
<1>5. LineOK' /\ AskingOK'
    BY <1>1, <1>2 DEF LineOK, AskingOK, Asks, ProxyInv, TypeOK
<1> QED BY <1>2, <1>4, <1>5 DEF ProxyInv

LEMMA DialedOK == ASSUME ProxyInv, Dialed PROVE ProxyInv'
<1>1. /\ pc[Upbit] = "dialed" /\ Goes(Upbit, "peek") /\ Upbit \in Goroutines
      /\ upbitConn' = conn[Upbit]
      /\ UNCHANGED <<clients, subs, globalSubs, line, asked, conn, downstream, count, merging>>
    BY DEF Dialed, AfterDial, Goroutines
<1>2. /\ PlacesOK' /\ MergingOK' /\ UnionOK' /\ pc'[Upbit] = "peek"
      /\ \A c \in Clients : pc'[c] = "reading" => c \in clients'
    BY <1>1, Moves
<1>3. TypeOK'
    BY <1>1, <1>2 DEF downstream, merging, ProxyInv, TypeOK
<1>4. LineOK' /\ AskingOK'
    BY <1>1, <1>2 DEF LineOK, AskingOK, Asks, ProxyInv
<1> QED BY <1>2, <1>3, <1>4 DEF ProxyInv

LEMMA ReadFailsOK == ASSUME ProxyInv, ReadFails PROVE ProxyInv'
<1>1. /\ pc[Upbit] = "reading" /\ Goes(Upbit, "dialing") /\ Upbit \in Goroutines
      /\ line = None /\ upbitConn' = None
      /\ UNCHANGED <<clients, subs, globalSubs, line, asked, conn, downstream, count, merging>>
    BY DEF ReadFails, Goroutines
<1>2. /\ PlacesOK' /\ MergingOK' /\ UnionOK'
      /\ \A c \in Clients : pc'[c] = "reading" => c \in clients'
    BY <1>1, Moves
<1>3. TypeOK'
    BY <1>1, <1>2 DEF downstream, merging, ProxyInv, TypeOK
<1>4. LineOK' /\ AskingOK'
    BY <1>1 DEF LineOK, AskingOK
<1> QED BY <1>2, <1>3, <1>4 DEF ProxyInv
-----------------------------------------------------------------------------
(* sendGlobalSubscriptionsToUpbit. *)

\* Where Finished leaves a goroutine.
LEMMA FinishedGoes ==
    ASSUME NEW g \in Goroutines, Finished(g)
    PROVE  \E where \in {"reading", "gone"} :
              /\ Goes(g, where)
              /\ where = "reading" <=> g = Upbit \/ g \in clients
BY DEF Finished

LEMMA PeekOK == ASSUME ProxyInv, NEW g \in Goroutines, Peek(g) PROVE ProxyInv'
<1>1. /\ pc[g] = "peek" /\ conn' = [conn EXCEPT ![g] = upbitConn]
      /\ UNCHANGED <<clients, subs, globalSubs, upbitConn, line, asked, downstream, count, merging>>
    BY DEF Peek, upstream
<1>2. PICK where \in {"reading", "gone", "send"} :
          /\ Goes(g, where)
          /\ where = "send" <=> upbitConn # None
          /\ where = "reading" => g = Upbit \/ g \in clients
          /\ g = Upbit => where # "gone"
    BY FinishedGoes DEF Peek
<1>3. /\ PlacesOK' /\ MergingOK' /\ UnionOK'
      /\ pc'[g] = where /\ \A h \in Goroutines \ {g} : pc'[h] = pc[h]
      /\ \A c \in Clients : pc'[c] = "reading" => c \in clients'
    BY <1>1, <1>2, Moves
<1>4. /\ conn'[g] = upbitConn /\ \A h \in Goroutines \ {g} : conn'[h] = conn[h]
      /\ conn' \in [Goroutines -> 0..MaxEvents \cup {None}]
    BY <1>1 DEF ProxyInv, TypeOK
<1>5. TypeOK'
    BY <1>1, <1>3, <1>4 DEF downstream, merging, ProxyInv, TypeOK
<1>6. LineOK'
    BY <1>1, <1>2, <1>3, <1>4 DEF Goroutines, ProxyInv, LineOK
<1>7. AskingOK'
    <2> SUFFICES ASSUME line # None, globalSubs # {}, asked # globalSubs
                 PROVE  \E h \in Goroutines : Asks(h)'
        BY <1>1 DEF AskingOK
    <2>1. CASE upbitConn = line
        <3>1. pc'[g] = "send" /\ conn'[g] = line'
            BY <1>1, <1>2, <1>3, <1>4, <2>1
        <3> QED BY <3>1 DEF Asks
    <2>2. CASE upbitConn # line
        <3>1. pc[Upbit] = "dialed" /\ Upbit \in Goroutines
            BY <2>2 DEF Goroutines, ProxyInv, LineOK
        <3>2. Upbit # g
            BY <1>1, <3>1
        <3>3. pc'[Upbit] = "dialed"
            BY <1>3, <3>1, <3>2
        <3> QED BY <3>1, <3>3 DEF Asks
    <2> QED BY <2>1, <2>2
<1> QED BY <1>3, <1>5, <1>6, <1>7 DEF ProxyInv

LEMMA SendOK == ASSUME ProxyInv, NEW g \in Goroutines, Send(g) PROVE ProxyInv'
<1>1. /\ pc[g] = "send" /\ conn' = [conn EXCEPT ![g] = None]
      /\ asked' = IF conn[g] = line /\ globalSubs # {} THEN globalSubs ELSE asked
      /\ UNCHANGED <<clients, subs, globalSubs, upbitConn, line, downstream, count, merging>>
    BY DEF Send
<1>2. PICK where \in {"reading", "gone"} :
          /\ Goes(g, where)
          /\ where = "reading" => g = Upbit \/ g \in clients
          /\ g = Upbit => where # "gone"
    BY FinishedGoes DEF Send
<1>3. /\ PlacesOK' /\ MergingOK' /\ UnionOK'
      /\ pc'[g] = where /\ \A h \in Goroutines \ {g} : pc'[h] = pc[h]
      /\ \A c \in Clients : pc'[c] = "reading" => c \in clients'
    BY <1>1, <1>2, Moves
<1>4. /\ \A h \in Goroutines \ {g} : conn'[h] = conn[h]
      /\ conn' \in [Goroutines -> 0..MaxEvents \cup {None}]
    BY <1>1 DEF ProxyInv, TypeOK
<1>5. TypeOK'
    BY <1>1, <1>3, <1>4 DEF downstream, merging, ProxyInv, TypeOK
<1>6. LineOK'
    BY <1>1, <1>2, <1>3, <1>4 DEF Goroutines, ProxyInv, LineOK
<1>7. AskingOK'
    <2> SUFFICES ASSUME line # None, globalSubs # {}, asked' # globalSubs
                 PROVE  \E h \in Goroutines : Asks(h)'
        BY <1>1 DEF AskingOK
    <2>1. asked = asked' /\ conn[g] # line
        BY <1>1
    <2>2. PICK h \in Goroutines : Asks(h)
        BY <2>1 DEF ProxyInv, AskingOK
    <2>3. h # g
        BY <1>1, <2>1, <2>2 DEF Asks
    <2> QED BY <1>1, <1>3, <1>4, <2>2, <2>3 DEF Asks
<1> QED BY <1>3, <1>5, <1>6, <1>7 DEF ProxyInv
-----------------------------------------------------------------------------
(* handleClientConnection. *)

\* A recalculation begins for client c, who wants something else than before
\* or is no longer there: what the others want is as it was.
LEMMA RecalculatesOK ==
    ASSUME ProxyInv, NEW c \in Clients, NEW among \in SUBSET Clients,
           pc[c] = "reading", Recalculates(c, among), clients' = among,
           subs' \in [Clients -> SUBSET Streams],
           \A d \in Clients \ clients' : subs'[d] = {}
    PROVE  /\ PlacesOK' <=> count' \in [changes : Nat, drops : Nat, messages : Nat]
                            /\ count'.drops + count'.messages <= MaxEvents
           /\ MergingOK' /\ UnionOK'
           /\ todo' \in [Clients -> SUBSET Clients]
           /\ pc'[c] \in {"gather", "store"} /\ \A g \in Goroutines \ {c} : pc'[g] = pc[g]
<1>1. /\ pc' = [pc EXCEPT ![c] = IF among = {} THEN "store" ELSE "gather"]
      /\ todo' = [todo EXCEPT ![c] = among] /\ union' = union
      /\ overlapped' = (overlapped \/ \E d \in Clients \ {c} : Merging(d))
    BY DEF Recalculates, Goes
<1>2. c # Upbit /\ c \in Goroutines /\ Clients \subseteq Goroutines
    BY ProxyConstantsOK DEF Goroutines
<1>3. /\ pc'[c] = IF among = {} THEN "store" ELSE "gather"
      /\ \A g \in Goroutines \ {c} : pc'[g] = pc[g]
      /\ todo'[c] = among /\ \A d \in Clients \ {c} : todo'[d] = todo[d]
      /\ todo' \in [Clients -> SUBSET Clients]
    BY <1>1, <1>2 DEF ProxyInv, PlacesOK, TypeOK
<1>4. union[c] = {}
    BY DEF ProxyInv, MergingOK, Merging
<1>5. MergingOK'
    <2>1. \A d \in Clients : ~Merging(d)' => union'[d] = {}
        BY <1>1, <1>2, <1>3, <1>4 DEF Merging, ProxyInv, MergingOK
    <2>2. \A d \in Clients : pc'[d] = "gather" \/ todo'[d] = {}
        BY <1>2, <1>3 DEF ProxyInv, MergingOK
    <2> QED BY <2>1, <2>2 DEF MergingOK
<1>6. UnionOK'
    <2> SUFFICES ASSUME ~overlapped'
                 PROVE  /\ \A b, d \in Clients : Merging(b)' /\ Merging(d)' => b = d
                        /\ \A d \in Clients : Merging(d)' => Gathered(d)' = Merged'
                        /\ (\A d \in Clients : ~Merging(d)') => globalSubs' = Merged'
        BY DEF UnionOK
    <2>1. \A d \in Clients : Merging(d)' => d = c
        BY <1>1, <1>2, <1>3 DEF Merging
    <2>2. Merging(c)'
        BY <1>3 DEF Merging
    <2>3. Gathered(c)' = Merged'
        BY <1>1, <1>3, <1>4 DEF Gathered, Merged
    <2> QED BY <2>1, <2>2, <2>3
<1>7. /\ pc' \in [Goroutines -> {"gone", "reading", "gather", "store", "peek", "send", "dialing", "dialed"}]
      /\ pc'[Upbit] \in {"dialing", "dialed", "peek", "send", "reading"}
      /\ \A d \in Clients : pc'[d] \notin {"dialing", "dialed"}
    BY <1>1, <1>2, <1>3 DEF Goroutines, ProxyInv, PlacesOK
<1>8. overlapped' \in BOOLEAN
    BY <1>1 DEF ProxyInv, PlacesOK
<1> QED BY <1>3, <1>5, <1>6, <1>7, <1>8 DEF PlacesOK

\* What goroutine c does between reading and asking tells nobody else.
LEMMA ClientAsking ==
    ASSUME ProxyInv, NEW c \in Clients, pc[c] \notin {"peek", "send"},
           UNCHANGED <<globalSubs, upstream, conn>>,
           \A g \in Goroutines \ {c} : pc'[g] = pc[g]
    PROVE  LineOK' /\ AskingOK'
<1>1. c # Upbit /\ Upbit \in Goroutines
    BY ProxyConstantsOK DEF Goroutines
<1>2. LineOK'
    BY <1>1 DEF upstream, ProxyInv, LineOK
<1>3. \A g \in Goroutines : Asks(g) => Asks(g)'
    <2>1. pc[c] # "dialed"
        BY DEF ProxyInv, PlacesOK
    <2> QED BY <2>1 DEF Asks, upstream
<1>4. AskingOK'
    BY <1>3, AskingStays DEF upstream
<1> QED BY <1>2, <1>4

LEMMA ConnectOK == ASSUME ProxyInv, NEW c \in Clients, Connect(c) PROVE ProxyInv'
<1>1. /\ pc[c] = "gone" /\ pc' = [pc EXCEPT ![c] = "reading"] /\ clients' = clients \cup {c}
      /\ UNCHANGED <<subs, globalSubs, upstream, conn, downstream, merging, count>>
      /\ c # Upbit /\ c \in Goroutines /\ Clients \subseteq Goroutines
    BY ProxyConstantsOK DEF Connect, Goes, Goroutines
<1>2. pc'[c] = "reading" /\ \A g \in Goroutines \ {c} : pc'[g] = pc[g]
    BY <1>1 DEF ProxyInv, PlacesOK
<1>3. PlacesOK'
    BY <1>1, <1>2 DEF merging, Goroutines, ProxyInv, PlacesOK
<1>4. LineOK' /\ AskingOK'
    BY <1>1, <1>2, ClientAsking
<1>5. TypeOK'
    BY <1>1, <1>2 DEF upstream, downstream, merging, ProxyInv, TypeOK
<1>6. /\ \A d \in Clients : Merging(d)' = Merging(d)
      /\ \A d \in Clients : pc'[d] = "gather" <=> pc[d] = "gather"
    BY <1>1, <1>2 DEF Merging
<1>7. MergingOK'
    BY <1>1, <1>6 DEF merging, ProxyInv, MergingOK
<1>8. UnionOK'
    <2>1. Merged' = Merged
        <3>1. c \notin clients => subs[c] = {}
            BY DEF ProxyInv, MergingOK
        <3> QED BY <1>1, <3>1 DEF Merged
    <2>2. \A d \in Clients : Gathered(d)' = Gathered(d)
        BY <1>1 DEF merging, Gathered
    <2> QED BY <1>1, <1>6, <2>1, <2>2 DEF merging, ProxyInv, UnionOK
<1> QED BY <1>3, <1>4, <1>5, <1>7, <1>8 DEF ProxyInv

LEMMA SubscribeOK ==
    ASSUME ProxyInv, NEW c \in Clients, NEW S \in SUBSET Streams, Subscribe(c, S)
    PROVE  ProxyInv'
<1>1. /\ pc[c] = "reading" /\ subs' = [subs EXCEPT ![c] = S] /\ Recalculates(c, clients)
      /\ count' = [count EXCEPT !.changes = @ + 1]
      /\ UNCHANGED <<clients, globalSubs, upstream, conn, downstream>>
    BY DEF Subscribe, Changes
<1>2. /\ c \in clients /\ clients \in SUBSET Clients
      /\ subs' \in [Clients -> SUBSET Streams]
      /\ \A d \in Clients \ clients' : subs'[d] = {}
    BY <1>1 DEF ProxyInv, TypeOK, MergingOK
<1>3. /\ count' \in [changes : Nat, drops : Nat, messages : Nat]
      /\ count'.drops + count'.messages <= MaxEvents
    BY <1>1 DEF ProxyInv, PlacesOK
<1>4. /\ PlacesOK' /\ MergingOK' /\ UnionOK' /\ todo' \in [Clients -> SUBSET Clients]
      /\ pc'[c] \in {"gather", "store"} /\ \A g \in Goroutines \ {c} : pc'[g] = pc[g]
    BY <1>1, <1>2, <1>3, RecalculatesOK
<1>5. LineOK' /\ AskingOK'
    BY <1>1, <1>4, ClientAsking
<1>6. TypeOK'
    <2>1. \A d \in Clients : pc'[d] = "reading" => d \in clients'
        BY <1>1, <1>4 DEF Goroutines, ProxyInv, TypeOK
    <2> QED BY <1>1, <1>2, <1>4, <2>1 DEF Recalculates, upstream, downstream, ProxyInv, TypeOK
<1> QED BY <1>4, <1>5, <1>6 DEF ProxyInv

LEMMA LeaveOK == ASSUME ProxyInv, NEW c \in Clients, Leave(c) PROVE ProxyInv'
<1>1. /\ pc[c] = "reading" /\ subs' = [subs EXCEPT ![c] = {}] /\ clients' = clients \ {c}
      /\ Recalculates(c, clients') /\ got' = [got EXCEPT ![c] = Nothing]
      /\ count' = [count EXCEPT !.changes = @ + 1] /\ serving = None
      /\ UNCHANGED <<globalSubs, upstream, conn, latest, snapshot, serving>>
    BY DEF Leave, Changes, Unread
<1>2. /\ clients' \in SUBSET Clients
      /\ subs' \in [Clients -> SUBSET Streams]
      /\ \A d \in Clients \ clients' : subs'[d] = {}
    BY <1>1 DEF ProxyInv, TypeOK, MergingOK
<1>3. /\ count' \in [changes : Nat, drops : Nat, messages : Nat]
      /\ count'.drops + count'.messages <= MaxEvents
    BY <1>1 DEF ProxyInv, PlacesOK
<1>4. /\ PlacesOK' /\ MergingOK' /\ UnionOK' /\ todo' \in [Clients -> SUBSET Clients]
      /\ pc'[c] \in {"gather", "store"} /\ \A g \in Goroutines \ {c} : pc'[g] = pc[g]
    BY <1>1, <1>2, <1>3, RecalculatesOK
<1>5. LineOK' /\ AskingOK'
    BY <1>1, <1>4, ClientAsking
<1>6. TypeOK'
    <2>1. \A d \in Clients : pc'[d] = "reading" => d \in clients'
        BY <1>1, <1>4 DEF Goroutines, ProxyInv, TypeOK
    <2>2. got' \in [Clients -> [Streams -> 0..MaxEvents]]
        BY <1>1, ProxyConstantsOK DEF Nothing, ProxyInv, TypeOK
    <2> QED BY <1>1, <1>2, <1>4, <2>1, <2>2 DEF Recalculates, upstream, ProxyInv, TypeOK
<1> QED BY <1>4, <1>5, <1>6 DEF ProxyInv
-----------------------------------------------------------------------------
(* recalculateGlobalSubscriptions. *)

\* One client less to look at: together it is what it was.
LEMMA GatherOK ==
    ASSUME ProxyInv, NEW c \in Clients, NEW d \in Clients, Gather(c, d) PROVE ProxyInv'
<1>1. /\ pc[c] = "gather" /\ d \in todo[c]
      /\ union' = [union EXCEPT ![c] = union[c] \cup subs[d]]
      /\ todo' = [todo EXCEPT ![c] = todo[c] \ {d}]
      /\ pc' = [pc EXCEPT ![c] = IF todo[c] = {d} THEN "store" ELSE "gather"]
      /\ UNCHANGED <<clients, subs, globalSubs, upstream, conn, downstream, count, overlapped>>
      /\ c # Upbit /\ c \in Goroutines /\ Clients \subseteq Goroutines
    BY ProxyConstantsOK DEF Gather, Goes, Goroutines
<1>2. /\ pc'[c] = IF todo[c] = {d} THEN "store" ELSE "gather"
      /\ \A g \in Goroutines \ {c} : pc'[g] = pc[g]
    BY <1>1 DEF ProxyInv, PlacesOK
<1>3. /\ union'[c] = union[c] \cup subs[d] /\ todo'[c] = todo[c] \ {d}
      /\ \A e \in Clients \ {c} : union'[e] = union[e] /\ todo'[e] = todo[e]
      /\ union' \in [Clients -> SUBSET Streams] /\ todo' \in [Clients -> SUBSET Clients]
    BY <1>1 DEF ProxyInv, TypeOK
<1>4. PlacesOK'
    BY <1>1, <1>2 DEF Goroutines, ProxyInv, PlacesOK
<1>5. LineOK' /\ AskingOK'
    BY <1>1, <1>2, ClientAsking
<1>6. TypeOK'
    BY <1>1, <1>2, <1>3 DEF upstream, downstream, ProxyInv, TypeOK
<1>7. \A e \in Clients : Merging(e)' <=> Merging(e)
    BY <1>1, <1>2 DEF Merging
<1>8. MergingOK'
    <2>1. \A e \in Clients : ~Merging(e)' => union'[e] = {}
        BY <1>1, <1>3, <1>7 DEF Merging, ProxyInv, MergingOK
    <2>2. \A e \in Clients : pc'[e] = "gather" \/ todo'[e] = {}
        BY <1>1, <1>2, <1>3 DEF ProxyInv, MergingOK
    <2> QED BY <1>1, <2>1, <2>2 DEF ProxyInv, MergingOK
<1>9. UnionOK'
    <2>1. Merged' = Merged
        BY <1>1 DEF Merged
    <2>2. Gathered(c)' = Gathered(c)
        BY <1>1, <1>3 DEF Gathered
    <2>3. \A e \in Clients \ {c} : Gathered(e)' = Gathered(e)
        BY <1>1, <1>3 DEF Gathered
    <2> QED BY <1>1, <1>7, <2>1, <2>2, <2>3 DEF ProxyInv, UnionOK
<1> QED BY <1>4, <1>5, <1>6, <1>8, <1>9 DEF ProxyInv

LEMMA StoreOK == ASSUME ProxyInv, NEW c \in Clients, Store(c) PROVE ProxyInv'
<1>1. /\ pc[c] = "store" /\ pc' = [pc EXCEPT ![c] = "peek"]
      /\ globalSubs' = union[c] /\ union' = [union EXCEPT ![c] = {}]
      /\ UNCHANGED <<clients, subs, upstream, conn, downstream, count, todo, overlapped>>
      /\ c # Upbit /\ c \in Goroutines /\ Clients \subseteq Goroutines /\ Upbit \in Goroutines
    BY ProxyConstantsOK DEF Store, Stored, Goes, Goroutines
<1>2. pc'[c] = "peek" /\ \A g \in Goroutines \ {c} : pc'[g] = pc[g]
    BY <1>1 DEF ProxyInv, PlacesOK
<1>3. /\ union'[c] = {} /\ \A e \in Clients \ {c} : union'[e] = union[e]
      /\ union' \in [Clients -> SUBSET Streams] /\ globalSubs' \in SUBSET Streams
    BY <1>1 DEF ProxyInv, TypeOK
<1>4. PlacesOK'
    BY <1>1, <1>2 DEF Goroutines, ProxyInv, PlacesOK
<1>5. LineOK'
    BY <1>1, <1>2 DEF upstream, ProxyInv, LineOK
<1>6. AskingOK'
    <2>1. Asks(c)'
        BY <1>2 DEF Asks
    <2> QED BY <1>1, <2>1 DEF AskingOK
<1>7. TypeOK'
    BY <1>1, <1>2, <1>3 DEF upstream, downstream, ProxyInv, TypeOK
<1>8. MergingOK'
    <2>1. \A e \in Clients : ~Merging(e)' => union'[e] = {}
        BY <1>1, <1>2, <1>3 DEF Merging, ProxyInv, MergingOK
    <2>2. \A e \in Clients : pc'[e] = "gather" \/ todo'[e] = {}
        BY <1>1, <1>2 DEF ProxyInv, MergingOK
    <2> QED BY <1>1, <2>1, <2>2 DEF ProxyInv, MergingOK
<1>9. UnionOK'
    <2> SUFFICES ASSUME ~overlapped'
                 PROVE  /\ \A b, e \in Clients : Merging(b)' /\ Merging(e)' => b = e
                        /\ \A e \in Clients : Merging(e)' => Gathered(e)' = Merged'
                        /\ (\A e \in Clients : ~Merging(e)') => globalSubs' = Merged'
        BY DEF UnionOK
    <2>1. Merging(c) /\ \A e \in Clients : Merging(e)' => Merging(e) /\ e # c
        BY <1>1, <1>2 DEF Merging
    <2>2. \A e \in Clients : Merging(e) => e = c
        BY <1>1, <2>1 DEF ProxyInv, UnionOK
    <2>3. globalSubs' = Merged'
        <3>1. Gathered(c) = Merged /\ todo[c] = {}
            BY <1>1, <2>1 DEF ProxyInv, UnionOK, MergingOK
        <3>2. Merged' = Merged
            BY <1>1 DEF Merged
        <3>3. Gathered(c) = union[c]
            BY <3>1 DEF Gathered
        <3> QED BY <1>1, <3>1, <3>2, <3>3
    <2> QED BY <2>1, <2>2, <2>3
<1> QED BY <1>4, <1>5, <1>6, <1>7, <1>8, <1>9 DEF ProxyInv
-----------------------------------------------------------------------------
LEMMA ProxyStutter == ASSUME ProxyInv, UNCHANGED vars PROVE ProxyInv'
<1>1. MergingOK' /\ UnionOK'
    BY MergingStays DEF vars, merging, Merging
<1>2. LineOK' /\ AskingOK'
    BY AskingStays DEF vars, upstream, ProxyInv, LineOK, Asks
<1>3. TypeOK' /\ PlacesOK'
    BY DEF vars, upstream, downstream, merging, ProxyInv, TypeOK, PlacesOK
<1> QED BY <1>1, <1>2, <1>3 DEF ProxyInv

LEMMA ProxyStep == ASSUME ProxyInv, [Next]_vars PROVE ProxyInv'
<1>1. Clients \subseteq Goroutines /\ Upbit \in Goroutines
    BY DEF Goroutines
<1>2. ASSUME NEW c \in Clients, ClientStep(c) PROVE ProxyInv'
    BY <1>1, <1>2, StoreOK, PeekOK, SendOK, GatherOK DEF ClientStep
<1>3. CASE UpbitStep
    BY <1>1, <1>3, DialOK, DialedOK, PeekOK, SendOK, ReadFailsOK DEF UpbitStep
<1> QED BY <1>2, <1>3, ConnectOK, LeaveOK, SubscribeOK, DropOK, BroadcastOK, ProxyStutter DEF Next

THEOREM ProxyInvariant == Spec => []ProxyInv
BY ProxyInit, ProxyStep, PTL DEF Spec

\* Every variable has its type, with any number of clients.
THEOREM ProxyTypes == Spec => []TypeOK
<1>1. ProxyInv => TypeOK
    BY DEF ProxyInv
<1> QED BY <1>1, ProxyInvariant, PTL

\* Once nobody is on the way to it with a change, Upbit has been asked for
\* globalSubs as it is, however the goroutines of clients, their
\* sendGlobalSubscriptionsToUpbit, lost connections and redials overlap.
THEOREM UpbitIsAsked == Spec => []AskedForGlobal
<1>1. ProxyInv => AskedForGlobal
    BY DEF ProxyInv, AskingOK, AskedForGlobal, Asks, Calm
<1> QED BY <1>1, ProxyInvariant, PTL

\* recalculateGlobalSubscriptions is right unless it runs twice at once: the
\* overlap that upbit_union exhibits is the only way to lose a client's streams.
THEOREM UnionIsRight == Spec => []UnionIsMerged
<1>1. ProxyInv => UnionIsMerged
    BY DEF ProxyInv, UnionOK, UnionIsMerged
<1> QED BY <1>1, ProxyInvariant, PTL
=============================================================================
