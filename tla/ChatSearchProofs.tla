--------------------------- MODULE ChatSearchProofs ---------------------------
(***************************************************************************)
(* Theorems about the chat server (its users, its bans and its texts) and  *)
(* about the search of posts, for all values of the constants that         *)
(* ServicesOK allows.                                                      *)
(***************************************************************************)
EXTENDS Services, FiniteSetTheorems, WellFoundedInduction, TLAPS

(* A step of Services is for every service one of its own or none. *)

LEMMA EachTakesItsOwnSteps ==
    ASSUME [Next]_serviceVars
    PROVE  /\ ChatU!Next \/ UNCHANGED chatUserVars
           /\ ChatB!Next \/ UNCHANGED chatBanVars
           /\ ChatM!Next \/ UNCHANGED chatMessageVars
           /\ Search!Next \/ UNCHANGED searchVars
           /\ Chunk!Next \/ UNCHANGED chunkVars
           /\ Embed!Next \/ UNCHANGED embeddingVars
           /\ Ledger!Next \/ UNCHANGED ledgerVars
           /\ Limit!Next \/ UNCHANGED limitVars
           /\ React!Next \/ UNCHANGED reactionVars
           /\ SignIn!Next \/ UNCHANGED signInVars
           /\ Caches!Next \/ UNCHANGED urlVars
           /\ Market!Next \/ UNCHANGED marketVars
           /\ Copy!Next \/ UNCHANGED copyVars
<1>0. CASE UNCHANGED allVars
    BY <1>0 DEF allVars
<1>1. CASE which = "users" /\ ChatU!Next /\ Rest
    BY <1>1 DEF Rest
<1>2. CASE which = "bans" /\ ChatB!Next /\ Rest
    BY <1>2 DEF Rest
<1>3. CASE which = "messages" /\ ChatM!Next /\ Rest
    BY <1>3 DEF Rest
<1>4. CASE which = "search" /\ Search!Next /\ Rest
    BY <1>4 DEF Rest
<1>5. CASE which = "chunker" /\ Chunk!Next /\ Rest
    BY <1>5 DEF Rest
<1>6. CASE which = "embedding" /\ Embed!Next /\ Rest
    BY <1>6 DEF Rest
<1>7. CASE which = "ledger" /\ Ledger!Next /\ Rest
    BY <1>7 DEF Rest
<1>8. CASE which = "limit" /\ Limit!Next /\ Rest
    BY <1>8 DEF Rest
<1>9. CASE which = "reactions" /\ React!Next /\ Rest
    BY <1>9 DEF Rest
<1>10. CASE which = "signin" /\ SignIn!Next /\ Rest
    BY <1>10 DEF Rest
<1>11. CASE which = "caches" /\ Caches!Next /\ Rest
    BY <1>11 DEF Rest
<1>12. CASE which = "market" /\ Market!Next /\ Rest
    BY <1>12 DEF Rest
<1>13. CASE which = "copy" /\ Copy!Next /\ Rest
    BY <1>13 DEF Rest
<1> QED
    BY <1>0, <1>1, <1>2, <1>3, <1>4, <1>5, <1>6, <1>7, <1>8, <1>9, <1>10, <1>11, <1>12, <1>13 DEF Next, Take, serviceVars
-----------------------------------------------------------------------------
(* The users of the chat. *)

ChatMaps == {"users", "settings"}

Entry == {"fresh", "own", None}

UserTypes ==
    /\ memory \in [ChatMaps -> [Tokens -> Entry]] /\ stored \in [ChatMaps -> [Tokens -> Entry]]
    /\ loading \in [ChatMaps -> [Tokens -> Entry] \cup {None}]
    /\ loaded \subseteq ChatMaps
    /\ sockets \in [Sockets -> Tokens \cup {None}]
    /\ excused \in [ChatMaps -> SUBSET Tokens] /\ idle \subseteq Tokens

\* Map m carries what the cache holds of everyone who is not excused.
Carries(m, k) ==
    \A t \in Tokens \ excused[k] : stored[k][t] # None =>
        m[t] # None /\ (stored[k][t] = "own" => m[t] = "own")

\* A map that is loaded, or still to come, carries what is stored; until it has
\* come, whoever is in the map was put there too early.
MapOK(k) ==
    /\ k \in loaded => Carries(memory[k], k) /\ loading[k] = None
    /\ loading[k] # None => Carries(loading[k], k)
    /\ k \notin loaded => \A t \in Tokens : memory[k][t] # None => t \in excused[k]

\* ConnectedAreKnown of each connection.
Greeted(c) ==
    sockets[c] # None => memory["users"][sockets[c]] # None \/ sockets[c] \in excused["users"]

ChatUserInv ==
    /\ UserTypes
    /\ \A k \in ChatMaps : MapOK(k)
    /\ \A c \in Sockets : Greeted(c)

LEMMA UserNames ==
    /\ ChatU!Maps = ChatMaps /\ ChatU!NoOne = [t \in Tokens |-> None]
    /\ ChatU!NoOne \in [Tokens -> Entry]
    /\ None \notin [Tokens -> Entry] /\ None \notin {"fresh", "own"} /\ None \notin Tokens
<1>1. ChatU!Maps = ChatMaps /\ ChatU!NoOne = [t \in Tokens |-> None]
    BY DEF ChatU!Maps, ChatMaps, ChatU!NoOne
<1>2. ChatU!NoOne \in [Tokens -> Entry]
    BY <1>1 DEF Entry
<1>3. None \notin [Tokens -> Entry] /\ None \notin {"fresh", "own"} /\ None \notin Tokens
    BY ServicesOK DEF ChatUsersOK, Entry
<1> QED BY <1>1, <1>2, <1>3

LEMMA UserInit == ChatU!Init => ChatUserInv
<1> SUFFICES ASSUME ChatU!Init PROVE ChatUserInv
    OBVIOUS
<1>1. UserTypes
    BY UserNames DEF ChatU!Init, UserTypes
<1>2. \A k \in ChatMaps : loading[k] = None /\ \A t \in Tokens : memory[k][t] = None /\ stored[k][t] = None
    BY UserNames DEF ChatU!Init
<1>3. \A k \in ChatMaps : MapOK(k)
    BY <1>2 DEF MapOK, Carries
<1>4. \A c \in Sockets : Greeted(c)
    BY DEF ChatU!Init, Greeted
<1> QED BY <1>1, <1>3, <1>4 DEF ChatUserInv

\* What a step does to one map, other than loading it.
Tended(k) ==
    /\ stored'[k] = memory'[k] \/ (stored'[k] = stored[k] /\ excused[k] \subseteq excused'[k])
    /\ \A t \in Tokens \ excused'[k] : memory[k][t] # None =>
           memory'[k][t] # None /\ (memory[k][t] = "own" => memory'[k][t] = "own")
    /\ k \notin loaded => \A t \in Tokens : memory'[k][t] # None => t \in excused'[k]

LEMMA TendedMaps ==
    ASSUME ChatUserInv, UNCHANGED <<loading, loaded>>, UserTypes',
           \A c \in Sockets : Greeted(c)',
           \A k \in ChatMaps : Tended(k)
    PROVE  ChatUserInv' /\ ChatU!StoredStays
<1>1. ASSUME NEW k \in ChatMaps PROVE MapOK(k)'
    <2>1. ASSUME k \in loaded PROVE Carries(memory[k], k)'
        <3>1. CASE stored'[k] = memory'[k]
            BY <3>1 DEF Carries
        <3>2. CASE stored'[k] = stored[k] /\ excused[k] \subseteq excused'[k]
            BY <2>1, <3>2 DEF ChatUserInv, MapOK, Carries, Tended
        <3> QED BY <3>1, <3>2 DEF Tended
    <2>2. ASSUME loading[k] # None PROVE Carries(loading[k], k)'
        <3>1. k \notin loaded
            BY <2>2 DEF ChatUserInv, MapOK
        <3>2. CASE stored'[k] = memory'[k]
            BY <3>1, <3>2 DEF Carries, Tended
        <3>3. CASE stored'[k] = stored[k] /\ excused[k] \subseteq excused'[k]
            BY <2>2, <3>3 DEF ChatUserInv, MapOK, Carries
        <3> QED BY <3>2, <3>3 DEF Tended
    <2> QED BY <2>1, <2>2 DEF ChatUserInv, MapOK, Tended
<1>2. ChatU!StoredStays
    <2> SUFFICES ASSUME NEW k \in loaded, NEW t \in Tokens, stored[k][t] # None,
                        t \notin excused[k] \cup excused'[k]
                 PROVE  stored'[k][t] # None /\ (stored[k][t] = "own" => stored'[k][t] = "own")
        BY DEF ChatU!StoredStays
    <2>1. k \in ChatMaps
        BY DEF ChatUserInv, UserTypes
    <2>2. memory[k][t] # None /\ (stored[k][t] = "own" => memory[k][t] = "own")
        BY <2>1 DEF ChatUserInv, MapOK, Carries
    <2> QED BY <2>1, <2>2 DEF Tended
<1> QED BY <1>1, <1>2 DEF ChatUserInv

\* Where nothing is stored, forgotten or put into a map.
LEMMA MapsUntouched ==
    ASSUME ChatUserInv, UNCHANGED <<memory, stored, excused>>
    PROVE  \A k \in ChatMaps : Tended(k)
BY DEF ChatUserInv, MapOK, Tended

\* One entry of one map is changed.
LEMMA PutEntry ==
    ASSUME NEW m \in [ChatMaps -> [Tokens -> Entry]], NEW k \in ChatMaps, NEW t \in Tokens,
           NEW v \in Entry, NEW n, n = [m EXCEPT ![k][t] = v]
    PROVE  /\ n \in [ChatMaps -> [Tokens -> Entry]]
           /\ n[k][t] = v
           /\ \A u \in Tokens \ {t} : n[k][u] = m[k][u]
           /\ \A j \in ChatMaps \ {k} : n[j] = m[j]
<1>1. n = [m EXCEPT ![k] = [m[k] EXCEPT ![t] = v]]
    OBVIOUS
<1>2. [m[k] EXCEPT ![t] = v] \in [Tokens -> Entry]
    OBVIOUS
<1>3. n[k] = [m[k] EXCEPT ![t] = v] /\ \A j \in ChatMaps \ {k} : n[j] = m[j]
    BY <1>1
<1>4. n \in [ChatMaps -> [Tokens -> Entry]]
    BY <1>1, <1>2
<1> QED BY <1>3, <1>4

\* One map is written as it is.
LEMMA StoreMap ==
    ASSUME UserTypes, NEW k \in ChatMaps, NEW map \in [Tokens -> Entry], ChatU!Store(k, map)
    PROVE  /\ stored' \in [ChatMaps -> [Tokens -> Entry]] /\ stored'[k] = map
           /\ \A j \in ChatMaps \ {k} : stored'[j] = stored[j]
BY DEF UserTypes, ChatU!Store

LEMMA ConnectOK ==
    ASSUME ChatUserInv, NEW c \in Sockets, NEW t \in Tokens, ChatU!Connect(c, t)
    PROVE  ChatUserInv' /\ ChatU!StoredStays
<1>1. /\ sockets' = [sockets EXCEPT ![c] = t]
      /\ memory' = [k \in ChatMaps |-> ChatU!Ensured(k, t)]
      /\ stored' = memory'
      /\ excused' = [k \in ChatMaps |-> ChatU!TooEarly(k, t) \cup (excused[k] \ {t})]
      /\ UNCHANGED <<loading, loaded>>
      /\ idle' \subseteq idle
    BY UserNames DEF ChatU!Connect
<1>2. ASSUME NEW k \in ChatMaps
      PROVE  /\ memory'[k] \in [Tokens -> Entry]
             /\ memory'[k][t] = IF memory[k][t] = None THEN "fresh" ELSE memory[k][t]
             /\ \A u \in Tokens \ {t} : memory'[k][u] = memory[k][u]
    <2>1. memory[k] \in [Tokens -> Entry]
        BY DEF ChatUserInv, UserTypes
    <2>2. memory'[k] = [memory[k] EXCEPT ![t] = IF memory[k][t] = None THEN "fresh" ELSE memory[k][t]]
        BY <1>1 DEF ChatU!Ensured
    <2>3. (IF memory[k][t] = None THEN "fresh" ELSE memory[k][t]) \in Entry
        BY <2>1 DEF Entry
    <2> QED BY <2>1, <2>2, <2>3
<1>3. ASSUME NEW k \in ChatMaps
      PROVE  excused'[k] = (IF k \in loaded THEN {} ELSE {t}) \cup (excused[k] \ {t})
    BY <1>1 DEF ChatU!TooEarly
<1>4. UserTypes'
    <2>1. memory' \in [ChatMaps -> [Tokens -> Entry]]
        BY <1>1, <1>2
    <2>2. \A k \in ChatMaps : excused'[k] \in SUBSET Tokens
        BY <1>3 DEF ChatUserInv, UserTypes
    <2>3. excused' \in [ChatMaps -> SUBSET Tokens]
        BY <1>1, <2>2
    <2>4. sockets' \in [Sockets -> Tokens \cup {None}]
        BY <1>1 DEF ChatUserInv, UserTypes
    <2> QED BY <1>1, <2>1, <2>3, <2>4 DEF ChatUserInv, UserTypes
<1>5. ASSUME NEW d \in Sockets PROVE Greeted(d)'
    <2>1. "users" \in ChatMaps /\ "fresh" # None
        BY UserNames DEF ChatMaps
    <2>2. memory'["users"][t] # None
        BY <1>2, <2>1
    <2>3. CASE sockets'[d] = t
        BY <2>2, <2>3 DEF Greeted
    <2>4. CASE sockets'[d] # t
        <3>1. sockets'[d] = sockets[d] /\ sockets[d] \in Tokens \cup {None}
            BY <1>1, <2>4 DEF ChatUserInv, UserTypes
        <3> QED BY <1>2, <1>3, <2>1, <2>4, <3>1 DEF ChatUserInv, Greeted
    <2> QED BY <2>3, <2>4
<1>6. ASSUME NEW k \in ChatMaps PROVE Tended(k)
    <2>1. stored'[k] = memory'[k]
        BY <1>1
    <2>2. \A u \in Tokens : memory[k][u] # None => memory'[k][u] = memory[k][u]
        BY <1>2
    <2>3. k \notin loaded => \A u \in Tokens : memory'[k][u] # None => u \in excused'[k]
        BY <1>2, <1>3 DEF ChatUserInv, MapOK
    <2> QED BY <2>1, <2>2, <2>3 DEF Tended
<1> QED BY <1>1, <1>4, <1>5, <1>6, TendedMaps

LEMMA CloseOK ==
    ASSUME ChatUserInv, NEW c \in Sockets, ChatU!Close(c)
    PROVE  ChatUserInv' /\ ChatU!StoredStays
<1>1. /\ sockets' = [sockets EXCEPT ![c] = None]
      /\ UNCHANGED <<memory, stored, loading, loaded, excused>>
      /\ idle' \subseteq idle
    BY DEF ChatU!Close
<1>2. UserTypes' /\ \A d \in Sockets : sockets'[d] \in {sockets[d], None}
    BY <1>1 DEF ChatUserInv, UserTypes
<1>3. \A d \in Sockets : Greeted(d)'
    BY <1>1, <1>2 DEF ChatUserInv, Greeted
<1> QED BY <1>1, <1>2, <1>3, MapsUntouched, TendedMaps

\* What is written of the users is what is in memory.
LEMMA PingOK ==
    ASSUME ChatUserInv, NEW c \in Sockets, ChatU!Ping(c)
    PROVE  ChatUserInv' /\ ChatU!StoredStays
<1>1. /\ ChatU!Store("users", memory["users"])
      /\ UNCHANGED <<memory, loading, loaded, sockets, excused>>
      /\ idle' \subseteq idle
    BY DEF ChatU!Ping
<1>2. "users" \in ChatMaps /\ memory["users"] \in [Tokens -> Entry] /\ UserTypes
    BY DEF ChatUserInv, UserTypes, ChatMaps
<1>3. /\ stored' \in [ChatMaps -> [Tokens -> Entry]] /\ stored'["users"] = memory["users"]
      /\ \A j \in ChatMaps \ {"users"} : stored'[j] = stored[j]
    BY <1>1, <1>2, StoreMap
<1>4. UserTypes' /\ \A d \in Sockets : Greeted(d)'
    BY <1>1, <1>3 DEF ChatUserInv, UserTypes, Greeted
<1>5. \A k \in ChatMaps : Tended(k)
    BY <1>1, <1>3 DEF ChatUserInv, MapOK, Tended
<1> QED BY <1>1, <1>4, <1>5, TendedMaps

\* A user who is in the map takes on a profile of his own.
LEMMA TakesOwnOK ==
    ASSUME ChatUserInv, NEW t \in Tokens, ChatU!TakesOwn(t)
    PROVE  ChatUserInv' /\ ChatU!StoredStays
<1>1. /\ memory["users"][t] # None
      /\ memory' = [memory EXCEPT !["users"][t] = "own"]
      /\ UNCHANGED <<stored, loading, loaded, sockets, excused>>
      /\ idle' \subseteq idle
    BY DEF ChatU!TakesOwn, ChatU!Known
<1>2. /\ "users" \in ChatMaps /\ "own" \in Entry /\ "own" # None
      /\ memory \in [ChatMaps -> [Tokens -> Entry]]
    BY UserNames DEF ChatUserInv, UserTypes, ChatMaps, Entry
<1>3. /\ memory' \in [ChatMaps -> [Tokens -> Entry]] /\ memory'["users"][t] = "own"
      /\ \A u \in Tokens \ {t} : memory'["users"][u] = memory["users"][u]
      /\ \A j \in ChatMaps \ {"users"} : memory'[j] = memory[j]
    BY <1>1, <1>2, PutEntry
<1>4. UserTypes'
    BY <1>1, <1>3 DEF ChatUserInv, UserTypes
<1>5. \A d \in Sockets : sockets[d] \in Tokens \cup {None}
    BY DEF ChatUserInv, UserTypes
<1>6. \A d \in Sockets : Greeted(d)'
    BY <1>1, <1>2, <1>3, <1>5 DEF ChatUserInv, Greeted
<1>7. ASSUME NEW k \in ChatMaps PROVE Tended(k)
    <2>1. CASE k = "users"
        <3>1. \A u \in Tokens : memory'[k][u] # None => memory[k][u] # None
            BY <1>1, <1>3, <2>1
        <3>2. \A u \in Tokens : memory[k][u] # None =>
                  memory'[k][u] # None /\ (memory[k][u] = "own" => memory'[k][u] = "own")
            BY <1>2, <1>3, <2>1
        <3> QED BY <1>1, <3>1, <3>2 DEF ChatUserInv, MapOK, Tended
    <2>2. CASE k # "users"
        BY <1>1, <1>3, <2>2 DEF ChatUserInv, MapOK, Tended
    <2> QED BY <2>1, <2>2
<1> QED BY <1>1, <1>4, <1>6, <1>7, TendedMaps

LEMMA UpdateSettingOK ==
    ASSUME ChatUserInv, NEW t \in Tokens, ChatU!UpdateSetting(t)
    PROVE  ChatUserInv' /\ ChatU!StoredStays
<1> DEFINE v == IF memory["settings"][t] = None THEN "fresh" ELSE "own"
           early == IF "settings" \in loaded THEN {} ELSE {t}
<1>1. /\ memory' = [memory EXCEPT !["settings"][t] = v]
      /\ ChatU!Store("settings", memory'["settings"])
      /\ excused' = [excused EXCEPT !["settings"] = excused["settings"] \cup early]
      /\ UNCHANGED <<loading, loaded, sockets>>
      /\ idle' \subseteq idle
    BY DEF ChatU!UpdateSetting, ChatU!TooEarly, ChatUserInv, UserTypes, ChatMaps
<1>2. /\ "settings" \in ChatMaps /\ "users" \in ChatMaps /\ "users" # "settings"
      /\ v \in Entry /\ v # None /\ memory \in [ChatMaps -> [Tokens -> Entry]] /\ UserTypes
      /\ memory["settings"][t] = "own" => v = "own"
    BY UserNames DEF ChatUserInv, UserTypes, ChatMaps, Entry
<1> HIDE DEF v
<1>3. /\ memory' \in [ChatMaps -> [Tokens -> Entry]] /\ memory'["settings"][t] = v
      /\ \A u \in Tokens \ {t} : memory'["settings"][u] = memory["settings"][u]
      /\ \A j \in ChatMaps \ {"settings"} : memory'[j] = memory[j]
    BY <1>1, <1>2, PutEntry
<1>4. /\ stored' \in [ChatMaps -> [Tokens -> Entry]] /\ stored'["settings"] = memory'["settings"]
      /\ \A j \in ChatMaps \ {"settings"} : stored'[j] = stored[j]
    <2>1. memory'["settings"] \in [Tokens -> Entry]
        BY <1>2, <1>3
    <2> QED BY <1>1, <1>2, <2>1, StoreMap
<1>5. /\ excused' \in [ChatMaps -> SUBSET Tokens]
      /\ excused'["settings"] = excused["settings"] \cup early
      /\ \A j \in ChatMaps \ {"settings"} : excused'[j] = excused[j]
    BY <1>1, <1>2 DEF UserTypes
<1>6. UserTypes' /\ \A d \in Sockets : Greeted(d)'
    BY <1>1, <1>2, <1>3, <1>4, <1>5 DEF ChatUserInv, UserTypes, Greeted
<1>7. ASSUME NEW k \in ChatMaps PROVE Tended(k)
    <2>1. CASE k = "settings"
        <3>1. \A u \in Tokens : memory[k][u] # None =>
                  memory'[k][u] # None /\ (memory[k][u] = "own" => memory'[k][u] = "own")
            BY <1>2, <1>3, <2>1
        <3>2. k \notin loaded => \A u \in Tokens : memory'[k][u] # None => u \in excused'[k]
            BY <1>2, <1>3, <1>5, <2>1 DEF ChatUserInv, MapOK
        <3> QED BY <1>4, <2>1, <3>1, <3>2 DEF Tended
    <2>2. CASE k # "settings"
        BY <1>3, <1>4, <1>5, <2>2 DEF ChatUserInv, MapOK, Tended
    <2> QED BY <2>1, <2>2
<1> QED BY <1>1, <1>6, <1>7, TendedMaps

LEMMA DeleteOK ==
    ASSUME ChatUserInv, NEW t \in Tokens, ChatU!Delete(t)
    PROVE  ChatUserInv' /\ ChatU!StoredStays
<1>1. /\ memory' = [memory EXCEPT !["users"][t] = None]
      /\ ChatU!Store("users", memory'["users"])
      /\ excused' = [excused EXCEPT !["users"] = excused["users"] \cup {t}]
      /\ UNCHANGED <<loading, loaded, sockets>>
      /\ idle' \subseteq idle
    BY DEF ChatU!Delete, ChatUserInv, UserTypes, ChatMaps
<1>2. /\ "users" \in ChatMaps /\ None \in Entry /\ memory \in [ChatMaps -> [Tokens -> Entry]]
      /\ UserTypes
    BY DEF ChatUserInv, UserTypes, ChatMaps, Entry
<1>3. /\ memory' \in [ChatMaps -> [Tokens -> Entry]] /\ memory'["users"][t] = None
      /\ \A u \in Tokens \ {t} : memory'["users"][u] = memory["users"][u]
      /\ \A j \in ChatMaps \ {"users"} : memory'[j] = memory[j]
    BY <1>1, <1>2, PutEntry
<1>4. /\ stored' \in [ChatMaps -> [Tokens -> Entry]] /\ stored'["users"] = memory'["users"]
      /\ \A j \in ChatMaps \ {"users"} : stored'[j] = stored[j]
    <2>1. memory'["users"] \in [Tokens -> Entry]
        BY <1>2, <1>3
    <2> QED BY <1>1, <1>2, <2>1, StoreMap
<1>5. /\ excused' \in [ChatMaps -> SUBSET Tokens]
      /\ excused'["users"] = excused["users"] \cup {t}
      /\ \A j \in ChatMaps \ {"users"} : excused'[j] = excused[j]
    BY <1>1, <1>2 DEF UserTypes
<1>6. UserTypes'
    BY <1>1, <1>3, <1>4, <1>5 DEF ChatUserInv, UserTypes
<1>7. \A d \in Sockets : Greeted(d)'
    <2>1. \A d \in Sockets : sockets[d] \in Tokens \cup {None}
        BY DEF ChatUserInv, UserTypes
    <2> QED BY <1>1, <1>3, <1>5, <2>1 DEF ChatUserInv, Greeted
<1>8. ASSUME NEW k \in ChatMaps PROVE Tended(k)
    BY <1>3, <1>4, <1>5 DEF ChatUserInv, MapOK, Tended
<1> QED BY <1>1, <1>6, <1>7, <1>8, TendedMaps

LEMMA DeleteOldOK ==
    ASSUME ChatUserInv, ChatU!DeleteOld
    PROVE  ChatUserInv' /\ ChatU!StoredStays
<1>1. /\ memory' = [k \in ChatMaps |-> [t \in Tokens |->
                       IF t \in ChatU!OldUsers THEN None ELSE memory[k][t]]]
      /\ ChatU!Store("users", memory'["users"])
      /\ excused' = [k \in ChatMaps |-> excused[k] \cup idle]
      /\ UNCHANGED <<loading, loaded, sockets, idle>>
    BY UserNames DEF ChatU!DeleteOld
<1>2. ChatU!OldUsers \subseteq idle /\ "users" \in ChatMaps /\ None \in Entry /\ UserTypes
    BY DEF ChatU!OldUsers, ChatMaps, Entry, ChatUserInv
<1>3. ASSUME NEW k \in ChatMaps
      PROVE  /\ memory'[k] \in [Tokens -> Entry] /\ excused'[k] = excused[k] \cup idle
             /\ \A t \in Tokens : t \notin idle => memory'[k][t] = memory[k][t]
             /\ \A t \in Tokens : memory'[k][t] \in {None, memory[k][t]}
    BY <1>1, <1>2 DEF UserTypes
<1>4. /\ stored' \in [ChatMaps -> [Tokens -> Entry]] /\ stored'["users"] = memory'["users"]
      /\ \A j \in ChatMaps \ {"users"} : stored'[j] = stored[j]
    <2>1. memory'["users"] \in [Tokens -> Entry]
        BY <1>2, <1>3
    <2> QED BY <1>1, <1>2, <2>1, StoreMap
<1>5. UserTypes'
    <2>1. memory' \in [ChatMaps -> [Tokens -> Entry]]
        BY <1>1, <1>3
    <2>2. \A k \in ChatMaps : excused'[k] \in SUBSET Tokens
        BY <1>3 DEF UserTypes, ChatUserInv
    <2>3. excused' \in [ChatMaps -> SUBSET Tokens]
        BY <1>1, <2>2
    <2> QED BY <1>1, <1>4, <2>1, <2>3 DEF ChatUserInv, UserTypes
<1>6. \A d \in Sockets : Greeted(d)'
    <2>1. \A d \in Sockets : sockets[d] \in Tokens \cup {None}
        BY DEF ChatUserInv, UserTypes
    <2> QED BY <1>1, <1>2, <1>3, <2>1 DEF ChatUserInv, Greeted
<1>7. ASSUME NEW k \in ChatMaps PROVE Tended(k)
    <2>1. \A t \in Tokens \ excused'[k] : memory'[k][t] = memory[k][t]
        BY <1>3
    <2>2. k \notin loaded => \A t \in Tokens : memory'[k][t] # None => t \in excused'[k]
        BY <1>3 DEF ChatUserInv, MapOK
    <2>3. stored'[k] = memory'[k] \/ (stored'[k] = stored[k] /\ excused[k] \subseteq excused'[k])
        BY <1>3, <1>4
    <2> QED BY <2>1, <2>2, <2>3 DEF Tended
<1> QED BY <1>1, <1>5, <1>6, <1>7, TendedMaps

LEMMA GrowIdleOK ==
    ASSUME ChatUserInv, NEW t \in Tokens, ChatU!GrowIdle(t)
    PROVE  ChatUserInv' /\ ChatU!StoredStays
<1>1. UNCHANGED <<memory, stored, loading, loaded, sockets, excused>> /\ idle' = idle \cup {t}
    BY DEF ChatU!GrowIdle
<1>2. UserTypes' /\ \A d \in Sockets : Greeted(d)'
    BY <1>1 DEF ChatUserInv, UserTypes, Greeted
<1> QED BY <1>1, <1>2, MapsUntouched, TendedMaps

LEMMA LoadAnswersOK ==
    ASSUME ChatUserInv, NEW k \in ChatMaps, ChatU!LoadAnswers(k)
    PROVE  ChatUserInv' /\ ChatU!StoredStays
<1>1. /\ loading[k] # None
      /\ memory' = [memory EXCEPT ![k] = loading[k]]
      /\ loading' = [loading EXCEPT ![k] = None]
      /\ loaded' = loaded \cup {k}
      /\ UNCHANGED <<stored, sockets, excused>>
      /\ idle' \subseteq idle
    BY DEF ChatU!LoadAnswers
<1>2. k \notin loaded /\ loading[k] \in [Tokens -> Entry]
    BY <1>1 DEF ChatUserInv, MapOK, UserTypes
<1>3. /\ memory'[k] = loading[k] /\ loading'[k] = None
      /\ \A j \in ChatMaps \ {k} : memory'[j] = memory[j] /\ loading'[j] = loading[j]
    BY <1>1 DEF ChatUserInv, UserTypes
<1>4. UserTypes'
    BY <1>1, <1>2 DEF ChatUserInv, UserTypes
<1>5. ASSUME NEW j \in ChatMaps PROVE MapOK(j)'
    <2>1. CASE j = k
        BY <1>1, <1>3, <2>1 DEF ChatUserInv, MapOK, Carries
    <2>2. CASE j # k
        BY <1>1, <1>3, <2>2 DEF ChatUserInv, MapOK, Carries
    <2> QED BY <2>1, <2>2
<1>6. ASSUME NEW c \in Sockets PROVE Greeted(c)'
    <2>1. sockets[c] \in Tokens \cup {None} /\ "users" \in ChatMaps
        BY DEF ChatUserInv, UserTypes, ChatMaps
    <2>2. CASE k = "users"
        <3>1. sockets[c] # None => sockets[c] \in excused["users"]
            BY <1>2, <2>1, <2>2 DEF ChatUserInv, Greeted, MapOK
        <3> QED BY <1>1, <3>1 DEF Greeted
    <2>3. CASE k # "users"
        BY <1>1, <1>3, <2>1, <2>3 DEF ChatUserInv, Greeted
    <2> QED BY <2>2, <2>3
<1>7. ChatU!StoredStays
    BY <1>1 DEF ChatU!StoredStays
<1> QED BY <1>4, <1>5, <1>6, <1>7 DEF ChatUserInv

LEMMA LoadFailsOK ==
    ASSUME ChatUserInv, NEW k \in ChatMaps, ChatU!LoadFails(k)
    PROVE  ChatUserInv' /\ ChatU!StoredStays
<1>1. /\ loading' = [loading EXCEPT ![k] = None]
      /\ UNCHANGED <<memory, stored, loaded, sockets, excused>>
      /\ idle' \subseteq idle
    BY DEF ChatU!LoadFails
<1>2. UserTypes' /\ \A j \in ChatMaps : loading'[j] \in {None, loading[j]}
    BY <1>1 DEF ChatUserInv, UserTypes
<1>3. \A j \in ChatMaps : MapOK(j)'
    BY <1>1, <1>2 DEF ChatUserInv, MapOK, Carries
<1>4. (\A c \in Sockets : Greeted(c)') /\ ChatU!StoredStays
    BY <1>1 DEF ChatUserInv, Greeted, ChatU!StoredStays
<1> QED BY <1>2, <1>3, <1>4 DEF ChatUserInv

LEMMA RestartOK ==
    ASSUME ChatUserInv, ChatU!Restart
    PROVE  ChatUserInv' /\ ChatU!StoredStays
<1>1. /\ memory' = [k \in ChatMaps |-> ChatU!NoOne] /\ loading' = stored /\ loaded' = {}
      /\ sockets' = [c \in Sockets |-> None] /\ excused' = [k \in ChatMaps |-> {}]
      /\ stored' = stored
      /\ idle' \subseteq idle
    BY UserNames DEF ChatU!Restart
<1>2. memory' \in [ChatMaps -> [Tokens -> Entry]]
    BY <1>1, UserNames
<1>3. UserTypes'
    BY <1>1, <1>2 DEF ChatUserInv, UserTypes
<1>4. \A k \in ChatMaps, t \in Tokens : memory'[k][t] = None
    BY <1>1, UserNames
<1>5. ASSUME NEW k \in ChatMaps PROVE MapOK(k)'
    BY <1>1, <1>4 DEF MapOK, Carries
<1>6. (\A c \in Sockets : Greeted(c)') /\ ChatU!StoredStays
    BY <1>1 DEF Greeted, ChatU!StoredStays
<1> QED BY <1>3, <1>5, <1>6 DEF ChatUserInv

LEMMA ChatUserStep ==
    ASSUME ChatUserInv, ChatU!Next \/ UNCHANGED chatUserVars
    PROVE  ChatUserInv' /\ (ChatU!StoredStays \/ UNCHANGED chatUserVars)
<1>1. CASE UNCHANGED chatUserVars
    BY <1>1 DEF chatUserVars, ChatUserInv, UserTypes, MapOK, Carries, Greeted
<1>2. ASSUME NEW c \in Sockets, ChatU!AdoptProfile(c)
      PROVE  ChatUserInv' /\ ChatU!StoredStays
    <2>1. sockets[c] \in Tokens /\ ChatU!TakesOwn(sockets[c])
        BY <1>2 DEF ChatU!AdoptProfile, ChatUserInv, UserTypes
    <2> QED BY <2>1, TakesOwnOK
<1>3. ASSUME NEW t \in Tokens, ChatU!UpdateProfile(t)
      PROVE  ChatUserInv' /\ ChatU!StoredStays
    BY <1>3, TakesOwnOK DEF ChatU!UpdateProfile
<1> QED
    BY <1>1, <1>2, <1>3, ConnectOK, CloseOK, PingOK, UpdateSettingOK, DeleteOK, DeleteOldOK,
       GrowIdleOK, LoadAnswersOK, LoadFailsOK, RestartOK, UserNames DEF ChatU!Next

LEMMA ChatUsersStart == Init => ChatUserInv
BY UserInit DEF Init

LEMMA ChatUsersGoOn ==
    ChatUserInv /\ [Next]_serviceVars => ChatUserInv' /\ [ChatU!StoredStays]_ChatU!chatUserVars
BY ChatUserStep, EachTakesItsOwnSteps DEF chatUserVars, ChatU!chatUserVars

\* Whoever is connected is known to the chat, for any number of users,
\* connections and restarts, but for those ChatUsers excuses.
THEOREM ConnectedUsersKnown == Spec => []ConnectedAreKnown
<1>1. ChatUserInv => ConnectedAreKnown
    BY DEF ChatUserInv, Greeted, ConnectedAreKnown, ChatU!ConnectedAreKnown, ChatU!Connections,
           ChatU!Known
<1> QED BY <1>1, ChatUsersStart, ChatUsersGoOn, PTL DEF Spec

\* What is stored of a chat user no one else's step takes away, and his own
\* profile is not replaced by a generated one, whenever the maps of a start
\* come and however many starts there are.
THEOREM StoredUsersStay == Spec => UsersSurvive
BY ChatUsersStart, ChatUsersGoOn, PTL DEF Spec, UsersSurvive, ChatU!UsersSurvive
-----------------------------------------------------------------------------
(* The bans of the chat. *)

BanEntry == [left: Nat, no: Nat, whole: BOOLEAN]

Alarm == [ip: IPs, left: Nat, no: Nat]

Bans == said + harder

BanTypes ==
    /\ bans \in [IPs -> BanEntry \cup {None}]
    /\ alarms \subseteq Alarm
    /\ since \in [IPs -> Nat] /\ \A ip \in IPs : since[ip] <= Frequency
    /\ overlapped \in [IPs -> BOOLEAN]
    /\ said \in Nat /\ harder \in Nat

\* A ban and its alarm: they are told from the others by their number, and end
\* together.
AlarmOK(a) ==
    /\ a.no <= Bans
    /\ bans[a.ip] # None /\ bans[a.ip].no = a.no /\ bans[a.ip].whole => a.left = bans[a.ip].left

Apart(ip) == ~overlapped[ip]

\* Where no bans overlap, no alarm rings before the distance is kept, and until
\* then there is a ban.
TextOK(ip) ==
    Apart(ip) =>
        /\ \A a \in alarms : a.ip = ip => Frequency <= since[ip] + a.left
        /\ since[ip] < Frequency => bans[ip] # None

BanInv ==
    /\ BanTypes
    /\ \A a \in alarms : AlarmOK(a)
    /\ \A ip \in IPs : bans[ip] # None => bans[ip].no <= Bans
    /\ \A ip \in IPs : TextOK(ip)

LEMMA BanNames ==
    /\ Frequency \in Nat /\ MaxDelay \in Nat /\ Frequency <= MaxDelay /\ BanTimes \subseteq Nat
    /\ None \notin BanEntry
BY ServicesOK DEF ChatBansOK, BanEntry

LEMMA BanInit == ChatB!Init => BanInv
<1> SUFFICES ASSUME ChatB!Init PROVE BanInv
    OBVIOUS
<1>1. BanTypes
    BY BanNames DEF ChatB!Init, BanTypes
<1>2. alarms = {} /\ \A ip \in IPs : bans[ip] = None /\ since[ip] = Frequency
    BY DEF ChatB!Init
<1>3. \A ip \in IPs : TextOK(ip)
    BY <1>2, BanNames DEF TextOK
<1> QED BY <1>1, <1>2, <1>3 DEF BanInv

\* A new ban, and its alarm.
LEMMA BanOK ==
    ASSUME BanInv, NEW ip \in IPs, NEW t \in Nat, ChatB!Ban(ip, t), Bans' = Bans + 1,
           said' \in Nat, harder' \in Nat, since' \in [IPs -> Nat], overlapped' \in [IPs -> BOOLEAN],
           \A j \in IPs : since'[j] <= Frequency
    PROVE  /\ BanTypes'
           /\ \A a \in alarms' : AlarmOK(a)'
           /\ \A j \in IPs : bans'[j] # None => bans'[j].no <= Bans'
           /\ bans'[ip] # None /\ \A j \in IPs \ {ip} : bans'[j] = bans[j]
           /\ \A a \in alarms' : a \in alarms \/ (a.ip = ip /\ a.left = ChatB!Delay(t))
<1> DEFINE new == [left |-> t, no |-> Bans + 1, whole |-> t <= MaxDelay]
           alarm == [ip |-> ip, left |-> ChatB!Delay(t), no |-> Bans + 1]
<1>1. bans' = [bans EXCEPT ![ip] = new] /\ alarms' = alarms \cup {alarm}
    BY DEF ChatB!Ban, Bans
<1>2. Bans \in Nat /\ Bans + 1 \in Nat
    BY DEF BanInv, BanTypes, Bans
<1>3. ChatB!Delay(t) \in Nat /\ (t <= MaxDelay => ChatB!Delay(t) = t)
    BY BanNames DEF ChatB!Delay
<1>4. new \in BanEntry /\ new.left = t /\ new.no = Bans + 1
    BY <1>2 DEF BanEntry
<1>5. new.whole => t <= MaxDelay
    OBVIOUS
<1>6. alarm \in Alarm /\ alarm.ip = ip /\ alarm.left = ChatB!Delay(t) /\ alarm.no = Bans + 1
    BY <1>2, <1>3 DEF Alarm
<1> HIDE DEF new, alarm
<1>7. BanTypes'
    BY <1>1, <1>4, <1>6 DEF BanInv, BanTypes
<1>8. bans'[ip] = new /\ \A j \in IPs \ {ip} : bans'[j] = bans[j]
    BY <1>1 DEF BanInv, BanTypes
<1>9. ASSUME NEW a \in alarms' PROVE AlarmOK(a)'
    <2>1. CASE a = alarm
        BY <1>2, <1>3, <1>4, <1>5, <1>6, <1>8, <2>1 DEF AlarmOK
    <2>2. CASE a \in alarms
        <3>1. a.no \in Nat /\ a.no <= Bans /\ a.ip \in IPs /\ AlarmOK(a)
            BY <2>2 DEF BanInv, BanTypes, Alarm, AlarmOK
        <3>2. CASE a.ip = ip
            BY <1>2, <1>4, <1>8, <3>1, <3>2 DEF AlarmOK
        <3>3. CASE a.ip # ip
            BY <1>2, <1>8, <3>1, <3>3 DEF AlarmOK
        <3> QED BY <3>2, <3>3
    <2> QED BY <1>1, <2>1, <2>2
<1>10. ASSUME NEW j \in IPs, bans'[j] # None PROVE bans'[j].no <= Bans'
    <2>1. CASE j = ip
        BY <1>2, <1>4, <1>8, <2>1
    <2>2. CASE j # ip
        <3>1. bans[j].no \in Nat /\ bans[j].no <= Bans
            BY <1>8, <1>10, <2>2 DEF BanInv, BanTypes, BanEntry
        <3> QED BY <1>2, <1>8, <2>2, <3>1
    <2> QED BY <2>1, <2>2
<1>11. new # None
    BY <1>4, BanNames
<1> QED BY <1>1, <1>6, <1>7, <1>8, <1>9, <1>10, <1>11

LEMMA TextArrivesOK ==
    ASSUME BanInv, NEW ip \in IPs, ChatB!TextArrives(ip)
    PROVE  BanInv' /\ (since[ip] = Frequency \/ overlapped[ip])
<1>1. /\ bans[ip] = None /\ said' = said + 1 /\ ChatB!Ban(ip, Frequency)
      /\ since' = [since EXCEPT ![ip] = 0] /\ harder' = harder
      /\ overlapped' = [overlapped EXCEPT ![ip] = \E a \in alarms : a.ip = ip]
    BY DEF ChatB!TextArrives, ChatB!Banned
<1>2. Bans' = Bans + 1 /\ said' \in Nat /\ harder' \in Nat
    BY <1>1 DEF BanInv, BanTypes, Bans
<1>3. /\ since' \in [IPs -> Nat] /\ since'[ip] = 0 /\ \A j \in IPs \ {ip} : since'[j] = since[j]
      /\ \A j \in IPs : since'[j] <= Frequency
    BY <1>1, BanNames DEF BanInv, BanTypes
<1>4. overlapped' \in [IPs -> BOOLEAN]
    BY <1>1 DEF BanInv, BanTypes
<1>5. /\ BanTypes'
      /\ \A a \in alarms' : AlarmOK(a)'
      /\ \A j \in IPs : bans'[j] # None => bans'[j].no <= Bans'
      /\ bans'[ip] # None /\ \A j \in IPs \ {ip} : bans'[j] = bans[j]
      /\ \A a \in alarms' : a \in alarms \/ (a.ip = ip /\ a.left = ChatB!Delay(Frequency))
    BY <1>1, <1>2, <1>3, <1>4, BanNames, BanOK
<1>6. ChatB!Delay(Frequency) = Frequency
    BY BanNames DEF ChatB!Delay
<1>7. ASSUME NEW j \in IPs PROVE TextOK(j)'
    <2>1. CASE j = ip
        <3>1. Apart(ip)' => \A a \in alarms : a.ip # ip
            BY <1>1 DEF Apart, BanInv, BanTypes
        <3>2. Apart(ip)' => \A a \in alarms' : a.ip = ip => a.left = Frequency
            BY <1>5, <1>6, <3>1
        <3> QED BY <1>3, <1>5, <2>1, <3>2, BanNames DEF TextOK
    <2>2. CASE j # ip
        <3>1. Apart(j)' <=> Apart(j)
            BY <1>1, <2>2 DEF Apart, BanInv, BanTypes
        <3>2. \A a \in alarms' : a.ip = j => a \in alarms
            BY <1>5, <2>2
        <3> QED BY <1>3, <1>5, <2>2, <3>1, <3>2 DEF BanInv, TextOK
    <2> QED BY <2>1, <2>2
<1>8. since[ip] = Frequency \/ overlapped[ip]
    <2>1. Apart(ip) => since[ip] = Frequency
        BY <1>1, BanNames DEF BanInv, BanTypes, TextOK
    <2> QED BY <2>1 DEF Apart
<1> QED BY <1>5, <1>7, <1>8 DEF BanInv

LEMMA AdminBanOK ==
    ASSUME BanInv, NEW ip \in IPs, NEW t \in BanTimes, ChatB!AdminBan(ip, t)
    PROVE  BanInv' /\ \A j \in IPs : bans'[j] = None => bans[j] = None
<1>1. /\ harder' = harder + 1 /\ said' = said /\ since' = since /\ ChatB!Ban(ip, t)
      /\ overlapped' = [overlapped EXCEPT ![ip] = TRUE]
    BY DEF ChatB!AdminBan
<1>2. Bans' = Bans + 1 /\ said' \in Nat /\ harder' \in Nat /\ t \in Nat
    BY <1>1, BanNames DEF BanInv, BanTypes, Bans
<1>3. since' \in [IPs -> Nat] /\ \A j \in IPs : since'[j] <= Frequency
    BY <1>1 DEF BanInv, BanTypes
<1>4. overlapped' \in [IPs -> BOOLEAN]
    BY <1>1 DEF BanInv, BanTypes
<1>5. /\ BanTypes'
      /\ \A a \in alarms' : AlarmOK(a)'
      /\ \A j \in IPs : bans'[j] # None => bans'[j].no <= Bans'
      /\ bans'[ip] # None /\ \A j \in IPs \ {ip} : bans'[j] = bans[j]
      /\ \A a \in alarms' : a \in alarms \/ (a.ip = ip /\ a.left = ChatB!Delay(t))
    BY <1>1, <1>2, <1>3, <1>4, BanOK
<1>6. ASSUME NEW j \in IPs PROVE TextOK(j)'
    <2>1. CASE j = ip
        <3>1. ~Apart(ip)'
            BY <1>1 DEF Apart, BanInv, BanTypes
        <3> QED BY <2>1, <3>1 DEF TextOK
    <2>2. CASE j # ip
        <3>1. Apart(j)' <=> Apart(j)
            BY <1>1, <2>2 DEF Apart, BanInv, BanTypes
        <3>2. \A a \in alarms' : a.ip = j => a \in alarms
            BY <1>5, <2>2
        <3> QED BY <1>1, <1>5, <2>2, <3>1, <3>2 DEF BanInv, TextOK
    <2> QED BY <2>1, <2>2
<1> QED BY <1>5, <1>6 DEF BanInv

LEMMA AlarmRingsOK ==
    ASSUME BanInv, NEW a \in alarms, ChatB!AlarmRings(a)
    PROVE  BanInv' /\ ChatB!BansEndInTime
<1>1. /\ a.left = 0 /\ bans' = [bans EXCEPT ![a.ip] = None] /\ alarms' = alarms \ {a}
      /\ UNCHANGED <<since, overlapped, said, harder>>
    BY DEF ChatB!AlarmRings
<1>2. a.ip \in IPs /\ AlarmOK(a)
    BY DEF BanInv, BanTypes, Alarm
<1>3. bans'[a.ip] = None /\ \A j \in IPs \ {a.ip} : bans'[j] = bans[j]
    BY <1>1, <1>2 DEF BanInv, BanTypes
<1>4. BanTypes' /\ Bans' = Bans
    BY <1>1 DEF BanInv, BanTypes, Bans
<1>5. ASSUME NEW b \in alarms' PROVE AlarmOK(b)'
    BY <1>1, <1>3, <1>4 DEF BanInv, BanTypes, Alarm, AlarmOK
<1>6. ASSUME NEW ip \in IPs PROVE TextOK(ip)'
    <2>1. Apart(ip)' <=> Apart(ip)
        BY <1>1 DEF Apart
    <2>2. Apart(a.ip) => ~(since[a.ip] < Frequency)
        BY <1>1, <1>2, BanNames DEF BanInv, BanTypes, TextOK
    <2>3. CASE ip = a.ip
        BY <1>1, <2>1, <2>2, <2>3 DEF BanInv, TextOK
    <2>4. CASE ip # a.ip
        BY <1>1, <1>3, <2>1, <2>4 DEF BanInv, TextOK
    <2> QED BY <2>3, <2>4
<1>7. ChatB!BansEndInTime
    <2> SUFFICES ASSUME NEW ip \in IPs, bans[ip] # None, bans'[ip] = None,
                        bans[ip].left # 0, bans[ip].whole
                 PROVE  \E b \in alarms \ alarms' : b.ip = ip /\ b.no # bans[ip].no
        BY DEF ChatB!BansEndInTime
    <2>1. ip = a.ip
        BY <1>3
    <2>2. a.no # bans[ip].no
        BY <1>1, <1>2, <2>1 DEF AlarmOK
    <2> QED BY <1>1, <2>1, <2>2
<1> QED BY <1>3, <1>4, <1>5, <1>6, <1>7 DEF BanInv

LEMMA BanTickOK ==
    ASSUME BanInv, ChatB!Tick
    PROVE  BanInv' /\ \A ip \in IPs : bans'[ip] = None => bans[ip] = None
<1>1. /\ alarms' = {[a EXCEPT !.left = ChatB!Sooner(a.left)] : a \in alarms}
      /\ bans' = [ip \in IPs |-> IF bans[ip] = None THEN None
                                 ELSE [bans[ip] EXCEPT !.left = ChatB!Sooner(bans[ip].left)]]
      /\ since' = [ip \in IPs |-> IF since[ip] < Frequency THEN since[ip] + 1 ELSE Frequency]
      /\ UNCHANGED <<overlapped, said, harder>>
    BY DEF ChatB!Tick
<1>2. \A n \in Nat : ChatB!Sooner(n) \in Nat /\ n <= ChatB!Sooner(n) + 1 /\ (n = 0 => ChatB!Sooner(n) = 0)
    BY DEF ChatB!Sooner
<1>3. ASSUME NEW b \in alarms'
      PROVE  \E a \in alarms : b.ip = a.ip /\ b.no = a.no /\ b.left = ChatB!Sooner(a.left) /\ b \in Alarm
    <2>1. PICK a \in alarms : b = [a EXCEPT !.left = ChatB!Sooner(a.left)]
        BY <1>1
    <2>2. a \in Alarm
        BY DEF BanInv, BanTypes
    <2>3. ChatB!Sooner(a.left) \in Nat
        BY <1>2, <2>2 DEF Alarm
    <2> QED BY <2>1, <2>2, <2>3 DEF Alarm
<1>4. ASSUME NEW ip \in IPs, bans[ip] # None
      PROVE  /\ bans'[ip] \in BanEntry /\ bans'[ip].no = bans[ip].no
             /\ bans'[ip].whole = bans[ip].whole /\ bans'[ip].left = ChatB!Sooner(bans[ip].left)
    <2>1. bans[ip] \in BanEntry
        BY <1>4 DEF BanInv, BanTypes
    <2>2. bans'[ip] = [bans[ip] EXCEPT !.left = ChatB!Sooner(bans[ip].left)]
        BY <1>1, <1>4
    <2>3. ChatB!Sooner(bans[ip].left) \in Nat
        BY <1>2, <2>1 DEF BanEntry
    <2> QED BY <2>1, <2>2, <2>3 DEF BanEntry
<1>5. \A ip \in IPs : bans'[ip] = None <=> bans[ip] = None
    BY <1>1, <1>4, BanNames
<1>6. ASSUME NEW ip \in IPs
      PROVE  /\ since'[ip] \in Nat /\ since'[ip] <= Frequency
             /\ since'[ip] = Frequency \/ since'[ip] = since[ip] + 1
             /\ since[ip] <= since'[ip]
    BY <1>1, BanNames DEF BanInv, BanTypes
<1>7. BanTypes' /\ Bans' = Bans
    <2>1. bans' \in [IPs -> BanEntry \cup {None}]
        <3>1. \A ip \in IPs : bans'[ip] \in BanEntry \cup {None}
            BY <1>4, <1>5
        <3> QED BY <1>1, <3>1
    <2>2. alarms' \subseteq Alarm
        BY <1>3
    <2>3. since' \in [IPs -> Nat]
        BY <1>1, <1>6
    <2> QED BY <1>1, <1>6, <2>1, <2>2, <2>3 DEF BanInv, BanTypes, Bans
<1>8. ASSUME NEW b \in alarms' PROVE AlarmOK(b)'
    <2>1. PICK a \in alarms : b.ip = a.ip /\ b.no = a.no /\ b.left = ChatB!Sooner(a.left)
        BY <1>3
    <2>2. AlarmOK(a) /\ a.ip \in IPs
        BY DEF BanInv, BanTypes, Alarm
    <2>3. bans'[b.ip] # None => bans[a.ip] # None
        BY <1>5, <2>1, <2>2
    <2> QED BY <1>4, <1>7, <2>1, <2>2, <2>3 DEF AlarmOK
<1>9. ASSUME NEW ip \in IPs PROVE TextOK(ip)'
    <2>1. Apart(ip)' <=> Apart(ip)
        BY <1>1 DEF Apart
    <2>2. ASSUME Apart(ip), NEW b \in alarms', b.ip = ip PROVE Frequency <= since'[ip] + b.left
        <3>1. PICK a \in alarms : b.ip = a.ip /\ b.left = ChatB!Sooner(a.left)
            BY <1>3
        <3>2. Frequency <= since[ip] + a.left /\ a.left \in Nat
            BY <2>2, <3>1 DEF BanInv, BanTypes, TextOK, Alarm
        <3>3. since[ip] \in Nat /\ b.left \in Nat /\ a.left <= b.left + 1
            BY <1>2, <3>1, <3>2 DEF BanInv, BanTypes
        <3> QED BY <1>6, <3>2, <3>3, BanNames
    <2>3. ASSUME Apart(ip), since'[ip] < Frequency PROVE bans'[ip] # None
        <3>1. since[ip] < Frequency
            BY <1>6, <2>3, BanNames DEF BanInv, BanTypes
        <3> QED BY <1>5, <2>3, <3>1 DEF BanInv, TextOK
    <2> QED BY <2>1, <2>2, <2>3 DEF TextOK
<1>10. ASSUME NEW ip \in IPs, bans'[ip] # None PROVE bans'[ip].no <= Bans'
    BY <1>4, <1>5, <1>7, <1>10 DEF BanInv
<1> QED BY <1>5, <1>7, <1>8, <1>9, <1>10 DEF BanInv

LEMMA ForgetOK == ASSUME BanInv, ChatB!Forget PROVE BanInv'
<1>1. /\ harder' = harder + 1 /\ said' = said /\ bans' = [ip \in IPs |-> None] /\ alarms' = {}
      /\ since' = [ip \in IPs |-> Frequency] /\ overlapped' = [ip \in IPs |-> FALSE]
    BY DEF ChatB!Forget
<1>2. BanTypes'
    BY <1>1, BanNames DEF BanInv, BanTypes
<1>3. \A ip \in IPs : bans'[ip] = None /\ since'[ip] = Frequency
    BY <1>1
<1>4. \A ip \in IPs : TextOK(ip)'
    BY <1>1, <1>3, BanNames DEF TextOK
<1> QED BY <1>1, <1>2, <1>3, <1>4 DEF BanInv

LEMMA BanStep ==
    ASSUME BanInv, ChatB!Next \/ UNCHANGED chatBanVars
    PROVE  BanInv' /\ (ChatB!BansEndInTime \/ UNCHANGED chatBanVars)
<1>1. CASE UNCHANGED chatBanVars
    BY <1>1 DEF chatBanVars, BanInv, BanTypes, AlarmOK, TextOK, Apart, Bans
<1>2. ASSUME NEW ip \in IPs, ChatB!TextArrives(ip) PROVE BanInv' /\ ChatB!BansEndInTime
    <2>1. bans[ip] = None /\ \A j \in IPs \ {ip} : bans'[j] = bans[j]
        BY <1>2 DEF ChatB!TextArrives, ChatB!Banned, ChatB!Ban, BanInv, BanTypes
    <2> QED BY <1>2, <2>1, TextArrivesOK DEF ChatB!BansEndInTime
<1>3. ASSUME NEW ip \in IPs, NEW t \in BanTimes, ChatB!AdminBan(ip, t)
      PROVE  BanInv' /\ ChatB!BansEndInTime
    BY <1>3, AdminBanOK DEF ChatB!BansEndInTime
<1>4. ASSUME NEW a \in alarms, ChatB!AlarmRings(a) PROVE BanInv' /\ ChatB!BansEndInTime
    BY <1>4, AlarmRingsOK
<1>5. CASE ChatB!Tick
    BY <1>5, BanTickOK DEF ChatB!BansEndInTime
<1>6. CASE ChatB!Forget
    BY <1>6, ForgetOK DEF ChatB!BansEndInTime
<1> QED BY <1>1, <1>2, <1>3, <1>4, <1>5, <1>6 DEF ChatB!Next

LEMMA BansStart == Init => BanInv
BY BanInit DEF Init

LEMMA BansGoOn ==
    BanInv /\ [Next]_serviceVars =>
        BanInv' /\ ChatB!FarEnough /\ [ChatB!BansEndInTime]_ChatB!chatBanVars
<1>1. ASSUME BanInv PROVE ChatB!FarEnough
    BY <1>1, TextArrivesOK DEF ChatB!FarEnough
<1> QED BY <1>1, BanStep, EachTakesItsOwnSteps DEF chatBanVars, ChatB!chatBanVars

\* Two texts of one address are Frequency apart, for every frequency an alarm
\* can wait for, whatever the order of texts, alarms and restarts; unless bans
\* of the address overlapped.
THEOREM TextsKeepApart == Spec => TextsAreLimited
BY BansStart, BansGoOn, PTL DEF Spec, TextsAreLimited, ChatB!TextsAreLimited

\* A ban ends before its time only by the alarm of another ban of its address,
\* by a time longer than an alarm can wait, or with the process.
THEOREM BansEndOnTime == Spec => BansLast
BY BansStart, BansGoOn, PTL DEF Spec, BansLast, ChatB!BansLast

-----------------------------------------------------------------------------
(* ChatMessages: the latest messages. *)

TextStates == [at: {"idle", "checking", "hiding", "inserting"}, text: Nat]

LoadStates == [at: {"asked", "read"}, no: Nat, texts: Seq(Nat)]

MessageTypes ==
    /\ handler \in [Handlers -> TextStates]
    /\ rows \in Seq([text: Nat, hidden: BOOLEAN])
    /\ loads \in [Loads -> LoadStates \cup {None}]
    /\ marks \in [read: Nat, shown: Nat, due: Nat]
    /\ notice \in BOOLEAN
    /\ count \in [texts: Nat, faults: Nat]

\* A text is inserted once.
TextsApart ==
    /\ \A i \in DOMAIN rows : rows[i].text <= count.texts
    /\ \A i, j \in DOMAIN rows : rows[i].text = rows[j].text => i = j
    /\ \A h \in Handlers : handler[h].at # "idle" =>
          /\ handler[h].text <= count.texts
          /\ \A i \in DOMAIN rows : rows[i].text # handler[h].text
          /\ \A g \in Handlers \ {h} : handler[g].at # "idle" => handler[g].text # handler[h].text

\* The rows may differ from those the last read has seen.
Outdated ==
    \/ \E l \in Loads : loads[l] # None /\ loads[l].at = "asked"
    \/ notice
    \/ marks.due > marks.read

Reads(l) == loads[l] # None /\ loads[l].at = "read"

Inserting == \E h \in Handlers : handler[h].at = "inserting"

\* What the last read has seen, under way or on show, is as the rows are.
LastRead ==
    /\ marks.shown <= marks.read
    /\ \A l \in Loads : Reads(l) => loads[l].no <= marks.read
    /\ ~Outdated =>
        /\ \A l \in Loads : Reads(l) /\ loads[l].no = marks.read => loads[l].texts = ChatM!NewestRows
        /\ marks.shown = marks.read /\ ~Inserting => recent = ChatM!NewestRows

MessageInv == MessageTypes /\ TextsApart /\ LastRead

\* Every number of newer messages below the number of messages is that of one.
LEMMA NewerIs ==
    ASSUME MessageTypes
    PROVE  /\ ChatM!VisibleRows \in SUBSET Nat /\ IsFiniteSet(ChatM!VisibleRows)
           /\ ChatM!Cardinality(ChatM!VisibleRows) \in Nat
           /\ ChatM!Cardinality(ChatM!VisibleRows) = Cardinality(ChatM!VisibleRows)
           /\ \A i \in ChatM!VisibleRows :
                 ChatM!Newer(i) \in 0..(ChatM!Cardinality(ChatM!VisibleRows) - 1)
           /\ \A i, j \in ChatM!VisibleRows : ChatM!Newer(i) = ChatM!Newer(j) => i = j
           /\ \A n \in 0..(ChatM!Cardinality(ChatM!VisibleRows) - 1) :
                 \E i \in ChatM!VisibleRows : ChatM!Newer(i) = n
<1> DEFINE V == ChatM!VisibleRows
           newer(i) == {j \in V : j > i}
           size == Cardinality(V)
<1>1. V \in SUBSET (1..Len(rows)) /\ Len(rows) \in Nat
    BY DEF ChatM!VisibleRows, MessageTypes
<1>2. V \in SUBSET Nat /\ IsFiniteSet(V)
    <2>1. IsFiniteSet(1..Len(rows))
        BY <1>1, FS_Interval
    <2>2. \A i \in 1..Len(rows) : i \in Nat
        BY <1>1
    <2>3. V \in SUBSET Nat
        <3> HIDE DEF V
        <3> QED BY <1>1, <2>2
    <2>4. IsFiniteSet(V)
        <3> HIDE DEF V
        <3> QED BY <1>1, <2>1, FS_Subset
    <2> QED BY <2>3, <2>4
<1>3. /\ size \in Nat /\ ChatM!Cardinality(V) = size
      /\ \A i : ChatM!Newer(i) = Cardinality(newer(i))
    <2>1. \A S : ChatM!Cardinality(S) = Cardinality(S)
        BY DEF ChatM!Cardinality, Cardinality
    <2> QED BY <1>2, <2>1, FS_CardinalityType DEF ChatM!Newer
<1>4. ASSUME NEW i \in V
      PROVE  IsFiniteSet(newer(i)) /\ Cardinality(newer(i)) \in Nat /\ Cardinality(newer(i)) < size
    <2>1. newer(i) \in SUBSET V /\ i \in Nat /\ i \notin newer(i)
        BY <1>2
    <2>2. IsFiniteSet(newer(i)) /\ Cardinality(newer(i)) <= size /\ (size = Cardinality(newer(i)) => V = newer(i))
        <3> HIDE DEF V, newer
        <3> QED BY <1>2, <2>1, FS_Subset
    <2>3. Cardinality(newer(i)) # size
        BY <2>1, <2>2
    <2>4. Cardinality(newer(i)) \in Nat
        BY <2>2, FS_CardinalityType
    <2> HIDE DEF V, newer, size
    <2> QED BY <1>3, <2>2, <2>3, <2>4
<1>5. ASSUME NEW i \in V, NEW j \in V, i < j PROVE Cardinality(newer(j)) < Cardinality(newer(i))
    <2>0. \A k \in V : k \in Nat
        BY <1>2
    <2>1. j \in newer(i) /\ j \notin newer(j)
        BY <1>5, <2>0
    <2>2. ASSUME NEW k \in newer(j) PROVE k \in newer(i)
        <3>1. k \in V /\ k > j /\ k \in Nat /\ i \in Nat /\ j \in Nat
            BY <2>0
        <3>2. k > i
            BY <1>5, <3>1
        <3> QED BY <3>1, <3>2
    <2>3. newer(j) \in SUBSET newer(i)
        BY <2>2
    <2>4. IsFiniteSet(newer(i)) /\ Cardinality(newer(i)) \in Nat /\ Cardinality(newer(j)) \in Nat
        BY <1>4
    <2>5. Cardinality(newer(j)) <= Cardinality(newer(i)) /\ Cardinality(newer(j)) # Cardinality(newer(i))
        <3> HIDE DEF newer
        <3> QED BY <2>1, <2>3, <2>4, FS_Subset
    <2> HIDE DEF newer
    <2> QED BY <2>4, <2>5
<1>6. \A i, j \in V : ChatM!Newer(i) = ChatM!Newer(j) => i = j
    <2> SUFFICES ASSUME NEW i \in V, NEW j \in V, ChatM!Newer(i) = ChatM!Newer(j) PROVE i = j
        OBVIOUS
    <2>1. i \in Nat /\ j \in Nat /\ Cardinality(newer(i)) \in Nat /\ Cardinality(newer(i)) = Cardinality(newer(j))
        BY <1>2, <1>3, <1>4
    <2>2. ~(i < j) /\ ~(j < i)
        BY <1>5, <2>1
    <2> QED BY <2>1, <2>2
<1>7. \A i \in V : ChatM!Newer(i) \in 0..(size - 1)
    <2> TAKE i \in V
    <2>1. Cardinality(newer(i)) \in Nat /\ Cardinality(newer(i)) < size /\ ChatM!Newer(i) = Cardinality(newer(i))
        BY <1>3, <1>4
    <2> HIDE DEF newer, size
    <2> QED BY <1>3, <2>1
<1> DEFINE place == [i \in V |-> ChatM!Newer(i)]
<1>8. place \in Injection(V, 0..(size - 1))
    <2> HIDE DEF V, size
    <2> QED BY <1>6, <1>7 DEF Injection, IsInjective
<1>9. IsFiniteSet(0..(size - 1)) /\ Cardinality(0..(size - 1)) = size
    <2>1. size - 1 \in Int /\ (0 > size - 1 => size = 0) /\ (size - 1) - 0 + 1 = size
        <3> HIDE DEF size
        <3> QED BY <1>3
    <2>2. Cardinality(0..(size - 1)) = IF 0 > size - 1 THEN 0 ELSE (size - 1) - 0 + 1
        BY <2>1, FS_Interval
    <2> HIDE DEF size
    <2> QED BY <2>1, <2>2, FS_Interval
<1>10. place \in Surjection(V, 0..(size - 1))
    <2> HIDE DEF V, place
    <2> QED BY <1>8, <1>9, FS_Injection
<1>11. \A n \in 0..(size - 1) : \E i \in V : ChatM!Newer(i) = n
    <2> HIDE DEF V, size
    <2> QED BY <1>10 DEF Surjection
<1> QED BY <1>2, <1>3, <1>6, <1>7, <1>11

\* The list that is read holds the texts of the newest visible rows, each once.
LEMMA NewestRowsIs ==
    ASSUME MessageTypes, TextsApart
    PROVE  /\ ChatM!NewestRows \in Seq(Nat)
           /\ ChatM!ToSet(ChatM!NewestRows) = ChatM!NewestVisible
           /\ Len(ChatM!NewestRows) = ChatM!Cardinality(ChatM!NewestVisible)
<1> DEFINE V == ChatM!VisibleRows
           size == Cardinality(V)
           length == IF size < NumLatest THEN size ELSE NumLatest
           row(k) == CHOOSE i \in V : ChatM!Newer(i) = k - 1
           list == ChatM!NewestRows
<1>1. NumLatest \in Nat /\ size \in Nat /\ length \in Nat
    BY NewerIs, ServicesOK DEF ServicesOK, MessagesOK
<1>2. list = [k \in 1..length |-> rows[row(k)].text]
    BY NewerIs DEF ChatM!NewestRows
<1>3. \A k \in 1..length : row(k) \in V /\ ChatM!Newer(row(k)) = k - 1
    <2> TAKE k \in 1..length
    <2>1. k - 1 \in 0..(size - 1)
        <3> HIDE DEF size
        <3> QED BY <1>1
    <2>2. \E i \in V : ChatM!Newer(i) = k - 1
        BY <2>1, NewerIs
    <2> HIDE DEF V
    <2> QED BY <2>2
<1>4. \A i \in V : i \in DOMAIN rows /\ ~rows[i].hidden /\ rows[i].text \in Nat
    <2> TAKE i \in V
    <2>1. i \in DOMAIN rows /\ ~rows[i].hidden
        BY DEF ChatM!VisibleRows
    <2>2. rows[i] \in [text: Nat, hidden: BOOLEAN]
        <3>1. rows \in Seq([text: Nat, hidden: BOOLEAN])
            BY DEF MessageTypes
        <3>2. \A S : rows \in Seq(S) => \A k \in DOMAIN rows : rows[k] \in S
            OBVIOUS
        <3> QED BY <2>1, <3>1, <3>2
    <2> QED BY <2>1, <2>2
<1>5. list \in Seq(Nat) /\ Len(list) = length
    <2>1. list \in [1..length -> Nat]
        <3> HIDE DEF V, length, row, list
        <3> QED BY <1>2, <1>3, <1>4
    <2> HIDE DEF list, length
    <2> QED BY <1>1, <2>1
<1>6. ChatM!NewestVisible = {rows[i].text : i \in {i \in V : ChatM!Newer(i) < NumLatest}}
    BY DEF ChatM!NewestVisible, ChatM!VisibleRows, ChatM!Newer
<1>7. \A k \in 1..length : list[k] \in ChatM!NewestVisible
    <2> TAKE k \in 1..length
    <2>1. row(k) \in V /\ ChatM!Newer(row(k)) < NumLatest /\ list[k] = rows[row(k)].text
        <3>1. k - 1 < NumLatest
            <4> HIDE DEF size
            <4> QED BY <1>1
        <3> HIDE DEF V, length, row, list
        <3> QED BY <1>2, <1>3, <3>1
    <2> HIDE DEF V, row, list
    <2> QED BY <1>6, <2>1
<1>8. \A x \in ChatM!NewestVisible : \E k \in 1..length : list[k] = x
    <2> TAKE x \in ChatM!NewestVisible
    <2>1. PICK i \in V : ChatM!Newer(i) < NumLatest /\ x = rows[i].text
        <3> HIDE DEF V
        <3> QED BY <1>6
    <2>2. ChatM!Newer(i) \in 0..(size - 1)
        BY NewerIs
    <2>3. ChatM!Newer(i) + 1 \in 1..length /\ (ChatM!Newer(i) + 1) - 1 = ChatM!Newer(i)
        <3> HIDE DEF size
        <3> QED BY <1>1, <2>1, <2>2
    <2>4. row(ChatM!Newer(i) + 1) \in V /\ ChatM!Newer(row(ChatM!Newer(i) + 1)) = ChatM!Newer(i)
        <3> HIDE DEF V, length, row
        <3> QED BY <1>3, <2>3
    <2>5. row(ChatM!Newer(i) + 1) = i
        <3> HIDE DEF row
        <3> QED BY <2>4, NewerIs
    <2>6. list[ChatM!Newer(i) + 1] = x
        <3> HIDE DEF V, length, row, list
        <3> QED BY <1>2, <2>1, <2>3, <2>5
    <2> HIDE DEF length, list
    <2> QED BY <2>3, <2>6
<1>9. \A k, m \in 1..length : list[k] = list[m] => k = m
    <2> SUFFICES ASSUME NEW k \in 1..length, NEW m \in 1..length, list[k] = list[m] PROVE k = m
        OBVIOUS
    <2>1. rows[row(k)].text = rows[row(m)].text
        <3> HIDE DEF row, length, list
        <3> QED BY <1>2
    <2>2. row(k) = row(m)
        <3>1. row(k) \in DOMAIN rows /\ row(m) \in DOMAIN rows
            <4> HIDE DEF row, V, length
            <4> QED BY <1>3, <1>4
        <3> HIDE DEF row
        <3> QED BY <2>1, <3>1 DEF TextsApart
    <2>3. k - 1 = m - 1
        <3> HIDE DEF row, V, length
        <3> QED BY <1>3, <2>2
    <2>4. k \in Int /\ m \in Int
        <3> HIDE DEF size
        <3> QED BY <1>1
    <2> QED BY <2>3, <2>4
<1>10. list \in Injection(1..length, ChatM!NewestVisible) /\ list \in Surjection(1..length, ChatM!NewestVisible)
    <2>1. list = [k \in 1..length |-> list[k]]
        <3> HIDE DEF row, length, list
        <3> QED BY <1>2
    <2>2. list \in [1..length -> ChatM!NewestVisible]
        <3> HIDE DEF length, list
        <3> QED BY <2>1, <1>7
    <2> HIDE DEF length, list
    <2> QED BY <2>2, <1>8, <1>9 DEF Injection, IsInjective, Surjection
<1>11. IsFiniteSet(1..length) /\ Cardinality(1..length) = length
    <2>1. IsFiniteSet(1..length) /\ Cardinality(1..length) = IF 1 > length THEN 0 ELSE length - 1 + 1
        <3> HIDE DEF length
        <3> QED BY <1>1, FS_Interval
    <2> HIDE DEF length
    <2> QED BY <1>1, <2>1
<1>12. Cardinality(ChatM!NewestVisible) = length
    <2>1. list \in Bijection(1..length, ChatM!NewestVisible)
        <3> HIDE DEF length, list
        <3> QED BY <1>10 DEF Bijection
    <2>2. ExistsBijection(1..length, ChatM!NewestVisible)
        <3> HIDE DEF length, list
        <3> QED BY <2>1 DEF ExistsBijection
    <2> HIDE DEF length
    <2> QED BY <1>11, <2>2, FS_Bijection
<1>13. ChatM!Cardinality(ChatM!NewestVisible) = length
    BY <1>12 DEF ChatM!Cardinality, Cardinality
<1>14. ChatM!ToSet(list) = ChatM!NewestVisible
    <2>1. DOMAIN list = 1..length
        <3> HIDE DEF row, length
        <3> QED BY <1>2
    <2>2. ChatM!ToSet(list) = {list[k] : k \in 1..length}
        <3> HIDE DEF length, list
        <3> QED BY <2>1 DEF ChatM!ToSet
    <2> HIDE DEF length, list
    <2> QED BY <1>7, <1>8, <2>2
<1> QED BY <1>5, <1>13, <1>14

\* The list depends on the visible rows only.
LEMMA SameVisibleSameList ==
    ASSUME MessageTypes, ChatM!VisibleRows' = ChatM!VisibleRows,
           \A i \in ChatM!VisibleRows : rows'[i] = rows[i]
    PROVE  ChatM!NewestRows' = ChatM!NewestRows
<1>2. ChatM!Cardinality(ChatM!VisibleRows') = ChatM!Cardinality(ChatM!VisibleRows)
    OBVIOUS
<1> DEFINE size == ChatM!Cardinality(ChatM!VisibleRows)
           length == IF size < NumLatest THEN size ELSE NumLatest
           row(k) == CHOOSE i \in ChatM!VisibleRows : ChatM!Newer(i) = k - 1
           newer(i) == ChatM!Cardinality({j \in ChatM!VisibleRows' : j > i})
           new(k) == CHOOSE i \in ChatM!VisibleRows' : newer(i) = k - 1
<1>1. \A i : newer(i) = ChatM!Newer(i)
    BY DEF ChatM!Newer
<1>3. \A k \in 1..length : row(k) \in ChatM!VisibleRows /\ new(k) = row(k)
    <2> TAKE k \in 1..length
    <2>1. k - 1 \in 0..(size - 1)
        <3>1. NumLatest \in Nat /\ size \in Nat
            BY NewerIs, ServicesOK DEF ServicesOK, MessagesOK
        <3> HIDE DEF size
        <3> QED BY <3>1
    <2>2. \E i \in ChatM!VisibleRows : ChatM!Newer(i) = k - 1
        BY <2>1, NewerIs
    <2>3. \E i \in ChatM!VisibleRows' : newer(i) = k - 1
        BY <1>1, <2>2
    <2>4. row(k) \in ChatM!VisibleRows /\ ChatM!Newer(row(k)) = k - 1
        BY <2>2
    <2>5. new(k) \in ChatM!VisibleRows' /\ newer(new(k)) = k - 1
        BY <2>3
    <2> HIDE DEF row, new, newer
    <2>6. new(k) \in ChatM!VisibleRows /\ ChatM!Newer(new(k)) = k - 1
        BY <1>1, <2>5
    <2> QED BY <2>4, <2>6, NewerIs
<1>4. ChatM!NewestRows = [k \in 1..length |-> rows[row(k)].text]
    BY DEF ChatM!NewestRows
<1>5. ChatM!NewestRows' = [k \in 1..length |-> rows'[new(k)].text]
    BY <1>2 DEF ChatM!NewestRows, ChatM!Newer
<1>6. \A k \in 1..length : rows'[new(k)].text = rows[row(k)].text
    <2> HIDE DEF length, row, new
    <2> QED BY <1>3
<1> HIDE DEF length, row, new
<1> QED BY <1>4, <1>5, <1>6

LEMMA SameRowsSameList == ASSUME MessageTypes, rows' = rows PROVE ChatM!NewestRows' = ChatM!NewestRows
<1>1. ChatM!VisibleRows' = ChatM!VisibleRows
    BY DEF ChatM!VisibleRows
<1> QED BY <1>1, SameVisibleSameList

\* A row that is hidden from the start changes nothing of the list.
LEMMA HiddenRowSameList ==
    ASSUME MessageTypes, NEW r, r.hidden = TRUE, rows' = Append(rows, r)
    PROVE  ChatM!NewestRows' = ChatM!NewestRows
<1>1. rows \in Seq([text: Nat, hidden: BOOLEAN])
    BY DEF MessageTypes
<1>2. /\ DOMAIN rows' = DOMAIN rows \cup {Len(rows) + 1} /\ Len(rows) + 1 \notin DOMAIN rows
      /\ rows'[Len(rows) + 1] = r /\ \A i \in DOMAIN rows : rows'[i] = rows[i]
    <2>1. DOMAIN rows = 1..Len(rows) /\ Len(rows) \in Nat
        BY <1>1
    <2>2. DOMAIN rows' = 1..(Len(rows) + 1)
        BY <1>1
    <2>3. rows'[Len(rows) + 1] = r /\ \A i \in 1..Len(rows) : rows'[i] = rows[i]
        BY <1>1
    <2> QED BY <2>1, <2>2, <2>3
<1>3. ChatM!VisibleRows' = ChatM!VisibleRows
    <2>1. \A i : i \in ChatM!VisibleRows' <=> i \in DOMAIN rows' /\ ~rows'[i].hidden
        BY DEF ChatM!VisibleRows
    <2>2. \A i : i \in ChatM!VisibleRows <=> i \in DOMAIN rows /\ ~rows[i].hidden
        BY DEF ChatM!VisibleRows
    <2>3. \A i : i \in ChatM!VisibleRows' <=> i \in ChatM!VisibleRows
        BY <1>2, <2>1, <2>2
    <2> QED BY <2>3
<1>4. \A i \in ChatM!VisibleRows : rows'[i] = rows[i]
    BY <1>2 DEF ChatM!VisibleRows
<1> QED BY <1>3, <1>4, SameVisibleSameList

LEMMA MessageFacts ==
    ASSUME MessageTypes
    PROVE  /\ marks.read \in Nat /\ marks.shown \in Nat /\ marks.due \in Nat
           /\ count.texts \in Nat /\ count.faults \in Nat /\ NumLatest \in Nat
           /\ \A h \in Handlers : handler[h] \in TextStates
           /\ \A l \in Loads : loads[l] # None =>
                 loads[l] \in LoadStates /\ loads[l].at \in {"asked", "read"} /\ loads[l].no \in Nat
           /\ \A i \in DOMAIN rows : rows[i].text \in Nat /\ rows[i].hidden \in BOOLEAN
<1>1. /\ marks.read \in Nat /\ marks.shown \in Nat /\ marks.due \in Nat
      /\ count.texts \in Nat /\ count.faults \in Nat
    BY DEF MessageTypes
<1>2. \A h \in Handlers : handler[h] \in TextStates
    BY DEF MessageTypes
<1>3. \A l \in Loads : loads[l] # None => loads[l] \in LoadStates
    BY DEF MessageTypes
<1>4. \A l \in Loads : loads[l] # None => loads[l].at \in {"asked", "read"} /\ loads[l].no \in Nat
    BY <1>3 DEF LoadStates
<1>5. \A i \in DOMAIN rows : rows[i].text \in Nat /\ rows[i].hidden \in BOOLEAN
    <2>1. rows \in Seq([text: Nat, hidden: BOOLEAN])
        BY DEF MessageTypes
    <2>2. \A S : rows \in Seq(S) => \A k \in DOMAIN rows : rows[k] \in S
        OBVIOUS
    <2>3. \A k \in DOMAIN rows : rows[k] \in [text: Nat, hidden: BOOLEAN]
        BY <2>1, <2>2
    <2> QED BY <2>3
<1> QED BY <1>1, <1>2, <1>3, <1>4, <1>5, ServicesOK DEF ServicesOK, MessagesOK

\* A handler goes on.
LEMMA GoesIs ==
    ASSUME MessageTypes, NEW h \in Handlers, NEW at \in {"idle", "checking", "hiding", "inserting"},
           ChatM!Goes(h, at)
    PROVE  /\ handler' \in [Handlers -> TextStates]
           /\ handler'[h].at = at /\ (at # "idle" => handler'[h].text = handler[h].text)
           /\ \A g \in Handlers \ {h} : handler'[g] = handler[g]
<1>1. handler \in [Handlers -> TextStates] /\ handler[h] \in TextStates
    BY DEF MessageTypes
<1>2. handler' = [handler EXCEPT ![h] = IF at = "idle" THEN ChatM!Idle ELSE [handler[h] EXCEPT !.at = at]]
    BY DEF ChatM!Goes
<1>3. ChatM!Idle \in TextStates /\ ChatM!Idle.at = "idle"
    BY DEF ChatM!Idle, TextStates
<1>4. /\ [handler[h] EXCEPT !.at = at] \in TextStates
      /\ [handler[h] EXCEPT !.at = at].at = at /\ [handler[h] EXCEPT !.at = at].text = handler[h].text
    BY <1>1 DEF TextStates
<1> HIDE DEF TextStates
<1> QED BY <1>1, <1>2, <1>3, <1>4

\* A load begins in a place of its own.
LEMMA BeginLoadIs ==
    ASSUME MessageTypes, ChatM!BeginLoad
    PROVE  /\ loads' \in [Loads -> LoadStates \cup {None}]
           /\ \E l \in Loads : /\ loads'[l] # None /\ loads'[l].at = "asked"
                               /\ \A m \in Loads \ {l} : loads'[m] = loads[m]
<1>1. PICK l \in Loads : loads' = [loads EXCEPT ![l] = [at |-> "asked", no |-> 0, texts |-> <<>>]]
    BY DEF ChatM!BeginLoad
<1>2. [at |-> "asked", no |-> 0, texts |-> <<>>] \in LoadStates
    BY DEF LoadStates
<1>3. [at |-> "asked", no |-> 0, texts |-> <<>>] # None
    BY <1>2, ServicesOK DEF ServicesOK, MessagesOK, LoadStates
<1>4. loads \in [Loads -> LoadStates \cup {None}]
    BY DEF MessageTypes
<1>5. loads'[l] = [at |-> "asked", no |-> 0, texts |-> <<>>] /\ \A m \in Loads \ {l} : loads'[m] = loads[m]
    BY <1>1, <1>4
<1>6. loads' \in [Loads -> LoadStates \cup {None}]
    BY <1>1, <1>2, <1>4
<1> QED BY <1>3, <1>5, <1>6

LEMMA MessagesStart == ChatM!Init => MessageInv
<1> SUFFICES ASSUME ChatM!Init PROVE MessageInv
    OBVIOUS
<1>1. /\ handler = [h \in Handlers |-> ChatM!Idle] /\ rows = <<>> /\ recent = <<>>
      /\ loads = [l \in Loads |-> None] /\ marks = [read |-> 0, shown |-> 0, due |-> 0]
      /\ notice = FALSE /\ count = [texts |-> 0, faults |-> 0]
    BY DEF ChatM!Init
<1>2. MessageTypes
    <2>1. handler \in [Handlers -> TextStates]
        BY <1>1 DEF TextStates, ChatM!Idle
    <2>2. rows \in Seq([text: Nat, hidden: BOOLEAN])
        BY <1>1
    <2>3. loads \in [Loads -> LoadStates \cup {None}] /\ marks \in [read: Nat, shown: Nat, due: Nat]
          /\ count \in [texts: Nat, faults: Nat] /\ notice \in BOOLEAN
        BY <1>1
    <2> QED BY <2>1, <2>2, <2>3 DEF MessageTypes
<1>3. TextsApart
    BY <1>1 DEF TextsApart, ChatM!Idle
<1>4. ChatM!NewestRows = <<>>
    <2>1. ChatM!VisibleRows = {}
        BY <1>1 DEF ChatM!VisibleRows
    <2>2. ChatM!Cardinality(ChatM!VisibleRows) = 0
        BY <2>1, NewerIs, <1>2, FS_EmptySet
    <2>3. DOMAIN ChatM!NewestRows = {}
        <3>1. NumLatest \in Nat
            BY ServicesOK DEF ServicesOK, MessagesOK
        <3> QED BY <2>2, <3>1 DEF ChatM!NewestRows
    <2>4. ChatM!NewestRows \in Seq(Nat)
        BY <1>2, <1>3, NewestRowsIs
    <2> QED BY <2>3, <2>4
<1>5. LastRead
    BY <1>1, <1>4 DEF LastRead, Reads
<1> QED BY <1>2, <1>3, <1>5 DEF MessageInv

\* Where the rows may differ from what was read, little is asked.
LEMMA OutdatedIsFine ==
    ASSUME Outdated', marks'.shown <= marks'.read,
           \A l \in Loads : Reads(l)' => loads'[l].no <= marks'.read
    PROVE  LastRead'
BY DEF LastRead

LEMMA FaultIs == ASSUME MessageTypes, ChatM!Fault
    PROVE  count' \in [texts: Nat, faults: Nat] /\ count'.texts = count.texts
BY DEF MessageTypes, ChatM!Fault

LEMMA NextReadIs == ASSUME MessageTypes, ChatM!NextReadCounts
    PROVE  /\ marks' \in [read: Nat, shown: Nat, due: Nat]
           /\ marks'.read = marks.read /\ marks'.shown = marks.shown /\ marks'.due > marks'.read
BY DEF MessageTypes, ChatM!NextReadCounts

LEMMA TextComesOK ==
    ASSUME MessageInv, NEW h \in Handlers, ChatM!TextComes(h)
    PROVE  MessageInv'
<1>0. MessageTypes /\ TextsApart /\ LastRead
    BY DEF MessageInv
<1>1. /\ handler[h] = ChatM!Idle /\ count' = [count EXCEPT !.texts = @ + 1]
      /\ handler' = [handler EXCEPT ![h] = [at |-> "checking", text |-> count'.texts]]
      /\ UNCHANGED <<rows, recent, loads, marks, notice>>
    BY DEF ChatM!TextComes
<1>2. count' \in [texts: Nat, faults: Nat] /\ count'.texts = count.texts + 1 /\ count.texts \in Nat
    BY <1>0, <1>1 DEF MessageTypes
<1>3. handler' \in [Handlers -> TextStates]
    BY <1>0, <1>1, <1>2 DEF MessageTypes, TextStates
<1>4. /\ handler'[h].at = "checking" /\ handler'[h].text = count.texts + 1 /\ handler[h].at = "idle"
      /\ \A g \in Handlers \ {h} : handler'[g] = handler[g]
    BY <1>0, <1>1, <1>2 DEF MessageTypes, ChatM!Idle
<1>5. MessageTypes'
    BY <1>0, <1>1, <1>2, <1>3 DEF MessageTypes
<1>6. TextsApart'
    <2>1. \A i \in DOMAIN rows : rows[i].text \in Nat /\ rows[i].text <= count.texts
        BY <1>0, MessageFacts DEF TextsApart
    <2>2. \A g \in Handlers : handler[g].text \in Nat
        BY <1>0, MessageFacts DEF TextStates
    <2>3. \A i \in DOMAIN rows : rows[i].text <= count.texts + 1 /\ rows[i].text # count.texts + 1
        BY <1>2, <2>1
    <2>4. \A g \in Handlers : handler[g].at # "idle" =>
             handler[g].text <= count.texts + 1 /\ handler[g].text # count.texts + 1
        BY <1>0, <1>2, <2>2 DEF TextsApart
    <2> QED BY <1>0, <1>1, <1>2, <1>4, <2>3, <2>4 DEF TextsApart
<1>7. LastRead'
    <2>1. ChatM!NewestRows' = ChatM!NewestRows
        BY <1>0, <1>1, SameRowsSameList
    <2>2. (Outdated' <=> Outdated) /\ \A l : Reads(l)' <=> Reads(l)
        BY <1>1 DEF Outdated, Reads
    <2>3. Inserting => Inserting'
        BY <1>4 DEF Inserting
    <2> QED BY <1>0, <1>1, <2>1, <2>2, <2>3 DEF LastRead
<1> QED BY <1>5, <1>6, <1>7 DEF MessageInv

LEMMA CheckedOK ==
    ASSUME MessageInv, NEW h \in Handlers, ChatM!Checked(h)
    PROVE  MessageInv'
<1>0. MessageTypes /\ TextsApart /\ LastRead
    BY DEF MessageInv
<1>1. PICK at \in {"hiding", "idle", "inserting"} :
        ChatM!Goes(h, at) /\ (at # "inserting" => UNCHANGED recent)
    BY DEF ChatM!Checked
<1>2. handler[h].at = "checking" /\ UNCHANGED <<rows, loads, marks, notice, count>>
    BY DEF ChatM!Checked
<1>3. /\ handler' \in [Handlers -> TextStates]
      /\ handler'[h].at = at /\ (at # "idle" => handler'[h].text = handler[h].text)
      /\ \A g \in Handlers \ {h} : handler'[g] = handler[g]
    BY <1>0, <1>1, GoesIs
<1>4. MessageTypes'
    BY <1>0, <1>2, <1>3 DEF MessageTypes
<1>5. TextsApart'
    BY <1>0, <1>2, <1>3 DEF TextsApart
<1>6. LastRead'
    <2>1. ChatM!NewestRows' = ChatM!NewestRows
        BY <1>0, <1>2, SameRowsSameList
    <2>2. (Outdated' <=> Outdated) /\ \A l : Reads(l)' <=> Reads(l)
        BY <1>2 DEF Outdated, Reads
    <2>3. (Inserting => Inserting') /\ (at = "inserting" => Inserting')
        BY <1>2, <1>3 DEF Inserting
    <2> QED BY <1>0, <1>1, <1>2, <2>1, <2>2, <2>3 DEF LastRead
<1> QED BY <1>4, <1>5, <1>6 DEF MessageInv

\* A row is added for the text of a handler that ends with it.
LEMMA InsertApart ==
    ASSUME MessageTypes, TextsApart, NEW h \in Handlers, handler[h].at # "idle", NEW hidden \in BOOLEAN,
           rows' = Append(rows, [text |-> handler[h].text, hidden |-> hidden]),
           ChatM!Goes(h, "idle"), UNCHANGED count
    PROVE  /\ handler' \in [Handlers -> TextStates]
           /\ rows' \in Seq([text: Nat, hidden: BOOLEAN])
           /\ handler'[h].at = "idle" /\ \A g \in Handlers \ {h} : handler'[g] = handler[g]
           /\ TextsApart'
<1>1. /\ handler' \in [Handlers -> TextStates]
      /\ handler'[h].at = "idle" /\ \A g \in Handlers \ {h} : handler'[g] = handler[g]
    BY GoesIs
<1>2. handler[h].text \in Nat /\ rows \in Seq([text: Nat, hidden: BOOLEAN])
    BY DEF MessageTypes, TextStates
<1> DEFINE new == [text |-> handler[h].text, hidden |-> hidden]
           Set == [text: Nat, hidden: BOOLEAN]
<1>3. new \in Set /\ new.text = handler[h].text
    BY <1>2
<1>4. rows' \in Seq(Set) /\ rows' = Append(rows, new) /\ rows \in Seq(Set)
    <2>1. rows' = Append(rows, new) /\ rows \in Seq(Set)
        BY <1>2
    <2> HIDE DEF new, Set
    <2> QED BY <1>3, <2>1
<1>5. /\ DOMAIN rows' = DOMAIN rows \cup {Len(rows) + 1} /\ Len(rows) + 1 \notin DOMAIN rows
      /\ rows'[Len(rows) + 1] = new /\ \A i \in DOMAIN rows : rows'[i] = rows[i]
    <2> HIDE DEF new, Set
    <2>1. DOMAIN rows = 1..Len(rows) /\ Len(rows) \in Nat
        BY <1>4
    <2>2. DOMAIN rows' = 1..(Len(rows) + 1)
        BY <1>4
    <2>3. rows'[Len(rows) + 1] = new /\ \A i \in 1..Len(rows) : rows'[i] = rows[i]
        BY <1>4
    <2> QED BY <2>1, <2>2, <2>3
<1>6. TextsApart'
    <2> HIDE DEF new, Set
    <2>1. \A i \in DOMAIN rows' : rows'[i].text <= count.texts
        BY <1>3, <1>5 DEF TextsApart
    <2>2. \A i, j \in DOMAIN rows' : rows'[i].text = rows'[j].text => i = j
        BY <1>3, <1>5 DEF TextsApart
    <2>3. \A g \in Handlers : handler'[g].at # "idle" =>
            /\ handler'[g].text <= count.texts
            /\ \A i \in DOMAIN rows' : rows'[i].text # handler'[g].text
            /\ \A f \in Handlers \ {g} : handler'[f].at # "idle" => handler'[f].text # handler'[g].text
        BY <1>1, <1>3, <1>5 DEF TextsApart
    <2> QED BY <2>1, <2>2, <2>3 DEF TextsApart
<1> QED BY <1>1, <1>4, <1>6

LEMMA InsertOK ==
    ASSUME MessageInv, NEW h \in Handlers, ChatM!Insert(h)
    PROVE  MessageInv'
<1>0. MessageTypes /\ TextsApart /\ LastRead
    BY DEF MessageInv
<1>1. /\ \/ handler[h].at = "inserting" /\ ChatM!BeginLoad
         \/ handler[h].at = "hiding" /\ UNCHANGED loads
      /\ rows' = Append(rows, [text |-> handler[h].text, hidden |-> handler[h].at = "hiding"])
      /\ ChatM!Goes(h, "idle") /\ UNCHANGED <<recent, marks, notice, count>>
    BY DEF ChatM!Insert
<1>2. (handler[h].at = "hiding") \in BOOLEAN /\ handler[h].at # "idle"
    BY <1>1
<1>3. /\ handler' \in [Handlers -> TextStates]
      /\ rows' \in Seq([text: Nat, hidden: BOOLEAN])
      /\ handler'[h].at = "idle" /\ \A g \in Handlers \ {h} : handler'[g] = handler[g]
      /\ TextsApart'
    BY <1>0, <1>1, <1>2, InsertApart
<1>4. CASE handler[h].at = "inserting"
    <2>1. ChatM!BeginLoad
        BY <1>1, <1>4
    <2>2. /\ loads' \in [Loads -> LoadStates \cup {None}]
          /\ \E l \in Loads : /\ loads'[l] # None /\ loads'[l].at = "asked"
                              /\ \A m \in Loads \ {l} : loads'[m] = loads[m]
        BY <1>0, <2>1, BeginLoadIs
    <2>3. MessageTypes'
        BY <1>0, <1>1, <1>3, <2>2 DEF MessageTypes
    <2>4. LastRead'
        <3>1. Outdated'
            BY <2>2 DEF Outdated
        <3>2. \A l \in Loads : Reads(l)' => loads'[l].no <= marks.read
            BY <1>0, <2>2 DEF Reads, LastRead
        <3>3. marks.shown <= marks.read
            BY <1>0 DEF LastRead
        <3> QED BY <1>1, <3>1, <3>2, <3>3, OutdatedIsFine
    <2> QED BY <1>3, <2>3, <2>4 DEF MessageInv
<1>5. CASE handler[h].at = "hiding"
    <2>1. MessageTypes'
        BY <1>0, <1>1, <1>3, <1>5 DEF MessageTypes
    <2>2. ChatM!NewestRows' = ChatM!NewestRows
        <3>1. rows' = Append(rows, [text |-> handler[h].text, hidden |-> TRUE])
            BY <1>1, <1>5
        <3> QED BY <1>0, <3>1, HiddenRowSameList
    <2>3. (Outdated' <=> Outdated) /\ \A l : Reads(l)' <=> Reads(l)
        BY <1>1, <1>5 DEF Outdated, Reads
    <2>4. Inserting => Inserting'
        BY <1>3, <1>5 DEF Inserting
    <2>5. LastRead'
        BY <1>0, <1>1, <1>5, <2>2, <2>3, <2>4 DEF LastRead
    <2> QED BY <1>3, <2>1, <2>5 DEF MessageInv
<1> QED BY <1>1, <1>4, <1>5

LEMMA InsertFailsOK ==
    ASSUME MessageInv, NEW h \in Handlers, ChatM!InsertFails(h)
    PROVE  MessageInv'
<1>0. MessageTypes /\ TextsApart /\ LastRead
    BY DEF MessageInv
<1>1. /\ ChatM!Fault /\ ChatM!Goes(h, "idle") /\ ChatM!NextReadCounts
      /\ UNCHANGED <<rows, recent, loads, notice>>
    BY DEF ChatM!InsertFails
<1>2. /\ handler' \in [Handlers -> TextStates]
      /\ handler'[h].at = "idle" /\ \A g \in Handlers \ {h} : handler'[g] = handler[g]
    BY <1>0, <1>1, GoesIs
<1>3. count' \in [texts: Nat, faults: Nat] /\ count'.texts = count.texts
    BY <1>0, <1>1, FaultIs
<1>4. /\ marks' \in [read: Nat, shown: Nat, due: Nat]
      /\ marks'.read = marks.read /\ marks'.shown = marks.shown /\ marks'.due > marks'.read
    BY <1>0, <1>1, NextReadIs
<1>5. MessageTypes'
    BY <1>0, <1>1, <1>2, <1>3, <1>4 DEF MessageTypes
<1>6. TextsApart'
    BY <1>0, <1>1, <1>2, <1>3 DEF TextsApart
<1>7. LastRead'
    <2>1. Outdated'
        BY <1>4 DEF Outdated
    <2>2. marks'.shown <= marks'.read /\ \A l \in Loads : Reads(l)' => loads'[l].no <= marks'.read
        BY <1>0, <1>1, <1>4 DEF LastRead, Reads
    <2> QED BY <2>1, <2>2, OutdatedIsFine
<1> QED BY <1>5, <1>6, <1>7 DEF MessageInv

LEMMA LoadReadsOK ==
    ASSUME MessageInv, NEW l \in Loads, ChatM!LoadReads(l)
    PROVE  MessageInv'
<1>0. MessageTypes /\ TextsApart /\ LastRead
    BY DEF MessageInv
<1> DEFINE new == [at |-> "read", no |-> marks.read + 1, texts |-> ChatM!NewestRows]
<1>1. /\ loads[l] # None /\ marks' = [marks EXCEPT !.read = @ + 1]
      /\ loads' = [loads EXCEPT ![l] = new]
      /\ UNCHANGED <<handler, rows, recent, notice, count>>
    BY DEF ChatM!LoadReads
<1>2. /\ marks' \in [read: Nat, shown: Nat, due: Nat] /\ marks.read \in Nat /\ marks.shown \in Nat
      /\ marks'.read = marks.read + 1 /\ marks'.shown = marks.shown
    BY <1>0, <1>1 DEF MessageTypes
<1>3. new \in LoadStates /\ new.no = marks.read + 1 /\ new.texts = ChatM!NewestRows
    <2>1. ChatM!NewestRows \in Seq(Nat)
        BY <1>0, NewestRowsIs
    <2> QED BY <1>2, <2>1 DEF LoadStates
<1>4. /\ loads' \in [Loads -> LoadStates \cup {None}]
      /\ loads'[l] = new /\ \A m \in Loads \ {l} : loads'[m] = loads[m]
    <2> HIDE DEF new
    <2> QED BY <1>0, <1>1, <1>3 DEF MessageTypes
<1>5. MessageTypes'
    <2> HIDE DEF new
    <2> QED BY <1>0, <1>1, <1>2, <1>4 DEF MessageTypes
<1>6. TextsApart'
    BY <1>0, <1>1 DEF TextsApart
<1>7. ChatM!NewestRows' = ChatM!NewestRows
    BY <1>0, <1>1, SameRowsSameList
<1>8. \A m \in Loads \ {l} : Reads(m)' => loads'[m].no <= marks.read /\ loads'[m].no \in Nat
    <2> HIDE DEF new
    <2> QED BY <1>0, <1>4, MessageFacts DEF Reads, LastRead
<1>9. \A m \in Loads : Reads(m)' =>
        /\ loads'[m].no <= marks'.read
        /\ loads'[m].no = marks'.read => loads'[m].texts = ChatM!NewestRows
    <2> HIDE DEF new
    <2> QED BY <1>2, <1>3, <1>4, <1>8
<1>10. marks'.shown <= marks'.read /\ marks'.shown # marks'.read
    BY <1>0, <1>2 DEF LastRead
<1>11. LastRead'
    <2> HIDE DEF new
    <2> QED BY <1>7, <1>9, <1>10 DEF LastRead
<1> QED BY <1>5, <1>6, <1>11 DEF MessageInv

LEMMA MessageLoadAnswersOK ==
    ASSUME MessageInv, NEW l \in Loads, ChatM!LoadAnswers(l)
    PROVE  MessageInv'
<1>0. MessageTypes /\ TextsApart /\ LastRead
    BY DEF MessageInv
<1>1. /\ loads[l] # None /\ loads[l].at = "read" /\ recent' = loads[l].texts
      /\ marks' = [marks EXCEPT !.shown = loads[l].no] /\ loads' = [loads EXCEPT ![l] = None]
      /\ UNCHANGED <<handler, rows, notice, count>>
    BY DEF ChatM!LoadAnswers
<1>2. loads[l].no \in Nat
    BY <1>0, <1>1, MessageFacts
<1>3. /\ marks' \in [read: Nat, shown: Nat, due: Nat]
      /\ marks'.read = marks.read /\ marks'.shown = loads[l].no /\ marks'.due = marks.due
    BY <1>0, <1>1, <1>2 DEF MessageTypes
<1>4. /\ loads' \in [Loads -> LoadStates \cup {None}]
      /\ loads'[l] = None /\ \A m \in Loads \ {l} : loads'[m] = loads[m]
    BY <1>0, <1>1 DEF MessageTypes
<1>5. MessageTypes'
    BY <1>0, <1>1, <1>3, <1>4 DEF MessageTypes
<1>6. TextsApart'
    BY <1>0, <1>1 DEF TextsApart
<1>7. ChatM!NewestRows' = ChatM!NewestRows
    BY <1>0, <1>1, SameRowsSameList
<1>8. Outdated => Outdated'
    BY <1>1, <1>3, <1>4 DEF Outdated
<1>9. \A m \in Loads : Reads(m)' => Reads(m) /\ loads'[m] = loads[m]
    BY <1>4 DEF Reads
<1>10. Reads(l)
    BY <1>1 DEF Reads
<1>11. LastRead'
    BY <1>0, <1>1, <1>3, <1>7, <1>8, <1>9, <1>10 DEF LastRead
<1> QED BY <1>5, <1>6, <1>11 DEF MessageInv

LEMMA MessageLoadFailsOK ==
    ASSUME MessageInv, NEW l \in Loads, ChatM!LoadFails(l)
    PROVE  MessageInv'
<1>0. MessageTypes /\ TextsApart /\ LastRead
    BY DEF MessageInv
<1>1. /\ ChatM!Fault /\ loads' = [loads EXCEPT ![l] = None] /\ ChatM!NextReadCounts
      /\ UNCHANGED <<handler, rows, recent, notice>>
    BY DEF ChatM!LoadFails
<1>3. count' \in [texts: Nat, faults: Nat] /\ count'.texts = count.texts
    BY <1>0, <1>1, FaultIs
<1>4. /\ marks' \in [read: Nat, shown: Nat, due: Nat]
      /\ marks'.read = marks.read /\ marks'.shown = marks.shown /\ marks'.due > marks'.read
    BY <1>0, <1>1, NextReadIs
<1>5. /\ loads' \in [Loads -> LoadStates \cup {None}]
      /\ loads'[l] = None /\ \A m \in Loads \ {l} : loads'[m] = loads[m]
    BY <1>0, <1>1 DEF MessageTypes
<1>6. MessageTypes'
    BY <1>0, <1>1, <1>3, <1>4, <1>5 DEF MessageTypes
<1>7. TextsApart'
    BY <1>0, <1>1, <1>3 DEF TextsApart
<1>8. LastRead'
    <2>1. Outdated'
        BY <1>4 DEF Outdated
    <2>2. marks'.shown <= marks'.read /\ \A m \in Loads : Reads(m)' => loads'[m].no <= marks'.read
        BY <1>0, <1>4, <1>5 DEF LastRead, Reads
    <2> QED BY <2>1, <2>2, OutdatedIsFine
<1> QED BY <1>6, <1>7, <1>8 DEF MessageInv

LEMMA HideOK == ASSUME MessageInv, ChatM!Hide PROVE MessageInv'
<1>0. MessageTypes /\ TextsApart /\ LastRead
    BY DEF MessageInv
<1>1. PICK i \in DOMAIN rows : rows' = [rows EXCEPT ![i].hidden = TRUE]
    BY DEF ChatM!Hide
<1>2. notice' = TRUE /\ UNCHANGED <<handler, recent, loads, marks, count>>
    BY DEF ChatM!Hide
<1> DEFINE Set == [text: Nat, hidden: BOOLEAN]
           new == [rows[i] EXCEPT !.hidden = TRUE]
<1>3. rows \in Seq(Set) /\ rows[i] \in Set
    <2>1. rows \in Seq(Set)
        BY <1>0 DEF MessageTypes
    <2> HIDE DEF Set
    <2> QED BY <2>1
<1>4. new \in Set /\ new.text = rows[i].text
    BY <1>3
<1>5. rows' = [rows EXCEPT ![i] = new]
    BY <1>1
<1>6. /\ rows' \in Seq(Set) /\ DOMAIN rows' = DOMAIN rows
      /\ \A j \in DOMAIN rows : rows'[j].text = rows[j].text
    <2> HIDE DEF Set, new
    <2> QED BY <1>3, <1>4, <1>5
<1>7. MessageTypes'
    BY <1>0, <1>2, <1>6 DEF MessageTypes
<1>8. TextsApart'
    BY <1>0, <1>2, <1>6 DEF TextsApart
<1>9. LastRead'
    <2>1. Outdated'
        BY <1>2 DEF Outdated
    <2>2. marks'.shown <= marks'.read /\ \A m \in Loads : Reads(m)' => loads'[m].no <= marks'.read
        BY <1>0, <1>2 DEF LastRead, Reads
    <2> QED BY <2>1, <2>2, OutdatedIsFine
<1> QED BY <1>7, <1>8, <1>9 DEF MessageInv

LEMMA InvalidateOK == ASSUME MessageInv, ChatM!Invalidate PROVE MessageInv'
<1>0. MessageTypes /\ TextsApart /\ LastRead
    BY DEF MessageInv
<1>1. notice' = FALSE /\ UNCHANGED <<handler, rows, recent>>
    BY DEF ChatM!Invalidate
<1>2. CASE ChatM!BeginLoad /\ UNCHANGED <<marks, count>>
    <2>1. /\ loads' \in [Loads -> LoadStates \cup {None}]
          /\ \E l \in Loads : /\ loads'[l] # None /\ loads'[l].at = "asked"
                              /\ \A m \in Loads \ {l} : loads'[m] = loads[m]
        BY <1>0, <1>2, BeginLoadIs
    <2>2. MessageTypes' /\ TextsApart'
        BY <1>0, <1>1, <1>2, <2>1 DEF MessageTypes, TextsApart
    <2>3. LastRead'
        <3>1. Outdated'
            BY <2>1 DEF Outdated
        <3>2. marks'.shown <= marks'.read /\ \A l \in Loads : Reads(l)' => loads'[l].no <= marks'.read
            BY <1>0, <1>2, <2>1 DEF Reads, LastRead
        <3> QED BY <3>1, <3>2, OutdatedIsFine
    <2> QED BY <2>2, <2>3 DEF MessageInv
<1>3. CASE ChatM!Fault /\ ChatM!NextReadCounts /\ UNCHANGED loads
    <2>1. count' \in [texts: Nat, faults: Nat] /\ count'.texts = count.texts
        BY <1>0, <1>3, FaultIs
    <2>2. /\ marks' \in [read: Nat, shown: Nat, due: Nat]
          /\ marks'.read = marks.read /\ marks'.shown = marks.shown /\ marks'.due > marks'.read
        BY <1>0, <1>3, NextReadIs
    <2>3. MessageTypes' /\ TextsApart'
        BY <1>0, <1>1, <1>3, <2>1, <2>2 DEF MessageTypes, TextsApart
    <2>4. LastRead'
        <3>1. Outdated'
            BY <2>2 DEF Outdated
        <3>2. marks'.shown <= marks'.read /\ \A l \in Loads : Reads(l)' => loads'[l].no <= marks'.read
            BY <1>0, <1>3, <2>2 DEF Reads, LastRead
        <3> QED BY <3>1, <3>2, OutdatedIsFine
    <2> QED BY <2>3, <2>4 DEF MessageInv
<1> QED BY <1>2, <1>3 DEF ChatM!Invalidate

LEMMA MessageRestartOK == ASSUME MessageInv, ChatM!Restart PROVE MessageInv'
<1>0. MessageTypes /\ TextsApart /\ LastRead
    BY DEF MessageInv
<1> DEFINE newLoad == [at |-> "asked", no |-> 0, texts |-> <<>>]
<1>1. /\ ChatM!Fault /\ handler' = [h \in Handlers |-> ChatM!Idle]
      /\ marks' = [marks EXCEPT !.shown = 0] /\ UNCHANGED <<rows, notice>>
    BY DEF ChatM!Restart
<1>2. PICK l \in Loads : loads' = [m \in Loads |-> IF m = l THEN newLoad ELSE None]
    BY DEF ChatM!Restart
<1>3. newLoad \in LoadStates /\ newLoad.at = "asked"
    BY DEF LoadStates
<1>4. newLoad # None
    BY <1>3, ServicesOK DEF ServicesOK, MessagesOK, LoadStates
<1>5. /\ loads' \in [Loads -> LoadStates \cup {None}] /\ loads'[l] = newLoad
      /\ \A m \in Loads \ {l} : loads'[m] = None
    <2> HIDE DEF newLoad
    <2> QED BY <1>2, <1>3
<1>6. count' \in [texts: Nat, faults: Nat] /\ count'.texts = count.texts
    BY <1>0, <1>1, FaultIs
<1>7. marks' \in [read: Nat, shown: Nat, due: Nat] /\ marks'.shown = 0 /\ marks'.read \in Nat
    BY <1>0, <1>1 DEF MessageTypes
<1>8. handler' \in [Handlers -> TextStates] /\ \A h \in Handlers : handler'[h].at = "idle"
    BY <1>1 DEF TextStates, ChatM!Idle
<1>9. MessageTypes'
    <2> HIDE DEF newLoad
    <2> QED BY <1>0, <1>1, <1>5, <1>6, <1>7, <1>8 DEF MessageTypes
<1>10. TextsApart'
    BY <1>0, <1>1, <1>6, <1>8 DEF TextsApart
<1>11. LastRead'
    <2> HIDE DEF newLoad
    <2>1. Outdated'
        BY <1>3, <1>4, <1>5 DEF Outdated
    <2>2. \A m \in Loads : ~Reads(m)'
        BY <1>3, <1>5 DEF Reads
    <2>3. marks'.shown <= marks'.read
        BY <1>7
    <2> QED BY <2>1, <2>2, <2>3, OutdatedIsFine
<1> QED BY <1>9, <1>10, <1>11 DEF MessageInv

LEMMA MessageStep ==
    ASSUME MessageInv, ChatM!Next \/ UNCHANGED chatMessageVars
    PROVE  MessageInv'
<1>1. CASE UNCHANGED chatMessageVars
    <2>1. UNCHANGED <<handler, rows, recent, loads, marks, notice, count>>
        BY <1>1 DEF chatMessageVars
    <2>2. ChatM!NewestRows' = ChatM!NewestRows
        BY <2>1, SameRowsSameList DEF MessageInv
    <2>3. (Outdated' <=> Outdated) /\ (Inserting' <=> Inserting) /\ \A l : Reads(l)' <=> Reads(l)
        BY <2>1 DEF Outdated, Inserting, Reads
    <2>4. LastRead'
        BY <2>1, <2>2, <2>3 DEF MessageInv, LastRead
    <2> QED BY <2>1, <2>4 DEF MessageInv, MessageTypes, TextsApart
<1> QED BY <1>1, TextComesOK, CheckedOK, InsertOK, InsertFailsOK, LoadReadsOK, MessageLoadAnswersOK, MessageLoadFailsOK,
           HideOK, InvalidateOK, MessageRestartOK
        DEF ChatM!Next

\* Once nothing is under way newcomers are shown the newest messages and none that
\* was hidden, whatever loads of them crossed (loadRecentMessages and invalidate):
\* unless one was overtaken by an older, or a query failed and none came since.
THEOREM NewestIsShown == Spec => []ShownIsNewest
<1>1. Init => MessageInv
    BY MessagesStart DEF Init
<1>2. MessageInv /\ [Next]_serviceVars => MessageInv'
    BY MessageStep, EachTakesItsOwnSteps
<1>3. MessageInv => ShownIsNewest
    <2> SUFFICES ASSUME MessageInv, ChatM!Quiet, marks.shown = marks.read, marks.due <= marks.read
                 PROVE  /\ ChatM!ToSet(recent) = ChatM!NewestVisible
                        /\ Len(recent) = ChatM!Cardinality(ChatM!NewestVisible)
        BY DEF ShownIsNewest, ChatM!ShownIsNewest
    <2>1. MessageTypes /\ TextsApart /\ LastRead
        BY DEF MessageInv
    <2>2. ~Outdated
        BY <2>1, MessageFacts DEF ChatM!Quiet, Outdated
    <2>3. ~Inserting
        BY DEF ChatM!Quiet, Inserting, ChatM!Idle
    <2>4. recent = ChatM!NewestRows
        BY <2>1, <2>2, <2>3 DEF LastRead
    <2> QED BY <2>1, <2>4, NewestRowsIs
<1> QED BY <1>1, <1>2, <1>3, PTL DEF Spec
-----------------------------------------------------------------------------
(* Folding and sorting. *)

\* A property of 0 that passes from each number up to N to the next is one of all.
LEMMA UpToN ==
    ASSUME NEW N \in Nat, NEW T, 0 \in T, \A n \in 1..N : n - 1 \in T => n \in T
    PROVE  \A n \in 0..N : n \in T
<1> DEFINE left == {n \in 0..N : n \notin T}
           less == {pair \in Nat \X Nat : pair[1] < pair[2]}
<1>1. SUFFICES ASSUME left # {} PROVE FALSE
    OBVIOUS
<1>2. left \subseteq Nat /\ IsWellFoundedOn(less, Nat)
    BY NatLessThanWellFounded DEF OpToRel
<1>3. PICK n \in left : \A m \in left : ~(<<m, n>> \in less)
    <2> HIDE DEF left, less
    <2> QED BY <1>1, <1>2, WFMin
<1>4. n \in 1..N /\ n - 1 \in 0..N /\ n - 1 < n /\ n - 1 \in Nat /\ n \in Nat
    OBVIOUS
<1>5. n - 1 \notin left
    BY <1>3, <1>4
<1> QED BY <1>3, <1>4, <1>5

\* The largest number of a set that has k and none above it.
LEMMA LargestIs ==
    ASSUME NEW k \in Nat, NEW s \in SUBSET (1..k), k \in s
    PROVE  Search!Max(s) = k
<1>1. \A y \in s : k >= y /\ y \in Nat
    OBVIOUS
<1>2. \A x \in s : (\A y \in s : x >= y) => x = k
    BY <1>1
<1> QED BY <1>1, <1>2 DEF Search!Max

\* A function that folds the numbers of any set up to N, largest last.
IsFold(g, N, base, step) == \A s \in SUBSET (1..N) :
    g[s] = IF s = {} THEN base ELSE step[Search!Max(s)][g[s \ {Search!Max(s)}]]

\* There is such a function.
LEMMA FoldExists ==
    ASSUME NEW N \in Nat, NEW S, NEW base \in S, NEW step \in [1..N -> [S -> S]]
    PROVE  \E g \in [SUBSET (1..N) -> S] : IsFold(g, N, base, step)
<1> DEFINE Folds(g, k) == \A s \in SUBSET (1..k) :
              g[s] = IF s = {} THEN base ELSE step[Search!Max(s)][g[s \ {Search!Max(s)}]]
           T == {k \in 0..N : \E g \in [SUBSET (1..k) -> S] : Folds(g, k)}
<1>1. 0 \in T
    <2>1. [s \in SUBSET (1..0) |-> base] \in [SUBSET (1..0) -> S]
        OBVIOUS
    <2>2. \A s \in SUBSET (1..0) : s = {}
        OBVIOUS
    <2>3. Folds([s \in SUBSET (1..0) |-> base], 0)
        BY <2>2, Zenon
    <2> HIDE DEF Folds
    <2> QED BY <2>1, <2>3
<1>2. ASSUME NEW n \in 1..N, n - 1 \in T PROVE n \in T
    <2>1. PICK f \in [SUBSET (1..(n - 1)) -> S] : Folds(f, n - 1)
        <3> HIDE DEF Folds
        <3> QED BY <1>2
    <2> DEFINE g == [s \in SUBSET (1..n) |-> IF n \in s THEN step[n][f[s \ {n}]] ELSE f[s]]
    <2>2. ASSUME NEW s \in SUBSET (1..n) PROVE s \ {n} \in SUBSET (1..(n - 1))
        OBVIOUS
    <2>3. ASSUME NEW s \in SUBSET (1..n), n \notin s PROVE s \in SUBSET (1..(n - 1))
        BY <2>3
    <2>4. g \in [SUBSET (1..n) -> S]
        <3>1. step[n] \in [S -> S]
            OBVIOUS
        <3>2. ASSUME NEW s \in SUBSET (1..n), n \in s PROVE step[n][f[s \ {n}]] \in S
            BY <3>1, <2>1, <2>2
        <3>3. ASSUME NEW s \in SUBSET (1..n), n \notin s PROVE f[s] \in S
            BY <3>3, <2>1, <2>3
        <3> QED BY <3>2, <3>3
    <2>5. ASSUME NEW s \in SUBSET (1..n)
          PROVE  g[s] = IF s = {} THEN base ELSE step[Search!Max(s)][g[s \ {Search!Max(s)}]]
        <3>1. CASE n \in s
            <4>1. Search!Max(s) = n
                BY <3>1, LargestIs
            <4>2. s \ {n} \in SUBSET (1..n) /\ n \notin s \ {n}
                OBVIOUS
            <4>3. g[s \ {n}] = f[s \ {n}]
                BY <4>2
            <4>4. g[s] = step[n][f[s \ {n}]] /\ s # {}
                BY <3>1
            <4> HIDE DEF g
            <4> QED BY <4>1, <4>3, <4>4
        <3>2. CASE n \notin s
            <4>1. s \in SUBSET (1..(n - 1)) /\ g[s] = f[s]
                BY <3>2, <2>3
            <4>2. f[s] = IF s = {} THEN base ELSE step[Search!Max(s)][f[s \ {Search!Max(s)}]]
                BY <2>1, <4>1
            <4>3. s \ {Search!Max(s)} \in SUBSET (1..n) /\ n \notin s \ {Search!Max(s)}
                BY <3>2
            <4>4. g[s \ {Search!Max(s)}] = f[s \ {Search!Max(s)}]
                BY <4>3
            <4> HIDE DEF g
            <4> QED BY <4>1, <4>2, <4>4
        <3> QED BY <3>1, <3>2
    <2>6. Folds(g, n)
        <3> HIDE DEF g
        <3> QED BY <2>5
    <2> HIDE DEF Folds, g
    <2> QED BY <2>4, <2>6
<1>3. \A n \in 0..N : n \in T
    <2> HIDE DEF T
    <2> QED BY <1>1, <1>2, UpToN
<1>4. N \in T
    <2> HIDE DEF T
    <2> QED BY <1>3
<1> QED BY <1>4, Zenon DEF IsFold

\* What such a function does with the first n numbers, one more at a time.
LEMMA FoldsOneMore ==
    ASSUME NEW n \in Nat \ {0}
    PROVE  Search!Max(1..n) = n /\ (1..n) \ {n} = 1..(n - 1) /\ 1..n # {} /\ 1..0 = {}
BY LargestIs

\* R orders S: no two are equal in it, and none is before itself.
Orders(R, S) ==
    /\ \A x \in S : <<x, x>> \notin R
    /\ \A x, y, z \in S : <<x, y>> \in R /\ <<y, z>> \in R => <<x, z>> \in R
    /\ \A x, y \in S : x # y => <<x, y>> \in R \/ <<y, x>> \in R

\* A list of a set's size in that order.
Sorted(seq, S, R) ==
    /\ seq \in [1..Cardinality(S) -> S]
    /\ \A i, j \in 1..Cardinality(S) : i < j => <<seq[i], seq[j]>> \in R

\* A list that has every member once.
Listing(seq, S) ==
    /\ \A i, j \in 1..Cardinality(S) : seq[i] = seq[j] => i = j
    /\ \A x \in S : \E i \in 1..Cardinality(S) : seq[i] = x
    /\ Cardinality(S) \in Nat

\* A finite set that is ordered can be listed in order.
LEMMA Sortable ==
    ASSUME NEW S, IsFiniteSet(S), NEW R, Orders(R, S)
    PROVE  \E seq : Sorted(seq, S, R)
<1> DEFINE N == Cardinality(S)
           below == [x \in S |-> {y \in S : <<y, x>> \in R}]
           place == [x \in S |-> Cardinality(below[x])]
<1>1. N \in Nat
    BY FS_CardinalityType
<1>2. ASSUME NEW x \in S
      PROVE  IsFiniteSet(below[x]) /\ place[x] \in Nat /\ place[x] < N /\ place[x] = Cardinality(below[x])
    <2>1. below[x] \in SUBSET S /\ x \notin below[x] /\ place[x] = Cardinality(below[x])
        BY DEF Orders
    <2> HIDE DEF below, place
    <2>2. IsFiniteSet(below[x]) /\ Cardinality(below[x]) <= N /\ (N = Cardinality(below[x]) => S = below[x])
        BY <2>1, FS_Subset
    <2>3. Cardinality(below[x]) # N
        BY <2>1, <2>2
    <2>4. Cardinality(below[x]) \in Nat
        BY <2>2, FS_CardinalityType
    <2> HIDE DEF N
    <2> QED BY <1>1, <2>1, <2>2, <2>3, <2>4
<1>3. ASSUME NEW x \in S, NEW y \in S, <<x, y>> \in R PROVE place[x] < place[y]
    <2>1. below[x] \in SUBSET below[y] /\ x \in below[y] /\ x \notin below[x]
        BY <1>3 DEF Orders
    <2> HIDE DEF below
    <2>2. Cardinality(below[x]) <= Cardinality(below[y]) /\ Cardinality(below[x]) # Cardinality(below[y])
        BY <1>2, <2>1, FS_Subset
    <2> HIDE DEF place
    <2> QED BY <1>2, <2>2
<1>4. \A x, y \in S : place[x] = place[y] => x = y
    <2> SUFFICES ASSUME NEW x \in S, NEW y \in S, place[x] = place[y], x # y PROVE FALSE
        BY Zenon
    <2>1. <<x, y>> \in R \/ <<y, x>> \in R
        BY DEF Orders
    <2> HIDE DEF place, N, below
    <2>2. place[x] \in Nat /\ place[y] \in Nat
        BY <1>2
    <2>3. ~(place[x] < place[y]) /\ ~(place[y] < place[x])
        BY <2>2
    <2> QED BY <1>3, <2>1, <2>3
<1>5. place \in Injection(S, 0..(N - 1))
    <2>1. \A x \in S : place[x] \in 0..(N - 1)
        <3> HIDE DEF place, N, below
        <3> QED BY <1>1, <1>2
    <2>2. place = [x \in S |-> place[x]]
        OBVIOUS
    <2> HIDE DEF place, N
    <2> QED BY <1>4, <2>1, <2>2 DEF Injection, IsInjective
<1>6. IsFiniteSet(0..(N - 1)) /\ Cardinality(0..(N - 1)) = N
    <2>1. N - 1 \in Int /\ (0 > N - 1 => N = 0) /\ (N - 1) - 0 + 1 = N
        <3> HIDE DEF N
        <3> QED BY <1>1
    <2>2. Cardinality(0..(N - 1)) = IF 0 > N - 1 THEN 0 ELSE (N - 1) - 0 + 1
        BY <2>1, FS_Interval
    <2> HIDE DEF N
    <2> QED BY <2>1, <2>2, FS_Interval
<1>7. place \in Surjection(S, 0..(N - 1))
    <2> HIDE DEF place
    <2> QED BY <1>5, <1>6, FS_Injection
<1>8. \A n \in 0..(N - 1) : \E x \in S : place[x] = n
    <2> HIDE DEF place, N
    <2> QED BY <1>7 DEF Surjection
<1> DEFINE at(k) == CHOOSE x \in S : place[x] = k - 1
           seq == [k \in 1..N |-> at(k)]
<1>9. ASSUME NEW k \in 1..N PROVE seq[k] \in S /\ place[seq[k]] = k - 1
    <2>1. k - 1 \in 0..(N - 1)
        <3> HIDE DEF N
        <3> QED BY <1>1
    <2>2. PICK x \in S : place[x] = k - 1
        BY <1>8, <2>1
    <2> HIDE DEF place, N
    <2> QED BY <2>2
<1>10. ASSUME NEW i \in 1..N, NEW j \in 1..N, i < j PROVE <<seq[i], seq[j]>> \in R
    <2>1. seq[i] \in S /\ seq[j] \in S /\ place[seq[i]] = i - 1 /\ place[seq[j]] = j - 1
        BY <1>9
    <2> HIDE DEF place, seq
    <2>2. i \in Int /\ j \in Int
        <3> HIDE DEF N
        <3> QED BY <1>1
    <2>3. seq[i] # seq[j] /\ ~(place[seq[j]] < place[seq[i]])
        BY <1>10, <2>1, <2>2
    <2>4. <<seq[i], seq[j]>> \in R \/ <<seq[j], seq[i]>> \in R
        BY <2>1, <2>3 DEF Orders
    <2> QED BY <1>3, <2>1, <2>3, <2>4
<1>11. seq \in [1..N -> S]
    <2>1. \A k \in 1..N : at(k) \in S
        BY <1>9
    <2> HIDE DEF at, N
    <2> QED BY <2>1
<1> HIDE DEF seq
<1> QED BY <1>10, <1>11 DEF Sorted

\* In order, every member comes once.
LEMMA SortedIsAll ==
    ASSUME NEW S, IsFiniteSet(S), NEW R, Orders(R, S), NEW seq, Sorted(seq, S, R)
    PROVE  Listing(seq, S)
<1> DEFINE N == Cardinality(S)
<1>0. /\ seq \in [1..N -> S]
      /\ \A i, j \in 1..N : i < j => <<seq[i], seq[j]>> \in R
    BY DEF Sorted
<1>1. N \in Nat
    BY FS_CardinalityType
<1>2. \A i, j \in 1..N : seq[i] = seq[j] => i = j
    <2> SUFFICES ASSUME NEW i \in 1..N, NEW j \in 1..N, seq[i] = seq[j], i # j PROVE FALSE
        OBVIOUS
    <2>1. i < j \/ j < i
        <3> HIDE DEF N
        <3> QED BY <1>1
    <2>2. seq[i] \in S /\ <<seq[i], seq[i]>> \notin R
        BY <1>0 DEF Orders
    <2> QED BY <1>0, <2>1, <2>2
<1>3. seq \in Injection(1..N, S)
    <2> HIDE DEF N
    <2> QED BY <1>0, <1>2 DEF Injection, IsInjective
<1>4. Cardinality(1..N) = N
    <2>1. Cardinality(1..N) = IF 1 > N THEN 0 ELSE N - 1 + 1
        BY <1>1, FS_Interval
    <2> HIDE DEF N
    <2> QED BY <1>1, <2>1
<1>5. seq \in Surjection(1..N, S)
    BY <1>3, <1>4, FS_Injection
<1> QED BY <1>1, <1>2, <1>5 DEF Surjection, Listing


\* A set of numbers up to N that is not empty has its largest number.
LEMMA LargestIn ==
    ASSUME NEW N \in Nat, NEW s \in SUBSET (1..N), s # {}
    PROVE  Search!Max(s) \in s /\ Search!Max(s) \in 1..N
<1> DEFINE T == {n \in 0..N : \A t \in SUBSET (1..n) : t # {} => \E x \in t : \A y \in t : y <= x}
<1>1. 0 \in T
    <2>1. 1..0 = {} /\ 0 \in 0..N
        OBVIOUS
    <2> QED BY <2>1
<1>2. ASSUME NEW n \in 1..N, n - 1 \in T PROVE n \in T
    <2>1. n \in 0..N /\ n \in Nat
        OBVIOUS
    <2>2. ASSUME NEW t \in SUBSET (1..n), t # {} PROVE \E x \in t : \A y \in t : y <= x
        <3>1. \A y \in t : y \in Nat /\ y <= n
            BY <2>1
        <3>2. CASE n \in t
            BY <3>1, <3>2
        <3>3. CASE n \notin t
            <4>1. t \in SUBSET (1..(n - 1))
                BY <2>1, <3>1, <3>3
            <4> QED BY <1>2, <2>2, <4>1
        <3> QED BY <3>2, <3>3
    <2> QED BY <2>1, <2>2
<1>. PICK x \in s : \A y \in s : y <= x
    <2> HIDE DEF T
    <2>1. \A n \in 0..N : n \in T
        BY <1>1, <1>2, UpToN
    <2>2. N \in 0..N
        OBVIOUS
    <2>3. N \in T
        BY <2>1, <2>2
    <2> QED BY <2>3 DEF T
<1>3. \A y \in s : x >= y
    OBVIOUS
<1>4. Search!Max(s) \in s
    BY <1>3 DEF Search!Max
<1> QED BY <1>4

\* What has been fused so far.
Entries == [post: Posts, score: Nat, sources: SUBSET {0, 1}]

\* What a rank adds to a score is a number.
LEMMA ShareIsNumber == \A n \in Nat : Search!Scale \div (Search!RRF_K + n) \in Nat
<1> TAKE n \in Nat
<1>1. Search!Scale \in Nat
    BY DEF Search!Scale
<1>2. Search!RRF_K + n \in Nat \ {0}
    BY DEF Search!RRF_K
<1>3. \A a \in Nat, b \in Nat \ {0} : a \div b \in Nat
    OBVIOUS
<1> QED BY <1>1, <1>2, <1>3

LEMMA FusedType ==
    ASSUME NEW acc \in Seq(Entries), NEW p \in Posts, NEW n \in Nat, NEW path \in {0, 1}
    PROVE  Search!Fused(acc, p, n, path) \in Seq(Entries)
<1> DEFINE more == Search!Scale \div (Search!RRF_K + n)
           at == {i \in DOMAIN acc : acc[i].post = p}
           i0 == CHOOSE i \in at : TRUE
<1>1. more \in Nat
    BY ShareIsNumber
<1>2. CASE at = {}
    <2>1. Search!Fused(acc, p, n, path) = Append(acc, [post |-> p, score |-> more, sources |-> {path}])
        BY <1>2, Zenon DEF Search!Fused
    <2>2. [post |-> p, score |-> more, sources |-> {path}] \in Entries
        <3> HIDE DEF more
        <3> QED BY <1>1 DEF Entries
    <2> HIDE DEF more
    <2> QED BY <2>1, <2>2
<1>3. CASE at # {} /\ path \in acc[i0].sources
    BY <1>3, Zenon DEF Search!Fused
<1>4. CASE at # {} /\ path \notin acc[i0].sources
    <2>1. Search!Fused(acc, p, n, path) = [acc EXCEPT ![i0].score = @ + more, ![i0].sources = @ \cup {path}]
        BY <1>4, Zenon DEF Search!Fused
    <2>2. i0 \in DOMAIN acc
        BY <1>4
    <2>3. acc[i0] \in Entries
        <3> HIDE DEF i0
        <3> QED BY <2>2
    <2> DEFINE one == [acc[i0] EXCEPT !.score = @ + more, !.sources = @ \cup {path}]
    <2>4. one \in Entries
        <3>1. /\ acc[i0].score + more \in Nat
              /\ acc[i0].sources \cup {path} \in SUBSET {0, 1}
              /\ acc[i0] = [post |-> acc[i0].post, score |-> acc[i0].score, sources |-> acc[i0].sources]
              /\ acc[i0].post \in Posts
            <4> HIDE DEF i0, more
            <4> QED BY <1>1, <2>3 DEF Entries
        <3>2. one = [post |-> acc[i0].post, score |-> acc[i0].score + more,
                     sources |-> acc[i0].sources \cup {path}]
            <4> HIDE DEF i0, more
            <4> DEFINE e == acc[i0]
            <4>1. e = [post |-> e.post, score |-> e.score, sources |-> e.sources]
                BY <3>1
            <4> HIDE DEF e
            <4>2. [e EXCEPT !.score = @ + more] = [post |-> e.post, score |-> e.score + more, sources |-> e.sources]
                BY <4>1
            <4>3. one = [[e EXCEPT !.score = @ + more] EXCEPT !.sources = @ \cup {path}]
                BY DEF e
            <4> HIDE DEF one
            <4>4. one = [post |-> e.post, score |-> e.score + more, sources |-> e.sources \cup {path}]
                BY <4>2, <4>3
            <4> QED BY <4>4 DEF e
        <3> HIDE DEF i0, more, one
        <3> QED BY <3>1, <3>2 DEF Entries
    <2>5. [acc EXCEPT ![i0].score = @ + more, ![i0].sources = @ \cup {path}] = [acc EXCEPT ![i0] = one]
        <3> HIDE DEF i0, more
        <3> QED BY <2>2, <2>3 DEF Entries
    <2>6. [acc EXCEPT ![i0] = one] \in Seq(Entries)
        <3> HIDE DEF i0, one
        <3> QED BY <2>2, <2>4
    <2> HIDE DEF one, i0, more
    <2> QED BY <2>1, <2>5, <2>6
<1> HIDE DEF at, i0
<1> QED BY <1>2, <1>3, <1>4

\* Alive takes the posts one after another.
LEMMA AliveFolds ==
    ASSUME NEW seq \in Seq(Posts)
    PROVE  \E a : /\ a[0] = <<>>
                  /\ \A n \in 1..Len(seq) : a[n] = (IF seq[n] \in live THEN Append(a[n - 1], seq[n]) ELSE a[n - 1])
                  /\ Search!Alive(seq) = a[Len(seq)]
<1> DEFINE N == Len(seq)
           S == Seq(Posts)
           step == [n \in 1..N |-> [acc \in S |-> (IF seq[n] \in live THEN Append(acc, seq[n]) ELSE acc)]]
           P(g) == g = [s \in SUBSET (DOMAIN seq) |->
                    IF s = {} THEN <<>>
                    ELSE (IF seq[Search!Max(s)] \in live THEN Append(g[s \ {Search!Max(s)}], seq[Search!Max(s)]) ELSE g[s \ {Search!Max(s)}])]
           iter == CHOOSE g : P(g)
<1>1. N \in Nat /\ DOMAIN seq = 1..N
    OBVIOUS
<1>2. Search!Alive(seq) = iter[DOMAIN seq]
    BY Zenon DEF Search!Alive, Search!FoldLeft, Search!MapThenFoldSet
<1>3. step \in [1..N -> [S -> S]]
    <2>1. ASSUME NEW n \in 1..N, NEW acc \in S PROVE (IF seq[n] \in live THEN Append(acc, seq[n]) ELSE acc) \in S
        OBVIOUS
    <2> HIDE DEF N, S
    <2> QED BY <2>1
<1>4. PICK f \in [SUBSET (1..N) -> S] : IsFold(f, N, <<>>, step)
    <2>1. <<>> \in S
        OBVIOUS
    <2> HIDE DEF N, S, step
    <2> QED BY <1>1, <1>3, <2>1, FoldExists
<1>5. ASSUME NEW s \in SUBSET (1..N), s # {}
      PROVE  f[s] = (IF seq[Search!Max(s)] \in live THEN Append(f[s \ {Search!Max(s)}], seq[Search!Max(s)]) ELSE f[s \ {Search!Max(s)}])
    <2>1. Search!Max(s) \in 1..N
        <3> HIDE DEF N
        <3> QED BY <1>1, <1>5, LargestIn
    <2>2. f[s \ {Search!Max(s)}] \in S
        <3> HIDE DEF N, S
        <3> QED OBVIOUS
    <2> HIDE DEF N, S
    <2> QED BY <1>4, <1>5, <2>1, <2>2 DEF IsFold
<1>6. P(f)
    <2> HIDE DEF N, S, step
    <2> QED BY <1>1, <1>4, <1>5, Zenon DEF IsFold
<1>7. P(iter)
    <2> HIDE DEF P
    <2> QED BY <1>6
<1> DEFINE a == [n \in 0..N |-> iter[1..n]]
<1>8. a[0] = <<>>
    <2>1. iter[{}] = <<>>
        <3> HIDE DEF iter
        <3> QED BY <1>7
    <2>2. 1..0 = {} /\ 0 \in 0..N
        <3> HIDE DEF N
        <3> QED BY <1>1
    <2> HIDE DEF iter
    <2> QED BY <2>1, <2>2
<1>9. ASSUME NEW n \in 1..N PROVE a[n] = (IF seq[n] \in live THEN Append(a[n - 1], seq[n]) ELSE a[n - 1])
    <2>1. n \in Nat \ {0} /\ n \in 0..N /\ n - 1 \in 0..N /\ 1..n \in SUBSET (1..N)
        <3> HIDE DEF N
        <3> QED BY <1>1
    <2>2. Search!Max(1..n) = n /\ (1..n) \ {n} = 1..(n - 1) /\ 1..n # {}
        BY <2>1, FoldsOneMore
    <2>3. a[n] = iter[1..n] /\ a[n - 1] = iter[1..(n - 1)]
        BY <2>1, Zenon
    <2>4. iter[1..n] = (IF seq[Search!Max(1..n)] \in live THEN Append(iter[(1..n) \ {Search!Max(1..n)}], seq[Search!Max(1..n)]) ELSE iter[(1..n) \ {Search!Max(1..n)}])
        <3> HIDE DEF iter, N
        <3> QED BY <1>1, <1>7, <2>1, <2>2, Zenon
    <2> HIDE DEF a, iter, N
    <2> QED BY <2>2, <2>3, <2>4
<1>10. Search!Alive(seq) = a[N]
    <2>1. N \in 0..N
        <3> HIDE DEF N
        <3> QED BY <1>1
    <2> HIDE DEF iter
    <2> QED BY <1>1, <1>2, <2>1
<1> HIDE DEF a
<1> QED BY <1>8, <1>9, <1>10

\* So does FirstOfEach.
LEMMA FirstsFold ==
    ASSUME NEW seq \in Seq(Posts)
    PROVE  \E a : /\ a[0] = <<>>
                  /\ \A n \in 1..Len(seq) : a[n] = (IF seq[n] \in Search!ToSet(a[n - 1]) THEN a[n - 1] ELSE Append(a[n - 1], seq[n]))
                  /\ Search!FirstOfEach(seq) = a[Len(seq)]
<1> DEFINE N == Len(seq)
           S == Seq(Posts)
           step == [n \in 1..N |-> [acc \in S |-> (IF seq[n] \in Search!ToSet(acc) THEN acc ELSE Append(acc, seq[n]))]]
           P(g) == g = [s \in SUBSET (DOMAIN seq) |->
                    IF s = {} THEN <<>>
                    ELSE (IF seq[Search!Max(s)] \in Search!ToSet(g[s \ {Search!Max(s)}]) THEN g[s \ {Search!Max(s)}] ELSE Append(g[s \ {Search!Max(s)}], seq[Search!Max(s)]))]
           iter == CHOOSE g : P(g)
<1>1. N \in Nat /\ DOMAIN seq = 1..N
    OBVIOUS
<1>2. Search!FirstOfEach(seq) = iter[DOMAIN seq]
    BY Zenon DEF Search!FirstOfEach, Search!FoldLeft, Search!MapThenFoldSet
<1>3. step \in [1..N -> [S -> S]]
    <2>1. ASSUME NEW n \in 1..N, NEW acc \in S PROVE (IF seq[n] \in Search!ToSet(acc) THEN acc ELSE Append(acc, seq[n])) \in S
        OBVIOUS
    <2> HIDE DEF N, S
    <2> QED BY <2>1
<1>4. PICK f \in [SUBSET (1..N) -> S] : IsFold(f, N, <<>>, step)
    <2>1. <<>> \in S
        OBVIOUS
    <2> HIDE DEF N, S, step
    <2> QED BY <1>1, <1>3, <2>1, FoldExists
<1>5. ASSUME NEW s \in SUBSET (1..N), s # {}
      PROVE  f[s] = (IF seq[Search!Max(s)] \in Search!ToSet(f[s \ {Search!Max(s)}]) THEN f[s \ {Search!Max(s)}] ELSE Append(f[s \ {Search!Max(s)}], seq[Search!Max(s)]))
    <2>1. Search!Max(s) \in 1..N
        <3> HIDE DEF N
        <3> QED BY <1>1, <1>5, LargestIn
    <2>2. f[s \ {Search!Max(s)}] \in S
        <3> HIDE DEF N, S
        <3> QED OBVIOUS
    <2> HIDE DEF N, S
    <2> QED BY <1>4, <1>5, <2>1, <2>2 DEF IsFold
<1>6. P(f)
    <2> HIDE DEF N, S, step
    <2> QED BY <1>1, <1>4, <1>5, Zenon DEF IsFold
<1>7. P(iter)
    <2> HIDE DEF P
    <2> QED BY <1>6
<1> DEFINE a == [n \in 0..N |-> iter[1..n]]
<1>8. a[0] = <<>>
    <2>1. iter[{}] = <<>>
        <3> HIDE DEF iter
        <3> QED BY <1>7
    <2>2. 1..0 = {} /\ 0 \in 0..N
        <3> HIDE DEF N
        <3> QED BY <1>1
    <2> HIDE DEF iter
    <2> QED BY <2>1, <2>2
<1>9. ASSUME NEW n \in 1..N PROVE a[n] = (IF seq[n] \in Search!ToSet(a[n - 1]) THEN a[n - 1] ELSE Append(a[n - 1], seq[n]))
    <2>1. n \in Nat \ {0} /\ n \in 0..N /\ n - 1 \in 0..N /\ 1..n \in SUBSET (1..N)
        <3> HIDE DEF N
        <3> QED BY <1>1
    <2>2. Search!Max(1..n) = n /\ (1..n) \ {n} = 1..(n - 1) /\ 1..n # {}
        BY <2>1, FoldsOneMore
    <2>3. a[n] = iter[1..n] /\ a[n - 1] = iter[1..(n - 1)]
        BY <2>1, Zenon
    <2>4. iter[1..n] = (IF seq[Search!Max(1..n)] \in Search!ToSet(iter[(1..n) \ {Search!Max(1..n)}]) THEN iter[(1..n) \ {Search!Max(1..n)}] ELSE Append(iter[(1..n) \ {Search!Max(1..n)}], seq[Search!Max(1..n)]))
        <3> HIDE DEF iter, N
        <3> QED BY <1>1, <1>7, <2>1, <2>2, Zenon
    <2> HIDE DEF a, iter, N
    <2> QED BY <2>2, <2>3, <2>4
<1>10. Search!FirstOfEach(seq) = a[N]
    <2>1. N \in 0..N
        <3> HIDE DEF N
        <3> QED BY <1>1
    <2> HIDE DEF iter
    <2> QED BY <1>1, <1>2, <2>1
<1> HIDE DEF a
<1> QED BY <1>8, <1>9, <1>10

\* And the fusion of a list with what there is.
LEMMA FuseFolds ==
    ASSUME NEW list \in Seq(Posts), NEW entries \in Seq(Entries), NEW path \in {0, 1}
    PROVE  \E a : /\ a[0] = entries
                  /\ \A n \in 1..Len(list) : a[n] = Search!Fused(a[n - 1], list[n], n, path)
                  /\ Search!FuseList(entries, list, path) = a[Len(list)]
<1> DEFINE N == Len(list)
           S == Seq(Entries)
           step == [n \in 1..N |-> [acc \in S |-> Search!Fused(acc, list[n], n, path)]]
           P(g) == g = [s \in SUBSET (DOMAIN list) |->
                    IF s = {} THEN entries
                    ELSE Search!Fused(g[s \ {Search!Max(s)}], list[Search!Max(s)], Search!Max(s), path)]
           iter == CHOOSE g : P(g)
<1>1. N \in Nat /\ DOMAIN list = 1..N
    OBVIOUS
<1>2. Search!FuseList(entries, list, path) = iter[DOMAIN list]
    <2> DEFINE id == [i \in DOMAIN list |-> i]
           Q(g) == g = [s \in SUBSET (DOMAIN id) |->
                    IF s = {} THEN entries
                    ELSE Search!Fused(g[s \ {Search!Max(s)}], list[id[Search!Max(s)]], id[Search!Max(s)], path)]
    <2>1. Search!FuseList(entries, list, path) = (CHOOSE g : Q(g))[DOMAIN id]
        BY Zenon DEF Search!FuseList, Search!FoldLeftDomain, Search!FoldLeft, Search!MapThenFoldSet
    <2>2. ASSUME NEW s \in SUBSET (DOMAIN list), s # {} PROVE id[Search!Max(s)] = Search!Max(s)
        BY <1>1, <2>2, LargestIn
    <2>3. ASSUME NEW g PROVE Q(g) <=> P(g)
        <3>1. DOMAIN id = DOMAIN list
            OBVIOUS
        <3> DEFINE lhs(s) == IF s = {} THEN entries
                    ELSE Search!Fused(g[s \ {Search!Max(s)}], list[id[Search!Max(s)]], id[Search!Max(s)], path)
                   rhs(s) == IF s = {} THEN entries
                    ELSE Search!Fused(g[s \ {Search!Max(s)}], list[Search!Max(s)], Search!Max(s), path)
        <3>2. ASSUME NEW s \in SUBSET (DOMAIN list) PROVE lhs(s) = rhs(s)
            <4>1. CASE s = {}
                BY <4>1
            <4>2. CASE s # {}
                <5>1. id[Search!Max(s)] = Search!Max(s)
                    BY <2>2, <4>2
                <5> HIDE DEF id
                <5> QED BY <4>2, <5>1
            <4> QED BY <4>1, <4>2
        <3>3. [s \in SUBSET (DOMAIN list) |-> lhs(s)] = [s \in SUBSET (DOMAIN list) |-> rhs(s)]
            <4> HIDE DEF lhs, rhs
            <4> QED BY <3>2
        <3> QED BY <3>1, <3>3, Zenon
    <2>4. (CHOOSE g : Q(g)) = (CHOOSE g : P(g))
        <3> HIDE DEF P, Q
        <3> QED BY <2>3
    <2> QED BY <2>1, <2>4, Zenon
<1>3. step \in [1..N -> [S -> S]]
    <2>1. ASSUME NEW n \in 1..N, NEW acc \in S PROVE Search!Fused(acc, list[n], n, path) \in S
        <3>1. n \in Nat /\ list[n] \in Posts
            OBVIOUS
        <3> QED BY <3>1, FusedType
    <2> HIDE DEF N, S
    <2> QED BY <2>1
<1>4. PICK f \in [SUBSET (1..N) -> S] : IsFold(f, N, entries, step)
    <2>1. entries \in S
        OBVIOUS
    <2> HIDE DEF N, S, step
    <2> QED BY <1>1, <1>3, <2>1, FoldExists
<1>5. ASSUME NEW s \in SUBSET (1..N), s # {}
      PROVE  f[s] = Search!Fused(f[s \ {Search!Max(s)}], list[Search!Max(s)], Search!Max(s), path)
    <2>1. Search!Max(s) \in 1..N
        <3> HIDE DEF N
        <3> QED BY <1>1, <1>5, LargestIn
    <2>2. f[s \ {Search!Max(s)}] \in S
        <3> HIDE DEF N, S
        <3> QED OBVIOUS
    <2> HIDE DEF N, S
    <2> QED BY <1>4, <1>5, <2>1, <2>2 DEF IsFold
<1>6. P(f)
    <2> HIDE DEF N, S, step
    <2> QED BY <1>1, <1>4, <1>5, Zenon DEF IsFold
<1>7. P(iter)
    <2> HIDE DEF P
    <2> QED BY <1>6
<1> DEFINE a == [n \in 0..N |-> iter[1..n]]
<1>8. a[0] = entries
    <2>1. iter[{}] = entries
        <3> HIDE DEF iter
        <3> QED BY <1>7
    <2>2. 1..0 = {} /\ 0 \in 0..N
        <3> HIDE DEF N
        <3> QED BY <1>1
    <2> HIDE DEF iter
    <2> QED BY <2>1, <2>2
<1>9. ASSUME NEW n \in 1..N PROVE a[n] = Search!Fused(a[n - 1], list[n], n, path)
    <2>1. n \in Nat \ {0} /\ n \in 0..N /\ n - 1 \in 0..N /\ 1..n \in SUBSET (1..N)
        <3> HIDE DEF N
        <3> QED BY <1>1
    <2>2. Search!Max(1..n) = n /\ (1..n) \ {n} = 1..(n - 1) /\ 1..n # {}
        BY <2>1, FoldsOneMore
    <2>3. a[n] = iter[1..n] /\ a[n - 1] = iter[1..(n - 1)]
        BY <2>1, Zenon
    <2>4. iter[1..n] = Search!Fused(iter[(1..n) \ {Search!Max(1..n)}], list[Search!Max(1..n)], Search!Max(1..n), path)
        <3> HIDE DEF iter, N
        <3> QED BY <1>1, <1>7, <2>1, <2>2, Zenon
    <2> HIDE DEF a, iter, N
    <2> QED BY <2>2, <2>3, <2>4
<1>10. Search!FuseList(entries, list, path) = a[N]
    <2>1. N \in 0..N
        <3> HIDE DEF N
        <3> QED BY <1>1
    <2> HIDE DEF iter
    <2> QED BY <1>1, <1>2, <2>1
<1> HIDE DEF a
<1> QED BY <1>8, <1>9, <1>10

\* And the choice of related posts.
LEMMA PickedFolds ==
    ASSUME NEW hits, NEW near, near = Search!FirstOfEach(hits), near \in Seq(Posts)
    PROVE  \E a : /\ a[0] = <<>>
                  /\ \A n \in 1..Len(near) : a[n] = Search!Pick(a[n - 1], near[n])
                  /\ Search!Picked(hits) = a[Len(near)]
<1> DEFINE N == Len(near)
           S == Seq(Posts)
           step == [n \in 1..N |-> [acc \in S |-> Search!Pick(acc, near[n])]]
           P(g) == g = [s \in SUBSET (DOMAIN near) |->
                    IF s = {} THEN <<>>
                    ELSE Search!Pick(g[s \ {Search!Max(s)}], near[Search!Max(s)])]
           iter == CHOOSE g : P(g)
<1>1. N \in Nat /\ DOMAIN near = 1..N
    OBVIOUS
<1>2. Search!Picked(hits) = iter[DOMAIN near]
    BY Zenon DEF Search!Picked, Search!FoldLeft, Search!MapThenFoldSet
<1>3. step \in [1..N -> [S -> S]]
    <2>1. ASSUME NEW n \in 1..N, NEW acc \in S PROVE Search!Pick(acc, near[n]) \in S
        BY DEF Search!Pick
    <2> HIDE DEF N, S
    <2> QED BY <2>1
<1>4. PICK f \in [SUBSET (1..N) -> S] : IsFold(f, N, <<>>, step)
    <2>1. <<>> \in S
        OBVIOUS
    <2> HIDE DEF N, S, step
    <2> QED BY <1>1, <1>3, <2>1, FoldExists
<1>5. ASSUME NEW s \in SUBSET (1..N), s # {}
      PROVE  f[s] = Search!Pick(f[s \ {Search!Max(s)}], near[Search!Max(s)])
    <2>1. Search!Max(s) \in 1..N
        <3> HIDE DEF N
        <3> QED BY <1>1, <1>5, LargestIn
    <2>2. f[s \ {Search!Max(s)}] \in S
        <3> HIDE DEF N, S
        <3> QED OBVIOUS
    <2> HIDE DEF N, S
    <2> QED BY <1>4, <1>5, <2>1, <2>2 DEF IsFold
<1>6. P(f)
    <2> HIDE DEF N, S, step
    <2> QED BY <1>1, <1>4, <1>5, Zenon DEF IsFold
<1>7. P(iter)
    <2> HIDE DEF P
    <2> QED BY <1>6
<1> DEFINE a == [n \in 0..N |-> iter[1..n]]
<1>8. a[0] = <<>>
    <2>1. iter[{}] = <<>>
        <3> HIDE DEF iter
        <3> QED BY <1>7
    <2>2. 1..0 = {} /\ 0 \in 0..N
        <3> HIDE DEF N
        <3> QED BY <1>1
    <2> HIDE DEF iter
    <2> QED BY <2>1, <2>2
<1>9. ASSUME NEW n \in 1..N PROVE a[n] = Search!Pick(a[n - 1], near[n])
    <2>1. n \in Nat \ {0} /\ n \in 0..N /\ n - 1 \in 0..N /\ 1..n \in SUBSET (1..N)
        <3> HIDE DEF N
        <3> QED BY <1>1
    <2>2. Search!Max(1..n) = n /\ (1..n) \ {n} = 1..(n - 1) /\ 1..n # {}
        BY <2>1, FoldsOneMore
    <2>3. a[n] = iter[1..n] /\ a[n - 1] = iter[1..(n - 1)]
        BY <2>1, Zenon
    <2>4. iter[1..n] = Search!Pick(iter[(1..n) \ {Search!Max(1..n)}], near[Search!Max(1..n)])
        <3> HIDE DEF iter, N
        <3> QED BY <1>1, <1>7, <2>1, <2>2, Zenon
    <2> HIDE DEF a, iter, N
    <2> QED BY <2>2, <2>3, <2>4
<1>10. Search!Picked(hits) = a[N]
    <2>1. N \in 0..N
        <3> HIDE DEF N
        <3> QED BY <1>1
    <2> HIDE DEF iter
    <2> QED BY <1>1, <1>2, <2>1
<1> HIDE DEF a
<1> QED BY <1>8, <1>9, <1>10

-----------------------------------------------------------------------------
(* RagSearch: what its operators compute. *)

\* The living of the first n posts of a list, in their order.
Kept(part, seq, n, alive) ==
    /\ part \in Seq(Posts)
    /\ \E at \in [1..Len(part) -> 1..n] :
          /\ \A i, j \in 1..Len(part) : i < j => at[i] < at[j]
          /\ \A k \in 1..Len(part) : part[k] = seq[at[k]] /\ part[k] \in alive
    /\ \A i \in 1..n : seq[i] \in alive => \E k \in 1..Len(part) : part[k] = seq[i]

LEMMA AliveIs ==
    ASSUME NEW seq \in Seq(Posts)
    PROVE  Kept(Search!Alive(seq), seq, Len(seq), live)
<1> DEFINE N == Len(seq)
<1>0. N \in Nat /\ \A n \in 1..N : seq[n] \in Posts
    OBVIOUS
<1>1. PICK a : /\ a[0] = <<>>
               /\ \A n \in 1..N : a[n] = IF seq[n] \in live THEN Append(a[n - 1], seq[n]) ELSE a[n - 1]
               /\ Search!Alive(seq) = a[N]
    BY AliveFolds
<1> DEFINE T == {n \in 0..N : Kept(a[n], seq, n, live)}
<1> HIDE DEF N
<1>2. 0 \in T
    <2>1. a[0] \in Seq(Posts) /\ Len(a[0]) = 0
        BY <1>1
    <2>2. 1..0 = {} /\ 0 \in 0..N
        BY <1>0
    <2>3. [i \in {} |-> 0] \in [1..Len(a[0]) -> 1..0]
        BY <2>1, <2>2
    <2>4. Kept(a[0], seq, 0, live)
        BY <2>1, <2>2, <2>3, Zenon DEF Kept
    <2> QED BY <2>2, <2>4
<1>3. ASSUME NEW n \in 1..N, n - 1 \in T PROVE n \in T
    <2> DEFINE old == a[n - 1]
               new == a[n]
    <2>0. n \in Nat /\ n - 1 \in Nat /\ n \in 0..N /\ seq[n] \in Posts
        BY <1>0
    <2>1. Kept(old, seq, n - 1, live)
        BY <1>3
    <2>2. old \in Seq(Posts) /\ Len(old) \in Nat
        BY <2>1 DEF Kept
    <2>3. PICK at \in [1..Len(old) -> 1..(n - 1)] :
              /\ \A i, j \in 1..Len(old) : i < j => at[i] < at[j]
              /\ \A k \in 1..Len(old) : old[k] = seq[at[k]] /\ old[k] \in live
        BY <2>1, Zenon DEF Kept
    <2>4. \A i \in 1..(n - 1) : seq[i] \in live => \E k \in 1..Len(old) : old[k] = seq[i]
        BY <2>1 DEF Kept
    <2>5. new = IF seq[n] \in live THEN Append(old, seq[n]) ELSE old
        BY <1>1
    <2> HIDE DEF old, new
    <2>6. CASE seq[n] \in live
        <3>1. /\ new \in Seq(Posts) /\ Len(new) = Len(old) + 1 /\ new[Len(old) + 1] = seq[n]
              /\ \A k \in 1..Len(old) : new[k] = old[k]
            BY <2>0, <2>2, <2>5, <2>6
        <3> DEFINE to == [k \in 1..Len(new) |-> IF k = Len(old) + 1 THEN n ELSE at[k]]
        <3>2. ASSUME NEW k \in 1..Len(new)
              PROVE  to[k] \in 1..n /\ new[k] = seq[to[k]] /\ new[k] \in live
            <4>1. CASE k = Len(old) + 1
                BY <2>0, <2>2, <2>6, <3>1, <4>1
            <4>2. CASE k # Len(old) + 1
                <5>1. k \in 1..Len(old) /\ to[k] = at[k] /\ at[k] \in 1..(n - 1)
                    BY <2>2, <2>3, <3>1, <4>2
                <5> QED BY <2>0, <2>3, <3>1, <5>1
            <4> QED BY <4>1, <4>2
        <3>3. ASSUME NEW i \in 1..Len(new), NEW j \in 1..Len(new), i < j PROVE to[i] < to[j]
            <4>0. i \in 1..Len(old) /\ i # Len(old) + 1
                <5>1. Len(new) = Len(old) + 1
                    BY <3>1
                <5> HIDE DEF to
                <5> QED BY <2>2, <3>3, <5>1
            <4>1. to[i] = at[i] /\ at[i] \in 1..(n - 1)
                BY <2>3, <4>0
            <4>2. CASE j = Len(old) + 1
                BY <2>0, <4>1, <4>2
            <4>3. CASE j # Len(old) + 1
                <5>1. j \in 1..Len(old) /\ to[j] = at[j]
                    BY <2>2, <3>1, <4>3
                <5> QED BY <2>3, <3>3, <4>1, <5>1
            <4> QED BY <4>2, <4>3
        <3>4. to \in [1..Len(new) -> 1..n]
            BY <3>2
        <3>5. ASSUME NEW i \in 1..n, seq[i] \in live PROVE \E k \in 1..Len(new) : new[k] = seq[i]
            <4>1. CASE i = n
                BY <2>2, <3>1, <4>1
            <4>2. CASE i # n
                <5>1. i \in 1..(n - 1)
                    BY <2>0, <4>2
                <5>2. PICK k \in 1..Len(old) : old[k] = seq[i]
                    BY <2>4, <3>5, <5>1
                <5> QED BY <2>2, <3>1, <5>2
            <4> QED BY <4>1, <4>2
        <3> HIDE DEF to
        <3>6. Kept(new, seq, n, live)
            BY <3>1, <3>2, <3>3, <3>4, <3>5, Zenon DEF Kept
        <3> QED BY <2>0, <3>6 DEF new
    <2>7. CASE seq[n] \notin live
        <3>1. at \in [1..Len(old) -> 1..n]
            BY <2>0, <2>3
        <3>2. ASSUME NEW i \in 1..n, seq[i] \in live PROVE \E k \in 1..Len(old) : old[k] = seq[i]
            <4>1. i \in 1..(n - 1)
                BY <2>0, <2>7, <3>2
            <4> QED BY <2>4, <3>2, <4>1
        <3>3. Kept(old, seq, n, live)
            BY <2>2, <2>3, <3>1, <3>2, Zenon DEF Kept
        <3> QED BY <2>0, <2>5, <2>7, <3>3 DEF new
    <2> QED BY <2>6, <2>7
<1>4. N \in T
    <2> HIDE DEF T
    <2>1. \A n \in 0..N : n \in T
        BY <1>0, <1>2, <1>3, UpToN
    <2> QED BY <1>0, <2>1
<1> QED BY <1>1, <1>4 DEF N

\* The members of a list without repetitions are as many as it is long.
LEMMA Distinct ==
    ASSUME NEW k \in Nat, NEW part, \A i, j \in 1..k : part[i] = part[j] => i = j
    PROVE  /\ Search!Cardinality({part[m] : m \in 1..k}) = k
           /\ IsFiniteSet({part[m] : m \in 1..k})
<1> DEFINE f == [m \in 1..k |-> part[m]]
           S == {part[m] : m \in 1..k}
<1>1. f \in Surjection(1..k, S) /\ f \in Injection(1..k, S)
    BY DEF Surjection, Injection, IsInjective
<1>2. IsFiniteSet(1..k) /\ Cardinality(1..k) = k
    <2>1. Cardinality(1..k) = IF 1 > k THEN 0 ELSE k - 1 + 1
        BY FS_Interval
    <2> QED BY <2>1, FS_Interval
<1>3. IsFiniteSet(S) /\ Cardinality(S) = k
    <2> HIDE DEF f, S
    <2> QED BY <1>1, <1>2, FS_Surjection
<1>4. Search!Cardinality(S) = Cardinality(S)
    BY DEF Search!Cardinality, Cardinality
<1> QED BY <1>3, <1>4

\* The first of each post among the first n of a list, in their order.
Firsts(part, seq, n) ==
    /\ part \in Seq(Posts)
    /\ \A i, j \in 1..Len(part) : part[i] = part[j] => i = j
    /\ \E at \in [1..Len(part) -> 1..n] :
          /\ \A i, j \in 1..Len(part) : i < j => at[i] < at[j]
          /\ \A k \in 1..Len(part) :
                /\ part[k] = seq[at[k]]
                /\ \A i \in 1..(at[k] - 1) : \E m \in 1..(k - 1) : part[m] = seq[i]
    /\ \A i \in 1..n : \E k \in 1..Len(part) : part[k] = seq[i]

LEMMA FirstsAre ==
    ASSUME NEW seq \in Seq(Posts)
    PROVE  Firsts(Search!FirstOfEach(seq), seq, Len(seq))
<1> DEFINE N == Len(seq)
<1>0. N \in Nat /\ \A n \in 1..N : seq[n] \in Posts
    OBVIOUS
<1>1. PICK a : /\ a[0] = <<>>
               /\ \A n \in 1..N : a[n] = IF seq[n] \in Search!ToSet(a[n - 1]) THEN a[n - 1]
                                         ELSE Append(a[n - 1], seq[n])
               /\ Search!FirstOfEach(seq) = a[N]
    BY FirstsFold
<1> DEFINE T == {n \in 0..N : Firsts(a[n], seq, n)}
<1> HIDE DEF N
<1>2. 0 \in T
    <2>1. a[0] \in Seq(Posts) /\ Len(a[0]) = 0
        BY <1>1
    <2>2. 1..0 = {} /\ 0 \in 0..N
        BY <1>0
    <2>3. [i \in {} |-> 0] \in [1..Len(a[0]) -> 1..0]
        BY <2>1, <2>2
    <2>4. Firsts(a[0], seq, 0)
        BY <2>1, <2>2, <2>3, Zenon DEF Firsts
    <2> QED BY <2>2, <2>4
<1>3. ASSUME NEW n \in 1..N, n - 1 \in T PROVE n \in T
    <2> DEFINE old == a[n - 1]
               new == a[n]
    <2>0. n \in Nat /\ n - 1 \in Nat /\ n \in 0..N /\ seq[n] \in Posts
        BY <1>0
    <2>1. Firsts(old, seq, n - 1)
        BY <1>3
    <2>2. /\ old \in Seq(Posts) /\ Len(old) \in Nat
          /\ \A i, j \in 1..Len(old) : old[i] = old[j] => i = j
        <3>1. /\ old \in Seq(Posts)
              /\ \A i, j \in 1..Len(old) : old[i] = old[j] => i = j
            BY <2>1, Zenon DEF Firsts
        <3> QED BY <3>1
    <2>3. PICK at \in [1..Len(old) -> 1..(n - 1)] :
              /\ \A i, j \in 1..Len(old) : i < j => at[i] < at[j]
              /\ \A k \in 1..Len(old) :
                    /\ old[k] = seq[at[k]]
                    /\ \A i \in 1..(at[k] - 1) : \E m \in 1..(k - 1) : old[m] = seq[i]
        BY <2>1, Zenon DEF Firsts
    <2>4. \A i \in 1..(n - 1) : \E k \in 1..Len(old) : old[k] = seq[i]
        BY <2>1 DEF Firsts
    <2>5. new = IF seq[n] \in Search!ToSet(old) THEN old ELSE Append(old, seq[n])
        BY <1>1
    <2> HIDE DEF old, new
    <2>6. seq[n] \in Search!ToSet(old) <=> \E k \in 1..Len(old) : old[k] = seq[n]
        <3>1. Search!ToSet(old) = {old[k] : k \in 1..Len(old)}
            BY <2>2 DEF Search!ToSet
        <3> QED BY <3>1
    <2>7. CASE seq[n] \notin Search!ToSet(old)
        <3>1. /\ new \in Seq(Posts) /\ Len(new) = Len(old) + 1 /\ new[Len(old) + 1] = seq[n]
              /\ \A k \in 1..Len(old) : new[k] = old[k]
            BY <2>0, <2>2, <2>5, <2>7
        <3> DEFINE to == [k \in 1..Len(new) |-> IF k = Len(old) + 1 THEN n ELSE at[k]]
        <3>2. ASSUME NEW k \in 1..Len(new)
              PROVE  /\ to[k] \in 1..n /\ new[k] = seq[to[k]]
                     /\ \A i \in 1..(to[k] - 1) : \E m \in 1..(k - 1) : new[m] = seq[i]
            <4>1. CASE k = Len(old) + 1
                <5>1. to[k] = n /\ k - 1 = Len(old)
                    BY <2>2, <3>1, <4>1
                <5> HIDE DEF to
                <5>2. ASSUME NEW i \in 1..(n - 1) PROVE \E m \in 1..(k - 1) : new[m] = seq[i]
                    <6>1. PICK m \in 1..Len(old) : old[m] = seq[i]
                        BY <2>4
                    <6> QED BY <3>1, <5>1, <6>1
                <5> QED BY <2>0, <3>1, <4>1, <5>1, <5>2
            <4>2. CASE k # Len(old) + 1
                <5>0. k \in 1..Len(old) /\ to[k] = at[k]
                    BY <2>2, <3>1, <4>2
                <5>1. k \in 1..Len(old) /\ to[k] = at[k] /\ at[k] \in 1..(n - 1)
                    BY <2>3, <5>0
                <5> HIDE DEF to
                <5>2. ASSUME NEW i \in 1..(at[k] - 1) PROVE \E m \in 1..(k - 1) : new[m] = seq[i]
                    <6>1. PICK m \in 1..(k - 1) : old[m] = seq[i]
                        BY <2>3, <5>1
                    <6>2. m \in 1..Len(old)
                        BY <2>2, <5>1
                    <6> QED BY <3>1, <6>1, <6>2
                <5>3. to[k] \in 1..n /\ new[k] = seq[to[k]]
                    BY <2>0, <2>3, <3>1, <5>1
                <5> QED BY <5>1, <5>2, <5>3
            <4> QED BY <4>1, <4>2
        <3>3. ASSUME NEW i \in 1..Len(new), NEW j \in 1..Len(new), i < j PROVE to[i] < to[j]
            <4>0. i \in 1..Len(old) /\ i # Len(old) + 1
                <5>1. Len(new) = Len(old) + 1
                    BY <3>1
                <5> HIDE DEF to
                <5> QED BY <2>2, <3>3, <5>1
            <4>1. to[i] = at[i] /\ at[i] \in 1..(n - 1)
                BY <2>3, <4>0
            <4>2. CASE j = Len(old) + 1
                BY <2>0, <4>1, <4>2
            <4>3. CASE j # Len(old) + 1
                <5>1. j \in 1..Len(old) /\ to[j] = at[j]
                    BY <2>2, <3>1, <4>3
                <5> QED BY <2>3, <3>3, <4>1, <5>1
            <4> QED BY <4>2, <4>3
        <3>4. to \in [1..Len(new) -> 1..n]
            BY <3>2
        <3>5. ASSUME NEW i \in 1..n PROVE \E k \in 1..Len(new) : new[k] = seq[i]
            <4>1. CASE i = n
                BY <2>2, <3>1, <4>1
            <4>2. CASE i # n
                <5>1. i \in 1..(n - 1)
                    BY <2>0, <4>2
                <5>2. PICK k \in 1..Len(old) : old[k] = seq[i]
                    BY <2>4, <5>1
                <5> QED BY <2>2, <3>1, <5>2
            <4> QED BY <4>1, <4>2
        <3>6. ASSUME NEW i \in 1..Len(new), NEW j \in 1..Len(new), new[i] = new[j] PROVE i = j
            <4>1. \A k \in 1..Len(new) : k # Len(old) + 1 => k \in 1..Len(old)
                BY <2>2, <3>1
            <4>2. \A k \in 1..Len(old) : new[k] # seq[n]
                BY <2>6, <2>7, <3>1
            <4> QED BY <2>2, <3>1, <3>6, <4>1, <4>2
        <3> HIDE DEF to
        <3>7. \E x \in [1..Len(new) -> 1..n] :
                  /\ \A i, j \in 1..Len(new) : i < j => x[i] < x[j]
                  /\ \A k \in 1..Len(new) :
                        /\ new[k] = seq[x[k]]
                        /\ \A i \in 1..(x[k] - 1) : \E m \in 1..(k - 1) : new[m] = seq[i]
            BY <3>2, <3>3, <3>4, Zenon
        <3>8. Firsts(new, seq, n)
            BY <3>1, <3>5, <3>6, <3>7, Zenon DEF Firsts
        <3> QED BY <2>0, <3>8 DEF new
    <2>8. CASE seq[n] \in Search!ToSet(old)
        <3>1. at \in [1..Len(old) -> 1..n]
            BY <2>0, <2>3
        <3>2. ASSUME NEW i \in 1..n PROVE \E k \in 1..Len(old) : old[k] = seq[i]
            <4>1. i = n \/ i \in 1..(n - 1)
                BY <2>0
            <4> QED BY <2>4, <2>6, <2>8, <4>1
        <3>3. Firsts(old, seq, n)
            BY <2>2, <2>3, <3>1, <3>2, Zenon DEF Firsts
        <3> QED BY <2>0, <2>5, <2>8, <3>3 DEF new
    <2> QED BY <2>7, <2>8
<1>4. N \in T
    <2> HIDE DEF T
    <2>1. \A n \in 0..N : n \in T
        BY <1>0, <1>2, <1>3, UpToN
    <2> QED BY <1>0, <2>1
<1> QED BY <1>1, <1>4 DEF N

\* A list without repetitions is the first of each of its posts.
LEMMA OwnFirsts ==
    ASSUME NEW seq \in Seq(Posts), \A i, j \in 1..Len(seq) : seq[i] = seq[j] => i = j
    PROVE  Firsts(seq, seq, Len(seq))
<1> DEFINE at == [k \in 1..Len(seq) |-> k]
<1>1. /\ at \in [1..Len(seq) -> 1..Len(seq)]
      /\ \A i, j \in 1..Len(seq) : i < j => at[i] < at[j]
    OBVIOUS
<1>2. \A k \in 1..Len(seq) :
         seq[k] = seq[at[k]] /\ \A i \in 1..(at[k] - 1) : \E m \in 1..(k - 1) : seq[m] = seq[i]
    OBVIOUS
<1> HIDE DEF at
<1> QED BY <1>1, <1>2, Zenon DEF Firsts

\* The rank of a post in a list is its place among the first of each.
LEMMA PlaceIs ==
    ASSUME NEW seq \in Seq(Posts), NEW part, Firsts(part, seq, Len(seq)), NEW k \in 1..Len(part)
    PROVE  Search!Rank(part[k], seq) = k
<1> DEFINE N == Len(seq)
           p == part[k]
           Is(i) == seq[i] = p /\ \A j \in 1..(i - 1) : seq[j] # p
           i0 == CHOOSE i \in DOMAIN seq : Is(i)
<1>0. N \in Nat /\ DOMAIN seq = 1..N /\ Len(part) \in Nat
    BY DEF Firsts
<1>1. PICK at \in [1..Len(part) -> 1..N] :
          /\ \A i, j \in 1..Len(part) : i < j => at[i] < at[j]
          /\ \A m \in 1..Len(part) :
                /\ part[m] = seq[at[m]]
                /\ \A i \in 1..(at[m] - 1) : \E l \in 1..(m - 1) : part[l] = seq[i]
    BY Zenon DEF Firsts
<1>2. \A i, j \in 1..Len(part) : part[i] = part[j] => i = j
    BY DEF Firsts
<1>3. at[k] \in 1..N /\ seq[at[k]] = p
    BY <1>1
<1>4. ASSUME NEW j \in 1..(at[k] - 1) PROVE seq[j] # p
    <2>1. PICK l \in 1..(k - 1) : part[l] = seq[j]
        BY <1>1
    <2>2. l \in 1..Len(part) /\ l # k
        BY <1>0
    <2> QED BY <1>2, <2>1, <2>2
<1>5. i0 \in 1..N /\ Is(i0)
    <2>1. at[k] \in DOMAIN seq /\ Is(at[k])
        BY <1>0, <1>3, <1>4
    <2> HIDE DEF Is
    <2> QED BY <1>0, <2>1
<1> HIDE DEF i0
<1>6. i0 = at[k]
    <2>1. seq[i0] = p /\ \A j \in 1..(i0 - 1) : seq[j] # p
        BY <1>5
    <2>2. ~(i0 < at[k])
        <3> HIDE DEF p, N
        <3>1. i0 < at[k] => i0 \in 1..(at[k] - 1)
            BY <1>0, <1>3, <1>5
        <3> QED BY <1>4, <2>1, <3>1
    <2>3. ~(at[k] < i0)
        <3> HIDE DEF p, N
        <3>1. at[k] < i0 => at[k] \in 1..(i0 - 1)
            BY <1>0, <1>3, <1>5
        <3> QED BY <1>3, <2>1, <3>1
    <2> HIDE DEF p, N
    <2> QED BY <1>0, <1>3, <1>5, <2>2, <2>3
<1>7. Search!ToSet(SubSeq(seq, 1, at[k])) = {part[m] : m \in 1..k}
    <2>1. Search!ToSet(SubSeq(seq, 1, at[k])) = {SubSeq(seq, 1, at[k])[i] : i \in 1..at[k]}
        <3> HIDE DEF p, N
        <3>1. DOMAIN SubSeq(seq, 1, at[k]) = 1..at[k]
            BY <1>0, <1>3
        <3> QED BY <3>1, Zenon DEF Search!ToSet
    <2>2. \A i \in 1..at[k] : SubSeq(seq, 1, at[k])[i] = seq[i]
        BY <1>0, <1>3
    <2>3. ASSUME NEW i \in 1..at[k] PROVE \E m \in 1..k : part[m] = seq[i]
        <3>1. CASE i = at[k]
            BY <1>0, <1>3, <3>1
        <3>2. CASE i # at[k]
            <4>1. i \in 1..(at[k] - 1)
                BY <1>0, <1>3, <3>2
            <4>2. PICK l \in 1..(k - 1) : part[l] = seq[i]
                BY <1>1, <4>1
            <4>3. l \in 1..k
                BY <1>0
            <4> QED BY <4>2, <4>3
        <3> QED BY <3>1, <3>2
    <2>4. ASSUME NEW m \in 1..k PROVE at[m] \in 1..at[k] /\ part[m] = seq[at[m]]
        <3>1. m \in 1..Len(part) /\ (m < k \/ m = k)
            BY <1>0
        <3> QED BY <1>0, <1>1, <1>3, <3>1
    <2> DEFINE sub == SubSeq(seq, 1, at[k])
    <2> HIDE DEF p, N, sub
    <2>5. ASSUME NEW x \in Search!ToSet(sub) PROVE x \in {part[m] : m \in 1..k}
        <3>1. PICK i \in 1..at[k] : x = sub[i]
            BY <2>1 DEF sub
        <3>2. x = seq[i]
            BY <2>2, <3>1 DEF sub
        <3> QED BY <2>3, <3>2
    <2>6. ASSUME NEW m \in 1..k PROVE part[m] \in Search!ToSet(sub)
        <3>1. sub[at[m]] = part[m]
            BY <2>2, <2>4 DEF sub
        <3> QED BY <2>1, <2>4, <3>1 DEF sub
    <2>7. Search!ToSet(sub) = {part[m] : m \in 1..k}
        BY <2>5, <2>6
    <2> QED BY <2>7 DEF sub
<1>8. Search!Cardinality({part[m] : m \in 1..k}) = k
    <2>1. k \in Nat /\ \A i, j \in 1..k : part[i] = part[j] => i = j
        BY <1>0, <1>2
    <2> HIDE DEF p, N
    <2> QED BY <2>1, Distinct, SMTT(60)
<1>9. Search!Rank(p, seq) = Search!Cardinality(Search!ToSet(SubSeq(seq, 1, i0)))
    BY Zenon DEF Search!Rank, i0, Is
<1> QED BY <1>6, <1>7, <1>8, <1>9

\* What a rank adds to a score.
Share(n) == Search!Scale \div (Search!RRF_K + n)

NoRepeats(list) == \A i, j \in 1..Len(list) : list[i] = list[j] => i = j

LEMMA OtherSources ==
    ASSUME NEW p, NEW s, NEW old, NEW new
    PROVE  [[post |-> p, score |-> s, sources |-> old] EXCEPT !.sources = new] =
              [post |-> p, score |-> s, sources |-> new]
    OBVIOUS

LEMMA FusedAdds ==
    ASSUME NEW acc \in Seq(Entries), NEW p \in Posts, NEW n \in Nat, NEW path \in {0, 1},
           \A i \in 1..Len(acc) : acc[i].post # p
    PROVE  Search!Fused(acc, p, n, path) = Append(acc, [post |-> p, score |-> Share(n), sources |-> {path}])
<1>1. {i \in DOMAIN acc : acc[i].post = p} = {}
    OBVIOUS
<1> QED BY <1>1, Zenon DEF Search!Fused, Share

\* Another entry at place k.
Raised(new, old, k, entry) ==
    /\ new \in Seq(Entries) /\ Len(new) = Len(old) /\ new[k] = entry
    /\ \A i \in 1..Len(old) : i # k => new[i] = old[i]

LEMMA EntryChanged ==
    ASSUME NEW acc \in Seq(Entries), NEW i \in 1..Len(acc), NEW entry \in Entries
    PROVE  Raised([acc EXCEPT ![i] = entry], acc, i, entry)
BY DEF Raised

LEMMA FusedRaises ==
    ASSUME NEW acc \in Seq(Entries), NEW p \in Posts, NEW n \in Nat,
           NEW i \in 1..Len(acc), acc[i].post = p, 1 \notin acc[i].sources,
           \A j \in 1..Len(acc) : acc[j].post = p => j = i,
           NEW entry, entry = [post |-> p, score |-> acc[i].score + Share(n),
                               sources |-> acc[i].sources \cup {1}],
           NEW new, new = Search!Fused(acc, p, n, 1)
    PROVE  Raised(new, acc, i, entry)
<1> DEFINE at == {j \in DOMAIN acc : acc[j].post = p}
           i0 == CHOOSE j \in at : TRUE
<1>1. at = {i}
    OBVIOUS
<1>2. i0 = i /\ at # {}
    BY <1>1
<1> HIDE DEF at
<1>3. Search!Fused(acc, p, n, 1) =
         [acc EXCEPT ![i0].score = @ + Share(n), ![i0].sources = @ \cup {1}]
    BY <1>2, Zenon DEF Search!Fused, Share, at
<1> HIDE DEF i0
<1>4. Search!Fused(acc, p, n, 1) =
         [acc EXCEPT ![i].score = @ + Share(n), ![i].sources = @ \cup {1}]
    BY <1>2, <1>3
<1> DEFINE e == acc[i]
           one == [e EXCEPT !.score = @ + Share(n)]
           two == [one EXCEPT !.sources = @ \cup {1}]
<1>5. i \in DOMAIN acc /\ e \in Entries
    OBVIOUS
<1>6. e = [post |-> e.post, score |-> e.score, sources |-> e.sources]
    <2> HIDE DEF e
    <2> QED BY <1>5 DEF Entries
<1>7. one = [post |-> e.post, score |-> e.score + Share(n), sources |-> e.sources]
    <2> HIDE DEF e
    <2> QED BY <1>6
<1>8. two = [post |-> e.post, score |-> e.score + Share(n), sources |-> e.sources \cup {1}]
    <2>1. one.sources = e.sources
        <3> HIDE DEF e, one
        <3> QED BY <1>7
    <2> HIDE DEF e, one
    <2>2. [one EXCEPT !.sources = e.sources \cup {1}] =
             [post |-> e.post, score |-> e.score + Share(n), sources |-> e.sources \cup {1}]
        BY <1>7, OtherSources
    <2> QED BY <2>1, <2>2
<1>9. [acc EXCEPT ![i].score = @ + Share(n), ![i].sources = @ \cup {1}] = [acc EXCEPT ![i] = two]
    BY <1>5
<1>10. entry \in Entries
    <2>1. Share(n) \in Nat
        BY ShareIsNumber DEF Share
    <2>2. e.score + Share(n) \in Nat /\ e.sources \cup {1} \in SUBSET {0, 1}
        BY <1>5, <2>1 DEF Entries
    <2> QED BY <2>2 DEF Entries
<1> HIDE DEF e, one, two
<1>11. new = [acc EXCEPT ![i] = entry]
    BY <1>4, <1>8, <1>9
<1>12. Raised([acc EXCEPT ![i] = entry], acc, i, entry)
    BY <1>10, EntryChanged
<1> QED BY <1>11, <1>12, Zenon

\* A first list is entered post by post.
Entered(acc, list, n) ==
    /\ acc \in Seq(Entries) /\ Len(acc) = n
    /\ \A i \in 1..n : acc[i].post = list[i] /\ acc[i].score = Share(i) /\ acc[i].sources = {0}

LEMMA FirstPath ==
    ASSUME NEW list \in Seq(Posts), NoRepeats(list)
    PROVE  Entered(Search!FuseList(<<>>, list, 0), list, Len(list))
<1> DEFINE N == Len(list)
<1>0. N \in Nat /\ \A n \in 1..N : list[n] \in Posts
    OBVIOUS
<1>1. PICK a : /\ a[0] = <<>>
               /\ \A n \in 1..N : a[n] = Search!Fused(a[n - 1], list[n], n, 0)
               /\ Search!FuseList(<<>>, list, 0) = a[N]
    <2>1. <<>> \in Seq(Entries) /\ 0 \in {0, 1}
        OBVIOUS
    <2> QED BY <2>1, FuseFolds
<1> DEFINE T == {n \in 0..N : Entered(a[n], list, n)}
<1> HIDE DEF N
<1>2. 0 \in T
    <2>1. a[0] \in Seq(Entries) /\ Len(a[0]) = 0 /\ 1..0 = {} /\ 0 \in 0..N
        BY <1>0, <1>1
    <2>2. Entered(a[0], list, 0)
        BY <2>1 DEF Entered
    <2> QED BY <2>1, <2>2
<1>3. ASSUME NEW n \in 1..N, n - 1 \in T PROVE n \in T
    <2> DEFINE old == a[n - 1]
               new == a[n]
               entry == [post |-> list[n], score |-> Share(n), sources |-> {0}]
    <2>0. n \in Nat /\ n - 1 \in Nat /\ n \in 0..N /\ list[n] \in Posts
        BY <1>0
    <2>1. Entered(old, list, n - 1)
        BY <1>3
    <2>2. new = Search!Fused(old, list[n], n, 0)
        BY <1>1
    <2> HIDE DEF old, new
    <2>3. \A i \in 1..Len(old) : old[i].post # list[n]
        <3>1. \A i \in 1..(n - 1) : i \in 1..Len(list) /\ i # n
            BY <1>0, <2>0 DEF N
        <3>2. n \in 1..Len(list)
            BY DEF N
        <3> QED BY <2>1, <3>1, <3>2 DEF Entered, NoRepeats
    <2>4. new = Append(old, entry)
        <3>1. old \in Seq(Entries) /\ 0 \in {0, 1}
            BY <2>1 DEF Entered
        <3> QED BY <2>0, <2>2, <2>3, <3>1, FusedAdds, Zenon
    <2>5. entry \in Entries
        BY <2>0, ShareIsNumber DEF Entries, Share
    <2>6. /\ new \in Seq(Entries) /\ Len(new) = n /\ new[n] = entry
          /\ \A i \in 1..(n - 1) : new[i] = old[i]
        <3> HIDE DEF entry
        <3> QED BY <2>0, <2>1, <2>4, <2>5 DEF Entered
    <2>7. \A i \in 1..n : i = n \/ i \in 1..(n - 1)
        BY <2>0
    <2>8. ASSUME NEW i \in 1..n
          PROVE  new[i].post = list[i] /\ new[i].score = Share(i) /\ new[i].sources = {0}
        <3>1. CASE i = n
            BY <2>6, <3>1
        <3>2. CASE i \in 1..(n - 1)
            <4>1. new[i] = old[i]
                BY <2>6, <3>2
            <4> QED BY <2>1, <3>2, <4>1 DEF Entered
        <3> QED BY <2>7, <3>1, <3>2
    <2>9. Entered(new, list, n)
        BY <2>6, <2>8, Zenon DEF Entered
    <2> QED BY <2>0, <2>9 DEF new
<1>4. N \in T
    <2> HIDE DEF T
    <2>1. \A n \in 0..N : n \in T
        BY <1>0, <1>2, <1>3, UpToN
    <2> QED BY <1>0, <2>1
<1> QED BY <1>1, <1>4 DEF N

\* A second list raises what it shares with the first and adds the rest.
Fusion(acc, head, list, n) ==
    /\ acc \in Seq(Entries) /\ Len(head) <= Len(acc)
    /\ \A i, j \in 1..Len(acc) : acc[i].post = acc[j].post => i = j
    /\ \A i \in 1..Len(head) :
          /\ acc[i].post = head[i]
          /\ \A r \in 1..n : list[r] = head[i] => acc[i].score = Share(i) + Share(r)
          /\ (\A r \in 1..n : list[r] # head[i]) => acc[i].score = Share(i) /\ acc[i].sources = {0}
    /\ \E at \in [(Len(head) + 1)..Len(acc) -> 1..n] :
          /\ \A i, j \in (Len(head) + 1)..Len(acc) : i < j => at[i] < at[j]
          /\ \A i \in (Len(head) + 1)..Len(acc) :
                acc[i].post = list[at[i]] /\ acc[i].score = Share(at[i])
    /\ \A r \in 1..n : \E i \in 1..Len(acc) : acc[i].post = list[r]

\* A post that is in the list alone goes to the end.
LEMMA FusionAdds ==
    ASSUME NEW head \in Seq(Posts), NEW list \in Seq(Posts), NoRepeats(list),
           NEW n \in 1..Len(list), NEW old, Fusion(old, head, list, n - 1),
           \A i \in 1..Len(old) : old[i].post # list[n],
           NEW new, new = Search!Fused(old, list[n], n, 1)
    PROVE  Fusion(new, head, list, n)
<1> DEFINE H == Len(head)
           M == Len(old)
           entry == [post |-> list[n], score |-> Share(n), sources |-> {1}]
<1>0. /\ n \in Nat /\ n - 1 \in Nat /\ list[n] \in Posts /\ H \in Nat /\ M \in Nat /\ H <= M
      /\ old \in Seq(Entries)
      /\ \A r \in 1..n : r = n \/ r \in 1..(n - 1)
    BY DEF Fusion
<1>1. new = Append(old, entry)
    <2>1. 1 \in {0, 1}
        OBVIOUS
    <2> QED BY <1>0, <2>1, FusedAdds, Zenon
<1>2. entry \in Entries
    BY <1>0, ShareIsNumber DEF Entries, Share
<1>3. /\ new \in Seq(Entries) /\ Len(new) = M + 1 /\ new[M + 1] = entry
      /\ \A i \in 1..M : new[i] = old[i]
    <2> HIDE DEF entry
    <2>1. /\ Append(old, entry) \in Seq(Entries) /\ Len(Append(old, entry)) = Len(old) + 1
          /\ Append(old, entry)[Len(old) + 1] = entry
          /\ \A i \in 1..Len(old) : Append(old, entry)[i] = old[i]
        <3>1. old \in Seq(Entries)
            BY <1>0
        <3> QED BY <1>2, <3>1
    <2> QED BY <1>1, <2>1
<1>17. new[M + 1].post = list[n]
    BY <1>3
<1> HIDE DEF entry
<1>4. \A i \in 1..(M + 1) : i = M + 1 \/ i \in 1..M
    BY <1>0
<1>5. \A i \in 1..H : i \in 1..M /\ new[i] = old[i]
    <2>1. \A i \in 1..H : i \in 1..M
        BY <1>0
    <2> QED BY <1>3, <2>1
<1>6. \A i, j \in 1..Len(new) : new[i].post = new[j].post => i = j
    <2>1. \A i, j \in 1..M : old[i].post = old[j].post => i = j
        BY DEF Fusion
    <2>2. \A i \in 1..M : new[i].post # new[M + 1].post /\ new[i].post = old[i].post
        BY <1>3, <1>17
    <2> HIDE DEF M
    <2> QED BY <1>3, <1>4, <2>1, <2>2
<1>7. ASSUME NEW i \in 1..H
      PROVE  /\ new[i].post = head[i]
             /\ \A r \in 1..n : list[r] = head[i] => new[i].score = Share(i) + Share(r)
             /\ (\A r \in 1..n : list[r] # head[i]) => new[i].score = Share(i) /\ new[i].sources = {0}
    <2>1. /\ old[i].post = head[i]
          /\ \A r \in 1..(n - 1) : list[r] = head[i] => old[i].score = Share(i) + Share(r)
          /\ (\A r \in 1..(n - 1) : list[r] # head[i]) => old[i].score = Share(i) /\ old[i].sources = {0}
        BY DEF Fusion
    <2>2. list[n] # head[i]
        BY <1>5, <2>1
    <2>3. \A r \in 1..(n - 1) : r \in 1..n
        BY <1>0
    <2> QED BY <1>0, <1>5, <2>1, <2>2, <2>3
<1>8. PICK at \in [(H + 1)..M -> 1..(n - 1)] :
          /\ \A i, j \in (H + 1)..M : i < j => at[i] < at[j]
          /\ \A i \in (H + 1)..M : old[i].post = list[at[i]] /\ old[i].score = Share(at[i])
    BY Zenon DEF Fusion
<1> DEFINE to == [i \in (H + 1)..(M + 1) |-> IF i = M + 1 THEN n ELSE at[i]]
<1> HIDE DEF H, M
<1>9. ASSUME NEW i \in (H + 1)..(M + 1), i # M + 1
      PROVE  i \in (H + 1)..M /\ to[i] = at[i] /\ at[i] \in 1..(n - 1) /\ new[i] = old[i]
    <2>1. i \in (H + 1)..M /\ i \in 1..M
        BY <1>0, <1>9
    <2> QED BY <1>3, <1>8, <1>9, <2>1
<1>10. M + 1 \in (H + 1)..(M + 1) /\ to[M + 1] = n
    BY <1>0
<1> HIDE DEF to
<1>11. ASSUME NEW i \in (H + 1)..(M + 1)
       PROVE  to[i] \in 1..n /\ new[i].post = list[to[i]] /\ new[i].score = Share(to[i])
    <2>1. CASE i = M + 1
        <3>1. new[M + 1].score = Share(n)
            BY <1>3 DEF entry
        <3>2. n \in 1..n
            BY <1>0
        <3> QED BY <1>10, <1>17, <2>1, <3>1, <3>2
    <2>2. CASE i # M + 1
        <3>1. at[i] \in 1..n
            BY <1>0, <1>9, <2>2
        <3> QED BY <1>8, <1>9, <2>2, <3>1
    <2> QED BY <2>1, <2>2
<1>12. ASSUME NEW i \in (H + 1)..(M + 1), NEW j \in (H + 1)..(M + 1), i < j PROVE to[i] < to[j]
    <2>1. i # M + 1
        BY <1>0, <1>12
    <2>2. CASE j = M + 1
        BY <1>0, <1>9, <1>10, <2>1, <2>2
    <2>3. CASE j # M + 1
        BY <1>8, <1>9, <1>12, <2>1, <2>3
    <2> QED BY <2>2, <2>3
<1>13. to \in [(H + 1)..(M + 1) -> 1..n]
    BY <1>11 DEF to
<1>14. \E x \in [(H + 1)..Len(new) -> 1..n] :
          /\ \A i, j \in (H + 1)..Len(new) : i < j => x[i] < x[j]
          /\ \A i \in (H + 1)..Len(new) : new[i].post = list[x[i]] /\ new[i].score = Share(x[i])
    <2>1. Len(new) = M + 1
        BY <1>3
    <2> QED BY <1>11, <1>12, <1>13, <2>1, Zenon
<1>15. ASSUME NEW r \in 1..n PROVE \E i \in 1..Len(new) : new[i].post = list[r]
    <2>1. CASE r = n
        <3>1. M + 1 \in 1..Len(new)
            BY <1>0, <1>3
        <3> QED BY <1>17, <2>1, <3>1
    <2>2. CASE r # n
        <3>1. PICK i \in 1..M : old[i].post = list[r]
            BY <1>0, <2>2 DEF Fusion, M
        <3>2. i \in 1..Len(new) /\ new[i] = old[i]
            BY <1>0, <1>3
        <3> QED BY <3>1, <3>2
    <2> QED BY <2>1, <2>2
<1>16. H <= Len(new)
    BY <1>0, <1>3
<1> QED BY <1>3, <1>6, <1>7, <1>14, <1>15, <1>16, Zenon DEF Fusion, H

\* A post that the first list has too is raised where it is.
LEMMA FusionRaises ==
    ASSUME NEW head \in Seq(Posts), NEW list \in Seq(Posts), NoRepeats(list),
           NEW n \in 1..Len(list), NEW old, Fusion(old, head, list, n - 1),
           NEW k \in 1..Len(old), old[k].post = list[n],
           NEW new, new = Search!Fused(old, list[n], n, 1)
    PROVE  Fusion(new, head, list, n)
<1> DEFINE H == Len(head)
           M == Len(old)
           entry == [post |-> list[n], score |-> old[k].score + Share(n), sources |-> old[k].sources \cup {1}]
<1>0. /\ n \in Nat /\ n - 1 \in Nat /\ list[n] \in Posts /\ H \in Nat /\ M \in Nat /\ H <= M
      /\ old \in Seq(Entries)
      /\ \A r \in 1..n : r = n \/ r \in 1..(n - 1)
      /\ \A r \in 1..(n - 1) : r \in 1..n
    BY DEF Fusion
<1>1. PICK at \in [(H + 1)..M -> 1..(n - 1)] :
          /\ \A i, j \in (H + 1)..M : i < j => at[i] < at[j]
          /\ \A i \in (H + 1)..M : old[i].post = list[at[i]] /\ old[i].score = Share(at[i])
    BY Zenon DEF Fusion
<1>2. \A r \in 1..(n - 1) : list[r] # list[n]
    <2>1. \A r \in 1..(n - 1) : r \in 1..Len(list) /\ r # n
        OBVIOUS
    <2> QED BY <2>1 DEF NoRepeats
<1>3. k \in 1..H
    <2>1. CASE k \in (H + 1)..M
        <3>1. at[k] \in 1..(n - 1) /\ old[k].post = list[at[k]]
            <4> HIDE DEF H, M
            <4> QED BY <1>1, <2>1
        <3> QED BY <1>2, <3>1
    <2> HIDE DEF H
    <2> QED BY <1>0, <2>1
<1>4. head[k] = list[n] /\ old[k].score = Share(k) /\ old[k].sources = {0}
    <2>1. old[k].post = head[k]
        BY <1>3 DEF Fusion
    <2>2. \A r \in 1..(n - 1) : list[r] # head[k]
        BY <1>2, <2>1
    <2> QED BY <1>3, <2>1, <2>2 DEF Fusion
<1>5. \A i, j \in 1..M : old[i].post = old[j].post => i = j
    BY DEF Fusion
<1>8. /\ new \in Seq(Entries) /\ Len(new) = M /\ new[k] = entry
      /\ \A i \in 1..M : i # k => new[i] = old[i]
    <2>1. 1 \notin old[k].sources
        BY <1>4
    <2>2. \A j \in 1..M : old[j].post = list[n] => j = k
        BY <1>5
    <2>3. old \in Seq(Entries) /\ list[n] \in Posts /\ n \in Nat
        BY <1>0
    <2>4. entry = [post |-> list[n], score |-> old[k].score + Share(n),
                   sources |-> old[k].sources \cup {1}]
        OBVIOUS
    <2>5. /\ old[k].post = list[n] /\ k \in 1..Len(old) /\ new = Search!Fused(old, list[n], n, 1)
          /\ \A j \in 1..Len(old) : old[j].post = list[n] => j = k
        BY <2>2
    <2> HIDE DEF entry, M, H
    <2>6. Raised(new, old, k, entry)
        BY <2>1, <2>3, <2>4, <2>5, FusedRaises
    <2> QED BY <2>6 DEF Raised, M
<1>9. \A i \in 1..M : new[i].post = old[i].post
    <2>1. entry.post = old[k].post
        OBVIOUS
    <2> HIDE DEF entry, M
    <2> QED BY <1>8, <2>1
<1> HIDE DEF M
<1>10. ASSUME NEW i \in 1..H
       PROVE  /\ new[i].post = head[i]
              /\ \A r \in 1..n : list[r] = head[i] => new[i].score = Share(i) + Share(r)
              /\ (\A r \in 1..n : list[r] # head[i]) => new[i].score = Share(i) /\ new[i].sources = {0}
    <2>0. i \in 1..M
        BY <1>0
    <2>1. /\ old[i].post = head[i]
          /\ \A r \in 1..(n - 1) : list[r] = head[i] => old[i].score = Share(i) + Share(r)
          /\ (\A r \in 1..(n - 1) : list[r] # head[i]) => old[i].score = Share(i) /\ old[i].sources = {0}
        BY DEF Fusion
    <2>2. CASE i = k
        <3>1. new[i].post = head[i] /\ new[i].score = Share(i) + Share(n)
            BY <1>4, <1>8, <2>2
        <3>2. \A r \in 1..n : list[r] = head[i] => r = n
            BY <1>0, <1>2, <1>4, <2>2
        <3>3. n \in 1..n /\ list[n] = head[i]
            BY <1>0, <1>4, <2>2
        <3> HIDE DEF H, entry
        <3> QED BY <3>1, <3>2, <3>3
    <2>3. CASE i # k
        <3>1. new[i] = old[i]
            BY <1>8, <2>0, <2>3
        <3>2. list[n] # head[i]
            BY <1>5, <2>0, <2>1, <2>3 DEF M
        <3> QED BY <1>0, <2>1, <3>1, <3>2
    <2> QED BY <2>2, <2>3
<1>11. \E x \in [(H + 1)..Len(new) -> 1..n] :
          /\ \A i, j \in (H + 1)..Len(new) : i < j => x[i] < x[j]
          /\ \A i \in (H + 1)..Len(new) : new[i].post = list[x[i]] /\ new[i].score = Share(x[i])
    <2> HIDE DEF H, entry
    <2>1. at \in [(H + 1)..M -> 1..n]
        BY <1>0, <1>1
    <2>2. \A i \in (H + 1)..M : new[i] = old[i]
        <3> TAKE i \in (H + 1)..M
        <3>1. i \in 1..M /\ i # k
            BY <1>0, <1>3
        <3> QED BY <1>8, <3>1
    <2>3. Len(new) = M
        BY <1>8
    <2>4. \E x \in [(H + 1)..M -> 1..n] :
              /\ \A i, j \in (H + 1)..M : i < j => x[i] < x[j]
              /\ \A i \in (H + 1)..M : new[i].post = list[x[i]] /\ new[i].score = Share(x[i])
        BY <1>1, <2>1, <2>2
    <2> QED BY <2>3, <2>4, Zenon
<1>12. ASSUME NEW r \in 1..n PROVE \E i \in 1..M : new[i].post = list[r]
    <2>1. CASE r = n
        BY <1>9, <2>1 DEF M
    <2>2. CASE r # n
        <3>1. PICK i \in 1..M : old[i].post = list[r]
            BY <1>0, <2>2 DEF Fusion, M
        <3> QED BY <1>9, <3>1
    <2> QED BY <2>1, <2>2
<1>13. \A i, j \in 1..Len(new) : new[i].post = new[j].post => i = j
    BY <1>5, <1>8, <1>9
<1>14. Len(new) = M /\ H <= Len(new) /\ new \in Seq(Entries)
    BY <1>0, <1>8
<1> QED BY <1>10, <1>11, <1>12, <1>13, <1>14, Zenon DEF Fusion, H

LEMMA SecondPath ==
    ASSUME NEW head \in Seq(Posts), NoRepeats(head), NEW list \in Seq(Posts), NoRepeats(list),
           NEW entries, Entered(entries, head, Len(head))
    PROVE  Fusion(Search!FuseList(entries, list, 1), head, list, Len(list))
<1> DEFINE N == Len(list)
<1>0. N \in Nat /\ Len(head) \in Nat /\ entries \in Seq(Entries)
    BY DEF Entered
<1>1. PICK a : /\ a[0] = entries
               /\ \A n \in 1..N : a[n] = Search!Fused(a[n - 1], list[n], n, 1)
               /\ Search!FuseList(entries, list, 1) = a[N]
    <2>1. 1 \in {0, 1}
        OBVIOUS
    <2> QED BY <1>0, <2>1, FuseFolds
<1> DEFINE T == {n \in 0..N : Fusion(a[n], head, list, n)}
<1> HIDE DEF N
<1>2. 0 \in T
    <2> DEFINE H == Len(head)
    <2>1. Len(entries) = H /\ H \in Nat /\ 1..0 = {} /\ (H + 1)..H = {} /\ 0 \in 0..N
        BY <1>0 DEF Entered
    <2>2. \A i \in 1..H : entries[i].post = head[i] /\ entries[i].score = Share(i) /\ entries[i].sources = {0}
        BY DEF Entered
    <2>3. [i \in {} |-> 0] \in [(H + 1)..Len(entries) -> 1..0]
        BY <2>1
    <2>4. \A i, j \in 1..H : entries[i].post = entries[j].post => i = j
        BY <2>2 DEF NoRepeats
    <2>5. H <= Len(entries)
        BY <2>1
    <2> DEFINE none == [i \in {} |-> 0]
    <2> HIDE DEF none
    <2>6. \E x \in [(H + 1)..Len(entries) -> 1..0] :
              /\ \A i, j \in (H + 1)..Len(entries) : i < j => x[i] < x[j]
              /\ \A i \in (H + 1)..Len(entries) :
                    entries[i].post = list[x[i]] /\ entries[i].score = Share(x[i])
        BY <2>1, <2>3, Zenon DEF none
    <2>7. Fusion(entries, head, list, 0)
        BY <1>0, <2>1, <2>2, <2>4, <2>5, <2>6, Zenon DEF Fusion
    <2> QED BY <1>1, <2>1, <2>7
<1>3. ASSUME NEW n \in 1..N, n - 1 \in T PROVE n \in T
    <2>0. n \in 0..N /\ n \in 1..Len(list)
        BY <1>0 DEF N
    <2>1. Fusion(a[n - 1], head, list, n - 1) /\ a[n] = Search!Fused(a[n - 1], list[n], n, 1)
        BY <1>1, <1>3
    <2>2. Fusion(a[n], head, list, n)
        <3>1. CASE \A i \in 1..Len(a[n - 1]) : a[n - 1][i].post # list[n]
            BY <2>0, <2>1, <3>1, FusionAdds
        <3>2. CASE \E i \in 1..Len(a[n - 1]) : a[n - 1][i].post = list[n]
            BY <2>0, <2>1, <3>2, FusionRaises
        <3> QED BY <3>1, <3>2
    <2> QED BY <2>0, <2>2
<1>4. N \in T
    <2> HIDE DEF T
    <2>1. \A n \in 0..N : n \in T
        BY <1>0, <1>2, <1>3, UpToN
    <2> QED BY <1>0, <2>1
<1> QED BY <1>1, <1>4 DEF N

\* The fusion's score and turn of a post.
ScoreOf(p, v, k) == Search!Score(p, v) + Search!Score(p, k)

Turn(p, v, k) ==
    IF p \in Search!ToSet(v) THEN Search!Rank(p, v) ELSE Len(v) + Search!Rank(p, k)

Prior(p, q, v, k) ==
    \/ ScoreOf(p, v, k) > ScoreOf(q, v, k)
    \/ ScoreOf(p, v, k) = ScoreOf(q, v, k) /\ Turn(p, v, k) < Turn(q, v, k)

LEMMA InList ==
    ASSUME NEW list \in Seq(Posts), NEW p
    PROVE  p \in Search!ToSet(list) <=> \E i \in 1..Len(list) : list[i] = p
BY DEF Search!ToSet

LEMMA NumbersUpTo ==
    ASSUME NEW n \in Nat
    PROVE  Cardinality(1..n) = n /\ IsFiniteSet(1..n)
<1>1. Cardinality(1..n) = IF 1 > n THEN 0 ELSE n - 1 + 1
    BY FS_Interval
<1> QED BY <1>1, FS_Interval

\* The first of each are no more than the list is long.
LEMMA FewFirsts ==
    ASSUME NEW seq \in Seq(Posts), NEW part, Firsts(part, seq, Len(seq))
    PROVE  Len(part) \in Nat /\ Len(part) <= Len(seq)
<1> DEFINE M == Len(part)
           N == Len(seq)
<1>0. M \in Nat /\ N \in Nat
    BY DEF Firsts
<1>1. PICK at \in [1..M -> 1..N] : \A i, j \in 1..M : i < j => at[i] < at[j]
    BY Zenon DEF Firsts
<1>2. at \in Injection(1..M, 1..N)
    <2> HIDE DEF M, N
    <2>1. ASSUME NEW i \in 1..M, NEW j \in 1..M, at[i] = at[j] PROVE i = j
        <3>1. at[i] \in 1..N /\ at[j] \in 1..N
            BY <1>1
        <3>2. ~(at[i] < at[j]) /\ ~(at[j] < at[i])
            BY <1>0, <2>1, <3>1
        <3> QED BY <1>0, <1>1, <3>2
    <2> QED BY <1>1, <2>1 DEF Injection, IsInjective
<1>3. Cardinality(1..M) = M /\ Cardinality(1..N) = N /\ IsFiniteSet(1..N)
    <2> HIDE DEF M, N
    <2> QED BY <1>0, NumbersUpTo
<1>4. Cardinality(1..M) <= Cardinality(1..N)
    <2> HIDE DEF M, N
    <2> QED BY <1>2, <1>3, FS_Injection
<1> QED BY <1>0, <1>3, <1>4

\* Every entry has its post's score, and they are in order of their turns.
LEMMA EntryIs ==
    ASSUME NEW v \in Seq(Posts), NEW k \in Seq(Posts), NoRepeats(k),
           NEW head, Firsts(head, v, Len(v)), NEW acc, Fusion(acc, head, k, Len(k))
    PROVE  /\ \A i \in 1..Len(acc) : acc[i].score = ScoreOf(acc[i].post, v, k)
           /\ \A i, j \in 1..Len(acc) : i < j => Turn(acc[i].post, v, k) < Turn(acc[j].post, v, k)
           /\ \A p : (\E i \in 1..Len(acc) : acc[i].post = p)
                        <=> p \in Search!ToSet(v) \cup Search!ToSet(k)
<1> DEFINE H == Len(head)
           M == Len(acc)
           post(i) == acc[i].post
<1>0. /\ H \in Nat /\ M \in Nat /\ H <= M /\ Len(v) \in Nat /\ Len(k) \in Nat /\ H <= Len(v)
      /\ acc \in Seq(Entries) /\ head \in Seq(Posts)
    <2>1. Len(head) \in Nat /\ Len(head) <= Len(v) /\ head \in Seq(Posts)
        BY FewFirsts DEF Firsts
    <2>2. acc \in Seq(Entries) /\ Len(head) <= Len(acc)
        BY DEF Fusion
    <2>3. Len(acc) \in Nat /\ Len(v) \in Nat /\ Len(k) \in Nat
        BY <2>2
    <2> QED BY <2>1, <2>2, <2>3
<1>1. PICK at \in [(H + 1)..M -> 1..Len(k)] :
          /\ \A i, j \in (H + 1)..M : i < j => at[i] < at[j]
          /\ \A i \in (H + 1)..M : acc[i].post = k[at[i]] /\ acc[i].score = Share(at[i])
    BY Zenon DEF Fusion
<1>2. \A i, j \in 1..M : acc[i].post = acc[j].post => i = j
    BY DEF Fusion
<1>3. \A r \in 1..Len(k) : k[r] \in Search!ToSet(k) /\ Search!Rank(k[r], k) = r
    BY InList, OwnFirsts, PlaceIs DEF NoRepeats
<1>4. \A i \in 1..H : post(i) = head[i] /\ head[i] \in Search!ToSet(v) /\ Search!Rank(head[i], v) = i
    <2> TAKE i \in 1..H
    <2>1. post(i) = head[i]
        BY DEF Fusion
    <2>2. Search!Rank(head[i], v) = i
        BY PlaceIs
    <2>3. PICK x \in 1..Len(v) : head[i] = v[x]
        BY DEF Firsts
    <2>4. head[i] \in Search!ToSet(v)
        BY <2>3, InList
    <2> QED BY <2>1, <2>2, <2>4
<1>5. \A i \in (H + 1)..M : post(i) \notin Search!ToSet(v)
    <2> SUFFICES ASSUME NEW i \in (H + 1)..M, post(i) \in Search!ToSet(v) PROVE FALSE
        OBVIOUS
    <2>1. PICK x \in 1..Len(v) : v[x] = post(i)
        BY InList
    <2>2. PICK m \in 1..H : head[m] = v[x]
        BY DEF Firsts
    <2>3. post(m) = post(i)
        BY <1>4, <2>1, <2>2
    <2>4. m \in 1..M /\ i \in 1..M /\ m # i
        <3> HIDE DEF H, M
        <3> QED BY <1>0
    <2> QED BY <1>2, <2>3, <2>4
<1>6. \A n \in Nat : Share(n) \in Nat
    BY ShareIsNumber DEF Share
<1> HIDE DEF H, M
<1>7. \A i \in 1..M : i \in 1..H \/ i \in (H + 1)..M
    BY <1>0
<1>8. ASSUME NEW i \in 1..H
      PROVE  Turn(post(i), v, k) = i /\ acc[i].score = ScoreOf(post(i), v, k)
    <2>1. post(i) = head[i] /\ post(i) \in Search!ToSet(v) /\ Search!Rank(post(i), v) = i
        BY <1>4
    <2>2. i \in Nat
        BY <1>0
    <2>3. Search!Score(post(i), v) = Share(i)
        BY <2>1 DEF Search!Score, Share
    <2>4. CASE \E r \in 1..Len(k) : k[r] = head[i]
        <3>1. PICK r \in 1..Len(k) : k[r] = head[i]
            BY <2>4
        <3>2. acc[i].score = Share(i) + Share(r)
            BY <3>1 DEF Fusion, H
        <3>3. Search!Score(post(i), k) = Share(r)
            BY <1>3, <2>1, <3>1 DEF Search!Score, Share
        <3> HIDE DEF post
        <3> QED BY <2>1, <2>3, <3>2, <3>3 DEF Turn, ScoreOf
    <2>5. CASE ~\E r \in 1..Len(k) : k[r] = head[i]
        <3>1. acc[i].score = Share(i)
            BY <2>5 DEF Fusion, H
        <3>2. Search!Score(post(i), k) = 0
            BY <2>1, <2>5, InList DEF Search!Score
        <3>3. Share(i) \in Nat
            BY <1>6, <2>2
        <3> HIDE DEF post
        <3> QED BY <2>1, <2>3, <3>1, <3>2, <3>3 DEF Turn, ScoreOf
    <2> QED BY <2>4, <2>5
<1>9. ASSUME NEW i \in (H + 1)..M
      PROVE  Turn(post(i), v, k) = Len(v) + at[i] /\ acc[i].score = ScoreOf(post(i), v, k)
    <2>1. post(i) \notin Search!ToSet(v) /\ at[i] \in 1..Len(k) /\ post(i) = k[at[i]]
        BY <1>1, <1>5
    <2>2. post(i) \in Search!ToSet(k) /\ Search!Rank(post(i), k) = at[i]
        BY <1>3, <2>1
    <2>3. Search!Score(post(i), v) = 0 /\ Search!Score(post(i), k) = Share(at[i])
        BY <2>1, <2>2 DEF Search!Score, Share
    <2>4. acc[i].score = Share(at[i]) /\ Share(at[i]) \in Nat
        BY <1>0, <1>1, <1>6, <2>1
    <2> HIDE DEF post
    <2> QED BY <2>1, <2>2, <2>3, <2>4 DEF Turn, ScoreOf
<1>10. \A i \in 1..M : acc[i].score = ScoreOf(acc[i].post, v, k)
    BY <1>7, <1>8, <1>9
<1>11. ASSUME NEW i \in 1..M, NEW j \in 1..M, i < j PROVE Turn(post(i), v, k) < Turn(post(j), v, k)
    <2> HIDE DEF post
    <2>1. CASE i \in 1..H /\ j \in 1..H
        BY <1>8, <1>11, <2>1
    <2>2. CASE i \in 1..H /\ j \in (H + 1)..M
        <3>1. Turn(post(i), v, k) = i /\ Turn(post(j), v, k) = Len(v) + at[j] /\ at[j] \in 1..Len(k)
            BY <1>1, <1>8, <1>9, <2>2
        <3> QED BY <1>0, <2>2, <3>1
    <2>3. CASE i \in (H + 1)..M /\ j \in (H + 1)..M
        <3>1. Turn(post(i), v, k) = Len(v) + at[i] /\ Turn(post(j), v, k) = Len(v) + at[j]
            BY <1>9, <2>3
        <3>2. at[i] < at[j] /\ at[i] \in 1..Len(k) /\ at[j] \in 1..Len(k)
            BY <1>1, <1>11, <2>3
        <3>3. \A x, y, z \in Nat : x < y => z + x < z + y
            OBVIOUS
        <3>4. at[i] \in Nat /\ at[j] \in Nat
            BY <1>0, <3>2
        <3>5. Len(v) + at[i] < Len(v) + at[j]
            BY <1>0, <3>2, <3>3, <3>4
        <3> QED BY <3>1, <3>5
    <2>4. ~(i \in (H + 1)..M /\ j \in 1..H)
        BY <1>0, <1>11
    <2> QED BY <1>7, <2>1, <2>2, <2>3, <2>4
<1>12. ASSUME NEW i \in 1..M PROVE post(i) \in Search!ToSet(v) \cup Search!ToSet(k)
    <2>1. CASE i \in 1..H
        BY <1>4, <2>1
    <2>2. CASE i \in (H + 1)..M
        BY <1>1, <1>3, <2>2
    <2> QED BY <1>7, <2>1, <2>2
<1>13. ASSUME NEW p \in Search!ToSet(v) PROVE \E i \in 1..M : post(i) = p
    <2>1. PICK x \in 1..Len(v) : v[x] = p
        BY InList
    <2>2. PICK m \in 1..H : head[m] = v[x]
        BY DEF Firsts, H
    <2>3. m \in 1..M
        BY <1>0
    <2> QED BY <1>4, <2>1, <2>2, <2>3
<1>14. ASSUME NEW p \in Search!ToSet(k) PROVE \E i \in 1..M : post(i) = p
    <2>1. PICK x \in 1..Len(k) : k[x] = p
        BY InList
    <2> QED BY <2>1 DEF Fusion, M
<1>15. \A p : (\E i \in 1..M : post(i) = p) <=> p \in Search!ToSet(v) \cup Search!ToSet(k)
    <2> HIDE DEF post
    <2> QED BY <1>12, <1>13, <1>14
<1> QED BY <1>10, <1>11, <1>15 DEF M

LEMMA UptoIs ==
    ASSUME NEW n \in Nat, NEW list \in Seq(Posts)
    PROVE  /\ Search!Upto(n, list) \in Seq(Posts)
           /\ Len(Search!Upto(n, list)) = IF Len(list) < n THEN Len(list) ELSE n
           /\ Len(Search!Upto(n, list)) \in 0..Len(list)
           /\ \A i \in 1..Len(Search!Upto(n, list)) : i \in 1..Len(list) /\ Search!Upto(n, list)[i] = list[i]
BY DEF Search!Upto

LEMMA SameCardinality == \A S : Search!Cardinality(S) = Cardinality(S)
BY DEF Cardinality, Search!Cardinality

\* What matches is listed once each.
LEMMA MatchesAre ==
    ASSUME SearchOK, corpus.matching \cap live \subseteq Posts
    PROVE  Search!Matches \in Seq(Posts) /\ NoRepeats(Search!Matches)
<1> DEFINE S == corpus.matching \cap live
           N == Search!Cardinality(S)
           R == {pair \in S \X S : pair[1] > pair[2]}
           P(f) == \A i, j \in 1..N : i < j => f[i] > f[j]
           list == CHOOSE f \in [1..N -> S] : P(f)
<1>1. IsFiniteSet(S) /\ S \subseteq Nat /\ N = Cardinality(S)
    BY FS_Subset, SameCardinality DEF SearchOK
<1> HIDE DEF S
<1>2. \A x, y \in S : <<x, y>> \in R <=> x > y
    OBVIOUS
<1> HIDE DEF R
<1>3. Orders(R, S)
    <2>1. \A x \in S : x \in Nat
        BY <1>1
    <2> QED BY <1>2, <2>1 DEF Orders
<1>4. PICK f \in [1..N -> S] : \A i, j \in 1..N : i < j => <<f[i], f[j]>> \in R
    <2> HIDE DEF N
    <2>1. PICK f : Sorted(f, S, R)
        BY <1>1, <1>3, Sortable
    <2> QED BY <1>1, <2>1 DEF Sorted
<1>5. P(f)
    <2> HIDE DEF N
    <2> QED BY <1>2, <1>4
<1>6. list \in [1..N -> S] /\ P(list)
    <2> HIDE DEF P, N
    <2> QED BY <1>5
<1>7. \A i, j \in 1..N : i < j => <<list[i], list[j]>> \in R
    <2> HIDE DEF list, N
    <2> QED BY <1>2, <1>6
<1>8. N \in Nat /\ \A i, j \in 1..N : list[i] = list[j] => i = j
    <2> HIDE DEF list, N, P
    <2>1. Sorted(list, S, R)
        BY <1>1, <1>6, <1>7 DEF Sorted
    <2>2. Listing(list, S)
        BY <1>1, <1>3, <2>1, SortedIsAll
    <2> QED BY <1>1, <2>2 DEF Listing
<1>9. Search!InOrder(S, LAMBDA p, q : p > q) = list
    BY Zenon DEF Search!InOrder
<1> HIDE DEF list, N, P
<1>10. list \in Seq(Posts) /\ Len(list) = N
    <2>1. \A x \in S : x \in Posts
        BY DEF S
    <2>2. list \in [1..N -> Posts]
        BY <1>6, <2>1
    <2> QED BY <1>8, <2>2
<1>11. Search!Matches = Search!Upto(Depth, list)
    BY <1>9, Zenon DEF Search!Matches, S
<1> QED BY <1>8, <1>10, <1>11, UptoIs DEF NoRepeats, SearchOK

Above(acc, i, j) ==
    acc[i].score > acc[j].score \/ (acc[i].score = acc[j].score /\ i < j)

LEMMA ByScoreIs ==
    ASSUME NEW acc \in Seq(Entries)
    PROVE  \E order \in [1..Len(acc) -> 1..Len(acc)] :
              /\ \A i, j \in 1..Len(acc) : i < j => Above(acc, order[i], order[j])
              /\ \A i, j \in 1..Len(acc) : order[i] = order[j] => i = j
              /\ \A m \in 1..Len(acc) : \E i \in 1..Len(acc) : order[i] = m
              /\ Search!ByScore(acc) = [i \in 1..Len(acc) |-> acc[order[i]].post]
<1> DEFINE M == Len(acc)
           S == DOMAIN acc
           N == Search!Cardinality(S)
           R == {pair \in S \X S : Above(acc, pair[1], pair[2])}
           P(f) == \A i, j \in 1..N : i < j =>
                      (acc[f[i]].score > acc[f[j]].score
                       \/ (acc[f[i]].score = acc[f[j]].score /\ f[i] < f[j]))
           order == CHOOSE f \in [1..N -> S] : P(f)
<1>1. M \in Nat /\ S = 1..M
    OBVIOUS
<1>2. \A i \in S : acc[i].score \in Nat /\ i \in Nat
    <2>1. \A i \in S : acc[i] \in Entries /\ i \in Nat
        BY <1>1
    <2> QED BY <2>1 DEF Entries
<1>3. N = Cardinality(S) /\ IsFiniteSet(S) /\ Cardinality(S) = M
    <2> HIDE DEF S, M
    <2> QED BY <1>1, NumbersUpTo, SameCardinality
<1> HIDE DEF S, M
<1>4. \A x, y \in S : <<x, y>> \in R <=> Above(acc, x, y)
    OBVIOUS
<1> HIDE DEF R
<1>5. Orders(R, S)
    <2>1. \A x \in S : ~Above(acc, x, x)
        BY <1>2 DEF Above
    <2>2. ASSUME NEW x \in S, NEW y \in S, NEW z \in S, Above(acc, x, y), Above(acc, y, z)
          PROVE  Above(acc, x, z)
        BY <1>2, <2>2 DEF Above
    <2>3. \A x, y \in S : x # y => Above(acc, x, y) \/ Above(acc, y, x)
        BY <1>2 DEF Above
    <2> QED BY <1>4, <2>1, <2>2, <2>3 DEF Orders
<1>6. PICK f : Sorted(f, S, R)
    BY <1>3, <1>5, Sortable
<1>7. f \in [1..N -> S] /\ \A i, j \in 1..N : i < j => Above(acc, f[i], f[j])
    <2> HIDE DEF N
    <2> QED BY <1>3, <1>4, <1>6 DEF Sorted
<1>8. P(f)
    <2> HIDE DEF N
    <2> QED BY <1>7 DEF Above
<1>9. order \in [1..N -> S] /\ P(order)
    <2> HIDE DEF P, N
    <2> QED BY <1>7, <1>8
<1> HIDE DEF order
<1>10. \A i, j \in 1..N : i < j => Above(acc, order[i], order[j])
    <2> HIDE DEF N
    <2> QED BY <1>9 DEF Above
<1>11. Sorted(order, S, R)
    <2> HIDE DEF N, P
    <2> QED BY <1>3, <1>4, <1>9, <1>10 DEF Sorted
<1>12. Listing(order, S)
    BY <1>3, <1>5, <1>11, SortedIsAll
<1>13. Search!ByScore(acc) = [i \in 1..M |-> acc[order[i]].post]
    <2>1. order = Search!InOrder(DOMAIN acc, LAMBDA i, j :
              acc[i].score > acc[j].score \/ (acc[i].score = acc[j].score /\ i < j))
        BY Zenon DEF Search!InOrder, order, S
    <2> QED BY <1>1, <2>1, Zenon DEF Search!ByScore, S
<1> HIDE DEF N, P
<1>14. N = M
    BY <1>3
<1>15. order \in [1..M -> 1..M]
    BY <1>1, <1>9, <1>14
<1>16. \A i, j \in 1..M : order[i] = order[j] => i = j
    BY <1>3, <1>12 DEF Listing
<1>17. \A m \in 1..M : \E i \in 1..M : order[i] = m
    BY <1>1, <1>3, <1>12 DEF Listing
<1>18. \A i, j \in 1..M : i < j => Above(acc, order[i], order[j])
    BY <1>10, <1>14
<1> QED BY <1>13, <1>15, <1>16, <1>17, <1>18, Zenon DEF M

\* The fused list has what the paths found, once each, in its order.
Fused(list, v, k) ==
    /\ list \in Seq(Posts) /\ NoRepeats(list)
    /\ \A p : p \in Search!ToSet(list) <=> p \in Search!ToSet(v) \cup Search!ToSet(k)
    /\ \A i, j \in 1..Len(list) : i < j => Prior(list[i], list[j], v, k)

LEMMA RankedIs ==
    ASSUME NEW v \in Seq(Posts), NEW k \in Seq(Posts), NoRepeats(k)
    PROVE  Fused(Search!Ranked(v, k), v, k)
<1> DEFINE head == Search!FirstOfEach(v)
           one == Search!FuseList(<<>>, head, 0)
           acc == Search!FuseList(one, k, 1)
           M == Len(acc)
           list == Search!ByScore(acc)
<1>1. Search!Ranked(v, k) = list
    BY Zenon DEF Search!Ranked
<1>2. Firsts(head, v, Len(v))
    BY FirstsAre
<1> HIDE DEF head
<1>3. head \in Seq(Posts) /\ NoRepeats(head)
    BY <1>2 DEF Firsts, NoRepeats
<1>4. Entered(one, head, Len(head))
    BY <1>3, FirstPath
<1> HIDE DEF one
<1>5. Fusion(acc, head, k, Len(k))
    BY <1>3, <1>4, SecondPath
<1> HIDE DEF acc
<1>6. acc \in Seq(Entries) /\ M \in Nat /\ \A i, j \in 1..M : acc[i].post = acc[j].post => i = j
    BY <1>5 DEF Fusion
<1>7. /\ \A i \in 1..M : acc[i].score = ScoreOf(acc[i].post, v, k)
      /\ \A i, j \in 1..M : i < j => Turn(acc[i].post, v, k) < Turn(acc[j].post, v, k)
      /\ \A p : (\E i \in 1..M : acc[i].post = p) <=> p \in Search!ToSet(v) \cup Search!ToSet(k)
    BY <1>2, <1>5, EntryIs
<1>8. PICK order \in [1..M -> 1..M] :
          /\ \A i, j \in 1..M : i < j => Above(acc, order[i], order[j])
          /\ \A i, j \in 1..M : order[i] = order[j] => i = j
          /\ \A m \in 1..M : \E i \in 1..M : order[i] = m
          /\ list = [i \in 1..M |-> acc[order[i]].post]
    BY <1>6, ByScoreIs
<1> HIDE DEF M, list
<1>9. \A i \in 1..M : acc[i].post \in Posts
    <2>1. \A i \in 1..M : acc[i] \in Entries
        BY <1>6 DEF M
    <2> QED BY <2>1 DEF Entries
<1>10. /\ list \in Seq(Posts) /\ Len(list) = M
       /\ \A i \in 1..M : list[i] = acc[order[i]].post /\ order[i] \in 1..M
    <2>1. \A i \in 1..M : list[i] = acc[order[i]].post /\ order[i] \in 1..M
        BY <1>8
    <2>2. list \in [1..M -> Posts]
        BY <1>8, <1>9, <2>1
    <2> QED BY <1>6, <2>1, <2>2
<1>11. NoRepeats(list)
    <2>1. ASSUME NEW i \in 1..M, NEW j \in 1..M, list[i] = list[j] PROVE i = j
        <3>1. acc[order[i]].post = acc[order[j]].post /\ order[i] \in 1..M /\ order[j] \in 1..M
            BY <1>10, <2>1
        <3>2. order[i] = order[j]
            BY <1>6, <3>1
        <3> QED BY <1>8, <3>2
    <2> QED BY <1>10, <2>1 DEF NoRepeats
<1>12. ASSUME NEW p PROVE p \in Search!ToSet(list) <=> p \in Search!ToSet(v) \cup Search!ToSet(k)
    <2>1. p \in Search!ToSet(list) <=> \E i \in 1..M : list[i] = p
        BY <1>10, InList
    <2>2. (\E i \in 1..M : list[i] = p) => \E i \in 1..M : acc[i].post = p
        BY <1>10
    <2>3. ASSUME NEW m \in 1..M, acc[m].post = p PROVE \E i \in 1..M : list[i] = p
        <3>1. PICK i \in 1..M : order[i] = m
            BY <1>8
        <3> QED BY <1>10, <2>3, <3>1
    <2> QED BY <1>7, <2>1, <2>2, <2>3
<1>13. ASSUME NEW i \in 1..M, NEW j \in 1..M, i < j PROVE Prior(list[i], list[j], v, k)
    <2>1. Above(acc, order[i], order[j])
        BY <1>8, <1>13
    <2>2. /\ order[i] \in 1..M /\ order[j] \in 1..M
          /\ list[i] = acc[order[i]].post /\ list[j] = acc[order[j]].post
        BY <1>10
    <2>3. /\ acc[order[i]].score = ScoreOf(list[i], v, k)
          /\ acc[order[j]].score = ScoreOf(list[j], v, k)
        BY <1>7, <2>2
    <2>4. order[i] < order[j] => Turn(list[i], v, k) < Turn(list[j], v, k)
        BY <1>7, <2>2
    <2> QED BY <2>1, <2>3, <2>4, Zenon DEF Above, Prior
<1> QED BY <1>1, <1>10, <1>11, <1>12, <1>13 DEF Fused

\* The keys of a post's author.
KeysIn(writers, p) == {writers[p].user, writers[p].name} \ {None}

\* What related has chosen of the first n of the posts near, nearest first.
Chosen(part, near, n, writers) ==
    /\ part \in Seq(Posts) /\ Len(part) <= SearchLimit
    /\ \A k \in 1..Len(part) : \E i \in 1..n : part[k] = near[i]
    /\ \A i, j \in 1..Len(part) :
          i # j => KeysIn(writers, part[i]) \cap KeysIn(writers, part[j]) = {}
    /\ \A i \in 1..n :
          \/ \E k \in 1..Len(part) : part[k] = near[i]
          \/ Len(part) = SearchLimit
          \/ \E k \in 1..Len(part), j \in 1..(i - 1) :
                part[k] = near[j] /\ KeysIn(writers, near[i]) \cap KeysIn(writers, near[j]) # {}

LEMMA PickedIs ==
    ASSUME SearchOK, NEW hits, NEW near, near = Search!FirstOfEach(hits), near \in Seq(Posts)
    PROVE  Chosen(Search!Picked(hits), near, Len(near), corpus.author)
<1> DEFINE N == Len(near)
           keys(p) == KeysIn(corpus.author, p)
<1>0. N \in Nat /\ (\A n \in 1..N : near[n] \in Posts) /\ SearchLimit \in Nat
    BY DEF SearchOK
<1>1. PICK a : /\ a[0] = <<>>
               /\ \A n \in 1..N : a[n] = Search!Pick(a[n - 1], near[n])
               /\ Search!Picked(hits) = a[N]
    BY PickedFolds
<1> DEFINE T == {n \in 0..N : Chosen(a[n], near, n, corpus.author)}
<1> HIDE DEF N
<1>2. 0 \in T
    <2>1. a[0] \in Seq(Posts) /\ Len(a[0]) = 0 /\ 1..0 = {} /\ 0 \in 0..N /\ 0 <= SearchLimit
        BY <1>0, <1>1
    <2>2. Chosen(a[0], near, 0, corpus.author)
        BY <2>1, Zenon DEF Chosen
    <2> QED BY <2>1, <2>2
<1>3. ASSUME NEW n \in 1..N, n - 1 \in T PROVE n \in T
    <2> DEFINE old == a[n - 1]
               new == a[n]
               taken == \E q \in Search!ToSet(old) : keys(near[n]) \cap keys(q) # {}
    <2>0. n \in Nat /\ n - 1 \in Nat /\ n \in 0..N /\ near[n] \in Posts
          /\ \A i \in 1..n : i = n \/ i \in 1..(n - 1)
        BY <1>0
    <2>1. Chosen(old, near, n - 1, corpus.author)
        BY <1>3
    <2>2. old \in Seq(Posts) /\ Len(old) \in Nat /\ Len(old) <= SearchLimit
        BY <2>1 DEF Chosen
    <2>3. \A k \in 1..Len(old) : \E i \in 1..(n - 1) : old[k] = near[i]
        BY <2>1 DEF Chosen
    <2>4. \A i, j \in 1..Len(old) : i # j => keys(old[i]) \cap keys(old[j]) = {}
        BY <2>1 DEF Chosen
    <2>5. \A i \in 1..(n - 1) :
             \/ \E k \in 1..Len(old) : old[k] = near[i]
             \/ Len(old) = SearchLimit
             \/ \E k \in 1..Len(old), j \in 1..(i - 1) :
                   old[k] = near[j] /\ keys(near[i]) \cap keys(near[j]) # {}
        BY <2>1, Zenon DEF Chosen
    <2>6. new = IF Len(old) >= SearchLimit \/ taken THEN old ELSE Append(old, near[n])
        BY <1>1, Zenon DEF Search!Pick, Search!AuthorKeys, KeysIn
    <2>7. \A q : q \in Search!ToSet(old) <=> \E k \in 1..Len(old) : old[k] = q
        BY <2>2, InList
    <2> HIDE DEF old, new, keys
    <2>8. CASE Len(old) >= SearchLimit \/ taken
        <3>1. ASSUME NEW k \in 1..Len(old) PROVE \E i \in 1..n : old[k] = near[i]
            <4>1. PICK i \in 1..(n - 1) : old[k] = near[i]
                BY <2>3
            <4>2. i \in 1..n
                BY <2>0
            <4> QED BY <4>1, <4>2
        <3>2. \/ Len(old) = SearchLimit
              \/ \E k \in 1..Len(old), j \in 1..(n - 1) :
                    old[k] = near[j] /\ keys(near[n]) \cap keys(near[j]) # {}
            <4>1. CASE taken
                <5>1. PICK q \in Search!ToSet(old) : keys(near[n]) \cap keys(q) # {}
                    BY <4>1
                <5>2. PICK k \in 1..Len(old) : old[k] = q
                    BY <2>7, <5>1
                <5>3. PICK j \in 1..(n - 1) : old[k] = near[j]
                    BY <2>3, <5>2
                <5> QED BY <5>1, <5>2, <5>3
            <4> HIDE DEF taken
            <4>2. CASE Len(old) >= SearchLimit
                BY <1>0, <2>2, <4>2
            <4> QED BY <2>8, <4>1, <4>2
        <3>3. ASSUME NEW i \in 1..n
              PROVE  \/ \E k \in 1..Len(old) : old[k] = near[i]
                     \/ Len(old) = SearchLimit
                     \/ \E k \in 1..Len(old), j \in 1..(i - 1) :
                           old[k] = near[j] /\ keys(near[i]) \cap keys(near[j]) # {}
            <4>1. CASE i = n
                BY <3>2, <4>1
            <4>2. CASE i \in 1..(n - 1)
                BY <2>5, <4>2
            <4> QED BY <2>0, <4>1, <4>2
        <3>4. Chosen(old, near, n, corpus.author)
            BY <2>2, <2>4, <3>1, <3>3, Zenon DEF Chosen, keys
        <3> QED BY <2>0, <2>6, <2>8, <3>4 DEF new
    <2>9. CASE ~(Len(old) >= SearchLimit \/ taken)
        <3>1. new = Append(old, near[n])
            BY <2>6, <2>9
        <3>2. /\ new \in Seq(Posts) /\ Len(new) = Len(old) + 1 /\ new[Len(old) + 1] = near[n]
              /\ \A k \in 1..Len(old) : new[k] = old[k]
            BY <2>0, <2>2, <3>1
        <3>3. Len(new) <= SearchLimit
            BY <1>0, <2>2, <2>9, <3>2
        <3>4. \A k \in 1..Len(new) : k = Len(old) + 1 \/ k \in 1..Len(old)
            BY <2>2, <3>2
        <3>5. \A k \in 1..Len(old) : k \in 1..Len(new)
            BY <2>2, <3>2
        <3>6. ASSUME NEW k \in 1..Len(new) PROVE \E i \in 1..n : new[k] = near[i]
            <4>1. CASE k = Len(old) + 1
                <5>1. n \in 1..n
                    BY <2>0
                <5> QED BY <3>2, <4>1, <5>1
            <4>2. CASE k \in 1..Len(old)
                <5>1. PICK i \in 1..(n - 1) : old[k] = near[i]
                    BY <2>3, <4>2
                <5>2. i \in 1..n
                    BY <2>0
                <5> QED BY <3>2, <4>2, <5>1, <5>2
            <4> QED BY <3>4, <4>1, <4>2
        <3>7. \A k \in 1..Len(old) : keys(near[n]) \cap keys(old[k]) = {}
            BY <2>7, <2>9
        <3> HIDE DEF taken
        <3>8. ASSUME NEW i \in 1..Len(new), NEW j \in 1..Len(new), i # j
              PROVE  keys(new[i]) \cap keys(new[j]) = {}
            <4>1. CASE i \in 1..Len(old) /\ j \in 1..Len(old)
                BY <2>4, <3>2, <3>8, <4>1
            <4>2. CASE i = Len(old) + 1
                <5>1. j \in 1..Len(old)
                    BY <3>4, <3>8, <4>2
                <5> QED BY <3>2, <3>7, <4>2, <5>1
            <4>3. CASE j = Len(old) + 1
                <5>1. i \in 1..Len(old)
                    BY <3>4, <3>8, <4>3
                <5>2. keys(near[n]) \cap keys(old[i]) = {}
                    BY <3>7, <5>1
                <5> QED BY <3>2, <4>3, <5>1, <5>2
            <4> QED BY <3>4, <4>1, <4>2, <4>3
        <3>9. ASSUME NEW i \in 1..n
              PROVE  \/ \E k \in 1..Len(new) : new[k] = near[i]
                     \/ Len(new) = SearchLimit
                     \/ \E k \in 1..Len(new), j \in 1..(i - 1) :
                           new[k] = near[j] /\ keys(near[i]) \cap keys(near[j]) # {}
            <4>1. CASE i = n
                <5>1. Len(old) + 1 \in 1..Len(new)
                    BY <2>2, <3>2
                <5> QED BY <3>2, <4>1, <5>1
            <4>2. CASE i \in 1..(n - 1)
                <5>1. CASE \E k \in 1..Len(old) : old[k] = near[i]
                    BY <3>2, <3>5, <5>1
                <5>2. Len(old) # SearchLimit
                    BY <1>0, <2>2, <2>9
                <5>3. CASE \E k \in 1..Len(old), j \in 1..(i - 1) :
                              old[k] = near[j] /\ keys(near[i]) \cap keys(near[j]) # {}
                    <6>1. PICK k \in 1..Len(old), j \in 1..(i - 1) :
                              old[k] = near[j] /\ keys(near[i]) \cap keys(near[j]) # {}
                        BY <5>3
                    <6>2. k \in 1..Len(new) /\ new[k] = near[j]
                        BY <3>2, <3>5, <6>1
                    <6> QED BY <6>1, <6>2
                <5> QED BY <2>5, <4>2, <5>1, <5>2, <5>3
            <4> QED BY <2>0, <4>1, <4>2
        <3>10. Chosen(new, near, n, corpus.author)
            BY <3>2, <3>3, <3>6, <3>8, <3>9, Zenon DEF Chosen, keys
        <3> QED BY <2>0, <3>10 DEF new
    <2> QED BY <2>8, <2>9
<1>4. N \in T
    <2> HIDE DEF T
    <2>1. \A n \in 0..N : n \in T
        BY <1>0, <1>2, <1>3, UpToN
    <2> QED BY <1>0, <2>1
<1> QED BY <1>1, <1>4 DEF N

-----------------------------------------------------------------------------
(* RagSearch: what a request knows at every step. *)

\* The keyword path answers to a search, with every post once.
KeywordOnce ==
    query.keyword # None =>
        query.kind = "search" /\ query.keyword \in Seq(Posts) /\ NoRepeats(query.keyword)

\* What a search retrieves is the head of the fusion of its paths.
SearchRetrieved ==
    query.kind = "search" /\ query.retrieved # None =>
        /\ query.vector # None /\ query.keyword # None
        /\ \E list : /\ Fused(list, query.vector, query.keyword)
                     /\ query.retrieved = Search!Upto(SearchLimit, list)

\* What related retrieves is chosen from the first of each post it found.
RelatedRetrieved ==
    query.kind = "related" /\ query.retrieved # None =>
        /\ query.vector # None
        /\ \E near : /\ Firsts(near, query.vector, Len(query.vector))
                     /\ Chosen(query.retrieved, near, Len(near), corpus.author)

\* The answer is what lives of what was retrieved.
Answered ==
    query.answer # None =>
        /\ query.retrieved # None
        /\ Kept(query.answer, query.retrieved, Len(query.retrieved), live)

SearchInv ==
    /\ Search!TypeOK
    /\ query.kind = "none" => query = Search!Waiting
    /\ KeywordOnce /\ SearchRetrieved /\ RelatedRetrieved /\ Answered

LEMMA NearestAre ==
    ASSUME SearchOK, Search!TypeOK
    PROVE  Search!Nearest \in Seq(Posts)
<1>1. Search!Alive(corpus.near) \in Seq(Posts)
    BY AliveIs DEF Search!TypeOK, Kept
<1> QED BY <1>1, UptoIs DEF Search!Nearest, SearchOK

LEMMA SearchStarts == ASSUME ServicesOK, Init PROVE SearchInv
<1>1. /\ live = Posts
      /\ corpus = [near |-> <<>>, matching |-> {}, author |-> None]
      /\ query = Search!Waiting
    BY DEF Init, Search!Init
<1>2. /\ query.kind = "none" /\ query.vector = None /\ query.keyword = None
      /\ query.retrieved = None /\ query.answer = None
    BY <1>1 DEF Search!Waiting
<1>3. Search!TypeOK
    BY <1>1 DEF Search!TypeOK, Search!Waiting, Search!Lists
<1> QED BY <1>1, <1>2, <1>3 DEF SearchInv, KeywordOnce, SearchRetrieved, RelatedRetrieved, Answered

LEMMA AskKeeps ==
    ASSUME SearchOK, SearchInv, Search!AskSearch \/ Search!AskRelated
    PROVE  SearchInv'
<1>1. live' = live
    BY DEF Search!AskSearch, Search!AskRelated
<1>2. /\ query'.kind \in {"search", "related"} /\ query'.vector = None /\ query'.keyword = None
      /\ query'.retrieved = None /\ query'.answer = None
      /\ query' = [kind |-> query'.kind, vector |-> None, keyword |-> None,
                   retrieved |-> None, answer |-> None]
    BY DEF Search!AskSearch, Search!AskRelated, Search!Waiting
<1>3. corpus'.near \in Seq(Posts) /\ corpus'.matching \in SUBSET Posts
    <2>1. PICK near, matching, writers :
              /\ near \in Search!SeqOf(Posts, MaxNear) /\ matching \in SUBSET Posts
              /\ corpus' = [near |-> near, matching |-> matching, author |-> writers]
        <3>1. CASE Search!AskSearch
            BY <3>1, Zenon DEF Search!AskSearch
        <3>2. CASE Search!AskRelated
            <4>1. {} \in SUBSET Posts
                OBVIOUS
            <4> QED BY <3>2, <4>1, Zenon DEF Search!AskRelated
        <3> QED BY <3>1, <3>2
    <2>2. near \in Seq(Posts)
        <3>1. PICK n \in 0..MaxNear : near \in [1..n -> Posts]
            BY <2>1, Zenon DEF Search!SeqOf
        <3> QED BY <3>1 DEF SearchOK
    <2> QED BY <2>1, <2>2
<1>4. Search!TypeOK'
    <2>1. query' \in [kind: {"none", "search", "related"}, vector: Search!Lists, keyword: Search!Lists,
                      retrieved: Search!Lists, answer: Search!Lists]
        BY <1>2 DEF Search!Lists
    <2> QED BY <1>1, <1>3, <2>1 DEF SearchInv, Search!TypeOK, Search!Lists
<1> QED BY <1>2, <1>4 DEF SearchInv, KeywordOnce, SearchRetrieved, RelatedRetrieved, Answered

\* A path of a search brings hits.
LEMMA PathsKeep ==
    ASSUME SearchOK, SearchInv, Search!VectorAnswers \/ Search!KeywordAnswers
    PROVE  SearchInv'
<1>1. live' = live /\ corpus' = corpus /\ query.kind = "search"
    BY DEF Search!VectorAnswers, Search!KeywordAnswers
<1>2. query.retrieved = None /\ query.answer = None
    BY <1>1 DEF SearchInv, SearchRetrieved, Answered, Search!VectorAnswers, Search!KeywordAnswers
<1>3. <<>> \in Seq(Posts) /\ NoRepeats(<<>>) /\ Search!Nearest \in Seq(Posts)
      /\ Search!Matches \in Seq(Posts) /\ NoRepeats(Search!Matches)
    <2>1. corpus.matching \cap live \subseteq Posts
        BY DEF SearchInv, Search!TypeOK
    <2>2. NoRepeats(<<>>)
        BY DEF NoRepeats
    <2> QED BY <2>1, <2>2, MatchesAre, NearestAre DEF SearchInv
<1>4. query \in [kind: {"none", "search", "related"}, vector: Search!Lists, keyword: Search!Lists,
                 retrieved: Search!Lists, answer: Search!Lists]
    BY DEF SearchInv, Search!TypeOK
<1>5. \E hits \in Seq(Posts) :
         \/ query' = [query EXCEPT !.vector = hits]
         \/ NoRepeats(hits) /\ query' = [query EXCEPT !.keyword = hits]
    BY <1>3, Zenon DEF Search!VectorAnswers, Search!KeywordAnswers
<1>6. PICK hits \in Seq(Posts) :
         \/ query' = [query EXCEPT !.vector = hits]
         \/ NoRepeats(hits) /\ query' = [query EXCEPT !.keyword = hits]
    BY <1>5
<1>7. /\ query'.kind = "search" /\ query'.retrieved = None /\ query'.answer = None
      /\ \/ query'.keyword = query.keyword
         \/ query'.keyword = hits /\ NoRepeats(hits)
    BY <1>1, <1>2, <1>4, <1>6
<1>8. query' \in [kind: {"none", "search", "related"}, vector: Search!Lists, keyword: Search!Lists,
                  retrieved: Search!Lists, answer: Search!Lists]
    BY <1>4, <1>6 DEF Search!Lists
<1>9. Search!TypeOK'
    BY <1>1, <1>8 DEF SearchInv, Search!TypeOK, Search!Lists
<1>10. KeywordOnce'
    BY <1>7 DEF SearchInv, KeywordOnce, NoRepeats
<1> QED BY <1>7, <1>9, <1>10 DEF SearchInv, SearchRetrieved, RelatedRetrieved, Answered

\* Both paths have answered.
LEMMA RetrieveKeeps ==
    ASSUME SearchOK, SearchInv, Search!Retrieve
    PROVE  SearchInv'
<1> DEFINE v == query.vector
           k == query.keyword
           list == Search!Ranked(v, k)
           head == Search!Upto(SearchLimit, list)
<1>1. /\ live' = live /\ corpus' = corpus /\ query.retrieved = None /\ v # None /\ k # None
      /\ query' = [query EXCEPT !.retrieved = head]
    BY DEF Search!Retrieve
<1>2. query.kind = "search" /\ k \in Seq(Posts) /\ NoRepeats(k)
    BY <1>1 DEF SearchInv, KeywordOnce
<1>3. query \in [kind: {"none", "search", "related"}, vector: Search!Lists, keyword: Search!Lists,
                 retrieved: Search!Lists, answer: Search!Lists]
    BY DEF SearchInv, Search!TypeOK
<1>4. v \in Seq(Posts)
    BY <1>1, <1>3 DEF Search!Lists
<1>5. Fused(list, v, k)
    BY <1>2, <1>4, RankedIs
<1> HIDE DEF list
<1>6. head \in Seq(Posts)
    BY <1>5, UptoIs DEF Fused, SearchOK
<1>7. query.answer = None
    BY <1>1 DEF SearchInv, Answered
<1>8. /\ query'.kind = "search" /\ query'.vector = v /\ query'.keyword = k
      /\ query'.retrieved = head /\ query'.answer = None
      /\ query' \in [kind: {"none", "search", "related"}, vector: Search!Lists, keyword: Search!Lists,
                     retrieved: Search!Lists, answer: Search!Lists]
    <2> HIDE DEF head
    <2> QED BY <1>1, <1>2, <1>3, <1>6, <1>7 DEF Search!Lists
<1>9. Search!TypeOK'
    BY <1>1, <1>8 DEF SearchInv, Search!TypeOK, Search!Lists
<1>10. KeywordOnce'
    BY <1>2, <1>8 DEF KeywordOnce, NoRepeats
<1>11. SearchRetrieved'
    <2>1. \E x : Fused(x, v, k) /\ head = Search!Upto(SearchLimit, x)
        BY <1>5, Zenon
    <2> HIDE DEF head, v, k
    <2>2. \E x : Fused(x, query'.vector, query'.keyword) /\ query'.retrieved = Search!Upto(SearchLimit, x)
        BY <1>8, <2>1, Zenon
    <2> QED BY <1>1, <1>8, <2>2 DEF SearchRetrieved
<1> QED BY <1>8, <1>9, <1>10, <1>11 DEF SearchInv, RelatedRetrieved, Answered

\* Related posts have been found, or could not be.
LEMMA RelatedKeeps ==
    ASSUME SearchOK, SearchInv, Search!RetrieveRelated
    PROVE  SearchInv'
<1>1. live' = live /\ corpus' = corpus /\ query.kind = "related" /\ query.retrieved = None
    BY DEF Search!RetrieveRelated
<1>2. PICK hits \in {<<>>, Search!Nearest} :
          query' = [query EXCEPT !.vector = hits, !.retrieved = Search!Picked(hits)]
    BY Zenon DEF Search!RetrieveRelated
<1>3. hits \in Seq(Posts)
    <2>1. <<>> \in Seq(Posts)
        OBVIOUS
    <2> QED BY <2>1, NearestAre DEF SearchInv
<1> DEFINE near == Search!FirstOfEach(hits)
           part == Search!Picked(hits)
<1>4. Firsts(near, hits, Len(hits))
    BY <1>3, FirstsAre
<1>5. Chosen(part, near, Len(near), corpus.author)
    <2>1. near \in Seq(Posts)
        BY <1>4 DEF Firsts
    <2> QED BY <2>1, PickedIs
<1>6. part \in Seq(Posts)
    BY <1>5 DEF Chosen
<1>7. query.answer = None /\ query.keyword = None
    BY <1>1 DEF SearchInv, Answered, KeywordOnce
<1>8. query \in [kind: {"none", "search", "related"}, vector: Search!Lists, keyword: Search!Lists,
                 retrieved: Search!Lists, answer: Search!Lists]
    BY DEF SearchInv, Search!TypeOK
<1>9. query' = [query EXCEPT !.vector = hits, !.retrieved = part]
    BY <1>2
<1> HIDE DEF near, part
<1>10. /\ query'.kind = "related" /\ query'.vector = hits /\ query'.keyword = None
       /\ query'.retrieved = part /\ query'.answer = None
       /\ query' \in [kind: {"none", "search", "related"}, vector: Search!Lists, keyword: Search!Lists,
                      retrieved: Search!Lists, answer: Search!Lists]
    BY <1>1, <1>3, <1>6, <1>7, <1>8, <1>9 DEF Search!Lists
<1>11. Search!TypeOK'
    BY <1>1, <1>10 DEF SearchInv, Search!TypeOK, Search!Lists
<1>12. RelatedRetrieved'
    <2>1. hits # None
        BY <1>3 DEF SearchOK
    <2>2. \E x : Firsts(x, hits, Len(hits)) /\ Chosen(part, x, Len(x), corpus.author)
        BY <1>4, <1>5, Zenon
    <2>3. \E x : /\ Firsts(x, query'.vector, Len(query'.vector))
                 /\ Chosen(query'.retrieved, x, Len(x), corpus'.author)
        BY <1>1, <1>10, <2>2, Zenon
    <2> QED BY <1>10, <2>1, <2>3 DEF RelatedRetrieved
<1> QED BY <1>10, <1>11, <1>12 DEF SearchInv, KeywordOnce, SearchRetrieved, Answered

\* The posts are read.
LEMMA AnswerKeeps ==
    ASSUME SearchOK, SearchInv, Search!Answer
    PROVE  SearchInv'
<1> DEFINE part == Search!Alive(query.retrieved)
<1>1. /\ live' = live /\ corpus' = corpus /\ query.retrieved # None
      /\ query' = [query EXCEPT !.answer = part]
    BY DEF Search!Answer
<1>2. query \in [kind: {"none", "search", "related"}, vector: Search!Lists, keyword: Search!Lists,
                 retrieved: Search!Lists, answer: Search!Lists]
    BY DEF SearchInv, Search!TypeOK
<1>3. query.retrieved \in Seq(Posts)
    BY <1>1, <1>2 DEF Search!Lists
<1>4. Kept(part, query.retrieved, Len(query.retrieved), live)
    BY <1>3, AliveIs
<1>5. part \in Seq(Posts)
    BY <1>4 DEF Kept
<1> HIDE DEF part
<1>6. /\ query'.kind = query.kind /\ query'.vector = query.vector /\ query'.keyword = query.keyword
      /\ query'.retrieved = query.retrieved /\ query'.answer = part
      /\ query' \in [kind: {"none", "search", "related"}, vector: Search!Lists, keyword: Search!Lists,
                     retrieved: Search!Lists, answer: Search!Lists]
    BY <1>1, <1>2, <1>5 DEF Search!Lists
<1>7. Search!TypeOK'
    BY <1>1, <1>6 DEF SearchInv, Search!TypeOK, Search!Lists
<1>8. query.kind # "none"
    BY <1>1 DEF SearchInv, Search!Waiting
<1>9. KeywordOnce'
    BY <1>6 DEF SearchInv, KeywordOnce, NoRepeats
<1>10. SearchRetrieved' /\ RelatedRetrieved'
    BY <1>1, <1>6 DEF SearchInv, SearchRetrieved, RelatedRetrieved
<1>11. Kept(query'.answer, query'.retrieved, Len(query'.retrieved), live')
    BY <1>1, <1>4, <1>6
<1>12. Answered'
    BY <1>1, <1>6, <1>11 DEF Answered
<1> QED BY <1>6, <1>7, <1>8, <1>9, <1>10, <1>12 DEF SearchInv

\* A post goes while the answer is awaited.
LEMMA DeathKeeps ==
    ASSUME SearchInv, NEW p \in Posts, Search!Die(p)
    PROVE  SearchInv'
<1>1. live' \subseteq live /\ corpus' = corpus /\ query' = query /\ query.answer = None
    BY DEF Search!Die
<1>2. Search!TypeOK'
    BY <1>1 DEF SearchInv, Search!TypeOK, Search!Lists
<1>3. KeywordOnce' /\ SearchRetrieved' /\ RelatedRetrieved' /\ Answered'
    BY <1>1 DEF SearchInv, KeywordOnce, SearchRetrieved, RelatedRetrieved, Answered, NoRepeats
<1> QED BY <1>1, <1>2, <1>3 DEF SearchInv, Search!Waiting

LEMMA SearchKeeps == ASSUME ServicesOK, SearchInv, [Next]_serviceVars PROVE SearchInv'
<1>1. Search!Next \/ UNCHANGED searchVars
    BY EachTakesItsOwnSteps
<1>2. SearchOK
    BY DEF ServicesOK
<1>3. CASE UNCHANGED searchVars
    <2>1. live' = live /\ corpus' = corpus /\ query' = query
        BY <1>3 DEF searchVars
    <2>2. Search!TypeOK'
        BY <2>1 DEF SearchInv, Search!TypeOK, Search!Lists
    <2>3. KeywordOnce' /\ SearchRetrieved' /\ RelatedRetrieved' /\ Answered'
        BY <2>1 DEF SearchInv, KeywordOnce, SearchRetrieved, RelatedRetrieved, Answered, NoRepeats
    <2> QED BY <2>1, <2>2, <2>3 DEF SearchInv, Search!Waiting
<1>4. CASE Search!Next
    <2>1. CASE \E p \in Posts : Search!Die(p)
        BY <2>1, DeathKeeps
    <2> QED BY <1>2, <1>4, <2>1, AskKeeps, PathsKeep, RetrieveKeeps, RelatedKeeps, AnswerKeeps
            DEF Search!Next
<1> QED BY <1>1, <1>3, <1>4

LEMMA SearchInvariant == Spec => []SearchInv
<1>1. Init => SearchInv
    BY SearchStarts, ServicesOK
<1>2. SearchInv /\ [Next]_serviceVars => SearchInv'
    BY SearchKeeps, ServicesOK
<1> QED BY <1>1, <1>2, PTL DEF Spec

\* Posts that come before one beyond the limit.
LEMMA EnoughBefore ==
    ASSUME SearchOK, NEW v \in Seq(Posts), NEW k \in Seq(Posts), NEW list, Fused(list, v, k),
           NEW m \in 1..Len(list), SearchLimit < m,
           NEW better, better = {q \in Search!ToSet(v) \cup Search!ToSet(k) : Prior(q, list[m], v, k)}
    PROVE  Cardinality(better) >= SearchLimit
<1> DEFINE N == SearchLimit
           top == {list[x] : x \in 1..N}
<1>0. N \in Nat /\ Len(list) \in Nat /\ list \in Seq(Posts) /\ m \in Nat
    BY DEF SearchOK, Fused
<1>1. Cardinality(top) = N
    <2>1. \A i, j \in 1..N : list[i] = list[j] => i = j
        BY <1>0 DEF Fused, NoRepeats
    <2>2. Search!Cardinality(top) = N
        <3>1. N \in Nat
            BY <1>0
        <3> HIDE DEF N
        <3> QED BY <2>1, <3>1, Distinct, SMTT(60)
    <2> QED BY <2>2, SameCardinality
<1>2. ASSUME NEW x \in 1..N PROVE list[x] \in better
    <2>1. x \in 1..Len(list) /\ x < m
        BY <1>0
    <2>2. Prior(list[x], list[m], v, k)
        BY <2>1 DEF Fused
    <2>3. list[x] \in Search!ToSet(list)
        BY <1>0, <2>1, InList
    <2>4. list[x] \in Search!ToSet(v) \cup Search!ToSet(k)
        BY <2>3 DEF Fused
    <2> QED BY <2>2, <2>4
<1>3. top \in SUBSET better
    BY <1>2
<1>4. IsFiniteSet(better) /\ Cardinality(better) \in Nat
    <2>1. \A q \in Search!ToSet(v) \cup Search!ToSet(k) : q \in Posts
        BY InList
    <2>2. better \in SUBSET Posts
        BY <2>1
    <2> QED BY <2>2, FS_Subset, FS_CardinalityType DEF SearchOK
<1>5. Cardinality(top) <= Cardinality(better)
    <2> HIDE DEF top
    <2> QED BY <1>3, <1>4, FS_Subset
<1> HIDE DEF top
<1> QED BY <1>0, <1>1, <1>4, <1>5

LEMMA RankedFollows == ASSUME SearchOK, SearchInv PROVE AnswerIsRanked
<1> DEFINE v == query.vector
           k == query.keyword
           r == query.retrieved
           ans == query.answer
           found == Search!ToSet(v) \cup Search!ToSet(k)
<1> SUFFICES ASSUME query.kind = "search", ans # None
             PROVE  /\ Search!ToSet(ans) \subseteq found
                    /\ \A i, j \in DOMAIN ans : i < j => Search!Before(ans[i], ans[j])
                    /\ \A p \in found \ Search!ToSet(ans) :
                          \/ p \notin live
                          \/ Search!Cardinality({q \in found : Search!Before(q, p)}) >= SearchLimit
    BY Zenon DEF AnswerIsRanked, Search!AnswerIsRanked
<1>1. r # None /\ Kept(ans, r, Len(r), live)
    BY DEF SearchInv, Answered
<1>2. v # None /\ k # None /\ \E list : Fused(list, v, k) /\ r = Search!Upto(SearchLimit, list)
    BY <1>1 DEF SearchInv, SearchRetrieved
<1>3. v \in Seq(Posts) /\ k \in Seq(Posts)
    BY <1>2 DEF SearchInv, Search!TypeOK, Search!Lists
<1>4. PICK list : Fused(list, v, k) /\ r = Search!Upto(SearchLimit, list)
    BY <1>2
<1>5. list \in Seq(Posts) /\ Len(list) \in Nat /\ SearchLimit \in Nat
    BY <1>4 DEF Fused, SearchOK
<1>6. /\ Len(r) = IF Len(list) < SearchLimit THEN Len(list) ELSE SearchLimit
      /\ \A i \in 1..Len(r) : i \in 1..Len(list) /\ r[i] = list[i]
    BY <1>4, <1>5, UptoIs
<1>7. Len(r) \in Nat
    BY <1>5, <1>6
<1>8. ans \in Seq(Posts) /\ Len(ans) \in Nat /\ DOMAIN ans = 1..Len(ans)
    BY <1>1 DEF Kept
<1>9. PICK at \in [1..Len(ans) -> 1..Len(r)] :
          /\ \A i, j \in 1..Len(ans) : i < j => at[i] < at[j]
          /\ \A m \in 1..Len(ans) : ans[m] = r[at[m]] /\ ans[m] \in live
    BY <1>1, Zenon DEF Kept
<1>10. \A i \in 1..Len(r) : r[i] \in live => \E m \in 1..Len(ans) : ans[m] = r[i]
    BY <1>1 DEF Kept
<1>11. \A p, q : Search!Before(p, q) <=> Prior(p, q, v, k)
    BY DEF Search!Before, Prior, ScoreOf, Turn
<1>12. \A m \in 1..Len(ans) : at[m] \in 1..Len(list) /\ ans[m] = list[at[m]]
    BY <1>6, <1>9
<1> HIDE DEF v, k, r, ans
<1>13. \A p : p \in Search!ToSet(list) <=> p \in found
    BY <1>4 DEF Fused
<1>14. ASSUME NEW p \in Search!ToSet(ans) PROVE p \in found
    <2>1. PICK m \in 1..Len(ans) : ans[m] = p
        BY <1>8, InList
    <2>2. p \in Search!ToSet(list)
        BY <1>5, <1>12, <2>1, InList
    <2> QED BY <1>13, <2>2
<1>15. ASSUME NEW i \in 1..Len(ans), NEW j \in 1..Len(ans), i < j PROVE Search!Before(ans[i], ans[j])
    <2>1. at[i] < at[j]
        BY <1>9, <1>15
    <2>2. Prior(list[at[i]], list[at[j]], v, k)
        BY <1>4, <1>12, <2>1 DEF Fused
    <2> QED BY <1>11, <1>12, <2>2
<1>16. ASSUME NEW p \in found, p \notin Search!ToSet(ans), p \in live
       PROVE  Search!Cardinality({q \in found : Search!Before(q, p)}) >= SearchLimit
    <2>1. p \in Search!ToSet(list)
        BY <1>13
    <2>2. PICK m \in 1..Len(list) : list[m] = p
        BY <1>5, <2>1, InList
    <2>3. m \notin 1..Len(r)
        <3> SUFFICES ASSUME m \in 1..Len(r) PROVE FALSE
            OBVIOUS
        <3>1. r[m] = p
            BY <1>6, <2>2
        <3>2. PICK n \in 1..Len(ans) : ans[n] = p
            BY <1>10, <1>16, <3>1
        <3> QED BY <1>8, <1>16, <3>2, InList
    <2>4. SearchLimit < m
        BY <1>5, <1>6, <1>7, <2>2, <2>3
    <2> DEFINE better == {q \in found : Prior(q, list[m], v, k)}
    <2>5. {q \in found : Search!Before(q, p)} = better
        BY <1>11, <2>2
    <2>6. Cardinality(better) >= SearchLimit
        BY <1>3, <1>4, <2>2, <2>4, EnoughBefore
    <2> HIDE DEF better, found
    <2> QED BY <2>5, <2>6, SameCardinality
<1> QED BY <1>8, <1>14, <1>15, <1>16

\* In every run of the services, a search's answer lists the posts its paths found by
\* their fused rank, each once, and misses one only if it has gone or the limit's many
\* come before it, whichever path fails and whatever dies meanwhile (search, fuseRRF).
THEOREM AnswersRanked == Spec => []AnswerIsRanked
<1>1. SearchInv => AnswerIsRanked
    BY RankedFollows, ServicesOK DEF ServicesOK
<1> QED BY <1>1, SearchInvariant, PTL

LEMMA AuthorsFollow == ASSUME SearchOK, SearchInv PROVE OnePerAuthor
<1> DEFINE hits == query.vector
           part == query.retrieved
           ans == query.answer
           shown == Search!ToSet(part)
           keys(p) == KeysIn(corpus.author, p)
           whole(p) == {corpus.author[p].user, corpus.author[p].name}
<1> SUFFICES ASSUME query.kind = "related", ans # None
             PROVE  /\ \A p, q \in shown : p # q => whole(p) \cap whole(q) \subseteq {None}
                    /\ Search!ToSet(ans) = shown \cap live
                    /\ \A p \in Search!ToSet(hits) \ shown :
                          \/ Len(part) = SearchLimit
                          \/ \E q \in shown : /\ Search!AuthorKeys(p) \cap Search!AuthorKeys(q) # {}
                                              /\ Search!Rank(q, hits) < Search!Rank(p, hits)
    BY Zenon DEF OnePerAuthor, Search!OnePerAuthor
<1>1. part # None /\ Kept(ans, part, Len(part), live)
    BY DEF SearchInv, Answered
<1>2. /\ hits # None
      /\ \E near : Firsts(near, hits, Len(hits)) /\ Chosen(part, near, Len(near), corpus.author)
    BY <1>1 DEF SearchInv, RelatedRetrieved
<1>3. hits \in Seq(Posts)
    BY <1>2 DEF SearchInv, Search!TypeOK, Search!Lists
<1>4. PICK near : Firsts(near, hits, Len(hits)) /\ Chosen(part, near, Len(near), corpus.author)
    BY <1>2
<1>5. \A p : Search!AuthorKeys(p) = keys(p) /\ keys(p) = whole(p) \ {None}
    BY DEF Search!AuthorKeys, KeysIn
<1> HIDE DEF hits, part, ans, keys, whole
<1>6. part \in Seq(Posts) /\ Len(part) \in Nat
    BY <1>4 DEF Chosen
<1>7. ans \in Seq(Posts) /\ Len(ans) \in Nat
    BY <1>1 DEF Kept
<1>8. /\ near \in Seq(Posts) /\ Len(near) \in Nat
      /\ \A i \in 1..Len(hits) : \E m \in 1..Len(near) : near[m] = hits[i]
    BY <1>4 DEF Firsts
<1>9. \A p : p \in shown <=> \E m \in 1..Len(part) : part[m] = p
    BY <1>6, InList
<1>10. \A p : p \in Search!ToSet(ans) <=> \E m \in 1..Len(ans) : ans[m] = p
    BY <1>7, InList
<1> HIDE DEF shown
<1>11. ASSUME NEW p \in shown, NEW q \in shown, p # q PROVE whole(p) \cap whole(q) \subseteq {None}
    <2>1. PICK i \in 1..Len(part), j \in 1..Len(part) : part[i] = p /\ part[j] = q
        BY <1>9
    <2>2. keys(part[i]) \cap keys(part[j]) = {}
        BY <1>4, <1>11, <2>1 DEF Chosen, keys
    <2> QED BY <1>5, <2>1, <2>2
<1>12. ASSUME NEW p PROVE p \in Search!ToSet(ans) <=> p \in shown \cap live
    <2>1. PICK at \in [1..Len(ans) -> 1..Len(part)] : \A m \in 1..Len(ans) : ans[m] = part[at[m]] /\ ans[m] \in live
        BY <1>1, Zenon DEF Kept
    <2>2. \A i \in 1..Len(part) : part[i] \in live => \E m \in 1..Len(ans) : ans[m] = part[i]
        BY <1>1 DEF Kept
    <2>3. ASSUME p \in Search!ToSet(ans) PROVE p \in shown \cap live
        <3>1. PICK m \in 1..Len(ans) : ans[m] = p
            BY <1>10, <2>3
        <3> QED BY <1>9, <2>1, <3>1
    <2>4. ASSUME p \in shown, p \in live PROVE p \in Search!ToSet(ans)
        BY <1>9, <1>10, <2>2, <2>4
    <2> QED BY <2>3, <2>4
<1>13. ASSUME NEW p \in Search!ToSet(hits), p \notin shown, Len(part) # SearchLimit
       PROVE  \E q \in shown : /\ Search!AuthorKeys(p) \cap Search!AuthorKeys(q) # {}
                               /\ Search!Rank(q, hits) < Search!Rank(p, hits)
    <2>1. PICK n \in 1..Len(hits) : hits[n] = p
        BY <1>3, InList
    <2>2. PICK i \in 1..Len(near) : near[i] = p
        BY <1>8, <2>1
    <2>3. ~ \E m \in 1..Len(part) : part[m] = near[i]
        BY <1>9, <1>13, <2>2
    <2>4. \E m \in 1..Len(part), j \in 1..(i - 1) :
              part[m] = near[j] /\ keys(near[i]) \cap keys(near[j]) # {}
        BY <1>4, <1>13, <2>3, Zenon DEF Chosen, keys
    <2>5. PICK m \in 1..Len(part), j \in 1..(i - 1) :
              part[m] = near[j] /\ keys(near[i]) \cap keys(near[j]) # {}
        BY <2>4
    <2>6. near[j] \in shown
        BY <1>9, <2>5
    <2>7. i \in Nat /\ j \in Nat /\ j < i /\ j \in 1..Len(near)
        BY <1>8
    <2>8. Search!Rank(near[i], hits) = i /\ Search!Rank(near[j], hits) = j
        BY <1>3, <1>4, <2>7, PlaceIs
    <2>9. Search!AuthorKeys(p) \cap Search!AuthorKeys(near[j]) # {}
        BY <1>5, <2>2, <2>5
    <2>10. Search!Rank(near[j], hits) < Search!Rank(p, hits)
        BY <2>2, <2>7, <2>8
    <2> QED BY <2>6, <2>9, <2>10
<1> QED BY <1>11, <1>12, <1>13

\* In every run of the services, no two related posts share a user or a nickname, and
\* a neighbour is left out only for a nearer one of its author, for the limit, or
\* because it has gone (related, seenPosts and seenAuthors).
THEOREM AuthorsApart == Spec => []OnePerAuthor
<1>1. SearchInv => OnePerAuthor
    BY AuthorsFollow, ServicesOK DEF ServicesOK
<1> QED BY <1>1, SearchInvariant, PTL
===============================================================================
