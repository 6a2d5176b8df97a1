------------------------------ MODULE ChatUsers ------------------------------
(***************************************************************************)
(* The users of the chat server and their push settings (chat/store.ts,    *)
(* chat/controllers.ts): two maps kept in memory by token and copied as a  *)
(* whole into the cache, from which a start loads them without waiting.    *)
(*                                                                         *)
(* The cache is Redis and one connection carries every command, so the     *)
(* reads a start sends are answered with what was stored before any write  *)
(* of that start, however late the answer is handled.                      *)
(*                                                                         *)
(* Abstractions.  A user is known with a generated profile ("fresh") or    *)
(* with one of his own; a setting is the default or his own.  What he says *)
(* of the market and the numbers told to everyone are left out.            *)
(***************************************************************************)
EXTENDS Naturals

CONSTANTS
    Tokens,         \* user tokens
    Sockets,        \* websocket connections that can be open at once
    MaxRestarts,    \* bound: starts of the server after the first
    None

VARIABLES
    memory,         \* state.users and state.userSettings
    stored,         \* chat:users and chat:user_settings in the cache
    loading,        \* the answer a start still waits for, by map
    loaded,         \* the maps whose answer has come in this start
    sockets,        \* state.connections: the token of each
    idle,           \* tokens whose lastSeen is hoursPassed ago
    excused,        \* by map: tokens whose entry was made before the map was
                    \* loaded, or deleted, and that have not connected since
    restarts        \* counts up to MaxRestarts

chatUserVars ==
    <<memory, stored, loading, loaded, sockets, idle, excused, restarts>>

Maps == {"users", "settings"}

NoOne == [t \in Tokens |-> None]

Connections == {c \in Sockets : sockets[c] # None}

Known(k, t) == memory[k][t] # None

\* getters.user(token) || createUser(token), and likewise for the setting.
Ensured(k, t) == [memory[k] EXCEPT ![t] = IF @ = None THEN "fresh" ELSE @]

\* What is put into a map now is dropped when its answer comes.
TooEarly(k, t) == IF k \in loaded THEN {} ELSE {t}

\* Variant: only the user at hand is written.
StoreOne(k, map) == stored' = [stored EXCEPT ![k] = [t \in Tokens |->
    IF map[t] # memory[k][t] THEN map[t] ELSE None]]

\* cache.set: the whole map, whatever it holds by now.
Store(k, map) == stored' = [stored EXCEPT ![k] = map]
-----------------------------------------------------------------------------
(* Connections. *)

\* onConnected: setUser and refreshUserState, then setUserSetting.
Connect(c, t) ==
    /\ sockets[c] = None
    /\ sockets' = [sockets EXCEPT ![c] = t]
    /\ memory' = [k \in Maps |-> Ensured(k, t)]
    /\ stored' = memory'
    /\ idle' = idle \ {t}
    /\ excused' = [k \in Maps |-> TooEarly(k, t) \cup (excused[k] \ {t})]
    /\ UNCHANGED <<loading, loaded, restarts>>

\* The close handler.
Close(c) ==
    /\ sockets[c] # None
    /\ sockets' = [sockets EXCEPT ![c] = None]
    /\ UNCHANGED <<memory, stored, loading, loaded, idle, excused, restarts>>

\* The ping handler: a user the map has lost stays lost.
Ping(c) ==
    LET t == sockets[c] IN
    /\ t # None
    /\ Known("users", t)
    /\ idle' = idle \ {t}
    /\ Store("users", memory["users"])
    /\ UNCHANGED <<memory, loading, loaded, sockets, excused, restarts>>
-----------------------------------------------------------------------------
(* Requests. *)

\* The user in the map is changed; the cache hears of it with the next ping.
TakesOwn(t) ==
    /\ Known("users", t)
    /\ memory' = [memory EXCEPT !["users"][t] = "own"]
    /\ UNCHANGED <<stored, loading, loaded, sockets, idle, excused, restarts>>

\* user.update.  The profile is changed before the last checks, so also by a
\* request that is answered as failed.
UpdateProfile(t) == TakesOwn(t)

\* populateUserProfile: with his text, whoever is signed in takes on the
\* profile he has registered.
AdoptProfile(c) == sockets[c] # None /\ TakesOwn(sockets[c])

\* user.updateSetting: a setting that is not in the map is changed on a copy,
\* and setUserSetting then stores a second, default one.
UpdateSetting(t) ==
    /\ Known("users", t)
    /\ memory' = [memory EXCEPT !["settings"][t] = IF @ = None THEN "fresh" ELSE "own"]
    /\ Store("settings", memory'["settings"])
    /\ excused' = [excused EXCEPT !["settings"] = @ \cup TooEarly("settings", t)]
    /\ UNCHANGED <<loading, loaded, sockets, idle, restarts>>

\* user.delete.
Delete(t) ==
    /\ memory' = [memory EXCEPT !["users"][t] = None]
    /\ Store("users", memory'["users"])
    /\ excused' = [excused EXCEPT !["users"] = @ \cup {t}]
    /\ UNCHANGED <<loading, loaded, sockets, idle, restarts>>

\* Variant: everyone is taken for old.
Everyone == {t \in Tokens : Known("users", t)}

OldUsers == {t \in idle : Known("users", t)}

\* user.deleteOld, half-hourly: the settings go from memory,
\* and only the users are written back.
DeleteOld ==
    /\ memory' = [k \in Maps |-> [t \in Tokens |->
                     IF t \in OldUsers THEN None ELSE memory[k][t]]]
    /\ Store("users", memory'["users"])
    /\ excused' = [k \in Maps |-> excused[k] \cup idle]
    /\ UNCHANGED <<loading, loaded, sockets, idle, restarts>>

\* A user sends no ping for hoursPassed.
GrowIdle(t) ==
    /\ stored["users"][t] # None
    /\ idle' = idle \cup {t}
    /\ UNCHANGED <<memory, stored, loading, loaded, sockets, excused, restarts>>
-----------------------------------------------------------------------------
(* Starts. *)

\* loadUsers and loadUserSettings.
LoadAnswers(k) ==
    /\ loading[k] # None
    /\ memory' = [memory EXCEPT ![k] = loading[k]]
    /\ loading' = [loading EXCEPT ![k] = None]
    /\ loaded' = loaded \cup {k}
    /\ UNCHANGED <<stored, sockets, idle, excused, restarts>>

\* The read fails; nobody waits for it and nobody repeats it.
LoadFails(k) ==
    /\ loading[k] # None
    /\ loading' = [loading EXCEPT ![k] = None]
    /\ UNCHANGED <<memory, stored, loaded, sockets, idle, excused, restarts>>

\* The process ends at any moment; useChat sends the reads before it listens.
Restart ==
    /\ restarts < MaxRestarts
    /\ restarts' = restarts + 1
    /\ memory' = [k \in Maps |-> NoOne]
    /\ loading' = stored
    /\ loaded' = {}
    /\ sockets' = [c \in Sockets |-> None]
    /\ excused' = [k \in Maps |-> {}]
    /\ UNCHANGED <<stored, idle>>
-----------------------------------------------------------------------------
Init ==
    /\ memory = [k \in Maps |-> NoOne]
    /\ stored = [k \in Maps |-> NoOne]
    /\ loading = [k \in Maps |-> None]
    /\ loaded = Maps
    /\ sockets = [c \in Sockets |-> None]
    /\ idle = {}
    /\ excused = [k \in Maps |-> {}]
    /\ restarts = 0

Next ==
    \/ \E c \in Sockets : Close(c) \/ Ping(c) \/ AdoptProfile(c)
    \/ \E c \in Sockets, t \in Tokens : Connect(c, t)
    \/ \E t \in Tokens : UpdateProfile(t) \/ UpdateSetting(t) \/ Delete(t) \/ GrowIdle(t)
    \/ DeleteOld
    \/ \E k \in Maps : LoadAnswers(k) \/ LoadFails(k)
    \/ Restart

Spec == Init /\ [][Next]_chatUserVars
-----------------------------------------------------------------------------
(* Properties. *)

Entries == [Tokens -> {"fresh", "own", None}]

\* Every variable has its type.
TypeOK ==
    /\ memory \in [Maps -> Entries]
    /\ stored \in [Maps -> Entries]
    /\ loading \in [Maps -> Entries \cup {None}]
    /\ loaded \subseteq Maps
    /\ sockets \in [Sockets -> Tokens \cup {None}]
    /\ idle \subseteq Tokens
    /\ excused \in [Maps -> SUBSET Tokens]
    /\ restarts \in 0..MaxRestarts

\* Whoever is connected is known to the map of users, without which his texts
\* are stored and never sent: unless he connected before that map was loaded,
\* was deleted by request, or has been idle for as long as deleteOld asks.
ConnectedAreKnown ==
    \A c \in Connections : Known("users", sockets[c]) \/ sockets[c] \in excused["users"]

\* What the cache holds of a user, no one else's connection, ping or setting
\* takes away, and a profile of his own is not replaced by a generated one:
\* once the map of this start has been loaded, and for those not excused.
StoredStays ==
    \A k \in loaded, t \in Tokens :
        stored[k][t] # None /\ t \notin excused[k] \cup excused'[k] =>
            /\ stored'[k][t] # None
            /\ stored[k][t] = "own" => stored'[k][t] = "own"

UsersSurvive == [][StoredStays]_chatUserVars
=============================================================================
