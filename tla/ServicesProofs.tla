----------------------------- MODULE ServicesProofs -----------------------------
(***************************************************************************)
(* Theorems about the other services, for all values of the constants that *)
(* ServicesOK allows.  What is proved of a service is proved of its own    *)
(* specification, which every behaviour of Services satisfies.             *)
(***************************************************************************)
EXTENDS ChatSearchProofs


\* A set whose members are all equal has one at most.
LEMMA AtMostOne ==
    ASSUME NEW S, \A x, y \in S : x = y
    PROVE  Cardinality(S) <= 1
<1>1. CASE S = {}
    BY <1>1, FS_EmptySet
<1>2. ASSUME NEW x \in S PROVE S = {x}
    OBVIOUS
<1>3. ASSUME NEW x PROVE Cardinality({x}) = 1
    BY FS_Singleton
<1> QED BY <1>1, <1>2, <1>3

\* The cardinality of the services' modules is the one the theorems are about.
LEMMA OneCardinality ==
    \A S : React!Cardinality(S) = Cardinality(S) /\ SignIn!Cardinality(S) = Cardinality(S)
BY DEF Cardinality, React!Cardinality, SignIn!Cardinality
-----------------------------------------------------------------------------
(* Reactions. *)

UnderWay(t) == toggle[t].who # None

Spared(p) == \A q \in doubled : ~React!Same(p, q)

\* Toggles that would find each other's row are told from the others.
MeetingsKnown ==
    \A t, u \in Toggles :
        t # u /\ UnderWay(t) /\ UnderWay(u) /\ React!Meets(toggle[t].who, toggle[u].who)
            => {toggle[t].who, toggle[u].who} \subseteq doubled

\* Where a toggle that met nobody found no row, there still is none.
StillNone ==
    \A t \in Toggles :
        UnderWay(t) /\ toggle[t].found = 0 /\ toggle[t].who \notin doubled
            => \A row \in reactions : ~React!Mine(row, toggle[t].who)

OneRowEach ==
    \A row, other \in reactions :
        React!Same(row.who, other.who) /\ Spared(row.who) => row = other

ReactInv == React!TypeOK /\ MeetingsKnown /\ StillNone /\ OneRowEach

LEMMA SamePerson ==
    /\ \A p, q : React!Same(p, q) => React!Same(q, p)
    /\ \A p, q, r : React!Same(p, q) /\ React!Same(q, r) => React!Same(p, r)
    /\ \A p : React!Same(p, p)
    /\ \A row, p : React!Same(row.who, p) => React!Mine(row, p)
    /\ \A row, p, q : row.who = p /\ React!Mine(row, q) => React!Meets(q, p)
    /\ \A p, q : React!Meets(p, q) => React!Meets(q, p)
<1>1. \A row, p, q : row.who = p /\ React!Mine(row, q) => React!Meets(q, p)
    BY DEF React!Mine, React!Meets
<1> QED BY <1>1 DEF React!Same, React!Mine, React!Meets

LEMMA ReactInit == React!Init => ReactInv
<1> SUFFICES ASSUME React!Init PROVE ReactInv
    OBVIOUS
<1>1. React!TypeOK
    BY ServicesOK DEF React!Init, React!TypeOK, React!Resting, ReactionsOK
<1>2. \A t \in Toggles : ~UnderWay(t)
    BY DEF React!Init, React!Resting, UnderWay
<1>3. reactions = {}
    BY DEF React!Init
<1> QED BY <1>1, <1>2, <1>3 DEF ReactInv, MeetingsKnown, StillNone, OneRowEach

\* A toggle that ends, with the rows left as they are or fewer.
LEMMA ToggleEnds ==
    ASSUME ReactInv, NEW t \in Toggles,
           toggle' = [toggle EXCEPT ![t] = React!Resting],
           reactions' \subseteq reactions, inserted' = inserted, doubled' = doubled
    PROVE  ReactInv'
<1>1. React!TypeOK'
    BY ServicesOK DEF ReactInv, React!TypeOK, React!Resting, ReactionsOK
<1>2. \A u \in Toggles : UnderWay(u)' => UnderWay(u) /\ toggle'[u] = toggle[u]
    BY DEF ReactInv, React!TypeOK, UnderWay, React!Resting
<1>3. MeetingsKnown'
    BY <1>2 DEF ReactInv, MeetingsKnown
<1>4. StillNone'
    BY <1>2 DEF ReactInv, StillNone
<1>5. OneRowEach'
    BY DEF ReactInv, OneRowEach, Spared
<1> QED BY <1>1, <1>3, <1>4, <1>5 DEF ReactInv

LEMMA LookOK ==
    ASSUME ReactInv, NEW t \in Toggles,
           NEW who \in [user: Reactors \cup {None}, ip: IPs], React!Look(t, who)
    PROVE  ReactInv'
<1>1. PICK id \in {row.id : row \in {row \in reactions : React!Mine(row, who)}} \cup {0} :
          /\ id = 0 => \A row \in reactions : ~React!Mine(row, who)
          /\ toggle' = [toggle EXCEPT ![t] = [who |-> who, found |-> id]]
    BY DEF React!Look
<1> DEFINE under == {toggle[u].who : u \in Toggles} \ {None}
           metBy == {p \in under : React!Meets(p, who)}
<1>2. /\ reactions' = reactions /\ inserted' = inserted
      /\ doubled' = IF metBy = {} THEN doubled ELSE doubled \cup metBy \cup {who}
    BY DEF React!Look
<1>3. id \in 0..MaxRows
    BY <1>1, ServicesOK DEF ReactInv, React!TypeOK, ReactionsOK
<1>4. React!TypeOK'
    <2>1. [who |-> who, found |-> id]
             \in [who: [user: Reactors \cup {None}, ip: IPs] \cup {None}, found: 0..MaxRows]
        BY <1>3
    <2>2. toggle' \in [Toggles ->
             [who: [user: Reactors \cup {None}, ip: IPs] \cup {None}, found: 0..MaxRows]]
        BY <1>1, <2>1 DEF ReactInv, React!TypeOK
    <2>3. under \subseteq [user: Reactors \cup {None}, ip: IPs]
        BY DEF ReactInv, React!TypeOK
    <2>4. doubled' \subseteq [user: Reactors \cup {None}, ip: IPs]
        BY <1>2, <2>3 DEF ReactInv, React!TypeOK
    <2> QED BY <1>2, <2>2, <2>4 DEF ReactInv, React!TypeOK
<1>5. /\ toggle'[t].who = who /\ toggle'[t].found = id
      /\ \A u \in Toggles \ {t} : toggle'[u] = toggle[u]
    BY <1>1 DEF ReactInv, React!TypeOK
<1>6. doubled \subseteq doubled'
    BY <1>2
<1>7. ASSUME NEW u \in Toggles \ {t}, UnderWay(u), React!Meets(toggle[u].who, who)
      PROVE  {toggle[u].who, who} \subseteq doubled'
    <2>1. toggle[u].who \in metBy
        BY <1>7 DEF UnderWay
    <2> QED BY <1>2, <2>1
<1> HIDE DEF metBy
<1>8. MeetingsKnown'
    <2> SUFFICES ASSUME NEW v \in Toggles, NEW u \in Toggles, v # u, UnderWay(v)', UnderWay(u)',
                        React!Meets(toggle'[v].who, toggle'[u].who)
                 PROVE  {toggle'[v].who, toggle'[u].who} \subseteq doubled'
        BY DEF MeetingsKnown, React!Meets, React!Mine
    <2>1. CASE v # t /\ u # t
        BY <1>5, <1>6, <2>1 DEF ReactInv, MeetingsKnown, UnderWay
    <2>2. CASE v = t
        BY <1>5, <1>7, <2>2, SamePerson DEF UnderWay
    <2>3. CASE u = t
        BY <1>5, <1>7, <2>3, SamePerson DEF UnderWay
    <2> QED BY <2>1, <2>2, <2>3
<1>9. StillNone'
    <2> SUFFICES ASSUME NEW u \in Toggles, UnderWay(u)', toggle'[u].found = 0,
                        toggle'[u].who \notin doubled', NEW row \in reactions
                 PROVE  ~React!Mine(row, toggle'[u].who)
        BY <1>2 DEF StillNone, React!Mine
    <2>1. CASE u = t
        BY <1>1, <1>5, <2>1
    <2>2. CASE u # t
        BY <1>5, <1>6, <2>2 DEF ReactInv, StillNone, UnderWay
    <2> QED BY <2>1, <2>2
<1>10. OneRowEach'
    BY <1>2, <1>6 DEF ReactInv, OneRowEach, Spared, React!Same
<1> QED BY <1>4, <1>8, <1>9, <1>10 DEF ReactInv

LEMMA AddOK == ASSUME ReactInv, NEW t \in Toggles, React!Add(t) PROVE ReactInv'
<1> DEFINE who == toggle[t].who
           new == [id |-> inserted + 1, who |-> who]
<1>1. /\ UnderWay(t) /\ toggle[t].found = 0 /\ inserted < MaxRows
      /\ inserted' = inserted + 1 /\ doubled' = doubled
      /\ reactions' = reactions \cup {new}
      /\ toggle' = [toggle EXCEPT ![t] = React!Resting]
    BY DEF React!Add, UnderWay
<1>2. who \in [user: Reactors \cup {None}, ip: IPs] /\ new.who = who
    BY <1>1 DEF ReactInv, React!TypeOK, UnderWay
<1>3. React!TypeOK'
    <2>1. inserted + 1 \in 1..MaxRows /\ inserted + 1 \in 0..MaxRows
        BY <1>1, ServicesOK DEF ReactInv, React!TypeOK, ReactionsOK
    <2>2. new \in [id: 1..MaxRows, who: [user: Reactors \cup {None}, ip: IPs]]
        BY <1>2, <2>1
    <2> HIDE DEF who, new
    <2>3. toggle' \in [Toggles ->
             [who: [user: Reactors \cup {None}, ip: IPs] \cup {None}, found: 0..MaxRows]]
        BY <1>1, ServicesOK DEF ReactInv, React!TypeOK, React!Resting, ReactionsOK
    <2> QED BY <1>1, <2>1, <2>2, <2>3 DEF ReactInv, React!TypeOK
<1>4. /\ ~UnderWay(t)'
      /\ \A u \in Toggles \ {t} : toggle'[u] = toggle[u]
    BY <1>1 DEF ReactInv, React!TypeOK, UnderWay, React!Resting
<1>5. MeetingsKnown'
    BY <1>1, <1>4 DEF ReactInv, MeetingsKnown, UnderWay
<1> HIDE DEF new
<1>6. StillNone'
    <2> SUFFICES ASSUME NEW u \in Toggles, UnderWay(u)', toggle'[u].found = 0,
                        toggle'[u].who \notin doubled, NEW row \in reactions'
                 PROVE  ~React!Mine(row, toggle'[u].who)
        BY <1>1 DEF StillNone, React!Mine
    <2>1. u # t /\ toggle'[u] = toggle[u] /\ UnderWay(u)
        BY <1>4 DEF UnderWay
    <2>2. CASE row \in reactions
        BY <2>1, <2>2 DEF ReactInv, StillNone
    <2>3. CASE row = new
        <3> SUFFICES ASSUME React!Mine(row, toggle[u].who) PROVE FALSE
            BY <2>1
        <3>1. React!Meets(toggle[u].who, who)
            BY <1>2, <2>3, SamePerson
        <3> QED BY <1>1, <2>1, <3>1 DEF ReactInv, MeetingsKnown
    <2> QED BY <1>1, <2>2, <2>3
<1>7. OneRowEach'
    <2>1. ASSUME NEW row \in reactions, React!Same(row.who, who), Spared(who) PROVE FALSE
        <3>1. who \notin doubled
            BY <2>1, SamePerson DEF Spared
        <3>2. React!Mine(row, who)
            BY <2>1, SamePerson
        <3> QED BY <1>1, <3>1, <3>2 DEF ReactInv, StillNone
    <2> SUFFICES ASSUME NEW row \in reactions', NEW other \in reactions',
                        React!Same(row.who, other.who), Spared(row.who), row # other
                 PROVE  FALSE
        BY <1>1 DEF OneRowEach, Spared, React!Same
    <2>2. CASE row \in reactions /\ other \in reactions
        BY <2>2 DEF ReactInv, OneRowEach
    <2>3. CASE row = new /\ other \in reactions
        BY <1>2, <2>1, <2>3, SamePerson
    <2>4. CASE row \in reactions /\ other = new
        <3>1. React!Same(row.who, who)
            BY <1>2, <2>4
        <3>2. Spared(who)
            BY <3>1, SamePerson DEF Spared
        <3> QED BY <2>1, <2>4, <3>1, <3>2
    <2> QED BY <1>1, <2>2, <2>3, <2>4
<1> QED BY <1>3, <1>5, <1>6, <1>7 DEF ReactInv

LEMMA ReactStep ==
    ASSUME ReactInv, React!Next \/ UNCHANGED reactionVars
    PROVE  ReactInv'
<1>1. ASSUME NEW t \in Toggles, React!Remove(t) PROVE ReactInv'
    <2>1. reactions' \subseteq reactions
        BY <1>1 DEF React!Remove
    <2> QED BY <1>1, <2>1, ToggleEnds DEF React!Remove
<1>2. ASSUME NEW t \in Toggles, React!ToggleFails(t) PROVE ReactInv'
    BY <1>2, ToggleEnds DEF React!ToggleFails
<1>3. CASE UNCHANGED reactionVars
    BY <1>3 DEF reactionVars, ReactInv, React!TypeOK, MeetingsKnown, StillNone, OneRowEach, Spared,
                UnderWay, React!Same, React!Mine, React!Meets
<1> QED BY <1>1, <1>2, <1>3, LookOK, AddOK DEF React!Next

\* A person has one reaction at most, a user from wherever he reacts, for any
\* number of people and toggles: unless toggles that look for the same row met.
THEOREM OneReactionEach == Spec => []OneReaction
<1>1. Init => ReactInv
    BY ReactInit DEF Init
<1>2. ReactInv /\ [Next]_serviceVars => ReactInv'
    BY ReactStep, EachTakesItsOwnSteps
<1>3. ReactInv => OneReaction
    <2>1. ASSUME ReactInv, NEW p \in [user: Reactors \cup {None}, ip: IPs],
                 \A q \in doubled : ~React!Same(p, q)
          PROVE  Cardinality({row \in reactions : React!Same(row.who, p)}) <= 1
        <3> DEFINE mine == {row \in reactions : React!Same(row.who, p)}
        <3>1. \A row, other \in mine : row = other
            BY <2>1, SamePerson DEF ReactInv, OneRowEach, Spared
        <3> HIDE DEF mine
        <3>2. Cardinality(mine) <= 1
            BY <3>1, AtMostOne
        <3> QED BY <3>2 DEF mine
    <2> SUFFICES ASSUME ReactInv PROVE React!OneReaction
        BY DEF OneReaction
    <2>2. \A p \in [user: Reactors \cup {None}, ip: IPs] :
             (\A q \in doubled : ~React!Same(p, q)) =>
                 Cardinality({row \in reactions : React!Same(row.who, p)}) <= 1
        BY <2>1
    <2> QED BY <2>2, OneCardinality DEF React!OneReaction
<1> QED BY <1>1, <1>2, <1>3, PTL DEF Spec
-----------------------------------------------------------------------------
(* Signing in. *)

Present(r) == request[r] # SignIn!Absent

Stages == {"none", "token", "newToken", "user", "newUser", "profile"}

SignInTypes ==
    /\ request \in [Arrivals -> [at: Stages, token: {0, 1}, user: {0, 1}]]
    /\ users \subseteq {1} /\ profiles \subseteq users /\ account \subseteq users
    /\ tokens = <<>> \/ tokens \in [{1} -> users \cup {None}]
    /\ linking \subseteq [token: DOMAIN tokens, user: users]

\* What one sign-in may rely on.
Relies(r) ==
    LET at == request[r].at IN
    /\ at = "none" => ~Present(r)
    /\ at = "newToken" => tokens = <<>>
    /\ at \in {"user", "newUser", "profile"} => request[r].token \in DOMAIN tokens
    /\ at = "newUser" => users = {}
    /\ at = "profile" => request[r].user \in users
    /\ ~unlinked => /\ at # "none" => linking = {}
                    /\ at \notin {"none", "token"} => profiles = {}

\* Once there is a profile there is a token; and whoever has the profile is
\* linked to it, or about to be.
Linked ==
    profiles # {} =>
        /\ tokens # <<>>
        /\ ~unlinked => tokens[1] = 1 \/ [token |-> 1, user |-> 1] \in linking

\* One first sign-in at a time; of the later ones there may be many.
OneByOne ==
    /\ SignInTypes
    /\ profiles = {} => \A r, q \in Arrivals : Present(r) /\ Present(q) => r = q
    /\ \A r \in Arrivals : Relies(r)
    /\ Linked
    /\ refused => unlinked

LEMMA SignInStart == SignIn!Init => OneByOne
<1> SUFFICES ASSUME SignIn!Init PROVE OneByOne
    OBVIOUS
<1>1. \A r \in Arrivals : request[r] = SignIn!Absent /\ request[r].at = "none"
    BY DEF SignIn!Init, SignIn!Absent
<1>2. SignInTypes
    BY DEF SignIn!Init, SignIn!Absent, SignInTypes, Stages
<1>3. \A r \in Arrivals : Relies(r)
    BY <1>1 DEF Relies, Present
<1> QED BY <1>1, <1>2, <1>3 DEF SignIn!Init, OneByOne, Present, Linked

\* The request at hand goes on: what holds of the others.
LEMMA RequestGoes ==
    ASSUME SignInTypes, NEW r \in Arrivals, NEW at \in Stages, NEW t \in {0, 1}, NEW u \in {0, 1},
           SignIn!Goes(r, at, t, u)
    PROVE  /\ request' \in [Arrivals -> [at: Stages, token: {0, 1}, user: {0, 1}]]
           /\ request'[r] = [at |-> at, token |-> t, user |-> u]
           /\ request'[r].at = at /\ request'[r].token = t /\ request'[r].user = u
           /\ \A q \in Arrivals \ {r} : request'[q] = request[q]
<1>1. request' = [request EXCEPT ![r] = [at |-> at, token |-> t, user |-> u]]
    BY DEF SignIn!Goes
<1>2. [at |-> at, token |-> t, user |-> u] \in [at: Stages, token: {0, 1}, user: {0, 1}]
    OBVIOUS
<1> QED BY <1>1, <1>2 DEF SignInTypes

\* The others are not under way, or what they rely on stays as it is.
LEMMA OneGoes ==
    ASSUME OneByOne, NEW r \in Arrivals,
           \A q \in Arrivals \ {r} : request'[q] = request[q],
           \/ \A q \in Arrivals \ {r} : request[q] = SignIn!Absent
           \/ profiles # {} /\ UNCHANGED <<users, profiles, tokens, linking>>,
           unlinked => unlinked',
           SignInTypes', Relies(r)', Linked', (refused => unlinked)'
    PROVE  OneByOne'
<1>1. CASE \A q \in Arrivals \ {r} : request[q] = SignIn!Absent
    <2>1. ASSUME NEW q \in Arrivals \ {r} PROVE Relies(q)'
        BY <1>1 DEF Relies, Present, SignIn!Absent
    <2>2. \A q \in Arrivals \ {r} : ~Present(q)'
        BY <1>1 DEF Present
    <2> QED BY <2>1, <2>2 DEF OneByOne
<1>2. CASE profiles # {} /\ UNCHANGED <<users, profiles, tokens, linking>>
    <2>1. ASSUME NEW q \in Arrivals \ {r} PROVE Relies(q)'
        BY <1>2 DEF OneByOne, Relies, Present
    <2> QED BY <1>2, <2>1 DEF OneByOne
<1> QED BY <1>1, <1>2

LEMMA VerifyOK ==
    ASSUME OneByOne, NEW r \in Arrivals, SignIn!Verify(r), ~met' PROVE OneByOne'
<1>1. /\ SignIn!Goes(r, "token", 0, 0)
      /\ profiles # {} \/ \A q \in Arrivals \ {r} : request[q] = SignIn!Absent
      /\ ~unlinked' => ~unlinked /\ linking = {}
      /\ unlinked => unlinked'
      /\ UNCHANGED <<users, profiles, tokens, linking, account, refused>>
    BY DEF SignIn!Verify, SignIn!First
<1>2. /\ request' \in [Arrivals -> [at: Stages, token: {0, 1}, user: {0, 1}]]
      /\ request'[r].at = "token"
      /\ \A q \in Arrivals \ {r} : request'[q] = request[q]
    BY <1>1, RequestGoes DEF OneByOne, Stages
<1>3. SignInTypes'
    BY <1>1, <1>2 DEF OneByOne, SignInTypes
<1>4. Relies(r)'
    BY <1>1, <1>2 DEF Relies
<1>5. Linked' /\ (refused => unlinked)'
    BY <1>1 DEF OneByOne, Linked
<1> QED BY <1>1, <1>2, <1>3, <1>4, <1>5, OneGoes

LEMMA OthersAbsent ==
    ASSUME OneByOne, NEW r \in Arrivals, Present(r)
    PROVE  profiles # {} \/ \A q \in Arrivals \ {r} : request[q] = SignIn!Absent
BY DEF OneByOne, Present

LEMMA FindTokenOK ==
    ASSUME OneByOne, NEW r \in Arrivals, SignIn!FindToken(r) PROVE OneByOne'
<1>1. PICK t \in DOMAIN tokens :
          IF tokens[t] \in profiles
          THEN SignIn!Goes(r, "none", 0, 0) /\ account' = account \cup {tokens[t]}
          ELSE SignIn!Goes(r, "user", t, 0) /\ UNCHANGED account
    BY DEF SignIn!FindToken
<1>2. /\ request[r].at = "token"
      /\ UNCHANGED <<users, profiles, tokens, linking, signIns, met, unlinked, refused>>
    BY DEF SignIn!FindToken
<1>3. t = 1 /\ tokens # <<>>
    BY <1>1 DEF OneByOne, SignInTypes
<1>4. Present(r) /\ (profiles # {} \/ \A q \in Arrivals \ {r} : request[q] = SignIn!Absent)
    BY <1>2, OthersAbsent DEF Present, SignIn!Absent
<1>5. CASE tokens[t] \in profiles
    <2>1. /\ request' \in [Arrivals -> [at: Stages, token: {0, 1}, user: {0, 1}]]
          /\ request'[r] = SignIn!Absent /\ request'[r].at = "none"
          /\ \A q \in Arrivals \ {r} : request'[q] = request[q]
        BY <1>1, <1>5, RequestGoes DEF OneByOne, Stages, SignIn!Absent
    <2>2. account' \subseteq users
        BY <1>1, <1>5 DEF OneByOne, SignInTypes
    <2>3. SignInTypes'
        BY <1>2, <2>1, <2>2 DEF OneByOne, SignInTypes
    <2>4. Relies(r)'
        BY <2>1 DEF Relies, Present
    <2>5. Linked' /\ (refused => unlinked)'
        BY <1>2 DEF OneByOne, Linked
    <2> QED BY <1>2, <1>4, <2>1, <2>3, <2>4, <2>5, OneGoes
<1>6. CASE tokens[t] \notin profiles
    <2>1. /\ request' \in [Arrivals -> [at: Stages, token: {0, 1}, user: {0, 1}]]
          /\ request'[r].at = "user" /\ request'[r].token = 1
          /\ \A q \in Arrivals \ {r} : request'[q] = request[q]
        BY <1>1, <1>3, <1>6, RequestGoes DEF OneByOne, Stages
    <2>2. SignInTypes'
        BY <1>1, <1>2, <1>6, <2>1 DEF OneByOne, SignInTypes
    <2>3. ~unlinked => linking = {}
        BY <1>2 DEF OneByOne, Relies
    <2>4. ~unlinked => profiles = {}
        BY <1>3, <1>6, <2>3 DEF OneByOne, SignInTypes, Linked
    <2>5. Relies(r)'
        BY <1>1, <1>2, <1>3, <2>1, <2>3, <2>4 DEF Relies
    <2>6. Linked' /\ (refused => unlinked)'
        BY <1>2 DEF OneByOne, Linked
    <2> QED BY <1>2, <1>4, <2>1, <2>2, <2>5, <2>6, OneGoes
<1> QED BY <1>5, <1>6

LEMMA MissTokenOK ==
    ASSUME OneByOne, NEW r \in Arrivals, SignIn!MissToken(r) PROVE OneByOne'
<1>1. /\ SignIn!Goes(r, "newToken", 0, 0) /\ request[r].at = "token" /\ DOMAIN tokens = {}
      /\ UNCHANGED <<users, profiles, tokens, linking, account, unlinked, refused>>
    BY DEF SignIn!MissToken
<1>2. Present(r) /\ (profiles # {} \/ \A q \in Arrivals \ {r} : request[q] = SignIn!Absent)
    BY <1>1, OthersAbsent DEF Present, SignIn!Absent
<1>3. /\ request' \in [Arrivals -> [at: Stages, token: {0, 1}, user: {0, 1}]]
      /\ request'[r].at = "newToken"
      /\ \A q \in Arrivals \ {r} : request'[q] = request[q]
    BY <1>1, RequestGoes DEF OneByOne, Stages
<1>4. SignInTypes'
    BY <1>1, <1>3 DEF OneByOne, SignInTypes
<1>5. tokens = <<>>
    BY <1>1 DEF OneByOne, SignInTypes
<1>6. ~unlinked => linking = {} /\ profiles = {}
    BY <1>1, <1>5 DEF OneByOne, Relies, Linked
<1>7. Relies(r)'
    BY <1>1, <1>3, <1>5, <1>6 DEF Relies
<1>8. Linked' /\ (refused => unlinked)'
    BY <1>1 DEF OneByOne, Linked
<1> QED BY <1>1, <1>2, <1>3, <1>4, <1>7, <1>8, OneGoes

LEMMA SaveTokenOK ==
    ASSUME OneByOne, NEW r \in Arrivals, SignIn!SaveToken(r) PROVE OneByOne'
<1>1. request[r].at = "newToken" /\ tokens = <<>>
    BY DEF SignIn!SaveToken, OneByOne, Relies
<1>2. SignIn!Cardinality(DOMAIN tokens) = 0
    BY <1>1, FS_EmptySet, OneCardinality
<1>3. /\ tokens' = [u \in 1..1 |-> IF u = 1 THEN None ELSE tokens[u]]
      /\ SignIn!Goes(r, "user", 1, 0)
      /\ UNCHANGED <<users, profiles, linking, account, unlinked, refused>>
    BY <1>2 DEF SignIn!SaveToken
<1>4. Present(r) /\ (profiles # {} \/ \A q \in Arrivals \ {r} : request[q] = SignIn!Absent)
    BY <1>1, OthersAbsent DEF Present, SignIn!Absent
<1>5. /\ request' \in [Arrivals -> [at: Stages, token: {0, 1}, user: {0, 1}]]
      /\ request'[r].at = "user" /\ request'[r].token = 1
      /\ \A q \in Arrivals \ {r} : request'[q] = request[q]
    BY <1>3, RequestGoes DEF OneByOne, Stages
<1>6. tokens' \in [{1} -> {None}] /\ DOMAIN tokens' = {1} /\ DOMAIN tokens = {}
    BY <1>1, <1>3
<1>7. linking = {}
    BY <1>6 DEF OneByOne, SignInTypes
<1>8. SignInTypes'
    <2>1. tokens' \in [{1} -> users \cup {None}]
        BY <1>6
    <2> QED BY <1>3, <1>5, <1>7, <2>1 DEF OneByOne, SignInTypes
<1>9. profiles = {}
    BY <1>1 DEF OneByOne, Linked
<1>10. Relies(r)'
    BY <1>3, <1>5, <1>6, <1>7, <1>9 DEF Relies
<1>11. Linked' /\ (refused => unlinked)'
    BY <1>3, <1>9 DEF OneByOne, Linked
<1> QED BY <1>3, <1>4, <1>5, <1>8, <1>9, <1>10, <1>11, OneGoes

LEMMA FindUserOK ==
    ASSUME OneByOne, NEW r \in Arrivals, SignIn!FindUser(r) PROVE OneByOne'
<1>1. PICK u \in users : SignIn!Goes(r, "profile", request[r].token, u)
    BY DEF SignIn!FindUser, SignIn!Found
<1>2. /\ request[r].at = "user" /\ request[r].token \in DOMAIN tokens
      /\ request[r].token \in {0, 1} /\ u \in {0, 1}
      /\ UNCHANGED <<users, profiles, tokens, linking, account, unlinked, refused>>
    BY DEF SignIn!FindUser, OneByOne, SignInTypes, Relies
<1>3. Present(r) /\ (profiles # {} \/ \A q \in Arrivals \ {r} : request[q] = SignIn!Absent)
    BY <1>2, OthersAbsent DEF Present, SignIn!Absent
<1>4. /\ request' \in [Arrivals -> [at: Stages, token: {0, 1}, user: {0, 1}]]
      /\ request'[r].at = "profile" /\ request'[r].token = request[r].token
      /\ request'[r].user = u
      /\ \A q \in Arrivals \ {r} : request'[q] = request[q]
    BY <1>1, <1>2, RequestGoes DEF OneByOne, Stages
<1>5. SignInTypes'
    BY <1>2, <1>4 DEF OneByOne, SignInTypes
<1>6. Relies(r)'
    BY <1>2, <1>4 DEF OneByOne, Relies
<1>7. Linked' /\ (refused => unlinked)'
    BY <1>2 DEF OneByOne, Linked
<1> QED BY <1>2, <1>3, <1>4, <1>5, <1>6, <1>7, OneGoes

LEMMA MissUserOK ==
    ASSUME OneByOne, NEW r \in Arrivals, SignIn!MissUser(r) PROVE OneByOne'
<1>1. /\ request[r].at = "user" /\ users = {}
      /\ request[r].token \in DOMAIN tokens /\ request[r].token \in {0, 1}
      /\ SignIn!Goes(r, "newUser", request[r].token, 0)
      /\ UNCHANGED <<users, profiles, tokens, linking, account, unlinked, refused>>
    BY DEF SignIn!MissUser, SignIn!Found, OneByOne, SignInTypes, Relies
<1>2. Present(r) /\ (profiles # {} \/ \A q \in Arrivals \ {r} : request[q] = SignIn!Absent)
    BY <1>1, OthersAbsent DEF Present, SignIn!Absent
<1>3. /\ request' \in [Arrivals -> [at: Stages, token: {0, 1}, user: {0, 1}]]
      /\ request'[r].at = "newUser" /\ request'[r].token = request[r].token
      /\ \A q \in Arrivals \ {r} : request'[q] = request[q]
    BY <1>1, RequestGoes DEF OneByOne, Stages
<1>4. SignInTypes'
    BY <1>1, <1>3 DEF OneByOne, SignInTypes
<1>5. Relies(r)'
    BY <1>1, <1>3 DEF OneByOne, Relies
<1>6. Linked' /\ (refused => unlinked)'
    BY <1>1 DEF OneByOne, Linked
<1> QED BY <1>1, <1>2, <1>3, <1>4, <1>5, <1>6, OneGoes

LEMMA SaveUserOK ==
    ASSUME OneByOne, NEW r \in Arrivals, SignIn!SaveUser(r) PROVE OneByOne'
<1>1. /\ request[r].at = "newUser" /\ users = {}
      /\ request[r].token \in DOMAIN tokens /\ request[r].token \in {0, 1}
    BY DEF SignIn!SaveUser, OneByOne, SignInTypes, Relies
<1>2. SignIn!Cardinality(users) = 0
    BY <1>1, FS_EmptySet, OneCardinality
<1>3. /\ users' = {1}
      /\ SignIn!Goes(r, "profile", request[r].token, 1)
      /\ UNCHANGED <<profiles, tokens, linking, account, unlinked, refused>>
    BY <1>1, <1>2 DEF SignIn!SaveUser
<1>4. Present(r) /\ (profiles # {} \/ \A q \in Arrivals \ {r} : request[q] = SignIn!Absent)
    BY <1>1, OthersAbsent DEF Present, SignIn!Absent
<1>5. /\ request' \in [Arrivals -> [at: Stages, token: {0, 1}, user: {0, 1}]]
      /\ request'[r].at = "profile" /\ request'[r].token = request[r].token
      /\ request'[r].user = 1
      /\ \A q \in Arrivals \ {r} : request'[q] = request[q]
    BY <1>1, <1>3, RequestGoes DEF OneByOne, Stages
<1>6. profiles = {} /\ account = {} /\ linking = {}
    BY <1>1 DEF OneByOne, SignInTypes
<1>7. SignInTypes'
    <2>1. tokens = <<>> \/ tokens \in [{1} -> {1} \cup {None}]
        BY <1>1 DEF OneByOne, SignInTypes
    <2> QED BY <1>3, <1>5, <1>6, <2>1 DEF SignInTypes
<1>8. Relies(r)'
    BY <1>1, <1>3, <1>5, <1>6 DEF Relies
<1>9. Linked' /\ (refused => unlinked)'
    BY <1>3, <1>6 DEF OneByOne, Linked
<1> QED BY <1>3, <1>4, <1>5, <1>6, <1>7, <1>8, <1>9, OneGoes

LEMMA SaveProfileOK ==
    ASSUME OneByOne, NEW r \in Arrivals, SignIn!SaveProfile(r) PROVE OneByOne'
<1> DEFINE u == request[r].user
           link == [token |-> request[r].token, user |-> u]
<1>1. /\ request[r].at = "profile" /\ u \in users /\ u = 1
      /\ request[r].token \in DOMAIN tokens /\ request[r].token = 1 /\ tokens # <<>>
      /\ ~unlinked => profiles = {}
      /\ SignIn!Goes(r, "none", 0, 0)
      /\ UNCHANGED <<users, tokens, unlinked>>
    BY DEF SignIn!SaveProfile, OneByOne, SignInTypes, Relies
<1>2. Present(r) /\ (profiles # {} \/ \A q \in Arrivals \ {r} : request[q] = SignIn!Absent)
    BY <1>1, OthersAbsent DEF Present, SignIn!Absent
<1>3. /\ request' \in [Arrivals -> [at: Stages, token: {0, 1}, user: {0, 1}]]
      /\ request'[r] = SignIn!Absent /\ request'[r].at = "none"
      /\ \A q \in Arrivals \ {r} : request'[q] = request[q]
    BY <1>1, RequestGoes DEF OneByOne, Stages, SignIn!Absent
<1>4. Relies(r)'
    BY <1>3 DEF Relies, Present
<1>5. CASE u \in profiles
    <2>1. unlinked /\ UNCHANGED <<profiles, linking, account>>
        BY <1>1, <1>5 DEF SignIn!SaveProfile
    <2>2. SignInTypes'
        BY <1>1, <1>3, <2>1 DEF OneByOne, SignInTypes
    <2>3. Linked' /\ (refused => unlinked)'
        BY <1>1, <2>1 DEF Linked
    <2> QED BY <1>1, <1>2, <1>3, <1>4, <2>1, <2>2, <2>3, OneGoes
<1>6. CASE u \notin profiles
    <2>1. /\ profiles' = profiles \cup {u} /\ linking' = linking \cup {link}
          /\ account' = account \cup {u} /\ refused' = refused
        BY <1>6 DEF SignIn!SaveProfile
    <2>2. link \in [token: DOMAIN tokens, user: users]
        BY <1>1
    <2>3. SignInTypes'
        BY <1>1, <1>3, <2>1, <2>2 DEF OneByOne, SignInTypes
    <2>4. link = [token |-> 1, user |-> 1]
        BY <1>1
    <2>5. Linked'
        BY <1>1, <2>1, <2>4 DEF Linked
    <2>6. (refused => unlinked)'
        BY <1>1, <2>1 DEF OneByOne
    <2>7. profiles = {}
        BY <1>1, <1>6 DEF OneByOne, SignInTypes
    <2> QED BY <1>1, <1>2, <1>3, <1>4, <2>3, <2>5, <2>6, <2>7, OneGoes
<1> QED BY <1>5, <1>6

LEMMA FailOK == ASSUME OneByOne, NEW r \in Arrivals, SignIn!Fail(r) PROVE OneByOne'
<1>1. /\ Present(r) /\ SignIn!Goes(r, "none", 0, 0)
      /\ UNCHANGED <<users, profiles, tokens, linking, account, unlinked, refused>>
    BY DEF SignIn!Fail, Present
<1>2. profiles # {} \/ \A q \in Arrivals \ {r} : request[q] = SignIn!Absent
    BY <1>1, OthersAbsent
<1>3. /\ request' \in [Arrivals -> [at: Stages, token: {0, 1}, user: {0, 1}]]
      /\ request'[r] = SignIn!Absent /\ request'[r].at = "none"
      /\ \A q \in Arrivals \ {r} : request'[q] = request[q]
    BY <1>1, RequestGoes DEF OneByOne, Stages, SignIn!Absent
<1>4. SignInTypes'
    BY <1>1, <1>3 DEF OneByOne, SignInTypes
<1>5. Relies(r)' /\ Linked' /\ (refused => unlinked)'
    BY <1>1, <1>3 DEF OneByOne, Relies, Present, Linked
<1> QED BY <1>1, <1>2, <1>3, <1>4, <1>5, OneGoes

LEMMA LinkOK == ASSUME OneByOne, NEW link \in linking, SignIn!Link(link) PROVE OneByOne'
<1>1. /\ linking' = linking \ {link}
      /\ UNCHANGED <<users, profiles, request, account, refused>>
    BY DEF SignIn!Link
<1>2. link = [token |-> 1, user |-> 1] /\ users = {1} /\ tokens \in [{1} -> {1, None}]
    <2>1. link \in [token: DOMAIN tokens, user: users] /\ users \subseteq {1}
        BY DEF OneByOne, SignInTypes
    <2>2. users = {1} /\ link.user = 1 /\ link.token \in DOMAIN tokens
        BY <2>1
    <2>3. tokens \in [{1} -> {1} \cup {None}]
        BY <2>2 DEF OneByOne, SignInTypes
    <2>4. link.token = 1
        BY <2>2, <2>3
    <2> QED BY <2>1, <2>2, <2>3, <2>4
<1>3. CASE UNCHANGED unlinked /\ tokens' = [tokens EXCEPT ![link.token] = link.user]
    <2>1. tokens' \in [{1} -> {1, None}] /\ tokens'[1] = 1 /\ tokens' # <<>>
        BY <1>2, <1>3
    <2>2. SignInTypes'
        BY <1>1, <1>2, <2>1 DEF OneByOne, SignInTypes
    <2>3. ASSUME NEW r \in Arrivals PROVE Relies(r)'
        <3>1. request[r].at # "none" => unlinked
            BY DEF OneByOne, Relies
        <3>2. request[r].at # "newToken"
            BY <1>2 DEF OneByOne, Relies
        <3>3. request[r].token \in DOMAIN tokens => request[r].token \in DOMAIN tokens'
            BY <1>2, <2>1
        <3> QED BY <1>1, <1>3, <3>1, <3>2, <3>3 DEF OneByOne, Relies, Present
    <2>4. Linked' /\ (refused => unlinked)'
        BY <1>1, <1>3, <2>1 DEF OneByOne, Linked
    <2> QED BY <1>1, <2>2, <2>3, <2>4 DEF OneByOne, Present
<1>4. CASE unlinked' = TRUE /\ UNCHANGED tokens
    <2>1. SignInTypes'
        BY <1>1, <1>4 DEF OneByOne, SignInTypes
    <2>2. \A r \in Arrivals : Relies(r)'
        BY <1>1, <1>4 DEF OneByOne, Relies, Present
    <2> QED BY <1>1, <1>4, <2>1, <2>2 DEF OneByOne, Present, Linked
<1> QED BY <1>3, <1>4 DEF SignIn!Link

SignInInv == ~met => OneByOne

LEMMA SignInStep ==
    ASSUME SignInInv, SignIn!Next \/ UNCHANGED signInVars
    PROVE  SignInInv'
<1> SUFFICES ASSUME ~met' PROVE OneByOne'
    BY DEF SignInInv
<1>1. ASSUME NEW r \in Arrivals, SignIn!Verify(r) PROVE OneByOne'
    <2>1. ~met
        BY <1>1 DEF SignIn!Verify
    <2> QED BY <1>1, <2>1, VerifyOK DEF SignInInv
<1>2. CASE UNCHANGED signInVars
    BY <1>2 DEF signInVars, SignInInv, OneByOne, SignInTypes, Relies, Present, Linked
<1>3. ASSUME NEW r \in Arrivals,
             \/ SignIn!FindToken(r) \/ SignIn!MissToken(r) \/ SignIn!SaveToken(r)
             \/ SignIn!FindUser(r) \/ SignIn!MissUser(r) \/ SignIn!SaveUser(r)
             \/ SignIn!SaveProfile(r) \/ SignIn!Fail(r)
      PROVE  OneByOne'
    <2>1. ~met
        BY <1>3 DEF SignIn!FindToken, SignIn!MissToken, SignIn!SaveToken, SignIn!FindUser,
            SignIn!MissUser, SignIn!SaveUser, SignIn!SaveProfile, SignIn!Fail
    <2> QED BY <1>3, <2>1, FindTokenOK, MissTokenOK, SaveTokenOK, FindUserOK, MissUserOK,
            SaveUserOK, SaveProfileOK, FailOK DEF SignInInv
<1>4. ASSUME NEW link \in linking, SignIn!Link(link) PROVE OneByOne'
    <2>1. ~met
        BY <1>4 DEF SignIn!Link
    <2> QED BY <1>4, <2>1, LinkOK DEF SignInInv
<1> QED BY <1>1, <1>2, <1>3, <1>4 DEF SignIn!Next

\* An identity is signed in to one account, and no sign-in is refused while its
\* links are stored in time, however often and wherever sign-ins fail and however
\* many later ones are under way at once, as long as no two first ones are.
THEOREM OneAccountEach == Spec => []OneAccount
<1>1. Init => SignInInv
    BY SignInStart DEF Init, SignInInv
<1>2. SignInInv /\ [Next]_serviceVars => SignInInv'
    BY SignInStep, EachTakesItsOwnSteps
<1>3. SignInInv => OneAccount
    <2> SUFFICES ASSUME SignInInv, ~met
                 PROVE  SignIn!Cardinality(account) <= 1 /\ (refused => unlinked)
        BY DEF OneAccount, SignIn!OneAccount
    <2>1. \A u, v \in account : u = v
        BY DEF SignInInv, OneByOne, SignInTypes
    <2>2. SignIn!Cardinality(account) <= 1
        BY <2>1, AtMostOne, OneCardinality
    <2> QED BY <2>2 DEF SignInInv, OneByOne
<1> QED BY <1>1, <1>2, <1>3, PTL DEF Spec
-----------------------------------------------------------------------------
(* The maps of URLs. *)

Maps == (SUBSET Urls) \cup {None}

UrlTypes ==
    /\ known \in Maps /\ saved \in Maps
    /\ call \in [Calls -> [at: {"none", "reading", "listing", "working"},
                           url: Urls \cup {None}, brings: Maps]]
    /\ \A c \in Calls : call[c].at \in {"reading", "working"} => call[c].url \in Urls

\* A map holds what the cache holds, but for the URLs that are told apart, and
\* nothing else.
Agrees(m) ==
    /\ Caches!Map(saved) \ unsafe \subseteq Caches!Map(m)
    /\ Caches!Map(m) \subseteq Caches!Map(saved) \cup unsafe

\* A cold process knows nothing, and has asked for no page or image.
Cold == known = {} /\ \A c \in Calls : call[c].at # "working"

UrlInv ==
    /\ UrlTypes
    /\ IF cold THEN Cold ELSE Agrees(known)
    /\ \A c \in Calls : call[c].at \in {"reading", "listing"} => Agrees(call[c].brings)

LEMMA MapIs ==
    /\ None \in Maps /\ {} \in SUBSET Urls
    /\ \A m \in SUBSET Urls : m \in Maps
    /\ \A m \in Maps : m # None => m \in SUBSET Urls
<1>1. None \in Maps
    BY DEF Maps
<1>2. \A m \in SUBSET Urls : m \in Maps
    BY DEF Maps
<1>3. \A m \in Maps : m # None => m \in SUBSET Urls
    BY DEF Maps
<1> QED BY <1>1, <1>2, <1>3

LEMMA MapOfSet ==
    /\ \A m \in SUBSET Urls : m # None /\ Caches!Map(m) = m
    /\ \A m \in Maps : Caches!Map(m) \in SUBSET Urls
    /\ Caches!Map(None) = {}
<1>1. \A m \in SUBSET Urls : m # None /\ Caches!Map(m) = m
    BY ServicesOK DEF Caches!Map, UrlsOK
<1>2. Caches!Map(None) = {}
    BY DEF Caches!Map
<1>3. \A m \in Maps : Caches!Map(m) \in SUBSET Urls
    BY <1>1, <1>2, MapIs
<1> QED BY <1>1, <1>2, <1>3

LEMMA UrlInit == Caches!Init => UrlInv
<1> SUFFICES ASSUME Caches!Init PROVE UrlInv
    OBVIOUS
<1>1. /\ known = {} /\ saved = None /\ unsafe = {} /\ cold = TRUE
      /\ call = [c \in Calls |-> Caches!Quiet]
    BY DEF Caches!Init
<1>2. known \in Maps /\ saved \in Maps
    BY <1>1, MapIs
<1>3. \A c \in Calls : call[c].at = "none"
    BY <1>1 DEF Caches!Quiet
<1>4. call \in [Calls -> [at: {"none", "reading", "listing", "working"},
                        url: Urls \cup {None}, brings: Maps]]
    BY <1>1, MapIs DEF Caches!Quiet
<1> QED BY <1>1, <1>2, <1>3, <1>4 DEF UrlInv, UrlTypes, Cold

\* A request goes on: of the others nothing changes.
LEMMA CallGoes ==
    ASSUME UrlTypes, NEW c \in Calls, NEW at \in {"none", "reading", "listing", "working"},
           NEW url \in Urls \cup {None}, NEW brings \in Maps,
           at \in {"reading", "working"} => url \in Urls,
           call' = [call EXCEPT ![c] = [at |-> at, url |-> url, brings |-> brings]],
           known' \in Maps, saved' \in Maps
    PROVE  /\ UrlTypes'
           /\ call'[c].at = at /\ call'[c].brings = brings
           /\ \A d \in Calls \ {c} : call'[d] = call[d]
<1>1. [at |-> at, url |-> url, brings |-> brings]
          \in [at: {"none", "reading", "listing", "working"}, url: Urls \cup {None}, brings: Maps]
    OBVIOUS
<1>2. call' \in [Calls -> [at: {"none", "reading", "listing", "working"},
                           url: Urls \cup {None}, brings: Maps]]
    BY <1>1 DEF UrlTypes
<1>3. /\ call'[c] = [at |-> at, url |-> url, brings |-> brings]
      /\ \A d \in Calls \ {c} : call'[d] = call[d]
    BY DEF UrlTypes
<1>4. call'[c].at = at /\ call'[c].brings = brings /\ call'[c].url = url
    BY <1>3
<1> QED BY <1>2, <1>3, <1>4 DEF UrlTypes

\* Nothing is written: every map agrees as before.
LEMMA NothingWritten ==
    ASSUME UrlInv, NEW c \in Calls, UrlTypes', IF cold' THEN Cold' ELSE Agrees(known)',
           \A d \in Calls \ {c} : call'[d] = call[d],
           call'[c].at \in {"reading", "listing"} => Agrees(call'[c].brings),
           saved' = saved, unsafe \subseteq unsafe'
    PROVE  UrlInv' /\ Caches!KeptByOthers
<1>1. \A m : Agrees(m) => /\ Caches!Map(saved') \ unsafe' \subseteq Caches!Map(m)
                          /\ Caches!Map(m) \subseteq Caches!Map(saved') \cup unsafe'
    BY DEF Agrees
<1>2. \A d \in Calls : call'[d].at \in {"reading", "listing"} => Agrees(call'[d].brings)
    BY DEF UrlInv
<1>3. UrlInv'
    BY <1>1, <1>2 DEF UrlInv, Agrees, Cold
<1>4. Caches!KeptByOthers
    BY DEF Caches!KeptByOthers
<1> QED BY <1>3, <1>4

\* What is left of the map is written; whatever it loses is told apart.
LEMMA MapWritten ==
    ASSUME UrlInv, ~cold, ~cold', NEW c \in Calls, UrlTypes', NEW lost, NEW new \in SUBSET Urls,
           \A d \in Calls \ {c} : call'[d] = call[d],
           call'[c].at \in {"reading", "listing"} => call'[c].brings = saved',
           known' = saved', saved' \in SUBSET Urls, saved' = (known \ lost) \cup new,
           known \in SUBSET Urls, unsafe \cup (known \cap lost) \subseteq unsafe' \cup new,
           \/ new \subseteq unsafe' /\ unsafe \subseteq unsafe'
           \/ \A d \in Calls : call[d].at \notin {"reading", "listing"}
    PROVE  UrlInv' /\ Caches!KeptByOthers
<1>1. Caches!Map(known) = known /\ Caches!Map(saved') = saved'
    BY MapOfSet
<1>2. Agrees(known)'
    BY <1>1 DEF Agrees
<1>3. Caches!KeptByOthers
    BY <1>1 DEF Caches!KeptByOthers, UrlInv, Agrees
<1>4. ASSUME NEW d \in Calls, call'[d].at \in {"reading", "listing"}
      PROVE  Agrees(call[d].brings)'
    <2>1. CASE d = c
        BY <1>1, <1>2, <1>4, <2>1 DEF Agrees
    <2>2. CASE d # c
        <3>1. Agrees(call[d].brings)
            BY <1>4, <2>2 DEF UrlInv
        <3>2. new \subseteq unsafe' /\ unsafe \subseteq unsafe'
            BY <1>4, <2>2
        <3>3. Agrees(known) /\ call'[d].brings = call[d].brings
            BY <2>2 DEF UrlInv
        <3>4. Caches!Map(saved') \ unsafe' \subseteq Caches!Map(call[d].brings)
            BY <1>1, <3>1, <3>2, <3>3 DEF Agrees
        <3>5. Caches!Map(call[d].brings) \subseteq Caches!Map(saved') \cup unsafe'
            BY <1>1, <3>1, <3>2, <3>3 DEF Agrees
        <3> QED BY <3>3, <3>4, <3>5 DEF Agrees
    <2> QED BY <2>1, <2>2
<1> QED BY <1>2, <1>3, <1>4 DEF UrlInv

LEMMA UrlStep ==
    ASSUME UrlInv, Caches!Next \/ UNCHANGED urlVars
    PROVE  UrlInv' /\ (Caches!KeptByOthers \/ UNCHANGED urlVars)
<1>1. CASE UNCHANGED urlVars
    BY <1>1 DEF urlVars, UrlInv, UrlTypes, Agrees, Cold, Caches!Map
<1>2. ASSUME NEW s, Caches!Begin(s) PROVE UrlInv' /\ Caches!KeptByOthers
    BY <1>2 DEF Caches!Begin, UrlInv, UrlTypes, Agrees, Cold, Caches!Map, Caches!KeptByOthers
<1>3. ASSUME NEW c \in Calls, NEW url \in Urls, Caches!Ask(c, url)
      PROVE  UrlInv' /\ Caches!KeptByOthers
    <2>1. PICK m : m = Caches!Map(saved)
        OBVIOUS
    <2>2. /\ call' = [call EXCEPT ![c] = [at |-> "reading", url |-> url, brings |-> m]]
          /\ UNCHANGED <<known, saved, cold, unsafe>>
        BY <1>3, <2>1 DEF Caches!Ask
    <2>3. m \in SUBSET Urls /\ m \in Maps
        BY <2>1, MapIs, MapOfSet DEF UrlInv, UrlTypes
    <2>4. UrlTypes /\ known' \in Maps /\ saved' \in Maps /\ url \in Urls \cup {None}
        BY <2>2 DEF UrlInv, UrlTypes
    <2>5. /\ UrlTypes' /\ call'[c].at = "reading" /\ call'[c].brings = m
          /\ \A d \in Calls \ {c} : call'[d] = call[d]
        <3> DEFINE to == [at |-> "reading", url |-> url, brings |-> m]
        <3>1. to \in [at: {"none", "reading", "listing", "working"}, url: Urls \cup {None},
                      brings: Maps] /\ to.url \in Urls /\ to.at = "reading" /\ to.brings = m
            BY <2>3, <2>4
        <3>2. call' = [call EXCEPT ![c] = to]
            BY <2>2
        <3> HIDE DEF to
        <3>3. /\ call'[c] = to /\ \A d \in Calls \ {c} : call'[d] = call[d]
              /\ call' \in [Calls -> [at: {"none", "reading", "listing", "working"},
                                      url: Urls \cup {None}, brings: Maps]]
            BY <2>4, <3>1, <3>2 DEF UrlTypes
        <3> QED BY <2>4, <3>1, <3>3 DEF UrlTypes
    <2>6. Agrees(m)
        BY <2>1, <2>3, MapOfSet DEF Agrees
    <2>7. IF cold' THEN Cold' ELSE Agrees(known)'
        BY <2>2, <2>5 DEF UrlInv, Agrees, Cold
    <2> QED BY <2>2, <2>5, <2>6, <2>7, NothingWritten
<1>4. ASSUME NEW c \in Calls, Caches!Find(c) PROVE UrlInv' /\ Caches!KeptByOthers
    <2>1. /\ call[c].at = "reading" /\ known' = call[c].brings /\ cold' = FALSE
          /\ UNCHANGED <<saved, unsafe>>
          /\ \/ call' = [call EXCEPT ![c] = [at |-> "working", url |-> call[c].url, brings |-> None]]
             \/ call' = [call EXCEPT ![c] = Caches!Quiet]
        BY <1>4 DEF Caches!Find
    <2>2. UrlTypes /\ call[c].url \in Urls /\ known' \in Maps /\ saved' \in Maps /\ None \in Maps
        BY <2>1, MapIs DEF UrlInv, UrlTypes
    <2>3. /\ UrlTypes' /\ call'[c].at \in {"working", "none"}
          /\ \A d \in Calls \ {c} : call'[d] = call[d]
        BY <2>1, <2>2, CallGoes DEF Caches!Quiet
    <2>4. Agrees(known)'
        BY <2>1 DEF UrlInv, Agrees
    <2> QED BY <2>1, <2>3, <2>4, NothingWritten
<1>5. ASSUME NEW c \in Calls, Caches!Answered(c) PROVE UrlInv' /\ Caches!KeptByOthers
    <2> DEFINE url == call[c].url
    <2>1. /\ call[c].at = "working" /\ call' = [call EXCEPT ![c] = Caches!Quiet]
          /\ ~cold /\ ~cold'
        BY <1>5 DEF Caches!Answered, UrlInv, Cold
    <2>2. UrlTypes /\ url \in Urls /\ None \in Maps /\ known \in Maps /\ saved \in Maps
        BY <2>1, MapIs DEF UrlInv, UrlTypes
    <2>3. CASE known = None
        <3>1. UNCHANGED <<known, saved, unsafe>>
            BY <1>5, <2>3 DEF Caches!Answered
        <3>2. /\ UrlTypes' /\ call'[c].at = "none"
              /\ \A d \in Calls \ {c} : call'[d] = call[d]
            BY <2>1, <2>2, <3>1, CallGoes DEF Caches!Quiet
        <3>3. Agrees(known)'
            BY <2>1, <3>1 DEF UrlInv, Agrees
        <3> QED BY <2>1, <3>1, <3>2, <3>3, NothingWritten
    <2>4. CASE known # None
        <3>1. /\ known' = known \cup {url} /\ saved' = known'
              /\ unsafe' = IF Caches!Reading = {} THEN unsafe \ {url} ELSE unsafe \cup {url}
            BY <1>5, <2>4 DEF Caches!Answered, Caches!Written
        <3>2. known \in SUBSET Urls /\ saved' \in SUBSET Urls /\ saved' \in Maps /\ known' \in Maps
            BY <2>2, <2>4, <3>1, MapIs
        <3>3. /\ UrlTypes' /\ call'[c].at = "none"
              /\ \A d \in Calls \ {c} : call'[d] = call[d]
            BY <2>1, <2>2, <3>2, CallGoes DEF Caches!Quiet
        <3>4. {url} \in SUBSET Urls /\ saved' = (known \ {}) \cup {url}
            BY <2>2, <3>1
        <3>5. unsafe \cup (known \cap {}) \subseteq unsafe' \cup {url}
            BY <3>1
        <3>6. \/ {url} \subseteq unsafe' /\ unsafe \subseteq unsafe'
              \/ \A d \in Calls : call[d].at \notin {"reading", "listing"}
            BY <3>1 DEF Caches!Reading
        <3> HIDE DEF url
        <3> QED BY <2>1, <3>1, <3>2, <3>3, <3>4, <3>5, <3>6, MapWritten
    <2> QED BY <2>3, <2>4
<1>6. ASSUME NEW c \in Calls, Caches!Fails(c) PROVE UrlInv' /\ Caches!KeptByOthers
    <2> DEFINE url == call[c].url
    <2>1. /\ call[c].at = "working" /\ call' = [call EXCEPT ![c] = Caches!Quiet]
          /\ \/ known' = known
             \/ known # None /\ known' = known \ {url}
          /\ unsafe' = unsafe \cup (Caches!Map(known) \ Caches!Map(known'))
          /\ saved' = saved /\ ~cold /\ ~cold'
        BY <1>6 DEF Caches!Fails, UrlInv, Cold
    <2>2. UrlTypes /\ None \in Maps /\ known \in Maps /\ saved' \in Maps
        BY <2>1, MapIs DEF UrlInv, UrlTypes
    <2>3. known' \in Maps /\ Caches!Map(known') \subseteq Caches!Map(known)
        <3>1. CASE known' = known
            BY <2>2, <3>1
        <3>2. CASE known # None /\ known' = known \ {url}
            BY <2>2, <3>2, MapIs, MapOfSet
        <3> QED BY <2>1, <3>1, <3>2
    <2>4. /\ UrlTypes' /\ call'[c].at = "none"
          /\ \A d \in Calls \ {c} : call'[d] = call[d]
        BY <2>1, <2>2, <2>3, CallGoes DEF Caches!Quiet
    <2>5. Agrees(known)'
        BY <2>1, <2>3 DEF UrlInv, Agrees
    <2> QED BY <2>1, <2>4, <2>5, NothingWritten
<1>7. ASSUME NEW c \in Calls, Caches!List(c) PROVE UrlInv' /\ Caches!KeptByOthers
    <2>1. /\ call' = [call EXCEPT ![c] = [at |-> "listing", url |-> None, brings |-> saved]]
          /\ UNCHANGED <<known, saved, cold, unsafe>>
        BY <1>7 DEF Caches!List
    <2>2. /\ UrlTypes /\ known' \in Maps /\ saved' \in Maps /\ saved \in Maps
          /\ None \in Urls \cup {None}
        BY <2>1 DEF UrlInv, UrlTypes
    <2>3. /\ UrlTypes' /\ call'[c].at = "listing" /\ call'[c].brings = saved
          /\ \A d \in Calls \ {c} : call'[d] = call[d]
        <3>1. /\ "listing" \in {"none", "reading", "listing", "working"}
              /\ "listing" \in {"reading", "working"} => None \in Urls
            OBVIOUS
        <3> QED BY <2>1, <2>2, <3>1, CallGoes, ZenonT(60)
    <2>4. Agrees(saved)
        BY DEF Agrees
    <2>5. IF cold' THEN Cold' ELSE Agrees(known)'
        BY <2>1, <2>3 DEF UrlInv, Agrees, Cold
    <2> QED BY <2>1, <2>3, <2>4, <2>5, NothingWritten
<1>8. ASSUME NEW c \in Calls, Caches!Listed(c) PROVE UrlInv' /\ Caches!KeptByOthers
    <2>1. /\ call[c].at = "listing" /\ known' = call[c].brings
          /\ call' = [call EXCEPT ![c] = Caches!Quiet]
          /\ cold' = FALSE /\ UNCHANGED <<saved, unsafe>>
        BY <1>8 DEF Caches!Listed
    <2>2. UrlTypes /\ known' \in Maps /\ saved' \in Maps /\ None \in Maps
        BY <2>1, MapIs DEF UrlInv, UrlTypes
    <2>3. /\ UrlTypes' /\ call'[c].at = "none"
          /\ \A d \in Calls \ {c} : call'[d] = call[d]
        BY <2>1, <2>2, CallGoes DEF Caches!Quiet
    <2>4. Agrees(known)'
        BY <2>1 DEF UrlInv, Agrees
    <2> QED BY <2>1, <2>3, <2>4, NothingWritten
<1>9. ASSUME NEW c \in Calls, NEW left, known # None, left \subseteq known, Caches!Keep(c, left)
      PROVE  UrlInv' /\ Caches!KeptByOthers
    <2>1. /\ known' = left /\ saved' = left /\ cold' = FALSE
          /\ unsafe' = unsafe \cup Caches!Taken(left)
          /\ call' = [call EXCEPT ![c] = [at |-> "listing", url |-> None, brings |-> left]]
        BY <1>9 DEF Caches!Keep
    <2>2. UrlTypes /\ known \in SUBSET Urls /\ left \in SUBSET Urls /\ left \in Maps
        BY <1>9, MapIs DEF UrlInv, UrlTypes
    <2>3. Caches!Map(left) = left
        BY <2>2, MapOfSet
    <2>4. /\ UrlTypes' /\ call'[c].brings = left
          /\ \A d \in Calls \ {c} : call'[d] = call[d]
        <3>1. None \in Urls \cup {None} /\ known' \in Maps /\ saved' \in Maps
            BY <2>1, <2>2
        <3> QED BY <2>1, <2>2, <3>1, CallGoes
    <2>5. CASE ~cold
        <3>1. /\ left = (known \ (known \ left)) \cup {}
              /\ unsafe \cup (known \cap (known \ left)) \subseteq unsafe' \cup {}
              /\ {} \subseteq unsafe' /\ unsafe \subseteq unsafe' /\ {} \in SUBSET Urls
            BY <1>9, <2>1, <2>5 DEF Caches!Taken
        <3> QED BY <2>1, <2>2, <2>4, <2>5, <3>1, MapWritten
    <2>6. CASE cold
        <3>1. left = {} /\ unsafe' = unsafe \cup (Caches!Map(saved) \ {})
            BY <1>9, <2>1, <2>6 DEF Caches!Taken, UrlInv, Cold
        <3>2. Caches!Map(saved') = {} /\ Caches!Map(known') = {}
            BY <2>1, <2>3, <3>1
        <3>3. Caches!KeptByOthers
            BY <3>1 DEF Caches!KeptByOthers
        <3>4. Agrees(known)'
            BY <3>2 DEF Agrees
        <3>5. ASSUME NEW d \in Calls, call'[d].at \in {"reading", "listing"}
              PROVE  Agrees(call[d].brings)'
            <4>1. CASE d = c
                BY <2>1, <2>4, <3>2, <4>1 DEF Agrees
            <4>2. CASE d # c
                <5>1. Agrees(call[d].brings) /\ call'[d] = call[d]
                    BY <2>4, <3>5, <4>2 DEF UrlInv
                <5> QED BY <3>1, <3>2, <5>1 DEF Agrees
            <4> QED BY <4>1, <4>2
        <3> QED BY <2>1, <2>4, <3>3, <3>4, <3>5 DEF UrlInv
    <2> QED BY <2>5, <2>6
<1>10. ASSUME NEW c \in Calls, NEW url \in Urls, Caches!Delete(c, url)
       PROVE  UrlInv' /\ Caches!KeptByOthers
    BY <1>9, <1>10 DEF Caches!Delete
<1>11. ASSUME NEW c \in Calls, Caches!DeleteBulk(c) PROVE UrlInv' /\ Caches!KeptByOthers
    BY <1>9, <1>11 DEF Caches!DeleteBulk
<1>12. ASSUME Caches!Restart PROVE UrlInv' /\ Caches!KeptByOthers
    <2>1. /\ known' = {} /\ cold' = TRUE /\ saved' = saved
          /\ call' = [c \in Calls |-> Caches!Quiet]
        BY <1>12 DEF Caches!Restart
    <2>2. \A c \in Calls : call'[c] = Caches!Quiet /\ call'[c].at = "none"
        BY <2>1 DEF Caches!Quiet
    <2>3. call' \in [Calls -> [at: {"none", "reading", "listing", "working"},
                              url: Urls \cup {None}, brings: Maps]]
        BY <2>1, MapIs DEF Caches!Quiet
    <2>4. known' \in Maps /\ saved' \in Maps
        BY <2>1, MapIs DEF UrlInv, UrlTypes
    <2>5. UrlInv'
        BY <2>1, <2>2, <2>3, <2>4 DEF UrlInv, UrlTypes, Cold
    <2>6. Caches!KeptByOthers
        BY <2>1 DEF Caches!KeptByOthers
    <2> QED BY <2>5, <2>6
<1> QED BY <1>1, <1>2, <1>3, <1>4, <1>5, <1>6, <1>7, <1>8, <1>10, <1>11, <1>12 DEF Caches!Next

\* What the cache knows of a URL stays there, for any number of URLs, requests
\* and restarts of the process, but for the URLs that UrlCaches tells apart: among
\* them all those a removal wipes out that comes before anything was read.
THEOREM UrlsStay == Spec => UrlsSurvive
<1>1. Init => UrlInv
    BY UrlInit DEF Init
<1>2. UrlInv /\ [Next]_serviceVars => UrlInv' /\ [Caches!KeptByOthers]_Caches!urlVars
    BY UrlStep, EachTakesItsOwnSteps DEF urlVars, Caches!urlVars
<1> QED BY <1>1, <1>2, PTL DEF Spec, UrlsSurvive, Caches!UrlsSurvive

-----------------------------------------------------------------------------
(* The rate limit. *)

\* The tick from which on the count of window w may be gone.
GoneFrom(w) == (w + 2) * WindowTicks

\* A request is asked within its window, or before the count is raised.
AskedInTime == \A r \in Requests : Limit!UnderWay(r) => asked[r] * WindowTicks <= clock

\* Only a request that is under way still has to tell a key to expire.
RaisedAreUnderWay == \A r \in raised : Limit!UnderWay(r)

\* A key does not expire before two windows after the start of its own.
KeyLasts ==
    \A w \in Limit!Windows :
        counters[w].left # None => GoneFrom(w) <= clock + counters[w].left

\* As long as the key is there, the count is at least what it let through.
Counted ==
    \A w \in Limit!Windows : w \notin late =>
        /\ passed[w] <= MaxAllowed
        /\ clock < GoneFrom(w) => passed[w] <= counters[w].count

LimitInv == Limit!TypeOK /\ AskedInTime /\ RaisedAreUnderWay /\ KeyLasts /\ Counted
-----------------------------------------------------------------------------
(* Arithmetic of windows. *)

LEMMA WindowStart ==
    ASSUME NEW c \in Nat, NEW n \in Nat \ {0}
    PROVE  c \div n \in Nat /\ (c \div n) * n <= c
BY SMT

LEMMA WindowOrder ==
    ASSUME NEW c \in Nat, NEW m \in Nat, NEW n \in Nat \ {0}, c <= m
    PROVE  c \div n <= m \div n
BY SMT

LEMMA WindowEnd ==
    ASSUME NEW w \in Nat, NEW n \in Nat
    PROVE  (w + 2) * n = w * n + 2 * n /\ w * n \in Nat
BY SMT
-----------------------------------------------------------------------------
(* The steps. *)

LEMMA LimitInit == ASSUME LimitOK, Limit!Init PROVE LimitInv
<1>1. /\ Limit!Windows \subseteq Nat /\ \A w \in Limit!Windows : GoneFrom(w) \in Nat
    BY WindowEnd DEF Limit!Windows, GoneFrom, LimitOK
<1>2. Limit!TypeOK
    BY DEF Limit!Init, Limit!TypeOK, Limit!Unused, LimitOK
<1>3. AskedInTime /\ RaisedAreUnderWay /\ KeyLasts /\ Counted
    BY DEF Limit!Init, AskedInTime, RaisedAreUnderWay, KeyLasts, Counted, Limit!UnderWay, Limit!Unused, LimitOK
<1> QED BY <1>2, <1>3 DEF LimitInv

LEMMA LimitPassOK == ASSUME LimitOK, LimitInv, Limit!Pass PROVE LimitInv'
<1> DEFINE next(c) == IF c.left = None THEN c ELSE [c EXCEPT !.left = @ - 1]
<1>1. /\ clock \in Nat /\ clock + 1 <= MaxTicks /\ clock' = clock + 1
      /\ UNCHANGED <<asked, raised, passed, late>>
    BY DEF Limit!Pass, LimitInv, Limit!TypeOK, LimitOK
<1>2. ASSUME NEW w \in Limit!Windows
      PROVE  \/ counters[w].left = None /\ counters'[w] = counters[w]
             \/ counters[w].left = 1 /\ counters'[w] = Limit!Unused
             \/ /\ counters[w].left \in 2..Limit!Kept
                /\ counters'[w].left = counters[w].left - 1
                /\ counters'[w] \in [count: Nat, left: 1..Limit!Kept \cup {None}]
                /\ counters'[w].count = counters[w].count
    <2>1. counters[w] \in [count: Nat, left: 1..Limit!Kept \cup {None}]
        BY DEF LimitInv, Limit!TypeOK
    <2>2. counters'[w] = IF Limit!Expired(next(counters[w])) THEN Limit!Unused ELSE next(counters[w])
        BY DEF Limit!Pass
    <2>3. Limit!Kept \in Nat /\ None \notin Nat
        BY DEF Limit!Kept, LimitOK
    <2>4. CASE counters[w].left = None
        BY <2>1, <2>2, <2>3, <2>4 DEF Limit!Expired
    <2>5. CASE counters[w].left = 1
        BY <2>1, <2>2, <2>3, <2>5 DEF Limit!Expired
    <2>6. CASE counters[w].left \in 2..Limit!Kept
        BY <2>1, <2>2, <2>3, <2>6 DEF Limit!Expired
    <2> QED BY <2>1, <2>3, <2>4, <2>5, <2>6
<1>3. counters' \in [Limit!Windows -> [count: Nat, left: 1..Limit!Kept \cup {None}]]
    <2>1. counters' = [w \in Limit!Windows |-> counters'[w]]
        BY DEF Limit!Pass
    <2>2. \A w \in Limit!Windows : counters'[w] \in [count: Nat, left: 1..Limit!Kept \cup {None}]
        BY <1>2 DEF LimitInv, Limit!TypeOK, Limit!Unused
    <2> QED BY <2>1, <2>2
<1>4. Limit!TypeOK'
    BY <1>1, <1>3 DEF LimitInv, Limit!TypeOK, LimitOK, Limit!Windows
<1>5. AskedInTime' /\ RaisedAreUnderWay'
    <2>1. \A r \in Requests : Limit!UnderWay(r) => asked[r] * WindowTicks \in Nat
        BY WindowEnd DEF LimitInv, Limit!TypeOK, Limit!UnderWay, Limit!Windows, LimitOK
    <2> QED BY <1>1, <2>1 DEF LimitInv, AskedInTime, RaisedAreUnderWay, Limit!UnderWay
<1>6. \A w \in Limit!Windows : GoneFrom(w) \in Nat
    BY WindowEnd DEF GoneFrom, Limit!Windows, LimitOK
<1>7. KeyLasts'
    <2> SUFFICES ASSUME NEW w \in Limit!Windows, counters'[w].left # None
                 PROVE  GoneFrom(w) <= clock' + counters'[w].left
        BY DEF KeyLasts, Limit!Windows, GoneFrom
    <2>1. counters[w].left \in 2..Limit!Kept /\ counters'[w].left = counters[w].left - 1
        BY <1>2 DEF Limit!Unused
    <2>2. GoneFrom(w) <= clock + counters[w].left
        BY <2>1 DEF LimitInv, KeyLasts, LimitOK
    <2> QED BY <1>1, <1>6, <2>1, <2>2 DEF Limit!Kept, LimitOK
<1>8. Counted'
    <2> SUFFICES ASSUME NEW w \in Limit!Windows, w \notin late
                 PROVE  /\ passed[w] <= MaxAllowed
                        /\ clock' < GoneFrom(w) => passed[w] <= counters'[w].count
        BY <1>1 DEF Counted, Limit!Windows, GoneFrom
    <2>1. /\ passed[w] <= MaxAllowed
          /\ clock < GoneFrom(w) => passed[w] <= counters[w].count
        BY DEF LimitInv, Counted
    <2>2. ASSUME clock' < GoneFrom(w) PROVE counters'[w].count = counters[w].count
        <3>1. counters[w].left # 1
            BY <1>1, <1>6, <2>2 DEF LimitInv, KeyLasts, LimitOK
        <3> QED BY <1>2, <3>1
    <2> QED BY <1>1, <1>6, <2>1, <2>2
<1> QED BY <1>4, <1>5, <1>7, <1>8 DEF LimitInv

LEMMA LimitAskOK == ASSUME LimitOK, LimitInv, NEW r \in Requests, Limit!Ask(r) PROVE LimitInv'
<1> DEFINE w == clock \div WindowTicks
<1>1. clock \in Nat /\ clock <= MaxTicks /\ MaxTicks \in Nat /\ WindowTicks \in Nat \ {0}
    BY DEF LimitInv, Limit!TypeOK, LimitOK
<1>2. w \in Limit!Windows /\ w * WindowTicks <= clock
    BY <1>1, WindowStart, WindowOrder DEF Limit!Windows
<1>3. /\ asked' = [asked EXCEPT ![r] = w]
      /\ UNCHANGED <<clock, counters, raised, passed, late>>
    BY DEF Limit!Ask
<1>4. Limit!TypeOK'
    BY <1>2, <1>3 DEF LimitInv, Limit!TypeOK
<1>5. AskedInTime' /\ RaisedAreUnderWay'
    <2>1. w \notin {None, Done}
        BY <1>2 DEF Limit!Windows, LimitOK
    <2>2. r \notin raised
        BY DEF Limit!Ask, LimitInv, RaisedAreUnderWay, Limit!UnderWay
    <2> HIDE DEF w
    <2> QED BY <1>2, <1>3, <2>1, <2>2 DEF LimitInv, Limit!TypeOK, AskedInTime, RaisedAreUnderWay, Limit!UnderWay
<1>6. KeyLasts' /\ Counted'
    BY <1>3 DEF LimitInv, KeyLasts, Counted, Limit!Windows, GoneFrom
<1> QED BY <1>4, <1>5, <1>6 DEF LimitInv

LEMMA LimitRaiseOK == ASSUME LimitOK, LimitInv, NEW r \in Requests, Limit!Raise(r) PROVE LimitInv'
<1> DEFINE w == asked[r]
           next == counters[w].count + 1
<1>1. /\ w \in Limit!Windows /\ w \in Nat /\ r \notin raised /\ Limit!UnderWay(r)
      /\ counters[w] \in [count: Nat, left: 1..Limit!Kept \cup {None}]
      /\ next \in Nat /\ passed[w] \in Nat /\ clock \in Nat /\ MaxAllowed \in Nat
    BY DEF Limit!Raise, LimitInv, Limit!TypeOK, Limit!UnderWay, Limit!Windows, LimitOK
<1>2. /\ counters' = [counters EXCEPT ![w] = [counters[w] EXCEPT !.count = next]]
      /\ passed' = IF next <= MaxAllowed THEN [passed EXCEPT ![w] = passed[w] + 1] ELSE passed
      /\ late' = IF clock >= GoneFrom(w) THEN late \cup {w} ELSE late
      /\ clock' = clock
    BY <1>1 DEF Limit!Raise, GoneFrom, LimitInv, Limit!TypeOK
<1>3. \/ raised' = raised \cup {r} /\ asked' = asked
      \/ raised' = raised /\ asked' = [asked EXCEPT ![r] = Done]
    BY DEF Limit!Raise
<1> HIDE DEF w, next
<1>4. [counters[w] EXCEPT !.count = next] \in [count: Nat, left: 1..Limit!Kept \cup {None}]
    BY <1>1
<1>5. Limit!TypeOK'
    <2>1. counters' \in [Limit!Windows -> [count: Nat, left: 1..Limit!Kept \cup {None}]]
        BY <1>1, <1>2, <1>4 DEF LimitInv, Limit!TypeOK
    <2>2. passed' \in [Limit!Windows -> Nat] /\ late' \subseteq Limit!Windows
        BY <1>1, <1>2 DEF LimitInv, Limit!TypeOK
    <2>3. asked' \in [Requests -> Limit!Windows \cup {None, Done}] /\ raised' \subseteq Requests
        BY <1>3 DEF LimitInv, Limit!TypeOK
    <2> QED BY <1>2, <2>1, <2>2, <2>3 DEF LimitInv, Limit!TypeOK
<1>6. AskedInTime' /\ RaisedAreUnderWay'
    BY <1>1, <1>2, <1>3 DEF LimitInv, Limit!TypeOK, AskedInTime, RaisedAreUnderWay, Limit!UnderWay
<1>7. \A v \in Limit!Windows : counters'[v].left = counters[v].left
    BY <1>1, <1>2 DEF LimitInv, Limit!TypeOK
<1>8. KeyLasts'
    BY <1>2, <1>7 DEF LimitInv, KeyLasts, Limit!Windows, GoneFrom
<1>9. Counted'
    <2> SUFFICES ASSUME NEW v \in Limit!Windows, v \notin late'
                 PROVE  /\ passed'[v] <= MaxAllowed
                        /\ clock < GoneFrom(v) => passed'[v] <= counters'[v].count
        BY <1>2 DEF Counted, Limit!Windows, GoneFrom
    <2>1. /\ passed[v] <= MaxAllowed
          /\ clock < GoneFrom(v) => passed[v] <= counters[v].count
        BY <1>2 DEF LimitInv, Counted
    <2>2. CASE v # w
        BY <1>1, <1>2, <2>1, <2>2 DEF LimitInv, Limit!TypeOK
    <2>3. CASE v = w
        <3>1. GoneFrom(w) \in Nat
            BY <1>1, WindowEnd DEF GoneFrom, LimitOK
        <3>2. clock < GoneFrom(w)
            BY <1>1, <1>2, <2>3, <3>1
        <3>3. counters'[w].count = next /\ passed[w] <= counters[w].count
            BY <1>1, <1>2, <2>1, <2>3, <3>2 DEF LimitInv, Limit!TypeOK
        <3>4. next = counters[w].count + 1 /\ counters[w].count \in Nat
            BY <1>1 DEF next
        <3>5. CASE next <= MaxAllowed
            <4>1. passed'[w] = passed[w] + 1
                BY <1>1, <1>2, <3>5 DEF LimitInv, Limit!TypeOK
            <4> QED BY <1>1, <2>3, <3>3, <3>4, <3>5, <4>1
        <3>6. CASE ~(next <= MaxAllowed)
            BY <1>1, <1>2, <2>1, <2>3, <3>3, <3>4, <3>6
        <3> QED BY <3>5, <3>6
    <2> QED BY <2>2, <2>3
<1> QED BY <1>5, <1>6, <1>8, <1>9 DEF LimitInv

LEMMA LimitExpireOK == ASSUME LimitOK, LimitInv, NEW r \in Requests, Limit!Expire(r) PROVE LimitInv'
<1> DEFINE w == asked[r]
<1>1. /\ w \in Limit!Windows /\ w \in Nat /\ r \in raised
      /\ counters[w] \in [count: Nat, left: 1..Limit!Kept \cup {None}]
      /\ clock \in Nat /\ w * WindowTicks <= clock
      /\ WindowTicks \in Nat /\ Limit!Kept = 2 * WindowTicks /\ Limit!Kept \in 1..Limit!Kept
    BY DEF Limit!Expire, LimitInv, Limit!TypeOK, RaisedAreUnderWay, AskedInTime, Limit!UnderWay, Limit!Windows, Limit!Kept,
           LimitOK
<1>2. /\ counters' = [counters EXCEPT ![w] = [counters[w] EXCEPT !.left = Limit!Kept]]
      /\ raised' = raised \ {r} /\ asked' = [asked EXCEPT ![r] = Done]
      /\ UNCHANGED <<clock, passed, late>>
    BY <1>1 DEF Limit!Expire, LimitInv, Limit!TypeOK
<1> HIDE DEF w
<1>3. [counters[w] EXCEPT !.left = Limit!Kept] \in [count: Nat, left: 1..Limit!Kept \cup {None}]
    BY <1>1
<1>4. Limit!TypeOK'
    BY <1>1, <1>2, <1>3 DEF LimitInv, Limit!TypeOK
<1>5. AskedInTime' /\ RaisedAreUnderWay'
    BY <1>2 DEF LimitInv, Limit!TypeOK, AskedInTime, RaisedAreUnderWay, Limit!UnderWay
<1>6. GoneFrom(w) <= clock + Limit!Kept
    <2>1. GoneFrom(w) = w * WindowTicks + Limit!Kept /\ w * WindowTicks \in Nat
        BY <1>1, WindowEnd DEF GoneFrom
    <2> QED BY <1>1, <2>1
<1>7. KeyLasts' /\ Counted'
    <2>1. \A v \in Limit!Windows : counters'[v].count = counters[v].count
        BY <1>1, <1>2 DEF LimitInv, Limit!TypeOK
    <2>2. /\ counters'[w].left = Limit!Kept
          /\ \A v \in Limit!Windows \ {w} : counters'[v].left = counters[v].left
        BY <1>1, <1>2 DEF LimitInv, Limit!TypeOK
    <2>3. KeyLasts'
        BY <1>1, <1>2, <1>6, <2>2 DEF LimitInv, KeyLasts, Limit!Windows, GoneFrom
    <2>4. Counted'
        BY <1>2, <2>1 DEF LimitInv, Counted, Limit!Windows, GoneFrom
    <2> QED BY <2>3, <2>4
<1> QED BY <1>4, <1>5, <1>7 DEF LimitInv

LEMMA LimitCacheFailsOK ==
    ASSUME LimitOK, LimitInv, NEW r \in Requests, Limit!CacheFails(r) PROVE LimitInv'
<1>1. Limit!TypeOK'
    BY DEF Limit!CacheFails, LimitInv, Limit!TypeOK
<1>2. AskedInTime' /\ RaisedAreUnderWay'
    BY DEF Limit!CacheFails, LimitInv, Limit!TypeOK, AskedInTime, RaisedAreUnderWay, Limit!UnderWay
<1>3. KeyLasts' /\ Counted'
    BY DEF Limit!CacheFails, LimitInv, KeyLasts, Counted, Limit!Windows, GoneFrom
<1> QED BY <1>1, <1>2, <1>3 DEF LimitInv

LEMMA LimitStutter == ASSUME LimitInv, UNCHANGED limitVars PROVE LimitInv'
BY DEF limitVars, LimitInv, Limit!TypeOK, AskedInTime, RaisedAreUnderWay, KeyLasts, Counted, Limit!UnderWay,
       Limit!Windows, GoneFrom

LEMMA LimitStep == ASSUME LimitOK, LimitInv, [Next]_serviceVars PROVE LimitInv'
<1>1. Limit!Next \/ UNCHANGED limitVars
    BY EachTakesItsOwnSteps
<1> QED BY <1>1, LimitPassOK, LimitAskOK, LimitRaiseOK, LimitExpireOK, LimitCacheFailsOK, LimitStutter DEF Limit!Next

\* Of a window's requests the count lets no more than the limit through,
\* for every limit and any number of requests, in whatever order the commands
\* of core/cache.ts reach the cache server and whichever of them fail; those
\* that come a window late excepted.
THEOREM WindowsHold == Spec => []WindowHolds
<1>1. LimitInv => WindowHolds
    BY DEF LimitInv, Counted, WindowHolds, Limit!WindowHolds
<1>2. Init => LimitInv
    BY LimitInit, ServicesOK DEF Init, ServicesOK
<1>3. LimitInv /\ [Next]_serviceVars => LimitInv'
    BY LimitStep, ServicesOK DEF ServicesOK
<1> QED BY <1>1, <1>2, <1>3, PTL DEF Spec

-----------------------------------------------------------------------------
(* Embedding: a vector in the cache is the one its key names. *)

VectorsKept ==
    DOMAIN cached = Embed!Vectors /\ \A key \in Embed!Vectors : cached[key] \in {key, None}

CallKnown == \A i \in DOMAIN out : [text |-> texts[i], task |-> task] \in Embed!Vectors

EmbedInv == VectorsKept /\ CallKnown /\ Embed!EmbedAligned

LEMMA EmbedCallOK ==
    ASSUME EmbedInv, Embed!Embed
    PROVE  EmbedInv'
<1>1. PICK seq \in Embed!SeqOf(Texts, MaxInput), t \in Tasks :
          texts' = seq /\ task' = t /\ Embed!Read(seq, t) /\ UNCHANGED cached
    BY DEF Embed!Embed
<1>2. \A i \in DOMAIN seq : seq[i] \in Texts
    BY <1>1 DEF Embed!SeqOf
<1>3. PICK hit \in SUBSET Embed!ToSet(seq) :
        LET vector(x) == IF x \in hit THEN cached[Embed!Key(x, t)] ELSE None IN
        /\ out' = [i \in DOMAIN seq |-> vector(seq[i])]
        /\ missing' = {i \in DOMAIN seq : vector(seq[i]) = None}
    BY <1>1 DEF Embed!Read
<1>4. ASSUME NEW i \in DOMAIN out'
      PROVE  /\ out'[i] # None => out'[i] = [text |-> texts'[i], task |-> task']
             /\ out'[i] = None => i \in missing'
    <2>1. i \in DOMAIN seq /\ Embed!Key(seq[i], t) \in Embed!Vectors
        BY <1>2, <1>3 DEF Embed!Key, Embed!Vectors
    <2>2. cached[Embed!Key(seq[i], t)] \in {Embed!Key(seq[i], t), None}
        BY <2>1 DEF EmbedInv, VectorsKept
    <2> QED BY <1>1, <1>3, <2>1, <2>2 DEF Embed!Key
<1>5. Embed!EmbedAligned'
    BY <1>4 DEF Embed!EmbedAligned
<1>6. ASSUME NEW i \in DOMAIN out'
      PROVE  [text |-> texts'[i], task |-> task'] \in Embed!Vectors
    <2>1. i \in DOMAIN seq
        BY <1>3
    <2> QED BY <1>1, <1>2, <2>1 DEF Embed!Vectors
<1>7. CallKnown'
    BY <1>6 DEF CallKnown
<1> QED BY <1>1, <1>5, <1>7 DEF EmbedInv, VectorsKept

LEMMA BatchReturnsOK ==
    ASSUME EmbedInv, Embed!BatchReturns
    PROVE  EmbedInv'
<1>1. PICK n \in 0..Embed!Cardinality(Embed!Firsts) :
        /\ out' = Embed!Place(n)
        /\ short' = short \cup {i \in Embed!Batch : texts[i] \notin Embed!Answered(n)}
        /\ \E arrived \in SUBSET Embed!Answered(n) : cached' = Embed!Stored(arrived)
    BY DEF Embed!BatchReturns
<1>2. missing' = missing \ Embed!Batch /\ texts' = texts /\ task' = task
    BY DEF Embed!BatchReturns
<1>3. PICK arrived \in SUBSET Embed!Answered(n) : cached' = Embed!Stored(arrived)
    BY <1>1
<1>4. DOMAIN cached' = Embed!Vectors
    BY <1>3 DEF Embed!Stored, EmbedInv, VectorsKept
<1>5. ASSUME NEW key \in Embed!Vectors PROVE cached'[key] \in {key, None}
    <2>1. cached[key] \in {key, None} /\ key \in DOMAIN cached
        BY DEF EmbedInv, VectorsKept
    <2>2. CASE cached[key] = None /\ \E x \in arrived : Embed!Key(x, task) = key
        <3>1. Embed!Key(CHOOSE x \in arrived : Embed!Key(x, task) = key, task) = key
            BY <2>2
        <3>2. cached'[key] = Embed!Key(CHOOSE x \in arrived : Embed!Key(x, task) = key, task)
            BY <1>3, <2>1, <2>2 DEF Embed!Stored, Embed!Key
        <3> QED BY <3>1, <3>2
    <2>3. CASE ~(cached[key] = None /\ \E x \in arrived : Embed!Key(x, task) = key)
        BY <1>3, <2>1, <2>3 DEF Embed!Stored
    <2> QED BY <2>2, <2>3
<1>6. ASSUME NEW i \in DOMAIN out'
      PROVE  /\ out'[i] # None => out'[i] = [text |-> texts'[i], task |-> task']
             /\ out'[i] = None /\ i \notin missing' => i \in short'
    <2>1. i \in DOMAIN out
        BY <1>1 DEF Embed!Place
    <2>2. CASE i \in Embed!Batch
        <3>1. [text |-> texts[i], task |-> task] # None
            BY <2>1, ServicesOK DEF ServicesOK, EmbeddingOK, EmbedInv, CallKnown, Embed!Vectors
        <3>2. out'[i] = IF texts[i] \in Embed!Answered(n) THEN [text |-> texts[i], task |-> task] ELSE None
            BY <1>1, <2>1, <2>2 DEF Embed!Place
        <3> QED BY <1>1, <1>2, <2>2, <3>1, <3>2
    <2>3. CASE i \notin Embed!Batch
        BY <1>1, <1>2, <2>1, <2>3 DEF Embed!Place, EmbedInv, Embed!EmbedAligned
    <2> QED BY <2>2, <2>3
<1>7. Embed!EmbedAligned'
    BY <1>6 DEF Embed!EmbedAligned
<1>8. CallKnown'
    BY <1>1, <1>2 DEF Embed!Place, EmbedInv, CallKnown
<1> QED BY <1>4, <1>5, <1>7, <1>8 DEF EmbedInv, VectorsKept

LEMMA EmbedStep ==
    ASSUME EmbedInv, Embed!Next \/ UNCHANGED embeddingVars
    PROVE  EmbedInv'
<1>1. CASE UNCHANGED embeddingVars
    BY <1>1 DEF embeddingVars, EmbedInv, VectorsKept, CallKnown, Embed!EmbedAligned
<1>2. CASE Embed!BatchFails
    BY <1>2 DEF Embed!BatchFails, EmbedInv, VectorsKept, CallKnown, Embed!EmbedAligned
<1>3. CASE Embed!Return
    BY <1>3 DEF Embed!Return, EmbedInv, VectorsKept, CallKnown, Embed!EmbedAligned
<1>4. ASSUME NEW t \in Tasks, Embed!Expire(t) PROVE EmbedInv'
    BY <1>4 DEF Embed!Expire, EmbedInv, VectorsKept, CallKnown, Embed!EmbedAligned
<1> QED BY <1>1, <1>2, <1>3, <1>4, EmbedCallOK, BatchReturnsOK DEF Embed!Next

\* Every vector is that of the text at its place, whatever of the cache is read or
\* lost and however many vectors of a batch come back (embedding.embed); a place
\* stays empty only when its own batch failed or came back without it.
THEOREM VectorsAlign == Spec => []EmbedAligned
<1>1. Init => EmbedInv
    BY DEF Init, Embed!Init, EmbedInv, VectorsKept, CallKnown, Embed!EmbedAligned
<1>2. EmbedInv /\ [Next]_serviceVars => EmbedInv'
    BY EmbedStep, EachTakesItsOwnSteps
<1>3. EmbedInv => EmbedAligned
    BY DEF EmbedInv, EmbedAligned
<1> QED BY <1>1, <1>2, <1>3, PTL DEF Spec

-----------------------------------------------------------------------------
(* TableCopy: ids in order. *)

\* Every set of numbers that is not empty has a least one.
LEMMA LeastNumber ==
    ASSUME NEW S \in SUBSET Nat, S # {}
    PROVE  \E x \in S : \A y \in S : x <= y
<1> DEFINE less == {pair \in Nat \X Nat : pair[1] < pair[2]}
<1>1. IsWellFoundedOn(less, Nat)
    BY NatLessThanWellFounded DEF OpToRel
<1>2. PICK x \in S : \A y \in S : ~(<<y, x>> \in less)
    <2>1. S \subseteq Nat
        OBVIOUS
    <2> HIDE DEF less
    <2> QED BY <1>1, <2>1, WFMin
<1>3. ASSUME NEW y \in S PROVE x <= y
    <2>1. x \in Nat /\ y \in Nat
        OBVIOUS
    <2>2. ~(<<y, x>> \in less)
        BY <1>2
    <2>3. ~(y < x)
        BY <2>1, <2>2
    <2> QED BY <2>1, <2>3
<1> QED BY <1>3

\* A set of numbers that is finite and not empty has a greatest one.
LEMMA GreatestNumber ==
    ASSUME NEW S \in SUBSET Nat, S # {}, IsFiniteSet(S)
    PROVE  \E x \in S : \A y \in S : x >= y
<1> DEFINE above(x) == {y \in S : y > x}
           sizes == {Cardinality(above(x)) : x \in S}
<1>1. \A x \in S : IsFiniteSet(above(x)) /\ Cardinality(above(x)) \in Nat
    <2> TAKE x \in S
    <2>1. above(x) \in SUBSET S
        OBVIOUS
    <2> QED BY <2>1, FS_Subset, FS_CardinalityType
<1>2. sizes \in SUBSET Nat /\ sizes # {}
    BY <1>1
<1>3. PICK n \in sizes : \A m \in sizes : n <= m
    BY <1>2, LeastNumber
<1>4. PICK x \in S : n = Cardinality(above(x))
    BY <1>3
<1>5. ASSUME NEW y \in S, y > x PROVE FALSE
    <2>0. \A z \in S : z \in Nat
        OBVIOUS
    <2>1. y \in above(x) /\ y \notin above(y)
        BY <1>5, <2>0
    <2>4. ASSUME NEW z \in above(y) PROVE z \in above(x)
        <3>1. z \in Nat /\ y \in Nat /\ x \in Nat /\ z > y /\ z \in S
            BY <2>0
        <3>2. z > x
            BY <1>5, <3>1
        <3> QED BY <3>1, <3>2
    <2>5. above(y) \in SUBSET above(x)
        BY <2>4
    <2>2. IsFiniteSet(above(x)) /\ Cardinality(above(x)) \in Nat /\ Cardinality(above(y)) \in Nat
        BY <1>1
    <2>3. Cardinality(above(y)) <= Cardinality(above(x)) /\ Cardinality(above(y)) # Cardinality(above(x))
        BY <2>1, <2>2, <2>5, FS_Subset
    <2>6. Cardinality(above(x)) <= Cardinality(above(y))
        BY <1>3, <1>4
    <2> QED BY <2>2, <2>3, <2>6
<1> QED BY <1>5

\* That is the one that Max finds.
LEMMA MaxIs ==
    ASSUME NEW S \in SUBSET Nat, S # {}, IsFiniteSet(S)
    PROVE  Copy!Max(S) \in S /\ Copy!Max(S) \in Nat /\ \A x \in S : x <= Copy!Max(S)
<1>1. \E x \in S : \A y \in S : x >= y
    BY GreatestNumber
<1>2. Copy!Max(S) \in S /\ \A y \in S : Copy!Max(S) >= y
    BY <1>1 DEF Copy!Max
<1>3. \A y \in S : y \in Nat
    OBVIOUS
<1> QED BY <1>2, <1>3

\* How many ids come before one.
LEMMA RankIs ==
    ASSUME NEW S \in SUBSET Nat, IsFiniteSet(S), NEW i \in Nat
    PROVE  /\ Copy!Rank(i, S) = Cardinality({j \in S : j < i})
           /\ IsFiniteSet({j \in S : j < i})
           /\ Copy!Rank(i, S) \in Nat
<1>1. Copy!Rank(i, S) = Cardinality({j \in S : j < i})
    BY DEF Copy!Rank, Copy!Cardinality, Cardinality
<1>2. {j \in S : j < i} \in SUBSET S
    OBVIOUS
<1> QED BY <1>1, <1>2, FS_Subset, FS_CardinalityType

\* More come before a later one.
LEMMA RankGrows ==
    ASSUME NEW S \in SUBSET Nat, IsFiniteSet(S), NEW i \in S, NEW j \in S, i < j
    PROVE  Copy!Rank(i, S) < Copy!Rank(j, S)
<1> DEFINE before(x) == {k \in S : k < x}
<1>0. i \in Nat /\ j \in Nat /\ \A k \in S : k \in Nat
    OBVIOUS
<1>1. ASSUME NEW k \in before(i) PROVE k \in before(j)
    <2>1. k \in Nat /\ k < i
        BY <1>0
    <2> QED BY <1>0, <2>1
<1>2. before(i) \in SUBSET before(j) /\ i \in before(j) /\ i \notin before(i)
    <2>1. i \in before(j) /\ i \notin before(i)
        BY <1>0
    <2>2. before(i) \in SUBSET before(j)
        BY <1>1
    <2> QED BY <2>1, <2>2
<1>3. /\ IsFiniteSet(before(j)) /\ Copy!Rank(j, S) = Cardinality(before(j)) /\ Copy!Rank(j, S) \in Nat
      /\ Copy!Rank(i, S) = Cardinality(before(i)) /\ Copy!Rank(i, S) \in Nat
    BY <1>0, RankIs
<1>4. Cardinality(before(i)) <= Cardinality(before(j)) /\ Cardinality(before(i)) # Cardinality(before(j))
    BY <1>2, <1>3, FS_Subset
<1> QED BY <1>3, <1>4

\* No more come before one than are in a larger set.
LEMMA RankInMore ==
    ASSUME NEW S \in SUBSET Nat, IsFiniteSet(S), NEW R \in SUBSET S, NEW i \in Nat
    PROVE  Copy!Rank(i, R) <= Copy!Rank(i, S)
<1>1. IsFiniteSet(R) /\ R \in SUBSET Nat
    BY FS_Subset
<1>2. {j \in R : j < i} \in SUBSET {j \in S : j < i}
    OBVIOUS
<1>3. /\ Copy!Rank(i, S) = Cardinality({j \in S : j < i}) /\ IsFiniteSet({j \in S : j < i})
      /\ Copy!Rank(i, R) = Cardinality({j \in R : j < i})
    BY <1>1, RankIs
<1> QED BY <1>2, <1>3, FS_Subset

\* A page is no longer than it may be.
LEMMA SliceIsShort ==
    ASSUME NEW S \in SUBSET Nat, IsFiniteSet(S), NEW skip \in Nat, NEW n \in Nat
    PROVE  /\ IsFiniteSet(Copy!Slice(S, skip, n))
           /\ Cardinality(Copy!Slice(S, skip, n)) \in Nat
           /\ Cardinality(Copy!Slice(S, skip, n)) <= n
<1> DEFINE page == Copy!Slice(S, skip, n)
           place == [i \in page |-> Copy!Rank(i, S)]
<1>1. page \in SUBSET S
    BY DEF Copy!Slice
<1>2. IsFiniteSet(page) /\ Cardinality(page) \in Nat
    BY <1>1, FS_Subset, FS_CardinalityType
<1>3. \A i \in page : Copy!Rank(i, S) \in skip..(skip + n - 1)
    <2> TAKE i \in page
    <2>1. Copy!Rank(i, S) \in Nat
        BY <1>1, RankIs
    <2>2. skip <= Copy!Rank(i, S) /\ Copy!Rank(i, S) < skip + n
        BY DEF Copy!Slice
    <2> QED BY <2>1, <2>2
<1>4. \A i, j \in page : Copy!Rank(i, S) = Copy!Rank(j, S) => i = j
    <2> TAKE i \in page, j \in page
    <2> HAVE Copy!Rank(i, S) = Copy!Rank(j, S)
    <2>1. i \in S /\ j \in S /\ i \in Nat /\ j \in Nat
        BY <1>1
    <2>2. Copy!Rank(i, S) \in Nat /\ Copy!Rank(j, S) \in Nat
        BY <2>1, RankIs
    <2>3. ~(i < j) /\ ~(j < i)
        BY <2>1, <2>2, RankGrows
    <2> QED BY <2>1, <2>3
<1>5. place \in Injection(page, skip..(skip + n - 1))
    BY <1>3, <1>4 DEF Injection, IsInjective
<1>6. /\ IsFiniteSet(skip..(skip + n - 1))
      /\ Cardinality(skip..(skip + n - 1)) = IF skip > skip + n - 1 THEN 0 ELSE (skip + n - 1) - skip + 1
    BY FS_Interval
<1>7. Cardinality(page) <= Cardinality(skip..(skip + n - 1))
    BY <1>5, <1>6, FS_Injection
<1>8. Cardinality(skip..(skip + n - 1)) <= n
    BY <1>6
<1>9. Cardinality(skip..(skip + n - 1)) \in Nat
    BY <1>6, FS_CardinalityType
<1> QED BY <1>2, <1>7, <1>8, <1>9

\* An empty page means that no id is left.
LEMMA SliceReachesEnd ==
    ASSUME NEW S \in SUBSET Nat, IsFiniteSet(S), NEW skip \in Nat, NEW n \in Nat \ {0},
           Copy!Slice(S, skip, n) = {}, NEW i \in S
    PROVE  Copy!Rank(i, S) < skip
<1> SUFFICES ASSUME ~(Copy!Rank(i, S) < skip) PROVE FALSE
    OBVIOUS
<1> DEFINE left == {j \in S : skip <= Copy!Rank(j, S)}
<1>1. \A j \in S : j \in Nat /\ Copy!Rank(j, S) \in Nat
    BY RankIs
<1>2. i \in left
    BY <1>1
<1>3. left \in SUBSET Nat /\ left # {}
    BY <1>1, <1>2
<1>4. PICK j \in left : \A k \in left : j <= k
    <2> HIDE DEF left
    <2> QED BY <1>3, LeastNumber
<1> DEFINE before == {k \in S : k < j}
           place == [k \in before |-> Copy!Rank(k, S)]
<1>5. \A k \in before : Copy!Rank(k, S) \in 0..(skip - 1)
    <2> TAKE k \in before
    <2>1. k \in Nat /\ Copy!Rank(k, S) \in Nat /\ k < j /\ j \in Nat /\ k \in S
        BY <1>1
    <2>2. k \notin left
        BY <1>4, <2>1
    <2> QED BY <2>1, <2>2
<1>6. \A k, m \in before : Copy!Rank(k, S) = Copy!Rank(m, S) => k = m
    <2> TAKE k \in before, m \in before
    <2> HAVE Copy!Rank(k, S) = Copy!Rank(m, S)
    <2>1. k \in S /\ m \in S /\ k \in Nat /\ m \in Nat
        BY <1>1
    <2>2. Copy!Rank(k, S) \in Nat /\ Copy!Rank(m, S) \in Nat
        BY <2>1, <1>1
    <2>3. ~(k < m) /\ ~(m < k)
        BY <2>1, <2>2, RankGrows
    <2> QED BY <2>1, <2>3
<1>7. place \in Injection(before, 0..(skip - 1))
    BY <1>5, <1>6 DEF Injection, IsInjective
<1>8. IsFiniteSet(0..(skip - 1)) /\ Cardinality(0..(skip - 1)) = IF 0 > skip - 1 THEN 0 ELSE (skip - 1) - 0 + 1
    BY FS_Interval
<1>9. Cardinality(before) <= Cardinality(0..(skip - 1))
    BY <1>7, <1>8, FS_Injection
<1>10. Copy!Rank(j, S) = Cardinality(before) /\ Copy!Rank(j, S) \in Nat /\ skip <= Copy!Rank(j, S) /\ j \in S
    BY <1>1, <1>4, RankIs
<1>11. Cardinality(0..(skip - 1)) <= skip /\ Cardinality(0..(skip - 1)) \in Nat
    BY <1>8
<1>12. Copy!Rank(j, S) < skip + n
    BY <1>9, <1>10, <1>11
<1>13. j \in Copy!Slice(S, skip, n)
    BY <1>10, <1>12 DEF Copy!Slice
<1> QED BY <1>13

\* A page from the start ends with its greatest id, and leaves none before out.
LEMMA SliceHasFirst ==
    ASSUME NEW S \in SUBSET Nat, IsFiniteSet(S), NEW n \in Nat, Copy!Slice(S, 0, n) # {}
    PROVE  /\ Copy!Max(Copy!Slice(S, 0, n)) \in Copy!Slice(S, 0, n)
           /\ \A i \in S : i <= Copy!Max(Copy!Slice(S, 0, n)) => i \in Copy!Slice(S, 0, n)
           /\ \A i \in Copy!Slice(S, 0, n) : i <= Copy!Max(Copy!Slice(S, 0, n))
<1> DEFINE page == Copy!Slice(S, 0, n)
<1>1. page \in SUBSET S /\ page \in SUBSET Nat
    BY DEF Copy!Slice
<1>2. IsFiniteSet(page)
    BY <1>1, FS_Subset
<1>4. Copy!Max(page) \in page /\ Copy!Max(page) \in Nat /\ \A i \in page : i <= Copy!Max(page)
    <2> HIDE DEF page
    <2> QED BY <1>1, <1>2, MaxIs DEF page
<1>6. ASSUME NEW i \in S, i <= Copy!Max(page) PROVE i \in page
    <2>1. /\ i \in Nat /\ Copy!Max(page) \in Nat /\ Copy!Max(page) \in S
          /\ Copy!Rank(i, S) \in Nat /\ Copy!Rank(Copy!Max(page), S) \in Nat
        BY <1>1, <1>4, RankIs
    <2>2. Copy!Rank(Copy!Max(page), S) < n
        BY <1>4, <2>1 DEF Copy!Slice
    <2>3. Copy!Rank(i, S) <= Copy!Rank(Copy!Max(page), S)
        <3>1. CASE i = Copy!Max(page)
            BY <2>1, <3>1
        <3>2. CASE i < Copy!Max(page)
            BY <2>1, <3>2, RankGrows
        <3> QED BY <1>6, <2>1, <3>1, <3>2
    <2>4. 0 <= Copy!Rank(i, S) /\ Copy!Rank(i, S) < 0 + n
        BY <2>1, <2>2, <2>3
    <2> QED BY <2>4 DEF Copy!Slice
<1> QED BY <1>4, <1>6

-----------------------------------------------------------------------------
(* TableCopy: what a copy has read. *)

CopyRows == [added: Nat, at: Nat, change: Nat]

CopyTables == [Ids -> CopyRows \cup {None}]

CopyTypes ==
    /\ kind \in {"dated", "plain", "pairs", None}
    /\ source \in CopyTables /\ target \in CopyTables
    /\ now \in Nat /\ changes \in Nat
    /\ first \in Nat \cup {None} /\ covered \in Nat \cup {None}
    /\ run \in [mode: {"full", "delta"}, since: Nat, start: Nat, lastSeen: Nat, offset: Nat,
                rows: CopyTables] \cup {None}

\* A row was added before it was changed, and that was before now.
SourceDated ==
    \A i \in Copy!Held(source) : source[i].added <= source[i].at /\ source[i].at <= now

\* Nothing is vouched for, and nothing is in the copy, before the first run.
RunsInOrder ==
    /\ first # None => kind # None /\ first <= now
    /\ covered # None => first # None /\ covered <= now
    /\ run # None => first # None /\ first <= run.start /\ run.start <= now
    /\ first = None => \A i \in Ids : target[i] = None

\* A row of the copy is one of the source, and read after the first run began.
FreshIn(table) ==
    \A i \in Ids : table[i] # None =>
        /\ source[i] # None
        /\ first # None /\ source[i].at < first => table[i] = source[i]

\* What CopyIsExact says of the rows.
ExactIn(table) ==
    covered # None =>
        \A i \in Copy!Held(source) :
            /\ Copy!Dated /\ source[i].at < covered => table[i] = source[i]
            /\ source[i].added < covered => table[i] # None

SequenceOK ==
    covered # None => \A i \in Copy!Held(source) : source[i].added < covered => i <= sequence

\* Of the ids a run is past, it has the rows there were when it began, and of
\* those it asks for the ones that have not changed since.
PastIds(r) ==
    \A i \in Copy!Held(source) : i <= r.lastSeen =>
        /\ source[i].added < r.start /\ (Copy!Upserts(r) => r.since <= source[i].added)
               => r.rows[i] # None
        /\ Copy!Upserts(r) /\ r.since <= source[i].at /\ source[i].at < r.start
               => r.rows[i] = source[i]

\* Rows are only added, so that one the run has counted stays counted.
PastCount(r) ==
    \A i \in Copy!Held(source) :
        source[i].added < r.start /\ Copy!Rank(i, Copy!Held(source)) < r.offset => r.rows[i] # None

RunOK ==
    run # None =>
        /\ FreshIn(run.rows) /\ ExactIn(run.rows)
        /\ \A i \in Ids : target[i] # None => run.rows[i] # None
        /\ ~Copy!Upserts(run) => target = run.rows
        /\ IF Copy!UseKeyset THEN PastIds(run) ELSE PastCount(run)

CopyInv ==
    /\ CopyTypes /\ SourceDated /\ RunsInOrder
    /\ FreshIn(target) /\ ExactIn(target) /\ SequenceOK /\ RunOK

LEMMA IdsAreNumbers ==
    /\ \A i \in Ids : i \in Nat /\ i > 0
    /\ \A S \in SUBSET Ids : S \in SUBSET Nat /\ IsFiniteSet(S)
<1>1. \A i \in Ids : i \in Nat /\ i > 0
    BY ServicesOK DEF ServicesOK, CopyOK
<1>2. \A S \in SUBSET Ids : IsFiniteSet(S)
    BY FS_Subset, ServicesOK DEF ServicesOK, CopyOK
<1> QED BY <1>1, <1>2

LEMMA NoneIsNoRow ==
    /\ None \notin Nat /\ None \notin CopyRows /\ None \notin {"dated", "plain", "pairs"}
    /\ None \notin [mode: {"full", "delta"}, since: Nat, start: Nat, lastSeen: Nat, offset: Nat,
                    rows: CopyTables]
    /\ CopyBatch \in Nat \ {0}
BY ServicesOK DEF ServicesOK, CopyOK, SignInOK, CopyRows, CopyTables

\* What the rows and a run are.
LEMMA CopyFacts ==
    ASSUME CopyInv
    PROVE  /\ Copy!Held(source) \in SUBSET Ids
           /\ \A i \in Copy!Held(source) : source[i] \in CopyRows
           /\ \A i \in Copy!Held(source) :
                 source[i].added \in Nat /\ source[i].at \in Nat /\ source[i].added <= source[i].at
           /\ run # None =>
                 /\ run.mode \in {"full", "delta"} /\ run.since \in Nat /\ run.start \in Nat
                 /\ run.lastSeen \in Nat /\ run.offset \in Nat /\ run.rows \in CopyTables
                 /\ Copy!Changed(run) \in SUBSET Copy!Held(source)
<1>1. \A i \in Copy!Held(source) : i \in Ids /\ source[i] \in CopyRows
    BY DEF CopyInv, CopyTypes, CopyTables, Copy!Held
<1>2. \A i \in Copy!Held(source) :
        source[i].added \in Nat /\ source[i].at \in Nat /\ source[i].added <= source[i].at
    BY <1>1 DEF CopyRows, CopyInv, SourceDated
<1>3. run # None =>
        /\ run.mode \in {"full", "delta"} /\ run.since \in Nat /\ run.start \in Nat
        /\ run.lastSeen \in Nat /\ run.offset \in Nat /\ run.rows \in CopyTables
    BY DEF CopyInv, CopyTypes
<1>4. Copy!Changed(run) \in SUBSET Copy!Held(source)
    BY DEF Copy!Changed
<1> QED BY <1>1, <1>2, <1>3, <1>4

\* What a page is of the ids asked for.
LEMMA PageIs ==
    ASSUME CopyInv, run # None
    PROVE  /\ Copy!Page(run) \in SUBSET Copy!Changed(run)
           /\ Copy!UseKeyset /\ Copy!Page(run) # {} =>
                 /\ Copy!Max(Copy!Page(run)) \in Nat
                 /\ \A i \in Copy!Changed(run) :
                       i <= Copy!Max(Copy!Page(run)) => i <= run.lastSeen \/ i \in Copy!Page(run)
           /\ Copy!UseKeyset /\ Copy!Page(run) = {} =>
                 \A i \in Copy!Changed(run) : i <= run.lastSeen
<1> DEFINE rest == {i \in Copy!Changed(run) : i > run.lastSeen}
<1>1. /\ Copy!Changed(run) \in SUBSET Ids /\ rest \in SUBSET Ids /\ run.lastSeen \in Nat
    BY CopyFacts
<1>2. /\ rest \in SUBSET Nat /\ IsFiniteSet(rest) /\ \A i \in Copy!Changed(run) : i \in Nat
    BY <1>1, IdsAreNumbers
<1>3. Copy!UseKeyset => Copy!Page(run) = Copy!Slice(rest, 0, CopyBatch)
    BY DEF Copy!Page
<1>4. Copy!Page(run) \in SUBSET Copy!Changed(run)
    BY DEF Copy!Page, Copy!Slice
<1>5. CASE Copy!UseKeyset /\ Copy!Page(run) # {}
    <2>1. /\ Copy!Max(Copy!Page(run)) \in Copy!Page(run)
          /\ \A i \in rest : i <= Copy!Max(Copy!Page(run)) => i \in Copy!Page(run)
        <3> HIDE DEF rest
        <3>1. Copy!Slice(rest, 0, CopyBatch) # {} /\ Copy!Page(run) = Copy!Slice(rest, 0, CopyBatch)
            BY <1>3, <1>5
        <3>2. CopyBatch \in Nat
            BY NoneIsNoRow
        <3> QED BY <1>2, <3>1, <3>2, SliceHasFirst
    <2>2. ASSUME NEW i \in Copy!Changed(run), i <= Copy!Max(Copy!Page(run)), ~(i <= run.lastSeen)
          PROVE  i \in Copy!Page(run)
        <3>1. i \in rest
            BY <1>1, <1>2, <2>2
        <3> QED BY <2>1, <2>2, <3>1
    <2> QED BY <1>2, <1>4, <1>5, <2>1, <2>2
<1>6. CASE Copy!UseKeyset /\ Copy!Page(run) = {}
    <2>1. rest = {}
        <3> SUFFICES ASSUME NEW i \in rest PROVE FALSE
            OBVIOUS
        <3>1. Copy!Slice(rest, 0, CopyBatch) = {} /\ CopyBatch \in Nat \ {0}
            BY <1>3, <1>6, NoneIsNoRow
        <3>2. Copy!Rank(i, rest) < 0
            <4> HIDE DEF rest
            <4> QED BY <1>2, <3>1, SliceReachesEnd
        <3>3. Copy!Rank(i, rest) \in Nat
            <4> HIDE DEF rest
            <4> QED BY <1>2, RankIs
        <3> QED BY <3>2, <3>3
    <2>2. \A i \in Copy!Changed(run) : i <= run.lastSeen
        BY <1>1, <1>2, <2>1
    <2> QED BY <1>4, <1>6, <2>2
<1>7. CASE ~Copy!UseKeyset
    BY <1>4, <1>7
<1> QED BY <1>5, <1>6, <1>7

\* The same of a table that is counted through.
LEMMA CountedPageIs ==
    ASSUME CopyInv, run # None, ~Copy!UseKeyset
    PROVE  /\ ~Copy!Dated /\ ~Copy!Upserts(run) /\ Copy!Changed(run) = Copy!Held(source)
           /\ Copy!Cardinality(Copy!Page(run)) \in Nat
           /\ \A i \in Copy!Held(source) :
                 Copy!Rank(i, Copy!Held(source)) < run.offset + Copy!Cardinality(Copy!Page(run)) =>
                     Copy!Rank(i, Copy!Held(source)) < run.offset \/ i \in Copy!Page(run)
           /\ Copy!Page(run) = {} =>
                 \A i \in Copy!Held(source) : Copy!Rank(i, Copy!Held(source)) < run.offset
<1>1. ~Copy!Dated /\ ~Copy!Upserts(run)
    BY DEF Copy!UseKeyset, Copy!Dated, Copy!Upserts
<1>2. Copy!Changed(run) = Copy!Held(source)
    BY <1>1 DEF Copy!Changed, Copy!Held
<1>3. /\ Copy!Held(source) \in SUBSET Nat /\ IsFiniteSet(Copy!Held(source)) /\ run.offset \in Nat
      /\ CopyBatch \in Nat \ {0} /\ CopyBatch \in Nat
    BY CopyFacts, IdsAreNumbers, NoneIsNoRow
<1>4. Copy!Page(run) = Copy!Slice(Copy!Held(source), run.offset, CopyBatch)
    BY <1>2 DEF Copy!Page
<1>5. Copy!Cardinality(Copy!Page(run)) = Cardinality(Copy!Page(run))
    BY DEF Copy!Cardinality, Cardinality
<1>6. Copy!Cardinality(Copy!Page(run)) \in Nat /\ Copy!Cardinality(Copy!Page(run)) <= CopyBatch
    BY <1>3, <1>4, <1>5, SliceIsShort
<1>7. ASSUME NEW i \in Copy!Held(source),
             Copy!Rank(i, Copy!Held(source)) < run.offset + Copy!Cardinality(Copy!Page(run)),
             ~(Copy!Rank(i, Copy!Held(source)) < run.offset)
      PROVE  i \in Copy!Page(run)
    <2>1. Copy!Rank(i, Copy!Held(source)) \in Nat
        BY <1>3, RankIs
    <2>2. /\ run.offset <= Copy!Rank(i, Copy!Held(source))
          /\ Copy!Rank(i, Copy!Held(source)) < run.offset + CopyBatch
        BY <1>3, <1>6, <1>7, <2>1
    <2> QED BY <1>4, <2>2 DEF Copy!Slice
<1>8. Copy!Page(run) = {} => \A i \in Copy!Held(source) : Copy!Rank(i, Copy!Held(source)) < run.offset
    BY <1>3, <1>4, SliceReachesEnd
<1> QED BY <1>1, <1>2, <1>6, <1>7, <1>8

LEMMA CopyStarts == Copy!Init => CopyInv
<1> SUFFICES ASSUME Copy!Init PROVE CopyInv
    OBVIOUS
<1>1. Copy!Held(source) = {}
    BY DEF Copy!Init, Copy!Held
<1>2. CopyTypes
    BY DEF Copy!Init, CopyTypes, CopyTables
<1> QED BY <1>1, <1>2 DEF Copy!Init, CopyInv, SourceDated, RunsInOrder, FreshIn, ExactIn, SequenceOK, RunOK

LEMMA DescribeOK ==
    ASSUME CopyInv, NEW k \in {"dated", "plain", "pairs"}, Copy!Describe(k)
    PROVE  CopyInv'
<1>1. kind = None /\ kind' = k /\ UNCHANGED <<source, target, sequence, now, changes, run, runs, first, covered>>
    BY DEF Copy!Describe
<1>2. first = None /\ covered = None /\ run = None
    BY <1>1 DEF CopyInv, RunsInOrder
<1>3. Copy!Held(source)' = Copy!Held(source)
    BY <1>1 DEF Copy!Held
<1>4. CopyTypes'
    BY <1>1 DEF CopyInv, CopyTypes
<1> QED BY <1>1, <1>2, <1>3, <1>4 DEF CopyInv, SourceDated, RunsInOrder, FreshIn, ExactIn, SequenceOK, RunOK

LEMMA TimePassesOK == ASSUME CopyInv, Copy!TimePasses PROVE CopyInv'
<1>1. now' = now + 1 /\ UNCHANGED <<kind, source, target, sequence, changes, run, runs, first, covered>>
    BY DEF Copy!TimePasses
<1>2. CopyTypes' /\ now \in Nat
    BY <1>1 DEF CopyInv, CopyTypes
<1>3. Copy!Held(source)' = Copy!Held(source)
    BY <1>1 DEF Copy!Held
<1>4. SourceDated'
    BY <1>1, <1>2, <1>3, CopyFacts DEF CopyInv, SourceDated
<1>5. RunsInOrder'
    <2>1. (first # None => first \in Nat) /\ (covered # None => covered \in Nat) /\ (run # None => run.start \in Nat)
        BY CopyFacts DEF CopyInv, CopyTypes
    <2> QED BY <1>1, <1>2, <2>1 DEF CopyInv, RunsInOrder
<1>6. FreshIn(target)' /\ ExactIn(target)' /\ SequenceOK'
    BY <1>1, <1>3 DEF CopyInv, FreshIn, ExactIn, SequenceOK, Copy!Dated
<1>7. RunOK'
    BY <1>1, <1>3 DEF CopyInv, RunOK, FreshIn, ExactIn, PastIds, PastCount, Copy!Upserts, Copy!UseKeyset, Copy!Dated
<1> QED BY <1>2, <1>4, <1>5, <1>6, <1>7 DEF CopyInv

LEMMA FailCopyOK == ASSUME CopyInv, Copy!FailCopy PROVE CopyInv'
<1>1. run' = None /\ UNCHANGED <<kind, source, target, sequence, now, changes, runs, first, covered>>
    BY DEF Copy!FailCopy
<1>2. CopyTypes'
    BY <1>1 DEF CopyInv, CopyTypes
<1>3. Copy!Held(source)' = Copy!Held(source)
    BY <1>1 DEF Copy!Held
<1> QED BY <1>1, <1>2, <1>3 DEF CopyInv, SourceDated, RunsInOrder, FreshIn, ExactIn, SequenceOK, RunOK, Copy!Dated

LEMMA BeginCopyOK ==
    ASSUME CopyInv, NEW mode \in {"full", "delta"}, NEW from \in 0..now, Copy!BeginCopy(mode, from)
    PROVE  CopyInv'
<1>1. /\ kind # None /\ run = None
      /\ run' = [mode |-> mode, since |-> from, start |-> now,
                 lastSeen |-> 0, offset |-> 0, rows |-> target]
      /\ first' = IF first = None THEN now ELSE first
      /\ UNCHANGED <<kind, source, target, sequence, now, changes, covered>>
    BY DEF Copy!BeginCopy
<1>2. now \in Nat /\ from \in Nat /\ (first # None => first \in Nat)
    BY DEF CopyInv, CopyTypes
<1>3. CopyTypes'
    BY <1>1, <1>2 DEF CopyInv, CopyTypes
<1>4. Copy!Held(source)' = Copy!Held(source)
    BY <1>1 DEF Copy!Held
<1>5. SourceDated'
    BY <1>1, <1>4 DEF CopyInv, SourceDated
<1>6. RunsInOrder'
    <2>1. first' # None /\ first' <= now
        BY <1>1, <1>2, NoneIsNoRow DEF CopyInv, RunsInOrder
    <2> QED BY <1>1, <1>2, <2>1 DEF CopyInv, RunsInOrder
<1>7. FreshIn(target)'
    BY <1>1 DEF CopyInv, FreshIn, RunsInOrder
<1>8. ExactIn(target)' /\ SequenceOK'
    BY <1>1, <1>4 DEF CopyInv, ExactIn, SequenceOK, Copy!Dated
<1>9. run'.rows = target /\ run'.lastSeen = 0 /\ run'.offset = 0 /\ target' = target
    BY <1>1
<1>10. FreshIn(run.rows)' /\ ExactIn(run.rows)'
    BY <1>7, <1>8, <1>9 DEF FreshIn, ExactIn
<1>11. PastIds(run)'
    <2>1. \A i \in Copy!Held(source)' : ~(i <= run'.lastSeen)
        BY <1>4, <1>9, CopyFacts, IdsAreNumbers
    <2> QED BY <2>1 DEF PastIds
<1>12. PastCount(run)'
    <2>1. /\ Copy!Held(source) \in SUBSET Nat /\ IsFiniteSet(Copy!Held(source))
        BY CopyFacts, IdsAreNumbers
    <2>2. ASSUME NEW i \in Copy!Held(source)' PROVE ~(Copy!Rank(i, Copy!Held(source))' < run'.offset)
        <3>1. Copy!Rank(i, Copy!Held(source)) \in Nat
            BY <1>4, <2>1, <2>2, RankIs
        <3>2. Copy!Rank(i, Copy!Held(source))' = Copy!Rank(i, Copy!Held(source))
            BY <1>4 DEF Copy!Rank
        <3> QED BY <1>9, <3>1, <3>2
    <2> QED BY <2>2 DEF PastCount
<1>13. RunOK'
    BY <1>9, <1>10, <1>11, <1>12 DEF RunOK
<1> QED BY <1>3, <1>5, <1>6, <1>7, <1>8, <1>13 DEF CopyInv

\* The source changes: the row is as of now, and may be new.
LEMMA SourceChangeOK ==
    ASSUME CopyInv, NEW i \in Ids, Copy!SourceChange(i)
    PROVE  CopyInv'
<1> DEFINE heldIds == Copy!Held(source)
           new == [added |-> IF source[i] = None THEN now ELSE source[i].added,
                   at |-> now, change |-> changes + 1]
<1>1. /\ kind # None /\ changes' = changes + 1
      /\ source' = [source EXCEPT ![i] = new]
      /\ UNCHANGED <<kind, target, sequence, now, run, runs, first, covered>>
    BY DEF Copy!SourceChange
<1>2. now \in Nat /\ changes \in Nat /\ source \in CopyTables
    BY DEF CopyInv, CopyTypes
<1>3. new \in CopyRows /\ new # None
    <2>1. (IF source[i] = None THEN now ELSE source[i].added) \in Nat
        BY <1>2 DEF CopyTables, CopyRows
    <2>2. new \in CopyRows
        BY <1>2, <2>1 DEF CopyRows
    <2> QED BY <2>2, NoneIsNoRow
<1>4. source'[i] = new /\ \A j \in Ids \ {i} : source'[j] = source[j]
    BY <1>1, <1>2 DEF CopyTables
<1>5. source' \in CopyTables
    <2> HIDE DEF new
    <2> QED BY <1>1, <1>2, <1>3 DEF CopyTables
<1>6. CopyTypes'
    BY <1>1, <1>2, <1>5 DEF CopyInv, CopyTypes
<1>7. heldIds' = heldIds \cup {i}
    BY <1>3, <1>4 DEF Copy!Held
<1>8. new.at = now /\ (new.added = now \/ (i \in heldIds /\ new.added = source[i].added))
    BY <1>2 DEF Copy!Held, CopyTables
<1>9. \A j \in heldIds' : j \in Ids /\ (j = i \/ (j \in heldIds /\ source'[j] = source[j]))
    BY <1>4, <1>7 DEF Copy!Held
<1>10. \A j \in heldIds' : source'[j].added = now \/ (j \in heldIds /\ source'[j].added = source[j].added)
    <2> HIDE DEF heldIds, new
    <2> QED BY <1>4, <1>8, <1>9
<1>11. \A j \in heldIds' : source'[j].at = now \/ (j \in heldIds /\ source'[j] = source[j])
    <2> HIDE DEF heldIds, new
    <2> QED BY <1>4, <1>8, <1>9
<1>12. \A j \in heldIds : source[j].added \in Nat /\ source[j].at \in Nat /\ source[j].added <= source[j].at
                      /\ source[j].at <= now
    BY CopyFacts DEF CopyInv, SourceDated
<1>13. \A t \in Nat : t <= now => \A j \in heldIds' :
         /\ source'[j].added < t => j \in heldIds /\ source[j].added < t /\ source'[j].added = source[j].added
         /\ source'[j].at < t => j \in heldIds /\ source[j].at < t /\ source'[j] = source[j]
    <2> HIDE DEF heldIds, new
    <2> QED BY <1>2, <1>10, <1>11, <1>12
<1>14. /\ first # None => first \in Nat /\ first <= now
       /\ covered # None => covered \in Nat /\ covered <= now
       /\ run # None => run.start \in Nat /\ run.start <= now
    BY CopyFacts DEF CopyInv, CopyTypes, RunsInOrder
<1>15. SourceDated'
    <2>1. \A j \in heldIds' : source'[j].added <= source'[j].at /\ source'[j].at <= now
        <3> TAKE j \in heldIds'
        <3>1. CASE j = i
            <4> HIDE DEF heldIds, new
            <4> QED BY <1>2, <1>4, <1>8, <1>12, <3>1
        <3>2. CASE j # i
            <4> HIDE DEF heldIds, new
            <4> QED BY <1>9, <1>12, <3>2
        <3> QED BY <3>1, <3>2
    <2> QED BY <1>1, <2>1 DEF SourceDated
<1>16. RunsInOrder'
    BY <1>1 DEF CopyInv, RunsInOrder
<1>17. ASSUME NEW table, FreshIn(table)
       PROVE  \A j \in Ids : table[j] # None =>
                /\ source'[j] # None
                /\ first # None /\ source'[j].at < first => table[j] = source'[j]
    <2> TAKE j \in Ids
    <2> HAVE table[j] # None
    <2>1. source[j] # None
        BY <1>17 DEF FreshIn
    <2>2. source'[j] # None
        <3> HIDE DEF new
        <3> QED BY <1>3, <1>4, <2>1
    <2>3. j \in heldIds'
        BY <2>2, <1>7, <2>1 DEF Copy!Held
    <2>4. ASSUME first # None, source'[j].at < first PROVE table[j] = source'[j]
        <3>1. source[j].at < first /\ source'[j] = source[j]
            <4> HIDE DEF heldIds, new
            <4> QED BY <1>13, <1>14, <2>3, <2>4
        <3> QED BY <1>17, <2>4, <3>1 DEF FreshIn
    <2> QED BY <2>2, <2>4
<1>18. ASSUME NEW table, ExactIn(table), covered # None, NEW j \in heldIds'
       PROVE  /\ Copy!Dated /\ source'[j].at < covered => table[j] = source'[j]
              /\ source'[j].added < covered => table[j] # None
    <2>1. /\ source'[j].added < covered => j \in heldIds /\ source[j].added < covered
          /\ source'[j].at < covered => j \in heldIds /\ source[j].at < covered /\ source'[j] = source[j]
        <3> HIDE DEF heldIds, new
        <3> QED BY <1>13, <1>14, <1>18
    <2> QED BY <1>18, <2>1 DEF ExactIn
<1>19. FreshIn(target)'
    BY <1>1, <1>17 DEF CopyInv, FreshIn
<1>20. ExactIn(target)'
    BY <1>1, <1>18 DEF CopyInv, ExactIn, Copy!Dated
<1>21. SequenceOK'
    <2>1. ASSUME covered # None, NEW j \in heldIds', source'[j].added < covered PROVE j <= sequence
        <3>1. j \in heldIds /\ source[j].added < covered
            <4> HIDE DEF heldIds, new
            <4> QED BY <1>13, <1>14, <2>1
        <3> QED BY <2>1, <3>1 DEF CopyInv, SequenceOK
    <2> QED BY <1>1, <2>1 DEF SequenceOK
<1>22. ASSUME run # None PROVE FreshIn(run.rows)' /\ ExactIn(run.rows)'
    <2>1. FreshIn(run.rows) /\ ExactIn(run.rows)
        BY <1>22 DEF CopyInv, RunOK
    <2>2. FreshIn(run.rows)'
        BY <1>1, <1>17, <2>1 DEF FreshIn
    <2>3. ExactIn(run.rows)'
        BY <1>1, <1>18, <2>1 DEF ExactIn, Copy!Dated
    <2> QED BY <2>2, <2>3
<1>23. ASSUME run # None, PastIds(run) PROVE PastIds(run)'
    <2>1. ASSUME NEW j \in heldIds', j <= run.lastSeen
          PROVE  /\ source'[j].added < run.start /\ (Copy!Upserts(run) => run.since <= source'[j].added)
                       => run.rows[j] # None
                 /\ Copy!Upserts(run) /\ run.since <= source'[j].at /\ source'[j].at < run.start
                       => run.rows[j] = source'[j]
        <3>1. /\ source'[j].added < run.start =>
                    j \in heldIds /\ source[j].added < run.start /\ source'[j].added = source[j].added
              /\ source'[j].at < run.start => j \in heldIds /\ source[j].at < run.start /\ source'[j] = source[j]
            <4> HIDE DEF heldIds, new
            <4> QED BY <1>13, <1>14, <1>23, <2>1
        <3> QED BY <1>23, <2>1, <3>1 DEF PastIds
    <2> QED BY <1>1, <2>1 DEF PastIds, Copy!Upserts, Copy!Dated
<1>24. ASSUME run # None, PastCount(run) PROVE PastCount(run)'
    <2>1. heldIds' \in SUBSET Nat /\ IsFiniteSet(heldIds') /\ heldIds \in SUBSET heldIds' /\ run.offset \in Nat
        BY <1>7, <1>9, <1>24, IdsAreNumbers, CopyFacts
    <2>2. ASSUME NEW j \in heldIds', source'[j].added < run.start, Copy!Rank(j, heldIds') < run.offset
          PROVE  run.rows[j] # None
        <3>1. j \in heldIds /\ source[j].added < run.start
            <4> HIDE DEF heldIds, new
            <4> QED BY <1>13, <1>14, <1>24, <2>2
        <3>2. j \in Nat /\ IsFiniteSet(heldIds) /\ heldIds \in SUBSET Nat
            BY <2>1, <3>1, FS_Subset
        <3>3. Copy!Rank(j, heldIds) <= Copy!Rank(j, heldIds') /\ Copy!Rank(j, heldIds) \in Nat /\ Copy!Rank(j, heldIds') \in Nat
            BY <2>1, <3>2, RankInMore, RankIs
        <3>4. Copy!Rank(j, heldIds) < run.offset
            BY <2>1, <2>2, <3>3
        <3> QED BY <1>24, <3>1, <3>4 DEF PastCount
    <2> QED BY <1>1, <2>2 DEF PastCount
<1>25. RunOK'
    <2> SUFFICES ASSUME run # None PROVE RunOK'
        BY <1>1 DEF RunOK
    <2>1. /\ FreshIn(run.rows)' /\ ExactIn(run.rows)'
          /\ (PastIds(run) => PastIds(run)') /\ (PastCount(run) => PastCount(run)')
        BY <1>22, <1>23, <1>24
    <2> QED BY <1>1, <2>1 DEF CopyInv, RunOK, Copy!UseKeyset, Copy!Upserts, Copy!Dated
<1> QED BY <1>6, <1>15, <1>16, <1>19, <1>20, <1>21, <1>25 DEF CopyInv

LEMMA PageHasNumbers ==
    ASSUME CopyInv, run # None, Copy!Page(run) # {}
    PROVE  Copy!Max(Copy!Page(run)) \in Nat /\ Copy!Cardinality(Copy!Page(run)) \in Nat
<1>1. Copy!Page(run) \in SUBSET Ids
    BY CopyFacts, PageIs
<1>2. Copy!Page(run) \in SUBSET Nat /\ IsFiniteSet(Copy!Page(run))
    BY <1>1, IdsAreNumbers
<1>3. Copy!Cardinality(Copy!Page(run)) = Cardinality(Copy!Page(run))
    BY DEF Copy!Cardinality, Cardinality
<1> QED BY <1>2, <1>3, MaxIs, FS_CardinalityType

LEMMA CopyPageOK == ASSUME CopyInv, Copy!CopyPage PROVE CopyInv'
<1> DEFINE page == Copy!Page(run)
           new == Copy!Inserted(run, page)
           heldIds == Copy!Held(source)
<1>1. /\ run # None /\ page # {}
      /\ run' = [run EXCEPT !.rows = new, !.lastSeen = Copy!Max(page),
                            !.offset = @ + Copy!Cardinality(page)]
      /\ target' = IF Copy!Upserts(run) THEN target ELSE run'.rows
      /\ UNCHANGED <<kind, source, sequence, now, changes, first, covered>>
    BY DEF Copy!CopyPage
<1>2. /\ run \in [mode: {"full", "delta"}, since: Nat, start: Nat, lastSeen: Nat, offset: Nat,
                  rows: CopyTables]
      /\ source \in CopyTables /\ target \in CopyTables /\ run.rows \in CopyTables
    BY <1>1, CopyFacts DEF CopyInv, CopyTypes
<1>3. \A i \in Ids : new[i] = IF i \in page /\ (Copy!Upserts(run) \/ run.rows[i] = None)
                              THEN source[i] ELSE run.rows[i]
    BY DEF Copy!Inserted
<1>4. new \in CopyTables
    <2>1. \A i \in Ids : new[i] \in CopyRows \cup {None}
        <3> HIDE DEF new, page
        <3> QED BY <1>2, <1>3 DEF CopyTables
    <2>2. new = [i \in Ids |-> IF i \in page /\ (Copy!Upserts(run) \/ run.rows[i] = None)
                               THEN source[i] ELSE run.rows[i]]
        BY DEF Copy!Inserted
    <2> HIDE DEF new, page
    <2> QED BY <2>1, <2>2 DEF CopyTables
<1>5. Copy!Max(page) \in Nat /\ Copy!Cardinality(page) \in Nat
    BY <1>1, PageHasNumbers
<1>6. /\ run' \in [mode: {"full", "delta"}, since: Nat, start: Nat, lastSeen: Nat, offset: Nat,
                   rows: CopyTables]
      /\ run'.rows = new /\ run'.lastSeen = Copy!Max(page)
      /\ run'.offset = run.offset + Copy!Cardinality(page)
      /\ run'.mode = run.mode /\ run'.since = run.since /\ run'.start = run.start
    <2> HIDE DEF new, page
    <2> DEFINE Set == [mode: {"full", "delta"}, since: Nat, start: Nat, lastSeen: Nat, offset: Nat,
                       rows: CopyTables]
               a == [run EXCEPT !.rows = new]
               b == [a EXCEPT !.lastSeen = Copy!Max(page)]
               c == [b EXCEPT !.offset = @ + Copy!Cardinality(page)]
    <2>1. /\ a \in Set /\ a.rows = new /\ a.offset = run.offset /\ a.mode = run.mode
          /\ a.since = run.since /\ a.start = run.start
        BY <1>2, <1>4
    <2>2. /\ b \in Set /\ b.rows = a.rows /\ b.lastSeen = Copy!Max(page) /\ b.offset = a.offset
          /\ b.mode = a.mode /\ b.since = a.since /\ b.start = a.start
        <3> HIDE DEF a
        <3> QED BY <1>5, <2>1
    <2>3. /\ c \in Set /\ c.rows = b.rows /\ c.lastSeen = b.lastSeen
          /\ c.offset = b.offset + Copy!Cardinality(page)
          /\ c.mode = b.mode /\ c.since = b.since /\ c.start = b.start
        <3> HIDE DEF a, b
        <3> QED BY <1>5, <2>2
    <2>4. run' = c
        BY <1>1, <1>2
    <2> HIDE DEF a, b, c
    <2> QED BY <2>1, <2>2, <2>3, <2>4
<1>7. run' # None
    BY <1>6, NoneIsNoRow
<1>8. target' = (IF Copy!Upserts(run) THEN target ELSE new) /\ target' \in CopyTables
    <2> HIDE DEF new, page
    <2> QED BY <1>1, <1>2, <1>4, <1>6
<1>9. CopyTypes'
    <2> HIDE DEF new, page
    <2> QED BY <1>1, <1>6, <1>8 DEF CopyInv, CopyTypes
<1>10. (Copy!Upserts(run) <=> Copy!Upserts(run)') /\ (Copy!UseKeyset <=> Copy!UseKeyset') /\ heldIds' = heldIds
    <2> HIDE DEF new, page
    <2> QED BY <1>1, <1>6 DEF Copy!Upserts, Copy!Dated, Copy!UseKeyset, Copy!Held
<1>11. RunOK
    BY DEF CopyInv
<1>12. page \in SUBSET heldIds /\ page \in SUBSET Ids /\ \A i \in page : source[i] # None
    BY <1>1, PageIs, CopyFacts DEF Copy!Held
<1>13. \A i \in Ids : /\ new[i] = source[i] \/ new[i] = run.rows[i]
                      /\ run.rows[i] # None => new[i] # None
                      /\ i \in page => new[i] # None
                      /\ i \in page /\ Copy!Upserts(run) => new[i] = source[i]
                      /\ new[i] # run.rows[i] => new[i] = source[i] /\ source[i] # None
    <2> HIDE DEF new, page, heldIds
    <2> QED BY <1>3, <1>12
<1>14. ASSUME NEW i \in Ids, new[i] # None
       PROVE  source[i] # None /\ (first # None /\ source[i].at < first => new[i] = source[i])
    <2>1. CASE new[i] = run.rows[i]
        <3>1. FreshIn(run.rows)
            BY <1>1, <1>11 DEF RunOK
        <3> HIDE DEF new, page, heldIds
        <3> QED BY <1>14, <2>1, <3>1 DEF FreshIn
    <2>2. CASE new[i] # run.rows[i]
        <3> HIDE DEF new, page, heldIds
        <3> QED BY <1>13, <2>2
    <2> QED BY <2>1, <2>2
<1>15. ASSUME covered # None, NEW i \in heldIds
       PROVE  /\ Copy!Dated /\ source[i].at < covered => new[i] = source[i]
              /\ source[i].added < covered => new[i] # None
    <2>1. ExactIn(run.rows)
        BY <1>1, <1>11 DEF RunOK
    <2>2. /\ Copy!Dated /\ source[i].at < covered => run.rows[i] = source[i]
          /\ source[i].added < covered => run.rows[i] # None
        BY <1>15, <2>1 DEF ExactIn
    <2>3. i \in Ids
        BY CopyFacts
    <2> HIDE DEF new, page, heldIds
    <2> QED BY <1>13, <2>2, <2>3
<1>16. FreshIn(run.rows)' /\ ExactIn(run.rows)'
    <2>1. FreshIn(run.rows)'
        <3> HIDE DEF new, page, heldIds
        <3> QED BY <1>1, <1>6, <1>14 DEF FreshIn
    <2>2. ExactIn(run.rows)'
        <3>1. \A i \in heldIds' : i \in heldIds
            BY <1>10
        <3>2. Copy!Dated' <=> Copy!Dated
            BY <1>1 DEF Copy!Dated
        <3> HIDE DEF new, page
        <3> QED BY <1>1, <1>6, <1>15, <3>1, <3>2 DEF ExactIn
    <2> QED BY <2>1, <2>2
<1>17. \A i \in Ids : target'[i] # None => run'.rows[i] # None
    <2>1. \A i \in Ids : target[i] # None => run.rows[i] # None
        BY <1>1, <1>11 DEF RunOK
    <2> HIDE DEF new, page, heldIds
    <2> QED BY <1>6, <1>8, <1>13, <2>1
<1>18. ~Copy!Upserts(run)' => target' = run'.rows
    <2> HIDE DEF new, page, heldIds
    <2> QED BY <1>6, <1>8, <1>10
<1>19. ASSUME Copy!UseKeyset PROVE PastIds(run)'
    <2>1. PastIds(run)
        BY <1>1, <1>11, <1>19 DEF RunOK
    <2>2. ASSUME NEW i \in heldIds, i <= Copy!Max(page)
          PROVE  /\ source[i].added < run.start /\ (Copy!Upserts(run) => run.since <= source[i].added)
                       => new[i] # None
                 /\ Copy!Upserts(run) /\ run.since <= source[i].at /\ source[i].at < run.start
                       => new[i] = source[i]
        <3>1. i \in Ids /\ source[i].added \in Nat /\ source[i].at \in Nat /\ source[i].added <= source[i].at
              /\ run.since \in Nat /\ run.start \in Nat
            BY <1>1, CopyFacts
        <3>2. ASSUME Copy!Upserts(run) => run.since <= source[i].at
              PROVE  i <= run.lastSeen \/ i \in page
            <4>1. i \in Copy!Changed(run)
                BY <3>1, <3>2 DEF Copy!Changed
            <4> QED BY <1>1, <1>19, <2>2, <4>1, PageIs
        <3>3. ASSUME source[i].added < run.start, Copy!Upserts(run) => run.since <= source[i].added
              PROVE  new[i] # None
            <4>1. Copy!Upserts(run) => run.since <= source[i].at
                BY <3>1, <3>3
            <4>2. CASE i \in page
                <5> HIDE DEF new, page, heldIds
                <5> QED BY <1>13, <3>1, <4>2
            <4>3. CASE i <= run.lastSeen
                <5>1. run.rows[i] # None
                    BY <2>1, <3>3, <4>3 DEF PastIds
                <5> HIDE DEF new, page, heldIds
                <5> QED BY <1>13, <3>1, <5>1
            <4> QED BY <3>2, <4>1, <4>2, <4>3
        <3>4. ASSUME Copy!Upserts(run), run.since <= source[i].at, source[i].at < run.start
              PROVE  new[i] = source[i]
            <4>2. CASE i \in page
                <5> HIDE DEF new, page, heldIds
                <5> QED BY <1>13, <3>1, <3>4, <4>2
            <4>3. CASE i <= run.lastSeen
                <5>1. run.rows[i] = source[i]
                    BY <2>1, <3>4, <4>3 DEF PastIds
                <5> HIDE DEF new, page, heldIds
                <5> QED BY <1>13, <3>1, <5>1
            <4> QED BY <3>2, <3>4, <4>2, <4>3
        <3> QED BY <3>3, <3>4
    <2>3. \A i \in heldIds' : i \in heldIds
        BY <1>10
    <2> HIDE DEF new, page
    <2> QED BY <1>1, <1>6, <1>10, <2>2, <2>3 DEF PastIds
<1>20. ASSUME ~Copy!UseKeyset PROVE PastCount(run)'
    <2>1. PastCount(run)
        BY <1>1, <1>11, <1>20 DEF RunOK
    <2>2. ASSUME NEW i \in heldIds, source[i].added < run.start,
                 Copy!Rank(i, heldIds) < run.offset + Copy!Cardinality(page)
          PROVE  new[i] # None
        <3>1. Copy!Rank(i, heldIds) < run.offset \/ i \in page
            BY <1>1, <1>20, <2>2, CountedPageIs
        <3>2. CASE Copy!Rank(i, heldIds) < run.offset
            <4>1. i \in Ids /\ run.rows[i] # None
                BY <2>1, <2>2, <3>2, CopyFacts DEF PastCount
            <4> HIDE DEF new, page, heldIds
            <4> QED BY <1>13, <4>1
        <3>3. CASE i \in page
            <4> HIDE DEF new, page, heldIds
            <4> QED BY <1>12, <1>13, <3>3
        <3> QED BY <3>1, <3>2, <3>3
    <2>3. /\ \A i \in heldIds' : i \in heldIds
          /\ \A i : Copy!Rank(i, Copy!Held(source))' = Copy!Rank(i, heldIds)
        BY <1>10 DEF Copy!Rank
    <2> HIDE DEF new, page
    <2> QED BY <1>1, <1>6, <2>2, <2>3 DEF PastCount
<1>21. RunOK'
    <2> HIDE DEF new, page
    <2> QED BY <1>10, <1>16, <1>17, <1>18, <1>19, <1>20 DEF RunOK
<1>22. RunsInOrder'
    <2>1. first = None => run = None
        BY DEF CopyInv, RunsInOrder
    <2> HIDE DEF new, page
    <2> QED BY <1>1, <1>6, <2>1 DEF CopyInv, RunsInOrder
<1>23. FreshIn(target)' /\ ExactIn(target)'
    <2>1. CASE Copy!Upserts(run)
        <3>1. UNCHANGED <<target, source, first, covered, kind>>
            BY <1>1, <2>1
        <3> QED BY <3>1 DEF CopyInv, FreshIn, ExactIn, Copy!Held, Copy!Dated
    <2>2. CASE ~Copy!Upserts(run)
        <3>1. target' = run'.rows
            BY <1>10, <1>18, <2>2
        <3> QED BY <1>16, <3>1 DEF FreshIn, ExactIn
    <2> QED BY <2>1, <2>2
<1>24. SourceDated' /\ SequenceOK'
    BY <1>1, <1>10 DEF CopyInv, SourceDated, SequenceOK
<1> QED BY <1>9, <1>21, <1>22, <1>23, <1>24 DEF CopyInv

\* When no id is left, the run has every row there was when it began.
LEMMA NothingLeft ==
    ASSUME CopyInv, run # None, Copy!Page(run) = {}
    PROVE  /\ \A i \in Copy!Held(source) :
                 source[i].added < run.start /\ (Copy!Upserts(run) => run.since <= source[i].added)
                     => run.rows[i] # None
           /\ \A i \in Copy!Held(source) :
                 Copy!Upserts(run) /\ run.since <= source[i].at /\ source[i].at < run.start
                     => run.rows[i] = source[i]
<1>1. RunOK
    BY DEF CopyInv
<1>2. CASE Copy!UseKeyset
    <2>1. PastIds(run)
        BY <1>1, <1>2 DEF RunOK
    <2> SUFFICES ASSUME NEW i \in Copy!Held(source)
                 PROVE  /\ source[i].added < run.start /\ (Copy!Upserts(run) => run.since <= source[i].added)
                              => run.rows[i] # None
                        /\ Copy!Upserts(run) /\ run.since <= source[i].at /\ source[i].at < run.start
                              => run.rows[i] = source[i]
        OBVIOUS
    <2>2. /\ source[i].added \in Nat /\ source[i].at \in Nat /\ source[i].added <= source[i].at
          /\ run.since \in Nat /\ run.start \in Nat
        BY CopyFacts
    <2>3. ASSUME Copy!Upserts(run) => run.since <= source[i].at
          PROVE  i <= run.lastSeen
        <3>1. i \in Copy!Changed(run)
            BY <2>3 DEF Copy!Changed
        <3> QED BY <1>2, <3>1, PageIs
    <2>4. ASSUME source[i].added < run.start, Copy!Upserts(run) => run.since <= source[i].added
          PROVE  run.rows[i] # None
        <3>1. i <= run.lastSeen
            BY <2>2, <2>3, <2>4
        <3> QED BY <2>1, <2>4, <3>1 DEF PastIds
    <2>5. ASSUME Copy!Upserts(run), run.since <= source[i].at, source[i].at < run.start
          PROVE  run.rows[i] = source[i]
        <3>1. i <= run.lastSeen
            BY <2>3, <2>5
        <3> QED BY <2>1, <2>5, <3>1 DEF PastIds
    <2> QED BY <2>4, <2>5
<1>3. CASE ~Copy!UseKeyset
    <2>1. PastCount(run)
        BY <1>1, <1>3 DEF RunOK
    <2> QED BY <1>3, <2>1, CountedPageIs DEF PastCount
<1> QED BY <1>2, <1>3

\* What a run vouches for when it ends is so of its rows.
LEMMA VouchedIsExact ==
    ASSUME CopyInv, run # None, Copy!Page(run) = {}, Copy!Vouched # None, NEW i \in Copy!Held(source)
    PROVE  /\ Copy!Dated /\ source[i].at < Copy!Vouched => run.rows[i] = source[i]
           /\ source[i].added < Copy!Vouched => run.rows[i] # None
<1>1. /\ run.mode \in {"full", "delta"} /\ run.since \in Nat /\ run.start \in Nat /\ i \in Ids
      /\ source[i].added \in Nat /\ source[i].at \in Nat /\ source[i].added <= source[i].at
      /\ source[i] # None
    BY CopyFacts DEF Copy!Held
<1>2. /\ first \in Nat /\ first <= run.start /\ (covered # None => covered \in Nat)
      /\ FreshIn(run.rows) /\ ExactIn(run.rows)
    BY DEF CopyInv, CopyTypes, RunsInOrder, RunOK
<1>3. /\ source[i].added < run.start /\ (Copy!Upserts(run) => run.since <= source[i].added)
             => run.rows[i] # None
      /\ Copy!Upserts(run) /\ run.since <= source[i].at /\ source[i].at < run.start
             => run.rows[i] = source[i]
    BY NothingLeft
<1>4. covered # None =>
        /\ Copy!Dated /\ source[i].at < covered => run.rows[i] = source[i]
        /\ source[i].added < covered => run.rows[i] # None
    BY <1>2 DEF ExactIn
<1>5. CASE ~Copy!Dated
    <2>1. Copy!Vouched = run.start /\ ~Copy!Upserts(run)
        BY <1>5 DEF Copy!Vouched, Copy!Upserts
    <2> QED BY <1>3, <1>5, <2>1
<1>6. CASE Copy!Dated /\ run.mode = "full"
    <2>1. Copy!Vouched = (IF covered = None THEN first ELSE covered) /\ ~Copy!Upserts(run)
        BY <1>6 DEF Copy!Vouched, Copy!Upserts
    <2>2. CASE covered = None
        <3>1. source[i].added < first => run.rows[i] # None
            BY <1>1, <1>2, <1>3, <2>1
        <3>2. ASSUME source[i].at < first PROVE run.rows[i] = source[i]
            <4>1. run.rows[i] # None
                BY <1>1, <1>2, <3>1, <3>2
            <4> QED BY <1>1, <1>2, <3>2, <4>1, NoneIsNoRow DEF FreshIn
        <3> QED BY <2>1, <2>2, <3>1, <3>2
    <2> QED BY <1>4, <2>1, <2>2
<1>7. CASE Copy!Dated /\ run.mode # "full"
    <2>1. /\ Copy!Vouched = IF covered # None /\ run.since <= covered THEN run.start ELSE covered
          /\ Copy!Upserts(run)
        BY <1>1, <1>7 DEF Copy!Vouched, Copy!Upserts
    <2>2. CASE covered # None /\ run.since <= covered
        <3>1. ASSUME source[i].at < run.start PROVE run.rows[i] = source[i]
            <4>1. CASE run.since <= source[i].at
                BY <1>3, <2>1, <3>1, <4>1
            <4>2. CASE ~(run.since <= source[i].at)
                <5>1. source[i].at < covered
                    BY <1>1, <1>2, <2>2, <4>2
                <5> QED BY <1>4, <1>7, <2>2, <5>1
            <4> QED BY <4>1, <4>2
        <3>2. ASSUME source[i].added < run.start PROVE run.rows[i] # None
            <4>1. CASE run.since <= source[i].added
                BY <1>3, <3>2, <4>1
            <4>2. CASE ~(run.since <= source[i].added)
                <5>1. source[i].added < covered
                    BY <1>1, <1>2, <2>2, <4>2
                <5> QED BY <1>4, <2>2, <5>1
            <4> QED BY <4>1, <4>2
        <3> QED BY <2>1, <2>2, <3>1, <3>2
    <2>3. CASE ~(covered # None /\ run.since <= covered)
        BY <1>4, <2>1, <2>3
    <2> QED BY <2>2, <2>3
<1> QED BY <1>5, <1>6, <1>7

LEMMA FinishCopyOK == ASSUME CopyInv, Copy!FinishCopy PROVE CopyInv'
<1>1. /\ run # None /\ Copy!Page(run) = {}
      /\ target' = run.rows /\ covered' = Copy!Vouched /\ run' = None
      /\ sequence' = Copy!Max(Copy!Held(target') \cup {0})
      /\ UNCHANGED <<kind, source, now, changes, first>>
    BY DEF Copy!FinishCopy
<1>2. /\ run.rows \in CopyTables /\ run.start \in Nat /\ first \in Nat /\ first <= run.start
      /\ run.start <= now /\ now \in Nat /\ first # None
      /\ covered # None => covered \in Nat /\ covered <= now
    BY <1>1, CopyFacts DEF CopyInv, CopyTypes, RunsInOrder
<1>3. Copy!Vouched \in {run.start, first, covered}
    BY DEF Copy!Vouched
<1>4. covered' \in Nat \cup {None} /\ (covered' # None => covered' <= now)
    BY <1>1, <1>2, <1>3
<1>5. CopyTypes'
    BY <1>1, <1>2, <1>4 DEF CopyInv, CopyTypes
<1>6. Copy!Held(source)' = Copy!Held(source) /\ (Copy!Dated' <=> Copy!Dated)
    BY <1>1 DEF Copy!Held, Copy!Dated
<1>7. SourceDated' /\ RunsInOrder'
    BY <1>1, <1>2, <1>4, <1>6 DEF CopyInv, SourceDated, RunsInOrder
<1>8. FreshIn(target)'
    <2>1. FreshIn(run.rows)
        BY <1>1 DEF CopyInv, RunOK
    <2> QED BY <1>1, <2>1 DEF FreshIn
<1>9. ASSUME covered' # None, NEW i \in Copy!Held(source)
      PROVE  /\ Copy!Dated /\ source[i].at < covered' => run.rows[i] = source[i]
             /\ source[i].added < covered' => run.rows[i] # None
    BY <1>1, <1>9, VouchedIsExact
<1>10. ExactIn(target)'
    BY <1>1, <1>6, <1>9 DEF ExactIn
<1>11. SequenceOK'
    <2>1. Copy!Held(run.rows) \in SUBSET Ids
        BY DEF Copy!Held
    <2>2. Copy!Held(target') = Copy!Held(run.rows)
        BY <1>1
    <2>3. /\ Copy!Held(run.rows) \cup {0} \in SUBSET Nat /\ IsFiniteSet(Copy!Held(run.rows) \cup {0})
          /\ Copy!Held(run.rows) \cup {0} # {}
        BY <2>1, IdsAreNumbers, FS_AddElement
    <2>4. \A i \in Copy!Held(run.rows) : i <= sequence'
        BY <1>1, <2>2, <2>3, MaxIs
    <2>5. ASSUME covered' # None, NEW i \in Copy!Held(source), source[i].added < covered'
          PROVE  i <= sequence'
        <3>1. i \in Ids /\ run.rows[i] # None
            BY <1>9, <2>5, CopyFacts
        <3>2. i \in Copy!Held(run.rows)
            BY <3>1 DEF Copy!Held
        <3> QED BY <2>4, <3>2
    <2> QED BY <1>1, <1>6, <2>5 DEF SequenceOK
<1>12. RunOK'
    BY <1>1 DEF RunOK
<1> QED BY <1>5, <1>7, <1>8, <1>10, <1>11, <1>12 DEF CopyInv

LEMMA CopyStep ==
    ASSUME CopyInv, Copy!Next \/ UNCHANGED copyVars
    PROVE  CopyInv'
<1>1. CASE UNCHANGED copyVars
    <2>1. UNCHANGED <<kind, source, target, sequence, now, changes, run, runs, first, covered>>
        BY <1>1 DEF copyVars
    <2>2. Copy!Held(source)' = Copy!Held(source) /\ (Copy!Dated' <=> Copy!Dated)
          /\ (Copy!UseKeyset' <=> Copy!UseKeyset) /\ (Copy!Upserts(run)' <=> Copy!Upserts(run))
        BY <2>1 DEF Copy!Held, Copy!Dated, Copy!UseKeyset, Copy!Upserts
    <2>3. PastIds(run) => PastIds(run)'
        BY <2>1, <2>2 DEF PastIds
    <2>4. PastCount(run) => PastCount(run)'
        BY <2>1, <2>2 DEF PastCount, Copy!Rank
    <2>5. RunOK'
        BY <2>1, <2>2, <2>3, <2>4 DEF CopyInv, RunOK, FreshIn, ExactIn
    <2> QED BY <2>1, <2>2, <2>5 DEF CopyInv, CopyTypes, SourceDated, RunsInOrder, FreshIn, ExactIn, SequenceOK
<1> QED BY <1>1, DescribeOK, SourceChangeOK, TimePassesOK, BeginCopyOK, CopyPageOK, FinishCopyOK, FailCopyOK
        DEF Copy!Next

\* What was last changed before the time the copy vouches for is in it as it is in
\* the source, whatever pages were read while rows were added and changed, whatever
\* runs failed half way and were run again (copyTable and resetSequences of copy.mjs).
THEOREM CopiesAreExact == Spec => []CopyIsExact
<1>1. Init => CopyInv
    BY CopyStarts DEF Init
<1>2. CopyInv /\ [Next]_serviceVars => CopyInv'
    BY CopyStep, EachTakesItsOwnSteps
<1>3. CopyInv => CopyIsExact
    BY DEF CopyInv, ExactIn, SequenceOK, CopyIsExact, Copy!CopyIsExact
<1> QED BY <1>1, <1>2, <1>3, PTL DEF Spec
-----------------------------------------------------------------------------
(* AiLedger, for every limit, number of requests and time that records are *)
(* kept for, of two days at least.                                         *)

LEMMA LedgerConstants ==
    /\ IsFiniteSet(Questions)
    /\ Cap \in Nat \ {0} /\ MaxDay \in Nat /\ MaxAnswers \in Nat
    /\ Retention \in Nat /\ Retention >= 2
    /\ \A S : Ledger!Cardinality(S) = Cardinality(S)
<1>1. \A S : Ledger!Cardinality(S) = Cardinality(S)
    BY DEF Ledger!Cardinality, Cardinality
<1> QED BY <1>1, ServicesOK DEF ServicesOK, LedgerOK

LedgerTypes ==
    /\ day \in Ledger!Days
    /\ raw \in [Ledger!Days -> Nat] /\ recorded \in [Ledger!Days -> Nat] /\ daily \in [Ledger!Days -> Nat]
    /\ asking \in [Questions -> {"idle", "allowed", "calling"}]
    /\ started \in Nat /\ unseen \in Nat
    /\ ledgerFolded \subseteq Ledger!Days

\* Requests that have passed the check, and those the model is answering.
Allowed == {r \in Questions : asking[r] = "allowed"}

Calling == {r \in Questions : asking[r] = "calling"}

\* What was started today is in today's sum, under way, or was never seen; so
\* that a request which passes the check has room up to the bound.
Accounted ==
    /\ started <= raw[day] + Cardinality(Calling) + unseen
    /\ started + Cardinality(Allowed) <= Cap - 1 + Cardinality(Questions) + unseen

\* What is known of one day.
DayOK(d) ==
    /\ daily[d] \in {recorded[d], Ledger!NoRow}
    /\ d \in ledgerFolded /\ recorded[d] > 0 => daily[d] = recorded[d]
    /\ d <= day /\ day < d + Retention => raw[d] = recorded[d]
    /\ d >= day => d \notin ledgerFolded /\ daily[d] = Ledger!NoRow
    /\ d > day => raw[d] = 0 /\ recorded[d] = 0

LedgerInv == LedgerTypes /\ Accounted /\ \A d \in Ledger!Days : DayOK(d)
-----------------------------------------------------------------------------
(* Requests are in one state each. *)

LEMMA Counts ==
    ASSUME NEW A \in SUBSET Questions, NEW C \in SUBSET Questions, A \cap C = {}
    PROVE  /\ IsFiniteSet(A) /\ IsFiniteSet(C)
           /\ Cardinality(A) \in Nat /\ Cardinality(C) \in Nat /\ Cardinality(Questions) \in Nat
           /\ Cardinality(A) + Cardinality(C) <= Cardinality(Questions)
<1>1. IsFiniteSet(A) /\ IsFiniteSet(C) /\ IsFiniteSet(Questions)
    BY LedgerConstants, FS_Subset 
<1>2. /\ Cardinality(A) \in Nat /\ Cardinality(C) \in Nat /\ Cardinality(Questions) \in Nat
    BY <1>1, FS_CardinalityType
<1>3. Cardinality(A \cup C) = Cardinality(A) + Cardinality(C) - Cardinality({})
    BY <1>1, FS_Union
<1>4. Cardinality(A \cup C) <= Cardinality(Questions)
    BY <1>1, FS_Subset
<1> QED BY <1>1, <1>2, <1>3, <1>4, FS_EmptySet

\* The present counts.
LEMMA NowCounts ==
    ASSUME LedgerInv
    PROVE  /\ IsFiniteSet(Allowed) /\ IsFiniteSet(Calling)
           /\ Cardinality(Allowed) \in Nat /\ Cardinality(Calling) \in Nat
           /\ Cardinality(Questions) \in Nat
           /\ Cardinality(Allowed) + Cardinality(Calling) <= Cardinality(Questions)
           /\ Ledger!NoRow \in Nat
<1>1. Allowed \in SUBSET Questions /\ Calling \in SUBSET Questions /\ Allowed \cap Calling = {}
    BY DEF Allowed, Calling
<1>2. Cardinality(Questions) \in Nat => Ledger!NoRow \in Nat
    BY LedgerConstants DEF Ledger!NoRow
<1> QED BY <1>1, <1>2, Counts

\* What a change of one request does to the counts.
LEMMA Moves ==
    ASSUME LedgerInv, NEW r \in Questions,
           NEW s \in {"idle", "allowed", "calling"}, asking' = [asking EXCEPT ![r] = s]
    PROVE  /\ Cardinality(Allowed)' = Cardinality(Allowed)
                  + (IF s = "allowed" THEN 1 ELSE 0) - (IF asking[r] = "allowed" THEN 1 ELSE 0)
           /\ Cardinality(Calling)' = Cardinality(Calling)
                  + (IF s = "calling" THEN 1 ELSE 0) - (IF asking[r] = "calling" THEN 1 ELSE 0)
<1>1. /\ Allowed' = IF s = "allowed" THEN Allowed \cup {r} ELSE Allowed \ {r}
      /\ Calling' = IF s = "calling" THEN Calling \cup {r} ELSE Calling \ {r}
    BY DEF Allowed, Calling, LedgerInv, LedgerTypes
<1>2. (r \in Allowed <=> asking[r] = "allowed") /\ (r \in Calling <=> asking[r] = "calling")
    BY DEF Allowed, Calling
<1>3. /\ Cardinality(Allowed)' = Cardinality(Allowed') /\ Cardinality(Calling)' = Cardinality(Calling')
    OBVIOUS
<1> DEFINE A == Allowed
           C == Calling
<1>4. /\ IsFiniteSet(A) /\ IsFiniteSet(C) /\ Cardinality(A) \in Nat /\ Cardinality(C) \in Nat
    BY NowCounts
<1> HIDE DEF A, C
<1>5. /\ Cardinality(A \cup {r}) = IF r \in A THEN Cardinality(A) ELSE Cardinality(A) + 1
      /\ Cardinality(A \ {r}) = IF r \in A THEN Cardinality(A) - 1 ELSE Cardinality(A)
      /\ Cardinality(C \cup {r}) = IF r \in C THEN Cardinality(C) ELSE Cardinality(C) + 1
      /\ Cardinality(C \ {r}) = IF r \in C THEN Cardinality(C) - 1 ELSE Cardinality(C)
    BY <1>4, FS_AddElement, FS_RemoveElement
<1> QED BY <1>1, <1>2, <1>3, <1>4, <1>5 DEF A, C
-----------------------------------------------------------------------------
(* The steps. *)

LEMMA LedgerInit == ASSUME Ledger!Init PROVE LedgerInv
<1>1. Allowed = {} /\ Calling = {} /\ Cardinality({}) = 0
    BY FS_EmptySet DEF Ledger!Init, Allowed, Calling
<1>2. Cardinality(Questions) \in Nat /\ Ledger!NoRow \in Nat
    BY LedgerConstants, FS_CardinalityType DEF Ledger!NoRow
<1>3. LedgerTypes
    BY LedgerConstants, <1>2 DEF Ledger!Init, LedgerTypes, Ledger!Days
<1>4. Accounted
    BY LedgerConstants, <1>1, <1>2 DEF Ledger!Init, Accounted, Ledger!Days
<1>5. \A d \in Ledger!Days : DayOK(d)
    BY LedgerConstants DEF Ledger!Init, DayOK, Ledger!Days
<1> QED BY <1>3, <1>4, <1>5 DEF LedgerInv

\* A request that changes nothing but its own state and today's counts.
LEMMA DaysStay ==
    ASSUME LedgerInv, UNCHANGED <<day, raw, daily, recorded, ledgerFolded>>
    PROVE  \A d \in Ledger!Days : DayOK(d)'
BY DEF LedgerInv, DayOK

LEMMA CheckOK ==
    ASSUME LedgerInv, NEW r \in Questions, Ledger!CheckCap(r) PROVE LedgerInv'
<1>1. /\ asking[r] = "idle" /\ raw[day] < Cap /\ asking' = [asking EXCEPT ![r] = "allowed"]
      /\ UNCHANGED <<day, raw, daily, recorded, started, unseen, ledgerFolded>>
    BY DEF Ledger!CheckCap, Ledger!Spent
<1>2. /\ Cardinality(Allowed)' = Cardinality(Allowed) + 1
      /\ Cardinality(Calling)' = Cardinality(Calling)
    <2>1. "allowed" \in {"idle", "allowed", "calling"}
        OBVIOUS
    <2>2. /\ Cardinality(Allowed)' = Cardinality(Allowed)
                 + (IF "allowed" = "allowed" THEN 1 ELSE 0) - (IF asking[r] = "allowed" THEN 1 ELSE 0)
          /\ Cardinality(Calling)' = Cardinality(Calling)
                 + (IF "allowed" = "calling" THEN 1 ELSE 0) - (IF asking[r] = "calling" THEN 1 ELSE 0)
        BY <1>1, <2>1, Moves
    <2> QED BY <1>1, <2>2, NowCounts
<1>3. Cardinality(Allowed)' + Cardinality(Calling)' <= Cardinality(Questions)
    <2>1. Allowed' \in SUBSET Questions /\ Calling' \in SUBSET Questions /\ Allowed' \cap Calling' = {}
        BY DEF Allowed, Calling
    <2> QED BY <2>1, Counts
<1>4. LedgerTypes'
    BY <1>1 DEF LedgerInv, LedgerTypes
<1>5. Accounted'
    <2>1. raw[day] \in Nat /\ started \in Nat /\ unseen \in Nat /\ Cap \in Nat \ {0}
        BY LedgerConstants DEF LedgerInv, LedgerTypes
    <2>2. started <= raw[day] + Cardinality(Calling) + unseen
        BY DEF LedgerInv, Accounted
    <2>3. /\ started' <= raw'[day'] + Cardinality(Calling)' + unseen'
          /\ started' + Cardinality(Allowed)' <= Cap - 1 + Cardinality(Questions) + unseen'
        BY <1>1, <1>2, <1>3, <2>1, <2>2, NowCounts
    <2> QED BY <2>3 DEF Accounted
<1> QED BY <1>1, <1>4, <1>5, DaysStay DEF LedgerInv

LEMMA StartsOK ==
    ASSUME LedgerInv, NEW r \in Questions,
           Ledger!Call(r) \/ Ledger!CallUnchecked(r)
    PROVE  LedgerInv'
<1>1. /\ asking' = [asking EXCEPT ![r] = "calling"] /\ started' = started + 1
      /\ UNCHANGED <<day, raw, daily, recorded, ledgerFolded>>
      /\ \/ asking[r] = "allowed" /\ unseen' = unseen
         \/ asking[r] = "idle" /\ unseen' = unseen + 1
    BY DEF Ledger!Call, Ledger!CallUnchecked, Ledger!Starts
<1>2. /\ Cardinality(Calling)' = Cardinality(Calling) + 1
      /\ Cardinality(Allowed)' = Cardinality(Allowed) - (IF asking[r] = "allowed" THEN 1 ELSE 0)
    <2>1. "calling" \in {"idle", "allowed", "calling"}
        OBVIOUS
    <2>2. /\ Cardinality(Allowed)' = Cardinality(Allowed)
                 + (IF "calling" = "allowed" THEN 1 ELSE 0) - (IF asking[r] = "allowed" THEN 1 ELSE 0)
          /\ Cardinality(Calling)' = Cardinality(Calling)
                 + (IF "calling" = "calling" THEN 1 ELSE 0) - (IF asking[r] = "calling" THEN 1 ELSE 0)
        BY <1>1, <2>1, Moves
    <2> QED BY <1>1, <2>2, NowCounts
<1>3. raw[day] \in Nat /\ started \in Nat /\ unseen \in Nat /\ Cap \in Nat
    BY LedgerConstants DEF LedgerInv, LedgerTypes
<1>4. LedgerTypes'
    BY <1>1, <1>3 DEF LedgerInv, LedgerTypes
<1>5. Accounted'
    <2>1. /\ started <= raw[day] + Cardinality(Calling) + unseen
          /\ started + Cardinality(Allowed) <= Cap - 1 + Cardinality(Questions) + unseen
        BY DEF LedgerInv, Accounted
    <2>2. /\ started' <= raw'[day'] + Cardinality(Calling)' + unseen'
          /\ started' + Cardinality(Allowed)' <= Cap - 1 + Cardinality(Questions) + unseen'
        BY <1>1, <1>2, <1>3, <2>1, NowCounts
    <2> QED BY <2>2 DEF Accounted
<1> QED BY <1>1, <1>4, <1>5, DaysStay DEF LedgerInv

LEMMA RecordOK ==
    ASSUME LedgerInv, NEW r \in Questions, Ledger!Record(r) PROVE LedgerInv'
<1>1. /\ asking[r] = "calling" /\ asking' = [asking EXCEPT ![r] = "idle"]
      /\ raw' = [raw EXCEPT ![day] = raw[day] + 1]
      /\ recorded' = [recorded EXCEPT ![day] = recorded[day] + 1]
      /\ UNCHANGED <<day, daily, started, unseen, ledgerFolded>>
    BY DEF Ledger!Record
<1>2. /\ Cardinality(Calling)' = Cardinality(Calling) - 1
      /\ Cardinality(Allowed)' = Cardinality(Allowed)
    <2>1. "idle" \in {"idle", "allowed", "calling"}
        OBVIOUS
    <2>2. /\ Cardinality(Allowed)' = Cardinality(Allowed)
                 + (IF "idle" = "allowed" THEN 1 ELSE 0) - (IF asking[r] = "allowed" THEN 1 ELSE 0)
          /\ Cardinality(Calling)' = Cardinality(Calling)
                 + (IF "idle" = "calling" THEN 1 ELSE 0) - (IF asking[r] = "calling" THEN 1 ELSE 0)
        BY <1>1, <2>1, Moves
    <2> QED BY <1>1, <2>2, NowCounts
<1>3. /\ day \in Ledger!Days /\ day \in Nat /\ raw[day] \in Nat /\ recorded[day] \in Nat
      /\ started \in Nat /\ unseen \in Nat /\ Retention \in Nat /\ Retention >= 2
    BY LedgerConstants DEF LedgerInv, LedgerTypes, Ledger!Days
<1>4. LedgerTypes'
    BY <1>1, <1>3 DEF LedgerInv, LedgerTypes
<1>5. Accounted'
    <2>1. /\ started <= raw[day] + Cardinality(Calling) + unseen
          /\ started + Cardinality(Allowed) <= Cap - 1 + Cardinality(Questions) + unseen
        BY DEF LedgerInv, Accounted
    <2>2. raw'[day'] = raw[day] + 1
        BY <1>1, <1>3 DEF LedgerInv, LedgerTypes
    <2>3. /\ started' <= raw'[day'] + Cardinality(Calling)' + unseen'
          /\ started' + Cardinality(Allowed)' <= Cap - 1 + Cardinality(Questions) + unseen'
        BY <1>1, <1>2, <1>3, <2>1, <2>2, NowCounts
    <2> QED BY <2>3 DEF Accounted
<1>6. ASSUME NEW d \in Ledger!Days PROVE DayOK(d)'
    <2>1. DayOK(d) /\ d \in Nat
        BY DEF LedgerInv, Ledger!Days
    <2>2. CASE d = day
        <3>1. raw'[d] = raw[d] + 1 /\ recorded'[d] = recorded[d] + 1
            BY <1>1, <1>3, <2>2 DEF LedgerInv, LedgerTypes
        <3>2. raw[d] = recorded[d] /\ d \notin ledgerFolded /\ daily[d] = Ledger!NoRow
            BY <1>3, <2>1, <2>2 DEF DayOK
        <3> QED BY <1>1, <1>3, <2>2, <3>1, <3>2 DEF DayOK
    <2>3. CASE d # day
        <3>1. raw'[d] = raw[d] /\ recorded'[d] = recorded[d]
            BY <1>1, <1>3, <2>3 DEF LedgerInv, LedgerTypes
        <3> QED BY <1>1, <2>1, <3>1 DEF DayOK, Ledger!NoRow
    <2> QED BY <2>2, <2>3
<1> QED BY <1>4, <1>5, <1>6 DEF LedgerInv

LEMMA RecordFailsOK ==
    ASSUME LedgerInv, NEW r \in Questions, Ledger!RecordFails(r) PROVE LedgerInv'
<1>1. /\ asking[r] = "calling" /\ asking' = [asking EXCEPT ![r] = "idle"] /\ unseen' = unseen + 1
      /\ UNCHANGED <<day, raw, daily, recorded, started, ledgerFolded>>
    BY DEF Ledger!RecordFails
<1>2. /\ Cardinality(Calling)' = Cardinality(Calling) - 1
      /\ Cardinality(Allowed)' = Cardinality(Allowed)
    <2>1. "idle" \in {"idle", "allowed", "calling"}
        OBVIOUS
    <2>2. /\ Cardinality(Allowed)' = Cardinality(Allowed)
                 + (IF "idle" = "allowed" THEN 1 ELSE 0) - (IF asking[r] = "allowed" THEN 1 ELSE 0)
          /\ Cardinality(Calling)' = Cardinality(Calling)
                 + (IF "idle" = "calling" THEN 1 ELSE 0) - (IF asking[r] = "calling" THEN 1 ELSE 0)
        BY <1>1, <2>1, Moves
    <2> QED BY <1>1, <2>2, NowCounts
<1>3. raw[day] \in Nat /\ started \in Nat /\ unseen \in Nat /\ Cap \in Nat
    BY LedgerConstants DEF LedgerInv, LedgerTypes
<1>4. LedgerTypes'
    BY <1>1, <1>3 DEF LedgerInv, LedgerTypes
<1>5. Accounted'
    <2>1. /\ started <= raw[day] + Cardinality(Calling) + unseen
          /\ started + Cardinality(Allowed) <= Cap - 1 + Cardinality(Questions) + unseen
        BY DEF LedgerInv, Accounted
    <2>2. /\ started' <= raw'[day'] + Cardinality(Calling)' + unseen'
          /\ started' + Cardinality(Allowed)' <= Cap - 1 + Cardinality(Questions) + unseen'
        BY <1>1, <1>2, <1>3, <2>1, NowCounts
    <2> QED BY <2>2 DEF Accounted
<1> QED BY <1>1, <1>4, <1>5, DaysStay DEF LedgerInv

\* The sets of requests, seen from the next state.
LEMMA CountsStay ==
    ASSUME UNCHANGED asking
    PROVE  Cardinality(Allowed)' = Cardinality(Allowed) /\ Cardinality(Calling)' = Cardinality(Calling)
<1>1. Allowed' = Allowed /\ Calling' = Calling
    BY DEF Allowed, Calling
<1> QED BY <1>1

LEMMA MidnightOK == ASSUME LedgerInv, Ledger!Midnight PROVE LedgerInv'
<1>1. /\ day < MaxDay /\ day' = day + 1 /\ started' = 0 /\ unseen' = 0
      /\ UNCHANGED <<raw, daily, recorded, asking, ledgerFolded>>
    BY DEF Ledger!Midnight
<1>2. day \in Nat /\ day' \in Ledger!Days /\ Retention \in Nat /\ Retention >= 2
    BY LedgerConstants, <1>1 DEF LedgerInv, LedgerTypes, Ledger!Days
<1>3. LedgerTypes'
    BY <1>1, <1>2 DEF LedgerInv, LedgerTypes
<1>4. Accounted'
    <2>1. raw'[day'] \in Nat /\ Cap \in Nat \ {0}
        BY LedgerConstants, <1>3 DEF LedgerTypes
    <2>2. /\ started' <= raw'[day'] + Cardinality(Calling)' + unseen'
          /\ started' + Cardinality(Allowed)' <= Cap - 1 + Cardinality(Questions) + unseen'
        BY <1>1, <2>1, CountsStay, NowCounts
    <2> QED BY <2>2 DEF Accounted
<1>5. ASSUME NEW d \in Ledger!Days PROVE DayOK(d)'
    <2>1. DayOK(d) /\ d \in Nat
        BY DEF LedgerInv, Ledger!Days
    <2> QED BY <1>1, <1>2, <2>1 DEF DayOK, Ledger!NoRow
<1> QED BY <1>3, <1>4, <1>5 DEF LedgerInv

LEMMA NightlyOK == ASSUME LedgerInv, Ledger!Nightly PROVE LedgerInv'
<1>1. PICK rolled \in BOOLEAN, pruned \in BOOLEAN : Ledger!RollUp(rolled) /\ Ledger!Prune(pruned)
    BY DEF Ledger!Nightly
<1>2. UNCHANGED <<day, recorded, asking, started, unseen>>
    BY DEF Ledger!Nightly
<1>3. /\ day \in Ledger!Days /\ day \in Nat /\ Retention \in Nat /\ Retention >= 2 /\ MaxAnswers \in Nat
    BY LedgerConstants DEF LedgerInv, LedgerTypes, Ledger!Days
<1>4. /\ raw' \in [Ledger!Days -> Nat]
      /\ \A d \in Ledger!Days : day < d + Retention => raw'[d] = raw[d]
    <2>1. CASE ~pruned
        BY <1>1, <2>1 DEF Ledger!Prune, LedgerInv, LedgerTypes
    <2>2. CASE pruned
        <3>1. PICK kept \in 0..MaxAnswers :
                  raw' = [d \in Ledger!Days |->
                      IF d + Retention < day THEN 0
                      ELSE IF d + Retention = day /\ kept < raw[d] THEN kept ELSE raw[d]]
            BY <1>1, <2>2 DEF Ledger!Prune
        <3>2. \A d \in Ledger!Days : d \in Nat /\ raw[d] \in Nat
            BY DEF LedgerInv, LedgerTypes, Ledger!Days
        <3> QED BY <1>3, <3>1, <3>2
    <2> QED BY <2>1, <2>2
<1>5. \/ UNCHANGED <<daily, ledgerFolded>>
      \/ /\ day > 0
         /\ daily' = IF raw[day - 1] = 0 THEN daily
                     ELSE [daily EXCEPT ![day - 1] = raw[day - 1]]
         /\ ledgerFolded' = ledgerFolded \cup {day - 1}
    BY <1>1 DEF Ledger!RollUp, Ledger!Folded
<1>6. LedgerTypes'
    <2>1. day > 0 => day - 1 \in Ledger!Days /\ raw[day - 1] \in Nat
        BY LedgerConstants, <1>3 DEF LedgerInv, LedgerTypes, Ledger!Days
    <2> QED BY <1>2, <1>4, <1>5, <2>1 DEF LedgerInv, LedgerTypes
<1>7. Accounted'
    <2>1. raw'[day'] = raw[day]
        BY <1>2, <1>3, <1>4
    <2> QED BY <1>2, <2>1, CountsStay DEF LedgerInv, Accounted
<1>8. ASSUME NEW d \in Ledger!Days PROVE DayOK(d)'
    <2>1. DayOK(d) /\ d \in Nat
        BY DEF LedgerInv, Ledger!Days
    <2>2. /\ d <= day /\ day < d + Retention => raw'[d] = recorded[d]
          /\ d > day => raw'[d] = 0 /\ recorded[d] = 0
        BY <1>3, <1>4, <2>1 DEF DayOK
    <2>3. CASE UNCHANGED <<daily, ledgerFolded>> \/ d # day - 1
        <3>1. daily'[d] = daily[d] /\ (d \in ledgerFolded' <=> d \in ledgerFolded)
            BY <1>5, <2>3 DEF LedgerInv, LedgerTypes
        <3> QED BY <1>2, <2>1, <2>2, <3>1 DEF DayOK, Ledger!NoRow
    <2>4. CASE ~UNCHANGED <<daily, ledgerFolded>> /\ d = day - 1
        <3>1. raw[d] = recorded[d] /\ ~(d >= day)
            BY <1>3, <2>1, <2>4 DEF DayOK
        <3>2. daily'[d] = IF raw[d] = 0 THEN daily[d] ELSE raw[d]
            BY <1>5, <2>4 DEF LedgerInv, LedgerTypes
        <3>3. raw[d] \in Nat
            BY DEF LedgerInv, LedgerTypes
        <3> QED BY <1>2, <2>1, <2>2, <3>1, <3>2, <3>3 DEF DayOK, Ledger!NoRow
    <2> QED BY <2>3, <2>4
<1> QED BY <1>6, <1>7, <1>8 DEF LedgerInv

LEMMA LedgerStutter == ASSUME LedgerInv, UNCHANGED ledgerVars PROVE LedgerInv'
<1>1. LedgerTypes' /\ \A d \in Ledger!Days : DayOK(d)'
    BY DEF ledgerVars, LedgerInv, LedgerTypes, DayOK
<1>2. Accounted'
    BY CountsStay DEF ledgerVars, LedgerInv, Accounted
<1> QED BY <1>1, <1>2 DEF LedgerInv

LEMMA LedgerStep == ASSUME LedgerInv, [Ledger!Next]_ledgerVars PROVE LedgerInv'
BY CheckOK, StartsOK, RecordOK, RecordFailsOK, MidnightOK, NightlyOK, LedgerStutter DEF Ledger!Next
-----------------------------------------------------------------------------
LEMMA LedgerInvariant == Spec => []LedgerInv
<1>1. Init => LedgerInv
    BY LedgerInit DEF Init
<1>2. LedgerInv /\ [Next]_serviceVars => LedgerInv'
    BY LedgerStep, EachTakesItsOwnSteps
<1> QED BY <1>1, <1>2, PTL DEF Spec

\* In every run of the services, a day's answers pass the limit by no more than
\* the requests under way at once and the calls the sum never held (allWithLLM).
THEOREM AnswersKeepToCap == Spec => []AnswersBounded
<1>1. LedgerInv => AnswersBounded
    BY NowCounts, LedgerConstants
    DEF LedgerInv, LedgerTypes, Accounted, AnswersBounded, Ledger!AnswersBounded
<1> QED BY <1>1, LedgerInvariant, PTL

\* In every run of the services, what a past day cost is known from its daily row
\* and its records, unless no roll-up succeeded on the day after it.
THEOREM CostsAreRemembered == Spec => []DaysRemembered
<1>1. LedgerInv => DaysRemembered
    BY DEF LedgerInv, DayOK, DaysRemembered, Ledger!DaysRemembered
<1> QED BY <1>1, LedgerInvariant, PTL
-----------------------------------------------------------------------------
(* MarketCache, for all pages, times to live and numbers of requests.      *)

LEMMA MarketConstants ==
    /\ {Short, Long, Day} \subseteq Nat \ {0} /\ MaxMinutes \in Nat /\ MaxCalls \in Nat
    /\ Forced \subseteq Pages
    /\ Pages \cap {"indices", "lastGood", "stocks", "prices"} = {}
    /\ None \notin Nat /\ None \notin [born: Nat, left: Nat] /\ None \notin Market!Keys
BY ServicesOK DEF ServicesOK, MarketOK, LimitOK, Market!Keys, Market!Asked

\* A value is dropped when it has reached its age.
AgesOK ==
    \A key \in Market!Keys : held[key] # None =>
        held[key].born <= minute /\ held[key].born + Market!Ttl(key) = minute + held[key].left

\* The reserve is the newest answer, and there as long as that is of today.
ReserveOK ==
    LET last == held["lastGood"] IN
    /\ newest # None => newest <= minute
    /\ last # None => last.born = newest
    /\ newest # None /\ minute - newest < Day => last # None

\* Handlers that wait know what for; only the indices have a reserve.
ReadersOK ==
    \A h \in Handlers :
        /\ reader[h].at \in {"list", "fetchList", "fetch", "reserve"} => reader[h].key # None
        /\ reader[h].at = "reserve" => reader[h].key = "indices"

MarketInv == Market!TypeOK /\ AgesOK /\ ReserveOK /\ ReadersOK

\* What IndicesStandIn says of one step.
StandsIn ==
    \A h \in Handlers : Market!Ends(h) =>
        LET born == reader'[h].born
            key == reader'[h].key
        IN  IF reader[h].at = "reserve"
            THEN IF newest # None /\ minute - newest < Day THEN born = newest ELSE born = None
            ELSE born # None => minute - born < Market!Ttl(key)
-----------------------------------------------------------------------------
LEMMA TtlOK ==
        /\ \A key \in Market!Keys : Market!Ttl(key) \in Nat \ {0}
           /\ Market!Ttl("lastGood") = Day
BY MarketConstants DEF Market!Ttl

LEMMA MarketInit == ASSUME Market!Init PROVE MarketInv
<1>1. Market!TypeOK
    BY MarketConstants DEF Market!Init, Market!TypeOK, Market!Rests
<1>2. AgesOK /\ ReserveOK /\ ReadersOK
    BY DEF Market!Init, AgesOK, ReserveOK, ReadersOK, Market!Rests, Market!Keys
<1> QED BY <1>1, <1>2 DEF MarketInv

\* No handler ends in a step that leaves the handlers alone.
LEMMA NobodyEnds == ASSUME UNCHANGED reader PROVE StandsIn
BY DEF StandsIn, Market!Ends

\* Steps of a handler that leave the cache alone.
LEMMA MarketStepOK ==
    ASSUME MarketInv, NEW h \in Handlers,
           NEW state \in [at: {"rest", "list", "fetchList", "fetch", "reserve", "answered"},
                          key: Market!Asked \cup {None}, born: Nat \cup {None}],
           Market!Step(h, state), UNCHANGED <<minute, held, newest>>, began' \in 0..MaxCalls,
           state.at \in {"list", "fetchList", "fetch", "reserve"} => state.key # None,
           state.at = "reserve" => state.key = "indices"
    PROVE  MarketInv'
<1>1. reader' = [reader EXCEPT ![h] = state]
    BY DEF Market!Step
<1>2. Market!TypeOK' /\ ReadersOK'
    BY <1>1 DEF MarketInv, Market!TypeOK, ReadersOK
<1>3. AgesOK' /\ ReserveOK'
    BY DEF MarketInv, AgesOK, ReserveOK
<1> QED BY <1>2, <1>3 DEF MarketInv

\* Only the handler that steps may end.
LEMMA OneEnds ==
    ASSUME MarketInv, NEW h \in Handlers, NEW state, Market!Step(h, state),
           state.at = "answered" =>
               IF reader[h].at = "reserve"
               THEN IF newest # None /\ minute - newest < Day
                    THEN state.born = newest ELSE state.born = None
               ELSE state.born # None => minute - state.born < Market!Ttl(state.key)
    PROVE  StandsIn
<1> SUFFICES ASSUME NEW g \in Handlers, Market!Ends(g)
             PROVE  IF reader[g].at = "reserve"
                    THEN IF newest # None /\ minute - newest < Day
                         THEN reader'[g].born = newest ELSE reader'[g].born = None
                    ELSE reader'[g].born # None => minute - reader'[g].born < Market!Ttl(reader'[g].key)
    BY DEF StandsIn
<1>1. reader' = [reader EXCEPT ![h] = state] /\ reader = [k \in Handlers |-> reader[k]]
    BY DEF Market!Step, MarketInv, Market!TypeOK
<1>2. g = h
    BY <1>1 DEF Market!Ends
<1>3. reader'[g] = state /\ state.at = "answered"
    BY <1>1, <1>2 DEF Market!Ends
<1> QED BY <1>2, <1>3

LEMMA MinuteOK == ASSUME MarketInv, Market!MinutePasses PROVE MarketInv' /\ StandsIn
<1> DEFINE older(v) == IF v = None \/ v.left = 1 THEN None ELSE [v EXCEPT !.left = @ - 1]
<1>1. /\ minute \in Nat /\ minute + 1 <= MaxMinutes /\ minute' = minute + 1
      /\ UNCHANGED <<reader, began, newest>>
      /\ held' = [key \in Market!Keys |-> older(held[key])]
    BY MarketConstants DEF Market!MinutePasses, MarketInv, Market!TypeOK
<1>2. ASSUME NEW key \in Market!Keys
      PROVE  \/ held'[key] = None /\ (held[key] # None => held[key].left = 1)
             \/ /\ held[key] # None
                /\ held'[key] \in [born: Nat, left: Nat \ {0}]
                /\ held'[key].born = held[key].born
                /\ held'[key].left = held[key].left - 1
    <2>1. held[key] \in [born: Nat, left: Nat \ {0}] \cup {None}
        BY DEF MarketInv, Market!TypeOK
    <2>2. held'[key] = older(held[key])
        BY <1>1
    <2>3. CASE held[key] = None
        BY <2>2, <2>3
    <2>4. CASE held[key] # None /\ held[key].left = 1
        BY <2>2, <2>4
    <2>5. CASE held[key] # None /\ held[key].left # 1
        <3>1. held'[key] = [held[key] EXCEPT !.left = @ - 1]
            BY <2>2, <2>5
        <3> QED BY <2>1, <2>5, <3>1
    <2> QED BY <2>3, <2>4, <2>5
<1>3. Market!TypeOK'
    <2>1. held' = [key \in Market!Keys |-> held'[key]]
        BY <1>1
    <2>2. \A key \in Market!Keys : held'[key] \in [born: Nat, left: Nat \ {0}] \cup {None}
        BY <1>2
    <2> HIDE DEF older
    <2>3. held' \in [Market!Keys -> [born: Nat, left: Nat \ {0}] \cup {None}]
        BY <2>1, <2>2
    <2>4. minute' \in 0..MaxMinutes
        BY MarketConstants, <1>1 
    <2> QED BY <1>1, <2>3, <2>4 DEF MarketInv, Market!TypeOK
<1> HIDE DEF older
<1>4. AgesOK'
    <2> SUFFICES ASSUME NEW key \in Market!Keys, held'[key] # None
                 PROVE  held'[key].born <= minute' /\ held'[key].born + Market!Ttl(key) = minute' + held'[key].left
        BY DEF AgesOK, Market!Keys, Market!Asked, Market!Ttl
    <2>1. /\ held[key] # None /\ held'[key].born = held[key].born
          /\ held'[key].left = held[key].left - 1 /\ held[key].left \in Nat /\ held[key].born \in Nat
        BY <1>2 DEF MarketInv, Market!TypeOK
    <2>2. held[key].born <= minute /\ held[key].born + Market!Ttl(key) = minute + held[key].left
        BY <2>1 DEF MarketInv, AgesOK
    <2> QED BY <1>1, <2>1, <2>2, TtlOK
<1>5. ReserveOK'
    <2>1. "lastGood" \in Market!Keys
        BY DEF Market!Keys
    <2>2. newest \in Nat \cup {None} /\ Day \in Nat
        BY MarketConstants DEF MarketInv, Market!TypeOK
    <2>3. held'["lastGood"] # None => held'["lastGood"].born = newest
        BY <1>2, <2>1 DEF MarketInv, ReserveOK
    <2>4. ASSUME newest # None, minute' - newest < Day PROVE held'["lastGood"] # None
        <3>1. held["lastGood"] # None /\ held["lastGood"].born = newest
            BY <1>1, <2>2, <2>4 DEF MarketInv, ReserveOK
        <3>2. newest + Day = minute + held["lastGood"].left
            BY <2>1, <3>1, TtlOK DEF MarketInv, AgesOK
        <3>3. held["lastGood"].left # 1
            BY <1>1, <2>2, <2>4, <3>2
        <3>4. None \notin [born: Nat, left: Nat \ {0}]
            BY MarketConstants
        <3> QED BY <1>2, <2>1, <3>1, <3>3, <3>4
    <2>5. newest # None => newest <= minute'
        BY <1>1, <2>2 DEF MarketInv, ReserveOK
    <2> QED BY <1>1, <2>3, <2>4, <2>5 DEF ReserveOK
<1>6. ReadersOK' /\ StandsIn
    BY <1>1, NobodyEnds DEF MarketInv, ReadersOK
<1> QED BY <1>3, <1>4, <1>5, <1>6 DEF MarketInv

MarketStates ==
    [at: {"rest", "list", "fetchList", "fetch", "reserve", "answered"},
     key: Market!Asked \cup {None}, born: Nat \cup {None}]

\* A handler takes no reserve unless it stands there.
LEMMA NoReserve ==
    ASSUME MarketInv, NEW h \in Handlers, NEW state \in MarketStates, Market!Step(h, state),
           reader[h].at # "reserve",
           state.at = "answered" /\ state.born # None => minute - state.born < Market!Ttl(state.key)
    PROVE  StandsIn
BY OneEnds

LEMMA AskForOK ==
    ASSUME MarketInv, NEW h \in Handlers, NEW key \in Market!Asked,
           NEW force \in BOOLEAN, Market!AskFor(h, key, force)
    PROVE  MarketInv' /\ StandsIn
<1>1. /\ reader[h].at = "rest" /\ UNCHANGED <<minute, held, newest>> /\ began' \in 0..MaxCalls
    BY MarketConstants DEF Market!AskFor, MarketInv, Market!TypeOK
<1>2. key \in Market!Keys /\ key # None
    BY MarketConstants DEF Market!Keys
<1>3. CASE held[key] # None /\ ~force
    <2>1. Market!Step(h, Market!Answers(key, held[key].born))
        BY <1>3 DEF Market!AskFor
    <2>2. held[key].born \in Nat /\ held[key].left \in Nat \ {0}
        BY <1>2, <1>3 DEF MarketInv, Market!TypeOK
    <2>3. Market!Answers(key, held[key].born) \in MarketStates
        BY <2>2 DEF Market!Answers, MarketStates
    <2>4. minute - held[key].born < Market!Ttl(key)
        <3>1. held[key].born + Market!Ttl(key) = minute + held[key].left
            BY <1>2, <1>3 DEF MarketInv, AgesOK
        <3>2. minute \in Nat /\ Market!Ttl(key) \in Nat
            BY <1>2, TtlOK DEF MarketInv, Market!TypeOK
        <3> QED BY <2>2, <3>1, <3>2
    <2> QED BY <1>1, <2>1, <2>3, <2>4, MarketStepOK, NoReserve DEF Market!Answers, MarketStates
<1>4. CASE ~(held[key] # None /\ ~force) /\ key = "prices"
    <2> DEFINE state == [Market!Fetches(key) EXCEPT !.at = "list"]
    <2>1. Market!Step(h, state)
        BY <1>4 DEF Market!AskFor
    <2>2. state \in MarketStates /\ state.at = "list" /\ state.key = key
        BY DEF Market!Fetches, MarketStates
    <2> HIDE DEF state
    <2> QED BY <1>1, <1>2, <2>1, <2>2, MarketStepOK, NoReserve DEF MarketStates
<1>5. CASE ~(held[key] # None /\ ~force) /\ key # "prices"
    <2>1. Market!Step(h, Market!Fetches(key))
        BY <1>5 DEF Market!AskFor
    <2>2. Market!Fetches(key) \in MarketStates /\ Market!Fetches(key).at = "fetch" /\ Market!Fetches(key).key = key
        BY DEF Market!Fetches, MarketStates
    <2> QED BY <1>1, <1>2, <2>1, <2>2, MarketStepOK, NoReserve DEF MarketStates
<1> QED BY <1>3, <1>4, <1>5

LEMMA FindListOK ==
    ASSUME MarketInv, NEW h \in Handlers, Market!FindList(h)
    PROVE  MarketInv' /\ StandsIn
<1>1. /\ reader[h].at = "list" /\ UNCHANGED <<minute, held, newest>> /\ began' \in 0..MaxCalls
    BY DEF Market!FindList, MarketInv, Market!TypeOK
<1>2. "prices" \in Market!Asked /\ "prices" # None
    BY MarketConstants DEF Market!Asked, Market!Keys
<1>3. PICK state \in {Market!Fetches("prices"), [Market!Fetches("prices") EXCEPT !.at = "fetchList"]} :
          Market!Step(h, state)
    BY DEF Market!FindList
<1>4. state \in MarketStates /\ state.at \in {"fetch", "fetchList"} /\ state.key = "prices"
    BY <1>2 DEF Market!Fetches, MarketStates
<1> QED BY <1>1, <1>2, <1>3, <1>4, MarketStepOK, NoReserve DEF MarketStates

LEMMA SiteFailsOK ==
    ASSUME MarketInv, NEW h \in Handlers, Market!SiteFails(h)
    PROVE  MarketInv' /\ StandsIn
<1>1. /\ reader[h].at \in {"fetch", "fetchList"} /\ UNCHANGED <<minute, held, newest>>
      /\ began' \in 0..MaxCalls /\ reader[h] \in MarketStates
    BY DEF Market!SiteFails, MarketInv, Market!TypeOK, MarketStates
<1>2. CASE reader[h].key = "indices"
    <2> DEFINE state == [reader[h] EXCEPT !.at = "reserve"]
    <2>1. Market!Step(h, state)
        BY <1>2 DEF Market!SiteFails
    <2>2. state \in MarketStates /\ state.at = "reserve" /\ state.key = "indices"
        BY <1>1, <1>2 DEF MarketStates
    <2>3. "indices" # None
        BY MarketConstants DEF Market!Asked, Market!Keys
    <2> HIDE DEF state
    <2> QED BY <1>1, <2>1, <2>2, <2>3, MarketStepOK, NoReserve DEF MarketStates
<1>3. CASE reader[h].key # "indices"
    <2> DEFINE state == Market!Answers(reader[h].key, None)
    <2>1. Market!Step(h, state)
        BY <1>3 DEF Market!SiteFails
    <2>2. state \in MarketStates /\ state.at = "answered" /\ state.born = None
        BY <1>1 DEF MarketStates, Market!Answers
    <2> HIDE DEF state
    <2> QED BY <1>1, <2>1, <2>2, MarketStepOK, NoReserve DEF MarketStates
<1> QED BY <1>2, <1>3

LEMMA ReserveStepOK ==
    ASSUME MarketInv, NEW h \in Handlers, Market!Reserve(h)
    PROVE  MarketInv' /\ StandsIn
<1> DEFINE last == held["lastGood"]
           state == Market!Answers("indices", IF last = None THEN None ELSE last.born)
<1>1. /\ reader[h].at = "reserve" /\ UNCHANGED <<minute, held, newest>> /\ began' \in 0..MaxCalls
      /\ Market!Step(h, state)
    BY DEF Market!Reserve, MarketInv, Market!TypeOK
<1>2. last \in [born: Nat, left: Nat \ {0}] \cup {None} /\ "lastGood" \in Market!Keys
    BY DEF MarketInv, Market!TypeOK, Market!Keys
<1>3. state \in MarketStates /\ state.at = "answered"
    BY <1>2 DEF Market!Answers, MarketStates, Market!Asked
<1>4. IF newest # None /\ minute - newest < Day THEN state.born = newest ELSE state.born = None
    <2>1. CASE last = None
        BY <2>1 DEF Market!Answers, MarketInv, ReserveOK
    <2>2. CASE last # None
        <3>1. last.born = newest /\ newest \in Nat /\ last.left \in Nat \ {0}
            BY <1>2, <2>2 DEF MarketInv, ReserveOK
        <3>2. newest + Day = minute + last.left
            BY <1>2, <2>2, <3>1, TtlOK DEF MarketInv, AgesOK
        <3>3. newest # None /\ minute - newest < Day
            <4>1. minute \in Nat /\ Day \in Nat /\ newest # None
                BY MarketConstants, <3>1 DEF MarketInv, Market!TypeOK
            <4> QED BY <3>1, <3>2, <4>1
        <3>4. state.born = last.born
            BY <2>2 DEF Market!Answers
        <3> QED BY <3>1, <3>3, <3>4
    <2> QED BY <2>1, <2>2
<1> HIDE DEF last, state
<1>5. MarketInv'
    BY <1>1, <1>3, MarketStepOK DEF MarketStates
<1>6. StandsIn
    BY <1>1, <1>4, OneEnds
<1> QED BY <1>5, <1>6

LEMMA MarketLeaveOK ==
    ASSUME MarketInv, NEW h \in Handlers, Market!Leave(h)
    PROVE  MarketInv' /\ StandsIn
<1>1. /\ reader[h].at = "answered" /\ UNCHANGED <<minute, held, newest>> /\ began' \in 0..MaxCalls
      /\ Market!Step(h, Market!Rests)
    BY DEF Market!Leave, MarketInv, Market!TypeOK
<1>2. Market!Rests \in MarketStates /\ Market!Rests.at = "rest"
    BY DEF Market!Rests, MarketStates
<1> QED BY <1>1, <1>2, MarketStepOK, NoReserve DEF MarketStates

\* What is stored is of this moment.
LEMMA StoredOK ==
    ASSUME MarketInv, NEW put \in SUBSET Market!Keys,
           held' = [k \in Market!Keys |-> IF k \in put THEN Market!Value(k) ELSE held[k]],
           minute' = minute
    PROVE  held' \in [Market!Keys -> [born: Nat, left: Nat \ {0}] \cup {None}] /\ AgesOK'
<1>1. \A k \in Market!Keys : /\ Market!Value(k) \in [born: Nat, left: Nat \ {0}]
                      /\ Market!Value(k).born = minute /\ Market!Value(k).left = Market!Ttl(k)
    BY TtlOK DEF Market!Value, MarketInv, Market!TypeOK
<1>2. held' \in [Market!Keys -> [born: Nat, left: Nat \ {0}] \cup {None}]
    BY <1>1 DEF MarketInv, Market!TypeOK
<1>3. minute \in Nat
    BY DEF MarketInv, Market!TypeOK
<1>4. ASSUME NEW key \in Market!Keys, held'[key] # None
      PROVE  held'[key].born <= minute /\ held'[key].born + Market!Ttl(key) = minute + held'[key].left
    <2>1. CASE key \in put
        BY <1>1, <1>3, <2>1, TtlOK
    <2>2. CASE key \notin put
        BY <1>4, <2>2 DEF MarketInv, AgesOK
    <2> QED BY <2>1, <2>2
<1>5. AgesOK'
    BY <1>4 DEF AgesOK, Market!Keys, Market!Asked, Market!Ttl
<1> QED BY <1>2, <1>5

LEMMA ListAnswersOK ==
    ASSUME MarketInv, NEW h \in Handlers, Market!ListAnswers(h)
    PROVE  MarketInv' /\ StandsIn
<1>1. /\ reader[h].at = "fetchList" /\ UNCHANGED <<minute, began, newest>>
      /\ held' = [held EXCEPT !["stocks"] = Market!Value("stocks")]
      /\ Market!Step(h, Market!Fetches("prices"))
    BY DEF Market!ListAnswers
<1>2. held' = [k \in Market!Keys |-> IF k \in {"stocks"} THEN Market!Value(k) ELSE held[k]]
    BY <1>1 DEF MarketInv, Market!TypeOK
<1>3. held' \in [Market!Keys -> [born: Nat, left: Nat \ {0}] \cup {None}] /\ AgesOK'
    BY <1>1, <1>2, StoredOK DEF Market!Keys
<1>4. Market!Fetches("prices") \in MarketStates /\ Market!Fetches("prices").at = "fetch" /\ Market!Fetches("prices").key # None
    BY MarketConstants DEF Market!Fetches, MarketStates, Market!Asked, Market!Keys
<1>5. Market!TypeOK' /\ ReadersOK'
    BY <1>1, <1>3, <1>4 DEF Market!Step, MarketStates, MarketInv, Market!TypeOK, ReadersOK
<1>6. held'["lastGood"] = held["lastGood"]
    BY <1>2 DEF Market!Keys
<1>7. ReserveOK'
    BY <1>1, <1>6 DEF MarketInv, ReserveOK
<1>8. StandsIn
    BY <1>1, <1>4, NoReserve
<1> QED BY <1>3, <1>5, <1>7, <1>8 DEF MarketInv

LEMMA SiteAnswersOK ==
    ASSUME MarketInv, NEW h \in Handlers, Market!SiteAnswers(h)
    PROVE  MarketInv' /\ StandsIn
<1> DEFINE key == reader[h].key
           put == IF key = "indices" THEN {"indices", "lastGood"} ELSE {key}
<1>1. /\ reader[h].at = "fetch" /\ UNCHANGED <<minute, began>>
      /\ held' = [k \in Market!Keys |-> IF k \in put THEN Market!Value(k) ELSE held[k]]
      /\ newest' = IF key = "indices" THEN minute ELSE newest
      /\ Market!Step(h, Market!Answers(key, minute))
    BY DEF Market!SiteAnswers
<1>2. key \in Market!Asked /\ put \in SUBSET Market!Keys /\ minute \in Nat
    BY <1>1 DEF MarketInv, Market!TypeOK, ReadersOK, Market!Keys
<1>3. key # "lastGood" /\ "lastGood" \in Market!Keys
    BY MarketConstants, <1>2 DEF Market!Asked, Market!Keys
<1>4. held' \in [Market!Keys -> [born: Nat, left: Nat \ {0}] \cup {None}] /\ AgesOK'
    BY <1>1, <1>2, StoredOK
<1>5. /\ Market!Answers(key, minute) \in MarketStates
      /\ Market!Answers(key, minute).at = "answered" /\ Market!Answers(key, minute).born = minute
      /\ Market!Answers(key, minute).key = key
    BY <1>2 DEF Market!Answers, MarketStates
<1>6. ReserveOK'
    <2>1. CASE key = "indices"
        <3>1. held'["lastGood"] = Market!Value("lastGood") /\ newest' = minute
            BY <1>1, <1>3, <2>1
        <3>2. Market!Value("lastGood") # None /\ Market!Value("lastGood").born = minute
            BY MarketConstants, <1>2, TtlOK DEF Market!Value
        <3> QED BY <1>1, <1>2, <3>1, <3>2 DEF ReserveOK
    <2>2. CASE key # "indices"
        <3>1. held'["lastGood"] = held["lastGood"] /\ newest' = newest
            BY <1>1, <1>3, <2>2
        <3> QED BY <1>1, <3>1 DEF MarketInv, ReserveOK
    <2> QED BY <2>1, <2>2
<1>7. StandsIn
    <2>1. minute - minute < Market!Ttl(key)
        BY <1>2, TtlOK DEF Market!Keys
    <2> HIDE DEF key, put
    <2> QED BY <1>1, <1>5, <2>1, NoReserve
<1> HIDE DEF key, put
<1>8. Market!TypeOK' /\ ReadersOK'
    BY <1>1, <1>2, <1>4, <1>5 DEF Market!Step, MarketStates, MarketInv, Market!TypeOK, ReadersOK
<1> QED BY <1>4, <1>6, <1>7, <1>8 DEF MarketInv

LEMMA MarketStutter == ASSUME MarketInv, UNCHANGED marketVars PROVE MarketInv' /\ StandsIn
BY NobodyEnds DEF marketVars, MarketInv, Market!TypeOK, AgesOK, ReserveOK, ReadersOK
-----------------------------------------------------------------------------
LEMMA MarketStep ==
    ASSUME MarketInv, [Market!Next]_marketVars PROVE MarketInv' /\ StandsIn
<1>1. CASE UNCHANGED marketVars
    BY <1>1, MarketStutter
<1>2. CASE Market!MinutePasses
    BY <1>2, MinuteOK
<1>3. ASSUME NEW h \in Handlers, NEW key \in Market!Asked, Market!AskFor(h, key, FALSE)
      PROVE  MarketInv' /\ StandsIn
    BY <1>3, AskForOK
<1>4. ASSUME NEW h \in Handlers, NEW key \in Forced, Market!AskFor(h, key, TRUE)
      PROVE  MarketInv' /\ StandsIn
    BY <1>4, AskForOK, MarketConstants DEF Market!Asked
<1>5. ASSUME NEW h \in Handlers,
             \/ Market!FindList(h) \/ Market!ListAnswers(h) \/ Market!SiteAnswers(h)
             \/ Market!SiteFails(h) \/ Market!Reserve(h) \/ Market!Leave(h)
      PROVE  MarketInv' /\ StandsIn
    BY <1>5, FindListOK, ListAnswersOK, SiteAnswersOK, SiteFailsOK, ReserveStepOK, MarketLeaveOK
<1> QED BY <1>1, <1>2, <1>3, <1>4, <1>5 DEF Market!Next

LEMMA MarketInvariant == Spec => []MarketInv
<1>1. Init => MarketInv
    BY MarketInit DEF Init
<1>2. MarketInv /\ [Next]_serviceVars => MarketInv'
    BY MarketStep, EachTakesItsOwnSteps
<1> QED BY <1>1, <1>2, PTL DEF Spec

\* In every run of the services, however requests overlap and whichever of them
\* fail: the indices are refused only after a day without an answer, what stands
\* in for a failed request is the newest answer there is, and anything else that
\* services/market_info.ts and services/dashboard.ts serve is younger than its
\* time to live.
THEOREM ReserveStandsIn == Spec => IndicesStandIn
<1>1. MarketInv /\ [Next]_serviceVars => [StandsIn]_marketVars
    BY MarketStep, EachTakesItsOwnSteps
<1>2. Spec => [][StandsIn]_marketVars
    BY <1>1, MarketInvariant, PTL DEF Spec
<1>3. IndicesStandIn <=> [][StandsIn]_marketVars
    BY PTL DEF IndicesStandIn, Market!IndicesStandIn, StandsIn, Market!marketVars, marketVars
<1> QED BY <1>2, <1>3, PTL
=============================================================================
