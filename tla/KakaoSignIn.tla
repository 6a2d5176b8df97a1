----------------------------- MODULE KakaoSignIn -----------------------------
(***************************************************************************)
(* Signing in with Kakao (signInKakao of controllers/auth_controller.ts).  *)
(* The first sign-in of an identity makes, one after the other, a token, a *)
(* user, his profile and, not waited for, the link of the token to him; a  *)
(* later one takes up what it finds.  A profile and a link are unique by   *)
(* user (schema/001_baseline.sql); tokens and e-mail addresses are not.    *)
(*                                                                         *)
(* One identity.  The sign-in counts and times of a user are left out.     *)
(***************************************************************************)
EXTENDS Naturals, FiniteSets

CONSTANTS
    Requests,       \* sign-ins under way at once
    MaxSignIns,     \* bound: sign-ins
    None

VARIABLES
    users,          \* rows with the identity's e-mail address, numbered
    profiles,       \* users that have a profile
    tokens,         \* by row of auth_tokens: the user it is linked to, or None
    linking,        \* links asked for and not yet stored
    request,        \* by request: what it has found or made so far
    signIns,        \* counts up to MaxSignIns
    account,        \* users that have been signed in
    met,            \* two first sign-ins were under way at once
    unlinked,       \* a link was not stored, or was late for the next sign-in
    refused         \* a sign-in was refused by the rule of one profile

signInVars ==
    <<users, profiles, tokens, linking, request, signIns, account, met, unlinked, refused>>

Absent == [at |-> "none", token |-> 0, user |-> 0]

Goes(r, at, token, user) ==
    request' = [request EXCEPT ![r] = [at |-> at, token |-> token, user |-> user]]

\* As long as nobody has a profile a sign-in is a first one, whatever others
\* left behind: it does not end with what it finds, but makes what is missing.
First == profiles = {}

\* verifyAccessToken has answered with the identity.
Verify(r) ==
    /\ request[r] = Absent
    /\ signIns < MaxSignIns
    /\ signIns' = signIns + 1
    /\ Goes(r, "token", 0, 0)
    /\ met' = (met \/ (First /\ \E q \in Requests : request[q] # Absent))
    /\ unlinked' = (unlinked \/ linking # {})
    /\ UNCHANGED <<users, profiles, tokens, linking, account, refused>>

\* mustAuthToken finds a token; afterSignIn at once if its user has a profile.
FindToken(r) ==
    /\ request[r].at = "token"
    /\ \E t \in DOMAIN tokens :
          IF tokens[t] \in profiles
          THEN Goes(r, "none", 0, 0) /\ account' = account \cup {tokens[t]}
          ELSE Goes(r, "user", t, 0) /\ UNCHANGED account
    /\ UNCHANGED <<users, profiles, tokens, linking, signIns, met, unlinked, refused>>

\* It finds none, and will save one.
MissToken(r) ==
    /\ request[r].at = "token"
    /\ DOMAIN tokens = {}
    /\ Goes(r, "newToken", 0, 0)
    /\ UNCHANGED <<users, profiles, tokens, linking, signIns, account, met, unlinked, refused>>

SaveToken(r) ==
    LET t == Cardinality(DOMAIN tokens) + 1 IN
    /\ request[r].at = "newToken"
    /\ tokens' = [u \in 1..t |-> IF u = t THEN None ELSE tokens[u]]
    /\ Goes(r, "user", t, 0)
    /\ UNCHANGED <<users, profiles, linking, signIns, account, met, unlinked, refused>>

\* Variant: the user is always made anew.
NobodyFound == {}

Found == users

\* mustUser: by e-mail address, whatever the token says.
FindUser(r) ==
    /\ request[r].at = "user"
    /\ \E u \in Found : Goes(r, "profile", request[r].token, u)
    /\ UNCHANGED <<users, profiles, tokens, linking, signIns, account, met, unlinked, refused>>

MissUser(r) ==
    /\ request[r].at = "user"
    /\ Found = {}
    /\ Goes(r, "newUser", request[r].token, 0)
    /\ UNCHANGED <<users, profiles, tokens, linking, signIns, account, met, unlinked, refused>>

SaveUser(r) ==
    LET u == Cardinality(users) + 1 IN
    /\ request[r].at = "newUser"
    /\ users' = users \cup {u}
    /\ Goes(r, "profile", request[r].token, u)
    /\ UNCHANGED <<profiles, tokens, linking, signIns, account, met, unlinked, refused>>

\* mustProfile always inserts; then the link is asked for and the user signed in.
SaveProfile(r) ==
    LET u == request[r].user IN
    /\ request[r].at = "profile"
    /\ IF u \in profiles
       THEN /\ refused' = TRUE
            /\ UNCHANGED <<profiles, linking, account>>
       ELSE /\ profiles' = profiles \cup {u}
            /\ linking' = linking \cup {[token |-> request[r].token, user |-> u]}
            /\ account' = account \cup {u}
            /\ UNCHANGED refused
    /\ Goes(r, "none", 0, 0)
    /\ UNCHANGED <<users, tokens, signIns, met, unlinked>>

\* A query of the sign-in fails: what it has made so far stays.
Fail(r) ==
    /\ request[r] # Absent
    /\ Goes(r, "none", 0, 0)
    /\ UNCHANGED <<users, profiles, tokens, linking, signIns, account, met, unlinked, refused>>

\* The link is stored, unless its user has one already, or is lost.
Link(link) ==
    /\ \/ /\ \A t \in DOMAIN tokens : tokens[t] # link.user
          /\ tokens' = [tokens EXCEPT ![link.token] = link.user]
          /\ UNCHANGED unlinked
       \/ unlinked' = TRUE /\ UNCHANGED tokens
    /\ linking' = linking \ {link}
    /\ UNCHANGED <<users, profiles, request, signIns, account, met, refused>>
-----------------------------------------------------------------------------
Init ==
    /\ users = {} /\ profiles = {} /\ tokens = <<>> /\ linking = {}
    /\ request = [r \in Requests |-> Absent]
    /\ signIns = 0 /\ account = {}
    /\ met = FALSE /\ unlinked = FALSE /\ refused = FALSE

Next ==
    \/ \E r \in Requests :
          \/ Verify(r) \/ FindToken(r) \/ MissToken(r) \/ SaveToken(r)
          \/ FindUser(r) \/ MissUser(r) \/ SaveUser(r) \/ SaveProfile(r) \/ Fail(r)
    \/ \E link \in linking : Link(link)

Spec == Init /\ [][Next]_signInVars
-----------------------------------------------------------------------------
(* Properties. *)

\* Every variable has its type.
TypeOK ==
    /\ users \subseteq 1..MaxSignIns /\ profiles \subseteq users /\ account \subseteq users
    /\ DOMAIN tokens \subseteq 1..MaxSignIns
    /\ \A t \in DOMAIN tokens : tokens[t] \in users \cup {None}
    /\ linking \subseteq [token: DOMAIN tokens, user: users]
    /\ request \in [Requests -> [at: {"none", "token", "newToken", "user", "newUser", "profile"},
                                 token: 0..MaxSignIns, user: 0..MaxSignIns]]
    /\ signIns \in 0..MaxSignIns
    /\ {met, unlinked, refused} \subseteq BOOLEAN

\* An identity is signed in to one and the same account, whatever failed half
\* way and however many later sign-ins are under way at once, unless two first
\* ones met; and no sign-in is refused because of what an earlier one left
\* behind, unless the link, for which nobody waits, was late or lost: then every
\* later one is refused.
OneAccount ==
    ~met => /\ Cardinality(account) <= 1
            /\ refused => unlinked
=============================================================================
