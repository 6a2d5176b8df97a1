------------------------------ MODULE Reactions ------------------------------
(***************************************************************************)
(* The reactions to a post, a reply or a chat message                      *)
(* (controllers/reaction_controller.ts).  A toggle looks for the person's  *)
(* reaction, by user or, without one, by address, and then removes or adds *)
(* one; nothing in the table keeps two toggles apart.                      *)
(*                                                                         *)
(* One item and one type of reaction: the queries name both.  What the     *)
(* chat is told after a toggle is the reload of ChatMessages.              *)
(***************************************************************************)
EXTENDS Naturals, FiniteSets

CONSTANTS
    People,         \* who may react: a user, or nobody, at an address
    Toggles,        \* toggles under way at once
    MaxRows,        \* bound: reactions inserted
    None

VARIABLES
    reactions,      \* the rows: an id and who reacted
    inserted,       \* ids given
    toggle,         \* who toggles, and the row he has found, or 0
    doubled         \* people whose toggle met another that was under way

reactionVars == <<reactions, inserted, toggle, doubled>>

Resting == [who |-> None, found |-> 0]

\* Variant: everyone is told apart by his address.
MineByAddress(row, who) == row.who.ip = who.ip

\* user_id = :userId, or ip = :ip, of whoever reacted from there.
Mine(row, who) ==
    IF who.user # None THEN row.who.user = who.user ELSE row.who.ip = who.ip

\* What one of them adds the other would find, or the other way round.
Meets(p, q) == Mine([who |-> p], q) \/ Mine([who |-> q], p)

\* getOne: any one of his rows.
Look(t, who) ==
    LET met == {p \in {toggle[u].who : u \in Toggles} \ {None} : Meets(p, who)} IN
    /\ toggle[t] = Resting
    /\ inserted < MaxRows
    /\ \E id \in {row.id : row \in {row \in reactions : Mine(row, who)}} \cup {0} :
          /\ id = 0 => \A row \in reactions : ~Mine(row, who)
          /\ toggle' = [toggle EXCEPT ![t] = [who |-> who, found |-> id]]
    /\ doubled' = IF met = {} THEN doubled ELSE doubled \cup met \cup {who}
    /\ UNCHANGED <<reactions, inserted>>

\* The row found is deleted by its id, if it is still there.
Remove(t) ==
    /\ toggle[t].found # 0
    /\ reactions' = {row \in reactions : row.id # toggle[t].found}
    /\ toggle' = [toggle EXCEPT ![t] = Resting]
    /\ UNCHANGED <<inserted, doubled>>

Add(t) ==
    /\ toggle[t].who # None
    /\ toggle[t].found = 0
    /\ inserted < MaxRows
    /\ inserted' = inserted + 1
    /\ reactions' = reactions \cup {[id |-> inserted', who |-> toggle[t].who]}
    /\ toggle' = [toggle EXCEPT ![t] = Resting]
    /\ UNCHANGED doubled

\* A query fails, or the process ends.
ToggleFails(t) ==
    /\ toggle[t] # Resting
    /\ toggle' = [toggle EXCEPT ![t] = Resting]
    /\ UNCHANGED <<reactions, inserted, doubled>>
-----------------------------------------------------------------------------
Init ==
    /\ reactions = {}
    /\ inserted = 0
    /\ toggle = [t \in Toggles |-> Resting]
    /\ doubled = {}

Next ==
    \E t \in Toggles :
        \/ \E who \in People : Look(t, who)
        \/ Remove(t) \/ Add(t) \/ ToggleFails(t)

Spec == Init /\ [][Next]_reactionVars
-----------------------------------------------------------------------------
(* Properties. *)

\* Every variable has its type.
TypeOK ==
    /\ reactions \subseteq [id: 1..MaxRows, who: People]
    /\ inserted \in 0..MaxRows
    /\ toggle \in [Toggles -> [who: People \cup {None}, found: 0..MaxRows]]
    /\ doubled \subseteq People

\* What the table should hold one row of.
Same(p, q) == p.user = q.user /\ (p.user = None => p.ip = q.ip)

\* A user has one reaction at most, from wherever he reacts, and an address one
\* of those without a user; unless toggles that look for the same row met.
OneReaction ==
    \A p \in People : (\A q \in doubled : ~Same(p, q)) =>
        Cardinality({row \in reactions : Same(row.who, p)}) <= 1
=============================================================================
