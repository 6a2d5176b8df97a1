------------------------- MODULE PositionBoardProofs -------------------------
(***************************************************************************)
(* Proofs about PositionBoard.                                             *)
(*                                                                         *)
(* For any number of requests at once: the types, and that nothing is on   *)
(* the board that nobody let onto it, except what reports of one second    *)
(* say, as long as every reading fits one Slack message.  For requests one *)
(* after the other: what users were told is what is stored, and every      *)
(* report in the inbox was shown to somebody.                              *)
(***************************************************************************)
EXTENDS PositionBoard, TLAPS, FiniteSetTheorems, SequenceTheorems, WellFoundedInduction

(* The types, closer than in TypeOK: what no step leaves. *)

Distinct(P) == \A p, q \in P : p.contract = q.contract => p = q

Sets == {P \in PositionSets : Distinct(P)}

\* What a report may hold: a reading, or the one position of a user.
Filings == Readings \cup {{p} : p \in UNION Readings}

Filed == [streamer: Streamers, lane: {"desktop", "human"}, positions: Filings,
          selected: SUBSET Contracts, unseen: SUBSET Contracts, no: Nat, at: Nat]

\* What is kept of every report there has been.
Entries == [streamer: Streamers, at: Nat, positions: Filings]

Boards == [Streamers -> Sets \cup {None}]

Lanes == UNION {[S -> Filed] : S \in SUBSET Nat}

Boxes ==
    {box \in [desktop: [Streamers -> Filed \cup {None}], human: Lanes, next: Nat] :
        /\ \A s \in Streamers : box.desktop[s] # None => box.desktop[s].streamer = s
        /\ \A i \in DOMAIN box.human : i < box.next
        /\ IsFiniteSet(DOMAIN box.human)
        /\ Cardinality(DOMAIN box.human) <= HUMAN_LIMIT}

Steps == {"idle", "board", "screen", "previous", "upload", "put", "notify", "remove", "removed",
          "select", "approve", "reject"}

Ops == {"look", "desktop", "offline", "set", "delete", "create", "auto",
        "select", "approve", "reject"}

HandlerType ==
    [at: Steps, op: Ops, streamer: Streamers \cup {None}, positions: Sets,
     unseen: SUBSET Contracts, before: Sets, report: Filed \cup {None},
     message: Messages \cup {None}, reply: Boards \cup Boxes \cup {None}]

Changing == {"set", "approve", "auto"}
AsksForInbox == {"previous", "put", "remove", "select", "approve", "reject"}

\* What a handler holds at each of its steps; object is the one of its all().
Stage(r, object) ==
    /\ r.at = "board" => r.reply \in Boards
    /\ r.at \in AsksForInbox => r.reply \in Boxes
    /\ r.at # "idle" => r.streamer \in Streamers \/ r.op = "look"
    /\ r.at \notin {"idle", "board"} => r.op # "look"
    /\ r.at \in {"screen", "previous"} => object[r.streamer] \in Sets /\ r.op = "desktop"
    /\ r.at \in {"remove", "removed"} /\ r.op \in Changing => object[r.streamer] \in Sets
    /\ r.at = "previous" => r.positions \in Readings
    /\ r.at = "board" /\ r.op = "create" => r.positions \in Filings
    /\ r.at \in {"upload", "put", "notify"} =>
          r.report \in Filed /\ r.report.streamer = r.streamer /\ r.op \in {"desktop", "create"}
    /\ r.at \in {"remove", "removed"} /\ r.op \notin Changing \cup {"reject"} =>
          r.report \in Filed /\ r.report.streamer = r.streamer /\ r.op \in {"desktop", "create"}
    /\ r.report # None =>
          \/ r.at \in {"upload", "put", "notify"}
          \/ r.at \in {"remove", "removed"} /\ r.op \notin Changing \cup {"reject"}
    /\ r.message # None => r.message.streamer = r.streamer
    /\ r.at \in {"approve", "reject"} => r.message # None /\ r.op = r.at

HandlersTyped ==
    /\ copy \in [Handlers -> Boards]
    /\ latest \in Handlers
    /\ handler \in [Handlers -> HandlerType]
    /\ \A h \in Handlers : Stage(handler[h], copy[h])

WorldTyped ==
    /\ slack \subseteq Messages
    /\ screen \in [Streamers -> Readings]
    /\ told \in [Streamers -> Position \cup {None}]
    /\ allowed \in [Streamers -> PositionSets]
    /\ orphans \subseteq Nat
    /\ made \in Seq(Entries)

Typed ==
    /\ board \in Boards
    /\ inbox \in Boxes
    /\ HandlersTyped
    /\ WorldTyped

(* What the proofs carry besides the types. *)

\* What the n-th report was: its streamer, its second and its positions, never
\* changed.
Is(list, report) ==
    /\ report.no \in DOMAIN list
    /\ list[report.no] = [streamer |-> report.streamer, at |-> report.at,
                          positions |-> report.positions]

IsShown(list, message) ==
    /\ message.no \in DOMAIN list
    /\ message.streamer = list[message.no].streamer
    /\ message.at = list[message.no].at
    /\ message.positions = shown(list[message.no].positions)

Knows(list, r) ==
    /\ r.report # None => Is(list, r.report)
    /\ r.message # None => IsShown(list, r.message)
    /\ r.at \in AsksForInbox => \A report \in Reports(r.reply) : Is(list, report)

Identified ==
    /\ \A report \in InInbox : Is(made, report)
    /\ \A m \in slack : IsShown(made, m)
    /\ \A h \in Handlers : Knows(made, handler[h])

\* What may be on the boards.
leave == [s \in Streamers |-> allowed[s] \cup SameSecond(s)]

LetOnto(object) == \A s \in Streamers : object[s] # None => object[s] \subseteq leave[s]

HasLeave(r, object) ==
    /\ LetOnto(object)
    /\ r.at = "board" => LetOnto(r.reply)
    /\ r.at = "board" /\ r.op \in Changing => r.positions \subseteq leave[r.streamer]
    /\ r.at = "approve" => r.message.positions \subseteq leave[r.streamer]

Approved == LetOnto(board) /\ \A h \in Handlers : HasLeave(handler[h], copy[h])

\* Every reading fits one Slack message.
EveryReadingFits == \A P \in Readings : Cardinality(P) <= SLACK_OPTION_LIMIT

\* One request after the other.
OneAtATime == \A g, h \in Handlers : g = h

\* Then what a handler read is what is still there.
BoardWaits(r, object) ==
    /\ r.at = "board" => r.reply = board
    /\ r.at \in {"remove", "removed"} /\ r.op \in Changing =>
          /\ board[r.streamer] # None /\ r.before = board[r.streamer]
          /\ \A s \in Streamers \ {r.streamer} : object[s] = board[s]

InboxWaits(r) ==
    /\ r.at \in AsksForInbox => r.reply = inbox
    /\ r.at = "removed" => \A report \in InInbox : report.streamer # r.streamer
    /\ r.at \in {"upload", "put"} => \A report \in InInbox : report.no # r.report.no
-----------------------------------------------------------------------------
(* Positions. *)

USE DEF Distinct

LEMMA SetsArePositions ==
    /\ \A P \in PositionSets : P \subseteq Position
    /\ \A P \in Sets : P \in PositionSets
    /\ Readings \subseteq Sets
    /\ Filings \subseteq Sets
    /\ {} \in Sets
    /\ \A P \in PositionSets : contractsOf(P) \subseteq Contracts
<1>1. \A P \in Readings : P \subseteq Position
  BY BoardConstantsOK
<1>2. \A P \in PositionSets : P \subseteq Position
  BY <1>1 DEF PositionSets
<1>3. Readings \subseteq Sets
  BY BoardConstantsOK DEF Sets, PositionSets
<1>4. \A p \in UNION Readings : {p} \in Sets
  BY DEF Sets, PositionSets
<1>5. {} \in Sets
  BY DEF Sets, PositionSets
<1>6. \A P \in PositionSets : contractsOf(P) \subseteq Contracts
  BY <1>2 DEF contractsOf, Position
<1> QED
  BY <1>2, <1>3, <1>4, <1>5, <1>6 DEF Filings, Sets

LEMMA FiledAreReports == Filed \subseteq Report /\ None \notin Filed
BY SetsArePositions, NoneIsNothing DEF Filed, Report, Sets

LEMMA PartsOfSets ==
    ASSUME NEW P \in Sets, NEW Q \in SUBSET P
    PROVE  Q \in Sets
BY DEF Sets, PositionSets

\* The headline is a position or nothing.
LEMMA HeadlineType ==
    ASSUME NEW P \in PositionSets
    PROVE  pickPosition(P) \in Position \cup {None}
<1> DEFINE top == {p \in P : \A q \in P \ {p} : q.notional < p.notional}
<1>1. top \subseteq Position
  BY SetsArePositions
<1>2. CASE top = {}
  BY <1>2 DEF pickPosition
<1>3. CASE top # {}
  <2>1. (CHOOSE p \in top : TRUE) \in top
    BY <1>3
  <2>2. pickPosition(P) = CHOOSE p \in top : TRUE
    BY <1>3 DEF pickPosition
  <2> QED
    BY <1>1, <2>1, <2>2
<1> QED
  BY <1>2, <1>3

\* What comes in replaces its contracts, so that none is there twice.
LEMMA UpsertType ==
    ASSUME NEW P \in Sets, NEW incoming \in Sets, NEW gone \in SUBSET Contracts
    PROVE  upsertPositions(P, incoming, gone) \in Sets
<1> DEFINE kept == {p \in P : p.contract \notin gone \cup contractsOf(incoming)}
<1>1. kept \cup incoming \in PositionSets
  BY DEF Sets, PositionSets
<1>2. ASSUME NEW p \in kept \cup incoming, NEW q \in kept \cup incoming,
             p.contract = q.contract
      PROVE  p = q
  <2>1. \A x \in kept, y \in incoming : x.contract # y.contract
    BY DEF contractsOf
  <2>2. CASE p \in kept /\ q \in kept
    BY <1>2, <2>2 DEF Sets
  <2>3. CASE p \in incoming /\ q \in incoming
    BY <1>2, <2>3 DEF Sets
  <2> QED
    BY <1>2, <2>1, <2>2, <2>3
<1> QED
  BY <1>1, <1>2 DEF upsertPositions, Sets

LEMMA UnseenType ==
    ASSUME NEW P \in Sets, NEW read \in Sets
    PROVE  unseenContracts(P, read) \in SUBSET Contracts
BY SetsArePositions DEF unseenContracts

\* A message that has room for every position shows them all.
LEMMA ShownIsAll ==
    ASSUME EveryReadingFits, NEW P \in Filings
    PROVE  shown(P) = P
<1>1. IsFiniteSet(P) /\ Cardinality(P) \in Nat /\ Cardinality(P) <= SLACK_OPTION_LIMIT
  <2>1. CASE P \in Readings
    BY <2>1, BoardConstantsOK, FS_CardinalityType DEF EveryReadingFits
  <2>2. CASE \E p \in UNION Readings : P = {p}
    <3>1. PICK p \in UNION Readings : P = {p}
      BY <2>2
    <3>2. IsFiniteSet(P) /\ Cardinality(P) = 1
      BY <3>1, FS_Singleton
    <3> QED
      BY <3>2, BoardConstantsOK
  <2> QED
    BY <2>1, <2>2 DEF Filings
<1>2. ASSUME NEW p \in P
      PROVE  Cardinality({q \in P : q.notional > p.notional}) < SLACK_OPTION_LIMIT
  <2> DEFINE above == {q \in P : q.notional > p.notional}
             rest == P \ {p}
  <2>1. p.notional \in Nat
    BY SetsArePositions DEF Position
  <2>2. above \subseteq rest
    BY <2>1
  <2>3. IsFiniteSet(rest) /\ Cardinality(rest) = Cardinality(P) - 1
    BY <1>1, FS_RemoveElement
  <2>4. IsFiniteSet(above) /\ Cardinality(above) <= Cardinality(rest)
    BY <2>2, <2>3, FS_Subset
  <2>5. Cardinality(above) \in Nat
    BY <2>4, FS_CardinalityType
  <2>6. SLACK_OPTION_LIMIT \in Nat
    BY BoardConstantsOK
  <2> HIDE DEF above, rest
  <2>7. Cardinality(above) < SLACK_OPTION_LIMIT
    BY <1>1, <2>3, <2>4, <2>5, <2>6
  <2> QED
    BY <2>7 DEF above
<1> QED
  BY <1>2 DEF shown
-----------------------------------------------------------------------------
(* The inbox. *)

\* Places have a first one.
LEMMA OldestIsThere ==
    ASSUME NEW places \in SUBSET Nat, places # {}
    PROVE  Oldest(places) \in places
<1> DEFINE less == {pair \in Nat \X Nat : pair[1] < pair[2]}
<1>1. IsWellFoundedOn(less, Nat)
  BY NatLessThanWellFounded DEF OpToRel
<1>2. PICK i \in places : \A j \in places : ~(<<j, i>> \in less)
  <2>1. places \subseteq Nat
    OBVIOUS
  <2> HIDE DEF less
  <2> QED
    BY <1>1, <2>1, WFMin
<1>3. ASSUME NEW j \in places
      PROVE  i <= j
  <2>1. i \in Nat /\ j \in Nat
    OBVIOUS
  <2>2. ~(<<j, i>> \in less)
    BY <1>2
  <2>3. ~(j < i)
    BY <2>1, <2>2
  <2> QED
    BY <2>1, <2>3
<1> QED
  BY <1>3 DEF Oldest

LEMMA BoxFacts ==
    ASSUME NEW box \in Boxes
    PROVE  /\ box.desktop \in [Streamers -> Filed \cup {None}]
           /\ \A s \in Streamers : box.desktop[s] # None =>
                 box.desktop[s] \in Filed /\ box.desktop[s].streamer = s
           /\ box.next \in Nat
           /\ DOMAIN box.human \subseteq Nat
           /\ \A i \in DOMAIN box.human : box.human[i] \in Filed /\ i < box.next
           /\ box.human = [i \in DOMAIN box.human |-> box.human[i]]
           /\ IsFiniteSet(DOMAIN box.human)
           /\ Cardinality(DOMAIN box.human) <= HUMAN_LIMIT
           /\ Cardinality(DOMAIN box.human) \in Nat
           /\ box = [desktop |-> box.desktop, human |-> box.human, next |-> box.next]
<1>1. box \in [desktop: [Streamers -> Filed \cup {None}], human: Lanes, next: Nat]
  BY DEF Boxes
<1>2. PICK S \in SUBSET Nat : box.human \in [S -> Filed]
  BY <1>1 DEF Lanes
<1>3. IsFiniteSet(DOMAIN box.human) /\ Cardinality(DOMAIN box.human) <= HUMAN_LIMIT
  BY DEF Boxes
<1>4. Cardinality(DOMAIN box.human) \in Nat
  BY <1>3, FS_CardinalityType
<1>5. \A i \in DOMAIN box.human : i < box.next
  BY DEF Boxes
<1>6. \A s \in Streamers : box.desktop[s] # None => box.desktop[s].streamer = s
  BY DEF Boxes
<1> QED
  BY <1>1, <1>2, <1>3, <1>4, <1>5, <1>6

LEMMA BoxChange ==
    ASSUME NEW d, NEW l, NEW n, NEW s, NEW report,
           NEW box, box = [desktop |-> d, human |-> l, next |-> n]
    PROVE  /\ [box EXCEPT !.desktop[s] = report] =
                 [desktop |-> [d EXCEPT ![s] = report], human |-> l, next |-> n]
           /\ [box EXCEPT !.human[s] = report] =
                 [desktop |-> d, human |-> [l EXCEPT ![s] = report], next |-> n]
OBVIOUS

\* To be an inbox.
LEMMA BoxByParts ==
    ASSUME NEW desktop \in [Streamers -> Filed \cup {None}], NEW next \in Nat,
           \A s \in Streamers : desktop[s] # None => desktop[s].streamer = s,
           NEW S \in SUBSET Nat, NEW human \in [S -> Filed],
           \A i \in S : i < next,
           IsFiniteSet(S), Cardinality(S) <= HUMAN_LIMIT
    PROVE  [desktop |-> desktop, human |-> human, next |-> next] \in Boxes
<1> DEFINE box == [desktop |-> desktop, human |-> human, next |-> next]
<1>1. box \in [desktop: [Streamers -> Filed \cup {None}], human: Lanes, next: Nat]
  BY DEF Lanes
<1>2. DOMAIN human = S
  OBVIOUS
<1>3. box.desktop = desktop /\ box.human = human /\ box.next = next
  OBVIOUS
<1> HIDE DEF box
<1>4. box \in Boxes
  BY <1>1, <1>2, <1>3 DEF Boxes
<1> QED
  BY <1>4 DEF box

LEMMA ReportsAreFiled ==
    ASSUME NEW box \in Boxes
    PROVE  Reports(box) \subseteq Filed
<1>1. \A s \in Streamers : box.desktop[s] # None => box.desktop[s] \in Filed
  BY BoxFacts
<1>2. \A i \in DOMAIN box.human : box.human[i] \in Filed
  BY BoxFacts
<1> QED
  BY <1>1, <1>2 DEF Reports

\* find finds nothing, or a report of that streamer that is there.
LEMMA FoundIsThere ==
    ASSUME NEW box \in Boxes, NEW s \in Streamers, Found(box, s) # None
    PROVE  /\ Found(box, s) \in Reports(box)
           /\ Found(box, s) \in Filed
           /\ Found(box, s).streamer = s
           /\ box.desktop[s] = None =>
                 /\ Oldest(OfStreamer(box, s)) \in OfStreamer(box, s)
                 /\ Found(box, s) = box.human[Oldest(OfStreamer(box, s))]
<1>1. CASE box.desktop[s] # None
  BY <1>1, BoxFacts DEF Found, Reports
<1>2. CASE box.desktop[s] = None
  <2>1. OfStreamer(box, s) # {} /\ OfStreamer(box, s) \in SUBSET Nat
    BY <1>2, BoxFacts DEF Found, OfStreamer
  <2>2. Oldest(OfStreamer(box, s)) \in OfStreamer(box, s)
    BY <2>1, OldestIsThere
  <2>3. Found(box, s) = box.human[Oldest(OfStreamer(box, s))]
    BY <1>2, <2>1 DEF Found
  <2>4. /\ Oldest(OfStreamer(box, s)) \in DOMAIN box.human
        /\ box.human[Oldest(OfStreamer(box, s))].streamer = s
    BY <2>2 DEF OfStreamer
  <2>5. Found(box, s) \in Filed /\ Found(box, s).streamer = s
    BY <2>3, <2>4, BoxFacts
  <2>6. Found(box, s) \in Reports(box)
    BY <2>3, <2>4 DEF Reports
  <2> QED
    BY <2>2, <2>3, <2>5, <2>6
<1> QED
  BY <1>1, <1>2

\* put adds one report, whatever it drops or replaces.
LEMMA PutFacts ==
    ASSUME NEW box \in Boxes, NEW report \in Filed
    PROVE  /\ put(box, report) \in Boxes
           /\ Reports(put(box, report)) \subseteq Reports(box) \cup {report}
<1>1. CASE report.lane = "desktop"
  <2> DEFINE desktop == [box.desktop EXCEPT ![report.streamer] = report]
  <2>1. put(box, report) = [desktop |-> desktop, human |-> box.human, next |-> box.next]
    <3>1. box = [desktop |-> box.desktop, human |-> box.human, next |-> box.next]
      BY BoxFacts
    <3>2. [box EXCEPT !.desktop[report.streamer] = report] =
             [desktop |-> desktop, human |-> box.human, next |-> box.next]
      BY <3>1, BoxChange
    <3> QED
      BY <1>1, <3>2 DEF put
  <2>2. report.streamer \in Streamers
    BY DEF Filed
  <2>3. desktop \in [Streamers -> Filed \cup {None}]
    BY BoxFacts, <2>2
  <2>4. \A s \in Streamers : desktop[s] # None => desktop[s].streamer = s
    BY BoxFacts, <2>2
  <2>5. \A s \in Streamers : desktop[s] \in {box.desktop[s], report}
    BY BoxFacts, <2>2
  <2> HIDE DEF desktop
  <2>6. box.human \in [DOMAIN box.human -> Filed] /\ DOMAIN box.human \in SUBSET Nat
    BY BoxFacts
  <2>7. [desktop |-> desktop, human |-> box.human, next |-> box.next] \in Boxes
    BY <2>3, <2>4, <2>6, BoxFacts, BoxByParts
  <2>8. Reports([desktop |-> desktop, human |-> box.human, next |-> box.next])
           \subseteq Reports(box) \cup {report}
    BY <2>5 DEF Reports
  <2> QED
    BY <2>1, <2>7, <2>8
<1>2. CASE report.lane # "desktop"
  <2> DEFINE places == DOMAIN box.human
             more == Appended(box, report)
             lane == Newest(more)
             n == box.next
  <2>1. put(box, report) = [desktop |-> box.desktop, human |-> lane, next |-> n + 1]
    BY <1>2 DEF put
  <2>2. n \in Nat /\ n \notin places /\ IsFiniteSet(places) /\ places \subseteq Nat
    <3>1. n \in Nat /\ IsFiniteSet(places) /\ places \subseteq Nat
      BY BoxFacts
    <3>2. \A i \in places : i < n
      BY BoxFacts
    <3> QED
      BY <3>1, <3>2
  <2>3. \A i \in places : i < n
    BY BoxFacts
  <2>4. Cardinality(places) \in Nat /\ Cardinality(places) <= HUMAN_LIMIT
    BY BoxFacts
  <2>5. IsFiniteSet(places \cup {n}) /\ Cardinality(places \cup {n}) = Cardinality(places) + 1
    BY <2>2, FS_AddElement
  <2>6. more \in [places \cup {n} -> Filed]
    BY BoxFacts DEF Appended
  <2>7. \A i \in places \cup {n} : more[i] = report \/ (i \in places /\ more[i] = box.human[i])
    BY DEF Appended
  <2>8. DOMAIN more = places \cup {n}
    BY <2>6
  <2>9. HUMAN_LIMIT \in Nat \ {0}
    BY BoardConstantsOK
  <2> HIDE DEF places, more, lane, n
  <2>10. PICK left \in SUBSET (places \cup {n}) :
            /\ lane \in [left -> Filed]
            /\ \A i \in left : lane[i] = more[i]
            /\ IsFiniteSet(left) /\ Cardinality(left) <= HUMAN_LIMIT
    <3>1. CASE Cardinality(places \cup {n}) > HUMAN_LIMIT
      <4> DEFINE first == Oldest(places \cup {n})
                 left == (places \cup {n}) \ {first}
      <4>1. first \in places \cup {n}
        <5>1. places \cup {n} \in SUBSET Nat /\ places \cup {n} # {}
          BY <2>2
        <5> QED
          BY <5>1, OldestIsThere
      <4>2. lane = [i \in left |-> more[i]]
        BY <2>8, <3>1 DEF lane, Newest, Keep
      <4>3. IsFiniteSet(left) /\ Cardinality(left) = Cardinality(places \cup {n}) - 1
        BY <2>5, <4>1, FS_RemoveElement
      <4>4. Cardinality(left) <= HUMAN_LIMIT
        BY <2>4, <2>5, <2>9, <4>3
      <4>5. left \in SUBSET (places \cup {n})
        OBVIOUS
      <4> HIDE DEF left
      <4>6. lane \in [left -> Filed] /\ \A i \in left : lane[i] = more[i]
        BY <2>6, <4>2, <4>5
      <4> QED
        BY <4>3, <4>4, <4>5, <4>6
    <3>2. CASE ~(Cardinality(places \cup {n}) > HUMAN_LIMIT)
      <4>1. lane = more
        BY <2>8, <3>2 DEF lane, Newest
      <4>2. Cardinality(places \cup {n}) <= HUMAN_LIMIT
        BY <2>4, <2>5, <2>9, <3>2
      <4> QED
        BY <2>5, <2>6, <4>1, <4>2
    <3> QED
      BY <3>1, <3>2
  <2>11. left \in SUBSET Nat
    BY <2>2, <2>10
  <2>12. \A i \in left : i < n + 1
    BY <2>2, <2>3, <2>10, <2>11
  <2>13. n + 1 \in Nat
    BY <2>2
  <2>14. [desktop |-> box.desktop, human |-> lane, next |-> n + 1] \in Boxes
    BY <2>10, <2>11, <2>12, <2>13, BoxFacts, BoxByParts
  <2>15. \A i \in left : lane[i] = report \/ (i \in places /\ lane[i] = box.human[i])
    BY <2>7, <2>10
  <2>16. Reports([desktop |-> box.desktop, human |-> lane, next |-> n + 1])
            \subseteq Reports(box) \cup {report}
    <3>1. DOMAIN lane = left
      BY <2>10
    <3> QED
      BY <2>15, <3>1 DEF Reports, places
  <2> QED
    BY <2>1, <2>14, <2>16
<1> QED
  BY <1>1, <1>2

\* remove leaves the reports on the others, and none on that streamer.
LEMMA RemoveFacts ==
    ASSUME NEW box \in Boxes, NEW s \in Streamers
    PROVE  /\ remove(box, s) \in Boxes
           /\ Reports(remove(box, s)) \subseteq {r \in Reports(box) : r.streamer # s}
<1> DEFINE desktop == [box.desktop EXCEPT ![s] = None]
           left == DOMAIN box.human \ OfStreamer(box, s)
           human == Keep(box.human, left)
<1>1. remove(box, s) = [desktop |-> desktop, human |-> human, next |-> box.next]
  BY DEF remove
<1>2. desktop \in [Streamers -> Filed \cup {None}]
  BY BoxFacts
<1>3. \A t \in Streamers : desktop[t] # None => t # s /\ desktop[t] = box.desktop[t]
  BY BoxFacts
<1>4. \A t \in Streamers : desktop[t] # None => desktop[t].streamer = t
  BY <1>3, BoxFacts
<1>5. left \in SUBSET Nat /\ left \subseteq DOMAIN box.human
  BY BoxFacts
<1>6. human \in [left -> Filed] /\ \A i \in left : human[i] = box.human[i]
  BY <1>5, BoxFacts DEF Keep
<1>7. \A i \in left : human[i].streamer # s
  BY <1>6 DEF OfStreamer
<1>8. IsFiniteSet(left) /\ Cardinality(left) <= Cardinality(DOMAIN box.human)
  BY <1>5, BoxFacts, FS_Subset
<1>9. Cardinality(left) <= HUMAN_LIMIT
  <2>1. Cardinality(left) \in Nat
    BY <1>8, FS_CardinalityType
  <2>2. HUMAN_LIMIT \in Nat /\ Cardinality(DOMAIN box.human) \in Nat
    BY BoardConstantsOK, BoxFacts
  <2>3. Cardinality(DOMAIN box.human) <= HUMAN_LIMIT
    BY BoxFacts
  <2> HIDE DEF left
  <2> QED
    BY <1>8, <2>1, <2>2, <2>3
<1>10. \A i \in left : i < box.next
  BY <1>5, BoxFacts
<1> HIDE DEF desktop, left, human
<1>11. [desktop |-> desktop, human |-> human, next |-> box.next] \in Boxes
  BY <1>2, <1>4, <1>5, <1>6, <1>8, <1>9, <1>10, BoxFacts, BoxByParts
<1>12. Reports([desktop |-> desktop, human |-> human, next |-> box.next])
          \subseteq {r \in Reports(box) : r.streamer # s}
  <2>1. ASSUME NEW t \in Streamers, desktop[t] # None
        PROVE  desktop[t] \in Reports(box) /\ desktop[t].streamer # s
    BY <1>3, <1>4, <2>1 DEF Reports
  <2>2. ASSUME NEW i \in DOMAIN human
        PROVE  human[i] \in Reports(box) /\ human[i].streamer # s
    BY <1>5, <1>6, <1>7 DEF Reports
  <2> QED
    BY <2>1, <2>2 DEF Reports
<1> QED
  BY <1>1, <1>11, <1>12

\* select changes what is ticked of one report, and nothing else.
LEMMA SelectFacts ==
    ASSUME NEW box \in Boxes, NEW s \in Streamers, NEW contracts \in SUBSET Contracts
    PROVE  /\ select(box, s, contracts) \in Boxes
           /\ \A r \in Reports(select(box, s, contracts)) :
                 \E q \in Reports(box) :
                    /\ r.no = q.no /\ r.at = q.at
                    /\ r.streamer = q.streamer /\ r.positions = q.positions
<1> DEFINE report == Found(box, s)
           ticked == [report EXCEPT !.selected = contracts]
           Like(r) == \E q \in Reports(box) :
                         /\ r.no = q.no /\ r.at = q.at
                         /\ r.streamer = q.streamer /\ r.positions = q.positions
<1>1. CASE report = None
  <2>1. select(box, s, contracts) = box
    BY <1>1 DEF select
  <2> QED
    BY <2>1
<1>2. CASE report # None
  <2>1. report \in Filed /\ report \in Reports(box) /\ report.streamer = s
    BY <1>2, FoundIsThere
  <2>2. /\ ticked \in Filed
        /\ ticked.no = report.no /\ ticked.at = report.at
        /\ ticked.streamer = s /\ ticked.positions = report.positions
    <3> HIDE DEF report
    <3> QED
      BY <2>1 DEF Filed
  <2>3. Like(ticked)
    BY <2>1, <2>2
  <2>4. box = [desktop |-> box.desktop, human |-> box.human, next |-> box.next]
    BY BoxFacts
  <2>5. CASE box.desktop[s] # None
    <3> DEFINE desktop == [box.desktop EXCEPT ![s] = ticked]
    <3>1. select(box, s, contracts) = [box EXCEPT !.desktop[s] = ticked]
      BY <1>2, <2>5 DEF select
    <3> HIDE DEF ticked
    <3>2. [box EXCEPT !.desktop[s] = ticked] =
             [desktop |-> desktop, human |-> box.human, next |-> box.next]
      BY <2>4, BoxChange
    <3>3. desktop \in [Streamers -> Filed \cup {None}]
      BY <2>2, BoxFacts
    <3>4. \A t \in Streamers : desktop[t] # None => desktop[t].streamer = t
      BY <2>2, BoxFacts
    <3>5. \A t \in Streamers : desktop[t] \in {box.desktop[t], ticked}
      BY BoxFacts
    <3>6. box.human \in [DOMAIN box.human -> Filed] /\ DOMAIN box.human \in SUBSET Nat
      BY BoxFacts
    <3> HIDE DEF desktop
    <3>7. [desktop |-> desktop, human |-> box.human, next |-> box.next] \in Boxes
      BY <3>3, <3>4, <3>6, BoxFacts, BoxByParts
    <3>8. \A r \in Reports([desktop |-> desktop, human |-> box.human, next |-> box.next]) :
             r = ticked \/ r \in Reports(box)
      BY <3>5 DEF Reports
    <3> QED
      BY <2>3, <3>1, <3>2, <3>7, <3>8
  <2>6. CASE box.desktop[s] = None
    <3> DEFINE first == Oldest(OfStreamer(box, s))
               human == [box.human EXCEPT ![first] = ticked]
    <3>1. select(box, s, contracts) = [box EXCEPT !.human[first] = ticked]
      BY <1>2, <2>6 DEF select
    <3> HIDE DEF ticked
    <3>2. [box EXCEPT !.human[first] = ticked] =
             [desktop |-> box.desktop, human |-> human, next |-> box.next]
      BY <2>4, BoxChange
    <3>3. box.human \in [DOMAIN box.human -> Filed] /\ DOMAIN box.human \in SUBSET Nat
      BY BoxFacts
    <3>4. human \in [DOMAIN box.human -> Filed]
      BY <2>2, <3>3
    <3>5. \A i \in DOMAIN box.human : human[i] \in {box.human[i], ticked}
      BY <3>3
    <3> HIDE DEF human, first
    <3>6. [desktop |-> box.desktop, human |-> human, next |-> box.next] \in Boxes
      BY <3>3, <3>4, BoxFacts, BoxByParts
    <3>7. DOMAIN human = DOMAIN box.human
      BY <3>4
    <3>8. \A r \in Reports([desktop |-> box.desktop, human |-> human, next |-> box.next]) :
             r = ticked \/ r \in Reports(box)
      BY <3>5, <3>7 DEF Reports
    <3> QED
      BY <2>3, <3>1, <3>2, <3>6, <3>8
  <2> QED
    BY <2>5, <2>6
<1> QED
  BY <1>1, <1>2
-----------------------------------------------------------------------------
(* Handlers: what a step leaves in the handler that makes it. *)

LEMMA FreeType == Free \in HandlerType /\ \A object : Stage(Free, object)
<1>1. {} \in Sets
  BY SetsArePositions
<1>2. Free \in HandlerType
  BY <1>1 DEF Free, HandlerType, Steps, Ops
<1>3. Free.at = "idle" /\ Free.report = None /\ Free.message = None
  BY DEF Free
<1>4. \A object : Stage(Free, object)
  BY <1>3 DEF Stage, AsksForInbox, Changing
<1> QED
  BY <1>2, <1>4

LEMMA AsksBoardFacts ==
    ASSUME NEW h, NEW r \in HandlerType, board \in Boards
    PROVE  LET q == AsksBoard(h, r) IN
           /\ q \in HandlerType /\ q.at = "board" /\ q.reply = board
           /\ q.op = r.op /\ q.streamer = r.streamer /\ q.positions = r.positions
           /\ q.unseen = r.unseen /\ q.before = r.before /\ q.report = r.report
           /\ q.message = r.message
<1> DEFINE at == "board"
<1>1. at \in Steps
  BY DEF Steps
<1>2. AsksBoard(h, r) = [r EXCEPT !.at = at, !.reply = board]
  BY DEF AsksBoard
<1> HIDE DEF at
<1>3. LET q == AsksBoard(h, r) IN
      /\ q \in HandlerType /\ q.at = at /\ q.reply = board
      /\ q.op = r.op /\ q.streamer = r.streamer /\ q.positions = r.positions
      /\ q.unseen = r.unseen /\ q.before = r.before /\ q.report = r.report
      /\ q.message = r.message
  BY <1>1, <1>2 DEF HandlerType
<1> QED
  BY <1>3 DEF at

LEMMA AsksInboxFacts ==
    ASSUME NEW h, NEW r \in HandlerType, NEW at \in Steps, inbox \in Boxes
    PROVE  LET q == AsksInbox(h, r, at) IN
           /\ q \in HandlerType /\ q.at = at /\ q.reply = inbox
           /\ q.op = r.op /\ q.streamer = r.streamer /\ q.positions = r.positions
           /\ q.unseen = r.unseen /\ q.before = r.before /\ q.report = r.report
           /\ q.message = r.message
BY DEF AsksInbox, HandlerType

\* The one handler moves, and perhaps takes an object of its own.
LEMMA Moves ==
    ASSUME HandlersTyped, NEW h \in Handlers, NEW new \in HandlerType,
           handler' = [handler EXCEPT ![h] = new],
           Stage(new, copy[h]), UNCHANGED <<copy, latest>>
    PROVE  HandlersTyped'
<1>1. handler' \in [Handlers -> HandlerType]
  BY DEF HandlersTyped
<1>2. \A g \in Handlers : handler'[g] = IF g = h THEN new ELSE handler[g]
  BY DEF HandlersTyped
<1>3. \A g \in Handlers : Stage(handler'[g], copy'[g])
  BY <1>2 DEF HandlersTyped
<1> QED
  BY <1>1, <1>3 DEF HandlersTyped

LEMMA MovesWithObject ==
    ASSUME HandlersTyped, NEW h \in Handlers, NEW new \in HandlerType,
           handler' = [handler EXCEPT ![h] = new],
           NEW object \in Boards, Holds(h, object),
           Stage(new, object)
    PROVE  HandlersTyped'
<1>1. handler' \in [Handlers -> HandlerType]
  BY DEF HandlersTyped
<1>2. \A g \in Handlers : handler'[g] = IF g = h THEN new ELSE handler[g]
  BY DEF HandlersTyped
<1>3. copy' \in [Handlers -> Boards] /\ latest' \in Handlers
  BY DEF HandlersTyped, Holds
<1>4. \A g \in Handlers : copy'[g] = IF g = h THEN object ELSE copy[g]
  BY DEF HandlersTyped, Holds
<1>5. \A g \in Handlers : Stage(handler'[g], copy'[g])
  BY <1>2, <1>4 DEF HandlersTyped
<1> QED
  BY <1>1, <1>3, <1>5 DEF HandlersTyped

LEMMA EndsTyped ==
    ASSUME HandlersTyped, NEW h \in Handlers, Ends(h), UNCHANGED <<copy, latest>>
    PROVE  HandlersTyped'
BY FreeType, Moves DEF Ends, Goes

LEMMA EndsWithObjectTyped ==
    ASSUME HandlersTyped, NEW h \in Handlers, Ends(h), NEW object \in Boards, Holds(h, object)
    PROVE  HandlersTyped'
BY FreeType, MovesWithObject DEF Ends, Goes

\* What the types say of the handler that steps.
LEMMA HandlerFacts ==
    ASSUME Typed, NEW h \in Handlers
    PROVE  /\ handler[h] \in HandlerType
           /\ Stage(handler[h], copy[h])
           /\ copy[h] \in Boards
           /\ board \in Boards /\ inbox \in Boxes
BY DEF Typed, HandlersTyped

LEMMA AskTyped ==
    ASSUME Typed, NEW h \in Handlers, NEW op \in Ops, NEW s \in Streamers \cup {None},
           NEW P \in Sets,
           s \in Streamers \/ op = "look", op = "create" => P \in Filings,
           Ask(h, op, s, P), UNCHANGED <<copy, latest>>
    PROVE  HandlersTyped'
<1> DEFINE r == [Free EXCEPT !.op = op, !.streamer = s, !.positions = P]
           new == AsksBoard(h, r)
<1>1. /\ r \in HandlerType
      /\ r.op = op /\ r.streamer = s /\ r.positions = P /\ r.report = None /\ r.message = None
  BY FreeType DEF HandlerType, Free
<1>2. handler' = [handler EXCEPT ![h] = new]
  BY DEF Ask, Begin
<1> HIDE DEF r
<1>3. /\ new \in HandlerType /\ new.at = "board" /\ new.reply = board /\ new.op = op
      /\ new.streamer = s /\ new.positions = P /\ new.report = None /\ new.message = None
  BY <1>1, HandlerFacts, AsksBoardFacts
<1> HIDE DEF new
<1>4. Stage(new, copy[h])
  BY <1>3, HandlerFacts DEF Stage, AsksForInbox
<1> QED
  BY <1>2, <1>3, <1>4, Moves DEF Typed

LEMMA ClickTyped ==
    ASSUME Typed, NEW h \in Handlers, NEW op \in {"select", "approve", "reject"},
           NEW m \in slack, NEW contracts \in SUBSET Contracts,
           Click(h, op, m, contracts)
    PROVE  HandlersTyped'
<1> DEFINE r == [Free EXCEPT !.op = op, !.streamer = m.streamer, !.message = m,
                             !.unseen = contracts]
           new == AsksInbox(h, r, op)
<1>1. m \in Messages /\ m # None /\ m.streamer \in Streamers
  BY NoneIsNothing DEF Typed, WorldTyped, Messages
<1>2. r \in HandlerType
  <2>1. op \in Ops
    BY DEF Ops
  <2> QED
    BY <1>1, <2>1, FreeType DEF HandlerType
<1>21. r.op = op /\ r.streamer = m.streamer /\ r.report = None /\ r.message = m
  BY DEF Free
<1>22. op \in Ops /\ op \in Steps
  BY DEF Ops, Steps
<1>3. handler' = [handler EXCEPT ![h] = new]
  BY DEF Click, Begin
<1> HIDE DEF r
<1>4. /\ new \in HandlerType /\ new.at = op /\ new.reply = inbox /\ new.op = op
      /\ new.streamer = m.streamer /\ new.report = None /\ new.message = m
  BY <1>2, <1>21, <1>22, HandlerFacts, AsksInboxFacts
<1> HIDE DEF new
<1>5. Stage(new, copy[h])
  BY <1>1, <1>4, HandlerFacts DEF Stage, AsksForInbox, Changing
<1>6. UNCHANGED <<copy, latest>>
  BY DEF Click
<1> QED
  BY <1>3, <1>4, <1>5, <1>6, Moves DEF Typed
-----------------------------------------------------------------------------
(* Types: the requests. *)

LEMMA LookTyped == ASSUME Typed, NEW h \in Handlers, Look(h) PROVE Typed'
<1>1. {} \in Sets
  BY SetsArePositions
<1>2. HandlersTyped'
  BY <1>1, AskTyped DEF Look, Ops
<1> QED
  BY <1>2 DEF Typed, WorldTyped, Look, external

LEMMA DesktopReportTyped ==
    ASSUME Typed, NEW h \in Handlers, NEW s \in Streamers, NEW live \in BOOLEAN,
           DesktopReport(h, s, live)
    PROVE  Typed'
<1> DEFINE op == IF live THEN "desktop" ELSE "offline"
<1>1. {} \in Sets /\ op \in Ops /\ op # "create"
  BY SetsArePositions DEF Ops
<1>2. Ask(h, op, s, {}) /\ UNCHANGED <<copy, latest>>
  BY DEF DesktopReport
<1> HIDE DEF op
<1>3. HandlersTyped'
  BY <1>1, <1>2, AskTyped
<1> QED
  BY <1>3 DEF Typed, WorldTyped, DesktopReport, external

LEMMA SetTyped ==
    ASSUME Typed, NEW h \in Handlers, NEW s \in Streamers, NEW P \in Readings, Set(h, s, P)
    PROVE  Typed'
<1>1. P \in Sets
  BY SetsArePositions
<1>2. HandlersTyped'
  BY <1>1, AskTyped DEF Set, Ops
<1>3. allowed' \in [Streamers -> PositionSets]
  BY <1>1 DEF Set, Typed, WorldTyped, Sets, PositionSets
<1> QED
  BY <1>2, <1>3 DEF Typed, WorldTyped, Set

LEMMA DeleteTyped ==
    ASSUME Typed, NEW h \in Handlers, NEW s \in Streamers, Delete(h, s)
    PROVE  Typed'
<1>1. {} \in Sets
  BY SetsArePositions
<1>2. HandlersTyped'
  BY <1>1, AskTyped DEF Delete, Ops
<1> QED
  BY <1>2 DEF Typed, WorldTyped, Delete

LEMMA CreateTyped ==
    ASSUME Typed, NEW h \in Handlers, NEW s \in Streamers, NEW p \in UNION Readings,
           Create(h, s, p)
    PROVE  Typed'
<1>1. {p} \in Filings /\ {p} \in Sets
  BY SetsArePositions DEF Filings
<1>2. HandlersTyped'
  BY <1>1, AskTyped DEF Create, Ops
<1> QED
  BY <1>2 DEF Typed, WorldTyped, Create

LEMMA ToggleTyped ==
    ASSUME Typed, NEW h \in Handlers, NEW m \in slack,
           NEW contracts \in SUBSET contractsOf(m.positions), Toggle(h, m, contracts)
    PROVE  Typed'
<1>1. contracts \in SUBSET Contracts
  BY SetsArePositions DEF Typed, WorldTyped, Messages
<1>2. HandlersTyped'
  BY <1>1, ClickTyped DEF Toggle
<1> QED
  BY <1>2 DEF Typed, WorldTyped, Toggle, Click

LEMMA ApproveTyped ==
    ASSUME Typed, NEW h \in Handlers, NEW m \in slack, Approve(h, m)
    PROVE  Typed'
<1>1. HandlersTyped'
  BY ClickTyped DEF Approve
<1>2. m \in Messages
  BY DEF Typed, WorldTyped
<1>3. allowed' \in [Streamers -> PositionSets]
  BY <1>2 DEF Approve, Typed, WorldTyped, Messages, PositionSets
<1> QED
  BY <1>1, <1>3 DEF Typed, WorldTyped, Approve, Click

LEMMA RejectTyped ==
    ASSUME Typed, NEW h \in Handlers, NEW m \in slack, Reject(h, m)
    PROVE  Typed'
<1>1. HandlersTyped'
  BY ClickTyped DEF Reject
<1> QED
  BY <1>1 DEF Typed, WorldTyped, Reject, Click

LEMMA RequestTyped == ASSUME Typed, NEW h \in Handlers, Request(h) PROVE Typed'
BY LookTyped, DesktopReportTyped, SetTyped, DeleteTyped, CreateTyped, ToggleTyped,
   ApproveTyped, RejectTyped DEF Request
-----------------------------------------------------------------------------
(* Types: the reply to all() has come. *)

LEMMA LookEndsTyped == ASSUME Typed, NEW h \in Handlers, LookEnds(h) PROVE Typed'
<1>1. handler[h].reply \in Boards
  BY HandlerFacts DEF LookEnds, Stage
<1>2. HandlersTyped'
  BY <1>1, EndsWithObjectTyped DEF LookEnds, Typed
<1> QED
  BY <1>2 DEF Typed, WorldTyped, LookEnds, external

LEMMA DeleteNowTyped == ASSUME Typed, NEW h \in Handlers, DeleteNow(h) PROVE Typed'
<1> DEFINE r == handler[h]
           object == [r.reply EXCEPT ![r.streamer] = None]
<1>1. r.reply \in Boards
  BY HandlerFacts DEF DeleteNow, Stage
<1>2. object \in Boards
  BY <1>1 DEF Boards
<1>3. Holds(h, object) /\ Ends(h) /\ board' = object
  BY DEF DeleteNow
<1>4. told' \in [Streamers -> Position \cup {None}]
  BY DEF DeleteNow, Typed, WorldTyped
<1> HIDE DEF object
<1>5. HandlersTyped'
  BY <1>2, <1>3, EndsWithObjectTyped DEF Typed
<1> QED
  BY <1>2, <1>3, <1>4, <1>5 DEF Typed, WorldTyped, DeleteNow

\* set and applyReportedPositions.
LEMMA ChangeFacts ==
    ASSUME Typed, NEW h \in Handlers, Change(h)
    PROVE  LET r == handler[h]
               q == [r EXCEPT !.before = Before(r)]
               new == AsksInbox(h, q, "remove")
               object == [r.reply EXCEPT ![r.streamer] = Merged(r)]
           IN
           /\ r.streamer \in Streamers /\ r.reply \in Boards
           /\ r.reply[r.streamer] \in Sets /\ r.reply[r.streamer] # None
           /\ Merged(r) \in Sets
           /\ object \in Boards
           /\ handler' = [handler EXCEPT ![h] = new]
           /\ new \in HandlerType /\ new.at = "remove" /\ new.reply = inbox
           /\ new.op = r.op /\ new.streamer = r.streamer /\ new.before = r.reply[r.streamer]
           /\ new.report = r.report /\ new.message = r.message
           /\ Holds(h, object)
<1> DEFINE r == handler[h]
           q == [r EXCEPT !.before = Before(r)]
           new == AsksInbox(h, q, "remove")
           object == [r.reply EXCEPT ![r.streamer] = Merged(r)]
<1>1. r \in HandlerType /\ r.at = "board" /\ r.op \in Changing
  BY HandlerFacts DEF Change, Changing
<1>2. r.reply \in Boards /\ r.streamer \in Streamers
  BY <1>1, HandlerFacts DEF Stage, Changing
<1>3. r.reply[r.streamer] \in Sets /\ r.reply[r.streamer] # None
  BY <1>2 DEF Change, Boards
<1>4. r.positions \in Sets /\ r.unseen \in SUBSET Contracts
  BY <1>1 DEF HandlerType
<1>5. Merged(r) \in Sets
  BY <1>3, <1>4, UpsertType DEF Merged
<1>6. object \in Boards
  BY <1>2, <1>5 DEF Boards
<1>7. handler' = [handler EXCEPT ![h] = new] /\ Holds(h, object)
  BY DEF Change, Goes
<1>8. Before(r) = r.reply[r.streamer]
  BY DEF Before
<1> HIDE DEF r
<1>9. /\ q \in HandlerType
      /\ q.op = r.op /\ q.streamer = r.streamer /\ q.before = r.reply[r.streamer]
      /\ q.report = r.report /\ q.message = r.message
  BY <1>1, <1>3, <1>8 DEF HandlerType
<1> HIDE DEF q
<1>10. "remove" \in Steps
  BY DEF Steps
<1>11. /\ new \in HandlerType /\ new.at = "remove" /\ new.reply = inbox
       /\ new.op = r.op /\ new.streamer = r.streamer /\ new.before = r.reply[r.streamer]
       /\ new.report = r.report /\ new.message = r.message
  BY <1>9, <1>10, HandlerFacts, AsksInboxFacts
<1> QED
  BY <1>2, <1>3, <1>5, <1>6, <1>7, <1>11 DEF q, r

LEMMA ChangeTyped == ASSUME Typed, NEW h \in Handlers, Change(h) PROVE Typed'
<1> DEFINE r == handler[h]
           new == AsksInbox(h, [r EXCEPT !.before = Before(r)], "remove")
           object == [r.reply EXCEPT ![r.streamer] = Merged(r)]
<1>1. /\ r.streamer \in Streamers /\ r.reply \in Boards /\ Merged(r) \in Sets
      /\ object \in Boards
      /\ handler' = [handler EXCEPT ![h] = new]
      /\ new \in HandlerType /\ new.at = "remove" /\ new.reply = inbox
      /\ new.op = r.op /\ new.streamer = r.streamer
      /\ new.report = r.report /\ new.message = r.message
      /\ Holds(h, object)
  BY ChangeFacts
<1>2. r.at = "board" /\ r.op \in Changing /\ Stage(r, copy[h]) /\ inbox \in Boxes
  BY HandlerFacts DEF Change, Changing
<1>3. object[r.streamer] \in Sets
  BY <1>1 DEF Boards
<1> HIDE DEF r, new, object
<1>4. Stage(new, object)
  BY <1>1, <1>2, <1>3 DEF Stage, AsksForInbox, Changing
<1>5. HandlersTyped'
  BY <1>1, <1>4, MovesWithObject DEF Typed
<1> QED
  BY <1>5 DEF Typed, WorldTyped, Change, external

LEMMA SeenTyped == ASSUME Typed, NEW h \in Handlers, Seen(h) PROVE Typed'
<1> DEFINE r == handler[h]
           new == [r EXCEPT !.at = "screen", !.reply = None]
<1>1. r \in HandlerType /\ r.at = "board" /\ r.op \in {"desktop", "offline"}
  BY HandlerFacts DEF Seen
<1>2. r.reply \in Boards /\ r.streamer \in Streamers /\ Stage(r, copy[h])
  BY <1>1, HandlerFacts DEF Stage
<1>3. r.reply[r.streamer] \in Sets
  BY <1>2 DEF Seen, Boards
<1>4. Holds(h, r.reply) /\ board' = r.reply
  BY DEF Seen
<1>5. CASE r.op = "offline"
  BY <1>2, <1>4, <1>5, EndsWithObjectTyped DEF Seen, Typed, WorldTyped, external
<1>6. CASE r.op = "desktop"
  <2>1. handler' = [handler EXCEPT ![h] = new]
    BY <1>6 DEF Seen, Goes
  <2>2. "screen" \in Steps
    BY DEF Steps
  <2>3. /\ new \in HandlerType /\ new.at = "screen" /\ new.op = "desktop"
        /\ new.streamer = r.streamer /\ new.report = r.report /\ new.message = r.message
    BY <1>1, <1>6, <2>2 DEF HandlerType
  <2> HIDE DEF new, r
  <2>4. Stage(new, r.reply)
    BY <1>1, <1>2, <1>3, <2>3 DEF Stage, AsksForInbox, Changing
  <2>5. HandlersTyped'
    BY <1>2, <1>4, <2>1, <2>3, <2>4, MovesWithObject DEF Typed
  <2> QED
    BY <1>2, <1>4, <2>5 DEF Typed, WorldTyped, Seen, external
<1> QED
  BY <1>1, <1>5, <1>6

\* The reports there have been stay, and one is added.
LEMMA MadeGrows ==
    ASSUME Typed, NEW entry \in Entries, made' = Append(made, entry)
    PROVE  /\ made' \in Seq(Entries)
           /\ Len(made) \in Nat /\ DOMAIN made = 1 .. Len(made)
           /\ DOMAIN made' = 1 .. Len(made) + 1
           /\ \A n \in DOMAIN made : n \in DOMAIN made' /\ made'[n] = made[n]
           /\ Len(made) + 1 \in DOMAIN made' /\ made'[Len(made) + 1] = entry
<1>1. made \in Seq(Entries)
  BY DEF Typed, WorldTyped
<1>2. Len(made) \in Nat /\ DOMAIN made = 1 .. Len(made)
  BY <1>1
<1>3. made' \in Seq(Entries) /\ Len(made') = Len(made) + 1
  BY <1>1
<1>4. DOMAIN made' = 1 .. Len(made) + 1
  BY <1>3
<1>5. \A n \in 1 .. Len(made) : made'[n] = made[n]
  BY <1>1
<1>6. made'[Len(made) + 1] = entry
  BY <1>1
<1> QED
  BY <1>2, <1>3, <1>4, <1>5, <1>6

\* The time is a number of seconds.
LEMMA SecondsAreNumbers == ASSUME Typed PROVE Seconds \subseteq Nat
<1>1. made \in Seq(Entries)
  BY DEF Typed, WorldTyped
<1>2. CASE made = <<>>
  BY <1>2 DEF Seconds
<1>3. CASE made # <<>>
  <2>1. made[Len(made)] \in Entries
    BY <1>1, <1>3
  <2>2. made[Len(made)].at \in Nat
    BY <2>1 DEF Entries
  <2> QED
    BY <1>3, <2>2 DEF Seconds
<1> QED
  BY <1>2, <1>3

EntryOf(report) ==
    [streamer |-> report.streamer, at |-> report.at, positions |-> report.positions]

\* Handler h makes the next report, of what it was asked or has read.
Makes(h, report) ==
    /\ report \in Filed
    /\ report.no = Len(made) + 1
    /\ report.streamer = handler[h].streamer
    /\ report.positions = handler[h].positions
    /\ Goes(h, [handler[h] EXCEPT !.at = "upload", !.report = report, !.reply = None])
    /\ Made(report)

LEMMA MadeTyped ==
    ASSUME Typed, NEW s \in Streamers, NEW lane \in {"desktop", "human"}, NEW P \in Filings,
           NEW unseen \in SUBSET Contracts, NEW at \in Seconds
    PROVE  [streamer |-> s, lane |-> lane, positions |-> P, selected |-> contractsOf(P),
            unseen |-> unseen, no |-> Len(made) + 1, at |-> at] \in Filed
<1>1. Len(made) + 1 \in Nat
  BY DEF Typed, WorldTyped
<1>2. contractsOf(P) \in SUBSET Contracts
  BY SetsArePositions
<1>3. at \in Nat
  BY SecondsAreNumbers
<1> QED
  BY <1>1, <1>2, <1>3 DEF Filed

\* What goes on to be uploaded and put.
LEMMA MakesTyped ==
    ASSUME Typed, NEW h \in Handlers, NEW report, Makes(h, report),
           handler[h].streamer \in Streamers, handler[h].op \in {"desktop", "create"},
           NEW object \in Boards,
           \/ Holds(h, object)
           \/ UNCHANGED <<copy, latest>> /\ object = copy[h]
    PROVE  HandlersTyped' /\ made' \in Seq(Entries)
<1> DEFINE r == handler[h]
           new == [r EXCEPT !.at = "upload", !.report = report, !.reply = None]
<1>1. r \in HandlerType /\ Stage(r, copy[h])
  BY HandlerFacts
<1>2. /\ report \in Filed /\ report.streamer = r.streamer
      /\ handler' = [handler EXCEPT ![h] = new]
  BY DEF Makes, Goes
<1>3. EntryOf(report) \in Entries
  BY <1>2 DEF EntryOf, Entries, Filed
<1>4. made' = Append(made, EntryOf(report))
  BY DEF Makes, Made, EntryOf
<1>5. made' \in Seq(Entries)
  BY <1>3, <1>4, MadeGrows
<1>6. "upload" \in Steps
  BY DEF Steps
<1>7. /\ new \in HandlerType /\ new.at = "upload" /\ new.op = r.op
      /\ new.streamer = r.streamer /\ new.report = report /\ new.message = r.message
  BY <1>1, <1>2, <1>6 DEF HandlerType
<1> HIDE DEF new, r
<1>8. r.op \in {"desktop", "create"} /\ r.streamer \in Streamers
  BY DEF r
<1>9. r.message # None => r.message.streamer = r.streamer
  BY <1>1 DEF Stage
<1>10. Stage(new, object)
  BY <1>2, <1>7, <1>8, <1>9 DEF Stage, AsksForInbox, Changing
<1>11. HandlersTyped'
  <2>1. HandlersTyped
    BY DEF Typed
  <2>2. CASE Holds(h, object)
    BY <1>2, <1>7, <1>10, <2>1, <2>2, MovesWithObject
  <2>3. CASE UNCHANGED <<copy, latest>> /\ object = copy[h]
    BY <1>2, <1>7, <1>10, <2>1, <2>3, Moves
  <2> QED
    BY <2>2, <2>3
<1> QED
  BY <1>5, <1>11

\* A user's report is refused, or it is the next one.
LEMMA CreateNowMakes ==
    ASSUME Typed, NEW h \in Handlers, CreateNow(h)
    PROVE  \/ Ends(h) /\ UNCHANGED made
           \/ \E report : Makes(h, report)
<1> DEFINE r == handler[h]
           report(at) == [streamer |-> r.streamer, lane |-> "human", positions |-> r.positions,
                          selected |-> contractsOf(r.positions), unseen |-> {},
                          no |-> Len(made) + 1, at |-> at]
<1>1. r.at = "board" /\ r.op = "create" /\ Stage(r, copy[h])
  BY HandlerFacts DEF CreateNow
<1>2. r.streamer \in Streamers /\ r.positions \in Filings
  BY <1>1 DEF Stage
<1>3. \/ Ends(h) /\ UNCHANGED made
      \/ \E at \in Seconds :
            /\ Goes(h, [r EXCEPT !.at = "upload", !.report = report(at), !.reply = None])
            /\ Made(report(at))
  BY DEF CreateNow
<1>4. ASSUME NEW at \in Seconds,
             Goes(h, [r EXCEPT !.at = "upload", !.report = report(at), !.reply = None]),
             Made(report(at))
      PROVE  Makes(h, report(at))
  <2>1. report(at) \in Filed
    BY <1>2, MadeTyped
  <2> QED
    BY <1>4, <2>1 DEF Makes
<1> QED
  BY <1>3, <1>4

LEMMA CreateNowTyped == ASSUME Typed, NEW h \in Handlers, CreateNow(h) PROVE Typed'
<1> DEFINE r == handler[h]
<1>1. r \in HandlerType /\ r.at = "board" /\ r.op = "create" /\ Stage(r, copy[h])
  BY HandlerFacts DEF CreateNow
<1>2. r.reply \in Boards /\ r.streamer \in Streamers
  BY <1>1 DEF Stage
<1>3. Holds(h, r.reply)
  BY DEF CreateNow
<1>4. CASE Ends(h) /\ UNCHANGED made
  BY <1>2, <1>3, <1>4, EndsWithObjectTyped DEF CreateNow, Typed, WorldTyped
<1>5. CASE \E report : Makes(h, report)
  <2>1. PICK report : Makes(h, report)
    BY <1>5
  <2>2. HandlersTyped' /\ made' \in Seq(Entries)
    BY <1>1, <1>2, <1>3, <2>1, MakesTyped
  <2> QED
    BY <2>2 DEF Typed, WorldTyped, CreateNow
<1> QED
  BY <1>4, <1>5, CreateNowMakes
-----------------------------------------------------------------------------
(* Types: the reading, and what is made of it. *)

LEMMA ReadsAsTyped ==
    ASSUME Typed, NEW h \in Handlers, handler[h].at = "screen", NEW P \in Readings,
           ReadsAs(h, P), UNCHANGED <<copy, latest>>
    PROVE  HandlersTyped'
<1> DEFINE r == handler[h]
           q == [r EXCEPT !.positions = P]
           new == AsksInbox(h, q, "previous")
<1>1. CASE Ends(h)
  BY <1>1, EndsTyped DEF Typed
<1>2. CASE Goes(h, new)
  <2>1. r \in HandlerType /\ Stage(r, copy[h]) /\ r.at = "screen" /\ inbox \in Boxes
    BY HandlerFacts
  <2>2. /\ r.streamer \in Streamers /\ r.op = "desktop" /\ copy[h][r.streamer] \in Sets
    BY <2>1 DEF Stage
  <2>3. P \in Sets
    BY SetsArePositions
  <2>4. handler' = [handler EXCEPT ![h] = new]
    BY <1>2 DEF Goes
  <2>5. /\ q \in HandlerType /\ q.op = r.op /\ q.streamer = r.streamer /\ q.positions = P
        /\ q.report = r.report /\ q.message = r.message
    BY <2>1, <2>3 DEF HandlerType
  <2> HIDE DEF q
  <2>6. "previous" \in Steps
    BY DEF Steps
  <2>7. /\ new \in HandlerType /\ new.at = "previous" /\ new.reply = inbox
        /\ new.op = r.op /\ new.streamer = r.streamer /\ new.positions = P
        /\ new.report = r.report /\ new.message = r.message
    BY <2>1, <2>5, <2>6, AsksInboxFacts
  <2> HIDE DEF new, r
  <2>8. Stage(new, copy[h])
    BY <2>1, <2>2, <2>7 DEF Stage, AsksForInbox, Changing
  <2> QED
    BY <2>4, <2>7, <2>8, Moves DEF Typed
<1> QED
  BY <1>1, <1>2 DEF ReadsAs

LEMMA ReadTyped == ASSUME Typed, NEW h \in Handlers, Read(h) PROVE Typed'
<1>1. handler[h].streamer \in Streamers
  BY HandlerFacts DEF Read, Stage
<1>2. screen[handler[h].streamer] \in Readings
  BY <1>1 DEF Typed, WorldTyped
<1>3. HandlersTyped'
  BY <1>2, ReadsAsTyped DEF Read
<1> QED
  BY <1>3 DEF Typed, WorldTyped, Read, external

LEMMA MisreadTyped == ASSUME Typed, NEW h \in Handlers, Misread(h) PROVE Typed'
<1>1. UNCHANGED <<copy, latest>> /\ handler[h].at = "screen"
  BY DEF Misread
<1>2. CASE Ends(h)
  BY <1>1, <1>2, EndsTyped DEF Misread, Typed, WorldTyped
<1>3. CASE \E P \in Readings : ReadsAs(h, P)
  BY <1>1, <1>3, ReadsAsTyped DEF Misread, Typed, WorldTyped
<1> QED
  BY <1>2, <1>3 DEF Misread

\* What was read is known, or approved by itself, or the next report.
LEMMA PreviousMakes ==
    ASSUME Typed, NEW h \in Handlers, Previous(h)
    PROVE  LET r == handler[h]
               unseen == unseenContracts(copy[h][r.streamer], r.positions)
           IN \/ Ends(h) /\ UNCHANGED <<allowed, made>>
              \/ /\ Goes(h, AsksBoard(h, [r EXCEPT !.op = "auto", !.unseen = unseen]))
                 /\ allowed' = [allowed EXCEPT ![r.streamer] = @ \cup r.positions]
                 /\ UNCHANGED made
              \/ UNCHANGED allowed /\ \E report : Makes(h, report)
<1> DEFINE r == handler[h]
           unseen == unseenContracts(copy[h][r.streamer], r.positions)
           report(at) == [streamer |-> r.streamer, lane |-> "desktop",
                          positions |-> r.positions, selected |-> contractsOf(r.positions),
                          unseen |-> unseen, no |-> Len(made) + 1, at |-> at]
<1>1. r.at = "previous" /\ Stage(r, copy[h])
  BY HandlerFacts DEF Previous
<1>2. r.streamer \in Streamers /\ r.positions \in Readings /\ copy[h][r.streamer] \in Sets
  BY <1>1 DEF Stage
<1>3. r.positions \in Filings /\ unseen \in SUBSET Contracts
  BY <1>2, SetsArePositions, UnseenType DEF Filings
<1>4. \/ Ends(h) /\ UNCHANGED <<allowed, made>>
      \/ /\ Goes(h, AsksBoard(h, [r EXCEPT !.op = "auto", !.unseen = unseen]))
         /\ allowed' = [allowed EXCEPT ![r.streamer] = @ \cup r.positions]
         /\ UNCHANGED made
      \/ /\ \E at \in Seconds :
               /\ Goes(h, [r EXCEPT !.at = "upload", !.report = report(at), !.reply = None])
               /\ Made(report(at))
         /\ UNCHANGED allowed
  BY DEF Previous
<1>5. ASSUME NEW at \in Seconds,
             Goes(h, [r EXCEPT !.at = "upload", !.report = report(at), !.reply = None]),
             Made(report(at))
      PROVE  Makes(h, report(at))
  <2> HIDE DEF unseen
  <2>1. report(at) \in Filed
    BY <1>2, <1>3, MadeTyped
  <2> QED
    BY <1>5, <2>1 DEF Makes
<1> QED
  BY <1>4, <1>5

LEMMA PreviousTyped == ASSUME Typed, NEW h \in Handlers, Previous(h) PROVE Typed'
<1> DEFINE r == handler[h]
           unseen == unseenContracts(copy[h][r.streamer], r.positions)
           asking == [r EXCEPT !.op = "auto", !.unseen = unseen]
<1>1. r \in HandlerType /\ r.at = "previous" /\ Stage(r, copy[h]) /\ board \in Boards
  BY HandlerFacts DEF Previous
<1>2. /\ r.streamer \in Streamers /\ r.op = "desktop" /\ copy[h][r.streamer] \in Sets
      /\ r.positions \in Readings
  BY <1>1 DEF Stage
<1>3. r.positions \in Sets /\ r.positions \in Filings
  BY <1>2, SetsArePositions DEF Filings
<1>4. unseen \in SUBSET Contracts
  BY <1>2, <1>3, UnseenType
<1>5. UNCHANGED <<copy, latest>>
  BY DEF Previous
<1>6. CASE Ends(h) /\ UNCHANGED <<allowed, made>>
  BY <1>5, <1>6, EndsTyped DEF Previous, Typed, WorldTyped
<1>7. CASE /\ Goes(h, AsksBoard(h, asking))
           /\ allowed' = [allowed EXCEPT ![r.streamer] = @ \cup r.positions]
           /\ UNCHANGED made
  <2> DEFINE new == AsksBoard(h, asking)
  <2>1. handler' = [handler EXCEPT ![h] = new]
    BY <1>7 DEF Goes
  <2>2. allowed' \in [Streamers -> PositionSets]
    BY <1>7, <1>3 DEF Typed, WorldTyped, Sets, PositionSets
  <2>3. "auto" \in Ops
    BY DEF Ops
  <2> HIDE DEF unseen
  <2>4. /\ asking \in HandlerType /\ asking.op = "auto" /\ asking.streamer = r.streamer
        /\ asking.report = r.report /\ asking.message = r.message
    BY <1>1, <1>4, <2>3 DEF HandlerType
  <2> HIDE DEF asking
  <2>5. /\ new \in HandlerType /\ new.at = "board" /\ new.reply = board
        /\ new.op = "auto" /\ new.streamer = r.streamer
        /\ new.report = r.report /\ new.message = r.message
    BY <1>1, <2>4, AsksBoardFacts
  <2> HIDE DEF new, r
  <2>6. Stage(new, copy[h])
    BY <1>1, <1>2, <2>5 DEF Stage, AsksForInbox, Changing
  <2>7. HandlersTyped'
    BY <1>5, <2>1, <2>5, <2>6, Moves DEF Typed
  <2> QED
    BY <1>7, <2>2, <2>7 DEF Previous, Typed, WorldTyped
<1>8. CASE UNCHANGED allowed /\ \E report : Makes(h, report)
  <2>1. PICK report : Makes(h, report)
    BY <1>8
  <2>2. copy[h] \in Boards
    BY DEF Typed, HandlersTyped
  <2>3. HandlersTyped' /\ made' \in Seq(Entries)
    BY <1>2, <1>5, <2>1, <2>2, MakesTyped
  <2> QED
    BY <1>8, <2>3 DEF Previous, Typed, WorldTyped
<1> QED
  BY <1>6, <1>7, <1>8, PreviousMakes
-----------------------------------------------------------------------------
(* Types: file, commit, Slack and the world. *)

LEMMA UploadedTyped == ASSUME Typed, NEW h \in Handlers, Uploaded(h) PROVE Typed'
<1> DEFINE r == handler[h]
           new == AsksInbox(h, r, "put")
<1>1. r \in HandlerType /\ r.at = "upload" /\ Stage(r, copy[h]) /\ inbox \in Boxes
  BY HandlerFacts DEF Uploaded
<1>2. handler' = [handler EXCEPT ![h] = new]
  BY DEF Uploaded, Goes
<1>3. "put" \in Steps
  BY DEF Steps
<1>4. /\ new \in HandlerType /\ new.at = "put" /\ new.reply = inbox
      /\ new.op = r.op /\ new.streamer = r.streamer
      /\ new.report = r.report /\ new.message = r.message
  BY <1>1, <1>3, AsksInboxFacts
<1> HIDE DEF new, r
<1>5. Stage(new, copy[h])
  BY <1>1, <1>4 DEF Stage, AsksForInbox, Changing
<1>6. HandlersTyped'
  BY <1>2, <1>4, <1>5, Moves DEF Typed, Uploaded
<1> QED
  BY <1>6 DEF Typed, WorldTyped, Uploaded, external

LEMMA PutTyped == ASSUME Typed, NEW h \in Handlers, Put(h) PROVE Typed'
<1> DEFINE r == handler[h]
           new == [r EXCEPT !.at = "notify", !.reply = None]
<1>1. r \in HandlerType /\ r.at = "put" /\ Stage(r, copy[h])
  BY HandlerFacts DEF Put
<1>2. r.reply \in Boxes /\ r.report \in Filed
  BY <1>1 DEF Stage, AsksForInbox
<1>3. inbox' \in Boxes
  BY <1>2, PutFacts DEF Put
<1>4. handler' = [handler EXCEPT ![h] = new]
  BY DEF Put, Goes
<1>5. "notify" \in Steps
  BY DEF Steps
<1>6. /\ new \in HandlerType /\ new.at = "notify"
      /\ new.op = r.op /\ new.streamer = r.streamer
      /\ new.report = r.report /\ new.message = r.message
  BY <1>1, <1>5 DEF HandlerType
<1> HIDE DEF new, r
<1>7. Stage(new, copy[h])
  BY <1>1, <1>6 DEF Stage, AsksForInbox, Changing
<1>8. HandlersTyped'
  BY <1>4, <1>6, <1>7, Moves DEF Typed, Put
<1> QED
  BY <1>3, <1>8 DEF Typed, WorldTyped, Put, external

LEMMA MessageType ==
    ASSUME NEW report \in Filed
    PROVE  Message(report) \in Messages
<1>1. report.positions \in PositionSets
  BY SetsArePositions DEF Filed
<1>2. shown(report.positions) \in PositionSets
  BY <1>1 DEF shown, PositionSets
<1> QED
  BY <1>2 DEF Message, Messages, Filed

LEMMA NotifyTyped == ASSUME Typed, NEW h \in Handlers, Notify(h) PROVE Typed'
<1>1. handler[h].report \in Filed
  BY HandlerFacts DEF Notify, Stage
<1>2. slack' \subseteq Messages
  BY <1>1, MessageType DEF Notify, Typed, WorldTyped
<1>3. HandlersTyped'
  BY EndsTyped DEF Notify, Typed
<1> QED
  BY <1>2, <1>3 DEF Typed, WorldTyped, Notify

LEMMA NotifyFailsTyped == ASSUME Typed, NEW h \in Handlers, NotifyFails(h) PROVE Typed'
<1> DEFINE r == handler[h]
           new == AsksInbox(h, r, "remove")
<1>1. r \in HandlerType /\ r.at = "notify" /\ Stage(r, copy[h]) /\ inbox \in Boxes
  BY HandlerFacts DEF NotifyFails
<1>2. handler' = [handler EXCEPT ![h] = new]
  BY DEF NotifyFails, Goes
<1>3. "remove" \in Steps
  BY DEF Steps
<1>4. /\ new \in HandlerType /\ new.at = "remove" /\ new.reply = inbox
      /\ new.op = r.op /\ new.streamer = r.streamer
      /\ new.report = r.report /\ new.message = r.message
  BY <1>1, <1>3, AsksInboxFacts
<1> HIDE DEF new, r
<1>5. Stage(new, copy[h])
  BY <1>1, <1>4 DEF Stage, AsksForInbox, Changing
<1>6. HandlersTyped'
  BY <1>2, <1>4, <1>5, Moves DEF Typed, NotifyFails
<1> QED
  BY <1>6 DEF Typed, WorldTyped, NotifyFails

LEMMA RemoveTyped == ASSUME Typed, NEW h \in Handlers, Remove(h) PROVE Typed'
<1> DEFINE r == handler[h]
           new == [r EXCEPT !.at = "removed", !.reply = None]
<1>1. r \in HandlerType /\ r.at = "remove" /\ Stage(r, copy[h])
  BY HandlerFacts DEF Remove
<1>2. r.reply \in Boxes /\ r.streamer \in Streamers
  BY <1>1 DEF Stage, AsksForInbox
<1>3. inbox' \in Boxes
  BY <1>2, RemoveFacts DEF Remove
<1>4. handler' = [handler EXCEPT ![h] = new]
  BY DEF Remove, Goes
<1>5. "removed" \in Steps
  BY DEF Steps
<1>6. /\ new \in HandlerType /\ new.at = "removed"
      /\ new.op = r.op /\ new.streamer = r.streamer
      /\ new.report = r.report /\ new.message = r.message
  BY <1>1, <1>5 DEF HandlerType
<1> HIDE DEF new, r
<1>7. Stage(new, copy[h])
  BY <1>1, <1>6 DEF Stage, AsksForInbox, Changing
<1>8. HandlersTyped'
  BY <1>4, <1>6, <1>7, Moves DEF Typed, Remove
<1> QED
  BY <1>3, <1>8 DEF Typed, WorldTyped, Remove, external

LEMMA CommitTyped == ASSUME Typed, NEW h \in Handlers, Commit(h) PROVE Typed'
<1> DEFINE r == handler[h]
           is == pickPosition(copy[h][r.streamer])
<1>1. r \in HandlerType /\ r.at = "removed" /\ Stage(r, copy[h]) /\ r.op \in Changing
  BY HandlerFacts DEF Commit, Changing
<1>2. r.streamer \in Streamers /\ copy[h][r.streamer] \in Sets
  BY <1>1 DEF Stage
<1>3. is \in Position \cup {None}
  BY <1>2, SetsArePositions, HeadlineType
<1>4. told' = told \/ told' = [told EXCEPT ![r.streamer] = is]
  BY DEF Commit
<1> HIDE DEF is
<1>5. told' \in [Streamers -> Position \cup {None}]
  BY <1>3, <1>4 DEF Typed, WorldTyped
<1>6. board' \in Boards
  BY DEF Commit, Typed, HandlersTyped
<1>7. HandlersTyped'
  BY EndsTyped DEF Commit, Typed
<1> QED
  BY <1>5, <1>6, <1>7 DEF Typed, WorldTyped, Commit

LEMMA CloseTyped == ASSUME Typed, NEW h \in Handlers, Close(h) PROVE Typed'
<1>1. HandlersTyped'
  BY EndsTyped DEF Close, Typed
<1> QED
  BY <1>1 DEF Typed, WorldTyped, Close

LEMMA SelectTyped == ASSUME Typed, NEW h \in Handlers, Select(h) PROVE Typed'
<1>1. /\ handler[h].reply \in Boxes /\ handler[h].streamer \in Streamers
      /\ handler[h].unseen \in SUBSET Contracts
  BY HandlerFacts DEF Select, Stage, AsksForInbox, HandlerType
<1>2. inbox' \in Boxes
  BY <1>1, HandlerFacts, SelectFacts DEF Select
<1>3. HandlersTyped'
  BY EndsTyped DEF Select, Typed
<1> QED
  BY <1>2, <1>3 DEF Typed, WorldTyped, Select, external

\* What is approved is part of the report found, and that is the one on the
\* message.
LEMMA ResolveFacts ==
    ASSUME Typed, NEW h \in Handlers, Resolve(h)
    PROVE  LET r == handler[h]
               report == find(r.reply, r.streamer, r.message.at)
               chosen == selectedPositions(report)
               q == [r EXCEPT !.positions = chosen, !.unseen = report.unseen]
               new == AsksBoard(h, q)
           IN
           /\ r.reply \in Boxes /\ r.streamer \in Streamers /\ r.message # None
           /\ \/ Ends(h)
              \/ r.at = "reject" /\ Goes(h, AsksInbox(h, r, "remove"))
              \/ /\ r.at = "approve"
                 /\ report \in Reports(r.reply) /\ report.streamer = r.streamer
                 /\ report.at = r.message.at
                 /\ chosen \subseteq report.positions
                 /\ handler' = [handler EXCEPT ![h] = new]
                 /\ new \in HandlerType /\ new.at = "board" /\ new.reply = board
                 /\ new.op = "approve" /\ new.streamer = r.streamer
                 /\ new.positions = chosen
                 /\ new.report = r.report /\ new.message = r.message
<1> DEFINE r == handler[h]
           report == find(r.reply, r.streamer, r.message.at)
           chosen == selectedPositions(report)
           q == [r EXCEPT !.positions = chosen, !.unseen = report.unseen]
           new == AsksBoard(h, q)
<1>1. /\ r \in HandlerType /\ r.at \in {"approve", "reject"} /\ Stage(r, copy[h])
      /\ board \in Boards
  BY HandlerFacts DEF Resolve
<1>2. /\ r.reply \in Boxes /\ r.streamer \in Streamers /\ r.message # None /\ r.op = r.at
  BY <1>1 DEF Stage, AsksForInbox
<1>3. \/ Ends(h)
      \/ r.op = "reject" /\ Goes(h, AsksInbox(h, r, "remove"))
      \/ r.op = "approve" /\ report # None /\ Goes(h, new)
  BY DEF Resolve
<1>4. CASE r.op = "approve" /\ report # None /\ Goes(h, new)
  <2>1. report = Found(r.reply, r.streamer) /\ report.at = r.message.at
    BY <1>4 DEF find
  <2>2. report \in Reports(r.reply) /\ report \in Filed /\ report.streamer = r.streamer
    BY <1>2, <1>4, <2>1, FoundIsThere
  <2>3. chosen \subseteq report.positions
    BY DEF selectedPositions
  <2>4. chosen \in Sets
    BY <2>2, <2>3, SetsArePositions, PartsOfSets DEF Filed
  <2>5. report.unseen \in SUBSET Contracts
    BY <2>2 DEF Filed
  <2>6. handler' = [handler EXCEPT ![h] = new]
    BY <1>4 DEF Goes
  <2> HIDE DEF chosen, report
  <2>7. /\ q \in HandlerType /\ q.op = r.op /\ q.streamer = r.streamer /\ q.positions = chosen
        /\ q.report = r.report /\ q.message = r.message
    BY <1>1, <2>4, <2>5 DEF HandlerType
  <2> HIDE DEF q
  <2>8. /\ new \in HandlerType /\ new.at = "board" /\ new.reply = board
        /\ new.op = "approve" /\ new.streamer = r.streamer /\ new.positions = chosen
        /\ new.report = r.report /\ new.message = r.message
    BY <1>1, <1>4, <2>7, AsksBoardFacts
  <2> QED
    BY <1>2, <1>4, <2>1, <2>2, <2>3, <2>6, <2>8 DEF q, chosen, report
<1> QED
  BY <1>2, <1>3, <1>4

LEMMA ResolveTyped == ASSUME Typed, NEW h \in Handlers, Resolve(h) PROVE Typed'
<1> DEFINE r == handler[h]
           report == find(r.reply, r.streamer, r.message.at)
           chosen == selectedPositions(report)
           asking == AsksInbox(h, r, "remove")
           new == AsksBoard(h, [r EXCEPT !.positions = chosen, !.unseen = report.unseen])
<1>1. r \in HandlerType /\ Stage(r, copy[h]) /\ board \in Boards /\ inbox \in Boxes
  BY HandlerFacts
<1>2. /\ r.streamer \in Streamers
      /\ \/ Ends(h)
         \/ r.at = "reject" /\ Goes(h, asking)
         \/ /\ r.at = "approve" /\ handler' = [handler EXCEPT ![h] = new]
            /\ new \in HandlerType /\ new.at = "board" /\ new.reply = board
            /\ new.op = "approve" /\ new.streamer = r.streamer
            /\ new.report = r.report /\ new.message = r.message
  BY ResolveFacts
<1>3. UNCHANGED <<copy, latest>>
  BY DEF Resolve
<1>4. CASE Ends(h)
  BY <1>3, <1>4, EndsTyped DEF Resolve, Typed, WorldTyped, external
<1>5. CASE r.at = "reject" /\ Goes(h, asking)
  <2>1. "remove" \in Steps
    BY DEF Steps
  <2>2. /\ asking \in HandlerType /\ asking.at = "remove" /\ asking.reply = inbox
        /\ asking.op = r.op /\ asking.streamer = r.streamer
        /\ asking.report = r.report /\ asking.message = r.message
    BY <1>1, <2>1, AsksInboxFacts
  <2>3. handler' = [handler EXCEPT ![h] = asking]
    BY <1>5 DEF Goes
  <2> HIDE DEF asking, r
  <2>4. Stage(asking, copy[h])
    BY <1>1, <1>5, <2>2 DEF Stage, AsksForInbox, Changing
  <2>5. HandlersTyped'
    BY <1>3, <2>2, <2>3, <2>4, Moves DEF Typed
  <2> QED
    BY <2>5 DEF Resolve, Typed, WorldTyped, external
<1>6. CASE /\ r.at = "approve" /\ handler' = [handler EXCEPT ![h] = new]
           /\ new \in HandlerType /\ new.at = "board" /\ new.reply = board
           /\ new.op = "approve" /\ new.streamer = r.streamer
           /\ new.report = r.report /\ new.message = r.message
  <2> HIDE DEF new, r
  <2>1. Stage(new, copy[h])
    BY <1>1, <1>2, <1>6 DEF Stage, AsksForInbox, Changing
  <2>2. HandlersTyped'
    BY <1>3, <1>6, <2>1, Moves DEF Typed
  <2> QED
    BY <2>2 DEF Resolve, Typed, WorldTyped, external
<1> QED
  BY <1>2, <1>4, <1>5, <1>6

LEMMA ScreenChangesTyped ==
    ASSUME Typed, NEW s \in Streamers, ScreenChanges(s)
    PROVE  Typed'
<1>1. screen' \in [Streamers -> Readings]
  BY DEF ScreenChanges, Typed, WorldTyped
<1>2. HandlersTyped'
  BY DEF ScreenChanges, Typed, HandlersTyped
<1> QED
  BY <1>1, <1>2 DEF ScreenChanges, Typed, WorldTyped

LEMMA RestartTyped == ASSUME Typed, Restart PROVE Typed'
<1>1. \A g \in Handlers : Notifying(g) => handler[g].report \in Filed
  BY DEF Notifying, Typed, HandlersTyped, HandlerType
<1>2. orphans' \subseteq Nat
  <2>1. \A g \in Handlers : Notifying(g) => handler[g].report.no \in Nat
    BY <1>1 DEF Filed
  <2>2. orphans' = orphans \cup
           {handler[g].report.no : g \in {f \in Handlers : Notifying(f)}}
    BY DEF Restart
  <2>3. orphans \subseteq Nat
    BY DEF Typed, WorldTyped
  <2> QED
    BY <2>1, <2>2, <2>3
<1>3. HandlersTyped'
  BY FreeType DEF Restart, Typed, HandlersTyped
<1> QED
  BY <1>2, <1>3 DEF Restart, Typed, WorldTyped

LEMMA HandlerStepTyped == ASSUME Typed, NEW h \in Handlers, HandlerStep(h) PROVE Typed'
BY LookEndsTyped, DeleteNowTyped, ChangeTyped, SeenTyped, CreateNowTyped, ReadTyped,
   PreviousTyped, UploadedTyped, PutTyped, NotifyTyped, RemoveTyped, CommitTyped, CloseTyped,
   SelectTyped, ResolveTyped DEF HandlerStep

LEMMA NextTyped == ASSUME Typed, [Next]_vars PROVE Typed'
<1>1. CASE Next
  <2>1. ASSUME NEW h \in Handlers,
               Request(h) \/ HandlerStep(h) \/ Misread(h) \/ NotifyFails(h)
        PROVE  Typed'
    BY <2>1, RequestTyped, HandlerStepTyped, MisreadTyped, NotifyFailsTyped
  <2> QED
    BY <1>1, <2>1, ScreenChangesTyped, RestartTyped DEF Next
<1>2. CASE UNCHANGED vars
  BY <1>2 DEF vars, Typed, HandlersTyped, WorldTyped
<1> QED
  BY <1>1, <1>2

LEMMA InitTyped == ASSUME Init PROVE Typed
<1>1. board \in [Streamers -> Readings]
  BY DEF Init
<1>2. board \in Boards
  BY <1>1, SetsArePositions DEF Boards
<1>3. inbox \in Boxes
  <2> DEFINE desktop == [s \in Streamers |-> None]
             human == [i \in {} |-> None]
  <2>1. inbox = [desktop |-> desktop, human |-> human, next |-> 1]
    BY DEF Init
  <2>2. desktop \in [Streamers -> Filed \cup {None}]
    OBVIOUS
  <2>3. human \in [{} -> Filed]
    OBVIOUS
  <2>4. IsFiniteSet({}) /\ Cardinality({}) = 0
    BY FS_EmptySet
  <2>5. 0 <= HUMAN_LIMIT /\ 1 \in Nat
    BY BoardConstantsOK
  <2>6. \A s \in Streamers : desktop[s] = None
    OBVIOUS
  <2> HIDE DEF desktop, human
  <2>7. [desktop |-> desktop, human |-> human, next |-> 1] \in Boxes
    BY <2>2, <2>3, <2>4, <2>5, <2>6, BoxByParts
  <2> QED
    BY <2>1, <2>7
<1>4. HandlersTyped
  BY <1>2, FreeType DEF Init, HandlersTyped
<1>5. told \in [Streamers -> Position \cup {None}]
  <2>1. \A s \in Streamers : pickPosition(board[s]) \in Position \cup {None}
    BY <1>1, SetsArePositions, HeadlineType
  <2> QED
    BY <2>1 DEF Init
<1>6. allowed \in [Streamers -> PositionSets]
  BY <1>1, SetsArePositions DEF Init
<1>7. made \in Seq(Entries)
  BY DEF Init
<1> QED
  BY <1>1, <1>2, <1>3, <1>4, <1>5, <1>6, <1>7 DEF Init, Typed, WorldTyped

LEMMA AlwaysTyped == Spec => []Typed
<1>1. Init => Typed
  BY InitTyped
<1>2. Typed /\ [Next]_vars => Typed'
  BY NextTyped
<1> QED
  BY <1>1, <1>2, PTL DEF Spec

LEMMA TypedIsTypeOK == ASSUME Typed PROVE TypeOK
<1>1. board \in BoardMap /\ copy \in [Handlers -> BoardMap]
  <2>1. Boards \subseteq BoardMap
    BY SetsArePositions DEF Boards, BoardMap
  <2> QED
    BY <2>1 DEF Typed, HandlersTyped
<1>2. \A s \in Streamers : board[s] # None => Distinct(board[s])
  BY DEF Typed, Boards, Sets
<1>3. /\ inbox.desktop \in [Streamers -> Report \cup {None}]
      /\ inbox.next \in Nat
      /\ \A i \in DOMAIN inbox.human : i \in Nat /\ i < inbox.next /\ inbox.human[i] \in Report
      /\ Cardinality(DOMAIN inbox.human) <= HUMAN_LIMIT
  BY BoxFacts, FiledAreReports DEF Typed
<1>4. ASSUME NEW h \in Handlers
      PROVE  /\ handler[h].streamer \in Streamers \cup {None}
             /\ handler[h].report \in Report \cup {None}
             /\ {handler[h].positions, handler[h].before} \subseteq PositionSets
  BY HandlerFacts, FiledAreReports, SetsArePositions DEF HandlerType
<1>5. made \in Seq([streamer: Streamers, at: Nat, positions: PositionSets])
  <2>1. Entries \subseteq [streamer: Streamers, at: Nat, positions: PositionSets]
    BY SetsArePositions DEF Entries
  <2>2. made \in Seq(Entries)
    BY DEF Typed, WorldTyped
  <2> QED
    BY <2>1, <2>2, SeqMonotonic
<1> QED
  BY <1>1, <1>2, <1>3, <1>4, <1>5 DEF TypeOK, Typed, HandlersTyped, WorldTyped

\* Every variable keeps its type, and no streamer has a contract twice, whoever
\* reports, edits and approves at once.
THEOREM BoardTyping == Spec => []TypeOK
<1>1. Typed => TypeOK
  BY TypedIsTypeOK
<1> QED
  BY <1>1, AlwaysTyped, PTL
-----------------------------------------------------------------------------
(* What a step leaves in its handler, field by field, for the proofs to come. *)

Keeps(q, r) ==
    /\ q.op = r.op /\ q.streamer = r.streamer /\ q.positions = r.positions
    /\ q.before = r.before /\ q.report = r.report /\ q.message = r.message

OthersWait(h) ==
    \A g \in Handlers \ {h} : handler'[g] = handler[g] /\ copy'[g] = copy[g]

LEMMA StepsTo ==
    ASSUME NEW r \in HandlerType, NEW at, NEW reply
    PROVE  LET q == [r EXCEPT !.at = at, !.reply = reply] IN
           q.at = at /\ q.reply = reply /\ Keeps(q, r)
BY DEF HandlerType, Keeps

LEMMA Gone ==
    ASSUME Typed, NEW h \in Handlers, NEW new, Goes(h, new)
    PROVE  /\ handler'[h] = new
           /\ \A g \in Handlers \ {h} : handler'[g] = handler[g]
BY DEF Goes, Typed, HandlersTyped

LEMMA Held ==
    ASSUME Typed, NEW h \in Handlers, NEW object, Holds(h, object)
    PROVE  /\ copy'[h] = object /\ latest' = h
           /\ \A g \in Handlers \ {h} : copy'[g] = copy[g]
BY DEF Holds, Typed, HandlersTyped

LEMMA RequestAlone == ASSUME Typed, NEW h \in Handlers, Request(h) PROVE OthersWait(h)
<1>1. ASSUME NEW new, Begin(h, new), UNCHANGED copy
      PROVE  OthersWait(h)
  BY <1>1 DEF Begin, OthersWait, Typed, HandlersTyped
<1>2. CASE Look(h)
  BY <1>1, <1>2 DEF Look, Ask
<1>3. ASSUME NEW s \in Streamers, NEW live \in BOOLEAN, DesktopReport(h, s, live)
      PROVE  OthersWait(h)
  BY <1>1, <1>3 DEF DesktopReport, Ask
<1>4. ASSUME NEW s \in Streamers, NEW P \in Readings, Set(h, s, P)
      PROVE  OthersWait(h)
  BY <1>1, <1>4 DEF Set, Ask
<1>5. ASSUME NEW s \in Streamers, Delete(h, s)
      PROVE  OthersWait(h)
  BY <1>1, <1>5 DEF Delete, Ask
<1>6. ASSUME NEW s \in Streamers, NEW p \in UNION Readings, Create(h, s, p)
      PROVE  OthersWait(h)
  BY <1>1, <1>6 DEF Create, Ask
<1>7. ASSUME NEW op, NEW m, NEW contracts, Click(h, op, m, contracts)
      PROVE  OthersWait(h)
  BY <1>1, <1>7 DEF Click
<1> QED
  BY <1>2, <1>3, <1>4, <1>5, <1>6, <1>7 DEF Request, Toggle, Approve, Reject

LEMMA HandlerAlone ==
    ASSUME Typed, NEW h \in Handlers, HandlerStep(h) \/ Misread(h) \/ NotifyFails(h)
    PROVE  OthersWait(h)
<1>1. ASSUME NEW new, Goes(h, new), UNCHANGED copy
      PROVE  OthersWait(h)
  BY <1>1, Gone DEF OthersWait
<1>2. ASSUME NEW new, Goes(h, new), NEW object, Holds(h, object)
      PROVE  OthersWait(h)
  BY <1>2, Gone, Held DEF OthersWait
<1>3. ASSUME LookEnds(h) \/ DeleteNow(h) PROVE OthersWait(h)
  BY <1>2, <1>3 DEF LookEnds, DeleteNow, Ends
<1>4. ASSUME Change(h) PROVE OthersWait(h)
  BY <1>2, <1>4 DEF Change
<1>5. ASSUME Seen(h) PROVE OthersWait(h)
  BY <1>2, <1>5 DEF Seen, Ends
<1>6. ASSUME CreateNow(h) PROVE OthersWait(h)
  BY <1>2, <1>6 DEF CreateNow, Ends
<1>7. ASSUME Read(h) \/ Misread(h) PROVE OthersWait(h)
  <2>1. UNCHANGED copy /\ (Ends(h) \/ \E P : ReadsAs(h, P))
    BY <1>7 DEF Read, Misread
  <2> QED
    BY <1>1, <2>1 DEF ReadsAs, Ends
<1>8. ASSUME Previous(h) PROVE OthersWait(h)
  BY <1>1, <1>8 DEF Previous, Ends
<1>9. ASSUME Uploaded(h) \/ Put(h) \/ Notify(h) \/ NotifyFails(h) \/ Remove(h)
      PROVE  OthersWait(h)
  BY <1>1, <1>9 DEF Uploaded, Put, Notify, NotifyFails, Remove, Ends
<1>10. ASSUME Commit(h) \/ Close(h) \/ Select(h) PROVE OthersWait(h)
  BY <1>1, <1>10 DEF Commit, Close, Select, Ends
<1>11. ASSUME Resolve(h) PROVE OthersWait(h)
  BY <1>1, <1>11 DEF Resolve, Ends
<1> QED
  BY <1>3, <1>4, <1>5, <1>6, <1>7, <1>8, <1>9, <1>10, <1>11 DEF HandlerStep

LEMMA AskAfter ==
    ASSUME Typed, NEW h \in Handlers, NEW op, NEW s, NEW P, Ask(h, op, s, P)
    PROVE  LET q == handler'[h] IN
           /\ q.at = "board" /\ q.reply = board /\ q.op = op /\ q.streamer = s
           /\ q.positions = P /\ q.report = None /\ q.message = None
           /\ handler[h] = Free
<1> DEFINE r == [Free EXCEPT !.op = op, !.streamer = s, !.positions = P]
<1>1. handler'[h] = AsksBoard(h, r) /\ handler[h] = Free
  BY DEF Ask, Begin, Typed, HandlersTyped
<1>2. AsksBoard(h, r) = [r EXCEPT !.at = "board", !.reply = board]
  BY DEF AsksBoard
<1>3. /\ r.op = op /\ r.streamer = s /\ r.positions = P /\ r.report = None /\ r.message = None
      /\ DOMAIN r = {"at", "op", "streamer", "positions", "unseen", "before", "report",
                     "message", "reply"}
  BY DEF Free
<1> HIDE DEF r
<1>4. LET q == [r EXCEPT !.at = "board", !.reply = board] IN
      /\ q.at = "board" /\ q.reply = board /\ q.op = op /\ q.streamer = s
      /\ q.positions = P /\ q.report = None /\ q.message = None
  BY <1>3
<1> QED
  BY <1>1, <1>2, <1>4

LEMMA ClickAfter ==
    ASSUME Typed, NEW h \in Handlers, NEW op, NEW m, NEW contracts, Click(h, op, m, contracts)
    PROVE  LET q == handler'[h] IN
           /\ q.at = op /\ q.reply = inbox /\ q.op = op /\ q.streamer = m.streamer
           /\ q.report = None /\ q.message = m
           /\ handler[h] = Free
<1> DEFINE r == [Free EXCEPT !.op = op, !.streamer = m.streamer, !.message = m,
                             !.unseen = contracts]
<1>1. handler'[h] = AsksInbox(h, r, op) /\ handler[h] = Free
  BY DEF Click, Begin, Typed, HandlersTyped
<1>2. AsksInbox(h, r, op) = [r EXCEPT !.at = op, !.reply = inbox]
  BY DEF AsksInbox
<1>3. /\ r.op = op /\ r.streamer = m.streamer /\ r.report = None /\ r.message = m
      /\ DOMAIN r = {"at", "op", "streamer", "positions", "unseen", "before", "report",
                     "message", "reply"}
  BY DEF Free
<1> HIDE DEF r
<1>4. LET q == [r EXCEPT !.at = op, !.reply = inbox] IN
      /\ q.at = op /\ q.reply = inbox /\ q.op = op /\ q.streamer = m.streamer
      /\ q.report = None /\ q.message = m
  BY <1>3
<1> QED
  BY <1>1, <1>2, <1>4

LEMMA EndsAfter ==
    ASSUME Typed, NEW h \in Handlers, Ends(h)
    PROVE  LET q == handler'[h] IN
           /\ q = Free /\ q.at = "idle" /\ q.report = None /\ q.message = None
BY Gone DEF Ends, Free

LEMMA SeenAfter ==
    ASSUME Typed, NEW h \in Handlers, Seen(h)
    PROVE  Ends(h) \/ (handler'[h].at = "screen" /\ Keeps(handler'[h], handler[h]))
<1> DEFINE r == handler[h]
           q == [r EXCEPT !.at = "screen", !.reply = None]
<1>1. q.at = "screen" /\ q.reply = None /\ Keeps(q, r)
  BY HandlerFacts, StepsTo
<1>2. Ends(h) \/ handler'[h] = q
  BY Gone DEF Seen
<1> HIDE DEF q, r
<1> QED
  BY <1>1, <1>2 DEF r

LEMMA ReadsAsAfter ==
    ASSUME Typed, NEW h \in Handlers, NEW P, ReadsAs(h, P)
    PROVE  LET q == handler'[h]
               r == handler[h]
           IN
           \/ Ends(h)
           \/ /\ q.at = "previous" /\ q.reply = inbox /\ q.op = r.op /\ q.streamer = r.streamer
              /\ q.report = r.report /\ q.message = r.message
<1> DEFINE r == handler[h]
           p == [r EXCEPT !.positions = P]
<1>1. CASE Goes(h, AsksInbox(h, p, "previous"))
  <2>1. r \in HandlerType
    BY HandlerFacts
  <2>2. handler'[h] = [p EXCEPT !.at = "previous", !.reply = inbox]
    BY <1>1, Gone DEF AsksInbox
  <2>3. /\ p.op = r.op /\ p.streamer = r.streamer /\ p.report = r.report
        /\ p.message = r.message
        /\ DOMAIN p = {"at", "op", "streamer", "positions", "unseen", "before", "report",
                       "message", "reply"}
    BY <2>1 DEF HandlerType
  <2> HIDE DEF p
  <2> QED
    BY <2>2, <2>3
<1> QED
  BY <1>1 DEF ReadsAs

LEMMA FilingAfter ==
    ASSUME Typed, NEW h \in Handlers, NEW report,
           Goes(h, [handler[h] EXCEPT !.at = "upload", !.report = report, !.reply = None])
    PROVE  LET q == handler'[h]
               r == handler[h]
           IN
           /\ q.at = "upload" /\ q.report = report
           /\ q.op = r.op /\ q.streamer = r.streamer /\ q.message = r.message
<1>1. handler[h] \in HandlerType
  BY HandlerFacts
<1>2. handler'[h] = [handler[h] EXCEPT !.at = "upload", !.report = report, !.reply = None]
  BY Gone
<1> QED
  BY <1>1, <1>2 DEF HandlerType

LEMMA AutoAfter ==
    ASSUME Typed, NEW h \in Handlers, NEW unseen,
           Goes(h, AsksBoard(h, [handler[h] EXCEPT !.op = "auto", !.unseen = unseen]))
    PROVE  LET q == handler'[h]
               r == handler[h]
           IN
           /\ q.at = "board" /\ q.reply = board /\ q.op = "auto"
           /\ q.streamer = r.streamer /\ q.positions = r.positions
           /\ q.report = r.report /\ q.message = r.message
<1> DEFINE r == handler[h]
           p == [r EXCEPT !.op = "auto", !.unseen = unseen]
<1>1. r \in HandlerType
  BY HandlerFacts
<1>2. handler'[h] = [p EXCEPT !.at = "board", !.reply = board]
  BY Gone DEF AsksBoard
<1>3. /\ p.op = "auto" /\ p.streamer = r.streamer /\ p.positions = r.positions
      /\ p.report = r.report /\ p.message = r.message
      /\ DOMAIN p = {"at", "op", "streamer", "positions", "unseen", "before", "report",
                     "message", "reply"}
  BY <1>1 DEF HandlerType
<1> HIDE DEF p
<1> QED
  BY <1>2, <1>3

LEMMA AsksInboxAfter ==
    ASSUME Typed, NEW h \in Handlers, NEW at, Goes(h, AsksInbox(h, handler[h], at))
    PROVE  handler'[h].at = at /\ handler'[h].reply = inbox /\ Keeps(handler'[h], handler[h])
<1> DEFINE r == handler[h]
           q == [r EXCEPT !.at = at, !.reply = inbox]
<1>1. q.at = at /\ q.reply = inbox /\ Keeps(q, r)
  BY HandlerFacts, StepsTo
<1>2. handler'[h] = q
  BY Gone DEF AsksInbox
<1> HIDE DEF q, r
<1> QED
  BY <1>1, <1>2 DEF r

LEMMA GoesOnAfter ==
    ASSUME Typed, NEW h \in Handlers, NEW at,
           Goes(h, [handler[h] EXCEPT !.at = at, !.reply = None])
    PROVE  handler'[h].at = at /\ Keeps(handler'[h], handler[h])
<1> DEFINE r == handler[h]
           q == [r EXCEPT !.at = at, !.reply = None]
<1>1. q.at = at /\ q.reply = None /\ Keeps(q, r)
  BY HandlerFacts, StepsTo
<1>2. handler'[h] = q
  BY Gone
<1> HIDE DEF q, r
<1> QED
  BY <1>1, <1>2 DEF r
-----------------------------------------------------------------------------
(* A number names one report. *)

LEMMA NobodyElseLearns ==
    ASSUME Typed, Identified, NEW h \in Handlers, OthersWait(h),
           made' = made, Knows(made, handler'[h]),
           \A report \in InInbox' : Is(made, report),
           \A m \in slack' : IsShown(made, m)
    PROVE  Identified'
<1>1. \A g \in Handlers : Knows(made, handler'[g])
  BY DEF OthersWait, Identified
<1> QED
  BY <1>1 DEF Identified

\* The next number is nobody's yet.
LEMMA OneMore ==
    ASSUME Typed, Identified, NEW h \in Handlers, OthersWait(h),
           NEW report, Makes(h, report), UNCHANGED <<inbox, slack>>
    PROVE  Identified'
<1> DEFINE r == handler[h]
           more == Append(made, EntryOf(report))
<1>1. made' = more
  BY DEF Makes, Made, EntryOf
<1>2. report \in Filed /\ report.no = Len(made) + 1
  BY DEF Makes
<1>3. EntryOf(report) \in Entries
  BY <1>2 DEF EntryOf, Entries, Filed
<1>4. \A n \in DOMAIN made : n \in DOMAIN made' /\ made'[n] = made[n]
  BY <1>1, <1>3, MadeGrows
<1>5. report.no \in DOMAIN made' /\ made'[report.no] = EntryOf(report)
  BY <1>1, <1>2, <1>3, MadeGrows
<1>6. /\ handler'[h].at = "upload" /\ handler'[h].report = report
      /\ handler'[h].message = r.message
  BY FilingAfter DEF Makes
<1> HIDE DEF more, r
<1>7. \A x : Is(made, x) => Is(made', x)
  BY <1>4 DEF Is
<1>8. \A x : IsShown(made, x) => IsShown(made', x)
  BY <1>4 DEF IsShown
<1>9. Is(made', report)
  BY <1>5 DEF Is, EntryOf
<1>10. \A q : Knows(made, q) => Knows(made', q)
  BY <1>7, <1>8 DEF Knows
<1>11. Knows(made', handler'[h])
  BY <1>6, <1>8, <1>9 DEF Knows, Identified, AsksForInbox, r
<1>12. \A g \in Handlers : Knows(made', handler'[g])
  BY <1>10, <1>11 DEF OthersWait, Identified
<1>13. \A x \in InInbox' : Is(made', x)
  BY <1>7 DEF Identified, InInbox
<1>14. \A m \in slack' : IsShown(made', m)
  BY <1>8 DEF Identified
<1> QED
  BY <1>12, <1>13, <1>14 DEF Identified

LEMMA FreeKnows == \A list : Knows(list, Free)
BY DEF Knows, Free, AsksForInbox

LEMMA IdentifiedRequest ==
    ASSUME Typed, Identified, NEW h \in Handlers, Request(h)
    PROVE  Identified'
<1>1. OthersWait(h)
  BY RequestAlone
<1>2. ASSUME NEW op, NEW s, NEW P, Ask(h, op, s, P), UNCHANGED <<inbox, slack, made>>
      PROVE  Identified'
  <2>1. Knows(made, handler'[h])
    BY <1>2, AskAfter DEF Knows, AsksForInbox
  <2> QED
    BY <1>1, <1>2, <2>1, NobodyElseLearns DEF Identified, InInbox
<1>3. ASSUME NEW op, NEW m \in slack, NEW contracts, Click(h, op, m, contracts)
      PROVE  Identified'
  <2>1. Knows(made, handler'[h])
    BY <1>3, ClickAfter DEF Knows, Identified, InInbox
  <2>2. UNCHANGED <<inbox, slack, made>>
    BY <1>3 DEF Click
  <2> QED
    BY <1>1, <2>1, <2>2, NobodyElseLearns DEF Identified, InInbox
<1>4. ASSUME Look(h) PROVE Identified'
  BY <1>2, <1>4 DEF Look, external
<1>5. ASSUME NEW s \in Streamers, NEW live \in BOOLEAN, DesktopReport(h, s, live)
      PROVE  Identified'
  BY <1>2, <1>5 DEF DesktopReport, external
<1>6. ASSUME NEW s \in Streamers, NEW P \in Readings, Set(h, s, P)
      PROVE  Identified'
  BY <1>2, <1>6 DEF Set
<1>7. ASSUME NEW s \in Streamers, Delete(h, s)
      PROVE  Identified'
  BY <1>2, <1>7 DEF Delete
<1>8. ASSUME NEW s \in Streamers, NEW p \in UNION Readings, Create(h, s, p)
      PROVE  Identified'
  BY <1>2, <1>8 DEF Create
<1> QED
  BY <1>3, <1>4, <1>5, <1>6, <1>7, <1>8 DEF Request, Toggle, Approve, Reject

LEMMA IdentifiedEnds ==
    ASSUME Typed, Identified, NEW h \in Handlers, OthersWait(h), Ends(h),
           made' = made,
           \A report \in InInbox' : Is(made, report),
           \A m \in slack' : IsShown(made, m)
    PROVE  Identified'
BY EndsAfter, FreeKnows, NobodyElseLearns

\* The rest of the handlers' steps leave the inbox and Slack alone, or add what
\* is known, or take something away.
LEMMA IdentifiedReply ==
    ASSUME Typed, Identified, NEW h \in Handlers,
           LookEnds(h) \/ DeleteNow(h) \/ Change(h) \/ Seen(h) \/ Read(h) \/ Misread(h)
    PROVE  Identified'
<1>1. OthersWait(h)
  BY HandlerAlone DEF HandlerStep
<1>2. UNCHANGED <<inbox, slack, made>>
  BY DEF LookEnds, DeleteNow, Change, Seen, Read, Misread, external
<1>3. /\ \A report \in InInbox' : Is(made, report)
      /\ \A m \in slack' : IsShown(made, m)
  BY <1>2 DEF Identified, InInbox
<1>4. Knows(made, handler[h])
  BY DEF Identified
<1>5. ASSUME Ends(h) PROVE Identified'
  BY <1>1, <1>2, <1>3, <1>5, IdentifiedEnds
<1>6. ASSUME Knows(made, handler'[h]) PROVE Identified'
  BY <1>1, <1>2, <1>3, <1>6, NobodyElseLearns
<1>7. ASSUME Change(h) PROVE Identified'
  <2>1. Knows(made, handler'[h])
    <3>1. /\ handler'[h].report = handler[h].report
          /\ handler'[h].message = handler[h].message
          /\ handler'[h].reply = inbox
      BY <1>7, ChangeFacts DEF Typed, HandlersTyped
    <3> QED
      BY <1>4, <3>1 DEF Knows, Identified, InInbox
  <2> QED
    BY <1>6, <2>1
<1>8. ASSUME Seen(h) PROVE Identified'
  <2>1. ASSUME handler'[h].at = "screen", Keeps(handler'[h], handler[h])
        PROVE  Knows(made, handler'[h])
    BY <1>4, <2>1 DEF Knows, Keeps, AsksForInbox
  <2> QED
    BY <1>5, <1>6, <1>8, <2>1, SeenAfter
<1>9. ASSUME NEW P, ReadsAs(h, P) PROVE Identified'
  <2>1. ASSUME /\ handler'[h].reply = inbox
               /\ handler'[h].report = handler[h].report
               /\ handler'[h].message = handler[h].message
        PROVE  Knows(made, handler'[h])
    BY <1>4, <2>1 DEF Knows, Identified, InInbox
  <2> QED
    BY <1>5, <1>6, <1>9, <2>1, ReadsAsAfter
<1> QED
  BY <1>5, <1>7, <1>8, <1>9 DEF LookEnds, DeleteNow, Read, Misread

LEMMA IdentifiedMade ==
    ASSUME Typed, Identified, NEW h \in Handlers, CreateNow(h) \/ Previous(h)
    PROVE  Identified'
<1> DEFINE r == handler[h]
<1>1. OthersWait(h)
  BY HandlerAlone DEF HandlerStep
<1>2. UNCHANGED <<inbox, slack>>
  BY DEF CreateNow, Previous
<1>3. /\ \A report \in InInbox' : Is(made, report)
      /\ \A m \in slack' : IsShown(made, m)
  BY <1>2 DEF Identified, InInbox
<1>4. ASSUME Ends(h), made' = made
      PROVE  Identified'
  BY <1>1, <1>3, <1>4, IdentifiedEnds
<1>5. ASSUME NEW report, Makes(h, report)
      PROVE  Identified'
  BY <1>1, <1>2, <1>5, OneMore
<1>6. CASE CreateNow(h)
  BY <1>4, <1>5, <1>6, CreateNowMakes
<1>7. CASE Previous(h)
  <2> DEFINE unseen == unseenContracts(copy[h][r.streamer], r.positions)
             asking == [r EXCEPT !.op = "auto", !.unseen = unseen]
  <2>1. \/ Ends(h) /\ made' = made
        \/ Goes(h, AsksBoard(h, asking)) /\ made' = made
        \/ \E report : Makes(h, report)
    BY <1>7, PreviousMakes
  <2>2. ASSUME Goes(h, AsksBoard(h, asking)), made' = made
        PROVE  Identified'
    <3>1. /\ handler'[h].at = "board" /\ handler'[h].report = r.report
          /\ handler'[h].message = r.message
      BY <2>2, AutoAfter
    <3>2. Knows(made, handler'[h])
      BY <3>1 DEF Knows, Identified, AsksForInbox
    <3> QED
      BY <1>1, <1>3, <2>2, <3>2, NobodyElseLearns
  <2> HIDE DEF asking
  <2> QED
    BY <1>4, <1>5, <2>1, <2>2
<1> QED
  BY <1>6, <1>7

LEMMA IdentifiedFile ==
    ASSUME Typed, Identified, NEW h \in Handlers,
           Uploaded(h) \/ Put(h) \/ Notify(h) \/ NotifyFails(h) \/ Remove(h)
    PROVE  Identified'
<1> DEFINE r == handler[h]
<1>1. OthersWait(h)
  BY HandlerAlone DEF HandlerStep
<1>2. made' = made
  BY DEF Uploaded, Put, Notify, NotifyFails, Remove, external
<1>3. Knows(made, r) /\ r \in HandlerType /\ Stage(r, copy[h])
  BY HandlerFacts DEF Identified
<1>4. ASSUME NEW at, Goes(h, AsksInbox(h, r, at)), UNCHANGED <<inbox, slack>>
      PROVE  Identified'
  <2>1. handler'[h].reply = inbox /\ Keeps(handler'[h], r)
    BY <1>4, AsksInboxAfter
  <2>2. Knows(made, handler'[h])
    BY <1>3, <2>1 DEF Knows, Keeps, Identified, InInbox
  <2> QED
    BY <1>1, <1>2, <1>4, <2>2, NobodyElseLearns DEF Identified, InInbox
<1>5. ASSUME NEW at, at \notin AsksForInbox, Goes(h, [r EXCEPT !.at = at, !.reply = None]),
             UNCHANGED slack, \A report \in InInbox' : Is(made, report)
      PROVE  Identified'
  <2>1. handler'[h].at = at /\ Keeps(handler'[h], r)
    BY <1>5, GoesOnAfter
  <2>2. Knows(made, handler'[h])
    BY <1>3, <1>5, <2>1 DEF Knows, Keeps
  <2> QED
    BY <1>1, <1>2, <1>5, <2>2, NobodyElseLearns DEF Identified
<1>6. CASE Uploaded(h) \/ NotifyFails(h)
  BY <1>4, <1>6 DEF Uploaded, NotifyFails, external
<1>7. CASE Put(h)
  <2>1. r.reply \in Boxes /\ r.report \in Filed /\ r.at \in AsksForInbox
    BY <1>3, <1>7 DEF Put, Stage, AsksForInbox
  <2>2. Is(made, r.report)
    BY <1>3, <2>1, FiledAreReports DEF Knows
  <2>3. \A report \in InInbox' : report \in Reports(r.reply) \/ report = r.report
    BY <1>7, <2>1, PutFacts DEF Put, InInbox
  <2>4. \A report \in InInbox' : Is(made, report)
    BY <1>3, <2>1, <2>2, <2>3 DEF Knows
  <2>5. "notify" \notin AsksForInbox
    BY DEF AsksForInbox
  <2> QED
    BY <1>5, <1>7, <2>4, <2>5 DEF Put, external
<1>8. CASE Notify(h)
  <2>1. r.report \in Filed /\ r.report # None
    BY <1>3, <1>8, FiledAreReports DEF Notify, Stage
  <2>2. IsShown(made, Message(r.report))
    BY <1>3, <2>1 DEF Knows, Is, IsShown, Message
  <2>3. \A m \in slack' : IsShown(made, m)
    BY <1>8, <2>2 DEF Notify, Identified
  <2> QED
    BY <1>1, <1>2, <1>8, <2>3, IdentifiedEnds DEF Notify, Identified, InInbox
<1>9. CASE Remove(h)
  <2>1. r.reply \in Boxes /\ r.streamer \in Streamers /\ r.at \in AsksForInbox
    BY <1>3, <1>9 DEF Remove, Stage, AsksForInbox
  <2>2. \A report \in InInbox' : report \in Reports(r.reply)
    BY <1>9, <2>1, RemoveFacts DEF Remove, InInbox
  <2>3. \A report \in InInbox' : Is(made, report)
    BY <1>3, <2>1, <2>2 DEF Knows
  <2>4. "removed" \notin AsksForInbox
    BY DEF AsksForInbox
  <2> QED
    BY <1>5, <1>9, <2>3, <2>4 DEF Remove, external
<1> QED
  BY <1>6, <1>7, <1>8, <1>9

LEMMA IdentifiedDone ==
    ASSUME Typed, Identified, NEW h \in Handlers,
           Commit(h) \/ Close(h) \/ Select(h) \/ Resolve(h)
    PROVE  Identified'
<1> DEFINE r == handler[h]
<1>1. OthersWait(h)
  BY HandlerAlone DEF HandlerStep
<1>2. made' = made /\ slack' \subseteq slack
  BY DEF Commit, Close, Select, Resolve, external
<1>3. Knows(made, r) /\ r \in HandlerType /\ Stage(r, copy[h])
  BY HandlerFacts DEF Identified
<1>4. \A m \in slack' : IsShown(made, m)
  BY <1>2 DEF Identified
<1>5. CASE Commit(h) \/ Close(h)
  BY <1>1, <1>2, <1>4, <1>5, IdentifiedEnds DEF Commit, Close, Identified, InInbox
<1>6. CASE Select(h)
  <2>1. /\ r.reply \in Boxes /\ r.streamer \in Streamers /\ r.unseen \in SUBSET Contracts
        /\ r.at \in AsksForInbox
    BY <1>3, <1>6 DEF Select, Stage, AsksForInbox, HandlerType
  <2>2. \A q \in Reports(r.reply) : Is(made, q)
    BY <1>3, <2>1 DEF Knows
  <2>3. ASSUME NEW report \in InInbox' PROVE Is(made, report)
    <3>1. CASE inbox' = inbox
      BY <3>1 DEF Identified, InInbox
    <3>2. CASE inbox' = select(r.reply, r.streamer, r.unseen)
      <4>1. PICK q \in Reports(r.reply) :
               /\ report.no = q.no /\ report.at = q.at
               /\ report.streamer = q.streamer /\ report.positions = q.positions
        BY <2>1, <3>2, SelectFacts DEF InInbox
      <4> QED
        BY <2>2, <4>1 DEF Is
    <3> QED
      BY <1>6, <3>1, <3>2 DEF Select
  <2> QED
    BY <1>1, <1>2, <1>4, <1>6, <2>3, IdentifiedEnds DEF Select
<1>7. CASE Resolve(h)
  <2> DEFINE report == find(r.reply, r.streamer, r.message.at)
             new == AsksBoard(h, [r EXCEPT !.positions = selectedPositions(report),
                                           !.unseen = report.unseen])
  <2>1. UNCHANGED <<inbox, slack, made>>
    BY <1>7 DEF Resolve, external
  <2>2. \A x \in InInbox' : Is(made, x)
    BY <2>1 DEF Identified, InInbox
  <2>3. CASE Ends(h)
    BY <1>1, <1>4, <2>1, <2>2, <2>3, IdentifiedEnds
  <2>4. CASE Goes(h, AsksInbox(h, r, "remove"))
    <3>1. handler'[h].reply = inbox /\ Keeps(handler'[h], r)
      BY <2>4, AsksInboxAfter
    <3>2. Knows(made, handler'[h])
      BY <1>3, <3>1 DEF Knows, Keeps, Identified, InInbox
    <3> QED
      BY <1>1, <1>4, <2>1, <2>2, <3>2, NobodyElseLearns
  <2>5. CASE /\ handler' = [handler EXCEPT ![h] = new]
             /\ new.at = "board" /\ new.report = r.report /\ new.message = r.message
    <3>1. handler'[h] = new
      BY <2>5, Gone DEF Goes
    <3> HIDE DEF new
    <3>2. Knows(made, handler'[h])
      BY <1>3, <2>5, <3>1 DEF Knows, AsksForInbox
    <3> QED
      BY <1>1, <1>4, <2>1, <2>2, <3>2, NobodyElseLearns
  <2> QED
    BY <1>7, <2>3, <2>4, <2>5, ResolveFacts
<1> QED
  BY <1>5, <1>6, <1>7

LEMMA IdentifiedNext ==
    ASSUME Typed, Identified, [Next]_vars
    PROVE  Identified'
<1>1. ASSUME NEW h \in Handlers, Request(h) \/ HandlerStep(h) \/ Misread(h) \/ NotifyFails(h)
      PROVE  Identified'
  BY <1>1, IdentifiedRequest, IdentifiedReply, IdentifiedMade, IdentifiedFile, IdentifiedDone
     DEF HandlerStep
<1>2. ASSUME NEW s \in Streamers, ScreenChanges(s) PROVE Identified'
  BY <1>2 DEF ScreenChanges, Identified, InInbox
<1>3. ASSUME Restart PROVE Identified'
  <2>1. \A h \in Handlers : Knows(made, handler'[h])
    BY <1>3, FreeKnows DEF Restart
  <2> QED
    BY <1>3, <2>1 DEF Restart, Identified, InInbox
<1>4. ASSUME UNCHANGED vars PROVE Identified'
  BY <1>4 DEF vars, Identified, InInbox
<1> QED
  BY <1>1, <1>2, <1>3, <1>4 DEF Next

LEMMA InitIdentified == ASSUME Init PROVE Identified
<1>1. slack = {} /\ handler = [h \in Handlers |-> Free]
  BY DEF Init
<1>2. \A s \in Streamers : inbox.desktop[s] = None
  BY DEF Init
<1>3. DOMAIN inbox.human = {}
  BY DEF Init
<1>4. InInbox = {}
  BY <1>2, <1>3 DEF InInbox, Reports
<1>5. \A h \in Handlers : Knows(made, handler[h])
  BY <1>1, FreeKnows
<1> QED
  BY <1>1, <1>4, <1>5 DEF Identified
-----------------------------------------------------------------------------
(* Nothing gets onto the board without leave. *)

\* The positions that were let onto a board stay so, and so do the reports that
\* were made in one second.
Grows == \A s \in Streamers : leave[s] \subseteq leave'[s]

LEMMA LeaveKept == ASSUME UNCHANGED <<allowed, made>> PROVE UNCHANGED leave
BY DEF leave, SameSecond

LEMMA MoreLeave ==
    ASSUME Typed, NEW s \in Streamers, NEW P, UNCHANGED made,
           allowed' = [allowed EXCEPT ![s] = @ \cup P]
    PROVE  Grows /\ P \subseteq leave'[s]
<1>1. \A t \in Streamers : SameSecond(t)' = SameSecond(t)
  BY DEF SameSecond
<1>2. \A t \in Streamers : allowed[t] \subseteq allowed'[t]
  BY DEF Typed, WorldTyped
<1>3. P \subseteq allowed'[s]
  BY DEF Typed, WorldTyped
<1> QED
  BY <1>1, <1>2, <1>3 DEF leave, Grows

LEMMA MadeLeave ==
    ASSUME Typed, NEW h \in Handlers, NEW report, Makes(h, report), UNCHANGED allowed
    PROVE  Grows
<1>1. made' = Append(made, EntryOf(report)) /\ report \in Filed
  BY DEF Makes, Made, EntryOf
<1>2. EntryOf(report) \in Entries
  BY <1>1 DEF EntryOf, Entries, Filed
<1>3. \A n \in DOMAIN made : n \in DOMAIN made' /\ made'[n] = made[n]
  BY <1>1, <1>2, MadeGrows
<1>4. \A t \in Streamers : SameSecond(t) \subseteq SameSecond(t)'
  BY <1>3 DEF SameSecond
<1> QED
  BY <1>4 DEF leave, Grows


LEMMA LeaveLasts ==
    ASSUME Typed, Approved, NEW h \in Handlers, OthersWait(h), Grows,
           LetOnto(board)', HasLeave(handler[h], copy[h])'
    PROVE  Approved'
<1>1. ASSUME NEW g \in Handlers \ {h} PROVE HasLeave(handler[g], copy[g])'
  <2>1. handler'[g] = handler[g] /\ copy'[g] = copy[g]
    BY DEF OthersWait
  <2>2. HasLeave(handler[g], copy[g]) /\ Stage(handler[g], copy[g])
    BY HandlerFacts DEF Approved
  <2>3. handler[g].at = "board" /\ handler[g].op \in Changing => handler[g].streamer \in Streamers
    BY <2>2 DEF Stage, Changing
  <2>4. handler[g].at = "approve" => handler[g].streamer \in Streamers
    BY <2>2 DEF Stage
  <2> QED
    BY <2>1, <2>2, <2>3, <2>4 DEF HasLeave, LetOnto, Grows
<1>2. \A g \in Handlers : HasLeave(handler[g], copy[g])'
  BY <1>1
<1> QED
  BY <1>2 DEF Approved

LEMMA SameLeave == ASSUME UNCHANGED leave PROVE Grows
BY DEF Grows

LEMMA OldLeave ==
    ASSUME Grows, NEW object, LetOnto(object)
    PROVE  \A s \in Streamers : object[s] # None => object[s] \subseteq leave'[s]
BY DEF Grows, LetOnto

LEMMA ApprovedRequest ==
    ASSUME Typed, Approved, NEW h \in Handlers, Request(h)
    PROVE  Approved'
<1>1. OthersWait(h)
  BY RequestAlone
<1>2. LetOnto(board) /\ LetOnto(copy[h])
  BY DEF Approved, HasLeave
<1>3. ASSUME NEW op, NEW s, NEW P, Ask(h, op, s, P), UNCHANGED <<board, copy>>, Grows,
             op \in Changing => P \subseteq leave'[s]
      PROVE  Approved'
  <2>1. /\ handler'[h].at = "board" /\ handler'[h].reply = board
        /\ handler'[h].op = op /\ handler'[h].streamer = s /\ handler'[h].positions = P
    BY <1>3, AskAfter
  <2>2. LetOnto(board)' /\ LetOnto(copy[h])' /\ LetOnto(handler[h].reply)'
    BY <1>2, <1>3, <2>1, OldLeave DEF LetOnto
  <2>3. HasLeave(handler[h], copy[h])'
    BY <1>3, <2>1, <2>2 DEF HasLeave
  <2> QED
    BY <1>1, <1>3, <2>2, <2>3, LeaveLasts
<1>4. ASSUME NEW op, NEW m, NEW contracts, Click(h, op, m, contracts), Grows,
             op # "board", op = "approve" => m.positions \subseteq leave'[m.streamer]
      PROVE  Approved'
  <2>1. /\ handler'[h].at = op /\ handler'[h].message = m /\ handler'[h].streamer = m.streamer
    BY <1>4, ClickAfter
  <2>2. UNCHANGED <<board, copy>>
    BY <1>4 DEF Click
  <2>3. LetOnto(board)' /\ LetOnto(copy[h])'
    BY <1>2, <1>4, <2>2, OldLeave DEF LetOnto
  <2>4. HasLeave(handler[h], copy[h])'
    BY <1>4, <2>1, <2>3 DEF HasLeave
  <2> QED
    BY <1>1, <1>4, <2>3, <2>4, LeaveLasts
<1>5. ASSUME Look(h) PROVE Approved'
  BY <1>3, <1>5, SameLeave, LeaveKept DEF Look, Changing, external
<1>6. ASSUME NEW s \in Streamers, NEW live \in BOOLEAN, DesktopReport(h, s, live)
      PROVE  Approved'
  <2> DEFINE op == IF live THEN "desktop" ELSE "offline"
  <2>1. Ask(h, op, s, {}) /\ UNCHANGED <<board, copy, leave>>
    BY <1>6, LeaveKept DEF DesktopReport, external
  <2>2. op \notin Changing
    BY DEF Changing
  <2> HIDE DEF op
  <2> QED
    BY <1>3, <2>1, <2>2, SameLeave
<1>7. ASSUME NEW s \in Streamers, NEW P \in Readings, Set(h, s, P)
      PROVE  Approved'
  <2>1. allowed' = [allowed EXCEPT ![s] = @ \cup P] /\ UNCHANGED made
    BY <1>7 DEF Set
  <2>2. Grows /\ P \subseteq leave'[s]
    BY <2>1, MoreLeave
  <2> QED
    BY <1>3, <1>7, <2>2 DEF Set
<1>8. ASSUME NEW s \in Streamers, Delete(h, s)
      PROVE  Approved'
  BY <1>3, <1>8, SameLeave, LeaveKept DEF Delete, Changing
<1>9. ASSUME NEW s \in Streamers, NEW p \in UNION Readings, Create(h, s, p)
      PROVE  Approved'
  BY <1>3, <1>9, SameLeave, LeaveKept DEF Create, Changing
<1>10. ASSUME NEW m \in slack, NEW contracts, Toggle(h, m, contracts)
       PROVE  Approved'
  <2>1. UNCHANGED leave
    BY <1>10, LeaveKept DEF Toggle, Click
  <2> QED
    BY <1>4, <1>10, <2>1, SameLeave DEF Toggle
<1>11. ASSUME NEW m \in slack, Approve(h, m)
       PROVE  Approved'
  <2>1. /\ allowed' = [allowed EXCEPT ![m.streamer] = @ \cup m.positions]
        /\ UNCHANGED made
    BY <1>11 DEF Approve, Click
  <2>2. m.streamer \in Streamers
    BY DEF Typed, WorldTyped, Messages
  <2>3. Grows /\ m.positions \subseteq leave'[m.streamer]
    BY <2>1, <2>2, MoreLeave
  <2> QED
    BY <1>4, <1>11, <2>3 DEF Approve
<1>12. ASSUME NEW m \in slack, Reject(h, m)
       PROVE  Approved'
  <2>1. UNCHANGED leave
    BY <1>12, LeaveKept DEF Reject, Click
  <2> QED
    BY <1>4, <1>12, <2>1, SameLeave DEF Reject
<1> QED
  BY <1>5, <1>6, <1>7, <1>8, <1>9, <1>10, <1>11, <1>12 DEF Request

LEMMA ApprovedChange ==
    ASSUME Typed, Approved, NEW h \in Handlers, Change(h)
    PROVE  Approved'
<1> DEFINE r == handler[h]
           object == [r.reply EXCEPT ![r.streamer] = Merged(r)]
<1>1. OthersWait(h)
  BY HandlerAlone DEF HandlerStep
<1>2. UNCHANGED <<board, leave>>
  BY LeaveKept DEF Change, external
<1>3. HasLeave(r, copy[h]) /\ r.at = "board" /\ r.op \in Changing
  BY DEF Approved, Change, Changing
<1>4. /\ r.streamer \in Streamers /\ r.reply \in Boards /\ r.reply[r.streamer] # None
      /\ handler'[h].at = "remove" /\ Holds(h, object)
  BY ChangeFacts DEF Typed, HandlersTyped
<1>5. r.positions \subseteq leave[r.streamer] /\ r.reply[r.streamer] \subseteq leave[r.streamer]
  BY <1>3, <1>4 DEF HasLeave, LetOnto
<1>6. Merged(r) \subseteq leave[r.streamer]
  BY <1>5 DEF Merged, upsertPositions
<1>7. \A s \in Streamers : object[s] = IF s = r.streamer THEN Merged(r) ELSE r.reply[s]
  BY <1>4 DEF Boards
<1>8. LetOnto(object)
  BY <1>3, <1>6, <1>7 DEF HasLeave, LetOnto
<1>9. copy'[h] = object
  BY <1>4, Held
<1> HIDE DEF object, r
<1>10. LetOnto(copy[h])'
  BY <1>2, <1>8, <1>9 DEF LetOnto
<1>11. HasLeave(handler[h], copy[h])'
  BY <1>4, <1>10 DEF HasLeave
<1>12. LetOnto(board)'
  BY <1>2 DEF Approved, LetOnto
<1> QED
  BY <1>1, <1>2, <1>11, <1>12, LeaveLasts, SameLeave

\* The other steps put no new positions on an object.
LEMMA ApprovedReply ==
    ASSUME Typed, Approved, NEW h \in Handlers,
           LookEnds(h) \/ DeleteNow(h) \/ Seen(h) \/ CreateNow(h) \/ Commit(h)
    PROVE  Approved'
<1> DEFINE r == handler[h]
<1>1. OthersWait(h)
  BY HandlerAlone DEF HandlerStep
<1>2. Grows
  BY SameLeave, LeaveKept, CreateNowMakes, MadeLeave
     DEF LookEnds, DeleteNow, Seen, CreateNow, Commit, external
<1>3. HasLeave(r, copy[h]) /\ LetOnto(board)
  BY DEF Approved
<1>4. ASSUME LetOnto(copy'[h]), LetOnto(board'), handler'[h].at \notin {"board", "approve"}
      PROVE  Approved'
  <2>1. LetOnto(board)' /\ LetOnto(copy[h])'
    BY <1>2, <1>4, OldLeave DEF LetOnto
  <2>2. HasLeave(handler[h], copy[h])'
    BY <1>4, <2>1 DEF HasLeave
  <2> QED
    BY <1>1, <1>2, <2>1, <2>2, LeaveLasts
<1>5. CASE LookEnds(h)
  <2>1. LetOnto(r.reply) /\ Holds(h, r.reply) /\ Ends(h) /\ UNCHANGED board
    BY <1>3, <1>5 DEF LookEnds, HasLeave
  <2> QED
    BY <1>3, <1>4, <2>1, Held, EndsAfter
<1>6. CASE DeleteNow(h)
  <2> DEFINE object == [r.reply EXCEPT ![r.streamer] = None]
  <2>1. LetOnto(r.reply) /\ Holds(h, object) /\ board' = object /\ Ends(h)
    BY <1>3, <1>6 DEF DeleteNow, HasLeave
  <2>2. r.reply \in Boards
    BY <1>6, HandlerFacts DEF DeleteNow, Stage
  <2>3. \A s \in Streamers : object[s] \in {None, r.reply[s]}
    BY <2>2 DEF Boards
  <2>4. LetOnto(object)
    BY <2>1, <2>3 DEF LetOnto
  <2> HIDE DEF object
  <2> QED
    BY <1>4, <2>1, <2>4, Held, EndsAfter
<1>7. CASE Seen(h)
  <2>1. LetOnto(r.reply) /\ Holds(h, r.reply) /\ board' = r.reply
    BY <1>3, <1>7 DEF Seen, HasLeave
  <2> QED
    BY <1>4, <1>7, <2>1, Held, EndsAfter, SeenAfter
<1>8. CASE CreateNow(h)
  <2>1. LetOnto(r.reply) /\ Holds(h, r.reply) /\ UNCHANGED board
    BY <1>3, <1>8 DEF CreateNow, HasLeave
  <2>2. Ends(h) \/ \E report : Makes(h, report)
    BY <1>8, CreateNowMakes
  <2>3. handler'[h].at \in {"idle", "upload"}
    BY <2>2, EndsAfter, FilingAfter DEF Makes
  <2> QED
    BY <1>3, <1>4, <2>1, <2>3, Held
<1>9. CASE Commit(h)
  <2>1. UNCHANGED copy /\ board' = copy[latest] /\ Ends(h)
    BY <1>9 DEF Commit
  <2>2. LetOnto(copy[latest])
    BY DEF Approved, HasLeave, Typed, HandlersTyped
  <2> QED
    BY <1>3, <1>4, <2>1, <2>2, EndsAfter DEF HasLeave
<1> QED
  BY <1>5, <1>6, <1>7, <1>8, <1>9

LEMMA ApprovedReading ==
    ASSUME Typed, Approved, NEW h \in Handlers,
           Read(h) \/ Misread(h) \/ Previous(h)
    PROVE  Approved'
<1> DEFINE r == handler[h]
<1>1. OthersWait(h)
  BY HandlerAlone DEF HandlerStep
<1>2. UNCHANGED <<board, copy>>
  BY DEF Read, Misread, Previous
<1>3. HasLeave(r, copy[h]) /\ LetOnto(board) /\ LetOnto(copy[h])
  BY DEF Approved, HasLeave
<1>4. ASSUME Grows, handler'[h].at \notin {"board", "approve"}
      PROVE  Approved'
  <2>1. LetOnto(board)' /\ LetOnto(copy[h])'
    BY <1>2, <1>3, <1>4, OldLeave DEF LetOnto
  <2>2. HasLeave(handler[h], copy[h])'
    BY <1>4, <2>1 DEF HasLeave
  <2> QED
    BY <1>1, <1>4, <2>1, <2>2, LeaveLasts
<1>5. CASE Read(h) \/ Misread(h)
  <2>1. Grows /\ (Ends(h) \/ \E P : ReadsAs(h, P))
    BY <1>5, SameLeave, LeaveKept DEF Read, Misread, external
  <2>2. handler'[h].at \in {"idle", "previous"}
    BY <2>1, EndsAfter, ReadsAsAfter
  <2> QED
    BY <1>4, <2>1, <2>2
<1>6. CASE Previous(h)
  <2> DEFINE unseen == unseenContracts(copy[h][r.streamer], r.positions)
             asking == [r EXCEPT !.op = "auto", !.unseen = unseen]
  <2>1. \/ Ends(h) /\ UNCHANGED <<allowed, made>>
        \/ /\ Goes(h, AsksBoard(h, asking))
           /\ allowed' = [allowed EXCEPT ![r.streamer] = @ \cup r.positions]
           /\ UNCHANGED made
        \/ UNCHANGED allowed /\ \E report : Makes(h, report)
    BY <1>6, PreviousMakes
  <2>2. ASSUME Ends(h), UNCHANGED <<allowed, made>> PROVE Approved'
    BY <1>4, <2>2, EndsAfter, SameLeave, LeaveKept
  <2>3. ASSUME Goes(h, AsksBoard(h, asking)), UNCHANGED made,
               allowed' = [allowed EXCEPT ![r.streamer] = @ \cup r.positions]
        PROVE  Approved'
    <3>1. /\ handler'[h].at = "board" /\ handler'[h].reply = board
          /\ handler'[h].streamer = r.streamer /\ handler'[h].positions = r.positions
      BY <2>3, AutoAfter
    <3>2. r.streamer \in Streamers
      BY <1>6, HandlerFacts DEF Previous, Stage
    <3>3. Grows /\ r.positions \subseteq leave'[r.streamer]
      BY <2>3, <3>2, MoreLeave
    <3>4. LetOnto(board)' /\ LetOnto(copy[h])' /\ LetOnto(handler[h].reply)'
      BY <1>2, <1>3, <3>1, <3>3, OldLeave DEF LetOnto
    <3>5. HasLeave(handler[h], copy[h])'
      BY <3>1, <3>3, <3>4 DEF HasLeave
    <3> QED
      BY <1>1, <3>3, <3>4, <3>5, LeaveLasts
  <2>4. ASSUME UNCHANGED allowed, NEW report, Makes(h, report)
        PROVE  Approved'
    <3>1. handler'[h].at = "upload"
      BY <2>4, FilingAfter DEF Makes
    <3> QED
      BY <1>4, <2>4, <3>1, MadeLeave
  <2> QED
    BY <2>1, <2>2, <2>3, <2>4
<1> QED
  BY <1>5, <1>6

LEMMA ApprovedFile ==
    ASSUME Typed, Approved, NEW h \in Handlers,
           \/ Uploaded(h) \/ Put(h) \/ Notify(h) \/ NotifyFails(h) \/ Remove(h)
           \/ Close(h) \/ Select(h)
    PROVE  Approved'
<1>1. OthersWait(h)
  BY HandlerAlone DEF HandlerStep
<1>2. UNCHANGED <<board, copy, leave>>
  BY LeaveKept DEF Uploaded, Put, Notify, NotifyFails, Remove, Close, Select, external
<1>3. LetOnto(board)' /\ LetOnto(copy[h])'
  BY <1>2 DEF Approved, HasLeave, LetOnto
<1>4. handler'[h].at \in {"idle", "put", "notify", "remove", "removed"}
  BY EndsAfter, AsksInboxAfter, GoesOnAfter
     DEF Uploaded, Put, Notify, NotifyFails, Remove, Close, Select
<1>5. HasLeave(handler[h], copy[h])'
  BY <1>3, <1>4 DEF HasLeave
<1> QED
  BY <1>1, <1>2, <1>3, <1>5, LeaveLasts, SameLeave

\* The report found is the one on the message, and the message shows all of it.
LEMMA ApprovedResolve ==
    ASSUME EveryReadingFits, Typed, Identified, Approved,
           NEW h \in Handlers, Resolve(h)
    PROVE  Approved'
<1> DEFINE r == handler[h]
           report == find(r.reply, r.streamer, r.message.at)
           chosen == selectedPositions(report)
           new == AsksBoard(h, [r EXCEPT !.positions = chosen, !.unseen = report.unseen])
<1>1. OthersWait(h)
  BY HandlerAlone DEF HandlerStep
<1>2. UNCHANGED <<board, copy, leave>>
  BY LeaveKept DEF Resolve, external
<1>3. LetOnto(board)' /\ LetOnto(copy[h])'
  BY <1>2 DEF Approved, HasLeave, LetOnto
<1>4. ASSUME handler'[h].at \notin {"board", "approve"} PROVE Approved'
  <2>1. HasLeave(handler[h], copy[h])'
    BY <1>3, <1>4 DEF HasLeave
  <2> QED
    BY <1>1, <1>2, <1>3, <2>1, LeaveLasts, SameLeave
<1>5. CASE Ends(h)
  BY <1>4, <1>5, EndsAfter
<1>6. CASE Goes(h, AsksInbox(h, r, "remove"))
  BY <1>4, <1>6, AsksInboxAfter
<1>7. CASE /\ r.reply \in Boxes /\ r.message # None
           /\ r.at = "approve"
           /\ report \in Reports(r.reply)
           /\ report.streamer = r.streamer /\ r.streamer \in Streamers
           /\ report.at = r.message.at
           /\ chosen \subseteq report.positions
           /\ handler' = [handler EXCEPT ![h] = new]
           /\ new.at = "board" /\ new.reply = board /\ new.streamer = r.streamer
           /\ new.positions = chosen
  <2>1. Knows(made, r) /\ HasLeave(r, copy[h]) /\ r.message.streamer = r.streamer
    BY <1>7, HandlerFacts DEF Identified, Approved, Stage
  <2>2. Is(made, report) /\ IsShown(made, r.message)
    BY <1>7, <2>1 DEF Knows, AsksForInbox
  <2>3. report \in Filed
    BY <1>7, ReportsAreFiled
  <2>4. handler'[h] = new
    BY <1>7, Gone DEF Goes
  <2> HIDE DEF new, chosen, report
  <2>5. ASSUME report.no = r.message.no PROVE chosen \subseteq leave[r.streamer]
    <3>1. r.message.positions = shown(report.positions)
      BY <2>2, <2>5 DEF Is, IsShown
    <3>2. report.positions \in Filings
      BY <2>3 DEF Filed
    <3>3. r.message.positions = report.positions
      BY <3>1, <3>2, ShownIsAll
    <3> QED
      BY <1>7, <2>1, <3>3 DEF HasLeave
  <2>6. ASSUME report.no # r.message.no PROVE chosen \subseteq leave[r.streamer]
    <3>1. /\ report.no \in DOMAIN made /\ r.message.no \in DOMAIN made
          /\ made[report.no].streamer = r.streamer /\ made[report.no].at = report.at
          /\ made[report.no].positions = report.positions
          /\ made[r.message.no].streamer = r.message.streamer
          /\ made[r.message.no].at = r.message.at
      BY <1>7, <2>2 DEF Is, IsShown
    <3>2. report.positions \subseteq SameSecond(r.streamer)
      BY <1>7, <2>1, <2>6, <3>1 DEF SameSecond
    <3>3. SameSecond(r.streamer) \subseteq leave[r.streamer]
      BY <1>7 DEF leave
    <3> QED
      BY <1>7, <3>2, <3>3
  <2>7. chosen \subseteq leave[r.streamer]
    BY <2>5, <2>6
  <2>8. LetOnto(handler[h].reply)'
    BY <1>2, <1>3, <1>7, <2>4 DEF LetOnto
  <2>9. HasLeave(handler[h], copy[h])'
    BY <1>2, <1>3, <1>7, <2>4, <2>7, <2>8 DEF HasLeave
  <2> QED
    BY <1>1, <1>2, <1>3, <2>9, LeaveLasts, SameLeave
<1> QED
  BY <1>5, <1>6, <1>7, ResolveFacts

LEMMA ApprovedNext ==
    ASSUME EveryReadingFits, Typed, Identified, Approved, [Next]_vars
    PROVE  Approved'
<1>1. ASSUME NEW h \in Handlers, Request(h) \/ HandlerStep(h) \/ Misread(h) \/ NotifyFails(h)
      PROVE  Approved'
  BY <1>1, ApprovedRequest, ApprovedChange, ApprovedReply, ApprovedReading, ApprovedFile,
     ApprovedResolve DEF HandlerStep
<1>2. ASSUME NEW s \in Streamers, ScreenChanges(s) PROVE Approved'
  <2>1. UNCHANGED <<board, copy, handler, leave>>
    BY <1>2, LeaveKept DEF ScreenChanges
  <2> QED
    BY <2>1 DEF Approved, HasLeave, LetOnto
<1>3. ASSUME Restart PROVE Approved'
  <2>1. UNCHANGED <<board, copy, leave>> /\ handler' = [h \in Handlers |-> Free]
    BY <1>3, LeaveKept DEF Restart
  <2>2. ASSUME NEW h \in Handlers PROVE HasLeave(handler[h], copy[h])'
    <3>1. LetOnto(copy[h])'
      BY <2>1 DEF Approved, HasLeave, LetOnto
    <3>2. handler'[h].at = "idle"
      BY <2>1 DEF Free
    <3> QED
      BY <3>1, <3>2 DEF HasLeave
  <2>3. LetOnto(board)'
    BY <2>1 DEF Approved, LetOnto
  <2> QED
    BY <2>2, <2>3 DEF Approved
<1>4. ASSUME UNCHANGED vars PROVE Approved'
  <2>1. UNCHANGED <<board, copy, handler, leave>>
    BY <1>4, LeaveKept DEF vars
  <2> QED
    BY <2>1 DEF Approved, HasLeave, LetOnto
<1> QED
  BY <1>1, <1>2, <1>3, <1>4 DEF Next

LEMMA InitApproved == ASSUME Init PROVE Approved
<1>1. LetOnto(board)
  BY DEF Init, LetOnto, leave
<1>2. \A h \in Handlers : copy[h] = board /\ handler[h].at = "idle"
  BY DEF Init, Free
<1> QED
  BY <1>1, <1>2 DEF Approved, HasLeave

\* Nothing is on the board that nobody let onto it, except what reports of one
\* second say, which find takes for each other: however many requests are at work
\* at once, whatever was misread and however old the messages whose buttons are
\* pressed, as long as every reading fits one Slack message.
THEOREM NothingUnapproved == EveryReadingFits => (Spec => []OnlyApproved)
<1> SUFFICES ASSUME EveryReadingFits PROVE Spec => []OnlyApproved
  OBVIOUS
<1> DEFINE Inv == Typed /\ Identified /\ Approved
<1>1. Init => Inv
  BY InitTyped, InitIdentified, InitApproved
<1>2. Inv /\ [Next]_vars => Inv'
  BY NextTyped, IdentifiedNext, ApprovedNext
<1>3. Inv => OnlyApproved
  BY DEF Approved, LetOnto, OnlyApproved, leave
<1> QED
  BY <1>1, <1>2, <1>3, PTL DEF Spec
-----------------------------------------------------------------------------
(* One request after the other: what users were told is what is stored. *)

SoleBoard == ToldIsStored /\ \A h \in Handlers : BoardWaits(handler[h], copy[h])

LEMMA SoleBoardSame ==
    ASSUME OneAtATime, SoleBoard, NEW h \in Handlers, UNCHANGED <<board, told>>,
           BoardWaits(handler[h], copy[h])'
    PROVE  SoleBoard'
BY DEF OneAtATime, SoleBoard, ToldIsStored

\* A handler that waits for nothing of the board.
LEMMA SoleBoardElsewhere ==
    ASSUME OneAtATime, SoleBoard, NEW h \in Handlers, UNCHANGED <<board, told>>,
           \/ handler'[h].at \notin {"board", "remove", "removed"}
           \/ handler'[h].at # "board" /\ handler'[h].op \notin Changing
    PROVE  SoleBoard'
<1>1. BoardWaits(handler[h], copy[h])'
  BY DEF BoardWaits
<1> QED
  BY <1>1, SoleBoardSame

LEMMA SoleBoardAsked ==
    ASSUME OneAtATime, SoleBoard, NEW h \in Handlers, UNCHANGED <<board, told>>,
           handler'[h].at = "board", handler'[h].reply = board
    PROVE  SoleBoard'
<1>1. BoardWaits(handler[h], copy[h])'
  BY DEF BoardWaits
<1> QED
  BY <1>1, SoleBoardSame

LEMMA SoleBoardRequest ==
    ASSUME OneAtATime, Typed, SoleBoard, NEW h \in Handlers, Request(h)
    PROVE  SoleBoard'
<1>1. ASSUME NEW op, NEW s, NEW P, Ask(h, op, s, P), UNCHANGED <<board, told>>
      PROVE  SoleBoard'
  BY <1>1, AskAfter, SoleBoardAsked
<1>2. ASSUME NEW op, NEW m, NEW contracts, Click(h, op, m, contracts),
             op \in {"select", "approve", "reject"}
      PROVE  SoleBoard'
  <2>1. UNCHANGED <<board, told>> /\ handler'[h].at = op
    BY <1>2, ClickAfter DEF Click
  <2> QED
    BY <1>2, <2>1, SoleBoardElsewhere
<1>3. ASSUME Look(h) PROVE SoleBoard'
  BY <1>1, <1>3 DEF Look, external
<1>4. ASSUME NEW s \in Streamers, NEW live \in BOOLEAN, DesktopReport(h, s, live)
      PROVE  SoleBoard'
  BY <1>1, <1>4 DEF DesktopReport, external
<1>5. ASSUME NEW s \in Streamers, NEW P \in Readings, Set(h, s, P)
      PROVE  SoleBoard'
  BY <1>1, <1>5 DEF Set
<1>6. ASSUME NEW s \in Streamers, Delete(h, s)
      PROVE  SoleBoard'
  BY <1>1, <1>6 DEF Delete
<1>7. ASSUME NEW s \in Streamers, NEW p \in UNION Readings, Create(h, s, p)
      PROVE  SoleBoard'
  BY <1>1, <1>7 DEF Create
<1> QED
  BY <1>2, <1>3, <1>4, <1>5, <1>6, <1>7 DEF Request, Toggle, Approve, Reject

LEMMA SoleBoardDelete ==
    ASSUME OneAtATime, Typed, SoleBoard, NEW h \in Handlers, DeleteNow(h)
    PROVE  SoleBoard'
<1> DEFINE s == handler[h].streamer
<1>1. /\ handler[h].reply = board /\ Ends(h)
      /\ board' = [handler[h].reply EXCEPT ![s] = None]
      /\ told' = [told EXCEPT ![s] = None]
  BY DEF DeleteNow, SoleBoard, BoardWaits
<1>2. board' = [board EXCEPT ![s] = None]
  BY <1>1
<1>3. \A t \in Streamers : board'[t] # None =>
         t # s /\ board'[t] = board[t] /\ told'[t] = told[t]
  BY <1>1, <1>2 DEF Typed, WorldTyped, Boards
<1>4. ToldIsStored'
  BY <1>3 DEF SoleBoard, ToldIsStored
<1>5. BoardWaits(handler[h], copy[h])'
  BY <1>1, EndsAfter DEF BoardWaits
<1> QED
  BY <1>4, <1>5 DEF OneAtATime, SoleBoard

LEMMA SoleBoardChange ==
    ASSUME OneAtATime, Typed, SoleBoard, NEW h \in Handlers, Change(h)
    PROVE  SoleBoard'
<1> DEFINE r == handler[h]
           object == [r.reply EXCEPT ![r.streamer] = Merged(r)]
<1>1. r.reply = board /\ UNCHANGED <<board, told>>
  BY DEF Change, SoleBoard, BoardWaits, external
<1>2. /\ r.streamer \in Streamers /\ r.reply \in Boards /\ r.reply[r.streamer] # None
      /\ handler'[h].at = "remove" /\ handler'[h].streamer = r.streamer
      /\ handler'[h].before = r.reply[r.streamer]
      /\ Holds(h, object)
  BY ChangeFacts DEF Typed, HandlersTyped
<1>3. \A s \in Streamers \ {r.streamer} : object[s] = r.reply[s]
  BY <1>2 DEF Boards
<1>4. copy'[h] = object
  BY <1>2, Held
<1> HIDE DEF object, r
<1>5. BoardWaits(handler[h], copy[h])'
  BY <1>1, <1>2, <1>3, <1>4 DEF BoardWaits
<1> QED
  BY <1>1, <1>5, SoleBoardSame

LEMMA SoleBoardCommit ==
    ASSUME OneAtATime, Typed, SoleBoard, NEW h \in Handlers, Commit(h)
    PROVE  SoleBoard'
<1> DEFINE r == handler[h]
           s == r.streamer
           was == pickPosition(r.before)
           is == pickPosition(copy[h][s])
<1>1. r.at = "removed" /\ r.op \in Changing /\ Ends(h)
  BY DEF Commit, Changing
<1>2. s \in Streamers
  BY <1>1, HandlerFacts DEF Stage, Changing
<1>3. /\ board[s] # None /\ r.before = board[s]
      /\ \A t \in Streamers \ {s} : copy[h][t] = board[t]
  BY <1>1 DEF SoleBoard, BoardWaits
<1>4. board' = copy[h]
  BY DEF Commit, OneAtATime, Typed, HandlersTyped
<1>5. told' = IF was # is THEN [told EXCEPT ![s] = is] ELSE told
  BY DEF Commit
<1>6. told[s] = was
  BY <1>2, <1>3 DEF SoleBoard, ToldIsStored
<1>7. told \in [Streamers -> Position \cup {None}]
  BY DEF Typed, WorldTyped
<1> HIDE DEF was, is, s
<1>8. told'[s] = is /\ \A t \in Streamers \ {s} : told'[t] = told[t]
  BY <1>2, <1>5, <1>6, <1>7
<1>9. ASSUME NEW t \in Streamers, board'[t] # None
      PROVE  told'[t] = pickPosition(board'[t])
  <2>1. CASE t = s
    BY <1>4, <1>8, <2>1 DEF is
  <2>2. CASE t # s
    BY <1>3, <1>4, <1>8, <1>9, <2>2 DEF SoleBoard, ToldIsStored
  <2> QED
    BY <2>1, <2>2
<1>10. ToldIsStored'
  BY <1>9 DEF ToldIsStored
<1>11. BoardWaits(handler[h], copy[h])'
  BY <1>1, EndsAfter DEF BoardWaits
<1> QED
  BY <1>10, <1>11 DEF OneAtATime, SoleBoard

LEMMA SoleBoardReply ==
    ASSUME OneAtATime, Typed, SoleBoard, NEW h \in Handlers,
           \/ LookEnds(h) \/ Seen(h) \/ CreateNow(h) \/ Read(h) \/ Misread(h) \/ Previous(h)
    PROVE  SoleBoard'
<1> DEFINE r == handler[h]
<1>1. CASE LookEnds(h)
  BY <1>1, EndsAfter, SoleBoardElsewhere DEF LookEnds, external
<1>2. CASE Seen(h)
  <2>1. board' = board /\ told' = told
    BY <1>2 DEF Seen, SoleBoard, BoardWaits, external
  <2>2. handler'[h].at \in {"idle", "screen"}
    BY <1>2, EndsAfter, SeenAfter
  <2> QED
    BY <2>1, <2>2, SoleBoardElsewhere
<1>3. CASE CreateNow(h)
  <2>1. UNCHANGED <<board, told>> /\ (Ends(h) \/ \E report : Makes(h, report))
    BY <1>3, CreateNowMakes DEF CreateNow
  <2>2. handler'[h].at \in {"idle", "upload"}
    BY <2>1, EndsAfter, FilingAfter DEF Makes
  <2> QED
    BY <2>1, <2>2, SoleBoardElsewhere
<1>4. CASE Read(h) \/ Misread(h)
  <2>1. UNCHANGED <<board, told>> /\ (Ends(h) \/ \E P : ReadsAs(h, P))
    BY <1>4 DEF Read, Misread, external
  <2>2. handler'[h].at \in {"idle", "previous"}
    BY <2>1, EndsAfter, ReadsAsAfter
  <2> QED
    BY <2>1, <2>2, SoleBoardElsewhere
<1>5. CASE Previous(h)
  <2> DEFINE unseen == unseenContracts(copy[h][r.streamer], r.positions)
             asking == [r EXCEPT !.op = "auto", !.unseen = unseen]
  <2>1. /\ UNCHANGED <<board, told>>
        /\ \/ Ends(h)
           \/ Goes(h, AsksBoard(h, asking))
           \/ \E report : Makes(h, report)
    BY <1>5, PreviousMakes DEF Previous
  <2> HIDE DEF unseen
  <2>2. \/ handler'[h].at \in {"idle", "upload"}
        \/ handler'[h].at = "board" /\ handler'[h].reply = board
    BY <2>1, EndsAfter, FilingAfter, AutoAfter DEF Makes
  <2> QED
    BY <2>1, <2>2, SoleBoardElsewhere, SoleBoardAsked
<1> QED
  BY <1>1, <1>2, <1>3, <1>4, <1>5

LEMMA SoleBoardRest ==
    ASSUME OneAtATime, Typed, SoleBoard, NEW h \in Handlers,
           \/ Uploaded(h) \/ Put(h) \/ Notify(h) \/ NotifyFails(h) \/ Remove(h) \/ Close(h)
           \/ Select(h) \/ Resolve(h)
    PROVE  SoleBoard'
<1> DEFINE r == handler[h]
<1>1. UNCHANGED <<board, copy, told>>
  BY DEF Uploaded, Put, Notify, NotifyFails, Remove, Close, Select, Resolve, external
<1>2. Stage(r, copy[h]) /\ BoardWaits(r, copy[h])
  BY HandlerFacts DEF SoleBoard
<1>3. CASE Uploaded(h) \/ Put(h) \/ Notify(h) \/ Close(h) \/ Select(h)
  <2>1. handler'[h].at \in {"idle", "put", "notify"}
    BY <1>3, EndsAfter, AsksInboxAfter, GoesOnAfter DEF Uploaded, Put, Notify, Close, Select
  <2> QED
    BY <1>1, <2>1, SoleBoardElsewhere
<1>4. CASE NotifyFails(h)
  <2>1. handler'[h].at = "remove" /\ Keeps(handler'[h], r)
    BY <1>4, AsksInboxAfter DEF NotifyFails
  <2>2. r.op \notin Changing
    BY <1>2, <1>4 DEF NotifyFails, Stage, Changing
  <2> QED
    BY <1>1, <2>1, <2>2, SoleBoardElsewhere DEF Keeps
<1>5. CASE Remove(h)
  <2>1. handler'[h].at = "removed" /\ Keeps(handler'[h], r) /\ r.at = "remove"
    BY <1>5, GoesOnAfter DEF Remove
  <2>2. BoardWaits(handler[h], copy[h])'
    BY <1>1, <1>2, <2>1 DEF BoardWaits, Keeps
  <2> QED
    BY <1>1, <2>2, SoleBoardSame
<1>6. CASE Resolve(h)
  <2> DEFINE report == find(r.reply, r.streamer, r.message.at)
             new == AsksBoard(h, [r EXCEPT !.positions = selectedPositions(report),
                                           !.unseen = report.unseen])
  <2>1. CASE Ends(h)
    BY <1>1, <2>1, EndsAfter, SoleBoardElsewhere
  <2>2. CASE r.at = "reject" /\ Goes(h, AsksInbox(h, r, "remove"))
    <3>1. handler'[h].at = "remove" /\ Keeps(handler'[h], r)
      BY <2>2, AsksInboxAfter
    <3>2. r.op \notin Changing
      BY <1>2, <2>2 DEF Stage, Changing
    <3> QED
      BY <1>1, <3>1, <3>2, SoleBoardElsewhere DEF Keeps
  <2>3. CASE handler' = [handler EXCEPT ![h] = new] /\ new.at = "board" /\ new.reply = board
    <3>1. handler'[h] = new
      BY <2>3, Gone DEF Goes
    <3> HIDE DEF new
    <3> QED
      BY <1>1, <2>3, <3>1, SoleBoardAsked
  <2> QED
    BY <1>6, <2>1, <2>2, <2>3, ResolveFacts
<1> QED
  BY <1>3, <1>4, <1>5, <1>6

LEMMA SoleBoardNext ==
    ASSUME OneAtATime, Typed, SoleBoard, [Next]_vars
    PROVE  SoleBoard'
<1>1. ASSUME NEW h \in Handlers, Request(h) \/ HandlerStep(h) \/ Misread(h) \/ NotifyFails(h)
      PROVE  SoleBoard'
  BY <1>1, SoleBoardRequest, SoleBoardDelete, SoleBoardChange, SoleBoardCommit,
     SoleBoardReply, SoleBoardRest DEF HandlerStep
<1>2. ASSUME NEW s \in Streamers, ScreenChanges(s) PROVE SoleBoard'
  BY <1>2 DEF ScreenChanges, SoleBoard, BoardWaits, ToldIsStored
<1>3. ASSUME Restart PROVE SoleBoard'
  <2>1. UNCHANGED <<board, told>> /\ handler' = [h \in Handlers |-> Free]
    BY <1>3 DEF Restart
  <2>2. \A h \in Handlers : BoardWaits(handler[h], copy[h])'
    BY <2>1 DEF BoardWaits, Free
  <2> QED
    BY <2>1, <2>2 DEF SoleBoard, ToldIsStored
<1>4. ASSUME UNCHANGED vars PROVE SoleBoard'
  BY <1>4 DEF vars, SoleBoard, BoardWaits, ToldIsStored
<1> QED
  BY <1>1, <1>2, <1>3, <1>4 DEF Next

\* Users have been told the headline that is on the board, and no other, as
\* long as requests do not overlap.
THEOREM ToldStored == OneAtATime => (Spec => []ToldIsStored)
<1> SUFFICES ASSUME OneAtATime PROVE Spec => []ToldIsStored
  OBVIOUS
<1> DEFINE Inv == Typed /\ SoleBoard
<1>1. Init => Inv
  <2> SUFFICES ASSUME Init PROVE Inv
    OBVIOUS
  <2>1. \A h \in Handlers : BoardWaits(handler[h], copy[h])
    BY DEF Init, BoardWaits, Free
  <2>2. ToldIsStored
    BY DEF Init, ToldIsStored
  <2> QED
    BY <2>1, <2>2, InitTyped DEF SoleBoard
<1>2. Inv /\ [Next]_vars => Inv'
  BY NextTyped, SoleBoardNext
<1>3. Inv => ToldIsStored
  BY DEF SoleBoard
<1> QED
  BY <1>1, <1>2, <1>3, PTL DEF Spec
-----------------------------------------------------------------------------
(* One request after the other: what is in the inbox was shown to somebody. *)

SoleInbox == ReportsAreShown /\ \A h \in Handlers : InboxWaits(handler[h])

\* Then one handler files at most.
LEMMA FiledByOne ==
    ASSUME OneAtATime, NEW h \in Handlers, NEW report
    PROVE  Filing(report) <=> handler[h].report # None /\ handler[h].report.no = report.no
BY DEF OneAtATime, Filing

LEMMA SoleInboxWaits ==
    ASSUME OneAtATime, NEW h \in Handlers, InboxWaits(handler[h])', ReportsAreShown'
    PROVE  SoleInbox'
BY DEF OneAtATime, SoleInbox

\* A report stays what it was when it is ticked, and known when its handler
\* keeps it.
LEMMA StillShown ==
    ASSUME OneAtATime, SoleInbox, NEW h \in Handlers, UNCHANGED <<slack, orphans>>,
           handler[h].report \in {None, handler'[h].report},
           \A report \in InInbox' : \E q \in InInbox : report.no = q.no
    PROVE  ReportsAreShown'
<1> SUFFICES ASSUME NEW report \in InInbox'
             PROVE  Filing(report)' \/ HasMessage(report)' \/ report.no \in orphans'
  BY DEF ReportsAreShown
<1>1. PICK q \in InInbox : report.no = q.no
  OBVIOUS
<1>2. Filing(q) \/ HasMessage(q) \/ q.no \in orphans
  BY DEF SoleInbox, ReportsAreShown
<1>3. CASE Filing(q)
  <2>1. handler[h].report # None /\ handler[h].report.no = q.no
    BY <1>3, FiledByOne
  <2>2. handler'[h].report # None /\ handler'[h].report.no = report.no
    BY <1>1, <2>1
  <2> QED
    BY <2>2 DEF Filing
<1>4. CASE HasMessage(q)
  BY <1>1, <1>4 DEF HasMessage
<1> QED
  BY <1>1, <1>2, <1>3, <1>4

\* A handler that waits for nothing of the inbox.
LEMMA SoleInboxElsewhere ==
    ASSUME OneAtATime, SoleInbox, NEW h \in Handlers, UNCHANGED <<inbox, slack, orphans>>,
           handler[h].report \in {None, handler'[h].report},
           handler'[h].at \notin AsksForInbox \cup {"removed", "upload"}
    PROVE  SoleInbox'
<1>1. ReportsAreShown'
  BY StillShown DEF InInbox
<1>2. "put" \in AsksForInbox
  BY DEF AsksForInbox
<1>3. InboxWaits(handler[h])'
  BY <1>2 DEF InboxWaits
<1> QED
  BY <1>1, <1>3, SoleInboxWaits

LEMMA SoleInboxAsked ==
    ASSUME OneAtATime, SoleInbox, NEW h \in Handlers, UNCHANGED <<inbox, slack, orphans>>,
           handler[h].report \in {None, handler'[h].report},
           handler'[h].at \in AsksForInbox \ {"put"}, handler'[h].reply = inbox
    PROVE  SoleInbox'
<1>1. ReportsAreShown'
  BY StillShown DEF InInbox
<1>2. handler'[h].at \notin {"removed", "upload", "put"}
  BY DEF AsksForInbox
<1>3. InboxWaits(handler[h])'
  BY <1>2 DEF InboxWaits
<1> QED
  BY <1>1, <1>3, SoleInboxWaits

LEMMA SoleInboxRequest ==
    ASSUME OneAtATime, Typed, SoleInbox, NEW h \in Handlers, Request(h)
    PROVE  SoleInbox'
<1>1. ASSUME NEW op, NEW s, NEW P, Ask(h, op, s, P), UNCHANGED <<inbox, slack, orphans>>
      PROVE  SoleInbox'
  <2>1. handler'[h].at = "board" /\ handler[h].report = None
    BY <1>1, AskAfter DEF Free
  <2> QED
    BY <1>1, <2>1, SoleInboxElsewhere DEF AsksForInbox
<1>2. ASSUME NEW op, NEW m, NEW contracts, Click(h, op, m, contracts),
             op \in {"select", "approve", "reject"}
      PROVE  SoleInbox'
  <2>1. UNCHANGED <<inbox, slack, orphans>>
    BY <1>2 DEF Click
  <2>2. handler'[h].at = op /\ handler'[h].reply = inbox /\ handler[h] = Free
    BY <1>2, ClickAfter
  <2>3. handler[h].report = None
    BY <2>2 DEF Free
  <2> QED
    BY <1>2, <2>1, <2>2, <2>3, SoleInboxAsked DEF AsksForInbox
<1>3. ASSUME Look(h) PROVE SoleInbox'
  BY <1>1, <1>3 DEF Look, external
<1>4. ASSUME NEW s \in Streamers, NEW live \in BOOLEAN, DesktopReport(h, s, live)
      PROVE  SoleInbox'
  BY <1>1, <1>4 DEF DesktopReport, external
<1>5. ASSUME NEW s \in Streamers, NEW P \in Readings, Set(h, s, P)
      PROVE  SoleInbox'
  BY <1>1, <1>5 DEF Set
<1>6. ASSUME NEW s \in Streamers, Delete(h, s)
      PROVE  SoleInbox'
  BY <1>1, <1>6 DEF Delete
<1>7. ASSUME NEW s \in Streamers, NEW p \in UNION Readings, Create(h, s, p)
      PROVE  SoleInbox'
  BY <1>1, <1>7 DEF Create
<1> QED
  BY <1>2, <1>3, <1>4, <1>5, <1>6, <1>7 DEF Request, Toggle, Approve, Reject

LEMMA SoleInboxReply ==
    ASSUME OneAtATime, Typed, SoleInbox, NEW h \in Handlers,
           LookEnds(h) \/ DeleteNow(h) \/ Change(h) \/ Seen(h) \/ Read(h) \/ Misread(h)
    PROVE  SoleInbox'
<1>1. UNCHANGED <<inbox, slack, orphans>>
  BY DEF LookEnds, DeleteNow, Change, Seen, Read, Misread, external
<1>2. handler[h].report = None
  <2>1. handler[h].at \in {"board", "screen"}
    BY DEF LookEnds, DeleteNow, Change, Seen, Read, Misread
  <2> QED
    BY <2>1, HandlerFacts DEF Stage
<1>3. CASE Ends(h)
  BY <1>1, <1>2, <1>3, EndsAfter, SoleInboxElsewhere DEF AsksForInbox
<1>4. CASE Change(h)
  <2>1. handler'[h].at = "remove" /\ handler'[h].reply = inbox
    BY <1>4, ChangeFacts DEF Typed, HandlersTyped
  <2> QED
    BY <1>1, <1>2, <2>1, SoleInboxAsked DEF AsksForInbox
<1>5. CASE Seen(h)
  <2>1. Ends(h) \/ handler'[h].at = "screen"
    BY <1>5, SeenAfter
  <2> QED
    BY <1>1, <1>2, <1>3, <2>1, SoleInboxElsewhere DEF AsksForInbox
<1>6. CASE Read(h) \/ Misread(h)
  <2>1. Ends(h) \/ \E P : ReadsAs(h, P)
    BY <1>6 DEF Read, Misread
  <2>2. Ends(h) \/ (handler'[h].at = "previous" /\ handler'[h].reply = inbox)
    BY <2>1, ReadsAsAfter
  <2> QED
    BY <1>1, <1>2, <1>3, <2>2, SoleInboxAsked DEF AsksForInbox
<1> QED
  BY <1>3, <1>4, <1>5, <1>6 DEF LookEnds, DeleteNow

\* A new report has a number that no report in the inbox has.
LEMMA SoleInboxMade ==
    ASSUME OneAtATime, Typed, Identified, SoleInbox, NEW h \in Handlers,
           CreateNow(h) \/ Previous(h)
    PROVE  SoleInbox'
<1> DEFINE r == handler[h]
<1>1. UNCHANGED <<inbox, slack, orphans>>
  BY DEF CreateNow, Previous
<1>2. r.report = None
  <2>1. r.at \in {"board", "previous"}
    BY DEF CreateNow, Previous
  <2> QED
    BY <2>1, HandlerFacts DEF Stage
<1>3. CASE Ends(h)
  BY <1>1, <1>2, <1>3, EndsAfter, SoleInboxElsewhere DEF AsksForInbox
<1>4. ASSUME NEW report, Makes(h, report)
      PROVE  SoleInbox'
  <2>1. handler'[h].at = "upload" /\ handler'[h].report = report
    BY <1>4, FilingAfter DEF Makes
  <2>2. \A q \in InInbox : q.no \in DOMAIN made
    BY DEF Identified, Is
  <2>3. Len(made) \in Nat /\ DOMAIN made = 1 .. Len(made)
    BY DEF Typed, WorldTyped
  <2>4. \A q \in InInbox : q.no # report.no
    BY <1>4, <2>2, <2>3 DEF Makes
  <2>5. InInbox' = InInbox
    BY <1>1 DEF InInbox
  <2>6. InboxWaits(handler[h])'
    BY <2>1, <2>4, <2>5 DEF InboxWaits, AsksForInbox
  <2>7. ReportsAreShown'
    BY <1>1, <1>2, <2>5, StillShown
  <2> QED
    BY <2>6, <2>7, SoleInboxWaits
<1>5. CASE CreateNow(h)
  BY <1>3, <1>4, <1>5, CreateNowMakes
<1>6. CASE Previous(h)
  <2> DEFINE unseen == unseenContracts(copy[h][r.streamer], r.positions)
             asking == [r EXCEPT !.op = "auto", !.unseen = unseen]
  <2>1. \/ Ends(h)
        \/ Goes(h, AsksBoard(h, asking))
        \/ \E report : Makes(h, report)
    BY <1>6, PreviousMakes
  <2>2. ASSUME Goes(h, AsksBoard(h, asking))
        PROVE  SoleInbox'
    <3>1. handler'[h].at = "board"
      BY <2>2, AutoAfter
    <3> QED
      BY <1>1, <1>2, <3>1, SoleInboxElsewhere DEF AsksForInbox
  <2> HIDE DEF asking
  <2> QED
    BY <1>3, <1>4, <2>1, <2>2
<1> QED
  BY <1>5, <1>6

\* Put, notify, and take back what nobody could be told of.
LEMMA SoleInboxFile ==
    ASSUME OneAtATime, Typed, Identified, SoleInbox, NEW h \in Handlers,
           Uploaded(h) \/ Put(h) \/ Notify(h) \/ NotifyFails(h) \/ Remove(h)
    PROVE  SoleInbox'
<1> DEFINE r == handler[h]
<1>1. Stage(r, copy[h]) /\ InboxWaits(r)
  BY HandlerFacts DEF SoleInbox
<1>2. CASE Uploaded(h)
  <2>1. UNCHANGED <<inbox, slack, orphans>> /\ r.at = "upload"
    BY <1>2 DEF Uploaded, external
  <2>2. handler'[h].at = "put" /\ handler'[h].reply = inbox /\ handler'[h].report = r.report
    BY <1>2, AsksInboxAfter DEF Uploaded, Keeps
  <2>3. InInbox' = InInbox
    BY <2>1 DEF InInbox
  <2>4. InboxWaits(handler[h])'
    BY <1>1, <2>1, <2>2, <2>3 DEF InboxWaits
  <2>5. ReportsAreShown'
    BY <2>1, <2>2, <2>3, StillShown
  <2> QED
    BY <2>4, <2>5, SoleInboxWaits
<1>3. CASE Put(h)
  <2>1. /\ r.at = "put" /\ UNCHANGED <<slack, orphans>>
        /\ inbox' = put(r.reply, r.report)
        /\ Goes(h, [r EXCEPT !.at = "notify", !.reply = None])
    BY <1>3 DEF Put, external
  <2>2. handler'[h].at = "notify" /\ handler'[h].report = r.report
    BY <2>1, GoesOnAfter DEF Keeps
  <2>3. r.report \in Filed /\ r.report # None
    BY <1>1, <2>1, FiledAreReports DEF Stage
  <2>4. r.reply = inbox
    BY <1>1, <2>1 DEF InboxWaits, AsksForInbox
  <2>5. \A report \in InInbox' : report \in InInbox \/ report = r.report
    BY <2>1, <2>3, <2>4, HandlerFacts, PutFacts DEF InInbox
  <2>6. ASSUME NEW report \in InInbox'
        PROVE  Filing(report)' \/ HasMessage(report)' \/ report.no \in orphans'
    <3>1. CASE report = r.report
      BY <2>2, <2>3, <3>1 DEF Filing
    <3>2. CASE report \in InInbox
      <4>1. Filing(report) \/ HasMessage(report) \/ report.no \in orphans
        BY <3>2 DEF SoleInbox, ReportsAreShown
      <4>2. Filing(report) => Filing(report)'
        BY <2>2, FiledByOne DEF Filing
      <4>3. HasMessage(report) => HasMessage(report)'
        BY <2>1 DEF HasMessage
      <4> QED
        BY <2>1, <4>1, <4>2, <4>3
    <3> QED
      BY <2>5, <3>1, <3>2
  <2>7. ReportsAreShown'
    BY <2>6 DEF ReportsAreShown
  <2>8. InboxWaits(handler[h])'
    BY <2>2 DEF InboxWaits, AsksForInbox
  <2> QED
    BY <2>7, <2>8, SoleInboxWaits
<1>4. CASE Notify(h)
  <2>1. /\ r.at = "notify" /\ UNCHANGED <<inbox, orphans>>
        /\ slack' = slack \cup {Message(r.report)} /\ Ends(h)
    BY <1>4 DEF Notify
  <2>2. Message(r.report).no = r.report.no
    BY DEF Message
  <2>3. ASSUME NEW report \in InInbox'
        PROVE  Filing(report)' \/ HasMessage(report)' \/ report.no \in orphans'
    <3>1. report \in InInbox
      BY <2>1 DEF InInbox
    <3>2. Filing(report) \/ HasMessage(report) \/ report.no \in orphans
      BY <3>1 DEF SoleInbox, ReportsAreShown
    <3>3. Filing(report) => r.report.no = report.no
      BY FiledByOne
    <3>4. r.report.no = report.no => HasMessage(report)'
      BY <2>1, <2>2 DEF HasMessage
    <3>5. HasMessage(report) => HasMessage(report)'
      BY <2>1 DEF HasMessage
    <3> QED
      BY <2>1, <3>2, <3>3, <3>4, <3>5
  <2>4. ReportsAreShown'
    BY <2>3 DEF ReportsAreShown
  <2>5. InboxWaits(handler[h])'
    BY <2>1, EndsAfter DEF InboxWaits, AsksForInbox
  <2> QED
    BY <2>4, <2>5, SoleInboxWaits
<1>5. CASE NotifyFails(h)
  <2>1. UNCHANGED <<inbox, slack, orphans>>
    BY <1>5 DEF NotifyFails
  <2>2. handler'[h].at = "remove" /\ handler'[h].reply = inbox /\ handler'[h].report = r.report
    BY <1>5, AsksInboxAfter DEF NotifyFails, Keeps
  <2> QED
    BY <2>1, <2>2, SoleInboxAsked DEF AsksForInbox
<1>6. CASE Remove(h)
  <2>1. /\ r.at = "remove" /\ UNCHANGED <<slack, orphans>>
        /\ inbox' = remove(r.reply, r.streamer)
        /\ Goes(h, [r EXCEPT !.at = "removed", !.reply = None])
    BY <1>6 DEF Remove, external
  <2>2. /\ handler'[h].at = "removed" /\ handler'[h].report = r.report
        /\ handler'[h].streamer = r.streamer
    BY <2>1, GoesOnAfter DEF Keeps
  <2>3. r.reply = inbox /\ r.streamer \in Streamers
    BY <1>1, <2>1 DEF InboxWaits, Stage, AsksForInbox
  <2>4. \A report \in InInbox' : report \in InInbox /\ report.streamer # r.streamer
    BY <2>1, <2>3, HandlerFacts, RemoveFacts DEF InInbox
  <2>5. ReportsAreShown'
    BY <2>1, <2>2, <2>4, StillShown
  <2>6. InboxWaits(handler[h])'
    BY <2>2, <2>4 DEF InboxWaits, AsksForInbox
  <2> QED
    BY <2>5, <2>6, SoleInboxWaits
<1> QED
  BY <1>2, <1>3, <1>4, <1>5, <1>6

\* The message that goes is of a streamer that has no report any more.
LEMMA SoleInboxClosed ==
    ASSUME OneAtATime, Typed, Identified, SoleInbox, NEW h \in Handlers,
           Commit(h) \/ Close(h)
    PROVE  SoleInbox'
<1> DEFINE r == handler[h]
<1>1. /\ r.at = "removed" /\ Ends(h) /\ UNCHANGED <<inbox, orphans>>
      /\ slack' = slack \ {r.message}
  BY DEF Commit, Close
<1>2. /\ r.report # None => r.report.streamer = r.streamer
      /\ r.message # None => r.message.streamer = r.streamer
  BY <1>1, HandlerFacts DEF Stage
<1>3. \A report \in InInbox : report.streamer # r.streamer
  BY <1>1 DEF SoleInbox, InboxWaits
<1>4. r.report # None => Is(made, r.report)
  BY DEF Identified, Knows
<1>5. ASSUME NEW report \in InInbox'
      PROVE  Filing(report)' \/ HasMessage(report)' \/ report.no \in orphans'
  <2>1. report \in InInbox
    BY <1>1, <1>5 DEF InInbox
  <2>2. Filing(report) \/ HasMessage(report) \/ report.no \in orphans
    BY <2>1 DEF SoleInbox, ReportsAreShown
  <2>3. Is(made, report) /\ report.streamer # r.streamer
    BY <1>3, <2>1 DEF Identified
  <2>4. CASE Filing(report)
    <3>1. r.report # None /\ r.report.no = report.no
      BY <2>4, FiledByOne
    <3>2. r.report.streamer = report.streamer
      BY <1>4, <2>3, <3>1 DEF Is
    <3> QED
      BY <1>2, <2>3, <3>1, <3>2
  <2>5. CASE HasMessage(report)
    <3>1. PICK m \in slack : m.no = report.no
      BY <2>5 DEF HasMessage
    <3>2. IsShown(made, m)
      BY DEF Identified
    <3>3. m.streamer = report.streamer
      BY <2>3, <3>1, <3>2 DEF Is, IsShown
    <3>4. m # None
      BY NoneIsNothing DEF Typed, WorldTyped
    <3>5. m # r.message
      BY <1>2, <2>3, <3>3, <3>4
    <3>6. m \in slack'
      BY <1>1, <3>5
    <3> QED
      BY <3>1, <3>6 DEF HasMessage
  <2> QED
    BY <1>1, <2>2, <2>4, <2>5
<1>6. ReportsAreShown'
  BY <1>5 DEF ReportsAreShown
<1>7. InboxWaits(handler[h])'
  BY <1>1, EndsAfter DEF InboxWaits, AsksForInbox
<1> QED
  BY <1>6, <1>7, SoleInboxWaits

LEMMA SoleInboxSlack ==
    ASSUME OneAtATime, Typed, SoleInbox, NEW h \in Handlers, Select(h) \/ Resolve(h)
    PROVE  SoleInbox'
<1> DEFINE r == handler[h]
<1>1. UNCHANGED <<slack, orphans>> /\ r.at \in AsksForInbox
  BY DEF Select, Resolve, external, AsksForInbox
<1>2. Stage(r, copy[h]) /\ r \in HandlerType /\ r.reply = inbox
  BY <1>1, HandlerFacts DEF SoleInbox, InboxWaits
<1>3. r.report = None
  BY <1>2 DEF Select, Resolve, Stage
<1>4. CASE Select(h)
  <2>1. /\ r.reply \in Boxes /\ r.streamer \in Streamers /\ r.unseen \in SUBSET Contracts
    BY <1>2, <1>4 DEF Select, Stage, AsksForInbox, HandlerType
  <2>2. inbox' = inbox \/ inbox' = select(r.reply, r.streamer, r.unseen)
    BY <1>4 DEF Select
  <2>3. \A report \in InInbox' : \E q \in InInbox : report.no = q.no
    <3>1. CASE inbox' = inbox
      BY <3>1 DEF InInbox
    <3>2. CASE inbox' = select(r.reply, r.streamer, r.unseen)
      BY <1>2, <2>1, <3>2, SelectFacts DEF InInbox
    <3> QED
      BY <2>2, <3>1, <3>2
  <2>4. ReportsAreShown'
    BY <1>1, <1>3, <2>3, StillShown
  <2>5. InboxWaits(handler[h])'
    BY <1>4, EndsAfter DEF Select, InboxWaits, AsksForInbox
  <2> QED
    BY <2>4, <2>5, SoleInboxWaits
<1>5. CASE Resolve(h)
  <2> DEFINE report == find(r.reply, r.streamer, r.message.at)
             new == AsksBoard(h, [r EXCEPT !.positions = selectedPositions(report),
                                           !.unseen = report.unseen])
  <2>1. UNCHANGED inbox
    BY <1>5 DEF Resolve
  <2>2. CASE Ends(h)
    BY <1>1, <1>3, <2>1, <2>2, EndsAfter, SoleInboxElsewhere DEF AsksForInbox
  <2>3. CASE Goes(h, AsksInbox(h, r, "remove"))
    <3>1. handler'[h].at = "remove" /\ handler'[h].reply = inbox
      BY <2>3, AsksInboxAfter
    <3> QED
      BY <1>1, <1>3, <2>1, <3>1, SoleInboxAsked DEF AsksForInbox
  <2>4. CASE handler' = [handler EXCEPT ![h] = new] /\ new.at = "board"
    <3>1. handler'[h] = new
      BY <2>4, Gone DEF Goes
    <3> HIDE DEF new
    <3>2. handler'[h].at = "board"
      BY <2>4, <3>1
    <3> QED
      BY <1>1, <1>3, <2>1, <3>2, SoleInboxElsewhere DEF AsksForInbox
  <2> QED
    BY <1>5, <2>2, <2>3, <2>4, ResolveFacts
<1> QED
  BY <1>4, <1>5

\* A restart between put and the answer of notify leaves an orphan.
LEMMA SoleInboxRestart ==
    ASSUME OneAtATime, Typed, Identified, SoleInbox, Restart
    PROVE  SoleInbox'
<1>1. /\ UNCHANGED <<inbox, slack>> /\ handler' = [g \in Handlers |-> Free]
      /\ orphans' = orphans \cup
            {handler[g].report.no : g \in {f \in Handlers : Notifying(f)}}
  BY DEF Restart
<1>2. ASSUME NEW report \in InInbox'
      PROVE  Filing(report)' \/ HasMessage(report)' \/ report.no \in orphans'
  <2>1. report \in InInbox
    BY <1>1, <1>2 DEF InInbox
  <2>2. Filing(report) \/ HasMessage(report) \/ report.no \in orphans
    BY <2>1 DEF SoleInbox, ReportsAreShown
  <2>3. CASE Filing(report)
    <3>1. PICK h \in Handlers : handler[h].report # None /\ handler[h].report.no = report.no
      BY <2>3 DEF Filing
    <3>2. Stage(handler[h], copy[h]) /\ InboxWaits(handler[h])
      BY HandlerFacts DEF SoleInbox
    <3>3. handler[h].at \in {"upload", "put", "notify", "remove", "removed"}
      BY <3>1, <3>2 DEF Stage
    <3>4. handler[h].at \notin {"upload", "put"}
      BY <2>1, <3>1, <3>2 DEF InboxWaits
    <3>5. CASE handler[h].at = "removed"
      <4>1. handler[h].report.streamer = handler[h].streamer
        BY <3>1, <3>2, <3>5 DEF Stage
      <4>2. Is(made, handler[h].report) /\ Is(made, report)
        BY <2>1, <3>1 DEF Identified, Knows
      <4>3. report.streamer = handler[h].streamer
        BY <3>1, <4>1, <4>2 DEF Is
      <4> QED
        BY <2>1, <3>2, <3>5, <4>3 DEF InboxWaits
    <3>6. CASE handler[h].at \in {"notify", "remove"}
      <4>1. Notifying(h)
        BY <3>1, <3>6 DEF Notifying
      <4> QED
        BY <1>1, <3>1, <4>1
    <3> QED
      BY <3>3, <3>4, <3>5, <3>6
  <2>4. HasMessage(report) => HasMessage(report)'
    BY <1>1 DEF HasMessage
  <2> QED
    BY <1>1, <2>2, <2>3, <2>4
<1>3. ReportsAreShown'
  BY <1>2 DEF ReportsAreShown
<1>4. \A h \in Handlers : InboxWaits(handler[h])'
  BY <1>1 DEF InboxWaits, AsksForInbox, Free
<1> QED
  BY <1>3, <1>4 DEF SoleInbox

LEMMA SoleInboxNext ==
    ASSUME OneAtATime, Typed, Identified, SoleInbox, [Next]_vars
    PROVE  SoleInbox'
<1>1. ASSUME NEW h \in Handlers, Request(h) \/ HandlerStep(h) \/ Misread(h) \/ NotifyFails(h)
      PROVE  SoleInbox'
  BY <1>1, SoleInboxRequest, SoleInboxReply, SoleInboxMade, SoleInboxFile, SoleInboxClosed,
     SoleInboxSlack DEF HandlerStep
<1>2. ASSUME UNCHANGED <<inbox, handler, slack, orphans>> PROVE SoleInbox'
  BY <1>2 DEF SoleInbox, ReportsAreShown, InboxWaits, InInbox, Filing, HasMessage
<1>3. ASSUME NEW s \in Streamers, ScreenChanges(s) PROVE SoleInbox'
  BY <1>2, <1>3 DEF ScreenChanges
<1>4. ASSUME UNCHANGED vars PROVE SoleInbox'
  BY <1>2, <1>4 DEF vars
<1> QED
  BY <1>1, <1>3, <1>4, SoleInboxRestart DEF Next

\* Somebody has been told of every report in the inbox, or the handler that
\* filed it is about to tell them, or a restart came between, as long as
\* requests do not overlap.
THEOREM ReportsShown == OneAtATime => (Spec => []ReportsAreShown)
<1> SUFFICES ASSUME OneAtATime PROVE Spec => []ReportsAreShown
  OBVIOUS
<1> DEFINE Inv == Typed /\ Identified /\ SoleInbox
<1>1. Init => Inv
  <2> SUFFICES ASSUME Init PROVE Inv
    OBVIOUS
  <2>1. InInbox = {}
    BY DEF Init, InInbox, Reports
  <2>2. ReportsAreShown
    BY <2>1 DEF ReportsAreShown
  <2>3. \A h \in Handlers : InboxWaits(handler[h])
    BY DEF Init, InboxWaits, AsksForInbox, Free
  <2> QED
    BY <2>2, <2>3, InitTyped, InitIdentified DEF SoleInbox
<1>2. Inv /\ [Next]_vars => Inv'
  BY NextTyped, IdentifiedNext, SoleInboxNext
<1>3. Inv => ReportsAreShown
  BY DEF SoleInbox
<1> QED
  BY <1>1, <1>2, <1>3, PTL DEF Spec
=============================================================================
