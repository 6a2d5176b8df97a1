------------------------------- MODULE Services -------------------------------
(***************************************************************************)
(* The services that share nothing but the process they run in, side by    *)
(* side: the first step takes one of them, and from there it runs alone.   *)
(* The constants are those of the modules; where two modules have one of   *)
(* the same name, it carries its service's.                                *)
(***************************************************************************)
EXTENDS Integers, FiniteSets, Sequences

CONSTANTS
    Tokens, Sockets, MaxRestarts,                                       \* ChatUsers
    IPs, Frequency, BanTimes, MaxDelay, MaxBanTexts, MaxBans,           \* ChatBans
    Handlers, Loads, NumLatest, MaxTexts, MaxFaults,                    \* ChatMessages
    Posts, Users, Names, Depth, SearchLimit, MaxNear,                   \* RagSearch
    MaxChunkSize, Overlap, MaxLength, MaxParts,                         \* Chunker
    Texts, Tasks, EmbedBatch, MaxInput, MaxEmbeds,                      \* Embedding
    Questions, Cap, Retention, MaxDay, MaxAnswers,                      \* AiLedger
    Requests, MaxAllowed, WindowTicks, MaxTicks,                        \* RateLimit
    Reactors, Toggles, MaxRows,                                         \* Reactions
    Arrivals, MaxSignIns,                                               \* KakaoSignIn
    Urls, Calls, MaxWork,                                               \* UrlCaches
    Pages, Forced, Short, Long, Day, MaxMinutes, MaxCalls,              \* MarketCache
    Ids, CopyBatch, MaxCopyTime, MaxChanges, MaxRuns,                   \* TableCopy
    None, Done

(* What the theorems ask of the constants. *)

\* None and Done are not of the values they stand apart from.
ChatUsersOK ==
    /\ None \notin {"fresh", "own"} /\ None \notin Tokens
    /\ None \notin [Tokens -> {"fresh", "own", None}]

\* An alarm can wait for the distance of two texts.
ChatBansOK ==
    /\ Frequency \in Nat /\ MaxDelay \in Nat /\ Frequency <= MaxDelay /\ BanTimes \subseteq Nat
    /\ None \notin [left: Nat, no: Nat, whole: BOOLEAN]

ReactionsOK == MaxRows \in Nat /\ None \notin [user: Reactors \cup {None}, ip: IPs]

SignInOK == None \notin Nat

UrlsOK == \A map \in SUBSET Urls : map # None

EmbeddingOK == None \notin [text: Texts, task: Tasks]

\* An answer costs something, and the roll-up of a day precedes its pruning.
LedgerOK ==
    /\ IsFiniteSet(Questions)
    /\ Cap \in Nat \ {0} /\ MaxDay \in Nat /\ MaxAnswers \in Nat
    /\ Retention \in Nat /\ Retention >= 2

LimitOK ==
    /\ MaxAllowed \in Nat /\ MaxTicks \in Nat /\ WindowTicks \in Nat \ {0}
    /\ None \notin Nat /\ Done \notin Nat /\ None # Done

MarketOK ==
    /\ {Short, Long, Day} \subseteq Nat \ {0} /\ MaxMinutes \in Nat /\ MaxCalls \in Nat
    /\ Forced \subseteq Pages
    /\ Pages \cap {"indices", "lastGood", "stocks", "prices"} = {}
    /\ None \notin [born: Nat, left: Nat]
    /\ None \notin Pages \cup {"indices", "lastGood", "stocks", "prices"}

MessagesOK ==
    NumLatest \in Nat /\ None \notin [at: {"asked", "read"}, no: Nat, texts: Seq(Nat)]

\* Ids are numbers, of which there are finitely many.
SearchOK ==
    /\ Posts \subseteq Nat /\ IsFiniteSet(Posts)
    /\ Depth \in Nat /\ SearchLimit \in Nat /\ MaxNear \in Nat
    /\ None \notin Seq(Posts)

ChunkerOK == MaxChunkSize \in Nat \ {0} /\ {Overlap, MaxLength, MaxParts} \subseteq Nat

\* Keys are numbers from 1.
CopyOK ==
    /\ Ids \subseteq Nat \ {0} /\ IsFiniteSet(Ids) /\ CopyBatch \in Nat \ {0}
    /\ None \notin {"dated", "plain", "pairs"}
    /\ None \notin [added: Nat, at: Nat, change: Nat]
    /\ None \notin [mode: {"full", "delta"}, since: Nat, start: Nat, lastSeen: Nat, offset: Nat,
                    rows: [Ids -> [added: Nat, at: Nat, change: Nat] \cup {None}]]

\* Bounds are numbers.
BoundsOK ==
    {MaxRestarts, MaxBanTexts, MaxBans, MaxTexts, MaxFaults, MaxInput, MaxEmbeds, MaxSignIns,
     MaxWork, MaxCopyTime, MaxChanges, MaxRuns} \subseteq Nat

ASSUME ServicesOK ==
    /\ ChatUsersOK /\ ChatBansOK /\ MessagesOK /\ ReactionsOK /\ SignInOK /\ UrlsOK
    /\ EmbeddingOK /\ LedgerOK /\ LimitOK /\ MarketOK /\ CopyOK /\ SearchOK /\ ChunkerOK
    /\ BoundsOK

VARIABLES
    which,
    memory, stored, loading, loaded, sockets, idle, excused, restarts,
    bans, alarms, since, overlapped, said, harder,
    handler, rows, recent, loads, marks, notice, count,
    live, corpus, query,
    paragraphs, chunks,
    cached, texts, task, out, missing, short, calls,
    day, raw, daily, recorded, asking, started, unseen, ledgerFolded,
    clock, counters, asked, raised, passed, late,
    reactions, inserted, toggle, doubled,
    users, profiles, tokens, linking, request, signIns, account, met, unlinked, refused,
    service, known, saved, busy, call, work, cold, unsafe,
    minute, held, reader, began, newest,
    kind, source, target, sequence, now, changes, run, runs, first, covered

ChatU == INSTANCE ChatUsers
ChatB == INSTANCE ChatBans WITH MaxTexts <- MaxBanTexts
ChatM == INSTANCE ChatMessages
Search == INSTANCE RagSearch WITH Limit <- SearchLimit
Chunk == INSTANCE Chunker
Embed == INSTANCE Embedding WITH BatchSize <- EmbedBatch, MaxCalls <- MaxEmbeds
Ledger == INSTANCE AiLedger WITH Requests <- Questions
Limit == INSTANCE RateLimit WITH MaxTime <- MaxTicks
React == INSTANCE Reactions WITH People <- [user: Reactors \cup {None}, ip: IPs]
SignIn == INSTANCE KakaoSignIn WITH Requests <- Arrivals
Caches == INSTANCE UrlCaches
Market == INSTANCE MarketCache WITH MaxTime <- MaxMinutes
Copy == INSTANCE TableCopy WITH BatchSize <- CopyBatch, MaxTime <- MaxCopyTime

chatUserVars == <<memory, stored, loading, loaded, sockets, idle, excused, restarts>>
chatBanVars == <<bans, alarms, since, overlapped, said, harder>>
chatMessageVars == <<handler, rows, recent, loads, marks, notice, count>>
searchVars == <<live, corpus, query>>
chunkVars == <<paragraphs, chunks>>
embeddingVars == <<cached, texts, task, out, missing, short, calls>>
ledgerVars == <<day, raw, daily, recorded, asking, started, unseen, ledgerFolded>>
limitVars == <<clock, counters, asked, raised, passed, late>>
reactionVars == <<reactions, inserted, toggle, doubled>>
signInVars == <<users, profiles, tokens, linking, request, signIns, account, met, unlinked, refused>>
urlVars == <<service, known, saved, busy, call, work, cold, unsafe>>
marketVars == <<minute, held, reader, began, newest>>
copyVars == <<kind, source, target, sequence, now, changes, run, runs, first, covered>>

\* The variables of all services.
allVars == <<chatUserVars, chatBanVars, chatMessageVars, searchVars, chunkVars, embeddingVars,
             ledgerVars, limitVars, reactionVars, signInVars, urlVars, marketVars, copyVars>>

serviceVars == <<which, allVars>>

\* The services that are not taken stay as they are.
Rest ==
    /\ which' = which
    /\ which # "users" => UNCHANGED chatUserVars
    /\ which # "bans" => UNCHANGED chatBanVars
    /\ which # "messages" => UNCHANGED chatMessageVars
    /\ which # "search" => UNCHANGED searchVars
    /\ which # "chunker" => UNCHANGED chunkVars
    /\ which # "embedding" => UNCHANGED embeddingVars
    /\ which # "ledger" => UNCHANGED ledgerVars
    /\ which # "limit" => UNCHANGED limitVars
    /\ which # "reactions" => UNCHANGED reactionVars
    /\ which # "signin" => UNCHANGED signInVars
    /\ which # "caches" => UNCHANGED urlVars
    /\ which # "market" => UNCHANGED marketVars
    /\ which # "copy" => UNCHANGED copyVars

Services == {"users", "bans", "messages", "search", "chunker", "embedding", "ledger", "limit",
             "reactions", "signin", "caches", "market", "copy"}

Init ==
    /\ which = None
    /\ ChatU!Init
    /\ ChatB!Init
    /\ ChatM!Init
    /\ Search!Init
    /\ Chunk!Init
    /\ Embed!Init
    /\ Ledger!Init
    /\ Limit!Init
    /\ React!Init
    /\ SignIn!Init
    /\ Caches!Init
    /\ Market!Init
    /\ Copy!Init

Take(s) ==
    /\ which = None
    /\ which' = s
    /\ UNCHANGED allVars

Next ==
    \/ \E s \in Services : Take(s)
    \/ which = "users" /\ ChatU!Next /\ Rest
    \/ which = "bans" /\ ChatB!Next /\ Rest
    \/ which = "messages" /\ ChatM!Next /\ Rest
    \/ which = "search" /\ Search!Next /\ Rest
    \/ which = "chunker" /\ Chunk!Next /\ Rest
    \/ which = "embedding" /\ Embed!Next /\ Rest
    \/ which = "ledger" /\ Ledger!Next /\ Rest
    \/ which = "limit" /\ Limit!Next /\ Rest
    \/ which = "reactions" /\ React!Next /\ Rest
    \/ which = "signin" /\ SignIn!Next /\ Rest
    \/ which = "caches" /\ Caches!Next /\ Rest
    \/ which = "market" /\ Market!Next /\ Rest
    \/ which = "copy" /\ Copy!Next /\ Rest

Spec == Init /\ [][Next]_serviceVars
-----------------------------------------------------------------------------
(* Properties: those of the modules, where they are explained. *)

\* Every variable of every service has its type.
ServicesTypeOK ==
    /\ which \in Services \cup {None}
    /\ which = "users" => ChatU!TypeOK
    /\ which = "bans" => ChatB!TypeOK
    /\ which = "messages" => ChatM!TypeOK
    /\ which = "search" => Search!TypeOK
    /\ which = "embedding" => Embed!TypeOK
    /\ which = "ledger" => Ledger!TypeOK
    /\ which = "limit" => Limit!TypeOK
    /\ which = "reactions" => React!TypeOK
    /\ which = "signin" => SignIn!TypeOK
    /\ which = "caches" => Caches!TypeOK
    /\ which = "market" => Market!TypeOK
    /\ which = "copy" => Copy!TypeOK

\* Whoever is connected to the chat is known to it (ChatUsers).
ConnectedAreKnown == ChatU!ConnectedAreKnown

\* What is stored of a chat user, no one else's step takes away (ChatUsers).
UsersSurvive == ChatU!UsersSurvive

\* Texts of one address keep their distance (ChatBans).
TextsAreLimited == ChatB!TextsAreLimited

\* A ban lasts as long as it was set for (ChatBans).
BansLast == ChatB!BansLast

\* Newcomers are shown the newest messages (ChatMessages).
ShownIsNewest == ChatM!ShownIsNewest

\* A search answers by fused rank (RagSearch).
AnswerIsRanked == Search!AnswerIsRanked

\* Related posts are one per author (RagSearch).
OnePerAuthor == Search!OnePerAuthor

\* The chunks of a text carry all of it, in pieces of limited size (Chunker).
ChunksCoverText == Chunk!ChunksCoverText

\* Every vector is that of the text at its place (Embedding).
EmbedAligned == Embed!EmbedAligned

\* A day's answers are bounded by the cap and those under way (AiLedger).
AnswersBounded == Ledger!AnswersBounded

\* What a past day cost is remembered (AiLedger).
DaysRemembered == Ledger!DaysRemembered

\* A window lets no more than its limit through (RateLimit).
WindowHolds == Limit!WindowHolds

\* One reaction each (Reactions).
OneReaction == React!OneReaction

\* One account for an identity (KakaoSignIn).
OneAccount == SignIn!OneAccount

\* What the cache knows of a URL stays there (UrlCaches).
UrlsSurvive == Caches!UrlsSurvive

\* Indices are refused only after a day of failures (MarketCache).
IndicesStandIn == Market!IndicesStandIn

\* The copy of a table is exact up to the time it vouches for (TableCopy).
CopyIsExact == Copy!CopyIsExact
=============================================================================
