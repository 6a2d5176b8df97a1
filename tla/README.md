# Formal models of coinsect-api

TLA+ modules of the parts of coinsect-api whose correctness depends on what happens
between two awaits, two locks, two processes or two machines, and of the algorithms whose
boundaries a test hardly reaches; TLC configurations that check them on small instances;
and theorems, checked by TLAPS, that hold for every instance. Paths below are paths of
this repository, under `src/`.

## 1. The system

A Node server (one pm2 process, one event loop) with PostgreSQL and a Redis cache, a Go
process that fans out Upbit's ticker, and a PC at the owner's home that takes screenshots
of livestreams. What keeps state, what operates on it, and what makes it right:

| Component | State | Operations | Correct when | Module |
|---|---|---|---|---|
| RAG indexer `services/rag/indexer.ts` | tables posts, embedding_jobs, post_chunks; lock field in the cache | enqueue, removeChunks (after a write), sweep and drain (cron, writes, backfill tool) | a settled row tells the truth about the chunks; nothing waits for ever; deleted posts leave the index; live ones are never emptied | `RagIndexer` |
| Capture queue `services/content/desktop_jobs.ts`, home PC `capture_desktop/index.js` | three cache hashes; the PC's loop and its `done` id | status, enqueue, poll, markCaptured; runOnce | to its users it is one queue: a job a streamer, oldest first, gone when done or too old; the users' quota holds | `DesktopJobs`, `CaptureQueue` |
| Position board `services/content/real_time_position.ts`, `position_reports.ts`, `position_model.ts` | board and inbox, one cache value each; module variable cachedPositions; Slack messages | all, desktopReport, set, create, delete, offline, approve, reject, select | only what somebody let through is on the board; users are told what is stored; no report silences others unseen; every lasting change is reported | `PositionBoard` |
| Upbit proxy `proxy_upbit/main.go` | clients, their subscriptions, the union, the connection, latest messages | connect, subscribe, leave, dial, lose, message, broadcast | Upbit is asked for the union of what clients want; the latest message arrives | `UpbitProxy` |
| Chat users `chat/store.ts`, `controllers.ts` | maps of users and settings, stored whole; connections | connect, close, ping, user updates, half-hourly removal, load | nobody's profile is lost to somebody else's step; who is connected is known | `ChatUsers` |
| Chat bans `chat/store.ts`, `message_handler.ts` | banned addresses and their timers | banIP, text | a ban lasts as long as it was set for; texts keep their distance | `ChatBans` |
| Chat messages `chat/message_handler.ts`, `helpers.ts`, `store.ts` | table messages; recentMessages | text, insert, load, hide, invalidate | newcomers see the newest messages, and none that is hidden | `ChatMessages` |
| RAG search `services/rag/{search,fusion,keyword}.ts` | none | search, related, fuse | answers are in order of fused rank, one a post, related posts one an author | `RagSearch` |
| Chunker, embeddings `services/rag/{chunker,embedding}.ts` | the cache of vectors | chunkText; embed, prune | chunks carry the whole text in pieces of limited size; every vector lands on its own text | `Chunker`, `Embedding` |
| AI usage `services/ai_usage.ts`, `services/post.ts` | ai_usage, ai_usage_daily | record, rollup, prune, aggregate; the daily limit | what a day cost is remembered; the limit is passed only by what could not be seen | `AiLedger` |
| Rate limit `core/rate_limit.ts`, `core/cache.ts` | counters of windows | incr, expire | a window lets no more than its limit through | `RateLimit` |
| Reactions `controllers/reaction_controller.ts` | table | toggle | one reaction a person | `Reactions` |
| Sign-in `controllers/auth_controller.ts` | auth_tokens, users, profiles | signInKakao | one account an identity | `KakaoSignIn` |
| URL caches `services/helper.ts`, `services/aws/rekognition.ts` | one map each, in memory and in the cache | crawl, moderate, detect text | what is known of a URL is not lost to another's write | `UrlCaches` |
| Market data `services/market_info.ts`, `dashboard.ts` | values with a time to live, and a reserve | get, refresh by cron | nothing too old is served; the reserve stands in | `MarketCache` |
| Table copy `tools/migrate/copy.mjs` | two databases | full copy, deltas, sequence | the copy is exact up to the time it vouches for | `TableCopy` |
| Wallets, whale alerts, price predictions, news, people, push, uploads, HTTP core, entities | see section 7 | | | - |

How they interact: request handlers write posts and, without waiting, call the indexer;
cron calls it too, without asking whether the last call has ended. The home PC polls the
capture queue and sends its screenshots to the board's desktopReport, which marks the
streamer captured in the queue. Slack's buttons call the board. Queue and board meet only in
that mark, so each is modelled with the other as its environment. An administrator's hiding of
messages and a reaction to one make the chat load its latest messages again. Search reads the
chunks the indexer wrote, of posts that may go before they are read. The Upbit proxy is a
process of its own and shares nothing with the rest.

What is hard here: every await is a place where other requests, crons and timers run;
cache values are read whole and written whole; errors of background calls are swallowed;
the server restarts with every deploy, and what it starts with it does not wait for; timers
outlive what they were set for; the home PC's polls get lost on either way; the Go
process takes four locks one after the other, never two at once. The list, each entry at
its line and with the properties that cover it, is under "hazards" in `PROJECT.json`.

## 2. Modules

A definition keeps the name of the function it stands for (`enqueue`, `pruneJobs`, `put`,
`pickPosition`); steps inside a handler are named for the query, cache call or lock they
end at. Some definitions come with a *variant*, a plausible mistake in the same place;
replacing the definition by its variant breaks a property, which shows that the
property watches that code. `PROJECT.json` "mutants" says which breaks which, "map" which
lines each definition stands for. Modules `MC...` give the constants their values.

### RagIndexer

Every query and cache call is one step. `pc[d]` is the await a drain stands at, `batch[d]`
the rows it selected (line 240), `run[d]` what runJob holds of the post it read (line 145);
both go stale while other steps run, which is the point. `request[w]` is the background part of a write
request: enqueue and a drain, or the two deletions of removeChunks. `lock` is the cache field;
"stale" stands for older than LOCK_STALE_MS. Timestamps are kept as the only thing the code
asks of them, how they compare with `posts.updated_at`. Faults are a failed query or
embedding, and the end of the process at any await.

`history` names the windows in which the code gives up the truth of a settled row: a
write between runJob's read and its last UPDATE (`raced`), a run that ended between the
first chunk stored and that UPDATE (`torn`), and a deletion that was undone before the index
had let go of the post (`restored`).

A deleted post can come back. An edit loads the post, awaits, and saves the whole entity
(post_controller.ts:138-167), so here it is two steps, `EditPost` and `SavePost`, and the second writes
back `deleted_at` as the first has read it; an administrator saves what the request says,
deletedAt included (`AdminSave`, admin_controller.ts:114-121). Either undoes a deletion whose removeChunks
may still be to come, and then runs on the live post; it is a hazard at post_controller.ts:167. The
order of created_at, rate limits of the write path, and failed rows from before the column failed_at are left
out. The comment at indexer.ts:160-161 says that views raise updated_at; entities/post.ts:81-88
raises the views by a statement that does not, and the model follows the code.

### DesktopJobs and CaptureQueue

`DesktopJobs` has the handlers and the home PC. Times are ages in ticks, a tick being
minutes; a handler's few cache calls take milliseconds, so no tick falls inside a handler.
`Path` lists the cache calls of each operation in order; commands issued together
(Promise.all) are one step. The queue survives restarts of the server, requests under way
do not. The home PC rests, asks, captures, reports; a poll may be lost on the way there or
on the way back (`GivesUp`), and the PC may restart. `SlowCaptures` says whether a capture
may outlast RUNNING_TTL.

`CaptureQueue` is what its users rely on: an object they meet at one moment each. A streamer
has one job at most; it enters by `Accept` of a request that was made for it, leaves by
`Done`, which the home PC must tell of a job it was given, or by `Drop` when too old;
`PutBack` returns what has been out too long; `Take` hands out the oldest that waits.
`DesktopJobs` refines it, with the mapping `jobs` to the queue, the requests that hold an id
but have not stored it to `asked`, and the ids that are on the way to, in or coming from the home
PC to `hands` (`Queue == INSTANCE CaptureQueue WITH ...`, property `DeskRefines`).

### PositionBoard

A step runs from the reply a handler waited for to its next await; the command it ends with
takes effect there, as one connection keeps the order of commands. `copy[h]` is the object
all() made for handler h, `latest` the handler whose object the module variable
cachedPositions points at: with two handlers the one may change its object and the other's be
stored. `told`, `allowed` and `orphans` are history: the headline users were last told, what
somebody let onto the board, and reports a restart caught before anyone was told of them.
`reportedAt` is the time in whole seconds (real_time_position.ts:27), and all that `find` goes by: `made`
lists the reports in their order, each in the second of the one before it or a later one
(`Seconds`), and the code cannot tell two of a streamer in one second apart. What such two say is `SameSecond`.
A position is its contract and its notional value. Left out: adding a streamer, the dashboard's
copy of the board, human reports the code throws away, and one reading that shows a contract twice.

### UpbitProxy

A step is what happens under one lock. Each client's goroutine merges the clients'
subscriptions one client at a time, stores the union, reads the connection and sends;
`connectToUpbit` dials, publishes the connection and sends too; the broadcaster swaps
latestData and goes through the clients. `clientsMu` is held for reading over whole loops,
so connecting and leaving wait for them. `asked` is what Upbit was last asked for on the
connection there is; `overlapped` records whether two merges have ever overlapped.

### The chat: ChatUsers, ChatBans, ChatMessages

Three modules, as the three parts of the chat's state meet nowhere but in a handler that reads
one and then writes another. `ChatUsers` keeps the maps of users and of settings, in memory and as stored; every
change stores a whole map (refreshUserState). A start begins with empty maps and two loads
nobody waits for, whose answers replace whatever has been put there since; the properties
excuse exactly those who came before the answer (`excused`). `ChatBans` keeps one ban per
address and every timer ever set, each of which ends whichever ban the address has when it
rings; `overlapped` names the addresses that had two. A delay above 2^31-1 ms rings
at once. `ChatMessages` has a text stand at the check of its image and at its insert, and the
reload of the latest messages, which is asked by several and answered in any order, stand at its query.

### Search, chunks, vectors: RagSearch, Chunker, Embedding

`RagSearch` picks any small corpus, asks for it along both paths, lets either fail and posts
be deleted at any moment, and compares the answer with a definition of fused rank that is
written without the loops (scores are scaled to integers: 1/(60 + r) over a common
multiple). `Chunker` picks any short text and cuts it; the reference is that the chunks,
overlaps removed, spell the text. `Embedding` lets cache reads and writes fail, wholly or
in part, and batches come back short.

### Requests that read, wait and write: AiLedger, RateLimit, Reactions, KakaoSignIn, UrlCaches, MarketCache

Each has a handler stand where the code awaits, holding what it has read. Where the code is
exact only for requests that do not meet, a history variable says which met, and the property
speaks of the rest: `doubled` in Reactions, `met` and `unlinked` in KakaoSignIn (`met` only by sign-ins
that overlap while the identity has no account yet), `late` in
RateLimit (a request that reaches its window's counter two windows late), `unseen` in
AiLedger (answers whose cost no sum will hold), `unsafe` in UrlCaches. There the process may begin again
at any moment, with an empty map over a full cache; `cold` says that it has and that nothing was read or
written since, which is when a removal wipes the cache (section 4).

### TableCopy

Source and target by id, a row being when it was added, when changed and by which change.
A full copy pages through the source while that changes; a delta takes what has changed since
a time the operator gives. `covered` is the time up to which the operator may believe the copy, provided that
he starts each delta no later than the run before it began. Tables without updated_at and
tables with a composite key take the branches the tool gives them.

### Services

Puts the thirteen services side by side: they share only the process. The first step takes
one and from there it runs alone, so the states are those of the services added up, not multiplied. This
leaves out nothing a property could see, since no service reads another's variables. The constants
are those of the thirteen modules; what the theorems ask of them is `ServicesOK`, which TLC evaluates
for the values of Services.cfg. `MCServices` only adds the module TLC.

## 3. Runs

| Run | Checks | Bounds |
|---|---|---|
| `rag_sole` | types; a settled row tells the truth (`SettledIsIndexed`); a pending row will be taken (`PendingIsDue`); given-up rows stay given up (`FailedStaysFailed`); a wanted post is in the end indexed at its present text, given up, wanted no longer, or a write raced with the run that settled it (`PostsAreSettled`); deleted ones leave for good (`DeletedLeavesIndex`) | one drain at a time, 1 post of an indexed board, 2 texts (of 1 and 2 chunks), 1 writer, 2 writes, 1 fault, MAX_ATTEMPTS 2; fairness |
| `rag_overlap` | no step empties the index of a live post (`LiveKeepsChunks`) | two drains that both believe they hold the lock, 2 writes, no fault, MAX_ATTEMPTS 1 |
| `rag_edit_lost` | *violated*: the sweep catches what the write path missed | 2 boards (one indexed), 2 writes, no fault |
| `desk_alone` | requests that do not overlap implement the abstract queue (`DeskRefines`); the quota holds | 2 streamers, 2 jobs, 1 restart, 1 fault at home, slow captures, quota 1 |
| `desk_overlap` | two requests at a time: done jobs do not return, one job out | 2 streamers, 2 jobs, no faults |
| `desk_live` | every job leaves the queue | 1 streamer, 2 jobs, 1 restart, any number of lost polls and restarts of the PC |
| `desk_lost` | *violated*: an accepted job stays | two requests, 1 streamer |
| `board_sole` | only approved positions but for reports of one second, told is stored, reports are shown, changes are reported | requests that do not overlap, 1 streamer, 3 readings (none, two contracts, a larger one alone), 2 edits or clicks, 1 fault, 1 change on screen |
| `board_lost` | *violated*: what is told is stored | two requests, 1 edit |
| `upbit` | Upbit is asked for the union as stored; the union is right unless merges overlapped; the latest message arrives | 2 clients, 2 streams, 2 subscriptions or departures, any number of connects, 2 messages or losses of the connection |
| `upbit_union` | *violated*: the union is that of all connected clients | 2 clients, 1 stream |
| `services` | the thirteen services, below | below |

| Service in `services` | Property | Bounds |
|---|---|---|
| ChatUsers | `UsersSurvive`, `ConnectedAreKnown` | 2 tokens, 1 connection, 1 restart, loads that fail or answer late |
| ChatBans | `TextsAreLimited`, `BansLast` | 2 addresses, the pause after a text 1 tick, an administrator's bans of 2 and 4 ticks of which a timer takes 3, 4 texts, 2 bans or restarts |
| ChatMessages | `ShownIsNewest` | 2 texts at once, 2 loads at once, 1 latest message shown, 1 fault |
| RagSearch | `AnswerIsRanked`, `OnePerAuthor` | 3 posts, 1 user and 1 nickname (or none), 3 chunks found, answers of 2 |
| Chunker | `ChunksCoverText` | chunks of 4, overlap of 2, sentences up to 5, 2 sentences a paragraph, 2 paragraphs |
| Embedding | `EmbedAligned` | 3 texts, both tasks, batches of 2, calls of 3 texts with repeats, 2 calls |
| AiLedger | `AnswersBounded`, `DaysRemembered` | 2 requests at once, a limit of 1, 3 days, records kept for 2, 3 answers |
| RateLimit | `WindowHolds` | 3 requests, a limit of 1, windows of 2 ticks, 5 ticks |
| Reactions | `OneReaction` | 2 toggles at once, 3 rows, a user and strangers at 2 addresses |
| KakaoSignIn | `OneAccount` | 2 sign-ins at once, 3 in all, first or later |
| UrlCaches | `UrlsSurvive` | 2 URLs, 2 calls at once, 3 calls or restarts in all; removals without bound |
| MarketCache | `IndicesStandIn` | 2 requests at once, 3 pages, times to live of 1, 2 and 3 minutes, 4 minutes, 3 requests to sites |
| TableCopy | `CopyIsExact` | 2 rows, pages of 1, 3 times, 3 changes, 2 runs |

Why these are enough. A post's row, chunks and runs touch no other post's except through the
order of a batch, so one post meets every order of create, edit, delete, undone deletion and re-enqueue
against one run, and two texts of different length are what the tail
deletion can get wrong; more attempts than 2 repeat the same step. A post that moves to a board that is not
indexed is no longer wanted, like one that is deleted; two boards are in `rag_edit_lost`. Two writes are a write and
what is done to it, by an edit that has read the post before the other comes; that a post is deleted
and comes back while a drain works on it takes no more. (`rag_sole` goes through 400 thousand states,
`rag_overlap` 3.3 million.) The queue's handlers go by what they read of a
whole hash, so a second streamer matters (one is being pruned or claimed while the other is
queued) and a third adds nothing new. On the board the interesting cases are an old message with a newer
report, of the same second or not, a report rejected and read again, and a misreading: each takes at most two clicks and
one change (1.2 million states). Readings of more positions than a Slack message holds are not
among these: there `OnlyApproved` fails (section 5). In the proxy two clients are enough
to overlap two merges, and two changes let both change what they want or one change and go; without any
bound on changes, where TLC can still check the invariants (6.7 million states), they hold
too. In the services, two requests at once are what it takes for one to write over what the other
read, a third to start after both; the limits are one so that they are reached; the
times are the smallest that are all different, and a text's pieces range over everything below, at and
above the size of a chunk.

Deadlock is not checked for `upbit`, `upbit_union` and `services`: once the bounded changes
and requests are used up and everything has been handed out, the process really rests. The
other models never rest: cron, polls and reads go on.

### Fairness

- `rag_sole`: each drain goes on to its next await (weak: an event loop serves every
  promise), sweep and the drain of cron come again every five minutes, and a lock that is
  not released goes stale. Faults and writes are bounded, so eventually they stop.
- `desk_live`: a handler's cache calls are answered (weak); the home PC's loop and the clock
  go on (strong: requests that keep arriving interrupt neither for good). The number of lost
  polls is not bounded.
- `board_sole`: what a handler awaits comes (weak); the home PC looks at every live stream
  again and again (strong, its loop in capture_desktop/index.js is a timer that never ends).
- `upbit`: every goroutine goes on (weak), and a dial succeeds in the end. Clients owe nothing.
- `services` assumes none; its properties are of safety.

## 4. What the code does not do

Four runs end in a counterexample to something the repository says of itself. All are
entries under "findings".

- **An edit is lost** (`rag_edit_lost`). A write between runJob's read and its last UPDATE is
  stamped as indexed: `indexed_at` is taken after the read, so the sweep, which compares it with
  `updated_at`, never sees the edit, although the comment says that the sweep catches whatever the
  write path misses. (When the write's own enqueue fails or is overtaken.)
- **An accepted job vanishes** (`desk_lost`). Two requests read the queue; what one of them has
  inserted since is deleted by the other, which goes by the expired job it read. This is why
  `DeskRefines` is checked and proved for requests that do not overlap: the abstract queue never loses a job.
- **Users are told of a change that is not stored** (`board_lost`). A read of the board while an
  approval waits for the inbox replaces cachedPositions, and commit stores the replacement.
- **A client's streams are lost** (`upbit_union`). Two overlapping merges store in the wrong order;
  the loss lasts until some client changes its subscriptions or leaves.

Seen on the way and not kept as runs; the modules still contain the steps that lead there.

Indexer, queue, board, proxy:

- `OneDrainAtATime` (RagIndexer): the lock is taken by three cache calls and, once stale, can be taken
  over from a drain that is only slow, so two drains can hold it, which tests/rag_indexer.test.ts denies.
- `ChunksFollowBoard`: a post that moves between indexed boards keeps its chunks on the old one,
  since an unchanged text hash skips the rewrite.
- `RecordIsTrue`: a run that died half way leaves chunks of two texts under a row that is settled.
- An edit that has read a post before it is deleted, or an administrator's save, brings the post back
  (post_controller.ts:167). Its removeChunks may run after that: the row is gone, or says done, and the live post
  has no chunks until the next sweep finds it. `SettledIsIndexed` and `LiveKeepsChunks` fail unless these are told
  apart; `PostsAreSettled` holds of such posts too.
- Overlapping drains can leave a pending row with no attempts left, which nobody selects again;
  attempts are not reset by success; a post that kills the process never uses an attempt up.
- A status request may write back a job that has been done since; poll deletes by streamer after
  looking up by id (desktop_jobs.ts:239-243); two requests may exceed the hourly quota by one, and
  what is counted is streamers, not jobs.
- Two reports of a streamer within one second are one to `find`: the button of the older message
  approves the newer, unseen.
- A checkbox of an old Slack message changes the selection of the newer report; positions cut off by
  SLACK_OPTION_LIMIT are approved unseen; desktopReport writes back the whole board it read and
  revives a streamer deleted meanwhile; a restart between put and notify leaves a report nobody saw.
- A client of the proxy that stops reading blocks the broadcaster while it holds clientsMu.

Chat:

- The timer of a short ban ends a longer one of the same address (chat/store.ts:157): the half-second
  pause after a text lifts an administrator's ban. A delay above 2^31-1 ms fires at once.
- Users who connect before the load at start has answered are dropped when it answers
  (chat/store.ts:124). The text of a user the map does not know is stored, but its broadcast throws
  (chat/helpers.ts:47-48), so nobody sees it before the next load.
- A load of the latest messages that is overtaken by a later one puts the older list back.

Services:

- Two toggles of one reaction at once leave two rows, or none.
- Two sign-ins that meet before an identity has an account may make two. `profiles.user_id` and `auth_tokens.user_id` are unique
  (schema/001_baseline.sql:51,63) and the link of token and user is saved without waiting
  (auth_controller.ts:90): once that is lost, every later sign-in of that person is refused.
- The cost limit of a day is passed by the requests that are under way at once.
- After a start with an empty cache the map of crawled pages is null; the first crawl's `finally`
  throws and its URL stays "crawling" (services/helper.ts:14,57). What is crawled never expires:
  crawledAt is compared with itself plus an hour (services/helper.ts:27).
- After a restart the maps of crawled and of moderated URLs are empty while the cache is full. A removal
  writes the map without reading the cache (services/helper.ts:69-72, services/aws/rekognition.ts:42-58): if it
  is the first thing the process does with the cache, everything known of all URLs is gone.
- The comment at services/rag/chunker.ts:61-62 promises chunks of controlled size; one sentence longer than
  the limit that is followed by another is pushed whole (line 56).
- A full copy that is run again keeps the rows of its first attempt (ON CONFLICT DO NOTHING), so the delta
  after it must start at the time of the first attempt. Edits of tables without updated_at are never carried.

## 5. Proofs

All are about the specification of the module they extend, for every value of its
constants that satisfies the assumptions named here and in the module.

| Module | Theorem | Says | Assumes |
|---|---|---|---|
| `RagIndexerProofs` | `TypeCorrect` | types, and what a drain holds is consistent | - |
| | `PendingRowsAreDue` | a pending row has attempts left and will be selected | one drain at a time |
| | `GivenUpIsFinal` | a failed row costs nothing until its post is written | one drain at a time |
| | `IndexNeverEmptied` | no step empties the index of a live post, however many drains overlap, unless the post came back from its deletion before its removal was over | every text makes at least one chunk |
| | `SettledPostsAreIndexed` | what search finds of a settled post is its present text, but for the windows in `history` | one drain at a time |
| `DesktopJobsProofs` | `TypesHold` | types | None is not a number or a streamer (`DesktopConstantsOK`) |
| | `DeskImplementsQueue` | the handlers' cache calls and the home PC implement `CaptureQueue` | one request at a time |
| | `QuotaIsKept` | users' streamers of an hour stay within the limit | one request at a time, finitely many streamers |
| | `FinishedStaysGone` | what was told to be done is not queued again | one request at a time |
| | `OneIsOut` | one job is at the home PC at a time, however many requests overlap | captures are quick and no answer to the PC is lost (`Undisturbed`) |
| | `DoneStaysGone` | what was told to be done is not queued again, however many requests overlap | `Undisturbed` |
| `PositionBoardProofs` | `BoardTyping` | types | - |
| | `NothingUnapproved` | the board shows only what somebody approved or entered, however many requests overlap, fail or restart, but for what two reports of a streamer in one second say | every reading fits a Slack message (`EveryReadingFits`) |
| | `ToldStored` | what users were told is what the cache holds | one request at a time |
| | `ReportsShown` | whoever waits for a decision has a message to decide with | one request at a time |
| `UpbitProxyProofs` | `ProxyTypes` | types | - |
| | `UpbitIsAsked` | once nobody is on the way to it, Upbit has been asked for globalSubs as it is | - |
| | `UnionIsRight` | the union is what clients want unless two merges have overlapped | - |
| `ChatSearchProofs` | `ConnectedUsersKnown`, `StoredUsersStay` | whoever is connected is known; nobody else takes away what is stored of a user | |
| | `TextsKeepApart`, `BansEndOnTime` | texts of an address are apart, bans last, but for overlapping bans | an alarm can wait for the pause (`Frequency <= MaxDelay`) |
| | `NewestIsShown` | once all is quiet the newest visible messages are shown | |
| | `AnswersRanked` | an answer is in the order of fused rank, as that is defined without loops; a post found is missing only if it has gone or the limit's many better ones were found | posts are numbered, finitely many |
| | `AuthorsApart` | no two related posts are of one account or nickname; a neighbour gives way only to a nearer one of its author, to the limit, or because it has gone | as there |
| `ServicesProofs` | `VectorsAlign` | every vector is that of the text at its place | |
| | `WindowsHold` | no more than the limit of a window's requests passes, but for those a window late | a window has some length |
| | `OneReactionEach` | one reaction of a person, unless toggles met | |
| | `OneAccountEach` | one account of an identity, and no refusal but for a lost or late link, however later sign-ins overlap, unless two met before it had an account | |
| | `UrlsStay` | what the cache knows of a URL stays, however often the process restarts, but for the ways `unsafe` records, a removal right after a restart among them | |
| | `CopiesAreExact` | the copy is exact up to the covered time, and its sequence past its ids | ids are positive numbers, finitely many |
| | `ReserveStandsIn` | the indices are refused only after a day without an answer; what is served is young enough, or the newest there is | positive times to live; no order among them |
| | `AnswersKeepToCap` | a day's answers pass the limit by no more than the requests under way and the calls no sum held | a positive limit, finitely many requests at once |
| | `CostsAreRemembered` | what was rolled up on the day after stays exact, and is not pruned before | records are kept for two days at least (the code keeps them for 90) |
| `ChunkerProofs` | `TextIsCovered` | the chunks of a text, overlaps removed, hold all its characters in their order; none is empty, or too long but for one of several sentences, and each overlap is the end of the chunk before | a chunk has some length |
| `ServicesTypes` | `TypesOfServices` | every variable of every service has its type | finitely many questions and keys, as above |

`ChatSearchProofs` extends `Services`, `ServicesProofs` and `ChunkerProofs` extend that, and `ServicesTypes` extends
`ServicesProofs`. All four assume `ServicesOK`; beyond what the table names it says
only that the bounds are numbers and that None and Done are none of the values they stand apart from.

`SoleDrainer` is a condition on the constants (at most one drainer). It is what the lock is
for; that the lock does not ensure it is shown above, and `IndexNeverEmptied` does without. One request
at a time, likewise, is `Handlers = {h}`; nothing in the server ensures it (`desk_lost`), so these
theorems say what the queue's code is right about apart from the overlap. Lost polls, restarts of
either machine and slow captures are all in them. `OneIsOut` and `DoneStaysGone` are about the overlap,
and there TLC shows what they need: a lost answer to `poll`, or a capture slower than the lease, lets a second
job out, and a status request that has read the job before can then store it again.

`EveryReadingFits` is the code's limit of ten boxes (position_reports.ts:41, 180): beyond it a position that no box
shows is approved unseen, which TLC finds for a limit of one. `ToldStored` and `ReportsShown` fail once requests
overlap (`board_lost`); that nothing gets onto the board unapproved does not.

The arguments. No property is inductive as it stands.

- *RagIndexer, types.* A step of runJob uses the post it reads from `run[d]`, so `DrainOK` says
  that inside runJob there is one, that its row is in the batch, and that rows in a batch had attempts left when
  they were selected.
- *Rows that wait.* For a single drain, `WaitInv`: a row held by the drain is still pending
  (`HeldIsPending`), and attempts run out only by being given up (`AttemptsLeft`) - the step that
  counts an attempt stores the count selected earlier plus one, so it must be known that nothing
  raised it meanwhile.
- *The index is not emptied.* `RefInv` says that nothing refers to a post before it is written
  and that only deleted posts are being removed (`ReferencesOK`), and `ChunkInv` that the chunks of a
  live post have a first one and that a run that has stored some finds them there
  (`FirstChunkStays`): then the trimming of the tail, which keeps what the run has stored, leaves something.
- *A settled row is true.* Two ways lead to "done". The long way stores the chunks one by one: `RunStores`
  says that below its position they are those of the text the run read, so that after the tail is
  cut they are all of it, and `RunIsCurrent` that this text is the post's unless a write came after.
  The short way compares hashes only: `RecordMatches` says that the chunks of an untorn row are those of the
  hash it records, `HeldIsRecorded` that the hash the drain selected is still the recorded one, and
  `RunBegins` that it equals what was read. `SettledIsRead` carries the outcome until the next write, which
  makes the row stale.
- *The queue.* `DeskTypes` ties the calls a handler has left to its operation, so that each call is known to
  have what it needs. `SoleInv`: the list a handler goes by when it writes is the queue as it is, or as
  it is but for what was just found too old (`ViewOK`); ids are one job's and not among the finished (`IdsOK`);
  the id about to be stored is not there yet (`AskedOK`). Each call is then a step of `CaptureQueue`: the deletion
  its `Drop`, the put-back its `PutBack`, hSetNX its `Accept`, the claim its `Take`; what only reads, or
  loses a request or an answer, is a stutter or `Lose`. `QuotaOK`: a user's request that was not
  refused found room, and nobody has taken it since.
- *Upbit is asked.* `AskingOK`: whoever last changed globalSubs is still on its way to Upbit, or the
  connection's own goroutine will send after it has published the connection (`LineOK` ties those
  goroutines to the connection there is). `UnionOK`: while merges have never overlapped there is one at
  a time, what it has gathered with what it has still to pass is the merge of all clients, and with
  none under way globalSubs is that merge.
- *The limit.* `LimitInv`: while a window's counter lives, it is at least the number of its requests that
  were let through (`Counted`), and it does not expire before two windows after the window's start
  (`KeyLasts`), so only a request that late can find it gone.
- *Stand-ins.* `MarketInv` says of every copy that its age and what is left of it make up its time to live
  (`AgesOK`), and that the reserve is the newest answer and is there for a day (`ReserveOK`).
- *The ledger.* `LedgerInv` counts: answers begun are at most those recorded, those being made and those
  no sum held (`Accounted`); a request that was let through saw the sum below the limit, and all that were
  let through since are still under way. A record is pruned only after the night that rolled its day up,
  since it is kept for two days at least.

- *Requests to the queue that overlap.* `BusyInv`: the home PC has one job at most in hand (`OneInHand`), there is
  one poll, the one it waits for, and until that hands a job out, nothing runs in what it has read
  (`PollSees`); the ids in what it read are one streamer's each and not done (`PollIds`). TLC finds `BusyInv`
  to hold of the 2.1 million states of the instance `desk_overlap` has.
- *The board.* That a user may approve only what a message shows takes the history of all reports: `made` is
  the list of them, each with its second. `Identified` says that a report in the inbox, in a handler or in a
  message is in that list with its second and its positions; so where `find` takes one report for another of its
  second, what is approved unseen is in `SameSecond`. `Approved` then carries
  the leave of whoever let a position on from the click through the handler's awaits to the board (`HasLeave`),
  where its own copy of the board may be old but has leave as well. For single requests,
  `SoleBoard` and `SoleInbox` say that what a handler read is still there (`BoardWaits`, `InboxWaits`).
- *Reactions.* `ReactInv`: toggles that could find each other's row are in `doubled` (`MeetingsKnown`), and where one
  that met nobody found no row there still is none (`StillNone`), so what it adds is the only one.
- *Sign-in.* As long as no two first sign-ins met there is one at a time until the identity has an account (`OneByOne`), and what
  any may rely on at each await is in `Relies`: a token that was not found is not there yet, and a profile is linked or about to be.
- *URL caches.* `Agrees`: a map - the one in memory, or one that a read will bring - holds what the cache
  holds and nothing else, but for the URLs in `unsafe`, once the process has read or written the cache
  (not `cold`). So writing it back takes nothing else away.
- *Vectors.* `EmbedInv`: what is cached under a key is the vector of that key, and the property itself; a place is
  filled from the answer of its own text, and that a batch's places are among the missing ones is all that is
  needed of batches.
- *A copy.* `CopyInv`. For keyset paging `PastIds`: of the ids the run is past it has the rows there were when it
  began, and of those it asks for the ones not changed since. For paging by offset `PastCount`: the rows
  with a rank below the offset are in; as rows are only added, a rank never falls (`RankInMore`), so no row slips from an
  unread page to a read one. `FreshIn`: a row that was not changed since the first run began is in the copy as it is,
  whichever attempt has read it, which is what a full run that keeps the rows of an earlier attempt needs.
- *Users of the chat.* `ChatUserInv`: a map that is loaded, or is still to come, carries what is stored of everybody
  not excused (`Carries`), and whoever is in a map before it was loaded is excused. Every other step only
  adds to a map what it then stores, or removes who is excused from then on (`Tended`).
- *Bans.* `BanInv`: an alarm rings no earlier than its ban ends (`AlarmOK`), and where no bans overlap none
  rings before the distance of two texts is kept, and until then there is a ban (`TextOK`).
- *Latest messages.* `MessageInv`: a text is inserted once (`TextsApart`), and unless something that will read again is
  under way or due (`Outdated`), what the last read has seen are the newest rows (`LastRead`).

- *Search.* `SearchInv` says of what a request holds where it came from: what it retrieved is the head of
  the fusion of its two paths (`Fused`), or chosen from the first hit of each post (`Firsts`, `Chosen`), and its
  answer is what lives of that (`Kept`). The lemmas before it say what the loops of the search return. `FirstPath`
  and `SecondPath` say that the entries fuseRRF accumulates have the score and the turn that the
  definition of fused rank gives, the rank of a post being the number of posts a path has found so far, whatever it
  repeats. A sort is a choice among enumerations of a finite set in the order asked for: that there is
  one, and that it has every element, is proved (`Sortable`, `SortedIsAll`).
- *Chunks.* `Holds` says that what has been pushed and what is being gathered hold exactly the characters said so
  far, in order, and that what was pushed fits. Every branch of the two loops - join, push and begin
  anew, cut by sentence, cut by length - adds to that what it has taken from the text, and in between
  nothing is too long but one whole sentence (`Gathering`). What a chunk repeats is the end of the one before.

- *Types.* Most follow from the invariants above and the bounds. Three things have to be counted. Rows of a sign-in
  are numbered by how many there are; for that to be a number of their own, and not past the sign-ins begun, each
  request that may still make one is counted with those made (`Numbered`), whether sign-ins meet or not. A copy's
  offset is at most the number of ids up to the last one seen, or of rows held (`CountedOK`), since a page
  lies past both. What is recorded of a day and under way is at most what was started that day and the requests
  there are (`LedgerTyped`): a call begun before midnight is recorded on the day after.

A step of `Services` is for each service one of its own or a stutter (`EachTakesItsOwnSteps`), so each
invariant of a service above is one of `Services`. Least and greatest elements - the first missing
place, the newest row, the last id of a page - are found by the library's theorem that every nonempty set of
numbers has a least one. Loops, which the modules write as folds of the
community library, need no more: were there an N up to which no function folds the numbers, there would be
a least one (`FoldExists`); so a fold is a chain of steps, and a statement about the chain that failed would fail at a
least place.

Only model-checked:

- Liveness, which the prover does not do: `PostsAreSettled` and `DeletedLeavesIndex` of the indexer, `JobsLeave` of the
  queue, `ChangeIsReported` of the board and `OneArrives` of the proxy, each under the fairness its module states.
  Every other property of the runs is proved.

## 6. Plan

1. RagIndexer and its first theorems; DesktopJobs; PositionBoard; UpbitProxy - done.
2. The chat: bans and their timers, loading against connecting, user updates, latest messages - done.
3. The small stateful parts, one module each, checked in one composed run - done.
4. Search, chunking and embedding against reference definitions - done.
5. Abstract specifications: the queue - done (`CaptureQueue`). Left: an index that simply follows the posts,
   which RagIndexer with one drain implements up to the two windows `history` names; a
   board of decisions for PositionBoard.
6. Theorems: those of section 5 - done. Left: the refinement of item 5.
7. Wallets, whale alerts and price predictions - left; see below.

## 7. Not modelled

- *Wallets, whale alerts* (`services/wallet.ts`, `services/onchain`). Crawls that write what they read. Worth
  a module is one thing: a changed balance is saved before Slack is told of it, so a message that fails is
  never sent again.
- *Price predictions*. Rows written once, by one query each, and deleted softly.
- *News, people, bad words, the activity counts of the dashboard*. Lists fetched or counted and returned.
- *Push messages, uploads, the moderation service itself*. Calls to others; what the code does with a
  failure is in the modules that make the call.
- *HTTP core, query_filter, ORM, entities*. Stateless translation of requests to queries. The constraints other
  modules rely on (unique columns, updated_at) are in their steps.
- *Distances of vectors, matching of words, text detection*. Computed by the database or a service;
  the models take any answer.
- *The merging of repeated readings of one screenshot* and other parsing of text: no state, and tested.
- *Two server processes*. pm2 runs one, and a deploy restarts it (.github/workflows/deploy.yml:134).

## 8. Running

    tlc -config RagSole.cfg MCRagIndexer
    tlc -config DeskAlone.cfg MCDesktopJobs
    tlc -config BoardSole.cfg MCPositionBoard
    tlc -config Upbit.cfg MCUpbitProxy
    tlc -config Services.cfg MCServices       # likewise the other cfg files
    tlapm RagIndexerProofs.tla                # likewise the other ...Proofs modules, ServicesTypes
