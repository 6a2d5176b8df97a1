------------------------------ MODULE UrlCaches ------------------------------
(***************************************************************************)
(* What is known of URLs: crawled pages (services/helper.ts), and images   *)
(* moderated or searched for text (services/aws/rekognition.ts).  Each     *)
(* service keeps one map in memory, replaces it by the cache's before it   *)
(* looks a URL up, and writes the whole of it back when it has an answer.  *)
(*                                                                         *)
(* The three are alike and never meet: a behaviour has one of them.  An    *)
(* entry is there or not: none ever expires, as its time is compared with  *)
(* itself.  Commands reach the cache server in the order they are sent.    *)
(***************************************************************************)
EXTENDS Naturals

CONSTANTS
    Urls,
    Calls,          \* requests under way at once
    MaxWork,        \* bound: requests for a page or an image, and restarts
    None

VARIABLES
    service,        \* "crawled", "moderated", "detected", or None yet
    known,          \* the map in memory, None for null
    saved,          \* the map in the cache, None before the first write
    busy,           \* crawlingUrls, moderationTestingUrls
    call,           \* by request: its URL, and the map its read will bring
    work,           \* counts up to MaxWork
    cold,           \* since the process began, the cache was not read or written
    unsafe          \* URLs saved while a read was under way, removed, forgotten
                    \* by a second crawl, or wiped out by a cold removal

urlVars == <<service, known, saved, busy, call, work, cold, unsafe>>

Quiet == [at |-> "none", url |-> None, brings |-> None]

Map(m) == IF m = None THEN {} ELSE m

Reading == {c \in Calls : call[c].at \in {"reading", "listing"}}

Free(url) == url \notin busy

Begin(s) ==
    /\ service = None
    /\ service' = s
    /\ UNCHANGED <<known, saved, busy, call, work, cold, unsafe>>
-----------------------------------------------------------------------------
\* crawl, or create: the cache is asked.
Ask(c, url) ==
    /\ service # None
    /\ call[c] = Quiet
    /\ work < MaxWork
    /\ work' = work + 1
    /\ call' = [call EXCEPT ![c] = [at |-> "reading", url |-> url, brings |-> Map(saved)]]
    /\ UNCHANGED <<service, known, saved, busy, cold, unsafe>>

\* It answers: the map is replaced, whatever was put into it meanwhile; a URL
\* that is found or under way is answered at once.
Find(c) ==
    LET url == call[c].url IN
    /\ call[c].at = "reading"
    /\ known' = call[c].brings
    /\ cold' = FALSE
    /\ IF url \notin known' /\ Free(url)
       THEN /\ busy' = busy \cup {url}
            /\ call' = [call EXCEPT ![c] = [at |-> "working", url |-> url, brings |-> None]]
       ELSE /\ call' = [call EXCEPT ![c] = Quiet]
            /\ UNCHANGED busy
    /\ UNCHANGED <<service, saved, work, unsafe>>

\* The URL is no longer under way; but a crawl removes it from the map first,
\* and when that is null fails there, and the URL stays under way for good.
Frees(url) ==
    busy' = IF service = "crawled" /\ known = None THEN busy ELSE busy \ {url}

\* Variant: the answer is written to the map the request read.
WrittenAlone(url) == {url}

Written(url) == known \cup {url}

\* The page or image has come; the map is null after all() read an empty cache,
\* and then nothing is saved.
Answered(c) ==
    LET url == call[c].url IN
    /\ call[c].at = "working"
    /\ Frees(url)
    /\ IF known = None
       THEN UNCHANGED <<known, saved, unsafe>>
       ELSE /\ known' = Written(url)
            /\ saved' = known'
            /\ unsafe' = IF Reading = {} THEN unsafe \ {url} ELSE unsafe \cup {url}
    /\ call' = [call EXCEPT ![c] = Quiet]
    /\ UNCHANGED <<service, work, cold>>

\* It has not: a crawl forgets the URL.
Fails(c) ==
    LET url == call[c].url IN
    /\ call[c].at = "working"
    /\ Frees(url)
    /\ known' = IF service = "crawled" /\ known # None THEN known \ {url} ELSE known
    /\ unsafe' = unsafe \cup (Map(known) \ Map(known'))
    /\ call' = [call EXCEPT ![c] = Quiet]
    /\ UNCHANGED <<service, saved, work, cold>>

\* all: the map becomes the cache's, or null.
List(c) ==
    /\ service \in {"crawled", "moderated"}
    /\ call[c] = Quiet
    /\ call' = [call EXCEPT ![c] = [at |-> "listing", url |-> None, brings |-> saved]]
    /\ UNCHANGED <<service, known, saved, busy, work, cold, unsafe>>

Listed(c) ==
    /\ call[c].at = "listing"
    /\ known' = call[c].brings
    /\ cold' = FALSE
    /\ call' = [call EXCEPT ![c] = Quiet]
    /\ UNCHANGED <<service, saved, busy, work, unsafe>>

\* What a removal takes away: from the map in memory, which nobody reads anew
\* first.  A process that began with an empty one over a full cache writes that,
\* and everything known of any URL is gone.
Taken(left) == IF cold THEN Map(saved) \ left ELSE known \ left

\* What is left is written, and read back by all().
Keep(c, left) ==
    /\ call[c] = Quiet
    /\ known' = left
    /\ saved' = left
    /\ cold' = FALSE
    /\ unsafe' = unsafe \cup Taken(left)
    /\ call' = [call EXCEPT ![c] = [at |-> "listing", url |-> None, brings |-> left]]
    /\ UNCHANGED <<service, work>>

\* delete: a crawl of the URL goes on, but is no longer known to be under way.
Delete(c, url) ==
    /\ service \in {"crawled", "moderated"}
    /\ known # None
    /\ Keep(c, known \ {url})
    /\ busy' = IF service = "crawled" THEN busy \ {url} ELSE busy

\* deleteBulk: everything, or the images without labels.
DeleteBulk(c) ==
    /\ service = "moderated"
    /\ known # None
    /\ \E labelled \in SUBSET known : Keep(c, labelled)
    /\ UNCHANGED busy

\* The process begins again: its maps are empty and its requests are gone.  What
\* was sent to the cache is there.
Restart ==
    /\ service # None
    /\ work < MaxWork
    /\ work' = work + 1
    /\ known' = {} /\ busy' = {}
    /\ call' = [c \in Calls |-> Quiet]
    /\ cold' = TRUE /\ unsafe' = {}
    /\ UNCHANGED <<service, saved>>
-----------------------------------------------------------------------------
Init ==
    /\ service = None
    /\ known = {} /\ saved = None /\ busy = {}
    /\ call = [c \in Calls |-> Quiet]
    /\ work = 0 /\ cold = TRUE /\ unsafe = {}

Next ==
    \/ \E s \in {"crawled", "moderated", "detected"} : Begin(s)
    \/ \E c \in Calls :
          \/ Find(c) \/ Answered(c) \/ Fails(c) \/ List(c) \/ Listed(c) \/ DeleteBulk(c)
          \/ \E url \in Urls : Ask(c, url) \/ Delete(c, url)
    \/ Restart

Spec == Init /\ [][Next]_urlVars
-----------------------------------------------------------------------------
(* Properties. *)

\* Every variable has its type.
TypeOK ==
    /\ service \in {"crawled", "moderated", "detected", None}
    /\ \A m \in {known, saved} : m = None \/ m \subseteq Urls
    /\ busy \subseteq Urls
    /\ \A c \in Calls : call[c].at \in {"none", "reading", "listing", "working"}
    /\ work \in 0..MaxWork
    /\ cold \in BOOLEAN /\ unsafe \subseteq Urls

\* What the cache knows of a URL stays there, whatever is written of others and
\* however often the process begins again: unless it was removed, forgotten by a
\* second crawl of it that a removal let begin, or saved while somebody's read
\* was under way, whose older map is then written back over it.  A removal that
\* comes before anything was read since the process began removes all URLs, not
\* its own: a mistake of the code, told apart by cold.
KeptByOthers ==
    \A url \in Map(saved) : url \in Map(saved') \/ url \in unsafe \cup unsafe'

UrlsSurvive == [][KeptByOthers]_urlVars
=============================================================================
