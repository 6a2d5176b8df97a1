------------------------------ MODULE RagSearch ------------------------------
(***************************************************************************)
(* The search of posts and the related posts (services/rag/search.ts,      *)
(* fusion.ts, keyword.ts, and search and related of services/post.ts): two *)
(* paths asked at once, either of which may fail, their fusion by rank,    *)
(* and the posts read afterwards, when some may have gone.                 *)
(*                                                                         *)
(* Abstractions.  A corpus is the chunks near enough to what is asked, in  *)
(* order of distance and by post, and the posts that contain its words;    *)
(* the boards are those asked for.  An id is a number, newer is larger.    *)
(* Contents and cosine scores are carried along by the code and left out.  *)
(***************************************************************************)
EXTENDS Naturals, Sequences, SequencesExt

CONSTANTS
    Posts,          \* ids, numbers
    Users, Names,   \* who wrote a post: userId and nickname, either absent
    Depth,          \* chunks and posts a query returns
    Limit,          \* posts an answer may have
    MaxNear,        \* bound: chunks near enough
    None

VARIABLES
    live,           \* posts that are not deleted
    corpus,         \* what there is to find
    query           \* the request and what its steps have brought

searchVars == <<live, corpus, query>>

RRF_K == 60

\* A multiple of 61 to 64: contributions of the first four ranks are integers.
Scale == 61 * 62 * 63 * 64

Upto(n, seq) == SubSeq(seq, 1, IF Len(seq) < n THEN Len(seq) ELSE n)

Alive(seq) ==
    FoldLeft(LAMBDA acc, p : IF p \in live THEN Append(acc, p) ELSE acc, <<>>, seq)

\* The members of S, one before another as `before' says.
InOrder(S, before(_, _)) ==
    CHOOSE seq \in [1..Cardinality(S) -> S] :
        \A i, j \in 1..Cardinality(S) : i < j => before(seq[i], seq[j])
-----------------------------------------------------------------------------
(* Queries. *)

\* vectorSearch and relatedSearch: by distance, chunks of living posts.
Nearest == Upto(Depth, Alive(corpus.near))

\* keyword.search: newest first.
Matches == Upto(Depth, InOrder(corpus.matching \cap live, LAMBDA p, q : p > q))

\* Variant: every chunk counts for its post.
EveryChunk(seq) == seq

\* The first chunk of every post (bestPerPost, seenPosts).
FirstOfEach(seq) ==
    FoldLeft(LAMBDA acc, p : IF p \in ToSet(acc) THEN acc ELSE Append(acc, p), <<>>, seq)

\* fuseRRF: what an item of one list adds to those seen so far.
Fused(acc, p, rank, source) ==
    LET more == Scale \div (RRF_K + rank)
        at == {i \in DOMAIN acc : acc[i].post = p}
    IN  IF at = {} THEN Append(acc, [post |-> p, score |-> more, sources |-> {source}])
        ELSE LET i == CHOOSE i \in at : TRUE IN
             IF source \in acc[i].sources THEN acc
             ELSE [acc EXCEPT ![i].score = @ + more, ![i].sources = @ \cup {source}]

FuseList(acc, list, source) ==
    FoldLeftDomain(LAMBDA a, i : Fused(a, list[i], i, source), acc, list)

\* The stable sort at the end of fuseRRF.
ByScore(acc) ==
    LET order == InOrder(DOMAIN acc, LAMBDA i, j :
            acc[i].score > acc[j].score \/ (acc[i].score = acc[j].score /\ i < j))
    IN  [i \in DOMAIN acc |-> acc[order[i]].post]

Ranked(vector, keyword) ==
    ByScore(FuseList(FuseList(<<>>, FirstOfEach(vector), 0), keyword, 1))

\* Variant: the nickname only counts where there is no user.
KeysByUser(p) ==
    LET a == corpus.author[p] IN IF a.user # None THEN {a.user} ELSE {a.name} \ {None}

\* authorKeysOf
AuthorKeys(p) == {corpus.author[p].user, corpus.author[p].name} \ {None}

\* related: by post, then by author, up to the limit.
Pick(acc, p) ==
    IF Len(acc) >= Limit \/ \E q \in ToSet(acc) : AuthorKeys(p) \cap AuthorKeys(q) # {}
    THEN acc ELSE Append(acc, p)

Picked(hits) == FoldLeft(Pick, <<>>, FirstOfEach(hits))
-----------------------------------------------------------------------------
(* Requests. *)

Waiting == [kind |-> "none", vector |-> None, keyword |-> None,
            retrieved |-> None, answer |-> None]

AskSearch ==
    /\ query = Waiting
    /\ \E near \in SeqOf(Posts, MaxNear), matching \in SUBSET Posts :
          corpus' = [near |-> near, matching |-> matching, author |-> None]
    /\ query' = [Waiting EXCEPT !.kind = "search"]
    /\ UNCHANGED live

AskRelated ==
    /\ query = Waiting
    /\ \E near \in SeqOf(Posts, MaxNear),
          author \in [Posts -> [user: Users \cup {None}, name: Names \cup {None}]] :
          corpus' = [near |-> near, matching |-> {}, author |-> author]
    /\ query' = [Waiting EXCEPT !.kind = "related"]
    /\ UNCHANGED live

\* The vector path: no vector, a failed query, or its hits.
VectorAnswers ==
    /\ query.kind = "search"
    /\ query.vector = None
    /\ \E hits \in {<<>>, Nearest} : query' = [query EXCEPT !.vector = hits]
    /\ UNCHANGED <<live, corpus>>

KeywordAnswers ==
    /\ query.kind = "search"
    /\ query.keyword = None
    /\ \E hits \in {<<>>, Matches} : query' = [query EXCEPT !.keyword = hits]
    /\ UNCHANGED <<live, corpus>>

\* Both have answered: Promise.all goes on.
Retrieve ==
    /\ query.retrieved = None
    /\ query.vector # None
    /\ query.keyword # None
    /\ query' = [query EXCEPT
           !.retrieved = Upto(Limit, Ranked(query.vector, query.keyword))]
    /\ UNCHANGED <<live, corpus>>

\* sourceVector and relatedSearch; the post may not be indexed.
RetrieveRelated ==
    /\ query.kind = "related"
    /\ query.retrieved = None
    /\ \E hits \in {<<>>, Nearest} :
          query' = [query EXCEPT !.vector = hits, !.retrieved = Picked(hits)]
    /\ UNCHANGED <<live, corpus>>

\* The posts are read: the answer keeps the order, without those that have gone.
Answer ==
    /\ query.retrieved # None
    /\ query.answer = None
    /\ query' = [query EXCEPT !.answer = Alive(query.retrieved)]
    /\ UNCHANGED <<live, corpus>>

Die(p) ==
    /\ query.answer = None
    /\ p \in live
    /\ live' = live \ {p}
    /\ UNCHANGED <<corpus, query>>
-----------------------------------------------------------------------------
Init ==
    /\ live = Posts
    /\ corpus = [near |-> <<>>, matching |-> {}, author |-> None]
    /\ query = Waiting

Next ==
    \/ AskSearch \/ AskRelated
    \/ VectorAnswers \/ KeywordAnswers \/ Retrieve \/ RetrieveRelated
    \/ Answer
    \/ \E p \in Posts : Die(p)

Spec == Init /\ [][Next]_searchVars
-----------------------------------------------------------------------------
(* Properties. *)

Lists == Seq(Posts) \cup {None}

\* Every variable has its type.
TypeOK ==
    /\ live \subseteq Posts
    /\ corpus.near \in Seq(Posts) /\ corpus.matching \subseteq Posts
    /\ query \in [kind: {"none", "search", "related"}, vector: Lists, keyword: Lists,
                    retrieved: Lists, answer: Lists]

\* Posts found by a path no later than p: the rank of p in it.
Rank(p, list) ==
    LET first == CHOOSE i \in DOMAIN list : list[i] = p /\ \A j \in 1..(i - 1) : list[j] # p
    IN  Cardinality(ToSet(SubSeq(list, 1, first)))

Score(p, list) == IF p \in ToSet(list) THEN Scale \div (RRF_K + Rank(p, list)) ELSE 0

\* Reciprocal rank fusion as it is defined, ties to the vector path.
Before(p, q) ==
    LET v == query.vector
        k == query.keyword
        scoreOf(x) == Score(x, v) + Score(x, k)
        turn(x) == IF x \in ToSet(v) THEN Rank(x, v) ELSE Len(v) + Rank(x, k)
    IN  scoreOf(p) > scoreOf(q) \/ (scoreOf(p) = scoreOf(q) /\ turn(p) < turn(q))

\* An answer lists the posts its paths found by their fused rank, each once;
\* one that is missing has gone, or Limit better ones were found.  A path that
\* fails takes nothing of the other's away.
AnswerIsRanked ==
    query.kind = "search" /\ query.answer # None =>
        LET found == ToSet(query.vector) \cup ToSet(query.keyword)
            answer == query.answer
        IN  /\ ToSet(answer) \subseteq found
            /\ \A i, j \in DOMAIN answer : i < j => Before(answer[i], answer[j])
            /\ \A p \in found \ ToSet(answer) :
                   p \notin live \/ Cardinality({q \in found : Before(q, p)}) >= Limit

\* Related posts: no two by one author, by user or by nickname, and a
\* neighbour is left out only for a nearer one of its author, for the limit, or
\* because it has gone.
OnePerAuthor ==
    query.kind = "related" /\ query.answer # None =>
        LET shown == ToSet(query.retrieved)
            hits == query.vector
            same(p, q) == AuthorKeys(p) \cap AuthorKeys(q) # {}
        IN  /\ \A p, q \in shown : p # q =>
                   {corpus.author[p].user, corpus.author[p].name} \cap
                   {corpus.author[q].user, corpus.author[q].name} \subseteq {None}
            /\ ToSet(query.answer) = shown \cap live
            /\ \A p \in ToSet(hits) \ shown :
                   \/ Len(query.retrieved) = Limit
                   \/ \E q \in shown : same(p, q) /\ Rank(q, hits) < Rank(p, hits)
=============================================================================
