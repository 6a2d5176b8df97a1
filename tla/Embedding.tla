------------------------------ MODULE Embedding ------------------------------
(***************************************************************************)
(* The vectors of texts (services/rag/embedding.ts): the cache of vectors, *)
(* read and written without being trusted, the batches of what it misses,  *)
(* and the nightly removal of the rows of queries.                         *)
(*                                                                         *)
(* A vector is named by the text and the task it was made for.  A hash is  *)
(* its text.  Documents are cached in a table, queries for ten minutes in  *)
(* the cache server; either may fail, and a part of a write may be lost.   *)
(***************************************************************************)
EXTENDS Naturals, FiniteSets, SequencesExt

CONSTANTS
    Texts,          \* texts of chunks and queries
    Tasks,          \* RETRIEVAL_DOCUMENT and RETRIEVAL_QUERY
    BatchSize,      \* EMBED_BATCH_SIZE
    MaxInput,       \* bound: texts of a call
    MaxCalls,       \* bound: calls of embed
    None

VARIABLES
    cached,         \* the cache: which vector a key has
    texts,          \* the texts of the call under way
    task,           \* its task, or None
    out,            \* the vectors it has so far
    missing,        \* places in texts still to be asked for
    short,          \* places whose batch failed or came back too short
    calls           \* counts up to MaxCalls

embeddingVars == <<cached, texts, task, out, missing, short, calls>>

Vectors == [text: Texts, task: Tasks]

\* queryCacheKey and the primary key of embedding_cache.
Key(text, t) == [text |-> text, task |-> t]
-----------------------------------------------------------------------------
\* getCached: any part of what is there may be missed, or all of it.
Read(seq, t) ==
    \E hit \in SUBSET ToSet(seq) :
        LET vector(x) == IF x \in hit THEN cached[Key(x, t)] ELSE None IN
        /\ out' = [i \in DOMAIN seq |-> vector(seq[i])]
        /\ missing' = {i \in DOMAIN seq : vector(seq[i]) = None}

Embed ==
    /\ task = None
    /\ calls < MaxCalls
    /\ calls' = calls + 1
    /\ \E seq \in SeqOf(Texts, MaxInput) \ {<<>>}, t \in Tasks :
          texts' = seq /\ task' = t /\ Read(seq, t)
    /\ short' = {}
    /\ UNCHANGED cached

\* The next EMBED_BATCH_SIZE of the missing places, which are asked for in order.
Batch == {i \in missing : Cardinality({j \in missing : j < i}) < BatchSize}

\* uniqueHashes: a text is asked for where it first appears in the batch.
Firsts == {i \in Batch : \A j \in Batch : texts[j] = texts[i] => i <= j}

\* vectorByHash after the first n vectors have come back.
Answered(n) == {texts[i] : i \in {j \in Firsts : Cardinality({k \in Firsts : k < j}) < n}}

\* Variant: vectors are handed out by their place in the batch.
PlaceByPosition(n) ==
    [i \in DOMAIN out |->
        LET place == {f \in Firsts : Cardinality({k \in Firsts : k < f})
                                   = Cardinality({j \in Batch : j < i})}
        IN  IF i \in Batch /\ Cardinality({j \in Batch : j < i}) < n
            THEN [text |-> texts[CHOOSE f \in place : TRUE], task |-> task]
            ELSE out[i]]

\* The batch's places.
Place(n) ==
    [i \in DOMAIN out |->
        IF i \in Batch
        THEN IF texts[i] \in Answered(n) THEN [text |-> texts[i], task |-> task] ELSE None
        ELSE out[i]]

\* putCached of the texts whose writes arrive; ON CONFLICT DO NOTHING.
Stored(arrived) ==
    [key \in DOMAIN cached |->
        IF cached[key] = None /\ \E x \in arrived : Key(x, task) = key
        THEN [text |-> CHOOSE x \in arrived : Key(x, task) = key, task |-> task]
        ELSE cached[key]]

\* One batch: callApi, its vectors put in their places, putCached.  Fewer may
\* come back than were asked for, and of the writes some or none arrive.
BatchReturns ==
    /\ Batch # {}
    /\ \E n \in 0..Cardinality(Firsts) :
          /\ out' = Place(n)
          /\ short' = short \cup {i \in Batch : texts[i] \notin Answered(n)}
          /\ \E arrived \in SUBSET Answered(n) : cached' = Stored(arrived)
    /\ missing' = missing \ Batch
    /\ UNCHANGED <<texts, task, calls>>

\* callApi throws: the next batch is tried all the same.
BatchFails ==
    /\ Batch # {}
    /\ missing' = missing \ Batch
    /\ short' = short \cup Batch
    /\ UNCHANGED <<cached, texts, task, out, calls>>

\* The vectors are handed back.
Return ==
    /\ task # None
    /\ missing = {}
    /\ task' = None /\ texts' = <<>> /\ out' = <<>> /\ short' = {}
    /\ UNCHANGED <<cached, missing, calls>>

\* pruneQueryCache, or ten minutes.
Expire(t) ==
    /\ \E key \in DOMAIN cached : key.task = t /\ cached[key] # None
    /\ cached' = [key \in DOMAIN cached |-> IF key.task = t THEN None ELSE cached[key]]
    /\ UNCHANGED <<texts, task, out, missing, short, calls>>
-----------------------------------------------------------------------------
Init ==
    /\ cached = [key \in Vectors |-> None]
    /\ texts = <<>> /\ task = None /\ out = <<>> /\ missing = {} /\ short = {}
    /\ calls = 0

Next ==
    \/ Embed \/ BatchReturns \/ BatchFails \/ Return
    \/ \E t \in Tasks : Expire(t)

Spec == Init /\ [][Next]_embeddingVars
-----------------------------------------------------------------------------
(* Properties. *)

\* Every variable has its type.
TypeOK ==
    /\ cached \in [Vectors -> Vectors \cup {None}]
    /\ texts \in Seq(Texts)
    /\ task \in Tasks \cup {None}
    /\ out \in Seq(Vectors \cup {None})
    /\ missing \subseteq DOMAIN texts
    /\ short \subseteq DOMAIN texts
    /\ calls \in 0..MaxCalls

\* Every vector is that of the text at its place, made for the task it is asked
\* for, out of whichever batch or cache it came; and a place stays empty only
\* when its own batch failed or came back without it.
EmbedAligned ==
    \A i \in DOMAIN out :
        /\ out[i] # None => out[i] = [text |-> texts[i], task |-> task]
        /\ out[i] = None /\ i \notin missing => i \in short
=============================================================================
