------------------------------- MODULE Chunker -------------------------------
(***************************************************************************)
(* How a post's text is cut into chunks (services/rag/chunker.ts).         *)
(*                                                                         *)
(* A text is its paragraphs, a paragraph its sentences, a sentence the     *)
(* number of its characters, none of them white.  A character is named by  *)
(* its place, white space is Space; blanks at the ends and the length of   *)
(* the white space that separates two paragraphs are left out.             *)
(***************************************************************************)
EXTENDS Naturals, Sequences, SequencesExt

CONSTANTS
    MaxChunkSize,   \* maxChunkSize
    Overlap,        \* overlap
    MaxLength,      \* bound: characters of a sentence
    MaxParts        \* bound: sentences of a paragraph, paragraphs of a text

VARIABLES
    paragraphs,     \* the text
    chunks          \* chunkText(text)

chunkVars == <<paragraphs, chunks>>

Space == <<0, 0, 0>>

\* The characters of sentence s of paragraph p.
Sentence(text, p, s) == [c \in 1..text[p][s] |-> <<p, s, c>>]

Join(a, separator, b) == IF a = <<>> THEN b ELSE a \o separator \o b

Paragraph(text, p) ==
    FoldLeftDomain(LAMBDA a, s : Join(a, <<Space>>, Sentence(text, p, s)), <<>>, text[p])

Blank == <<Space, Space>>
-----------------------------------------------------------------------------
(* chunkText.  What has been pushed, and what is being gathered. *)

\* The text is full: what was gathered is pushed, if it is anything.
Pushed(acc) == IF acc.now = <<>> THEN acc.done ELSE Append(acc.done, acc.now)

\* One sentence of a paragraph that is too long: it is gathered or starts anew.
AddSentence(acc, sentence) ==
    LET joined == Join(acc.now, <<Space>>, sentence) IN
    IF Len(joined) <= MaxChunkSize
    THEN [acc EXCEPT !.now = joined]
    ELSE [done |-> Pushed(acc), now |-> sentence]

\* Only what is left at the end of such a paragraph is cut by length.
Slices(rest) == (Len(rest) - 1) \div MaxChunkSize

CutByLength(acc) ==
    LET n == IF acc.now = <<>> THEN 0 ELSE Slices(acc.now)
        slice(i) == SubSeq(acc.now, (i - 1) * MaxChunkSize + 1, i * MaxChunkSize)
    IN  [done |-> acc.done \o [i \in 1..n |-> slice(i)],
         now |-> SubSeq(acc.now, n * MaxChunkSize + 1, Len(acc.now))]

\* Variant: what was gathered before a long paragraph goes on with it.
FlushNothing(acc) == acc.done

Flushed(acc) == Pushed(acc)

AddSentences(text, acc, p) ==
    FoldLeftDomain(LAMBDA a, s : AddSentence(a, Sentence(text, p, s)), acc, text[p])

AddParagraph(text, acc, p) ==
    LET para == Paragraph(text, p)
        joined == Join(acc.now, Blank, para)
        apart == [done |-> Flushed(acc), now |-> <<>>]
    IN  IF Len(joined) <= MaxChunkSize
        THEN [acc EXCEPT !.now = joined]
        ELSE IF Len(para) <= MaxChunkSize
        THEN [apart EXCEPT !.now = para]
        ELSE CutByLength(AddSentences(text, apart, p))

Bodies(text) ==
    Pushed(FoldLeftDomain(LAMBDA a, p : AddParagraph(text, a, p), [done |-> <<>>, now |-> <<>>], text))

\* overlapTail: from the first white space of the last Overlap characters on.
OverlapTail(prev) ==
    LET tail == SubSeq(prev, Len(prev) - Overlap + 1, Len(prev))
        white == {i \in DOMAIN tail : tail[i] = Space}
    IN  IF Len(prev) <= Overlap THEN prev
        ELSE IF white = {} THEN tail
        ELSE SubSeq(tail, 1 + CHOOSE i \in white : \A j \in white : i <= j, Len(tail))

\* applyOverlap: of the chunks as they were cut, not as they were extended.
ApplyOverlap(bodies) ==
    [i \in DOMAIN bodies |->
        LET tail == IF i = 1 \/ Overlap = 0 THEN <<>> ELSE OverlapTail(bodies[i - 1])
        IN  [tail |-> tail, body |-> bodies[i]]]

Chunk ==
    /\ paragraphs = <<>>
    /\ paragraphs' \in SeqOf(SeqOf(1..MaxLength, MaxParts) \ {<<>>}, MaxParts) \ {<<>>}
    /\ chunks' = ApplyOverlap(Bodies(paragraphs'))
-----------------------------------------------------------------------------
Init == paragraphs = <<>> /\ chunks = <<>>

Next == Chunk

Spec == Init /\ [][Next]_chunkVars
-----------------------------------------------------------------------------
(* Properties. *)

\* The characters of the text.
Characters ==
    UNION {UNION {ToSet(Sentence(paragraphs, p, s)) : s \in DOMAIN paragraphs[p]} :
              p \in DOMAIN paragraphs}

Earlier(x, y) ==
    \/ x[1] < y[1]
    \/ x[1] = y[1] /\ (x[2] < y[2] \/ (x[2] = y[2] /\ x[3] < y[3]))

\* A whole sentence that is not the last of its paragraph.
OneOfSeveral(body) ==
    \E p \in DOMAIN paragraphs : \E s \in 1..(Len(paragraphs[p]) - 1) :
        body = Sentence(paragraphs, p, s)

\* The chunks of a text carry every character of it once and in order; none is
\* empty or longer than maxChunkSize, save a sentence that another of its
\* paragraph follows, which is pushed whole; and what a chunk repeats of the one
\* before it is the end of that one.
ChunksCoverText ==
    LET body(i) == chunks[i].body
        tail(i) == chunks[i].tail
    IN  /\ (UNION {ToSet(body(i)) : i \in DOMAIN chunks}) \ {Space} = Characters
        /\ \A i, j \in DOMAIN chunks : \A k \in DOMAIN body(i), l \in DOMAIN body(j) :
              /\ i < j \/ (i = j /\ k < l)
              /\ Space \notin {body(i)[k], body(j)[l]}
              => Earlier(body(i)[k], body(j)[l])
        /\ \A i \in DOMAIN chunks :
              /\ body(i) # <<>>
              /\ Len(body(i)) <= MaxChunkSize \/ OneOfSeveral(body(i))
              /\ Len(tail(i)) <= Overlap
              /\ i > 1 => \E n \in 0..Len(body(i - 1)) :
                              tail(i) = SubSeq(body(i - 1), n + 1, Len(body(i - 1)))
=============================================================================
