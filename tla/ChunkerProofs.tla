------------------------------ MODULE ChunkerProofs ------------------------------
(***************************************************************************)
(* That the chunks of a text carry all of it, for every text and all       *)
(* values of the constants that ServicesOK allows.                         *)
(***************************************************************************)
EXTENDS ChatSearchProofs

-----------------------------------------------------------------------------
(* Chunker: what its operators compute. *)

Chars == Nat \X Nat \X Nat
Written == Seq(Seq(Nat \ {0}))
Gathered == [done: Seq(Seq(Chars)), now: Seq(Chars)]

\* The characters of a sequence, white space aside, and those of several.
Of(seq) == {seq[k] : k \in 1..Len(seq)} \ {Chunk!Space}
OfAll(list) == UNION {Of(list[i]) : i \in 1..Len(list)}

\* They are in the order of the text.
Below(X, Y) == \A x \in X : \A y \in Y : Chunk!Earlier(x, y)
Rising(seq) == \A k, l \in 1..Len(seq) :
    k < l /\ seq[k] # Chunk!Space /\ seq[l] # Chunk!Space => Chunk!Earlier(seq[k], seq[l])
Orderly(list) ==
    /\ \A i \in 1..Len(list) : Rising(list[i])
    /\ \A i, j \in 1..Len(list) : i < j => Below(Of(list[i]), Of(list[j]))

LEMMA SpaceIsChar == Chunk!Space \in Chars /\ <<Chunk!Space>> \in Seq({Chunk!Space})
                     /\ Chunk!Blank \in Seq({Chunk!Space})
BY DEF Chunk!Space, Chars, Chunk!Blank

LEMMA BelowNothing == \A X : Below({}, X) /\ Below(X, {})
BY Zenon DEF Below

\* A part of what comes before, and of what comes after, does so too.
LEMMA BelowPart ==
    ASSUME NEW X, NEW Y, Below(X, Y), NEW A \in SUBSET X, NEW B \in SUBSET Y
    PROVE  Below(A, B)
BY Zenon DEF Below

LEMMA BelowBoth ==
    ASSUME NEW X, NEW Y, NEW Z
    PROVE  /\ Below(X, Z) /\ Below(Y, Z) => Below(X \cup Y, Z)
           /\ Below(X, Y) /\ Below(X, Z) => Below(X, Y \cup Z)
BY Zenon DEF Below

LEMMA NothingOf == Of(<<>>) = {} /\ OfAll(<<>>) = {} /\ Rising(<<>>) /\ Orderly(<<>>)
<1>1. Len(<<>>) = 0 /\ 1..0 = {}
    OBVIOUS
<1> QED BY <1>1 DEF Of, OfAll, Rising, Orderly

\* Two sequences that are joined, with white space between them.
LEMMA JoinIs ==
    ASSUME NEW a \in Seq(Chars), NEW b \in Seq(Chars), NEW sep \in Seq({Chunk!Space}),
           Rising(a), Rising(b), Below(Of(a), Of(b))
    PROVE  LET c == Chunk!Join(a, sep, b) IN c \in Seq(Chars) /\ Rising(c) /\ Of(c) = Of(a) \cup Of(b)
<1> DEFINE c == a \o sep \o b
           A == Len(a)
           S == Len(sep)
           B == Len(b)
<1>0. A \in Nat /\ S \in Nat /\ B \in Nat
    OBVIOUS
<1>1. CASE a = <<>>
    <2>1. Chunk!Join(a, sep, b) = b
        BY <1>1 DEF Chunk!Join
    <2> QED BY <1>1, <2>1, NothingOf
<1>2. CASE a # <<>>
    <2>1. Chunk!Join(a, sep, b) = c
        BY <1>2 DEF Chunk!Join
    <2>2. c \in Seq(Chars) /\ Len(c) = A + S + B
        <3>1. sep \in Seq(Chars)
            BY SpaceIsChar
        <3> QED BY <3>1
    <2>3. \A k \in 1..A : c[k] = a[k]
        OBVIOUS
    <2>4. \A k \in (A + 1)..(A + S) : c[k] = Chunk!Space
        <3>1. \A k \in (A + 1)..(A + S) : c[k] = sep[k - A]
            OBVIOUS
        <3>2. \A k \in 1..S : sep[k] = Chunk!Space
            OBVIOUS
        <3>3. \A k \in (A + 1)..(A + S) : k - A \in 1..S
            BY <1>0
        <3> HIDE DEF c, S, A
        <3> QED BY <3>1, <3>2, <3>3
    <2>5. \A k \in (A + S + 1)..(A + S + B) : c[k] = b[k - A - S]
        OBVIOUS
    <2> HIDE DEF c, A, S, B
    <2>6. \A k \in 1..Len(c) : \/ k \in 1..A
                               \/ k \in (A + 1)..(A + S)
                               \/ k \in (A + S + 1)..(A + S + B) /\ k - A - S \in 1..B
        BY <1>0, <2>2
    <2>7. ASSUME NEW k \in 1..Len(c), c[k] # Chunk!Space
          PROVE  \/ k \in 1..A /\ c[k] = a[k] /\ c[k] \in Of(a)
                 \/ k \in (A + S + 1)..(A + S + B) /\ k - A - S \in 1..B /\ c[k] = b[k - A - S] /\ c[k] \in Of(b)
        <3>1. CASE k \in 1..A
            BY <2>3, <2>7, <3>1 DEF Of, A
        <3>2. CASE k \in (A + S + 1)..(A + S + B) /\ k - A - S \in 1..B
            <4>1. c[k] = b[k - A - S]
                BY <2>5, <3>2
            <4>2. c[k] \in Of(b)
                BY <2>7, <3>2, <4>1, Zenon DEF Of, B
            <4> QED BY <3>2, <4>1, <4>2
        <3> QED BY <2>4, <2>6, <2>7, <3>1, <3>2
    <2>8. Of(c) \subseteq Of(a) \cup Of(b)
        <3>1. ASSUME NEW x \in Of(c) PROVE x \in Of(a) \cup Of(b)
            <4>1. PICK k \in 1..Len(c) : x = c[k] /\ c[k] # Chunk!Space
                BY Zenon DEF Of
            <4> QED BY <2>7, <4>1
        <3> QED BY <3>1
    <2>9. Of(a) \subseteq Of(c)
        <3>1. ASSUME NEW x \in Of(a) PROVE x \in Of(c)
            <4>1. PICK k \in 1..A : x = a[k] /\ a[k] # Chunk!Space
                BY Zenon DEF Of, A
            <4>2. k \in 1..Len(c) /\ c[k] = x
                BY <1>0, <2>2, <2>3, <4>1
            <4> QED BY <4>1, <4>2, Zenon DEF Of
        <3> QED BY <3>1
    <2>10. Of(b) \subseteq Of(c)
        <3>1. ASSUME NEW x \in Of(b) PROVE x \in Of(c)
            <4>1. PICK k \in 1..B : x = b[k] /\ b[k] # Chunk!Space
                BY Zenon DEF Of, B
            <4>2. A + S + k \in (A + S + 1)..(A + S + B) /\ A + S + k \in 1..Len(c) /\ (A + S + k) - A - S = k
                BY <1>0, <2>2
            <4>3. c[A + S + k] = x
                BY <2>5, <4>1, <4>2
            <4> QED BY <4>1, <4>2, <4>3, Zenon DEF Of
        <3> QED BY <3>1
    <2>11. Rising(c)
        <3>1. ASSUME NEW k \in 1..Len(c), NEW l \in 1..Len(c), k < l, c[k] # Chunk!Space, c[l] # Chunk!Space
              PROVE  Chunk!Earlier(c[k], c[l])
            <4>1. CASE k \in 1..A /\ l \in 1..A
                <5>1. \A i, j \in 1..A : i < j /\ a[i] # Chunk!Space /\ a[j] # Chunk!Space => Chunk!Earlier(a[i], a[j])
                    BY Zenon DEF Rising, A
                <5> QED BY <2>3, <3>1, <4>1, <5>1
            <4>2. CASE k \in 1..A /\ l \notin 1..A
                <5>1. c[k] \in Of(a) /\ c[l] \in Of(b)
                    <6>1. c[l] \in Of(b)
                        BY <2>7, <3>1, <4>2
                    <6>2. k \notin (A + S + 1)..(A + S + B)
                        BY <1>0, <4>2
                    <6> QED BY <2>7, <3>1, <6>1, <6>2
                <5>2. \A x \in Of(a) : \A y \in Of(b) : Chunk!Earlier(x, y)
                    BY Zenon DEF Below
                <5> QED BY <5>1, <5>2
            <4>3. CASE k \notin 1..A
                <5>1. /\ k - A - S \in 1..B /\ c[k] = b[k - A - S]
                      /\ l \in 1..A \/ (l - A - S \in 1..B /\ c[l] = b[l - A - S])
                    BY <2>7, <3>1, <4>3
                <5>2. l \notin 1..A /\ k - A - S < l - A - S
                    BY <1>0, <2>2, <3>1, <4>3
                <5>3. \A i, j \in 1..B : i < j /\ b[i] # Chunk!Space /\ b[j] # Chunk!Space => Chunk!Earlier(b[i], b[j])
                    BY Zenon DEF Rising, B
                <5> QED BY <3>1, <5>1, <5>2, <5>3
            <4> QED BY <4>1, <4>2, <4>3
        <3> QED BY <3>1, Zenon DEF Rising
    <2>12. Of(c) = Of(a) \cup Of(b)
        BY <2>8, <2>9, <2>10
    <2> QED BY <2>1, <2>2, <2>11, <2>12
<1> QED BY <1>1, <1>2

\* A sequence in two parts.
Parts(seq, m, head, rest) ==
    /\ head \in Seq(Chars) /\ Len(head) = m /\ Rising(head)
    /\ rest \in Seq(Chars) /\ Len(rest) = Len(seq) - m /\ Rising(rest)
    /\ Of(seq) = Of(head) \cup Of(rest)
    /\ Below(Of(head), Of(rest))

LEMMA PartsAre ==
    ASSUME NEW seq \in Seq(Chars), Rising(seq), NEW m \in 0..Len(seq),
           NEW head, head = SubSeq(seq, 1, m), NEW rest, rest = SubSeq(seq, m + 1, Len(seq))
    PROVE  Parts(seq, m, head, rest)
<1> DEFINE N == Len(seq)
<1>0. N \in Nat /\ m \in Nat /\ m <= N
    OBVIOUS
<1>1. head \in Seq(Chars) /\ Len(head) = m /\ \A k \in 1..m : head[k] = seq[k]
    BY <1>0
<1>2. rest \in Seq(Chars) /\ Len(rest) = N - m /\ \A k \in 1..(N - m) : rest[k] = seq[m + k]
    BY <1>0
<1>3. \A i, j \in 1..N : i < j /\ seq[i] # Chunk!Space /\ seq[j] # Chunk!Space => Chunk!Earlier(seq[i], seq[j])
    BY Zenon DEF Rising
<1>4. Rising(head)
    <2>1. \A k \in 1..m : k \in 1..N
        BY <1>0
    <2>2. ASSUME NEW k \in 1..Len(head), NEW l \in 1..Len(head), k < l,
                 head[k] # Chunk!Space, head[l] # Chunk!Space
          PROVE  Chunk!Earlier(head[k], head[l])
        BY <1>1, <1>3, <2>1, <2>2
    <2> QED BY <2>2, Zenon DEF Rising
<1>5. Rising(rest)
    <2>1. \A k \in 1..(N - m) : m + k \in 1..N
        BY <1>0
    <2>2. ASSUME NEW k \in 1..Len(rest), NEW l \in 1..Len(rest), k < l,
                 rest[k] # Chunk!Space, rest[l] # Chunk!Space
          PROVE  Chunk!Earlier(rest[k], rest[l])
        <3>1. m + k < m + l
            BY <1>0, <1>2, <2>2
        <3> QED BY <1>2, <1>3, <2>1, <2>2, <3>1
    <2> QED BY <2>2, Zenon DEF Rising
<1>6. ASSUME NEW x \in Of(head) PROVE \E k \in 1..m : x = seq[k] /\ seq[k] # Chunk!Space
    <2>1. PICK k \in 1..Len(head) : x = head[k] /\ head[k] # Chunk!Space
        BY Zenon DEF Of
    <2> QED BY <1>1, <2>1
<1>7. ASSUME NEW x \in Of(rest) PROVE \E k \in (m + 1)..N : x = seq[k] /\ seq[k] # Chunk!Space
    <2>1. PICK k \in 1..Len(rest) : x = rest[k] /\ rest[k] # Chunk!Space
        BY Zenon DEF Of
    <2>2. m + k \in (m + 1)..N
        BY <1>0, <1>2
    <2>3. x = seq[m + k]
        BY <1>2, <2>1
    <2> QED BY <2>1, <2>2, <2>3
<1>8. Below(Of(head), Of(rest))
    <2>1. ASSUME NEW x \in Of(head), NEW y \in Of(rest) PROVE Chunk!Earlier(x, y)
        <3>1. PICK k \in 1..m : x = seq[k] /\ seq[k] # Chunk!Space
            BY <1>6
        <3>2. PICK l \in (m + 1)..N : y = seq[l] /\ seq[l] # Chunk!Space
            BY <1>7
        <3>3. k \in 1..N /\ l \in 1..N /\ k < l
            BY <1>0
        <3> QED BY <1>3, <3>1, <3>2, <3>3
    <2> QED BY <2>1, Zenon DEF Below
<1>9. Of(head) \subseteq Of(seq)
    <2>1. ASSUME NEW x \in Of(head) PROVE x \in Of(seq)
        <3>1. PICK k \in 1..m : x = seq[k] /\ seq[k] # Chunk!Space
            BY <1>6
        <3>2. k \in 1..Len(seq)
            BY <1>0
        <3> QED BY <3>1, <3>2, Zenon DEF Of
    <2> QED BY <2>1
<1>10. Of(rest) \subseteq Of(seq)
    <2>1. ASSUME NEW x \in Of(rest) PROVE x \in Of(seq)
        <3>1. PICK k \in (m + 1)..N : x = seq[k] /\ seq[k] # Chunk!Space
            BY <1>7
        <3>2. k \in 1..Len(seq)
            BY <1>0
        <3> QED BY <3>1, <3>2, Zenon DEF Of
    <2> QED BY <2>1
<1>11. Of(seq) \subseteq Of(head) \cup Of(rest)
    <2>1. ASSUME NEW x \in Of(seq) PROVE x \in Of(head) \cup Of(rest)
        <3>1. PICK k \in 1..Len(seq) : x = seq[k] /\ seq[k] # Chunk!Space
            BY Zenon DEF Of
        <3>2. CASE k <= m
            <4>1. k \in 1..Len(head) /\ head[k] = x
                BY <1>0, <1>1, <3>1, <3>2
            <4>2. x \in Of(head)
                BY <3>1, <4>1, Zenon DEF Of
            <4> QED BY <4>2
        <3>3. CASE ~(k <= m)
            <4>1. k - m \in 1..Len(rest) /\ k - m \in 1..(N - m) /\ m + (k - m) = k
                BY <1>0, <1>2, <3>3
            <4>2. rest[k - m] = x
                BY <1>2, <3>1, <4>1
            <4>3. x \in Of(rest)
                BY <3>1, <4>1, <4>2, Zenon DEF Of
            <4> QED BY <4>3
        <3> QED BY <3>2, <3>3
    <2> QED BY <2>1
<1>12. Of(seq) = Of(head) \cup Of(rest)
    BY <1>9, <1>10, <1>11
<1> QED BY <1>1, <1>2, <1>4, <1>5, <1>8, <1>12 DEF Parts

\* A list with one more sequence.
LEMMA OneMoreOf ==
    ASSUME NEW list \in Seq(Seq(Chars)), Orderly(list), NEW seq \in Seq(Chars), Rising(seq),
           Below(OfAll(list), Of(seq)), NEW more, more = Append(list, seq)
    PROVE  /\ more \in Seq(Seq(Chars)) /\ Orderly(more)
           /\ OfAll(more) = OfAll(list) \cup Of(seq)
<1> DEFINE N == Len(list)
<1>0. N \in Nat
    OBVIOUS
<1>1. /\ more \in Seq(Seq(Chars)) /\ Len(more) = N + 1 /\ more[N + 1] = seq
      /\ \A i \in 1..N : more[i] = list[i]
    OBVIOUS
<1> HIDE DEF N
<1>2. \A i \in 1..Len(more) : i = N + 1 \/ i \in 1..N
    BY <1>0, <1>1
<1>3. \A i \in 1..N : Of(list[i]) \subseteq OfAll(list)
    BY Zenon DEF OfAll, N
<1>4. ASSUME NEW i \in 1..Len(more) PROVE Rising(more[i])
    <2>1. \A j \in 1..N : Rising(list[j])
        BY DEF Orderly, N
    <2> QED BY <1>1, <1>2, <2>1
<1>5. ASSUME NEW i \in 1..Len(more), NEW j \in 1..Len(more), i < j
      PROVE  Below(Of(more[i]), Of(more[j]))
    <2>1. CASE j = N + 1
        <3>1. i \in 1..N
            BY <1>0, <1>1, <1>5, <2>1
        <3>2. Of(more[i]) \subseteq OfAll(list) /\ more[j] = seq
            BY <1>1, <1>3, <2>1, <3>1
        <3> QED BY <3>2, BelowPart
    <2>2. CASE j \in 1..N
        <3>1. i \in 1..N
            BY <1>0, <1>1, <1>5, <2>2
        <3>2. more[i] = list[i] /\ more[j] = list[j]
            BY <1>1, <2>2, <3>1
        <3>3. \A k, l \in 1..N : k < l => Below(Of(list[k]), Of(list[l]))
            BY DEF Orderly, N
        <3> QED BY <1>5, <2>2, <3>1, <3>2, <3>3
    <2> QED BY <1>2, <2>1, <2>2
<1>6. Orderly(more)
    BY <1>4, <1>5, Zenon DEF Orderly
<1>7. OfAll(more) \subseteq OfAll(list) \cup Of(seq)
    <2>1. ASSUME NEW x \in OfAll(more) PROVE x \in OfAll(list) \cup Of(seq)
        <3>1. PICK i \in 1..Len(more) : x \in Of(more[i])
            BY Zenon DEF OfAll
        <3> QED BY <1>1, <1>2, <1>3, <3>1
    <2> QED BY <2>1
<1>8. OfAll(list) \subseteq OfAll(more)
    <2>1. ASSUME NEW x \in OfAll(list) PROVE x \in OfAll(more)
        <3>1. PICK i \in 1..N : x \in Of(list[i])
            BY Zenon DEF OfAll, N
        <3>2. i \in 1..Len(more) /\ more[i] = list[i]
            BY <1>0, <1>1
        <3> QED BY <3>1, <3>2, Zenon DEF OfAll
    <2> QED BY <2>1
<1>9. Of(seq) \subseteq OfAll(more)
    <2>1. N + 1 \in 1..Len(more)
        BY <1>0, <1>1
    <2>2. Of(more[N + 1]) \subseteq OfAll(more)
        BY <2>1, Zenon DEF OfAll
    <2> QED BY <1>1, <2>2
<1>10. OfAll(more) = OfAll(list) \cup Of(seq)
    BY <1>7, <1>8, <1>9
<1> QED BY <1>1, <1>6, <1>10

LEMMA Division ==
    ASSUME NEW M \in Nat \ {0}, NEW L \in Nat \ {0}
    PROVE  /\ (L - 1) \div M \in Nat
           /\ ((L - 1) \div M) * M <= L - 1
           /\ L - 1 < ((L - 1) \div M) * M + M
OBVIOUS

LEMMA Products ==
    ASSUME NEW M \in Nat \ {0}, NEW n \in Nat, NEW m \in 1..n
    PROVE  /\ m * M = (m - 1) * M + M /\ (m - 1) * M \in Nat /\ m * M \in Nat /\ n * M \in Nat
           /\ m * M <= n * M
<1>1. /\ (m - 1) * M \in Nat /\ m * M \in Nat /\ n * M \in Nat /\ (n - m) * M \in Nat
      /\ M \in Nat /\ m \in Nat /\ n \in Nat /\ m - 1 \in Nat
    OBVIOUS
<1>2. m * M = (m - 1) * M + M
    BY <1>1
<1>3. n * M = m * M + (n - m) * M
    BY <1>1
<1> QED BY <1>1, <1>2, <1>3

LEMMA AppendIs ==
    ASSUME NEW S, NEW x \in Seq(S), NEW e \in S, NEW y \in Seq(S),
           Len(y) = Len(x) + 1, y[Len(x) + 1] = e, \A i \in 1..Len(x) : y[i] = x[i]
    PROVE  y = Append(x, e)
OBVIOUS

LEMMA LongerByOne ==
    ASSUME NEW S, NEW a \in Seq(S), NEW b \in Seq(S), NEW e \in S
    PROVE  a \o Append(b, e) = Append(a \o b, e)
<1> DEFINE x == a \o Append(b, e)
           y == Append(a \o b, e)
<1>0. Len(a) \in Nat /\ Len(b) \in Nat
    OBVIOUS
<1>1. x \in Seq(S) /\ Len(x) = Len(a) + Len(b) + 1 /\ \A k \in 1..Len(a) : x[k] = a[k]
    OBVIOUS
<1>2. \A k \in 1..Len(b) : x[Len(a) + k] = b[k]
    OBVIOUS
<1>3. x[Len(a) + Len(b) + 1] = e
    OBVIOUS
<1>4. y \in Seq(S) /\ Len(y) = Len(a) + Len(b) + 1 /\ \A k \in 1..Len(a) : y[k] = a[k]
    OBVIOUS
<1>5. \A k \in 1..Len(b) : y[Len(a) + k] = b[k]
    OBVIOUS
<1>6. y[Len(a) + Len(b) + 1] = e
    OBVIOUS
<1> HIDE DEF x, y
<1>7. ASSUME NEW k \in 1..Len(x) PROVE x[k] = y[k]
    <2>1. CASE k \in 1..Len(a)
        BY <1>1, <1>4, <2>1
    <2>2. CASE k = Len(a) + Len(b) + 1
        BY <1>3, <1>6, <2>2
    <2>3. CASE k \notin 1..Len(a) /\ k # Len(a) + Len(b) + 1
        <3>1. k - Len(a) \in 1..Len(b) /\ Len(a) + (k - Len(a)) = k
            BY <1>0, <1>1, <2>3
        <3> QED BY <1>2, <1>5, <3>1
    <2> QED BY <2>1, <2>2, <2>3
<1>8. x = y
    BY <1>1, <1>4, <1>7
<1> QED BY <1>8 DEF x, y

\* What is cut by length: one piece after another from the front of what is left.
Peels(done, rest, n, d, r) ==
    /\ d[0] = done /\ r[0] = rest
    /\ \A m \in 1..n :
          /\ MaxChunkSize <= Len(r[m - 1])
          /\ d[m] = Append(d[m - 1], SubSeq(r[m - 1], 1, MaxChunkSize))
          /\ r[m] = SubSeq(r[m - 1], MaxChunkSize + 1, Len(r[m - 1]))
    /\ Chunk!CutByLength([done |-> done, now |-> rest]) = [done |-> d[n], now |-> r[n]]
    /\ Len(r[n]) <= MaxChunkSize

LEMMA CutPeels ==
    ASSUME MaxChunkSize \in Nat \ {0}, NEW done \in Seq(Seq(Chars)), NEW rest \in Seq(Chars)
    PROVE  \E n, d, r :
               /\ n \in Nat /\ d \in [0..n -> Seq(Seq(Chars))] /\ r \in [0..n -> Seq(Chars)]
               /\ Peels(done, rest, n, d, r)
<1> DEFINE M == MaxChunkSize
           L == Len(rest)
           n == IF rest = <<>> THEN 0 ELSE (L - 1) \div M
           slice(i) == SubSeq(rest, (i - 1) * M + 1, i * M)
           d == [m \in 0..n |-> done \o [i \in 1..m |-> slice(i)]]
           r == [m \in 0..n |-> SubSeq(rest, m * M + 1, L)]
<1>0. M \in Nat \ {0} /\ L \in Nat /\ (rest = <<>> <=> L = 0)
    OBVIOUS
<1>1. n \in Nat /\ n * M \in Nat /\ n * M <= L /\ L <= n * M + M
    <2>1. CASE rest = <<>>
        <3>1. n = 0 /\ n * M = 0
            BY <1>0, <2>1
        <3> QED BY <1>0, <2>1, <3>1
    <2>2. CASE rest # <<>>
        <3>1. L \in Nat \ {0} /\ n = (L - 1) \div M
            BY <1>0, <2>2
        <3>2. n \in Nat /\ n * M <= L - 1 /\ L - 1 < n * M + M
            <4> HIDE DEF n, L, M
            <4> QED BY <1>0, <3>1, Division
        <3>3. n * M \in Nat
            <4> HIDE DEF n, L, M
            <4> QED BY <1>0, <3>2
        <3> HIDE DEF n, L, M
        <3> QED BY <1>0, <3>1, <3>2, <3>3
    <2> QED BY <2>1, <2>2
<1> HIDE DEF n, M, L
<1>2. ASSUME NEW m \in 1..n
      PROVE  /\ m * M = (m - 1) * M + M /\ (m - 1) * M \in Nat /\ m * M \in Nat /\ m * M <= L
             /\ m \in Nat /\ m \in 0..n /\ m - 1 \in 0..n
    <2>1. m * M = (m - 1) * M + M /\ (m - 1) * M \in Nat /\ m * M \in Nat /\ m * M <= n * M
        BY <1>0, <1>1, Products
    <2>2. m \in Nat /\ m \in 0..n /\ m - 1 \in 0..n
        BY <1>1
    <2>3. \A a, b, c \in Nat : a <= b /\ b <= c => a <= c
        OBVIOUS
    <2>4. m * M <= L
        BY <1>0, <1>1, <2>1, <2>3
    <2> QED BY <2>1, <2>2, <2>4
<1>3. ASSUME NEW m \in 0..n
      PROVE  m * M \in Nat /\ m * M <= L /\ r[m] = SubSeq(rest, m * M + 1, L)
             /\ r[m] \in Seq(Chars) /\ Len(r[m]) = L - m * M
             /\ \A k \in 1..(L - m * M) : r[m][k] = rest[m * M + k]
    <2>1. m * M \in Nat /\ m * M <= L
        <3>1. CASE m = 0
            <4>1. m * M = 0
                BY <1>0, <3>1
            <4> QED BY <1>0, <4>1
        <3>2. CASE m # 0
            <4>1. m \in 1..n
                BY <1>1, <3>2
            <4> QED BY <1>2, <4>1
        <3> QED BY <3>1, <3>2
    <2>2. r[m] = SubSeq(rest, m * M + 1, L)
        OBVIOUS
    <2> DEFINE b == m * M
    <2>3. b \in Nat /\ b <= L
        BY <2>1
    <2> HIDE DEF b, r
    <2>4. LET s == SubSeq(rest, b + 1, L) IN
              s \in Seq(Chars) /\ Len(s) = L - b /\ \A k \in 1..(L - b) : s[k] = rest[b + k]
        BY <1>0, <2>3 DEF L
    <2> QED BY <2>1, <2>2, <2>4 DEF b
<1>4. ASSUME NEW m \in 1..n
      PROVE  slice(m) \in Seq(Chars) /\ Len(slice(m)) = M
             /\ \A k \in 1..M : slice(m)[k] = rest[(m - 1) * M + k]
    <2> DEFINE b == (m - 1) * M
    <2>1. b \in Nat /\ m * M = b + M /\ b + M <= L
        BY <1>2
    <2> HIDE DEF b
    <2>2. LET s == SubSeq(rest, b + 1, b + M) IN
              s \in Seq(Chars) /\ Len(s) = M /\ \A k \in 1..M : s[k] = rest[b + k]
        BY <1>0, <2>1 DEF L
    <2>3. slice(m) = SubSeq(rest, b + 1, b + M)
        BY <2>1 DEF b
    <2> HIDE DEF slice
    <2> QED BY <2>2, <2>3 DEF b
<1>5. ASSUME NEW m \in 1..n
      PROVE  slice(m) = SubSeq(r[m - 1], 1, M) /\ r[m] = SubSeq(r[m - 1], M + 1, Len(r[m - 1]))
             /\ M <= Len(r[m - 1])
    <2> DEFINE b == (m - 1) * M
               was == r[m - 1]
    <2>1. b \in Nat /\ m * M = b + M /\ b + M <= L /\ m - 1 \in 0..n /\ m \in 0..n
        BY <1>2
    <2>2. was \in Seq(Chars) /\ Len(was) = L - b /\ \A k \in 1..(L - b) : was[k] = rest[b + k]
        BY <1>3, <2>1
    <2>3. r[m] \in Seq(Chars) /\ Len(r[m]) = L - (b + M) /\ \A k \in 1..(L - (b + M)) : r[m][k] = rest[(b + M) + k]
        <3>1. Len(r[m]) = L - m * M /\ \A k \in 1..(L - m * M) : r[m][k] = rest[m * M + k]
            BY <1>3, <2>1
        <3>2. r[m] \in Seq(Chars)
            BY <1>3, <2>1
        <3> HIDE DEF b, r
        <3> QED BY <2>1, <3>1, <3>2
    <2>4. slice(m) \in Seq(Chars) /\ Len(slice(m)) = M /\ \A k \in 1..M : slice(m)[k] = rest[b + k]
        BY <1>4
    <2> HIDE DEF b, was, r, slice
    <2> DEFINE x == slice(m)
               y == r[m]
    <2> HIDE DEF x, y
    <2>5. M <= Len(was)
        BY <1>0, <2>1, <2>2
    <2>6. x = SubSeq(was, 1, M)
        <3> DEFINE z == SubSeq(was, 1, M)
        <3>1. z \in Seq(Chars) /\ Len(z) = M /\ \A k \in 1..M : z[k] = was[k]
            BY <1>0, <2>2, <2>5
        <3>2. x \in Seq(Chars) /\ Len(x) = M /\ \A k \in 1..M : x[k] = rest[b + k]
            BY <2>4 DEF x
        <3>3. \A k \in 1..M : k \in 1..(L - b)
            BY <1>0, <2>1
        <3> HIDE DEF z
        <3>4. \A k \in 1..M : x[k] = z[k]
            BY <2>2, <3>1, <3>2, <3>3
        <3>5. x = z
            BY <1>0, <3>1, <3>2, <3>4
        <3> QED BY <3>5 DEF z
    <2>7. y = SubSeq(was, M + 1, Len(was))
        <3> DEFINE z == SubSeq(was, M + 1, Len(was))
                   K == L - (b + M)
        <3>1. z \in Seq(Chars) /\ Len(z) = Len(was) - M /\ \A k \in 1..(Len(was) - M) : z[k] = was[M + k]
            BY <1>0, <2>2, <2>5
        <3>2. y \in Seq(Chars) /\ Len(y) = K /\ \A k \in 1..K : y[k] = rest[(b + M) + k]
            BY <2>3 DEF y
        <3>3. K \in Nat /\ Len(was) - M = K /\ \A k \in 1..K : M + k \in 1..(L - b) /\ b + (M + k) = (b + M) + k
            BY <1>0, <2>1, <2>2
        <3> HIDE DEF z, K
        <3>4. \A k \in 1..K : y[k] = z[k]
            BY <2>2, <3>1, <3>2, <3>3
        <3>5. y = z
            BY <3>1, <3>2, <3>3, <3>4
        <3> QED BY <3>5 DEF z
    <2> QED BY <2>5, <2>6, <2>7 DEF x, y, was
<1>6. ASSUME NEW m \in 0..n
      PROVE  /\ [i \in 1..m |-> slice(i)] \in Seq(Seq(Chars)) /\ d[m] \in Seq(Seq(Chars))
             /\ d[m] = done \o [i \in 1..m |-> slice(i)]
    <2>1. \A i \in 1..m : i \in 1..n
        BY <1>1
    <2>2. \A i \in 1..m : slice(i) \in Seq(Chars)
        BY <1>4, <2>1
    <2>3. d[m] = done \o [i \in 1..m |-> slice(i)]
        OBVIOUS
    <2> HIDE DEF slice, d
    <2>4. m \in Nat
        BY <1>1
    <2>5. [i \in 1..m |-> slice(i)] \in Seq(Seq(Chars))
        BY <2>2, <2>4
    <2> QED BY <2>3, <2>5
<1>7. ASSUME NEW m \in 1..n PROVE d[m] = Append(d[m - 1], slice(m))
    <2> DEFINE x == [i \in 1..(m - 1) |-> slice(i)]
               y == [i \in 1..m |-> slice(i)]
    <2>1. m - 1 \in 0..n /\ m \in 0..n /\ m \in Nat \ {0}
        BY <1>1
    <2>2. x \in Seq(Seq(Chars)) /\ d[m - 1] = done \o x
        BY <1>6, <2>1
    <2>3. y \in Seq(Seq(Chars)) /\ d[m] = done \o y
        BY <1>6, <2>1
    <2>4. slice(m) \in Seq(Chars)
        BY <1>4
    <2> HIDE DEF slice, d
    <2>5. Len(x) = m - 1 /\ Len(y) = m /\ y[m] = slice(m)
        BY <2>1
    <2>6. \A i \in 1..(m - 1) : y[i] = x[i]
        BY <2>1
    <2> DEFINE e == slice(m)
    <2> HIDE DEF x, y, e
    <2>7. e \in Seq(Chars) /\ y[m] = e
        BY <2>4, <2>5 DEF e
    <2>8. y = Append(x, e)
        <3>1. Len(y) = Len(x) + 1 /\ y[Len(x) + 1] = e /\ \A i \in 1..Len(x) : y[i] = x[i]
            BY <2>1, <2>5, <2>6, <2>7
        <3> QED BY <2>2, <2>3, <2>7, <3>1, AppendIs
    <2>9. done \o Append(x, e) = Append(done \o x, e)
        BY <2>2, <2>7, LongerByOne
    <2> QED BY <2>2, <2>3, <2>8, <2>9 DEF e
<1>8. d[0] = done /\ r[0] = rest
    <2>1. d[0] = done \o [i \in 1..0 |-> slice(i)]
        BY <1>1
    <2>2. [i \in 1..0 |-> slice(i)] = <<>>
        <3> HIDE DEF slice
        <3> QED OBVIOUS
    <2>3. r[0] = SubSeq(rest, 0 * M + 1, L) /\ 0 * M = 0
        BY <1>0, <1>1
    <2> HIDE DEF slice, d, r
    <2>4. SubSeq(rest, 1, L) = rest
        BY DEF L
    <2>5. done \o <<>> = done
        OBVIOUS
    <2> QED BY <2>1, <2>2, <2>3, <2>4, <2>5
<1>9. Chunk!CutByLength([done |-> done, now |-> rest]) = [done |-> d[n], now |-> r[n]]
    <2>1. n \in 0..n
        BY <1>1
    <2>2. d[n] = done \o [i \in 1..n |-> slice(i)] /\ r[n] = SubSeq(rest, n * M + 1, L)
        BY <2>1
    <2> HIDE DEF d, r
    <2>3. Chunk!CutByLength([done |-> done, now |-> rest]) =
              [done |-> done \o [i \in 1..n |-> slice(i)], now |-> SubSeq(rest, n * M + 1, L)]
        BY DEF Chunk!CutByLength, Chunk!Slices, n, M, L
    <2> QED BY <2>2, <2>3
<1>10. Len(r[n]) <= M
    <2>1. n \in 0..n
        BY <1>1
    <2>2. Len(r[n]) = L - n * M
        BY <1>3, <2>1
    <2> QED BY <1>0, <1>1, <2>2
<1>11. d \in [0..n -> Seq(Seq(Chars))] /\ r \in [0..n -> Seq(Chars)]
    <2>1. ASSUME NEW m \in 0..n
          PROVE  done \o [i \in 1..m |-> slice(i)] \in Seq(Seq(Chars)) /\ SubSeq(rest, m * M + 1, L) \in Seq(Chars)
        <3> HIDE DEF slice
        <3> QED BY <1>6, <1>3
    <2> HIDE DEF slice
    <2> QED BY <2>1
<1>12. \A m \in 1..n :
          /\ M <= Len(r[m - 1])
          /\ d[m] = Append(d[m - 1], SubSeq(r[m - 1], 1, M))
          /\ r[m] = SubSeq(r[m - 1], M + 1, Len(r[m - 1]))
    <2> HIDE DEF d, r, slice
    <2> QED BY <1>5, <1>7
<1> HIDE DEF d, r, slice
<1>13. Peels(done, rest, n, d, r)
    BY <1>8, <1>9, <1>10, <1>12 DEF Peels, M
<1> QED BY <1>1, <1>11, <1>13, Zenon

\* A chunk that may be pushed.
Fits(text, body) ==
    /\ body # <<>>
    /\ \/ Len(body) <= MaxChunkSize
       \/ \E p \in 1..Len(text) : \E s \in 1..(Len(text[p]) - 1) : body = Chunk!Sentence(text, p, s)

\* What has been pushed and what is gathered hold the characters X, in order.
Holds(text, done, open, X) ==
    /\ done \in Seq(Seq(Chars)) /\ open \in Seq(Chars)
    /\ Orderly(done) /\ Rising(open) /\ Below(OfAll(done), Of(open))
    /\ \A i \in 1..Len(done) : Fits(text, done[i])
    /\ X = OfAll(done) \cup Of(open)

\* One more chunk is pushed.
LEMMA PushHolds ==
    ASSUME NEW text, NEW done \in Seq(Seq(Chars)), NEW open \in Seq(Chars), Orderly(done), Rising(open),
           Below(OfAll(done), Of(open)), \A i \in 1..Len(done) : Fits(text, done[i]), Fits(text, open),
           NEW more, more = Append(done, open)
    PROVE  /\ more \in Seq(Seq(Chars)) /\ Orderly(more) /\ OfAll(more) = OfAll(done) \cup Of(open)
           /\ \A i \in 1..Len(more) : Fits(text, more[i])
<1>1. more \in Seq(Seq(Chars)) /\ Orderly(more) /\ OfAll(more) = OfAll(done) \cup Of(open)
    BY OneMoreOf
<1>2. /\ Len(more) = Len(done) + 1 /\ more[Len(done) + 1] = open
      /\ \A i \in 1..Len(done) : more[i] = done[i]
    OBVIOUS
<1>3. \A i \in 1..Len(more) : i = Len(done) + 1 \/ i \in 1..Len(done)
    BY <1>2
<1>4. \A i \in 1..Len(more) : Fits(text, more[i])
    BY <1>2, <1>3
<1> QED BY <1>1, <1>4

LEMMA PushedHolds ==
    ASSUME NEW text, NEW done, NEW open, NEW X, Holds(text, done, open, X), open = <<>> \/ Fits(text, open)
    PROVE  Holds(text, Chunk!Pushed([done |-> done, now |-> open]), <<>>, X)
<1> DEFINE more == Append(done, open)
<1>0. /\ done \in Seq(Seq(Chars)) /\ open \in Seq(Chars)
      /\ Orderly(done) /\ Rising(open) /\ Below(OfAll(done), Of(open))
      /\ \A i \in 1..Len(done) : Fits(text, done[i])
      /\ X = OfAll(done) \cup Of(open)
    BY Zenon DEF Holds
<1>1. CASE open = <<>>
    <2>1. Chunk!Pushed([done |-> done, now |-> open]) = done
        BY <1>1 DEF Chunk!Pushed
    <2> QED BY <1>1, <2>1
<1>2. CASE open # <<>>
    <2>1. Chunk!Pushed([done |-> done, now |-> open]) = more
        BY <1>2 DEF Chunk!Pushed
    <2> HIDE DEF more
    <2>2. /\ more \in Seq(Seq(Chars)) /\ Orderly(more) /\ OfAll(more) = OfAll(done) \cup Of(open)
          /\ \A i \in 1..Len(more) : Fits(text, more[i])
        BY <1>0, <1>2, PushHolds DEF more
    <2>3. Below(OfAll(more), Of(<<>>)) /\ Rising(<<>>) /\ X = OfAll(more) \cup Of(<<>>) /\ <<>> \in Seq(Chars)
        <3>1. Of(<<>>) = {} /\ Rising(<<>>)
            BY NothingOf
        <3>2. Below(OfAll(more), Of(<<>>))
            BY <3>1, BelowNothing
        <3>3. X = OfAll(more) \cup Of(<<>>)
            BY <1>0, <2>2, <3>1
        <3>4. <<>> \in Seq(Chars)
            OBVIOUS
        <3> QED BY <3>1, <3>2, <3>3, <3>4
    <2>4. Holds(text, more, <<>>, X)
        BY <2>2, <2>3, Zenon DEF Holds
    <2> QED BY <2>1, <2>4
<1> QED BY <1>1, <1>2

\* More is gathered.
LEMMA JoinHolds ==
    ASSUME NEW text, NEW done, NEW open, NEW X, Holds(text, done, open, X),
           NEW b \in Seq(Chars), Rising(b), Below(X, Of(b)), NEW sep \in Seq({Chunk!Space})
    PROVE  Holds(text, done, Chunk!Join(open, sep, b), X \cup Of(b))
<1> DEFINE c == Chunk!Join(open, sep, b)
<1>0. /\ done \in Seq(Seq(Chars)) /\ open \in Seq(Chars)
      /\ Orderly(done) /\ Rising(open) /\ Below(OfAll(done), Of(open))
      /\ \A i \in 1..Len(done) : Fits(text, done[i])
      /\ X = OfAll(done) \cup Of(open)
    BY Zenon DEF Holds
<1>1. Below(OfAll(done), Of(b)) /\ Below(Of(open), Of(b))
    <2>1. OfAll(done) \in SUBSET X /\ Of(open) \in SUBSET X /\ Of(b) \in SUBSET Of(b)
        BY <1>0
    <2> QED BY <2>1, BelowPart
<1>2. c \in Seq(Chars) /\ Rising(c) /\ Of(c) = Of(open) \cup Of(b)
    BY <1>0, <1>1, JoinIs
<1> HIDE DEF c
<1>3. Below(OfAll(done), Of(c))
    <2>1. Below(OfAll(done), Of(open) \cup Of(b))
        BY <1>0, <1>1, BelowBoth
    <2> QED BY <1>2, <2>1
<1>4. X \cup Of(b) = OfAll(done) \cup Of(c)
    BY <1>0, <1>2
<1>5. Holds(text, done, c, X \cup Of(b))
    BY <1>0, <1>2, <1>3, <1>4, Zenon DEF Holds
<1> QED BY <1>5 DEF c

LEMMA StartHolds ==
    ASSUME NEW text, NEW done, NEW X, Holds(text, done, <<>>, X),
           NEW b \in Seq(Chars), Rising(b), Below(X, Of(b))
    PROVE  Holds(text, done, b, X \cup Of(b))
<1>1. Chunk!Join(<<>>, <<>>, b) = b
    BY DEF Chunk!Join
<1>2. <<>> \in Seq({Chunk!Space})
    OBVIOUS
<1>3. Holds(text, done, Chunk!Join(<<>>, <<>>, b), X \cup Of(b))
    BY <1>2, JoinHolds
<1> QED BY <1>1, <1>3

\* A piece of full length is cut off.
LEMMA PeelHolds ==
    ASSUME MaxChunkSize \in Nat \ {0}, NEW text, NEW done, NEW open, NEW X, Holds(text, done, open, X),
           MaxChunkSize <= Len(open),
           NEW more, more = Append(done, SubSeq(open, 1, MaxChunkSize)),
           NEW left, left = SubSeq(open, MaxChunkSize + 1, Len(open))
    PROVE  Holds(text, more, left, X)
<1> DEFINE head == SubSeq(open, 1, MaxChunkSize)
<1>0. /\ done \in Seq(Seq(Chars)) /\ open \in Seq(Chars)
      /\ Orderly(done) /\ Rising(open) /\ Below(OfAll(done), Of(open))
      /\ \A i \in 1..Len(done) : Fits(text, done[i])
      /\ X = OfAll(done) \cup Of(open)
    BY Zenon DEF Holds
<1>1. MaxChunkSize \in 0..Len(open)
    BY <1>0
<1> HIDE DEF head
<1>2. /\ head \in Seq(Chars) /\ Len(head) = MaxChunkSize /\ Rising(head)
      /\ left \in Seq(Chars) /\ Rising(left)
      /\ Of(open) = Of(head) \cup Of(left)
      /\ Below(Of(head), Of(left))
    <2>1. head = SubSeq(open, 1, MaxChunkSize)
        BY DEF head
    <2>2. open \in Seq(Chars) /\ Rising(open)
        BY <1>0
    <2> DEFINE m == MaxChunkSize
    <2>3. head = SubSeq(open, 1, m) /\ left = SubSeq(open, m + 1, Len(open)) /\ m \in 0..Len(open)
        BY <1>1, <2>1
    <2> HIDE DEF m
    <2>4. Parts(open, m, head, left)
        BY <2>2, <2>3, PartsAre
    <2> QED BY <2>4 DEF Parts, m
<1>3. Fits(text, head)
    <2>1. head # <<>> /\ Len(head) <= MaxChunkSize
        BY <1>2
    <2> QED BY <2>1 DEF Fits
<1>4. Below(OfAll(done), Of(head)) /\ Below(OfAll(done), Of(left))
    <2>1. OfAll(done) \in SUBSET OfAll(done) /\ Of(head) \in SUBSET Of(open) /\ Of(left) \in SUBSET Of(open)
        BY <1>2
    <2> QED BY <1>0, <2>1, BelowPart
<1>5. /\ more \in Seq(Seq(Chars)) /\ Orderly(more) /\ OfAll(more) = OfAll(done) \cup Of(head)
      /\ \A i \in 1..Len(more) : Fits(text, more[i])
    <2>1. more = Append(done, head)
        BY DEF head
    <2> QED BY <1>0, <1>2, <1>3, <1>4, <2>1, PushHolds
<1>6. Below(OfAll(more), Of(left))
    <2>1. Below(OfAll(done) \cup Of(head), Of(left))
        BY <1>2, <1>4, BelowBoth
    <2> QED BY <1>5, <2>1
<1>7. X = OfAll(more) \cup Of(left)
    BY <1>0, <1>2, <1>5
<1> QED BY <1>2, <1>5, <1>6, <1>7, Zenon DEF Holds

\* All that is too long is cut by length.
LEMMA CutHolds ==
    ASSUME MaxChunkSize \in Nat \ {0}, NEW text, NEW done, NEW open, NEW X, Holds(text, done, open, X)
    PROVE  \E d, r : /\ Chunk!CutByLength([done |-> done, now |-> open]) = [done |-> d, now |-> r]
                     /\ Holds(text, d, r, X) /\ Len(r) <= MaxChunkSize
<1>0. done \in Seq(Seq(Chars)) /\ open \in Seq(Chars)
    BY Zenon DEF Holds
<1>1. PICK n, d, r :
          /\ n \in Nat /\ d \in [0..n -> Seq(Seq(Chars))] /\ r \in [0..n -> Seq(Chars)]
          /\ Peels(done, open, n, d, r)
    BY <1>0, CutPeels
<1>5. /\ d[0] = done /\ r[0] = open
      /\ \A m \in 1..n :
            /\ MaxChunkSize <= Len(r[m - 1])
            /\ d[m] = Append(d[m - 1], SubSeq(r[m - 1], 1, MaxChunkSize))
            /\ r[m] = SubSeq(r[m - 1], MaxChunkSize + 1, Len(r[m - 1]))
      /\ Chunk!CutByLength([done |-> done, now |-> open]) = [done |-> d[n], now |-> r[n]]
      /\ Len(r[n]) <= MaxChunkSize
    BY <1>1 DEF Peels
<1> DEFINE T == {m \in 0..n : Holds(text, d[m], r[m], X)}
<1>2. 0 \in T
    BY <1>1, <1>5
<1>3. ASSUME NEW m \in 1..n, m - 1 \in T PROVE m \in T
    <2>1. Holds(text, d[m - 1], r[m - 1], X) /\ m \in 0..n
        BY <1>3
    <2>2. /\ MaxChunkSize <= Len(r[m - 1])
          /\ d[m] = Append(d[m - 1], SubSeq(r[m - 1], 1, MaxChunkSize))
          /\ r[m] = SubSeq(r[m - 1], MaxChunkSize + 1, Len(r[m - 1]))
        BY <1>5
    <2>3. Holds(text, d[m], r[m], X)
        BY <2>1, <2>2, PeelHolds
    <2> QED BY <2>1, <2>3
<1>4. n \in T
    <2> HIDE DEF T
    <2>1. \A m \in 0..n : m \in T
        BY <1>1, <1>2, <1>3, UpToN
    <2> QED BY <1>1, <2>1
<1> QED BY <1>4, <1>5

LEMMA SentenceType ==
    ASSUME NEW text \in Written, NEW p \in DOMAIN text, NEW s \in DOMAIN text[p]
    PROVE  Chunk!Sentence(text, p, s) \in Seq(Chars)
<1>1. p \in Nat /\ s \in Nat /\ text[p][s] \in Nat
    BY DEF Written
<1> QED BY <1>1 DEF Chunk!Sentence, Chars

LEMMA JoinType ==
    ASSUME NEW a \in Seq(Chars), NEW b \in Seq(Chars), NEW sep \in Seq({Chunk!Space})
    PROVE  Chunk!Join(a, sep, b) \in Seq(Chars)
<1>1. sep \in Seq(Chars)
    BY SpaceIsChar
<1> QED BY <1>1 DEF Chunk!Join

LEMMA PushedType ==
    ASSUME NEW acc \in Gathered
    PROVE  Chunk!Pushed(acc) \in Seq(Seq(Chars))
<1>1. acc.done \in Seq(Seq(Chars)) /\ acc.now \in Seq(Chars)
    BY DEF Gathered
<1> QED BY <1>1 DEF Chunk!Pushed

\* What is gathered, and only that, is replaced.
LEMMA NowIs ==
    ASSUME NEW acc \in Gathered, NEW open \in Seq(Chars)
    PROVE  /\ [acc EXCEPT !.now = open] = [done |-> acc.done, now |-> open]
           /\ [acc EXCEPT !.now = open] \in Gathered
BY DEF Gathered

LEMMA AddSentenceType ==
    ASSUME NEW acc \in Gathered, NEW sentence \in Seq(Chars)
    PROVE  Chunk!AddSentence(acc, sentence) \in Gathered
<1> DEFINE joined == Chunk!Join(acc.now, <<Chunk!Space>>, sentence)
<1>1. acc.now \in Seq(Chars)
    BY DEF Gathered
<1>2. joined \in Seq(Chars)
    BY <1>1, SpaceIsChar, JoinType
<1>3. [acc EXCEPT !.now = joined] \in Gathered
    BY <1>2, NowIs
<1>4. [done |-> Chunk!Pushed(acc), now |-> sentence] \in Gathered
    BY PushedType DEF Gathered
<1> QED BY <1>3, <1>4, Zenon DEF Chunk!AddSentence

\* A fold of the numbers up to N is a chain of as many steps.
Chain(a, N, S, base, step, end) ==
    /\ a \in [0..N -> S] /\ a[0] = base /\ a[N] = end
    /\ \A n \in 1..N : a[n] = step[n][a[n - 1]]

LEMMA FoldIs ==
    ASSUME NEW N \in Nat, NEW S, NEW base \in S, NEW step \in [1..N -> [S -> S]], NEW g, g[{}] = base,
           \A s \in SUBSET (1..N) : s # {} /\ g[s \ {Search!Max(s)}] \in S
               => g[s] = step[Search!Max(s)][g[s \ {Search!Max(s)}]]
    PROVE  \E a : Chain(a, N, S, base, step, g[1..N])
<1> DEFINE a == [n \in 0..N |-> g[1..n]]
           T == {n \in 0..N : g[1..n] \in S}
<1>1. 0 \in T
    <2>1. 1..0 = {} /\ 0 \in 0..N
        OBVIOUS
    <2> QED BY <2>1
<1>2. ASSUME NEW n \in 1..N, g[1..(n - 1)] \in S PROVE g[1..n] = step[n][g[1..(n - 1)]]
    <2>1. n \in Nat \ {0} /\ 1..n \in SUBSET (1..N)
        OBVIOUS
    <2>2. Search!Max(1..n) = n /\ (1..n) \ {n} = 1..(n - 1) /\ 1..n # {}
        BY <2>1, FoldsOneMore
    <2> QED BY <1>2, <2>1, <2>2
<1>3. ASSUME NEW n \in 1..N, n - 1 \in T PROVE n \in T
    <2>1. step[n] \in [S -> S] /\ n \in 0..N
        OBVIOUS
    <2> QED BY <1>2, <1>3, <2>1
<1>4. \A n \in 0..N : n \in T
    <2> HIDE DEF T
    <2> QED BY <1>1, <1>3, UpToN
<1>5. a \in [0..N -> S] /\ a[0] = base /\ a[N] = g[1..N]
    <2>1. 1..0 = {} /\ 0 \in 0..N /\ N \in 0..N
        OBVIOUS
    <2> QED BY <1>4, <2>1
<1>6. ASSUME NEW n \in 1..N PROVE a[n] = step[n][a[n - 1]]
    <2>1. n \in 0..N /\ n - 1 \in 0..N
        OBVIOUS
    <2> QED BY <1>2, <1>4, <2>1
<1> HIDE DEF a
<1>7. Chain(a, N, S, base, step, g[1..N])
    BY <1>5, <1>6 DEF Chain
<1> QED BY <1>7

\* A paragraph is joined sentence by sentence.
LEMMA ParagraphFolds ==
    ASSUME NEW text \in Written, NEW p \in DOMAIN text
    PROVE  \E a : /\ a \in [0..Len(text[p]) -> Seq(Chars)] /\ a[0] = <<>>
                  /\ \A n \in 1..Len(text[p]) : a[n] = Chunk!Join(a[n - 1], <<Chunk!Space>>, Chunk!Sentence(text, p, n))
                  /\ Chunk!Paragraph(text, p) = a[Len(text[p])]
<1> DEFINE N == Len(text[p])
           S == Seq(Chars)
           id == [i \in DOMAIN text[p] |-> i]
           step == [n \in 1..N |-> [acc \in S |-> Chunk!Join(acc, <<Chunk!Space>>, Chunk!Sentence(text, p, n))]]
           P(g) == g = [s \in SUBSET (DOMAIN id) |->
                    IF s = {} THEN <<>>
                    ELSE Chunk!Join(g[s \ {Chunk!Max(s)}], <<Chunk!Space>>, Chunk!Sentence(text, p, id[Chunk!Max(s)]))]
           iter == CHOOSE g : P(g)
<1>0. \A s : Chunk!Max(s) = Search!Max(s)
    BY DEF Chunk!Max, Search!Max
<1>1. N \in Nat /\ DOMAIN text[p] = 1..N /\ DOMAIN id = 1..N
    BY DEF Written
<1>2. Chunk!Paragraph(text, p) = iter[DOMAIN id]
    BY Zenon DEF Chunk!Paragraph, Chunk!FoldLeftDomain, Chunk!FoldLeft, Chunk!MapThenFoldSet
<1>3. step \in [1..N -> [S -> S]]
    <2>1. ASSUME NEW n \in 1..N, NEW acc \in S PROVE Chunk!Join(acc, <<Chunk!Space>>, Chunk!Sentence(text, p, n)) \in S
        <3>1. Chunk!Sentence(text, p, n) \in Seq(Chars)
            BY SentenceType
        <3> QED BY <3>1, JoinType, SpaceIsChar
    <2> HIDE DEF N, S
    <2> QED BY <2>1
<1>4. <<>> \in S
    OBVIOUS
<1>5. ASSUME NEW s \in SUBSET (1..N), s # {}
      PROVE  Search!Max(s) \in 1..N /\ Chunk!Max(s) = Search!Max(s) /\ id[Chunk!Max(s)] = Search!Max(s)
    <2> HIDE DEF N
    <2>1. Search!Max(s) \in 1..N
        BY <1>1, <1>5, LargestIn
    <2> QED BY <1>0, <1>1, <2>1
<1>6. PICK f \in [SUBSET (1..N) -> S] : IsFold(f, N, <<>>, step)
    <2> HIDE DEF N, S, step
    <2> QED BY <1>1, <1>3, <1>4, FoldExists
<1>7. ASSUME NEW s \in SUBSET (1..N), s # {}
      PROVE  f[s] = Chunk!Join(f[s \ {Chunk!Max(s)}], <<Chunk!Space>>, Chunk!Sentence(text, p, id[Chunk!Max(s)]))
    <2>1. f[s \ {Search!Max(s)}] \in S
        <3> HIDE DEF N, S
        <3> QED OBVIOUS
    <2>2. f[s] = step[Search!Max(s)][f[s \ {Search!Max(s)}]]
        <3> HIDE DEF step, N, S
        <3> QED BY <1>6, <1>7 DEF IsFold
    <2>3. Search!Max(s) \in 1..N /\ Chunk!Max(s) = Search!Max(s) /\ id[Chunk!Max(s)] = Search!Max(s)
        BY <1>5, <1>7
    <2> HIDE DEF N, S, id
    <2> QED BY <2>1, <2>2, <2>3
<1>8. P(iter)
    <2>1. \A s \in SUBSET (1..N) : s = {} => f[s] = <<>>
        <3> HIDE DEF N, S, step
        <3> QED BY <1>6 DEF IsFold
    <2>2. P(f)
        <3> HIDE DEF N, S, step, id
        <3> QED BY <1>1, <1>7, <2>1, Zenon
    <2> HIDE DEF P
    <2> QED BY <2>2
<1> HIDE DEF iter
<1>9. iter[{}] = <<>>
    <2> HIDE DEF id
    <2> QED BY <1>8
<1>10. ASSUME NEW s \in SUBSET (1..N), s # {}, iter[s \ {Search!Max(s)}] \in S
       PROVE  iter[s] = step[Search!Max(s)][iter[s \ {Search!Max(s)}]]
    <2>1. iter[s] = Chunk!Join(iter[s \ {Chunk!Max(s)}], <<Chunk!Space>>, Chunk!Sentence(text, p, id[Chunk!Max(s)]))
        <3> HIDE DEF id, N
        <3> QED BY <1>1, <1>8, <1>10, Zenon
    <2>2. Search!Max(s) \in 1..N /\ Chunk!Max(s) = Search!Max(s) /\ id[Chunk!Max(s)] = Search!Max(s)
        BY <1>5, <1>10
    <2> HIDE DEF N, S, id
    <2> QED BY <1>10, <2>1, <2>2
<1>13. PICK a : Chain(a, N, S, <<>>, step, iter[1..N])
    <2> HIDE DEF N, S, step, P
    <2> DEFINE base == <<>>
    <2>1. base \in S /\ iter[{}] = base /\ N \in Nat
        BY <1>1, <1>4, <1>9
    <2> HIDE DEF base
    <2>2. \E a : Chain(a, N, S, base, step, iter[1..N])
        BY <1>3, <1>10, <2>1, FoldIs
    <2> QED BY <2>2 DEF base
<1>11. a \in [0..N -> S] /\ a[0] = <<>> /\ a[N] = iter[1..N] /\ \A n \in 1..N : a[n] = step[n][a[n - 1]]
    <2> HIDE DEF N, S, step, P
    <2> QED BY <1>13 DEF Chain
<1>12. ASSUME NEW n \in 1..N PROVE a[n] = Chunk!Join(a[n - 1], <<Chunk!Space>>, Chunk!Sentence(text, p, n))
    <2>1. n - 1 \in 0..N
        <3> HIDE DEF N
        <3> QED BY <1>1
    <2>2. a[n - 1] \in S /\ a[n] = step[n][a[n - 1]]
        <3> HIDE DEF N, S, step
        <3> QED BY <1>11, <2>1
    <2> HIDE DEF N, S
    <2> QED BY <2>2
<1> QED BY <1>1, <1>2, <1>11, <1>12

\* So is a long one added to what is gathered.
LEMMA SentencesFold ==
    ASSUME NEW text \in Written, NEW p \in DOMAIN text, NEW start \in Gathered
    PROVE  \E a : /\ a \in [0..Len(text[p]) -> Gathered] /\ a[0] = start
                  /\ \A n \in 1..Len(text[p]) : a[n] = Chunk!AddSentence(a[n - 1], Chunk!Sentence(text, p, n))
                  /\ Chunk!AddSentences(text, start, p) = a[Len(text[p])]
<1> DEFINE N == Len(text[p])
           S == Gathered
           id == [i \in DOMAIN text[p] |-> i]
           step == [n \in 1..N |-> [acc \in S |-> Chunk!AddSentence(acc, Chunk!Sentence(text, p, n))]]
           P(g) == g = [s \in SUBSET (DOMAIN id) |->
                    IF s = {} THEN start
                    ELSE Chunk!AddSentence(g[s \ {Chunk!Max(s)}], Chunk!Sentence(text, p, id[Chunk!Max(s)]))]
           iter == CHOOSE g : P(g)
<1>0. \A s : Chunk!Max(s) = Search!Max(s)
    BY DEF Chunk!Max, Search!Max
<1>1. N \in Nat /\ DOMAIN text[p] = 1..N /\ DOMAIN id = 1..N
    BY DEF Written
<1>2. Chunk!AddSentences(text, start, p) = iter[DOMAIN id]
    BY Zenon DEF Chunk!AddSentences, Chunk!FoldLeftDomain, Chunk!FoldLeft, Chunk!MapThenFoldSet
<1>3. step \in [1..N -> [S -> S]]
    <2>1. ASSUME NEW n \in 1..N, NEW acc \in S PROVE Chunk!AddSentence(acc, Chunk!Sentence(text, p, n)) \in S
        <3>1. Chunk!Sentence(text, p, n) \in Seq(Chars)
            BY SentenceType
        <3> QED BY <3>1, AddSentenceType
    <2> HIDE DEF N, S
    <2> QED BY <2>1
<1>4. start \in S
    OBVIOUS
<1>5. ASSUME NEW s \in SUBSET (1..N), s # {}
      PROVE  Search!Max(s) \in 1..N /\ Chunk!Max(s) = Search!Max(s) /\ id[Chunk!Max(s)] = Search!Max(s)
    <2> HIDE DEF N
    <2>1. Search!Max(s) \in 1..N
        BY <1>1, <1>5, LargestIn
    <2> QED BY <1>0, <1>1, <2>1
<1>6. PICK f \in [SUBSET (1..N) -> S] : IsFold(f, N, start, step)
    <2> HIDE DEF N, S, step
    <2> QED BY <1>1, <1>3, <1>4, FoldExists
<1>7. ASSUME NEW s \in SUBSET (1..N), s # {}
      PROVE  f[s] = Chunk!AddSentence(f[s \ {Chunk!Max(s)}], Chunk!Sentence(text, p, id[Chunk!Max(s)]))
    <2>1. f[s \ {Search!Max(s)}] \in S
        <3> HIDE DEF N, S
        <3> QED OBVIOUS
    <2>2. f[s] = step[Search!Max(s)][f[s \ {Search!Max(s)}]]
        <3> HIDE DEF step, N, S
        <3> QED BY <1>6, <1>7 DEF IsFold
    <2>3. Search!Max(s) \in 1..N /\ Chunk!Max(s) = Search!Max(s) /\ id[Chunk!Max(s)] = Search!Max(s)
        BY <1>5, <1>7
    <2> HIDE DEF N, S, id
    <2> QED BY <2>1, <2>2, <2>3
<1>8. P(iter)
    <2>1. \A s \in SUBSET (1..N) : s = {} => f[s] = start
        <3> HIDE DEF N, S, step
        <3> QED BY <1>6 DEF IsFold
    <2>2. P(f)
        <3> HIDE DEF N, S, step, id
        <3> QED BY <1>1, <1>7, <2>1, Zenon
    <2> HIDE DEF P
    <2> QED BY <2>2
<1> HIDE DEF iter
<1>9. iter[{}] = start
    <2> HIDE DEF id
    <2> QED BY <1>8
<1>10. ASSUME NEW s \in SUBSET (1..N), s # {}, iter[s \ {Search!Max(s)}] \in S
       PROVE  iter[s] = step[Search!Max(s)][iter[s \ {Search!Max(s)}]]
    <2>1. iter[s] = Chunk!AddSentence(iter[s \ {Chunk!Max(s)}], Chunk!Sentence(text, p, id[Chunk!Max(s)]))
        <3> HIDE DEF id, N
        <3> QED BY <1>1, <1>8, <1>10, Zenon
    <2>2. Search!Max(s) \in 1..N /\ Chunk!Max(s) = Search!Max(s) /\ id[Chunk!Max(s)] = Search!Max(s)
        BY <1>5, <1>10
    <2> HIDE DEF N, S, id
    <2> QED BY <1>10, <2>1, <2>2
<1>13. PICK a : Chain(a, N, S, start, step, iter[1..N])
    <2> HIDE DEF N, S, step, P
    <2> DEFINE base == start
    <2>1. base \in S /\ iter[{}] = base /\ N \in Nat
        BY <1>1, <1>4, <1>9
    <2> HIDE DEF base
    <2>2. \E a : Chain(a, N, S, base, step, iter[1..N])
        BY <1>3, <1>10, <2>1, FoldIs
    <2> QED BY <2>2 DEF base
<1>11. a \in [0..N -> S] /\ a[0] = start /\ a[N] = iter[1..N] /\ \A n \in 1..N : a[n] = step[n][a[n - 1]]
    <2> HIDE DEF N, S, step, P
    <2> QED BY <1>13 DEF Chain
<1>12. ASSUME NEW n \in 1..N PROVE a[n] = Chunk!AddSentence(a[n - 1], Chunk!Sentence(text, p, n))
    <2>1. n - 1 \in 0..N
        <3> HIDE DEF N
        <3> QED BY <1>1
    <2>2. a[n - 1] \in S /\ a[n] = step[n][a[n - 1]]
        <3> HIDE DEF N, S, step
        <3> QED BY <1>11, <2>1
    <2> HIDE DEF N, S
    <2> QED BY <2>2
<1> QED BY <1>1, <1>2, <1>11, <1>12

(* The characters of a sentence, of the first s sentences of a paragraph, of the first p paragraphs. *)

Line(text, p, s) == {x \in Chars : x[1] = p /\ x[2] = s /\ x[3] \in 1..text[p][s]}
Within(text, p, s) == {x \in Chars : x[1] = p /\ x[2] \in 1..s /\ x[3] \in 1..text[p][x[2]]}
Said(text, p) == {x \in Chars :
    x[1] \in 1..p /\ x[2] \in 1..Len(text[x[1]]) /\ x[3] \in 1..text[x[1]][x[2]]}

LEMMA Places ==
    ASSUME NEW text \in Written, NEW p \in 1..Len(text)
    PROVE  /\ p \in Nat \ {0} /\ p \in DOMAIN text /\ Len(text[p]) \in Nat
           /\ \A s \in 1..Len(text[p]) : s \in Nat \ {0} /\ s \in DOMAIN text[p] /\ text[p][s] \in Nat \ {0}
BY DEF Written

\* A sentence is in order and has its characters.
LEMMA SentenceIs ==
    ASSUME NEW text \in Written, NEW p \in 1..Len(text), NEW s \in 1..Len(text[p]),
           NEW seq, seq = Chunk!Sentence(text, p, s)
    PROVE  seq \in Seq(Chars) /\ Rising(seq) /\ Of(seq) = Line(text, p, s) /\ seq # <<>>
<1> DEFINE N == text[p][s]
<1>0. p \in Nat \ {0} /\ s \in Nat \ {0} /\ N \in Nat \ {0}
    BY Places
<1>1. seq = [c \in 1..N |-> <<p, s, c>>]
    BY DEF Chunk!Sentence
<1> HIDE DEF N
<1>2. Len(seq) = N /\ (\A c \in 1..N : seq[c] = <<p, s, c>>) /\ seq \in Seq(Chars) /\ seq # <<>>
    <2>1. \A c \in 1..N : <<p, s, c>> \in Chars
        BY <1>0 DEF Chars
    <2> QED BY <1>0, <1>1, <2>1
<1>3. \A c \in 1..N : seq[c] # Chunk!Space /\ seq[c] \in Chars
    <2>1. \A c \in 1..N : <<p, s, c>> # <<0, 0, 0>> /\ <<p, s, c>> \in Chars
        BY <1>0 DEF Chars
    <2> QED BY <1>2, <2>1 DEF Chunk!Space
<1>4. Rising(seq)
    <2>1. ASSUME NEW k \in 1..Len(seq), NEW l \in 1..Len(seq), k < l PROVE Chunk!Earlier(seq[k], seq[l])
        <3>1. seq[k] = <<p, s, k>> /\ seq[l] = <<p, s, l>>
            BY <1>2
        <3> QED BY <2>1, <3>1 DEF Chunk!Earlier
    <2> QED BY <2>1, Zenon DEF Rising
<1>5. ASSUME NEW x \in Of(seq) PROVE x \in Line(text, p, s)
    <2>1. PICK c \in 1..Len(seq) : x = seq[c]
        BY Zenon DEF Of
    <2>2. x = <<p, s, c>> /\ c \in 1..N /\ x \in Chars
        BY <1>2, <1>3, <2>1
    <2>3. x[1] = p /\ x[2] = s /\ x[3] \in 1..N
        BY <2>2
    <2> QED BY <2>2, <2>3 DEF Line, N
<1>6. ASSUME NEW x \in Line(text, p, s) PROVE x \in Of(seq)
    <2>1. x \in Chars /\ x[1] = p /\ x[2] = s /\ x[3] \in 1..N
        BY DEF Line, N
    <2>2. x = <<p, s, x[3]>>
        BY <2>1 DEF Chars
    <2> DEFINE c == x[3]
    <2>3. c \in 1..N /\ x = <<p, s, c>>
        BY <2>1, <2>2
    <2> HIDE DEF c
    <2>4. c \in 1..Len(seq) /\ seq[c] = x /\ seq[c] # Chunk!Space
        BY <1>2, <1>3, <2>3
    <2> QED BY <2>4, Zenon DEF Of
<1>7. Of(seq) = Line(text, p, s)
    BY <1>5, <1>6
<1> QED BY <1>2, <1>4, <1>7

\* It comes after what is said before it.
LEMMA SentenceAfter ==
    ASSUME NEW text \in Written, NEW p \in 1..Len(text), NEW s \in 1..Len(text[p])
    PROVE  /\ Below(Within(text, p, s - 1), Line(text, p, s))
           /\ Below(Said(text, p - 1), Line(text, p, s))
           /\ Within(text, p, s) = Within(text, p, s - 1) \cup Line(text, p, s)
<1>0. p \in Nat \ {0} /\ s \in Nat \ {0}
    BY Places
<1>1. ASSUME NEW x \in Within(text, p, s - 1), NEW y \in Line(text, p, s) PROVE Chunk!Earlier(x, y)
    <2>1. x[1] = p /\ x[2] \in 1..(s - 1) /\ y[1] = p /\ y[2] = s
        BY DEF Within, Line
    <2>2. x[2] < s
        BY <1>0, <2>1
    <2> QED BY <2>1, <2>2 DEF Chunk!Earlier
<1>2. ASSUME NEW x \in Said(text, p - 1), NEW y \in Line(text, p, s) PROVE Chunk!Earlier(x, y)
    <2>1. x[1] \in 1..(p - 1) /\ y[1] = p
        BY DEF Said, Line
    <2>2. x[1] < p
        BY <1>0, <2>1
    <2> QED BY <2>1, <2>2 DEF Chunk!Earlier
<1>3. ASSUME NEW x \in Chars
      PROVE  x \in Within(text, p, s) <=> x \in Within(text, p, s - 1) \/ x \in Line(text, p, s)
    <2>1. x[2] \in 1..s <=> x[2] \in 1..(s - 1) \/ x[2] = s
        BY <1>0
    <2>2. x[2] = s => text[p][x[2]] = text[p][s]
        OBVIOUS
    <2> QED BY <2>1, <2>2, Zenon DEF Within, Line
<1>4. Within(text, p, s) \subseteq Chars /\ Within(text, p, s - 1) \subseteq Chars /\ Line(text, p, s) \subseteq Chars
    BY Zenon DEF Within, Line
<1>5. Within(text, p, s) = Within(text, p, s - 1) \cup Line(text, p, s)
    BY <1>3, <1>4
<1> QED BY <1>1, <1>2, <1>5, Zenon DEF Below

\* What is said by the end of a paragraph, and before the first sentence.
LEMMA ParagraphAdds ==
    ASSUME NEW text \in Written, NEW p \in 1..Len(text)
    PROVE  /\ Said(text, p) = Said(text, p - 1) \cup Within(text, p, Len(text[p]))
           /\ Below(Said(text, p - 1), Within(text, p, Len(text[p])))
           /\ Within(text, p, 0) = {}
<1>0. p \in Nat \ {0}
    BY Places
<1>1. ASSUME NEW x \in Chars
      PROVE  x \in Said(text, p) <=> x \in Said(text, p - 1) \/ x \in Within(text, p, Len(text[p]))
    <2>1. x[1] \in 1..p <=> x[1] \in 1..(p - 1) \/ x[1] = p
        BY <1>0
    <2> QED BY <2>1, Zenon DEF Said, Within
<1>2. /\ Said(text, p) \subseteq Chars /\ Said(text, p - 1) \subseteq Chars
      /\ Within(text, p, Len(text[p])) \subseteq Chars
    BY Zenon DEF Said, Within
<1>3. Said(text, p) = Said(text, p - 1) \cup Within(text, p, Len(text[p]))
    BY <1>1, <1>2
<1>4. ASSUME NEW x \in Said(text, p - 1), NEW y \in Within(text, p, Len(text[p])) PROVE Chunk!Earlier(x, y)
    <2>1. x[1] \in 1..(p - 1) /\ y[1] = p
        BY DEF Said, Within
    <2>2. x[1] < p
        BY <1>0, <2>1
    <2> QED BY <2>1, <2>2 DEF Chunk!Earlier
<1>5. Within(text, p, 0) = {}
    <2>1. 1..0 = {}
        OBVIOUS
    <2> QED BY <2>1 DEF Within
<1> QED BY <1>3, <1>4, <1>5, Zenon DEF Below

\* A paragraph is in order and has its characters.
LEMMA ParagraphIs ==
    ASSUME NEW text \in Written, NEW p \in 1..Len(text), NEW para, para = Chunk!Paragraph(text, p)
    PROVE  para \in Seq(Chars) /\ Rising(para) /\ Of(para) = Within(text, p, Len(text[p]))
<1> DEFINE N == Len(text[p])
<1>0. N \in Nat /\ p \in DOMAIN text
    BY Places
<1>1. PICK a : /\ a \in [0..N -> Seq(Chars)] /\ a[0] = <<>>
               /\ \A n \in 1..N : a[n] = Chunk!Join(a[n - 1], <<Chunk!Space>>, Chunk!Sentence(text, p, n))
               /\ Chunk!Paragraph(text, p) = a[N]
    BY <1>0, ParagraphFolds
<1> DEFINE T == {n \in 0..N : a[n] \in Seq(Chars) /\ Rising(a[n]) /\ Of(a[n]) = Within(text, p, n)}
<1>2. 0 \in T
    <2>1. 0 \in 0..N
        BY <1>0
    <2>2. a[0] \in Seq(Chars)
        BY <1>1, <2>1
    <2>3. Rising(a[0]) /\ Of(a[0]) = {} /\ Within(text, p, 0) = {}
        BY <1>1, NothingOf, ParagraphAdds
    <2> HIDE DEF N
    <2> QED BY <2>1, <2>2, <2>3
<1>3. ASSUME NEW n \in 1..N, n - 1 \in T PROVE n \in T
    <2> DEFINE new == Chunk!Sentence(text, p, n)
               old == a[n - 1]
    <2>1. old \in Seq(Chars) /\ Rising(old) /\ Of(old) = Within(text, p, n - 1) /\ n \in 0..N
        BY <1>0, <1>3
    <2>2. new \in Seq(Chars) /\ Rising(new) /\ Of(new) = Line(text, p, n)
        BY SentenceIs
    <2>3. /\ Below(Within(text, p, n - 1), Line(text, p, n))
          /\ Within(text, p, n) = Within(text, p, n - 1) \cup Line(text, p, n)
        BY SentenceAfter
    <2>4. a[n] = Chunk!Join(old, <<Chunk!Space>>, new)
        BY <1>1
    <2> HIDE DEF N, new, old
    <2>5. /\ Chunk!Join(old, <<Chunk!Space>>, new) \in Seq(Chars)
          /\ Rising(Chunk!Join(old, <<Chunk!Space>>, new))
          /\ Of(Chunk!Join(old, <<Chunk!Space>>, new)) = Of(old) \cup Of(new)
        <3>1. Below(Of(old), Of(new))
            BY <2>1, <2>2, <2>3
        <3> QED BY <2>1, <2>2, <3>1, SpaceIsChar, JoinIs
    <2> QED BY <2>1, <2>2, <2>3, <2>4, <2>5
<1>4. N \in T
    <2> HIDE DEF T, N
    <2>1. \A n \in 0..N : n \in T
        BY <1>0, <1>2, <1>3, UpToN
    <2> QED BY <1>0, <2>1
<1> HIDE DEF N
<1> QED BY <1>1, <1>4 DEF N

\* What has become of the text when s sentences of a paragraph that is too long are added.
Gathering(text, p, s, acc) == \E d, r :
    /\ acc = [done |-> d, now |-> r]
    /\ Holds(text, d, r, Said(text, p - 1) \cup Within(text, p, s))
    /\ \/ Len(r) <= MaxChunkSize
       \/ s \in 1..Len(text[p]) /\ r = Chunk!Sentence(text, p, s)

LEMMA SentenceAdded ==
    ASSUME MaxChunkSize \in Nat \ {0}, NEW text \in Written, NEW p \in 1..Len(text), NEW s \in 1..Len(text[p]),
           NEW acc, Gathering(text, p, s - 1, acc)
    PROVE  Gathering(text, p, s, Chunk!AddSentence(acc, Chunk!Sentence(text, p, s)))
<1> DEFINE new == Chunk!Sentence(text, p, s)
           X == Said(text, p - 1) \cup Within(text, p, s - 1)
           Y == Said(text, p - 1) \cup Within(text, p, s)
<1>0. s \in Nat \ {0} /\ Len(text[p]) \in Nat
    BY Places
<1>1. PICK d, r :
          /\ acc = [done |-> d, now |-> r] /\ Holds(text, d, r, X)
          /\ Len(r) <= MaxChunkSize \/ (s - 1 \in 1..Len(text[p]) /\ r = Chunk!Sentence(text, p, s - 1))
    BY Zenon DEF Gathering
<1> DEFINE joined == Chunk!Join(r, <<Chunk!Space>>, new)
           pushed == Chunk!Pushed(acc)
<1>2. new \in Seq(Chars) /\ Rising(new) /\ Of(new) = Line(text, p, s)
    BY SentenceIs
<1>3. Below(X, Of(new)) /\ X \cup Of(new) = Y
    <2>1. /\ Below(Within(text, p, s - 1), Line(text, p, s))
          /\ Below(Said(text, p - 1), Line(text, p, s))
          /\ Within(text, p, s) = Within(text, p, s - 1) \cup Line(text, p, s)
        BY SentenceAfter
    <2>2. Below(X, Line(text, p, s))
        BY <2>1, BelowBoth
    <2>3. X \cup Line(text, p, s) = Y
        BY <2>1
    <2> HIDE DEF X, Y, new
    <2> QED BY <1>2, <2>2, <2>3
<1> HIDE DEF new, X, Y
<1>4. r = <<>> \/ Fits(text, r)
    <2>1. CASE Len(r) <= MaxChunkSize
        BY <2>1 DEF Fits
    <2>2. CASE s - 1 \in 1..Len(text[p]) /\ r = Chunk!Sentence(text, p, s - 1)
        <3>1. s - 1 \in 1..(Len(text[p]) - 1)
            BY <1>0, <2>2
        <3> QED BY <2>2, <3>1 DEF Fits
    <2> QED BY <1>1, <2>1, <2>2
<1>5. Holds(text, d, joined, Y)
    <2>1. Holds(text, d, joined, X \cup Of(new))
        BY <1>1, <1>2, <1>3, SpaceIsChar, JoinHolds
    <2> QED BY <1>3, <2>1
<1>6. Holds(text, pushed, new, Y)
    <2>1. Holds(text, pushed, <<>>, X)
        BY <1>1, <1>4, PushedHolds
    <2> HIDE DEF pushed
    <2>2. Holds(text, pushed, new, X \cup Of(new))
        BY <1>2, <1>3, <2>1, StartHolds
    <2> QED BY <1>3, <2>2
<1>7. CASE Len(joined) <= MaxChunkSize
    <2>1. Chunk!AddSentence(acc, new) = [acc EXCEPT !.now = joined]
        BY <1>1, <1>7 DEF Chunk!AddSentence
    <2> HIDE DEF joined
    <2>2. Chunk!AddSentence(acc, new) = [done |-> d, now |-> joined]
        BY <1>1, <2>1
    <2>3. Gathering(text, p, s, [done |-> d, now |-> joined])
        BY <1>5, <1>7, Zenon DEF Gathering, Y
    <2> QED BY <2>2, <2>3 DEF new
<1>8. CASE ~(Len(joined) <= MaxChunkSize)
    <2>1. Chunk!AddSentence(acc, new) = [done |-> pushed, now |-> new]
        BY <1>1, <1>8 DEF Chunk!AddSentence
    <2> HIDE DEF pushed
    <2>2. Gathering(text, p, s, [done |-> pushed, now |-> new])
        BY <1>6, Zenon DEF Gathering, Y, new
    <2> QED BY <2>1, <2>2 DEF new
<1> QED BY <1>7, <1>8

\* A paragraph that is too long, on its own.
LEMMA SentencesAdded ==
    ASSUME MaxChunkSize \in Nat \ {0}, NEW text \in Written, NEW p \in 1..Len(text),
           NEW done, Holds(text, done, <<>>, Said(text, p - 1))
    PROVE  \E d, r : /\ Chunk!AddSentences(text, [done |-> done, now |-> <<>>], p) = [done |-> d, now |-> r]
                     /\ Holds(text, d, r, Said(text, p))
<1> DEFINE N == Len(text[p])
           start == [done |-> done, now |-> <<>>]
<1>0. N \in Nat /\ p \in DOMAIN text /\ Len(text[p]) = N
    BY Places
<1>1. start \in Gathered
    <2>1. done \in Seq(Seq(Chars))
        BY Zenon DEF Holds
    <2> QED BY <2>1 DEF Gathered
<1> HIDE DEF start
<1>2. PICK a : /\ a[0] = start
               /\ \A n \in 1..N : a[n] = Chunk!AddSentence(a[n - 1], Chunk!Sentence(text, p, n))
               /\ Chunk!AddSentences(text, start, p) = a[N]
    BY <1>0, <1>1, SentencesFold
<1> DEFINE T == {n \in 0..N : Gathering(text, p, n, a[n])}
<1>3. 0 \in T
    <2>1. 0 \in 0..N
        BY <1>0
    <2>2. Said(text, p - 1) \cup Within(text, p, 0) = Said(text, p - 1) /\ Len(<<>>) <= MaxChunkSize
        BY ParagraphAdds
    <2>3. Holds(text, done, <<>>, Said(text, p - 1) \cup Within(text, p, 0))
        BY <2>2
    <2>4. Gathering(text, p, 0, [done |-> done, now |-> <<>>])
        BY <2>2, <2>3, Zenon DEF Gathering
    <2> QED BY <1>2, <2>1, <2>4 DEF start
<1>4. ASSUME NEW n \in 1..N, n - 1 \in T PROVE n \in T
    <2>1. Gathering(text, p, n - 1, a[n - 1]) /\ n \in 0..N
        BY <1>0, <1>4
    <2>2. Gathering(text, p, n, Chunk!AddSentence(a[n - 1], Chunk!Sentence(text, p, n)))
        BY <2>1, SentenceAdded
    <2> QED BY <1>2, <2>1, <2>2
<1>5. Gathering(text, p, N, a[N])
    <2> HIDE DEF N, T
    <2>1. \A n \in 0..N : n \in T
        BY <1>0, <1>3, <1>4, UpToN
    <2>2. N \in T
        BY <1>0, <2>1
    <2> QED BY <2>2 DEF T
<1>6. PICK d, r : a[N] = [done |-> d, now |-> r] /\ Holds(text, d, r, Said(text, p - 1) \cup Within(text, p, N))
    <2> HIDE DEF N
    <2> QED BY <1>5, Zenon DEF Gathering
<1>7. Said(text, p - 1) \cup Within(text, p, N) = Said(text, p)
    BY ParagraphAdds
<1> QED BY <1>2, <1>6, <1>7 DEF start

\* One more paragraph of the text.
LEMMA ParagraphAdded ==
    ASSUME MaxChunkSize \in Nat \ {0}, NEW text \in Written, NEW p \in 1..Len(text),
           NEW done, NEW open, Holds(text, done, open, Said(text, p - 1)), Len(open) <= MaxChunkSize
    PROVE  \E d, r : /\ Chunk!AddParagraph(text, [done |-> done, now |-> open], p) = [done |-> d, now |-> r]
                     /\ Holds(text, d, r, Said(text, p)) /\ Len(r) <= MaxChunkSize
<1> DEFINE acc == [done |-> done, now |-> open]
           para == Chunk!Paragraph(text, p)
           joined == Chunk!Join(open, Chunk!Blank, para)
           pushed == Chunk!Pushed(acc)
           X == Said(text, p - 1)
           Y == Said(text, p)
<1>1. para \in Seq(Chars) /\ Rising(para) /\ Of(para) = Within(text, p, Len(text[p]))
    BY ParagraphIs
<1>2. X \cup Of(para) = Y /\ Below(X, Of(para))
    BY <1>1, ParagraphAdds
<1>3. Chunk!AddParagraph(text, acc, p) =
          IF Len(joined) <= MaxChunkSize THEN [acc EXCEPT !.now = joined]
          ELSE IF Len(para) <= MaxChunkSize THEN [[done |-> pushed, now |-> <<>>] EXCEPT !.now = para]
          ELSE Chunk!CutByLength(Chunk!AddSentences(text, [done |-> pushed, now |-> <<>>], p))
    BY DEF Chunk!AddParagraph, Chunk!Flushed
<1>4. open = <<>> \/ Fits(text, open)
    BY DEF Fits
<1> HIDE DEF para
<1>5. Holds(text, pushed, <<>>, X)
    BY <1>4, PushedHolds
<1>6. CASE Len(joined) <= MaxChunkSize
    <2>1. Holds(text, done, joined, X \cup Of(para))
        BY <1>1, <1>2, SpaceIsChar, JoinHolds
    <2> HIDE DEF joined
    <2>2. [acc EXCEPT !.now = joined] = [done |-> done, now |-> joined]
        OBVIOUS
    <2>3. Chunk!AddParagraph(text, acc, p) = [done |-> done, now |-> joined]
        BY <1>3, <1>6, <2>2
    <2> QED BY <1>2, <1>6, <2>1, <2>3, Zenon
<1>7. CASE ~(Len(joined) <= MaxChunkSize) /\ Len(para) <= MaxChunkSize
    <2> HIDE DEF pushed, joined
    <2>1. Holds(text, pushed, para, X \cup Of(para))
        BY <1>1, <1>2, <1>5, StartHolds
    <2>2. [[done |-> pushed, now |-> <<>>] EXCEPT !.now = para] = [done |-> pushed, now |-> para]
        OBVIOUS
    <2>3. Chunk!AddParagraph(text, acc, p) = [done |-> pushed, now |-> para]
        BY <1>3, <1>7, <2>2
    <2> QED BY <1>2, <1>7, <2>1, <2>3, Zenon
<1>8. CASE ~(Len(joined) <= MaxChunkSize) /\ ~(Len(para) <= MaxChunkSize)
    <2> HIDE DEF pushed, joined
    <2>1. PICK e, f : /\ Chunk!AddSentences(text, [done |-> pushed, now |-> <<>>], p) = [done |-> e, now |-> f]
                      /\ Holds(text, e, f, Y)
        BY <1>5, SentencesAdded
    <2>2. PICK d, r : /\ Chunk!CutByLength([done |-> e, now |-> f]) = [done |-> d, now |-> r]
                      /\ Holds(text, d, r, Y) /\ Len(r) <= MaxChunkSize
        BY <2>1, CutHolds
    <2>3. Chunk!AddParagraph(text, acc, p) = [done |-> d, now |-> r]
        BY <1>3, <1>8, <2>1, <2>2
    <2> QED BY <2>2, <2>3, Zenon
<1> QED BY <1>6, <1>7, <1>8

\* It gathers chunks from chunks.
LEMMA AddParagraphType ==
    ASSUME MaxChunkSize \in Nat \ {0}, NEW text \in Written, NEW p \in DOMAIN text, NEW acc \in Gathered
    PROVE  Chunk!AddParagraph(text, acc, p) \in Gathered
<1> DEFINE para == Chunk!Paragraph(text, p)
           joined == Chunk!Join(acc.now, Chunk!Blank, para)
           apart == [done |-> Chunk!Pushed(acc), now |-> <<>>]
           added == Chunk!AddSentences(text, apart, p)
<1>0. p \in 1..Len(text)
    BY DEF Written
<1>1. para \in Seq(Chars)
    BY <1>0, ParagraphIs
<1>2. acc.now \in Seq(Chars) /\ apart \in Gathered /\ <<>> \in Seq(Chars)
    BY PushedType DEF Gathered
<1>3. Chunk!AddParagraph(text, acc, p) =
          IF Len(joined) <= MaxChunkSize THEN [acc EXCEPT !.now = joined]
          ELSE IF Len(para) <= MaxChunkSize THEN [apart EXCEPT !.now = para]
          ELSE Chunk!CutByLength(added)
    BY DEF Chunk!AddParagraph, Chunk!Flushed
<1> HIDE DEF para, apart
<1>4. joined \in Seq(Chars)
    BY <1>1, <1>2, SpaceIsChar, JoinType
<1>5. [acc EXCEPT !.now = joined] \in Gathered /\ [apart EXCEPT !.now = para] \in Gathered
    BY <1>1, <1>2, <1>4, NowIs
<1>6. added \in Gathered
    <2> DEFINE N == Len(text[p])
    <2>0. N \in 0..N
        BY <1>0, Places
    <2>1. PICK a : a \in [0..N -> Gathered] /\ added = a[N]
        BY <1>2, SentencesFold
    <2> HIDE DEF N, added
    <2> QED BY <2>0, <2>1
<1>7. Chunk!CutByLength(added) \in Gathered
    <2> DEFINE e == added.done
               f == added.now
    <2> HIDE DEF added
    <2>1. e \in Seq(Seq(Chars)) /\ f \in Seq(Chars) /\ added = [done |-> e, now |-> f]
        BY <1>6 DEF Gathered
    <2> HIDE DEF e, f
    <2>2. PICK n, d, r : /\ n \in Nat /\ d \in [0..n -> Seq(Seq(Chars))] /\ r \in [0..n -> Seq(Chars)]
                         /\ Peels(e, f, n, d, r)
        BY <2>1, CutPeels
    <2>3. Chunk!CutByLength(added) = [done |-> d[n], now |-> r[n]]
        BY <2>1, <2>2 DEF Peels
    <2>4. n \in 0..n
        BY <2>2
    <2>5. d[n] \in Seq(Seq(Chars)) /\ r[n] \in Seq(Chars)
        BY <2>2, <2>4
    <2> QED BY <2>3, <2>5 DEF Gathered
<1> HIDE DEF joined, added
<1> QED BY <1>3, <1>5, <1>7

\* And the text, paragraph by paragraph.
LEMMA BodiesFold ==
    ASSUME NEW text \in Written, MaxChunkSize \in Nat \ {0}
    PROVE  \E a : /\ a \in [0..Len(text) -> Gathered] /\ a[0] = [done |-> <<>>, now |-> <<>>]
                  /\ \A n \in 1..Len(text) : a[n] = Chunk!AddParagraph(text, a[n - 1], n)
                  /\ Chunk!FoldLeftDomain(LAMBDA b, p : Chunk!AddParagraph(text, b, p), [done |-> <<>>, now |-> <<>>], text) = a[Len(text)]
<1> DEFINE N == Len(text)
           S == Gathered
           id == [i \in DOMAIN text |-> i]
           step == [n \in 1..N |-> [acc \in S |-> Chunk!AddParagraph(text, acc, n)]]
           P(g) == g = [s \in SUBSET (DOMAIN id) |->
                    IF s = {} THEN [done |-> <<>>, now |-> <<>>]
                    ELSE Chunk!AddParagraph(text, g[s \ {Chunk!Max(s)}], id[Chunk!Max(s)])]
           iter == CHOOSE g : P(g)
<1>0. \A s : Chunk!Max(s) = Search!Max(s)
    BY DEF Chunk!Max, Search!Max
<1>1. N \in Nat /\ DOMAIN text = 1..N /\ DOMAIN id = 1..N
    BY DEF Written
<1>2. Chunk!FoldLeftDomain(LAMBDA b, p : Chunk!AddParagraph(text, b, p), [done |-> <<>>, now |-> <<>>], text) = iter[DOMAIN id]
    BY Zenon DEF Chunk!FoldLeftDomain, Chunk!FoldLeft, Chunk!MapThenFoldSet
<1>3. step \in [1..N -> [S -> S]]
    <2>1. ASSUME NEW n \in 1..N, NEW acc \in S PROVE Chunk!AddParagraph(text, acc, n) \in S
        <3>1. n \in DOMAIN text
            BY <1>1
        <3> QED BY <3>1, AddParagraphType
    <2> HIDE DEF N, S
    <2> QED BY <2>1
<1>4. [done |-> <<>>, now |-> <<>>] \in S
    BY DEF Gathered
<1>5. ASSUME NEW s \in SUBSET (1..N), s # {}
      PROVE  Search!Max(s) \in 1..N /\ Chunk!Max(s) = Search!Max(s) /\ id[Chunk!Max(s)] = Search!Max(s)
    <2> HIDE DEF N
    <2>1. Search!Max(s) \in 1..N
        BY <1>1, <1>5, LargestIn
    <2> QED BY <1>0, <1>1, <2>1
<1>6. PICK f \in [SUBSET (1..N) -> S] : IsFold(f, N, [done |-> <<>>, now |-> <<>>], step)
    <2> HIDE DEF N, S, step
    <2> QED BY <1>1, <1>3, <1>4, FoldExists
<1>7. ASSUME NEW s \in SUBSET (1..N), s # {}
      PROVE  f[s] = Chunk!AddParagraph(text, f[s \ {Chunk!Max(s)}], id[Chunk!Max(s)])
    <2>1. f[s \ {Search!Max(s)}] \in S
        <3> HIDE DEF N, S
        <3> QED OBVIOUS
    <2>2. f[s] = step[Search!Max(s)][f[s \ {Search!Max(s)}]]
        <3> HIDE DEF step, N, S
        <3> QED BY <1>6, <1>7 DEF IsFold
    <2>3. Search!Max(s) \in 1..N /\ Chunk!Max(s) = Search!Max(s) /\ id[Chunk!Max(s)] = Search!Max(s)
        BY <1>5, <1>7
    <2> HIDE DEF N, S, id
    <2> QED BY <2>1, <2>2, <2>3
<1>8. P(iter)
    <2>1. \A s \in SUBSET (1..N) : s = {} => f[s] = [done |-> <<>>, now |-> <<>>]
        <3> HIDE DEF N, S, step
        <3> QED BY <1>6 DEF IsFold
    <2>2. P(f)
        <3> HIDE DEF N, S, step, id
        <3> QED BY <1>1, <1>7, <2>1, Zenon
    <2> HIDE DEF P
    <2> QED BY <2>2
<1> HIDE DEF iter
<1>9. iter[{}] = [done |-> <<>>, now |-> <<>>]
    <2> HIDE DEF id
    <2> QED BY <1>8
<1>10. ASSUME NEW s \in SUBSET (1..N), s # {}, iter[s \ {Search!Max(s)}] \in S
       PROVE  iter[s] = step[Search!Max(s)][iter[s \ {Search!Max(s)}]]
    <2>1. iter[s] = Chunk!AddParagraph(text, iter[s \ {Chunk!Max(s)}], id[Chunk!Max(s)])
        <3> HIDE DEF id, N
        <3> QED BY <1>1, <1>8, <1>10, Zenon
    <2>2. Search!Max(s) \in 1..N /\ Chunk!Max(s) = Search!Max(s) /\ id[Chunk!Max(s)] = Search!Max(s)
        BY <1>5, <1>10
    <2> HIDE DEF N, S, id
    <2> QED BY <1>10, <2>1, <2>2
<1>13. PICK a : Chain(a, N, S, [done |-> <<>>, now |-> <<>>], step, iter[1..N])
    <2> HIDE DEF N, S, step, P
    <2> DEFINE base == [done |-> <<>>, now |-> <<>>]
    <2>1. base \in S /\ iter[{}] = base /\ N \in Nat
        BY <1>1, <1>4, <1>9
    <2> HIDE DEF base
    <2>2. \E a : Chain(a, N, S, base, step, iter[1..N])
        BY <1>3, <1>10, <2>1, FoldIs
    <2> QED BY <2>2 DEF base
<1>11. a \in [0..N -> S] /\ a[0] = [done |-> <<>>, now |-> <<>>] /\ a[N] = iter[1..N] /\ \A n \in 1..N : a[n] = step[n][a[n - 1]]
    <2> HIDE DEF N, S, step, P
    <2> QED BY <1>13 DEF Chain
<1>12. ASSUME NEW n \in 1..N PROVE a[n] = Chunk!AddParagraph(text, a[n - 1], n)
    <2>1. n - 1 \in 0..N
        <3> HIDE DEF N
        <3> QED BY <1>1
    <2>2. a[n - 1] \in S /\ a[n] = step[n][a[n - 1]]
        <3> HIDE DEF N, S, step
        <3> QED BY <1>11, <2>1
    <2> HIDE DEF N, S
    <2> QED BY <2>2
<1> QED BY <1>1, <1>2, <1>11, <1>12

\* A set of numbers that is not empty has a least one.
LEMMA LeastOf ==
    ASSUME NEW s \in SUBSET Nat, s # {}
    PROVE  \E i \in s : \A j \in s : i <= j
<1> DEFINE less == {pair \in Nat \X Nat : pair[1] < pair[2]}
<1>1. IsWellFoundedOn(less, Nat)
    BY NatLessThanWellFounded DEF OpToRel
<1>2. PICK i \in s : \A j \in s : ~(<<j, i>> \in less)
    <2> HIDE DEF less
    <2> QED BY <1>1, WFMin
<1>3. ASSUME NEW j \in s PROVE i <= j
    <2>1. i \in Nat /\ j \in Nat
        OBVIOUS
    <2>2. j < i => <<j, i>> \in less
        BY <2>1
    <2> HIDE DEF less
    <2> QED BY <1>2, <2>1, <2>2
<1> QED BY <1>3

\* The chunks of a text, before what they repeat is added.
LEMMA BodiesHold ==
    ASSUME MaxChunkSize \in Nat \ {0}, NEW text \in Written
    PROVE  Holds(text, Chunk!Bodies(text), <<>>, Said(text, Len(text)))
<1> DEFINE N == Len(text)
           start == [done |-> <<>>, now |-> <<>>]
<1>0. N \in Nat
    BY DEF Written
<1>1. PICK a : /\ a[0] = start
               /\ \A n \in 1..N : a[n] = Chunk!AddParagraph(text, a[n - 1], n)
               /\ Chunk!Bodies(text) = Chunk!Pushed(a[N])
    <2>1. PICK a : /\ a[0] = start
                   /\ \A n \in 1..N : a[n] = Chunk!AddParagraph(text, a[n - 1], n)
                   /\ Chunk!FoldLeftDomain(LAMBDA b, p : Chunk!AddParagraph(text, b, p), start, text) = a[N]
        BY BodiesFold
    <2>2. Chunk!Bodies(text) = Chunk!Pushed(a[N])
        BY <2>1, Zenon DEF Chunk!Bodies
    <2> QED BY <2>1, <2>2
<1> DEFINE Good(p, acc) == \E d, r : /\ acc = [done |-> d, now |-> r]
                                     /\ Holds(text, d, r, Said(text, p)) /\ Len(r) <= MaxChunkSize
           T == {n \in 0..N : Good(n, a[n])}
<1>2. 0 \in T
    <2>1. Said(text, 0) = {}
        <3>1. 1..0 = {}
            OBVIOUS
        <3> QED BY <3>1 DEF Said
    <2>2. Of(<<>>) = {} /\ OfAll(<<>>) = {} /\ Rising(<<>>) /\ Orderly(<<>>)
        BY NothingOf
    <2>3. Below(OfAll(<<>>), Of(<<>>))
        BY <2>2, BelowNothing
    <2>4. <<>> \in Seq(Chars) /\ <<>> \in Seq(Seq(Chars)) /\ Len(<<>>) = 0
        OBVIOUS
    <2>5. \A i \in 1..Len(<<>>) : Fits(text, <<>>[i])
        BY <2>4
    <2>6. Said(text, 0) = OfAll(<<>>) \cup Of(<<>>)
        BY <2>1, <2>2
    <2>7. Holds(text, <<>>, <<>>, Said(text, 0))
        BY <2>2, <2>3, <2>4, <2>5, <2>6, Zenon DEF Holds
    <2>8. 0 \in 0..N /\ Len(<<>>) <= MaxChunkSize
        BY <1>0
    <2> HIDE DEF N
    <2>9. Good(0, start)
        BY <2>7, <2>8, Zenon
    <2> HIDE DEF Good
    <2> QED BY <1>1, <2>8, <2>9
<1>3. ASSUME NEW n \in 1..N, n - 1 \in T PROVE n \in T
    <2>1. n \in 0..N /\ Good(n - 1, a[n - 1])
        <3> HIDE DEF Good
        <3> QED BY <1>0, <1>3
    <2>2. PICK d, r : /\ a[n - 1] = [done |-> d, now |-> r]
                      /\ Holds(text, d, r, Said(text, n - 1)) /\ Len(r) <= MaxChunkSize
        BY <2>1, Zenon
    <2>3. \E e, f : /\ Chunk!AddParagraph(text, [done |-> d, now |-> r], n) = [done |-> e, now |-> f]
                    /\ Holds(text, e, f, Said(text, n)) /\ Len(f) <= MaxChunkSize
        BY <2>2, ParagraphAdded
    <2>4. a[n] = Chunk!AddParagraph(text, [done |-> d, now |-> r], n)
        BY <1>1, <2>2
    <2>5. Good(n, a[n])
        BY <2>3, <2>4, Zenon
    <2> HIDE DEF Good
    <2> QED BY <2>1, <2>5
<1>4. Good(N, a[N])
    <2> HIDE DEF N, Good
    <2>1. \A n \in 0..N : n \in T
        <3> HIDE DEF T
        <3> QED BY <1>0, <1>2, <1>3, UpToN
    <2>2. N \in T
        BY <1>0, <2>1
    <2> QED BY <2>2
<1>5. PICK d, r : /\ a[N] = [done |-> d, now |-> r]
                  /\ Holds(text, d, r, Said(text, N)) /\ Len(r) <= MaxChunkSize
    <2> HIDE DEF N
    <2> QED BY <1>4, Zenon
<1>6. r = <<>> \/ Fits(text, r)
    BY <1>5 DEF Fits
<1> HIDE DEF N
<1>7. Holds(text, Chunk!Pushed([done |-> d, now |-> r]), <<>>, Said(text, N))
    BY <1>5, <1>6, PushedHolds
<1> QED BY <1>1, <1>5, <1>7 DEF N

\* What a chunk repeats is the end of the one before, and not long.
LEMMA OverlapIsTail ==
    ASSUME Overlap \in Nat, NEW prev \in Seq(Chars)
    PROVE  \E n \in 0..Len(prev) : /\ Chunk!OverlapTail(prev) = SubSeq(prev, n + 1, Len(prev))
                                   /\ Len(prev) - n <= Overlap
<1> DEFINE N == Len(prev)
           b == N - Overlap
           tail == SubSeq(prev, b + 1, N)
           white == {i \in DOMAIN tail : tail[i] = Chunk!Space}
           i0 == CHOOSE i \in white : \A j \in white : i <= j
<1>0. N \in Nat
    OBVIOUS
<1>1. CASE N <= Overlap
    <2>1. Chunk!OverlapTail(prev) = prev
        BY <1>1 DEF Chunk!OverlapTail
    <2>2. prev = SubSeq(prev, 0 + 1, N)
        OBVIOUS
    <2>3. 0 \in 0..N /\ N - 0 <= Overlap
        BY <1>0, <1>1
    <2> QED BY <2>1, <2>2, <2>3
<1>2. CASE ~(N <= Overlap)
    <2>0. b \in 0..N /\ N - b = Overlap /\ b \in Nat
        BY <1>0, <1>2
    <2>1. Chunk!OverlapTail(prev) = IF white = {} THEN tail ELSE SubSeq(tail, 1 + i0, Len(tail))
        BY <1>2 DEF Chunk!OverlapTail
    <2>2. tail \in Seq(Chars) /\ Len(tail) = Overlap /\ \A k \in 1..Overlap : tail[k] = prev[b + k]
        <3> HIDE DEF b
        <3>1. LET s == SubSeq(prev, b + 1, N) IN
                  s \in Seq(Chars) /\ Len(s) = N - b /\ \A k \in 1..(N - b) : s[k] = prev[b + k]
            BY <2>0
        <3> QED BY <2>0, <3>1
    <2>3. CASE white = {}
        <3>1. Chunk!OverlapTail(prev) = SubSeq(prev, b + 1, N)
            BY <2>1, <2>3
        <3> HIDE DEF b, N
        <3> QED BY <2>0, <3>1 DEF N
    <2>4. CASE white # {}
        <3>1. i0 \in 1..Overlap
            <4>1. white \subseteq 1..Overlap
                <5>1. DOMAIN tail = 1..Overlap
                    <6> HIDE DEF tail
                    <6> QED BY <2>2
                <5> QED BY <5>1
            <4> HIDE DEF white
            <4>2. \E i \in white : \A j \in white : i <= j
                <5>1. white \subseteq Nat
                    BY <4>1
                <5> QED BY <2>4, <5>1, LeastOf
            <4> QED BY <4>1, <4>2
        <3> HIDE DEF white, i0, tail
        <3> DEFINE n == b + i0
                   z == SubSeq(tail, 1 + i0, Len(tail))
                   w == SubSeq(prev, n + 1, N)
        <3>2. n \in 0..N /\ N - n <= Overlap /\ n \in Nat /\ N - n = Overlap - i0 /\ Overlap - i0 \in Nat
            <4> HIDE DEF N
            <4> QED BY <1>0, <1>2, <3>1
        <3>3. z \in Seq(Chars) /\ Len(z) = Overlap - i0 /\ \A k \in 1..(Overlap - i0) : z[k] = tail[i0 + k]
            BY <2>2, <3>1
        <3>4. w \in Seq(Chars) /\ Len(w) = N - n /\ \A k \in 1..(N - n) : w[k] = prev[n + k]
            <4> HIDE DEF n
            <4> QED BY <3>2
        <3>5. \A k \in 1..(Overlap - i0) : i0 + k \in 1..Overlap /\ b + (i0 + k) = n + k
            <4> HIDE DEF N
            <4> QED BY <1>0, <3>1
        <3> HIDE DEF z, w, n, b, N
        <3>6. \A k \in 1..(Overlap - i0) : z[k] = w[k]
            BY <2>2, <3>2, <3>3, <3>4, <3>5
        <3>7. z = w
            BY <3>2, <3>3, <3>4, <3>6
        <3>8. Chunk!OverlapTail(prev) = SubSeq(prev, n + 1, N)
            BY <2>1, <2>4, <3>7 DEF z, w
        <3> QED BY <3>2, <3>8 DEF N
    <2> QED BY <2>3, <2>4
<1> QED BY <1>1, <1>2

\* What ChunksCoverText says of a text and its chunks.
Covers(text, list) ==
    /\ (UNION {Chunk!ToSet(list[i].body) : i \in DOMAIN list}) \ {Chunk!Space} =
           UNION {UNION {Chunk!ToSet(Chunk!Sentence(text, p, s)) : s \in DOMAIN text[p]} : p \in DOMAIN text}
    /\ \A i, j \in DOMAIN list : \A k \in DOMAIN list[i].body, l \in DOMAIN list[j].body :
          /\ i < j \/ (i = j /\ k < l)
          /\ Chunk!Space \notin {list[i].body[k], list[j].body[l]}
          => Chunk!Earlier(list[i].body[k], list[j].body[l])
    /\ \A i \in DOMAIN list :
          /\ list[i].body # <<>>
          /\ \/ Len(list[i].body) <= MaxChunkSize
             \/ \E p \in DOMAIN text : \E s \in 1..(Len(text[p]) - 1) :
                    list[i].body = Chunk!Sentence(text, p, s)
          /\ Len(list[i].tail) <= Overlap
          /\ i > 1 => \E n \in 0..Len(list[i - 1].body) :
                          list[i].tail = SubSeq(list[i - 1].body, n + 1, Len(list[i - 1].body))

LEMMA SentenceSet ==
    ASSUME NEW text \in Written, NEW p \in 1..Len(text), NEW s \in 1..Len(text[p])
    PROVE  Chunk!ToSet(Chunk!Sentence(text, p, s)) = Line(text, p, s)
<1> DEFINE seq == Chunk!Sentence(text, p, s)
           N == text[p][s]
<1>0. p \in Nat \ {0} /\ s \in Nat \ {0} /\ N \in Nat \ {0}
    BY Places
<1>1. seq = [c \in 1..N |-> <<p, s, c>>]
    BY DEF Chunk!Sentence
<1> HIDE DEF seq, N
<1>2. ASSUME NEW x \in Chunk!ToSet(seq) PROVE x \in Line(text, p, s)
    <2>1. PICK c \in DOMAIN seq : x = seq[c]
        BY Zenon DEF Chunk!ToSet
    <2>2. x = <<p, s, c>> /\ c \in 1..N
        BY <1>1, <2>1
    <2>3. x \in Chars /\ x[1] = p /\ x[2] = s /\ x[3] \in 1..N
        BY <1>0, <2>2 DEF Chars
    <2> QED BY <2>3 DEF Line, N
<1>3. ASSUME NEW x \in Line(text, p, s) PROVE x \in Chunk!ToSet(seq)
    <2>1. x \in Chars /\ x[1] = p /\ x[2] = s /\ x[3] \in 1..N
        BY DEF Line, N
    <2>2. x = <<p, s, x[3]>>
        BY <2>1 DEF Chars
    <2> DEFINE c == x[3]
    <2>3. c \in 1..N /\ x = <<p, s, c>>
        BY <2>1, <2>2
    <2> HIDE DEF c
    <2>4. c \in DOMAIN seq /\ seq[c] = x
        BY <1>1, <2>3
    <2> QED BY <2>4, Zenon DEF Chunk!ToSet
<1> QED BY <1>2, <1>3 DEF seq

LEMMA CharactersAre ==
    ASSUME NEW text \in Written
    PROVE  UNION {UNION {Chunk!ToSet(Chunk!Sentence(text, p, s)) : s \in DOMAIN text[p]} : p \in DOMAIN text} =
               Said(text, Len(text))
<1> DEFINE of(p) == UNION {Chunk!ToSet(Chunk!Sentence(text, p, s)) : s \in DOMAIN text[p]}
<1>0. DOMAIN text = 1..Len(text) /\ \A p \in 1..Len(text) : DOMAIN text[p] = 1..Len(text[p])
    BY DEF Written
<1>1. ASSUME NEW p \in 1..Len(text), NEW x \in of(p) PROVE x \in Said(text, Len(text))
    <2>1. PICK s \in DOMAIN text[p] : x \in Chunk!ToSet(Chunk!Sentence(text, p, s))
        BY <1>1, Zenon
    <2>2. s \in 1..Len(text[p])
        BY <1>0
    <2>3. x \in Line(text, p, s)
        BY <2>1, <2>2, SentenceSet
    <2> QED BY <2>2, <2>3 DEF Line, Said
<1>2. ASSUME NEW x \in Said(text, Len(text)) PROVE \E p \in 1..Len(text) : x \in of(p)
    <2>1. /\ x \in Chars /\ x[1] \in 1..Len(text) /\ x[2] \in 1..Len(text[x[1]])
          /\ x[3] \in 1..text[x[1]][x[2]]
        BY DEF Said
    <2> DEFINE p == x[1]
               s == x[2]
    <2>2. x \in Line(text, p, s)
        BY <2>1 DEF Line
    <2>3. p \in 1..Len(text) /\ s \in 1..Len(text[p])
        BY <2>1
    <2> HIDE DEF p, s
    <2>4. x \in Chunk!ToSet(Chunk!Sentence(text, p, s)) /\ s \in DOMAIN text[p]
        BY <1>0, <2>2, <2>3, SentenceSet
    <2> QED BY <2>3, <2>4, Zenon
<1> HIDE DEF of
<1>3. UNION {of(p) : p \in DOMAIN text} = Said(text, Len(text))
    <2>1. ASSUME NEW x \in UNION {of(p) : p \in DOMAIN text} PROVE x \in Said(text, Len(text))
        <3>1. PICK p \in DOMAIN text : x \in of(p)
            BY <2>1, Zenon
        <3> QED BY <1>0, <1>1, <3>1
    <2>2. ASSUME NEW x \in Said(text, Len(text)) PROVE x \in UNION {of(p) : p \in DOMAIN text}
        <3>1. PICK p \in DOMAIN text : x \in of(p)
            BY <1>0, <1>2
        <3> QED BY <3>1, Zenon
    <2> QED BY <2>1, <2>2
<1> QED BY <1>3, Zenon DEF of

\* A text that is cut is covered by its chunks.
LEMMA ChunksCover ==
    ASSUME MaxChunkSize \in Nat \ {0}, Overlap \in Nat, NEW text \in Written
    PROVE  Covers(text, Chunk!ApplyOverlap(Chunk!Bodies(text)))
<1> DEFINE B == Chunk!Bodies(text)
           list == Chunk!ApplyOverlap(B)
<1>0. Holds(text, B, <<>>, Said(text, Len(text)))
    BY BodiesHold
<1> HIDE DEF B
<1>1. /\ B \in Seq(Seq(Chars)) /\ Orderly(B)
      /\ \A i \in 1..Len(B) : Fits(text, B[i])
      /\ Said(text, Len(text)) = OfAll(B)
    <2>1. /\ B \in Seq(Seq(Chars)) /\ Orderly(B)
          /\ \A i \in 1..Len(B) : Fits(text, B[i])
          /\ Said(text, Len(text)) = OfAll(B) \cup Of(<<>>)
        BY <1>0, Zenon DEF Holds
    <2>2. Of(<<>>) = {}
        BY NothingOf
    <2> QED BY <2>1, <2>2
<1>2. DOMAIN B = 1..Len(B) /\ Len(B) \in Nat /\ \A i \in 1..Len(B) : B[i] \in Seq(Chars)
    BY <1>1
<1>3. /\ DOMAIN list = 1..Len(B)
      /\ \A i \in 1..Len(B) :
            /\ list[i].body = B[i]
            /\ list[i].tail = IF i = 1 \/ Overlap = 0 THEN <<>> ELSE Chunk!OverlapTail(B[i - 1])
    BY <1>2 DEF Chunk!ApplyOverlap
<1> HIDE DEF list
<1>4. ASSUME NEW i \in 1..Len(B)
      PROVE  DOMAIN B[i] = 1..Len(B[i]) /\ Chunk!ToSet(B[i]) \ {Chunk!Space} = Of(B[i])
    <2>1. DOMAIN B[i] = 1..Len(B[i])
        BY <1>2
    <2> QED BY <2>1, Zenon DEF Chunk!ToSet, Of
<1>5. (UNION {Chunk!ToSet(list[i].body) : i \in DOMAIN list}) \ {Chunk!Space} = OfAll(B)
    <2>1. ASSUME NEW x \in (UNION {Chunk!ToSet(list[i].body) : i \in DOMAIN list}) \ {Chunk!Space}
          PROVE  x \in OfAll(B)
        <3>1. PICK i \in DOMAIN list : x \in Chunk!ToSet(list[i].body) /\ x # Chunk!Space
            BY <2>1
        <3>2. i \in 1..Len(B) /\ x \in Of(B[i])
            BY <1>3, <1>4, <3>1
        <3> QED BY <3>2, Zenon DEF OfAll
    <2>2. ASSUME NEW x \in OfAll(B)
          PROVE  x \in (UNION {Chunk!ToSet(list[i].body) : i \in DOMAIN list}) \ {Chunk!Space}
        <3>1. PICK i \in 1..Len(B) : x \in Of(B[i])
            BY Zenon DEF OfAll
        <3>2. x \in Chunk!ToSet(list[i].body) /\ x # Chunk!Space /\ i \in DOMAIN list
            BY <1>3, <1>4, <3>1
        <3> QED BY <3>2
    <2> HIDE DEF list
    <2> QED BY <2>1, <2>2
<1>6. (UNION {Chunk!ToSet(list[i].body) : i \in DOMAIN list}) \ {Chunk!Space} =
          UNION {UNION {Chunk!ToSet(Chunk!Sentence(text, p, s)) : s \in DOMAIN text[p]} : p \in DOMAIN text}
    BY <1>1, <1>5, CharactersAre
<1>7. ASSUME NEW i \in DOMAIN list, NEW j \in DOMAIN list,
             NEW k \in DOMAIN list[i].body, NEW l \in DOMAIN list[j].body,
             i < j \/ (i = j /\ k < l),
             Chunk!Space \notin {list[i].body[k], list[j].body[l]}
      PROVE  Chunk!Earlier(list[i].body[k], list[j].body[l])
    <2>1. /\ i \in 1..Len(B) /\ j \in 1..Len(B) /\ list[i].body = B[i] /\ list[j].body = B[j]
          /\ k \in 1..Len(B[i]) /\ l \in 1..Len(B[j])
        BY <1>3, <1>4
    <2>2. B[i][k] # Chunk!Space /\ B[j][l] # Chunk!Space
        BY <1>7, <2>1
    <2>3. CASE i < j
        <3>1. B[i][k] \in Of(B[i]) /\ B[j][l] \in Of(B[j])
            BY <2>1, <2>2, Zenon DEF Of
        <3>2. Below(Of(B[i]), Of(B[j]))
            BY <1>1, <2>1, <2>3 DEF Orderly
        <3>3. Chunk!Earlier(B[i][k], B[j][l])
            BY <3>1, <3>2, Zenon DEF Below
        <3> QED BY <2>1, <3>3
    <2>4. CASE i = j /\ k < l
        <3>1. Rising(B[i])
            BY <1>1, <2>1 DEF Orderly
        <3>2. l \in 1..Len(B[i]) /\ B[i][l] # Chunk!Space
            BY <2>1, <2>2, <2>4
        <3>3. Chunk!Earlier(B[i][k], B[i][l])
            BY <2>1, <2>2, <2>4, <3>1, <3>2 DEF Rising
        <3> QED BY <2>1, <2>4, <3>3
    <2> QED BY <1>7, <2>3, <2>4
<1>8. ASSUME NEW i \in DOMAIN list
      PROVE  /\ list[i].body # <<>>
             /\ \/ Len(list[i].body) <= MaxChunkSize
                \/ \E p \in DOMAIN text : \E s \in 1..(Len(text[p]) - 1) :
                       list[i].body = Chunk!Sentence(text, p, s)
    <2>1. i \in 1..Len(B) /\ list[i].body = B[i]
        BY <1>3
    <2>2. Fits(text, B[i])
        BY <1>1, <2>1
    <2>3. DOMAIN text = 1..Len(text)
        BY DEF Written
    <2> QED BY <2>1, <2>2, <2>3, Zenon DEF Fits
<1>9. ASSUME NEW i \in DOMAIN list
      PROVE  /\ Len(list[i].tail) <= Overlap
             /\ i > 1 => \E n \in 0..Len(list[i - 1].body) :
                             list[i].tail = SubSeq(list[i - 1].body, n + 1, Len(list[i - 1].body))
    <2>1. /\ i \in 1..Len(B)
          /\ list[i].tail = IF i = 1 \/ Overlap = 0 THEN <<>> ELSE Chunk!OverlapTail(B[i - 1])
        BY <1>3
    <2>2. i > 1 => i - 1 \in 1..Len(B) /\ list[i - 1].body = B[i - 1] /\ B[i - 1] \in Seq(Chars)
        <3>1. i > 1 => i - 1 \in 1..Len(B)
            BY <1>2, <2>1
        <3> QED BY <1>2, <1>3, <3>1
    <2>3. CASE i = 1 \/ Overlap = 0
        <3>1. list[i].tail = <<>> /\ Len(<<>>) <= Overlap
            BY <2>1, <2>3
        <3>2. ASSUME NEW seq \in Seq(Chars)
              PROVE  Len(seq) \in 0..Len(seq) /\ <<>> = SubSeq(seq, Len(seq) + 1, Len(seq))
            OBVIOUS
        <3> QED BY <2>2, <3>1, <3>2
    <2>4. CASE ~(i = 1 \/ Overlap = 0)
        <3>1. i > 1
            BY <1>2, <2>1, <2>4
        <3> DEFINE prev == B[i - 1]
        <3>2. prev \in Seq(Chars) /\ list[i - 1].body = prev /\ list[i].tail = Chunk!OverlapTail(prev)
            BY <2>1, <2>2, <2>4, <3>1
        <3> HIDE DEF prev
        <3>3. PICK n \in 0..Len(prev) : /\ Chunk!OverlapTail(prev) = SubSeq(prev, n + 1, Len(prev))
                                        /\ Len(prev) - n <= Overlap
            BY <3>2, OverlapIsTail
        <3>4. Len(SubSeq(prev, n + 1, Len(prev))) = Len(prev) - n
            BY <3>2
        <3> QED BY <3>2, <3>3, <3>4
    <2> QED BY <2>3, <2>4
<1>10. Covers(text, list)
    BY <1>6, <1>7, <1>8, <1>9, Zenon DEF Covers
<1> QED BY <1>10 DEF list, B

LEMMA CoversSays == ChunksCoverText <=> Covers(paragraphs, chunks)
BY Zenon DEF ChunksCoverText, Chunk!ChunksCoverText, Chunk!Characters, Chunk!OneOfSeveral, Covers

LEMMA TextIsWritten ==
    ASSUME Chunk!Chunk
    PROVE  paragraphs' \in Written
<1> DEFINE S == Chunk!SeqOf(1..MaxLength, MaxParts) \ {<<>>}
<1>1. paragraphs' \in Chunk!SeqOf(S, MaxParts)
    BY DEF Chunk!Chunk
<1>2. S \subseteq Seq(Nat \ {0})
    <2>1. ASSUME NEW x \in S PROVE x \in Seq(Nat \ {0})
        <3>1. PICK m \in 0..MaxParts : x \in [1..m -> 1..MaxLength]
            BY DEF Chunk!SeqOf
        <3> QED BY <3>1
    <2> QED BY <2>1
<1> HIDE DEF S
<1>3. PICK m \in 0..MaxParts : paragraphs' \in [1..m -> S]
    BY <1>1 DEF Chunk!SeqOf
<1> QED BY <1>2, <1>3 DEF Written

\* The chunks of a post's text carry all of it, in order, in pieces of limited size.
THEOREM TextIsCovered == Spec => []ChunksCoverText
<1>1. Init => ChunksCoverText
    <2>1. SUFFICES ASSUME Init PROVE Covers(paragraphs, chunks)
        BY CoversSays
    <2>2. paragraphs = <<>> /\ chunks = <<>> /\ DOMAIN <<>> = {}
        BY <2>1 DEF Init, Chunk!Init
    <2> QED BY <2>2 DEF Covers
<1>2. ASSUME ChunksCoverText, [Next]_serviceVars PROVE ChunksCoverText'
    <2>1. CASE Chunk!Chunk
        <3>1. paragraphs' \in Written /\ chunks' = Chunk!ApplyOverlap(Chunk!Bodies(paragraphs'))
            BY <2>1, TextIsWritten DEF Chunk!Chunk
        <3>2. MaxChunkSize \in Nat \ {0} /\ Overlap \in Nat
            BY ServicesOK DEF ChunkerOK
        <3>3. Covers(paragraphs', chunks')
            BY <3>1, <3>2, ChunksCover
        <3> QED BY <3>3, Zenon DEF ChunksCoverText, Chunk!ChunksCoverText, Chunk!Characters, Chunk!OneOfSeveral, Covers
    <2>2. CASE UNCHANGED chunkVars
        <3>1. UNCHANGED <<paragraphs, chunks>>
            BY <2>2 DEF chunkVars
        <3> QED BY <1>2, <3>1, CoversSays DEF ChunksCoverText, Chunk!ChunksCoverText, Chunk!Characters, Chunk!OneOfSeveral
    <2> QED BY <1>2, <2>1, <2>2, EachTakesItsOwnSteps DEF Chunk!Next
<1> QED BY <1>1, <1>2, PTL DEF Spec
=============================================================================
