------------------------------- MODULE Ranking -------------------------------
(***************************************************************************)
(* Ranking: what becomes of the candidates of a search between the fused   *)
(* lists (module Retrieval) and the answer.  reranker-service scores every *)
(* candidate, one that is too long for the model through overlapping       *)
(* windows; orchestration-mcp weights the scores by content type, sorts,   *)
(* drops what is below the relevance floor, and walks down the rest,       *)
(* leaving out neighbours of what it has kept, until top_k are kept.  If   *)
(* the service cannot be reached the fused order is walked instead.        *)
(*                                                                         *)
(* The candidates are the chunks that Chunking has just cut from one       *)
(* document, named by their place in it.  A score is a whole number and    *)
(* stands for a logit; a weight is in quarters.                            *)
(***************************************************************************)
EXTENDS Chunking, FiniteSets

CONSTANTS
    Scores,    \* what the model answers
    None,      \* no floor, and the score of a chunk the answer leaves out
    Floors,    \* RERANK_SCORE_FLOOR, or None
    Weights,   \* the weight of tables in CONTENT_TYPE_BOOSTS; others have 1
    TopK,
    Budgets,   \* tokens of the model's input that the query leaves for a chunk
    MaxRerankChunks  \* MAX_RERANK_CHUNKS

ASSUME RankingAssumption ==
    /\ Scores \subseteq Int /\ Floors \subseteq Int \cup {None} /\ Weights \subseteq Nat
    /\ None \notin Int
    /\ TopK \in Nat \ {0} /\ Budgets \subseteq Int /\ MaxRerankChunks \in Nat

VARIABLES
    stage,   \* "cut", "fused", "ranked" or "answered"
    setup,   \* the floor and the weight of tables, fixed when the service starts
    pool,    \* the candidates in the fused order
    scores,  \* the score of each, once they are ranked
    ranked,  \* the candidates in the order they are walked
    walked,  \* how many of them have been looked at
    kept     \* those kept, best first

kvars == <<stage, setup, pool, scores, ranked, walked, kept>>
pvars == <<cvars, kvars>>

RankingInit ==
    /\ ChunkingInit
    /\ stage = "cut"
    /\ setup \in [floor : Floors, weight : Weights]
    /\ pool = <<>> /\ scores = <<>> /\ ranked = <<>> /\ walked = 0 /\ kept = <<>>

-----------------------------------------------------------------------------
(* reranker-service: _window_texts, and the best of a chunk's windows *)

\* Mutant of Stride: the windows do not overlap.
StrideWithoutOverlap(budget) == budget

\* max(1, int(budget * (1 - _WINDOW_OVERLAP)))
Stride(budget) == IF 3 * budget < 4 THEN 1 ELSE (3 * budget) \div 4

\* A word is two tokens.
Tokens(c) ==
    LET s == sections[chunks[c].section] IN 2 * (s.head + Width(s, chunks[c].from, chunks[c].to))

\* The tokens scored for a chunk of n tokens: all at once if they fit or if the query
\* leaves no room, else in windows up to the first that reaches the end.
WindowTexts(n, budget) ==
    IF budget <= 0 \/ n <= budget THEN {[from |-> 0, to |-> n]}
    ELSE LET starts == {k * Stride(budget) : k \in 0..n}
             used == {s \in starts : s = 0 \/ s - Stride(budget) + budget < n}
         IN  {[from |-> s, to |-> IF s + budget < n THEN s + budget ELSE n] : s \in used}

-----------------------------------------------------------------------------
(* reranking.py *)

Type(i) == sections[chunks[i].section].type

\* In quarters, as the floor below; only what has a score is weighted.
Boosted(answer, i) ==
    IF answer[i] = None THEN None
    ELSE answer[i] * (IF Type(i) = "table" THEN setup.weight ELSE 4)

Place(i) == CHOOSE p \in DOMAIN pool : pool[p] = i

\* Best first, the fused order among equals, no score last.
Ahead(answer, i, j) ==
    LET a == Boosted(answer, i)
        b == Boosted(answer, j)
    IN  IF a = b THEN Place(i) < Place(j) ELSE b = None \/ (a # None /\ a > b)

\* sorted(..., reverse=True): every member comes after those that are ahead of it.
Sorted(answer, S) ==
    [p \in 1..Cardinality(S) |->
        CHOOSE i \in S : Cardinality({j \in S : Ahead(answer, j, i)}) = p - 1]

ClearsFloor(answer, i) ==
    setup.floor = None
        \/ (Boosted(answer, i) # None /\ Boosted(answer, i) >= 4 * setup.floor)

\* Any order of the candidates is the order of some lists.
Fuse ==
    /\ stage = "cut" /\ Finished /\ chunks # <<>>
    /\ stage' = "fused"
    /\ pool' \in {p \in [1..Len(chunks) -> 1..Len(chunks)] :
                     \A i, j \in 1..Len(chunks) : i # j => p[i] # p[j]}
    /\ UNCHANGED <<cvars, setup, scores, ranked, walked, kept>>

RankedBy(answer) ==
    /\ stage = "fused"
    /\ stage' = "ranked"
    /\ scores' = answer
    /\ ranked' = Sorted(answer, {i \in 1..Len(chunks) : ClearsFloor(answer, i)})
    /\ UNCHANGED <<cvars, setup, pool, walked, kept>>

\* reranker-service scores every chunk, as high as the best of its windows, or refuses
\* the whole batch.
Rerank ==
    /\ Len(pool) <= MaxRerankChunks
    /\ \E answer \in [1..Len(chunks) -> Scores] : RankedBy(answer)

\* A server that speaks the protocol of TEI or of Cohere is taken to answer for some.
RerankElsewhere == \E answer \in [1..Len(chunks) -> Scores \cup {None}] : RankedBy(answer)

\* The service cannot be reached or refuses: the fused order, and no floor.
RerankerDown ==
    /\ stage = "fused"
    /\ stage' = "ranked"
    /\ ranked' = pool
    /\ UNCHANGED <<cvars, setup, pool, scores, walked, kept>>

\* Mutant of Neighbour: of two neighbours only the later one can be left out.
LaterNeighbour(i, j) == i = j + 1

\* |chunk_index| distance 1, in one document.
Neighbour(i, j) == i = j + 1 \/ j = i + 1

\* Mutant of Collapses: a neighbour of anything above it in the ranking is left out.
CollapsesOnRanked(i) == \E p \in 1..walked : Neighbour(i, ranked[p])

Collapses(i) == \E p \in DOMAIN kept : Neighbour(i, kept[p])

Room == Len(kept) < TopK

Walk ==
    /\ stage = "ranked" /\ Room /\ walked < Len(ranked)
    /\ walked' = walked + 1
    /\ kept' = IF Collapses(ranked[walked + 1]) THEN kept ELSE Append(kept, ranked[walked + 1])
    /\ UNCHANGED <<cvars, stage, setup, pool, scores, ranked>>

Answer ==
    /\ stage = "ranked" /\ ~(Room /\ walked < Len(ranked))
    /\ stage' = "answered"
    /\ UNCHANGED <<cvars, setup, pool, scores, ranked, walked, kept>>

RankingNext ==
    \/ ChunkingNext /\ UNCHANGED kvars
    \/ Fuse \/ Rerank \/ RerankElsewhere \/ RerankerDown \/ Walk \/ Answer

RankingSpec == RankingInit /\ [][RankingNext]_pvars

-----------------------------------------------------------------------------
Shared(i, j) ==
    /\ chunks[i].section = chunks[j].section
    /\ chunks[i].from < chunks[j].to /\ chunks[j].from < chunks[i].to

IsKept(i) == \E p \in DOMAIN kept : kept[p] = i

\* Every reason there is for a candidate not to be in the answer: top_k better ones are
\* in it, or a better neighbour is, or it has no score or one below the floor.
NothingElseIsDropped ==
    stage = "answered" =>
        \A i \in 1..Len(chunks) : ~IsKept(i) =>
            \/ Len(kept) = TopK
            \/ \E p \in DOMAIN kept :
                  /\ Neighbour(i, kept[p])
                  /\ scores = <<>> \/ Ahead(scores, kept[p], i)
            \/ scores # <<>> /\ setup.floor # None
                 /\ (scores[i] = None
                       \/ scores[i] * (IF Type(i) = "table" THEN setup.weight ELSE 4) < 4 * setup.floor)

\* The answer does not spend two of its places on the text that two chunks share, as long
\* as only neighbours can share any: the overlap is at most half a chunk.
NoTextTwice ==
    2 * Overlap <= TargetWords => \A p, q \in DOMAIN kept : p # q => ~Shared(kept[p], kept[q])

\* #393: wherever a passage lies in a chunk that is too long for the model, one of the
\* windows that are scored has all of it, if it is no longer than the overlap of a quarter
\* and one token.
TailIsScored ==
    stage = "fused" =>
        \A c \in 1..Len(chunks), budget \in Budgets :
            LET n == Tokens(c) IN
            budget > 0 /\ n > budget =>
                \A a \in 0..(n - 1) : \A b \in (a + 1)..n :
                    b - a <= 1 + budget \div 4 =>
                        \E w \in WindowTexts(n, budget) : w.from <= a /\ b <= w.to

=============================================================================
