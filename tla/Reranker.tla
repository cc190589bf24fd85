------------------------------ MODULE Reranker ------------------------------
(***************************************************************************)
(* What the agent does with the rows its searches return: search_reels_    *)
(* hybrid fuses the dense and the sparse result, reranker.py merges, scores *)
(* and cuts the candidates, and compute_retrieval_confidence says how much *)
(* the answer may rely on them.                                            *)
(*                                                                         *)
(* A row is an id, the two search scores in percent (0 when the search did *)
(* not give one), whether it has a text to match and the query terms found  *)
(* there, and whether its caption is a string (the searches write a null    *)
(* caption as "", the keyword fallback passes it on).  Scores computed here *)
(* are in units of 1/10000, the precision the code rounds to.              *)
(***************************************************************************)
EXTENDS Integers, Sequences, FiniteSets, FiniteSetsExt

CONSTANTS
  RowIds,        \* ids of reels and of trends
  QueryTerms,    \* the words of the query
  RerankerTopK,  \* RERANKER_TOP_K
  SearchLimit,   \* the 20 of hybrid_search
  FallbackLimit  \* the 5 of hybrid_search

ASSUME RerankerAssumption ==
  /\ IsFiniteSet(QueryTerms)
  /\ RerankerTopK \in Nat \ {0}
  /\ SearchLimit \in Nat \ {0} /\ FallbackLimit \in Nat \ {0}

Percent == 0 .. 100

Row == [id : RowIds, retrieval : Percent, bm25 : Percent,
        text : BOOLEAN, terms : SUBSET QueryTerms, captioned : BOOLEAN]

AtMost(n, s) == SubSeq(s, 1, IF Len(s) < n THEN Len(s) ELSE n)

\* The places of s whose id no earlier row has, and the rows there in order.
Firsts(s) == {k \in DOMAIN s : \A j \in 1 .. k - 1 : s[j].id # s[k].id}

FirstOfEachId(s) ==
  LET first == Firsts(s)
      nth[n \in Nat] == CHOOSE k \in first :
                          Cardinality({j \in first : j <= k}) = n
  IN  [n \in 1 .. Cardinality(first) |-> s[nth[n]]]

\* search_reels_hybrid: a reel that both searches found keeps its dense row.
SearchReelsHybrid(dense, sparse) ==
  AtMost(SearchLimit, FirstOfEachId(dense \o sparse))

\* hybrid_search: the keyword search over stored reels replaces a search that
\* failed or found nothing.
HybridSearch(searched, dense, sparse, stored) ==
  LET results == SearchReelsHybrid(dense, sparse)
  IN  IF searched /\ results # <<>> THEN results ELSE AtMost(FallbackLimit, stored)

\* _fuse_scores
FuseScores(c) ==
  IF c.retrieval > 0 /\ c.bm25 > 0 THEN (c.retrieval + c.bm25) \div 2
                                   ELSE c.retrieval + c.bm25

Coverage(terms) ==
  IF QueryTerms = {} THEN 0
  ELSE (100 * Cardinality(terms)) \div Cardinality(QueryTerms)

Capped(score) == IF score > 10000 THEN 10000 ELSE score

\* _compute_reranker_score
RerankerScore(c) ==
  IF c.text THEN Capped(Coverage(c.terms) * 40 + FuseScores(c) * 30
                          + c.retrieval * 20 + c.bm25 * 10)
            ELSE 0

\* The order that the two sorts leave, by fused and then by reranker score.
Better(c, d) ==
  \/ RerankerScore(c) > RerankerScore(d)
  \/ RerankerScore(c) = RerankerScore(d) /\ FuseScores(c) > FuseScores(d)

\* merge_and_dedup_candidates, rerank_candidates, select_top_k: the rows that
\* are kept, whose order nothing reads.  Both sorts are stable: what neither
\* score tells apart stays as it was found.
Reranked(docs) ==
  LET place(k) == Cardinality({j \in Firsts(docs) :
                    \/ Better(docs[j], docs[k])
                    \/ ~ Better(docs[k], docs[j]) /\ j < k})
  IN  {docs[k] : k \in {j \in Firsts(docs) : place(j) < RerankerTopK}}

Highest(S) == Max(S \cup {0})

\* compute_retrieval_confidence, its combined score
RetrievalConfidence(top) ==
  LET best(score(_)) == Highest({score(c) : c \in top})
      retrieval(c) == c.retrieval
  IN  Capped(best(retrieval) * 35
               + (best(RerankerScore) * 40) \div 100
               + Coverage(UNION {c.terms : c \in top}) * 25)
=============================================================================
