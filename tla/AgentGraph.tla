----------------------------- MODULE AgentGraph -----------------------------
(***************************************************************************)
(* The conversation graph of the agent between its two accesses to the      *)
(* session (graph.py, nodes.py): understand the query, plan the sources,    *)
(* retrieve from them, rerank, fuse, weigh the evidence, and answer in one  *)
(* of three modes.  These nodes only read and write the state of their own  *)
(* turn, so a turn is a function of what the model, the searches and the    *)
(* tables answer; Answers is the set of the turns that can come out.        *)
(***************************************************************************)
EXTENDS Reranker

CONSTANTS
  DenseResults, SparseResults,  \* what the two searches may return
  StoredResults,                \* what the keyword fallback may find
  TrendResults,                 \* what get_trends_by_topic may return
  MaxPinned                     \* bound: reels transcribed for a request

ASSUME GraphAssumption ==
  /\ DenseResults \subseteq Seq(Row) /\ SparseResults \subseteq Seq(Row)
  /\ StoredResults \subseteq Seq(Row) /\ TrendResults \subseteq Seq(Row)
  /\ MaxPinned \in Nat

Intents == {"content_strategy", "performance_analysis", "recommendation",
            "trend_discovery", "competitor_analysis", "general"}

Sources == {"creator_knowledge", "analytics", "competitor", "trends", "hybrid_search"}

\* query_understanding_node: the keywords of the query decide when the model
\* fails or answers "general".
QueryUnderstanding(llm, keywords) ==
  IF llm \in {"failed", "general"} THEN keywords ELSE llm

\* retrieval_planner_node
RetrievalPlan(intent) ==
  CASE intent = "content_strategy" ->
         {"creator_knowledge", "analytics", "trends", "competitor"}
    [] intent = "performance_analysis" -> {"analytics", "creator_knowledge"}
    [] intent = "recommendation" -> Sources \ {"analytics"}
    [] intent \in {"trend_discovery", "competitor_analysis"} ->
         {"trends", "competitor", "hybrid_search"}
    [] OTHER -> {"creator_knowledge", "analytics", "hybrid_search"}

\* parallel_retrieval_node: the planned sources of "plan" that answered.  A
\* source that raised counts as one that found nothing; get_analytics answers a
\* record, which is true, even when there is no reel.
Retrieved(plan, answered, trends, similar, pinned) ==
  [creator    |-> "creator_knowledge" \in plan \cap answered,
   analytics  |-> "analytics" \in plan \cap answered,
   competitor |-> "competitor" \in plan \cap answered,
   trends     |-> IF "trends" \in plan \cap answered THEN trends ELSE <<>>,
   similar    |-> IF "hybrid_search" \in plan \cap answered THEN similar ELSE <<>>,
   pinned     |-> pinned]

Present(key, present) == IF present THEN {key} ELSE {}

\* reranker_node and context_fusion_node: the keys of ranked_context, which are
\* what source_count counts, the score and the number of documents.
ContextFusion(r) ==
  LET docs == r.trends \o r.similar
      top == Reranked(docs)
  IN  [keys |-> Present("creator_profile", r.creator)
           \cup Present("analytics", r.analytics)
           \cup Present("competitor_insights", r.competitor)
           \cup Present("similar_reels", r.similar # <<>>)
           \cup Present("trend_summary", r.trends # <<>>)
           \cup (IF docs # <<>> THEN {"retrieval_confidence", "reranked_candidates",
                                      "reranker_top_k"} ELSE {})
           \cup Present("pinned_transcripts", r.pinned > 0),
       combined |-> RetrievalConfidence(top),
       documents |-> Len(docs) + r.pinned]

\* The points for how many sources and documents there are.
BreadthPoints(sources, documents) ==
  (CASE sources >= 3 -> 4000 [] sources = 2 -> 2500
     [] sources = 1 -> 1000 [] OTHER -> 0)
  + (CASE documents >= 10 -> 3000 [] documents \in 5 .. 9 -> 2000
       [] documents \in 1 .. 4 -> 1000 [] OTHER -> 0)

OwnPoints(keys) ==
  (IF "analytics" \in keys THEN 1500 ELSE 0)
  + (IF "creator_profile" \in keys THEN 1500 ELSE 0)
  + (IF "pinned_transcripts" \in keys THEN 3000 ELSE 0)

\* Mutant of ConfidenceScore: the breadth counts next to the retrieval score.
ConfidenceAddsBoth(c) ==
  Capped(c.combined \div 2 + BreadthPoints(Cardinality(c.keys), c.documents)
           + OwnPoints(c.keys))

\* confidence_evaluation_node
ConfidenceScore(c) ==
  Capped((IF c.combined > 0 THEN c.combined \div 2
          ELSE BreadthPoints(Cardinality(c.keys), c.documents))
         + OwnPoints(c.keys))

HighConfidenceThreshold == 8000
ClarifyingThreshold == 5000

\* _route_after_confidence; after the reasoner the recommendation generator
\* follows, for the score has not changed.
Route(score) ==
  CASE score >= HighConfidenceThreshold -> "full"
    [] score \in ClarifyingThreshold .. HighConfidenceThreshold - 1 -> "clarify"
    [] OTHER -> "decline"

\* The keys that citation_builder_node cites.
Citable == {"creator_profile", "analytics", "competitor_insights",
            "trend_summary", "similar_reels"}

\* The keys that hold data of the creator, not of others.
OwnData == {"creator_profile", "analytics", "pinned_transcripts"}

\* citation_builder_node slices the captions of the first three similar reels.
CitationRaises(r) ==
  \E k \in DOMAIN AtMost(3, r.similar) : ~ r.similar[k].captioned

\* The turn that comes out of what was retrieved.
Answer(r) ==
  LET c == ContextFusion(r)
  IN  [mode  |-> IF CitationRaises(r) THEN "raises" ELSE Route(ConfidenceScore(c)),
       own   |-> c.keys \cap OwnData # {},
       cited |-> c.keys \cap Citable # {}]

Searches ==
  {HybridSearch(searched, dense, sparse, stored) :
     searched \in BOOLEAN, dense \in DenseResults,
     sparse \in SparseResults, stored \in StoredResults}

Plans ==
  {RetrievalPlan(QueryUnderstanding(llm, keywords)) :
     llm \in Intents \cup {"failed"}, keywords \in Intents}

\* Answers[n]: the answers to a request for which n reels were transcribed.
Answers ==
  [n \in 0 .. MaxPinned |->
     {Answer(Retrieved(plan, answered, trends, similar, n)) :
        plan \in Plans, answered \in SUBSET Sources,
        trends \in TrendResults, similar \in Searches}]
=============================================================================
