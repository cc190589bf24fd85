------------------------------ MODULE MCAgent ------------------------------
(* Search results for TLC, chosen so that each threshold of the confidence   *)
(* score is met from both sides: nothing, one strong row, rows that no term   *)
(* matches, a full page of trends, and a stored reel without a caption.       *)
EXTENDS Agent, TLC

MCRow(id, retrieval, bm25, terms) ==
  [id |-> id, retrieval |-> retrieval, bm25 |-> bm25, text |-> TRUE,
   terms |-> terms, captioned |-> TRUE]

MCRowIds == {"r1", "r2", "t1"} \cup {ToString(k) : k \in 1 .. 10}

MCDense == {<<>>, <<MCRow("r1", 100, 0, QueryTerms)>>,
            <<MCRow("r2", 60, 0, {}), MCRow("r1", 40, 0, QueryTerms)>>}

MCSparse == {<<>>, <<MCRow("r1", 0, 80, QueryTerms)>>}

MCStored == {<<>>, <<MCRow("r1", 0, 0, {})>>,
             <<[MCRow("r1", 0, 0, QueryTerms) EXCEPT !.captioned = FALSE]>>}

MCTrends == {<<>>, <<MCRow("t1", 0, 0, QueryTerms)>>,
             [k \in 1 .. 10 |-> MCRow(ToString(k), 0, 0, {})]}

Symmetry == Permutations(Tabs)
=============================================================================
