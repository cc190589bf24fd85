----------------------------- MODULE MCReelBot -----------------------------
(* The handles that the sessions are created for.                            *)
EXTENDS ReelBot

CONSTANTS h1, h2, s1

\* Session s1 is created for h1, any other for h2 when there is an h2.
MCHandleOf ==
  [s \in Sessions |-> IF s # s1 /\ h2 \in Handles THEN h2 ELSE h1]
=============================================================================
