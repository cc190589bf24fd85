----------------------------- MODULE MCCatalog -----------------------------
(* Constants for TLC.  Accounts, reels and workers are model values; the     *)
(* functions over them are built here.                                       *)
EXTENDS Catalog, TLC

CONSTANTS a1, a2, r1, r2

\* Creator a1 owns r1; r2, the more recent reel, is a2's when there is an a2.
MCOwner == [r \in Reels |-> IF r = r2 /\ a2 \in Accounts THEN a2 ELSE a1]
MCPostedAt == [r \in Reels |-> IF r = r2 THEN 2 ELSE 1]

Symmetry == Permutations(Ingesters) \cup Permutations(Analysts)
=============================================================================
