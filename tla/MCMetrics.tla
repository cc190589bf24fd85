----------------------------- MODULE MCMetrics -----------------------------
(* Clips for TLC: every combination of unknown, zero and small counts, with   *)
(* views that do not divide the interactions evenly.                         *)
EXTENDS Metrics, TLC

MCClip(views, likes, comments, saves, shares) ==
  [views |-> views, likes |-> likes, comments |-> comments, saves |-> saves,
   shares |-> shares]

MCClips == {MCClip(v, l, 1, s, h) : v \in {None, 0, 7}, l \in {None, 2},
                                    s \in {None, 1}, h \in {None, 0, 3}}

Symmetry == Permutations(Ingesters) \cup Permutations(Analysts)
=============================================================================
