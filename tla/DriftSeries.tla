---------------------------- MODULE DriftSeries ----------------------------
(***************************************************************************)
(* What the "ReelSnapshot" table promises to the code that measures drift  *)
(* and decay from it: each reel has a series of view counts, read at       *)
(* successive moments of a counter that only grows.  A series never runs   *)
(* ahead of the counter, and goes down only where writers dispute a reel.  *)
(***************************************************************************)
EXTENDS Integers, Sequences

CONSTANT Reels

VARIABLES
  series,    \* series[r]: the recorded counts, oldest first
  upstream,  \* upstream[r]: the counter itself
  disputed   \* given from outside: reels of which an older count may be recorded

driftVars == <<series, upstream>>

LastRecorded(r) == IF series[r] = <<>> THEN 0 ELSE series[r][Len(series[r])]

DriftInit ==
  /\ series = [r \in Reels |-> <<>>]
  /\ upstream = [r \in Reels |-> 0]

Grow(r) ==
  /\ upstream' = [upstream EXCEPT ![r] = @ + 1]
  /\ UNCHANGED series

Record(r) ==
  /\ \E v \in 0 .. upstream[r] :
       /\ r \in disputed \/ v >= LastRecorded(r)
       /\ series' = [series EXCEPT ![r] = Append(@, v)]
  /\ UNCHANGED upstream

DriftNext == \E r \in Reels : Grow(r) \/ Record(r)

DriftSpec == DriftInit /\ [][DriftNext]_driftVars
=============================================================================
