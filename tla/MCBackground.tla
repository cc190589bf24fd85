---------------------------- MODULE MCBackground ----------------------------
(* Reels for TLC: two topics of different engagement, one without metrics,    *)
(* and one on which the model found nothing but an intent.                   *)
EXTENDS Background, TLC

CONSTANTS cook, travel, advice

MCReelRow(topic, engagement, sec) ==
  [topic |-> topic, hookType |-> topic, contentFormat |-> None,
   postingDay |-> topic, durationSec |-> sec, audienceIntent |-> advice,
   engagementRate |-> engagement]

MCReelRows == {MCReelRow(cook, 2, 0), MCReelRow(travel, 1, 20),
               MCReelRow(travel, None, 95), MCReelRow(None, 1, None)}

MCTrendTopics == <<cook>>
MCEmergingFormats == <<>>

MCTasks == Loops \cup {"startup"} \cup Clients

MCRequested == {<<"ingestion", "knowledge">>, <<"knowledge", "ingestion">>}

Symmetry == Permutations(Clients \ Elsewhere) \cup Permutations(Accounts)
              \cup Permutations(PromptEditors)
=============================================================================
