---------------------------- MODULE Conversation ----------------------------
(***************************************************************************)
(* What both chats promise of the messages of their sessions, whoever      *)
(* shares a session and whatever fails: the messages only ever grow at      *)
(* their end, a turn asks once, in one session, and is answered at most     *)
(* once, there, after its question.                                         *)
(***************************************************************************)
EXTENDS Sequences

CONSTANTS
  Sessions,
  Turns,        \* what asks and is answered
  PostedRoles,  \* the roles of messages outside of every turn
  None          \* the turn of a message that belongs to none

VARIABLE log  \* log[s]: the messages of session s, in the order they are stored

Speakers == {"user", "assistant"}

Said(s, role, t) ==
  \E k \in DOMAIN log[s] : log[s][k] = [role |-> role, turn |-> t]

SaidAnywhere(role, t) == \E s \in Sessions : Said(s, role, t)

Say(s, role, t) ==
  log' = [log EXCEPT ![s] = Append(@, [role |-> role, turn |-> t])]

Init == log = [s \in Sessions |-> <<>>]

Ask(s, t) ==
  /\ \A role \in Speakers : ~ SaidAnywhere(role, t)
  /\ Say(s, "user", t)

Answer(s, t) ==
  /\ Said(s, "user", t)
  /\ ~ SaidAnywhere("assistant", t)
  /\ Say(s, "assistant", t)

\* A message that is stored outside of every turn.
Post(s) == \E role \in PostedRoles : Say(s, role, None)

Next ==
  \E s \in Sessions : Post(s) \/ \E t \in Turns : Ask(s, t) \/ Answer(s, t)

Spec == Init /\ [][Next]_log
=============================================================================
