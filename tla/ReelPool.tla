------------------------------ MODULE ReelPool ------------------------------
(***************************************************************************)
(* The connection pool of the Reel Bot.  reel_router keeps one database    *)
(* client in a module variable and connects it on first use: _get_db and   *)
(* _ensure_pool both look whether there is a pool and, if not, await its   *)
(* creation, so several early requests may each create one, and the last   *)
(* one to finish is kept.  The pool is never closed.                       *)
(*                                                                         *)
(* A request looks for the pool when it arrives.  That the client object   *)
(* exists already makes no difference: whoever finds no pool creates one.  *)
(***************************************************************************)
EXTENDS Integers, FiniteSets, Sequences

CONSTANTS
  Ingesters,  \* concurrent POST /reel-bot/ingest requests
  Clients,    \* browser tabs, each with at most one POST /reel-bot/chat
  None        \* SQL NULL, Python None, no row

ASSUME PoolAssumption == Ingesters \cap Clients = {}

VARIABLES
  pool,    \* ReelBotDatabaseClient._pool is not None
  opened   \* opened[q]: pools created by q since the process started

poolVars == <<pool, opened>>

Requests == Ingesters \cup Clients

PoolTypeOK ==
  /\ pool \in BOOLEAN
  /\ opened \in [Requests -> Nat]

PoolInit ==
  /\ pool = FALSE
  /\ opened = [q \in Requests |-> 0]

\* Mutant of FirstStep: _ensure_pool without its test.
FirstStepConnects(step) == "connect"

\* Where a request that has `step` to do goes on arrival.
FirstStep(step) == IF pool THEN step ELSE "connect"

ConnectPool(q) ==
  /\ pool' = TRUE
  /\ opened' = [opened EXCEPT ![q] = @ + 1]
=============================================================================
