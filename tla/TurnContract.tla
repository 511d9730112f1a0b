---------------------------- MODULE TurnContract ----------------------------
(***************************************************************************)
(* What RunTurn promises the handlers of the bot, whatever happens to the  *)
(* connection and to the server: one user at a time is inside a thread;    *)
(* what a user is told is the fate of its own turn; and a turn of which    *)
(* its user was told the end, or an error, does not run afterwards.        *)
(* CodexTurns implements it.                                               *)
(***************************************************************************)

CONSTANTS
  Users,     \* each makes one turn
  Line,      \* the thread of a user
  Hasty      \* users with a deadline

VARIABLES
  place,     \* "away", "queued", "inside" or "out"
  told,      \* what RunTurn returned
  fate       \* what became of each turn on the server

\* Users who were told nothing of their turn's fate: it may still run.
Abandoned(u) == told[u] \in {"deadline", "lost"}

ContractInit ==
  /\ place = [u \in Users |-> "away"] /\ told = [u \in Users |-> "none"]
  /\ fate = [u \in Users |-> "none"]

Ask(u) ==
  /\ place[u] = "away"
  /\ place' = [place EXCEPT ![u] = "queued"] /\ UNCHANGED <<told, fate>>

Enter(u) ==
  /\ place[u] = "queued"
  /\ \A v \in Users : Line[v] = Line[u] => place[v] # "inside"
  /\ place' = [place EXCEPT ![u] = "inside"] /\ UNCHANGED <<told, fate>>

Begin(u) ==
  /\ fate[u] = "none" /\ (place[u] = "inside" \/ Abandoned(u))
  /\ fate' = [fate EXCEPT ![u] = "running"] /\ UNCHANGED <<place, told>>

Settle(u, end) ==
  /\ fate[u] = "running"
  /\ fate' = [fate EXCEPT ![u] = end] /\ UNCHANGED <<place, told>>

\* The server dies, and the turns that run with it.
Die ==
  /\ fate' = [u \in Users |-> IF fate[u] = "running" THEN "dead" ELSE fate[u]]
  /\ UNCHANGED <<place, told>>

\* The fates of a turn whose user is told r: a partial text is what is left of a turn
\* whose message came too early.
Fates(r) ==
  CASE r \in {"text", "partial"} -> {"text"}
    [] r = "interrupted"         -> {"interrupted"}
    [] r = "error"               -> {"none", "error"}
    [] OTHER                     -> {"none", "running", "text", "interrupted", "error", "dead"}

Tell(u, r) ==
  /\ place[u] = "inside" /\ fate[u] \in Fates(r) /\ (r = "deadline" => u \in Hasty)
  /\ place' = [place EXCEPT ![u] = "out"] /\ told' = [told EXCEPT ![u] = r] /\ UNCHANGED fate

ContractNext ==
  \/ \E u \in Users :
       \/ Ask(u) \/ Enter(u) \/ Begin(u)
       \/ \E end \in {"text", "interrupted", "error"} : Settle(u, end)
       \/ \E r \in {"text", "partial", "interrupted", "error", "lost", "deadline"} : Tell(u, r)
  \/ Die

ContractSpec == ContractInit /\ [][ContractNext]_<<place, told, fate>>
=============================================================================
