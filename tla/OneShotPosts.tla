---------------------------- MODULE OneShotPosts ----------------------------
(***************************************************************************)
(* What the scheduler promises of a one-shot job (a reminder, a wake       *)
(* summary): each message is paid for.  Scheduling the job, or asking to   *)
(* run it now, gives one credit; a message takes one; and a run that is    *)
(* cut short after its message gives that one credit back, once.           *)
(* JobScheduler implements it.                                             *)
(***************************************************************************)
EXTENDS Naturals

CONSTANT Ones  \* the one-shot jobs

VARIABLES
  credit,      \* messages that may still be posted for a job
  posted,      \* messages posted for it
  open         \* is there a message whose run is not recorded yet?

PostInit ==
  /\ credit = [j \in Ones |-> 0] /\ posted = [j \in Ones |-> 0]
  /\ open = [j \in Ones |-> FALSE]

Ask(j) == credit' = [credit EXCEPT ![j] = @ + 1] /\ UNCHANGED <<posted, open>>

Post(j) ==
  /\ credit[j] > 0 /\ ~open[j]
  /\ credit' = [credit EXCEPT ![j] = @ - 1]
  /\ posted' = [posted EXCEPT ![j] = @ + 1] /\ open' = [open EXCEPT ![j] = TRUE]

\* The message was posted, but its run was told that it was not.
PostUnheard(j) ==
  /\ credit[j] > 0 /\ ~open[j]
  /\ posted' = [posted EXCEPT ![j] = @ + 1] /\ UNCHANGED <<credit, open>>

Keep(j) == open[j] /\ open' = [open EXCEPT ![j] = FALSE] /\ UNCHANGED <<credit, posted>>

Redo(j) ==
  /\ open[j] /\ open' = [open EXCEPT ![j] = FALSE]
  /\ credit' = [credit EXCEPT ![j] = @ + 1] /\ UNCHANGED posted

PostNext == \E j \in Ones : Ask(j) \/ Post(j) \/ PostUnheard(j) \/ Keep(j) \/ Redo(j)

PostSpec == PostInit /\ [][PostNext]_<<credit, posted, open>>
=============================================================================
