--------------------------- MODULE MCJobScheduler ---------------------------
(* Small instances of JobScheduler: a cfg picks job IDs, this module says of *)
(* which kind and how far apart their runs are.                              *)
EXTENDS JobScheduler, TLC

KindById == [j \in Jobs |-> CASE j = "r" -> "reminder"
                              [] j = "w" -> "wake"
                              [] j = "t" -> "task"
                              [] j = "c" -> "periodic"
                              [] j = "v" -> "watch"
                              [] j = "n" -> "review"
                              [] j = "p" -> "pulse"
                              [] j = "s" -> "space"
                              [] OTHER   -> "gone"]

\* Two different intervals, so that runs overtake each other.
IntervalById == [j \in Jobs |-> IF j \in {"p", "w", "n"} THEN 2 ELSE 1]

(* A clock that never stops, in finitely many states.  Times are only compared, and  *)
(* every new one is counted from the clock or from the tick: a time before both that *)
(* nothing uses can be taken out of the numbering without any job noticing.  However *)
(* long a job is passed over, the jobs before it may be due again and again.         *)
Before == IF pc \in {"pick"} \cup InRun THEN tick ELSE clock
Used == {row[j].next : j \in {k \in Jobs : Active(k)}}
        \cup {snap[j].next : j \in {k \in Jobs : k \in todo \/ k = cur}}
        \cup (IF pc \in InRun THEN {plan, outcome.next} ELSE {})
Renumber ==
  \E gap \in 0..Before - 1 :
    /\ gap \notin Used
    /\ LET Later(t)  == IF t > gap THEN t - 1 ELSE t
           Moved(rs) == [j \in Jobs |-> [rs[j] EXCEPT !.next = Later(@)]]
       IN  /\ clock' = clock - 1
           /\ tick' = Later(tick)
           /\ row' = Moved(row) /\ snap' = Moved(snap)
           /\ plan' = Later(plan) /\ outcome' = [outcome EXCEPT !.next = Later(@)]
    /\ UNCHANGED <<pc, todo, cur, found, told, published, history, faults>>

EndlessSpec == Init /\ [][Next \/ Renumber]_vars /\ Fairness
=============================================================================
