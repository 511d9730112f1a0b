------------------------- MODULE JobSchedulerProofs -------------------------
(***************************************************************************)
(* Type correctness of the scheduler, the accounting of one-shot posts,    *)
(* the announcements of watches, and that JobScheduler implements          *)
(* OneShotPosts (PostsArePaid), for every set of jobs, kinds, schedules,   *)
(* limit and bounds.                                                       *)
(***************************************************************************)
EXTENDS JobScheduler, TLAPS

\* What every step leaves of the run in hand: there is one exactly while the goroutine
\* is inside a handler or about to record it, it has left the snapshot, and a posted
\* message is on its way to a result without error.
RunInHand ==
  /\ cur # None <=> pc \in InRun
  /\ cur \notin todo
  /\ told => pc \in {"save", "upsert", "record"}
  /\ told /\ pc = "record" => outcome.ok

IInv == TypeOK /\ RunInHand /\ OneShotAccounting

-----------------------------------------------------------------------------
\* Both statements of the store keep the table well typed.
LEMMA UpdateTypes ==
  ASSUME row \in [Jobs -> Rows], NEW j \in Jobs, NEW s \in States, NEW t \in Nat,
         UpdateJobState(j, s, t)
  PROVE  row' \in [Jobs -> Rows]
<1>1. [row[j] EXCEPT !.state = s, !.next = t] \in Rows
  BY DEF Rows
<1>2. CASE row[j].state = "absent" BY <1>2 DEF UpdateJobState
<1>3. CASE row[j].state # "absent"
  <2>1. row' = [row EXCEPT ![j] = [row[j] EXCEPT !.state = s, !.next = t]]
    BY <1>3 DEF UpdateJobState
  <2> QED
    BY <2>1, <1>1
<1> QED
  BY <1>2, <1>3

\* An upsert of a well-typed row keeps the table well typed.
LEMMA UpsertTypes ==
  ASSUME row \in [Jobs -> Rows], NEW j \in Jobs, NEW r \in Rows, UpsertJob(j, r)
  PROVE  row' \in [Jobs -> Rows]
  BY DEF UpsertJob

\* The rows, times and states the actions compute.
LEMMA ComputedTypes ==
  ASSUME TypeOK, NEW j \in Jobs
  PROVE  /\ Blank \in Rows
         /\ Default(j) \in Rows
         /\ Interval[j] \in Nat
         /\ snap[j] \in Rows
         /\ clock + snap[j].every \in Nat
         /\ RetryAt(j) \in Nat
         /\ tick + MissingDelay \in Nat
         /\ FinalState(j) \in States
         /\ FirstStep(KindOf[j]) \in Steps
<1>1. Blank \in Rows
  BY DEF Blank, Rows, States
<1>2. Interval[j] \in Nat /\ tick + MissingDelay \in Nat /\ clock + Interval[j] \in Nat
  BY JobsAssumption DEF TypeOK
<1>3. Default(j) \in Rows
  BY <1>2 DEF Default, NewJob, Rows, States
<1>4. FinalState(j) \in States
  BY DEF FinalState, States
<1>5. FirstStep(KindOf[j]) \in Steps
  BY JobsAssumption DEF FirstStep, Steps, Kinds
<1>6. snap[j] \in Rows
  BY DEF TypeOK
<1>7. clock + snap[j].every \in Nat /\ RetryAt(j) \in Nat
  BY <1>6 DEF TypeOK, Rows, RetryAt
<1> QED
  BY <1>1, <1>2, <1>3, <1>4, <1>5, <1>6, <1>7

\* The row jobs.schedule writes.
LEMMA ScheduledRow ==
  ASSUME TypeOK, NEW j \in Jobs, Schedule(j)
  PROVE  \E r \in Rows : UpsertJob(j, r)
<1>1. PICK every \in Schedules \cup {Interval[j]}, seen \in Seen(j), bound \in Bound(j) :
        UpsertJob(j, NewJob(j, every, seen, bound))
  BY DEF Schedule
<1>2. every \in Nat /\ clock + every \in Nat
  BY JobsAssumption DEF TypeOK
<1>3. seen \in Nat /\ bound \in BOOLEAN
  <2>1. MaxTag \in Nat
    BY JobsAssumption
  <2>2. seen \in Nat
    BY <2>1 DEF Seen
  <2>3. bound \in BOOLEAN
    BY Zenon DEF Bound
  <2> QED
    BY <2>2, <2>3
<1>4. NewJob(j, every, seen, bound) \in Rows
  BY <1>2, <1>3 DEF NewJob, Rows, States
<1> QED
  BY <1>1, <1>4

\* Excusing the run in hand.
LEMMA ExcuseTypes ==
  ASSUME TypeOK, told => cur \in Jobs, ExcuseRun
  PROVE  excused' \in [Jobs -> Nat] /\ again' \in [Jobs -> BOOLEAN]
<1>1. CASE told
  <2>1. excused' = [excused EXCEPT ![cur] = @ + 1]
        /\ again' = [again EXCEPT ![cur] = KindOf[cur] = "watch"]
    BY <1>1 DEF ExcuseRun
  <2>2. (KindOf[cur] = "watch") \in BOOLEAN
    OBVIOUS
  <2>3. again' \in [Jobs -> BOOLEAN]
    BY <2>1, <2>2, Zenon DEF TypeOK
  <2> QED
    BY <1>1, <2>1, <2>3 DEF TypeOK
<1>2. CASE ~told BY <1>2 DEF ExcuseRun, TypeOK
<1> QED
  BY <1>1, <1>2

\* Dropping the tick at a crash or a store error.
LEMMA DropTypes ==
  ASSUME TypeOK, RunInHand, DropTick
  PROVE  /\ todo' \subseteq Jobs /\ snap' \in [Jobs -> Rows] /\ cur' \in Jobs \cup {None}
         /\ told' \in BOOLEAN /\ excused' \in [Jobs -> Nat] /\ again' \in [Jobs -> BOOLEAN]
<1>1. told => cur \in Jobs
  BY DEF TypeOK, RunInHand, InRun, Steps
<1>2. excused' \in [Jobs -> Nat] /\ again' \in [Jobs -> BOOLEAN]
  BY <1>1, ExcuseTypes DEF DropTick
<1>3. snap' \in [Jobs -> Rows]
  BY DEF DropTick, Blank, Rows, States
<1> QED
  BY <1>2, <1>3 DEF DropTick

\* Every step keeps every variable in its type.
LEMMA TypeStep == TypeOK /\ RunInHand /\ [Next]_vars => TypeOK'
<1> SUFFICES ASSUME TypeOK, RunInHand, [Next]_vars PROVE TypeOK'
  OBVIOUS
<1> USE DEF table, control, run, history
<1>r. pc \in InRun => cur \in Jobs
  BY DEF RunInHand, TypeOK
<1>1. CASE Poll
  <2>1. PICK batch \in SUBSET Due :
          todo' = batch /\ snap' = [j \in Jobs |-> IF j \in batch THEN row[j] ELSE Blank]
    BY <1>1 DEF Poll
  <2>2. snap' \in [Jobs -> Rows] /\ todo' \subseteq Jobs
    BY <2>1 DEF TypeOK, Due, Blank, Rows, States
  <2> QED
    BY <1>1, <2>2 DEF Poll, TypeOK
<1>2. ASSUME NEW j \in Jobs, SkipMissing(j) PROVE TypeOK'
  <2>1. row' \in [Jobs -> Rows]
    BY <1>2, UpdateTypes, ComputedTypes DEF SkipMissing, TypeOK, States
  <2>2. snap' \in [Jobs -> Rows] /\ todo' \subseteq Jobs
    BY <1>2, ComputedTypes DEF SkipMissing, TypeOK
  <2> QED
    BY <1>2, <2>1, <2>2 DEF SkipMissing, AfterJob, TypeOK
<1>3. ASSUME NEW j \in Jobs, Begin(j) PROVE TypeOK'
  <2>1. row' \in [Jobs -> Rows]
    BY <1>3, UpdateTypes DEF Begin, TypeOK, States
  <2>2. plan' \in Nat /\ pc' \in InRun
    BY <1>3, ComputedTypes DEF Begin, InRun, TypeOK
  <2>3. begun' \in [Jobs -> Nat]
    BY <1>3 DEF Begin, TypeOK
  <2> QED
    BY <1>3, <2>1, <2>2, <2>3 DEF Begin, TypeOK
<1>4. CASE Record
  <2>1. cur \in Jobs
    BY <1>4, <1>r DEF Record, InRun
  <2>2. row' \in [Jobs -> Rows]
    BY <1>4, <2>1, UpdateTypes, ComputedTypes DEF Record, TypeOK, States
  <2>3. snap' \in [Jobs -> Rows]
    BY <1>4, <2>1, ComputedTypes DEF Record, TypeOK
  <2> QED
    BY <1>4, <2>2, <2>3 DEF Record, AfterJob, TypeOK
<1>5. CASE HandlerError
  <2>1. cur \in Jobs
    BY <1>5, <1>r DEF HandlerError, InRun
  <2>2. excused' \in [Jobs -> Nat] /\ again' \in [Jobs -> BOOLEAN]
    BY <1>5, <2>1, ExcuseTypes DEF HandlerError, Fail
  <2> QED
    BY <1>5, <2>2 DEF HandlerError, Fail, TypeOK, InRun
<1>f. ASSUME Finish, pc \in InRun PROVE outcome' \in [ok : BOOLEAN, next : Nat] /\ pc' \in InRun
  <2>1. cur \in Jobs
    BY <1>f, <1>r
  <2> QED
    BY <1>f, <2>1, ComputedTypes DEF Finish, TypeOK, InRun
<1>6. CASE ReadMessages BY <1>6, <1>f DEF ReadMessages, Returned, TypeOK, InRun, Steps
<1>7. CASE EnsureJobThread
  <2>1. cur \in Jobs
    BY <1>7, <1>r DEF EnsureJobThread, InRun, Steps
  <2>2. [snap[cur] EXCEPT !.bound = TRUE] \in Rows
    <3>1. snap[cur] \in Rows
      BY <2>1 DEF TypeOK
    <3> QED
      BY <3>1 DEF Rows
  <2>3. row' \in [Jobs -> Rows]
    BY <1>7, <2>1, <2>2, UpsertTypes DEF EnsureJobThread, TypeOK
  <2> QED
    BY <1>7, <2>3 DEF EnsureJobThread, TypeOK, InRun, Steps
<1>8. CASE CodexTurn
  <2>1. AfterTurn(Kind) \subseteq Steps
    BY DEF AfterTurn, Steps
  <2> QED
    BY <1>8, <1>f, <2>1 DEF CodexTurn, Returned, TypeOK, InRun, Steps
<1>9. CASE Fetch
  <2>1. cur \in Jobs
    BY <1>9, <1>r DEF Fetch, InRun, Steps
  <2>2. plan' \in Nat
    BY <1>9, <2>1, ComputedTypes DEF Fetch
  <2>3. CASE snap[cur].seen = published
    <3>1. outcome' = [ok |-> TRUE, next |-> plan'] /\ pc' = "record"
      BY <1>9, <2>3 DEF Fetch
    <3>2. outcome' \in [ok : BOOLEAN, next : Nat]
      BY <2>2, <3>1
    <3> QED
      BY <1>9, <2>2, <3>1, <3>2 DEF Fetch, TypeOK, InRun
  <2>4. CASE snap[cur].seen # published
    BY <1>9, <2>2, <2>4 DEF Fetch, AfterFetch, TypeOK, InRun, Steps
  <2> QED
    BY <2>3, <2>4
<1>p. ASSUME Posted, cur \in Jobs
      PROVE  delivered' \in [Jobs -> Nat] /\ last' \in [Jobs -> Nat]
  BY <1>p DEF Posted, TypeOK
<1>10. CASE Send
  <2>1. cur \in Jobs
    BY <1>10, <1>r DEF Send, InRun, Steps
  <2>2. outcome' \in [ok : BOOLEAN, next : Nat] /\ pc' \in InRun
    BY <1>10, <1>f DEF Send, AfterSend, TypeOK, InRun, Steps
  <2>3. again' \in [Jobs -> BOOLEAN]
    BY <1>10 DEF Send, TypeOK
  <2> QED
    BY <1>10, <1>p, <2>1, <2>2, <2>3 DEF Send, TypeOK
<1>11. CASE SendAckLost
  <2>1. cur \in Jobs
    BY <1>11, <1>r DEF SendAckLost, InRun, Steps
  <2>2. excused' \in [Jobs -> Nat] /\ again' \in [Jobs -> BOOLEAN]
    BY <1>11, <2>1 DEF SendAckLost, TypeOK
  <2> QED
    BY <1>11, <1>p, <2>1, <2>2 DEF SendAckLost, TypeOK, InRun
<1>12. CASE SaveSummary BY <1>12, <1>f DEF SaveSummary, Returned, TypeOK, InRun, Steps
<1>13. CASE PersistWatch
  <2>1. cur \in Jobs
    BY <1>13, <1>r DEF PersistWatch, InRun, Steps
  <2>2. WatchRow \in Rows
    <3>1. snap[cur] \in Rows /\ found \in Nat /\ plan \in Nat
      BY <2>1 DEF TypeOK
    <3> QED
      BY <3>1 DEF WatchRow, Rows
  <2>3. row' \in [Jobs -> Rows]
    BY <1>13, <2>1, <2>2, UpsertTypes DEF PersistWatch, TypeOK
  <2> QED
    BY <1>13, <1>f, <2>3 DEF PersistWatch, TypeOK, InRun, Steps
<1>14. CASE StoreFails BY <1>14, DropTypes DEF StoreFails, TypeOK
<1>a. ASSUME NEW j \in Jobs, Arm(j) PROVE armed' \in [Jobs -> Nat]
  BY <1>a DEF Arm, TypeOK
<1>15. ASSUME NEW j \in Jobs, Schedule(j) PROVE TypeOK'
  <2>1. row' \in [Jobs -> Rows]
    BY <1>15, ScheduledRow, UpsertTypes DEF TypeOK
  <2>2. again' \in [Jobs -> BOOLEAN]
    BY <1>15 DEF Schedule, TypeOK
  <2> QED
    BY <1>15, <1>a, <2>1, <2>2 DEF Schedule, TypeOK
<1>16. ASSUME NEW j \in Jobs, RunNow(j) PROVE TypeOK'
  <2>1. row' \in [Jobs -> Rows]
    BY <1>16, UpdateTypes DEF RunNow, TypeOK, States
  <2> QED
    BY <1>16, <1>a, <2>1 DEF RunNow, TypeOK
<1>17. ASSUME NEW j \in Jobs, Cancel(j) PROVE TypeOK'
  <2>1. row' \in [Jobs -> Rows]
    BY <1>17, UpdateTypes DEF Cancel, TypeOK, States
  <2> QED
    BY <1>17, <2>1 DEF Cancel, TypeOK
<1>18. CASE Start
  <2>1. row' \in [Jobs -> Rows]
    BY <1>18, ComputedTypes DEF Start, EnsurePulse, TypeOK
  <2> QED
    BY <1>18, <2>1 DEF Start, TypeOK
<1>19. CASE Crash BY <1>19, DropTypes DEF Crash, TypeOK
<1>20. CASE AdvanceClock BY <1>20 DEF AdvanceClock, TypeOK
<1>21. CASE Publish BY <1>21 DEF Publish, TypeOK
<1>22. CASE UNCHANGED vars BY <1>22 DEF vars, TypeOK
<1> QED
  BY <1>1, <1>2, <1>3, <1>4, <1>5, <1>6, <1>7, <1>8, <1>9, <1>10, <1>11, <1>12, <1>13,
     <1>14, <1>15, <1>16, <1>17, <1>18, <1>19, <1>20, <1>21, <1>22
  DEF Next, Scheduler, Handler

-----------------------------------------------------------------------------
\* Every step leaves the run in hand as RunInHand says.
LEMMA RunStep == TypeOK /\ RunInHand /\ [Next]_vars => RunInHand'
<1> SUFFICES ASSUME TypeOK, RunInHand, [Next]_vars PROVE RunInHand'
  OBVIOUS
<1> USE JobsAssumption DEF table, control, run, history, RunInHand, InRun, Steps
<1>1. CASE Poll BY <1>1 DEF Poll, Due
<1>2. ASSUME NEW j \in Jobs, SkipMissing(j) PROVE RunInHand'
  BY <1>2 DEF SkipMissing, AfterJob
<1>3. ASSUME NEW j \in Jobs, Begin(j) PROVE RunInHand'
  <2>1. FirstStep(KindOf[j]) \in Steps \ {"save", "upsert"}
    BY DEF FirstStep
  <2> QED
    BY <1>3, <2>1 DEF Begin
<1>4. CASE Record BY <1>4 DEF Record, AfterJob, TypeOK
<1>5. CASE HandlerError BY <1>5 DEF HandlerError, Fail
<1>6. CASE ReadMessages BY <1>6 DEF ReadMessages, Returned, Finish
<1>7. CASE EnsureJobThread BY <1>7 DEF EnsureJobThread
<1>8. CASE CodexTurn BY <1>8 DEF CodexTurn, AfterTurn, Returned, Finish
<1>9. CASE Fetch BY <1>9 DEF Fetch, AfterFetch
<1>10. CASE Send BY <1>10 DEF Send, AfterSend, Finish
<1>11. CASE SendAckLost BY <1>11 DEF SendAckLost
<1>12. CASE SaveSummary BY <1>12 DEF SaveSummary, Returned, Finish
<1>13. CASE PersistWatch BY <1>13 DEF PersistWatch, Finish
<1>14. CASE StoreFails BY <1>14 DEF StoreFails, DropTick
<1>15. ASSUME NEW j \in Jobs, Schedule(j) \/ RunNow(j) \/ Cancel(j) PROVE RunInHand'
  BY <1>15 DEF Schedule, RunNow, Cancel
<1>16. CASE Start BY <1>16 DEF Start
<1>17. CASE Crash BY <1>17 DEF Crash, DropTick
<1>18. CASE AdvanceClock \/ Publish \/ UNCHANGED vars
  BY <1>18 DEF AdvanceClock, Publish, vars
<1> QED
  BY <1>1, <1>2, <1>3, <1>4, <1>5, <1>6, <1>7, <1>8, <1>9, <1>10, <1>11, <1>12, <1>13,
     <1>14, <1>15, <1>16, <1>17, <1>18
  DEF Next, Scheduler, Handler

-----------------------------------------------------------------------------
\* Which rows are active after a statement of the store.
LEMMA ActiveAfterUpdate ==
  ASSUME row \in [Jobs -> Rows], NEW k \in Jobs, NEW s \in States, NEW t \in Nat,
         UpdateJobState(k, s, t), NEW j \in Jobs
  PROVE  Active(j)' => IF j = k THEN Active(j) \/ (s \in DueStates /\ row[j].state # "absent")
                                ELSE Active(j)
<1>1. CASE row[k].state = "absent" BY <1>1 DEF UpdateJobState, Active
<1>2. CASE row[k].state # "absent"
  <2>1. row' = [row EXCEPT ![k] = [row[k] EXCEPT !.state = s, !.next = t]]
    BY <1>2 DEF UpdateJobState
  <2>2. row[k] \in Rows
    OBVIOUS
  <2>3. row'[k].state = s
    BY <2>1, <2>2 DEF Rows
  <2>4. j # k => row'[j] = row[j]
    BY <2>1
  <2> QED
    BY <1>2, <2>3, <2>4 DEF Active
<1> QED
  BY <1>1, <1>2

\* Recording a completed run takes the row out of the active ones.
LEMMA InactiveAfterCompletion ==
  ASSUME row \in [Jobs -> Rows], NEW k \in Jobs, NEW t \in Nat,
         UpdateJobState(k, "completed", t)
  PROVE  ~Active(k)'
<1>1. CASE row[k].state = "absent" BY <1>1 DEF UpdateJobState, Active, DueStates
<1>2. CASE row[k].state # "absent"
  <2>1. row' = [row EXCEPT ![k] = [row[k] EXCEPT !.state = "completed", !.next = t]]
    BY <1>2 DEF UpdateJobState
  <2>2. row[k] \in Rows
    OBVIOUS
  <2>3. row'[k].state = "completed"
    BY <2>1, <2>2 DEF Rows
  <2> QED
    BY <2>3 DEF Active, DueStates
<1> QED
  BY <1>1, <1>2

\* The whole-row writes touch one job.
LEMMA ActiveAfterUpsert ==
  ASSUME row \in [Jobs -> Rows], NEW k \in Jobs, NEW r \in Rows, UpsertJob(k, r), NEW j \in Jobs
  PROVE  j # k => (Active(j)' <=> Active(j))
  BY DEF UpsertJob, Active

\* Balance(j) is what OneShotAccounting asks of one job.
Balance(j) == delivered[j] + Owed(j) <= armed[j] + excused[j]

\* A step that leaves the history alone keeps the balance if it owes no more.
LEMMA QuietBalance ==
  ASSUME TypeOK, NEW j \in Jobs, Balance(j),
         delivered'[j] = delivered[j], armed'[j] = armed[j], excused'[j] = excused[j],
         Owed(j)' <= Owed(j)
  PROVE  Balance(j)'
<1>1. Owed(j) \in {0, 1} /\ Owed(j)' \in {0, 1}
  BY DEF Owed
<1> QED
  BY <1>1 DEF Balance, TypeOK

\* A step that arms the job may owe one post more.
LEMMA ArmedBalance ==
  ASSUME TypeOK, NEW j \in Jobs, NEW k \in Jobs, Balance(j), Arm(k),
         delivered' = delivered, excused' = excused, j # k => Owed(j)' <= Owed(j)
  PROVE  Balance(j)'
<1>1. Owed(j) \in {0, 1} /\ Owed(j)' \in {0, 1}
  BY DEF Owed
<1>2. armed'[j] = IF j = k THEN armed[j] + 1 ELSE armed[j]
  BY DEF Arm, TypeOK
<1>3. delivered[j] \in Nat /\ armed[j] \in Nat /\ excused[j] \in Nat
  BY DEF TypeOK
<1>4. CASE j = k
  <2>1. Owed(j)' <= Owed(j) + 1
    BY <1>1
  <2> QED
    BY <1>1, <1>2, <1>3, <1>4, <2>1 DEF Balance
<1>5. CASE j # k BY <1>1, <1>2, <1>3, <1>5 DEF Balance
<1> QED
  BY <1>4, <1>5

\* Dropping a tick owes at most the post it excuses.
LEMMA DroppedBalance ==
  ASSUME TypeOK, RunInHand, NEW j \in Jobs, Balance(j), DropTick, row' = row,
         delivered' = delivered, armed' = armed
  PROVE  Balance(j)'
<1>1. Owed(j) \in {0, 1} /\ Owed(j)' \in {0, 1}
  BY DEF Owed
<1>2. delivered[j] \in Nat /\ armed[j] \in Nat /\ excused[j] \in Nat
  BY DEF TypeOK
<1>3. CASE told /\ cur = j
  <2>1. excused'[j] = excused[j] + 1
    BY <1>3 DEF DropTick, ExcuseRun, TypeOK
  <2>2. Owed(j)' <= Owed(j) + 1
    BY <1>1
  <2> QED
    BY <1>1, <1>2, <2>1, <2>2 DEF Balance
<1>4. CASE ~(told /\ cur = j)
  <2>1. excused'[j] = excused[j]
    BY <1>4 DEF DropTick, ExcuseRun, TypeOK
  <2>2. Owed(j)' <= Owed(j)
    BY <1>4, JobsAssumption DEF DropTick, Owed, Active
  <2> QED
    BY <1>1, <1>2, <2>1, <2>2 DEF Balance
<1> QED
  BY <1>3, <1>4

-----------------------------------------------------------------------------
\* Every step keeps the balance of every one-shot job.
LEMMA AccountingStep == IInv /\ [Next]_vars => OneShotAccounting'
<1> SUFFICES ASSUME TypeOK, RunInHand, [Next]_vars,
                    NEW j \in Jobs, KindOf[j] \in OneShot, Balance(j)
             PROVE  Balance(j)'
  BY DEF IInv, OneShotAccounting, Balance
<1> USE JobsAssumption DEF table, control, run, history
<1>r. pc \in InRun => cur \in Jobs
  BY DEF RunInHand, TypeOK
<1>1. CASE Poll
  <2>1. Owed(j)' <= Owed(j)
    BY <1>1 DEF Poll, Owed, Due, Active
  <2> QED
    BY <1>1, <2>1, QuietBalance DEF Poll
<1>2. ASSUME NEW k \in Jobs, SkipMissing(k) PROVE Balance(j)'
  <2>1. j # k
    BY <1>2 DEF SkipMissing, OneShot
  <2>2. Active(j)' => Active(j)
    BY <1>2, <2>1, ComputedTypes, ActiveAfterUpdate DEF SkipMissing, TypeOK, States
  <2>3. Owed(j)' <= Owed(j)
    BY <1>2, <2>1, <2>2 DEF SkipMissing, Owed
  <2> QED
    BY <1>2, <2>3, QuietBalance DEF SkipMissing
<1>3. ASSUME NEW k \in Jobs, Begin(k) PROVE Balance(j)'
  <2>1. Active(j)' => Active(j) \/ j = k
    BY <1>3, ActiveAfterUpdate DEF Begin, TypeOK, States
  <2>2. ~told /\ k \in todo /\ cur = None
    BY <1>3 DEF Begin, First, RunInHand, InRun, Steps
  <2>3. Owed(j)' <= Owed(j)
    BY <1>3, <2>1, <2>2 DEF Begin, Owed
  <2> QED
    BY <1>3, <2>3, QuietBalance DEF Begin
<1>4. CASE Record
  <2>1. cur \in Jobs
    BY <1>4, <1>r DEF Record, InRun
  <2>2. CASE j # cur
    <3>1. Active(j)' => Active(j)
      BY <1>4, <2>1, <2>2, ComputedTypes, ActiveAfterUpdate, SMTT(20) DEF Record, TypeOK, States
    <3>2. Owed(j)' <= Owed(j)
      BY <1>4, <2>2, <3>1 DEF Record, Owed
    <3> QED
      BY <1>4, <3>2, QuietBalance DEF Record
  <2>3. CASE j = cur /\ outcome.ok
    <3>1. ~Active(j)'
      BY <1>4, <2>1, <2>3, InactiveAfterCompletion DEF Record, FinalState, TypeOK
    <3>2. Owed(j)' <= Owed(j)
      BY <1>4, <2>3, <3>1 DEF Record, Owed, RunInHand
    <3> QED
      BY <1>4, <3>2, QuietBalance DEF Record
  <2>4. CASE j = cur /\ ~outcome.ok
    <3>1. ~told
      BY <1>4, <2>4 DEF Record, RunInHand
    <3>2. Owed(j)' <= Owed(j)
      BY <1>4, <2>4, <3>1 DEF Record, Owed
    <3> QED
      BY <1>4, <3>2, QuietBalance DEF Record
  <2> QED
    BY <2>2, <2>3, <2>4
<1>5. CASE HandlerError
  <2>1. cur \in Jobs
    BY <1>5, <1>r DEF HandlerError, InRun
  <2>2. Owed(j) \in {0, 1} /\ Owed(j)' \in {0, 1}
    BY DEF Owed
  <2>3. delivered[j] \in Nat /\ armed[j] \in Nat /\ excused[j] \in Nat
    BY DEF TypeOK
  <2>4. CASE told /\ cur = j
    <3>1. excused'[j] = excused[j] + 1
      BY <1>5, <2>4 DEF HandlerError, Fail, ExcuseRun, TypeOK
    <3>2. delivered' = delivered /\ armed' = armed
      BY <1>5 DEF HandlerError, Fail
    <3>3. Owed(j)' <= Owed(j) + 1
      BY <2>2
    <3> QED
      BY <2>2, <2>3, <3>1, <3>2, <3>3 DEF Balance
  <2>5. CASE ~(told /\ cur = j)
    <3>1. excused'[j] = excused[j]
      BY <1>5, <2>1, <2>5 DEF HandlerError, Fail, ExcuseRun, TypeOK
    <3>2. Owed(j)' <= Owed(j)
      BY <1>5, <2>5 DEF HandlerError, Fail, Owed, Active
    <3> QED
      BY <1>5, <3>1, <3>2, QuietBalance DEF HandlerError, Fail
  <2> QED
    BY <2>4, <2>5
<1>6. CASE ReadMessages \/ CodexTurn \/ SaveSummary
  <2>1. row' = row /\ cur' = cur /\ todo' = todo /\ told' = told
        /\ delivered' = delivered /\ armed' = armed /\ excused' = excused
    BY <1>6 DEF ReadMessages, CodexTurn, SaveSummary, Returned
  <2>2. Owed(j)' <= Owed(j)
    BY <2>1 DEF Owed, Active
  <2> QED
    BY <2>1, <2>2, QuietBalance
<1>w. ASSUME cur \in Jobs, row' = row \/ (\E r \in Rows : UpsertJob(cur, r)),
             cur' = cur, todo' = todo, told' = told
      PROVE  Owed(j)' <= Owed(j)
  <2>1. j # cur => (Active(j)' <=> Active(j))
    BY <1>w, ActiveAfterUpsert DEF TypeOK, Active
  <2> QED
    BY <1>w, <2>1 DEF Owed
<1>7. CASE EnsureJobThread
  <2>1. cur \in Jobs
    BY <1>7, <1>r DEF EnsureJobThread, InRun, Steps
  <2>2. snap[cur] \in Rows
    BY <2>1 DEF TypeOK
  <2>3. [snap[cur] EXCEPT !.bound = TRUE] \in Rows
    BY <2>2 DEF Rows
  <2>4. Owed(j)' <= Owed(j)
    BY <1>7, <1>w, <2>1, <2>3 DEF EnsureJobThread
  <2> QED
    BY <1>7, <2>4, QuietBalance DEF EnsureJobThread
<1>8. CASE Fetch
  <2>1. Owed(j)' <= Owed(j)
    BY <1>8 DEF Fetch, Owed, Active
  <2> QED
    BY <1>8, <2>1, QuietBalance DEF Fetch
<1>9. CASE Send
  <2>1. cur \in Jobs /\ ~told
    BY <1>9, <1>r DEF Send, InRun, Steps, RunInHand
  <2>2. CASE j = cur
    <3>1. delivered'[j] = delivered[j] + 1 /\ armed' = armed /\ excused' = excused
      BY <1>9, <2>2 DEF Send, Posted, Kind, TypeOK
    <3>2. Owed(j) = 1 /\ Owed(j)' = 0
      BY <1>9, <2>1, <2>2 DEF Send, Owed
    <3>3. delivered[j] \in Nat /\ armed[j] \in Nat /\ excused[j] \in Nat
      BY DEF TypeOK
    <3> QED
      BY <3>1, <3>2, <3>3 DEF Balance
  <2>3. CASE j # cur
    <3>1. delivered'[j] = delivered[j]
      BY <1>9, <2>1, <2>3 DEF Send, Posted, TypeOK
    <3>2. Owed(j)' <= Owed(j)
      BY <1>9, <2>3 DEF Send, Owed, Active
    <3> QED
      BY <1>9, <3>1, <3>2, QuietBalance DEF Send
  <2> QED
    BY <2>2, <2>3
<1>10. CASE SendAckLost
  <2>1. cur \in Jobs /\ ~told
    BY <1>10, <1>r DEF SendAckLost, InRun, Steps, RunInHand
  <2>2. Owed(j)' = Owed(j)
    BY <1>10 DEF SendAckLost, Owed, Active
  <2>3. CASE j = cur
    <3>1. delivered'[j] = delivered[j] + 1 /\ armed' = armed /\ excused'[j] = excused[j] + 1
      BY <1>10, <2>3 DEF SendAckLost, Posted, Kind, TypeOK
    <3>2. Owed(j) \in {0, 1}
      BY DEF Owed
    <3>3. delivered[j] \in Nat /\ armed[j] \in Nat /\ excused[j] \in Nat
      BY DEF TypeOK
    <3> QED
      BY <2>2, <3>1, <3>2, <3>3 DEF Balance
  <2>4. CASE j # cur
    <3>1. delivered'[j] = delivered[j] /\ excused'[j] = excused[j]
      BY <1>10, <2>1, <2>4 DEF SendAckLost, Posted, TypeOK
    <3>2. Owed(j)' <= Owed(j)
      BY <2>2 DEF Owed
    <3> QED
      BY <1>10, <3>1, <3>2, QuietBalance DEF SendAckLost
  <2> QED
    BY <2>3, <2>4
<1>11. CASE PersistWatch
  <2>1. cur \in Jobs
    BY <1>11, <1>r DEF PersistWatch, InRun, Steps
  <2>2. snap[cur] \in Rows /\ found \in Nat /\ plan \in Nat
    BY <2>1 DEF TypeOK
  <2>3. WatchRow \in Rows
    BY <2>2 DEF WatchRow, Rows
  <2>4. Owed(j)' <= Owed(j)
    BY <1>11, <1>w, <2>1, <2>3 DEF PersistWatch
  <2> QED
    BY <1>11, <2>4, QuietBalance DEF PersistWatch
<1>12. CASE StoreFails \/ Crash BY <1>12, DroppedBalance DEF StoreFails, Crash
<1>13. ASSUME NEW k \in Jobs, Schedule(k) PROVE Balance(j)'
  <2>1. j # k => (Active(j)' <=> Active(j))
    BY <1>13, ScheduledRow, ActiveAfterUpsert DEF TypeOK
  <2>2. j # k => Owed(j)' <= Owed(j)
    BY <1>13, <2>1 DEF Schedule, Owed
  <2> QED
    BY <1>13, <2>2, ArmedBalance DEF Schedule
<1>14. ASSUME NEW k \in Jobs, RunNow(k) PROVE Balance(j)'
  <2>1. j # k => (Active(j)' => Active(j))
    BY <1>14, ActiveAfterUpdate DEF RunNow, TypeOK, States
  <2>2. j # k => Owed(j)' <= Owed(j)
    BY <1>14, <2>1 DEF RunNow, Owed
  <2> QED
    BY <1>14, <2>2, ArmedBalance DEF RunNow
<1>15. ASSUME NEW k \in Jobs, Cancel(k) PROVE Balance(j)'
  <2>1. Active(j)' => Active(j)
    BY <1>15, ActiveAfterUpdate DEF Cancel, TypeOK, States, DueStates
  <2>2. Owed(j)' <= Owed(j)
    BY <1>15, <2>1 DEF Cancel, Owed
  <2> QED
    BY <1>15, <2>2, QuietBalance DEF Cancel
<1>16. CASE Start
  <2>1. row'[j] = row[j]
    BY <1>16 DEF Start, EnsurePulse, OneShot, TypeOK
  <2>2. Owed(j)' <= Owed(j)
    BY <1>16, <2>1 DEF Start, Owed, Active
  <2> QED
    BY <1>16, <2>2, QuietBalance DEF Start
<1>17. CASE AdvanceClock \/ Publish \/ UNCHANGED vars
  <2>1. Owed(j)' <= Owed(j)
    BY <1>17 DEF AdvanceClock, Publish, vars, Owed, Active
  <2> QED
    BY <1>17, <2>1, QuietBalance DEF AdvanceClock, Publish, vars
<1> QED
  BY <1>1, <1>2, <1>3, <1>4, <1>5, <1>6, <1>7, <1>8, <1>9, <1>10, <1>11, <1>12, <1>13,
     <1>14, <1>15, <1>16, <1>17
  DEF Next, Scheduler, Handler

\* The empty database and the stopped process satisfy the invariant.
LEMMA InitIInv == Init => IInv
<1> SUFFICES ASSUME Init PROVE IInv
  OBVIOUS
<1> USE JobsAssumption DEF Init
<1>1. TypeOK
  BY DEF TypeOK, Blank, Rows, States
<1>2. RunInHand
  BY DEF RunInHand, InRun, Steps
<1>3. OneShotAccounting
  BY DEF OneShotAccounting, Owed, Active, DueStates, Blank
<1> QED
  BY <1>1, <1>2, <1>3 DEF IInv

\* The inductive invariant: types, the run in hand and the balance of every job.
THEOREM Invariance == Spec => []IInv
<1>1. IInv /\ [Next]_vars => IInv'
  BY TypeStep, RunStep, AccountingStep DEF IInv
<1> QED
  BY <1>1, InitIInv, PTL DEF Spec

\* The state of the table, of the scheduler goroutine and of the run in hand always
\* has its type, whatever tools, faults and restarts do.
THEOREM TypeCorrect == Spec => []TypeOK
  BY Invariance, PTL DEF IInv

\* A reminder or wake summary is posted at most once per arming, plus once for each
\* run cut short after its post, in every configuration of the bot.
THEOREM OneShotBalance == Spec => []OneShotAccounting
  BY Invariance, PTL DEF IInv

-----------------------------------------------------------------------------
Stays(j) ==
  (row[j].state = "completed" /\ j \notin todo /\ cur # j)
    => \/ row'[j].state = "completed" \/ armed'[j] > armed[j]
       \/ pc = "down" /\ KindOf[j] = "pulse" /\ row[j].every # Interval[j]

\* A statement of the store for another job leaves a row as it is.
LEMMA OtherRow ==
  ASSUME TypeOK, NEW j \in Jobs, NEW k \in Jobs, j # k,
         NEW s, NEW t, NEW r,
         UpdateJobState(k, s, t) \/ UpsertJob(k, r)
  PROVE  row'[j] = row[j]
<1>1. row \in [Jobs -> Rows]
  BY DEF TypeOK
<1> QED
  BY <1>1 DEF UpdateJobState, UpsertJob

\* No step but the pulse set-up revives a completed job the scheduler does not hold.
LEMMA StaysStep == IInv /\ [Next]_vars => \A j \in Jobs : Stays(j)
<1> SUFFICES ASSUME IInv, [Next]_vars, NEW j \in Jobs,
                    row[j].state = "completed", j \notin todo, cur # j
             PROVE  \/ row'[j].state = "completed" \/ armed'[j] > armed[j]
                    \/ pc = "down" /\ KindOf[j] = "pulse" /\ row[j].every # Interval[j]
  BY DEF Stays
<1>t. TypeOK /\ RunInHand
  BY DEF IInv
<1>r. row \in [Jobs -> Rows]
  BY <1>t DEF TypeOK
<1>q. ASSUME UNCHANGED row PROVE row'[j].state = "completed"
  BY <1>q
<1>1. CASE UNCHANGED vars BY <1>1 DEF vars, table
<1>2. CASE Poll \/ ReadMessages \/ CodexTurn \/ Fetch \/ Send \/ SendAckLost \/ SaveSummary
           \/ HandlerError \/ StoreFails \/ Crash \/ AdvanceClock \/ Publish
  BY <1>2 DEF Poll, ReadMessages, CodexTurn, Fetch, Send, SendAckLost, SaveSummary,
       HandlerError, Fail, StoreFails, Crash, AdvanceClock, Publish, Returned, table
<1>3. ASSUME NEW k \in Jobs, SkipMissing(k) \/ Begin(k) PROVE row'[j].state = "completed"
  <2>1. k # j
    BY <1>3 DEF SkipMissing, Begin, First
  <2> QED
    BY <1>3, <2>1, <1>t, OtherRow DEF SkipMissing, Begin
<1>4. CASE Record
  <2>1. cur \in Jobs
    BY <1>4, <1>t DEF Record, RunInHand, InRun, TypeOK
  <2> QED
    BY <1>4, <2>1, <1>t, OtherRow DEF Record
<1>5. CASE EnsureJobThread
  <2>1. cur \in Jobs
    BY <1>5, <1>t DEF EnsureJobThread, RunInHand, InRun, Steps, TypeOK
  <2> QED
    BY <1>5, <2>1, <1>t, OtherRow DEF EnsureJobThread
<1>6. CASE PersistWatch
  <2>1. cur \in Jobs
    BY <1>6, <1>t DEF PersistWatch, RunInHand, InRun, Steps, TypeOK
  <2> QED
    BY <1>6, <2>1, <1>t, OtherRow DEF PersistWatch
<1>7. ASSUME NEW k \in Jobs, Schedule(k) \/ RunNow(k)
      PROVE row'[j].state = "completed" \/ armed'[j] > armed[j]
  <2>1. CASE k = j BY <1>7, <2>1, <1>t DEF Schedule, RunNow, Arm, TypeOK
  <2>2. CASE k # j BY <1>7, <2>2, <1>t, OtherRow DEF Schedule, RunNow
  <2> QED
    BY <2>1, <2>2
<1>8. ASSUME NEW k \in Jobs, Cancel(k) PROVE row'[j].state = "completed"
  <2>1. CASE k = j BY <1>8, <2>1, <1>r DEF Cancel, UpdateJobState, Rows
  <2>2. CASE k # j BY <1>8, <2>2, <1>t, OtherRow DEF Cancel
  <2> QED
    BY <2>1, <2>2
<1>9. CASE Start BY <1>9, <1>r DEF Start, EnsurePulse
<1> QED
  BY <1>1, <1>2, <1>3, <1>4, <1>5, <1>6, <1>7, <1>8, <1>9 DEF Next, Scheduler, Handler

\* A completed or cancelled job stays completed until a tool arms it, unless the
\* scheduler already holds it or the set-up replaces a pulse of another schedule: for
\* every set of jobs, kinds, schedules and bounds.
THEOREM CompletedStays == Spec => CompletedUntilRearmed
<1>1. IInv /\ [Next]_vars
        => [\A j \in Jobs :
              (row[j].state = "completed" /\ j \notin todo /\ cur # j)
                => \/ row'[j].state = "completed" \/ armed'[j] > armed[j]
                   \/ pc = "down" /\ KindOf[j] = "pulse" /\ row[j].every # Interval[j]]_vars
  BY StaysStep DEF Stays
<1> QED
  BY <1>1, Invariance, PTL DEF Spec, CompletedUntilRearmed

-----------------------------------------------------------------------------
(* The watches. *)

\* Where a run of a watch may be and what it has in hand.
WatchRun(j) ==
  cur = j =>
    /\ pc \in {"fetch", "send", "upsert", "record"}
    /\ pc = "send" => found # 0 /\ snap[j].seen \notin {0, found}
    /\ pc = "upsert" => IF told THEN last[j] = found ELSE snap[j].seen = 0

\* The scheduler still reads the snapshot of the job: it is due, or its run is before
\* the row it writes back.
Holds(j) == j \in todo \/ (cur = j /\ pc \in {"fetch", "send", "upsert"})

\* Nothing excuses a repetition, so the row and the snapshot a run works on know the tag
\* posted last, or the run that posted it is about to write it.
KnowsLast(j) ==
  (last[j] # 0 /\ ~again[j]) =>
    \/ cur = j /\ pc = "upsert" /\ told
    \/ row[j].seen = last[j] /\ (Holds(j) => snap[j].seen = last[j])

WatchOK(j) == WatchRun(j) /\ KnowsLast(j)

WatchInv == published # 0 /\ \A j \in Jobs : KindOf[j] = "watch" => WatchOK(j)

\* Setting a state or a next run leaves the tags of every row.
LEMMA SeenAfterUpdate ==
  ASSUME row \in [Jobs -> Rows], NEW k \in Jobs, NEW s, NEW t, UpdateJobState(k, s, t),
         NEW j \in Jobs
  PROVE  row'[j].seen = row[j].seen
<1>1. CASE row[k].state = "absent" BY <1>1 DEF UpdateJobState
<1>2. CASE row[k].state # "absent"
  <2>1. row' = [row EXCEPT ![k] = [row[k] EXCEPT !.state = s, !.next = t]]
    BY <1>2 DEF UpdateJobState
  <2>2. row[k] \in Rows
    OBVIOUS
  <2>3. [row[k] EXCEPT !.state = s, !.next = t].seen = row[k].seen
    BY <2>2 DEF Rows
  <2> QED
    BY <2>1, <2>3
<1> QED
  BY <1>1, <1>2

\* The row a watch writes back holds the tag it found.
LEMMA WrittenTag ==
  ASSUME TypeOK, RunInHand, PersistWatch, NEW j \in Jobs
  PROVE  row'[j].seen = IF cur = j THEN found ELSE row[j].seen
<1>1. cur \in Jobs
  BY DEF PersistWatch, RunInHand, TypeOK, InRun, Steps
<1>2. WatchRow.seen = found
  BY <1>1 DEF WatchRow, TypeOK, Rows
<1> QED
  BY <1>1, <1>2 DEF PersistWatch, UpsertJob, TypeOK

\* A step that does not concern the watch j, or begins or records its run.
LEMMA AsideKeeps ==
  ASSUME NEW j \in Jobs, WatchOK(j),
         row'[j].seen = row[j].seen, last'[j] = last[j], again'[j] = again[j],
         snap'[j] = snap[j] \/ j \notin todo', j \in todo' => j \in todo,
         \/ cur # j /\ cur' # j
         \/ UNCHANGED <<cur, pc, told, found, snap>>
         \/ cur' # j /\ pc # "upsert" /\ j \notin todo'
  PROVE  WatchOK(j)'
  BY DEF WatchOK, WatchRun, KnowsLast, Holds

\* A run that is cut short excuses the tag it has posted.
LEMMA CutKeeps ==
  ASSUME TypeOK, RunInHand, NEW j \in Jobs, KindOf[j] = "watch", WatchOK(j),
         ExcuseRun, row' = row, last' = last,
         \/ todo' = {} /\ cur' = None
         \/ UNCHANGED <<todo, snap, cur>> /\ pc' = "record"
  PROVE  WatchOK(j)'
<1> USE JobsAssumption
<1>1. CASE cur = j /\ told
  <2>1. again'[j] = TRUE
    BY <1>1 DEF ExcuseRun, TypeOK
  <2> QED
    BY <2>1 DEF WatchOK, WatchRun, KnowsLast
<1>2. CASE ~(cur = j /\ told)
  <2>1. again'[j] = again[j]
    BY <1>2 DEF ExcuseRun, TypeOK
  <2> QED
    BY <1>2, <2>1 DEF WatchOK, WatchRun, KnowsLast, Holds
<1> QED
  BY <1>1, <1>2

\* Every step keeps what a watch and its row know of its announcements.
LEMMA WatchStep ==
  ASSUME TypeOK, RunInHand, [Next]_vars, published # 0,
         NEW j \in Jobs, KindOf[j] = "watch", WatchOK(j)
  PROVE  WatchOK(j)'
<1> USE JobsAssumption DEF table, control, run, history
<1>t. row \in [Jobs -> Rows] /\ snap \in [Jobs -> Rows] /\ last \in [Jobs -> Nat]
      /\ again \in [Jobs -> BOOLEAN]
  BY DEF TypeOK
<1>r. /\ pc \in InRun => cur \in Jobs
      /\ pc \notin InRun => cur = None /\ ~told
      /\ cur \notin todo
  BY DEF RunInHand, TypeOK, InRun, Steps
<1>k. cur = j => Kind = "watch"
  BY DEF Kind
<1>1. CASE Poll
  <2>1. cur = None /\ cur' = None /\ UNCHANGED <<row, last, again>>
    BY <1>1, <1>r DEF Poll, InRun, Steps
  <2>2. j \in todo' => snap'[j] = row[j]
    BY <1>1 DEF Poll
  <2> QED
    BY <2>1, <2>2 DEF WatchOK, WatchRun, KnowsLast, Holds
<1>2. ASSUME NEW k \in Jobs, SkipMissing(k) PROVE WatchOK(j)'
  <2>1. k # j /\ cur # j /\ cur' = cur
    BY <1>2, <1>r DEF SkipMissing, InRun, Steps
  <2>2. row'[j].seen = row[j].seen
    BY <1>2, <1>t, SeenAfterUpdate DEF SkipMissing
  <2>3. snap'[j] = snap[j] /\ (j \in todo' => j \in todo) /\ UNCHANGED <<last, again>>
    BY <1>2, <1>t, <2>1 DEF SkipMissing
  <2> QED
    BY <2>1, <2>2, <2>3, AsideKeeps
<1>3. ASSUME NEW k \in Jobs, Begin(k) PROVE WatchOK(j)'
  <2>1. cur # j /\ ~told /\ ~told' /\ cur' = k /\ UNCHANGED <<last, again, snap>>
        /\ (j \in todo' => j \in todo)
    BY <1>3, <1>r DEF Begin, InRun, Steps
  <2>2. row'[j].seen = row[j].seen
    BY <1>3, <1>t, SeenAfterUpdate DEF Begin
  <2>3. CASE k # j BY <2>1, <2>2, <2>3, AsideKeeps
  <2>4. CASE k = j
    <3>1. pc' = "fetch" /\ j \in todo
      BY <1>3, <2>4 DEF Begin, FirstStep, First
    <3> QED
      BY <2>1, <2>2, <2>4, <3>1 DEF WatchOK, WatchRun, KnowsLast, Holds
  <2> QED
    BY <2>3, <2>4
<1>4. CASE Record
  <2>1. cur \in Jobs /\ cur' = None /\ pc = "record" /\ todo' = todo /\ UNCHANGED <<last, again>>
    BY <1>4, <1>r DEF Record, InRun
  <2>2. row'[j].seen = row[j].seen
    BY <1>4, <1>t, <2>1, SeenAfterUpdate DEF Record
  <2>3. CASE cur = j BY <1>r, <2>1, <2>2, <2>3, AsideKeeps
  <2>4. CASE cur # j
    <3>1. snap'[j] = snap[j]
      BY <1>4, <1>t, <2>4 DEF Record
    <3> QED
      BY <2>1, <2>2, <2>4, <3>1, AsideKeeps
  <2> QED
    BY <2>3, <2>4
<1>5. CASE HandlerError BY <1>5, CutKeeps DEF HandlerError, Fail
<1>6. CASE StoreFails \/ Crash BY <1>6, CutKeeps DEF StoreFails, Crash, DropTick
<1>7. CASE ReadMessages \/ EnsureJobThread \/ CodexTurn \/ SaveSummary
  <2>1. cur # j /\ cur \in Jobs
    BY <1>7, <1>r DEF ReadMessages, EnsureJobThread, CodexTurn, SaveSummary,
                      WatchOK, WatchRun, InRun, Steps
  <2>2. UNCHANGED <<cur, todo, snap, last, again>>
    BY <1>7 DEF ReadMessages, EnsureJobThread, CodexTurn, SaveSummary, Returned
  <2>3. row'[j] = row[j]
    BY <1>7, <1>t, <2>1 DEF ReadMessages, EnsureJobThread, CodexTurn, SaveSummary, Returned,
                            UpsertJob
  <2> QED
    BY <2>1, <2>2, <2>3, AsideKeeps
<1>8. CASE Fetch
  <2>1. UNCHANGED <<row, todo, snap, cur, told, last, again>> /\ found' = published /\ ~told
    BY <1>8, <1>r DEF Fetch, RunInHand
  <2>2. CASE cur # j BY <2>1, <2>2, AsideKeeps
  <2>3. CASE cur = j
    <3>1. pc' \in {"send", "upsert", "record"} /\ pc = "fetch"
      BY <1>8 DEF Fetch, AfterFetch
    <3>2. pc' = "send" => snap[j].seen \notin {0, published}
      BY <1>8, <2>3 DEF Fetch, AfterFetch
    <3>3. pc' = "upsert" => snap[j].seen = 0
      BY <1>8, <2>3 DEF Fetch, AfterFetch
    <3> QED
      BY <2>1, <2>3, <3>1, <3>2, <3>3 DEF WatchOK, WatchRun, KnowsLast, Holds
  <2> QED
    BY <2>2, <2>3
<1>9. CASE Send \/ SendAckLost
  <2>1. cur \in Jobs /\ UNCHANGED <<row, todo, snap, cur, found>> /\ pc = "send"
    BY <1>9, <1>r DEF Send, SendAckLost, InRun, Steps
  <2>2. CASE cur # j
    <3>1. last'[j] = last[j] /\ again'[j] = again[j]
      BY <1>9, <1>t, <2>1, <2>2 DEF Send, SendAckLost, Posted
    <3> QED
      BY <2>1, <2>2, <3>1, AsideKeeps
  <2>3. CASE cur = j /\ Send
    <3>1. last'[j] = found /\ told' /\ pc' = "upsert"
      BY <1>t, <1>k, <2>3 DEF Send, Posted, AfterSend
    <3> QED
      BY <2>1, <2>3, <3>1 DEF WatchOK, WatchRun, KnowsLast
  <2>4. CASE cur = j /\ SendAckLost
    <3>1. again'[j] /\ pc' = "record"
      BY <1>t, <1>k, <2>4 DEF SendAckLost
    <3> QED
      BY <2>1, <2>4, <3>1 DEF WatchOK, WatchRun, KnowsLast
  <2> QED
    BY <1>9, <2>2, <2>3, <2>4
<1>10. CASE PersistWatch
  <2>1. UNCHANGED <<todo, snap, cur, told, found, last, again>> /\ pc = "upsert" /\ pc' = "record"
    BY <1>10 DEF PersistWatch, Finish
  <2>2. row'[j].seen = IF cur = j THEN found ELSE row[j].seen
    BY <1>10, WrittenTag
  <2>3. CASE cur # j BY <2>1, <2>2, <2>3, AsideKeeps
  <2>4. CASE cur = j BY <1>r, <2>1, <2>2, <2>4 DEF WatchOK, WatchRun, KnowsLast, Holds
  <2> QED
    BY <2>3, <2>4
<1>11. ASSUME NEW k \in Jobs, Schedule(k) PROVE WatchOK(j)'
  <2>1. UNCHANGED <<pc, todo, snap, cur, told, found, last>>
    BY <1>11 DEF Schedule
  <2>2. CASE k = j
    <3>1. again'[j]
      BY <1>11, <1>t, <2>2 DEF Schedule
    <3> QED
      BY <2>1, <3>1 DEF WatchOK, WatchRun, KnowsLast
  <2>3. CASE k # j
    <3>1. row'[j] = row[j] /\ again'[j] = again[j]
      BY <1>11, <1>t, <2>3, ScheduledRow DEF Schedule, UpsertJob
    <3> QED
      BY <2>1, <3>1, AsideKeeps
  <2> QED
    BY <2>2, <2>3
<1>12. ASSUME NEW k \in Jobs, RunNow(k) \/ Cancel(k) PROVE WatchOK(j)'
  <2>1. UNCHANGED <<pc, todo, snap, cur, told, found, last, again>>
    BY <1>12 DEF RunNow, Cancel
  <2>2. row'[j].seen = row[j].seen
    BY <1>12, <1>t, SeenAfterUpdate DEF RunNow, Cancel
  <2> QED
    BY <2>1, <2>2, AsideKeeps
<1>13. CASE Start
  <2>1. row'[j] = row[j] /\ UNCHANGED <<todo, snap, cur, last, again>> /\ cur # j
    BY <1>13, <1>r DEF Start, EnsurePulse, InRun, Steps
  <2> QED
    BY <2>1, AsideKeeps
<1>14. CASE AdvanceClock \/ Publish \/ UNCHANGED vars
  <2>1. UNCHANGED <<row, pc, todo, snap, cur, told, found, last, again>>
    BY <1>14 DEF AdvanceClock, Publish, vars
  <2> QED
    BY <2>1, AsideKeeps
<1> QED
  BY <1>1, <1>2, <1>3, <1>4, <1>5, <1>6, <1>7, <1>8, <1>9, <1>10, <1>11, <1>12, <1>13, <1>14
  DEF Next, Scheduler, Handler

\* There is always a release or a page to look at.
LEMMA PublishedStep == published # 0 /\ [Next]_vars => published' # 0
  BY DEF Next, vars, table, control, run, history, Scheduler, Handler, Poll, SkipMissing, Begin,
         Record, HandlerError, Fail, ReadMessages, EnsureJobThread, CodexTurn, Fetch, Send,
         SendAckLost, SaveSummary, PersistWatch, Returned, StoreFails, Schedule, RunNow, Cancel,
         Start, Crash, AdvanceClock, Publish

\* The accounts of the watches hold in every reachable state.
LEMMA WatchAlways == Spec => []WatchInv
<1>1. Init => WatchInv
  BY JobsAssumption DEF Init, WatchInv, WatchOK, WatchRun, KnowsLast
<1>2. IInv /\ WatchInv /\ [Next]_vars => WatchInv'
  BY WatchStep, PublishedStep DEF IInv, WatchInv
<1> QED
  BY <1>1, <1>2, Invariance, PTL DEF Spec

\* A watch posts the tag it posted last once more only when the run of that post was cut
\* short or jobs.schedule rewrote its row since: for any number of releases, withdrawn
\* ones included, of runs, tools and restarts.
THEOREM AnnouncedOnce == Spec => WatchNoRepeat
<1> DEFINE Repeats(j) == KindOf[j] = "watch" /\ delivered'[j] > delivered[j] /\ last'[j] = last[j]
<1>1. ASSUME IInv, WatchInv, Next, NEW j \in Jobs, Repeats(j) PROVE again[j]
  <2> USE JobsAssumption DEF table, control, run, history
  <2>1. WatchOK(j) /\ delivered \in [Jobs -> Nat] /\ last \in [Jobs -> Nat]
    BY <1>1 DEF WatchInv, IInv, TypeOK
  <2>2. CASE Send \/ SendAckLost
    <3>1. pc = "send" /\ cur \in Jobs
      BY <1>1, <2>2 DEF Send, SendAckLost, IInv, RunInHand, TypeOK, InRun, Steps
    <3>2. cur = j
      BY <1>1, <2>1, <2>2, <3>1 DEF Send, SendAckLost, Posted
    <3>3. last'[j] = found
      BY <1>1, <2>1, <2>2, <3>2 DEF Send, SendAckLost, Posted, Kind
    <3> QED
      BY <1>1, <2>1, <3>1, <3>2, <3>3 DEF WatchOK, WatchRun, KnowsLast, Holds
  <2>3. CASE delivered' = delivered BY <1>1, <2>1, <2>3
  <2> QED
    BY <1>1, <2>2, <2>3
    DEF Next, Scheduler, Handler, Poll, SkipMissing, Begin, Record, HandlerError, Fail,
        ReadMessages, EnsureJobThread, CodexTurn, Fetch, SaveSummary, PersistWatch, Returned,
        StoreFails, Schedule, RunNow, Cancel, Start, Crash, AdvanceClock, Publish
<1>2. IInv /\ WatchInv /\ [Next]_vars
        => [\A j \in Jobs :
              (KindOf[j] = "watch" /\ delivered'[j] > delivered[j] /\ last'[j] = last[j])
                => again[j]]_vars
  BY <1>1
<1> QED
  BY WatchAlways, Invariance, <1>2, PTL DEF Spec, WatchNoRepeat

\* What a watch remembers moves only to what jobs.schedule stores, to what it finds on its
\* first look, or to the tag it posted last.
THEOREM SeenFollowsAnnounced == Spec => SeenWasAnnounced
<1> DEFINE Moved(j) == KindOf[j] = "watch" /\ row'[j].seen # row[j].seen
           Rightly(j) == \/ armed'[j] > armed[j]
                         \/ cur = j /\ snap[j].seen = 0
                         \/ row'[j].seen = last[j]
<1>1. ASSUME IInv, WatchInv, Next, NEW j \in Jobs, Moved(j) PROVE Rightly(j)
  <2> USE JobsAssumption DEF table, control, run, history
  <2>t. row \in [Jobs -> Rows] /\ armed \in [Jobs -> Nat] /\ (pc \in InRun => cur \in Jobs)
    BY <1>1 DEF IInv, TypeOK, RunInHand
  <2>1. WatchOK(j)
    BY <1>1 DEF WatchInv
  <2>2. CASE PersistWatch
    <3>1. row'[j].seen = IF cur = j THEN found ELSE row[j].seen
      BY <1>1, <2>2, WrittenTag DEF IInv
    <3>2. cur = j /\ pc = "upsert"
      BY <1>1, <2>2, <3>1 DEF PersistWatch
    <3> QED
      BY <2>1, <3>1, <3>2 DEF WatchOK, WatchRun
  <2>3. CASE EnsureJobThread
    <3>1. cur # j /\ cur \in Jobs
      BY <2>t, <2>1, <2>3 DEF EnsureJobThread, WatchOK, WatchRun, InRun, Steps
    <3>2. row'[j] = row[j]
      BY <2>t, <2>3, <3>1 DEF EnsureJobThread, UpsertJob
    <3> QED
      BY <1>1, <3>2
  <2>4. ASSUME NEW k \in Jobs, SkipMissing(k) \/ Begin(k) \/ RunNow(k) \/ Cancel(k)
        PROVE Rightly(j)
    <3>1. row'[j].seen = row[j].seen
      BY <2>t, <2>4, SeenAfterUpdate DEF SkipMissing, Begin, RunNow, Cancel
    <3> QED
      BY <1>1, <3>1
  <2>5. CASE Record
    <3>1. row'[j].seen = row[j].seen
      BY <2>t, <2>5, SeenAfterUpdate DEF Record, InRun
    <3> QED
      BY <1>1, <3>1
  <2>6. ASSUME NEW k \in Jobs, Schedule(k) PROVE Rightly(j)
    <3>1. CASE k = j BY <2>t, <2>6, <3>1 DEF Schedule, Arm
    <3>2. CASE k # j
      <4>1. row'[j] = row[j]
        BY <1>1, <2>t, <2>6, <3>2, ScheduledRow DEF IInv, UpsertJob
      <4> QED
        BY <1>1, <4>1
    <3> QED
      BY <3>1, <3>2
  <2>7. CASE Start
    <3>1. row'[j] = row[j]
      BY <1>1, <2>t, <2>7 DEF Start, EnsurePulse
    <3> QED
      BY <1>1, <3>1
  <2>8. CASE row' = row BY <1>1, <2>8
  <2>9. CASE Poll \/ ReadMessages \/ CodexTurn \/ Fetch \/ Send \/ SendAckLost \/ SaveSummary
               \/ HandlerError \/ StoreFails \/ Crash \/ AdvanceClock \/ Publish
    BY <2>8, <2>9 DEF Poll, ReadMessages, CodexTurn, Fetch, Send, SendAckLost, SaveSummary,
         HandlerError, Fail, StoreFails, Crash, AdvanceClock, Publish, Returned
  <2> QED
    BY <1>1, <2>2, <2>3, <2>4, <2>5, <2>6, <2>7, <2>9 DEF Next, Scheduler, Handler
<1>2. IInv /\ WatchInv /\ [Next]_vars
        => [\A j \in Jobs :
              (KindOf[j] = "watch" /\ row'[j].seen # row[j].seen)
                => \/ armed'[j] > armed[j]
                   \/ cur = j /\ snap[j].seen = 0
                   \/ row'[j].seen = last[j]]_vars
  BY <1>1
<1> QED
  BY WatchAlways, Invariance, <1>2, PTL DEF Spec, SeenWasAnnounced

-----------------------------------------------------------------------------
(* One-shot jobs are paid for. *)

\* What OneShotPosts sees of the scheduler.
CreditNow == [j \in Ones |-> Credit(j)]
PostedNow == [j \in Ones |-> delivered[j]]
OpenNow == [j \in Ones |-> cur = j /\ told]

\* A step of OneShotPosts, or none.
CreditStep == Posts!PostNext \/ UNCHANGED <<CreditNow, PostedNow, OpenNow>>

\* The counts are numbers, and a job that holds the goroutine before its post has a credit.
LEMMA CreditFacts ==
  ASSUME IInv, NEW j \in Ones
  PROVE  /\ j \in Jobs /\ KindOf[j] \in OneShot
         /\ armed[j] \in Nat /\ excused[j] \in Nat /\ delivered[j] \in Nat
         /\ CreditNow[j] = armed[j] + excused[j] - delivered[j] /\ PostedNow[j] = delivered[j]
         /\ cur = j /\ ~told => CreditNow[j] > 0
<1>1. j \in Jobs /\ KindOf[j] \in OneShot
  BY DEF Ones
<1>2. armed[j] \in Nat /\ excused[j] \in Nat /\ delivered[j] \in Nat
  BY <1>1 DEF IInv, TypeOK
<1>3. CreditNow[j] = armed[j] + excused[j] - delivered[j] /\ PostedNow[j] = delivered[j]
  BY DEF CreditNow, Credit, PostedNow
<1>4. delivered[j] + Owed(j) <= armed[j] + excused[j]
  BY <1>1 DEF IInv, OneShotAccounting
<1>5. cur = j /\ ~told => Owed(j) = 1
  BY DEF Owed
<1> QED
  BY <1>1, <1>2, <1>3, <1>4, <1>5

\* Steps that neither arm nor post, and keep the message of the run in hand.
LEMMA QuietPaid ==
  ASSUME UNCHANGED <<armed, excused, delivered>>,
         \A j \in Ones : (cur' = j /\ told') <=> (cur = j /\ told)
  PROVE  CreditStep
<1>1. UNCHANGED <<CreditNow, PostedNow>>
  BY DEF CreditNow, PostedNow, Credit
<1>2. UNCHANGED OpenNow
  BY DEF OpenNow
<1> QED
  BY <1>1, <1>2 DEF CreditStep

\* Arming a job.
LEMMA ArmPaid ==
  ASSUME IInv, NEW k \in Jobs, Arm(k), UNCHANGED <<excused, delivered, cur, told>>
  PROVE  CreditStep
<1>1. UNCHANGED <<PostedNow, OpenNow>>
  BY DEF PostedNow, OpenNow
<1>2. armed' = [armed EXCEPT ![k] = armed[k] + 1] /\ armed \in [Jobs -> Nat]
  BY DEF Arm, IInv, TypeOK
<1>3. ASSUME NEW j \in Ones
      PROVE  CreditNow'[j] = IF j = k THEN CreditNow[j] + 1 ELSE CreditNow[j]
  BY <1>2, <1>3, CreditFacts DEF CreditNow, Credit
<1>4. CASE k \in Ones
  <2>1. CreditNow' = [CreditNow EXCEPT ![k] = CreditNow[k] + 1]
    BY <1>3 DEF CreditNow
  <2> QED
    BY <1>1, <1>4, <2>1 DEF CreditStep, Posts!PostNext, Posts!Ask, CreditNow, PostedNow, OpenNow
<1>5. CASE k \notin Ones
  <2>1. CreditNow' = CreditNow
    BY <1>3, <1>5 DEF CreditNow
  <2> QED
    BY <1>1, <2>1 DEF CreditStep
<1> QED
  BY <1>4, <1>5

\* The end of a run, recorded or cut short.
LEMMA EndPaid ==
  ASSUME IInv, told' = FALSE, UNCHANGED <<armed, delivered>>, ExcuseRun \/ UNCHANGED excused
  PROVE  CreditStep
<1>1. UNCHANGED PostedNow /\ \A j \in Ones : OpenNow'[j] = FALSE
  BY DEF PostedNow, OpenNow
<1>2. excused \in [Jobs -> Nat]
  BY DEF IInv, TypeOK
<1>3. CASE cur \in Ones /\ told
  <2>1. OpenNow[cur] /\ OpenNow' = [OpenNow EXCEPT ![cur] = FALSE]
    BY <1>1, <1>3 DEF OpenNow
  <2>2. CASE UNCHANGED excused
    <3>1. UNCHANGED CreditNow
      BY <2>2 DEF CreditNow, Credit
    <3> QED
      BY <1>1, <1>3, <2>1, <3>1
         DEF CreditStep, Posts!PostNext, Posts!Keep, CreditNow, PostedNow, OpenNow
  <2>3. CASE ExcuseRun
    <3>1. ASSUME NEW j \in Ones
          PROVE  CreditNow'[j] = IF j = cur THEN CreditNow[j] + 1 ELSE CreditNow[j]
      BY <1>2, <1>3, <2>3, <3>1, CreditFacts DEF ExcuseRun, CreditNow, Credit
    <3>2. CreditNow' = [CreditNow EXCEPT ![cur] = CreditNow[cur] + 1]
      BY <3>1 DEF CreditNow
    <3> QED
      BY <1>1, <1>3, <2>1, <3>2
         DEF CreditStep, Posts!PostNext, Posts!Redo, CreditNow, PostedNow, OpenNow
  <2> QED
    BY <2>2, <2>3
<1>4. CASE ~(cur \in Ones /\ told)
  <2>1. ASSUME NEW j \in Ones PROVE excused'[j] = excused[j]
    <3>1. told => j # cur
      BY <1>4
    <3> QED
      BY <1>2, <2>1, <3>1, CreditFacts DEF ExcuseRun
  <2>2. UNCHANGED CreditNow
    BY <2>1 DEF CreditNow, Credit
  <2>3. UNCHANGED OpenNow
    BY <1>4 DEF OpenNow
  <2> QED
    BY <1>1, <2>2, <2>3 DEF CreditStep
<1> QED
  BY <1>3, <1>4

\* A post.
LEMMA SendPaid == IInv /\ (Send \/ SendAckLost) => CreditStep
<1> SUFFICES ASSUME IInv, Send \/ SendAckLost PROVE CreditStep
  OBVIOUS
<1>1. TypeOK /\ pc = "send" /\ cur \in Jobs /\ ~told
  BY DEF IInv, TypeOK, RunInHand, InRun, Steps, Send, SendAckLost
<1>2. UNCHANGED <<armed, cur>> /\ Posted
  BY DEF Send, SendAckLost
<1>3. CASE cur \in Ones
  <2>1. CreditNow[cur] > 0 /\ ~OpenNow[cur]
    BY <1>1, <1>3, CreditFacts DEF OpenNow
  <2>2. delivered' = [delivered EXCEPT ![cur] = delivered[cur] + 1] /\ delivered \in [Jobs -> Nat]
    BY <1>1, <1>2, <1>3, CreditFacts DEF Posted, Kind, TypeOK
  <2>3. PostedNow' = [PostedNow EXCEPT ![cur] = PostedNow[cur] + 1]
    BY <1>3, <2>2, CreditFacts DEF PostedNow
  <2>4. CASE Send
    <3>1. ASSUME NEW j \in Ones
          PROVE  CreditNow'[j] = IF j = cur THEN CreditNow[j] - 1 ELSE CreditNow[j]
      BY <1>2, <2>2, <2>4, <3>1, CreditFacts DEF Send, CreditNow, Credit
    <3>2. CreditNow' = [CreditNow EXCEPT ![cur] = CreditNow[cur] - 1]
      BY <3>1 DEF CreditNow
    <3>3. OpenNow' = [OpenNow EXCEPT ![cur] = TRUE]
      BY <1>1, <1>2, <1>3, <2>4 DEF Send, OpenNow
    <3> QED
      BY <1>3, <2>1, <2>3, <3>2, <3>3
         DEF CreditStep, Posts!PostNext, Posts!Post, CreditNow, PostedNow, OpenNow
  <2>5. CASE SendAckLost
    <3>1. ASSUME NEW j \in Ones PROVE CreditNow'[j] = CreditNow[j]
      BY <1>1, <1>2, <2>2, <2>5, <3>1, CreditFacts DEF SendAckLost, CreditNow, Credit, TypeOK
    <3>2. UNCHANGED <<CreditNow, OpenNow>>
      BY <1>2, <2>5, <3>1 DEF SendAckLost, CreditNow, OpenNow
    <3> QED
      BY <1>3, <2>1, <2>3, <3>2
         DEF CreditStep, Posts!PostNext, Posts!PostUnheard, CreditNow, PostedNow, OpenNow
  <2> QED
    BY <2>4, <2>5
<1>4. CASE cur \notin Ones
  <2>1. ASSUME NEW j \in Ones
        PROVE  delivered'[j] = delivered[j] /\ excused'[j] = excused[j] /\ j # cur
    BY <1>1, <1>2, <1>4, <2>1, CreditFacts DEF Posted, Send, SendAckLost, TypeOK
  <2>2. UNCHANGED <<CreditNow, PostedNow>>
    BY <1>2, <2>1 DEF CreditNow, PostedNow, Credit
  <2>3. UNCHANGED OpenNow
    BY <1>2, <2>1 DEF OpenNow
  <2> QED
    BY <2>2, <2>3 DEF CreditStep
<1> QED
  BY <1>3, <1>4

\* Every step is one of OneShotPosts, or leaves what it sees as it is.
LEMMA PaidStep == IInv /\ [Next]_vars => CreditStep
<1> SUFFICES ASSUME IInv, [Next]_vars PROVE CreditStep
  OBVIOUS
<1> USE DEF table, control, run, history
<1>0. told => pc \in {"save", "upsert", "record"}
  BY DEF IInv, RunInHand
<1>1. CASE UNCHANGED vars
  BY <1>1, QuietPaid DEF vars
<1>2. CASE Poll
  BY <1>2, QuietPaid DEF Poll
<1>3. ASSUME NEW j \in Jobs, SkipMissing(j) \/ Begin(j) PROVE CreditStep
  <2>1. ~told /\ ~told'
    BY <1>0, <1>3 DEF SkipMissing, Begin
  <2> QED
    BY <1>3, <2>1, QuietPaid DEF SkipMissing, Begin
<1>4. CASE Record
  BY <1>4, EndPaid DEF Record
<1>5. CASE HandlerError
  BY <1>5, EndPaid DEF HandlerError, Fail
<1>6. CASE StoreFails \/ Crash
  BY <1>6, EndPaid DEF StoreFails, Crash, DropTick
<1>7. CASE ReadMessages \/ EnsureJobThread \/ CodexTurn \/ Fetch \/ SaveSummary \/ PersistWatch
  BY <1>7, QuietPaid DEF ReadMessages, EnsureJobThread, CodexTurn, Fetch, SaveSummary,
                         PersistWatch, Returned
<1>8. CASE Send \/ SendAckLost
  BY <1>8, SendPaid
<1>9. ASSUME NEW j \in Jobs, Schedule(j) \/ RunNow(j) PROVE CreditStep
  BY <1>9, ArmPaid DEF Schedule, RunNow
<1>10. ASSUME NEW j \in Jobs, Cancel(j) PROVE CreditStep
  BY <1>10, QuietPaid DEF Cancel
<1>11. CASE Start \/ AdvanceClock \/ Publish
  BY <1>11, QuietPaid DEF Start, AdvanceClock, Publish
<1> QED
  BY <1>1, <1>2, <1>3, <1>4, <1>5, <1>6, <1>7, <1>8, <1>9, <1>10, <1>11
     DEF Next, Scheduler, Handler

\* Each message of a one-shot job is paid for by an arming of its own, or by one earlier
\* message whose run was cut short: JobScheduler implements OneShotPosts.
THEOREM EveryPostIsPaid == Spec => PostsArePaid
<1>1. Init => Posts!PostInit
  <2> SUFFICES ASSUME Init
               PROVE  /\ CreditNow = [j \in Ones |-> 0] /\ PostedNow = [j \in Ones |-> 0]
                      /\ OpenNow = [j \in Ones |-> FALSE]
    BY DEF Posts!PostInit, CreditNow, PostedNow, OpenNow
  <2>1. \A j \in Ones : armed[j] = 0 /\ excused[j] = 0 /\ delivered[j] = 0
    BY DEF Init, Ones
  <2>2. CreditNow = [j \in Ones |-> 0]
    BY <2>1 DEF CreditNow, Credit
  <2>3. PostedNow = [j \in Ones |-> 0]
    BY <2>1 DEF PostedNow
  <2>4. OpenNow = [j \in Ones |-> FALSE]
    BY DEF Init, OpenNow
  <2> QED
    BY <2>2, <2>3, <2>4
<1>2. IInv /\ [Next]_vars
        => [Posts!PostNext]_<<[j \in Ones |-> Credit(j)], [j \in Ones |-> delivered[j]],
                              [j \in Ones |-> cur = j /\ told]>>
  BY PaidStep DEF CreditStep, CreditNow, PostedNow, OpenNow
<1> QED
  BY Invariance, <1>1, <1>2, PTL DEF Spec, PostsArePaid, Posts!PostSpec
=============================================================================
