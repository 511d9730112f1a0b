---------------------------- MODULE JobScheduler ----------------------------
(***************************************************************************)
(* The persistent job table and the scheduler goroutine that polls it.     *)
(*                                                                         *)
(* Actors: the scheduler goroutine (one tick at a time, one job at a time, *)
(* from a snapshot of the due rows), the job handlers it calls in line,    *)
(* the tool calls and presence events that write the same rows from other  *)
(* goroutines, the clock, and the process, which may stop anywhere and be  *)
(* started again on the same database.  Every SQL statement is one atomic  *)
(* step: the store holds a single SQLite connection.                       *)
(***************************************************************************)
EXTENDS Integers, FiniteSets

CONSTANTS
  Jobs,          \* job IDs
  None,          \* no job
  KindOf,        \* the kind a job ID is registered with
  Interval,      \* the schedule its tool or the pulse set-up gives it, in clock units
  Schedules,     \* other schedules jobs.schedule is called with
  MissingDelay,  \* the 30 minutes granted to a kind nobody handles
  Limit,         \* how many rows one DueJobs query returns
  MaxTime, MaxArm, MaxFault, MaxTag   \* bounds: clock, re-arming, faults, releases

(***************************************************************************)
(* The handlers, by what they do.  "reminder" posts once; "wake" is the    *)
(* wake summary (read, thread, turn, post, save, done); "task" is the      *)
(* background Codex task (thread, turn, done); "periodic" the periodic     *)
(* one; "watch" the release and URL watches; "review" the summaries and    *)
(* narratives; "pulse" the autonomy pulse; "space" the space review;       *)
(* "gone" a kind without a registered handler.  A job ID keeps its kind.   *)
(***************************************************************************)
Kinds == {"reminder", "wake", "task", "periodic", "watch", "review",
          "pulse", "space", "gone"}

ASSUME JobsAssumption ==
  /\ None \notin Jobs
  /\ KindOf \in [Jobs -> Kinds]
  /\ Interval \in [Jobs -> Nat \ {0}]
  /\ Schedules \subseteq Nat \ {0}
  /\ MissingDelay \in Nat \ {0}
  /\ Limit \in Nat \ {0}
  /\ {MaxTime, MaxArm, MaxFault, MaxTag} \subseteq Nat

VARIABLES
  row,        \* the jobs table: state, next_run_at, schedule_expr (every) and the
              \* payload: the tag or hash a watch has seen, whether a thread is bound
  clock,      \* wall-clock time
  pc,         \* where the scheduler goroutine is
  tick,       \* the `now` of the current tick
  todo,       \* jobs of the current tick not begun yet
  snap,       \* the rows as DueJobs returned them
  cur,        \* the job whose handler is running
  plan,       \* the next run its handler computed before its long steps
  found,      \* the tag its fetch returned
  outcome,    \* what its handler returned
  told,       \* whether this run has posted its message
  published,  \* the tag of the first stable release, the hash of the watched page
  armed,      \* history: times a job was scheduled or asked to run now
  begun,      \* history: times the handler of a task was called
  delivered,  \* history: messages posted for a job
  excused,    \* history: posts whose run was cut short before it was recorded
  last,       \* history: the tag a watch posted last, 0 when none
  again,      \* history: since then its run was cut short, or its row rewritten
  faults      \* crashes, store failures and lost acknowledgements so far

table   == <<row, clock>>
control == <<pc, tick, todo, snap, cur>>
run     == <<plan, found, outcome, told>>
history == <<armed, begun, delivered, excused, last, again>>
vars    == <<table, control, run, published, history, faults>>

States == {"absent", "pending", "running", "completed", "failed"}
Rows   == [state : States, next : Nat, every : Nat, seen : Nat, bound : BOOLEAN]
Blank  == [state |-> "absent", next |-> 0, every |-> 0, seen |-> 0, bound |-> FALSE]

Steps  == {"read", "thread", "turn", "fetch", "send", "save", "upsert"}
InRun  == Steps \cup {"record"}
OneShot == {"reminder", "wake", "task"}   \* the handlers that report Done

TypeOK ==
  /\ row \in [Jobs -> Rows]
  /\ clock \in Nat
  /\ pc \in {"down", "idle", "pick", "stopped"} \cup InRun
  /\ tick \in Nat
  /\ todo \subseteq Jobs
  /\ snap \in [Jobs -> Rows]
  /\ cur \in Jobs \cup {None}
  /\ plan \in Nat
  /\ found \in Nat
  /\ outcome \in [ok : BOOLEAN, next : Nat]
  /\ told \in BOOLEAN
  /\ published \in Nat
  /\ armed \in [Jobs -> Nat]
  /\ begun \in [Jobs -> Nat]
  /\ delivered \in [Jobs -> Nat]
  /\ excused \in [Jobs -> Nat]
  /\ last \in [Jobs -> Nat]
  /\ again \in [Jobs -> BOOLEAN]
  /\ faults \in Nat

-----------------------------------------------------------------------------
(* The statements of the store. *)

\* UPDATE jobs SET state, next_run_at WHERE id: nothing when the row is absent.
UpdateJobState(j, s, t) ==
  row' = IF row[j].state = "absent" THEN row
         ELSE [row EXCEPT ![j].state = s, ![j].next = t]

\* INSERT ... ON CONFLICT(id) DO UPDATE: every column the model keeps.
UpsertJob(j, r) == row' = [row EXCEPT ![j] = r]

\* Faulty: completed rows are due.
CompletedIsDue == {"pending", "failed", "running", "completed"}

DueStates == {"pending", "failed", "running"}
Active(j) == row[j].state \in DueStates
Due       == {j \in Jobs : Active(j) /\ row[j].next <= clock}

\* Faulty: the query without its ORDER BY.
AnyDueJobs(batch) ==
  /\ batch \subseteq Due
  /\ Cardinality(batch) = IF Cardinality(Due) <= Limit THEN Cardinality(Due) ELSE Limit

\* One result of DueJobs: the first Limit due rows by next_run_at, ties in any order.
DueJobs(batch) ==
  /\ batch \subseteq Due
  /\ Cardinality(batch) = IF Cardinality(Due) <= Limit THEN Cardinality(Due) ELSE Limit
  /\ \A j \in batch, k \in Due \ batch : row[j].next <= row[k].next

\* The row NewJob builds: pending, first run one schedule from now, with the payload given.
NewJob(j, every, seen, bound) ==
  [state |-> "pending", next |-> clock + every, every |-> every, seen |-> seen, bound |-> bound]

\* Faulty: the delay is subtracted.
RetryBefore(j) == tick - snap[j].every

\* nextRun(job, now) of a failed run, counted from the start of the tick.
RetryAt(j) == tick + snap[j].every

\* The state tick records for a run that returned no error.
FinalState(j) == IF KindOf[j] \in OneShot THEN "completed" ELSE "pending"

-----------------------------------------------------------------------------
(* The scheduler goroutine. *)

\* DueJobs at the top of tick.  An empty answer changes nothing.
Poll ==
  /\ pc = "idle"
  /\ \E batch \in (SUBSET Due) \ {{}} :
       /\ DueJobs(batch)
       /\ todo' = batch
       /\ snap' = [j \in Jobs |-> IF j \in batch THEN row[j] ELSE Blank]
  /\ tick' = clock
  /\ pc' = "pick"
  /\ UNCHANGED <<table, cur, run, published, history, faults>>

\* The loop visits the snapshot in next_run_at order.
First(j) == j \in todo /\ \A k \in todo : snap[j].next <= snap[k].next

AfterJob(rest) == IF rest = {} THEN "idle" ELSE "pick"

\* A kind without a handler is failed for MissingDelay and skipped.
SkipMissing(j) ==
  /\ pc = "pick" /\ First(j)
  /\ KindOf[j] = "gone"
  /\ UpdateJobState(j, "failed", tick + MissingDelay)
  /\ todo' = todo \ {j}
  /\ snap' = [snap EXCEPT ![j] = Blank]
  /\ pc' = AfterJob(todo')
  /\ UNCHANGED <<clock, tick, cur, run, published, history, faults>>

FirstStep(kind) ==
  CASE kind \in {"reminder", "space"} -> "send"
    [] kind \in {"wake", "review"}    -> "read"
    [] kind \in {"task", "periodic"}  -> "thread"
    [] kind = "watch"                 -> "fetch"
    [] OTHER                          -> "turn"

\* The row is marked running, whatever it holds by now, and the handler called.
Begin(j) ==
  /\ pc = "pick" /\ First(j)
  /\ KindOf[j] # "gone"
  /\ UpdateJobState(j, "running", tick)
  /\ cur' = j
  /\ todo' = todo \ {j}
  /\ pc' = FirstStep(KindOf[j])
  /\ plan' = IF KindOf[j] = "wake" THEN clock ELSE clock + snap[j].every
  /\ begun' = [begun EXCEPT ![j] = IF KindOf[j] = "task" THEN @ + 1 ELSE @]
  /\ UNCHANGED <<clock, tick, snap, found, outcome, told, published, armed, delivered,
                 excused, last, again, faults>>

\* The state and next run of the finished job are written from its result; the
\* Done flag counts only when the handler returned no error.
Record ==
  /\ pc = "record"
  /\ IF outcome.ok THEN UpdateJobState(cur, FinalState(cur), outcome.next)
                   ELSE UpdateJobState(cur, "failed", RetryAt(cur))
  /\ cur' = None
  /\ snap' = [snap EXCEPT ![cur] = Blank]
  /\ told' = FALSE
  /\ pc' = AfterJob(todo)
  /\ UNCHANGED <<clock, tick, todo, plan, found, outcome, published, history, faults>>

\* A post whose run ends unrecorded or failed may be posted again.
ExcuseRun ==
  IF told THEN /\ excused' = [excused EXCEPT ![cur] = @ + 1]
               /\ again' = [again EXCEPT ![cur] = KindOf[cur] = "watch"]
          ELSE UNCHANGED <<excused, again>>

DropTick ==
  /\ todo' = {}
  /\ snap' = [j \in Jobs |-> Blank]
  /\ cur' = None
  /\ told' = FALSE
  /\ ExcuseRun

\* A store error in tick ends Run, and with it the goroutine, until a restart.
StoreFails ==
  /\ pc \in {"idle", "pick", "record"}
  /\ faults < MaxFault
  /\ faults' = faults + 1
  /\ pc' = "stopped"
  /\ DropTick
  /\ UNCHANGED <<table, tick, plan, found, outcome, published, armed, begun, delivered, last>>

-----------------------------------------------------------------------------
(* The handlers, step by step between their external calls. *)

Kind == KindOf[cur]

Returned == UNCHANGED <<table, tick, todo, snap, cur, found, published, armed, begun, last, again>>

\* The handler returns a result without error; late planners count from now.
Finish ==
  /\ outcome' = [ok   |-> TRUE,
                 next |-> CASE Kind \in {"reminder", "task"}  -> clock
                            [] Kind \in {"periodic", "space"} -> clock + snap[cur].every
                            [] OTHER                          -> plan]
  /\ pc' = "record"

\* The handler returns an error.
Fail ==
  /\ outcome' = [ok |-> FALSE, next |-> 0]
  /\ pc' = "record"
  /\ told' = FALSE
  /\ ExcuseRun
  /\ UNCHANGED <<row, clock, tick, todo, snap, cur, plan, found, published,
                 armed, begun, delivered, last, faults>>

HandlerError == pc \in Steps /\ Fail

\* Messages of the period, or the prompt of a review: nothing to say ends the run.
ReadMessages ==
  /\ pc = "read"
  /\ \/ Finish
     \/ pc' = "thread" /\ UNCHANGED outcome
  /\ UNCHANGED <<plan, told, delivered, excused, faults>> /\ Returned

\* ensureJobThread: a bound thread is reused unless the tools have changed since; a
\* new one is written with the whole snapshot row, its state and next_run_at included.
EnsureJobThread ==
  /\ pc = "thread"
  /\ \/ snap[cur].bound /\ UNCHANGED row
     \/ UpsertJob(cur, [snap[cur] EXCEPT !.bound = TRUE])
  /\ pc' = "turn"
  /\ UNCHANGED <<clock, tick, todo, snap, cur, run, published, history, faults>>

AfterTurn(kind) == CASE kind \in {"wake", "pulse"} -> {"send"}
                     [] kind = "review"            -> {"send", "save"}
                     [] OTHER                      -> {}

\* The Codex turn: task kinds return its text, the others post it; a reply of a
\* review or a pulse may be "ignore"; a review without a channel is only saved.
CodexTurn ==
  /\ pc = "turn"
  /\ \/ Kind # "wake" /\ Finish
     \/ pc' \in AfterTurn(Kind) /\ UNCHANGED outcome
  /\ UNCHANGED <<plan, told, delivered, excused, faults>> /\ Returned

\* Faulty: the new tag is written before the announcement is posted.
PersistFirst == "upsert"

\* What a watch does with the tag it fetched: prime, announce, or nothing.
AfterFetch == IF snap[cur].seen = 0 THEN "upsert" ELSE "send"

Fetch ==
  /\ pc = "fetch"
  /\ found' = published
  /\ plan' = clock + snap[cur].every
  /\ IF snap[cur].seen = published
       THEN outcome' = [ok |-> TRUE, next |-> plan'] /\ pc' = "record"
       ELSE pc' = AfterFetch /\ UNCHANGED outcome
  /\ UNCHANGED <<table, tick, todo, snap, cur, told, published, history, faults>>

AfterSend(kind) == CASE kind = "watch"              -> "upsert"
                     [] kind \in {"wake", "review"} -> "save"
                     [] OTHER                       -> "record"

Posted ==
  /\ delivered' = [delivered EXCEPT ![cur] = IF Kind \in OneShot \cup {"watch"}
                                             THEN @ + 1 ELSE @]
  /\ last' = [last EXCEPT ![cur] = IF Kind = "watch" THEN found ELSE @]

\* discord.SendMessage succeeds.
Send ==
  /\ pc = "send"
  /\ Posted
  /\ told' = TRUE
  /\ again' = [again EXCEPT ![cur] = FALSE]
  /\ IF AfterSend(Kind) = "record" THEN Finish
                                   ELSE pc' = AfterSend(Kind) /\ UNCHANGED outcome
  /\ UNCHANGED <<table, tick, todo, snap, cur, plan, found, published, armed,
                 begun, excused, faults>>

\* The message was posted, but the call reports an error.
SendAckLost ==
  /\ pc = "send"
  /\ faults < MaxFault
  /\ faults' = faults + 1
  /\ Posted
  /\ excused' = [excused EXCEPT ![cur] = @ + 1]
  /\ again' = [again EXCEPT ![cur] = Kind = "watch"]
  /\ outcome' = [ok |-> FALSE, next |-> 0]
  /\ pc' = "record"
  /\ UNCHANGED <<table, tick, todo, snap, cur, plan, found, told, published, armed,
                 begun>>

SaveSummary ==
  /\ pc = "save"
  /\ Finish
  /\ UNCHANGED <<plan, told, delivered, excused, faults>> /\ Returned

\* Faulty: the tag is written when the watch is primed and never again.
WatchRowWithoutTag == [snap[cur] EXCEPT !.seen = IF @ = 0 THEN found ELSE @, !.next = plan]

\* The row a watch writes back: the snapshot with the new tag and next run.
WatchRow == [snap[cur] EXCEPT !.seen = found, !.next = plan]

PersistWatch ==
  /\ pc = "upsert"
  /\ UpsertJob(cur, WatchRow)
  /\ Finish
  /\ UNCHANGED <<clock, tick, todo, snap, cur, plan, found, told, published,
                 history, faults>>

Handler == \/ HandlerError \/ ReadMessages \/ EnsureJobThread \/ CodexTurn
           \/ Fetch \/ Send \/ SendAckLost \/ SaveSummary \/ PersistWatch

-----------------------------------------------------------------------------
(* The other writers of the table, the world and the process. *)

Up == pc # "down"

Arm(j) == armed[j] < MaxArm /\ armed' = [armed EXCEPT ![j] = @ + 1]

\* The parts of a payload the handler of the kind reads.
Seen(j)  == IF KindOf[j] = "watch" THEN 0..MaxTag ELSE {0}
Bound(j) == IF KindOf[j] \in {"wake", "task", "periodic", "review"} THEN BOOLEAN ELSE {FALSE}

\* jobs.schedule, with the schedule and the payload its caller passes, a last_seen_tag,
\* last_hash or thread_id included; the jobs.schedule_* tools and processPresence.
Schedule(j) ==
  /\ Up /\ Arm(j)
  /\ \E every \in Schedules \cup {Interval[j]}, seen \in Seen(j), bound \in Bound(j) :
       UpsertJob(j, NewJob(j, every, seen, bound))
  /\ again' = [again EXCEPT ![j] = KindOf[j] = "watch"]
  /\ UNCHANGED <<clock, control, run, published, begun, delivered, excused, last, faults>>

\* jobs.run_now: any existing row, a completed one too, becomes due.
RunNow(j) ==
  /\ Up /\ row[j].state # "absent" /\ Arm(j)
  /\ UpdateJobState(j, "pending", clock)
  /\ UNCHANGED <<clock, control, run, published, begun, delivered, excused, last, again,
                 faults>>

\* jobs.cancel.
Cancel(j) ==
  /\ Up
  /\ UpdateJobState(j, "completed", clock)
  /\ UNCHANGED <<clock, control, run, published, history, faults>>

Default(j) == NewJob(j, Interval[j], 0, FALSE)

\* Faulty: the pulse is written at every start.
ResetPulse ==
  row' = [j \in Jobs |-> IF KindOf[j] = "pulse" THEN Default(j) ELSE row[j]]

\* ensureAutonomyPulseJob, when the process starts: the default row is written unless
\* there is one with the default schedule.  It replaces a row with another schedule (in
\* the code, also one of another kind) whatever its state.
EnsurePulse ==
  row' = [j \in Jobs |->
            IF KindOf[j] = "pulse" /\ (row[j].state = "absent" \/ row[j].every # Interval[j])
            THEN Default(j) ELSE row[j]]

Start ==
  /\ pc = "down"
  /\ EnsurePulse
  /\ pc' = "idle"
  /\ UNCHANGED <<clock, tick, todo, snap, cur, run, published, history, faults>>

\* The process is killed, panics or is shut down: a cancelled context makes every
\* later statement of the running tick fail.
Crash ==
  /\ Up
  /\ faults < MaxFault
  /\ faults' = faults + 1
  /\ pc' = "down"
  /\ DropTick
  /\ UNCHANGED <<table, tick, plan, found, outcome, published, armed, begun, delivered, last>>

AdvanceClock ==
  /\ clock < MaxTime
  /\ clock' = clock + 1
  /\ UNCHANGED <<row, control, run, published, history, faults>>

\* The world: a release appears or is withdrawn, the watched page changes or changes
\* back.  Tags and hashes are only compared for equality, and an old one may return.
Publish ==
  /\ published' \in 1..MaxTag
  /\ UNCHANGED <<table, control, run, history, faults>>

Init ==
  /\ row = [j \in Jobs |-> Blank]
  /\ clock = 0 /\ tick = 0
  /\ pc = "down" /\ todo = {} /\ cur = None
  /\ snap = [j \in Jobs |-> Blank]
  /\ plan = 0 /\ found = 0 /\ told = FALSE
  /\ outcome = [ok |-> FALSE, next |-> 0]
  /\ published = 1
  /\ armed = [j \in Jobs |-> 0]
  /\ begun = [j \in Jobs |-> 0]
  /\ delivered = [j \in Jobs |-> 0]
  /\ excused = [j \in Jobs |-> 0]
  /\ last = [j \in Jobs |-> 0]
  /\ again = [j \in Jobs |-> FALSE]
  /\ faults = 0

Scheduler == \/ Poll
             \/ \E j \in Jobs : SkipMissing(j) \/ Begin(j)
             \/ Record

Next ==
  \/ Scheduler
  \/ Handler
  \/ StoreFails
  \/ \E j \in Jobs : Schedule(j) \/ RunNow(j) \/ Cancel(j)
  \/ Start \/ Crash \/ AdvanceClock \/ Publish

Spec == Init /\ [][Next]_vars

\* The goroutine is scheduled, every handler call returns, a stopped process is
\* started again.  Nothing is assumed of tools, faults or releases.
Fairness == WF_vars(Scheduler) /\ WF_vars(Handler) /\ WF_vars(Start)

FairSpec == Spec /\ Fairness

-----------------------------------------------------------------------------
(* Properties. *)

\* May the message of a one-shot job still be posted without anybody arming it again?
Owed(j) == IF cur = j /\ told THEN 0
           ELSE IF Active(j) \/ j \in todo \/ cur = j THEN 1 ELSE 0

\* A one-shot job (reminder, wake summary) never posts more often than it was
\* scheduled or asked to run now, except once for each run that was cut short
\* after its post: by a crash, a store error, a lost acknowledgement or a failed
\* SaveSummary.  Cancels, re-scheduling and run_now in the middle of a run, and the
\* whole-row writes of ensureJobThread, never add a post.
OneShotAccounting ==
  \A j \in Jobs : KindOf[j] \in OneShot => delivered[j] + Owed(j) <= armed[j] + excused[j]

\* Each message of a one-shot job is paid for by an arming of its own, or by one earlier
\* message whose run was cut short: no step posts without a credit, and nothing but a
\* tool, or a message not yet recorded, gives one.
Ones == {j \in Jobs : KindOf[j] \in OneShot}
Credit(j) == armed[j] + excused[j] - delivered[j]
Posts == INSTANCE OneShotPosts
  WITH credit <- [j \in Ones |-> Credit(j)], posted <- [j \in Ones |-> delivered[j]],
       open <- [j \in Ones |-> cur = j /\ told]
PostsArePaid == Posts!PostSpec

\* A watch posts the tag it posted last once more only when, since that post, its run
\* was cut short before its record, or jobs.schedule rewrote its row: a run_now, a crash
\* before the post, an error of a later run or a row written from a stale snapshot never
\* repeats an announcement.
WatchNoRepeat ==
  [][\A j \in Jobs :
       (KindOf[j] = "watch" /\ delivered'[j] > delivered[j] /\ last'[j] = last[j])
         => again[j]]_vars

\* A completed (or cancelled) job the scheduler does not hold stays completed until a
\* tool arms it: no tick, restart or late write revives it.  The one exception is a
\* pulse whose schedule is not the default: the set-up at the start revives it.
CompletedUntilRearmed ==
  [][\A j \in Jobs :
       (row[j].state = "completed" /\ j \notin todo /\ cur # j)
         => \/ row'[j].state = "completed" \/ armed'[j] > armed[j]
            \/ pc = "down" /\ KindOf[j] = "pulse" /\ row[j].every # Interval[j]]_vars

\* What a watch remembers changes only to what jobs.schedule stores, to what it finds on
\* its first look, or to the tag it posted last: no crash, error or stale write moves it
\* past a release that was not announced.
SeenWasAnnounced ==
  [][\A j \in Jobs :
       (KindOf[j] = "watch" /\ row'[j].seen # row[j].seen)
         => \/ armed'[j] > armed[j]
            \/ cur = j /\ snap[j].seen = 0
            \/ row'[j].seen = last[j]]_vars

\* A job that somebody still expects to run: neither unknown nor completed, and late.
Overdue(j) == row[j].state \notin {"absent", "completed"} /\ row[j].next <= clock

\* Begun by the scheduler, or taken up and put off when nobody handles its kind.
Served(j) == cur = j \/ (KindOf[j] = "gone" /\ j \in todo)

\* An overdue job, one left running by a crash included, is eventually served or stops
\* being overdue, however long other jobs, failing or recurring, fill the Limit rows of
\* every tick, unless a store error has ended the scheduler goroutine.
DueJobRuns ==
  \A j \in Jobs : Overdue(j) ~> (Served(j) \/ ~Overdue(j) \/ pc = "stopped")

\* Claimed by the description of jobs.cancel ("stops the job"): once completed, a job
\* runs again only when it is armed again.  A cancel between the DueJobs query of a tick
\* and the turn of the job in it is overwritten by the state `running`, and the job runs;
\* a cancel during a run is overwritten by its result, or by a row its handler writes.
CancelStops ==
  [][\A j \in Jobs : (row[j].state = "completed" /\ row'[j].state # "completed")
                       => armed'[j] > armed[j]]_vars

\* Claimed by the description of jobs.schedule_codex_task ("runs a Codex task once"):
\* without faults a task is begun at most once per arming.  Its handler reports Done
\* even when the turn failed, but tick reads Done only from runs without an error, so
\* a failed task is begun again.
TaskRunsOnce ==
  \A j \in Jobs : KindOf[j] = "task" => begun[j] <= armed[j]
=============================================================================
