---------------------------- MODULE PresenceWake ----------------------------
(***************************************************************************)
(* processPresence: each presence update of the owner is handled by a      *)
(* goroutine of its own, which reads the last snapshot, saves the new one  *)
(* and, when the owner was away for long, schedules a wake summary.        *)
(*                                                                         *)
(* Times are in quarters of a second, the fraction standing for two binary *)
(* digits as RFC3339Nano writes them, without the zeros at the end: "",    *)
(* ".01", ".1" and ".11", each followed by "Z".                            *)
(***************************************************************************)
EXTENDS Naturals, Sequences

CONSTANTS
  PwMaxEvent,   \* bound: presence updates of the owner
  PwThreshold,  \* defaultWakeSummaryThreshold, four hours
  PwMaxClock    \* bound: the last time

(* The threshold is a second or more, so times that far apart are ordered. *)
ASSUME PwAssumption == PwMaxEvent \in Nat /\ PwThreshold \in Nat /\ PwThreshold >= 4 /\ PwMaxClock \in Nat

(* The updates, in the order in which their handlers read the last one.    *)
PwEvents == 1..PwMaxEvent

(* isOffline takes "invisible" and "" for "offline" as well.               *)
PwStatuses == {"offline", "online"}
PwIsOffline(status) == status = "offline"
PwSecond(at) == at \div 4

VARIABLES
  pwClock,
  pwRows,    \* presence_snapshots of the owner, in the order they were saved
  pwCall,    \* the handler of each update
  pwJobs,    \* wake summaries: the snapshot they begin at, the update, how far they got
  pwTalked   \* the owner has written a message

pwVars == <<pwClock, pwRows, pwCall, pwJobs, pwTalked>>

PwNew == [at |-> "new", status |-> "online", prev |-> 0, now |-> 0, seen |-> 0, saved |-> 0]

PwInit ==
  /\ pwClock = 0 /\ pwRows = <<>> /\ pwJobs = <<>> /\ pwTalked \in BOOLEAN
  /\ pwCall = [e \in PwEvents |-> PwNew]

PwPass == pwClock' \in pwClock + 1..PwMaxClock /\ UNCHANGED <<pwRows, pwCall, pwJobs, pwTalked>>
PwTalk == ~pwTalked /\ pwTalked' = TRUE /\ UNCHANGED <<pwClock, pwRows, pwCall, pwJobs>>

-----------------------------------------------------------------------------
(* Where the text of a time stands among the texts: 'Z' comes after the    *)
(* digits and '.' before, so within a second the order is .01 .11 .1 "".   *)
PwText(at) == PwSecond(at) * 4 + <<3, 0, 2, 1>>[(at % 4) + 1]

(* A plausible bug: only the snapshots of the owner away are looked at.    *)
PwLatestAway ==
  LET away == {i \in DOMAIN pwRows : PwIsOffline(pwRows[i].status)} IN
  {i \in away : \A j \in away : PwText(pwRows[j].at) <= PwText(pwRows[i].at)}

(* A plausible bug: the snapshots are ordered the other way round.         *)
PwEarliest == {i \in DOMAIN pwRows : \A j \in DOMAIN pwRows : PwText(pwRows[i].at) <= PwText(pwRows[j].at)}

(* LastPresence: ORDER BY started_at DESC LIMIT 1                          *)
PwLatest == {i \in DOMAIN pwRows : \A j \in DOMAIN pwRows : PwText(pwRows[j].at) <= PwText(pwRows[i].at)}

(* The clock is read after LastPresence, which may fail.                   *)
PwRead(e, status) ==
  /\ pwCall[e].at = "new" /\ \A f \in 1..e - 1 : pwCall[f].at # "new"
  /\ \E prev \in {0} \cup PwLatest :
       pwCall' = [pwCall EXCEPT ![e] = [at |-> "save", status |-> status, prev |-> prev, now |-> pwClock,
                                        seen |-> Len(pwRows), saved |-> 0]]
  /\ UNCHANGED <<pwClock, pwRows, pwJobs, pwTalked>>

(* A wake: the last snapshot has the owner away, for at least four hours.  *)
PwIsWake(call) ==
  /\ call.prev # 0 /\ PwIsOffline(pwRows[call.prev].status) /\ ~PwIsOffline(call.status)
  /\ call.now >= pwRows[call.prev].at + PwThreshold

PwAfterSave(call) == IF PwIsWake(call) THEN "channel" ELSE "done"

(* SavePresence; when it fails the handler goes on.                        *)
PwSave(e) ==
  LET call == pwCall[e] IN
  /\ call.at = "save"
  /\ pwRows' = Append(pwRows, [status |-> call.status, at |-> call.now])
  /\ pwCall' = [pwCall EXCEPT ![e] = [call EXCEPT !.at = PwAfterSave(call), !.saved = Len(pwRows) + 1]]
  /\ UNCHANGED <<pwClock, pwJobs, pwTalked>>

PwSaveFails(e) ==
  /\ pwCall[e].at = "save"
  /\ pwCall' = [pwCall EXCEPT ![e].at = PwAfterSave(pwCall[e])]
  /\ UNCHANGED <<pwClock, pwRows, pwJobs, pwTalked>>

(* LatestChannelIDForAuthor and UpsertJob; each may fail.                  *)
PwSchedule(e) ==
  /\ pwCall[e].at = "channel" /\ pwTalked
  /\ pwJobs' = Append(pwJobs, [since |-> pwCall[e].prev, event |-> e, state |-> "pending", posted |-> FALSE])
  /\ pwCall' = [pwCall EXCEPT ![e].at = "done"]
  /\ UNCHANGED <<pwClock, pwRows, pwTalked>>

PwGiveUp(e) ==
  /\ pwCall[e].at = "channel"
  /\ pwCall' = [pwCall EXCEPT ![e].at = "done"]
  /\ UNCHANGED <<pwClock, pwRows, pwJobs, pwTalked>>

(* handleWakeSummaryJob: whatever fails, the job is done; the summary may  *)
(* have been posted even when its row could not be saved.                  *)
PwRun(i) ==
  /\ pwJobs[i].state = "pending"
  /\ \E posted \in BOOLEAN : pwJobs' = [pwJobs EXCEPT ![i].state = "done", ![i].posted = posted]
  /\ UNCHANGED <<pwClock, pwRows, pwCall, pwTalked>>

PwNext ==
  \/ PwPass \/ PwTalk
  \/ \E e \in PwEvents :
       \/ PwSave(e) \/ PwSaveFails(e) \/ PwSchedule(e) \/ PwGiveUp(e)
       \/ \E status \in PwStatuses : PwRead(e, status)
  \/ \E i \in DOMAIN pwJobs : PwRun(i)

PwSpec == PwInit /\ [][PwNext]_pwVars

-----------------------------------------------------------------------------
PwTypeOK ==
  /\ pwClock \in 0..PwMaxClock
  /\ \A i \in DOMAIN pwRows : pwRows[i].status \in PwStatuses /\ pwRows[i].at \in 0..pwClock
  /\ \A e \in PwEvents :
       /\ pwCall[e].at \in {"new", "save", "channel", "done"} /\ pwCall[e].status \in PwStatuses
       /\ pwCall[e].prev \in {0} \cup DOMAIN pwRows /\ pwCall[e].saved \in {0} \cup DOMAIN pwRows
  /\ \A i \in DOMAIN pwJobs : pwJobs[i].since \in DOMAIN pwRows /\ pwJobs[i].event \in PwEvents

(* An absence gets a second wake summary only when the two updates were    *)
(* handled at once, each reading the last snapshot before the other saved  *)
(* its own, or when a snapshot could not be saved.                         *)
PwWokenOnce ==
  \A i, j \in DOMAIN pwJobs :
    i # j /\ pwJobs[i].since = pwJobs[j].since =>
      LET mine == pwCall[pwJobs[i].event]
          other == pwCall[pwJobs[j].event]
      IN other.saved = 0 \/ mine.seen < other.saved

(* A wake summary begins when the owner really was away last: any snapshot *)
(* saved before the update was handled that is later than the one it       *)
(* begins at lies in the same second, where texts do not order times.      *)
PwSinceIsLast ==
  \A i \in DOMAIN pwJobs :
    LET since == pwRows[pwJobs[i].since] IN
    /\ PwIsOffline(since.status)
    /\ \A r \in 1..pwCall[pwJobs[i].event].seen :
         pwRows[r].at > since.at => PwSecond(pwRows[r].at) = PwSecond(since.at)
=============================================================================
