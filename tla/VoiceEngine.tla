----------------------------- MODULE VoiceEngine -----------------------------
(***************************************************************************)
(* The voice sessions of the guild: Join, Leave, Interrupt, the consumers  *)
(* of realtime events and of packets, the voice state handlers, and the    *)
(* voice_sessions rows.  Tool calls, handlers and consumers are goroutines *)
(* of their own; e.mu guards the table only, so each access to the table,  *)
(* to the store and to Discord is a step.                                  *)
(*                                                                         *)
(* Session s is the s-th that a Join began, as started_at orders the rows. *)
(* Ended rows of other programs, transcripts, events and audio are left    *)
(* out; packets and events stand for their effect on sessions.             *)
(***************************************************************************)
EXTENDS Naturals, FiniteSets

CONSTANTS
  VoCallers,   \* goroutines of tool calls, and the shutdown
  VoChannels,
  VoOwner,
  VoGuests,    \* other people
  VoNone,
  VoMaxSession,  \* bound: Joins that get past the check
  VoMaxMove,     \* bound: people who change channel
  VoBudgets    \* bound: how often each operation may happen in one behaviour

VoPeople == VoGuests \cup {VoOwner}
VoIds == 1..VoMaxSession
VoKinds == {"leave", "interrupt", "event", "crash"}

ASSUME VoAssumption ==
  /\ VoMaxSession \in Nat /\ VoMaxMove \in Nat /\ VoNone \notin VoChannels /\ VoOwner \notin VoGuests
  /\ VoBudgets \subseteq [{"join", "move"} \cup VoKinds -> Nat]
  /\ \A b \in VoBudgets : b["join"] <= VoMaxSession /\ b["move"] <= VoMaxMove

VARIABLES
  voAt,       \* where each caller is in Join or Leave
  voMine,     \* the session a Join makes, or a Leave read
  voPen,      \* setSessionState of each goroutine: where it is, the state, the row
  voCur,      \* e.sessions[guild], 0 if absent
  voMade,     \* sessions begun
  voChan,     \* session.ChannelID
  voState,    \* session.State
  voMembers,  \* session.Members
  voStarted,  \* sessions whose consumers were started
  voGone,     \* sessions whose context was cancelled
  voRow,      \* the row of each session: none, open or ended
  voIn,       \* the channel Discord has the bot in
  voPlace,    \* the channel each person is in
  voHand,     \* voice state handlers, one of each move
  voMoves,    \* moves so far
  voLeft,     \* what is left of the budget
  voWhy,      \* history: what left a row open
  voStale     \* history: why a list of members may lack somebody

voTable == <<voCur, voState, voMembers, voGone>>
voBegun == <<voMade, voChan, voStarted>>
voFloor == <<voPlace, voHand, voMoves, voStale>>
voVars == <<voAt, voMine, voPen, voTable, voBegun, voRow, voIn, voFloor, voLeft, voWhy>>

(* Goroutines that write session states: the callers, and of each session  *)
(* the consumer of events and the consumer of packets.                     *)
VoActors == VoCallers \cup ({"events", "packets"} \X VoIds)
VoStates == {"listening", "thinking", "speaking", "interrupted", "leaving"}
VoRest == [at |-> "rest", state |-> "listening", row |-> 0]
VoHandOf(at, who, from, to, ch, list) ==
  [at |-> at, who |-> who, from |-> from, to |-> to, chan |-> ch, list |-> list]
VoNoHand == VoHandOf("none", VoNone, VoNone, VoNone, VoNone, {})

VoPut(f, x, v) == [f EXCEPT ![x] = v]
VoSpend(kind) == voLeft[kind] > 0 /\ voLeft' = VoPut(voLeft, kind, voLeft[kind] - 1)
VoIdle(c) == voAt[c] = "idle" /\ voPen[c].at = "rest"
VoOccupants(ch) == {p \in VoPeople : voPlace[p] = ch}

VoInit ==
  /\ voAt = [c \in VoCallers |-> "idle"] /\ voMine = [c \in VoCallers |-> 0]
  /\ voPen = [a \in VoActors |-> VoRest]
  /\ voCur = 0 /\ voMade = 0 /\ voIn = VoNone
  /\ voChan = [s \in VoIds |-> VoNone] /\ voState = [s \in VoIds |-> "listening"]
  /\ voMembers = [s \in VoIds |-> {}] /\ voStarted = {} /\ voGone = {}
  /\ voRow = [s \in VoIds |-> "none"] /\ voWhy = [s \in VoIds |-> {}]
  /\ voPlace \in [VoPeople -> VoChannels \cup {VoNone}]
  /\ \A g \in VoGuests : voPlace[g] = VoNone
  /\ voHand = [m \in 1..VoMaxMove |-> VoNoHand] /\ voMoves = 0
  /\ voLeft \in VoBudgets /\ voStale = {}

-----------------------------------------------------------------------------
(* Join, once it found no session in this channel.                         *)
VoJoin(c, ch) ==
  /\ VoIdle(c) /\ VoSpend("join") /\ ~(voCur # 0 /\ voChan[voCur] = ch)
  /\ voMade' = voMade + 1 /\ voChan' = VoPut(voChan, voMade + 1, ch)
  /\ voMine' = VoPut(voMine, c, voMade + 1) /\ voAt' = VoPut(voAt, c, "connect")
  /\ UNCHANGED <<voPen, voTable, voStarted, voRow, voIn, voFloor, voWhy>>

(* Lists of members that were read and are not in place yet: handlers',    *)
(* and that of a Join before its session is installed.                     *)
VoJoinLists == {c \in VoCallers : voAt[c] \in {"insert", "start"}}
VoHandLists == {m \in 1..VoMaxMove : voHand[m].at = "write"}
VoNoLists == VoHandLists = {} /\ VoJoinLists = {}

(* GetChannel, JoinVoice and VoiceChannelMembers.                          *)
VoConnect(c) ==
  LET s == voMine[c] IN
  /\ voAt[c] = "connect"
  /\ voIn' = voChan[s] /\ voMembers' = VoPut(voMembers, s, VoOccupants(voChan[s]))
  /\ voStale' = IF VoNoLists THEN voStale ELSE voStale \cup {"overlap"}
  /\ voAt' = VoPut(voAt, c, "insert")
  /\ UNCHANGED <<voMine, voPen, voCur, voState, voGone, voBegun, voRow, voPlace, voHand, voMoves, voLeft, voWhy>>

(* Any of them, or the row, may fail; a voice connection made stays.       *)
VoJoinFails(c) ==
  /\ voAt[c] \in {"connect", "insert"}
  /\ voIn' \in {voIn, voChan[voMine[c]]}
  /\ voAt' = VoPut(voAt, c, "idle") /\ voMine' = VoPut(voMine, c, 0)
  /\ UNCHANGED <<voPen, voTable, voBegun, voRow, voFloor, voLeft, voWhy>>

VoInsert(c) ==
  /\ voAt[c] = "insert"
  /\ voRow' = VoPut(voRow, voMine[c], "open") /\ voAt' = VoPut(voAt, c, "start")
  /\ UNCHANGED <<voMine, voPen, voTable, voBegun, voIn, voFloor, voLeft, voWhy>>

(* A plausible bug: the session in place keeps its consumers.              *)
VoStartOnly(c) ==
  /\ voAt[c] = "start"
  /\ voCur' = voMine[c] /\ voStarted' = voStarted \cup {voMine[c]}
  /\ voAt' = VoPut(voAt, c, "idle") /\ voMine' = VoPut(voMine, c, 0)
  /\ UNCHANGED <<voPen, voState, voMembers, voGone, voMade, voChan, voRow, voIn, voFloor, voLeft, voWhy>>

(* startSessionRuntime replaces the session that is there by now, whose    *)
(* row nobody ends.                                                        *)
VoStart(c) ==
  /\ voAt[c] = "start"
  /\ voGone' = voGone \cup ({voCur} \ {0})
  /\ voWhy' = [s \in VoIds |-> IF s = voCur THEN voWhy[s] \cup {"replaced"} ELSE voWhy[s]]
  /\ voCur' = voMine[c] /\ voStarted' = voStarted \cup {voMine[c]}
  /\ voAt' = VoPut(voAt, c, "idle") /\ voMine' = VoPut(voMine, c, 0)
  /\ UNCHANGED <<voPen, voState, voMembers, voMade, voChan, voRow, voIn, voFloor, voLeft>>

-----------------------------------------------------------------------------
(* setSessionState: under the lock it sets the state of whatever session   *)
(* is there, then it writes the row of that session, always without an     *)
(* end.  The write of a cancelled context fails; any write may.            *)
VoWrites(a, state) == voPen' = VoPut(voPen, a, [at |-> "set", state |-> state, row |-> 0])
VoCancelled(a) == a \notin VoCallers /\ a[2] \in voGone

VoSetState(a) ==
  /\ voPen[a].at = "set"
  /\ IF voCur = 0
     THEN voPen' = VoPut(voPen, a, VoRest) /\ UNCHANGED voState
     ELSE /\ voState' = VoPut(voState, voCur, voPen[a].state)
          /\ voPen' = VoPut(voPen, a, [at |-> "upsert", state |-> voPen[a].state, row |-> voCur])
  /\ UNCHANGED <<voAt, voMine, voCur, voMembers, voGone, voBegun, voRow, voIn, voFloor, voLeft, voWhy>>

VoUpsert(a) ==
  LET s == voPen[a].row IN
  /\ voPen[a].at = "upsert" /\ ~VoCancelled(a)
  /\ voRow' = VoPut(voRow, s, "open")
  /\ voWhy' = IF voRow[s] = "ended" THEN VoPut(voWhy, s, voWhy[s] \cup {"late"}) ELSE voWhy
  /\ voPen' = VoPut(voPen, a, VoRest)
  /\ UNCHANGED <<voAt, voMine, voTable, voBegun, voIn, voFloor, voLeft>>

VoUpsertFails(a) ==
  /\ voPen[a].at = "upsert" /\ voPen' = VoPut(voPen, a, VoRest)
  /\ UNCHANGED <<voAt, voMine, voTable, voBegun, voRow, voIn, voFloor, voLeft, voWhy>>

-----------------------------------------------------------------------------
(* Leave works on the session it read first.                               *)
VoLeave(c) ==
  /\ VoIdle(c) /\ VoSpend("leave")
  /\ voMine' = VoPut(voMine, c, voCur) /\ voAt' = VoPut(voAt, c, "part")
  /\ IF voCur = 0 THEN UNCHANGED voPen ELSE VoWrites(c, "leaving")
  /\ UNCHANGED <<voTable, voBegun, voRow, voIn, voFloor, voWhy>>

VoPart(c) ==
  /\ voAt[c] = "part" /\ voPen[c].at = "rest"
  /\ voIn' = VoNone
  /\ voAt' = VoPut(voAt, c, IF voMine[c] = 0 THEN "idle" ELSE "cancel")
  /\ UNCHANGED <<voMine, voPen, voTable, voBegun, voRow, voFloor, voLeft, voWhy>>

(* Disconnect fails: the client has already forgotten the connection.      *)
VoPartFails(c) ==
  /\ voAt[c] = "part" /\ voPen[c].at = "rest"
  /\ voIn' = VoNone
  /\ voAt' = VoPut(voAt, c, "idle") /\ voMine' = VoPut(voMine, c, 0)
  /\ UNCHANGED <<voPen, voTable, voBegun, voRow, voFloor, voLeft, voWhy>>

(* A plausible bug: the context is left to be cancelled by the next Join.  *)
VoNoCancel(c) ==
  /\ voAt[c] = "cancel" /\ voAt' = VoPut(voAt, c, "delete")
  /\ UNCHANGED <<voMine, voPen, voTable, voBegun, voRow, voIn, voFloor, voLeft, voWhy>>

VoCancel(c) ==
  /\ voAt[c] = "cancel"
  /\ voGone' = voGone \cup {voMine[c]} /\ voAt' = VoPut(voAt, c, "delete")
  /\ UNCHANGED <<voMine, voPen, voCur, voState, voMembers, voBegun, voRow, voIn, voFloor, voLeft, voWhy>>

(* A plausible bug: the row is ended first, and the table cleared only for *)
(* a row that could be ended.                                              *)
VoDeleteLast(c) ==
  /\ voAt[c] = "delete" /\ voRow' = VoPut(voRow, voMine[c], "ended")
  /\ voAt' = VoPut(voAt, c, "end")
  /\ UNCHANGED <<voMine, voPen, voTable, voBegun, voIn, voFloor, voLeft, voWhy>>

(* It deletes whatever session is there by now.                            *)
VoDelete(c) ==
  /\ voAt[c] = "delete"
  /\ voCur' = 0 /\ voAt' = VoPut(voAt, c, "end")
  /\ voWhy' = [s \in VoIds |-> IF s = voCur /\ s # voMine[c] THEN voWhy[s] \cup {"stolen"} ELSE voWhy[s]]
  /\ UNCHANGED <<voMine, voPen, voState, voMembers, voGone, voBegun, voRow, voIn, voFloor, voLeft>>

(* A plausible bug: the end of the row is left to the next start.          *)
VoNoEnd(c) ==
  /\ voAt[c] = "end" /\ voAt' = VoPut(voAt, c, "idle") /\ voMine' = VoPut(voMine, c, 0)
  /\ UNCHANGED <<voPen, voTable, voBegun, voRow, voIn, voFloor, voLeft, voWhy>>

VoEnd(c) ==
  LET s == voMine[c] IN
  /\ voAt[c] = "end"
  /\ \/ voRow' = VoPut(voRow, s, "ended") /\ UNCHANGED voWhy
     \/ voWhy' = VoPut(voWhy, s, voWhy[s] \cup {"unended"}) /\ UNCHANGED voRow
  /\ voAt' = VoPut(voAt, c, "idle") /\ voMine' = VoPut(voMine, c, 0)
  /\ UNCHANGED <<voPen, voTable, voBegun, voIn, voFloor, voLeft>>

-----------------------------------------------------------------------------
(* Status: the session in memory, else the open row that started last, in  *)
(* the channel Discord has the bot in, if it has.                          *)
VoOpenRows == {s \in VoIds : voRow[s] = "open"}
VoLatest(S) == CHOOSE s \in S : \A t \in S : t <= s
VoShown ==
  IF voCur # 0 THEN voChan[voCur]
  ELSE IF VoOpenRows = {} THEN VoNone
  ELSE IF voIn # VoNone THEN voIn ELSE voChan[VoLatest(VoOpenRows)]

VoInterrupt(c) ==
  /\ VoIdle(c) /\ VoSpend("interrupt") /\ VoShown # VoNone
  /\ VoWrites(c, "interrupted")
  /\ UNCHANGED <<voAt, voMine, voTable, voBegun, voRow, voIn, voFloor, voWhy>>

(* An event whose voice_events row was written; with a cancelled context   *)
(* it is not, and the handler returns.                                     *)
VoHandle(s, state) ==
  /\ s \in voStarted \ voGone /\ voPen[<<"events", s>>].at = "rest" /\ VoSpend("event")
  /\ VoWrites(<<"events", s>>, state)
  /\ UNCHANGED <<voAt, voMine, voTable, voBegun, voRow, voIn, voFloor, voWhy>>

(* response.created, an audio delta, response.done.                        *)
VoEvent(s, state) == state \in {"thinking", "speaking", "listening"} /\ VoHandle(s, state)

(* The end of speech asks for an answer, but only in the session that is   *)
(* still in place and that neither answers nor leaves.                     *)
VoSpeechStopped(s) ==
  /\ voCur = s /\ voState[s] \notin {"thinking", "speaking", "leaving"}
  /\ VoHandle(s, "thinking")

(* A packet of an unknown speaker is taken for the owner's when the owner  *)
(* is the only human in the list.                                          *)
VoOwnerAlone(s) == voMembers[s] = {VoOwner}

(* The owner's voice interrupts an answer; its context is the consumer's.  *)
VoPacket(s, known) ==
  /\ s \in voStarted \ voGone /\ voPen[<<"packets", s>>].at = "rest" /\ VoSpend("event")
  /\ known \/ VoOwnerAlone(s)
  /\ voState[s] \in {"speaking", "thinking"} /\ VoShown # VoNone
  /\ VoWrites(<<"packets", s>>, "interrupted")
  /\ UNCHANGED <<voAt, voMine, voTable, voBegun, voRow, voIn, voFloor, voWhy>>

-----------------------------------------------------------------------------
(* Somebody changes channel; a goroutine is started for the update.        *)
VoMove(p, ch) ==
  /\ VoSpend("move") /\ ch # voPlace[p]
  /\ voMoves' = voMoves + 1 /\ voPlace' = VoPut(voPlace, p, ch)
  /\ voHand' = VoPut(voHand, voMoves + 1, VoHandOf("new", p, voPlace[p], ch, VoNone, {}))
  /\ UNCHANGED <<voAt, voMine, voPen, voTable, voBegun, voRow, voIn, voStale, voWhy>>

(* A plausible bug: only people who leave the channel count.               *)
VoConcernsLeft(m) == VoShown # VoNone /\ VoShown = voHand[m].from

(* HandleVoiceStateUpdate looks at the channel of the session Status shows *)
(* and at no other.                                                        *)
VoConcerns(m) == VoShown # VoNone /\ VoShown \in {voHand[m].from, voHand[m].to}

(* The channels of the session in place and of the lists Joins hold.  An   *)
(* update of one of them that the handler does not look at is missed.      *)
VoWatched == {voChan[s] : s \in ({voCur} \ {0}) \cup {voMine[c] : c \in VoJoinLists}}
VoMissed(m) == (VoWatched \ {VoShown}) \cap {voHand[m].from, voHand[m].to} # {}

VoUpdate(m) ==
  LET h == voHand[m] IN
  /\ h.at = "new"
  /\ voHand' = VoPut(voHand, m, IF VoConcerns(m)
       THEN VoHandOf("read", h.who, h.from, h.to, VoShown, {}) ELSE VoNoHand)
  /\ voStale' = IF VoMissed(m) THEN voStale \cup {"missed"} ELSE voStale
  /\ UNCHANGED <<voAt, voMine, voPen, voTable, voBegun, voRow, voIn, voPlace, voMoves, voLeft, voWhy>>

(* Its errors: SetKV for the owner, the row read by Status when no session *)
(* is in memory, and VoiceChannelMembers.  Nobody tries again.             *)
VoUpdateFails(m) ==
  LET h == voHand[m] IN
  /\ \/ h.at = "new" /\ (h.who = VoOwner \/ voCur = 0)
     \/ h.at = "read"
  /\ voHand' = VoPut(voHand, m, VoNoHand)
  /\ voStale' = IF VoWatched \cap (IF h.at = "new" THEN {h.from, h.to} ELSE {h.chan}) = {}
                THEN voStale ELSE voStale \cup {"failed"}
  /\ UNCHANGED <<voAt, voMine, voPen, voTable, voBegun, voRow, voIn, voPlace, voMoves, voLeft, voWhy>>

VoReadMembers(m) ==
  LET h == voHand[m] IN
  /\ h.at = "read"
  /\ voHand' = VoPut(voHand, m, VoHandOf("write", h.who, h.from, h.to, h.chan, VoOccupants(h.chan)))
  /\ voStale' = IF VoNoLists THEN voStale ELSE voStale \cup {"overlap"}
  /\ UNCHANGED <<voAt, voMine, voPen, voTable, voBegun, voRow, voIn, voPlace, voMoves, voLeft, voWhy>>

(* It writes to the session that is there by now, of whatever channel.  A  *)
(* list that is still right, with no other one to come, makes good what    *)
(* went wrong before.                                                      *)
VoWriteMembers(m) ==
  LET h == voHand[m]
      right == voCur # 0 /\ h.chan = voChan[voCur] IN
  /\ h.at = "write"
  /\ voMembers' = IF voCur = 0 THEN voMembers ELSE VoPut(voMembers, voCur, h.list)
  /\ voStale' = IF right /\ h.list = VoOccupants(h.chan) /\ VoHandLists = {m} /\ VoJoinLists = {}
                THEN {} ELSE IF voCur = 0 \/ right THEN voStale ELSE voStale \cup {"astray"}
  /\ voHand' = VoPut(voHand, m, VoNoHand)
  /\ UNCHANGED <<voAt, voMine, voPen, voCur, voState, voGone, voBegun, voRow, voIn, voPlace, voMoves,
                 voLeft, voWhy>>

-----------------------------------------------------------------------------
(* The program dies and starts again: the rows stay.                       *)
VoCrash ==
  /\ VoSpend("crash")
  /\ voAt' = [c \in VoCallers |-> "idle"] /\ voMine' = [c \in VoCallers |-> 0]
  /\ voPen' = [a \in VoActors |-> VoRest] /\ voHand' = [m \in 1..VoMaxMove |-> VoNoHand]
  /\ voCur' = 0 /\ voGone' = 1..voMade /\ voIn' = VoNone
  /\ voWhy' = [s \in VoIds |-> IF voRow[s] = "open" THEN voWhy[s] \cup {"crash"} ELSE voWhy[s]]
  /\ UNCHANGED <<voState, voMembers, voBegun, voRow, voPlace, voMoves, voStale>>

VoNext ==
  \/ \E c \in VoCallers :
       \/ \E ch \in VoChannels : VoJoin(c, ch)
       \/ VoConnect(c) \/ VoJoinFails(c) \/ VoInsert(c) \/ VoStart(c)
       \/ VoLeave(c) \/ VoPart(c) \/ VoPartFails(c) \/ VoCancel(c) \/ VoDelete(c) \/ VoEnd(c)
       \/ VoInterrupt(c)
  \/ \E a \in VoActors : VoSetState(a) \/ VoUpsert(a) \/ VoUpsertFails(a)
  \/ \E s \in VoIds :
       \/ \E state \in VoStates : VoEvent(s, state)
       \/ VoSpeechStopped(s)
       \/ \E known \in BOOLEAN : VoPacket(s, known)
  \/ \E p \in VoPeople, ch \in VoChannels \cup {VoNone} : VoMove(p, ch)
  \/ \E m \in 1..VoMaxMove : VoUpdate(m) \/ VoUpdateFails(m) \/ VoReadMembers(m) \/ VoWriteMembers(m)
  \/ VoCrash

VoSpec == VoInit /\ [][VoNext]_voVars

-----------------------------------------------------------------------------
VoTypeOK ==
  /\ voAt \in [VoCallers -> {"idle", "connect", "insert", "start", "part", "cancel", "delete", "end"}]
  /\ voMine \in [VoCallers -> 0..VoMaxSession]
  /\ \A a \in VoActors : /\ voPen[a].at \in {"rest", "set", "upsert"}
                         /\ voPen[a].state \in VoStates /\ voPen[a].row \in 0..VoMaxSession
  /\ voCur \in 0..voMade /\ voMade \in 0..VoMaxSession
  /\ voChan \in [VoIds -> VoChannels \cup {VoNone}] /\ voState \in [VoIds -> VoStates]
  /\ voMembers \in [VoIds -> SUBSET VoPeople]
  /\ voStarted \subseteq 1..voMade /\ voGone \subseteq 1..voMade
  /\ voRow \in [VoIds -> {"none", "open", "ended"}] /\ voIn \in VoChannels \cup {VoNone}
  /\ voPlace \in [VoPeople -> VoChannels \cup {VoNone}] /\ voMoves \in 0..VoMaxMove
  /\ voWhy \in [VoIds -> SUBSET {"replaced", "stolen", "late", "unended", "crash"}]
  /\ voStale \subseteq {"overlap", "missed", "failed", "astray"}

(* The session in the table has an open row, whatever Joins and Leaves     *)
(* overlap: a row is written before its session is installed and ended     *)
(* only after the table was cleared, so Status agrees with itself.         *)
VoCurrentIsOpen == voCur # 0 => voRow[voCur] = "open"

(* Consumers that still run belong to the session in the table, save those *)
(* of a session deleted by a Leave that had read another one.  Others      *)
(* would go on answering, and would write states into the next session.    *)
VoLiveIsCurrent ==
  \A s \in voStarted \ voGone : s = voCur \/ "stolen" \in voWhy[s]

(* A row stays open without its session for five reasons and no other: the *)
(* session was replaced by a Join elsewhere, deleted by the Leave of       *)
(* another, reopened by a late state write, its end could not be written,  *)
(* or the program died.                                                    *)
VoOpenRowExplained ==
  \A s \in VoOpenRows \ {voCur} :
    \/ voWhy[s] # {}
    \/ \E c \in VoCallers : voMine[c] = s /\ voAt[c] \in {"start", "end"}

(* An ended row is opened again only by a tool call that overlaps a Leave  *)
(* (Interrupt or another Leave), or by a consumer of a session that the    *)
(* Leave of another one deleted.  Other consumers never do it, because     *)
(* Leave cancels their context before it ends the row.                     *)
VoReopenedByCall ==
  [][\A s \in VoIds : voRow[s] = "ended" /\ voRow'[s] = "open" =>
       \E a \in VoActors : /\ voPen[a].row = s /\ voPen'[a].row = 0
                           /\ a \in VoCallers \/ "stolen" \in voWhy[a[2]]]_voVars

(* With every update handled, no guest in the channel would be taken for   *)
(* the owner, save for four causes, each since the last list that was      *)
(* right: two lists that were read and not yet in place at once (overlap), *)
(* an update between a Join's read and its start, which the handler drops  *)
(* because Status does not show the new session (missed), a handler that   *)
(* returned an error (failed), and a list of the channel of an earlier     *)
(* session written into the present one (astray).                          *)
VoGuestNotOwner ==
  /\ voCur # 0 /\ voStale = {}
  /\ \A m \in 1..VoMaxMove : voHand[m].at = "none"
  => ~(VoOwnerAlone(voCur) /\ VoOccupants(voChan[voCur]) \cap VoGuests # {})
=============================================================================
