--------------------------- MODULE RealtimeClient ---------------------------
(***************************************************************************)
(* The websocket client of the realtime voice service: Connect, send with  *)
(* its nested session update, Close, and a read loop of each dial.  The    *)
(* engine's goroutines call it at once, so every critical section of mu is *)
(* a step; writeMu is held from the write to the end of send.              *)
(*                                                                         *)
(* Dial n makes connection n and loop n.  The API key is configured.  The  *)
(* server is external: it greets with its default settings, takes an       *)
(* update, or refuses one of the schema it does not know.                  *)
(***************************************************************************)
EXTENDS Naturals, Sequences

CONSTANTS
  RtCallers,  \* goroutines that use the client
  RtConfigs,  \* session configurations, one of each voice channel
  RtDefault,  \* the settings a session starts with
  RtNone,
  RtMaxDial,  \* bound: connections
  RtMaxGone,  \* bound: servers that go away
  RtBudgets   \* bound: how often each operation is called in one behaviour

RtCalls == {"configure", "operate", "close"}

ASSUME RtAssumption ==
  /\ RtDefault \notin RtConfigs /\ RtNone \notin RtConfigs \cup {RtDefault}
  /\ RtMaxDial \in Nat /\ RtMaxGone \in Nat
  /\ RtBudgets \subseteq [RtCalls -> Nat]

VARIABLES
  rtAt,      \* where each caller is
  rtEvent,   \* the event its innermost send carries
  rtInner,   \* is that send the one of ensureSessionConfigured?
  rtHold,    \* the connection it dialled, or took to write to
  rtWriter,  \* the holder of writeMu
  rtConn,    \* c.conn, 0 for nil
  rtConfig,  \* c.sessionConfig
  rtDirty,   \* c.sessionDirty
  rtLegacy,  \* c.legacySchema
  rtLoop,    \* where each read loop is
  rtReads,   \* the connection it reads
  rtMsg,     \* the message it handles
  rtDials, rtGone, rtLeft,
  rtLive,    \* connections whose server end lives
  rtShut,    \* connections the client closed
  rtWire,    \* messages of the server on each connection
  rtOld,     \* does the server know only the legacy schema?
  rtTold,    \* the configuration written last to the connection in place
  rtMet,     \* was its session.created handled?
  rtRaced    \* history: an update was written, or cleared the mark, late

rtCall == <<rtAt, rtEvent, rtInner, rtHold, rtWriter, rtLeft>>
rtSession == <<rtConfig, rtDirty, rtLegacy>>
rtLoops == <<rtLoop, rtReads, rtMsg>>
rtNet == <<rtLive, rtShut, rtWire, rtOld, rtGone>>
rtPlace == <<rtConn, rtTold, rtMet>>
rtVars == <<rtCall, rtPlace, rtSession, rtLoops, rtNet, rtDials, rtRaced>>

RtConns == 1..RtMaxDial
RtPut(f, x, v) == [f EXCEPT ![x] = v]

(* What send carries: a session.update in one of two schemas, or any other *)
(* event of the protocol.                                                  *)
RtRequest == [kind |-> "request", cfg |-> RtNone, schema |-> "any"]
RtNested(cfg) == [kind |-> "update", cfg |-> cfg, schema |-> "nested"]
RtFlat(cfg) == [kind |-> "update", cfg |-> cfg, schema |-> "flat"]
RtUpdate(cfg) == IF rtLegacy THEN RtFlat(cfg) ELSE RtNested(cfg)

(* What the server says that the client acts on; settings are those of the *)
(* session.  All else only goes to the engine.                             *)
RtSay(kind, settings) == [kind |-> kind, settings |-> settings]
RtAnswer(event) ==
  IF event.schema = "nested" /\ rtOld THEN <<RtSay("refused", RtNone)>> ELSE <<>>

RtInit ==
  /\ rtAt = [c \in RtCallers |-> "idle"] /\ rtEvent = [c \in RtCallers |-> RtRequest]
  /\ rtInner = [c \in RtCallers |-> FALSE] /\ rtHold = [c \in RtCallers |-> 0]
  /\ rtWriter = {} /\ rtConn = 0 /\ rtConfig = RtNone /\ rtDirty = FALSE /\ rtLegacy = FALSE
  /\ rtDials = 0 /\ rtGone = 0 /\ rtLeft \in RtBudgets
  /\ rtLoop = [n \in RtConns |-> "none"] /\ rtReads = [n \in RtConns |-> 0]
  /\ rtMsg = [n \in RtConns |-> RtSay("none", RtNone)]
  /\ rtLive = {} /\ rtShut = {} /\ rtWire = [n \in RtConns |-> <<>>]
  /\ rtOld \in BOOLEAN /\ rtTold = RtNone
  /\ rtMet = FALSE /\ rtRaced = FALSE

-----------------------------------------------------------------------------
RtSpend(call) == rtLeft[call] > 0 /\ rtLeft' = RtPut(rtLeft, call, rtLeft[call] - 1)

RtConfigure(c, cfg) ==
  /\ rtAt[c] = "idle" /\ RtSpend("configure")
  /\ rtConfig' = cfg /\ rtDirty' = TRUE
  /\ rtEvent' = RtPut(rtEvent, c, RtUpdate(cfg)) /\ rtAt' = RtPut(rtAt, c, "check")
  /\ UNCHANGED <<rtInner, rtHold, rtWriter, rtPlace, rtLegacy, rtLoops, rtNet, rtDials, rtRaced>>

(* Audio, a commit, a response or a truncation: anything but an update.    *)
RtOperate(c) ==
  /\ rtAt[c] = "idle" /\ RtSpend("operate")
  /\ rtEvent' = RtPut(rtEvent, c, RtRequest) /\ rtAt' = RtPut(rtAt, c, "check")
  /\ UNCHANGED <<rtInner, rtHold, rtWriter, rtPlace, rtSession, rtLoops, rtNet, rtDials, rtRaced>>

(* c.conn is set: nothing was written to the connection in place yet.      *)
RtPlace(n) == rtConn' = n /\ rtTold' = RtNone /\ rtMet' = FALSE

RtClose ==
  /\ RtSpend("close") /\ rtConn # 0
  /\ RtPlace(0) /\ rtShut' = rtShut \cup {rtConn} /\ rtLive' = rtLive \ {rtConn}
  /\ rtWire' = RtPut(rtWire, rtConn, <<>>)
  /\ UNCHANGED <<rtAt, rtEvent, rtInner, rtHold, rtWriter, rtSession, rtLoops, rtOld, rtGone, rtDials, rtRaced>>

(* Connect: the check and the publication are two critical sections.  An   *)
(* update goes on to the write; anything else to the mark first.           *)
RtConnected(c) == IF rtEvent[c].kind = "update" THEN "pick" ELSE "ensure"

RtCheck(c) ==
  /\ rtAt[c] = "check"
  /\ rtAt' = RtPut(rtAt, c, IF rtConn = 0 THEN "dial" ELSE RtConnected(c))
  /\ UNCHANGED <<rtEvent, rtInner, rtHold, rtWriter, rtLeft, rtPlace, rtSession, rtLoops, rtNet, rtDials, rtRaced>>

RtDial(c) ==
  /\ rtAt[c] = "dial" /\ rtDials < RtMaxDial
  /\ rtDials' = rtDials + 1 /\ rtLive' = rtLive \cup {rtDials + 1}
  /\ rtWire' = RtPut(rtWire, rtDials + 1, <<RtSay("created", RtDefault)>>)
  /\ rtHold' = RtPut(rtHold, c, rtDials + 1) /\ rtAt' = RtPut(rtAt, c, "publish")
  /\ UNCHANGED <<rtEvent, rtInner, rtWriter, rtLeft, rtPlace, rtSession, rtLoops, rtShut, rtOld, rtGone, rtRaced>>

RtReturn(c) ==
  /\ rtAt' = RtPut(rtAt, c, "idle") /\ rtInner' = RtPut(rtInner, c, FALSE)
  /\ rtEvent' = RtPut(rtEvent, c, RtRequest)

RtDialFails(c) ==
  /\ rtAt[c] = "dial" /\ RtReturn(c)
  /\ UNCHANGED <<rtHold, rtWriter, rtLeft, rtPlace, rtSession, rtLoops, rtNet, rtDials, rtRaced>>

RtPublish(c) ==
  /\ rtAt[c] = "publish"
  /\ RtPlace(rtHold[c]) /\ rtLoop' = RtPut(rtLoop, rtHold[c], "new")
  /\ rtHold' = RtPut(rtHold, c, 0) /\ rtAt' = RtPut(rtAt, c, RtConnected(c))
  /\ UNCHANGED <<rtEvent, rtInner, rtWriter, rtLeft, rtSession, rtReads, rtMsg, rtNet, rtDials, rtRaced>>

(* ensureSessionConfigured: a marked configuration is sent first, by a     *)
(* send inside the send.                                                   *)
RtEnsure(c) ==
  LET due == rtDirty /\ rtConfig # RtNone IN
  /\ rtAt[c] = "ensure"
  /\ rtInner' = RtPut(rtInner, c, due)
  /\ rtEvent' = IF due THEN RtPut(rtEvent, c, RtUpdate(rtConfig)) ELSE rtEvent
  /\ rtAt' = RtPut(rtAt, c, IF due THEN "check" ELSE "pick")
  /\ UNCHANGED <<rtHold, rtWriter, rtLeft, rtPlace, rtSession, rtLoops, rtNet, rtDials, rtRaced>>

(* The end of a send without error: the inner one goes back to the outer.  *)
RtSent(c) ==
  /\ rtAt' = RtPut(rtAt, c, IF rtInner[c] THEN "pick" ELSE "idle")
  /\ rtInner' = RtPut(rtInner, c, FALSE)
  /\ rtEvent' = RtPut(rtEvent, c, RtRequest)

(* A send that finds no connection reports success.                        *)
RtPick(c) ==
  /\ rtAt[c] = "pick"
  /\ IF rtConn = 0
     THEN RtSent(c) /\ UNCHANGED rtHold
     ELSE /\ rtHold' = RtPut(rtHold, c, rtConn) /\ rtAt' = RtPut(rtAt, c, "write")
          /\ UNCHANGED <<rtInner, rtEvent>>
  /\ UNCHANGED <<rtWriter, rtLeft, rtPlace, rtSession, rtLoops, rtNet, rtDials, rtRaced>>

(* An update that is no longer the one in force, or goes elsewhere.        *)
RtLate(c) ==
  rtEvent[c].kind = "update" /\ (rtHold[c] # rtConn \/ rtEvent[c].cfg # rtConfig)

(* A write succeeds on a connection whose other end is gone, too.          *)
RtWrite(c) ==
  LET n == rtHold[c]
      update == rtEvent[c].kind = "update"
  IN
  /\ rtAt[c] = "write" /\ rtWriter = {} /\ n \notin rtShut
  /\ rtWire' = IF n \in rtLive THEN [rtWire EXCEPT ![n] = @ \o RtAnswer(rtEvent[c])] ELSE rtWire
  /\ IF update
     THEN /\ rtTold' = IF n = rtConn THEN rtEvent[c].cfg ELSE rtTold
          /\ rtWriter' = {c}
          /\ rtAt' = RtPut(rtAt, c, "clean") /\ UNCHANGED <<rtInner, rtEvent, rtHold>>
     ELSE RtSent(c) /\ rtHold' = RtPut(rtHold, c, 0) /\ UNCHANGED <<rtTold, rtWriter>>
  /\ rtRaced' = (rtRaced \/ RtLate(c))
  /\ UNCHANGED <<rtLeft, rtConn, rtMet, rtSession, rtLoops, rtLive, rtShut, rtOld, rtGone, rtDials>>

(* A plausible bug: a loss is reported without saying of which connection. *)
RtForgetAny(n) == RtPlace(0)

RtForget(n) == IF rtConn = n THEN RtPlace(0) ELSE UNCHANGED rtPlace

RtWriteFails(c) ==
  /\ rtAt[c] = "write" /\ rtWriter = {} /\ rtHold[c] \in rtShut \cup (RtConns \ rtLive)
  /\ RtForget(rtHold[c]) /\ RtReturn(c) /\ rtHold' = RtPut(rtHold, c, 0)
  /\ UNCHANGED <<rtWriter, rtLeft, rtSession, rtLoops, rtNet, rtDials, rtRaced>>

(* A plausible bug: writeMu is released on the way of an error only.        *)
RtCleanHolds(c) ==
  /\ rtAt[c] = "clean"
  /\ rtDirty' = FALSE /\ rtHold' = RtPut(rtHold, c, 0) /\ RtSent(c)
  /\ UNCHANGED <<rtWriter, rtLeft, rtPlace, rtConfig, rtLegacy, rtLoops, rtNet, rtDials, rtRaced>>

(* The mark is cleared after the update was written, whatever is           *)
(* configured and connected by then.                                       *)
RtClean(c) ==
  /\ rtAt[c] = "clean"
  /\ rtDirty' = FALSE /\ rtWriter' = {} /\ rtHold' = RtPut(rtHold, c, 0) /\ RtSent(c)
  /\ rtRaced' = (rtRaced \/ RtLate(c))
  /\ UNCHANGED <<rtLeft, rtPlace, rtConfig, rtLegacy, rtLoops, rtNet, rtDials>>

-----------------------------------------------------------------------------
(* A loop reads c.conn once, when it starts.                               *)
RtLoopStart(l) ==
  /\ rtLoop[l] = "new"
  /\ rtReads' = RtPut(rtReads, l, rtConn)
  /\ rtLoop' = RtPut(rtLoop, l, IF rtConn = 0 THEN "gone" ELSE "read")
  /\ UNCHANGED <<rtCall, rtPlace, rtSession, rtMsg, rtNet, rtDials, rtRaced>>

RtLoopRead(l) ==
  LET n == rtReads[l] IN
  /\ rtLoop[l] = "read" /\ n \notin rtShut /\ rtWire[n] # <<>>
  /\ rtMsg' = RtPut(rtMsg, l, Head(rtWire[n])) /\ rtWire' = RtPut(rtWire, n, Tail(rtWire[n]))
  /\ rtLoop' = RtPut(rtLoop, l, "handle")
  /\ UNCHANGED <<rtCall, rtPlace, rtSession, rtReads, rtMet, rtLive, rtShut, rtOld, rtGone, rtDials, rtRaced>>

(* handleProtocolCompatibility: a session that starts with other settings, *)
(* or refuses the schema, has to be told again.                            *)
RtReconcile(settings) ==
  /\ rtDirty' = (rtDirty \/ (rtConfig # RtNone /\ settings # rtConfig))
  /\ UNCHANGED rtLegacy

RtRefused == rtLegacy' = TRUE /\ rtDirty' = (rtDirty \/ rtConfig # RtNone)

RtCompat(msg) ==
  IF msg.kind = "created" THEN RtReconcile(msg.settings) ELSE RtRefused

(* A plausible bug: what is dropped was not looked at either.              *)
RtLoopHandleQueued(l) ==
  /\ rtLoop[l] = "handle"
  /\ RtCompat(rtMsg[l]) \/ UNCHANGED <<rtDirty, rtLegacy>>
  /\ rtMet' = (rtMet \/ (rtMsg[l].kind = "created" /\ rtReads[l] = rtConn))
  /\ rtMsg' = RtPut(rtMsg, l, RtSay("none", RtNone)) /\ rtLoop' = RtPut(rtLoop, l, "read")
  /\ UNCHANGED <<rtCall, rtConn, rtTold, rtConfig, rtReads, rtNet, rtDials, rtRaced>>

(* The compatibility check comes before the event is queued or, the queue  *)
(* being full, dropped: what the engine gets is not part of this state.    *)
RtLoopHandle(l) ==
  /\ rtLoop[l] = "handle" /\ RtCompat(rtMsg[l])
  /\ rtMet' = (rtMet \/ (rtMsg[l].kind = "created" /\ rtReads[l] = rtConn))
  /\ rtMsg' = RtPut(rtMsg, l, RtSay("none", RtNone)) /\ rtLoop' = RtPut(rtLoop, l, "read")
  /\ UNCHANGED <<rtCall, rtConn, rtTold, rtConfig, rtReads, rtNet, rtDials, rtRaced>>

RtLoopEnd(l) == rtLoop' = RtPut(rtLoop, l, "gone") /\ rtReads' = RtPut(rtReads, l, 0)

(* A plausible bug: the loop ends and leaves its connection in place.      *)
RtLoopLeaves(l) ==
  /\ rtLoop[l] = "read" /\ rtReads[l] \in rtShut \cup (RtConns \ rtLive)
  /\ RtLoopEnd(l)
  /\ UNCHANGED <<rtCall, rtPlace, rtSession, rtMsg, rtNet, rtDials, rtRaced>>

RtLoopError(l) ==
  /\ rtLoop[l] = "read" /\ rtReads[l] \in rtShut \cup (RtConns \ rtLive)
  /\ RtForget(rtReads[l]) /\ RtLoopEnd(l)
  /\ UNCHANGED <<rtCall, rtSession, rtMsg, rtNet, rtDials, rtRaced>>

-----------------------------------------------------------------------------
RtServerGone(n) ==
  /\ n \in rtLive /\ rtGone < RtMaxGone
  /\ rtLive' = rtLive \ {n} /\ rtGone' = rtGone + 1
  /\ UNCHANGED <<rtCall, rtPlace, rtSession, rtLoops, rtShut, rtWire, rtOld, rtDials, rtRaced>>

RtNext ==
  \/ \E c \in RtCallers :
       \/ \E cfg \in RtConfigs : RtConfigure(c, cfg)
       \/ RtOperate(c) \/ RtCheck(c) \/ RtDial(c) \/ RtDialFails(c) \/ RtPublish(c)
       \/ RtEnsure(c) \/ RtPick(c) \/ RtWrite(c) \/ RtWriteFails(c) \/ RtClean(c)
  \/ RtClose
  \/ \E n \in RtConns : RtServerGone(n)
       \/ RtLoopStart(n) \/ RtLoopRead(n) \/ RtLoopHandle(n) \/ RtLoopError(n)

RtSpec == RtInit /\ [][RtNext]_rtVars

-----------------------------------------------------------------------------
RtTypeOK ==
  /\ rtAt \in [RtCallers -> {"idle", "check", "dial", "publish", "ensure", "pick", "write", "clean"}]
  /\ rtInner \in [RtCallers -> BOOLEAN] /\ rtHold \in [RtCallers -> 0..RtMaxDial]
  /\ \A c \in RtCallers : c \in rtWriter <=> rtAt[c] = "clean"
  /\ rtConn \in 0..RtMaxDial /\ rtConfig \in RtConfigs \cup {RtNone}
  /\ rtDirty \in BOOLEAN /\ rtLegacy \in BOOLEAN
  /\ rtLoop \in [RtConns -> {"none", "new", "read", "handle", "gone"}]
  /\ rtReads \in [RtConns -> 0..RtMaxDial]
  /\ rtLive \subseteq RtConns /\ rtShut \subseteq RtConns
  /\ rtTold \in RtConfigs \cup {RtNone} /\ rtMet \in BOOLEAN /\ rtRaced \in BOOLEAN

(* A late error of an old connection, seen by its reader or by a writer    *)
(* that still holds it, never takes a newer connection away: the one in    *)
(* place goes only when the client closed it or its own server is gone.    *)
RtLossIsOwn ==
  [][rtConn # 0 /\ rtConn' = 0 => rtConn \in rtShut' \/ rtConn \notin rtLive]_rtVars

(* The connection in place always has a reader, or one about to start,     *)
(* even when dials overlap and every loop reads c.conn only as it starts;  *)
(* otherwise voice would be mute until a write failed.                     *)
RtCurrentIsRead ==
  rtConn # 0 =>
    \E l \in RtConns : rtLoop[l] = "new" \/ (rtLoop[l] \in {"read", "handle"} /\ rtReads[l] = rtConn)

(* A session that is not marked for configuration has been told the        *)
(* configuration in force, once its session.created was handled, on        *)
(* reconnection too and with a full event queue.  The one exception is an  *)
(* update that was late: its connection had been replaced, or another      *)
(* configuration set, when it was written or when it cleared the mark.     *)
RtCleanMeansTold ==
  rtMet /\ rtConfig # RtNone /\ ~rtDirty => rtTold = rtConfig \/ rtRaced
=============================================================================
