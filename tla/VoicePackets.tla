---------------------------- MODULE VoicePackets ----------------------------
(***************************************************************************)
(* The packets of a voice channel in the Discord client: JoinVoice,        *)
(* LeaveVoice and Close keep one voiceRuntime of the guild; a goroutine    *)
(* of each runtime, forwardVoicePackets, moves packets from the            *)
(* connection to the runtime's queue, and listeners take them from there.  *)
(* close() closes two channels one after the other while the forwarder     *)
(* may be between its two selects, so its steps are steps of the model.    *)
(*                                                                         *)
(* Runtime r is the r-th one made.  discordgo keeps one connection of a    *)
(* guild while it lasts: a join gets that one, be it installed, of another *)
(* join that did not take the lock yet or about to be disconnected by a    *)
(* leave, or a new one.                                                    *)
(***************************************************************************)
EXTENDS Naturals, Sequences

CONSTANTS
  PkCallers,  \* tool calls and the shutdown that use the client
  PkTaps,     \* goroutines that listen (consumeDiscordAudio)
  PkCap,      \* capacity of runtime.packets
  PkMaxJoin,  \* bound: runtimes
  PkMaxFed    \* bound: packets of one runtime

ASSUME PkAssumption == PkCap \in Nat \ {0} /\ PkMaxJoin \in Nat /\ PkMaxFed \in Nat

VARIABLES
  pkAt,      \* where each caller is
  pkOp,      \* what it runs: join, leave or stop (Client.Close)
  pkMine,    \* the runtime a join made
  pkDoomed,  \* the runtime a caller closes
  pkHang,    \* the connection a leave will disconnect
  pkLock,    \* the holder of voiceMu
  pkRT,      \* c.voiceRT[guild], 0 if absent
  pkConn,    \* c.voiceConn[guild], 0 if absent
  pkMade,    \* runtimes made
  pkLink,    \* runtime.conn
  pkDown,    \* connections that were disconnected
  pkSignal,  \* runtimes whose closeCh is closed
  pkSealed,  \* runtimes whose packets is closed
  pkFwd,     \* where the forwarder of each runtime is
  pkBuf,     \* runtime.packets
  pkFed,     \* packets each forwarder received
  pkTaken,   \* the last packet taken of each runtime
  pkTap,     \* the runtime whose packets a listener holds
  pkCrash    \* did a forwarder send on a closed channel?

pkCall == <<pkAt, pkOp, pkMine, pkDoomed, pkHang>>
pkTable == <<pkLock, pkRT, pkConn>>
pkClosing == <<pkSignal, pkSealed>>
pkFlow == <<pkFwd, pkBuf, pkFed, pkTaken, pkCrash>>
pkVars == <<pkCall, pkTable, pkMade, pkLink, pkDown, pkClosing, pkFlow, pkTap>>

PkRuntimes == 1..PkMaxJoin
PkRuntimes0 == 0..PkMaxJoin

PkInit ==
  /\ pkAt = [c \in PkCallers |-> "idle"] /\ pkOp = [c \in PkCallers |-> "join"]
  /\ pkMine = [c \in PkCallers |-> 0] /\ pkDoomed = pkMine /\ pkHang = pkMine
  /\ pkLock = {} /\ pkRT = 0 /\ pkConn = 0 /\ pkMade = 0
  /\ pkLink = [r \in PkRuntimes |-> 0] /\ pkDown = {}
  /\ pkSignal = {} /\ pkSealed = {}
  /\ pkFwd = [r \in PkRuntimes |-> "none"] /\ pkBuf = [r \in PkRuntimes |-> <<>>]
  /\ pkFed = [r \in PkRuntimes |-> 0] /\ pkTaken = pkFed
  /\ pkTap = [k \in PkTaps |-> 0] /\ pkCrash = FALSE

PkSet(f, c, v) == [f EXCEPT ![c] = v]

(* ChannelVoiceJoin: the connection a join gets.  One that was lost is     *)
(* opened again when it is the installed one.                              *)
PkConnsHeld == ({pkConn} \cup ({pkLink[r] : r \in PkRuntimes} \ pkDown)) \ {0}
PkConnOfJoin == PkConnsHeld \cup {pkMade + 1}

(* A join whose connection does not become ready, or whose channel could   *)
(* not be read, disconnects it, be it another's as well; losing one of its *)
(* own changes nothing here.                                               *)
PkFailJoin(c) ==
  /\ pkAt[c] = "idle" /\ pkMade < PkMaxJoin
  /\ \E conn \in PkConnsHeld : pkDown' = pkDown \cup {conn}
  /\ UNCHANGED <<pkCall, pkTable, pkMade, pkLink, pkClosing, pkFlow, pkTap>>

(* The join makes its runtime and starts the forwarder before it takes     *)
(* the lock.                                                               *)
PkDial(c) ==
  /\ pkAt[c] = "idle" /\ pkMade < PkMaxJoin
  /\ pkMade' = pkMade + 1
  /\ \E conn \in PkConnOfJoin : pkLink' = PkSet(pkLink, pkMade + 1, conn) /\ pkDown' = pkDown \ {conn}
  /\ pkFwd' = PkSet(pkFwd, pkMade + 1, "wait")
  /\ pkAt' = PkSet(pkAt, c, "lock") /\ pkOp' = PkSet(pkOp, c, "join")
  /\ pkMine' = PkSet(pkMine, c, pkMade + 1)
  /\ UNCHANGED <<pkDoomed, pkHang, pkTable, pkClosing, pkBuf, pkFed, pkTaken, pkCrash, pkTap>>

(* LeaveVoice takes both entries out under the lock and closes after it.   *)
PkDetach(c) ==
  /\ pkAt[c] = "idle" /\ pkLock = {} /\ pkMade > 0
  /\ pkOp' = PkSet(pkOp, c, "leave") /\ pkHang' = PkSet(pkHang, c, pkConn)
  /\ pkDoomed' = PkSet(pkDoomed, c, pkRT)
  /\ pkAt' = PkSet(pkAt, c, IF pkRT = 0 THEN "hang" ELSE "signal")
  /\ pkRT' = 0 /\ pkConn' = 0
  /\ UNCHANGED <<pkMine, pkLock, pkMade, pkLink, pkDown, pkClosing, pkFlow, pkTap>>

(* Client.Close visits the guilds that have a connection.                  *)
PkStop(c) ==
  /\ pkAt[c] = "idle" /\ pkMade > 0
  /\ pkOp' = PkSet(pkOp, c, "stop") /\ pkAt' = PkSet(pkAt, c, "lock")
  /\ UNCHANGED <<pkMine, pkDoomed, pkHang, pkTable, pkMade, pkLink, pkDown, pkClosing, pkFlow, pkTap>>

(* A plausible bug: the previous runtime is replaced and not closed.       *)
PkKeepPrevious(c) ==
  /\ pkAt[c] = "lock" /\ pkLock = {}
  /\ pkLock' = {c} /\ pkAt' = PkSet(pkAt, c, "put") /\ pkDoomed' = PkSet(pkDoomed, c, 0)
  /\ UNCHANGED <<pkOp, pkMine, pkHang, pkRT, pkConn, pkMade, pkLink, pkDown, pkClosing, pkFlow, pkTap>>

(* A join, or Close, closes the previous runtime while it holds the lock.  *)
PkTakeLock(c) ==
  /\ pkAt[c] = "lock" /\ pkLock = {}
  /\ pkLock' = {c} /\ pkDoomed' = PkSet(pkDoomed, c, pkRT)
  /\ pkAt' = PkSet(pkAt, c, IF pkRT = 0 THEN "put" ELSE "signal")
  /\ UNCHANGED <<pkOp, pkMine, pkHang, pkRT, pkConn, pkMade, pkLink, pkDown, pkClosing, pkFlow, pkTap>>

(* close(r.closeCh): a forwarder that is blocked on the full queue wakes   *)
(* with this case; one that is elsewhere finds it later.                   *)
PkCloseSignal(c) ==
  LET r == pkDoomed[c] IN
  /\ pkAt[c] = "signal"
  /\ pkSignal' = pkSignal \cup {r}
  /\ pkFwd' = PkSet(pkFwd, r, IF pkFwd[r] = "parked" THEN "done" ELSE pkFwd[r])
  /\ pkAt' = PkSet(pkAt, c, "seal")
  /\ UNCHANGED <<pkOp, pkMine, pkDoomed, pkHang, pkTable, pkMade, pkLink, pkDown, pkSealed,
                 pkBuf, pkFed, pkTaken, pkCrash, pkTap>>

(* close(r.packets).                                                       *)
PkClosePackets(c) ==
  /\ pkAt[c] = "seal"
  /\ pkSealed' = pkSealed \cup {pkDoomed[c]} /\ pkDoomed' = PkSet(pkDoomed, c, 0)
  /\ pkAt' = PkSet(pkAt, c, IF pkOp[c] = "leave" THEN "hang" ELSE "put")
  /\ UNCHANGED <<pkOp, pkMine, pkHang, pkTable, pkMade, pkLink, pkDown, pkSignal, pkFlow, pkTap>>

(* The rest of the critical section: a join disconnects another connection *)
(* and installs its own; Close disconnects and clears.                     *)
PkPut(c) ==
  LET r == IF pkOp[c] = "join" THEN pkMine[c] ELSE 0
      conn == IF r = 0 THEN 0 ELSE pkLink[r]
  IN
  /\ pkAt[c] = "put"
  /\ pkDown' = IF pkConn # conn THEN pkDown \cup ({pkConn} \ {0}) ELSE pkDown
  /\ pkRT' = r /\ pkConn' = conn /\ pkLock' = {}
  /\ pkMine' = PkSet(pkMine, c, 0) /\ pkAt' = PkSet(pkAt, c, "idle")
  /\ UNCHANGED <<pkOp, pkDoomed, pkHang, pkMade, pkLink, pkClosing, pkFlow, pkTap>>

PkDisconnect(c) ==
  /\ pkAt[c] = "hang"
  /\ pkDown' = pkDown \cup ({pkHang[c]} \ {0})
  /\ pkHang' = PkSet(pkHang, c, 0) /\ pkAt' = PkSet(pkAt, c, "idle")
  /\ UNCHANGED <<pkOp, pkMine, pkDoomed, pkTable, pkMade, pkLink, pkClosing, pkFlow, pkTap>>

-----------------------------------------------------------------------------
(* forwardVoicePackets.  Its outer select takes a packet, or ends because  *)
(* closeCh or the connection's channel is closed; Go picks any ready case. *)
PkReceive(r) ==
  /\ pkFwd[r] = "wait" /\ pkFed[r] < PkMaxFed
  /\ pkFed' = PkSet(pkFed, r, pkFed[r] + 1) /\ pkFwd' = PkSet(pkFwd, r, "held")
  /\ UNCHANGED <<pkCall, pkTable, pkMade, pkLink, pkDown, pkClosing, pkBuf, pkTaken, pkCrash, pkTap>>

PkEnd(r) ==
  /\ \/ pkFwd[r] = "wait" /\ (r \in pkSignal \/ pkLink[r] \in pkDown)
     \/ pkFwd[r] = "held" /\ r \in pkSignal
  /\ pkFwd' = PkSet(pkFwd, r, "done")
  /\ UNCHANGED <<pkCall, pkTable, pkMade, pkLink, pkDown, pkClosing, pkBuf, pkFed, pkTaken, pkCrash, pkTap>>

(* Its inner select sends the packet in hand, blocks on a full queue, or   *)
(* ends the program: a send on a closed channel is a ready case.           *)
PkSend(r) ==
  /\ pkFwd[r] = "held" /\ r \notin pkSealed /\ Len(pkBuf[r]) < PkCap
  /\ pkBuf' = PkSet(pkBuf, r, Append(pkBuf[r], pkFed[r])) /\ pkFwd' = PkSet(pkFwd, r, "wait")
  /\ UNCHANGED <<pkCall, pkTable, pkMade, pkLink, pkDown, pkClosing, pkFed, pkTaken, pkCrash, pkTap>>

(* A plausible bug: a full queue makes the forwarder drop the packet.      *)
PkDrop(r) ==
  /\ pkFwd[r] = "held" /\ r \notin pkSignal /\ Len(pkBuf[r]) = PkCap
  /\ pkFwd' = PkSet(pkFwd, r, "wait")
  /\ UNCHANGED <<pkCall, pkTable, pkMade, pkLink, pkDown, pkClosing, pkBuf, pkFed, pkTaken, pkCrash, pkTap>>

PkPark(r) ==
  /\ pkFwd[r] = "held" /\ r \notin pkSignal /\ Len(pkBuf[r]) = PkCap
  /\ pkFwd' = PkSet(pkFwd, r, "parked")
  /\ UNCHANGED <<pkCall, pkTable, pkMade, pkLink, pkDown, pkClosing, pkBuf, pkFed, pkTaken, pkCrash, pkTap>>

PkPanic(r) ==
  /\ pkFwd[r] = "held" /\ r \in pkSealed
  /\ pkCrash' = TRUE /\ pkFwd' = PkSet(pkFwd, r, "done")
  /\ UNCHANGED <<pkCall, pkTable, pkMade, pkLink, pkDown, pkClosing, pkBuf, pkFed, pkTaken, pkTap>>

-----------------------------------------------------------------------------
(* VoiceAudioPackets hands out the queue of the installed runtime.         *)
PkListen(k) ==
  /\ pkTap[k] = 0 /\ pkLock = {} /\ pkRT # 0
  /\ pkTap' = PkSet(pkTap, k, pkRT)
  /\ UNCHANGED <<pkCall, pkTable, pkMade, pkLink, pkDown, pkClosing, pkFlow>>

(* A receive from a full queue lets a blocked forwarder's send complete.   *)
PkTake(k) ==
  LET r == pkTap[k]
      sender == pkFwd[r] = "parked"
  IN
  /\ r # 0 /\ pkBuf[r] # <<>>
  /\ pkTaken' = PkSet(pkTaken, r, Head(pkBuf[r]))
  /\ pkBuf' = PkSet(pkBuf, r, IF sender THEN Append(Tail(pkBuf[r]), pkFed[r]) ELSE Tail(pkBuf[r]))
  /\ pkFwd' = PkSet(pkFwd, r, IF sender THEN "wait" ELSE pkFwd[r])
  /\ UNCHANGED <<pkCall, pkTable, pkMade, pkLink, pkDown, pkClosing, pkFed, pkCrash, pkTap>>

(* A listener ends with its context, or when the queue is drained and      *)
(* closed.                                                                 *)
PkEndListen(k) ==
  /\ pkTap[k] # 0
  /\ pkTap' = PkSet(pkTap, k, 0)
  /\ UNCHANGED <<pkCall, pkTable, pkMade, pkLink, pkDown, pkClosing, pkFlow>>

PkNext ==
  /\ ~pkCrash
  /\ \/ \E c \in PkCallers :
          \/ PkFailJoin(c) \/ PkDial(c) \/ PkDetach(c) \/ PkStop(c) \/ PkTakeLock(c)
          \/ PkCloseSignal(c) \/ PkClosePackets(c) \/ PkPut(c) \/ PkDisconnect(c)
     \/ \E r \in PkRuntimes : PkReceive(r) \/ PkEnd(r) \/ PkSend(r) \/ PkPark(r) \/ PkPanic(r)
     \/ \E k \in PkTaps : PkListen(k) \/ PkTake(k) \/ PkEndListen(k)

PkSpec == PkInit /\ [][PkNext]_pkVars

-----------------------------------------------------------------------------
PkTypeOK ==
  /\ pkAt \in [PkCallers -> {"idle", "lock", "signal", "seal", "put", "hang"}]
  /\ pkOp \in [PkCallers -> {"join", "leave", "stop"}]
  /\ pkMine \in [PkCallers -> PkRuntimes0] /\ pkDoomed \in [PkCallers -> PkRuntimes0]
  /\ pkHang \in [PkCallers -> PkRuntimes0]
  /\ pkLock \subseteq PkCallers /\ pkRT \in PkRuntimes0 /\ pkConn \in PkRuntimes0
  /\ pkMade \in PkRuntimes0 /\ pkLink \in [PkRuntimes -> PkRuntimes0]
  /\ pkDown \subseteq PkRuntimes /\ pkSealed \subseteq pkSignal /\ pkSignal \subseteq PkRuntimes
  /\ pkFwd \in [PkRuntimes -> {"none", "wait", "held", "parked", "done"}]
  /\ \A r \in PkRuntimes : Len(pkBuf[r]) <= PkCap
  /\ pkFed \in [PkRuntimes -> 0..PkMaxFed] /\ pkTaken \in [PkRuntimes -> 0..PkMaxFed]
  /\ pkTap \in [PkTaps -> PkRuntimes0] /\ pkCrash \in BOOLEAN

(* No forwarder is left behind: a runtime that was not told to close is    *)
(* the installed one, or one that a join or a close still has in hand,     *)
(* however joins, leaves and the shutdown overlap.                         *)
PkNoOrphan ==
  \A r \in PkRuntimes : pkFwd[r] # "none" /\ r \notin pkSignal =>
    \/ r = pkRT
    \/ \E c \in PkCallers : r = pkMine[c] \/ (r = pkDoomed[c] /\ pkAt[c] = "signal")

(* What listeners take of a runtime is what its forwarder received, in     *)
(* order and without a gap up to the end, and the queue, the packet in     *)
(* hand included, stays bounded.                                           *)
PkStream == INSTANCE PacketStream
  WITH Streams <- PkRuntimes, Room <- PkCap + 1, fed <- pkFed, taken <- pkTaken
PkIsStream == PkStream!StreamSpec
=============================================================================
