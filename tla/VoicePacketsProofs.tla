------------------------- MODULE VoicePacketsProofs -------------------------
(***************************************************************************)
(* For every number of callers, listeners, joins and packets, and every    *)
(* capacity of the queue: the types of VoicePackets, PkNoOrphan, and that  *)
(* VoicePackets implements PacketStream (PkIsStream).                      *)
(***************************************************************************)
EXTENDS VoicePackets, TLAPS, SequenceTheorems

\* The packets a, a + 1, ... that come after the first a - 1.
Run(s, a) == s \in Seq(Nat) /\ \A i \in 1..Len(s) : s[i] = a + i

\* The packet a forwarder holds.
FwdHolds(r) == IF pkFwd[r] \in {"held", "parked"} THEN 1 ELSE 0

\* What waits in a queue are the packets after the last that was taken; with the one in
\* hand they are all that were received, but for one that an ended forwarder lost.
FlowKept ==
  \A r \in PkRuntimes :
    /\ Run(pkBuf[r], pkTaken[r])
    /\ pkFwd[r] # "done" => pkFed[r] = pkTaken[r] + Len(pkBuf[r]) + FwdHolds(r)
    /\ pkFwd[r] = "done" =>
         pkFed[r] \in {pkTaken[r] + Len(pkBuf[r]), pkTaken[r] + Len(pkBuf[r]) + 1}
    /\ pkFwd[r] = "parked" => Len(pkBuf[r]) = PkCap

\* The functions of the queues.
FlowTypes ==
  /\ DOMAIN pkBuf = PkRuntimes
  /\ pkFwd \in [PkRuntimes -> {"none", "wait", "held", "parked", "done"}]
  /\ pkFed \in [PkRuntimes -> 0..PkMaxFed] /\ pkTaken \in [PkRuntimes -> 0..PkMaxFed]
  /\ pkTap \in [PkTaps -> PkRuntimes0] /\ pkCrash \in BOOLEAN

\* A queue holds no more than its capacity.
QueueFits == \A r \in PkRuntimes : Len(pkBuf[r]) <= PkCap

\* The callers and what they share.
PkCallTypes ==
  /\ pkAt \in [PkCallers -> {"idle", "lock", "signal", "seal", "put", "hang"}]
  /\ pkOp \in [PkCallers -> {"join", "leave", "stop"}]
  /\ pkMine \in [PkCallers -> PkRuntimes0] /\ pkDoomed \in [PkCallers -> PkRuntimes0]
  /\ pkHang \in [PkCallers -> PkRuntimes0]
  /\ pkLock \subseteq PkCallers /\ pkRT \in PkRuntimes0 /\ pkConn \in PkRuntimes0
  /\ pkMade \in PkRuntimes0 /\ pkLink \in [PkRuntimes -> PkRuntimes0]
  /\ pkDown \subseteq PkRuntimes /\ pkSealed \subseteq pkSignal /\ pkSignal \subseteq PkRuntimes

\* A join or a Close after its lock, and before the unlock.
Inside(c) == pkAt[c] = "put" \/ (pkAt[c] \in {"signal", "seal"} /\ pkOp[c] # "leave")

\* voiceMu: who is inside holds it, and closes the runtime of the table.
Exclusive ==
  \A c \in PkCallers : Inside(c) =>
    /\ pkLock = {c} /\ pkOp[c] # "leave"
    /\ pkAt[c] = "put" => pkRT = 0 \/ pkRT \in pkSignal
    /\ pkAt[c] # "put" => pkDoomed[c] = pkRT

\* A caller in a close has a runtime to close, and a runtime of its own only in a join.
CallsTrue ==
  \A c \in PkCallers :
    /\ pkAt[c] = "idle" \/ pkOp[c] # "join" => pkMine[c] = 0
    /\ pkAt[c] \in {"signal", "seal"} => pkDoomed[c] # 0
    /\ pkAt[c] = "seal" => pkDoomed[c] \in pkSignal
    /\ pkAt[c] = "lock" => pkOp[c] # "leave"
    /\ pkAt[c] = "hang" => pkOp[c] = "leave"

\* Forwarders are started in the order of their runtimes.
FwdStarted == \A r \in PkRuntimes : r > pkMade => pkFwd[r] = "none"

\* The inductive invariant: the packets of each runtime, and who closes which.
PkInv ==
  /\ PkCallTypes /\ FlowTypes /\ FlowKept /\ QueueFits
  /\ Exclusive /\ CallsTrue /\ FwdStarted /\ PkNoOrphan

-----------------------------------------------------------------------------
(* Queues of consecutive packets. *)

\* An empty queue.
LEMMA RunEmpty == ASSUME NEW a \in Nat PROVE Run(<<>>, a) /\ Len(<<>>) = 0
BY DEF Run

\* A queue has a length.
LEMMA RunLength == ASSUME NEW s, NEW a, Run(s, a) PROVE Len(s) \in Nat
BY LenProperties DEF Run

\* The next packet at the end.
LEMMA RunAppend ==
  ASSUME NEW s, NEW a \in Nat, Run(s, a), NEW e, e = a + Len(s) + 1
  PROVE  Run(Append(s, e), a) /\ Len(Append(s, e)) = Len(s) + 1
<1>1. s \in Seq(Nat) /\ Len(s) \in Nat /\ e \in Nat
  BY LenProperties DEF Run
<1>2. Append(s, e) \in Seq(Nat) /\ Len(Append(s, e)) = Len(s) + 1
  BY <1>1, AppendProperties
<1>3. /\ \A i \in 1..Len(s) : Append(s, e)[i] = s[i]
      /\ Append(s, e)[Len(s) + 1] = e
  BY <1>1, AppendProperties
<1>4. ASSUME NEW i \in 1..Len(s) + 1 PROVE Append(s, e)[i] = a + i
  <2>1. CASE i \in 1..Len(s) BY <1>3, <2>1 DEF Run
  <2>2. CASE i = Len(s) + 1 BY <1>1, <1>3, <2>2
  <2> QED
    BY <1>1, <2>1, <2>2
<1> QED
  BY <1>2, <1>4 DEF Run

\* The queue without its head.
LEMMA RunTail ==
  ASSUME NEW s, NEW a \in Nat, Run(s, a), s # <<>>
  PROVE  /\ Head(s) = a + 1 /\ Run(Tail(s), a + 1)
         /\ Len(s) \in Nat /\ Len(s) >= 1 /\ Len(Tail(s)) = Len(s) - 1
<1>1. s \in Seq(Nat) /\ Len(s) \in Nat /\ Len(s) >= 1
  BY HeadTailProperties, LenProperties DEF Run
<1>2. Head(s) = s[1] /\ Tail(s) \in Seq(Nat) /\ Len(Tail(s)) = Len(s) - 1
  BY <1>1, HeadTailProperties
<1>3. \A i \in 1..Len(Tail(s)) : Tail(s)[i] = s[i + 1]
  BY <1>1, HeadTailProperties
<1>4. ASSUME NEW i \in 1..Len(Tail(s)) PROVE Tail(s)[i] = a + 1 + i
  <2>1. i + 1 \in 1..Len(s) /\ i \in Nat
    BY <1>1, <1>2
  <2>2. s[i + 1] = a + (i + 1)
    BY <2>1 DEF Run
  <2> QED
    BY <1>3, <2>1, <2>2
<1>5. s[1] = a + 1
  BY <1>1 DEF Run
<1> QED
  BY <1>1, <1>2, <1>4, <1>5 DEF Run

\* A take: the head of the queue is the packet after the last that was taken.
LEMMA TakeFacts ==
  ASSUME PkAssumption, FlowTypes, FlowKept, QueueFits, NEW k \in PkTaps, PkTake(k)
  PROVE  /\ pkTap[k] \in PkRuntimes
         /\ pkTaken' = [pkTaken EXCEPT ![pkTap[k]] = pkTaken[pkTap[k]] + 1]
         /\ pkTaken[pkTap[k]] < pkFed[pkTap[k]]
         /\ Run(pkBuf'[pkTap[k]], pkTaken[pkTap[k]] + 1)
         /\ DOMAIN pkBuf' = PkRuntimes /\ DOMAIN pkFwd' = PkRuntimes
         /\ \A r \in PkRuntimes : r # pkTap[k] => pkBuf'[r] = pkBuf[r] /\ pkFwd'[r] = pkFwd[r]
         /\ IF pkFwd[pkTap[k]] = "parked"
              THEN pkFwd'[pkTap[k]] = "wait" /\ Len(pkBuf'[pkTap[k]]) = Len(pkBuf[pkTap[k]])
              ELSE /\ pkFwd'[pkTap[k]] = pkFwd[pkTap[k]]
                   /\ Len(pkBuf'[pkTap[k]]) = Len(pkBuf[pkTap[k]]) - 1
<1> DEFINE r == pkTap[k]
           a == pkTaken[r]
           s == pkBuf[r]
<1>1. r \in PkRuntimes /\ s # <<>>
  BY DEF PkTake, FlowTypes, PkRuntimes, PkRuntimes0
<1>2. a \in Nat /\ pkFed[r] \in Nat /\ Run(s, a)
  BY <1>1 DEF FlowTypes, FlowKept
<1>3. /\ Head(s) = a + 1 /\ Run(Tail(s), a + 1)
      /\ Len(s) \in Nat /\ Len(s) >= 1 /\ Len(Tail(s)) = Len(s) - 1
  BY <1>1, <1>2, RunTail
<1>4. pkTaken' = [pkTaken EXCEPT ![r] = a + 1]
  BY <1>3 DEF PkTake, PkSet
<1>5. a < pkFed[r]
  BY <1>1, <1>2, <1>3 DEF FlowKept, FwdHolds
<1>6. /\ pkBuf' = [pkBuf EXCEPT ![r] = IF pkFwd[r] = "parked"
                                         THEN Append(Tail(s), pkFed[r]) ELSE Tail(s)]
      /\ pkFwd' = [pkFwd EXCEPT ![r] = IF pkFwd[r] = "parked" THEN "wait" ELSE pkFwd[r]]
  BY DEF PkTake, PkSet
<1>7. pkFwd[r] = "parked" => pkFed[r] = a + 1 + Len(Tail(s)) + 1
  <2>1. pkFwd[r] = "parked" => pkFed[r] = a + Len(s) + 1
    BY <1>1 DEF FlowKept, FwdHolds
  <2> QED
    BY <1>2, <1>3, <2>1
<1>8. pkFwd[r] = "parked" => /\ Run(Append(Tail(s), pkFed[r]), a + 1)
                             /\ Len(Append(Tail(s), pkFed[r])) = Len(Tail(s)) + 1
  <2> HIDE DEF a, s
  <2>1. a + 1 \in Nat /\ Run(Tail(s), a + 1)
    BY <1>2, <1>3
  <2>2. ASSUME pkFwd[r] = "parked" PROVE pkFed[r] = a + 1 + Len(Tail(s)) + 1
    BY <1>7, <2>2
  <2> QED
    BY <2>1, <2>2, RunAppend
<1> HIDE DEF r, a, s
<1>9. /\ DOMAIN pkBuf' = PkRuntimes /\ DOMAIN pkFwd' = PkRuntimes
      /\ pkBuf'[r] = IF pkFwd[r] = "parked" THEN Append(Tail(s), pkFed[r]) ELSE Tail(s)
      /\ pkFwd'[r] = IF pkFwd[r] = "parked" THEN "wait" ELSE pkFwd[r]
      /\ \A q \in PkRuntimes : q # r => pkBuf'[q] = pkBuf[q] /\ pkFwd'[q] = pkFwd[q]
  BY <1>1, <1>6 DEF FlowTypes
<1>10. Run(pkBuf'[r], a + 1)
  BY <1>3, <1>8, <1>9
<1>11. IF pkFwd[r] = "parked" THEN pkFwd'[r] = "wait" /\ Len(pkBuf'[r]) = Len(s)
       ELSE pkFwd'[r] = pkFwd[r] /\ Len(pkBuf'[r]) = Len(s) - 1
  BY <1>3, <1>8, <1>9
<1> QED
  BY <1>1, <1>4, <1>5, <1>9, <1>10, <1>11 DEF r, a, s

\* A send: the packet in hand is the one after those in the queue.
LEMMA SendFacts ==
  ASSUME PkAssumption, FlowTypes, FlowKept, NEW r \in PkRuntimes, PkSend(r)
  PROVE  /\ Run(pkBuf'[r], pkTaken[r]) /\ Len(pkBuf'[r]) = Len(pkBuf[r]) + 1
         /\ Len(pkBuf[r]) \in Nat /\ Len(pkBuf[r]) < PkCap
         /\ DOMAIN pkBuf' = PkRuntimes
         /\ \A q \in PkRuntimes : q # r => pkBuf'[q] = pkBuf[q]
<1>1. pkTaken[r] \in Nat /\ pkFed[r] \in Nat /\ Run(pkBuf[r], pkTaken[r]) /\ Len(pkBuf[r]) \in Nat
  BY RunLength DEF FlowTypes, FlowKept
<1>2. pkFed[r] = pkTaken[r] + Len(pkBuf[r]) + 1
  BY <1>1 DEF FlowKept, FwdHolds, PkSend
<1>3. /\ Run(Append(pkBuf[r], pkFed[r]), pkTaken[r])
      /\ Len(Append(pkBuf[r], pkFed[r])) = Len(pkBuf[r]) + 1
  BY <1>1, <1>2, RunAppend
<1>4. /\ pkBuf'[r] = Append(pkBuf[r], pkFed[r]) /\ DOMAIN pkBuf' = PkRuntimes
      /\ \A q \in PkRuntimes : q # r => pkBuf'[q] = pkBuf[q]
  BY DEF PkSend, PkSet, FlowTypes
<1> QED
  BY <1>1, <1>3, <1>4 DEF PkSend

-----------------------------------------------------------------------------
(* The steps, one lemma for each conjunct. *)

\* Every step keeps the types of the callers,
LEMMA PkCallTypesStep ==
  ASSUME PkCallTypes, FlowTypes, CallsTrue, [PkNext]_pkVars
  PROVE  PkCallTypes'
<1> USE PkAssumption DEF PkSet, pkCall, pkTable, pkClosing, pkFlow, PkRuntimes, PkRuntimes0,
      PkCallTypes, FlowTypes, CallsTrue
<1>1. CASE UNCHANGED pkVars BY <1>1 DEF pkVars
<1>2. ASSUME NEW c \in PkCallers,
             \/ PkFailJoin(c) \/ PkDial(c) \/ PkDetach(c) \/ PkStop(c) \/ PkTakeLock(c)
                \/ PkCloseSignal(c) \/ PkClosePackets(c) \/ PkPut(c) \/ PkDisconnect(c)
      PROVE  PkCallTypes'
  <2>1. CASE PkFailJoin(c)
    <3>1. pkDown' \subseteq PkRuntimes
      <4>1. PkConnsHeld \subseteq PkRuntimes
        BY DEF PkConnsHeld
      <4>2. PICK conn \in PkConnsHeld : pkDown' = pkDown \cup {conn}
        BY <2>1 DEF PkFailJoin
      <4> QED
        BY <4>1, <4>2
    <3>2. UNCHANGED <<pkAt, pkOp, pkMine, pkDoomed, pkHang, pkLock, pkRT, pkConn, pkMade,
              pkLink, pkSealed, pkSignal>>
      BY <2>1 DEF PkFailJoin
    <3> QED
      BY <3>1, <3>2
  <2>2. CASE PkDial(c)
    <3>1. pkAt' \in [PkCallers -> {"idle", "lock", "signal", "seal", "put", "hang"}]
      BY <2>2 DEF PkDial
    <3>2. pkOp' \in [PkCallers -> {"join", "leave", "stop"}]
      BY <2>2 DEF PkDial
    <3>3. pkMine' \in [PkCallers -> PkRuntimes0]
      BY <2>2 DEF PkDial
    <3>4. pkMade' \in PkRuntimes0
      BY <2>2 DEF PkDial
    <3>5. pkLink' \in [PkRuntimes -> PkRuntimes0]
      BY <2>2, SMTT(20) DEF PkDial, PkConnOfJoin, PkConnsHeld
    <3>6. pkDown' \subseteq PkRuntimes
      BY <2>2 DEF PkDial, PkConnOfJoin, PkConnsHeld
    <3>7. UNCHANGED <<pkDoomed, pkHang, pkLock, pkRT, pkConn, pkSealed, pkSignal>>
      BY <2>2 DEF PkDial
    <3> QED
      BY <3>1, <3>2, <3>3, <3>4, <3>5, <3>6, <3>7
  <2>3. CASE PkDetach(c)
    <3>1. pkAt' \in [PkCallers -> {"idle", "lock", "signal", "seal", "put", "hang"}]
      BY <2>3 DEF PkDetach
    <3>2. pkOp' \in [PkCallers -> {"join", "leave", "stop"}]
      BY <2>3 DEF PkDetach
    <3>3. pkHang' \in [PkCallers -> PkRuntimes0]
      BY <2>3 DEF PkDetach
    <3>4. pkDoomed' \in [PkCallers -> PkRuntimes0]
      BY <2>3 DEF PkDetach
    <3>5. pkRT' \in PkRuntimes0
      BY <2>3 DEF PkDetach
    <3>6. pkConn' \in PkRuntimes0
      BY <2>3 DEF PkDetach
    <3>7. UNCHANGED <<pkMine, pkLock, pkMade, pkLink, pkDown, pkSealed, pkSignal>>
      BY <2>3 DEF PkDetach
    <3> QED
      BY <3>1, <3>2, <3>3, <3>4, <3>5, <3>6, <3>7
  <2>4. CASE PkStop(c) BY <2>4 DEF PkStop
  <2>5. CASE PkTakeLock(c) BY <2>5 DEF PkTakeLock
  <2>6. CASE PkCloseSignal(c)
    <3>9. pkDoomed[c] \in PkRuntimes
      BY <2>6 DEF PkCloseSignal
    <3>1. pkAt' \in [PkCallers -> {"idle", "lock", "signal", "seal", "put", "hang"}]
      BY <2>6 DEF PkCloseSignal
    <3>2. pkSignal' \subseteq PkRuntimes
      BY <2>6, <3>9 DEF PkCloseSignal
    <3>3. pkSealed' \subseteq pkSignal'
      BY <2>6 DEF PkCloseSignal
    <3>4. UNCHANGED <<pkOp, pkMine, pkDoomed, pkHang, pkLock, pkRT, pkConn, pkMade, pkLink,
              pkDown>>
      BY <2>6 DEF PkCloseSignal
    <3> QED
      BY <3>1, <3>2, <3>3, <3>4
  <2>7. CASE PkClosePackets(c)
    <3>1. pkAt' \in [PkCallers -> {"idle", "lock", "signal", "seal", "put", "hang"}]
      BY <2>7 DEF PkClosePackets
    <3>2. pkDoomed' \in [PkCallers -> PkRuntimes0]
      BY <2>7 DEF PkClosePackets
    <3>3. pkSealed' \subseteq pkSignal'
      BY <2>7 DEF PkClosePackets
    <3>4. pkSignal' = pkSignal /\ UNCHANGED <<pkOp, pkMine, pkHang, pkLock, pkRT, pkConn,
              pkMade, pkLink, pkDown>>
      BY <2>7 DEF PkClosePackets
    <3> QED
      BY <3>1, <3>2, <3>3, <3>4
  <2>8. CASE PkPut(c)
    <3>1. pkAt' \in [PkCallers -> {"idle", "lock", "signal", "seal", "put", "hang"}]
      BY <2>8 DEF PkPut
    <3>2. pkMine' \in [PkCallers -> PkRuntimes0]
      BY <2>8 DEF PkPut
    <3>3. pkDown' \subseteq PkRuntimes
      BY <2>8 DEF PkPut
    <3>4. pkRT' \in PkRuntimes0
      BY <2>8 DEF PkPut
    <3>5. pkConn' \in PkRuntimes0
      BY <2>8 DEF PkPut
    <3>6. pkLock' \subseteq PkCallers
      BY <2>8 DEF PkPut
    <3>7. UNCHANGED <<pkOp, pkDoomed, pkHang, pkMade, pkLink, pkSealed, pkSignal>>
      BY <2>8 DEF PkPut
    <3> QED
      BY <3>1, <3>2, <3>3, <3>4, <3>5, <3>6, <3>7
  <2>9. CASE PkDisconnect(c)
    <3>9. pkHang[c] \in PkRuntimes0 /\ PkRuntimes0 \ {0} \subseteq PkRuntimes
      OBVIOUS
    <3>1. pkAt' \in [PkCallers -> {"idle", "lock", "signal", "seal", "put", "hang"}]
      BY <2>9 DEF PkDisconnect
    <3>2. pkHang' \in [PkCallers -> PkRuntimes0]
      BY <2>9 DEF PkDisconnect
    <3>3. pkDown' \subseteq PkRuntimes
      BY <2>9, <3>9 DEF PkDisconnect
    <3>4. UNCHANGED <<pkOp, pkMine, pkDoomed, pkLock, pkRT, pkConn, pkMade, pkLink, pkSealed,
              pkSignal>>
      BY <2>9 DEF PkDisconnect
    <3> QED
      BY <3>1, <3>2, <3>3, <3>4
  <2> QED
    BY <1>2, <2>1, <2>2, <2>3, <2>4, <2>5, <2>6, <2>7, <2>8, <2>9
<1>3. ASSUME NEW r \in PkRuntimes,
             PkReceive(r) \/ PkEnd(r) \/ PkSend(r) \/ PkPark(r) \/ PkPanic(r)
      PROVE  PkCallTypes'
  <2>1. CASE PkReceive(r) BY <2>1 DEF PkReceive
  <2>2. CASE PkEnd(r) BY <2>2 DEF PkEnd
  <2>3. CASE PkSend(r) BY <2>3 DEF PkSend
  <2>4. CASE PkPark(r) BY <2>4 DEF PkPark
  <2>5. CASE PkPanic(r) BY <2>5 DEF PkPanic
  <2> QED
    BY <1>3, <2>1, <2>2, <2>3, <2>4, <2>5
<1>4. ASSUME NEW k \in PkTaps,
             PkListen(k) \/ PkTake(k) \/ PkEndListen(k)
      PROVE  PkCallTypes'
  <2>1. CASE PkListen(k) BY <2>1 DEF PkListen
  <2>2. CASE PkTake(k) BY <2>2 DEF PkTake
  <2>3. CASE PkEndListen(k) BY <2>3 DEF PkEndListen
  <2> QED
    BY <1>4, <2>1, <2>2, <2>3
<1> HIDE DEF PkCallTypes, FlowTypes, CallsTrue
<1> QED
  BY <1>1, <1>2, <1>3, <1>4 DEF PkNext

\* and those of the flow.
LEMMA FlowTypesStep ==
  ASSUME PkCallTypes, FlowTypes, FlowKept, QueueFits, [PkNext]_pkVars
  PROVE  FlowTypes'
<1> USE PkAssumption DEF PkSet, pkCall, pkTable, pkClosing, pkFlow, PkRuntimes, PkRuntimes0,
      PkCallTypes, FlowTypes
<1>1. CASE UNCHANGED pkVars BY <1>1 DEF pkVars
<1>2. ASSUME NEW c \in PkCallers,
             \/ PkFailJoin(c) \/ PkDial(c) \/ PkDetach(c) \/ PkStop(c) \/ PkTakeLock(c)
                \/ PkCloseSignal(c) \/ PkClosePackets(c) \/ PkPut(c) \/ PkDisconnect(c)
      PROVE  FlowTypes'
  <2>1. CASE PkFailJoin(c) BY <2>1 DEF PkFailJoin
  <2>2. CASE PkDial(c) BY <2>2 DEF PkDial
  <2>3. CASE PkDetach(c) BY <2>3 DEF PkDetach
  <2>4. CASE PkStop(c) BY <2>4 DEF PkStop
  <2>5. CASE PkTakeLock(c) BY <2>5 DEF PkTakeLock
  <2>6. CASE PkCloseSignal(c) BY <2>6 DEF PkCloseSignal
  <2>7. CASE PkClosePackets(c) BY <2>7 DEF PkClosePackets
  <2>8. CASE PkPut(c) BY <2>8 DEF PkPut
  <2>9. CASE PkDisconnect(c) BY <2>9 DEF PkDisconnect
  <2> QED
    BY <1>2, <2>1, <2>2, <2>3, <2>4, <2>5, <2>6, <2>7, <2>8, <2>9
<1>3. ASSUME NEW r \in PkRuntimes,
             PkReceive(r) \/ PkEnd(r) \/ PkSend(r) \/ PkPark(r) \/ PkPanic(r)
      PROVE  FlowTypes'
  <2>1. CASE PkReceive(r)
    <3>1. pkFed' \in [PkRuntimes -> 0..PkMaxFed]
      BY <2>1 DEF PkReceive
    <3>2. pkFwd' \in [PkRuntimes -> {"none", "wait", "held", "parked", "done"}]
      BY <2>1 DEF PkReceive
    <3>3. UNCHANGED <<pkBuf, pkTaken, pkTap, pkCrash>>
      BY <2>1 DEF PkReceive
    <3> QED
      BY <3>1, <3>2, <3>3
  <2>2. CASE PkEnd(r) BY <2>2 DEF PkEnd
  <2>3. CASE PkSend(r)
    <3>1. DOMAIN pkBuf' = PkRuntimes
      BY <2>3, SendFacts
    <3> QED
      BY <2>3, <3>1 DEF PkSend
  <2>4. CASE PkPark(r) BY <2>4 DEF PkPark
  <2>5. CASE PkPanic(r) BY <2>5 DEF PkPanic
  <2> QED
    BY <1>3, <2>1, <2>2, <2>3, <2>4, <2>5
<1>4. ASSUME NEW k \in PkTaps,
             PkListen(k) \/ PkTake(k) \/ PkEndListen(k)
      PROVE  FlowTypes'
  <2>1. CASE PkListen(k) BY <2>1 DEF PkListen
  <2>2. CASE PkTake(k)
    <3>1. /\ pkTap[k] \in PkRuntimes /\ pkTaken[pkTap[k]] < pkFed[pkTap[k]]
          /\ pkTaken' = [pkTaken EXCEPT ![pkTap[k]] = pkTaken[pkTap[k]] + 1]
          /\ DOMAIN pkBuf' = PkRuntimes
      BY <2>2, TakeFacts
    <3>2. pkTaken' \in [PkRuntimes -> 0..PkMaxFed]
      BY <3>1, SMTT(20)
    <3>3. pkFwd' \in [PkRuntimes -> {"none", "wait", "held", "parked", "done"}]
      BY <2>2 DEF PkTake
    <3>4. UNCHANGED <<pkFed, pkTap, pkCrash>>
      BY <2>2 DEF PkTake
    <3> QED
      BY <3>1, <3>2, <3>3, <3>4
  <2>3. CASE PkEndListen(k) BY <2>3 DEF PkEndListen
  <2> QED
    BY <1>4, <2>1, <2>2, <2>3
<1> HIDE DEF PkCallTypes, FlowTypes
<1> QED
  BY <1>1, <1>2, <1>3, <1>4 DEF PkNext

\* A packet moves from the hand to the end of the queue, and from its head to a listener.
LEMMA FlowStep ==
  ASSUME PkCallTypes, FlowTypes, FlowKept, QueueFits, FwdStarted, [PkNext]_pkVars
  PROVE  FlowKept'
<1> USE PkAssumption DEF PkSet, pkCall, pkTable, pkClosing, pkFlow, PkRuntimes, PkRuntimes0,
      PkCallTypes, FlowTypes, FwdStarted, FlowKept, FwdHolds
<1>1. CASE UNCHANGED pkVars BY <1>1 DEF pkVars
<1>2. ASSUME NEW c \in PkCallers,
             \/ PkFailJoin(c) \/ PkDial(c) \/ PkDetach(c) \/ PkStop(c) \/ PkTakeLock(c)
                \/ PkCloseSignal(c) \/ PkClosePackets(c) \/ PkPut(c) \/ PkDisconnect(c)
      PROVE  FlowKept'
  <2>1. CASE PkFailJoin(c) BY <2>1 DEF PkFailJoin
  <2>2. CASE PkDial(c)
    <3> SUFFICES ASSUME NEW q \in PkRuntimes
                 PROVE  /\ Run(pkBuf[q], pkTaken[q])'
                   /\ (pkFwd[q] # "done" => pkFed[q] = pkTaken[q] + Len(pkBuf[q]) + FwdHolds(q))'
                   /\ (pkFwd[q] = "done" =>
                         pkFed[q] \in {pkTaken[q] + Len(pkBuf[q]), pkTaken[q] + Len(pkBuf[q]) + 1})'
                   /\ (pkFwd[q] = "parked" => Len(pkBuf[q]) = PkCap)'
      BY DEF FlowKept
    <3> USE DEF FwdHolds
    <3>1. /\ pkFed[q] \in Nat /\ pkTaken[q] \in Nat /\ Len(pkBuf[q]) \in Nat
          /\ Run(pkBuf[q], pkTaken[q])
          /\ pkFwd[q] # "done" => pkFed[q] = pkTaken[q] + Len(pkBuf[q]) + FwdHolds(q)
          /\ pkFwd[q] = "done" =>
               pkFed[q] \in {pkTaken[q] + Len(pkBuf[q]), pkTaken[q] + Len(pkBuf[q]) + 1}
          /\ pkFwd[q] = "parked" => Len(pkBuf[q]) = PkCap
      BY RunLength DEF FlowKept
    <3>2. UNCHANGED <<pkFed, pkTaken, pkBuf>> /\ pkMade + 1 \in PkRuntimes
          /\ pkFwd' = [pkFwd EXCEPT ![pkMade + 1] = "wait"] /\ pkFwd[pkMade + 1] = "none"
      BY <2>2 DEF PkDial
    <3> QED
      BY <3>1, <3>2
  <2>3. CASE PkDetach(c) BY <2>3 DEF PkDetach
  <2>4. CASE PkStop(c) BY <2>4 DEF PkStop
  <2>5. CASE PkTakeLock(c) BY <2>5 DEF PkTakeLock
  <2>6. CASE PkCloseSignal(c) BY <2>6 DEF PkCloseSignal
  <2>7. CASE PkClosePackets(c) BY <2>7 DEF PkClosePackets
  <2>8. CASE PkPut(c) BY <2>8 DEF PkPut
  <2>9. CASE PkDisconnect(c) BY <2>9 DEF PkDisconnect
  <2> QED
    BY <1>2, <2>1, <2>2, <2>3, <2>4, <2>5, <2>6, <2>7, <2>8, <2>9
<1>3. ASSUME NEW r \in PkRuntimes,
             PkReceive(r) \/ PkEnd(r) \/ PkSend(r) \/ PkPark(r) \/ PkPanic(r)
      PROVE  FlowKept'
  <2>1. CASE PkReceive(r)
    <3> SUFFICES ASSUME NEW q \in PkRuntimes
                 PROVE  /\ Run(pkBuf[q], pkTaken[q])'
                   /\ (pkFwd[q] # "done" => pkFed[q] = pkTaken[q] + Len(pkBuf[q]) + FwdHolds(q))'
                   /\ (pkFwd[q] = "done" =>
                         pkFed[q] \in {pkTaken[q] + Len(pkBuf[q]), pkTaken[q] + Len(pkBuf[q]) + 1})'
                   /\ (pkFwd[q] = "parked" => Len(pkBuf[q]) = PkCap)'
      BY DEF FlowKept
    <3> USE DEF FwdHolds
    <3>1. /\ pkFed[q] \in Nat /\ pkTaken[q] \in Nat /\ Len(pkBuf[q]) \in Nat
          /\ Run(pkBuf[q], pkTaken[q])
          /\ pkFwd[q] # "done" => pkFed[q] = pkTaken[q] + Len(pkBuf[q]) + FwdHolds(q)
          /\ pkFwd[q] = "done" =>
               pkFed[q] \in {pkTaken[q] + Len(pkBuf[q]), pkTaken[q] + Len(pkBuf[q]) + 1}
          /\ pkFwd[q] = "parked" => Len(pkBuf[q]) = PkCap
      BY RunLength DEF FlowKept
    <3>2. UNCHANGED <<pkTaken, pkBuf>> /\ pkFwd[r] = "wait"
          /\ pkFed' = [pkFed EXCEPT ![r] = pkFed[r] + 1] /\ pkFwd' = [pkFwd EXCEPT ![r] = "held"]
      BY <2>1 DEF PkReceive
    <3> QED
      BY <3>1, <3>2
  <2>2. CASE PkEnd(r)
    <3> SUFFICES ASSUME NEW q \in PkRuntimes
                 PROVE  /\ Run(pkBuf[q], pkTaken[q])'
                   /\ (pkFwd[q] # "done" => pkFed[q] = pkTaken[q] + Len(pkBuf[q]) + FwdHolds(q))'
                   /\ (pkFwd[q] = "done" =>
                         pkFed[q] \in {pkTaken[q] + Len(pkBuf[q]), pkTaken[q] + Len(pkBuf[q]) + 1})'
                   /\ (pkFwd[q] = "parked" => Len(pkBuf[q]) = PkCap)'
      BY DEF FlowKept
    <3> USE DEF FwdHolds
    <3>1. /\ pkFed[q] \in Nat /\ pkTaken[q] \in Nat /\ Len(pkBuf[q]) \in Nat
          /\ Run(pkBuf[q], pkTaken[q])
          /\ pkFwd[q] # "done" => pkFed[q] = pkTaken[q] + Len(pkBuf[q]) + FwdHolds(q)
          /\ pkFwd[q] = "done" =>
               pkFed[q] \in {pkTaken[q] + Len(pkBuf[q]), pkTaken[q] + Len(pkBuf[q]) + 1}
          /\ pkFwd[q] = "parked" => Len(pkBuf[q]) = PkCap
      BY RunLength DEF FlowKept
    <3>2. UNCHANGED <<pkFed, pkTaken, pkBuf>> /\ pkFwd[r] \in {"wait",
              "held"} /\ pkFwd' = [pkFwd EXCEPT ![r] = "done"]
      BY <2>2 DEF PkEnd
    <3> QED
      BY <3>1, <3>2
  <2>3. CASE PkSend(r)
    <3> SUFFICES ASSUME NEW q \in PkRuntimes
                 PROVE  /\ Run(pkBuf[q], pkTaken[q])'
                   /\ (pkFwd[q] # "done" => pkFed[q] = pkTaken[q] + Len(pkBuf[q]) + FwdHolds(q))'
                   /\ (pkFwd[q] = "done" =>
                         pkFed[q] \in {pkTaken[q] + Len(pkBuf[q]), pkTaken[q] + Len(pkBuf[q]) + 1})'
                   /\ (pkFwd[q] = "parked" => Len(pkBuf[q]) = PkCap)'
      BY DEF FlowKept
    <3> USE DEF FwdHolds
    <3>1. /\ pkFed[q] \in Nat /\ pkTaken[q] \in Nat /\ Len(pkBuf[q]) \in Nat
          /\ Run(pkBuf[q], pkTaken[q])
          /\ pkFwd[q] # "done" => pkFed[q] = pkTaken[q] + Len(pkBuf[q]) + FwdHolds(q)
          /\ pkFwd[q] = "done" =>
               pkFed[q] \in {pkTaken[q] + Len(pkBuf[q]), pkTaken[q] + Len(pkBuf[q]) + 1}
          /\ pkFwd[q] = "parked" => Len(pkBuf[q]) = PkCap
      BY RunLength DEF FlowKept
    <3>2. pkFwd[r] = "held" /\ UNCHANGED <<pkFed,
              pkTaken>> /\ pkFwd' = [pkFwd EXCEPT ![r] = "wait"]
      BY <2>3 DEF PkSend
    <3>3. CASE q # r
      <4>1. pkBuf'[q] = pkBuf[q] /\ pkFwd'[q] = pkFwd[q]
        BY <2>3, <3>2, <3>3, SendFacts
      <4> QED
        BY <3>1, <3>2, <4>1
    <3>4. CASE q = r
      <4>1. Run(pkBuf'[q], pkTaken[q]) /\ Len(pkBuf'[q]) = Len(pkBuf[q]) + 1 /\ pkFwd'[q] = "wait"
        BY <2>3, <3>2, <3>4, SendFacts
      <4> QED
        BY <3>1, <3>2, <3>4, <4>1
    <3> QED
      BY <3>3, <3>4
  <2>4. CASE PkPark(r) BY <2>4 DEF PkPark
  <2>5. CASE PkPanic(r) BY <2>5 DEF PkPanic
  <2> QED
    BY <1>3, <2>1, <2>2, <2>3, <2>4, <2>5
<1>4. ASSUME NEW k \in PkTaps,
             PkListen(k) \/ PkTake(k) \/ PkEndListen(k)
      PROVE  FlowKept'
  <2>1. CASE PkListen(k) BY <2>1 DEF PkListen
  <2>2. CASE PkTake(k)
    <3> SUFFICES ASSUME NEW q \in PkRuntimes
                 PROVE  /\ Run(pkBuf[q], pkTaken[q])'
                   /\ (pkFwd[q] # "done" => pkFed[q] = pkTaken[q] + Len(pkBuf[q]) + FwdHolds(q))'
                   /\ (pkFwd[q] = "done" =>
                         pkFed[q] \in {pkTaken[q] + Len(pkBuf[q]), pkTaken[q] + Len(pkBuf[q]) + 1})'
                   /\ (pkFwd[q] = "parked" => Len(pkBuf[q]) = PkCap)'
      BY DEF FlowKept
    <3> USE DEF FwdHolds
    <3>1. /\ pkFed[q] \in Nat /\ pkTaken[q] \in Nat /\ Len(pkBuf[q]) \in Nat
          /\ Run(pkBuf[q], pkTaken[q])
          /\ pkFwd[q] # "done" => pkFed[q] = pkTaken[q] + Len(pkBuf[q]) + FwdHolds(q)
          /\ pkFwd[q] = "done" =>
               pkFed[q] \in {pkTaken[q] + Len(pkBuf[q]), pkTaken[q] + Len(pkBuf[q]) + 1}
          /\ pkFwd[q] = "parked" => Len(pkBuf[q]) = PkCap
      BY RunLength DEF FlowKept
    <3>2. UNCHANGED pkFed /\ pkTap[k] \in PkRuntimes
          /\ pkTaken' = [pkTaken EXCEPT ![pkTap[k]] = pkTaken[pkTap[k]] + 1]
      BY <2>2, TakeFacts DEF PkTake
    <3>3. CASE q # pkTap[k]
      <4>1. pkBuf'[q] = pkBuf[q] /\ pkFwd'[q] = pkFwd[q]
        BY <2>2, <3>3, TakeFacts, SMTT(20)
      <4>2. pkTaken'[q] = pkTaken[q] /\ pkFed'[q] = pkFed[q]
        BY <3>2, <3>3
      <4> QED
        BY <3>1, <4>1, <4>2
    <3>4. CASE q = pkTap[k]
      <4>1. /\ Run(pkBuf'[q], pkTaken[q] + 1)
            /\ IF pkFwd[q] = "parked" THEN pkFwd'[q] = "wait" /\ Len(pkBuf'[q]) = Len(pkBuf[q])
               ELSE pkFwd'[q] = pkFwd[q] /\ Len(pkBuf'[q]) = Len(pkBuf[q]) - 1
        BY <2>2, <3>4, TakeFacts
      <4>2. pkTaken'[q] = pkTaken[q] + 1 /\ pkFed'[q] = pkFed[q]
        BY <3>2, <3>4
      <4>3. CASE pkFwd[q] = "parked" BY <3>1, <4>1, <4>2, <4>3, SMTT(20)
      <4>4. CASE pkFwd[q] # "parked"
        <5>1. Run(pkBuf'[q], pkTaken'[q]) /\ pkFwd'[q] = pkFwd[q]
          BY <4>1, <4>2, <4>4
        <5>2. Len(pkBuf'[q]) = Len(pkBuf[q]) - 1
          BY <4>1, <4>4
        <5>3. pkTaken'[q] + Len(pkBuf'[q]) = pkTaken[q] + Len(pkBuf[q])
          BY <3>1, <4>2, <5>2
        <5> QED
          BY <3>1, <4>2, <4>4, <5>1, <5>3
      <4> QED
        BY <4>3, <4>4
    <3> QED
      BY <3>3, <3>4
  <2>3. CASE PkEndListen(k) BY <2>3 DEF PkEndListen
  <2> QED
    BY <1>4, <2>1, <2>2, <2>3
<1> HIDE DEF PkCallTypes, FlowTypes, FwdStarted, FlowKept, FwdHolds
<1> QED
  BY <1>1, <1>2, <1>3, <1>4 DEF PkNext

\* A send finds room.
LEMMA FitsStep ==
  ASSUME FlowTypes, FlowKept, QueueFits, [PkNext]_pkVars
  PROVE  QueueFits'
<1> USE PkAssumption DEF PkSet, pkCall, pkTable, pkClosing, pkFlow, PkRuntimes, PkRuntimes0,
      FlowTypes, QueueFits
<1>1. CASE UNCHANGED pkVars BY <1>1 DEF pkVars
<1>2. ASSUME NEW c \in PkCallers,
             \/ PkFailJoin(c) \/ PkDial(c) \/ PkDetach(c) \/ PkStop(c) \/ PkTakeLock(c)
                \/ PkCloseSignal(c) \/ PkClosePackets(c) \/ PkPut(c) \/ PkDisconnect(c)
      PROVE  QueueFits'
  <2>1. CASE PkFailJoin(c) BY <2>1 DEF PkFailJoin
  <2>2. CASE PkDial(c) BY <2>2 DEF PkDial
  <2>3. CASE PkDetach(c) BY <2>3 DEF PkDetach
  <2>4. CASE PkStop(c) BY <2>4 DEF PkStop
  <2>5. CASE PkTakeLock(c) BY <2>5 DEF PkTakeLock
  <2>6. CASE PkCloseSignal(c) BY <2>6 DEF PkCloseSignal
  <2>7. CASE PkClosePackets(c) BY <2>7 DEF PkClosePackets
  <2>8. CASE PkPut(c) BY <2>8 DEF PkPut
  <2>9. CASE PkDisconnect(c) BY <2>9 DEF PkDisconnect
  <2> QED
    BY <1>2, <2>1, <2>2, <2>3, <2>4, <2>5, <2>6, <2>7, <2>8, <2>9
<1>3. ASSUME NEW r \in PkRuntimes,
             PkReceive(r) \/ PkEnd(r) \/ PkSend(r) \/ PkPark(r) \/ PkPanic(r)
      PROVE  QueueFits'
  <2>1. CASE PkReceive(r) BY <2>1 DEF PkReceive
  <2>2. CASE PkEnd(r) BY <2>2 DEF PkEnd
  <2>3. CASE PkSend(r)
    <3>1. /\ \A q \in PkRuntimes : q # r => pkBuf'[q] = pkBuf[q]
          /\ Len(pkBuf'[r]) = Len(pkBuf[r]) + 1 /\ Len(pkBuf[r]) \in Nat /\ Len(pkBuf[r]) < PkCap
      BY <2>3, SendFacts
    <3>2. \A q \in PkRuntimes : Len(pkBuf[q]) <= PkCap
      OBVIOUS
    <3>3. Len(pkBuf'[r]) <= PkCap
      BY <3>1
    <3>4. ASSUME NEW q \in PkRuntimes PROVE Len(pkBuf'[q]) <= PkCap
      <4>1. CASE q = r BY <3>3, <4>1
      <4>2. CASE q # r BY <3>1, <3>2, <4>2
      <4> QED
        BY <4>1, <4>2
    <3> HIDE DEF FlowTypes, PkRuntimes
    <3> QED
      BY <3>4
  <2>4. CASE PkPark(r) BY <2>4 DEF PkPark
  <2>5. CASE PkPanic(r) BY <2>5 DEF PkPanic
  <2> QED
    BY <1>3, <2>1, <2>2, <2>3, <2>4, <2>5
<1>4. ASSUME NEW k \in PkTaps,
             PkListen(k) \/ PkTake(k) \/ PkEndListen(k)
      PROVE  QueueFits'
  <2>1. CASE PkListen(k) BY <2>1 DEF PkListen
  <2>2. CASE PkTake(k)
    <3> SUFFICES ASSUME NEW q \in PkRuntimes PROVE (Len(pkBuf[q]) <= PkCap)'
      BY DEF QueueFits
    <3>1. Len(pkBuf[q]) \in Nat /\ Len(pkBuf[q]) <= PkCap
      BY RunLength DEF FlowKept
    <3>2. CASE q # pkTap[k]
      <4>1. pkBuf'[q] = pkBuf[q]
        BY <2>2, <3>2, TakeFacts
      <4> QED
        BY <3>1, <4>1
    <3>3. CASE q = pkTap[k]
      <4>1. Len(pkBuf'[q]) = Len(pkBuf[q]) \/ Len(pkBuf'[q]) = Len(pkBuf[q]) - 1
        BY <2>2, <3>3, TakeFacts
      <4> QED
        BY <3>1, <4>1, SMTT(20)
    <3> QED
      BY <3>2, <3>3
  <2>3. CASE PkEndListen(k) BY <2>3 DEF PkEndListen
  <2> QED
    BY <1>4, <2>1, <2>2, <2>3
<1> HIDE DEF FlowTypes, QueueFits
<1> QED
  BY <1>1, <1>2, <1>3, <1>4 DEF PkNext

\* Nobody changes the table while another is inside.
LEMMA ExclusiveStep ==
  ASSUME PkCallTypes, CallsTrue, Exclusive, [PkNext]_pkVars
  PROVE  Exclusive'
<1> USE PkAssumption DEF PkSet, pkCall, pkTable, pkClosing, pkFlow, PkRuntimes, PkRuntimes0,
      PkCallTypes, CallsTrue, Exclusive, Inside
<1>1. CASE UNCHANGED pkVars BY <1>1 DEF pkVars
<1>2. ASSUME NEW c \in PkCallers,
             \/ PkFailJoin(c) \/ PkDial(c) \/ PkDetach(c) \/ PkStop(c) \/ PkTakeLock(c)
                \/ PkCloseSignal(c) \/ PkClosePackets(c) \/ PkPut(c) \/ PkDisconnect(c)
      PROVE  Exclusive'
  <2>1. CASE PkFailJoin(c) BY <2>1 DEF PkFailJoin
  <2>2. CASE PkDial(c) BY <2>2 DEF PkDial
  <2>3. CASE PkDetach(c) BY <2>3 DEF PkDetach
  <2>4. CASE PkStop(c) BY <2>4 DEF PkStop
  <2>5. CASE PkTakeLock(c)
    <3>1. pkLock = {} /\ \A d \in PkCallers : ~Inside(d)
      BY <2>5 DEF PkTakeLock
    <3>2. /\ pkLock' = {c} /\ pkDoomed' = [pkDoomed EXCEPT ![c] = pkRT]
          /\ UNCHANGED <<pkOp, pkRT, pkSignal>>
          /\ pkAt' = [pkAt EXCEPT ![c] = IF pkRT = 0 THEN "put" ELSE "signal"]
      BY <2>5 DEF PkTakeLock
    <3>3. pkOp[c] # "leave"
      BY <2>5 DEF PkTakeLock
    <3> QED
      BY <3>1, <3>2, <3>3
  <2>6. CASE PkCloseSignal(c) BY <2>6 DEF PkCloseSignal
  <2>7. CASE PkClosePackets(c) BY <2>7 DEF PkClosePackets
  <2>8. CASE PkPut(c) BY <2>8 DEF PkPut
  <2>9. CASE PkDisconnect(c) BY <2>9 DEF PkDisconnect
  <2> QED
    BY <1>2, <2>1, <2>2, <2>3, <2>4, <2>5, <2>6, <2>7, <2>8, <2>9
<1>3. ASSUME NEW r \in PkRuntimes,
             PkReceive(r) \/ PkEnd(r) \/ PkSend(r) \/ PkPark(r) \/ PkPanic(r)
      PROVE  Exclusive'
  <2>1. CASE PkReceive(r) BY <2>1 DEF PkReceive
  <2>2. CASE PkEnd(r) BY <2>2 DEF PkEnd
  <2>3. CASE PkSend(r) BY <2>3 DEF PkSend
  <2>4. CASE PkPark(r) BY <2>4 DEF PkPark
  <2>5. CASE PkPanic(r) BY <2>5 DEF PkPanic
  <2> QED
    BY <1>3, <2>1, <2>2, <2>3, <2>4, <2>5
<1>4. ASSUME NEW k \in PkTaps,
             PkListen(k) \/ PkTake(k) \/ PkEndListen(k)
      PROVE  Exclusive'
  <2>1. CASE PkListen(k) BY <2>1 DEF PkListen
  <2>2. CASE PkTake(k) BY <2>2 DEF PkTake
  <2>3. CASE PkEndListen(k) BY <2>3 DEF PkEndListen
  <2> QED
    BY <1>4, <2>1, <2>2, <2>3
<1> HIDE DEF PkCallTypes, CallsTrue, Exclusive, Inside
<1> QED
  BY <1>1, <1>2, <1>3, <1>4 DEF PkNext

\* A closer knows its runtime until it has closed both channels.
LEMMA CallsStep ==
  ASSUME PkCallTypes, CallsTrue, [PkNext]_pkVars
  PROVE  CallsTrue'
<1> USE PkAssumption DEF PkSet, pkCall, pkTable, pkClosing, pkFlow, PkRuntimes, PkRuntimes0,
      PkCallTypes, CallsTrue
<1>1. CASE UNCHANGED pkVars BY <1>1 DEF pkVars
<1>2. ASSUME NEW c \in PkCallers,
             \/ PkFailJoin(c) \/ PkDial(c) \/ PkDetach(c) \/ PkStop(c) \/ PkTakeLock(c)
                \/ PkCloseSignal(c) \/ PkClosePackets(c) \/ PkPut(c) \/ PkDisconnect(c)
      PROVE  CallsTrue'
  <2>1. CASE PkFailJoin(c) BY <2>1 DEF PkFailJoin
  <2>2. CASE PkDial(c) BY <2>2 DEF PkDial
  <2>3. CASE PkDetach(c) BY <2>3 DEF PkDetach
  <2>4. CASE PkStop(c) BY <2>4 DEF PkStop
  <2>5. CASE PkTakeLock(c) BY <2>5 DEF PkTakeLock
  <2>6. CASE PkCloseSignal(c) BY <2>6 DEF PkCloseSignal
  <2>7. CASE PkClosePackets(c) BY <2>7 DEF PkClosePackets
  <2>8. CASE PkPut(c) BY <2>8 DEF PkPut
  <2>9. CASE PkDisconnect(c)
    <3>1. UNCHANGED <<pkOp, pkDoomed, pkMine, pkSignal>> /\ pkAt' = [pkAt EXCEPT ![c] = "idle"]
      BY <2>9 DEF PkDisconnect
    <3>2. pkMine[c] = 0
      BY <2>9 DEF PkDisconnect
    <3> QED
      BY <3>1, <3>2
  <2> QED
    BY <1>2, <2>1, <2>2, <2>3, <2>4, <2>5, <2>6, <2>7, <2>8, <2>9
<1>3. ASSUME NEW r \in PkRuntimes,
             PkReceive(r) \/ PkEnd(r) \/ PkSend(r) \/ PkPark(r) \/ PkPanic(r)
      PROVE  CallsTrue'
  <2>1. CASE PkReceive(r) BY <2>1 DEF PkReceive
  <2>2. CASE PkEnd(r) BY <2>2 DEF PkEnd
  <2>3. CASE PkSend(r) BY <2>3 DEF PkSend
  <2>4. CASE PkPark(r) BY <2>4 DEF PkPark
  <2>5. CASE PkPanic(r) BY <2>5 DEF PkPanic
  <2> QED
    BY <1>3, <2>1, <2>2, <2>3, <2>4, <2>5
<1>4. ASSUME NEW k \in PkTaps,
             PkListen(k) \/ PkTake(k) \/ PkEndListen(k)
      PROVE  CallsTrue'
  <2>1. CASE PkListen(k) BY <2>1 DEF PkListen
  <2>2. CASE PkTake(k) BY <2>2 DEF PkTake
  <2>3. CASE PkEndListen(k) BY <2>3 DEF PkEndListen
  <2> QED
    BY <1>4, <2>1, <2>2, <2>3
<1> HIDE DEF PkCallTypes, CallsTrue
<1> QED
  BY <1>1, <1>2, <1>3, <1>4 DEF PkNext

\* Only a dial starts a forwarder.
LEMMA StartedStep ==
  ASSUME PkCallTypes, FlowTypes, CallsTrue, FwdStarted, [PkNext]_pkVars
  PROVE  FwdStarted'
<1> USE PkAssumption DEF PkSet, pkCall, pkTable, pkClosing, pkFlow, PkRuntimes, PkRuntimes0,
      PkCallTypes, FlowTypes, FwdStarted
<1>1. CASE UNCHANGED pkVars BY <1>1 DEF pkVars
<1>2. ASSUME NEW c \in PkCallers,
             \/ PkFailJoin(c) \/ PkDial(c) \/ PkDetach(c) \/ PkStop(c) \/ PkTakeLock(c)
                \/ PkCloseSignal(c) \/ PkClosePackets(c) \/ PkPut(c) \/ PkDisconnect(c)
      PROVE  FwdStarted'
  <2>1. CASE PkFailJoin(c) BY <2>1 DEF PkFailJoin
  <2>2. CASE PkDial(c) BY <2>2 DEF PkDial
  <2>3. CASE PkDetach(c) BY <2>3 DEF PkDetach
  <2>4. CASE PkStop(c) BY <2>4 DEF PkStop
  <2>5. CASE PkTakeLock(c) BY <2>5 DEF PkTakeLock
  <2>6. CASE PkCloseSignal(c) BY <2>6 DEF PkCloseSignal
  <2>7. CASE PkClosePackets(c) BY <2>7 DEF PkClosePackets
  <2>8. CASE PkPut(c) BY <2>8 DEF PkPut
  <2>9. CASE PkDisconnect(c) BY <2>9 DEF PkDisconnect
  <2> QED
    BY <1>2, <2>1, <2>2, <2>3, <2>4, <2>5, <2>6, <2>7, <2>8, <2>9
<1>3. ASSUME NEW r \in PkRuntimes,
             PkReceive(r) \/ PkEnd(r) \/ PkSend(r) \/ PkPark(r) \/ PkPanic(r)
      PROVE  FwdStarted'
  <2>1. CASE PkReceive(r) BY <2>1 DEF PkReceive
  <2>2. CASE PkEnd(r) BY <2>2 DEF PkEnd
  <2>3. CASE PkSend(r) BY <2>3 DEF PkSend
  <2>4. CASE PkPark(r) BY <2>4 DEF PkPark
  <2>5. CASE PkPanic(r) BY <2>5 DEF PkPanic
  <2> QED
    BY <1>3, <2>1, <2>2, <2>3, <2>4, <2>5
<1>4. ASSUME NEW k \in PkTaps,
             PkListen(k) \/ PkTake(k) \/ PkEndListen(k)
      PROVE  FwdStarted'
  <2>1. CASE PkListen(k) BY <2>1 DEF PkListen
  <2>2. CASE PkTake(k) BY <2>2 DEF PkTake
  <2>3. CASE PkEndListen(k) BY <2>3 DEF PkEndListen
  <2> QED
    BY <1>4, <2>1, <2>2, <2>3
<1> HIDE DEF PkCallTypes, FlowTypes, FwdStarted
<1> QED
  BY <1>1, <1>2, <1>3, <1>4 DEF PkNext

\* A runtime goes from its join to the table and from there to its closer.
LEMMA OrphanStep ==
  ASSUME PkCallTypes, FlowTypes, CallsTrue, Exclusive, PkNoOrphan, [PkNext]_pkVars
  PROVE  PkNoOrphan'
<1> USE PkAssumption DEF PkSet, pkCall, pkTable, pkClosing, pkFlow, PkRuntimes, PkRuntimes0,
      PkCallTypes, FlowTypes, CallsTrue, Exclusive, Inside, PkNoOrphan
<1>1. CASE UNCHANGED pkVars BY <1>1 DEF pkVars
<1>2. ASSUME NEW c \in PkCallers,
             \/ PkFailJoin(c) \/ PkDial(c) \/ PkDetach(c) \/ PkStop(c) \/ PkTakeLock(c)
                \/ PkCloseSignal(c) \/ PkClosePackets(c) \/ PkPut(c) \/ PkDisconnect(c)
      PROVE  PkNoOrphan'
  <2>1. CASE PkFailJoin(c) BY <2>1 DEF PkFailJoin
  <2>2. CASE PkDial(c)
    <3> SUFFICES ASSUME NEW q \in PkRuntimes, pkFwd'[q] # "none", q \notin pkSignal'
                 PROVE  (\/ q = pkRT
                         \/ \E d \in PkCallers :
                              q = pkMine[d] \/ (q = pkDoomed[d] /\ pkAt[d] = "signal"))'
      BY DEF PkNoOrphan
    <3>1. UNCHANGED <<pkRT, pkDoomed, pkSignal>> /\ pkMine' = [pkMine EXCEPT ![c] = pkMade + 1]
          /\ pkAt' = [pkAt EXCEPT ![c] = "lock"] /\ pkAt[c] = "idle" /\ pkMine[c] = 0
          /\ pkFwd' = [pkFwd EXCEPT ![pkMade + 1] = "wait"]
      BY <2>2 DEF PkDial
    <3>2. CASE q = pkMade + 1 BY <3>1, <3>2
    <3>3. CASE q # pkMade + 1
      <4>1. pkFwd[q] # "none" /\ q \notin pkSignal
        BY <3>1, <3>3
      <4>2. CASE q = pkRT BY <3>1, <4>2
      <4>3. ASSUME NEW d \in PkCallers, q = pkMine[d] \/ (q = pkDoomed[d] /\ pkAt[d] = "signal")
            PROVE  q = pkMine'[d] \/ (q = pkDoomed'[d] /\ pkAt'[d] = "signal")
        BY <3>1, <4>3, SMTT(20)
      <4> QED
        BY <4>1, <4>2, <4>3
    <3> QED
      BY <3>2, <3>3
  <2>3. CASE PkDetach(c) BY <2>3, SMTT(20) DEF PkDetach
  <2>4. CASE PkStop(c) BY <2>4 DEF PkStop
  <2>5. CASE PkTakeLock(c) BY <2>5 DEF PkTakeLock
  <2>6. CASE PkCloseSignal(c) BY <2>6 DEF PkCloseSignal
  <2>7. CASE PkClosePackets(c) BY <2>7 DEF PkClosePackets
  <2>8. CASE PkPut(c)
    <3> SUFFICES ASSUME NEW q \in PkRuntimes, pkFwd'[q] # "none", q \notin pkSignal'
                 PROVE  (\/ q = pkRT
                         \/ \E d \in PkCallers :
                              q = pkMine[d] \/ (q = pkDoomed[d] /\ pkAt[d] = "signal"))'
      BY DEF PkNoOrphan
    <3>1. /\ UNCHANGED <<pkDoomed, pkSignal, pkFwd>> /\ pkMine' = [pkMine EXCEPT ![c] = 0]
          /\ pkAt' = [pkAt EXCEPT ![c] = "idle"] /\ pkAt[c] = "put"
          /\ pkRT' = IF pkOp[c] = "join" THEN pkMine[c] ELSE 0
      BY <2>8 DEF PkPut
    <3>2. pkRT = 0 \/ pkRT \in pkSignal
      BY <3>1
    <3>3. pkFwd[q] # "none" /\ q \notin pkSignal /\ q # 0
      BY <3>1
    <3>4. PICK d \in PkCallers : q = pkMine[d] \/ (q = pkDoomed[d] /\ pkAt[d] = "signal")
      BY <3>2, <3>3
    <3>5. CASE d = c
      <4>1. q = pkMine[c] /\ pkOp[c] = "join"
        BY <3>1, <3>3, <3>4, <3>5
      <4> QED
        BY <3>1, <4>1
    <3>6. CASE d # c BY <3>1, <3>4, <3>6
    <3> QED
      BY <3>5, <3>6
  <2>9. CASE PkDisconnect(c) BY <2>9 DEF PkDisconnect
  <2> QED
    BY <1>2, <2>1, <2>2, <2>3, <2>4, <2>5, <2>6, <2>7, <2>8, <2>9
<1>3. ASSUME NEW r \in PkRuntimes,
             PkReceive(r) \/ PkEnd(r) \/ PkSend(r) \/ PkPark(r) \/ PkPanic(r)
      PROVE  PkNoOrphan'
  <2>1. CASE PkReceive(r) BY <2>1, SMTT(20) DEF PkReceive
  <2>2. CASE PkEnd(r) BY <2>2 DEF PkEnd
  <2>3. CASE PkSend(r) BY <2>3, SMTT(20) DEF PkSend
  <2>4. CASE PkPark(r) BY <2>4, SMTT(20) DEF PkPark
  <2>5. CASE PkPanic(r) BY <2>5, SMTT(20) DEF PkPanic
  <2> QED
    BY <1>3, <2>1, <2>2, <2>3, <2>4, <2>5
<1>4. ASSUME NEW k \in PkTaps,
             PkListen(k) \/ PkTake(k) \/ PkEndListen(k)
      PROVE  PkNoOrphan'
  <2>1. CASE PkListen(k) BY <2>1 DEF PkListen
  <2>2. CASE PkTake(k) BY <2>2 DEF PkTake
  <2>3. CASE PkEndListen(k) BY <2>3 DEF PkEndListen
  <2> QED
    BY <1>4, <2>1, <2>2, <2>3
<1> HIDE DEF PkCallTypes, FlowTypes, CallsTrue, Exclusive, Inside, PkNoOrphan
<1> QED
  BY <1>1, <1>2, <1>3, <1>4 DEF PkNext

-----------------------------------------------------------------------------
(* The theorems. *)

\* Before the first join nothing is there.
LEMMA PkInitInv == PkInit => PkInv
<1> SUFFICES ASSUME PkInit PROVE PkInv
  OBVIOUS
<1> USE PkAssumption DEF PkInit, PkRuntimes, PkRuntimes0
<1>1. PkCallTypes /\ FlowTypes
  <2>1. 0 \in PkRuntimes0 /\ 0 \in 0..PkMaxFed
    OBVIOUS
  <2>2. PkCallTypes
    BY <2>1 DEF PkCallTypes
  <2>3. FlowTypes
    BY <2>1 DEF FlowTypes
  <2> QED
    BY <2>2, <2>3
<1>2. \A r \in PkRuntimes : Run(pkBuf[r], pkTaken[r]) /\ Len(pkBuf[r]) = 0
  BY RunEmpty
<1>3. FlowKept /\ QueueFits
  BY <1>2 DEF FlowKept, QueueFits, FwdHolds
<1>4. Exclusive /\ CallsTrue /\ FwdStarted /\ PkNoOrphan
  BY DEF Exclusive, Inside, CallsTrue, FwdStarted, PkNoOrphan
<1> QED
  BY <1>1, <1>3, <1>4 DEF PkInv

\* Every step keeps the invariant.
LEMMA PkInvStep == PkInv /\ [PkNext]_pkVars => PkInv'
<1> SUFFICES ASSUME PkInv, [PkNext]_pkVars PROVE PkInv'
  OBVIOUS
<1> USE DEF PkInv
<1>1. PkCallTypes' /\ FlowTypes' /\ FlowKept' /\ QueueFits'
  BY PkCallTypesStep, FlowTypesStep, FlowStep, FitsStep
<1>2. Exclusive' /\ CallsTrue' /\ FwdStarted' /\ PkNoOrphan'
  BY ExclusiveStep, CallsStep, StartedStep, OrphanStep
<1> QED
  BY <1>1, <1>2

\* So it always holds.
LEMMA PkInvAlways == PkSpec => []PkInv
BY PkInitInv, PkInvStep, PTL DEF PkSpec

\* The variables have their types.
THEOREM PacketTypes == PkSpec => []PkTypeOK
<1>1. PkInv => PkTypeOK
  BY DEF PkInv, PkTypeOK, PkCallTypes, FlowTypes, QueueFits
<1> QED
  BY PkInvAlways, <1>1, PTL

\* JoinVoice, LeaveVoice and Close: the forwarder of a runtime that was replaced or taken
\* out was told to end, or its closer is about to tell it.
THEOREM NoForwarderIsLeft == PkSpec => []PkNoOrphan
<1>1. PkInv => PkNoOrphan
  BY DEF PkInv
<1> QED
  BY PkInvAlways, <1>1, PTL

\* A receive of the forwarder is a Feed: there is room for its packet.
LEMMA ReceiveFeeds ==
  ASSUME PkInv, NEW r \in PkRuntimes, PkReceive(r)
  PROVE  PkStream!Feed(r)
<1>1. pkTaken[r] \in Nat /\ pkFed[r] \in Nat /\ Len(pkBuf[r]) \in Nat /\ Len(pkBuf[r]) <= PkCap
  BY RunLength DEF PkInv, FlowTypes, FlowKept, QueueFits
<1>2. pkFed[r] = pkTaken[r] + Len(pkBuf[r])
  BY <1>1 DEF PkInv, FlowKept, FwdHolds, PkReceive
<1>3. pkFed[r] - pkTaken[r] < PkCap + 1
  BY <1>1, <1>2, PkAssumption
<1>4. pkFed' = [pkFed EXCEPT ![r] = pkFed[r] + 1] /\ UNCHANGED pkTaken
  BY DEF PkReceive, PkSet
<1> QED
  BY <1>3, <1>4 DEF PkStream!Feed

\* Every step is one of PacketStream, or leaves its state as it is.
LEMMA StepStreams == PkInv /\ [PkNext]_pkVars => [PkStream!StreamNext]_<<pkFed, pkTaken>>
<1> SUFFICES ASSUME PkInv, [PkNext]_pkVars, ~UNCHANGED <<pkFed, pkTaken>>
             PROVE  PkStream!StreamNext
  OBVIOUS
<1>1. CASE UNCHANGED pkVars BY <1>1 DEF pkVars, pkFlow
<1>2. ASSUME NEW c \in PkCallers,
             \/ PkFailJoin(c) \/ PkDial(c) \/ PkDetach(c) \/ PkStop(c) \/ PkTakeLock(c)
             \/ PkCloseSignal(c) \/ PkClosePackets(c) \/ PkPut(c) \/ PkDisconnect(c)
      PROVE  FALSE
  BY <1>2 DEF PkFailJoin, PkDial, PkDetach, PkStop, PkTakeLock, PkCloseSignal, PkClosePackets,
              PkPut, PkDisconnect, pkFlow
<1>3. ASSUME NEW r \in PkRuntimes, PkEnd(r) \/ PkSend(r) \/ PkPark(r) \/ PkPanic(r)
      PROVE  FALSE
  BY <1>3 DEF PkEnd, PkSend, PkPark, PkPanic
<1>4. ASSUME NEW r \in PkRuntimes, PkReceive(r)
      PROVE  PkStream!StreamNext
  BY <1>4, ReceiveFeeds DEF PkStream!StreamNext
<1>5. ASSUME NEW k \in PkTaps, PkTake(k)
      PROVE  PkStream!StreamNext
  <2>1. pkTap[k] \in PkRuntimes /\ pkTaken[pkTap[k]] < pkFed[pkTap[k]]
    BY <1>5, TakeFacts, PkAssumption DEF PkInv
  <2>2. pkTaken' = [pkTaken EXCEPT ![pkTap[k]] = pkTaken[pkTap[k]] + 1] /\ UNCHANGED pkFed
    BY <1>5, TakeFacts, PkAssumption DEF PkInv, PkTake
  <2>3. PkStream!Take(pkTap[k])
    BY <2>1, <2>2 DEF PkStream!Take
  <2> QED
    BY <2>1, <2>3 DEF PkStream!StreamNext
<1>6. ASSUME NEW k \in PkTaps, PkListen(k) \/ PkEndListen(k)
      PROVE  FALSE
  BY <1>6 DEF PkListen, PkEndListen, pkFlow
<1> QED
  BY <1>1, <1>2, <1>3, <1>4, <1>5, <1>6 DEF PkNext

\* What listeners take is what the forwarders received, in order, without a gap, and at
\* most PkCap + 1 packets wait: VoicePackets implements PacketStream.
THEOREM PacketsAreAStream == PkSpec => PkIsStream
<1>1. PkInit => PkStream!StreamInit
  BY DEF PkInit, PkStream!StreamInit
<1> QED
  BY PkInvAlways, <1>1, StepStreams, PTL DEF PkSpec, PkIsStream, PkStream!StreamSpec

=============================================================================
