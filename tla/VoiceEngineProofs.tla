-------------------------- MODULE VoiceEngineProofs --------------------------
(***************************************************************************)
(* What VoiceEngine says of sessions, rows and consumers holds for every   *)
(* number of callers, channels, sessions and moves; then, with the proofs  *)
(* of the packets and of the client, the types of the voice composition.   *)
(***************************************************************************)
EXTENDS MCVoice, VoicePacketsProofs, RealtimeClientProofs, TLAPS

\* The types a step needs: of session numbers and rows, and the bound on Joins.
Sorts ==
  /\ voMade \in 0..VoMaxSession /\ voCur \in 0..voMade
  /\ voStarted \subseteq 1..voMade /\ voGone \subseteq 1..voMade
  /\ DOMAIN voAt = VoCallers /\ DOMAIN voPen = VoActors /\ DOMAIN voWhy = VoIds
  /\ voMine \in [VoCallers -> 0..voMade]
  /\ voRow \in [VoIds -> {"none", "open", "ended"}]
  /\ voLeft \in [{"join", "move"} \cup VoKinds -> Nat]
  /\ voMade + voLeft["join"] <= VoMaxSession

Joining == {"connect", "insert", "start"}
Leaving == {"cancel", "delete", "end"}

\* A session is a Join's own until its consumers are started; a Leave holds one
\* whose consumers were started, and has cancelled them before it ends the row.
InHand ==
  /\ \A c \in VoCallers :
       /\ voAt[c] \in Joining => voMine[c] \in (1..voMade) \ voStarted
       /\ voAt[c] \in Leaving => voMine[c] \in voStarted
       /\ voAt[c] = "part" => voMine[c] \in voStarted \cup {0}
       /\ voAt[c] \in {"delete", "end"} => voMine[c] \in voGone
       /\ voAt[c] = "end" => voMine[c] # voCur
  /\ \A c, d \in VoCallers :
       c # d /\ voAt[c] \in Joining /\ voAt[d] \in Joining => voMine[c] # voMine[d]
  /\ voCur # 0 => voCur \in voStarted

\* A row exists for the sessions that were started, and for those about to be.
Rows ==
  /\ \A s \in voStarted : voRow[s] # "none"
  /\ \A c \in VoCallers : voAt[c] = "start" => voRow[voMine[c]] = "open"
  /\ \A s \in VoIds : voRow[s] = "ended" => s \in voStarted

\* A state write goes to a started session.  A consumer whose session is current
\* writes the row of that session, whatever replaces the session meanwhile.
Writes ==
  /\ \A a \in VoActors : voPen[a].at = "upsert" => voPen[a].row \in voStarted
  /\ \A a \in VoActors \ VoCallers : voPen[a].at # "rest" => a[2] \in voStarted
  /\ \A a \in VoActors \ VoCallers :
       voPen[a].at = "upsert" => \/ voPen[a].row = a[2]
                                 \/ a[2] \in voGone \/ "stolen" \in voWhy[a[2]]

\* Session s has a reason for its open row, or a Join or Leave is about to settle it.
Explained(s) ==
  voWhy[s] # {} \/ \E c \in VoCallers : voMine[c] = s /\ voAt[c] \in {"start", "end"}

\* The inductive invariant.
VoInv == Sorts /\ InHand /\ Rows /\ Writes /\ VoCurrentIsOpen /\ VoLiveIsCurrent /\ VoOpenRowExplained

\* A step of a tool call.
VoCall(c) ==
  \/ \E ch \in VoChannels : VoJoin(c, ch)
  \/ VoConnect(c) \/ VoJoinFails(c) \/ VoInsert(c) \/ VoStart(c)
  \/ VoLeave(c) \/ VoPart(c) \/ VoPartFails(c) \/ VoCancel(c) \/ VoDelete(c) \/ VoEnd(c) \/ VoInterrupt(c)

\* A mark in the history of a session stays when another is added.
LEMMA MarkKept ==
  ASSUME NEW f, NEW m, NEW x, NEW s \in DOMAIN f
  PROVE  f[s] \subseteq VoPut(f, m, f[m] \cup {x})[s]
BY DEF VoPut

\* Every step keeps the variables in their types.
LEMMA SortsStep == Sorts /\ InHand /\ [VoNext]_voVars => Sorts'
<1> SUFFICES ASSUME Sorts /\ InHand, [VoNext]_voVars PROVE Sorts'
  OBVIOUS
<1> USE VoAssumption DEF VoPut, InHand, Joining, Leaving, Sorts, VoIds, VoKinds
<1>1. CASE UNCHANGED voVars BY <1>1 DEF voVars, voTable, voBegun, voFloor
<1>2. ASSUME NEW c \in VoCallers, VoCall(c) PROVE Sorts'
  <2>1. ASSUME NEW ch \in VoChannels, VoJoin(c, ch) PROVE Sorts'
    <3>1. UNCHANGED <<voPen, voCur, voStarted, voGone, voRow, voWhy>> /\ voMade' = voMade + 1
      BY <2>1 DEF VoJoin, voTable
    <3>2. voMine' = VoPut(voMine, c, voMade + 1) /\ voAt' = VoPut(voAt, c, "connect")
      BY <2>1 DEF VoJoin
    <3>3. voLeft["join"] > 0 /\ voLeft' = VoPut(voLeft, "join", voLeft["join"] - 1)
      BY <2>1 DEF VoJoin, VoSpend
    <3>4. voMade \in Nat /\ VoMaxSession \in Nat /\ voLeft["join"] \in Nat
      OBVIOUS
    <3>5. voMade' \in 0..VoMaxSession /\ voMade' + voLeft'["join"] <= VoMaxSession
      <4>1. voLeft'["join"] = voLeft["join"] - 1
        BY <3>3
      <4> QED
        BY <3>1, <3>3, <3>4, <4>1
    <3>6. voLeft' \in [{"join", "move"} \cup VoKinds -> Nat]
      BY <3>3, <3>4
    <3>7. voMine' \in [VoCallers -> 0..voMade']
      BY <3>1, <3>2, <3>4
    <3>8. /\ voCur' \in 0..voMade' /\ voStarted' \subseteq 1..voMade' /\ voGone' \subseteq 1..voMade'
          /\ voRow' \in [VoIds -> {"none", "open", "ended"}]
      BY <3>1, <3>4
    <3>9. DOMAIN voAt' = VoCallers /\ DOMAIN voPen' = VoActors /\ DOMAIN voWhy' = VoIds
      BY <3>1, <3>2
    <3> HIDE DEF VoPut, InHand, VoIds, VoKinds
    <3> QED
      BY <3>5, <3>6, <3>7, <3>8, <3>9 DEF Sorts
  <2>2. CASE VoConnect(c) BY <2>2 DEF VoConnect, voTable, voBegun, voFloor
  <2>3. CASE VoJoinFails(c) BY <2>3 DEF VoJoinFails, voTable, voBegun, voFloor
  <2>4. CASE VoInsert(c) BY <2>4 DEF VoInsert, voTable, voBegun, voFloor
  <2>5. CASE VoStart(c)
    <3>1. voMine[c] \in (1..voMade) \ voStarted
      BY <2>5 DEF VoStart
    <3>2. voGone' \subseteq 1..voMade /\ voMine' \in [VoCallers -> 0..voMade]
      BY <2>5 DEF VoStart
    <3> QED
      BY <2>5, <3>1, <3>2 DEF VoStart, voTable, voBegun, voFloor
  <2>6. CASE VoLeave(c)
    BY <2>6 DEF VoLeave, VoIdle, VoSpend, VoWrites, VoRest, voTable, voBegun, voFloor
  <2>7. CASE VoPart(c) BY <2>7 DEF VoPart, voTable, voBegun, voFloor
  <2>8. CASE VoPartFails(c) BY <2>8 DEF VoPartFails, voTable, voBegun, voFloor
  <2>9. CASE VoCancel(c) BY <2>9 DEF VoCancel, voTable, voBegun, voFloor
  <2>10. CASE VoDelete(c) BY <2>10 DEF VoDelete, voTable, voBegun, voFloor
  <2>11. CASE VoEnd(c)
    <3>1. voRow' \in [VoIds -> {"none", "open", "ended"}]
      BY <2>11 DEF VoEnd
    <3>2. DOMAIN voWhy' = VoIds
      BY <2>11 DEF VoEnd
    <3> QED
      BY <2>11, <3>1, <3>2 DEF VoEnd, voTable, voBegun, voFloor
  <2>12. CASE VoInterrupt(c)
    BY <2>12, SMTT(20) DEF VoInterrupt, VoIdle, VoSpend, VoWrites, VoRest, voTable, voBegun, voFloor
  <2> QED
    BY <1>2, <2>1, <2>2, <2>3, <2>4, <2>5, <2>6, <2>7, <2>8, <2>9, <2>10, <2>11,
       <2>12 DEF VoCall
<1>3. ASSUME NEW a \in VoActors, VoSetState(a) \/ VoUpsert(a) \/ VoUpsertFails(a) PROVE Sorts'
  <2>1. CASE VoSetState(a)
    BY <2>1 DEF VoSetState, VoRest, VoCancelled, voTable, voBegun, voFloor
  <2>2. CASE VoUpsert(a)
    BY <2>2 DEF VoUpsert, VoRest, VoCancelled, voTable, voBegun, voFloor
  <2>3. CASE VoUpsertFails(a)
    BY <2>3 DEF VoUpsertFails, VoRest, VoCancelled, voTable, voBegun, voFloor
  <2> QED
    BY <1>3, <2>1, <2>2, <2>3
<1>4. ASSUME NEW s \in VoIds, NEW state \in VoStates, VoHandle(s, state) PROVE Sorts'
  BY <1>4, SMTT(20) DEF VoHandle, VoSpend, VoWrites, VoRest, voTable, voBegun, voFloor
<1>5. ASSUME NEW s \in VoIds, NEW known \in BOOLEAN, VoPacket(s, known) PROVE Sorts'
  BY <1>5, SMTT(20) DEF VoPacket, VoSpend, VoWrites, VoRest, voTable, voBegun, voFloor
<1>6. ASSUME NEW p \in VoPeople, NEW ch \in VoChannels \cup {VoNone}, VoMove(p, ch) PROVE Sorts'
  BY <1>6 DEF VoMove, VoSpend, VoNoHand, voTable, voBegun
<1>7. ASSUME NEW m \in 1..VoMaxMove, VoUpdate(m) \/ VoUpdateFails(m) \/ VoReadMembers(m) \/ VoWriteMembers(m)
      PROVE Sorts'
  <2>1. CASE VoUpdate(m)
    BY <2>1 DEF VoUpdate, VoNoHand, VoOccupants, voTable, voBegun, voFloor
  <2>2. CASE VoReadMembers(m)
    BY <2>2 DEF VoReadMembers, VoNoHand, VoOccupants, voTable, voBegun, voFloor
  <2>3. CASE VoWriteMembers(m)
    BY <2>3 DEF VoWriteMembers, VoNoHand, VoOccupants, voTable, voBegun, voFloor
  <2>4. CASE VoUpdateFails(m)
    BY <2>4 DEF VoUpdateFails, VoNoHand, voTable, voBegun, voFloor
  <2> QED
    BY <1>7, <2>1, <2>2, <2>3, <2>4
<1>8. CASE VoCrash BY <1>8 DEF VoCrash, VoSpend, VoRest, VoNoHand, voBegun
<1> HIDE DEF VoPut, InHand, Joining, Leaving, Sorts, VoIds, VoKinds
<1> QED
  BY <1>1, <1>2, <1>3, <1>4, <1>5, <1>6, <1>7, <1>8 DEF VoNext, VoCall, VoEvent,
     VoSpeechStopped, VoStates

\* Every step keeps what is said of sessions in hand.
LEMMA InHandStep == Sorts /\ InHand /\ [VoNext]_voVars => InHand'
<1> SUFFICES ASSUME Sorts /\ InHand, [VoNext]_voVars PROVE InHand'
  OBVIOUS
<1> USE VoAssumption DEF VoPut, VoIds, Sorts, InHand, Joining, Leaving
<1>1. CASE UNCHANGED voVars BY <1>1 DEF voVars, voTable, voBegun, voFloor
<1>2. ASSUME NEW c \in VoCallers, VoCall(c) PROVE InHand'
  <2>1. ASSUME NEW ch \in VoChannels, VoJoin(c, ch) PROVE InHand'
    BY <2>1 DEF VoJoin, VoIdle, VoSpend, voTable, voFloor
  <2>2. CASE VoConnect(c) BY <2>2 DEF VoConnect, voTable, voBegun, voFloor
  <2>3. CASE VoJoinFails(c) BY <2>3 DEF VoJoinFails, voTable, voBegun, voFloor
  <2>4. CASE VoInsert(c) BY <2>4 DEF VoInsert, voTable, voBegun, voFloor
  <2>5. CASE VoStart(c) BY <2>5 DEF VoStart, voTable, voBegun, voFloor
  <2>6. CASE VoLeave(c)
    BY <2>6 DEF VoLeave, VoIdle, VoSpend, VoWrites, VoRest, voTable, voBegun, voFloor
  <2>7. CASE VoPart(c) BY <2>7 DEF VoPart, voTable, voBegun, voFloor
  <2>8. CASE VoPartFails(c) BY <2>8 DEF VoPartFails, voTable, voBegun, voFloor
  <2>9. CASE VoCancel(c) BY <2>9 DEF VoCancel, voTable, voBegun, voFloor
  <2>10. CASE VoDelete(c) BY <2>10 DEF VoDelete, voTable, voBegun, voFloor
  <2>11. CASE VoEnd(c) BY <2>11 DEF VoEnd, voTable, voBegun, voFloor
  <2>12. CASE VoInterrupt(c)
    BY <2>12 DEF VoInterrupt, VoIdle, VoSpend, VoWrites, VoRest, voTable, voBegun, voFloor
  <2> QED
    BY <1>2, <2>1, <2>2, <2>3, <2>4, <2>5, <2>6, <2>7, <2>8, <2>9, <2>10, <2>11,
       <2>12 DEF VoCall
<1>3. ASSUME NEW a \in VoActors, VoSetState(a) \/ VoUpsert(a) \/ VoUpsertFails(a) PROVE InHand'
  <2>1. CASE VoSetState(a)
    BY <2>1 DEF VoSetState, VoRest, VoCancelled, voTable, voBegun, voFloor
  <2>2. CASE VoUpsert(a)
    BY <2>2 DEF VoUpsert, VoRest, VoCancelled, voTable, voBegun, voFloor
  <2>3. CASE VoUpsertFails(a)
    BY <2>3 DEF VoUpsertFails, VoRest, VoCancelled, voTable, voBegun, voFloor
  <2> QED
    BY <1>3, <2>1, <2>2, <2>3
<1>4. ASSUME NEW s \in VoIds, NEW state \in VoStates, VoHandle(s, state) PROVE InHand'
  BY <1>4 DEF VoHandle, VoSpend, VoWrites, VoRest, voTable, voBegun, voFloor
<1>5. ASSUME NEW s \in VoIds, NEW known \in BOOLEAN, VoPacket(s, known) PROVE InHand'
  BY <1>5 DEF VoPacket, VoSpend, VoWrites, VoRest, voTable, voBegun, voFloor
<1>6. ASSUME NEW p \in VoPeople, NEW ch \in VoChannels \cup {VoNone}, VoMove(p, ch)
      PROVE InHand'
  BY <1>6 DEF VoMove, VoSpend, VoNoHand, voTable, voBegun
<1>7. ASSUME NEW m \in 1..VoMaxMove, VoUpdate(m) \/ VoUpdateFails(m) \/ VoReadMembers(m) \/ VoWriteMembers(m)
      PROVE InHand'
  <2>1. CASE VoUpdate(m)
    BY <2>1 DEF VoUpdate, VoNoHand, VoOccupants, voTable, voBegun, voFloor
  <2>2. CASE VoReadMembers(m)
    BY <2>2 DEF VoReadMembers, VoNoHand, VoOccupants, voTable, voBegun, voFloor
  <2>3. CASE VoWriteMembers(m)
    BY <2>3 DEF VoWriteMembers, VoNoHand, VoOccupants, voTable, voBegun, voFloor
  <2>4. CASE VoUpdateFails(m)
    BY <2>4 DEF VoUpdateFails, VoNoHand, voTable, voBegun, voFloor
  <2> QED
    BY <1>7, <2>1, <2>2, <2>3, <2>4
<1>8. CASE VoCrash BY <1>8 DEF VoCrash, VoSpend, VoRest, VoNoHand, voBegun
<1> HIDE DEF VoPut, VoIds, Sorts, InHand, Joining, Leaving
<1> QED
  BY <1>1, <1>2, <1>3, <1>4, <1>5, <1>6, <1>7, <1>8 DEF VoNext, VoCall, VoEvent,
     VoSpeechStopped, VoStates

\* Every step keeps what is said of rows.
LEMMA RowsStep == Sorts /\ InHand /\ Rows /\ Writes /\ [VoNext]_voVars => Rows'
<1> SUFFICES ASSUME Sorts /\ InHand /\ Rows /\ Writes, [VoNext]_voVars PROVE Rows'
  OBVIOUS
<1> USE VoAssumption DEF VoPut, VoIds, Sorts, InHand, Rows, Writes, Joining, Leaving
<1>1. CASE UNCHANGED voVars BY <1>1 DEF voVars, voTable, voBegun, voFloor
<1>2. ASSUME NEW c \in VoCallers, VoCall(c) PROVE Rows'
  <2>1. ASSUME NEW ch \in VoChannels, VoJoin(c, ch) PROVE Rows'
    BY <2>1 DEF VoJoin, VoIdle, VoSpend, voTable, voFloor
  <2>2. CASE VoConnect(c) BY <2>2 DEF VoConnect, voTable, voBegun, voFloor
  <2>3. CASE VoJoinFails(c) BY <2>3 DEF VoJoinFails, voTable, voBegun, voFloor
  <2>4. CASE VoInsert(c) BY <2>4 DEF VoInsert, voTable, voBegun, voFloor
  <2>5. CASE VoStart(c) BY <2>5 DEF VoStart, voTable, voBegun, voFloor
  <2>6. CASE VoLeave(c)
    BY <2>6 DEF VoLeave, VoIdle, VoSpend, VoWrites, VoRest, voTable, voBegun, voFloor
  <2>7. CASE VoPart(c) BY <2>7 DEF VoPart, voTable, voBegun, voFloor
  <2>8. CASE VoPartFails(c) BY <2>8 DEF VoPartFails, voTable, voBegun, voFloor
  <2>9. CASE VoCancel(c) BY <2>9 DEF VoCancel, voTable, voBegun, voFloor
  <2>10. CASE VoDelete(c) BY <2>10 DEF VoDelete, voTable, voBegun, voFloor
  <2>11. CASE VoEnd(c) BY <2>11 DEF VoEnd, voTable, voBegun, voFloor
  <2>12. CASE VoInterrupt(c)
    BY <2>12 DEF VoInterrupt, VoIdle, VoSpend, VoWrites, VoRest, voTable, voBegun, voFloor
  <2> QED
    BY <1>2, <2>1, <2>2, <2>3, <2>4, <2>5, <2>6, <2>7, <2>8, <2>9, <2>10, <2>11,
       <2>12 DEF VoCall
<1>3. ASSUME NEW a \in VoActors, VoSetState(a) \/ VoUpsert(a) \/ VoUpsertFails(a) PROVE Rows'
  <2>1. CASE VoSetState(a)
    BY <2>1 DEF VoSetState, VoRest, VoCancelled, voTable, voBegun, voFloor
  <2>2. CASE VoUpsert(a)
    BY <2>2 DEF VoUpsert, VoRest, VoCancelled, voTable, voBegun, voFloor
  <2>3. CASE VoUpsertFails(a)
    BY <2>3 DEF VoUpsertFails, VoRest, VoCancelled, voTable, voBegun, voFloor
  <2> QED
    BY <1>3, <2>1, <2>2, <2>3
<1>4. ASSUME NEW s \in VoIds, NEW state \in VoStates, VoHandle(s, state) PROVE Rows'
  BY <1>4 DEF VoHandle, VoSpend, VoWrites, VoRest, voTable, voBegun, voFloor
<1>5. ASSUME NEW s \in VoIds, NEW known \in BOOLEAN, VoPacket(s, known) PROVE Rows'
  BY <1>5 DEF VoPacket, VoSpend, VoWrites, VoRest, voTable, voBegun, voFloor
<1>6. ASSUME NEW p \in VoPeople, NEW ch \in VoChannels \cup {VoNone}, VoMove(p, ch) PROVE Rows'
  BY <1>6 DEF VoMove, VoSpend, VoNoHand, voTable, voBegun
<1>7. ASSUME NEW m \in 1..VoMaxMove, VoUpdate(m) \/ VoUpdateFails(m) \/ VoReadMembers(m) \/ VoWriteMembers(m)
      PROVE Rows'
  <2>1. CASE VoUpdate(m)
    BY <2>1 DEF VoUpdate, VoNoHand, VoOccupants, voTable, voBegun, voFloor
  <2>2. CASE VoReadMembers(m)
    BY <2>2 DEF VoReadMembers, VoNoHand, VoOccupants, voTable, voBegun, voFloor
  <2>3. CASE VoWriteMembers(m)
    BY <2>3 DEF VoWriteMembers, VoNoHand, VoOccupants, voTable, voBegun, voFloor
  <2>4. CASE VoUpdateFails(m)
    BY <2>4 DEF VoUpdateFails, VoNoHand, voTable, voBegun, voFloor
  <2> QED
    BY <1>7, <2>1, <2>2, <2>3, <2>4
<1>8. CASE VoCrash BY <1>8 DEF VoCrash, VoSpend, VoRest, VoNoHand, voBegun
<1> HIDE DEF VoPut, VoIds, Sorts, InHand, Rows, Writes, Joining, Leaving
<1> QED
  BY <1>1, <1>2, <1>3, <1>4, <1>5, <1>6, <1>7, <1>8 DEF VoNext, VoCall, VoEvent,
     VoSpeechStopped, VoStates

\* Every step keeps what is said of state writes.
LEMMA WritesStep == Sorts /\ InHand /\ Writes /\ VoLiveIsCurrent /\ [VoNext]_voVars => Writes'
<1> SUFFICES ASSUME Sorts /\ InHand /\ Writes /\ VoLiveIsCurrent, [VoNext]_voVars PROVE Writes'
  OBVIOUS
<1> USE VoAssumption DEF VoPut, VoIds, VoActors, Sorts, InHand, Writes, VoLiveIsCurrent
<1>1. CASE UNCHANGED voVars BY <1>1 DEF voVars, voTable, voBegun, voFloor
<1>2. ASSUME NEW c \in VoCallers, VoCall(c) PROVE Writes'
  <2>1. ASSUME NEW ch \in VoChannels, VoJoin(c, ch) PROVE Writes'
    BY <2>1 DEF VoJoin, VoIdle, VoSpend, voTable, voFloor
  <2>2. CASE VoConnect(c) BY <2>2 DEF VoConnect, voTable, voBegun, voFloor
  <2>3. CASE VoJoinFails(c) BY <2>3 DEF VoJoinFails, voTable, voBegun, voFloor
  <2>4. CASE VoInsert(c) BY <2>4 DEF VoInsert, voTable, voBegun, voFloor
  <2>5. CASE VoStart(c) BY <2>5 DEF VoStart, voTable, voBegun, voFloor
  <2>6. CASE VoLeave(c)
    <3>1. voGone' = voGone /\ voStarted' = voStarted /\ voWhy' = voWhy
      BY <2>6 DEF VoLeave, VoIdle, VoWrites, voTable, voBegun
    <3>2. \A x \in VoActors : x # c => voPen'[x] = voPen[x]
      BY <2>6 DEF VoLeave, VoIdle, VoWrites, voTable, voBegun
    <3>3. voPen'[c].at # "upsert"
      BY <2>6 DEF VoLeave, VoIdle, VoWrites, voTable, voBegun
    <3>4. \A x \in VoActors \ VoCallers : voPen'[x] = voPen[x]
      BY <2>6, <3>2 DEF VoLeave, VoIdle, VoWrites, voTable, voBegun
    <3>5. Writes
      OBVIOUS
    <3> HIDE DEF VoPut, VoIds, VoActors, Sorts, InHand, Writes, VoLiveIsCurrent
    <3>6. \A x \in VoActors : voPen'[x].at = "upsert" => voPen'[x].row \in voStarted'
      BY <3>1, <3>2, <3>3, <3>5 DEF Writes
    <3> QED
      BY <3>1, <3>4, <3>5, <3>6 DEF Writes
  <2>7. CASE VoPart(c) BY <2>7 DEF VoPart, voTable, voBegun, voFloor
  <2>8. CASE VoPartFails(c) BY <2>8 DEF VoPartFails, voTable, voBegun, voFloor
  <2>9. CASE VoCancel(c) BY <2>9 DEF VoCancel, voTable, voBegun, voFloor
  <2>10. CASE VoDelete(c) BY <2>10 DEF VoDelete, voTable, voBegun, voFloor
  <2>11. CASE VoEnd(c)
    <3>1. voPen' = voPen /\ voGone' = voGone /\ voStarted' = voStarted
      BY <2>11 DEF VoEnd, voTable, voBegun
    <3>2. voWhy' = voWhy \/ voWhy' = VoPut(voWhy, voMine[c], voWhy[voMine[c]] \cup {"unended"})
      BY <2>11 DEF VoEnd
    <3>3. \A s \in VoIds : voWhy[s] \subseteq voWhy'[s]
      <4>1. DOMAIN voWhy = VoIds
        OBVIOUS
      <4> HIDE DEF VoPut, VoIds, Sorts, InHand, Writes, VoLiveIsCurrent
      <4> QED
        BY <3>2, <4>1, MarkKept
    <3>4. \A x \in VoActors \ VoCallers : x[2] \in VoIds
      BY <2>11 DEF VoEnd, voTable, voBegun
    <3> QED
      BY <2>11, <3>1, <3>2, <3>3, <3>4 DEF VoEnd, voTable, voBegun
  <2>12. CASE VoInterrupt(c)
    BY <2>12 DEF VoInterrupt, VoIdle, VoSpend, VoWrites, VoRest, voTable, voBegun, voFloor
  <2> QED
    BY <1>2, <2>1, <2>2, <2>3, <2>4, <2>5, <2>6, <2>7, <2>8, <2>9, <2>10, <2>11,
       <2>12 DEF VoCall
<1>3. ASSUME NEW a \in VoActors, VoSetState(a) \/ VoUpsert(a) \/ VoUpsertFails(a) PROVE Writes'
  <2>1. CASE VoSetState(a)
    <3>1. voGone' = voGone /\ voStarted' = voStarted /\ voWhy' = voWhy
      BY <2>1 DEF VoSetState, VoRest, voTable, voBegun
    <3>2. \A x \in VoActors : x # a => voPen'[x] = voPen[x]
      BY <2>1 DEF VoSetState, VoRest, voTable, voBegun
    <3>3. voPen'[a].at # "rest" => voPen'[a].row = voCur /\ voCur \in voStarted
      BY <2>1 DEF VoSetState, VoRest, voTable, voBegun
    <3>4. a \in VoCallers \/ a[2] \in voStarted
      BY <2>1 DEF VoSetState, VoRest, voTable, voBegun
    <3>5. voPen'[a].at = "upsert" => \/ a \in VoCallers \/ voPen'[a].row = a[2] \/ a[2] \in voGone' \/ "stolen" \in voWhy'[a[2]]
      BY <2>1, <3>1, <3>3, <3>4 DEF VoSetState, VoRest, voTable, voBegun
    <3>6. \A x \in VoActors : voPen'[x].at = "upsert" => voPen'[x].row \in voStarted'
      <4> TAKE x \in VoActors
      <4>1. CASE x = a BY <3>1, <3>3, <4>1
      <4>2. CASE x # a BY <3>1, <3>2, <4>2
      <4> QED
        BY <4>1, <4>2
    <3>7. \A x \in VoActors \ VoCallers : voPen'[x].at # "rest" => x[2] \in voStarted'
      BY <2>1, <3>1, <3>2, <3>4 DEF VoSetState, VoRest, voTable, voBegun
    <3>w. Writes
      OBVIOUS
    <3> HIDE DEF VoPut, VoIds, VoActors, Sorts, InHand, Writes, VoLiveIsCurrent
    <3>8. \A x \in VoActors \ VoCallers : voPen'[x].at = "upsert" => \/ voPen'[x].row = x[2] \/ x[2] \in voGone' \/ "stolen" \in voWhy'[x[2]]
      <4> SUFFICES ASSUME NEW x \in VoActors \ VoCallers, voPen'[x].at = "upsert"
                   PROVE  voPen'[x].row = x[2] \/ x[2] \in voGone' \/ "stolen" \in voWhy'[x[2]]
        OBVIOUS
      <4>1. CASE x = a BY <3>5, <4>1
      <4>2. CASE x # a
        <5>1. voPen[x].at = "upsert" /\ voPen'[x] = voPen[x]
          BY <3>2, <4>2
        <5> QED
          BY <3>1, <3>w, <5>1 DEF Writes
      <4> QED
        BY <4>1, <4>2
    <3> QED
      BY <3>6, <3>7, <3>8 DEF Writes
  <2>2. CASE VoUpsert(a)
    BY <2>2 DEF VoUpsert, VoRest, VoCancelled, voTable, voBegun, voFloor
  <2>3. CASE VoUpsertFails(a)
    BY <2>3 DEF VoUpsertFails, VoRest, VoCancelled, voTable, voBegun, voFloor
  <2> QED
    BY <1>3, <2>1, <2>2, <2>3
<1>4. ASSUME NEW s \in VoIds, NEW state \in VoStates, VoHandle(s, state) PROVE Writes'
  BY <1>4 DEF VoHandle, VoSpend, VoWrites, VoRest, voTable, voBegun, voFloor
<1>5. ASSUME NEW s \in VoIds, NEW known \in BOOLEAN, VoPacket(s, known) PROVE Writes'
  BY <1>5 DEF VoPacket, VoSpend, VoWrites, VoRest, voTable, voBegun, voFloor
<1>6. ASSUME NEW p \in VoPeople, NEW ch \in VoChannels \cup {VoNone}, VoMove(p, ch)
      PROVE Writes'
  BY <1>6 DEF VoMove, VoSpend, VoNoHand, voTable, voBegun
<1>7. ASSUME NEW m \in 1..VoMaxMove, VoUpdate(m) \/ VoUpdateFails(m) \/ VoReadMembers(m) \/ VoWriteMembers(m)
      PROVE Writes'
  <2>1. CASE VoUpdate(m)
    BY <2>1 DEF VoUpdate, VoNoHand, VoOccupants, voTable, voBegun, voFloor
  <2>2. CASE VoReadMembers(m)
    BY <2>2 DEF VoReadMembers, VoNoHand, VoOccupants, voTable, voBegun, voFloor
  <2>3. CASE VoWriteMembers(m)
    BY <2>3 DEF VoWriteMembers, VoNoHand, VoOccupants, voTable, voBegun, voFloor
  <2>4. CASE VoUpdateFails(m)
    BY <2>4 DEF VoUpdateFails, VoNoHand, voTable, voBegun, voFloor
  <2> QED
    BY <1>7, <2>1, <2>2, <2>3, <2>4
<1>8. CASE VoCrash BY <1>8 DEF VoCrash, VoSpend, VoRest, VoNoHand, voBegun
<1> HIDE DEF VoPut, VoIds, VoActors, Sorts, InHand, Writes, VoLiveIsCurrent
<1> QED
  BY <1>1, <1>2, <1>3, <1>4, <1>5, <1>6, <1>7, <1>8 DEF VoNext, VoCall, VoEvent,
     VoSpeechStopped, VoStates

\* The session in the table keeps its open row.
LEMMA CurrentStep == VoInv /\ [VoNext]_voVars => VoCurrentIsOpen'
<1> SUFFICES ASSUME VoInv, [VoNext]_voVars PROVE VoCurrentIsOpen'
  OBVIOUS
<1> USE VoAssumption DEF VoPut, VoIds, Sorts, InHand, Rows, Writes, Joining, Leaving, VoInv,
      VoCurrentIsOpen
<1>1. CASE UNCHANGED voVars BY <1>1 DEF voVars, voTable, voBegun, voFloor
<1>2. ASSUME NEW c \in VoCallers, VoCall(c) PROVE VoCurrentIsOpen'
  <2>1. ASSUME NEW ch \in VoChannels, VoJoin(c, ch) PROVE VoCurrentIsOpen'
    BY <2>1 DEF VoJoin, VoIdle, VoSpend, voTable, voFloor
  <2>2. CASE VoConnect(c) BY <2>2 DEF VoConnect, voTable, voBegun, voFloor
  <2>3. CASE VoJoinFails(c) BY <2>3 DEF VoJoinFails, voTable, voBegun, voFloor
  <2>4. CASE VoInsert(c) BY <2>4 DEF VoInsert, voTable, voBegun, voFloor
  <2>5. CASE VoStart(c) BY <2>5 DEF VoStart, voTable, voBegun, voFloor
  <2>6. CASE VoLeave(c)
    BY <2>6 DEF VoLeave, VoIdle, VoSpend, VoWrites, VoRest, voTable, voBegun, voFloor
  <2>7. CASE VoPart(c) BY <2>7 DEF VoPart, voTable, voBegun, voFloor
  <2>8. CASE VoPartFails(c) BY <2>8 DEF VoPartFails, voTable, voBegun, voFloor
  <2>9. CASE VoCancel(c) BY <2>9 DEF VoCancel, voTable, voBegun, voFloor
  <2>10. CASE VoDelete(c) BY <2>10 DEF VoDelete, voTable, voBegun, voFloor
  <2>11. CASE VoEnd(c) BY <2>11 DEF VoEnd, voTable, voBegun, voFloor
  <2>12. CASE VoInterrupt(c)
    BY <2>12 DEF VoInterrupt, VoIdle, VoSpend, VoWrites, VoRest, voTable, voBegun, voFloor
  <2> QED
    BY <1>2, <2>1, <2>2, <2>3, <2>4, <2>5, <2>6, <2>7, <2>8, <2>9, <2>10, <2>11,
       <2>12 DEF VoCall
<1>3. ASSUME NEW a \in VoActors, VoSetState(a) \/ VoUpsert(a) \/ VoUpsertFails(a)
      PROVE VoCurrentIsOpen'
  <2>1. CASE VoSetState(a)
    BY <2>1 DEF VoSetState, VoRest, VoCancelled, voTable, voBegun, voFloor
  <2>2. CASE VoUpsert(a)
    BY <2>2 DEF VoUpsert, VoRest, VoCancelled, voTable, voBegun, voFloor
  <2>3. CASE VoUpsertFails(a)
    BY <2>3 DEF VoUpsertFails, VoRest, VoCancelled, voTable, voBegun, voFloor
  <2> QED
    BY <1>3, <2>1, <2>2, <2>3
<1>4. ASSUME NEW s \in VoIds, NEW state \in VoStates, VoHandle(s, state) PROVE VoCurrentIsOpen'
  BY <1>4 DEF VoHandle, VoSpend, VoWrites, VoRest, voTable, voBegun, voFloor
<1>5. ASSUME NEW s \in VoIds, NEW known \in BOOLEAN, VoPacket(s, known) PROVE VoCurrentIsOpen'
  BY <1>5 DEF VoPacket, VoSpend, VoWrites, VoRest, voTable, voBegun, voFloor
<1>6. ASSUME NEW p \in VoPeople, NEW ch \in VoChannels \cup {VoNone}, VoMove(p, ch)
      PROVE VoCurrentIsOpen'
  BY <1>6 DEF VoMove, VoSpend, VoNoHand, voTable, voBegun
<1>7. ASSUME NEW m \in 1..VoMaxMove, VoUpdate(m) \/ VoUpdateFails(m) \/ VoReadMembers(m) \/ VoWriteMembers(m)
      PROVE VoCurrentIsOpen'
  <2>1. CASE VoUpdate(m)
    BY <2>1 DEF VoUpdate, VoNoHand, VoOccupants, voTable, voBegun, voFloor
  <2>2. CASE VoReadMembers(m)
    BY <2>2 DEF VoReadMembers, VoNoHand, VoOccupants, voTable, voBegun, voFloor
  <2>3. CASE VoWriteMembers(m)
    BY <2>3 DEF VoWriteMembers, VoNoHand, VoOccupants, voTable, voBegun, voFloor
  <2>4. CASE VoUpdateFails(m)
    BY <2>4 DEF VoUpdateFails, VoNoHand, voTable, voBegun, voFloor
  <2> QED
    BY <1>7, <2>1, <2>2, <2>3, <2>4
<1>8. CASE VoCrash BY <1>8 DEF VoCrash, VoSpend, VoRest, VoNoHand, voBegun
<1> HIDE DEF VoPut, VoIds, Sorts, InHand, Rows, Writes, Joining, Leaving, VoInv, VoCurrentIsOpen
<1> QED
  BY <1>1, <1>2, <1>3, <1>4, <1>5, <1>6, <1>7, <1>8 DEF VoNext, VoCall, VoEvent,
     VoSpeechStopped, VoStates

\* Consumers that run are the current session's after every step.
LEMMA LiveStep == VoInv /\ [VoNext]_voVars => VoLiveIsCurrent'
<1> SUFFICES ASSUME VoInv, [VoNext]_voVars PROVE VoLiveIsCurrent'
  OBVIOUS
<1> USE VoAssumption DEF VoPut, VoIds, Sorts, InHand, VoInv, Joining, Leaving, VoLiveIsCurrent
<1>1. CASE UNCHANGED voVars BY <1>1 DEF voVars, voTable, voBegun, voFloor
<1>2. ASSUME NEW c \in VoCallers, VoCall(c) PROVE VoLiveIsCurrent'
  <2>1. ASSUME NEW ch \in VoChannels, VoJoin(c, ch) PROVE VoLiveIsCurrent'
    BY <2>1 DEF VoJoin, VoIdle, VoSpend, voTable, voFloor
  <2>2. CASE VoConnect(c) BY <2>2 DEF VoConnect, voTable, voBegun, voFloor
  <2>3. CASE VoJoinFails(c) BY <2>3 DEF VoJoinFails, voTable, voBegun, voFloor
  <2>4. CASE VoInsert(c) BY <2>4 DEF VoInsert, voTable, voBegun, voFloor
  <2>5. CASE VoStart(c) BY <2>5 DEF VoStart, voTable, voBegun, voFloor
  <2>6. CASE VoLeave(c)
    BY <2>6 DEF VoLeave, VoIdle, VoSpend, VoWrites, VoRest, voTable, voBegun, voFloor
  <2>7. CASE VoPart(c) BY <2>7 DEF VoPart, voTable, voBegun, voFloor
  <2>8. CASE VoPartFails(c) BY <2>8 DEF VoPartFails, voTable, voBegun, voFloor
  <2>9. CASE VoCancel(c) BY <2>9 DEF VoCancel, voTable, voBegun, voFloor
  <2>10. CASE VoDelete(c) BY <2>10 DEF VoDelete, voTable, voBegun, voFloor
  <2>11. CASE VoEnd(c) BY <2>11 DEF VoEnd, voTable, voBegun, voFloor
  <2>12. CASE VoInterrupt(c)
    BY <2>12 DEF VoInterrupt, VoIdle, VoSpend, VoWrites, VoRest, voTable, voBegun, voFloor
  <2> QED
    BY <1>2, <2>1, <2>2, <2>3, <2>4, <2>5, <2>6, <2>7, <2>8, <2>9, <2>10, <2>11,
       <2>12 DEF VoCall
<1>3. ASSUME NEW a \in VoActors, VoSetState(a) \/ VoUpsert(a) \/ VoUpsertFails(a)
      PROVE VoLiveIsCurrent'
  <2>1. CASE VoSetState(a)
    BY <2>1 DEF VoSetState, VoRest, VoCancelled, voTable, voBegun, voFloor
  <2>2. CASE VoUpsert(a)
    BY <2>2 DEF VoUpsert, VoRest, VoCancelled, voTable, voBegun, voFloor
  <2>3. CASE VoUpsertFails(a)
    BY <2>3 DEF VoUpsertFails, VoRest, VoCancelled, voTable, voBegun, voFloor
  <2> QED
    BY <1>3, <2>1, <2>2, <2>3
<1>4. ASSUME NEW s \in VoIds, NEW state \in VoStates, VoHandle(s, state) PROVE VoLiveIsCurrent'
  BY <1>4 DEF VoHandle, VoSpend, VoWrites, VoRest, voTable, voBegun, voFloor
<1>5. ASSUME NEW s \in VoIds, NEW known \in BOOLEAN, VoPacket(s, known) PROVE VoLiveIsCurrent'
  BY <1>5 DEF VoPacket, VoSpend, VoWrites, VoRest, voTable, voBegun, voFloor
<1>6. ASSUME NEW p \in VoPeople, NEW ch \in VoChannels \cup {VoNone}, VoMove(p, ch)
      PROVE VoLiveIsCurrent'
  BY <1>6 DEF VoMove, VoSpend, VoNoHand, voTable, voBegun
<1>7. ASSUME NEW m \in 1..VoMaxMove, VoUpdate(m) \/ VoUpdateFails(m) \/ VoReadMembers(m) \/ VoWriteMembers(m)
      PROVE VoLiveIsCurrent'
  <2>1. CASE VoUpdate(m)
    BY <2>1 DEF VoUpdate, VoNoHand, VoOccupants, voTable, voBegun, voFloor
  <2>2. CASE VoReadMembers(m)
    BY <2>2 DEF VoReadMembers, VoNoHand, VoOccupants, voTable, voBegun, voFloor
  <2>3. CASE VoWriteMembers(m)
    BY <2>3 DEF VoWriteMembers, VoNoHand, VoOccupants, voTable, voBegun, voFloor
  <2>4. CASE VoUpdateFails(m)
    BY <2>4 DEF VoUpdateFails, VoNoHand, voTable, voBegun, voFloor
  <2> QED
    BY <1>7, <2>1, <2>2, <2>3, <2>4
<1>8. CASE VoCrash BY <1>8 DEF VoCrash, VoSpend, VoRest, VoNoHand, voBegun
<1> HIDE DEF VoPut, VoIds, Sorts, InHand, VoInv, Joining, Leaving, VoLiveIsCurrent
<1> QED
  BY <1>1, <1>2, <1>3, <1>4, <1>5, <1>6, <1>7, <1>8 DEF VoNext, VoCall, VoEvent,
     VoSpeechStopped, VoStates

\* An open row stays explained.
LEMMA ExplainedStep == VoInv /\ [VoNext]_voVars => VoOpenRowExplained'
<1> SUFFICES ASSUME VoInv, [VoNext]_voVars PROVE VoOpenRowExplained'
  OBVIOUS
<1> USE VoAssumption DEF VoPut, VoIds, Sorts, InHand, Rows, Writes, Joining, Leaving, VoInv,
      VoCurrentIsOpen, VoOpenRows, VoOpenRowExplained
<1>1. CASE UNCHANGED voVars BY <1>1 DEF voVars, voTable, voBegun, voFloor
<1>2. ASSUME NEW c \in VoCallers, VoCall(c) PROVE VoOpenRowExplained'
  <2>1. ASSUME NEW ch \in VoChannels, VoJoin(c, ch) PROVE VoOpenRowExplained'
    BY <2>1, SMTT(20) DEF VoJoin, VoIdle, VoSpend, voTable, voFloor
  <2>2. CASE VoConnect(c)
    <3>1. UNCHANGED <<voRow, voCur, voWhy, voMine>> /\ VoOpenRowExplained
      BY <2>2 DEF VoConnect, voTable, voBegun, voFloor
    <3>2. \A d \in VoCallers : voAt[d] \in {"start", "end"} => voAt'[d] = voAt[d]
      BY <2>2 DEF VoConnect, voTable, voBegun, voFloor
    <3> HIDE DEF VoPut, Sorts, InHand, Rows, Writes, VoInv
    <3> QED
      BY <3>1, <3>2
  <2>3. CASE VoJoinFails(c) BY <2>3 DEF VoJoinFails, voTable, voBegun, voFloor
  <2>4. CASE VoInsert(c) BY <2>4 DEF VoInsert, voTable, voBegun, voFloor
  <2>5. CASE VoStart(c)
    <3> SUFFICES ASSUME NEW s \in VoIds, voRow'[s] = "open", s # voCur' PROVE Explained(s)'
      BY DEF VoOpenRowExplained, VoOpenRows, Explained, VoIds
    <3>1. CASE s = voCur BY <2>5, <3>1 DEF VoStart, Explained, voTable, voBegun, voFloor
    <3>2. CASE s # voCur BY <2>5, <3>2 DEF VoStart, Explained, voTable, voBegun, voFloor
    <3> QED
      BY <2>5, <3>1, <3>2 DEF VoStart, Explained, voTable, voBegun, voFloor
  <2>6. CASE VoLeave(c)
    BY <2>6 DEF VoLeave, VoIdle, VoSpend, VoWrites, VoRest, voTable, voBegun, voFloor
  <2>7. CASE VoPart(c) BY <2>7 DEF VoPart, voTable, voBegun, voFloor
  <2>8. CASE VoPartFails(c) BY <2>8, SMTT(20) DEF VoPartFails, voTable, voBegun, voFloor
  <2>9. CASE VoCancel(c) BY <2>9 DEF VoCancel, voTable, voBegun, voFloor
  <2>10. CASE VoDelete(c)
    <3> SUFFICES ASSUME NEW s \in VoIds, voRow'[s] = "open", s # voCur' PROVE Explained(s)'
      BY DEF VoOpenRowExplained, VoOpenRows, Explained, VoIds
    <3>1. CASE s = voCur BY <2>10, <3>1 DEF VoDelete, Explained, voTable, voBegun, voFloor
    <3>2. CASE s # voCur BY <2>10, <3>2, SMTT(20) DEF VoDelete, Explained, voTable, voBegun, voFloor
    <3> QED
      BY <2>10, <3>1, <3>2 DEF VoDelete, Explained, voTable, voBegun, voFloor
  <2>11. CASE VoEnd(c)
    <3> SUFFICES ASSUME NEW s \in VoIds, voRow'[s] = "open", s # voCur' PROVE Explained(s)'
      BY DEF VoOpenRowExplained, VoOpenRows, Explained, VoIds
    <3>1. voCur' = voCur /\ voMine[c] \in VoIds /\ voMine[c] # voCur
      BY <2>11 DEF VoEnd, Explained, voTable, voBegun, voFloor
    <3>2. voRow[s] = "open" /\ s # voCur
      BY <2>11, <3>1 DEF VoEnd, voTable
    <3>3. Explained(s)
      BY <3>1, <3>2 DEF Explained
    <3>4. voRow' = VoPut(voRow, voMine[c], "ended") \/ voWhy' = VoPut(voWhy, voMine[c], voWhy[voMine[c]] \cup {"unended"})
      BY <2>11 DEF VoEnd
    <3>5. s = voMine[c] => voWhy'[s] # {}
      <4>1. voRow' = VoPut(voRow, voMine[c], "ended") => voRow'[voMine[c]] = "ended"
        BY <3>1
      <4>2. voWhy' = VoPut(voWhy, voMine[c], voWhy[voMine[c]] \cup {"unended"}) => "unended" \in voWhy'[voMine[c]]
        BY <3>1
      <4> QED
        BY <3>4, <4>1, <4>2
    <3>6. voWhy' = voWhy \/ voWhy' = VoPut(voWhy, voMine[c], voWhy[voMine[c]] \cup {"unended"})
      BY <2>11 DEF VoEnd
    <3>7. voWhy[s] \subseteq voWhy'[s]
      <4>1. DOMAIN voWhy = VoIds
        OBVIOUS
      <4> HIDE DEF VoPut, VoIds, Sorts, InHand, Rows, Writes, VoInv
      <4> QED
        BY <3>6, <4>1, MarkKept
    <3>8. \A d \in VoCallers : d # c => voMine'[d] = voMine[d] /\ voAt'[d] = voAt[d]
      BY <2>11 DEF VoEnd
    <3> QED
      BY <3>3, <3>5, <3>7, <3>8, SMTT(20) DEF Explained
  <2>12. CASE VoInterrupt(c)
    <3> SUFFICES ASSUME NEW s \in VoIds, voRow'[s] = "open", s # voCur' PROVE Explained(s)'
      BY DEF VoOpenRowExplained, VoOpenRows, Explained, VoIds
    <3>1. UNCHANGED <<voAt, voMine, voRow, voWhy, voCur>>
      BY <2>12 DEF VoInterrupt, Explained, voTable, voBegun, voFloor
    <3> QED
      BY <2>12, <3>1 DEF VoInterrupt, Explained, voTable, voBegun, voFloor
  <2> QED
    BY <1>2, <2>1, <2>2, <2>3, <2>4, <2>5, <2>6, <2>7, <2>8, <2>9, <2>10, <2>11,
       <2>12 DEF VoCall
<1>3. ASSUME NEW a \in VoActors, VoSetState(a) \/ VoUpsert(a) \/ VoUpsertFails(a)
      PROVE VoOpenRowExplained'
  <2>1. CASE VoSetState(a)
    BY <2>1 DEF VoSetState, VoRest, VoCancelled, voTable, voBegun, voFloor
  <2>2. CASE VoUpsert(a)
    <3> SUFFICES ASSUME NEW s \in VoIds, voRow'[s] = "open", s # voCur' PROVE Explained(s)'
      BY DEF VoOpenRowExplained, VoOpenRows, Explained, VoIds
    <3>1. /\ voAt' = voAt /\ voMine' = voMine /\ voCur' = voCur /\ voPen[a].row \in VoIds
          /\ voRow[voPen[a].row] \in {"open", "ended"}
      <4>1. voPen[a].row \in voStarted
        BY <2>2 DEF VoUpsert
      <4>2. voPen[a].row \in VoIds
        <5>1. \A r \in voStarted : r \in 1..VoMaxSession
          OBVIOUS
        <5> HIDE DEF Sorts, InHand, Rows, Writes, VoInv
        <5> QED
          BY <4>1, <5>1, Zenon
      <4>3. voRow[voPen[a].row] \in {"open", "ended"}
        BY <4>1, <4>2
      <4> QED
        BY <2>2, <4>2, <4>3 DEF VoUpsert, voTable
    <3>2. CASE s = voPen[a].row /\ voRow[s] = "ended"
      BY <2>2, <3>1, <3>2 DEF VoUpsert, Explained, voTable, voBegun, voFloor
    <3>3. CASE voRow[voPen[a].row] = "open"
      BY <2>2, <3>1, <3>3 DEF VoUpsert, Explained, voTable, voBegun, voFloor
    <3>4. CASE s # voPen[a].row
      BY <2>2, <3>1, <3>4 DEF VoUpsert, Explained, voTable, voBegun, voFloor
    <3> QED
      BY <2>2, <3>1, <3>2, <3>3, <3>4 DEF VoUpsert, Explained, voTable, voBegun, voFloor
  <2>3. CASE VoUpsertFails(a)
    BY <2>3 DEF VoUpsertFails, VoRest, VoCancelled, voTable, voBegun, voFloor
  <2> QED
    BY <1>3, <2>1, <2>2, <2>3
<1>4. ASSUME NEW s \in VoIds, NEW state \in VoStates, VoHandle(s, state)
      PROVE VoOpenRowExplained'
  BY <1>4, SMTT(20) DEF VoHandle, VoSpend, VoWrites, VoRest, voTable, voBegun, voFloor
<1>5. ASSUME NEW s \in VoIds, NEW known \in BOOLEAN, VoPacket(s, known)
      PROVE VoOpenRowExplained'
  BY <1>5 DEF VoPacket, VoSpend, VoWrites, VoRest, voTable, voBegun, voFloor
<1>6. ASSUME NEW p \in VoPeople, NEW ch \in VoChannels \cup {VoNone}, VoMove(p, ch)
      PROVE VoOpenRowExplained'
  BY <1>6 DEF VoMove, VoSpend, VoNoHand, voTable, voBegun
<1>7. ASSUME NEW m \in 1..VoMaxMove, VoUpdate(m) \/ VoUpdateFails(m) \/ VoReadMembers(m) \/ VoWriteMembers(m)
      PROVE VoOpenRowExplained'
  <2>1. CASE VoUpdate(m)
    BY <2>1, SMTT(20) DEF VoUpdate, VoNoHand, VoOccupants, voTable, voBegun, voFloor
  <2>2. CASE VoReadMembers(m)
    <3>1. UNCHANGED <<voAt, voMine, voCur, voRow, voWhy>>
      BY <2>2, Zenon DEF VoReadMembers, voTable
    <3>2. VoOpenRowExplained
      OBVIOUS
    <3> HIDE DEF VoPut, Sorts, InHand, Rows, Writes, VoInv, VoCurrentIsOpen, VoLiveIsCurrent
    <3> QED
      BY <3>1, <3>2
  <2>3. CASE VoWriteMembers(m)
    <3>1. UNCHANGED <<voAt, voMine, voCur, voRow, voWhy>>
      BY <2>3, Zenon DEF VoWriteMembers, voTable
    <3>2. VoOpenRowExplained
      OBVIOUS
    <3> HIDE DEF VoPut, Sorts, InHand, Rows, Writes, VoInv, VoCurrentIsOpen, VoLiveIsCurrent
    <3> QED
      BY <3>1, <3>2
  <2>4. CASE VoUpdateFails(m)
    BY <2>4 DEF VoUpdateFails, VoNoHand, voTable, voBegun, voFloor
  <2> QED
    BY <1>7, <2>1, <2>2, <2>3, <2>4
<1>8. CASE VoCrash BY <1>8 DEF VoCrash, VoSpend, VoRest, VoNoHand, voBegun
<1> HIDE DEF VoPut, VoIds, Sorts, InHand, Rows, Writes, Joining, Leaving, VoInv,
      VoCurrentIsOpen, VoOpenRows, VoOpenRowExplained
<1> QED
  BY <1>1, <1>2, <1>3, <1>4, <1>5, <1>6, <1>7, <1>8 DEF VoNext, VoCall, VoEvent,
     VoSpeechStopped, VoStates

\* The initial state satisfies the invariant.
LEMMA VoInitInv == VoInit => VoInv
<1> SUFFICES ASSUME VoInit PROVE VoInv
  OBVIOUS
<1> USE VoAssumption DEF VoInit, VoInv, VoKinds, VoIds
<1>1. Sorts
  BY DEF Sorts
<1>2. InHand /\ Rows /\ VoCurrentIsOpen /\ VoLiveIsCurrent
  BY DEF InHand, Rows, Joining, Leaving, VoCurrentIsOpen, VoLiveIsCurrent
<1>3. Writes
  BY DEF Writes, VoRest
<1>4. VoOpenRowExplained
  BY DEF VoOpenRowExplained, VoOpenRows
<1> QED
  BY <1>1, <1>2, <1>3, <1>4

\* Every step keeps the invariant.
LEMMA VoInvStep == VoInv /\ [VoNext]_voVars => VoInv'
BY SortsStep, InHandStep, RowsStep, WritesStep, CurrentStep, LiveStep, ExplainedStep DEF VoInv

\* The invariant always holds.
LEMMA VoInvAlways == VoSpec => []VoInv
BY VoInitInv, VoInvStep, PTL DEF VoSpec

\* The session in the table always has an open row.
THEOREM CurrentAlwaysOpen == VoSpec => []VoCurrentIsOpen
<1>1. VoInv => VoCurrentIsOpen
  BY DEF VoInv
<1> QED
  BY VoInvAlways, <1>1, PTL

\* Consumers that run belong to the session in the table, or to one that the Leave
\* of another session deleted.
THEOREM LiveAlwaysCurrent == VoSpec => []VoLiveIsCurrent
<1>1. VoInv => VoLiveIsCurrent
  BY DEF VoInv
<1> QED
  BY VoInvAlways, <1>1, PTL

\* The steps that write rows.
LEMMA RowWrites ==
  [VoNext]_voVars =>
    \/ voRow' = voRow
    \/ \E c \in VoCallers : VoInsert(c) \/ VoEnd(c)
    \/ \E a \in VoActors : VoUpsert(a)
BY DEF VoNext, voVars, VoJoin, VoConnect, VoJoinFails, VoStart, VoLeave, VoPart, VoPartFails,
   VoCancel,
   VoDelete, VoInterrupt, VoSetState, VoUpsertFails, VoEvent, VoSpeechStopped, VoHandle, VoPacket, VoMove,
   VoUpdate, VoUpdateFails, VoReadMembers, VoWriteMembers, VoCrash

\* No consumer reopens an ended row, unless its session was deleted by the Leave of
\* another.
THEOREM NoConsumerReopens == VoSpec => VoReopenedByCall
<1> DEFINE Reopened == \A s \in VoIds : voRow[s] = "ended" /\ voRow'[s] = "open" =>
       \E a \in VoActors : /\ voPen[a].row = s /\ voPen'[a].row = 0
                           /\ a \in VoCallers \/ "stolen" \in voWhy[a[2]]
<1>1. VoInv /\ [VoNext]_voVars => [Reopened]_voVars
  <2> SUFFICES ASSUME VoInv, [VoNext]_voVars, NEW s \in VoIds, voRow[s] = "ended", voRow'[s] = "open"
               PROVE  \E a \in VoActors : /\ voPen[a].row = s /\ voPen'[a].row = 0
                                          /\ a \in VoCallers \/ "stolen" \in voWhy[a[2]]
    OBVIOUS
  <2> USE DEF VoInv, Sorts, VoPut
  <2>1. CASE voRow' = voRow BY <2>1
  <2>2. ASSUME NEW c \in VoCallers, VoInsert(c) PROVE FALSE
    BY <2>2 DEF VoInsert, InHand, Joining, Rows
  <2>3. ASSUME NEW c \in VoCallers, VoEnd(c) PROVE FALSE
    BY <2>3 DEF VoEnd
  <2>4. ASSUME NEW a \in VoActors, VoUpsert(a)
        PROVE  /\ voPen[a].row = s /\ voPen'[a].row = 0
               /\ a \in VoCallers \/ "stolen" \in voWhy[a[2]]
    <3>1. voPen[a].row = s
      BY <2>4 DEF VoUpsert
    <3>2. voPen'[a].row = 0
      BY <2>4 DEF VoUpsert, VoRest
    <3>3. ASSUME a \notin VoCallers PROVE "stolen" \in voWhy[a[2]]
      <4>1. a[2] \in voStarted \ voGone
        BY <2>4, <3>3 DEF VoUpsert, VoCancelled, Writes
      <4>2. a[2] = voCur \/ "stolen" \in voWhy[a[2]]
        BY <4>1 DEF VoLiveIsCurrent
      <4>3. a[2] = s \/ "stolen" \in voWhy[a[2]]
        BY <2>4, <3>1, <3>3, <4>1 DEF VoUpsert, Writes
      <4>4. s # voCur
        BY DEF VoCurrentIsOpen, VoIds
      <4> QED
        BY <4>2, <4>3, <4>4
    <3> QED
      BY <3>1, <3>2, <3>3
  <2> QED
    BY RowWrites, <2>1, <2>2, <2>3, <2>4
<1> QED
  BY VoInvAlways, <1>1, PTL DEF VoSpec, VoReopenedByCall

\* Every row that stays open without its session has one of the five reasons.
THEOREM OpenRowsExplained == VoSpec => []VoOpenRowExplained
<1>1. VoInv => VoOpenRowExplained
  BY DEF VoInv
<1> QED
  BY VoInvAlways, <1>1, PTL

-----------------------------------------------------------------------------
\* Lists that were read and are not in place: of a handler and of a Join.
Holds(m) == voHand[m].at = "write"
Lists(c) == voAt[c] \in {"insert", "start"}

\* An update of somebody who came into the channel is not handled yet, or its handler
\* is about to read that channel.
ComesBy(h, ch) == (h.at = "new" /\ h.to = ch) \/ (h.at = "read" /\ h.chan = ch)
Coming(ch) == \E m \in 1..VoMaxMove : ComesBy(voHand[m], ch)

\* The list names everybody in the channel, or an update is still to come.
Listed(list, ch) == VoOccupants(ch) \subseteq list \/ Coming(ch)

\* What the types of VoiceEngine leave open: the handlers, the channels of sessions
\* and the bound on moves.
FloorTypes ==
  /\ \A s \in 1..voMade : voChan[s] \in VoChannels
  /\ voMoves + voLeft["move"] <= VoMaxMove
  /\ DOMAIN voHand = 1..VoMaxMove
  /\ \A m \in 1..VoMaxMove : voHand[m].list \subseteq VoPeople
  /\ \A m \in 1..VoMaxMove : m > voMoves => voHand[m].at = "none"

\* As long as none of the four causes occurred there is at most one ...
OneList ==
  voStale = {} =>
    /\ \A m, n \in 1..VoMaxMove : Holds(m) /\ Holds(n) => m = n
    /\ \A c, d \in VoCallers : Lists(c) /\ Lists(d) => c = d
    /\ \A m \in 1..VoMaxMove, c \in VoCallers : ~(Holds(m) /\ Lists(c))

\* ... and each list of the session's channel, that of a handler, of a Join and of the
\* session, is complete or about to be replaced.
ListsHonest ==
  voStale = {} =>
    /\ \A m \in 1..VoMaxMove : Holds(m) /\ voCur # 0 /\ voHand[m].chan = voChan[voCur]
                              => Listed(voHand[m].list, voChan[voCur])
    /\ \A c \in VoCallers : Lists(c) => Listed(voMembers[voMine[c]], voChan[voMine[c]])
    /\ voCur # 0 => \/ Listed(voMembers[voCur], voChan[voCur])
                    \/ \E m \in 1..VoMaxMove : Holds(m) /\ voHand[m].chan = voChan[voCur]

\* What the members of a session rest on.
FloorInv == VoTypeOK /\ FloorTypes /\ OneList /\ ListsHonest

\* What setSessionState holds in its goroutines.
PensTyped(f) ==
  \A b \in VoActors : /\ f[b].at \in {"rest", "set", "upsert"}
                      /\ f[b].state \in VoStates /\ f[b].row \in 0..VoMaxSession

\* One goroutine takes its next step in it.
LEMMA PenPut ==
  ASSUME NEW f, DOMAIN f = VoActors, PensTyped(f), NEW a \in VoActors, NEW r,
         r.at \in {"rest", "set", "upsert"}, r.state \in VoStates, r.row \in 0..VoMaxSession
  PROVE  PensTyped(VoPut(f, a, r))
BY DEF PensTyped, VoPut

\* Every step keeps the variables in their types.
LEMMA TypeStep ==
  ASSUME VoTypeOK, FloorTypes, Sorts, InHand, [VoNext]_voVars
  PROVE  VoTypeOK'
<1> PensTyped(voPen)
  BY DEF VoTypeOK, PensTyped
<1> USE VoAssumption DEF VoPut, VoIds, VoTypeOK, Sorts, FloorTypes, VoStates
<1>1. CASE UNCHANGED voVars BY <1>1 DEF voVars, voTable, voBegun, voFloor
<1>2. ASSUME NEW c \in VoCallers, VoCall(c) PROVE VoTypeOK'
  <2>1. ASSUME NEW ch \in VoChannels, VoJoin(c, ch) PROVE VoTypeOK'
    BY <2>1, SMTT(20) DEF VoJoin, VoIdle, VoSpend, voTable, voFloor
  <2>2. CASE VoConnect(c)
    BY <2>2 DEF VoConnect, VoOccupants, InHand, Joining, voTable, voBegun, voFloor
  <2>3. CASE VoJoinFails(c)
    BY <2>3 DEF VoJoinFails, InHand, Joining, voTable, voBegun, voFloor
  <2>4. CASE VoInsert(c) BY <2>4 DEF VoInsert, voTable, voBegun, voFloor
  <2>5. CASE VoStart(c)
    <3>1. voWhy' \in [VoIds -> SUBSET {"replaced", "stolen", "late", "unended", "crash"}]
      BY <2>5 DEF VoStart
    <3>2. voMine[c] \in 1..voMade /\ voGone' \subseteq 1..voMade /\ voMine' \in [VoCallers -> 0..VoMaxSession]
      BY <2>5 DEF VoStart, InHand, Joining, Leaving
    <3> HIDE DEF VoIds
    <3> QED
      BY <2>5, <3>1, <3>2 DEF VoStart, voTable, voBegun, voFloor
  <2>6. CASE VoLeave(c)
    <3>1. PensTyped(voPen')
      <4>1. CASE voCur = 0 BY <2>6, <4>1 DEF VoLeave
      <4>2. CASE voCur # 0
        <5> DEFINE r == [at |-> "set", state |-> "leaving", row |-> 0]
        <5>1. voPen' = VoPut(voPen, c, r)
          BY <2>6, <4>2 DEF VoLeave, VoWrites
        <5>2. r.at \in {"rest", "set", "upsert"} /\ r.state \in VoStates /\ r.row \in 0..VoMaxSession
          OBVIOUS
        <5>3. DOMAIN voPen = VoActors /\ c \in VoActors
          BY DEF VoActors
        <5> HIDE DEF r, VoPut, VoStates
        <5> QED
          BY <5>1, <5>2, <5>3, PenPut
      <4> QED
        BY <4>1, <4>2
    <3>2. voMine' \in [VoCallers -> 0..VoMaxSession]
      BY <2>6 DEF VoLeave
    <3> QED
      BY <2>6, <3>1, <3>2 DEF PensTyped, VoLeave, VoIdle, VoSpend, VoWrites, VoRest, voTable,
         voBegun, voFloor
  <2>7. CASE VoPart(c) BY <2>7 DEF VoPart, voTable, voBegun, voFloor
  <2>8. CASE VoPartFails(c) BY <2>8 DEF VoPartFails, voTable, voBegun, voFloor
  <2>9. CASE VoCancel(c)
    <3>1. voMine[c] \in 1..voMade
      BY <2>9 DEF VoCancel, InHand, Leaving
    <3>2. voGone' \subseteq 1..voMade
      BY <2>9, <3>1 DEF VoCancel
    <3>3. voAt' \in [VoCallers -> {"idle", "connect", "insert", "start", "part", "cancel", "delete", "end"}]
      BY <2>9 DEF VoCancel
    <3> QED
      BY <2>9, <3>2, <3>3 DEF VoCancel, voTable, voBegun, voFloor
  <2>10. CASE VoDelete(c) BY <2>10 DEF VoDelete, voTable, voBegun, voFloor
  <2>11. CASE VoEnd(c)
    <3>1. voWhy' \in [VoIds -> SUBSET {"replaced", "stolen", "late", "unended", "crash"}]
      <4>1. CASE UNCHANGED voWhy BY <4>1
      <4>2. CASE voWhy' = VoPut(voWhy, voMine[c], voWhy[voMine[c]] \cup {"unended"}) BY <4>2
      <4> QED
        BY <2>11, <4>1, <4>2 DEF VoEnd
    <3>2. voRow' \in [VoIds -> {"none", "open", "ended"}]
      <4>1. CASE UNCHANGED voRow BY <4>1
      <4>2. CASE voRow' = VoPut(voRow, voMine[c], "ended") BY <4>2
      <4> QED
        BY <2>11, <4>1, <4>2 DEF VoEnd
    <3>3. voMine' \in [VoCallers -> 0..VoMaxSession]
      BY <2>11 DEF VoEnd
    <3> HIDE DEF VoIds
    <3> QED
      BY <2>11, <3>1, <3>2, <3>3 DEF VoEnd, voTable, voBegun, voFloor
  <2>12. CASE VoInterrupt(c)
    BY <2>12 DEF VoInterrupt, VoIdle, VoSpend, VoWrites, VoRest, voTable, voBegun, voFloor
  <2> QED
    BY <1>2, <2>1, <2>2, <2>3, <2>4, <2>5, <2>6, <2>7, <2>8, <2>9, <2>10, <2>11,
       <2>12 DEF VoCall
<1>3. ASSUME NEW a \in VoActors, VoSetState(a) \/ VoUpsert(a) \/ VoUpsertFails(a)
      PROVE VoTypeOK'
  <2>1. CASE VoSetState(a)
    <3>1. PensTyped(voPen')
      <4>1. CASE voCur = 0
        <5>1. voPen' = VoPut(voPen, a, VoRest)
          BY <2>1, <4>1 DEF VoSetState
        <5>2. VoRest.at \in {"rest", "set", "upsert"} /\ VoRest.state \in VoStates /\ VoRest.row \in 0..VoMaxSession
          BY DEF VoRest
        <5>3. DOMAIN voPen = VoActors
          OBVIOUS
        <5> HIDE DEF VoPut, VoStates
        <5> QED
          BY <5>1, <5>2, <5>3, PenPut
      <4>2. CASE voCur # 0
        <5> DEFINE r == [at |-> "upsert", state |-> voPen[a].state, row |-> voCur]
        <5>1. voPen' = VoPut(voPen, a, r)
          BY <2>1, <4>2 DEF VoSetState
        <5>2. r.at = "upsert" /\ r.state \in VoStates /\ r.row \in 0..VoMaxSession
          BY DEF PensTyped
        <5>3. DOMAIN voPen = VoActors
          OBVIOUS
        <5> HIDE DEF r, VoPut, VoStates
        <5> QED
          BY <5>1, <5>2, <5>3, PenPut
      <4> QED
        BY <4>1, <4>2
    <3>2. voState' \in [VoIds -> VoStates]
      BY <2>1 DEF VoSetState
    <3> QED
      BY <2>1, <3>1, <3>2 DEF PensTyped, VoSetState, voTable, voBegun, voFloor
  <2>2. CASE VoUpsert(a)
    <3>1. \A b \in VoActors : voPen'[b].at \in {"rest", "set", "upsert"} /\ voPen'[b].state \in VoStates
                              /\ voPen'[b].row \in 0..VoMaxSession
      BY <2>2 DEF VoUpsert, VoRest
    <3>2. /\ voRow' \in [VoIds -> {"none", "open", "ended"}]
          /\ voWhy' \in [VoIds -> SUBSET {"replaced", "stolen", "late", "unended", "crash"}]
      BY <2>2 DEF VoUpsert
    <3> QED
      BY <2>2, <3>1, <3>2 DEF VoUpsert, voTable, voBegun, voFloor
  <2>3. CASE VoUpsertFails(a) BY <2>3 DEF VoUpsertFails, VoRest, voTable, voBegun, voFloor
  <2> QED
    BY <1>3, <2>1, <2>2, <2>3
<1>4. ASSUME NEW s \in VoIds, NEW state \in VoStates, VoHandle(s, state) PROVE VoTypeOK'
  BY <1>4 DEF VoHandle, VoSpend, VoWrites, VoRest, voTable, voBegun, voFloor
<1>5. ASSUME NEW s \in VoIds, NEW known \in BOOLEAN, VoPacket(s, known) PROVE VoTypeOK'
  BY <1>5, SMTT(20) DEF VoPacket, VoSpend, VoWrites, VoRest, voTable, voBegun, voFloor
<1>6. ASSUME NEW p \in VoPeople, NEW ch \in VoChannels \cup {VoNone}, VoMove(p, ch)
      PROVE VoTypeOK'
  BY <1>6 DEF VoMove, VoSpend, VoHandOf, voTable, voBegun
<1>7. ASSUME NEW m \in 1..VoMaxMove, VoUpdate(m) \/ VoUpdateFails(m) \/ VoReadMembers(m) \/ VoWriteMembers(m)
      PROVE VoTypeOK'
  <2>1. CASE VoUpdate(m)
    BY <2>1 DEF VoUpdate, VoNoHand, VoHandOf, VoOccupants, voTable, voBegun, voFloor
  <2>2. CASE VoReadMembers(m)
    BY <2>2 DEF VoReadMembers, VoNoHand, VoHandOf, VoOccupants, voTable, voBegun, voFloor
  <2>3. CASE VoWriteMembers(m)
    BY <2>3 DEF VoWriteMembers, VoNoHand, VoHandOf, VoOccupants, voTable, voBegun, voFloor
  <2>4. CASE VoUpdateFails(m)
    BY <2>4 DEF VoUpdateFails, VoNoHand, VoHandOf, voTable, voBegun, voFloor
  <2> QED
    BY <1>7, <2>1, <2>2, <2>3, <2>4
<1>8. CASE VoCrash BY <1>8 DEF VoCrash, VoSpend, VoRest, VoNoHand, VoHandOf, voBegun
<1> HIDE DEF VoPut, VoIds, VoTypeOK, Sorts, FloorTypes, VoStates
<1> QED
  BY <1>1, <1>2, <1>3, <1>4, <1>5, <1>6, <1>7, <1>8 DEF VoNext, VoCall, VoEvent,
     VoSpeechStopped, VoStates

\* Every step keeps the types of the handlers.
LEMMA FloorTypesStep ==
  ASSUME VoTypeOK, FloorTypes, Sorts, [VoNext]_voVars
  PROVE  FloorTypes'
<1> USE VoAssumption DEF VoPut, VoIds, VoTypeOK, Sorts, FloorTypes, VoKinds
<1>1. CASE UNCHANGED voVars BY <1>1 DEF voVars, voTable, voBegun, voFloor
<1>2. ASSUME NEW c \in VoCallers, VoCall(c) PROVE FloorTypes'
  <2>1. ASSUME NEW ch \in VoChannels, VoJoin(c, ch) PROVE FloorTypes'
    <3>1. voMade + 1 \in VoIds /\ voMade' = voMade + 1
      BY <2>1 DEF VoJoin, VoSpend
    <3>2. \A s \in 1..voMade' : voChan'[s] \in VoChannels
      BY <2>1, <3>1 DEF VoJoin
    <3>3. voLeft'["move"] = voLeft["move"]
      BY <2>1 DEF VoJoin, VoSpend
    <3> QED
      BY <2>1, <3>2, <3>3 DEF VoJoin, voTable, voFloor
  <2>2. CASE VoConnect(c) BY <2>2 DEF VoConnect, voTable, voBegun, voFloor
  <2>3. CASE VoJoinFails(c) BY <2>3 DEF VoJoinFails, voTable, voBegun, voFloor
  <2>4. CASE VoInsert(c) BY <2>4 DEF VoInsert, voTable, voBegun, voFloor
  <2>5. CASE VoStart(c) BY <2>5 DEF VoStart, voTable, voBegun, voFloor
  <2>6. CASE VoLeave(c)
    BY <2>6 DEF VoLeave, VoIdle, VoSpend, VoWrites, VoRest, voTable, voBegun, voFloor
  <2>7. CASE VoPart(c) BY <2>7 DEF VoPart, voTable, voBegun, voFloor
  <2>8. CASE VoPartFails(c) BY <2>8 DEF VoPartFails, voTable, voBegun, voFloor
  <2>9. CASE VoCancel(c) BY <2>9 DEF VoCancel, voTable, voBegun, voFloor
  <2>10. CASE VoDelete(c) BY <2>10 DEF VoDelete, voTable, voBegun, voFloor
  <2>11. CASE VoEnd(c) BY <2>11 DEF VoEnd, voTable, voBegun, voFloor
  <2>12. CASE VoInterrupt(c)
    BY <2>12 DEF VoInterrupt, VoIdle, VoSpend, VoWrites, VoRest, voTable, voBegun, voFloor
  <2> QED
    BY <1>2, <2>1, <2>2, <2>3, <2>4, <2>5, <2>6, <2>7, <2>8, <2>9, <2>10, <2>11,
       <2>12 DEF VoCall
<1>3. ASSUME NEW a \in VoActors, VoSetState(a) \/ VoUpsert(a) \/ VoUpsertFails(a)
      PROVE FloorTypes'
  <2>1. CASE VoSetState(a) BY <2>1 DEF VoSetState, VoRest, voTable, voBegun, voFloor
  <2>2. CASE VoUpsert(a) BY <2>2 DEF VoUpsert, VoRest, voTable, voBegun, voFloor
  <2>3. CASE VoUpsertFails(a) BY <2>3 DEF VoUpsertFails, VoRest, voTable, voBegun, voFloor
  <2> QED
    BY <1>3, <2>1, <2>2, <2>3
<1>4. ASSUME NEW s \in VoIds, NEW state \in VoStates, VoHandle(s, state) PROVE FloorTypes'
  BY <1>4 DEF VoHandle, VoSpend, VoWrites, VoRest, voTable, voBegun, voFloor
<1>5. ASSUME NEW s \in VoIds, NEW known \in BOOLEAN, VoPacket(s, known) PROVE FloorTypes'
  BY <1>5 DEF VoPacket, VoSpend, VoWrites, VoRest, voTable, voBegun, voFloor
<1>6. ASSUME NEW p \in VoPeople, NEW ch \in VoChannels \cup {VoNone}, VoMove(p, ch)
      PROVE FloorTypes'
  BY <1>6 DEF VoMove, VoSpend, VoHandOf, voTable, voBegun
<1>7. ASSUME NEW m \in 1..VoMaxMove, VoUpdate(m) \/ VoUpdateFails(m) \/ VoReadMembers(m) \/ VoWriteMembers(m)
      PROVE FloorTypes'
  <2>1. CASE VoUpdate(m)
    BY <2>1 DEF VoUpdate, VoNoHand, VoHandOf, VoOccupants, voTable, voBegun, voFloor
  <2>2. CASE VoReadMembers(m)
    BY <2>2 DEF VoReadMembers, VoNoHand, VoHandOf, VoOccupants, voTable, voBegun, voFloor
  <2>3. CASE VoWriteMembers(m)
    BY <2>3 DEF VoWriteMembers, VoNoHand, VoHandOf, VoOccupants, voTable, voBegun, voFloor
  <2>4. CASE VoUpdateFails(m)
    BY <2>4 DEF VoUpdateFails, VoNoHand, VoHandOf, voTable, voBegun, voFloor
  <2> QED
    BY <1>7, <2>1, <2>2, <2>3, <2>4
<1>8. CASE VoCrash BY <1>8 DEF VoCrash, VoSpend, VoRest, VoNoHand, VoHandOf, voBegun
<1> HIDE DEF VoPut, VoIds, VoTypeOK, Sorts, FloorTypes, VoKinds
<1> QED
  BY <1>1, <1>2, <1>3, <1>4, <1>5, <1>6, <1>7, <1>8 DEF VoNext, VoCall, VoEvent,
     VoSpeechStopped, VoStates

\* Two lists at once are marked, by the read that comes second.
LEMMA OneListStep ==
  ASSUME OneList, FloorTypes, Sorts, [VoNext]_voVars
  PROVE  OneList'
<1> USE DEF VoPut, OneList, Holds, Lists, Sorts, FloorTypes
<1>1. CASE UNCHANGED voVars BY <1>1 DEF voVars, voTable, voBegun, voFloor
<1>2. ASSUME NEW c \in VoCallers, VoCall(c) PROVE OneList'
  <2>1. ASSUME NEW ch \in VoChannels, VoJoin(c, ch) PROVE OneList'
    BY <2>1 DEF VoJoin, VoIdle, VoSpend, voTable, voFloor
  <2>2. CASE VoConnect(c)
    <3>1. /\ voHand' = voHand /\ voAt' = [voAt EXCEPT ![c] = "insert"]
          /\ voStale' = IF VoNoLists THEN voStale ELSE voStale \cup {"overlap"}
      BY <2>2 DEF VoConnect
    <3>2. \A d \in VoCallers : d # c => voAt'[d] = voAt[d]
      BY <3>1
    <3> SUFFICES ASSUME voStale' = {} PROVE OneList'
      BY DEF OneList
    <3>3. VoNoLists
      BY <3>1
    <3>4. (\A m \in 1..VoMaxMove : ~Holds(m)) /\ (\A d \in VoCallers : ~Lists(d))
      BY <3>3 DEF VoNoLists, VoHandLists, VoJoinLists
    <3>5. (\A m \in 1..VoMaxMove : ~Holds(m)') /\ (\A d \in VoCallers : Lists(d)' => d = c)
      BY <3>1, <3>2, <3>4
    <3> QED
      BY <3>5
  <2>3. CASE VoJoinFails(c) BY <2>3 DEF VoJoinFails, voTable, voBegun, voFloor
  <2>4. CASE VoInsert(c) BY <2>4 DEF VoInsert, voTable, voBegun, voFloor
  <2>5. CASE VoStart(c) BY <2>5 DEF VoStart, voTable, voBegun, voFloor
  <2>6. CASE VoLeave(c)
    BY <2>6 DEF VoLeave, VoIdle, VoSpend, VoWrites, VoRest, voTable, voBegun, voFloor
  <2>7. CASE VoPart(c) BY <2>7 DEF VoPart, voTable, voBegun, voFloor
  <2>8. CASE VoPartFails(c) BY <2>8 DEF VoPartFails, voTable, voBegun, voFloor
  <2>9. CASE VoCancel(c) BY <2>9 DEF VoCancel, voTable, voBegun, voFloor
  <2>10. CASE VoDelete(c) BY <2>10 DEF VoDelete, voTable, voBegun, voFloor
  <2>11. CASE VoEnd(c) BY <2>11 DEF VoEnd, voTable, voBegun, voFloor
  <2>12. CASE VoInterrupt(c)
    BY <2>12 DEF VoInterrupt, VoIdle, VoSpend, VoWrites, VoRest, voTable, voBegun, voFloor
  <2> QED
    BY <1>2, <2>1, <2>2, <2>3, <2>4, <2>5, <2>6, <2>7, <2>8, <2>9, <2>10, <2>11,
       <2>12 DEF VoCall
<1>3. ASSUME NEW a \in VoActors, VoSetState(a) \/ VoUpsert(a) \/ VoUpsertFails(a) PROVE OneList'
  <2>1. CASE VoSetState(a) BY <2>1 DEF VoSetState, VoRest, voTable, voBegun, voFloor
  <2>2. CASE VoUpsert(a) BY <2>2 DEF VoUpsert, VoRest, voTable, voBegun, voFloor
  <2>3. CASE VoUpsertFails(a) BY <2>3 DEF VoUpsertFails, VoRest, voTable, voBegun, voFloor
  <2> QED
    BY <1>3, <2>1, <2>2, <2>3
<1>4. ASSUME NEW s \in VoIds, NEW state \in VoStates, VoHandle(s, state) PROVE OneList'
  BY <1>4 DEF VoHandle, VoSpend, VoWrites, VoRest, voTable, voBegun, voFloor
<1>5. ASSUME NEW s \in VoIds, NEW known \in BOOLEAN, VoPacket(s, known) PROVE OneList'
  BY <1>5 DEF VoPacket, VoSpend, VoWrites, VoRest, voTable, voBegun, voFloor
<1>6. ASSUME NEW p \in VoPeople, NEW ch \in VoChannels \cup {VoNone}, VoMove(p, ch)
      PROVE OneList'
  BY <1>6 DEF VoMove, VoSpend, VoHandOf, voTable, voBegun
<1>7. ASSUME NEW m \in 1..VoMaxMove, VoUpdate(m) \/ VoUpdateFails(m) \/ VoReadMembers(m) \/ VoWriteMembers(m)
      PROVE OneList'
  <2>1. CASE VoUpdate(m)
    BY <2>1 DEF VoUpdate, VoNoHand, VoHandOf, voTable, voBegun, voFloor
  <2>2. CASE VoReadMembers(m)
    <3> SUFFICES ASSUME voStale' = {} PROVE OneList'
      BY DEF OneList
    <3>1. VoNoLists /\ voAt' = voAt
      BY <2>2 DEF VoReadMembers
    <3>2. (\A n \in 1..VoMaxMove : ~Holds(n)) /\ (\A d \in VoCallers : ~Lists(d))
      BY <3>1 DEF VoNoLists, VoHandLists, VoJoinLists
    <3>3. \A n \in 1..VoMaxMove : n # m => voHand'[n] = voHand[n]
      BY <2>2 DEF VoReadMembers
    <3>4. (\A n \in 1..VoMaxMove : Holds(n)' => n = m) /\ (\A d \in VoCallers : ~Lists(d)')
      BY <3>1, <3>2, <3>3
    <3> QED
      BY <3>4
  <2>3. CASE VoWriteMembers(m)
    <3>1. voAt' = voAt /\ \A n \in 1..VoMaxMove : Holds(n)' => Holds(n) /\ n # m
      BY <2>3 DEF VoWriteMembers, VoNoHand, VoHandOf
    <3>2. CASE voStale = {}
      BY <3>1, <3>2 DEF OneList
    <3>3. CASE VoHandLists = {m} /\ VoJoinLists = {}
      <4>1. \A n \in 1..VoMaxMove : Holds(n) => n = m
        BY <3>3 DEF VoHandLists
      <4>2. \A d \in VoCallers : ~Lists(d)
        BY <3>3 DEF VoJoinLists
      <4> QED
        BY <3>1, <4>1, <4>2
    <3>4. CASE voStale # {} /\ ~(VoHandLists = {m} /\ VoJoinLists = {})
      <4>1. voStale' # {}
        BY <2>3, <3>4 DEF VoWriteMembers
      <4> QED
        BY <4>1
    <3> QED
      BY <3>2, <3>3, <3>4
  <2>4. CASE VoUpdateFails(m)
    BY <2>4 DEF VoUpdateFails, VoNoHand, VoHandOf, voTable, voBegun, voFloor
  <2> QED
    BY <1>7, <2>1, <2>2, <2>3, <2>4
<1>8. CASE VoCrash BY <1>8 DEF VoCrash, VoSpend, VoRest, VoNoHand, VoHandOf, voBegun
<1> HIDE DEF VoPut, OneList, Holds, Lists, Sorts, FloorTypes
<1> QED
  BY <1>1, <1>2, <1>3, <1>4, <1>5, <1>6, <1>7, <1>8 DEF VoNext, VoCall, VoEvent,
     VoSpeechStopped, VoStates

\* A step leaves the lists alone when no list, place, channel or handler changes, no
\* session comes into the table and no Join begins to list.
QuietStep ==
  /\ UNCHANGED <<voMembers, voChan, voPlace, voHand, voStale>> /\ voCur' \in {voCur, 0}
  /\ \A c \in VoCallers : Lists(c)' => Lists(c) /\ voMine'[c] = voMine[c]

LEMMA QuietLists ==
  ASSUME ListsHonest, QuietStep
  PROVE  ListsHonest'
<1>1. \A ch : Coming(ch)' = Coming(ch)
  BY DEF QuietStep, Coming, ComesBy
<1>2. \A list, ch : Listed(list, ch)' = Listed(list, ch)
  BY <1>1 DEF QuietStep, Listed, VoOccupants
<1>3. \A m \in 1..VoMaxMove : Holds(m)' = Holds(m)
  BY DEF QuietStep, Holds
<1> QED
  BY <1>2, <1>3 DEF QuietStep, ListsHonest

\* Every step keeps the lists honest.
LEMMA ListsStep ==
  ASSUME ListsHonest, OneList, VoTypeOK, FloorTypes, Sorts, InHand, [VoNext]_voVars
  PROVE  ListsHonest'
<1>0. voMade \in Nat /\ voCur \in 0..voMade
  BY DEF Sorts
<1>1. CASE UNCHANGED voVars
  <2>1. QuietStep
    BY <1>1 DEF QuietStep, Lists, voVars, voTable, voBegun, voFloor
  <2> QED
    BY <2>1, QuietLists
<1>2. ASSUME NEW c \in VoCallers, VoCall(c) PROVE ListsHonest'
  <2>1. ASSUME NEW ch \in VoChannels, VoJoin(c, ch) PROVE ListsHonest'
    <3>1. UNCHANGED <<voMembers, voPlace, voHand, voStale, voCur>>
      BY <2>1 DEF VoJoin, voTable, voFloor
    <3>2. \A s \in 1..voMade : voChan'[s] = voChan[s]
      BY <2>1 DEF VoJoin, VoPut, Sorts, VoTypeOK
    <3>3. \A d \in VoCallers : Lists(d)' => Lists(d) /\ voMine'[d] = voMine[d] /\ voMine[d] \in 1..voMade
      BY <2>1 DEF VoJoin, VoPut, Lists, InHand, Joining, Sorts
    <3>4. voCur # 0 => voCur \in 1..voMade
      BY DEF Sorts
    <3>5. \A list, k : Listed(list, k)' = Listed(list, k)
      BY <3>1 DEF Listed, Coming, ComesBy, VoOccupants
    <3>6. \A m \in 1..VoMaxMove : Holds(m)' = Holds(m)
      BY <3>1 DEF Holds
    <3> QED
      BY <3>1, <3>2, <3>3, <3>4, <3>5, <3>6 DEF ListsHonest
  <2>2. CASE VoConnect(c)
    <3> SUFFICES ASSUME voStale' = {} PROVE ListsHonest'
      BY DEF ListsHonest
    <3>1. UNCHANGED <<voCur, voPlace, voHand, voChan, voMine>> /\ voStale = {}
      BY <2>2 DEF VoConnect, voBegun
    <3>2. /\ \A m \in 1..VoMaxMove : ~Holds(m)
          /\ \A d \in VoCallers : ~Lists(d)
      BY <2>2 DEF VoConnect, VoNoLists, VoHandLists, VoJoinLists, Holds, Lists
    <3>3. \A m \in 1..VoMaxMove : ~Holds(m)' /\ voHand'[m].at # "write"
      BY <3>1, <3>2 DEF Holds
    <3>4. \A d \in VoCallers : Lists(d)' => d = c
      BY <2>2, <3>2 DEF VoConnect, VoPut, Lists, Sorts
    <3>5. voMine[c] \in VoIds /\ voMine[c] # voCur
      <4>1. voMine[c] \in (1..voMade) \ voStarted
        BY <2>2 DEF VoConnect, InHand, Joining
      <4>2. voCur = 0 \/ voCur \in voStarted
        BY DEF InHand
      <4>3. voMade \in 0..VoMaxSession
        BY DEF Sorts
      <4> QED
        BY <4>1, <4>2, <4>3, VoAssumption DEF VoIds
    <3>6. voMembers' = [voMembers EXCEPT ![voMine[c]] = VoOccupants(voChan[voMine[c]])]
      BY <2>2 DEF VoConnect, VoPut
    <3>7. \A list, ch : Listed(list, ch)' = Listed(list, ch)
      BY <3>1 DEF Listed, Coming, ComesBy, VoOccupants
    <3>8. Listed(VoOccupants(voChan[voMine[c]]), voChan[voMine[c]])
      BY DEF Listed
    <3>9. voMembers'[voMine[c]] = VoOccupants(voChan[voMine[c]]) /\ voMembers'[voCur] = voMembers[voCur]
      BY <3>5, <3>6 DEF VoTypeOK
    <3> QED
      BY <3>1, <3>2, <3>3, <3>4, <3>7, <3>8, <3>9 DEF ListsHonest
  <2>3. CASE VoJoinFails(c)
    <3>1. QuietStep
      BY <2>3 DEF QuietStep, Lists, VoPut, Sorts, VoJoinFails, voTable, voBegun, voFloor
    <3> QED
      BY <3>1, QuietLists
  <2>4. CASE VoInsert(c)
    <3>1. QuietStep
      BY <2>4 DEF QuietStep, Lists, VoPut, Sorts, VoInsert, voTable, voBegun, voFloor
    <3> QED
      BY <3>1, QuietLists
  <2>5. CASE VoStart(c)
    <3> SUFFICES ASSUME voStale' = {} PROVE ListsHonest'
      BY DEF ListsHonest
    <3>1. UNCHANGED <<voMembers, voPlace, voHand, voChan>> /\ voStale = {} /\ voCur' = voMine[c]
      BY <2>5 DEF VoStart, voFloor
    <3>2. Lists(c)
      BY <2>5 DEF VoStart, Lists
    <3>3. \A m \in 1..VoMaxMove : ~Holds(m)' /\ voHand'[m].at # "write"
      BY <3>1, <3>2 DEF OneList, Holds
    <3>4. \A d \in VoCallers : ~Lists(d)'
      BY <2>5, <3>1, <3>2 DEF VoStart, VoPut, OneList, Lists, Sorts
    <3>5. Listed(voMembers[voCur], voChan[voCur])'
      <4>1. Listed(voMembers[voMine[c]], voChan[voMine[c]])
        BY <3>1, <3>2 DEF ListsHonest
      <4>2. \A list, ch : Listed(list, ch)' = Listed(list, ch)
        BY <3>1 DEF Listed, Coming, ComesBy, VoOccupants
      <4> QED
        BY <3>1, <4>1, <4>2
    <3> QED
      BY <3>1, <3>3, <3>4, <3>5 DEF ListsHonest
  <2>6. CASE VoLeave(c)
    <3>1. QuietStep
      BY <2>6 DEF QuietStep, Lists, VoPut, Sorts, VoLeave, VoIdle, VoSpend, VoWrites, VoRest,
         voTable, voBegun, voFloor
    <3> QED
      BY <3>1, QuietLists
  <2>7. CASE VoPart(c)
    <3>1. QuietStep
      BY <2>7 DEF QuietStep, Lists, VoPut, Sorts, VoPart, voTable, voBegun, voFloor
    <3> QED
      BY <3>1, QuietLists
  <2>8. CASE VoPartFails(c)
    <3>1. QuietStep
      BY <2>8 DEF QuietStep, Lists, VoPut, Sorts, VoPartFails, voTable, voBegun, voFloor
    <3> QED
      BY <3>1, QuietLists
  <2>9. CASE VoCancel(c)
    <3>1. QuietStep
      BY <2>9 DEF QuietStep, Lists, VoPut, Sorts, VoCancel, voTable, voBegun, voFloor
    <3> QED
      BY <3>1, QuietLists
  <2>10. CASE VoDelete(c)
    <3>1. QuietStep
      BY <2>10 DEF QuietStep, Lists, VoPut, Sorts, VoDelete, voTable, voBegun, voFloor
    <3> QED
      BY <3>1, QuietLists
  <2>11. CASE VoEnd(c)
    <3>1. QuietStep
      BY <2>11 DEF QuietStep, Lists, VoPut, Sorts, VoEnd, voTable, voBegun, voFloor
    <3> QED
      BY <3>1, QuietLists
  <2>12. CASE VoInterrupt(c)
    <3>1. QuietStep
      BY <2>12 DEF QuietStep, Lists, VoPut, Sorts, VoInterrupt, VoIdle, VoSpend, VoWrites,
         VoRest, voTable, voBegun, voFloor
    <3> QED
      BY <3>1, QuietLists
  <2> QED
    BY <1>2, <2>1, <2>2, <2>3, <2>4, <2>5, <2>6, <2>7, <2>8, <2>9, <2>10, <2>11,
       <2>12 DEF VoCall
<1>3. ASSUME NEW a \in VoActors, VoSetState(a) \/ VoUpsert(a) \/ VoUpsertFails(a)
      PROVE ListsHonest'
  <2>1. CASE VoSetState(a)
    <3>1. QuietStep
      BY <2>1 DEF QuietStep, Lists, VoPut, VoSetState, voTable, voBegun, voFloor
    <3> QED
      BY <3>1, QuietLists
  <2>2. CASE VoUpsert(a)
    <3>1. QuietStep
      BY <2>2 DEF QuietStep, Lists, VoPut, VoUpsert, voTable, voBegun, voFloor
    <3> QED
      BY <3>1, QuietLists
  <2>3. CASE VoUpsertFails(a)
    <3>1. QuietStep
      BY <2>3 DEF QuietStep, Lists, VoPut, VoUpsertFails, voTable, voBegun, voFloor
    <3> QED
      BY <3>1, QuietLists
  <2> QED
    BY <1>3, <2>1, <2>2, <2>3
<1>4. ASSUME NEW s \in VoIds, NEW state \in VoStates, VoHandle(s, state) PROVE ListsHonest'
  <2>1. QuietStep
    BY <1>4 DEF QuietStep, Lists, VoHandle, VoSpend, VoWrites, voTable, voBegun, voFloor
  <2> QED
    BY <2>1, QuietLists
<1>5. ASSUME NEW s \in VoIds, NEW known \in BOOLEAN, VoPacket(s, known) PROVE ListsHonest'
  <2>1. QuietStep
    BY <1>5 DEF QuietStep, Lists, VoPacket, VoSpend, VoWrites, voTable, voBegun, voFloor
  <2> QED
    BY <2>1, QuietLists
<1>6. ASSUME NEW p \in VoPeople, NEW ch \in VoChannels \cup {VoNone}, VoMove(p, ch)
      PROVE ListsHonest'
  <2>1. UNCHANGED <<voMembers, voChan, voStale, voCur, voAt, voMine>>
    BY <1>6 DEF VoMove, voTable, voBegun
  <2>2. voMoves + 1 \in 1..VoMaxMove /\ voHand[voMoves + 1].at = "none"
    BY <1>6, VoAssumption DEF VoMove, VoSpend, FloorTypes, VoTypeOK, Sorts
  <2>3. /\ voHand'[voMoves + 1].at = "new" /\ voHand'[voMoves + 1].to = ch
        /\ \A m \in 1..VoMaxMove : m # voMoves + 1 => voHand'[m] = voHand[m]
    BY <1>6, <2>2 DEF VoMove, VoPut, VoHandOf, FloorTypes
  <2>4. \A k : Coming(k) => Coming(k)'
    BY <2>2, <2>3 DEF Coming, ComesBy
  <2>5. Coming(ch)'
    BY <2>2, <2>3 DEF Coming, ComesBy
  <2>6. \A k : k # ch => VoOccupants(k)' \subseteq VoOccupants(k)
    BY <1>6 DEF VoMove, VoPut, VoOccupants, VoTypeOK
  <2>7. \A list, k : Listed(list, k) => Listed(list, k)'
    BY <2>4, <2>5, <2>6 DEF Listed
  <2>8. \A m \in 1..VoMaxMove : Holds(m)' = Holds(m) /\ (Holds(m) => voHand'[m] = voHand[m])
    BY <2>2, <2>3 DEF Holds
  <2>9. \A c \in VoCallers : Lists(c)' = Lists(c)
    BY <2>1 DEF Lists
  <2> QED
    BY <2>1, <2>7, <2>8, <2>9 DEF ListsHonest
<1>7. ASSUME NEW m \in 1..VoMaxMove,
             VoUpdate(m) \/ VoUpdateFails(m) \/ VoReadMembers(m) \/ VoWriteMembers(m)
      PROVE ListsHonest'
  <2> SUFFICES ASSUME voStale' = {} PROVE ListsHonest'
    BY DEF ListsHonest
  <2>1. CASE VoUpdate(m) \/ VoUpdateFails(m)
    <3>1. UNCHANGED <<voMembers, voChan, voCur, voPlace, voAt, voMine>> /\ voStale = {}
      BY <2>1 DEF VoUpdate, VoUpdateFails, voTable, voBegun
    <3>2. /\ ~Holds(m) /\ voHand'[m].at # "write"
          /\ \A n \in 1..VoMaxMove : n # m => voHand'[n] = voHand[n]
      <4>1. CASE VoUpdate(m)
        BY <4>1 DEF VoUpdate, VoPut, VoHandOf, VoNoHand, FloorTypes, Holds
      <4>2. CASE VoUpdateFails(m)
        BY <4>2 DEF VoUpdateFails, VoPut, VoHandOf, VoNoHand, FloorTypes, Holds
      <4> QED
        BY <2>1, <4>1, <4>2
    <3>3. ASSUME NEW k \in VoWatched, Coming(k) PROVE Coming(k)'
      <4>1. PICK n \in 1..VoMaxMove : ComesBy(voHand[n], k)
        BY <3>3 DEF Coming
      <4>2. CASE n # m BY <3>2, <4>1, <4>2 DEF Coming
      <4>3. CASE n = m /\ VoUpdate(m)
        <5>1. voHand[m].at = "new" /\ voHand[m].to = k /\ ~VoMissed(m)
          BY <3>1, <4>1, <4>3 DEF VoUpdate, ComesBy
        <5>2. VoShown = k
          BY <3>3, <5>1 DEF VoMissed
        <5>3. VoShown # VoNone
          <6>1. PICK s \in ({voCur} \ {0}) \cup {voMine[c] : c \in VoJoinLists} : k = voChan[s]
            BY <3>3 DEF VoWatched
          <6>2. s \in 1..voMade
            BY <6>1 DEF VoJoinLists, InHand, Joining, Sorts
          <6> QED
            BY <5>2, <6>1, <6>2, VoAssumption DEF FloorTypes
        <5>4. VoConcerns(m)
          BY <5>1, <5>2, <5>3 DEF VoConcerns
        <5>5. voHand'[m].at = "read" /\ voHand'[m].chan = VoShown
          BY <4>3, <5>4 DEF VoUpdate, VoPut, VoHandOf, FloorTypes
        <5> QED
          BY <5>2, <5>5 DEF Coming, ComesBy
      <4>4. CASE n = m /\ VoUpdateFails(m)
        BY <3>1, <3>3, <4>1, <4>4 DEF VoUpdateFails, ComesBy
      <4> QED
        BY <2>1, <4>2, <4>3, <4>4
    <3>4. ASSUME NEW list, NEW k \in VoWatched, Listed(list, k) PROVE Listed(list, k)'
      BY <3>1, <3>3, <3>4 DEF Listed, VoOccupants
    <3>5. voCur # 0 => voChan[voCur] \in VoWatched
      BY DEF VoWatched
    <3>6. \A c \in VoCallers : Lists(c) => voChan[voMine[c]] \in VoWatched
      BY DEF VoWatched, VoJoinLists, Lists
    <3>7. \A n \in 1..VoMaxMove : Holds(n)' = Holds(n) /\ (Holds(n) => voHand'[n] = voHand[n])
      BY <3>2 DEF Holds
    <3>8. \A c \in VoCallers : Lists(c)' = Lists(c)
      BY <3>1 DEF Lists
    <3>9. ASSUME voCur # 0
          PROVE  /\ \A n \in 1..VoMaxMove : Holds(n) /\ voHand[n].chan = voChan[voCur]
                                         => Listed(voHand[n].list, voChan[voCur])'
                 /\ \/ Listed(voMembers[voCur], voChan[voCur])'
                    \/ \E n \in 1..VoMaxMove : Holds(n) /\ voHand[n].chan = voChan[voCur]
      BY <3>1, <3>4, <3>5, <3>7, <3>9 DEF ListsHonest
    <3>10. \A c \in VoCallers : Lists(c) => Listed(voMembers[voMine[c]], voChan[voMine[c]])'
      BY <3>1, <3>4, <3>6 DEF ListsHonest
    <3> QED
      BY <3>1, <3>7, <3>8, <3>9, <3>10 DEF ListsHonest
  <2>2. CASE VoReadMembers(m)
    <3>1. UNCHANGED <<voMembers, voChan, voCur, voPlace, voAt, voMine>> /\ voStale = {} /\ VoNoLists
      BY <2>2 DEF VoReadMembers, voTable, voBegun
    <3>2. /\ voHand'[m].at = "write" /\ voHand'[m].chan = voHand[m].chan
          /\ voHand'[m].list = VoOccupants(voHand[m].chan)
          /\ \A n \in 1..VoMaxMove : n # m => voHand'[n] = voHand[n]
      BY <2>2 DEF VoReadMembers, VoPut, VoHandOf, FloorTypes
    <3>3. (\A n \in 1..VoMaxMove : ~Holds(n)) /\ (\A d \in VoCallers : ~Lists(d)')
      BY <3>1 DEF VoNoLists, VoHandLists, VoJoinLists, Holds, Lists
    <3>4. \A n \in 1..VoMaxMove : Holds(n)' => n = m
      BY <3>2, <3>3 DEF Holds
    <3>5. Holds(m)' /\ Listed(voHand[m].list, voHand[m].chan)'
      BY <3>1, <3>2 DEF Holds, Listed, VoOccupants
    <3>6. ASSUME voCur # 0, voHand[m].chan # voChan[voCur]
          PROVE  Listed(voMembers[voCur], voChan[voCur])'
      <4>1. Listed(voMembers[voCur], voChan[voCur])
        BY <3>1, <3>3, <3>6 DEF ListsHonest
      <4>2. voHand[m].at = "read"
        BY <2>2 DEF VoReadMembers
      <4>3. Coming(voChan[voCur]) => Coming(voChan[voCur])'
        BY <3>1, <3>2, <3>6, <4>2 DEF Coming, ComesBy
      <4> QED
        BY <3>1, <4>1, <4>3 DEF Listed, VoOccupants
    <3> QED
      BY <3>1, <3>2, <3>3, <3>4, <3>5, <3>6 DEF ListsHonest
  <2>3. CASE VoWriteMembers(m)
    <3>1. UNCHANGED <<voChan, voCur, voPlace, voAt, voMine>> /\ Holds(m)
      BY <2>3 DEF VoWriteMembers, voBegun, Holds
    <3>2. /\ voHand'[m].at = "none"
          /\ \A n \in 1..VoMaxMove : n # m => voHand'[n] = voHand[n]
      BY <2>3 DEF VoWriteMembers, VoPut, VoHandOf, VoNoHand, FloorTypes
    <3>3. (\A n \in 1..VoMaxMove : ~Holds(n)') /\ (\A d \in VoCallers : ~Lists(d)')
      <4>1. CASE VoHandLists = {m} /\ VoJoinLists = {}
        <5>1. (\A n \in 1..VoMaxMove : Holds(n) => n = m) /\ (\A d \in VoCallers : ~Lists(d))
          BY <4>1 DEF VoHandLists, VoJoinLists, Holds, Lists
        <5> QED
          BY <3>1, <3>2, <5>1 DEF Holds, Lists
      <4>2. CASE ~(VoHandLists = {m} /\ VoJoinLists = {})
        <5>1. voStale = {}
          BY <2>3, <4>2 DEF VoWriteMembers
        <5> QED
          BY <3>1, <3>2, <5>1 DEF OneList, Holds, Lists
      <4> QED
        BY <4>1, <4>2
    <3>4. \A k : Coming(k) => Coming(k)'
      BY <3>1, <3>2 DEF Coming, ComesBy, Holds
    <3>5. ASSUME voCur # 0 PROVE Listed(voMembers[voCur], voChan[voCur])'
      <4>1. voCur \in VoIds
        BY <3>5, VoAssumption DEF VoIds, Sorts
      <4>2. voMembers'[voCur] = voHand[m].list
        BY <2>3, <3>5, <4>1 DEF VoWriteMembers, VoPut, VoTypeOK
      <4>3. voHand[m].chan = voChan[voCur]
        BY <2>3, <3>5 DEF VoWriteMembers
      <4>4. voHand[m].list = VoOccupants(voHand[m].chan) \/ voStale = {}
        BY <2>3 DEF VoWriteMembers
      <4>5. Listed(voHand[m].list, voChan[voCur])
        BY <3>1, <3>5, <4>3, <4>4 DEF ListsHonest, Listed
      <4> QED
        BY <3>1, <3>4, <4>2, <4>5 DEF Listed, VoOccupants
    <3> QED
      BY <3>1, <3>3, <3>5 DEF ListsHonest
  <2> QED
    BY <1>7, <2>1, <2>2, <2>3
<1>8. CASE VoCrash
  <2> SUFFICES ASSUME voStale' = {} PROVE ListsHonest'
    BY DEF ListsHonest
  <2>1. voCur' = 0 /\ \A m \in 1..VoMaxMove : voHand'[m].at = "none"
    BY <1>8 DEF VoCrash, VoNoHand, VoHandOf
  <2>2. \A c \in VoCallers : voAt'[c] = "idle"
    BY <1>8 DEF VoCrash
  <2> QED
    BY <2>1, <2>2 DEF ListsHonest, Holds, Lists
<1> QED
  BY <1>1, <1>2, <1>3, <1>4, <1>5, <1>6, <1>7, <1>8 DEF VoNext, VoCall, VoEvent,
     VoSpeechStopped, VoStates

\* The initial state satisfies what the members rest on.
LEMMA InitFloor == VoInit => FloorInv
<1> SUFFICES ASSUME VoInit PROVE FloorInv
  OBVIOUS
<1> USE VoAssumption DEF VoInit, VoKinds, VoIds
<1>1. VoTypeOK
  <2>1. \A a \in VoActors : voPen[a].at = "rest" /\ voPen[a].state = "listening" /\ voPen[a].row = 0
    BY DEF VoRest
  <2>2. voMembers \in [VoIds -> SUBSET VoPeople] /\ voMoves \in 0..VoMaxMove
    OBVIOUS
  <2>3. voChan \in [VoIds -> VoChannels \cup {VoNone}] /\ voIn \in VoChannels \cup {VoNone}
    OBVIOUS
  <2>4. voAt \in [VoCallers -> {"idle", "connect", "insert", "start", "part", "cancel", "delete", "end"}]
    OBVIOUS
  <2>5. voMine \in [VoCallers -> 0..VoMaxSession] /\ voCur \in 0..voMade /\ voMade \in 0..VoMaxSession
    OBVIOUS
  <2>6. voState \in [VoIds -> VoStates] /\ voRow \in [VoIds -> {"none", "open", "ended"}]
    BY DEF VoStates
  <2>7. voWhy \in [VoIds -> SUBSET {"replaced", "stolen", "late", "unended", "crash"}]
    OBVIOUS
  <2>8. voStarted \subseteq 1..voMade /\ voGone \subseteq 1..voMade /\ voStale \subseteq {"overlap", "missed", "failed", "astray"}
    OBVIOUS
  <2>9. voPlace \in [VoPeople -> VoChannels \cup {VoNone}]
    OBVIOUS
  <2>10. "listening" \in VoStates /\ 0 \in 0..VoMaxSession
    BY DEF VoStates
  <2> HIDE DEF VoInit, VoKinds, VoIds
  <2> QED
    BY <2>1, <2>2, <2>3, <2>4, <2>5, <2>6, <2>7, <2>8, <2>9, <2>10 DEF VoTypeOK
<1>2. FloorTypes /\ OneList
  BY DEF FloorTypes, VoNoHand, VoHandOf, OneList, Holds, Lists
<1>3. ListsHonest
  BY DEF ListsHonest, Holds, Lists, VoNoHand, VoHandOf
<1> QED
  BY <1>1, <1>2, <1>3 DEF FloorInv

\* It always holds.
LEMMA FloorAlways == VoSpec => []FloorInv
<1>1. VoInv /\ FloorInv /\ [VoNext]_voVars => FloorInv'
  BY TypeStep, FloorTypesStep, OneListStep, ListsStep DEF VoInv, FloorInv
<1> QED
  BY InitFloor, VoInvAlways, <1>1, PTL DEF VoSpec

\* Every variable of the voice engine keeps its type.
THEOREM EngineTypeCorrect == VoSpec => []VoTypeOK
<1>1. FloorInv => VoTypeOK
  BY DEF FloorInv
<1> QED
  BY FloorAlways, <1>1, PTL

\* With every update handled and none of the four causes met since the last list that was
\* right, no guest in the channel is taken for the owner.
THEOREM GuestIsNotOwner == VoSpec => []VoGuestNotOwner
<1>1. FloorInv => VoGuestNotOwner
  <2> SUFFICES ASSUME FloorInv, voCur # 0, voStale = {}, \A m \in 1..VoMaxMove : voHand[m].at = "none",
                      VoOwnerAlone(voCur), NEW g \in VoOccupants(voChan[voCur]) \cap VoGuests
               PROVE  FALSE
    BY DEF VoGuestNotOwner
  <2>1. VoOccupants(voChan[voCur]) \subseteq voMembers[voCur]
    BY DEF FloorInv, ListsHonest, Listed, Coming, ComesBy, Holds
  <2> QED
    BY <2>1, VoAssumption DEF VoOwnerAlone
<1> QED
  BY FloorAlways, <1>1, PTL

-----------------------------------------------------------------------------
\* In the composition each step is one of the part that the behaviour picked, and leaves
\* the packets, the client or the engine alone otherwise: what is proved of each holds of
\* the composition.
THEOREM VoicePartsHold == VoiceSpec => PkSpec /\ RtSpec /\ VoSpec
<1>1. VoiceInit => PkInit /\ RtInit /\ VoInit
  BY DEF VoiceInit
<1>2. [VoiceNext]_<<pkVars, rtVars, voVars, part>> => [PkNext]_pkVars /\ [RtNext]_rtVars /\ [VoNext]_voVars
  BY DEF VoiceNext
<1> QED
  BY <1>1, <1>2, PTL DEF VoiceSpec, PkSpec, RtSpec, VoSpec

\* The variables of all three have their types: the callers' places in the code of
\* voice_audio.go, realtime.go and engine.go, and the data those calls carry.
THEOREM VoiceTypeCorrect == VoiceSpec => []VoiceTypeOK
<1>1. PkTypeOK /\ RtTypeOK /\ VoTypeOK => VoiceTypeOK
  BY DEF VoiceTypeOK
<1> QED
  BY <1>1, VoicePartsHold, PacketTypes, ClientTypeCorrect, EngineTypeCorrect, PTL
=============================================================================
