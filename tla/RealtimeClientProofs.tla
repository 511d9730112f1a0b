------------------------ MODULE RealtimeClientProofs ------------------------
(***************************************************************************)
(* For every number of callers, configurations, connections and losses:    *)
(* the types of RealtimeClient, RtLossIsOwn, RtCurrentIsRead and           *)
(* RtCleanMeansTold.                                                       *)
(***************************************************************************)
EXTENDS RealtimeClient, TLAPS, SequenceTheorems

\* What the server says that the client acts on.
Messages == {RtSay("created", RtDefault), RtSay("refused", RtNone)}

\* What is on its way, and what a loop handles, is one of these.
MessagesKnown ==
  /\ rtWire \in [RtConns -> Seq(Messages)]
  /\ DOMAIN rtMsg = RtConns
  /\ \A l \in RtConns : rtLoop[l] = "handle" => rtMsg[l] \in Messages
  /\ \A l \in RtConns : rtLoop[l] \in {"read", "handle"} => rtReads[l] # 0

\* The types of the callers,
CallTypes ==
  /\ rtAt \in [RtCallers -> {"idle", "check", "dial", "publish", "ensure", "pick", "write", "clean"}]
  /\ rtInner \in [RtCallers -> BOOLEAN] /\ rtHold \in [RtCallers -> 0..RtMaxDial]
  /\ DOMAIN rtEvent = RtCallers

\* and of what the client and the loops keep.
ClientTypes ==
  /\ rtConn \in 0..RtMaxDial /\ rtConfig \in RtConfigs \cup {RtNone}
  /\ rtDirty \in BOOLEAN /\ rtLegacy \in BOOLEAN
  /\ rtLoop \in [RtConns -> {"none", "new", "read", "handle", "gone"}]
  /\ rtReads \in [RtConns -> 0..RtMaxDial]
  /\ rtLive \subseteq RtConns /\ rtShut \subseteq RtConns
  /\ rtTold \in RtConfigs \cup {RtNone} /\ rtMet \in BOOLEAN /\ rtRaced \in BOOLEAN

\* An update carries a configuration.
EventsTrue ==
  \A c \in RtCallers :
    /\ rtEvent[c].kind = "update" => rtEvent[c].cfg \in RtConfigs
    /\ rtAt[c] = "clean" => rtEvent[c].kind = "update"

\* writeMu is held from the write of an update to the clearing of the mark.
WriterHolds ==
  /\ \A c \in RtCallers : c \in rtWriter <=> rtAt[c] = "clean"
  /\ \A c, d \in RtCallers : rtAt[c] = "clean" /\ rtAt[d] = "clean" => c = d

\* A connection that was dialled is its caller's alone until it is published.
DialsOwn ==
  /\ rtDials \in 0..RtMaxDial /\ rtConn <= rtDials
  /\ \A c \in RtCallers :
       /\ rtHold[c] <= rtDials
       /\ rtAt[c] \in {"publish", "write", "clean"} => rtHold[c] # 0
       /\ rtAt[c] = "publish" => /\ rtHold[c] # rtConn
                                 /\ \A d \in RtCallers : d # c => rtHold[d] # rtHold[c]

\* Who is about to clear the mark has told the connection in place, if that is the one it
\* wrote to.
CleanerTold ==
  \A c \in RtCallers : rtAt[c] = "clean" /\ rtHold[c] = rtConn => rtTold = rtEvent[c].cfg

\* The inductive invariant.
RtInv ==
  /\ CallTypes /\ ClientTypes /\ MessagesKnown /\ EventsTrue /\ WriterHolds /\ DialsOwn
  /\ CleanerTold /\ RtCurrentIsRead /\ RtCleanMeansTold

-----------------------------------------------------------------------------
(* The queues of messages. *)

\* What is read is a message, and so is what remains.
LEMMA ReadFacts ==
  ASSUME ClientTypes, MessagesKnown, NEW l \in RtConns, RtLoopRead(l)
  PROVE  /\ rtReads[l] \in RtConns
         /\ Head(rtWire[rtReads[l]]) \in Messages /\ Tail(rtWire[rtReads[l]]) \in Seq(Messages)
<1>1. rtReads[l] \in RtConns
  BY RtAssumption DEF ClientTypes, MessagesKnown, RtLoopRead, RtConns
<1>2. rtWire[rtReads[l]] \in Seq(Messages) /\ rtWire[rtReads[l]] # <<>>
  BY <1>1 DEF MessagesKnown, RtLoopRead
<1> QED
  BY <1>1, <1>2, HeadTailProperties

\* What a server answers is no more than a message.
LEMMA AnswerFacts ==
  ASSUME NEW s \in Seq(Messages), NEW e
  PROVE  s \o RtAnswer(e) \in Seq(Messages)
<1>1. RtSay("refused", RtNone) \in Messages
  BY DEF Messages
<1>2. RtAnswer(e) \in Seq(Messages)
  BY <1>1, EmptySeq DEF RtAnswer
<1> QED
  BY <1>2, ConcatProperties

\* A message that is handled marks a configuration that is set.
LEMMA CompatFacts ==
  ASSUME RtAssumption, ClientTypes, NEW m \in Messages, RtCompat(m)
  PROVE  rtDirty' \in BOOLEAN /\ rtLegacy' \in BOOLEAN /\ (rtConfig # RtNone => rtDirty' = TRUE)
<1>1. CASE m = RtSay("created", RtDefault)
  BY <1>1, RtAssumption DEF RtCompat, RtReconcile, RtSay, ClientTypes
<1>2. CASE m = RtSay("refused", RtNone) BY <1>2 DEF RtCompat, RtRefused, RtSay, ClientTypes
<1> QED
  BY <1>1, <1>2 DEF Messages

-----------------------------------------------------------------------------
(* The steps, one lemma for each conjunct. *)

\* Every step keeps the types of the callers,
LEMMA CallTypesStep ==
  ASSUME CallTypes, ClientTypes, DialsOwn, [RtNext]_rtVars
  PROVE  CallTypes'
<1> USE RtAssumption DEF RtPut, rtCall, rtSession, rtLoops, rtNet, rtPlace, RtPlace, RtReturn,
      RtSent, RtForget, RtConnected, RtSpend, RtConns, CallTypes, ClientTypes, DialsOwn
<1>1. CASE UNCHANGED rtVars BY <1>1 DEF rtVars
<1>2. ASSUME NEW c \in RtCallers, NEW cfg \in RtConfigs, RtConfigure(c, cfg)
      PROVE  CallTypes'
  BY <1>2 DEF RtConfigure, RtUpdate, RtFlat, RtNested
<1>3. ASSUME NEW c \in RtCallers,
             \/ RtOperate(c) \/ RtCheck(c) \/ RtDial(c) \/ RtDialFails(c) \/ RtPublish(c)
             \/ RtEnsure(c) \/ RtPick(c) \/ RtWrite(c) \/ RtWriteFails(c) \/ RtClean(c)
      PROVE  CallTypes'
  <2>1. CASE RtOperate(c) BY <2>1 DEF RtOperate, RtRequest
  <2>2. CASE RtCheck(c) BY <2>2 DEF RtCheck
  <2>3. CASE RtDial(c) BY <2>3 DEF RtDial
  <2>4. CASE RtDialFails(c) BY <2>4 DEF RtDialFails, RtRequest
  <2>5. CASE RtPublish(c) BY <2>5 DEF RtPublish
  <2>6. CASE RtEnsure(c) BY <2>6 DEF RtEnsure, RtUpdate, RtFlat, RtNested
  <2>7. CASE RtPick(c)
    <3>1. rtAt' \in [RtCallers -> {"idle", "check", "dial", "publish", "ensure", "pick", "write", "clean"}]
      <4>1. PICK p \in {"write", "pick", "idle"} : rtAt' = [rtAt EXCEPT ![c] = p]
        BY <2>7 DEF RtPick
      <4> QED
        BY <4>1
    <3>2. rtInner' \in [RtCallers -> BOOLEAN]
      BY <2>7 DEF RtPick, RtRequest
    <3>3. rtHold' \in [RtCallers -> 0..RtMaxDial]
      <4>1. CASE rtConn = 0 BY <2>7, <4>1 DEF RtPick
      <4>2. CASE rtConn # 0 BY <2>7, <4>2 DEF RtPick
      <4> QED
        BY <4>1, <4>2
    <3>4. DOMAIN rtEvent' = RtCallers
      BY <2>7 DEF RtPick, RtRequest
    <3> QED
      BY <3>1, <3>2, <3>3, <3>4
  <2>8. CASE RtWrite(c)
    <3>1. PICK p \in {"clean", "pick", "idle"} : rtAt' = [rtAt EXCEPT ![c] = p]
      BY <2>8 DEF RtWrite
    <3>2. rtAt' \in [RtCallers -> {"idle", "check", "dial", "publish", "ensure", "pick", "write", "clean"}]
      BY <3>1
    <3>3. rtInner' \in [RtCallers -> BOOLEAN]
      BY <2>8 DEF RtWrite
    <3>4. rtHold' = rtHold \/ rtHold' = [rtHold EXCEPT ![c] = 0]
      BY <2>8 DEF RtWrite
    <3>5. rtHold' \in [RtCallers -> 0..RtMaxDial]
      <4>1. 0 \in 0..RtMaxDial /\ rtHold \in [RtCallers -> 0..RtMaxDial]
        OBVIOUS
      <4> QED
        BY <3>4, <4>1
    <3>6. DOMAIN rtEvent' = RtCallers
      BY <2>8 DEF RtWrite
    <3> QED
      BY <3>2, <3>3, <3>5, <3>6
  <2>9. CASE RtWriteFails(c) BY <2>9 DEF RtWriteFails, RtRequest
  <2>10. CASE RtClean(c) BY <2>10 DEF RtClean, RtRequest, RtLate
  <2> QED
    BY <1>3, <2>1, <2>2, <2>3, <2>4, <2>5, <2>6, <2>7, <2>8, <2>9, <2>10
<1>4. CASE RtClose BY <1>4 DEF RtClose
<1>5. ASSUME NEW n \in RtConns,
             \/ RtServerGone(n) \/ RtLoopStart(n) \/ RtLoopRead(n) \/ RtLoopHandle(n)
             \/ RtLoopError(n)
      PROVE  CallTypes'
  <2>1. CASE RtServerGone(n) BY <2>1 DEF RtServerGone
  <2>2. CASE RtLoopStart(n) BY <2>2 DEF RtLoopStart
  <2>3. CASE RtLoopRead(n) BY <2>3 DEF RtLoopRead
  <2>4. CASE RtLoopHandle(n) BY <2>4 DEF RtLoopHandle
  <2>5. CASE RtLoopError(n) BY <2>5 DEF RtLoopError, RtLoopEnd
  <2> QED
    BY <1>5, <2>1, <2>2, <2>3, <2>4, <2>5
<1> HIDE DEF CallTypes, ClientTypes, DialsOwn
<1> QED
  BY <1>1, <1>2, <1>3, <1>4, <1>5 DEF RtNext

\* and those of the client and its loops.
LEMMA ClientTypesStep ==
  ASSUME CallTypes, ClientTypes, MessagesKnown, EventsTrue, DialsOwn, [RtNext]_rtVars
  PROVE  ClientTypes'
<1> USE RtAssumption DEF RtPut, rtCall, rtSession, rtLoops, rtNet, rtPlace, RtPlace, RtReturn,
      RtSent, RtForget, RtConnected, RtSpend, RtConns, CallTypes, ClientTypes, EventsTrue,
      DialsOwn
<1>1. CASE UNCHANGED rtVars BY <1>1 DEF rtVars
<1>2. ASSUME NEW c \in RtCallers, NEW cfg \in RtConfigs, RtConfigure(c, cfg)
      PROVE  ClientTypes'
  BY <1>2 DEF RtConfigure, RtUpdate, RtFlat, RtNested
<1>3. ASSUME NEW c \in RtCallers,
             \/ RtOperate(c) \/ RtCheck(c) \/ RtDial(c) \/ RtDialFails(c) \/ RtPublish(c)
             \/ RtEnsure(c) \/ RtPick(c) \/ RtWrite(c) \/ RtWriteFails(c) \/ RtClean(c)
      PROVE  ClientTypes'
  <2>1. CASE RtOperate(c) BY <2>1 DEF RtOperate, RtRequest
  <2>2. CASE RtCheck(c) BY <2>2 DEF RtCheck
  <2>3. CASE RtDial(c)
    <3>1. rtLive' \subseteq RtConns
      BY <2>3 DEF RtDial
    <3>2. UNCHANGED <<rtConn, rtTold, rtMet, rtShut, rtLoop, rtReads, rtRaced, rtConfig,
              rtDirty, rtLegacy>>
      BY <2>3 DEF RtDial
    <3> QED
      BY <3>1, <3>2
  <2>4. CASE RtDialFails(c) BY <2>4 DEF RtDialFails, RtRequest
  <2>5. CASE RtPublish(c) BY <2>5 DEF RtPublish
  <2>6. CASE RtEnsure(c) BY <2>6 DEF RtEnsure, RtUpdate, RtFlat, RtNested
  <2>7. CASE RtPick(c) BY <2>7 DEF RtPick, RtRequest
  <2>8. CASE RtWrite(c) BY <2>8 DEF RtWrite, RtRequest, RtLate
  <2>9. CASE RtWriteFails(c)
    <3>1. rtConn' \in 0..RtMaxDial
      BY <2>9 DEF RtWriteFails
    <3>2. rtTold' \in RtConfigs \cup {RtNone}
      BY <2>9 DEF RtWriteFails
    <3>3. rtMet' \in BOOLEAN
      BY <2>9 DEF RtWriteFails
    <3>4. UNCHANGED <<rtLive, rtShut, rtLoop, rtReads, rtRaced, rtConfig, rtDirty, rtLegacy>>
      BY <2>9 DEF RtWriteFails
    <3> QED
      BY <3>1, <3>2, <3>3, <3>4
  <2>10. CASE RtClean(c) BY <2>10 DEF RtClean, RtRequest, RtLate
  <2> QED
    BY <1>3, <2>1, <2>2, <2>3, <2>4, <2>5, <2>6, <2>7, <2>8, <2>9, <2>10
<1>4. CASE RtClose
  <2>1. rtConn' \in 0..RtMaxDial
    BY <1>4 DEF RtClose
  <2>2. rtTold' \in RtConfigs \cup {RtNone}
    BY <1>4 DEF RtClose
  <2>3. rtMet' \in BOOLEAN
    BY <1>4 DEF RtClose
  <2>4. rtShut' \subseteq RtConns
    BY <1>4 DEF RtClose
  <2>5. rtLive' \subseteq RtConns
    BY <1>4 DEF RtClose
  <2>6. UNCHANGED <<rtLoop, rtReads, rtRaced, rtConfig, rtDirty, rtLegacy>>
    BY <1>4 DEF RtClose
  <2> QED
    BY <2>1, <2>2, <2>3, <2>4, <2>5, <2>6
<1>5. ASSUME NEW n \in RtConns,
             \/ RtServerGone(n) \/ RtLoopStart(n) \/ RtLoopRead(n) \/ RtLoopHandle(n)
             \/ RtLoopError(n)
      PROVE  ClientTypes'
  <2>1. CASE RtServerGone(n) BY <2>1 DEF RtServerGone
  <2>2. CASE RtLoopStart(n) BY <2>2 DEF RtLoopStart
  <2>3. CASE RtLoopRead(n) BY <2>3 DEF RtLoopRead
  <2>4. CASE RtLoopHandle(n)
    <3>1. rtMsg[n] \in Messages
      BY <2>4 DEF RtLoopHandle, MessagesKnown
    <3>2. rtDirty' \in BOOLEAN /\ rtLegacy' \in BOOLEAN
      BY <2>4, <3>1, CompatFacts DEF RtLoopHandle
    <3>3. rtLoop' \in [RtConns -> {"none", "new", "read", "handle", "gone"}] /\ rtMet' \in BOOLEAN
      BY <2>4 DEF RtLoopHandle
    <3>4. UNCHANGED <<rtConn, rtConfig, rtReads, rtLive, rtShut, rtTold, rtRaced>>
      BY <2>4 DEF RtLoopHandle
    <3> QED
      BY <3>2, <3>3, <3>4
  <2>5. CASE RtLoopError(n)
    <3>1. rtConn' \in 0..RtMaxDial
      BY <2>5 DEF RtLoopError, RtLoopEnd
    <3>2. rtTold' \in RtConfigs \cup {RtNone}
      BY <2>5 DEF RtLoopError, RtLoopEnd
    <3>3. rtMet' \in BOOLEAN
      BY <2>5 DEF RtLoopError, RtLoopEnd
    <3>4. rtLoop' \in [RtConns -> {"none", "new", "read", "handle", "gone"}]
      BY <2>5 DEF RtLoopError, RtLoopEnd
    <3>5. rtReads' \in [RtConns -> 0..RtMaxDial]
      BY <2>5 DEF RtLoopError, RtLoopEnd
    <3>6. UNCHANGED <<rtLive, rtShut, rtRaced, rtConfig, rtDirty, rtLegacy>>
      BY <2>5 DEF RtLoopError, RtLoopEnd
    <3> QED
      BY <3>1, <3>2, <3>3, <3>4, <3>5, <3>6
  <2> QED
    BY <1>5, <2>1, <2>2, <2>3, <2>4, <2>5
<1> HIDE DEF CallTypes, ClientTypes, EventsTrue, DialsOwn
<1> QED
  BY <1>1, <1>2, <1>3, <1>4, <1>5 DEF RtNext

\* The server says nothing else.
LEMMA MessagesStep ==
  ASSUME CallTypes, ClientTypes, MessagesKnown, [RtNext]_rtVars
  PROVE  MessagesKnown'
<1> USE RtAssumption DEF RtPut, rtCall, rtSession, rtLoops, rtNet, rtPlace, RtPlace, RtReturn,
      RtSent, RtForget, RtConnected, RtSpend, RtConns, CallTypes, ClientTypes, MessagesKnown
<1>1. CASE UNCHANGED rtVars BY <1>1 DEF rtVars
<1>2. ASSUME NEW c \in RtCallers, NEW cfg \in RtConfigs, RtConfigure(c, cfg)
      PROVE  MessagesKnown'
  BY <1>2 DEF RtConfigure, RtUpdate, RtFlat, RtNested
<1>3. ASSUME NEW c \in RtCallers,
             \/ RtOperate(c) \/ RtCheck(c) \/ RtDial(c) \/ RtDialFails(c) \/ RtPublish(c)
             \/ RtEnsure(c) \/ RtPick(c) \/ RtWrite(c) \/ RtWriteFails(c) \/ RtClean(c)
      PROVE  MessagesKnown'
  <2>1. CASE RtOperate(c) BY <2>1 DEF RtOperate, RtRequest
  <2>2. CASE RtCheck(c) BY <2>2 DEF RtCheck
  <2>3. CASE RtDial(c)
    <3>1. <<RtSay("created", RtDefault)>> \in Seq(Messages)
      BY DEF Messages
    <3>2. rtWire' = [rtWire EXCEPT ![rtDials + 1] = <<RtSay("created", RtDefault)>>] /\ UNCHANGED rtLoops
      BY <2>3 DEF RtDial
    <3> QED
      BY <3>1, <3>2
  <2>4. CASE RtDialFails(c) BY <2>4 DEF RtDialFails, RtRequest
  <2>5. CASE RtPublish(c) BY <2>5 DEF RtPublish
  <2>6. CASE RtEnsure(c) BY <2>6 DEF RtEnsure, RtUpdate, RtFlat, RtNested
  <2>7. CASE RtPick(c) BY <2>7 DEF RtPick, RtRequest
  <2>8. CASE RtWrite(c)
    <3>1. rtWire' = rtWire
          \/ rtWire' = [rtWire EXCEPT ![rtHold[c]] = rtWire[rtHold[c]] \o RtAnswer(rtEvent[c])]
      BY <2>8 DEF RtWrite
    <3>2. rtHold[c] \in RtConns => rtWire[rtHold[c]] \o RtAnswer(rtEvent[c]) \in Seq(Messages)
      BY AnswerFacts
    <3>3. rtWire' \in [RtConns -> Seq(Messages)]
      BY <3>1, <3>2
    <3> QED
      BY <2>8, <3>3 DEF RtWrite
  <2>9. CASE RtWriteFails(c) BY <2>9 DEF RtWriteFails, RtRequest
  <2>10. CASE RtClean(c) BY <2>10 DEF RtClean, RtRequest, RtLate
  <2> QED
    BY <1>3, <2>1, <2>2, <2>3, <2>4, <2>5, <2>6, <2>7, <2>8, <2>9, <2>10
<1>4. CASE RtClose
  <2>1. <<>> \in Seq(Messages)
    BY EmptySeq
  <2>2. rtWire' = [rtWire EXCEPT ![rtConn] = <<>>] /\ UNCHANGED rtLoops
    BY <1>4 DEF RtClose
  <2> QED
    BY <2>1, <2>2
<1>5. ASSUME NEW n \in RtConns,
             \/ RtServerGone(n) \/ RtLoopStart(n) \/ RtLoopRead(n) \/ RtLoopHandle(n)
             \/ RtLoopError(n)
      PROVE  MessagesKnown'
  <2>1. CASE RtServerGone(n) BY <2>1 DEF RtServerGone
  <2>2. CASE RtLoopStart(n) BY <2>2 DEF RtLoopStart
  <2>3. CASE RtLoopRead(n)
    <3>1. /\ rtReads[n] \in RtConns
          /\ Head(rtWire[rtReads[n]]) \in Messages /\ Tail(rtWire[rtReads[n]]) \in Seq(Messages)
      BY <2>3, ReadFacts
    <3>2. /\ rtMsg' = [rtMsg EXCEPT ![n] = Head(rtWire[rtReads[n]])]
          /\ rtWire' = [rtWire EXCEPT ![rtReads[n]] = Tail(rtWire[rtReads[n]])]
          /\ rtLoop' = [rtLoop EXCEPT ![n] = "handle"] /\ UNCHANGED rtReads
      BY <2>3 DEF RtLoopRead
    <3> QED
      BY <2>3, <3>1, <3>2 DEF RtLoopRead
  <2>4. CASE RtLoopHandle(n) BY <2>4 DEF RtLoopHandle
  <2>5. CASE RtLoopError(n) BY <2>5 DEF RtLoopError, RtLoopEnd
  <2> QED
    BY <1>5, <2>1, <2>2, <2>3, <2>4, <2>5
<1> HIDE DEF CallTypes, ClientTypes, MessagesKnown
<1> QED
  BY <1>1, <1>2, <1>3, <1>4, <1>5 DEF RtNext

\* An update is made of a configuration that is set.
LEMMA EventsStep ==
  ASSUME CallTypes, ClientTypes, EventsTrue, [RtNext]_rtVars
  PROVE  EventsTrue'
<1> USE RtAssumption DEF RtPut, rtCall, rtSession, rtLoops, rtNet, rtPlace, RtPlace, RtReturn,
      RtSent, RtForget, RtConnected, RtSpend, RtConns, CallTypes, ClientTypes, EventsTrue
<1>1. CASE UNCHANGED rtVars BY <1>1 DEF rtVars
<1>2. ASSUME NEW c \in RtCallers, NEW cfg \in RtConfigs, RtConfigure(c, cfg)
      PROVE  EventsTrue'
  BY <1>2 DEF RtConfigure, RtUpdate, RtFlat, RtNested
<1>3. ASSUME NEW c \in RtCallers,
             \/ RtOperate(c) \/ RtCheck(c) \/ RtDial(c) \/ RtDialFails(c) \/ RtPublish(c)
             \/ RtEnsure(c) \/ RtPick(c) \/ RtWrite(c) \/ RtWriteFails(c) \/ RtClean(c)
      PROVE  EventsTrue'
  <2>1. CASE RtOperate(c) BY <2>1 DEF RtOperate, RtRequest
  <2>2. CASE RtCheck(c) BY <2>2 DEF RtCheck
  <2>3. CASE RtDial(c) BY <2>3 DEF RtDial
  <2>4. CASE RtDialFails(c) BY <2>4 DEF RtDialFails, RtRequest
  <2>5. CASE RtPublish(c) BY <2>5 DEF RtPublish
  <2>6. CASE RtEnsure(c) BY <2>6 DEF RtEnsure, RtUpdate, RtFlat, RtNested
  <2>7. CASE RtPick(c)
    <3>1. rtEvent' = rtEvent \/ rtEvent' = [rtEvent EXCEPT ![c] = RtRequest]
      BY <2>7 DEF RtPick
    <3>2. /\ rtAt'[c] # "clean" /\ \A d \in RtCallers : d # c => rtAt'[d] = rtAt[d]
      BY <2>7 DEF RtPick
    <3>3. RtRequest.kind # "update"
      BY DEF RtRequest
    <3> QED
      BY <3>1, <3>2, <3>3
  <2>8. CASE RtWrite(c) BY <2>8 DEF RtWrite, RtRequest, RtLate
  <2>9. CASE RtWriteFails(c) BY <2>9 DEF RtWriteFails, RtRequest
  <2>10. CASE RtClean(c) BY <2>10 DEF RtClean, RtRequest, RtLate
  <2> QED
    BY <1>3, <2>1, <2>2, <2>3, <2>4, <2>5, <2>6, <2>7, <2>8, <2>9, <2>10
<1>4. CASE RtClose BY <1>4 DEF RtClose
<1>5. ASSUME NEW n \in RtConns,
             \/ RtServerGone(n) \/ RtLoopStart(n) \/ RtLoopRead(n) \/ RtLoopHandle(n)
             \/ RtLoopError(n)
      PROVE  EventsTrue'
  <2>1. CASE RtServerGone(n) BY <2>1 DEF RtServerGone
  <2>2. CASE RtLoopStart(n) BY <2>2 DEF RtLoopStart
  <2>3. CASE RtLoopRead(n) BY <2>3 DEF RtLoopRead
  <2>4. CASE RtLoopHandle(n) BY <2>4 DEF RtLoopHandle
  <2>5. CASE RtLoopError(n) BY <2>5 DEF RtLoopError, RtLoopEnd
  <2> QED
    BY <1>5, <2>1, <2>2, <2>3, <2>4, <2>5
<1> HIDE DEF CallTypes, ClientTypes, EventsTrue
<1> QED
  BY <1>1, <1>2, <1>3, <1>4, <1>5 DEF RtNext

\* A write begins when nobody else is at one.
LEMMA WriterStep ==
  ASSUME CallTypes, EventsTrue, WriterHolds, [RtNext]_rtVars
  PROVE  WriterHolds'
<1> USE RtAssumption DEF RtPut, rtCall, rtSession, rtLoops, rtNet, rtPlace, RtPlace, RtReturn,
      RtSent, RtForget, RtConnected, RtSpend, RtConns, CallTypes, WriterHolds
<1>1. CASE UNCHANGED rtVars BY <1>1 DEF rtVars
<1>2. ASSUME NEW c \in RtCallers, NEW cfg \in RtConfigs, RtConfigure(c, cfg)
      PROVE  WriterHolds'
  BY <1>2 DEF RtConfigure, RtUpdate, RtFlat, RtNested
<1>3. ASSUME NEW c \in RtCallers,
             \/ RtOperate(c) \/ RtCheck(c) \/ RtDial(c) \/ RtDialFails(c) \/ RtPublish(c)
             \/ RtEnsure(c) \/ RtPick(c) \/ RtWrite(c) \/ RtWriteFails(c) \/ RtClean(c)
      PROVE  WriterHolds'
  <2>1. CASE RtOperate(c) BY <2>1 DEF RtOperate, RtRequest
  <2>2. CASE RtCheck(c) BY <2>2 DEF RtCheck
  <2>3. CASE RtDial(c) BY <2>3 DEF RtDial
  <2>4. CASE RtDialFails(c) BY <2>4 DEF RtDialFails, RtRequest
  <2>5. CASE RtPublish(c) BY <2>5 DEF RtPublish
  <2>6. CASE RtEnsure(c) BY <2>6 DEF RtEnsure, RtUpdate, RtFlat, RtNested
  <2>7. CASE RtPick(c) BY <2>7 DEF RtPick, RtRequest
  <2>8. CASE RtWrite(c) BY <2>8 DEF RtWrite, RtRequest, RtLate
  <2>9. CASE RtWriteFails(c) BY <2>9 DEF RtWriteFails, RtRequest
  <2>10. CASE RtClean(c) BY <2>10 DEF RtClean, RtRequest, RtLate
  <2> QED
    BY <1>3, <2>1, <2>2, <2>3, <2>4, <2>5, <2>6, <2>7, <2>8, <2>9, <2>10
<1>4. CASE RtClose BY <1>4 DEF RtClose
<1>5. ASSUME NEW n \in RtConns,
             \/ RtServerGone(n) \/ RtLoopStart(n) \/ RtLoopRead(n) \/ RtLoopHandle(n)
             \/ RtLoopError(n)
      PROVE  WriterHolds'
  <2>1. CASE RtServerGone(n) BY <2>1 DEF RtServerGone
  <2>2. CASE RtLoopStart(n) BY <2>2 DEF RtLoopStart
  <2>3. CASE RtLoopRead(n) BY <2>3 DEF RtLoopRead
  <2>4. CASE RtLoopHandle(n) BY <2>4 DEF RtLoopHandle
  <2>5. CASE RtLoopError(n) BY <2>5 DEF RtLoopError, RtLoopEnd
  <2> QED
    BY <1>5, <2>1, <2>2, <2>3, <2>4, <2>5
<1> HIDE DEF CallTypes, WriterHolds
<1> QED
  BY <1>1, <1>2, <1>3, <1>4, <1>5 DEF RtNext

\* Dials are numbered, and published once.
LEMMA DialsStep ==
  ASSUME CallTypes, ClientTypes, DialsOwn, [RtNext]_rtVars
  PROVE  DialsOwn'
<1> USE RtAssumption DEF RtPut, rtCall, rtSession, rtLoops, rtNet, rtPlace, RtPlace, RtReturn,
      RtSent, RtForget, RtConnected, RtSpend, RtConns, CallTypes, ClientTypes, DialsOwn
<1>1. CASE UNCHANGED rtVars BY <1>1 DEF rtVars
<1>2. ASSUME NEW c \in RtCallers, NEW cfg \in RtConfigs, RtConfigure(c, cfg)
      PROVE  DialsOwn'
  BY <1>2 DEF RtConfigure, RtUpdate, RtFlat, RtNested
<1>3. ASSUME NEW c \in RtCallers,
             \/ RtOperate(c) \/ RtCheck(c) \/ RtDial(c) \/ RtDialFails(c) \/ RtPublish(c)
             \/ RtEnsure(c) \/ RtPick(c) \/ RtWrite(c) \/ RtWriteFails(c) \/ RtClean(c)
      PROVE  DialsOwn'
  <2>1. CASE RtOperate(c) BY <2>1 DEF RtOperate, RtRequest
  <2>2. CASE RtCheck(c) BY <2>2 DEF RtCheck
  <2>3. CASE RtDial(c) BY <2>3 DEF RtDial
  <2>4. CASE RtDialFails(c) BY <2>4 DEF RtDialFails, RtRequest
  <2>5. CASE RtPublish(c) BY <2>5 DEF RtPublish
  <2>6. CASE RtEnsure(c) BY <2>6 DEF RtEnsure, RtUpdate, RtFlat, RtNested
  <2>7. CASE RtPick(c)
    <3>1. UNCHANGED <<rtDials, rtConn>>
      BY <2>7 DEF RtPick
    <3>2. CASE rtConn = 0 BY <2>7, <3>1, <3>2 DEF RtPick
    <3>3. CASE rtConn # 0
      <4>1. rtHold' = [rtHold EXCEPT ![c] = rtConn] /\ rtAt' = [rtAt EXCEPT ![c] = "write"]
        BY <2>7, <3>3 DEF RtPick
      <4> QED
        BY <2>7, <3>1, <3>3, <4>1 DEF RtPick
    <3> QED
      BY <3>2, <3>3
  <2>8. CASE RtWrite(c) BY <2>8, SMTT(20) DEF RtWrite, RtRequest, RtLate
  <2>9. CASE RtWriteFails(c) BY <2>9 DEF RtWriteFails, RtRequest
  <2>10. CASE RtClean(c) BY <2>10 DEF RtClean, RtRequest, RtLate
  <2> QED
    BY <1>3, <2>1, <2>2, <2>3, <2>4, <2>5, <2>6, <2>7, <2>8, <2>9, <2>10
<1>4. CASE RtClose BY <1>4 DEF RtClose
<1>5. ASSUME NEW n \in RtConns,
             \/ RtServerGone(n) \/ RtLoopStart(n) \/ RtLoopRead(n) \/ RtLoopHandle(n)
             \/ RtLoopError(n)
      PROVE  DialsOwn'
  <2>1. CASE RtServerGone(n) BY <2>1 DEF RtServerGone
  <2>2. CASE RtLoopStart(n) BY <2>2 DEF RtLoopStart
  <2>3. CASE RtLoopRead(n) BY <2>3 DEF RtLoopRead
  <2>4. CASE RtLoopHandle(n) BY <2>4 DEF RtLoopHandle
  <2>5. CASE RtLoopError(n) BY <2>5 DEF RtLoopError, RtLoopEnd
  <2> QED
    BY <1>5, <2>1, <2>2, <2>3, <2>4, <2>5
<1> HIDE DEF CallTypes, ClientTypes, DialsOwn
<1> QED
  BY <1>1, <1>2, <1>3, <1>4, <1>5 DEF RtNext

\* Nobody else tells the connection anything before the mark is cleared.
LEMMA CleanerStep ==
  ASSUME CallTypes, ClientTypes, EventsTrue, WriterHolds, DialsOwn, CleanerTold, [RtNext]_rtVars
  PROVE  CleanerTold'
<1> USE RtAssumption DEF RtPut, rtCall, rtSession, rtLoops, rtNet, rtPlace, RtPlace, RtReturn,
      RtSent, RtForget, RtConnected, RtSpend, RtConns, CallTypes, ClientTypes, WriterHolds,
      DialsOwn, CleanerTold
<1>1. CASE UNCHANGED rtVars BY <1>1 DEF rtVars
<1>2. ASSUME NEW c \in RtCallers, NEW cfg \in RtConfigs, RtConfigure(c, cfg)
      PROVE  CleanerTold'
  BY <1>2 DEF RtConfigure, RtUpdate, RtFlat, RtNested
<1>3. ASSUME NEW c \in RtCallers,
             \/ RtOperate(c) \/ RtCheck(c) \/ RtDial(c) \/ RtDialFails(c) \/ RtPublish(c)
             \/ RtEnsure(c) \/ RtPick(c) \/ RtWrite(c) \/ RtWriteFails(c) \/ RtClean(c)
      PROVE  CleanerTold'
  <2>1. CASE RtOperate(c) BY <2>1 DEF RtOperate, RtRequest
  <2>2. CASE RtCheck(c) BY <2>2 DEF RtCheck
  <2>3. CASE RtDial(c) BY <2>3 DEF RtDial
  <2>4. CASE RtDialFails(c) BY <2>4 DEF RtDialFails, RtRequest
  <2>5. CASE RtPublish(c) BY <2>5 DEF RtPublish
  <2>6. CASE RtEnsure(c) BY <2>6 DEF RtEnsure, RtUpdate, RtFlat, RtNested
  <2>7. CASE RtPick(c) BY <2>7 DEF RtPick, RtRequest
  <2>8. CASE RtWrite(c) BY <2>8 DEF RtWrite, RtRequest, RtLate
  <2>9. CASE RtWriteFails(c) BY <2>9 DEF RtWriteFails, RtRequest
  <2>10. CASE RtClean(c) BY <2>10 DEF RtClean, RtRequest, RtLate
  <2> QED
    BY <1>3, <2>1, <2>2, <2>3, <2>4, <2>5, <2>6, <2>7, <2>8, <2>9, <2>10
<1>4. CASE RtClose BY <1>4 DEF RtClose
<1>5. ASSUME NEW n \in RtConns,
             \/ RtServerGone(n) \/ RtLoopStart(n) \/ RtLoopRead(n) \/ RtLoopHandle(n)
             \/ RtLoopError(n)
      PROVE  CleanerTold'
  <2>1. CASE RtServerGone(n) BY <2>1 DEF RtServerGone
  <2>2. CASE RtLoopStart(n) BY <2>2 DEF RtLoopStart
  <2>3. CASE RtLoopRead(n) BY <2>3 DEF RtLoopRead
  <2>4. CASE RtLoopHandle(n) BY <2>4 DEF RtLoopHandle
  <2>5. CASE RtLoopError(n) BY <2>5 DEF RtLoopError, RtLoopEnd
  <2> QED
    BY <1>5, <2>1, <2>2, <2>3, <2>4, <2>5
<1> HIDE DEF CallTypes, ClientTypes, WriterHolds, DialsOwn, CleanerTold
<1> QED
  BY <1>1, <1>2, <1>3, <1>4, <1>5 DEF RtNext

\* A loop that ends takes the connection it reads away, if that is in place.
LEMMA ReadStep ==
  ASSUME CallTypes, ClientTypes, MessagesKnown, DialsOwn, RtCurrentIsRead, [RtNext]_rtVars
  PROVE  RtCurrentIsRead'
<1> USE RtAssumption DEF RtPut, rtCall, rtSession, rtLoops, rtNet, rtPlace, RtPlace, RtReturn,
      RtSent, RtForget, RtConnected, RtSpend, RtConns, CallTypes, ClientTypes, MessagesKnown,
      DialsOwn, RtCurrentIsRead
<1>1. CASE UNCHANGED rtVars BY <1>1 DEF rtVars
<1>2. ASSUME NEW c \in RtCallers, NEW cfg \in RtConfigs, RtConfigure(c, cfg)
      PROVE  RtCurrentIsRead'
  BY <1>2 DEF RtConfigure, RtUpdate, RtFlat, RtNested
<1>3. ASSUME NEW c \in RtCallers,
             \/ RtOperate(c) \/ RtCheck(c) \/ RtDial(c) \/ RtDialFails(c) \/ RtPublish(c)
             \/ RtEnsure(c) \/ RtPick(c) \/ RtWrite(c) \/ RtWriteFails(c) \/ RtClean(c)
      PROVE  RtCurrentIsRead'
  <2>1. CASE RtOperate(c) BY <2>1 DEF RtOperate, RtRequest
  <2>2. CASE RtCheck(c) BY <2>2 DEF RtCheck
  <2>3. CASE RtDial(c) BY <2>3 DEF RtDial
  <2>4. CASE RtDialFails(c) BY <2>4 DEF RtDialFails, RtRequest
  <2>5. CASE RtPublish(c) BY <2>5 DEF RtPublish
  <2>6. CASE RtEnsure(c) BY <2>6 DEF RtEnsure, RtUpdate, RtFlat, RtNested
  <2>7. CASE RtPick(c) BY <2>7 DEF RtPick, RtRequest
  <2>8. CASE RtWrite(c) BY <2>8 DEF RtWrite, RtRequest, RtLate
  <2>9. CASE RtWriteFails(c) BY <2>9 DEF RtWriteFails, RtRequest
  <2>10. CASE RtClean(c) BY <2>10 DEF RtClean, RtRequest, RtLate
  <2> QED
    BY <1>3, <2>1, <2>2, <2>3, <2>4, <2>5, <2>6, <2>7, <2>8, <2>9, <2>10
<1>4. CASE RtClose BY <1>4 DEF RtClose
<1>5. ASSUME NEW n \in RtConns,
             \/ RtServerGone(n) \/ RtLoopStart(n) \/ RtLoopRead(n) \/ RtLoopHandle(n)
             \/ RtLoopError(n)
      PROVE  RtCurrentIsRead'
  <2>1. CASE RtServerGone(n) BY <2>1 DEF RtServerGone
  <2>2. CASE RtLoopStart(n) BY <2>2 DEF RtLoopStart
  <2>3. CASE RtLoopRead(n) BY <2>3 DEF RtLoopRead
  <2>4. CASE RtLoopHandle(n) BY <2>4 DEF RtLoopHandle
  <2>5. CASE RtLoopError(n) BY <2>5 DEF RtLoopError, RtLoopEnd
  <2> QED
    BY <1>5, <2>1, <2>2, <2>3, <2>4, <2>5
<1> HIDE DEF CallTypes, ClientTypes, MessagesKnown, DialsOwn, RtCurrentIsRead
<1> QED
  BY <1>1, <1>2, <1>3, <1>4, <1>5 DEF RtNext

\* The mark is set by a new configuration, a new session and a refusal.
LEMMA ToldStep ==
  ASSUME CallTypes, ClientTypes, MessagesKnown, EventsTrue, CleanerTold, RtCleanMeansTold,
         [RtNext]_rtVars
  PROVE  RtCleanMeansTold'
<1> USE RtAssumption DEF RtPut, rtCall, rtSession, rtLoops, rtNet, rtPlace, RtPlace, RtReturn,
      RtSent, RtForget, RtConnected, RtSpend, RtConns, CallTypes, ClientTypes, EventsTrue,
      CleanerTold, RtCleanMeansTold
<1>1. CASE UNCHANGED rtVars BY <1>1 DEF rtVars
<1>2. ASSUME NEW c \in RtCallers, NEW cfg \in RtConfigs, RtConfigure(c, cfg)
      PROVE  RtCleanMeansTold'
  BY <1>2 DEF RtConfigure, RtUpdate, RtFlat, RtNested
<1>3. ASSUME NEW c \in RtCallers,
             \/ RtOperate(c) \/ RtCheck(c) \/ RtDial(c) \/ RtDialFails(c) \/ RtPublish(c)
             \/ RtEnsure(c) \/ RtPick(c) \/ RtWrite(c) \/ RtWriteFails(c) \/ RtClean(c)
      PROVE  RtCleanMeansTold'
  <2>1. CASE RtOperate(c) BY <2>1 DEF RtOperate, RtRequest
  <2>2. CASE RtCheck(c) BY <2>2 DEF RtCheck
  <2>3. CASE RtDial(c) BY <2>3 DEF RtDial
  <2>4. CASE RtDialFails(c) BY <2>4 DEF RtDialFails, RtRequest
  <2>5. CASE RtPublish(c) BY <2>5 DEF RtPublish
  <2>6. CASE RtEnsure(c) BY <2>6 DEF RtEnsure, RtUpdate, RtFlat, RtNested
  <2>7. CASE RtPick(c) BY <2>7 DEF RtPick, RtRequest
  <2>8. CASE RtWrite(c) BY <2>8 DEF RtWrite, RtRequest, RtLate
  <2>9. CASE RtWriteFails(c) BY <2>9 DEF RtWriteFails, RtRequest
  <2>10. CASE RtClean(c) BY <2>10 DEF RtClean, RtRequest, RtLate
  <2> QED
    BY <1>3, <2>1, <2>2, <2>3, <2>4, <2>5, <2>6, <2>7, <2>8, <2>9, <2>10
<1>4. CASE RtClose BY <1>4 DEF RtClose
<1>5. ASSUME NEW n \in RtConns,
             \/ RtServerGone(n) \/ RtLoopStart(n) \/ RtLoopRead(n) \/ RtLoopHandle(n)
             \/ RtLoopError(n)
      PROVE  RtCleanMeansTold'
  <2>1. CASE RtServerGone(n) BY <2>1 DEF RtServerGone
  <2>2. CASE RtLoopStart(n) BY <2>2 DEF RtLoopStart
  <2>3. CASE RtLoopRead(n) BY <2>3 DEF RtLoopRead
  <2>4. CASE RtLoopHandle(n)
    <3>1. rtMsg[n] \in Messages
      BY <2>4 DEF RtLoopHandle, MessagesKnown
    <3>2. rtConfig # RtNone => rtDirty' = TRUE
      BY <2>4, <3>1, CompatFacts DEF RtLoopHandle
    <3> QED
      BY <2>4, <3>2 DEF RtLoopHandle
  <2>5. CASE RtLoopError(n) BY <2>5 DEF RtLoopError, RtLoopEnd
  <2> QED
    BY <1>5, <2>1, <2>2, <2>3, <2>4, <2>5
<1> HIDE DEF CallTypes, ClientTypes, EventsTrue, CleanerTold, RtCleanMeansTold
<1> QED
  BY <1>1, <1>2, <1>3, <1>4, <1>5 DEF RtNext

-----------------------------------------------------------------------------
(* The theorems. *)

\* A new client has no connection.
LEMMA RtInitInv == RtInit => RtInv
<1> SUFFICES ASSUME RtInit PROVE RtInv
  OBVIOUS
<1> USE RtAssumption DEF RtInit, RtConns
<1>1. 0 \in 0..RtMaxDial
  OBVIOUS
<1>2. CallTypes
  BY <1>1 DEF CallTypes
<1>3. ClientTypes
  BY <1>1 DEF ClientTypes
<1>4. rtWire \in [RtConns -> Seq(Messages)]
  BY EmptySeq
<1>5. MessagesKnown /\ EventsTrue
  BY <1>4 DEF MessagesKnown, EventsTrue, RtRequest
<1>6. WriterHolds /\ DialsOwn /\ CleanerTold
  BY <1>1 DEF WriterHolds, DialsOwn, CleanerTold
<1>7. RtCurrentIsRead /\ RtCleanMeansTold
  BY DEF RtCurrentIsRead, RtCleanMeansTold
<1> QED
  BY <1>2, <1>3, <1>5, <1>6, <1>7 DEF RtInv

\* Every step keeps the invariant.
LEMMA RtInvStep == RtInv /\ [RtNext]_rtVars => RtInv'
<1> SUFFICES ASSUME RtInv, [RtNext]_rtVars PROVE RtInv'
  OBVIOUS
<1> USE DEF RtInv
<1>1. CallTypes' /\ ClientTypes' /\ MessagesKnown' /\ EventsTrue'
  BY CallTypesStep, ClientTypesStep, MessagesStep, EventsStep
<1>2. WriterHolds' /\ DialsOwn' /\ CleanerTold'
  BY WriterStep, DialsStep, CleanerStep
<1>3. RtCurrentIsRead' /\ RtCleanMeansTold'
  BY ReadStep, ToldStep
<1> QED
  BY <1>1, <1>2, <1>3

\* So it always holds.
LEMMA RtInvAlways == RtSpec => []RtInv
BY RtInitInv, RtInvStep, PTL DEF RtSpec

\* The variables have their types.
THEOREM ClientTypeCorrect == RtSpec => []RtTypeOK
<1>1. RtInv => RtTypeOK
  BY DEF RtInv, RtTypeOK, CallTypes, ClientTypes, WriterHolds
<1> QED
  BY RtInvAlways, <1>1, PTL

\* Connect and readLoop: the connection in place has a reader, or one about to start.
THEOREM CurrentIsRead == RtSpec => []RtCurrentIsRead
<1>1. RtInv => RtCurrentIsRead
  BY DEF RtInv
<1> QED
  BY RtInvAlways, <1>1, PTL

\* send and handleProtocolCompatibility: a session that is not marked was told the
\* configuration in force, unless an update was late.
THEOREM CleanMeansTold == RtSpec => []RtCleanMeansTold
<1>1. RtInv => RtCleanMeansTold
  BY DEF RtInv
<1> QED
  BY RtInvAlways, <1>1, PTL

\* handleConnectionLoss compares the connections: only the end of the one in place, or
\* Close, takes it away.
THEOREM LossIsOwn == RtSpec => RtLossIsOwn
<1> DEFINE Lost == rtConn # 0 /\ rtConn' = 0
           Ended == rtConn \in rtShut' \/ rtConn \notin rtLive
<1>1. ASSUME RtInv, RtNext, Lost
      PROVE  Ended
  <2>1. ASSUME NEW c \in RtCallers, RtPublish(c) PROVE FALSE
    BY <1>1, <2>1 DEF RtPublish, RtPlace, RtInv, DialsOwn
  <2>2. ASSUME NEW c \in RtCallers, RtWriteFails(c) PROVE Ended
    BY <1>1, <2>2 DEF RtWriteFails, RtForget, RtPlace, rtPlace, rtNet
  <2>3. ASSUME NEW l \in RtConns, RtLoopError(l) PROVE Ended
    BY <1>1, <2>3 DEF RtLoopError, RtForget, RtPlace, rtPlace, rtNet
  <2>4. RtClose => Ended
    BY DEF RtClose
  <2>5. ASSUME NEW c \in RtCallers, NEW cfg \in RtConfigs, RtConfigure(c, cfg) PROVE FALSE
    BY <1>1, <2>5 DEF RtConfigure, rtPlace
  <2>6. ASSUME NEW c \in RtCallers,
               \/ RtOperate(c) \/ RtCheck(c) \/ RtDial(c) \/ RtDialFails(c)
               \/ RtEnsure(c) \/ RtPick(c) \/ RtWrite(c) \/ RtClean(c)
        PROVE  FALSE
    BY <1>1, <2>6 DEF RtOperate, RtCheck, RtDial, RtDialFails, RtEnsure, RtPick, RtWrite,
                      RtClean, rtPlace
  <2>7. ASSUME NEW n \in RtConns,
               RtServerGone(n) \/ RtLoopStart(n) \/ RtLoopRead(n) \/ RtLoopHandle(n)
        PROVE  FALSE
    BY <1>1, <2>7 DEF RtServerGone, RtLoopStart, RtLoopRead, RtLoopHandle, rtPlace
  <2> QED
    BY <1>1, <2>1, <2>2, <2>3, <2>4, <2>5, <2>6, <2>7 DEF RtNext
<1>2. RtInv /\ [RtNext]_rtVars => [Lost => Ended]_rtVars
  BY <1>1
<1> QED
  BY RtInvAlways, <1>2, PTL DEF RtSpec, RtLossIsOwn

=============================================================================
