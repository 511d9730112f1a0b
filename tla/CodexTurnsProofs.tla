--------------------------- MODULE CodexTurnsProofs ---------------------------
(***************************************************************************)
(* What CodexTurns says of turns, their results and their waiters holds    *)
(* for every number of callers, threads and deaths of the server: the      *)
(* types, OneLiveTurn, OwnResult, NoSilentWait, and that CodexTurns        *)
(* implements TurnContract (TurnsKeepContract).                            *)
(***************************************************************************)
EXTENDS CodexTurns, TLAPS, SequenceTheorems

\* Places before the request is written, places in runTurn, and kinds of messages.
Early        == {"new", "lock", "start", "write"}
Busy         == {"start", "write", "await", "register", "wait", "grace"}
EndKinds     == {"text", "interrupted", "error"}
Replies      == {"ok", "refused"}
MessageKinds == {"ok", "refused", "item", "text", "interrupted", "error"}

\* At position i of the inbox is the request to start the turn of c.
Asked(i, c) == inbox[i].kind = "start" /\ inbox[i].of = c

\* No request to start the turn of c is on its way to the server.
NoRequest(c) == \A i \in 1..Len(inbox) : ~Asked(i, c)

\* Nothing about c is on its way to the client.
Silent(c) == \A i \in 1..Len(net) : net[i].of # c

\* A caller in runTurn holds the lock of its thread.
LocksHeld == \A c \in Callers : pc[c] \in Busy => holder[ThreadOf[c]] = c

\* Before its request is written nothing of a turn exists.
FreshCalls ==
  \A c \in Callers : pc[c] \in Early =>
    /\ turn[c] = "none" /\ slot[c] = "empty" /\ box[c] \in {"empty", "lost"}
    /\ NoRequest(c) /\ Silent(c)
    /\ pc[c] # "write" => box[c] = "empty"

\* The pending map.
CallsPending ==
  \A c \in Callers :
    /\ c \in pending => pc[c] \in {"write", "await"} /\ box[c] # "lost"
    /\ pc[c] \in {"write", "await"} /\ box[c] = "empty" => c \in pending

\* A request to start a turn is written once, and nothing of the turn precedes it.
RequestsOnce ==
  \A c \in Callers : \A i \in 1..Len(inbox) : Asked(i, c) =>
    /\ turn[c] = "none" /\ box[c] \in {"empty", "lost"} /\ Silent(c)
    /\ \A j \in 1..Len(inbox) : Asked(j, c) => i = j

\* What a message says is so.
MessagesTrue ==
  \A i \in 1..Len(net) :
    /\ net[i].kind = "refused" => turn[net[i].of] = "none"
    /\ net[i].kind = "ok" => turn[net[i].of] # "none"
    /\ net[i].kind = "item" => turn[net[i].of] \notin {"none", "running"}
    /\ net[i].kind \in EndKinds => turn[net[i].of] = net[i].kind

\* The answer to turn/start precedes the messages of the turn.
AnswerFirst ==
  \A i, j \in 1..Len(net) :
    net[i].of = net[j].of /\ net[i].kind \in Replies /\ net[j].kind \notin Replies => i < j

\* A turn exists only when its caller was sent the answer to turn/start.
AnswerSent ==
  \A c \in Callers : pc[c] = "await" /\ box[c] = "empty" /\ turn[c] # "none" =>
    \E i \in 1..Len(net) : net[i].of = c /\ net[i].kind = "ok"

\* While the answer is on its way, so is the end of the turn.
EndFollows == \A i \in 1..Len(net) : net[i].kind = "ok" => EndOnItsWay(net[i].of)

\* What was read from the channel of a call is so.
AnswersTrue ==
  \A c \in Callers : /\ box[c] = "error" => turn[c] = "none"
                     /\ box[c] = "ok" => turn[c] # "none"

\* Callers that will never take a text from their waiter's channel any more.
Gone(c) == \/ Returned(c)
           \/ pc[c] = "grace"
           \/ pc[c] = "await" /\ box[c] = "lost"
           \/ pc[c] = "wait" /\ c \notin waiting

\* The agent message of a turn was heard, or missed, or is of no use any more.
Caught(c) == c \in heard \/ c \in missed \/ Gone(c)

\* The agent message is on its way, before position n.
ItemBefore(c, n) == \E i \in 1..Len(net) : i < n /\ net[i].of = c /\ net[i].kind = "item"

\* No text ends a turn whose agent message was not caught, unless it comes before.
ItemFirst ==
  \A c \in Callers :
    /\ turn[c] = "spoken" => Caught(c) \/ ItemBefore(c, Len(net) + 1)
    /\ \A j \in 1..Len(net) :
         net[j].of = c /\ net[j].kind = "text" => Caught(c) \/ ItemBefore(c, j)

\* The channel of a waiter holds the end of its own turn.
SlotsTrue ==
  \A c \in Callers :
    /\ slot[c] \in EndKinds => turn[c] = slot[c]
    /\ slot[c] = "text" => c \in heard \/ c \in missed \/ pc[c] # "wait"
    /\ slot[c] # "empty" => pc[c] \notin Early \cup {"await", "register"}

\* A waiter stays registered until it has something in its channel.
WaitersKept ==
  \A c \in Callers : /\ c \in waiting => pc[c] \in {"wait", "grace"}
                     /\ pc[c] = "wait" => c \in waiting \/ slot[c] # "empty"

\* Callers that wait for the end of a turn, or will wait when they have registered.
Waits(c) == \/ pc[c] = "await" /\ box[c] = "ok"
            \/ pc[c] = "register"
            \/ pc[c] = "wait" /\ slot[c] = "empty"

\* Something is still to come for those who wait.
WakeUp == \A c \in Callers : Waits(c) => c \in missed \/ EndOnItsWay(c)

\* A turn is over when its caller has returned, unless by its deadline or a loss.
ResultsFinal ==
  \A c \in Callers :
    /\ ~Returned(c) => result[c] = "none"
    /\ Returned(c) /\ result[c] \notin {"deadline", "lost"} =>
         turn[c] \notin Live /\ NoRequest(c)

\* The inductive invariant: the life of a call, of its turn and of their messages.
IInv == /\ TypeOK /\ LocksHeld /\ FreshCalls /\ CallsPending /\ RequestsOnce /\ MessagesTrue
        /\ AnswerFirst /\ AnswerSent /\ EndFollows /\ AnswersTrue /\ ItemFirst
        /\ SlotsTrue /\ WaitersKept /\ WakeUp /\ ResultsFinal /\ OwnResult

-----------------------------------------------------------------------------
(* Sequences, and what the steps do to the two of the model. *)

\* What is left of a sequence without its head.
LEMMA TailFacts ==
  ASSUME NEW S, NEW s \in Seq(S), s # <<>>
  PROVE  /\ Head(s) = s[1] /\ s[1] \in S /\ Tail(s) \in Seq(S)
         /\ Len(s) \in Nat /\ 1 <= Len(s) /\ Len(Tail(s)) = Len(s) - 1
         /\ \A i \in 1..Len(Tail(s)) : Tail(s)[i] = s[i + 1] /\ i + 1 \in 1..Len(s)
BY HeadTailProperties, ElementOfSeq, LenProperties

\* A sequence with one more element.
LEMMA AppendFacts ==
  ASSUME NEW S, NEW s \in Seq(S), NEW e \in S
  PROVE  /\ Append(s, e) \in Seq(S) /\ Len(s) \in Nat
         /\ Len(Append(s, e)) = Len(s) + 1 /\ Append(s, e)[Len(s) + 1] = e
         /\ \A i \in 1..Len(s) : Append(s, e)[i] = s[i]
BY AppendProperties, LenProperties

\* t is s without its first element; t is s with one more, of kind k and about c.
Popped(s, t) ==
  /\ Len(s) \in Nat /\ 1 \in 1..Len(s) /\ Len(t) = Len(s) - 1
  /\ \A i \in 1..Len(t) : t[i] = s[i + 1] /\ i + 1 \in 1..Len(s)
  /\ \A i \in 1..Len(s) : i # 1 => i - 1 \in 1..Len(t) /\ t[i - 1] = s[i]

Pushed(s, t, k, c) ==
  /\ Len(s) \in Nat /\ Len(t) = Len(s) + 1
  /\ t[Len(s) + 1].kind = k /\ t[Len(s) + 1].of = c
  /\ \A i \in 1..Len(s) : t[i] = s[i] /\ i \in 1..Len(t)
  /\ \A i \in 1..Len(t) : i = Len(s) + 1 \/ i \in 1..Len(s)

\* The messages on their way after a step of the read loop, and after one of the server.
LEMMA DeliverFacts ==
  ASSUME TypeOK, Deliver
  PROVE  Popped(net, net') /\ Head(net) = net[1] /\ net[1].of \in Callers
<1>1. net \in Seq(Messages) /\ net # <<>> /\ net' = Tail(net)
  BY DEF TypeOK, Deliver
<1>2. \A m \in Messages : m.of \in Callers
  BY DEF Messages
<1> QED
  BY <1>1, <1>2, TailFacts DEF Popped

\* The server adds one message.
LEMMA EmitFacts ==
  ASSUME TypeOK, NEW c \in Callers, NEW k \in MessageKinds, Emit(k, c)
  PROVE  Pushed(net, net', k, c)
<1>1. [kind |-> k, of |-> c] \in Messages
  BY DEF Messages, MessageKinds
<1> QED
  BY <1>1, AppendFacts DEF TypeOK, Emit, Pushed

\* The requests on their way after one is written, and after one is served.
LEMMA RequestFacts ==
  ASSUME TypeOK, NEW c \in Callers, NEW k \in {"start", "interrupt"}, Request(k, c)
  PROVE  Pushed(inbox, inbox', k, c)
<1>1. [kind |-> k, of |-> c] \in Requests
  BY DEF Requests
<1> QED
  BY <1>1, AppendFacts DEF TypeOK, Request, Pushed

\* The server takes the first request.
LEMMA ServeFacts ==
  ASSUME TypeOK, Serve
  PROVE  Popped(inbox, inbox') /\ Head(inbox) = inbox[1] /\ inbox[1].of \in Callers
<1>1. inbox \in Seq(Requests) /\ inbox # <<>> /\ inbox' = Tail(inbox)
  BY DEF TypeOK, Serve
<1>2. \A m \in Requests : m.of \in Callers
  BY DEF Requests
<1> QED
  BY <1>1, <1>2, TailFacts DEF Popped

\* A request that is written has the type of requests.
LEMMA RequestType ==
  ASSUME TypeOK, NEW c \in Callers, NEW k \in {"start", "interrupt"}, Request(k, c)
  PROVE  inbox' \in Seq(Requests)
BY AppendFacts DEF TypeOK, Request, Requests

\* A message that is sent has the type of messages.
LEMMA EmitType ==
  ASSUME TypeOK, NEW c \in Callers, NEW k \in MessageKinds,
         Emit(k, c)
  PROVE  net' \in Seq(Messages)
BY AppendFacts DEF TypeOK, Emit, Messages, MessageKinds

\* The return of runTurn keeps the types.
LEMMA ReturnType ==
  ASSUME TypeOK, NEW c \in Callers, NEW r \in Results, Return(c, r)
  PROVE  /\ pc' \in [Callers -> Steps] /\ holder' \in [Threads -> Callers \cup {None}]
         /\ result' \in [Callers -> Results]
         /\ pending' \subseteq Callers /\ waiting' \subseteq Callers
BY DEF TypeOK, Return, Goto, Unlocked, Steps

\* What is served or read has its type, and so has what remains.
LEMMA HeadTypes ==
  ASSUME TypeOK
  PROVE  /\ inbox # <<>> => Head(inbox) \in Requests /\ Tail(inbox) \in Seq(Requests)
         /\ net # <<>> => Head(net) \in Messages /\ Tail(net) \in Seq(Messages)
BY TailFacts DEF TypeOK

\* An end stays on its way when another message is read, and when a message is added.
LEMMA EndMoves ==
  ASSUME NEW e, EndOnItsWay(e), Popped(net, net'), UNCHANGED turn,
         ~(net[1].of = e /\ net[1].kind \in EndKinds)
  PROVE  EndOnItsWay(e)'
BY DEF EndOnItsWay, Popped, EndKinds

\* The end of a turn that lives stays on its way when a message is added.
LEMMA EndStays ==
  ASSUME NEW e, NEW k, NEW c, EndOnItsWay(e), Pushed(net, net', k, c),
         turn[e] \in Live => turn'[e] \in Live
  PROVE  EndOnItsWay(e)'
BY DEF EndOnItsWay, Pushed

\* So does an agent message, unless it is the one that is read.
LEMMA ItemMoves ==
  ASSUME NEW e, NEW n, ItemBefore(e, n), n \in Nat, Popped(net, net'),
         ~(net[1].of = e /\ net[1].kind = "item")
  PROVE  ItemBefore(e, n - 1)'
BY DEF ItemBefore, Popped

\* A message that is added comes after it.
LEMMA ItemStays ==
  ASSUME NEW e, NEW n, ItemBefore(e, n), NEW k, NEW c, Pushed(net, net', k, c)
  PROVE  ItemBefore(e, n)'
BY DEF ItemBefore, Pushed

\* The part of the types that the other conjuncts need.
Sorts ==
  /\ pc \in [Callers -> Steps] /\ box \in [Callers -> Answers] /\ slot \in [Callers -> Ends]
  /\ turn \in [Callers -> Turns] /\ result \in [Callers -> Results]
  /\ waiting \subseteq Callers /\ Len(net) \in Nat
  /\ \A i \in 1..Len(net) : net[i].of \in Callers

\* It follows from the types.
LEMMA SortsHold == TypeOK => Sorts
<1>1. \A m \in Messages : m.of \in Callers
  BY DEF Messages
<1> QED
  BY <1>1, ElementOfSeq, LenProperties DEF TypeOK, Sorts

-----------------------------------------------------------------------------
(* The steps, one lemma for each conjunct. *)

\* Every step keeps the types.
LEMMA TypeStep ==
  ASSUME TypeOK, [Next]_vars
  PROVE  TypeOK'
<1> USE TurnsAssumption DEF Goto, Request, Return, Unlocked, Emit, caller, client, server,
      link, Early, Busy, EndKinds, Replies, Live, TypeOK, Steps, Answers, Ends, Results, Turns,
      Requests, Messages
<1>1. CASE UNCHANGED vars BY <1>1 DEF vars
<1>2. ASSUME NEW c \in Callers, Run(c) \/ Expire(c) \/ Speak(c) PROVE TypeOK'
  <2>1. CASE Arrive(c)
    <3>1. inbox' \in Seq(Requests)
      <4>1. CASE UNCHANGED inbox BY <4>1
      <4>2. ASSUME NEW w \in Callers, Request("interrupt", w) PROVE inbox' \in Seq(Requests)
        BY <4>2, RequestType
      <4> QED
        BY <2>1, <4>1, <4>2 DEF Arrive, ActiveOn
    <3>2. pc' \in [Callers -> Steps]
      BY <2>1 DEF Arrive
    <3> HIDE DEF Request
    <3> QED
      BY <2>1, <3>1, <3>2 DEF Arrive
  <2>2. CASE Lock(c) BY <2>2 DEF Lock
  <2>3. CASE StartTurn(c) BY <2>3 DEF StartTurn, Bound
  <2>4. CASE WriteStart(c)
    <3>1. CASE Request("start", c) /\ Goto(c, "await") /\ UNCHANGED <<holder, result, pending,
       waiting>>
      <4>1. inbox' \in Seq(Requests)
        BY <3>1, RequestType
      <4> QED
        BY <2>4, <3>1, <4>1 DEF WriteStart
    <3>2. CASE Return(c, "lost") /\ UNCHANGED inbox BY <2>4, <3>2, ReturnType DEF WriteStart
    <3> QED
      BY <2>4, <3>1, <3>2 DEF WriteStart
  <2>5. CASE AwaitStart(c)
    <3>1. CASE box[c] = "ok" /\ pending' = pending \ {c} /\ Goto(c,
       "register") /\ UNCHANGED <<holder, result, waiting>>
      BY <2>5, <3>1 DEF AwaitStart
    <3>2. ASSUME NEW r \in {"error", "lost", "deadline"}, Return(c, r) PROVE TypeOK'
      <4> HIDE DEF Return
      <4> QED
        BY <2>5, <3>2, ReturnType DEF AwaitStart
    <3> QED
      BY <2>5, <3>1, <3>2 DEF AwaitStart
  <2>6. CASE Register(c) BY <2>6 DEF Register
  <2>7. CASE AwaitTurn(c)
    <3>1. CASE slot[c] # "empty" /\ Return(c, Outcome(c)) /\ UNCHANGED inbox
      <4>1. Outcome(c) \in Results
        BY <3>1 DEF Outcome
      <4> HIDE DEF Return
      <4> QED
        BY <2>7, <3>1, <4>1, ReturnType DEF AwaitTurn
    <3>2. CASE Goto(c, "grace") /\ UNCHANGED <<holder, result, pending, waiting>>
      <4>1. CASE Request("interrupt", c) BY <2>7, <3>2, <4>1, RequestType DEF AwaitTurn
      <4>2. CASE UNCHANGED inbox BY <2>7, <3>2, <4>2 DEF AwaitTurn
      <4> QED
        BY <2>7, <3>2, <4>1, <4>2 DEF AwaitTurn
    <3> QED
      BY <2>7, <3>1, <3>2 DEF AwaitTurn
  <2>8. CASE AwaitGrace(c)
    <3>1. ASSUME NEW r \in {"interrupted", "error", "lost", "deadline"}, Return(c, r)
          PROVE TypeOK'
      <4> HIDE DEF Return
      <4> QED
        BY <2>8, <3>1, ReturnType DEF AwaitGrace
    <3> QED
      BY <2>8, <3>1 DEF AwaitGrace
  <2>9. CASE Reply(c) BY <2>9 DEF Reply
  <2>10. CASE Expire(c) BY <2>10 DEF Expire
  <2>11. CASE Speak(c) BY <2>11 DEF Speak
  <2> QED
    BY <1>2, <2>1, <2>2, <2>3, <2>4, <2>5, <2>6, <2>7, <2>8, <2>9, <2>10, <2>11 DEF Run
<1>3. ASSUME NEW c \in Callers, NEW end \in EndKinds, Finish(c, end) PROVE TypeOK'
  BY <1>3 DEF Finish
<1>4. CASE Deliver
  <2>1. CASE DeliverAnswer(Head(net)) BY <1>4, <2>1 DEF Deliver, DeliverAnswer
  <2>2. CASE DeliverItem(Head(net))
    <3>1. net' \in Seq(Messages) /\ Head(net) \in Messages
      BY <1>4, HeadTypes DEF Deliver
    <3>2. /\ missed' \subseteq Callers /\ heard' \subseteq Callers
          /\ slot' \in [Callers -> Ends] /\ box' \in [Callers -> Answers]
      BY <1>4, <2>2, <3>1 DEF DeliverItem, Miss
    <3> QED
      BY <1>4, <3>1, <3>2 DEF Deliver
  <2>3. CASE DeliverEnd(Head(net))
    <3>1. net' \in Seq(Messages) /\ Head(net) \in Messages
      BY <1>4, HeadTypes DEF Deliver
    <3>2. missed' \subseteq Callers /\ UNCHANGED <<heard, box>>
      BY <1>4, <2>3, <3>1 DEF DeliverEnd, Miss
    <3>3. slot' \in [Callers -> Ends]
      BY <1>4, <2>3, <3>1 DEF DeliverEnd
    <3> QED
      BY <1>4, <3>1, <3>2, <3>3 DEF Deliver
  <2> QED
    BY <1>4, <2>1, <2>2, <2>3 DEF Deliver
<1>5. CASE Serve
  <2>1. CASE Head(inbox).kind = "start" /\ ServeStart(Head(inbox).of) /\ UNCHANGED stopping
    <3>1. inbox' \in Seq(Requests) /\ Head(inbox).of \in Callers
      BY <1>5, HeadTypes DEF Serve
    <3>2. net' \in Seq(Messages)
      <4> HIDE DEF Emit
      <4> QED
        BY <1>5, <2>1, <3>1, EmitType DEF ServeStart, MessageKinds
    <3>3. turn' \in [Callers -> Turns]
      BY <1>5, <2>1, <3>1 DEF ServeStart
    <3> HIDE DEF Emit
    <3> QED
      BY <1>5, <2>1, <3>1, <3>2, <3>3 DEF Serve
  <2>2. CASE Head(inbox).kind = "interrupt" /\ ServeInterrupt(Head(inbox).of)
    <3>1. inbox' \in Seq(Requests) /\ Head(inbox).of \in Callers
      BY <1>5, HeadTypes DEF Serve
    <3>2. stopping' \subseteq Callers /\ UNCHANGED <<turn, net>>
      BY <1>5, <2>2, <3>1 DEF ServeInterrupt
    <3> QED
      BY <1>5, <3>1, <3>2 DEF Serve
  <2> QED
    BY <1>5, <2>1, <2>2 DEF Serve
<1>6. CASE ServerDies \/ ServerKilled
  <2>1. \A S : <<>> \in Seq(S)
    BY EmptySeq
  <2>2. inbox' = <<>> /\ net' = <<>> /\ faults' \in Nat
    BY <1>6 DEF ServerDies, ServerKilled, Lose
  <2>3. /\ turn' \in [Callers -> Turns] /\ box' \in [Callers -> Answers]
        /\ slot' \in [Callers -> Ends] /\ missed' \subseteq Callers
    BY <1>6 DEF ServerDies, ServerKilled, Lose, LostSlots, Unregistered
  <2>4. UNCHANGED <<caller, heard>>
    BY <1>6 DEF ServerDies, ServerKilled, Lose
  <2>5. /\ conn' = FALSE /\ owner' = None /\ pending' = {} /\ waiting' = {}
        /\ stopping' = {}
    BY <1>6 DEF ServerDies, ServerKilled, Lose
  <2> QED
    BY <2>1, <2>2, <2>3, <2>4, <2>5
<1> HIDE DEF Goto, Request, Return, Unlocked, Emit, caller, client, server, link, Early, Busy,
      EndKinds, Replies, Live, TypeOK, Steps, Answers, Ends, Results, Turns, Requests, Messages
<1> QED
  BY <1>1, <1>2, <1>3, <1>4, <1>5, <1>6 DEF Next, EndTurn, EndKinds

\* Lock() is passed only when the lock is free, and nobody gives it up but its holder.
LEMMA LocksStep ==
  ASSUME TypeOK, LocksHeld, [Next]_vars
  PROVE  LocksHeld'
<1> USE TurnsAssumption DEF Goto, Request, Return, Unlocked, Emit, caller, client, server,
      link, Early, Busy, EndKinds, Replies, Live, TypeOK, LocksHeld
<1>1. CASE UNCHANGED vars BY <1>1 DEF vars
<1>2. ASSUME NEW c \in Callers, Run(c) \/ Expire(c) \/ Speak(c) PROVE LocksHeld'
  <2>1. CASE Arrive(c) BY <2>1 DEF Arrive, ActiveOn
  <2>2. CASE Lock(c) BY <2>2 DEF Lock
  <2>3. CASE StartTurn(c) BY <2>3 DEF StartTurn, Bound
  <2>4. CASE WriteStart(c) BY <2>4 DEF WriteStart
  <2>5. CASE AwaitStart(c) BY <2>5 DEF AwaitStart
  <2>6. CASE Register(c) BY <2>6 DEF Register
  <2>7. CASE AwaitTurn(c) BY <2>7 DEF AwaitTurn, Outcome
  <2>8. CASE AwaitGrace(c) BY <2>8 DEF AwaitGrace
  <2>9. CASE Reply(c) BY <2>9 DEF Reply
  <2>10. CASE Expire(c) BY <2>10 DEF Expire
  <2>11. CASE Speak(c) BY <2>11 DEF Speak
  <2> QED
    BY <1>2, <2>1, <2>2, <2>3, <2>4, <2>5, <2>6, <2>7, <2>8, <2>9, <2>10, <2>11 DEF Run
<1>3. ASSUME NEW c \in Callers, NEW end \in EndKinds, Finish(c, end) PROVE LocksHeld'
  BY <1>3 DEF Finish
<1>4. CASE Deliver
  <2>1. CASE DeliverAnswer(Head(net)) BY <1>4, <2>1 DEF Deliver, DeliverAnswer
  <2>2. CASE DeliverItem(Head(net))
    BY <1>4, <2>2 DEF Deliver, DeliverItem, Miss, Unregistered
  <2>3. CASE DeliverEnd(Head(net)) BY <1>4, <2>3 DEF Deliver, DeliverEnd, Miss, Unregistered
  <2> QED
    BY <1>4, <2>1, <2>2, <2>3 DEF Deliver
<1>5. CASE Serve
  <2>1. CASE Head(inbox).kind = "start" /\ ServeStart(Head(inbox).of) /\ UNCHANGED stopping
    BY <1>5, <2>1 DEF Serve, ServeStart
  <2>2. CASE Head(inbox).kind = "interrupt" /\ ServeInterrupt(Head(inbox).of)
    BY <1>5, <2>2 DEF Serve, ServeInterrupt
  <2> QED
    BY <1>5, <2>1, <2>2 DEF Serve
<1>6. CASE ServerDies \/ ServerKilled
  BY <1>6 DEF ServerDies, ServerKilled, Lose, LostSlots, Unregistered
<1> HIDE DEF Goto, Request, Return, Unlocked, Emit, caller, client, server, link, Early, Busy,
      EndKinds, Replies, Live, TypeOK, LocksHeld
<1> QED
  BY <1>1, <1>2, <1>3, <1>4, <1>5, <1>6 DEF Next, EndTurn, EndKinds

\* A call is registered before its request is written; a loss answers it and takes it out.
LEMMA PendingStep ==
  ASSUME TypeOK, LocksHeld, FreshCalls, CallsPending, [Next]_vars
  PROVE  CallsPending'
<1> USE TurnsAssumption DEF Goto, Request, Return, Unlocked, Emit, caller, client, server,
      link, Early, Busy, EndKinds, Replies, Live, TypeOK, CallsPending, FreshCalls
<1>1. CASE UNCHANGED vars BY <1>1 DEF vars
<1>2. ASSUME NEW c \in Callers, Run(c) \/ Expire(c) \/ Speak(c) PROVE CallsPending'
  <2>1. CASE Arrive(c) BY <2>1 DEF Arrive, ActiveOn
  <2>2. CASE Lock(c) BY <2>2 DEF Lock
  <2>3. CASE StartTurn(c) BY <2>3 DEF StartTurn, Bound
  <2>4. CASE WriteStart(c) BY <2>4 DEF WriteStart
  <2>5. CASE AwaitStart(c) BY <2>5 DEF AwaitStart
  <2>6. CASE Register(c) BY <2>6 DEF Register
  <2>7. CASE AwaitTurn(c) BY <2>7 DEF AwaitTurn, Outcome
  <2>8. CASE AwaitGrace(c) BY <2>8 DEF AwaitGrace
  <2>9. CASE Reply(c) BY <2>9 DEF Reply
  <2>10. CASE Expire(c) BY <2>10 DEF Expire
  <2>11. CASE Speak(c) BY <2>11 DEF Speak
  <2> QED
    BY <1>2, <2>1, <2>2, <2>3, <2>4, <2>5, <2>6, <2>7, <2>8, <2>9, <2>10, <2>11 DEF Run
<1>3. ASSUME NEW c \in Callers, NEW end \in EndKinds, Finish(c, end) PROVE CallsPending'
  BY <1>3 DEF Finish
<1>4. CASE Deliver
  <2>1. CASE DeliverAnswer(Head(net)) BY <1>4, <2>1 DEF Deliver, DeliverAnswer
  <2>2. CASE DeliverItem(Head(net))
    BY <1>4, <2>2 DEF Deliver, DeliverItem, Miss, Unregistered
  <2>3. CASE DeliverEnd(Head(net)) BY <1>4, <2>3 DEF Deliver, DeliverEnd, Miss, Unregistered
  <2> QED
    BY <1>4, <2>1, <2>2, <2>3 DEF Deliver
<1>5. CASE Serve
  <2>1. CASE Head(inbox).kind = "start" /\ ServeStart(Head(inbox).of) /\ UNCHANGED stopping
    BY <1>5, <2>1 DEF Serve, ServeStart
  <2>2. CASE Head(inbox).kind = "interrupt" /\ ServeInterrupt(Head(inbox).of)
    BY <1>5, <2>2 DEF Serve, ServeInterrupt
  <2> QED
    BY <1>5, <2>1, <2>2 DEF Serve
<1>6. CASE ServerDies \/ ServerKilled
  BY <1>6 DEF ServerDies, ServerKilled, Lose, LostSlots, Unregistered
<1> HIDE DEF Goto, Request, Return, Unlocked, Emit, caller, client, server, link, Early, Busy,
      EndKinds, Replies, Live, TypeOK, CallsPending, FreshCalls
<1> QED
  BY <1>1, <1>2, <1>3, <1>4, <1>5, <1>6 DEF Next, EndTurn, EndKinds

\* Nothing of a turn exists before its request is written.
LEMMA FreshStep ==
  ASSUME TypeOK, FreshCalls, CallsPending, WaitersKept, [Next]_vars
  PROVE  FreshCalls'
<1> Sorts
  BY SortsHold
<1> USE TurnsAssumption DEF Goto, Return, Unlocked, caller, client, server, link, Early, Busy,
      EndKinds, Replies, Live, Sorts, Popped, Pushed, Steps, Answers, Ends, Turns, Results,
      MessageKinds, FreshCalls, CallsPending, WaitersKept, Asked, NoRequest, Silent
<1>1. CASE UNCHANGED vars BY <1>1 DEF vars
<1>2. ASSUME NEW c \in Callers, Run(c) \/ Expire(c) \/ Speak(c) PROVE FreshCalls'
  <2>1. CASE Arrive(c) BY <2>1, RequestFacts DEF Arrive, ActiveOn
  <2>2. CASE Lock(c) BY <2>2 DEF Lock
  <2>3. CASE StartTurn(c) BY <2>3 DEF StartTurn, Bound
  <2>4. CASE WriteStart(c) BY <2>4, RequestFacts DEF WriteStart
  <2>5. CASE AwaitStart(c) BY <2>5 DEF AwaitStart
  <2>6. CASE Register(c) BY <2>6 DEF Register
  <2>7. CASE AwaitTurn(c) BY <2>7, RequestFacts DEF AwaitTurn, Outcome
  <2>8. CASE AwaitGrace(c) BY <2>8 DEF AwaitGrace
  <2>9. CASE Reply(c) BY <2>9 DEF Reply
  <2>10. CASE Expire(c) BY <2>10 DEF Expire
  <2>11. CASE Speak(c)
    <3>1. Pushed(net, net', "item", c)
      BY <2>11, EmitFacts DEF Speak
    <3> QED
      BY <2>11, <3>1 DEF Speak
  <2> QED
    BY <1>2, <2>1, <2>2, <2>3, <2>4, <2>5, <2>6, <2>7, <2>8, <2>9, <2>10, <2>11 DEF Run
<1>3. ASSUME NEW c \in Callers, NEW end \in EndKinds, Finish(c, end) PROVE FreshCalls'
  <2>1. Pushed(net, net', end, c)
    BY <1>3, EmitFacts DEF Finish
  <2> QED
    BY <1>3, <2>1 DEF Finish
<1>4. CASE Deliver
  <2>1. CASE DeliverAnswer(Head(net)) BY <1>4, <2>1, DeliverFacts DEF Deliver, DeliverAnswer
  <2>2. CASE DeliverItem(Head(net))
    BY <1>4, <2>2, DeliverFacts DEF Deliver, DeliverItem, Miss, Unregistered
  <2>3. CASE DeliverEnd(Head(net))
    BY <1>4, <2>3, DeliverFacts DEF Deliver, DeliverEnd, Miss, Unregistered
  <2> QED
    BY <1>4, <2>1, <2>2, <2>3 DEF Deliver
<1>5. CASE Serve
  <2>1. CASE Head(inbox).kind = "start" /\ ServeStart(Head(inbox).of) /\ UNCHANGED stopping
    <3> DEFINE d == inbox[1].of
    <3>1. /\ d \in Callers /\ Asked(1, d) /\ ServeStart(d)
          /\ UNCHANGED <<caller, client, missed>>
      BY <1>5, <2>1, ServeFacts DEF Serve, Asked
    <3>2. Popped(inbox, inbox')
      BY <1>5, ServeFacts
    <3>3. PICK k \in {"ok", "refused"} : Emit(k, d)
      BY <3>1 DEF ServeStart
    <3>4. Pushed(net, net', k, d)
      BY <3>1, <3>3, EmitFacts
    <3>5. turn' = [turn EXCEPT ![d] = "running"] \/ UNCHANGED turn
      BY <3>1 DEF ServeStart
    <3> SUFFICES ASSUME NEW e \in Callers, pc[e] \in Early
                 PROVE  e # d /\ NoRequest(e)' /\ Silent(e)'
      BY <3>1, <3>5
    <3>6. e # d
      BY <3>1, <3>2
    <3>7. NoRequest(e)'
      BY <3>2
    <3>8. Silent(e)'
      BY <3>4, <3>6
    <3> QED
      BY <3>6, <3>7, <3>8
  <2>2. CASE Head(inbox).kind = "interrupt" /\ ServeInterrupt(Head(inbox).of)
    BY <1>5, <2>2, ServeFacts DEF Serve, ServeInterrupt
  <2> QED
    BY <1>5, <2>1, <2>2 DEF Serve
<1>6. CASE ServerDies \/ ServerKilled
  BY <1>6 DEF ServerDies, ServerKilled, Lose, LostSlots, Unregistered
<1> HIDE DEF Goto, Return, Unlocked, caller, client, server, link, Early, Busy, EndKinds,
      Replies, Live, Sorts, Popped, Pushed, Steps, Answers, Ends, Turns, Results, MessageKinds,
      FreshCalls, CallsPending, WaitersKept, Asked, NoRequest, Silent
<1> QED
  BY <1>1, <1>2, <1>3, <1>4, <1>5, <1>6 DEF Next, EndTurn, EndKinds

\* turn/start is written once, and served before anything of the turn is sent.
LEMMA OnceStep ==
  ASSUME TypeOK, FreshCalls, CallsPending, RequestsOnce, [Next]_vars
  PROVE  RequestsOnce'
<1> Sorts
  BY SortsHold
<1> USE TurnsAssumption DEF Goto, Return, Unlocked, caller, client, server, link, Early, Busy,
      EndKinds, Replies, Live, Sorts, Popped, Pushed, Steps, Answers, Ends, Turns, Results,
      MessageKinds, FreshCalls, CallsPending, RequestsOnce, Asked, NoRequest, Silent
<1>1. CASE UNCHANGED vars BY <1>1 DEF vars
<1>2. ASSUME NEW c \in Callers, Run(c) \/ Expire(c) \/ Speak(c) PROVE RequestsOnce'
  <2>1. CASE Arrive(c) BY <2>1, RequestFacts, SMTT(20) DEF Arrive, ActiveOn
  <2>2. CASE Lock(c) BY <2>2 DEF Lock
  <2>3. CASE StartTurn(c) BY <2>3 DEF StartTurn, Bound
  <2>4. CASE WriteStart(c)
    <3>1. CASE Request("start", c) /\ Goto(c, "await")
      <4>1. Pushed(inbox, inbox', "start", c) /\ UNCHANGED <<box, turn, net>>
        BY <2>4, <3>1, RequestFacts DEF WriteStart
      <4>2. NoRequest(c) /\ Silent(c) /\ turn[c] = "none" /\ box[c] \in {"empty", "lost"}
        BY <2>4 DEF WriteStart
      <4>3. \A e \in Callers : \A i \in 1..Len(inbox') :
              Asked(i, e)' => (e = c /\ i = Len(inbox) + 1) \/ (i \in 1..Len(inbox) /\ Asked(i,
                 e))
        BY <4>1
      <4> QED
        BY <4>1, <4>2, <4>3
    <3>2. CASE UNCHANGED inbox BY <2>4, <3>2 DEF WriteStart
    <3> QED
      BY <2>4, <3>1, <3>2 DEF WriteStart
  <2>5. CASE AwaitStart(c) BY <2>5 DEF AwaitStart
  <2>6. CASE Register(c) BY <2>6 DEF Register
  <2>7. CASE AwaitTurn(c) BY <2>7, RequestFacts, SMTT(20) DEF AwaitTurn, Outcome
  <2>8. CASE AwaitGrace(c) BY <2>8 DEF AwaitGrace
  <2>9. CASE Reply(c) BY <2>9 DEF Reply
  <2>10. CASE Expire(c) BY <2>10 DEF Expire
  <2>11. CASE Speak(c)
    <3>1. Pushed(net, net', "item", c)
      BY <2>11, EmitFacts DEF Speak
    <3> QED
      BY <2>11, <3>1, SMTT(20) DEF Speak
  <2> QED
    BY <1>2, <2>1, <2>2, <2>3, <2>4, <2>5, <2>6, <2>7, <2>8, <2>9, <2>10, <2>11 DEF Run
<1>3. ASSUME NEW c \in Callers, NEW end \in EndKinds, Finish(c, end) PROVE RequestsOnce'
  <2>1. Pushed(net, net', end, c)
    BY <1>3, EmitFacts DEF Finish
  <2> QED
    BY <1>3, <2>1 DEF Finish
<1>4. CASE Deliver
  <2>1. CASE DeliverAnswer(Head(net)) BY <1>4, <2>1, DeliverFacts DEF Deliver, DeliverAnswer
  <2>2. CASE DeliverItem(Head(net))
    BY <1>4, <2>2, DeliverFacts DEF Deliver, DeliverItem, Miss, Unregistered
  <2>3. CASE DeliverEnd(Head(net))
    BY <1>4, <2>3, DeliverFacts DEF Deliver, DeliverEnd, Miss, Unregistered
  <2> QED
    BY <1>4, <2>1, <2>2, <2>3 DEF Deliver
<1>5. CASE Serve
  <2>1. CASE Head(inbox).kind = "start" /\ ServeStart(Head(inbox).of) /\ UNCHANGED stopping
    <3> DEFINE d == inbox[1].of
    <3>1. /\ d \in Callers /\ Asked(1, d) /\ ServeStart(d)
          /\ UNCHANGED <<caller, client, missed>>
      BY <1>5, <2>1, ServeFacts DEF Serve, Asked
    <3>2. Popped(inbox, inbox')
      BY <1>5, ServeFacts
    <3>3. PICK k \in {"ok", "refused"} : Emit(k, d)
      BY <3>1 DEF ServeStart
    <3>4. Pushed(net, net', k, d)
      BY <3>1, <3>3, EmitFacts
    <3>5. turn' = [turn EXCEPT ![d] = "running"] \/ UNCHANGED turn
      BY <3>1 DEF ServeStart
    <3> SUFFICES ASSUME NEW e \in Callers, NEW i \in 1..Len(inbox'), Asked(i, e)'
                 PROVE  /\ turn'[e] = "none" /\ box[e] \in {"empty", "lost"} /\ Silent(e)'
                        /\ \A j \in 1..Len(inbox') : Asked(j, e)' => i = j
      BY <3>1
    <3>6. Asked(i + 1, e) /\ i + 1 \in 1..Len(inbox)
      BY <3>2
    <3>7. i + 1 # 1
      BY <3>2
    <3>8. e # d
      BY <3>1, <3>2, <3>6, <3>7
    <3>9. turn'[e] = "none" /\ box[e] \in {"empty", "lost"}
      BY <3>5, <3>6, <3>8
    <3>10. Silent(e)'
      BY <3>4, <3>6, <3>8
    <3>11. ASSUME NEW j \in 1..Len(inbox'), Asked(j, e)' PROVE i = j
      <4>1. Asked(j + 1, e) /\ j + 1 \in 1..Len(inbox)
        BY <3>2, <3>11
      <4>2. j + 1 = i + 1
        BY <3>6, <4>1
      <4> QED
        BY <3>2, <4>2
    <3> QED
      BY <3>9, <3>10, <3>11
  <2>2. CASE Head(inbox).kind = "interrupt" /\ ServeInterrupt(Head(inbox).of)
    BY <1>5, <2>2, ServeFacts DEF Serve, ServeInterrupt
  <2> QED
    BY <1>5, <2>1, <2>2 DEF Serve
<1>6. CASE ServerDies \/ ServerKilled
  BY <1>6 DEF ServerDies, ServerKilled, Lose, LostSlots, Unregistered
<1> HIDE DEF Goto, Return, Unlocked, caller, client, server, link, Early, Busy, EndKinds,
      Replies, Live, Sorts, Popped, Pushed, Steps, Answers, Ends, Turns, Results, MessageKinds,
      FreshCalls, CallsPending, RequestsOnce, Asked, NoRequest, Silent
<1> QED
  BY <1>1, <1>2, <1>3, <1>4, <1>5, <1>6 DEF Next, EndTurn, EndKinds

\* The server sends nothing that does not hold, and no end of a turn is taken back.
LEMMA TrueStep ==
  ASSUME TypeOK, FreshCalls, RequestsOnce, MessagesTrue, [Next]_vars
  PROVE  MessagesTrue'
<1> Sorts
  BY SortsHold
<1> USE TurnsAssumption DEF Goto, Return, Unlocked, caller, client, server, link, Early, Busy,
      EndKinds, Replies, Live, Sorts, Popped, Pushed, Steps, Answers, Ends, Turns, Results,
      MessageKinds, RequestsOnce, MessagesTrue, Asked, Silent
<1>1. CASE UNCHANGED vars BY <1>1 DEF vars
<1>2. ASSUME NEW c \in Callers, Run(c) \/ Expire(c) \/ Speak(c) PROVE MessagesTrue'
  <2>1. CASE Arrive(c) BY <2>1, RequestFacts DEF Arrive, ActiveOn
  <2>2. CASE Lock(c) BY <2>2 DEF Lock
  <2>3. CASE StartTurn(c) BY <2>3 DEF StartTurn, Bound
  <2>4. CASE WriteStart(c) BY <2>4, RequestFacts DEF WriteStart
  <2>5. CASE AwaitStart(c) BY <2>5 DEF AwaitStart
  <2>6. CASE Register(c) BY <2>6 DEF Register
  <2>7. CASE AwaitTurn(c) BY <2>7, RequestFacts DEF AwaitTurn, Outcome
  <2>8. CASE AwaitGrace(c) BY <2>8 DEF AwaitGrace
  <2>9. CASE Reply(c) BY <2>9 DEF Reply
  <2>10. CASE Expire(c) BY <2>10 DEF Expire
  <2>11. CASE Speak(c)
    <3>1. Pushed(net, net', "item", c)
      BY <2>11, EmitFacts DEF Speak
    <3> QED
      BY <2>11, <3>1 DEF Speak
  <2> QED
    BY <1>2, <2>1, <2>2, <2>3, <2>4, <2>5, <2>6, <2>7, <2>8, <2>9, <2>10, <2>11 DEF Run
<1>3. ASSUME NEW c \in Callers, NEW end \in EndKinds, Finish(c, end) PROVE MessagesTrue'
  <2>1. Pushed(net, net', end, c)
    BY <1>3, EmitFacts DEF Finish
  <2> QED
    BY <1>3, <2>1 DEF Finish
<1>4. CASE Deliver
  <2>1. CASE DeliverAnswer(Head(net)) BY <1>4, <2>1, DeliverFacts DEF Deliver, DeliverAnswer
  <2>2. CASE DeliverItem(Head(net))
    BY <1>4, <2>2, DeliverFacts DEF Deliver, DeliverItem, Miss, Unregistered
  <2>3. CASE DeliverEnd(Head(net))
    BY <1>4, <2>3, DeliverFacts DEF Deliver, DeliverEnd, Miss, Unregistered
  <2> QED
    BY <1>4, <2>1, <2>2, <2>3 DEF Deliver
<1>5. CASE Serve
  <2>1. CASE Head(inbox).kind = "start" /\ ServeStart(Head(inbox).of) /\ UNCHANGED stopping
    <3> DEFINE d == inbox[1].of
    <3>1. /\ d \in Callers /\ Asked(1, d) /\ ServeStart(d)
          /\ UNCHANGED <<caller, client, missed>>
      BY <1>5, <2>1, ServeFacts DEF Serve, Asked
    <3>2. Popped(inbox, inbox')
      BY <1>5, ServeFacts
    <3>3. CASE turn' = [turn EXCEPT ![d] = "running"] /\ Emit("ok", d)
      <4>1. Pushed(net, net', "ok", d)
        BY <3>1, <3>3, EmitFacts
      <4> QED
        BY <3>1, <3>2, <3>3, <4>1
    <3>4. CASE Emit("refused", d) /\ UNCHANGED turn
      <4>1. Pushed(net, net', "refused", d)
        BY <3>1, <3>4, EmitFacts
      <4> QED
        BY <3>1, <3>2, <3>4, <4>1
    <3> QED
      BY <3>1, <3>3, <3>4 DEF ServeStart
  <2>2. CASE Head(inbox).kind = "interrupt" /\ ServeInterrupt(Head(inbox).of)
    BY <1>5, <2>2, ServeFacts DEF Serve, ServeInterrupt
  <2> QED
    BY <1>5, <2>1, <2>2 DEF Serve
<1>6. CASE ServerDies \/ ServerKilled
  BY <1>6 DEF ServerDies, ServerKilled, Lose, LostSlots, Unregistered
<1> HIDE DEF Goto, Return, Unlocked, caller, client, server, link, Early, Busy, EndKinds,
      Replies, Live, Sorts, Popped, Pushed, Steps, Answers, Ends, Turns, Results, MessageKinds,
      RequestsOnce, MessagesTrue, Asked, Silent
<1> QED
  BY <1>1, <1>2, <1>3, <1>4, <1>5, <1>6 DEF Next, EndTurn, EndKinds

\* Messages of a turn follow its answer, for both come from the one server in order.
LEMMA FirstStep ==
  ASSUME TypeOK, RequestsOnce, MessagesTrue, AnswerFirst, [Next]_vars
  PROVE  AnswerFirst'
<1> Sorts
  BY SortsHold
<1> USE TurnsAssumption DEF Goto, Return, Unlocked, caller, client, server, link, Early, Busy,
      EndKinds, Replies, Live, Sorts, Popped, Pushed, Steps, Answers, Ends, Turns, Results,
      MessageKinds, RequestsOnce, MessagesTrue, AnswerFirst, Asked, Silent
<1>1. CASE UNCHANGED vars BY <1>1 DEF vars
<1>2. ASSUME NEW c \in Callers, Run(c) \/ Expire(c) \/ Speak(c) PROVE AnswerFirst'
  <2>1. CASE Arrive(c) BY <2>1, RequestFacts DEF Arrive, ActiveOn
  <2>2. CASE Lock(c) BY <2>2 DEF Lock
  <2>3. CASE StartTurn(c) BY <2>3 DEF StartTurn, Bound
  <2>4. CASE WriteStart(c) BY <2>4, RequestFacts DEF WriteStart
  <2>5. CASE AwaitStart(c) BY <2>5 DEF AwaitStart
  <2>6. CASE Register(c) BY <2>6 DEF Register
  <2>7. CASE AwaitTurn(c) BY <2>7, RequestFacts DEF AwaitTurn, Outcome
  <2>8. CASE AwaitGrace(c) BY <2>8 DEF AwaitGrace
  <2>9. CASE Reply(c) BY <2>9 DEF Reply
  <2>10. CASE Expire(c) BY <2>10 DEF Expire
  <2>11. CASE Speak(c)
    <3>1. Pushed(net, net', "item", c)
      BY <2>11, EmitFacts DEF Speak
    <3> QED
      BY <2>11, <3>1 DEF Speak
  <2> QED
    BY <1>2, <2>1, <2>2, <2>3, <2>4, <2>5, <2>6, <2>7, <2>8, <2>9, <2>10, <2>11 DEF Run
<1>3. ASSUME NEW c \in Callers, NEW end \in EndKinds, Finish(c, end) PROVE AnswerFirst'
  <2>1. Pushed(net, net', end, c)
    BY <1>3, EmitFacts DEF Finish
  <2> QED
    BY <1>3, <2>1 DEF Finish
<1>4. CASE Deliver
  <2>1. CASE DeliverAnswer(Head(net)) BY <1>4, <2>1, DeliverFacts DEF Deliver, DeliverAnswer
  <2>2. CASE DeliverItem(Head(net))
    BY <1>4, <2>2, DeliverFacts DEF Deliver, DeliverItem, Miss, Unregistered
  <2>3. CASE DeliverEnd(Head(net))
    BY <1>4, <2>3, DeliverFacts DEF Deliver, DeliverEnd, Miss, Unregistered
  <2> QED
    BY <1>4, <2>1, <2>2, <2>3 DEF Deliver
<1>5. CASE Serve
  <2>1. CASE Head(inbox).kind = "start" /\ ServeStart(Head(inbox).of) /\ UNCHANGED stopping
    <3> DEFINE d == inbox[1].of
    <3>1. /\ d \in Callers /\ Asked(1, d) /\ ServeStart(d)
          /\ UNCHANGED <<caller, client, missed>>
      BY <1>5, <2>1, ServeFacts DEF Serve, Asked
    <3>2. Popped(inbox, inbox')
      BY <1>5, ServeFacts
    <3>3. PICK k \in {"ok", "refused"} : Emit(k, d)
      BY <3>1 DEF ServeStart
    <3>4. Pushed(net, net', k, d)
      BY <3>1, <3>3, EmitFacts
    <3>5. \A i \in 1..Len(net) : net[i].of # d
      <4>1. 1 \in 1..Len(inbox)
        BY <3>2
      <4> HIDE DEF Popped, Pushed, Asked
      <4> QED
        BY <3>1, <4>1
    <3> QED
      BY <3>3, <3>4, <3>5
  <2>2. CASE Head(inbox).kind = "interrupt" /\ ServeInterrupt(Head(inbox).of)
    BY <1>5, <2>2, ServeFacts DEF Serve, ServeInterrupt
  <2> QED
    BY <1>5, <2>1, <2>2 DEF Serve
<1>6. CASE ServerDies \/ ServerKilled
  BY <1>6 DEF ServerDies, ServerKilled, Lose, LostSlots, Unregistered
<1> HIDE DEF Goto, Return, Unlocked, caller, client, server, link, Early, Busy, EndKinds,
      Replies, Live, Sorts, Popped, Pushed, Steps, Answers, Ends, Turns, Results, MessageKinds,
      RequestsOnce, MessagesTrue, AnswerFirst, Asked, Silent
<1> QED
  BY <1>1, <1>2, <1>3, <1>4, <1>5, <1>6 DEF Next, EndTurn, EndKinds

\* A caller that awaits the answer of a turn that exists finds it on its way.
LEMMA SentStep ==
  ASSUME TypeOK, FreshCalls, CallsPending, MessagesTrue, AnswerSent, [Next]_vars
  PROVE  AnswerSent'
<1> Sorts
  BY SortsHold
<1> USE TurnsAssumption DEF Goto, Return, Unlocked, caller, client, server, link, Early, Busy,
      EndKinds, Replies, Live, Sorts, Popped, Pushed, Steps, Answers, Ends, Turns, Results,
      MessageKinds, FreshCalls, CallsPending, MessagesTrue, AnswerSent
<1>1. CASE UNCHANGED vars BY <1>1 DEF vars
<1>2. ASSUME NEW c \in Callers, Run(c) \/ Expire(c) \/ Speak(c) PROVE AnswerSent'
  <2>1. CASE Arrive(c) BY <2>1, RequestFacts DEF Arrive, ActiveOn
  <2>2. CASE Lock(c) BY <2>2 DEF Lock
  <2>3. CASE StartTurn(c) BY <2>3 DEF StartTurn, Bound
  <2>4. CASE WriteStart(c) BY <2>4, RequestFacts DEF WriteStart
  <2>5. CASE AwaitStart(c) BY <2>5 DEF AwaitStart
  <2>6. CASE Register(c) BY <2>6 DEF Register
  <2>7. CASE AwaitTurn(c) BY <2>7, RequestFacts DEF AwaitTurn, Outcome
  <2>8. CASE AwaitGrace(c) BY <2>8 DEF AwaitGrace
  <2>9. CASE Reply(c) BY <2>9 DEF Reply
  <2>10. CASE Expire(c) BY <2>10 DEF Expire
  <2>11. CASE Speak(c)
    <3>1. Pushed(net, net', "item", c)
      BY <2>11, EmitFacts DEF Speak
    <3> QED
      BY <2>11, <3>1 DEF Speak
  <2> QED
    BY <1>2, <2>1, <2>2, <2>3, <2>4, <2>5, <2>6, <2>7, <2>8, <2>9, <2>10, <2>11 DEF Run
<1>3. ASSUME NEW c \in Callers, NEW end \in EndKinds, Finish(c, end) PROVE AnswerSent'
  <2>1. Pushed(net, net', end, c)
    BY <1>3, EmitFacts DEF Finish
  <2> QED
    BY <1>3, <2>1 DEF Finish
<1>4. CASE Deliver
  <2> SUFFICES ASSUME NEW e \in Callers, pc'[e] = "await", box'[e] = "empty", turn'[e] # "none"
               PROVE  \E i \in 1..Len(net') : net'[i].of = e /\ net'[i].kind = "ok"
    OBVIOUS
  <2>5. Popped(net, net') /\ Head(net) = net[1]
    BY <1>4, DeliverFacts
  <2>6. pc[e] = "await" /\ turn[e] # "none"
    BY <1>4 DEF Deliver
  <2>1. CASE DeliverAnswer(Head(net))
    <3>1. box[e] = "empty" /\ ~(net[1].of = e /\ net[1].kind = "ok")
      BY <1>4, <2>1, <2>5, <2>6 DEF DeliverAnswer
    <3>2. PICK i \in 1..Len(net) : net[i].of = e /\ net[i].kind = "ok"
      BY <3>1, <2>6
    <3> QED
      BY <2>5, <3>1, <3>2
  <2>2. CASE DeliverItem(Head(net))
    <3>1. box[e] = "empty" /\ ~(net[1].of = e /\ net[1].kind = "ok")
      BY <1>4, <2>2, <2>5, <2>6 DEF DeliverItem
    <3>2. PICK i \in 1..Len(net) : net[i].of = e /\ net[i].kind = "ok"
      BY <3>1, <2>6
    <3> QED
      BY <2>5, <3>1, <3>2
  <2>3. CASE DeliverEnd(Head(net))
    <3>1. box[e] = "empty" /\ ~(net[1].of = e /\ net[1].kind = "ok")
      BY <1>4, <2>3, <2>5, <2>6 DEF DeliverEnd
    <3>2. PICK i \in 1..Len(net) : net[i].of = e /\ net[i].kind = "ok"
      BY <3>1, <2>6
    <3> QED
      BY <2>5, <3>1, <3>2
  <2> QED
    BY <1>4, <2>1, <2>2, <2>3 DEF Deliver
<1>5. CASE Serve
  <2>1. CASE Head(inbox).kind = "start" /\ ServeStart(Head(inbox).of) /\ UNCHANGED stopping
    <3> DEFINE d == inbox[1].of
    <3>1. /\ d \in Callers /\ Asked(1, d) /\ ServeStart(d)
          /\ UNCHANGED <<caller, client, missed>>
      BY <1>5, <2>1, ServeFacts DEF Serve, Asked
    <3>2. Popped(inbox, inbox')
      BY <1>5, ServeFacts
    <3>3. CASE turn' = [turn EXCEPT ![d] = "running"] /\ Emit("ok", d)
      <4>1. Pushed(net, net', "ok", d)
        BY <3>1, <3>3, EmitFacts
      <4> QED
        BY <3>1, <3>2, <3>3, <4>1
    <3>4. CASE Emit("refused", d) /\ UNCHANGED turn
      <4>1. Pushed(net, net', "refused", d)
        BY <3>1, <3>4, EmitFacts
      <4> QED
        BY <3>1, <3>2, <3>4, <4>1
    <3> QED
      BY <3>1, <3>3, <3>4 DEF ServeStart
  <2>2. CASE Head(inbox).kind = "interrupt" /\ ServeInterrupt(Head(inbox).of)
    BY <1>5, <2>2, ServeFacts DEF Serve, ServeInterrupt
  <2> QED
    BY <1>5, <2>1, <2>2 DEF Serve
<1>6. CASE ServerDies \/ ServerKilled
  BY <1>6 DEF ServerDies, ServerKilled, Lose, LostSlots, Unregistered
<1> HIDE DEF Goto, Return, Unlocked, caller, client, server, link, Early, Busy, EndKinds,
      Replies, Live, Sorts, Popped, Pushed, Steps, Answers, Ends, Turns, Results, MessageKinds,
      FreshCalls, CallsPending, MessagesTrue, AnswerSent
<1> QED
  BY <1>1, <1>2, <1>3, <1>4, <1>5, <1>6 DEF Next, EndTurn, EndKinds

\* As long as the answer is on its way nothing of the turn was read yet.
LEMMA FollowsStep ==
  ASSUME TypeOK, RequestsOnce, MessagesTrue, AnswerFirst, EndFollows, [Next]_vars
  PROVE  EndFollows'
<1> Sorts
  BY SortsHold
<1> USE TurnsAssumption DEF Goto, Return, Unlocked, caller, client, server, link, Early, Busy,
      EndKinds, Replies, Live, Sorts, Popped, Pushed, Steps, Answers, Ends, Turns, Results,
      MessageKinds, RequestsOnce, MessagesTrue, AnswerFirst, EndFollows, EndOnItsWay, Asked,
      Silent
<1>1. CASE UNCHANGED vars BY <1>1 DEF vars
<1>2. ASSUME NEW c \in Callers, Run(c) \/ Expire(c) \/ Speak(c) PROVE EndFollows'
  <2>1. CASE Arrive(c) BY <2>1, RequestFacts DEF Arrive, ActiveOn
  <2>2. CASE Lock(c) BY <2>2 DEF Lock
  <2>3. CASE StartTurn(c) BY <2>3 DEF StartTurn, Bound
  <2>4. CASE WriteStart(c) BY <2>4, RequestFacts DEF WriteStart
  <2>5. CASE AwaitStart(c) BY <2>5 DEF AwaitStart
  <2>6. CASE Register(c) BY <2>6 DEF Register
  <2>7. CASE AwaitTurn(c) BY <2>7, RequestFacts DEF AwaitTurn, Outcome
  <2>8. CASE AwaitGrace(c) BY <2>8 DEF AwaitGrace
  <2>9. CASE Reply(c) BY <2>9 DEF Reply
  <2>10. CASE Expire(c) BY <2>10 DEF Expire
  <2>11. CASE Speak(c)
    <3>1. Pushed(net, net', "item", c)
      BY <2>11, EmitFacts DEF Speak
    <3> QED
      BY <2>11, <3>1 DEF Speak
  <2> QED
    BY <1>2, <2>1, <2>2, <2>3, <2>4, <2>5, <2>6, <2>7, <2>8, <2>9, <2>10, <2>11 DEF Run
<1>3. ASSUME NEW c \in Callers, NEW end \in EndKinds, Finish(c, end) PROVE EndFollows'
  <2>1. Pushed(net, net', end, c)
    BY <1>3, EmitFacts DEF Finish
  <2> QED
    BY <1>3, <2>1 DEF Finish
<1>4. CASE Deliver
  <2> SUFFICES ASSUME NEW i \in 1..Len(net'), net[i]'.kind = "ok" PROVE EndOnItsWay(net[i].of)'
    OBVIOUS
  <2>5. Popped(net, net') /\ UNCHANGED turn
    BY <1>4, DeliverFacts DEF Deliver
  <2>6. PICK e \in Callers :
          i + 1 \in 1..Len(net) /\ net'[i].of = e /\ net[i + 1].of = e /\ net[i + 1].kind = "ok"
    BY <2>5
  <2>7. ~(net[1].of = e /\ net[1].kind \in EndKinds)
    BY <2>5, <2>6
  <2>8. EndOnItsWay(e)
    BY <2>6
  <2>9. EndOnItsWay(e)'
    <3>1. CASE turn[e] \in Live BY <2>5, <3>1
    <3>2. ASSUME NEW j \in 1..Len(net), net[j].of = e, net[j].kind \in EndKinds
          PROVE EndOnItsWay(e)'
      <4>1. j # 1 /\ j - 1 \in 1..Len(net') /\ net'[j - 1] = net[j]
        BY <2>5, <2>7, <3>2
      <4> QED
        BY <3>2, <4>1
    <3> QED
      BY <2>8, <3>1, <3>2
  <2>1. CASE DeliverAnswer(Head(net)) BY <2>6, <2>9 DEF EndOnItsWay
  <2>2. CASE DeliverItem(Head(net)) BY <2>6, <2>9 DEF EndOnItsWay
  <2>3. CASE DeliverEnd(Head(net)) BY <2>6, <2>9 DEF EndOnItsWay
  <2> QED
    BY <1>4, <2>1, <2>2, <2>3 DEF Deliver
<1>5. CASE Serve
  <2>1. CASE Head(inbox).kind = "start" /\ ServeStart(Head(inbox).of) /\ UNCHANGED stopping
    <3> DEFINE d == inbox[1].of
    <3>1. /\ d \in Callers /\ Asked(1, d) /\ ServeStart(d)
          /\ UNCHANGED <<caller, client, missed>>
      BY <1>5, <2>1, ServeFacts DEF Serve, Asked
    <3>2. Popped(inbox, inbox')
      BY <1>5, ServeFacts
    <3>3. PICK k \in {"ok", "refused"} :
               Emit(k, d) /\ (k = "ok" => turn' = [turn EXCEPT ![d] = "running"])
      BY <3>1 DEF ServeStart
    <3>4. Pushed(net, net', k, d)
      BY <3>1, <3>3, EmitFacts
    <3>5. turn' = [turn EXCEPT ![d] = "running"] \/ UNCHANGED turn
      BY <3>1 DEF ServeStart
    <3> SUFFICES ASSUME NEW i \in 1..Len(net'), net[i]'.kind = "ok"
          PROVE EndOnItsWay(net[i].of)'
      OBVIOUS
    <3>6. CASE i \in 1..Len(net)
      <4>1. PICK e \in Callers : net[i].of = e /\ net'[i].of = e /\ EndOnItsWay(e)
        BY <3>4, <3>6
      <4>2. turn[e] \in Live => turn'[e] \in Live
        BY <3>1, <3>5
      <4>3. EndOnItsWay(e)'
        BY <3>4, <4>1, <4>2, EndStays DEF EndOnItsWay
      <4> QED
        BY <4>1, <4>3 DEF EndOnItsWay
    <3>7. CASE i = Len(net) + 1 BY <3>1, <3>3, <3>4, <3>7 DEF EndOnItsWay
    <3> QED
      BY <3>4, <3>6, <3>7
  <2>2. CASE Head(inbox).kind = "interrupt" /\ ServeInterrupt(Head(inbox).of)
    BY <1>5, <2>2, ServeFacts DEF Serve, ServeInterrupt
  <2> QED
    BY <1>5, <2>1, <2>2 DEF Serve
<1>6. CASE ServerDies \/ ServerKilled
  BY <1>6 DEF ServerDies, ServerKilled, Lose, LostSlots, Unregistered
<1> HIDE DEF Goto, Return, Unlocked, caller, client, server, link, Early, Busy, EndKinds,
      Replies, Live, Sorts, Popped, Pushed, Steps, Answers, Ends, Turns, Results, MessageKinds,
      RequestsOnce, MessagesTrue, AnswerFirst, EndFollows, EndOnItsWay, Asked, Silent
<1> QED
  BY <1>1, <1>2, <1>3, <1>4, <1>5, <1>6 DEF Next, EndTurn, EndKinds

\* An answer read by a caller stays true.
LEMMA AnswersStep ==
  ASSUME TypeOK, RequestsOnce, MessagesTrue, AnswersTrue, [Next]_vars
  PROVE  AnswersTrue'
<1> Sorts
  BY SortsHold
<1> USE TurnsAssumption DEF Goto, Return, Unlocked, caller, client, server, link, Early, Busy,
      EndKinds, Replies, Live, Sorts, Popped, Pushed, Steps, Answers, Ends, Turns, Results,
      MessageKinds, RequestsOnce, MessagesTrue, AnswersTrue, Asked, Silent
<1>1. CASE UNCHANGED vars BY <1>1 DEF vars
<1>2. ASSUME NEW c \in Callers, Run(c) \/ Expire(c) \/ Speak(c) PROVE AnswersTrue'
  <2>1. CASE Arrive(c) BY <2>1, RequestFacts DEF Arrive, ActiveOn
  <2>2. CASE Lock(c) BY <2>2 DEF Lock
  <2>3. CASE StartTurn(c) BY <2>3 DEF StartTurn, Bound
  <2>4. CASE WriteStart(c) BY <2>4, RequestFacts DEF WriteStart
  <2>5. CASE AwaitStart(c) BY <2>5 DEF AwaitStart
  <2>6. CASE Register(c) BY <2>6 DEF Register
  <2>7. CASE AwaitTurn(c) BY <2>7, RequestFacts DEF AwaitTurn, Outcome
  <2>8. CASE AwaitGrace(c) BY <2>8 DEF AwaitGrace
  <2>9. CASE Reply(c) BY <2>9 DEF Reply
  <2>10. CASE Expire(c) BY <2>10 DEF Expire
  <2>11. CASE Speak(c)
    <3>1. Pushed(net, net', "item", c)
      BY <2>11, EmitFacts DEF Speak
    <3> QED
      BY <2>11, <3>1 DEF Speak
  <2> QED
    BY <1>2, <2>1, <2>2, <2>3, <2>4, <2>5, <2>6, <2>7, <2>8, <2>9, <2>10, <2>11 DEF Run
<1>3. ASSUME NEW c \in Callers, NEW end \in EndKinds, Finish(c, end) PROVE AnswersTrue'
  <2>1. Pushed(net, net', end, c)
    BY <1>3, EmitFacts DEF Finish
  <2> QED
    BY <1>3, <2>1 DEF Finish
<1>4. CASE Deliver
  <2>1. CASE DeliverAnswer(Head(net)) BY <1>4, <2>1, DeliverFacts DEF Deliver, DeliverAnswer
  <2>2. CASE DeliverItem(Head(net))
    BY <1>4, <2>2, DeliverFacts DEF Deliver, DeliverItem, Miss, Unregistered
  <2>3. CASE DeliverEnd(Head(net))
    BY <1>4, <2>3, DeliverFacts DEF Deliver, DeliverEnd, Miss, Unregistered
  <2> QED
    BY <1>4, <2>1, <2>2, <2>3 DEF Deliver
<1>5. CASE Serve
  <2>1. CASE Head(inbox).kind = "start" /\ ServeStart(Head(inbox).of) /\ UNCHANGED stopping
    <3> DEFINE d == inbox[1].of
    <3>1. /\ d \in Callers /\ Asked(1, d) /\ ServeStart(d)
          /\ UNCHANGED <<caller, client, missed>>
      BY <1>5, <2>1, ServeFacts DEF Serve, Asked
    <3>2. Popped(inbox, inbox')
      BY <1>5, ServeFacts
    <3>3. CASE turn' = [turn EXCEPT ![d] = "running"] /\ Emit("ok", d)
      <4>1. Pushed(net, net', "ok", d)
        BY <3>1, <3>3, EmitFacts
      <4> QED
        BY <3>1, <3>2, <3>3, <4>1
    <3>4. CASE Emit("refused", d) /\ UNCHANGED turn
      <4>1. Pushed(net, net', "refused", d)
        BY <3>1, <3>4, EmitFacts
      <4> QED
        BY <3>1, <3>2, <3>4, <4>1
    <3> QED
      BY <3>1, <3>3, <3>4 DEF ServeStart
  <2>2. CASE Head(inbox).kind = "interrupt" /\ ServeInterrupt(Head(inbox).of)
    BY <1>5, <2>2, ServeFacts DEF Serve, ServeInterrupt
  <2> QED
    BY <1>5, <2>1, <2>2 DEF Serve
<1>6. CASE ServerDies \/ ServerKilled
  BY <1>6 DEF ServerDies, ServerKilled, Lose, LostSlots, Unregistered
<1> HIDE DEF Goto, Return, Unlocked, caller, client, server, link, Early, Busy, EndKinds,
      Replies, Live, Sorts, Popped, Pushed, Steps, Answers, Ends, Turns, Results, MessageKinds,
      RequestsOnce, MessagesTrue, AnswersTrue, Asked, Silent
<1> QED
  BY <1>1, <1>2, <1>3, <1>4, <1>5, <1>6 DEF Next, EndTurn, EndKinds

\* A message that is heard, or missed, or of no use any more stays so.
LEMMA CaughtStep ==
  ASSUME TypeOK, FreshCalls, CallsPending, WaitersKept, AnswersTrue, [Next]_vars
  PROVE  \A e \in Callers : turn[e] # "none" /\ Caught(e) => Caught(e)'
<1> Sorts
  BY SortsHold
<1> USE TurnsAssumption DEF Goto, Return, Unlocked, caller, client, server, link, Early, Busy,
      EndKinds, Replies, Live, Sorts, Popped, Pushed, Steps, Answers, Ends, Turns, Results,
      MessageKinds, FreshCalls, CallsPending, WaitersKept, AnswersTrue, Caught, Gone, Returned
<1>1. CASE UNCHANGED vars BY <1>1 DEF vars
<1>2. ASSUME NEW c \in Callers, Run(c) \/ Expire(c) \/ Speak(c)
      PROVE \A e \in Callers : turn[e] # "none" /\ Caught(e) => Caught(e)'
  <2>1. CASE Arrive(c) BY <2>1, RequestFacts DEF Arrive, ActiveOn
  <2>2. CASE Lock(c) BY <2>2 DEF Lock
  <2>3. CASE StartTurn(c) BY <2>3 DEF StartTurn, Bound
  <2>4. CASE WriteStart(c) BY <2>4, RequestFacts DEF WriteStart
  <2>5. CASE AwaitStart(c) BY <2>5 DEF AwaitStart
  <2>6. CASE Register(c) BY <2>6 DEF Register
  <2>7. CASE AwaitTurn(c) BY <2>7, RequestFacts DEF AwaitTurn, Outcome
  <2>8. CASE AwaitGrace(c) BY <2>8 DEF AwaitGrace
  <2>9. CASE Reply(c) BY <2>9 DEF Reply
  <2>10. CASE Expire(c) BY <2>10 DEF Expire
  <2>11. CASE Speak(c) BY <2>11, EmitFacts DEF Speak
  <2> QED
    BY <1>2, <2>1, <2>2, <2>3, <2>4, <2>5, <2>6, <2>7, <2>8, <2>9, <2>10, <2>11 DEF Run
<1>3. ASSUME NEW c \in Callers, NEW end \in EndKinds, Finish(c, end)
      PROVE \A e \in Callers : turn[e] # "none" /\ Caught(e) => Caught(e)'
  BY <1>3, EmitFacts DEF Finish
<1>4. CASE Deliver
  <2>1. CASE DeliverAnswer(Head(net)) BY <1>4, <2>1, DeliverFacts DEF Deliver, DeliverAnswer
  <2>2. CASE DeliverItem(Head(net))
    BY <1>4, <2>2, DeliverFacts DEF Deliver, DeliverItem, Miss, Unregistered
  <2>3. CASE DeliverEnd(Head(net))
    BY <1>4, <2>3, DeliverFacts DEF Deliver, DeliverEnd, Miss, Unregistered
  <2> QED
    BY <1>4, <2>1, <2>2, <2>3 DEF Deliver
<1>5. CASE Serve
  <2>1. CASE Head(inbox).kind = "start" /\ ServeStart(Head(inbox).of) /\ UNCHANGED stopping
    BY <1>5, <2>1, ServeFacts, EmitFacts DEF Serve, ServeStart
  <2>2. CASE Head(inbox).kind = "interrupt" /\ ServeInterrupt(Head(inbox).of)
    BY <1>5, <2>2, ServeFacts DEF Serve, ServeInterrupt
  <2> QED
    BY <1>5, <2>1, <2>2 DEF Serve
<1>6. CASE ServerDies \/ ServerKilled
  BY <1>6 DEF ServerDies, ServerKilled, Lose, LostSlots, Unregistered
<1> HIDE DEF Goto, Return, Unlocked, caller, client, server, link, Early, Busy, EndKinds,
      Replies, Live, Sorts, Popped, Pushed, Steps, Answers, Ends, Turns, Results, MessageKinds,
      FreshCalls, CallsPending, WaitersKept, AnswersTrue, Caught, Gone, Returned
<1> QED
  BY <1>1, <1>2, <1>3, <1>4, <1>5, <1>6 DEF Next, EndTurn, EndKinds

\* The agent message of a turn is read, or lost, before its end is read.
LEMMA ItemStep ==
  ASSUME TypeOK, FreshCalls, CallsPending, RequestsOnce, MessagesTrue, AnswerFirst, AnswerSent,
         AnswersTrue, WaitersKept, SlotsTrue, ItemFirst, [Next]_vars
  PROVE  ItemFirst'
<1> Sorts
  BY SortsHold
<1> USE TurnsAssumption DEF Goto, Return, Unlocked, caller, client, server, link, Early, Busy,
      EndKinds, Replies, Live, Sorts, Popped, Pushed, Steps, Answers, Ends, Turns, Results,
      MessageKinds, FreshCalls, CallsPending, MessagesTrue, AnswerFirst, AnswerSent,
      AnswersTrue, WaitersKept, ItemFirst, Caught, Gone, Returned, ItemBefore
<1>1. CASE UNCHANGED vars BY <1>1 DEF vars
<1>2. ASSUME NEW c \in Callers, Run(c) \/ Expire(c) \/ Speak(c) PROVE ItemFirst'
  <2>1. CASE Arrive(c) BY <2>1, CaughtStep DEF Arrive, ActiveOn
  <2>2. CASE Lock(c) BY <2>2, CaughtStep DEF Lock
  <2>3. CASE StartTurn(c) BY <2>3, CaughtStep DEF StartTurn, Bound
  <2>4. CASE WriteStart(c) BY <2>4, CaughtStep DEF WriteStart
  <2>5. CASE AwaitStart(c) BY <2>5, CaughtStep DEF AwaitStart
  <2>6. CASE Register(c) BY <2>6, CaughtStep DEF Register
  <2>7. CASE AwaitTurn(c) BY <2>7, CaughtStep DEF AwaitTurn
  <2>8. CASE AwaitGrace(c) BY <2>8, CaughtStep DEF AwaitGrace
  <2>9. CASE Reply(c) BY <2>9, CaughtStep DEF Reply
  <2>10. CASE Expire(c) BY <2>10, CaughtStep DEF Expire
  <2>11. CASE Speak(c)
    <3>1. Pushed(net, net', "item", c)
      BY <2>11, EmitFacts DEF Speak
    <3> QED
      BY <2>11, <3>1 DEF Speak
  <2> QED
    BY <1>2, <2>1, <2>2, <2>3, <2>4, <2>5, <2>6, <2>7, <2>8, <2>9, <2>10, <2>11 DEF Run
<1>3. ASSUME NEW c \in Callers, NEW end \in EndKinds, Finish(c, end) PROVE ItemFirst'
  <2>1. Pushed(net, net', end, c)
    BY <1>3, EmitFacts DEF Finish
  <2> QED
    BY <1>3, <2>1 DEF Finish
<1>4. CASE Deliver
  <2> SUFFICES ASSUME NEW e \in Callers,
                      NEW n \in Nat, n = Len(net') + 1 \/ n \in 1..Len(net'),
                      \/ n = Len(net') + 1 /\ turn'[e] = "spoken"
                      \/ n \in 1..Len(net') /\ net'[n].of = e /\ net'[n].kind = "text"
               PROVE  Caught(e)' \/ ItemBefore(e, n)'
    OBVIOUS
  <2>5. Popped(net, net') /\ Head(net) = net[1] /\ UNCHANGED <<caller, turn, waiting, pending>>
    BY <1>4, DeliverFacts DEF Deliver
  <2>6. (Caught(e) \/ ItemBefore(e, n + 1)) /\ turn[e] # "none"
    <3> HIDE DEF Caught, ItemBefore
    <3>1. CASE n = Len(net') + 1 /\ turn'[e] = "spoken" BY <2>5, <3>1
    <3>2. CASE n \in 1..Len(net') /\ net'[n].of = e /\ net'[n].kind = "text"
      <4>1. n + 1 \in 1..Len(net) /\ net[n + 1].of = e /\ net[n + 1].kind = "text"
        BY <2>5, <3>2
      <4> QED
        BY <4>1
    <3> QED
      BY <3>1, <3>2
  <2>7. CASE Caught(e) BY <2>6, <2>7, CaughtStep
  <2>8. CASE ~(net[1].of = e /\ net[1].kind = "item") /\ ItemBefore(e, n + 1)
    BY <2>5, <2>8, ItemMoves DEF ItemBefore
  <2> HIDE DEF ItemBefore
  <2> SUFFICES ASSUME net[1].of = e, net[1].kind = "item" PROVE Caught(e)'
    BY <2>6, <2>7, <2>8
  <2>9. pc[e] \notin Early /\ ~(pc[e] = "await" /\ box[e] = "error")
    BY <2>6
  <2>10. ~(pc[e] = "await" /\ box[e] = "empty")
    <3>1. SUFFICES ASSUME NEW k \in 1..Len(net), net[k].of = e, net[k].kind = "ok" PROVE FALSE
      BY <2>6
    <3>2. k < 1
      BY <2>5, <3>1
    <3> QED
      BY <3>1, <3>2
  <2>1. CASE DeliverAnswer(Head(net)) BY <2>5, <2>1 DEF DeliverAnswer
  <2>2. CASE DeliverItem(Head(net))
    <3>1. e \in heard' \/ e \in missed' \/ (e \notin waiting /\ ~Unregistered(e))
      BY <2>5, <2>2 DEF DeliverItem, Miss
    <3> QED
      BY <2>5, <2>9, <2>10, <2>2, <3>1 DEF DeliverItem, Unregistered
  <2>3. CASE DeliverEnd(Head(net)) BY <2>5, <2>3 DEF DeliverEnd
  <2> QED
    BY <1>4, <2>1, <2>2, <2>3 DEF Deliver
<1>5. CASE Serve
  <2>1. CASE Head(inbox).kind = "start" /\ ServeStart(Head(inbox).of) /\ UNCHANGED stopping
    <3> DEFINE d == inbox[1].of
    <3>1. /\ d \in Callers /\ Asked(1, d) /\ ServeStart(d)
          /\ UNCHANGED <<caller, client, missed>>
      BY <1>5, <2>1, ServeFacts DEF Serve, Asked
    <3>2. Popped(inbox, inbox')
      BY <1>5, ServeFacts
    <3>3. PICK k \in {"ok", "refused"} : Emit(k, d)
      BY <3>1 DEF ServeStart
    <3>4. Pushed(net, net', k, d)
      BY <3>1, <3>3, EmitFacts
    <3>5. turn' = [turn EXCEPT ![d] = "running"] \/ UNCHANGED turn
      BY <3>1 DEF ServeStart
    <3> HIDE DEF Caught, ItemBefore
    <3> SUFFICES ASSUME NEW e \in Callers,
                        NEW n \in Nat, n = Len(net') + 1 \/ n \in 1..Len(net'),
                        \/ n = Len(net') + 1 /\ turn'[e] = "spoken"
                        \/ n \in 1..Len(net') /\ net'[n].of = e /\ net'[n].kind = "text"
                 PROVE  Caught(e)' \/ ItemBefore(e, n)'
      OBVIOUS
    <3>6. (Caught(e) \/ ItemBefore(e, n) \/ ItemBefore(e, n - 1)) /\ turn[e] # "none"
      <4>1. CASE n = Len(net') + 1 /\ turn'[e] = "spoken" BY <3>1, <3>4, <3>5, <4>1
      <4>2. CASE n \in 1..Len(net') /\ net'[n].of = e /\ net'[n].kind = "text"
        <5>1. n \in 1..Len(net) /\ net[n].of = e /\ net[n].kind = "text"
          BY <3>4, <4>2
        <5> QED
          BY <5>1
      <4> QED
        BY <4>1, <4>2
    <3>7. Caught(e) => Caught(e)'
      BY <3>6, CaughtStep
    <3>8. ItemBefore(e, n - 1) => ItemBefore(e, n)
      BY DEF ItemBefore, Sorts
    <3>9. ItemBefore(e, n) => ItemBefore(e, n)'
      BY <3>4, ItemStays
    <3> QED
      BY <3>6, <3>7, <3>8, <3>9
  <2>2. CASE Head(inbox).kind = "interrupt" /\ ServeInterrupt(Head(inbox).of)
    BY <1>5, <2>2, ServeFacts DEF Serve, ServeInterrupt
  <2> QED
    BY <1>5, <2>1, <2>2 DEF Serve
<1>6. CASE ServerDies \/ ServerKilled
  BY <1>6 DEF ServerDies, ServerKilled, Lose, LostSlots, Unregistered
<1> HIDE DEF Goto, Return, Unlocked, caller, client, server, link, Early, Busy, EndKinds,
      Replies, Live, Sorts, Popped, Pushed, Steps, Answers, Ends, Turns, Results, MessageKinds,
      FreshCalls, CallsPending, MessagesTrue, AnswerFirst, AnswerSent, AnswersTrue,
      WaitersKept, ItemFirst, Caught, Gone, Returned, ItemBefore
<1> QED
  BY <1>1, <1>2, <1>3, <1>4, <1>5, <1>6 DEF Next, EndTurn, EndKinds

\* What a waiter is given is the end of its own turn.
LEMMA SlotsStep ==
  ASSUME TypeOK, FreshCalls, RequestsOnce, MessagesTrue, WaitersKept, SlotsTrue, ItemFirst,
         [Next]_vars
  PROVE  SlotsTrue'
<1> Sorts
  BY SortsHold
<1> USE TurnsAssumption DEF Goto, Return, Unlocked, caller, client, server, link, Early, Busy,
      EndKinds, Replies, Live, Sorts, Popped, Pushed, Steps, Answers, Ends, Turns, Results,
      MessageKinds, FreshCalls, RequestsOnce, MessagesTrue, WaitersKept, SlotsTrue, ItemFirst,
      Caught, Gone, Returned, ItemBefore, Asked
<1>1. CASE UNCHANGED vars BY <1>1 DEF vars
<1>2. ASSUME NEW c \in Callers, Run(c) \/ Expire(c) \/ Speak(c) PROVE SlotsTrue'
  <2>1. CASE Arrive(c) BY <2>1, RequestFacts DEF Arrive, ActiveOn
  <2>2. CASE Lock(c) BY <2>2 DEF Lock
  <2>3. CASE StartTurn(c) BY <2>3 DEF StartTurn, Bound
  <2>4. CASE WriteStart(c) BY <2>4, RequestFacts DEF WriteStart
  <2>5. CASE AwaitStart(c) BY <2>5 DEF AwaitStart
  <2>6. CASE Register(c) BY <2>6 DEF Register
  <2>7. CASE AwaitTurn(c) BY <2>7, RequestFacts DEF AwaitTurn, Outcome
  <2>8. CASE AwaitGrace(c) BY <2>8 DEF AwaitGrace
  <2>9. CASE Reply(c) BY <2>9 DEF Reply
  <2>10. CASE Expire(c) BY <2>10 DEF Expire
  <2>11. CASE Speak(c)
    <3>1. Pushed(net, net', "item", c)
      BY <2>11, EmitFacts DEF Speak
    <3> QED
      BY <2>11, <3>1 DEF Speak
  <2> QED
    BY <1>2, <2>1, <2>2, <2>3, <2>4, <2>5, <2>6, <2>7, <2>8, <2>9, <2>10, <2>11 DEF Run
<1>3. ASSUME NEW c \in Callers, NEW end \in EndKinds, Finish(c, end) PROVE SlotsTrue'
  <2>1. Pushed(net, net', end, c)
    BY <1>3, EmitFacts DEF Finish
  <2> QED
    BY <1>3, <2>1 DEF Finish
<1>4. CASE Deliver
  <2>1. CASE DeliverAnswer(Head(net)) BY <1>4, <2>1, DeliverFacts DEF Deliver, DeliverAnswer
  <2>2. CASE DeliverItem(Head(net))
    BY <1>4, <2>2, DeliverFacts DEF Deliver, DeliverItem, Miss, Unregistered
  <2>3. CASE DeliverEnd(Head(net))
    BY <1>4, <2>3, DeliverFacts DEF Deliver, DeliverEnd, Miss, Unregistered
  <2> QED
    BY <1>4, <2>1, <2>2, <2>3 DEF Deliver
<1>5. CASE Serve
  <2>1. CASE Head(inbox).kind = "start" /\ ServeStart(Head(inbox).of) /\ UNCHANGED stopping
    <3> DEFINE d == inbox[1].of
    <3>1. /\ d \in Callers /\ Asked(1, d) /\ ServeStart(d)
          /\ UNCHANGED <<caller, client, missed>>
      BY <1>5, <2>1, ServeFacts DEF Serve, Asked
    <3>2. Popped(inbox, inbox')
      BY <1>5, ServeFacts
    <3>3. CASE turn' = [turn EXCEPT ![d] = "running"] /\ Emit("ok", d)
      <4>1. Pushed(net, net', "ok", d)
        BY <3>1, <3>3, EmitFacts
      <4> QED
        BY <3>1, <3>2, <3>3, <4>1
    <3>4. CASE Emit("refused", d) /\ UNCHANGED turn
      <4>1. Pushed(net, net', "refused", d)
        BY <3>1, <3>4, EmitFacts
      <4> QED
        BY <3>1, <3>2, <3>4, <4>1
    <3> QED
      BY <3>1, <3>3, <3>4 DEF ServeStart
  <2>2. CASE Head(inbox).kind = "interrupt" /\ ServeInterrupt(Head(inbox).of)
    BY <1>5, <2>2, ServeFacts DEF Serve, ServeInterrupt
  <2> QED
    BY <1>5, <2>1, <2>2 DEF Serve
<1>6. CASE ServerDies \/ ServerKilled
  BY <1>6 DEF ServerDies, ServerKilled, Lose, LostSlots, Unregistered
<1> HIDE DEF Goto, Return, Unlocked, caller, client, server, link, Early, Busy, EndKinds,
      Replies, Live, Sorts, Popped, Pushed, Steps, Answers, Ends, Turns, Results, MessageKinds,
      FreshCalls, RequestsOnce, MessagesTrue, WaitersKept, SlotsTrue, ItemFirst, Caught, Gone,
      Returned, ItemBefore, Asked
<1> QED
  BY <1>1, <1>2, <1>3, <1>4, <1>5, <1>6 DEF Next, EndTurn, EndKinds

\* A waiter leaves the map when runTurn returns or with an end in its channel.
LEMMA WaitersStep ==
  ASSUME TypeOK, FreshCalls, WaitersKept, SlotsTrue, [Next]_vars
  PROVE  WaitersKept'
<1> Sorts
  BY SortsHold
<1> USE TurnsAssumption DEF Goto, Return, Unlocked, caller, client, server, link, Early, Busy,
      EndKinds, Replies, Live, Sorts, Popped, Pushed, Steps, Answers, Ends, Turns, Results,
      MessageKinds, FreshCalls, WaitersKept, SlotsTrue
<1>1. CASE UNCHANGED vars BY <1>1 DEF vars
<1>2. ASSUME NEW c \in Callers, Run(c) \/ Expire(c) \/ Speak(c) PROVE WaitersKept'
  <2>1. CASE Arrive(c) BY <2>1, RequestFacts DEF Arrive, ActiveOn
  <2>2. CASE Lock(c) BY <2>2 DEF Lock
  <2>3. CASE StartTurn(c) BY <2>3 DEF StartTurn, Bound
  <2>4. CASE WriteStart(c) BY <2>4, RequestFacts DEF WriteStart
  <2>5. CASE AwaitStart(c) BY <2>5 DEF AwaitStart
  <2>6. CASE Register(c) BY <2>6 DEF Register
  <2>7. CASE AwaitTurn(c) BY <2>7, RequestFacts DEF AwaitTurn, Outcome
  <2>8. CASE AwaitGrace(c) BY <2>8 DEF AwaitGrace
  <2>9. CASE Reply(c) BY <2>9 DEF Reply
  <2>10. CASE Expire(c) BY <2>10 DEF Expire
  <2>11. CASE Speak(c) BY <2>11, EmitFacts DEF Speak
  <2> QED
    BY <1>2, <2>1, <2>2, <2>3, <2>4, <2>5, <2>6, <2>7, <2>8, <2>9, <2>10, <2>11 DEF Run
<1>3. ASSUME NEW c \in Callers, NEW end \in EndKinds, Finish(c, end) PROVE WaitersKept'
  BY <1>3, EmitFacts DEF Finish
<1>4. CASE Deliver
  <2>1. CASE DeliverAnswer(Head(net)) BY <1>4, <2>1, DeliverFacts DEF Deliver, DeliverAnswer
  <2>2. CASE DeliverItem(Head(net))
    BY <1>4, <2>2, DeliverFacts DEF Deliver, DeliverItem, Miss, Unregistered
  <2>3. CASE DeliverEnd(Head(net))
    BY <1>4, <2>3, DeliverFacts DEF Deliver, DeliverEnd, Miss, Unregistered
  <2> QED
    BY <1>4, <2>1, <2>2, <2>3 DEF Deliver
<1>5. CASE Serve
  <2>1. CASE Head(inbox).kind = "start" /\ ServeStart(Head(inbox).of) /\ UNCHANGED stopping
    BY <1>5, <2>1, ServeFacts, EmitFacts DEF Serve, ServeStart
  <2>2. CASE Head(inbox).kind = "interrupt" /\ ServeInterrupt(Head(inbox).of)
    BY <1>5, <2>2, ServeFacts DEF Serve, ServeInterrupt
  <2> QED
    BY <1>5, <2>1, <2>2 DEF Serve
<1>6. CASE ServerDies \/ ServerKilled
  BY <1>6 DEF ServerDies, ServerKilled, Lose, LostSlots, Unregistered
<1> HIDE DEF Goto, Return, Unlocked, caller, client, server, link, Early, Busy, EndKinds,
      Replies, Live, Sorts, Popped, Pushed, Steps, Answers, Ends, Turns, Results, MessageKinds,
      FreshCalls, WaitersKept, SlotsTrue
<1> QED
  BY <1>1, <1>2, <1>3, <1>4, <1>5, <1>6 DEF Next, EndTurn, EndKinds

\* A caller that waits keeps something to wake it, unless it misses something.
LEMMA WakeStep ==
  ASSUME TypeOK, FreshCalls, MessagesTrue, AnswerFirst, EndFollows, WaitersKept, WakeUp,
         SlotsTrue, [Next]_vars
  PROVE  WakeUp'
<1> Sorts
  BY SortsHold
<1> USE TurnsAssumption DEF Goto, Return, Unlocked, caller, client, server, link, Early, Busy,
      EndKinds, Replies, Live, Sorts, Popped, Pushed, Steps, Answers, Ends, Turns, Results,
      MessageKinds, FreshCalls, MessagesTrue, AnswerFirst, EndFollows, WaitersKept, WakeUp,
      SlotsTrue, EndOnItsWay, Waits
<1>1. CASE UNCHANGED vars BY <1>1 DEF vars
<1>2. ASSUME NEW c \in Callers, Run(c) \/ Expire(c) \/ Speak(c) PROVE WakeUp'
  <2>1. CASE Arrive(c) BY <2>1, RequestFacts DEF Arrive, ActiveOn
  <2>2. CASE Lock(c) BY <2>2 DEF Lock
  <2>3. CASE StartTurn(c) BY <2>3 DEF StartTurn, Bound
  <2>4. CASE WriteStart(c) BY <2>4, RequestFacts DEF WriteStart
  <2>5. CASE AwaitStart(c) BY <2>5 DEF AwaitStart
  <2>6. CASE Register(c) BY <2>6 DEF Register
  <2>7. CASE AwaitTurn(c) BY <2>7, RequestFacts DEF AwaitTurn, Outcome
  <2>8. CASE AwaitGrace(c) BY <2>8 DEF AwaitGrace
  <2>9. CASE Reply(c) BY <2>9 DEF Reply
  <2>10. CASE Expire(c) BY <2>10 DEF Expire
  <2>11. CASE Speak(c)
    <3>1. Pushed(net, net', "item", c)
      BY <2>11, EmitFacts DEF Speak
    <3> QED
      BY <2>11, <3>1 DEF Speak
  <2> QED
    BY <1>2, <2>1, <2>2, <2>3, <2>4, <2>5, <2>6, <2>7, <2>8, <2>9, <2>10, <2>11 DEF Run
<1>3. ASSUME NEW c \in Callers, NEW end \in EndKinds, Finish(c, end) PROVE WakeUp'
  <2>1. Pushed(net, net', end, c)
    BY <1>3, EmitFacts DEF Finish
  <2> QED
    BY <1>3, <2>1 DEF Finish
<1>4. CASE Deliver
  <2> SUFFICES ASSUME NEW e \in Callers, Waits(e)' PROVE e \in missed' \/ EndOnItsWay(e)'
    OBVIOUS
  <2>5. Popped(net, net') /\ Head(net) = net[1] /\ net[1].of \in Callers
    BY <1>4, DeliverFacts
  <2>6. UNCHANGED <<caller, waiting, turn>> /\ missed \subseteq missed'
    BY <1>4 DEF Deliver, DeliverAnswer, DeliverItem, DeliverEnd, Miss
  <2>1. CASE DeliverAnswer(Head(net))
    <3>1. Waits(e) \/ (net[1].of = e /\ net[1].kind = "ok")
      BY <1>4, <2>1, <2>5, <2>6 DEF DeliverAnswer
    <3>2. e \in missed \/ EndOnItsWay(e)
      BY <2>5, <3>1
    <3>3. ~(net[1].of = e /\ net[1].kind \in EndKinds) \/ e \in missed'
      BY <1>4, <2>1, <2>5, <2>6, <3>1 DEF DeliverAnswer
    <3> QED
      BY <2>5, <2>6, <3>2, <3>3, EndMoves
  <2>2. CASE DeliverItem(Head(net))
    <3>1. Waits(e) \/ (net[1].of = e /\ net[1].kind = "ok")
      BY <1>4, <2>2, <2>5, <2>6 DEF DeliverItem
    <3>2. e \in missed \/ EndOnItsWay(e)
      BY <2>5, <3>1
    <3>3. ~(net[1].of = e /\ net[1].kind \in EndKinds) \/ e \in missed'
      BY <1>4, <2>2, <2>5, <2>6, <3>1 DEF DeliverItem
    <3> QED
      BY <2>5, <2>6, <3>2, <3>3, EndMoves
  <2>3. CASE DeliverEnd(Head(net))
    <3>1. Waits(e) \/ (net[1].of = e /\ net[1].kind = "ok")
      BY <1>4, <2>3, <2>5, <2>6 DEF DeliverEnd
    <3>2. e \in missed \/ EndOnItsWay(e)
      BY <2>5, <3>1
    <3>3. ~(net[1].of = e /\ net[1].kind \in EndKinds) \/ e \in missed'
      BY <1>4, <2>3, <2>5, <2>6, <3>1 DEF DeliverEnd, Miss, Unregistered
    <3> QED
      BY <2>5, <2>6, <3>2, <3>3, EndMoves
  <2> QED
    BY <1>4, <2>1, <2>2, <2>3 DEF Deliver
<1>5. CASE Serve
  <2>1. CASE Head(inbox).kind = "start" /\ ServeStart(Head(inbox).of) /\ UNCHANGED stopping
    <3> DEFINE d == inbox[1].of
    <3>1. /\ d \in Callers /\ Asked(1, d) /\ ServeStart(d)
          /\ UNCHANGED <<caller, client, missed>>
      BY <1>5, <2>1, ServeFacts DEF Serve, Asked
    <3>2. Popped(inbox, inbox')
      BY <1>5, ServeFacts
    <3>3. PICK k \in {"ok", "refused"} : Emit(k, d)
      BY <3>1 DEF ServeStart
    <3>4. Pushed(net, net', k, d)
      BY <3>1, <3>3, EmitFacts
    <3>5. turn' = [turn EXCEPT ![d] = "running"] \/ UNCHANGED turn
      BY <3>1 DEF ServeStart
    <3> SUFFICES ASSUME NEW e \in Callers, EndOnItsWay(e) PROVE EndOnItsWay(e)'
      BY <3>1
    <3>6. turn[e] \in Live => turn'[e] \in Live
      BY <3>1, <3>5
    <3> QED
      BY <3>4, <3>6, EndStays DEF EndOnItsWay
  <2>2. CASE Head(inbox).kind = "interrupt" /\ ServeInterrupt(Head(inbox).of)
    BY <1>5, <2>2, ServeFacts DEF Serve, ServeInterrupt
  <2> QED
    BY <1>5, <2>1, <2>2 DEF Serve
<1>6. CASE ServerDies \/ ServerKilled
  BY <1>6 DEF ServerDies, ServerKilled, Lose, LostSlots, Unregistered
<1> HIDE DEF Goto, Return, Unlocked, caller, client, server, link, Early, Busy, EndKinds,
      Replies, Live, Sorts, Popped, Pushed, Steps, Answers, Ends, Turns, Results, MessageKinds,
      FreshCalls, MessagesTrue, AnswerFirst, EndFollows, WaitersKept, WakeUp, SlotsTrue,
      EndOnItsWay, Waits
<1> QED
  BY <1>1, <1>2, <1>3, <1>4, <1>5, <1>6 DEF Next, EndTurn, EndKinds

\* A turn whose caller has returned, other than by deadline or loss, does not run any more.
LEMMA ResultsStep ==
  ASSUME TypeOK, FreshCalls, RequestsOnce, MessagesTrue, AnswersTrue, SlotsTrue, ResultsFinal,
         [Next]_vars
  PROVE  ResultsFinal'
<1> Sorts
  BY SortsHold
<1> USE TurnsAssumption DEF Goto, Return, Unlocked, caller, client, server, link, Early, Busy,
      EndKinds, Replies, Live, Sorts, Popped, Pushed, Steps, Answers, Ends, Turns, Results,
      MessageKinds, FreshCalls, RequestsOnce, AnswersTrue, SlotsTrue, ResultsFinal, Returned,
      Asked, NoRequest
<1>1. CASE UNCHANGED vars BY <1>1 DEF vars
<1>2. ASSUME NEW c \in Callers, Run(c) \/ Expire(c) \/ Speak(c) PROVE ResultsFinal'
  <2>1. CASE Arrive(c) BY <2>1, RequestFacts DEF Arrive, ActiveOn
  <2>2. CASE Lock(c) BY <2>2 DEF Lock
  <2>3. CASE StartTurn(c) BY <2>3 DEF StartTurn, Bound
  <2>4. CASE WriteStart(c) BY <2>4, RequestFacts DEF WriteStart
  <2>5. CASE AwaitStart(c) BY <2>5 DEF AwaitStart
  <2>6. CASE Register(c) BY <2>6 DEF Register
  <2>7. CASE AwaitTurn(c) BY <2>7, RequestFacts DEF AwaitTurn, Outcome
  <2>8. CASE AwaitGrace(c) BY <2>8 DEF AwaitGrace
  <2>9. CASE Reply(c) BY <2>9 DEF Reply
  <2>10. CASE Expire(c) BY <2>10 DEF Expire
  <2>11. CASE Speak(c)
    <3>1. Pushed(net, net', "item", c)
      BY <2>11, EmitFacts DEF Speak
    <3> QED
      BY <2>11, <3>1 DEF Speak
  <2> QED
    BY <1>2, <2>1, <2>2, <2>3, <2>4, <2>5, <2>6, <2>7, <2>8, <2>9, <2>10, <2>11 DEF Run
<1>3. ASSUME NEW c \in Callers, NEW end \in EndKinds, Finish(c, end) PROVE ResultsFinal'
  <2>1. Pushed(net, net', end, c)
    BY <1>3, EmitFacts DEF Finish
  <2> QED
    BY <1>3, <2>1 DEF Finish
<1>4. CASE Deliver
  <2>1. CASE DeliverAnswer(Head(net)) BY <1>4, <2>1, DeliverFacts DEF Deliver, DeliverAnswer
  <2>2. CASE DeliverItem(Head(net))
    BY <1>4, <2>2, DeliverFacts DEF Deliver, DeliverItem, Miss, Unregistered
  <2>3. CASE DeliverEnd(Head(net))
    BY <1>4, <2>3, DeliverFacts DEF Deliver, DeliverEnd, Miss, Unregistered
  <2> QED
    BY <1>4, <2>1, <2>2, <2>3 DEF Deliver
<1>5. CASE Serve
  <2>1. CASE Head(inbox).kind = "start" /\ ServeStart(Head(inbox).of) /\ UNCHANGED stopping
    <3> DEFINE d == inbox[1].of
    <3>1. /\ d \in Callers /\ Asked(1, d) /\ ServeStart(d)
          /\ UNCHANGED <<caller, client, missed>>
      BY <1>5, <2>1, ServeFacts DEF Serve, Asked
    <3>2. Popped(inbox, inbox')
      BY <1>5, ServeFacts
    <3>3. PICK k \in {"ok", "refused"} : Emit(k, d)
      BY <3>1 DEF ServeStart
    <3>4. Pushed(net, net', k, d)
      BY <3>1, <3>3, EmitFacts
    <3>5. turn' = [turn EXCEPT ![d] = "running"] \/ UNCHANGED turn
      BY <3>1 DEF ServeStart
    <3>6. \A e \in Callers : Returned(e) /\ result[e] \notin {"deadline", "lost"} => e # d
      BY <3>1, <3>2
    <3>7. \A e \in Callers : NoRequest(e) => NoRequest(e)'
      BY <3>2
    <3> QED
      BY <3>1, <3>5, <3>6, <3>7
  <2>2. CASE Head(inbox).kind = "interrupt" /\ ServeInterrupt(Head(inbox).of)
    BY <1>5, <2>2, ServeFacts DEF Serve, ServeInterrupt
  <2> QED
    BY <1>5, <2>1, <2>2 DEF Serve
<1>6. CASE ServerDies \/ ServerKilled
  BY <1>6 DEF ServerDies, ServerKilled, Lose, LostSlots, Unregistered
<1> HIDE DEF Goto, Return, Unlocked, caller, client, server, link, Early, Busy, EndKinds,
      Replies, Live, Sorts, Popped, Pushed, Steps, Answers, Ends, Turns, Results, MessageKinds,
      FreshCalls, RequestsOnce, AnswersTrue, SlotsTrue, ResultsFinal, Returned, Asked, NoRequest
<1> QED
  BY <1>1, <1>2, <1>3, <1>4, <1>5, <1>6 DEF Next, EndTurn, EndKinds

\* A result is what the waiter was given, and the turn keeps it.
LEMMA OwnStep ==
  ASSUME TypeOK, FreshCalls, RequestsOnce, MessagesTrue, SlotsTrue, ResultsFinal, OwnResult,
         [Next]_vars
  PROVE  OwnResult'
<1> Sorts
  BY SortsHold
<1> USE TurnsAssumption DEF Goto, Return, Unlocked, caller, client, server, link, Early, Busy,
      EndKinds, Replies, Live, Sorts, Popped, Pushed, Steps, Answers, Ends, Turns, Results,
      MessageKinds, FreshCalls, RequestsOnce, SlotsTrue, ResultsFinal, OwnResult, Returned,
      Asked
<1>1. CASE UNCHANGED vars BY <1>1 DEF vars
<1>2. ASSUME NEW c \in Callers, Run(c) \/ Expire(c) \/ Speak(c) PROVE OwnResult'
  <2>1. CASE Arrive(c) BY <2>1, RequestFacts DEF Arrive, ActiveOn
  <2>2. CASE Lock(c) BY <2>2 DEF Lock
  <2>3. CASE StartTurn(c) BY <2>3 DEF StartTurn, Bound
  <2>4. CASE WriteStart(c) BY <2>4, RequestFacts DEF WriteStart
  <2>5. CASE AwaitStart(c) BY <2>5 DEF AwaitStart
  <2>6. CASE Register(c) BY <2>6 DEF Register
  <2>7. CASE AwaitTurn(c) BY <2>7, RequestFacts DEF AwaitTurn, Outcome
  <2>8. CASE AwaitGrace(c) BY <2>8 DEF AwaitGrace
  <2>9. CASE Reply(c) BY <2>9 DEF Reply
  <2>10. CASE Expire(c) BY <2>10 DEF Expire
  <2>11. CASE Speak(c) BY <2>11, EmitFacts DEF Speak
  <2> QED
    BY <1>2, <2>1, <2>2, <2>3, <2>4, <2>5, <2>6, <2>7, <2>8, <2>9, <2>10, <2>11 DEF Run
<1>3. ASSUME NEW c \in Callers, NEW end \in EndKinds, Finish(c, end) PROVE OwnResult'
  BY <1>3, EmitFacts DEF Finish
<1>4. CASE Deliver
  <2>1. CASE DeliverAnswer(Head(net)) BY <1>4, <2>1, DeliverFacts DEF Deliver, DeliverAnswer
  <2>2. CASE DeliverItem(Head(net))
    BY <1>4, <2>2, DeliverFacts DEF Deliver, DeliverItem, Miss, Unregistered
  <2>3. CASE DeliverEnd(Head(net))
    BY <1>4, <2>3, DeliverFacts DEF Deliver, DeliverEnd, Miss, Unregistered
  <2> QED
    BY <1>4, <2>1, <2>2, <2>3 DEF Deliver
<1>5. CASE Serve
  <2>1. CASE Head(inbox).kind = "start" /\ ServeStart(Head(inbox).of) /\ UNCHANGED stopping
    BY <1>5, <2>1, ServeFacts, EmitFacts DEF Serve, ServeStart
  <2>2. CASE Head(inbox).kind = "interrupt" /\ ServeInterrupt(Head(inbox).of)
    BY <1>5, <2>2, ServeFacts DEF Serve, ServeInterrupt
  <2> QED
    BY <1>5, <2>1, <2>2 DEF Serve
<1>6. CASE ServerDies \/ ServerKilled
  BY <1>6 DEF ServerDies, ServerKilled, Lose, LostSlots, Unregistered
<1> HIDE DEF Goto, Return, Unlocked, caller, client, server, link, Early, Busy, EndKinds,
      Replies, Live, Sorts, Popped, Pushed, Steps, Answers, Ends, Turns, Results, MessageKinds,
      FreshCalls, RequestsOnce, SlotsTrue, ResultsFinal, OwnResult, Returned, Asked
<1> QED
  BY <1>1, <1>2, <1>3, <1>4, <1>5, <1>6 DEF Next, EndTurn, EndKinds

-----------------------------------------------------------------------------
\* Bootstrap leaves a state that the invariant allows.
LEMMA InitInv == Init => IInv
<1> SUFFICES ASSUME Init PROVE IInv
  OBVIOUS
<1> USE TurnsAssumption DEF Init
<1>1. Len(inbox) = 0 /\ Len(net) = 0 /\ inbox \in Seq(Requests) /\ net \in Seq(Messages)
  BY EmptySeq
<1>2. TypeOK
  BY <1>1 DEF TypeOK, Steps, Answers, Ends, Results, Turns
<1>3. LocksHeld /\ FreshCalls /\ CallsPending /\ WaitersKept /\ AnswersTrue
  BY <1>1 DEF LocksHeld, FreshCalls, CallsPending, WaitersKept, AnswersTrue, Busy, Early,
       NoRequest, Silent
<1>4. RequestsOnce /\ MessagesTrue /\ AnswerFirst /\ EndFollows
  BY <1>1 DEF RequestsOnce, MessagesTrue, AnswerFirst, EndFollows
<1>5. AnswerSent /\ ItemFirst /\ SlotsTrue /\ WakeUp /\ ResultsFinal /\ OwnResult
  BY <1>1 DEF AnswerSent, ItemFirst, SlotsTrue, WakeUp, ResultsFinal, OwnResult, Waits, Returned,
       EndKinds, Early
<1> QED
  BY <1>2, <1>3, <1>4, <1>5 DEF IInv

\* Every step keeps the invariant.
LEMMA InvStep == IInv /\ [Next]_vars => IInv'
BY TypeStep, LocksStep, PendingStep, FreshStep, OnceStep, TrueStep, FirstStep, SentStep,
   FollowsStep, AnswersStep, ItemStep, SlotsStep, WaitersStep, WakeStep, ResultsStep,
   OwnStep DEF IInv

\* So it always holds.
LEMMA InvAlways == Spec => []IInv
BY InitInv, InvStep, PTL DEF Spec

\* The variables have their types in every run of the callers, the client and the server.
THEOREM TypeCorrect == Spec => []TypeOK
<1>1. IInv => TypeOK
  BY DEF IInv
<1> QED
  BY InvAlways, <1>1, PTL

\* runTurn's thread lock: the server runs two turns of one thread at once only when one
\* caller has left its turn at its deadline or with a connection loss.
THEOREM TurnsDoNotOverlap == Spec => []OneLiveTurn
<1>1. IInv => OneLiveTurn
  <2> SUFFICES ASSUME IInv, NEW c \in Callers, NEW d \in Callers, c # d,
                      ThreadOf[c] = ThreadOf[d], turn[c] \in Live, turn[d] \in Live
               PROVE  \E e \in {c, d} : Returned(e) /\ result[e] \in {"deadline", "lost"}
    BY DEF OneLiveTurn
  <2> USE TurnsAssumption DEF IInv, TypeOK, Live
  <2>1. \A e \in {c, d} : pc[e] \in Busy \/ Returned(e)
    BY DEF FreshCalls, Busy, Early, Returned, Steps
  <2>2. \A e \in {c, d} : Returned(e) => result[e] \in {"deadline", "lost"}
    BY DEF ResultsFinal
  <2>3. ~(pc[c] \in Busy /\ pc[d] \in Busy)
    BY DEF LocksHeld
  <2> QED
    BY <2>1, <2>2, <2>3
<1> QED
  BY InvAlways, <1>1, PTL

\* What runTurn returns is the end of its own turn, and a text only what its waiter heard.
THEOREM ResultsAreOwn == Spec => []OwnResult
<1>1. IInv => OwnResult
  BY DEF IInv
<1> QED
  BY InvAlways, <1>1, PTL

\* A caller in runTurn's select has something to wake it, unless something of its turn
\* came before its waiter was registered.
THEOREM WaitersAreWoken == Spec => []NoSilentWait
<1>1. IInv => NoSilentWait
  BY DEF IInv, NoSilentWait, WakeUp, Waits, WaitersKept
<1> QED
  BY InvAlways, <1>1, PTL

-----------------------------------------------------------------------------
(* The contract of RunTurn. *)

\* Only a caller whose deadline passed waits for the answer to its interrupt.
GraceTimed == \A c \in Callers : pc[c] = "grace" => c \in expired

\* The deadline of a caller that waits so does not come back.
LEMMA GraceStep == TypeOK /\ GraceTimed /\ [Next]_vars => GraceTimed'
<1> SUFFICES ASSUME TypeOK, GraceTimed, [Next]_vars PROVE GraceTimed'
  OBVIOUS
<1> USE DEF TypeOK, GraceTimed, caller, client, server, link
<1>1. CASE UNCHANGED vars BY <1>1 DEF vars
<1>2. ASSUME NEW c \in Callers, Run(c) PROVE GraceTimed'
  <2>1. CASE \/ Arrive(c) \/ Lock(c) \/ StartTurn(c) \/ WriteStart(c) \/ AwaitStart(c)
             \/ Register(c) \/ AwaitGrace(c) \/ Reply(c)
    BY <2>1 DEF Arrive, Lock, StartTurn, WriteStart, AwaitStart, Register, AwaitGrace, Reply,
                Return, Goto
  <2>2. CASE AwaitTurn(c)
    BY <2>2 DEF AwaitTurn, Return, Goto
  <2> QED
    BY <1>2, <2>1, <2>2 DEF Run
<1>3. ASSUME NEW c \in Callers, Expire(c) PROVE GraceTimed'
  BY <1>3 DEF Expire
<1>4. ASSUME UNCHANGED caller PROVE GraceTimed'
  BY <1>4
<1>5. CASE Deliver \/ Serve \/ ServerDies \/ ServerKilled
  BY <1>4, <1>5 DEF Deliver, Serve, ServerDies, ServerKilled, Lose
<1>6. ASSUME NEW c \in Callers, Speak(c) \/ EndTurn(c) PROVE GraceTimed'
  BY <1>4, <1>6 DEF Speak, EndTurn, Finish
<1> HIDE DEF GraceTimed
<1> QED
  BY <1>1, <1>2, <1>3, <1>5, <1>6 DEF Next

\* What the contract sees: where the callers are, and what their turns came to.
Places == [c \in Callers |-> PlaceOf(pc[c])]
FatesNow == [c \in Callers |-> FateOf(turn[c])]

\* The places of a caller that is in runTurn, and of one that is not.
LEMMA PlaceFacts ==
  /\ PlaceOf("new") = "away" /\ PlaceOf("lock") = "queued"
  /\ PlaceOf("reply") = "out" /\ PlaceOf("done") = "out"
  /\ \A s \in Steps : PlaceOf(s) = "inside" <=> s \in Busy
BY DEF PlaceOf, Steps, Busy

\* A caller that goes from one step to another changes its own place only.
LEMMA PlaceMoves ==
  ASSUME TypeOK, NEW c \in Callers, NEW s, pc' = [pc EXCEPT ![c] = s]
  PROVE  /\ Places' = [Places EXCEPT ![c] = PlaceOf(s)]
         /\ PlaceOf(s) = PlaceOf(pc[c]) => UNCHANGED Places
BY DEF TypeOK, Places

\* A turn that changes changes its own fate only.
LEMMA FateMoves ==
  ASSUME TypeOK, NEW c \in Callers, NEW e, turn' = [turn EXCEPT ![c] = e]
  PROVE  /\ FatesNow' = [FatesNow EXCEPT ![c] = FateOf(e)]
         /\ FateOf(e) = FateOf(turn[c]) => UNCHANGED FatesNow
BY DEF TypeOK, FatesNow

\* A caller that returns is told r.
LEMMA ReturnTells ==
  ASSUME TypeOK, NEW c \in Callers, pc[c] \in Busy,
         NEW r \in {"text", "partial", "interrupted", "error", "lost", "deadline"},
         Return(c, r), UNCHANGED turn,
         FateOf(turn[c]) \in Contract!Fates(r), r = "deadline" => c \in Timed
  PROVE  Contract!ContractNext
<1>1. PICK s \in {"reply", "done"} : pc' = [pc EXCEPT ![c] = s]
  BY DEF Return, Goto
<1>2. Places' = [Places EXCEPT ![c] = "out"] /\ Places[c] = "inside"
  BY <1>1, PlaceMoves, PlaceFacts DEF Places, TypeOK
<1>3. UNCHANGED FatesNow /\ FatesNow[c] = FateOf(turn[c])
  BY DEF FatesNow
<1>4. result' = [result EXCEPT ![c] = r]
  BY DEF Return
<1>5. Contract!Tell(c, r)
  BY <1>2, <1>3, <1>4 DEF Contract!Tell, Places, FatesNow
<1> QED
  BY <1>5 DEF Contract!ContractNext

\* A caller's steps.
LEMMA RunKeeps ==
  ASSUME IInv, GraceTimed, NEW c \in Callers, Run(c)
  PROVE  Contract!ContractNext \/ UNCHANGED <<Places, result, FatesNow>>
<1> DEFINE Goal == Contract!ContractNext \/ UNCHANGED <<Places, result, FatesNow>>
<1> SUFFICES Goal
  OBVIOUS
<1>1. TypeOK /\ LocksHeld /\ FreshCalls /\ AnswersTrue /\ SlotsTrue /\ OwnResult
  BY DEF IInv
<1>2. UNCHANGED turn /\ UNCHANGED FatesNow
  BY DEF Run, Arrive, Lock, StartTurn, WriteStart, AwaitStart, Register, AwaitTurn, AwaitGrace,
         Reply, server, FatesNow
<1>3. ASSUME NEW s, Goto(c, s), PlaceOf(s) = PlaceOf(pc[c]), UNCHANGED result PROVE Goal
  BY <1>1, <1>2, <1>3, PlaceMoves DEF Goto
<1>4. CASE Arrive(c)
  <2>1. Places' = [Places EXCEPT ![c] = "queued"] /\ Places[c] = "away"
    BY <1>1, <1>4, PlaceMoves, PlaceFacts DEF Arrive, Goto, Places, TypeOK
  <2>2. Contract!Ask(c)
    BY <1>2, <1>4, <2>1 DEF Arrive, Contract!Ask, Places, FatesNow
  <2> QED
    BY <2>2 DEF Contract!ContractNext
<1>5. CASE Lock(c)
  <2>1. Places' = [Places EXCEPT ![c] = "inside"] /\ Places[c] = "queued"
    BY <1>1, <1>5, PlaceMoves, PlaceFacts DEF Lock, Goto, Places, TypeOK, Steps, Busy
  <2>2. ASSUME NEW v \in Callers, ThreadOf[v] = ThreadOf[c] PROVE Places[v] # "inside"
    <3>1. pc[v] \notin Busy
      BY <1>1, <1>5, <2>2, TurnsAssumption DEF Lock, LocksHeld
    <3> QED
      BY <1>1, <3>1, PlaceFacts DEF TypeOK, Places
  <2>3. Contract!Enter(c)
    BY <1>2, <1>5, <2>1, <2>2 DEF Lock, Contract!Enter, Places, FatesNow
  <2> QED
    BY <2>3 DEF Contract!ContractNext
<1>6. ASSUME pc[c] \in Busy,
             NEW r \in {"text", "partial", "interrupted", "error", "lost", "deadline"},
             Return(c, r), FateOf(turn[c]) \in Contract!Fates(r), r = "deadline" => c \in Timed
      PROVE  Goal
  BY <1>1, <1>2, <1>6, ReturnTells
<1>7. ASSUME pc[c] \in Busy, Return(c, "lost") \/ (Return(c, "deadline") /\ c \in Timed) PROVE Goal
  <2>1. \A r \in {"lost", "deadline"} : FateOf(turn[c]) \in Contract!Fates(r)
    BY <1>1 DEF Contract!Fates, FateOf, TypeOK, Turns, Live
  <2> HIDE DEF Goal
  <2> QED
    BY <1>6, <1>7, <2>1
<1>8. ASSUME pc[c] \in Busy, Return(c, "error"), turn[c] \in {"none", "error"} PROVE Goal
  <2>1. FateOf(turn[c]) \in Contract!Fates("error")
    BY <1>8 DEF Contract!Fates, FateOf, Live
  <2> HIDE DEF Goal
  <2> QED
    BY <1>6, <1>8, <2>1
<1>9. ASSUME pc[c] \in Busy, NEW r \in {"text", "partial", "interrupted"}, Return(c, r) PROVE Goal
  <2>1. result'[c] = r /\ turn'[c] = turn[c]
    BY <1>1, <1>2, <1>9 DEF Return, TypeOK
  <2>2. FateOf(turn[c]) \in Contract!Fates(r)
    <3>1. OwnResult'
      BY InvStep DEF IInv, Next
    <3> QED
      BY <2>1, <3>1 DEF OwnResult, Contract!Fates, FateOf, Live
  <2> HIDE DEF Goal
  <2> QED
    BY <1>6, <1>9, <2>2
<1>10. c \in expired => c \in Timed
  BY <1>1 DEF TypeOK
<1>11. CASE StartTurn(c)
  <2>1. \/ Goto(c, "write") /\ UNCHANGED result
        \/ Return(c, "error")
    BY <1>11 DEF StartTurn
  <2>2. pc[c] = "start" /\ turn[c] = "none"
    BY <1>1, <1>11 DEF StartTurn, FreshCalls, Early
  <2> HIDE DEF Goal
  <2> QED
    <3>1. pc[c] \in Busy /\ PlaceOf("write") = PlaceOf(pc[c])
      BY <2>2, PlaceFacts DEF Steps, Busy
    <3>2. CASE Goto(c, "write") /\ UNCHANGED result BY <1>3, <3>1, <3>2
    <3>3. CASE Return(c, "error") BY <1>8, <2>2, <3>1, <3>3
    <3> QED
      BY <2>1, <3>2, <3>3
<1>12. CASE WriteStart(c)
  <2>1. pc[c] = "write"
    BY <1>12 DEF WriteStart
  <2>2. \/ Goto(c, "await") /\ UNCHANGED result
        \/ Return(c, "lost")
    BY <1>12 DEF WriteStart
  <2> HIDE DEF Goal
  <2> QED
    <3>1. pc[c] \in Busy /\ PlaceOf("await") = PlaceOf(pc[c])
      BY <2>1, PlaceFacts DEF Steps, Busy
    <3>2. CASE Goto(c, "await") /\ UNCHANGED result BY <1>3, <3>1, <3>2
    <3>3. CASE Return(c, "lost") BY <1>7, <3>1, <3>3
    <3> QED
      BY <2>2, <3>2, <3>3
<1>13. CASE AwaitStart(c)
  <2>1. pc[c] = "await"
    BY <1>13 DEF AwaitStart
  <2>2. \/ Goto(c, "register") /\ UNCHANGED result
        \/ box[c] = "error" /\ Return(c, "error")
        \/ Return(c, "lost")
        \/ c \in expired /\ Return(c, "deadline")
    BY <1>13 DEF AwaitStart
  <2>3. box[c] = "error" => turn[c] = "none"
    BY <1>1 DEF AnswersTrue
  <2> HIDE DEF Goal
  <2> QED
    <3>1. pc[c] \in Busy /\ PlaceOf("register") = PlaceOf(pc[c])
      BY <2>1, PlaceFacts DEF Steps, Busy
    <3>2. CASE Goto(c, "register") /\ UNCHANGED result BY <1>3, <3>1, <3>2
    <3>3. CASE box[c] = "error" /\ Return(c, "error") BY <1>8, <2>3, <3>1, <3>3
    <3>4. CASE Return(c, "lost") BY <1>7, <3>1, <3>4
    <3>5. CASE c \in expired /\ Return(c, "deadline") BY <1>7, <1>10, <3>1, <3>5
    <3> QED
      BY <2>2, <3>2, <3>3, <3>4, <3>5
<1>14. CASE Register(c)
  BY <1>3, <1>14, PlaceFacts DEF Register, Steps, Busy
<1>15. CASE AwaitTurn(c)
  <2>1. pc[c] = "wait"
    BY <1>15 DEF AwaitTurn
  <2>2. \/ slot[c] # "empty" /\ Return(c, Outcome(c))
        \/ Goto(c, "grace") /\ UNCHANGED result
    BY <1>15 DEF AwaitTurn
  <2>3. slot[c] \in Ends /\ (slot[c] = "error" => turn[c] = "error")
    BY <1>1 DEF TypeOK, SlotsTrue, EndKinds
  <2>4. slot[c] # "empty" => \/ Outcome(c) \in {"text", "partial", "interrupted", "lost"}
                             \/ Outcome(c) = "error" /\ turn[c] = "error"
    BY <2>3 DEF Outcome, Ends
  <2> HIDE DEF Goal
  <2> QED
    <3>1. pc[c] \in Busy /\ PlaceOf("grace") = PlaceOf(pc[c])
      BY <2>1, PlaceFacts DEF Steps, Busy
    <3>2. CASE Goto(c, "grace") /\ UNCHANGED result BY <1>3, <3>1, <3>2
    <3>3. ASSUME NEW r, r = Outcome(c), Return(c, r), slot[c] # "empty" PROVE Goal
      <4>1. CASE r \in {"text", "partial", "interrupted"} BY <1>9, <3>1, <3>3, <4>1
      <4>2. CASE r = "lost" BY <1>7, <3>1, <3>3, <4>2
      <4>3. CASE r = "error" /\ turn[c] = "error" BY <1>8, <3>1, <3>3, <4>3
      <4> QED
        BY <2>4, <3>3, <4>1, <4>2, <4>3
    <3> QED
      BY <2>2, <3>2, <3>3
<1>16. CASE AwaitGrace(c)
  <2>1. pc[c] = "grace" /\ c \in Timed
    BY <1>10, <1>16 DEF AwaitGrace, GraceTimed
  <2>2. \/ slot[c] = "interrupted" /\ Return(c, "interrupted")
        \/ slot[c] = "error" /\ Return(c, "error")
        \/ Return(c, "lost") \/ Return(c, "deadline")
    BY <1>16 DEF AwaitGrace
  <2>3. slot[c] = "error" => turn[c] = "error"
    BY <1>1 DEF SlotsTrue, EndKinds
  <2> HIDE DEF Goal
  <2> QED
    <3>1. pc[c] \in Busy
      BY <2>1 DEF Busy
    <3>2. CASE slot[c] = "interrupted" /\ Return(c, "interrupted") BY <1>9, <3>1, <3>2
    <3>3. CASE slot[c] = "error" /\ Return(c, "error") BY <1>8, <2>3, <3>1, <3>3
    <3>4. CASE Return(c, "lost") \/ Return(c, "deadline") BY <1>7, <2>1, <3>1, <3>4
    <3> QED
      BY <2>2, <3>2, <3>3, <3>4
<1>17. CASE Reply(c)
  BY <1>3, <1>17, PlaceFacts DEF Reply
<1> HIDE DEF Goal
<1> QED
  BY <1>4, <1>5, <1>11, <1>12, <1>13, <1>14, <1>15, <1>16, <1>17 DEF Run

\* A step of the server that starts a turn, and one that ends it.
LEMMA ServeKeeps ==
  ASSUME IInv, Serve
  PROVE  Contract!ContractNext \/ UNCHANGED <<Places, result, FatesNow>>
<1>1. TypeOK /\ FreshCalls /\ RequestsOnce /\ ResultsFinal
  BY DEF IInv
<1>2. UNCHANGED <<pc, result>> /\ UNCHANGED Places
  BY DEF Serve, caller, Places
<1>3. CASE UNCHANGED turn
  BY <1>2, <1>3 DEF FatesNow
<1>4. CASE ~UNCHANGED turn
  <2> DEFINE c == Head(inbox).of
  <2>1. c \in Callers /\ Asked(1, c) /\ 1 \in 1..Len(inbox)
    BY <1>1, <1>4, HeadTypes DEF Serve, ServeStart, ServeInterrupt, Asked, TypeOK, Requests
  <2>2. turn' = [turn EXCEPT ![c] = "running"] /\ turn[c] = "none"
    BY <1>1, <1>4, <2>1 DEF Serve, ServeStart, ServeInterrupt, RequestsOnce
  <2> HIDE DEF c
  <2>3. pc[c] \in Busy \/ result[c] \in {"deadline", "lost"}
    BY <1>1, <2>1 DEF FreshCalls, ResultsFinal, NoRequest, Early, Busy, Returned, TypeOK, Steps
  <2>4. FatesNow' = [FatesNow EXCEPT ![c] = "running"] /\ FatesNow[c] = "none"
    BY <1>1, <2>1, <2>2, FateMoves DEF FatesNow, FateOf, Live
  <2>5. Places[c] = "inside" \/ result[c] \in {"deadline", "lost"}
    BY <1>1, <2>1, <2>3, PlaceFacts DEF Places, TypeOK
  <2>6. Contract!Begin(c)
    BY <1>2, <2>4, <2>5 DEF Contract!Begin, Contract!Abandoned, Places, FatesNow
  <2> QED
    BY <2>1, <2>6 DEF Contract!ContractNext
<1> QED
  BY <1>3, <1>4

\* Every step is one of the contract, or leaves what it sees as it is.
LEMMA StepKeeps ==
  IInv /\ GraceTimed /\ [Next]_vars => [Contract!ContractNext]_<<Places, result, FatesNow>>
<1> SUFFICES ASSUME IInv, GraceTimed, [Next]_vars
             PROVE  Contract!ContractNext \/ UNCHANGED <<Places, result, FatesNow>>
  OBVIOUS
<1> DEFINE Goal == Contract!ContractNext \/ UNCHANGED <<Places, result, FatesNow>>
<1> SUFFICES Goal
  OBVIOUS
<1>1. TypeOK
  BY DEF IInv
<1>2. ASSUME UNCHANGED <<pc, result, turn>> PROVE Goal
  BY <1>2 DEF Places, FatesNow
<1>3. CASE UNCHANGED vars
  BY <1>2, <1>3 DEF vars, caller, server
<1>4. ASSUME NEW c \in Callers, Run(c) PROVE Goal
  BY <1>4, RunKeeps
<1>5. ASSUME NEW c \in Callers, Expire(c) PROVE Goal
  BY <1>2, <1>5 DEF Expire, server
<1>6. ASSUME NEW c \in Callers, Speak(c) PROVE Goal
  <2>1. UNCHANGED FatesNow
    BY <1>1, <1>6, FateMoves DEF Speak, FateOf, Live
  <2> QED
    BY <1>6, <2>1 DEF Speak, caller, Places
<1>7. ASSUME NEW c \in Callers, NEW end \in {"text", "interrupted", "error"}, Finish(c, end) PROVE Goal
  <2>1. FatesNow' = [FatesNow EXCEPT ![c] = end] /\ FatesNow[c] = "running"
    BY <1>1, <1>7, FateMoves DEF Finish, FateOf, Live, FatesNow
  <2>2. Contract!Settle(c, end)
    BY <1>7, <2>1 DEF Finish, caller, Contract!Settle, Places, FatesNow
  <2> QED
    BY <1>7, <2>2 DEF Contract!ContractNext
<1>8. CASE Deliver
  BY <1>2, <1>8 DEF Deliver, caller, server
<1>9. CASE Serve
  BY <1>9, ServeKeeps
<1>10. CASE Lose
  <2>1. FatesNow' = [u \in Callers |-> IF FatesNow[u] = "running" THEN "dead" ELSE FatesNow[u]]
    <3>1. turn' = [u \in Callers |-> IF turn[u] \in Live THEN "dead" ELSE turn[u]]
      BY <1>10 DEF Lose
    <3> QED
      BY <1>1, <3>1 DEF FatesNow, FateOf, Live, TypeOK
  <2>2. Contract!Die
    BY <1>10, <2>1 DEF Lose, caller, Contract!Die, Places, FatesNow
  <2> QED
    BY <2>2 DEF Contract!ContractNext
<1> HIDE DEF Goal
<1> QED
  BY <1>3, <1>4, <1>5, <1>6, <1>7, <1>8, <1>9, <1>10 DEF Next, EndTurn, ServerDies, ServerKilled

\* RunTurn keeps its contract, whatever happens to the connection and to the server.
THEOREM ContractIsKept == Spec => TurnsKeepContract
<1>1. Init => GraceTimed
  BY DEF Init, GraceTimed
<1>2. Init => Contract!ContractInit
  BY DEF Init, Contract!ContractInit, PlaceOf, FateOf, Live
<1>3. IInv /\ GraceTimed /\ [Next]_vars => GraceTimed'
  BY GraceStep DEF IInv
<1>4. IInv /\ GraceTimed /\ [Next]_vars
        => [Contract!ContractNext]_<<[c \in Callers |-> PlaceOf(pc[c])], result,
                                     [c \in Callers |-> FateOf(turn[c])]>>
  BY StepKeeps DEF Places, FatesNow
<1> QED
  BY InvAlways, <1>1, <1>2, <1>3, <1>4, PTL DEF Spec, TurnsKeepContract, Contract!ContractSpec
=============================================================================
