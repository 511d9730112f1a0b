----------------------------- MODULE CodexTurns -----------------------------
(***************************************************************************)
(* Turns on the Codex app-server: the callers that run them (message       *)
(* handlers, jobs, job follow-ups), the lock of each thread, the client's  *)
(* maps of pending calls and turn waiters, its read loop, the interrupts,  *)
(* and the loss and restart of the server process.                         *)
(*                                                                         *)
(* A caller is one run of a handler and makes one turn, so a caller also   *)
(* names its turn/start call, its waiter and its turn (the IDs of all      *)
(* three are unique in the code).  Calls under stateMu are atomic.  The    *)
(* app-server is external: it answers requests in order, and the messages  *)
(* of a turn reach the client in the order it sends them.                  *)
(***************************************************************************)
EXTENDS Naturals, Sequences, FiniteSets

CONSTANTS
  Callers,     \* runs of handlers
  Threads,     \* Codex threads
  ThreadOf,    \* the thread a caller runs its turn on
  Chat,        \* message handlers: they interrupt first, their context ends with them
  Timed,       \* follow-ups: their context has a deadline
  None,        \* nobody
  MaxFault     \* bound: deaths of the server process on its own

ASSUME TurnsAssumption ==
  /\ ThreadOf \in [Callers -> Threads]
  /\ Chat \subseteq Callers /\ Timed \subseteq Callers /\ Chat \cap Timed = {}
  /\ None \notin Callers
  /\ MaxFault \in Nat

VARIABLES
  pc,        \* where each caller is
  holder,    \* thread locks
  expired,   \* callers whose deadline has passed
  result,    \* what runTurn returned
  pending,   \* calls registered in c.pending
  box,       \* the channel of each call
  waiting,   \* waiters registered in c.turns
  slot,      \* the channel of each waiter
  heard,     \* waiters that were given the agent message of their turn
  conn,      \* is there a connection?
  owner,     \* the caller whose context the server process is bound to
  inbox,     \* requests on their way to the server
  net,       \* messages on their way to the client
  turn,      \* each turn, as the server sees it
  stopping,  \* turns the server was asked to interrupt
  missed,    \* history: turns of which something came before their waiter was registered
  faults     \* deaths of the server so far

caller == <<pc, holder, expired, result>>
client == <<pending, box, waiting, slot, heard>>
server == <<turn, stopping>>
link   == <<conn, owner, inbox, net>>
vars   == <<caller, client, server, link, missed, faults>>

Steps   == {"new", "lock", "start", "write", "await", "register", "wait", "grace",
            "reply", "done"}
Answers == {"empty", "ok", "error", "lost"}
Ends    == {"empty", "text", "interrupted", "error", "lost"}
Results == {"none", "text", "partial", "interrupted", "error", "lost", "deadline"}
Turns   == {"none", "running", "spoken", "text", "interrupted", "error", "dead"}
Live    == {"running", "spoken"}

Requests == [kind : {"start", "interrupt"}, of : Callers]
Messages == [kind : {"ok", "refused", "item", "text", "interrupted", "error"}, of : Callers]

TypeOK ==
  /\ pc \in [Callers -> Steps]
  /\ holder \in [Threads -> Callers \cup {None}]
  /\ expired \subseteq Timed
  /\ result \in [Callers -> Results]
  /\ pending \subseteq Callers
  /\ box \in [Callers -> Answers]
  /\ waiting \subseteq Callers
  /\ slot \in [Callers -> Ends]
  /\ heard \subseteq Callers
  /\ conn \in BOOLEAN
  /\ owner \in Callers \cup {None}
  /\ inbox \in Seq(Requests)
  /\ net \in Seq(Messages)
  /\ turn \in [Callers -> Turns]
  /\ stopping \subseteq Callers
  /\ missed \subseteq Callers
  /\ faults \in Nat

Init ==
  /\ pc = [c \in Callers |-> "new"]
  /\ holder = [t \in Threads |-> None]
  /\ expired = {}
  /\ result = [c \in Callers |-> "none"]
  /\ pending = {} /\ box = [c \in Callers |-> "empty"]
  /\ waiting = {} /\ slot = [c \in Callers |-> "empty"]
  /\ heard = {}
  /\ conn = TRUE /\ owner = None    \* Bootstrap started the server
  /\ inbox = <<>> /\ net = <<>>
  /\ turn = [c \in Callers |-> "none"]
  /\ stopping = {} /\ missed = {} /\ faults = 0

-----------------------------------------------------------------------------
(* Callers. *)

Goto(c, step) == pc' = [pc EXCEPT ![c] = step]

Request(kind, c) == inbox' = Append(inbox, [kind |-> kind, of |-> c])

\* The waiters InterruptActiveTurn picks from; the thread lock leaves at most one.
ActiveOn(t) == {w \in waiting : ThreadOf[w] = t}

\* The handler reaches its thread.  A message handler first asks the server to
\* interrupt the turn that waits there; the answer is only logged.
Arrive(c) ==
  /\ pc[c] = "new"
  /\ IF c \in Chat /\ conn /\ ActiveOn(ThreadOf[c]) # {}
       THEN \E w \in ActiveOn(ThreadOf[c]) : Request("interrupt", w)
       ELSE UNCHANGED inbox
  /\ Goto(c, "lock")
  /\ UNCHANGED <<holder, expired, result, client, server, conn, owner, net, missed, faults>>

\* lock.Lock() of the thread: it does not look at the context.
Lock(c) ==
  /\ pc[c] = "lock"
  /\ holder[ThreadOf[c]] = None
  /\ holder' = [holder EXCEPT ![ThreadOf[c]] = c]
  /\ Goto(c, "start")
  /\ UNCHANGED <<expired, result, client, server, link, missed, faults>>

\* Faulty: a caller that gives up keeps the lock.
KeepLock(c) == IF c \in expired THEN holder[ThreadOf[c]] ELSE None

\* What the deferred unlock leaves in the lock.
Unlocked(c) == None

\* runTurn returns r: its deferred deletes, the deferred unlock.
Return(c, r) ==
  /\ result' = [result EXCEPT ![c] = r]
  /\ pending' = pending \ {c}
  /\ waiting' = waiting \ {c}
  /\ holder' = [holder EXCEPT ![ThreadOf[c]] = Unlocked(c)]
  /\ Goto(c, IF c \in Chat THEN "reply" ELSE "done")

\* The server process lives as long as the context of the caller that starts it.
Bound(c) == IF c \in Chat \cup Timed THEN c ELSE None

\* Start: nothing to do, a new process and connection, or an error.  Then the
\* turn/start call is registered.
StartTurn(c) ==
  /\ pc[c] = "start"
  /\ \/ /\ conn \/ c \notin expired
        /\ conn' = TRUE
        /\ owner' = IF conn THEN owner ELSE Bound(c)
        /\ pending' = pending \cup {c}
        /\ Goto(c, "write")
        /\ UNCHANGED <<holder, result, waiting>>
     \/ /\ ~conn
        /\ Return(c, "error")
        /\ UNCHANGED <<conn, owner>>
  /\ UNCHANGED <<expired, box, slot, heard, inbox, net, server, missed, faults>>

\* writeJSON.
WriteStart(c) ==
  /\ pc[c] = "write"
  /\ \/ /\ conn
        /\ Request("start", c)
        /\ Goto(c, "await")
        /\ UNCHANGED <<holder, result, pending, waiting>>
     \/ /\ ~conn
        /\ Return(c, "lost")
        /\ UNCHANGED inbox
  /\ UNCHANGED <<expired, box, slot, heard, conn, owner, net, server, missed, faults>>

\* The select of call: the answer or the end of the context, in any order.
AwaitStart(c) ==
  /\ pc[c] = "await"
  /\ \/ /\ box[c] = "ok"
        /\ pending' = pending \ {c}
        /\ Goto(c, "register")
        /\ UNCHANGED <<holder, result, waiting>>
     \/ box[c] \in {"error", "lost"} /\ Return(c, box[c])
     \/ c \in expired /\ Return(c, "deadline")
  /\ UNCHANGED <<expired, box, slot, heard, link, server, missed, faults>>

\* The waiter is stored after the answer of turn/start has been read.
Register(c) ==
  /\ pc[c] = "register"
  /\ waiting' = waiting \cup {c}
  /\ Goto(c, "wait")
  /\ UNCHANGED <<holder, expired, result, pending, box, slot, heard, link, server, missed,
                 faults>>

\* Faulty: result.Error is not looked at.
UncheckedOutcome(c) == IF c \in heard THEN "text" ELSE slot[c]

\* The text of a completed turn: what its waiter was given, possibly nothing.
Outcome(c) == IF slot[c] # "text" THEN slot[c]
              ELSE IF c \in heard THEN "text" ELSE "partial"

\* The select of runTurn.  A context that ends sends an interrupt and waits on.
AwaitTurn(c) ==
  /\ pc[c] = "wait"
  /\ \/ /\ slot[c] # "empty"
        /\ Return(c, Outcome(c))
        /\ UNCHANGED inbox
     \/ /\ c \in expired
        /\ IF conn THEN Request("interrupt", c) ELSE UNCHANGED inbox
        /\ Goto(c, "grace")
        /\ UNCHANGED <<holder, result, pending, waiting>>
  /\ UNCHANGED <<expired, box, slot, heard, conn, owner, net, server, missed, faults>>

\* Faulty: the turn is taken to be interrupted when nothing else was heard in time.
TrustGrace(c) ==
  /\ pc[c] = "grace"
  /\ Return(c, IF slot[c] \in {"error", "lost"} THEN slot[c] ELSE "interrupted")
  /\ UNCHANGED <<expired, box, slot, heard, link, server, missed, faults>>

\* The end of the turn or three more seconds, whichever is first; a text is discarded.
AwaitGrace(c) ==
  /\ pc[c] = "grace"
  /\ \/ slot[c] \in {"interrupted", "error", "lost"} /\ Return(c, slot[c])
     \/ slot[c] \notin {"interrupted", "error", "lost"} /\ Return(c, "deadline")
  /\ UNCHANGED <<expired, box, slot, heard, link, server, missed, faults>>

\* A message handler posts its text, if any, after the lock is released.
Reply(c) ==
  /\ pc[c] = "reply"
  /\ Goto(c, "done")
  /\ UNCHANGED <<holder, expired, result, client, server, link, missed, faults>>

\* Faulty: message handlers have a deadline too.
ExpireAny(c) ==
  /\ pc[c] # "new"
  /\ expired' = expired \cup {c}
  /\ UNCHANGED <<pc, holder, result, client, server, link, missed, faults>>

\* The deadline of a follow-up passes.
Expire(c) ==
  /\ c \in Timed \ expired
  /\ pc[c] # "new"
  /\ expired' = expired \cup {c}
  /\ UNCHANGED <<pc, holder, result, client, server, link, missed, faults>>

-----------------------------------------------------------------------------
(* The read loop and the loss of the connection. *)

\* Callers whose turn exists but whose waiter is not registered yet.
Unregistered(c) == pc[c] = "register" \/ (pc[c] = "await" /\ box[c] = "ok")

\* Faulty: the loss is not reported to the waiters.
KeepSlots == slot

\* handleConnectionLoss offers an error to every waiter, without blocking.
LostSlots == [c \in Callers |-> IF c \in waiting /\ slot[c] = "empty" THEN "lost" ELSE slot[c]]

\* The process dies and the connection with it: handleConnectionLoss empties both
\* maps and answers every call and waiter it finds in them.
Lose ==
  /\ conn
  /\ conn' = FALSE
  /\ owner' = None
  /\ inbox' = <<>> /\ net' = <<>>
  /\ turn' = [c \in Callers |-> IF turn[c] \in Live THEN "dead" ELSE turn[c]]
  /\ stopping' = {}
  /\ box' = [c \in Callers |-> IF c \in pending /\ box[c] = "empty" THEN "lost" ELSE box[c]]
  /\ slot' = LostSlots
  /\ pending' = {} /\ waiting' = {}
  /\ missed' = missed \cup {c \in Callers : Unregistered(c)}
  /\ UNCHANGED <<caller, heard>>

ServerDies ==
  /\ faults < MaxFault
  /\ faults' = faults + 1
  /\ Lose

\* exec.CommandContext kills the process when the context of its starter is over:
\* at the deadline of a follow-up, or when the handler returns.
ContextOver(c) == c \in expired \/ (c \in Chat \cup Timed /\ pc[c] = "done")

ServerKilled ==
  /\ owner # None /\ ContextOver(owner)
  /\ Lose
  /\ UNCHANGED faults

\* A response goes to the pending call, if its caller still waits for it.
DeliverAnswer(m) ==
  /\ m.kind \in {"ok", "refused"}
  /\ box' = IF m.of \in pending
              THEN [box EXCEPT ![m.of] = IF m.kind = "ok" THEN "ok" ELSE "error"]
              ELSE box
  /\ UNCHANGED <<slot, heard, missed>>

Miss(c) == missed' = IF Unregistered(c) THEN missed \cup {c} ELSE missed

\* item/completed: the agent message goes to the waiter, if there is one.
DeliverItem(m) ==
  /\ m.kind = "item"
  /\ IF m.of \in waiting THEN heard' = heard \cup {m.of} /\ UNCHANGED missed
                         ELSE Miss(m.of) /\ UNCHANGED heard
  /\ UNCHANGED <<box, slot>>

\* turn/completed: sent into the waiter's channel, or dropped when there is none.
DeliverEnd(m) ==
  /\ m.kind \in {"text", "interrupted", "error"}
  /\ IF m.of \in waiting
       THEN /\ slot[m.of] = "empty"     \* the send blocks while the channel is full
            /\ slot' = [slot EXCEPT ![m.of] = m.kind]
            /\ UNCHANGED missed
       ELSE Miss(m.of) /\ UNCHANGED slot
  /\ UNCHANGED <<box, heard>>

\* One iteration of readLoop.
Deliver ==
  /\ net # <<>>
  /\ net' = Tail(net)
  /\ DeliverAnswer(Head(net)) \/ DeliverItem(Head(net)) \/ DeliverEnd(Head(net))
  /\ UNCHANGED <<caller, pending, waiting, server, conn, owner, inbox, faults>>

-----------------------------------------------------------------------------
(* The app-server. *)

Emit(kind, c) == net' = Append(net, [kind |-> kind, of |-> c])

ServeStart(c) ==
  \/ turn' = [turn EXCEPT ![c] = "running"] /\ Emit("ok", c)
  \/ Emit("refused", c) /\ UNCHANGED turn

ServeInterrupt(c) ==
  /\ stopping' = IF turn[c] \in Live THEN stopping \cup {c} ELSE stopping
  /\ UNCHANGED <<turn, net>>

Serve ==
  /\ inbox # <<>>
  /\ inbox' = Tail(inbox)
  /\ \/ Head(inbox).kind = "start" /\ ServeStart(Head(inbox).of) /\ UNCHANGED stopping
     \/ Head(inbox).kind = "interrupt" /\ ServeInterrupt(Head(inbox).of)
  /\ UNCHANGED <<caller, client, conn, owner, missed, faults>>

\* The agent message of a turn.
Speak(c) ==
  /\ turn[c] = "running"
  /\ turn' = [turn EXCEPT ![c] = "spoken"]
  /\ Emit("item", c)
  /\ UNCHANGED <<caller, client, stopping, conn, owner, inbox, missed, faults>>

\* A turn completes, fails, or is interrupted after it was asked to.
Finish(c, end) ==
  /\ turn[c] \in Live
  /\ \/ end = "text" /\ turn[c] = "spoken"
     \/ end = "interrupted" /\ c \in stopping
     \/ end = "error"
  /\ turn' = [turn EXCEPT ![c] = end]
  /\ Emit(end, c)
  /\ UNCHANGED <<caller, client, stopping, conn, owner, inbox, missed, faults>>

-----------------------------------------------------------------------------
Run(c) == \/ Arrive(c) \/ Lock(c) \/ StartTurn(c) \/ WriteStart(c) \/ AwaitStart(c)
          \/ Register(c) \/ AwaitTurn(c) \/ AwaitGrace(c) \/ Reply(c)

EndTurn(c) == \E end \in {"text", "interrupted", "error"} : Finish(c, end)

Next ==
  \/ \E c \in Callers : Run(c) \/ Expire(c) \/ Speak(c) \/ EndTurn(c)
  \/ Deliver \/ Serve
  \/ ServerDies \/ ServerKilled

Spec == Init /\ [][Next]_vars

\* Goroutines run, timers fire, the server reads its requests and ends its turns.
Fairness ==
  /\ \A c \in Callers : WF_vars(Run(c)) /\ WF_vars(Expire(c)) /\ WF_vars(EndTurn(c))
  /\ WF_vars(Deliver) /\ WF_vars(Serve) /\ WF_vars(ServerKilled)

FairSpec == Spec /\ Fairness

-----------------------------------------------------------------------------
(* Properties. *)

Returned(c) == pc[c] \in {"reply", "done"}

\* The server runs two turns of one thread at once only when runTurn has returned from
\* one of them before its end: after its deadline, or after a connection loss that
\* answered its call before the request was written to the next connection.
OneLiveTurn ==
  \A c, d \in Callers :
    (c # d /\ ThreadOf[c] = ThreadOf[d] /\ turn[c] \in Live /\ turn[d] \in Live)
      => \E e \in {c, d} : Returned(e) /\ result[e] \in {"deadline", "lost"}

\* What runTurn returns is the end of its own turn: a text only when the server
\* completed it and the waiter was given its message, a partial one only when the
\* message came before the waiter was registered, an interrupt only when it happened.
OwnResult ==
  \A c \in Callers :
    /\ result[c] = "text" => turn[c] = "text" /\ c \in heard
    /\ result[c] = "partial" => turn[c] = "text" /\ c \in missed
    /\ result[c] = "interrupted" => turn[c] = "interrupted"

EndOnItsWay(c) ==
  \/ turn[c] \in Live
  \/ \E i \in 1..Len(net) : net[i].of = c /\ net[i].kind \in {"text", "interrupted", "error"}

\* A caller that waits for its turn always has something to wake it: a filled channel,
\* or a registered waiter and an end still to come.  The one exception is a turn of which
\* something came, or whose connection was lost, between the answer of turn/start and
\* the registration of the waiter.
NoSilentWait ==
  \A c \in Callers :
    pc[c] = "wait" => \/ slot[c] # "empty"
                      \/ c \in waiting /\ EndOnItsWay(c)
                      \/ c \in missed

\* Every caller returns, whatever losses, restarts and interrupts happen, unless a caller
\* without a deadline on its thread has missed the end of its turn.
Returns ==
  \A c \in Callers :
    (pc[c] = "lock") ~> \/ pc[c] = "done"
                        \/ \E d \in missed \ Timed : ThreadOf[d] = ThreadOf[c]

\* What the contract of RunTurn sees of a caller's step, and of a turn.
PlaceOf(step) == CASE step = "new" -> "away" [] step = "lock" -> "queued"
                   [] step \in {"reply", "done"} -> "out" [] OTHER -> "inside"
FateOf(end) == IF end \in Live THEN "running" ELSE end

\* RunTurn keeps its contract: callers of a thread take turns, each is told the fate of its
\* own turn, and no turn runs after its caller was told how it ended or that it failed.
Contract == INSTANCE TurnContract
  WITH Users <- Callers, Line <- ThreadOf, Hasty <- Timed, told <- result,
       place <- [c \in Callers |-> PlaceOf(pc[c])], fate <- [c \in Callers |-> FateOf(turn[c])]
TurnsKeepContract == Contract!ContractSpec
=============================================================================
