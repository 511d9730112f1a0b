---------------------------- MODULE AppServerLink ----------------------------
(***************************************************************************)
(* The connection to the Codex app-server below the turns of CodexTurns:   *)
(* Start, Close, writeJSON, the read loops and handleConnectionLoss, one   *)
(* step per access to the client's shared fields.  A start has a number;   *)
(* the number names its port, its server process, its socket and its read  *)
(* loop, and the fields conn, cmd and wsURL hold numbers.  Start 0 is      *)
(* Bootstrap's.                                                            *)
(*                                                                         *)
(* Writers are callers of the client (a caller runs Start and then one     *)
(* call; a direct one, EnsureThread, only the call) and the goroutines     *)
(* that answer requests of the server (tool calls).  The server is         *)
(* external: it refuses what comes before initialize, and a second one.    *)
(***************************************************************************)
EXTENDS Naturals, FiniteSets

CONSTANTS
  Callers,    \* goroutines that use the client once
  Direct,     \* those that call without Start (EnsureThread)
  Timed,      \* those whose context may end while they wait for an answer
  Tasks,      \* requests a server makes of the client
  Crews,      \* bound: the writers that are at work in one behaviour
  None,
  MaxStart,   \* bound: starts after the first
  MaxDeath    \* bound: servers that die on their own

ASSUME LinkAssumption ==
  /\ Direct \subseteq Callers /\ Timed \subseteq Callers
  /\ Callers \cap Tasks = {} /\ Crews \subseteq SUBSET (Callers \cup Tasks)
  /\ MaxStart \in Nat /\ MaxDeath \in Nat
  /\ None \notin Nat

VARIABLES
  at,        \* where each writer is
  doing,     \* what it writes: initialize, initialized, request, reply
  number,    \* the start a caller runs
  target,    \* the port its Start dials
  taken,     \* the socket writeJSON read from c.conn
  pending,   \* c.pending: callers whose call is registered
  box,       \* the channel of each call
  asker,     \* the server a task was asked by
  answered,  \* the server a task's reply was written to
  conn,      \* c.conn
  cmd,       \* c.cmd
  url,       \* c.wsURL
  closed,    \* is c.closed closed?
  starts,    \* starts so far
  port,      \* the port each server was told to listen on
  alive,     \* servers that run
  greeted,   \* servers that were initialized
  open,      \* sockets not closed by the client
  peer,      \* the server of each socket
  loop,      \* the read loop of each start
  reads,     \* the socket a loop is blocked on
  answers,   \* answers on their way: the socket, the caller, good or not
  crashed,   \* has a nil dereference ended the program?
  overlap,   \* history: two Starts ran at once
  foreign,   \* history: the holder of another socket, or a writer, reported a loss
  abandoned, \* history: sockets whose Start failed after publishing them
  deaths

writers == <<at, doing, number, target, taken, asker, answered>>
calls   == <<pending, box>>
fields  == <<conn, cmd, url, closed, starts>>
servers == <<port, alive, greeted>>
sockets == <<open, peer>>
loops   == <<loop, reads>>
history == <<overlap, foreign, abandoned>>
linkVars == <<writers, calls, fields, servers, sockets, loops, answers, crashed, history, deaths>>

Starts  == 0..MaxStart
Writers == Callers \cup Tasks
Maybe(S) == S \cup {None}

Places == {"start", "exec", "keep", "aim", "dial", "publish", "register", "take", "write",
           "await", "idle", "done"}

LinkTypeOK ==
  /\ at \in [Writers -> Places]
  /\ doing \in [Writers -> {"initialize", "initialized", "request", "reply"}]
  /\ number \in [Callers -> Maybe(Starts)] /\ target \in [Callers -> Maybe(Starts)]
  /\ taken \in [Writers -> Maybe(Starts)]
  /\ pending \subseteq Callers
  /\ box \in [Callers -> {"empty", "ok", "refused", "lost"}]
  /\ asker \in [Tasks -> Maybe(Starts)] /\ answered \in [Tasks -> Maybe(Starts)]
  /\ conn \in Maybe(Starts) /\ cmd \in Maybe(Starts) /\ url \in Starts
  /\ closed \in BOOLEAN /\ starts \in Starts
  /\ port \in [Starts -> Maybe(Starts)] /\ alive \subseteq Starts /\ greeted \subseteq Starts
  /\ open \subseteq Starts /\ peer \in [Starts -> Maybe(Starts)]
  /\ loop \in [Starts -> {"none", "top", "read", "gone"}]
  /\ reads \in [Starts -> Maybe(Starts)]
  /\ answers \subseteq [on : Starts, of : Callers, good : BOOLEAN]
  /\ crashed \in BOOLEAN /\ overlap \in BOOLEAN /\ foreign \in BOOLEAN
  /\ abandoned \subseteq Starts /\ deaths \in 0..MaxDeath

LinkInit ==
  /\ \E crew \in Crews :
       at = [w \in Writers |-> IF w \notin crew THEN "done"
                               ELSE IF w \in Tasks THEN "idle"
                               ELSE IF w \in Direct THEN "register" ELSE "start"]
  /\ doing = [w \in Writers |-> IF w \in Tasks THEN "reply" ELSE "request"]
  /\ number = [c \in Callers |-> None] /\ target = [c \in Callers |-> None]
  /\ taken = [w \in Writers |-> None]
  /\ pending = {} /\ box = [c \in Callers |-> "empty"]
  /\ asker = [t \in Tasks |-> None] /\ answered = [t \in Tasks |-> None]
  /\ conn = 0 /\ cmd = 0 /\ url = 0 /\ closed = FALSE /\ starts = 0
  /\ alive = {0} /\ greeted = {0} /\ open = {0}
  /\ port = [n \in Starts |-> IF n = 0 THEN 0 ELSE None]
  /\ peer = [n \in Starts |-> IF n = 0 THEN 0 ELSE None]
  /\ loop = [n \in Starts |-> IF n = 0 THEN "top" ELSE "none"]
  /\ reads = [n \in Starts |-> None]
  /\ answers = {} /\ crashed = FALSE
  /\ overlap = FALSE /\ foreign = FALSE /\ abandoned = {} /\ deaths = 0

-----------------------------------------------------------------------------
(* The loss of a connection.  It has no argument: whoever reports it, the  *)
(* fields of the moment are torn down.                                     *)

\* Faulty: the pending calls are forgotten, not answered.
ForgetCalls ==
  /\ conn' = None /\ cmd' = None
  /\ open' = open \ {conn}
  /\ alive' = alive \ {cmd}
  /\ answers' = {a \in answers : a.on # conn}
  /\ pending' = {} /\ UNCHANGED box

HandleConnectionLoss ==
  IF conn = None /\ cmd = None /\ pending = {}
    THEN UNCHANGED <<conn, cmd, open, alive, answers, calls>>
    ELSE /\ conn' = None /\ cmd' = None
         /\ open' = open \ {conn}
         /\ answers' = {a \in answers : a.on # conn}
         /\ alive' = alive \ {cmd}
         /\ box' = [c \in Callers |-> IF c \in pending /\ box[c] = "empty" THEN "lost"
                                                                          ELSE box[c]]
         /\ pending' = {}

-----------------------------------------------------------------------------
(* Start. *)

Goto(w, place) == at' = [at EXCEPT ![w] = place]

Starting == {c \in Callers : at[c] \in {"exec", "keep", "aim", "dial", "publish"}}

\* Faulty: Start does not look for a connection.
StartAnyway(c) ==
  /\ at[c] = "start"
  /\ starts < MaxStart
  /\ starts' = starts + 1
  /\ number' = [number EXCEPT ![c] = starts + 1]
  /\ url' = starts + 1
  /\ overlap' = (overlap \/ Starting # {})
  /\ Goto(c, "exec")
  /\ UNCHANGED <<doing, target, taken, asker, answered, calls, conn, cmd, closed, servers,
                 sockets, loops, answers, crashed, foreign, abandoned, deaths>>

\* Start looks for a connection; without one it takes a port and writes wsURL.
CheckOpen(c) ==
  /\ at[c] = "start"
  /\ \/ /\ conn # None
        /\ Goto(c, "register")
        /\ UNCHANGED <<number, starts, url, overlap>>
     \/ /\ conn = None
        /\ starts < MaxStart
        /\ starts' = starts + 1
        /\ number' = [number EXCEPT ![c] = starts + 1]
        /\ url' = starts + 1
        /\ overlap' = (overlap \/ Starting # {})
        /\ Goto(c, "exec")
  /\ UNCHANGED <<doing, target, taken, asker, answered, calls, conn, cmd, closed, servers,
                 sockets, loops, answers, crashed, foreign, abandoned, deaths>>

\* Two servers on one port: the second to bind it ends, and that is the new one when the
\* other was already reached.
Rivals(p)  == {s \in alive : port[s] = p}
Reached(s) == \E n \in Starts : peer[n] = s

\* The process starts, on the wsURL of the moment; or it cannot start.
Exec(c) ==
  /\ at[c] = "exec"
  /\ \/ /\ port' = [port EXCEPT ![number[c]] = url]
        /\ \/ Rivals(url) = {} /\ alive' = alive \cup {number[c]}
           \/ Rivals(url) # {} /\ alive' = alive
           \/ \E s \in Rivals(url) : ~Reached(s) /\ alive' = (alive \ {s}) \cup {number[c]}
        /\ Goto(c, "keep")
     \/ Goto(c, "done") /\ UNCHANGED <<port, alive>>
  /\ UNCHANGED <<doing, number, target, taken, asker, answered, calls, fields, greeted, sockets,
                 loops, answers, crashed, history, deaths>>

\* c.cmd is set.
KeepCmd(c) ==
  /\ at[c] = "keep"
  /\ cmd' = number[c]
  /\ Goto(c, "aim")
  /\ UNCHANGED <<doing, number, target, taken, asker, answered, calls, conn, url, closed, starts,
                 servers, sockets, loops, answers, crashed, history, deaths>>

\* dial gets the wsURL of the moment.
Aim(c) ==
  /\ at[c] = "aim"
  /\ target' = [target EXCEPT ![c] = url]
  /\ Goto(c, "dial")
  /\ UNCHANGED <<doing, number, taken, asker, answered, calls, fields, servers, sockets, loops,
                 answers, crashed, history, deaths>>

\* dial retries until a server listens on the port.
Connects(c) ==
  /\ \E s \in Rivals(target[c]) : peer' = [peer EXCEPT ![number[c]] = s]
  /\ open' = open \cup {number[c]}
  /\ Goto(c, "publish")
  /\ UNCHANGED <<alive, conn, cmd, crashed>>

\* Faulty: a failed dial clears the connection too.
DialClears(c) ==
  /\ at[c] = "dial"
  /\ \/ Connects(c)
     \/ /\ alive' = alive \ {cmd}
        /\ conn' = None /\ cmd' = None
        /\ crashed' = (cmd = None)
        /\ Goto(c, "done")
        /\ UNCHANGED sockets
  /\ UNCHANGED <<doing, number, target, taken, asker, answered, calls, url, closed, starts,
                 port, greeted, loops, answers, history, deaths>>

\* It gives up after 15 seconds or with its context.  Then the process in c.cmd is killed,
\* and without one the program dies of a nil dereference.
Dial(c) ==
  /\ at[c] = "dial"
  /\ \/ Connects(c)
     \/ /\ alive' = alive \ {cmd}
        /\ crashed' = (cmd = None)
        /\ Goto(c, "done")
        /\ UNCHANGED <<sockets, conn, cmd>>
  /\ UNCHANGED <<doing, number, target, taken, asker, answered, calls, url, closed, starts,
                 port, greeted, loops, answers, history, deaths>>

\* Faulty: no initialize.
PublishOnly(c) ==
  /\ at[c] = "publish"
  /\ conn' = number[c]
  /\ loop' = [loop EXCEPT ![number[c]] = "top"]
  /\ Goto(c, "register")
  /\ UNCHANGED <<doing, number, target, taken, asker, answered, calls, cmd, url, closed, starts,
                 servers, sockets, reads, answers, crashed, history, deaths>>

\* c.conn is set and a read loop started; then initialize.
Publish(c) ==
  /\ at[c] = "publish"
  /\ conn' = number[c]
  /\ loop' = [loop EXCEPT ![number[c]] = "top"]
  /\ doing' = [doing EXCEPT ![c] = "initialize"]
  /\ Goto(c, "register")
  /\ UNCHANGED <<number, target, taken, asker, answered, calls, cmd, url, closed, starts,
                 servers, sockets, reads, answers, crashed, history, deaths>>

-----------------------------------------------------------------------------
(* Calls and writes. *)

\* call: a channel under a fresh id.
Enter(c) ==
  /\ at[c] = "register"
  /\ pending' = pending \cup {c}
  /\ box' = [box EXCEPT ![c] = "empty"]
  /\ Goto(c, "take")
  /\ UNCHANGED <<doing, number, target, taken, asker, answered, fields, servers, sockets,
                 loops, answers, crashed, history, deaths>>

\* Faulty: whatever was being written.
GiveUpAny(w) ==
  /\ Goto(w, "done")
  /\ taken' = [taken EXCEPT ![w] = None]
  /\ abandoned' = IF w \in Callers THEN abandoned \cup {number[w]} ELSE abandoned

\* An error on the way: call and Start return it, a reply is given up.  A connection
\* that was published stays, initialized or not.
GiveUp(w) ==
  /\ Goto(w, "done")
  /\ taken' = [taken EXCEPT ![w] = None]
  /\ abandoned' = IF doing[w] \in {"initialize", "initialized"}
                    THEN abandoned \cup {number[w]} ELSE abandoned

\* writeJSON reads c.conn.
Take(w) ==
  /\ at[w] = "take"
  /\ \/ /\ conn # None
        /\ taken' = [taken EXCEPT ![w] = conn]
        /\ Goto(w, "write")
        /\ UNCHANGED <<pending, abandoned>>
     \/ /\ conn = None
        /\ GiveUp(w)
        /\ pending' = pending \ {w}
  /\ UNCHANGED <<doing, number, target, asker, answered, box, fields, servers, sockets, loops,
                 answers, crashed, overlap, foreign, deaths>>

\* What reaches the server s, and its answer: initialize is taken once, or refused, and a
\* request is refused before.
Serve(w, s) ==
  /\ \E good \in BOOLEAN :
       /\ CASE doing[w] = "initialize" -> good => s \notin greeted
            [] doing[w] = "request" -> good = (s \in greeted)
            [] OTHER -> good
       /\ greeted' = IF doing[w] = "initialize" /\ good THEN greeted \cup {s} ELSE greeted
       /\ answers' = IF doing[w] \in {"initialize", "request"}
                       THEN answers \cup {[on |-> taken[w], of |-> w, good |-> good]}
                       ELSE answers
  /\ answered' = IF w \in Tasks THEN [answered EXCEPT ![w] = s] ELSE answered

\* After a write: a call waits for its answer, initialized ends Start.
Written(w) ==
  /\ Goto(w, CASE doing[w] = "reply" -> "done"
               [] doing[w] = "initialized" -> "register"
               [] OTHER -> "await")
  /\ taken' = IF doing[w] = "reply" THEN [taken EXCEPT ![w] = None] ELSE taken
  /\ doing' = IF doing[w] = "initialized" THEN [doing EXCEPT ![w] = "request"] ELSE doing

\* The write on the socket that was taken: to a live server, into the buffer of one whose
\* death was not noticed, or an error, which reports a loss.
Write(w) ==
  /\ at[w] = "write"
  /\ LET s == taken[w] IN
     \/ /\ s \in open /\ peer[s] \in alive
        /\ Serve(w, peer[s]) /\ Written(w)
        /\ UNCHANGED <<calls, conn, cmd, open, alive, foreign, abandoned>>
     \/ /\ s \in open /\ peer[s] \notin alive
        /\ Written(w)
        /\ UNCHANGED <<greeted, answers, answered, calls, conn, cmd, open, alive, foreign,
                       abandoned>>
     \/ /\ s \notin open \/ peer[s] \notin alive
        /\ HandleConnectionLoss
        /\ foreign' = TRUE
        /\ GiveUp(w)
        /\ UNCHANGED <<doing, greeted, answered>>
  /\ UNCHANGED <<number, target, asker, url, closed, starts, port, peer, loops, crashed, overlap,
                 deaths>>

\* The select of call: the answer, or the end of the context.
Await(c) ==
  /\ at[c] = "await"
  /\ \/ /\ box[c] = "ok"
        /\ taken' = [taken EXCEPT ![c] = None]
        /\ IF doing[c] = "initialize"
             THEN doing' = [doing EXCEPT ![c] = "initialized"] /\ Goto(c, "take")
             ELSE Goto(c, "done") /\ UNCHANGED doing
        /\ UNCHANGED abandoned
     \/ /\ box[c] \in {"refused", "lost"} \/ c \in Timed
        /\ GiveUp(c) /\ UNCHANGED doing
  /\ pending' = pending \ {c}
  /\ UNCHANGED <<number, target, asker, answered, box, fields, servers, sockets, loops,
                 answers, crashed, overlap, foreign, deaths>>

-----------------------------------------------------------------------------
(* Read loops. *)

\* The loop reads c.conn again before every message: nil ends the program, and a newer
\* connection is read by this loop as well as by its own.
ReadTop(n) ==
  /\ loop[n] = "top"
  /\ \/ conn = None /\ crashed' = TRUE /\ UNCHANGED loops
     \/ /\ conn # None
        /\ loop' = [loop EXCEPT ![n] = "read"]
        /\ reads' = [reads EXCEPT ![n] = conn]
        /\ UNCHANGED crashed
  /\ UNCHANGED <<writers, calls, fields, servers, sockets, answers, history, deaths>>

\* An answer goes to the channel of its call, if the call is still pending.
ReadAnswer(n) ==
  /\ loop[n] = "read"
  /\ \E a \in answers :
       /\ a.on = reads[n] /\ a.on \in open
       /\ answers' = answers \ {a}
       /\ box' = IF a.of \in pending
                   THEN [box EXCEPT ![a.of] = IF a.good THEN "ok" ELSE "refused"] ELSE box
  /\ loop' = [loop EXCEPT ![n] = "top"]
  /\ UNCHANGED <<writers, pending, fields, servers, sockets, reads, crashed, history, deaths>>

\* A request of the server: a goroutine runs the tool and will reply.
ReadRequest(n, t) ==
  /\ loop[n] = "read"
  /\ at[t] = "idle"
  /\ reads[n] \in open /\ peer[reads[n]] \in alive
  /\ Goto(t, "take")
  /\ asker' = [asker EXCEPT ![t] = peer[reads[n]]]
  /\ loop' = [loop EXCEPT ![n] = "top"]
  /\ UNCHANGED <<doing, number, target, taken, answered, calls, fields, servers, sockets,
                 reads, answers, crashed, history, deaths>>

\* Faulty: the loop goes on after the loss.
ReadOn(n) ==
  /\ loop[n] = "read"
  /\ reads[n] \notin open \/ peer[reads[n]] \notin alive
  /\ loop' = [loop EXCEPT ![n] = "top"]
  /\ HandleConnectionLoss
  /\ foreign' = (foreign \/ conn # reads[n])
  /\ UNCHANGED <<writers, url, closed, starts, port, greeted, peer, reads, crashed, overlap, abandoned,
                 deaths>>

\* A read error: the loop ends, and unless the client was closed it reports a loss.
ReadError(n) ==
  /\ loop[n] = "read"
  /\ reads[n] \notin open \/ peer[reads[n]] \notin alive
  /\ loop' = [loop EXCEPT ![n] = "gone"]
  /\ IF closed THEN UNCHANGED <<calls, conn, cmd, open, alive, answers, foreign>>
     ELSE /\ HandleConnectionLoss
          /\ foreign' = (foreign \/ conn # reads[n])
  /\ reads' = [reads EXCEPT ![n] = None]
  /\ UNCHANGED <<writers, url, closed, starts, port, greeted, peer, crashed, overlap, abandoned,
                 deaths>>

-----------------------------------------------------------------------------
\* Close: the fields are cleared, socket and process ended; pending calls get nothing.
Close ==
  /\ ~closed
  /\ closed' = TRUE
  /\ conn' = None /\ cmd' = None
  /\ open' = open \ {conn}
  /\ alive' = alive \ {cmd}
  /\ answers' = {a \in answers : a.on # conn}
  /\ UNCHANGED <<writers, calls, url, starts, port, greeted, peer, loops, crashed, history, deaths>>

\* A server dies: a crash, or the end of the context it was started with.
ServerDies(s) ==
  /\ s \in alive /\ deaths < MaxDeath
  /\ deaths' = deaths + 1
  /\ alive' = alive \ {s}
  /\ UNCHANGED <<writers, calls, fields, port, greeted, sockets, loops, answers, crashed, history>>

CallerStep(c) ==
  \/ CheckOpen(c) \/ Exec(c) \/ KeepCmd(c) \/ Aim(c) \/ Dial(c) \/ Publish(c)
  \/ Enter(c) \/ Await(c)
WriterStep(w) == Take(w) \/ Write(w)
LoopStep(n)   == ReadTop(n) \/ ReadAnswer(n) \/ ReadError(n)

LinkNext ==
  /\ ~crashed
  /\ \/ \E c \in Callers : CallerStep(c)
     \/ \E w \in Writers : WriterStep(w)
     \/ \E n \in Starts : LoopStep(n) \/ \E t \in Tasks : ReadRequest(n, t)
     \/ Close
     \/ \E s \in Starts : ServerDies(s)

LinkSpec == LinkInit /\ [][LinkNext]_linkVars

-----------------------------------------------------------------------------
(* Properties. *)

\* A loop that will see what comes on the socket s, or that it is gone.
Watched(s) ==
  \E n \in Starts : (loop[n] = "read" /\ reads[n] = s) \/ (loop[n] = "top" /\ conn = s)

\* A call that waits has its answer in its channel, or is registered and some loop watches
\* the socket it was written to: losses and restarts strand nobody.  The exceptions are
\* Close, which answers no call, and two Starts at once, whose first socket keeps no reader.
NoStrandedCall ==
  (~crashed /\ ~closed /\ ~overlap) =>
    \A c \in Callers :
      (at[c] = "await" /\ box[c] = "empty") => c \in pending /\ Watched(taken[c])

\* Whoever finds a connection finds an initialized server, unless the Start that published
\* it is still at it or has failed: then the connection stays as it is, and every later
\* Start takes it for good.
PublishedIsGreeted ==
  conn # None =>
    \/ peer[conn] \in greeted
    \/ conn \in abandoned
    \/ \E c \in Callers : number[c] = conn /\ doing[c] = "initialize" /\ at[c] # "done"

\* The reply to a request goes to the server that made it as long as that server runs,
\* although it is written to whatever connection there is when the tool has ended.
RepliesGoBack ==
  \A t \in Tasks :
    (answered[t] # None /\ asker[t] \in alive /\ ~overlap) => answered[t] = asker[t]

\* The nil dereferences of readLoop and of Start's failed dial are out of reach while every
\* loss is reported by the one loop that reads the lost connection.
CrashNeedsForeignLoss == crashed => foreign \/ closed \/ overlap

\* The connection to a server that runs is torn down only by Close or by a reader or writer
\* that holds another, older or newer, socket.
OnlyStaleTeardown ==
  [][(conn # None /\ conn' = None /\ peer[conn] \in alive /\ ~closed')
       => \/ \E w \in Writers : at[w] = "write" /\ at'[w] = "done" /\ taken[w] # conn
          \/ \E n \in Starts : loop[n] = "read" /\ loop'[n] = "gone" /\ reads[n] # conn
    ]_linkVars

=============================================================================
