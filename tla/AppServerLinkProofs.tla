-------------------------- MODULE AppServerLinkProofs --------------------------
(***************************************************************************)
(* What AppServerLink says of the connection and of the calls on it holds  *)
(* for every number of callers, tasks, starts and deaths of the server:    *)
(* the types, NoStrandedCall, PublishedIsGreeted, RepliesGoBack,           *)
(* CrashNeedsForeignLoss and OnlyStaleTeardown.                            *)
(***************************************************************************)
EXTENDS AppServerLink, TLAPS

\* Starts that have a number and are not published yet.
Begun == {"exec", "keep", "aim", "dial", "publish"}

\* A start has a number of its own.
OwnNumbers ==
  \A c \in Callers :
    /\ number[c] # None => number[c] \in 1..starts
    /\ at[c] \in Begun => number[c] # None
    /\ at[c] = "start" => number[c] = None
    /\ \A d \in Callers : c # d /\ number[c] # None => number[c] # number[d]

\* Nothing carries a number that no start has yet.
KnownNumbers ==
  /\ \A s \in {conn, cmd} : s # None => s <= starts
  /\ \A s \in alive \cup open : s <= starts
  /\ \A w \in Writers : taken[w] # None => taken[w] <= starts
  /\ \A n \in Starts : reads[n] # None => reads[n] <= starts
  /\ \A t \in Tasks : asker[t] # None => asker[t] <= starts
  /\ \A a \in answers : a.on <= starts

\* Nobody knows a socket that is not published, or a process that does not run yet.
Unpublished ==
  \A c \in Callers : at[c] \in Begun =>
    /\ number[c] # conn
    /\ \A w \in Writers : taken[w] # number[c]
    /\ \A n \in Starts : reads[n] # number[c]
    /\ \A a \in answers : a.on # number[c]
    /\ at[c] = "publish" <=> number[c] \in open
    /\ at[c] = "exec" => number[c] \notin alive /\ \A t \in Tasks : asker[t] # number[c]

\* The connection in place is open.
InPlaceIsOpen == conn # None => conn \in open

\* A read loop that has not ended.
Active(n) == loop[n] \in {"top", "read"}

\* While Starts do not overlap: no connection during a Start,
OneStart ==
  ~overlap => /\ \A c, d \in Callers : at[c] \in Begun /\ at[d] \in Begun => c = d
              /\ \A c \in Callers : at[c] \in Begun => conn = None

\* one server, that of c.cmd or of the Start that is about to keep it there,
OneServer ==
  ~overlap =>
    /\ \A s \in alive : s = cmd \/ \E c \in Callers : at[c] = "keep" /\ number[c] = s
    /\ \A c \in Callers : at[c] = "keep" => alive \subseteq {number[c]}
    /\ conn = None /\ (\A c \in Callers : at[c] \notin Begun \ {"exec"}) => alive = {}

\* and one socket.
OneSocket ==
  ~overlap => \A s \in open : \/ s = conn
                              \/ \E c \in Callers : at[c] = "publish" /\ number[c] = s

\* While all losses are reported by the loop of the connection, too: one loop at most,
\* and a process for each Start that dials.
OneLoop ==
  ~(foreign \/ closed \/ overlap) =>
    /\ \A n, m \in Starts : Active(n) /\ Active(m) => n = m
    /\ \A n \in Starts : Active(n) => conn # None
    /\ \A n \in Starts : loop[n] = "read" => reads[n] = conn
    /\ \A c \in Callers : at[c] \in {"aim", "dial"} => cmd # None

\* A positive answer comes from a server that was initialized, and the answer to
\* initialize comes on the socket it was written to.
GoodAnswers ==
  \A a \in answers :
    /\ at[a.of] \notin Begun \cup {"start"}
    /\ a.good => peer[a.on] \in greeted
    /\ doing[a.of] = "initialize" => at[a.of] \in {"await", "done"}
    /\ doing[a.of] = "initialize" /\ at[a.of] = "await" => a.on = taken[a.of]

\* A Start that initializes the connection in place writes to that one.
Greeting ==
  \A c \in Callers : doing[c] = "initialize" =>
    /\ at[c] \in {"register", "take", "write", "await", "done"}
    /\ at[c] \in {"take", "write"} => box[c] # "ok"
    /\ at[c] = "await" /\ box[c] = "ok" => peer[taken[c]] \in greeted
    /\ at[c] \in {"write", "await"} /\ conn = number[c] => taken[c] = conn

\* A task is asked once, before it answers.
AskedFirst == \A t \in Tasks : at[t] = "idle" => answered[t] = None

\* A call that can still be answered is registered, and waits on the connection in place.
CallsRegistered ==
  \A c \in Callers :
    /\ at[c] \in {"take", "write", "await"} /\ box[c] = "empty" => c \in pending
    /\ ~closed /\ ~overlap /\ at[c] = "await" /\ box[c] = "empty" =>
         conn # None /\ taken[c] = conn

\* Who writes, or waits for an answer, has taken a socket.
Taking == \A w \in Writers : at[w] \in {"write", "await"} => taken[w] # None

\* The connection in place has a reader.
InPlaceIsWatched == ~closed /\ ~overlap /\ conn # None => Watched(conn)

\* What a writer writes is its own.
Doings ==
  /\ \A t \in Tasks : doing[t] = "reply"
  /\ \A c \in Callers : doing[c] \in {"initialize", "initialized"} => number[c] # None

\* The inductive invariant: sockets, servers and loops while nothing disturbs them, and
\* the calls and replies that go through them.
IInv ==
  /\ LinkTypeOK /\ Doings /\ OwnNumbers /\ KnownNumbers /\ Unpublished /\ Taking
  /\ InPlaceIsOpen /\ OneStart /\ OneServer /\ OneSocket /\ OneLoop
  /\ GoodAnswers /\ Greeting /\ AskedFirst /\ CallsRegistered /\ InPlaceIsWatched
  /\ PublishedIsGreeted /\ RepliesGoBack /\ CrashNeedsForeignLoss

-----------------------------------------------------------------------------
(* What the lemmas need of the types, and what a loss and a dial do. *)

\* The part of the types that the other conjuncts need.
Sorts ==
  /\ at \in [Writers -> Places] /\ DOMAIN doing = Writers
  /\ number \in [Callers -> Maybe(Starts)] /\ DOMAIN target = Callers
  /\ taken \in [Writers -> Maybe(Starts)]
  /\ pending \subseteq Callers /\ DOMAIN box = Callers
  /\ asker \in [Tasks -> Maybe(Starts)] /\ DOMAIN answered = Tasks
  /\ conn \in Maybe(Starts) /\ cmd \in Maybe(Starts) /\ starts \in Starts
  /\ alive \subseteq Starts /\ open \subseteq Starts /\ DOMAIN peer = Starts
  /\ DOMAIN loop = Starts /\ reads \in [Starts -> Maybe(Starts)]
  /\ \A a \in answers : a.on \in Starts /\ a.of \in Callers
  /\ crashed \in BOOLEAN /\ overlap \in BOOLEAN /\ foreign \in BOOLEAN /\ closed \in BOOLEAN

\* It follows from the types.
LEMMA SortsHold == LinkTypeOK => Sorts
BY DEF LinkTypeOK, Sorts

\* A loss clears the fields and answers every registered call.
LEMMA LossFacts ==
  ASSUME Sorts, HandleConnectionLoss
  PROVE  /\ conn' = None /\ cmd' = None /\ pending' = {}
         /\ open' = open \ {conn} /\ alive' = alive \ {cmd}
         /\ answers' \subseteq answers
         /\ DOMAIN box' = Callers
         /\ \A c \in Callers :
              box'[c] = IF c \in pending /\ box[c] = "empty" THEN "lost" ELSE box[c]
BY LinkAssumption DEF Sorts, HandleConnectionLoss, calls, Maybe, Starts

\* Every step of a writer leads to a place.
LEMMA PlaceKnown ==
  ASSUME at \in [Writers -> Places], NEW w \in Writers,
         NEW x \in {"exec", "keep", "aim", "dial", "publish", "register", "take", "write", "await", "done"},
         at' = [at EXCEPT ![w] = x]
  PROVE  at' \in [Writers -> Places]
BY DEF Places

\* A process that starts is the only one to come.
LEMMA ExecFacts ==
  ASSUME NEW c \in Callers, Exec(c)
  PROVE  /\ at[c] = "exec"
         /\ \/ at' = [at EXCEPT ![c] = "keep"] /\ alive' \subseteq alive \cup {number[c]}
            \/ at' = [at EXCEPT ![c] = "done"] /\ alive' = alive
         /\ port' = port \/ port' = [port EXCEPT ![number[c]] = url]
         /\ UNCHANGED <<doing, number, target, taken, asker, answered, pending, box, conn, cmd, url,
                        closed, starts, greeted, open, peer, loop, reads, answers, crashed, overlap,
                        foreign, abandoned, deaths>>
BY DEF Exec, Goto, Rivals, calls, fields, sockets, loops, history

\* A dial gives a running server to its own socket and to no other, or fails.
LEMMA DialFacts ==
  ASSUME NEW c \in Callers, Dial(c)
  PROVE  /\ at[c] = "dial"
         /\ \/ /\ at' = [at EXCEPT ![c] = "publish"]
               /\ \E s \in alive : peer' = [peer EXCEPT ![number[c]] = s]
               /\ open' = open \cup {number[c]} /\ UNCHANGED <<alive, crashed>>
            \/ /\ at' = [at EXCEPT ![c] = "done"] /\ alive' = alive \ {cmd}
               /\ crashed' = (cmd = None) /\ UNCHANGED <<open, peer>>
         /\ UNCHANGED <<doing, number, target, taken, asker, answered, pending, box, conn, cmd, url,
                        closed, starts, port, greeted, loop, reads, answers, overlap, foreign,
                        abandoned, deaths>>
BY DEF Dial, Connects, Goto, Rivals, calls, sockets, loops, history

\* The types in three parts: writers,
WriterTypes ==
  /\ at \in [Writers -> Places]
  /\ doing \in [Writers -> {"initialize", "initialized", "request", "reply"}]
  /\ number \in [Callers -> Maybe(Starts)] /\ target \in [Callers -> Maybe(Starts)]
  /\ taken \in [Writers -> Maybe(Starts)]
  /\ asker \in [Tasks -> Maybe(Starts)] /\ answered \in [Tasks -> Maybe(Starts)]

\* the client's fields and histories,
ClientTypes ==
  /\ pending \subseteq Callers
  /\ box \in [Callers -> {"empty", "ok", "refused", "lost"}]
  /\ conn \in Maybe(Starts) /\ cmd \in Maybe(Starts) /\ url \in Starts
  /\ closed \in BOOLEAN /\ starts \in Starts
  /\ loop \in [Starts -> {"none", "top", "read", "gone"}]
  /\ reads \in [Starts -> Maybe(Starts)]
  /\ crashed \in BOOLEAN /\ overlap \in BOOLEAN /\ foreign \in BOOLEAN
  /\ abandoned \subseteq Starts

\* servers, sockets and answers.
ServerTypes ==
  /\ alive \subseteq Starts /\ greeted \subseteq Starts
  /\ port \in [Starts -> Maybe(Starts)] /\ open \subseteq Starts /\ peer \in [Starts -> Maybe(Starts)]
  /\ answers \subseteq [on : Starts, of : Callers, good : BOOLEAN]
  /\ deaths \in 0..MaxDeath

\* Together they are the types.
LEMMA TypeParts == LinkTypeOK <=> WriterTypes /\ ClientTypes /\ ServerTypes
BY DEF LinkTypeOK, WriterTypes, ClientTypes, ServerTypes

-----------------------------------------------------------------------------
(* The steps, one lemma for each conjunct. *)

\* Every step keeps the types of the writers,
LEMMA WriterTypesStep ==
  ASSUME LinkTypeOK, OwnNumbers, Doings, WriterTypes, [LinkNext]_linkVars
  PROVE  WriterTypes'
<1> Sorts
  BY SortsHold
<1> USE LinkAssumption DEF Goto, Starts, Writers, Maybe, writers, calls, fields, servers,
      sockets, loops, history, GiveUp, Written, Starting, Sorts, WriterTypes, Begun
<1>1. CASE UNCHANGED linkVars BY <1>1 DEF linkVars
<1>2. ASSUME NEW c \in Callers, CallerStep(c) PROVE WriterTypes'
  <2>1. CASE CheckOpen(c)
    <3>1. at' \in [Writers -> Places]
      <4>1. at' = [at EXCEPT ![c] = "register"] \/ at' = [at EXCEPT ![c] = "exec"]
        BY <2>1 DEF CheckOpen
      <4> QED
        BY <4>1, PlaceKnown
    <3>2. starts < MaxStart => starts + 1 \in Maybe(Starts)
      OBVIOUS
    <3>3. UNCHANGED number \/ (starts < MaxStart /\ number' = [number EXCEPT ![c] = starts + 1])
      BY <2>1 DEF CheckOpen
    <3>4. UNCHANGED <<doing, target, taken, asker, answered>>
      BY <2>1 DEF CheckOpen
    <3> HIDE DEF Maybe, Starts
    <3>5. number' \in [Callers -> Maybe(Starts)]
      BY <3>2, <3>3
    <3> QED
      BY <3>1, <3>4, <3>5
  <2>2. CASE Exec(c)
    <3>1. at' \in [Writers -> Places]
      <4>1. at' = [at EXCEPT ![c] = "keep"] \/ at' = [at EXCEPT ![c] = "done"]
        BY <2>2, ExecFacts
      <4> QED
        BY <4>1, PlaceKnown
    <3>2. UNCHANGED <<doing, number, target, taken, asker, answered>>
      BY <2>2, ExecFacts
    <3> QED
      BY <3>1, <3>2
  <2>3. CASE Dial(c)
    <3>1. at' \in [Writers -> Places]
      <4>1. at' = [at EXCEPT ![c] = "publish"] \/ at' = [at EXCEPT ![c] = "done"]
        BY <2>3, DialFacts
      <4> QED
        BY <4>1, PlaceKnown
    <3>2. UNCHANGED <<doing, number, target, taken, asker, answered>>
      BY <2>3, DialFacts
    <3> QED
      BY <3>1, <3>2
  <2>4. CASE Publish(c) BY <2>4, PlaceKnown DEF Publish
  <2>5. CASE Enter(c) BY <2>5, PlaceKnown DEF Enter
  <2>6. CASE Await(c)
    <3>1. at' \in [Writers -> Places]
      <4>1. at' = [at EXCEPT ![c] = "take"] \/ at' = [at EXCEPT ![c] = "done"]
        BY <2>6 DEF Await
      <4> QED
        BY <4>1, PlaceKnown
    <3>2. doing' \in [Writers -> {"initialize", "initialized", "request", "reply"}]
      BY <2>6 DEF Await
    <3>3. taken' \in [Writers -> Maybe(Starts)]
      <4>1. taken' = [taken EXCEPT ![c] = None] \/ taken' = taken
        BY <2>6 DEF Await
      <4> QED
        BY <4>1
    <3>4. UNCHANGED <<number, target, asker, answered>>
      BY <2>6 DEF Await
    <3> QED
      BY <3>1, <3>2, <3>3, <3>4
  <2>7. CASE KeepCmd(c) BY <2>7, PlaceKnown DEF KeepCmd
  <2>8. CASE Aim(c)
    <3>1. url \in Maybe(Starts)
      BY DEF LinkTypeOK
    <3> QED
      BY <2>8, <3>1, PlaceKnown DEF Aim
  <2> QED
    BY <1>2, <2>1, <2>2, <2>3, <2>4, <2>5, <2>6, <2>7, <2>8 DEF CallerStep
<1>3. ASSUME NEW w \in Writers, WriterStep(w) PROVE WriterTypes'
  <2>1. CASE Take(w)
    <3>1. at' \in [Writers -> Places]
      <4>1. at' = [at EXCEPT ![w] = "write"] \/ at' = [at EXCEPT ![w] = "done"]
        BY <2>1 DEF Take
      <4> QED
        BY <4>1, PlaceKnown
    <3>2. taken' \in [Writers -> Maybe(Starts)]
      BY <2>1 DEF Take
    <3>3. UNCHANGED <<doing, number, target, asker, answered>>
      BY <2>1 DEF Take
    <3> QED
      BY <3>1, <3>2, <3>3
  <2>2. CASE Write(w)
    <3>0. at' \in [Writers -> Places]
      <4>1. \/ at' = [at EXCEPT ![w] = "done"] \/ at' = [at EXCEPT ![w] = "register"]
            \/ at' = [at EXCEPT ![w] = "await"]
        BY <2>2 DEF Write
      <4> QED
        BY <4>1, PlaceKnown
    <3>1. CASE taken[w] \in open /\ peer[taken[w]] \in alive /\ Serve(w,
       peer[taken[w]]) /\ Written(w)
               /\ UNCHANGED <<calls, conn, cmd, open, alive, foreign, abandoned>>
      BY <2>2, <3>0, <3>1 DEF Write, Serve
    <3>2. CASE taken[w] \in open /\ peer[taken[w]] \notin alive /\ Written(w)
               /\ UNCHANGED <<greeted, answers, answered, calls, conn, cmd, open, alive,
                  foreign, abandoned>>
      BY <2>2, <3>0, <3>2 DEF Write
    <3>3. CASE (taken[w] \notin open \/ peer[taken[w]] \notin alive) /\ HandleConnectionLoss
               /\ foreign' = TRUE /\ GiveUp(w) /\ UNCHANGED <<doing, greeted, answered>>
      BY <2>2, <3>0, <3>3, LossFacts DEF Write
    <3> QED
      BY <2>2, <3>1, <3>2, <3>3 DEF Write
  <2> QED
    BY <1>3, <2>1, <2>2 DEF WriterStep
<1>4. ASSUME NEW n \in Starts, LoopStep(n) PROVE WriterTypes'
  <2>1. CASE ReadTop(n) BY <2>1 DEF ReadTop
  <2>2. CASE ReadAnswer(n) BY <2>2 DEF ReadAnswer
  <2>3. CASE ReadError(n) BY <2>3, LossFacts DEF ReadError
  <2> QED
    BY <1>4, <2>1, <2>2, <2>3 DEF LoopStep
<1>5. ASSUME NEW n \in Starts, NEW t \in Tasks, ReadRequest(n, t) PROVE WriterTypes'
  <2>1. t \in Writers /\ at' = [at EXCEPT ![t] = "take"]
    BY <1>5 DEF ReadRequest
  <2>2. at' \in [Writers -> Places]
    BY <2>1, PlaceKnown
  <2>3. reads[n] \in open /\ UNCHANGED <<doing, number, target, taken, answered>>
        /\ asker' = [asker EXCEPT ![t] = peer[reads[n]]]
    BY <1>5 DEF ReadRequest
  <2>4. peer[reads[n]] \in Maybe(Starts)
    BY <2>3 DEF LinkTypeOK
  <2> QED
    BY <2>2, <2>3, <2>4
<1>6. CASE Close BY <1>6 DEF Close
<1>7. ASSUME NEW s \in Starts, ServerDies(s) PROVE WriterTypes'
  BY <1>7 DEF ServerDies
<1> HIDE DEF Goto, Maybe, writers, calls, fields, servers, sockets, loops, history, GiveUp,
      Written, Starting, Sorts, WriterTypes, Begun
<1> QED
  BY <1>1, <1>2, <1>3, <1>4, <1>5, <1>6, <1>7 DEF LinkNext

\* those of the client's fields and histories,
LEMMA ClientTypesStep ==
  ASSUME LinkTypeOK, OwnNumbers, Doings, ClientTypes, [LinkNext]_linkVars
  PROVE  ClientTypes'
<1> Sorts
  BY SortsHold
<1> USE LinkAssumption DEF Goto, Starts, Writers, Maybe, writers, calls, fields, servers,
      sockets, loops, history, GiveUp, Written, Starting, Sorts, OwnNumbers, Doings,
      ClientTypes, Begun
<1>1. CASE UNCHANGED linkVars BY <1>1 DEF linkVars
<1>2. ASSUME NEW c \in Callers, CallerStep(c) PROVE ClientTypes'
  <2>1. CASE CheckOpen(c)
    <3>1. starts' \in Starts /\ url' \in Starts
      BY <2>1 DEF CheckOpen
    <3>2. overlap' \in BOOLEAN
      BY <2>1 DEF CheckOpen
    <3>3. UNCHANGED <<calls, conn, cmd, closed, loops, crashed, foreign, abandoned>>
      BY <2>1 DEF CheckOpen
    <3> QED
      BY <3>1, <3>2, <3>3
  <2>2. CASE Exec(c) BY <2>2, ExecFacts
  <2>3. CASE Dial(c)
    <3>1. UNCHANGED <<pending, box, conn, cmd, url, closed, starts, loop, reads, overlap, foreign,
                     abandoned>>
      BY <2>3, DialFacts
    <3>2. crashed' \in BOOLEAN
      BY <2>3, DialFacts
    <3> QED
      BY <3>1, <3>2
  <2>4. CASE Publish(c) BY <2>4 DEF Publish
  <2>5. CASE Enter(c) BY <2>5 DEF Enter
  <2>6. CASE Await(c)
    <3>1. pending' \subseteq Callers
      BY <2>6 DEF Await
    <3>2. doing[c] \in {"initialize", "initialized"} => number[c] \in Starts
      BY <2>6
    <3>3. abandoned' = abandoned
          \/ (doing[c] \in {"initialize",
             "initialized"} /\ abandoned' = abandoned \cup {number[c]})
      BY <2>6 DEF Await
    <3>4. abandoned \subseteq Starts
      OBVIOUS
    <3>5. UNCHANGED <<box, fields, loops, crashed, overlap, foreign>>
      BY <2>6 DEF Await
    <3>6. abandoned' \subseteq Starts
      <4> HIDE DEF Starts, ClientTypes, OwnNumbers, Doings, Sorts
      <4> QED
        BY <3>2, <3>3, <3>4
    <3> QED
      BY <3>1, <3>5, <3>6
  <2>7. CASE KeepCmd(c) BY <2>7 DEF KeepCmd
  <2>8. CASE Aim(c) BY <2>8 DEF Aim
  <2> QED
    BY <1>2, <2>1, <2>2, <2>3, <2>4, <2>5, <2>6, <2>7, <2>8 DEF CallerStep
<1>3. ASSUME NEW w \in Writers, WriterStep(w) PROVE ClientTypes'
  <2>1. CASE Take(w)
    <3>1. pending' \subseteq Callers
      BY <2>1 DEF Take
    <3>2. abandoned' = abandoned \/ (w \in Callers /\ number[w] # None /\ abandoned' = abandoned \cup {number[w]})
      BY <2>1 DEF Take
    <3>3. UNCHANGED <<box, fields, loops, crashed, overlap, foreign>>
      BY <2>1 DEF Take
    <3>4. number \in [Callers -> Starts \cup {None}] /\ abandoned \subseteq Starts
      OBVIOUS
    <3>5. abandoned' \subseteq Starts
      <4> HIDE DEF Starts, ClientTypes, OwnNumbers, Doings, Sorts
      <4> QED
        BY <3>2, <3>4
    <3> QED
      BY <3>1, <3>3, <3>5
  <2>2. CASE Write(w)
    <3>1. CASE taken[w] \in open /\ peer[taken[w]] \in alive /\ Serve(w,
       peer[taken[w]]) /\ Written(w)
               /\ UNCHANGED <<calls, conn, cmd, open, alive, foreign, abandoned>>
      BY <2>2, <3>1 DEF Write, Serve
    <3>2. CASE taken[w] \in open /\ peer[taken[w]] \notin alive /\ Written(w)
               /\ UNCHANGED <<greeted, answers, answered, calls, conn, cmd, open, alive,
                  foreign, abandoned>>
      BY <2>2, <3>2 DEF Write
    <3>3. CASE (taken[w] \notin open \/ peer[taken[w]] \notin alive) /\ HandleConnectionLoss
               /\ foreign' = TRUE /\ GiveUp(w) /\ UNCHANGED <<doing, greeted, answered>>
      <4>1. /\ pending' \subseteq Callers /\ conn' \in Maybe(Starts) /\ cmd' \in Maybe(Starts)
            /\ box' \in [Callers -> {"empty", "ok", "refused", "lost"}]
        BY <2>2, <3>3, LossFacts DEF HandleConnectionLoss
      <4>2. abandoned' \subseteq Starts
        BY <2>2, <3>3
      <4>3. UNCHANGED <<url, closed, starts, loops, crashed, overlap>> /\ foreign' = TRUE
        BY <2>2, <3>3, LossFacts DEF Write
      <4> QED
        BY <4>1, <4>2, <4>3
    <3> QED
      BY <2>2, <3>1, <3>2, <3>3 DEF Write
  <2> QED
    BY <1>3, <2>1, <2>2 DEF WriterStep
<1>4. ASSUME NEW n \in Starts, LoopStep(n) PROVE ClientTypes'
  <2>1. CASE ReadTop(n)
    <3>1. loop' \in [Starts -> {"none", "top", "read", "gone"}]
      BY <2>1 DEF ReadTop
    <3>2. reads' \in [Starts -> Maybe(Starts)]
      BY <2>1 DEF ReadTop
    <3>3. crashed' \in BOOLEAN
      BY <2>1 DEF ReadTop
    <3>4. UNCHANGED <<calls, fields, history>>
      BY <2>1 DEF ReadTop
    <3> QED
      BY <3>1, <3>2, <3>3, <3>4
  <2>2. CASE ReadAnswer(n) BY <2>2 DEF ReadAnswer
  <2>3. CASE ReadError(n)
    <3>1. /\ pending' \subseteq Callers /\ conn' \in Maybe(Starts) /\ cmd' \in Maybe(Starts)
          /\ box' \in [Callers -> {"empty", "ok", "refused", "lost"}]
      BY <2>3 DEF ReadError, HandleConnectionLoss
    <3>2. loop' \in [Starts -> {"none", "top", "read",
       "gone"}] /\ reads' \in [Starts -> Maybe(Starts)]
      BY <2>3 DEF ReadError
    <3>3. foreign' \in BOOLEAN
      BY <2>3 DEF ReadError
    <3>4. UNCHANGED <<url, closed, starts, crashed, overlap, abandoned>>
      BY <2>3 DEF ReadError
    <3> QED
      BY <3>1, <3>2, <3>3, <3>4
  <2> QED
    BY <1>4, <2>1, <2>2, <2>3 DEF LoopStep
<1>5. ASSUME NEW n \in Starts, NEW t \in Tasks, ReadRequest(n, t) PROVE ClientTypes'
  BY <1>5 DEF ReadRequest
<1>6. CASE Close BY <1>6 DEF Close
<1>7. ASSUME NEW s \in Starts, ServerDies(s) PROVE ClientTypes'
  BY <1>7 DEF ServerDies
<1> HIDE DEF Goto, Maybe, writers, calls, fields, servers, sockets, loops, history, GiveUp,
      Written, Starting, Sorts, OwnNumbers, Doings, ClientTypes, Begun
<1> QED
  BY <1>1, <1>2, <1>3, <1>4, <1>5, <1>6, <1>7 DEF LinkNext

\* and those of the servers, sockets and answers.
LEMMA ServerTypesStep ==
  ASSUME LinkTypeOK, OwnNumbers, Doings, Taking, ServerTypes, [LinkNext]_linkVars
  PROVE  ServerTypes'
<1> Sorts
  BY SortsHold
<1> USE LinkAssumption DEF Goto, Starts, Writers, Maybe, writers, calls, fields, servers,
      sockets, loops, history, GiveUp, Written, Starting, Sorts, OwnNumbers, Doings, Taking,
      ServerTypes, Begun
<1>1. CASE UNCHANGED linkVars BY <1>1 DEF linkVars
<1>2. ASSUME NEW c \in Callers, CallerStep(c) PROVE ServerTypes'
  <2>1. CASE CheckOpen(c) BY <2>1 DEF CheckOpen
  <2>2. CASE Exec(c)
    <3>1. number[c] \in Starts
      BY <2>2, ExecFacts
    <3>2. alive' \subseteq alive \cup {number[c]}
      BY <2>2, ExecFacts
    <3>3. UNCHANGED <<greeted, open, peer, answers, deaths>>
      BY <2>2, ExecFacts
    <3>4. url \in Maybe(Starts)
      BY DEF LinkTypeOK
    <3>5. port' \in [Starts -> Maybe(Starts)]
      <4>1. port' = port \/ port' = [port EXCEPT ![number[c]] = url]
        BY <2>2, ExecFacts
      <4>2. port \in [Starts -> Maybe(Starts)]
        OBVIOUS
      <4> QED
        BY <3>4, <4>1, <4>2
    <3> QED
      BY <3>1, <3>2, <3>3, <3>5
  <2>3. CASE Dial(c)
    <3>1. number[c] \in Starts
      BY <2>3, DialFacts
    <3>2. alive' \subseteq alive /\ open' \subseteq open \cup {number[c]}
      BY <2>3, DialFacts
    <3>3. peer' = peer \/ \E s \in alive : peer' = [peer EXCEPT ![number[c]] = s]
      BY <2>3, DialFacts
    <3>4. UNCHANGED <<port, greeted, answers, deaths>>
      BY <2>3, DialFacts
    <3>5. peer' \in [Starts -> Maybe(Starts)]
      <4>1. peer \in [Starts -> Maybe(Starts)] /\ \A s \in alive : s \in Maybe(Starts)
        OBVIOUS
      <4> HIDE DEF Maybe, Starts, ServerTypes
      <4> QED
        BY <3>1, <3>3, <4>1
    <3> QED
      BY <3>1, <3>2, <3>4, <3>5
  <2>4. CASE Publish(c) BY <2>4 DEF Publish
  <2>5. CASE Enter(c) BY <2>5 DEF Enter
  <2>6. CASE Await(c) BY <2>6 DEF Await
  <2>7. CASE KeepCmd(c) BY <2>7 DEF KeepCmd
  <2>8. CASE Aim(c) BY <2>8 DEF Aim
  <2> QED
    BY <1>2, <2>1, <2>2, <2>3, <2>4, <2>5, <2>6, <2>7, <2>8 DEF CallerStep
<1>3. ASSUME NEW w \in Writers, WriterStep(w) PROVE ServerTypes'
  <2>1. CASE Take(w) BY <2>1 DEF Take
  <2>2. CASE Write(w)
    <3>1. CASE taken[w] \in open /\ peer[taken[w]] \in alive /\ Serve(w,
       peer[taken[w]]) /\ Written(w)
               /\ UNCHANGED <<calls, conn, cmd, open, alive, foreign, abandoned>>
      BY <2>2, <3>1 DEF Write, Serve
    <3>2. CASE taken[w] \in open /\ peer[taken[w]] \notin alive /\ Written(w)
               /\ UNCHANGED <<greeted, answers, answered, calls, conn, cmd, open, alive,
                  foreign, abandoned>>
      BY <2>2, <3>2 DEF Write
    <3>3. CASE (taken[w] \notin open \/ peer[taken[w]] \notin alive) /\ HandleConnectionLoss
               /\ foreign' = TRUE /\ GiveUp(w) /\ UNCHANGED <<doing, greeted, answered>>
      BY <2>2, <3>3, LossFacts DEF Write
    <3> QED
      BY <2>2, <3>1, <3>2, <3>3 DEF Write
  <2> QED
    BY <1>3, <2>1, <2>2 DEF WriterStep
<1>4. ASSUME NEW n \in Starts, LoopStep(n) PROVE ServerTypes'
  <2>1. CASE ReadTop(n) BY <2>1 DEF ReadTop
  <2>2. CASE ReadAnswer(n) BY <2>2 DEF ReadAnswer
  <2>3. CASE ReadError(n) BY <2>3, LossFacts DEF ReadError
  <2> QED
    BY <1>4, <2>1, <2>2, <2>3 DEF LoopStep
<1>5. ASSUME NEW n \in Starts, NEW t \in Tasks, ReadRequest(n, t) PROVE ServerTypes'
  BY <1>5 DEF ReadRequest
<1>6. CASE Close BY <1>6 DEF Close
<1>7. ASSUME NEW s \in Starts, ServerDies(s) PROVE ServerTypes'
  BY <1>7 DEF ServerDies
<1> HIDE DEF Goto, Maybe, writers, calls, fields, servers, sockets, loops, history, GiveUp,
      Written, Starting, Sorts, OwnNumbers, Doings, Taking, ServerTypes, Begun
<1> QED
  BY <1>1, <1>2, <1>3, <1>4, <1>5, <1>6, <1>7 DEF LinkNext

\* Only a caller with a number initializes.
LEMMA DoingsStep ==
  ASSUME LinkTypeOK, OwnNumbers, Doings, [LinkNext]_linkVars
  PROVE  Doings'
<1> Sorts
  BY SortsHold
<1> USE LinkAssumption DEF Goto, Starts, Writers, Maybe, writers, calls, fields, servers,
      sockets, loops, history, GiveUp, Written, Starting, Sorts, Doings, OwnNumbers, Begun
<1>1. CASE UNCHANGED linkVars BY <1>1 DEF linkVars
<1>2. ASSUME NEW c \in Callers, CallerStep(c) PROVE Doings'
  <2>1. CASE CheckOpen(c) BY <2>1 DEF CheckOpen
  <2>2. CASE Exec(c) BY <2>2, ExecFacts
  <2>3. CASE Dial(c) BY <2>3, DialFacts
  <2>4. CASE Publish(c) BY <2>4 DEF Publish
  <2>5. CASE Enter(c) BY <2>5 DEF Enter
  <2>6. CASE Await(c) BY <2>6 DEF Await
  <2>7. CASE KeepCmd(c) BY <2>7 DEF KeepCmd
  <2>8. CASE Aim(c) BY <2>8 DEF Aim
  <2> QED
    BY <1>2, <2>1, <2>2, <2>3, <2>4, <2>5, <2>6, <2>7, <2>8 DEF CallerStep
<1>3. ASSUME NEW w \in Writers, WriterStep(w) PROVE Doings'
  <2>1. CASE Take(w) BY <2>1 DEF Take
  <2>2. CASE Write(w)
    <3>1. CASE taken[w] \in open /\ peer[taken[w]] \in alive /\ Serve(w,
       peer[taken[w]]) /\ Written(w)
               /\ UNCHANGED <<calls, conn, cmd, open, alive, foreign, abandoned>>
      BY <2>2, <3>1 DEF Write, Serve
    <3>2. CASE taken[w] \in open /\ peer[taken[w]] \notin alive /\ Written(w)
               /\ UNCHANGED <<greeted, answers, answered, calls, conn, cmd, open, alive,
                  foreign, abandoned>>
      BY <2>2, <3>2 DEF Write
    <3>3. CASE (taken[w] \notin open \/ peer[taken[w]] \notin alive) /\ HandleConnectionLoss
               /\ foreign' = TRUE /\ GiveUp(w) /\ UNCHANGED <<doing, greeted, answered>>
      BY <2>2, <3>3, LossFacts DEF Write
    <3> QED
      BY <2>2, <3>1, <3>2, <3>3 DEF Write
  <2> QED
    BY <1>3, <2>1, <2>2 DEF WriterStep
<1>4. ASSUME NEW n \in Starts, LoopStep(n) PROVE Doings'
  <2>1. CASE ReadTop(n) BY <2>1 DEF ReadTop
  <2>2. CASE ReadAnswer(n) BY <2>2 DEF ReadAnswer
  <2>3. CASE ReadError(n) BY <2>3, LossFacts DEF ReadError
  <2> QED
    BY <1>4, <2>1, <2>2, <2>3 DEF LoopStep
<1>5. ASSUME NEW n \in Starts, NEW t \in Tasks, ReadRequest(n, t) PROVE Doings'
  BY <1>5 DEF ReadRequest
<1>6. CASE Close BY <1>6 DEF Close
<1>7. ASSUME NEW s \in Starts, ServerDies(s) PROVE Doings'
  BY <1>7 DEF ServerDies
<1> HIDE DEF Goto, Maybe, writers, calls, fields, servers, sockets, loops, history, GiveUp,
      Written, Starting, Sorts, Doings, OwnNumbers, Begun
<1> QED
  BY <1>1, <1>2, <1>3, <1>4, <1>5, <1>6, <1>7 DEF LinkNext

\* A start takes the next number.
LEMMA OwnStep ==
  ASSUME LinkTypeOK, OwnNumbers, [LinkNext]_linkVars
  PROVE  OwnNumbers'
<1> Sorts
  BY SortsHold
<1> USE LinkAssumption DEF Goto, Starts, Writers, Maybe, writers, calls, fields, servers,
      sockets, loops, history, GiveUp, Written, Starting, Sorts, OwnNumbers, Begun
<1>1. CASE UNCHANGED linkVars BY <1>1 DEF linkVars
<1>2. ASSUME NEW c \in Callers, CallerStep(c) PROVE OwnNumbers'
  <2>1. CASE CheckOpen(c)
    <3>1. starts' = starts \/ starts' = starts + 1
      BY <2>1 DEF CheckOpen
    <3>2. CASE starts' = starts + 1 /\ number' = [number EXCEPT ![c] = starts + 1] /\ Goto(c,
       "exec")
      BY <2>1, <3>2 DEF CheckOpen
    <3>3. CASE Goto(c, "register") /\ UNCHANGED <<number, starts, url, overlap>>
      BY <2>1, <3>3 DEF CheckOpen
    <3> QED
      BY <2>1, <3>2, <3>3 DEF CheckOpen
  <2>2. CASE Exec(c) BY <2>2, ExecFacts
  <2>3. CASE Dial(c) BY <2>3, DialFacts
  <2>4. CASE Publish(c) BY <2>4 DEF Publish
  <2>5. CASE Enter(c) BY <2>5 DEF Enter
  <2>6. CASE Await(c) BY <2>6 DEF Await
  <2>7. CASE KeepCmd(c) BY <2>7 DEF KeepCmd
  <2>8. CASE Aim(c) BY <2>8 DEF Aim
  <2> QED
    BY <1>2, <2>1, <2>2, <2>3, <2>4, <2>5, <2>6, <2>7, <2>8 DEF CallerStep
<1>3. ASSUME NEW w \in Writers, WriterStep(w) PROVE OwnNumbers'
  <2>1. CASE Take(w) BY <2>1 DEF Take
  <2>2. CASE Write(w)
    <3>1. CASE taken[w] \in open /\ peer[taken[w]] \in alive /\ Serve(w,
       peer[taken[w]]) /\ Written(w)
               /\ UNCHANGED <<calls, conn, cmd, open, alive, foreign, abandoned>>
      BY <2>2, <3>1 DEF Write, Serve
    <3>2. CASE taken[w] \in open /\ peer[taken[w]] \notin alive /\ Written(w)
               /\ UNCHANGED <<greeted, answers, answered, calls, conn, cmd, open, alive,
                  foreign, abandoned>>
      BY <2>2, <3>2 DEF Write
    <3>3. CASE (taken[w] \notin open \/ peer[taken[w]] \notin alive) /\ HandleConnectionLoss
               /\ foreign' = TRUE /\ GiveUp(w) /\ UNCHANGED <<doing, greeted, answered>>
      BY <2>2, <3>3, LossFacts DEF Write
    <3> QED
      BY <2>2, <3>1, <3>2, <3>3 DEF Write
  <2> QED
    BY <1>3, <2>1, <2>2 DEF WriterStep
<1>4. ASSUME NEW n \in Starts, LoopStep(n) PROVE OwnNumbers'
  <2>1. CASE ReadTop(n) BY <2>1 DEF ReadTop
  <2>2. CASE ReadAnswer(n) BY <2>2 DEF ReadAnswer
  <2>3. CASE ReadError(n) BY <2>3, LossFacts DEF ReadError
  <2> QED
    BY <1>4, <2>1, <2>2, <2>3 DEF LoopStep
<1>5. ASSUME NEW n \in Starts, NEW t \in Tasks, ReadRequest(n, t) PROVE OwnNumbers'
  BY <1>5 DEF ReadRequest
<1>6. CASE Close BY <1>6 DEF Close
<1>7. ASSUME NEW s \in Starts, ServerDies(s) PROVE OwnNumbers'
  BY <1>7 DEF ServerDies
<1> HIDE DEF Goto, Maybe, writers, calls, fields, servers, sockets, loops, history, GiveUp,
      Written, Starting, Sorts, OwnNumbers, Begun
<1> QED
  BY <1>1, <1>2, <1>3, <1>4, <1>5, <1>6, <1>7 DEF LinkNext

\* Only the start that has a number brings it into a field, a socket or a process.
LEMMA KnownStep ==
  ASSUME LinkTypeOK, OwnNumbers, KnownNumbers, [LinkNext]_linkVars
  PROVE  KnownNumbers'
<1> Sorts
  BY SortsHold
<1> USE LinkAssumption DEF Goto, Starts, Writers, Maybe, writers, calls, fields, servers,
      sockets, loops, history, GiveUp, Written, Starting, Sorts, OwnNumbers, KnownNumbers, Begun
<1>1. CASE UNCHANGED linkVars BY <1>1 DEF linkVars
<1>2. ASSUME NEW c \in Callers, CallerStep(c) PROVE KnownNumbers'
  <2>1. CASE CheckOpen(c)
    <3>1. UNCHANGED <<conn, cmd, alive, open, taken, reads, asker, answers>>
      BY <2>1 DEF CheckOpen
    <3>2. starts' = starts \/ starts' = starts + 1
      BY <2>1 DEF CheckOpen
    <3>3. \A s \in Starts : s <= starts => s <= starts'
      BY <3>2
    <3>4. /\ \A s \in {conn, cmd} : s # None => s \in Starts
          /\ \A w \in Writers : taken[w] # None => taken[w] \in Starts
          /\ \A n \in Starts : reads[n] # None => reads[n] \in Starts
      OBVIOUS
    <3>5. \A t \in Tasks : asker[t] # None => asker[t] \in Starts
      OBVIOUS
    <3> HIDE DEF Starts, Writers
    <3> QED
      BY <3>1, <3>3, <3>4, <3>5
  <2>2. CASE Exec(c)
    <3>1. number[c] \in Starts /\ number[c] <= starts
      BY <2>2, ExecFacts
    <3>2. UNCHANGED <<conn, open, taken, reads, asker, answers, starts>>
      BY <2>2, ExecFacts
    <3>3. alive' \subseteq alive \cup {number[c]} /\ cmd' = cmd
      BY <2>2, ExecFacts
    <3> HIDE DEF Starts
    <3> QED
      BY <3>1, <3>2, <3>3
  <2>3. CASE Dial(c)
    <3>1. number[c] \in Starts /\ number[c] <= starts
      BY <2>3, DialFacts
    <3>2. UNCHANGED <<conn, cmd, taken, reads, asker, answers, starts>>
      BY <2>3, DialFacts
    <3>3. alive' \subseteq alive /\ open' \subseteq open \cup {number[c]}
      BY <2>3, DialFacts
    <3> HIDE DEF Starts
    <3> QED
      BY <3>1, <3>2, <3>3
  <2>4. CASE Publish(c) BY <2>4 DEF Publish
  <2>5. CASE Enter(c) BY <2>5 DEF Enter
  <2>6. CASE Await(c) BY <2>6 DEF Await
  <2>7. CASE KeepCmd(c) BY <2>7 DEF KeepCmd
  <2>8. CASE Aim(c) BY <2>8 DEF Aim
  <2> QED
    BY <1>2, <2>1, <2>2, <2>3, <2>4, <2>5, <2>6, <2>7, <2>8 DEF CallerStep
<1>3. ASSUME NEW w \in Writers, WriterStep(w) PROVE KnownNumbers'
  <2>1. CASE Take(w) BY <2>1 DEF Take
  <2>2. CASE Write(w)
    <3>1. CASE taken[w] \in open /\ peer[taken[w]] \in alive /\ Serve(w,
       peer[taken[w]]) /\ Written(w)
               /\ UNCHANGED <<calls, conn, cmd, open, alive, foreign, abandoned>>
      BY <2>2, <3>1 DEF Write, Serve
    <3>2. CASE taken[w] \in open /\ peer[taken[w]] \notin alive /\ Written(w)
               /\ UNCHANGED <<greeted, answers, answered, calls, conn, cmd, open, alive,
                  foreign, abandoned>>
      BY <2>2, <3>2 DEF Write
    <3>3. CASE (taken[w] \notin open \/ peer[taken[w]] \notin alive) /\ HandleConnectionLoss
               /\ foreign' = TRUE /\ GiveUp(w) /\ UNCHANGED <<doing, greeted, answered>>
      BY <2>2, <3>3, LossFacts DEF Write
    <3> QED
      BY <2>2, <3>1, <3>2, <3>3 DEF Write
  <2> QED
    BY <1>3, <2>1, <2>2 DEF WriterStep
<1>4. ASSUME NEW n \in Starts, LoopStep(n) PROVE KnownNumbers'
  <2>1. CASE ReadTop(n) BY <2>1 DEF ReadTop
  <2>2. CASE ReadAnswer(n) BY <2>2 DEF ReadAnswer
  <2>3. CASE ReadError(n) BY <2>3, LossFacts DEF ReadError
  <2> QED
    BY <1>4, <2>1, <2>2, <2>3 DEF LoopStep
<1>5. ASSUME NEW n \in Starts, NEW t \in Tasks, ReadRequest(n, t) PROVE KnownNumbers'
  BY <1>5 DEF ReadRequest
<1>6. CASE Close BY <1>6 DEF Close
<1>7. ASSUME NEW s \in Starts, ServerDies(s) PROVE KnownNumbers'
  BY <1>7 DEF ServerDies
<1> HIDE DEF Goto, Maybe, writers, calls, fields, servers, sockets, loops, history, GiveUp,
      Written, Starting, Sorts, OwnNumbers, KnownNumbers, Begun
<1> QED
  BY <1>1, <1>2, <1>3, <1>4, <1>5, <1>6, <1>7 DEF LinkNext

\* Publish is the step that makes a socket known.
LEMMA UnpublishedStep ==
  ASSUME LinkTypeOK, OwnNumbers, KnownNumbers, Unpublished, [LinkNext]_linkVars
  PROVE  Unpublished'
<1> Sorts
  BY SortsHold
<1> USE LinkAssumption DEF Goto, Starts, Writers, Maybe, writers, calls, fields, servers,
      sockets, loops, history, GiveUp, Written, Starting, Sorts, OwnNumbers, KnownNumbers,
      Unpublished, Begun
<1>1. CASE UNCHANGED linkVars BY <1>1 DEF linkVars
<1>2. ASSUME NEW c \in Callers, CallerStep(c) PROVE Unpublished'
  <2>1. CASE CheckOpen(c) BY <2>1 DEF CheckOpen
  <2>2. CASE Exec(c) BY <2>2, ExecFacts
  <2>3. CASE Dial(c)
    <3>1. /\ at[c] = "dial" /\ \A d \in Callers : d # c => at'[d] = at[d] /\ number[d] # number[c]
          /\ alive' \subseteq alive /\ open \subseteq open' /\ open' \subseteq open \cup {number[c]}
          /\ (at'[c] = "publish" /\ number[c] \in open') \/ (at'[c] = "done" /\ open' = open)
      BY <2>3, DialFacts
    <3>2. UNCHANGED <<conn, number, taken, reads, answers, asker>>
      BY <2>3, DialFacts
    <3> QED
      BY <3>1, <3>2
  <2>4. CASE Publish(c) BY <2>4 DEF Publish
  <2>5. CASE Enter(c) BY <2>5 DEF Enter
  <2>6. CASE Await(c) BY <2>6 DEF Await
  <2>7. CASE KeepCmd(c) BY <2>7 DEF KeepCmd
  <2>8. CASE Aim(c) BY <2>8 DEF Aim
  <2> QED
    BY <1>2, <2>1, <2>2, <2>3, <2>4, <2>5, <2>6, <2>7, <2>8 DEF CallerStep
<1>3. ASSUME NEW w \in Writers, WriterStep(w) PROVE Unpublished'
  <2>1. CASE Take(w) BY <2>1 DEF Take
  <2>2. CASE Write(w)
    <3>1. CASE taken[w] \in open /\ peer[taken[w]] \in alive /\ Serve(w,
       peer[taken[w]]) /\ Written(w)
               /\ UNCHANGED <<calls, conn, cmd, open, alive, foreign, abandoned>>
      BY <2>2, <3>1 DEF Write, Serve
    <3>2. CASE taken[w] \in open /\ peer[taken[w]] \notin alive /\ Written(w)
               /\ UNCHANGED <<greeted, answers, answered, calls, conn, cmd, open, alive,
                  foreign, abandoned>>
      BY <2>2, <3>2 DEF Write
    <3>3. CASE (taken[w] \notin open \/ peer[taken[w]] \notin alive) /\ HandleConnectionLoss
               /\ foreign' = TRUE /\ GiveUp(w) /\ UNCHANGED <<doing, greeted, answered>>
      BY <2>2, <3>3, LossFacts DEF Write
    <3> QED
      BY <2>2, <3>1, <3>2, <3>3 DEF Write
  <2> QED
    BY <1>3, <2>1, <2>2 DEF WriterStep
<1>4. ASSUME NEW n \in Starts, LoopStep(n) PROVE Unpublished'
  <2>1. CASE ReadTop(n) BY <2>1 DEF ReadTop
  <2>2. CASE ReadAnswer(n) BY <2>2 DEF ReadAnswer
  <2>3. CASE ReadError(n) BY <2>3, LossFacts DEF ReadError
  <2> QED
    BY <1>4, <2>1, <2>2, <2>3 DEF LoopStep
<1>5. ASSUME NEW n \in Starts, NEW t \in Tasks, ReadRequest(n, t) PROVE Unpublished'
  <2>1. /\ UNCHANGED <<number, conn, taken, reads, answers, open, alive>> /\ peer[reads[n]] \in alive
        /\ at' = [at EXCEPT ![t] = "take"] /\ asker' = [asker EXCEPT ![t] = peer[reads[n]]]
    BY <1>5 DEF ReadRequest
  <2>2. \A c \in Callers : at'[c] = at[c]
    BY <2>1
  <2>3. \A c \in Callers, u \in Tasks : at[c] = "exec" => asker'[u] # number[c]
    BY <2>1
  <2>4. Unpublished
    OBVIOUS
  <2> HIDE DEF Writers, Starts, Sorts, OwnNumbers, KnownNumbers, Unpublished, Begun, Goto
  <2> QED
    BY <2>1, <2>2, <2>3, <2>4 DEF Unpublished
<1>6. CASE Close BY <1>6 DEF Close
<1>7. ASSUME NEW s \in Starts, ServerDies(s) PROVE Unpublished'
  BY <1>7 DEF ServerDies
<1> HIDE DEF Goto, Maybe, writers, calls, fields, servers, sockets, loops, history, GiveUp,
      Written, Starting, Sorts, OwnNumbers, KnownNumbers, Unpublished, Begun
<1> QED
  BY <1>1, <1>2, <1>3, <1>4, <1>5, <1>6, <1>7 DEF LinkNext

\* Whatever closes the connection in place takes it out of c.conn.
LEMMA InPlaceStep ==
  ASSUME LinkTypeOK, Unpublished, InPlaceIsOpen, [LinkNext]_linkVars
  PROVE  InPlaceIsOpen'
<1> Sorts
  BY SortsHold
<1> USE LinkAssumption DEF Goto, Starts, Writers, Maybe, writers, calls, fields, servers,
      sockets, loops, history, GiveUp, Written, Starting, Sorts, Unpublished, InPlaceIsOpen,
      Begun
<1>1. CASE UNCHANGED linkVars BY <1>1 DEF linkVars
<1>2. ASSUME NEW c \in Callers, CallerStep(c) PROVE InPlaceIsOpen'
  <2>1. CASE CheckOpen(c) BY <2>1 DEF CheckOpen
  <2>2. CASE Exec(c) BY <2>2, ExecFacts
  <2>3. CASE Dial(c) BY <2>3, DialFacts
  <2>4. CASE Publish(c) BY <2>4 DEF Publish
  <2>5. CASE Enter(c) BY <2>5 DEF Enter
  <2>6. CASE Await(c) BY <2>6 DEF Await
  <2>7. CASE KeepCmd(c) BY <2>7 DEF KeepCmd
  <2>8. CASE Aim(c) BY <2>8 DEF Aim
  <2> QED
    BY <1>2, <2>1, <2>2, <2>3, <2>4, <2>5, <2>6, <2>7, <2>8 DEF CallerStep
<1>3. ASSUME NEW w \in Writers, WriterStep(w) PROVE InPlaceIsOpen'
  <2>1. CASE Take(w) BY <2>1 DEF Take
  <2>2. CASE Write(w)
    <3>1. CASE taken[w] \in open /\ peer[taken[w]] \in alive /\ Serve(w,
       peer[taken[w]]) /\ Written(w)
               /\ UNCHANGED <<calls, conn, cmd, open, alive, foreign, abandoned>>
      BY <2>2, <3>1 DEF Write, Serve
    <3>2. CASE taken[w] \in open /\ peer[taken[w]] \notin alive /\ Written(w)
               /\ UNCHANGED <<greeted, answers, answered, calls, conn, cmd, open, alive,
                  foreign, abandoned>>
      BY <2>2, <3>2 DEF Write
    <3>3. CASE (taken[w] \notin open \/ peer[taken[w]] \notin alive) /\ HandleConnectionLoss
               /\ foreign' = TRUE /\ GiveUp(w) /\ UNCHANGED <<doing, greeted, answered>>
      BY <2>2, <3>3, LossFacts DEF Write
    <3> QED
      BY <2>2, <3>1, <3>2, <3>3 DEF Write
  <2> QED
    BY <1>3, <2>1, <2>2 DEF WriterStep
<1>4. ASSUME NEW n \in Starts, LoopStep(n) PROVE InPlaceIsOpen'
  <2>1. CASE ReadTop(n) BY <2>1 DEF ReadTop
  <2>2. CASE ReadAnswer(n) BY <2>2 DEF ReadAnswer
  <2>3. CASE ReadError(n) BY <2>3, LossFacts DEF ReadError
  <2> QED
    BY <1>4, <2>1, <2>2, <2>3 DEF LoopStep
<1>5. ASSUME NEW n \in Starts, NEW t \in Tasks, ReadRequest(n, t) PROVE InPlaceIsOpen'
  BY <1>5 DEF ReadRequest
<1>6. CASE Close BY <1>6 DEF Close
<1>7. ASSUME NEW s \in Starts, ServerDies(s) PROVE InPlaceIsOpen'
  BY <1>7 DEF ServerDies
<1> HIDE DEF Goto, Maybe, writers, calls, fields, servers, sockets, loops, history, GiveUp,
      Written, Starting, Sorts, Unpublished, InPlaceIsOpen, Begun
<1> QED
  BY <1>1, <1>2, <1>3, <1>4, <1>5, <1>6, <1>7 DEF LinkNext

\* While Starts do not overlap there is one, and no connection next to it.
LEMMA StartStep ==
  ASSUME LinkTypeOK, OneStart, [LinkNext]_linkVars
  PROVE  OneStart'
<1> Sorts
  BY SortsHold
<1> USE LinkAssumption DEF Goto, Starts, Writers, Maybe, writers, calls, fields, servers,
      sockets, loops, history, GiveUp, Written, Starting, Sorts, OneStart, Begun
<1>1. CASE UNCHANGED linkVars BY <1>1 DEF linkVars
<1>2. ASSUME NEW c \in Callers, CallerStep(c) PROVE OneStart'
  <2>1. CASE CheckOpen(c)
    <3>1. CASE conn # None
      <4>1. conn' = conn /\ overlap' = overlap /\ at' = [at EXCEPT ![c] = "register"]
        BY <2>1, <3>1 DEF CheckOpen
      <4>2. \A d \in Callers : at'[d] \in Begun => at'[d] = at[d]
        BY <4>1
      <4> QED
        BY <4>1, <4>2
    <3>2. CASE conn = None
      <4>1. /\ conn' = conn /\ overlap' = (overlap \/ Starting # {})
            /\ at' = [at EXCEPT ![c] = "exec"]
        BY <2>1, <3>2 DEF CheckOpen
      <4>2. ~overlap' => \A d \in Callers : at[d] \notin Begun
        BY <4>1
      <4>3. ~overlap' => \A d \in Callers : at'[d] \in Begun => d = c
        BY <4>1, <4>2
      <4> QED
        BY <3>2, <4>1, <4>3
    <3> QED
      BY <3>1, <3>2
  <2>2. CASE Exec(c) BY <2>2, ExecFacts
  <2>3. CASE Dial(c)
    <3>1. UNCHANGED <<conn, overlap>> /\ at[c] \in Begun
      BY <2>3, DialFacts
    <3>2. \A d \in Callers : at'[d] \in Begun => at[d] \in Begun
      BY <2>3, DialFacts
    <3> HIDE DEF Begun
    <3> QED
      BY <3>1, <3>2
  <2>4. CASE Publish(c) BY <2>4 DEF Publish
  <2>5. CASE Enter(c) BY <2>5 DEF Enter
  <2>6. CASE Await(c) BY <2>6 DEF Await
  <2>7. CASE KeepCmd(c) BY <2>7 DEF KeepCmd
  <2>8. CASE Aim(c) BY <2>8 DEF Aim
  <2> QED
    BY <1>2, <2>1, <2>2, <2>3, <2>4, <2>5, <2>6, <2>7, <2>8 DEF CallerStep
<1>3. ASSUME NEW w \in Writers, WriterStep(w) PROVE OneStart'
  <2>1. CASE Take(w) BY <2>1 DEF Take
  <2>2. CASE Write(w)
    <3>1. CASE taken[w] \in open /\ peer[taken[w]] \in alive /\ Serve(w,
       peer[taken[w]]) /\ Written(w)
               /\ UNCHANGED <<calls, conn, cmd, open, alive, foreign, abandoned>>
      BY <2>2, <3>1 DEF Write, Serve
    <3>2. CASE taken[w] \in open /\ peer[taken[w]] \notin alive /\ Written(w)
               /\ UNCHANGED <<greeted, answers, answered, calls, conn, cmd, open, alive,
                  foreign, abandoned>>
      BY <2>2, <3>2 DEF Write
    <3>3. CASE (taken[w] \notin open \/ peer[taken[w]] \notin alive) /\ HandleConnectionLoss
               /\ foreign' = TRUE /\ GiveUp(w) /\ UNCHANGED <<doing, greeted, answered>>
      BY <2>2, <3>3, LossFacts DEF Write
    <3> QED
      BY <2>2, <3>1, <3>2, <3>3 DEF Write
  <2> QED
    BY <1>3, <2>1, <2>2 DEF WriterStep
<1>4. ASSUME NEW n \in Starts, LoopStep(n) PROVE OneStart'
  <2>1. CASE ReadTop(n) BY <2>1 DEF ReadTop
  <2>2. CASE ReadAnswer(n) BY <2>2 DEF ReadAnswer
  <2>3. CASE ReadError(n) BY <2>3, LossFacts DEF ReadError
  <2> QED
    BY <1>4, <2>1, <2>2, <2>3 DEF LoopStep
<1>5. ASSUME NEW n \in Starts, NEW t \in Tasks, ReadRequest(n, t) PROVE OneStart'
  BY <1>5 DEF ReadRequest
<1>6. CASE Close BY <1>6 DEF Close
<1>7. ASSUME NEW s \in Starts, ServerDies(s) PROVE OneStart'
  BY <1>7 DEF ServerDies
<1> HIDE DEF Goto, Maybe, writers, calls, fields, servers, sockets, loops, history, GiveUp,
      Written, Starting, Sorts, OneStart, Begun
<1> QED
  BY <1>1, <1>2, <1>3, <1>4, <1>5, <1>6, <1>7 DEF LinkNext

\* A step leaves the one server alone when no Start gets on and processes only end, or
\* a loss ends the one in c.cmd.
QuietStep ==
  /\ UNCHANGED <<overlap, number>>
  /\ \A d \in Callers : at[d] \in Begun \/ at'[d] \in Begun => at'[d] = at[d]
  /\ \/ alive' \subseteq alive /\ UNCHANGED <<conn, cmd>>
     \/ conn' = None /\ cmd' = None /\ alive' = alive \ {cmd}

LEMMA QuietServer == OneServer /\ QuietStep => OneServer'
BY DEF OneServer, QuietStep, Begun

\* Every loss ends the one process.
LEMMA ServerStep ==
  ASSUME LinkTypeOK, OwnNumbers, Unpublished, OneStart, OneServer, [LinkNext]_linkVars
  PROVE  OneServer'
<1> Sorts
  BY SortsHold
<1> USE LinkAssumption DEF Goto, Starts, Writers, Maybe, writers, calls, fields, servers,
      sockets, loops, history, GiveUp, Written, Starting, Sorts, OwnNumbers, Unpublished,
      OneStart, OneServer, Begun
<1>1. CASE UNCHANGED linkVars BY <1>1 DEF linkVars
<1>2. ASSUME NEW c \in Callers, CallerStep(c) PROVE OneServer'
  <2>1. CASE CheckOpen(c) BY <2>1 DEF CheckOpen
  <2>2. CASE Exec(c)
    <3> SUFFICES ASSUME ~overlap PROVE OneServer'
      BY <2>2, ExecFacts
    <3>1. conn = None /\ \A d \in Callers : d # c => at[d] \notin Begun
      BY <2>2, ExecFacts
    <3>2. alive = {}
      BY <2>2, <3>1, ExecFacts
    <3>3. CASE alive' \subseteq alive \cup {number[c]} /\ at' = [at EXCEPT ![c] = "keep"]
      <4>1. at'[c] = "keep" /\ number'[c] = number[c] /\ alive' \subseteq {number'[c]}
        BY <2>2, <3>2, <3>3, ExecFacts
      <4>2. \A d \in Callers : d # c => at'[d] \notin Begun
        BY <3>1, <3>3
      <4> HIDE DEF Sorts, OwnNumbers, Unpublished, OneStart
      <4> QED
        BY <4>1, <4>2
    <3>4. CASE UNCHANGED alive BY <2>2, <3>1, <3>2, <3>4, ExecFacts
    <3> QED
      BY <2>2, <3>3, <3>4, ExecFacts
  <2>3. CASE Dial(c)
    <3> SUFFICES ASSUME ~overlap PROVE OneServer'
      BY <2>3, DialFacts
    <3>1. UNCHANGED <<conn, cmd, number>> /\ \A d \in Callers : d # c => at[d] \notin Begun
      BY <2>3, DialFacts
    <3>2. \A s \in alive : s = cmd
      BY <2>3, <3>1, DialFacts
    <3>3. CASE UNCHANGED alive /\ at' = [at EXCEPT ![c] = "publish"]
      BY <2>3, <3>1, <3>2, <3>3, DialFacts
    <3>4. CASE alive' = alive \ {cmd} /\ at' = [at EXCEPT ![c] = "done"]
      BY <3>1, <3>2, <3>4
    <3> QED
      BY <2>3, <3>3, <3>4, DialFacts
  <2>4. CASE Publish(c) BY <2>4 DEF Publish
  <2>5. CASE Enter(c)
    <3>1. QuietStep
      BY <2>5 DEF QuietStep, Enter
    <3> QED
      BY <3>1, QuietServer
  <2>6. CASE Await(c)
    <3>1. QuietStep
      BY <2>6 DEF QuietStep, Await
    <3> QED
      BY <3>1, QuietServer
  <2>7. CASE KeepCmd(c)
    <3>1. cmd' = number[c] /\ at' = [at EXCEPT ![c] = "aim"] /\ UNCHANGED <<alive, conn, number, overlap>>
      BY <2>7 DEF KeepCmd
    <3> SUFFICES ASSUME ~overlap PROVE OneServer'
      BY <3>1
    <3>2. at[c] = "keep" /\ \A d \in Callers : at[d] = "keep" => d = c
      BY <2>7 DEF KeepCmd
    <3>3. alive \subseteq {number[c]}
      BY <3>2
    <3>4. at'[c] = "aim" /\ \A d \in Callers : at'[d] # "keep"
      BY <3>1, <3>2
    <3> HIDE DEF Sorts, OwnNumbers, Unpublished, OneStart
    <3> QED
      BY <3>1, <3>3, <3>4
  <2>8. CASE Aim(c) BY <2>8 DEF Aim
  <2> QED
    BY <1>2, <2>1, <2>2, <2>3, <2>4, <2>5, <2>6, <2>7, <2>8 DEF CallerStep
<1>3. ASSUME NEW w \in Writers, WriterStep(w) PROVE OneServer'
  <2>1. CASE Take(w)
    <3>1. QuietStep
      BY <2>1 DEF QuietStep, Take
    <3> QED
      BY <3>1, QuietServer
  <2>2. CASE Write(w)
    <3>1. UNCHANGED <<overlap, number>> /\ \A d \in Callers : at[d] \in Begun \/ at'[d] \in Begun => at'[d] = at[d]
      BY <2>2 DEF Write
    <3>2. UNCHANGED <<conn, cmd, alive>> \/ HandleConnectionLoss
      BY <2>2 DEF Write
    <3>3. UNCHANGED <<conn, cmd, alive>> \/ (conn' = None /\ cmd' = None /\ alive' = alive \ {cmd})
      BY <3>2, LossFacts
    <3> QED
      BY <3>1, <3>3, QuietServer DEF QuietStep
  <2> QED
    BY <1>3, <2>1, <2>2 DEF WriterStep
<1>4. ASSUME NEW n \in Starts, LoopStep(n) PROVE OneServer'
  <2>1. CASE ReadTop(n) BY <2>1 DEF ReadTop
  <2>2. CASE ReadAnswer(n) BY <2>2 DEF ReadAnswer
  <2>3. CASE ReadError(n)
    <3>1. UNCHANGED <<overlap, at, number>>
      BY <2>3 DEF ReadError
    <3>2. UNCHANGED <<conn, cmd, alive>> \/ HandleConnectionLoss
      BY <2>3 DEF ReadError
    <3>3. UNCHANGED <<conn, cmd, alive>> \/ (conn' = None /\ cmd' = None /\ alive' = alive \ {cmd})
      BY <3>2, LossFacts
    <3> QED
      BY <3>1, <3>3, QuietServer DEF QuietStep
  <2> QED
    BY <1>4, <2>1, <2>2, <2>3 DEF LoopStep
<1>5. ASSUME NEW n \in Starts, NEW t \in Tasks, ReadRequest(n, t) PROVE OneServer'
  <2>1. QuietStep
    BY <1>5 DEF QuietStep, ReadRequest
  <2> QED
    BY <2>1, QuietServer
<1>6. CASE Close
  <2>1. QuietStep
    BY <1>6 DEF QuietStep, Close
  <2> QED
    BY <2>1, QuietServer
<1>7. ASSUME NEW s \in Starts, ServerDies(s) PROVE OneServer'
  <2>1. QuietStep
    BY <1>7 DEF QuietStep, ServerDies
  <2> QED
    BY <2>1, QuietServer
<1> HIDE DEF Goto, Maybe, writers, calls, fields, servers, sockets, loops, history, GiveUp,
      Written, Starting, Sorts, OwnNumbers, Unpublished, OneStart, OneServer, Begun
<1> QED
  BY <1>1, <1>2, <1>3, <1>4, <1>5, <1>6, <1>7 DEF LinkNext

\* Every loss closes the one socket.
LEMMA SocketStep ==
  ASSUME LinkTypeOK, OwnNumbers, Unpublished, OneStart, OneSocket, [LinkNext]_linkVars
  PROVE  OneSocket'
<1> Sorts
  BY SortsHold
<1> USE LinkAssumption DEF Goto, Starts, Writers, Maybe, writers, calls, fields, servers,
      sockets, loops, history, GiveUp, Written, Starting, Sorts, OwnNumbers, Unpublished,
      OneStart, OneSocket, Begun
<1>1. CASE UNCHANGED linkVars BY <1>1 DEF linkVars
<1>2. ASSUME NEW c \in Callers, CallerStep(c) PROVE OneSocket'
  <2>1. CASE CheckOpen(c) BY <2>1 DEF CheckOpen
  <2>2. CASE Exec(c)
    <3>1. UNCHANGED <<open, conn, number, overlap>>
      BY <2>2, ExecFacts
    <3>2. \A d \in Callers : at[d] = "publish" => at'[d] = "publish"
      BY <2>2, ExecFacts
    <3> QED
      BY <3>1, <3>2
  <2>3. CASE Dial(c)
    <3> SUFFICES ASSUME ~overlap, NEW s \in open'
                 PROVE  s = conn \/ \E d \in Callers : at'[d] = "publish" /\ number[d] = s
      BY <2>3, DialFacts
    <3>1. at' = [at EXCEPT ![c] = "publish"] \/ at' = [at EXCEPT ![c] = "done"]
      BY <2>3, DialFacts
    <3>2. CASE s \in open
      <4>1. ASSUME NEW d \in Callers, at[d] = "publish", number[d] = s
            PROVE  at'[d] = "publish"
        BY <2>3, <3>1, <4>1, DialFacts
      <4> QED
        BY <3>2, <4>1
    <3>3. CASE s \notin open
      <4>1. s = number[c] /\ at' = [at EXCEPT ![c] = "publish"]
        BY <2>3, <3>3, DialFacts
      <4> QED
        BY <4>1
    <3> QED
      BY <3>2, <3>3
  <2>4. CASE Publish(c)
    <3> SUFFICES ASSUME ~overlap, NEW s \in open' PROVE s = number[c]
      BY <2>4 DEF Publish
    <3>1. conn = None /\ s \in open /\ s \in Starts
      BY <2>4 DEF Publish
    <3>2. PICK d \in Callers : at[d] = "publish" /\ number[d] = s
      BY <3>1
    <3>3. d = c
      BY <2>4, <3>2 DEF Publish
    <3> QED
      BY <3>2, <3>3
  <2>5. CASE Enter(c) BY <2>5 DEF Enter
  <2>6. CASE Await(c) BY <2>6 DEF Await
  <2>7. CASE KeepCmd(c) BY <2>7 DEF KeepCmd
  <2>8. CASE Aim(c) BY <2>8 DEF Aim
  <2> QED
    BY <1>2, <2>1, <2>2, <2>3, <2>4, <2>5, <2>6, <2>7, <2>8 DEF CallerStep
<1>3. ASSUME NEW w \in Writers, WriterStep(w) PROVE OneSocket'
  <2>1. CASE Take(w) BY <2>1 DEF Take
  <2>2. CASE Write(w)
    <3>1. CASE taken[w] \in open /\ peer[taken[w]] \in alive /\ Serve(w,
       peer[taken[w]]) /\ Written(w)
               /\ UNCHANGED <<calls, conn, cmd, open, alive, foreign, abandoned>>
      BY <2>2, <3>1 DEF Write, Serve
    <3>2. CASE taken[w] \in open /\ peer[taken[w]] \notin alive /\ Written(w)
               /\ UNCHANGED <<greeted, answers, answered, calls, conn, cmd, open, alive,
                  foreign, abandoned>>
      BY <2>2, <3>2 DEF Write
    <3>3. CASE (taken[w] \notin open \/ peer[taken[w]] \notin alive) /\ HandleConnectionLoss
               /\ foreign' = TRUE /\ GiveUp(w) /\ UNCHANGED <<doing, greeted, answered>>
      BY <2>2, <3>3, LossFacts DEF Write
    <3> QED
      BY <2>2, <3>1, <3>2, <3>3 DEF Write
  <2> QED
    BY <1>3, <2>1, <2>2 DEF WriterStep
<1>4. ASSUME NEW n \in Starts, LoopStep(n) PROVE OneSocket'
  <2>1. CASE ReadTop(n) BY <2>1 DEF ReadTop
  <2>2. CASE ReadAnswer(n) BY <2>2 DEF ReadAnswer
  <2>3. CASE ReadError(n)
    <3>1. UNCHANGED <<overlap, at, number>>
      BY <2>3 DEF ReadError
    <3>2. CASE UNCHANGED <<conn, open>> BY <3>1, <3>2
    <3>3. CASE HandleConnectionLoss
      <4>1. conn' = None /\ open' = open \ {conn}
        BY <3>3, LossFacts
      <4> QED
        BY <3>1, <4>1
    <3> QED
      BY <2>3, <3>2, <3>3 DEF ReadError
  <2> QED
    BY <1>4, <2>1, <2>2, <2>3 DEF LoopStep
<1>5. ASSUME NEW n \in Starts, NEW t \in Tasks, ReadRequest(n, t) PROVE OneSocket'
  BY <1>5 DEF ReadRequest
<1>6. CASE Close BY <1>6 DEF Close
<1>7. ASSUME NEW s \in Starts, ServerDies(s) PROVE OneSocket'
  BY <1>7 DEF ServerDies
<1> HIDE DEF Goto, Maybe, writers, calls, fields, servers, sockets, loops, history, GiveUp,
      Written, Starting, Sorts, OwnNumbers, Unpublished, OneStart, OneSocket, Begun
<1> QED
  BY <1>1, <1>2, <1>3, <1>4, <1>5, <1>6, <1>7 DEF LinkNext

\* The loop that reports the loss of its own connection ends with it.
LEMMA LoopStepKept ==
  ASSUME LinkTypeOK, OwnNumbers, OneStart, OneLoop, [LinkNext]_linkVars
  PROVE  OneLoop'
<1> Sorts
  BY SortsHold
<1> USE LinkAssumption DEF Goto, Starts, Writers, Maybe, writers, calls, fields, servers,
      sockets, loops, history, GiveUp, Written, Starting, Sorts, OwnNumbers, OneStart, OneLoop,
      Begun, Active
<1>1. CASE UNCHANGED linkVars BY <1>1 DEF linkVars
<1>2. ASSUME NEW c \in Callers, CallerStep(c) PROVE OneLoop'
  <2>1. CASE CheckOpen(c) BY <2>1 DEF CheckOpen
  <2>2. CASE Exec(c) BY <2>2, ExecFacts
  <2>3. CASE Dial(c) BY <2>3, DialFacts
  <2>4. CASE Publish(c) BY <2>4 DEF Publish
  <2>5. CASE Enter(c) BY <2>5 DEF Enter
  <2>6. CASE Await(c) BY <2>6 DEF Await
  <2>7. CASE KeepCmd(c) BY <2>7 DEF KeepCmd
  <2>8. CASE Aim(c) BY <2>8 DEF Aim
  <2> QED
    BY <1>2, <2>1, <2>2, <2>3, <2>4, <2>5, <2>6, <2>7, <2>8 DEF CallerStep
<1>3. ASSUME NEW w \in Writers, WriterStep(w) PROVE OneLoop'
  <2>1. CASE Take(w) BY <2>1 DEF Take
  <2>2. CASE Write(w)
    <3>1. CASE taken[w] \in open /\ peer[taken[w]] \in alive /\ Serve(w,
       peer[taken[w]]) /\ Written(w)
               /\ UNCHANGED <<calls, conn, cmd, open, alive, foreign, abandoned>>
      BY <2>2, <3>1 DEF Write, Serve
    <3>2. CASE taken[w] \in open /\ peer[taken[w]] \notin alive /\ Written(w)
               /\ UNCHANGED <<greeted, answers, answered, calls, conn, cmd, open, alive,
                  foreign, abandoned>>
      BY <2>2, <3>2 DEF Write
    <3>3. CASE (taken[w] \notin open \/ peer[taken[w]] \notin alive) /\ HandleConnectionLoss
               /\ foreign' = TRUE /\ GiveUp(w) /\ UNCHANGED <<doing, greeted, answered>>
      BY <2>2, <3>3, LossFacts DEF Write
    <3> QED
      BY <2>2, <3>1, <3>2, <3>3 DEF Write
  <2> QED
    BY <1>3, <2>1, <2>2 DEF WriterStep
<1>4. ASSUME NEW n \in Starts, LoopStep(n) PROVE OneLoop'
  <2>1. CASE ReadTop(n)
    <3>1. UNCHANGED <<conn, cmd, closed, overlap, foreign, at>>
      BY <2>1 DEF ReadTop
    <3>2. CASE UNCHANGED loops BY <3>1, <3>2
    <3>3. CASE loop' = [loop EXCEPT ![n] = "read"] /\ reads' = [reads EXCEPT ![n] = conn]
      BY <2>1, <3>1, <3>3 DEF ReadTop
    <3> QED
      BY <2>1, <3>2, <3>3 DEF ReadTop
  <2>2. CASE ReadAnswer(n) BY <2>2 DEF ReadAnswer
  <2>3. CASE ReadError(n) BY <2>3, LossFacts DEF ReadError
  <2> QED
    BY <1>4, <2>1, <2>2, <2>3 DEF LoopStep
<1>5. ASSUME NEW n \in Starts, NEW t \in Tasks, ReadRequest(n, t) PROVE OneLoop'
  BY <1>5 DEF ReadRequest
<1>6. CASE Close BY <1>6 DEF Close
<1>7. ASSUME NEW s \in Starts, ServerDies(s) PROVE OneLoop'
  BY <1>7 DEF ServerDies
<1> HIDE DEF Goto, Maybe, writers, calls, fields, servers, sockets, loops, history, GiveUp,
      Written, Starting, Sorts, OwnNumbers, OneStart, OneLoop, Begun, Active
<1> QED
  BY <1>1, <1>2, <1>3, <1>4, <1>5, <1>6, <1>7 DEF LinkNext

\* Answers are as true as the server that wrote them.
LEMMA AnswersStep ==
  ASSUME LinkTypeOK, Doings, OwnNumbers, Unpublished, Greeting, GoodAnswers, [LinkNext]_linkVars
  PROVE  GoodAnswers'
<1> Sorts
  BY SortsHold
<1> USE LinkAssumption DEF Goto, Starts, Writers, Maybe, writers, calls, fields, servers,
      sockets, loops, history, GiveUp, Written, Starting, Sorts, OwnNumbers, Doings,
      Unpublished, Greeting, GoodAnswers, Begun
<1>1. CASE UNCHANGED linkVars BY <1>1 DEF linkVars
<1>2. ASSUME NEW c \in Callers, CallerStep(c) PROVE GoodAnswers'
  <2>1. CASE CheckOpen(c) BY <2>1 DEF CheckOpen
  <2>2. CASE Exec(c) BY <2>2, ExecFacts
  <2>3. CASE Dial(c) BY <2>3, DialFacts
  <2>4. CASE Publish(c) BY <2>4 DEF Publish
  <2>5. CASE Enter(c) BY <2>5 DEF Enter
  <2>6. CASE Await(c) BY <2>6 DEF Await
  <2>7. CASE KeepCmd(c) BY <2>7 DEF KeepCmd
  <2>8. CASE Aim(c) BY <2>8 DEF Aim
  <2> QED
    BY <1>2, <2>1, <2>2, <2>3, <2>4, <2>5, <2>6, <2>7, <2>8 DEF CallerStep
<1>3. ASSUME NEW w \in Writers, WriterStep(w) PROVE GoodAnswers'
  <2>1. CASE Take(w) BY <2>1 DEF Take
  <2>2. CASE Write(w)
    <3>1. CASE taken[w] \in open /\ peer[taken[w]] \in alive /\ Serve(w,
       peer[taken[w]]) /\ Written(w)
               /\ UNCHANGED <<calls, conn, cmd, open, alive, foreign, abandoned>>
      BY <2>2, <3>1 DEF Write, Serve
    <3>2. CASE taken[w] \in open /\ peer[taken[w]] \notin alive /\ Written(w)
               /\ UNCHANGED <<greeted, answers, answered, calls, conn, cmd, open, alive,
                  foreign, abandoned>>
      BY <2>2, <3>2 DEF Write
    <3>3. CASE (taken[w] \notin open \/ peer[taken[w]] \notin alive) /\ HandleConnectionLoss
               /\ foreign' = TRUE /\ GiveUp(w) /\ UNCHANGED <<doing, greeted, answered>>
      BY <2>2, <3>3, LossFacts DEF Write
    <3> QED
      BY <2>2, <3>1, <3>2, <3>3 DEF Write
  <2> QED
    BY <1>3, <2>1, <2>2 DEF WriterStep
<1>4. ASSUME NEW n \in Starts, LoopStep(n) PROVE GoodAnswers'
  <2>1. CASE ReadTop(n) BY <2>1 DEF ReadTop
  <2>2. CASE ReadAnswer(n) BY <2>2 DEF ReadAnswer
  <2>3. CASE ReadError(n) BY <2>3, LossFacts DEF ReadError
  <2> QED
    BY <1>4, <2>1, <2>2, <2>3 DEF LoopStep
<1>5. ASSUME NEW n \in Starts, NEW t \in Tasks, ReadRequest(n, t) PROVE GoodAnswers'
  BY <1>5 DEF ReadRequest
<1>6. CASE Close BY <1>6 DEF Close
<1>7. ASSUME NEW s \in Starts, ServerDies(s) PROVE GoodAnswers'
  BY <1>7 DEF ServerDies
<1> HIDE DEF Goto, Maybe, writers, calls, fields, servers, sockets, loops, history, GiveUp,
      Written, Starting, Sorts, OwnNumbers, Doings, Unpublished, Greeting, GoodAnswers, Begun
<1> QED
  BY <1>1, <1>2, <1>3, <1>4, <1>5, <1>6, <1>7 DEF LinkNext

\* A socket is given back when the call or the write ends.
LEMMA TakingStep ==
  ASSUME LinkTypeOK, Taking, [LinkNext]_linkVars
  PROVE  Taking'
<1> Sorts
  BY SortsHold
<1> USE LinkAssumption DEF Goto, Starts, Writers, Maybe, writers, calls, fields, servers,
      sockets, loops, history, GiveUp, Written, Starting, Sorts, Taking
<1>1. CASE UNCHANGED linkVars BY <1>1 DEF linkVars
<1>2. ASSUME NEW c \in Callers, CallerStep(c) PROVE Taking'
  <2>1. CASE CheckOpen(c) BY <2>1 DEF CheckOpen
  <2>2. CASE Exec(c) BY <2>2, ExecFacts
  <2>3. CASE Dial(c) BY <2>3, DialFacts
  <2>4. CASE Publish(c) BY <2>4 DEF Publish
  <2>5. CASE Enter(c) BY <2>5 DEF Enter
  <2>6. CASE Await(c)
    <3>1. at' = [at EXCEPT ![c] = "take"] \/ at' = [at EXCEPT ![c] = "done"]
      BY <2>6 DEF Await
    <3>2. taken' = [taken EXCEPT ![c] = None]
      BY <2>6 DEF Await
    <3> QED
      BY <3>1, <3>2
  <2>7. CASE KeepCmd(c) BY <2>7 DEF KeepCmd
  <2>8. CASE Aim(c) BY <2>8 DEF Aim
  <2> QED
    BY <1>2, <2>1, <2>2, <2>3, <2>4, <2>5, <2>6, <2>7, <2>8 DEF CallerStep
<1>3. ASSUME NEW w \in Writers, WriterStep(w) PROVE Taking'
  <2>1. CASE Take(w) BY <2>1 DEF Take
  <2>2. CASE Write(w)
    <3>1. CASE taken[w] \in open /\ peer[taken[w]] \in alive /\ Serve(w,
       peer[taken[w]]) /\ Written(w)
               /\ UNCHANGED <<calls, conn, cmd, open, alive, foreign, abandoned>>
      BY <2>2, <3>1 DEF Write, Serve
    <3>2. CASE taken[w] \in open /\ peer[taken[w]] \notin alive /\ Written(w)
               /\ UNCHANGED <<greeted, answers, answered, calls, conn, cmd, open, alive,
                  foreign, abandoned>>
      BY <2>2, <3>2 DEF Write
    <3>3. CASE (taken[w] \notin open \/ peer[taken[w]] \notin alive) /\ HandleConnectionLoss
               /\ foreign' = TRUE /\ GiveUp(w) /\ UNCHANGED <<doing, greeted, answered>>
      BY <2>2, <3>3, LossFacts DEF Write
    <3> QED
      BY <2>2, <3>1, <3>2, <3>3 DEF Write
  <2> QED
    BY <1>3, <2>1, <2>2 DEF WriterStep
<1>4. ASSUME NEW n \in Starts, LoopStep(n) PROVE Taking'
  <2>1. CASE ReadTop(n) BY <2>1 DEF ReadTop
  <2>2. CASE ReadAnswer(n) BY <2>2 DEF ReadAnswer
  <2>3. CASE ReadError(n) BY <2>3, LossFacts DEF ReadError
  <2> QED
    BY <1>4, <2>1, <2>2, <2>3 DEF LoopStep
<1>5. ASSUME NEW n \in Starts, NEW t \in Tasks, ReadRequest(n, t) PROVE Taking'
  BY <1>5 DEF ReadRequest
<1>6. CASE Close BY <1>6 DEF Close
<1>7. ASSUME NEW s \in Starts, ServerDies(s) PROVE Taking'
  BY <1>7 DEF ServerDies
<1> HIDE DEF Goto, Maybe, writers, calls, fields, servers, sockets, loops, history, GiveUp,
      Written, Starting, Sorts, Taking
<1> QED
  BY <1>1, <1>2, <1>3, <1>4, <1>5, <1>6, <1>7 DEF LinkNext

\* A Start initializes the socket it published, or one that replaced it.
LEMMA GreetingStep ==
  ASSUME LinkTypeOK, Doings, OwnNumbers, Unpublished, Taking, GoodAnswers, Greeting,
         [LinkNext]_linkVars
  PROVE  Greeting'
<1> Sorts
  BY SortsHold
<1> USE LinkAssumption DEF Goto, Starts, Writers, Maybe, writers, calls, fields, servers,
      sockets, loops, history, GiveUp, Written, Starting, Sorts, Taking, OwnNumbers, Doings,
      Unpublished, GoodAnswers, Greeting, Begun
<1>1. CASE UNCHANGED linkVars BY <1>1 DEF linkVars
<1>2. ASSUME NEW c \in Callers, CallerStep(c) PROVE Greeting'
  <2>1. CASE CheckOpen(c)
    <3>1. doing[c] # "initialize" /\ UNCHANGED <<doing, box, taken, conn, peer, greeted>>
      BY <2>1 DEF CheckOpen
    <3>2. \A d \in Callers : d # c => at'[d] = at[d] /\ number'[d] = number[d]
      BY <2>1 DEF CheckOpen
    <3> QED
      BY <3>1, <3>2
  <2>2. CASE Exec(c)
    <3>1. doing[c] # "initialize" /\ UNCHANGED <<doing, box, taken, conn, peer, greeted, number>>
      BY <2>2, ExecFacts
    <3>2. \A d \in Callers : d # c => at'[d] = at[d]
      BY <2>2, ExecFacts
    <3> QED
      BY <3>1, <3>2
  <2>3. CASE Dial(c)
    <3>1. doing[c] # "initialize" /\ number[c] # None
      BY <2>3, DialFacts
    <3>2. \A d \in Callers : at[d] = "await" => taken[d] \in Starts /\ taken[d] # number[c]
      BY <2>3, DialFacts
    <3> QED
      BY <2>3, <3>1, <3>2, DialFacts
  <2>4. CASE Publish(c) BY <2>4 DEF Publish
  <2>5. CASE Enter(c) BY <2>5 DEF Enter
  <2>6. CASE Await(c) BY <2>6 DEF Await
  <2>7. CASE KeepCmd(c) BY <2>7 DEF KeepCmd
  <2>8. CASE Aim(c) BY <2>8 DEF Aim
  <2> QED
    BY <1>2, <2>1, <2>2, <2>3, <2>4, <2>5, <2>6, <2>7, <2>8 DEF CallerStep
<1>3. ASSUME NEW w \in Writers, WriterStep(w) PROVE Greeting'
  <2>1. CASE Take(w) BY <2>1 DEF Take
  <2>2. CASE Write(w)
    <3>1. CASE taken[w] \in open /\ peer[taken[w]] \in alive /\ Serve(w,
       peer[taken[w]]) /\ Written(w)
               /\ UNCHANGED <<calls, conn, cmd, open, alive, foreign, abandoned>>
      BY <2>2, <3>1 DEF Write, Serve
    <3>2. CASE taken[w] \in open /\ peer[taken[w]] \notin alive /\ Written(w)
               /\ UNCHANGED <<greeted, answers, answered, calls, conn, cmd, open, alive,
                  foreign, abandoned>>
      BY <2>2, <3>2 DEF Write
    <3>3. CASE (taken[w] \notin open \/ peer[taken[w]] \notin alive) /\ HandleConnectionLoss
               /\ foreign' = TRUE /\ GiveUp(w) /\ UNCHANGED <<doing, greeted, answered>>
      BY <2>2, <3>3, LossFacts DEF Write
    <3> QED
      BY <2>2, <3>1, <3>2, <3>3 DEF Write
  <2> QED
    BY <1>3, <2>1, <2>2 DEF WriterStep
<1>4. ASSUME NEW n \in Starts, LoopStep(n) PROVE Greeting'
  <2>1. CASE ReadTop(n) BY <2>1 DEF ReadTop
  <2>2. CASE ReadAnswer(n) BY <2>2 DEF ReadAnswer
  <2>3. CASE ReadError(n) BY <2>3, LossFacts DEF ReadError
  <2> QED
    BY <1>4, <2>1, <2>2, <2>3 DEF LoopStep
<1>5. ASSUME NEW n \in Starts, NEW t \in Tasks, ReadRequest(n, t) PROVE Greeting'
  BY <1>5 DEF ReadRequest
<1>6. CASE Close BY <1>6 DEF Close
<1>7. ASSUME NEW s \in Starts, ServerDies(s) PROVE Greeting'
  BY <1>7 DEF ServerDies
<1> HIDE DEF Goto, Maybe, writers, calls, fields, servers, sockets, loops, history, GiveUp,
      Written, Starting, Sorts, Taking, OwnNumbers, Doings, Unpublished, GoodAnswers, Greeting,
      Begun
<1> QED
  BY <1>1, <1>2, <1>3, <1>4, <1>5, <1>6, <1>7 DEF LinkNext

\* A task answers after it was asked.
LEMMA AskedStep ==
  ASSUME LinkTypeOK, AskedFirst, [LinkNext]_linkVars
  PROVE  AskedFirst'
<1> Sorts
  BY SortsHold
<1> USE LinkAssumption DEF Goto, Starts, Writers, Maybe, writers, calls, fields, servers,
      sockets, loops, history, GiveUp, Written, Starting, Sorts, AskedFirst
<1>1. CASE UNCHANGED linkVars BY <1>1 DEF linkVars
<1>2. ASSUME NEW c \in Callers, CallerStep(c) PROVE AskedFirst'
  <2>1. CASE CheckOpen(c) BY <2>1 DEF CheckOpen
  <2>2. CASE Exec(c) BY <2>2, ExecFacts
  <2>3. CASE Dial(c) BY <2>3, DialFacts
  <2>4. CASE Publish(c) BY <2>4 DEF Publish
  <2>5. CASE Enter(c) BY <2>5 DEF Enter
  <2>6. CASE Await(c) BY <2>6 DEF Await
  <2>7. CASE KeepCmd(c) BY <2>7 DEF KeepCmd
  <2>8. CASE Aim(c) BY <2>8 DEF Aim
  <2> QED
    BY <1>2, <2>1, <2>2, <2>3, <2>4, <2>5, <2>6, <2>7, <2>8 DEF CallerStep
<1>3. ASSUME NEW w \in Writers, WriterStep(w) PROVE AskedFirst'
  <2>1. CASE Take(w) BY <2>1 DEF Take
  <2>2. CASE Write(w)
    <3>1. CASE taken[w] \in open /\ peer[taken[w]] \in alive /\ Serve(w,
       peer[taken[w]]) /\ Written(w)
               /\ UNCHANGED <<calls, conn, cmd, open, alive, foreign, abandoned>>
      BY <2>2, <3>1 DEF Write, Serve
    <3>2. CASE taken[w] \in open /\ peer[taken[w]] \notin alive /\ Written(w)
               /\ UNCHANGED <<greeted, answers, answered, calls, conn, cmd, open, alive,
                  foreign, abandoned>>
      BY <2>2, <3>2 DEF Write
    <3>3. CASE (taken[w] \notin open \/ peer[taken[w]] \notin alive) /\ HandleConnectionLoss
               /\ foreign' = TRUE /\ GiveUp(w) /\ UNCHANGED <<doing, greeted, answered>>
      BY <2>2, <3>3, LossFacts DEF Write
    <3> QED
      BY <2>2, <3>1, <3>2, <3>3 DEF Write
  <2> QED
    BY <1>3, <2>1, <2>2 DEF WriterStep
<1>4. ASSUME NEW n \in Starts, LoopStep(n) PROVE AskedFirst'
  <2>1. CASE ReadTop(n) BY <2>1 DEF ReadTop
  <2>2. CASE ReadAnswer(n) BY <2>2 DEF ReadAnswer
  <2>3. CASE ReadError(n) BY <2>3, LossFacts DEF ReadError
  <2> QED
    BY <1>4, <2>1, <2>2, <2>3 DEF LoopStep
<1>5. ASSUME NEW n \in Starts, NEW t \in Tasks, ReadRequest(n, t) PROVE AskedFirst'
  BY <1>5 DEF ReadRequest
<1>6. CASE Close BY <1>6 DEF Close
<1>7. ASSUME NEW s \in Starts, ServerDies(s) PROVE AskedFirst'
  BY <1>7 DEF ServerDies
<1> HIDE DEF Goto, Maybe, writers, calls, fields, servers, sockets, loops, history, GiveUp,
      Written, Starting, Sorts, AskedFirst
<1> QED
  BY <1>1, <1>2, <1>3, <1>4, <1>5, <1>6, <1>7 DEF LinkNext

\* A call leaves the pending map with an answer, a loss or its caller.
LEMMA CallsStep ==
  ASSUME LinkTypeOK, Unpublished, OneStart, OneServer, OneSocket, CallsRegistered,
         [LinkNext]_linkVars
  PROVE  CallsRegistered'
<1> Sorts
  BY SortsHold
<1> USE LinkAssumption DEF Goto, Starts, Writers, Maybe, writers, calls, fields, servers,
      sockets, loops, history, GiveUp, Written, Starting, Sorts, Unpublished, OneStart,
      OneServer, OneSocket, CallsRegistered, Begun
<1>1. CASE UNCHANGED linkVars BY <1>1 DEF linkVars
<1>2. ASSUME NEW c \in Callers, CallerStep(c) PROVE CallsRegistered'
  <2>1. CASE CheckOpen(c) BY <2>1 DEF CheckOpen
  <2>2. CASE Exec(c) BY <2>2, ExecFacts
  <2>3. CASE Dial(c) BY <2>3, DialFacts
  <2>4. CASE Publish(c) BY <2>4, SMTT(20) DEF Publish
  <2>5. CASE Enter(c) BY <2>5 DEF Enter
  <2>6. CASE Await(c) BY <2>6 DEF Await
  <2>7. CASE KeepCmd(c) BY <2>7 DEF KeepCmd
  <2>8. CASE Aim(c) BY <2>8 DEF Aim
  <2> QED
    BY <1>2, <2>1, <2>2, <2>3, <2>4, <2>5, <2>6, <2>7, <2>8 DEF CallerStep
<1>3. ASSUME NEW w \in Writers, WriterStep(w) PROVE CallsRegistered'
  <2>1. CASE Take(w) BY <2>1 DEF Take
  <2>2. CASE Write(w)
    <3>1. CASE taken[w] \in open /\ peer[taken[w]] \in alive /\ Serve(w,
       peer[taken[w]]) /\ Written(w)
               /\ UNCHANGED <<calls, conn, cmd, open, alive, foreign, abandoned>>
      BY <2>2, <3>1 DEF Write, Serve
    <3>2. CASE taken[w] \in open /\ peer[taken[w]] \notin alive /\ Written(w)
               /\ UNCHANGED <<greeted, answers, answered, calls, conn, cmd, open, alive,
                  foreign, abandoned>>
      BY <2>2, <3>2 DEF Write
    <3>3. CASE (taken[w] \notin open \/ peer[taken[w]] \notin alive) /\ HandleConnectionLoss
               /\ foreign' = TRUE /\ GiveUp(w) /\ UNCHANGED <<doing, greeted, answered>>
      BY <2>2, <3>3, LossFacts, SMTT(20) DEF Write
    <3> QED
      BY <2>2, <3>1, <3>2, <3>3 DEF Write
  <2> QED
    BY <1>3, <2>1, <2>2 DEF WriterStep
<1>4. ASSUME NEW n \in Starts, LoopStep(n) PROVE CallsRegistered'
  <2>1. CASE ReadTop(n) BY <2>1 DEF ReadTop
  <2>2. CASE ReadAnswer(n) BY <2>2 DEF ReadAnswer
  <2>3. CASE ReadError(n) BY <2>3, LossFacts DEF ReadError
  <2> QED
    BY <1>4, <2>1, <2>2, <2>3 DEF LoopStep
<1>5. ASSUME NEW n \in Starts, NEW t \in Tasks, ReadRequest(n, t) PROVE CallsRegistered'
  BY <1>5 DEF ReadRequest
<1>6. CASE Close BY <1>6 DEF Close
<1>7. ASSUME NEW s \in Starts, ServerDies(s) PROVE CallsRegistered'
  BY <1>7 DEF ServerDies
<1> HIDE DEF Goto, Maybe, writers, calls, fields, servers, sockets, loops, history, GiveUp,
      Written, Starting, Sorts, Unpublished, OneStart, OneServer, OneSocket, CallsRegistered,
      Begun
<1> QED
  BY <1>1, <1>2, <1>3, <1>4, <1>5, <1>6, <1>7 DEF LinkNext

\* A read loop ends only with a loss.
LEMMA WatchedStep ==
  ASSUME LinkTypeOK, InPlaceIsWatched, [LinkNext]_linkVars
  PROVE  InPlaceIsWatched'
<1> Sorts
  BY SortsHold
<1> USE LinkAssumption DEF Goto, Starts, Writers, Maybe, writers, calls, fields, servers,
      sockets, loops, history, GiveUp, Written, Starting, Sorts, InPlaceIsWatched, Watched
<1>1. CASE UNCHANGED linkVars BY <1>1 DEF linkVars
<1>2. ASSUME NEW c \in Callers, CallerStep(c) PROVE InPlaceIsWatched'
  <2>1. CASE CheckOpen(c) BY <2>1 DEF CheckOpen
  <2>2. CASE Exec(c) BY <2>2, ExecFacts
  <2>3. CASE Dial(c) BY <2>3, DialFacts
  <2>4. CASE Publish(c) BY <2>4 DEF Publish
  <2>5. CASE Enter(c) BY <2>5 DEF Enter
  <2>6. CASE Await(c) BY <2>6 DEF Await
  <2>7. CASE KeepCmd(c) BY <2>7 DEF KeepCmd
  <2>8. CASE Aim(c) BY <2>8 DEF Aim
  <2> QED
    BY <1>2, <2>1, <2>2, <2>3, <2>4, <2>5, <2>6, <2>7, <2>8 DEF CallerStep
<1>3. ASSUME NEW w \in Writers, WriterStep(w) PROVE InPlaceIsWatched'
  <2>1. CASE Take(w) BY <2>1 DEF Take
  <2>2. CASE Write(w)
    <3>1. CASE taken[w] \in open /\ peer[taken[w]] \in alive /\ Serve(w,
       peer[taken[w]]) /\ Written(w)
               /\ UNCHANGED <<calls, conn, cmd, open, alive, foreign, abandoned>>
      BY <2>2, <3>1 DEF Write, Serve
    <3>2. CASE taken[w] \in open /\ peer[taken[w]] \notin alive /\ Written(w)
               /\ UNCHANGED <<greeted, answers, answered, calls, conn, cmd, open, alive,
                  foreign, abandoned>>
      BY <2>2, <3>2 DEF Write
    <3>3. CASE (taken[w] \notin open \/ peer[taken[w]] \notin alive) /\ HandleConnectionLoss
               /\ foreign' = TRUE /\ GiveUp(w) /\ UNCHANGED <<doing, greeted, answered>>
      BY <2>2, <3>3, LossFacts DEF Write
    <3> QED
      BY <2>2, <3>1, <3>2, <3>3 DEF Write
  <2> QED
    BY <1>3, <2>1, <2>2 DEF WriterStep
<1>4. ASSUME NEW n \in Starts, LoopStep(n) PROVE InPlaceIsWatched'
  <2>1. CASE ReadTop(n) BY <2>1 DEF ReadTop
  <2>2. CASE ReadAnswer(n) BY <2>2 DEF ReadAnswer
  <2>3. CASE ReadError(n) BY <2>3, LossFacts DEF ReadError
  <2> QED
    BY <1>4, <2>1, <2>2, <2>3 DEF LoopStep
<1>5. ASSUME NEW n \in Starts, NEW t \in Tasks, ReadRequest(n, t) PROVE InPlaceIsWatched'
  BY <1>5 DEF ReadRequest
<1>6. CASE Close BY <1>6 DEF Close
<1>7. ASSUME NEW s \in Starts, ServerDies(s) PROVE InPlaceIsWatched'
  BY <1>7 DEF ServerDies
<1> HIDE DEF Goto, Maybe, writers, calls, fields, servers, sockets, loops, history, GiveUp,
      Written, Starting, Sorts, InPlaceIsWatched, Watched
<1> QED
  BY <1>1, <1>2, <1>3, <1>4, <1>5, <1>6, <1>7 DEF LinkNext

\* A connection that is not initialized is being so, or was left by its Start.
LEMMA GreetedStep ==
  ASSUME LinkTypeOK, Unpublished, GoodAnswers, Greeting, PublishedIsGreeted, [LinkNext]_linkVars
  PROVE  PublishedIsGreeted'
<1> Sorts
  BY SortsHold
<1> USE LinkAssumption DEF Goto, Starts, Writers, Maybe, writers, calls, fields, servers,
      sockets, loops, history, GiveUp, Written, Starting, Sorts, Unpublished, GoodAnswers,
      Greeting, PublishedIsGreeted, Begun
<1>1. CASE UNCHANGED linkVars BY <1>1 DEF linkVars
<1>2. ASSUME NEW c \in Callers, CallerStep(c) PROVE PublishedIsGreeted'
  <2>1. CASE CheckOpen(c) BY <2>1 DEF CheckOpen
  <2>2. CASE Exec(c) BY <2>2, ExecFacts
  <2>3. CASE Dial(c)
    <3>1. conn # number[c] /\ doing[c] # "initialize"
      BY <2>3, DialFacts
    <3>2. UNCHANGED <<conn, doing, number, greeted, abandoned>>
      BY <2>3, DialFacts
    <3>3. conn # None => peer'[conn] = peer[conn]
      <4>1. peer' = peer \/ \E s \in alive : peer' = [peer EXCEPT ![number[c]] = s]
        BY <2>3, DialFacts
      <4> QED
        BY <3>1, <4>1
    <3>4. \A d \in Callers : d # c => at'[d] = at[d]
      BY <2>3, DialFacts
    <3> QED
      BY <3>1, <3>2, <3>3, <3>4
  <2>4. CASE Publish(c) BY <2>4 DEF Publish
  <2>5. CASE Enter(c) BY <2>5 DEF Enter
  <2>6. CASE Await(c)
    <3>1. UNCHANGED <<conn, peer, greeted, number>> /\ abandoned \subseteq abandoned'
      BY <2>6 DEF Await
    <3>2. \A d \in Callers : d # c => at'[d] = at[d] /\ doing'[d] = doing[d]
      BY <2>6 DEF Await
    <3>3. CASE box[c] = "ok" /\ doing[c] = "initialize"
      <4>1. conn = number[c] /\ conn # None => peer[conn] \in greeted
        BY <2>6, <3>3 DEF Await
      <4> QED
        BY <3>1, <3>2, <4>1
    <3>4. CASE doing[c] # "initialize" BY <3>1, <3>2, <3>4
    <3>5. CASE GiveUp(c) /\ doing[c] = "initialize" BY <3>1, <3>2, <3>5
    <3> QED
      BY <2>6, <3>3, <3>4, <3>5 DEF Await
  <2>7. CASE KeepCmd(c) BY <2>7 DEF KeepCmd
  <2>8. CASE Aim(c) BY <2>8 DEF Aim
  <2> QED
    BY <1>2, <2>1, <2>2, <2>3, <2>4, <2>5, <2>6, <2>7, <2>8 DEF CallerStep
<1>3. ASSUME NEW w \in Writers, WriterStep(w) PROVE PublishedIsGreeted'
  <2>1. CASE Take(w) BY <2>1 DEF Take
  <2>2. CASE Write(w)
    <3>1. CASE taken[w] \in open /\ peer[taken[w]] \in alive /\ Serve(w,
       peer[taken[w]]) /\ Written(w)
               /\ UNCHANGED <<calls, conn, cmd, open, alive, foreign, abandoned>>
      BY <2>2, <3>1 DEF Write, Serve
    <3>2. CASE taken[w] \in open /\ peer[taken[w]] \notin alive /\ Written(w)
               /\ UNCHANGED <<greeted, answers, answered, calls, conn, cmd, open, alive,
                  foreign, abandoned>>
      BY <2>2, <3>2 DEF Write
    <3>3. CASE (taken[w] \notin open \/ peer[taken[w]] \notin alive) /\ HandleConnectionLoss
               /\ foreign' = TRUE /\ GiveUp(w) /\ UNCHANGED <<doing, greeted, answered>>
      BY <2>2, <3>3, LossFacts DEF Write
    <3> QED
      BY <2>2, <3>1, <3>2, <3>3 DEF Write
  <2> QED
    BY <1>3, <2>1, <2>2 DEF WriterStep
<1>4. ASSUME NEW n \in Starts, LoopStep(n) PROVE PublishedIsGreeted'
  <2>1. CASE ReadTop(n) BY <2>1 DEF ReadTop
  <2>2. CASE ReadAnswer(n) BY <2>2 DEF ReadAnswer
  <2>3. CASE ReadError(n) BY <2>3, LossFacts DEF ReadError
  <2> QED
    BY <1>4, <2>1, <2>2, <2>3 DEF LoopStep
<1>5. ASSUME NEW n \in Starts, NEW t \in Tasks, ReadRequest(n, t) PROVE PublishedIsGreeted'
  BY <1>5 DEF ReadRequest
<1>6. CASE Close BY <1>6 DEF Close
<1>7. ASSUME NEW s \in Starts, ServerDies(s) PROVE PublishedIsGreeted'
  BY <1>7 DEF ServerDies
<1> HIDE DEF Goto, Maybe, writers, calls, fields, servers, sockets, loops, history, GiveUp,
      Written, Starting, Sorts, Unpublished, GoodAnswers, Greeting, PublishedIsGreeted, Begun
<1> QED
  BY <1>1, <1>2, <1>3, <1>4, <1>5, <1>6, <1>7 DEF LinkNext

\* A reply is written to the one server that runs.
LEMMA RepliesStep ==
  ASSUME LinkTypeOK, Unpublished, OneStart, OneServer, OneSocket, AskedFirst, RepliesGoBack,
         [LinkNext]_linkVars
  PROVE  RepliesGoBack'
<1> Sorts
  BY SortsHold
<1> USE LinkAssumption DEF Goto, Starts, Writers, Maybe, writers, calls, fields, servers,
      sockets, loops, history, GiveUp, Written, Starting, Sorts, Unpublished, OneStart,
      OneServer, OneSocket, AskedFirst, RepliesGoBack, Begun
<1>1. CASE UNCHANGED linkVars BY <1>1 DEF linkVars
<1>2. ASSUME NEW c \in Callers, CallerStep(c) PROVE RepliesGoBack'
  <2>1. CASE CheckOpen(c) BY <2>1 DEF CheckOpen
  <2>2. CASE Exec(c) BY <2>2, ExecFacts
  <2>3. CASE Dial(c) BY <2>3, DialFacts
  <2>4. CASE Publish(c) BY <2>4 DEF Publish
  <2>5. CASE Enter(c) BY <2>5 DEF Enter
  <2>6. CASE Await(c) BY <2>6 DEF Await
  <2>7. CASE KeepCmd(c) BY <2>7 DEF KeepCmd
  <2>8. CASE Aim(c) BY <2>8 DEF Aim
  <2> QED
    BY <1>2, <2>1, <2>2, <2>3, <2>4, <2>5, <2>6, <2>7, <2>8 DEF CallerStep
<1>3. ASSUME NEW w \in Writers, WriterStep(w) PROVE RepliesGoBack'
  <2>1. CASE Take(w) BY <2>1 DEF Take
  <2>2. CASE Write(w)
    <3>1. CASE taken[w] \in open /\ peer[taken[w]] \in alive /\ Serve(w,
       peer[taken[w]]) /\ Written(w)
               /\ UNCHANGED <<calls, conn, cmd, open, alive, foreign, abandoned>>
      BY <2>2, <3>1 DEF Write, Serve
    <3>2. CASE taken[w] \in open /\ peer[taken[w]] \notin alive /\ Written(w)
               /\ UNCHANGED <<greeted, answers, answered, calls, conn, cmd, open, alive,
                  foreign, abandoned>>
      BY <2>2, <3>2 DEF Write
    <3>3. CASE (taken[w] \notin open \/ peer[taken[w]] \notin alive) /\ HandleConnectionLoss
               /\ foreign' = TRUE /\ GiveUp(w) /\ UNCHANGED <<doing, greeted, answered>>
      BY <2>2, <3>3, LossFacts DEF Write
    <3> QED
      BY <2>2, <3>1, <3>2, <3>3 DEF Write
  <2> QED
    BY <1>3, <2>1, <2>2 DEF WriterStep
<1>4. ASSUME NEW n \in Starts, LoopStep(n) PROVE RepliesGoBack'
  <2>1. CASE ReadTop(n) BY <2>1 DEF ReadTop
  <2>2. CASE ReadAnswer(n) BY <2>2 DEF ReadAnswer
  <2>3. CASE ReadError(n) BY <2>3, LossFacts DEF ReadError
  <2> QED
    BY <1>4, <2>1, <2>2, <2>3 DEF LoopStep
<1>5. ASSUME NEW n \in Starts, NEW t \in Tasks, ReadRequest(n, t) PROVE RepliesGoBack'
  BY <1>5 DEF ReadRequest
<1>6. CASE Close BY <1>6 DEF Close
<1>7. ASSUME NEW s \in Starts, ServerDies(s) PROVE RepliesGoBack'
  BY <1>7 DEF ServerDies
<1> HIDE DEF Goto, Maybe, writers, calls, fields, servers, sockets, loops, history, GiveUp,
      Written, Starting, Sorts, Unpublished, OneStart, OneServer, OneSocket, AskedFirst,
      RepliesGoBack, Begun
<1> QED
  BY <1>1, <1>2, <1>3, <1>4, <1>5, <1>6, <1>7 DEF LinkNext

\* A nil dereference needs a loss that somebody else reported.
LEMMA CrashStep ==
  ASSUME LinkTypeOK, OneLoop, CrashNeedsForeignLoss, [LinkNext]_linkVars
  PROVE  CrashNeedsForeignLoss'
<1> Sorts
  BY SortsHold
<1> USE LinkAssumption DEF Goto, Starts, Writers, Maybe, writers, calls, fields, servers,
      sockets, loops, history, GiveUp, Written, Starting, Sorts, OneLoop,
      CrashNeedsForeignLoss, Active
<1>1. CASE UNCHANGED linkVars BY <1>1 DEF linkVars
<1>2. ASSUME NEW c \in Callers, CallerStep(c) PROVE CrashNeedsForeignLoss'
  <2>1. CASE CheckOpen(c) BY <2>1 DEF CheckOpen
  <2>2. CASE Exec(c) BY <2>2, ExecFacts
  <2>3. CASE Dial(c) BY <2>3, DialFacts
  <2>4. CASE Publish(c) BY <2>4 DEF Publish
  <2>5. CASE Enter(c) BY <2>5 DEF Enter
  <2>6. CASE Await(c) BY <2>6 DEF Await
  <2>7. CASE KeepCmd(c) BY <2>7 DEF KeepCmd
  <2>8. CASE Aim(c) BY <2>8 DEF Aim
  <2> QED
    BY <1>2, <2>1, <2>2, <2>3, <2>4, <2>5, <2>6, <2>7, <2>8 DEF CallerStep
<1>3. ASSUME NEW w \in Writers, WriterStep(w) PROVE CrashNeedsForeignLoss'
  <2>1. CASE Take(w) BY <2>1 DEF Take
  <2>2. CASE Write(w)
    <3>1. CASE taken[w] \in open /\ peer[taken[w]] \in alive /\ Serve(w,
       peer[taken[w]]) /\ Written(w)
               /\ UNCHANGED <<calls, conn, cmd, open, alive, foreign, abandoned>>
      BY <2>2, <3>1 DEF Write, Serve
    <3>2. CASE taken[w] \in open /\ peer[taken[w]] \notin alive /\ Written(w)
               /\ UNCHANGED <<greeted, answers, answered, calls, conn, cmd, open, alive,
                  foreign, abandoned>>
      BY <2>2, <3>2 DEF Write
    <3>3. CASE (taken[w] \notin open \/ peer[taken[w]] \notin alive) /\ HandleConnectionLoss
               /\ foreign' = TRUE /\ GiveUp(w) /\ UNCHANGED <<doing, greeted, answered>>
      BY <2>2, <3>3, LossFacts DEF Write
    <3> QED
      BY <2>2, <3>1, <3>2, <3>3 DEF Write
  <2> QED
    BY <1>3, <2>1, <2>2 DEF WriterStep
<1>4. ASSUME NEW n \in Starts, LoopStep(n) PROVE CrashNeedsForeignLoss'
  <2>1. CASE ReadTop(n) BY <2>1 DEF ReadTop
  <2>2. CASE ReadAnswer(n) BY <2>2 DEF ReadAnswer
  <2>3. CASE ReadError(n) BY <2>3, LossFacts DEF ReadError
  <2> QED
    BY <1>4, <2>1, <2>2, <2>3 DEF LoopStep
<1>5. ASSUME NEW n \in Starts, NEW t \in Tasks, ReadRequest(n, t) PROVE CrashNeedsForeignLoss'
  BY <1>5 DEF ReadRequest
<1>6. CASE Close BY <1>6 DEF Close
<1>7. ASSUME NEW s \in Starts, ServerDies(s) PROVE CrashNeedsForeignLoss'
  BY <1>7 DEF ServerDies
<1> HIDE DEF Goto, Maybe, writers, calls, fields, servers, sockets, loops, history, GiveUp,
      Written, Starting, Sorts, OneLoop, CrashNeedsForeignLoss, Active
<1> QED
  BY <1>1, <1>2, <1>3, <1>4, <1>5, <1>6, <1>7 DEF LinkNext

-----------------------------------------------------------------------------
(* The theorems. *)

\* The invariant holds before the first start after Bootstrap's.
LEMMA InitInv == LinkInit => IInv
<1> SUFFICES ASSUME LinkInit PROVE IInv
  OBVIOUS
<1> USE LinkAssumption DEF LinkInit, Starts, Writers, Maybe, Begun
<1>1. at \in [Writers -> Places] /\ \A w \in Writers : at[w] \in {"start", "register", "idle",
   "done"}
  BY DEF Places
<1>2. WriterTypes /\ Doings /\ OwnNumbers /\ Taking
  BY <1>1 DEF WriterTypes, Doings, OwnNumbers, Taking
<1>3. 0 \in Starts /\ 0 \in Maybe(Starts) /\ None \in Maybe(Starts)
  OBVIOUS
<1>9. ClientTypes
  <2>1. pending \subseteq Callers /\ box \in [Callers -> {"empty", "ok", "refused", "lost"}]
    OBVIOUS
  <2>2. conn \in Maybe(Starts) /\ cmd \in Maybe(Starts) /\ url \in Starts /\ starts \in Starts
    BY <1>3
  <2>3. loop \in [Starts -> {"none", "top", "read",
     "gone"}] /\ reads \in [Starts -> Maybe(Starts)]
    BY <1>3
  <2>4. closed \in BOOLEAN /\ crashed \in BOOLEAN /\ overlap \in BOOLEAN /\ foreign \in BOOLEAN
    OBVIOUS
  <2>5. abandoned \subseteq Starts
    OBVIOUS
  <2> QED
    BY <2>1, <2>2, <2>3, <2>4, <2>5 DEF ClientTypes
<1>4. ServerTypes
  BY DEF ServerTypes
<1>5. KnownNumbers /\ Unpublished
  BY <1>1 DEF KnownNumbers, Unpublished
<1>6. InPlaceIsOpen /\ OneStart /\ OneServer /\ OneSocket
  BY <1>1 DEF InPlaceIsOpen, OneStart, OneServer, OneSocket
<1>7. OneLoop /\ GoodAnswers /\ Greeting /\ AskedFirst /\ CallsRegistered
  BY <1>1 DEF OneLoop, Active, GoodAnswers, Greeting, AskedFirst, CallsRegistered
<1>8. InPlaceIsWatched /\ PublishedIsGreeted /\ RepliesGoBack /\ CrashNeedsForeignLoss
  BY <1>1 DEF InPlaceIsWatched, Watched, PublishedIsGreeted, RepliesGoBack,
     CrashNeedsForeignLoss
<1> QED
  BY <1>2, <1>9, <1>4, <1>5, <1>6, <1>7, <1>8, TypeParts DEF IInv

\* Every step keeps it.
LEMMA InvStep == IInv /\ [LinkNext]_linkVars => IInv'
<1> SUFFICES ASSUME IInv, [LinkNext]_linkVars PROVE IInv'
  OBVIOUS
<1> USE DEF IInv
<1>1. WriterTypes /\ ClientTypes /\ ServerTypes
  BY TypeParts
<1>2. WriterTypes' /\ ClientTypes' /\ ServerTypes'
  BY <1>1, WriterTypesStep, ClientTypesStep, ServerTypesStep
<1>3. LinkTypeOK'
  BY <1>2 DEF LinkTypeOK, WriterTypes, ClientTypes, ServerTypes
<1>4. Doings' /\ OwnNumbers' /\ KnownNumbers' /\ Unpublished' /\ InPlaceIsOpen'
  BY DoingsStep, OwnStep, KnownStep, UnpublishedStep, InPlaceStep
<1>5. OneStart' /\ OneServer' /\ OneSocket' /\ OneLoop'
  BY StartStep, ServerStep, SocketStep, LoopStepKept
<1>6. GoodAnswers' /\ Greeting' /\ AskedFirst' /\ CallsRegistered' /\ Taking' /\ InPlaceIsWatched'
  BY AnswersStep, GreetingStep, AskedStep, CallsStep, TakingStep, WatchedStep
<1>7. PublishedIsGreeted' /\ RepliesGoBack' /\ CrashNeedsForeignLoss'
  BY GreetedStep, RepliesStep, CrashStep
<1> QED
  BY <1>3, <1>4, <1>5, <1>6, <1>7

\* So it always holds.
LEMMA InvAlways == LinkSpec => []IInv
BY InitInv, InvStep, PTL DEF LinkSpec

\* The variables have their types.
THEOREM LinkTypeCorrect == LinkSpec => []LinkTypeOK
<1>1. IInv => LinkTypeOK
  BY DEF IInv
<1> QED
  BY InvAlways, <1>1, PTL

\* Unless two Starts overlap, or the client is closed, no call waits for an answer that
\* nobody will read and no loss will replace.
THEOREM CallsAreNotStranded == LinkSpec => []NoStrandedCall
<1>1. IInv => NoStrandedCall
  BY DEF IInv, NoStrandedCall, CallsRegistered, InPlaceIsWatched
<1> QED
  BY InvAlways, <1>1, PTL

\* Start publishes before it initializes: every connection found is initialized, or
\* its Start is at it, or has failed and left it.
THEOREM FoundIsGreeted == LinkSpec => []PublishedIsGreeted
<1>1. IInv => PublishedIsGreeted
  BY DEF IInv
<1> QED
  BY InvAlways, <1>1, PTL

\* Replies go to whatever c.conn is: to the server that asked, unless it is gone.
THEOREM RepliesReturn == LinkSpec => []RepliesGoBack
<1>1. IInv => RepliesGoBack
  BY DEF IInv
<1> QED
  BY InvAlways, <1>1, PTL

\* The nil dereferences of readLoop and Start need a late report of a loss, a Close, or
\* two Starts at once.
THEOREM CrashIsExplained == LinkSpec => []CrashNeedsForeignLoss
<1>1. IInv => CrashNeedsForeignLoss
  BY DEF IInv
<1> QED
  BY InvAlways, <1>1, PTL

\* The connection to a server that runs is torn down by Close, or by a reader or writer
\* that holds another socket.
THEOREM TeardownIsStale == LinkSpec => OnlyStaleTeardown
<1> DEFINE Stale(w) == at[w] = "write" /\ at'[w] = "done" /\ taken[w] # conn
           Late(n)  == loop[n] = "read" /\ loop'[n] = "gone" /\ reads[n] # conn
           Down     == conn # None /\ conn' = None /\ peer[conn] \in alive /\ ~closed'
<1>1. ASSUME IInv, LinkNext, Down
      PROVE  (\E w \in Writers : Stale(w)) \/ (\E n \in Starts : Late(n))
  <2>1. conn \in open /\ Sorts
    BY <1>1, SortsHold DEF IInv, InPlaceIsOpen
  <2>2. ASSUME NEW c \in Callers, CallerStep(c) PROVE FALSE
    <3>1. conn' = conn \/ (at[c] = "publish" /\ conn' = number[c])
      BY <2>2, ExecFacts, DialFacts DEF CallerStep, CheckOpen, KeepCmd, Aim, Publish, Enter, Await, fields
    <3>2. at[c] = "publish" => number[c] # None
      BY <1>1 DEF IInv, OwnNumbers, Begun
    <3> QED
      BY <1>1, <3>1, <3>2
  <2>3. ASSUME NEW w \in Writers, WriterStep(w) PROVE Stale(w)
    <3>1. ~UNCHANGED conn
      BY <1>1
    <3>2. Write(w) /\ (taken[w] \notin open \/ peer[taken[w]] \notin alive) /\ GiveUp(w)
      BY <2>3, <3>1 DEF WriterStep, Take, Write, fields
    <3> QED
      BY <1>1, <2>1, <3>2 DEF Write, GiveUp, Goto, Sorts
  <2>4. ASSUME NEW n \in Starts, LoopStep(n) PROVE Late(n)
    <3>1. ~UNCHANGED conn
      BY <1>1
    <3>2. ReadError(n)
      BY <2>4, <3>1 DEF LoopStep, ReadTop, ReadAnswer, fields
    <3> QED
      BY <1>1, <2>1, <3>2 DEF ReadError, Sorts
  <2>5. ASSUME NEW n \in Starts, NEW t \in Tasks, ReadRequest(n, t) PROVE FALSE
    BY <1>1, <2>5 DEF ReadRequest, fields
  <2>6. ~Close
    BY <1>1 DEF Close
  <2>7. ASSUME NEW s \in Starts, ServerDies(s) PROVE FALSE
    BY <1>1, <2>7 DEF ServerDies, fields
  <2> QED
    BY <1>1, <2>2, <2>3, <2>4, <2>5, <2>6, <2>7 DEF LinkNext
<1>2. IInv /\ [LinkNext]_linkVars =>
        [Down => (\E w \in Writers : Stale(w)) \/ (\E n \in Starts : Late(n))]_linkVars
  BY <1>1
<1> QED
  BY InvAlways, <1>2, PTL DEF LinkSpec, OnlyStaleTeardown

=============================================================================
