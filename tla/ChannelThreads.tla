--------------------------- MODULE ChannelThreads ---------------------------
(***************************************************************************)
(* How a channel gets its Codex thread: the handlers (messages, job        *)
(* follow-ups) that call ensureChannelThread on goroutines of their own,   *)
(* the cache of the process, the two kv entries of each channel (thread ID *)
(* and signature of the tools it was started with), the threads of the     *)
(* app-server, and restarts of the process, possibly on a newer build.     *)
(*                                                                         *)
(* A build stands for its DynamicToolSignature; builds are numbered from 1 *)
(* and a restart never goes back to an older one.                          *)
(***************************************************************************)
EXTENDS Naturals

CONSTANTS
  Handlers,     \* runs of processMessage and handleJobResult
  Channels,
  ChannelOf,    \* the channel a handler works for
  Threads,      \* thread IDs
  None,         \* no thread
  MaxBuild, MaxRestart   \* bounds: builds, restarts

ASSUME ThreadsAssumption ==
  /\ ChannelOf \in [Handlers -> Channels]
  /\ None \notin Threads
  /\ {MaxBuild, MaxRestart} \subseteq Nat

VARIABLES
  pc,        \* where each handler is
  stored,    \* the thread ID it read from kv
  mine,      \* the thread it got from EnsureThread or the cache
  cache,     \* channelThreads
  kvID,      \* kv[codex.channel_thread.<id>]
  kvSig,     \* kv[codex.channel_thread.<id>.dynamic_tools_signature], 0 when absent
  build,     \* the build that is running
  tools,     \* the build each thread was started by, 0 when it does not exist
  primed,    \* threads this process has given the bot context
  raced,     \* history: channels that two handlers were binding at once
  torn,      \* history: channels where an ID was taken with the signature of a later write
  restarts   \* restarts so far

handler == <<pc, stored, mine>>
kv      == <<kvID, kvSig>>
server  == <<tools, primed>>
history == <<raced, torn>>
vars    == <<handler, cache, kv, build, server, history, restarts>>

Binding == {"readID", "readSig", "bind", "prime", "saveID", "saveSig", "cache"}
Steps   == {"new", "ready", "over"} \cup Binding

TypeOK ==
  /\ pc \in [Handlers -> Steps]
  /\ stored \in [Handlers -> Threads \cup {None}]
  /\ mine \in [Handlers -> Threads \cup {None}]
  /\ cache \in [Channels -> Threads \cup {None}]
  /\ kvID \in [Channels -> Threads \cup {None}]
  /\ kvSig \in [Channels -> Nat]
  /\ build \in Nat \ {0}
  /\ tools \in [Threads -> Nat]
  /\ primed \subseteq Threads
  /\ raced \subseteq Channels
  /\ torn \subseteq Channels
  /\ restarts \in Nat

Init ==
  /\ pc = [h \in Handlers |-> "new"]
  /\ stored = [h \in Handlers |-> None]
  /\ mine = [h \in Handlers |-> None]
  /\ cache = [c \in Channels |-> None]
  /\ kvID = [c \in Channels |-> None]
  /\ kvSig = [c \in Channels |-> 0]
  /\ build = 1
  /\ tools = [t \in Threads |-> 0]
  /\ primed = {} /\ raced = {} /\ torn = {} /\ restarts = 0

-----------------------------------------------------------------------------
(* ensureChannelThread. *)

Goto(h, step) == pc' = [pc EXCEPT ![h] = step]

\* Faulty orders of the steps after EnsureThread.
SignatureFirst == [bind |-> "prime", prime |-> "saveSig", saveSig |-> "saveID",
                   saveID |-> "cache", cache |-> "ready"]
PrimeLast == [bind |-> "saveID", saveID |-> "saveSig", saveSig |-> "cache",
              cache |-> "prime", prime |-> "ready"]
CacheEarly == [bind |-> "prime", prime |-> "cache", cache |-> "saveID",
               saveID |-> "saveSig", saveSig |-> "ready"]

\* What follows each step of a binding that succeeds.
Following == [bind |-> "prime", prime |-> "saveID", saveID |-> "saveSig",
              saveSig |-> "cache", cache |-> "ready"]

Others(h) == {g \in Handlers \ {h} : ChannelOf[g] = ChannelOf[h] /\ pc[g] \in Binding}

\* The first locked section: a cached thread is used, else the handler binds one.
LookUp(h) ==
  /\ pc[h] = "new"
  /\ IF cache[ChannelOf[h]] # None
       THEN /\ mine' = [mine EXCEPT ![h] = cache[ChannelOf[h]]]
            /\ Goto(h, "ready")
            /\ UNCHANGED raced
       ELSE /\ Goto(h, "readID")
            /\ raced' = IF Others(h) = {} THEN raced ELSE raced \cup {ChannelOf[h]}
            /\ UNCHANGED mine
  /\ UNCHANGED <<stored, cache, kv, build, server, torn, restarts>>

\* storedThreadID, first statement: without an ID, or on an error, nothing is stored.
ReadID(h) ==
  /\ pc[h] = "readID"
  /\ \/ /\ kvID[ChannelOf[h]] # None
        /\ stored' = [stored EXCEPT ![h] = kvID[ChannelOf[h]]]
        /\ Goto(h, "readSig")
     \/ Goto(h, "bind") /\ UNCHANGED stored
  /\ UNCHANGED <<mine, cache, kv, build, server, history, restarts>>

\* storedThreadID, second statement: the ID counts only with the signature of this
\* build; on an error it does not.
ReadSig(h) ==
  /\ pc[h] = "readSig"
  /\ \/ /\ kvSig[ChannelOf[h]] = build
        /\ torn' = IF stored[h] = kvID[ChannelOf[h]] THEN torn ELSE torn \cup {ChannelOf[h]}
        /\ UNCHANGED stored
     \/ stored' = [stored EXCEPT ![h] = None] /\ UNCHANGED torn
  /\ Goto(h, "bind")
  /\ UNCHANGED <<mine, cache, kv, build, server, raced, restarts>>

\* EnsureThread: thread/resume of the stored ID, or, when there is none or the resume
\* fails, thread/start with the tools of this build.
EnsureThread(h) ==
  /\ pc[h] = "bind"
  /\ \/ /\ stored[h] # None
        /\ mine' = [mine EXCEPT ![h] = stored[h]]
        /\ UNCHANGED tools
     \/ \E t \in Threads :
          /\ tools[t] = 0
          /\ tools' = [tools EXCEPT ![t] = build]
          /\ mine' = [mine EXCEPT ![h] = t]
  /\ Goto(h, Following["bind"])
  /\ UNCHANGED <<stored, cache, kv, build, primed, history, restarts>>

\* Faulty: the stored ID is primed instead of the thread at hand.
PrimeStored(h) ==
  /\ pc[h] = "prime"
  /\ primed' = primed \cup {stored[h]}
  /\ Goto(h, Following["prime"])
  /\ UNCHANGED <<stored, mine, cache, kv, build, tools, history, restarts>>

\* primeThreadContext: a turn with the bot context.
Prime(h) ==
  /\ pc[h] = "prime"
  /\ primed' = primed \cup {mine[h]}
  /\ Goto(h, Following["prime"])
  /\ UNCHANGED <<stored, mine, cache, kv, build, tools, history, restarts>>

\* persistThreadBinding, first statement.
SaveID(h) ==
  /\ pc[h] = "saveID"
  /\ kvID' = [kvID EXCEPT ![ChannelOf[h]] = mine[h]]
  /\ Goto(h, Following["saveID"])
  /\ UNCHANGED <<stored, mine, cache, kvSig, build, server, history, restarts>>

\* persistThreadBinding, second statement.
SaveSig(h) ==
  /\ pc[h] = "saveSig"
  /\ kvSig' = [kvSig EXCEPT ![ChannelOf[h]] = build]
  /\ Goto(h, Following["saveSig"])
  /\ UNCHANGED <<stored, mine, cache, kvID, build, server, history, restarts>>

\* The second locked section: whatever the cache holds by now is replaced.
Publish(h) ==
  /\ pc[h] = "cache"
  /\ cache' = [cache EXCEPT ![ChannelOf[h]] = mine[h]]
  /\ Goto(h, Following["cache"])
  /\ UNCHANGED <<stored, mine, kv, build, server, history, restarts>>

\* A call to the app-server or a SetKV fails: the handler drops its message.
BindError(h) ==
  /\ pc[h] \in {"bind", "prime", "saveID", "saveSig"}
  /\ Goto(h, "over")
  /\ UNCHANGED <<stored, mine, cache, kv, build, server, history, restarts>>

\* The turn of the handler on its thread is over.
FinishTurn(h) ==
  /\ pc[h] = "ready"
  /\ Goto(h, "over")
  /\ UNCHANGED <<stored, mine, cache, kv, build, server, history, restarts>>

\* The process stops anywhere and is started again, on this build or the next one.
\* Its goroutines and its cache are gone.
Restart ==
  /\ restarts < MaxRestart
  /\ restarts' = restarts + 1
  /\ build' \in {build} \cup {b \in {build + 1} : b <= MaxBuild}
  /\ pc' = [h \in Handlers |-> IF pc[h] = "new" THEN "new" ELSE "over"]
  /\ cache' = [c \in Channels |-> None]
  /\ primed' = {}
  /\ UNCHANGED <<stored, mine, kv, tools, history>>

Ensure(h) == \/ LookUp(h) \/ ReadID(h) \/ ReadSig(h) \/ EnsureThread(h) \/ Prime(h)
             \/ SaveID(h) \/ SaveSig(h) \/ Publish(h) \/ BindError(h) \/ FinishTurn(h)

Next == Restart \/ \E h \in Handlers : Ensure(h)

Spec == Init /\ [][Next]_vars

-----------------------------------------------------------------------------
(* Properties. *)

Talking(h) == pc[h] = "ready"

\* No handler talks on a thread that was started with the tools of another build,
\* however restarts on newer builds cut between the two writes of a binding: the ID is
\* written before its signature.  The exception is a handler that read the ID before
\* and the signature after another handler's write of the same binding.
ToolsMatch ==
  \A h \in Handlers :
    (Talking(h) /\ ChannelOf[h] \notin torn) => tools[mine[h]] = build

\* No handler talks on a thread before this process has given it the bot context, one
\* that found the thread in the cache included.
PrimedBeforeUse == \A h \in Handlers : Talking(h) => mine[h] \in primed

\* What the cache says is what a restart on the same build would find: the thread of a
\* channel survives, unless two handlers were binding it at once.
CacheIsStored ==
  \A c \in Channels \ raced :
    cache[c] # None => (kvID[c] = cache[c] /\ kvSig[c] = build)

\* Claimed by the self model of the agent ("a conversation thread for each channel"):
\* handlers of one channel that talk at the same time share its thread.  Two of them
\* that miss the cache at once start a thread each.
OneThreadPerChannel ==
  \A g, h \in Handlers :
    (Talking(g) /\ Talking(h) /\ ChannelOf[g] = ChannelOf[h]) => mine[g] = mine[h]
=============================================================================
