------------------------ MODULE ChannelThreadsProofs ------------------------
(***************************************************************************)
(* The bindings of ChannelThreads are right for every set of handlers,     *)
(* channels and threads and for every number of builds and restarts: no    *)
(* handler talks on a thread with the tools of another build (outside the  *)
(* torn read the property names), or on one without the bot context.       *)
(***************************************************************************)
EXTENDS ChannelThreads, TLAPS

Current(t) == t \in Threads /\ tools[t] = build

Bound == {"prime", "saveID", "saveSig", "cache", "ready"}

\* What a handler holds on a channel without torn reads.
HeldCurrent(h) ==
  /\ pc[h] \in Bound => Current(mine[h])
  /\ (pc[h] = "bind" /\ stored[h] # None) => Current(stored[h])
  /\ pc[h] = "saveSig" => Current(kvID[ChannelOf[h]])

\* What the cache and kv hold of such a channel: a signature of this build vouches
\* for the ID beside it, whoever wrote either of them.
KeptCurrent(c) ==
  /\ cache[c] # None => Current(cache[c])
  /\ (kvSig[c] = build /\ kvID[c] # None) => Current(kvID[c])

ToolsInv ==
  /\ \A h \in Handlers : ChannelOf[h] \notin torn => HeldCurrent(h)
  /\ \A c \in Channels \ torn : KeptCurrent(c)
  /\ \A c \in Channels : kvSig[c] <= build
  /\ \A h \in Handlers : pc[h] \in {"new", "readID"} => stored[h] = None

PrimedInv ==
  /\ \A h \in Handlers : pc[h] \in Bound \ {"prime"} => mine[h] \in primed
  /\ \A c \in Channels : cache[c] # None => cache[c] \in primed

\* A bound handler holds a thread.
HoldsThread == \A h \in Handlers : pc[h] \in Bound => mine[h] \in Threads

\* On a channel that never had two binders at once, the one binder finds the cache
\* empty and what it has written in kv unchanged.
StoredInv ==
  /\ \A g, h \in Handlers :
       (g # h /\ ChannelOf[g] = ChannelOf[h] /\ pc[g] \in Binding /\ pc[h] \in Binding)
         => ChannelOf[h] \in raced
  /\ \A h \in Handlers : ChannelOf[h] \notin raced =>
       /\ pc[h] \in Binding => cache[ChannelOf[h]] = None
       /\ pc[h] \in {"saveSig", "cache"} => kvID[ChannelOf[h]] = mine[h]
       /\ pc[h] = "cache" => kvSig[ChannelOf[h]] = build
  /\ CacheIsStored

IInv == TypeOK /\ HoldsThread /\ ToolsInv /\ PrimedInv /\ StoredInv

\* The initial state satisfies the invariant.
LEMMA InitInv == Init => IInv
BY ThreadsAssumption DEF Init, IInv, TypeOK, HoldsThread, ToolsInv, PrimedInv, HeldCurrent,
   KeptCurrent, Current, Bound, Steps, Binding, StoredInv, CacheIsStored

\* Every step keeps the variables in their types, and bound handlers their threads.
LEMMA TypeStep == TypeOK /\ HoldsThread /\ [Next]_vars => TypeOK' /\ HoldsThread'
<1> SUFFICES ASSUME TypeOK, HoldsThread, [Next]_vars PROVE TypeOK' /\ HoldsThread'
  OBVIOUS
<1> USE ThreadsAssumption DEF TypeOK, HoldsThread, Bound, Steps, Binding, Goto, Following
<1>1. CASE UNCHANGED vars
  BY <1>1 DEF vars, handler, kv, server, history
<1>2. CASE Restart
  BY <1>2 DEF Restart, kv, history
<1>3. ASSUME NEW h \in Handlers, Ensure(h) PROVE TypeOK' /\ HoldsThread'
  <2>1. CASE LookUp(h)
    BY <2>1 DEF LookUp, kv, server, history
  <2>2. CASE ReadID(h)
    BY <2>2 DEF ReadID, kv, server, history
  <2>3. CASE ReadSig(h)
    BY <2>3 DEF ReadSig, kv, server, history
  <2>4. CASE EnsureThread(h)
    BY <2>4 DEF EnsureThread, kv, server, history
  <2>5. CASE Prime(h)
    BY <2>5 DEF Prime, kv, server, history
  <2>6. CASE SaveID(h)
    BY <2>6 DEF SaveID, kv, server, history
  <2>7. CASE SaveSig(h)
    BY <2>7 DEF SaveSig, kv, server, history
  <2>8. CASE Publish(h)
    BY <2>8 DEF Publish, kv, server, history
  <2>9. CASE BindError(h)
    BY <2>9 DEF BindError, kv, server, history
  <2>10. CASE FinishTurn(h)
    BY <2>10 DEF FinishTurn, kv, server, history
  <2> QED
    BY <1>3, <2>1, <2>2, <2>3, <2>4, <2>5, <2>6, <2>7, <2>8, <2>9, <2>10 DEF Ensure
<1> QED
  BY <1>1, <1>2, <1>3 DEF Next

\* Every step keeps what is said about the tools of threads.
LEMMA ToolsStep == IInv /\ [Next]_vars => ToolsInv'
<1> SUFFICES ASSUME IInv, [Next]_vars PROVE ToolsInv'
  OBVIOUS
<1> USE ThreadsAssumption DEF IInv, TypeOK, HoldsThread, ToolsInv, HeldCurrent, KeptCurrent,
        Current, Bound, Steps, Binding, Goto, Following
<1>1. CASE UNCHANGED vars
  BY <1>1 DEF vars, handler, kv, server, history
<1>2. CASE Restart
  BY <1>2 DEF Restart, kv, history
<1>3. ASSUME NEW h \in Handlers, Ensure(h) PROVE ToolsInv'
  <2>1. CASE LookUp(h)
    BY <2>1 DEF LookUp, kv, server, history
  <2>2. CASE ReadID(h)
    BY <2>2 DEF ReadID, kv, server, history
  <2>3. CASE ReadSig(h)
    BY <2>3 DEF ReadSig, kv, server, history
  <2>4. CASE EnsureThread(h)
    BY <2>4 DEF EnsureThread, kv, server, history
  <2>5. CASE Prime(h)
    BY <2>5 DEF Prime, kv, server, history
  <2>6. CASE SaveID(h)
    BY <2>6 DEF SaveID, kv, server, history
  <2>7. CASE SaveSig(h)
    BY <2>7 DEF SaveSig, kv, server, history
  <2>8. CASE Publish(h)
    BY <2>8 DEF Publish, kv, server, history
  <2>9. CASE BindError(h)
    BY <2>9 DEF BindError, kv, server, history
  <2>10. CASE FinishTurn(h)
    BY <2>10 DEF FinishTurn, kv, server, history
  <2> QED
    BY <1>3, <2>1, <2>2, <2>3, <2>4, <2>5, <2>6, <2>7, <2>8, <2>9, <2>10 DEF Ensure
<1> QED
  BY <1>1, <1>2, <1>3 DEF Next

\* Every step keeps what is said about primed threads.
LEMMA PrimedStep == IInv /\ [Next]_vars => PrimedInv'
<1> SUFFICES ASSUME IInv, [Next]_vars PROVE PrimedInv'
  OBVIOUS
<1> USE ThreadsAssumption DEF IInv, TypeOK, HoldsThread, PrimedInv, Bound, Steps, Binding,
        Goto, Following
<1>1. CASE UNCHANGED vars
  BY <1>1 DEF vars, handler, kv, server, history
<1>2. CASE Restart
  BY <1>2 DEF Restart, kv, history
<1>3. ASSUME NEW h \in Handlers, Ensure(h) PROVE PrimedInv'
  <2>1. CASE LookUp(h)
    BY <2>1 DEF LookUp, kv, server, history
  <2>2. CASE ReadID(h)
    BY <2>2 DEF ReadID, kv, server, history
  <2>3. CASE ReadSig(h)
    BY <2>3 DEF ReadSig, kv, server, history
  <2>4. CASE EnsureThread(h)
    BY <2>4 DEF EnsureThread, kv, server, history
  <2>5. CASE Prime(h)
    BY <2>5 DEF Prime, kv, server, history
  <2>6. CASE SaveID(h)
    BY <2>6 DEF SaveID, kv, server, history
  <2>7. CASE SaveSig(h)
    BY <2>7 DEF SaveSig, kv, server, history
  <2>8. CASE Publish(h)
    BY <2>8 DEF Publish, kv, server, history
  <2>9. CASE BindError(h)
    BY <2>9 DEF BindError, kv, server, history
  <2>10. CASE FinishTurn(h)
    BY <2>10 DEF FinishTurn, kv, server, history
  <2> QED
    BY <1>3, <2>1, <2>2, <2>3, <2>4, <2>5, <2>6, <2>7, <2>8, <2>9, <2>10 DEF Ensure
<1> QED
  BY <1>1, <1>2, <1>3 DEF Next

\* Every step keeps the agreement of cache and kv.
LEMMA StoredStep == IInv /\ [Next]_vars => StoredInv'
<1> SUFFICES ASSUME IInv, [Next]_vars PROVE StoredInv'
  OBVIOUS
<1> USE ThreadsAssumption DEF IInv, TypeOK, StoredInv, CacheIsStored, Steps, Binding,
        Goto, Following
<1>1. CASE UNCHANGED vars
  BY <1>1 DEF vars, handler, kv, server, history
<1>2. CASE Restart
  BY <1>2 DEF Restart, kv, history
<1>3. ASSUME NEW h \in Handlers, Ensure(h) PROVE StoredInv'
  <2>1. CASE LookUp(h)
    BY <2>1 DEF LookUp, kv, server, history, Others
  <2>2. CASE ReadID(h)
    BY <2>2 DEF ReadID, kv, server, history
  <2>3. CASE ReadSig(h)
    BY <2>3 DEF ReadSig, kv, server, history
  <2>4. CASE EnsureThread(h)
    BY <2>4 DEF EnsureThread, kv, server, history
  <2>5. CASE Prime(h)
    BY <2>5 DEF Prime, kv, server, history
  <2>6. CASE SaveID(h)
    BY <2>6 DEF SaveID, kv, server, history
  <2>7. CASE SaveSig(h)
    BY <2>7 DEF SaveSig, kv, server, history
  <2>8. CASE Publish(h)
    BY <2>8 DEF Publish, kv, server, history
  <2>9. CASE BindError(h)
    BY <2>9 DEF BindError, kv, server, history
  <2>10. CASE FinishTurn(h)
    BY <2>10 DEF FinishTurn, kv, server, history
  <2> QED
    BY <1>3, <2>1, <2>2, <2>3, <2>4, <2>5, <2>6, <2>7, <2>8, <2>9, <2>10 DEF Ensure
<1> QED
  BY <1>1, <1>2, <1>3 DEF Next

\* The invariant holds in every reachable state.
THEOREM Invariance == Spec => []IInv
<1>1. IInv /\ [Next]_vars => IInv'
  BY TypeStep, ToolsStep, PrimedStep, StoredStep DEF IInv
<1> QED
  BY InitInv, <1>1, PTL DEF Spec

\* Type correctness of ChannelThreads.
THEOREM TypeCorrect == Spec => []TypeOK
<1>1. IInv => TypeOK
  BY DEF IInv
<1> QED
  BY Invariance, <1>1, PTL

\* A handler talks on a thread with the tools of the running build (storedThreadID and
\* persistThreadBinding with crashes between their statements).
THEOREM ToolsAlwaysMatch == Spec => []ToolsMatch
<1>1. IInv => ToolsMatch
  BY DEF IInv, ToolsInv, HeldCurrent, Current, Bound, ToolsMatch, Talking
<1> QED
  BY Invariance, <1>1, PTL

\* A handler talks on a thread this process has primed (ensureChannelThread's cache).
THEOREM PrimedAlways == Spec => []PrimedBeforeUse
<1>1. IInv => PrimedBeforeUse
  BY DEF IInv, PrimedInv, Bound, PrimedBeforeUse, Talking
<1> QED
  BY Invariance, <1>1, PTL

\* What a restart finds is what the cache said (persistThreadBinding before the second
\* locked section of ensureChannelThread).
THEOREM CacheAlwaysStored == Spec => []CacheIsStored
<1>1. IInv => CacheIsStored
  BY DEF IInv, StoredInv
<1> QED
  BY Invariance, <1>1, PTL
=============================================================================
