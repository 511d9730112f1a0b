------------------------------ MODULE FactStore ------------------------------
(***************************************************************************)
(* The facts table, the memory tools that write, close and delete facts,   *)
(* and the facts a conversation turn is given.  Tool calls and message     *)
(* handlers are goroutines; the store has one connection, so a statement   *)
(* is a step and the calls interleave between their statements.            *)
(*                                                                         *)
(* The table is the list of its rows in the order of their updated_at, the *)
(* oldest first, as ORDER BY compares the texts; RFC3339Nano drops the     *)
(* zeros at the end, so a later time of the same second may come anywhere  *)
(* and a write puts its row at any place.  Values are left out.  A key is  *)
(* <<prefix, key>>: a resolution gets the prefix of the kind it closes,    *)
(* anything else "".                                                       *)
(***************************************************************************)
EXTENDS Naturals, Sequences, FiniteSets, SequencesExt

CONSTANTS
  FaTools,     \* goroutines of tool calls
  FaTurns,     \* message handlers, which collect facts
  FaOpenKinds, \* kinds that a tool closes
  FaKeys,
  FaNotes,     \* keys of decisions that resolve nothing
  FaLimit,     \* collectConversationFacts: facts given, 12
  FaPerKind    \* and listed of each kind, 2

(* The tools that close: the kind and the prefix of its resolutions.       *)
FaPrefix ==
  [pending_promise |-> "promise/", open_loop |-> "close/", curiosity |-> "curiosity/",
   agent_goal |-> "goal/", soft_reminder |-> "reminder/", learned_policy |-> "policy/",
   proposal_boundary |-> "boundary/"]

ASSUME FaAssumption ==
  FaOpenKinds \subseteq DOMAIN FaPrefix /\ FaLimit \in Nat \ {0} /\ FaPerKind \in Nat \ {0}

(* The kinds in the order collectConversationFacts lists them, without the *)
(* seven that no tool closes.                                              *)
FaListed ==
  <<"pending_promise", "open_loop", "curiosity", "agent_goal", "soft_reminder",
    "learned_policy", "proposal_boundary", "decision">>

FaOpen == FaOpenKinds \X ({""} \X FaKeys)
FaResolution(slot) == <<"decision", <<FaPrefix[slot[1]], slot[2][2]>>>>
FaSlots == FaOpen \cup {FaResolution(s) : s \in FaOpen} \cup ({"decision"} \X ({""} \X FaNotes))
FaKinds == FaOpenKinds \cup {"decision"}

VARIABLES
  faTable,   \* the rows
  faCall,    \* the close of each tool call: the slot whose resolution it is to write
  faTurn,    \* the collection of each handler
  faExcused, \* history: open facts that were not stored, or went without a word
  faTouched  \* history: kinds written since each collection began

faVars == <<faTable, faCall, faTurn, faExcused, faTouched>>

FaNoSlot == <<"none", <<"", "">>>>
FaRest == [at |-> "rest", left |-> 0, list |-> <<>>]
FaHas(list, slot) == \E i \in DOMAIN list : list[i] = slot

FaInit ==
  /\ faTable = <<>>
  /\ faCall = [c \in FaTools |-> FaNoSlot] /\ faTurn = [t \in FaTurns |-> FaRest]
  /\ faExcused = FaOpen /\ faTouched = [t \in FaTurns |-> {}]

FaTouch(kind) ==
  faTouched' = [t \in FaTurns |-> IF faTurn[t] = FaRest THEN {} ELSE faTouched[t] \cup {kind}]

-----------------------------------------------------------------------------
(* The table has at most one row of a kind and key.                        *)
FaWithout(slot) ==
  IF FaHas(faTable, slot) THEN RemoveAt(faTable, CHOOSE i \in DOMAIN faTable : faTable[i] = slot) ELSE faTable

(* A plausible bug: a row of the same kind and key stays.                  *)
FaInsert(slot) ==
  /\ \E i \in 1..Len(faTable) + 1 : faTable' = InsertAt(faTable, i, slot)
  /\ FaTouch(slot[1]) /\ UNCHANGED faTurn

(* UpsertFact                                                              *)
FaUpsert(slot) ==
  LET others == FaWithout(slot) IN
  /\ \E i \in 1..Len(others) + 1 : faTable' = InsertAt(others, i, slot)
  /\ FaTouch(slot[1]) /\ UNCHANGED faTurn

(* DeleteFact                                                              *)
FaRemove(slot) == faTable' = FaWithout(slot) /\ FaTouch(slot[1]) /\ UNCHANGED faTurn

(* writeFact, write_fact, write_open_loop, write_decision_log and the like *)
FaWrite(slot) == FaUpsert(slot) /\ faExcused' = faExcused \ {slot} /\ UNCHANGED faCall

(* memory.delete_fact                                                      *)
FaDelete(slot) ==
  /\ FaHas(faTable, slot) /\ FaRemove(slot)
  /\ faExcused' = faExcused \cup {s \in FaOpen : slot \in {s, FaResolution(s)} /\ ~FaHas(faTable', s)}
  /\ UNCHANGED faCall

(* closeFact and close_open_loop: the fact is deleted ...                  *)
FaClose(c, slot) ==
  /\ faCall[c] = FaNoSlot /\ slot \in FaOpen /\ FaRemove(slot)
  /\ \/ faCall' = [faCall EXCEPT ![c] = slot] /\ UNCHANGED faExcused
     \/ /\ FaHas(faTable, slot) /\ faExcused' = faExcused \cup {slot}  \* no resolution
        /\ UNCHANGED faCall

(* A plausible bug: the resolutions of all kinds share their keys.         *)
FaRecordPlain(c) ==
  /\ faCall[c] # FaNoSlot
  /\ FaUpsert(<<"decision", faCall[c][2]>>)
  /\ faCall' = [faCall EXCEPT ![c] = FaNoSlot] /\ UNCHANGED faExcused

(* ... and then its resolution is written, or the store fails.             *)
FaRecord(c) ==
  /\ faCall[c] # FaNoSlot
  /\ FaUpsert(FaResolution(faCall[c]))
  /\ faCall' = [faCall EXCEPT ![c] = FaNoSlot] /\ UNCHANGED faExcused

FaRecordFails(c) ==
  /\ faCall[c] # FaNoSlot /\ faCall' = [faCall EXCEPT ![c] = FaNoSlot]
  /\ faExcused' = faExcused \cup {s \in {faCall[c]} : ~FaHas(faTable, s)}
  /\ UNCHANGED <<faTable, faTurn, faTouched>>

-----------------------------------------------------------------------------
(* Rows of a set, ORDER BY updated_at DESC LIMIT n: those with fewer than  *)
(* n later ones, and the one sequence in which the latest comes first.     *)
FaLater(r, s) == \E i, j \in DOMAIN faTable : i > j /\ faTable[i] = r /\ faTable[j] = s

FaNewest(S, n) == {s \in S : FaHas(faTable, s) /\ Cardinality({r \in S : FaLater(r, s)}) < n}

FaInOrder(S) ==
  {q \in [1..Cardinality(S) -> S] : \A i, j \in DOMAIN q : i < j => FaLater(q[i], q[j])}

FaOfKind(kind) == {s \in FaSlots : s[1] = kind}

(* A plausible bug: facts are told apart by their keys only.               *)
FaNewKeys(list, found) == {s \in found : \A i \in DOMAIN list : list[i][2] # s[2]}

FaNew(list, found) == {s \in found : ~FaHas(list, s)}

(* The merge of collectConversationFacts: each fact once, up to the limit. *)
FaMerge(list, new) ==
  LET all == list \o new IN SubSeq(all, 1, IF Len(all) < FaLimit THEN Len(all) ELSE FaLimit)

(* collectConversationFacts: two searches, by the channel's name and by    *)
(* the message, which match any rows, and the newest facts of each kind.   *)
FaCollect(t) ==
  /\ faTurn[t] = FaRest /\ faTurn' = [faTurn EXCEPT ![t] = [at |-> "search", left |-> 2, list |-> <<>>]]
  /\ UNCHANGED <<faTable, faCall, faExcused, faTouched>>

FaGather(t, found, next) ==
  /\ \E new \in FaInOrder(FaNew(faTurn[t].list, found)) :
       faTurn' = [faTurn EXCEPT ![t] = [next EXCEPT !.list = FaMerge(faTurn[t].list, new)]]
  /\ UNCHANGED <<faTable, faCall, faExcused, faTouched>>

FaSearch(t) ==
  /\ faTurn[t].at = "search"
  /\ \E hits \in SUBSET ToSet(faTable) :
       FaGather(t, FaNewest(hits, FaLimit),
                IF faTurn[t].left = 2 THEN [faTurn[t] EXCEPT !.left = 1]
                ELSE [faTurn[t] EXCEPT !.at = "list", !.left = Len(FaListed)])

FaList(t) ==
  LET kind == FaListed[Len(FaListed) + 1 - faTurn[t].left] IN
  /\ faTurn[t].at = "list"
  /\ FaGather(t, FaNewest(FaOfKind(kind), FaPerKind),
              IF faTurn[t].left = 1 THEN [faTurn[t] EXCEPT !.at = "given", !.left = 0]
              ELSE [faTurn[t] EXCEPT !.left = @ - 1])

(* The turn uses the facts; after a failed query it goes on without any.   *)
FaEnd(t) ==
  /\ faTurn[t] # FaRest /\ faTurn' = [faTurn EXCEPT ![t] = FaRest]
  /\ faTouched' = [faTouched EXCEPT ![t] = {}]
  /\ UNCHANGED <<faTable, faCall, faExcused>>

FaNext ==
  \/ \E s \in FaSlots : FaWrite(s) \/ FaDelete(s)
  \/ \E c \in FaTools : FaRecord(c) \/ FaRecordFails(c) \/ \E s \in FaOpen : FaClose(c, s)
  \/ \E t \in FaTurns : FaCollect(t) \/ FaSearch(t) \/ FaList(t) \/ FaEnd(t)

FaSpec == FaInit /\ [][FaNext]_faVars

-----------------------------------------------------------------------------
FaTypeOK ==
  /\ faTable \in Seq(FaSlots) /\ \A i, j \in DOMAIN faTable : faTable[i] = faTable[j] => i = j
  /\ faCall \in [FaTools -> FaOpen \cup {FaNoSlot}] /\ faExcused \subseteq FaOpen
  /\ \A t \in FaTurns :
       /\ faTurn[t].at \in {"rest", "search", "list", "given"}
       /\ faTurn[t].list \in Seq(FaSlots) /\ faTouched[t] \subseteq FaKinds

(* An open promise, loop or other fact that is gone left its resolution    *)
(* among the decisions, unless it was deleted, closed without a word, or   *)
(* its close stopped between the delete and the write: nothing that other  *)
(* calls write, close or delete under the same key takes the trace away.   *)
FaGoneIsTraced ==
  \A s \in FaOpen \ faExcused :
    FaHas(faTable, s) \/ FaHas(faTable, FaResolution(s)) \/ \E c \in FaTools : faCall[c] = s

(* The facts a turn is given name no fact twice, and a kind that nobody    *)
(* wrote meanwhile has its newest facts among them unless the list is      *)
(* full: a close or a write between the queries hides no other fact.       *)
FaContextWhole ==
  \A t \in FaTurns : faTurn[t].at = "given" =>
    LET list == faTurn[t].list IN
    /\ Len(list) <= FaLimit /\ IsInjective(list)
    /\ \A k \in FaKinds \ faTouched[t] :
         Len(list) < FaLimit => FaNewest(FaOfKind(k), FaPerKind) \subseteq ToSet(list)
=============================================================================
