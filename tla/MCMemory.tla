------------------------------ MODULE MCMemory ------------------------------
(* Facts, presence and the guild's channels share no state that their       *)
(* modules keep, so one run explores each by itself: a behaviour picks one. *)
EXTENDS FactStore, PresenceWake, GuildSpaces, TLC

VARIABLE part

G(s, a, e, p, t, v) == [space |-> s, archive |-> a, edit |-> e, profile |-> p, speak |-> t, survey |-> v]
N(t) == [stem |-> t, upper |-> FALSE, prefixes |-> 0]

(* Overlapping calls that create, with a rename; a call that creates and    *)
(* one that archives; two that archive; profiles; a survey of talk in a     *)
(* channel that is renamed; a survey while a call creates.                  *)
Errands == {G(2, 0, 1, 0, 0, 0), G(1, 1, 1, 0, 0, 0), G(0, 2, 1, 0, 0, 0), G(0, 0, 0, 3, 2, 0), G(0, 0, 1, 0, 4, 1), G(1, 0, 1, 0, 1, 1)}

Begin == <<[kind |-> "category", name |-> N("a"), parent |-> 0],
           [kind |-> "voice", name |-> N("v"), parent |-> 1],
           [kind |-> "text", name |-> N("t"), parent |-> 0],
           [kind |-> "text", name |-> N("u"), parent |-> 0]>>

Same == Permutations(FaTools)

(* Closes overlap while nobody collects; one runs at a time during a turn.  *)
OneCloses == Cardinality({c \in FaTools : faCall[c] # FaNoSlot}) <= 1

MemoryInit ==
  /\ part \in {"facts", "context", "presence", "guild"}
  /\ FaInit
  /\ PwInit /\ (part # "presence" => pwTalked)
  /\ GsInit /\ (part # "guild" => gsLeft = G(0, 0, 1, 0, 4, 1))

MemoryNext ==
  \/ part = "facts" /\ FaNext /\ UNCHANGED faTurn /\ UNCHANGED <<pwVars, gsVars, part>>
  \/ part = "context" /\ FaNext /\ OneCloses' /\ UNCHANGED <<pwVars, gsVars, part>>
  \/ part = "presence" /\ PwNext /\ UNCHANGED <<faVars, gsVars, part>>
  \/ part = "guild" /\ GsNext /\ UNCHANGED <<faVars, pwVars, part>>

MemorySpec == MemoryInit /\ [][MemoryNext]_<<faVars, pwVars, gsVars, part>>

MemoryTypeOK == FaTypeOK /\ PwTypeOK /\ GsTypeOK
=============================================================================
