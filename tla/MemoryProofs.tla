---------------------------- MODULE MemoryProofs ----------------------------
(***************************************************************************)
(* Proofs about the facts, presence and the guild: each has an inductive   *)
(* invariant, the steps that keep it, and the theorems of its              *)
(* specification.  The three share nothing but this module.                *)
(***************************************************************************)
EXTENDS MCMemory, TLAPS, SequenceTheorems, FiniteSetTheorems

-----------------------------------------------------------------------------
(* Facts.  The inductive invariant FaInv.                                  *)

\* The rows are of known kinds and keys, each once; a close that is under way is of an open
\* fact.
FactTypes ==
  /\ faTable \in Seq(FaSlots) /\ IsInjective(faTable)
  /\ faCall \in [FaTools -> FaOpen \cup {FaNoSlot}] /\ faExcused \subseteq FaOpen

\* Collections as records.
TurnTypes ==
  /\ faTurn \in [FaTurns -> [at : {"rest", "search", "list", "given"}, left : Nat, list : Seq(FaSlots)]]
  /\ faTouched \in [FaTurns -> SUBSET FaKinds]

\* collectConversationFacts: a kind that was listed, and that nobody wrote since, has its
\* newest facts in the list, unless the list is full.
ListWhole(turn, touched) ==
  /\ Len(turn.list) <= FaLimit /\ IsInjective(turn.list)
  /\ turn.at = "search" => turn.left \in 1..2
  /\ turn.at = "list" => turn.left \in 1..Len(FaListed)
  /\ \A n \in 1..Len(FaListed) :
       /\ turn.at = "given" \/ (turn.at = "list" /\ n <= Len(FaListed) - turn.left)
       /\ FaListed[n] \in FaKinds \ touched /\ Len(turn.list) < FaLimit
       => FaNewest(FaOfKind(FaListed[n]), FaPerKind) \subseteq ToSet(turn.list)

TurnsWhole == \A t \in FaTurns : ListWhole(faTurn[t], faTouched[t])

\* The invariant.
FaInv == FactTypes /\ FaGoneIsTraced /\ TurnTypes /\ TurnsWhole

\* What a table holds once a row is put into it.
LEMMA Inserted ==
  ASSUME NEW S, NEW t \in Seq(S), NEW i \in 1..Len(t) + 1, NEW x \in S
  PROVE  /\ InsertAt(t, i, x) \in Seq(S) /\ Len(InsertAt(t, i, x)) = Len(t) + 1
         /\ \A k \in 1..Len(t) + 1 :
              InsertAt(t, i, x)[k] = IF k < i THEN t[k] ELSE IF k = i THEN x ELSE t[k - 1]
<1> DEFINE before == SubSeq(t, 1, i - 1)
           after == SubSeq(t, i, Len(t))
<1>1. /\ before \in Seq(S) /\ Len(before) = i - 1
      /\ \A k \in 1..i - 1 : before[k] = t[k]
  BY SubSeqProperties
<1>2. /\ after \in Seq(S) /\ Len(after) = Len(t) + 1 - i
      /\ \A k \in 1..Len(t) + 1 - i : after[k] = t[i + k - 1]
  BY SubSeqProperties
<1>3. PICK b \in Seq(S), a \in Seq(S) : b = before /\ a = after
  BY <1>1, <1>2
<1>4. InsertAt(t, i, x) = b \o <<x>> \o a
  BY <1>3 DEF InsertAt
<1>5. b \o <<x>> \in Seq(S) /\ Len(b \o <<x>>) = i /\ \A k \in 1..i : (b \o <<x>>)[k] = IF k < i THEN b[k] ELSE x
  BY <1>1, <1>3
<1>6. PICK c \in Seq(S) : c = b \o <<x>>
  BY <1>5
<1>7. PICK m \in Nat : m = Len(t)
  OBVIOUS
<1>8. /\ i \in 1..m + 1 /\ Len(b) = i - 1 /\ \A k \in 1..i - 1 : b[k] = t[k]
      /\ Len(a) = m + 1 - i /\ \A k \in 1..m + 1 - i : a[k] = t[i + k - 1]
      /\ Len(c) = i /\ c[i] = x /\ \A k \in 1..i - 1 : c[k] = b[k]
  BY <1>1, <1>2, <1>3, <1>5, <1>6, <1>7
<1>9. /\ c \o a \in Seq(S) /\ Len(c \o a) = Len(c) + Len(a)
      /\ \A k \in 1..Len(c) + Len(a) : (c \o a)[k] = IF k <= Len(c) THEN c[k] ELSE a[k - Len(c)]
  BY ConcatProperties
<1>10. Len(c) + Len(a) = m + 1
  BY <1>8
<1>11. ASSUME NEW k \in 1..m + 1
       PROVE  (c \o a)[k] = IF k < i THEN t[k] ELSE IF k = i THEN x ELSE t[k - 1]
  <2>1. (c \o a)[k] = IF k <= i THEN c[k] ELSE a[k - i]
    BY <1>8, <1>9, <1>10
  <2>2. CASE k < i
    <3>1. k \in 1..i - 1 /\ k <= i
      BY <1>8, <2>2
    <3> QED
      BY <1>8, <2>1, <2>2, <3>1
  <2>3. CASE k = i BY <1>8, <2>1, <2>3
  <2>4. CASE k > i
    <3>1. k - i \in 1..m + 1 - i /\ i + (k - i) - 1 = k - 1 /\ ~(k <= i) /\ ~(k < i) /\ k # i
      BY <1>8, <2>4
    <3>2. a[k - i] = t[k - 1]
      BY <1>8, <3>1
    <3> QED
      BY <2>1, <3>1, <3>2
  <2> QED
    BY <1>8, <2>2, <2>3, <2>4
<1> QED
  BY <1>4, <1>6, <1>7, <1>9, <1>10, <1>11

\* What a table holds once a row is taken out of it.
LEMMA Removed ==
  ASSUME NEW S, NEW t \in Seq(S), NEW i \in 1..Len(t)
  PROVE  /\ RemoveAt(t, i) \in Seq(S) /\ Len(RemoveAt(t, i)) = Len(t) - 1
         /\ \A k \in 1..Len(t) - 1 : RemoveAt(t, i)[k] = IF k < i THEN t[k] ELSE t[k + 1]
<1> DEFINE before == SubSeq(t, 1, i - 1)
           after == SubSeq(t, i + 1, Len(t))
<1>1. /\ before \in Seq(S) /\ Len(before) = i - 1
      /\ \A k \in 1..i - 1 : before[k] = t[k]
  BY SubSeqProperties
<1>2. /\ after \in Seq(S) /\ Len(after) = Len(t) - i
      /\ \A k \in 1..Len(t) - i : after[k] = t[i + k]
  BY SubSeqProperties
<1>3. PICK b \in Seq(S), a \in Seq(S) : b = before /\ a = after
  BY <1>1, <1>2
<1>4. RemoveAt(t, i) = b \o a
  BY <1>3 DEF RemoveAt
<1>5. PICK m \in Nat : m = Len(t)
  OBVIOUS
<1>6. /\ i \in 1..m /\ Len(b) = i - 1 /\ \A k \in 1..i - 1 : b[k] = t[k]
      /\ Len(a) = m - i /\ \A k \in 1..m - i : a[k] = t[i + k]
  BY <1>1, <1>2, <1>3, <1>5
<1>7. /\ b \o a \in Seq(S) /\ Len(b \o a) = Len(b) + Len(a)
      /\ \A k \in 1..Len(b) + Len(a) : (b \o a)[k] = IF k <= Len(b) THEN b[k] ELSE a[k - Len(b)]
  BY ConcatProperties
<1>8. Len(b) + Len(a) = m - 1
  BY <1>6
<1>9. ASSUME NEW k \in 1..m - 1
      PROVE  (b \o a)[k] = IF k < i THEN t[k] ELSE t[k + 1]
  <2>1. (b \o a)[k] = IF k <= i - 1 THEN b[k] ELSE a[k - (i - 1)]
    BY <1>6, <1>7, <1>8
  <2>2. CASE k < i
    <3>1. k \in 1..i - 1 /\ k <= i - 1
      BY <1>6, <2>2
    <3> QED
      BY <1>6, <2>1, <2>2, <3>1
  <2>3. CASE k >= i
    <3>1. k - (i - 1) \in 1..m - i /\ i + (k - (i - 1)) = k + 1 /\ ~(k <= i - 1) /\ ~(k < i)
      BY <1>6, <2>3
    <3>2. a[k - (i - 1)] = t[k + 1]
      BY <1>6, <3>1
    <3> QED
      BY <2>1, <3>1, <3>2
  <2> QED
    BY <1>6, <2>2, <2>3
<1> QED
  BY <1>4, <1>5, <1>7, <1>8, <1>9

\* FaWithout: the table without a row holds the others, each once.
LEMMA Without ==
  ASSUME FactTypes, NEW slot
  PROVE  /\ FaWithout(slot) \in Seq(FaSlots) /\ IsInjective(FaWithout(slot))
         /\ \A x : FaHas(FaWithout(slot), x) <=> FaHas(faTable, x) /\ x # slot
<1>1. CASE ~FaHas(faTable, slot) BY <1>1 DEF FaWithout, FactTypes, FaHas
<1>2. CASE FaHas(faTable, slot)
  <2>1. PICK n : n = CHOOSE i \in DOMAIN faTable : faTable[i] = slot
    OBVIOUS
  <2>2. n \in DOMAIN faTable /\ faTable[n] = slot
    BY <1>2, <2>1 DEF FaHas
  <2>3. PICK t \in Seq(FaSlots) : t = faTable
    BY DEF FactTypes
  <2>4. n \in 1..Len(t) /\ t[n] = slot /\ \A i, j \in 1..Len(t) : t[i] = t[j] => i = j
    BY <2>2, <2>3 DEF FactTypes, IsInjective
  <2>5. PICK u : u = RemoveAt(t, n)
    OBVIOUS
  <2>6. /\ u \in Seq(FaSlots) /\ Len(u) = Len(t) - 1
        /\ \A k \in 1..Len(t) - 1 : u[k] = IF k < n THEN t[k] ELSE t[k + 1]
    BY <2>4, <2>5, Removed
  <2>7. Len(t) \in Nat /\ DOMAIN u = 1..Len(t) - 1 /\ DOMAIN t = 1..Len(t)
    BY <2>6
  <2>8. IsInjective(u)
    <3>1. ASSUME NEW i \in 1..Len(t) - 1, NEW j \in 1..Len(t) - 1, u[i] = u[j] PROVE i = j
      BY <2>4, <2>6, <2>7, <3>1
    <3> QED
      BY <2>7, <3>1 DEF IsInjective
  <2>9. ASSUME NEW x PROVE FaHas(u, x) <=> FaHas(t, x) /\ x # slot
    <3>1. ASSUME NEW k \in 1..Len(t) - 1, u[k] = x PROVE FaHas(t, x) /\ x # slot
      <4>1. PICK m \in 1..Len(t) : m # n /\ u[k] = t[m]
        <5>1. CASE k < n BY <2>4, <2>6, <2>7, <5>1
        <5>2. CASE k >= n BY <2>4, <2>6, <2>7, <5>2
        <5> QED
          BY <2>4, <2>7, <5>1, <5>2
      <4> QED
        BY <2>4, <2>7, <3>1, <4>1 DEF FaHas
    <3>2. ASSUME NEW m \in 1..Len(t), t[m] = x, x # slot PROVE FaHas(u, x)
      <4>1. m # n
        BY <2>4, <3>2
      <4>2. CASE m < n
        <5>1. m \in 1..Len(t) - 1 /\ u[m] = t[m]
          BY <2>4, <2>6, <2>7, <4>2
        <5> QED
          BY <2>7, <3>2, <5>1 DEF FaHas
      <4>3. CASE m > n
        <5>1. m - 1 \in 1..Len(t) - 1 /\ u[m - 1] = t[(m - 1) + 1] /\ (m - 1) + 1 = m
          BY <2>4, <2>6, <2>7, <4>3
        <5> QED
          BY <2>7, <3>2, <5>1 DEF FaHas
      <4> QED
        BY <2>4, <2>7, <4>1, <4>2, <4>3
    <3> QED
      BY <2>7, <3>1, <3>2 DEF FaHas
  <2> QED
    BY <1>2, <2>1, <2>3, <2>5, <2>6, <2>8, <2>9 DEF FaWithout
<1> QED
  BY <1>1, <1>2

\* FaUpsert: the row is there, once, and so are the others.
LEMMA Upserted ==
  ASSUME FactTypes, NEW slot \in FaSlots, FaUpsert(slot)
  PROVE  /\ faTable' \in Seq(FaSlots) /\ IsInjective(faTable')
         /\ \A x : FaHas(faTable', x) <=> FaHas(faTable, x) \/ x = slot
<1>1. PICK t \in Seq(FaSlots) : t = FaWithout(slot)
  BY Without
<1>2. IsInjective(t) /\ \A x : FaHas(t, x) <=> FaHas(faTable, x) /\ x # slot
  BY <1>1, Without
<1>3. PICK i \in 1..Len(t) + 1 : faTable' = InsertAt(t, i, slot)
  BY <1>1 DEF FaUpsert
<1>4. PICK u : u = InsertAt(t, i, slot)
  OBVIOUS
<1>5. /\ u \in Seq(FaSlots) /\ Len(u) = Len(t) + 1
      /\ \A k \in 1..Len(t) + 1 : u[k] = IF k < i THEN t[k] ELSE IF k = i THEN slot ELSE t[k - 1]
  BY <1>4, Inserted, SMTT(20)
<1>6. Len(t) \in Nat /\ DOMAIN u = 1..Len(t) + 1 /\ DOMAIN t = 1..Len(t)
  BY <1>5
<1>7. \A k \in 1..Len(t) : t[k] # slot
  BY <1>2, <1>6 DEF FaHas
<1>8. \A k, m \in 1..Len(t) : t[k] = t[m] => k = m
  BY <1>2, <1>6 DEF IsInjective
<1>9. \A k \in 1..Len(t) + 1 : k # i => \E m \in 1..Len(t) : m = (IF k < i THEN k ELSE k - 1) /\ u[k] = t[m]
  BY <1>5, <1>6
<1>10. u[i] = slot
  BY <1>5
<1>11. ASSUME NEW k \in 1..Len(t) + 1, NEW m \in 1..Len(t) + 1, u[k] = u[m] PROVE k = m
  <2>1. k = i <=> m = i
    BY <1>7, <1>9, <1>10, <1>11
  <2>2. CASE k # i
    <3>1. PICK p \in 1..Len(t) : p = (IF k < i THEN k ELSE k - 1) /\ u[k] = t[p]
      BY <1>9, <2>2
    <3>2. PICK q \in 1..Len(t) : q = (IF m < i THEN m ELSE m - 1) /\ u[m] = t[q]
      BY <1>9, <2>1, <2>2
    <3>3. p = q
      BY <1>8, <1>11, <3>1, <3>2
    <3> QED
      BY <1>6, <2>1, <2>2, <3>1, <3>2, <3>3
  <2> QED
    BY <2>1, <2>2
<1>12. ASSUME NEW x PROVE FaHas(u, x) <=> FaHas(t, x) \/ x = slot
  <2>1. FaHas(u, x) => FaHas(t, x) \/ x = slot
    BY <1>6, <1>9, <1>10 DEF FaHas
  <2>2. x = slot => FaHas(u, x)
    BY <1>6, <1>10 DEF FaHas
  <2>3. ASSUME NEW m \in 1..Len(t), t[m] = x PROVE FaHas(u, x)
    <3>1. CASE m < i
      <4>1. m \in 1..Len(t) + 1 /\ u[m] = t[m]
        BY <1>5, <1>6, <3>1
      <4> QED
        BY <1>6, <2>3, <4>1 DEF FaHas
    <3>2. CASE m >= i
      <4>1. m + 1 \in 1..Len(t) + 1 /\ u[m + 1] = t[(m + 1) - 1] /\ (m + 1) - 1 = m
        BY <1>5, <1>6, <3>2
      <4> QED
        BY <1>6, <2>3, <4>1 DEF FaHas
    <3> QED
      BY <1>6, <3>1, <3>2
  <2> QED
    BY <1>6, <2>1, <2>2, <2>3 DEF FaHas
<1> QED
  BY <1>2, <1>3, <1>4, <1>5, <1>6, <1>11, <1>12 DEF IsInjective

\* Resolutions and what is not there yet are no open facts.
LEMMA SlotsApart ==
  /\ FaNoSlot \notin FaOpen
  /\ \A s \in FaOpen : FaResolution(s) \notin FaOpen /\ FaResolution(s) \in FaSlots /\ s \in FaSlots
<1>1. "none" \notin FaOpenKinds /\ "decision" \notin FaOpenKinds
  BY FaAssumption DEF FaPrefix
<1>2. \A s \in FaOpen : s[1] \in FaOpenKinds
  BY DEF FaOpen
<1>3. FaNoSlot[1] = "none" /\ \A s : FaResolution(s)[1] = "decision"
  BY DEF FaNoSlot, FaResolution
<1> QED
  BY <1>1, <1>2, <1>3 DEF FaSlots

\* Every step keeps the types of the facts.
LEMMA FactsStep ==
  ASSUME FactTypes, [FaNext]_faVars
  PROVE  FactTypes'
<1>1. ASSUME NEW s \in FaSlots, FaUpsert(s)
      PROVE faTable' \in Seq(FaSlots) /\ IsInjective(faTable')
  BY <1>1, Upserted
<1>2. ASSUME NEW s, FaRemove(s) PROVE faTable' \in Seq(FaSlots) /\ IsInjective(faTable')
  BY <1>2, Without DEF FaRemove
<1>3. ASSUME NEW s \in FaSlots, FaWrite(s) \/ FaDelete(s) PROVE FactTypes'
  BY <1>1, <1>2, <1>3 DEF FaWrite, FaDelete, FactTypes
<1>4. ASSUME NEW c \in FaTools, NEW s \in FaOpen, FaClose(c, s) PROVE FactTypes'
  BY <1>2, <1>4 DEF FaClose, FactTypes
<1>5. ASSUME NEW c \in FaTools, FaRecord(c) PROVE FactTypes'
  <2>1. FaResolution(faCall[c]) \in FaSlots
    BY <1>5, SlotsApart DEF FaRecord, FactTypes
  <2> QED
    BY <1>1, <1>5, <2>1 DEF FaRecord, FactTypes
<1>6. ASSUME NEW c \in FaTools, FaRecordFails(c) PROVE FactTypes'
  BY <1>6 DEF FaRecordFails, FactTypes
<1>7. ASSUME NEW t \in FaTurns, FaCollect(t) \/ FaSearch(t) \/ FaList(t) \/ FaEnd(t)
      PROVE  UNCHANGED <<faTable, faCall, faExcused>>
  BY <1>7, Zenon DEF FaCollect, FaSearch, FaList, FaGather, FaEnd
<1>8. UNCHANGED <<faTable, faCall, faExcused>> => FactTypes'
  BY DEF FactTypes
<1> QED
  BY <1>3, <1>4, <1>5, <1>6, <1>7, <1>8 DEF FaNext, faVars

\* closeFact and memory.delete_fact: every step keeps the trace of what is gone.
LEMMA TracesStep ==
  ASSUME FactTypes, FaGoneIsTraced, [FaNext]_faVars
  PROVE  FaGoneIsTraced'
<1> DEFINE Traced(s) == FaHas(faTable, s) \/ FaHas(faTable, FaResolution(s)) \/ \E c \in FaTools : faCall[c] = s
<1>1. \A s \in FaOpen \ faExcused : Traced(s)
  BY DEF FaGoneIsTraced
<1>2. ASSUME NEW slot, FaRemove(slot)
      PROVE  \A x : FaHas(faTable', x) <=> FaHas(faTable, x) /\ x # slot
  BY <1>2, Without DEF FaRemove
<1>3. ASSUME NEW slot \in FaSlots, FaWrite(slot) PROVE FaGoneIsTraced'
  <2>1. \A x : FaHas(faTable', x) <=> FaHas(faTable, x) \/ x = slot
    BY <1>3, Upserted DEF FaWrite
  <2> QED
    BY <1>1, <1>3, <2>1 DEF FaWrite, FaGoneIsTraced
<1>4. ASSUME NEW slot \in FaSlots, FaDelete(slot) PROVE FaGoneIsTraced'
  <2>1. \A x : FaHas(faTable', x) <=> FaHas(faTable, x) /\ x # slot
    BY <1>2, <1>4 DEF FaDelete
  <2> QED
    BY <1>1, <1>4, <2>1 DEF FaDelete, FaGoneIsTraced
<1>5. ASSUME NEW c \in FaTools, NEW slot \in FaOpen, FaClose(c, slot) PROVE FaGoneIsTraced'
  <2>1. \A x : FaHas(faTable', x) <=> FaHas(faTable, x) /\ x # slot
    BY <1>2, <1>5 DEF FaClose
  <2>2. \A s \in FaOpen : FaResolution(s) # slot
    BY SlotsApart
  <2>3. CASE faCall' = [faCall EXCEPT ![c] = slot] /\ UNCHANGED faExcused
    <3>1. \A s \in FaOpen : (\E d \in FaTools : faCall[d] = s) => \E d \in FaTools : faCall'[d] = s
      BY <1>5, <2>3, SlotsApart DEF FaClose, FactTypes
    <3>2. faCall'[c] = slot
      BY <2>3 DEF FactTypes
    <3> QED
      BY <1>1, <2>1, <2>2, <2>3, <3>1, <3>2 DEF FaGoneIsTraced
  <2>4. CASE faExcused' = faExcused \cup {slot} /\ UNCHANGED faCall
    BY <1>1, <2>1, <2>2, <2>4 DEF FaGoneIsTraced
  <2> QED
    BY <1>5, <2>3, <2>4 DEF FaClose
<1>6. ASSUME NEW c \in FaTools, FaRecord(c) PROVE FaGoneIsTraced'
  <2>1. FaResolution(faCall[c]) \in FaSlots
    BY <1>6, SlotsApart DEF FaRecord, FactTypes
  <2>2. \A x : FaHas(faTable', x) <=> FaHas(faTable, x) \/ x = FaResolution(faCall[c])
    BY <1>6, <2>1, Upserted DEF FaRecord
  <2>3. \A d \in FaTools : d # c => faCall'[d] = faCall[d]
    BY <1>6 DEF FaRecord, FactTypes
  <2>4. faExcused' = faExcused
    BY <1>6 DEF FaRecord
  <2>5. ASSUME NEW s \in FaOpen \ faExcused' PROVE Traced(s)'
    <3>1. Traced(s)
      BY <1>1, <2>4
    <3>2. CASE faCall[c] = s BY <2>2, <3>2
    <3>3. CASE faCall[c] # s BY <2>2, <2>3, <3>1, <3>3
    <3> QED
      BY <3>2, <3>3
  <2> QED
    BY <2>5 DEF FaGoneIsTraced
<1>7. ASSUME NEW c \in FaTools, FaRecordFails(c) PROVE FaGoneIsTraced'
  <2>1. \A d \in FaTools : d # c => faCall'[d] = faCall[d]
    BY <1>7 DEF FaRecordFails, FactTypes
  <2>2. /\ faTable' = faTable
        /\ faExcused' = faExcused \cup {s \in {faCall[c]} : ~FaHas(faTable, s)}
    BY <1>7 DEF FaRecordFails
  <2>3. ASSUME NEW s \in FaOpen \ faExcused' PROVE Traced(s)'
    <3>1. Traced(s)
      BY <1>1, <2>2
    <3>2. CASE faCall[c] = s BY <2>2, <2>3, <3>2
    <3>3. CASE faCall[c] # s BY <2>1, <2>2, <3>1, <3>3
    <3> QED
      BY <3>2, <3>3
  <2> QED
    BY <2>3 DEF FaGoneIsTraced
<1>8. ASSUME NEW t \in FaTurns, FaCollect(t) \/ FaSearch(t) \/ FaList(t) \/ FaEnd(t)
      PROVE  UNCHANGED <<faTable, faCall, faExcused>>
  BY <1>8, Zenon DEF FaCollect, FaSearch, FaList, FaGather, FaEnd
<1>9. UNCHANGED <<faTable, faCall, faExcused>> => FaGoneIsTraced'
  BY <1>1 DEF FaGoneIsTraced
<1> QED
  BY <1>3, <1>4, <1>5, <1>6, <1>7, <1>8, <1>9 DEF FaNext, faVars

-----------------------------------------------------------------------------
(* The facts a turn is given.                                              *)

\* FaLater of any list; rows that are put in or taken out leave the order of the others.
Later(t, r, s) == \E i, j \in DOMAIN t : i > j /\ t[i] = r /\ t[j] = s

\* A row that is put in.
LEMMA LaterInserted ==
  ASSUME NEW S, NEW t \in Seq(S), NEW i \in 1..Len(t) + 1, NEW x \in S, NEW r, NEW s, r # x, s # x
  PROVE  Later(InsertAt(t, i, x), r, s) <=> Later(t, r, s)
<1>1. PICK u : u = InsertAt(t, i, x)
  OBVIOUS
<1>2. PICK m \in Nat : m = Len(t)
  OBVIOUS
<1>3. /\ DOMAIN u = 1..m + 1 /\ DOMAIN t = 1..m /\ i \in 1..m + 1
      /\ \A k \in 1..m + 1 : u[k] = IF k < i THEN t[k] ELSE IF k = i THEN x ELSE t[k - 1]
  <2>1. /\ u \in Seq(S) /\ Len(u) = Len(t) + 1
        /\ \A k \in 1..Len(t) + 1 : u[k] = IF k < i THEN t[k] ELSE IF k = i THEN x ELSE t[k - 1]
    <3>1. /\ InsertAt(t, i, x) \in Seq(S) /\ Len(InsertAt(t, i, x)) = Len(t) + 1
          /\ \A k \in 1..Len(t) + 1 :
               InsertAt(t, i, x)[k] = IF k < i THEN t[k] ELSE IF k = i THEN x ELSE t[k - 1]
      BY Inserted
    <3> QED
      BY <1>1, <3>1
  <2> QED
    BY <1>2, <2>1
<1>4. ASSUME NEW a \in 1..m + 1, NEW b \in 1..m + 1, a > b, u[a] = r, u[b] = s
      PROVE  Later(t, r, s)
  <2>1. a # i /\ b # i
    BY <1>3, <1>4
  <2>2. PICK c \in 1..m, d \in 1..m :
          /\ c = (IF a < i THEN a ELSE a - 1) /\ u[a] = t[c]
          /\ d = (IF b < i THEN b ELSE b - 1) /\ u[b] = t[d]
    BY <1>2, <1>3, <1>4, <2>1
  <2>3. c > d
    BY <1>2, <1>3, <1>4, <2>1, <2>2
  <2> QED
    BY <1>3, <1>4, <2>2, <2>3 DEF Later
<1>5. ASSUME NEW a \in 1..m, NEW b \in 1..m, a > b, t[a] = r, t[b] = s
      PROVE  Later(u, r, s)
  <2>1. ASSUME NEW k \in 1..m
        PROVE  \E c \in 1..m + 1 : c = (IF k < i THEN k ELSE k + 1) /\ u[c] = t[k]
    <3>1. CASE k < i BY <1>2, <1>3, <3>1
    <3>2. CASE k >= i
      <4>1. k + 1 \in 1..m + 1 /\ ~(k + 1 < i) /\ k + 1 # i /\ (k + 1) - 1 = k /\ ~(k < i)
        BY <1>2, <1>3, <3>2
      <4> QED
        BY <1>3, <4>1
    <3> QED
      BY <1>2, <1>3, <3>1, <3>2
  <2>2. PICK c \in 1..m + 1 : c = (IF a < i THEN a ELSE a + 1) /\ u[c] = t[a]
    BY <2>1
  <2>3. PICK d \in 1..m + 1 : d = (IF b < i THEN b ELSE b + 1) /\ u[d] = t[b]
    BY <2>1
  <2>4. c > d
    BY <1>2, <1>3, <1>5, <2>2, <2>3
  <2> QED
    BY <1>3, <1>5, <2>2, <2>3, <2>4 DEF Later
<1> QED
  BY <1>1, <1>3, <1>4, <1>5 DEF Later

\* A row that is taken out.
LEMMA LaterRemoved ==
  ASSUME NEW S, NEW t \in Seq(S), NEW i \in 1..Len(t), NEW r, NEW s, r # t[i], s # t[i]
  PROVE  Later(RemoveAt(t, i), r, s) <=> Later(t, r, s)
<1>1. PICK u : u = RemoveAt(t, i)
  OBVIOUS
<1>2. PICK m \in Nat : m = Len(t)
  OBVIOUS
<1>3. /\ DOMAIN u = 1..m - 1 /\ DOMAIN t = 1..m /\ i \in 1..m
      /\ \A k \in 1..m - 1 : u[k] = IF k < i THEN t[k] ELSE t[k + 1]
  BY <1>1, <1>2, Removed
<1>4. ASSUME NEW a \in 1..m - 1, NEW b \in 1..m - 1, a > b, u[a] = r, u[b] = s
      PROVE  Later(t, r, s)
  <2>1. PICK c \in 1..m, d \in 1..m :
          /\ c = (IF a < i THEN a ELSE a + 1) /\ u[a] = t[c]
          /\ d = (IF b < i THEN b ELSE b + 1) /\ u[b] = t[d]
    BY <1>2, <1>3, <1>4
  <2>2. c > d
    BY <1>2, <1>3, <1>4, <2>1
  <2> QED
    BY <1>3, <1>4, <2>1, <2>2 DEF Later
<1>5. ASSUME NEW a \in 1..m, NEW b \in 1..m, a > b, t[a] = r, t[b] = s
      PROVE  Later(u, r, s)
  <2>1. ASSUME NEW k \in 1..m, k # i
        PROVE  \E c \in 1..m - 1 : c = (IF k < i THEN k ELSE k - 1) /\ u[c] = t[k]
    <3>1. CASE k < i BY <1>2, <1>3, <3>1
    <3>2. CASE k > i
      <4>1. k - 1 \in 1..m - 1 /\ ~(k - 1 < i) /\ (k - 1) + 1 = k /\ ~(k < i)
        BY <1>2, <1>3, <3>2
      <4> QED
        BY <1>3, <4>1
    <3> QED
      BY <1>2, <1>3, <2>1, <3>1, <3>2
  <2>2. a # i /\ b # i
    BY <1>5
  <2>3. PICK c \in 1..m - 1 : c = (IF a < i THEN a ELSE a - 1) /\ u[c] = t[a]
    BY <2>1, <2>2
  <2>4. PICK d \in 1..m - 1 : d = (IF b < i THEN b ELSE b - 1) /\ u[d] = t[b]
    BY <2>1, <2>2
  <2>5. c > d
    BY <1>2, <1>3, <1>5, <2>2, <2>3, <2>4
  <2> QED
    BY <1>3, <1>5, <2>3, <2>4, <2>5 DEF Later
<1> QED
  BY <1>1, <1>3, <1>4, <1>5 DEF Later

\* UpsertFact and DeleteFact leave the other rows as they were, and in their order.
LEMMA OrderKept ==
  ASSUME FactTypes, NEW slot \in FaSlots, FaUpsert(slot) \/ FaRemove(slot),
         NEW r, NEW s, r # slot, s # slot
  PROVE  FaLater(r, s)' <=> FaLater(r, s)
<1>1. Later(FaWithout(slot), r, s) <=> Later(faTable, r, s)
  <2>1. CASE ~FaHas(faTable, slot) BY <2>1 DEF FaWithout
  <2>2. CASE FaHas(faTable, slot)
    <3>1. PICK n : n = CHOOSE i \in DOMAIN faTable : faTable[i] = slot
      OBVIOUS
    <3>2. n \in DOMAIN faTable /\ faTable[n] = slot
      BY <2>2, <3>1 DEF FaHas
    <3>3. n \in 1..Len(faTable)
      BY <3>2 DEF FactTypes
    <3>4. Later(RemoveAt(faTable, n), r, s) <=> Later(faTable, r, s)
      BY <3>2, <3>3, LaterRemoved DEF FactTypes
    <3> QED
      BY <2>2, <3>1, <3>4 DEF FaWithout
  <2> QED
    BY <2>1, <2>2
<1>2. Later(faTable', r, s) <=> Later(FaWithout(slot), r, s)
  <2>1. CASE FaRemove(slot) BY <2>1 DEF FaRemove
  <2>2. CASE FaUpsert(slot)
    <3>1. PICK t \in Seq(FaSlots) : t = FaWithout(slot)
      BY Without
    <3>2. PICK i \in 1..Len(t) + 1 : faTable' = InsertAt(t, i, slot)
      BY <2>2, <3>1 DEF FaUpsert
    <3> QED
      BY <3>1, <3>2, LaterInserted
  <2> QED
    BY <2>1, <2>2
<1> QED
  BY <1>1, <1>2 DEF Later, FaLater

\* A write of one kind leaves the newest facts of another.
LEMMA NewestKept ==
  ASSUME FactTypes, NEW slot \in FaSlots, FaUpsert(slot) \/ FaRemove(slot),
         NEW kind, kind # slot[1], NEW n
  PROVE  FaNewest(FaOfKind(kind), n)' = FaNewest(FaOfKind(kind), n)
<1> DEFINE S == FaOfKind(kind)
<1>1. slot \notin S
  BY DEF FaOfKind
<1>2. ASSUME NEW s \in S PROVE FaHas(faTable', s) <=> FaHas(faTable, s)
  BY <1>1, <1>2, Upserted, Without DEF FaRemove
<1>3. ASSUME NEW s \in S PROVE {r \in S : FaLater(r, s)'} = {r \in S : FaLater(r, s)}
  BY <1>1, <1>3, OrderKept
<1> DEFINE Now(s) == FaHas(faTable, s) /\ Cardinality({r \in S : FaLater(r, s)}) < n
           Then(s) == FaHas(faTable', s) /\ Cardinality({r \in S : FaLater(r, s)'}) < n
<1>4. /\ FaNewest(FaOfKind(kind), n)' = {s \in S : Then(s)}
      /\ FaNewest(FaOfKind(kind), n) = {s \in S : Now(s)}
  BY DEF FaNewest, FaOfKind
<1>5. \A s \in S : Then(s) <=> Now(s)
  BY <1>2, <1>3
<1> HIDE DEF S, Now, Then
<1> QED
  BY <1>4, <1>5

\* The rows are finite.
LEMMA RowsFinite ==
  ASSUME FactTypes, NEW S, \A s \in S : FaHas(faTable, s)
  PROVE  IsFiniteSet(S)
<1>1. PICK rows : rows = {faTable[i] : i \in DOMAIN faTable}
  OBVIOUS
<1>2. PICK f : f = [i \in 1..Len(faTable) |-> faTable[i]]
  OBVIOUS
<1>3. DOMAIN faTable = 1..Len(faTable) /\ Len(faTable) \in Nat
  BY DEF FactTypes
<1>4. f \in Surjection(1..Len(faTable), rows)
  BY <1>1, <1>2, <1>3 DEF Surjection
<1>5. IsFiniteSet(1..Len(faTable))
  BY <1>3, FS_Interval
<1>6. IsFiniteSet(rows)
  BY <1>4, <1>5, FS_Surjection
<1>7. S \subseteq rows
  BY <1>1 DEF FaHas
<1> QED
  BY <1>6, <1>7, FS_Subset

\* ORDER BY updated_at: the answer of a query names each of its rows once.
LEMMA Answered ==
  ASSUME FactTypes, NEW S \in SUBSET FaSlots, \A s \in S : FaHas(faTable, s), NEW q \in FaInOrder(S)
  PROVE  q \in Seq(FaSlots) /\ IsInjective(q) /\ ToSet(q) = S
<1> DEFINE n == Cardinality(S)
<1>1. IsFiniteSet(S) /\ n \in Nat
  BY RowsFinite, FS_CardinalityType
<1>2. q \in [1..n -> S] /\ \A i, j \in 1..n : i < j => FaLater(q[i], q[j])
  BY DEF FaInOrder
<1>3. \A r : ~FaLater(r, r)
  BY DEF FaLater, FactTypes, IsInjective
<1>4. \A i, j \in 1..n : q[i] = q[j] => i = j
  <2>1. ASSUME NEW i \in 1..n, NEW j \in 1..n, q[i] = q[j], i # j PROVE FALSE
    <3>1. i < j \/ j < i
      BY <1>1, <2>1
    <3> QED
      BY <1>2, <1>3, <2>1, <3>1
  <2> QED
    BY <2>1
<1> HIDE DEF n
<1>5. q \in Injection(1..n, S)
  BY <1>2, <1>4 DEF Injection, IsInjective
<1>6. Cardinality(1..n) = n
  BY <1>1, FS_Interval
<1>7. q \in Surjection(1..n, S)
  BY <1>1, <1>5, <1>6, FS_Injection DEF n
<1>8. ToSet(q) = S
  BY <1>2, <1>7 DEF Surjection, ToSet
<1>9. q \in Seq(FaSlots)
  BY <1>1, <1>2
<1> QED
  BY <1>2, <1>4, <1>8, <1>9 DEF IsInjective

\* The merge keeps what was listed, adds each new fact once, and stops at the limit.
LEMMA Merged ==
  ASSUME NEW S, NEW list \in Seq(S), NEW new \in Seq(S), IsInjective(list), IsInjective(new),
         Len(list) <= FaLimit, ToSet(list) \cap ToSet(new) = {}
  PROVE  /\ FaMerge(list, new) \in Seq(S) /\ IsInjective(FaMerge(list, new))
         /\ Len(FaMerge(list, new)) <= FaLimit /\ Len(list) <= Len(FaMerge(list, new))
         /\ Len(FaMerge(list, new)) < FaLimit =>
              ToSet(list) \cup ToSet(new) \subseteq ToSet(FaMerge(list, new))
<1>1. PICK all : all = list \o new
  OBVIOUS
<1>2. PICK a \in Nat, b \in Nat : a = Len(list) /\ b = Len(new)
  OBVIOUS
<1>3. /\ all \in Seq(S) /\ Len(all) = a + b /\ DOMAIN all = 1..a + b
      /\ \A i \in 1..a + b : all[i] = IF i <= a THEN list[i] ELSE new[i - a]
  BY <1>1, <1>2, ConcatProperties
<1>4. PICK m \in Nat : m = (IF a + b < FaLimit THEN a + b ELSE FaLimit)
  BY <1>2, FaAssumption
<1>5. m <= a + b /\ m <= FaLimit /\ a <= m /\ (m < FaLimit => m = a + b)
  BY <1>2, <1>4, FaAssumption
<1>6. PICK u : u = SubSeq(all, 1, m)
  OBVIOUS
<1>7. u \in Seq(S) /\ Len(u) = m /\ \A i \in 1..m : u[i] = all[i]
  <2>1. \A i \in 1..m : all[i] \in S
    BY <1>2, <1>3, <1>4, <1>5
  <2>2. Len(u) = (IF 1 <= m THEN m - 1 + 1 ELSE 0) /\ \A i \in 1..m - 1 + 1 : u[i] = all[1 + i - 1]
    BY <1>6, <2>1, SubSeqProperties
  <2>3. u \in Seq(S)
    BY <1>6, <2>1, SubSeqProperties
  <2>4. m - 1 + 1 = m /\ \A i \in 1..m : 1 + i - 1 = i
    BY <1>4
  <2> QED
    BY <1>4, <2>2, <2>3, <2>4
<1>8. u = FaMerge(list, new)
  BY <1>1, <1>3, <1>4, <1>6 DEF FaMerge
<1>9. DOMAIN list = 1..a /\ DOMAIN new = 1..b /\ DOMAIN u = 1..m
  BY <1>2, <1>7
<1>10. \A i \in 1..a, j \in 1..b : list[i] # new[j]
  BY <1>9 DEF ToSet
<1>11. ASSUME NEW i \in 1..a + b, NEW j \in 1..a + b, all[i] = all[j] PROVE i = j
  <2>1. CASE i <= a /\ j <= a BY SMTT(20), <1>2, <1>3, <1>9, <1>11, <2>1 DEF IsInjective
  <2>2. CASE i > a /\ j > a
    <3>1. i - a \in 1..b /\ j - a \in 1..b /\ new[i - a] = new[j - a]
      <4>1. ~(i <= a) /\ ~(j <= a) /\ i - a \in 1..b /\ j - a \in 1..b
        BY <1>2, <2>2
      <4> QED
        BY <1>3, <1>11, <4>1
    <3>2. i - a = j - a
      BY <1>9, <3>1 DEF IsInjective
    <3> QED
      BY <1>2, <3>2
  <2>3. CASE i <= a /\ j > a
    <3>1. i \in 1..a /\ j - a \in 1..b /\ list[i] = new[j - a]
      BY <1>2, <1>3, <1>11, <2>3
    <3> QED
      BY <1>10, <3>1
  <2>4. CASE i > a /\ j <= a
    <3>1. j \in 1..a /\ i - a \in 1..b /\ list[j] = new[i - a]
      BY <1>2, <1>3, <1>11, <2>4
    <3> QED
      BY <1>10, <3>1
  <2> QED
    BY <1>2, <2>1, <2>2, <2>3, <2>4
<1>12. IsInjective(u)
  BY <1>2, <1>4, <1>5, <1>7, <1>9, <1>11 DEF IsInjective
<1>13. ASSUME m = a + b PROVE ToSet(list) \cup ToSet(new) \subseteq ToSet(u)
  <2>1. \A i \in 1..a : i \in 1..m /\ u[i] = list[i]
    BY <1>2, <1>3, <1>7, <1>13
  <2>2. ASSUME NEW j \in 1..b PROVE j + a \in 1..m /\ u[j + a] = new[j]
    <3>1. j + a \in 1..a + b /\ ~(j + a <= a) /\ (j + a) - a = j
      BY <1>2
    <3> QED
      BY <1>3, <1>7, <1>13, <3>1
  <2> QED
    BY <1>9, <2>1, <2>2 DEF ToSet
<1> QED
  BY <1>2, <1>5, <1>7, <1>8, <1>12, <1>13

\* One gathering: the list grows by what was found, or is full.
LEMMA Gathered ==
  ASSUME FactTypes, NEW t \in FaTurns, NEW list \in Seq(FaSlots), IsInjective(list), Len(list) <= FaLimit,
         NEW found \in SUBSET FaSlots, \A s \in found : FaHas(faTable, s),
         NEW new \in FaInOrder(FaNew(list, found))
  PROVE  /\ FaMerge(list, new) \in Seq(FaSlots) /\ IsInjective(FaMerge(list, new))
         /\ Len(FaMerge(list, new)) <= FaLimit /\ Len(list) <= Len(FaMerge(list, new))
         /\ Len(FaMerge(list, new)) < FaLimit =>
              ToSet(list) \cup found \subseteq ToSet(FaMerge(list, new))
<1>1. FaNew(list, found) \subseteq found /\ \A s \in found \ FaNew(list, found) : s \in ToSet(list)
  BY DEF FaNew, FaHas, ToSet
<1>2. ToSet(list) \cap FaNew(list, found) = {}
  BY DEF FaNew, FaHas, ToSet
<1>3. new \in Seq(FaSlots) /\ IsInjective(new) /\ ToSet(new) = FaNew(list, found)
  BY <1>1, Answered
<1>4. /\ FaMerge(list, new) \in Seq(FaSlots) /\ IsInjective(FaMerge(list, new))
      /\ Len(FaMerge(list, new)) <= FaLimit /\ Len(list) <= Len(FaMerge(list, new))
      /\ Len(FaMerge(list, new)) < FaLimit =>
           ToSet(list) \cup ToSet(new) \subseteq ToSet(FaMerge(list, new))
  BY <1>2, <1>3, Merged
<1> QED
  BY <1>1, <1>3, <1>4

\* The kinds that are listed.
LEMMA ListedKinds ==
  /\ Len(FaListed) = 8 /\ FaKinds \subseteq {FaListed[n] : n \in 1..Len(FaListed)}
<1>1. Len(FaListed) = 8
  BY DEF FaListed
<1>2. /\ FaListed[1] = "pending_promise" /\ FaListed[2] = "open_loop" /\ FaListed[3] = "curiosity"
      /\ FaListed[4] = "agent_goal" /\ FaListed[5] = "soft_reminder" /\ FaListed[6] = "learned_policy"
      /\ FaListed[7] = "proposal_boundary" /\ FaListed[8] = "decision"
  BY DEF FaListed
<1>3. \A n \in 1..8 : FaListed[n] \in {FaListed[m] : m \in 1..Len(FaListed)}
  BY <1>1
<1>4. FaKinds \subseteq {"pending_promise", "open_loop", "curiosity", "agent_goal", "soft_reminder",
                         "learned_policy", "proposal_boundary", "decision"}
  BY FaAssumption DEF FaKinds, FaPrefix
<1> QED
  BY <1>1, <1>2, <1>3, <1>4

\* Every slot is of a kind.
LEMMA SlotKinds == \A s \in FaSlots : s[1] \in FaKinds
<1>1. \A s \in FaOpen : s[1] \in FaKinds /\ FaResolution(s)[1] \in FaKinds
  BY DEF FaOpen, FaResolution, FaKinds
<1>2. \A s \in {"decision"} \X ({""} \X FaNotes) : s[1] = "decision"
  OBVIOUS
<1> QED
  BY <1>1, <1>2 DEF FaSlots, FaKinds

\* A step writes one row and no collection, or no row.
LEMMA FactSteps ==
  ASSUME FactTypes, [FaNext]_faVars
  PROVE  \/ \E slot \in FaSlots :
              (FaUpsert(slot) \/ FaRemove(slot)) /\ FaTouch(slot[1]) /\ UNCHANGED faTurn
         \/ UNCHANGED <<faTable, faTurn, faTouched>>
         \/ \E t \in FaTurns : FaCollect(t) \/ FaSearch(t) \/ FaList(t) \/ FaEnd(t)
<1> DEFINE Written == \E slot \in FaSlots :
                        (FaUpsert(slot) \/ FaRemove(slot)) /\ FaTouch(slot[1]) /\ UNCHANGED faTurn
<1>1. ASSUME NEW slot \in FaSlots, FaUpsert(slot) \/ FaRemove(slot) PROVE Written
  BY <1>1 DEF FaUpsert, FaRemove
<1>2. ASSUME NEW s \in FaSlots, FaWrite(s) \/ FaDelete(s) PROVE Written
  BY <1>1, <1>2 DEF FaWrite, FaDelete
<1>3. ASSUME NEW c \in FaTools, NEW s \in FaOpen, FaClose(c, s) PROVE Written
  BY <1>1, <1>3, SlotsApart DEF FaClose
<1>4. ASSUME NEW c \in FaTools, FaRecord(c) PROVE Written
  <2>1. FaResolution(faCall[c]) \in FaSlots
    BY <1>4, SlotsApart DEF FaRecord, FactTypes
  <2> QED
    BY <1>1, <1>4, <2>1 DEF FaRecord
<1> HIDE DEF Written
<1>5. ASSUME NEW c \in FaTools, FaRecordFails(c) PROVE UNCHANGED <<faTable, faTurn, faTouched>>
  BY <1>5 DEF FaRecordFails
<1>6. \/ Written \/ UNCHANGED <<faTable, faTurn, faTouched>>
      \/ \E t \in FaTurns : FaCollect(t) \/ FaSearch(t) \/ FaList(t) \/ FaEnd(t)
  BY <1>2, <1>3, <1>4, <1>5 DEF FaNext, faVars
<1> QED
  BY <1>6 DEF Written

\* FaCollect and FaEnd: a collection that begins or ends has listed nothing.
LEMMA FreshWhole ==
  ASSUME NEW turn, NEW touched, turn.at \in {"rest", "search"}, turn.left \in {0, 2}, turn.list = <<>>,
         turn.at = "search" => turn.left = 2
  PROVE  ListWhole(turn, touched)'
<1>1. turn.list \in Seq(FaSlots) /\ Len(turn.list) = 0 /\ IsInjective(turn.list)
  BY DEF IsInjective
<1> QED
  BY <1>1, FaAssumption DEF ListWhole

\* A write touches its kind only.
LEMMA WriteWhole ==
  ASSUME FactTypes, TurnTypes, TurnsWhole, NEW slot \in FaSlots, FaUpsert(slot) \/ FaRemove(slot),
         FaTouch(slot[1]), UNCHANGED faTurn
  PROVE  TurnTypes' /\ TurnsWhole'
<1>1. slot[1] \in FaKinds
  BY SlotKinds
<1>2. TurnTypes'
  BY <1>1 DEF TurnTypes, FaTouch
<1>3. ASSUME NEW t \in FaTurns PROVE ListWhole(faTurn[t], faTouched[t])'
  <2>1. ListWhole(faTurn[t], faTouched[t]) /\ faTurn'[t] = faTurn[t]
    BY DEF TurnsWhole
  <2>2. CASE faTurn[t] = FaRest
    <3>1. faTurn'[t].at = "rest" /\ faTurn'[t].left = 0 /\ faTurn'[t].list = <<>>
      BY <2>1, <2>2 DEF FaRest
    <3>2. PICK turn : turn = faTurn'[t]
      OBVIOUS
    <3>3. PICK touched : touched = faTouched'[t]
      OBVIOUS
    <3>4. ListWhole(turn, touched)'
      BY <3>1, <3>2, FreshWhole
    <3> QED
      BY <3>2, <3>3, <3>4
  <2>3. CASE faTurn[t] # FaRest
    <3>1. faTouched'[t] = faTouched[t] \cup {slot[1]}
      BY <2>3 DEF FaTouch, TurnTypes
    <3>2. \A kind, n : kind # slot[1] =>
            FaNewest(FaOfKind(kind), n)' = FaNewest(FaOfKind(kind), n)
      BY NewestKept
    <3>3. ASSUME NEW n \in 1..Len(FaListed), FaListed[n] \in FaKinds \ faTouched'[t]
          PROVE  /\ FaListed[n] \in FaKinds \ faTouched[t]
                 /\ FaNewest(FaOfKind(FaListed[n]), FaPerKind)' = FaNewest(FaOfKind(FaListed[n]), FaPerKind)
      BY <3>1, <3>2, <3>3
    <3> QED
      BY <2>1, <3>3 DEF ListWhole
  <2> QED
    BY <2>2, <2>3
<1> QED
  BY <1>2, <1>3 DEF TurnsWhole

\* FaSearch and FaList: a gathering keeps what is listed and adds what it found.
LEMMA GatherWhole ==
  ASSUME FactTypes, TurnTypes, NEW t \in FaTurns, ListWhole(faTurn[t], faTouched[t]),
         NEW found \in SUBSET FaSlots, \A s \in found : FaHas(faTable, s),
         NEW next \in [at : {"search", "list", "given"}, left : Nat, list : Seq(FaSlots)],
         FaGather(t, found, next),
         next.at = "search" => faTurn[t].at = "search" /\ next.left \in 1..2,
         next.at = "list" => next.left \in 1..Len(FaListed),
         \A n \in 1..Len(FaListed) :
           next.at = "given" \/ (next.at = "list" /\ n <= Len(FaListed) - next.left) =>
             \/ faTurn[t].at = "given" \/ (faTurn[t].at = "list" /\ n <= Len(FaListed) - faTurn[t].left)
             \/ found = FaNewest(FaOfKind(FaListed[n]), FaPerKind)
  PROVE  /\ faTurn'[t] \in [at : {"search", "list", "given"}, left : Nat, list : Seq(FaSlots)]
         /\ ListWhole(faTurn[t], faTouched[t])'
         /\ \A d \in FaTurns : d # t => faTurn'[d] = faTurn[d]
<1>1. PICK list : list = faTurn[t].list
  OBVIOUS
<1>2. list \in Seq(FaSlots) /\ IsInjective(list) /\ Len(list) <= FaLimit
  BY <1>1 DEF ListWhole, TurnTypes
<1>3. PICK new \in FaInOrder(FaNew(list, found)) :
        faTurn' = [faTurn EXCEPT ![t] = [next EXCEPT !.list = FaMerge(list, new)]]
  BY <1>1 DEF FaGather
<1>4. PICK merged : merged = FaMerge(list, new)
  OBVIOUS
<1>5. /\ merged \in Seq(FaSlots) /\ IsInjective(merged)
      /\ Len(merged) <= FaLimit /\ Len(list) <= Len(merged)
      /\ Len(merged) < FaLimit => ToSet(list) \cup found \subseteq ToSet(merged)
  BY <1>2, <1>3, <1>4, Gathered
<1>6. PICK turn : turn = [next EXCEPT !.list = merged]
  OBVIOUS
<1>7. /\ turn.at = next.at /\ turn.left = next.left /\ turn.list = merged
      /\ turn \in [at : {"search", "list", "given"}, left : Nat, list : Seq(FaSlots)]
  BY <1>5, <1>6
<1>8. faTurn' = [faTurn EXCEPT ![t] = turn]
  BY <1>3, <1>4, <1>6
<1>9. faTurn'[t] = turn /\ \A d \in FaTurns : d # t => faTurn'[d] = faTurn[d]
  BY <1>8 DEF TurnTypes
<1>10. faTable' = faTable /\ faTouched' = faTouched
  BY DEF FaGather
<1>11. ASSUME NEW n \in 1..Len(FaListed),
              turn.at = "given" \/ (turn.at = "list" /\ n <= Len(FaListed) - turn.left),
              FaListed[n] \in FaKinds \ faTouched[t], Len(turn.list) < FaLimit
       PROVE  FaNewest(FaOfKind(FaListed[n]), FaPerKind) \subseteq ToSet(turn.list)
  <2>1. Len(list) < FaLimit
    BY <1>2, <1>5, <1>7, <1>11, FaAssumption
  <2>2. CASE found = FaNewest(FaOfKind(FaListed[n]), FaPerKind)
    BY <1>5, <1>7, <1>11, <2>2
  <2>3. CASE faTurn[t].at = "given" \/ (faTurn[t].at = "list" /\ n <= Len(FaListed) - faTurn[t].left)
    <3>1. FaNewest(FaOfKind(FaListed[n]), FaPerKind) \subseteq ToSet(list)
      BY <1>1, <1>11, <2>1, <2>3 DEF ListWhole
    <3> QED
      BY <1>5, <1>7, <1>11, <3>1
  <2> QED
    BY <1>7, <1>11, <2>2, <2>3
<1>12. ListWhole(turn, faTouched[t])
  BY <1>5, <1>7, <1>11 DEF ListWhole
<1>13. \A n : (FaNewest(FaOfKind(FaListed[n]), FaPerKind))' = FaNewest(FaOfKind(FaListed[n]), FaPerKind)
  BY <1>10 DEF FaNewest, FaHas, FaLater
<1>14. ListWhole(faTurn[t], faTouched[t])'
  BY <1>9, <1>10, <1>12, <1>13 DEF ListWhole
<1> QED
  BY <1>7, <1>9, <1>14

\* Every step keeps the collections whole.
LEMMA TurnsStep ==
  ASSUME FactTypes, TurnTypes, TurnsWhole, [FaNext]_faVars
  PROVE  TurnTypes' /\ TurnsWhole'
<1> DEFINE Records == [at : {"rest", "search", "list", "given"}, left : Nat, list : Seq(FaSlots)]
           Gathers == [at : {"search", "list", "given"}, left : Nat, list : Seq(FaSlots)]
           Newest(n) == FaNewest(FaOfKind(FaListed[n]), FaPerKind)
<1>1. Len(FaListed) = 8
  BY ListedKinds
<1>0. ASSUME NEW d \in FaTurns, UNCHANGED faTable, faTurn'[d] = faTurn[d], faTouched'[d] = faTouched[d]
      PROVE  ListWhole(faTurn[d], faTouched[d])'
  <2>1. \A n : (FaNewest(FaOfKind(FaListed[n]), FaPerKind))' = FaNewest(FaOfKind(FaListed[n]), FaPerKind)
    BY <1>0 DEF FaNewest, FaHas, FaLater
  <2>2. PICK turn, touched : turn = faTurn[d] /\ touched = faTouched[d]
    OBVIOUS
  <2>3. ListWhole(turn, touched)
    BY <2>2 DEF TurnsWhole
  <2>4. ListWhole(turn, touched)'
    BY <2>1, <2>3 DEF ListWhole
  <2> QED
    BY <1>0, <2>2, <2>4
<1>2. CASE UNCHANGED <<faTable, faTurn, faTouched>> BY <1>0, <1>2 DEF TurnTypes, TurnsWhole
<1>3. ASSUME NEW t \in FaTurns, UNCHANGED faTable, faTouched' \in [FaTurns -> SUBSET FaKinds],
             faTurn' \in [FaTurns -> Records], ListWhole(faTurn[t], faTouched[t])',
             \A d \in FaTurns : d # t => faTurn'[d] = faTurn[d] /\ faTouched'[d] = faTouched[d]
      PROVE  TurnTypes' /\ TurnsWhole'
  <2>1. ASSUME NEW d \in FaTurns, d # t PROVE ListWhole(faTurn[d], faTouched[d])'
    BY <1>0, <1>3, <2>1
  <2> QED
    BY <1>3, <2>1 DEF TurnTypes, TurnsWhole
<1>4. ASSUME NEW t \in FaTurns, NEW turn \in Records, turn.at \in {"rest", "search"}, turn.left \in {0, 2},
             turn.list = <<>>, turn.at = "search" => turn.left = 2,
             faTurn' = [faTurn EXCEPT ![t] = turn], UNCHANGED faTable,
             faTouched' \in [FaTurns -> SUBSET FaKinds],
             \A d \in FaTurns : d # t => faTouched'[d] = faTouched[d]
      PROVE  TurnTypes' /\ TurnsWhole'
  <2>1. faTurn' \in [FaTurns -> Records] /\ faTurn'[t] = turn
    BY <1>4 DEF TurnTypes
  <2>2. PICK touched : touched = faTouched'[t]
    OBVIOUS
  <2>3. ListWhole(turn, touched)'
    BY <1>4, FreshWhole
  <2>4. ListWhole(faTurn[t], faTouched[t])'
    BY <2>1, <2>2, <2>3
  <2>5. \A d \in FaTurns : d # t => faTurn'[d] = faTurn[d]
    BY <1>4 DEF TurnTypes
  <2> QED
    BY <1>3, <1>4, <2>1, <2>4, <2>5
<1>5. ASSUME NEW t \in FaTurns, FaCollect(t) PROVE TurnTypes' /\ TurnsWhole'
  <2>1. PICK turn : turn = [at |-> "search", left |-> 2, list |-> <<>>]
    OBVIOUS
  <2>2. turn \in Records /\ turn.at = "search" /\ turn.left = 2 /\ turn.list = <<>>
    BY <2>1
  <2>3. faTurn' = [faTurn EXCEPT ![t] = turn] /\ UNCHANGED <<faTable, faTouched>>
    BY <1>5, <2>1 DEF FaCollect
  <2> QED
    BY <1>4, <2>2, <2>3 DEF TurnTypes
<1>6. ASSUME NEW t \in FaTurns, FaEnd(t) PROVE TurnTypes' /\ TurnsWhole'
  <2>1. PICK turn : turn = FaRest
    OBVIOUS
  <2>2. turn \in Records /\ turn.at = "rest" /\ turn.left = 0 /\ turn.list = <<>>
    BY <2>1 DEF FaRest
  <2>3. faTurn' = [faTurn EXCEPT ![t] = turn] /\ UNCHANGED faTable /\ faTouched' = [faTouched EXCEPT ![t] = {}]
    BY <1>6, <2>1 DEF FaEnd
  <2>4. /\ faTouched' \in [FaTurns -> SUBSET FaKinds]
        /\ \A d \in FaTurns : d # t => faTouched'[d] = faTouched[d]
    BY <2>3 DEF TurnTypes
  <2> QED
    BY <1>4, <2>2, <2>3, <2>4
<1>7. ASSUME NEW t \in FaTurns, NEW found \in SUBSET FaSlots, \A s \in found : FaHas(faTable, s),
             NEW next \in Gathers, FaGather(t, found, next),
             next.at = "search" => faTurn[t].at = "search" /\ next.left \in 1..2,
             next.at = "list" => next.left \in 1..Len(FaListed),
             \A n \in 1..Len(FaListed) :
               next.at = "given" \/ (next.at = "list" /\ n <= Len(FaListed) - next.left) =>
                 \/ faTurn[t].at = "given" \/ (faTurn[t].at = "list" /\ n <= Len(FaListed) - faTurn[t].left)
                 \/ found = Newest(n)
      PROVE  TurnTypes' /\ TurnsWhole'
  <2>1. ListWhole(faTurn[t], faTouched[t])
    BY DEF TurnsWhole
  <2>2. /\ faTurn'[t] \in Gathers /\ ListWhole(faTurn[t], faTouched[t])'
        /\ \A d \in FaTurns : d # t => faTurn'[d] = faTurn[d]
    BY <1>7, <2>1, GatherWhole
  <2>3. faTable' = faTable /\ faTouched' = faTouched /\ DOMAIN faTurn' = FaTurns
    BY <1>7 DEF FaGather, TurnTypes
  <2>4. faTurn' \in [FaTurns -> Records]
    BY <1>7, <2>2, <2>3 DEF TurnTypes, FaGather
  <2> QED
    BY <1>3, <2>2, <2>3, <2>4 DEF TurnTypes
<1>8. ASSUME NEW S, NEW n PROVE \A s \in FaNewest(S, n) : s \in S /\ FaHas(faTable, s)
  BY DEF FaNewest
<1>9. ASSUME NEW t \in FaTurns, FaSearch(t) PROVE TurnTypes' /\ TurnsWhole'
  <2>1. PICK turn : turn = faTurn[t]
    OBVIOUS
  <2>2. turn \in Records /\ turn.at = "search" /\ turn.left \in 1..2
    BY <1>9, <2>1 DEF FaSearch, TurnTypes, TurnsWhole, ListWhole
  <2>3. PICK first : first = [turn EXCEPT !.left = 1]
    OBVIOUS
  <2>4. first \in Gathers /\ first.at = "search" /\ first.left = 1
    BY <2>2, <2>3
  <2>5. PICK listing : listing = [turn EXCEPT !.at = "list", !.left = Len(FaListed)]
    OBVIOUS
  <2>6. listing \in Gathers /\ listing.at = "list" /\ listing.left = 8
    <3>1. PICK mid : mid = [turn EXCEPT !.at = "list"]
      OBVIOUS
    <3>2. mid \in Gathers /\ mid.at = "list"
      BY <2>2, <3>1
    <3>3. listing = [mid EXCEPT !.left = 8]
      BY <1>1, <2>5, <3>1
    <3> QED
      BY <3>2, <3>3
  <2>7. PICK hits \in SUBSET ToSet(faTable) :
          FaGather(t, FaNewest(hits, FaLimit), IF turn.left = 2 THEN first ELSE listing)
    BY <1>9, <2>1, <2>3, <2>5 DEF FaSearch
  <2>8. PICK found : found = FaNewest(hits, FaLimit)
    OBVIOUS
  <2>9. found \in SUBSET FaSlots /\ \A s \in found : FaHas(faTable, s)
    <3>1. ToSet(faTable) \subseteq FaSlots
      BY DEF FactTypes, ToSet
    <3> QED
      BY <1>8, <2>8, <3>1
  <2>10. PICK next : next = IF turn.left = 2 THEN first ELSE listing
    OBVIOUS
  <2>11. /\ next \in Gathers /\ next.at \in {"search", "list"}
         /\ next.at = "search" => next.left = 1
         /\ next.at = "list" => next.left = 8
    BY <2>4, <2>6, <2>10
  <2>12. FaGather(t, found, next)
    BY <2>7, <2>8, <2>10
  <2> QED
    BY <1>1, <1>7, <2>1, <2>2, <2>9, <2>11, <2>12
<1>10. ASSUME NEW t \in FaTurns, FaList(t) PROVE TurnTypes' /\ TurnsWhole'
  <2>1. PICK turn : turn = faTurn[t]
    OBVIOUS
  <2>2. turn \in Records /\ turn.at = "list" /\ turn.left \in 1..8
    BY <1>1, <1>10, <2>1 DEF FaList, TurnTypes, TurnsWhole, ListWhole
  <2>3. PICK last : last = [turn EXCEPT !.at = "given", !.left = 0]
    OBVIOUS
  <2>4. last \in Gathers /\ last.at = "given"
    <3>1. PICK mid : mid = [turn EXCEPT !.at = "given"]
      OBVIOUS
    <3>2. mid \in Gathers /\ mid.at = "given"
      BY <2>2, <3>1
    <3>3. last = [mid EXCEPT !.left = 0]
      BY <2>3, <3>1
    <3> QED
      BY <3>2, <3>3
  <2>5. PICK more : more = [turn EXCEPT !.left = turn.left - 1]
    OBVIOUS
  <2>6. turn.left # 1 => more \in Gathers /\ more.at = "list" /\ more.left = turn.left - 1
    BY <2>2, <2>5
  <2>7. PICK place : place = 9 - turn.left
    OBVIOUS
  <2>8. FaGather(t, Newest(place), IF turn.left = 1 THEN last ELSE more)
    <3>1. Len(FaListed) + 1 - faTurn[t].left = place
      BY <1>1, <2>1, <2>2, <2>7
    <3>2. more = [faTurn[t] EXCEPT !.left = @ - 1] /\ last = [faTurn[t] EXCEPT !.at = "given", !.left = 0]
      BY <2>1, <2>3, <2>5
    <3> QED
      BY <1>10, <2>1, <3>1, <3>2, Zenon DEF FaList
  <2>9. PICK found : found = Newest(place)
    OBVIOUS
  <2>10. found \in SUBSET FaSlots /\ \A s \in found : FaHas(faTable, s)
    BY <1>8, <2>9 DEF FaOfKind
  <2>11. PICK next : next = IF turn.left = 1 THEN last ELSE more
    OBVIOUS
  <2>12. /\ next \in Gathers /\ next.at \in {"list", "given"}
         /\ next.at = "list" => turn.left # 1 /\ next.left = turn.left - 1
         /\ next.at = "given" => turn.left = 1
    BY <2>4, <2>6, <2>11
  <2>13. FaGather(t, found, next)
    BY <2>8, <2>9, <2>11
  <2>14. ASSUME NEW n \in 1..8, next.at = "given" \/ (next.at = "list" /\ n <= 8 - next.left)
         PROVE  n <= 8 - turn.left \/ n = place
    BY <2>2, <2>7, <2>12, <2>14
  <2>15. \A n \in 1..8 :
           next.at = "given" \/ (next.at = "list" /\ n <= 8 - next.left) =>
             (turn.at = "list" /\ n <= 8 - turn.left) \/ found = Newest(n)
    BY <2>2, <2>9, <2>14
  <2>16. next.at = "list" => next.left \in 1..8
    BY <2>2, <2>12
  <2> HIDE DEF Newest
  <2> QED
    BY <1>1, <1>7, <2>1, <2>10, <2>12, <2>13, <2>15, <2>16
<1>11. ASSUME NEW slot \in FaSlots, FaUpsert(slot) \/ FaRemove(slot), FaTouch(slot[1]), UNCHANGED faTurn
       PROVE  TurnTypes' /\ TurnsWhole'
  BY <1>11, WriteWhole
<1> QED
  BY <1>2, <1>5, <1>6, <1>9, <1>10, <1>11, FactSteps

\* At first there are no facts, none was taken away, and nothing is collected.
LEMMA FaInitInv == FaInit => FaInv
<1> SUFFICES ASSUME FaInit PROVE FaInv
  OBVIOUS
<1>1. FactTypes /\ FaGoneIsTraced
  BY DEF FaInit, FactTypes, FaGoneIsTraced, IsInjective
<1>2. PICK rest : rest = FaRest
  OBVIOUS
<1>3. /\ rest \in [at : {"rest", "search", "list", "given"}, left : Nat, list : Seq(FaSlots)]
      /\ rest.at = "rest" /\ rest.list = <<>> /\ Len(rest.list) = 0
  BY <1>2 DEF FaRest
<1>4. \A t \in FaTurns : faTurn[t] = rest
  BY <1>2 DEF FaInit
<1>5. TurnTypes
  BY <1>2, <1>3 DEF FaInit, TurnTypes
<1>6. TurnsWhole
  BY <1>3, <1>4, FaAssumption DEF TurnsWhole, ListWhole, IsInjective
<1> QED
  BY <1>1, <1>5, <1>6 DEF FaInv

\* So it always holds.
LEMMA FaInvAlways == FaSpec => []FaInv
<1>1. FaInv /\ [FaNext]_faVars => FaInv'
  BY FactsStep, TracesStep, TurnsStep DEF FaInv
<1> QED
  BY FaInitInv, <1>1, PTL DEF FaSpec

\* UpsertFact and DeleteFact: the table has one row for a kind and key, whatever the calls.
THEOREM OneRow == FaSpec => []FactTypes
<1>1. FaInv => FactTypes
  BY DEF FaInv
<1> QED
  BY FaInvAlways, <1>1, PTL

\* closeFact: an open fact that is gone left its resolution, unless it was deleted, closed
\* without a word, or its close failed between the delete and the write.
THEOREM GoneIsTraced == FaSpec => []FaGoneIsTraced
<1>1. FaInv => FaGoneIsTraced
  BY DEF FaInv
<1> QED
  BY FaInvAlways, <1>1, PTL

\* The variables of the facts have their types.
THEOREM FactTypeCorrect == FaSpec => []FaTypeOK
<1>1. FaInv => FaTypeOK
  <2> SUFFICES ASSUME FaInv PROVE FaTypeOK
    OBVIOUS
  <2>1. \A i, j \in DOMAIN faTable : faTable[i] = faTable[j] => i = j
    BY DEF FaInv, FactTypes, IsInjective
  <2>2. \A t \in FaTurns :
          /\ faTurn[t].at \in {"rest", "search", "list", "given"}
          /\ faTurn[t].list \in Seq(FaSlots) /\ faTouched[t] \subseteq FaKinds
    BY DEF FaInv, TurnTypes
  <2> QED
    BY <2>1, <2>2 DEF FaInv, FactTypes, FaTypeOK
<1> QED
  BY FaInvAlways, <1>1, PTL

\* collectConversationFacts: what a turn is given names no fact twice, and has the newest facts
\* of every kind that nobody wrote between its queries, unless it is full.
THEOREM ContextWhole == FaSpec => []FaContextWhole
<1>1. FaInv => FaContextWhole
  <2> SUFFICES ASSUME FaInv, NEW t \in FaTurns, faTurn[t].at = "given"
               PROVE  LET list == faTurn[t].list IN
                      /\ Len(list) <= FaLimit /\ IsInjective(list)
                      /\ \A k \in FaKinds \ faTouched[t] :
                           Len(list) < FaLimit => FaNewest(FaOfKind(k), FaPerKind) \subseteq ToSet(list)
    BY DEF FaContextWhole
  <2>1. ListWhole(faTurn[t], faTouched[t])
    BY DEF FaInv, TurnsWhole
  <2>2. ASSUME NEW k \in FaKinds PROVE \E n \in 1..Len(FaListed) : FaListed[n] = k
    BY ListedKinds
  <2> QED
    BY <2>1, <2>2 DEF ListWhole
<1> QED
  BY FaInvAlways, <1>1, PTL

-----------------------------------------------------------------------------
(* Presence.  The inductive invariant PwInv.                               *)

\* Snapshots, handlers and wake summaries as records.
PwSnapshots == [status : PwStatuses, at : Nat]
PwHandlers ==
  [at : {"new", "save", "channel", "done"}, status : PwStatuses, prev : Nat, now : Nat, seen : Nat, saved : Nat]
PwSummaries == [since : Nat, event : PwEvents, state : {"pending", "done"}, posted : BOOLEAN]

\* What the variables are, and no snapshot is of a time to come.
PresenceTypes ==
  /\ pwClock \in 0..PwMaxClock
  /\ pwRows \in Seq(PwSnapshots) /\ \A i \in DOMAIN pwRows : pwRows[i].at <= pwClock
  /\ pwCall \in [PwEvents -> PwHandlers]
  /\ pwJobs \in Seq(PwSummaries)

\* LastPresence: the snapshot a handler read is the last of those there were, as the texts
\* of their times are ordered; the one it saved came after them, with its own time.
HandlerRead(call) ==
  /\ call.now <= pwClock /\ call.seen <= Len(pwRows) /\ call.prev \in {0} \cup DOMAIN pwRows
  /\ call.prev # 0 =>
       \A r \in 1..call.seen : PwText(pwRows[r].at) <= PwText(pwRows[call.prev].at)
  /\ call.saved # 0 =>
       /\ call.saved \in DOMAIN pwRows /\ call.seen < call.saved
       /\ pwRows[call.saved].at = call.now
  /\ call.at \in {"new", "save"} => call.saved = 0
  /\ call.at = "channel" => PwIsWake(call)

\* Every handler is such.
HandlersTrue == \A e \in PwEvents : HandlerRead(pwCall[e])

\* A wake summary was scheduled by a handler that saw a wake, and begins where it did.
SummariesTrue ==
  \A i \in DOMAIN pwJobs :
    LET call == pwCall[pwJobs[i].event] IN
    call.at = "done" /\ PwIsWake(call) /\ pwJobs[i].since = call.prev

\* The invariant.
PwInv == PresenceTypes /\ HandlersTrue /\ SummariesTrue

\* Time goes on and snapshots come at the end.
PresenceGrows ==
  /\ pwClock' >= pwClock /\ Len(pwRows') >= Len(pwRows)
  /\ \A i \in DOMAIN pwRows : i \in DOMAIN pwRows' /\ pwRows'[i] = pwRows[i]

-----------------------------------------------------------------------------
\* What the text of a time is made of.
LEMMA TextParts ==
  ASSUME NEW at \in Nat
  PROVE  /\ PwSecond(at) \in Nat /\ at \in 4 * PwSecond(at)..4 * PwSecond(at) + 3
         /\ PwText(at) \in 4 * PwSecond(at)..4 * PwSecond(at) + 3
<1>1. at = 4 * (at \div 4) + (at % 4) /\ at % 4 \in 0..3 /\ at \div 4 \in Nat
  OBVIOUS
<1>2. <<3, 0, 2, 1>>[(at % 4) + 1] \in 0..3
  OBVIOUS
<1>3. PICK place \in 0..3 : place = <<3, 0, 2, 1>>[(at % 4) + 1]
  BY <1>2
<1>4. PwText(at) = (at \div 4) * 4 + place
  BY <1>3 DEF PwText, PwSecond
<1> QED
  BY <1>1, <1>4 DEF PwSecond

\* Texts order the times of different seconds.
LEMMA TextOrder ==
  ASSUME NEW a \in Nat, NEW b \in Nat, PwText(b) <= PwText(a)
  PROVE  b < a + 4 /\ (b > a => PwSecond(b) = PwSecond(a))
<1>1. PICK sa \in Nat, sb \in Nat, ta \in Nat, tb \in Nat :
        sa = PwSecond(a) /\ sb = PwSecond(b) /\ ta = PwText(a) /\ tb = PwText(b)
  BY TextParts
<1>2. /\ a \in 4 * sa..4 * sa + 3 /\ ta \in 4 * sa..4 * sa + 3
      /\ b \in 4 * sb..4 * sb + 3 /\ tb \in 4 * sb..4 * sb + 3 /\ tb <= ta
  BY <1>1, TextParts
<1>3. b < a + 4 /\ (b > a => sb = sa)
  BY <1>2
<1> QED
  BY <1>1, <1>3

\* A handler that saves its snapshot is a handler.
LEMMA Saving ==
  ASSUME NEW old \in PwHandlers, NEW at \in {"channel", "done"}, NEW saved \in Nat
  PROVE  /\ [old EXCEPT !.at = at, !.saved = saved] \in PwHandlers
         /\ [old EXCEPT !.at = at, !.saved = saved] =
              [at |-> at, status |-> old.status, prev |-> old.prev, now |-> old.now, seen |-> old.seen,
               saved |-> saved]
<1>1. PICK first : first = [old EXCEPT !.at = at]
  OBVIOUS
<1>2. /\ first \in PwHandlers
      /\ first.at = at /\ first.status = old.status /\ first.prev = old.prev
      /\ first.now = old.now /\ first.seen = old.seen
  BY <1>1 DEF PwHandlers
<1>3. PICK second : second = [first EXCEPT !.saved = saved]
  OBVIOUS
<1>4. /\ second \in PwHandlers
      /\ second.at = first.at /\ second.status = first.status /\ second.prev = first.prev
      /\ second.now = first.now /\ second.seen = first.seen /\ second.saved = saved
  BY <1>2, <1>3 DEF PwHandlers
<1>5. second = [at |-> second.at, status |-> second.status, prev |-> second.prev, now |-> second.now,
                seen |-> second.seen, saved |-> second.saved]
  BY <1>4 DEF PwHandlers
<1>6. [old EXCEPT !.at = at, !.saved = saved] = second
  BY <1>1, <1>3
<1> QED
  BY <1>2, <1>4, <1>5, <1>6

\* A wake is one of the handler that saw it, whatever it does next.
LEMMA WakeKept ==
  ASSUME NEW call \in PwHandlers, HandlerRead(call), PresenceTypes, PresenceGrows
  PROVE  PwIsWake(call)' <=> PwIsWake(call)
BY DEF PwIsWake, HandlerRead, PresenceTypes, PresenceGrows

\* What a handler knows stays true.
LEMMA HandlerKept ==
  ASSUME NEW call \in PwHandlers, HandlerRead(call), PresenceTypes, PresenceTypes',
         PresenceGrows
  PROVE  HandlerRead(call)'
<1>1. call.now <= pwClock' /\ call.seen <= Len(pwRows') /\ call.prev \in {0} \cup DOMAIN pwRows'
  BY DEF HandlerRead, PresenceTypes, PresenceGrows, PwHandlers
<1>2. ASSUME call.prev # 0, NEW r \in 1..call.seen
      PROVE  PwText(pwRows'[r].at) <= PwText(pwRows'[call.prev].at)
  <2>1. r \in DOMAIN pwRows /\ call.prev \in DOMAIN pwRows
    BY <1>2 DEF HandlerRead, PresenceTypes, PwHandlers
  <2>2. pwRows'[r] = pwRows[r] /\ pwRows'[call.prev] = pwRows[call.prev]
    BY <2>1 DEF PresenceGrows
  <2> QED
    BY <1>2, <2>2 DEF HandlerRead
<1>3. call.saved # 0 =>
        /\ call.saved \in DOMAIN pwRows' /\ call.seen < call.saved
        /\ pwRows'[call.saved].at = call.now
  BY DEF HandlerRead, PresenceGrows
<1>4. call.at = "channel" => PwIsWake(call)'
  BY WakeKept DEF HandlerRead
<1> QED
  BY <1>1, <1>2, <1>3, <1>4 DEF HandlerRead

\* Every step keeps the types, and time and snapshots only grow.
LEMMA PresenceStep ==
  ASSUME PresenceTypes, HandlersTrue, [PwNext]_pwVars
  PROVE  PresenceTypes' /\ PresenceGrows
<1> USE PwAssumption DEF PresenceTypes
<1> DEFINE Goal == PresenceTypes' /\ PresenceGrows
<1>1. CASE UNCHANGED pwVars BY <1>1 DEF pwVars, PresenceGrows
<1>2. CASE PwPass
  <2>1. pwClock' \in 0..PwMaxClock /\ pwClock' >= pwClock /\ UNCHANGED <<pwRows, pwCall,
            pwJobs>>
    BY <1>2 DEF PwPass
  <2>2. \A i \in DOMAIN pwRows : pwRows[i].at <= pwClock'
    <3>1. \A i \in DOMAIN pwRows : pwRows[i] \in PwSnapshots /\ pwRows[i].at <= pwClock
      OBVIOUS
    <3>2. \A i \in DOMAIN pwRows : pwRows[i].at \in Nat
      BY <3>1 DEF PwSnapshots
    <3>3. pwClock \in Nat /\ pwClock' \in Nat /\ pwClock <= pwClock'
      BY <2>1
    <3> QED
      BY <3>1, <3>2, <3>3
  <2> QED
    BY <2>1, <2>2 DEF PresenceGrows
<1>3. CASE PwTalk BY <1>3 DEF PwTalk, PresenceGrows
<1>4. ASSUME NEW e \in PwEvents, NEW call \in PwHandlers, pwCall' = [pwCall EXCEPT ![e] = call],
             UNCHANGED <<pwClock, pwRows, pwJobs>>
      PROVE  Goal
  <2>1. pwCall' \in [PwEvents -> PwHandlers]
    BY <1>4
  <2> QED
    BY <1>4, <2>1 DEF PresenceGrows
<1>5. ASSUME NEW e \in PwEvents, NEW status \in PwStatuses, PwRead(e, status) PROVE Goal
  <2>1. PICK prev \in {0} \cup PwLatest :
          pwCall' = [pwCall EXCEPT ![e] = [at |-> "save", status |-> status, prev |-> prev, now |-> pwClock,
                                           seen |-> Len(pwRows), saved |-> 0]]
    BY <1>5 DEF PwRead
  <2>2. PICK call : call = [at |-> "save", status |-> status, prev |-> prev, now |-> pwClock,
                            seen |-> Len(pwRows), saved |-> 0]
    OBVIOUS
  <2>3. prev \in Nat /\ pwClock \in Nat /\ Len(pwRows) \in Nat
    BY DEF PwLatest
  <2>4. call \in PwHandlers
    BY <2>2, <2>3 DEF PwHandlers
  <2> QED
    BY <1>4, <1>5, <2>1, <2>2, <2>4 DEF PwRead
<1>6. ASSUME NEW e \in PwEvents, PwSave(e) PROVE Goal
  <2> DEFINE old == pwCall[e]
  <2>1. old \in PwHandlers
    OBVIOUS
  <2>2. PICK row : row = [status |-> old.status, at |-> old.now]
    OBVIOUS
  <2>3. row \in PwSnapshots /\ row.at <= pwClock
    BY <2>1, <2>2 DEF PwSnapshots, PwHandlers, HandlersTrue, HandlerRead
  <2>4. pwRows' = Append(pwRows, row) /\ UNCHANGED <<pwClock, pwJobs>>
    BY <1>6, <2>2 DEF PwSave
  <2>5. /\ pwRows' \in Seq(PwSnapshots) /\ Len(pwRows') = Len(pwRows) + 1
        /\ pwRows'[Len(pwRows) + 1] = row
        /\ \A i \in DOMAIN pwRows : i \in DOMAIN pwRows' /\ pwRows'[i] = pwRows[i]
    BY <2>3, <2>4, AppendProperties
  <2>6. PICK at \in {"channel", "done"} :
          pwCall' = [pwCall EXCEPT ![e] = [old EXCEPT !.at = at, !.saved = Len(pwRows) + 1]]
    BY <1>6 DEF PwSave, PwAfterSave
  <2>7. pwCall' \in [PwEvents -> PwHandlers]
    <3>1. PICK saved \in Nat : saved = Len(pwRows) + 1
      OBVIOUS
    <3>2. PICK call : call = [old EXCEPT !.at = at, !.saved = saved]
      OBVIOUS
    <3>3. call \in PwHandlers
      BY <2>1, <3>2, Saving
    <3>4. pwCall' = [pwCall EXCEPT ![e] = call]
      BY <2>6, <3>1, <3>2
    <3> QED
      BY <3>3, <3>4
  <2>8. \A i \in DOMAIN pwRows' : pwRows'[i].at <= pwClock
    BY <2>3, <2>5
  <2> QED
    BY <2>4, <2>5, <2>7, <2>8 DEF PresenceGrows
<1>7. ASSUME NEW e \in PwEvents, NEW at \in {"channel", "done"}
      PROVE  [pwCall EXCEPT ![e].at = at] \in [PwEvents -> PwHandlers]
  BY DEF PwHandlers
<1>8. ASSUME NEW e \in PwEvents, PwSaveFails(e) PROVE Goal
  <2>1. PICK at \in {"channel", "done"} : pwCall' = [pwCall EXCEPT ![e].at = at]
    BY <1>8 DEF PwSaveFails, PwAfterSave
  <2>2. pwCall' \in [PwEvents -> PwHandlers]
    BY <1>7, <2>1
  <2> QED
    BY <1>8, <2>2 DEF PwSaveFails, PresenceGrows
<1>9. ASSUME NEW e \in PwEvents, PwSchedule(e) PROVE Goal
  <2>1. PICK job : job = [since |-> pwCall[e].prev, event |-> e, state |-> "pending", posted |-> FALSE]
    OBVIOUS
  <2>2. job \in PwSummaries
    BY <2>1 DEF PwSummaries, PwHandlers
  <2>3. pwJobs' = Append(pwJobs, job)
    BY <1>9, <2>1 DEF PwSchedule
  <2>4. pwJobs' \in Seq(PwSummaries)
    BY <2>2, <2>3
  <2>5. pwCall' \in [PwEvents -> PwHandlers]
    BY <1>7, <1>9 DEF PwSchedule
  <2> QED
    BY <1>9, <2>4, <2>5 DEF PwSchedule, PresenceGrows
<1>10. ASSUME NEW e \in PwEvents, PwGiveUp(e) PROVE Goal
  <2>1. pwCall' \in [PwEvents -> PwHandlers]
    BY <1>7, <1>10 DEF PwGiveUp
  <2> QED
    BY <1>10, <2>1 DEF PwGiveUp, PresenceGrows
<1>11. ASSUME NEW i \in DOMAIN pwJobs, PwRun(i) PROVE Goal
  <2>1. PICK posted \in BOOLEAN : pwJobs' = [pwJobs EXCEPT ![i].state = "done", ![i].posted = posted]
    BY <1>11 DEF PwRun
  <2>2. PICK mid : mid = [pwJobs EXCEPT ![i].state = "done"]
    OBVIOUS
  <2>3. PICK row : row = [pwJobs[i] EXCEPT !.state = "done"]
    OBVIOUS
  <2>4. row \in PwSummaries /\ mid = [pwJobs EXCEPT ![i] = row]
    <3>1. pwJobs[i] \in PwSummaries
      OBVIOUS
    <3> QED
      BY <2>2, <2>3, <3>1 DEF PwSummaries
  <2>5. mid \in Seq(PwSummaries) /\ Len(mid) = Len(pwJobs) /\ mid[i] = row
    BY <2>4, ExceptSeq
  <2>6. PICK last : last = [mid[i] EXCEPT !.posted = posted]
    OBVIOUS
  <2>7. last \in PwSummaries /\ pwJobs' = [mid EXCEPT ![i] = last]
    BY <2>1, <2>2, <2>4, <2>5, <2>6 DEF PwSummaries
  <2>8. pwJobs' \in Seq(PwSummaries)
    BY <2>5, <2>7, ExceptSeq
  <2> QED
    BY <1>11, <2>8 DEF PwRun, PresenceGrows
<1> QED
  BY <1>1, <1>2, <1>3, <1>5, <1>6, <1>8, <1>9, <1>10, <1>11 DEF PwNext

\* PwRead, PwSave and PwSchedule: every step keeps what the handlers know.
LEMMA HandlersStep ==
  ASSUME PresenceTypes, HandlersTrue, [PwNext]_pwVars, PresenceTypes', PresenceGrows
  PROVE  HandlersTrue'
<1> USE PwAssumption
<1>1. \A e \in PwEvents : pwCall[e] \in PwHandlers /\ HandlerRead(pwCall[e])
  BY DEF PresenceTypes, HandlersTrue
<1>2. ASSUME NEW e \in PwEvents, pwCall'[e] = pwCall[e] PROVE HandlerRead(pwCall[e])'
  <2>1. PICK call : call = pwCall[e]
    OBVIOUS
  <2>2. HandlerRead(call)'
    BY <1>1, <2>1, HandlerKept
  <2> QED
    BY <1>2, <2>1, <2>2
<1>3. ASSUME NEW e \in PwEvents, NEW call, pwCall' = [pwCall EXCEPT ![e] = call], HandlerRead(call)'
      PROVE  HandlersTrue'
  <2>1. ASSUME NEW d \in PwEvents PROVE HandlerRead(pwCall[d])'
    <3>1. CASE d = e BY <1>3, <3>1 DEF PresenceTypes
    <3>2. CASE d # e
      <4>1. pwCall'[d] = pwCall[d]
        BY <1>3, <3>2 DEF PresenceTypes
      <4> QED
        BY <1>2, <4>1
    <3> QED
      BY <3>1, <3>2
  <2> QED
    BY <2>1 DEF HandlersTrue
<1>4. ASSUME pwCall' = pwCall PROVE HandlersTrue'
  BY <1>2, <1>4 DEF HandlersTrue
<1>5. ASSUME NEW e \in PwEvents, NEW at \in {"channel", "done"}, at = "channel" => PwIsWake(pwCall[e]),
             pwCall' = [pwCall EXCEPT ![e].at = at]
      PROVE  HandlersTrue'
  <2>1. PICK old : old = pwCall[e]
    OBVIOUS
  <2>2. PICK call : call = [old EXCEPT !.at = at]
    OBVIOUS
  <2>3. old \in PwHandlers /\ HandlerRead(old)'
    BY <1>1, <2>1, HandlerKept
  <2>4. /\ call.at = at /\ call.status = old.status /\ call.prev = old.prev
        /\ call.now = old.now /\ call.seen = old.seen /\ call.saved = old.saved
    BY <2>2, <2>3 DEF PwHandlers
  <2>5. PwIsWake(old)' <=> PwIsWake(old)
    BY <1>1, <2>1, WakeKept
  <2>6. PwIsWake(call)' <=> PwIsWake(old)'
    BY <2>4 DEF PwIsWake
  <2>7. HandlerRead(call)'
    BY <1>5, <2>1, <2>3, <2>4, <2>5, <2>6 DEF HandlerRead
  <2>8. pwCall' = [pwCall EXCEPT ![e] = call]
    BY <1>5, <2>1, <2>2
  <2> QED
    BY <1>3, <2>7, <2>8
<1>6. ASSUME NEW e \in PwEvents, NEW status \in PwStatuses, PwRead(e, status)
      PROVE HandlersTrue'
  <2>1. PICK prev \in {0} \cup PwLatest :
          pwCall' = [pwCall EXCEPT ![e] = [at |-> "save", status |-> status, prev |-> prev, now |-> pwClock,
                                           seen |-> Len(pwRows), saved |-> 0]]
    BY <1>6 DEF PwRead
  <2>2. PICK call : call = [at |-> "save", status |-> status, prev |-> prev, now |-> pwClock,
                            seen |-> Len(pwRows), saved |-> 0]
    OBVIOUS
  <2>3. UNCHANGED <<pwRows, pwClock>>
    BY <1>6 DEF PwRead
  <2>4. prev \in {0} \cup DOMAIN pwRows
    BY DEF PwLatest
  <2>5. prev # 0 => \A r \in 1..Len(pwRows) : PwText(pwRows[r].at) <= PwText(pwRows[prev].at)
    BY DEF PwLatest, PresenceTypes
  <2>6. HandlerRead(call)'
    BY <2>2, <2>3, <2>4, <2>5 DEF HandlerRead, PresenceTypes
  <2> QED
    BY <1>3, <2>1, <2>2, <2>6
<1>7. ASSUME NEW e \in PwEvents, PwSave(e) PROVE HandlersTrue'
  <2> DEFINE new == Len(pwRows) + 1
  <2>1. PICK old : old = pwCall[e]
    OBVIOUS
  <2>2. /\ old \in PwHandlers /\ HandlerRead(old) /\ HandlerRead(old)' /\ old.at = "save"
        /\ new \in Nat
    BY <1>1, <1>7, <2>1, HandlerKept DEF PwSave, PresenceTypes
  <2>3. PICK at \in {"channel", "done"} :
          /\ at = PwAfterSave(old)
          /\ pwCall' = [pwCall EXCEPT ![e] = [old EXCEPT !.at = at, !.saved = new]]
    BY <1>7, <2>1 DEF PwSave, PwAfterSave
  <2>4. PICK call : call = [at |-> at, status |-> old.status, prev |-> old.prev, now |-> old.now,
                            seen |-> old.seen, saved |-> new]
    OBVIOUS
  <2>5. [old EXCEPT !.at = at, !.saved = new] = call
    BY <2>2, <2>4, Saving
  <2>6. new \in DOMAIN pwRows' /\ pwRows'[new].at = old.now
    BY <1>7, <2>1 DEF PwSave, PresenceTypes
  <2>7. old.seen < new
    BY <2>2 DEF HandlerRead, PresenceTypes, PwHandlers
  <2>8. PwIsWake(old)' <=> PwIsWake(old)
    BY <2>2, WakeKept
  <2>9. PwIsWake(call)' <=> PwIsWake(old)'
    BY <2>4 DEF PwIsWake
  <2>10. at = "channel" => PwIsWake(old)
    BY <2>3 DEF PwAfterSave
  <2>11. HandlerRead(call)'
    BY <2>2, <2>4, <2>6, <2>7, <2>8, <2>9, <2>10 DEF HandlerRead
  <2> QED
    BY <1>3, <2>3, <2>5, <2>11
<1>8. ASSUME NEW e \in PwEvents, PwSaveFails(e) PROVE HandlersTrue'
  <2>1. PICK at \in {"channel", "done"} :
          (at = "channel" => PwIsWake(pwCall[e])) /\ pwCall' = [pwCall EXCEPT ![e].at = at]
    BY <1>8 DEF PwSaveFails, PwAfterSave
  <2> QED
    BY <1>5, <2>1
<1>9. ASSUME NEW e \in PwEvents, PwSchedule(e) \/ PwGiveUp(e) PROVE HandlersTrue'
  BY <1>5, <1>9 DEF PwSchedule, PwGiveUp
<1>10. ASSUME NEW i \in DOMAIN pwJobs, PwRun(i) PROVE HandlersTrue'
  BY <1>4, <1>10 DEF PwRun
<1>11. PwPass \/ PwTalk \/ UNCHANGED pwVars => HandlersTrue'
  BY <1>4 DEF PwPass, PwTalk, pwVars
<1> QED
  BY <1>6, <1>7, <1>8, <1>9, <1>10, <1>11 DEF PwNext

\* PwSchedule: every step keeps what the wake summaries are.
LEMMA SummariesStep ==
  ASSUME PresenceTypes, HandlersTrue, SummariesTrue, [PwNext]_pwVars, PresenceTypes',
         PresenceGrows
  PROVE  SummariesTrue'
<1> USE PwAssumption
<1> DEFINE True(i) == LET call == pwCall[pwJobs[i].event] IN
                      call.at = "done" /\ PwIsWake(call) /\ pwJobs[i].since = call.prev
<1>1. \A e \in PwEvents : pwCall[e] \in PwHandlers /\ HandlerRead(pwCall[e])
  BY DEF PresenceTypes, HandlersTrue
<1>2. \A i \in DOMAIN pwJobs : pwJobs[i].event \in PwEvents /\ True(i)
  <2>1. \A i \in DOMAIN pwJobs : pwJobs[i] \in PwSummaries
    BY DEF PresenceTypes
  <2> QED
    BY <2>1 DEF PwSummaries, SummariesTrue
<1>3. ASSUME NEW i \in DOMAIN pwJobs', NEW k \in DOMAIN pwJobs,
             pwJobs'[i].event = pwJobs[k].event, pwJobs'[i].since = pwJobs[k].since,
             pwCall'[pwJobs[k].event] = pwCall[pwJobs[k].event]
      PROVE  True(i)'
  <2>1. PICK call : call = pwCall[pwJobs[k].event]
    OBVIOUS
  <2>2. call \in PwHandlers /\ HandlerRead(call) /\ call.at = "done" /\ PwIsWake(call)
        /\ pwJobs[k].since = call.prev
    BY <1>1, <1>2, <2>1
  <2>3. PwIsWake(call)'
    BY <2>2, WakeKept
  <2> QED
    BY <1>3, <2>1, <2>2, <2>3
<1>4. ASSUME NEW e \in PwEvents, pwCall[e].at # "done", \A d \in PwEvents : d # e => pwCall'[d] = pwCall[d],
             pwJobs' = pwJobs
      PROVE  SummariesTrue'
  <2>1. \A i \in DOMAIN pwJobs : pwJobs[i].event # e
    BY <1>2, <1>4
  <2>2. \A i \in DOMAIN pwJobs' : True(i)'
    BY <1>2, <1>3, <1>4, <2>1
  <2> QED
    BY <2>2 DEF SummariesTrue
<1>5. ASSUME pwCall' = pwCall, pwJobs' = pwJobs PROVE SummariesTrue'
  <2>1. \A i \in DOMAIN pwJobs' : True(i)'
    BY <1>3, <1>5
  <2> QED
    BY <2>1 DEF SummariesTrue
<1>6. ASSUME NEW e \in PwEvents,
             PwSave(e) \/ PwSaveFails(e) \/ PwGiveUp(e) \/ \E status \in PwStatuses : PwRead(e, status)
      PROVE  SummariesTrue'
  <2>1. /\ pwCall[e].at # "done" /\ pwJobs' = pwJobs
        /\ \A d \in PwEvents : d # e => pwCall'[d] = pwCall[d]
    BY <1>6 DEF PwSave, PwSaveFails, PwGiveUp, PwRead, PresenceTypes
  <2> QED
    BY <1>4, <2>1
<1>7. ASSUME NEW e \in PwEvents, PwSchedule(e) PROVE SummariesTrue'
  <2>1. PICK job : job = [since |-> pwCall[e].prev, event |-> e, state |-> "pending", posted |-> FALSE]
    OBVIOUS
  <2>2. pwJobs' = Append(pwJobs, job) /\ pwCall' = [pwCall EXCEPT ![e].at = "done"] /\ pwCall[e].at = "channel"
    BY <1>7, <2>1 DEF PwSchedule
  <2>3. \A d \in PwEvents : d # e => pwCall'[d] = pwCall[d]
    BY <2>2 DEF PresenceTypes
  <2>4. ASSUME NEW i \in DOMAIN pwJobs', i # Len(pwJobs) + 1 PROVE True(i)'
    <3>1. i \in DOMAIN pwJobs /\ pwJobs'[i] = pwJobs[i]
      BY <2>2, <2>4 DEF PresenceTypes
    <3>2. pwJobs[i].event # e
      BY <1>2, <2>2, <3>1
    <3> QED
      BY <1>2, <1>3, <2>3, <3>1, <3>2
  <2>5. ASSUME NEW i, i = Len(pwJobs) + 1 PROVE True(i)'
    <3>1. pwJobs'[i] = job /\ job.event = e /\ job.since = pwCall[e].prev
      BY <2>1, <2>2, <2>5 DEF PresenceTypes
    <3>2. PICK old, call : old = pwCall[e] /\ call = pwCall'[e]
      OBVIOUS
    <3>3. call.at = "done" /\ call.status = old.status /\ call.prev = old.prev /\ call.now = old.now
      BY <1>1, <2>2, <3>2 DEF PresenceTypes, PwHandlers
    <3>4. old \in PwHandlers /\ HandlerRead(old) /\ PwIsWake(old)
      BY <1>1, <2>2, <3>2 DEF HandlerRead
    <3>5. PwIsWake(old)'
      BY <3>4, WakeKept
    <3>6. PwIsWake(call)'
      BY <3>3, <3>5 DEF PwIsWake
    <3> QED
      BY <3>1, <3>2, <3>3, <3>6
  <2> QED
    BY <2>4, <2>5 DEF SummariesTrue
<1>8. ASSUME NEW j \in DOMAIN pwJobs, PwRun(j) PROVE SummariesTrue'
  <2>1. PICK posted \in BOOLEAN : pwJobs' = [pwJobs EXCEPT ![j].state = "done", ![j].posted = posted]
    BY <1>8 DEF PwRun
  <2>2. pwCall' = pwCall
    BY <1>8 DEF PwRun
  <2>3. DOMAIN pwJobs' = DOMAIN pwJobs
    BY <2>1
  <2>4. \A i \in DOMAIN pwJobs : pwJobs'[i].event = pwJobs[i].event /\ pwJobs'[i].since = pwJobs[i].since
    <3>1. PICK mid : mid = [pwJobs EXCEPT ![j].state = "done"]
      OBVIOUS
    <3>2. \A i \in DOMAIN pwJobs : mid[i].event = pwJobs[i].event /\ mid[i].since = pwJobs[i].since
      BY <3>1
    <3>3. pwJobs' = [mid EXCEPT ![j].posted = posted] /\ DOMAIN mid = DOMAIN pwJobs
      BY <2>1, <3>1
    <3>4. \A i \in DOMAIN pwJobs : pwJobs'[i].event = mid[i].event /\ pwJobs'[i].since = mid[i].since
      BY <3>3
    <3> QED
      BY <3>2, <3>4
  <2>5. \A i \in DOMAIN pwJobs' : True(i)'
    BY <1>3, <2>2, <2>3, <2>4
  <2> QED
    BY <2>5 DEF SummariesTrue
<1>9. PwPass \/ PwTalk \/ UNCHANGED pwVars => SummariesTrue'
  BY <1>5 DEF PwPass, PwTalk, pwVars
<1> QED
  BY <1>6, <1>7, <1>8, <1>9 DEF PwNext

\* At first there are no snapshots, and no handler has begun.
LEMMA PwInitInv == PwInit => PwInv
<1> SUFFICES ASSUME PwInit PROVE PwInv
  OBVIOUS
<1> USE PwAssumption DEF PwInit
<1>1. PwNew \in PwHandlers
  BY DEF PwNew, PwHandlers, PwStatuses
<1>2. PresenceTypes
  <2>1. 0 \in 0..PwMaxClock
    OBVIOUS
  <2> QED
    BY <1>1, <2>1 DEF PresenceTypes
<1>3. HandlersTrue
  BY DEF HandlersTrue, HandlerRead, PwNew
<1>4. SummariesTrue
  BY DEF SummariesTrue
<1> QED
  BY <1>2, <1>3, <1>4 DEF PwInv

\* Every step keeps the invariant.
LEMMA PwInvStep == PwInv /\ [PwNext]_pwVars => PwInv'
<1> SUFFICES ASSUME PwInv, [PwNext]_pwVars PROVE PwInv'
  OBVIOUS
<1> USE DEF PwInv
<1>1. PresenceTypes' /\ PresenceGrows
  BY PresenceStep
<1>2. HandlersTrue' /\ SummariesTrue'
  BY <1>1, HandlersStep, SummariesStep
<1> QED
  BY <1>1, <1>2

\* So it always holds.
LEMMA PwInvAlways == PwSpec => []PwInv
BY PwInitInv, PwInvStep, PTL DEF PwSpec

\* What the theorems say of one state.
LEMMA SummariesFacts ==
  ASSUME PwInv, NEW i \in DOMAIN pwJobs
  PROVE  /\ pwJobs[i].event \in PwEvents /\ pwCall[pwJobs[i].event] \in PwHandlers
         /\ HandlerRead(pwCall[pwJobs[i].event]) /\ PwIsWake(pwCall[pwJobs[i].event])
         /\ pwJobs[i].since = pwCall[pwJobs[i].event].prev
         /\ pwJobs[i].since \in DOMAIN pwRows
         /\ \A r \in DOMAIN pwRows : pwRows[r].at \in Nat
<1>1. pwJobs[i] \in PwSummaries
  BY DEF PwInv, PresenceTypes
<1>2. pwJobs[i].event \in PwEvents
  BY <1>1 DEF PwSummaries
<1>3. /\ pwCall[pwJobs[i].event] \in PwHandlers /\ HandlerRead(pwCall[pwJobs[i].event])
      /\ PwIsWake(pwCall[pwJobs[i].event]) /\ pwJobs[i].since = pwCall[pwJobs[i].event].prev
  BY <1>2 DEF PwInv, PresenceTypes, HandlersTrue, SummariesTrue
<1>4. pwJobs[i].since \in DOMAIN pwRows
  BY <1>3 DEF PwIsWake, HandlerRead
<1>5. \A r \in DOMAIN pwRows : pwRows[r] \in PwSnapshots
  BY DEF PwInv, PresenceTypes
<1> QED
  BY <1>2, <1>3, <1>4, <1>5 DEF PwSnapshots

\* The variables of presence have their types.
THEOREM PresenceTypeCorrect == PwSpec => []PwTypeOK
<1>1. ASSUME PwInv PROVE PwTypeOK
  <2>1. \A i \in DOMAIN pwRows : pwRows[i] \in PwSnapshots /\ pwRows[i].at <= pwClock
    BY <1>1 DEF PwInv, PresenceTypes
  <2>2. \A i \in DOMAIN pwRows : pwRows[i].status \in PwStatuses /\ pwRows[i].at \in 0..pwClock
    BY <1>1, <2>1 DEF PwSnapshots, PwInv, PresenceTypes
  <2>3. ASSUME NEW e \in PwEvents
        PROVE  /\ pwCall[e].at \in {"new", "save", "channel", "done"} /\ pwCall[e].status \in PwStatuses
               /\ pwCall[e].prev \in {0} \cup DOMAIN pwRows /\ pwCall[e].saved \in {0} \cup DOMAIN pwRows
    <3>1. pwCall[e] \in PwHandlers /\ HandlerRead(pwCall[e])
      BY <1>1 DEF PwInv, PresenceTypes, HandlersTrue
    <3> QED
      BY <3>1 DEF PwHandlers, HandlerRead
  <2>4. \A i \in DOMAIN pwJobs : pwJobs[i].since \in DOMAIN pwRows /\ pwJobs[i].event \in PwEvents
    BY <1>1, SummariesFacts
  <2>5. pwClock \in 0..PwMaxClock
    BY <1>1 DEF PwInv, PresenceTypes
  <2> QED
    BY <2>2, <2>3, <2>4, <2>5 DEF PwTypeOK
<1> QED
  BY PwInvAlways, <1>1, PTL

\* processPresence reads the last snapshot and saves the new one: a second summary of one
\* absence needs two handlers at once, or a snapshot that was not saved.
THEOREM WokenOnce == PwSpec => []PwWokenOnce
<1>1. ASSUME PwInv PROVE PwWokenOnce
  <2> SUFFICES ASSUME NEW i \in DOMAIN pwJobs, NEW j \in DOMAIN pwJobs,
                      pwJobs[i].since = pwJobs[j].since,
                      pwCall[pwJobs[j].event].saved # 0,
                      ~(pwCall[pwJobs[i].event].seen < pwCall[pwJobs[j].event].saved)
               PROVE  FALSE
    BY DEF PwWokenOnce
  <2>1. PICK mine, other : mine = pwCall[pwJobs[i].event] /\ other = pwCall[pwJobs[j].event]
    OBVIOUS
  <2>2. /\ mine \in PwHandlers /\ HandlerRead(mine) /\ PwIsWake(mine)
        /\ other \in PwHandlers /\ HandlerRead(other) /\ PwIsWake(other)
        /\ mine.prev = other.prev /\ mine.prev \in DOMAIN pwRows
        /\ \A r \in DOMAIN pwRows : pwRows[r].at \in Nat
    BY <1>1, <2>1, SummariesFacts
  <2>3. other.saved \in DOMAIN pwRows /\ pwRows[other.saved].at = other.now
    BY <2>1, <2>2 DEF HandlerRead
  <2>4. other.now >= pwRows[other.prev].at + PwThreshold
    BY <2>2 DEF PwIsWake
  <2>5. other.saved \in 1..mine.seen
    BY <2>1, <2>2, <2>3 DEF PwHandlers, PwInv, PresenceTypes
  <2>6. PwText(pwRows[other.saved].at) <= PwText(pwRows[mine.prev].at)
    BY <2>2, <2>5 DEF HandlerRead, PwIsWake
  <2>7. pwRows[other.saved].at < pwRows[mine.prev].at + 4
    BY <2>2, <2>3, <2>6, TextOrder
  <2>8. PICK a \in Nat, b \in Nat : a = pwRows[mine.prev].at /\ b = pwRows[other.saved].at
    BY <2>2, <2>3
  <2> QED
    BY <2>2, <2>3, <2>4, <2>7, <2>8, PwAssumption
<1> QED
  BY PwInvAlways, <1>1, PTL

\* LastPresence orders by the texts of times: a wake summary begins when the owner was away
\* last, but for times of one second.
THEOREM SinceIsLast == PwSpec => []PwSinceIsLast
<1>1. ASSUME PwInv PROVE PwSinceIsLast
  <2>1. ASSUME NEW i \in DOMAIN pwJobs
        PROVE  /\ PwIsOffline(pwRows[pwJobs[i].since].status)
               /\ \A r \in 1..pwCall[pwJobs[i].event].seen :
                    pwRows[r].at > pwRows[pwJobs[i].since].at =>
                      PwSecond(pwRows[r].at) = PwSecond(pwRows[pwJobs[i].since].at)
    <3>1. PICK call : call = pwCall[pwJobs[i].event]
      OBVIOUS
    <3>2. /\ call \in PwHandlers /\ HandlerRead(call) /\ PwIsWake(call)
          /\ pwJobs[i].since = call.prev /\ call.prev \in DOMAIN pwRows
          /\ \A r \in DOMAIN pwRows : pwRows[r].at \in Nat
      BY <1>1, <3>1, SummariesFacts
    <3>3. ASSUME NEW r \in 1..call.seen, pwRows[r].at > pwRows[call.prev].at
          PROVE  PwSecond(pwRows[r].at) = PwSecond(pwRows[call.prev].at)
      <4>1. r \in DOMAIN pwRows
        BY <1>1, <3>2 DEF HandlerRead, PwHandlers, PwInv, PresenceTypes
      <4>2. PwText(pwRows[r].at) <= PwText(pwRows[call.prev].at)
        BY <3>2, <3>3 DEF HandlerRead, PwIsWake
      <4> QED
        BY <3>2, <3>3, <4>1, <4>2, TextOrder
    <3> QED
      BY <3>1, <3>2, <3>3 DEF PwIsWake
  <2> QED
    BY <2>1 DEF PwSinceIsLast
<1> QED
  BY PwInvAlways, <1>1, PTL

-----------------------------------------------------------------------------
(* The guild.  The inductive invariant GsInv.                              *)

\* Names and channels as records.
GsNames == [stem : STRING \cup {"archive"}, upper : BOOLEAN, prefixes : Nat]
GsRows == [kind : GsKinds, name : GsNames, parent : Nat]

\* Channels are within the bound, and stand at the root or in a category.
GuildTypes ==
  /\ gsGuild \in Seq(GsRows) /\ Len(gsGuild) <= GsMaxChannels
  /\ \A i \in GsChannels : gsGuild[i].parent \in {0} \cup GsOfKind("category")

\* A call is a record with the fields of the request it is at.
CallShape(call) ==
  /\ call.at \in {"idle", "list", "create", "move", "fetch", "file", "prefix", "default", "set", "survey"}
  /\ call.at \in {"list", "create"} =>
       call = [at |-> call.at, kind |-> call.kind, name |-> call.name, parent |-> call.parent,
               next |-> call.next, seen |-> call.seen]
  /\ call.at \in {"file", "prefix"} =>
       call = [at |-> call.at, chan |-> call.chan, into |-> call.into, prefix |-> call.prefix,
               name |-> call.name]
  /\ call.at = "survey" =>
       call = [at |-> call.at, step |-> call.step, texts |-> call.texts, heard |-> call.heard,
               active |-> call.active, cut |-> call.cut]

\* A call that ensures a channel knows its kind and name, and what follows; one that files
\* a channel knows the name it had.
CallValues(call) ==
  /\ call.at \in {"list", "create"} =>
       /\ call.kind \in GsKinds /\ call.name \in GsNames
       /\ call.next.do \in {"none", "text", "file"}
       /\ call.next.do # "none" => call.kind = "category"
       /\ call.next.do = "text" => call.next.name \in GsNames
  /\ call.at \in {"file", "prefix"} => call.name \in GsNames

\* What calls act on are channels, and what they put them in are categories.
CallPlaces(call) ==
  /\ call.at \in {"list", "create"} =>
       /\ call.parent \in {0} \cup GsOfKind("category")
       /\ call.next.do = "file" => call.next.chan \in GsChannels
  /\ call.at = "create" => call.seen \in 0..Len(gsGuild)
  /\ call.at = "move" => call.chan \in GsChannels /\ call.parent \in {0} \cup GsOfKind("category")
  /\ call.at \in {"fetch", "file", "prefix"} =>
       call.chan \in GsChannels /\ call.into \in GsOfKind("category")
  /\ call.at \in {"default", "set"} => call.chan \in GsChannels

\* A call that is to create a channel saw none of its kind and name among the first it
\* listed, and there is none now unless it was renamed.
CallLooked(call) ==
  call.at = "create" =>
    \A i \in GsChannels \ gsRenamed :
      i <= call.seen /\ gsGuild[i].kind = call.kind => ~GsSame(gsGuild[i].name, call.name)

\* A call that gives the defaults found no profile.
CallFirst(call) == call.at = "default" => call.read = GsNone

\* A call as it should be.
CallTrue(call) ==
  CallShape(call) /\ CallValues(call) /\ CallPlaces(call) /\ CallLooked(call) /\ CallFirst(call)

\* Every goroutine has such a call.
CallsTrue == DOMAIN gsCall = GsCallers /\ \A c \in GsCallers : CallTrue(gsCall[c])

\* Profiles and messages are of channels, as is what was renamed.
TalkTypes ==
  /\ DOMAIN gsProfile = GsIds /\ \A i \in GsIds : gsProfile[i] # GsNone => i \in GsChannels
  /\ \A g \in DOMAIN gsTalk : g[1] \in GsChannels /\ gsTalk[g] \in Nat \ {0}
  /\ gsSeen \in [GsIds -> Nat] /\ gsRenamed \subseteq GsChannels

\* What a survey heard is of messages that are still in the window; and what it heard when it
\* listed the channels is among what it heard at last, unless rows were cut.
SurveyTrue(call) ==
  /\ call.step \in 1..3 /\ call.heard \subseteq GsHeard(DOMAIN gsTalk)
  /\ call.step = 3 /\ ~call.cut => call.heard \subseteq call.active

\* Every survey is such, and the window holds finitely many groups of messages.
SurveysTrue ==
  /\ IsFiniteSet(DOMAIN gsTalk)
  /\ \A c \in GsCallers : gsCall[c].at = "survey" => SurveyTrue(gsCall[c])

\* The invariant.
GsInv == GuildTypes /\ CallsTrue /\ TalkTypes /\ SurveysTrue /\ GsTwinsOverlapped

\* Channels come at the end, keep their kinds and, unless they are renamed, their names.
GuildGrows ==
  /\ Len(gsGuild') >= Len(gsGuild) /\ gsRenamed \subseteq gsRenamed'
  /\ \A i \in GsChannels :
       /\ i \in GsChannels' /\ gsGuild'[i].kind = gsGuild[i].kind
       /\ i \notin gsRenamed' => gsGuild'[i].name = gsGuild[i].name
  /\ \/ Len(gsGuild') = Len(gsGuild) /\ gsSeen' = gsSeen
     \/ \E c \in GsCallers : GsCreate(c)

\* A name as Discord takes it is a name.
LEMMA NamesKept ==
  ASSUME NEW name \in GsNames
  PROVE  GsSanitized(name) \in GsNames /\ GsSanitized([name EXCEPT !.prefixes = @ + 1]) \in GsNames
<1>1. [name EXCEPT !.prefixes = @ + 1] \in GsNames
  BY DEF GsNames
<1>2. \A other \in GsNames : [other EXCEPT !.upper = FALSE] \in GsNames
  BY DEF GsNames
<1> QED
  BY <1>1, <1>2 DEF GsSanitized

\* The names that tools give are names.
LEMMA NamesGiven ==
  ASSUME NEW stem \in GsCategories \cup GsTexts \cup {"archive"}, NEW upper \in BOOLEAN
  PROVE  GsName(stem, upper) \in GsNames
<1>1. stem \in STRING \cup {"archive"}
  BY GsAssumption
<1> QED
  BY <1>1 DEF GsNames, GsName

\* What follows a channel that is there.
LEMMA Proceeding ==
  ASSUME NEW c, NEW i, GsProceed(c, i), gsCall[c].next.do \in {"none", "text", "file"}
  PROVE  \/ gsCall[c].next.do = "none" /\ GsGoTo(c, GsIdle)
         \/ /\ gsCall[c].next.do = "text"
            /\ GsGoTo(c, GsEnsure("text", gsCall[c].next.name, i, [do |-> "none"]))
         \/ /\ gsCall[c].next.do = "file"
            /\ GsGoTo(c, [at |-> "fetch", chan |-> gsCall[c].next.chan,
                          prefix |-> gsCall[c].next.prefix, into |-> i])
<1> DEFINE next == gsCall[c].next
<1>1. CASE next.do = "none" BY <1>1 DEF GsProceed
<1>2. CASE next.do = "text" BY <1>2 DEF GsProceed
<1>3. CASE next.do = "file" BY <1>3 DEF GsProceed
<1> QED
  BY <1>1, <1>2, <1>3

\* What is true of the other calls stays true.
LEMMA CallKept ==
  ASSUME NEW call, CallTrue(call), GuildGrows, TalkTypes, gsGuild \in Seq(GsRows),
         gsGuild' \in Seq(GsRows)
  PROVE  CallTrue(call)'
<1> USE DEF CallTrue, GuildGrows, GsChannels, GsOfKind, TalkTypes
<1>1. CallShape(call)' /\ CallValues(call)' /\ CallFirst(call)'
  BY DEF CallShape, CallValues, CallFirst
<1>2. GsOfKind("category") \subseteq GsOfKind("category")' /\ GsChannels \subseteq GsChannels'
  OBVIOUS
<1>3. CallPlaces(call)'
  BY <1>2 DEF CallPlaces
<1>4. CallLooked(call)'
  BY DEF CallLooked, CallPlaces
<1> QED
  BY <1>1, <1>3, <1>4

\* A goroutine with nothing to do.
LEMMA IdleIsTrue == CallTrue(GsIdle) /\ CallTrue(GsIdle)'
BY DEF CallTrue, CallShape, CallValues, CallPlaces, CallLooked, CallFirst, GsIdle

\* A step of one goroutine.
LEMMA CallSteps ==
  ASSUME NEW c \in GsCallers, NEW call, GsGoTo(c, call), CallTrue(call)',
         CallsTrue, GuildGrows, TalkTypes, gsGuild \in Seq(GsRows), gsGuild' \in Seq(GsRows)
  PROVE  CallsTrue'
<1>1. ASSUME NEW d \in GsCallers PROVE CallTrue(gsCall[d])'
  <2>1. CASE d = c BY <2>1 DEF GsGoTo, CallsTrue
  <2>2. CASE d # c
    <3>1. CallTrue(gsCall[d]) /\ gsCall'[d] = gsCall[d]
      BY <2>2 DEF GsGoTo, CallsTrue
    <3>2. PICK other : other = gsCall[d]
      OBVIOUS
    <3>3. CallTrue(other)'
      BY <3>1, <3>2, CallKept
    <3> QED
      BY <3>1, <3>2, <3>3
  <2> QED
    BY <2>1, <2>2
<1> QED
  BY <1>1 DEF CallsTrue, GsGoTo

\* GsList: the call that found nothing is to create the channel.
LEMMA Creating ==
  ASSUME NEW old, NEW n,
         old = [at |-> old.at, kind |-> old.kind, name |-> old.name, parent |-> old.parent,
                next |-> old.next, seen |-> old.seen]
  PROVE  [old EXCEPT !.at = "create", !.seen = n] =
           [at |-> "create", kind |-> old.kind, name |-> old.name, parent |-> old.parent,
            next |-> old.next, seen |-> n]
<1>1. PICK first : first = [old EXCEPT !.at = "create"]
  OBVIOUS
<1>2. first = [at |-> "create", kind |-> old.kind, name |-> old.name, parent |-> old.parent,
               next |-> old.next, seen |-> old.seen]
  BY <1>1
<1>3. PICK kind, name, parent, next :
        kind = old.kind /\ name = old.name /\ parent = old.parent /\ next = old.next
  OBVIOUS
<1>4. first = [at |-> "create", kind |-> kind, name |-> name, parent |-> parent, next |-> next,
               seen |-> old.seen]
  BY <1>2, <1>3
<1>5. [first EXCEPT !.seen = n] =
        [at |-> "create", kind |-> kind, name |-> name, parent |-> parent, next |-> next, seen |-> n]
  BY <1>4
<1>6. [old EXCEPT !.at = "create", !.seen = n] = [first EXCEPT !.seen = n]
  BY <1>1
<1> QED
  BY <1>3, <1>5, <1>6

\* GsWindow: a survey hears nothing any more.
LEMMA Unhearing ==
  ASSUME NEW old,
         old = [at |-> old.at, step |-> old.step, texts |-> old.texts, heard |-> old.heard,
                active |-> old.active, cut |-> old.cut]
  PROVE  [old EXCEPT !.heard = {}] =
           [at |-> old.at, step |-> old.step, texts |-> old.texts, heard |-> {},
            active |-> old.active, cut |-> old.cut]
OBVIOUS

\* Every step keeps the types of the guild, and no step takes a channel away or changes
\* its kind.
LEMMA GuildStep ==
  ASSUME GuildTypes, CallsTrue, TalkTypes, [GsNext]_gsVars
  PROVE  GuildTypes' /\ GuildGrows
<1> DEFINE Goal == GuildTypes' /\ GuildGrows
<1> USE GsAssumption DEF GuildTypes, GsChannels, GsOfKind
<1>1. CASE UNCHANGED <<gsGuild, gsSeen, gsRenamed>> BY <1>1 DEF GuildGrows
<1>2. ASSUME NEW i \in GsChannels, NEW parent \in {0} \cup GsOfKind("category"),
             gsGuild' = [gsGuild EXCEPT ![i].parent = parent], UNCHANGED <<gsSeen, gsRenamed>>
      PROVE  Goal
  <2>1. PICK row : row = [gsGuild[i] EXCEPT !.parent = parent]
    OBVIOUS
  <2>2. row \in GsRows /\ row.kind = gsGuild[i].kind /\ row.name = gsGuild[i].name /\ row.parent = parent
    <3>1. gsGuild[i] \in GsRows /\ parent \in Nat
      OBVIOUS
    <3> QED
      BY <2>1, <3>1 DEF GsRows
  <2>3. gsGuild' = [gsGuild EXCEPT ![i] = row]
    BY <1>2, <2>1
  <2>4. gsGuild' \in Seq(GsRows) /\ Len(gsGuild') = Len(gsGuild)
    BY <2>2, <2>3, ExceptSeq
  <2>5. \A k \in DOMAIN gsGuild :
          /\ gsGuild'[k].kind = gsGuild[k].kind /\ gsGuild'[k].name = gsGuild[k].name
          /\ gsGuild'[k].parent = IF k = i THEN parent ELSE gsGuild[k].parent
    BY <2>2, <2>3
  <2>6. GuildTypes'
    <3>1. GsChannels' = GsChannels /\ GsOfKind("category")' = GsOfKind("category")
      BY <2>4, <2>5
    <3>2. \A k \in GsChannels : gsGuild'[k].parent \in {0} \cup GsOfKind("category")
      BY <2>5
    <3> QED
      BY <2>4, <3>1, <3>2
  <2> QED
    BY <1>2, <2>4, <2>5, <2>6 DEF GuildGrows
<1>3. ASSUME NEW i \in GsChannels, NEW name \in GsNames,
             gsGuild' = [gsGuild EXCEPT ![i].name = name],
             gsRenamed' = gsRenamed \cup {i}, UNCHANGED gsSeen
      PROVE  Goal
  <2>1. PICK row : row = [gsGuild[i] EXCEPT !.name = name]
    OBVIOUS
  <2>2. row \in GsRows /\ row.kind = gsGuild[i].kind /\ row.parent = gsGuild[i].parent
    <3>1. gsGuild[i] \in GsRows
      OBVIOUS
    <3> QED
      BY <2>1, <3>1 DEF GsRows
  <2>3. gsGuild' = [gsGuild EXCEPT ![i] = row]
    BY <1>3, <2>1
  <2>4. gsGuild' \in Seq(GsRows) /\ Len(gsGuild') = Len(gsGuild)
    BY <2>2, <2>3, ExceptSeq
  <2>5. \A k \in DOMAIN gsGuild :
          /\ gsGuild'[k].kind = gsGuild[k].kind /\ gsGuild'[k].parent = gsGuild[k].parent
          /\ k # i => gsGuild'[k].name = gsGuild[k].name
    BY <2>2, <2>3
  <2>6. GuildTypes'
    BY <2>4, <2>5, SMTT(20)
  <2> QED
    BY <1>3, <2>4, <2>5, <2>6 DEF GuildGrows
<1>4. ASSUME NEW c \in GsCallers, GsCreate(c) PROVE Goal
  <2>1. PICK row : row = [kind |-> gsCall[c].kind, name |-> gsCall[c].name, parent |-> gsCall[c].parent]
    OBVIOUS
  <2>2. row \in GsRows /\ row.parent \in {0} \cup GsOfKind("category")
    BY <1>4, <2>1 DEF GsCreate, CallsTrue, CallTrue, CallValues, CallPlaces, GsRows
  <2>3. gsGuild' = Append(gsGuild, row) /\ gsRenamed' = gsRenamed /\ Len(gsGuild) + 1 <= GsMaxChannels
    BY <1>4, <2>1 DEF GsCreate
  <2>4. /\ gsGuild' \in Seq(GsRows) /\ Len(gsGuild') = Len(gsGuild) + 1
        /\ gsGuild'[Len(gsGuild) + 1] = row
        /\ \A k \in DOMAIN gsGuild : gsGuild'[k] = gsGuild[k]
    BY <2>2, <2>3, AppendProperties
  <2>5. GuildTypes'
    BY SMTT(20), <2>2, <2>3, <2>4
  <2>6. \E d \in GsCallers : GsCreate(d)
    BY <1>4
  <2>7. \A i \in GsChannels : i \in GsChannels' /\ gsGuild'[i] = gsGuild[i]
    BY <2>4
  <2>8. Len(gsGuild') >= Len(gsGuild)
    BY <2>4
  <2> HIDE DEF GuildTypes, GsChannels, GsOfKind
  <2> QED
    BY <2>3, <2>4, <2>5, <2>6, <2>7, <2>8 DEF GuildGrows
<1>5. ASSUME GsMove \/ GsRename PROVE Goal
  <2>1. CASE GsMove BY <1>2, <2>1 DEF GsMove, GsMovable
  <2>2. CASE GsRename
    <3>1. PICK i \in GsChannels, t \in GsTexts, upper \in BOOLEAN :
            /\ gsGuild' = [gsGuild EXCEPT ![i].name = GsSanitized(GsName(t, upper))]
            /\ gsRenamed' = gsRenamed \cup {i} /\ UNCHANGED gsSeen
      BY <2>2 DEF GsRename
    <3>2. GsSanitized(GsName(t, upper)) \in GsNames
      BY NamesGiven, NamesKept
    <3> QED
      BY <1>3, <3>1, <3>2
  <2> QED
    BY <1>5, <2>1, <2>2
<1>6. ASSUME NEW c \in GsCallers, GsMoveFound(c) \/ GsFile(c) \/ GsPrefix(c) PROVE Goal
  <2> USE DEF CallsTrue, CallTrue, CallValues, CallPlaces
  <2>1. CASE GsMoveFound(c) BY <1>2, <2>1 DEF GsMoveFound
  <2>2. CASE GsFile(c) BY <1>2, <2>2 DEF GsFile
  <2>3. CASE GsPrefix(c)
    <3>1. GsSanitized([gsCall[c].name EXCEPT !.prefixes = @ + 1]) \in GsNames
      BY <2>3, NamesKept DEF GsPrefix
    <3> QED
      BY <1>3, <2>3, <3>1 DEF GsPrefix
  <2> QED
    BY <1>6, <2>1, <2>2, <2>3
<1>7. ASSUME NEW c \in GsCallers,
             \/ GsSpace(c) \/ GsCreateChannel(c) \/ GsArchive(c) \/ GsList(c) \/ GsFetch(c)
             \/ GsFails(c) \/ GsSpeak(c) \/ GsDefault(c) \/ GsSetProfile(c) \/ GsSet(c)
             \/ GsSurvey(c) \/ GsLook(c) \/ GsAnswer(c)
      PROVE  UNCHANGED <<gsGuild, gsSeen, gsRenamed>>
  BY <1>7, Zenon DEF GsSpace, GsCreateChannel, GsArchive, GsList, GsFetch, GsFails, GsSpeak,
     GsDefault,
     GsSetProfile, GsSet, GsSurvey, GsLook, GsAnswer
<1>8. GsWindow => UNCHANGED <<gsGuild, gsSeen, gsRenamed>>
  BY DEF GsWindow
<1> QED
  BY <1>1, <1>4, <1>5, <1>6, <1>7, <1>8 DEF GsNext, gsVars

\* Every step keeps the calls as they should be.
LEMMA CallsStep ==
  ASSUME GuildTypes, CallsTrue, TalkTypes, GuildTypes', GuildGrows, [GsNext]_gsVars
  PROVE  CallsTrue'
<1> USE GsAssumption
<1>1. gsGuild \in Seq(GsRows) /\ gsGuild' \in Seq(GsRows)
  BY DEF GuildTypes
<1>2. ASSUME gsCall' = gsCall PROVE CallsTrue'
  <2>1. ASSUME NEW c \in GsCallers PROVE CallTrue(gsCall[c])'
    <3>1. PICK call : call = gsCall[c]
      OBVIOUS
    <3>2. CallTrue(call)'
      BY <1>1, <3>1, CallKept DEF CallsTrue
    <3> QED
      BY <1>2, <3>1, <3>2
  <2> QED
    BY <1>2, <2>1 DEF CallsTrue
<1>3. ASSUME NEW c \in GsCallers, GsGoTo(c, GsIdle) PROVE CallsTrue'
  BY <1>1, <1>3, CallSteps, IdleIsTrue
<1>4. ASSUME NEW c \in GsCallers, NEW kind \in {"category", "text"}, NEW name \in GsNames,
             NEW parent \in {0} \cup GsOfKind("category"), NEW next,
             /\ next.do \in {"none", "text", "file"}
             /\ next.do # "none" => kind = "category"
             /\ next.do = "text" => next.name \in GsNames
             /\ next.do = "file" => next.chan \in GsChannels,
             GsGoTo(c, GsEnsure(kind, name, parent, next))
      PROVE  CallsTrue'
  <2>1. PICK call : call = GsEnsure(kind, name, parent, next)
    OBVIOUS
  <2>2. parent \in {0} \cup GsOfKind("category")' /\ (next.do = "file" => next.chan \in GsChannels')
    BY <1>4 DEF GuildGrows, GsChannels, GsOfKind
  <2>3. call = [at |-> "list", kind |-> kind, name |-> name, parent |-> parent, next |-> next, seen |-> 0]
    BY <2>1 DEF GsEnsure
  <2>4. CallShape(call)' /\ CallValues(call)'
    BY <1>4, <2>3 DEF CallShape, CallValues, GsKinds
  <2>5. CallPlaces(call)' /\ CallLooked(call)' /\ CallFirst(call)'
    BY <1>4, <2>2, <2>3 DEF CallPlaces, CallLooked, CallFirst
  <2> QED
    BY <1>1, <1>4, <2>1, <2>4, <2>5, CallSteps DEF CallTrue
<1>5. ASSUME NEW c \in GsCallers, GsSpace(c) PROVE CallsTrue'
  <2>1. PICK s \in GsCategories, upper \in BOOLEAN, t \in GsTexts, do \in {"none", "text"} :
          GsGoTo(c, GsEnsure("category", GsName(s, upper), 0, [do |-> do, name |-> GsName(t, FALSE)]))
    BY <1>5 DEF GsSpace, GsBegin
  <2>2. GsName(s, upper) \in GsNames /\ GsName(t, FALSE) \in GsNames
    BY NamesGiven
  <2>3. PICK next : next = [do |-> do, name |-> GsName(t, FALSE)]
    OBVIOUS
  <2>4. next.do \in {"none", "text"} /\ next.name \in GsNames
    BY <2>2, <2>3
  <2>5. 0 \in {0} \cup GsOfKind("category")
    OBVIOUS
  <2> QED
    BY <1>4, <2>1, <2>2, <2>3, <2>4, <2>5
<1>6. ASSUME NEW c \in GsCallers, GsCreateChannel(c) PROVE CallsTrue'
  <2>1. PICK t \in GsTexts, upper \in BOOLEAN, parent \in {0} \cup GsOfKind("category") :
          GsGoTo(c, GsEnsure("text", GsSanitized(GsName(t, upper)), parent, [do |-> "none"]))
    BY <1>6 DEF GsCreateChannel, GsBegin
  <2>2. GsSanitized(GsName(t, upper)) \in GsNames
    BY NamesGiven, NamesKept
  <2>3. PICK next : next = [do |-> "none"]
    OBVIOUS
  <2>4. next.do = "none"
    BY <2>3
  <2> QED
    BY <1>4, <2>1, <2>2, <2>3, <2>4
<1>7. ASSUME NEW c \in GsCallers, GsArchive(c) PROVE CallsTrue'
  <2>1. PICK i \in GsMovable, prefix \in {"none", "old", "Old"} :
          GsGoTo(c, GsEnsure("category", GsName("archive", FALSE), 0,
                             [do |-> "file", chan |-> i, prefix |-> prefix]))
    BY <1>7 DEF GsArchive, GsBegin
  <2>2. GsName("archive", FALSE) \in GsNames
    BY NamesGiven
  <2>3. PICK next : next = [do |-> "file", chan |-> i, prefix |-> prefix]
    OBVIOUS
  <2>4. next.do = "file" /\ next.chan \in GsChannels
    BY <2>3 DEF GsMovable
  <2>5. 0 \in {0} \cup GsOfKind("category")
    OBVIOUS
  <2> QED
    BY <1>4, <2>1, <2>2, <2>3, <2>4, <2>5
<1>8. ASSUME NEW c \in GsCallers, gsCall[c].at \in {"list", "create"},
             NEW i \in GsChannels', gsGuild'[i].kind = gsCall[c].kind, GsProceed(c, i)
      PROVE  CallsTrue'
  <2> DEFINE next == gsCall[c].next
  <2>1. /\ next.do \in {"none", "text", "file"}
        /\ next.do # "none" => i \in GsOfKind("category")'
        /\ next.do = "text" => next.name \in GsNames
        /\ next.do = "file" => next.chan \in GsChannels'
    BY <1>8 DEF CallsTrue, CallTrue, CallValues, CallPlaces, GsOfKind, GuildGrows, GsChannels
  <2>2. CASE next.do = "none" BY <1>3, <1>8, <2>1, <2>2, Proceeding
  <2>3. CASE next.do = "text"
    <3>1. GsGoTo(c, GsEnsure("text", next.name, i, [do |-> "none"]))
      BY <1>8, <2>1, <2>3, Proceeding
    <3>2. PICK call : call = [at |-> "list", kind |-> "text", name |-> next.name, parent |-> i,
                              next |-> [do |-> "none"], seen |-> 0]
      OBVIOUS
    <3>3. CallShape(call)' /\ CallValues(call)'
      BY <2>1, <2>3, <3>2 DEF CallShape, CallValues, GsKinds
    <3>4. CallPlaces(call)' /\ CallLooked(call)' /\ CallFirst(call)'
      BY <2>1, <2>3, <3>2 DEF CallPlaces, CallLooked, CallFirst
    <3> QED
      BY <1>1, <3>1, <3>2, <3>3, <3>4, CallSteps DEF CallTrue, GsEnsure
  <2>4. CASE next.do = "file"
    <3>1. PICK call : call = [at |-> "fetch", chan |-> next.chan, prefix |-> next.prefix, into |-> i]
      OBVIOUS
    <3>2. GsGoTo(c, call)
      BY <1>8, <2>1, <2>4, <3>1, Proceeding
    <3>3. CallTrue(call)'
      BY <2>1, <2>4, <3>1 DEF CallTrue, CallShape, CallValues, CallPlaces, CallLooked, CallFirst
    <3> QED
      BY <1>1, <3>2, <3>3, CallSteps
  <2> QED
    BY <2>1, <2>2, <2>3, <2>4
<1>9. ASSUME NEW c \in GsCallers, GsList(c) PROVE CallsTrue'
  <2> DEFINE old == gsCall[c]
  <2> DEFINE found == {i \in GsOfKind(old.kind) : GsSame(gsGuild[i].name, old.name)}
  <2>1. old.at = "list" /\ CallTrue(old) /\ UNCHANGED <<gsGuild, gsRenamed>>
    BY <1>9 DEF GsList, CallsTrue
  <2>2. ASSUME found = {}, GsGoTo(c, [old EXCEPT !.at = "create", !.seen = Len(gsGuild)])
        PROVE  CallsTrue'
    <3>1. PICK call : call = [at |-> "create", kind |-> old.kind, name |-> old.name, parent |-> old.parent,
                              next |-> old.next, seen |-> Len(gsGuild)]
      OBVIOUS
    <3>2. [old EXCEPT !.at = "create", !.seen = Len(gsGuild)] = call
      <4>1. PICK shape : shape = old
        OBVIOUS
      <4>2. [shape EXCEPT !.at = "create", !.seen = Len(gsGuild)] =
              [at |-> "create", kind |-> shape.kind, name |-> shape.name, parent |-> shape.parent,
               next |-> shape.next, seen |-> Len(gsGuild)]
        <5>1. shape = [at |-> shape.at, kind |-> shape.kind, name |-> shape.name, parent |-> shape.parent,
                       next |-> shape.next, seen |-> shape.seen]
          BY <2>1, <4>1 DEF CallTrue, CallShape
        <5>2. PICK n : n = Len(gsGuild)
          OBVIOUS
        <5>3. [shape EXCEPT !.at = "create", !.seen = n] =
                [at |-> "create", kind |-> shape.kind, name |-> shape.name, parent |-> shape.parent,
                 next |-> shape.next, seen |-> n]
          BY <5>1, Creating, Zenon
        <5> QED
          BY <5>2, <5>3
      <4> QED
        BY <3>1, <4>1, <4>2
    <3>3. CallShape(call)' /\ CallValues(call)' /\ CallFirst(call)'
      BY <2>1, <3>1 DEF CallTrue, CallShape, CallValues, CallFirst
    <3>4. CallPlaces(call)'
      BY <1>1, <2>1, <3>1 DEF CallTrue, CallPlaces, GsOfKind, GsChannels
    <3>5. CallLooked(call)'
      BY <2>1, <2>2, <3>1 DEF CallLooked, GsOfKind, GsChannels
    <3> QED
      BY <1>1, <2>2, <3>2, <3>3, <3>4, <3>5, CallSteps DEF CallTrue
  <2>3. ASSUME NEW i \in found,
               IF old.parent = 0 \/ gsGuild[i].parent = old.parent THEN GsProceed(c, i)
               ELSE GsGoTo(c, [at |-> "move", chan |-> i, parent |-> old.parent])
        PROVE  CallsTrue'
    <3>1. i \in GsChannels' /\ gsGuild'[i].kind = old.kind
      BY <2>1, <2>3 DEF GsOfKind, GsChannels
    <3>2. CASE GsProceed(c, i) BY <1>8, <2>1, <3>1, <3>2
    <3>3. CASE GsGoTo(c, [at |-> "move", chan |-> i, parent |-> old.parent])
      <4>1. PICK call : call = [at |-> "move", chan |-> i, parent |-> old.parent]
        OBVIOUS
      <4>2. old.parent \in {0} \cup GsOfKind("category")'
        BY <2>1 DEF CallTrue, CallPlaces, GsOfKind, GsChannels
      <4>3. CallTrue(call)'
        BY <2>1, <3>1, <4>1, <4>2 DEF CallTrue, CallShape, CallValues, CallPlaces, CallLooked,
           CallFirst
      <4> QED
        BY <1>1, <3>3, <4>1, <4>3, CallSteps
    <3> QED
      BY <2>3, <3>2, <3>3
  <2> QED
    BY <1>9, <2>2, <2>3 DEF GsList
<1>10. ASSUME NEW c \in GsCallers, GsCreate(c) PROVE CallsTrue'
  <2> DEFINE new == Len(gsGuild) + 1
  <2>1. PICK row : row = [kind |-> gsCall[c].kind, name |-> gsCall[c].name, parent |-> gsCall[c].parent]
    OBVIOUS
  <2>2. gsCall[c].at = "create" /\ gsGuild' = Append(gsGuild, row) /\ GsProceed(c, new)
    BY <1>10, <2>1 DEF GsCreate
  <2>3. new \in GsChannels' /\ gsGuild'[new] = row
    BY <1>1, <2>2 DEF GsChannels
  <2> QED
    BY <1>8, <2>1, <2>2, <2>3
<1>11. ASSUME NEW c \in GsCallers, GsFetch(c) PROVE CallsTrue'
  <2> DEFINE old == gsCall[c]
  <2>1. PICK call : call = [at |-> "file", chan |-> old.chan, into |-> old.into, prefix |-> old.prefix,
                            name |-> gsGuild[old.chan].name]
    OBVIOUS
  <2>2. /\ old.at = "fetch" /\ GsGoTo(c, call) /\ UNCHANGED gsGuild
        /\ old.chan \in GsChannels /\ old.into \in GsOfKind("category")
    BY <1>11, <2>1 DEF GsFetch, CallsTrue, CallTrue, CallPlaces
  <2>3. gsGuild[old.chan].name \in GsNames
    <3>1. gsGuild[old.chan] \in GsRows
      BY <1>1, <2>2 DEF GsChannels
    <3> QED
      BY <3>1 DEF GsRows
  <2>4. CallTrue(call)'
    BY <2>1, <2>2, <2>3 DEF CallTrue, CallShape, CallValues, CallPlaces, CallLooked, CallFirst,
       GsOfKind, GsChannels
  <2> QED
    BY <1>1, <2>2, <2>4, CallSteps
<1>12. ASSUME NEW c \in GsCallers, GsFile(c) PROVE CallsTrue'
  <2> DEFINE old == gsCall[c]
  <2>1. old.at = "file" /\ CallTrue(old)
    BY <1>12 DEF GsFile, CallsTrue
  <2>2. PICK call : call = [at |-> "prefix", chan |-> old.chan, into |-> old.into, prefix |-> old.prefix,
                            name |-> old.name]
    OBVIOUS
  <2>3. [old EXCEPT !.at = "prefix"] = call
    BY <2>1, <2>2, SMTT(20) DEF CallTrue, CallShape
  <2>4. old.chan \in GsChannels' /\ old.into \in GsOfKind("category")' /\ old.name \in GsNames
    BY <2>1 DEF CallTrue, CallPlaces, CallValues, GuildGrows, GsOfKind, GsChannels
  <2>5. CallTrue(call)'
    BY <2>2, <2>4 DEF CallTrue, CallShape, CallValues, CallPlaces, CallLooked, CallFirst
  <2>6. GsGoTo(c, call) \/ GsGoTo(c, GsIdle)
    BY <1>12, <2>3 DEF GsFile
  <2> QED
    BY <1>1, <1>3, <2>5, <2>6, CallSteps
<1>13. ASSUME NEW c \in GsCallers, GsSpeak(c) PROVE CallsTrue'
  <2>1. PICK i \in GsOfKind("text") :
          \/ GsGoTo(c, [at |-> "default", chan |-> i, read |-> GsNone])
          \/ GsGoTo(c, GsIdle)
    BY <1>13 DEF GsSpeak, GsBegin
  <2>2. PICK call : call = [at |-> "default", chan |-> i, read |-> GsNone]
    OBVIOUS
  <2>3. i \in GsChannels'
    BY DEF GuildGrows, GsOfKind
  <2>4. CallTrue(call)'
    BY <2>2, <2>3 DEF CallTrue, CallShape, CallValues, CallPlaces, CallLooked, CallFirst
  <2> QED
    BY <1>1, <1>3, <2>1, <2>2, <2>4, CallSteps
<1>14. ASSUME NEW c \in GsCallers, GsSetProfile(c) PROVE CallsTrue'
  <2>1. PICK i \in GsOfKind("text"), fields \in SUBSET {"kind", "level"} :
          GsGoTo(c, [at |-> "set", chan |-> i, read |-> gsProfile[i], fields |-> fields])
    BY <1>14 DEF GsSetProfile, GsBegin
  <2>2. PICK call : call = [at |-> "set", chan |-> i, read |-> gsProfile[i], fields |-> fields]
    OBVIOUS
  <2>3. i \in GsChannels'
    BY DEF GuildGrows, GsOfKind
  <2>4. CallTrue(call)'
    BY <2>2, <2>3 DEF CallTrue, CallShape, CallValues, CallPlaces, CallLooked, CallFirst
  <2> QED
    BY <1>1, <2>1, <2>2, <2>4, CallSteps
<1>15. ASSUME NEW c \in GsCallers, NEW call, call.at = "survey", CallShape(call), GsGoTo(c, call)
       PROVE  CallsTrue'
  <2>1. CallTrue(call)'
    BY <1>15 DEF CallTrue, CallShape, CallValues, CallPlaces, CallLooked, CallFirst
  <2> QED
    BY <1>1, <1>15, <2>1, CallSteps
<1>16. ASSUME NEW c \in GsCallers, GsSurvey(c) PROVE CallsTrue'
  <2>1. PICK call : call = [at |-> "survey", step |-> 1, texts |-> {}, heard |-> {}, active |-> {},
                            cut |-> FALSE]
    OBVIOUS
  <2>2. call.at = "survey" /\ CallShape(call)
    BY <2>1 DEF CallShape
  <2> QED
    BY <1>15, <1>16, <2>1, <2>2 DEF GsSurvey, GsBegin
<1>17. ASSUME NEW c \in GsCallers, GsLook(c) PROVE CallsTrue'
  <2> DEFINE old == gsCall[c]
             next == [old EXCEPT !.step = @ + 1]
  <2>1. PICK shape : shape = [at |-> old.at, step |-> old.step, texts |-> old.texts, heard |-> old.heard,
                              active |-> old.active, cut |-> old.cut]
    OBVIOUS
  <2>2. old.at = "survey" /\ old = shape
    BY <1>17, <2>1 DEF GsLook, CallsTrue, CallTrue, CallShape
  <2>3. PICK later : later = [at |-> "survey", step |-> old.step + 1, texts |-> old.texts,
                              heard |-> old.heard, active |-> old.active, cut |-> old.cut]
    OBVIOUS
  <2>4. next = later
    BY SMTT(20), <2>1, <2>2, <2>3
  <2>5. ASSUME NEW a, NEW b PROVE /\ [later EXCEPT !.texts = a, !.heard = b].at = "survey"
                                  /\ CallShape([later EXCEPT !.texts = a, !.heard = b])
                                  /\ [later EXCEPT !.active = a, !.cut = b].at = "survey"
                                  /\ CallShape([later EXCEPT !.active = a, !.cut = b])
    <3>1. PICK x : x = [later EXCEPT !.texts = a, !.heard = b]
      OBVIOUS
    <3>2. x = [at |-> "survey", step |-> old.step + 1, texts |-> a, heard |-> b,
               active |-> old.active, cut |-> old.cut]
      BY <2>3, <3>1
    <3>3. PICK y : y = [later EXCEPT !.active = a, !.cut = b]
      OBVIOUS
    <3>4. y = [at |-> "survey", step |-> old.step + 1, texts |-> old.texts, heard |-> old.heard,
               active |-> a, cut |-> b]
      BY <2>3, <3>3
    <3>5. x.at = "survey" /\ CallShape(x)
      BY <3>2 DEF CallShape
    <3>6. y.at = "survey" /\ CallShape(y)
      BY <3>4 DEF CallShape
    <3> QED
      BY <3>1, <3>3, <3>5, <3>6
  <2>6. \E a, b : \/ GsGoTo(c, [next EXCEPT !.texts = a, !.heard = b])
                  \/ GsGoTo(c, [next EXCEPT !.active = a, !.cut = b])
    BY <1>17 DEF GsLook
  <2> QED
    BY <1>15, <2>4, <2>5, <2>6
<1>18. ASSUME GsWindow PROVE CallsTrue'
  <2>1. ASSUME NEW c \in GsCallers PROVE CallTrue(gsCall[c])'
    <3>1. CASE gsCall[c].at # "survey"
      <4>1. PICK call : call = gsCall[c]
        OBVIOUS
      <4>2. CallTrue(call)'
        BY <1>1, <4>1, CallKept DEF CallsTrue
      <4> QED
        BY <1>18, <3>1, <4>1, <4>2 DEF GsWindow
    <3>2. CASE gsCall[c].at = "survey"
      <4>1. PICK call : call = [gsCall[c] EXCEPT !.heard = {}]
        OBVIOUS
      <4>2. PICK old : old = gsCall[c]
        OBVIOUS
      <4>3. [old EXCEPT !.heard = {}] =
              [at |-> old.at, step |-> old.step, texts |-> old.texts, heard |-> {},
               active |-> old.active, cut |-> old.cut]
        BY <3>2, <4>2, Unhearing DEF CallsTrue, CallTrue, CallShape
      <4>4. call = [at |-> "survey", step |-> old.step, texts |-> old.texts, heard |-> {},
                    active |-> old.active, cut |-> old.cut]
        BY <3>2, <4>1, <4>2, <4>3
      <4>5. call.at = "survey" /\ CallShape(call)
        BY <4>4 DEF CallShape
      <4>6. CallTrue(call)'
        BY <4>5 DEF CallTrue, CallShape, CallValues, CallPlaces, CallLooked, CallFirst
      <4> QED
        BY <1>18, <3>2, <4>1, <4>6 DEF GsWindow
    <3> QED
      BY <3>1, <3>2
  <2> QED
    BY <1>18, <2>1 DEF CallsTrue, GsWindow
<1>19. ASSUME NEW c \in GsCallers,
              \/ GsMoveFound(c) \/ GsPrefix(c) \/ GsFails(c) \/ GsDefault(c) \/ GsSet(c) \/ GsAnswer(c)
       PROVE  CallsTrue'
  BY <1>3, <1>19 DEF GsMoveFound, GsPrefix, GsFails, GsDefault, GsSet, GsAnswer
<1>20. GsMove \/ GsRename => CallsTrue'
  BY <1>2 DEF GsMove, GsRename
<1> QED
  BY <1>2, <1>5, <1>6, <1>7, <1>9, <1>10, <1>11, <1>12, <1>13, <1>14, <1>16, <1>17, <1>18,
     <1>19, <1>20
     DEF GsNext, gsVars

\* Every step keeps the types of profiles and talk.
LEMMA TalkStep ==
  ASSUME GuildTypes, CallsTrue, TalkTypes, GuildTypes', GuildGrows, [GsNext]_gsVars
  PROVE  TalkTypes'
<1> USE GsAssumption DEF TalkTypes, GuildGrows, GsIds
<1>1. gsSeen' \in [GsIds -> Nat] /\ gsRenamed' \subseteq GsChannels'
  <2>1. ASSUME NEW c \in GsCallers, GsCreate(c) PROVE gsSeen' \in [GsIds -> Nat]
    BY <2>1 DEF GsCreate, CallsTrue, CallTrue, CallPlaces
  <2>2. gsSeen' \in [GsIds -> Nat]
    BY <2>1
  <2>3. ASSUME NEW c \in GsCallers, GsPrefix(c) PROVE gsRenamed' \subseteq GsChannels'
    BY <2>3 DEF GsPrefix, CallsTrue, CallTrue, CallPlaces
  <2>4. GsRename => gsRenamed' \subseteq GsChannels'
    BY DEF GsRename, GsOfKind
  <2>5. ASSUME NEW c \in GsCallers,
               \/ GsSpace(c) \/ GsCreateChannel(c) \/ GsArchive(c) \/ GsList(c) \/ GsCreate(c)
               \/ GsMoveFound(c) \/ GsFetch(c) \/ GsFile(c) \/ GsFails(c)
               \/ GsSpeak(c) \/ GsDefault(c) \/ GsSetProfile(c) \/ GsSet(c)
               \/ GsSurvey(c) \/ GsLook(c) \/ GsAnswer(c)
        PROVE  gsRenamed' = gsRenamed
    BY <2>5, Zenon DEF GsSpace, GsCreateChannel, GsArchive, GsList, GsCreate, GsMoveFound,
       GsFetch,
       GsFile, GsFails, GsSpeak, GsDefault, GsSetProfile, GsSet, GsSurvey, GsLook, GsAnswer
  <2>6. GsMove \/ GsWindow \/ UNCHANGED gsVars => gsRenamed' = gsRenamed
    BY DEF GsMove, GsWindow, gsVars
  <2>7. gsRenamed' = gsRenamed => gsRenamed' \subseteq GsChannels'
    OBVIOUS
  <2> QED
    BY <2>2, <2>3, <2>4, <2>5, <2>6, <2>7 DEF GsNext
<1> DEFINE Goal == /\ DOMAIN gsProfile' = GsIds /\ \A i \in GsIds : gsProfile'[i] # GsNone => i \in GsChannels'
                   /\ \A g \in DOMAIN gsTalk' : g[1] \in GsChannels' /\ gsTalk'[g] \in Nat \ {0}
<1>2. ASSUME UNCHANGED <<gsProfile, gsTalk>> PROVE Goal
  BY <1>2
<1>3. ASSUME NEW c \in GsCallers, GsDefault(c) \/ GsSet(c) PROVE Goal
  BY <1>3 DEF GsDefault, GsSet, CallsTrue, CallTrue, CallPlaces
<1>4. ASSUME NEW c \in GsCallers, GsSpeak(c) PROVE Goal
  <2>1. PICK i \in GsOfKind("text") : GsSave(i) /\ UNCHANGED <<gsGuild, gsProfile>>
    BY <1>4 DEF GsSpeak
  <2>2. i \in GsChannels
    BY DEF GsOfKind
  <2>3. PICK g : g = <<i, gsGuild[i].name>>
    OBVIOUS
  <2>4. \A h \in DOMAIN gsTalk' : h \in DOMAIN gsTalk \cup {g} /\ gsTalk'[h] = GsCount(h) + IF h = g THEN 1 ELSE 0
    BY <2>1, <2>3 DEF GsSave
  <2>5. g[1] = i
    BY <2>3
  <2> QED
    BY <2>1, <2>2, <2>4, <2>5 DEF GsCount
<1>5. GsWindow => Goal
  BY DEF GsWindow
<1>6. ASSUME NEW c \in GsCallers,
             \/ GsSpace(c) \/ GsCreateChannel(c) \/ GsArchive(c) \/ GsList(c) \/ GsCreate(c)
             \/ GsMoveFound(c) \/ GsFetch(c) \/ GsFile(c) \/ GsPrefix(c) \/ GsFails(c)
             \/ GsSetProfile(c) \/ GsSurvey(c) \/ GsLook(c) \/ GsAnswer(c)
      PROVE  UNCHANGED <<gsProfile, gsTalk>>
  BY <1>6, Zenon DEF GsSpace, GsCreateChannel, GsArchive, GsList, GsCreate, GsMoveFound,
     GsFetch,
     GsFile, GsPrefix, GsFails, GsSetProfile, GsSurvey, GsLook, GsAnswer, gsOthers
<1>7. GsMove \/ GsRename \/ UNCHANGED gsVars => UNCHANGED <<gsProfile, gsTalk>>
  BY DEF GsMove, GsRename, gsVars, gsOthers
<1>8. Goal
  BY <1>2, <1>3, <1>4, <1>5, <1>6, <1>7 DEF GsNext
<1> QED
  BY <1>1, <1>8

\* GsCreate: the new channel has a twin only among those its call had not listed.
LEMMA TwinsStep ==
  ASSUME GuildTypes, CallsTrue, TalkTypes, GsTwinsOverlapped, GuildTypes', GuildGrows
  PROVE  GsTwinsOverlapped'
<1>1. gsGuild \in Seq(GsRows) /\ gsGuild' \in Seq(GsRows) /\ gsRenamed \subseteq gsRenamed'
  BY DEF GuildTypes, GuildGrows
<1> SUFFICES ASSUME NEW i \in GsChannels' \ gsRenamed', NEW j \in GsChannels' \ gsRenamed',
                    i < j, gsGuild'[i].kind = gsGuild'[j].kind, gsGuild'[i].kind # "voice",
                    GsSame(gsGuild'[i].name, gsGuild'[j].name)
             PROVE  gsSeen'[j] < i
  BY DEF GsTwinsOverlapped, GsSame
<1>2. ASSUME j \in GsChannels PROVE i \in GsChannels /\ gsSeen[j] < i
  <2>1. i \in GsChannels
    BY <1>1, <1>2 DEF GsChannels
  <2>2. /\ gsGuild[i].kind = gsGuild[j].kind /\ gsGuild[i].kind # "voice"
        /\ GsSame(gsGuild[i].name, gsGuild[j].name)
    BY <1>2, <2>1 DEF GuildGrows
  <2> QED
    BY <1>1, <1>2, <2>1, <2>2 DEF GsTwinsOverlapped, GsSame
<1>3. CASE Len(gsGuild') = Len(gsGuild) /\ gsSeen' = gsSeen
  BY <1>1, <1>2, <1>3 DEF GsChannels
<1>4. ASSUME NEW c \in GsCallers, GsCreate(c) PROVE gsSeen'[j] < i
  <2> DEFINE new == Len(gsGuild) + 1
  <2>1. PICK row : row = [kind |-> gsCall[c].kind, name |-> gsCall[c].name, parent |-> gsCall[c].parent]
    OBVIOUS
  <2>2. /\ gsCall[c].at = "create" /\ gsGuild' = Append(gsGuild, row) /\ new <= GsMaxChannels
        /\ gsSeen' = [gsSeen EXCEPT ![new] = gsCall[c].seen] /\ gsRenamed' = gsRenamed
    BY <1>4, <2>1 DEF GsCreate
  <2>3. /\ Len(gsGuild') = new /\ gsGuild'[new] = row
        /\ \A k \in 1..Len(gsGuild) : gsGuild'[k] = gsGuild[k]
    BY <1>1, <2>2
  <2>4. CASE j # new
    <3>1. j \in GsChannels
      BY <1>1, <2>3, <2>4 DEF GsChannels
    <3> QED
      BY <1>2, <2>2, <2>4, <3>1 DEF TalkTypes
  <2>5. CASE j = new
    <3>1. i \in 1..Len(gsGuild) /\ gsGuild'[i] = gsGuild[i]
      BY <1>1, <2>3, <2>5 DEF GsChannels
    <3>2. CallTrue(gsCall[c])
      BY DEF CallsTrue
    <3>3. ~(i <= gsCall[c].seen)
      BY <1>1, <2>1, <2>2, <2>3, <2>5, <3>1, <3>2 DEF CallTrue, CallLooked, GsChannels
    <3>4. gsCall[c].seen \in 0..Len(gsGuild)
      BY <2>2, <3>2 DEF CallTrue, CallPlaces
    <3>5. new \in GsIds
      BY <1>1, <2>2, GsAssumption DEF GsIds
    <3>6. gsSeen'[new] = gsCall[c].seen
      BY <2>2, <3>5 DEF TalkTypes
    <3> QED
      BY <1>1, <2>5, <3>1, <3>3, <3>4, <3>6
  <2> QED
    BY <2>4, <2>5
<1> QED
  BY <1>3, <1>4 DEF GuildGrows

\* A step of one goroutine, while messages come.
LEMMA SurveySteps ==
  ASSUME NEW c \in GsCallers, NEW call, GsGoTo(c, call), call.at = "survey" => SurveyTrue(call)',
         CallsTrue, SurveysTrue, IsFiniteSet(DOMAIN gsTalk'), DOMAIN gsTalk \subseteq DOMAIN gsTalk'
  PROVE  SurveysTrue'
<1>1. GsHeard(DOMAIN gsTalk) \subseteq GsHeard(DOMAIN gsTalk')
  BY DEF GsHeard
<1>2. ASSUME NEW d \in GsCallers, gsCall'[d].at = "survey" PROVE SurveyTrue(gsCall[d])'
  <2>1. CASE d = c BY <1>2, <2>1 DEF GsGoTo, CallsTrue
  <2>2. CASE d # c
    <3>1. gsCall'[d] = gsCall[d]
      BY <2>2 DEF GsGoTo, CallsTrue
    <3>2. SurveyTrue(gsCall[d])
      BY <1>2, <3>1 DEF SurveysTrue
    <3> QED
      BY <1>1, <3>1, <3>2 DEF SurveyTrue
  <2> QED
    BY <2>1, <2>2
<1> QED
  BY <1>2 DEF SurveysTrue

\* ChannelActivitySince: when there are no more groups than rows, every group is a row.
LEMMA AllRows ==
  ASSUME IsFiniteSet(DOMAIN gsTalk), ~(Cardinality(DOMAIN gsTalk) > GsLimit), NEW rows \in GsActivities
  PROVE  rows = DOMAIN gsTalk
<1> DEFINE groups == DOMAIN gsTalk
<1>1. Cardinality(groups) \in Nat /\ GsLimit \in Nat
  BY FS_CardinalityType, GsAssumption
<1>2. rows \subseteq groups
      /\ Cardinality(rows) = IF Cardinality(groups) < GsLimit THEN Cardinality(groups) ELSE GsLimit
  BY DEF GsActivities
<1>3. Cardinality(rows) = Cardinality(groups)
  BY <1>1, <1>2
<1> QED
  BY <1>2, <1>3, FS_Subset

\* find_stale_channels and the other views: every step keeps the surveys true.
LEMMA SurveysStep ==
  ASSUME GuildTypes, CallsTrue, TalkTypes, SurveysTrue, [GsNext]_gsVars
  PROVE  SurveysTrue'
<1>1. ASSUME NEW c \in GsCallers, NEW call, GsGoTo(c, call), call.at # "survey", UNCHANGED gsTalk
      PROVE  SurveysTrue'
  BY <1>1, SurveySteps DEF SurveysTrue
<1>2. ASSUME NEW c \in GsCallers,
             \/ GsGoTo(c, GsIdle)
             \/ \E kind, name, parent, next : GsGoTo(c, GsEnsure(kind, name, parent, next))
             \/ \E chan, prefix, into : GsGoTo(c, [at |-> "fetch", chan |-> chan, prefix |-> prefix, into |-> into]),
             UNCHANGED gsTalk
      PROVE  SurveysTrue'
  <2>1. ASSUME NEW kind, NEW name, NEW parent, NEW next PROVE GsEnsure(kind, name, parent, next).at # "survey"
    BY DEF GsEnsure
  <2>2. GsIdle.at # "survey"
    BY DEF GsIdle
  <2>3. ASSUME NEW chan, NEW prefix, NEW into
        PROVE  [at |-> "fetch", chan |-> chan, prefix |-> prefix, into |-> into].at # "survey"
    OBVIOUS
  <2> QED
    BY <1>1, <1>2, <2>1, <2>2, <2>3
<1>3. ASSUME UNCHANGED <<gsTalk, gsCall>> PROVE SurveysTrue'
  BY <1>3 DEF SurveysTrue, SurveyTrue
<1>4. ASSUME NEW c \in GsCallers, GsSpace(c) \/ GsCreateChannel(c) \/ GsArchive(c) PROVE SurveysTrue'
  BY <1>2, <1>4 DEF GsSpace, GsCreateChannel, GsArchive, GsBegin, gsOthers
<1>5. ASSUME NEW c \in GsCallers, NEW i, GsProceed(c, i), gsCall[c].at \in {"list", "create"}, UNCHANGED gsTalk
      PROVE  SurveysTrue'
  <2>1. gsCall[c].next.do \in {"none", "text", "file"}
    BY <1>5 DEF CallsTrue, CallTrue, CallValues
  <2>2. \/ GsGoTo(c, GsIdle)
        \/ GsGoTo(c, GsEnsure("text", gsCall[c].next.name, i, [do |-> "none"]))
        \/ GsGoTo(c, [at |-> "fetch", chan |-> gsCall[c].next.chan, prefix |-> gsCall[c].next.prefix,
                      into |-> i])
    BY <1>5, <2>1, Proceeding, Zenon
  <2>3. \/ GsGoTo(c, GsIdle)
        \/ \E kind, name, parent, next : GsGoTo(c, GsEnsure(kind, name, parent, next))
        \/ \E chan, prefix, into : GsGoTo(c, [at |-> "fetch", chan |-> chan, prefix |-> prefix, into |-> into])
    BY <2>2, Zenon
  <2> QED
    BY <1>2, <1>5, <2>3, Zenon
<1>6. ASSUME NEW c \in GsCallers, GsList(c) PROVE SurveysTrue'
  <2> DEFINE old == gsCall[c]
  <2>1. old.at = "list" /\ CallShape(old) /\ UNCHANGED gsTalk
    BY <1>6 DEF GsList, gsOthers, CallsTrue, CallTrue
  <2>2. [old EXCEPT !.at = "create", !.seen = Len(gsGuild)].at = "create"
    <3>1. PICK shape, n : shape = old /\ n = Len(gsGuild)
      OBVIOUS
    <3>2. shape = [at |-> shape.at, kind |-> shape.kind, name |-> shape.name, parent |-> shape.parent,
                   next |-> shape.next, seen |-> shape.seen]
      BY <2>1, <3>1 DEF CallShape
    <3>3. [shape EXCEPT !.at = "create", !.seen = n] =
            [at |-> "create", kind |-> shape.kind, name |-> shape.name, parent |-> shape.parent,
             next |-> shape.next, seen |-> n]
      BY <3>2, Creating, Zenon
    <3> QED
      BY <3>1, <3>3
  <2>3. ASSUME NEW i, GsGoTo(c, [at |-> "move", chan |-> i, parent |-> old.parent]) PROVE SurveysTrue'
    BY <1>1, <2>1, <2>3
  <2> QED
    BY <1>1, <1>5, <1>6, <2>1, <2>2, <2>3 DEF GsList
<1>7. ASSUME NEW c \in GsCallers, GsCreate(c) PROVE SurveysTrue'
  BY <1>5, <1>7 DEF GsCreate, gsOthers
<1>8. ASSUME NEW c \in GsCallers,
             GsMoveFound(c) \/ GsPrefix(c) \/ GsFails(c) \/ GsDefault(c) \/ GsSet(c) \/ GsAnswer(c)
      PROVE  SurveysTrue'
  BY <1>2, <1>8 DEF GsMoveFound, GsPrefix, GsFails, GsDefault, GsSet, GsAnswer, gsOthers
<1>9. ASSUME NEW c \in GsCallers, GsFetch(c) PROVE SurveysTrue'
  BY <1>1, <1>9 DEF GsFetch, gsOthers
<1>10. ASSUME NEW c \in GsCallers, GsFile(c) PROVE SurveysTrue'
  <2> DEFINE old == gsCall[c]
  <2>1. old.at = "file" /\ CallShape(old) /\ UNCHANGED gsTalk
    BY <1>10 DEF GsFile, gsOthers, CallsTrue, CallTrue
  <2>2. [old EXCEPT !.at = "prefix"].at = "prefix"
    BY <2>1 DEF CallShape
  <2> QED
    BY <1>1, <1>2, <1>10, <2>1, <2>2 DEF GsFile
<1>11. ASSUME NEW c \in GsCallers, GsSpeak(c) PROVE SurveysTrue'
  <2>1. PICK i \in GsOfKind("text") :
          /\ GsSave(i)
          /\ GsGoTo(c, IF gsProfile[i] = GsNone THEN [at |-> "default", chan |-> i, read |-> GsNone] ELSE GsIdle)
    BY <1>11 DEF GsSpeak, GsBegin
  <2>2. PICK call : call = IF gsProfile[i] = GsNone THEN [at |-> "default", chan |-> i, read |-> GsNone] ELSE GsIdle
    OBVIOUS
  <2>3. call.at # "survey"
    BY <2>2 DEF GsIdle
  <2>4. DOMAIN gsTalk' = DOMAIN gsTalk \cup {<<i, gsGuild[i].name>>}
    BY <2>1 DEF GsSave
  <2>5. IsFiniteSet(DOMAIN gsTalk')
    BY <2>4, FS_AddElement DEF SurveysTrue
  <2> QED
    BY <2>1, <2>2, <2>3, <2>4, <2>5, SurveySteps
<1>12. ASSUME NEW c \in GsCallers, GsSetProfile(c) PROVE SurveysTrue'
  BY <1>1, <1>12 DEF GsSetProfile, GsBegin, gsOthers
<1>13. ASSUME NEW c \in GsCallers, GsSurvey(c) PROVE SurveysTrue'
  <2>1. PICK call : call = [at |-> "survey", step |-> 1, texts |-> {}, heard |-> {}, active |-> {},
                            cut |-> FALSE]
    OBVIOUS
  <2>2. GsGoTo(c, call) /\ UNCHANGED gsTalk
    BY <1>13, <2>1 DEF GsSurvey, GsBegin, gsOthers
  <2>3. SurveyTrue(call)'
    BY <2>1 DEF SurveyTrue
  <2> QED
    BY <2>2, <2>3, SurveySteps DEF SurveysTrue
<1>14. ASSUME NEW c \in GsCallers, GsLook(c) PROVE SurveysTrue'
  <2>1. PICK old : old = gsCall[c]
    OBVIOUS
  <2>2. /\ old.at = "survey" /\ SurveyTrue(old) /\ old.step \in 1..2 /\ UNCHANGED gsTalk
        /\ old = [at |-> old.at, step |-> old.step, texts |-> old.texts, heard |-> old.heard,
                  active |-> old.active, cut |-> old.cut]
    <3>1. old.at = "survey" /\ old.step <= Len(GsOrder) /\ UNCHANGED gsTalk
      BY <1>14, <2>1 DEF GsLook, gsOthers
    <3>2. SurveyTrue(old) /\ CallShape(old)
      BY <2>1, <3>1 DEF SurveysTrue, CallsTrue, CallTrue
    <3>3. Len(GsOrder) = 2
      BY DEF GsOrder
    <3> QED
      BY <3>1, <3>2, <3>3 DEF SurveyTrue, CallShape
  <2>3. PICK next : next = [old EXCEPT !.step = @ + 1]
    OBVIOUS
  <2>4. next = [at |-> "survey", step |-> old.step + 1, texts |-> old.texts, heard |-> old.heard,
                active |-> old.active, cut |-> old.cut]
    BY <2>2, <2>3
  <2>5. \/ /\ old.step = 1
           /\ GsGoTo(c, [next EXCEPT !.texts = GsOfKind("text"), !.heard = GsHeard(DOMAIN gsTalk)])
        \/ /\ old.step = 2
           /\ \E rows \in GsActivities :
                GsGoTo(c, [next EXCEPT !.active = GsHeard(rows),
                                       !.cut = (Cardinality(DOMAIN gsTalk) > GsLimit)])
    <3>1. GsOrder[1] = "channels" /\ GsOrder[2] = "activity"
      BY DEF GsOrder
    <3>2. old.step = 1 \/ old.step = 2
      BY <2>2
    <3> QED
      BY <1>14, <2>1, <2>3, <3>1, <3>2 DEF GsLook
  <2>6. CASE old.step = 1
    <3>1. PICK texts, heard : texts = GsOfKind("text") /\ heard = GsHeard(DOMAIN gsTalk)
      OBVIOUS
    <3>2. PICK call : call = [next EXCEPT !.texts = texts, !.heard = heard]
      OBVIOUS
    <3>3. call.step = 2 /\ call.heard = heard
      BY <2>4, <2>6, <3>2
    <3>4. GsGoTo(c, call)
      BY <2>2, <2>5, <2>6, <3>1, <3>2
    <3>5. SurveyTrue(call)'
      BY <2>2, <3>1, <3>3 DEF SurveyTrue, GsHeard
    <3> QED
      BY <2>2, <3>4, <3>5, SurveySteps DEF SurveysTrue
  <2>7. CASE old.step = 2
    <3>1. PICK rows \in GsActivities :
            GsGoTo(c, [next EXCEPT !.active = GsHeard(rows), !.cut = (Cardinality(DOMAIN gsTalk) > GsLimit)])
      <4>1. old.step # 1
        BY <2>7
      <4> QED
        BY <2>5, <4>1, Zenon
    <3>2. PICK active, cut : active = GsHeard(rows) /\ cut = (Cardinality(DOMAIN gsTalk) > GsLimit)
      OBVIOUS
    <3>3. PICK call : call = [next EXCEPT !.active = active, !.cut = cut]
      OBVIOUS
    <3>4. call.step = 3 /\ call.heard = old.heard /\ call.active = active /\ call.cut = cut
      BY <2>4, <2>7, <3>3
    <3>5. ASSUME ~(Cardinality(DOMAIN gsTalk) > GsLimit) PROVE active = GsHeard(DOMAIN gsTalk)
      BY <3>2, <3>5, AllRows DEF SurveysTrue
    <3>6. ~cut => old.heard \subseteq active
      BY <2>2, <3>2, <3>5 DEF SurveyTrue
    <3>7. SurveyTrue(call)'
      BY <2>2, <3>4, <3>6 DEF SurveyTrue, GsHeard
    <3>8. GsGoTo(c, call)
      BY <3>1, <3>2, <3>3
    <3> QED
      BY <2>2, <3>7, <3>8, SurveySteps DEF SurveysTrue
  <2> QED
    BY <2>2, <2>6, <2>7
<1>15. ASSUME GsWindow PROVE SurveysTrue'
  <2>1. IsFiniteSet(DOMAIN gsTalk')
    BY <1>15, FS_EmptySet DEF GsWindow
  <2>2. ASSUME NEW c \in GsCallers, gsCall'[c].at = "survey" PROVE SurveyTrue(gsCall[c])'
    <3>1. PICK old : old = gsCall[c]
      OBVIOUS
    <3>2. old.at = "survey" /\ gsCall'[c] = [old EXCEPT !.heard = {}]
      BY <1>15, <2>2, <3>1 DEF GsWindow
    <3>3. /\ SurveyTrue(old)
          /\ old = [at |-> old.at, step |-> old.step, texts |-> old.texts, heard |-> old.heard,
                    active |-> old.active, cut |-> old.cut]
      BY <3>1, <3>2 DEF SurveysTrue, CallsTrue, CallTrue, CallShape
    <3>4. PICK call : call = [old EXCEPT !.heard = {}]
      OBVIOUS
    <3>5. call.step = old.step /\ call.heard = {}
      BY <3>3, <3>4
    <3> QED
      BY <3>2, <3>3, <3>4, <3>5 DEF SurveyTrue
  <2> QED
    BY <2>1, <2>2 DEF SurveysTrue
<1>16. GsMove \/ GsRename \/ UNCHANGED gsVars => UNCHANGED <<gsTalk, gsCall>>
  BY DEF GsMove, GsRename, gsVars, gsOthers
<1> QED
  BY <1>3, <1>4, <1>6, <1>7, <1>8, <1>9, <1>10, <1>11, <1>12, <1>13, <1>14, <1>15, <1>16 DEF GsNext

\* SuggestChannelProfiles: a channel with one name gets the suggestion for all its messages.
LEMMA Suggested ==
  ASSUME SurveysTrue, TalkTypes, NEW i, NEW rows \in GsActivities, ~(Cardinality(DOMAIN gsTalk) > GsLimit),
         Cardinality({g \in DOMAIN gsTalk : g[1] = i}) <= 1
  PROVE  LET groups == {g \in DOMAIN gsTalk : g[1] = i}
             all == IF groups = {} THEN 0 ELSE gsTalk[CHOOSE g \in groups : TRUE]
         IN /\ i \in GsHeard(rows) <=> groups # {}
            /\ i \in GsHeard(rows) => GsShown(rows, i) = all
<1> DEFINE groups == {g \in DOMAIN gsTalk : g[1] = i}
<1>1. rows = DOMAIN gsTalk
  BY AllRows DEF SurveysTrue
<1>2. i \in GsHeard(rows) <=> groups # {}
  BY <1>1 DEF GsHeard
<1>3. ASSUME groups # {} PROVE \E g : groups = {g}
  <2>1. IsFiniteSet(groups) /\ Cardinality(groups) \in Nat
    BY FS_Subset, FS_CardinalityType DEF SurveysTrue
  <2>2. Cardinality(groups) # 0
    BY <1>3, <2>1, FS_EmptySet
  <2>3. Cardinality(groups) = 1
    BY <2>1, <2>2
  <2> HIDE DEF groups
  <2> QED
    BY <2>1, <2>3, FS_Singleton
<1>4. ASSUME NEW g, groups = {g} PROVE GsShown(rows, i) = gsTalk[g] /\ (CHOOSE h \in groups : TRUE) = g
  <2>1. {gsTalk[x] : x \in {h \in rows : h[1] = i}} = {gsTalk[g]}
    BY <1>1, <1>4
  <2>2. PICK n : n = gsTalk[g]
    OBVIOUS
  <2>3. GsShown(rows, i) = CHOOSE m \in {n} : \A k \in {n} : m <= k
    BY <2>1, <2>2 DEF GsShown
  <2>4. n \in Nat
    BY <1>4, <2>2 DEF TalkTypes
  <2> QED
    BY <1>4, <2>2, <2>3, <2>4
<1> QED
  BY <1>2, <1>3, <1>4

\* At first the guild has its channels, and nothing is under way.
LEMMA GsInitInv == GsInit => GsInv
<1> SUFFICES ASSUME GsInit PROVE GsInv
  OBVIOUS
<1> USE GsAssumption DEF GsInit
<1>1. gsGuild \in Seq(GsRows)
  <2>1. \A row \in [kind : GsKinds, name : [stem : STRING, upper : BOOLEAN, prefixes : Nat], parent : Nat] :
          row \in GsRows
    BY DEF GsRows, GsNames
  <2>2. GsFirst \in Seq([kind : GsKinds, name : [stem : STRING, upper : BOOLEAN, prefixes : Nat], parent : Nat])
    OBVIOUS
  <2> QED
    BY <2>1, <2>2, SeqMonotonic
<1>2. GuildTypes
  BY <1>1 DEF GuildTypes, GsChannels, GsOfKind
<1>3. CallsTrue
  BY IdleIsTrue DEF CallsTrue
<1>4. TalkTypes
  BY DEF TalkTypes, GsIds
<1>5. GsTwinsOverlapped
  BY <1>1 DEF GsTwinsOverlapped, GsChannels, GsIds
<1>6. SurveysTrue
  BY FS_EmptySet DEF SurveysTrue, GsIdle
<1> QED
  BY <1>2, <1>3, <1>4, <1>5, <1>6 DEF GsInv

\* Every step keeps the invariant.
LEMMA GsInvStep == GsInv /\ [GsNext]_gsVars => GsInv'
<1> SUFFICES ASSUME GsInv, [GsNext]_gsVars PROVE GsInv'
  OBVIOUS
<1> USE DEF GsInv
<1>1. GuildTypes' /\ GuildGrows
  BY GuildStep
<1>2. CallsTrue' /\ TalkTypes' /\ SurveysTrue' /\ GsTwinsOverlapped'
  BY <1>1, CallsStep, TalkStep, SurveysStep, TwinsStep
<1> QED
  BY <1>1, <1>2

\* So it always holds.
LEMMA GsInvAlways == GsSpec => []GsInv
BY GsInitInv, GsInvStep, PTL DEF GsSpec

\* The variables of the guild have their types.
THEOREM GuildTypeCorrect == GsSpec => []GsTypeOK
<1>1. GsInv => GsTypeOK
  <2> SUFFICES ASSUME GsInv PROVE GsTypeOK
    OBVIOUS
  <2>1. \A i \in GsChannels : gsGuild[i].kind \in GsKinds
    <3>1. \A i \in GsChannels : gsGuild[i] \in GsRows
      BY DEF GsInv, GuildTypes, GsChannels
    <3> QED
      BY <3>1 DEF GsRows
  <2> QED
    BY <2>1 DEF GsInv, GuildTypes, TalkTypes, GsTypeOK
<1> QED
  BY GsInvAlways, <1>1, PTL

\* EnsureCategory and EnsureTextChannel list the channels and then create one: of two
\* channels of one kind and name, unless one was renamed, the later was created by a call
\* that had not seen the earlier.
THEOREM TwinsOverlapped == GsSpec => []GsTwinsOverlapped
<1>1. GsInv => GsTwinsOverlapped
  BY DEF GsInv
<1> QED
  BY GsInvAlways, <1>1, PTL

\* What the views say of the guild: a channel told stale had no message in the window when the
\* channels were listed, unless rows were cut; a suggestion is the one for all messages of a
\* channel with one name; the views differ on empty categories only when voice channels are
\* in them, and DescribeServer lists each channel in one place.
THEOREM ViewsHonest == GsSpec => []GsViewsHonest
<1> SUFFICES ASSUME GsInv PROVE GsViewsHonest
  BY GsInvAlways, PTL
<1> USE DEF GsInv
<1>1. ASSUME NEW c \in GsCallers, GsTold(gsCall[c]), ~gsCall[c].cut
      PROVE  GsStale(gsCall[c].texts, gsCall[c].active) \cap gsCall[c].heard = {}
  <2>1. gsCall[c].at = "survey" /\ gsCall[c].step > 2
    BY <1>1 DEF GsTold, GsOrder
  <2>2. gsCall[c].heard \subseteq gsCall[c].active
    BY <1>1, <2>1 DEF SurveysTrue, SurveyTrue
  <2> QED
    BY <2>2 DEF GsStale
<1>2. ASSUME NEW i \in GsOfKind("text"), NEW rows \in GsActivities,
             Cardinality({g \in DOMAIN gsTalk : g[1] = i}) <= 1, Cardinality(DOMAIN gsTalk) <= GsLimit
      PROVE  LET groups == {g \in DOMAIN gsTalk : g[1] = i}
                 all == IF groups = {} THEN 0 ELSE gsTalk[CHOOSE g \in groups : TRUE]
             IN GsSuggest(i, i \in GsHeard(rows), IF i \in GsHeard(rows) THEN GsShown(rows, i) ELSE 0)
                  = GsSuggest(i, groups # {}, all)
  <2> DEFINE groups == {g \in DOMAIN gsTalk : g[1] = i}
             all == IF groups = {} THEN 0 ELSE gsTalk[CHOOSE g \in groups : TRUE]
  <2>1. ~(Cardinality(DOMAIN gsTalk) > GsLimit)
    BY <1>2, FS_CardinalityType, GsAssumption DEF SurveysTrue
  <2>2. (i \in GsHeard(rows) <=> groups # {}) /\ (i \in GsHeard(rows) => GsShown(rows, i) = all)
    BY <1>2, <2>1, Suggested
  <2>3. groups = {} => all = 0
    OBVIOUS
  <2> HIDE DEF groups, all
  <2> DEFINE Agrees ==
               GsSuggest(i, i \in GsHeard(rows), IF i \in GsHeard(rows) THEN GsShown(rows, i) ELSE 0)
                 = GsSuggest(i, groups # {}, all)
  <2>4. ASSUME i \in GsHeard(rows) PROVE Agrees
    BY <2>2, <2>4 DEF GsSuggest
  <2>5. ASSUME i \notin GsHeard(rows) PROVE Agrees
    BY <2>2, <2>3, <2>5 DEF GsSuggest
  <2>6. Agrees
    BY <2>4, <2>5
  <2> QED
    BY <2>6 DEF groups, all
<1>3. GsPlannedEmpty \subseteq GsMappedEmpty
  BY DEF GsPlannedEmpty, GsMappedEmpty, GsChildren, GsTextChildren, GsOfKind
<1>4. ASSUME NEW k \in GsMappedEmpty \ GsPlannedEmpty, NEW i \in GsChildren(k)
      PROVE  gsGuild[i].kind = "voice"
  <2>1. i \in GsChannels /\ gsGuild[i].kind # "category" /\ gsGuild[i].parent = k
    BY DEF GsChildren
  <2>2. gsGuild[i].kind # "text"
    BY <2>1 DEF GsMappedEmpty, GsTextChildren, GsOfKind
  <2>3. gsGuild[i] \in GsRows
    BY <2>1 DEF GuildTypes, GsChannels
  <2> QED
    BY <2>1, <2>2, <2>3 DEF GsRows, GsKinds
<1>5. ASSUME NEW i \in GsChannels, gsGuild[i].kind # "category"
      PROVE  Cardinality({l \in GsServerLists : l[2] = i}) = 1
  <2>1. gsGuild[i].parent \in {0} \cup GsOfKind("category")
    BY DEF GuildTypes
  <2>2. PICK entry : entry = <<gsGuild[i].parent, i>>
    OBVIOUS
  <2>3. entry \in GsServerLists
    BY <1>5, <2>1, <2>2 DEF GsServerLists, GsChildren
  <2>4. ASSUME NEW l \in GsServerLists, l[2] = i PROVE l = entry
    <3>1. l \in ({0} \cup GsOfKind("category")) \X GsChannels /\ l[1] = gsGuild[i].parent
      BY <2>4 DEF GsServerLists, GsChildren
    <3> QED
      BY <2>2, <2>4, <3>1
  <2>5. {l \in GsServerLists : l[2] = i} = {entry}
    BY <2>2, <2>3, <2>4
  <2> QED
    BY <2>5, FS_Singleton
<1> QED
  BY <1>1, <1>2, <1>3, <1>4, <1>5 DEF GsViewsHonest

\* resolveChannelProfile and set_channel_profile write the profile whole: a choice falls
\* back to its default only by a write of a call that read the profile before the choice.
THEOREM ChosenKept == GsSpec => GsChosenKept
<1> DEFINE Lost(i, f) == gsProfile[i][f] = "chosen" /\ gsProfile'[i][f] # "chosen"
           ByStale(i, f) ==
             \E c \in GsCallers :
               /\ gsCall[c].at \in {"default", "set"} /\ gsCall[c].chan = i
               /\ gsCall'[c] = GsIdle /\ gsCall[c].read[f] # "chosen"
           Kept == \A i \in GsIds, f \in {"kind", "level"} : Lost(i, f) => ByStale(i, f)
<1>1. ASSUME GsInv, GsNext, gsProfile' # gsProfile
      PROVE  Kept
  <2> SUFFICES ASSUME NEW i \in GsIds, NEW f \in {"kind", "level"}, Lost(i, f)
               PROVE  ByStale(i, f)
    OBVIOUS
  <2>1. \A c \in GsCallers : CallTrue(gsCall[c])
    BY <1>1 DEF GsInv, CallsTrue
  <2>2. DOMAIN gsProfile = GsIds /\ DOMAIN gsCall = GsCallers
    BY <1>1 DEF GsInv, TalkTypes, CallsTrue
  <2>3. PICK c \in GsCallers : GsDefault(c) \/ GsSet(c)
    BY <1>1, Zenon DEF GsNext, GsMove, GsRename, GsWindow, GsSpace, GsCreateChannel, GsArchive,
       GsList,
       GsCreate, GsMoveFound, GsFetch, GsFile, GsPrefix, GsFails, GsSpeak, GsSetProfile, GsSurvey,
       GsLook, GsAnswer, gsOthers
  <2>4. /\ gsCall[c].at \in {"default", "set"} /\ gsCall'[c] = GsIdle
        /\ \A k \in GsIds : k # gsCall[c].chan => gsProfile'[k] = gsProfile[k]
    BY <2>2, <2>3 DEF GsDefault, GsSet, GsGoTo
  <2>5. gsCall[c].chan = i
    BY <2>4
  <2>6. GsNone[f] = "none"
    BY DEF GsNone
  <2>7. CASE GsDefault(c)
    <3>1. gsCall[c].read = GsNone
      BY <2>1, <2>7 DEF GsDefault, CallTrue, CallFirst
    <3> QED
      BY <2>4, <2>5, <2>6, <3>1
  <2>8. CASE GsSet(c)
    <3>1. gsProfile'[i] = GsMerged(gsCall[c])
      BY <2>2, <2>5, <2>8 DEF GsSet
    <3>2. \/ gsProfile'[i][f] = "chosen" \/ gsCall[c].read = GsNone
          \/ gsProfile'[i][f] = gsCall[c].read[f]
      BY <3>1 DEF GsMerged
    <3> QED
      BY <2>4, <2>5, <2>6, <3>2
  <2> QED
    BY <2>3, <2>7, <2>8
<1>2. GsInv /\ [GsNext]_gsVars => [gsProfile' # gsProfile => Kept]_gsVars
  BY <1>1
<1> QED
  BY GsInvAlways, <1>2, PTL DEF GsSpec, GsChosenKept

-----------------------------------------------------------------------------
(* The run that explores the three side by side.                           *)

\* A behaviour of the run is one of the facts, one of presence and one of the guild: what
\* holds of each holds of it.
THEOREM PartsHold == MemorySpec => FaSpec /\ PwSpec /\ GsSpec
<1>1. MemoryInit => FaInit /\ PwInit /\ GsInit
  BY DEF MemoryInit
<1>2. [MemoryNext]_<<faVars, pwVars, gsVars, part>> => [FaNext]_faVars /\ [PwNext]_pwVars /\ [GsNext]_gsVars
  BY DEF MemoryNext
<1> QED
  BY <1>1, <1>2, PTL DEF MemorySpec, FaSpec, PwSpec, GsSpec

\* The variables of all three have their types.
THEOREM MemoryTypeCorrect == MemorySpec => []MemoryTypeOK
<1>1. FaTypeOK /\ PwTypeOK /\ GsTypeOK => MemoryTypeOK
  BY DEF MemoryTypeOK
<1> QED
  BY <1>1, PartsHold, FactTypeCorrect, PresenceTypeCorrect, GuildTypeCorrect, PTL

=============================================================================
