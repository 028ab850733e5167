-------------------------- MODULE AllocationProofs --------------------------
(***************************************************************************)
(* Theorems about Allocation, for any number of writers, kinds and         *)
(* attempts and any ledger to start from.  They rest on one inductive      *)
(* invariant, IInv, which says what a writer between two steps knows.      *)
(***************************************************************************)
EXTENDS Allocation, FiniteSetTheorems, TLAPS

Used == DOMAIN ledger \cup {r[1] : r \in removed}

\* No id before one is proposed; the proposal is a lowest free number of the kind.
Proposal ==
    \A w \in Writers :
        /\ pc[w] \in {"idle", "searching"} => id[w] = NoId
        /\ pc[w] \in {"creating", "done"} => id[w] \in Ids /\ id[w][1] = kind[w]
        /\ pc[w] = "creating" => LowestFree(id[w][2], taken[w])

\* A writer believes nothing taken that never was, and knows every entry that no
\* other writer can have put there.
Knowledge ==
    \A w \in Writers :
        /\ pc[w] = "idle" => taken[w] = {} /\ attempts[w] = 0
        /\ \A n \in taken[w] : <<kind[w], n>> \in Used
        /\ pc[w] \in {"searching", "creating"} =>
             \A i \in DOMAIN ledger :
                 i[1] = kind[w] /\ ledger[i] = Prior => i[2] \in taken[w]

\* The winners w has lost a number to, or has seen the number of in its listing.
Known(w) == {v \in Winners(w) : id[v][2] \in taken[w]}

Account == \A w \in Writers : attempts[w] <= Cardinality(Known(w))

IInv ==
    /\ TypeOK
    /\ Proposal
    /\ ReportsWhatItStored
    /\ LowestUnused
    /\ Knowledge
    /\ Account

-----------------------------------------------------------------------------
(* The set of numbers a listing yields is finite.                          *)
LEMMA ImageFinite ==
    ASSUME NEW S \in SUBSET Ids, IsFiniteSet(S)
    PROVE  IsFiniteSet({i[2] : i \in S})
<1> DEFINE T == {i[2] : i \in S}
           f == [i \in S |-> i[2]]
<1>1. f \in Surjection(S, T)
  BY DEF Surjection
<1>2. QED
  BY <1>1, FS_Surjection

(* Every variable keeps its type, and what is enumerated stays finite.     *)
LEMMA TypeInit == Init => TypeOK
<1> SUFFICES ASSUME Init PROVE TypeOK
  OBVIOUS
<1> USE InitialIdsAssumption, NoIdAssumption
<1>1. PICK S \in SUBSET InitialIds : ledger = [i \in S |-> Prior]
  BY DEF Init
<1>2. DOMAIN ledger = S /\ S \subseteq Ids /\ \A i \in S : ledger[i] = Prior
  BY <1>1
<1>3. IsFiniteSet(S)
  BY FS_Subset
<1>4. IsFiniteSet({})
  BY FS_EmptySet
<1>5. QED
  BY <1>2, <1>3, <1>4, <1>1 DEF Init, TypeOK

LEMMA TypeStep == TypeOK /\ Proposal /\ [Next]_vars => TypeOK'
<1> SUFFICES ASSUME TypeOK, Proposal, [Next]_vars PROVE TypeOK'
  OBVIOUS
<1> USE NoIdAssumption DEF TypeOK, Terminal
<1>1. ASSUME NEW w \in Writers, RefuseDraft(w) PROVE TypeOK'
  BY <1>1 DEF RefuseDraft
<1>2. ASSUME NEW w \in Writers, ListLedger(w) PROVE TypeOK'
  <2> DEFINE S == {j \in DOMAIN ledger : j[1] = kind[w]}
             T == {i[2] : i \in S}
  <2>1. IsFiniteSet(S) /\ S \subseteq Ids
    BY FS_Subset
  <2>2. IsFiniteSet(T)
    BY <2>1, ImageFinite
  <2>3. T \in SUBSET (Nat \ {0})
    BY <2>1 DEF Ids
  <2>4. taken' = [taken EXCEPT ![w] = T]
    BY <1>2 DEF ListLedger
  <2> HIDE DEF T
  <2>5. /\ taken' \in [Writers -> SUBSET (Nat \ {0})]
        /\ \A v \in Writers : IsFiniteSet(taken'[v])
    BY <2>2, <2>3, <2>4
  <2>6. QED
    BY <1>2, <2>5 DEF ListLedger
<1>3. ASSUME NEW w \in Writers, ListFails(w) PROVE TypeOK'
  BY <1>3 DEF ListFails
<1>4. ASSUME NEW w \in Writers, Propose(w) PROVE TypeOK'
  <2>1. PICK n \in 1..(Cardinality(taken[w]) + 1) : id' = [id EXCEPT ![w] = <<kind[w], n>>]
    BY <1>4 DEF Propose
  <2>2. n \in Nat \ {0}
    BY FS_CardinalityType
  <2>3. id' \in [Writers -> Ids \cup {NoId}]
    BY <2>1, <2>2 DEF Ids
  <2>4. QED
    BY <1>4, <2>3 DEF Propose
<1>5. ASSUME NEW w \in Writers, CreateWins(w) PROVE TypeOK'
  <2>1. DOMAIN ledger' = DOMAIN ledger \cup {id[w]} /\ IsFiniteSet(DOMAIN ledger')
    BY <1>5, FS_AddElement DEF CreateWins
  <2>2. id[w] \in Ids
    BY <1>5 DEF Proposal, CreateWins
  <2>3. \A j \in DOMAIN ledger' : ledger'[j] \in Writers \cup {Prior}
    BY <1>5, <2>1 DEF CreateWins
  <2>4. ledger' = [j \in DOMAIN ledger' |-> ledger'[j]]
    BY <1>5, <2>1 DEF CreateWins
  <2>5. pc' \in [Writers -> {"idle", "searching", "creating"} \cup Terminal]
    BY <1>5 DEF CreateWins
  <2>6. DOMAIN ledger' \subseteq Ids
    BY <2>1, <2>2
  <2>7. /\ kind' \in [Writers -> Kinds]
        /\ taken' \in [Writers -> SUBSET (Nat \ {0})]
        /\ \A v \in Writers : IsFiniteSet(taken'[v])
        /\ attempts' \in [Writers -> Nat]
        /\ id' \in [Writers -> Ids \cup {NoId}]
        /\ removed' \subseteq Ids \X (Writers \cup {Prior})
    BY <1>5 DEF CreateWins
  <2>8. QED
    BY <2>1, <2>3, <2>4, <2>5, <2>6, <2>7, Zenon
<1>6. ASSUME NEW w \in Writers, CreateLoses(w) PROVE TypeOK'
  <2>1. id[w] \in Ids
    BY <1>6 DEF CreateLoses
  <2>2. id[w][2] \in Nat \ {0}
    BY <2>1 DEF Ids
  <2>3. IsFiniteSet(taken[w] \cup {id[w][2]})
    <3>1. IsFiniteSet(taken[w])
      OBVIOUS
    <3> HIDE DEF TypeOK
    <3>2. QED
      BY <3>1, FS_AddElement
  <2>4. QED
    BY <1>6, <2>2, <2>3 DEF CreateLoses
<1>7. ASSUME NEW w \in Writers, CreateFails(w) PROVE TypeOK'
  BY <1>7 DEF CreateFails
<1>8. ASSUME NEW w \in Writers, GiveUp(w) PROVE TypeOK'
  BY <1>8 DEF GiveUp
<1>9. ASSUME NEW w \in Writers, Crash(w) PROVE TypeOK'
  BY <1>9 DEF Crash
<1>10. ASSUME NEW i \in DOMAIN ledger, Delete(i) PROVE TypeOK'
  <2>1. DOMAIN ledger' = DOMAIN ledger \ {i} /\ IsFiniteSet(DOMAIN ledger')
    BY <1>10, FS_RemoveElement DEF Delete
  <2>2. QED
    BY <1>10, <2>1 DEF Delete
<1>11. ASSUME UNCHANGED vars PROVE TypeOK'
  BY <1>11 DEF vars
<1>12. QED
  BY <1>1, <1>2, <1>3, <1>4, <1>5, <1>6, <1>7, <1>8, <1>9, <1>10, <1>11 DEF Next, Step

-----------------------------------------------------------------------------
(* What a writer carries as an id, and when.                               *)
LEMMA ProposalInit == Init => Proposal
BY DEF Init, Proposal

LEMMA ProposalStep == TypeOK /\ Proposal /\ [Next]_vars => Proposal'
<1> SUFFICES ASSUME TypeOK, Proposal, [Next]_vars PROVE Proposal'
  OBVIOUS
<1> USE DEF Proposal
<1>0. /\ pc \in [Writers -> {"idle", "searching", "creating"} \cup Terminal]
      /\ taken \in [Writers -> SUBSET (Nat \ {0})]
      /\ id \in [Writers -> Ids \cup {NoId}]
      /\ kind \in [Writers -> Kinds]
  BY DEF TypeOK
<1>1. ASSUME NEW w \in Writers, RefuseDraft(w) PROVE Proposal'
  BY <1>0, <1>1 DEF RefuseDraft
<1>2. ASSUME NEW w \in Writers, ListLedger(w) PROVE Proposal'
  <2>1. \A v \in Writers \ {w} : taken'[v] = taken[v] /\ pc'[v] = pc[v]
    BY <1>0, <1>2 DEF ListLedger
  <2>2. pc'[w] = "searching" /\ pc[w] = "idle" /\ id' = id /\ kind' = kind
    BY <1>0, <1>2 DEF ListLedger
  <2>3. QED
    BY <2>1, <2>2
<1>3. ASSUME NEW w \in Writers, ListFails(w) PROVE Proposal'
  BY <1>0, <1>3 DEF ListFails
<1>4. ASSUME NEW w \in Writers, Propose(w) PROVE Proposal'
  <2>1. PICK n \in 1..(Cardinality(taken[w]) + 1) :
          LowestFree(n, taken[w]) /\ id' = [id EXCEPT ![w] = <<kind[w], n>>]
    BY <1>4 DEF Propose
  <2>2. n \in Nat \ {0}
    <3>1. Cardinality(taken[w]) \in Nat
      BY FS_CardinalityType DEF TypeOK
    <3>2. QED
      BY <3>1
  <2>3. id'[w] \in Ids /\ id'[w][1] = kind[w] /\ id'[w][2] = n
    BY <1>0, <2>1, <2>2 DEF Ids
  <2>4. \A v \in Writers \ {w} : id'[v] = id[v] /\ pc'[v] = pc[v]
    BY <1>0, <1>4, <2>1 DEF Propose
  <2>5. pc'[w] = "creating" /\ taken' = taken /\ kind' = kind
    BY <1>0, <1>4 DEF Propose
  <2>6. QED
    BY <2>1, <2>3, <2>4, <2>5
<1>5. ASSUME NEW w \in Writers, CreateWins(w) PROVE Proposal'
  BY <1>0, <1>5 DEF CreateWins
<1>6. ASSUME NEW w \in Writers, CreateLoses(w) PROVE Proposal'
  <2>1. \A v \in Writers \ {w} : taken'[v] = taken[v] /\ id'[v] = id[v] /\ pc'[v] = pc[v]
    BY <1>0, <1>6 DEF CreateLoses
  <2>2. pc'[w] = "searching" /\ id'[w] = NoId /\ kind' = kind
    BY <1>0, <1>6 DEF CreateLoses
  <2>3. QED
    BY <2>1, <2>2
<1>7. ASSUME NEW w \in Writers, CreateFails(w) PROVE Proposal'
  BY <1>0, <1>7 DEF CreateFails
<1>8. ASSUME NEW w \in Writers, GiveUp(w) PROVE Proposal'
  BY <1>0, <1>8 DEF GiveUp
<1>9. ASSUME NEW w \in Writers, Crash(w) PROVE Proposal'
  BY <1>0, <1>9 DEF Crash
<1>10. ASSUME NEW i \in DOMAIN ledger, Delete(i) PROVE Proposal'
  BY <1>10 DEF Delete
<1>11. ASSUME UNCHANGED vars PROVE Proposal'
  BY <1>11 DEF vars
<1>12. QED
  BY <1>1, <1>2, <1>3, <1>4, <1>5, <1>6, <1>7, <1>8, <1>9, <1>10, <1>11 DEF Next, Step

-----------------------------------------------------------------------------
(* Add names an id if and only if this entry was stored under it.          *)
LEMMA ReportsInit == Init => ReportsWhatItStored
<1> SUFFICES ASSUME Init PROVE ReportsWhatItStored
  OBVIOUS
<1>1. PICK S \in SUBSET InitialIds : ledger = [i \in S |-> Prior]
  BY DEF Init
<1>2. \A i \in DOMAIN ledger : ledger[i] = Prior
  BY <1>1
<1>3. QED
  BY <1>2, WritersAssumption DEF Init, ReportsWhatItStored, Terminal

LEMMA ReportsStep ==
    TypeOK /\ Proposal /\ ReportsWhatItStored /\ [Next]_vars => ReportsWhatItStored'
<1> SUFFICES ASSUME TypeOK, Proposal, ReportsWhatItStored, [Next]_vars
             PROVE  ReportsWhatItStored'
  OBVIOUS
<1> USE DEF ReportsWhatItStored, Terminal
<1>0. /\ pc \in [Writers -> {"idle", "searching", "creating"} \cup Terminal]
      /\ id \in [Writers -> Ids \cup {NoId}]
      /\ \A v \in Writers : pc[v] \in {"idle", "searching"} => id[v] = NoId
  BY DEF TypeOK, Proposal
<1>1. ASSUME NEW w \in Writers, RefuseDraft(w) PROVE ReportsWhatItStored'
  BY <1>0, <1>1 DEF RefuseDraft
<1>2. ASSUME NEW w \in Writers, ListLedger(w) PROVE ReportsWhatItStored'
  BY <1>0, <1>2 DEF ListLedger
<1>3. ASSUME NEW w \in Writers, ListFails(w) PROVE ReportsWhatItStored'
  BY <1>0, <1>3 DEF ListFails
<1>4. ASSUME NEW w \in Writers, Propose(w) PROVE ReportsWhatItStored'
  <2>1. \A v \in Writers \ {w} : id'[v] = id[v] /\ pc'[v] = pc[v]
    BY <1>0, <1>4 DEF Propose
  <2>2. pc[w] = "searching" /\ pc'[w] = "creating" /\ UNCHANGED <<ledger, removed>>
    BY <1>0, <1>4 DEF Propose
  <2>3. QED
    BY <2>1, <2>2
<1>5. ASSUME NEW w \in Writers, CreateWins(w) PROVE ReportsWhatItStored'
  <2>1. \A v \in Writers \ {w} : pc'[v] = pc[v]
    BY <1>0, <1>5 DEF CreateWins
  <2>2. pc[w] = "creating" /\ pc'[w] = "done" /\ UNCHANGED <<id, removed>>
    BY <1>0, <1>5 DEF CreateWins
  <2>3. /\ id[w] \notin DOMAIN ledger
        /\ DOMAIN ledger' = DOMAIN ledger \cup {id[w]}
        /\ ledger'[id[w]] = w
        /\ \A i \in DOMAIN ledger : ledger'[i] = ledger[i]
    BY <1>5 DEF CreateWins
  <2>4. QED
    BY <2>1, <2>2, <2>3
<1>6. ASSUME NEW w \in Writers, CreateLoses(w) PROVE ReportsWhatItStored'
  <2>1. \A v \in Writers \ {w} : id'[v] = id[v] /\ pc'[v] = pc[v]
    BY <1>0, <1>6 DEF CreateLoses
  <2>2. pc[w] = "creating" /\ pc'[w] = "searching" /\ UNCHANGED <<ledger, removed>>
    BY <1>0, <1>6 DEF CreateLoses
  <2>3. QED
    BY <2>1, <2>2
<1>7. ASSUME NEW w \in Writers, CreateFails(w) PROVE ReportsWhatItStored'
  BY <1>0, <1>7 DEF CreateFails
<1>8. ASSUME NEW w \in Writers, GiveUp(w) PROVE ReportsWhatItStored'
  BY <1>0, <1>8 DEF GiveUp
<1>9. ASSUME NEW w \in Writers, Crash(w) PROVE ReportsWhatItStored'
  BY <1>0, <1>9 DEF Crash
<1>10. ASSUME NEW i \in DOMAIN ledger, Delete(i) PROVE ReportsWhatItStored'
  <2>1. DOMAIN ledger' = DOMAIN ledger \ {i} /\ \A j \in DOMAIN ledger' : ledger'[j] = ledger[j]
    BY <1>10 DEF Delete
  <2>2. UNCHANGED <<pc, id>> /\ removed' = removed \cup {<<i, ledger[i]>>}
    BY <1>10 DEF Delete
  <2>3. QED
    BY <2>1, <2>2
<1>11. ASSUME UNCHANGED vars PROVE ReportsWhatItStored'
  BY <1>11 DEF vars
<1>12. QED
  BY <1>1, <1>2, <1>3, <1>4, <1>5, <1>6, <1>7, <1>8, <1>9, <1>10, <1>11 DEF Next, Step

-----------------------------------------------------------------------------
(* An id once in use counts as used for good; kinds never change; a writer *)
(* that is done stays as it is.                                            *)
LEMMA Stable ==
    ASSUME TypeOK, [Next]_vars
    PROVE  /\ kind' = kind
           /\ Used \subseteq Used'
           /\ \A v \in Writers : pc[v] = "done" => pc'[v] = "done" /\ id'[v] = id[v]
<1> USE DEF TypeOK, Used
<1>1. ASSUME NEW w \in Writers, Step(w) \/ Crash(w)
      PROVE  /\ kind' = kind
             /\ \A v \in Writers : pc[v] = "done" => pc'[v] = "done" /\ id'[v] = id[v]
  BY <1>1 DEF Step, RefuseDraft, ListLedger, ListFails, Propose, CreateWins, CreateLoses,
              CreateFails, GiveUp, Crash
<1>2. ASSUME NEW w \in Writers, Step(w) \/ Crash(w)
      PROVE  removed' = removed /\ DOMAIN ledger \subseteq DOMAIN ledger'
  BY <1>2 DEF Step, RefuseDraft, ListLedger, ListFails, Propose, CreateWins, CreateLoses,
              CreateFails, GiveUp, Crash
<1>3. ASSUME NEW i \in DOMAIN ledger, Delete(i)
      PROVE  /\ UNCHANGED <<kind, pc, id>>
             /\ removed' = removed \cup {<<i, ledger[i]>>}
             /\ DOMAIN ledger' = DOMAIN ledger \ {i}
  BY <1>3 DEF Delete
<1>4. CASE \E w \in Writers : Step(w) \/ Crash(w)
  BY <1>4, <1>1, <1>2
<1>5. CASE \E i \in DOMAIN ledger : Delete(i)
  <2>1. PICK i \in DOMAIN ledger : Delete(i)
    BY <1>5
  <2>2. i \in {r[1] : r \in removed'}
    <3>1. <<i, ledger[i]>> \in removed' /\ <<i, ledger[i]>>[1] = i
      BY <1>3, <2>1
    <3>2. QED
      BY <3>1
  <2>3. QED
    BY <1>3, <2>1, <2>2
<1>6. CASE UNCHANGED vars
  BY <1>6 DEF vars
<1>7. QED
  BY <1>4, <1>5, <1>6 DEF Next

(* What is new in use is what a CreateWins stored.                         *)
LEMMA OnlyCreateWins ==
    ASSUME TypeOK, [Next]_vars, NEW v \in Writers, pc'[v] = "done", pc[v] # "done"
    PROVE  CreateWins(v)
<1> USE DEF TypeOK
<1>1. ASSUME NEW w \in Writers, Step(w) \/ Crash(w) PROVE CreateWins(v)
  <2>1. CASE CreateWins(w)
    BY <2>1 DEF CreateWins
  <2>2. CASE ~CreateWins(w)
    <3>1. \A x \in Writers : pc'[x] = "done" => pc[x] = "done"
      BY <1>1, <2>2 DEF Step, RefuseDraft, ListLedger, ListFails, Propose, CreateLoses,
                        CreateFails, GiveUp, Crash
    <3>2. QED
      BY <3>1
  <2>3. QED
    BY <2>1, <2>2
<1>2. ASSUME NEW i \in DOMAIN ledger, Delete(i) PROVE CreateWins(v)
  BY <1>2 DEF Delete
<1>3. CASE UNCHANGED vars
  BY <1>3 DEF vars
<1>4. QED
  BY <1>1, <1>2, <1>3 DEF Next

-----------------------------------------------------------------------------
(* Below a number that was allocated, every number has been in use.        *)
LEMMA LowestInit == Init => LowestUnused
BY DEF Init, LowestUnused

LEMMA LowestStep ==
    ASSUME TypeOK, Proposal, Knowledge, LowestUnused, [Next]_vars
    PROVE  LowestUnused'
<1> SUFFICES ASSUME NEW w \in Writers, pc'[w] = "done", NEW m \in 1..(id'[w][2] - 1)
             PROVE  <<kind[w], m>> \in Used'
  BY Stable DEF LowestUnused, Used
<1>1. CASE pc[w] = "done"
  BY <1>1, Stable DEF LowestUnused, Used
<1>2. CASE pc[w] # "done"
  <2>1. CreateWins(w)
    BY <1>2, OnlyCreateWins
  <2>2. pc[w] = "creating" /\ id' = id
    BY <2>1 DEF CreateWins
  <2>3. m \in taken[w]
    BY <2>2 DEF Proposal, LowestFree
  <2>4. <<kind[w], m>> \in Used
    BY <2>3 DEF Knowledge
  <2>5. QED
    BY <2>4, Stable
<1>3. QED
  BY <1>1, <1>2

-----------------------------------------------------------------------------
(* What a writer knows changes when it lists, and when it loses.           *)
LEMMA Learning ==
    ASSUME TypeOK, [Next]_vars, NEW w \in Writers
    PROVE  \/ ListLedger(w)
           \/ CreateLoses(w)
           \/ /\ taken'[w] = taken[w] /\ attempts'[w] = attempts[w]
              /\ pc'[w] = "idle" => pc[w] = "idle"
              /\ pc'[w] \in {"searching", "creating"} => pc[w] \in {"searching", "creating"}
<1> USE DEF TypeOK
<1>1. ASSUME NEW v \in Writers, Step(v) \/ Crash(v), v # w
      PROVE  taken'[w] = taken[w] /\ attempts'[w] = attempts[w] /\ pc'[w] = pc[w]
  BY <1>1 DEF Step, RefuseDraft, ListLedger, ListFails, Propose, CreateWins, CreateLoses,
              CreateFails, GiveUp, Crash
<1>2. CASE (Step(w) \/ Crash(w)) /\ ~ListLedger(w) /\ ~CreateLoses(w)
  BY <1>2 DEF Step, RefuseDraft, ListFails, Propose, CreateWins, CreateFails, GiveUp,
              Crash, Terminal
<1>3. ASSUME NEW i \in DOMAIN ledger, Delete(i)
      PROVE  taken'[w] = taken[w] /\ attempts'[w] = attempts[w] /\ pc'[w] = pc[w]
  BY <1>3 DEF Delete
<1>4. CASE UNCHANGED vars
  BY <1>4 DEF vars
<1>5. QED
  BY <1>1, <1>2, <1>3, <1>4 DEF Next

(* No entry of Prior appears: a step stores for the writer that takes it.  *)
LEMMA PriorShrinks ==
    ASSUME TypeOK, [Next]_vars, NEW i \in DOMAIN ledger', ledger'[i] = Prior
    PROVE  i \in DOMAIN ledger /\ ledger[i] = Prior
<1> USE WritersAssumption DEF TypeOK
<1>1. ASSUME NEW w \in Writers, Step(w) \/ Crash(w)
      PROVE  i \in DOMAIN ledger /\ ledger[i] = Prior
  <2>1. CASE CreateWins(w)
    <3>1. /\ DOMAIN ledger' = DOMAIN ledger \cup {id[w]}
          /\ ledger'[id[w]] = w
          /\ \A j \in DOMAIN ledger : j # id[w] => ledger'[j] = ledger[j]
      BY <2>1 DEF CreateWins
    <3>2. QED
      BY <3>1
  <2>2. CASE ~CreateWins(w)
    BY <1>1, <2>2 DEF Step, RefuseDraft, ListLedger, ListFails, Propose, CreateLoses,
                      CreateFails, GiveUp, Crash
  <2>3. QED
    BY <2>1, <2>2
<1>2. ASSUME NEW j \in DOMAIN ledger, Delete(j)
      PROVE  i \in DOMAIN ledger /\ ledger[i] = Prior
  BY <1>2 DEF Delete
<1>3. CASE UNCHANGED vars
  BY <1>3 DEF vars
<1>4. QED
  BY <1>1, <1>2, <1>3 DEF Next

(* A writer holds for taken only what has been in use, and at least what   *)
(* it cannot lose to another writer.                                       *)
LEMMA KnowledgeInit == Init => Knowledge
BY DEF Init, Knowledge

LEMMA KnowledgeStep ==
    ASSUME TypeOK, Proposal, Knowledge, [Next]_vars
    PROVE  Knowledge'
<1> SUFFICES ASSUME NEW w \in Writers
             PROVE  /\ pc'[w] = "idle" => taken'[w] = {} /\ attempts'[w] = 0
                    /\ \A n \in taken'[w] : <<kind[w], n>> \in Used'
                    /\ pc'[w] \in {"searching", "creating"} =>
                         \A i \in DOMAIN ledger' :
                             i[1] = kind[w] /\ ledger'[i] = Prior => i[2] \in taken'[w]
  BY Stable DEF Knowledge
<1>1. CASE ListLedger(w)
  <2>1. /\ taken'[w] = {i[2] : i \in {j \in DOMAIN ledger : j[1] = kind[w]}}
        /\ pc'[w] = "searching" /\ ledger' = ledger
    BY <1>1 DEF ListLedger, TypeOK
  <2>2. \A i \in DOMAIN ledger : i = <<i[1], i[2]>>
    BY DEF TypeOK, Ids
  <2>3. \A n \in taken'[w] : <<kind[w], n>> \in Used
    BY <2>1, <2>2 DEF Used
  <2>4. \A i \in DOMAIN ledger' : i[1] = kind[w] => i[2] \in taken'[w]
    BY <2>1
  <2>5. QED
    BY <2>1, <2>3, <2>4, Stable
<1>2. CASE CreateLoses(w)
  <2>1. /\ taken'[w] = taken[w] \cup {id[w][2]}
        /\ pc[w] = "creating" /\ pc'[w] = "searching" /\ ledger' = ledger
        /\ id[w] \in DOMAIN ledger
    BY <1>2 DEF CreateLoses, TypeOK
  <2>2. id[w] = <<kind[w], id[w][2]>>
    BY <2>1 DEF Proposal, Ids
  <2>3. \A n \in taken'[w] : <<kind[w], n>> \in Used
    BY <2>1, <2>2, ZenonT(60) DEF Used, Knowledge
  <2>4. QED
    BY <2>1, <2>3, Stable DEF Knowledge
<1>3. CASE /\ taken'[w] = taken[w] /\ attempts'[w] = attempts[w]
           /\ pc'[w] = "idle" => pc[w] = "idle"
           /\ pc'[w] \in {"searching", "creating"} => pc[w] \in {"searching", "creating"}
  BY <1>3, Stable, PriorShrinks DEF Knowledge
<1>4. QED
  BY <1>1, <1>2, <1>3, Learning

-----------------------------------------------------------------------------
(* Winners stay winners, and a number once known stays known.              *)
LEMMA KnownGrows ==
    ASSUME TypeOK, [Next]_vars, NEW w \in Writers, taken[w] \subseteq taken'[w]
    PROVE  Known(w) \subseteq Known(w)'
BY Stable DEF Known, Winners

LEMMA KnownFinite ==
    ASSUME NEW w \in Writers
    PROVE  IsFiniteSet(Known(w)) /\ Cardinality(Known(w)) \in Nat
<1>1. Known(w) \in SUBSET Writers
  BY DEF Known, Winners
<1>2. IsFiniteSet(Known(w))
  BY <1>1, FS_Subset, WritersAssumption
<1>3. QED
  BY <1>2, FS_CardinalityType

LEMMA KnownFiniteNext ==
    ASSUME NEW w \in Writers
    PROVE  IsFiniteSet(Known(w)') /\ Cardinality(Known(w)') \in Nat
<1>1. Known(w)' \in SUBSET Writers
  BY DEF Known, Winners
<1>2. IsFiniteSet(Known(w)')
  BY <1>1, FS_Subset, WritersAssumption
<1>3. QED
  BY <1>2, FS_CardinalityType

(* Every lost number has a winner of its own.  The winner of a number just *)
(* lost is new to the loser: it held the number free.                      *)
LEMMA AccountInit == Init => Account
<1> SUFFICES ASSUME Init, NEW w \in Writers PROVE attempts[w] <= Cardinality(Known(w))
  BY DEF Account
<1>1. attempts[w] = 0
  BY DEF Init
<1>2. QED
  BY <1>1, KnownFinite

LEMMA AccountStep ==
    ASSUME TypeOK, Proposal, ReportsWhatItStored, Knowledge, Account, [Next]_vars
    PROVE  Account'
<1> SUFFICES ASSUME NEW w \in Writers PROVE attempts'[w] <= Cardinality(Known(w)')
  BY DEF Account
<1>0. attempts[w] \in Nat /\ attempts[w] <= Cardinality(Known(w))
  BY DEF TypeOK, Account
<1>1. CASE ListLedger(w)
  <2>1. attempts'[w] = 0
    BY <1>1 DEF ListLedger, Knowledge
  <2>2. QED
    BY <2>1, KnownFiniteNext
<1>2. CASE CreateLoses(w)
  <2> DEFINE v == ledger[id[w]]
             n == id[w][2]
  <2>1. /\ pc[w] = "creating" /\ id[w] \in DOMAIN ledger
        /\ taken'[w] = taken[w] \cup {n} /\ attempts'[w] = attempts[w] + 1
    BY <1>2 DEF CreateLoses, TypeOK
  <2>2. id[w][1] = kind[w] /\ n \notin taken[w]
    BY <2>1 DEF Proposal, LowestFree
  <2>3. v \in Writers
    BY <2>1, <2>2 DEF TypeOK, Knowledge
  <2>4. pc[v] = "done" /\ id[v] = id[w] /\ v # w
    BY <2>1, <2>3 DEF ReportsWhatItStored
  <2>5. kind[v] = kind[w]
    BY <2>2, <2>3, <2>4 DEF Proposal
  <2>6. v \in Winners(w) /\ v \notin Known(w)
    BY <2>2, <2>3, <2>4, <2>5 DEF Winners, Known
  <2>7. v \in Known(w)'
    <3>1. pc'[v] = "done" /\ id'[v] = id[v] /\ kind' = kind
      BY <2>3, <2>4, Stable
    <3>2. QED
      BY <3>1, <2>1, <2>3, <2>4, <2>5 DEF Winners, Known
  <2>8. Known(w) \cup {v} \in SUBSET Known(w)'
    BY <2>1, <2>7, KnownGrows
  <2> HIDE DEF v
  <2>9. Cardinality(Known(w) \cup {v}) = Cardinality(Known(w)) + 1
    BY <2>6, KnownFinite, FS_AddElement
  <2>10. Cardinality(Known(w) \cup {v}) <= Cardinality(Known(w)')
    BY <2>8, KnownFiniteNext, FS_Subset
  <2>11. QED
    BY <1>0, <2>1, <2>9, <2>10, KnownFinite, KnownFiniteNext
<1>3. CASE taken'[w] = taken[w] /\ attempts'[w] = attempts[w]
  <2>1. Known(w) \in SUBSET Known(w)'
    BY <1>3, KnownGrows
  <2>2. Cardinality(Known(w)) <= Cardinality(Known(w)')
    BY <2>1, KnownFiniteNext, FS_Subset
  <2>3. QED
    BY <1>0, <1>3, <2>2, KnownFinite, KnownFiniteNext
<1>4. QED
  BY <1>1, <1>2, <1>3, Learning

-----------------------------------------------------------------------------
(* The inductive invariant, and what follows from it.                      *)
LEMMA Invariance == Spec => []IInv
<1>1. Init => IInv
  BY TypeInit, ProposalInit, ReportsInit, LowestInit, KnowledgeInit, AccountInit DEF IInv
<1>2. IInv /\ [Next]_vars => IInv'
  BY TypeStep, ProposalStep, ReportsStep, LowestStep, KnowledgeStep, AccountStep DEF IInv
<1>3. QED
  BY <1>1, <1>2, PTL DEF Spec

(* The state of every Add, and of the ledger, stays what the code declares *)
(* it to be, under any interleaving of Adds and deletions.                 *)
THEOREM TypeCorrect == Spec => []TypeOK
<1>1. IInv => TypeOK
  BY DEF IInv
<1>2. QED
  BY <1>1, Invariance, PTL

(* For any number of writers: an Add that succeeds names the id its entry  *)
(* was stored under, and an Add that does not has stored nothing.          *)
THEOREM Truthful == Spec => []ReportsWhatItStored
<1>1. IInv => ReportsWhatItStored
  BY DEF IInv
<1>2. QED
  BY <1>1, Invariance, PTL

(* For any number of writers: an allocated number is the lowest that was   *)
(* never in use.                                                           *)
THEOREM Lowest == Spec => []LowestUnused
<1>1. IInv => LowestUnused
  BY DEF IInv
<1>2. QED
  BY <1>1, Invariance, PTL

(* For any number of writers: an Add loses at most once to each writer of  *)
(* its kind that succeeds.                                                 *)
THEOREM Collisions == Spec => []CollisionBound
<1>1. IInv => CollisionBound
  <2> SUFFICES ASSUME IInv, NEW w \in Writers PROVE attempts[w] <= Cardinality(Winners(w))
    BY DEF CollisionBound
  <2>1. attempts[w] \in Nat /\ attempts[w] <= Cardinality(Known(w))
    BY DEF IInv, Account, TypeOK
  <2>2. Winners(w) \in SUBSET Writers /\ Known(w) \in SUBSET Winners(w)
    BY DEF Winners, Known
  <2>3. IsFiniteSet(Winners(w))
    BY <2>2, FS_Subset, WritersAssumption
  <2>4. Cardinality(Known(w)) <= Cardinality(Winners(w)) /\ Cardinality(Winners(w)) \in Nat
    BY <2>2, <2>3, FS_Subset, FS_CardinalityType
  <2>5. QED
    BY <2>1, <2>4, KnownFinite
<1>2. QED
  BY <1>1, Invariance, PTL

(* For any number of writers: no number is skipped, and none costs more    *)
(* attempts than other writers gain numbers.                               *)
THEOREM Frugal == Spec => []FrugalNumbers
<1>1. QED
  BY Collisions, Lowest, PTL DEF FrugalNumbers

(* No step overwrites an entry; an entry that goes was deleted.            *)
THEOREM NoClobber == Spec => NeverClobbered
<1> DEFINE Kept == \A i \in DOMAIN ledger :
                     \/ i \in DOMAIN ledger' /\ ledger'[i] = ledger[i]
                     \/ <<i, ledger[i]>> \in removed'
<1>1. [Next]_vars => [Kept]_vars
  <2> SUFFICES ASSUME Next PROVE Kept
    OBVIOUS
  <2>1. ASSUME NEW w \in Writers, Step(w) \/ Crash(w) PROVE Kept
    <3>1. CASE CreateWins(w)
      BY <3>1 DEF CreateWins
    <3>2. CASE ~CreateWins(w)
      BY <2>1, <3>2 DEF Step, RefuseDraft, ListLedger, ListFails, Propose, CreateLoses,
                        CreateFails, GiveUp, Crash
    <3>3. QED
      BY <3>1, <3>2
  <2>2. ASSUME NEW i \in DOMAIN ledger, Delete(i) PROVE Kept
    BY <2>2 DEF Delete
  <2>3. QED
    BY <2>1, <2>2 DEF Next
<1>2. QED
  BY <1>1, PTL DEF Spec, NeverClobbered

-----------------------------------------------------------------------------
(* Allocation implements Ledger: every step is a success, a failure or a   *)
(* removal there, or invisible.                                            *)
Status == [w \in Writers |->
             IF pc[w] = "done" THEN "done"
             ELSE IF pc[w] \in Terminal THEN "failed" ELSE "pending"]
Given == [w \in Writers |-> IF pc[w] = "done" THEN id[w] ELSE NoId]

(* A step that moves one writer, and what its caller sees of it.           *)
LEMMA SeenOf ==
    ASSUME TypeOK, NEW w \in Writers,
           \A v \in Writers \ {w} : pc'[v] = pc[v] /\ id'[v] = id[v]
    PROVE  /\ \A v \in Writers \ {w} : Status'[v] = Status[v] /\ Given'[v] = Given[v]
           /\ Status' = [Status EXCEPT ![w] = Status'[w]]
           /\ Given' = [Given EXCEPT ![w] = Given'[w]]
<1>1. \A v \in Writers \ {w} : Status'[v] = Status[v] /\ Given'[v] = Given[v]
  BY DEF Status, Given
<1>2. /\ DOMAIN Status = Writers /\ DOMAIN Status' = Writers
      /\ DOMAIN Given = Writers /\ DOMAIN Given' = Writers
      /\ Status = [v \in Writers |-> Status[v]] /\ Status' = [v \in Writers |-> Status'[v]]
      /\ Given = [v \in Writers |-> Given[v]] /\ Given' = [v \in Writers |-> Given'[v]]
  BY DEF Status, Given
<1>3. QED
  BY <1>1, <1>2

LEMMA RefineInit == Init => L!Init
<1> SUFFICES ASSUME Init PROVE L!Init
  OBVIOUS
<1>1. PICK S \in SUBSET InitialIds : ledger = [i \in S |-> Prior]
  BY DEF Init
<1>2. DOMAIN ledger = S /\ S \subseteq Ids
  BY <1>1, InitialIdsAssumption
<1>3. ledger = [i \in DOMAIN ledger |-> Prior]
  BY <1>1, <1>2
<1>4. QED
  BY <1>2, <1>3 DEF Init, L!Init, L!Ids, Ids, Terminal

LEMMA RefineStep == IInv /\ [Next]_vars => [L!Next]_L!vars
<1> SUFFICES ASSUME IInv, Next PROVE L!Next \/ UNCHANGED L!vars
  <2>1. UNCHANGED vars => UNCHANGED L!vars
    BY DEF vars, L!vars
  <2>2. QED
    BY <2>1
<1>0. TypeOK /\ Proposal /\ ReportsWhatItStored
  BY DEF IInv
<1> DEFINE Invisible == UNCHANGED <<ledger, Status, Given>>
           Succeeds(w) == /\ Status[w] = "pending"
                          /\ \E i \in DOMAIN ledger' \ DOMAIN ledger :
                               /\ i \in Ids
                               /\ ledger' = [j \in DOMAIN ledger \cup {i} |->
                                               IF j = i THEN w ELSE ledger[j]]
                               /\ Given' = [Given EXCEPT ![w] = i]
                          /\ Status' = [Status EXCEPT ![w] = "done"]
           Fails(w) == /\ Status[w] = "pending"
                       /\ Status' = [Status EXCEPT ![w] = "failed"]
                       /\ UNCHANGED <<ledger, Given>>
           Removes(i) == /\ ledger' = [j \in DOMAIN ledger \ {i} |-> ledger[j]]
                         /\ UNCHANGED <<Status, Given>>
<1>1. ASSUME NEW w \in Writers, RefuseDraft(w) \/ ListFails(w) \/ CreateFails(w)
                                 \/ GiveUp(w) \/ Crash(w)
      PROVE  Fails(w)
  <2>1. \A v \in Writers \ {w} : pc'[v] = pc[v] /\ id'[v] = id[v]
    BY <1>0, <1>1 DEF TypeOK, RefuseDraft, ListFails, CreateFails, GiveUp, Crash
  <2>2. /\ pc[w] \in {"idle", "searching", "creating"}
        /\ pc'[w] \in Terminal \ {"done"} /\ ledger' = ledger
    BY <1>0, <1>1 DEF TypeOK, RefuseDraft, ListFails, CreateFails, GiveUp, Crash, Terminal
  <2>3. /\ Status[w] = "pending" /\ Status'[w] = "failed"
        /\ Given'[w] = NoId /\ Given[w] = NoId
    BY <2>2 DEF Status, Given, Terminal
  <2>4. Given' = Given
    BY <1>0, <2>1, <2>3, SeenOf DEF Given
  <2>5. QED
    BY <1>0, <2>1, <2>2, <2>3, <2>4, SeenOf
<1>2. ASSUME NEW w \in Writers, ListLedger(w) \/ Propose(w) \/ CreateLoses(w)
      PROVE  Invisible
  <2>1. \A v \in Writers \ {w} : pc'[v] = pc[v] /\ id'[v] = id[v]
    BY <1>0, <1>2 DEF TypeOK, ListLedger, Propose, CreateLoses
  <2>2. /\ pc[w] \in {"idle", "searching", "creating"}
        /\ pc'[w] \in {"idle", "searching", "creating"} /\ ledger' = ledger
    BY <1>0, <1>2 DEF TypeOK, ListLedger, Propose, CreateLoses
  <2>3. Status'[w] = Status[w] /\ Given'[w] = Given[w]
    BY <2>2 DEF Status, Given, Terminal
  <2>4. Status' = Status /\ Given' = Given
    BY <1>0, <2>1, <2>3, SeenOf DEF Status, Given
  <2>5. QED
    BY <2>2, <2>4
<1>3. ASSUME NEW w \in Writers, CreateWins(w) PROVE Succeeds(w)
  <2>1. \A v \in Writers \ {w} : pc'[v] = pc[v] /\ id'[v] = id[v]
    BY <1>0, <1>3 DEF TypeOK, CreateWins
  <2>2. pc[w] = "creating" /\ pc'[w] = "done" /\ id'[w] = id[w]
    BY <1>0, <1>3 DEF TypeOK, CreateWins
  <2>3. Status[w] = "pending" /\ Status'[w] = "done" /\ Given'[w] = id[w]
    BY <2>2 DEF Status, Given, Terminal
  <2>4. id[w] \in Ids /\ id[w] \in DOMAIN ledger' \ DOMAIN ledger
    BY <1>0, <1>3, <2>2 DEF Proposal, CreateWins
  <2>5. ledger' = [j \in DOMAIN ledger \cup {id[w]} |-> IF j = id[w] THEN w ELSE ledger[j]]
    BY <1>3 DEF CreateWins
  <2>6. Status' = [Status EXCEPT ![w] = "done"] /\ Given' = [Given EXCEPT ![w] = id[w]]
    BY <1>0, <2>1, <2>3, SeenOf
  <2>7. QED
    BY <2>3, <2>4, <2>5, <2>6
<1>4. ASSUME NEW i \in DOMAIN ledger, Delete(i) PROVE Removes(i)
  BY <1>4 DEF Delete, Status, Given
<1>5. \/ \E w \in Writers : Succeeds(w) \/ Fails(w)
      \/ \E i \in DOMAIN ledger : Removes(i)
      \/ Invisible
  BY <1>1, <1>2, <1>3, <1>4 DEF Next, Step
<1>6. QED
  BY <1>5 DEF L!Next, L!Succeed, L!Fail, L!Remove, L!vars, L!Ids, Ids, Status, Given

(* Every step of racing Adds, seen from outside, is an entry appearing     *)
(* under a fresh id with the report of it, a failure that leaves nothing,  *)
(* a deletion, or nothing at all: what ledger.Add promises.                *)
THEOREM Implements == Spec => ImplementsLedger
<1>1. QED
  BY RefineInit, RefineStep, Invariance, PTL DEF Spec, ImplementsLedger, L!Spec
=============================================================================
