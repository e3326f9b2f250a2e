--------------------------- MODULE RuleStore_proofs --------------------------
(***************************************************************************)
(* What holds of RuleStore for every number of handlers and of rules.      *)
(***************************************************************************)
EXTENDS RuleStore, SequenceTheorems, TLAPS

-----------------------------------------------------------------------------
(* Lists.                                                                  *)

(* What append(rules[:i], rules[i+1:]...) leaves, and where.               *)
LEMMA WithoutElements ==
    ASSUME NEW S, NEW list \in Seq(S), NEW i \in DOMAIN list
    PROVE  /\ Without(list, i) \in Seq(S)
           /\ Len(Without(list, i)) = Len(list) - 1
           /\ \A j \in 1..(Len(list) - 1) :
                Without(list, i)[j] = IF j < i THEN list[j] ELSE list[j + 1]
  <1> DEFINE n == Len(list)
             front == SubSeq(list, 1, i - 1)
             back == SubSeq(list, i + 1, n)
  <1>1. n \in Nat /\ i \in 1..n /\ \A j \in 1..n : list[j] \in S
    BY LenProperties, ElementOfSeq
  <1>2. /\ front \in Seq(S) /\ Len(front) = i - 1
        /\ \A j \in 1..(i - 1) : front[j] = list[j]
    <2>1. \A j \in 1..(i - 1) : list[j] \in S
      BY <1>1
    <2>2. /\ SubSeq(list, 1, i - 1) \in Seq(S)
          /\ Len(SubSeq(list, 1, i - 1)) = IF 1 <= i - 1 THEN (i - 1) - 1 + 1 ELSE 0
          /\ \A j \in 1..((i - 1) - 1 + 1) : SubSeq(list, 1, i - 1)[j] = list[1 + j - 1]
      BY <1>1, <2>1, SubSeqProperties
    <2>3. QED
      BY <1>1, <2>2
  <1>3. /\ back \in Seq(S) /\ Len(back) = n - i
        /\ \A j \in 1..(n - i) : back[j] = list[i + j]
    <2>1. \A j \in (i + 1)..n : list[j] \in S
      BY <1>1
    <2>2. /\ SubSeq(list, i + 1, n) \in Seq(S)
          /\ Len(SubSeq(list, i + 1, n)) = IF i + 1 <= n THEN n - (i + 1) + 1 ELSE 0
          /\ \A j \in 1..(n - (i + 1) + 1) :
                SubSeq(list, i + 1, n)[j] = list[(i + 1) + j - 1]
      BY <1>1, <2>1, SubSeqProperties
    <2>3. QED
      BY <1>1, <2>2
  <1> HIDE DEF n, front, back
  <1>4. /\ front \o back \in Seq(S)
        /\ Len(front \o back) = Len(front) + Len(back)
        /\ \A j \in 1..(Len(front) + Len(back)) :
             (front \o back)[j] = IF j <= Len(front) THEN front[j] ELSE back[j - Len(front)]
    BY <1>2, <1>3, ConcatProperties
  <1>5. /\ Len(front \o back) = n - 1
        /\ \A j \in 1..(n - 1) :
             (front \o back)[j] = IF j < i THEN list[j] ELSE list[j + 1]
    <2>1. Len(front) + Len(back) = n - 1
      BY <1>1, <1>2, <1>3
    <2>2. ASSUME NEW j \in 1..(n - 1), j < i
          PROVE  (front \o back)[j] = list[j]
      BY <1>1, <1>2, <1>4, <2>1, <2>2
    <2>3. ASSUME NEW j \in 1..(n - 1), ~(j < i)
          PROVE  (front \o back)[j] = list[j + 1]
      <3>1. (front \o back)[j] = back[j - (i - 1)]
        BY <1>1, <1>2, <1>4, <2>1, <2>3
      <3>2. j - (i - 1) \in 1..(n - i) /\ i + (j - (i - 1)) = j + 1
        BY <1>1, <2>3
      <3>3. QED
        BY <1>3, <3>1, <3>2
    <2>4. QED
      BY <1>4, <2>1, <2>2, <2>3
  <1>6. QED
    BY <1>4, <1>5 DEF Without, n, front, back

(* A list of rules that were accepted before rule n, in their order.       *)
Accepted(list, n) == InOrder(list) /\ \A i \in DOMAIN list : list[i] < n

LEMMA AcceptedLater ==
    ASSUME NEW list \in Seq(Nat), NEW n \in Nat, NEW m \in Nat, n <= m, Accepted(list, n)
    PROVE  Accepted(list, m)
  BY ElementOfSeq, LenProperties DEF Accepted

LEMMA ListOfNats == List \subseteq Seq(Nat)
  BY MaxRulesAssumption, LenProperties, ElementOfSeq DEF List, RuleId

LEMMA AppendInOrder ==
    ASSUME NEW n \in Nat, NEW list \in Seq(Nat), Accepted(list, n)
    PROVE  Accepted(Append(list, n), n + 1)
  BY DEF Accepted, InOrder

LEMMA WithoutInOrder ==
    ASSUME NEW m \in Nat, NEW list \in Seq(Nat), Accepted(list, m), NEW i \in DOMAIN list
    PROVE  Accepted(Without(list, i), m)
  <1>1. /\ Without(list, i) \in Seq(Nat)
        /\ Len(Without(list, i)) = Len(list) - 1
        /\ \A j \in 1..(Len(list) - 1) :
             Without(list, i)[j] = IF j < i THEN list[j] ELSE list[j + 1]
    BY WithoutElements
  <1>2. \A j \in DOMAIN list : list[j] \in Nat /\ list[j] < m
    BY ElementOfSeq, LenProperties DEF Accepted
  <1>3. DOMAIN list = 1..Len(list) /\ Len(list) \in Nat
    BY LenProperties
  <1>4. DOMAIN Without(list, i) = 1..(Len(list) - 1)
    BY <1>1, LenProperties
  <1> DEFINE n == Len(list)
             rest == Without(list, i)
  <1>5. ASSUME NEW j \in 1..(n - 1), NEW k \in 1..(n - 1), j < k
        PROVE  rest[j] < rest[k]
    <2>1. /\ rest[j] = IF j < i THEN list[j] ELSE list[j + 1]
          /\ rest[k] = IF k < i THEN list[k] ELSE list[k + 1]
      BY <1>1
    <2>2. \A x, y \in 1..n : x < y => list[x] < list[y]
      BY <1>3 DEF Accepted, InOrder
    <2>3. /\ n \in Nat /\ i \in 1..n /\ j \in 1..n /\ k \in 1..n
          /\ j + 1 \in 1..n /\ k + 1 \in 1..n /\ j + 1 < k + 1 /\ j < k + 1
      BY <1>3, <1>5
    <2> HIDE DEF n, rest
    <2>4. list[j] < list[k] /\ list[j + 1] < list[k + 1] /\ list[j] < list[k + 1]
      BY <1>5, <2>2, <2>3
    <2>5. CASE j < i /\ k < i
      BY <2>1, <2>4, <2>5
    <2>6. CASE j < i /\ ~(k < i)
      BY <2>1, <2>4, <2>6
    <2>7. CASE ~(j < i)
      BY <1>5, <2>1, <2>3, <2>4, <2>7
    <2>8. QED
      BY <2>5, <2>6, <2>7
  <1>6. ASSUME NEW j \in 1..(n - 1) PROVE rest[j] < m
    <2>1. rest[j] = IF j < i THEN list[j] ELSE list[j + 1]
      BY <1>1
    <2>2. j \in DOMAIN list /\ j + 1 \in DOMAIN list
      BY <1>3
    <2>3. QED
      BY <1>2, <2>1, <2>2
  <1>7. QED
    BY <1>4, <1>5, <1>6 DEF Accepted, InOrder

-----------------------------------------------------------------------------
(* Types.                                                                  *)

LEMMA EmptyLists == <<>> \in List /\ Torn \in File /\ Whole(<<>>) \in File
  BY EmptySeq DEF List, File, Torn, Whole

LEMMA TypeInit == Init => TypeOK
  <1> SUFFICES ASSUME Init PROVE TypeOK
    OBVIOUS
  <1>1. /\ pc \in [Handlers -> {"idle", "queued", "writing", "written", "saved", "failed"}]
        /\ op \in [Handlers -> Op \cup {NoOp}]
        /\ snap \in [Handlers -> List]
    BY EmptyLists DEF Init
  <1>2. next \in 1..(MaxRules + 1)
    BY MaxRulesAssumption DEF Init
  <1>3. QED
    BY <1>1, <1>2, EmptyLists DEF Init, TypeOK

LEMMA TypeStep == TypeOK /\ [Next]_vars => TypeOK'
  <1> SUFFICES ASSUME TypeOK, [Next]_vars PROVE TypeOK'
    OBVIOUS
  <1> USE MaxRulesAssumption DEF TypeOK, RuleId, Op, NoOp, history
  <1>a. /\ <<>> \in List
        /\ Torn \in File
        /\ \A list \in List : Whole(list) \in File
        /\ disk.rules \in List
    BY EmptySeq DEF List, File, Torn, Whole
  <1>1. ASSUME NEW h \in Handlers, Add(h) PROVE TypeOK'
    <2>1. next \in RuleId /\ next + 1 \in 1..(MaxRules + 1)
      BY <1>1 DEF Add
    <2>2. Append(rules, next) \in List
      BY <2>1, AppendProperties DEF List
    <2>3. [kind |-> "add", rule |-> next] \in Op
      BY <2>1
    <2>4. QED
      BY <1>1, <2>1, <2>2, <2>3 DEF Add, Change
  <1>2. ASSUME NEW h \in Handlers, Remove(h) PROVE TypeOK'
    <2>1. PICK i \in DOMAIN rules :
            /\ Change(h, [kind |-> "remove", rule |-> rules[i]], Without(rules, i))
            /\ dropped' = dropped \cup {rules[i]}
      BY <1>2 DEF Remove
    <2>2. rules[i] \in RuleId /\ Without(rules, i) \in List
      BY WithoutElements, LenProperties, ElementOfSeq DEF List
    <2>3. [kind |-> "remove", rule |-> rules[i]] \in Op
      BY <2>2
    <2>4. QED
      BY <1>2, <2>1, <2>2, <2>3 DEF Remove, Change
  <1>3. ASSUME NEW h \in Handlers, Save(h) PROVE TypeOK'
    BY <1>3, <1>a DEF Save, OpenTmp, WriteTmp, RenameTmp
  <1>4. ASSUME NEW h \in Handlers, SaveFails(h) PROVE TypeOK'
    BY <1>4, <1>a DEF SaveFails
  <1>5. ASSUME NEW h \in Handlers, AnswerOK(h) PROVE TypeOK'
    BY <1>5, <1>a DEF AnswerOK, Finish
  <1>6. ASSUME NEW h \in Handlers, AnswerError(h) PROVE TypeOK'
    BY <1>6, <1>a DEF AnswerError, Finish
  <1>7. CASE Crash
    BY <1>7, <1>a DEF Crash
  <1>8. CASE Restart
    BY <1>8, <1>a DEF Restart
  <1>9. CASE UNCHANGED vars
    BY <1>9 DEF vars
  <1>10. QED
    BY <1>1, <1>2, <1>3, <1>4, <1>5, <1>6, <1>7, <1>8, <1>9 DEF Next

(* Every variable keeps its type, whatever is added, removed, saved, lost. *)
THEOREM TypeCorrect == Spec => []TypeOK
  BY TypeInit, TypeStep, PTL DEF Spec

-----------------------------------------------------------------------------
(* The inductive invariant.                                                *)

(* Store.mu: who is inside, and what the temporary file holds for him.     *)
SaveInv ==
    /\ \A h \in Handlers : pc[h] \in {"writing", "written"} <=> h \in lock
    /\ \A g, h \in lock : g = h
    /\ \A h \in Handlers : pc[h] = "written" => tmp = Whole(snap[h])

(* Every list on its way from memory to the disk and back is in order.     *)
OrderInv ==
    /\ Accepted(rules, next)
    /\ Accepted(disk.rules, next)
    /\ \A h \in Handlers : Accepted(snap[h], next)

(* A handler that still is alone carries the list that is in force.        *)
SoloInv ==
    /\ ~up => solo = {}
    /\ \A h \in solo : pc[h] # "idle" =>
         /\ \A g \in Handlers \ {h} : pc[g] = "idle"
         /\ snap[h] = rules
         /\ pc[h] = "saved" => disk = Whole(rules)

IInv == TypeOK /\ DiskWhole /\ SaveInv /\ OrderInv /\ SoloInv

LEMMA IInvInit == Init => IInv
  <1> SUFFICES ASSUME Init PROVE IInv
    OBVIOUS
  <1>1. TypeOK
    BY TypeInit
  <1>2. DiskWhole /\ SaveInv /\ SoloInv
    BY DEF Init, DiskWhole, SaveInv, SoloInv, Whole
  <1>3. Accepted(<<>>, next)
    BY DEF Accepted, InOrder
  <1>4. OrderInv
    BY <1>3 DEF Init, OrderInv, Whole
  <1>5. QED
    BY <1>1, <1>2, <1>4 DEF IInv

(* The change made under Router.mu: the new list is in order, and whoever  *)
(* was alone is so no more.                                                *)
LEMMA ChangeStep ==
    ASSUME IInv, NEW h \in Handlers, pc[h] = "idle", up, up' = up,
           NEW request, NEW list \in List, Change(h, request, list),
           UNCHANGED <<disk, tmp, lock>>,
           next' \in Nat, next <= next', Accepted(list, next')
    PROVE  DiskWhole' /\ SaveInv' /\ OrderInv' /\ SoloInv'
  <1> USE DEF IInv, TypeOK, Change
  <1>1. DiskWhole' /\ SaveInv'
    BY DEF DiskWhole, SaveInv
  <1>2. ASSUME NEW old \in List, Accepted(old, next) PROVE Accepted(old, next')
    BY <1>2, AcceptedLater, ListOfNats, MaxRulesAssumption
  <1>3. OrderInv'
    BY <1>2 DEF OrderInv, File
  <1>4. SoloInv'
    BY DEF SoloInv
  <1>5. QED
    BY <1>1, <1>3, <1>4

LEMMA AddStep == ASSUME IInv, NEW h \in Handlers, Add(h)
                 PROVE  DiskWhole' /\ SaveInv' /\ OrderInv' /\ SoloInv'
  <1>1. next \in RuleId /\ next \in Nat /\ next' = next + 1 /\ next' \in Nat
    BY MaxRulesAssumption DEF Add, IInv, TypeOK, RuleId
  <1>2. Append(rules, next) \in List
    BY <1>1, AppendProperties DEF IInv, TypeOK, List
  <1>3. Accepted(Append(rules, next), next')
    BY <1>1, AppendInOrder, ListOfNats DEF IInv, OrderInv, TypeOK
  <1>4. /\ pc[h] = "idle" /\ up /\ up' = up /\ next <= next'
        /\ Change(h, [kind |-> "add", rule |-> next], Append(rules, next))
        /\ UNCHANGED <<disk, tmp, lock>>
    BY <1>1 DEF Add
  <1>5. QED
    BY <1>1, <1>2, <1>3, <1>4, ChangeStep

LEMMA RemoveStep == ASSUME IInv, NEW h \in Handlers, Remove(h)
                    PROVE  DiskWhole' /\ SaveInv' /\ OrderInv' /\ SoloInv'
  <1>1. PICK i \in DOMAIN rules :
          Change(h, [kind |-> "remove", rule |-> rules[i]], Without(rules, i))
    BY DEF Remove
  <1>2. next \in Nat /\ next' = next
    BY MaxRulesAssumption DEF Remove, IInv, TypeOK
  <1>3. Without(rules, i) \in List
    BY WithoutElements DEF IInv, TypeOK, List
  <1>4. Accepted(Without(rules, i), next')
    BY <1>2, WithoutInOrder, ListOfNats DEF IInv, OrderInv, TypeOK
  <1>5. pc[h] = "idle" /\ up /\ up' = up /\ next <= next' /\ UNCHANGED <<disk, tmp, lock>>
    BY <1>2 DEF Remove
  <1>6. QED
    BY <1>1, <1>2, <1>3, <1>4, <1>5, ChangeStep

(* The steps of a save, and the answers: the lists only move.              *)
LEMMA SaveStep == ASSUME IInv, NEW h \in Handlers, Save(h)
                  PROVE  DiskWhole' /\ SaveInv' /\ OrderInv' /\ SoloInv'
  <1> USE DEF IInv, TypeOK, DiskWhole, SaveInv, OrderInv, SoloInv, history
  <1>1. CASE OpenTmp(h)
    BY <1>1 DEF OpenTmp
  <1>2. CASE WriteTmp(h)
    BY <1>2 DEF WriteTmp
  <1>3. CASE RenameTmp(h)
    <2>1. disk' = Whole(snap[h]) /\ h \in lock
      BY <1>3 DEF RenameTmp
    <2>2. DiskWhole' /\ OrderInv'
      BY <1>3, <2>1 DEF RenameTmp, Whole
    <2>3. SaveInv'
      BY <1>3, <2>1 DEF RenameTmp
    <2>4. SoloInv'
      BY <1>3, <2>1 DEF RenameTmp
    <2>5. QED
      BY <2>2, <2>3, <2>4
  <1>4. QED
    BY <1>1, <1>2, <1>3 DEF Save

LEMMA OtherStep ==
    ASSUME IInv,
           \/ \E h \in Handlers : SaveFails(h) \/ AnswerOK(h) \/ AnswerError(h)
           \/ Crash \/ Restart \/ UNCHANGED vars
    PROVE  DiskWhole' /\ SaveInv' /\ OrderInv' /\ SoloInv'
  <1> USE DEF IInv, TypeOK, DiskWhole, SaveInv, OrderInv, SoloInv, history
  <1>0. Accepted(<<>>, next)
    BY DEF Accepted, InOrder
  <1>1. ASSUME NEW h \in Handlers, SaveFails(h)
        PROVE  DiskWhole' /\ SaveInv' /\ OrderInv' /\ SoloInv'
    BY <1>1 DEF SaveFails
  <1>2. ASSUME NEW h \in Handlers, AnswerOK(h) \/ AnswerError(h)
        PROVE  DiskWhole' /\ SaveInv' /\ OrderInv' /\ SoloInv'
    BY <1>0, <1>2 DEF AnswerOK, AnswerError, Finish
  <1>3. CASE Crash
    BY <1>0, <1>3 DEF Crash
  <1>4. CASE Restart
    BY <1>0, <1>4 DEF Restart
  <1>5. CASE UNCHANGED vars
    BY <1>5 DEF vars
  <1>6. QED
    BY <1>1, <1>2, <1>3, <1>4, <1>5

LEMMA IInvStep == IInv /\ [Next]_vars => IInv'
  <1> SUFFICES ASSUME IInv, [Next]_vars PROVE IInv'
    OBVIOUS
  <1>1. TypeOK'
    BY TypeStep DEF IInv
  <1>2. DiskWhole' /\ SaveInv' /\ OrderInv' /\ SoloInv'
    BY AddStep, RemoveStep, SaveStep, OtherStep DEF Next
  <1>3. QED
    BY <1>1, <1>2 DEF IInv

LEMMA IInvImplies == IInv => DiskWhole /\ SamePrecedence /\ SoloSaveSyncs
  BY DEF IInv, OrderInv, Accepted, SamePrecedence, SoloInv, SoloSaveSyncs

(* A start always finds a complete file, wherever the process stopped.     *)
THEOREM AtomicWrites == Spec => []DiskWhole
  BY IInvInit, IInvStep, IInvImplies, PTL DEF Spec

(* Memory and disk never disagree about the precedence of two rules.       *)
THEOREM PrecedenceKept == Spec => []SamePrecedence
  BY IInvInit, IInvStep, IInvImplies, PTL DEF Spec

(* A save that ran alone leaves on disk the list that is in force.         *)
THEOREM SoloSavesSync == Spec => []SoloSaveSyncs
  BY IInvInit, IInvStep, IInvImplies, PTL DEF Spec

-----------------------------------------------------------------------------
(* One request at a time.                                                  *)

OneClient == \A g, h \in Handlers : g = h

LEMMA ElemsAppend ==
    ASSUME NEW list \in Seq(Nat), NEW n \in Nat
    PROVE  Elems(Append(list, n)) = Elems(list) \cup {n}
  <1>1. /\ Len(list) \in Nat /\ DOMAIN list = 1..Len(list)
        /\ DOMAIN Append(list, n) = 1..(Len(list) + 1)
        /\ \A i \in 1..Len(list) : Append(list, n)[i] = list[i]
        /\ Append(list, n)[Len(list) + 1] = n
    BY AppendProperties, LenProperties
  <1>2. 1..(Len(list) + 1) = (1..Len(list)) \cup {Len(list) + 1}
    BY <1>1
  <1>3. QED
    BY <1>1, <1>2 DEF Elems

LEMMA ElemsWithout ==
    ASSUME NEW list \in Seq(Nat), InOrder(list), NEW i \in DOMAIN list
    PROVE  Elems(Without(list, i)) = Elems(list) \ {list[i]}
  <1> DEFINE n == Len(list)
             rest == Without(list, i)
  <1>1. /\ n \in Nat /\ DOMAIN list = 1..n /\ i \in 1..n
        /\ \A j \in 1..n : list[j] \in Nat
    BY LenProperties, ElementOfSeq
  <1>2. /\ DOMAIN rest = 1..(n - 1)
        /\ \A j \in 1..(n - 1) : rest[j] = IF j < i THEN list[j] ELSE list[j + 1]
    <2>1. /\ rest \in Seq(Nat) /\ Len(rest) = n - 1
          /\ \A j \in 1..(n - 1) : rest[j] = IF j < i THEN list[j] ELSE list[j + 1]
      BY WithoutElements
    <2>2. DOMAIN rest = 1..Len(rest)
      BY <2>1, LenProperties
    <2>3. QED
      BY <2>1, <2>2
  <1>3. \A j \in 1..n : j # i => list[j] # list[i]
    BY <1>1 DEF InOrder
  <1> HIDE DEF n, rest
  <1>4. ASSUME NEW j \in 1..(n - 1) PROVE rest[j] \in Elems(list) \ {list[i]}
    <2>1. CASE j < i
      BY <1>1, <1>2, <1>3, <2>1 DEF Elems
    <2>2. CASE ~(j < i)
      <3>1. rest[j] = list[j + 1] /\ j + 1 \in 1..n /\ j + 1 # i
        BY <1>1, <1>2, <2>2
      <3>2. QED
        BY <1>1, <1>3, <3>1 DEF Elems
    <2>3. QED
      BY <2>1, <2>2
  <1>5. ASSUME NEW j \in 1..n, j # i PROVE list[j] \in Elems(rest)
    <2>1. CASE j < i
      <3>1. j \in 1..(n - 1) /\ rest[j] = list[j]
        BY <1>1, <1>2, <2>1
      <3>2. QED
        BY <1>2, <3>1 DEF Elems
    <2>2. CASE ~(j < i)
      <3>1. j - 1 \in 1..(n - 1) /\ ~(j - 1 < i) /\ (j - 1) + 1 = j
        BY <1>1, <1>5, <2>2
      <3>2. rest[j - 1] = list[j]
        BY <1>2, <3>1
      <3>3. QED
        BY <1>2, <3>1, <3>2 DEF Elems
    <2>3. QED
      BY <2>1, <2>2
  <1>6. Elems(rest) \subseteq Elems(list) \ {list[i]}
    BY <1>2, <1>4 DEF Elems
  <1>7. Elems(list) \ {list[i]} \subseteq Elems(rest)
    BY <1>1, <1>5 DEF Elems
  <1>8. QED
    BY <1>6, <1>7 DEF rest

(* A single client is always alone, so a save that succeeds has written    *)
(* what is in force; what it asked for is in force until it is answered.   *)
SeqInv ==
    /\ \A h \in Handlers : pc[h] # "idle" =>
         /\ h \in solo
         /\ \A r \in RuleId : op[h] = [kind |-> "add", rule |-> r] => r \in Elems(rules)
         /\ \A r \in RuleId : op[h] = [kind |-> "remove", rule |-> r] =>
              r \notin Elems(rules) /\ r < next
    /\ \A r \in gone : r < next
    /\ AckedDurable
    /\ DeletedStaysDeleted

LEMMA SeqInit == Init => SeqInv
  BY DEF Init, SeqInv, AckedDurable, DeletedStaysDeleted, Elems

LEMMA SeqAdd ==
    ASSUME OneClient, IInv, SeqInv, NEW h \in Handlers, Add(h) PROVE SeqInv'
  <1>1. /\ next \in RuleId /\ next \in Nat /\ next' = next + 1
        /\ \A g \in Handlers : g = h
        /\ rules' = Append(rules, next) /\ pc[h] = "idle" /\ up
        /\ RuleId \subseteq Nat /\ gone \subseteq RuleId
    BY MaxRulesAssumption DEF Add, Change, IInv, TypeOK, RuleId, OneClient
  <1>2. Elems(rules') = Elems(rules) \cup {next}
    BY <1>1, ElemsAppend, ListOfNats DEF IInv, TypeOK
  <1>3. op'[h] = [kind |-> "add", rule |-> next] /\ solo' = {h}
    BY <1>1 DEF Add, Change, IInv, TypeOK
  <1>4. ASSUME NEW g \in Handlers
        PROVE  /\ g \in solo'
               /\ \A r \in RuleId : op'[g] = [kind |-> "add", rule |-> r] => r \in Elems(rules')
               /\ \A r \in RuleId : op'[g] # [kind |-> "remove", rule |-> r]
    BY <1>1, <1>2, <1>3
  <1>5. \A r \in gone : r < next'
    BY <1>1 DEF SeqInv
  <1>6. next \notin gone
    BY <1>1 DEF SeqInv
  <1>7. AckedDurable' /\ DeletedStaysDeleted'
    <2>1. Elems(disk.rules)' = Elems(disk.rules)
      BY DEF Add
    <2>2. next \notin Elems(disk.rules) \cup Elems(rules)
      BY <1>1, ListOfNats DEF IInv, OrderInv, Accepted, Elems, TypeOK
    <2>3. QED
      BY <1>1, <1>2, <1>6, <2>1 DEF Add, SeqInv, AckedDurable, DeletedStaysDeleted
  <1>8. QED
    BY <1>4, <1>5, <1>7 DEF SeqInv, Add

LEMMA SeqRemove ==
    ASSUME OneClient, IInv, SeqInv, NEW h \in Handlers, Remove(h) PROVE SeqInv'
  <1>1. PICK i \in DOMAIN rules :
          /\ Change(h, [kind |-> "remove", rule |-> rules[i]], Without(rules, i))
          /\ dropped' = dropped \cup {rules[i]}
    BY DEF Remove
  <1>2. /\ \A g \in Handlers : g = h
        /\ pc[h] = "idle" /\ up /\ next' = next /\ gone' = gone /\ acked' = acked
        /\ disk' = disk /\ lost' = lost /\ up' = up
    BY DEF Remove, OneClient
  <1>3. Elems(rules') = Elems(rules) \ {rules[i]}
    BY <1>1, ElemsWithout, ListOfNats DEF Change, IInv, TypeOK, OrderInv, Accepted
  <1>4. op'[h] = [kind |-> "remove", rule |-> rules[i]] /\ solo' = {h}
    BY <1>1, <1>2 DEF Change, IInv, TypeOK
  <1>5. rules[i] < next
    BY DEF IInv, OrderInv, Accepted
  <1>6. \A g \in Handlers :
               /\ g \in solo'
               /\ \A r \in RuleId : op'[g] # [kind |-> "add", rule |-> r]
               /\ \A r \in RuleId : op'[g] = [kind |-> "remove", rule |-> r] =>
                    r \notin Elems(rules') /\ r < next
    BY <1>2, <1>3, <1>4, <1>5
  <1>7. AckedDurable' /\ DeletedStaysDeleted'
    BY <1>1, <1>2, <1>3 DEF SeqInv, AckedDurable, DeletedStaysDeleted
  <1>8. QED
    BY <1>2, <1>6, <1>7 DEF SeqInv

LEMMA SeqSave ==
    ASSUME OneClient, IInv, SeqInv, NEW h \in Handlers,
           Save(h) \/ SaveFails(h) \/ AnswerOK(h) \/ AnswerError(h)
    PROVE  SeqInv'
  <1> USE DEF IInv, TypeOK, SeqInv, AckedDurable, DeletedStaysDeleted, history
  <1>1. CASE OpenTmp(h) \/ WriteTmp(h) \/ SaveFails(h)
    BY <1>1 DEF OpenTmp, WriteTmp, SaveFails
  <1>2. CASE RenameTmp(h)
    <2>1. disk'.rules = rules
      BY <1>2 DEF RenameTmp, SaveInv, SoloInv, Whole
    <2>2. QED
      BY <1>2, <2>1 DEF RenameTmp
  <1>3. CASE AnswerOK(h)
    <2>1. disk.rules = rules
      BY <1>3 DEF AnswerOK, SoloInv, Whole
    <2>2. \A g \in Handlers : g = h /\ pc'[g] = "idle"
      BY <1>3 DEF AnswerOK, Finish, OneClient
    <2>3. QED
      BY <1>3, <2>1, <2>2 DEF AnswerOK
  <1>4. CASE AnswerError(h)
    BY <1>4 DEF AnswerError, Finish
  <1>5. QED
    BY <1>1, <1>2, <1>3, <1>4 DEF Save

LEMMA SeqOther ==
    ASSUME IInv, SeqInv, Crash \/ Restart \/ UNCHANGED vars PROVE SeqInv'
  <1> USE DEF IInv, TypeOK, SeqInv, AckedDurable, DeletedStaysDeleted, history
  <1>1. Elems(<<>>) = {}
    BY DEF Elems
  <1>2. CASE Crash
    BY <1>1, <1>2 DEF Crash
  <1>3. CASE Restart
    <2>1. \A h \in Handlers : pc'[h] # "idle" => h \in solo /\ ~up
      BY <1>3 DEF Restart
    <2>2. solo = {}
      BY <1>3 DEF Restart, SoloInv
    <2>3. QED
      BY <1>1, <1>3, <2>1, <2>2 DEF Restart
  <1>4. CASE UNCHANGED vars
    BY <1>4 DEF vars
  <1>5. QED
    BY <1>2, <1>3, <1>4

LEMMA SeqStep ==
    ASSUME OneClient PROVE IInv /\ SeqInv /\ [Next]_vars => SeqInv'
  BY SeqAdd, SeqRemove, SeqSave, SeqOther DEF Next

(* For a client that waits for each answer, 201 and 204 are promises: over *)
(* every crash, restart and failed save.                                   *)
THEOREM SequentialDurable ==
    ASSUME OneClient PROVE Spec => [](AckedDurable /\ DeletedStaysDeleted)
  <1>1. SeqInv => AckedDurable /\ DeletedStaysDeleted
    BY DEF SeqInv
  <1>2. QED
    BY IInvInit, IInvStep, SeqInit, SeqStep, <1>1, PTL DEF Spec

-----------------------------------------------------------------------------
(* The refinement: what each step of a lone handler is to its client.      *)

LEMMA ProgressOfOne ==
    ASSUME OneClient, NEW h \in Handlers
    PROVE  Progress = IF pc[h] = "idle" THEN "none"
                      ELSE IF pc[h] = "saved" THEN "kept" ELSE "changed"
  BY DEF OneClient, Progress

LEMMA ProgressOfOneNext ==
    ASSUME OneClient, NEW h \in Handlers
    PROVE  Progress' = IF pc'[h] = "idle" THEN "none"
                       ELSE IF pc'[h] = "saved" THEN "kept" ELSE "changed"
  BY DEF OneClient, Progress

LEMMA PromiseInit == Init => Promise!Init
  BY DEF Init, Promise!Init, Progress, Whole

(* The critical section of Router.mu is the whole change of the list.      *)
LEMMA PromiseChange ==
    ASSUME OneClient, IInv, NEW h \in Handlers, Add(h) \/ Remove(h)
    PROVE  Promise!Accept \/ Promise!TakeOut
  <1>1. Progress = "none" /\ pc[h] = "idle"
    BY ProgressOfOne DEF Add, Remove
  <1>2. Progress' = "changed"
    <2>1. pc'[h] = "queued"
      BY DEF Add, Remove, Change, IInv, TypeOK
    <2>2. QED
      BY <2>1, ProgressOfOneNext
  <1>3. CASE Add(h)
    <2>1. next \in Nat /\ next' = next + 1 /\ next >= 1
      BY <1>3, MaxRulesAssumption DEF Add, IInv, TypeOK
    <2>2. /\ next \in (1..(next' - 1)) \ (1..(next - 1))
          /\ 1..(next' - 1) = (1..(next - 1)) \cup {next}
      BY <2>1
    <2>3. up /\ up' = up /\ disk'.rules = disk.rules /\ rules' = Append(rules, next)
      BY <1>3 DEF Add, Change
    <2>4. Promise!Accept
      BY <1>1, <1>2, <2>2, <2>3 DEF Promise!Accept
    <2>5. QED
      BY <2>4
  <1>4. CASE Remove(h)
    <2>1. /\ \E i \in DOMAIN rules :
               rules' = SubSeq(rules, 1, i - 1) \o SubSeq(rules, i + 1, Len(rules))
          /\ up /\ up' = up /\ disk'.rules = disk.rules /\ next' = next
      BY <1>4 DEF Remove, Change, Without
    <2>2. Promise!TakeOut
      BY <1>1, <1>2, <2>1 DEF Promise!TakeOut
    <2>3. QED
      BY <2>2
  <1>5. QED
    BY <1>3, <1>4

(* Only the rename shows, and it stores the list that is in force.         *)
LEMMA PromiseSave ==
    ASSUME OneClient, IInv, SeqInv, NEW h \in Handlers,
           Save(h) \/ SaveFails(h) \/ AnswerOK(h) \/ AnswerError(h)
    PROVE  [Promise!Next]_(Promise!vars)
  <1> USE ProgressOfOne, ProgressOfOneNext DEF IInv, TypeOK, history
  <1>1. CASE OpenTmp(h) \/ WriteTmp(h) \/ SaveFails(h)
    <2>1. Progress = "changed" /\ Progress' = "changed"
      BY <1>1 DEF OpenTmp, WriteTmp, SaveFails
    <2>2. UNCHANGED <<up, rules, disk, next>>
      BY <1>1 DEF OpenTmp, WriteTmp, SaveFails
    <2>3. QED
      BY <2>1, <2>2 DEF Promise!vars
  <1>2. CASE RenameTmp(h)
    <2>1. disk'.rules = rules
      BY <1>2 DEF RenameTmp, SaveInv, SoloInv, SeqInv, Whole
    <2>2. Progress = "changed" /\ Progress' = "kept"
      BY <1>2 DEF RenameTmp
    <2>3. Promise!Keep
      BY <1>2, <2>1, <2>2 DEF RenameTmp, Promise!Keep
    <2>4. QED
      BY <2>3 DEF Promise!Next
  <1>3. CASE AnswerOK(h)
    <2>1. Progress = "kept" /\ Progress' = "none"
      BY <1>3 DEF AnswerOK, Finish
    <2>2. Promise!AnswerOK
      BY <1>3, <2>1 DEF AnswerOK, Promise!AnswerOK
    <2>3. QED
      BY <2>2 DEF Promise!Next
  <1>4. CASE AnswerError(h)
    <2>1. Progress = "changed" /\ Progress' = "none"
      BY <1>4 DEF AnswerError, Finish
    <2>2. Promise!AnswerError
      BY <1>4, <2>1 DEF AnswerError, Promise!AnswerError
    <2>3. QED
      BY <2>2 DEF Promise!Next
  <1>5. QED
    BY <1>1, <1>2, <1>3, <1>4 DEF Save

(* While the process is down nobody is at work: see SoloInv and SeqInv.    *)
LEMMA PromiseOther ==
    ASSUME OneClient, IInv, SeqInv, Crash \/ Restart \/ UNCHANGED vars
    PROVE  [Promise!Next]_(Promise!vars)
  <1>1. CASE Crash
    <2>1. Progress' = "none"
      BY <1>1 DEF Crash, Progress
    <2>2. Promise!Crash
      BY <1>1, <2>1 DEF Crash, history, Promise!Crash
    <2>3. QED
      BY <2>2 DEF Promise!Next
  <1>2. CASE Restart
    <2>1. Progress' = Progress
      BY <1>2 DEF Restart, Progress
    <2>2. Promise!Restart
      BY <1>2, <2>1 DEF Restart, Promise!Restart
    <2>3. QED
      BY <2>2 DEF Promise!Next
  <1>3. CASE UNCHANGED vars
    BY <1>3 DEF vars, Progress, Promise!vars
  <1>4. QED
    BY <1>1, <1>2, <1>3

LEMMA PromiseStep ==
    ASSUME OneClient
    PROVE  IInv /\ SeqInv /\ [Next]_vars => [Promise!Next]_(Promise!vars)
  BY PromiseChange, PromiseSave, PromiseOther DEF Next, Promise!Next

(* RuleStore implements DurableRules: to a client that waits for each      *)
(* answer, a request is one change of the list and one durable write of    *)
(* it, whatever fails or stops on the way.                                 *)
THEOREM OneClientIsServed ==
    ASSUME OneClient PROVE Spec => PromiseKept
  BY IInvInit, IInvStep, SeqInit, SeqStep, PromiseInit, PromiseStep, PTL
     DEF Spec, PromiseKept, Promise!Spec
=============================================================================
