--------------------------- MODULE Routing_proofs ---------------------------
(***************************************************************************)
(* Route chooses a node the rules admit, for every list of rules, every    *)
(* mesh and every order in which its nodes are listed.                     *)
(*                                                                         *)
(* A loop of the code is a FoldLeft, which is a function on sets of        *)
(* indices that is defined by recursion.  Recursion says that there is     *)
(* such a function; for each loop, a lemma unrolls it, turn by turn, and   *)
(* another says what the loop computes.                                    *)
(***************************************************************************)
EXTENDS Routing, SequenceTheorems, WellFoundedInduction, TLAPS

-----------------------------------------------------------------------------
(* Induction, over a set of numbers.                                       *)
LEMMA Induction ==
    ASSUME NEW N \in Nat, NEW T \in SUBSET Nat, 0 \in T, \A k \in T : k < N => k + 1 \in T
    PROVE  N \in T
  <1> DEFINE Rest == {k \in 0..N : k \notin T}
  <1> SUFFICES ASSUME N \notin T PROVE FALSE
    OBVIOUS
  <1>1. Rest # {} /\ Rest \subseteq Nat
    OBVIOUS
  <1>2. \A x, y \in Nat : y < x => <<y, x>> \in OpToRel(<, Nat)
    BY DEF OpToRel
  <1> HIDE DEF Rest
  <1>3. \E x \in Rest : \A y \in Rest : ~(<<y, x>> \in OpToRel(<, Nat))
    BY <1>1, NatLessThanWellFounded, WFMin
  <1>4. PICK x \in Rest : \A y \in Rest : ~(y < x)
    BY <1>1, <1>2, <1>3
  <1>5. x \in 0..N /\ x \notin T /\ (x - 1 \in 0..N /\ x - 1 \notin T => FALSE)
    BY <1>4 DEF Rest
  <1>6. x - 1 \in 0..N /\ x - 1 \in Nat /\ x - 1 < N /\ (x - 1) + 1 = x
    BY <1>5
  <1>7. QED
    BY <1>5, <1>6

LEMMA Intervals ==
    ASSUME NEW k \in Nat
    PROVE  /\ 1..0 = {}
           /\ 1..(k + 1) # {} /\ Max(1..(k + 1)) = k + 1 /\ (1..(k + 1)) \ {k + 1} = 1..k
           /\ \A s \in SUBSET (1..(k + 1)) :
                 /\ k + 1 \notin s => s \in SUBSET (1..k)
                 /\ k + 1 \in s => /\ s # {} /\ Max(s) = k + 1
                                   /\ s \ {k + 1} \in SUBSET (1..k) /\ k + 1 \notin s \ {k + 1}
  <1>1. ASSUME NEW s \in SUBSET (1..(k + 1)), k + 1 \in s PROVE Max(s) = k + 1
    <2>1. \A x \in s : x \in Nat /\ k + 1 >= x
      OBVIOUS
    <2>2. \A x \in s : (\A y \in s : x >= y) => x = k + 1
      BY <1>1, <2>1
    <2>3. \E x \in s : \A y \in s : x >= y
      BY <1>1, <2>1
    <2>4. QED
      BY <2>2, <2>3 DEF Max
  <1>2. Max(1..(k + 1)) = k + 1
    BY <1>1
  <1>3. QED
    BY <1>1, <1>2

-----------------------------------------------------------------------------
(* Definition by recursion: what each turn of a loop leaves, from what the *)
(* turn before left and the index.                                         *)
Loop(f, B, base, step, N) ==
    /\ f \in [SUBSET (1..N) -> B]
    /\ \A s \in SUBSET (1..N) : f[s] = IF s = {} THEN base ELSE step[Max(s)][f[s \ {Max(s)}]]

LEMMA Recursion ==
    ASSUME NEW N \in Nat, NEW B, NEW base \in B, NEW step \in [1..N -> [B -> B]]
    PROVE  \E f : Loop(f, B, base, step, N)
  <1> DEFINE T == {k \in Nat : k <= N => \E f : Loop(f, B, base, step, k)}
  <1>1. 0 \in T
    <2>1. Loop([s \in SUBSET (1..0) |-> base], B, base, step, 0)
      BY DEF Loop
    <2>2. QED
      BY <2>1
  <1>2. ASSUME NEW k \in Nat, k < N, NEW f, Loop(f, B, base, step, k)
        PROVE  \E g : Loop(g, B, base, step, k + 1)
    <2> DEFINE g == [s \in SUBSET (1..(k + 1)) |->
                       IF k + 1 \in s THEN step[k + 1][f[s \ {k + 1}]] ELSE f[s]]
    <2>1. ASSUME NEW s \in SUBSET (1..(k + 1))
          PROVE  g[s] \in B /\ g[s] = IF s = {} THEN base ELSE step[Max(s)][g[s \ {Max(s)}]]
      <3>1. CASE k + 1 \in s
        <4>1. /\ s # {} /\ Max(s) = k + 1
              /\ s \ {k + 1} \in SUBSET (1..k) /\ k + 1 \notin s \ {k + 1}
          BY <3>1, Intervals
        <4>2. g[s] = step[k + 1][f[s \ {k + 1}]]
          BY <3>1
        <4>3. g[s \ {k + 1}] = f[s \ {k + 1}]
          BY <4>1
        <4>4. f[s \ {k + 1}] \in B /\ k + 1 \in 1..N
          BY <1>2, <4>1 DEF Loop
        <4>5. step[k + 1][f[s \ {k + 1}]] \in B
          BY <4>4
        <4>6. QED
          BY <4>1, <4>2, <4>3, <4>5
      <3>2. CASE k + 1 \notin s
        <4>1. s \in SUBSET (1..k) /\ s \ {Max(s)} \in SUBSET (1..k) /\ k + 1 \notin s \ {Max(s)}
          BY <3>2, Intervals
        <4>2. f[s] \in B /\ f[s] = IF s = {} THEN base ELSE step[Max(s)][f[s \ {Max(s)}]]
          BY <1>2, <4>1 DEF Loop
        <4>3. g[s] = f[s] /\ g[s \ {Max(s)}] = f[s \ {Max(s)}]
          BY <3>2, <4>1
        <4>4. QED
          BY <4>2, <4>3
      <3>3. QED
        BY <3>1, <3>2
    <2>2. g = [s \in SUBSET (1..(k + 1)) |-> g[s]]
      OBVIOUS
    <2> HIDE DEF g
    <2>3. Loop(g, B, base, step, k + 1)
      BY <2>1, <2>2 DEF Loop
    <2>4. QED
      BY <2>3
  <1>3. \A k \in T : k < N => k + 1 \in T
    BY <1>2
  <1>4. T \in SUBSET Nat
    OBVIOUS
  <1>5. N \in T
    <2> HIDE DEF T
    <2>1. QED
      BY <1>1, <1>3, <1>4, Induction
  <1>6. QED
    BY <1>5

LEMMA Greatest ==
    ASSUME NEW N \in Nat, NEW s \in SUBSET (1..N), s # {}
    PROVE  Max(s) \in s
  <1> DEFINE T == {k \in Nat : \A r \in SUBSET (1..k) : r # {} => Max(r) \in r}
  <1>1. 0 \in T
    BY Intervals
  <1>2. \A k \in T : k + 1 \in T
    <2>1. ASSUME NEW k \in T, NEW r \in SUBSET (1..(k + 1)), r # {} PROVE Max(r) \in r
      <3>1. CASE k + 1 \in r
        BY <3>1, Intervals
      <3>2. CASE k + 1 \notin r
        BY <2>1, <3>2, Intervals
      <3>3. QED
        BY <3>1, <3>2
    <2>2. QED
      BY <2>1
  <1>3. T \in SUBSET Nat
    OBVIOUS
  <1>4. N \in T
    <2> HIDE DEF T
    <2>1. QED
      BY <1>1, <1>2, <1>3, Induction
  <1>5. QED
    BY <1>4

-----------------------------------------------------------------------------
(* filterOnline and matchNodes.                                            *)
Keep(kept, id, S) == IF id \in S THEN Append(kept, id) ELSE kept

KeptBy(f, list, S) ==
    f = [s \in SUBSET DOMAIN list |->
           IF s = {} THEN <<>> ELSE Keep(f[s \ {Max(s)}], list[Max(s)], S)]

LEMMA FilterTurns ==
    ASSUME NEW D, NEW list \in Seq(D), NEW S
    PROVE  \E f : /\ Filter(list, S) = f[1..Len(list)] /\ f[1..0] = <<>>
                  /\ \A k \in Nat :
                        k < Len(list) => f[1..(k + 1)] = Keep(f[1..k], list[k + 1], S)
  <1>0. Len(list) \in Nat /\ DOMAIN list = 1..Len(list)
    BY LenProperties
  <1> DEFINE step == [i \in 1..Len(list) |-> [kept \in Seq(D) |-> Keep(kept, list[i], S)]]
  <1>1. step \in [1..Len(list) -> [Seq(D) -> Seq(D)]]
    <2>1. \A i \in 1..Len(list) : list[i] \in D
      BY <1>0
    <2>2. \A i \in 1..Len(list), kept \in Seq(D) : Keep(kept, list[i], S) \in Seq(D)
      BY <2>1, AppendProperties DEF Keep
    <2>3. QED
      BY <2>2
  <1>2. PICK g : Loop(g, Seq(D), <<>>, step, Len(list))
    <2>1. <<>> \in Seq(D)
      BY EmptySeq
    <2> HIDE DEF step
    <2>2. QED
      BY <1>0, <1>1, <2>1, Recursion
  <1>3. KeptBy(g, list, S)
    <2>1. ASSUME NEW s \in SUBSET DOMAIN list
          PROVE  g[s] = IF s = {} THEN <<>> ELSE Keep(g[s \ {Max(s)}], list[Max(s)], S)
      <3>1. CASE s = {}
        BY <1>0, <1>2, <3>1 DEF Loop
      <3>2. CASE s # {}
        <4>1. Max(s) \in 1..Len(list) /\ s \ {Max(s)} \in SUBSET (1..Len(list))
          BY <1>0, <3>2, Greatest
        <4>2. g[s \ {Max(s)}] \in Seq(D)
          BY <1>2, <4>1 DEF Loop
        <4>3. g[s] = step[Max(s)][g[s \ {Max(s)}]]
          BY <1>0, <1>2, <3>2 DEF Loop
        <4>4. QED
          BY <3>2, <4>1, <4>2, <4>3
      <3>3. QED
        BY <3>1, <3>2
    <2>2. g = [s \in SUBSET DOMAIN list |-> g[s]]
      BY <1>0, <1>2 DEF Loop
    <2>3. QED
      BY <2>1, <2>2 DEF KeptBy
  <1>4. PICK f : KeptBy(f, list, S) /\ Filter(list, S) = f[1..Len(list)]
    <2>1. Filter(list, S) = (CHOOSE f : KeptBy(f, list, S))[DOMAIN list]
      BY DEF Filter, FoldLeft, MapThenFoldSet, KeptBy, Keep
    <2>2. QED
      BY <1>0, <1>3, <2>1
  <1>5. f[1..0] = <<>>
    BY <1>0, <1>4, Intervals DEF KeptBy
  <1>6. ASSUME NEW k \in Nat, k < Len(list) PROVE f[1..(k + 1)] = Keep(f[1..k], list[k + 1], S)
    <2>1. 1..(k + 1) \in SUBSET DOMAIN list
      BY <1>0, <1>6
    <2>2. 1..(k + 1) # {} /\ Max(1..(k + 1)) = k + 1 /\ (1..(k + 1)) \ {k + 1} = 1..k
      BY Intervals
    <2>3. QED
      BY <1>4, <2>1, <2>2 DEF KeptBy
  <1>7. QED
    BY <1>4, <1>5, <1>6

LEMMA AppendRange ==
    ASSUME NEW D, NEW s \in Seq(D), NEW d \in D
    PROVE  Range(Append(s, d)) = Range(s) \cup {d}
  <1>1. /\ Append(s, d) \in Seq(D) /\ Len(s) \in Nat /\ Len(Append(s, d)) = Len(s) + 1
        /\ \A i \in 1..Len(s) : Append(s, d)[i] = s[i]
        /\ Append(s, d)[Len(s) + 1] = d
    BY AppendProperties, LenProperties
  <1>2. /\ Range(s) = {s[i] : i \in 1..Len(s)}
        /\ Range(Append(s, d)) = {Append(s, d)[i] : i \in 1..(Len(s) + 1)}
    BY <1>1, RangeEquality
  <1>3. 1..(Len(s) + 1) = (1..Len(s)) \cup {Len(s) + 1}
    BY <1>1
  <1>4. QED
    BY <1>1, <1>2, <1>3

(* Filter gives what the list and the set have in common.                  *)
LEMMA FilterResult ==
    ASSUME NEW D, NEW list \in Seq(D), NEW S
    PROVE  Filter(list, S) \in Seq(D) /\ Range(Filter(list, S)) = Range(list) \cap S
  <1>0. Len(list) \in Nat /\ DOMAIN list = 1..Len(list) /\ \A i \in 1..Len(list) : list[i] \in D
    BY LenProperties
  <1>1. PICK f : /\ Filter(list, S) = f[1..Len(list)] /\ f[1..0] = <<>>
                 /\ \A k \in Nat :
                       k < Len(list) => f[1..(k + 1)] = Keep(f[1..k], list[k + 1], S)
    BY FilterTurns
  <1> DEFINE T == {k \in Nat : k <= Len(list) =>
                      /\ f[1..k] \in Seq(D)
                      /\ Range(f[1..k]) = {list[i] : i \in 1..k} \cap S}
  <1>2. 0 \in T
    <2>1. <<>> \in Seq(D) /\ 1..0 = {}
      BY EmptySeq
    <2>2. Range(<<>>) = {}
      BY DEF Range
    <2>3. QED
      BY <1>1, <2>1, <2>2
  <1>3. ASSUME NEW k \in T, k < Len(list) PROVE k + 1 \in T
    <2>1. k \in Nat /\ f[1..k] \in Seq(D) /\ Range(f[1..k]) = {list[i] : i \in 1..k} \cap S
      BY <1>0, <1>3
    <2>2. list[k + 1] \in D /\ 1..(k + 1) = (1..k) \cup {k + 1} /\ k + 1 \in Nat
      BY <1>0, <1>3, <2>1
    <2>3. {list[i] : i \in 1..(k + 1)} = {list[i] : i \in 1..k} \cup {list[k + 1]}
      BY <2>2
    <2>4. f[1..(k + 1)] = Keep(f[1..k], list[k + 1], S)
      BY <1>1, <1>3, <2>1
    <2>5. CASE list[k + 1] \in S
      <3>1. f[1..(k + 1)] = Append(f[1..k], list[k + 1])
        BY <2>4, <2>5 DEF Keep
      <3>2. /\ Append(f[1..k], list[k + 1]) \in Seq(D)
            /\ Range(Append(f[1..k], list[k + 1])) = Range(f[1..k]) \cup {list[k + 1]}
        BY <2>1, <2>2, AppendProperties, AppendRange
      <3>3. Range(f[1..(k + 1)]) = {list[i] : i \in 1..(k + 1)} \cap S
        BY <2>1, <2>3, <2>5, <3>1, <3>2
      <3>4. QED
        BY <2>2, <3>1, <3>2, <3>3
    <2>6. CASE list[k + 1] \notin S
      <3>1. f[1..(k + 1)] = f[1..k]
        BY <2>4, <2>6 DEF Keep
      <3>2. {list[i] : i \in 1..(k + 1)} \cap S = {list[i] : i \in 1..k} \cap S
        BY <2>3, <2>6
      <3>3. QED
        BY <2>1, <2>2, <3>1, <3>2
    <2>7. QED
      BY <2>5, <2>6
  <1>4. Len(list) \in T
    <2>1. T \in SUBSET Nat
      OBVIOUS
    <2> HIDE DEF T
    <2>2. QED
      BY <1>0, <1>2, <1>3, <2>1, Induction
  <1>5. QED
    BY <1>0, <1>1, <1>4, RangeEquality

-----------------------------------------------------------------------------
(* leastBusy.                                                              *)
Better(best, id, nodes) ==
    IF best = Nobody \/ statusPriority(nodes[id].status) < statusPriority(nodes[best].status)
    THEN id ELSE best

LeastBy(f, list, nodes) ==
    f = [s \in SUBSET DOMAIN list |->
           IF s = {} THEN Nobody ELSE Better(f[s \ {Max(s)}], list[Max(s)], nodes)]

LEMMA LeastTurns ==
    ASSUME NEW D, NEW list \in Seq(D), NEW nodes
    PROVE  \E f : /\ leastBusy(list, nodes) = f[1..Len(list)] /\ f[1..0] = Nobody
                  /\ \A k \in Nat :
                        k < Len(list) => f[1..(k + 1)] = Better(f[1..k], list[k + 1], nodes)
  <1>0. Len(list) \in Nat /\ DOMAIN list = 1..Len(list)
    BY LenProperties
  <1> DEFINE step == [i \in 1..Len(list) |-> [best \in D \cup {Nobody} |-> Better(best, list[i], nodes)]]
  <1>1. step \in [1..Len(list) -> [D \cup {Nobody} -> D \cup {Nobody}]]
    <2>1. \A i \in 1..Len(list) : list[i] \in D
      BY <1>0
    <2>2. \A i \in 1..Len(list), best \in D \cup {Nobody} :
             Better(best, list[i], nodes) \in D \cup {Nobody}
      BY <2>1 DEF Better
    <2>3. QED
      BY <2>2
  <1>2. PICK g : Loop(g, D \cup {Nobody}, Nobody, step, Len(list))
    <2> HIDE DEF step
    <2>1. QED
      BY <1>0, <1>1, Recursion
  <1>3. LeastBy(g, list, nodes)
    <2>1. ASSUME NEW s \in SUBSET DOMAIN list
          PROVE  g[s] = IF s = {} THEN Nobody ELSE Better(g[s \ {Max(s)}], list[Max(s)], nodes)
      <3>1. CASE s = {}
        BY <1>0, <1>2, <3>1 DEF Loop
      <3>2. CASE s # {}
        <4>1. Max(s) \in 1..Len(list) /\ s \ {Max(s)} \in SUBSET (1..Len(list))
          BY <1>0, <3>2, Greatest
        <4>2. g[s \ {Max(s)}] \in D \cup {Nobody}
          BY <1>2, <4>1 DEF Loop
        <4>3. g[s] = step[Max(s)][g[s \ {Max(s)}]]
          BY <1>0, <1>2, <3>2 DEF Loop
        <4>4. QED
          BY <3>2, <4>1, <4>2, <4>3
      <3>3. QED
        BY <3>1, <3>2
    <2>2. g = [s \in SUBSET DOMAIN list |-> g[s]]
      BY <1>0, <1>2 DEF Loop
    <2>3. QED
      BY <2>1, <2>2 DEF LeastBy
  <1>4. PICK f : LeastBy(f, list, nodes) /\ leastBusy(list, nodes) = f[1..Len(list)]
    <2>1. leastBusy(list, nodes) = (CHOOSE f : LeastBy(f, list, nodes))[DOMAIN list]
      BY DEF leastBusy, FoldLeft, MapThenFoldSet, LeastBy, Better
    <2>2. QED
      BY <1>0, <1>3, <2>1
  <1>5. f[1..0] = Nobody
    BY <1>0, <1>4, Intervals DEF LeastBy
  <1>6. ASSUME NEW k \in Nat, k < Len(list) PROVE f[1..(k + 1)] = Better(f[1..k], list[k + 1], nodes)
    <2>1. 1..(k + 1) \in SUBSET DOMAIN list
      BY <1>0, <1>6
    <2>2. 1..(k + 1) # {} /\ Max(1..(k + 1)) = k + 1 /\ (1..(k + 1)) \ {k + 1} = 1..k
      BY Intervals
    <2>3. QED
      BY <1>4, <2>1, <2>2 DEF LeastBy
  <1>7. QED
    BY <1>4, <1>5, <1>6

LEMMA Priorities ==
    ASSUME NEW status
    PROVE  statusPriority(status) \in 0..2 /\ (statusPriority(status) = 0 <=> status = "online")
  BY DEF statusPriority

(* leastBusy gives an idle node of the list, if there is one.              *)
LEMMA LeastResult ==
    ASSUME NEW D, NEW list \in Seq(D), NEW nodes, Nobody \notin D
    PROVE  /\ list = <<>> => leastBusy(list, nodes) = Nobody
           /\ list # <<>> => leastBusy(list, nodes) \in Idlest(Range(list), nodes)
  <1>0. /\ Len(list) \in Nat /\ DOMAIN list = 1..Len(list)
        /\ \A i \in 1..Len(list) : list[i] \in D /\ list[i] # Nobody
        /\ list = <<>> <=> Len(list) = 0
    BY LenProperties, EmptySeq
  <1>1. PICK f : /\ leastBusy(list, nodes) = f[1..Len(list)] /\ f[1..0] = Nobody
                 /\ \A k \in Nat :
                       k < Len(list) => f[1..(k + 1)] = Better(f[1..k], list[k + 1], nodes)
    BY LeastTurns
  <1> DEFINE seen(k) == {list[i] : i \in 1..k}
             idle(id) == nodes[id].status = "online"
             T == {k \in Nat : k <= Len(list) =>
                      \/ k = 0 /\ f[1..k] = Nobody
                      \/ /\ k > 0 /\ f[1..k] \in seen(k)
                         /\ (\E id \in seen(k) : idle(id)) => idle(f[1..k])}
  <1>2. 0 \in T
    BY <1>1
  <1>3. ASSUME NEW k \in T, k < Len(list) PROVE k + 1 \in T
    <2>1. list[k + 1] \in D /\ list[k + 1] # Nobody /\ seen(k + 1) = seen(k) \cup {list[k + 1]}
      <3>1. k \in Nat /\ k + 1 \in 1..Len(list) /\ 1..(k + 1) = (1..k) \cup {k + 1}
        BY <1>0, <1>3
      <3>2. QED
        BY <1>0, <3>1
    <2>2. f[1..(k + 1)] = Better(f[1..k], list[k + 1], nodes)
      BY <1>1, <1>3
    <2>3. CASE f[1..k] = Nobody \/ statusPriority(nodes[list[k + 1]].status)
                                        < statusPriority(nodes[f[1..k]].status)
      <3>1. f[1..(k + 1)] = list[k + 1]
        BY <2>2, <2>3 DEF Better
      <3>2. \A id \in seen(k) : id # Nobody
        BY <1>0, <1>3
      <3>3. ASSUME \E id \in seen(k) : idle(id) PROVE FALSE
        <4>1. f[1..k] # Nobody /\ statusPriority(nodes[f[1..k]].status) = 0
          BY <1>0, <1>3, <3>2, <3>3, Priorities
        <4>2. statusPriority(nodes[list[k + 1]].status) \in 0..2
          BY Priorities
        <4>3. QED
          BY <2>3, <4>1, <4>2
      <3>4. QED
        BY <2>1, <3>1, <3>3
    <2>4. CASE ~(f[1..k] = Nobody \/ statusPriority(nodes[list[k + 1]].status)
                                        < statusPriority(nodes[f[1..k]].status))
      <3>1. f[1..(k + 1)] = f[1..k]
        BY <2>2, <2>4 DEF Better
      <3>2. k > 0 /\ f[1..k] \in seen(k) /\ ((\E id \in seen(k) : idle(id)) => idle(f[1..k]))
        BY <1>0, <1>3, <2>4
      <3>3. idle(list[k + 1]) => idle(f[1..k])
        <4>1. idle(list[k + 1]) => statusPriority(nodes[list[k + 1]].status) = 0
          BY Priorities
        <4>2. statusPriority(nodes[f[1..k]].status) \in 0..2
          BY Priorities
        <4>3. idle(list[k + 1]) => statusPriority(nodes[f[1..k]].status) = 0
          BY <2>4, <4>1, <4>2
        <4>4. QED
          BY <4>3, Priorities
      <3>4. QED
        BY <2>1, <3>1, <3>2, <3>3
    <2>5. QED
      BY <2>3, <2>4
  <1>4. Len(list) \in T
    <2>1. T \in SUBSET Nat
      OBVIOUS
    <2> HIDE DEF T
    <2>2. QED
      BY <1>0, <1>2, <1>3, <2>1, Induction
  <1>5. Range(list) = seen(Len(list))
    BY RangeEquality
  <1>6. QED
    BY <1>0, <1>1, <1>4, <1>5 DEF Idlest

-----------------------------------------------------------------------------
(* The rules.                                                              *)
LEMMA EmptyRange ==
    ASSUME NEW D, NEW s \in Seq(D)
    PROVE  /\ s = <<>> <=> Range(s) = {}
           /\ s # <<>> => Head(s) \in Range(s)
           /\ Range(s) \subseteq D
  <1>1. /\ Len(s) \in Nat /\ Range(s) = {s[i] : i \in 1..Len(s)}
        /\ s = <<>> <=> Len(s) = 0
        /\ \A i \in 1..Len(s) : s[i] \in D
    BY LenProperties, RangeEquality, EmptySeq
  <1>2. s # <<>> => Head(s) = s[1] /\ 1 \in 1..Len(s)
    BY <1>1
  <1>3. s = <<>> <=> Range(s) = {}
    <2>1. Len(s) # 0 => s[1] \in Range(s)
      BY <1>1
    <2>2. Len(s) = 0 => Range(s) = {}
      BY <1>1
    <2>3. QED
      BY <1>1, <2>1, <2>2
  <1>4. QED
    BY <1>1, <1>2, <1>3

LEMMA LeastOfRange ==
    ASSUME NEW D, NEW list \in Seq(D), NEW nodes, Nobody \notin D
    PROVE  /\ Range(list) = {} => leastBusy(list, nodes) = Nobody
           /\ Range(list) # {} => leastBusy(list, nodes) \in Idlest(Range(list), nodes)
  <1>1. list = <<>> <=> Range(list) = {}
    BY EmptyRange
  <1>2. QED
    BY <1>1, LeastResult

OnlineIn(nodes) == {id \in DOMAIN nodes : nodes[id].status # "offline"}

(* What a rule that admits somebody chooses.                               *)
Chosen(rule, nodes) ==
    IF rule.wild \/ rule.target = Unset THEN Idlest(Admitted(rule, nodes), nodes)
                                        ELSE Admitted(rule, nodes)

LEMMA IdlestPart ==
    ASSUME NEW S, NEW nodes
    PROVE  Idlest(S, nodes) \subseteq S
  BY DEF Idlest

(* A rule that admits nobody is passed over; another chooses among those   *)
(* it admits.                                                              *)
LEMMA TryRuleResult ==
    ASSUME NEW D, Nobody \notin D, NEW nodes, NEW rule, rule.wild \in BOOLEAN,
           NEW online \in Seq(D), Range(online) = OnlineIn(nodes)
    PROVE  /\ Admitted(rule, nodes) = {} => TryRule(rule, online, nodes) = Nobody
           /\ Admitted(rule, nodes) # {} =>
                 /\ TryRule(rule, online, nodes) \in Chosen(rule, nodes)
                 /\ TryRule(rule, online, nodes) \in D
  <1> DEFINE candidates == Filter(online, {id \in DOMAIN nodes : Matches(rule, id)})
             targets    == Filter(candidates, {id \in DOMAIN nodes : Named(rule, id)})
  <1>1. /\ candidates \in Seq(D)
        /\ Range(candidates) = {id \in OnlineIn(nodes) : Matches(rule, id)}
    BY FilterResult DEF OnlineIn
  <1>2. /\ targets \in Seq(D)
        /\ Range(targets) = {id \in OnlineIn(nodes) : Matches(rule, id) /\ Named(rule, id)}
    <2> HIDE DEF candidates
    <2>1. /\ targets \in Seq(D)
          /\ Range(targets) = Range(candidates) \cap {id \in DOMAIN nodes : Named(rule, id)}
      BY <1>1, FilterResult
    <2>2. QED
      BY <1>1, <2>1 DEF OnlineIn
  <1>3. TryRule(rule, online, nodes) =
            CASE rule.wild -> leastBusy(online, nodes)
              [] ~rule.wild /\ rule.target = Unset -> leastBusy(candidates, nodes)
              [] OTHER -> IF targets = <<>> THEN Nobody ELSE Head(targets)
    BY DEF TryRule
  <1> HIDE DEF candidates, targets
  <1>4. Admitted(rule, nodes) \subseteq D
    BY EmptyRange DEF Admitted, OnlineIn
  <1>5. Chosen(rule, nodes) \subseteq Admitted(rule, nodes)
    BY IdlestPart DEF Chosen
  <1>6. CASE rule.wild
    <2>1. Admitted(rule, nodes) = Range(online)
      BY <1>6 DEF Admitted, OnlineIn
    <2>2. TryRule(rule, online, nodes) = leastBusy(online, nodes)
      BY <1>3, <1>6
    <2>3. /\ Range(online) = {} => leastBusy(online, nodes) = Nobody
          /\ Range(online) # {} => leastBusy(online, nodes) \in Idlest(Range(online), nodes)
      BY LeastOfRange
    <2>4. Chosen(rule, nodes) = Idlest(Admitted(rule, nodes), nodes)
      BY <1>6 DEF Chosen
    <2>5. QED
      BY <1>4, <1>5, <2>1, <2>2, <2>3, <2>4
  <1>7. CASE ~rule.wild /\ rule.target = Unset
    <2>1. Admitted(rule, nodes) = Range(candidates)
      BY <1>1, <1>7 DEF Admitted, OnlineIn
    <2>2. TryRule(rule, online, nodes) = leastBusy(candidates, nodes)
      BY <1>3, <1>7
    <2>3. /\ Range(candidates) = {} => leastBusy(candidates, nodes) = Nobody
          /\ Range(candidates) # {} => leastBusy(candidates, nodes) \in Idlest(Range(candidates), nodes)
      <3>1. candidates \in Seq(D)
        BY <1>1
      <3>2. QED
        BY <3>1, LeastOfRange
    <2>4. Chosen(rule, nodes) = Idlest(Admitted(rule, nodes), nodes)
      BY <1>7 DEF Chosen
    <2>5. QED
      BY <1>4, <1>5, <2>1, <2>2, <2>3, <2>4
  <1>8. CASE ~rule.wild /\ rule.target # Unset
    <2>1. Admitted(rule, nodes) = Range(targets)
      BY <1>2, <1>8 DEF Admitted, OnlineIn
    <2>2. TryRule(rule, online, nodes) = IF targets = <<>> THEN Nobody ELSE Head(targets)
      BY <1>3, <1>8
    <2>3. QED
      BY <1>2, <1>4, <1>8, <2>1, <2>2, EmptyRange DEF Chosen
  <1>9. QED
    BY <1>6, <1>7, <1>8

-----------------------------------------------------------------------------
(* The loop over the rules.                                                *)
Turn(chosen, rule, online, nodes) ==
    IF chosen = Nobody THEN TryRule(rule, online, nodes) ELSE chosen

TurnsBy(f, rules, online, nodes) ==
    f = [s \in SUBSET DOMAIN rules |->
           IF s = {} THEN Nobody ELSE Turn(f[s \ {Max(s)}], rules[Max(s)], online, nodes)]

LEMMA WildOrNot == ASSUME NEW rule \in Rule PROVE rule.wild \in BOOLEAN
  <1>1. \A S : rule \in [wild : BOOLEAN, gpu : BOOLEAN, os : S, skill : S, target : S]
                  => rule.wild \in BOOLEAN
    OBVIOUS
  <1>2. QED
    BY <1>1 DEF Rule

LEMMA RuleTurns ==
    ASSUME NEW D, Nobody \notin D, NEW nodes, NEW rules \in Seq(Rule), NEW list,
           filterOnline(list, nodes) \in Seq(D), Range(filterOnline(list, nodes)) = OnlineIn(nodes)
    PROVE  LET online == filterOnline(list, nodes)
           IN  \E f : /\ Route(rules, list, nodes) =
                              IF f[1..Len(rules)] = Nobody THEN leastBusy(online, nodes)
                                                          ELSE f[1..Len(rules)]
                      /\ f[1..0] = Nobody
                      /\ \A k \in Nat :
                            k < Len(rules) =>
                                f[1..(k + 1)] = Turn(f[1..k], rules[k + 1], online, nodes)
  <1> DEFINE online == filterOnline(list, nodes)
             last(f) == f[DOMAIN rules]
  <1>0. Len(rules) \in Nat /\ DOMAIN rules = 1..Len(rules)
    BY LenProperties
  <1> DEFINE step == [i \in 1..Len(rules) |-> [chosen \in D \cup {Nobody} |->
                       Turn(chosen, rules[i], online, nodes)]]
  <1>1. step \in [1..Len(rules) -> [D \cup {Nobody} -> D \cup {Nobody}]]
    <2>1. \A i \in 1..Len(rules) : rules[i].wild \in BOOLEAN
      BY <1>0, WildOrNot
    <2>2. ASSUME NEW i \in 1..Len(rules)
          PROVE  TryRule(rules[i], online, nodes) \in D \cup {Nobody}
      <3>1. rules[i].wild \in BOOLEAN /\ online \in Seq(D) /\ Range(online) = OnlineIn(nodes)
        BY <2>1
      <3> HIDE DEF online, step
      <3>2. /\ Admitted(rules[i], nodes) = {} => TryRule(rules[i], online, nodes) = Nobody
            /\ Admitted(rules[i], nodes) # {} => TryRule(rules[i], online, nodes) \in D
        BY <3>1, TryRuleResult
      <3>3. QED
        BY <3>2
    <2>3. \A i \in 1..Len(rules), chosen \in D \cup {Nobody} :
             Turn(chosen, rules[i], online, nodes) \in D \cup {Nobody}
      BY <2>2 DEF Turn
    <2>4. QED
      BY <2>3
  <1>2. PICK g : Loop(g, D \cup {Nobody}, Nobody, step, Len(rules))
    <2> HIDE DEF step
    <2>1. QED
      BY <1>0, <1>1, Recursion
  <1>3. TurnsBy(g, rules, online, nodes)
    <2>1. ASSUME NEW s \in SUBSET DOMAIN rules
          PROVE  g[s] = IF s = {} THEN Nobody ELSE Turn(g[s \ {Max(s)}], rules[Max(s)], online, nodes)
      <3>1. CASE s = {}
        BY <1>0, <1>2, <3>1 DEF Loop
      <3>2. CASE s # {}
        <4>1. Max(s) \in 1..Len(rules) /\ s \ {Max(s)} \in SUBSET (1..Len(rules))
          BY <1>0, <3>2, Greatest
        <4>2. g[s \ {Max(s)}] \in D \cup {Nobody}
          BY <1>2, <4>1 DEF Loop
        <4>3. g[s] = step[Max(s)][g[s \ {Max(s)}]]
          BY <1>0, <1>2, <3>2 DEF Loop
        <4>4. QED
          BY <3>2, <4>1, <4>2, <4>3
      <3>3. QED
        BY <3>1, <3>2
    <2>2. g = [s \in SUBSET DOMAIN rules |-> g[s]]
      BY <1>0, <1>2 DEF Loop
    <2>3. QED
      BY <2>1, <2>2 DEF TurnsBy
  <1>4. PICK f : /\ TurnsBy(f, rules, online, nodes)
                 /\ Route(rules, list, nodes) =
                        IF last(f) = Nobody THEN leastBusy(online, nodes) ELSE last(f)
    <2>1. LET e == CHOOSE f : TurnsBy(f, rules, online, nodes)
          IN  Route(rules, list, nodes) =
                  IF last(e) = Nobody THEN leastBusy(online, nodes) ELSE last(e)
      BY DEF Route, FoldLeft, MapThenFoldSet, TurnsBy, Turn
    <2>2. QED
      BY <1>0, <1>3, <2>1
  <1>5. f[1..0] = Nobody
    BY <1>0, <1>4, Intervals DEF TurnsBy
  <1>6. ASSUME NEW k \in Nat, k < Len(rules)
        PROVE  f[1..(k + 1)] = Turn(f[1..k], rules[k + 1], online, nodes)
    <2>1. 1..(k + 1) \in SUBSET DOMAIN rules
      BY <1>0, <1>6
    <2>2. 1..(k + 1) # {} /\ Max(1..(k + 1)) = k + 1 /\ (1..(k + 1)) \ {k + 1} = 1..k
      BY Intervals
    <2>3. QED
      BY <1>4, <2>1, <2>2 DEF TurnsBy
  <1>7. QED
    BY <1>0, <1>4, <1>5, <1>6

(* The first rule that admits somebody decides.                            *)
LEMMA RulesResult ==
    ASSUME NEW D, Nobody \notin D, NEW nodes, NEW rules \in Seq(Rule), NEW list,
           filterOnline(list, nodes) \in Seq(D), Range(filterOnline(list, nodes)) = OnlineIn(nodes)
    PROVE  \/ /\ \A i \in DOMAIN rules : Admitted(rules[i], nodes) = {}
              /\ Route(rules, list, nodes) = leastBusy(filterOnline(list, nodes), nodes)
           \/ \E i \in DOMAIN rules :
                 /\ \A j \in DOMAIN rules : j < i => Admitted(rules[j], nodes) = {}
                 /\ Admitted(rules[i], nodes) # {}
                 /\ Route(rules, list, nodes) \in Chosen(rules[i], nodes)
  <1> DEFINE online == filterOnline(list, nodes)
  <1>0. /\ Len(rules) \in Nat /\ DOMAIN rules = 1..Len(rules)
        /\ \A i \in 1..Len(rules) : rules[i].wild \in BOOLEAN
        /\ online \in Seq(D) /\ Range(online) = OnlineIn(nodes)
    BY LenProperties, WildOrNot
  <1>1. PICK f : /\ Route(rules, list, nodes) =
                        IF f[1..Len(rules)] = Nobody THEN leastBusy(online, nodes)
                                                    ELSE f[1..Len(rules)]
                 /\ f[1..0] = Nobody
                 /\ \A k \in Nat :
                       k < Len(rules) => f[1..(k + 1)] = Turn(f[1..k], rules[k + 1], online, nodes)
    BY RuleTurns
  <1> HIDE DEF online
  <1> DEFINE none(k) == \A i \in 1..k : Admitted(rules[i], nodes) = {}
             first(k, i) == /\ none(i - 1)
                            /\ Admitted(rules[i], nodes) # {}
                            /\ f[1..k] \in Chosen(rules[i], nodes) /\ f[1..k] \in D
             sofar(k) == (none(k) /\ f[1..k] = Nobody) \/ (\E i \in 1..k : first(k, i))
             T == {k \in Nat : k <= Len(rules) => sofar(k)}
  <1>2. 0 \in T
    BY <1>1
  <1>3. ASSUME NEW k \in T, k < Len(rules) PROVE k + 1 \in T
    <2>1. /\ k \in Nat /\ k + 1 \in Nat /\ k + 1 \in 1..Len(rules)
          /\ (none(k) /\ f[1..k] = Nobody) \/ (\E i \in 1..k : first(k, i))
          /\ 1..(k + 1) = (1..k) \cup {k + 1} /\ (k + 1) - 1 = k
      <3>1. k \in Nat /\ k <= Len(rules)
        BY <1>0, <1>3
      <3>2. (none(k) /\ f[1..k] = Nobody) \/ (\E i \in 1..k : first(k, i))
        BY <1>3, <3>1
      <3>3. /\ k + 1 \in Nat /\ k + 1 \in 1..Len(rules)
            /\ 1..(k + 1) = (1..k) \cup {k + 1} /\ (k + 1) - 1 = k
        BY <1>0, <1>3, <3>1
      <3>4. QED
        BY <3>1, <3>2, <3>3
    <2>2. f[1..(k + 1)] = Turn(f[1..k], rules[k + 1], online, nodes)
      BY <1>1, <1>3, <2>1
    <2>3. CASE none(k) /\ f[1..k] = Nobody
      <3>1. f[1..(k + 1)] = TryRule(rules[k + 1], online, nodes)
        BY <2>2, <2>3 DEF Turn
      <3>2. rules[k + 1].wild \in BOOLEAN
        BY <1>0, <2>1
      <3>3. CASE Admitted(rules[k + 1], nodes) = {}
        <4>0. TryRule(rules[k + 1], online, nodes) = Nobody
          BY <1>0, <3>2, <3>3, TryRuleResult
        <4>1. f[1..(k + 1)] = Nobody
          BY <3>1, <4>0
        <4>2. none(k + 1)
          BY <2>1, <2>3, <3>3
        <4>3. QED
          BY <2>1, <4>1, <4>2
      <3>4. CASE Admitted(rules[k + 1], nodes) # {}
        <4>1. f[1..(k + 1)] \in Chosen(rules[k + 1], nodes) /\ f[1..(k + 1)] \in D
          BY <1>0, <3>1, <3>2, <3>4, TryRuleResult
        <4>2. first(k + 1, k + 1)
          BY <2>1, <2>3, <3>4, <4>1
        <4>3. QED
          BY <2>1, <4>2
      <3>5. QED
        BY <3>3, <3>4
    <2>4. CASE \E i \in 1..k : first(k, i)
      <3>1. f[1..k] # Nobody
        BY <2>4
      <3>2. f[1..(k + 1)] = f[1..k]
        BY <2>2, <3>1 DEF Turn
      <3>3. PICK i \in 1..k : first(k, i)
        BY <2>4
      <3>4. first(k + 1, i) /\ i \in 1..(k + 1)
        BY <2>1, <3>2, <3>3
      <3>5. QED
        BY <2>1, <3>4
    <2>5. QED
      BY <2>1, <2>3, <2>4
  <1>4. Len(rules) \in T
    <2>1. T \in SUBSET Nat
      OBVIOUS
    <2> HIDE DEF T
    <2>2. QED
      BY <1>0, <1>2, <1>3, <2>1, Induction
  <1>5. CASE none(Len(rules)) /\ f[1..Len(rules)] = Nobody
    BY <1>0, <1>1, <1>5 DEF online
  <1>6. CASE \E i \in 1..Len(rules) : first(Len(rules), i)
    <2>1. PICK i \in 1..Len(rules) : first(Len(rules), i)
      BY <1>6
    <2>2. Route(rules, list, nodes) = f[1..Len(rules)]
      BY <1>1, <2>1
    <2>3. \A j \in DOMAIN rules : j < i => j \in 1..(i - 1)
      BY <1>0
    <2>4. /\ i \in DOMAIN rules
          /\ \A j \in DOMAIN rules : j < i => Admitted(rules[j], nodes) = {}
      BY <1>0, <2>1, <2>3
    <2>5. Admitted(rules[i], nodes) # {} /\ Route(rules, list, nodes) \in Chosen(rules[i], nodes)
      BY <2>1, <2>2
    <2>6. QED
      BY <2>4, <2>5
  <1>7. sofar(Len(rules))
    <2> HIDE DEF sofar
    <2>1. QED
      BY <1>0, <1>4
  <1>8. QED
    BY <1>5, <1>6, <1>7

(* Whatever the rules, the mesh and the order its nodes are listed in, as  *)
(* long as a node is not offline: Router.Route chooses one that the first  *)
(* rule with any admits, or that no rule forbids, and an idle one if it    *)
(* may choose.                                                             *)
THEOREM RouteIsAdmissible ==
    ASSUME NEW nodes, Nobody \notin DOMAIN nodes, \E id \in DOMAIN nodes : nodes[id].status # "offline",
           NEW rules \in Seq(Rule), NEW list \in Seq(DOMAIN nodes), Range(list) = DOMAIN nodes
    PROVE  Route(rules, list, nodes) \in Admissible(rules, nodes) \cap DOMAIN nodes
  <1> DEFINE online == filterOnline(list, nodes)
             Deciding == {i \in DOMAIN rules : Admitted(rules[i], nodes) # {}}
  <1>1. online \in Seq(DOMAIN nodes) /\ Range(online) = OnlineIn(nodes)
    BY FilterResult DEF filterOnline, OnlineIn
  <1>2. Len(rules) \in Nat /\ DOMAIN rules = 1..Len(rules)
    BY LenProperties
  <1>3. CASE /\ \A i \in DOMAIN rules : Admitted(rules[i], nodes) = {}
             /\ Route(rules, list, nodes) = leastBusy(online, nodes)
    <2>1. Admissible(rules, nodes) = Idlest(OnlineIn(nodes), nodes)
      BY <1>3 DEF Admissible, OnlineIn
    <2>2. online # <<>>
      BY <1>1, EmptyRange DEF OnlineIn
    <2> HIDE DEF online
    <2>3. leastBusy(online, nodes) \in Idlest(OnlineIn(nodes), nodes)
      BY <1>1, <2>2, LeastResult
    <2>4. QED
      BY <1>3, <2>1, <2>3, IdlestPart DEF OnlineIn
  <1>4. ASSUME NEW i \in DOMAIN rules, \A j \in DOMAIN rules : j < i => Admitted(rules[j], nodes) = {},
               Admitted(rules[i], nodes) # {}, Route(rules, list, nodes) \in Chosen(rules[i], nodes)
        PROVE  Route(rules, list, nodes) \in Admissible(rules, nodes) \cap DOMAIN nodes
    <2>1. i \in Deciding /\ \A j \in Deciding : i <= j
      BY <1>2, <1>4
    <2>2. \A k \in Deciding : (\A j \in Deciding : k <= j) => k = i
      BY <1>2, <2>1
    <2>3. (CHOOSE k \in Deciding : \A j \in Deciding : k <= j) = i
      BY <2>1, <2>2
    <2>4. Admissible(rules, nodes) = Chosen(rules[i], nodes)
      BY <2>1, <2>3 DEF Admissible, Chosen
    <2>5. Chosen(rules[i], nodes) \subseteq DOMAIN nodes
      BY IdlestPart DEF Chosen, Admitted
    <2>6. QED
      BY <1>4, <2>4, <2>5
  <1>5. QED
    BY <1>1, <1>3, <1>4, RulesResult
=============================================================================
