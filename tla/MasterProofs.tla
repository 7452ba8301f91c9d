---------------------------- MODULE MasterProofs ----------------------------
(***************************************************************************)
(* Proofs about what the handlers of the master call, for any nodes,       *)
(* requests and addresses: the round-robin choice (SchedulerInv says where *)
(* the choices of a round are in their list) and the walk of the allocator *)
(* through its range, which is shown to be a pool of addresses.            *)
(*                                                                         *)
(* Both are built on a loop, which the models have as a function defined   *)
(* by recursion over an interval: Recursion says that there is one, and    *)
(* Induction what holds of all its values.                                 *)
(*                                                                         *)
(* With the types of the stores (StoresProofs) these are the types of all  *)
(* parts of MCMaster.                                                      *)
(***************************************************************************)
EXTENDS MCMaster, StoresProofs, FiniteSetTheorems, WellFoundedInduction, TLAPS

LEMMA NatLess == IsWellFoundedOn({p \in Nat \X Nat : p[1] < p[2]}, Nat)
<1>1. IsWellFoundedOn(OpToRel(<,Nat), Nat)
  BY NatLessThanWellFounded
<1> QED
  BY <1>1 DEF OpToRel

(* Induction over the natural numbers, on the set of those that have the   *)
(* property.                                                               *)
LEMMA Induction ==
  ASSUME NEW S \in SUBSET Nat, 0 \in S, \A n \in S : n + 1 \in S
  PROVE  S = Nat
<1> DEFINE R == {p \in Nat \X Nat : p[1] < p[2]}
           T == Nat \ S
<1>1. SUFFICES ASSUME T /= {} PROVE FALSE
  OBVIOUS
<1>2. PICK x \in T : \A y \in T : ~(<<y, x>> \in R)
  <2> HIDE DEF R
  <2>1. IsWellFoundedOn(R, Nat)
    BY NatLess DEF R
  <2>2. T \subseteq Nat
    OBVIOUS
  <2> HIDE DEF T
  <2> QED
    BY <2>1, <2>2, <1>1, WFMin
<1>3. x /= 0 /\ x - 1 \in Nat /\ x - 1 \notin S
  OBVIOUS
<1>4. <<x - 1, x>> \in R
  BY <1>3
<1> QED
  BY <1>2, <1>3, <1>4

(* A function that is defined step by step over an interval exists.        *)
LEMMA Recursion ==
  ASSUME NEW D, NEW a \in D, NEW n \in Nat, NEW g \in [1..n -> [D -> D]]
  PROVE  \E f \in [0..n -> D] : f[0] = a /\ \A i \in 1..n : f[i] = g[i][f[i - 1]]
<1> DEFINE Good(k, f) == /\ f \in [0..k -> D] /\ f[0] = a
                         /\ \A i \in 1..k : f[i] = g[i][f[i - 1]]
           S == {k \in Nat : k <= n => \E f : Good(k, f)}
<1>1. 0 \in S
  <2>1. Good(0, [i \in 0..0 |-> a])
    OBVIOUS
  <2> QED
    BY <2>1
<1>2. ASSUME NEW k \in Nat, k + 1 <= n, NEW f, Good(k, f)
      PROVE  \E h : Good(k + 1, h)
  <2> DEFINE h == [i \in 0..(k + 1) |-> IF i <= k THEN f[i] ELSE g[k + 1][f[k]]]
  <2>1. \A i \in 0..k : h[i] = f[i] /\ f[i] \in D
    BY <1>2
  <2>2. h[k + 1] = g[k + 1][f[k]] /\ h[k + 1] \in D
    BY <1>2
  <2>3. \A i \in 0..(k + 1) : i \in 0..k \/ i = k + 1
    BY <1>2
  <2>4. h \in [0..(k + 1) -> D]
    <3>1. \A i \in 0..(k + 1) : h[i] \in D
      <4> HIDE DEF h
      <4> QED
        BY <2>1, <2>2, <2>3
    <3> QED
      BY <3>1
  <2>5. ASSUME NEW i \in 1..(k + 1) PROVE h[i] = g[i][h[i - 1]]
    <3>1. i - 1 \in 0..k /\ (i \in 1..k \/ i = k + 1) /\ k \in 0..k
      BY <1>2
    <3> HIDE DEF h
    <3>2. h[i - 1] = f[i - 1]
      BY <2>1, <3>1
    <3>3. CASE i \in 1..k
      BY <1>2, <2>1, <3>2, <3>3
    <3>4. CASE i = k + 1
      BY <2>2, <3>2, <3>4, <1>2
    <3> QED
      BY <3>1, <3>3, <3>4
  <2>6. h[0] = a
    BY <1>2, <2>1
  <2> HIDE DEF h
  <2> QED
    BY <2>4, <2>5, <2>6
<1> HIDE DEF Good
<1>3. \A k \in S : k + 1 \in S
  BY <1>2
<1>4. S \in SUBSET Nat
  OBVIOUS
<1> HIDE DEF S
<1>5. S = Nat
  BY <1>1, <1>3, <1>4, Induction
<1>6. n \in S
  BY <1>5
<1>7. PICK f : Good(n, f)
  BY <1>6 DEF S
<1> QED
  BY <1>7 DEF Good

-----------------------------------------------------------------------------
(* The scheduler. *)

(* The condition of the two filters, of which Suitable is the loop.        *)
Accepts(n, request) == HasSlot(n) /\ (IsZero(request) \/ CanFit(n, request))

LEMMA SuitableIsLoop ==
  ASSUME NEW list \in Seq(Nodes), NEW request
  PROVE  \E kept :
           /\ kept[0] = <<>>
           /\ \A i \in 1..Len(list) :
                kept[i] = IF Accepts(list[i], request) THEN Append(kept[i - 1], list[i])
                                                        ELSE kept[i - 1]
           /\ Suitable(list, request) = kept[Len(list)]
<1> DEFINE n == Len(list)
           D == Seq(Nodes)
           Eq(kept) == kept = [i \in 0..n |->
              IF i = 0 THEN <<>>
              ELSE IF Accepts(list[i], request) THEN Append(kept[i - 1], list[i])
                                                 ELSE kept[i - 1]]
           g == [i \in 1..n |-> [s \in D |->
                  IF Accepts(list[i], request) THEN Append(s, list[i]) ELSE s]]
           w == CHOOSE kept : Eq(kept)
<1>1. n \in Nat /\ <<>> \in D /\ \A i \in 1..n : list[i] \in Nodes
  OBVIOUS
<1>2. g \in [1..n -> [D -> D]]
  <2>1. ASSUME NEW i \in 1..n, NEW s \in D
        PROVE  (IF Accepts(list[i], request) THEN Append(s, list[i]) ELSE s) \in D
    BY <1>1, <2>1
  <2> HIDE DEF D, n
  <2> QED
    BY <2>1
<1>3. PICK f \in [0..n -> D] : f[0] = <<>> /\ \A i \in 1..n : f[i] = g[i][f[i - 1]]
  <2> DEFINE a == <<>>
  <2>1. a \in D /\ n \in Nat
    BY <1>1
  <2> HIDE DEF D, n, g, a
  <2>2. \E f \in [0..n -> D] : f[0] = a /\ \A i \in 1..n : f[i] = g[i][f[i - 1]]
    BY <1>2, <2>1, Recursion
  <2> QED
    BY <2>2 DEF a
<1>4. ASSUME NEW i \in 1..n
      PROVE  f[i] = IF Accepts(list[i], request) THEN Append(f[i - 1], list[i]) ELSE f[i - 1]
  <2> HIDE DEF D, n
  <2>1. f[i] = g[i][f[i - 1]] /\ i - 1 \in 0..n
    <3> HIDE DEF g
    <3> QED
      BY <1>1, <1>3
  <2>2. f[i - 1] \in D
    BY <2>1
  <2> QED
    BY <2>1, <2>2
<1>5. Eq(f)
  <2> HIDE DEF D, g, n
  <2>1. \A i \in 0..n : i = 0 \/ i \in 1..n
    BY <1>1
  <2>2. f = [i \in 0..n |-> f[i]]
    OBVIOUS
  <2>3. \A i \in 0..n : f[i] = IF i = 0 THEN <<>>
                                ELSE IF Accepts(list[i], request)
                                  THEN Append(f[i - 1], list[i]) ELSE f[i - 1]
    BY <1>1, <1>3, <1>4, <2>1
  <2> QED
    BY <2>2, <2>3
<1>6. Eq(w)
  <2> HIDE DEF Eq
  <2> QED
    BY <1>5
<1>7. Suitable(list, request) = w[n]
  BY DEF Suitable, Accepts
<1> HIDE DEF w
<1>8. /\ w[0] = <<>>
      /\ \A i \in 1..n : w[i] = IF Accepts(list[i], request) THEN Append(w[i - 1], list[i])
                                                              ELSE w[i - 1]
  <2> HIDE DEF n
  <2>1. \A i \in 0..n : w[i] = IF i = 0 THEN <<>>
                                ELSE IF Accepts(list[i], request)
                                  THEN Append(w[i - 1], list[i]) ELSE w[i - 1]
    BY <1>6
  <2>2. 0 \in 0..n /\ \A i \in 1..n : i \in 0..n /\ i /= 0
    BY <1>1
  <2> QED
    BY <2>1, <2>2, Zenon
<1> QED
  BY <1>7, <1>8

(* What the filters keep is in the order of the list and no longer, and    *)
(* names no node twice if the list does not.                               *)
LEMMA SuitableType ==
  ASSUME NEW list \in Seq(Nodes), NEW request, Distinct(list)
  PROVE  Suitable(list, request) \in Seq(Nodes) /\ Distinct(Suitable(list, request))
<1>1. PICK kept :
        /\ kept[0] = <<>>
        /\ \A i \in 1..Len(list) :
             kept[i] = IF Accepts(list[i], request) THEN Append(kept[i - 1], list[i])
                                                     ELSE kept[i - 1]
        /\ Suitable(list, request) = kept[Len(list)]
  BY SuitableIsLoop
<1> DEFINE n == Len(list)
           Good(i) == /\ kept[i] \in Seq(Nodes)
                      /\ \A k \in 1..Len(kept[i]) : \E j \in 1..i : kept[i][k] = list[j]
                      /\ Distinct(kept[i])
           S == {i \in Nat : i <= n => Good(i)}
<1>2. n \in Nat /\ (\A i \in 1..n : list[i] \in Nodes)
      /\ \A i, j \in 1..n : list[i] = list[j] => i = j
  BY DEF Distinct
<1>3. 0 \in S
  <2>1. kept[0] = <<>> /\ Len(kept[0]) = 0 /\ kept[0] \in Seq(Nodes) /\ DOMAIN kept[0] = {}
    BY <1>1
  <2>2. Distinct(kept[0])
    BY <2>1 DEF Distinct
  <2>3. \A k \in 1..Len(kept[0]) : \E j \in 1..0 : kept[0][k] = list[j]
    BY <2>1
  <2> QED
    BY <2>1, <2>2, <2>3
<1>4. ASSUME NEW i \in Nat, i + 1 <= n, Good(i) PROVE Good(i + 1)
  <2>1. /\ i + 1 \in 1..n
        /\ kept[i + 1] = IF Accepts(list[i + 1], request) THEN Append(kept[i], list[i + 1])
                                                           ELSE kept[i]
    <3>1. i + 1 \in 1..n /\ (i + 1) - 1 = i
      BY <1>2, <1>4
    <3> QED
      BY <1>1, <3>1
  <2>2. CASE kept[i + 1] = kept[i]
    <3>1. \A j \in 1..i : j \in 1..(i + 1)
      OBVIOUS
    <3> QED
      BY <1>4, <2>2, <3>1
  <2>3. CASE kept[i + 1] = Append(kept[i], list[i + 1])
    <3> DEFINE s == kept[i]
               t == kept[i + 1]
    <3>1. /\ s \in Seq(Nodes) /\ Distinct(s)
          /\ \A k \in 1..Len(s) : \E j \in 1..i : s[k] = list[j]
      BY <1>4
    <3>2. /\ t \in Seq(Nodes) /\ Len(t) = Len(s) + 1 /\ Len(s) \in Nat
          /\ \A k \in 1..Len(s) : t[k] = s[k]
          /\ t[Len(s) + 1] = list[i + 1]
      BY <1>2, <2>1, <2>3, <3>1
    <3> HIDE DEF s, t
    <3>3. \A k \in 1..Len(t) : k \in 1..Len(s) \/ k = Len(s) + 1
      BY <3>2
    <3>4. \A k \in 1..Len(s) : t[k] /= list[i + 1]
      <4>1. \A j \in 1..i : j \in 1..n /\ j /= i + 1
        BY <1>2, <1>4
      <4> QED
        BY <1>2, <2>1, <3>1, <3>2, <4>1
    <3>5. Distinct(t)
      <4>1. DOMAIN t = 1..Len(t) /\ DOMAIN s = 1..Len(s)
        BY <3>1, <3>2
      <4>2. ASSUME NEW a \in 1..Len(t), NEW b \in 1..Len(t), t[a] = t[b] PROVE a = b
        <5>1. CASE a = Len(s) + 1
          BY <3>2, <3>3, <3>4, <4>2, <5>1
        <5>2. CASE b = Len(s) + 1
          BY <3>2, <3>3, <3>4, <4>2, <5>2
        <5>3. CASE a \in 1..Len(s) /\ b \in 1..Len(s)
          BY <3>1, <3>2, <4>1, <4>2, <5>3 DEF Distinct
        <5> QED
          BY <3>3, <5>1, <5>2, <5>3
      <4> QED
        BY <4>1, <4>2 DEF Distinct
    <3>6. ASSUME NEW k \in 1..Len(t) PROVE \E j \in 1..(i + 1) : t[k] = list[j]
      <4>1. (\A j \in 1..i : j \in 1..(i + 1)) /\ i + 1 \in 1..(i + 1)
        OBVIOUS
      <4> QED
        BY <3>1, <3>2, <3>3, <4>1
    <3> QED
      BY <3>2, <3>5, <3>6 DEF t
  <2> QED
    BY <2>1, <2>2, <2>3
<1>5. S = Nat
  <2> HIDE DEF Good, n
  <2>1. S \in SUBSET Nat
    OBVIOUS
  <2>2. \A i \in S : i + 1 \in S
    BY <1>2, <1>4
  <2> HIDE DEF S
  <2> QED
    BY <1>3, <2>1, <2>2, Induction
<1>6. Good(n)
  <2> HIDE DEF Good, n
  <2> QED
    BY <1>2, <1>5
<1> QED
  BY <1>1, <1>6

LEMMA DistinctIsShort ==
  ASSUME NEW s \in Seq(Nodes), Distinct(s)
  PROVE  Len(s) <= Cardinality(Nodes) /\ Cardinality(Nodes) \in Nat
<1>1. IsFiniteSet(Nodes) /\ Cardinality(Nodes) \in Nat
  BY SchedulerAssumption, FS_CardinalityType
<1>2. s \in Injection(1..Len(s), Nodes) /\ Len(s) \in Nat
  BY DEF Distinct, Injection, IsInjective
<1>3. Cardinality(1..Len(s)) = Len(s)
  <2>1. PICK m \in Nat : m = Len(s)
    BY <1>2
  <2>2. Cardinality(1..m) = m
    BY FS_Interval
  <2> QED
    BY <2>1, <2>2
<1>4. Cardinality(1..Len(s)) <= Cardinality(Nodes)
  BY <1>1, <1>2, FS_Injection
<1> QED
  BY <1>1, <1>3, <1>4

LEMMA OrdersAreDistinct ==
  ASSUME NEW S \in SUBSET Nodes, NEW order \in Orders(S)
  PROVE  order \in Seq(Nodes) /\ Distinct(order)
<1>1. Cardinality(S) \in Nat
  BY SchedulerAssumption, FS_Subset, FS_CardinalityType
<1> DEFINE n == Cardinality(S)
<1> HIDE DEF n
<1>2. order \in [1..n -> S] /\ \A i, j \in DOMAIN order : order[i] = order[j] => i = j
  BY DEF Orders, n
<1>3. order \in [1..n -> Nodes] /\ n \in Nat
  BY <1>1, <1>2 DEF n
<1> QED
  BY <1>2, <1>3 DEF Distinct

LEMMA SchedulerInvInit == SchedulerInit => SchedulerInv
<1> SUFFICES ASSUME SchedulerInit PROVE SchedulerInv
  OBVIOUS
<1> USE DEF SchedulerInit
<1>1. IsFiniteSet(Nodes) /\ Cardinality(Nodes) \in Nat
  BY SchedulerAssumption, FS_CardinalityType
<1>2. listed \in [Handlers -> [asked : BOOLEAN, nodes : Seq(Nodes)]]
  BY DEF NotListed
<1>3. round \in [among : Seq(Nodes), chosen : Seq(Nodes)]
  OBVIOUS
<1>4. SchedulerTypeOK
  BY <1>1, <1>2, <1>3 DEF SchedulerTypeOK
<1>5. \A h \in Handlers : Distinct(listed[h].nodes)
  BY DEF NotListed, Distinct
<1>6. RoundFollows
  <2>1. round.among = <<>> /\ round.chosen = <<>>
    OBVIOUS
  <2>2. Len(round.among) = 0 /\ Len(round.chosen) = 0 /\ DOMAIN round.among = {}
    BY <2>1
  <2> QED
    BY <2>2 DEF RoundFollows, Distinct
<1> QED
  BY <1>4, <1>5, <1>6 DEF SchedulerInv

(* A choice is the next node after the last, in the list it is made from.  *)
LEMMA NextIndex ==
  ASSUME NEW n \in Nat \ {0}, lastUsed \in Int, -1 <= lastUsed
  PROVE  /\ (lastUsed + 1) % n \in 0..(n - 1)
         /\ lastUsed < n => (lastUsed + 1) % n = IF lastUsed + 1 = n THEN 0 ELSE lastUsed + 1
<1>1. (lastUsed + 1) % n \in 0..(n - 1)
  OBVIOUS
<1>2. lastUsed + 1 = n => (lastUsed + 1) % n = 0
  OBVIOUS
<1>3. lastUsed + 1 < n => (lastUsed + 1) % n = lastUsed + 1
  OBVIOUS
<1> QED
  BY <1>1, <1>2, <1>3

LEMMA SelectKeepsInv ==
  ASSUME SchedulerInv, NEW h \in Handlers, NEW request \in Requests, SelectNode(h, request)
  PROVE  SchedulerInv'
<1> DEFINE available == Suitable(listed[h].nodes, request)
           n == Len(available)
           node == available[lastUsed' + 1]
<1>1. /\ lastUsed \in Int /\ -1 <= lastUsed
      /\ listed \in [Handlers -> [asked : BOOLEAN, nodes : Seq(Nodes)]]
      /\ round.among \in Seq(Nodes) /\ round.chosen \in Seq(Nodes)
      /\ \A k \in Handlers : Distinct(listed[k].nodes)
      /\ RoundFollows
  BY DEF SchedulerInv, SchedulerTypeOK
<1>2. available \in Seq(Nodes) /\ Distinct(available) /\ available /= <<>>
  BY <1>1, SuitableType DEF SelectNode
<1>3. lastUsed' = (lastUsed + 1) % n /\ round' = NextRound(available, node)
  BY DEF SelectNode
<1>4. UNCHANGED <<capacity, online>> /\ listed' = [listed EXCEPT ![h] = NotListed]
  BY DEF SelectNode
<1> HIDE DEF available
<1>5. n \in Nat \ {0} /\ n <= Cardinality(Nodes) /\ Cardinality(Nodes) \in Nat
  BY <1>2, DistinctIsShort
<1>6. /\ lastUsed' \in 0..(n - 1)
      /\ lastUsed < n => lastUsed' = IF lastUsed + 1 = n THEN 0 ELSE lastUsed + 1
  BY <1>1, <1>3, <1>5, NextIndex
<1>7. node \in Nodes
  BY <1>2, <1>5, <1>6
<1>8. listed' \in [Handlers -> [asked : BOOLEAN, nodes : Seq(Nodes)]]
  BY <1>1, <1>4 DEF NotListed
<1>9. \A k \in Handlers : Distinct(listed'[k].nodes)
  BY <1>1, <1>4 DEF NotListed, Distinct
<1>10. CASE round.among = available /\ Len(round.chosen) < n
  <2>1. round' = [among |-> available, chosen |-> Append(round.chosen, node)]
    BY <1>3, <1>10 DEF NextRound
  <2> DEFINE c == Len(round.chosen)
  <2>2. round'.among = available /\ round'.chosen = Append(round.chosen, node) /\ c \in Nat
    BY <1>1, <2>1
  <2>3. /\ round'.chosen \in Seq(Nodes) /\ Len(round'.chosen) = c + 1
        /\ \A k \in 1..c : round'.chosen[k] = round.chosen[k]
        /\ round'.chosen[c + 1] = node
    BY <1>1, <1>7, <2>2
  <2>4. /\ 0 <= lastUsed /\ lastUsed < n /\ c <= n
        /\ \A k \in 1..c : round.chosen[k] = available[Turn(lastUsed, n, c - k)]
    BY <1>1, <1>5, <1>10 DEF RoundFollows
  <2>5. ASSUME NEW k \in 1..(c + 1)
        PROVE  round'.chosen[k] = available[Turn(lastUsed', n, (c + 1) - k)]
    <3>1. CASE k \in 1..c
      <4>1. Turn(lastUsed', n, (c + 1) - k) = Turn(lastUsed, n, c - k)
        <5> HIDE DEF n, c
        <5>1. n \in Nat /\ lastUsed \in Int /\ c \in Nat /\ k \in Int /\ 1 <= k /\ k <= c
          BY <1>1, <1>5, <2>2, <3>1
        <5>2. /\ lastUsed' = IF lastUsed + 1 = n THEN 0 ELSE lastUsed + 1
              /\ 0 <= lastUsed /\ lastUsed < n /\ c <= n
          BY <1>6, <2>4
        <5> QED
          BY <5>1, <5>2 DEF Turn
      <4> QED
        BY <2>3, <2>4, <3>1, <4>1
    <3>2. CASE k = c + 1
      <4>1. Turn(lastUsed', n, (c + 1) - k) = lastUsed' + 1
        BY <1>5, <1>6, <2>2, <3>2 DEF Turn
      <4> QED
        BY <2>3, <3>2, <4>1
    <3> QED
      BY <2>2, <3>1, <3>2
  <2>6. RoundFollows'
    <3>1. Len(round'.among) = n /\ Len(round'.chosen) = c + 1
      BY <2>2, <2>3
    <3>2. Distinct(round'.among) /\ c + 1 <= n /\ 0 <= lastUsed' /\ lastUsed' < n
      BY <1>2, <1>5, <1>6, <1>10, <2>2
    <3> QED
      BY <2>2, <2>5, <3>1, <3>2 DEF RoundFollows, Distinct
  <2>7. round' \in [among : Seq(Nodes), chosen : Seq(Nodes)]
    BY <1>2, <2>1, <2>2, <2>3
  <2> QED
    BY <1>4, <1>5, <1>6, <1>8, <1>9, <2>6, <2>7 DEF SchedulerInv, SchedulerTypeOK
<1>11. CASE ~(round.among = available /\ Len(round.chosen) < n)
  <2>1. round' = [among |-> available, chosen |-> <<node>>]
    BY <1>3, <1>11 DEF NextRound
  <2>2. /\ round'.among = available /\ round'.chosen = <<node>>
        /\ round'.chosen \in Seq(Nodes) /\ Len(round'.chosen) = 1 /\ round'.chosen[1] = node
    BY <1>7, <2>1
  <2>3. Turn(lastUsed', n, 1 - 1) = lastUsed' + 1
    BY <1>5, <1>6 DEF Turn
  <2>4. RoundFollows'
    <3>1. Len(round'.among) = n /\ Len(round'.chosen) = 1
      BY <2>2
    <3>2. Distinct(round'.among) /\ 1 <= n /\ 0 <= lastUsed' /\ lastUsed' < n
      BY <1>2, <1>5, <1>6, <2>2
    <3>3. \A k \in 1..1 : round'.chosen[k] = round'.among[Turn(lastUsed', n, 1 - k)]
      BY <2>2, <2>3
    <3> QED
      BY <3>1, <3>2, <3>3 DEF RoundFollows, Distinct
  <2>5. round' \in [among : Seq(Nodes), chosen : Seq(Nodes)]
    BY <1>2, <2>1, <2>2
  <2> QED
    BY <1>4, <1>5, <1>6, <1>8, <1>9, <2>4, <2>5 DEF SchedulerInv, SchedulerTypeOK
<1> QED
  BY <1>10, <1>11

LEMMA TurnIsOneToOne ==
  ASSUME NEW n \in Nat, NEW last \in 0..(n - 1), NEW d \in 0..(n - 1), NEW e \in 0..(n - 1)
  PROVE  /\ Turn(last, n, d) \in 1..n
         /\ Turn(last, n, d) = Turn(last, n, e) => d = e
BY DEF Turn

LEMMA SchedulerInvStep ==
  ASSUME SchedulerInv, [SchedulerNext]_schedulerVars
  PROVE  SchedulerInv'
<1>0. SchedulerTypeOK /\ (\A k \in Handlers : Distinct(listed[k].nodes)) /\ RoundFollows
  BY DEF SchedulerInv
<1>1. ASSUME NEW n \in Nodes, NodeComesOrGoes(n) PROVE SchedulerInv'
  BY <1>0, <1>1 DEF NodeComesOrGoes, SchedulerInv, SchedulerTypeOK, RoundFollows
<1>2. ASSUME NEW h \in Handlers, ListNodes(h) PROVE SchedulerInv'
  <2>1. PICK S \in {online, {n \in online : HasSlot(n)}} : \E order \in Orders(S) :
          listed' = [listed EXCEPT ![h] = [asked |-> TRUE, nodes |-> order]]
    BY <1>2 DEF ListNodes
  <2>2. PICK order \in Orders(S) :
          listed' = [listed EXCEPT ![h] = [asked |-> TRUE, nodes |-> order]]
    BY <2>1
  <2>3. S \in SUBSET Nodes
    BY <1>0, <2>1 DEF SchedulerTypeOK
  <2>4. order \in Seq(Nodes) /\ Distinct(order)
    BY <2>3, OrdersAreDistinct
  <2>5. UNCHANGED <<capacity, online, lastUsed, round>>
    BY <1>2 DEF ListNodes
  <2>6. /\ listed' \in [Handlers -> [asked : BOOLEAN, nodes : Seq(Nodes)]]
        /\ \A k \in Handlers : Distinct(listed'[k].nodes)
    BY <1>0, <2>2, <2>4 DEF SchedulerTypeOK
  <2> QED
    BY <1>0, <2>5, <2>6 DEF SchedulerInv, SchedulerTypeOK, RoundFollows
<1>3. ASSUME NEW h \in Handlers, NEW request \in Requests, SelectNode(h, request)
      PROVE  SchedulerInv'
  BY <1>3, SelectKeepsInv
<1>4. ASSUME NEW h \in Handlers, NEW request \in Requests, NoAvailableNodes(h, request)
      PROVE  SchedulerInv'
  <2>1. /\ listed' = [listed EXCEPT ![h] = NotListed]
        /\ UNCHANGED <<capacity, online, lastUsed, round>>
    BY <1>4 DEF NoAvailableNodes
  <2>2. /\ listed' \in [Handlers -> [asked : BOOLEAN, nodes : Seq(Nodes)]]
        /\ \A k \in Handlers : Distinct(listed'[k].nodes)
    BY <1>0, <2>1 DEF SchedulerTypeOK, NotListed, Distinct
  <2> QED
    BY <1>0, <2>1, <2>2 DEF SchedulerInv, SchedulerTypeOK, RoundFollows
<1>5. CASE UNCHANGED schedulerVars
  BY <1>0, <1>5 DEF schedulerVars, SchedulerInv, SchedulerTypeOK, RoundFollows
<1> QED
  BY <1>1, <1>2, <1>3, <1>4, <1>5 DEF SchedulerNext

LEMMA AlwaysSchedulerInv == SchedulerSpec => []SchedulerInv
<1>1. SchedulerInv /\ [SchedulerNext]_schedulerVars => SchedulerInv'
  BY SchedulerInvStep
<1> QED
  BY <1>1, SchedulerInvInit, PTL DEF SchedulerSpec

(* Every variable of the scheduler keeps its type: the index stays below   *)
(* the number of nodes, although it is reduced by the length of lists that *)
(* change with every request.                                              *)
THEOREM SchedulerTypeCorrect == SchedulerSpec => []SchedulerTypeOK
<1>1. SchedulerInv => SchedulerTypeOK
  BY DEF SchedulerInv
<1> QED
  BY <1>1, AlwaysSchedulerInv, PTL

(* For any nodes, requests and handlers: while the suitable nodes come in  *)
(* the same order, none is chosen twice before each was chosen once.       *)
THEOREM NodesTakeTurns == SchedulerSpec => []TakesTurns
<1>1. ASSUME SchedulerInv, NEW i \in DOMAIN round.chosen, NEW j \in DOMAIN round.chosen,
             round.chosen[i] = round.chosen[j]
      PROVE  i = j
  <2> DEFINE n == Len(round.among)
             c == Len(round.chosen)
  <2>1. /\ round.among \in Seq(Nodes) /\ round.chosen \in Seq(Nodes) /\ lastUsed \in Int
        /\ RoundFollows
    BY <1>1 DEF SchedulerInv, SchedulerTypeOK
  <2>2. n \in Nat /\ c \in Nat /\ i \in 1..c /\ j \in 1..c
    BY <2>1
  <2>3. /\ Distinct(round.among) /\ c <= n /\ (n > 0 => 0 <= lastUsed /\ lastUsed < n)
        /\ \A k \in 1..c : round.chosen[k] = round.among[Turn(lastUsed, n, c - k)]
    BY <2>1 DEF RoundFollows
  <2>4. DOMAIN round.among = 1..n
    BY <2>1
  <2> HIDE DEF n, c
  <2>5. lastUsed \in 0..(n - 1) /\ c - i \in 0..(n - 1) /\ c - j \in 0..(n - 1)
    BY <2>1, <2>2, <2>3
  <2>6. Turn(lastUsed, n, c - i) \in 1..n /\ Turn(lastUsed, n, c - j) \in 1..n
    BY <2>2, <2>5, TurnIsOneToOne
  <2>7. Turn(lastUsed, n, c - i) = Turn(lastUsed, n, c - j)
    BY <1>1, <2>2, <2>3, <2>4, <2>6 DEF Distinct
  <2>8. c - i = c - j
    BY <2>2, <2>5, <2>7, TurnIsOneToOne
  <2> QED
    BY <2>2, <2>8
<1>2. SchedulerInv => TakesTurns
  BY <1>1 DEF TakesTurns
<1> QED
  BY <1>2, AlwaysSchedulerInv, PTL

-----------------------------------------------------------------------------
(* The allocator. *)

(* The addresses a request looks at are found one after the other.         *)
LEMMA Walk ==
  ASSUME AllocatorTypeOK
  PROVE  \E ip : /\ ip[0] = lastIP
                 /\ \A i \in 1..Tries :
                      ip[i] = Following(ip[i - 1]) /\ Candidates[i] = ip[i]
<1> DEFINE D == 0..(Size - 1)
           g == [i \in 1..Tries |-> [x \in D |-> Following(x)]]
           Eq(ip) == ip = [i \in 0..Tries |-> IF i = 0 THEN lastIP ELSE Following(ip[i - 1])]
           w == CHOOSE ip : Eq(ip)
<1>1. lastIP \in D /\ Tries \in Nat /\ Size \in Nat /\ Size > 1
  BY AllocatorAssumption DEF AllocatorTypeOK
<1>2. \A x \in D : Following(x) \in D
  BY <1>1 DEF Following
<1>3. g \in [1..Tries -> [D -> D]]
  <2> HIDE DEF D
  <2> QED
    BY <1>2
<1>4. PICK f \in [0..Tries -> D] :
              f[0] = lastIP /\ \A i \in 1..Tries : f[i] = g[i][f[i - 1]]
  <2> HIDE DEF D, g
  <2> QED
    BY <1>1, <1>3, Recursion
<1>5. ASSUME NEW i \in 1..Tries PROVE f[i] = Following(f[i - 1])
  <2>1. f[i] = g[i][f[i - 1]] /\ i - 1 \in 0..Tries
    BY <1>1, <1>4
  <2>2. f[i - 1] \in D
    BY <2>1
  <2> HIDE DEF D
  <2> QED
    BY <2>1, <2>2
<1>6. Eq(f)
  <2> HIDE DEF D, g
  <2>1. \A i \in 0..Tries : i = 0 \/ i \in 1..Tries
    BY <1>1
  <2>2. f = [i \in 0..Tries |-> f[i]]
    OBVIOUS
  <2>3. \A i \in 0..Tries : f[i] = IF i = 0 THEN lastIP ELSE Following(f[i - 1])
    BY <1>1, <1>4, <1>5, <2>1
  <2> QED
    BY <2>2, <2>3
<1>7. Eq(w)
  <2> HIDE DEF Eq
  <2> QED
    BY <1>6
<1>8. Candidates = [i \in 1..Tries |-> w[i]]
  BY DEF Candidates
<1> HIDE DEF w
<1>9. /\ DOMAIN w = 0..Tries /\ w[0] = lastIP
      /\ \A i \in 1..Tries : w[i] = Following(w[i - 1]) /\ Candidates[i] = w[i]
  BY <1>1, <1>7, <1>8
<1> QED
  BY <1>9

(* The i-th address a request looks at: each one but the network's once,   *)
(* before any of them comes again.                                         *)
LEMMA CandidatesAre ==
  ASSUME AllocatorTypeOK
  PROVE  \A i \in 1..Tries :
           /\ Candidates[i] \in 1..(Size - 1)
           /\ i < Size => Candidates[i] = IF lastIP + i < Size THEN lastIP + i
                                         ELSE lastIP + i - (Size - 1)
<1>1. PICK ip : /\ ip[0] = lastIP
                /\ \A i \in 1..Tries : ip[i] = Following(ip[i - 1]) /\ Candidates[i] = ip[i]
  BY Walk
<1>2. lastIP \in 0..(Size - 1) /\ Tries \in Nat /\ Size \in Nat /\ Size > 1
  BY AllocatorAssumption DEF AllocatorTypeOK
<1> DEFINE Place(i) ==
             /\ ip[i] \in 0..(Size - 1)
             /\ i > 0 => ip[i] /= 0
             /\ i < Size => ip[i] = IF lastIP + i < Size THEN lastIP + i
                                   ELSE lastIP + i - (Size - 1)
           S == {i \in Nat : i <= Tries => Place(i)}
<1>3. 0 \in S
  BY <1>1, <1>2
<1>4. ASSUME NEW i \in S PROVE i + 1 \in S
  <2>0. i \in Nat
    OBVIOUS
  <2>1. SUFFICES ASSUME i + 1 <= Tries PROVE Place(i + 1)
    OBVIOUS
  <2>2. Place(i)
    <3> HIDE DEF Place
    <3> QED
      BY <1>2, <2>0, <2>1
  <2>3. i + 1 \in 1..Tries /\ (i + 1) - 1 = i
    BY <2>1
  <2>4. ip[i + 1] = IF ip[i] + 1 < Size THEN ip[i] + 1 ELSE 1
    BY <1>1, <2>3 DEF Following
  <2> QED
    BY <1>2, <2>0, <2>2, <2>4
<1>5. S = Nat
  <2> HIDE DEF Place
  <2>1. S \in SUBSET Nat
    OBVIOUS
  <2> HIDE DEF S
  <2> QED
    BY <1>3, <1>4, <2>1, Induction
<1>6. ASSUME NEW i \in 1..Tries PROVE Place(i)
  <2> HIDE DEF Place
  <2> QED
    BY <1>5
<1> QED
  BY <1>1, <1>2, <1>6

(* A request that finds nothing has looked at Tries different addresses or *)
(* at all of them.                                                         *)
LEMMA ExhaustedPool ==
  ASSUME AllocatorTypeOK, \A i \in 1..Tries : Candidates[i] \in allocated
  PROVE  Cardinality(allocated) >= IF Tries < Size - 1 THEN Tries ELSE Size - 1
<1> DEFINE m == IF Tries < Size - 1 THEN Tries ELSE Size - 1
           f == [i \in 1..m |-> Candidates[i]]
<1>1. lastIP \in 0..(Size - 1) /\ Tries \in Nat /\ Size \in Nat /\ Size > 1
  BY AllocatorAssumption DEF AllocatorTypeOK
<1>2. m \in Nat /\ \A i \in 1..m : i \in 1..Tries /\ i < Size
  BY <1>1
<1>3. IsFiniteSet(allocated)
  <2>1. IsFiniteSet(0..(Size - 1))
    BY <1>1, FS_Interval
  <2> QED
    BY <2>1, FS_Subset DEF AllocatorTypeOK
<1>4. \A i, j \in 1..m : f[i] = f[j] => i = j
  <2> SUFFICES ASSUME NEW i \in 1..m, NEW j \in 1..m, Candidates[i] = Candidates[j]
               PROVE  i = j
    OBVIOUS
  <2>1. /\ Candidates[i] = IF lastIP + i < Size THEN lastIP + i ELSE lastIP + i - (Size - 1)
        /\ Candidates[j] = IF lastIP + j < Size THEN lastIP + j ELSE lastIP + j - (Size - 1)
    BY <1>2, CandidatesAre
  <2>2. i \in Nat /\ j \in Nat /\ 0 < i /\ i < Size /\ 0 < j /\ j < Size
    BY <1>2
  <2> HIDE DEF m, f
  <2>3. (IF lastIP + i < Size THEN lastIP + i ELSE lastIP + i - (Size - 1))
          = (IF lastIP + j < Size THEN lastIP + j ELSE lastIP + j - (Size - 1))
    BY <2>1
  <2> QED
    BY <1>1, <2>2, <2>3
<1>5. f \in Injection(1..m, allocated)
  <2>1. f \in [1..m -> allocated]
    BY <1>2
  <2> QED
    BY <1>4, <2>1 DEF Injection, IsInjective
<1> HIDE DEF f
<1>6. Cardinality(1..m) = m
  BY <1>2, FS_Interval
<1>7. Cardinality(1..m) <= Cardinality(allocated)
  <2> HIDE DEF m
  <2> QED
    BY <1>3, <1>5, FS_Injection
<1>8. Cardinality(allocated) \in Nat
  BY <1>3, FS_CardinalityType
<1> QED
  BY <1>2, <1>6, <1>7, <1>8

LEMMA AllocatorTypeInit == AllocatorInit => AllocatorTypeOK
BY AllocatorAssumption DEF AllocatorInit, AllocatorTypeOK

LEMMA AllocatorTypeStep ==
  ASSUME AllocatorTypeOK, [AllocatorNext]_allocatorVars
  PROVE  AllocatorTypeOK'
<1>0. Size \in Nat /\ Size > 1 /\ Tries \in Nat
  BY AllocatorAssumption
<1>1. ASSUME Allocate PROVE AllocatorTypeOK'
  <2>1. PICK i \in 1..Tries : /\ allocated' = allocated \cup {Candidates[i]}
                             /\ lastIP' = Candidates[i]
                             /\ outcome' = <<"given", Candidates[i]>>
    BY <1>1 DEF Allocate
  <2>2. Candidates[i] \in 0..(Size - 1)
    BY <1>0, CandidatesAre
  <2> QED
    BY <2>1, <2>2 DEF AllocatorTypeOK
<1>2. ASSUME Exhausted PROVE AllocatorTypeOK'
  BY <1>2 DEF Exhausted, AllocatorTypeOK
<1>3. ASSUME NEW ip \in 0..(Size - 1), Release(ip) PROVE AllocatorTypeOK'
  BY <1>3 DEF Release, AllocatorTypeOK
<1>4. CASE UNCHANGED allocatorVars
  BY <1>4 DEF allocatorVars, AllocatorTypeOK
<1> QED
  BY <1>1, <1>2, <1>3, <1>4 DEF AllocatorNext

(* Addresses in use and given out stay in the range, for any range and     *)
(* number of tries.                                                        *)
THEOREM AllocatorTypeCorrect == AllocatorSpec => []AllocatorTypeOK
<1>1. AllocatorTypeOK /\ [AllocatorNext]_allocatorVars => AllocatorTypeOK'
  BY AllocatorTypeStep
<1> QED
  BY <1>1, AllocatorTypeInit, PTL DEF AllocatorSpec

LEMMA AllocatorStepsPool ==
  ASSUME AllocatorTypeOK, [AllocatorNext]_allocatorVars
  PROVE  [Pool!Next]_(Pool!vars)
<1>0. Size \in Nat /\ Size > 1 /\ Tries \in Nat
  BY AllocatorAssumption
<1>1. ASSUME Allocate PROVE Pool!Allocate
  <2>1. PICK i \in 1..Tries : /\ Candidates[i] \notin allocated
                             /\ allocated' = allocated \cup {Candidates[i]}
                             /\ outcome' = <<"given", Candidates[i]>>
    BY <1>1 DEF Allocate
  <2>2. Candidates[i] \in 1..(Size - 1)
    BY CandidatesAre
  <2> QED
    BY <2>1, <2>2 DEF Pool!Allocate
<1>2. ASSUME Exhausted PROVE Pool!Refuse
  <2>1. Cardinality(allocated) >= IF Tries < Size - 1 THEN Tries ELSE Size - 1
    BY <1>2, ExhaustedPool DEF Exhausted
  <2>2. outcome' = <<"none left">> /\ allocated' = allocated
    BY <1>2 DEF Exhausted
  <2> QED
    BY <2>1, <2>2 DEF Pool!Refuse, Pool!Cardinality, Pool!IsFiniteSet, Cardinality, IsFiniteSet
<1>3. ASSUME NEW ip \in 0..(Size - 1), Release(ip) PROVE Pool!Release
  BY <1>3 DEF Release, Pool!Release
<1>4. CASE UNCHANGED allocatorVars
  BY <1>4 DEF allocatorVars, Pool!vars
<1> QED
  BY <1>1, <1>2, <1>3, <1>4 DEF AllocatorNext, Pool!Next

(* The walk through the range is a pool: what it gives is free and not the *)
(* network's address, and it refuses only if as many addresses are in use  *)
(* as one request looks at, or all there are.                              *)
THEOREM AllocatorIsPool == AllocatorSpec => ImplementsPool
<1>1. AllocatorInit => Pool!Init
  BY DEF AllocatorInit, Pool!Init
<1>2. AllocatorTypeOK /\ [AllocatorNext]_allocatorVars => [Pool!Next]_(Pool!vars)
  BY AllocatorStepsPool
<1> QED
  BY <1>1, <1>2, AllocatorTypeCorrect, PTL DEF AllocatorSpec, ImplementsPool, Pool!Spec

-----------------------------------------------------------------------------
(* A call of the store by one client under study is one of the store.      *)
LEMMA StoreCallIsStep == StoreCalls => Next
<1> SUFFICES ASSUME StoreCalls PROVE Next
  OBVIOUS
<1>1. PICK c \in Clients : \/ backend = "memory" /\ MemoryCalls(c) /\ UNCHANGED pending
                           \/ backend = "postgres" /\ PostgresCalls(c)
  BY DEF StoreCalls
<1>2. CASE backend = "memory" /\ MemoryCalls(c) /\ UNCHANGED pending
  BY <1>2 DEF MemoryCalls, Memory!Next, Next, StoreCalls
<1>3. CASE backend = "postgres" /\ PostgresCalls(c)
  BY <1>3 DEF PostgresCalls, Postgres!Next, Next, StoreCalls
<1> QED
  BY <1>1, <1>2, <1>3

(* The store, the scheduler and the allocator keep their types, whichever  *)
(* of them a behaviour exercises: in particular the index of RoundRobin    *)
(* stays below the number of nodes.                                        *)
THEOREM MasterTypesCorrect == MCSpec => []AllTypesOK
<1> DEFINE Inv == StoresTypeInv /\ SchedulerInv /\ AllocatorTypeOK
<1>1. MCInit => Inv
  BY StoresTypeInit, SchedulerInvInit, AllocatorTypeInit DEF MCInit
<1>2. Inv /\ [MCNext]_mcvars => Inv'
  <2> SUFFICES ASSUME Inv, [MCNext]_mcvars PROVE Inv'
    OBVIOUS
  <2>1. [Next]_vars /\ [SchedulerNext]_schedulerVars /\ [AllocatorNext]_allocatorVars
    BY StoreCallIsStep DEF MCNext, mcvars
  <2> QED
    BY <2>1, StoresTypeStep, SchedulerInvStep, AllocatorTypeStep
<1>3. Inv => AllTypesOK
  BY DEF StoresTypeInv, SchedulerInv, AllTypesOK
<1> QED
  BY <1>1, <1>2, <1>3, PTL DEF MCSpec
=============================================================================
