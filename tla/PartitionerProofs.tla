-------------------------- MODULE PartitionerProofs --------------------------
(***************************************************************************)
(* CreatePartition deals exactly, for any number of replicas, whatever     *)
(* sizes it is called with.                                                *)
(***************************************************************************)
EXTENDS Partitioner, FiniteSetTheorems, SequenceTheorems, TLAPS

\* Adding a replica that is not in the set makes it larger by one.
LEMMA AddFresh ==
  ASSUME NEW set, NEW r, IsFiniteSet(set.replicas), r \notin set.replicas
  PROVE  /\ Add(set, r).replicas = set.replicas \cup {r}
         /\ IsFiniteSet(Add(set, r).replicas)
         /\ Size(Add(set, r)) = Size(set) + 1
<1>1. Add(set, r).replicas = set.replicas \cup {r}
  BY DEF Add
<1>2. QED
  BY <1>1, FS_AddElement DEF Size

-----------------------------------------------------------------------------
(* The number of places.                                                    *)

\* A part of n replicas offers n places.
LEMMA PlacesOfOne ==
  ASSUME NEW k, NEW n \in Nat
  PROVE  IsFiniteSet({k} \X (1..n)) /\ Cardinality({k} \X (1..n)) = n
<1>1. IsFiniteSet({k}) /\ Cardinality({k}) = 1
  BY FS_Singleton
<1>2. IsFiniteSet(1..n) /\ Cardinality(1..n) = n
  BY FS_Interval
<1> DEFINE One == {k}
           P == 1..n
<1> HIDE DEF One, P
<1>3. IsFiniteSet(One \X P) /\ Cardinality(One \X P) = Cardinality(One) * Cardinality(P)
  BY <1>1, <1>2, FS_Product DEF One, P
<1>4. Cardinality(One) * Cardinality(P) = n
  BY <1>1, <1>2 DEF One, P
<1>5. QED
  BY <1>3, <1>4 DEF One, P

\* Finitely many parts offer finitely many places.
LEMMA PlacesFinite ==
  ASSUME NEW k \in Nat, \A i \in 1..k-1 : sizes[i] \in Nat
  PROVE  IsFiniteSet(Places(k)) /\ Before(k) \in Nat
<1> DEFINE Of == [i \in 1..k-1 |-> {i} \X (1..sizes[i])]
           All == { {i} \X (1..sizes[i]) : i \in 1..k-1 }
<1>1. Of \in Surjection(1..k-1, All)
  BY DEF Surjection
<1>2. IsFiniteSet(1..k-1)
  BY FS_Interval
<1>3. IsFiniteSet(All)
  BY <1>1, <1>2, FS_Surjection
<1>4. \A T \in All : IsFiniteSet(T)
  BY PlacesOfOne
<1> HIDE DEF Of, All
<1>5. IsFiniteSet(UNION All)
  BY <1>3, <1>4, FS_UNION
<1>6. Places(k) = UNION All
  BY DEF Places, All
<1>7. QED
  BY <1>5, <1>6, FS_CardinalityType DEF Before

LEMMA BeforeFirst == Before(1) = 0
<1>1. Places(1) = {}
  BY DEF Places
<1>2. QED
  BY <1>1, FS_EmptySet DEF Before

\* What the loop over the sizes adds to totSize.
LEMMA BeforeNext ==
  ASSUME NEW k \in Nat \ {0}, \A i \in 1..k : sizes[i] \in Nat
  PROVE  Before(k) \in Nat /\ Before(k + 1) = Before(k) + sizes[k]
<1>1. Places(k + 1) = Places(k) \cup ({k} \X (1..sizes[k]))
  <2>1. 1..(k+1)-1 = (1..k-1) \cup {k}
    OBVIOUS
  <2>2. QED
    BY <2>1 DEF Places
<1>2. Places(k) \cap ({k} \X (1..sizes[k])) = {}
  BY DEF Places
<1>3. IsFiniteSet(Places(k)) /\ Before(k) \in Nat
  BY PlacesFinite
<1>4. IsFiniteSet({k} \X (1..sizes[k])) /\ Cardinality({k} \X (1..sizes[k])) = sizes[k]
  <2>1. sizes[k] \in Nat
    OBVIOUS
  <2>2. QED
    BY <2>1, PlacesOfOne
<1>5. Cardinality(Places(k + 1)) = Cardinality(Places(k)) + sizes[k] - Cardinality({})
  BY <1>1, <1>2, <1>3, <1>4, FS_Union
<1>6. QED
  BY <1>3, <1>5, FS_EmptySet DEF Before

\* The total grows from part to part.
LEMMA BeforeMonotone ==
  ASSUME NEW j \in Nat, NEW k \in 0..j, \A i \in 1..j-1 : sizes[i] \in Nat
  PROVE  Before(k) <= Before(j)
<1>1. Places(k) \subseteq Places(j)
  BY DEF Places
<1>2. IsFiniteSet(Places(j))
  BY PlacesFinite
<1>3. QED
  BY <1>1, <1>2, FS_Subset DEF Before

\* What Before is of does not change.
LEMMA BeforeStable == sizes' = sizes => \A k : Before(k)' = Before(k)
  BY DEF Before, Places

-----------------------------------------------------------------------------
LEMMA InitInv == Init => IInv
<1> SUFFICES ASSUME Init PROVE IInv
  OBVIOUS
<1>1. sizes \in Seq(Int)
  BY CallsAssumption DEF Init
<1>2. TypeOK
  BY DEF Init, TypeOK
<1>3. QED
  BY <1>1, <1>2 DEF Init, IInv, NoPanic

LEMMA SizesFacts ==
  IInv => Len(sizes) \in Nat /\ sizes \in [1..Len(sizes) -> Int] /\ DOMAIN sizes = 1..Len(sizes)
<1> SUFFICES ASSUME IInv
             PROVE  Len(sizes) \in Nat /\ sizes \in [1..Len(sizes) -> Int] /\ DOMAIN sizes = 1..Len(sizes)
  OBVIOUS
<1>1. sizes \in Seq(Int)
  BY DEF IInv
<1>2. QED
  BY <1>1, LenProperties

\* The list has Cap different replicas.
LEMMA ListFacts ==
  ASSUME IInv
  PROVE  /\ Len(list) = Cap /\ DOMAIN list = 1..Cap /\ Cap \in Nat
         /\ \A i, j \in 1..Cap : list[i] = list[j] => i = j
<1>1. list \in Seq({list[i] : i \in DOMAIN list}) /\ Len(list) = Cap
  BY ListsAssumption DEF IInv
<1>2. DOMAIN list = 1..Len(list)
  BY <1>1
<1>3. \A i, j \in DOMAIN list : list[i] = list[j] => i = j
  BY ListsAssumption DEF IInv
<1>4. QED
  BY <1>1, <1>2, <1>3, CapAssumption

LEMMA AddSizeInv == ASSUME IInv, AddSize PROVE IInv'
<1>1. SizesInv /\ next \in 1..Len(sizes) /\ Len(sizes) \in Nat /\ sizes \in [1..Len(sizes) -> Int]
  BY SizesFacts DEF AddSize, IInv, SizesInv
<1>2. CASE sizes[next] <= 0
  BY <1>2 DEF AddSize, Fail, IInv, TypeOK, NoPanic
<1>3. CASE ~ sizes[next] <= 0
  <2>1. /\ totSize' = totSize + sizes[next] /\ parts' = Append(parts, EmptySet) /\ next' = next + 1
        /\ UNCHANGED << sizes, labels, list, pc, curIndex >> /\ pc = "sizes"
    BY <1>3 DEF AddSize
  <2>2. /\ Len(parts) = next - 1 /\ totSize = Before(next) /\ curIndex = 1
        /\ \A i \in 1..next-1 : sizes[i] > 0 /\ parts[i] = EmptySet
    BY <1>1 DEF SizesInv
  <2>3. totSize' \in Nat /\ totSize' = Before(next')
    <3>1. next \in Nat \ {0} /\ \A i \in 1..next : sizes[i] \in Nat
      BY <1>1, <1>3, <2>2
    <3>2. Before(next) \in Nat /\ Before(next + 1) = Before(next) + sizes[next]
      BY <3>1, BeforeNext
    <3>3. QED
      BY <2>1, <2>2, <3>1, <3>2
  <2>4. Before(next)' = Before(next')
    BY <2>1 DEF Before, Places
  <2> DEFINE Dealt == {list[i] : i \in DOMAIN list}
             Part == [replicas : SUBSET Dealt, valAddrs : SUBSET Dealt]
  <2>5. parts \in Seq(Part) /\ EmptySet \in Part
    BY DEF IInv, TypeOK, EmptySet
  <2> HIDE DEF Part
  <2>6. /\ parts' \in Seq(Part) /\ Len(parts') = next' - 1
        /\ \A i \in 1..next'-1 : parts'[i] = IF i < next THEN parts[i] ELSE EmptySet
    BY <1>1, <2>1, <2>2, <2>5
  <2>7. TypeOK'
    BY <1>1, <2>1, <2>3, <2>6 DEF IInv, TypeOK, Part
  <2>8. SizesInv'
    BY <1>1, <1>3, <2>1, <2>2, <2>3, <2>4, <2>6 DEF SizesInv
  <2>9. QED
    BY <2>1, <2>7, <2>8 DEF IInv, NoPanic
<1>4. QED
  BY <1>2, <1>3

\* The loop over the replicas starts with empty parts.
LEMMA CheckTotalInv == ASSUME IInv, CheckTotal PROVE IInv'
<1> DEFINE n == Len(sizes)
<1>1. /\ SizesInv /\ next = n + 1 /\ pc = "sizes"
      /\ n \in Nat /\ DOMAIN sizes = 1..n /\ sizes \in [1..n -> Int]
  BY SizesFacts DEF CheckTotal, IInv, SizesInv
<1>2. CASE totSize # Cap
  BY <1>2 DEF CheckTotal, Fail, IInv, TypeOK, NoPanic
<1>3. CASE totSize = Cap
  <2>1. /\ pc' = "deal" /\ next' = 1
        /\ UNCHANGED << sizes, labels, list, totSize, curIndex, parts >>
    BY <1>3 DEF CheckTotal
  <2>2. /\ Len(parts) = n /\ Before(n + 1) = Cap /\ curIndex = 1
        /\ \A i \in 1..n : sizes[i] > 0 /\ parts[i] = EmptySet
    BY <1>1, <1>3 DEF SizesInv
  <2>3. DOMAIN parts = 1..n
    BY <2>2 DEF IInv, TypeOK
  <2>4. \A i \in 1..n : /\ parts[i].replicas = {} /\ IsFiniteSet(parts[i].replicas)
                        /\ Size(parts[i]) = 0
    <3>1. IsFiniteSet({}) /\ Cardinality({}) = 0
      BY FS_EmptySet
    <3>2. \A i \in 1..n : parts[i].replicas = {}
      BY <2>2 DEF EmptySet
    <3>3. QED
      BY <3>1, <3>2 DEF Size
  <2>5. Before(n + 1)' = Cap /\ Before(1)' = 0 /\ Before(2)' = Before(2)
    BY <2>1, <2>2, BeforeFirst, BeforeStable
  <2>6. n = 0 => Cap = 0
    BY <2>2, BeforeFirst
  <2>7. n > 0 => Before(2) \in Nat
    BY <1>1, <2>2, PlacesFinite
  <2>8. /\ \A i \in DOMAIN parts : Size(parts[i]) = IF i < 1 THEN sizes[i]
                        ELSE IF i = 1 THEN 1 - 1 - Before(i)' ELSE 0
        /\ \A i \in DOMAIN parts : Size(parts[i])' = Size(parts[i])
    BY <2>1, <2>3, <2>4, <2>5 DEF Size
  <2>9. DealInv'
    <3>1. Cap > 0 => curIndex' \in DOMAIN parts' /\ next' - 1 <= Before(curIndex + 1)'
      BY <1>1, <2>1, <2>2, <2>3, <2>5, <2>6, <2>7, CapAssumption
    <3>2. \A i \in DOMAIN parts' : Size(parts[i])' = IF i < curIndex' THEN sizes'[i]
                        ELSE IF i = curIndex' THEN next' - 1 - Before(i)' ELSE 0
      BY <2>1, <2>2, <2>8
    <3>3. \A i \in DOMAIN parts' : /\ parts'[i].replicas \subseteq { list'[k] : k \in 1..next'-1 }
                                   /\ sizes'[i] > 0 /\ IsFiniteSet(parts'[i].replicas)
      BY <2>1, <2>2, <2>3, <2>4
    <3>4. \A i, j \in DOMAIN parts' : i # j => parts'[i].replicas \cap parts'[j].replicas = {}
      BY <2>1, <2>3, <2>4
    <3>5. Len(parts') = Len(sizes') /\ Before(Len(sizes) + 1)' = Cap /\ next' \in 1..Cap+1
      BY <2>1, <2>2, <2>5, CapAssumption
    <3>6. \A k \in 1..next'-1 : \E i \in DOMAIN parts' : list'[k] \in parts'[i].replicas
      BY <2>1
    <3>7. QED
      BY <3>1, <3>2, <3>3, <3>4, <3>5, <3>6 DEF DealInv
  <2>10. QED
    BY <2>1, <2>9 DEF IInv, TypeOK, NoPanic
<1>4. QED
  BY <1>2, <1>3

\* DealInv, with the number of parts named.
LEMMA DealFacts ==
  ASSUME IInv, DealInv
  PROVE  \E n \in Nat :
           /\ n = Len(sizes) /\ sizes \in [1..n -> Int] /\ DOMAIN sizes = 1..n
           /\ DOMAIN parts = 1..n /\ Len(parts) = n /\ Before(n + 1) = Cap
           /\ \A i \in 1..n : sizes[i] > 0 /\ IsFiniteSet(parts[i].replicas)
           /\ Cap > 0 => curIndex \in 1..n /\ next - 1 <= Before(curIndex + 1)
           /\ \A i \in 1..n : Size(parts[i]) = IF i < curIndex THEN sizes[i]
                                ELSE IF i = curIndex THEN next - 1 - Before(i) ELSE 0
           /\ \A i \in 1..n : parts[i].replicas \subseteq { list[k] : k \in 1..next-1 }
           /\ \A k \in 1..next-1 : \E i \in 1..n : list[k] \in parts[i].replicas
           /\ \A i, j \in 1..n : i # j => parts[i].replicas \cap parts[j].replicas = {}
<1> DEFINE n == Len(sizes)
<1>1. n \in Nat /\ sizes \in [1..n -> Int] /\ DOMAIN sizes = 1..n
  BY SizesFacts
<1>2. DOMAIN parts = 1..n /\ Len(parts) = n
  BY <1>1 DEF DealInv, IInv, TypeOK
<1> HIDE DEF n
<1>3. Before(n + 1) = Cap
  BY DEF DealInv, n
<1>4. n = Len(sizes)
  BY DEF n
<1>5. QED
  BY <1>1, <1>2, <1>3, <1>4 DEF DealInv

\* What DealInv says of does not change.
LEMMA DealStable ==
  ASSUME DealInv, UNCHANGED << sizes, list, next, curIndex, parts >>
  PROVE  DealInv'
<1>1. Before(curIndex + 1)' = Before(curIndex + 1) /\ Before(Len(sizes) + 1)' = Before(Len(sizes) + 1)
  BY DEF Before, Places
<1>2. \A i : Before(i)' = Before(i)
  BY BeforeStable
<1>3. \A i : Size(parts[i])' = Size(parts[i])
  BY DEF Size
<1>4. QED
  BY <1>1, <1>2, <1>3 DEF DealInv

\* The step that a wrong total or a part of size 0 would break.
LEMMA DealStepInv == ASSUME IInv, Deal PROVE IInv'
<1> DEFINE c == curIndex'
           r == list[next]
<1>1. /\ DealInv /\ pc = "deal" /\ next \in 1..Cap /\ Cap \in Nat /\ Cap > 0
      /\ DOMAIN list = 1..Cap /\ \A i, j \in 1..Cap : list[i] = list[j] => i = j
  BY ListFacts DEF Deal, IInv, DealInv
<1>2. PICK n \in Nat :
        /\ n = Len(sizes) /\ sizes \in [1..n -> Int]
        /\ DOMAIN parts = 1..n /\ Len(parts) = n /\ Before(n + 1) = Cap
        /\ \A i \in 1..n : sizes[i] > 0 /\ IsFiniteSet(parts[i].replicas)
        /\ curIndex \in 1..n /\ next - 1 <= Before(curIndex + 1)
        /\ \A i \in 1..n : Size(parts[i]) = IF i < curIndex THEN sizes[i]
                             ELSE IF i = curIndex THEN next - 1 - Before(i) ELSE 0
        /\ \A i \in 1..n : parts[i].replicas \subseteq { list[k] : k \in 1..next-1 }
        /\ \A k \in 1..next-1 : \E i \in 1..n : list[k] \in parts[i].replicas
        /\ \A i, j \in 1..n : i # j => parts[i].replicas \cap parts[j].replicas = {}
  BY <1>1, DealFacts
<1>3. curIndex \in 1..n
  BY <1>2
<1>4. \A i \in 1..n : sizes[i] \in Nat /\ sizes[i] > 0
  BY <1>2
<1>5. \A k \in 1..n : Before(k) \in Nat /\ Before(k + 1) = Before(k) + sizes[k]
  <2> SUFFICES ASSUME NEW k \in 1..n PROVE Before(k) \in Nat /\ Before(k + 1) = Before(k) + sizes[k]
    OBVIOUS
  <2>1. k \in Nat \ {0} /\ \A i \in 1..k : sizes[i] \in Nat
    BY <1>1, <1>4
  <2>2. QED
    BY <2>1, BeforeNext
<1> DEFINE full == Size(parts[curIndex])
<1>6. /\ c \in 1..n
      /\ Size(parts[c]) = next - 1 - Before(c)
      /\ next <= Before(c + 1)
      /\ c = curIndex \/ (c = curIndex + 1 /\ Size(parts[curIndex]) = sizes[curIndex])
  <2>1. /\ full = next - 1 - Before(curIndex) /\ next - 1 <= Before(curIndex + 1)
        /\ Before(curIndex) \in Nat /\ Before(curIndex + 1) = Before(curIndex) + sizes[curIndex]
        /\ sizes[curIndex] \in Nat /\ next \in Nat /\ curIndex \in Nat
    BY <1>1, <1>2, <1>3, <1>4, <1>5
  <2>2. c = IF full >= sizes[curIndex] THEN curIndex + 1 ELSE curIndex
    BY <1>2, <1>3 DEF Deal
  <2> HIDE DEF c, full
  <2>3. CASE ~ full >= sizes[curIndex]
    BY <1>3, <2>1, <2>2, <2>3 DEF full
  <2>4. CASE full >= sizes[curIndex]
    <3>1. c = curIndex + 1
      BY <2>2, <2>4
    <3>2. next - 1 = Before(curIndex + 1) /\ full = sizes[curIndex]
      BY <2>1, <2>4
    <3>3. curIndex # n
      <4>1. Before(n + 1) = Cap
        BY <1>2
      <4>2. QED
        BY <1>1, <3>2, <4>1
    <3>4. c \in 1..n
      BY <1>3, <3>1, <3>3
    <3>5. Size(parts[c]) = 0
      BY <1>2, <2>1, <3>1, <3>4
    <3>6. Before(c) \in Nat /\ Before(c + 1) = Before(c) + sizes[c] /\ sizes[c] \in Nat /\ sizes[c] > 0
      BY <1>4, <1>5, <3>4
    <3>7. QED
      BY <2>1, <3>1, <3>2, <3>4, <3>5, <3>6 DEF full
  <2>5. QED
    BY <2>3, <2>4
<1>7. /\ parts' = [parts EXCEPT ![c] = Add(parts[c], r)]
      /\ next' = next + 1 /\ pc' = pc
      /\ UNCHANGED << sizes, labels, list, totSize >>
  BY <1>2, <1>6 DEF Deal, AddTo
<1>8. \A i \in 1..n : r \notin parts[i].replicas
  <2>1. \A k \in 1..next-1 : list[k] # r
    BY <1>1
  <2>2. \A i \in 1..n : parts[i].replicas \subseteq { list[k] : k \in 1..next-1 }
    BY <1>2
  <2>3. QED
    BY <2>1, <2>2
<1>9. /\ parts'[c].replicas = parts[c].replicas \cup {r}
      /\ IsFiniteSet(parts'[c].replicas)
      /\ Size(parts'[c]) = Size(parts[c]) + 1
      /\ \A i \in 1..n : i # c => parts'[i] = parts[i]
  BY <1>1, <1>2, <1>6, <1>7, <1>8, AddFresh
<1> DEFINE Dealt == {list[i] : i \in DOMAIN list}
           Part == [replicas : SUBSET Dealt, valAddrs : SUBSET Dealt]
<1>10. parts' \in Seq(Part) /\ TypeOK'
  <2>1. parts \in Seq(Part) /\ r \in Dealt
    BY <1>1, ListFacts DEF IInv, TypeOK
  <2> HIDE DEF Part
  <2>2. parts[c] \in Part
    BY <1>2, <1>6, <2>1, ElementOfSeq
  <2>3. Add(parts[c], r) \in Part
    BY <2>1, <2>2 DEF Add, Part
  <2>4. parts' \in Seq(Part)
    BY <1>2, <1>6, <1>7, <2>1, <2>3, ExceptSeq
  <2>5. QED
    BY <1>1, <1>6, <1>7, <2>4 DEF IInv, TypeOK, Part
<1>11. Len(parts') = n /\ DOMAIN parts' = 1..n
  BY <1>1, <1>2, <1>7, <1>10
<1>12. \A k : Before(k)' = Before(k)
  BY <1>7, BeforeStable
<1>13. \A i \in 1..n : Size(parts'[i]) = IF i < c THEN sizes[i]
                                         ELSE IF i = c THEN next' - 1 - Before(i) ELSE 0
  <2> HIDE DEF c
  <2>1. c \in Nat /\ curIndex \in Nat /\ next \in Nat /\ Before(c) \in Nat
    BY <1>1, <1>3, <1>5, <1>6
  <2>2. \A i \in 1..n : i # c => Size(parts'[i]) = Size(parts[i])
    BY <1>9
  <2>3. Size(parts'[c]) = next' - 1 - Before(c)
    BY <1>6, <1>7, <1>9, <2>1
  <2>4. \A i \in 1..n : i # c => Size(parts[i]) = IF i < c THEN sizes[i] ELSE 0
    BY <1>2, <1>6, <2>1
  <2>5. QED
    BY <2>1, <2>2, <2>3, <2>4
<1>14. \A i \in 1..n : parts'[i].replicas \subseteq { list[k] : k \in 1..next'-1 }
  BY <1>1, <1>2, <1>7, <1>9
<1>15. \A k \in 1..next'-1 : \E i \in 1..n : list[k] \in parts'[i].replicas
  <2> HIDE DEF c
  <2>1. \A i \in 1..n : parts[i].replicas \subseteq parts'[i].replicas
    BY <1>9
  <2>2. \A k \in 1..next-1 : \E i \in 1..n : list[k] \in parts'[i].replicas
    BY <1>2, <2>1
  <2>3. list[next] \in parts'[c].replicas
    BY <1>9
  <2>4. QED
    BY <1>1, <1>6, <1>7, <2>2, <2>3
<1>16. \A i, j \in 1..n : i # j => parts'[i].replicas \cap parts'[j].replicas = {}
  <2> HIDE DEF c, r
  <2>1. \A i, j \in 1..n : i # j => parts[i].replicas \cap parts[j].replicas = {}
    BY <1>2
  <2>2. \A i \in 1..n : parts'[i].replicas = IF i = c THEN parts[i].replicas \cup {r} ELSE parts[i].replicas
    BY <1>9
  <2>3. QED
    BY <1>8, <2>1, <2>2
<1>17. DealInv'
  <2>1. \A i \in 1..n : sizes'[i] > 0 /\ IsFiniteSet(parts'[i].replicas)
    BY <1>1, <1>2, <1>4, <1>7, <1>9
  <2>2. Before(Len(sizes) + 1)' = Cap /\ next' \in 1..Cap+1
    BY <1>1, <1>2, <1>7, <1>12
  <2>3. Before(curIndex + 1)' = Before(c + 1)
    BY <1>7 DEF Before, Places
  <2>4. next' - 1 <= Before(curIndex + 1)'
    BY <1>1, <1>6, <1>7, <2>3
  <2>5. \A i \in 1..n : Size(parts'[i]) = IF i < c THEN sizes'[i]
                                          ELSE IF i = c THEN next' - 1 - Before(i)' ELSE 0
    BY <1>7, <1>12, <1>13
  <2>6. \A i \in 1..n : parts'[i].replicas \subseteq { list'[k] : k \in 1..next'-1 }
    BY <1>7, <1>14
  <2>7. \A k \in 1..next'-1 : \E i \in 1..n : list'[k] \in parts'[i].replicas
    BY <1>7, <1>15
  <2>8. Len(parts') = Len(sizes')
    BY <1>2, <1>7, <1>11
  <2>9. \A i : Size(parts[i])' = Size(parts'[i])
    BY DEF Size
  <2>10. QED
    BY <1>6, <1>11, <1>16, <2>1, <2>2, <2>4, <2>5, <2>6, <2>7, <2>8, <2>9 DEF DealInv
<1>18. QED
  BY <1>1, <1>7, <1>10, <1>17 DEF IInv, NoPanic

LEMMA NextInv == IInv /\ [Next]_vars => IInv'
<1> SUFFICES ASSUME IInv, [Next]_vars PROVE IInv'
  OBVIOUS
<1>1. CASE UNCHANGED vars
  <2>1. TypeOK' /\ NoPanic'
    BY <1>1 DEF vars, IInv, TypeOK, NoPanic
  <2>2. pc = "sizes" => SizesInv'
    <3>1. Before(next)' = Before(next)
      BY <1>1 DEF vars, Before, Places
    <3>2. QED
      BY <1>1, <3>1 DEF vars, IInv, SizesInv
  <2>3. pc \in {"deal", "done"} => DealInv'
    BY <1>1, DealStable DEF vars, IInv
  <2>4. QED
    BY <1>1, <2>1, <2>2, <2>3 DEF vars, IInv
<1>2. CASE CheckLengths
  <2>1. /\ pc = "start" /\ pc' \in {"sizes", "error"}
        /\ UNCHANGED << sizes, labels, list, next, totSize, curIndex, parts >>
    BY <1>2 DEF CheckLengths, Fail
  <2>2. TypeOK'
    BY <2>1 DEF IInv, TypeOK
  <2>3. SizesInv'
    <3>1. Before(1)' = 0
      BY <2>1, BeforeFirst, BeforeStable
    <3>2. next = 1 /\ curIndex = 1 /\ totSize = 0 /\ parts = << >> /\ Len(sizes) \in Nat
      BY <2>1, SizesFacts DEF IInv
    <3>3. QED
      BY <2>1, <3>1, <3>2 DEF SizesInv
  <2>4. QED
    BY <2>1, <2>2, <2>3 DEF IInv, NoPanic
<1>3. CASE AddSize
  BY <1>3, AddSizeInv
<1>4. CASE CheckTotal
  BY <1>4, CheckTotalInv
<1>5. CASE Deal
  BY <1>5, DealStepInv
<1>6. CASE Return
  <2>1. next = Cap + 1 /\ DealInv
    BY <1>6, ListFacts DEF Return, IInv, DealInv
  <2>2. UNCHANGED << sizes, labels, list, next, totSize, curIndex, parts >> /\ pc' = "done"
    BY <1>6 DEF Return
  <2>3. DealInv' /\ TypeOK'
    BY <2>1, <2>2, DealStable DEF IInv, TypeOK
  <2>4. QED
    BY <2>1, <2>2, <2>3 DEF IInv, NoPanic
<1>7. QED
  BY <1>1, <1>2, <1>3, <1>4, <1>5, <1>6 DEF Next

\* The loop invariants of CreatePartition, for any number of replicas and any
\* sizes and labels.
THEOREM Invariance == Spec => []IInv
  BY InitInv, NextInv, PTL DEF Spec

\* curIndex and the loop index stay positive, totSize is never negative and a
\* part never holds what the replica store does not list.
THEOREM TypeCorrect == Spec => []TypeOK
<1>1. IInv => TypeOK
  BY DEF IInv
<1>2. QED
  BY <1>1, Invariance, PTL

\* The loop never indexes past the last part, for any number of replicas.
THEOREM NoPanicHolds == Spec => []NoPanic
<1>1. IInv => NoPanic
  BY DEF IInv
<1>2. QED
  BY <1>1, Invariance, PTL

\* When every replica is dealt, the last part is the current one: the parts
\* before the last offer fewer places than there are replicas.
LEMMA InvExact == IInv => ExactPartition
<1> SUFFICES ASSUME IInv, pc = "done"
             PROVE  /\ \A i \in DOMAIN sizes : Size(parts[i]) = sizes[i]
                    /\ \A i, j \in DOMAIN parts : i # j => parts[i].replicas \cap parts[j].replicas = {}
                    /\ UNION { parts[i].replicas : i \in DOMAIN parts } = { list[i] : i \in DOMAIN list }
  BY DEF ExactPartition
<1>1. DealInv /\ next = Cap + 1 /\ Cap \in Nat /\ DOMAIN list = 1..Cap
  BY CapAssumption, ListFacts DEF IInv
<1>2. PICK n \in Nat :
        /\ DOMAIN parts = 1..n /\ DOMAIN sizes = 1..n /\ Before(n + 1) = Cap
        /\ \A i \in 1..n : sizes[i] > 0 /\ sizes[i] \in Int
        /\ Cap > 0 => curIndex \in 1..n /\ next - 1 <= Before(curIndex + 1)
        /\ \A i \in 1..n : Size(parts[i]) = IF i < curIndex THEN sizes[i]
                             ELSE IF i = curIndex THEN next - 1 - Before(i) ELSE 0
        /\ \A i \in 1..n : parts[i].replicas \subseteq { list[k] : k \in 1..next-1 }
        /\ \A k \in 1..next-1 : \E i \in 1..n : list[k] \in parts[i].replicas
        /\ \A i, j \in 1..n : i # j => parts[i].replicas \cap parts[j].replicas = {}
  BY <1>1, DealFacts
<1>3. \A i \in 1..n : sizes[i] \in Nat /\ sizes[i] > 0
  BY <1>2
<1>4. \A i \in 1..n : Size(parts[i]) = sizes[i]
  <2>1. CASE n = 0
    BY <2>1
  <2>2. CASE n > 0
    <3>1. Before(n) \in Nat /\ Cap = Before(n) + sizes[n]
      BY <1>2, <1>3, <2>2, BeforeNext
    <3>2. Cap > 0 /\ n \in 1..n
      BY <1>3, <2>2, <3>1
    <3>3. curIndex \in 1..n /\ Cap <= Before(curIndex + 1)
      BY <1>1, <1>2, <3>2
    <3>4. curIndex = n
      <4> SUFFICES ASSUME curIndex # n PROVE FALSE
        OBVIOUS
      <4>1. curIndex + 1 \in 0..n /\ \A i \in 1..n-1 : sizes[i] \in Nat
        BY <1>3, <3>3
      <4>2. Before(curIndex + 1) <= Before(n)
        BY <4>1, BeforeMonotone
      <4>3. Before(curIndex + 1) \in Nat
        BY <1>3, <4>1, PlacesFinite
      <4>4. QED
        BY <1>1, <1>3, <3>1, <3>2, <3>3, <4>2, <4>3
    <3>5. QED
      BY <1>1, <1>2, <1>3, <3>1, <3>4
  <2>3. QED
    BY <2>1, <2>2
<1>5. UNION { parts[i].replicas : i \in 1..n } = { list[k] : k \in 1..Cap }
  BY <1>1, <1>2
<1>6. QED
  BY <1>1, <1>2, <1>4, <1>5

\* Every replica is dealt to one part and every part has its size.
THEOREM ExactPartitionHolds == Spec => []ExactPartition
  BY Invariance, InvExact, PTL
==============================================================================
