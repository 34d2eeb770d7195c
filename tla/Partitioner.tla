----------------------------- MODULE Partitioner -----------------------------
(***************************************************************************)
(* GenericPartitioner.CreatePartition (util/partition.go) with the         *)
(* ReplicaSet it fills (util/replicas.go): the replicas, in whatever order *)
(* the replica store lists them, are dealt to parts of the given sizes.    *)
(* The test cases take from the parts who is honest and who is faulty.     *)
(***************************************************************************)
EXTENDS Integers, Sequences, FiniteSets

CONSTANTS Calls,    \* the arguments: records of sizes and labels
          Lists,    \* what the replica store may list
          Cap,      \* the number of replicas the store is configured for
          Keyed     \* the replicas whose private key can be read

ASSUME CallsAssumption ==
  \A c \in Calls : c.sizes \in Seq(Int) /\ c.labels \in Seq(STRING)
\* The server starts a test case when as many replicas as it is configured
\* for have registered.
ASSUME ListsAssumption ==
  \A l \in Lists : /\ l \in Seq({l[i] : i \in DOMAIN l})
                   /\ Len(l) = Cap
                   /\ \A i, j \in DOMAIN l : l[i] = l[j] => i = j
ASSUME CapAssumption == Cap \in Nat

VARIABLES sizes, labels,  \* the arguments of the call
          list,           \* the result of allReplicas.Iter()
          pc,             \* where the call is
          next,           \* the next index of the loop
          totSize,
          curIndex,
          parts           \* parts[i]: the two sets of a ReplicaSet

vars == << sizes, labels, list, pc, next, totSize, curIndex, parts >>

EmptySet == [replicas |-> {}, valAddrs |-> {}]

\* ReplicaSet.Add.  A replica without a readable key is in the set, but its
\* validator address is not.
Add(set, r) ==
  IF r \in set.replicas THEN set
  ELSE [ replicas |-> set.replicas \cup {r},
         valAddrs |-> set.valAddrs \cup ({r} \cap Keyed) ]

Size(set) == Cardinality(set.replicas)

Init ==
  /\ \E c \in Calls : sizes = c.sizes /\ labels = c.labels
  /\ list \in Lists
  /\ pc = "start"
  /\ next = 1
  /\ totSize = 0
  /\ curIndex = 1
  /\ parts = << >>

-----------------------------------------------------------------------------
Fail ==
  /\ pc' = "error"
  /\ UNCHANGED << sizes, labels, list, next, totSize, curIndex, parts >>

CheckLengths ==
  /\ pc = "start"
  /\ IF Len(sizes) # Len(labels)
     THEN Fail
     ELSE /\ pc' = "sizes"
          /\ UNCHANGED << sizes, labels, list, next, totSize, curIndex, parts >>

\* Broken: a part of size 0 is accepted.
AddSizeUnchecked ==
  /\ pc = "sizes" /\ next <= Len(sizes)
  /\ totSize' = totSize + sizes[next]
  /\ parts' = Append(parts, EmptySet)
  /\ next' = next + 1
  /\ UNCHANGED << sizes, labels, list, pc, curIndex >>

AddSize ==
  /\ pc = "sizes"
  /\ next <= Len(sizes)
  /\ IF sizes[next] <= 0
     THEN Fail
     ELSE /\ totSize' = totSize + sizes[next]
          /\ parts' = Append(parts, EmptySet)
          /\ next' = next + 1
          /\ UNCHANGED << sizes, labels, list, pc, curIndex >>

\* Broken: too small a total is accepted.
CheckTotalAtMost ==
  /\ pc = "sizes" /\ next > Len(sizes)
  /\ IF totSize > Cap
     THEN Fail
     ELSE /\ pc' = "deal" /\ next' = 1
          /\ UNCHANGED << sizes, labels, list, totSize, curIndex, parts >>

CheckTotal ==
  /\ pc = "sizes"
  /\ next > Len(sizes)
  /\ IF totSize # Cap
     THEN Fail
     ELSE /\ pc' = "deal"
          /\ next' = 1
          /\ UNCHANGED << sizes, labels, list, totSize, curIndex, parts >>

\* An index outside parts is a panic.
AddTo(k) ==
  IF k \in DOMAIN parts
  THEN /\ parts' = [parts EXCEPT ![k] = Add(@, list[next])]
       /\ next' = next + 1
       /\ pc' = pc
  ELSE /\ pc' = "panic"
       /\ UNCHANGED << next, parts >>

Deal ==
  /\ pc = "deal"
  /\ next <= Len(list)
  /\ curIndex' = IF curIndex \in DOMAIN parts /\ Size(parts[curIndex]) >= sizes[curIndex]
                 THEN curIndex + 1 ELSE curIndex
  /\ AddTo(curIndex')
  /\ UNCHANGED << sizes, labels, list, totSize >>

\* NewPartition files the parts under their labels.  The labels of a call are
\* distinct, as in every call there is; of two parts with one label the later
\* would replace the earlier one.
Return ==
  /\ pc = "deal"
  /\ next > Len(list)
  /\ pc' = "done"
  /\ UNCHANGED << sizes, labels, list, next, totSize, curIndex, parts >>

Next == CheckLengths \/ AddSize \/ CheckTotal \/ Deal \/ Return

Spec == Init /\ [][Next]_vars /\ WF_vars(Next)

-----------------------------------------------------------------------------
TypeOK ==
  /\ pc \in {"start", "sizes", "deal", "done", "error", "panic"}
  /\ next \in Nat \ {0} /\ curIndex \in Nat \ {0} /\ totSize \in Nat
  /\ parts \in Seq([ replicas : SUBSET {list[i] : i \in DOMAIN list},
                     valAddrs : SUBSET {list[i] : i \in DOMAIN list} ])

\* Every replica is dealt to exactly one part and every part has the size that
\* was asked for, so the faulty part never has more than f replicas.
\* (The loop of CreatePartition, whose else branch adds without a check.)
ExactPartition ==
  pc = "done" =>
    /\ \A i \in DOMAIN sizes : Size(parts[i]) = sizes[i]
    /\ \A i, j \in DOMAIN parts : i # j => parts[i].replicas \cap parts[j].replicas = {}
    /\ UNION { parts[i].replicas : i \in DOMAIN parts } = { list[i] : i \in DOMAIN list }

\* The loop never runs past the last part, because the total was checked.
NoPanic == pc # "panic"

\* The call returns, with a partition or with an error.
Returns == <>(pc \in {"done", "error"})

-----------------------------------------------------------------------------
(***************************************************************************)
(* The loop invariants.  Before(k) is the total size of the parts before   *)
(* part k, written as the number of places they offer rather than as a sum *)
(* over the list, which would be recursive and out of a proof's reach.     *)
(***************************************************************************)
Places(k) == UNION { {i} \X (1..sizes[i]) : i \in 1..k-1 }
Before(k) == Cardinality(Places(k))

SizesInv ==
  /\ next \in 1..Len(sizes)+1 /\ curIndex = 1
  /\ Len(parts) = next - 1
  /\ totSize = Before(next)
  /\ \A i \in 1..next-1 : sizes[i] > 0 /\ parts[i] = EmptySet

\* The parts before the current one are full, the next - 1 replicas dealt so
\* far are in the parts up to it, each in one.
DealInv ==
  /\ Len(parts) = Len(sizes) /\ Before(Len(sizes) + 1) = Cap
  /\ \A i \in DOMAIN parts : sizes[i] > 0 /\ IsFiniteSet(parts[i].replicas)
  /\ next \in 1..Cap+1
  /\ Cap > 0 => curIndex \in DOMAIN parts /\ next - 1 <= Before(curIndex + 1)
  /\ \A i \in DOMAIN parts :
       Size(parts[i]) = IF i < curIndex THEN sizes[i]
                        ELSE IF i = curIndex THEN next - 1 - Before(i) ELSE 0
  /\ \A i \in DOMAIN parts : parts[i].replicas \subseteq { list[k] : k \in 1..next-1 }
  /\ \A k \in 1..next-1 : \E i \in DOMAIN parts : list[k] \in parts[i].replicas
  /\ \A i, j \in DOMAIN parts : i # j => parts[i].replicas \cap parts[j].replicas = {}

IInv ==
  /\ TypeOK
  /\ list \in Lists /\ sizes \in Seq(Int)
  /\ pc = "start" => next = 1 /\ curIndex = 1 /\ totSize = 0 /\ parts = << >>
  /\ pc = "sizes" => SizesInv
  /\ pc \in {"deal", "done"} => DealInv
  /\ pc = "done" => next = Cap + 1
  /\ NoPanic
==============================================================================
