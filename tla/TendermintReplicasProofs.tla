----------------------- MODULE TendermintReplicasProofs -----------------------
(***************************************************************************)
(* Facts about the replicas that the proofs of the test cases share:       *)
(* counting voters, casting votes and receiving them.                      *)
(***************************************************************************)
EXTENDS TendermintReplicas, FiniteSetTheorems, TLAPS

\* One element more makes a finite set larger by one at most.
LEMMA OneMoreAtMost ==
  ASSUME NEW S, NEW T, NEW x, IsFiniteSet(S), T \subseteq S \cup {x}
  PROVE  IsFiniteSet(T) /\ Cardinality(T) \in Nat /\ Cardinality(T) <= Cardinality(S) + 1
<1>1. IsFiniteSet(S \cup {x}) /\ Cardinality(S) \in Nat
  BY FS_AddElement, FS_CardinalityType
<1>2. Cardinality(S \cup {x}) \in Nat /\ Cardinality(S \cup {x}) <= Cardinality(S) + 1
  <2>1. Cardinality(S \cup {x}) = Cardinality(S) \/ Cardinality(S \cup {x}) = Cardinality(S) + 1
    BY FS_AddElement
  <2>2. QED
    BY <1>1, <2>1
<1>3. IsFiniteSet(T) /\ Cardinality(T) <= Cardinality(S \cup {x})
  BY <1>1, FS_Subset
<1>4. QED
  BY <1>1, <1>2, <1>3, FS_CardinalityType

\* Larger sets keep being quorums, and keep intersecting.
LEMMA LargerSet ==
  ASSUME NEW T, T \subseteq Replicas, NEW S, S \subseteq T
  PROVE  /\ Cardinality(S) \in Nat /\ Cardinality(T) \in Nat
         /\ Cardinality(S) <= Cardinality(T)
         /\ Quorum(S) => Quorum(T)
<1>1. IsFiniteSet(T) /\ IsFiniteSet(S)
  BY FAssumption, FS_Subset
<1>2. Cardinality(S) <= Cardinality(T)
  BY <1>1, FS_Subset
<1>3. Cardinality(S) \in Nat /\ Cardinality(T) \in Nat
  BY <1>1, FS_CardinalityType
<1>4. QED
  BY <1>2, <1>3, FAssumption DEF Quorum

\* Two replicas are no quorum, and neither is nobody.
LEMMA PairNoQuorum == ASSUME NEW S, NEW x, NEW y, S \subseteq {x, y} PROVE ~ Quorum(S)
<1>1. IsFiniteSet({x}) /\ Cardinality({x}) = 1
  BY FS_Singleton
<1>2. S \subseteq {x} \cup {y}
  OBVIOUS
<1>3. Cardinality(S) \in Nat /\ Cardinality(S) <= Cardinality({x}) + 1
  BY <1>1, <1>2, OneMoreAtMost
<1>4. QED
  BY <1>1, <1>3, FAssumption DEF Quorum

LEMMA QuorumNotEmpty == ASSUME NEW S, Quorum(S) PROVE \E x : x \in S
<1>1. ASSUME S = {} PROVE FALSE
  BY <1>1, FS_EmptySet, FAssumption DEF Quorum
<1>2. QED
  BY <1>1

-----------------------------------------------------------------------------
\* The receipt of one valid vote by one replica.
LEMMA ReceiveOne ==
  ASSUME NetTypeOK, NEW to \in Replicas, NEW v \in Votes, Valid(v),
         Receive({[to |-> to, vote |-> v]})
  PROVE  /\ inbox' \in [Replicas -> SUBSET Votes]
         /\ inbox'[to] = inbox[to] \cup {v}
         /\ \A p \in Replicas \ {to} : inbox'[p] = inbox[p]
<1> DEFINE New(p) == { w \in { m.vote : m \in { x \in {[to |-> to, vote |-> v]} : x.to = p } } : Valid(w) }
<1>1. inbox' = [p \in Replicas |-> inbox[p] \cup New(p)]
  BY DEF Receive
<1>2. inbox'[to] = inbox[to] \cup {v}
  <2>1. New(to) = {v}
    <3>1. v \in New(to)
      <4> DEFINE e == [to |-> to, vote |-> v]
                 M == { x \in {e} : x.to = to }
      <4>1. e \in M /\ e.vote = v
        OBVIOUS
      <4> HIDE DEF e
      <4>2. v \in { m.vote : m \in M }
        BY <4>1
      <4>3. QED
        BY <4>2 DEF e
    <3>2. \A w \in New(to) : w = v
      OBVIOUS
    <3> HIDE DEF New
    <3>3. QED
      BY <3>1, <3>2
  <2>2. inbox'[to] = inbox[to] \cup New(to)
    BY <1>1
  <2> HIDE DEF New
  <2>3. QED
    BY <2>1, <2>2
<1>3. ASSUME NEW p \in Replicas, p # to
      PROVE  inbox'[p] = inbox[p]
  <2>1. New(p) = {}
    BY <1>3
  <2>2. inbox'[p] = inbox[p] \cup New(p)
    BY <1>1
  <2> HIDE DEF New
  <2>3. QED
    BY <2>1, <2>2
<1>4. inbox' \in [Replicas -> SUBSET Votes]
  <2>1. inbox' = [p \in Replicas |-> inbox'[p]]
    BY <1>1
  <2>2. \A p \in Replicas : inbox'[p] \subseteq Votes
    BY <1>2, <1>3 DEF NetTypeOK
  <2>3. QED
    BY <2>1, <2>2
<1>5. QED
  BY <1>2, <1>3, <1>4

\* The receipt of one vote, valid or not: at most that vote is new.
LEMMA ReceiveAny ==
  ASSUME NetTypeOK, NEW to \in Replicas, NEW v \in Votes,
         Receive({[to |-> to, vote |-> v]})
  PROVE  /\ inbox' \in [Replicas -> SUBSET Votes]
         /\ \A p \in Replicas :
              /\ inbox[p] \subseteq inbox'[p]
              /\ \A w \in inbox'[p] : w \in inbox[p] \/ (w = v /\ Valid(v))
<1>1. \A p \in Replicas :
        /\ inbox[p] \subseteq inbox'[p]
        /\ \A w \in inbox'[p] : w \in inbox[p] \/ (w = v /\ Valid(v))
  BY DEF Receive
<1>2. inbox' = [p \in Replicas |-> inbox'[p]]
  BY DEF Receive
<1>3. \A p \in Replicas : inbox'[p] \subseteq Votes
  BY <1>1 DEF NetTypeOK
<1>4. QED
  BY <1>1, <1>2, <1>3

\* A vote that is cast is new, valid, and of the position of its voter.
LEMMA CastOne ==
  ASSUME NetTypeOK, NEW p \in Replicas, NEW t \in {Prevote, Precommit}, NEW b \in Casts \cup Precommits,
         Cast(p, t, b)
  PROVE  \E w \in Votes :
           /\ Valid(w) /\ votes' = votes \cup {w}
           /\ w.val = p /\ w.type = t /\ w.height = height[p] /\ w.round = round[p] /\ w.block = b
           /\ UNCHANGED << height, round, inbox >>
<1> DEFINE w == NewVote(t, height[p], round[p], b, p)
<1>1. /\ w \in Votes /\ Valid(w)
      /\ w.val = p /\ w.type = t /\ w.height = height[p] /\ w.round = round[p] /\ w.block = b
  BY CastsAssumption DEF NewVote, Votes, Valid, NetTypeOK
<1>2. votes' = votes \cup {w} /\ UNCHANGED << height, round, inbox >>
  BY DEF Cast
<1> HIDE DEF w
<1>3. QED
  BY <1>1, <1>2

-----------------------------------------------------------------------------
(***************************************************************************)
(* Quorums intersect in an honest replica.                                 *)
(***************************************************************************)

\* The replicas, counted by their parts.
LEMMA CountParts ==
  ASSUME NEW x, NEW A, NEW C, Replicas = {x} \cup A \cup C, x \notin A \cup C, A \cap C = {}
  PROVE  Cardinality(Replicas) = Cardinality(A) + Cardinality(C) + 1
<1>1. IsFiniteSet(A) /\ IsFiniteSet(C) /\ IsFiniteSet(A \cup C)
  <2>1. A \subseteq Replicas /\ C \subseteq Replicas /\ A \cup C \subseteq Replicas
    OBVIOUS
  <2>2. QED
    BY <2>1, FAssumption, FS_Subset
<1>2. Cardinality(A \cap C) = 0
  <2>1. Cardinality({}) = 0
    BY FS_EmptySet
  <2>2. QED
    BY <2>1, Zenon
<1>3. Cardinality(A \cup C) = Cardinality(A) + Cardinality(C)
  <2>1. Cardinality(A \cup C) = Cardinality(A) + Cardinality(C) - Cardinality(A \cap C)
    BY <1>1, FS_Union
  <2>2. Cardinality(A) \in Nat /\ Cardinality(C) \in Nat
    BY <1>1, FS_CardinalityType
  <2>3. QED
    BY <1>2, <2>1, <2>2
<1>4. Cardinality((A \cup C) \cup {x}) = Cardinality(A \cup C) + 1
  BY <1>1, FS_AddElement
<1>5. Replicas = (A \cup C) \cup {x}
  OBVIOUS
<1>6. QED
  BY <1>3, <1>4, <1>5

\* At most F of the replicas are in B.
Tolerated(B) == B \subseteq Replicas /\ Cardinality(B) <= F /\ Cardinality(Replicas) <= 3 * F + 1

LEMMA HonestInBoth ==
  ASSUME NEW B, Tolerated(B), NEW S, S \subseteq Replicas, NEW T, T \subseteq Replicas, Quorum(S), Quorum(T)
  PROVE  \E x \in S \cap T : x \notin B
<1> SUFFICES ASSUME S \cap T \subseteq B PROVE FALSE
  OBVIOUS
<1>1. /\ IsFiniteSet(S) /\ IsFiniteSet(T) /\ IsFiniteSet(B)
      /\ IsFiniteSet(S \cup T) /\ IsFiniteSet(S \cap T)
      /\ Cardinality(S \cup T) <= Cardinality(Replicas)
  <2>1. S \cup T \subseteq Replicas /\ S \cap T \subseteq Replicas /\ B \subseteq Replicas
    BY DEF Tolerated
  <2>2. QED
    BY <2>1, FAssumption, FS_Subset
<1>2. Cardinality(S \cup T) = Cardinality(S) + Cardinality(T) - Cardinality(S \cap T)
  BY <1>1, FS_Union
<1>3. Cardinality(S \cap T) <= Cardinality(B)
  BY <1>1, FS_Subset
<1>4. /\ Cardinality(S) \in Nat /\ Cardinality(T) \in Nat /\ Cardinality(B) \in Nat
      /\ Cardinality(S \cup T) \in Nat /\ Cardinality(S \cap T) \in Nat /\ Cardinality(Replicas) \in Nat
  BY <1>1, FAssumption, FS_CardinalityType
<1>5. QED
  BY <1>1, <1>2, <1>3, <1>4, FAssumption DEF Quorum, Tolerated

LEMMA AgreeInv == ASSUME NEW B, Tolerated(B), NetInv(B) PROVE QuorumsAgree
<1> SUFFICES ASSUME NEW t, NEW h, NEW r, NEW p \in Replicas, NEW q \in Replicas, NEW b, NEW c,
                    Quorum(Voters(Known(p), t, h, r, b)), Quorum(Voters(Known(q), t, h, r, c))
             PROVE  b = c
  BY DEF QuorumsAgree
<1>1. PICK x \in Voters(Known(p), t, h, r, b) \cap Voters(Known(q), t, h, r, c) : x \notin B
  BY HonestInBoth DEF Voters
<1>2. PICK v \in Known(p) : v.type = t /\ v.height = h /\ v.round = r /\ v.block = b /\ v.val = x
  BY <1>1 DEF Voters
<1>3. PICK w \in Known(q) : w.type = t /\ w.height = h /\ w.round = r /\ w.block = c /\ w.val = x
  BY <1>1 DEF Voters
<1>4. v \in votes /\ w \in votes
  BY <1>1, <1>2, <1>3 DEF Known, NetInv, Genuine
<1>5. QED
  BY <1>2, <1>3, <1>4 DEF NetInv, OneVote

-----------------------------------------------------------------------------
(***************************************************************************)
(* What keeps NetInv.                                                      *)
(***************************************************************************)
LEMMA NetInvInit == ASSUME NEW B, NetInit PROVE NetInv(B)
  BY HeightAssumption DEF NetInit, NetInv, NetTypeOK, OneVote

\* Replicas vote once, and nothing else they do touches votes or inboxes.
LEMMA CastKeepsNet ==
  ASSUME NEW B, NetInv(B), NEW p \in Replicas, NEW t \in {Prevote, Precommit},
         NEW b \in Casts \cup Precommits, Cast(p, t, b)
  PROVE  NetInv(B)' /\ votes \subseteq votes' /\ UNCHANGED inbox
<1>1. PICK w \in Votes :
        /\ Valid(w) /\ votes' = votes \cup {w}
        /\ w.val = p /\ w.type = t /\ w.height = height[p] /\ w.round = round[p] /\ w.block = b
        /\ UNCHANGED << height, round, inbox >>
  BY CastOne DEF NetInv
<1>2. NetTypeOK'
  BY <1>1 DEF NetInv, NetTypeOK
<1>3. \A v \in votes : ~ (v.val = w.val /\ v.type = w.type /\ v.height = w.height /\ v.round = w.round)
  BY <1>1 DEF Cast
<1>4. OneVote'
  BY <1>1, <1>3 DEF NetInv, OneVote
<1>5. \A v \in votes' : Valid(v) /\ v.height >= InitialHeight
  BY <1>1 DEF NetInv
<1>6. \A q \in Replicas : \A v \in inbox'[q] :
        Valid(v) /\ v.height >= InitialHeight /\ (v \in votes' \/ v.val \in B)
  BY <1>1 DEF NetInv, Genuine
<1>7. QED
  BY <1>1, <1>2, <1>4, <1>5, <1>6 DEF NetInv, Genuine

LEMMA MoveKeepsNet ==
  ASSUME NEW B, NetInv(B), NEW p \in Replicas, NextRound(p) \/ NextHeight(p)
  PROVE  NetInv(B)' /\ UNCHANGED << votes, inbox >>
<1>1. UNCHANGED << votes, inbox >>
  BY DEF NextRound, NextHeight
<1>2. /\ height' \in [Replicas -> Nat] /\ round' \in [Replicas -> Nat]
      /\ \A q \in Replicas : height'[q] >= InitialHeight
  BY HeightAssumption DEF NextRound, NextHeight, NetInv, NetTypeOK
<1>3. QED
  BY <1>1, <1>2 DEF NetInv, NetTypeOK, OneVote, Genuine

LEMMA StutterKeepsNet ==
  ASSUME NEW B, NetInv(B), UNCHANGED << height, round, votes, inbox >>
  PROVE  NetInv(B)'
  BY DEF NetInv, NetTypeOK, OneVote, Genuine

\* A step of a replica: what every step of the test cases' replicas is.
ReplicaMoves ==
  \E p \in Replicas : \/ \E t \in {Prevote, Precommit}, b \in Casts \cup Precommits : Cast(p, t, b)
                      \/ NextRound(p) \/ NextHeight(p)

LEMMA ReplicaStepMoves == ReplicaStep \/ CommittingStep => ReplicaMoves
  BY DEF ReplicaStep, CommittingStep, ReplicaMoves, CastPrevote, CastPrecommit, Commit

LEMMA MovesKeepNet ==
  ASSUME NEW B, NetInv(B), ReplicaMoves \/ UNCHANGED << height, round, votes, inbox >>
  PROVE  NetInv(B)' /\ votes \subseteq votes' /\ UNCHANGED inbox
  BY CastKeepsNet, MoveKeepsNet, StutterKeepsNet DEF ReplicaMoves

\* Of what is received, only genuine votes are counted.
LEMMA ReceiveKeepsNet ==
  ASSUME NEW B, NetInv(B), NEW D, \A m \in D : m.vote \in Votes /\ Genuine(m.vote, B),
         Receive(D), UNCHANGED << height, round, votes >>
  PROVE  NetInv(B)' /\ \A p \in Replicas : inbox[p] \subseteq inbox'[p]
<1> DEFINE New(p) == { v \in { m.vote : m \in { x \in D : x.to = p } } : Valid(v) }
<1>1. inbox' = [p \in Replicas |-> inbox[p] \cup New(p)]
  BY DEF Receive
<1>2. \A p \in Replicas : \A v \in New(p) : v \in Votes /\ Valid(v) /\ Genuine(v, B)
  OBVIOUS
<1> HIDE DEF New
<1>3. \A p \in Replicas : inbox'[p] = inbox[p] \cup New(p)
  BY <1>1
<1>4. inbox' \in [Replicas -> SUBSET Votes]
  <2>1. \A p \in Replicas : inbox[p] \cup New(p) \subseteq Votes
    BY <1>2 DEF NetInv, NetTypeOK
  <2>2. QED
    BY <1>1, <2>1
<1>5. \A p \in Replicas : \A v \in inbox'[p] :
        Valid(v) /\ v.height >= InitialHeight /\ (v \in votes' \/ v.val \in B)
  BY <1>2, <1>3 DEF NetInv, Genuine
<1>6. QED
  BY <1>3, <1>4, <1>5 DEF NetInv, NetTypeOK, OneVote, Genuine

\* A replica only sends what is genuine.
LEMMA KnownGenuine ==
  ASSUME NEW B, NetInv(B), NEW p \in Replicas, NEW v \in Known(p)
  PROVE  v \in Votes /\ Valid(v) /\ Genuine(v, B)
  BY DEF Known, NetInv, NetTypeOK, Genuine

\* ChangeVote forges nobody but who lends his key.
LEMMA ChangedGenuine ==
  ASSUME NEW B, NEW k \in Replicas, k \in B, NEW v \in Votes, v.height >= InitialHeight,
         NEW b \in Blocks \cup {Nil}
  PROVE  ChangeVote(k, v, b) \in Votes /\ Genuine(ChangeVote(k, v, b), B)
  BY DEF ChangeVote, Votes, Genuine, Valid

LEMMA ReceiveOneKeepsNet ==
  ASSUME NEW B, NetInv(B), NEW to \in Replicas, NEW v \in Votes, Genuine(v, B),
         Receive({[to |-> to, vote |-> v]}), UNCHANGED << height, round, votes >>
  PROVE  NetInv(B)' /\ \A p \in Replicas : inbox[p] \subseteq inbox'[p]
<1>1. \A m \in {[to |-> to, vote |-> v]} : m.vote \in Votes /\ Genuine(m.vote, B)
  OBVIOUS
<1>2. QED
  BY <1>1, ReceiveKeepsNet
===============================================================================
