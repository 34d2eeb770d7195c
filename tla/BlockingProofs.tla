---------------------------- MODULE BlockingProofs ----------------------------
(***************************************************************************)
(* What Blocking.tla claims, for every number of replicas, any number of   *)
(* heights, rounds and blocks, and any pattern of forwarding.              *)
(***************************************************************************)
EXTENDS Blocking, TendermintReplicasProofs

-----------------------------------------------------------------------------
(***************************************************************************)
(* The reasons for the failing state do not go away: heights grow, a round *)
(* starts anew only at the next height, and votes are not taken back.      *)
(***************************************************************************)
LEMMA CommitQuorumStays ==
  ASSUME votes \subseteq votes', NEW h, NEW r, NEW b, CommitQuorum(h, r, b)
  PROVE  CommitQuorum(h, r, b)'
<1> DEFINE S == Voters(votes, Precommit, h, r, b)
           T == Voters(votes', Precommit, h, r, b)
<1>1. S \subseteq T /\ T \subseteq Replicas
  BY DEF Voters
<1>2. Quorum(S)
  BY DEF CommitQuorum
<1> HIDE DEF S, T
<1>3. Quorum(T)
  BY <1>1, <1>2, LargerSet
<1>4. CommitQuorum(h, r, b)' <=> Quorum(T)
  BY DEF CommitQuorum, Voters, Quorum, T
<1>5. QED
  BY <1>3, <1>4

Reason ==
  \/ \E p \in Replicas : round[p] > 0 \/ height[p] > InitialHeight
  \/ \E r \in 0..MaxRound, b \in Blocks : CommitQuorum(InitialHeight, r, b)

\* How a replica's step moves replicas.
LEMMA LateStays ==
  ASSUME NetInv({}), ReplicaMoves, NEW p \in Replicas, round[p] > 0 \/ height[p] > InitialHeight
  PROVE  round'[p] > 0 \/ height'[p] > InitialHeight
<1>1. /\ height \in [Replicas -> Nat] /\ round \in [Replicas -> Nat] /\ InitialHeight \in Nat
      /\ height[p] >= InitialHeight
  BY HeightAssumption DEF NetInv, NetTypeOK
<1>2. PICK q \in Replicas : \/ \E t \in {Prevote, Precommit}, b \in Casts \cup Precommits : Cast(q, t, b)
                            \/ NextRound(q) \/ NextHeight(q)
  BY DEF ReplicaMoves
<1>3. CASE \E t \in {Prevote, Precommit}, b \in Casts \cup Precommits : Cast(q, t, b)
  BY <1>3 DEF Cast
<1>4. CASE NextRound(q)
  BY <1>1, <1>4 DEF NextRound
<1>5. CASE NextHeight(q)
  BY <1>1, <1>5 DEF NextHeight
<1>6. QED
  BY <1>2, <1>3, <1>4, <1>5

LEMMA ReasonStays ==
  ASSUME NetInv({}), Reason, votes \subseteq votes',
         ReplicaMoves \/ UNCHANGED << height, round >>
  PROVE  Reason'
<1>1. ASSUME NEW p \in Replicas, round[p] > 0 \/ height[p] > InitialHeight
      PROVE  round'[p] > 0 \/ height'[p] > InitialHeight
  BY <1>1, LateStays
<1>2. ASSUME NEW r \in 0..MaxRound, NEW b \in Blocks, CommitQuorum(InitialHeight, r, b)
      PROVE  CommitQuorum(InitialHeight, r, b)'
  BY <1>2, CommitQuorumStays
<1>3. QED
  BY <1>1, <1>2 DEF Reason

\* What a replica sends of a later round is a reason, if it sends what it may.
LEMMA LaterRoundIsReason ==
  ASSUME NetInv({}), NEW p \in Replicas, NEW h \in Nat, h >= InitialHeight, NEW r \in Nat, r > 0,
         Reached(p, h, r)
  PROVE  Reason
<1>1. height[p] \in Nat /\ round[p] \in Nat /\ InitialHeight \in Nat
  BY HeightAssumption DEF NetInv, NetTypeOK
<1>2. round[p] > 0 \/ height[p] > InitialHeight
  BY <1>1 DEF Reached
<1>3. QED
  BY <1>2 DEF Reason

LEMMA FailSoundReason == FailSound <=> (state = "failState" => Reason)
  BY DEF FailSound, Reason

LEMMA CommitOrRound1Sound ==
  ASSUME TypeOK, NetInv({}), FailSound, NEW p \in Replicas, NEW h \in Nat, h >= InitialHeight,
         NEW r \in Nat, Reached(p, h, r), CommitOrRound1(r), UNCHANGED << height, round, votes >>
  PROVE  state' \in { "start", "failState" } /\ FailSound'
<1>1. Reason => Reason'
  BY ReasonStays
<1>2. r > 0 => Reason
  BY LaterRoundIsReason
<1>3. /\ state' = "failState" => state = "failState" \/ r > 0
      /\ state' \in { "start", "failState" }
  BY DEF CommitOrRound1, TypeOK
<1>4. state' = "failState" => Reason'
  BY <1>1, <1>2, <1>3, FailSoundReason
<1>5. FailSound' <=> (state' = "failState" => Reason')
  BY DEF FailSound, Reason
<1>6. QED
  BY <1>3, <1>4, <1>5

-----------------------------------------------------------------------------
(***************************************************************************)
(* The steps.                                                              *)
(***************************************************************************)
LEMMA LimitNat == Limit \in Nat
<1>1. N \in Nat
  BY FAssumption, FS_CardinalityType DEF N
<1> HIDE DEF N
<1>2. QED
  BY <1>1 DEF Limit

LEMMA InitKeeps == Init => IInv
<1> SUFFICES ASSUME Init PROVE IInv
  OBVIOUS
<1>1. NetInv({})
  BY NetInvInit DEF Init
<1>2. TypeOK
  BY <1>1, LimitNat DEF Init, NetInv, TypeOK
<1>3. HeldInv
  <2>1. \A p \in Replicas : HeldFor(p) = {} /\ msgCounter[p] = 0
    BY DEF Init, HeldFor
  <2>2. IsFiniteSet(held)
    BY FS_EmptySet DEF Init
  <2>3. \A m \in held : m.vote.type = Prevote /\ m.vote \in votes
    BY DEF Init
  <2>4. QED
    BY <2>1, <2>2, <2>3, FS_EmptySet DEF HeldInv
<1>4. FailSound
  BY DEF Init, FailSound
<1>5. QED
  BY <1>1, <1>2, <1>3, <1>4 DEF IInv

LEMMA ReplicaStepKeeps ==
  ASSUME IInv, ReplicaStep, UNCHANGED testVars
  PROVE  IInv' /\ votes \subseteq votes' /\ UNCHANGED << inbox, held >>
<1>1. NetInv({})' /\ votes \subseteq votes' /\ UNCHANGED inbox /\ ReplicaMoves
  BY ReplicaStepMoves, MovesKeepNet DEF IInv
<1>2. UNCHANGED << state, msgCounter, held >>
  BY DEF testVars
<1>3. TypeOK'
  BY <1>1, <1>2 DEF IInv, NetInv, TypeOK, Limit, N
<1>4. HeldInv'
  BY <1>1, <1>2 DEF IInv, HeldInv, HeldFor
<1>5. FailSound'
  <2>1. Reason => Reason'
    BY <1>1, ReasonStays DEF IInv
  <2>2. FailSound' <=> (state' = "failState" => Reason')
    BY DEF FailSound, Reason
  <2>3. QED
    BY <1>2, <2>1, <2>2, FailSoundReason DEF IInv
<1>6. QED
  BY <1>1, <1>2, <1>3, <1>4, <1>5 DEF IInv

\* What the filter makes of a prevote.
LEMMA PrevoteEffect ==
  ASSUME IInv, NEW from \in Replicas, NEW v \in Known(from), NEW to \in Replicas, PrevoteSent(from, to, v)
  PROVE  /\ v \in Votes /\ v \in votes /\ Valid(v) /\ v.type = Prevote /\ Genuine(v, {})
         /\ state' \in { "start", "failState" } /\ FailSound'
         /\ UNCHANGED << height, round, votes >>
<1>1. v \in Votes /\ Valid(v) /\ Genuine(v, {})
  BY KnownGenuine DEF IInv
<1>2. v \in votes /\ v.height \in Nat /\ v.height >= InitialHeight /\ v.round \in Nat
  BY <1>1 DEF Genuine, Votes
<1>3. /\ v.type = Prevote /\ Reached(from, v.height, v.round) /\ CommitOrRound1(v.round)
      /\ UNCHANGED << height, round, votes >>
  BY DEF PrevoteSent, MaySend
<1>4. state' \in { "start", "failState" } /\ FailSound'
  BY <1>2, <1>3, CommitOrRound1Sound DEF IInv
<1>5. QED
  BY <1>1, <1>2, <1>3, <1>4

\* The counter of a replica grows with what is held for it.
LEMMA HoldKeeps ==
  ASSUME IInv, NEW from \in Replicas, NEW v \in Known(from), NEW to \in Replicas, HoldPrevote(from, to, v)
  PROVE  IInv' /\ UNCHANGED << votes, inbox >> /\ held \subseteq held'
<1> DEFINE m == [to |-> to, vote |-> v]
<1>1. /\ PrevoteSent(from, to, v) /\ msgCounter[to] < Limit /\ UNCHANGED inbox
      /\ msgCounter' = [msgCounter EXCEPT ![to] = @ + 1]
      /\ held' = held \cup {m}
  BY DEF HoldPrevote
<1>2. /\ v \in Votes /\ v \in votes /\ v.type = Prevote
      /\ state' \in { "start", "failState" } /\ FailSound'
      /\ UNCHANGED << height, round, votes >>
  BY <1>1, PrevoteEffect
<1>3. m \in Msgs /\ m.to = to /\ m.vote = v
  BY <1>2 DEF Msgs
<1> HIDE DEF m
<1>4. NetInv({})'
  BY <1>1, <1>2, StutterKeepsNet DEF IInv
<1>5. TypeOK'
  <2>1. msgCounter' \in [Replicas -> 0..Limit]
    BY <1>1, LimitNat DEF IInv, TypeOK
  <2>2. Limit' = Limit
    BY DEF Limit, N
  <2> HIDE DEF Limit
  <2>3. QED
    BY <1>1, <1>2, <1>3, <1>4, <2>1, <2>2 DEF IInv, NetInv, TypeOK
<1>6. HeldInv'
  <2>1. IsFiniteSet(held')
    BY <1>1, FS_AddElement DEF IInv, HeldInv
  <2>2. \A x \in held' : x.vote.type = Prevote /\ x.vote \in votes'
    BY <1>1, <1>2, <1>3 DEF IInv, HeldInv
  <2>3. \A p \in Replicas \ {to} : HeldFor(p)' = HeldFor(p)
    BY <1>1, <1>3 DEF HeldFor
  <2>4. HeldFor(to)' \subseteq HeldFor(to) \cup {m}
    BY <1>1 DEF HeldFor
  <2>5. IsFiniteSet(HeldFor(to)) /\ Cardinality(HeldFor(to)) \in Nat
    <3>1. HeldFor(to) \subseteq held /\ IsFiniteSet(held)
      BY DEF HeldFor, IInv, HeldInv
    <3>2. QED
      BY <3>1, FS_Subset, FS_CardinalityType
  <2>6. Cardinality(HeldFor(to)') \in Nat /\ Cardinality(HeldFor(to)') <= Cardinality(HeldFor(to)) + 1
    BY <2>4, <2>5, OneMoreAtMost
  <2>7. /\ msgCounter[to] \in Nat /\ msgCounter'[to] = msgCounter[to] + 1
        /\ \A p \in Replicas \ {to} : msgCounter'[p] = msgCounter[p]
    BY <1>1, LimitNat DEF IInv, TypeOK
  <2>8. \A p \in Replicas : Cardinality(HeldFor(p)') <= msgCounter'[p]
    BY <2>3, <2>5, <2>6, <2>7 DEF IInv, HeldInv
  <2>9. QED
    BY <2>1, <2>2, <2>8 DEF HeldInv
<1>7. QED
  BY <1>1, <1>2, <1>4, <1>5, <1>6 DEF IInv

LEMMA PassKeeps ==
  ASSUME IInv, NEW from \in Replicas, NEW v \in Known(from), NEW to \in Replicas, PassPrevote(from, to, v)
  PROVE  IInv' /\ UNCHANGED << votes, held >> /\ \A p \in Replicas : inbox[p] \subseteq inbox'[p]
<1>1. /\ PrevoteSent(from, to, v) /\ Receive({[to |-> to, vote |-> v]})
      /\ UNCHANGED << msgCounter, held >>
  BY DEF PassPrevote
<1>2. /\ v \in Votes /\ Genuine(v, {})
      /\ state' \in { "start", "failState" } /\ FailSound'
      /\ UNCHANGED << height, round, votes >>
  BY <1>1, PrevoteEffect
<1>3. NetInv({})' /\ \A p \in Replicas : inbox[p] \subseteq inbox'[p]
  BY <1>1, <1>2, ReceiveOneKeepsNet DEF IInv
<1>4. TypeOK' /\ HeldInv'
  BY <1>1, <1>2, <1>3 DEF IInv, NetInv, TypeOK, Limit, N, HeldInv, HeldFor
<1>5. QED
  BY <1>1, <1>2, <1>3, <1>4 DEF IInv

LEMMA SendOtherKeeps ==
  ASSUME IInv, NEW p \in Replicas, NEW h \in InitialHeight..MaxHeight, NEW r \in 0..MaxRound, SendOther(p, h, r)
  PROVE  IInv' /\ UNCHANGED votes /\ \A q \in Replicas : inbox[q] \subseteq inbox'[q]
<1>1. /\ Reached(p, h, r) /\ CommitOrRound1(r) /\ Receive(held) /\ held' = {}
      /\ UNCHANGED << height, round, votes, msgCounter >>
  BY DEF SendOther, DeliverDelayed
<1>2. h \in Nat /\ h >= InitialHeight /\ r \in Nat
  BY HeightAssumption, RoundAssumption
<1>3. state' \in { "start", "failState" } /\ FailSound'
  BY <1>1, <1>2, CommitOrRound1Sound DEF IInv
<1>4. \A m \in held : m.vote \in Votes /\ Genuine(m.vote, {})
  BY DEF IInv, NetInv, NetTypeOK, HeldInv, Genuine
<1>5. NetInv({})' /\ \A q \in Replicas : inbox[q] \subseteq inbox'[q]
  BY <1>1, <1>4, ReceiveKeepsNet DEF IInv
<1>6. TypeOK'
  BY <1>1, <1>3, <1>5 DEF IInv, NetInv, TypeOK, Limit, N
<1>7. HeldInv'
  <2>1. \A q \in Replicas : HeldFor(q)' = {} /\ msgCounter'[q] >= 0
    BY <1>1, LimitNat DEF HeldFor, IInv, TypeOK
  <2>2. IsFiniteSet(held')
    BY <1>1, FS_EmptySet
  <2>3. QED
    BY <1>1, <2>1, <2>2, FS_EmptySet DEF HeldInv
<1>8. QED
  BY <1>1, <1>3, <1>5, <1>6, <1>7 DEF IInv

LEMMA CommitEventKeeps ==
  ASSUME IInv, NEW p \in Replicas, CommitEvent(p)
  PROVE  IInv' /\ UNCHANGED << votes, inbox, held >>
<1>1. /\ \E r \in 0..MaxRound, b \in Blocks : CommitQuorum(height[p], r, b)
      /\ state' = "failState"
      /\ UNCHANGED << height, round, votes, inbox, msgCounter, held >>
  BY DEF CommitEvent
<1>2. NetInv({})'
  BY <1>1, StutterKeepsNet DEF IInv
<1>3. TypeOK' /\ HeldInv'
  BY <1>1, <1>2 DEF IInv, NetInv, TypeOK, Limit, N, HeldInv, HeldFor
<1>4. Reason
  <2>1. height[p] \in Nat /\ InitialHeight \in Nat /\ height[p] >= InitialHeight
    BY HeightAssumption DEF IInv, NetInv, NetTypeOK
  <2>2. height[p] = InitialHeight \/ height[p] > InitialHeight
    BY <2>1
  <2>3. QED
    BY <1>1, <2>2 DEF Reason
<1>5. FailSound'
  BY <1>1, <1>4, ReasonStays DEF IInv, FailSound, Reason
<1>6. QED
  BY <1>1, <1>2, <1>3, <1>5 DEF IInv

LEMMA TestEventCases ==
  ASSUME TestEvent
  PROVE  \/ \E from \in Replicas, to \in Replicas : \E v \in Known(from) :
              HoldPrevote(from, to, v) \/ PassPrevote(from, to, v)
         \/ \E p \in Replicas, h \in InitialHeight..MaxHeight, r \in 0..MaxRound : SendOther(p, h, r)
         \/ \E p \in Replicas : CommitEvent(p)
  BY DEF TestEvent

LEMMA TestEventKeeps ==
  ASSUME IInv, TestEvent
  PROVE  IInv' /\ UNCHANGED votes /\ \A p \in Replicas : inbox[p] \subseteq inbox'[p]
  BY TestEventCases, HoldKeeps, PassKeeps, SendOtherKeeps, CommitEventKeeps

LEMMA NextKeeps == IInv /\ [Next]_vars => IInv'
<1> SUFFICES ASSUME IInv, [Next]_vars PROVE IInv'
  OBVIOUS
<1>1. CASE UNCHANGED vars
  <2>1. NetInv({})'
    BY <1>1, StutterKeepsNet DEF IInv, vars
  <2>2. QED
    BY <1>1, <2>1
    DEF vars, IInv, NetInv, TypeOK, Limit, N, HeldInv, HeldFor, FailSound, CommitQuorum, Voters, Quorum
<1>2. CASE ReplicaStep /\ UNCHANGED testVars
  BY <1>2, ReplicaStepKeeps
<1>3. CASE TestEvent
  BY <1>3, TestEventKeeps
<1>4. QED
  BY <1>1, <1>2, <1>3 DEF Next

-----------------------------------------------------------------------------
\* The store holds prevotes that were cast, never more to a replica than its
\* counter says, and that one stops at n/3 + 1.
THEOREM Invariance == Spec => []IInv
  BY InitKeeps, NextKeeps, PTL DEF Spec

\* The test case fails only if a replica left the first round or 2F+1 of them
\* precommitted a block: the reason outlives the rounds and heights after it.
THEOREM FailSoundHolds == Spec => []FailSound
<1>1. IInv => FailSound
  BY DEF IInv
<1>2. QED
  BY <1>1, Invariance, PTL

\* The test case delays and reorders, and makes up nothing: it implements
\* ByzantineNetwork with nobody Byzantine.
THEOREM Refinement == Spec => IsHonestNetwork
<1>1. Init => BN!Init
  BY DEF Init, NetInit, BN!Init
<1>2. IInv /\ IInv' /\ [Next]_vars => [BN!Cast \/ BN!Deliver]_<< votes, inbox >>
  <2> SUFFICES ASSUME IInv, IInv', [Next]_vars
               PROVE  BN!Cast \/ BN!Deliver \/ UNCHANGED << votes, inbox >>
    OBVIOUS
  <2>1. CASE UNCHANGED vars
    BY <2>1 DEF vars
  <2>2. CASE ReplicaStep /\ UNCHANGED testVars
    <3>1. votes \subseteq votes' /\ UNCHANGED inbox
      BY <2>2, ReplicaStepKeeps
    <3>2. \A v, w \in votes' : ~ BN!Conflict(v, w)
      BY DEF IInv, NetInv, OneVote, BN!Conflict
    <3>3. QED
      BY <3>1, <3>2 DEF IInv, NetInv, BN!Cast, BN!Valid, Valid
  <2>3. CASE TestEvent
    <3>1. UNCHANGED votes /\ \A p \in Replicas : inbox[p] \subseteq inbox'[p]
      BY <2>3, TestEventKeeps
    <3>2. QED
      BY <3>1 DEF IInv, NetInv, NetTypeOK, Genuine, BN!Deliver, BN!Valid, Valid
  <2>4. QED
    BY <2>1, <2>2, <2>3 DEF Next
<1>3. QED
  BY <1>1, <1>2, Invariance, PTL DEF Spec, BN!Spec, IsHonestNetwork

\* With at most 3F+1 replicas no two quorums are for different values.
THEOREM QuorumsAgreeHolds ==
  ASSUME Cardinality(Replicas) <= 3 * F + 1
  PROVE  Spec => []QuorumsAgree
<1>1. Tolerated({})
  BY FS_EmptySet, FAssumption DEF Tolerated
<1>2. IInv => QuorumsAgree
  BY <1>1, AgreeInv DEF IInv
<1>3. QED
  BY <1>2, Invariance, PTL
===============================================================================
