---------------------------- MODULE RoundSkipProofs ----------------------------
(***************************************************************************)
(* What RoundSkip.tla claims, for every number of faults, every set of     *)
(* replicas, blocks and rounds, and every pattern of forwarding.  What a   *)
(* claim needs besides, that the run starts at the height under test or    *)
(* that the keys of the faulty replicas can be read, it says.              *)
(***************************************************************************)
EXTENDS RoundSkip, TendermintReplicasProofs

-----------------------------------------------------------------------------
(***************************************************************************)
(* Counting: neither the replicas of rest alone, nor h and the faulty      *)
(* ones, are a quorum.                                                     *)
(***************************************************************************)
LEMMA PartsFinite ==
  /\ IsFiniteSet(Rest) /\ IsFiniteSet(Faulty) /\ IsFiniteSet({H} \cup Faulty)
  /\ Cardinality({H} \cup Faulty) = F + 1
<1>1. IsFiniteSet(Rest) /\ IsFiniteSet(Faulty)
  BY FS_Subset, FAssumption, PartitionAssumption
<1>2. H \notin Faulty
  BY PartitionAssumption
<1>3. {H} \cup Faulty = Faulty \cup {H}
  OBVIOUS
<1>4. QED
  BY <1>1, <1>2, <1>3, FS_AddElement, PartitionAssumption

LEMMA RestNoQuorum ==
  ASSUME NEW S, S \subseteq Rest PROVE ~ Quorum(S)
<1>1. Cardinality(S) \in Nat /\ Cardinality(S) <= 2 * F
  BY PartsFinite, FS_Subset, FS_CardinalityType, PartitionAssumption
<1>2. QED
  BY <1>1, FAssumption DEF Quorum

LEMMA FewNoQuorum ==
  ASSUME NEW S, S \subseteq {H} \cup Faulty PROVE ~ Quorum(S)
<1>1. Cardinality(S) \in Nat /\ Cardinality(S) <= F + 1
  BY PartsFinite, FS_Subset, FS_CardinalityType
<1>2. QED
  BY <1>1, FAssumption DEF Quorum

-----------------------------------------------------------------------------
(***************************************************************************)
(* The inductive invariant implies the properties.                         *)
(***************************************************************************)
LEMMA IInvNoPolka == IInv => NoPolkaForRest
<1> SUFFICES ASSUME IInv, ~ Released,
                    NEW p \in Rest, NEW r \in 0..Round-1, NEW b \in Blocks
             PROVE  ~ Polka(p, Height, r, b)
  BY DEF NoPolkaForRest
<1> DEFINE S == Voters(Known(p), Prevote, Height, r, b)
<1>1. ASSUME NEW q \in S PROVE q \in Rest
  <2>1. PICK v \in Known(p) : /\ v.type = Prevote /\ v.height = Height
                              /\ v.round = r /\ v.block = b /\ v.val = q
    BY <1>1 DEF Voters
  <2>2. q \in Replicas /\ p \in Replicas
    BY <1>1, PartitionAssumption DEF Voters
  <2>3. Targeted(v)
    BY <2>1, TargetAssumption DEF Targeted
  <2>4. CASE v \in inbox[p]
    <3>1. v.val # H /\ (v.val \in Faulty => v.block = Nil)
      BY <2>2, <2>3, <2>4 DEF IInv, SeenHidden
    <3>2. QED
      BY <3>1, <2>1, <2>2, NilAssumption, PartitionAssumption
  <2>5. CASE v \notin inbox[p]
    BY <2>1, <2>5 DEF Known
  <2>6. QED
    BY <2>4, <2>5
<1>2. S \subseteq Rest
  BY <1>1
<1>3. QED
  BY <1>2, RestNoQuorum DEF Polka

LEMMA IInvNoCommit == IInv => NoCommit
<1> SUFFICES ASSUME IInv, NEW r \in 0..Round-1, NEW b \in Blocks
             PROVE  ~ CommitQuorum(Height, r, b)
  BY DEF NoCommit
<1> DEFINE S == Voters(votes, Precommit, Height, r, b)
<1>1. ASSUME NEW q \in S PROVE q \in {H} \cup Faulty
  <2>1. PICK v \in votes : /\ v.type = Precommit /\ v.height = Height
                           /\ v.round = r /\ v.block = b /\ v.val = q
    BY <1>1 DEF Voters
  <2>2. q \notin Rest
    BY <2>1, TargetAssumption DEF IInv, CastHidden
  <2>3. QED
    BY <1>1, <2>2, PartitionAssumption DEF Voters
<1>2. S \subseteq {H} \cup Faulty
  BY <1>1
<1>3. QED
  BY <1>2, FewNoQuorum DEF CommitQuorum

LEMMA GateVerdict == GateInv => VerdictSound
  BY DEF GateInv, VerdictSound

LEMMA IInvHidden == IInv => FaultyVotesHidden
  BY DEF IInv, SeenHidden, FaultyVotesHidden

-----------------------------------------------------------------------------
(***************************************************************************)
(* Type correctness of the pieces the actions share.                       *)
(***************************************************************************)
LEMMA SendStepType ==
  ASSUME TypeOK, NEW from \in Replicas, NEW m,
         m.height \in Nat, m.round \in Nat,
         SendStep(from, HeightRound(m))
  PROVE  /\ state' \in States
         /\ roundCount' \in [Replicas -> Nat]
         /\ curRound' \in Nat
<1> DEFINE hr == HeightRound(m)
<1>1. hr[1] \in Int /\ hr[2] \in Int /\ (hr[2] = m.round \/ hr[2] = -1)
  BY DEF HeightRound
<1>2. CASE HeightReached(hr) \/ HeightAwaited(hr) \/ NoDelayedMessages \/ NoTransition
  BY <1>2 DEF HeightReached, HeightAwaited, NoDelayedMessages, NoTransition, TypeOK, States
<1>3. CASE RoundCounted(from, hr)
  BY <1>1, <1>3, TargetAssumption DEF RoundCounted, TypeOK, States
<1>4. QED
  BY <1>2, <1>3 DEF SendStep

LEMMA ReceiveType ==
  ASSUME TypeOK, NEW D \in SUBSET Msgs, Receive(D)
  PROVE  inbox' \in [Replicas -> SUBSET Votes]
  BY DEF TypeOK, NetTypeOK, Receive, Msgs

LEMMA KnownType ==
  ASSUME TypeOK, NEW p \in Replicas
  PROVE  Known(p) \subseteq Votes
  BY DEF TypeOK, NetTypeOK, Known

LEMMA NilVoteType ==
  ASSUME NEW v \in Votes, NEW p \in Replicas
  PROVE  ChangeVoteToNil(p, v) \in Votes
  BY DEF Votes, ChangeVoteToNil, ChangeVote

LEMMA FallThroughType ==
  ASSUME TypeOK, NEW M \in SUBSET Msgs, FallThrough(M)
  PROVE  inbox' \in [Replicas -> SUBSET Votes] /\ delayed' \subseteq Msgs
<1>1. delayed \cup M \in SUBSET Msgs /\ delayed \subseteq Msgs
  BY DEF TypeOK
<1>2. QED
  BY <1>1, ReceiveType DEF FallThrough

LEMMA CastType ==
  ASSUME TypeOK, NEW p \in Replicas, NEW t \in {Prevote, Precommit}, NEW b \in Casts \cup Precommits, Cast(p, t, b)
  PROVE  votes' \subseteq Votes
<1>1. b \in Blocks \cup {Nil}
  BY CastsAssumption
<1>2. NewVote(t, height[p], round[p], b, p) \in Votes
  BY <1>1 DEF NewVote, Votes, TypeOK, NetTypeOK
<1>3. QED
  BY <1>2 DEF Cast, TypeOK, NetTypeOK

\* The messages the handlers make of a prevote.
LEMMA MessageType ==
  ASSUME TypeOK, NEW from \in Replicas, NEW to \in Replicas, NEW v \in Known(from)
  PROVE  /\ v \in Votes /\ v.height \in Nat /\ v.round \in Nat
         /\ [to |-> to, vote |-> v] \in Msgs
         /\ [to |-> to, vote |-> ChangeVoteToNil(from, v)] \in Msgs
<1>1. v \in Votes
  BY KnownType
<1>2. ChangeVoteToNil(from, v) \in Votes
  BY <1>1, NilVoteType
<1>3. QED
  BY <1>1, <1>2 DEF Msgs, Votes

LEMMA TypeInit == Init => TypeOK
  BY HeightAssumption DEF Init, NetInit, TypeOK, NetTypeOK, States

LEMMA TypeNext == TypeOK /\ [Next]_vars => TypeOK'
<1> SUFFICES ASSUME TypeOK, [Next]_vars PROVE TypeOK'
  OBVIOUS
<1> USE DEF TypeOK, NetTypeOK
<1>1. CASE UNCHANGED vars
  BY <1>1 DEF vars
<1>2. CASE ReplicaStep /\ UNCHANGED testVars
  <2>1. ASSUME NEW p \in Replicas, NEW b \in Casts \cup Precommits, CastPrevote(p, b) \/ CastPrecommit(p, b)
        PROVE  TypeOK'
    <3>1. \E t \in {Prevote, Precommit} : Cast(p, t, b)
      BY <2>1 DEF CastPrevote, CastPrecommit
    <3>2. QED
      BY <1>2, <3>1, CastType DEF Cast, testVars
  <2>2. ASSUME NEW p \in Replicas, NextRound(p) \/ NextHeight(p)
        PROVE  TypeOK'
    BY <1>2, <2>2 DEF NextRound, NextHeight, testVars
  <2>3. QED
    BY <1>2, <2>1, <2>2 DEF ReplicaStep
<1>3. CASE PrevoteEvent
  <2>0. PICK from \in Replicas, to \in Replicas : \E v \in Known(from) :
               \/ PassPrevote(from, to, v)
               \/ NilPrevote(from, to, v)
               \/ NilPrevoteFails(from, to, v)
               \/ HoldPrevote(from, to, v)
    BY <1>3 DEF PrevoteEvent, PrevoteHandled
  <2>1. PICK v \in Known(from) : \/ PassPrevote(from, to, v)
                                \/ NilPrevote(from, to, v)
                                \/ NilPrevoteFails(from, to, v)
                                \/ HoldPrevote(from, to, v)
    BY <2>0
  <2>2. PrevoteSent(from, to, v)
    BY <2>1 DEF PassPrevote, NilPrevote, NilPrevoteFails, HoldPrevote
  <2>3. state' \in States /\ roundCount' \in [Replicas -> Nat] /\ curRound' \in Nat
    BY <2>2, MessageType, SendStepType DEF PrevoteSent
  <2>4. inbox' \in [Replicas -> SUBSET Votes] /\ delayed' \subseteq Msgs
    <3>1. CASE PassPrevote(from, to, v)
      BY <3>1, MessageType, ReceiveType DEF PassPrevote
    <3>2. CASE NilPrevote(from, to, v)
      BY <3>2, MessageType, ReceiveType DEF NilPrevote
    <3>3. CASE NilPrevoteFails(from, to, v)
      BY <3>3, MessageType, FallThroughType DEF NilPrevoteFails
    <3>4. CASE HoldPrevote(from, to, v)
      BY <3>4, MessageType DEF HoldPrevote
    <3>5. QED
      BY <2>1, <3>1, <3>2, <3>3, <3>4
  <2>5. QED
    BY <2>2, <2>3, <2>4 DEF PrevoteSent
<1>4. CASE OtherSend
  <2>1. PICK from \in Replicas, type \in OtherTypes,
             h \in InitialHeight..MaxHeight, r \in 0..MaxRound : SendOther(from, type, h, r)
    BY <1>4 DEF OtherSend
  <2>2. h \in Nat /\ r \in Nat
    BY HeightAssumption, RoundAssumption
  <2>3. state' \in States /\ roundCount' \in [Replicas -> Nat] /\ curRound' \in Nat
    BY <2>1, <2>2, SendStepType DEF SendOther
  <2>4. inbox' \in [Replicas -> SUBSET Votes] /\ delayed' \subseteq Msgs
    BY <2>1, FallThroughType DEF SendOther
  <2>5. QED
    BY <2>1, <2>3, <2>4 DEF SendOther
<1>5. CASE OtherEvent
  BY <1>5 DEF OtherEvent, NoDelayedMessages, States
<1>6. QED
  BY <1>1, <1>2, <1>3, <1>4, <1>5 DEF Next

\* The variables of the model keep their types.
THEOREM TypeCorrect == Spec => []TypeOK
  BY TypeInit, TypeNext, PTL DEF Spec

-----------------------------------------------------------------------------
(***************************************************************************)
(* The network and the store, in every run.                                *)
(***************************************************************************)
LEMMA BaseInit == Init => BaseInv
  BY TypeInit, NetInvInit DEF Init, BaseInv, StoreInv

LEMMA FallThroughEffect ==
  ASSUME BaseInv, NEW M \in SUBSET Msgs, \A m \in M : Genuine(m.vote, Faulty),
         FallThrough(M), UNCHANGED << height, round, votes >>
  PROVE  /\ NetInv(Faulty)' /\ StoreInv'
         /\ \A p \in Replicas : inbox[p] \subseteq inbox'[p]
         /\ \A m \in delayed \ delayed' : Released' /\ m.vote \in inbox'[m.to]
<1>1. /\ \A m \in delayed : Valid(m.vote) /\ Genuine(m.vote, Faulty) /\ Targeted(m.vote)
      /\ \A m \in delayed \cup M : m.to \in Replicas /\ m.vote \in Votes
  BY DEF BaseInv, StoreInv, TypeOK, Msgs
<1>2. CASE state' = "deliverDelayed"
  <2>1. Receive(delayed \cup M) /\ delayed' = {} /\ Released'
    BY <1>2 DEF FallThrough, Released
  <2>2. NetInv(Faulty)' /\ \A p \in Replicas : inbox[p] \subseteq inbox'[p]
    BY <1>1, <2>1, ReceiveKeepsNet DEF BaseInv
  <2>3. \A m \in delayed : m.vote \in inbox'[m.to]
    BY <1>1, <2>1 DEF Receive
  <2>4. QED
    BY <2>1, <2>2, <2>3 DEF StoreInv
<1>3. CASE state' # "deliverDelayed"
  <2>1. Receive(M) /\ delayed' = delayed
    BY <1>3 DEF FallThrough
  <2>2. NetInv(Faulty)' /\ \A p \in Replicas : inbox[p] \subseteq inbox'[p]
    BY <1>1, <2>1, ReceiveKeepsNet DEF BaseInv
  <2>3. StoreInv'
    BY <1>1, <2>1 DEF StoreInv, Genuine
  <2>4. QED
    BY <2>1, <2>2, <2>3
<1>4. QED
  BY <1>2, <1>3

LEMMA PrevoteCases ==
  ASSUME PrevoteEvent
  PROVE  \E from \in Replicas, to \in Replicas : \E v \in Known(from) : PrevoteHandled(from, to, v)
  BY DEF PrevoteEvent, PrevoteHandled

\* One message is received and the store is left alone.
LEMMA DeliverEffect ==
  ASSUME BaseInv, NEW to \in Replicas, NEW v \in Votes, Genuine(v, Faulty),
         Receive({[to |-> to, vote |-> v]}), UNCHANGED << height, round, votes, delayed >>
  PROVE  /\ NetInv(Faulty)' /\ StoreInv'
         /\ \A p \in Replicas : inbox[p] \subseteq inbox'[p]
<1>1. NetInv(Faulty)' /\ \A p \in Replicas : inbox[p] \subseteq inbox'[p]
  BY ReceiveOneKeepsNet DEF BaseInv
<1>2. QED
  BY <1>1 DEF BaseInv, StoreInv, Genuine

LEMMA PrevoteEffect ==
  ASSUME BaseInv, NEW from \in Replicas, NEW to \in Replicas, NEW v \in Known(from),
         PrevoteHandled(from, to, v)
  PROVE  /\ PrevoteSent(from, to, v)
         /\ NetInv(Faulty)' /\ StoreInv'
         /\ \A p \in Replicas : inbox[p] \subseteq inbox'[p]
         /\ \A m \in delayed \ delayed' : Released' /\ m.vote \in inbox'[m.to]
<1>1. PrevoteSent(from, to, v) /\ UNCHANGED << height, round, votes >>
  BY DEF PrevoteHandled, PassPrevote, NilPrevote, NilPrevoteFails, HoldPrevote, PrevoteSent
<1>2. v \in Votes /\ Valid(v) /\ Genuine(v, Faulty)
  BY KnownGenuine DEF BaseInv
<1>3. CASE PassPrevote(from, to, v)
  BY <1>1, <1>2, <1>3, DeliverEffect DEF PassPrevote
<1>4. CASE NilPrevote(from, to, v)
  <2>1. ChangeVoteToNil(from, v) \in Votes /\ Genuine(ChangeVoteToNil(from, v), Faulty)
    BY <1>2, <1>4, ChangedGenuine DEF NilPrevote, ChangeVoteToNil, Genuine
  <2>2. QED
    BY <1>1, <1>4, <2>1, DeliverEffect DEF NilPrevote
<1>5. CASE NilPrevoteFails(from, to, v)
  <2>1. {[to |-> to, vote |-> v]} \in SUBSET Msgs
    BY <1>2 DEF Msgs
  <2>2. \A m \in {[to |-> to, vote |-> v]} : Genuine(m.vote, Faulty)
    BY <1>2
  <2>3. QED
    BY <1>1, <1>5, <2>1, <2>2, FallThroughEffect DEF NilPrevoteFails
<1>6. CASE HoldPrevote(from, to, v)
  <2>1. UNCHANGED << height, round, votes, inbox >> /\ delayed' = delayed \cup {[to |-> to, vote |-> v]}
    BY <1>1, <1>6 DEF HoldPrevote
  <2>2. NetInv(Faulty)'
    BY <2>1, StutterKeepsNet DEF BaseInv
  <2>3. StoreInv'
    BY <1>2, <1>6, <2>1 DEF HoldPrevote, BaseInv, StoreInv, Genuine
  <2>4. QED
    BY <1>1, <2>1, <2>2, <2>3
<1>7. QED
  BY <1>1, <1>3, <1>4, <1>5, <1>6 DEF PrevoteHandled

\* What an event does to the network, the store and the inboxes.
LEMMA EventEffect ==
  ASSUME BaseInv, PrevoteEvent \/ OtherSend \/ OtherEvent
  PROVE  /\ UNCHANGED << height, round, votes >>
         /\ NetInv(Faulty)' /\ StoreInv'
         /\ \A p \in Replicas : inbox[p] \subseteq inbox'[p]
         /\ \A m \in delayed \ delayed' : Released' /\ m.vote \in inbox'[m.to]
<1>1. CASE PrevoteEvent
  BY <1>1, PrevoteCases, PrevoteEffect DEF PrevoteSent
<1>2. CASE OtherSend
  <2>1. FallThrough({}) /\ UNCHANGED << height, round, votes >>
    BY <1>2 DEF OtherSend, SendOther
  <2>2. QED
    BY <2>1, FallThroughEffect
<1>3. CASE OtherEvent
  <2>1. UNCHANGED << height, round, votes, inbox, delayed >>
    BY <1>3 DEF OtherEvent
  <2>2. NetInv(Faulty)'
    BY <2>1, StutterKeepsNet DEF BaseInv
  <2>3. QED
    BY <2>1, <2>2 DEF BaseInv, StoreInv, Genuine
<1>4. QED
  BY <1>1, <1>2, <1>3

LEMMA BaseNext == BaseInv /\ [Next]_vars => BaseInv'
<1> SUFFICES ASSUME BaseInv, [Next]_vars PROVE BaseInv'
  OBVIOUS
<1>1. TypeOK'
  BY TypeNext DEF BaseInv
<1>2. CASE UNCHANGED vars \/ (ReplicaStep /\ UNCHANGED testVars)
  <2>1. ReplicaMoves \/ UNCHANGED << height, round, votes, inbox >>
    BY <1>2, ReplicaStepMoves DEF vars
  <2>2. NetInv(Faulty)' /\ votes \subseteq votes'
    BY <2>1, MovesKeepNet DEF BaseInv
  <2>3. delayed' = delayed
    BY <1>2 DEF vars, testVars
  <2>4. QED
    BY <1>1, <2>2, <2>3 DEF BaseInv, StoreInv, Genuine
<1>3. CASE PrevoteEvent \/ OtherSend \/ OtherEvent
  BY <1>1, <1>3, EventEffect DEF BaseInv
<1>4. QED
  BY <1>2, <1>3 DEF Next

\* What the network and the store satisfy in every run: at whatever height it
\* starts, and whosever keys can be read.
THEOREM BaseInvariance == Spec => []BaseInv
  BY BaseInit, BaseNext, PTL DEF Spec

\* The test case is a network in which only the replicas it calls faulty are
\* Byzantine: it implements ByzantineNetwork.
THEOREM Refinement == Spec => IsByzantineNetwork
<1>1. Init => BN!Init
  BY DEF Init, NetInit, BN!Init
<1>2. BaseInv /\ BaseInv' /\ [Next]_vars => [BN!Cast \/ BN!Deliver]_<< votes, inbox >>
  <2> SUFFICES ASSUME BaseInv, BaseInv', [Next]_vars
               PROVE  BN!Cast \/ BN!Deliver \/ UNCHANGED << votes, inbox >>
    OBVIOUS
  <2>1. CASE UNCHANGED vars
    BY <2>1 DEF vars
  <2>2. CASE ReplicaStep
    <3>1. votes \subseteq votes' /\ UNCHANGED inbox
      BY <2>2, ReplicaStepMoves, MovesKeepNet DEF BaseInv
    <3>2. \A v, w \in votes' : ~ BN!Conflict(v, w)
      BY DEF BaseInv, NetInv, OneVote, BN!Conflict
    <3>3. QED
      BY <3>1, <3>2 DEF BaseInv, NetInv, BN!Cast, BN!Valid, Valid
  <2>3. CASE PrevoteEvent \/ OtherSend \/ OtherEvent
    <3>1. UNCHANGED votes /\ \A p \in Replicas : inbox[p] \subseteq inbox'[p]
      BY <2>3, EventEffect
    <3>2. QED
      BY <3>1 DEF BaseInv, NetInv, NetTypeOK, Genuine, BN!Deliver, BN!Valid, Valid
  <2>4. QED
    BY <2>1, <2>2, <2>3 DEF Next
<1>3. QED
  BY <1>1, <1>2, BaseInvariance, PTL DEF Spec, BN!Spec, IsByzantineNetwork

\* The faulty replicas are too few for two quorums.
LEMMA FewFaulty == Tolerated(Faulty)
<1>1. Cardinality(Replicas) = Cardinality(Faulty) + Cardinality(Rest) + 1
  BY PartitionAssumption, CountParts
<1>2. QED
  BY <1>1, PartitionAssumption, FAssumption DEF Tolerated

\* No two quorums for different values, whoever votes for what.
THEOREM QuorumsAgreeHolds == Spec => []QuorumsAgree
<1>1. BaseInv => QuorumsAgree
  BY FewFaulty, AgreeInv DEF BaseInv
<1>2. QED
  BY <1>1, BaseInvariance, PTL

-----------------------------------------------------------------------------
(***************************************************************************)
(* The gate: the state machine and the positions of the replicas.          *)
(***************************************************************************)
\* Positions only grow.
LEMMA ReachedGrows ==
  ASSUME TypeOK, NEW p \in Replicas, NEW h \in Nat, NEW r \in Nat, Reached(p, h, r),
         \/ UNCHANGED << height, round >>
         \/ \E q \in Replicas : NextRound(q) \/ NextHeight(q)
  PROVE  Reached(p, h, r)'
  BY DEF TypeOK, NetTypeOK, Reached, NextRound, NextHeight

LEMMA ReplicasKeepGate ==
  ASSUME TypeOK, GateInv, UNCHANGED testVars,
         \/ UNCHANGED << height, round >>
         \/ \E q \in Replicas : NextRound(q) \/ NextHeight(q)
  PROVE  GateInv' /\ Released' = Released
<1>1. ASSUME NEW p \in Replicas, Reached(p, Height, Round)
      PROVE  Reached(p, Height, Round)'
  BY <1>1, ReachedGrows, TargetAssumption
<1>2. Released' = Released /\ roundCount' = roundCount /\ curRound' = curRound
  BY DEF testVars, Released
<1>3. QED
  BY <1>1, <1>2 DEF GateInv

\* An event's message tells the truth about how far its sender is.
LEMMA StepKeepsGate ==
  ASSUME TypeOK, GateInv, UNCHANGED << height, round >>,
         NEW from \in Replicas, NEW m,
         m.height \in Nat, m.round \in Nat,
         m.round >= Round => Reached(from, Height, Round),
         SendStep(from, HeightRound(m))
  PROVE  GateInv' /\ (Released => Released')
<1> DEFINE hr == HeightRound(m)
<1>1. hr[2] = m.round \/ hr[2] = -1
  BY DEF HeightRound
<1>2. \A p \in Replicas : Reached(p, Height, Round)' <=> Reached(p, Height, Round)
  BY DEF Reached
<1>3. CASE HeightReached(hr) \/ HeightAwaited(hr)
  BY <1>2, <1>3 DEF HeightReached, HeightAwaited, GateInv, Released
<1>4. CASE RoundCounted(from, hr)
  <2>1. ASSUME NEW p \in Replicas, roundCount'[p] >= Round
        PROVE  Reached(p, Height, Round)
    BY <1>1, <1>4, <2>1, TargetAssumption DEF RoundCounted, GateInv, TypeOK
  <2>2. state' = "deliverDelayed" => \A p \in Replicas : Reached(p, Height, Round)
    BY <1>4, <2>1 DEF RoundCounted
  <2>3. ~ Released /\ (Released' => state' = "deliverDelayed")
    BY <1>4 DEF RoundCounted, Released
  <2>4. curRound' = Round => Released'
    BY <1>4, <2>3 DEF RoundCounted, GateInv, Released
  <2>5. QED
    BY <1>2, <2>1, <2>2, <2>3, <2>4 DEF GateInv
<1>5. CASE NoDelayedMessages \/ NoTransition
  BY <1>2, <1>5 DEF NoDelayedMessages, NoTransition, GateInv, Released
<1>6. QED
  BY <1>3, <1>4, <1>5 DEF SendStep

LEMMA GateInit == Init => GateInv
  BY TargetAssumption DEF Init, NetInit, GateInv, Released

LEMMA PrevoteKeepsGate ==
  ASSUME AtHeight, BaseInv, GateInv, NEW from \in Replicas, NEW to \in Replicas, NEW v \in Known(from),
         PrevoteSent(from, to, v)
  PROVE  GateInv' /\ (Released => Released')
<1>1. v.height \in Nat /\ v.round \in Nat /\ v.height >= InitialHeight
  BY KnownGenuine DEF BaseInv, Genuine, Votes
<1>2. v.round >= Round => Reached(from, Height, Round)
  BY <1>1, TargetAssumption DEF PrevoteSent, MaySend, Reached, AtHeight, BaseInv, TypeOK, NetTypeOK
<1>3. QED
  BY <1>1, <1>2, StepKeepsGate DEF PrevoteSent, BaseInv

LEMMA GateNext == AtHeight /\ BaseInv /\ GateInv /\ [Next]_vars => GateInv' /\ (Released => Released')
<1> SUFFICES ASSUME AtHeight, BaseInv, GateInv, [Next]_vars PROVE GateInv' /\ (Released => Released')
  OBVIOUS
<1>1. CASE UNCHANGED vars
  BY <1>1 DEF vars, GateInv, Released, Reached
<1>2. CASE ReplicaStep /\ UNCHANGED testVars
  <2>1. \/ UNCHANGED << height, round >>
        \/ \E q \in Replicas : NextRound(q) \/ NextHeight(q)
    BY <1>2 DEF ReplicaStep, CastPrevote, CastPrecommit, Cast
  <2>2. QED
    BY <1>2, <2>1, ReplicasKeepGate DEF BaseInv
<1>3. CASE PrevoteEvent
  BY <1>3, PrevoteCases, PrevoteEffect, PrevoteKeepsGate
<1>4. CASE OtherSend
  <2>1. PICK from \in Replicas, type \in OtherTypes,
             h \in InitialHeight..MaxHeight, r \in 0..MaxRound : SendOther(from, type, h, r)
    BY <1>4 DEF OtherSend
  <2>2. h \in Nat /\ r \in Nat /\ h >= Height
    BY HeightAssumption, RoundAssumption DEF AtHeight
  <2>3. r >= Round => Reached(from, Height, Round)
    BY <2>1, <2>2, TargetAssumption DEF SendOther, Reached, BaseInv, TypeOK, NetTypeOK
  <2>4. QED
    BY <2>1, <2>2, <2>3, StepKeepsGate DEF SendOther, BaseInv
<1>5. CASE OtherEvent
  BY <1>5 DEF OtherEvent, NoDelayedMessages, GateInv, Released, Reached
<1>6. QED
  BY <1>1, <1>2, <1>3, <1>4, <1>5 DEF Next

\* Behind the gate every replica is past the skipped rounds, whosever keys can
\* be read.
LEMMA GateInvariance == ASSUME AtHeight PROVE Spec => [](BaseInv /\ GateInv)
<1>1. BaseInv /\ GateInv /\ [Next]_vars => GateInv'
  BY GateNext
<1>2. QED
  BY <1>1, BaseInvariance, GateInit, PTL DEF Spec

\* A passing verdict means that every replica left the skipped rounds.
THEOREM VerdictSoundHolds == ASSUME AtHeight PROVE Spec => []VerdictSound
  BY GateInvariance, GateVerdict, PTL

\* Held prevotes leave the store only for their addressees, and only after
\* every replica left the skipped rounds.
THEOREM ReleaseIsSafeHolds == ASSUME AtHeight PROVE Spec => ReleaseIsSafe
<1> DEFINE Safe == \A m \in delayed \ delayed' :
                     /\ m.vote \in inbox'[m.to]
                     /\ \A p \in Replicas : Reached(p, Height, Round)
<1>1. BaseInv /\ GateInv /\ GateInv' /\ [Next]_vars => [Safe]_vars
  <2> SUFFICES ASSUME BaseInv, GateInv', [Next]_vars PROVE [Safe]_vars
    OBVIOUS
  <2>1. CASE UNCHANGED vars
    BY <2>1
  <2>2. CASE ReplicaStep /\ UNCHANGED testVars
    BY <2>2 DEF testVars
  <2>3. CASE PrevoteEvent \/ OtherSend \/ OtherEvent
    BY <2>3, EventEffect DEF GateInv, Reached
  <2>4. QED
    BY <2>1, <2>2, <2>3 DEF Next
<1>2. QED
  BY <1>1, GateInvariance, PTL DEF Spec, ReleaseIsSafe

-----------------------------------------------------------------------------
(***************************************************************************)
(* What is hidden.                                                         *)
(***************************************************************************)
LEMMA HiddenInit == Init => CastHidden /\ SeenHidden
  BY DEF Init, NetInit, CastHidden, SeenHidden

\* The case in which a test could go wrong without anybody noticing: a replica
\* of rest precommits a block in a round the test case is to skip.
LEMMA CastKeepsHidden ==
  ASSUME IInv, NEW p \in Replicas, NEW b \in Casts \cup Precommits, CastPrevote(p, b) \/ CastPrecommit(p, b)
  PROVE  CastHidden'
<1>1. PICK t \in {Prevote, Precommit} :
        /\ Cast(p, t, b)
        /\ t = Precommit /\ b \in Blocks => Polka(p, height[p], round[p], b)
  BY DEF CastPrevote, CastPrecommit, Prevote, Precommit
<1> DEFINE w == NewVote(t, height[p], round[p], b, p)
<1>2. votes' = votes \cup {w}
  BY <1>1 DEF Cast
<1>3. w.val = p /\ w.type = t /\ w.height = height[p] /\ w.round = round[p] /\ w.block = b
  BY DEF NewVote
<1>4. ASSUME t = Precommit, height[p] = Height, round[p] < Round, b \in Blocks
      PROVE  p \notin Rest
  <2>1. ~ Released
    BY <1>4, TargetAssumption DEF IInv, BaseInv, GateInv, Reached, TypeOK, NetTypeOK
  <2>2. round[p] \in 0..Round-1
    BY <1>4, TargetAssumption DEF IInv, BaseInv, TypeOK, NetTypeOK
  <2>3. QED
    BY <1>1, <1>4, <2>1, <2>2, IInvNoPolka DEF NoPolkaForRest
<1>5. QED
  BY <1>2, <1>3, <1>4 DEF IInv, CastHidden

\* What a replica receives of hidden votes is hidden.
LEMMA ReceiveHidden ==
  ASSUME SeenHidden, NEW D, Receive(D), delayed' \subseteq delayed, Released => Released',
         \A m \in D : Valid(m.vote) /\ Targeted(m.vote)
           => (m.vote.val \in Faulty => m.vote.block = Nil) /\ (m.vote.val = H => Released')
  PROVE  SeenHidden'
<1> SUFFICES ASSUME NEW p \in Replicas, NEW v \in inbox'[p], Targeted(v)
             PROVE  (v.val \in Faulty => v.block = Nil) /\ (v.val = H => Released')
  BY DEF SeenHidden, Targeted
<1>1. CASE v \in inbox[p]
  BY <1>1 DEF SeenHidden
<1>2. CASE \E m \in D : m.vote = v /\ Valid(v)
  BY <1>2
<1>3. QED
  BY <1>1, <1>2 DEF Receive

LEMMA PrevoteKeepsHidden ==
  ASSUME KeysGiven, IInv, Released => Released',
         NEW from \in Replicas, NEW to \in Replicas, NEW v \in Known(from),
         PrevoteHandled(from, to, v)
  PROVE  SeenHidden'
<1>1. /\ Targeted(v) /\ from \notin Faulty => (v.val \in Faulty => v.block = Nil)
      /\ Targeted(v) /\ v.val = H /\ from # H => Released
  BY DEF Known, IInv, SeenHidden
<1>2. v \in Votes
  BY KnownGenuine DEF IInv, BaseInv
<1>3. CASE PassPrevote(from, to, v)
  <2>1. \A m \in {[to |-> to, vote |-> v]} : m.vote = v
    OBVIOUS
  <2>2. Targeted(v) => from \in Rest
    BY <1>3 DEF PassPrevote
  <2>3. QED
    BY <1>1, <1>3, <2>1, <2>2, ReceiveHidden, PartitionAssumption DEF PassPrevote, IInv
<1>4. CASE NilPrevote(from, to, v)
  <2> DEFINE n == ChangeVoteToNil(from, v)
  <2>1. n.val = v.val /\ n.key = from /\ n.block = Nil
    BY <1>2 DEF ChangeVoteToNil, ChangeVote, Votes
  <2>2. Valid(n) => n.block = Nil /\ n.val # H
    BY <1>4, <2>1, PartitionAssumption DEF NilPrevote, Valid
  <2>3. \A m \in {[to |-> to, vote |-> n]} : m.vote = n
    OBVIOUS
  <2> HIDE DEF n
  <2>4. Receive({[to |-> to, vote |-> n]}) /\ delayed' = delayed
    BY <1>4 DEF NilPrevote, n
  <2>5. QED
    BY <2>2, <2>3, <2>4, ReceiveHidden DEF IInv
<1>5. CASE NilPrevoteFails(from, to, v)
  BY <1>5 DEF NilPrevoteFails, CanChangeVote, KeysGiven
<1>6. CASE HoldPrevote(from, to, v)
  BY <1>1, <1>6 DEF HoldPrevote, IInv, SeenHidden, Targeted
<1>7. QED
  BY <1>3, <1>4, <1>5, <1>6 DEF PrevoteHandled

LEMMA FallThroughHidden ==
  ASSUME IInv, Released => Released', FallThrough({})
  PROVE  SeenHidden'
<1>1. CASE state' = "deliverDelayed"
  <2>1. Released' /\ Receive(delayed) /\ delayed' = {}
    BY <1>1 DEF Released, FallThrough
  <2>2. QED
    BY <2>1, ReceiveHidden DEF IInv, SeenHidden
<1>2. CASE state' # "deliverDelayed"
  <2>1. Receive({}) /\ delayed' = delayed
    BY <1>2 DEF FallThrough
  <2>2. QED
    BY <2>1, ReceiveHidden DEF IInv
<1>3. QED
  BY <1>1, <1>2

LEMMA HiddenNext == Deployment /\ IInv /\ [Next]_vars => CastHidden' /\ SeenHidden'
<1> SUFFICES ASSUME Deployment, IInv, [Next]_vars PROVE CastHidden' /\ SeenHidden'
  OBVIOUS
<1>1. Released => Released'
  BY GateNext DEF Deployment, IInv
<1>2. ASSUME UNCHANGED votes PROVE CastHidden'
  BY <1>2 DEF IInv, CastHidden
<1>3. ASSUME UNCHANGED << inbox, delayed >> PROVE SeenHidden'
  BY <1>1, <1>3 DEF IInv, SeenHidden, Targeted
<1>4. CASE UNCHANGED vars
  BY <1>2, <1>3, <1>4 DEF vars
<1>5. CASE ReplicaStep /\ UNCHANGED testVars
  <2>1. ASSUME NEW p \in Replicas, NEW b \in Casts \cup Precommits, CastPrevote(p, b) \/ CastPrecommit(p, b)
        PROVE  CastHidden' /\ SeenHidden'
    BY <1>3, <1>5, <2>1, CastKeepsHidden DEF CastPrevote, CastPrecommit, Cast, testVars
  <2>2. ASSUME NEW p \in Replicas, NextRound(p) \/ NextHeight(p)
        PROVE  CastHidden' /\ SeenHidden'
    BY <1>2, <1>3, <1>5, <2>2 DEF NextRound, NextHeight, testVars
  <2>3. QED
    BY <1>5, <2>1, <2>2 DEF ReplicaStep
<1>6. CASE PrevoteEvent
  <2>1. PICK from \in Replicas, to \in Replicas : \E v \in Known(from) : PrevoteHandled(from, to, v)
    BY <1>6, PrevoteCases
  <2>2. PICK v \in Known(from) : PrevoteHandled(from, to, v)
    BY <2>1
  <2>3. UNCHANGED votes
    BY <2>2, PrevoteEffect DEF IInv, PrevoteSent
  <2>4. QED
    BY <1>1, <1>2, <2>2, <2>3, PrevoteKeepsHidden DEF Deployment
<1>7. CASE OtherSend
  BY <1>1, <1>2, <1>7, FallThroughHidden DEF OtherSend, SendOther
<1>8. CASE OtherEvent
  BY <1>2, <1>3, <1>8 DEF OtherEvent
<1>9. QED
  BY <1>4, <1>5, <1>6, <1>7, <1>8 DEF Next

\* In a run that starts at the height under test, with keyed faulty replicas,
\* the inductive invariant always holds.
THEOREM Invariance == ASSUME Deployment PROVE Spec => []IInv
<1>1. Init => IInv
  BY BaseInit, GateInit, HiddenInit DEF IInv
<1>2. IInv /\ [Next]_vars => IInv'
  BY BaseNext, GateNext, HiddenNext DEF Deployment, IInv
<1>3. QED
  BY <1>1, <1>2, PTL DEF Spec

\* No replica of rest sees a quorum of prevotes in a skipped round before the
\* release, for every F and every pattern of gossip.
THEOREM NoPolkaForRestHolds == ASSUME Deployment PROVE Spec => []NoPolkaForRest
  BY Invariance, IInvNoPolka, PTL

\* No block ever gets a quorum of precommits in a skipped round.
THEOREM NoCommitHolds == ASSUME Deployment PROVE Spec => []NoCommit
  BY Invariance, IInvNoCommit, PTL

\* Nobody else ever counts a faulty replica's prevote for a block.
THEOREM FaultyVotesHiddenHolds == ASSUME Deployment PROVE Spec => []FaultyVotesHidden
  BY Invariance, IInvHidden, PTL
================================================================================
