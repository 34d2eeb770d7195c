----------------------- MODULE QuorumIntersectionProofs -----------------------
(***************************************************************************)
(* What QuorumIntersection.tla claims, for every number of faults, every   *)
(* set of replicas and blocks, every height, round and pattern of          *)
(* forwarding.                                                             *)
(***************************************************************************)
EXTENDS QuorumIntersection, TendermintReplicasProofs

-----------------------------------------------------------------------------
(***************************************************************************)
(* The pieces of a step.                                                   *)
(***************************************************************************)
LEMMA QuorumCondType ==
  ASSUME TypeOK, NEW from \in Replicas, NEW v \in Votes, QuorumCond(from, v)
  PROVE  /\ state' \in {"start", "successState", "aborted"}
         /\ recorded' \subseteq Nat \X Values \X Replicas
<1>1. CASE IgnoreVote(from, v)
  BY <1>1 DEF IgnoreVote, TypeOK
<1>2. CASE RecordVote(from, v)
  <2>1. << v.round, v.block, from >> \in Nat \X Values \X Replicas
    BY DEF Votes, Values
  <2>2. recorded' \subseteq Nat \X Values \X Replicas
    BY <1>2, <2>1 DEF RecordVote, TypeOK
  <2>3. FindIntersection(recorded', v.round) \subseteq {"differentQuorum", "intersect", "none"}
    BY DEF FindIntersection, Compare
  <2>4. state' \in {"start", "successState", "aborted"}
    BY <1>2, <2>3 DEF RecordVote, TypeOK
  <2>5. QED
    BY <2>2, <2>4
<1>3. QED
  BY <1>1, <1>2 DEF QuorumCond

-----------------------------------------------------------------------------
(***************************************************************************)
(* Every event has one of two effects: the vote of a faulty validator      *)
(* arrives as a nil vote, or a vote goes through round0, which is another  *)
(* validator's or one that has arrived before.                             *)
(***************************************************************************)
ChangedArrives(to, v) ==
  /\ v.val \in Faulty
  /\ Receive({[to |-> to, vote |-> ChangeVoteToNil(v.val, v)]})
  /\ UNCHANGED delivered

Filtered(to, v) ==
  /\ ~ VoteFromFaulty(v) \/ v \in inbox[to]
  /\ Round0(to, v)

LEMMA EventCases ==
  ASSUME NetInv(Faulty), VoteEvent
  PROVE  \E from \in Replicas, to \in Replicas, v \in Votes :
           /\ Event(from, v)
           /\ << from, to, v.val >> \in Links
           /\ Valid(v) /\ Genuine(v, Faulty)
           /\ ChangedArrives(to, v) \/ Filtered(to, v)
<1>1. PICK from \in Replicas, to \in Replicas :
        \/ \E v \in Known(from) : ChangeFaultyVote(from, to, v) \/ SendVote(from, to, v)
        \/ \E v \in inbox[to] : ReceiveVote(from, to, v)
  BY DEF VoteEvent
<1>2. ASSUME NEW v \in Known(from), ChangeFaultyVote(from, to, v)
      PROVE  Event(from, v) /\ << from, to, v.val >> \in Links /\ ChangedArrives(to, v)
  BY <1>2 DEF ChangeFaultyVote, MaySend, VoteFromFaulty, ChangedArrives
<1>3. ASSUME NEW v \in Known(from), SendVote(from, to, v)
      PROVE  Event(from, v) /\ << from, to, v.val >> \in Links /\ Filtered(to, v)
  BY <1>3 DEF SendVote, MaySend, Filtered
<1>4. ASSUME NEW v \in inbox[to], ReceiveVote(from, to, v)
      PROVE  /\ Event(from, v) /\ << from, to, v.val >> \in Links /\ Filtered(to, v)
             /\ v \in Known(to)
  BY <1>4 DEF ReceiveVote, Filtered, Known
<1>5. \A q \in Replicas : \A v \in Known(q) : v \in Votes /\ Valid(v) /\ Genuine(v, Faulty)
  BY KnownGenuine
<1>6. QED
  BY <1>1, <1>2, <1>3, <1>4, <1>5

-----------------------------------------------------------------------------
(***************************************************************************)
(* The first invariant, and what an event leaves alone.                    *)
(***************************************************************************)
LEMMA VotersFinite ==
  ASSUME NEW p \in Replicas
  PROVE  IsFiniteSet(PrecommitVoters(p)) /\ Cardinality(PrecommitVoters(p)) \in Nat
<1>1. PrecommitVoters(p) \subseteq Replicas
  BY DEF PrecommitVoters
<1>2. QED
  BY <1>1, FAssumption, FS_Subset, FS_CardinalityType

LEMMA LimitType ==
  ASSUME NEW p \in Replicas PROVE Limit(p) \in 0..2*F /\ (p \in Faulty => Limit(p) = 2*F - 1)
  BY FAssumption DEF Limit

\* A vote that arrives makes for one voter more at most.
LEMMA VotersGrow ==
  ASSUME TypeOK, NEW to \in Replicas, NEW v \in Votes, Valid(v),
         Receive({[to |-> to, vote |-> v]})
  PROVE  /\ \A p \in Replicas \ {to} : PrecommitVoters(p)' = PrecommitVoters(p)
         /\ PrecommitVoters(to)' \subseteq PrecommitVoters(to) \cup {v.val}
         /\ (Counted(v) /\ v.block \in Blocks) \/ PrecommitVoters(to)' = PrecommitVoters(to)
<1>1. inbox'[to] = inbox[to] \cup {v} /\ \A p \in Replicas \ {to} : inbox'[p] = inbox[p]
  BY ReceiveOne DEF TypeOK
<1>2. QED
  BY <1>1 DEF PrecommitVoters

LEMMA EventKeeps ==
  ASSUME IInv, VoteEvent
  PROVE  /\ IInv'
         /\ UNCHANGED << height, round, votes >>
         /\ \A p \in Replicas : inbox[p] \subseteq inbox'[p]
<1>1. PICK from \in Replicas, to \in Replicas, v \in Votes :
        /\ Event(from, v) /\ Valid(v) /\ Genuine(v, Faulty)
        /\ ChangedArrives(to, v) \/ Filtered(to, v)
  BY EventCases DEF IInv
<1>2. /\ UNCHANGED << height, round, votes >>
      /\ state' \in {"start", "successState", "aborted"}
      /\ recorded' \subseteq Nat \X Values \X Replicas
  BY <1>1, QuorumCondType DEF Event, IInv
<1>3. /\ delivered' \in [Replicas -> 0..2*F]
      /\ NetInv(Faulty)' /\ \A p \in Replicas : inbox[p] \subseteq inbox'[p]
      /\ \A p \in Replicas : \A w \in inbox'[p] : VoteFromFaulty(w) => w.block = Nil
      /\ CountInv'
  <2>1. CASE ChangedArrives(to, v)
    <3> DEFINE w == ChangeVoteToNil(v.val, v)
    <3>1. w \in Votes /\ w.block = Nil /\ w.val = v.val /\ Valid(w) /\ Genuine(w, Faulty)
      BY <1>1, <2>1 DEF Votes, ChangeVoteToNil, ChangeVote, Valid, ChangedArrives, Genuine
    <3>2. Receive({[to |-> to, vote |-> w]})
      BY <2>1 DEF ChangedArrives
    <3> HIDE DEF w
    <3>3. \A p \in Replicas : PrecommitVoters(p)' = PrecommitVoters(p)
      BY <3>1, <3>2, VotersGrow, NilAssumption DEF IInv
    <3>4. CountInv'
      BY <2>1, <3>3 DEF ChangedArrives, IInv, CountInv
    <3>5. /\ inbox' \in [Replicas -> SUBSET Votes]
          /\ inbox'[to] = inbox[to] \cup {w}
          /\ \A p \in Replicas \ {to} : inbox'[p] = inbox[p]
      BY <3>1, <3>2, ReceiveOne DEF IInv, TypeOK
    <3>6. NetInv(Faulty)' /\ \A p \in Replicas : inbox[p] \subseteq inbox'[p]
      BY <1>2, <3>1, <3>2, ReceiveOneKeepsNet DEF IInv
    <3>7. QED
      BY <2>1, <3>1, <3>4, <3>5, <3>6 DEF ChangedArrives, IInv, TypeOK, VotesInv
  <2>2. CASE Filtered(to, v) /\ Drop(to, v)
    <3>1. UNCHANGED << inbox, delivered >>
      BY <2>2 DEF Drop
    <3>2. NetInv(Faulty)'
      BY <1>2, <3>1, StutterKeepsNet DEF IInv
    <3>3. QED
      BY <3>1, <3>2 DEF IInv, TypeOK, VotesInv, CountInv, PrecommitVoters
  <2>3. CASE Filtered(to, v) /\ (Pass(to, v) \/ CountAndPass(to, v))
    <3>1. Receive({[to |-> to, vote |-> v]})
      BY <2>3 DEF Pass, CountAndPass
    <3>2. /\ inbox' \in [Replicas -> SUBSET Votes]
          /\ inbox'[to] = inbox[to] \cup {v}
          /\ \A p \in Replicas \ {to} : inbox'[p] = inbox[p]
      BY <1>1, <3>1, ReceiveOne DEF IInv, TypeOK
    <3>3. delivered' \in [Replicas -> 0..2*F] /\ CountInv'
      <4>1. CASE Pass(to, v)
        <5>1. \A p \in Replicas : PrecommitVoters(p)' = PrecommitVoters(p)
          BY <1>1, <3>1, <4>1, VotersGrow DEF Pass, IInv
        <5>2. QED
          BY <4>1, <5>1 DEF Pass, IInv, TypeOK, CountInv
      <4>2. CASE CountAndPass(to, v)
        <5>1. delivered' = [delivered EXCEPT ![to] = @ + 1] /\ delivered[to] < Limit(to)
          BY <4>2 DEF CountAndPass
        <5>2. delivered' \in [Replicas -> 0..2*F] /\ \A p \in Replicas : delivered'[p] <= Limit(p)
          BY <5>1, LimitType, FAssumption DEF IInv, TypeOK, CountInv
        <5>3. /\ Cardinality(PrecommitVoters(to)') \in Nat
              /\ Cardinality(PrecommitVoters(to)') <= Cardinality(PrecommitVoters(to)) + 1
          <6>1. PrecommitVoters(to)' \subseteq PrecommitVoters(to) \cup {v.val}
            BY <1>1, <3>1, VotersGrow DEF IInv
          <6>2. QED
            BY <6>1, VotersFinite, OneMoreAtMost
        <5>4. \A p \in Replicas \ {to} : PrecommitVoters(p)' = PrecommitVoters(p)
          BY <1>1, <3>1, VotersGrow DEF IInv
        <5>5. /\ delivered[to] \in Nat /\ delivered'[to] = delivered[to] + 1
              /\ Cardinality(PrecommitVoters(to)) \in Nat
              /\ Cardinality(PrecommitVoters(to)) <= delivered[to]
              /\ \A p \in Replicas \ {to} : delivered'[p] = delivered[p]
          BY <5>1, VotersFinite, FAssumption DEF IInv, TypeOK, CountInv
        <5>6. \A p \in Replicas : Cardinality(PrecommitVoters(p)') <= delivered'[p]
          BY <5>3, <5>4, <5>5 DEF IInv, CountInv
        <5>7. QED
          BY <5>2, <5>6 DEF CountInv, Limit
      <4>3. QED
        BY <2>3, <4>1, <4>2
    <3>4. VoteFromFaulty(v) => v.block = Nil
      BY <2>3 DEF Filtered, IInv, VotesInv
    <3>5. \A p \in Replicas : \A w \in inbox'[p] : VoteFromFaulty(w) => w.block = Nil
      BY <3>2, <3>4 DEF IInv, VotesInv
    <3>6. NetInv(Faulty)' /\ \A p \in Replicas : inbox[p] \subseteq inbox'[p]
      BY <1>1, <1>2, <3>1, ReceiveOneKeepsNet DEF IInv
    <3>7. QED
      BY <3>3, <3>5, <3>6
  <2>4. QED
    BY <1>1, <2>1, <2>2, <2>3 DEF Filtered, Round0
<1>4. QED
  BY <1>2, <1>3 DEF IInv, TypeOK, NetInv, VotesInv, VoteFromFaulty

\* A cast changes nothing of what was received.
LEMMA CastKeeps ==
  ASSUME IInv, NEW p \in Replicas, NEW t \in {Prevote, Precommit}, NEW b \in Casts \cup Precommits,
         Cast(p, t, b), UNCHANGED testVars
  PROVE  IInv'
<1>1. NetInv(Faulty)' /\ UNCHANGED inbox
  BY CastKeepsNet DEF IInv
<1>2. UNCHANGED << state, recorded, delivered >>
  BY DEF testVars
<1>3. QED
  BY <1>1, <1>2 DEF IInv, NetInv, TypeOK, VotesInv, VoteFromFaulty, CountInv, PrecommitVoters

LEMMA MoveKeeps ==
  ASSUME IInv, NEW p \in Replicas, NextRound(p) \/ Commit(p), UNCHANGED testVars
  PROVE  IInv' /\ UNCHANGED << votes, inbox >>
<1>1. NetInv(Faulty)' /\ UNCHANGED << votes, inbox >>
  BY MoveKeepsNet DEF IInv, Commit
<1>2. UNCHANGED << state, recorded, delivered >>
  BY DEF testVars
<1>3. QED
  BY <1>1, <1>2 DEF IInv, NetInv, TypeOK, VotesInv, VoteFromFaulty, CountInv, PrecommitVoters

\* What the replicas do on their own.
LEMMA CommittingCases ==
  ASSUME CommittingStep
  PROVE  \E p \in Replicas :
           \/ \E t \in {Prevote, Precommit}, b \in Casts \cup Precommits : Cast(p, t, b)
           \/ NextRound(p) \/ Commit(p)
  BY DEF CommittingStep, CastPrevote, CastPrecommit

LEMMA InitKeeps == Init => IInv
<1> SUFFICES ASSUME Init PROVE IInv
  OBVIOUS
<1>1. NetInv(Faulty) /\ TypeOK /\ VotesInv
  BY NetInvInit, FAssumption DEF Init, NetInit, NetInv, TypeOK, VotesInv
<1>2. \A p \in Replicas : PrecommitVoters(p) = {}
  BY DEF Init, NetInit, PrecommitVoters
<1>3. CountInv
  BY <1>2, FS_EmptySet, LimitType DEF Init, CountInv
<1>4. QED
  BY <1>1, <1>3 DEF IInv

LEMMA NextKeeps == IInv /\ [Next]_vars => IInv'
<1> SUFFICES ASSUME IInv, [Next]_vars PROVE IInv'
  OBVIOUS
<1>1. CASE UNCHANGED vars
  <2>1. NetInv(Faulty)'
    BY <1>1, StutterKeepsNet DEF vars, IInv
  <2>2. QED
    BY <1>1, <2>1 DEF vars, IInv, NetInv, TypeOK, VotesInv, VoteFromFaulty, CountInv, PrecommitVoters
<1>2. CASE CommittingStep /\ UNCHANGED testVars
  BY <1>2, CommittingCases, CastKeeps, MoveKeeps
<1>3. CASE VoteEvent
  BY <1>3, EventKeeps
<1>4. QED
  BY <1>1, <1>2, <1>3 DEF Next

\* Types, votes and counters, whosever keys can be read.
THEOREM Invariance == Spec => []IInv
<1>1. IInv /\ [Next]_vars => IInv'
  BY NextKeeps
<1>2. QED
  BY <1>1, InitKeeps, PTL DEF Spec

\* Nobody but the voter counts a faulty validator's vote for a block.
THEOREM FaultyVotesHiddenHolds == ASSUME KeysGiven PROVE Spec => []FaultyVotesHidden
<1>1. IInv => FaultyVotesHidden
  BY DEF IInv, VotesInv, VoteFromFaulty, KeysGiven, FaultyVotesHidden
<1>2. QED
  BY <1>1, Invariance, PTL

\* What round0 lets through to a faulty replica, with the replica's own, never
\* makes a quorum of precommits, whatever the other replicas precommit.
THEOREM FaultyNeverCommitsHolds == Spec => []FaultyNeverCommits
<1>1. IInv => FaultyNeverCommits
  <2> SUFFICES ASSUME IInv, NEW p \in Faulty, NEW h \in InitialHeight..MaxHeight, NEW b \in Blocks
               PROVE  ~ KnownCommit(p, h, 0, b)
    BY DEF FaultyNeverCommits
  <2> DEFINE S == Voters(Known(p), Precommit, h, 0, b)
  <2>1. p \in Replicas
    BY PartitionAssumption DEF Setup
  <2>2. S \subseteq PrecommitVoters(p) \cup {p}
    BY DEF Voters, Known, PrecommitVoters, Counted
  <2> HIDE DEF S
  <2>3. Cardinality(S) \in Nat /\ Cardinality(S) <= Cardinality(PrecommitVoters(p)) + 1
    BY <2>1, <2>2, VotersFinite, OneMoreAtMost
  <2>4. /\ Cardinality(PrecommitVoters(p)) \in Nat
        /\ Cardinality(PrecommitVoters(p)) <= delivered[p]
        /\ delivered[p] \in Nat /\ delivered[p] <= 2 * F - 1
    BY <2>1, VotersFinite, LimitType, FAssumption DEF IInv, TypeOK, CountInv
  <2>5. Cardinality(S) <= 2 * F
    BY <2>3, <2>4, FAssumption
  <2>6. QED
    BY <2>3, <2>5, FAssumption DEF KnownCommit, Quorum, S
<1>2. QED
  BY <1>1, Invariance, PTL

-----------------------------------------------------------------------------
(***************************************************************************)
(* The network the replicas see.                                           *)
(***************************************************************************)
\* The test case is a network in which only the replicas it calls faulty are
\* Byzantine, although it holds the keys of others: it implements
\* ByzantineNetwork.
THEOREM Refinement == Spec => IsByzantineNetwork
<1>1. Init => BN!Init
  BY DEF Init, NetInit, BN!Init
<1>2. IInv /\ IInv' /\ [Next]_vars => [BN!Cast \/ BN!Deliver]_<< votes, inbox >>
  <2> SUFFICES ASSUME IInv, IInv', [Next]_vars
               PROVE  BN!Cast \/ BN!Deliver \/ UNCHANGED << votes, inbox >>
    OBVIOUS
  <2>1. CASE UNCHANGED vars
    BY <2>1 DEF vars
  <2>2. CASE CommittingStep
    <3>1. votes \subseteq votes' /\ UNCHANGED inbox
      BY <2>2, ReplicaStepMoves, MovesKeepNet DEF IInv
    <3>2. \A v, w \in votes' : ~ BN!Conflict(v, w)
      BY DEF IInv, NetInv, OneVote, BN!Conflict
    <3>3. QED
      BY <3>1, <3>2 DEF IInv, NetInv, BN!Cast, BN!Valid, Valid
  <2>3. CASE VoteEvent
    <3>1. UNCHANGED votes /\ \A p \in Replicas : inbox[p] \subseteq inbox'[p]
      BY <2>3, EventKeeps
    <3>2. QED
      BY <3>1 DEF IInv, NetInv, NetTypeOK, Genuine, BN!Deliver, BN!Valid, Valid
  <2>4. QED
    BY <2>1, <2>2, <2>3 DEF Next
<1>3. QED
  BY <1>1, <1>2, Invariance, PTL DEF Spec, BN!Spec, IsByzantineNetwork

\* The faulty replicas are too few for two quorums.
LEMMA FewFaulty == Tolerated(Faulty)
<1>1. Cardinality(Replicas) = Cardinality(Faulty) + Cardinality(Rest) + 1
  BY PartitionAssumption, CountParts DEF Setup
<1>2. QED
  BY <1>1, PartitionAssumption, FAssumption DEF Setup, Tolerated

\* No two quorums for different values, whoever votes for what.
THEOREM QuorumsAgreeHolds == Spec => []QuorumsAgree
<1>1. IInv => QuorumsAgree
  BY FewFaulty, AgreeInv DEF IInv
<1>2. QED
  BY <1>1, Invariance, PTL
===============================================================================
