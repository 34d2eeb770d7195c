-------------------------- MODULE LockedValueProofs --------------------------
(***************************************************************************)
(* What LockedValue.tla claims, for every number of faults, every set of   *)
(* replicas and blocks, any number of rounds and any pattern of forwarding.*)
(***************************************************************************)
EXTENDS LockedValue, TendermintReplicasProofs

-----------------------------------------------------------------------------
(***************************************************************************)
(* The invariant implies OnlyHLocks: whose votes a replica can have seen.  *)
(***************************************************************************)
LEMMA RestNoQuorum == ASSUME NEW S, S \subseteq Rest PROVE ~ Quorum(S)
<1>1. Cardinality(S) \in Nat /\ Cardinality(S) <= 2 * F
  BY LargerSet, PartitionAssumption
<1>2. QED
  BY <1>1, FAssumption DEF Quorum

LEMMA OnlyHLocksInv == IInv => OnlyHLocks
<1> SUFFICES ASSUME IInv, NEW b \in Blocks
             PROVE  /\ \A p \in Rest : ~ Polka(p, InitialHeight, 0, b)
                    /\ \A p \in Rest \cup {H} : ~ Polka(p, InitialHeight, 1, b)
  BY DEF OnlyHLocks
<1>1. ASSUME NEW p \in Rest
      PROVE  ~ Polka(p, InitialHeight, 0, b)
  <2> DEFINE S == Voters(Known(p), Prevote, InitialHeight, 0, b)
  <2>1. ASSUME NEW q \in S PROVE q \in Rest
    <3>1. q \in Replicas
      BY DEF Voters
    <3>2. PICK v \in Known(p) : v.type = Prevote /\ v.round = 0 /\ v.block = b /\ v.val = q
      BY DEF Voters
    <3>3. CASE v \in inbox[p]
      BY <3>1, <3>2, <3>3, PartitionAssumption, NilAssumption DEF IInv, SeenInv
    <3>4. QED
      BY <3>2, <3>3 DEF Known
  <2> HIDE DEF S
  <2>2. ~ Quorum(S)
    BY <2>1, RestNoQuorum
  <2>3. QED
    BY <2>2 DEF Polka, S
<1>2. ASSUME NEW p \in Rest \cup {H}
      PROVE  ~ Polka(p, InitialHeight, 1, b)
  <2> DEFINE S == Voters(Known(p), Prevote, InitialHeight, 1, b)
  <2>1. ASSUME NEW q \in S PROVE q \in {H, Proposer[1]}
    <3>1. PICK v \in Known(p) : v.type = Prevote /\ v.round = 1 /\ v.block = b /\ v.val = q
      BY DEF Voters
    <3>2. p \in Replicas /\ p \notin Faulty /\ b # Nil
      BY PartitionAssumption, NilAssumption
    <3>3. v \in votes /\ v.val \notin Faulty
      <4>1. CASE v \in inbox[p]
        BY <3>1, <3>2, <4>1 DEF IInv, BaseInv, NetInv, Genuine, SeenInv
      <4>2. CASE v \in votes /\ v.val = p
        BY <3>2, <4>2
      <4>3. QED
        BY <4>1, <4>2 DEF Known
    <3>4. q \in {H} \cup {Proposer[1]}
      BY <3>1, <3>3 DEF IInv, LockInv
    <3>5. QED
      BY <3>4
  <2> HIDE DEF S
  <2>2. ~ Quorum(S)
    BY <2>1, PairNoQuorum
  <2>3. QED
    BY <2>2 DEF Polka, S
<1>3. QED
  BY <1>1, <1>2

-----------------------------------------------------------------------------
(***************************************************************************)
(* What holds in every run.                                                *)
(***************************************************************************)
LEMMA BaseInit == Init => BaseInv
  BY NetInvInit, FAssumption, HeightAssumption, RoundAssumption
  DEF Init, EnvInit, NetInit, BaseInv, NetInv, TypeOK, EnvTypeOK, PlaceInv, Rounds, Values, States

\* A step of the replicas, by what it does to votes and proposals.
LEMMA LockingCases ==
  ASSUME LockingStep
  PROVE  \E p \in Replicas :
           \/ \E b \in Blocks : Propose(p, b)
           \/ /\ UNCHANGED << proposal, has >>
              /\ \/ \E b \in Casts : PrevoteLocked(p, b)
                 \/ \E b \in Precommits : CastPrecommit(p, b)
                 \/ NextRound(p)
  BY DEF LockingStep

LEMMA LockingMoves ==
  ASSUME LockingStep
  PROVE  ReplicaMoves \/ UNCHANGED << height, round, votes, inbox >>
  BY LockingCases DEF ReplicaMoves, Propose, Make, PrevoteLocked, CastPrevote, CastPrecommit

LEMMA LockingKeepsBase ==
  ASSUME BaseInv, LockingStep, UNCHANGED testVars
  PROVE  BaseInv' /\ votes \subseteq votes' /\ UNCHANGED inbox
<1>1. NetInv(Faulty)' /\ votes \subseteq votes' /\ UNCHANGED inbox
  BY LockingMoves, MovesKeepNet DEF BaseInv
<1>2. UNCHANGED << testcase, state, prevotesSent, roundCount, abort, oldProposal, newProposal, vote >>
  BY DEF testVars, smVars
<1>3. PICK p \in Replicas :
        \/ \E b \in Blocks : Propose(p, b)
        \/ /\ UNCHANGED << proposal, has >>
           /\ \/ \E b \in Casts : PrevoteLocked(p, b)
              \/ \E b \in Precommits : CastPrecommit(p, b)
              \/ NextRound(p)
  BY LockingCases
<1>4. NetTypeOK /\ height[p] = InitialHeight /\ round[p] \in Rounds
  BY RoundAssumption DEF BaseInv, NetInv, NetTypeOK, PlaceInv, Rounds
<1>5. /\ proposal' \in [Rounds -> Values] /\ has' \in [Rounds -> SUBSET Replicas]
      /\ \A q \in Replicas : height'[q] = InitialHeight /\ round'[q] <= MaxRound
      /\ \A v \in votes' : v.height = InitialHeight
  <2>1. CASE \E b \in Blocks : Propose(p, b)
    BY <1>4, <2>1 DEF Propose, Make, BaseInv, TypeOK, EnvTypeOK, PlaceInv, Values
  <2>2. ASSUME NEW t \in {Prevote, Precommit}, NEW b \in Casts \cup Precommits, Cast(p, t, b)
        PROVE  UNCHANGED << height, round >> /\ \A v \in votes' : v.height = InitialHeight
    BY <1>4, <2>2, CastOne DEF BaseInv, PlaceInv
  <2>3. CASE /\ UNCHANGED << proposal, has >>
             /\ (\E b \in Casts : PrevoteLocked(p, b)) \/ (\E b \in Precommits : CastPrecommit(p, b))
    <3>1. \E t \in {Prevote, Precommit}, b \in Casts \cup Precommits : Cast(p, t, b)
      BY <2>3 DEF PrevoteLocked, CastPrevote, CastPrecommit
    <3>2. QED
      BY <2>2, <2>3, <3>1 DEF BaseInv, TypeOK, EnvTypeOK, PlaceInv
  <2>4. CASE NextRound(p) /\ UNCHANGED << proposal, has >>
    BY <1>4, <2>4, RoundAssumption DEF NextRound, BaseInv, TypeOK, EnvTypeOK, NetTypeOK, PlaceInv
  <2>5. QED
    BY <1>3, <2>1, <2>3, <2>4
<1>6. QED
  BY <1>1, <1>2, <1>5 DEF BaseInv, NetInv, TypeOK, EnvTypeOK, PlaceInv

LEMMA SendStepType ==
  ASSUME TypeOK, NEW from \in Replicas, NEW r \in Nat, SendStep(from, r)
  PROVE  /\ state' \in States /\ roundCount' \in [Replicas -> Nat]
         /\ prevotesSent' = prevotesSent
         /\ state' = "start" => state = "start"
  BY DEF SendStep, RoundReached, TypeOK, EnvTypeOK, States, smVars

\* What arrives at a replica through the filters, if the keys are given.
Arrivable(x) ==
  Valid(x) => /\ x.val \in Faulty => x.block = Nil
              /\ ~ (x.val = H /\ x.type = Prevote /\ x.round = 0)

\* Of what a replica sends, nothing or one genuine vote is delivered.
LEMMA VoteEventCases ==
  ASSUME BaseInv, VoteEvent
  PROVE  \E from \in Replicas, to \in Replicas, v \in Votes :
           /\ v \in Known(from) /\ VoteSent(from, to, v)
           /\ \/ UNCHANGED inbox
              \/ \E x \in Votes : /\ Deliver(to, x) /\ Genuine(x, Faulty)
                                  /\ KeysGiven /\ SeenInv => Arrivable(x)
           /\ \/ UNCHANGED << abort, vote >>
              \/ Round1Prevote(from, to, v)
              \/ Round2Prevote(from, to, v)
<1>0. PICK from \in Replicas, to \in Replicas : \E v \in Known(from) :
        \/ FaultyVote(from, to, v) \/ HeldPrevote(from, to, v)
        \/ Round1Prevote(from, to, v) \/ Round2Prevote(from, to, v)
        \/ PassVote(from, to, v)
  BY DEF VoteEvent
<1>1. PICK v \in Known(from) :
        \/ FaultyVote(from, to, v) \/ HeldPrevote(from, to, v)
        \/ Round1Prevote(from, to, v) \/ Round2Prevote(from, to, v)
        \/ PassVote(from, to, v)
  BY <1>0
<1>2. v \in Votes /\ Valid(v) /\ Genuine(v, Faulty)
  BY KnownGenuine DEF BaseInv
<1>3. CASE FaultyVote(from, to, v)
  <2>1. PICK x \in {ChangeVoteToNil(from, v), v} :
          Deliver(to, x) /\ x = IF CanChangeVote(from) THEN ChangeVoteToNil(from, v) ELSE v
    BY <1>3 DEF FaultyVote
  <2>2. from \in Faulty /\ H \notin Faulty /\ VoteSent(from, to, v) /\ UNCHANGED << abort, vote >>
    BY <1>3, PartitionAssumption DEF FaultyVote
  <2>3. ChangeVoteToNil(from, v) \in Votes /\ Genuine(ChangeVoteToNil(from, v), Faulty)
    BY <1>2, <2>2, ChangedGenuine DEF ChangeVoteToNil, Genuine
  <2>4. KeysGiven => Arrivable(x)
    <3>1. KeysGiven => x = ChangeVoteToNil(from, v)
      BY <2>1, <2>2 DEF KeysGiven, CanChangeVote
    <3>2. Arrivable(ChangeVoteToNil(from, v))
      BY <1>2, <2>2 DEF Arrivable, Valid, ChangeVoteToNil, ChangeVote, Votes
    <3>3. QED
      BY <3>1, <3>2
  <2>5. QED
    BY <1>2, <2>1, <2>2, <2>3, <2>4
<1>4. CASE HeldPrevote(from, to, v)
  BY <1>2, <1>4 DEF HeldPrevote
<1>5. ASSUME from \notin Faulty, ~ (from = H /\ v.type = Prevote /\ v.round = 0)
      PROVE  SeenInv => Arrivable(v)
  <2>1. CASE v \in inbox[from]
    BY <2>1 DEF SeenInv, Arrivable
  <2>2. CASE v \in votes /\ v.val = from
    BY <1>5, <2>2 DEF Arrivable
  <2>3. QED
    BY <2>1, <2>2 DEF Known
<1>6. CASE Round1Prevote(from, to, v) \/ Round2Prevote(from, to, v)
  <2>1. from \notin Faulty /\ v.round # 0 /\ Deliver(to, v) /\ VoteSent(from, to, v)
    BY <1>6, PartitionAssumption DEF Round1Prevote, Round2Prevote, OwnPrevote
  <2>2. QED
    BY <1>2, <1>5, <1>6, <2>1
<1>7. CASE PassVote(from, to, v)
  BY <1>2, <1>5, <1>7 DEF PassVote
<1>8. QED
  BY <1>1, <1>3, <1>4, <1>6, <1>7

LEMMA VoteEventKeepsBase ==
  ASSUME BaseInv, VoteEvent, UNCHANGED testcase
  PROVE  /\ BaseInv'
         /\ UNCHANGED << height, round, votes, proposal, has >>
         /\ \A p \in Replicas : inbox[p] \subseteq inbox'[p]
         /\ KeysGiven /\ SeenInv => SeenInv'
<1>1. PICK from \in Replicas, to \in Replicas, v \in Votes :
        /\ v \in Known(from) /\ VoteSent(from, to, v)
        /\ \/ UNCHANGED inbox
           \/ \E x \in Votes : /\ Deliver(to, x) /\ Genuine(x, Faulty)
                               /\ KeysGiven /\ SeenInv => Arrivable(x)
        /\ \/ UNCHANGED << abort, vote >>
           \/ Round1Prevote(from, to, v)
           \/ Round2Prevote(from, to, v)
  BY VoteEventCases
<1>2. /\ UNCHANGED << height, round, votes, proposal, has, oldProposal, newProposal >>
      /\ SendStep(from, v.round)
  BY <1>1 DEF VoteSent, envVars
<1>3. /\ state' \in States /\ roundCount' \in [Replicas -> Nat]
      /\ prevotesSent' = prevotesSent
      /\ state' = "start" => state = "start"
  BY <1>2, SendStepType DEF Votes, BaseInv
<1>4. abort' \in { "no", "notVoted", "sameProposal", "wrongVote" } /\ vote' \in Values
  BY <1>1 DEF Round1Prevote, Round2Prevote, BaseInv, TypeOK, EnvTypeOK, Votes, Values
<1>5. /\ NetInv(Faulty)' /\ \A p \in Replicas : inbox[p] \subseteq inbox'[p]
      /\ KeysGiven /\ SeenInv => SeenInv'
  <2>1. CASE UNCHANGED inbox
    BY <1>2, <2>1, StutterKeepsNet DEF BaseInv, SeenInv
  <2>2. ASSUME NEW x \in Votes, Deliver(to, x), Genuine(x, Faulty), KeysGiven /\ SeenInv => Arrivable(x)
        PROVE  /\ NetInv(Faulty)' /\ \A p \in Replicas : inbox[p] \subseteq inbox'[p]
               /\ KeysGiven /\ SeenInv => SeenInv'
    <3>1. Receive({[to |-> to, vote |-> x]})
      BY <2>2 DEF Deliver
    <3>2. NetInv(Faulty)' /\ \A p \in Replicas : inbox[p] \subseteq inbox'[p]
      BY <1>2, <2>2, <3>1, ReceiveOneKeepsNet DEF BaseInv
    <3>3. \A p \in Replicas : \A w \in inbox'[p] : w \in inbox[p] \/ (w = x /\ Valid(x))
      BY <3>1, ReceiveAny DEF BaseInv, NetInv
    <3>4. QED
      BY <2>2, <3>2, <3>3 DEF SeenInv, Arrivable
  <2>3. QED
    BY <1>1, <2>1, <2>2
<1>6. BaseInv'
  BY <1>2, <1>3, <1>4, <1>5 DEF BaseInv, NetInv, TypeOK, EnvTypeOK, PlaceInv
<1>7. QED
  BY <1>2, <1>5, <1>6

\* The events that deliver no vote.
LEMMA OtherEventsKeepBase ==
  ASSUME BaseInv, TestEvent, UNCHANGED testcase, ~ VoteEvent
  PROVE  /\ BaseInv'
         /\ UNCHANGED << height, round, votes, inbox, proposal >>
         /\ 1 \in Rounds => has'[1] = has[1]
<1>1. ASSUME UNCHANGED << height, round, votes, inbox, proposal >>, TypeOK',
             state' = "start" => prevotesSent' < 2 * F
      PROVE  BaseInv'
  <2>1. NetInv(Faulty)'
    BY <1>1, StutterKeepsNet DEF BaseInv
  <2>2. QED
    BY <1>1, <2>1 DEF BaseInv, PlaceInv
<1>2. CASE ProposalEvent
  <2>1. PICK from \in Replicas, to \in Replicas :
          Round0Proposal(from, to) \/ Round1Proposal(from, to) \/ Round2Proposal(from, to)
    BY <1>2 DEF ProposalEvent
  <2>2. /\ UNCHANGED << height, round, votes, inbox, proposal, vote >>
        /\ \E r \in {0, 1, 2} : SendStep(from, r)
    BY <2>1 DEF ProposalSent, Round0Proposal, Round1Proposal, Round2Proposal
  <2>3. /\ state' \in States /\ roundCount' \in [Replicas -> Nat]
        /\ prevotesSent' = prevotesSent
        /\ state' = "start" => state = "start"
    BY <2>2, SendStepType DEF BaseInv
  <2>4. /\ has' \in [Rounds -> SUBSET Replicas]
        /\ 1 \in Rounds => has'[1] = has[1]
    BY <2>1 DEF Round0Proposal, Round1Proposal, Round2Proposal, BaseInv, TypeOK, EnvTypeOK
  <2>5. /\ abort' \in { "no", "notVoted", "sameProposal", "wrongVote" }
        /\ oldProposal' \in Values /\ newProposal' \in Values
    BY <2>1, RoundAssumption DEF Round0Proposal, Round1Proposal, Round2Proposal, BaseInv, TypeOK, EnvTypeOK, Rounds
  <2>6. TypeOK'
    BY <2>2, <2>3, <2>4, <2>5 DEF BaseInv, TypeOK, EnvTypeOK, NetTypeOK
  <2>7. QED
    BY <1>1, <2>2, <2>3, <2>4, <2>6 DEF BaseInv, PlaceInv
<1>3. ASSUME NEW from \in Replicas, NEW v \in inbox[H], PrevoteReceived(from, v)
      PROVE  BaseInv' /\ UNCHANGED << height, round, votes, inbox, proposal, has >>
  <2>1. /\ UNCHANGED << height, round, votes, inbox, proposal, has, roundCount, abort, oldProposal, newProposal, vote >>
        /\ state = "start" /\ prevotesSent' = prevotesSent + 1
        /\ state' = IF prevotesSent' >= 2 * F THEN "LockedValue" ELSE state
    BY <1>3 DEF PrevoteReceived, envVars
  <2>2. /\ prevotesSent' \in 0..2*F /\ state' \in States
        /\ state' = "start" => prevotesSent' < 2 * F
    BY <2>1, FAssumption DEF BaseInv, TypeOK, EnvTypeOK, PlaceInv, States
  <2>3. TypeOK'
    BY <2>1, <2>2 DEF BaseInv, TypeOK, EnvTypeOK, NetTypeOK
  <2>4. QED
    BY <1>1, <2>1, <2>2, <2>3
<1>4. ASSUME NEW p \in Replicas, Announce(p)
      PROVE  BaseInv' /\ UNCHANGED << height, round, votes, inbox, proposal, has >>
  <2>1. /\ UNCHANGED << height, round, votes, inbox, proposal, has, abort, oldProposal, newProposal, vote >>
        /\ SendStep(p, round[p]) /\ round[p] \in Nat
    BY <1>4 DEF Announce, envVars, BaseInv, TypeOK, EnvTypeOK, NetTypeOK
  <2>2. /\ state' \in States /\ roundCount' \in [Replicas -> Nat]
        /\ prevotesSent' = prevotesSent
        /\ state' = "start" => state = "start"
    BY <2>1, SendStepType DEF BaseInv
  <2>3. TypeOK'
    BY <2>1, <2>2 DEF BaseInv, TypeOK, EnvTypeOK, NetTypeOK
  <2>4. QED
    BY <1>1, <2>1, <2>2, <2>3 DEF BaseInv, PlaceInv
<1>5. ASSUME CommitEvent
      PROVE  BaseInv' /\ UNCHANGED << height, round, votes, inbox, proposal, has >>
  <2>1. /\ UNCHANGED << height, round, votes, inbox, proposal, has, prevotesSent, roundCount,
                        abort, oldProposal, newProposal, vote >>
        /\ state' \in {"successState", "failState"}
    BY <1>5 DEF CommitEvent, CommitNew, CommitOld, envVars
  <2>2. TypeOK'
    BY <2>1 DEF BaseInv, TypeOK, EnvTypeOK, NetTypeOK, States
  <2>3. QED
    BY <1>1, <2>1, <2>2
<1>6. QED
  BY <1>2, <1>3, <1>4, <1>5 DEF TestEvent

LEMMA TestEventEffect ==
  ASSUME BaseInv, TestEvent, UNCHANGED testcase
  PROVE  BaseInv' /\ UNCHANGED votes /\ \A p \in Replicas : inbox[p] \subseteq inbox'[p]
  BY VoteEventKeepsBase, OtherEventsKeepBase

LEMMA BaseNext == BaseInv /\ [Next]_vars => BaseInv'
<1> SUFFICES ASSUME BaseInv, [Next]_vars PROVE BaseInv'
  OBVIOUS
<1>1. CASE UNCHANGED vars
  <2>1. NetInv(Faulty)'
    BY <1>1, StutterKeepsNet DEF vars, envVars, BaseInv
  <2>2. QED
    BY <1>1, <2>1 DEF vars, envVars, testVars, smVars, BaseInv, NetInv, TypeOK, EnvTypeOK, PlaceInv
<1>2. CASE LockingStep /\ UNCHANGED testVars
  BY <1>2, LockingKeepsBase
<1>3. CASE Running /\ TestEvent /\ UNCHANGED testcase
  BY <1>3, TestEventEffect
<1>4. QED
  BY <1>1, <1>2, <1>3 DEF Next

\* What holds in every run, whosever keys can be read and whoever proposes.
THEOREM BaseInvariance == Spec => []BaseInv
  BY BaseInit, BaseNext, PTL DEF Spec

\* The test case is a network in which only the replicas it calls faulty are
\* Byzantine, whatever it withholds: it implements ByzantineNetwork.
THEOREM Refinement == Spec => IsByzantineNetwork
<1>1. Init => BN!Init
  BY DEF Init, EnvInit, NetInit, BN!Init
<1>2. BaseInv /\ BaseInv' /\ [Next]_vars => [BN!Cast \/ BN!Deliver]_<< votes, inbox >>
  <2> SUFFICES ASSUME BaseInv, BaseInv', [Next]_vars
               PROVE  BN!Cast \/ BN!Deliver \/ UNCHANGED << votes, inbox >>
    OBVIOUS
  <2>1. CASE UNCHANGED vars
    BY <2>1 DEF vars, envVars
  <2>2. CASE LockingStep /\ UNCHANGED testVars
    <3>1. votes \subseteq votes' /\ UNCHANGED inbox
      BY <2>2, LockingKeepsBase
    <3>2. \A v, w \in votes' : ~ BN!Conflict(v, w)
      BY DEF BaseInv, NetInv, OneVote, BN!Conflict
    <3>3. QED
      BY <3>1, <3>2 DEF BaseInv, NetInv, BN!Cast, BN!Valid, Valid
  <2>3. CASE TestEvent /\ UNCHANGED testcase
    <3>1. UNCHANGED votes /\ \A p \in Replicas : inbox[p] \subseteq inbox'[p]
      BY <2>3, TestEventEffect
    <3>2. QED
      BY <3>1 DEF BaseInv, NetInv, NetTypeOK, Genuine, BN!Deliver, BN!Valid, Valid
  <2>4. QED
    BY <2>1, <2>2, <2>3 DEF Next
<1>3. QED
  BY <1>1, <1>2, BaseInvariance, PTL DEF Spec, BN!Spec, IsByzantineNetwork

\* The faulty replicas are too few for two quorums.
LEMMA FewFaulty == Tolerated(Faulty)
<1>1. Cardinality(Replicas) = Cardinality(Faulty) + Cardinality(Rest) + 1
  BY PartitionAssumption, CountParts
<1>2. QED
  BY <1>1, PartitionAssumption, FAssumption DEF Tolerated

\* No two quorums for different values, whatever is forwarded and re-signed.
THEOREM QuorumsAgreeHolds == Spec => []QuorumsAgree
<1>1. BaseInv => QuorumsAgree
  BY FewFaulty, AgreeInv DEF BaseInv
<1>2. QED
  BY <1>1, BaseInvariance, PTL

-----------------------------------------------------------------------------
(***************************************************************************)
(* Who locks: a precommit for a block needs the quorum OnlyHLocksInv       *)
(* excludes, a prevote the lock or the proposal.                           *)
(***************************************************************************)
LEMMA LockInit == Init => SeenInv /\ LockInv
  BY DEF Init, EnvInit, NetInit, SeenInv, LockInv

\* What a vote that is cast must satisfy for the invariant to survive.
Harmless(w) ==
  w.block \in Blocks =>
    /\ w.type = Precommit /\ w.round = 0 => w.val \in {H} \cup Faulty
    /\ w.type = Prevote /\ w.round = 1 => w.val \in {H} \cup Faulty \cup {Proposer[1]}

LEMMA LockingKeepsLock == ASSUME IInv, LockingStep PROVE LockInv'
<1>1. PICK p \in Replicas :
        \/ \E b \in Blocks : Propose(p, b)
        \/ /\ UNCHANGED << proposal, has >>
           /\ \/ \E b \in Casts : PrevoteLocked(p, b)
              \/ \E b \in Precommits : CastPrecommit(p, b)
              \/ NextRound(p)
  BY LockingCases
<1>2. NetTypeOK /\ height[p] = InitialHeight /\ round[p] \in Rounds
  BY RoundAssumption DEF IInv, BaseInv, NetInv, NetTypeOK, PlaceInv, Rounds
<1>3. ASSUME NEW b \in Blocks, Propose(p, b)
      PROVE  LockInv'
  <2>1. votes' = votes /\ has' = [has EXCEPT ![round[p]] = {Proposer[round[p]]}]
    BY <1>3 DEF Propose, Make
  <2>2. QED
    BY <1>2, <2>1 DEF IInv, BaseInv, TypeOK, EnvTypeOK, LockInv
<1>4. ASSUME NEW b \in Casts, PrevoteLocked(p, b), UNCHANGED << proposal, has >>
      PROVE  LockInv'
  <2>1. Prevote \in {Prevote, Precommit} /\ Cast(p, Prevote, b) /\ b \in Casts \cup Precommits
    BY <1>4 DEF PrevoteLocked, CastPrevote
  <2>2. PICK w \in Votes :
          /\ Valid(w) /\ votes' = votes \cup {w}
          /\ w.val = p /\ w.type = Prevote /\ w.height = height[p] /\ w.round = round[p] /\ w.block = b
          /\ UNCHANGED << height, round, inbox >>
    BY <1>2, <2>1, CastOne
  <2>3. ASSUME b \in Blocks, round[p] = 1
        PROVE  p \in {H} \cup Faulty \cup {Proposer[1]}
    <3>1. CASE LockedOn(p, b)
      <4>1. PICK v \in votes : v.type = Precommit /\ v.val = p /\ v.block = b /\ v.round < 1
        BY <2>3, <3>1 DEF LockedOn
      <4>2. v.round \in Nat
        BY <1>2 DEF NetTypeOK, Votes
      <4>3. v.round = 0
        BY <4>1, <4>2
      <4>4. QED
        BY <2>3, <4>1, <4>3 DEF IInv, LockInv
    <3>2. CASE p \in has[1]
      BY <1>2, <2>3, <3>2 DEF IInv, LockInv
    <3>3. QED
      BY <1>4, <2>3, <3>1, <3>2, NilAssumption DEF PrevoteLocked
  <2>4. Harmless(w)
    BY <2>2, <2>3 DEF Harmless, Prevote, Precommit
  <2>5. QED
    BY <1>4, <2>2, <2>4 DEF IInv, LockInv, Harmless
<1>5. ASSUME NEW b \in Precommits, CastPrecommit(p, b), UNCHANGED << proposal, has >>
      PROVE  LockInv'
  <2>1. Precommit \in {Prevote, Precommit} /\ Cast(p, Precommit, b) /\ b \in Casts \cup Precommits
    BY <1>5 DEF CastPrecommit
  <2>2. PICK w \in Votes :
          /\ Valid(w) /\ votes' = votes \cup {w}
          /\ w.val = p /\ w.type = Precommit /\ w.height = height[p] /\ w.round = round[p] /\ w.block = b
          /\ UNCHANGED << height, round, inbox >>
    BY <1>2, <2>1, CastOne
  <2>3. b \in Blocks /\ round[p] = 0 => p \in {H} \cup Faulty
    BY <1>2, <1>5, OnlyHLocksInv, PartitionAssumption DEF CastPrecommit, OnlyHLocks
  <2>4. Harmless(w)
    BY <2>2, <2>3 DEF Harmless, Prevote, Precommit
  <2>5. QED
    BY <1>5, <2>2, <2>4 DEF IInv, LockInv, Harmless
<1>6. CASE NextRound(p) /\ UNCHANGED << proposal, has >>
  BY <1>6 DEF NextRound, IInv, LockInv
<1>7. QED
  BY <1>1, <1>3, <1>4, <1>5, <1>6

LEMMA LockNext == KeysGiven /\ IInv /\ [Next]_vars => SeenInv' /\ LockInv'
<1> SUFFICES ASSUME KeysGiven, IInv, [Next]_vars PROVE SeenInv' /\ LockInv'
  OBVIOUS
<1>1. CASE UNCHANGED vars
  BY <1>1 DEF vars, envVars, IInv, SeenInv, LockInv
<1>2. CASE LockingStep /\ UNCHANGED testVars
  <2>1. UNCHANGED inbox
    BY <1>2, LockingKeepsBase DEF IInv
  <2>2. QED
    BY <1>2, <2>1, LockingKeepsLock DEF IInv, SeenInv
<1>3. CASE Running /\ TestEvent /\ UNCHANGED testcase
  <2>1. CASE VoteEvent
    BY <1>3, <2>1, VoteEventKeepsBase DEF IInv, LockInv
  <2>2. CASE ~ VoteEvent
    BY <1>3, <2>2, OtherEventsKeepBase DEF IInv, SeenInv, LockInv
  <2>3. QED
    BY <2>1, <2>2
<1>4. QED
  BY <1>1, <1>2, <1>3 DEF Next

\* Types, what replicas have seen, and who can be locked, when the keys of the
\* faulty replicas are known.
THEOREM Invariance == ASSUME KeysGiven PROVE Spec => []IInv
<1>1. IInv /\ [Next]_vars => IInv'
  BY BaseNext, LockNext DEF IInv
<1>2. Init => IInv
  BY BaseInit, LockInit DEF IInv
<1>3. QED
  BY <1>1, <1>2, PTL DEF Spec

\* Nobody but h and the faulty replicas can lock in round 0, and no honest
\* replica in round 1, whoever proposes and whatever is forwarded.
THEOREM OnlyHLocksHolds == ASSUME KeysGiven PROVE Spec => []OnlyHLocks
<1>1. IInv => OnlyHLocks
  BY OnlyHLocksInv
<1>2. QED
  BY <1>1, Invariance, PTL

-----------------------------------------------------------------------------
(***************************************************************************)
(* The verdict: the variables the assertion compares are written by        *)
(* messages of two rounds, in any order.  A repeated block comes from a    *)
(* replica other than its first proposer, so it was sent, and noted.       *)
(***************************************************************************)
LEMMA ProposeNoted ==
  ASSUME ProposersDiffer, BaseInv, ProposalInv,
         NEW p \in Replicas, NEW b \in Blocks, Propose(p, b), UNCHANGED testVars
  PROVE  ProposalInv'
<1>1. /\ round[p] \in Rounds /\ 0 \in Rounds
      /\ proposal[round[p]] = Nil /\ b # Nil
      /\ \A r \in Rounds : proposal[r] = b => r < round[p] /\ p \in has[r]
      /\ proposal' = [proposal EXCEPT ![round[p]] = b]
      /\ has' = [has EXCEPT ![round[p]] = {p}]
      /\ p = Proposer[round[p]]
      /\ UNCHANGED << votes, testcase, abort, oldProposal, newProposal, vote >>
  BY RoundAssumption, NilAssumption
  DEF Propose, Make, testVars, BaseInv, TypeOK, EnvTypeOK, NetTypeOK, PlaceInv, Rounds
<1>2. proposal \in [Rounds -> Values] /\ has \in [Rounds -> SUBSET Replicas]
  BY DEF BaseInv, TypeOK, EnvTypeOK
<1>3. \A r \in Rounds : has'[r] # {} => proposal'[r] # Nil
  BY <1>1, <1>2 DEF ProposalInv
<1>4. oldProposal' \in {Nil, proposal'[0]}
  BY <1>1, <1>2 DEF ProposalInv
<1>5. oldProposal' = Nil => has'[0] \subseteq {Proposer[0]}
  BY <1>1, <1>2 DEF ProposalInv
<1>6. 2 \in Rounds /\ proposal'[0] # Nil /\ proposal'[2] = proposal'[0] => oldProposal' = proposal'[0]
  <2> SUFFICES ASSUME 2 \in Rounds, proposal'[0] # Nil, proposal'[2] = proposal'[0]
               PROVE  oldProposal' = proposal'[0]
    OBVIOUS
  <2>1. CASE round[p] = 2
    <3>1. proposal'[0] = proposal[0] /\ proposal'[2] = b
      BY <1>1, <1>2, <2>1
    <3>2. p \in has[0] /\ p = Proposer[2]
      BY <1>1, <2>1, <3>1
    <3>3. oldProposal = proposal[0]
      BY <3>2 DEF ProposersDiffer, ProposalInv
    <3>4. QED
      BY <1>1, <3>1, <3>3
  <2>2. CASE round[p] = 0
    <3>1. proposal[2] = b
      BY <1>1, <1>2, <2>2
    <3>2. QED
      BY <1>1, <2>2, <3>1
  <2>3. CASE round[p] # 0 /\ round[p] # 2
    BY <1>1, <1>2, <2>3 DEF ProposalInv
  <2>4. QED
    BY <2>1, <2>2, <2>3
<1>7. newProposal' # Nil => /\ 2 \in Rounds /\ newProposal' = proposal'[2]
                            /\ testcase' = "One" /\ abort' = "no" => proposal'[2] # proposal'[0]
  <2> SUFFICES ASSUME newProposal # Nil
               PROVE  /\ 2 \in Rounds /\ newProposal = proposal'[2]
                      /\ testcase = "One" /\ abort = "no" => proposal'[2] # proposal'[0]
    BY <1>1
  <2>1. 2 \in Rounds /\ newProposal = proposal[2] /\ (testcase = "One" /\ abort = "no" => proposal[2] # proposal[0])
    BY DEF ProposalInv
  <2>2. round[p] # 2 /\ proposal'[2] = proposal[2]
    BY <1>1, <1>2, <2>1
  <2>3. CASE round[p] = 0
    <3>1. proposal'[0] = b
      BY <1>1, <1>2, <2>3
    <3>2. proposal[2] # b
      BY <1>1, <2>1, <2>3
    <3>3. QED
      BY <2>1, <2>2, <3>1, <3>2
  <2>4. CASE round[p] # 0
    BY <1>1, <1>2, <2>1, <2>2, <2>4
  <2>5. QED
    BY <2>3, <2>4
<1>8. vote' # Nil => NewVote(Prevote, InitialHeight, 2, vote', H) \in votes'
  BY <1>1 DEF ProposalInv
<1>9. QED
  BY <1>3, <1>4, <1>5, <1>6, <1>7, <1>8 DEF ProposalInv

\* Casting and moving on change nothing the invariant is about.
LEMMA LockingNoted ==
  ASSUME ProposersDiffer, BaseInv, ProposalInv, LockingStep, UNCHANGED testVars
  PROVE  ProposalInv'
<1>1. PICK p \in Replicas :
        \/ \E b \in Blocks : Propose(p, b)
        \/ /\ UNCHANGED << proposal, has >>
           /\ \/ \E b \in Casts : PrevoteLocked(p, b)
              \/ \E b \in Precommits : CastPrecommit(p, b)
              \/ NextRound(p)
  BY DEF LockingStep
<1>2. CASE \E b \in Blocks : Propose(p, b)
  BY <1>2, ProposeNoted
<1>3. CASE /\ UNCHANGED << proposal, has >>
           /\ \/ \E b \in Casts : PrevoteLocked(p, b)
              \/ \E b \in Precommits : CastPrecommit(p, b)
              \/ NextRound(p)
  <2>1. votes \subseteq votes'
    BY <1>3 DEF PrevoteLocked, CastPrevote, CastPrecommit, Cast, NextRound
  <2>2. UNCHANGED << proposal, has, testcase, abort, oldProposal, newProposal, vote >>
    BY <1>3 DEF testVars
  <2>3. QED
    BY <2>1, <2>2 DEF ProposalInv
<1>4. QED
  BY <1>1, <1>2, <1>3

LEMMA VoteNoted ==
  ASSUME BaseInv, ProposalInv, Running, VoteEvent, UNCHANGED testcase
  PROVE  ProposalInv'
<1>1. PICK from \in Replicas, to \in Replicas, v \in Votes :
        /\ v \in Known(from) /\ VoteSent(from, to, v)
        /\ \/ UNCHANGED << abort, vote >>
           \/ Round1Prevote(from, to, v)
           \/ Round2Prevote(from, to, v)
  BY VoteEventCases
<1>2. UNCHANGED << votes, proposal, has, oldProposal, newProposal >> /\ abort = "no"
  BY <1>1 DEF VoteSent, envVars, Running
<1>3. vote' # Nil => NewVote(Prevote, InitialHeight, 2, vote', H) \in votes
  <2>1. CASE UNCHANGED vote
    BY <2>1 DEF ProposalInv
  <2>2. CASE Round2Prevote(from, to, v)
    <3>1. v.val = H /\ v.type = Prevote /\ v.round = 2 /\ vote' = v.block /\ from = H
      BY <2>2 DEF Round2Prevote, OwnPrevote
    <3>2. v \in votes
      BY <1>1, <3>1, PartitionAssumption DEF Known, BaseInv, NetInv, Genuine
    <3>3. v.key = H /\ v.height = InitialHeight
      BY <3>1, <3>2 DEF BaseInv, NetInv, PlaceInv, Valid
    <3>4. v = NewVote(Prevote, InitialHeight, 2, vote', H)
      BY <3>1, <3>3 DEF NewVote, Votes
    <3>5. QED
      BY <3>2, <3>4
  <2>3. QED
    BY <1>1, <2>1, <2>2 DEF Round1Prevote
<1>4. QED
  BY <1>2, <1>3 DEF ProposalInv

LEMMA ProposalNoted ==
  ASSUME BaseInv, ProposalInv, Running, ProposalEvent, UNCHANGED testcase
  PROVE  ProposalInv'
<1>1. PICK from \in Replicas, to \in Replicas :
        Round0Proposal(from, to) \/ Round1Proposal(from, to) \/ Round2Proposal(from, to)
  BY DEF ProposalEvent
<1>2. /\ UNCHANGED << votes, proposal, vote >> /\ 0 \in Rounds
      /\ abort = "no" /\ has \in [Rounds -> SUBSET Replicas]
  BY <1>1, RoundAssumption
  DEF ProposalSent, Round0Proposal, Round1Proposal, Round2Proposal, Running, BaseInv, TypeOK, EnvTypeOK, Rounds
<1>3. CASE Round0Proposal(from, to)
  <2>1. /\ proposal[0] # Nil /\ oldProposal' = proposal[0]
        /\ UNCHANGED << abort, newProposal >>
        /\ has' = [has EXCEPT ![0] = @ \cup {to}]
    BY <1>2, <1>3 DEF Round0Proposal, ProposalSent, ProposalInv
  <2>2. QED
    BY <1>2, <2>1 DEF ProposalInv
<1>4. CASE Round1Proposal(from, to)
  BY <1>2, <1>4 DEF Round1Proposal, ProposalInv
<1>5. CASE Round2Proposal(from, to)
  <2>1. /\ 2 \in Rounds /\ proposal[2] # Nil /\ newProposal' = proposal[2]
        /\ abort' = IF testcase = "One" /\ oldProposal = proposal[2] THEN "sameProposal" ELSE abort
        /\ has' = [has EXCEPT ![2] = @ \cup {to}]
        /\ UNCHANGED oldProposal
    BY <1>5 DEF Round2Proposal, ProposalSent, ProposalInv
  <2>2. testcase = "One" /\ abort' = "no" => proposal[2] # proposal[0]
    BY <2>1 DEF ProposalInv
  <2>3. (\A r \in Rounds : has'[r] # {} => proposal[r] # Nil) /\ has'[0] = has[0]
    BY <1>2, <2>1 DEF ProposalInv
  <2>4. QED
    BY <1>2, <2>1, <2>2, <2>3 DEF ProposalInv
<1>6. QED
  BY <1>1, <1>3, <1>4, <1>5

LEMMA NextNoted ==
  ProposersDiffer /\ BaseInv /\ ProposalInv /\ [Next]_vars => ProposalInv'
<1> SUFFICES ASSUME ProposersDiffer, BaseInv, ProposalInv, [Next]_vars
             PROVE  ProposalInv'
  OBVIOUS
<1>1. CASE UNCHANGED << votes, proposal, has, testcase, abort, oldProposal, newProposal, vote >>
  BY <1>1 DEF ProposalInv
<1>2. CASE UNCHANGED vars
  BY <1>1, <1>2 DEF vars, envVars, testVars
<1>3. CASE LockingStep /\ UNCHANGED testVars
  BY <1>3, LockingNoted
<1>4. CASE Running /\ VoteEvent /\ UNCHANGED testcase
  BY <1>4, VoteNoted
<1>5. CASE Running /\ ProposalEvent /\ UNCHANGED testcase
  BY <1>5, ProposalNoted
<1>6. CASE (CommitEvent \/ \E p \in Replicas : Announce(p)) /\ UNCHANGED testcase
  BY <1>1, <1>6 DEF CommitEvent, Announce, envVars
<1>7. CASE (\E from \in Replicas, v \in inbox[H] : PrevoteReceived(from, v)) /\ UNCHANGED testcase
  BY <1>1, <1>7 DEF PrevoteReceived, envVars
<1>8. QED
  BY <1>2, <1>3, <1>4, <1>5, <1>6, <1>7 DEF Next, TestEvent

\* One passes only if h prevoted the proposal of round 2 in round 2 and that
\* is not the one of round 0, Two only if h prevoted the proposal of round 0 in
\* round 2, whoever else does what.
THEOREM VerdictSoundHolds == ASSUME ProposersDiffer PROVE Spec => []VerdictSound
<1>1. Init => ProposalInv
  BY RoundAssumption DEF Init, EnvInit, ProposalInv, Rounds
<1>2. BaseInv /\ ProposalInv /\ [Next]_vars => ProposalInv'
  BY NextNoted
<1>3. BaseInv /\ ProposalInv => VerdictSound
  BY TestCasesAssumption DEF BaseInv, TypeOK, ProposalInv, VerdictSound, Passed
<1>4. QED
  BY <1>1, <1>2, <1>3, BaseInvariance, PTL DEF Spec
===============================================================================
