--------------------------- MODULE NewProposalProofs ---------------------------
(***************************************************************************)
(* What NewProposal.tla claims, for every number of faults (of HigherProp, *)
(* where KeysGiven is assumed, for one), every set of replicas and blocks, *)
(* any number of rounds and any pattern of forwarding.                     *)
(***************************************************************************)
EXTENDS NewProposal, TendermintReplicasProofs

-----------------------------------------------------------------------------
(***************************************************************************)
(* What holds in every run.                                                *)
(***************************************************************************)
LEMMA BaseInit == Init => BaseInv
  BY NetInvInit, FAssumption, HeightAssumption, RoundAssumption
  DEF Init, EnvInit, NetInit, BaseInv, NetInv, TypeOK, EnvTypeOK, PlaceInv, Rounds, Values, States

LEMMA ValidLockingCases ==
  ASSUME ValidLockingStep
  PROVE  \E p \in Replicas :
           \/ \E b \in Blocks : ProposeValid(p, b)
           \/ /\ UNCHANGED << proposal, has >>
              /\ \/ \E b \in Casts : PrevoteLocked(p, b)
                 \/ \E b \in Precommits : CastPrecommit(p, b)
                 \/ NextRound(p)
  BY DEF ValidLockingStep

LEMMA LockingMoves ==
  ASSUME ValidLockingStep
  PROVE  ReplicaMoves \/ UNCHANGED << height, round, votes, inbox >>
  BY ValidLockingCases DEF ReplicaMoves, ProposeValid, Make, PrevoteLocked, CastPrevote, CastPrecommit

LEMMA LockingKeepsBase ==
  ASSUME BaseInv, ValidLockingStep, UNCHANGED testVars
  PROVE  BaseInv' /\ votes \subseteq votes' /\ UNCHANGED inbox
<1>1. NetInv(Faulty)' /\ votes \subseteq votes' /\ UNCHANGED inbox
  BY LockingMoves, MovesKeepNet DEF BaseInv
<1>2. UNCHANGED << testcase, state, prevotesSent, oldProposal, newProposal, reached, reproposed >>
  BY DEF testVars
<1>3. PICK p \in Replicas :
        \/ \E b \in Blocks : ProposeValid(p, b)
        \/ /\ UNCHANGED << proposal, has >>
           /\ \/ \E b \in Casts : PrevoteLocked(p, b)
              \/ \E b \in Precommits : CastPrecommit(p, b)
              \/ NextRound(p)
  BY ValidLockingCases
<1>4. NetTypeOK /\ height[p] = InitialHeight /\ round[p] \in Rounds
  BY DEF BaseInv, NetInv, PlaceInv
<1>5. /\ proposal' \in [Rounds -> Values] /\ has' \in [Rounds -> SUBSET Replicas]
      /\ \A q \in Replicas : height'[q] = InitialHeight /\ round'[q] \in Rounds
      /\ \A v \in votes' : v.height = InitialHeight /\ v.round \in Rounds
  <2>1. CASE \E b \in Blocks : ProposeValid(p, b)
    BY <1>4, <2>1 DEF ProposeValid, Make, BaseInv, TypeOK, EnvTypeOK, PlaceInv, Values
  <2>2. ASSUME NEW t \in {Prevote, Precommit}, NEW b \in Casts \cup Precommits, Cast(p, t, b)
        PROVE  UNCHANGED << height, round >> /\ \A v \in votes' : v.height = InitialHeight /\ v.round \in Rounds
    BY <1>4, <2>2, CastOne DEF BaseInv, PlaceInv
  <2>3. CASE /\ UNCHANGED << proposal, has >>
             /\ (\E b \in Casts : PrevoteLocked(p, b)) \/ (\E b \in Precommits : CastPrecommit(p, b))
    <3>1. \E t \in {Prevote, Precommit}, b \in Casts \cup Precommits : Cast(p, t, b)
      BY <2>3 DEF PrevoteLocked, CastPrevote, CastPrecommit
    <3>2. QED
      BY <2>2, <2>3, <3>1 DEF BaseInv, TypeOK, EnvTypeOK, PlaceInv
  <2>4. CASE NextRound(p) /\ UNCHANGED << proposal, has >>
    BY <1>4, <2>4, RoundAssumption DEF NextRound, BaseInv, TypeOK, EnvTypeOK, NetTypeOK, PlaceInv, Rounds
  <2>5. QED
    BY <1>3, <2>1, <2>3, <2>4
<1>6. QED
  BY <1>1, <1>2, <1>5 DEF BaseInv, NetInv, TypeOK, EnvTypeOK, PlaceInv

\* What the state machine makes of an event, before anybody asks what for.
LEMMA StepType ==
  ASSUME TypeOK, NEW from \in Replicas,
         \/ (\E v \in Votes : VoteStep(from, v)) /\ UNCHANGED reproposed
         \/ \E r \in Rounds : ProposalStep(from, r)
         \/ state = "ValueLocked" /\ RoundReached(from, round[from]) /\ UNCHANGED reproposed
  PROVE  /\ state' \in States /\ (state' = "start" => state = "start")
         /\ reached' \subseteq Replicas /\ reproposed' \in Rounds
<1>1. ASSUME NEW v \in Votes, VoteStep(from, v), UNCHANGED reproposed
      PROVE  /\ state' \in States /\ (state' = "start" => state = "start")
             /\ reached' \subseteq Replicas /\ reproposed' \in Rounds
  BY <1>1 DEF VoteStep, RoundReached, Judge, TypeOK, States
<1>2. ASSUME NEW r \in Rounds, ProposalStep(from, r)
      PROVE  /\ state' \in States /\ (state' = "start" => state = "start")
             /\ reached' \subseteq Replicas /\ reproposed' \in Rounds
  BY <1>2 DEF ProposalStep, DiffPropSeen, NewPropSeen, RoundReached, TypeOK, States
<1>3. CASE state = "ValueLocked" /\ RoundReached(from, round[from]) /\ UNCHANGED reproposed
  BY <1>3 DEF RoundReached, TypeOK, States
<1>4. QED
  BY <1>1, <1>2, <1>3

\* What arrives at a replica through the filters, if they know whom to ask for.
Arrivable(x) ==
  Valid(x) => /\ x.val \in Faulty /\ x.block # Nil => testcase = "HigherProp" /\ Fresh(x.block)
              /\ ~ (x.val = H /\ x.type = Prevote /\ x.round = 0)

LEMMA OneFaulty == ASSUME KeysGiven, TypeOK, testcase = "HigherProp" PROVE Faulty = {FaultyReplica}
<1>1. IsFiniteSet(Faulty) /\ Cardinality(Faulty) = 1 /\ FaultyReplica \in Faulty
  BY PartitionAssumption, FAssumption, FS_Subset DEF KeysGiven, TypeOK
<1>2. \E x : Faulty = {x}
  BY <1>1, FS_Singleton
<1>3. QED
  BY <1>1, <1>2

\* Of what a replica sends, nothing or one genuine vote is delivered, whoever's
\* key it is signed with.
LEMMA VoteEffect ==
  ASSUME BaseInv, NEW from \in Replicas, NEW to \in Replicas, NEW v \in Known(from),
         FaultyVote(from, to, v) \/ HeldPrevote(from, to, v) \/ PassVote(from, to, v)
  PROVE  /\ v \in Votes /\ Valid(v) /\ v.height = InitialHeight /\ VoteSent(from, to, v)
         /\ \/ UNCHANGED inbox
            \/ \E x \in Votes : /\ Deliver(to, x) /\ Genuine(x, Faulty) /\ x.height = InitialHeight
                                /\ KeysGiven /\ IInv => Arrivable(x)
<1>1. v \in Votes /\ Valid(v) /\ Genuine(v, Faulty) /\ v.height = InitialHeight
  BY KnownGenuine DEF Known, BaseInv, PlaceInv
<1>2. testcase \in {"Three", "HigherProp"} /\ H \notin Faulty
  BY TestCasesAssumption, PartitionAssumption DEF BaseInv, TypeOK
<1>3. CASE FaultyVote(from, to, v)
  <2> DEFINE x == ChangeVote(from, v, FaultyBlock(to, v))
  <2>1. FaultyBlock(to, v) \in Values
    BY DEF FaultyBlock, BaseInv, TypeOK, Values
  <2>2. /\ x \in Votes /\ x.val = v.val /\ x.key = from /\ x.height = v.height
        /\ x.block = FaultyBlock(to, v)
    BY <1>1, <2>1 DEF ChangeVote, Votes, Values
  <2>3. Deliver(to, x) /\ VoteSent(from, to, v) /\ FromFaulty(from, v)
    BY <1>3 DEF FaultyVote
  <2>4. FaultyBlock(to, v) # Nil => testcase = "HigherProp" /\ newProposal = FaultyBlock(to, v)
    BY DEF FaultyBlock
  <2>5. v.val = from => v.val \in Faulty
    BY <2>3, PartitionAssumption DEF FromFaulty, IsVoteFrom
  <2> HIDE DEF x
  <2>6. Genuine(x, Faulty)
    BY <1>1, <2>2, <2>5 DEF Genuine, Valid
  <2>7. IInv => Arrivable(x)
    BY <1>2, <2>2, <2>4, <2>5 DEF IInv, ProposalInv, Arrivable, Valid
  <2>8. QED
    BY <1>1, <2>2, <2>3, <2>6, <2>7
<1>4. CASE HeldPrevote(from, to, v)
  BY <1>1, <1>4 DEF HeldPrevote
<1>5. CASE PassVote(from, to, v)
  <2>1. VoteSent(from, to, v) /\ Deliver(to, v) /\ ~ FromFaulty(from, v) /\ ~ Held(from, v)
    BY <1>5 DEF PassVote
  <2>2. ASSUME IInv, v \in inbox[from] PROVE Arrivable(v)
    BY <2>2 DEF IInv, VotesInv, Arrivable
  <2>3. ASSUME KeysGiven, v \in votes, v.val = from PROVE Arrivable(v)
    <3>1. v.val \notin Faulty
      BY <1>2, <2>1, <2>3, OneFaulty DEF BaseInv, KeysGiven, FromFaulty, IsVoteFrom, CanChangeVote
    <3>2. ~ (v.val = H /\ v.type = Prevote /\ v.round = 0)
      BY <1>2, <2>1, <2>3 DEF KeysGiven, Held, IsVoteFrom
    <3>3. QED
      BY <3>1, <3>2 DEF Arrivable
  <2>4. QED
    BY <1>1, <2>1, <2>2, <2>3 DEF Known
<1>6. QED
  BY <1>3, <1>4, <1>5

LEMMA VoteKeepsBase ==
  ASSUME BaseInv, NEW from \in Replicas, NEW to \in Replicas, NEW v \in Known(from),
         FaultyVote(from, to, v) \/ HeldPrevote(from, to, v) \/ PassVote(from, to, v)
  PROVE  /\ BaseInv' /\ UNCHANGED votes
         /\ \A p \in Replicas : inbox[p] \subseteq inbox'[p]
         /\ KeysGiven /\ IInv => VotesInv'
<1>1. /\ v \in Votes /\ VoteStep(from, v)
      /\ \/ UNCHANGED inbox
         \/ \E x \in Votes : /\ Deliver(to, x) /\ Genuine(x, Faulty) /\ x.height = InitialHeight
                             /\ KeysGiven /\ IInv => Arrivable(x)
      /\ UNCHANGED << height, round, votes, proposal, has >>
      /\ UNCHANGED << testcase, prevotesSent, oldProposal, newProposal, reproposed >>
  BY VoteEffect DEF VoteSent, envVars
<1>2. /\ state' \in States /\ (state' = "start" => state = "start")
      /\ reached' \subseteq Replicas
  BY <1>1, StepType DEF BaseInv
<1>3. /\ NetInv(Faulty)' /\ \A p \in Replicas : inbox[p] \subseteq inbox'[p]
      /\ \A p \in Replicas : \A w \in inbox'[p] : w.height = InitialHeight
      /\ KeysGiven /\ IInv => VotesInv'
  <2>1. CASE UNCHANGED inbox
    BY <1>1, <2>1, StutterKeepsNet DEF BaseInv, PlaceInv, IInv, VotesInv, Fresh
  <2>2. ASSUME NEW x \in Votes, Deliver(to, x), Genuine(x, Faulty), x.height = InitialHeight,
               KeysGiven /\ IInv => Arrivable(x)
        PROVE  /\ NetInv(Faulty)' /\ \A p \in Replicas : inbox[p] \subseteq inbox'[p]
               /\ \A p \in Replicas : \A w \in inbox'[p] : w.height = InitialHeight
               /\ KeysGiven /\ IInv => VotesInv'
    <3>1. Receive({[to |-> to, vote |-> x]})
      BY <2>2 DEF Deliver
    <3>2. NetInv(Faulty)' /\ \A p \in Replicas : inbox[p] \subseteq inbox'[p]
      BY <1>1, <2>2, <3>1, ReceiveOneKeepsNet DEF BaseInv
    <3>3. \A p \in Replicas : \A w \in inbox'[p] : w \in inbox[p] \/ (w = x /\ Valid(x))
      BY <3>1, ReceiveAny DEF BaseInv, NetInv
    <3>4. KeysGiven /\ IInv => VotesInv'
      BY <1>1, <2>2, <3>3 DEF IInv, VotesInv, Arrivable, Fresh
    <3>5. QED
      BY <2>2, <3>2, <3>3, <3>4 DEF BaseInv, PlaceInv
  <2>3. QED
    BY <1>1, <2>1, <2>2
<1>4. BaseInv'
  BY <1>1, <1>2, <1>3 DEF BaseInv, NetInv, TypeOK, EnvTypeOK, PlaceInv
<1>5. QED
  BY <1>1, <1>3, <1>4

\* What a proposal on its way is and leads to.
LEMMA ProposalEffect ==
  ASSUME NEW from \in Replicas, NEW to \in Replicas, NEW r, ProposalSent(from, to, r)
  PROVE  /\ r \in Rounds /\ from \in has[r] /\ ProposalStep(from, r)
         /\ UNCHANGED << height, round, votes, inbox, proposal, testcase, prevotesSent >>
  BY DEF ProposalSent, MaySendProposal

LEMMA OtherEventsKeepBase ==
  ASSUME BaseInv,
         \/ ProposalEvent
         \/ \E from \in Replicas : \E v \in inbox[H] : PrevoteReceived(from, v)
         \/ \E p \in Replicas : Announce(p)
  PROVE  BaseInv' /\ UNCHANGED << height, round, votes, inbox, proposal >>
<1>1. ASSUME UNCHANGED << height, round, votes, inbox, proposal >>, TypeOK',
             state' = "start" => prevotesSent' < 2 * F
      PROVE  BaseInv'
  <2>1. NetInv(Faulty)'
    BY <1>1, StutterKeepsNet DEF BaseInv
  <2>2. QED
    BY <1>1, <2>1 DEF BaseInv, PlaceInv
<1>2. CASE ProposalEvent
  <2>1. PICK from \in Replicas, to \in Replicas :
          \/ Round0Proposal(from, to)
          \/ \E r \in Rounds : NewBlock(from, to, r) \/ OldBlock(from, to, r)
    BY <1>2 DEF ProposalEvent
  <2>2. PICK r \in Rounds :
          /\ ProposalSent(from, to, r)
          /\ has' \in [Rounds -> SUBSET Replicas]
          /\ oldProposal' \in Values /\ newProposal' \in Values
    <3>1. CASE Round0Proposal(from, to)
      <4>1. ProposalSent(from, to, 0) /\ 0 \in Rounds
        BY <3>1, ProposalEffect DEF Round0Proposal
      <4>2. QED
        BY <3>1, <4>1 DEF Round0Proposal, BaseInv, TypeOK, EnvTypeOK
    <3>2. ASSUME NEW r \in Rounds, NewBlock(from, to, r) \/ OldBlock(from, to, r)
          PROVE  /\ ProposalSent(from, to, r)
                 /\ has' \in [Rounds -> SUBSET Replicas]
                 /\ oldProposal' \in Values /\ newProposal' \in Values
      BY <3>2 DEF NewBlock, OldBlock, BaseInv, TypeOK, EnvTypeOK
    <3>3. QED
      BY <2>1, <3>1, <3>2
  <2>3. /\ ProposalStep(from, r)
        /\ UNCHANGED << height, round, votes, inbox, proposal, testcase, prevotesSent >>
    BY <2>2, ProposalEffect
  <2>4. /\ state' \in States /\ (state' = "start" => state = "start")
        /\ reached' \subseteq Replicas /\ reproposed' \in Rounds
    BY <2>3, StepType DEF BaseInv
  <2>5. TypeOK'
    BY <2>2, <2>3, <2>4 DEF BaseInv, TypeOK, EnvTypeOK, NetTypeOK
  <2>6. QED
    BY <1>1, <2>3, <2>4, <2>5 DEF BaseInv, PlaceInv
<1>3. ASSUME NEW from \in Replicas, NEW v \in inbox[H], PrevoteReceived(from, v)
      PROVE  BaseInv' /\ UNCHANGED << height, round, votes, inbox, proposal >>
  <2>1. /\ state = "start" /\ prevotesSent' = prevotesSent + 1
        /\ state' = IF prevotesSent' >= 2 * F THEN "ValueLocked" ELSE state
        /\ UNCHANGED << height, round, votes, proposal, has, inbox >>
        /\ UNCHANGED << testcase, oldProposal, newProposal, reached, reproposed >>
    BY <1>3 DEF PrevoteReceived, envVars
  <2>2. prevotesSent' \in 0..2*F /\ state' \in States /\ (state' = "start" => prevotesSent' < 2 * F)
    BY <2>1, FAssumption DEF BaseInv, TypeOK, PlaceInv, States
  <2>3. TypeOK'
    BY <2>1, <2>2 DEF BaseInv, TypeOK, EnvTypeOK, NetTypeOK
  <2>4. QED
    BY <1>1, <2>1, <2>2, <2>3
<1>4. ASSUME NEW p \in Replicas, Announce(p)
      PROVE  BaseInv' /\ UNCHANGED << height, round, votes, inbox, proposal >>
  <2>1. /\ state = "ValueLocked" /\ RoundReached(p, round[p])
        /\ UNCHANGED << height, round, votes, proposal, has, inbox >>
        /\ UNCHANGED << testcase, prevotesSent, oldProposal, newProposal, reproposed >>
    BY <1>4 DEF Announce, envVars
  <2>2. /\ state' \in States /\ (state' = "start" => state = "start")
        /\ reached' \subseteq Replicas
    BY <2>1, StepType DEF BaseInv
  <2>3. TypeOK'
    BY <2>1, <2>2 DEF BaseInv, TypeOK, EnvTypeOK, NetTypeOK
  <2>4. QED
    BY <1>1, <2>1, <2>2, <2>3 DEF BaseInv, PlaceInv
<1>5. QED
  BY <1>2, <1>3, <1>4

LEMMA TestEventEffect ==
  ASSUME BaseInv, TestEvent
  PROVE  BaseInv' /\ UNCHANGED votes /\ \A p \in Replicas : inbox[p] \subseteq inbox'[p]
<1>1. CASE VoteEvent
  <2>1. PICK from \in Replicas, to \in Replicas : \E v \in Known(from) :
          FaultyVote(from, to, v) \/ HeldPrevote(from, to, v) \/ PassVote(from, to, v)
    BY <1>1 DEF VoteEvent
  <2>2. QED
    BY <2>1, VoteKeepsBase
<1>2. CASE ~ VoteEvent
  BY <1>2, OtherEventsKeepBase DEF TestEvent
<1>3. QED
  BY <1>1, <1>2

LEMMA BaseNext == BaseInv /\ [Next]_vars => BaseInv'
<1> SUFFICES ASSUME BaseInv, [Next]_vars PROVE BaseInv'
  OBVIOUS
<1>1. CASE UNCHANGED vars
  <2>1. NetInv(Faulty)'
    BY <1>1, StutterKeepsNet DEF vars, envVars, BaseInv
  <2>2. QED
    BY <1>1, <2>1 DEF vars, envVars, testVars, BaseInv, NetInv, TypeOK, EnvTypeOK, PlaceInv
<1>2. CASE ValidLockingStep /\ UNCHANGED testVars
  BY <1>2, LockingKeepsBase
<1>3. CASE TestEvent
  BY <1>3, TestEventEffect
<1>4. QED
  BY <1>1, <1>2, <1>3 DEF Next

\* What holds in every run of either test case, whosever keys can be read and
\* however many replicas are faulty.
THEOREM BaseInvariance == Spec => []BaseInv
  BY BaseInit, BaseNext, PTL DEF Spec

\* The test cases are networks in which only the replicas they call faulty are
\* Byzantine, whatever they withhold: they implement ByzantineNetwork.
THEOREM Refinement == Spec => IsByzantineNetwork
<1>1. Init => BN!Init
  BY DEF Init, EnvInit, NetInit, BN!Init
<1>2. BaseInv /\ BaseInv' /\ [Next]_vars => [BN!Cast \/ BN!Deliver]_<< votes, inbox >>
  <2> SUFFICES ASSUME BaseInv, BaseInv', [Next]_vars
               PROVE  BN!Cast \/ BN!Deliver \/ UNCHANGED << votes, inbox >>
    OBVIOUS
  <2>1. CASE UNCHANGED vars
    BY <2>1 DEF vars, envVars
  <2>2. CASE ValidLockingStep /\ UNCHANGED testVars
    <3>1. votes \subseteq votes' /\ UNCHANGED inbox
      BY <2>2, LockingKeepsBase
    <3>2. \A v, w \in votes' : ~ BN!Conflict(v, w)
      BY DEF BaseInv, NetInv, OneVote, BN!Conflict
    <3>3. QED
      BY <3>1, <3>2 DEF BaseInv, NetInv, BN!Cast, BN!Valid, Valid
  <2>3. CASE TestEvent
    <3>1. UNCHANGED votes /\ \A p \in Replicas : inbox[p] \subseteq inbox'[p]
      BY <2>3, TestEventEffect
    <3>2. QED
      BY <3>1 DEF BaseInv, NetInv, NetTypeOK, Genuine, BN!Deliver, BN!Valid, Valid
  <2>4. QED
    BY <2>1, <2>2, <2>3 DEF Next
<1>3. QED
  BY <1>1, <1>2, BaseInvariance, PTL DEF Spec, BN!Spec, IsByzantineNetwork

\* The faulty replicas are too few for two quorums.
LEMMA FewFaulty == Tolerated(Faulty)
<1>1. Cardinality(Replicas) = Cardinality(Faulty) + Cardinality(Rest) + 1
  BY PartitionAssumption, CountParts
<1>2. QED
  BY <1>1, PartitionAssumption, FAssumption DEF Tolerated

\* No two quorums for different values, whatever the faulty votes are turned to.
THEOREM QuorumsAgreeHolds == Spec => []QuorumsAgree
<1>1. BaseInv => QuorumsAgree
  BY FewFaulty, AgreeInv DEF BaseInv
<1>2. QED
  BY <1>1, BaseInvariance, PTL

-----------------------------------------------------------------------------
(***************************************************************************)
(* The invariant implies the properties: whose votes a replica can know.   *)
(***************************************************************************)
LEMMA RestNoQuorum == ASSUME NEW S, S \subseteq Rest PROVE ~ Quorum(S)
<1>1. Cardinality(S) \in Nat /\ Cardinality(S) <= 2 * F
  BY LargerSet, PartitionAssumption
<1>2. QED
  BY <1>1, FAssumption DEF Quorum

\* A known vote for a block that is not new was cast, and by a faulty validator
\* only if that is the replica itself.
LEMMA KnownOld ==
  ASSUME IInv, NEW p \in Replicas, NEW v \in Known(p), v.block \in Blocks,
         v.block = proposal[0] \/ testcase = "Three"
  PROVE  v \in votes /\ (v.val = p \/ (v \in inbox[p] /\ v.val \notin Faulty))
<1>1. CASE v \in inbox[p]
  BY <1>1, NilAssumption, TestCasesAssumption DEF IInv, BaseInv, NetInv, Genuine, VotesInv, Fresh
<1>2. CASE v \in votes /\ v.val = p
  BY <1>2
<1>3. QED
  BY <1>1, <1>2 DEF Known

\* In round 0 nobody sees a quorum for anything but the block proposed there,
\* and by then the test case knows that block.
LEMMA PolkaNoted ==
  ASSUME IInv, NEW p \in Replicas, NEW b \in Blocks, Polka(p, InitialHeight, 0, b)
  PROVE  b = proposal[0] /\ oldProposal = proposal[0]
<1> DEFINE S == Voters(Known(p), Prevote, InitialHeight, 0, b)
<1>1. PICK q \in S : q \notin Faulty /\ q # Proposer[0]
  <2>1. PICK x : x \in Faulty
    BY PartitionAssumption
  <2>2. S \subseteq Replicas /\ IsFiniteSet(Faulty) /\ Cardinality(Faulty) = F
    BY PartitionAssumption, FAssumption, FS_Subset DEF Voters
  <2> HIDE DEF S
  <2>3. Quorum(S)
    BY DEF Polka, S
  <2>4. ASSUME S \subseteq Faulty \cup {Proposer[0]} PROVE FALSE
    <3>1. Cardinality(S) \in Nat /\ Cardinality(S) <= F + 1
      BY <2>2, <2>4, OneMoreAtMost
    <3>2. QED
      BY <2>3, <3>1, FAssumption DEF Quorum
  <2>5. QED
    BY <2>4
<1>2. PICK v \in Known(p) : v.type = Prevote /\ v.round = 0 /\ v.block = b /\ v.val = q
  BY <1>1 DEF Voters
<1>3. v \in votes
  BY <1>1, <1>2 DEF Known, IInv, BaseInv, NetInv, Genuine
<1>4. QED
  BY <1>1, <1>2, <1>3 DEF IInv, BlockInv, Accounted

LEMMA NoPolkaForRest ==
  ASSUME IInv, NEW p \in Rest, NEW b \in Blocks
  PROVE  ~ Polka(p, InitialHeight, 0, b)
<1> DEFINE S == Voters(Known(p), Prevote, InitialHeight, 0, b)
<1>0. p \in Replicas
  BY PartitionAssumption
<1> SUFFICES ASSUME b = proposal[0] PROVE ~ Polka(p, InitialHeight, 0, b)
  BY <1>0, PolkaNoted
<1>1. ASSUME NEW q \in S PROVE q \in Rest
  <2>1. q \in Replicas
    BY DEF Voters
  <2>2. PICK v \in Known(p) : v.type = Prevote /\ v.round = 0 /\ v.block = b /\ v.val = q
    BY DEF Voters
  <2>3. v.val = p \/ (v \in inbox[p] /\ v.val \notin Faulty)
    BY <1>0, <2>2, KnownOld
  <2>4. v \in inbox[p] => v.val # H
    BY <1>0, <2>2 DEF IInv, VotesInv
  <2>5. QED
    BY <2>1, <2>2, <2>3, <2>4, PartitionAssumption
<1> HIDE DEF S
<1>2. ~ Quorum(S)
  BY <1>1, RestNoQuorum
<1>3. QED
  BY <1>2 DEF Polka, S

\* Only h and the replica itself vote for the block of round 0 again.
LEMMA NoPolkaAgain ==
  ASSUME IInv, NEW p \in Replicas, NEW r \in Rounds \ {0}, proposal[0] \in Blocks
  PROVE  ~ Polka(p, InitialHeight, r, proposal[0])
<1> DEFINE S == Voters(Known(p), Prevote, InitialHeight, r, proposal[0])
<1>1. ASSUME NEW q \in S PROVE q \in {H, p}
  <2>1. q \in Replicas
    BY DEF Voters
  <2>2. PICK v \in Known(p) : v.type = Prevote /\ v.round = r /\ v.block = proposal[0] /\ v.val = q
    BY DEF Voters
  <2>3. v \in votes /\ (v.val = p \/ v.val \notin Faulty)
    BY <2>2, KnownOld
  <2>4. v.val \notin Rest
    BY <2>2, <2>3 DEF IInv, BlockInv, Accounted
  <2>5. QED
    BY <2>1, <2>2, <2>3, <2>4, PartitionAssumption
<1> HIDE DEF S
<1>2. ~ Quorum(S)
  BY <1>1, PairNoQuorum
<1>3. QED
  BY <1>2 DEF Polka, S

LEMMA OldBlockAbandonedInv == IInv => OldBlockAbandoned
<1> SUFFICES ASSUME IInv PROVE OldBlockAbandoned
  OBVIOUS
<1>1. 0 \in Rounds /\ proposal[0] \in Values
  BY RoundAssumption DEF IInv, BaseInv, TypeOK, EnvTypeOK, Rounds
<1>2. Rest \cup {H} \subseteq Replicas
  BY PartitionAssumption
<1>3. QED
  BY <1>1, <1>2, NoPolkaForRest, NoPolkaAgain DEF OldBlockAbandoned, Values

\* In Three the quorums that honest replicas see have h's own vote in them.
LEMMA QuorumHasH ==
  ASSUME IInv, testcase = "Three", NEW p \in Rest \cup {H}, NEW r \in Rounds, NEW b \in Blocks,
         Polka(p, InitialHeight, r, b)
  PROVE  Voted(Prevote, r, b)
<1> DEFINE S == Voters(Known(p), Prevote, InitialHeight, r, b)
<1>0. p \in Replicas /\ p \notin Faulty
  BY PartitionAssumption
<1>1. ASSUME NEW q \in S, q # H PROVE q \in Rest
  <2>1. q \in Replicas
    BY DEF Voters
  <2>2. PICK v \in Known(p) : v.block = b /\ v.val = q
    BY DEF Voters
  <2>3. v.val \notin Faulty
    BY <1>0, <2>2, KnownOld
  <2>4. QED
    BY <1>1, <2>1, <2>2, <2>3, PartitionAssumption
<1>2. H \in S
  <2> HIDE DEF S
  <2>1. Quorum(S)
    BY DEF Polka, S
  <2>2. QED
    BY <1>1, <2>1, RestNoQuorum
<1>3. PICK v \in Known(p) :
        v.type = Prevote /\ v.height = InitialHeight /\ v.round = r /\ v.block = b /\ v.val = H
  BY <1>2 DEF Voters
<1>4. v \in votes
  BY <1>0, <1>3, KnownOld
<1>5. v = NewVote(Prevote, InitialHeight, r, b, H)
  BY <1>3, <1>4 DEF NewVote, IInv, BaseInv, NetInv, NetTypeOK, Votes, Valid
<1>6. QED
  BY <1>4, <1>5 DEF Voted

-----------------------------------------------------------------------------
(***************************************************************************)
(* The replicas' steps keep the invariant.                                 *)
(***************************************************************************)
\* What the invariant adds to BaseInv.
Notes == VotesInv /\ ProposalInv /\ BlockInv /\ StateInv

LEMMA ReplicaPosition ==
  ASSUME IInv, NEW p \in Replicas
  PROVE  NetTypeOK /\ height[p] = InitialHeight /\ round[p] \in Rounds /\ 0 \in Rounds
  BY RoundAssumption DEF IInv, BaseInv, NetInv, PlaceInv, Rounds

LEMMA CastKeeps ==
  ASSUME IInv, NEW w \in Votes, Accounted(w),
         votes' = votes \cup {w},
         UNCHANGED << height, round, inbox, proposal, has >>, UNCHANGED testVars
  PROVE  Notes'
<1> USE DEF testVars
<1>1. VotesInv' /\ ProposalInv'
  BY DEF IInv, VotesInv, Fresh, ProposalInv
<1>2. \A t, r, b : Voted(t, r, b) => Voted(t, r, b)'
  BY DEF Voted
<1>3. BlockInv'
  BY <1>2 DEF IInv, BlockInv, Accounted
<1>4. StateInv'
  BY <1>2 DEF IInv, StateInv, SuccessSound, FailMeansLock, Repeated
<1>5. QED
  BY <1>1, <1>3, <1>4 DEF Notes

LEMMA PrevoteKeeps ==
  ASSUME IInv, NEW p \in Replicas, NEW b \in Casts, PrevoteLocked(p, b),
         UNCHANGED << proposal, has >>, UNCHANGED testVars
  PROVE  Notes'
<1>1. Prevote \in {Prevote, Precommit} /\ Cast(p, Prevote, b) /\ b \in Casts \cup Precommits
  BY DEF PrevoteLocked, CastPrevote
<1>2. PICK w \in Votes :
        /\ Valid(w) /\ votes' = votes \cup {w}
        /\ w.val = p /\ w.type = Prevote /\ w.height = height[p] /\ w.round = round[p] /\ w.block = b
        /\ UNCHANGED << height, round, inbox >>
  BY <1>1, ReplicaPosition, CastOne
<1>3. ASSUME b \in Blocks, LockedOn(p, b) PROVE Accounted(w)
  <2>1. PICK v \in votes : v.type = Precommit /\ v.val = p /\ v.block = b /\ v.round < round[p]
    BY <1>3 DEF LockedOn
  <2>2. round[p] # 0
    BY <2>1 DEF IInv, BaseInv, TypeOK, EnvTypeOK, NetTypeOK, Votes
  <2>3. Accounted(v)
    BY DEF IInv, BlockInv
  <2>4. QED
    BY <1>2, <1>3, <2>1, <2>2, <2>3 DEF Accounted, Prevote, Precommit
<1>4. ASSUME b \in Blocks, b = proposal[round[p]], p \in has[round[p]] PROVE Accounted(w)
  BY <1>2, <1>4, ReplicaPosition, NilAssumption DEF Accounted, Prevote, Precommit, IInv, ProposalInv
<1>5. Accounted(w)
  <2>1. b \notin Blocks => Accounted(w)
    BY <1>2 DEF Accounted
  <2>2. QED
    BY <1>3, <1>4, <2>1, NilAssumption DEF PrevoteLocked
<1>6. QED
  BY <1>2, <1>5, CastKeeps, ReplicaPosition

\* A quorum of prevotes is for something that was proposed.
LEMMA PolkaProposed ==
  ASSUME IInv, NEW p \in Replicas, NEW r \in Rounds, NEW b \in Blocks, Polka(p, InitialHeight, r, b)
  PROVE  \E s \in Rounds : proposal[s] = b
<1> DEFINE S == Voters(Known(p), Prevote, InitialHeight, r, b)
<1>1. PICK q : q \in S
  <2> HIDE DEF S
  <2>1. Quorum(S)
    BY DEF Polka, S
  <2>2. QED
    BY <2>1, QuorumNotEmpty
<1>2. PICK v \in Known(p) : v.block = b
  BY <1>1 DEF Voters
<1>3. CASE v \in votes
  BY <1>2, <1>3 DEF IInv, BlockInv, Accounted
<1>4. CASE v \in inbox[p] /\ v \notin votes
  BY <1>2, <1>4, NilAssumption DEF IInv, BaseInv, NetInv, Genuine, VotesInv, Fresh
<1>5. QED
  BY <1>3, <1>4 DEF Known

LEMMA PrecommitKeeps ==
  ASSUME IInv, NEW p \in Replicas, NEW b \in Precommits, CastPrecommit(p, b),
         UNCHANGED << proposal, has >>, UNCHANGED testVars
  PROVE  Notes'
<1>1. Precommit \in {Prevote, Precommit} /\ Cast(p, Precommit, b) /\ b \in Casts \cup Precommits
  BY DEF CastPrecommit
<1>2. PICK w \in Votes :
        /\ Valid(w) /\ votes' = votes \cup {w}
        /\ w.val = p /\ w.type = Precommit /\ w.height = height[p] /\ w.round = round[p] /\ w.block = b
        /\ UNCHANGED << height, round, inbox >>
  BY <1>1, ReplicaPosition, CastOne
<1>3. ASSUME b \in Blocks PROVE Accounted(w)
  <2>1. round[p] \in Rounds /\ Polka(p, InitialHeight, round[p], b)
    BY <1>3, ReplicaPosition DEF CastPrecommit
  <2>2. \E s \in Rounds : proposal[s] = b
    BY <1>3, <2>1, PolkaProposed
  <2>3. round[p] = 0 => b = proposal[0] /\ oldProposal = proposal[0] /\ p \notin Rest
    BY <1>3, <2>1, PolkaNoted, NoPolkaForRest
  <2>4. round[p] # 0 => b # proposal[0]
    BY <1>3, <2>1, NoPolkaAgain
  <2>5. testcase = "Three" /\ p = H => Voted(Prevote, round[p], b)
    BY <1>3, <2>1, QuorumHasH
  <2>6. QED
    BY <1>2, <2>2, <2>3, <2>4, <2>5 DEF Accounted
<1>4. Accounted(w)
  BY <1>2, <1>3 DEF Accounted
<1>5. QED
  BY <1>2, <1>4, CastKeeps, ReplicaPosition

LEMMA MoveKeeps ==
  ASSUME IInv, NEW p \in Replicas, NextRound(p), UNCHANGED << proposal, has >>, UNCHANGED testVars
  PROVE  Notes'
<1>1. UNCHANGED << votes, inbox >>
  BY DEF NextRound
<1>2. VotesInv' /\ ProposalInv'
  BY <1>1 DEF testVars, IInv, VotesInv, Fresh, ProposalInv
<1>3. BlockInv' /\ StateInv'
  BY <1>1 DEF testVars, IInv, BlockInv, Accounted, Voted, StateInv, SuccessSound, FailMeansLock, Repeated
<1>4. QED
  BY <1>2, <1>3 DEF Notes

\* What the test case notes of the block of round 0, and of new blocks, survives
\* the proposal of another one.
LEMMA ProposeKeeps ==
  ASSUME IInv, NEW p \in Replicas, NEW b \in Blocks, ProposeValid(p, b), UNCHANGED testVars
  PROVE  Notes'
<1> DEFINE s == round[p]
<1>1. /\ s \in Rounds /\ 0 \in Rounds /\ proposal[s] = Nil /\ b # Nil
      /\ p = Proposer[s]
      /\ UNCHANGED << height, round, votes, inbox >>
      /\ UNCHANGED << testcase, state, prevotesSent, oldProposal, newProposal, reached, reproposed >>
  BY ReplicaPosition, NilAssumption DEF ProposeValid, Make, testVars
<1>2. /\ proposal' \in [Rounds -> Values] /\ has' \in [Rounds -> SUBSET Replicas]
      /\ proposal'[s] = b /\ \A r \in Rounds \ {s} : proposal'[r] = proposal[r]
      /\ has'[s] = {p} /\ \A r \in Rounds \ {s} : has'[r] = has[r]
  BY <1>1 DEF ProposeValid, Make, IInv, BaseInv, TypeOK, EnvTypeOK, Values
<1>3. \A r \in Rounds : proposal[r] = b => \E t \in Rounds : t < s /\ Polka(p, InitialHeight, t, b)
  BY ReplicaPosition DEF ProposeValid
<1> HIDE DEF s
<1>4. CASE s = 0
  <2>1. \A r \in Rounds : proposal[r] # b
    BY <1>3, <1>4, RoundAssumption DEF Rounds
  <2>2. \A x \in Blocks : Fresh(x) => Fresh(x)'
    BY <1>1, <1>2, <1>4, <2>1 DEF Fresh
  <2>3. VotesInv'
    <3>1. \A q \in Replicas : \A v \in inbox[q] : v.block = Nil \/ v.block \in Blocks
      BY DEF IInv, BaseInv, TypeOK, EnvTypeOK, NetTypeOK, Votes
    <3>2. QED
      BY <1>1, <2>2, <3>1 DEF IInv, VotesInv
  <2>4. ProposalInv'
    BY <1>1, <1>2, <1>4, <2>1, <2>2 DEF IInv, BaseInv, TypeOK, Values, ProposalInv
  <2>5. \A v \in votes : v.block \in Blocks => v.block # b /\ v.round # 0
    BY <1>1, <1>4, <2>1, NilAssumption DEF IInv, BlockInv, Accounted
  <2>6. BlockInv'
    BY <1>1, <1>2, <1>4, <2>5, NilAssumption DEF IInv, BlockInv, Accounted, Voted
  <2>7. state = "start"
    BY <1>1, <1>4 DEF IInv, StateInv, ProposalInv
  <2>8. StateInv'
    BY <1>1, <2>7 DEF IInv, StateInv, SuccessSound, FailMeansLock
  <2>9. QED
    BY <2>3, <2>4, <2>6, <2>8 DEF Notes
<1>5. CASE s # 0
  <2>1. proposal'[0] = proposal[0] /\ has'[0] = has[0]
    BY <1>1, <1>2, <1>5
  <2>2. \A x \in Blocks : Fresh(x) => Fresh(x)'
    BY <1>1, <1>2, <2>1, NilAssumption DEF Fresh
  <2>3. VotesInv'
    <3>1. \A q \in Replicas : \A v \in inbox[q] : v.block = Nil \/ v.block \in Blocks
      BY DEF IInv, BaseInv, TypeOK, EnvTypeOK, NetTypeOK, Votes
    <3>2. QED
      BY <1>1, <2>2, <3>1 DEF IInv, VotesInv
  <2>4. b = proposal[0] => p \notin Rest /\ oldProposal = proposal[0]
    <3>1. ASSUME b = proposal[0] PROVE Polka(p, InitialHeight, 0, b)
      BY <1>1, <1>3, <3>1, NoPolkaAgain
    <3>2. QED
      BY <3>1, PolkaNoted, NoPolkaForRest
  <2>5. ProposalInv'
    BY <1>1, <1>2, <1>5, <2>1, <2>2, <2>4 DEF IInv, BaseInv, TypeOK, Values, ProposalInv
  <2>6. BlockInv'
    BY <1>1, <1>2, <2>1, NilAssumption DEF IInv, BlockInv, Accounted, Voted
  <2>7. StateInv'
    BY <1>1, <1>2, <2>1, NilAssumption DEF IInv, BaseInv, TypeOK, StateInv, SuccessSound, FailMeansLock, Voted, Repeated
  <2>8. QED
    BY <2>3, <2>5, <2>6, <2>7 DEF Notes
<1>6. QED
  BY <1>4, <1>5

LEMMA LockingKeeps ==
  ASSUME IInv, ValidLockingStep, UNCHANGED testVars
  PROVE  Notes'
  BY ValidLockingCases, ProposeKeeps, PrevoteKeeps, PrecommitKeeps, MoveKeeps

-----------------------------------------------------------------------------
(***************************************************************************)
(* The filters keep the invariant, and the state machine draws the right   *)
(* conclusions from what is noted.                                         *)
(***************************************************************************)
\* Leaving the state that counts replicas concludes nothing yet.
LEMMA StateStays ==
  ASSUME IInv, state' = state \/ (state = "ValueLocked" /\ state' = "Round1"),
         oldProposal # Nil => oldProposal' # Nil, newProposal # Nil => newProposal' # Nil,
         UNCHANGED << votes, proposal, testcase, reproposed >>
  PROVE  StateInv'
<1>1. CASE state' = state
  BY <1>1 DEF IInv, StateInv, SuccessSound, FailMeansLock, Voted, Repeated
<1>2. CASE state = "ValueLocked" /\ state' = "Round1"
  BY <1>2 DEF IInv, StateInv, SuccessSound, FailMeansLock
<1>3. QED
  BY <1>1, <1>2

\* A known vote of h was cast.
LEMMA VoteOfH ==
  ASSUME IInv, NEW p \in Replicas, NEW v \in Known(p), v.val = H
  PROVE  v \in votes
  BY PartitionAssumption DEF Known, IInv, BaseInv, NetInv, Genuine

LEMMA CastVote ==
  ASSUME IInv, NEW v \in votes, v.val = H
  PROVE  Voted(v.type, v.round, v.block) /\ v.round \in Rounds
<1>1. v = NewVote(v.type, InitialHeight, v.round, v.block, H)
  BY DEF NewVote, IInv, BaseInv, NetInv, NetTypeOK, PlaceInv, Votes, Valid
<1>2. QED
  BY <1>1 DEF Voted, IInv, BaseInv, PlaceInv

LEMMA JudgeSound ==
  ASSUME IInv, NEW from \in Replicas, NEW v \in Known(from), Judged(from, v), Judge(v),
         UNCHANGED << votes, proposal, testcase, oldProposal, newProposal, reproposed >>
  PROVE  StateInv'
<1>1. /\ state \in {"DiffProposal", "DiffProposalReproposed"}
      /\ testcase \in {"Three", "HigherProp"} /\ H \notin Faulty \cup Rest
  BY TestCasesAssumption, PartitionAssumption DEF Judged, IInv, BaseInv, TypeOK
<1>2. /\ oldProposal = proposal[0] /\ oldProposal \in Blocks
      /\ newProposal # proposal[0] /\ newProposal \in Blocks
  BY <1>1 DEF IInv, StateInv, ProposalInv, Fresh, BaseInv, TypeOK, Values
<1>3. v \in votes => Accounted(v)
  BY DEF IInv, BlockInv
<1>4. CASE state' = state
  BY <1>4, StateStays
<1>5. CASE state' = "failState" /\ v.block = oldProposal
  <2>1. v \in votes /\ (v.val = from \/ v.val \notin Faulty) /\ v.val \in Replicas
    BY <1>2, <1>5, KnownOld DEF IInv, BaseInv, NetInv, NetTypeOK, Votes
  <2>2. v.type = Precommit => v.round = 0 /\ v.val \notin Rest
    BY <1>2, <1>3, <1>5, <2>1 DEF Accounted, Prevote, Precommit
  <2>3. v.val = H
    <3>1. CASE state = "DiffProposal" /\ testcase = "HigherProp"
      <4>1. v.type = Precommit /\ from \in Rest
        BY <3>1 DEF Judged
      <4>2. v.val \notin Faulty
        BY <2>1, <2>2, <4>1
      <4>3. QED
        BY <2>1, <2>2, <4>1, <4>2, PartitionAssumption
    <3>2. QED
      BY <1>1, <3>1 DEF Judged, IsVoteFrom
  <2>4. Voted(v.type, v.round, v.block)
    BY <2>1, <2>3, CastVote
  <2>5. \/ v.type = Precommit
        \/ testcase = "HigherProp" /\ v.type = Prevote /\ v.round = reproposed
    BY <1>1 DEF Judged
  <2>6. FailMeansLock'
    BY <1>2, <1>5, <2>2, <2>4, <2>5 DEF FailMeansLock, Voted
  <2>7. QED
    BY <1>1, <1>2, <1>5, <2>6, NilAssumption DEF StateInv, SuccessSound
<1>6. CASE state' = "successState" /\ v.block = newProposal /\ ~ (testcase = "HigherProp" /\ state = "DiffProposal")
  <2>1. v.val = H
    BY <1>1, <1>6 DEF Judged, IsVoteFrom
  <2>2. v \in votes /\ Voted(v.type, v.round, v.block) /\ v.round \in Rounds
    BY <2>1, VoteOfH, CastVote
  <2>3. v.round # 0
    BY <1>2, <1>3, <1>6, <2>2 DEF Accounted
  <2>4. CASE testcase = "Three"
    <3>1. v.type = Precommit
      BY <2>4 DEF Judged
    <3>2. Voted(Prevote, v.round, v.block)
      BY <1>2, <1>3, <1>6, <2>1, <2>2, <2>4, <3>1 DEF Accounted
    <3>3. SuccessSound'
      BY <1>2, <1>6, <2>2, <2>3, <2>4, <3>1, <3>2 DEF SuccessSound, Voted
    <3>4. QED
      BY <1>1, <1>2, <1>6, <2>4, <3>3, NilAssumption DEF StateInv, FailMeansLock
  <2>5. CASE testcase = "HigherProp"
    <3>1. state = "DiffProposalReproposed" /\ v.type = Prevote /\ v.round = reproposed
      BY <1>1, <1>6, <2>5 DEF Judged
    <3>2. Repeated(reproposed) /\ proposal[reproposed] \notin {Nil, proposal[0]}
      BY <2>5, <3>1 DEF IInv, StateInv
    <3>3. SuccessSound'
      BY <1>2, <1>6, <2>2, <2>3, <2>5, <3>1, <3>2 DEF SuccessSound, Voted, Repeated
    <3>4. QED
      BY <1>1, <1>2, <1>6, <3>2, <3>3, NilAssumption DEF StateInv, FailMeansLock, Repeated
  <2>6. QED
    BY <1>1, <2>4, <2>5
<1>7. QED
  BY <1>4, <1>5, <1>6 DEF Judge

LEMMA VoteKeeps ==
  ASSUME KeysGiven, IInv, NEW from \in Replicas, NEW to \in Replicas, NEW v \in Known(from),
         FaultyVote(from, to, v) \/ HeldPrevote(from, to, v) \/ PassVote(from, to, v)
  PROVE  Notes'
<1>1. /\ VoteStep(from, v)
      /\ UNCHANGED << height, round, votes, proposal, has >>
      /\ UNCHANGED << testcase, prevotesSent, oldProposal, newProposal, reproposed >>
  BY VoteEffect DEF VoteSent, envVars, IInv
<1>2. VotesInv'
  BY VoteKeepsBase DEF IInv
<1>3. ProposalInv' /\ BlockInv'
  BY <1>1 DEF IInv, ProposalInv, Fresh, BlockInv, Accounted, Voted
<1>4. StateInv'
  BY <1>1, StateStays, JudgeSound DEF VoteStep, RoundReached
<1>5. QED
  BY <1>2, <1>3, <1>4 DEF Notes

LEMMA Round0ProposalKeeps ==
  ASSUME IInv, NEW from \in Replicas, NEW to \in Replicas, Round0Proposal(from, to)
  PROVE  Notes'
<1>1. /\ 0 \in Rounds /\ from \in has[0] /\ ProposalStep(from, 0)
      /\ UNCHANGED << height, round, votes, inbox, proposal, testcase, prevotesSent >>
      /\ oldProposal' = proposal[0] /\ UNCHANGED newProposal
  BY ProposalEffect DEF Round0Proposal
<1>2. /\ has' \in [Rounds -> SUBSET Replicas]
      /\ \A r \in Rounds \ {0} : has'[r] = has[r]
      /\ proposal[0] # Nil
  BY <1>1 DEF Round0Proposal, IInv, BaseInv, TypeOK, EnvTypeOK, ProposalInv
<1>3. VotesInv' /\ ProposalInv' /\ BlockInv'
  BY <1>1, <1>2 DEF IInv, VotesInv, ProposalInv, Fresh, BlockInv, Accounted, Voted
<1>4. (state' = state \/ (state = "ValueLocked" /\ state' = "Round1")) /\ UNCHANGED reproposed
  <2>1. state # "start" => oldProposal = proposal[0]
    BY DEF IInv, StateInv, ProposalInv
  <2>2. ~ Repeated(0)
    BY DEF Repeated, Rounds
  <2>3. QED
    BY <1>1, <2>1, <2>2 DEF ProposalStep, DiffPropSeen, NewPropSeen, RoundReached
<1>5. StateInv'
  BY <1>1, <1>2, <1>4, StateStays
<1>6. QED
  BY <1>3, <1>5 DEF Notes

LEMMA OldBlockKeeps ==
  ASSUME IInv, NEW from \in Replicas, NEW to \in Replicas, NEW r \in Rounds, OldBlock(from, to, r)
  PROVE  Notes'
<1>1. /\ from \in has[r] /\ ProposalStep(from, r) /\ proposal[r] = oldProposal
      /\ UNCHANGED << height, round, votes, inbox, proposal, testcase, prevotesSent >>
      /\ UNCHANGED << has, oldProposal, newProposal >>
  BY ProposalEffect DEF OldBlock, Withheld
<1>2. VotesInv' /\ ProposalInv' /\ BlockInv'
  BY <1>1 DEF IInv, VotesInv, ProposalInv, Fresh, BlockInv, Accounted, Voted
<1>3. (state' = state \/ (state = "ValueLocked" /\ state' = "Round1")) /\ UNCHANGED reproposed
  <2>1. proposal[r] # Nil /\ (oldProposal = newProposal => newProposal = Nil)
    BY <1>1 DEF IInv, ProposalInv, Fresh
  <2>2. QED
    BY <1>1, <2>1 DEF ProposalStep, DiffPropSeen, NewPropSeen, RoundReached
<1>4. StateInv'
  BY <1>1, <1>3, StateStays
<1>5. QED
  BY <1>2, <1>4 DEF Notes

LEMMA NewBlockKeeps ==
  ASSUME IInv, NEW from \in Replicas, NEW to \in Replicas, NEW r \in Rounds, NewBlock(from, to, r)
  PROVE  Notes'
<1>1. /\ from \in has[r] /\ ProposalStep(from, r) /\ proposal[r] # oldProposal /\ r # 0
      /\ UNCHANGED << height, round, votes, inbox, proposal, testcase, prevotesSent >>
      /\ newProposal' = proposal[r] /\ UNCHANGED oldProposal
  BY ProposalEffect DEF NewBlock, Withheld
<1>2. proposal[r] # Nil /\ proposal[r] # proposal[0]
  BY <1>1 DEF IInv, ProposalInv
<1>3. /\ has' \in [Rounds -> SUBSET Replicas]
      /\ \A s \in Rounds \ {r} : has'[s] = has[s]
  BY DEF NewBlock, IInv, BaseInv, TypeOK, EnvTypeOK
<1>4. VotesInv' /\ ProposalInv' /\ BlockInv'
  BY <1>1, <1>2, <1>3, RoundAssumption
  DEF IInv, VotesInv, ProposalInv, Fresh, BlockInv, Accounted, Voted, Rounds
<1>5. StateInv'
  <2>1. CASE (state' = state \/ (state = "ValueLocked" /\ state' = "Round1")) /\ UNCHANGED reproposed
    BY <1>1, <1>2, <2>1, StateStays
  <2>2. CASE state = "Round1" /\ state' = "DiffProposal" /\ UNCHANGED reproposed
    BY <1>1, <1>2, <2>2 DEF IInv, StateInv, SuccessSound, FailMeansLock
  <2>3. CASE /\ state = "DiffProposal" /\ state' = "DiffProposalReproposed"
             /\ Repeated(r) /\ reproposed' = r
    BY <1>1, <1>2, <2>3 DEF IInv, StateInv, SuccessSound, FailMeansLock, Repeated
  <2>4. QED
    BY <1>1, <2>1, <2>2, <2>3 DEF ProposalStep, DiffPropSeen, NewPropSeen, RoundReached
<1>6. QED
  BY <1>4, <1>5 DEF Notes

LEMMA ReceiptKeeps ==
  ASSUME IInv, NEW from \in Replicas, NEW v \in inbox[H], PrevoteReceived(from, v)
  PROVE  Notes'
<1>1. /\ oldProposal # Nil /\ state' \in {"start", "ValueLocked"}
      /\ UNCHANGED << height, round, votes, proposal, has, inbox >>
      /\ UNCHANGED << testcase, oldProposal, newProposal, reached, reproposed >>
  BY DEF PrevoteReceived, envVars
<1>2. VotesInv' /\ ProposalInv' /\ BlockInv'
  BY <1>1 DEF IInv, VotesInv, ProposalInv, Fresh, BlockInv, Accounted, Voted
<1>3. StateInv'
  BY <1>1 DEF StateInv, SuccessSound, FailMeansLock
<1>4. QED
  BY <1>2, <1>3 DEF Notes

LEMMA AnnounceKeeps ==
  ASSUME IInv, NEW p \in Replicas, Announce(p)
  PROVE  Notes'
<1>1. /\ state = "ValueLocked" /\ RoundReached(p, round[p])
      /\ UNCHANGED << height, round, votes, proposal, has, inbox >>
      /\ UNCHANGED << testcase, prevotesSent, oldProposal, newProposal, reproposed >>
  BY DEF Announce, envVars
<1>2. VotesInv' /\ ProposalInv' /\ BlockInv'
  BY <1>1 DEF IInv, VotesInv, ProposalInv, Fresh, BlockInv, Accounted, Voted
<1>3. StateInv'
  BY <1>1, StateStays DEF RoundReached
<1>4. QED
  BY <1>2, <1>3 DEF Notes

LEMMA TestEventKeeps == ASSUME KeysGiven, IInv, TestEvent PROVE Notes'
<1>1. CASE VoteEvent
  <2>1. PICK from \in Replicas, to \in Replicas : \E v \in Known(from) :
          FaultyVote(from, to, v) \/ HeldPrevote(from, to, v) \/ PassVote(from, to, v)
    BY <1>1 DEF VoteEvent
  <2>2. QED
    BY <2>1, VoteKeeps
<1>2. CASE ProposalEvent
  <2>1. PICK from \in Replicas, to \in Replicas :
          \/ Round0Proposal(from, to)
          \/ \E r \in Rounds : NewBlock(from, to, r) \/ OldBlock(from, to, r)
    BY <1>2 DEF ProposalEvent
  <2>2. QED
    BY <2>1, Round0ProposalKeeps, NewBlockKeeps, OldBlockKeeps
<1>3. CASE \/ \E from \in Replicas : \E v \in inbox[H] : PrevoteReceived(from, v)
           \/ \E p \in Replicas : Announce(p)
  BY <1>3, ReceiptKeeps, AnnounceKeeps
<1>4. QED
  BY <1>1, <1>2, <1>3 DEF TestEvent

LEMMA NotesInit == Init => Notes
  BY RoundAssumption DEF Init, EnvInit, NetInit, Notes, VotesInv, ProposalInv, BlockInv, Rounds,
     StateInv, SuccessSound, FailMeansLock

LEMMA NotesNext == KeysGiven /\ IInv /\ [Next]_vars => Notes'
<1> SUFFICES ASSUME KeysGiven, IInv, [Next]_vars PROVE Notes'
  OBVIOUS
<1>1. CASE UNCHANGED vars
  BY <1>1 DEF vars, envVars, testVars, IInv, Notes, VotesInv, Fresh, ProposalInv,
              BlockInv, Accounted, Voted, StateInv, SuccessSound, FailMeansLock, Repeated
<1>2. CASE ValidLockingStep /\ UNCHANGED testVars
  BY <1>2, LockingKeeps
<1>3. CASE TestEvent
  BY <1>3, TestEventKeeps
<1>4. QED
  BY <1>1, <1>2, <1>3 DEF Next

\* Types, votes, notes and verdicts, when the keys of h and the faulty replicas
\* can be read; in HigherProp, which knows one faulty replica, for F = 1.
THEOREM Invariance == ASSUME KeysGiven PROVE Spec => []IInv
<1>1. IInv /\ [Next]_vars => IInv'
  BY BaseNext, NotesNext DEF IInv, Notes
<1>2. Init => IInv
  BY BaseInit, NotesInit DEF IInv, Notes
<1>3. QED
  BY <1>1, <1>2, PTL DEF Spec

\* Nobody honest but h sees a quorum for the block of round 0, and nobody sees
\* one for it again.
THEOREM OldBlockAbandonedHolds == ASSUME KeysGiven PROVE Spec => []OldBlockAbandoned
<1>1. IInv => OldBlockAbandoned
  BY OldBlockAbandonedInv
<1>2. QED
  BY <1>1, Invariance, PTL

\* A success means that h went over to another block, whichever rounds the
\* messages that set the compared variables are of.
THEOREM SuccessSoundHolds == ASSUME KeysGiven PROVE Spec => []SuccessSound
<1>1. IInv => SuccessSound
  BY DEF IInv, StateInv
<1>2. QED
  BY <1>1, Invariance, PTL

\* A failure is h's precommit of round 0, or in HigherProp its prevote when the
\* new block is repeated.
THEOREM FailMeansLockHolds == ASSUME KeysGiven PROVE Spec => []FailMeansLock
<1>1. IInv => FailMeansLock
  BY DEF IInv, StateInv
<1>2. QED
  BY <1>1, Invariance, PTL
=============================================================================
