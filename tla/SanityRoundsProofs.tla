-------------------------- MODULE SanityRoundsProofs --------------------------
(***************************************************************************)
(* What SanityRounds.tla claims, for every number of faults, every set of  *)
(* replicas and blocks, any number of rounds and any pattern of forwarding.*)
(***************************************************************************)
EXTENDS SanityRounds, TendermintReplicasProofs

-----------------------------------------------------------------------------
(***************************************************************************)
(* The replicas' steps, in every run.                                      *)
(***************************************************************************)
LEMMA ValidLockingCases ==
  ASSUME ValidLockingStep
  PROVE  \E p \in Replicas :
           \/ \E b \in Blocks : ProposeValid(p, b)
           \/ /\ UNCHANGED << proposal, has >>
              /\ \/ \E b \in Casts : PrevoteLocked(p, b)
                 \/ \E b \in Precommits : CastPrecommit(p, b)
                 \/ NextRound(p)
  BY DEF ValidLockingStep

LEMMA LockingMoves ==
  ASSUME ValidLockingStep
  PROVE  ReplicaMoves \/ UNCHANGED << height, round, votes, inbox >>
  BY ValidLockingCases DEF ReplicaMoves, ProposeValid, Make, PrevoteLocked, CastPrevote, CastPrecommit

\* The proposals and positions after a replica's step, none of which goes back.
LEMMA LockingPlaces ==
  ASSUME NetTypeOK, EnvTypeOK, PlaceInv, ValidLockingStep
  PROVE  /\ proposal' \in [Rounds -> Values] /\ has' \in [Rounds -> SUBSET Replicas]
         /\ \A q \in Replicas : height'[q] = InitialHeight /\ round'[q] \in Rounds /\ round'[q] >= round[q]
         /\ \A v \in votes' : v.height = InitialHeight /\ v.round \in Rounds
<1>1. PICK p \in Replicas :
        \/ \E b \in Blocks : ProposeValid(p, b)
        \/ /\ UNCHANGED << proposal, has >>
           /\ \/ \E b \in Casts : PrevoteLocked(p, b)
              \/ \E b \in Precommits : CastPrecommit(p, b)
              \/ NextRound(p)
  BY ValidLockingCases
<1>2. height[p] = InitialHeight /\ round[p] \in Rounds /\ \A q \in Replicas : round[q] \in Nat
  BY DEF PlaceInv, NetTypeOK
<1>3. CASE \E b \in Blocks : ProposeValid(p, b)
  BY <1>2, <1>3 DEF ProposeValid, Make, EnvTypeOK, PlaceInv, Values
<1>4. CASE /\ UNCHANGED << proposal, has >>
           /\ (\E b \in Casts : PrevoteLocked(p, b)) \/ (\E b \in Precommits : CastPrecommit(p, b))
  <2>1. PICK t \in {Prevote, Precommit}, b \in Casts \cup Precommits : Cast(p, t, b)
    BY <1>4 DEF PrevoteLocked, CastPrevote, CastPrecommit
  <2>2. UNCHANGED << height, round >> /\ \A v \in votes' : v.height = InitialHeight /\ v.round \in Rounds
    BY <1>2, <2>1, CastOne DEF PlaceInv
  <2>3. QED
    BY <1>2, <1>4, <2>2 DEF EnvTypeOK, PlaceInv
<1>5. CASE NextRound(p) /\ UNCHANGED << proposal, has >>
  BY <1>2, <1>5, RoundAssumption DEF NextRound, EnvTypeOK, NetTypeOK, PlaceInv, Rounds
<1>6. QED
  BY <1>1, <1>3, <1>4, <1>5

LEMMA LockingKeepsBase ==
  ASSUME BaseInv, ValidLockingStep, UNCHANGED testVars
  PROVE  BaseInv' /\ votes \subseteq votes' /\ UNCHANGED inbox
<1>1. NetInv(Faulty)' /\ votes \subseteq votes' /\ UNCHANGED inbox
  BY LockingMoves, MovesKeepNet DEF BaseInv
<1>2. UNCHANGED << testcase, state, counted, voteCount, oldProposal >>
  BY DEF testVars
<1>3. /\ proposal' \in [Rounds -> Values] /\ has' \in [Rounds -> SUBSET Replicas]
      /\ \A q \in Replicas : height'[q] = InitialHeight /\ round'[q] \in Rounds /\ round'[q] >= round[q]
      /\ \A v \in votes' : v.height = InitialHeight /\ v.round \in Rounds
  BY LockingPlaces DEF BaseInv, TypeOK, EnvTypeOK
<1>4. TypeOK' /\ PlaceInv'
  BY <1>1, <1>2, <1>3 DEF BaseInv, NetInv, TypeOK, EnvTypeOK, PlaceInv
<1>5. VotesInv' /\ CountInv'
  BY <1>1, <1>2 DEF BaseInv, VotesInv, CountInv, LimitedVoters, Limited, VoteFromFaulty, FaultyPart
<1>6. RoundsInv'
  <2>1. /\ \A q \in Replicas : round[q] >= 1 => round'[q] >= 1
        /\ \A q \in Replicas : round[q] >= 2 => round'[q] >= 2
        /\ \A q \in Replicas, r \in {1, 2} : round[q] >= r => round'[q] >= r
    BY <1>3, RoundAssumption DEF BaseInv, PlaceInv, Rounds
  <2>2. QED
    BY <1>2, <2>1 DEF BaseInv, RoundsInv, RoundsReached
<1>7. QED
  BY <1>1, <1>4, <1>5, <1>6 DEF BaseInv

-----------------------------------------------------------------------------
(***************************************************************************)
(* The state machine: the counters hold what was sent, and a replica sends *)
(* nothing of a round it has not reached.                                  *)
(***************************************************************************)
LEMMA SendStepRounds ==
  ASSUME TypeOK, RoundsInv, NEW from \in Replicas, NEW r \in Nat, r <= round[from],
         SendStep(from, r), UNCHANGED << round, testcase >>
  PROVE  state' \in States /\ counted' \subseteq Replicas \X {1, 2} /\ RoundsInv'
<1>1. /\ testcase \in {"Two", "Three"} /\ state \in States
      /\ counted \subseteq Replicas \X {1, 2} /\ round \in [Replicas -> Nat]
  BY TestCasesAssumption DEF TypeOK, EnvTypeOK, NetTypeOK
<1>2. /\ counted' \subseteq Replicas \X {1, 2}
      /\ \A p \in Replicas, q \in {1, 2} : << p, q >> \in counted' => round[p] >= q
  <2>1. CASE CountRound(from, r)
    <3>1. counted' = counted \cup ({from} \X ({r} \cap {1, 2}))
      BY <2>1 DEF CountRound
    <3>2. ASSUME NEW p \in Replicas, NEW q \in {1, 2}, << p, q >> \in {from} \X ({r} \cap {1, 2})
          PROVE  round[p] >= q
      BY <1>1, <3>2
    <3>3. {from} \X ({r} \cap {1, 2}) \subseteq Replicas \X {1, 2}
      OBVIOUS
    <3>4. QED
      BY <1>1, <3>1, <3>2, <3>3 DEF RoundsInv
  <2>2. CASE UNCHANGED counted
    BY <1>1, <2>2 DEF RoundsInv
  <2>3. QED
    BY <2>1, <2>2 DEF SendStep, PassRound
<1>3. \/ state' = state
      \/ /\ state \in {"start", "round1"} /\ state' = AfterRound
         /\ AllCounted(counted', Target)
  BY DEF SendStep, CountRound, PassRound
<1>4. CASE state' = state
  BY <1>1, <1>2, <1>4 DEF RoundsInv, RoundsReached
<1>5. CASE /\ state \in {"start", "round1"} /\ state' = AfterRound
           /\ AllCounted(counted', Target)
  <2>1. \A p \in Replicas : round[p] >= Target
    BY <1>2, <1>5 DEF AllCounted, Target
  <2>2. CASE state = "start"
    <3>1. state' = "round1" /\ \A p \in Replicas : round[p] >= 1
      BY <1>5, <2>1, <2>2 DEF AfterRound, Target
    <3>2. QED
      BY <1>2, <3>1 DEF RoundsInv, RoundsReached, States
  <2>3. CASE state = "round1"
    <3>1. \A p \in Replicas : round[p] >= 2 /\ round[p] >= 1
      BY <1>1, <2>1, <2>3 DEF Target
    <3>2. state' \in {"failState", "round2"}
      BY <1>5, <2>3 DEF AfterRound
    <3>3. QED
      BY <1>2, <3>1, <3>2 DEF RoundsInv, RoundsReached, States
  <2>4. QED
    BY <1>5, <2>2, <2>3
<1>6. QED
  BY <1>2, <1>3, <1>4, <1>5

-----------------------------------------------------------------------------
(***************************************************************************)
(* The handlers: a vote that is counted adds to its replica's counter what *)
(* it adds to its voters.                                                  *)
(***************************************************************************)
LEMMA LimitedFinite ==
  ASSUME NEW p \in Replicas
  PROVE  IsFiniteSet(LimitedVoters(p)) /\ Cardinality(LimitedVoters(p)) \in Nat
<1>1. LimitedVoters(p) \subseteq Replicas
  BY DEF LimitedVoters
<1>2. QED
  BY <1>1, FAssumption, FS_Subset, FS_CardinalityType

\* The receipt of one vote makes for one voter more at most.
LEMMA VotersGrow ==
  ASSUME NetTypeOK, NEW to \in Replicas, NEW x \in Votes, Valid(x), Deliver(to, x), UNCHANGED testcase
  PROVE  /\ \A p \in Replicas \ {to} : LimitedVoters(p)' = LimitedVoters(p)
         /\ LimitedVoters(to)' \subseteq LimitedVoters(to) \cup {x.val}
         /\ (Limited(to, x) /\ x.block \in Blocks) \/ LimitedVoters(to)' = LimitedVoters(to)
<1>1. inbox'[to] = inbox[to] \cup {x} /\ \A p \in Replicas \ {to} : inbox'[p] = inbox[p]
  BY ReceiveOne DEF Deliver
<1>2. QED
  BY <1>1 DEF LimitedVoters, Limited, VoteFromFaulty, FaultyPart

LEMMA ArrivalKeeps ==
  ASSUME BaseInv, NEW to \in Replicas, NEW x \in Votes, Valid(x), Genuine(x, Faulty), x.height = InitialHeight,
         Deliver(to, x), x \in votes \/ VoteFromFaulty(x), VoteFromFaulty(x) => x.block = Nil,
         UNCHANGED << height, round, votes, testcase >>,
         \/ UNCHANGED voteCount /\ ~ (Limited(to, x) /\ x.block \in Blocks)
         \/ voteCount' = [voteCount EXCEPT ![to] = @ + 1]
  PROVE  /\ NetInv(Faulty)' /\ PlaceInv' /\ VotesInv' /\ CountInv'
         /\ \A p \in Replicas : inbox[p] \subseteq inbox'[p]
<1>1. NetTypeOK /\ Receive({[to |-> to, vote |-> x]})
  BY DEF BaseInv, NetInv, Deliver
<1>2. NetInv(Faulty)' /\ \A p \in Replicas : inbox[p] \subseteq inbox'[p]
  BY <1>1, ReceiveOneKeepsNet DEF BaseInv
<1>3. \A p \in Replicas : \A w \in inbox'[p] : w \in inbox[p] \/ w = x
  BY <1>1, ReceiveAny
<1>4. PlaceInv' /\ VotesInv'
  BY <1>3 DEF BaseInv, PlaceInv, VotesInv, VoteFromFaulty, FaultyPart
<1>5. /\ \A p \in Replicas \ {to} : LimitedVoters(p)' = LimitedVoters(p)
      /\ LimitedVoters(to)' \subseteq LimitedVoters(to) \cup {x.val}
      /\ (Limited(to, x) /\ x.block \in Blocks) \/ LimitedVoters(to)' = LimitedVoters(to)
  BY <1>1, VotersGrow
<1>6. CountInv'
  <2>1. CASE UNCHANGED voteCount /\ ~ (Limited(to, x) /\ x.block \in Blocks)
    BY <1>5, <2>1 DEF BaseInv, CountInv
  <2>2. CASE voteCount' = [voteCount EXCEPT ![to] = @ + 1]
    <3>1. /\ Cardinality(LimitedVoters(to)') \in Nat
          /\ Cardinality(LimitedVoters(to)') <= Cardinality(LimitedVoters(to)) + 1
      BY <1>5, LimitedFinite, OneMoreAtMost
    <3>2. /\ voteCount[to] \in Nat /\ voteCount'[to] = voteCount[to] + 1
          /\ Cardinality(LimitedVoters(to)) \in Nat
          /\ Cardinality(LimitedVoters(to)) <= voteCount[to]
          /\ \A p \in Replicas \ {to} : voteCount'[p] = voteCount[p]
      BY <2>2, LimitedFinite, FAssumption DEF BaseInv, TypeOK, CountInv
    <3>3. \A p \in Replicas : Cardinality(LimitedVoters(p)') <= voteCount'[p]
      BY <1>5, <3>1, <3>2 DEF BaseInv, CountInv
    <3>4. QED
      BY <3>3 DEF CountInv
  <2>3. QED
    BY <2>1, <2>2
<1>7. QED
  BY <1>2, <1>4, <1>6

\* What a vote on its way leads to, whichever handler it meets.
LEMMA VoteEffect ==
  ASSUME BaseInv, NEW from \in Replicas, NEW to \in Replicas, NEW v \in Known(from),
         \/ FaultyVote(from, to, v) \/ CountAndDeliver(from, to, v)
         \/ DropVote(from, to, v) \/ PassVote(from, to, v)
  PROVE  /\ v.round \in Nat /\ v.round <= round[from] /\ SendStep(from, v.round)
         /\ UNCHANGED << height, round, votes, proposal, has, testcase, oldProposal >>
         /\ voteCount' \in [Replicas -> 0 .. 2*F-1]
         /\ NetInv(Faulty)' /\ PlaceInv' /\ VotesInv' /\ CountInv'
         /\ \A p \in Replicas : inbox[p] \subseteq inbox'[p]
<1>1. /\ v \in Votes /\ Valid(v) /\ Genuine(v, Faulty) /\ v.height = InitialHeight
      /\ v \in votes \/ VoteFromFaulty(v)
  BY KnownGenuine DEF Known, BaseInv, PlaceInv, VotesInv
<1>2. VoteSent(from, to, v)
  BY DEF FaultyVote, CountAndDeliver, DropVote, PassVote
<1>3. /\ v.round \in Nat /\ v.round <= round[from] /\ SendStep(from, v.round)
      /\ UNCHANGED << height, round, votes, proposal, has, testcase, oldProposal >>
  BY <1>1, <1>2 DEF VoteSent, MaySend, Reached, BaseInv, PlaceInv, TypeOK, EnvTypeOK, NetTypeOK, Votes, envVars
<1>4. voteCount' \in [Replicas -> 0 .. 2*F-1]
  BY FAssumption DEF FaultyVote, CountAndDeliver, DropVote, PassVote, BaseInv, TypeOK
<1>5. CASE FaultyVote(from, to, v)
  <2> DEFINE x == ChangeVoteToNil(v.val, v)
  <2>1. x \in Votes /\ x.block = Nil /\ x.val = v.val /\ x.height = InitialHeight /\ Valid(x)
    BY <1>1 DEF Votes, ChangeVoteToNil, ChangeVote, Valid
  <2>2. Deliver(to, x) /\ VoteFromFaulty(v) /\ UNCHANGED voteCount
    BY <1>5 DEF FaultyVote
  <2> HIDE DEF x
  <2>3. VoteFromFaulty(x) /\ Genuine(x, Faulty)
    BY <2>1, <2>2, HeightAssumption, PartitionAssumption DEF VoteFromFaulty, FaultyPart, Genuine
  <2>4. QED
    BY <1>3, <1>4, <2>1, <2>2, <2>3, ArrivalKeeps, NilAssumption
<1>6. CASE CountAndDeliver(from, to, v)
  BY <1>1, <1>3, <1>4, <1>6, ArrivalKeeps DEF CountAndDeliver, Limited
<1>7. CASE PassVote(from, to, v)
  BY <1>1, <1>3, <1>4, <1>7, ArrivalKeeps DEF PassVote
<1>8. CASE DropVote(from, to, v)
  <2>1. UNCHANGED << inbox, voteCount >>
    BY <1>8 DEF DropVote
  <2>2. NetInv(Faulty)'
    BY <1>3, <2>1, StutterKeepsNet DEF BaseInv
  <2>3. QED
    BY <1>3, <1>4, <2>1, <2>2
    DEF BaseInv, PlaceInv, VotesInv, CountInv, LimitedVoters, Limited, VoteFromFaulty, FaultyPart
<1>9. QED
  BY <1>5, <1>6, <1>7, <1>8

\* What a proposal on its way leads to.
LEMMA ProposalEffect ==
  ASSUME BaseInv, NEW from \in Replicas, NEW to \in Replicas, NEW r \in Rounds,
         SpoilProposal(from, to, r) \/ DropProposal(from, to, r) \/ PassProposal(from, to, r)
  PROVE  /\ r \in Nat /\ r <= round[from] /\ SendStep(from, r)
         /\ UNCHANGED << height, round, votes, inbox, proposal, testcase, voteCount >>
         /\ has' \in [Rounds -> SUBSET Replicas] /\ oldProposal' \in Values
         /\ UNCHANGED has \/ PassProposal(from, to, r)
<1>1. ProposalSent(from, r)
  BY DEF SpoilProposal, DropProposal, PassProposal
<1>2. r \in Nat /\ r <= round[from] /\ SendStep(from, r)
  BY <1>1, RoundAssumption
  DEF ProposalSent, MaySendProposal, Reached, BaseInv, PlaceInv, TypeOK, EnvTypeOK, NetTypeOK, Rounds
<1>3. UNCHANGED << height, round, votes, inbox, proposal, testcase, voteCount >>
  BY <1>1 DEF ProposalSent
<1>4. has' \in [Rounds -> SUBSET Replicas] /\ oldProposal' \in Values /\ (UNCHANGED has \/ PassProposal(from, to, r))
  BY DEF SpoilProposal, DropProposal, PassProposal, Arrives, BaseInv, TypeOK, EnvTypeOK
<1>5. QED
  BY <1>2, <1>3, <1>4

\* An event that is not a vote's changes nothing of what votes and counters say.
LEMMA QuietKeepsBase ==
  ASSUME BaseInv, UNCHANGED << height, round, votes, inbox, proposal, testcase, voteCount >>,
         has' \in [Rounds -> SUBSET Replicas], oldProposal' \in Values,
         state' \in States, counted' \subseteq Replicas \X {1, 2}, RoundsInv'
  PROVE  BaseInv'
<1>1. NetInv(Faulty)'
  BY StutterKeepsNet DEF BaseInv
<1>2. TypeOK'
  BY DEF BaseInv, TypeOK, EnvTypeOK, NetTypeOK
<1>3. QED
  BY <1>1, <1>2
  DEF BaseInv, PlaceInv, VotesInv, CountInv, LimitedVoters, Limited, VoteFromFaulty, FaultyPart

LEMMA SendCases ==
  ASSUME SendEvent
  PROVE  \E from \in Replicas :
           \/ \E to \in Replicas : \E v \in Known(from) :
                \/ FaultyVote(from, to, v) \/ CountAndDeliver(from, to, v)
                \/ DropVote(from, to, v) \/ PassVote(from, to, v)
           \/ \E to \in Replicas, r \in Rounds :
                SpoilProposal(from, to, r) \/ DropProposal(from, to, r) \/ PassProposal(from, to, r)
           \/ Announce(from)
  BY DEF SendEvent

LEMMA SendEventKeepsBase ==
  ASSUME BaseInv, SendEvent
  PROVE  BaseInv' /\ UNCHANGED votes /\ \A p \in Replicas : inbox[p] \subseteq inbox'[p]
<1>1. PICK from \in Replicas :
        \/ \E to \in Replicas : \E v \in Known(from) :
             \/ FaultyVote(from, to, v) \/ CountAndDeliver(from, to, v)
             \/ DropVote(from, to, v) \/ PassVote(from, to, v)
        \/ \E to \in Replicas, r \in Rounds :
             SpoilProposal(from, to, r) \/ DropProposal(from, to, r) \/ PassProposal(from, to, r)
        \/ Announce(from)
  BY SendCases
<1>2. ASSUME NEW to \in Replicas, NEW v \in Known(from),
             \/ FaultyVote(from, to, v) \/ CountAndDeliver(from, to, v)
             \/ DropVote(from, to, v) \/ PassVote(from, to, v)
      PROVE  BaseInv' /\ UNCHANGED votes /\ \A p \in Replicas : inbox[p] \subseteq inbox'[p]
  <2>1. /\ v.round \in Nat /\ v.round <= round[from] /\ SendStep(from, v.round)
        /\ UNCHANGED << height, round, votes, proposal, has, testcase, oldProposal >>
        /\ voteCount' \in [Replicas -> 0 .. 2*F-1]
        /\ NetInv(Faulty)' /\ PlaceInv' /\ VotesInv' /\ CountInv'
        /\ \A p \in Replicas : inbox[p] \subseteq inbox'[p]
    BY <1>2, VoteEffect
  <2>2. state' \in States /\ counted' \subseteq Replicas \X {1, 2} /\ RoundsInv'
    BY <2>1, SendStepRounds DEF BaseInv
  <2>3. TypeOK'
    BY <2>1, <2>2 DEF BaseInv, NetInv, TypeOK, EnvTypeOK
  <2>4. QED
    BY <2>1, <2>2, <2>3 DEF BaseInv
<1>3. ASSUME NEW to \in Replicas, NEW r \in Rounds,
             SpoilProposal(from, to, r) \/ DropProposal(from, to, r) \/ PassProposal(from, to, r)
      PROVE  BaseInv' /\ UNCHANGED << votes, inbox >>
  <2>1. /\ r \in Nat /\ r <= round[from] /\ SendStep(from, r)
        /\ UNCHANGED << height, round, votes, inbox, proposal, testcase, voteCount >>
        /\ has' \in [Rounds -> SUBSET Replicas] /\ oldProposal' \in Values
    BY <1>3, ProposalEffect
  <2>2. state' \in States /\ counted' \subseteq Replicas \X {1, 2} /\ RoundsInv'
    BY <2>1, SendStepRounds DEF BaseInv
  <2>3. QED
    BY <2>1, <2>2, QuietKeepsBase
<1>4. CASE Announce(from)
  <2>1. /\ round[from] \in Nat /\ SendStep(from, round[from])
        /\ UNCHANGED << height, round, votes, proposal, has, inbox, testcase, voteCount, oldProposal >>
        /\ has' \in [Rounds -> SUBSET Replicas] /\ oldProposal' \in Values
    BY <1>4 DEF Announce, envVars, BaseInv, TypeOK, EnvTypeOK, NetTypeOK
  <2>2. state' \in States /\ counted' \subseteq Replicas \X {1, 2} /\ RoundsInv'
    BY <2>1, SendStepRounds DEF BaseInv
  <2>3. QED
    BY <2>1, <2>2, QuietKeepsBase
<1>5. QED
  BY <1>1, <1>2, <1>3, <1>4

\* Commits and everything else that is not sent.
LEMMA OtherEventKeepsBase ==
  ASSUME BaseInv, CommitEvent \/ OtherEvent
  PROVE  BaseInv' /\ UNCHANGED << height, round, votes, inbox, proposal, has, testcase >>
<1>1. /\ UNCHANGED << height, round, votes, proposal, has, inbox, testcase, counted, voteCount, oldProposal >>
      /\ has' \in [Rounds -> SUBSET Replicas] /\ oldProposal' \in Values
  BY DEF CommitEvent, OtherEvent, PassRound, envVars, BaseInv, TypeOK, EnvTypeOK
<1>2. state' \in States /\ counted' \subseteq Replicas \X {1, 2} /\ RoundsInv'
  <2>1. CASE CommitEvent
    <3>1. testcase \in {"Two", "Three"} /\ counted' \subseteq Replicas \X {1, 2}
      BY <1>1, TestCasesAssumption DEF BaseInv, TypeOK
    <3>2. /\ state' \in {"successState", "failState"}
          /\ state' = "successState" => state = IF testcase = "Two" THEN "round1" ELSE "round2"
      BY <2>1 DEF CommitEvent, AfterCommit
    <3>3. CASE testcase = "Two"
      BY <1>1, <3>1, <3>2, <3>3 DEF BaseInv, RoundsInv, RoundsReached, States
    <3>4. CASE testcase = "Three"
      BY <1>1, <3>1, <3>2, <3>4 DEF BaseInv, RoundsInv, RoundsReached, States
    <3>5. QED
      BY <3>1, <3>3, <3>4
  <2>2. CASE OtherEvent
    <3>1. PICK p \in Replicas : TRUE
      BY PartitionAssumption
    <3>2. SendStep(p, 0) /\ 0 <= round[p]
      BY <2>2 DEF OtherEvent, SendStep, BaseInv, TypeOK, EnvTypeOK, NetTypeOK
    <3>3. QED
      BY <1>1, <3>2, SendStepRounds DEF BaseInv
  <2>3. QED
    BY <2>1, <2>2
<1>3. QED
  BY <1>1, <1>2, QuietKeepsBase

LEMMA BaseInit == Init => BaseInv
<1> SUFFICES ASSUME Init PROVE BaseInv
  OBVIOUS
<1>1. NetInv(Faulty)
  BY NetInvInit DEF Init, EnvInit
<1>2. TypeOK /\ PlaceInv /\ VotesInv /\ RoundsInv
  BY <1>1, FAssumption, RoundAssumption
  DEF Init, EnvInit, NetInit, NetInv, TypeOK, EnvTypeOK, PlaceInv, VotesInv, RoundsInv, RoundsReached,
      Rounds, Values, States
<1>3. CountInv
  <2>1. \A p \in Replicas : LimitedVoters(p) = {} /\ voteCount[p] = 0
    BY DEF Init, EnvInit, NetInit, LimitedVoters
  <2>2. QED
    BY <2>1, FS_EmptySet DEF CountInv
<1>4. QED
  BY <1>1, <1>2, <1>3 DEF BaseInv

LEMMA BaseNext == BaseInv /\ [Next]_vars => BaseInv'
<1> SUFFICES ASSUME BaseInv, [Next]_vars PROVE BaseInv'
  OBVIOUS
<1>1. CASE UNCHANGED vars
  <2>1. UNCHANGED << height, round, votes, proposal, has, inbox, testcase, state, counted, voteCount, oldProposal >>
    BY <1>1 DEF vars, envVars, testVars
  <2>2. QED
    BY <2>1, QuietKeepsBase DEF BaseInv, TypeOK, EnvTypeOK, RoundsInv, RoundsReached
<1>2. CASE ValidLockingStep /\ UNCHANGED testVars
  BY <1>2, LockingKeepsBase
<1>3. CASE SendEvent
  BY <1>3, SendEventKeepsBase
<1>4. CASE CommitEvent \/ OtherEvent
  BY <1>4, OtherEventKeepsBase
<1>5. QED
  BY <1>1, <1>2, <1>3, <1>4 DEF Next

\* What holds in every run of either test case, whosever keys can be read.
THEOREM BaseInvariance == Spec => []BaseInv
  BY BaseInit, BaseNext, PTL DEF Spec

\* A state of the state machine is entered only when all replicas have reached
\* its round.
THEOREM RoundsReachedHolds == Spec => []RoundsReached
<1>1. BaseInv => RoundsReached
  BY DEF BaseInv, RoundsInv
<1>2. QED
  BY <1>1, BaseInvariance, PTL

\* The test cases are networks in which only the replicas they call faulty are
\* Byzantine, whatever they withhold: they implement ByzantineNetwork.
THEOREM Refinement == Spec => IsByzantineNetwork
<1>1. Init => BN!Init
  BY DEF Init, EnvInit, NetInit, BN!Init
<1>2. BaseInv /\ BaseInv' /\ [Next]_vars => [BN!Cast \/ BN!Deliver]_<< votes, inbox >>
  <2> SUFFICES ASSUME BaseInv, BaseInv', [Next]_vars
               PROVE  BN!Cast \/ BN!Deliver \/ UNCHANGED << votes, inbox >>
    OBVIOUS
  <2>1. CASE UNCHANGED vars
    BY <2>1 DEF vars, envVars
  <2>2. CASE ValidLockingStep /\ UNCHANGED testVars
    <3>1. votes \subseteq votes' /\ UNCHANGED inbox
      BY <2>2, LockingKeepsBase
    <3>2. \A v, w \in votes' : ~ BN!Conflict(v, w)
      BY DEF BaseInv, NetInv, OneVote, BN!Conflict
    <3>3. QED
      BY <3>1, <3>2 DEF BaseInv, NetInv, BN!Cast, BN!Valid, Valid
  <2>3. CASE SendEvent
    <3>1. UNCHANGED votes /\ \A p \in Replicas : inbox[p] \subseteq inbox'[p]
      BY <2>3, SendEventKeepsBase
    <3>2. QED
      BY <3>1 DEF BaseInv, NetInv, NetTypeOK, Genuine, BN!Deliver, BN!Valid, Valid
  <2>4. CASE CommitEvent \/ OtherEvent
    BY <2>4, OtherEventKeepsBase
  <2>5. QED
    BY <2>1, <2>2, <2>3, <2>4 DEF Next
<1>3. QED
  BY <1>1, <1>2, BaseInvariance, PTL DEF Spec, BN!Spec, IsByzantineNetwork

\* The parts make 3F+1 replicas: the faulty ones are too few for two quorums.
LEMMA FewFaulty == Tolerated(Faulty)
<1>1. Replicas = {Lone} \cup ToLock \cup ToNotLock /\ Lone \notin ToLock \cup ToNotLock /\ ToLock \cap ToNotLock = {}
  BY PartitionAssumption
<1>2. Cardinality(Replicas) = Cardinality(ToLock) + Cardinality(ToNotLock) + 1
  BY <1>1, CountParts
<1>3. QED
  BY <1>2, PartitionAssumption, FAssumption DEF Tolerated

\* No two quorums for different values, although every replica is told that the
\* faulty ones voted nil.
THEOREM QuorumsAgreeHolds == Spec => []QuorumsAgree
<1>1. BaseInv => QuorumsAgree
  BY FewFaulty, AgreeInv DEF BaseInv
<1>2. QED
  BY <1>1, BaseInvariance, PTL

-----------------------------------------------------------------------------
(***************************************************************************)
(* Whose votes for a block a replica can know.                             *)
(***************************************************************************)
LEMMA ToLockNoQuorum == ASSUME NEW S, S \subseteq ToLock PROVE ~ Quorum(S)
<1>1. Cardinality(S) \in Nat /\ Cardinality(S) <= F + 1
  BY LargerSet, PartitionAssumption
<1>2. QED
  BY <1>1, FAssumption DEF Quorum

\* The votes the counter let through make no quorum with the replica's own.
LEMMA LimitedNoQuorum ==
  ASSUME TypeOK, CountInv, NEW p \in Replicas, NEW S, S \subseteq LimitedVoters(p) \cup {p}
  PROVE  ~ Quorum(S)
<1>1. Cardinality(S) \in Nat /\ Cardinality(S) <= Cardinality(LimitedVoters(p)) + 1
  BY LimitedFinite, OneMoreAtMost
<1>2. /\ Cardinality(LimitedVoters(p)) \in Nat
      /\ Cardinality(LimitedVoters(p)) <= voteCount[p]
      /\ voteCount[p] \in Nat /\ voteCount[p] <= 2 * F - 1
  BY LimitedFinite, FAssumption DEF TypeOK, CountInv
<1>3. Cardinality(S) <= 2 * F
  BY <1>1, <1>2, FAssumption
<1>4. QED
  BY <1>1, <1>3, FAssumption DEF Quorum

\* A known vote for a block was cast, and not by a validator the test case knows
\* as faulty unless it is the replica's own.
LEMMA KnownBlock ==
  ASSUME BaseInv, NEW p \in Replicas, NEW v \in Known(p), v.block \in Blocks
  PROVE  /\ v \in votes
         /\ v.val = p \/ (v \in inbox[p] /\ ~ VoteFromFaulty(v))
<1>1. CASE v \in inbox[p]
  BY <1>1, NilAssumption DEF BaseInv, VotesInv
<1>2. CASE v \in votes /\ v.val = p
  BY <1>2
<1>3. QED
  BY <1>1, <1>2 DEF Known

LEMMA CommitVotersTwo ==
  ASSUME BaseInv, testcase = "Two", NEW p \in Replicas, NEW b \in Blocks
  PROVE  ~ KnownCommit(p, InitialHeight, 0, b)
<1> DEFINE S == Voters(Known(p), Precommit, InitialHeight, 0, b)
<1>1. ASSUME NEW q \in S PROVE q \in LimitedVoters(p) \cup {p}
  <2>1. PICK v \in Known(p) : v.type = Precommit /\ v.round = 0 /\ v.block = b /\ v.val = q
    BY DEF Voters
  <2>2. v.val = p \/ (v \in inbox[p] /\ ~ VoteFromFaulty(v))
    BY <2>1, KnownBlock
  <2>3. CASE v \in inbox[p] /\ ~ VoteFromFaulty(v)
    <3>1. Limited(p, v)
      BY <2>1, <2>3 DEF Limited
    <3>2. q \in Replicas
      BY DEF Voters
    <3>3. QED
      BY <2>1, <2>3, <3>1, <3>2 DEF LimitedVoters
  <2>4. QED
    BY <2>1, <2>2, <2>3
<1> HIDE DEF S
<1>2. ~ Quorum(S)
  BY <1>1, LimitedNoQuorum DEF BaseInv
<1>3. QED
  BY <1>2 DEF KnownCommit, S

LEMMA NotLockVoters ==
  ASSUME BaseInv, testcase = "Three", NEW p \in ToNotLock, NEW b \in Blocks
  PROVE  ~ Polka(p, InitialHeight, 0, b)
<1> DEFINE S == Voters(Known(p), Prevote, InitialHeight, 0, b)
<1>0. p \in Replicas
  BY PartitionAssumption
<1>1. ASSUME NEW q \in S PROVE q \in LimitedVoters(p) \cup {p}
  <2>1. PICK v \in Known(p) : v.type = Prevote /\ v.round = 0 /\ v.block = b /\ v.val = q
    BY DEF Voters
  <2>2. v.val = p \/ (v \in inbox[p] /\ ~ VoteFromFaulty(v))
    BY <1>0, <2>1, KnownBlock
  <2>3. CASE v \in inbox[p] /\ ~ VoteFromFaulty(v)
    <3>1. Limited(p, v)
      BY <2>1, <2>3 DEF Limited
    <3>2. q \in Replicas
      BY DEF Voters
    <3>3. QED
      BY <2>1, <2>3, <3>1, <3>2 DEF LimitedVoters
  <2>4. QED
    BY <2>1, <2>2, <2>3
<1> HIDE DEF S
<1>2. ~ Quorum(S)
  BY <1>0, <1>1, LimitedNoQuorum DEF BaseInv
<1>3. QED
  BY <1>2 DEF Polka, S

\* Whosever keys can be read, the counters of Two keep everybody from a commit in
\* round 0, and those of Three a replica that is not to lock from a quorum of
\* prevotes there.  (countAndDeliver.)
THEOREM CountersHold ==
  Spec => [](\A b \in Blocks :
               IF testcase = "Two"
               THEN \A p \in Replicas : ~ KnownCommit(p, InitialHeight, 0, b)
               ELSE \A p \in ToNotLock : ~ Polka(p, InitialHeight, 0, b))
<1>1. BaseInv => \A b \in Blocks :
                   IF testcase = "Two"
                   THEN \A p \in Replicas : ~ KnownCommit(p, InitialHeight, 0, b)
                   ELSE \A p \in ToNotLock : ~ Polka(p, InitialHeight, 0, b)
  BY CommitVotersTwo, NotLockVoters, TestCasesAssumption DEF BaseInv, TypeOK
<1>2. QED
  BY <1>1, BaseInvariance, PTL

-----------------------------------------------------------------------------
(***************************************************************************)
(* The invariant implies the properties, when Three can read the key of    *)
(* Lone: its votes then are for nil wherever they are not its own.         *)
(***************************************************************************)
LEMMA LoneSaysNil ==
  ASSUME KeysGiven, BaseInv, testcase = "Three", NEW p \in Honest, NEW v \in Known(p), v.block \in Blocks
  PROVE  v \in votes /\ v.val # Lone
<1>1. p \in Replicas /\ p # Lone /\ Lone \in Keyed /\ FaultyPart = {Lone}
  BY DEF Honest, KeysGiven, BaseInv, TypeOK, FaultyPart
<1>2. QED
  BY <1>1, KnownBlock DEF VoteFromFaulty

LEMMA CommitVotersThree ==
  ASSUME KeysGiven, IInv, testcase = "Three", NEW p \in Honest, NEW r \in {0, 1}, NEW b \in Blocks
  PROVE  ~ KnownCommit(p, InitialHeight, r, b)
<1> DEFINE S == Voters(Known(p), Precommit, InitialHeight, r, b)
<1>1. ASSUME NEW q \in S PROVE q \in ToLock
  <2>1. PICK v \in Known(p) : v.type = Precommit /\ v.round = r /\ v.block = b /\ v.val = q
    BY DEF Voters
  <2>2. v \in votes /\ q # Lone
    BY <2>1, LoneSaysNil DEF IInv
  <2>3. q \in Replicas /\ q \notin ToNotLock
    BY <2>1, <2>2 DEF Voters, IInv, LockInv
  <2>4. QED
    BY <2>2, <2>3, PartitionAssumption
<1> HIDE DEF S
<1>2. ~ Quorum(S)
  BY <1>1, ToLockNoQuorum
<1>3. QED
  BY <1>2 DEF KnownCommit, S

LEMMA NoEarlyCommitInv == KeysGiven /\ IInv => NoEarlyCommit
  BY CommitVotersTwo, CommitVotersThree, TestCasesAssumption DEF NoEarlyCommit, IInv, BaseInv, TypeOK

\* Nobody but the proposer of round 1 prevotes anything new there.
LEMMA NewBlockVoters ==
  ASSUME IInv, NEW p \in Replicas, NEW b \in Blocks, b # proposal[0]
  PROVE  ~ Polka(p, InitialHeight, 1, b)
<1> DEFINE S == Voters(Known(p), Prevote, InitialHeight, 1, b)
<1>1. ASSUME NEW q \in S PROVE q \in {Proposer[1]}
  <2>1. PICK v \in Known(p) : v.type = Prevote /\ v.round = 1 /\ v.block = b /\ v.val = q
    BY DEF Voters
  <2>2. v \in votes
    BY <2>1, KnownBlock DEF IInv
  <2>3. QED
    BY <2>1, <2>2 DEF IInv, BlockInv
<1> HIDE DEF S
<1>2. ~ Quorum(S)
  BY <1>1, PairNoQuorum
<1>3. QED
  BY <1>2 DEF Polka, S

LEMMA OldBlockVoters ==
  ASSUME KeysGiven, IInv, testcase = "Three", NEW p \in Honest, NEW b \in Blocks
  PROVE  ~ Polka(p, InitialHeight, 1, b)
<1>0. p \in Replicas
  BY DEF Honest
<1>1. CASE b = proposal[0]
  <2> DEFINE S == Voters(Known(p), Prevote, InitialHeight, 1, b)
  <2>1. ASSUME NEW q \in S PROVE q \in ToLock
    <3>1. PICK v \in Known(p) : v.type = Prevote /\ v.round = 1 /\ v.block = b /\ v.val = q
      BY DEF Voters
    <3>2. v \in votes /\ q # Lone
      BY <3>1, LoneSaysNil DEF IInv
    <3>3. q \in Replicas /\ q \notin ToNotLock
      BY <1>1, <3>1, <3>2 DEF Voters, IInv, LockInv
    <3>4. QED
      BY <3>2, <3>3, PartitionAssumption
  <2> HIDE DEF S
  <2>2. ~ Quorum(S)
    BY <2>1, ToLockNoQuorum
  <2>3. QED
    BY <2>2 DEF Polka, S
<1>2. QED
  BY <1>0, <1>1, NewBlockVoters

LEMMA OldBlockOnlyInv == KeysGiven /\ IInv => OldBlockOnly
  BY NewBlockVoters, OldBlockVoters, NotLockVoters, TestCasesAssumption DEF OldBlockOnly, IInv, BaseInv, TypeOK

-----------------------------------------------------------------------------
(***************************************************************************)
(* The replicas' steps keep the invariant: a precommit for a block needs a *)
(* quorum of the ones just excluded, a prevote the lock or the proposal.   *)
(***************************************************************************)
\* What a vote that is cast must satisfy for the invariant to survive.
Harmless(w) ==
  w.block \in Blocks =>
    /\ w.round = 0 => w.block = proposal[0]
    /\ w.type = Prevote /\ w.round = 1 /\ w.block # proposal[0]
         => w.val = Proposer[1] /\ w.block = proposal[1]
    /\ testcase = "Three" /\ w.type = Precommit /\ w.round = 0 => w.val \notin ToNotLock
    /\ testcase = "Three" /\ w.type = Prevote /\ w.round = 1 /\ w.block = proposal[0] => w.val \notin ToNotLock
    /\ testcase = "Three" /\ w.type = Precommit /\ w.round = 1 => w.val = Lone

LEMMA CastKeeps ==
  ASSUME IInv, BaseInv', NEW w \in Votes, Harmless(w), votes' = votes \cup {w},
         UNCHANGED << proposal, has >>, UNCHANGED testVars
  PROVE  IInv'
<1>1. BlockInv'
  BY DEF IInv, BlockInv, Harmless
<1>2. LockInv'
  BY DEF IInv, LockInv, Harmless, testVars
<1>3. QED
  BY <1>1, <1>2 DEF IInv

\* A quorum of prevotes for a block in round 0 has the block proposed there.
LEMMA PolkaForProposal ==
  ASSUME IInv, NEW p \in Replicas, NEW b \in Blocks, Polka(p, InitialHeight, 0, b)
  PROVE  b = proposal[0]
<1> DEFINE S == Voters(Known(p), Prevote, InitialHeight, 0, b)
<1>1. PICK q : q \in S
  <2> HIDE DEF S
  <2>1. Quorum(S)
    BY DEF Polka, S
  <2>2. QED
    BY <2>1, QuorumNotEmpty
<1>2. PICK v \in Known(p) : v.round = 0 /\ v.block = b
  BY <1>1 DEF Voters
<1>3. v \in votes
  BY <1>2, KnownBlock DEF IInv
<1>4. QED
  BY <1>2, <1>3 DEF IInv, BlockInv

\* Whom a lock of round 0 makes prevote what in round 1.
LEMMA LockedBlock ==
  ASSUME IInv, NEW p \in Replicas, NEW b \in Blocks, LockedOn(p, b), round[p] = 1
  PROVE  b = proposal[0] /\ (testcase = "Three" => p \notin ToNotLock)
<1>1. PICK v \in votes : v.type = Precommit /\ v.val = p /\ v.block = b /\ v.round < 1
  BY DEF LockedOn
<1>2. v.round \in Nat
  BY DEF IInv, BaseInv, NetInv, NetTypeOK, Votes
<1>3. v.round = 0
  BY <1>1, <1>2
<1>4. QED
  BY <1>1, <1>3 DEF IInv, BlockInv, LockInv

LEMMA NothingLocked ==
  ASSUME IInv, NEW p \in Replicas, NEW b, LockedOn(p, b)
  PROVE  round[p] # 0
  BY DEF LockedOn, IInv, BaseInv, NetInv, NetTypeOK, Votes

LEMMA ReplicaPosition ==
  ASSUME IInv, NEW p \in Replicas
  PROVE  NetTypeOK /\ height[p] = InitialHeight /\ round[p] \in Rounds /\ 0 \in Rounds
  BY RoundAssumption DEF IInv, BaseInv, NetInv, PlaceInv, Rounds

LEMMA PrevoteKeeps ==
  ASSUME IInv, BaseInv', NEW p \in Replicas, NEW b \in Casts, PrevoteLocked(p, b),
         UNCHANGED << proposal, has >>, UNCHANGED testVars
  PROVE  IInv'
<1>1. Prevote \in {Prevote, Precommit} /\ Cast(p, Prevote, b) /\ b \in Casts \cup Precommits
  BY DEF PrevoteLocked, CastPrevote
<1>2. PICK w \in Votes :
        /\ Valid(w) /\ votes' = votes \cup {w}
        /\ w.val = p /\ w.type = Prevote /\ w.height = height[p] /\ w.round = round[p] /\ w.block = b
        /\ UNCHANGED << height, round, inbox >>
  BY <1>1, ReplicaPosition, CastOne
<1>3. CASE b \in Blocks /\ round[p] = 0
  <2>1. b = proposal[0]
    BY <1>3, NothingLocked, NilAssumption DEF PrevoteLocked
  <2>2. Harmless(w)
    BY <1>2, <1>3, <2>1 DEF Harmless, Prevote, Precommit
  <2>3. QED
    BY <1>2, <2>2, CastKeeps
<1>4. CASE b \in Blocks /\ round[p] = 1
  <2>1. CASE LockedOn(p, b)
    <3>1. Harmless(w)
      BY <1>2, <1>4, <2>1, LockedBlock DEF Harmless, Prevote, Precommit
    <3>2. QED
      BY <1>2, <3>1, CastKeeps
  <2>2. CASE b = proposal[1] /\ p \in has[1]
    <3>1. p = Proposer[1] /\ 1 \in Rounds
      BY <1>4, <2>2, ReplicaPosition DEF IInv, BlockInv
    <3>2. testcase = "Three" /\ b = proposal[0] => p \notin ToNotLock
      BY <1>4, <2>2, <3>1, NilAssumption DEF IInv, LockInv
    <3>3. Harmless(w)
      BY <1>2, <1>4, <2>2, <3>1, <3>2 DEF Harmless, Prevote, Precommit
    <3>4. QED
      BY <1>2, <3>3, CastKeeps
  <2>3. QED
    BY <1>4, <2>1, <2>2, NilAssumption DEF PrevoteLocked
<1>5. CASE ~ (b \in Blocks /\ (round[p] = 0 \/ round[p] = 1))
  <2>1. Harmless(w)
    BY <1>2, <1>5 DEF Harmless
  <2>2. QED
    BY <1>2, <2>1, CastKeeps
<1>6. QED
  BY <1>3, <1>4, <1>5

LEMMA PrecommitKeeps ==
  ASSUME KeysGiven, IInv, BaseInv', NEW p \in Replicas, NEW b \in Precommits, CastPrecommit(p, b),
         UNCHANGED << proposal, has >>, UNCHANGED testVars
  PROVE  IInv'
<1>1. Precommit \in {Prevote, Precommit} /\ Cast(p, Precommit, b) /\ b \in Casts \cup Precommits
  BY DEF CastPrecommit
<1>2. PICK w \in Votes :
        /\ Valid(w) /\ votes' = votes \cup {w}
        /\ w.val = p /\ w.type = Precommit /\ w.height = height[p] /\ w.round = round[p] /\ w.block = b
        /\ UNCHANGED << height, round, inbox >>
  BY <1>1, ReplicaPosition, CastOne
<1>3. b \in Blocks => Polka(p, InitialHeight, round[p], b)
  BY ReplicaPosition DEF CastPrecommit
<1>4. b \in Blocks /\ round[p] = 0 => b = proposal[0] /\ (testcase = "Three" => p \notin ToNotLock)
  BY <1>3, PolkaForProposal, NotLockVoters DEF IInv
<1>5. b \in Blocks /\ round[p] = 1 /\ testcase = "Three" => p = Lone
  BY <1>3, OldBlockVoters DEF Honest
<1>6. Harmless(w)
  BY <1>2, <1>4, <1>5 DEF Harmless, Prevote, Precommit
<1>7. QED
  BY <1>2, <1>6, CastKeeps

LEMMA ProposeKeeps ==
  ASSUME IInv, BaseInv', NEW p \in Replicas, NEW b \in Blocks, ProposeValid(p, b), UNCHANGED testVars
  PROVE  IInv'
<1>1. /\ round[p] \in Rounds /\ 0 \in Rounds
      /\ proposal[round[p]] = Nil /\ b # Nil
      /\ proposal' = [proposal EXCEPT ![round[p]] = b]
      /\ has' = [has EXCEPT ![round[p]] = {p}]
      /\ p = Proposer[round[p]]
      /\ UNCHANGED << height, round, votes, inbox, testcase, state, counted, voteCount, oldProposal >>
  BY ReplicaPosition, NilAssumption DEF ProposeValid, Make, testVars
<1>2. proposal \in [Rounds -> Values] /\ has \in [Rounds -> SUBSET Replicas]
  BY DEF IInv, BaseInv, TypeOK, EnvTypeOK
<1>3. \A r \in Rounds : proposal[r] = b => \E s \in Rounds : s < round[p] /\ Polka(p, InitialHeight, s, b)
  BY ReplicaPosition DEF ProposeValid
<1>4. CASE round[p] = 0
  <2>1. /\ proposal'[0] = b /\ proposal[0] = Nil
        /\ 1 \in Rounds => proposal'[1] = proposal[1] /\ has'[1] = has[1]
    BY <1>1, <1>2, <1>4
  <2>2. \A r \in Rounds : proposal[r] # b
    <3>1. \A s \in Rounds : s \in Nat
      BY RoundAssumption DEF Rounds
    <3>2. QED
      BY <1>3, <1>4, <3>1
  <2>3. \A v \in votes : v.round = 1 => 1 \in Rounds
    BY DEF IInv, BaseInv, PlaceInv
  <2>4. BlockInv'
    BY <1>1, <2>1, <2>3, NilAssumption DEF IInv, BlockInv
  <2>5. \A v \in votes : v.type = Prevote /\ v.round = 1 /\ v.block \in Blocks => v.block # b
    BY <2>1, <2>2, <2>3, NilAssumption DEF IInv, BlockInv
  <2>6. LockInv'
    BY <1>1, <2>1, <2>2, <2>5 DEF IInv, LockInv
  <2>7. QED
    BY <2>4, <2>6 DEF IInv
<1>5. CASE round[p] = 1
  <2>1. /\ 1 \in Rounds /\ proposal[1] = Nil
        /\ proposal'[0] = proposal[0] /\ proposal'[1] = b /\ has'[1] = {p} /\ p = Proposer[1]
    BY <1>1, <1>2, <1>5
  <2>2. BlockInv'
    BY <1>1, <2>1, NilAssumption DEF IInv, BlockInv
  <2>3. testcase = "Three" /\ proposal[0] = b => p \notin ToNotLock
    <3>1. ASSUME proposal[0] = b PROVE Polka(p, InitialHeight, 0, b)
      <4>1. PICK s \in Rounds : s < 1 /\ Polka(p, InitialHeight, s, b)
        BY <1>1, <1>3, <1>5, <3>1
      <4>2. s = 0
        BY <4>1, RoundAssumption DEF Rounds
      <4>3. QED
        BY <4>1, <4>2
    <3>2. QED
      BY <3>1, NotLockVoters DEF IInv
  <2>4. LockInv'
    BY <1>1, <2>1, <2>3 DEF IInv, LockInv
  <2>5. QED
    BY <2>2, <2>4 DEF IInv
<1>6. CASE round[p] # 0 /\ round[p] # 1
  <2>1. /\ proposal'[0] = proposal[0]
        /\ 1 \in Rounds => proposal'[1] = proposal[1] /\ has'[1] = has[1]
    BY <1>1, <1>2, <1>6
  <2>2. \A v \in votes : v.round = 1 => 1 \in Rounds
    BY DEF IInv, BaseInv, PlaceInv
  <2>3. BlockInv' /\ LockInv'
    BY <1>1, <2>1, <2>2 DEF IInv, BlockInv, LockInv
  <2>4. QED
    BY <2>3 DEF IInv
<1>7. QED
  BY <1>4, <1>5, <1>6

LEMMA LockingKeeps ==
  ASSUME KeysGiven, IInv, ValidLockingStep, UNCHANGED testVars
  PROVE  IInv'
<1>1. BaseInv'
  BY LockingKeepsBase DEF IInv
<1>2. ASSUME NEW p \in Replicas, NextRound(p), UNCHANGED << proposal, has >>
      PROVE  IInv'
  <2>1. UNCHANGED << votes, testcase >>
    BY <1>2 DEF NextRound, testVars
  <2>2. QED
    BY <1>1, <1>2, <2>1 DEF IInv, BlockInv, LockInv
<1>3. QED
  BY <1>1, <1>2, ValidLockingCases, ProposeKeeps, PrevoteKeeps, PrecommitKeeps

\* changeProposal and DontDeliverMessage keep the proposal of round 1 with the
\* replica that made it.
LEMMA ProposalKeeps ==
  ASSUME KeysGiven, IInv, NEW from \in Replicas, NEW to \in Replicas, NEW r \in Rounds,
         SpoilProposal(from, to, r) \/ DropProposal(from, to, r) \/ PassProposal(from, to, r)
  PROVE  1 \in Rounds => has'[1] = has[1]
<1>1. CASE UNCHANGED has
  BY <1>1
<1>2. CASE PassProposal(from, to, r)
  <2>1. r # 1
    <3>1. ASSUME r = 1 PROVE testcase = "Two" /\ from = Proposer[1] /\ ~ CanChangeVote(from)
      BY <1>2, <3>1 DEF PassProposal, ProposalSent, MaySendProposal, IInv, BlockInv
    <3>2. QED
      BY <3>1 DEF KeysGiven, CanChangeVote, IInv, BaseInv, TypeOK
  <2>2. QED
    BY <1>2, <2>1 DEF PassProposal, Arrives, IInv, BaseInv, TypeOK, EnvTypeOK
<1>3. QED
  BY <1>1, <1>2 DEF SpoilProposal, DropProposal

LEMMA SendEventKeeps ==
  ASSUME KeysGiven, IInv, SendEvent
  PROVE  IInv'
<1>1. BaseInv'
  BY SendEventKeepsBase DEF IInv
<1>2. PICK from \in Replicas :
        \/ \E to \in Replicas : \E v \in Known(from) :
             \/ FaultyVote(from, to, v) \/ CountAndDeliver(from, to, v)
             \/ DropVote(from, to, v) \/ PassVote(from, to, v)
        \/ \E to \in Replicas, r \in Rounds :
             SpoilProposal(from, to, r) \/ DropProposal(from, to, r) \/ PassProposal(from, to, r)
        \/ Announce(from)
  BY SendCases
<1>3. ASSUME NEW to \in Replicas, NEW v \in Known(from),
             \/ FaultyVote(from, to, v) \/ CountAndDeliver(from, to, v)
             \/ DropVote(from, to, v) \/ PassVote(from, to, v)
      PROVE  UNCHANGED << votes, proposal, has, testcase >>
  BY <1>3, VoteEffect DEF IInv
<1>4. ASSUME NEW to \in Replicas, NEW r \in Rounds,
             SpoilProposal(from, to, r) \/ DropProposal(from, to, r) \/ PassProposal(from, to, r)
      PROVE  UNCHANGED << votes, proposal, testcase >> /\ (1 \in Rounds => has'[1] = has[1])
  BY <1>4, ProposalEffect, ProposalKeeps DEF IInv
<1>5. UNCHANGED << votes, proposal, testcase >> /\ (1 \in Rounds => has'[1] = has[1])
  BY <1>2, <1>3, <1>4 DEF Announce, envVars
<1>6. QED
  BY <1>1, <1>5 DEF IInv, BlockInv, LockInv

LEMMA InitKeeps == Init => IInv
  BY BaseInit, RoundAssumption DEF Init, EnvInit, NetInit, IInv, BlockInv, LockInv, Rounds

LEMMA NextKeeps == KeysGiven /\ IInv /\ [Next]_vars => IInv'
<1> SUFFICES ASSUME KeysGiven, IInv, [Next]_vars PROVE IInv'
  OBVIOUS
<1>1. BaseInv'
  BY BaseNext DEF IInv
<1>2. CASE UNCHANGED << votes, proposal, has, testcase >>
  BY <1>1, <1>2 DEF IInv, BlockInv, LockInv
<1>3. CASE ValidLockingStep /\ UNCHANGED testVars
  BY <1>3, LockingKeeps
<1>4. CASE SendEvent
  BY <1>4, SendEventKeeps
<1>5. CASE CommitEvent \/ OtherEvent
  BY <1>2, <1>5, OtherEventKeepsBase DEF IInv
<1>6. QED
  BY <1>2, <1>3, <1>4, <1>5 DEF Next, vars, envVars, testVars

\* Types, votes, counters and locks, when the filters can read the keys they
\* cannot do without.
THEOREM Invariance == ASSUME KeysGiven PROVE Spec => []IInv
<1>1. IInv /\ [Next]_vars => IInv'
  BY NextKeeps
<1>2. QED
  BY <1>1, InitKeeps, PTL DEF Spec

\* Two keeps everybody from a commit in round 0, Three everybody honest from one
\* in rounds 0 and 1, whatever is repeated, forwarded or reordered.
THEOREM NoEarlyCommitHolds == ASSUME KeysGiven PROVE Spec => []NoEarlyCommit
<1>1. IInv => NoEarlyCommit
  BY NoEarlyCommitInv
<1>2. QED
  BY <1>1, Invariance, PTL

\* Until round 1 is over there is no quorum of prevotes but for the block of
\* round 0, and in Three none that a replica which is not to lock could see.
THEOREM OldBlockOnlyHolds == ASSUME KeysGiven PROVE Spec => []OldBlockOnly
<1>1. IInv => OldBlockOnly
  BY OldBlockOnlyInv
<1>2. QED
  BY <1>1, Invariance, PTL
===============================================================================
