----------------------------- MODULE SanityRounds -----------------------------
(***************************************************************************)
(* The test cases Two and Three of testcases/sanity (two.go, three.go).    *)
(* Both lock replicas on the block of round 0 and keep it from being       *)
(* committed there: Two lets too few precommits through, Three shows the   *)
(* prevotes to F+1 replicas only.  In round 1 Two spoils the proposal and  *)
(* Three drops it, and Two waits for a commit there, Three for one in      *)
(* round 2.  The conditions are those of common/cond.go.                   *)
(*                                                                         *)
(* Every handler asks for the sending of a message, so a receipt reaches   *)
(* only the state machine.                                                 *)
(***************************************************************************)
EXTENDS ProposingReplicas

CONSTANTS Faulty,    \* the part "faulty" of Two
          ToLock,    \* the parts of Three
          ToNotLock,
          Lone,      \* the replica of its part "faulty"
          TestCases, \* bound: the test cases that are run
          Sent,      \* bound: << t, p, q, type, r >> if p sends q such votes in t
          Announced  \* bound: the rounds that are announced

ASSUME PartitionAssumption ==
  /\ Replicas = ToLock \cup ToNotLock \cup {Lone}
  /\ ToLock \cap ToNotLock = {} /\ Lone \notin ToLock \cup ToNotLock
  /\ Cardinality(ToLock) = F + 1 /\ Cardinality(ToNotLock) = 2 * F - 1
  /\ Faulty \subseteq Replicas /\ Cardinality(Faulty) = F
  /\ Lone \in Faulty

ASSUME TestCasesAssumption == TestCases \subseteq { "Two", "Three" }

VARIABLES testcase,    \* the test case that runs
          state,       \* of its state machine
          counted,     \* << p, r >> if the variable roundCount_p_r is set
          voteCount,   \* voteCount[p]: the counter voteCount_p
          oldProposal  \* Nil is how the variable reads while it is not set

testVars == << testcase, state, counted, voteCount, oldProposal >>
vars     == << envVars, inbox, testVars >>

States == { "start", "round1", "round2", "successState", "failState" }

TypeOK ==
  /\ EnvTypeOK
  /\ testcase \in TestCases
  /\ state \in States
  /\ counted \subseteq Replicas \X {1, 2}
  /\ voteCount \in [Replicas -> 0 .. 2*F-1]
  /\ oldProposal \in Values

Init ==
  /\ EnvInit
  /\ testcase \in TestCases
  /\ state = "start"
  /\ counted = {}
  /\ voteCount = [p \in Replicas |-> 0]
  /\ oldProposal = Nil

\* Broken: the label of another part.
FaultyPartRelabelled == IF testcase = "Two" THEN Replicas \ Faulty ELSE ToNotLock

FaultyPart == IF testcase = "Two" THEN Faulty ELSE {Lone}

-----------------------------------------------------------------------------
(* The state machine.                                                      *)

\* The round a state waits for, where it goes when that is reached, and where
\* it goes when a block is committed.
Target == IF state = "start" THEN 1 ELSE 2

AfterRound ==
  IF state = "start" THEN "round1" ELSE IF testcase = "Two" THEN "failState" ELSE "round2"

AfterCommit ==
  IF state = IF testcase = "Two" THEN "round1" ELSE "round2" THEN "successState" ELSE "failState"

\* Broken: 2F+1 replicas will do.
AllCountedQuorum(C, r) == Quorum({ p \in Replicas : << p, r >> \in C })

AllCounted(C, r) == \A p \in Replicas : << p, r >> \in C

\* RoundReached, on the sending of a message of round r: a counter for every
\* round, and a replica counts once for each round it sends a message of, but
\* not for the rounds it skips.  No counter is ever reset.  Those of rounds
\* that no state waits for are left out.
CountRound(from, r) ==
  /\ state \in {"start", "round1"} /\ ~ AllCounted(counted, Target)
  /\ counted' = counted \cup ({from} \X ({r} \cap {1, 2}))
  /\ state' = IF AllCounted(counted', Target) THEN AfterRound ELSE state

\* A round that was counted in full before the state that waits for it was
\* entered: the next event of any kind leaves the state.
PassRound ==
  /\ state \in {"start", "round1"} /\ AllCounted(counted, Target)
  /\ state' = AfterRound
  /\ UNCHANGED counted

SendStep(from, r) ==
  \/ CountRound(from, r)
  \/ PassRound
  \/ state \notin {"start", "round1"} /\ UNCHANGED << state, counted >>

\* The event "Committing block" of a replica, however late it is heard of.
CommitEvent ==
  /\ \E p \in Replicas, r \in Rounds, b \in Blocks : KnownCommit(p, InitialHeight, r, b)
  /\ state \in {"start", "round1"} \/ (testcase = "Three" /\ state = "round2")
  /\ state' = AfterCommit
  /\ UNCHANGED << envVars, inbox, testcase, counted, voteCount, oldProposal >>

\* Any other event that is not the sending of a message.
OtherEvent ==
  /\ PassRound
  /\ UNCHANGED << envVars, inbox, testcase, voteCount, oldProposal >>

-----------------------------------------------------------------------------
(* The handlers, for a vote on its way.                                    *)

Deliver(to, v) == Receive({[to |-> to, vote |-> v]})

VoteSent(from, to, v) ==
  /\ MaySend(from, to, v)
  /\ << testcase, from, to, v.type, v.round >> \in Sent
  /\ SendStep(from, v.round)
  /\ UNCHANGED << envVars, testcase, oldProposal >>

\* common.IsVoteFromFaulty: by the validator, known only by its key.
VoteFromFaulty(v) == v.val \in FaultyPart \cap Keyed

\* common.ChangeVoteToNil; such a vote is not counted.
FaultyVote(from, to, v) ==
  /\ VoteFromFaulty(v)
  /\ VoteSent(from, to, v)
  /\ Deliver(to, ChangeVoteToNil(v.val, v))
  /\ UNCHANGED voteCount

\* The votes countAndDeliver is for: the precommits of round 0 in Two, the
\* prevotes of round 0 to the replicas that are not to lock in Three.
Limited(to, v) ==
  /\ v.round = 0 /\ ~ VoteFromFaulty(v)
  /\ IF testcase = "Two" THEN v.type = Precommit ELSE v.type = Prevote /\ to \in ToNotLock

\* Broken: the message passes and is not counted.
CountAndDeliverForgets(from, to, v) ==
  /\ Limited(to, v)
  /\ VoteSent(from, to, v)
  /\ voteCount[to] < 2 * F - 1
  /\ Deliver(to, v)
  /\ UNCHANGED voteCount

\* What is counted are messages, also those that bring the same vote again.
CountAndDeliver(from, to, v) ==
  /\ Limited(to, v)
  /\ VoteSent(from, to, v)
  /\ voteCount[to] < 2 * F - 1
  /\ voteCount' = [voteCount EXCEPT ![to] = @ + 1]
  /\ Deliver(to, v)

DropVote(from, to, v) ==
  /\ Limited(to, v)
  /\ VoteSent(from, to, v)
  /\ voteCount[to] >= 2 * F - 1
  /\ UNCHANGED << inbox, voteCount >>

PassVote(from, to, v) ==
  /\ ~ VoteFromFaulty(v) /\ ~ Limited(to, v)
  /\ VoteSent(from, to, v)
  /\ Deliver(to, v)
  /\ UNCHANGED voteCount

-----------------------------------------------------------------------------
(* The handlers, for the proposal of round r and for everything else.      *)

ProposalSent(from, r) ==
  /\ MaySendProposal(from, r)
  /\ SendStep(from, r)
  /\ UNCHANGED << height, round, votes, inbox, proposal, testcase, voteCount >>

Arrives(to, r) == has' = [has EXCEPT ![r] = @ \cup {to}]

\* Broken: the proposal reaches its addressee as well.
SpoilProposalToo(from, to, r) ==
  /\ testcase = "Two" /\ r = 1 /\ CanChangeVote(from)
  /\ ProposalSent(from, r)
  /\ Arrives(to, r)
  /\ UNCHANGED oldProposal

\* changeProposal: a proposal without a block, signed with the sender's key.
\* Nobody accepts it.  Without the key the proposal passes as it is.
SpoilProposal(from, to, r) ==
  /\ testcase = "Two" /\ r = 1 /\ CanChangeVote(from)
  /\ ProposalSent(from, r)
  /\ UNCHANGED << has, oldProposal >>

\* handlers.DontDeliverMessage in Three.
DropProposal(from, to, r) ==
  /\ testcase = "Three" /\ r = 1
  /\ ProposalSent(from, r)
  /\ UNCHANGED << has, oldProposal >>

PassProposal(from, to, r) ==
  /\ r # 1 \/ (testcase = "Two" /\ ~ CanChangeVote(from))
  /\ ProposalSent(from, r)
  /\ Arrives(to, r)
  /\ oldProposal' = IF testcase = "Three" /\ r = 0 THEN proposal[r] ELSE oldProposal

Announce(p) ==
  /\ round[p] \in Announced
  /\ SendStep(p, round[p])
  /\ UNCHANGED << envVars, inbox, testcase, voteCount, oldProposal >>

-----------------------------------------------------------------------------
SendEvent ==
  \/ \E from \in Replicas : \E to \in Replicas \ {from} :
       \/ \E v \in Known(from) : \/ FaultyVote(from, to, v)
                                 \/ CountAndDeliver(from, to, v)
                                 \/ DropVote(from, to, v)
                                 \/ PassVote(from, to, v)
       \/ \E r \in Rounds : \/ SpoilProposal(from, to, r)
                            \/ DropProposal(from, to, r)
                            \/ PassProposal(from, to, r)
  \/ \E p \in Replicas : Announce(p)

Next ==
  \/ ValidLockingStep /\ UNCHANGED testVars
  \/ SendEvent
  \/ CommitEvent
  \/ OtherEvent

Spec == Init /\ [][Next]_vars

-----------------------------------------------------------------------------
(***************************************************************************)
(* Properties.                                                             *)
(***************************************************************************)
Honest == Replicas \ {Lone}

\* Two keeps everybody from a commit in round 0, and Three everybody honest
\* from one in rounds 0 and 1: the counters of countAndDeliver, that nobody's
\* forwarding gets around, and the locks they lead to.  The faulty replica of
\* Three is left out: it sees its own precommit, and with F = 1 commits.
NoEarlyCommit ==
  \A b \in Blocks :
    IF testcase = "Two"
    THEN \A p \in Replicas : ~ KnownCommit(p, InitialHeight, 0, b)
    ELSE \A p \in Honest, r \in {0, 1} : ~ KnownCommit(p, InitialHeight, r, b)

\* In round 1 of Two there is no quorum for anything but the block of round 0,
\* and in Three no replica that is not to lock sees one in round 0 and nobody
\* honest one in round 1: only those the test case let lock can prevote a block
\* there.  (changeProposal, DontDeliverMessage, countAndDeliver.)
OldBlockOnly ==
  \A b \in Blocks :
    IF testcase = "Two"
    THEN \A p \in Replicas : Polka(p, InitialHeight, 1, b) => b = proposal[0]
    ELSE /\ \A p \in ToNotLock : ~ Polka(p, InitialHeight, 0, b)
         /\ \A p \in Honest : ~ Polka(p, InitialHeight, 1, b)

\* A state of the state machine is entered only when all replicas have reached
\* its round, although the counters are shared by all states and a replica
\* runs ahead of the others.  (common.RoundReached.)
RoundsReached ==
  /\ state \in {"round1", "round2", "successState"} => \A p \in Replicas : round[p] >= 1
  /\ state = "round2" \/ (state = "successState" /\ testcase = "Three")
       => \A p \in Replicas : round[p] >= 2

\* The test cases are networks Tendermint has to tolerate.
BN == INSTANCE ByzantineNetwork WITH votes <- votes, inbox <- inbox, Faulty <- Faulty
IsByzantineNetwork == BN!Spec

-----------------------------------------------------------------------------
(***************************************************************************)
(* The inductive invariants behind the properties.  BaseInv holds in every *)
(* run, IInv when the keys can be read that the filters cannot do without: *)
(* without the one of Lone its prevote helps Three's F+1 locked replicas   *)
(* to a quorum if F = 1, and without the one of the proposer Two passes    *)
(* the proposal of round 1 as it is.                                       *)
(***************************************************************************)
KeysGiven ==
  /\ "Three" \in TestCases => Lone \in Keyed
  /\ "Two" \in TestCases /\ 1 \in Rounds => Proposer[1] \in Keyed

PlaceInv ==
  /\ \A p \in Replicas : height[p] = InitialHeight /\ round[p] \in Rounds
  /\ \A v \in votes : v.height = InitialHeight /\ v.round \in Rounds
  /\ \A p \in Replicas : \A v \in inbox[p] : v.height = InitialHeight

\* The votes made up are for nil, and those they are made of reach nobody.
VotesInv ==
  \A p \in Replicas : \A v \in inbox[p] :
    /\ v \in votes \/ VoteFromFaulty(v)
    /\ VoteFromFaulty(v) => v.block = Nil

\* Whose votes for a block, of those that are counted, p has received.
LimitedVoters(p) ==
  { q \in Replicas : \E v \in inbox[p] : Limited(p, v) /\ v.block \in Blocks /\ v.val = q }

CountInv == \A p \in Replicas : Cardinality(LimitedVoters(p)) <= voteCount[p]

RoundsInv ==
  /\ \A p \in Replicas, r \in {1, 2} : << p, r >> \in counted => round[p] >= r
  /\ RoundsReached

BaseInv == TypeOK /\ NetInv(Faulty) /\ PlaceInv /\ VotesInv /\ CountInv /\ RoundsInv

\* Which blocks are voted for: in round 0 the block proposed there, in round 1
\* that block or, by the proposer of round 1, the one it proposed.
BlockInv ==
  /\ \A v \in votes : v.round = 0 /\ v.block \in Blocks => v.block = proposal[0]
  /\ \A v \in votes : v.type = Prevote /\ v.round = 1 /\ v.block \in Blocks /\ v.block # proposal[0]
                        => v.val = Proposer[1] /\ v.block = proposal[1]
  /\ 1 \in Rounds => has[1] \subseteq {Proposer[1]}
  /\ 1 \in Rounds /\ has[1] # {} => proposal[1] # Nil

\* Who is locked in Three, and what comes of it.
LockInv ==
  testcase = "Three" =>
    /\ \A v \in votes : v.type = Precommit /\ v.round = 0 /\ v.block \in Blocks => v.val \notin ToNotLock
    /\ \A v \in votes : v.type = Prevote /\ v.round = 1 /\ v.block \in Blocks /\ v.block = proposal[0]
                          => v.val \notin ToNotLock
    /\ \A v \in votes : v.type = Precommit /\ v.round = 1 /\ v.block \in Blocks => v.val = Lone
    /\ 1 \in Rounds /\ proposal[0] # Nil /\ proposal[1] = proposal[0] => Proposer[1] \notin ToNotLock

IInv == BaseInv /\ BlockInv /\ LockInv
=============================================================================
