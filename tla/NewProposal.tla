----------------------------- MODULE NewProposal -----------------------------
(***************************************************************************)
(* The test cases Three of testcases/lockedvalue (three.go) and HigherProp *)
(* of testcases/sanity (higherProp.go).  Both make h, and h alone, lock on *)
(* the block of round 0 and let no proposal through after that until there *)
(* is another block.  Three passes if h precommits that block.  HigherProp *)
(* lends it the faulty replica's prevotes and passes if h prevotes it when *)
(* it is proposed again.                                                   *)
(*                                                                         *)
(* The filters do not ask whether a message is being sent or received; a   *)
(* receipt has for them the effect of the message being sent again.  Only  *)
(* valueLockedCond wants receipts, which are events of their own here.     *)
(***************************************************************************)
EXTENDS ProposingReplicas

CONSTANTS H,             \* the replica of the part "honestDelayed"
          Faulty,        \* the part "faulty"
          FaultyReplica, \* the one of them that HigherProp knows of
          Rest,          \* the part "rest"
          TestCases,     \* bound: the test cases that are run
          Sent,          \* bound: << t, p, q, type, r >> if p sends q such messages in t
          Announced,     \* bound: the rounds that are announced
          LastRound      \* bound: the last round replicas reach in a test case

ASSUME PartitionAssumption ==
  /\ Replicas = {H} \cup Faulty \cup Rest
  /\ H \notin Faulty \cup Rest
  /\ Faulty \cap Rest = {}
  /\ Cardinality(Faulty) = F /\ FaultyReplica \in Faulty
  /\ Cardinality(Rest) = 2 * F

ASSUME TestCasesAssumption == TestCases \subseteq { "Three", "HigherProp" }

VARIABLES testcase,     \* the test case that runs
          state,        \* of its state machine
          prevotesSent, \* the variables of the test case; Nil is how one
          oldProposal,  \* that is not set reads
          newProposal,
          reached,      \* the replicas whose roundCount is 1 or more
          reproposed    \* newPropReproposeRound

testVars == << testcase, state, prevotesSent, oldProposal, newProposal, reached, reproposed >>
vars     == << envVars, inbox, testVars >>

\* Three calls them lockedValue, round1 and forceRelock.
States == { "start", "ValueLocked", "Round1", "DiffProposal", "DiffProposalReproposed",
            "successState", "failState" }

TypeOK ==
  /\ EnvTypeOK
  /\ testcase \in TestCases
  /\ state \in States
  /\ prevotesSent \in 0..2*F
  /\ oldProposal \in Values /\ newProposal \in Values
  /\ reached \subseteq Replicas
  /\ reproposed \in Rounds

Init ==
  /\ EnvInit
  /\ testcase \in TestCases
  /\ state = "start"
  /\ prevotesSent = 0
  /\ oldProposal = Nil /\ newProposal = Nil
  /\ reached = {}
  /\ reproposed = 0

-----------------------------------------------------------------------------
(* The state machine.                                                      *)

\* roundReached(1) of either common.go, which counts in the state ValueLocked.
RoundReached(from, r) ==
  /\ reached' = reached \cup (IF r >= 1 THEN {from} ELSE {})
  /\ state' = IF reached' = Replicas THEN "Round1" ELSE state

\* util.IsVoteFrom needs a replica's key to know its address.
IsVoteFrom(v, p) == v.val = p /\ p \in Keyed

\* Broken: a prevote of any round.
JudgedAnyRound(from, v) ==
  IF testcase = "Three"
  THEN state = "DiffProposal" /\ v.type = Precommit /\ from = H /\ IsVoteFrom(v, H)
  ELSE \/ state = "DiffProposal" /\ v.type = Precommit /\ from \in Rest
       \/ state = "DiffProposalReproposed" /\ v.type = Prevote /\ IsVoteFrom(v, H)

\* The votes the state machine judges in Three: oldVote and newVote.
\* In HigherProp it is rOldVote that does, for all precommits rest sends, and
\* hNewVote and hOldVote.
Judged(from, v) ==
  IF testcase = "Three"
  THEN state = "DiffProposal" /\ v.type = Precommit /\ from = H /\ IsVoteFrom(v, H)
  ELSE \/ state = "DiffProposal" /\ v.type = Precommit /\ from \in Rest
       \/ /\ state = "DiffProposalReproposed" /\ v.type = Prevote
          /\ IsVoteFrom(v, H) /\ v.round = reproposed

\* rOldVote has no success to offer.
Judge(v) ==
  state' = IF v.block = oldProposal THEN "failState"
           ELSE IF v.block = newProposal /\ ~ (testcase = "HigherProp" /\ state = "DiffProposal")
                THEN "successState" ELSE state

VoteStep(from, v) ==
  \/ state = "ValueLocked" /\ RoundReached(from, v.round)
  \/ Judged(from, v) /\ Judge(v) /\ UNCHANGED reached
  \/ state # "ValueLocked" /\ ~ Judged(from, v) /\ UNCHANGED << state, reached >>

\* diffProposal and diffPropSeen: what they note, the filter notes again.
DiffPropSeen(r) == state = "Round1" /\ proposal[r] # oldProposal

\* A new block counts once a proposer repeats it.
NewPropSeen(r) ==
  state = "DiffProposal" /\ testcase = "HigherProp" /\ proposal[r] = newProposal /\ Repeated(r)

ProposalStep(from, r) ==
  \/ state = "ValueLocked" /\ RoundReached(from, r) /\ UNCHANGED reproposed
  \/ /\ DiffPropSeen(r)
     /\ state' = "DiffProposal"
     /\ UNCHANGED << reached, reproposed >>
  \/ /\ NewPropSeen(r)
     /\ state' = "DiffProposalReproposed" /\ reproposed' = r
     /\ UNCHANGED reached
  \/ /\ state # "ValueLocked" /\ ~ DiffPropSeen(r) /\ ~ NewPropSeen(r)
     /\ UNCHANGED << state, reached, reproposed >>

\* Broken: the replica of another part is looked up.
FromFaultyMistaken(from, v) ==
  /\ IF testcase = "Three" THEN from \in Faulty ELSE IsVoteFrom(v, H)
  /\ CanChangeVote(from)

\* Whom the filters of the faulty replicas are for: in Three those who send,
\* in HigherProp the validator.  Without the sender's key a vote passes as it is.
FromFaulty(from, v) ==
  /\ IF testcase = "Three" THEN from \in Faulty ELSE IsVoteFrom(v, FaultyReplica)
  /\ CanChangeVote(from)

\* valueLockedCond of either package.  Every receipt counts, also that of a
\* vote h has already.
PrevoteReceived(from, v) ==
  /\ v \in inbox[H] /\ v.type = Prevote /\ ~ FromFaulty(from, v)
  /\ << testcase, from, H, Prevote, v.round >> \in Sent /\ << from, H, v.val >> \in Links
  /\ state = "start"
  /\ oldProposal # Nil /\ v.block = oldProposal
  /\ prevotesSent' = prevotesSent + 1
  /\ state' = IF prevotesSent' >= 2 * F THEN "ValueLocked" ELSE state
  /\ UNCHANGED << envVars, inbox, testcase, oldProposal, newProposal, reached, reproposed >>

-----------------------------------------------------------------------------
(* The filters.                                                            *)

Deliver(to, v) == Receive({[to |-> to, vote |-> v]})

VoteSent(from, to, v) ==
  /\ MaySend(from, to, v)
  /\ << testcase, from, to, v.type, v.round >> \in Sent
  /\ VoteStep(from, v)
  /\ UNCHANGED << envVars, testcase, prevotesSent, oldProposal, newProposal, reproposed >>

\* What a faulty replica is made to vote.
FaultyBlock(to, v) ==
  IF testcase = "HigherProp" /\ newProposal # Nil /\ to \in Rest /\ v.type = Prevote
  THEN newProposal ELSE Nil

\* faultyVoteFilter and faultyFilter sign with the key of whoever sends.
FaultyVote(from, to, v) ==
  /\ FromFaulty(from, v)
  /\ VoteSent(from, to, v)
  /\ Deliver(to, ChangeVote(from, v, FaultyBlock(to, v)))

\* Broken: only until h is taken to be locked.
HeldWhileStart(from, v) ==
  /\ state = "start" /\ v.type = Prevote /\ v.round = 0
  /\ IF testcase = "Three" THEN from = H ELSE IsVoteFrom(v, H)

\* What round0 keeps for good: in Three the prevotes h sends, its own and
\* others', in HigherProp the prevotes of h.
Held(from, v) ==
  /\ v.type = Prevote /\ v.round = 0
  /\ IF testcase = "Three" THEN from = H ELSE IsVoteFrom(v, H)

HeldPrevote(from, to, v) ==
  /\ ~ FromFaulty(from, v) /\ Held(from, v)
  /\ VoteSent(from, to, v)
  /\ UNCHANGED inbox

PassVote(from, to, v) ==
  /\ ~ FromFaulty(from, v) /\ ~ Held(from, v)
  /\ VoteSent(from, to, v)
  /\ Deliver(to, v)

ProposalSent(from, to, r) ==
  /\ MaySendProposal(from, r)
  /\ << testcase, from, to, "Proposal", r >> \in Sent
  /\ ProposalStep(from, r)
  /\ UNCHANGED << height, round, votes, inbox, proposal, testcase, prevotesSent >>

Round0Proposal(from, to) ==
  /\ ProposalSent(from, to, 0)
  /\ oldProposal' = proposal[0]
  /\ has' = [has EXCEPT ![0] = @ \cup {to}]
  /\ UNCHANGED newProposal

\* Broken: not in round 1 yet.
WithheldLater(r) == r > 1 /\ proposal[r] = oldProposal

Withheld(r) == proposal[r] = oldProposal

\* higherRound and propFilter.  The block noted last is the new one, whatever
\* the state machine has seen.
NewBlock(from, to, r) ==
  /\ r # 0 /\ ~ Withheld(r)
  /\ ProposalSent(from, to, r)
  /\ newProposal' = proposal[r]
  /\ has' = [has EXCEPT ![r] = @ \cup {to}]
  /\ UNCHANGED oldProposal

OldBlock(from, to, r) ==
  /\ r # 0 /\ Withheld(r)
  /\ ProposalSent(from, to, r)
  /\ UNCHANGED << has, oldProposal, newProposal >>

\* Any other message: it passes, and only the state machine takes notice.
Announce(p) ==
  /\ round[p] \in Announced
  /\ state = "ValueLocked" /\ RoundReached(p, round[p])
  /\ UNCHANGED << envVars, inbox, testcase, prevotesSent, oldProposal, newProposal, reproposed >>

-----------------------------------------------------------------------------
\* newVote calls EndTestCase; nothing ends HigherProp but its timeout.
Running == ~ (testcase = "Three" /\ state = "successState")

VoteEvent ==
  \E from \in Replicas : \E to \in Replicas \ {from} : \E v \in Known(from) :
    \/ FaultyVote(from, to, v)
    \/ HeldPrevote(from, to, v)
    \/ PassVote(from, to, v)

ProposalEvent ==
  \E from \in Replicas : \E to \in Replicas \ {from} :
    \/ Round0Proposal(from, to)
    \/ \E r \in Rounds : NewBlock(from, to, r) \/ OldBlock(from, to, r)

TestEvent ==
  \/ VoteEvent
  \/ ProposalEvent
  \/ \E from \in Replicas \ {H} : \E v \in inbox[H] : PrevoteReceived(from, v)
  \/ \E p \in Replicas : Announce(p)

Next ==
  \/ /\ ValidLockingStep /\ UNCHANGED testVars
     /\ \A p \in Replicas : round'[p] <= LastRound[testcase]
  \/ Running /\ TestEvent

Spec == Init /\ [][Next]_vars

-----------------------------------------------------------------------------
(***************************************************************************)
(* Properties.                                                             *)
(***************************************************************************)
Voted(type, r, b) == NewVote(type, InitialHeight, r, b, H) \in votes

\* Only h and the faulty replicas can lock in round 0, and after that nobody
\* honest sees a quorum for the block of round 0 again, whoever proposes or
\* forwards what.  (round0, higherRound, propFilter, the filters of the faulty.)
OldBlockAbandoned ==
  /\ \A p \in Rest, b \in Blocks : ~ Polka(p, InitialHeight, 0, b)
  /\ \A p \in Rest \cup {H}, r \in Rounds \ {0} :
       proposal[0] # Nil => ~ Polka(p, InitialHeight, r, proposal[0])

\* Three passes only if h itself prevoted and precommitted, in one round, a
\* block that is not that of round 0.  HigherProp passes only if h prevoted such
\* a block in a round where such a block was proposed again.  (Messages of
\* several rounds write the variables that are compared.)
SuccessSound ==
  state = "successState" =>
    \E r \in Rounds \ {0} : \E b \in Blocks \ {proposal[0]} :
      /\ Voted(Prevote, r, b)
      /\ testcase = "Three" => Voted(Precommit, r, b)
      /\ testcase = "HigherProp" => r = reproposed /\ Repeated(r) /\ proposal[r] # proposal[0]

\* What Three takes for a failure is always the precommit of round 0 that it
\* made h send, and so it is with the precommits of the rest in HigherProp:
\* they only forward it.  (oldVote, rOldVote: neither asks for the round.)
FailMeansLock ==
  state = "failState" =>
    \/ Voted(Precommit, 0, proposal[0])
    \/ testcase = "HigherProp" /\ Voted(Prevote, reproposed, proposal[0])

\* The test cases are networks Tendermint has to tolerate.
BN == INSTANCE ByzantineNetwork WITH votes <- votes, inbox <- inbox, Faulty <- Faulty
IsByzantineNetwork == BN!Spec

-----------------------------------------------------------------------------
(***************************************************************************)
(* The inductive invariant: BaseInv, which holds in every run and carries  *)
(* the refinement, and what has to be added for the properties, when the   *)
(* filters know all the replicas they ask for (IInv).                      *)
(***************************************************************************)
PlaceInv ==
  /\ \A p \in Replicas : height[p] = InitialHeight /\ round[p] \in Rounds
  /\ \A v \in votes : v.height = InitialHeight /\ v.round \in Rounds
  /\ \A p \in Replicas : \A v \in inbox[p] : v.height = InitialHeight
  /\ state = "start" => prevotesSent < 2 * F

BaseInv == TypeOK /\ NetInv(Faulty) /\ PlaceInv

KeysGiven == {H} \cup Faulty \subseteq Keyed /\ ("HigherProp" \in TestCases => F = 1)

\* A block proposed after round 0 and not there.
Fresh(b) == b # proposal[0] /\ \E r \in Rounds \ {0} : proposal[r] = b

\* What the filters let through: of the faulty replicas no vote for the block of
\* round 0, of h no prevote of round 0.
VotesInv ==
  \A p \in Replicas : \A v \in inbox[p] :
    /\ v.val \in Faulty /\ v.block # Nil => testcase = "HigherProp" /\ Fresh(v.block)
    /\ ~ (v.val = H /\ v.type = Prevote /\ v.round = 0)

\* The block of round 0 is proposed again only by who locked on it, and by then
\* the test case knows it and withholds it.
ProposalInv ==
  /\ oldProposal \in {Nil, proposal[0]}
  /\ newProposal # Nil => Fresh(newProposal)
  /\ \A r \in Rounds : has[r] # {} => proposal[r] # Nil
  /\ oldProposal = proposal[0] \/ has[0] \subseteq {Proposer[0]}
  /\ \A r \in Rounds \ {0} : proposal[r] = proposal[0] /\ proposal[0] # Nil
       => oldProposal = proposal[0] /\ Proposer[r] \notin Rest /\ has[r] \subseteq {Proposer[r]}

\* What a vote for a block tells: who votes for that of round 0, and when.
Accounted(v) ==
  v.block \in Blocks =>
    /\ \E r \in Rounds : proposal[r] = v.block
    /\ v.round = 0 => v.block = proposal[0] /\ (v.val = Proposer[0] \/ oldProposal = proposal[0])
    /\ v.block = proposal[0] /\ v.round # 0 => v.type = Prevote
    /\ v.block = proposal[0] /\ (v.type = Precommit \/ v.round # 0) => v.val \notin Rest
    /\ testcase = "Three" /\ v.type = Precommit /\ v.val = H => Voted(Prevote, v.round, v.block)

BlockInv == \A v \in votes : Accounted(v)

StateInv ==
  /\ state # "start" => oldProposal # Nil
  /\ state \notin {"start", "ValueLocked", "Round1"} => newProposal # Nil
  /\ testcase = "HigherProp" /\ state \in {"DiffProposalReproposed", "successState"}
       => Repeated(reproposed) /\ proposal[reproposed] \notin {Nil, proposal[0]}
  /\ SuccessSound
  /\ FailMeansLock

IInv == BaseInv /\ VotesInv /\ ProposalInv /\ BlockInv /\ StateInv
=============================================================================
