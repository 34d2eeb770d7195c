----------------------------- MODULE LockedValue -----------------------------
(***************************************************************************)
(* The test cases One and Two of testcases/lockedvalue (one.go, two.go,    *)
(* common.go): make h, and h alone, lock on the block proposed in round 0, *)
(* withhold the proposal of round 1, and see what h prevotes in round 2.   *)
(* One passes if h prevotes the proposal of round 2, Two if h still        *)
(* prevotes that of round 0; they share everything but the filter Round2   *)
(* and the assertion.                                                      *)
(*                                                                         *)
(* The replicas are those of ProposingReplicas.  What is committed is left *)
(* open: any block that was proposed.                                      *)
(*                                                                         *)
(* The filters do not ask whether a message is being sent or received; a   *)
(* receipt has for them the effect of the message being sent again.  Only  *)
(* valueLockedCond wants receipts, which are events of their own here.     *)
(***************************************************************************)
EXTENDS ProposingReplicas

CONSTANTS H,      \* the replica of the part "honestDelayed"
          Faulty, \* the part "faulty"
          Rest,   \* the part "rest"
          Sent,   \* bound: the types of vote that are sent
          Announced, \* bound: the rounds that are announced
          TestCases \* bound: the test cases that are run

ASSUME PartitionAssumption ==
  /\ Replicas = {H} \cup Faulty \cup Rest
  /\ H \notin Faulty \cup Rest
  /\ Faulty \cap Rest = {}
  /\ Cardinality(Faulty) = F
  /\ Cardinality(Rest) = 2 * F

ASSUME TestCasesAssumption == TestCases \subseteq { "One", "Two" }

VARIABLES testcase,      \* the test case that runs
          state,         \* of the state machine
          abort,         \* why Abort was called
          prevotesSent,  \* the variables of the test case; Nil is how one
          roundCount,    \* that is not set reads
          oldProposal,
          newProposal,
          vote

smVars   == << state, prevotesSent, roundCount >>
testVars == << testcase, smVars, abort, oldProposal, newProposal, vote >>
vars     == << envVars, inbox, testVars >>

States == { "start", "LockedValue", "Round1", "Round2", "successState", "failState" }

TypeOK ==
  /\ EnvTypeOK
  /\ testcase \in TestCases
  /\ state \in States
  /\ abort \in { "no", "notVoted", "sameProposal", "wrongVote" }
  /\ prevotesSent \in 0..2*F
  /\ roundCount \in [Replicas -> Nat]
  /\ oldProposal \in Values /\ newProposal \in Values /\ vote \in Values

Init ==
  /\ EnvInit
  /\ testcase \in TestCases
  /\ state = "start"
  /\ abort = "no"
  /\ prevotesSent = 0
  /\ roundCount = [p \in Replicas |-> 0]
  /\ oldProposal = Nil /\ newProposal = Nil /\ vote = Nil

-----------------------------------------------------------------------------
(* The state machine, on the sending of a message: roundReached counts as  *)
(* in RoundSkip, but only from the state LockedValue on.                   *)

RoundReached(from, r, old, target, new) ==
  /\ state = old
  /\ roundCount' = [roundCount EXCEPT ![from] = IF @ < r THEN r ELSE @]
  /\ state' = IF \A p \in Replicas : roundCount'[p] >= target THEN new ELSE old
  /\ UNCHANGED prevotesSent

SendStep(from, r) ==
  \/ RoundReached(from, r, "LockedValue", 1, "Round1")
  \/ RoundReached(from, r, "Round1", 2, "Round2")
  \/ state \in {"start", "Round2", "failState"} /\ UNCHANGED smVars

\* valueLockedCond, on the receipt of a prevote by h.  Every receipt counts,
\* also that of a vote h has already.
PrevoteReceived(from, v) ==
  /\ from \notin Faulty \/ ~ CanChangeVote(from)
  /\ v \in inbox[H] /\ v.type = Prevote
  /\ << from, H, v.val >> \in Links
  /\ state = "start"
  /\ oldProposal # Nil /\ v.block = oldProposal
  /\ prevotesSent' = prevotesSent + 1
  /\ state' = IF prevotesSent' >= 2 * F THEN "LockedValue" ELSE state
  /\ UNCHANGED << envVars, inbox, roundCount, abort, oldProposal, newProposal, vote >>

-----------------------------------------------------------------------------
(* The filters.                                                            *)

Deliver(to, v) == Receive({[to |-> to, vote |-> v]})

\* A vote is on its way: the part all its handlers share.
VoteSent(from, to, v) ==
  /\ MaySend(from, to, v)
  /\ SendStep(from, v.round)
  /\ UNCHANGED << envVars, oldProposal, newProposal >>

\* Broken: only what the faulty replica itself voted.
FaultyVoteForged(from, to, v) ==
  /\ from \in Faulty /\ VoteSent(from, to, v)
  /\ Deliver(to, ChangeVoteToNil(v.val, v))
  /\ UNCHANGED << abort, vote >>

\* faultyReplicaFilter: what a faulty replica sends, of every round, its own
\* votes or others', is signed with its key; unchanged if that fails.
FaultyVote(from, to, v) ==
  /\ from \in Faulty
  /\ VoteSent(from, to, v)
  /\ Deliver(to, IF CanChangeVote(from) THEN ChangeVoteToNil(from, v) ELSE v)
  /\ UNCHANGED << abort, vote >>

\* Broken: h's prevotes pass once the state machine has left its first state.
HeldPrevoteWhileStart(from, to, v) ==
  /\ from = H /\ v.type = Prevote /\ v.round = 0
  /\ VoteSent(from, to, v)
  /\ IF state = "start" THEN UNCHANGED inbox ELSE Deliver(to, v)
  /\ UNCHANGED << abort, vote >>

\* Round0 keeps what h sends in prevotes, its own and others', for good.
HeldPrevote(from, to, v) ==
  /\ from = H /\ v.type = Prevote /\ v.round = 0
  /\ VoteSent(from, to, v)
  /\ UNCHANGED << inbox, abort, vote >>

\* Broken: a vote that h forwards is taken for its own.
OwnPrevoteForwarded(from, v, r) ==
  from = H /\ H \in Keyed /\ v.type = Prevote /\ v.round = r

\* util.IsVoteFrom needs h's key to know h's address.
OwnPrevote(from, v, r) ==
  from = H /\ v.val = H /\ H \in Keyed /\ v.type = Prevote /\ v.round = r

Round1Prevote(from, to, v) ==
  /\ OwnPrevote(from, v, 1)
  /\ VoteSent(from, to, v)
  /\ Deliver(to, v)
  /\ abort' = IF v.block # oldProposal THEN "notVoted" ELSE abort
  /\ UNCHANGED vote

\* What h must not prevote in round 2: One wants it to give up the block it is
\* locked on, Two to stay with it.  A proposal that is not set reads as Nil.
Unwanted == IF testcase = "One" THEN oldProposal ELSE newProposal

Round2Prevote(from, to, v) ==
  /\ OwnPrevote(from, v, 2)
  /\ VoteSent(from, to, v)
  /\ Deliver(to, v)
  /\ vote' = v.block
  /\ abort' = IF v.block = Unwanted THEN "wrongVote" ELSE abort

PassVote(from, to, v) ==
  /\ from \notin Faulty
  /\ ~ (from = H /\ v.type = Prevote /\ v.round = 0)
  /\ ~ OwnPrevote(from, v, 1) /\ ~ OwnPrevote(from, v, 2)
  /\ VoteSent(from, to, v)
  /\ Deliver(to, v)
  /\ UNCHANGED << abort, vote >>

-----------------------------------------------------------------------------
ProposalSent(from, r) ==
  /\ from \in has[r] /\ Reached(from, InitialHeight, r)
  /\ SendStep(from, r)
  /\ UNCHANGED << height, round, votes, inbox, proposal, vote >>

Round0Proposal(from, to) ==
  /\ ProposalSent(from, 0)
  /\ oldProposal' = proposal[0]
  /\ has' = [has EXCEPT ![0] = @ \cup {to}]
  /\ UNCHANGED << abort, newProposal >>

\* Broken: the proposal is recorded and delivered all the same.
Round1ProposalDelivered(from, to) ==
  /\ 1 \in Rounds
  /\ ProposalSent(from, 1)
  /\ has' = [has EXCEPT ![1] = @ \cup {to}]
  /\ UNCHANGED << abort, oldProposal, newProposal >>

\* recordDelayedProposal: kept for good.
Round1Proposal(from, to) ==
  /\ 1 \in Rounds
  /\ ProposalSent(from, 1)
  /\ UNCHANGED << has, abort, oldProposal, newProposal >>

Round2Proposal(from, to) ==
  /\ 2 \in Rounds
  /\ ProposalSent(from, 2)
  /\ newProposal' = proposal[2]
  /\ abort' = IF testcase = "One" /\ oldProposal = proposal[2] THEN "sameProposal" ELSE abort
  /\ has' = [has EXCEPT ![2] = @ \cup {to}]
  /\ UNCHANGED oldProposal

\* Any other message: it passes, and only the state machine takes notice.
Announce(p) ==
  /\ round[p] \in Announced
  /\ SendStep(p, round[p])
  /\ UNCHANGED << envVars, inbox, abort, oldProposal, newProposal, vote >>

-----------------------------------------------------------------------------
\* The event "Committing block" of a replica: commitNewCond, which ends the
\* test case, before commitOldCond.  Both wait for the state Round2.
CommitNew(b) ==
  /\ state = "Round2"
  /\ newProposal = b
  /\ state' = "successState"

CommitOld(b) ==
  /\ state = "Round2"
  /\ newProposal # b /\ oldProposal = b
  /\ state' = "failState"

CommitEvent ==
  /\ \E r \in { x \in Rounds : proposal[x] # Nil } :
       CommitNew(proposal[r]) \/ CommitOld(proposal[r])
  /\ UNCHANGED << envVars, inbox, prevotesSent, roundCount, abort, oldProposal, newProposal, vote >>

\* Abort and EndTestCase end the test case; the state failState does not.
Running == abort = "no" /\ state # "successState"

VoteEvent ==
  \E from \in Replicas : \E to \in Replicas \ {from} :
    \E v \in { w \in Known(from) : w.type \in Sent } :
      \/ FaultyVote(from, to, v)
      \/ HeldPrevote(from, to, v)
      \/ Round1Prevote(from, to, v)
      \/ Round2Prevote(from, to, v)
      \/ PassVote(from, to, v)

ProposalEvent ==
  \E from \in Replicas : \E to \in Replicas \ {from} :
    \/ Round0Proposal(from, to)
    \/ Round1Proposal(from, to)
    \/ Round2Proposal(from, to)

TestEvent ==
  \/ VoteEvent
  \/ ProposalEvent
  \/ \E from \in Replicas \ {H} : \E v \in inbox[H] : PrevoteReceived(from, v)
  \/ \E p \in Replicas : Announce(p)
  \/ CommitEvent

Next ==
  \/ LockingStep /\ UNCHANGED testVars
  \/ Running /\ TestEvent /\ UNCHANGED testcase

Spec == Init /\ [][Next]_vars

-----------------------------------------------------------------------------
(***************************************************************************)
(* Properties.                                                             *)
(***************************************************************************)

\* Nobody but h and the faulty replicas can lock in round 0, and no honest
\* replica, h included, in round 1: the test case keeps h's prevotes, turns
\* those of the faulty replicas and withholds the proposal, and nothing that
\* is forwarded makes up for it.  (Round0, Round1, faultyReplicaFilter.)
OnlyHLocks ==
  \A b \in Blocks :
    /\ \A p \in Rest : ~ Polka(p, InitialHeight, 0, b)
    /\ \A p \in Rest \cup {H} : ~ Polka(p, InitialHeight, 1, b)

\* The assertion, which decides when the test case ends or runs out of time.
Passed ==
  /\ abort = "no"
  /\ testcase = "One" => newProposal # Nil /\ vote = newProposal
  /\ testcase = "Two" => oldProposal # Nil /\ vote = oldProposal

\* One passes only if h prevoted the proposal of round 2 in round 2 and that
\* is not the one of round 0, Two only if h prevoted the proposal of round 0 in
\* round 2.  (The variables the assertions compare are written by messages of
\* two rounds, in any order.)
VerdictSound ==
  Passed =>
    /\ NewVote(Prevote, InitialHeight, 2, vote, H) \in votes
    /\ vote = IF testcase = "One" THEN proposal[2] ELSE proposal[0]
    /\ testcase = "One" => proposal[0] # proposal[2]

\* The test case is one of the networks Tendermint has to tolerate.
BN == INSTANCE ByzantineNetwork WITH votes <- votes, inbox <- inbox, Faulty <- Faulty
IsByzantineNetwork == BN!Spec

-----------------------------------------------------------------------------
(***************************************************************************)
(* The inductive invariant: BaseInv, which holds in every run and carries  *)
(* the refinement; what has to be added for OnlyHLocks, when the keys of   *)
(* the faulty replicas can be read (IInv); and what has to be added for    *)
(* VerdictSound, when rounds 0 and 2 have different proposers              *)
(* (ProposalInv).                                                          *)
(***************************************************************************)
KeysGiven       == Faulty \subseteq Keyed
ProposersDiffer == 2 \in Rounds => Proposer[0] # Proposer[2]

PlaceInv ==
  /\ \A p \in Replicas : height[p] = InitialHeight /\ round[p] <= MaxRound
  /\ \A v \in votes : v.height = InitialHeight
  /\ state = "start" => prevotesSent < 2 * F

BaseInv == TypeOK /\ NetInv(Faulty) /\ PlaceInv

SeenInv ==
  \A p \in Replicas : \A v \in inbox[p] :
    /\ v.val \in Faulty => v.block = Nil
    /\ ~ (v.val = H /\ v.type = Prevote /\ v.round = 0)

\* Who can be locked after round 0, and who can prevote a block in round 1:
\* h and the faulty replicas if they locked it, or the one that proposed it.
LockInv ==
  /\ \A v \in votes : v.type = Precommit /\ v.round = 0 /\ v.block \in Blocks => v.val \in {H} \cup Faulty
  /\ \A v \in votes : v.type = Prevote /\ v.round = 1 /\ v.block \in Blocks
                        => v.val \in {H} \cup Faulty \cup {Proposer[1]}
  /\ 1 \in Rounds => has[1] \subseteq {Proposer[1]}

IInv == BaseInv /\ SeenInv /\ LockInv

\* A proposal can only be repeated by a replica that was sent it, and what is
\* sent is noted in oldProposal.
ProposalInv ==
  /\ \A r \in Rounds : has[r] # {} => proposal[r] # Nil
  /\ oldProposal \in {Nil, proposal[0]}
  /\ oldProposal = Nil => has[0] \subseteq {Proposer[0]}
  /\ 2 \in Rounds /\ proposal[0] # Nil /\ proposal[2] = proposal[0] => oldProposal = proposal[0]
  /\ newProposal # Nil => /\ 2 \in Rounds /\ newProposal = proposal[2]
                          /\ testcase = "One" /\ abort = "no" => proposal[2] # proposal[0]
  /\ vote # Nil => NewVote(Prevote, InitialHeight, 2, vote, H) \in votes
=============================================================================
