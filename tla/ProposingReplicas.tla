-------------------------- MODULE ProposingReplicas --------------------------
(***************************************************************************)
(* TendermintReplicas at one height, with proposals and locks: what the    *)
(* test cases need whose verdict depends on which block is voted for.  A   *)
(* replica prevotes a block only if it has the proposal of its round or    *)
(* has precommitted the block before.                                      *)
(*                                                                         *)
(* Like TendermintReplicas this is about Tendermint, not about the         *)
(* repository, and allows what the harness need not know: a locked replica *)
(* may prevote anything it has a proposal for.                             *)
(***************************************************************************)
EXTENDS TendermintReplicas

CONSTANTS Proposer,  \* Proposer[r]: the replica that proposes in round r
          Voting     \* bound: << p, type, r >> if p casts such votes, and
                     \* << p, "NextRound", r >> if it may leave round r

ASSUME ProposerAssumption == Proposer \in [0..MaxRound -> Replicas]

VARIABLES proposal,  \* proposal[r]: the block proposed in round r, or Nil
          has        \* has[r]: the replicas that have that proposal

envVars == << height, round, votes, proposal, has >>

Rounds == 0..MaxRound
Values == Blocks \cup {Nil}

EnvTypeOK ==
  /\ NetTypeOK
  /\ proposal \in [Rounds -> Values]
  /\ has \in [Rounds -> SUBSET Replicas]

EnvInit ==
  /\ NetInit
  /\ proposal = [r \in Rounds |-> Nil]
  /\ has = [r \in Rounds |-> {}]

-----------------------------------------------------------------------------
LockedOn(p, b) ==
  \E v \in votes : v.type = Precommit /\ v.val = p /\ v.block = b /\ v.round < round[p]

PrevoteLocked(p, b) ==
  /\ << p, Prevote, round[p] >> \in Voting
  /\ \/ b = Nil \/ LockedOn(p, b)
     \/ b = proposal[round[p]] /\ p \in has[round[p]]
  /\ CastPrevote(p, b)

\* What the proposer of a round does; a block is new or one of an earlier round.
Make(p, b) ==
  /\ p = Proposer[round[p]]
  /\ round[p] \in VoteRounds
  /\ proposal[round[p]] = Nil
  /\ proposal' = [proposal EXCEPT ![round[p]] = b]
  /\ has' = [has EXCEPT ![round[p]] = {p}]
  /\ UNCHANGED << height, round, votes, inbox >>

\* It may repeat any block whose proposal it has.
Propose(p, b) ==
  /\ \A r \in Rounds : proposal[r] = b => r < round[p] /\ p \in has[r]
  /\ Make(p, b)

LockingStep ==
  \E p \in Replicas :
    \/ \E b \in Blocks : Propose(p, b)
    \/ /\ UNCHANGED << proposal, has >>
       /\ \/ \E b \in Casts : PrevoteLocked(p, b)
          \/ \E b \in Precommits : << p, Precommit, round[p] >> \in Voting /\ CastPrecommit(p, b)
          \/ << p, "NextRound", round[p] >> \in Voting /\ NextRound(p)

\* It repeats a block only if it has seen a quorum of prevotes for it, as
\* Tendermint does with its ValidBlock.  The field PolRound of the proposal
\* then holds the round of that quorum; it is -1 for a new block.
ProposeValid(p, b) ==
  /\ (\E r \in Rounds : proposal[r] = b)
       => \E r \in Rounds : r < round[p] /\ Polka(p, height[p], r, b)
  /\ Make(p, b)

Repeated(r) == \E s \in Rounds : s < r /\ proposal[s] = proposal[r]

ValidLockingStep ==
  \E p \in Replicas :
    \/ \E b \in Blocks : ProposeValid(p, b)
    \/ /\ UNCHANGED << proposal, has >>
       /\ \/ \E b \in Casts : PrevoteLocked(p, b)
          \/ \E b \in Precommits : << p, Precommit, round[p] >> \in Voting /\ CastPrecommit(p, b)
          \/ << p, "NextRound", round[p] >> \in Voting /\ NextRound(p)

\* Replica p has the proposal of round r and may send it.
MaySendProposal(p, r) == r \in Rounds /\ p \in has[r] /\ Reached(p, InitialHeight, r)
=============================================================================
