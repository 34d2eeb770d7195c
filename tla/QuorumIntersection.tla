-------------------------- MODULE QuorumIntersection --------------------------
(***************************************************************************)
(* The test case QuorumIntersection (testcases/sanity/one.go): let too few *)
(* precommits of round 0 through, note who prevotes what, and pass once    *)
(* 2F+1 prevotes of a later round share F+1 voters with those of round 0.  *)
(*                                                                         *)
(* One event, the sending or the receipt of a vote, is one action: the     *)
(* condition quorumCond first, then the handlers.  Other messages pass and *)
(* leave no trace.                                                         *)
(***************************************************************************)
EXTENDS TendermintReplicas

CONSTANTS H,       \* the replica of the part "h"
          Faulty,  \* the part "faulty"
          Rest     \* the part "rest"

\* What common.Setup makes of the replicas.
Setup ==
  /\ Replicas = {H} \cup Faulty \cup Rest
  /\ H \notin Faulty \cup Rest
  /\ Faulty \cap Rest = {}
  /\ Cardinality(Faulty) = F
  /\ Cardinality(Rest) = 2 * F

ASSUME PartitionAssumption == Setup

VARIABLES state,     \* of the state machine, or "aborted" after Abort
          recorded,  \* voteCount[round].recorded[block][replica], as triples
          delivered  \* voteCount[0].delivered["Precommit"]

testVars == << state, recorded, delivered >>
vars     == << height, round, votes, inbox, state, recorded, delivered >>

Honest == Replicas \ Faulty
Values == Blocks \cup {Nil}

TypeOK ==
  /\ NetTypeOK
  /\ state \in {"start", "successState", "aborted"}
  /\ recorded \subseteq Nat \X Values \X Replicas
  /\ delivered \in [Replicas -> 0..2*F]

Init ==
  /\ NetInit
  /\ state = "start"
  /\ recorded = {}
  /\ delivered = [r \in Replicas |-> 0]

-----------------------------------------------------------------------------
Recorded(rec, r, b) == { p \in Replicas : << r, b, p >> \in rec }

Compare(rec, b, quorum) ==
  LET old == Recorded(rec, 0, b)
  IN  IF old = {} THEN "differentQuorum"
      ELSE IF Cardinality(old \cap quorum) > F THEN "intersect" ELSE "none"

\* What findIntersection may answer: it takes the first quorum in the order of
\* a Go map.  Without a quorum quorumProposal stays "", which is how the hash
\* of Nil prints, and the quorum stays empty.
FindIntersection(rec, r) ==
  LET quorums == { b \in Values : Quorum(Recorded(rec, r, b)) }
  IN  IF quorums = {} THEN { Compare(rec, Nil, {}) }
      ELSE { Compare(rec, b, Recorded(rec, r, b)) : b \in quorums }

\* quorumCond, while the state machine is in its first state.  It goes by the
\* sender of the message, which need not be the validator of the vote, and
\* looks at no height.  The variable QuorumIntersection is set with the state.
Ignored(from, v) == state # "start" \/ from \in Faulty \/ v.type # Prevote

RecordVote(from, v) ==
  /\ ~ Ignored(from, v)
  /\ recorded' = recorded \cup { << v.round, v.block, from >> }
  /\ \/ v.round = 0 /\ UNCHANGED state
     \/ /\ v.round # 0
        /\ \E answer \in FindIntersection(recorded', v.round) :
             state' = CASE answer = "differentQuorum" -> "aborted"
                        [] answer = "intersect"       -> "successState"
                        [] answer = "none"            -> state

IgnoreVote(from, v) == Ignored(from, v) /\ UNCHANGED << state, recorded >>

QuorumCond(from, v) == RecordVote(from, v) \/ IgnoreVote(from, v)

-----------------------------------------------------------------------------
\* common.IsVoteFromFaulty: by the validator, whose address is only in the
\* part if its key could be read.
VoteFromFaulty(v) == v.val \in Faulty \cap Keyed

\* Broken: a faulty replica gets more precommits than the others, not less.
LimitOwn(to) == IF to \in Faulty THEN 2 * F + 1 ELSE 2 * F

\* The number of precommits of round 0 that round0 lets through to a replica.
Limit(to) == IF to \in Faulty THEN 2 * F - 1 ELSE 2 * F

Counted(v) == v.round = 0 /\ v.type = Precommit

Pass(to, v) ==
  /\ ~ Counted(v)
  /\ Receive({[to |-> to, vote |-> v]})
  /\ UNCHANGED delivered

\* Broken: the message passes but is not counted.
CountAndPassForgets(to, v) ==
  /\ Counted(v)
  /\ delivered[to] < Limit(to)
  /\ Receive({[to |-> to, vote |-> v]})
  /\ UNCHANGED delivered

CountAndPass(to, v) ==
  /\ Counted(v)
  /\ delivered[to] < Limit(to)
  /\ delivered' = [delivered EXCEPT ![to] = @ + 1]
  /\ Receive({[to |-> to, vote |-> v]})

Drop(to, v) ==
  /\ Counted(v)
  /\ delivered[to] >= Limit(to)
  /\ UNCHANGED << inbox, delivered >>

Round0(to, v) == Pass(to, v) \/ CountAndPass(to, v) \/ Drop(to, v)

-----------------------------------------------------------------------------
Event(from, v) ==
  /\ state # "aborted"
  /\ QuorumCond(from, v)
  /\ UNCHANGED << height, round, votes >>

\* Broken: signed with the key of the sender and for the sender; only prevotes.
ChangeFaultyVoteOfSender(from, to, v) ==
  /\ MaySend(from, to, v) /\ VoteFromFaulty(v) /\ Event(from, v)
  /\ Receive({[to |-> to, vote |-> [ChangeVoteToNil(from, v) EXCEPT !.val = from]]})
  /\ UNCHANGED delivered

ChangeFaultyVotePrevotes(from, to, v) ==
  /\ MaySend(from, to, v) /\ VoteFromFaulty(v) /\ Event(from, v)
  /\ Receive({[to |-> to, vote |-> IF v.type = Prevote THEN ChangeVoteToNil(v.val, v) ELSE v]})
  /\ UNCHANGED delivered

\* The vote of a faulty validator becomes nil, whoever sends it, and is signed
\* with the validator's own key.
ChangeFaultyVote(from, to, v) ==
  /\ MaySend(from, to, v)
  /\ VoteFromFaulty(v)
  /\ Event(from, v)
  /\ Receive({[to |-> to, vote |-> ChangeVoteToNil(v.val, v)]})
  /\ UNCHANGED delivered

SendVote(from, to, v) ==
  /\ MaySend(from, to, v)
  /\ ~ VoteFromFaulty(v)
  /\ Event(from, v)
  /\ Round0(to, v)

\* The receipt of a vote is an event with the same message: the condition and
\* round0 do not ask which of the two it is, and may hand the message out
\* once more.
ReceiveVote(from, to, v) ==
  /\ v \in inbox[to]
  /\ << from, to, v.val >> \in Links
  /\ Event(from, v)
  /\ Round0(to, v)

VoteEvent ==
  \E from \in Replicas : \E to \in Replicas \ {from} :
    \/ \E v \in Known(from) : ChangeFaultyVote(from, to, v) \/ SendVote(from, to, v)
    \/ \E v \in inbox[to] : ReceiveVote(from, to, v)

Next ==
  \/ CommittingStep /\ UNCHANGED testVars
  \/ VoteEvent

Spec == Init /\ [][Next]_vars

-----------------------------------------------------------------------------
(***************************************************************************)
(* Properties.                                                             *)
(***************************************************************************)

\* No faulty replica ever sees a quorum of precommits for a block in a round
\* 0: its own and the 2F-1 that round0 counts are too few, whatever the other
\* faulty replicas precommit.  (sanity/one.go:88, "so that it does not commit")
FaultyNeverCommits ==
  \A p \in Faulty, h \in InitialHeight..MaxHeight, b \in Blocks : ~ KnownCommit(p, h, 0, b)

\* Nobody counts a faulty validator's vote for a block but that validator.
\* (common.ChangeVoteToNil, also for votes that others forward.)
FaultyVotesHidden ==
  \A p \in Replicas : \A v \in inbox[p] : v.val \in Faulty => v.block = Nil

\* The honest replicas that cast a prevote for b in round r.
Prevoters(r, b) ==
  { p \in Honest : \E v \in votes : /\ v.type = Prevote /\ v.round = r
                                    /\ v.block = b /\ v.val = p }

\* The test case passes only if 2F+1 honest replicas prevoted the same in a
\* later round and more than F of them in round 0.  (findIntersection; not so
\* for replicas that forward votes, as quorumCond goes by the sender.)
VerdictSound ==
  state = "successState" =>
    \E b \in Values, r \in 1..MaxRound :
      /\ Quorum(Prevoters(r, b))
      /\ Cardinality(Prevoters(r, b) \cap Prevoters(0, b)) > F

\* The test case is one of the networks Tendermint has to tolerate.
BN == INSTANCE ByzantineNetwork WITH votes <- votes, inbox <- inbox, Faulty <- Faulty
IsByzantineNetwork == BN!Spec

-----------------------------------------------------------------------------
(***************************************************************************)
(* The inductive invariant behind FaultyNeverCommits and the refinement,   *)
(* and behind FaultyVotesHidden when the keys of the faulty replicas can   *)
(* be read.                                                                *)
(***************************************************************************)
KeysGiven == Faulty \subseteq Keyed

VotesInv ==
  \A p \in Replicas : \A v \in inbox[p] : VoteFromFaulty(v) => v.block = Nil

\* Whose precommits for a block in a round 0, of any height, p has received.
PrecommitVoters(p) ==
  { q \in Replicas : \E v \in inbox[p] : Counted(v) /\ v.block \in Blocks /\ v.val = q }

\* The counter of round0 is an upper bound of them, and has one itself.
CountInv ==
  \A p \in Replicas : /\ Cardinality(PrecommitVoters(p)) <= delivered[p]
                      /\ delivered[p] <= Limit(p)

IInv == TypeOK /\ NetInv(Faulty) /\ VotesInv /\ CountInv
=============================================================================
