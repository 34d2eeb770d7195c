------------------------- MODULE TendermintReplicas -------------------------
(***************************************************************************)
(* The replicas under test, as the test cases see them.  Tendermint itself *)
(* is not part of the repository; this module states what the harness      *)
(* relies on and allows everything else:                                   *)
(*                                                                         *)
(*  - every replica, also one the harness calls faulty, runs the ordinary  *)
(*    protocol: it casts at most one vote of a type per height and round,  *)
(*    and precommits a block only on 2F+1 prevotes for it that it knows;   *)
(*  - it leaves a round at any time (timeouts), and a height once 2F+1     *)
(*    precommits for a block exist;                                        *)
(*  - it gossips its own votes and forwards votes of others, as often as   *)
(*    it likes, for heights and rounds it has reached;                     *)
(*  - it counts a vote only if the signature is the validator's, and may   *)
(*    count two conflicting votes of one validator for two blocks.         *)
(*                                                                         *)
(* What a replica knows only ever enables it to do more, so delivering a   *)
(* message is merged with receiving it: a message that is still in flight  *)
(* is one whose effect the replica has not used yet.                       *)
(***************************************************************************)
EXTENDS TMessages

CONSTANTS F,              \* the number of faults tolerated
          InitialHeight,  \* the height the replicas start from
          MaxHeight,      \* bound: no replica goes beyond this height
          MaxRound,       \* bound: nor beyond this round of a height
          VoteRounds,     \* bound: the rounds replicas vote in
          Casts,          \* bound: the values replicas prevote
          Precommits,     \* bound: the values replicas precommit
          Links           \* bound: << p, q, v >> if p may send votes of v to q

ASSUME FAssumption      == F \in Nat \ {0} /\ IsFiniteSet(Replicas)
ASSUME HeightAssumption == InitialHeight \in Nat /\ MaxHeight \in Nat
ASSUME RoundAssumption  == MaxRound \in Nat
ASSUME CastsAssumption  == Casts \cup Precommits \subseteq Blocks \cup {Nil}

VARIABLES height,  \* height[r]: the height replica r is at
          round,   \* round[r]: its round of that height
          votes,   \* the votes the replicas have cast
          inbox    \* inbox[r]: the votes of others that r has received

netVars == << height, round, votes, inbox >>

NetTypeOK ==
  /\ height \in [Replicas -> Nat]
  /\ round  \in [Replicas -> Nat]
  /\ votes \subseteq Votes
  /\ inbox \in [Replicas -> SUBSET Votes]

NetInit ==
  /\ height = [r \in Replicas |-> InitialHeight]
  /\ round  = [r \in Replicas |-> 0]
  /\ votes  = {}
  /\ inbox  = [r \in Replicas |-> {}]

-----------------------------------------------------------------------------
Known(r) == inbox[r] \cup { v \in votes : v.val = r }

Voters(S, type, h, r, b) ==
  { p \in Replicas : \E v \in S : /\ v.type = type /\ v.height = h
                                  /\ v.round = r /\ v.block = b /\ v.val = p }

Quorum(S) == Cardinality(S) >= 2 * F + 1

Polka(p, h, r, b)     == Quorum(Voters(Known(p), Prevote, h, r, b))
CommitQuorum(h, r, b) == Quorum(Voters(votes, Precommit, h, r, b))

\* What a replica that hears of the precommits only from the harness needs.
KnownCommit(p, h, r, b) == Quorum(Voters(Known(p), Precommit, h, r, b))

\* Position <<h, r>> is not after the one replica p is at.
Reached(p, h, r) == height[p] > h \/ (height[p] = h /\ round[p] >= r)

-----------------------------------------------------------------------------
Cast(p, type, b) ==
  /\ round[p] \in VoteRounds
  /\ \A v \in votes : ~ (/\ v.val = p /\ v.type = type
                         /\ v.height = height[p] /\ v.round = round[p])
  /\ votes' = votes \cup {NewVote(type, height[p], round[p], b, p)}
  /\ UNCHANGED << height, round, inbox >>

CastPrevote(p, b) == b \in Casts /\ Cast(p, Prevote, b)

CastPrecommit(p, b) ==
  /\ b \in Precommits
  /\ b \in Blocks => Polka(p, height[p], round[p], b)
  /\ Cast(p, Precommit, b)

NextRound(p) ==
  /\ round[p] < MaxRound
  /\ round' = [round EXCEPT ![p] = @ + 1]
  /\ UNCHANGED << height, votes, inbox >>

NextHeight(p) ==
  /\ height[p] < MaxHeight
  /\ \E r \in 0..MaxRound, b \in Blocks : CommitQuorum(height[p], r, b)
  /\ height' = [height EXCEPT ![p] = @ + 1]
  /\ round'  = [round EXCEPT ![p] = 0]
  /\ UNCHANGED << votes, inbox >>

ReplicaStep ==
  \E p \in Replicas : \/ \E b \in Casts \cup Precommits : CastPrevote(p, b) \/ CastPrecommit(p, b)
                      \/ NextRound(p)
                      \/ NextHeight(p)

\* The same for a harness that decides on precommits too.
Commit(p) ==
  /\ \E r \in 0..MaxRound, b \in Blocks : KnownCommit(p, height[p], r, b)
  /\ NextHeight(p)

CommittingStep ==
  \E p \in Replicas : \/ \E b \in Casts \cup Precommits : CastPrevote(p, b) \/ CastPrecommit(p, b)
                      \/ NextRound(p)
                      \/ Commit(p)

-----------------------------------------------------------------------------
\* Replica p may send the vote v to q: its own vote, or one it forwards.
MaySend(p, q, v) ==
  /\ v \in Known(p)
  /\ << p, q, v.val >> \in Links
  /\ Reached(p, v.height, v.round)

\* A message in the harness's hands: a vote addressed to a replica.
Msgs == [ to : Replicas, vote : Votes ]

\* The replicas' receipt of the messages in D.
Receive(D) ==
  inbox' = [ p \in Replicas |->
               inbox[p] \cup { v \in { m.vote : m \in { x \in D : x.to = p } } : Valid(v) } ]

-----------------------------------------------------------------------------
(***************************************************************************)
(* What every test case has to leave intact, if B is whose votes it may    *)
(* forge.                                                                  *)
(***************************************************************************)

\* Nobody sees a quorum for one value and anybody one for another, of the same
\* type, height and round: whatever votes of B the test case makes up, they
\* are too few.  (Every use of ChangeVote in the filters.)
QuorumsAgree ==
  \A t \in {Prevote, Precommit}, h \in InitialHeight..MaxHeight, r \in 0..MaxRound :
    \A p, q \in Replicas, b, c \in Blocks \cup {Nil} :
      Quorum(Voters(Known(p), t, h, r, b)) /\ Quorum(Voters(Known(q), t, h, r, c)) => b = c

OneVote ==
  \A v, w \in votes :
    v.val = w.val /\ v.type = w.type /\ v.height = w.height /\ v.round = w.round
      => v.block = w.block

\* A vote of this run, and if a replica would count it one that was cast or one
\* of B's.
Genuine(v, B) ==
  /\ v.height >= InitialHeight
  /\ Valid(v) => v \in votes \/ v.val \in B

NetInv(B) ==
  /\ NetTypeOK
  /\ OneVote
  /\ \A p \in Replicas : height[p] >= InitialHeight
  /\ \A v \in votes : Valid(v) /\ v.height >= InitialHeight
  /\ \A p \in Replicas : \A v \in inbox[p] : Valid(v) /\ Genuine(v, B)
=============================================================================
