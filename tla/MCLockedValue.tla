---------------------------- MODULE MCLockedValue ----------------------------
(***************************************************************************)
(* Instances of LockedValue with n = 4, f = 1.                             *)
(***************************************************************************)
EXTENDS LockedValue, TLC

CONSTANTS h, f1, r1, r2

BlockSymmetry == Permutations(Blocks)

\* The replicas of rest propose.
Proposers == (0 :> r1) @@ (1 :> r2) @@ (2 :> r2)
TwoProposers == [r \in 0..1 |-> Proposers[r]]

\* f1 forwards r2's votes, and h those of r2 and f1; h hears of enough to lock.
GossipLinks ==
  { << p, r1, p >> : p \in {h, f1, r2} } \cup { << p, h, p >> : p \in {f1, r1, r2} }
    \cup { << r2, f1, r2 >>, << f1, r1, r2 >>, << h, r1, r2 >>, << h, r1, f1 >> }

\* The votes of r1 and r2 to h, and h's and r2's from h to r1; who votes when.
VerdictLinks == { << r1, h, r1 >>, << r2, h, r2 >>, << h, r1, h >>, << h, r1, r2 >> }
VerdictVoting ==
  ({h, r1, r2} \X {Prevote, Precommit} \X {0}) \cup ({h, r2} \X {Prevote, Precommit} \X {2})
    \cup (Replicas \X {"NextRound"} \X {0, 1})
AllVoting == Replicas \X {Prevote, Precommit, "NextRound"} \X (0..MaxRound)
=============================================================================
