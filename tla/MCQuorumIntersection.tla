------------------------ MODULE MCQuorumIntersection ------------------------
(***************************************************************************)
(* Instances of QuorumIntersection with n = 4, f = 1.                      *)
(***************************************************************************)
EXTENDS QuorumIntersection, TLC

CONSTANTS h, f1, r1, r2

RestSymmetry == Permutations({r1, r2})

\* What it takes for all four to precommit, for h, r1 and r2 to commit, and for
\* f1 to hear of as many precommits as it needs; h forwards f1's votes, here
\* back to f1 only, so that the instance stays symmetric and small.
PrecommitLinks ==
  { << p, q, p >> : p \in {r1, r2}, q \in {h, f1, r1, r2} }
    \cup { << h, q, h >> : q \in {r1, r2} } \cup { << f1, h, f1 >>, << h, f1, f1 >> }

\* h sends r1 its own votes; r1's votes go to h and r2, who forward them.
ForwardLinks ==
  { << h, r1, h >>, << r1, h, r1 >>, << r1, r2, r1 >>, << h, r2, r1 >>, << r2, h, r1 >> }
=============================================================================
