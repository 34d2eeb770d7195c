----------------------------- MODULE MCBlocking -----------------------------
(***************************************************************************)
(* Instances of Blocking for n = 4, f = 1 without the fourth replica,      *)
(* which is down: the limit, 2, and the quorum, 3, are those of n = 4.     *)
(***************************************************************************)
EXTENDS Blocking, TLC

CONSTANTS p1, p2, p3

Symmetry == Permutations({p1, p2, p3})

\* All hear each other's votes: enough for a commit.
CommitLinks == { << p, q, p >> : p \in {p1, p2, p3}, q \in {p1, p2, p3} }
=============================================================================
