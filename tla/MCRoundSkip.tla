----------------------------- MODULE MCRoundSkip -----------------------------
(***************************************************************************)
(* Instances of RoundSkip with n = 4, f = 1: h, one faulty replica, two in *)
(* rest.  The instances differ in who sends which votes to whom (Links).   *)
(***************************************************************************)
EXTENDS RoundSkip

CONSTANTS h, f1, r1, r2

Four == {h, f1, r1, r2}

\* All but r2 hear everybody; h and f1 forward to r1 what they hear of each
\* other and of r2.
GossipLinks ==
  { << p, q, p >> : p \in Four, q \in {h, f1, r1} }
    \cup { << h, r1, r2 >>, << h, r1, f1 >>, << f1, r1, r2 >>, << f1, r1, h >> }

\* Own votes: 2f+1 prevotes for all but h, and one of h to be held.
OwnLinks ==
  { << p, q, p >> : p \in {r1, r2}, q \in {r1, r2, f1} }
    \cup { << f1, r1, f1 >>, << f1, r2, f1 >>, << h, r1, h >> }

\* Enough for h, r1 and r2 to commit.
CommitLinks == { << p, q, p >> : p \in {h, r1, r2}, q \in {h, r1, r2} }
==============================================================================
