--------------------------- MODULE MCSanityRounds ---------------------------
(***************************************************************************)
(* Instances of SanityRounds with n = 4, f = 1.                            *)
(***************************************************************************)
EXTENDS SanityRounds, TLC

CONSTANTS l1, l2, n1, f1

LockSymmetry == Permutations({l1, l2})

Proposers == [r \in 0..MaxRound |-> IF r = 1 THEN f1 ELSE n1]

\* The prevotes that let l1, l2 and f1 lock in round 0.  In Two, the votes that
\* make f1 see the quorums after that, and a vote of f1; in Three, prevotes to n1,
\* and those of round 1 to the two that lock.
LockSent ==
  (TestCases \X {n1} \X {l1, l2} \X {Prevote} \X {0})
    \cup (TestCases \X {l1, l2} \X {l1, l2, f1} \X {Prevote} \X {0})
    \cup ({"Two"} \X {l1, l2} \X {f1} \X {Precommit} \X {0})
    \cup ({"Two"} \X {l1, l2} \X {f1} \X {Prevote} \X {1})
    \cup ({"Two"} \X {f1} \X {n1} \X {Prevote} \X {0})
    \cup ({"Three"} \X {l1, l2} \X {n1} \X {Prevote} \X {0})
    \cup ({"Three"} \X {l1, l2} \X {l1, l2} \X {Prevote} \X {1})
    \cup ({"Three"} \X {f1} \X {l1, l2} \X {Prevote} \X {1})
OwnLinks == { << p, q, p >> : p \in Replicas, q \in Replicas }
LockVoting ==
  (Replicas \X {Prevote} \X {0}) \cup ({l1, l2, f1} \X {Precommit} \X {0})
    \cup ({l1, l2, f1} \X {Prevote} \X {1}) \cup (Replicas \X {"NextRound"} \X {0})

\* What lets l1, l2 and f1 commit in rounds 1 and 2; f1's key is not known.
CommitSent ==
  (TestCases \X {l1, l2, f1} \X {l1, l2, f1} \X {Prevote} \X {1, 2})
    \cup (TestCases \X {l2, f1} \X {l1} \X {Precommit} \X {1, 2})
CommitVoting ==
  ({l1, l2, f1} \X {Prevote, Precommit} \X {1, 2}) \cup (Replicas \X {"NextRound"} \X {0, 1})
=============================================================================
