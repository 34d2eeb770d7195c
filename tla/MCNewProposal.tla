---------------------------- MODULE MCNewProposal ----------------------------
(***************************************************************************)
(* An instance of NewProposal with n = 4, f = 1.                           *)
(***************************************************************************)
EXTENDS NewProposal, TLC

CONSTANTS h, f1, r1, r2

BlockSymmetry == Permutations(Blocks)

Proposers == (0 :> r1) @@ (1 :> h) @@ (2 :> r2)

LastRounds == [t \in TestCases |-> IF t = "Three" THEN 1 ELSE 2]

\* h's votes are heard of by r1, who forwards its precommit to r2.
SomeLinks == { << p, q, p >> : p \in Replicas, q \in Replicas } \cup { << r1, r2, h >>}

\* Round 0: r1 and r2 let h lock.  Round 1: h proposes; Three lets h see the
\* quorum, HigherProp r2.  Round 2: r2 proposes and h prevotes.
Both == { "Three", "HigherProp" }
SomeSent ==
  (Both \X {r1} \X {h, r2} \X {"Proposal"} \X {0})
    \cup (Both \X {r1, r2} \X {h} \X {Prevote} \X {0})
    \cup (Both \X {h} \X {r1} \X {Precommit} \X {0})
    \cup ({"HigherProp"} \X {h} \X {r1} \X {Prevote} \X {0})
    \cup ({"Three"} \X {h} \X {r1, r2, f1} \X {"Proposal"} \X {1})
    \cup ({"Three"} \X {r1, r2, f1} \X {h} \X {Prevote} \X {1})
    \cup ({"Three"} \X {h} \X {r1} \X {Precommit} \X {1})
    \cup ({"HigherProp"} \X {r1} \X {r2} \X {Precommit} \X {0})
    \cup ({"HigherProp"} \X {h} \X {r1, f1} \X {"Proposal"} \X {1})
    \cup ({"HigherProp"} \X {r1, f1, h} \X {r2} \X {Prevote} \X {1})
    \cup ({"HigherProp"} \X {r2} \X {h} \X {"Proposal"} \X {2})
    \cup ({"HigherProp"} \X {h} \X {r1} \X {Prevote} \X {2})
SomeVoting ==
  ({r1, r2, h} \X {Prevote} \X {0}) \cup ({h} \X {Precommit} \X {0})
    \cup ({r1, r2, h, f1} \X {Prevote} \X {1}) \cup ({h} \X {Precommit} \X {1})
    \cup ({h} \X {Prevote} \X {2})
    \cup (Replicas \X {"NextRound"} \X {0}) \cup ({h, r2} \X {"NextRound"} \X {1})
=============================================================================
