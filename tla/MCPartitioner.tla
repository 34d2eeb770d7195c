---------------------------- MODULE MCPartitioner ----------------------------
(* All calls with up to three sizes from -1 to 4 on four replicas.          *)
EXTENDS Partitioner, SequencesExt

CONSTANTS a, b, c, d

SomeCalls ==
  { [sizes |-> s, labels |-> l] :
      s \in UNION { [1..n -> -1..4] : n \in 0..3 },
      l \in { << "h" >>, << "h", "faulty" >>, << "h", "faulty", "rest" >> } }

SomeLists == SetToSeqs({a, b, c, d})
==============================================================================
