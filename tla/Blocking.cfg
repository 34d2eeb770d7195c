SPECIFICATION Spec
CONSTANTS
  p1 = p1
  p2 = p2
  p3 = p3
  b = b
  Nil = Nil
  Replicas = {p1, p2, p3}
  Keyed = {p1, p2, p3}
  Blocks = {b}
  F = 1
  InitialHeight = 1
  MaxHeight = 2
  MaxRound = 1
  VoteRounds = {0}
  Casts = {b}
  Precommits = {b}
  Links <- CommitLinks
SYMMETRY Symmetry
INVARIANTS IInv FailSound
PROPERTY IsHonestNetwork
CHECK_DEADLOCK FALSE
