SPECIFICATION Spec
CONSTANTS
  h = h
  f1 = f1
  r1 = r1
  r2 = r2
  b = b
  Nil = Nil
  Replicas = {h, f1, r1, r2}
  Keyed = {h, f1, r1, r2}
  Blocks = {b}
  F = 1
  InitialHeight = 1
  MaxHeight = 2
  MaxRound = 0
  VoteRounds = {0}
  Casts = {b}
  Precommits = {b}
  Links <- PrecommitLinks
  H = h
  Faulty = {f1}
  Rest = {r1, r2}
SYMMETRY RestSymmetry
INVARIANTS IInv FaultyNeverCommits FaultyVotesHidden
PROPERTY IsByzantineNetwork
CHECK_DEADLOCK FALSE
