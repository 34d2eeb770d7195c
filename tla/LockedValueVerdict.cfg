SPECIFICATION Spec
CONSTANTS
  h = h
  f1 = f1
  r1 = r1
  r2 = r2
  b = b
  c = c
  Nil = Nil
  Replicas = {h, f1, r1, r2}
  Keyed = {h, f1, r1, r2}
  Blocks = {b, c}
  F = 1
  InitialHeight = 1
  MaxHeight = 1
  MaxRound = 2
  VoteRounds = {0, 2}
  Casts = {b, c}
  Precommits = {b, c}
  Links <- VerdictLinks
  H = h
  Faulty = {f1}
  Rest = {r1, r2}
  Sent = {"Prevote"}
  Announced = {2}
  TestCases = {"One", "Two"}
  Voting <- VerdictVoting
  Proposer <- Proposers
SYMMETRY BlockSymmetry
INVARIANT VerdictSound
CHECK_DEADLOCK FALSE
