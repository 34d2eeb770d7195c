SPECIFICATION Spec
CONSTANTS
  l1 = l1
  l2 = l2
  n1 = n1
  f1 = f1
  b = b
  c = c
  Nil = Nil
  Replicas = {l1, l2, n1, f1}
  Keyed = {l1, l2, n1, f1}
  Blocks = {b}
  F = 1
  InitialHeight = 1
  MaxHeight = 1
  MaxRound = 1
  VoteRounds = {0, 1}
  Casts = {b}
  Precommits = {b}
  Links <- OwnLinks
  Voting <- LockVoting
  Sent <- LockSent
  Announced = {1}
  Proposer <- Proposers
  TestCases = {"Two", "Three"}
  Faulty = {f1}
  Lone = f1
  ToLock = {l1, l2}
  ToNotLock = {n1}
SYMMETRY LockSymmetry
INVARIANTS IInv NoEarlyCommit OldBlockOnly
PROPERTY IsByzantineNetwork
CHECK_DEADLOCK FALSE
