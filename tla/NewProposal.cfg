SPECIFICATION Spec
CONSTANTS
  h = h
  f1 = f1
  r1 = r1
  r2 = r2
  b = b
  c = c
  Nil = Nil
  Replicas = {h, f1, r1, r2}
  Keyed = {h, f1, r1, r2}
  Blocks = {b, c}
  F = 1
  InitialHeight = 1
  MaxHeight = 1
  MaxRound = 2
  VoteRounds = {0, 1, 2}
  Casts = {b, c}
  Precommits = {b, c}
  Links <- SomeLinks
  H = h
  Faulty = {f1}
  FaultyReplica = f1
  Rest = {r1, r2}
  Sent <- SomeSent
  Announced = {1}
  LastRound <- LastRounds
  TestCases = {"Three", "HigherProp"}
  Voting <- SomeVoting
  Proposer <- Proposers
SYMMETRY BlockSymmetry
INVARIANTS IInv OldBlockAbandoned SuccessSound FailMeansLock
PROPERTY IsByzantineNetwork
CHECK_DEADLOCK FALSE
