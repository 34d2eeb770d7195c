SPECIFICATION Spec
CONSTANTS
  h = h
  f1 = f1
  r1 = r1
  r2 = r2
  b = b
  Nil = Nil
  Replicas = {h, f1, r1, r2}
  Keyed = {h, f1, r1, r2}
  Blocks = {b}
  F = 1
  InitialHeight = 1
  MaxHeight = 1
  MaxRound = 1
  VoteRounds = {0}
  Casts = {b}
  Precommits = {b}
  Links <- GossipLinks
  H = h
  Faulty = {f1}
  Rest = {r1, r2}
  Height = 1
  Round = 1
  OtherTypes = {"NewRoundStep", "HasVote"}
INVARIANTS IInv NoPolkaForRest NoCommit VerdictSound FaultyVotesHidden
PROPERTIES ReleaseIsSafe IsByzantineNetwork
