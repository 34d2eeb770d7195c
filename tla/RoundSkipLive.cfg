SPECIFICATION FairSpec
CONSTANTS
  h = h
  f1 = f1
  r1 = r1
  r2 = r2
  b = b
  Nil = Nil
  Replicas = {h, f1, r1, r2}
  Keyed = {h, r1, r2}
  Blocks = {b}
  F = 1
  InitialHeight = 1
  MaxHeight = 1
  MaxRound = 2
  VoteRounds = {1}
  Casts = {b}
  Precommits = {b}
  Links <- OwnLinks
  H = h
  Faulty = {f1}
  Rest = {r1, r2}
  Height = 1
  Round = 2
  OtherTypes = {"NewRoundStep"}
INVARIANT VerdictSound
PROPERTIES ReleaseIsSafe TestCompletes
