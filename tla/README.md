# Verification of the Tendermint test cases

The repository holds test cases that drive real Tendermint replicas into
chosen scenarios.  A test case runs inside a testing server: replicas send
their messages to the server, the server shows every event to the test case,
and the test case decides what is delivered, changed, held back or dropped,
and in the end whether the scenario passed.

What can go wrong here is not Tendermint but the harness: it steps a state
machine and a cascade of filters on events that arrive in any order, it counts
votes, and from what it counted it concludes what the replicas did.  This
directory contains TLA+ models of the test cases against all the replicas'
behaviours, TLC instances of them, and proofs for all values of the constants.

## Inventory

| Part | Source | State | Operations | Interacts with |
|---|---|---|---|---|
| Messages | `src/util/messages.go` | none | parse, `HeightRound`, `ChangeVote` and its kin, `IsVoteFrom`, `GetVoteBlockIDS` | all filters and conditions |
| Replica sets, partitions | `src/util/replicas.go`, `partition.go` | the parts | `Add`, `Size`, `CreatePartition`, `GetPrivKey` | the setup of every test case |
| Common conditions, handlers | `src/common/` | per test case: round and vote counts in the context | `RoundReached`, `IsVoteFromFaulty`, `ChangeVoteToNil`, `Setup` | sanity test cases |
| RoundSkipPrevote | `src/testcases/rskip/one.go` | state machine, `roundCount`, `CurRound`, `delayedMessages` | 3 conditions, 2 filters | run by `server.go` |
| BlockingTestCase | `src/testcases/rskip/blocking.go` | state machine, `msgcounter`, `delayedMessages` | 1 condition, 2 filters | |
| LockedValueOne, Two | `src/testcases/lockedvalue/one.go`, `two.go`, `common.go` | 6 states, `prevotesSent`, `roundCount`, `oldProposal`, `newProposal`, `vote` | 4 conditions, 4 filters, aborts | |
| lockedvalue.Three, sanity.HigherProp | `lockedvalue/three.go`, `sanity/higherProp.go`, `sanity/common.go` | 6 and 7 states, `oldProposal`, `newProposal`, `prevotesSent`, `newPropReproposeRound` | 4 and 6 conditions, 3 filters each | share the idea of LockedValueOne |
| QuorumIntersection | `src/testcases/sanity/one.go` | `voteCount` per round | `quorumCond`, `round0`, changed votes | |
| sanity.TwoTestCase, ThreeTestCase | `sanity/two.go`, `three.go` | 4 and 5 states, `voteCount_p`, `roundCount_r` and `roundCount_p_r` | `countAndDeliver`, `changeProposal`, `recordProposal` | common conditions |
| BFTTimeOne | `src/testcases/bfttime/one.go` | none | shift the time of precommits | |
| Byzantine, dummy | `src/testcases/byzantine/`, `dummy.go` | none | nothing, or deliver all | |
| Server | `src/server.go` | none | start one test case: height 1, 2 rounds, 4 replicas | |
| Testing server, Tendermint | not in the repository (`go.mod`) | message pool, event queue; height, round, votes, locks | step, cascade, deliver; vote, time out, gossip, commit | everything |

What makes the behaviours hard: every message between two replicas may be sent
at any time and again; votes are forwarded by replicas that did not cast them;
timeouts move a replica on before or after the harness has seen what it waits
for; the conditions read what the messages of *other* replicas left in shared
variables; and heights go on while the test case still thinks of one height.

What makes each part correct:

* messages: a changed vote is one a replica may have sent: forged votes of
  honest validators must not count;
* partitions: every replica is in exactly one part, the faulty part has f;
* a filter keeps its promise (nobody sees a quorum, only `h` locks, the faulty
  replica does not commit) whoever forwards what;
* what is held is handed out, to its addressee, neither too early nor never;
* a passing or failing verdict says something true of the replicas;
* the test case ends.

## Modules

```
TMessages               votes, their signatures, HeightRound, ChangeVote
  TendermintReplicas    the replicas: votes, rounds, heights, gossip (external)
                                                   <- TendermintReplicasProofs
    RoundSkip           rskip/one.go               <- RoundSkipProofs
    QuorumIntersection  sanity/one.go, common/     <- QuorumIntersectionProofs
    Blocking            rskip/blocking.go          <- BlockingProofs
    ProposingReplicas   proposals and locks (external)
      LockedValue       lockedvalue/one.go, two.go, common.go
                                                   <- LockedValueProofs
      SanityRounds      sanity/two.go, three.go, common/
                                                   <- SanityRoundsProofs
      NewProposal       lockedvalue/three.go, sanity/higherProp.go, common.go
                                                   <- NewProposalProofs
  ByzantineNetwork      what any test case may do to the replicas (abstract)
Partitioner             util/partition.go, replicas.go  <- PartitionerProofs
MC*                     the instances for TLC
```

The five test-case modules that change votes are composed with the replicas of
TendermintReplicas by EXTENDS, and each is shown to implement ByzantineNetwork
(`BN == INSTANCE ByzantineNetwork WITH ...`, `IsByzantineNetwork == BN!Spec`).
So is Blocking, which changes no vote, with nobody Byzantine (`IsHonestNetwork`).
Test cases that share most of their code share a module; its variable `testcase`
says which of the two runs.

**TMessages.** A vote is a record; `val` is the validator whose address it
carries, `key` the replica whose key signed it.  `ChangeVote` in the code signs
with the key of the replica it is handed and keeps the address of the old vote,
so `key` and `val` differ after it whenever a forwarded vote is changed with
the forwarder's key, and the vote is not `Valid`.  `HeightRound` returns -1
where the code does (HasVote and undecodable messages; the round of a
ProposalPol).

**TendermintReplicas** (external: Tendermint is not in the repository).  All
replicas, the ones called faulty as well, run the ordinary protocol: one vote of
a type per height and round, a precommit for a block only on 2f+1 known
prevotes, timeouts at any time, gossip of their own and of others' votes for
rounds they have reached.  A received vote counts if its signature is the
validator's.  The variable `inbox[p]` is what `p` received.

**ByzantineNetwork** is the abstract specification: the votes of honest
validators reach the others late, repeatedly, in any order or never, but are
never invented and never doubled.  Tendermint is safe against such a network,
so if a replica misbehaves under a test case that implements it, the replica is
to blame and not the test case.

**RoundSkip.**  One event of the test server is one action: the state
machine's step first, then the handlers, which see the new state.

| Code (`rskip/one.go`) | Model |
|---|---|
| `ctx.Vars["roundCount"]`, `"CurRound"`, `"delayedMessages"` | `roundCount`, `curRound`, `delayed` |
| `heightReached`, `roundReached`, `noDelayedMessagesCond` | `HeightReached`/`HeightAwaited`, `RoundCounted`, `NoDelayedMessages` |
| `changeVoteFilter`: passes, turns nil, holds, fails without a key | `PassPrevote`, `NilPrevote`, `HoldPrevote`, `NilPrevoteFails` |
| `deliverDelayedFilter`, then the default | `FallThrough` |
| an event that is no prevote, or no send | `SendOther`, `OtherEvent` |

**Blocking** has the same shape, but its `deliverDelayedFilter` is not guarded
by a state: `SendOther` empties the store whenever anything but a prevote is
sent.  `msgCounter` is `msgcounter.Count`, and never restarts.

**QuorumIntersection.**  `recorded` and `delivered` are the fields of
`testCaseOneVoteCount` (`recorded` as triples round, value, replica).
`quorumCond` is `RecordVote`/`IgnoreVote`; `findIntersection` is
`FindIntersection`, a *set* of answers because the code takes the first quorum
in the order of a Go map.  A nil vote's block hash prints as "", which is also
how an unset `quorumProposal` reads: the model uses `Nil` for both.  `round0` is
`Pass`, `CountAndPass`, `Drop`; `common.ChangeVoteToNil` is `ChangeFaultyVote`.

**ProposingReplicas** (external) adds the proposals at one height.  `proposal[r]` is
the block proposed in round r, `has[r]` who has it.  A replica prevotes a block
only if it has the proposal of its round or has precommitted the block.  In
`LockingStep` a proposer repeats any block it knows, in `ValidLockingStep` only one
that it has seen a quorum for, as Tendermint does; the proposal then carries that
quorum's round as its POL round (`Repeated`).

**LockedValue.**  The states and variables have the code's names; a variable
that is not set reads as `Nil`.  Every handler of the cascade has an action:
`FaultyVote` (`faultyReplicaFilter`), `HeldPrevote` and `Round0Proposal`
(`Round0`), `Round1Prevote` and `Round1Proposal` (`Round1`), `Round2Prevote`
and `Round2Proposal` (`Round2`), and `PassVote`/`Announce` for the rest.
`Abort` sets `abort` and ends the test, as `EndTestCase` does.  Test case Two has its
own filter `Round2`, which differs in what it does not want to see (`Unwanted`) and
does not compare the proposals, and its own assertion (`Passed`).

**SanityRounds.**  `counted` holds the variables `roundCount_p_r` of
`common.RoundReached`; the counter `roundCount_r` is how many of them there are.
`CountRound` and `PassRound` are its two ways to answer true, `CommitEvent` is
`common.IsCommit`, which the state machine asks first.  The filters are `FaultyVote`
(`common.ChangeVoteToNil`), `CountAndDeliver` and `DropVote` (`countAndDeliver`),
`SpoilProposal` (`changeProposal`), `DropProposal`, and `PassProposal`
(`recordProposal` in Three).

**NewProposal.**  The states have HigherProp's names.  `Judged` says which votes the
state machine looks at in its last states, and `Judge` what it makes of them
(`oldVote`, `newVote`; `rOldVote`, `hNewVote`, `hOldVote`); `ProposalStep` is
`diffProposal` or `diffPropSeen` and `newPropSeen`.  The filters are `FaultyVote`,
`HeldPrevote` and `Round0Proposal` (`round0`), and `NewBlock` and `OldBlock`
(`higherRound`, `propFilter`).

**Partitioner** is a sequential program: `pc` is where `CreatePartition` is,
one action per iteration of its two loops.  An index outside `parts` is the
panic it would be in Go.

### External assumptions

Taken from how the code uses its testing library:

* the state machine is stepped before the handlers of the same event run;
* the first handler that returns `true` decides, and the default delivers;
* `GetMessage` finds the message of a send and of a receive event;
* reaching the success state does not end a test; `EndTestCase` and `Abort`
  do, and otherwise `AssertFn` decides when time is up;
* a variable of the context that was never set reads as the zero value.

### Abstractions

* Delivering a message and receiving it are one step.  What a replica knows
  only ever enables it to do more, so a message still on its way is one whose
  effect the replica does not use yet.
* The delayed-message store is a set; sending a held vote twice is not
  distinguished from sending it once.
* In RoundSkip and Blocking a replica that commits may know precommits it did
  not get through `inbox` (`CommitQuorum`): the harness never touches
  precommits there.  QuorumIntersection does, and uses `KnownCommit`.
* A block a replica prevotes is open (within `Casts`) in the modules without
  proposals.  With them, a locked replica may still prevote whatever it has a
  proposal for.  Which block is committed stays open in LockedValue.
* In LockedValue and NewProposal the receipt of a message that the filters see
  again is the same as the message being sent again.
* LockedValue, SanityRounds and NewProposal are about one height.  A proposal and
  its block parts arrive together, and a spoiled or withheld proposal leaves its
  addressee without the block.
* The replicas stop at `MaxHeight`, `MaxRound`.

* `CreatePartition` files the parts under their labels; the labels of a call are
  distinct, as in every call of the code, so that none replaces another.
* `deliverDelayedFilter` reads and removes the store's messages in one step: it is
  one call, and events are handled one after the other.

All but the last two allow the replicas more than Tendermint does: what holds of
the models holds of the code against the replicas as stated; the violations below
were checked to be behaviours the code and Tendermint really have.

## Runs

All instances but the partitioner's and Blocking's have n = 4 and f = 1, as in `server.go`:
`h`, one faulty replica, and two in the part `rest`.  Bounds:

* `Links`: who may send whose votes to whom.  All 4 x 4 x 4 triples would be
  too many; each run has the links its question needs, see below.
* `MaxHeight`, `MaxRound`: how far replicas go.  Far enough to pass the
  rounds and heights a test case is about.
* `VoteRounds`, `Casts`, `Precommits`, `Voting`, `Sent`, `Announced`: in which
  rounds which values are voted for, by whom (`Voting`), and which of the messages
  reach the harness (`Sent`, `Announced`).
  Votes of other rounds are treated by the same branches, or by the ones
  that let everything pass.
* `OtherTypes`: types of message besides prevotes; one that carries a round
  (NewRoundStep), one that carries none (HasVote) and one that carries only
  a height (ProposalPol) are the three kinds `HeightRound` knows.

| Run | Checks | What it shows, and why the bounds are enough |
|---|---|---|
| `roundskip_gossip` | `IInv`, `NoPolkaForRest`, `NoCommit`, `VerdictSound`, `FaultyVotesHidden`, `ReleaseIsSafe`, `IsByzantineNetwork` | One round to skip, votes cast in it. `h`, `f1` and `r1` hear everybody, and `h` and `f1` forward to `r1`, so votes have two ways to it; every replica but `r2` can see a quorum once the votes are released, so the gate matters. `IInv` is the proofs' invariant. |
| `roundskip_live` | `VerdictSound`, `ReleaseIsSafe`, `TestCompletes` | The parameters of `server.go`: height 1, two rounds to skip, votes cast in the last of them. The faulty replica's key cannot be read, so its prevotes pass unchanged, one of the code's error paths; `r1`, `r2` and `f1` hear each other and can see 2f+1 prevotes, and `h` sends one to be held. Under the fairness below the test completes unless a block is decided; what happens after a decision the property does not ask, so one height is enough. |
| `roundskip_height` | `VerdictSound` violated | A test case about height 2: see Differences, 3. |
| `partitioner_all` | `TypeOK`, `ExactPartition`, `NoPanic`, `IInv`, `Returns` | All calls with up to three sizes from -1 to 4 and up to three labels, all orders of four replicas, one of them without a key. |
| `quorum_precommits` | `IInv`, `FaultyNeverCommits`, `FaultyVotesHidden`, `IsByzantineNetwork` | Two heights: the counters go on from one to the next. All four replicas can precommit, the faulty one hears of two precommits besides its own, and `h` forwards the faulty one's votes (to whom makes no difference to `ChangeFaultyVote`). `r1` and `r2` are symmetric. |
| `quorum_verdict` | `VerdictSound` violated | Prevotes for a block and for nil in two rounds; `h` and `r2` forward `r1`'s: see Differences, 7. |
| `lockedvalue_locks` | `IInv`, `OnlyHLocks`, `IsByzantineNetwork` | One block, rounds 0 and 1; votes reach `r1` directly and forwarded by `h` and `f1`.  `h` hears of 2f+1 prevotes and so locks, precommits, and prevotes its block again in round 1. |
| `lockedvalue_verdict` | `VerdictSound` | One and Two. Two blocks, so that the proposal can change; rounds 0 and 2 voted in, with every order of proposals, votes, resends and commits. The blocks are symmetric: nothing names one. |
| `sanity_locks` | `IInv`, `NoEarlyCommit`, `OldBlockOnly`, `IsByzantineNetwork` | Sanity Two and Three, rounds 0 and 1. `f1` proposes in round 1 and can see every quorum; `Sent` has just the messages a quorum takes, and each may be sent again and again. One block: the new block of round 1 is the one that f1's own votes could be for, and `OldBlockOnly` breaks with one block as well as with two (a spoiled proposal that arrives; the proofs have any number). `l1` and `l2` are symmetric. |
| `sanity_rounds` | `RoundsReached` | Sanity Two and Three, rounds 0 to 2, with the votes that commit a block in rounds 1 and 2. The key of `f1`, who proposes in round 1, is not known: its votes and its proposal pass unchanged. |
| `new_proposal` | `IInv`, `OldBlockAbandoned`, `SuccessSound`, `FailMeansLock`, `IsByzantineNetwork` | Lockedvalue Three up to round 1 (it judges `h` there) and HigherProp up to round 2 (one more to propose the new block again). Two blocks, symmetric. `h` proposes in round 1, the case in which the old block can be repeated; `r1` forwards `h`'s precommit. |
| `blocking` | `IInv`, `FailSound`, `IsHonestNetwork` | Three of four replicas, the fourth being down: the limit of held prevotes, 2, and the quorum, 3, are those of n = 4.  They vote in round 0 of two heights, reach its quorum, and go on to round 1, so that both reasons of a failure occur. The replicas are symmetric. |

`CHECK_DEADLOCK FALSE` is set where the system may stop: a test case that
aborted or ended, replicas at their bounds, a call that returned.

### Fairness

`Partitioner!Spec` has weak fairness of `Next`: the call is a loop that runs.

`RoundSkip!FairSpec` is what gets the replicas through the rounds:

* A replica casts a prevote in its round (`PrevoteDue`), and what it casts is sent
  and so becomes an event of the test server (`OwnPrevoteSent`).  Whether the prevote
  is passed, made nil or held is decided by the filter.
* A round does not end by itself.  `Timeout` is fair only if 2f+1 replicas know
  2f+1 prevotes of the round, for whatever values, or if somebody is beyond it:
  with 2f+1 prevotes a replica precommits, nil if nothing else, and 2f+1 precommits,
  which pass the handlers, start the timeout that ends the round.  In rounds without
  votes (`VoteRounds`) the timeout is fair as it is.  So if the filters kept too many
  prevotes back, the replicas would stay, and `TestCompletes` would be violated.
* A replica beyond the skipped rounds has announced one (`RoundAnnounced`):
  Tendermint broadcasts a NewRoundStep when it enters a round, also if it decides
  in that round and goes on to the next height.

Nothing is assumed about forwarded and repeated votes, about precommits for a block,
and that a replica does not decide: if a block gets 2f+1 precommits in a skipped
round, as it may when a faulty replica's key cannot be read, the replicas go to the
next height and `roundCount` may never get to the target round.  `TestCompletes`
says so in its conclusion and not as an assumption.  When the keys can be read,
`NoCommit` excludes that case.

### What the properties are

* `NoPolkaForRest`: until the release no replica of `rest` sees 2f+1 prevotes
  for a block in a skipped round, by whatever path.
* `NoCommit`: no block gets 2f+1 precommits in a skipped round, ever.
* `VerdictSound` (RoundSkip): the assertion holds only if all replicas left the
  skipped rounds.  (QuorumIntersection, violated): a pass means that 2f+1 honest
  replicas prevoted the same in a later round, more than f of them in round 0 too.
  (LockedValue): a pass of One means that `h` prevoted the proposal of round 2 and
  that it is not that of round 0, a pass of Two that it prevoted that of round 0.
* `ReleaseIsSafe`: what leaves the store of RoundSkip is handed to its addressee,
  and only when it can do no harm.
* `FaultyVotesHidden`: no replica but the voter counts a block vote of a
  faulty validator (RoundSkip: a prevote for a block in a skipped round).
* `FaultyNeverCommits`: the faulty replica never knows a quorum of precommits
  of a round 0.
* `OnlyHLocks`: nobody but `h` and the faulty replica can lock.
* `NoEarlyCommit`: nobody (Three: nobody honest) can commit the block of round 0
  before the round in which the test case expects it.
* `OldBlockOnly`: in round 1 of Two the only quorums are for the block of round 0,
  and in Three those who are not to lock see none in round 0, nobody honest one in
  round 1.
* `RoundsReached`: a state of the sanity state machines means that all replicas
  reached its round.
* `OldBlockAbandoned`: in NewProposal nobody honest sees a quorum for the block of
  round 0 again, and `rest` none in round 0.
* `SuccessSound`, `FailMeansLock`: what the verdicts of NewProposal mean.
* `FailSound`: the failing state has a reason.
* `TestCompletes`: RoundSkip gets to its success state, or a block is decided in a
  round that was to be skipped.  `Returns`: `CreatePartition` ends.
* `IsByzantineNetwork`, `IsHonestNetwork`: refinement, see above.
* `IInv`: the inductive invariant of the proofs, see below.
* `QuorumsAgree`: nobody sees quorums for two values of one type, height and round
  (proved only, see below).

For every property PROJECT.json names a mutant: a definition with a plausible
bug (marked "Broken" in the modules) under which the run fails.

## Proofs

The proofs hold for every value of the constants that the modules' named assumptions
admit: any number of replicas, faults, blocks and rounds, and **any** `Links`, so that
everybody may forward everything.  They come in two layers.

**What holds in every run** needs no further hypothesis: neither that keys can be read
nor where the run starts.  It rests on `NetInv(B)` of TendermintReplicas, with `B` the
Byzantine validators: every vote in an inbox is valid, and was cast unless its validator
is in `B`; nobody casts two votes of one type, height and round.  The lemmas in
`TendermintReplicasProofs` show once that the replicas' steps (`MovesKeepNet`) and a
harness that delivers genuine votes (`ReceiveKeepsNet`) keep it. Each test case adds
what it stores (`StoreInv`: held votes are valid and genuine; `HeldInv`) or where things
are (`PlaceInv`), which gives its `BaseInv`.  Two theorems about every test case that
handles votes follow:

* `Refinement`: the test case implements ByzantineNetwork.  The initial states map, and
  every step is a `Cast`, a `Deliver` or a stutter.
* `QuorumsAgreeHolds`: no two replicas ever see quorums for two values of one type,
  height and round.  With n = 3f+1 two quorums share f+1 voters (`CountParts`,
  `HonestInBoth`), so one voter outside `B`, which both replicas know the vote of; and
  it cast only one (`OneVote`, `AgreeInv`).  This is what Tendermint's safety needs of
  the network, and the point of the harness being no stronger an adversary than f
  validators.

**What a test case promises besides** rests on its `IInv`, mostly under a hypothesis
that is a named definition of the module and part of the theorem's statement.  What
fails without each hypothesis is said below.

`IInv` is checked in a run of every module with an inductive invariant. `QuorumsAgree`
is no property of a run: TLC found it to hold on the instances of Blocking and
SanityRounds, but a mutant that breaks it needs more time than a run is worth.

| Theorem | RoundSkip | QuorumIntersection | LockedValue | SanityRounds | NewProposal | Blocking |
|---|---|---|---|---|---|---|
| `BaseInvariance` | always | in `IInv` | always | always | always | in `IInv` |
| `Refinement` | always | always | always | always | always | always, with nobody Byzantine |
| `QuorumsAgreeHolds` | always | always | always | always | always | n <= 3f+1 |
| `Invariance` (`[]IInv`) | `Deployment` | always | `KeysGiven` | `KeysGiven` | `KeysGiven` | always |

| Theorem | Module | Under |
|---|---|---|
| `TypeCorrect` | RoundSkip | |
| `VerdictSoundHolds`, `ReleaseIsSafeHolds` | RoundSkip | `AtHeight` |
| `NoPolkaForRestHolds`, `NoCommitHolds`, `FaultyVotesHiddenHolds` | RoundSkip | `Deployment` |
| `FaultyNeverCommitsHolds` | QuorumIntersection | |
| `FaultyVotesHiddenHolds` | QuorumIntersection | `KeysGiven` |
| `OnlyHLocksHolds` | LockedValue | `KeysGiven` |
| `VerdictSoundHolds` | LockedValue | `ProposersDiffer` |
| `RoundsReachedHolds`, `CountersHold` | SanityRounds | |
| `NoEarlyCommitHolds`, `OldBlockOnlyHolds` | SanityRounds | `KeysGiven` |
| `OldBlockAbandonedHolds`, `SuccessSoundHolds`, `FailMeansLockHolds` | NewProposal | `KeysGiven` |
| `FailSoundHolds` | Blocking | |
| `Invariance`, `TypeCorrect`, `NoPanicHolds`, `ExactPartitionHolds` | Partitioner | |

**RoundSkipProofs**, for any partition, target round and height.  `AtHeight`: the
replicas start at the height under test; otherwise `VerdictSound` is false (Differences,
3).  `KeysGiven`: the keys of the faulty replicas can be read; otherwise their real
votes get through.  `Deployment` is both. `IInv == BaseInv /\ GateInv /\ CastHidden /\
SeenHidden`:

* `GateInv`: a replica counted as past the round is past it, and after the release all
  are.  This is why the release is safe: votes are cast and quorums needed only in the
  current round.  It needs `AtHeight` alone, and so do the verdict and the release.
* `SeenHidden`: a targeted prevote of a faulty validator in an inbox or in the store is
  nil, and before the release no targeted prevote of `h` is in an inbox.
* `CastHidden`: no replica of `rest` precommitted a block in a skipped round.

`NoPolkaForRest` alone is not inductive: the faulty replica's forwarded votes and the
store have to be covered, and its preservation under the release needs `GateInv`.  From
`IInv`: a replica of `rest` before the release knows only block prevotes of `rest`, 2f
of them; precommits of a block come only from `h` and the faulty replicas, f+1 of them,
and 2f+1 > f+1.  The counting is done in the lemmas `RestNoQuorum` and `FewNoQuorum` by
the cardinality theorems.

**PartitionerProofs**, for calls with any number of parts and labels, any list of
replicas and any sizes.  The loop invariants use `Before(k)`, the places in the parts
before the k-th: `SizesInv` has `totSize = Before(next)`, and `DealInv` that the parts
before the current one are full, the current one has what `Before` leaves of the
replicas dealt, and the later ones have none.  So the current index cannot pass the last
part before the list is exhausted, because the sizes add up to its length; this is
`NoPanic`, and at the end `ExactPartition`.  `Before` is the cardinality of a set of
pairs and not a recursive sum, so that the cardinality theorems give what the proof
needs of it.

**QuorumIntersectionProofs.**  `IInv == TypeOK /\ NetInv(Faulty) /\ VotesInv /\
CountInv`; `VotesInv` says that a received vote of a faulty validator whose key is known
is nil, and `CountInv` that the counter of `round0` bounds the voters whose precommits
of a block in round 0 a replica has received.  `FaultyNeverCommits` alone says nothing
of the counter, so it cannot be inductive; with it, 2f-1 counted voters and the
replica's own vote are 2f at most.  Nothing is proved of `VerdictSound`, which is false
(Differences, 7).

**LockedValueProofs.**  `IInv == BaseInv /\ SeenInv /\ LockInv`. `OnlyHLocks` is not
inductive: that nobody sees a quorum in round 1 rests on who prevotes there, which rests
on who precommitted in round 0 (`LockInv`), which rests on whose prevotes could be seen
in round 0 (`SeenInv`), and that needs `KeysGiven`.  `VerdictSound` needs no keys but
`ProposersDiffer`, that rounds 0 and 2 have different proposers, which Tendermint's
rotation gives with four validators of equal power: then a block that is proposed again
was sent before, and so is in `oldProposal` (`ProposalInv`).

**SanityRoundsProofs.**  `BaseInv` has, besides the network and the places, `CountInv`:
the voters of the limited votes a replica has received are at most `voteCount`, 2f-1;
its own vote and the faulty replicas' nil votes leave it short of a quorum.  That is
`CountersHold`, which holds whatever keys are missing: who signed a vote is known only
by the key, so the filter does not take the vote of such a replica for a faulty one's,
and counts it (`VotesInv`).  In Two nobody can commit in round 0; in Three those that
are not to lock see no quorum of prevotes there. `RoundsInv` ties the counters of rounds
to the rounds of the replicas.  `BlockInv` and `LockInv` carry this on to round 1: who
is not locked and has no proposal prevotes nil there, so the block is that of round 0
(Two) or there are f+1 voters at most (Three).  `KeysGiven` asks only for the keys this
needs: in Two the key of the proposer of round 1, whose proposal otherwise passes as it
is (Differences, 17), and in Three that of the one replica in `faulty` whose votes are
changed.

**NewProposalProofs.**  `KeysGiven`: the filters can read the keys of `h` and of the
faulty replicas, and HigherProp, which knows only one faulty replica, runs with f = 1.
None of the properties is inductive. The block of round 0 can come back only through a
proposer that saw a quorum for it in round 0; that is `h` or a faulty replica
(`ProposalInv`), because `h`'s prevote and the faulty replicas' never arrive
(`VotesInv`).  By then others than its proposer voted for it, so the test case has noted
it in `oldProposal` and `higherRound` withholds it, and so `rest` can never vote for it
again (`Accounted`), and 2f+1 votes can never come together.  `StateInv` carries what
the states of the state machine have seen to the verdicts.

**BlockingProofs.**  This test case changes no vote, so it implements ByzantineNetwork
with nobody Byzantine (`IsHonestNetwork`).  `HeldInv`: what is held are prevotes that
were cast, and no more of them for a replica than `msgCounter` has counted. `FailSound`
is inductive once the reasons are seen to stay: heights grow, a round starts anew only
at the next height, and votes are not taken back (`ReasonStays`).

**Only model-checked:** liveness (`TestCompletes`, `Returns`).  It
rests on fairness and so on ENABLED, which is out of the prover's reach.

## Differences between the code and what is said of it

The runs `roundskip_height` and `quorum_verdict` keep 3 and 7 as violations.  The
others were seen while modelling (those marked TLC by a counterexample to a formula stating the quoted
text) and no run is kept.

1. `src/README.md:23` says all replicas except `h` do not see
   consensus.  The faulty replica counts its own unchanged prevote, those
   of `rest`, and so sees 2f+1 and may precommit.  `NoCommit` holds anyway. (TLC)
2. `docs/report/testcases/roundskip2.md:15` delays the prevotes of `h` "until we are
   done skipping rounds", and `:32` has them delivered.  Prevotes that `h`
   sends after the release are held again and never delivered: the state machine
   leaves `deliverDelayed` at the first event that finds the store empty
   (`rskip/one.go:89`, `:132`). (TLC)
3. `roundReached` (`rskip/one.go:38`) does not look at the height.  With a target
   height above 1, rounds of the height before count, the held prevotes are
   released and the assertion passes too early.
4. `sanity/one.go:96` lets 2f precommits through to an honest replica, which has
   its own too: 2f+1, so it commits in round 0, although the test case is about
   a second round. (TLC)
5. `findIntersection` (`sanity/one.go:163`) aborts with "different proposal"
   at the first prevote of a later round, when nobody has a quorum yet. (TLC)
6. Two quorums for nil count as the same proposal "" (`sanity/one.go:120`). (TLC)
7. `sanity/one.go:184` wants "a quorum intersection of f+1" of the prevotes.  `:128`
   records a vote for its *sender*, and forwarded votes make quorums that nobody
   cast: `r1` prevotes nil in rounds 0 and 1, `h` and `r2` forward both votes, and
   the test case passes with one voter.
8. `valueLockedCond` (`lockedvalue/common.go:81`) takes 2f *receipts* for "2f+1
   votes received": duplicates count, and `h`'s own vote is taken for granted. (TLC)
9. `lockedvalue/one.go:96` aborts with "locked value was not voted" also when
   `h` timed out of round 0 before it saw the quorum, and so never locked. (TLC)
10. `lockedvalue/one.go:157` aborts with "did not unlock" also when `h` did not
    see 2f+1 nil prevotes in round 1. (TLC)
11. In BlockingTestCase any message but a prevote releases everything held
    (`rskip/blocking.go:109`), so that a replica does see 2f+1 prevotes, against
    `docs/report/Tendermint.md:49`. (TLC)
12. BlockingTestCase's assertion reads `cmr1` (`rskip/blocking.go:114`), which
    nothing sets: it holds in the failing state too. (TLC)
13. The assertions of sanity.TwoTestCase and ThreeTestCase read variables nothing
    sets (`sanity/two.go:97`, `three.go:103`): both test cases fail always.
14. In sanity.ThreeTestCase with f = 1 the faulty replica sees the precommits of the
    f+1 that lock and its own, 2f+1, and commits in round 0: the state machine
    fails, which is meant to succeed on a commit in round 2 (`three.go:68`).
    `NoEarlyCommit` leaves that replica out. (TLC)
15. sanity.TwoTestCase fails when a replica commits in round 1 before a message of
    round 1 was seen of every replica, and so does Three in round 2: `IsCommit`
    comes first in every state (`two.go:67`). (TLC)
16. `RoundReached` (`common/cond.go:139`) counts exact rounds: a replica that skips
    one is never counted for it, and the test case stays in its state.
17. If a proposal cannot be changed, sanity.TwoTestCase delivers it as it is
    (`two.go:46`), and the round is not spoiled.
18. lockedvalue.Two aborts with "did unlocked" (`two.go:50`) also when `h` prevotes nil
    before a proposal of round 2 was seen: the variable that is not set and the hash
    of a nil vote are both "". (TLC)
19. `docs/report/testcases/lockedvalue2.md:16` has the faulty replica vote for the new
    block, so that `h` locks on it.  lockedvalue.Three makes it vote nil always; the
    code that would do otherwise is commented out (`three.go:42`; "Does not work",
    `three.go:13`).  So `h` locks again only if it prevotes the new block itself.
20. Every failure of lockedvalue.Three is `h`'s own precommit of round 0, the lock the
    test case made it take, sent again after a new proposal was seen (`three.go:227`
    does not ask for the round): `FailMeansLock`.
21. HigherProp's `rOldVote` is about what `rest` votes, and sees `h`'s precommit when
    one of them forwards it (`higherProp.go:276`): `FailMeansLock`.
22. HigherProp changes the votes of one faulty replica only (`higherProp.go:31`, the
    TODO there), and without `h`'s key it does not hold `h`'s prevotes.
23. `newProposal` is overwritten by the proposal of any later round
    (`higherProp.go:119`), so that a vote for the block proposed again may be missed.

## Not modelled

* BFTTimeOne: its subject is Tendermint's weighted median of times, which is
  not in the repository, and what it does to a precommit asks for no state.
* byzantine.One and the dummies: nothing to go wrong in them.
* Parsing and marshalling in `messages.go`, logging, `server.go`: pure I/O.
* Functions nothing calls: `round0` and `round0Message` of `lockedvalue/one.go`,
  `nextRound` of `three.go`, `ChangeProposalLockedValue`.
* The assertions of sanity.TwoTestCase and ThreeTestCase (13).
* That `ChangeVote` writes into the parsed message it is given: the state machine has
  read it before, the filter is the last of the cascade, and the receipt is of the
  new message, so nothing reads it again.

## Plan

Done, in this order: TMessages, TendermintReplicas, RoundSkip with its proofs and
refinement (the test case that is run), Partitioner with its proofs,
QuorumIntersection and LockedValue with theirs, Blocking, ProposingReplicas,
SanityRounds and NewProposal with theirs, test case Two in LockedValue, the proofs of
Blocking and of CreatePartition for any number of parts, and the theory of the network
under any test case (`NetInv`, `QuorumsAgree`).

Left, the most important first:

1. Several heights in LockedValue, SanityRounds and NewProposal: their variables are
   overwritten by later ones.
2. Liveness of the sanity state machines: which of them can wait for ever (16).
3. BFTTimeOne, with the median as an operator checked against a reference.
