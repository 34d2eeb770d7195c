------------------------------- MODULE Blocking -------------------------------
(***************************************************************************)
(* The test case BlockingTestCase (testcases/rskip/blocking.go): hold the  *)
(* first prevotes sent to each replica and see whether a replica leaves    *)
(* the first round or commits all the same.                                *)
(*                                                                         *)
(* Unlike in RoundSkip the handler behind the filter, deliverDelayedFilter,*)
(* is not guarded by a state: it runs on every message the filter does not *)
(* decide about.  The partition of setupFunc plays no part.  The assertion *)
(* reads a variable, cmr1, that nothing sets: it always holds.             *)
(***************************************************************************)
EXTENDS TendermintReplicas

VARIABLES state,       \* "start" or "failState", which does not end the test
          msgCounter,  \* msgCounter[p]: the prevotes to p counted so far
          held         \* the message store delayedMessages

testVars == << state, msgCounter, held >>
vars     == << height, round, votes, inbox, state, msgCounter, held >>

N == Cardinality(Replicas)

\* How many prevotes to a replica the filter holds: n/3 + 1 of them.
Limit == N \div 3 + 1

TypeOK ==
  /\ NetTypeOK
  /\ state \in { "start", "failState" }
  /\ msgCounter \in [Replicas -> 0..Limit]
  /\ held \subseteq Msgs

Init ==
  /\ NetInit
  /\ state = "start"
  /\ msgCounter = [p \in Replicas |-> 0]
  /\ held = {}

-----------------------------------------------------------------------------
\* Broken: every message counts as one of a later round.
CommitOrRound1Any(r) == state' = "failState"

\* commit_or_round1, on the sending of a message of round r.
CommitOrRound1(r) == state' = IF r > 0 THEN "failState" ELSE state

PrevoteSent(from, to, v) ==
  /\ v.type = Prevote
  /\ MaySend(from, to, v)
  /\ CommitOrRound1(v.round)
  /\ UNCHANGED << height, round, votes >>

\* Broken: one counter for all replicas, that of the sender.
HoldPrevoteOfSender(from, to, v) ==
  /\ msgCounter[from] < Limit
  /\ PrevoteSent(from, to, v)
  /\ msgCounter' = [msgCounter EXCEPT ![from] = @ + 1]
  /\ held' = held \cup {[to |-> to, vote |-> v]}
  /\ UNCHANGED inbox

\* filter_less_than_n_minus_f counts messages, of any height and round, and
\* never starts anew.
HoldPrevote(from, to, v) ==
  /\ msgCounter[to] < Limit
  /\ PrevoteSent(from, to, v)
  /\ msgCounter' = [msgCounter EXCEPT ![to] = @ + 1]
  /\ held' = held \cup {[to |-> to, vote |-> v]}
  /\ UNCHANGED inbox

\* Broken: what is not held is changed, as in RoundSkip.
PassPrevoteChanged(from, to, v) ==
  /\ msgCounter[to] >= Limit
  /\ PrevoteSent(from, to, v)
  /\ Receive({[to |-> to, vote |-> ChangeVoteToNil(v.val, v)]})
  /\ UNCHANGED << msgCounter, held >>

PassPrevote(from, to, v) ==
  /\ msgCounter[to] >= Limit
  /\ PrevoteSent(from, to, v)
  /\ Receive({[to |-> to, vote |-> v]})
  /\ UNCHANGED << msgCounter, held >>

\* deliverDelayedFilter hands out all that is held, with the message.
DeliverDelayed == Receive(held) /\ held' = {}

\* Any message but a prevote, of a height and round its sender has reached.
SendOther(from, h, r) ==
  /\ Reached(from, h, r)
  /\ CommitOrRound1(r)
  /\ DeliverDelayed
  /\ UNCHANGED << height, round, votes, msgCounter >>

\* The event "Committing block" of a replica.
CommitEvent(p) ==
  /\ \E r \in 0..MaxRound, b \in Blocks : CommitQuorum(height[p], r, b)
  /\ state' = "failState"
  /\ UNCHANGED << height, round, votes, inbox, msgCounter, held >>

TestEvent ==
  \/ \E from \in Replicas : \E to \in Replicas \ {from} : \E v \in Known(from) :
       HoldPrevote(from, to, v) \/ PassPrevote(from, to, v)
  \/ \E p \in Replicas, h \in InitialHeight..MaxHeight, r \in 0..MaxRound : SendOther(p, h, r)
  \/ \E p \in Replicas : CommitEvent(p)

Next ==
  \/ ReplicaStep /\ UNCHANGED testVars
  \/ TestEvent

Spec == Init /\ [][Next]_vars

-----------------------------------------------------------------------------
(***************************************************************************)
(* Properties.                                                             *)
(***************************************************************************)

\* The test case fails only if a replica left the first round or 2F+1 of them
\* precommitted a block.  (commit_or_round1.)
FailSound ==
  state = "failState" =>
    \/ \E p \in Replicas : round[p] > 0 \/ height[p] > InitialHeight
    \/ \E r \in 0..MaxRound, b \in Blocks : CommitQuorum(InitialHeight, r, b)

\* The test case only delays: it makes up no vote, not even one of a faulty
\* replica, and changes none.
BN == INSTANCE ByzantineNetwork WITH votes <- votes, inbox <- inbox, Faulty <- {}
IsHonestNetwork == BN!Spec

-----------------------------------------------------------------------------
(***************************************************************************)
(* The inductive invariant behind the properties: the store holds prevotes *)
(* that were cast, and no more to a replica than were counted for it.      *)
(***************************************************************************)
HeldFor(p) == { m \in held : m.to = p }

HeldInv ==
  /\ IsFiniteSet(held)
  /\ \A m \in held : m.vote.type = Prevote /\ m.vote \in votes
  /\ \A p \in Replicas : Cardinality(HeldFor(p)) <= msgCounter[p]

IInv == TypeOK /\ NetInv({}) /\ HeldInv /\ FailSound
=============================================================================
