------------------------------ MODULE RoundSkip ------------------------------
(***************************************************************************)
(* The test case RoundSkipPrevote (testcases/rskip/one.go): skip rounds of *)
(* a height by holding back the prevotes that one honest replica sends and *)
(* by turning those the faulty replicas send into nil votes, then deliver  *)
(* what was held.                                                          *)
(*                                                                         *)
(* Every event first steps the state machine and then runs the cascade of  *)
(* handlers, in one call of the test server; one event is one action here. *)
(***************************************************************************)
EXTENDS TendermintReplicas

CONSTANTS H,         \* the replica of the part "honestDelayed"
          Faulty,    \* the part "faulty"
          Rest,      \* the part "rest"
          Height,    \* the parameters of OneTestcase
          Round,
          OtherTypes \* bound: the types of message sent besides prevotes

ASSUME PartitionAssumption ==
  /\ Replicas = {H} \cup Faulty \cup Rest
  /\ H \notin Faulty \cup Rest
  /\ Faulty \cap Rest = {}
  /\ Cardinality(Faulty) = F
  /\ Cardinality(Rest) = 2 * F
ASSUME TargetAssumption == Height \in Nat /\ Round \in Nat \ {0}
ASSUME OtherTypesAssumption == OtherTypes \subseteq MessageTypes \ {Prevote}

VARIABLES state,       \* the state of the test case's state machine
          roundCount,  \* the variable roundCount; 0 stands for no entry
          curRound,    \* the variable CurRound; 0 while it is not set
          delayed      \* the message store delayedMessages

testVars == << state, roundCount, curRound, delayed >>
vars     == << height, round, votes, inbox, state, roundCount, curRound, delayed >>

States == { "start", "delayAndChangeVotes", "deliverDelayed", "successState" }

TypeOK ==
  /\ NetTypeOK
  /\ state \in States
  /\ roundCount \in [Replicas -> Nat]
  /\ curRound \in Nat
  /\ delayed \subseteq Msgs

Init ==
  /\ NetInit
  /\ state = "start"
  /\ roundCount = [r \in Replicas |-> 0]
  /\ curRound = 0
  /\ delayed = {}

-----------------------------------------------------------------------------
(***************************************************************************)
(* The state machine.  The transition out of the current state, if its     *)
(* condition holds of the event, and otherwise no transition.              *)
(***************************************************************************)
HeightReached(hr) ==
  /\ state = "start"
  /\ hr[1] >= Height
  /\ state' = "delayAndChangeVotes"
  /\ UNCHANGED << roundCount, curRound >>

HeightAwaited(hr) ==
  /\ state = "start"
  /\ ~ hr[1] >= Height
  /\ UNCHANGED << state, roundCount, curRound >>

\* Broken: the messages are counted; or 2F+1 replicas are enough.
RoundCountedPerMessage(from, hr) ==
  /\ state = "delayAndChangeVotes"
  /\ roundCount' = [roundCount EXCEPT ![from] = @ + 1]
  /\ IF \A p \in Replicas : roundCount'[p] >= Round
     THEN state' = "deliverDelayed" /\ curRound' = Round
     ELSE UNCHANGED << state, curRound >>

RoundCountedQuorum(from, hr) ==
  /\ state = "delayAndChangeVotes"
  /\ roundCount' = [roundCount EXCEPT ![from] = IF @ < hr[2] THEN hr[2] ELSE @]
  /\ IF Quorum({ p \in Replicas : roundCount'[p] >= Round })
     THEN state' = "deliverDelayed" /\ curRound' = Round
     ELSE UNCHANGED << state, curRound >>

\* The condition counts while it is evaluated: it notes the highest round of
\* the messages each replica sent, whatever their height.
RoundCounted(from, hr) ==
  /\ state = "delayAndChangeVotes"
  /\ roundCount' = [roundCount EXCEPT ![from] = IF @ < hr[2] THEN hr[2] ELSE @]
  /\ LET skipped == { p \in Replicas : roundCount'[p] >= Round }
     IN  \/ /\ skipped = Replicas
            /\ state' = "deliverDelayed"
            /\ curRound' = Round
         \/ /\ skipped # Replicas
            /\ UNCHANGED << state, curRound >>

NoDelayedMessages ==
  /\ state = "deliverDelayed"
  /\ delayed = {}
  /\ state' = "successState"
  /\ UNCHANGED << roundCount, curRound >>

NoTransition ==
  /\ state = "successState" \/ (state = "deliverDelayed" /\ delayed # {})
  /\ UNCHANGED << state, roundCount, curRound >>

SendStep(from, hr) ==
  \/ HeightReached(hr)
  \/ HeightAwaited(hr)
  \/ RoundCounted(from, hr)
  \/ NoDelayedMessages
  \/ NoTransition

-----------------------------------------------------------------------------
(***************************************************************************)
(* The handlers.                                                           *)
(***************************************************************************)

\* Broken: the last round to be skipped is left alone.
TargetedOffByOne(v) == v.type = Prevote /\ v.height = Height /\ v.round < Round - 1

\* The prevotes changeVoteFilter takes out of the ordinary flow.
Targeted(v) == v.type = Prevote /\ v.height = Height /\ v.round < Round

\* Broken: the store is emptied and its messages are lost.
FallThroughLoses(M) ==
  Receive(M) /\ delayed' = IF state' = "deliverDelayed" THEN {} ELSE delayed

\* Behind changeVoteFilter: deliverDelayedFilter if the state machine is in
\* deliverDelayed, and otherwise the cascade's default of delivering the
\* messages M of the event.
FallThrough(M) ==
  IF state' = "deliverDelayed"
  THEN Receive(delayed \cup M) /\ delayed' = {}
  ELSE Receive(M) /\ delayed' = delayed

PrevoteSent(from, to, v) ==
  /\ v.type = Prevote
  /\ MaySend(from, to, v)
  /\ SendStep(from, HeightRound(v))
  /\ UNCHANGED << height, round, votes >>

\* Broken: after the release the filter lets everything pass.
PassPrevoteOnceReleased(from, to, v) ==
  /\ ~ Targeted(v) \/ from \in Rest \/ state = "successState"
  /\ PrevoteSent(from, to, v)
  /\ Receive({[to |-> to, vote |-> v]})
  /\ UNCHANGED delayed

\* Broken: what a replica of rest sends is dropped, not passed.
PassPrevoteDropsRest(from, to, v) ==
  /\ ~ Targeted(v) \/ from \in Rest
  /\ PrevoteSent(from, to, v)
  /\ Receive(IF Targeted(v) THEN {} ELSE {[to |-> to, vote |-> v]})
  /\ UNCHANGED delayed

\* A prevote of another height or round, or one a replica of rest sends.
PassPrevote(from, to, v) ==
  /\ ~ Targeted(v) \/ from \in Rest
  /\ PrevoteSent(from, to, v)
  /\ Receive({[to |-> to, vote |-> v]})
  /\ UNCHANGED delayed

\* Broken: the new vote is signed for the validator whose address it bears.
NilPrevoteForged(from, to, v) ==
  /\ Targeted(v) /\ from \in Faulty /\ CanChangeVote(from)
  /\ PrevoteSent(from, to, v)
  /\ Receive({[to |-> to, vote |-> ChangeVoteToNil(v.val, v)]})
  /\ UNCHANGED delayed

\* One a faulty replica sends, its own or not, is signed with the sender's key.
NilPrevote(from, to, v) ==
  /\ Targeted(v)
  /\ from \in Faulty
  /\ CanChangeVote(from)
  /\ PrevoteSent(from, to, v)
  /\ Receive({[to |-> to, vote |-> ChangeVoteToNil(from, v)]})
  /\ UNCHANGED delayed

\* Without the key the filter returns no message and lets the cascade go on.
NilPrevoteFails(from, to, v) ==
  /\ Targeted(v)
  /\ from \in Faulty
  /\ ~ CanChangeVote(from)
  /\ PrevoteSent(from, to, v)
  /\ FallThrough({[to |-> to, vote |-> v]})

HoldPrevote(from, to, v) ==
  /\ Targeted(v)
  /\ from \notin Rest \cup Faulty
  /\ PrevoteSent(from, to, v)
  /\ delayed' = delayed \cup {[to |-> to, vote |-> v]}
  /\ UNCHANGED inbox

\* Any other message.  Precommits are among them: what the replicas do with
\* them is in TendermintReplicas.
SendOther(from, type, h, r) ==
  /\ Reached(from, h, r)
  /\ SendStep(from, HeightRound([type |-> type, height |-> h, round |-> r]))
  /\ FallThrough({})
  /\ UNCHANGED << height, round, votes >>

\* An event that is not the sending of a message reaches only the conditions
\* that do not ask for one; the handlers return nothing.
OtherEvent ==
  /\ NoDelayedMessages
  /\ UNCHANGED << height, round, votes, inbox, delayed >>

-----------------------------------------------------------------------------
PrevoteHandled(from, to, v) ==
  \/ PassPrevote(from, to, v)
  \/ NilPrevote(from, to, v)
  \/ NilPrevoteFails(from, to, v)
  \/ HoldPrevote(from, to, v)

PrevoteEvent ==
  \E from \in Replicas : \E to \in Replicas \ {from} : \E v \in Known(from) :
    PrevoteHandled(from, to, v)

OtherSend ==
  \E from \in Replicas, type \in OtherTypes :
    \E h \in InitialHeight..MaxHeight, r \in 0..MaxRound :
      SendOther(from, type, h, r)

Next ==
  \/ ReplicaStep /\ UNCHANGED testVars
  \/ PrevoteEvent
  \/ OtherSend
  \/ OtherEvent

Spec == Init /\ [][Next]_vars

(***************************************************************************)
(* What is bound to happen: a replica casts a prevote, what it casts       *)
(* reaches the test server, timeouts move it on, and it announces the      *)
(* steps it takes.  It precommits, nil if nothing else, once it has 2F+1   *)
(* prevotes of its round for whatever values; precommits pass the          *)
(* handlers, and 2F+1 of them start the timeout that ends the round.       *)
(* Whoever leaves a round first has seen those, and the others get them.   *)
(* Forwarding, resending, deciding and all that is faster than this may    *)
(* happen but need not.  A step that is due stays due until it is taken or *)
(* the replica has moved on, and until the success state there are finitely *)
(* many to take, so that fairness of the kind reaches every replica.       *)
(***************************************************************************)
PrevoteDue(p) == \E b \in Casts : CastPrevote(p, b)

Prevoters(S, h, r) ==
  { v.val : v \in { w \in S : w.type = Prevote /\ w.height = h /\ w.round = r } }

Timeout(p) ==
  /\ \/ round[p] \notin VoteRounds
     \/ Quorum({ q \in Replicas : Quorum(Prevoters(Known(q), height[p], round[p])) })
     \/ \E q \in Replicas : Reached(q, height[p], round[p] + 1)
  /\ NextRound(p)

OwnPrevoteSent(p) ==
  \E q \in Replicas \ {p}, v \in { w \in votes : w.val = p } : PrevoteHandled(p, q, v)

\* A replica beyond the skipped rounds announced a later one on its way, also
\* if it has decided since.
RoundAnnounced(p) == \E r \in Round..MaxRound : SendOther(p, "NewRoundStep", Height, r)

Fairness ==
  /\ WF_vars(UNCHANGED testVars /\ \E p \in Replicas : PrevoteDue(p) \/ Timeout(p))
  /\ WF_vars(\E p \in Replicas : OwnPrevoteSent(p) \/ RoundAnnounced(p))

FairSpec == Spec /\ Fairness
-----------------------------------------------------------------------------
(***************************************************************************)
(* Properties.                                                             *)
(***************************************************************************)
Released == state \in {"deliverDelayed", "successState"}

\* Until the held prevotes are released no replica of rest sees 2F+1 prevotes
\* for a block in a round the test case skips, whoever forwards what to it.
\* (changeVoteFilter, against the gossip of votes.)
NoPolkaForRest ==
  ~ Released => \A p \in Rest, r \in 0..Round-1, b \in Blocks : ~ Polka(p, Height, r, b)

\* No block ever gets 2F+1 precommits in a round the test case skips, although
\* the held prevotes reach the replicas in the end.  (The release waits for
\* roundReached, and the replica h and the faulty ones are too few.)
NoCommit == \A r \in 0..Round-1, b \in Blocks : ~ CommitQuorum(Height, r, b)

\* The test case passes only if every replica really left the skipped rounds:
\* its verdict is read from what the replicas sent, in whatever order.
\* (roundReached and the assertion of OneTestcase.)
VerdictSound == curRound = Round => \A p \in Replicas : Reached(p, Height, Round)

\* Nobody but a faulty replica itself ever counts its prevote for a block in
\* a skipped round: also after the release, and also when others forward it.
\* (changeVoteFilter keeps changing votes in every state.)
FaultyVotesHidden ==
  \A p \in Replicas : \A v \in inbox[p] :
    Targeted(v) /\ v.val \in Faulty => v.block = Nil

\* A prevote leaves the store only when it is handed to the replica it was
\* sent to, and only once no replica can use it in a skipped round.
\* (deliverDelayedFilter empties the store while it builds its answer.)
ReleaseIsSafe ==
  [][ \A m \in delayed \ delayed' :
        /\ m.vote \in inbox'[m.to]
        /\ \A p \in Replicas : Reached(p, Height, Round) ]_vars

\* The test case is one of the networks Tendermint has to tolerate.
BN == INSTANCE ByzantineNetwork WITH votes <- votes, inbox <- inbox, Faulty <- Faulty
IsByzantineNetwork == BN!Spec

\* The test case reaches its success state, unless a block is decided in a
\* round to be skipped, after which nothing brings the replicas to the later
\* rounds.  (roundReached asks for all replicas and noDelayedMessagesCond for
\* an empty store, against a replica that keeps sending what is to be held.)
TestCompletes ==
  <>(state = "successState" \/ \E r \in 0..Round-1, b \in Blocks : CommitQuorum(Height, r, b))

(***************************************************************************)
(* The inductive invariant behind the properties, in three layers: what    *)
(* the network and the store satisfy in every run; the gate in front of    *)
(* the release, in a run that starts at the height the test case is about; *)
(* what is hidden, if the faulty replicas gave their keys as well.         *)
(***************************************************************************)
KeysGiven  == Faulty \subseteq Keyed
AtHeight   == InitialHeight = Height
Deployment == KeysGiven /\ AtHeight

StoreInv == \A m \in delayed : Valid(m.vote) /\ Genuine(m.vote, Faulty) /\ Targeted(m.vote)

BaseInv == TypeOK /\ NetInv(Faulty) /\ StoreInv

GateInv ==
  /\ \A p \in Replicas : roundCount[p] >= Round => Reached(p, Height, Round)
  /\ Released => \A p \in Replicas : Reached(p, Height, Round)
  /\ curRound = Round => Released

CastHidden ==
  \A v \in votes :
    v.type = Precommit /\ v.height = Height /\ v.round < Round /\ v.block \in Blocks
      => v.val \notin Rest

SeenHidden ==
  /\ \A p \in Replicas : \A v \in inbox[p] :
       Targeted(v) => /\ v.val \in Faulty => v.block = Nil
                      /\ v.val = H => Released
  /\ \A m \in delayed : m.vote.val \in Faulty => m.vote.block = Nil

IInv == BaseInv /\ GateInv /\ CastHidden /\ SeenHidden
=============================================================================
