----------------------------- MODULE TMessages -----------------------------
(***************************************************************************)
(* The view of Tendermint consensus messages that util/messages.go gives   *)
(* the test cases: the type of a message, its height and round, and the    *)
(* rewriting of votes with a replica's private key.                        *)
(*                                                                         *)
(* A vote is a record.  Its field val is the validator whose address it    *)
(* carries, its field key the replica whose private key signed it.  The    *)
(* two differ exactly when ChangeVote was given a replica other than the   *)
(* validator; the signature then does not verify.                          *)
(***************************************************************************)
EXTENDS Integers, FiniteSets

CONSTANTS Replicas,   \* the replicas registered with the test server
          Keyed,      \* those whose Info holds a private key and a chain id
          Blocks,     \* block identifiers
          Nil         \* the identifier with a nil hash: a vote for no block

ASSUME KeyedAssumption == Keyed \subseteq Replicas
ASSUME NilAssumption   == Nil \notin Blocks

Prevote   == "Prevote"
Precommit == "Precommit"

\* The types of message Parse distinguishes.
MessageTypes ==
  { "NewRoundStep", "NewValidBlock", "Proposal", "ProposalPol", "BlockPart",
    "Vote", Prevote, Precommit, "HasVote", "VoteSetMaj23", "VoteSetBits",
    "None" }

Votes == [ type : {Prevote, Precommit}, height : Nat, round : Nat,
           block : Blocks \cup {Nil}, val : Replicas, key : Replicas ]

NewVote(type, h, r, b, val) ==
  [ type |-> type, height |-> h, round |-> r, block |-> b,
    val |-> val, key |-> val ]

\* Height and round of a message.  Both are -1 for a HasVote and for whatever
\* Parse could not decode; the round is -1 for a ProposalPol.
HeightRound(m) ==
  << IF m.type \in {"HasVote", "None"} THEN -1 ELSE m.height,
     IF m.type \in {"HasVote", "None", "ProposalPol"} THEN -1 ELSE m.round >>

Height_(m) == HeightRound(m)[1]
Round_(m)  == HeightRound(m)[2]

\* ChangeVote signs the new vote with the key of the replica it is given and
\* keeps the validator address of the old one.
ChangeVote(replica, v, b) == [ v EXCEPT !.block = b, !.key = replica ]

ChangeVoteToNil(replica, v) == ChangeVote(replica, v, Nil)

\* ChangeVote returns an error without touching the message when the replica
\* has no key or no chain id.
CanChangeVote(replica) == replica \in Keyed

\* Tendermint's check of a vote: the signature must be the validator's.
Valid(v) == v.key = v.val
=============================================================================
