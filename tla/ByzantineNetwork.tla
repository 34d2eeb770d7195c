--------------------------- MODULE ByzantineNetwork ---------------------------
(***************************************************************************)
(* What a test case may do to the replicas, whatever scenario it forces:   *)
(* behave like a network in which only the validators in Faulty are        *)
(* Byzantine.  A replica's votes reach the others late, more than once, in *)
(* any order or never; a vote nobody cast reaches them only if its         *)
(* validator is faulty; and no honest validator votes twice.               *)
(*                                                                         *)
(* Tendermint promises safety against such a network, so what a replica    *)
(* does under a test case that implements this module is the replica's own *)
(* doing.  The test cases hold every private key: nothing but the way they *)
(* use ChangeVote keeps them from forging the vote of an honest replica.   *)
(***************************************************************************)
EXTENDS TMessages

CONSTANT Faulty

VARIABLES votes, inbox

Honest == Replicas \ Faulty

\* Two votes that one validator may not both cast.
Conflict(v, w) ==
  /\ v.val = w.val /\ v.type = w.type
  /\ v.height = w.height /\ v.round = w.round /\ v.block # w.block

Init ==
  /\ votes = {}
  /\ inbox = [p \in Replicas |-> {}]

Cast ==
  /\ votes \subseteq votes'
  /\ \A v \in votes' \ votes :
       Valid(v) /\ (v.val \in Honest => \A w \in votes' : ~ Conflict(v, w))
  /\ UNCHANGED inbox

Deliver ==
  /\ \A p \in Replicas :
       /\ inbox[p] \subseteq inbox'[p]
       /\ \A v \in inbox'[p] \ inbox[p] :
            Valid(v) /\ (v \in votes \/ v.val \in Faulty)
  /\ DOMAIN inbox' = Replicas
  /\ UNCHANGED votes

Spec == Init /\ [][Cast \/ Deliver]_<< votes, inbox >>
=============================================================================
