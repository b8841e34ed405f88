----------------------------- MODULE Delivery ------------------------------
(***************************************************************************)
(* What a store-and-forward channel of Nodeglow promises: a message it has *)
(* accepted stays pending until it was handed over or is accounted for as  *)
(* discarded.  A message may be handed over more than once (the answer to  *)
(* a delivery can be lost).                                                *)
(***************************************************************************)
CONSTANT Messages

VARIABLES pending, delivered, discarded

dvars == <<pending, delivered, discarded>>

Init == pending = {} /\ delivered = {} /\ discarded = {}

(* New messages come in; a full channel may discard some of what it holds. *)
Accept(M, D) ==
    /\ M \subseteq Messages \ (pending \cup delivered \cup discarded)
    /\ D \subseteq pending \cup M
    /\ pending' = (pending \cup M) \ D
    /\ discarded' = discarded \cup (D \ delivered)
    /\ UNCHANGED delivered

(* The other side stores the messages of S; of those and of the ones it    *)
(* refuses, R leave the channel.                                           *)
HandOver(S, R) ==
    /\ S \subseteq pending /\ R \subseteq pending
    /\ delivered' = delivered \cup S
    /\ pending' = pending \ R
    /\ discarded' = discarded \cup (R \ delivered')

Next == \/ \E M, D \in SUBSET Messages : Accept(M, D)
        \/ \E S, R \in SUBSET pending : HandOver(S, R)

Spec == Init /\ [][Next]_dvars

=============================================================================
