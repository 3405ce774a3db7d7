------------------------------ MODULE MCDipNode -----------------------------
(* DipNode with one envelope of each kind that is handled differently. *)
EXTENDS DipNode

CONSTANT Asker

Request == [kind |-> "message", asks |-> "vcp_command", here |-> TRUE, whole |-> TRUE,
            from |-> Asker]
OwnRequest == [kind |-> "capability", asks |-> "witness_sign_request", here |-> TRUE,
               whole |-> TRUE, from |-> Here]
(* What a peer's gossip posts: a receipt addressed to the peer's npub. *)
Gossip == [kind |-> "receipt", asks |-> "none", here |-> FALSE, whole |-> TRUE,
           from |-> Asker]

MCMail == {Request, OwnRequest, Gossip}
=============================================================================
