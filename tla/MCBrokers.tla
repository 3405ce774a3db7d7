------------------------------ MODULE MCBrokers ------------------------------
(* The three brokers, ArpBroker and WitnessBroker, on small sets, for TLC.
   They share no state: a behaviour of TLC follows the brokers of one of the
   two modules (side), and the others stand still. *)
EXTENDS ArpBroker, WitnessBroker, TLC

VARIABLE side

BrokersInit == side \in {"actions", "witness"} /\ ArpInit /\ WitnessInit

BrokersNext ==
  \/ side = "actions" /\ ArpNext /\ UNCHANGED <<side, witnessVars>>
  \/ side = "witness" /\ WitnessNext /\ UNCHANGED <<side, arpVars>>

BrokersSpec == BrokersInit /\ [][BrokersNext]_<<side, arpVars, witnessVars>>

Symmetry == Permutations(Agents) \union Permutations(Receipts) \union Permutations(Posts)
=============================================================================
