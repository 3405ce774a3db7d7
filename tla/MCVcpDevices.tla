---------------------------- MODULE MCVcpDevices ----------------------------
(* VcpDevices with a TTL of four scan cycles, as the default configuration *)
(* has (120 and 30 seconds).                                               *)
EXTENDS VcpDevices

Critical == {"firmware.update", "safety.disable"}
Go2 == [declared |-> Capabilities, flagged |-> Critical, listed |-> Critical]
(* The node's manifest of a device of another model. *)
Plain == [declared |-> Captured, flagged |-> {}, listed |-> {}]
(* Another caller's, whose two lists differ: issue does not call validate. *)
ListedOnly == [declared |-> Captured, flagged |-> {}, listed |-> {"camera"}]

MCManifests == {Go2, Plain, ListedOnly}
(* The node's request, and one of another caller that asks for more. *)
MCRequests == {Captured, Capabilities}
MCDurations == {[preferred |-> 4, max |-> 2]}
=============================================================================
