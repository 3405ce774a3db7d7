--------------------------- MODULE MCCommandLine ---------------------------
(* Small commands for TLC: see README.md for the bounds. *)
EXTENDS CommandLine

CONSTANTS t1, t2, noTwin, twin, device, noPly, hole, a1, a2, a3, b1, b2

MCVersions == {<<a1, a2, a3>>, <<b1, b2>>}
MCDirOf == [i \in {twin, device} |-> i]

=============================================================================
