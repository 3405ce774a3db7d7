------------------------- MODULE MCSovereignRuntime -------------------------
EXTENDS SovereignRuntime, TLC

CONSTANTS a1, a2, a3

Alice == [id |-> "alice", valid |-> TRUE, ceiling |-> Standard]
Capability == [grantedTo |-> "alice", action |-> "execute", covers |-> {"arm"},
               expiresAt |-> 0, level |-> Standard, window |-> 0..1, emptyFence |-> FALSE]
Ask(p, c) == [principal |-> p, cap |-> c, action |-> "execute", resource |-> "arm", params |-> "p"]

MCRequests == 
    LET granted == Ask(Alice, Capability)
        refused == Ask(Alice, [Capability EXCEPT !.grantedTo = "bob"])
    IN  (a1 :> {granted}) @@ (a2 :> {refused}) @@ (a3 :> {refused})
MCCommands == {[physical |-> TRUE, magnitude |-> 20, level |-> 2],
               [physical |-> TRUE, magnitude |-> 50, level |-> 2]}
Symmetry == Permutations({a2, a3})
=============================================================================
