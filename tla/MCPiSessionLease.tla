-------------------------- MODULE MCPiSessionLease --------------------------
(* Every acquisition runs in a process of its own. *)
EXTENDS PiSessionLease, TLC

CONSTANTS l1, l2, l3

MCLeases == {l1, l2, l3}
MCHostOf == [a \in MCLeases |-> a]
MCSymmetry == Permutations(MCLeases)

=============================================================================
