------------------------------ MODULE MCTunnel ------------------------------
EXTENDS Tunnel, TLC
TunnelSymmetry ==
    Permutations(Handlers) \cup Permutations(Instances) \cup Permutations(Apps) \cup Permutations(Public)
=============================================================================
