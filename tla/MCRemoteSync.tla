---------------------------- MODULE MCRemoteSync ----------------------------
EXTENDS RemoteSync

MCBodies == {<<0>>, <<1>>, <<0, 0>>}

Symmetry == Permutations(Threads) \cup Permutations(Active)
=============================================================================
