---------------------------- MODULE MCBlindSpots ----------------------------
EXTENDS BlindSpots, TLC
Symmetry == Permutations(Report) \cup Permutations(Place)
=============================================================================
