---------------------------- MODULE MCConflicts -----------------------------
EXTENDS Conflicts, TLC
Symmetry == Permutations(Report) \cup Permutations(Answer) \cup Permutations(Value) \cup Permutations(Analysis)
=============================================================================
