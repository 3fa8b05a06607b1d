-------------------------- MODULE MCLogicalExpire --------------------------
EXTENDS LogicalExpire, TLC

Symmetry == Permutations(Calls) \cup Permutations(Preheats) \cup Permutations(Edits)
=============================================================================
