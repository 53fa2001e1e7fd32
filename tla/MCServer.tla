------------------------------ MODULE MCServer ------------------------------
EXTENDS Server, TLC

Symmetric == Permutations(Processes) \cup Permutations(Roots) \cup Permutations(Files)
=============================================================================
