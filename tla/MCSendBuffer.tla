---------------------------- MODULE MCSendBuffer ----------------------------
EXTENDS SendBuffer, TLC

Symmetry == Permutations(Blocks)
=============================================================================
