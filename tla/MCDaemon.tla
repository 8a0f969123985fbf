------------------------------ MODULE MCDaemon ------------------------------
EXTENDS Daemon, TLC

\* Handler threads are interchangeable in what is checked without fairness.
Symmetry == Permutations(Handlers)
=============================================================================
