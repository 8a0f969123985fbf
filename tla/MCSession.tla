----------------------------- MODULE MCSession -----------------------------
EXTENDS Session, TLC

Sym == Permutations(Conns)
=============================================================================
