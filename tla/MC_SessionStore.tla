---------------------------- MODULE MC_SessionStore ----------------------------
EXTENDS SessionStore, TLC

SessionSymmetry == Permutations(Sessions)
=============================================================================
