---------------------------- MODULE MC_Supervisor ----------------------------
EXTENDS Supervisor, TLC
CONSTANTS old, new, s1, s2, s3
MCBuild == (s1 :> old) @@ (s2 :> new)
MCBuild3 == (s1 :> old) @@ (s2 :> new) @@ (s3 :> new)
Symmetry == Permutations(Daemons)
=============================================================================
