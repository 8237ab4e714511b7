------------------------- MODULE MC_CrossProcessLock -------------------------
(* Three processes contend for one lock file. *)
EXTENDS CrossProcessLock, TLC

CONSTANTS p1, p2, p3, a, b, c

MCPid == a :> p1 @@ b :> p2 @@ c :> p3
=============================================================================
