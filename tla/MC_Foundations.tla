---------------------------- MODULE MC_Foundations ----------------------------
(* The two parts the others stand on, in one run: the lock file with three  *)
(* processes and a call each, and the replay log with two sessions, lines   *)
(* of size 1, 2 and 4 against a ceiling of 3 bytes and 2 events, so that    *)
(* both bounds evict and a line of size 4 is oversized.  Neither reads the  *)
(* state of the other, so no interleaving of their steps tells more than    *)
(* one after the other: the log starts in one of the states in which the    *)
(* calls on the lock are done.                                              *)
EXTENDS SessionReplay, MC_CrossProcessLock

const_LineSizes == {1, 2, 4}

\* Every call has had the lock and found nobody before it.
Uncontended ==
    /\ alive = Processes
    /\ \A k \in Calls : pc[k] = "done" /\ seen[k] = NoFile

FoundationsInit == LockInit /\ Init

FoundationsNext ==
    \/ sequence = 0 /\ LockNext /\ UNCHANGED vars
    \/ Uncontended /\ Next /\ UNCHANGED lockVars

FoundationsSpec ==
    /\ FoundationsInit
    /\ [][FoundationsNext]_<<lockVars, vars>>
    /\ Fairness
=============================================================================
