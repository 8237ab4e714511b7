--------------------------- MODULE CrossProcessLock ---------------------------
(***************************************************************************)
(* withCrossProcessLock: one critical section shared by processes through  *)
(* a lock file.  A call creates the file exclusively, writes its pid and a *)
(* nonce into it, runs the operation and removes the file again.  A call   *)
(* that finds the file reads it, and removes it when its owner is dead.    *)
(* Every file-system call is an await, so each is a step of its own.       *)
(*                                                                         *)
(* A call is its nonce.  Timing is abstracted to one assumption: a live    *)
(* process writes its claim, and stats a file it could not parse, within   *)
(* FRESH_LOCK_MS, so only a dead creator's empty file is ever stale.       *)
(***************************************************************************)
CONSTANTS
    Processes,  \* pids
    Calls,      \* withCrossProcessLock calls on one lock file
    Pid,        \* the process of each call
    MayCrash    \* may a process die?

NoCall == "no call"

ASSUME LockAssumption ==
    /\ Pid \in [Calls -> Processes]
    /\ MayCrash \in BOOLEAN
    /\ NoCall \notin Calls

VARIABLES
    alive,      \* processes whose pid answers a signal
    lockFile,   \* the lock file's creator, content and age
    pc,         \* what each call awaits
    seen,       \* the lock file as the call last read it
    stolen      \* history: was a live owner's file ever removed by another?

lockVars == <<alive, lockFile, pc, seen, stolen>>

NoFile == [call |-> NoCall, written |-> FALSE, stale |-> FALSE]
Files == [call : Calls, written : BOOLEAN, stale : BOOLEAN] \cup {NoFile}

Places == {"create", "write", "operate", "read", "judge", "remove", "wait",
           "check", "unlink", "done", "failed", "dead"}

-----------------------------------------------------------------------------
Goes(c, place) == pc' = [pc EXCEPT ![c] = place]

\* Mutant: writeFile without the exclusive flag.
Create_overwrites(c) ==
    /\ pc[c] = "create"
    /\ lockFile' = [call |-> c, written |-> FALSE, stale |-> FALSE]
    /\ Goes(c, "write")
    /\ UNCHANGED <<alive, seen, stolen>>

\* writeFile with flag wx: the file is created, or it exists already.
Create(c) ==
    /\ pc[c] = "create"
    /\ \/ /\ lockFile = NoFile
          /\ lockFile' = [call |-> c, written |-> FALSE, stale |-> FALSE]
          /\ Goes(c, "write")
       \/ /\ lockFile # NoFile
          /\ UNCHANGED lockFile
          /\ Goes(c, "read")
    /\ UNCHANGED <<alive, seen, stolen>>

\* The claim reaches the file this call created, if that file is still linked.
WriteClaim(c) ==
    /\ pc[c] = "write"
    /\ lockFile' = IF lockFile.call = c THEN [lockFile EXCEPT !.written = TRUE]
                   ELSE lockFile
    /\ Goes(c, "operate")
    /\ UNCHANGED <<alive, seen, stolen>>

\* readClaim.
ReadClaim(c) ==
    /\ pc[c] = "read"
    /\ seen' = [seen EXCEPT ![c] = lockFile]
    /\ Goes(c, "judge")
    /\ UNCHANGED <<alive, lockFile, stolen>>

\* Mutant: a file without a claim is never abandoned.
Abandoned_onlyClaims(c) == seen[c].written /\ Pid[seen[c].call] \notin alive

\* Is the file this call read to be removed?  Its owner is dead, or it holds no
\* claim and is gone or no longer fresh.
Abandoned(c) ==
    \/ seen[c].written /\ Pid[seen[c].call] \notin alive
    \/ seen[c] # NoFile /\ ~seen[c].written /\ (lockFile = NoFile \/ lockFile.stale)

Judge(c) ==
    /\ pc[c] = "judge"
    /\ Goes(c, IF Abandoned(c) THEN "remove" ELSE "wait")
    /\ UNCHANGED <<alive, lockFile, seen, stolen>>

\* rm, whatever file has that name by now.
Remove(c) ==
    /\ pc[c] = "remove"
    /\ lockFile' = NoFile
    /\ stolen' = (stolen \/ (lockFile # NoFile /\ Pid[lockFile.call] \in alive))
    /\ Goes(c, "wait")
    /\ UNCHANGED <<alive, seen>>

Retry(c) ==
    /\ pc[c] = "wait"
    /\ Goes(c, "create")
    /\ UNCHANGED <<alive, lockFile, seen, stolen>>

\* The deadline has passed: LOCK_TIMEOUT.
GiveUp(c) ==
    /\ pc[c] = "wait"
    /\ Goes(c, "failed")
    /\ UNCHANGED <<alive, lockFile, seen, stolen>>

\* The operation returned or threw.
Finish(c) ==
    /\ pc[c] = "operate"
    /\ Goes(c, "check")
    /\ UNCHANGED <<alive, lockFile, seen, stolen>>

\* The lock is read again: only the owner's nonce may release it.
CheckNonce(c) ==
    /\ pc[c] = "check"
    /\ Goes(c, IF lockFile.call = c /\ lockFile.written THEN "unlink" ELSE "done")
    /\ UNCHANGED <<alive, lockFile, seen, stolen>>

Unlink(c) ==
    /\ pc[c] = "unlink"
    /\ lockFile' = NoFile
    /\ Goes(c, "done")
    /\ UNCHANGED <<alive, seen, stolen>>

\* A process dies: its calls stop where they are, its file stays.
Crash(p) ==
    /\ MayCrash
    /\ p \in alive
    /\ alive' = alive \ {p}
    /\ pc' = [c \in Calls |-> IF Pid[c] = p THEN "dead" ELSE pc[c]]
    /\ UNCHANGED <<lockFile, seen, stolen>>

\* A dead creator's file stays without a claim for FRESH_LOCK_MS.
Age ==
    /\ lockFile # NoFile
    /\ ~lockFile.written /\ ~lockFile.stale
    /\ Pid[lockFile.call] \notin alive
    /\ lockFile' = [lockFile EXCEPT !.stale = TRUE]
    /\ UNCHANGED <<alive, pc, seen, stolen>>

-----------------------------------------------------------------------------
LockInit ==
    /\ alive = Processes
    /\ lockFile = NoFile
    /\ pc = [c \in Calls |-> "create"]
    /\ seen = [c \in Calls |-> NoFile]
    /\ stolen = FALSE

Proceed(c) ==
    \/ Create(c)
    \/ WriteClaim(c)
    \/ ReadClaim(c)
    \/ Judge(c)
    \/ Remove(c)
    \/ Retry(c)
    \/ Finish(c)
    \/ CheckNonce(c)
    \/ Unlink(c)

LockNext ==
    \/ \E c \in Calls : Proceed(c) \/ GiveUp(c)
    \/ \E p \in Processes : Crash(p)
    \/ Age

LockSpec == LockInit /\ [][LockNext]_lockVars

\* Every await of a live process settles, the operation's too, and time passes;
\* nothing obliges a call to reach its deadline.
Fairness == WF_lockVars(Age) /\ \A c \in Calls : WF_lockVars(Proceed(c))

FairSpec == LockSpec /\ Fairness
-----------------------------------------------------------------------------
(* Properties. *)

LockTypeOK ==
    /\ alive \subseteq Processes
    /\ lockFile \in Files
    /\ pc \in [Calls -> Places]
    /\ seen \in [Calls -> Files]
    /\ stolen \in BOOLEAN

Operating == {c \in Calls : pc[c] = "operate"}

\* "Serialize one critical section across processes": no two operations of
\* live processes run at once.
MutualExclusion == \A c, d \in Operating : c = d

\* The calls that created the lock file and have not let go of it yet.
Holding == {"write", "operate", "check", "unlink"}

\* The inductive part of ExclusionUnlessStolen: the calls of a dead process
\* have stopped, and until a live owner's file is removed the lock file is that
\* of the one call that holds it.
Ownership ==
    /\ \A c \in Calls : Pid[c] \notin alive => pc[c] = "dead"
    /\ ~stolen => \A c \in Calls : pc[c] \in Holding => lockFile.call = c

\* "A dead owner pid may be stolen; a live owner never is": a call that removes
\* the file because it read a dead owner's claim takes no live owner's file.
StolenOwnerIsDead ==
    [][\A c \in Calls :
          pc[c] = "remove" /\ pc'[c] = "wait" /\ seen[c].written =>
             lockFile = NoFile \/ Pid[lockFile.call] \notin alive]_lockVars

\* Removing a file by name after having read it is the only hole: the operations
\* are serialized, through crashes and half-written claims, until some call
\* removes the file of a live owner.
ExclusionUnlessStolen == ~stolen => MutualExclusion

\* A call never waits for ever, even behind the file of a dead owner that
\* never wrote its claim: it runs its operation unless it times out or dies.
EveryCallEnds ==
    \A c \in Calls : pc[c] = "create" ~> pc[c] \in {"done", "failed", "dead"}
=============================================================================
