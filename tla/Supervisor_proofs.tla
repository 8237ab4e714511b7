--------------------------- MODULE Supervisor_proofs ---------------------------
(***************************************************************************)
(* A profile has one daemon, a running daemon can be found, and a reported *)
(* stop left none: for any number of servers, daemons and faults.          *)
(*                                                                         *)
(* The invariant says what the disk and the lock tell of a daemon that     *)
(* lives.  Past its boot the sidecar names it; while it boots nothing      *)
(* does, but the server that spawned it is alive and holds the lock.  So a *)
(* server that holds the lock and finds the recorded daemon dead knows     *)
(* that none lives, and a server that means to stop one knows which.       *)
(***************************************************************************)
EXTENDS Supervisor, TLAPS

Types ==
    /\ alive \subseteq Servers
    /\ phase \in [Daemons -> Phases]
    /\ pc \in [Servers -> Places]
    /\ target \in [Servers -> Daemons \cup {NoDaemon}]
    /\ result \in [Servers -> {"none", "ready", "stopped", "failed"}]
    /\ claims \subseteq Claims
    /\ socket \in Daemons \cup {NoDaemon}
    /\ sidecar.daemon \in Daemons \cup {NoDaemon}

\* A call past the lock is one of a living server, which holds it.
Unlocked == {"idle", "lock", "dead"}
LockHeld ==
    \A s \in Servers : /\ pc[s] = "dead" \/ s \in alive
                       /\ pc[s] \notin Unlocked => lock = s

Recorded == {"running", "closing", "leaving"}

OneLives == \A d, e \in Daemons : Lives(d) /\ Lives(e) => d = e

\* A daemon that boots has nothing on disk but its socket; its starter waits for it.
BootingAwaited ==
    \A d \in Daemons :
        /\ phase[d] \in Booting =>
              /\ sidecar = NoState
              /\ \E s \in Servers : pc[s] = "poll" /\ target[s] = d
        /\ phase[d] = "listening" => socket = d

\* Later the sidecar names it, and its socket is there for as long as it runs.
LivingRecorded ==
    \A d \in Daemons :
        /\ phase[d] \in Recorded => sidecar.kind = "ready" /\ sidecar.daemon = d
        /\ phase[d] = "running" => socket = d

\* Who is about to spawn knows that none lives, and what is recorded.
NoneLivesAtSpawn ==
    \A s \in Servers :
        pc[s] \in {"inspect", "unlink", "spawn"} =>
            target[s] = sidecar.daemon /\ \A d \in Daemons : ~Lives(d)

\* Who is about to claim or to stop a daemon means the one that lives, if one does.
TargetIsTheOne ==
    \A s \in Servers :
        pc[s] \in {"claim", "claiming", "confirm", "shutdown", "signal", "await"} =>
            \A d \in Daemons : Lives(d) => target[s] = d

ClaimsOfLiving == \A c \in claims : phase[c.daemon] \in Recorded

Known ==
    /\ OneLives
    /\ BootingAwaited
    /\ LivingRecorded
    /\ NoneLivesAtSpawn
    /\ TargetIsTheOne
    /\ ClaimsOfLiving

IInv ==
    /\ Types
    /\ LockHeld
    /\ ~orphaned => Known

-----------------------------------------------------------------------------
(* Steps of a call. *)

\* What a step says of both histories it says of each.
USE DEF histories

Results == {"none", "ready", "stopped", "failed"}

\* Two calls are not past the lock at once.
LEMMA OneCall ==
    ASSUME IInv, NEW s \in Servers, NEW r \in Servers,
           pc[s] \notin Unlocked, pc[r] \notin Unlocked
    PROVE  s = r
BY DEF IInv, LockHeld

\* The call of s moves to p and is about d from now on.  Whoever is past the lock
\* has it; a starter does not turn away from a booting daemon; who comes to spawn or
\* to stop knows what that takes; a record goes only when no daemon lives.
LEMMA CallMoves ==
    ASSUME IInv, NEW s \in Servers, s \in alive,
           NEW p \in Places \ {"dead"}, NEW d \in Daemons \cup {NoDaemon},
           UNCHANGED <<alive, phase, socket, orphaned>>,
           pc' = [pc EXCEPT ![s] = p],
           target' = [target EXCEPT ![s] = d],
           result' \in [Servers -> Results],
           \/ pc[s] \notin Unlocked /\ (lock' = lock \/ p \in Unlocked)
           \/ p \in Unlocked /\ lock' = lock
           \/ lock \notin alive /\ lock' = s,
           claims' \subseteq Claims,
           \/ sidecar' = sidecar
           \/ /\ sidecar' = NoState
              /\ ~orphaned => pc[s] \notin Unlocked /\ \A e \in Daemons : ~Lives(e),
           ~orphaned =>
              /\ \A c \in claims' : phase[c.daemon] \in Recorded
              /\ pc[s] = "poll" => \A e \in Daemons : phase[e] \notin Booting
              /\ p \in {"inspect", "unlink", "spawn"} =>
                    d = sidecar'.daemon /\ \A e \in Daemons : ~Lives(e)
              /\ p \in {"claim", "claiming", "confirm", "shutdown", "signal", "await"} =>
                    \A e \in Daemons : Lives(e) => d = e
    PROVE  IInv'
<1>1. /\ pc' \in [Servers -> Places] /\ target' \in [Servers -> Daemons \cup {NoDaemon}]
      /\ pc'[s] = p /\ target'[s] = d
      /\ \A r \in Servers \ {s} : pc'[r] = pc[r] /\ target'[r] = target[r]
  BY DEF IInv, Types
<1>2. Types'
  BY <1>1 DEF IInv, Types, Results, NoState
<1>3. LockHeld'
  BY <1>1 DEF IInv, LockHeld, Unlocked
<1>4. ASSUME ~orphaned PROVE Known'
  <2>1. Known /\ \A e : Lives(e)' <=> Lives(e)
    BY <1>4 DEF IInv, Lives
  <2>2. \A r \in Servers : sidecar' # sidecar /\ r # s => pc[r] \in Unlocked
    BY <1>4, OneCall
  <2>3. OneLives' /\ ClaimsOfLiving'
    BY <1>4, <2>1 DEF Known, OneLives, ClaimsOfLiving
  <2>4. LivingRecorded'
    BY <1>4, <2>1 DEF Known, LivingRecorded, Lives, Living, Recorded
  <2>5. BootingAwaited'
    BY <1>1, <1>4, <2>1 DEF Known, BootingAwaited, Lives, Living
  <2>6. NoneLivesAtSpawn'
    BY <1>1, <1>4, <2>1, <2>2 DEF Known, NoneLivesAtSpawn, Unlocked
  <2>7. TargetIsTheOne'
    BY <1>1, <1>4, <2>1 DEF Known, TargetIsTheOne
  <2> QED BY <2>3, <2>4, <2>5, <2>6, <2>7 DEF Known
<1> QED BY <1>2, <1>3, <1>4 DEF IInv

\* A call that only goes on, its target and its lock as they are.
LEMMA StepMoves ==
    ASSUME IInv, NEW s \in Servers, pc[s] \notin Unlocked,
           NEW p \in Places \ Unlocked, Steps(s, p),
           UNCHANGED <<alive, phase, socket, orphaned>>,
           claims' \subseteq Claims,
           \/ sidecar' = sidecar
           \/ /\ sidecar' = NoState
              /\ ~orphaned => \A e \in Daemons : ~Lives(e),
           ~orphaned =>
              /\ \A c \in claims' : phase[c.daemon] \in Recorded
              /\ pc[s] # "poll"
              /\ p \in {"inspect", "unlink", "spawn"} =>
                    target[s] = sidecar'.daemon /\ \A e \in Daemons : ~Lives(e)
              /\ p \in {"claim", "claiming", "confirm", "shutdown", "signal", "await"} =>
                    \A e \in Daemons : Lives(e) => target[s] = e
    PROVE  IInv'
<1>1. s \in alive /\ p \in Places \ {"dead"} /\ target[s] \in Daemons \cup {NoDaemon}
  BY DEF IInv, Types, LockHeld, Unlocked
<1>2. /\ pc' = [pc EXCEPT ![s] = p] /\ target' = [target EXCEPT ![s] = target[s]]
      /\ result' \in [Servers -> Results] /\ lock' = lock
  BY DEF Steps, Goes, IInv, Types, Results
<1> QED BY <1>1, <1>2, CallMoves

\* A call ends.
LEMMA EndMoves ==
    ASSUME IInv, NEW s \in Servers, pc[s] \notin Unlocked,
           NEW how \in Results, Ends(s, how),
           UNCHANGED <<alive, phase, claims, socket, orphaned>>,
           \/ sidecar' = sidecar
           \/ /\ sidecar' = NoState
              /\ ~orphaned => \A e \in Daemons : ~Lives(e),
           ~orphaned /\ pc[s] = "poll" => \A e \in Daemons : phase[e] \notin Booting
    PROVE  IInv'
<1>1. s \in alive /\ "idle" \in Places \ {"dead"} /\ NoDaemon \in Daemons \cup {NoDaemon}
  BY DEF IInv, LockHeld, Unlocked, Places
<1>2. /\ pc' = [pc EXCEPT ![s] = "idle"] /\ target' = [target EXCEPT ![s] = NoDaemon]
      /\ result' \in [Servers -> Results]
  BY DEF Ends, IInv, Types, Results
<1>3. claims' \subseteq Claims /\ (~orphaned => \A c \in claims' : phase[c.daemon] \in Recorded)
  BY DEF IInv, Types, Known, ClaimsOfLiving
<1>4. "idle" \in Unlocked
  BY DEF Unlocked
<1> QED BY <1>1, <1>2, <1>3, <1>4, CallMoves

\* What a call that holds the lock knows of the living.
LEMMA AtTheLock ==
    ASSUME IInv, ~orphaned, NEW s \in Servers, pc[s] \notin Unlocked,
           NEW e \in Daemons, Lives(e)
    PROVE  /\ pc[s] # "poll" => phase[e] \in Recorded /\ sidecar.kind = "ready" /\ sidecar.daemon = e
           /\ pc[s] = "poll" /\ phase[e] \in Booting => target[s] = e /\ sidecar = NoState
<1>1. phase[e] \in Booting \/ phase[e] \in Recorded
  BY DEF Lives, Living, Recorded
<1>2. \A r \in Servers : pc[r] = "poll" => r = s
  BY OneCall DEF Unlocked
<1> QED BY <1>1, <1>2 DEF IInv, Known, BootingAwaited, LivingRecorded

LEMMA ClaimsAsTheyAre ==
    ASSUME IInv
    PROVE  claims \subseteq Claims /\ (~orphaned => \A c \in claims : phase[c.daemon] \in Recorded)
BY DEF IInv, Types, Known, ClaimsOfLiving

LEMMA CallKeeps ==
    ASSUME IInv, NEW s \in Servers, CallStart(s) \/ CallStop(s)
    PROVE  IInv'
<1>1. /\ s \in alive /\ pc[s] = "idle" /\ pc' = [pc EXCEPT ![s] = "lock"]
      /\ UNCHANGED <<alive, phase, claims, socket, sidecar, orphaned, lock, target, result>>
  BY DEF CallStart, CallStop, Goes, OnlyCalls, processes, files
<1>2. /\ "lock" \in Places \ {"dead"} /\ "lock" \in Unlocked
      /\ target[s] \in Daemons \cup {NoDaemon} /\ target' = [target EXCEPT ![s] = target[s]]
      /\ result' \in [Servers -> Results]
  BY <1>1 DEF Places, Unlocked, IInv, Types, Results
<1> QED BY <1>1, <1>2, ClaimsAsTheyAre, CallMoves

LEMMA EnterLockKeeps ==
    ASSUME IInv, NEW s \in Servers, EnterLock(s)
    PROVE  IInv'
<1>1. /\ s \in alive /\ pc[s] = "lock" /\ target[s] \in Daemons \cup {NoDaemon}
      /\ {"idle", "probe"} \subseteq Places \ {"dead"} /\ "idle" \in Unlocked
  BY DEF EnterLock, IInv, Types, LockHeld, Places, Unlocked
<1>2. /\ UNCHANGED <<alive, phase, claims, socket, sidecar, orphaned>>
      /\ target' = [target EXCEPT ![s] = target[s]]
      /\ result' \in [Servers -> Results]
  BY DEF EnterLock, OnlyCalls, processes, files, IInv, Types, Results
<1>3. CASE lock \notin alive /\ lock' = s /\ Goes(s, "probe")
  BY <1>1, <1>2, <1>3, ClaimsAsTheyAre, CallMoves DEF Goes
<1>4. CASE Goes(s, "idle") /\ UNCHANGED lock
  BY <1>1, <1>2, <1>4, ClaimsAsTheyAre, CallMoves DEF Goes
<1> QED BY <1>3, <1>4 DEF EnterLock

LEMMA ProbeToStartKeeps ==
    ASSUME IInv, NEW s \in Servers, ProbeToStart(s)
    PROVE  IInv'
<1>1. /\ pc[s] = "probe" /\ pc[s] \notin Unlocked /\ s \in alive
      /\ UNCHANGED <<alive, phase, claims, socket, sidecar, orphaned>>
  BY DEF ProbeToStart, OnlyCalls, processes, files, Unlocked, IInv, LockHeld
<1>2. CASE StepsTo(s, "claim", sidecar.daemon)
  <2>1. /\ "claim" \in Places \ {"dead"} /\ sidecar.daemon \in Daemons \cup {NoDaemon}
        /\ result' \in [Servers -> Results]
        /\ pc' = [pc EXCEPT ![s] = "claim"] /\ lock' = lock
        /\ target' = [target EXCEPT ![s] = sidecar.daemon]
    BY <1>2 DEF StepsTo, Goes, Places, IInv, Types, Results
  <2>2. ~orphaned => \A e \in Daemons : Lives(e) => sidecar.daemon = e
    BY <1>1, AtTheLock
  <2> QED BY <1>1, <2>1, <2>2, ClaimsAsTheyAre, CallMoves
<1>3. CASE Steps(s, "judge")
  <2>1. "judge" \in Places \ Unlocked
    BY DEF Places, Unlocked
  <2> QED BY <1>1, <1>3, <2>1, ClaimsAsTheyAre, StepMoves
<1> QED BY <1>2, <1>3 DEF ProbeToStart

LEMMA ConfirmKeeps ==
    ASSUME IInv, NEW s \in Servers, Confirm(s)
    PROVE  IInv'
<1>1. /\ pc[s] = "confirm" /\ pc[s] \notin Unlocked
      /\ UNCHANGED <<alive, phase, claims, socket, sidecar, orphaned>>
      /\ "judge" \in Places \ Unlocked /\ "ready" \in Results
  BY DEF Confirm, OnlyCalls, processes, files, Unlocked, Places, Results
<1>2. CASE Ends(s, "ready")
  BY <1>1, <1>2, EndMoves
<1>3. CASE Steps(s, "judge")
  BY <1>1, <1>3, ClaimsAsTheyAre, StepMoves
<1> QED BY <1>2, <1>3 DEF Confirm

LEMMA ClaimKeeps ==
    ASSUME IInv, NEW s \in Servers, Claim(s)
    PROVE  IInv'
<1>1. /\ pc[s] = "claim" /\ pc[s] \notin Unlocked
      /\ UNCHANGED <<alive, phase, socket, sidecar, orphaned>>
      /\ {"judge", "claiming"} \subseteq Places \ Unlocked /\ "failed" \in Results
  BY DEF Claim, files, Unlocked, Places, Results
<1>2. CASE Steps(s, "judge") /\ UNCHANGED claims
  BY <1>1, <1>2, ClaimsAsTheyAre, StepMoves
<1>3. CASE Ends(s, "failed") /\ UNCHANGED claims
  BY <1>1, <1>3, EndMoves
<1>4. CASE Listens(socket) /\ Accept(s, socket)
  <2>1. Lives(socket) /\ socket \in Daemons
    BY <1>4 DEF Listens, Lives, Serving, Living, Booting
  <2>2. claims' \subseteq Claims
    <3>1. [daemon |-> socket, server |-> s, written |-> FALSE] \in Claims
      BY <2>1 DEF Claims
    <3> QED BY <1>4, <3>1, ClaimsAsTheyAre DEF Accept
  <2>3. ~orphaned => phase[socket] \in Recorded
    BY <1>1, <2>1, AtTheLock
  <2>4. ~orphaned => \A c \in claims' : phase[c.daemon] \in Recorded
    BY <1>4, <2>3, ClaimsAsTheyAre DEF Accept
  <2>5. ~orphaned => \A e \in Daemons : Lives(e) => target[s] = e
    BY <1>1 DEF IInv, Known, TargetIsTheOne
  <2>6. Steps(s, "claiming")
    BY <1>4 DEF Accept
  <2> QED BY <1>1, <2>2, <2>4, <2>5, <2>6, StepMoves
<1> QED BY <1>2, <1>3, <1>4 DEF Claim

LEMMA LoseClaimKeeps ==
    ASSUME IInv, NEW s \in Servers, LoseClaim(s)
    PROVE  IInv'
<1>1. /\ pc[s] = "claiming" /\ pc[s] \notin Unlocked /\ Steps(s, "judge")
      /\ UNCHANGED <<alive, phase, claims, socket, sidecar, orphaned>>
      /\ "judge" \in Places \ Unlocked
  BY DEF LoseClaim, processes, files, Unlocked, Places
<1> QED BY <1>1, ClaimsAsTheyAre, StepMoves

LEMMA ProbeToStopKeeps ==
    ASSUME IInv, NEW s \in Servers, ProbeToStop(s)
    PROVE  IInv'
<1>1. /\ pc[s] = "probe" /\ pc[s] \notin Unlocked /\ s \in alive
      /\ UNCHANGED <<alive, phase, claims, socket, orphaned>>
      /\ {"failed", "stopped"} \subseteq Results
  BY DEF ProbeToStop, processes, Unlocked, Results, IInv, LockHeld
<1>2. CASE /\ sidecar.kind # "ready"
           /\ IF Lives(sidecar.daemon) THEN UNCHANGED sidecar ELSE Forget(sidecar.daemon)
           /\ Ends(s, "stopped")
  <2>1. ~orphaned => \A e \in Daemons : ~Lives(e)
    BY <1>1, <1>2, AtTheLock
  <2>2. sidecar' = sidecar \/ sidecar' = NoState
    BY <1>2 DEF Forget
  <2> QED BY <1>1, <1>2, <2>1, <2>2, EndMoves
<1>3. CASE UNCHANGED sidecar /\ Ends(s, "failed")
  BY <1>1, <1>3, EndMoves
<1>4. CASE UNCHANGED sidecar /\ StepsTo(s, "shutdown", sidecar.daemon)
  <2>1. /\ "shutdown" \in Places \ {"dead"} /\ sidecar.daemon \in Daemons \cup {NoDaemon}
        /\ result' \in [Servers -> Results]
        /\ pc' = [pc EXCEPT ![s] = "shutdown"] /\ lock' = lock
        /\ target' = [target EXCEPT ![s] = sidecar.daemon]
    BY <1>4 DEF StepsTo, Goes, Places, IInv, Types, Results
  <2>2. ~orphaned => \A e \in Daemons : Lives(e) => sidecar.daemon = e
    BY <1>1, AtTheLock
  <2> QED BY <1>1, <1>4, <2>1, <2>2, ClaimsAsTheyAre, CallMoves
<1> QED BY <1>2, <1>3, <1>4 DEF ProbeToStop

LEMMA RequestShutdownKeeps ==
    ASSUME IInv, NEW s \in Servers, RequestShutdown(s)
    PROVE  IInv'
<1>1. /\ pc[s] = "shutdown" /\ pc[s] \notin Unlocked
      /\ UNCHANGED <<alive, phase, claims, socket, sidecar, orphaned>>
      /\ "signal" \in Places \ Unlocked /\ "failed" \in Results
  BY DEF RequestShutdown, files, Unlocked, Places, Results
<1>2. CASE Ends(s, "failed")
  BY <1>1, <1>2, EndMoves
<1>3. CASE Steps(s, "signal")
  <2>1. ~orphaned => \A e \in Daemons : Lives(e) => target[s] = e
    BY <1>1 DEF IInv, Known, TargetIsTheOne
  <2> QED BY <1>1, <1>3, <2>1, ClaimsAsTheyAre, StepMoves
<1> QED BY <1>2, <1>3 DEF RequestShutdown

LEMMA JudgeKeeps ==
    ASSUME IInv, NEW s \in Servers, Judge(s)
    PROVE  IInv'
<1>1. /\ pc[s] = "judge" /\ pc[s] \notin Unlocked /\ s \in alive
      /\ UNCHANGED <<alive, phase, claims, socket, sidecar, orphaned>>
      /\ "failed" \in Results
  BY DEF Judge, OnlyCalls, processes, files, Unlocked, Results, IInv, LockHeld
<1>2. CASE Ends(s, "failed")
  BY <1>1, <1>2, EndMoves
<1>3. CASE ~Lives(sidecar.daemon) /\ StepsTo(s, "inspect", sidecar.daemon)
  <2>1. /\ "inspect" \in Places \ {"dead"} /\ sidecar.daemon \in Daemons \cup {NoDaemon}
        /\ result' \in [Servers -> Results]
        /\ pc' = [pc EXCEPT ![s] = "inspect"] /\ lock' = lock
        /\ target' = [target EXCEPT ![s] = sidecar.daemon]
    BY <1>3 DEF StepsTo, Goes, Places, IInv, Types, Results
  <2>2. ~orphaned => \A e \in Daemons : ~Lives(e)
    BY <1>1, <1>3, AtTheLock
  <2> QED BY <1>1, <2>1, <2>2, ClaimsAsTheyAre, CallMoves
<1> QED BY <1>2, <1>3 DEF Judge

LEMMA InspectKeeps ==
    ASSUME IInv, NEW s \in Servers, Inspect(s)
    PROVE  IInv'
<1>1. /\ pc[s] = "inspect" /\ pc[s] \notin Unlocked
      /\ UNCHANGED <<alive, phase, claims, socket, sidecar, orphaned>>
      /\ {"spawn", "unlink"} \subseteq Places \ Unlocked /\ "failed" \in Results
  BY DEF Inspect, OnlyCalls, processes, files, Unlocked, Places, Results
<1>2. ~orphaned => target[s] = sidecar.daemon /\ \A e \in Daemons : ~Lives(e)
  BY <1>1 DEF IInv, Known, NoneLivesAtSpawn
<1>3. CASE Ends(s, "failed")
  BY <1>1, <1>3, EndMoves
<1>4. CASE Steps(s, "spawn")
  BY <1>1, <1>2, <1>4, ClaimsAsTheyAre, StepMoves
<1>5. CASE Steps(s, "unlink")
  BY <1>1, <1>2, <1>5, ClaimsAsTheyAre, StepMoves
<1> QED BY <1>3, <1>4, <1>5 DEF Inspect

LEMMA PollKeeps ==
    ASSUME IInv, NEW s \in Servers, Poll(s)
    PROVE  IInv'
<1>1. /\ pc[s] = "poll" /\ pc[s] \notin Unlocked
      /\ UNCHANGED <<alive, phase, claims, socket, sidecar, orphaned>>
      /\ {"ready", "failed"} \subseteq Results
      /\ sidecar.kind \in {"ready", "failed"}
  BY DEF Poll, ProbeOk, OnlyCalls, processes, files, Unlocked, Results
<1>2. ~orphaned => \A e \in Daemons : phase[e] \notin Booting
  BY <1>1 DEF IInv, Known, BootingAwaited, NoState
<1> QED BY <1>1, <1>2, EndMoves DEF Poll

-----------------------------------------------------------------------------
(* Steps of a call that touch a daemon or its files. *)

\* AfterStop: the target is dead, and it was the only one that could live.
LEMMA AfterStopMoves ==
    ASSUME IInv, NEW s \in Servers, pc[s] \in {"signal", "await"}, ~Lives(target[s]),
           AfterStop(s), UNCHANGED <<alive, phase, claims, socket, orphaned>>
    PROVE  IInv'
<1>1. pc[s] \notin Unlocked /\ "judge" \in Places \ Unlocked /\ "stopped" \in Results
  BY DEF Unlocked, Places, Results
<1>2. ~orphaned => \A e \in Daemons : ~Lives(e)
  BY DEF IInv, Known, TargetIsTheOne
<1>3. sidecar' = sidecar \/ sidecar' = NoState
  BY DEF AfterStop, Forget
<1>4. CASE Steps(s, "judge")
  BY <1>1, <1>2, <1>3, <1>4, ClaimsAsTheyAre, StepMoves
<1>5. CASE Ends(s, "stopped")
  BY <1>1, <1>2, <1>3, <1>5, EndMoves
<1> QED BY <1>4, <1>5 DEF AfterStop

LEMMA AwaitExitKeeps ==
    ASSUME IInv, NEW s \in Servers, AwaitExit(s)
    PROVE  IInv'
<1>1. /\ pc[s] = "await" /\ pc[s] \notin Unlocked
      /\ UNCHANGED <<alive, phase, claims, socket, orphaned>> /\ "failed" \in Results
  BY DEF AwaitExit, processes, Unlocked, Results
<1>2. CASE Ends(s, "failed") /\ UNCHANGED sidecar
  BY <1>1, <1>2, EndMoves
<1>3. CASE ~Lives(target[s]) /\ AfterStop(s)
  BY <1>1, <1>3, AfterStopMoves
<1> QED BY <1>2, <1>3 DEF AwaitExit

\* What a signal does to a daemon that lives.
LEMMA Terminated ==
    ASSUME IInv, NEW d \in Daemons, Lives(d), Terminate(d)
    PROVE  \E q \in {"closing", "gone", "cut"} :
              /\ phase' = [phase EXCEPT ![d] = q]
              /\ q = "closing" => phase[d] = "running"
              /\ claims' \subseteq claims
              /\ q # "closing" => \A c \in claims' : c.daemon # d
              /\ socket' \in {socket, NoDaemon}
<1>1. CASE phase[d] = "running"
  BY <1>1 DEF Terminate, Becomes
<1>2. CASE phase[d] # "running"
  BY <1>2 DEF Terminate, Dies, Becomes
<1> QED BY <1>1, <1>2

\* A call signals its target, and goes on or ends.
LEMMA SignalMoves ==
    ASSUME IInv, NEW s \in Servers, pc[s] \in {"signal", "poll"}, Lives(target[s]),
           Terminate(target[s]),
           \/ Steps(s, "await") /\ pc[s] = "signal"
           \/ Ends(s, "failed"),
           UNCHANGED <<alive, sidecar, orphaned>>
    PROVE  IInv'
<1> DEFINE d == target[s]
<1>1. d \in Daemons /\ d # NoDaemon
  BY SupervisorAssumption DEF Lives
<1>2. PICK q \in {"closing", "gone", "cut"} :
         /\ phase' = [phase EXCEPT ![d] = q]
         /\ q = "closing" => phase[d] = "running"
         /\ claims' \subseteq claims
         /\ q # "closing" => \A c \in claims' : c.daemon # d
         /\ socket' \in {socket, NoDaemon}
  BY <1>1, Terminated
<1>3. /\ phase' \in [Daemons -> Phases] /\ phase'[d] = q
      /\ \A e \in Daemons \ {d} : phase'[e] = phase[e]
  BY <1>1, <1>2 DEF IInv, Types, Phases, Living
<1>4. /\ pc' \in [Servers -> Places] /\ target' \in [Servers -> Daemons \cup {NoDaemon}]
      /\ result' \in [Servers -> Results]
      /\ pc'[s] \in {"await", "idle"} /\ (pc'[s] = "await" => target'[s] = d /\ lock' = lock)
      /\ \A r \in Servers \ {s} : pc'[r] = pc[r] /\ target'[r] = target[r]
  BY DEF Steps, Ends, Goes, IInv, Types, Places, Results
<1>5. Types'
  BY <1>2, <1>3, <1>4 DEF IInv, Types, Results
<1>6. pc[s] \notin Unlocked
  BY DEF Unlocked
<1>7. LockHeld'
  BY <1>4, <1>6 DEF IInv, LockHeld, Unlocked
<1>8. ASSUME ~orphaned PROVE Known'
  <2>1. /\ Known
        /\ \A e \in Daemons : Lives(e) => e = d
        /\ \A e \in Daemons : Lives(e)' => e = d /\ phase[d] = "running" /\ q = "closing"
    <3>1. Known /\ \A e \in Daemons : Lives(e) => e = d
      BY <1>1, <1>8 DEF IInv, Known, OneLives
    <3>2. \A e \in Daemons \ {d} : ~Lives(e)'
      BY <1>3, <3>1 DEF Lives
    <3>3. phase'[d] \in Living => q = "closing"
      BY <1>3 DEF Living, Booting
    <3> QED BY <1>2, <3>1, <3>2, <3>3 DEF Lives
  <2>2. \A r \in Servers : pc'[r] \notin Unlocked => r = s
    BY <1>4, <1>6, OneCall
  <2>3. OneLives'
    BY <2>1 DEF OneLives
  <2>4. ClaimsOfLiving'
    BY <1>2, <1>3, <2>1 DEF Known, ClaimsOfLiving, Recorded, Claims, IInv, Types
  <2>5. LivingRecorded'
    BY <1>3, <2>1 DEF Known, LivingRecorded, Recorded, Lives, Living
  <2>6. BootingAwaited'
    BY <1>3, <2>1 DEF BootingAwaited, Booting, Lives, Living
  <2>7. NoneLivesAtSpawn'
    BY <1>4, <2>2 DEF NoneLivesAtSpawn, Unlocked
  <2>8. TargetIsTheOne'
    BY <1>4, <2>1, <2>2 DEF TargetIsTheOne, Unlocked
  <2> QED BY <2>3, <2>4, <2>5, <2>6, <2>7, <2>8 DEF Known
<1> QED BY <1>5, <1>7, <1>8 DEF IInv

LEMMA SignalKeeps ==
    ASSUME IInv, NEW s \in Servers, Signal(s)
    PROVE  IInv'
<1>1. pc[s] = "signal" /\ UNCHANGED <<alive, orphaned>>
  BY DEF Signal
<1>2. CASE Lives(target[s])
  BY <1>1, <1>2, SignalMoves DEF Signal
<1>3. CASE ~Lives(target[s])
  BY <1>1, <1>3, AfterStopMoves DEF Signal
<1> QED BY <1>2, <1>3

LEMMA GiveUpKeeps ==
    ASSUME IInv, NEW s \in Servers, GiveUp(s)
    PROVE  IInv'
<1>1. /\ pc[s] = "poll" /\ pc[s] \notin Unlocked /\ Ends(s, "failed")
      /\ UNCHANGED <<alive, sidecar, orphaned>> /\ "failed" \in Results
  BY DEF GiveUp, Unlocked, Results
<1>2. CASE Lives(target[s])
  BY <1>1, <1>2, SignalMoves DEF GiveUp
<1>3. CASE ~Lives(target[s])
  <2>1. UNCHANGED <<phase, claims, socket>>
    BY <1>3 DEF GiveUp
  <2>2. ASSUME ~orphaned, NEW e \in Daemons, phase[e] \in Booting PROVE FALSE
    <3>1. Lives(e)
      BY <2>2 DEF Lives, Living
    <3> QED BY <1>1, <1>3, <2>2, <3>1, AtTheLock
  <2> QED BY <1>1, <2>1, <2>2, EndMoves
<1> QED BY <1>2, <1>3

LEMMA UnlinkKeeps ==
    ASSUME IInv, NEW s \in Servers, Unlink(s)
    PROVE  IInv'
<1>1. /\ pc[s] = "unlink" /\ pc[s] \notin Unlocked /\ s \in alive
      /\ UNCHANGED <<alive, phase, claims, sidecar, orphaned>> /\ socket' = NoDaemon
      /\ Ends(s, "failed") \/ Steps(s, "spawn")
  BY DEF Unlink, processes, Unlocked, IInv, LockHeld
<1>2. /\ pc' \in [Servers -> Places] /\ target' \in [Servers -> Daemons \cup {NoDaemon}]
      /\ result' \in [Servers -> Results]
      /\ pc'[s] \in {"spawn", "idle"}
      /\ pc'[s] = "spawn" => target'[s] = target[s] /\ lock' = lock
      /\ \A r \in Servers \ {s} : pc'[r] = pc[r] /\ target'[r] = target[r]
  BY <1>1 DEF Steps, Ends, Goes, IInv, Types, Places, Results
<1>3. Types'
  BY <1>1, <1>2 DEF IInv, Types, Results
<1>4. LockHeld'
  BY <1>1, <1>2 DEF IInv, LockHeld, Unlocked
<1>5. ASSUME ~orphaned PROVE Known'
  <2>1. target[s] = sidecar.daemon /\ \A e \in Daemons : ~Lives(e) /\ ~Lives(e)'
    BY <1>1, <1>5 DEF IInv, Known, NoneLivesAtSpawn, Lives
  <2>2. OneLives' /\ ClaimsOfLiving'
    BY <1>1, <1>5, <2>1 DEF IInv, Known, OneLives, ClaimsOfLiving
  <2>3. LivingRecorded' /\ BootingAwaited'
    BY <1>1, <2>1 DEF LivingRecorded, BootingAwaited, Recorded, Lives, Living, Booting
  <2>4. NoneLivesAtSpawn' /\ TargetIsTheOne'
    BY <1>1, <1>2, <1>5, <2>1 DEF IInv, Known, NoneLivesAtSpawn, TargetIsTheOne
  <2> QED BY <2>2, <2>3, <2>4 DEF Known
<1> QED BY <1>1, <1>3, <1>4, <1>5 DEF IInv

\* Nobody lives when a daemon is spawned, and its record is gone.
LEMMA SpawnKeeps ==
    ASSUME IInv, NEW s \in Servers, Spawn(s)
    PROVE  IInv'
<1>1. /\ pc[s] = "spawn" /\ pc[s] \notin Unlocked
      /\ UNCHANGED <<alive, claims, socket, orphaned>>
      /\ Forget(target[s]) /\ "failed" \in Results
  BY DEF Spawn, Unlocked, Results
<1>2. ~orphaned => target[s] = sidecar.daemon /\ \A e \in Daemons : ~Lives(e)
  BY <1>1 DEF IInv, Known, NoneLivesAtSpawn
<1>3. sidecar' \in {sidecar, NoState} /\ (~orphaned => sidecar' = NoState)
  BY <1>1, <1>2 DEF Forget
<1>4. CASE Ends(s, "failed") /\ UNCHANGED phase
  BY <1>1, <1>2, <1>3, <1>4, EndMoves
<1>5. ASSUME NEW d \in Daemons, Becomes(d, "validating"), StepsTo(s, "poll", d)
      PROVE  IInv'
  <2>1. /\ phase' \in [Daemons -> Phases] /\ phase'[d] = "validating"
        /\ \A e \in Daemons \ {d} : phase'[e] = phase[e]
    BY <1>5 DEF Becomes, IInv, Types, Phases, Living, Booting
  <2>2. /\ pc' \in [Servers -> Places] /\ target' \in [Servers -> Daemons \cup {NoDaemon}]
        /\ pc'[s] = "poll" /\ target'[s] = d /\ lock' = lock /\ result' = result
        /\ \A r \in Servers \ {s} : pc'[r] = pc[r] /\ target'[r] = target[r]
    BY <1>5 DEF StepsTo, Goes, IInv, Types, Places
  <2>3. Types'
    BY <1>1, <1>3, <2>1, <2>2 DEF IInv, Types, NoState
  <2>4. LockHeld'
    BY <1>1, <2>2 DEF IInv, LockHeld, Unlocked
  <2>5. ASSUME ~orphaned PROVE Known'
    <3>1. /\ Known /\ sidecar' = NoState
          /\ \A e \in Daemons : Lives(e)' => e = d
      BY <1>2, <1>3, <2>1, <2>5 DEF IInv, Lives
    <3>2. \A r \in Servers : pc'[r] \notin Unlocked => r = s
      BY <1>1, <2>2, OneCall
    <3>3. OneLives'
      BY <3>1 DEF OneLives
    <3>4. claims' = {}
      <4>1. claims = {}
        BY <1>2, <2>5, <3>1 DEF IInv, Types, Claims, Known, ClaimsOfLiving, Lives, Living, Recorded
      <4> QED BY <1>1, <4>1
    <3>5. ClaimsOfLiving'
      BY <3>4 DEF ClaimsOfLiving
    <3>6. LivingRecorded'
      BY <2>1, <3>1 DEF LivingRecorded, Recorded, Lives, Living
    <3>7. BootingAwaited'
      BY <2>1, <2>2, <3>1 DEF BootingAwaited, Booting, Lives, Living
    <3>8. NoneLivesAtSpawn' /\ TargetIsTheOne'
      BY <2>2, <3>2 DEF NoneLivesAtSpawn, TargetIsTheOne, Unlocked
    <3> QED BY <3>3, <3>5, <3>6, <3>7, <3>8 DEF Known
  <2> QED BY <1>1, <2>3, <2>4, <2>5 DEF IInv
<1> QED BY <1>4, <1>5 DEF Spawn

\* A server that dies while its daemon boots is the orphaning.
LEMMA ExitKeeps ==
    ASSUME IInv, NEW s \in Servers, Exit(s)
    PROVE  IInv'
<1>1. /\ alive' = alive \ {s} /\ pc' = [pc EXCEPT ![s] = "dead"]
      /\ orphaned' = (orphaned \/ (pc[s] = "poll" /\ phase[target[s]] \in Booting))
      /\ UNCHANGED <<phase, claims, socket, sidecar, lock, target, result>>
  BY DEF Exit, Goes, processes, files
<1>2. /\ pc' \in [Servers -> Places] /\ pc'[s] = "dead"
      /\ \A r \in Servers \ {s} : pc'[r] = pc[r]
  BY <1>1 DEF IInv, Types, Places
<1>3. Types' /\ LockHeld'
  BY <1>1, <1>2 DEF IInv, Types, LockHeld, Unlocked
<1>4. ASSUME ~orphaned' PROVE Known'
  <2>1. Known /\ ~(pc[s] = "poll" /\ phase[target[s]] \in Booting)
    BY <1>1, <1>4 DEF IInv
  <2>2. \A e : Lives(e)' <=> Lives(e)
    BY <1>1 DEF Lives
  <2>3. OneLives' /\ ClaimsOfLiving' /\ LivingRecorded'
    BY <1>1, <2>1, <2>2 DEF Known, OneLives, ClaimsOfLiving, LivingRecorded
  <2>4. BootingAwaited'
    BY <1>1, <1>2, <2>1 DEF Known, BootingAwaited
  <2>5. NoneLivesAtSpawn' /\ TargetIsTheOne'
    BY <1>1, <1>2, <2>1, <2>2 DEF Known, NoneLivesAtSpawn, TargetIsTheOne
  <2> QED BY <2>3, <2>4, <2>5 DEF Known
<1> QED BY <1>3, <1>4 DEF IInv

-----------------------------------------------------------------------------
(* Steps of a daemon. *)

\* Daemon d, which lives, moves to phase p.  While it boots nothing is recorded;
\* past that it is; and its claims go with it.
LEMMA DaemonMoves ==
    ASSUME IInv, NEW d \in Daemons, Lives(d), NEW p \in Phases,
           phase' = [phase EXCEPT ![d] = p],
           UNCHANGED <<alive, pc, target, result, lock, orphaned>>,
           claims' \subseteq Claims,
           \A c \in claims' : /\ \E b \in claims : b.daemon = c.daemon
                              /\ p \notin Recorded => c.daemon # d,
           socket' \in Daemons \cup {NoDaemon},
           sidecar'.daemon \in Daemons \cup {NoDaemon},
           ~orphaned =>
              /\ p \in Booting => phase[d] \in Booting /\ UNCHANGED sidecar
              /\ p \in Recorded => sidecar'.kind = "ready" /\ sidecar'.daemon = d
              /\ p \in {"listening", "running"} => socket' = d
    PROVE  IInv'
<1>1. /\ phase' \in [Daemons -> Phases] /\ phase'[d] = p
      /\ \A e \in Daemons \ {d} : phase'[e] = phase[e]
  BY DEF IInv, Types
<1>2. Types' /\ LockHeld'
  BY <1>1 DEF IInv, Types, LockHeld
<1>3. ASSUME ~orphaned PROVE Known'
  <2>1. /\ Known
        /\ \A e \in Daemons : Lives(e) => e = d
        /\ \A e \in Daemons : Lives(e)' => e = d
    BY <1>1, <1>3 DEF IInv, Known, OneLives, Lives
  <2>2. OneLives'
    BY <2>1 DEF OneLives
  <2>3. ClaimsOfLiving'
    BY <1>1, <2>1 DEF Known, ClaimsOfLiving, Claims
  <2>4. LivingRecorded'
    BY <1>1, <1>3, <2>1 DEF LivingRecorded, Lives, Living, Recorded
  <2>5. BootingAwaited'
    BY <1>1, <1>3, <2>1 DEF Known, BootingAwaited, Booting, Lives, Living
  <2>6. NoneLivesAtSpawn' /\ TargetIsTheOne'
    BY <2>1 DEF Known, NoneLivesAtSpawn, TargetIsTheOne
  <2> QED BY <2>2, <2>3, <2>4, <2>5, <2>6 DEF Known
<1> QED BY <1>2, <1>3 DEF IInv

\* A daemon that ends takes its claims along.
LEMMA DeathMoves ==
    ASSUME IInv, NEW d \in Daemons, Lives(d), NEW how \in {"gone", "cut"}, Dies(d, how),
           UNCHANGED <<alive, pc, target, result, lock, orphaned>>,
           socket' \in Daemons \cup {NoDaemon},
           sidecar'.daemon \in Daemons \cup {NoDaemon}
    PROVE  IInv'
<1>1. /\ how \in Phases \ (Booting \cup Recorded \cup {"listening", "running"})
      /\ phase' = [phase EXCEPT ![d] = how]
  BY DEF Dies, Becomes, Phases, Living, Booting, Recorded
<1>2. claims' \subseteq claims /\ \A c \in claims' : c.daemon # d
  BY DEF Dies
<1> QED BY <1>1, <1>2, ClaimsAsTheyAre, DaemonMoves

\* A signal to a daemon that lives, from outside or from its own hook.
LEMMA TerminateMoves ==
    ASSUME IInv, NEW d \in Daemons, Lives(d),
           \E q \in {"closing", "gone", "cut"} :
              /\ phase' = [phase EXCEPT ![d] = q]
              /\ q = "closing" => phase[d] = "running"
              /\ claims' \subseteq claims
              /\ q # "closing" => \A c \in claims' : c.daemon # d,
           UNCHANGED <<alive, pc, target, result, lock, orphaned, sidecar>>,
           socket' \in {socket, NoDaemon}
    PROVE  IInv'
<1>1. PICK q \in {"closing", "gone", "cut"} :
         /\ phase' = [phase EXCEPT ![d] = q]
         /\ q = "closing" => phase[d] = "running"
         /\ claims' \subseteq claims
         /\ q # "closing" => \A c \in claims' : c.daemon # d
  OBVIOUS
<1>2. /\ q \in Phases /\ q \notin Booting /\ q \notin {"listening", "running"}
      /\ q \in Recorded <=> q = "closing"
  BY DEF Phases, Living, Booting, Recorded
<1>3. socket' \in Daemons \cup {NoDaemon} /\ sidecar'.daemon \in Daemons \cup {NoDaemon}
  BY DEF IInv, Types
<1>4. ~orphaned /\ phase[d] = "running" => sidecar'.kind = "ready" /\ sidecar'.daemon = d
  BY DEF IInv, Known, LivingRecorded, Recorded
<1>5. /\ claims' \subseteq Claims
      /\ \A c \in claims' : /\ \E b \in claims : b.daemon = c.daemon
                            /\ q \notin Recorded => c.daemon # d
  BY <1>1, <1>2, ClaimsAsTheyAre
<1> QED BY <1>1, <1>2, <1>3, <1>4, <1>5, DaemonMoves

LEMMA BootKeeps ==
    ASSUME IInv, NEW d \in Daemons, Check(d) \/ Bind(d)
    PROVE  IInv'
<1>1. /\ phase[d] \in {"validating", "binding"} /\ Lives(d)
      /\ UNCHANGED <<alive, pc, target, result, lock, orphaned, sidecar>>
      /\ {"binding", "listening"} \subseteq Phases \cap Booting
      /\ phase[d] \in Booting
  BY DEF Check, Bind, files, OnlyDaemon, calls, Lives, Living, Booting, Phases
<1>2. socket' \in Daemons \cup {NoDaemon} /\ sidecar'.daemon \in Daemons \cup {NoDaemon}
  BY <1>1 DEF Check, Bind, files, IInv, Types
<1>3. CASE Dies(d, "gone")
  BY <1>1, <1>2, <1>3, DeathMoves
<1>4. ASSUME NEW p \in {"binding", "listening"}, Becomes(d, p), UNCHANGED claims,
             p = "listening" => socket' = d
      PROVE  IInv'
  <2>1. claims' \subseteq Claims /\ \A c \in claims' : \E b \in claims : b.daemon = c.daemon
    BY <1>4, ClaimsAsTheyAre
  <2>2. p \in Phases /\ p \in Booting /\ p \notin Recorded \cup {"running"}
    BY DEF Phases, Living, Booting, Recorded
  <2>3. ~orphaned => \A c \in claims' : c.daemon # d
    BY <1>1, <1>4, ClaimsAsTheyAre DEF Recorded
  <2>4. CASE ~orphaned
    BY <1>1, <1>2, <1>4, <2>1, <2>2, <2>3, <2>4, DaemonMoves DEF Becomes
  <2>5. CASE orphaned
    <3>1. Types' /\ LockHeld'
      BY <1>1, <1>2, <1>4, <2>1, <2>2 DEF Becomes, IInv, Types, LockHeld
    <3> QED BY <1>1, <2>5, <3>1 DEF IInv
  <2> QED BY <2>4, <2>5
<1> QED BY <1>3, <1>4 DEF Check, Bind

LEMMA FailValidationKeeps ==
    ASSUME IInv, NEW d \in Daemons, FailValidation(d)
    PROVE  IInv'
<1>1. /\ Lives(d) /\ Dies(d, "gone")
      /\ UNCHANGED <<alive, pc, target, result, lock, orphaned>>
      /\ socket' \in Daemons \cup {NoDaemon} /\ sidecar'.daemon \in Daemons \cup {NoDaemon}
  BY DEF FailValidation, OnlyDaemon, calls, Lives, Living, Booting, Record, IInv, Types
<1> QED BY <1>1, DeathMoves

LEMMA WriteReadyStateKeeps ==
    ASSUME IInv, NEW d \in Daemons, WriteReadyState(d)
    PROVE  IInv'
<1>1. /\ Lives(d) /\ phase[d] = "listening" /\ phase' = [phase EXCEPT ![d] = "running"]
      /\ UNCHANGED <<alive, pc, target, result, lock, orphaned, claims, socket>>
      /\ sidecar'.kind = "ready" /\ sidecar'.daemon = d
  BY DEF WriteReadyState, Becomes, OnlyDaemon, calls, Lives, Living, Booting, Record
<1>2. "running" \in Phases /\ "running" \in Recorded /\ "running" \notin Booting
  BY DEF Phases, Living, Booting, Recorded
<1>3. socket' \in Daemons \cup {NoDaemon} /\ (~orphaned => socket' = d)
  BY <1>1 DEF IInv, Types, Known, BootingAwaited
<1>4. claims' \subseteq Claims /\ \A c \in claims' : \E b \in claims : b.daemon = c.daemon
  BY <1>1, ClaimsAsTheyAre
<1> QED BY <1>1, <1>2, <1>3, <1>4, DaemonMoves

LEMMA RemoveEndpointKeeps ==
    ASSUME IInv, NEW d \in Daemons, RemoveEndpoint(d)
    PROVE  IInv'
<1>1. /\ Lives(d) /\ phase[d] = "closing" /\ phase' = [phase EXCEPT ![d] = "leaving"]
      /\ UNCHANGED <<alive, pc, target, result, lock, orphaned, claims, sidecar>>
      /\ socket' \in Daemons \cup {NoDaemon} /\ sidecar'.daemon \in Daemons \cup {NoDaemon}
  BY DEF RemoveEndpoint, Becomes, OnlyDaemon, calls, Lives, Living, IInv, Types
<1>2. /\ "leaving" \in Phases /\ "leaving" \in Recorded
      /\ "leaving" \notin Booting \cup {"listening", "running"}
  BY DEF Phases, Living, Booting, Recorded
<1>3. ~orphaned => sidecar'.kind = "ready" /\ sidecar'.daemon = d
  BY <1>1 DEF IInv, Known, LivingRecorded, Recorded
<1>4. claims' \subseteq Claims /\ \A c \in claims' : \E b \in claims : b.daemon = c.daemon
  BY <1>1, ClaimsAsTheyAre
<1> QED BY <1>1, <1>2, <1>3, <1>4, DaemonMoves

LEMMA EndKeeps ==
    ASSUME IInv, NEW d \in Daemons, RemoveOwnState(d) \/ Crash(d)
    PROVE  IInv'
<1>1. /\ Lives(d) /\ Dies(d, "gone")
      /\ UNCHANGED <<alive, pc, target, result, lock, orphaned>>
  BY DEF RemoveOwnState, Crash, OnlyDaemon, calls, Lives, Living
<1>2. socket' \in Daemons \cup {NoDaemon} /\ sidecar'.daemon \in Daemons \cup {NoDaemon}
  BY DEF RemoveOwnState, Crash, Forget, files, NoState, IInv, Types
<1> QED BY <1>1, <1>2, DeathMoves

LEMMA InterruptKeeps ==
    ASSUME IInv, NEW d \in Daemons, Interrupt(d)
    PROVE  IInv'
<1>1. /\ Lives(d) /\ Terminate(d)
      /\ UNCHANGED <<alive, pc, target, result, lock, orphaned, sidecar>>
  BY DEF Interrupt, OnlyDaemon, calls, Lives
<1> QED BY <1>1, Terminated, TerminateMoves

LEMMA ShutdownHookKeeps ==
    ASSUME IInv, NEW d \in Daemons, ShutdownHook(d)
    PROVE  IInv'
<1>1. UNCHANGED <<alive, pc, target, result, lock, orphaned, sidecar>>
  BY DEF ShutdownHook, calls
<1>2. CASE phase[d] = "running"
  <2>1. Lives(d)
    BY <1>2 DEF Lives, Living
  <2> QED BY <1>1, <1>2, <2>1, TerminateMoves DEF ShutdownHook, Becomes
<1>3. CASE phase[d] # "running" /\ Lives(d)
  BY <1>1, <1>3, TerminateMoves DEF ShutdownHook, Dies, Becomes
<1>4. CASE ~Lives(d)
  <2>1. phase' = [phase EXCEPT ![d] = "cut"] /\ claims' \subseteq claims /\ UNCHANGED socket
    BY <1>4 DEF ShutdownHook, Dies, Becomes, Lives, Living
  <2>2. /\ phase' \in [Daemons -> Phases] /\ phase'[d] = "cut"
        /\ phase[d] \notin Booting \cup Recorded
        /\ "cut" \notin Living \cup Booting \cup Recorded \cup {"listening", "running"}
        /\ \A e \in Daemons \ {d} : phase'[e] = phase[e]
    BY <1>4, <2>1 DEF IInv, Types, Phases, Lives, Living, Booting, Recorded
  <2>3. Types' /\ LockHeld'
    BY <1>1, <2>1, <2>2 DEF IInv, Types, LockHeld
  <2>4. \A e \in Daemons : Lives(e)' <=> Lives(e)
    BY <1>4, <2>2 DEF Lives
  <2>5. ASSUME ~orphaned PROVE Known'
    <3>1. Known
      BY <2>5 DEF IInv
    <3>2. OneLives' /\ LivingRecorded'
      BY <1>1, <2>1, <2>2, <2>4, <3>1 DEF Known, OneLives, LivingRecorded
    <3>3. BootingAwaited'
      BY <1>1, <2>1, <2>2, <3>1 DEF Known, BootingAwaited
    <3>4. NoneLivesAtSpawn' /\ TargetIsTheOne'
      BY <1>1, <2>4, <3>1 DEF Known, NoneLivesAtSpawn, TargetIsTheOne
    <3>5. ClaimsOfLiving'
      BY <2>1, <2>2, <3>1 DEF Known, ClaimsOfLiving, IInv, Types, Claims
    <3> QED BY <3>1, <3>2, <3>3, <3>4, <3>5 DEF Known
  <2> QED BY <1>1, <2>3, <2>5 DEF IInv
<1> QED BY <1>2, <1>3, <1>4

\* The written claim is in the sidecar of the daemon that lives.
LEMMA PersistClaimKeeps ==
    ASSUME IInv, NEW c \in claims, PersistClaim(c)
    PROVE  IInv'
<1> DEFINE d == c.daemon
<1>1. c \in Claims /\ d \in Daemons
  BY DEF IInv, Types, Claims
<1>2. /\ UNCHANGED <<alive, phase, pc, target, result, lock, orphaned, socket>>
      /\ sidecar'.kind = "ready" /\ sidecar'.daemon = d
  BY DEF PersistClaim, calls, Record
<1>3. claims' \subseteq Claims /\ \A b \in claims' : \E a \in claims : a.daemon = b.daemon
  <2>1. [c EXCEPT !.written = TRUE] \in Claims /\ [c EXCEPT !.written = TRUE].daemon = d
    BY <1>1 DEF Claims
  <2> QED BY <2>1, ClaimsAsTheyAre DEF PersistClaim
<1>4. CASE ~orphaned
  <2>1. phase[d] \in Recorded /\ (phase[d] = "running" => socket = d)
    BY <1>1, <1>4 DEF IInv, Known, ClaimsOfLiving, LivingRecorded
  <2>2. /\ Lives(d) /\ phase[d] \in Phases /\ phase[d] \notin Booting
        /\ phase[d] # "listening"
    BY <1>1, <2>1 DEF Lives, Living, Booting, Recorded, Phases
  <2>3. phase' = [phase EXCEPT ![d] = phase[d]]
    BY <1>2 DEF IInv, Types
  <2>4. socket' \in Daemons \cup {NoDaemon} /\ sidecar'.daemon \in Daemons \cup {NoDaemon}
    BY <1>1, <1>2 DEF IInv, Types
  <2> DEFINE p == phase[d]
  <2>5. p \in Recorded /\ (p = "running" => socket' = d)
    BY <1>2, <2>1
  <2> HIDE DEF p, d
  <2> QED BY <1>1, <1>2, <1>3, <2>2, <2>3, <2>4, <2>5, DaemonMoves DEF p
<1>5. CASE orphaned
  BY <1>1, <1>2, <1>3, <1>5 DEF IInv, Types, LockHeld
<1> QED BY <1>4, <1>5

LEMMA AnswerClaimKeeps ==
    ASSUME IInv, NEW c \in claims, AnswerClaim(c)
    PROVE  IInv'
<1> DEFINE s == c.server
<1>1. s \in Servers
  BY DEF IInv, Types, Claims
<1>2. UNCHANGED <<alive, phase, socket, sidecar, orphaned>> /\ claims' \subseteq claims
  BY DEF AnswerClaim, files
<1>3. ASSUME NEW p \in {"confirm", "shutdown"}, pc[s] = "claiming", Steps(s, p)
      PROVE  IInv'
  <2>1. pc[s] \notin Unlocked /\ p \in Places \ Unlocked
    BY <1>3 DEF Unlocked, Places
  <2>2. ~orphaned => \A e \in Daemons : Lives(e) => target[s] = e
    BY <1>1, <1>3 DEF IInv, Known, TargetIsTheOne
  <2> HIDE DEF s
  <2> QED BY <1>1, <1>2, <1>3, <2>1, <2>2, ClaimsAsTheyAre, StepMoves
<1>4. CASE UNCHANGED calls
  <2>1. Types' /\ LockHeld'
    BY <1>2, <1>4 DEF calls, IInv, Types, LockHeld
  <2>2. \A e : Lives(e)' <=> Lives(e)
    BY <1>2 DEF Lives
  <2>3. Known => Known'
    BY <1>2, <1>4, <2>2 DEF calls, Known, OneLives, BootingAwaited, LivingRecorded,
       NoneLivesAtSpawn, TargetIsTheOne, ClaimsOfLiving
  <2> QED BY <1>2, <2>1, <2>3 DEF IInv
<1> QED BY <1>3, <1>4 DEF AnswerClaim

-----------------------------------------------------------------------------
LEMMA InitHolds == Init => IInv
<1> SUFFICES ASSUME Init PROVE IInv
  OBVIOUS
<1>1. Types /\ LockHeld
  BY DEF Init, Types, LockHeld, Unlocked, NoState, Phases, Places
<1>2. \A d \in Daemons : ~Lives(d) /\ phase[d] = "unused"
  BY DEF Init, Lives, Living, Booting
<1>3. OneLives /\ ClaimsOfLiving /\ NoneLivesAtSpawn /\ TargetIsTheOne
  BY <1>2 DEF Init, OneLives, ClaimsOfLiving, NoneLivesAtSpawn, TargetIsTheOne
<1>4. BootingAwaited /\ LivingRecorded
  BY <1>2 DEF BootingAwaited, LivingRecorded, Booting, Recorded
<1> QED BY <1>1, <1>3, <1>4 DEF IInv, Known

LEMMA StepKeeps == IInv /\ [Next]_vars => IInv'
<1> SUFFICES ASSUME IInv, [Next]_vars PROVE IInv'
  OBVIOUS
<1>1. ASSUME NEW s \in Servers, CallStep(s) PROVE IInv'
  BY <1>1, EnterLockKeeps, ProbeToStartKeeps, ConfirmKeeps, ProbeToStopKeeps, ClaimKeeps,
     LoseClaimKeeps, RequestShutdownKeeps, SignalKeeps, AwaitExitKeeps, JudgeKeeps,
     InspectKeeps, UnlinkKeeps, SpawnKeeps, PollKeeps, GiveUpKeeps DEF CallStep
<1>2. ASSUME NEW d \in Daemons, DaemonStep(d) PROVE IInv'
  BY <1>2, ShutdownHookKeeps, BootKeeps, WriteReadyStateKeeps, RemoveEndpointKeeps,
     EndKeeps DEF DaemonStep
<1>3. CASE UNCHANGED vars
  <2>1. UNCHANGED <<alive, phase, claims, socket, sidecar, lock, pc, target, result, orphaned>>
    BY <1>3 DEF vars
  <2>2. Types' /\ LockHeld'
    BY <2>1 DEF IInv, Types, LockHeld
  <2>3. \A e : Lives(e)' <=> Lives(e)
    BY <2>1 DEF Lives
  <2>4. Known => Known'
    BY <2>1, <2>3 DEF Known, OneLives, BootingAwaited, LivingRecorded,
       NoneLivesAtSpawn, TargetIsTheOne, ClaimsOfLiving
  <2> QED BY <2>1, <2>2, <2>4 DEF IInv
<1> QED BY <1>1, <1>2, <1>3, CallKeeps, ExitKeeps, FailValidationKeeps, EndKeeps,
        InterruptKeeps, PersistClaimKeeps, AnswerClaimKeeps DEF Next

\* What the sidecar, the socket and the lock tell of a daemon that lives.
THEOREM DiskIsTrue == Spec => []IInv
<1> QED BY InitHolds, StepKeeps, PTL DEF Spec

\* A profile has one daemon process, unless a server died while its daemon booted:
\* start never spawns beside a live one, whatever crashes, times out or is claimed.
THEOREM OneDaemonHolds == Spec => []OneDaemonUnlessOrphaned
<1>1. IInv => OneDaemonUnlessOrphaned
  BY DEF IInv, Known, OneLives, OneDaemonUnlessOrphaned
<1> QED BY <1>1, DiskIsTrue, PTL

\* A daemon that runs has its socket at the endpoint and its record in the sidecar.
THEOREM RunningIsReachableHolds == Spec => []RunningIsReachable
<1>1. IInv => RunningIsReachable
  BY DEF IInv, Known, LivingRecorded, Recorded, RunningIsReachable
<1> QED BY <1>1, DiskIsTrue, PTL

-----------------------------------------------------------------------------
(* What a stop has seen. *)

\* A call ends with "stopped" where its daemon is found dead or none is recorded.
LEMMA StoppedEnds ==
    ASSUME IInv, NEW s \in Servers, CallStep(s), result'[s] = "stopped", pc'[s] = "idle"
    PROVE  \/ pc[s] \in {"signal", "await"} /\ ~Lives(target[s]) /\ UNCHANGED phase
           \/ pc[s] = "probe" /\ sidecar.kind # "ready" /\ UNCHANGED phase
<1>1. s \in DOMAIN pc /\ s \in DOMAIN result
  BY DEF IInv, Types
<1>2. \A p \in Places \ {"idle"} : ~Steps(s, p)
  BY <1>1 DEF Steps, Goes
<1>3. \A p \in Places \ {"idle"} : \A d : ~StepsTo(s, p, d)
  BY <1>1 DEF StepsTo, Goes
<1>4. \A how \in {"ready", "failed"} : ~Ends(s, how)
  BY <1>1 DEF Ends
<1>5. {"judge", "probe", "claim", "claiming", "confirm", "shutdown", "signal", "await",
       "inspect", "unlink", "spawn", "poll"} \subseteq Places \ {"idle"}
  BY DEF Places
<1>6. ~EnterLock(s)
  BY <1>1 DEF EnterLock, Goes
<1>7. ~(ProbeToStart(s) \/ Confirm(s) \/ Judge(s) \/ Inspect(s) \/ Poll(s))
  BY <1>2, <1>3, <1>4, <1>5 DEF ProbeToStart, Confirm, Judge, Inspect, Poll
<1>8. ~(Claim(s) \/ LoseClaim(s) \/ RequestShutdown(s))
  BY <1>2, <1>4, <1>5 DEF Claim, Accept, LoseClaim, RequestShutdown
<1>9. ~(Unlink(s) \/ Spawn(s) \/ GiveUp(s))
  BY <1>2, <1>3, <1>4, <1>5 DEF Unlink, Spawn, GiveUp
<1>10. CASE ProbeToStop(s)
  BY <1>3, <1>4, <1>5, <1>10 DEF ProbeToStop, processes
<1>11. CASE Signal(s)
  BY <1>2, <1>5, <1>11 DEF Signal
<1>12. CASE AwaitExit(s)
  BY <1>4, <1>12 DEF AwaitExit, processes
<1> QED BY <1>6, <1>7, <1>8, <1>9, <1>10, <1>11, <1>12 DEF CallStep

\* Only a step of its own call ends a call.
LEMMA OwnStepEnds ==
    ASSUME IInv, [Next]_vars, NEW s \in alive, pc[s] # "idle", pc'[s] = "idle"
    PROVE  CallStep(s)
<1>1. s \in Servers /\ s \in DOMAIN pc
  BY DEF IInv, Types
<1>2. ASSUME NEW p, NEW r, Goes(r, p), p # "idle" \/ r # s PROVE FALSE
  BY <1>1, <1>2 DEF Goes
<1>3. ASSUME NEW r \in Servers, CallStart(r) \/ CallStop(r) \/ Exit(r) PROVE FALSE
  BY <1>2, <1>3 DEF CallStart, CallStop, Exit
<1>4. ASSUME NEW r \in Servers, r # s, CallStep(r) PROVE FALSE
  <2>1. pc'[s] = pc[s]
    BY <1>1, <1>4 DEF CallStep, EnterLock, ProbeToStart, Confirm, ProbeToStop, Claim, Accept,
       LoseClaim, RequestShutdown, Signal, AwaitExit, AfterStop, Judge, Inspect, Unlink,
       Spawn, Poll, GiveUp, Steps, StepsTo, Ends, Goes
  <2> QED BY <2>1
<1>5. ASSUME NEW d \in Daemons, DaemonStep(d) \/ FailValidation(d) \/ Crash(d) \/ Interrupt(d)
      PROVE  FALSE
  <2>1. UNCHANGED pc
    BY <1>5 DEF DaemonStep, ShutdownHook, Check, Bind, WriteReadyState, RemoveEndpoint,
       RemoveOwnState, FailValidation, Crash, Interrupt, OnlyDaemon, calls
  <2> QED BY <2>1
<1>6. ASSUME NEW c \in claims, PersistClaim(c) \/ AnswerClaim(c) PROVE FALSE
  <2>1. UNCHANGED pc \/ Goes(c.server, "confirm") \/ Goes(c.server, "shutdown")
    BY <1>6 DEF PersistClaim, AnswerClaim, Steps, calls
  <2> QED BY <1>2, <2>1
<1>7. ~UNCHANGED vars
  BY DEF vars
<1> QED BY <1>1, <1>3, <1>4, <1>5, <1>6, <1>7 DEF Next

\* When a stop reports that it stopped the daemon, no daemon process is left.
THEOREM StopLeavesNothingHolds == Spec => StopLeavesNothing
<1> DEFINE A == \A s \in alive :
                  result'[s] = "stopped" /\ op[s] = "stop" /\ pc[s] # "idle" /\ pc'[s] = "idle"
                  /\ ~orphaned => \A d \in Daemons : ~Lives(d)
<1>1. IInv /\ [Next]_vars => A
  <2> SUFFICES ASSUME IInv, [Next]_vars, NEW s \in alive, result'[s] = "stopped",
                      pc[s] # "idle", pc'[s] = "idle", ~orphaned, NEW d \in Daemons, Lives(d)
               PROVE  FALSE
    OBVIOUS
  <2>1. s \in Servers /\ CallStep(s)
    BY OwnStepEnds DEF IInv, Types
  <2>2. \/ pc[s] \in {"signal", "await"} /\ ~Lives(target[s])
        \/ pc[s] = "probe" /\ sidecar.kind # "ready"
    BY <2>1, StoppedEnds
  <2>3. pc[s] \notin Unlocked
    BY <2>2 DEF Unlocked
  <2> QED BY <2>1, <2>2, <2>3, AtTheLock DEF IInv, Known, TargetIsTheOne
<1>2. IInv /\ [Next]_vars => [A]_vars
  BY <1>1
<1> QED BY <1>2, DiskIsTrue, PTL DEF Spec, StopLeavesNothing

-----------------------------------------------------------------------------
(* Claims that do not outlast their callers. *)

\* A claim is one on a daemon that has been listening; a living server awaits it
\* there, and has one at most; and the daemon belongs to nobody else alive.
ClaimsTrue ==
    /\ owner \in [Daemons -> Servers \cup {NoServer}]
    /\ \A c \in claims : phase[c.daemon] \in {"listening"} \cup Recorded
    /\ \A c \in claims : c.server \in alive =>
          /\ pc[c.server] = "claiming" \/ ~Listens(c.daemon)
          /\ owner[c.daemon] = c.server \/ owner[c.daemon] \notin alive
    /\ \A b, c \in claims :
          b.server \in alive /\ c.server \in alive =>
             /\ b.daemon = c.daemon => b.server = c.server
             /\ b.server = c.server /\ Listens(b.daemon) /\ Listens(c.daemon) => b = c

\* Steps that accept, write or answer no claim keep that, if nothing but a death
\* takes a claim, its caller or its daemon away.
LEMMA ClaimsKeep ==
    ASSUME ClaimsTrue, claims' \subseteq claims, alive' \subseteq alive,
           owner' \in [Daemons -> Servers \cup {NoServer}],
           \A c \in claims' : /\ phase'[c.daemon] \in {"listening"} \cup Recorded
                              /\ Listens(c.daemon)' => Listens(c.daemon)
                              /\ owner'[c.daemon] = owner[c.daemon],
           \A s \in alive' : pc[s] = "claiming" => pc'[s] = "claiming"
    PROVE  ClaimsTrue'
<1>1. \A c \in claims' : c \in claims /\ (c.server \in alive' => c.server \in alive)
  OBVIOUS
<1>2. \A c \in claims' : c.server \in alive' =>
         /\ pc'[c.server] = "claiming" \/ ~Listens(c.daemon)'
         /\ owner'[c.daemon] = c.server \/ owner'[c.daemon] \notin alive'
  BY <1>1 DEF ClaimsTrue
<1>3. \A b, c \in claims' :
         b.server \in alive' /\ c.server \in alive' =>
            /\ b.daemon = c.daemon => b.server = c.server
            /\ b.server = c.server /\ Listens(b.daemon)' /\ Listens(c.daemon)' => b = c
  BY <1>1 DEF ClaimsTrue
<1> QED BY <1>2, <1>3 DEF ClaimsTrue

\* The steps of a call but the claim and its loss.
LEMMA CallsKeepClaims ==
    ASSUME IInv, ClaimsTrue, NEW s \in Servers,
           \/ CallStart(s) \/ CallStop(s) \/ Exit(s)
           \/ CallStep(s) /\ ~Claim(s) /\ ~LoseClaim(s) /\ ~Signal(s) /\ ~GiveUp(s) /\ ~Spawn(s)
    PROVE  ClaimsTrue'
<1>1. /\ UNCHANGED <<phase, claims, owner>> /\ alive' \subseteq alive
      /\ \A r \in alive' : pc[r] = "claiming" => pc'[r] = "claiming"
  <2>1. CASE CallStart(s) \/ CallStop(s)
    BY <2>1 DEF CallStart, CallStop, OnlyCalls, processes, Goes, IInv, Types
  <2>2. CASE Exit(s)
    BY <2>2 DEF Exit, processes, Goes, IInv, Types
  <2>3. CASE EnterLock(s) \/ ProbeToStart(s) \/ Confirm(s) \/ Judge(s) \/ Inspect(s) \/ Poll(s)
    BY <2>3 DEF EnterLock, ProbeToStart, Confirm, Judge, Inspect, Poll, OnlyCalls, processes,
       Steps, StepsTo, Ends, Goes, IInv, Types
  <2>4. CASE ProbeToStop(s) \/ RequestShutdown(s) \/ AwaitExit(s) \/ Unlink(s)
    BY <2>4 DEF ProbeToStop, RequestShutdown, AwaitExit, AfterStop, Unlink, processes,
       Steps, StepsTo, Ends, Goes, IInv, Types
  <2> QED BY <2>1, <2>2, <2>3, <2>4 DEF CallStep
<1>2. \A d : Listens(d)' <=> Listens(d)
  BY <1>1 DEF Listens
<1> QED BY <1>1, <1>2, ClaimsKeep DEF ClaimsTrue

\* A death, or the way from running to leaving.
LEMMA StopsKeepClaims ==
    ASSUME IInv, ClaimsTrue, NEW d \in Daemons,
           \E q \in Phases : /\ phase' = [phase EXCEPT ![d] = q]
                             /\ \/ q \in Recorded /\ Listens(d) /\ claims' = claims
                                \/ q \in {"closing", "leaving"} /\ claims' = claims
                                \/ q = "binding" /\ phase[d] = "validating" /\ claims' = claims
                                \/ q = "listening" /\ phase[d] = "binding" /\ claims' = claims
                                \/ q \notin Serving /\ claims' = {c \in claims : c.daemon # d},
           UNCHANGED <<alive, owner>>,
           \A s \in alive : pc[s] = "claiming" => pc'[s] = "claiming"
    PROVE  ClaimsTrue'
<1>1. PICK q \in Phases : /\ phase' = [phase EXCEPT ![d] = q]
                          /\ \/ q \in Recorded /\ Listens(d) /\ claims' = claims
                             \/ q \in {"closing", "leaving"} /\ claims' = claims
                             \/ q = "binding" /\ phase[d] = "validating" /\ claims' = claims
                             \/ q = "listening" /\ phase[d] = "binding" /\ claims' = claims
                             \/ q \notin Serving /\ claims' = {c \in claims : c.daemon # d}
  OBVIOUS
<1>2. /\ phase'[d] = q /\ claims' \subseteq claims
      /\ \A e \in Daemons \ {d} : phase'[e] = phase[e]
      /\ \A c \in claims : c.daemon \in Daemons
  BY <1>1 DEF IInv, Types, Claims
<1>3. ASSUME NEW c \in claims'
      PROVE  /\ phase'[c.daemon] \in {"listening"} \cup Recorded
             /\ Listens(c.daemon)' => Listens(c.daemon)
  <2>1. c \in claims /\ phase[c.daemon] \in {"listening"} \cup Recorded
    BY <1>2 DEF ClaimsTrue
  <2>2. CASE c.daemon # d
    BY <1>2, <2>1, <2>2 DEF Listens
  <2>3. CASE c.daemon = d
    BY <1>1, <1>2, <2>1, <2>3 DEF Listens, Recorded, Serving
  <2> QED BY <2>2, <2>3
<1> QED BY <1>2, <1>3, ClaimsKeep DEF ClaimsTrue

LEMMA SignalsKeepClaims ==
    ASSUME IInv, ClaimsTrue, NEW s \in Servers, Signal(s) \/ GiveUp(s)
    PROVE  ClaimsTrue'
<1>1. /\ UNCHANGED <<alive, owner>>
      /\ \A r \in alive : pc[r] = "claiming" => pc'[r] = "claiming"
  BY DEF Signal, GiveUp, AfterStop, Steps, Ends, Goes, IInv, Types
<1>2. CASE Lives(target[s])
  <2>1. target[s] \in Daemons /\ Terminate(target[s])
    BY <1>2 DEF Signal, GiveUp, Lives
  <2>2. {"closing", "gone", "cut"} \subseteq Phases
    BY DEF Phases, Living
  <2>3. CASE phase[target[s]] = "running"
    <3>1. phase' = [phase EXCEPT ![target[s]] = "closing"] /\ claims' = claims
      BY <2>1, <2>3 DEF Terminate, Becomes
    <3> QED BY <1>1, <2>1, <2>2, <3>1, StopsKeepClaims
  <2>4. CASE phase[target[s]] # "running"
    <3>1. PICK q \in {"gone", "cut"} :
             /\ phase' = [phase EXCEPT ![target[s]] = q]
             /\ claims' = {c \in claims : c.daemon # target[s]}
      BY <2>1, <2>4 DEF Terminate, Dies, Becomes
    <3> QED BY <1>1, <2>1, <2>2, <3>1, StopsKeepClaims DEF Serving
  <2> QED BY <2>3, <2>4
<1>3. CASE ~Lives(target[s])
  <2>1. UNCHANGED <<phase, claims>>
    BY <1>3 DEF Signal, GiveUp
  <2>2. \A d : Listens(d)' <=> Listens(d)
    BY <2>1 DEF Listens
  <2> QED BY <1>1, <2>1, <2>2, ClaimsKeep DEF ClaimsTrue
<1> QED BY <1>2, <1>3

\* A fresh daemon has no claim.
LEMMA SpawnKeepsClaims ==
    ASSUME IInv, ClaimsTrue, NEW s \in Servers, Spawn(s)
    PROVE  ClaimsTrue'
<1>1. /\ UNCHANGED <<alive, claims>>
      /\ \A r \in alive : pc[r] = "claiming" => pc'[r] = "claiming"
  BY DEF Spawn, Steps, StepsTo, Ends, Goes, IInv, Types
<1>2. CASE UNCHANGED <<phase, starter, owner>>
  <2>1. \A d : Listens(d)' <=> Listens(d)
    BY <1>2 DEF Listens
  <2> QED BY <1>1, <1>2, <2>1, ClaimsKeep DEF ClaimsTrue
<1>3. ASSUME NEW d \in Daemons, Fresh(d), Becomes(d, "validating"),
             owner' = [owner EXCEPT ![d] = s]
      PROVE  ClaimsTrue'
  <2>1. \A c \in claims : c.daemon # d /\ c.daemon \in Daemons
    BY <1>3 DEF ClaimsTrue, Fresh, Lives, Living, Booting, Recorded, IInv, Types, Claims
  <2>2. \A c \in claims : phase'[c.daemon] = phase[c.daemon] /\ owner'[c.daemon] = owner[c.daemon]
    BY <1>3, <2>1 DEF Becomes, ClaimsTrue, IInv, Types
  <2>3. owner' \in [Daemons -> Servers \cup {NoServer}]
    BY <1>3 DEF ClaimsTrue
  <2>4. \A c \in claims : Listens(c.daemon)' => Listens(c.daemon)
    BY <2>2 DEF Listens
  <2> QED BY <1>1, <2>2, <2>3, <2>4, ClaimsKeep DEF ClaimsTrue
<1> QED BY <1>2, <1>3 DEF Spawn

LEMMA DaemonsKeepClaims ==
    ASSUME IInv, ClaimsTrue, NEW d \in Daemons,
           DaemonStep(d) \/ FailValidation(d) \/ Crash(d) \/ Interrupt(d)
    PROVE  ClaimsTrue'
<1>1. UNCHANGED <<alive, owner, pc>>
  BY DEF DaemonStep, ShutdownHook, Check, Bind, WriteReadyState, RemoveEndpoint,
     RemoveOwnState, FailValidation, Crash, Interrupt, OnlyDaemon, calls
<1>2. Phases = Living \cup {"unused", "gone", "cut"} /\ Serving \cap {"gone", "cut"} = {}
  BY DEF Phases, Serving
<1>3. CASE \E how \in {"gone", "cut"} : Dies(d, how)
  BY <1>1, <1>2, <1>3, StopsKeepClaims DEF Dies, Becomes
<1>4. CASE phase[d] = "running" /\ Becomes(d, "closing") /\ UNCHANGED claims
  <2>1. "closing" \in Phases
    BY DEF Phases, Living
  <2> QED BY <1>1, <1>4, <2>1, StopsKeepClaims DEF Becomes
<1>5. CASE Check(d) \/ Bind(d)
  <2>1. {"binding", "listening"} \subseteq Phases
    BY DEF Phases, Living, Booting
  <2> QED BY <1>1, <1>3, <1>5, <2>1, StopsKeepClaims DEF Check, Bind, Becomes
<1>6. CASE WriteReadyState(d) \/ RemoveEndpoint(d)
  <2>1. /\ {"running", "leaving"} \subseteq Phases
        /\ "running" \in Recorded
        /\ "listening" \in Serving
    BY DEF Phases, Living, Recorded, Serving
  <2> QED BY <1>1, <1>6, <2>1, StopsKeepClaims DEF WriteReadyState, RemoveEndpoint, Becomes, Listens
<1>7. CASE ShutdownHook(d) \/ RemoveOwnState(d) \/ FailValidation(d) \/ Crash(d) \/ Interrupt(d)
  BY <1>3, <1>4, <1>7 DEF ShutdownHook, RemoveOwnState, FailValidation, Crash, Interrupt, Terminate
<1> QED BY <1>5, <1>6, <1>7 DEF DaemonStep

\* A claim is accepted when no living server awaits one on that daemon.
LEMMA ClaimKeepsClaims ==
    ASSUME IInv, ClaimsTrue, NEW s \in Servers, Claim(s)
    PROVE  ClaimsTrue'
<1>1. /\ UNCHANGED <<alive, phase, owner>> /\ s \in alive /\ pc[s] = "claim"
      /\ pc[s] \notin Unlocked
      /\ \A r \in alive \ {s} : pc'[r] = pc[r]
  BY DEF Claim, Accept, Steps, Ends, Goes, IInv, Types, LockHeld, Unlocked
<1>2. \A d : Listens(d)' <=> Listens(d)
  BY <1>1 DEF Listens
<1>3. CASE UNCHANGED claims
  BY <1>1, <1>2, <1>3, ClaimsKeep DEF ClaimsTrue
<1>4. CASE /\ Listens(socket)
           /\ owner[socket] = s \/ owner[socket] \notin alive
           /\ Accept(s, socket)
  <2> DEFINE new == [daemon |-> socket, server |-> s, written |-> FALSE]
  <2>1. claims' = claims \cup {new} /\ pc'[s] = "claiming"
    BY <1>4 DEF Accept, Steps, Goes, IInv, Types
  <2>2. phase[socket] \in {"listening"} \cup Recorded
    BY <1>4 DEF Listens, Serving, Recorded
  <2>3. \A c \in claims : c.server \in alive => ~Listens(c.daemon)
    <3>1. \A r \in alive : pc[r] = "claiming" => FALSE
      BY <1>1, OneCall DEF Unlocked, IInv, Types
    <3> QED BY <3>1 DEF ClaimsTrue
  <2>4. /\ new.daemon = socket /\ new.server = s
    OBVIOUS
  <2> HIDE DEF new
  <2>5. \A c \in claims' : phase'[c.daemon] \in {"listening"} \cup Recorded
    BY <1>1, <2>1, <2>2, <2>4 DEF ClaimsTrue
  <2>6. \A c \in claims' : c.server \in alive' =>
           /\ pc'[c.server] = "claiming" \/ ~Listens(c.daemon)'
           /\ owner'[c.daemon] = c.server \/ owner'[c.daemon] \notin alive'
    BY <1>1, <1>2, <1>4, <2>1, <2>4 DEF ClaimsTrue
  <2>7. \A b, c \in claims' :
           b.server \in alive' /\ c.server \in alive' =>
              /\ b.daemon = c.daemon => b.server = c.server
              /\ b.server = c.server /\ Listens(b.daemon)' /\ Listens(c.daemon)' => b = c
    BY <1>1, <1>2, <1>4, <2>1, <2>3, <2>4 DEF ClaimsTrue
  <2> QED BY <1>1, <2>5, <2>6, <2>7 DEF ClaimsTrue
<1> QED BY <1>3, <1>4 DEF Claim

\* A call that is not late leaves a claim only where the daemon has stopped listening.
LEMMA LoseClaimKeepsClaims ==
    ASSUME IInv, ClaimsTrue, ~late', NEW s \in Servers, LoseClaim(s)
    PROVE  ClaimsTrue'
<1>1. /\ UNCHANGED <<alive, phase, owner, claims>>
      /\ \A r \in Servers \ {s} : pc'[r] = pc[r]
      /\ \A c \in claims : c.server = s => ~Listens(c.daemon)
  BY DEF LoseClaim, processes, Steps, Goes, IInv, Types
<1>2. \A d : Listens(d)' <=> Listens(d)
  BY <1>1 DEF Listens
<1>3. \A c \in claims : c.server \in Servers
  BY DEF IInv, Types, Claims
<1> QED BY <1>1, <1>2, <1>3 DEF ClaimsTrue

LEMMA PersistClaimKeepsClaims ==
    ASSUME IInv, ClaimsTrue, NEW c \in claims, PersistClaim(c)
    PROVE  ClaimsTrue'
<1> DEFINE new == [c EXCEPT !.written = TRUE]
<1>1. /\ UNCHANGED <<alive, phase, owner, pc>>
      /\ claims' = (claims \ {c}) \cup {new}
  BY DEF PersistClaim, calls
<1>2. new.daemon = c.daemon /\ new.server = c.server
  BY DEF IInv, Types, Claims
<1>3. \A d : Listens(d)' <=> Listens(d)
  BY <1>1 DEF Listens
<1> HIDE DEF new
<1>4. \A b \in claims' : /\ phase'[b.daemon] \in {"listening"} \cup Recorded
                         /\ b.server \in alive' =>
                              /\ pc'[b.server] = "claiming" \/ ~Listens(b.daemon)'
                              /\ owner'[b.daemon] = b.server \/ owner'[b.daemon] \notin alive'
  BY <1>1, <1>2, <1>3 DEF ClaimsTrue
<1>5. \A a, b \in claims' :
         a.server \in alive' /\ b.server \in alive' =>
            /\ a.daemon = b.daemon => a.server = b.server
            /\ a.server = b.server /\ Listens(a.daemon)' /\ Listens(b.daemon)' => a = b
  BY <1>1, <1>2, <1>3 DEF ClaimsTrue
<1> QED BY <1>1, <1>4, <1>5 DEF ClaimsTrue

\* The owner becomes the claimer, who is the only one alive.
LEMMA AnswerClaimKeepsClaims ==
    ASSUME IInv, ClaimsTrue, NEW c \in claims, AnswerClaim(c)
    PROVE  ClaimsTrue'
<1>1. /\ UNCHANGED <<alive, phase>> /\ claims' = claims \ {c}
      /\ owner' = [owner EXCEPT ![c.daemon] = c.server]
      /\ c.server \in Servers /\ c.daemon \in Daemons
      /\ \A r \in Servers \ {c.server} : pc'[r] = pc[r]
      /\ pc' = pc \/ Listens(c.daemon)
      /\ \A b \in claims : b.server \in Servers
  BY DEF AnswerClaim, Steps, Goes, calls, IInv, Types, Claims
<1>2. \A d : Listens(d)' <=> Listens(d)
  BY <1>1 DEF Listens
<1>3. /\ owner' \in [Daemons -> Servers \cup {NoServer}]
      /\ owner'[c.daemon] = c.server
      /\ \A d \in Daemons \ {c.daemon} : owner'[d] = owner[d]
  BY <1>1 DEF ClaimsTrue
<1>4. ASSUME NEW b \in claims', b.server \in alive'
      PROVE  /\ pc'[b.server] = "claiming" \/ ~Listens(b.daemon)'
             /\ owner'[b.daemon] = b.server \/ owner'[b.daemon] \notin alive'
  <2>1. b \in claims /\ b # c /\ b.server \in alive /\ b.daemon \in Daemons
    BY <1>1, <1>4 DEF IInv, Types, Claims
  <2>2. CASE b.server = c.server /\ pc' # pc
    BY <1>1, <1>2, <1>3, <2>1, <2>2 DEF ClaimsTrue
  <2>3. CASE b.server # c.server \/ pc' = pc
    BY <1>1, <1>2, <1>3, <2>1, <2>3 DEF ClaimsTrue
  <2> QED BY <2>2, <2>3
<1>5. \A a, b \in claims' :
         a.server \in alive' /\ b.server \in alive' =>
            /\ a.daemon = b.daemon => a.server = b.server
            /\ a.server = b.server /\ Listens(a.daemon)' /\ Listens(b.daemon)' => a = b
  BY <1>1, <1>2 DEF ClaimsTrue
<1> QED BY <1>1, <1>3, <1>4, <1>5 DEF ClaimsTrue

\* A late claim stays in the history.
LEMMA LateStays ==
    ASSUME [Next]_vars, late
    PROVE  late'
BY DEF Next, vars, CallStart, CallStop, CallStep, Exit, EnterLock, ProbeToStart, Confirm,
   ProbeToStop, Claim, LoseClaim, RequestShutdown, Signal, AwaitExit, Judge, Inspect,
   Unlink, Spawn, Poll, GiveUp, OnlyCalls, DaemonStep, ShutdownHook, Check, Bind,
   WriteReadyState, RemoveEndpoint, RemoveOwnState, FailValidation, Crash, Interrupt,
   OnlyDaemon, PersistClaim, AnswerClaim

LEMMA StepKeepsClaims ==
    ASSUME IInv, ClaimsTrue, [Next]_vars, ~late'
    PROVE  ClaimsTrue'
<1>1. CASE UNCHANGED vars
  <2>1. UNCHANGED <<alive, phase, owner, claims, pc>>
    BY <1>1 DEF vars
  <2>2. \A d : Listens(d)' <=> Listens(d)
    BY <2>1 DEF Listens
  <2> QED BY <2>1, <2>2, ClaimsKeep DEF ClaimsTrue
<1>2. ASSUME NEW s \in Servers, CallStart(s) \/ CallStop(s) \/ CallStep(s) \/ Exit(s)
      PROVE  ClaimsTrue'
  BY <1>2, CallsKeepClaims, SignalsKeepClaims, SpawnKeepsClaims, ClaimKeepsClaims,
     LoseClaimKeepsClaims
<1> QED BY <1>1, <1>2, DaemonsKeepClaims, PersistClaimKeepsClaims, AnswerClaimKeepsClaims
        DEF Next

LEMMA InitClaims == Init => ClaimsTrue
BY DEF Init, ClaimsTrue

\* Until a claim outlasts the wait of its caller, an accepted claim is always awaited,
\* and on a daemon that nobody else alive owns or claims.
LEMMA ClaimsAreTrue == Spec => [](~late => ClaimsTrue)
<1>1. IInv /\ (~late => ClaimsTrue) /\ [Next]_vars => (~late => ClaimsTrue)'
  BY StepKeepsClaims, LateStays
<1>2. Init => (~late => ClaimsTrue)
  BY InitClaims
<1> QED BY <1>1, <1>2, DiskIsTrue, PTL DEF Spec

-----------------------------------------------------------------------------
(* Whom a server stops. *)

\* A daemon that a server awaits is its own; no living server but the one that
\* claims or stops has a claim; and who has come to stop a daemon owns it, or took it
\* from a dead owner.
MineOrNobodys ==
    \A s \in Servers :
        /\ pc[s] = "poll" => claims = {} /\ (Lives(target[s]) => owner[target[s]] = s)
        /\ pc[s] \in {"claim", "claiming", "shutdown", "signal"} =>
              \A c \in claims : c.server \in alive => c.server = s
        /\ pc[s] \in {"shutdown", "signal"} /\ Lives(target[s]) =>
              owner[target[s]] = s \/ owner[target[s]] \notin alive

Deciding == {"poll", "claim", "claiming", "shutdown", "signal"}

\* A step keeps that when no call comes to decide anything.
LEMMA DecisionsKeep ==
    ASSUME MineOrNobodys, alive' \subseteq alive, claims' \subseteq claims, owner' = owner,
           \A d \in Daemons : Lives(d)' => Lives(d),
           \A s \in Servers : pc'[s] \in Deciding => pc'[s] = pc[s] /\ target'[s] = target[s]
    PROVE  MineOrNobodys'
<1>1. \A d : Lives(d)' => Lives(d)
  BY DEF Lives
<1> QED BY <1>1 DEF MineOrNobodys, Deciding

\* Most calls decide nothing.
LEMMA CallsDecideNothing ==
    ASSUME IInv, MineOrNobodys, NEW s \in Servers,
           \/ CallStart(s) \/ CallStop(s) \/ EnterLock(s) \/ Confirm(s) \/ LoseClaim(s)
           \/ AwaitExit(s) \/ Judge(s) \/ Inspect(s) \/ Unlink(s) \/ Poll(s) \/ Exit(s)
    PROVE  MineOrNobodys'
<1>1. UNCHANGED <<phase, owner, claims>> /\ alive' \subseteq alive
  BY DEF CallStart, CallStop, EnterLock, Confirm, LoseClaim, AwaitExit, Judge, Inspect,
     Unlink, Poll, Exit, OnlyCalls, processes
<1>2. \A r \in Servers : pc'[r] \in Deciding => pc'[r] = pc[r] /\ target'[r] = target[r]
  BY DEF CallStart, CallStop, EnterLock, Confirm, LoseClaim, AwaitExit, Judge, Inspect,
     Unlink, Poll, Exit, AfterStop, Ends, Steps, StepsTo, Goes, Deciding, IInv, Types
<1> QED BY <1>1, <1>2, DecisionsKeep DEF Lives

LEMMA SignalsDecideNothing ==
    ASSUME IInv, MineOrNobodys, NEW s \in Servers, Signal(s) \/ GiveUp(s)
    PROVE  MineOrNobodys'
<1>1. UNCHANGED <<alive, owner>>
  BY DEF Signal, GiveUp
<1>2. \A r \in Servers : pc'[r] \in Deciding => pc'[r] = pc[r] /\ target'[r] = target[r]
  BY DEF Signal, GiveUp, AfterStop, Ends, Steps, Goes, Deciding, IInv, Types
<1>3. claims' \subseteq claims /\ \A d \in Daemons : Lives(d)' => Lives(d)
  BY DEF Signal, GiveUp, Terminate, Dies, Becomes, Lives, IInv, Types
<1> QED BY <1>1, <1>2, <1>3, DecisionsKeep

LEMMA DaemonsDecideNothing ==
    ASSUME IInv, MineOrNobodys, NEW d \in Daemons,
           DaemonStep(d) \/ FailValidation(d) \/ Crash(d) \/ Interrupt(d)
    PROVE  MineOrNobodys'
<1>1. UNCHANGED <<alive, owner, pc, target>>
  BY DEF DaemonStep, ShutdownHook, Check, Bind, WriteReadyState, RemoveEndpoint,
     RemoveOwnState, FailValidation, Crash, Interrupt, OnlyDaemon, calls
<1>2. claims' \subseteq claims
  BY DEF DaemonStep, ShutdownHook, Check, Bind, WriteReadyState, RemoveEndpoint,
     RemoveOwnState, FailValidation, Crash, Interrupt, Terminate, Dies
<1>3. \A e \in Daemons : Lives(e)' => Lives(e)
  BY DEF DaemonStep, ShutdownHook, Check, Bind, WriteReadyState, RemoveEndpoint,
     RemoveOwnState, FailValidation, Crash, Interrupt, Terminate, Dies, Becomes, Lives,
     Living, Booting, IInv, Types
<1> QED BY <1>1, <1>2, <1>3, DecisionsKeep

\* A probe that succeeds meets no claim of a living server.
LEMMA ProbeMeetsNoClaim ==
    ASSUME IInv, ClaimsTrue, ~orphaned, NEW s \in Servers, pc[s] = "probe", ProbeOk,
           NEW c \in claims
    PROVE  c.server \notin alive
<1>1. c.server \in Servers /\ c.daemon \in Daemons /\ Lives(c.daemon) /\ Lives(socket)
  BY DEF IInv, Types, Claims, ClaimsTrue, ProbeOk, Listens, Lives, Living, Booting, Serving, Recorded
<1>2. c.daemon = socket /\ Listens(c.daemon)
  BY <1>1 DEF IInv, Known, OneLives, ProbeOk, Lives
<1>3. pc[c.server] # "claiming"
  BY <1>1, OneCall DEF Unlocked
<1> QED BY <1>2, <1>3 DEF ClaimsTrue

LEMMA ProbesDecide ==
    ASSUME IInv, ClaimsTrue, ~orphaned, MineOrNobodys, NEW s \in Servers,
           ProbeToStart(s) \/ ProbeToStop(s)
    PROVE  MineOrNobodys'
<1>1. /\ UNCHANGED <<alive, phase, owner, claims>> /\ pc[s] = "probe"
      /\ \A r \in Servers \ {s} : pc'[r] = pc[r] /\ target'[r] = target[r]
  BY DEF ProbeToStart, ProbeToStop, OnlyCalls, processes, Ends, Steps, StepsTo, Goes, IInv, Types
<1>2. CASE pc'[s] \notin Deciding
  BY <1>1, <1>2, DecisionsKeep DEF Lives
<1>3. CASE pc'[s] \in Deciding
  <2>1. /\ ProbeOk /\ pc'[s] \in {"claim", "shutdown"}
        /\ pc'[s] = "shutdown" => target'[s] = socket /\ owner[socket] = s
    BY <1>3 DEF ProbeToStart, ProbeToStop, ProbeOk, Ends, Steps, StepsTo, Goes, Deciding, IInv, Types
  <2>2. \A c \in claims : c.server \notin alive
    BY <1>1, <2>1, ProbeMeetsNoClaim
  <2>3. \A d : Lives(d)' <=> Lives(d)
    BY <1>1 DEF Lives
  <2> QED BY <1>1, <2>1, <2>2, <2>3 DEF MineOrNobodys
<1> QED BY <1>2, <1>3

LEMMA ClaimDecides ==
    ASSUME IInv, MineOrNobodys, NEW s \in Servers, Claim(s)
    PROVE  MineOrNobodys'
<1>1. /\ UNCHANGED <<alive, phase, owner, target>> \/ pc'[s] = "idle"
      /\ UNCHANGED <<alive, phase, owner>>
      /\ pc[s] = "claim" /\ pc[s] \notin Unlocked
      /\ \A r \in Servers \ {s} : pc'[r] = pc[r] /\ target'[r] = target[r]
      /\ \/ claims' = claims /\ pc'[s] \in {"judge", "idle"}
         \/ /\ claims' = claims \cup {[daemon |-> socket, server |-> s, written |-> FALSE]}
            /\ pc'[s] = "claiming"
  BY DEF Claim, Accept, Ends, Steps, Goes, Unlocked, IInv, Types
<1>2. CASE claims' = claims /\ pc'[s] \in {"judge", "idle"}
  BY <1>1, <1>2, DecisionsKeep DEF Deciding, Lives
<1>3. CASE /\ claims' = claims \cup {[daemon |-> socket, server |-> s, written |-> FALSE]}
           /\ pc'[s] = "claiming"
  <2>1. \A r \in Servers : pc'[r] \in Deciding => r = s
    BY <1>1, OneCall DEF Deciding, Unlocked
  <2> QED BY <1>1, <1>3, <2>1 DEF MineOrNobodys, Deciding
<1> QED BY <1>1, <1>2, <1>3

LEMMA RequestDecides ==
    ASSUME IInv, MineOrNobodys, NEW s \in Servers, RequestShutdown(s)
    PROVE  MineOrNobodys'
<1>1. /\ UNCHANGED <<alive, phase, owner, claims>> /\ pc[s] = "shutdown"
      /\ pc'[s] = "idle" \/ (pc'[s] = "signal" /\ target'[s] = target[s])
      /\ \A r \in Servers \ {s} : pc'[r] = pc[r] /\ target'[r] = target[r]
  BY DEF RequestShutdown, Ends, Steps, Goes, IInv, Types
<1>2. \A d : Lives(d)' <=> Lives(d)
  BY <1>1 DEF Lives
<1> QED BY <1>1, <1>2 DEF MineOrNobodys

\* Nothing lives when a daemon is spawned, so nothing is claimed.
LEMMA SpawnDecides ==
    ASSUME IInv, ClaimsTrue, ~orphaned, MineOrNobodys, NEW s \in Servers, Spawn(s)
    PROVE  MineOrNobodys'
<1>1. /\ UNCHANGED <<alive, claims>> /\ pc[s] = "spawn" /\ pc[s] \notin Unlocked
      /\ \A r \in Servers \ {s} : pc'[r] = pc[r] /\ target'[r] = target[r]
  BY DEF Spawn, Ends, StepsTo, Goes, Unlocked, IInv, Types
<1>2. CASE UNCHANGED <<phase, owner>> /\ pc'[s] = "idle"
  BY <1>1, <1>2, DecisionsKeep DEF Deciding, Lives
<1>3. ASSUME NEW d \in Daemons, owner' = [owner EXCEPT ![d] = s], StepsTo(s, "poll", d)
      PROVE  MineOrNobodys'
  <2>1. pc'[s] = "poll" /\ target'[s] = d /\ owner'[d] = s
    BY <1>3 DEF StepsTo, Goes, ClaimsTrue, IInv, Types
  <2>2. claims = {}
    <3>1. \A d1 \in Daemons : ~Lives(d1)
      BY <1>1 DEF IInv, Known, NoneLivesAtSpawn
    <3> QED BY <3>1 DEF IInv, Known, ClaimsOfLiving, Types, Claims, Lives, Living, Recorded
  <2> QED BY <1>1, <2>1, <2>2, OneCall DEF MineOrNobodys, Unlocked
<1> QED BY <1>2, <1>3 DEF Spawn, Ends, IInv, Types

LEMMA PersistDecidesNothing ==
    ASSUME IInv, MineOrNobodys, NEW c \in claims, PersistClaim(c)
    PROVE  MineOrNobodys'
<1> DEFINE new == [c EXCEPT !.written = TRUE]
<1>1. /\ UNCHANGED <<alive, phase, owner, pc, target>>
      /\ claims' = (claims \ {c}) \cup {new} /\ claims # {}
  BY DEF PersistClaim, calls
<1>2. new.server = c.server
  BY DEF IInv, Types, Claims
<1>3. \A d : Lives(d)' <=> Lives(d)
  BY <1>1 DEF Lives
<1> HIDE DEF new
<1> QED BY <1>1, <1>2, <1>3 DEF MineOrNobodys

\* The answer to a claim makes the claimer the owner of the one daemon that lives.
LEMMA AnswerDecides ==
    ASSUME IInv, ClaimsTrue, ~orphaned, MineOrNobodys, NEW c \in claims, AnswerClaim(c)
    PROVE  MineOrNobodys'
<1>1. /\ UNCHANGED <<alive, phase, target>> /\ claims' = claims \ {c}
      /\ owner' = [owner EXCEPT ![c.daemon] = c.server]
      /\ c.server \in Servers /\ c.daemon \in Daemons
      /\ \A r \in Servers \ {c.server} : pc'[r] = pc[r]
      /\ \/ pc' = pc
         \/ /\ pc[c.server] = "claiming" /\ pc'[c.server] \in {"confirm", "shutdown"}
            /\ Listens(c.daemon)
  BY DEF AnswerClaim, Steps, Goes, calls, IInv, Types, Claims
<1>2. \A d : Lives(d)' <=> Lives(d)
  BY <1>1 DEF Lives
<1>3. /\ owner'[c.daemon] = c.server
      /\ \A d \in Daemons \ {c.daemon} : owner'[d] = owner[d]
  BY <1>1 DEF ClaimsTrue
<1>4. ASSUME NEW s \in Servers, pc'[s] = pc[s]
      PROVE  /\ pc[s] # "poll"
             /\ pc[s] \in {"claim", "claiming", "shutdown", "signal"} =>
                   \A b \in claims : b.server \in alive => b.server = s
             /\ pc[s] \in {"shutdown", "signal"} /\ Lives(target[s]) =>
                   owner'[target[s]] = s \/ owner'[target[s]] \notin alive
  <2>1. CASE target[s] = c.daemon
    BY <1>1, <1>3, <1>4, <2>1 DEF MineOrNobodys
  <2>2. CASE target[s] # c.daemon
    BY <1>1, <1>3, <1>4, <2>2 DEF MineOrNobodys, Lives
  <2> QED BY <2>1, <2>2
<1>5. CASE pc' = pc
  BY <1>1, <1>2, <1>4, <1>5 DEF MineOrNobodys
<1>6. CASE /\ pc[c.server] = "claiming" /\ pc'[c.server] \in {"confirm", "shutdown"}
           /\ Listens(c.daemon)
  <2>1. Lives(c.daemon)
    BY <1>6 DEF Listens, Lives, Serving, Living, Booting
  <2>2. target[c.server] = c.daemon
    BY <1>1, <1>6, <2>1 DEF IInv, Known, TargetIsTheOne
  <2>3. \A b \in claims : b.server \in alive => b.server = c.server
    BY <1>1, <1>6 DEF MineOrNobodys
  <2>4. \A r \in Servers \ {c.server} : pc[r] \in Unlocked
    BY <1>1, <1>6, OneCall DEF Unlocked
  <2> QED BY <1>1, <1>2, <1>3, <1>6, <2>2, <2>3, <2>4 DEF MineOrNobodys, Unlocked
<1> QED BY <1>1, <1>5, <1>6

LEMMA StepDecides ==
    ASSUME IInv, ClaimsTrue, ~orphaned => MineOrNobodys, [Next]_vars, ~orphaned'
    PROVE  MineOrNobodys'
<1>1. ~orphaned
  BY DEF Next, vars, CallStart, CallStop, CallStep, Exit, EnterLock, ProbeToStart, Confirm,
     ProbeToStop, Claim, LoseClaim, RequestShutdown, Signal, AwaitExit, Judge, Inspect,
     Unlink, Spawn, Poll, GiveUp, OnlyCalls, DaemonStep, ShutdownHook, Check, Bind,
     WriteReadyState, RemoveEndpoint, RemoveOwnState, FailValidation, Crash, Interrupt,
     OnlyDaemon, PersistClaim, AnswerClaim
<1>2. CASE UNCHANGED vars
  <2>1. UNCHANGED <<alive, phase, owner, claims, pc, target>>
    BY <1>2 DEF vars
  <2> QED BY <1>1, <2>1, DecisionsKeep DEF Lives
<1>3. ASSUME NEW s \in Servers, CallStart(s) \/ CallStop(s) \/ CallStep(s) \/ Exit(s)
      PROVE  MineOrNobodys'
  BY <1>1, <1>3, CallsDecideNothing, SignalsDecideNothing, ProbesDecide, ClaimDecides,
     RequestDecides, SpawnDecides DEF CallStep
<1> QED BY <1>1, <1>2, <1>3, DaemonsDecideNothing, PersistDecidesNothing, AnswerDecides DEF Next

\* Only a call itself moves on from there.
LEMMA OwnStep ==
    ASSUME IInv, [Next]_vars, NEW s \in Servers,
           pc[s] \in {"shutdown", "signal", "poll"}, pc'[s] # pc[s]
    PROVE  RequestShutdown(s) \/ Signal(s) \/ Poll(s) \/ GiveUp(s) \/ Exit(s)
<1>1. pc' # pc /\ Next
  BY DEF vars
<1>2. ASSUME NEW r \in Servers, CallStart(r) \/ CallStop(r) \/ CallStep(r) \/ Exit(r)
      PROVE  r = s
  BY <1>2 DEF CallStart, CallStop, CallStep, Exit, EnterLock, ProbeToStart, Confirm,
     ProbeToStop, Claim, Accept, LoseClaim, RequestShutdown, Signal, AwaitExit, AfterStop,
     Judge, Inspect, Unlink, Spawn, Poll, GiveUp, Ends, Steps, StepsTo, Goes, IInv, Types
<1>3. ASSUME NEW d \in Daemons, DaemonStep(d) \/ FailValidation(d) \/ Crash(d) \/ Interrupt(d)
      PROVE  FALSE
  BY <1>1, <1>3 DEF DaemonStep, ShutdownHook, Check, Bind, WriteReadyState, RemoveEndpoint,
     RemoveOwnState, FailValidation, Crash, Interrupt, OnlyDaemon, calls
<1>4. ASSUME NEW c \in claims, PersistClaim(c) \/ AnswerClaim(c)
      PROVE  FALSE
  BY <1>1, <1>4 DEF PersistClaim, AnswerClaim, Steps, Goes, calls, IInv, Types, Claims
<1>5. CallStart(s) \/ CallStop(s) \/ CallStep(s) \/ Exit(s)
  BY <1>1, <1>2, <1>3, <1>4 DEF Next
<1> QED BY <1>5 DEF CallStart, CallStop, CallStep, EnterLock, ProbeToStart, Confirm,
        ProbeToStop, Claim, LoseClaim, AwaitExit, Judge, Inspect, Unlink, Spawn

\* Until a claim outlasts the wait of its caller, whom a server shuts down or signals
\* is its own daemon or one whose owner is dead: the daemon it probed, the one that
\* accepted its claim and the one whose pid it signals are the same.
THEOREM TerminatesOnlyItsOwnHolds == Spec => TerminatesOnlyItsOwn
<1> DEFINE A == \A s \in alive :
                  ~orphaned /\ ~late /\ pc[s] \in {"shutdown", "signal", "poll"} /\ pc'[s] # pc[s] =>
                  \A d \in Daemons :
                     (d \in hooks' /\ d \notin hooks) \/ (Lives(d) /\ phase'[d] # phase[d]) =>
                         owner[d] = s \/ owner[d] \notin alive
<1>1. ASSUME IInv, ~orphaned, MineOrNobodys, [Next]_vars, NEW s \in alive,
             pc[s] \in {"shutdown", "signal", "poll"}, pc'[s] # pc[s], NEW d \in Daemons,
             (d \in hooks' /\ d \notin hooks) \/ (Lives(d) /\ phase'[d] # phase[d])
      PROVE  owner[d] = s \/ owner[d] \notin alive
  <2>1. s \in Servers
    BY <1>1 DEF IInv, Types
  <2>2. \/ RequestShutdown(s) \/ Signal(s) \/ Poll(s) \/ GiveUp(s) \/ Exit(s)
    BY <1>1, <2>1, OwnStep
  <2>3. CASE RequestShutdown(s) \/ Poll(s) \/ Exit(s)
    BY <1>1, <2>3 DEF RequestShutdown, Poll, Exit, OnlyCalls, processes
  <2>4. CASE Signal(s) \/ GiveUp(s)
    <3>1. d = target[s] /\ Lives(d) /\ pc[s] \in {"signal", "poll"}
      BY <1>1, <2>4 DEF Signal, GiveUp, Terminate, Dies, Becomes, IInv, Types
    <3> QED BY <1>1, <2>1, <3>1 DEF MineOrNobodys
  <2> QED BY <2>2, <2>3, <2>4
<1> DEFINE Inv == ~orphaned /\ ~late => MineOrNobodys
<1>2. IInv /\ Inv /\ [Next]_vars => [A]_vars
  BY <1>1
<1>3. Init => Inv
  BY DEF Init, MineOrNobodys
<1>4. IInv /\ (~late => ClaimsTrue) /\ Inv /\ [Next]_vars => Inv'
  BY StepDecides, LateStays
<1> QED BY <1>2, <1>3, <1>4, ClaimsAreTrue, DiskIsTrue, PTL DEF Spec, TerminatesOnlyItsOwn
=============================================================================
