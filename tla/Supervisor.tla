------------------------------ MODULE Supervisor ------------------------------
(***************************************************************************)
(* The daemon of one profile and the servers that start, reuse, replace    *)
(* and stop it: createPiSessionDaemonSupervisor, the daemon process and    *)
(* the ownership commands of the session daemon.                           *)
(*                                                                         *)
(* What they share is on disk: the socket at the endpoint, the state       *)
(* sidecar and the operation lock, here a lock that only a dead holder can *)
(* lose (module CrossProcessLock looks inside one like it).  A server runs *)
(* one call at a time.  A launch is a server of its own, so a server that  *)
(* exits never returns.  A probe reads the sidecar and asks for health in  *)
(* one step: a change in between ends as the time-out the step allows.     *)
(* The name of a dead daemon that nothing refers to is used again.         *)
(***************************************************************************)
EXTENDS Naturals, FiniteSets

CONSTANTS
    Servers,    \* server instances, each with a pid
    Daemons,    \* daemon processes, each with a pid and a daemonId
    Builds,     \* build ids
    Build,      \* the build of each server
    MaxFaults   \* bound on crashes, signals from outside, time-outs, failed boots

NoServer == "no server"
NoDaemon == "no daemon"

ASSUME SupervisorAssumption ==
    /\ Build \in [Servers -> Builds]
    /\ MaxFaults \in Nat
    /\ NoServer \notin Servers
    /\ NoDaemon \notin Daemons

VARIABLES
    alive,    \* servers whose process runs
    phase,    \* the life of each daemon process
    starter,  \* the server that spawned it, which fixes its build
    owner,    \* the owner in its memory
    hooks,    \* daemons whose shutdown hook is scheduled
    claims,   \* claims a daemon has accepted and not answered yet
    socket,   \* the daemon whose socket file is at the endpoint
    sidecar,  \* the state file
    lock,     \* the holder of the operation lock
    pc,       \* what the call of each server does next
    op,       \* which call that is
    target,   \* the daemon the call is about
    result,   \* how the last call of each server ended
    faults,   \* faults so far
    orphaned, \* history: did a server die while the daemon it spawned booted?
    late      \* history: did a claim outlast the wait of its caller?

vars == <<alive, phase, starter, owner, hooks, claims, socket, sidecar, lock,
          pc, op, target, result, faults, orphaned, late>>

histories == <<orphaned, late>>

processes == <<phase, starter, owner, hooks, claims>>
files == <<socket, sidecar>>
calls == <<lock, pc, op, target, result>>

Booting == {"validating", "binding", "listening"}
Serving == {"listening", "running"}
Living == Booting \cup {"running", "closing", "leaving"}
Phases == Living \cup {"unused", "gone", "cut"}
Places == {"idle", "lock", "probe", "claim", "claiming", "confirm", "shutdown",
           "signal", "await", "judge", "inspect", "unlink", "spawn", "poll", "dead"}

NoState == [kind |-> "none", daemon |-> NoDaemon, owner |-> NoServer]
Record(kind, d, s) == [kind |-> kind, daemon |-> d, owner |-> s]

Lives(d) == d \in Daemons /\ phase[d] \in Living
Listens(d) == d \in Daemons /\ phase[d] \in Serving

Fault == faults < MaxFaults /\ faults' = faults + 1

\* probe: the recorded daemon answers at the endpoint and is the one recorded.
ProbeOk ==
    /\ sidecar.kind = "ready"
    /\ socket = sidecar.daemon
    /\ Listens(socket)
    /\ owner[socket] = sidecar.owner

\* removeStaleState: only the record of this daemon is removed.
Forget(d) == sidecar' = IF sidecar.daemon = d THEN NoState ELSE sidecar

Goes(s, place) == pc' = [pc EXCEPT ![s] = place]

\* A call inside the lock ends: withOperationLock removes its own lock file.
Ends(s, how) ==
    /\ pc' = [pc EXCEPT ![s] = "idle"]
    /\ result' = [result EXCEPT ![s] = how]
    /\ lock' = NoServer
    /\ target' = [target EXCEPT ![s] = NoDaemon]
    /\ UNCHANGED op

\* A call inside the lock goes on.
Steps(s, place) == Goes(s, place) /\ UNCHANGED <<lock, op, target, result>>
StepsTo(s, place, d) ==
    /\ Goes(s, place)
    /\ target' = [target EXCEPT ![s] = d]
    /\ UNCHANGED <<lock, op, result>>

-----------------------------------------------------------------------------
(* Stopping a process.                                                     *)

Becomes(d, p) == phase' = [phase EXCEPT ![d] = p]

\* A process is gone, and with it the claims it was answering.
Dies(d, how) ==
    /\ Becomes(d, how)
    /\ claims' = {c \in claims : c.daemon # d}
    /\ hooks' = hooks \ {d}

\* SIGTERM, and the shutdown hook of a daemon that serves.  The handlers are
\* installed once the daemon is ready: before, the signal just ends it.  The
\* first stop closes the server, which unlinks the endpoint, and goes on to
\* dispose; a second stop returns at once, and its caller exits the process.
Terminate(d) ==
    IF phase[d] = "running"
    THEN /\ Becomes(d, "closing")
         /\ socket' = NoDaemon
         /\ UNCHANGED <<hooks, claims>>
    ELSE /\ Dies(d, IF phase[d] \in Booting THEN "gone" ELSE "cut")
         /\ UNCHANGED socket

\* setImmediate runs the hook of runtime.shutdown.
ShutdownHook(d) ==
    /\ d \in hooks
    /\ IF phase[d] = "running"
       THEN /\ Becomes(d, "closing")
            /\ socket' = NoDaemon
            /\ hooks' = hooks \ {d}
            /\ UNCHANGED claims
       ELSE Dies(d, "cut") /\ UNCHANGED socket
    /\ UNCHANGED <<starter, owner, sidecar, alive, calls, faults, histories>>

-----------------------------------------------------------------------------
(* The daemon process.                                                     *)

OnlyDaemon == UNCHANGED <<alive, starter, owner, calls, histories>>

\* start: the sessions on disk are valid and nothing is at the endpoint.
Check(d) ==
    /\ phase[d] = "validating"
    /\ IF socket = NoDaemon
       THEN Becomes(d, "binding") /\ UNCHANGED <<hooks, claims>>
       ELSE Dies(d, "gone")
    /\ UNCHANGED <<files, faults>> /\ OnlyDaemon

\* start: a malformed session file ends the start with a failure record.
FailValidation(d) ==
    /\ phase[d] = "validating"
    /\ Fault
    /\ Dies(d, "gone")
    /\ sidecar' = Record("failed", d, starter[d])
    /\ UNCHANGED socket /\ OnlyDaemon

\* listen, or EADDRINUSE.
Bind(d) ==
    /\ phase[d] = "binding"
    /\ IF socket = NoDaemon
       THEN Becomes(d, "listening") /\ socket' = d /\ UNCHANGED <<hooks, claims>>
       ELSE Dies(d, "gone") /\ UNCHANGED socket
    /\ UNCHANGED <<sidecar, faults>> /\ OnlyDaemon

\* writeReadyState, and the signal handlers.
WriteReadyState(d) ==
    /\ phase[d] = "listening"
    /\ Becomes(d, "running")
    /\ sidecar' = Record("ready", d, starter[d])
    /\ UNCHANGED <<hooks, claims, socket, faults>> /\ OnlyDaemon

\* stop has disposed the runtimes and removes the endpoint, by its name.
RemoveEndpoint(d) ==
    /\ phase[d] = "closing"
    /\ Becomes(d, "leaving")
    /\ socket' = NoDaemon
    /\ UNCHANGED <<hooks, claims, sidecar, faults>> /\ OnlyDaemon

\* removeOwnState, and the process exits.
RemoveOwnState(d) ==
    /\ phase[d] = "leaving"
    /\ Dies(d, "gone")
    /\ Forget(d)
    /\ UNCHANGED <<socket, faults>> /\ OnlyDaemon

\* The process is killed, and leaves its files behind.
Crash(d) ==
    /\ phase[d] \in Living
    /\ Fault
    /\ Dies(d, "gone")
    /\ UNCHANGED files /\ OnlyDaemon

\* Somebody else signals the process: a session ends, the machine goes down.
Interrupt(d) ==
    /\ phase[d] \in Living
    /\ Fault
    /\ Terminate(d)
    /\ UNCHANGED sidecar /\ OnlyDaemon

-----------------------------------------------------------------------------
(* Ownership: runtime.claim.                                               *)

Accept(s, d) ==
    /\ claims' = claims \cup {[daemon |-> d, server |-> s, written |-> FALSE]}
    /\ Steps(s, "claiming")

\* claimDaemonOwnership: refused while another live server owns the daemon.
Claim(s) ==
    /\ pc[s] = "claim"
    /\ \/ ~Listens(socket) /\ Steps(s, "judge") /\ UNCHANGED claims
       \/ /\ Listens(socket)
          /\ owner[socket] # s /\ owner[socket] \in alive
          /\ Ends(s, "failed")
          /\ UNCHANGED claims
       \/ /\ Listens(socket)
          /\ owner[socket] = s \/ owner[socket] \notin alive
          /\ Accept(s, socket)
    /\ UNCHANGED <<alive, phase, starter, owner, hooks, files, faults, histories>>

\* onOwnershipClaim writes the sidecar, which is awaited.
PersistClaim(c) ==
    /\ c \in claims /\ ~c.written
    /\ sidecar' = Record("ready", c.daemon, c.server)
    /\ claims' = (claims \ {c}) \cup {[c EXCEPT !.written = TRUE]}
    /\ UNCHANGED <<alive, phase, starter, owner, hooks, socket, calls, faults, histories>>

\* Then the owner in memory follows, and the caller is answered: a daemon of
\* its own build is reused, another is replaced.
AnswerClaim(c) ==
    /\ c \in claims /\ c.written
    /\ owner' = [owner EXCEPT ![c.daemon] = c.server]
    /\ claims' = claims \ {c}
    /\ IF pc[c.server] = "claiming" /\ Listens(c.daemon)
       THEN Steps(c.server, IF Build[c.server] = Build[starter[target[c.server]]]
                            THEN "confirm" ELSE "shutdown")
       ELSE UNCHANGED calls
    /\ UNCHANGED <<alive, phase, starter, hooks, files, faults, histories>>

\* The connection is lost, or the answer is too late: nothing bounds the write
\* that it waits for, and the daemon goes on with the claim.
LoseClaim(s) ==
    /\ pc[s] = "claiming"
    /\ IF \E c \in claims : c.server = s /\ Listens(c.daemon)
       THEN Fault /\ late' = TRUE
       ELSE UNCHANGED <<faults, late>>
    /\ Steps(s, "judge")
    /\ UNCHANGED <<alive, processes, files, orphaned>>

-----------------------------------------------------------------------------
(* The supervisor of a server.                                             *)

OnlyCalls == UNCHANGED <<alive, processes, files, histories>>

\* start, or a request that finds no daemon ready.
CallStart(s) ==
    /\ s \in alive /\ pc[s] = "idle"
    /\ Goes(s, "lock")
    /\ op' = [op EXCEPT ![s] = "start"]
    /\ UNCHANGED <<lock, target, result, faults>> /\ OnlyCalls

\* stop, which waits for a pending start first.
CallStop(s) ==
    /\ s \in alive /\ pc[s] = "idle"
    /\ Goes(s, "lock")
    /\ op' = [op EXCEPT ![s] = "stop"]
    /\ UNCHANGED <<lock, target, result, faults>> /\ OnlyCalls

\* Mutant: the lock is tried for as long as it takes.
EnterLock_patient(s) ==
    /\ pc[s] = "lock"
    /\ lock \notin alive
    /\ lock' = s
    /\ Goes(s, "probe")
    /\ UNCHANGED <<op, target, result, faults>> /\ OnlyCalls

\* withOperationLock: the lock is free, or its holder is dead, or time is up.
EnterLock(s) ==
    /\ pc[s] = "lock"
    /\ \/ /\ lock \notin alive
          /\ lock' = s
          /\ Goes(s, "probe")
          /\ UNCHANGED result
       \/ /\ lock \in alive
          /\ Goes(s, "idle")
          /\ result' = [result EXCEPT ![s] = "failed"]
          /\ UNCHANGED lock
    /\ UNCHANGED <<op, target, faults>> /\ OnlyCalls

\* start looks for a daemon to reuse.
ProbeToStart(s) ==
    /\ pc[s] = "probe" /\ op[s] = "start"
    /\ \/ /\ ProbeOk
          /\ StepsTo(s, "claim", sidecar.daemon)
          /\ UNCHANGED faults
       \/ /\ IF ProbeOk THEN Fault ELSE UNCHANGED faults
          /\ Steps(s, "judge")
    /\ OnlyCalls

\* A reused daemon is probed again, as its new owner's.
Confirm(s) ==
    /\ pc[s] = "confirm"
    /\ \/ ProbeOk /\ Ends(s, "ready") /\ UNCHANGED faults
       \/ (IF ProbeOk THEN Fault ELSE UNCHANGED faults) /\ Steps(s, "judge")
    /\ OnlyCalls

\* Mutant: stop does not compare the recorded owner.
ProbeToStop_anyOwner(s) ==
    /\ pc[s] = "probe" /\ op[s] = "stop"
    /\ \/ /\ sidecar.kind # "ready"
          /\ IF Lives(sidecar.daemon) THEN UNCHANGED sidecar ELSE Forget(sidecar.daemon)
          /\ Ends(s, "stopped")
          /\ UNCHANGED faults
       \/ /\ sidecar.kind = "ready"
          /\ UNCHANGED sidecar
          /\ \/ (IF ProbeOk THEN Fault ELSE UNCHANGED faults) /\ Ends(s, "failed")
             \/ ProbeOk /\ StepsTo(s, "shutdown", sidecar.daemon) /\ UNCHANGED faults
    /\ UNCHANGED <<alive, processes, socket, histories>>

\* Mutant: stop takes the record of a daemon that does not answer for stale.
ProbeToStop_forgets(s) ==
    /\ pc[s] = "probe" /\ op[s] = "stop"
    /\ \/ /\ sidecar.kind # "ready" \/ ~ProbeOk
          /\ Forget(sidecar.daemon)
          /\ Ends(s, "stopped")
          /\ UNCHANGED faults
       \/ ProbeOk /\ Fault /\ Forget(sidecar.daemon) /\ Ends(s, "failed")
       \/ ProbeOk /\ sidecar.owner # s /\ Ends(s, "failed") /\ UNCHANGED <<sidecar, faults>>
       \/ /\ ProbeOk /\ sidecar.owner = s
          /\ StepsTo(s, "shutdown", sidecar.daemon)
          /\ UNCHANGED <<sidecar, faults>>
    /\ UNCHANGED <<alive, processes, socket, histories>>

\* stop: nothing recorded is nothing to stop, and only the recorded owner stops
\* a daemon.
ProbeToStop(s) ==
    /\ pc[s] = "probe" /\ op[s] = "stop"
    /\ \/ /\ sidecar.kind # "ready"
          /\ IF Lives(sidecar.daemon) THEN UNCHANGED sidecar ELSE Forget(sidecar.daemon)
          /\ Ends(s, "stopped")
          /\ UNCHANGED faults
       \/ /\ sidecar.kind = "ready"
          /\ UNCHANGED sidecar
          /\ \/ (IF ProbeOk THEN Fault ELSE UNCHANGED faults) /\ Ends(s, "failed")
             \/ ProbeOk /\ sidecar.owner # s /\ Ends(s, "failed") /\ UNCHANGED faults
             \/ /\ ProbeOk /\ sidecar.owner = s
                /\ StepsTo(s, "shutdown", sidecar.daemon)
                /\ UNCHANGED faults
    /\ UNCHANGED <<alive, processes, socket, histories>>

\* requestDaemonShutdown: runtime.shutdown.  A daemon that is not reached, or
\* does not answer in time, is signalled all the same.
RequestShutdown(s) ==
    /\ pc[s] = "shutdown"
    /\ \/ /\ Listens(socket)
          /\ owner[socket] # s \/ socket # target[s]
          /\ Ends(s, "failed")
          /\ UNCHANGED <<hooks, faults>>
       \/ /\ Listens(socket) /\ owner[socket] = s /\ socket = target[s]
          /\ hooks' = hooks \cup {socket}
          /\ Steps(s, "signal")
          /\ UNCHANGED faults
       \/ /\ IF Listens(socket) THEN Fault ELSE UNCHANGED faults
          /\ Steps(s, "signal")
          /\ UNCHANGED hooks
    /\ UNCHANGED <<alive, phase, starter, owner, claims, files, histories>>

\* The daemon is gone: its record goes too; a start goes on, a stop is done.
AfterStop(s) ==
    /\ Forget(target[s])
    /\ IF op[s] = "start" THEN Steps(s, "judge") ELSE Ends(s, "stopped")

\* Mutant: stop returns once the signal is sent.
Signal_noWait(s) ==
    /\ pc[s] = "signal"
    /\ IF Lives(target[s])
       THEN Terminate(target[s])
       ELSE UNCHANGED <<phase, hooks, claims, socket>>
    /\ AfterStop(s)
    /\ UNCHANGED <<alive, starter, owner, faults, histories>>

\* SIGTERM to the recorded pid.
Signal(s) ==
    /\ pc[s] = "signal"
    /\ IF Lives(target[s])
       THEN Terminate(target[s]) /\ Steps(s, "await") /\ UNCHANGED sidecar
       ELSE AfterStop(s) /\ UNCHANGED <<phase, hooks, claims, socket>>
    /\ UNCHANGED <<alive, starter, owner, faults, histories>>

\* The pid is watched until it is dead or five seconds have passed.
AwaitExit(s) ==
    /\ pc[s] = "await"
    /\ IF Lives(target[s]) THEN Ends(s, "failed") /\ UNCHANGED sidecar
       ELSE AfterStop(s)
    /\ UNCHANGED <<alive, processes, socket, faults, histories>>

\* Mutant: a recorded daemon that does not answer is taken for dead.
Judge_unanswered(s) ==
    /\ pc[s] = "judge"
    /\ StepsTo(s, "inspect", sidecar.daemon)
    /\ UNCHANGED faults /\ OnlyCalls

\* start: whatever is recorded must be dead.
Judge(s) ==
    /\ pc[s] = "judge"
    /\ IF Lives(sidecar.daemon) THEN Ends(s, "failed")
       ELSE StepsTo(s, "inspect", sidecar.daemon)
    /\ UNCHANGED faults /\ OnlyCalls

\* endpointExists, recoverVerifiedStaleEndpoint: a socket is stale when its
\* daemon is recorded and dead and nobody answers at it.
Inspect(s) ==
    /\ pc[s] = "inspect"
    /\ \/ socket = NoDaemon /\ Steps(s, "spawn") /\ UNCHANGED faults
       \/ /\ socket # NoDaemon
          /\ target[s] = NoDaemon \/ Listens(socket)
          /\ Ends(s, "failed")
          /\ UNCHANGED faults
       \/ /\ socket # NoDaemon /\ target[s] # NoDaemon
          /\ IF Listens(socket) THEN Fault ELSE UNCHANGED faults
          /\ Steps(s, "unlink")
    /\ OnlyCalls

Unlink(s) ==
    /\ pc[s] = "unlink"
    /\ IF socket = NoDaemon THEN Ends(s, "failed") ELSE Steps(s, "spawn")
    /\ socket' = NoDaemon
    /\ UNCHANGED <<alive, processes, sidecar, faults, histories>>

\* A name for a new process: one nothing refers to any more.
Fresh(d) ==
    /\ ~Lives(d)
    /\ d \notin {socket, sidecar.daemon}
    /\ \A s \in Servers : target[s] # d

\* The stale record is removed and a daemon is spawned, unless spawning fails.
Spawn(s) ==
    /\ pc[s] = "spawn"
    /\ Forget(target[s])
    /\ \/ \E d \in Daemons :
             /\ Fresh(d)
             /\ Becomes(d, "validating")
             /\ starter' = [starter EXCEPT ![d] = s]
             /\ owner' = [owner EXCEPT ![d] = s]
             /\ StepsTo(s, "poll", d)
             /\ UNCHANGED faults
       \/ /\ IF \E d \in Daemons : Fresh(d) THEN Fault ELSE UNCHANGED faults
          /\ Ends(s, "failed")
          /\ UNCHANGED <<phase, starter, owner>>
    /\ UNCHANGED <<alive, hooks, claims, socket, histories>>

\* Any daemon that is ready ends the wait, and so does a failure record.
Poll(s) ==
    /\ pc[s] = "poll"
    /\ \/ ProbeOk /\ Ends(s, "ready")
       \/ sidecar.kind = "failed" /\ Ends(s, "failed")
    /\ UNCHANGED faults /\ OnlyCalls

\* Fifteen seconds have passed without a ready daemon: the child is signalled.
GiveUp(s) ==
    /\ pc[s] = "poll" /\ ~ProbeOk
    /\ IF Lives(target[s]) THEN Terminate(target[s])
       ELSE UNCHANGED <<phase, hooks, claims, socket>>
    /\ Ends(s, "failed")
    /\ UNCHANGED <<alive, starter, owner, sidecar, faults, histories>>

\* A server exits or crashes; its daemon and its files stay.
Exit(s) ==
    /\ s \in alive
    /\ alive' = alive \ {s}
    /\ Goes(s, "dead")
    /\ orphaned' = (orphaned \/ (pc[s] = "poll" /\ phase[target[s]] \in Booting))
    /\ UNCHANGED <<processes, files, lock, op, target, result, faults, late>>

-----------------------------------------------------------------------------
Init ==
    /\ alive = Servers
    /\ phase = [d \in Daemons |-> "unused"]
    /\ starter = [d \in Daemons |-> NoServer]
    /\ owner = [d \in Daemons |-> NoServer]
    /\ hooks = {}
    /\ claims = {}
    /\ socket = NoDaemon
    /\ sidecar = NoState
    /\ lock = NoServer
    /\ pc = [s \in Servers |-> "idle"]
    /\ op = [s \in Servers |-> "start"]
    /\ target = [s \in Servers |-> NoDaemon]
    /\ result = [s \in Servers |-> "none"]
    /\ faults = 0
    /\ orphaned = FALSE
    /\ late = FALSE

DaemonStep(d) ==
    \/ ShutdownHook(d) \/ Check(d) \/ Bind(d) \/ WriteReadyState(d)
    \/ RemoveEndpoint(d) \/ RemoveOwnState(d)

CallStep(s) ==
    \/ EnterLock(s) \/ ProbeToStart(s) \/ Confirm(s) \/ ProbeToStop(s)
    \/ Claim(s) \/ LoseClaim(s) \/ RequestShutdown(s) \/ Signal(s) \/ AwaitExit(s)
    \/ Judge(s) \/ Inspect(s) \/ Unlink(s) \/ Spawn(s) \/ Poll(s) \/ GiveUp(s)

Next ==
    \/ \E s \in Servers : CallStart(s) \/ CallStop(s) \/ CallStep(s) \/ Exit(s)
    \/ \E d \in Daemons : DaemonStep(d) \/ FailValidation(d) \/ Crash(d) \/ Interrupt(d)
    \/ \E c \in claims : PersistClaim(c) \/ AnswerClaim(c)

Spec == Init /\ [][Next]_vars

\* Every wait of a call has a deadline and every daemon is scheduled.
FairSpec ==
    /\ Spec
    /\ \A s \in Servers : WF_vars(CallStep(s))
    /\ \A d \in Daemons : WF_vars(DaemonStep(d))
    /\ WF_vars(\E c \in claims : PersistClaim(c) \/ AnswerClaim(c))

-----------------------------------------------------------------------------
(* Properties.                                                             *)

Claims == [daemon : Daemons, server : Servers, written : BOOLEAN]
Sidecars ==
    [kind : {"ready", "failed"}, daemon : Daemons, owner : Servers] \cup {NoState}

\* Every variable has its type; only used daemons hold a claim, a hook, the
\* socket or the sidecar, and a daemon is probed, claimed or awaited only by a
\* server that holds the lock.
TypeOK ==
    /\ alive \subseteq Servers
    /\ phase \in [Daemons -> Phases]
    /\ starter \in [Daemons -> Servers \cup {NoServer}]
    /\ owner \in [Daemons -> Servers \cup {NoServer}]
    /\ hooks \subseteq Daemons
    /\ claims \subseteq Claims
    /\ socket \in Daemons \cup {NoDaemon}
    /\ sidecar \in Sidecars
    /\ lock \in Servers \cup {NoServer}
    /\ pc \in [Servers -> Places]
    /\ op \in [Servers -> {"start", "stop"}]
    /\ target \in [Servers -> Daemons \cup {NoDaemon}]
    /\ result \in [Servers -> {"none", "ready", "stopped", "failed"}]
    /\ faults \in 0 .. MaxFaults
    /\ orphaned \in BOOLEAN /\ late \in BOOLEAN
    /\ \A s \in alive : pc[s] \notin {"idle", "lock", "dead"} => lock = s
    /\ \A d \in Daemons : phase[d] # "unused" <=> starter[d] # NoServer

\* A profile has one daemon process, whatever crashes, times out or is claimed
\* meanwhile: start never spawns beside a live one (supervisor.js start,
\* requestDaemonShutdown).  The exception is the daemon of a server that died
\* while it booted, of which nothing on disk tells the next server.
OneDaemonUnlessOrphaned ==
    ~orphaned => \A d, e \in Daemons : Lives(d) /\ Lives(e) => d = e

\* A daemon that runs can be found: its socket is at the endpoint and its record
\* in the sidecar, so the next server reuses it instead of failing for as long
\* as it lives (start, recoverVerifiedStaleEndpoint, removeStaleState).
RunningIsReachable ==
    ~orphaned => \A d \in Daemons :
        phase[d] = "running" =>
            socket = d /\ sidecar.kind = "ready" /\ sidecar.daemon = d

\* A server signals or shuts down only a daemon that is its own or whose owner
\* is dead (requestDaemonShutdown, stop: a stale server terminates nothing).  Two
\* histories are excepted: an orphaned daemon, where the one probed, the one that
\* accepts the claim and the one signalled may differ, and a claim that outlasted
\* its caller's wait, which LiveOwnerKeepsDaemon is about.
TerminatesOnlyItsOwn ==
    [][\A s \in alive :
          ~orphaned /\ ~late /\ pc[s] \in {"shutdown", "signal", "poll"} /\ pc'[s] # pc[s] =>
          \A d \in Daemons :
             (d \in hooks' /\ d \notin hooks) \/ (Lives(d) /\ phase'[d] # phase[d]) =>
                 owner[d] = s \/ owner[d] \notin alive]_vars

\* When a stop reports that it stopped the daemon, no daemon process is left to
\* hold sessions or write their files (stop: the pid is awaited inside the lock).
StopLeavesNothing ==
    [][\A s \in alive :
          result'[s] = "stopped" /\ op[s] = "stop" /\ pc[s] # "idle" /\ pc'[s] = "idle"
          /\ ~orphaned => \A d \in Daemons : ~Lives(d)]_vars

\* Every call of a live server ends: neither a lock, a silent daemon nor one
\* that never gets ready holds it for ever (withOperationLock, start).
CallsEnd ==
    \A s \in Servers : pc[s] \notin {"idle", "dead"} ~> pc[s] \in {"idle", "dead"}

\* DOCUMENTATION.md: a lease is released "after idle disposal, deletion,
\* replacement, or daemon shutdown": a daemon asked to stop finishes disposing
\* before its process exits.
ShutdownIsComplete == \A d \in Daemons : phase[d] # "cut"

\* DOCUMENTATION.md: "Ownership transfers through authenticated `runtime.claim`
\* only after the previous server PID is no longer live".  runtime.claim looks at
\* the owner, awaits the sidecar and then assigns the owner.
LiveOwnerKeepsDaemon ==
    [][\A d \in Daemons :
          Lives(d) /\ owner[d] \in alive => owner'[d] = owner[d]]_vars

\* DOCUMENTATION.md: "After a forced crash, the next health, request, or
\* subscription probe re-runs supervised startup": the socket a dead daemon
\* leaves is always one that the supervisor can verify as stale.
CrashedEndpointIsRecoverable ==
    socket # NoDaemon /\ ~Lives(socket) => sidecar.daemon # NoDaemon
=============================================================================
