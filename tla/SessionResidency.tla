--------------------------- MODULE SessionResidency ---------------------------
(***************************************************************************)
(* Which daemon may hold the Pi runtime of a session.  Daemons that share  *)
(* an agent directory share its session files and one lease per session;   *)
(* within a daemon the runtime registry holds one runtime per session.     *)
(* Requests open, create, fork and delete sessions, answer for a directory *)
(* with whatever runtime is resident or started for it, and a timer        *)
(* disposes idle runtimes.  Every await of these paths is a step boundary. *)
(*                                                                         *)
(* One directory.  A runtime is named by the request that creates it, and  *)
(* a request that joins another one's start is left out: it has no effect. *)
(* The lease operations run under CrossProcessLock and are single steps.   *)
(***************************************************************************)
EXTENDS Naturals, FiniteSets

CONSTANTS
    Daemons,     \* daemon processes; a restarted one is another daemon
    Sessions,    \* session ids
    Requests,    \* requests, each served once
    Stored,      \* sessions with a file at the start
    MayCrash     \* may a daemon process die?

NoSession == "no session"
NoDaemon == "no daemon"
NoRuntime == "no runtime"

ASSUME ResidencyAssumption ==
    /\ Stored \subseteq Sessions
    /\ MayCrash \in BOOLEAN
    /\ NoSession \notin Sessions
    /\ NoDaemon \notin Daemons
    /\ NoRuntime \notin Requests

VARIABLES
    alive,      \* daemons whose pid answers a signal
    files,      \* sessions whose JSONL exists
    lease,      \* per session: the daemon its lease file names
    registry,   \* per daemon and session: the registered runtime
    runtimes,   \* the session of each runtime
    live,       \* runtimes that are not disposed
    active,     \* per daemon: its `runtime`
    dormant,    \* per daemon: the session of its `dormantSession`
    request,    \* what each request does and awaits
    disposal,   \* per daemon and session: the idle disposal in flight
    history     \* what the properties ask of the past: see Histories

vars == <<alive, files, lease, registry, runtimes, live, active, dormant, request,
          disposal, history>>
shared == <<alive, files, lease>>
resident == <<registry, runtimes, live, active, dormant>>

NotServed == [op |-> "none", daemon |-> NoDaemon, session |-> NoSession, step |-> "free",
              runtime |-> NoRuntime, leased |-> NoSession, adopts |-> FALSE]
NoDisposal == [step |-> "none", runtime |-> NoRuntime, ephemeral |-> FALSE]

Serving(c) == request[c].step \notin {"free", "done"}
SessionRequests(d, s) ==
    {c \in Requests : /\ Serving(c) /\ request[c].daemon = d /\ request[c].session = s
                      /\ request[c].op \in {"open", "fork", "delete"}}

\* A request's next await, with the fields it changes.
Goes(c, r) == request' = [request EXCEPT ![c] = r]
GoesTo(c, step) == Goes(c, [request[c] EXCEPT !.step = step])

Fresh == Sessions \ history.used

-----------------------------------------------------------------------------
(* The lease. *)

\* Mutant: ownership compares the profile, which the daemons share.
HeldElsewhere_sameProfile(d, s) == FALSE

\* Another process, alive, owns the lease.
HeldElsewhere(d, s) == lease[s] \in alive \ {d}

\* Others of this daemon that rely on its lease on s.
Relying(d, s, except) ==
    \/ registry[d][s] # NoRuntime
    \/ \E c \in Requests \ except :
          /\ request[c].daemon = d /\ request[c].leased = s
          /\ request[c].step \in {"create", "setup", "lose"}

\* releaseResidentLease: only a lease of its own, whoever else relies on it.
Release(d, s, relied) ==
    /\ lease' = [lease EXCEPT ![s] = IF @ = d THEN NoDaemon ELSE @]
    /\ history' = [history EXCEPT !.lapsed = IF relied THEN @ \cup {<<d, s>>} ELSE @]

\* acquireResidentLease: the request goes on with the lease, or is refused.
TryLease(c, next) ==
    LET d == request[c].daemon
        s == request[c].leased
    IN  \/ HeldElsewhere(d, s) /\ GoesTo(c, "done") /\ UNCHANGED lease
        \/ ~HeldElsewhere(d, s) /\ GoesTo(c, next) /\ lease' = [lease EXCEPT ![s] = d]

Acquire(c) ==
    /\ request[c].step = "lease"
    /\ TryLease(c, CASE request[c].op = "create" -> "setup"
                     [] request[c].op = "delete" -> "remove"
                     [] OTHER -> "create")
    /\ live' = IF request[c].op = "create" /\ request'[c].step = "done" THEN live \ {c} ELSE live
    /\ UNCHANGED <<alive, files, registry, runtimes, active, dormant, disposal, history>>

\* releaseResidentLease at the "release" step.
ReleaseOwn(c) ==
    LET d == request[c].daemon
        s == request[c].leased
    IN  /\ request[c].step = "release"
        /\ Release(d, s, Relying(d, s, {c}) \/ disposal[d][s] # NoDisposal)
        /\ GoesTo(c, "done")
        /\ UNCHANGED <<alive, files, resident, disposal>>

-----------------------------------------------------------------------------
(* Opening a session: activateSession. *)

\* The synchronous part: adopt what is resident, or look for the file.
LookUp(c, r) ==
    LET d == r.daemon
        found == registry[d][r.session]
    IN  IF found # NoRuntime
        THEN /\ Goes(c, [r EXCEPT !.step = "using", !.runtime = found])
             /\ active' = [active EXCEPT ![d] = found]
        ELSE /\ Goes(c, [r EXCEPT !.step = "find"])
             /\ UNCHANGED active

\* Mutant: an open does not wait for a disposal in flight.
Open_noWait(c, d, s, op) ==
    /\ request[c].step = "free" /\ d \in alive /\ s \in history.used
    /\ ~\E o \in SessionRequests(d, s) : /\ request[o].op # "delete"
                                         /\ request[o].step # "using"
    /\ LookUp(c, [NotServed EXCEPT !.op = op, !.daemon = d, !.session = s])
    /\ UNCHANGED <<shared, registry, runtimes, live, dormant, disposal, history>>

\* Opening, or opening to fork.  A second open of the session joins the first.
Open(c, d, s, op) ==
    /\ request[c].step = "free" /\ d \in alive /\ s \in history.used
    /\ ~\E o \in SessionRequests(d, s) : /\ request[o].op # "delete"
                                         /\ request[o].step # "using"
    /\ LET r == [NotServed EXCEPT !.op = op, !.daemon = d, !.session = s]
       IN  IF disposal[d][s] # NoDisposal
           THEN Goes(c, [r EXCEPT !.step = "wait"]) /\ UNCHANGED active
           ELSE LookUp(c, r)
    /\ UNCHANGED <<shared, registry, runtimes, live, dormant, disposal, history>>

DisposalAwaited(c) ==
    /\ request[c].step = "wait"
    /\ disposal[request[c].daemon][request[c].session] = NoDisposal
    /\ LookUp(c, request[c])
    /\ UNCHANGED <<shared, registry, runtimes, live, dormant, disposal, history>>

\* findPersistedSession, for an open and for a delete of what is not resident.
Find(c) ==
    /\ request[c].step = "find"
    /\ IF request[c].session \in files
       THEN Goes(c, [request[c] EXCEPT !.step = "lease", !.leased = request[c].session])
       ELSE GoesTo(c, "done")
    /\ UNCHANGED <<shared, resident, disposal, history>>

\* createRuntime for an open: it fails, another runtime of the session has been
\* registered meanwhile and wins, or it is registered.
CreateForOpen(c) ==
    LET d == request[c].daemon
        s == request[c].session
    IN  /\ request[c].step = "create" /\ request[c].op \in {"open", "fork"}
        /\ \/ /\ GoesTo(c, "release")
              /\ UNCHANGED resident
           \/ /\ registry[d][s] # NoRuntime
              /\ Goes(c, [request[c] EXCEPT !.step = "lose", !.runtime = registry[d][s]])
              /\ runtimes' = [runtimes EXCEPT ![c] = s] /\ live' = live \cup {c}
              /\ UNCHANGED <<registry, active, dormant>>
           \/ /\ registry[d][s] = NoRuntime
              /\ Goes(c, [request[c] EXCEPT !.step = "using", !.runtime = c])
              /\ runtimes' = [runtimes EXCEPT ![c] = s] /\ live' = live \cup {c}
              /\ registry' = [registry EXCEPT ![d][s] = c]
              /\ active' = [active EXCEPT ![d] = c]
              /\ dormant' = [dormant EXCEPT ![d] = s]
        /\ UNCHANGED <<shared, disposal, history>>

\* The loser of that race is disposed, and the winner used.
Lose(c) ==
    /\ request[c].step = "lose"
    /\ live' = live \ {c}
    /\ active' = [active EXCEPT ![request[c].daemon] = request[c].runtime]
    /\ GoesTo(c, "using")
    /\ UNCHANGED <<shared, registry, runtimes, dormant, disposal, history>>

\* What the request came for: it reads, or it makes the runtime write its file.
Use(c) ==
    LET r == request[c].runtime
    IN  /\ request[c].step = "using" /\ request[c].op = "open"
        /\ GoesTo(c, "done")
        /\ \/ UNCHANGED files
           \/ r \in live /\ files' = files \cup {runtimes[r]}
        /\ UNCHANGED <<alive, lease, resident, disposal, history>>

\* An idle disposal is tearing the runtime down.
BeingDisposed(d, r) ==
    \E s \in Sessions : disposal[d][s].step = "dispose" /\ disposal[d][s].runtime = r

\* The runtime is rebound to the session it forked.
Fork(c) ==
    LET d == request[c].daemon
        r == request[c].runtime
    IN  /\ request[c].step = "using" /\ request[c].op = "fork"
        /\ \/ /\ GoesTo(c, "done")
              /\ UNCHANGED <<files, registry, runtimes, history>>
           \/ \E s \in Fresh :
                 /\ r \in live
                 /\ registry' = [registry EXCEPT ![d][runtimes[r]] = NoRuntime, ![d][s] = r]
                 /\ runtimes' = [runtimes EXCEPT ![r] = s]
                 /\ files' \in {files, files \cup {s}}
                 /\ Goes(c, [request[c] EXCEPT !.step = "forked", !.leased = s])
                 /\ history' = [history EXCEPT !.used = @ \cup {s}, !.lapsed = @ \cup {<<d, s>>},
                                  !.strays = @ \cup {<<d, runtimes[r]>>, <<d, s>>},
                                  !.forked = @ \cup {runtimes[r], s},
                                  !.snatched = IF BeingDisposed(d, r) THEN @ \cup {r} ELSE @]
        /\ UNCHANGED <<alive, lease, live, active, dormant, disposal>>

\* Then the lease of the new session is taken; that of the source stays.
LeaseFork(c) ==
    LET d == request[c].daemon
    IN  /\ request[c].step = "forked"
        /\ TryLease(c, "done")
        /\ IF lease' = lease THEN UNCHANGED <<dormant, history>>
           ELSE /\ history' = [history EXCEPT !.lapsed = @ \ {<<d, request[c].leased>>}]
                /\ dormant' = [dormant EXCEPT ![d] =
                      IF active[d] = NoRuntime THEN @ ELSE runtimes[active[d]]]
        /\ UNCHANGED <<alive, files, registry, runtimes, live, active, disposal>>

-----------------------------------------------------------------------------
(* A request that names a directory: ensureRuntime and startRuntime. *)

Starting(d) == {c \in Requests : Serving(c) /\ request[c].op = "ensure" /\ request[c].daemon = d}

\* Nothing is resident and no start is under way: reopen the dormant session, or
\* start one of its own.
Ensure(c, d) ==
    /\ request[c].step = "free" /\ d \in alive
    /\ \A s \in Sessions : registry[d][s] = NoRuntime
    /\ Starting(d) = {}
    /\ Goes(c, [NotServed EXCEPT !.op = "ensure", !.daemon = d, !.session = dormant[d],
                                 !.step = IF dormant[d] = NoSession THEN "create" ELSE "validate",
                                 !.adopts = active[d] = NoRuntime])
    /\ UNCHANGED <<shared, resident, disposal, history>>

\* A start takes and gives up the lease of what is dormant by then, whatever it
\* began with.
Strays(d, before) ==
    IF before \in {dormant[d], NoSession} THEN {} ELSE {<<d, s>> : s \in {before, dormant[d]} \ {NoSession}}

\* The file is read, and the lease taken of what is dormant by then.
Validate(c) ==
    LET d == request[c].daemon
        now == dormant[d]
    IN  /\ request[c].step = "validate"
        /\ IF request[c].session \notin files
           THEN GoesTo(c, "done") /\ UNCHANGED history
           ELSE /\ Goes(c, [request[c] EXCEPT !.leased = now,
                              !.step = IF now = NoSession THEN "create" ELSE "lease"])
                /\ history' = [history EXCEPT !.strays = @ \cup Strays(d, request[c].session)]
        /\ UNCHANGED <<shared, resident, disposal>>

\* createRuntime for a start: it fails and gives up the lease of what is dormant
\* now, collides with a runtime registered meanwhile and is left behind, or is
\* registered; a session of its own has no lease.
CreateForStart(c) ==
    LET d == request[c].daemon
        r == request[c]
    IN  /\ r.step = "create" /\ r.op = "ensure"
        /\ \/ /\ IF r.session # NoSession /\ dormant[d] # NoSession
                 THEN Goes(c, [r EXCEPT !.step = "release", !.leased = dormant[d]])
                 ELSE GoesTo(c, "done")
              /\ history' = [history EXCEPT !.strays = @ \cup Strays(d, r.leased)]
              /\ UNCHANGED resident
           \/ \E s \in IF r.session = NoSession THEN Fresh ELSE {r.session} :
                 /\ GoesTo(c, "done")
                 /\ runtimes' = [runtimes EXCEPT ![c] = s] /\ live' = live \cup {c}
                 /\ IF registry[d][s] # NoRuntime
                    THEN UNCHANGED <<registry, active, dormant>>
                    ELSE /\ registry' = [registry EXCEPT ![d][s] = c]
                         /\ IF r.adopts
                            THEN /\ active' = [active EXCEPT ![d] = c]
                                 /\ dormant' = [dormant EXCEPT ![d] = s]
                            ELSE UNCHANGED <<active, dormant>>
                 /\ history' = [history EXCEPT !.used = @ \cup {s},
                                  !.lapsed = IF r.leased = s THEN @ ELSE @ \cup {<<d, s>>}]
        /\ UNCHANGED <<shared, disposal>>

-----------------------------------------------------------------------------
(* Creating and deleting sessions. *)

\* createSession: a fresh runtime, its lease, its model and thinking level, and
\* only then the registry.
Create(c, d) ==
    /\ request[c].step = "free" /\ d \in alive
    /\ \E s \in Fresh :
          /\ runtimes' = [runtimes EXCEPT ![c] = s] /\ live' = live \cup {c}
          /\ Goes(c, [NotServed EXCEPT !.op = "create", !.daemon = d, !.session = s,
                                       !.step = "lease", !.leased = s])
          /\ history' = [history EXCEPT !.used = @ \cup {s}]
    /\ UNCHANGED <<shared, registry, active, dormant, disposal>>

\* Mutant: a create that fails after its lease does not give it up.
SetUp_keepsLease(c) ==
    LET d == request[c].daemon
        s == request[c].session
    IN  /\ request[c].step = "setup"
        /\ \/ /\ GoesTo(c, "done")
              /\ live' = live \ {c}
              /\ UNCHANGED <<registry, active, dormant>>
           \/ /\ GoesTo(c, "done")
              /\ IF registry[d][s] # NoRuntime
                 THEN UNCHANGED <<registry, active, dormant>>
                 ELSE /\ registry' = [registry EXCEPT ![d][s] = c]
                      /\ active' = [active EXCEPT ![d] = c]
                      /\ dormant' = [dormant EXCEPT ![d] = s]
              /\ UNCHANGED live
        /\ UNCHANGED <<shared, runtimes, disposal, history>>

\* Setting up fails, or the runtime is registered: not over another one.
SetUp(c) ==
    LET d == request[c].daemon
        s == request[c].session
    IN  /\ request[c].step = "setup"
        /\ \/ /\ GoesTo(c, "release")
              /\ live' = live \ {c}
              /\ UNCHANGED <<registry, active, dormant>>
           \/ /\ GoesTo(c, "done")
              /\ IF registry[d][s] # NoRuntime
                 THEN UNCHANGED <<registry, active, dormant>>
                 ELSE /\ registry' = [registry EXCEPT ![d][s] = c]
                      /\ active' = [active EXCEPT ![d] = c]
                      /\ dormant' = [dormant EXCEPT ![d] = s]
              /\ UNCHANGED live
        /\ UNCHANGED <<shared, runtimes, disposal, history>>

Delete(c, d, s) ==
    /\ request[c].step = "free" /\ d \in alive /\ s \in history.used
    /\ LET found == registry[d][s]
       IN  Goes(c, [NotServed EXCEPT !.op = "delete", !.daemon = d, !.session = s,
                      !.runtime = found, !.step = IF found = NoRuntime THEN "find" ELSE "dispose",
                      !.leased = IF found = NoRuntime THEN NoSession ELSE s])
    /\ UNCHANGED <<shared, resident, disposal, history>>

\* A runtime is torn down and its identity removed from the registry, whatever is
\* registered under it by then.
Disposed(d, r) ==
    /\ live' = live \ {r}
    /\ registry' = [registry EXCEPT ![d][runtimes[r]] = NoRuntime]

\* The idle timer may have disposed of it already.
DisposeForDelete(c) ==
    LET d == request[c].daemon
        r == request[c].runtime
    IN  /\ request[c].step = "dispose"
        /\ \/ Disposed(d, r)
           \/ registry[d][request[c].session] # r /\ UNCHANGED <<registry, live>>
        /\ active' = [active EXCEPT ![d] = IF @ = r THEN NoRuntime ELSE @]
        /\ GoesTo(c, "remove")
        /\ history' = [history EXCEPT !.deleted = @ \cup {runtimes[r]}]
        /\ UNCHANGED <<shared, runtimes, dormant, disposal>>

\* rm; it fails when the file of a session that was not resident is gone.
Remove(c) ==
    LET s == request[c].session
    IN  /\ request[c].step = "remove"
        /\ files' = files \ {s}
        /\ history' = [history EXCEPT !.deleted =
                          IF s \in files \/ request[c].runtime # NoRuntime THEN @ \cup {s} ELSE @]
        /\ GoesTo(c, "release")
        /\ UNCHANGED <<alive, lease, resident, disposal>>

-----------------------------------------------------------------------------
(* The idle timer: disposeIdleSessionRuntime. *)

\* No request of the session is in flight; a fork is about its new session too.
IdleSafe(d, s) ==
    /\ SessionRequests(d, s) = {}
    /\ ~\E c \in Requests : Serving(c) /\ request[c].daemon = d /\ request[c].op = "fork"
                              /\ request[c].leased = s

Dispose(d, s) ==
    /\ registry[d][s] # NoRuntime
    /\ disposal[d][s] = NoDisposal
    /\ IdleSafe(d, s)
    /\ disposal' = [disposal EXCEPT ![d][s] =
                      [NoDisposal EXCEPT !.step = "dispose", !.runtime = registry[d][s]]]
    /\ dormant' = [dormant EXCEPT ![d] = IF active[d] = registry[d][s] THEN s ELSE @]
    /\ UNCHANGED <<shared, registry, runtimes, live, active, request, history>>

\* A failed disposal keeps the registration and the lease.
DisposeIdle(d, s) ==
    /\ disposal[d][s].step = "dispose"
    /\ \/ /\ Disposed(d, disposal[d][s].runtime)
          /\ disposal' = [disposal EXCEPT ![d][s].step = "stat"]
       \/ /\ disposal' = [disposal EXCEPT ![d][s] = NoDisposal]
          /\ UNCHANGED <<registry, live>>
    /\ UNCHANGED <<shared, runtimes, active, dormant, request, history>>

Stat(d, s) ==
    /\ disposal[d][s].step = "stat"
    /\ disposal' = [disposal EXCEPT ![d][s].step = "release", ![d][s].ephemeral = s \notin files]
    /\ UNCHANGED <<shared, resident, request, history>>

\* Mutant: a session that expires unwritten stays the dormant one.
ReleaseIdle_keepsDormant(d, s) ==
    /\ disposal[d][s].step = "release"
    /\ Release(d, s, Relying(d, s, {}))
    /\ active' = [active EXCEPT ![d] = IF @ = disposal[d][s].runtime THEN NoRuntime ELSE @]
    /\ disposal' = [disposal EXCEPT ![d][s] = NoDisposal]
    /\ UNCHANGED <<alive, files, registry, runtimes, live, dormant, request>>

ReleaseIdle(d, s) ==
    LET expired == disposal[d][s].ephemeral /\ lease[s] = d
    IN  /\ disposal[d][s].step = "release"
        /\ Release(d, s, Relying(d, s, {}))
        /\ active' = [active EXCEPT ![d] = IF @ = disposal[d][s].runtime THEN NoRuntime ELSE @]
        /\ dormant' = [dormant EXCEPT ![d] = IF expired /\ @ = s THEN NoSession ELSE @]
        /\ disposal' = [disposal EXCEPT ![d][s] = NoDisposal]
        /\ UNCHANGED <<alive, files, registry, runtimes, live, request>>

-----------------------------------------------------------------------------

\* A daemon process dies: its runtimes with it, its leases by its pid.
Crash(d) ==
    /\ MayCrash
    /\ d \in alive
    /\ alive' = alive \ {d}
    /\ live' = {c \in live : request[c].daemon # d}
    /\ registry' = [registry EXCEPT ![d] = [s \in Sessions |-> NoRuntime]]
    /\ active' = [active EXCEPT ![d] = NoRuntime]
    /\ dormant' = [dormant EXCEPT ![d] = NoSession]
    /\ request' = [c \in Requests |-> IF request[c].daemon = d
                                      THEN [request[c] EXCEPT !.step = "done"] ELSE request[c]]
    /\ disposal' = [disposal EXCEPT ![d] = [s \in Sessions |-> NoDisposal]]
    /\ UNCHANGED <<files, lease, runtimes, history>>

Init ==
    /\ alive = Daemons
    /\ files = Stored
    /\ lease = [s \in Sessions |-> NoDaemon]
    /\ registry = [d \in Daemons |-> [s \in Sessions |-> NoRuntime]]
    /\ runtimes = [c \in Requests |-> NoSession]
    /\ live = {}
    /\ active = [d \in Daemons |-> NoRuntime]
    /\ dormant = [d \in Daemons |-> NoSession]
    /\ request = [c \in Requests |-> NotServed]
    /\ disposal = [d \in Daemons |-> [s \in Sessions |-> NoDisposal]]
    /\ history = [used |-> Stored, deleted |-> {}, lapsed |-> {}, strays |-> {},
                  forked |-> {}, snatched |-> {}]

Arrives(c) ==
    \E d \in Daemons :
        \/ Ensure(c, d)
        \/ Create(c, d)
        \/ \E s \in Sessions : \/ Delete(c, d, s)
                               \/ \E op \in {"open", "fork"} : Open(c, d, s, op)

Proceeds(c) ==
    \/ DisposalAwaited(c) \/ Find(c) \/ Acquire(c) \/ CreateForOpen(c) \/ Lose(c)
    \/ Use(c) \/ Fork(c) \/ LeaseFork(c) \/ Validate(c) \/ CreateForStart(c) \/ SetUp(c)
    \/ DisposeForDelete(c) \/ Remove(c) \/ ReleaseOwn(c)

IdleTimer(d, s) == Dispose(d, s) \/ DisposeIdle(d, s) \/ Stat(d, s) \/ ReleaseIdle(d, s)

Next ==
    \/ \E c \in Requests : Arrives(c) \/ Proceeds(c)
    \/ \E d \in Daemons, s \in Sessions : IdleTimer(d, s)
    \/ \E d \in Daemons : Crash(d)

Spec == Init /\ [][Next]_vars
-----------------------------------------------------------------------------
(* Properties. *)

Steps == {"free", "wait", "find", "lease", "create", "lose", "using", "forked", "validate", "setup",
          "dispose", "remove", "release", "done"}
RequestStates ==
    [op : {"none", "open", "fork", "ensure", "create", "delete"},
     daemon : Daemons \cup {NoDaemon}, session : Sessions \cup {NoSession}, step : Steps,
     runtime : Requests \cup {NoRuntime}, leased : Sessions \cup {NoSession},
     adopts : BOOLEAN]
Disposals ==
    [step : {"none", "dispose", "stat", "release"}, runtime : Requests \cup {NoRuntime},
     ephemeral : BOOLEAN]
\* Ids in use, deleted sessions, residents without lease, leases without a use, the
\* sources and results of forks, runtimes that a fork rebound under their disposal.
Histories ==
    [used : SUBSET Sessions, deleted : SUBSET Sessions,
     lapsed : SUBSET (Daemons \X Sessions), strays : SUBSET (Daemons \X Sessions),
     forked : SUBSET Sessions, snatched : SUBSET Requests]

\* Types; and a registered runtime is one of its daemon, of the session it is
\* registered under.
TypeOK ==
    /\ alive \subseteq Daemons /\ files \subseteq history.used /\ live \subseteq Requests
    /\ lease \in [Sessions -> Daemons \cup {NoDaemon}]
    /\ registry \in [Daemons -> [Sessions -> Requests \cup {NoRuntime}]]
    /\ runtimes \in [Requests -> Sessions \cup {NoSession}]
    /\ active \in [Daemons -> Requests \cup {NoRuntime}]
    /\ dormant \in [Daemons -> Sessions \cup {NoSession}]
    /\ request \in [Requests -> RequestStates]
    /\ disposal \in [Daemons -> [Sessions -> Disposals]]
    /\ history \in Histories
    /\ \A d \in Daemons, s \in Sessions :
          registry[d][s] # NoRuntime =>
             /\ runtimes[registry[d][s]] = s
             /\ request[registry[d][s]].daemon = d

Resident(d, s) == registry[d][s] # NoRuntime

\* "The same session may not be resident in two PiChamber daemons."
OneResident ==
    \A s \in Sessions, d, e \in Daemons : Resident(d, s) /\ Resident(e, s) => d = e

\* Two daemons hold one session only after one of them gave up its lease under
\* a runtime of its own, or registered a runtime without one.
OneResidentUnlessLapsed ==
    \A s \in Sessions, d, e \in Daemons :
        Resident(d, s) /\ Resident(e, s) /\ d # e =>
            <<d, s>> \in history.lapsed \/ <<e, s>> \in history.lapsed

\* A request never works on a runtime that was disposed, unless a delete did it or
\* a fork took the runtime from under the request: an open waits for an idle
\* disposal and reopens from the file.
RequestsUseLiveRuntimes ==
    \A c \in Requests :
        request[c].step = "using" /\ runtimes[request[c].runtime] = request[c].session =>
            \/ request[c].runtime \in live
            \/ request[c].runtime \in history.snatched
            \/ \E o \in Requests : request[o].op = "delete" /\ request[o].runtime = request[c].runtime

\* A live daemon holds no lease without a use for it, so that no session is in
\* use elsewhere for ever: but the source of a fork keeps its lease, and so does
\* its result when the runtime is deleted meanwhile, and a start that reopens may
\* take or give up the lease of another session that became dormant meanwhile.
LeaseAccounted ==
    \A s \in Sessions :
        lease[s] \in alive =>
            \/ Resident(lease[s], s)
            \/ disposal[lease[s]][s] # NoDisposal
            \/ \E c \in Requests : /\ Serving(c) /\ request[c].daemon = lease[s]
                                    /\ request[c].leased = s
            \/ <<lease[s], s>> \in history.strays

\* The lease is "released after idle disposal, deletion, replacement, or daemon
\* shutdown": forking replaces the session of a runtime.
LeaseReleased ==
    \A s \in Sessions :
        lease[s] \in alive =>
            \/ Resident(lease[s], s)
            \/ disposal[lease[s]][s] # NoDisposal
            \/ \E c \in Requests : Serving(c) /\ request[c].daemon = lease[s]

\* Nothing is resident in a daemon and nothing under way.
Quiet(d) ==
    /\ \A s \in Sessions : registry[d][s] = NoRuntime /\ disposal[d][s] = NoDisposal
    /\ \A c \in Requests : Serving(c) => request[c].daemon # d

\* A request that names a directory is answered by a runtime "started when none is"
\* resident: the dormant session it reopens has a file, or there is none to reopen.
DormantReopens ==
    \A d \in alive : Quiet(d) => dormant[d] \in files \cup {NoSession}

\* Only a deletion leaves a dormant session without a file, or a fork of one never
\* written, or the expiry of one that never had a lease: a session that expires
\* unwritten is forgotten.
DormantReopensUnlessDeleted ==
    \A d \in alive :
        Quiet(d) => \/ dormant[d] \in files \cup {NoSession} \cup history.deleted \cup history.forked
                    \/ <<d, dormant[d]>> \in history.lapsed
=============================================================================
