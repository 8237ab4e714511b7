----------------------- MODULE SessionResidency_proofs -----------------------
(***************************************************************************)
(* For any number of daemons, sessions and requests: two daemons hold one  *)
(* session only after one of them gave up its lease; a request works on a  *)
(* live runtime; a lease is held for a reason; what is dormant can be      *)
(* reopened.                                                               *)
(*                                                                         *)
(* OneResidentUnlessLapsed compares two daemons and is not inductive.      *)
(* What is: whoever has a session registered, or is about to register it,  *)
(* is alive and holds its lease or has lapsed.  A lease names one daemon,  *)
(* so two residents cannot both hold it; it is taken only from the dead,   *)
(* who have nothing registered; and whoever gives it up while another      *)
(* request of the daemon relies on it is noted as lapsed.                  *)
(*                                                                         *)
(* The other three need each other, and are parts of WholeInv: which       *)
(* runtime a request, a disposal, the registry and the active pointer of a *)
(* daemon name, that it is of the session they took it for unless a fork   *)
(* rebound it, and that no request works on a session while an idle        *)
(* disposal of it is under way.                                            *)
(***************************************************************************)
EXTENDS SessionResidency, TLAPS

Registries == [Daemons -> [Sessions -> Requests \cup {NoRuntime}]]

Types ==
    /\ alive \subseteq Daemons
    /\ lease \in [Sessions -> Daemons \cup {NoDaemon}]
    /\ registry \in Registries
    /\ runtimes \in [Requests -> Sessions \cup {NoSession}]
    /\ active \in [Daemons -> Requests \cup {NoRuntime}]
    /\ dormant \in [Daemons -> Sessions \cup {NoSession}]
    /\ history = [used |-> history.used, deleted |-> history.deleted,
                  lapsed |-> history.lapsed, strays |-> history.strays,
                  forked |-> history.forked, snatched |-> history.snatched]

\* Which daemon holds the lease of which session, or went on without it.
Holding == {<<lease[s], s>> : s \in Sessions} \cup history.lapsed

ResidentHeld ==
    \A d \in Daemons, s \in Sessions :
        registry[d][s] # NoRuntime => d \in alive /\ <<d, s>> \in Holding

\* A request that is served is one of a living daemon (a), has at each await the
\* session and the lease that await is about, and holds the lease (h) of the
\* session it is about to register.
Sound(r, a, h) ==
    /\ r.step \notin {"free", "done"} => r.daemon \in a
    /\ r.step \in {"wait", "find"} => r.session \in Sessions
    /\ r.step \in {"lease", "setup", "forked"} => r.leased \in Sessions
    /\ r.step = "setup" => r.op = "create"
    /\ r.step = "validate" => r.op = "ensure"
    /\ r.step \in {"lease", "setup"} /\ r.op = "create" => r.leased = r.session
    /\ r.step \in {"lease", "create"} /\ r.op \in {"open", "fork"} =>
          r.session \in Sessions /\ r.leased = r.session
    /\ r.step \in {"create", "setup"} /\ r.leased # NoSession => <<r.daemon, r.leased>> \in h

IInv ==
    /\ Types
    /\ ResidentHeld
    /\ request \in [Requests -> RequestStates]
    /\ \A c \in Requests : Sound(request[c], alive, Holding)

-----------------------------------------------------------------------------
\* What a request's record is after some of its fields changed.
LEMMA Fields ==
    ASSUME NEW r \in RequestStates, NEW x \in Steps,
           NEW y \in Requests \cup {NoRuntime}, NEW z \in Sessions \cup {NoSession}
    PROVE  /\ [r EXCEPT !.step = x] \in RequestStates
           /\ [r EXCEPT !.step = x, !.runtime = y] \in RequestStates
           /\ [r EXCEPT !.step = x, !.leased = z] \in RequestStates
           /\ [r EXCEPT !.leased = z, !.step = x] \in RequestStates
BY DEF RequestStates

\* register and remove change one entry.
Put(f, d, s, r) == [f EXCEPT ![d][s] = r]

LEMMA OneEntry ==
    ASSUME NEW f \in Registries, NEW d, NEW s, NEW r \in Requests \cup {NoRuntime}
    PROVE  /\ Put(f, d, s, r) \in Registries
           /\ \A e \in Daemons, t \in Sessions :
                 \/ Put(f, d, s, r)[e][t] = f[e][t]
                 \/ Put(f, d, s, r)[e][t] = r /\ e = d /\ t = s
<1>1. CASE d \in Daemons
  <2>1. [f[d] EXCEPT ![s] = r] \in [Sessions -> Requests \cup {NoRuntime}]
    BY <1>1 DEF Registries
  <2> QED BY <1>1, <2>1 DEF Registries, Put
<1>2. CASE d \notin Daemons
  BY <1>2 DEF Registries, Put
<1> QED BY <1>1, <1>2

\* A step of request c keeps the invariant if whoever relies on a lease besides c
\* still holds it, and what is registered anew is held.
LEMMA Moves ==
    ASSUME IInv, NEW c \in Requests, NEW u \in RequestStates,
           request' = [request EXCEPT ![c] = u],
           alive' = alive,
           Types',
           \A d \in alive, s \in Sessions :
              <<d, s>> \in Holding /\ Relying(d, s, {c}) => <<d, s>> \in Holding',
           \A d \in Daemons, s \in Sessions :
              registry'[d][s] # NoRuntime =>
                 registry[d][s] # NoRuntime \/ (d \in alive /\ <<d, s>> \in Holding'),
           Sound(u, alive, Holding')
    PROVE  IInv'
<1>1. /\ request' \in [Requests -> RequestStates]
      /\ request'[c] = u
      /\ \A x \in Requests \ {c} : request'[x] = request[x]
  BY DEF IInv
<1>2. ResidentHeld'
  BY DEF IInv, Types, ResidentHeld, Relying
<1>3. ASSUME NEW x \in Requests
      PROVE  Sound(request'[x], alive', Holding')
  <2>1. CASE x = c
    BY <1>1, <2>1
  <2>2. CASE x # c
    <3>1. Sound(request[x], alive, Holding) /\ request'[x] = request[x]
      BY <1>1, <2>2 DEF IInv
    <3>2. ASSUME request[x].step \in {"create", "setup"}, request[x].leased # NoSession
          PROVE  <<request[x].daemon, request[x].leased>> \in Holding'
      <4>1. /\ <<request[x].daemon, request[x].leased>> \in Holding
            /\ request[x].daemon \in alive
        BY <3>1, <3>2 DEF Sound
      <4>2. request[x].leased \in Sessions
        BY <3>2, ResidencyAssumption DEF IInv, RequestStates
      <4>3. Relying(request[x].daemon, request[x].leased, {c})
        BY <2>2, <3>2 DEF Relying
      <4> QED BY <4>1, <4>2, <4>3
    <3> QED BY <3>1, <3>2 DEF Sound
  <2> QED BY <2>1, <2>2
<1> QED BY <1>1, <1>2, <1>3 DEF IInv

\* Most steps leave the leases alone, and note more lapses if any.
LEMMA MovesQuietly ==
    ASSUME IInv, NEW c \in Requests, NEW u \in RequestStates,
           request' = [request EXCEPT ![c] = u],
           UNCHANGED <<alive, lease>>,
           history.lapsed \subseteq history'.lapsed,
           Types',
           \A d \in Daemons, s \in Sessions :
              registry'[d][s] # NoRuntime =>
                 registry[d][s] # NoRuntime \/ (d \in alive /\ <<d, s>> \in Holding'),
           Sound(u, alive, Holding)
    PROVE  IInv'
<1>1. Holding \subseteq Holding'
  BY DEF Holding
<1>2. Sound(u, alive, Holding')
  BY <1>1 DEF Sound
<1> QED BY <1>1, <1>2, Moves

\* And most of those register nothing.
LEMMA MovesAside ==
    ASSUME IInv, NEW c \in Requests, NEW u \in RequestStates,
           request' = [request EXCEPT ![c] = u],
           UNCHANGED <<alive, lease, registry, history>>,
           runtimes' \in [Requests -> Sessions \cup {NoSession}],
           active' \in [Daemons -> Requests \cup {NoRuntime}],
           dormant' \in [Daemons -> Sessions \cup {NoSession}],
           Sound(u, alive, Holding)
    PROVE  IInv'
<1>1. Types'
  BY DEF IInv, Types
<1> QED BY <1>1, MovesQuietly

-----------------------------------------------------------------------------
(* Opening and using. *)

\* What the invariant says of the request whose step it is.
LEMMA OfRequest ==
    ASSUME IInv, NEW c \in Requests
    PROVE  /\ request[c] \in RequestStates
           /\ request[c].op \in {"none", "open", "fork", "ensure", "create", "delete"}
           /\ request[c].daemon \in Daemons \cup {NoDaemon}
           /\ request[c].session \in Sessions \cup {NoSession}
           /\ request[c].runtime \in Requests \cup {NoRuntime}
           /\ request[c].leased \in Sessions \cup {NoSession}
           /\ request[c].step \notin {"free", "done"} => request[c].daemon \in alive
           /\ request[c].daemon \in alive => request[c].daemon \in Daemons
           /\ Sound(request[c], alive, Holding)
BY DEF IInv, Types, RequestStates, Sound

\* Ending, or going on to a step at which nothing is registered or held.
LEMMA GoesOn ==
    ASSUME IInv, NEW c \in Requests,
           NEW x \in {"using", "done", "dispose", "remove", "release"},
           x = "done" \/ request[c].step \notin {"free", "done"}
    PROVE  LET u == [request[c] EXCEPT !.step = x]
           IN  u \in RequestStates /\ Sound(u, alive, Holding)
<1>1. x \in Steps
  BY DEF Steps
<1> QED BY <1>1, OfRequest, Fields DEF Sound, RequestStates

LEMMA LookUpKeeps ==
    ASSUME IInv, NEW c \in Requests, NEW r \in RequestStates,
           r.daemon \in alive, r.session \in Sessions,
           LookUp(c, r),
           UNCHANGED <<shared, registry, runtimes, live, dormant, disposal, history>>
    PROVE  IInv'
<1> DEFINE found == registry[r.daemon][r.session]
<1>1. r.daemon \in Daemons /\ found \in Requests \cup {NoRuntime}
  BY DEF IInv, Types, Registries
<1>2. CASE found # NoRuntime
  <2> DEFINE u == [r EXCEPT !.step = "using", !.runtime = found]
  <2>1. u \in RequestStates
    BY <1>1, Fields DEF Steps
  <2>2. Sound(u, alive, Holding)
    BY <1>1 DEF Sound, RequestStates
  <2>3. /\ request' = [request EXCEPT ![c] = u]
        /\ active' \in [Daemons -> Requests \cup {NoRuntime}]
    BY <1>1, <1>2 DEF LookUp, Goes, IInv, Types, Registries
  <2> QED BY <2>1, <2>2, <2>3, MovesAside DEF shared, IInv, Types
<1>3. CASE found = NoRuntime
  <2> DEFINE u == [r EXCEPT !.step = "find"]
  <2>1. u \in RequestStates
    BY Fields DEF Steps
  <2>2. Sound(u, alive, Holding)
    BY DEF Sound, RequestStates
  <2>3. request' = [request EXCEPT ![c] = u] /\ active' = active
    BY <1>3 DEF LookUp, Goes
  <2> QED BY <2>1, <2>2, <2>3, MovesAside DEF shared, IInv, Types
<1> QED BY <1>2, <1>3

LEMMA OpenKeeps ==
    ASSUME IInv, NEW c \in Requests, NEW d \in Daemons, NEW s \in Sessions,
           NEW op \in {"open", "fork"}, Open(c, d, s, op)
    PROVE  IInv'
<1> DEFINE r == [NotServed EXCEPT !.op = op, !.daemon = d, !.session = s]
<1>1. r \in RequestStates /\ r.daemon = d /\ r.session = s
  BY DEF NotServed, RequestStates, Steps
<1>2. d \in alive
  BY DEF Open
<1>3. CASE disposal[d][s] # NoDisposal
  <2> DEFINE u == [r EXCEPT !.step = "wait"]
  <2>1. u \in RequestStates
    BY <1>1, Fields DEF Steps
  <2>2. Sound(u, alive, Holding)
    BY <1>1, <1>2 DEF Sound, NotServed
  <2>3. /\ request' = [request EXCEPT ![c] = u]
        /\ UNCHANGED <<alive, lease, registry, runtimes, active, dormant, history>>
    BY <1>3 DEF Open, Goes, shared
  <2> QED BY <2>1, <2>2, <2>3, MovesAside DEF IInv, Types
<1>4. CASE disposal[d][s] = NoDisposal
  <2>1. /\ LookUp(c, r)
        /\ UNCHANGED <<shared, registry, runtimes, live, dormant, disposal, history>>
    BY <1>4 DEF Open
  <2> QED BY <1>1, <1>2, <2>1, LookUpKeeps
<1> QED BY <1>3, <1>4

LEMMA DisposalAwaitedKeeps ==
    ASSUME IInv, NEW c \in Requests, DisposalAwaited(c)
    PROVE  IInv'
<1>1. request[c].daemon \in alive /\ request[c].session \in Sessions
  BY OfRequest DEF DisposalAwaited, Sound
<1> QED BY <1>1, OfRequest, LookUpKeeps DEF DisposalAwaited

LEMMA FindKeeps ==
    ASSUME IInv, NEW c \in Requests, Find(c)
    PROVE  IInv'
<1>1. request[c].session \in Sessions /\ request[c].daemon \in alive
  BY OfRequest DEF Find, Sound
<1>2. UNCHANGED <<alive, lease, registry, runtimes, active, dormant, history>>
  BY DEF Find, shared, resident
<1>3. CASE request[c].session \in files
  <2> DEFINE u == [request[c] EXCEPT !.step = "lease", !.leased = request[c].session]
  <2>1. u \in RequestStates
    BY <1>1, OfRequest, Fields DEF Steps
  <2>2. Sound(u, alive, Holding)
    BY <1>1, OfRequest DEF Sound, RequestStates
  <2>3. request' = [request EXCEPT ![c] = u]
    BY <1>3 DEF Find, Goes
  <2> QED BY <1>2, <2>1, <2>2, <2>3, MovesAside DEF IInv, Types
<1>4. CASE request[c].session \notin files
  BY <1>2, <1>4, GoesOn, MovesAside DEF Find, Goes, GoesTo, IInv, Types
<1> QED BY <1>3, <1>4

LEMMA CreateForOpenKeeps ==
    ASSUME IInv, NEW c \in Requests, CreateForOpen(c)
    PROVE  IInv'
<1> DEFINE d == request[c].daemon
           s == request[c].session
<1>1. d \in Daemons /\ d \in alive /\ s \in Sessions /\ <<d, s>> \in Holding
  <2>1. request[c].step = "create" /\ request[c].op \in {"open", "fork"}
    BY DEF CreateForOpen
  <2>2. s \in Sessions /\ request[c].leased = s
    BY <2>1, OfRequest DEF Sound
  <2> QED BY <2>1, <2>2, OfRequest, ResidencyAssumption DEF Sound
<1>2. /\ registry[d][s] \in Requests \cup {NoRuntime}
      /\ [runtimes EXCEPT ![c] = s] \in [Requests -> Sessions \cup {NoSession}]
  BY <1>1 DEF IInv, Types, Registries
<1>3. UNCHANGED <<alive, lease, history>>
  BY DEF CreateForOpen, shared
<1>4. CASE GoesTo(c, "release") /\ UNCHANGED resident
  <2>1. request[c].step = "create"
    BY DEF CreateForOpen
  <2> QED BY <1>3, <1>4, <2>1, GoesOn, MovesAside DEF Goes, GoesTo, resident, IInv, Types
<1>5. CASE /\ registry[d][s] # NoRuntime
           /\ Goes(c, [request[c] EXCEPT !.step = "lose", !.runtime = registry[d][s]])
           /\ runtimes' = [runtimes EXCEPT ![c] = s] /\ live' = live \cup {c}
           /\ UNCHANGED <<registry, active, dormant>>
  <2> DEFINE u == [request[c] EXCEPT !.step = "lose", !.runtime = registry[d][s]]
  <2>1. u \in RequestStates
    BY <1>2, OfRequest, Fields DEF Steps
  <2>2. Sound(u, alive, Holding)
    BY <1>1, <1>2, OfRequest DEF Sound, RequestStates
  <2> QED BY <1>2, <1>3, <1>5, <2>1, <2>2, MovesAside DEF Goes, IInv, Types
<1>6. CASE /\ registry[d][s] = NoRuntime
           /\ Goes(c, [request[c] EXCEPT !.step = "using", !.runtime = c])
           /\ runtimes' = [runtimes EXCEPT ![c] = s] /\ live' = live \cup {c}
           /\ registry' = [registry EXCEPT ![d][s] = c]
           /\ active' = [active EXCEPT ![d] = c]
           /\ dormant' = [dormant EXCEPT ![d] = s]
  <2> DEFINE u == [request[c] EXCEPT !.step = "using", !.runtime = c]
  <2>1. u \in RequestStates
    BY OfRequest, Fields DEF Steps
  <2>2. Sound(u, alive, Holding)
    BY <1>1, OfRequest DEF Sound, RequestStates
  <2>3. /\ registry' \in Registries
        /\ \A e \in Daemons, t \in Sessions :
              registry'[e][t] # NoRuntime =>
                 registry[e][t] # NoRuntime \/ (e \in alive /\ <<e, t>> \in Holding)
    <3>1. registry \in Registries /\ registry' = Put(registry, d, s, c)
      BY <1>6 DEF IInv, Types, Put
    <3> QED BY <1>1, <3>1, OneEntry
  <2>4. Holding' = Holding
    BY <1>3 DEF Holding
  <2>5. Types'
    BY <1>1, <1>2, <1>3, <1>6, <2>3 DEF IInv, Types
  <2> QED BY <1>3, <1>6, <2>1, <2>2, <2>3, <2>4, <2>5, MovesQuietly DEF Goes
<1> QED BY <1>4, <1>5, <1>6 DEF CreateForOpen

LEMMA LoseKeeps ==
    ASSUME IInv, NEW c \in Requests, Lose(c)
    PROVE  IInv'
<1>1. active' \in [Daemons -> Requests \cup {NoRuntime}]
  BY OfRequest DEF Lose, IInv, Types
<1> QED BY <1>1, GoesOn, MovesAside DEF Lose, Goes, GoesTo, shared, IInv, Types

LEMMA UseKeeps ==
    ASSUME IInv, NEW c \in Requests, Use(c)
    PROVE  IInv'
BY GoesOn, MovesAside DEF Use, Goes, GoesTo, resident, IInv, Types

LEMMA ForkKeeps ==
    ASSUME IInv, NEW c \in Requests, Fork(c)
    PROVE  IInv'
<1> DEFINE d == request[c].daemon
           r == request[c].runtime
<1>1. d \in Daemons /\ d \in alive /\ r \in Requests \cup {NoRuntime}
  BY OfRequest DEF Fork
<1>2. UNCHANGED <<alive, lease, active, dormant>>
  BY DEF Fork
<1>3. CASE GoesTo(c, "done") /\ UNCHANGED <<files, registry, runtimes, history>>
  BY <1>2, <1>3, GoesOn, MovesAside DEF Goes, GoesTo, IInv, Types
<1>4. ASSUME NEW s \in Fresh,
             registry' = [registry EXCEPT ![d][runtimes[r]] = NoRuntime, ![d][s] = r],
             runtimes' = [runtimes EXCEPT ![r] = s],
             Goes(c, [request[c] EXCEPT !.step = "forked", !.leased = s]),
             history' = [history EXCEPT !.used = @ \cup {s}, !.lapsed = @ \cup {<<d, s>>},
                           !.strays = @ \cup {<<d, runtimes[r]>>, <<d, s>>},
                           !.forked = @ \cup {runtimes[r], s},
                           !.snatched = IF BeingDisposed(d, r) THEN @ \cup {r} ELSE @]
      PROVE  IInv'
  <2> DEFINE u == [request[c] EXCEPT !.step = "forked", !.leased = s]
             without == Put(registry, d, runtimes[r], NoRuntime)
  <2>1. s \in Sessions
    BY DEF Fresh
  <2>2. u \in RequestStates
    BY <2>1, OfRequest, Fields DEF Steps
  <2>3. Sound(u, alive, Holding)
    BY <1>1, <2>1, OfRequest DEF Sound, RequestStates
  <2>4. /\ without \in Registries
        /\ \A e \in Daemons, t \in Sessions :
              without[e][t] # NoRuntime => registry[e][t] # NoRuntime
    <3>1. registry \in Registries
      BY DEF IInv, Types
    <3> QED BY <3>1, OneEntry
  <2>5. registry' = Put(without, d, s, r)
    BY <1>4 DEF Put
  <2> HIDE DEF without
  <2>6. /\ registry' \in Registries
        /\ \A e \in Daemons, t \in Sessions :
              registry'[e][t] # NoRuntime => registry[e][t] # NoRuntime \/ (e = d /\ t = s)
    BY <1>1, <2>4, <2>5, OneEntry
  <2>7. /\ history'.lapsed = history.lapsed \cup {<<d, s>>}
        /\ history' = [used |-> history'.used, deleted |-> history'.deleted,
                       lapsed |-> history'.lapsed, strays |-> history'.strays,
                       forked |-> history'.forked, snatched |-> history'.snatched]
    BY <1>4 DEF IInv, Types
  <2>8. runtimes' \in [Requests -> Sessions \cup {NoSession}]
    BY <1>4, <2>1 DEF IInv, Types
  <2>9. Types'
    BY <1>2, <2>6, <2>7, <2>8 DEF IInv, Types
  <2>10. <<d, s>> \in Holding'
    BY <2>7 DEF Holding
  <2>11. \A e \in Daemons, t \in Sessions :
            registry'[e][t] # NoRuntime =>
               registry[e][t] # NoRuntime \/ (e \in alive /\ <<e, t>> \in Holding')
    BY <1>1, <2>6, <2>10
  <2>12. history.lapsed \subseteq history'.lapsed
    BY <2>7
  <2>13. request' = [request EXCEPT ![c] = u]
    BY <1>4 DEF Goes
  <2> HIDE DEF u
  <2> QED BY <1>2, <2>2, <2>3, <2>9, <2>11, <2>12, <2>13, MovesQuietly
<1> QED BY <1>3, <1>4 DEF Fork

-----------------------------------------------------------------------------
(* Taking and giving up a lease. *)

\* A lease is taken from nobody alive, so that all the living keep theirs.
LEMMA TryLeaseKeepsOthers ==
    ASSUME IInv, NEW d \in Daemons, NEW s \in Sessions, d \in alive,
           ~HeldElsewhere(d, s), lease' = [lease EXCEPT ![s] = d],
           history.lapsed \ {<<d, s>>} \subseteq history'.lapsed
    PROVE  /\ lease' \in [Sessions -> Daemons \cup {NoDaemon}]
           /\ <<d, s>> \in Holding'
           /\ \A e \in alive, t \in Sessions : <<e, t>> \in Holding => <<e, t>> \in Holding'
<1>1. /\ lease' \in [Sessions -> Daemons \cup {NoDaemon}]
      /\ lease'[s] = d
      /\ \A t \in Sessions : t # s => lease'[t] = lease[t]
      /\ lease[s] \notin alive \ {d}
  BY DEF IInv, Types, HeldElsewhere
<1>2. <<d, s>> \in Holding'
  BY <1>1 DEF Holding
<1>3. ASSUME NEW e \in alive, NEW t \in Sessions, <<e, t>> \in Holding
      PROVE  <<e, t>> \in Holding'
  <2>1. CASE e = d /\ t = s
    BY <1>2, <2>1
  <2>2. CASE ~(e = d /\ t = s)
    <3>1. lease[t] = e \/ <<e, t>> \in history.lapsed
      BY <1>3 DEF Holding
    <3>2. lease[t] = e => lease'[t] = e
      BY <1>1, <2>2
    <3>3. <<e, t>> \in history.lapsed => <<e, t>> \in history'.lapsed
      BY <2>2
    <3> QED BY <3>1, <3>2, <3>3 DEF Holding
  <2> QED BY <2>1, <2>2
<1> QED BY <1>1, <1>2, <1>3

LEMMA AcquireKeeps ==
    ASSUME IInv, NEW c \in Requests, Acquire(c)
    PROVE  IInv'
<1> DEFINE d == request[c].daemon
           s == request[c].leased
           next == CASE request[c].op = "create" -> "setup"
                     [] request[c].op = "delete" -> "remove"
                     [] OTHER -> "create"
<1>1. request[c].step = "lease" /\ d \in Daemons /\ d \in alive /\ s \in Sessions
  BY OfRequest DEF Acquire, Sound
<1>2. UNCHANGED <<alive, registry, runtimes, active, dormant, history>>
  BY DEF Acquire
<1>3. CASE HeldElsewhere(d, s) /\ GoesTo(c, "done") /\ UNCHANGED lease
  BY <1>2, <1>3, GoesOn, MovesAside DEF Goes, GoesTo, IInv, Types
<1>4. CASE ~HeldElsewhere(d, s) /\ GoesTo(c, next) /\ lease' = [lease EXCEPT ![s] = d]
  <2> DEFINE u == [request[c] EXCEPT !.step = next]
  <2>1. next \in {"setup", "remove", "create"} /\ next \in Steps
    BY DEF Steps
  <2>2. u \in RequestStates
    BY <2>1, OfRequest, Fields
  <2>3. /\ lease' \in [Sessions -> Daemons \cup {NoDaemon}]
        /\ <<d, s>> \in Holding'
        /\ \A e \in alive, t \in Sessions : <<e, t>> \in Holding => <<e, t>> \in Holding'
    BY <1>1, <1>2, <1>4, TryLeaseKeepsOthers
  <2>4. Sound(u, alive, Holding')
    <3>1. /\ u.step = next /\ u.op = request[c].op /\ u.daemon = d
          /\ u.leased = s /\ u.session = request[c].session
      BY OfRequest DEF RequestStates
    <3>2. /\ next = "setup" <=> request[c].op = "create"
          /\ next = "create" => request[c].op \notin {"create", "delete"}
      OBVIOUS
    <3> QED BY <1>1, <2>1, <2>3, <3>1, <3>2, OfRequest DEF Sound
  <2>5. Types'
    BY <1>2, <2>3 DEF IInv, Types
  <2>6. request' = [request EXCEPT ![c] = u]
    BY <1>4 DEF Goes, GoesTo
  <2> HIDE DEF u
  <2> QED BY <1>2, <2>2, <2>3, <2>4, <2>5, <2>6, Moves
<1> QED BY <1>3, <1>4 DEF Acquire, TryLease

LEMMA LeaseForkKeeps ==
    ASSUME IInv, NEW c \in Requests, LeaseFork(c)
    PROVE  IInv'
<1> DEFINE d == request[c].daemon
           s == request[c].leased
           u == [request[c] EXCEPT !.step = "done"]
<1>1. request[c].step = "forked" /\ d \in Daemons /\ d \in alive /\ s \in Sessions
  BY OfRequest DEF LeaseFork, Sound
<1>2. UNCHANGED <<alive, registry, runtimes, active>> /\ request' = [request EXCEPT ![c] = u]
  BY DEF LeaseFork, TryLease, Goes, GoesTo
<1>3. u \in RequestStates /\ Sound(u, alive, Holding)
  BY GoesOn
<1>4. CASE lease' = lease
  <2>1. UNCHANGED <<dormant, history>>
    BY <1>4 DEF LeaseFork
  <2> QED BY <1>2, <1>3, <1>4, <2>1, MovesAside DEF IInv, Types
<1>5. CASE lease' # lease
  <2>1. /\ ~HeldElsewhere(d, s) /\ lease' = [lease EXCEPT ![s] = d]
        /\ history' = [history EXCEPT !.lapsed = @ \ {<<d, s>>}]
        /\ dormant' = [dormant EXCEPT ![d] =
              IF active[d] = NoRuntime THEN @ ELSE runtimes[active[d]]]
    BY <1>5 DEF LeaseFork, TryLease
  <2>2. /\ history'.lapsed = history.lapsed \ {<<d, s>>}
        /\ history' = [used |-> history'.used, deleted |-> history'.deleted,
                       lapsed |-> history'.lapsed, strays |-> history'.strays,
                       forked |-> history'.forked, snatched |-> history'.snatched]
    BY <2>1 DEF IInv, Types
  <2>3. /\ lease' \in [Sessions -> Daemons \cup {NoDaemon}]
        /\ \A e \in alive, t \in Sessions : <<e, t>> \in Holding => <<e, t>> \in Holding'
    BY <1>1, <2>1, <2>2, TryLeaseKeepsOthers
  <2>4. dormant' \in [Daemons -> Sessions \cup {NoSession}]
    BY <1>1, <2>1 DEF IInv, Types
  <2>5. Types'
    BY <1>2, <2>2, <2>3, <2>4 DEF IInv, Types
  <2>6. Sound(u, alive, Holding')
    BY OfRequest DEF Sound, RequestStates
  <2> HIDE DEF u
  <2> QED BY <1>2, <1>3, <2>3, <2>5, <2>6, Moves
<1> QED BY <1>4, <1>5

\* Whoever relies on the lease that is given up is noted.
LEMMA ReleaseKeepsRelying ==
    ASSUME IInv, NEW d \in Daemons, NEW s, NEW relied \in BOOLEAN, NEW except,
           Relying(d, s, except) => relied,
           Release(d, s, relied)
    PROVE  /\ lease' \in [Sessions -> Daemons \cup {NoDaemon}]
           /\ history' = [used |-> history'.used, deleted |-> history'.deleted,
                          lapsed |-> history'.lapsed, strays |-> history'.strays,
                          forked |-> history'.forked, snatched |-> history'.snatched]
           /\ \A e \in alive, t \in Sessions :
                 <<e, t>> \in Holding /\ Relying(e, t, except) => <<e, t>> \in Holding'
<1>1. /\ lease' \in [Sessions -> Daemons \cup {NoDaemon}]
      /\ \A t \in Sessions : lease'[t] = lease[t] \/ (t = s /\ lease[t] = d)
  BY DEF Release, IInv, Types
<1>2. /\ history' = [used |-> history'.used, deleted |-> history'.deleted,
                     lapsed |-> history'.lapsed, strays |-> history'.strays,
                     forked |-> history'.forked, snatched |-> history'.snatched]
      /\ history.lapsed \subseteq history'.lapsed
      /\ relied => <<d, s>> \in history'.lapsed
  BY DEF Release, IInv, Types
<1>3. ASSUME NEW e \in alive, NEW t \in Sessions,
             <<e, t>> \in Holding, Relying(e, t, except)
      PROVE  <<e, t>> \in Holding'
  <2>1. lease[t] = e \/ <<e, t>> \in history.lapsed
    BY <1>3 DEF Holding
  <2>2. CASE lease'[t] = lease[t] \/ <<e, t>> \in history.lapsed
    BY <1>2, <2>1, <2>2 DEF Holding
  <2>3. CASE lease[t] = e /\ t = s /\ lease[t] = d
    BY <1>2, <1>3, <2>3 DEF Holding
  <2> QED BY <1>1, <2>1, <2>2, <2>3
<1> QED BY <1>1, <1>2, <1>3

LEMMA ReleaseOwnKeeps ==
    ASSUME IInv, NEW c \in Requests, ReleaseOwn(c)
    PROVE  IInv'
<1> DEFINE d == request[c].daemon
           s == request[c].leased
           relied == Relying(d, s, {c}) \/ disposal[d][s] # NoDisposal
           u == [request[c] EXCEPT !.step = "done"]
<1>1. request[c].step = "release" /\ d \in Daemons
  BY OfRequest DEF ReleaseOwn
<1>2. /\ Release(d, s, relied)
      /\ UNCHANGED <<alive, registry, runtimes, active, dormant>>
      /\ request' = [request EXCEPT ![c] = u]
  BY DEF ReleaseOwn, Goes, GoesTo, resident
<1>3. u \in RequestStates
  BY GoesOn
<1>4. /\ lease' \in [Sessions -> Daemons \cup {NoDaemon}]
      /\ history' = [used |-> history'.used, deleted |-> history'.deleted,
                     lapsed |-> history'.lapsed, strays |-> history'.strays,
                     forked |-> history'.forked, snatched |-> history'.snatched]
      /\ \A e \in alive, t \in Sessions :
            <<e, t>> \in Holding /\ Relying(e, t, {c}) => <<e, t>> \in Holding'
  <2>1. relied \in BOOLEAN /\ (Relying(d, s, {c}) => relied)
    BY DEF Relying
  <2> HIDE DEF relied
  <2> QED BY <1>1, <1>2, <2>1, ReleaseKeepsRelying
<1>5. Types'
  BY <1>2, <1>4 DEF IInv, Types
<1>6. Sound(u, alive, Holding')
  BY OfRequest DEF Sound, RequestStates
<1> HIDE DEF u
<1> QED BY <1>2, <1>3, <1>4, <1>5, <1>6, Moves

-----------------------------------------------------------------------------
(* Starting, creating and deleting. *)

LEMMA EnsureKeeps ==
    ASSUME IInv, NEW c \in Requests, NEW d \in Daemons, Ensure(c, d)
    PROVE  IInv'
<1> DEFINE u == [NotServed EXCEPT !.op = "ensure", !.daemon = d, !.session = dormant[d],
                   !.step = IF dormant[d] = NoSession THEN "create" ELSE "validate",
                   !.adopts = active[d] = NoRuntime]
<1>1. /\ u \in RequestStates
      /\ u.daemon = d /\ u.op = "ensure" /\ u.leased = NoSession
      /\ u.step \in {"create", "validate"}
  BY DEF IInv, Types, NotServed, RequestStates, Steps
<1>2. d \in alive /\ request' = [request EXCEPT ![c] = u]
  BY DEF Ensure, Goes
<1> HIDE DEF u
<1>3. Sound(u, alive, Holding)
  BY <1>1, <1>2 DEF Sound
<1>4. UNCHANGED <<alive, lease, registry, runtimes, active, dormant, history>>
  BY DEF Ensure, shared, resident
<1> QED BY <1>1, <1>2, <1>3, <1>4, MovesAside DEF IInv, Types

LEMMA ValidateKeeps ==
    ASSUME IInv, NEW c \in Requests, Validate(c)
    PROVE  IInv'
<1> DEFINE d == request[c].daemon
           now == dormant[d]
<1>1. /\ request[c].step = "validate" /\ d \in Daemons /\ d \in alive
      /\ now \in Sessions \cup {NoSession}
  BY OfRequest DEF Validate, IInv, Types
<1>2. UNCHANGED <<alive, lease, registry, runtimes, active, dormant>>
  BY DEF Validate, shared, resident
<1>3. CASE request[c].session \notin files
  BY <1>1, <1>2, <1>3, GoesOn, MovesAside DEF Validate, Goes, GoesTo, IInv, Types
<1>4. CASE request[c].session \in files
  <2> DEFINE x == IF now = NoSession THEN "create" ELSE "lease"
             u == [request[c] EXCEPT !.leased = now, !.step = x]
  <2>1. u \in RequestStates
    BY <1>1, OfRequest, Fields DEF Steps
  <2>2. request' = [request EXCEPT ![c] = u]
    BY <1>4 DEF Validate, Goes
  <2>3. /\ history'.lapsed = history.lapsed
        /\ history' = [used |-> history'.used, deleted |-> history'.deleted,
                       lapsed |-> history'.lapsed, strays |-> history'.strays,
                       forked |-> history'.forked, snatched |-> history'.snatched]
    BY <1>4 DEF Validate, IInv, Types
  <2>4. Types'
    BY <1>2, <2>3 DEF IInv, Types
  <2>5. Sound(u, alive, Holding)
    <3>1. /\ u.step = x /\ u.leased = now /\ u.daemon = d /\ u.op = request[c].op
      BY OfRequest DEF RequestStates
    <3>2. request[c].op = "ensure"
      BY <1>1, OfRequest DEF Sound
    <3> QED BY <1>1, <3>1, <3>2 DEF Sound
  <2> HIDE DEF u
  <2> QED BY <1>2, <2>1, <2>2, <2>3, <2>4, <2>5, MovesQuietly
<1> QED BY <1>3, <1>4

LEMMA CreateForStartKeeps ==
    ASSUME IInv, NEW c \in Requests, CreateForStart(c)
    PROVE  IInv'
<1> DEFINE d == request[c].daemon
           r == request[c]
           done == [r EXCEPT !.step = "done"]
<1>1. r.step = "create" /\ d \in Daemons /\ d \in alive
  BY OfRequest DEF CreateForStart
<1>2. UNCHANGED <<alive, lease>>
  BY DEF CreateForStart, shared
<1>3. done \in RequestStates /\ Sound(done, alive, Holding)
  BY GoesOn
<1>4. CASE /\ IF r.session # NoSession /\ dormant[d] # NoSession
              THEN Goes(c, [r EXCEPT !.step = "release", !.leased = dormant[d]])
              ELSE GoesTo(c, "done")
           /\ history' = [history EXCEPT !.strays = @ \cup Strays(d, r.leased)]
           /\ UNCHANGED resident
  <2>1. Types' /\ UNCHANGED registry /\ history'.lapsed = history.lapsed
    BY <1>2, <1>4 DEF IInv, Types, resident
  <2>2. CASE request' = [request EXCEPT ![c] = done]
    <3> HIDE DEF done
    <3> QED BY <1>2, <1>3, <2>1, <2>2, MovesQuietly
  <2>3. CASE Goes(c, [r EXCEPT !.step = "release", !.leased = dormant[d]])
    <3> DEFINE u == [r EXCEPT !.step = "release", !.leased = dormant[d]]
    <3>1. u \in RequestStates
      BY <1>1, OfRequest, Fields DEF Steps, IInv, Types
    <3>2. Sound(u, alive, Holding) /\ request' = [request EXCEPT ![c] = u]
      BY <1>1, <2>3, OfRequest DEF Sound, RequestStates, Goes
    <3> HIDE DEF u
    <3> QED BY <1>2, <2>1, <3>1, <3>2, MovesQuietly
  <2> QED BY <1>4, <2>2, <2>3 DEF Goes, GoesTo
<1>5. ASSUME NEW s \in IF r.session = NoSession THEN Fresh ELSE {r.session},
             GoesTo(c, "done"),
             runtimes' = [runtimes EXCEPT ![c] = s],
             IF registry[d][s] # NoRuntime
             THEN UNCHANGED <<registry, active, dormant>>
             ELSE /\ registry' = [registry EXCEPT ![d][s] = c]
                  /\ IF r.adopts
                     THEN /\ active' = [active EXCEPT ![d] = c]
                          /\ dormant' = [dormant EXCEPT ![d] = s]
                     ELSE UNCHANGED <<active, dormant>>,
             history' = [history EXCEPT !.used = @ \cup {s},
                           !.lapsed = IF r.leased = s THEN @ ELSE @ \cup {<<d, s>>}]
      PROVE  IInv'
  <2>1. s \in Sessions
    BY <1>5, OfRequest DEF Fresh
  <2>2. /\ history'.lapsed = IF r.leased = s THEN history.lapsed
                             ELSE history.lapsed \cup {<<d, s>>}
        /\ history' = [used |-> history'.used, deleted |-> history'.deleted,
                       lapsed |-> history'.lapsed, strays |-> history'.strays,
                       forked |-> history'.forked, snatched |-> history'.snatched]
    BY <1>5 DEF IInv, Types
  <2>3. <<d, s>> \in Holding'
    <3>1. CASE r.leased = s
      <4>1. <<d, s>> \in Holding
        BY <1>1, <2>1, <3>1, OfRequest, ResidencyAssumption DEF Sound
      <4> QED BY <1>2, <2>2, <3>1, <4>1 DEF Holding
    <3>2. CASE r.leased # s
      BY <2>2, <3>2 DEF Holding
    <3> QED BY <3>1, <3>2
  <2>4. /\ registry' \in Registries
        /\ \A e \in Daemons, t \in Sessions :
              registry'[e][t] # NoRuntime =>
                 registry[e][t] # NoRuntime \/ (e \in alive /\ <<e, t>> \in Holding')
    <3>1. registry \in Registries
      BY DEF IInv, Types
    <3>2. registry' = registry \/ registry' = Put(registry, d, s, c)
      BY <1>5 DEF Put
    <3> QED BY <1>1, <2>3, <3>1, <3>2, OneEntry
  <2>5. /\ runtimes' \in [Requests -> Sessions \cup {NoSession}]
        /\ active' \in [Daemons -> Requests \cup {NoRuntime}]
        /\ dormant' \in [Daemons -> Sessions \cup {NoSession}]
    BY <1>5, <2>1 DEF IInv, Types
  <2>6. Types'
    BY <1>2, <2>2, <2>4, <2>5 DEF IInv, Types
  <2>7. request' = [request EXCEPT ![c] = done] /\ history.lapsed \subseteq history'.lapsed
    BY <1>5, <2>2 DEF Goes, GoesTo
  <2> HIDE DEF done
  <2> QED BY <1>2, <1>3, <2>4, <2>6, <2>7, MovesQuietly
<1> QED BY <1>4, <1>5 DEF CreateForStart

LEMMA CreateKeeps ==
    ASSUME IInv, NEW c \in Requests, NEW d \in Daemons, Create(c, d)
    PROVE  IInv'
<1>1. PICK s \in Fresh :
         /\ runtimes' = [runtimes EXCEPT ![c] = s]
         /\ Goes(c, [NotServed EXCEPT !.op = "create", !.daemon = d, !.session = s,
                                      !.step = "lease", !.leased = s])
         /\ history' = [history EXCEPT !.used = @ \cup {s}]
  BY DEF Create
<1> DEFINE u == [NotServed EXCEPT !.op = "create", !.daemon = d, !.session = s,
                                  !.step = "lease", !.leased = s]
<1>2. /\ s \in Sessions /\ d \in alive
      /\ UNCHANGED <<alive, lease, registry, active, dormant>>
  BY DEF Fresh, Create, shared
<1>3. u \in RequestStates
  BY <1>2 DEF NotServed, RequestStates, Steps
<1>4. Sound(u, alive, Holding)
  BY <1>2 DEF NotServed, Sound
<1>5. Types' /\ history'.lapsed = history.lapsed
  BY <1>1, <1>2 DEF IInv, Types
<1>6. request' = [request EXCEPT ![c] = u]
  BY <1>1 DEF Goes
<1> HIDE DEF u
<1> QED BY <1>2, <1>3, <1>4, <1>5, <1>6, MovesQuietly

LEMMA SetUpKeeps ==
    ASSUME IInv, NEW c \in Requests, SetUp(c)
    PROVE  IInv'
<1> DEFINE d == request[c].daemon
           s == request[c].session
           done == [request[c] EXCEPT !.step = "done"]
<1>1. /\ d \in Daemons /\ d \in alive /\ s \in Sessions /\ <<d, s>> \in Holding
  <2>1. request[c].step = "setup"
    BY DEF SetUp
  <2>2. s \in Sessions /\ request[c].leased = s
    BY <2>1, OfRequest DEF Sound
  <2> QED BY <2>1, <2>2, OfRequest, ResidencyAssumption DEF Sound
<1>2. UNCHANGED <<alive, lease, runtimes, history>>
  BY DEF SetUp, shared
<1>3. CASE GoesTo(c, "release") /\ UNCHANGED <<registry, active, dormant>>
  <2>1. request[c].step = "setup"
    BY DEF SetUp
  <2> QED BY <1>2, <1>3, <2>1, GoesOn, MovesAside DEF Goes, GoesTo, IInv, Types
<1>4. CASE GoesTo(c, "done") /\ UNCHANGED <<registry, active, dormant>>
  BY <1>2, <1>4, GoesOn, MovesAside DEF Goes, GoesTo, IInv, Types
<1>5. CASE /\ GoesTo(c, "done")
           /\ registry' = [registry EXCEPT ![d][s] = c]
           /\ active' = [active EXCEPT ![d] = c]
           /\ dormant' = [dormant EXCEPT ![d] = s]
  <2>1. /\ registry' \in Registries
        /\ \A e \in Daemons, t \in Sessions :
              registry'[e][t] # NoRuntime =>
                 registry[e][t] # NoRuntime \/ (e \in alive /\ <<e, t>> \in Holding)
    <3>1. registry \in Registries /\ registry' = Put(registry, d, s, c)
      BY <1>5 DEF IInv, Types, Put
    <3> QED BY <1>1, <3>1, OneEntry
  <2>2. Holding' = Holding
    BY <1>2 DEF Holding
  <2>3. Types'
    BY <1>1, <1>2, <1>5, <2>1 DEF IInv, Types
  <2>4. done \in RequestStates /\ Sound(done, alive, Holding)
    BY GoesOn
  <2>5. request' = [request EXCEPT ![c] = done]
    BY <1>5 DEF Goes, GoesTo
  <2> HIDE DEF done
  <2> QED BY <1>2, <2>1, <2>2, <2>3, <2>4, <2>5, MovesQuietly
<1> QED BY <1>3, <1>4, <1>5 DEF SetUp

LEMMA DeleteKeeps ==
    ASSUME IInv, NEW c \in Requests, NEW d \in Daemons, NEW s \in Sessions, Delete(c, d, s)
    PROVE  IInv'
<1> DEFINE found == registry[d][s]
           u == [NotServed EXCEPT !.op = "delete", !.daemon = d, !.session = s,
                   !.runtime = found, !.step = IF found = NoRuntime THEN "find" ELSE "dispose",
                   !.leased = IF found = NoRuntime THEN NoSession ELSE s]
<1>1. found \in Requests \cup {NoRuntime}
  BY DEF IInv, Types, Registries
<1>2. /\ u \in RequestStates
      /\ u.step \in {"find", "dispose"} /\ u.daemon = d /\ u.session = s
  BY <1>1 DEF NotServed, RequestStates, Steps
<1>3. /\ d \in alive /\ request' = [request EXCEPT ![c] = u]
      /\ UNCHANGED <<alive, lease, registry, runtimes, active, dormant, history>>
  BY DEF Delete, Goes, shared, resident
<1> HIDE DEF u
<1>4. Sound(u, alive, Holding)
  BY <1>2, <1>3 DEF Sound
<1> QED BY <1>2, <1>3, <1>4, MovesAside DEF IInv, Types

\* Removing a runtime registers nothing.
LEMMA DisposedRegistersNothing ==
    ASSUME IInv, NEW d, NEW r, Disposed(d, r)
    PROVE  /\ registry' \in Registries
           /\ \A e \in Daemons, t \in Sessions :
                 registry'[e][t] # NoRuntime => registry[e][t] # NoRuntime
<1>1. registry \in Registries /\ registry' = Put(registry, d, runtimes[r], NoRuntime)
  BY DEF IInv, Types, Disposed, Put
<1> QED BY <1>1, OneEntry

LEMMA DisposeForDeleteKeeps ==
    ASSUME IInv, NEW c \in Requests, DisposeForDelete(c)
    PROVE  IInv'
<1> DEFINE d == request[c].daemon
           r == request[c].runtime
           u == [request[c] EXCEPT !.step = "remove"]
<1>1. request[c].step = "dispose" /\ r \in Requests \cup {NoRuntime}
  BY OfRequest DEF DisposeForDelete
<1>2. /\ Disposed(d, r) \/ UNCHANGED registry
      /\ active' = [active EXCEPT ![d] = IF @ = r THEN NoRuntime ELSE @]
      /\ request' = [request EXCEPT ![c] = u]
      /\ history' = [history EXCEPT !.deleted = @ \cup {runtimes[r]}]
      /\ UNCHANGED <<alive, lease, runtimes, dormant>>
  BY DEF DisposeForDelete, Goes, GoesTo, shared
<1>3. u \in RequestStates /\ Sound(u, alive, Holding)
  BY <1>1, GoesOn
<1> HIDE DEF u
<1>4. /\ registry' \in Registries
      /\ \A e \in Daemons, t \in Sessions :
            registry'[e][t] # NoRuntime => registry[e][t] # NoRuntime
  BY <1>2, DisposedRegistersNothing DEF IInv, Types
<1>5. active' \in [Daemons -> Requests \cup {NoRuntime}]
  BY <1>2 DEF IInv, Types
<1>6. Types' /\ history'.lapsed = history.lapsed
  BY <1>2, <1>4, <1>5 DEF IInv, Types
<1> QED BY <1>2, <1>3, <1>4, <1>6, MovesQuietly

LEMMA RemoveKeeps ==
    ASSUME IInv, NEW c \in Requests, Remove(c)
    PROVE  IInv'
<1> DEFINE u == [request[c] EXCEPT !.step = "release"]
<1>1. /\ u \in RequestStates /\ Sound(u, alive, Holding)
      /\ request' = [request EXCEPT ![c] = u]
  <2>1. request[c].step = "remove"
    BY DEF Remove
  <2> QED BY <2>1, GoesOn DEF Remove, Goes, GoesTo
<1> HIDE DEF u
<1>2. Types' /\ UNCHANGED <<alive, lease, registry>> /\ history'.lapsed = history.lapsed
  BY DEF Remove, resident, IInv, Types
<1> QED BY <1>1, <1>2, MovesQuietly

-----------------------------------------------------------------------------
(* The idle timer, and the death of a daemon. *)

\* A step of no request, likewise.
LEMMA TimerKeeps ==
    ASSUME IInv, UNCHANGED <<request, alive>>, Types',
           \A d \in alive, s \in Sessions :
              <<d, s>> \in Holding /\ Relying(d, s, {}) => <<d, s>> \in Holding',
           \A d \in Daemons, s \in Sessions :
              registry'[d][s] # NoRuntime => registry[d][s] # NoRuntime
    PROVE  IInv'
<1>1. ResidentHeld'
  BY DEF IInv, Types, ResidentHeld, Relying
<1>2. ASSUME NEW x \in Requests
      PROVE  Sound(request[x], alive, Holding')
  <2>1. Sound(request[x], alive, Holding)
    BY DEF IInv
  <2>2. ASSUME request[x].step \in {"create", "setup"}, request[x].leased # NoSession
        PROVE  <<request[x].daemon, request[x].leased>> \in Holding'
    <3>1. /\ <<request[x].daemon, request[x].leased>> \in Holding
          /\ request[x].daemon \in alive
      BY <2>1, <2>2 DEF Sound
    <3>2. request[x].leased \in Sessions
      BY <2>2, ResidencyAssumption DEF IInv, RequestStates
    <3>3. Relying(request[x].daemon, request[x].leased, {})
      BY <2>2 DEF Relying
    <3> QED BY <3>1, <3>2, <3>3
  <2> QED BY <2>1, <2>2 DEF Sound
<1> QED BY <1>1, <1>2 DEF IInv

LEMMA IdleTimerKeeps ==
    ASSUME IInv, NEW d \in Daemons, NEW s \in Sessions, IdleTimer(d, s)
    PROVE  IInv'
<1>1. CASE Dispose(d, s)
  <2>1. Types'
    BY <1>1 DEF Dispose, shared, IInv, Types
  <2>2. UNCHANGED <<request, alive, lease, registry, history>>
    BY <1>1 DEF Dispose, shared
  <2>3. Holding' = Holding
    BY <2>2 DEF Holding
  <2> QED BY <2>1, <2>2, <2>3, TimerKeeps
<1>2. CASE DisposeIdle(d, s)
  <2>1. UNCHANGED <<request, alive, lease, runtimes, active, dormant, history>>
    BY <1>2 DEF DisposeIdle, shared
  <2>2. /\ registry' \in Registries
        /\ \A e \in Daemons, t \in Sessions :
              registry'[e][t] # NoRuntime => registry[e][t] # NoRuntime
    BY <1>2, DisposedRegistersNothing DEF DisposeIdle, IInv, Types
  <2>3. Types'
    BY <2>1, <2>2 DEF IInv, Types
  <2>4. Holding' = Holding
    BY <2>1 DEF Holding
  <2> QED BY <2>1, <2>2, <2>3, <2>4, TimerKeeps
<1>3. CASE Stat(d, s)
  <2>1. UNCHANGED <<request, alive, lease, registry, runtimes, active, dormant, history>>
    BY <1>3 DEF Stat, shared, resident
  <2>2. Holding' = Holding /\ Types'
    BY <2>1 DEF Holding, IInv, Types
  <2> QED BY <2>1, <2>2, TimerKeeps
<1>4. CASE ReleaseIdle(d, s)
  <2>1. /\ Release(d, s, Relying(d, s, {}))
        /\ UNCHANGED <<alive, registry, runtimes, request>>
    BY <1>4 DEF ReleaseIdle
  <2>2. /\ active' \in [Daemons -> Requests \cup {NoRuntime}]
        /\ dormant' \in [Daemons -> Sessions \cup {NoSession}]
    BY <1>4 DEF ReleaseIdle, IInv, Types
  <2>3. Relying(d, s, {}) \in BOOLEAN
    BY DEF Relying
  <2>4. /\ lease' \in [Sessions -> Daemons \cup {NoDaemon}]
        /\ history' = [used |-> history'.used, deleted |-> history'.deleted,
                       lapsed |-> history'.lapsed, strays |-> history'.strays,
                       forked |-> history'.forked, snatched |-> history'.snatched]
        /\ \A e \in alive, t \in Sessions :
              <<e, t>> \in Holding /\ Relying(e, t, {}) => <<e, t>> \in Holding'
    BY <2>1, <2>3, ReleaseKeepsRelying
  <2>5. Types'
    BY <2>1, <2>2, <2>4 DEF IInv, Types
  <2> QED BY <2>1, <2>4, <2>5, TimerKeeps
<1> QED BY <1>1, <1>2, <1>3, <1>4 DEF IdleTimer

LEMMA CrashKeeps ==
    ASSUME IInv, NEW d \in Daemons, Crash(d)
    PROVE  IInv'
<1>1. /\ alive' = alive \ {d}
      /\ registry' = [registry EXCEPT ![d] = [s \in Sessions |-> NoRuntime]]
      /\ request' = [c \in Requests |-> IF request[c].daemon = d
                                        THEN [request[c] EXCEPT !.step = "done"] ELSE request[c]]
      /\ UNCHANGED <<lease, runtimes, history>>
  BY DEF Crash
<1>2. Holding' = Holding
  BY <1>1 DEF Holding
<1>3. Types'
  BY <1>1 DEF Crash, IInv, Types, Registries
<1>4. ResidentHeld'
  BY <1>1, <1>2 DEF IInv, Types, Registries, ResidentHeld
<1>5. ASSUME NEW c \in Requests
      PROVE  request'[c] \in RequestStates /\ Sound(request'[c], alive', Holding)
  <2>1. CASE request[c].daemon = d
    <3> DEFINE u == [request[c] EXCEPT !.step = "done"]
    <3>1. u \in RequestStates /\ u.step = "done"
      <4>1. request[c] \in RequestStates /\ "done" \in Steps
        BY OfRequest DEF Steps
      <4>2. u.step = "done"
        BY <4>1 DEF RequestStates
      <4> QED BY <4>1, <4>2, Fields
    <3>2. request'[c] = u
      BY <1>1, <2>1
    <3> HIDE DEF u
    <3> QED BY <3>1, <3>2 DEF Sound
  <2>2. CASE request[c].daemon # d
    BY <1>1, <2>2, OfRequest DEF Sound
  <2> QED BY <2>1, <2>2
<1>6. request' \in [Requests -> RequestStates]
  BY <1>1, <1>5
<1> QED BY <1>2, <1>3, <1>4, <1>5, <1>6 DEF IInv

-----------------------------------------------------------------------------
LEMMA InitHolds == Init => IInv
<1> SUFFICES ASSUME Init PROVE IInv
  OBVIOUS
<1>1. Types /\ ResidentHeld
  BY DEF Init, Types, Registries, ResidentHeld
<1>2. NotServed \in RequestStates /\ NotServed.step = "free"
  BY DEF NotServed, RequestStates, Steps
<1>3. \A c \in Requests : request[c] = NotServed
  BY DEF Init
<1>4. Sound(NotServed, alive, Holding)
  BY <1>2 DEF Sound
<1> QED BY <1>1, <1>2, <1>3, <1>4 DEF IInv, Init

LEMMA StepKeeps == IInv /\ [Next]_vars => IInv'
<1> SUFFICES ASSUME IInv, [Next]_vars PROVE IInv'
  OBVIOUS
<1>1. ASSUME NEW c \in Requests, Arrives(c) PROVE IInv'
  BY <1>1, EnsureKeeps, CreateKeeps, DeleteKeeps, OpenKeeps DEF Arrives
<1>2. ASSUME NEW c \in Requests, Proceeds(c) PROVE IInv'
  BY <1>2, DisposalAwaitedKeeps, FindKeeps, AcquireKeeps, CreateForOpenKeeps, LoseKeeps,
     UseKeeps, ForkKeeps, LeaseForkKeeps, ValidateKeeps, CreateForStartKeeps, SetUpKeeps,
     DisposeForDeleteKeeps, RemoveKeeps, ReleaseOwnKeeps DEF Proceeds
<1>3. CASE UNCHANGED vars
  <2>1. /\ UNCHANGED <<alive, request>>
        /\ Holding' = Holding /\ Types' /\ ResidentHeld'
    BY <1>3 DEF vars, Holding, IInv, Types, ResidentHeld
  <2> QED BY <2>1 DEF IInv
<1> QED BY <1>1, <1>2, <1>3, IdleTimerKeeps, CrashKeeps DEF Next

\* A resident is of a living daemon that holds the lease, or lapsed; and what a
\* request is about to register is held.
THEOREM HoldersAreKnown == Spec => []IInv
<1> QED BY InitHolds, StepKeeps, PTL DEF Spec

\* Two daemons hold one session only after one of them gave up its lease under
\* a runtime of its own, or registered a runtime without one.
THEOREM OneResidentHolds == Spec => []OneResidentUnlessLapsed
<1>1. IInv => OneResidentUnlessLapsed
  BY DEF IInv, ResidentHeld, Holding, OneResidentUnlessLapsed, Resident
<1> QED BY <1>1, HoldersAreKnown, PTL

-----------------------------------------------------------------------------
(* What is known of a runtime, a disposal, a lease and a dormant session. *)

Opens == {"open", "fork"}
AfterStart == {"using", "forked", "done"}
Keeping == {"create", "setup", "dispose", "remove", "release"}

\* A runtime of the daemon whose request is past creating and registering it.
Settled(d, r) ==
    /\ r \in Requests /\ request[r].daemon = d /\ request[r].step \in AfterStart
    /\ runtimes[r] \in Sessions

\* A session that the daemon need not be able to reopen.
Excused(d, s) ==
    s \in files \cup history.deleted \cup history.forked \/ <<d, s>> \in history.lapsed

\* Unregistered by the idle timer, and the lease not yet given up.
Leaving(d, s) == disposal[d][s].step \in {"stat", "release"}

Registered(d, s) ==
    LET r == registry[d][s]
    IN  r # NoRuntime => Settled(d, r) /\ r \in live /\ runtimes[r] = s

\* An idle disposal is of a living daemon and tears down the runtime that was
\* registered, unless that has been deleted or forked meanwhile; until the lease is
\* released it is held, and no request works on the session.
Ending(d, s) ==
    LET p == disposal[d][s]
        r == p.runtime
    IN  /\ p.step = "none" => p = NoDisposal
        /\ p.step # "none" => d \in alive /\ Settled(d, r)
        /\ p.step = "dispose" =>
              /\ \/ runtimes[r] = s
                 \/ /\ r \in history.snatched
                    /\ <<d, runtimes[r]>> \in history.strays
                    /\ runtimes[r] \in history.forked
              /\ registry[d][s] = r \/ Excused(d, s)
        /\ p.step \in {"stat", "release"} => lease[s] = d \/ Excused(d, s)
        /\ p.step \in {"stat", "release"} /\ runtimes[r] # s => Excused(d, s)
        /\ p.step = "release" /\ ~p.ephemeral => Excused(d, s)

\* A request knows the runtime it works on and what it does with the lease.
Apt(r) ==
    /\ r.step = "free" => r.op = "none"
    /\ r.step = "wait" => r.op \in Opens /\ r.runtime = NoRuntime
    /\ r.step = "validate" => r.session # NoSession
    /\ r.op \in Opens => r.session \in Sessions
    /\ r.step \in {"using", "lose"} => r.op \in Opens /\ r.runtime # NoRuntime
    /\ r.step = "dispose" =>
          /\ r.op = "delete" /\ r.runtime # NoRuntime /\ r.leased = r.session
          /\ \/ runtimes[r.runtime] = r.session
             \/ <<r.daemon, runtimes[r.runtime]>> \in history.strays
    /\ r.op = "ensure" /\ r.step \in {"lease", "create"} =>
          r.leased \in {r.session, NoSession} \/ <<r.daemon, r.leased>> \in history.strays
    /\ r.op = "ensure" /\ r.step \in {"lease", "create"} /\ r.session = NoSession =>
          r.leased = NoSession
    /\ r.step \notin {"free", "done"} /\ r.runtime # NoRuntime => Settled(r.daemon, r.runtime)
    /\ r.step = "forked" =>
          <<r.daemon, r.leased>> \in history.strays /\ r.leased \in history.forked
    /\ r.step = "lose" =>
          \/ Excused(r.daemon, runtimes[r.runtime])
          \/ runtimes[r.runtime] = r.session /\ registry[r.daemon][r.session] = r.runtime
    /\ r.step \in {"using", "lose"} /\ runtimes[r.runtime] = r.session =>
          \/ r.runtime \in live \cup history.snatched
          \/ \E o \in Requests : request[o].op = "delete" /\ request[o].runtime = r.runtime
    /\ r.step \notin {"free", "done", "wait"} /\ r.op \in Opens =>
          disposal[r.daemon][r.session].step = "none"

\* What a daemon holds the lease of s for.
Kept(d, s) ==
    \/ registry[d][s] # NoRuntime
    \/ Leaving(d, s)
    \/ \E c \in Requests :
          request[c].step \in Keeping /\ request[c].daemon = d /\ request[c].leased = s
    \/ <<d, s>> \in history.strays

\* The dormant session is excused, resident or about to be forgotten; and the active
\* runtime is the registered one of its session, which may become the dormant one.
Recalled(d, s) == Excused(d, s) \/ registry[d][s] # NoRuntime \/ Leaving(d, s)
AtWork(d, r) ==
    /\ Settled(d, r)
    /\ \/ Excused(d, runtimes[r])
       \/ registry[d][runtimes[r]] = r
       \/ Leaving(d, runtimes[r]) /\ disposal[d][runtimes[r]].runtime = r
Remembered(d) ==
    /\ dormant[d] # NoSession => Recalled(d, dormant[d])
    /\ active[d] # NoRuntime => AtWork(d, active[d])

\* A create has its runtime from the start, and nobody else touches it before it is
\* registered.
Own(c) ==
    request[c].op = "create" =>
        /\ request[c].step \in {"lease", "setup", "release", "done"}
        /\ request[c].step \in {"lease", "setup"} =>
              c \in live /\ runtimes[c] = request[c].session

KInv ==
    /\ IInv
    /\ disposal \in [Daemons -> [Sessions -> Disposals]]
    /\ \A d \in Daemons, s \in Sessions : Registered(d, s) /\ Ending(d, s)
    /\ \A c \in Requests : Apt(request[c])
    /\ \A d \in alive, s \in Sessions : lease[s] = d => Kept(d, s)
    /\ \A d \in Daemons : Remembered(d)

-----------------------------------------------------------------------------
(* What no step takes back. *)

\* A delete that disposes of r, at any time.
DeleteOf(r) == \E o \in Requests : request[o].op = "delete" /\ request[o].runtime = r

\* What is excused stays so, notes are never struck out, a runtime that is settled
\* stays of its daemon, and a delete that was is remembered.
Onward ==
    /\ \A d, s : Excused(d, s) => Excused(d, s)'
    /\ history.strays \subseteq history'.strays
    /\ history.forked \subseteq history'.forked
    /\ history.snatched \subseteq history'.snatched
    /\ \A d, r : Settled(d, r) => Settled(d, r)'
    /\ \A r : DeleteOf(r) => DeleteOf(r)'

\* What a step may do to the runtime of others: a fork rebinds it and notes that,
Rebinds ==
    \A d \in Daemons, r \in Requests :
        Settled(d, r) =>
            \/ runtimes'[r] = runtimes[r]
            \/ /\ r \in live /\ r \in live'
               /\ {runtimes[r], runtimes'[r]} \subseteq history'.forked
               /\ {<<d, runtimes[r]>>, <<d, runtimes'[r]>>} \subseteq history'.strays
               /\ BeingDisposed(d, r) => r \in history'.snatched

\* a delete tears it down,
Spares ==
    \A d \in Daemons, r \in Requests :
        Settled(d, r) /\ r \in live => r \in live' \/ DeleteOf(r)'

\* and either unregisters it, or another one of its session.
Unregisters ==
    \A d \in Daemons, s \in Sessions :
        registry[d][s] # NoRuntime => registry'[d][s] = registry[d][s] \/ Excused(d, s)'

\* A lease is given up under nothing that is about to release it.
LeavesLeases ==
    \A d \in alive, s \in Sessions :
        Leaving(d, s) /\ lease[s] = d => lease'[s] = d \/ Excused(d, s)'

-----------------------------------------------------------------------------
\* The request x that another one's step does not concern.
LEMMA OthersStayApt ==
    ASSUME KInv, Onward, Rebinds, Spares, Unregisters, UNCHANGED <<alive, disposal>>,
           NEW x \in Requests, request'[x] = request[x]
    PROVE  Apt(request[x])'
<1>1. PICK r : request[x] = r /\ request'[x] = r
  OBVIOUS
<1> DEFINE t == r.runtime
           d == r.daemon
<1>0. Apt(r) /\ r \in RequestStates /\ (r.step \notin {"free", "done"} => d \in Daemons)
  BY <1>1, OfRequest DEF KInv
<1>2. r.step \notin {"free", "done"} /\ t # NoRuntime =>
         t \in Requests /\ Settled(d, t) /\ Settled(d, t)'
  BY <1>0 DEF Apt, Onward, Settled
<1>3. r.step \notin {"free", "done"} /\ t # NoRuntime =>
         \/ runtimes'[t] = runtimes[t]
         \/ /\ t \in live' /\ runtimes'[t] \in history'.forked
            /\ <<d, runtimes'[t]>> \in history'.strays
  BY <1>0, <1>2 DEF Rebinds
<1>4. r.step = "dispose" => \/ runtimes'[t] = r.session
                            \/ <<d, runtimes'[t]>> \in history'.strays
  BY <1>0, <1>3 DEF Apt, Onward
<1>5. r.step = "lose" => \/ Excused(d, runtimes[t])'
                         \/ runtimes'[t] = r.session /\ registry'[d][r.session] = t
  <2> SUFFICES ASSUME r.step = "lose"
               PROVE  \/ Excused(d, runtimes[t])'
                      \/ runtimes'[t] = r.session /\ registry'[d][r.session] = t
    OBVIOUS
  <2>1. r.op \in Opens /\ t # NoRuntime
    BY <1>0 DEF Apt
  <2>2. CASE runtimes'[t] # runtimes[t]
    BY <1>3, <2>1, <2>2 DEF Excused
  <2>3. CASE runtimes'[t] = runtimes[t] /\ Excused(d, runtimes[t])
    BY <2>3 DEF Onward
  <2>4. CASE /\ runtimes'[t] = runtimes[t] /\ runtimes[t] = r.session
             /\ registry[d][r.session] = t
    <3>1. r.session \in Sessions
      BY <1>0, <2>1 DEF Apt
    <3> QED BY <1>0, <2>1, <2>4, <3>1 DEF Unregisters
  <2> QED BY <1>0, <2>2, <2>3, <2>4 DEF Apt
<1>6. r.step \in {"using", "lose"} /\ runtimes'[t] = r.session =>
         t \in live' \cup history'.snatched \/ DeleteOf(t)'
  <2> SUFFICES ASSUME r.step \in {"using", "lose"}, runtimes'[t] = r.session
               PROVE  t \in live' \cup history'.snatched \/ DeleteOf(t)'
    OBVIOUS
  <2>1. t \in Requests /\ Settled(d, t) /\ d \in Daemons
    BY <1>0, <1>2 DEF Apt
  <2>2. CASE runtimes'[t] = runtimes[t]
    <3>1. t \in live \cup history.snatched \/ DeleteOf(t)
      BY <1>0, <2>2 DEF Apt, DeleteOf
    <3> QED BY <2>1, <3>1 DEF Spares, Onward
  <2>3. CASE t \in live'
    BY <2>3
  <2> QED BY <1>0, <1>3, <2>1, <2>2, <2>3 DEF Apt
<1>7. /\ r.op = "ensure" /\ r.step \in {"lease", "create"} =>
            r.leased \in {r.session, NoSession} \/ <<d, r.leased>> \in history'.strays
      /\ r.step = "forked" => <<d, r.leased>> \in history'.strays /\ r.leased \in history'.forked
  BY <1>0 DEF Apt, Onward
<1>8. (r.step \notin {"free", "done", "wait"} /\ r.op \in Opens) =>
          disposal'[d][r.session].step = "none"
  BY <1>0 DEF Apt
<1> QED BY <1>0, <1>1, <1>2, <1>4, <1>5, <1>6, <1>7, <1>8 DEF Apt, DeleteOf

\* An idle disposal under way.
LEMMA DisposalsGoOn ==
    ASSUME KInv, Onward, Rebinds, Unregisters, LeavesLeases, UNCHANGED <<alive, disposal>>,
           NEW d \in Daemons, NEW s \in Sessions
    PROVE  Ending(d, s)'
<1>1. PICK p : disposal[d][s] = p /\ disposal'[d][s] = p
  OBVIOUS
<1> DEFINE r == p.runtime
<1>2. Ending(d, s) /\ p \in Disposals
  BY <1>1 DEF KInv
<1>3. p.step # "none" => d \in alive /\ r \in Requests /\ Settled(d, r) /\ Settled(d, r)'
  BY <1>1, <1>2 DEF Ending, Onward, Settled
<1>4. p.step = "dispose" =>
         /\ \/ runtimes'[r] = s
            \/ /\ r \in history'.snatched
               /\ <<d, runtimes'[r]>> \in history'.strays
               /\ runtimes'[r] \in history'.forked
         /\ registry'[d][s] = r \/ Excused(d, s)'
  <2> SUFFICES ASSUME p.step = "dispose"
               PROVE  /\ \/ runtimes'[r] = s
                         \/ /\ r \in history'.snatched
                            /\ <<d, runtimes'[r]>> \in history'.strays
                            /\ runtimes'[r] \in history'.forked
                      /\ registry'[d][s] = r \/ Excused(d, s)'
    OBVIOUS
  <2>1. /\ \/ runtimes[r] = s
           \/ /\ r \in history.snatched
              /\ <<d, runtimes[r]>> \in history.strays
              /\ runtimes[r] \in history.forked
        /\ registry[d][s] = r \/ Excused(d, s)
    BY <1>1, <1>2 DEF Ending
  <2>2. \/ runtimes'[r] = runtimes[r]
        \/ /\ runtimes'[r] \in history'.forked
           /\ <<d, runtimes'[r]>> \in history'.strays
           /\ r \in history'.snatched
    BY <1>1, <1>3 DEF Rebinds, BeingDisposed
  <2>3. r # NoRuntime
    BY <1>3, ResidencyAssumption
  <2> QED BY <2>1, <2>2, <2>3 DEF Onward, Unregisters
<1>5. p.step \in {"stat", "release"} => lease'[s] = d \/ Excused(d, s)'
  <2>1. p.step \in {"stat", "release"} => lease[s] = d \/ Excused(d, s)
    BY <1>1, <1>2 DEF Ending
  <2> QED BY <1>1, <1>3, <2>1 DEF Onward, LeavesLeases, Leaving
<1>6. p.step \in {"stat", "release"} /\ runtimes'[r] # s => Excused(d, s)'
  <2> SUFFICES ASSUME p.step \in {"stat", "release"}, runtimes'[r] # s
               PROVE  Excused(d, s)'
    OBVIOUS
  <2>1. CASE runtimes[r] = s
    BY <1>3, <2>1 DEF Rebinds, Excused
  <2>2. CASE runtimes[r] # s
    BY <1>1, <1>2, <2>2 DEF Ending, Onward
  <2> QED BY <2>1, <2>2
<1>7. p.step = "release" /\ ~p.ephemeral => Excused(d, s)'
  BY <1>1, <1>2 DEF Ending, Onward
<1>8. p.step = "none" => p = NoDisposal
  BY <1>1, <1>2 DEF Ending
<1> QED BY <1>1, <1>3, <1>4, <1>5, <1>6, <1>7, <1>8 DEF Ending

\* What a daemon remembers, if the step remembers nothing else.
LEMMA MemoryStays ==
    ASSUME KInv, Onward, Rebinds, Unregisters, UNCHANGED <<disposal>>, NEW d \in Daemons
    PROVE  /\ dormant'[d] = dormant[d] =>
                (dormant[d] # NoSession =>
                    \/ Excused(d, dormant[d])' \/ registry'[d][dormant[d]] # NoRuntime
                    \/ Leaving(d, dormant[d])')
           /\ active'[d] = active[d] /\ dormant'[d] = dormant[d] => Remembered(d)'
<1>1. PICK s, r : s = dormant[d] /\ r = active[d]
  OBVIOUS
<1>2. /\ s \in Sessions \cup {NoSession} /\ r \in Requests \cup {NoRuntime}
      /\ Remembered(d)
  BY <1>1 DEF KInv, IInv, Types
<1>3. s # NoSession => Excused(d, s)' \/ registry'[d][s] # NoRuntime \/ Leaving(d, s)'
  BY <1>1, <1>2 DEF Remembered, Recalled, AtWork, Onward, Unregisters, Leaving
<1>4. r # NoRuntime => /\ Settled(d, r)'
                       /\ \/ Excused(d, runtimes[r])'
                          \/ registry'[d][runtimes'[r]] = r
                          \/ /\ Leaving(d, runtimes[r])'
                             /\ disposal'[d][runtimes'[r]].runtime = r
  <2> SUFFICES ASSUME r # NoRuntime
               PROVE  /\ Settled(d, r)'
                      /\ \/ Excused(d, runtimes[r])'
                         \/ registry'[d][runtimes'[r]] = r
                         \/ /\ Leaving(d, runtimes[r])'
                            /\ disposal'[d][runtimes'[r]].runtime = r
    OBVIOUS
  <2>1. /\ r \in Requests /\ Settled(d, r) /\ Settled(d, r)'
        /\ \/ Excused(d, runtimes[r])
           \/ registry[d][runtimes[r]] = r
           \/ Leaving(d, runtimes[r]) /\ disposal[d][runtimes[r]].runtime = r
    BY <1>1, <1>2 DEF Remembered, Recalled, AtWork, Onward
  <2>2. CASE runtimes'[r] # runtimes[r]
    <3>1. runtimes'[r] \in history'.forked
      BY <2>1, <2>2 DEF Rebinds
    <3> QED BY <2>1, <3>1 DEF Excused
  <2>3. CASE runtimes'[r] = runtimes[r]
    <3>1. runtimes[r] \in Sessions
      BY <2>1 DEF Settled
    <3> QED BY <2>1, <2>3, <3>1, ResidencyAssumption DEF Onward, Unregisters, Leaving
  <2> QED BY <2>2, <2>3
<1> QED BY <1>1, <1>3, <1>4 DEF Remembered, Recalled, AtWork

\* A step of request c, while no disposal moves.
LEMMA RequestKeeps ==
    ASSUME KInv, IInv', Onward, Rebinds, Spares, Unregisters, LeavesLeases,
           UNCHANGED <<alive, disposal>>,
           NEW c \in Requests, \A x \in Requests \ {c} : request'[x] = request[x],
           Apt(request[c])',
           \A d \in Daemons, s \in Sessions : Registered(d, s)',
           \A d \in alive, s \in Sessions : lease'[s] = d => Kept(d, s)',
           \A d \in Daemons : Remembered(d)'
    PROVE  KInv'
<1>1. \A x \in Requests : Apt(request[x])'
  <2> SUFFICES ASSUME NEW x \in Requests PROVE Apt(request[x])'
    OBVIOUS
  <2>1. CASE x = c
    BY <2>1
  <2>2. CASE x # c
    BY <2>2, OthersStayApt
  <2> QED BY <2>1, <2>2
<1>2. \A d \in Daemons, s \in Sessions : Ending(d, s)'
  BY DisposalsGoOn
<1>3. disposal' \in [Daemons -> [Sessions -> Disposals]]
  BY DEF KInv
<1> QED BY <1>1, <1>2, <1>3 DEF KInv

\* Whatever a lease was kept for besides c and what is registered.
LEMMA StaysKept ==
    ASSUME Onward, UNCHANGED disposal,
           NEW c \in Requests, \A x \in Requests \ {c} : request'[x] = request[x],
           NEW d, NEW s, Kept(d, s),
           registry[d][s] = NoRuntime \/ Kept(d, s)',
           \/ ~(request[c].step \in Keeping /\ request[c].daemon = d /\ request[c].leased = s)
           \/ Kept(d, s)'
    PROVE  Kept(d, s)'
BY DEF Kept, Onward, Leaving

\* A step of request c and of nothing else.
LEMMA AsideKeeps ==
    ASSUME KInv, IInv', Onward,
           UNCHANGED <<alive, lease, registry, runtimes, live, active, dormant, disposal>>,
           NEW c \in Requests, \A x \in Requests \ {c} : request'[x] = request[x],
           Apt(request[c])',
           \A d \in alive, s \in Sessions :
              /\ lease[s] = d
              /\ request[c].step \in Keeping /\ request[c].daemon = d /\ request[c].leased = s
              => Kept(d, s)'
    PROVE  KInv'
<1>1. Rebinds /\ Spares /\ Unregisters /\ LeavesLeases
  BY DEF Rebinds, Spares, Unregisters, LeavesLeases
<1>2. \A d \in Daemons, s \in Sessions : Registered(d, s)'
  BY DEF KInv, Registered, Onward
<1>3. \A d \in Daemons : Remembered(d)'
  BY <1>1, MemoryStays
<1>4. ASSUME NEW d \in alive, NEW s \in Sessions, lease[s] = d
      PROVE  Kept(d, s)'
  <2>1. Kept(d, s) /\ (registry[d][s] = NoRuntime \/ Kept(d, s)')
    BY <1>4 DEF KInv, Kept
  <2>2. \/ ~(request[c].step \in Keeping /\ request[c].daemon = d /\ request[c].leased = s)
        \/ Kept(d, s)'
    BY <1>4
  <2> QED BY <2>1, <2>2, StaysKept
<1> QED BY <1>1, <1>2, <1>3, <1>4, RequestKeeps

\* A request's step takes nothing back if it starts no runtime anew and stays a delete.
LEMMA Goesward ==
    ASSUME NEW c \in Requests, \A x \in Requests \ {c} : request'[x] = request[x],
           request[c].step \in AfterStart =>
              request'[c].daemon = request[c].daemon /\ request'[c].step \in AfterStart,
           request[c].op = "delete" =>
              request'[c].op = "delete" /\ request'[c].runtime = request[c].runtime,
           \A r \in Requests :
              request[r].step \in AfterStart /\ runtimes[r] \in Sessions =>
                 runtimes'[r] \in Sessions,
           \A d, s : Excused(d, s) => Excused(d, s)',
           history.strays \subseteq history'.strays,
           history.forked \subseteq history'.forked,
           history.snatched \subseteq history'.snatched
    PROVE  Onward
BY DEF Onward, Settled, DeleteOf

\* A request's record after some of its fields changed.
LEMMA FieldsAfter ==
    ASSUME NEW r \in RequestStates, NEW x, NEW y
    PROVE  LET u == [r EXCEPT !.step = x]
               v == [r EXCEPT !.step = x, !.runtime = y]
               w == [r EXCEPT !.step = x, !.leased = y]
               z == [r EXCEPT !.leased = y, !.step = x]
           IN  /\ u.op = r.op /\ u.daemon = r.daemon /\ u.session = r.session /\ u.step = x
               /\ u.runtime = r.runtime /\ u.leased = r.leased /\ u.adopts = r.adopts
               /\ v.op = r.op /\ v.daemon = r.daemon /\ v.session = r.session /\ v.step = x
               /\ v.runtime = y /\ v.leased = r.leased /\ v.adopts = r.adopts
               /\ w.op = r.op /\ w.daemon = r.daemon /\ w.session = r.session /\ w.step = x
               /\ w.runtime = r.runtime /\ w.leased = y /\ w.adopts = r.adopts
               /\ z.op = r.op /\ z.daemon = r.daemon /\ z.session = r.session /\ z.step = x
               /\ z.runtime = r.runtime /\ z.leased = y /\ z.adopts = r.adopts
BY DEF RequestStates

\* The step of a request, field by field.
Turns(c, x) ==
    /\ request'[c].op = request[c].op /\ request'[c].daemon = request[c].daemon
    /\ request'[c].session = request[c].session /\ request'[c].step = x
    /\ \A o \in Requests \ {c} : request'[o] = request[o]

LEMMA GoesToTurns ==
    ASSUME IInv, NEW c \in Requests, NEW x, GoesTo(c, x)
    PROVE  /\ Turns(c, x) /\ request'[c].runtime = request[c].runtime
           /\ request'[c].leased = request[c].leased
<1>1. PICK r : r = request[c]
  OBVIOUS
<1>2. r \in RequestStates /\ request'[c] = [r EXCEPT !.step = x]
      /\ \A o \in Requests \ {c} : request'[o] = request[o]
  BY <1>1 DEF IInv, GoesTo, Goes
<1> QED BY <1>1, <1>2, FieldsAfter DEF Turns

LEMMA GoesOnTurns ==
    ASSUME IInv, NEW c \in Requests, NEW u, Goes(c, u)
    PROVE  request'[c] = u /\ \A o \in Requests \ {c} : request'[o] = request[o]
BY DEF IInv, Goes

LEMMA GoesOnWith ==
    ASSUME IInv, NEW c \in Requests, NEW x, NEW y
    PROVE  /\ Goes(c, [request[c] EXCEPT !.step = x, !.runtime = y]) =>
                 Turns(c, x) /\ request'[c].runtime = y /\ request'[c].leased = request[c].leased
           /\ Goes(c, [request[c] EXCEPT !.step = x, !.leased = y]) =>
                 Turns(c, x) /\ request'[c].leased = y /\ request'[c].runtime = request[c].runtime
           /\ Goes(c, [request[c] EXCEPT !.leased = y, !.step = x]) =>
                 Turns(c, x) /\ request'[c].leased = y /\ request'[c].runtime = request[c].runtime
<1>1. PICK r : r = request[c]
  OBVIOUS
<1>2. r \in RequestStates
      /\ \A u : Goes(c, u) =>
            request'[c] = u /\ \A o \in Requests \ {c} : request'[o] = request[o]
  BY <1>1 DEF IInv, Goes
<1>3. ASSUME Goes(c, [request[c] EXCEPT !.step = x, !.runtime = y])
      PROVE  Turns(c, x) /\ request'[c].runtime = y /\ request'[c].leased = request[c].leased
  <2> DEFINE u == [r EXCEPT !.step = x, !.runtime = y]
  <2>1. Goes(c, u)
    BY <1>1, <1>3
  <2>2. request'[c] = u /\ \A o \in Requests \ {c} : request'[o] = request[o]
    BY <1>2, <2>1
  <2>3. /\ u.op = r.op /\ u.daemon = r.daemon /\ u.session = r.session /\ u.step = x
        /\ u.runtime = y /\ u.leased = r.leased
    BY <1>2, FieldsAfter
  <2> HIDE DEF u
  <2> QED BY <1>1, <2>2, <2>3 DEF Turns
<1>4. ASSUME Goes(c, [request[c] EXCEPT !.step = x, !.leased = y])
      PROVE  Turns(c, x) /\ request'[c].leased = y /\ request'[c].runtime = request[c].runtime
  <2> DEFINE u == [r EXCEPT !.step = x, !.leased = y]
  <2>1. Goes(c, u)
    BY <1>1, <1>4
  <2>2. request'[c] = u /\ \A o \in Requests \ {c} : request'[o] = request[o]
    BY <1>2, <2>1
  <2>3. /\ u.op = r.op /\ u.daemon = r.daemon /\ u.session = r.session /\ u.step = x
        /\ u.leased = y /\ u.runtime = r.runtime
    BY <1>2, FieldsAfter
  <2> HIDE DEF u
  <2> QED BY <1>1, <2>2, <2>3 DEF Turns
<1>5. ASSUME Goes(c, [request[c] EXCEPT !.leased = y, !.step = x])
      PROVE  Turns(c, x) /\ request'[c].leased = y /\ request'[c].runtime = request[c].runtime
  <2> DEFINE u == [r EXCEPT !.leased = y, !.step = x]
  <2>1. Goes(c, u)
    BY <1>1, <1>5
  <2>2. request'[c] = u /\ \A o \in Requests \ {c} : request'[o] = request[o]
    BY <1>2, <2>1
  <2>3. /\ u.op = r.op /\ u.daemon = r.daemon /\ u.session = r.session /\ u.step = x
        /\ u.leased = y /\ u.runtime = r.runtime
    BY <1>2, FieldsAfter
  <2> HIDE DEF u
  <2> QED BY <1>1, <2>2, <2>3 DEF Turns
<1> QED BY <1>3, <1>4, <1>5

\* And if it ends, nothing more is asked of it.
LEMMA DoneIsApt ==
    ASSUME KInv, NEW c \in Requests, Turns(c, "done")
    PROVE  Apt(request[c])'
<1>1. request[c].op \in Opens => request[c].session \in Sessions
  BY DEF KInv, Apt
<1>2. /\ request'[c].op = request[c].op /\ request'[c].session = request[c].session
      /\ request'[c].step = "done"
  BY DEF Turns
<1>3. PICK r : request'[c] = r
  OBVIOUS
<1> QED BY <1>1, <1>2, <1>3 DEF Apt

-----------------------------------------------------------------------------
(* Opening and using. *)

\* A step that touches neither files nor notes takes nothing back.
LEMMA NotesStay ==
    ASSUME UNCHANGED <<files, history>>
    PROVE  /\ \A d, s : Excused(d, s) => Excused(d, s)'
           /\ history.strays \subseteq history'.strays
           /\ history.forked \subseteq history'.forked
           /\ history.snatched \subseteq history'.snatched
BY DEF Excused

LEMMA LookUpKeepsAll ==
    ASSUME KInv, IInv', NEW c \in Requests, NEW r \in RequestStates,
           r.daemon \in alive, r.session \in Sessions, r.op \in Opens, r.runtime = NoRuntime,
           request[c].step \in {"free", "wait"}, request[c].op # "delete",
           disposal[r.daemon][r.session] = NoDisposal,
           LookUp(c, r),
           UNCHANGED <<shared, registry, runtimes, live, dormant, disposal, history>>
    PROVE  KInv'
<1>1. PICK d, s, found : d = r.daemon /\ s = r.session /\ found = registry[d][s]
  OBVIOUS
<1>2. /\ d \in Daemons /\ d \in alive /\ s \in Sessions /\ Registered(d, s)
      /\ disposal[d][s].step = "none"
  BY <1>1 DEF KInv, IInv, Types, NoDisposal
<1>3. UNCHANGED <<alive, files, lease, registry, runtimes, live, dormant, disposal, history>>
  BY DEF shared
<1>4. CASE found # NoRuntime
  <2> DEFINE u == [r EXCEPT !.step = "using", !.runtime = found]
  <2>1. Goes(c, u) /\ active' = [active EXCEPT ![d] = found]
    BY <1>1, <1>4 DEF LookUp
  <2>2. /\ u.op = r.op /\ u.daemon = d /\ u.session = s /\ u.step = "using"
        /\ u.runtime = found
    BY <1>1, FieldsAfter
  <2>3. request'[c] = u /\ \A o \in Requests \ {c} : request'[o] = request[o]
    BY <2>1, GoesOnTurns DEF KInv
  <2> HIDE DEF u
  <2>4. Onward
    BY <1>3, <2>3, NotesStay, Goesward DEF AfterStart
  <2>5. Settled(d, found) /\ Settled(d, found)' /\ found \in live /\ runtimes[found] = s
    BY <1>1, <1>2, <1>4, <2>4 DEF Registered, Onward
  <2>6. Apt(request[c])'
    BY <1>2, <1>3, <1>4, <2>2, <2>3, <2>5 DEF Apt, Opens
  <2>7. Rebinds /\ Spares /\ Unregisters /\ LeavesLeases
    BY <1>3 DEF Rebinds, Spares, Unregisters, LeavesLeases
  <2>8. \A e \in Daemons, t \in Sessions : Registered(e, t)'
    BY <1>3, <2>4 DEF KInv, Registered, Onward
  <2>9. ASSUME NEW e \in Daemons PROVE Remembered(e)'
    <3>1. CASE e # d
      <4>1. active'[e] = active[e] /\ dormant'[e] = dormant[e]
        BY <1>3, <2>1, <3>1 DEF KInv, IInv, Types
      <4> QED BY <1>3, <2>4, <2>7, <4>1, MemoryStays
    <3>2. CASE e = d
      <4>1. active'[d] = found
        BY <1>2, <2>1 DEF KInv, IInv, Types
      <4>2. dormant[d] # NoSession =>
               \/ Excused(d, dormant[d])' \/ registry'[d][dormant[d]] # NoRuntime
               \/ Leaving(d, dormant[d])'
        BY <1>2, <1>3, <2>4, <2>7, MemoryStays
      <4> QED BY <1>1, <1>3, <2>5, <3>2, <4>1, <4>2 DEF Remembered, Recalled, AtWork
    <3> QED BY <3>1, <3>2
  <2>10. ASSUME NEW e \in alive, NEW t \in Sessions, lease'[t] = e PROVE Kept(e, t)'
    <3>1. Kept(e, t) /\ (registry[e][t] = NoRuntime \/ Kept(e, t)')
      BY <1>3, <2>10 DEF KInv, Kept
    <3> QED BY <1>3, <2>3, <2>4, <3>1, StaysKept DEF Keeping
  <2> QED BY <1>3, <2>3, <2>4, <2>6, <2>7, <2>8, <2>9, <2>10, RequestKeeps
<1>5. CASE found = NoRuntime
  <2> DEFINE u == [r EXCEPT !.step = "find"]
  <2>1. Goes(c, u) /\ active' = active
    BY <1>1, <1>5 DEF LookUp
  <2>2. /\ u.op = r.op /\ u.daemon = d /\ u.session = s /\ u.step = "find"
        /\ u.runtime = NoRuntime
    BY <1>1, FieldsAfter
  <2>3. request'[c] = u /\ \A o \in Requests \ {c} : request'[o] = request[o]
    BY <2>1, GoesOnTurns DEF KInv
  <2> HIDE DEF u
  <2>4. Onward
    BY <1>3, <2>3, NotesStay, Goesward DEF AfterStart
  <2>5. Apt(request[c])'
    BY <1>2, <1>3, <2>2, <2>3 DEF Apt, Opens
  <2> QED BY <1>3, <2>1, <2>3, <2>4, <2>5, AsideKeeps DEF Keeping
<1> QED BY <1>4, <1>5

LEMMA OpenKeepsAll ==
    ASSUME KInv, NEW c \in Requests, NEW d \in Daemons, NEW s \in Sessions,
           NEW op \in {"open", "fork"}, Open(c, d, s, op)
    PROVE  KInv'
<1>1. IInv'
  BY OpenKeeps DEF KInv
<1> DEFINE r == [NotServed EXCEPT !.op = op, !.daemon = d, !.session = s]
<1>2. /\ r \in RequestStates /\ r.daemon = d /\ r.session = s /\ r.op = op
      /\ r.runtime = NoRuntime
  BY DEF NotServed, RequestStates, Steps
<1>3. /\ d \in alive /\ request[c].step = "free" /\ request[c].op = "none"
      /\ UNCHANGED <<shared, registry, runtimes, live, dormant, disposal, history>>
  BY DEF Open, KInv, Apt
<1>4. CASE disposal[d][s] # NoDisposal
  <2> DEFINE u == [r EXCEPT !.step = "wait"]
  <2>1. Goes(c, u) /\ active' = active
    BY <1>4 DEF Open
  <2>2. /\ u.op = op /\ u.daemon = d /\ u.session = s /\ u.step = "wait"
        /\ u.runtime = NoRuntime
    BY <1>2, FieldsAfter
  <2>3. request'[c] = u /\ \A o \in Requests \ {c} : request'[o] = request[o]
    BY <2>1, GoesOnTurns DEF KInv
  <2> HIDE DEF u
  <2>4. Onward
    BY <1>3, <2>3, NotesStay, Goesward DEF AfterStart, shared
  <2>5. Apt(request[c])'
    BY <2>2, <2>3 DEF Apt, Opens
  <2> QED BY <1>1, <1>3, <2>1, <2>3, <2>4, <2>5, AsideKeeps DEF Keeping, shared
<1>5. CASE disposal[d][s] = NoDisposal
  <2>1. LookUp(c, r)
    BY <1>5 DEF Open
  <2> QED BY <1>1, <1>2, <1>3, <1>5, <2>1, LookUpKeepsAll DEF Opens
<1> QED BY <1>4, <1>5

LEMMA DisposalAwaitedKeepsAll ==
    ASSUME KInv, NEW c \in Requests, DisposalAwaited(c)
    PROVE  KInv'
<1>1. IInv'
  BY DisposalAwaitedKeeps DEF KInv
<1>2. PICK r : r = request[c]
  OBVIOUS
<1>3. /\ r \in RequestStates /\ r.step = "wait" /\ r.daemon \in alive /\ r.session \in Sessions
      /\ Apt(r) /\ LookUp(c, r) /\ disposal[r.daemon][r.session] = NoDisposal
      /\ UNCHANGED <<shared, registry, runtimes, live, dormant, disposal, history>>
  BY <1>2, OfRequest DEF DisposalAwaited, Sound, KInv
<1> QED BY <1>1, <1>2, <1>3, LookUpKeepsAll DEF Apt, Opens

LEMMA FindKeepsAll ==
    ASSUME KInv, NEW c \in Requests, Find(c)
    PROVE  KInv'
<1>1. IInv' /\ IInv
  BY FindKeeps DEF KInv
<1>2. /\ UNCHANGED <<alive, files, lease, registry, runtimes, live, active, dormant,
                     disposal, history>>
      /\ request[c].step = "find" /\ Apt(request[c])
  BY DEF Find, shared, resident, KInv
<1>3. \/ Turns(c, "done") /\ request'[c].runtime = request[c].runtime
      \/ /\ Turns(c, "lease") /\ request'[c].runtime = request[c].runtime
         /\ request'[c].leased = request[c].session
  <2>1. PICK s : s = request[c].session
    OBVIOUS
  <2>2. \/ GoesTo(c, "done")
        \/ Goes(c, [request[c] EXCEPT !.step = "lease", !.leased = s])
    BY <2>1 DEF Find
  <2>3. GoesTo(c, "done") => Turns(c, "done") /\ request'[c].runtime = request[c].runtime
    BY <1>1, GoesToTurns
  <2>4. Goes(c, [request[c] EXCEPT !.step = "lease", !.leased = s]) =>
           /\ Turns(c, "lease") /\ request'[c].leased = s
           /\ request'[c].runtime = request[c].runtime
    BY <1>1, GoesOnWith
  <2> QED BY <2>1, <2>2, <2>3, <2>4
<1>4. Onward
  BY <1>2, <1>3, NotesStay, Goesward DEF AfterStart, Turns
<1>5. Apt(request[c])'
  <2>1. CASE Turns(c, "done")
    BY <2>1, DoneIsApt
  <2>2. CASE /\ Turns(c, "lease") /\ request'[c].runtime = request[c].runtime
             /\ request'[c].leased = request[c].session
    BY <1>2, <1>4, <2>2 DEF Turns, Apt, Onward
  <2> QED BY <1>3, <2>1, <2>2
<1> QED BY <1>1, <1>2, <1>3, <1>4, <1>5, AsideKeeps DEF Keeping, Turns

LEMMA UseKeepsAll ==
    ASSUME KInv, NEW c \in Requests, Use(c)
    PROVE  KInv'
<1>1. IInv' /\ IInv
  BY UseKeeps DEF KInv
<1>2. /\ UNCHANGED <<alive, lease, registry, runtimes, live, active, dormant, disposal, history>>
      /\ files \subseteq files' /\ request[c].step = "using"
  BY DEF Use, resident
<1>3. Turns(c, "done") /\ request'[c].runtime = request[c].runtime
  BY <1>1, GoesToTurns DEF Use
<1>4. \A d, s : Excused(d, s) => Excused(d, s)'
  BY <1>2 DEF Excused
<1>5. Onward
  BY <1>2, <1>3, <1>4, Goesward DEF AfterStart, Turns
<1> QED BY <1>1, <1>2, <1>3, <1>5, DoneIsApt, AsideKeeps DEF Keeping, Turns

\* A request that is not past its start does nothing to what others know, whatever
\* runtime it creates or disposes of.
LEMMA OthersUntouched ==
    ASSUME KInv, NEW c \in Requests, \A x \in Requests \ {c} : request'[x] = request[x],
           request[c].step \notin AfterStart,
           request[c].op = "delete" =>
              request'[c].op = "delete" /\ request'[c].runtime = request[c].runtime,
           \A r \in Requests \ {c} : runtimes'[r] = runtimes[r] /\ (r \in live => r \in live'),
           \A e \in Daemons, t \in Sessions :
              registry[e][t] # NoRuntime => registry'[e][t] = registry[e][t],
           \A d, s : Excused(d, s) => Excused(d, s)',
           history.strays \subseteq history'.strays,
           history.forked \subseteq history'.forked,
           history.snatched \subseteq history'.snatched,
           \A d \in alive, s \in Sessions : Leaving(d, s) /\ lease[s] = d => lease'[s] = d
    PROVE  /\ Onward /\ Rebinds /\ Spares /\ Unregisters /\ LeavesLeases
           /\ \A e \in Daemons, t \in Sessions :
                 registry[e][t] # NoRuntime => Registered(e, t)'
<1>1. Onward
  BY Goesward
<1>2. Rebinds /\ Spares /\ Unregisters /\ LeavesLeases
  BY DEF Rebinds, Spares, Unregisters, LeavesLeases, Settled
<1>3. ASSUME NEW e \in Daemons, NEW t \in Sessions, registry[e][t] # NoRuntime
      PROVE  Registered(e, t)'
  <2>1. PICK r : r = registry[e][t]
    OBVIOUS
  <2>2. Settled(e, r) /\ r \in live /\ runtimes[r] = t /\ registry'[e][t] = r
    BY <1>3, <2>1 DEF KInv, Registered
  <2>3. Settled(e, r)' /\ r \in live' /\ runtimes'[r] = t
    BY <1>1, <2>2 DEF Onward, Settled
  <2> QED BY <2>2, <2>3 DEF Registered
<1> QED BY <1>1, <1>2, <1>3

LEMMA CreateForOpenKeepsAll ==
    ASSUME KInv, NEW c \in Requests, CreateForOpen(c)
    PROVE  KInv'
<1>1. IInv' /\ IInv
  BY CreateForOpenKeeps DEF KInv
<1>2. PICK d, s : d = request[c].daemon /\ s = request[c].session
  OBVIOUS
<1>3. /\ UNCHANGED <<alive, files, lease, disposal, history>>
      /\ request[c].step = "create" /\ request[c].op \in Opens /\ request[c].leased = s
      /\ Apt(request[c]) /\ d \in Daemons /\ d \in alive /\ s \in Sessions
      /\ registry[d][s] \in Requests \cup {NoRuntime} /\ disposal[d][s].step = "none"
  <2>1. /\ UNCHANGED <<alive, files, lease, disposal, history>>
        /\ request[c].step = "create" /\ request[c].op \in Opens
        /\ Apt(request[c]) /\ Sound(request[c], alive, Holding)
    BY <1>1, OfRequest DEF CreateForOpen, shared, KInv, Opens
  <2>2. d \in alive /\ d \in Daemons
    BY <1>1, <1>2, <2>1, OfRequest
  <2>3. s \in Sessions /\ request[c].leased = s /\ disposal[d][s].step = "none"
    BY <1>2, <2>1 DEF Sound, Apt, Opens
  <2>4. registry[d][s] \in Requests \cup {NoRuntime}
    BY <1>1, <2>2, <2>3 DEF IInv, Types, Registries
  <2> QED BY <2>1, <2>2, <2>3, <2>4
<1>4. CASE GoesTo(c, "release") /\ UNCHANGED resident
  <2>1. /\ Turns(c, "release") /\ request'[c].runtime = request[c].runtime
        /\ request'[c].leased = request[c].leased
        /\ UNCHANGED <<registry, runtimes, live, active, dormant>>
    BY <1>1, <1>4, GoesToTurns DEF resident
  <2>2. Onward
    BY <1>3, <2>1, NotesStay, Goesward DEF AfterStart, Turns
  <2>3. Apt(request[c])'
    BY <1>3, <2>1, <2>2 DEF Turns, Apt, Onward, Opens
  <2>4. \A e, t : request[c].daemon = e /\ request[c].leased = t => Kept(e, t)'
    BY <2>1 DEF Turns, Kept, Keeping
  <2> QED BY <1>1, <1>3, <2>1, <2>2, <2>3, <2>4, AsideKeeps DEF Turns
<1>5. CASE /\ registry[d][s] # NoRuntime
           /\ Goes(c, [request[c] EXCEPT !.step = "lose", !.runtime = registry[d][s]])
           /\ runtimes' = [runtimes EXCEPT ![c] = s] /\ live' = live \cup {c}
           /\ UNCHANGED <<registry, active, dormant>>
  <2>1. PICK r : r = registry[d][s]
    OBVIOUS
  <2>2. /\ Turns(c, "lose") /\ request'[c].runtime = r
        /\ request'[c].leased = request[c].leased
    BY <1>1, <1>5, <2>1, GoesOnWith
  <2>3. \A x \in Requests \ {c} : runtimes'[x] = runtimes[x] /\ (x \in live => x \in live')
    BY <1>5 DEF KInv, IInv, Types
  <2>4. /\ Onward /\ Rebinds /\ Spares /\ Unregisters /\ LeavesLeases
        /\ \A e \in Daemons, t \in Sessions : registry[e][t] # NoRuntime => Registered(e, t)'
    BY <1>3, <1>5, <2>2, <2>3, NotesStay, OthersUntouched DEF AfterStart, Turns, Opens
  <2>5. /\ r # NoRuntime /\ Settled(d, r)' /\ runtimes'[r] = s /\ r \in live'
    BY <1>3, <1>5, <2>1, <2>4 DEF Registered
  <2>6. Apt(request[c])'
    BY <1>2, <1>3, <1>5, <2>1, <2>2, <2>5 DEF Turns, Apt, Opens
  <2>7. \A e \in Daemons, t \in Sessions : Registered(e, t)'
    BY <1>5, <2>4 DEF Registered
  <2>8. \A e \in Daemons : Remembered(e)'
    BY <1>3, <1>5, <2>4, MemoryStays
  <2>9. ASSUME NEW e \in alive, NEW t \in Sessions, lease'[t] = e PROVE Kept(e, t)'
    <3>1. Kept(e, t) /\ (registry[e][t] = NoRuntime \/ Kept(e, t)')
      BY <1>3, <1>5, <2>9 DEF KInv, Kept
    <3>2. request[c].daemon = e /\ request[c].leased = t => Kept(e, t)'
      BY <1>2, <1>3, <1>5 DEF Kept
    <3> QED BY <1>3, <2>2, <2>4, <3>1, <3>2, StaysKept DEF Turns
  <2> QED BY <1>1, <1>3, <2>2, <2>4, <2>6, <2>7, <2>8, <2>9, RequestKeeps DEF Turns
<1>6. CASE /\ registry[d][s] = NoRuntime
           /\ Goes(c, [request[c] EXCEPT !.step = "using", !.runtime = c])
           /\ runtimes' = [runtimes EXCEPT ![c] = s] /\ live' = live \cup {c}
           /\ registry' = [registry EXCEPT ![d][s] = c]
           /\ active' = [active EXCEPT ![d] = c]
           /\ dormant' = [dormant EXCEPT ![d] = s]
  <2>1. /\ Turns(c, "using") /\ request'[c].runtime = c
        /\ request'[c].leased = request[c].leased
    BY <1>1, <1>6, GoesOnWith
  <2>2. \A x \in Requests \ {c} : runtimes'[x] = runtimes[x] /\ (x \in live => x \in live')
    BY <1>6 DEF KInv, IInv, Types
  <2>3. \A e \in Daemons, t \in Sessions :
           registry'[e][t] = registry[e][t] \/ (e = d /\ t = s /\ registry'[e][t] = c)
    BY <1>1, <1>6, OneEntry DEF Put, IInv, Types
  <2>4. /\ Onward /\ Rebinds /\ Spares /\ Unregisters /\ LeavesLeases
        /\ \A e \in Daemons, t \in Sessions : registry[e][t] # NoRuntime => Registered(e, t)'
    <3>1. \A e \in Daemons, t \in Sessions :
             registry[e][t] # NoRuntime => registry'[e][t] = registry[e][t]
      BY <1>6, <2>3
    <3> QED BY <1>3, <2>1, <2>2, <3>1, NotesStay, OthersUntouched DEF AfterStart, Turns, Opens
  <2>5. /\ Settled(d, c)' /\ runtimes'[c] = s /\ c \in live' /\ c # NoRuntime
        /\ registry'[d][s] = c /\ active'[d] = c /\ dormant'[d] = s
    BY <1>1, <1>2, <1>3, <1>6, <2>1, ResidencyAssumption
       DEF Settled, Turns, AfterStart, IInv, Types, Registries
  <2>6. Apt(request[c])'
    BY <1>2, <1>3, <2>1, <2>5 DEF Turns, Apt, Opens
  <2>7. \A e \in Daemons, t \in Sessions : Registered(e, t)'
    <3> SUFFICES ASSUME NEW e \in Daemons, NEW t \in Sessions PROVE Registered(e, t)'
      OBVIOUS
    <3>1. CASE e = d /\ t = s
      BY <2>5, <3>1 DEF Registered
    <3>2. CASE ~(e = d /\ t = s)
      BY <2>3, <2>4, <3>2 DEF Registered
    <3> QED BY <3>1, <3>2
  <2>8. ASSUME NEW e \in Daemons PROVE Remembered(e)'
    <3>1. CASE e # d
      <4>1. active'[e] = active[e] /\ dormant'[e] = dormant[e]
        BY <1>1, <1>6, <3>1 DEF IInv, Types
      <4> QED BY <1>3, <2>4, <4>1, MemoryStays
    <3>2. CASE e = d
      BY <2>5, <3>2 DEF Remembered, Recalled, AtWork
    <3> QED BY <3>1, <3>2
  <2>9. ASSUME NEW e \in alive, NEW t \in Sessions, lease'[t] = e PROVE Kept(e, t)'
    <3>1. Kept(e, t) /\ (registry[e][t] = NoRuntime \/ Kept(e, t)')
      <4>1. registry[e][t] # NoRuntime => registry'[e][t] # NoRuntime
        BY <1>1, <1>6, <2>3, <2>9, <2>5 DEF IInv, Types
      <4> QED BY <1>3, <2>9, <4>1 DEF KInv, Kept
    <3>2. request[c].daemon = e /\ request[c].leased = t => Kept(e, t)'
      BY <1>2, <1>3, <2>5 DEF Kept
    <3> QED BY <1>3, <2>1, <2>4, <3>1, <3>2, StaysKept DEF Turns
  <2> QED BY <1>1, <1>3, <2>1, <2>4, <2>6, <2>7, <2>8, <2>9, RequestKeeps DEF Turns
<1> QED BY <1>2, <1>4, <1>5, <1>6 DEF CreateForOpen

LEMMA LoseKeepsAll ==
    ASSUME KInv, NEW c \in Requests, Lose(c)
    PROVE  KInv'
<1>1. IInv' /\ IInv
  BY LoseKeeps DEF KInv
<1>2. PICK d, r : d = request[c].daemon /\ r = request[c].runtime
  OBVIOUS
<1>3. /\ UNCHANGED <<alive, files, lease, registry, runtimes, dormant, disposal, history>>
      /\ request[c].step = "lose" /\ Apt(request[c]) /\ d \in Daemons
      /\ live' = live \ {c} /\ active' = [active EXCEPT ![d] = r]
  BY <1>1, <1>2, OfRequest DEF Lose, shared, KInv
<1>4. /\ Turns(c, "using") /\ request'[c].runtime = r
      /\ request'[c].leased = request[c].leased
  BY <1>1, <1>2, GoesToTurns DEF Lose
<1>5. /\ Onward /\ Rebinds /\ Spares /\ Unregisters /\ LeavesLeases
      /\ \A e \in Daemons, t \in Sessions : registry[e][t] # NoRuntime => Registered(e, t)'
  <2>1. request[c].op # "delete"
    BY <1>3 DEF Apt, Opens
  <2> QED BY <1>3, <1>4, <2>1, NotesStay, OthersUntouched DEF AfterStart, Turns
<1>6. /\ Settled(d, r) /\ Settled(d, r)' /\ r # c /\ r # NoRuntime
      /\ \/ Excused(d, runtimes[r])
         \/ runtimes[r] = request[c].session /\ registry[d][request[c].session] = r
  BY <1>2, <1>3, <1>5 DEF Apt, Onward, Settled, AfterStart
<1>7. Apt(request[c])'
  <2>1. r \in live \cup history.snatched \/ DeleteOf(r) \/ runtimes[r] # request[c].session
    BY <1>2, <1>3 DEF Apt, DeleteOf
  <2>2. r \in live' \cup history'.snatched \/ DeleteOf(r)' \/ runtimes'[r] # request[c].session
    BY <1>3, <1>5, <1>6, <2>1 DEF Onward
  <2>3. /\ request[c].op \in Opens /\ request[c].session \in Sessions
        /\ disposal[d][request[c].session].step = "none"
    BY <1>2, <1>3 DEF Apt
  <2> QED BY <1>2, <1>3, <1>4, <1>6, <2>2, <2>3 DEF Turns, Apt, Opens, DeleteOf
<1>8. \A e \in Daemons, t \in Sessions : Registered(e, t)'
  BY <1>3, <1>5 DEF Registered
<1>9. ASSUME NEW e \in Daemons PROVE Remembered(e)'
  <2>1. CASE e # d
    <3>1. active'[e] = active[e] /\ dormant'[e] = dormant[e]
      BY <1>1, <1>3, <2>1 DEF IInv, Types
    <3> QED BY <1>3, <1>5, <3>1, MemoryStays
  <2>2. CASE e = d
    <3>1. active'[d] = r
      BY <1>1, <1>3 DEF IInv, Types
    <3>2. dormant[d] # NoSession =>
             \/ Excused(d, dormant[d])' \/ registry'[d][dormant[d]] # NoRuntime
             \/ Leaving(d, dormant[d])'
      BY <1>3, <1>5, MemoryStays
    <3>3. Excused(d, runtimes[r])' \/ registry'[d][runtimes'[r]] = r
      BY <1>3, <1>5, <1>6 DEF Onward
    <3> QED BY <1>3, <1>6, <2>2, <3>1, <3>2, <3>3 DEF Remembered, Recalled, AtWork
  <2> QED BY <2>1, <2>2
<1>10. ASSUME NEW e \in alive, NEW t \in Sessions, lease'[t] = e PROVE Kept(e, t)'
  <2>1. Kept(e, t) /\ (registry[e][t] = NoRuntime \/ Kept(e, t)')
    BY <1>3, <1>10 DEF KInv, Kept
  <2> QED BY <1>3, <1>4, <1>5, <2>1, StaysKept DEF Turns, Keeping
<1> QED BY <1>1, <1>3, <1>4, <1>5, <1>7, <1>8, <1>9, <1>10, RequestKeeps DEF Turns

-----------------------------------------------------------------------------
(* A fork. *)

LEMMA ForkKeepsAll ==
    ASSUME KInv, NEW c \in Requests, Fork(c)
    PROVE  KInv'
<1>1. IInv' /\ IInv
  BY ForkKeeps DEF KInv
<1>2. PICK d, r : d = request[c].daemon /\ r = request[c].runtime
  OBVIOUS
<1>3. /\ UNCHANGED <<alive, lease, live, active, dormant, disposal>>
      /\ request[c].step = "using" /\ request[c].op = "fork" /\ Apt(request[c])
      /\ d \in Daemons /\ d \in alive /\ Settled(d, r) /\ r # NoRuntime
  <2>1. request[c].step = "using" /\ Apt(request[c])
    BY DEF Fork, KInv
  <2>2. d \in alive /\ d \in Daemons
    BY <1>1, <1>2, <2>1, OfRequest
  <2> QED BY <1>2, <2>1, <2>2 DEF Fork, Apt
<1>4. CASE GoesTo(c, "done") /\ UNCHANGED <<files, registry, runtimes, history>>
  <2>1. Turns(c, "done")
    BY <1>1, <1>4, GoesToTurns
  <2>2. Onward
    BY <1>3, <1>4, <2>1, NotesStay, Goesward DEF AfterStart, Turns
  <2> QED BY <1>1, <1>3, <1>4, <2>1, <2>2, DoneIsApt, AsideKeeps DEF Keeping, Turns
<1>5. ASSUME NEW s \in Fresh, r \in live,
             registry' = [registry EXCEPT ![d][runtimes[r]] = NoRuntime, ![d][s] = r],
             runtimes' = [runtimes EXCEPT ![r] = s],
             files' \in {files, files \cup {s}},
             Goes(c, [request[c] EXCEPT !.step = "forked", !.leased = s]),
             history' = [history EXCEPT !.used = @ \cup {s}, !.lapsed = @ \cup {<<d, s>>},
                           !.strays = @ \cup {<<d, runtimes[r]>>, <<d, s>>},
                           !.forked = @ \cup {runtimes[r], s},
                           !.snatched = IF BeingDisposed(d, r) THEN @ \cup {r} ELSE @]
      PROVE  KInv'
  <2>1. PICK was : was = runtimes[r]
    OBVIOUS
  <2>2. /\ s \in Sessions /\ r \in Requests /\ was \in Sessions
    BY <1>3, <2>1 DEF Fresh, Settled
  <2>3. /\ Turns(c, "forked") /\ request'[c].leased = s /\ request'[c].runtime = r
    BY <1>1, <1>2, <1>5, GoesOnWith
  <2>4. /\ history.lapsed \subseteq history'.lapsed /\ history'.deleted = history.deleted
        /\ history'.strays = history.strays \cup {<<d, was>>, <<d, s>>}
        /\ history'.forked = history.forked \cup {was, s}
        /\ history.snatched \subseteq history'.snatched
        /\ BeingDisposed(d, r) => r \in history'.snatched
    BY <1>1, <1>5, <2>1 DEF IInv, Types
  <2>5. /\ runtimes'[r] = s
        /\ \A x \in Requests \ {r} : runtimes'[x] = runtimes[x]
    BY <1>1, <1>5, <2>2 DEF IInv, Types
  <2>6. /\ registry'[d][s] = r
        /\ \A e \in Daemons, t \in Sessions :
              \/ e = d /\ t = s
              \/ e = d /\ t = was /\ registry'[e][t] = NoRuntime
              \/ registry'[e][t] = registry[e][t] /\ ~(e = d /\ t \in {s, was})
    BY <1>1, <1>3, <1>5, <2>1, <2>2 DEF IInv, Types, Registries
  <2>7. \A e, t : Excused(e, t) => Excused(e, t)'
    BY <1>5, <2>4 DEF Excused
  <2>8. Onward
    BY <1>3, <2>2, <2>3, <2>4, <2>5, <2>7, Goesward DEF AfterStart, Turns
  <2>9. Rebinds
    <3> SUFFICES ASSUME NEW e \in Daemons, NEW x \in Requests, Settled(e, x)
                 PROVE  \/ runtimes'[x] = runtimes[x]
                        \/ /\ x \in live /\ x \in live'
                           /\ {runtimes[x], runtimes'[x]} \subseteq history'.forked
                           /\ {<<e, runtimes[x]>>, <<e, runtimes'[x]>>} \subseteq history'.strays
                           /\ BeingDisposed(e, x) => x \in history'.snatched
      BY DEF Rebinds
    <3>1. CASE x # r
      BY <2>5, <3>1
    <3>2. CASE x = r
      <4>1. e = d
        BY <1>3, <3>2 DEF Settled
      <4> QED BY <1>3, <1>5, <2>1, <2>4, <2>5, <3>2, <4>1
    <3> QED BY <3>1, <3>2
  <2>10. Spares /\ LeavesLeases
    BY <1>3 DEF Spares, LeavesLeases
  <2>11. Unregisters
    BY <2>4, <2>6 DEF Unregisters, Excused
  <2>12. Apt(request[c])'
    <3>1. Settled(d, r)'
      BY <1>3, <2>8 DEF Onward
    <3>2. request[c].session \in Sessions /\ disposal[d][request[c].session].step = "none"
      BY <1>2, <1>3 DEF Apt, Opens
    <3> QED BY <1>2, <1>3, <2>3, <2>4, <3>1, <3>2 DEF Turns, Apt, Opens
  <2>13. ASSUME NEW e \in Daemons, NEW t \in Sessions PROVE Registered(e, t)'
    <3>1. CASE e = d /\ t = s
      BY <1>3, <1>5, <2>5, <2>6, <2>8, <3>1 DEF Registered, Onward
    <3>2. CASE registry'[e][t] = NoRuntime
      BY <3>2 DEF Registered
    <3>3. CASE registry'[e][t] = registry[e][t] /\ ~(e = d /\ t \in {s, was})
      <4>1. PICK x : x = registry[e][t]
        OBVIOUS
      <4>2. x # NoRuntime => Settled(e, x) /\ x \in live /\ runtimes[x] = t
        BY <4>1 DEF KInv, Registered
      <4>3. x # NoRuntime => x # r
        BY <1>3, <2>1, <3>3, <4>2 DEF Settled
      <4>4. x # NoRuntime => Settled(e, x)' /\ x \in live' /\ runtimes'[x] = t
        BY <1>3, <2>5, <2>8, <4>2, <4>3 DEF Onward, Settled
      <4> QED BY <3>3, <4>1, <4>4 DEF Registered
    <3> QED BY <2>6, <3>1, <3>2, <3>3
  <2>14. \A e \in Daemons : Remembered(e)'
    BY <1>3, <2>8, <2>9, <2>11, MemoryStays
  <2>15. ASSUME NEW e \in alive, NEW t \in Sessions, lease'[t] = e PROVE Kept(e, t)'
    <3>1. Kept(e, t) /\ e \in Daemons
      BY <1>1, <1>3, <2>15 DEF KInv, IInv, Types
    <3>2. registry[e][t] = NoRuntime \/ Kept(e, t)'
      BY <2>4, <2>6, <3>1 DEF Kept
    <3> QED BY <1>3, <2>3, <2>8, <3>1, <3>2, StaysKept DEF Turns, Keeping
  <2> QED BY <1>1, <1>3, <2>3, <2>8, <2>9, <2>10, <2>11, <2>12, <2>13, <2>14, <2>15, RequestKeeps
          DEF Turns
<1> QED BY <1>2, <1>3, <1>4, <1>5 DEF Fork

-----------------------------------------------------------------------------
(* Taking and giving up a lease. *)

\* A lease is taken from nobody alive.
LEMMA LeaseTaken ==
    ASSUME IInv, NEW d \in Daemons, NEW s \in Sessions, d \in alive,
           ~HeldElsewhere(d, s), lease' = [lease EXCEPT ![s] = d]
    PROVE  /\ lease'[s] = d /\ \A t \in Sessions \ {s} : lease'[t] = lease[t]
           /\ LeavesLeases
<1>1. lease'[s] = d /\ \A t \in Sessions \ {s} : lease'[t] = lease[t]
  BY DEF IInv, Types
<1>2. LeavesLeases
  BY <1>1 DEF LeavesLeases, HeldElsewhere
<1> QED BY <1>1, <1>2

LEMMA LeaseForkKeepsAll ==
    ASSUME KInv, NEW c \in Requests, LeaseFork(c)
    PROVE  KInv'
<1>1. IInv' /\ IInv
  BY LeaseForkKeeps DEF KInv
<1>2. PICK d, s : d = request[c].daemon /\ s = request[c].leased
  OBVIOUS
<1>3. /\ UNCHANGED <<alive, files, registry, runtimes, live, active, disposal>>
      /\ request[c].step = "forked" /\ Apt(request[c])
      /\ d \in Daemons /\ d \in alive /\ s \in Sessions
  <2>1. request[c].step = "forked" /\ Apt(request[c]) /\ Sound(request[c], alive, Holding)
    BY OfRequest DEF LeaseFork, KInv
  <2>2. d \in alive /\ d \in Daemons
    BY <1>1, <1>2, <2>1, OfRequest
  <2> QED BY <1>2, <2>1, <2>2 DEF LeaseFork, Sound
<1>4. Turns(c, "done") /\ request'[c].runtime = request[c].runtime
  BY <1>1, GoesToTurns DEF LeaseFork, TryLease
<1>5. <<d, s>> \in history.strays /\ s \in history.forked
  BY <1>2, <1>3 DEF Apt
<1>6. CASE UNCHANGED <<lease, dormant, history>>
  <2>1. Onward
    BY <1>3, <1>4, <1>6, NotesStay, Goesward DEF AfterStart, Turns
  <2> QED BY <1>1, <1>3, <1>4, <1>6, <2>1, DoneIsApt, AsideKeeps DEF Keeping, Turns
<1>7. CASE /\ ~HeldElsewhere(d, s) /\ lease' = [lease EXCEPT ![s] = d]
           /\ history' = [history EXCEPT !.lapsed = @ \ {<<d, s>>}]
           /\ dormant' = [dormant EXCEPT ![d] =
                  IF active[d] = NoRuntime THEN @ ELSE runtimes[active[d]]]
  <2>1. /\ lease'[s] = d /\ \A t \in Sessions \ {s} : lease'[t] = lease[t]
        /\ LeavesLeases
    BY <1>1, <1>3, <1>7, LeaseTaken
  <2>2. /\ history'.lapsed = history.lapsed \ {<<d, s>>}
        /\ history'.deleted = history.deleted /\ history'.strays = history.strays
        /\ history'.forked = history.forked /\ history'.snatched = history.snatched
    BY <1>1, <1>7 DEF IInv, Types
  <2>3. \A e, t : Excused(e, t) => Excused(e, t)'
    BY <1>3, <1>5, <2>2 DEF Excused
  <2>4. Onward
    BY <1>3, <1>4, <2>2, <2>3, Goesward DEF AfterStart, Turns
  <2>5. Rebinds /\ Spares /\ Unregisters
    BY <1>3 DEF Rebinds, Spares, Unregisters
  <2>6. \A e \in Daemons, t \in Sessions : Registered(e, t)'
    BY <1>3, <2>4 DEF KInv, Registered, Onward
  <2>7. ASSUME NEW e \in Daemons PROVE Remembered(e)'
    <3>1. CASE dormant'[e] = dormant[e]
      BY <1>3, <2>4, <2>5, <3>1, MemoryStays
    <3>2. CASE dormant'[e] # dormant[e]
      <4>1. PICK r : r = active[d]
        OBVIOUS
      <4>2. e = d /\ r # NoRuntime /\ dormant'[d] = runtimes[r] /\ active'[d] = r
        BY <1>1, <1>3, <1>7, <3>2, <4>1 DEF IInv, Types
      <4>3. /\ Settled(d, r)
            /\ \/ Excused(d, runtimes[r])
               \/ registry[d][runtimes[r]] = r
               \/ Leaving(d, runtimes[r]) /\ disposal[d][runtimes[r]].runtime = r
        BY <1>3, <4>1, <4>2 DEF KInv, Remembered, Recalled, AtWork
      <4>4. /\ Settled(d, r)'
            /\ \/ Excused(d, runtimes[r])'
               \/ registry'[d][runtimes'[r]] = r
               \/ Leaving(d, runtimes[r])' /\ disposal'[d][runtimes'[r]].runtime = r
        BY <1>3, <2>4, <4>3 DEF Onward, Leaving
      <4> QED BY <1>3, <4>2, <4>4 DEF Remembered, Recalled, AtWork
    <3> QED BY <3>1, <3>2
  <2>8. ASSUME NEW e \in alive, NEW t \in Sessions, lease'[t] = e PROVE Kept(e, t)'
    <3>1. CASE t = s
      BY <1>5, <2>1, <2>2, <2>8, <3>1 DEF Kept
    <3>2. CASE t # s
      <4>1. Kept(e, t) /\ (registry[e][t] = NoRuntime \/ Kept(e, t)')
        BY <1>3, <2>1, <2>8, <3>2 DEF KInv, Kept
      <4> QED BY <1>3, <1>4, <2>4, <4>1, StaysKept DEF Turns, Keeping
    <3> QED BY <3>1, <3>2
  <2> QED BY <1>1, <1>3, <1>4, <2>1, <2>4, <2>5, <2>6, <2>7, <2>8, DoneIsApt, RequestKeeps
          DEF Turns
<1> QED BY <1>2, <1>6, <1>7 DEF LeaseFork, TryLease

LEMMA AcquireKeepsAll ==
    ASSUME KInv, NEW c \in Requests, Acquire(c)
    PROVE  KInv'
<1>1. IInv' /\ IInv
  BY AcquireKeeps DEF KInv
<1>2. PICK d, s, next : d = request[c].daemon /\ s = request[c].leased
         /\ next = CASE request[c].op = "create" -> "setup"
                     [] request[c].op = "delete" -> "remove"
                     [] OTHER -> "create"
  OBVIOUS
<1>3. /\ UNCHANGED <<alive, files, registry, runtimes, active, dormant, disposal, history>>
      /\ request[c].step = "lease" /\ Apt(request[c])
      /\ d \in Daemons /\ d \in alive /\ s \in Sessions
      /\ live \ {c} \subseteq live' /\ next \in {"setup", "remove", "create"}
  <2>1. request[c].step = "lease" /\ Apt(request[c]) /\ Sound(request[c], alive, Holding)
    BY OfRequest DEF Acquire, KInv
  <2>2. d \in alive /\ d \in Daemons
    BY <1>1, <1>2, <2>1, OfRequest
  <2>3. next \in {"setup", "remove", "create"}
    BY <1>2
  <2> QED BY <1>2, <2>1, <2>2, <2>3 DEF Acquire, Sound
<1>4. \/ HeldElsewhere(d, s) /\ GoesTo(c, "done") /\ lease' = lease
      \/ ~HeldElsewhere(d, s) /\ GoesTo(c, next) /\ lease' = [lease EXCEPT ![s] = d]
  BY <1>2 DEF Acquire, TryLease
<1>5. ASSUME NEW x \in {"done", next}, GoesTo(c, x), LeavesLeases,
             x = "done" => lease' = lease,
             x # "done" => lease'[s] = d /\ \A t \in Sessions \ {s} : lease'[t] = lease[t]
      PROVE  KInv'
  <2>1. /\ Turns(c, x) /\ request'[c].runtime = request[c].runtime
        /\ request'[c].leased = request[c].leased
    BY <1>1, <1>5, GoesToTurns
  <2>2. /\ Onward /\ Rebinds /\ Spares /\ Unregisters
        /\ \A e \in Daemons, t \in Sessions : registry[e][t] # NoRuntime => Registered(e, t)'
    <3>1. Onward
      BY <1>3, <2>1, NotesStay, Goesward DEF AfterStart, Turns
    <3>2. Rebinds /\ Spares /\ Unregisters
      BY <1>3 DEF Rebinds, Spares, Unregisters, Settled, AfterStart
    <3>3. ASSUME NEW e \in Daemons, NEW t \in Sessions, registry[e][t] # NoRuntime
          PROVE  Registered(e, t)'
      <4>1. PICK r : r = registry[e][t]
        OBVIOUS
      <4>2. Settled(e, r) /\ r \in live /\ runtimes[r] = t /\ registry'[e][t] = r
        BY <1>3, <3>3, <4>1 DEF KInv, Registered
      <4>3. r # c
        BY <1>3, <4>2 DEF Settled, AfterStart
      <4> QED BY <1>3, <3>1, <4>2, <4>3 DEF Onward, Registered
    <3> QED BY <3>1, <3>2, <3>3
  <2>3. Apt(request[c])'
    <3>1. CASE x = "done"
      BY <2>1, <3>1, DoneIsApt
    <3>2. CASE x = next
      BY <1>2, <1>3, <2>1, <2>2, <3>2 DEF Turns, Apt, Onward, Opens
    <3> QED BY <1>5, <3>1, <3>2
  <2>4. \A e \in Daemons, t \in Sessions : Registered(e, t)'
    BY <1>3, <2>2 DEF Registered
  <2>5. \A e \in Daemons : Remembered(e)'
    BY <1>3, <2>2, MemoryStays
  <2>6. ASSUME NEW e \in alive, NEW t \in Sessions, lease'[t] = e PROVE Kept(e, t)'
    <3>1. CASE x # "done" /\ t = s
      <4>1. x \in Keeping
        BY <1>3, <1>5, <3>1 DEF Keeping
      <4> QED BY <1>2, <1>5, <2>1, <2>6, <3>1, <4>1 DEF Kept, Turns
    <3>2. CASE ~(x # "done" /\ t = s)
      <4>1. Kept(e, t) /\ (registry[e][t] = NoRuntime \/ Kept(e, t)')
        BY <1>3, <1>5, <2>6, <3>2 DEF KInv, Kept
      <4> QED BY <1>3, <2>1, <2>2, <4>1, StaysKept DEF Turns, Keeping
    <3> QED BY <3>1, <3>2
  <2> QED BY <1>1, <1>3, <1>5, <2>1, <2>2, <2>3, <2>4, <2>5, <2>6, RequestKeeps DEF Turns
<1>6. CASE HeldElsewhere(d, s) /\ GoesTo(c, "done") /\ lease' = lease
  BY <1>5, <1>6 DEF LeavesLeases
<1>7. CASE ~HeldElsewhere(d, s) /\ GoesTo(c, next) /\ lease' = [lease EXCEPT ![s] = d]
  <2>1. /\ lease'[s] = d /\ \A t \in Sessions \ {s} : lease'[t] = lease[t]
        /\ LeavesLeases
    BY <1>1, <1>3, <1>7, LeaseTaken
  <2> QED BY <1>3, <1>5, <1>7, <2>1
<1> QED BY <1>4, <1>6, <1>7

LEMMA ReleaseOwnKeepsAll ==
    ASSUME KInv, NEW c \in Requests, ReleaseOwn(c)
    PROVE  KInv'
<1>1. IInv' /\ IInv
  BY ReleaseOwnKeeps DEF KInv
<1>2. PICK d, s : d = request[c].daemon /\ s = request[c].leased
  OBVIOUS
<1>3. /\ UNCHANGED <<alive, files, registry, runtimes, live, active, dormant, disposal>>
      /\ request[c].step = "release"
      /\ lease' = [lease EXCEPT ![s] = IF @ = d THEN NoDaemon ELSE @]
      /\ d \in Daemons
  <2>1. request[c].step = "release"
    BY DEF ReleaseOwn
  <2>2. d \in Daemons
    BY <1>1, <1>2, <2>1, OfRequest
  <2> QED BY <1>2, <2>1, <2>2 DEF ReleaseOwn, Release, resident
<1>4. /\ history.lapsed \subseteq history'.lapsed /\ history'.deleted = history.deleted
      /\ history'.strays = history.strays /\ history'.forked = history.forked
      /\ history'.snatched = history.snatched
      /\ disposal[d][s] # NoDisposal => <<d, s>> \in history'.lapsed
  <2>1. PICK relied \in BOOLEAN :
           /\ relied <=> (Relying(d, s, {c}) \/ disposal[d][s] # NoDisposal)
           /\ history' = [history EXCEPT !.lapsed = IF relied THEN @ \cup {<<d, s>>} ELSE @]
    BY <1>2 DEF ReleaseOwn, Release
  <2> QED BY <1>1, <2>1 DEF IInv, Types
<1>5. Turns(c, "done") /\ request'[c].runtime = request[c].runtime
  BY <1>1, GoesToTurns DEF ReleaseOwn
<1>6. \A e, t : Excused(e, t) => Excused(e, t)'
  BY <1>3, <1>4 DEF Excused
<1>7. Onward
  BY <1>3, <1>4, <1>5, <1>6, Goesward DEF AfterStart, Turns
<1>8. \A t \in Sessions :
         \/ lease'[t] = lease[t] /\ (t = s => lease[t] # d)
         \/ t = s /\ lease[t] = d /\ lease'[t] = NoDaemon
  BY <1>1, <1>3 DEF IInv, Types
<1>9. Rebinds /\ Spares /\ Unregisters
  BY <1>3 DEF Rebinds, Spares, Unregisters
<1>10. LeavesLeases
  <2> SUFFICES ASSUME NEW e \in alive, NEW t \in Sessions, Leaving(e, t), lease[t] = e
               PROVE  lease'[t] = e \/ Excused(e, t)'
    BY DEF LeavesLeases
  <2>1. CASE lease'[t] = lease[t]
    BY <2>1
  <2>2. CASE t = s /\ lease[t] = d
    BY <1>4, <2>2 DEF Leaving, NoDisposal, Excused
  <2> QED BY <1>8, <2>1, <2>2
<1>11. \A e \in Daemons, t \in Sessions : Registered(e, t)'
  BY <1>3, <1>7 DEF KInv, Registered, Onward
<1>12. \A e \in Daemons : Remembered(e)'
  BY <1>3, <1>7, <1>9, MemoryStays
<1>13. ASSUME NEW e \in alive, NEW t \in Sessions, lease'[t] = e PROVE Kept(e, t)'
  <2>1. e # NoDaemon
    BY <1>1, <1>13, ResidencyAssumption DEF IInv, Types
  <2>2. lease[t] = e /\ ~(t = s /\ e = d)
    BY <1>8, <1>13, <2>1
  <2>3. Kept(e, t) /\ (registry[e][t] = NoRuntime \/ Kept(e, t)')
    BY <1>3, <1>13, <2>2 DEF KInv, Kept
  <2> QED BY <1>2, <1>3, <1>5, <1>7, <2>2, <2>3, StaysKept DEF Turns
<1> QED BY <1>1, <1>3, <1>5, <1>7, <1>9, <1>10, <1>11, <1>12, <1>13, DoneIsApt, RequestKeeps
        DEF Turns

-----------------------------------------------------------------------------
(* Starting, creating, deleting. *)

LEMMA EnsureKeepsAll ==
    ASSUME KInv, NEW c \in Requests, NEW d \in Daemons, Ensure(c, d)
    PROVE  KInv'
<1>1. IInv' /\ IInv
  BY EnsureKeeps DEF KInv
<1>2. /\ UNCHANGED <<alive, files, lease, registry, runtimes, live, active, dormant, disposal,
                     history>>
      /\ request[c].step = "free" /\ request[c].op = "none"
  BY DEF Ensure, shared, resident, KInv, Apt
<1> DEFINE u == [NotServed EXCEPT !.op = "ensure", !.daemon = d, !.session = dormant[d],
                                  !.step = IF dormant[d] = NoSession THEN "create" ELSE "validate",
                                  !.adopts = active[d] = NoRuntime]
<1>3. /\ Goes(c, u) /\ u.op = "ensure" /\ u.session = dormant[d]
      /\ u.step = IF dormant[d] = NoSession THEN "create" ELSE "validate"
      /\ u.runtime = NoRuntime /\ u.leased = NoSession
  <2>1. Goes(c, u)
    BY DEF Ensure
  <2>2. /\ u.op = "ensure" /\ u.session = dormant[d]
        /\ u.step = IF dormant[d] = NoSession THEN "create" ELSE "validate"
        /\ u.runtime = NoRuntime /\ u.leased = NoSession
    BY DEF NotServed
  <2> QED BY <2>1, <2>2
<1> HIDE DEF u
<1>4. request'[c] = u /\ \A o \in Requests \ {c} : request'[o] = request[o]
  BY <1>1, <1>3, GoesOnTurns
<1>5. Onward
  BY <1>2, <1>4, NotesStay, Goesward DEF AfterStart
<1>6. Apt(request[c])'
  <2>1. u.step \in {"create", "validate"} /\ (u.step = "validate" => u.session # NoSession)
    BY <1>3
  <2> QED BY <1>3, <1>4, <2>1 DEF Apt, Opens
<1> QED BY <1>1, <1>2, <1>4, <1>5, <1>6, AsideKeeps DEF Keeping

LEMMA ValidateKeepsAll ==
    ASSUME KInv, NEW c \in Requests, Validate(c)
    PROVE  KInv'
<1>1. IInv' /\ IInv
  BY ValidateKeeps DEF KInv
<1>2. PICK d, s, now : d = request[c].daemon /\ s = request[c].session /\ now = dormant[d]
  OBVIOUS
<1>3. /\ UNCHANGED <<alive, files, lease, registry, runtimes, live, active, dormant, disposal>>
      /\ request[c].step = "validate" /\ request[c].op = "ensure" /\ Apt(request[c])
  BY OfRequest DEF Validate, shared, resident, Sound, KInv
<1>4. PICK x \in {"create", "lease"} : x = IF now = NoSession THEN "create" ELSE "lease"
  OBVIOUS
<1>5. \/ Turns(c, "done") /\ request'[c].runtime = request[c].runtime /\ UNCHANGED history
      \/ /\ Turns(c, x) /\ request'[c].runtime = request[c].runtime
         /\ request'[c].leased = now
         /\ history' = [history EXCEPT !.strays = @ \cup Strays(d, s)]
  <2>1. \/ GoesTo(c, "done") /\ UNCHANGED history
        \/ /\ Goes(c, [request[c] EXCEPT !.leased = now, !.step = x])
           /\ history' = [history EXCEPT !.strays = @ \cup Strays(d, s)]
    BY <1>2, <1>4 DEF Validate
  <2>2. Goes(c, [request[c] EXCEPT !.leased = now, !.step = x]) =>
           /\ Turns(c, x) /\ request'[c].leased = now
           /\ request'[c].runtime = request[c].runtime
    BY <1>1, GoesOnWith
  <2> QED BY <1>1, <2>1, <2>2, GoesToTurns
<1>6. /\ history.strays \subseteq history'.strays
      /\ history'.lapsed = history.lapsed /\ history'.deleted = history.deleted
      /\ history'.forked = history.forked /\ history'.snatched = history.snatched
  BY <1>1, <1>5 DEF IInv, Types
<1>7. \A e, t : Excused(e, t) => Excused(e, t)'
  BY <1>3, <1>6 DEF Excused
<1>8. Onward
  <2>1. request'[c].runtime = request[c].runtime /\ request'[c].op = request[c].op
        /\ \A o \in Requests \ {c} : request'[o] = request[o]
    BY <1>5 DEF Turns
  <2> QED BY <1>3, <1>6, <1>7, <2>1, Goesward DEF AfterStart
<1>9. Apt(request[c])'
  <2>1. CASE Turns(c, "done")
    BY <2>1, DoneIsApt
  <2>2. CASE /\ Turns(c, x) /\ request'[c].runtime = request[c].runtime
             /\ request'[c].leased = now
             /\ history' = [history EXCEPT !.strays = @ \cup Strays(d, s)]
    <3>1. s # NoSession
      BY <1>2, <1>3 DEF Apt
    <3>2. history'.strays = history.strays \cup Strays(d, s)
      BY <1>1, <2>2 DEF IInv, Types
    <3>3. now \in {s, NoSession} \/ <<d, now>> \in history'.strays
      BY <1>2, <3>1, <3>2 DEF Strays
    <3>4. request[c].runtime # NoRuntime => Settled(d, request[c].runtime)
      BY <1>2, <1>3 DEF Apt
    <3>5. request'[c].runtime # NoRuntime => Settled(d, request[c].runtime)'
      <4>1. PICK r : r = request[c].runtime
        OBVIOUS
      <4>2. r # NoRuntime => Settled(d, r)'
        BY <1>8, <3>4, <4>1 DEF Onward
      <4> QED BY <2>2, <4>1, <4>2
    <3>6. PICK u : request'[c] = u
      OBVIOUS
    <3>7. u.runtime # NoRuntime => Settled(d, u.runtime)'
      BY <2>2, <3>5, <3>6
    <3>8. /\ u.op = "ensure" /\ u.session = s /\ u.daemon = d /\ u.leased = now
          /\ u.step \in {"create", "lease"}
      BY <1>2, <1>3, <2>2, <3>6 DEF Turns
    <3> QED BY <1>4, <3>1, <3>3, <3>6, <3>7, <3>8 DEF Apt, Opens
  <2> QED BY <1>5, <2>1, <2>2
<1>10. \A o \in Requests \ {c} : request'[o] = request[o]
  BY <1>5 DEF Turns
<1> QED BY <1>1, <1>3, <1>8, <1>9, <1>10, AsideKeeps DEF Keeping

LEMMA RemoveKeepsAll ==
    ASSUME KInv, NEW c \in Requests, Remove(c)
    PROVE  KInv'
<1>1. IInv' /\ IInv
  BY RemoveKeeps DEF KInv
<1>2. PICK s : s = request[c].session
  OBVIOUS
<1>3. /\ UNCHANGED <<alive, lease, registry, runtimes, live, active, dormant, disposal>>
      /\ request[c].step = "remove" /\ Apt(request[c])
      /\ files' = files \ {s}
  BY <1>2 DEF Remove, resident, KInv
<1>4. /\ Turns(c, "release") /\ request'[c].runtime = request[c].runtime
      /\ request'[c].leased = request[c].leased
  BY <1>1, GoesToTurns DEF Remove
<1>5. /\ history'.strays = history.strays /\ history'.lapsed = history.lapsed
      /\ history.deleted \subseteq history'.deleted
      /\ s \in files => s \in history'.deleted
      /\ history'.forked = history.forked /\ history'.snatched = history.snatched
  BY <1>1, <1>2 DEF Remove, IInv, Types
<1>6. \A e, t : Excused(e, t) => Excused(e, t)'
  BY <1>3, <1>5 DEF Excused
<1>7. Onward
  BY <1>3, <1>4, <1>5, <1>6, Goesward DEF AfterStart, Turns
<1>8. Apt(request[c])'
  BY <1>3, <1>4, <1>7 DEF Turns, Apt, Onward, Opens
<1>9. \A e, t : request[c].daemon = e /\ request[c].leased = t => Kept(e, t)'
  BY <1>4 DEF Turns, Kept, Keeping
<1> QED BY <1>1, <1>3, <1>4, <1>7, <1>8, <1>9, AsideKeeps DEF Turns

LEMMA DeleteKeepsAll ==
    ASSUME KInv, NEW c \in Requests, NEW d \in Daemons, NEW s \in Sessions, Delete(c, d, s)
    PROVE  KInv'
<1>1. IInv' /\ IInv
  BY DeleteKeeps DEF KInv
<1>2. /\ UNCHANGED <<alive, files, lease, registry, runtimes, live, active, dormant, disposal,
                     history>>
      /\ request[c].step = "free" /\ request[c].op = "none"
  BY DEF Delete, shared, resident, KInv, Apt
<1>3. PICK r : r = registry[d][s]
  OBVIOUS
<1> DEFINE u == [NotServed EXCEPT !.op = "delete", !.daemon = d, !.session = s,
                   !.runtime = r, !.step = IF r = NoRuntime THEN "find" ELSE "dispose",
                   !.leased = IF r = NoRuntime THEN NoSession ELSE s]
<1>4. /\ Goes(c, u) /\ u.op = "delete" /\ u.session = s /\ u.daemon = d
      /\ u.step = IF r = NoRuntime THEN "find" ELSE "dispose"
      /\ u.runtime = r /\ u.leased = IF r = NoRuntime THEN NoSession ELSE s
  <2>1. Goes(c, u)
    BY <1>3 DEF Delete
  <2>2. /\ u.op = "delete" /\ u.session = s /\ u.daemon = d
        /\ u.step = IF r = NoRuntime THEN "find" ELSE "dispose"
        /\ u.runtime = r /\ u.leased = IF r = NoRuntime THEN NoSession ELSE s
    BY DEF NotServed
  <2> QED BY <2>1, <2>2
<1> HIDE DEF u
<1>5. request'[c] = u /\ \A o \in Requests \ {c} : request'[o] = request[o]
  BY <1>1, <1>4, GoesOnTurns
<1>6. Onward
  BY <1>2, <1>5, NotesStay, Goesward DEF AfterStart
<1>7. Apt(request[c])'
  <2>1. r # NoRuntime => Settled(d, r)' /\ runtimes'[r] = s
    BY <1>2, <1>3, <1>6 DEF KInv, Registered, Onward
  <2>2. CASE r = NoRuntime
    BY <1>4, <1>5, <2>2 DEF Apt, Opens
  <2>3. CASE r # NoRuntime
    BY <1>4, <1>5, <2>1, <2>3 DEF Apt, Opens
  <2> QED BY <2>2, <2>3
<1> QED BY <1>1, <1>2, <1>5, <1>6, <1>7, AsideKeeps DEF Keeping

LEMMA CreateKeepsAll ==
    ASSUME KInv, NEW c \in Requests, NEW d \in Daemons, Create(c, d)
    PROVE  KInv'
<1>1. IInv' /\ IInv
  BY CreateKeeps DEF KInv
<1>2. PICK s \in Fresh :
         /\ runtimes' = [runtimes EXCEPT ![c] = s] /\ live' = live \cup {c}
         /\ Goes(c, [NotServed EXCEPT !.op = "create", !.daemon = d, !.session = s,
                                      !.step = "lease", !.leased = s])
         /\ history' = [history EXCEPT !.used = @ \cup {s}]
  BY DEF Create
<1> DEFINE u == [NotServed EXCEPT !.op = "create", !.daemon = d, !.session = s,
                                  !.step = "lease", !.leased = s]
<1>3. u.op = "create" /\ u.step = "lease" /\ u.runtime = NoRuntime
  BY DEF NotServed
<1>4. request'[c] = u /\ \A o \in Requests \ {c} : request'[o] = request[o]
  BY <1>1, <1>2, GoesOnTurns
<1> HIDE DEF u
<1>5. /\ UNCHANGED <<alive, files, lease, registry, active, dormant, disposal>>
      /\ request[c].step = "free" /\ request[c].op = "none"
  BY DEF Create, shared, KInv, Apt
<1>6. /\ history'.strays = history.strays /\ history'.lapsed = history.lapsed
      /\ history.deleted = history'.deleted
      /\ history'.forked = history.forked /\ history'.snatched = history.snatched
  BY <1>1, <1>2 DEF IInv, Types
<1>7. \A e, t : Excused(e, t) => Excused(e, t)'
  BY <1>5, <1>6 DEF Excused
<1>8. \A x \in Requests \ {c} : runtimes'[x] = runtimes[x] /\ (x \in live => x \in live')
  BY <1>1, <1>2 DEF IInv, Types
<1>9. /\ Onward /\ Rebinds /\ Spares /\ Unregisters /\ LeavesLeases
      /\ \A e \in Daemons, t \in Sessions : registry[e][t] # NoRuntime => Registered(e, t)'
  BY <1>4, <1>5, <1>6, <1>7, <1>8, OthersUntouched DEF AfterStart
<1>10. Apt(request[c])'
  BY <1>3, <1>4 DEF Apt, Opens
<1>11. \A e \in Daemons, t \in Sessions : Registered(e, t)'
  BY <1>5, <1>9 DEF Registered
<1>12. \A e \in Daemons : Remembered(e)'
  BY <1>5, <1>9, MemoryStays
<1>13. ASSUME NEW e \in alive, NEW t \in Sessions, lease'[t] = e PROVE Kept(e, t)'
  <2>1. Kept(e, t) /\ (registry[e][t] = NoRuntime \/ Kept(e, t)')
    BY <1>5, <1>13 DEF KInv, Kept
  <2> QED BY <1>4, <1>5, <1>9, <2>1, StaysKept DEF Keeping
<1> QED BY <1>1, <1>4, <1>5, <1>9, <1>10, <1>11, <1>12, <1>13, RequestKeeps

\* Registering the runtime of c, which is then done, and adopting it or not.
LEMMA RegisteringKeeps ==
    ASSUME KInv, IInv', NEW c \in Requests, NEW d \in Daemons, NEW s \in Sessions,
           UNCHANGED <<alive, files, lease, disposal>>,
           request[c].step \in {"create", "setup"}, request[c].daemon = d,
           request[c].op # "delete", Turns(c, "done"),
           runtimes' = [runtimes EXCEPT ![c] = s], c \in live', live \subseteq live',
           \/ registry[d][s] # NoRuntime /\ UNCHANGED <<registry, active, dormant>>
           \/ /\ registry[d][s] = NoRuntime /\ registry' = [registry EXCEPT ![d][s] = c]
              /\ \/ UNCHANGED <<active, dormant>>
                 \/ /\ active' = [active EXCEPT ![d] = c]
                    /\ dormant' = [dormant EXCEPT ![d] = s],
           history.lapsed \subseteq history'.lapsed, history'.deleted = history.deleted,
           history'.strays = history.strays, history'.forked = history.forked,
           history'.snatched = history.snatched,
           \/ request[c].leased \in {s, NoSession}
           \/ <<d, request[c].leased>> \in history.strays
    PROVE  KInv'
<1>1. IInv
  BY DEF KInv
<1>2. \A e, t : Excused(e, t) => Excused(e, t)'
  BY DEF Excused
<1>3. \A x \in Requests \ {c} : runtimes'[x] = runtimes[x] /\ (x \in live => x \in live')
  BY <1>1 DEF IInv, Types
<1>4. \A e \in Daemons, t \in Sessions :
         \/ registry'[e][t] = registry[e][t]
         \/ e = d /\ t = s /\ registry[e][t] = NoRuntime /\ registry'[e][t] = c
  <2>1. registry \in Registries
    BY <1>1 DEF IInv, Types
  <2>2. CASE registry' = registry
    BY <2>2
  <2>3. CASE registry[d][s] = NoRuntime /\ registry' = Put(registry, d, s, c)
    BY <2>1, <2>3, OneEntry
  <2> QED BY <2>2, <2>3 DEF Put
<1>5. /\ Onward /\ Rebinds /\ Spares /\ Unregisters /\ LeavesLeases
      /\ \A e \in Daemons, t \in Sessions : registry[e][t] # NoRuntime => Registered(e, t)'
  <2>1. \A e \in Daemons, t \in Sessions :
           registry[e][t] # NoRuntime => registry'[e][t] = registry[e][t]
    BY <1>4
  <2> QED BY <1>2, <1>3, <2>1, OthersUntouched DEF AfterStart, Turns
<1>6. /\ Settled(d, c)' /\ runtimes'[c] = s /\ c # NoRuntime /\ registry'[d][s] # NoRuntime
  BY <1>1, ResidencyAssumption DEF Settled, Turns, AfterStart, IInv, Types, Registries
<1>7. \A e \in Daemons, t \in Sessions : Registered(e, t)'
  <2> SUFFICES ASSUME NEW e \in Daemons, NEW t \in Sessions PROVE Registered(e, t)'
    OBVIOUS
  <2>1. CASE registry'[e][t] = registry[e][t]
    BY <1>5, <2>1 DEF Registered
  <2>2. CASE e = d /\ t = s /\ registry[e][t] = NoRuntime /\ registry'[e][t] = c
    BY <1>6, <2>2 DEF Registered
  <2> QED BY <1>4, <2>1, <2>2
<1>8. ASSUME NEW e \in Daemons PROVE Remembered(e)'
  <2>1. CASE active'[e] = active[e] /\ dormant'[e] = dormant[e]
    BY <1>5, <2>1, MemoryStays
  <2>2. CASE ~(active'[e] = active[e] /\ dormant'[e] = dormant[e])
    <3>1. e = d /\ active'[d] = c /\ dormant'[d] = s /\ registry'[d][s] = c
      BY <1>1, <2>2 DEF IInv, Types, Registries
    <3> QED BY <1>6, <3>1 DEF Remembered, Recalled, AtWork
  <2> QED BY <2>1, <2>2
<1>9. ASSUME NEW e \in alive, NEW t \in Sessions, lease'[t] = e PROVE Kept(e, t)'
  <2>1. e \in Daemons /\ t # NoSession
    BY <1>1, ResidencyAssumption DEF IInv, Types
  <2>2. Kept(e, t) /\ (registry[e][t] = NoRuntime \/ Kept(e, t)')
    <3>1. registry[e][t] # NoRuntime => registry'[e][t] # NoRuntime
      BY <1>4, <2>1
    <3> QED BY <1>9, <3>1 DEF KInv, Kept
  <2>3. request[c].daemon = e /\ request[c].leased = t => Kept(e, t)'
    BY <1>6, <2>1 DEF Kept
  <2> QED BY <1>5, <2>2, <2>3, StaysKept DEF Turns
<1> QED BY <1>5, <1>7, <1>8, <1>9, DoneIsApt, RequestKeeps DEF Turns

LEMMA SetUpKeepsAll ==
    ASSUME KInv, NEW c \in Requests, Own(c), SetUp(c)
    PROVE  KInv'
<1>1. IInv' /\ IInv
  BY SetUpKeeps DEF KInv
<1>2. PICK d, s : d = request[c].daemon /\ s = request[c].session
  OBVIOUS
<1>3. /\ UNCHANGED <<alive, files, lease, runtimes, disposal, history>>
      /\ request[c].step = "setup" /\ request[c].op = "create" /\ request[c].leased = s
      /\ d \in Daemons /\ s \in Sessions /\ Apt(request[c])
  <2>1. /\ request[c].step = "setup" /\ Apt(request[c])
        /\ Sound(request[c], alive, Holding)
    BY OfRequest DEF SetUp, KInv
  <2>2. d \in Daemons
    BY <1>1, <1>2, <2>1, OfRequest
  <2> QED BY <1>2, <2>1, <2>2 DEF SetUp, shared, Sound
<1>4. CASE GoesTo(c, "release") /\ live' = live \ {c} /\ UNCHANGED <<registry, active, dormant>>
  <2>1. /\ Turns(c, "release") /\ request'[c].runtime = request[c].runtime
        /\ request'[c].leased = request[c].leased
    BY <1>1, <1>4, GoesToTurns
  <2>2. /\ Onward /\ Rebinds /\ Spares /\ Unregisters /\ LeavesLeases
        /\ \A e \in Daemons, t \in Sessions : registry[e][t] # NoRuntime => Registered(e, t)'
    BY <1>3, <1>4, <2>1, NotesStay, OthersUntouched DEF AfterStart, Turns
  <2>3. Apt(request[c])'
    BY <1>3, <2>1, <2>2 DEF Turns, Apt, Onward, Opens
  <2>4. \A e \in Daemons, t \in Sessions : Registered(e, t)'
    BY <1>4, <2>2 DEF Registered
  <2>5. \A e \in Daemons : Remembered(e)'
    BY <1>3, <1>4, <2>2, MemoryStays
  <2>6. ASSUME NEW e \in alive, NEW t \in Sessions, lease'[t] = e PROVE Kept(e, t)'
    <3>1. Kept(e, t) /\ (registry[e][t] = NoRuntime \/ Kept(e, t)')
      BY <1>3, <1>4, <2>6 DEF KInv, Kept
    <3>2. request[c].daemon = e /\ request[c].leased = t => Kept(e, t)'
      BY <2>1 DEF Turns, Kept, Keeping
    <3> QED BY <1>3, <2>1, <2>2, <3>1, <3>2, StaysKept DEF Turns
  <2> QED BY <1>1, <1>3, <2>1, <2>2, <2>3, <2>4, <2>5, <2>6, RequestKeeps DEF Turns
<1>5. CASE /\ GoesTo(c, "done") /\ live' = live
           /\ IF registry[d][s] # NoRuntime
              THEN UNCHANGED <<registry, active, dormant>>
              ELSE /\ registry' = [registry EXCEPT ![d][s] = c]
                   /\ active' = [active EXCEPT ![d] = c]
                   /\ dormant' = [dormant EXCEPT ![d] = s]
  <2>1. Turns(c, "done")
    BY <1>1, <1>5, GoesToTurns
  <2>2. c \in live /\ runtimes[c] = s
    BY <1>2, <1>3 DEF Own
  <2>3. runtimes' = [runtimes EXCEPT ![c] = s]
    BY <1>1, <1>3, <2>2 DEF IInv, Types
  <2> QED BY <1>1, <1>2, <1>3, <1>5, <2>1, <2>2, <2>3, RegisteringKeeps
<1> QED BY <1>2, <1>4, <1>5 DEF SetUp

LEMMA CreateForStartKeepsAll ==
    ASSUME KInv, NEW c \in Requests, CreateForStart(c)
    PROVE  KInv'
<1>1. IInv' /\ IInv
  BY CreateForStartKeeps DEF KInv
<1>2. PICK d, r, now : d = request[c].daemon /\ r = request[c] /\ now = dormant[d]
  OBVIOUS
<1>3. /\ UNCHANGED <<alive, files, lease, disposal>>
      /\ r.step = "create" /\ r.op = "ensure" /\ Apt(r) /\ r \in RequestStates
      /\ d \in Daemons /\ d \in alive /\ r.daemon = d
  <2>1. /\ UNCHANGED <<alive, files, lease, disposal>>
        /\ r.step = "create" /\ r.op = "ensure" /\ Apt(r) /\ r \in RequestStates
    BY <1>2, OfRequest DEF CreateForStart, shared, KInv
  <2>2. d \in alive /\ d \in Daemons
    BY <1>1, <1>2, <2>1, OfRequest
  <2> QED BY <1>2, <2>1, <2>2
<1>4. CASE /\ IF r.session # NoSession /\ now # NoSession
              THEN Goes(c, [request[c] EXCEPT !.step = "release", !.leased = now])
              ELSE GoesTo(c, "done")
           /\ history' = [history EXCEPT !.strays = @ \cup Strays(d, r.leased)]
           /\ UNCHANGED resident
  <2>1. PICK x, y : /\ Turns(c, x) /\ x \in {"release", "done"}
                    /\ request'[c].runtime = request[c].runtime
                    /\ request'[c].leased = y
                    /\ IF r.session # NoSession /\ now # NoSession
                       THEN x = "release" /\ y = now
                       ELSE x = "done" /\ y = r.leased
    <3>1. CASE r.session # NoSession /\ now # NoSession
      BY <1>1, <1>4, <3>1, GoesOnWith
    <3>2. CASE ~(r.session # NoSession /\ now # NoSession)
      BY <1>1, <1>2, <1>4, <3>2, GoesToTurns
    <3> QED BY <3>1, <3>2
  <2>2. /\ history'.strays = history.strays \cup Strays(d, r.leased)
        /\ history'.lapsed = history.lapsed /\ history'.deleted = history.deleted
        /\ history'.forked = history.forked /\ history'.snatched = history.snatched
    BY <1>1, <1>4 DEF IInv, Types
  <2>3. \A e, t : Excused(e, t) => Excused(e, t)'
    BY <1>3, <2>2 DEF Excused
  <2>4. UNCHANGED <<registry, runtimes, live, active, dormant>>
    BY <1>4 DEF resident
  <2>5. Onward
    BY <1>2, <1>3, <2>1, <2>2, <2>3, <2>4, Goesward DEF AfterStart, Turns
  <2>6. Apt(request[c])'
    <3>1. CASE x = "done"
      BY <2>1, <3>1, DoneIsApt
    <3>2. CASE x = "release"
      BY <1>2, <1>3, <2>1, <2>5, <3>2 DEF Turns, Apt, Onward, Opens
    <3> QED BY <2>1, <3>1, <3>2
  <2>7. ASSUME NEW t \in Sessions, r.leased = t PROVE Kept(d, t)'
    <3>1. t # NoSession
      BY ResidencyAssumption
    <3>2. CASE now = t
      <4>1. CASE r.session = NoSession
        BY <1>2, <1>3, <2>2, <2>7, <3>1, <4>1 DEF Apt, Kept
      <4>2. CASE r.session # NoSession
        BY <1>2, <2>1, <3>1, <3>2, <4>2 DEF Turns, Kept, Keeping
      <4> QED BY <4>1, <4>2
    <3>3. CASE now # t
      BY <1>2, <2>2, <2>7, <3>1, <3>3 DEF Strays, Kept
    <3> QED BY <3>2, <3>3
  <2>8. \A o \in Requests \ {c} : request'[o] = request[o]
    BY <2>1 DEF Turns
  <2> QED BY <1>1, <1>2, <1>3, <2>4, <2>5, <2>6, <2>7, <2>8, AsideKeeps
<1>5. ASSUME NEW s \in IF r.session = NoSession THEN Fresh ELSE {r.session},
             GoesTo(c, "done"),
             runtimes' = [runtimes EXCEPT ![c] = s], live' = live \cup {c},
             IF registry[d][s] # NoRuntime
             THEN UNCHANGED <<registry, active, dormant>>
             ELSE /\ registry' = [registry EXCEPT ![d][s] = c]
                  /\ IF r.adopts
                     THEN /\ active' = [active EXCEPT ![d] = c]
                          /\ dormant' = [dormant EXCEPT ![d] = s]
                     ELSE UNCHANGED <<active, dormant>>,
             history' = [history EXCEPT !.used = @ \cup {s},
                           !.lapsed = IF r.leased = s THEN @ ELSE @ \cup {<<d, s>>}]
      PROVE  KInv'
  <2>1. s \in Sessions /\ s # NoSession
    BY <1>1, <1>2, <1>5, OfRequest, ResidencyAssumption DEF Fresh
  <2>2. /\ history.lapsed \subseteq history'.lapsed /\ history'.deleted = history.deleted
        /\ history'.strays = history.strays /\ history'.forked = history.forked
        /\ history'.snatched = history.snatched
    BY <1>1, <1>5 DEF IInv, Types
  <2>3. Turns(c, "done")
    BY <1>1, <1>5, GoesToTurns
  <2>4. r.leased \in {s, NoSession} \/ <<d, r.leased>> \in history.strays
    BY <1>3, <1>5 DEF Apt
  <2>5. \/ registry[d][s] # NoRuntime /\ UNCHANGED <<registry, active, dormant>>
        \/ /\ registry[d][s] = NoRuntime /\ registry' = [registry EXCEPT ![d][s] = c]
           /\ \/ UNCHANGED <<active, dormant>>
              \/ /\ active' = [active EXCEPT ![d] = c]
                 /\ dormant' = [dormant EXCEPT ![d] = s]
    BY <1>5
  <2>6. /\ request[c].step \in {"create", "setup"} /\ request[c].daemon = d
        /\ request[c].op # "delete" /\ c \in live' /\ live \subseteq live'
    BY <1>2, <1>3, <1>5
  <2> QED BY <1>1, <1>2, <1>3, <1>5, <2>1, <2>2, <2>3, <2>4, <2>5, <2>6, RegisteringKeeps
<1> QED BY <1>2, <1>4, <1>5 DEF CreateForStart

LEMMA DisposeForDeleteKeepsAll ==
    ASSUME KInv, NEW c \in Requests, DisposeForDelete(c)
    PROVE  KInv'
<1>1. IInv' /\ IInv
  BY DisposeForDeleteKeeps DEF KInv
<1>2. PICK d, r, s, was : /\ d = request[c].daemon /\ r = request[c].runtime
                          /\ s = request[c].session /\ was = runtimes[r]
  OBVIOUS
<1>3. /\ UNCHANGED <<alive, files, lease, runtimes, dormant, disposal>>
      /\ request[c].step = "dispose" /\ Apt(request[c])
      /\ \/ Disposed(d, r)
         \/ UNCHANGED <<registry, live>>
      /\ active' = [active EXCEPT ![d] = IF @ = r THEN NoRuntime ELSE @]
      /\ history' = [history EXCEPT !.deleted = @ \cup {was}]
  BY <1>2 DEF DisposeForDelete, shared, KInv
<1>4. /\ request[c].op = "delete" /\ r # NoRuntime /\ request[c].leased = s
      /\ was = s \/ <<d, was>> \in history.strays
      /\ Settled(d, r) /\ d \in Daemons /\ was \in Sessions /\ r \in Requests
  <2>1. d \in Daemons
    BY <1>1, <1>2, <1>3, OfRequest
  <2>2. /\ request[c].op = "delete" /\ r # NoRuntime /\ request[c].leased = s
        /\ was = s \/ <<d, was>> \in history.strays
        /\ Settled(d, r)
    BY <1>2, <1>3 DEF Apt
  <2> QED BY <1>2, <2>1, <2>2 DEF Settled
<1>5. /\ Turns(c, "remove") /\ request'[c].runtime = r
      /\ request'[c].leased = request[c].leased
  BY <1>1, <1>2, GoesToTurns DEF DisposeForDelete
<1>6. /\ history'.strays = history.strays /\ history'.lapsed = history.lapsed
      /\ history'.deleted = history.deleted \cup {was}
      /\ history'.forked = history.forked /\ history'.snatched = history.snatched
  BY <1>1, <1>3 DEF IInv, Types
<1>7. \A e, t : Excused(e, t) => Excused(e, t)'
  BY <1>3, <1>6 DEF Excused
<1>8. Onward
  BY <1>2, <1>3, <1>5, <1>6, <1>7, Goesward DEF AfterStart, Turns
<1>9. /\ live \ {r} \subseteq live'
      /\ \A e \in Daemons, t \in Sessions :
            \/ registry'[e][t] = registry[e][t] /\ (live' = live \/ ~(e = d /\ t = was))
            \/ registry'[e][t] = NoRuntime /\ e = d /\ t = was
  <2>1. CASE UNCHANGED <<registry, live>>
    BY <2>1
  <2>2. CASE Disposed(d, r)
    <3>1. registry \in Registries
      BY <1>1 DEF IInv, Types
    <3>2. registry' = [registry EXCEPT ![d][was] = NoRuntime] /\ live' = live \ {r}
      BY <1>2, <2>2 DEF Disposed
    <3> QED BY <1>4, <3>1, <3>2 DEF Registries
  <2> QED BY <1>3, <2>1, <2>2
<1>10. DeleteOf(r)'
  BY <1>4, <1>5 DEF DeleteOf, Turns
<1>11. Rebinds /\ LeavesLeases /\ Unregisters
  <2>1. Excused(d, was)'
    BY <1>6 DEF Excused
  <2> QED BY <1>3, <1>9, <2>1 DEF Rebinds, LeavesLeases, Unregisters
<1>12. Spares
  <2> SUFFICES ASSUME NEW x \in Requests, x \in live PROVE x \in live' \/ DeleteOf(x)'
    BY DEF Spares
  <2>1. CASE x = r
    BY <1>10, <2>1
  <2>2. CASE x # r
    BY <1>9, <2>2
  <2> QED BY <2>1, <2>2
<1>13. Apt(request[c])'
  <2>1. Settled(d, r)'
    BY <1>4, <1>8 DEF Onward
  <2> QED BY <1>2, <1>4, <1>5, <2>1 DEF Turns, Apt, Opens
<1>14. ASSUME NEW e \in Daemons, NEW t \in Sessions PROVE Registered(e, t)'
  <2>1. CASE registry'[e][t] = NoRuntime
    BY <2>1 DEF Registered
  <2>2. CASE registry'[e][t] # NoRuntime
    <3>1. PICK x : x = registry[e][t]
      OBVIOUS
    <3>2. /\ registry'[e][t] = x /\ (live' = live \/ ~(e = d /\ t = was)) /\ x # NoRuntime
      BY <1>9, <2>2, <3>1
    <3>3. Settled(e, x) /\ x \in live /\ runtimes[x] = t
      BY <3>1, <3>2 DEF KInv, Registered
    <3>4. x \in live'
      <4>1. CASE x = r
        BY <1>2, <1>4, <3>2, <3>3, <4>1 DEF Settled
      <4>2. CASE x # r
        BY <1>9, <3>3, <4>2
      <4> QED BY <4>1, <4>2
    <3> QED BY <1>3, <1>8, <3>2, <3>3, <3>4 DEF Registered, Onward
  <2> QED BY <2>1, <2>2
<1>15. ASSUME NEW e \in Daemons PROVE Remembered(e)'
  <2>1. CASE active'[e] = active[e]
    BY <1>3, <1>8, <1>11, <2>1, MemoryStays
  <2>2. CASE active'[e] # active[e]
    <3>1. active'[e] = NoRuntime
      BY <1>1, <1>3, <2>2 DEF IInv, Types
    <3>2. /\ dormant'[e] = dormant[e]
          /\ dormant[e] # NoSession =>
                \/ Excused(e, dormant[e])' \/ registry'[e][dormant[e]] # NoRuntime
                \/ Leaving(e, dormant[e])'
      BY <1>3, <1>8, <1>11, MemoryStays
    <3> QED BY <3>1, <3>2 DEF Remembered, Recalled, AtWork
  <2> QED BY <2>1, <2>2
<1>16. ASSUME NEW e \in alive, NEW t \in Sessions, lease'[t] = e PROVE Kept(e, t)'
  <2>1. Kept(e, t) /\ e \in Daemons
    BY <1>1, <1>3, <1>16 DEF KInv, IInv, Types
  <2>2. request[c].daemon = e /\ request[c].leased = t => Kept(e, t)'
    BY <1>5 DEF Kept, Keeping, Turns
  <2>3. registry[e][t] = NoRuntime \/ Kept(e, t)'
    <3>1. CASE registry'[e][t] = registry[e][t]
      BY <3>1 DEF Kept
    <3>2. CASE e = d /\ t = was
      BY <1>2, <1>4, <1>6, <2>2, <3>2 DEF Kept
    <3> QED BY <1>9, <2>1, <3>1, <3>2
  <2> QED BY <1>3, <1>5, <1>8, <2>1, <2>2, <2>3, StaysKept DEF Turns
<1> QED BY <1>1, <1>3, <1>5, <1>8, <1>11, <1>12, <1>13, <1>14, <1>15, <1>16, RequestKeeps DEF Turns

-----------------------------------------------------------------------------
(* The idle timer. *)

\* No request is at work on the session.
Deserted(d, s) ==
    \A x \in Requests :
        request[x].step \notin {"free", "done", "wait"} /\ request[x].op \in Opens =>
            ~(request[x].daemon = d /\ request[x].session = s)

\* A step of the disposal of s by d, which may tear the runtime down.
LEMMA TimerKeepsAll ==
    ASSUME KInv, IInv', Onward, UNCHANGED <<alive, request, runtimes>>,
           NEW d \in Daemons, NEW s \in Sessions,
           disposal' \in [Daemons -> [Sessions -> Disposals]],
           \A e \in Daemons, t \in Sessions :
              disposal'[e][t] = disposal[e][t] \/ (e = d /\ t = s),
           Deserted(d, s),
           \A e \in Daemons, t \in Sessions :
              registry'[e][t] = registry[e][t] \/ registry'[e][t] = NoRuntime,
           \A e \in Daemons, t \in Sessions :
              \/ registry'[e][t] = registry[e][t]
              \/ Excused(e, t)' \/ (e = d /\ t = s),
           \A e \in Daemons, r \in Requests :
              Settled(e, r) /\ r \in live =>
                 \/ r \in live' \/ r \in history.snatched
                 \/ e = d /\ runtimes[r] = s,
           \A e \in Daemons, t \in Sessions :
              registry'[e][t] # NoRuntime => registry'[e][t] \in live',
           \A t \in Sessions : lease'[t] = lease[t] \/ t = s,
           \A e \in alive, t \in Sessions : ~(e = d /\ t = s) /\ lease[t] = e => lease'[t] = e,
           Ending(d, s)',
           \A e \in Daemons : Remembered(e)',
           \A e \in alive, t \in Sessions : lease'[t] = e => Kept(e, t)'
    PROVE  KInv'
<1>1. ASSUME NEW x \in Requests PROVE Apt(request[x])'
  <2>1. PICK r : request[x] = r /\ request'[x] = r
    OBVIOUS
  <2> DEFINE t == r.runtime
             e == r.daemon
  <2>2. Apt(r) /\ r \in RequestStates /\ (r.step \notin {"free", "done"} => e \in Daemons)
    BY <2>1, OfRequest DEF KInv
  <2>3. r.step \notin {"free", "done", "wait"} /\ r.op \in Opens =>
           /\ ~(e = d /\ r.session = s) /\ r.session \in Sessions
           /\ disposal'[e][r.session].step = "none"
    BY <2>1, <2>2 DEF Deserted, Apt
  <2>4. r.step \notin {"free", "done"} /\ t # NoRuntime =>
           t \in Requests /\ Settled(e, t) /\ Settled(e, t)'
    BY <2>2 DEF Apt, Onward, Settled
  <2>5. r.step = "lose" => \/ Excused(e, runtimes[t])'
                           \/ runtimes'[t] = r.session /\ registry'[e][r.session] = t
    BY <2>2, <2>3 DEF Apt, Onward
  <2>6. r.step \in {"using", "lose"} /\ runtimes'[t] = r.session =>
           t \in live' \cup history'.snatched \/ DeleteOf(t)'
    BY <2>2, <2>3, <2>4 DEF Apt, Onward, DeleteOf
  <2>7. /\ r.op = "ensure" /\ r.step \in {"lease", "create"} =>
              r.leased \in {r.session, NoSession} \/ <<e, r.leased>> \in history'.strays
        /\ r.step = "forked" => <<e, r.leased>> \in history'.strays /\ r.leased \in history'.forked
        /\ r.step = "dispose" => \/ runtimes'[t] = r.session
                                 \/ <<e, runtimes'[t]>> \in history'.strays
    BY <2>2 DEF Apt, Onward
  <2> QED BY <2>1, <2>2, <2>3, <2>4, <2>5, <2>6, <2>7 DEF Apt, DeleteOf
<1>2. ASSUME NEW e \in Daemons, NEW t \in Sessions PROVE Registered(e, t)'
  <2>1. PICK x : x = registry'[e][t]
    OBVIOUS
  <2>2. x # NoRuntime => Settled(e, x) /\ runtimes[x] = t /\ x \in live'
    BY <2>1 DEF KInv, Registered
  <2> QED BY <2>1, <2>2 DEF Registered, Onward
<1>3. ASSUME NEW e \in Daemons, NEW t \in Sessions, ~(e = d /\ t = s) PROVE Ending(e, t)'
  <2>1. PICK p : disposal[e][t] = p /\ disposal'[e][t] = p
    BY <1>3
  <2>2. Ending(e, t)
    BY DEF KInv
  <2>3. p.step # "none" => e \in alive /\ p.runtime # NoRuntime
                           /\ Settled(e, p.runtime) /\ Settled(e, p.runtime)'
    BY <2>1, <2>2, ResidencyAssumption DEF Ending, Onward, Settled
  <2>4. p.step = "dispose" => registry'[e][t] = p.runtime \/ Excused(e, t)'
    BY <1>3, <2>1, <2>2 DEF Ending, Onward
  <2>5. p.step \in {"stat", "release"} => lease'[t] = e \/ Excused(e, t)'
    BY <1>3, <2>1, <2>2, <2>3 DEF Ending, Onward
  <2> QED BY <2>1, <2>2, <2>3, <2>4, <2>5 DEF Ending, Onward
<1>4. \A e \in Daemons, t \in Sessions : Ending(e, t)'
  BY <1>3
<1> QED BY <1>1, <1>2, <1>4 DEF KInv

\* One entry of the disposals changes.
LEMMA OneDisposal ==
    ASSUME disposal \in [Daemons -> [Sessions -> Disposals]],
           NEW d \in Daemons, NEW s \in Sessions, NEW p \in Disposals,
           disposal' = [disposal EXCEPT ![d][s] = p]
    PROVE  /\ disposal' \in [Daemons -> [Sessions -> Disposals]]
           /\ disposal'[d][s] = p
           /\ \A e \in Daemons, t \in Sessions :
                 disposal'[e][t] = disposal[e][t] \/ (e = d /\ t = s)
<1>1. [disposal[d] EXCEPT ![s] = p] \in [Sessions -> Disposals]
  OBVIOUS
<1> QED BY <1>1

\* While a disposal is under way, no request is at work on its session.
LEMMA DisposalIsAlone ==
    ASSUME KInv, NEW d \in Daemons, NEW s \in Sessions, disposal[d][s].step # "none"
    PROVE  Deserted(d, s)
BY DEF KInv, Apt, Deserted

\* What a daemon remembers, when no runtime is rebound: what was registered or
\* leaving is still, or is excused.
LEMMA TimerRecalls ==
    ASSUME KInv, Onward, UNCHANGED runtimes, NEW e \in Daemons,
           \A t \in Sessions, x \in Requests :
              \/ registry[e][t] = x
              \/ Leaving(e, t) /\ disposal[e][t].runtime = x
              => \/ Excused(e, t)'
                 \/ registry'[e][t] = x
                 \/ Leaving(e, t)' /\ disposal'[e][t].runtime = x
    PROVE  /\ \A t \in Sessions : Recalled(e, t) => Recalled(e, t)'
           /\ \A x : x # NoRuntime /\ AtWork(e, x) => AtWork(e, x)'
<1>1. ASSUME NEW t \in Sessions, Recalled(e, t) PROVE Recalled(e, t)'
  <2>1. CASE Excused(e, t)
    BY <2>1 DEF Onward, Recalled
  <2>2. CASE registry[e][t] # NoRuntime
    <3>1. registry[e][t] \in Requests
      BY <2>2 DEF KInv, IInv, Types, Registries
    <3> QED BY <2>2, <3>1, ResidencyAssumption DEF Recalled
  <2>3. CASE Leaving(e, t)
    <3>1. disposal[e][t].runtime \in Requests
      BY <2>3 DEF KInv, Ending, Leaving, Settled
    <3> QED BY <2>3, <3>1, ResidencyAssumption DEF Recalled
  <2> QED BY <1>1, <2>1, <2>2, <2>3 DEF Recalled
<1>2. ASSUME NEW x, AtWork(e, x) PROVE AtWork(e, x)'
  <2>1. x \in Requests /\ runtimes[x] \in Sessions /\ Settled(e, x)'
    BY <1>2 DEF AtWork, Settled, Onward
  <2> QED BY <1>2, <2>1 DEF AtWork, Onward
<1> QED BY <1>1, <1>2

LEMMA DisposeKeepsAll ==
    ASSUME KInv, NEW d \in Daemons, NEW s \in Sessions, Dispose(d, s)
    PROVE  KInv'
<1>1. IInv' /\ IInv
  BY IdleTimerKeeps DEF KInv, IdleTimer
<1>2. PICK r : r = registry[d][s]
  OBVIOUS
<1>3. /\ UNCHANGED <<alive, files, lease, registry, runtimes, live, active, request, history>>
      /\ r # NoRuntime /\ disposal[d][s] = NoDisposal /\ IdleSafe(d, s)
      /\ disposal' = [disposal EXCEPT ![d][s] =
                        [NoDisposal EXCEPT !.step = "dispose", !.runtime = r]]
      /\ dormant' = [dormant EXCEPT ![d] = IF active[d] = r THEN s ELSE @]
  BY <1>2 DEF Dispose, shared
<1>4. r \in Requests /\ Settled(d, r) /\ r \in live /\ runtimes[r] = s /\ d \in alive
  BY <1>2, <1>3 DEF KInv, Registered, IInv, ResidentHeld, Settled
<1>5. PICK p : p = [NoDisposal EXCEPT !.step = "dispose", !.runtime = r]
  OBVIOUS
<1>6. p \in Disposals /\ p.step = "dispose" /\ p.runtime = r
  BY <1>4, <1>5 DEF Disposals, NoDisposal
<1>7. /\ disposal' \in [Daemons -> [Sessions -> Disposals]]
      /\ disposal'[d][s] = p
      /\ \A e \in Daemons, t \in Sessions :
            disposal'[e][t] = disposal[e][t] \/ (e = d /\ t = s)
  BY <1>3, <1>5, <1>6, OneDisposal DEF KInv
<1>8. Onward
  BY <1>3 DEF Onward, Excused, Settled, DeleteOf
<1>9. Deserted(d, s)
  BY <1>3 DEF IdleSafe, SessionRequests, Serving, Deserted, Opens
<1>10. Ending(d, s)'
  BY <1>2, <1>3, <1>4, <1>6, <1>7, <1>8 DEF Ending, Onward
<1>11. \A e \in Daemons, t \in Sessions : Leaving(e, t) =>
          Leaving(e, t)' /\ disposal'[e][t] = disposal[e][t]
  BY <1>3, <1>7 DEF Leaving, NoDisposal
<1>12. ASSUME NEW e \in Daemons PROVE Remembered(e)'
  <2>1. /\ \A t \in Sessions : Recalled(e, t) => Recalled(e, t)'
        /\ \A x : x # NoRuntime /\ AtWork(e, x) => AtWork(e, x)'
    BY <1>3, <1>8, <1>11, TimerRecalls
  <2>2. dormant[e] \in Sessions \cup {NoSession} /\ Remembered(e)
    BY <1>1 DEF KInv, IInv, Types
  <2>3. dormant'[e] = dormant[e] \/ (dormant'[e] = s /\ e = d)
    BY <1>1, <1>3 DEF IInv, Types
  <2>4. Recalled(d, s)'
    BY <1>2, <1>3 DEF Recalled
  <2> QED BY <1>3, <2>1, <2>2, <2>3, <2>4 DEF Remembered
<1>13. ASSUME NEW e \in alive, NEW t \in Sessions, lease'[t] = e PROVE Kept(e, t)'
  <2>1. Kept(e, t) /\ e \in Daemons
    BY <1>1, <1>3, <1>13 DEF KInv, IInv, Types
  <2> QED BY <1>3, <1>11, <2>1 DEF Kept
<1>14. \A e \in Daemons, t \in Sessions :
          registry'[e][t] # NoRuntime => registry'[e][t] \in live'
  BY <1>3 DEF KInv, Registered
<1> QED BY <1>1, <1>3, <1>7, <1>8, <1>9, <1>10, <1>12, <1>13, <1>14, TimerKeepsAll

LEMMA StatKeepsAll ==
    ASSUME KInv, NEW d \in Daemons, NEW s \in Sessions, Stat(d, s)
    PROVE  KInv'
<1>1. IInv' /\ IInv
  BY IdleTimerKeeps DEF KInv, IdleTimer
<1>0. PICK gone \in BOOLEAN : gone = (s \notin files)
  OBVIOUS
<1>2. PICK p : p = disposal[d][s]
  OBVIOUS
<1>3. /\ UNCHANGED <<alive, files, lease, registry, runtimes, live, active, dormant, request,
                     history>>
      /\ p.step = "stat"
      /\ disposal' = [disposal EXCEPT ![d][s] = [p EXCEPT !.step = "release", !.ephemeral = gone]]
  BY <1>2, <1>0 DEF Stat, shared, resident
<1>4. PICK q : q = [p EXCEPT !.step = "release", !.ephemeral = gone]
  OBVIOUS
<1>5. p \in Disposals /\ Ending(d, s)
  BY <1>2 DEF KInv
<1>6. q \in Disposals /\ q.step = "release" /\ q.runtime = p.runtime /\ q.ephemeral = gone
  BY <1>4, <1>5 DEF Disposals
<1>7. /\ disposal' \in [Daemons -> [Sessions -> Disposals]]
      /\ disposal'[d][s] = q
      /\ \A e \in Daemons, t \in Sessions :
            disposal'[e][t] = disposal[e][t] \/ (e = d /\ t = s)
  BY <1>3, <1>4, <1>6, OneDisposal DEF KInv
<1>8. Onward
  BY <1>3 DEF Onward, Excused, Settled, DeleteOf
<1>9. Deserted(d, s)
  BY <1>2, <1>3, DisposalIsAlone
<1>10. Ending(d, s)'
  <2>1. ~gone => Excused(d, s)'
    BY <1>0, <1>3 DEF Excused
  <2>2. lease'[s] = d \/ Excused(d, s)'
    BY <1>2, <1>3, <1>5, <1>8 DEF Ending, Onward
  <2>3. runtimes'[p.runtime] # s => Excused(d, s)'
    BY <1>2, <1>3, <1>5, <1>8 DEF Ending, Onward
  <2>4. d \in alive /\ Settled(d, p.runtime)'
    BY <1>2, <1>3, <1>5, <1>8 DEF Ending, Onward
  <2> QED BY <1>3, <1>6, <1>7, <2>1, <2>2, <2>3, <2>4 DEF Ending
<1>11. \A e \in Daemons, t \in Sessions : Leaving(e, t) =>
          Leaving(e, t)' /\ disposal'[e][t].runtime = disposal[e][t].runtime
  BY <1>2, <1>3, <1>6, <1>7 DEF Leaving
<1>12. ASSUME NEW e \in Daemons PROVE Remembered(e)'
  <2>1. /\ \A t \in Sessions : Recalled(e, t) => Recalled(e, t)'
        /\ \A x : x # NoRuntime /\ AtWork(e, x) => AtWork(e, x)'
    BY <1>3, <1>8, <1>11, TimerRecalls
  <2>2. dormant[e] \in Sessions \cup {NoSession} /\ Remembered(e)
    BY <1>1 DEF KInv, IInv, Types
  <2> QED BY <1>3, <2>1, <2>2 DEF Remembered
<1>13. ASSUME NEW e \in alive, NEW t \in Sessions, lease'[t] = e PROVE Kept(e, t)'
  <2>1. Kept(e, t) /\ e \in Daemons
    BY <1>1, <1>3, <1>13 DEF KInv, IInv, Types
  <2> QED BY <1>3, <1>11, <2>1 DEF Kept
<1>14. \A e \in Daemons, t \in Sessions :
          registry'[e][t] # NoRuntime => registry'[e][t] \in live'
  BY <1>3 DEF KInv, Registered
<1> QED BY <1>1, <1>3, <1>7, <1>8, <1>9, <1>10, <1>12, <1>13, <1>14, TimerKeepsAll

\* A disposal that ends leaves its session to the others.
LEMMA EndedIsEnded ==
    ASSUME NEW d \in Daemons, NEW s \in Sessions, disposal'[d][s] = NoDisposal
    PROVE  Ending(d, s)'
BY DEF Ending, NoDisposal

LEMMA DisposeIdleKeepsAll ==
    ASSUME KInv, NEW d \in Daemons, NEW s \in Sessions, DisposeIdle(d, s)
    PROVE  KInv'
<1>1. IInv' /\ IInv
  BY IdleTimerKeeps DEF KInv, IdleTimer
<1>2. PICK p, r, was : p = disposal[d][s] /\ r = p.runtime /\ was = runtimes[r]
  OBVIOUS
<1>3. /\ UNCHANGED <<alive, files, lease, runtimes, active, dormant, request, history>>
      /\ p.step = "dispose" /\ p \in Disposals
  BY <1>2 DEF DisposeIdle, shared, KInv
<1>4. /\ d \in alive /\ Settled(d, r) /\ r \in Requests /\ was \in Sessions
      /\ \/ was = s
         \/ /\ r \in history.snatched /\ <<d, was>> \in history.strays
            /\ was \in history.forked
      /\ registry[d][s] = r \/ Excused(d, s)
  <2>1. Ending(d, s)
    BY DEF KInv
  <2> QED BY <1>2, <1>3, <2>1 DEF Ending, Settled
<1>5. Onward
  BY <1>3 DEF Onward, Excused, Settled, DeleteOf
<1>6. Deserted(d, s)
  BY <1>2, <1>3, DisposalIsAlone
<1>7. CASE disposal' = [disposal EXCEPT ![d][s] = NoDisposal] /\ UNCHANGED <<registry, live>>
  <2>1. NoDisposal \in Disposals
    BY DEF NoDisposal, Disposals
  <2>2. /\ disposal' \in [Daemons -> [Sessions -> Disposals]]
        /\ disposal'[d][s] = NoDisposal
        /\ \A e \in Daemons, t \in Sessions :
              disposal'[e][t] = disposal[e][t] \/ (e = d /\ t = s)
    BY <1>7, <2>1, OneDisposal DEF KInv
  <2>3. \A e \in Daemons, t \in Sessions : Leaving(e, t) =>
           Leaving(e, t)' /\ disposal'[e][t] = disposal[e][t]
    BY <1>2, <1>3, <2>2 DEF Leaving
  <2>4. Ending(d, s)'
    BY <2>2, EndedIsEnded
  <2>5. ASSUME NEW e \in Daemons PROVE Remembered(e)'
    <3>1. /\ \A t \in Sessions : Recalled(e, t) => Recalled(e, t)'
          /\ \A x : x # NoRuntime /\ AtWork(e, x) => AtWork(e, x)'
      BY <1>3, <1>5, <1>7, <2>3, TimerRecalls
    <3>2. dormant[e] \in Sessions \cup {NoSession} /\ Remembered(e)
      BY <1>1 DEF KInv, IInv, Types
    <3> QED BY <1>3, <3>1, <3>2 DEF Remembered
  <2>6. ASSUME NEW e \in alive, NEW t \in Sessions, lease'[t] = e PROVE Kept(e, t)'
    <3>1. Kept(e, t) /\ e \in Daemons
      BY <1>1, <1>3, <2>6 DEF KInv, IInv, Types
    <3> QED BY <1>3, <1>7, <2>3, <3>1 DEF Kept
  <2>7. \A e \in Daemons, t \in Sessions :
           registry'[e][t] # NoRuntime => registry'[e][t] \in live'
    BY <1>7 DEF KInv, Registered
  <2> QED BY <1>1, <1>3, <1>5, <1>6, <1>7, <2>2, <2>4, <2>5, <2>6, <2>7, TimerKeepsAll
<1>8. CASE Disposed(d, r) /\ disposal' = [disposal EXCEPT ![d][s].step = "stat"]
  <2>1. PICK q : q = [p EXCEPT !.step = "stat"]
    OBVIOUS
  <2>2. q \in Disposals /\ q.step = "stat" /\ q.runtime = r
    BY <1>2, <1>3, <2>1 DEF Disposals
  <2>3. /\ disposal' \in [Daemons -> [Sessions -> Disposals]]
        /\ disposal'[d][s] = q
        /\ \A e \in Daemons, t \in Sessions :
              disposal'[e][t] = disposal[e][t] \/ (e = d /\ t = s)
    <3>1. disposal' = [disposal EXCEPT ![d][s] = q]
      BY <1>2, <1>8, <2>1
    <3> QED BY <2>2, <3>1, OneDisposal DEF KInv
  <2>4. /\ live' = live \ {r}
        /\ \A e \in Daemons, t \in Sessions :
              \/ registry'[e][t] = registry[e][t] /\ ~(e = d /\ t = was)
              \/ registry'[e][t] = NoRuntime /\ e = d /\ t = was
    <3>1. registry \in Registries
      BY <1>1 DEF IInv, Types
    <3>2. registry' = [registry EXCEPT ![d][was] = NoRuntime] /\ live' = live \ {r}
      BY <1>2, <1>8 DEF Disposed
    <3> QED BY <1>4, <3>1, <3>2 DEF Registries
  <2>5. Leaving(d, s)' /\ ~Leaving(d, s)
    BY <1>2, <1>3, <2>2, <2>3 DEF Leaving
  <2>6. was # s => Excused(d, was)'
    BY <1>3, <1>4 DEF Excused
  <2>7. Ending(d, s)'
    <3>1. registry[d][s] = r => lease[s] = d \/ Excused(d, s)
      <4>1. r # NoRuntime
        BY <1>4, ResidencyAssumption
      <4> QED BY <1>1, <4>1, ResidencyAssumption DEF IInv, Types, ResidentHeld, Holding, Excused
    <3>2. was # s => Excused(d, s)
      <4>1. r # NoRuntime
        BY <1>4, ResidencyAssumption
      <4>2. registry[d][s] = r => was = s
        BY <1>2, <4>1 DEF KInv, Registered
      <4> QED BY <1>4, <4>2
    <3> QED BY <1>2, <1>3, <1>4, <1>5, <2>2, <2>3, <3>1, <3>2 DEF Ending, Onward
  <2>8. \A e \in Daemons, t \in Sessions : Leaving(e, t) =>
           Leaving(e, t)' /\ disposal'[e][t] = disposal[e][t]
    BY <2>3, <2>5 DEF Leaving
  <2>9. ASSUME NEW e \in Daemons PROVE Remembered(e)'
    <3>1. ASSUME NEW t \in Sessions, NEW x \in Requests, registry[e][t] = x
          PROVE  \/ Excused(e, t)'
                 \/ registry'[e][t] = x
                 \/ Leaving(e, t)' /\ disposal'[e][t].runtime = x
      <4>1. CASE registry'[e][t] = registry[e][t]
        BY <3>1, <4>1
      <4>2. CASE e = d /\ t = was /\ was # s
        BY <2>6, <4>2
      <4>3. CASE e = d /\ t = was /\ was = s
        <5>1. x = r \/ Excused(d, s)'
          BY <1>4, <1>5, <3>1, <4>3 DEF Onward
        <5> QED BY <2>2, <2>3, <2>5, <4>3, <5>1
      <4> QED BY <2>4, <4>1, <4>2, <4>3
    <3>2. /\ \A t \in Sessions : Recalled(e, t) => Recalled(e, t)'
          /\ \A x : x # NoRuntime /\ AtWork(e, x) => AtWork(e, x)'
      BY <1>3, <1>5, <2>8, <3>1, TimerRecalls
    <3>3. dormant[e] \in Sessions \cup {NoSession} /\ Remembered(e)
      BY <1>1 DEF KInv, IInv, Types
    <3> QED BY <1>3, <3>2, <3>3 DEF Remembered
  <2>10. ASSUME NEW e \in alive, NEW t \in Sessions, lease'[t] = e PROVE Kept(e, t)'
    <3>1. Kept(e, t) /\ e \in Daemons
      BY <1>1, <1>3, <2>10 DEF KInv, IInv, Types
    <3>2. CASE e = d /\ t = was
      BY <1>3, <1>4, <2>5, <3>2 DEF Kept
    <3>3. CASE ~(e = d /\ t = was)
      BY <1>3, <2>4, <2>8, <3>1, <3>3 DEF Kept
    <3> QED BY <3>2, <3>3
  <2>11. \A e \in Daemons, t \in Sessions :
            registry'[e][t] # NoRuntime => registry'[e][t] \in live'
    <3> SUFFICES ASSUME NEW e \in Daemons, NEW t \in Sessions, registry'[e][t] # NoRuntime
                 PROVE  registry'[e][t] \in live'
      OBVIOUS
    <3>1. PICK x : x = registry[e][t]
      OBVIOUS
    <3>2. registry'[e][t] = x /\ ~(e = d /\ t = was) /\ x # NoRuntime
      BY <2>4, <3>1
    <3>3. Settled(e, x) /\ x \in live /\ runtimes[x] = t
      BY <3>1, <3>2 DEF KInv, Registered
    <3>4. x # r
      BY <1>2, <1>4, <3>2, <3>3 DEF Settled
    <3> QED BY <2>4, <3>2, <3>3, <3>4
  <2>12. \A e \in Daemons, x \in Requests :
            Settled(e, x) /\ x \in live =>
               \/ x \in live' \/ x \in history.snatched
               \/ e = d /\ runtimes[x] = s
    BY <1>2, <1>4, <2>4 DEF Settled
  <2>13. \A e \in Daemons, t \in Sessions :
            \/ registry'[e][t] = registry[e][t]
            \/ Excused(e, t)' \/ (e = d /\ t = s)
    BY <2>4, <2>6
  <2> QED BY <1>1, <1>3, <1>5, <1>6, <2>3, <2>4, <2>7, <2>9, <2>10, <2>11, <2>12, <2>13,
             TimerKeepsAll
<1> QED BY <1>2, <1>7, <1>8 DEF DisposeIdle

LEMMA ReleaseIdleKeepsAll ==
    ASSUME KInv, NEW d \in Daemons, NEW s \in Sessions, ReleaseIdle(d, s)
    PROVE  KInv'
<1>1. IInv' /\ IInv
  BY IdleTimerKeeps DEF KInv, IdleTimer
<1>2. PICK p : p = disposal[d][s]
  OBVIOUS
<1>3. /\ UNCHANGED <<alive, files, registry, runtimes, live, request>>
      /\ p.step = "release" /\ Ending(d, s)
      /\ lease' = [lease EXCEPT ![s] = IF @ = d THEN NoDaemon ELSE @]
      /\ active' = [active EXCEPT ![d] = IF @ = p.runtime THEN NoRuntime ELSE @]
      /\ dormant' = [dormant EXCEPT ![d] =
                        IF p.ephemeral /\ lease[s] = d /\ @ = s THEN NoSession ELSE @]
      /\ disposal' = [disposal EXCEPT ![d][s] = NoDisposal]
  BY <1>2 DEF ReleaseIdle, Release, KInv
<1>4. /\ history.lapsed \subseteq history'.lapsed /\ history'.deleted = history.deleted
      /\ history'.strays = history.strays /\ history'.forked = history.forked
      /\ history'.snatched = history.snatched
  <2>1. PICK relied \in BOOLEAN :
           history' = [history EXCEPT !.lapsed = IF relied THEN @ \cup {<<d, s>>} ELSE @]
    <3>1. Relying(d, s, {}) \in BOOLEAN
      BY DEF Relying
    <3> QED BY <3>1 DEF ReleaseIdle, Release
  <2> QED BY <1>1, <2>1 DEF IInv, Types
<1>5. \A e, t : Excused(e, t) => Excused(e, t)'
  BY <1>3, <1>4 DEF Excused
<1>6. Onward
  BY <1>3, <1>4, <1>5 DEF Onward, Settled, DeleteOf
<1>7. Deserted(d, s)
  BY <1>2, <1>3, DisposalIsAlone
<1>8. /\ disposal' \in [Daemons -> [Sessions -> Disposals]]
      /\ disposal'[d][s] = NoDisposal
      /\ \A e \in Daemons, t \in Sessions :
            disposal'[e][t] = disposal[e][t] \/ (e = d /\ t = s)
  <2>1. NoDisposal \in Disposals
    BY DEF NoDisposal, Disposals
  <2> QED BY <1>3, <2>1, OneDisposal DEF KInv
<1>9. Ending(d, s)'
  BY <1>8, EndedIsEnded
<1>10. /\ lease'[s] # d
       /\ \A t \in Sessions \ {s} : lease'[t] = lease[t]
       /\ lease'[s] = IF lease[s] = d THEN NoDaemon ELSE lease[s]
  BY <1>1, <1>3, ResidencyAssumption DEF IInv, Types
<1>11. (p.ephemeral /\ lease[s] = d) \/ Excused(d, s)'
  BY <1>2, <1>3, <1>5 DEF Ending
<1>12. ASSUME NEW e \in Daemons PROVE Remembered(e)'
  <2>1. PICK n, x : n = dormant[e] /\ x = active[e]
    OBVIOUS
  <2>2. /\ n # NoSession => n \in Sessions /\ Recalled(e, n)
        /\ x # NoRuntime => AtWork(e, x)
    BY <1>1, <2>1 DEF KInv, Remembered, IInv, Types
  <2>3. /\ dormant'[e] \in {n, NoSession}
        /\ dormant'[e] = n /\ n # NoSession => ~(e = d /\ n = s) \/ Excused(d, s)'
        /\ active'[e] \in {x, NoRuntime}
        /\ active'[e] = x /\ x # NoRuntime => ~(e = d /\ x = p.runtime)
    BY <1>1, <1>3, <1>11, <2>1, ResidencyAssumption DEF IInv, Types
  <2>4. \A t \in Sessions : ~(e = d /\ t = s) =>
           (Leaving(e, t) => Leaving(e, t)' /\ disposal'[e][t] = disposal[e][t])
    BY <1>8 DEF Leaving
  <2>5. dormant'[e] = n /\ n # NoSession => Recalled(e, n)'
    BY <1>3, <1>5, <2>2, <2>3, <2>4 DEF Recalled
  <2>6. active'[e] = x /\ x # NoRuntime => AtWork(e, x)'
    <3> SUFFICES ASSUME active'[e] = x, x # NoRuntime PROVE AtWork(e, x)'
      OBVIOUS
    <3>1. /\ Settled(e, x) /\ Settled(e, x)' /\ runtimes[x] \in Sessions
          /\ ~(e = d /\ x = p.runtime)
      BY <1>6, <2>2, <2>3 DEF AtWork, Settled, Onward
    <3>2. CASE Excused(e, runtimes[x])
      BY <1>3, <1>5, <3>1, <3>2 DEF AtWork
    <3>3. CASE registry[e][runtimes[x]] = x
      BY <1>3, <3>1, <3>3 DEF AtWork
    <3>4. CASE Leaving(e, runtimes[x]) /\ disposal[e][runtimes[x]].runtime = x
      <4>1. ~(e = d /\ runtimes[x] = s)
        BY <1>2, <3>1, <3>4
      <4> QED BY <1>3, <2>4, <3>1, <3>4, <4>1 DEF AtWork
    <3> QED BY <2>2, <3>2, <3>3, <3>4 DEF AtWork
  <2>7. /\ dormant'[e] # NoSession => Recalled(e, n)' /\ dormant'[e] = n
        /\ active'[e] # NoRuntime => AtWork(e, x)' /\ active'[e] = x
    BY <2>3, <2>5, <2>6
  <2> QED BY <2>7 DEF Remembered
<1>13. ASSUME NEW e \in alive, NEW t \in Sessions, lease'[t] = e PROVE Kept(e, t)'
  <2>1. e # NoDaemon /\ e \in Daemons
    BY <1>1, <1>13, ResidencyAssumption DEF IInv, Types
  <2>2. lease[t] = e /\ ~(e = d /\ t = s)
    BY <1>10, <1>13, <2>1
  <2>3. Kept(e, t) /\ disposal'[e][t] = disposal[e][t]
    BY <1>8, <2>1, <2>2 DEF KInv
  <2> QED BY <1>3, <1>4, <2>3 DEF Kept, Leaving
<1>14. \A e \in Daemons, t \in Sessions :
          registry'[e][t] # NoRuntime => registry'[e][t] \in live'
  BY <1>3 DEF KInv, Registered
<1>15. /\ \A t \in Sessions : lease'[t] = lease[t] \/ t = s
       /\ \A e \in alive, t \in Sessions : ~(e = d /\ t = s) /\ lease[t] = e => lease'[t] = e
  BY <1>10
<1> QED BY <1>1, <1>3, <1>6, <1>7, <1>8, <1>9, <1>12, <1>13, <1>14, <1>15, TimerKeepsAll

-----------------------------------------------------------------------------
(* The death of a daemon. *)

LEMMA CrashKeepsAll ==
    ASSUME KInv, NEW d \in Daemons, Crash(d)
    PROVE  KInv'
<1>1. IInv' /\ IInv
  BY CrashKeeps DEF KInv
<1>2. /\ UNCHANGED <<files, lease, runtimes, history>>
      /\ alive' = alive \ {d}
      /\ live' = {c \in live : request[c].daemon # d}
      /\ registry' = [registry EXCEPT ![d] = [s \in Sessions |-> NoRuntime]]
      /\ active' = [active EXCEPT ![d] = NoRuntime]
      /\ dormant' = [dormant EXCEPT ![d] = NoSession]
      /\ request' = [c \in Requests |-> IF request[c].daemon = d
                                        THEN [request[c] EXCEPT !.step = "done"] ELSE request[c]]
      /\ disposal' = [disposal EXCEPT ![d] = [s \in Sessions |-> NoDisposal]]
  BY DEF Crash
<1>3. ASSUME NEW x \in Requests
      PROVE  /\ request'[x].op = request[x].op /\ request'[x].daemon = request[x].daemon
             /\ request'[x].runtime = request[x].runtime
             /\ request'[x].session = request[x].session
             /\ \/ request'[x].step = "done" /\ request[x].daemon = d
                \/ request'[x] = request[x] /\ request[x].daemon # d
  <2>1. PICK r : r = request[x]
    OBVIOUS
  <2>2. r \in RequestStates
    BY <1>1, <2>1 DEF IInv
  <2>3. CASE r.daemon = d
    <3> DEFINE u == [r EXCEPT !.step = "done"]
    <3>1. /\ u.op = r.op /\ u.daemon = r.daemon /\ u.session = r.session /\ u.step = "done"
          /\ u.runtime = r.runtime
      BY <2>2, FieldsAfter
    <3>2. request'[x] = u
      BY <1>2, <2>1, <2>3
    <3> HIDE DEF u
    <3> QED BY <2>1, <2>3, <3>1, <3>2
  <2>4. CASE r.daemon # d
    BY <1>2, <2>1, <2>4
  <2> QED BY <2>3, <2>4
<1>4. Onward
  BY <1>2, <1>3 DEF Onward, Excused, Settled, AfterStart, DeleteOf
<1>5. /\ \A s \in Sessions : registry'[d][s] = NoRuntime /\ disposal'[d][s] = NoDisposal
      /\ \A e \in Daemons \ {d} : /\ registry'[e] = registry[e] /\ disposal'[e] = disposal[e]
                                  /\ active'[e] = active[e] /\ dormant'[e] = dormant[e]
      /\ active'[d] = NoRuntime /\ dormant'[d] = NoSession
  BY <1>1, <1>2 DEF KInv, IInv, Types, Registries
<1>6. disposal' \in [Daemons -> [Sessions -> Disposals]]
  <2>1. [s \in Sessions |-> NoDisposal] \in [Sessions -> Disposals]
    BY DEF NoDisposal, Disposals
  <2> QED BY <1>2, <2>1 DEF KInv
<1>7. \A e, r : Settled(e, r) /\ e # d => (r \in live => r \in live')
  BY <1>2 DEF Settled
<1>8. ASSUME NEW e \in Daemons, NEW s \in Sessions PROVE Registered(e, s)' /\ Ending(e, s)'
  <2>1. CASE e = d
    BY <1>5, <2>1, EndedIsEnded DEF Registered
  <2>2. CASE e # d
    <3>1. Registered(e, s) /\ Ending(e, s)
      BY DEF KInv
    <3>2. registry'[e][s] = registry[e][s] /\ disposal'[e][s] = disposal[e][s]
      BY <1>5, <2>2
    <3>3. Registered(e, s)'
      BY <1>2, <1>4, <1>7, <2>2, <3>1, <3>2 DEF Registered, Onward
    <3>4. Ending(e, s)'
      <4>1. PICK p : disposal[e][s] = p /\ disposal'[e][s] = p
        BY <3>2
      <4>2. p.step # "none" => e \in alive' /\ Settled(e, p.runtime)'
        BY <1>2, <1>4, <2>2, <3>1, <4>1 DEF Ending, Onward
      <4>3. Excused(e, s) => Excused(e, s)'
        BY <1>4 DEF Onward
      <4> QED BY <1>2, <3>1, <3>2, <4>1, <4>2, <4>3 DEF Ending
    <3> QED BY <3>3, <3>4
  <2> QED BY <2>1, <2>2
<1>9. ASSUME NEW x \in Requests PROVE Apt(request[x])'
  <2>1. PICK r : r = request[x]
    OBVIOUS
  <2>2. Apt(r) /\ r \in RequestStates
    BY <2>1, OfRequest DEF KInv
  <2>3. CASE request'[x].step = "done"
    <3>1. PICK u : u = request'[x]
      OBVIOUS
    <3>2. u.step = "done" /\ u.op = r.op /\ u.session = r.session
      BY <1>3, <2>1, <2>3, <3>1
    <3> QED BY <2>2, <3>1, <3>2 DEF Apt
  <2>4. CASE request'[x] = r /\ r.daemon # d /\ r.step # "done"
    <3> DEFINE t == r.runtime
               e == r.daemon
    <3>1. r.step # "free" => e \in Daemons
      BY <1>1, <2>1, <2>4, OfRequest
    <3>2. r.step # "free" /\ t # NoRuntime =>
             t \in Requests /\ Settled(e, t) /\ Settled(e, t)'
      BY <1>4, <2>2, <2>4 DEF Apt, Onward, Settled
    <3>3. r.step # "free" => /\ registry'[e] = registry[e]
                             /\ disposal'[e] = disposal[e]
      BY <1>5, <2>4, <3>1
    <3>4. r.step = "lose" => \/ Excused(e, runtimes[t])'
                             \/ runtimes'[t] = r.session /\ registry'[e][r.session] = t
      BY <1>2, <1>4, <2>2, <3>3 DEF Apt, Onward
    <3>5. r.step \in {"using", "lose"} /\ runtimes'[t] = r.session =>
             t \in live' \cup history'.snatched \/ DeleteOf(t)'
      BY <1>2, <1>4, <1>7, <2>2, <2>4, <3>2 DEF Apt, Onward, DeleteOf
    <3> QED BY <1>2, <2>1, <2>2, <2>4, <3>2, <3>3, <3>4, <3>5 DEF Apt, DeleteOf
  <2> QED BY <1>3, <2>1, <2>3, <2>4
<1>10. ASSUME NEW e \in alive', NEW s \in Sessions, lease'[s] = e PROVE Kept(e, s)'
  <2>1. Kept(e, s) /\ e \in Daemons /\ e # d
    BY <1>1, <1>2, <1>10 DEF KInv, IInv, Types
  <2>2. registry'[e] = registry[e] /\ disposal'[e] = disposal[e]
    BY <1>5, <2>1
  <2> QED BY <1>2, <1>3, <2>1, <2>2 DEF Kept, Leaving
<1>11. ASSUME NEW e \in Daemons PROVE Remembered(e)'
  <2>1. CASE e = d
    BY <1>5, <2>1 DEF Remembered
  <2>2. CASE e # d
    <3>1. /\ registry'[e] = registry[e] /\ disposal'[e] = disposal[e]
          /\ active'[e] = active[e] /\ dormant'[e] = dormant[e] /\ Remembered(e)
      BY <1>5, <2>2 DEF KInv
    <3>2. PICK n, x : n = dormant[e] /\ x = active[e]
      OBVIOUS
    <3>3. n # NoSession => Recalled(e, n)'
      BY <1>4, <3>1, <3>2 DEF Remembered, Recalled, Onward, Leaving
    <3>4. x # NoRuntime => AtWork(e, x)'
      BY <1>2, <1>4, <3>1, <3>2 DEF Remembered, AtWork, Onward, Leaving
    <3> QED BY <3>1, <3>2, <3>3, <3>4 DEF Remembered
  <2> QED BY <2>1, <2>2
<1> QED BY <1>1, <1>6, <1>8, <1>9, <1>10, <1>11 DEF KInv

-----------------------------------------------------------------------------
(* A create's own runtime. *)

LEMMA OthersOwn ==
    ASSUME \A x \in Requests : Own(x), NEW c \in Requests,
           \A x \in Requests \ {c} : request'[x] = request[x],
           \A x \in Requests \ {c} :
              request[x].step \in {"lease", "setup"} =>
                 runtimes'[x] = runtimes[x] /\ (x \in live => x \in live'),
           Own(c)'
    PROVE  \A x \in Requests : Own(x)'
<1> SUFFICES ASSUME NEW x \in Requests, x # c PROVE Own(x)'
  OBVIOUS
<1>1. PICK r : r = request[x] /\ request'[x] = r
  OBVIOUS
<1> QED BY <1>1 DEF Own

LEMMA ArrivingOwns ==
    ASSUME KInv, \A x \in Requests : Own(x), NEW c \in Requests, Arrives(c)
    PROVE  \A x \in Requests : Own(x)'
<1>1. IInv
  BY DEF KInv
<1>2. PICK d \in Daemons : \/ Ensure(c, d)
                          \/ Create(c, d)
                          \/ \E s \in Sessions : \/ Delete(c, d, s)
                                                 \/ \E op \in {"open", "fork"} : Open(c, d, s, op)
  BY DEF Arrives
<1>3. ASSUME NEW u, Goes(c, u), u.op # "create", UNCHANGED <<runtimes, live>>
      PROVE  \A x \in Requests : Own(x)'
  <2>1. request'[c] = u /\ \A x \in Requests \ {c} : request'[x] = request[x]
    BY <1>1, <1>3, GoesOnTurns
  <2>2. Own(c)'
    BY <1>3, <2>1 DEF Own
  <2> QED BY <1>3, <2>1, <2>2, OthersOwn
<1>4. CASE Ensure(c, d)
  <2> DEFINE u == [NotServed EXCEPT !.op = "ensure", !.daemon = d, !.session = dormant[d],
                                 !.step = IF dormant[d] = NoSession THEN "create" ELSE "validate",
                                 !.adopts = active[d] = NoRuntime]
  <2>1. Goes(c, u) /\ UNCHANGED <<runtimes, live>>
    BY <1>4 DEF Ensure, resident
  <2>2. u.op # "create"
    BY DEF NotServed
  <2> HIDE DEF u
  <2> QED BY <1>3, <2>1, <2>2
<1>5. CASE Create(c, d)
  <2>1. PICK s \in Fresh :
           /\ runtimes' = [runtimes EXCEPT ![c] = s] /\ live' = live \cup {c}
           /\ Goes(c, [NotServed EXCEPT !.op = "create", !.daemon = d, !.session = s,
                                      !.step = "lease", !.leased = s])
    BY <1>5 DEF Create
  <2> DEFINE u == [NotServed EXCEPT !.op = "create", !.daemon = d, !.session = s,
                                    !.step = "lease", !.leased = s]
  <2>2. u.session = s /\ u.step = "lease"
    BY DEF NotServed
  <2>3. request'[c] = u /\ \A x \in Requests \ {c} : request'[x] = request[x]
    BY <1>1, <2>1, GoesOnTurns
  <2> HIDE DEF u
  <2>4. c \in live' /\ runtimes'[c] = s
        /\ \A x \in Requests \ {c} : runtimes'[x] = runtimes[x] /\ (x \in live => x \in live')
    BY <1>1, <2>1 DEF IInv, Types
  <2>5. Own(c)'
    BY <2>2, <2>3, <2>4 DEF Own
  <2> QED BY <2>3, <2>4, <2>5, OthersOwn
<1>6. ASSUME NEW s \in Sessions, Delete(c, d, s)
      PROVE  \A x \in Requests : Own(x)'
  <2> DEFINE found == registry[d][s]
             u == [NotServed EXCEPT !.op = "delete", !.daemon = d, !.session = s,
                   !.runtime = found, !.step = IF found = NoRuntime THEN "find" ELSE "dispose",
                   !.leased = IF found = NoRuntime THEN NoSession ELSE s]
  <2>1. Goes(c, u) /\ UNCHANGED <<runtimes, live>>
    BY <1>6 DEF Delete, resident
  <2>2. u.op # "create"
    BY DEF NotServed
  <2> HIDE DEF u
  <2> QED BY <1>3, <2>1, <2>2
<1>7. ASSUME NEW s \in Sessions, NEW op \in {"open", "fork"}, Open(c, d, s, op)
      PROVE  \A x \in Requests : Own(x)'
  <2> DEFINE r == [NotServed EXCEPT !.op = op, !.daemon = d, !.session = s]
  <2>1. r \in RequestStates /\ r.op = op
    BY DEF NotServed, RequestStates, Steps
  <2>2. PICK found : found = registry[d][s]
    OBVIOUS
  <2>3. /\ \/ Goes(c, [r EXCEPT !.step = "wait"]) \/ Goes(c, [r EXCEPT !.step = "find"])
           \/ Goes(c, [r EXCEPT !.step = "using", !.runtime = found])
        /\ UNCHANGED <<runtimes, live>>
    <3>1. r.daemon = d /\ r.session = s
      BY DEF NotServed
    <3> HIDE DEF r
    <3>2. \/ Goes(c, [r EXCEPT !.step = "wait"])
          \/ LookUp(c, r)
      BY <1>7 DEF Open, r
    <3>3. LookUp(c, r) => \/ Goes(c, [r EXCEPT !.step = "find"])
                          \/ Goes(c, [r EXCEPT !.step = "using", !.runtime = found])
      BY <2>2, <3>1 DEF LookUp
    <3> QED BY <1>7, <3>2, <3>3 DEF Open
  <2> HIDE DEF r
  <2>4. /\ [r EXCEPT !.step = "wait"].op = op /\ [r EXCEPT !.step = "find"].op = op
        /\ [r EXCEPT !.step = "using", !.runtime = found].op = op
    BY <2>1, FieldsAfter
  <2> QED BY <1>3, <2>3, <2>4
<1> QED BY <1>2, <1>4, <1>5, <1>6, <1>7

LEMMA ProceedingOwns ==
    ASSUME KInv, \A x \in Requests : Own(x), NEW c \in Requests, Proceeds(c)
    PROVE  \A x \in Requests : Own(x)'
<1>1. IInv
  BY DEF KInv
<1>2. ASSUME NEW x, Turns(c, x), x # "done", request[c].op # "create"
      PROVE  Own(c)'
  BY <1>2 DEF Turns, Own
<1>3. ASSUME Turns(c, "done")
      PROVE  Own(c)'
  BY <1>3 DEF Turns, Own
<1>4. request[c].step \notin {"lease", "setup", "release", "done"} => request[c].op # "create"
  BY DEF Own
<1>5. \A x : GoesTo(c, x) => Turns(c, x)
  BY <1>1, GoesToTurns
<1>7. ASSUME NEW x, Turns(c, x),
             x = "done" \/ request[c].op # "create",
             \A o \in Requests \ {c} :
                request[o].step \in {"lease", "setup"} =>
                   runtimes'[o] = runtimes[o] /\ (o \in live => o \in live')
      PROVE  \A o \in Requests : Own(o)'
  <2>1. Own(c)' /\ \A o \in Requests \ {c} : request'[o] = request[o]
    BY <1>2, <1>3, <1>7 DEF Turns
  <2> QED BY <1>7, <2>1, OthersOwn
<1>8. ASSUME NEW r, Settled(request[c].daemon, r)
      PROVE  request[r].step \notin {"lease", "setup"}
  BY <1>8 DEF Settled, AfterStart
<1>9. CASE DisposalAwaited(c)
  <2>1. PICK r, found : r = request[c] /\ found = registry[r.daemon][r.session]
    OBVIOUS
  <2>2. \/ GoesTo(c, "find")
        \/ Goes(c, [request[c] EXCEPT !.step = "using", !.runtime = found])
    BY <1>9, <2>1 DEF DisposalAwaited, LookUp, GoesTo
  <2>3. Turns(c, "find") \/ Turns(c, "using")
    BY <1>1, <1>5, <2>2, GoesOnWith
  <2> QED BY <1>4, <1>7, <1>9, <2>3 DEF DisposalAwaited
<1>10. CASE Find(c)
  <2>1. PICK s : s = request[c].session
    OBVIOUS
  <2>2. GoesTo(c, "done") \/ Goes(c, [request[c] EXCEPT !.step = "lease", !.leased = s])
    BY <1>10, <2>1 DEF Find
  <2>3. Turns(c, "done") \/ Turns(c, "lease")
    BY <1>1, <1>5, <2>2, GoesOnWith
  <2> QED BY <1>4, <1>7, <1>10, <2>3 DEF Find, resident
<1>11. CASE Acquire(c)
  <2>1. PICK next : next = CASE request[c].op = "create" -> "setup"
                             [] request[c].op = "delete" -> "remove"
                             [] OTHER -> "create"
    OBVIOUS
  <2>2. /\ request[c].step = "lease" /\ runtimes' = runtimes
        /\ Turns(c, "done") \/ Turns(c, next)
    BY <1>5, <1>11, <2>1 DEF Acquire, TryLease
  <2>3. live' = IF request[c].op = "create" /\ request'[c].step = "done"
                THEN live \ {c} ELSE live
    BY <1>11 DEF Acquire
  <2>4. CASE Turns(c, "done")
    BY <1>7, <2>2, <2>3, <2>4
  <2>5. CASE Turns(c, next) /\ request[c].op # "create"
    BY <1>7, <2>2, <2>3, <2>5
  <2>6. CASE Turns(c, next) /\ request[c].op = "create"
    <3>1. next = "setup" /\ request'[c].step = "setup" /\ live' = live
      BY <2>1, <2>3, <2>6 DEF Turns
    <3>2. c \in live /\ runtimes[c] = request[c].session
      BY <2>2, <2>6 DEF Own
    <3>3. Own(c)'
      BY <2>2, <2>6, <3>1, <3>2 DEF Own, Turns
    <3> QED BY <2>2, <2>6, <3>1, <3>3, OthersOwn DEF Turns
  <2> QED BY <2>2, <2>4, <2>5, <2>6
<1>12. CASE CreateForOpen(c)
  <2>1. PICK d, s, found : /\ d = request[c].daemon /\ s = request[c].session
                           /\ found = registry[d][s]
    OBVIOUS
  <2>2. /\ request[c].step = "create"
        /\ \/ UNCHANGED <<runtimes, live>>
           \/ runtimes' = [runtimes EXCEPT ![c] = s] /\ live' = live \cup {c}
        /\ \/ GoesTo(c, "release")
           \/ Goes(c, [request[c] EXCEPT !.step = "lose", !.runtime = found])
           \/ Goes(c, [request[c] EXCEPT !.step = "using", !.runtime = c])
    BY <1>12, <2>1 DEF CreateForOpen, resident
  <2>3. Turns(c, "release") \/ Turns(c, "lose") \/ Turns(c, "using")
    BY <1>1, <1>5, <2>2, GoesOnWith
  <2>4. \A o \in Requests \ {c} : runtimes'[o] = runtimes[o] /\ (o \in live => o \in live')
    BY <1>1, <2>2 DEF IInv, Types
  <2> QED BY <1>4, <1>7, <2>2, <2>3, <2>4
<1>13. CASE Lose(c)
  BY <1>4, <1>5, <1>7, <1>13 DEF Lose
<1>14. CASE Use(c)
  BY <1>4, <1>5, <1>7, <1>14 DEF Use, resident
<1>15. CASE Fork(c)
  <2>1. PICK r : r = request[c].runtime
    OBVIOUS
  <2>2. Settled(request[c].daemon, r) /\ request[c].step = "using"
    BY <1>15, <2>1 DEF Fork, KInv, Apt
  <2>3. PICK x : Turns(c, x) /\ live' = live
                 /\ \A o \in Requests \ {r} : runtimes'[o] = runtimes[o]
    <3>1. /\ live' = live
          /\ \/ GoesTo(c, "done") /\ runtimes' = runtimes
             \/ \E s : /\ runtimes' = [runtimes EXCEPT ![r] = s]
                       /\ Goes(c, [request[c] EXCEPT !.step = "forked", !.leased = s])
      BY <1>15, <2>1 DEF Fork
    <3>2. Turns(c, "done") \/ Turns(c, "forked")
      BY <1>1, <1>5, <3>1, GoesOnWith
    <3> QED BY <1>1, <3>1, <3>2 DEF IInv, Types
  <2> QED BY <1>4, <1>7, <1>8, <2>2, <2>3
<1>16. CASE LeaseFork(c)
  BY <1>5, <1>7, <1>16 DEF LeaseFork, TryLease
<1>17. CASE Validate(c)
  <2>1. PICK now, x : /\ now = dormant[request[c].daemon]
                      /\ x = IF now = NoSession THEN "create" ELSE "lease"
    OBVIOUS
  <2>2. GoesTo(c, "done") \/ Goes(c, [request[c] EXCEPT !.leased = now, !.step = x])
    BY <1>17, <2>1 DEF Validate
  <2>3. Turns(c, "done") \/ Turns(c, x)
    BY <1>1, <1>5, <2>2, GoesOnWith
  <2> QED BY <1>4, <1>7, <1>17, <2>3 DEF Validate, resident
<1>18. CASE CreateForStart(c)
  <2>1. PICK now : now = dormant[request[c].daemon]
    OBVIOUS
  <2>2. /\ request[c].op # "create"
        /\ \/ UNCHANGED <<runtimes, live>>
           \/ \E s : runtimes' = [runtimes EXCEPT ![c] = s] /\ live' = live \cup {c}
        /\ \/ GoesTo(c, "done")
           \/ Goes(c, [request[c] EXCEPT !.step = "release", !.leased = now])
    BY <1>18, <2>1 DEF CreateForStart, resident
  <2>3. Turns(c, "done") \/ Turns(c, "release")
    BY <1>1, <1>5, <2>2, GoesOnWith
  <2>4. \A o \in Requests \ {c} : runtimes'[o] = runtimes[o] /\ (o \in live => o \in live')
    BY <1>1, <2>2 DEF IInv, Types
  <2> QED BY <1>7, <2>2, <2>3, <2>4
<1>19. CASE SetUp(c)
  <2>1. /\ Turns(c, "release") \/ Turns(c, "done")
        /\ runtimes' = runtimes /\ live \ {c} \subseteq live'
    BY <1>5, <1>19 DEF SetUp
  <2>2. Own(c)' /\ \A o \in Requests \ {c} : request'[o] = request[o]
    BY <2>1 DEF Own, Turns
  <2> QED BY <2>1, <2>2, OthersOwn
<1>20. CASE DisposeForDelete(c)
  <2>1. PICK r : r = request[c].runtime
    OBVIOUS
  <2>2. /\ request[c].step = "dispose" /\ Settled(request[c].daemon, r)
    BY <1>20, <2>1 DEF DisposeForDelete, KInv, Apt
  <2>3. Turns(c, "remove") /\ runtimes' = runtimes /\ live \ {r} \subseteq live'
    BY <1>5, <1>20, <2>1 DEF DisposeForDelete, Disposed
  <2> QED BY <1>4, <1>7, <1>8, <2>2, <2>3
<1>21. CASE Remove(c)
  BY <1>4, <1>5, <1>7, <1>21 DEF Remove, resident
<1>22. CASE ReleaseOwn(c)
  BY <1>5, <1>7, <1>22 DEF ReleaseOwn, resident
<1> QED BY <1>9, <1>10, <1>11, <1>12, <1>13, <1>14, <1>15, <1>16, <1>17, <1>18, <1>19, <1>20,
           <1>21, <1>22 DEF Proceeds

LEMMA TimerOwns ==
    ASSUME KInv, \A x \in Requests : Own(x),
           NEW d \in Daemons, NEW s \in Sessions, IdleTimer(d, s)
    PROVE  \A x \in Requests : Own(x)'
<1>1. UNCHANGED <<request, runtimes>>
  BY DEF IdleTimer, Dispose, DisposeIdle, Stat, ReleaseIdle, resident
<1>2. ASSUME NEW x \in Requests, request[x].step \in {"lease", "setup"}, x \in live
      PROVE  x \in live'
  <2>1. CASE live' = live
    BY <1>2, <2>1
  <2>2. CASE /\ live' = live \ {disposal[d][s].runtime}
             /\ disposal[d][s].step = "dispose"
    <3>1. Settled(d, disposal[d][s].runtime)
      BY <2>2 DEF KInv, Ending
    <3> QED BY <1>2, <2>2, <3>1 DEF Settled, AfterStart
  <2> QED BY <2>1, <2>2 DEF IdleTimer, Dispose, DisposeIdle, Disposed, Stat, ReleaseIdle, resident
<1> QED BY <1>1, <1>2 DEF Own

LEMMA CrashOwns ==
    ASSUME KInv, \A x \in Requests : Own(x), NEW d \in Daemons, Crash(d)
    PROVE  \A x \in Requests : Own(x)'
<1> SUFFICES ASSUME NEW x \in Requests PROVE Own(x)'
  OBVIOUS
<1>1. /\ runtimes' = runtimes /\ live' = {c \in live : request[c].daemon # d}
      /\ request'[x] = IF request[x].daemon = d THEN [request[x] EXCEPT !.step = "done"]
                       ELSE request[x]
  BY DEF Crash
<1>2. PICK r : r = request[x]
  OBVIOUS
<1>3. r \in RequestStates /\ Own(x)
  BY <1>2 DEF KInv, IInv
<1>4. CASE r.daemon = d
  <2> DEFINE u == [r EXCEPT !.step = "done"]
  <2>1. u.step = "done"
    BY <1>3, FieldsAfter
  <2>2. request'[x] = u
    BY <1>1, <1>2, <1>4
  <2> HIDE DEF u
  <2> QED BY <2>1, <2>2 DEF Own
<1>5. CASE r.daemon # d
  BY <1>1, <1>2, <1>3, <1>5 DEF Own
<1> QED BY <1>4, <1>5

-----------------------------------------------------------------------------
WholeInv == KInv /\ \A x \in Requests : Own(x)

LEMMA InitHoldsAll == Init => WholeInv
<1> SUFFICES ASSUME Init PROVE WholeInv
  OBVIOUS
<1>1. IInv
  BY InitHolds
<1>2. /\ NoDisposal \in Disposals /\ NoDisposal.step = "none"
  BY DEF NoDisposal, Disposals
<1>3. /\ disposal = [d \in Daemons |-> [s \in Sessions |-> NoDisposal]]
      /\ \A d \in Daemons, s \in Sessions : registry[d][s] = NoRuntime
      /\ \A d \in Daemons : active[d] = NoRuntime /\ dormant[d] = NoSession
      /\ \A s \in Sessions : lease[s] = NoDaemon
      /\ alive = Daemons
      /\ \A c \in Requests : request[c] = NotServed
  BY DEF Init
<1>4. disposal \in [Daemons -> [Sessions -> Disposals]]
  BY <1>2, <1>3
<1>5. \A d \in Daemons, s \in Sessions : Registered(d, s) /\ Ending(d, s)
  BY <1>2, <1>3 DEF Registered, Ending
<1>6. /\ NotServed.step = "free" /\ NotServed.op = "none" /\ NotServed.runtime = NoRuntime
  BY DEF NotServed
<1>7. \A c \in Requests : Apt(request[c]) /\ Own(c)
  BY <1>3, <1>6 DEF Apt, Own, Opens
<1>8. \A d \in alive, s \in Sessions : lease[s] = d => Kept(d, s)
  BY <1>3, ResidencyAssumption
<1>9. \A d \in Daemons : Remembered(d)
  BY <1>3 DEF Remembered
<1> QED BY <1>1, <1>4, <1>5, <1>7, <1>8, <1>9 DEF WholeInv, KInv

LEMMA StepKeepsAll == WholeInv /\ [Next]_vars => WholeInv'
<1> SUFFICES ASSUME WholeInv, [Next]_vars PROVE WholeInv'
  OBVIOUS
<1>1. KInv /\ \A x \in Requests : Own(x)
  BY DEF WholeInv
<1>2. ASSUME NEW c \in Requests, Arrives(c) PROVE WholeInv'
  <2>1. KInv'
    BY <1>1, <1>2, EnsureKeepsAll, CreateKeepsAll, DeleteKeepsAll, OpenKeepsAll DEF Arrives
  <2> QED BY <1>1, <1>2, <2>1, ArrivingOwns DEF WholeInv
<1>3. ASSUME NEW c \in Requests, Proceeds(c) PROVE WholeInv'
  <2>1. KInv'
    BY <1>1, <1>3, DisposalAwaitedKeepsAll, FindKeepsAll, AcquireKeepsAll,
       CreateForOpenKeepsAll, LoseKeepsAll, UseKeepsAll, ForkKeepsAll, LeaseForkKeepsAll,
       ValidateKeepsAll, CreateForStartKeepsAll, SetUpKeepsAll, DisposeForDeleteKeepsAll,
       RemoveKeepsAll, ReleaseOwnKeepsAll DEF Proceeds
  <2> QED BY <1>1, <1>3, <2>1, ProceedingOwns DEF WholeInv
<1>4. ASSUME NEW d \in Daemons, NEW s \in Sessions, IdleTimer(d, s) PROVE WholeInv'
  <2>1. KInv'
    BY <1>1, <1>4, DisposeKeepsAll, DisposeIdleKeepsAll, StatKeepsAll, ReleaseIdleKeepsAll
       DEF IdleTimer
  <2> QED BY <1>1, <1>4, <2>1, TimerOwns DEF WholeInv
<1>5. ASSUME NEW d \in Daemons, Crash(d) PROVE WholeInv'
  BY <1>1, <1>5, CrashKeepsAll, CrashOwns DEF WholeInv
<1>6. CASE UNCHANGED vars
  <2>1. /\ UNCHANGED <<alive, files, lease, registry, runtimes, live, active, dormant, request,
                       disposal, history>>
        /\ IInv'
    BY <1>1, <1>6, StepKeeps DEF vars, KInv
  <2>2. /\ \A d \in Daemons, s \in Sessions : Registered(d, s)' /\ Ending(d, s)'
        /\ \A c \in Requests : Own(c)'
    BY <1>1, <2>1 DEF KInv, Registered, Ending, Settled, Excused, Own
  <2>3. ASSUME NEW c \in Requests PROVE Apt(request[c])'
    <3>1. PICK r : r = request[c]
      OBVIOUS
    <3>2. Apt(r)
      BY <1>1, <3>1 DEF KInv
    <3> QED BY <2>1, <3>1, <3>2 DEF Apt, Settled, Excused
  <2>4. /\ \A d \in alive, s \in Sessions : lease'[s] = d => Kept(d, s)'
        /\ \A d \in Daemons : Remembered(d)'
    BY <1>1, <2>1 DEF KInv, Kept, Leaving, Remembered, Recalled, AtWork, Settled, Excused
  <2>5. disposal' \in [Daemons -> [Sessions -> Disposals]]
    BY <1>1, <2>1 DEF KInv
  <2> QED BY <2>1, <2>2, <2>3, <2>4, <2>5 DEF WholeInv, KInv
<1> QED BY <1>2, <1>3, <1>4, <1>5, <1>6 DEF Next

\* What each request, disposal, lease and daemon knows of the others is so.
THEOREM AllKnown == Spec => []WholeInv
<1> QED BY InitHoldsAll, StepKeepsAll, PTL DEF Spec

\* A request never works on a runtime that was disposed, unless a delete did it or
\* a fork rebound it while its disposal was under way.
THEOREM RequestsWorkOnLive == Spec => []RequestsUseLiveRuntimes
<1>1. WholeInv => RequestsUseLiveRuntimes
  <2> SUFFICES ASSUME WholeInv, NEW c \in Requests,
                      request[c].step = "using", runtimes[request[c].runtime] = request[c].session
               PROVE  \/ request[c].runtime \in live
                      \/ request[c].runtime \in history.snatched
                      \/ \E o \in Requests : /\ request[o].op = "delete"
                                             /\ request[o].runtime = request[c].runtime
    BY DEF RequestsUseLiveRuntimes
  <2>1. Apt(request[c])
    BY DEF WholeInv, KInv
  <2> QED BY <2>1 DEF Apt
<1> QED BY <1>1, AllKnown, PTL

\* A lease of a living daemon is held for a resident, a disposal, a request, or noted
\* as one that a fork or a start left behind.
THEOREM LeasesAreAccounted == Spec => []LeaseAccounted
<1>1. WholeInv => LeaseAccounted
  <2> SUFFICES ASSUME WholeInv, NEW s \in Sessions, lease[s] \in alive
               PROVE  \/ Resident(lease[s], s)
                      \/ disposal[lease[s]][s] # NoDisposal
                      \/ \E c \in Requests : /\ Serving(c) /\ request[c].daemon = lease[s]
                                             /\ request[c].leased = s
                      \/ <<lease[s], s>> \in history.strays
    BY DEF LeaseAccounted
  <2>1. Kept(lease[s], s)
    BY DEF WholeInv, KInv
  <2> QED BY <2>1 DEF Kept, Resident, Leaving, NoDisposal, Keeping, Serving
<1> QED BY <1>1, AllKnown, PTL

\* When nothing is resident or under way, what is dormant has a file, or was deleted,
\* forked or never leased.
THEOREM DormantIsReopened == Spec => []DormantReopensUnlessDeleted
<1>1. WholeInv => DormantReopensUnlessDeleted
  <2> SUFFICES ASSUME WholeInv, NEW d \in alive, Quiet(d)
               PROVE  \/ dormant[d] \in files \cup {NoSession} \cup history.deleted
                                        \cup history.forked
                      \/ <<d, dormant[d]>> \in history.lapsed
    BY DEF DormantReopensUnlessDeleted
  <2>1. /\ d \in Daemons /\ Remembered(d) /\ dormant[d] \in Sessions \cup {NoSession}
    BY DEF WholeInv, KInv, IInv, Types
  <2> QED BY <2>1 DEF Remembered, Recalled, Excused, Leaving, Quiet, NoDisposal
<1> QED BY <1>1, AllKnown, PTL
=============================================================================
