---------------------------- MODULE SessionStore ----------------------------
(***************************************************************************)
(* How one page's PiSessionStore keeps its transcripts in step with the    *)
(* daemon: live events, detail reads that answer late, store reconnects,   *)
(* evictions, deletions, replay misses, daemon restarts, and the bounded   *)
(* recovery that reads again what a miss can hide.                         *)
(*                                                                         *)
(* The daemon's log is the sequence of its events.  A transcript is the    *)
(* set of events it contains, where 0 stands for the history from before   *)
(* this daemon lifetime.  A detail read contains everything its session    *)
(* had when the daemon answered, and is stamped with the head of the log.  *)
(* The stream is what PiEventStream shows it to be: it delivers the events *)
(* after its cursor in order, or says that it cannot, and announces a new  *)
(* lifetime once it is verified.                                           *)
(***************************************************************************)
EXTENDS Integers, Sequences, FiniteSets, FiniteSetsExt

CONSTANTS
    Sessions, Directories,
    MaxSequence,    \* bound: events in a lifetime
    MaxEpoch,       \* bound: daemon lifetimes
    MaxFaults,      \* bound: drops, switches, forgotten events, failures, evictions
    SoftCap,        \* PI_TRANSCRIPT_EVICTION_SOFT_CAP
    MaxAttempts,    \* PI_SYNC_RECOVERY_MAX_ATTEMPTS
    StreamKinds     \* how the first stream was attached: by a bootstrap,
                    \* or by attachClusterStream

ASSUME StoreAssumption ==
    /\ IsFiniteSet(Sessions) /\ IsFiniteSet(Directories)
    /\ Sessions \cap Directories = {}  \* a session id is no path
    /\ MaxSequence \in Nat /\ MaxEpoch \in Nat \ {0} /\ MaxFaults \in Nat
    /\ SoftCap \in Nat /\ MaxAttempts \in Nat
    /\ StreamKinds \subseteq {"bootstrap", "cluster"}

VARIABLES
    daemon,     \* epoch, log, forgotten (events no longer replayed), gone
    store,      \* reducer, hydrated sessions, tombstones, connection, selection
    recovery,   \* obligations, the pass over them, its retries; history: what
                \* was read since (covered), reads older than a signal (stale)
    stream,     \* the attached stream and the store's own reconnect
    fetch,      \* the shared hydrate of each session
    lists,      \* the listings of each directory
    lost,       \* history: the events and sessions the store gave up on
    faults      \* the faults so far

vars == <<daemon, store, recovery, stream, fetch, lists, lost, faults>>

Epochs == 1 .. MaxEpoch
Sequences == 1 .. MaxSequence
NoSequence == -1
NoRow == [seen |-> {}, last |-> NoSequence]
NoSession == "none"

Turn(s) == [session |-> s, kind |-> "turn"]
Deletion(s) == [session |-> s, kind |-> "deleted"]

LogHead == Len(daemon.log)

\* The state of a read: not asked, asked, or answered by a row of the daemon's
\* lifetime, by INVALID_SESSION ("gone") or by any other error ("failed").
Read(kind) == [kind |-> kind, epoch |-> 0, row |-> NoRow]
Unasked == Read("unasked")
Asked == Read("asked")
Row == [seen : SUBSET (0 .. MaxSequence), last : -1 .. MaxSequence]
Reads == [kind : {"unasked", "asked", "gone", "failed", "detail"},
          epoch : 0 .. MaxEpoch, row : Row]

\* What session s contains now, stamped with the head of the log.
Detail(s) ==
    [seen |-> {0} \cup {n \in 1 .. LogHead : daemon.log[n] = Turn(s)},
     last |-> LogHead]

\* What the daemon answers to a read of session s now.
Answer(s) ==
    IF s \in daemon.gone THEN Read("gone")
    ELSE [kind |-> "detail", epoch |-> daemon.epoch, row |-> Detail(s)]

Fault ==
    /\ faults < MaxFaults
    /\ faults' = faults + 1

\* A read is answered, or fails or times out.
AnsweredBy(reply, answer) ==
    \/ reply = answer /\ UNCHANGED faults
    \/ reply = Read("failed") /\ Fault

Outcomes(s) == {Read("failed"), Answer(s)}

Loss == [jumped : SUBSET Sequences, unsignalled : SUBSET Sequences,
         overtaken : SUBSET Sessions, crossed : SUBSET Sessions,
         evicted : SUBSET Sessions, reported : SUBSET Sessions]
NoLoss == [jumped |-> {}, unsignalled |-> {}, overtaken |-> {}, crossed |-> {},
           evicted |-> {}, reported |-> {}]

NoFrame == [session |-> NoSession, head |-> 0, after |-> 0]
NoReconnect == [active |-> FALSE, superseded |-> FALSE, session |-> NoSession,
                cursor |-> NoSequence, reply |-> Unasked]

NoList == [reply |-> Unasked, latest |-> FALSE, fresh |-> FALSE]
Callers == {"pass", "other"}
-----------------------------------------------------------------------------
(* The handlers, as functions of the page's state                          *)
(* c = [st, rec, str, ft, ls, lo].                                         *)

Page == [st |-> store, rec |-> recovery, str |-> stream, ft |-> fetch,
         ls |-> lists, lo |-> lost]

Becomes(c) ==
    /\ store' = c.st
    /\ recovery' = c.rec
    /\ stream' = c.str
    /\ fetch' = c.ft
    /\ lists' = c.ls
    /\ lost' = c.lo

Resident(c) == {s \in Sessions : c.st.rows[s] # NoRow}

\* streamCursor: the highest of the per-session cursors.
StreamCursor(c) == Max({c.st.cursor[s] : s \in Sessions} \cup {NoSequence})

Owed(c) == c.rec.residents # {} \/ c.rec.directories # {}

\* runSyncRecovery, up to its first await.
StartPass(c) ==
    IF c.rec.stage # "idle" \/ ~Owed(c) THEN c
    ELSE [c EXCEPT !.rec = [c.rec EXCEPT !.stage = "residents", !.current = TRUE,
                                     !.todo = c.rec.residents]]

\* A signal adds its obligations, also those that are queued already: what was
\* read before it covers none of them.
Asking(rec, sessions, directories) ==
    [rec EXCEPT !.residents = @ \cup sessions,
                !.directories = @ \cup directories,
                !.covered = @ \ (sessions \cup directories),
                !.stale = @ \cup {s \in sessions : rec.reply[s] # Unasked}]

Staled(ls, directories) ==
    [d \in Directories |-> [o \in Callers |->
        [ls[d][o] EXCEPT !.fresh = @ /\ d \notin directories]]]

\* Mutant: an obligation that is already queued is not a newer signal.
QueueRecovery_keepsPass(c, sessions, directories) ==
    IF sessions \cup directories = {} THEN c
    ELSE StartPass(
           [c EXCEPT !.rec = [Asking(@, sessions, directories) EXCEPT
                                !.attempt = 0, !.timer = FALSE],
                     !.ls = Staled(@, directories)])

\* queueSyncRecovery: a newer signal also supersedes the pass that runs.
QueueRecovery(c, sessions, directories) ==
    IF sessions \cup directories = {} THEN c
    ELSE StartPass(
           [c EXCEPT !.rec = [Asking(@, sessions, directories) EXCEPT
                                !.attempt = 0, !.timer = FALSE, !.current = FALSE],
                     !.ls = Staled(@, directories)])

\* applyVerifiedEpochChange: another lifetime's transcripts and cursors mean
\* nothing; its residents and every directory are read again.  Hydrates in
\* flight are forgotten: one that the new daemon answers commits like a new one.
\* A row no read was in time for is gone, and nothing is owed for it any more.
ApplyEpochChange(c, e) ==
    IF c.st.epoch = e THEN c
    ELSE QueueRecovery(
           [c EXCEPT !.st = [c.st EXCEPT !.epoch = e,
                                      !.rows = [s \in Sessions |-> NoRow],
                                      !.cursor = [s \in Sessions |-> NoSequence],
                                      !.hydrated = {}, !.restoring = {}],
                     !.ft = [s \in Sessions |-> Unasked],
                     !.rec = [c.rec EXCEPT !.current = FALSE,
                                           !.covered = @ \cup c.lo.overtaken],
                     !.lo = NoLoss],
           c.st.hydrated, Directories)

\* hydrate: reads of one session are shared.
Hydrate(c, s) ==
    IF s \in c.st.tombstones \/ c.ft[s] # Unasked THEN c
    ELSE [c EXCEPT !.ft[s] = Asked, !.st.loadError = @ \ {s}]

\* restoreTranscript.
Restore(c, s) ==
    IF s \in c.st.restoring THEN c
    ELSE [Hydrate(c, s) EXCEPT !.st.restoring =
            IF s \in c.st.tombstones THEN @ ELSE @ \cup {s}]

\* commitDeletion.  A read in flight goes on.  The next selection is the user's.
CommitDeletion(c, s) ==
    [c EXCEPT !.st = [c.st EXCEPT
        !.tombstones = @ \cup {s}, !.rows[s] = NoRow,
        !.hydrated = @ \ {s}, !.loadError = @ \ {s}, !.restoring = @ \ {s},
        !.selected = IF @ = s THEN NoSession ELSE @]]

\* Mutant: the read replaces what is resident.
Merge_replaces(fetched, existing) == fetched

\* mergeHydratedSession: newer live content is laid over an older read.
Merge(fetched, existing) ==
    IF existing.last > fetched.last
    THEN [seen |-> fetched.seen \cup existing.seen, last |-> existing.last]
    ELSE fetched

SetRow(c, s, row) ==
    [c EXCEPT !.st = [c.st EXCEPT !.rows[s] = row, !.cursor[s] = row.last]]

Hydrated(c, s) ==
    [c EXCEPT !.st = [c.st EXCEPT !.hydrated = @ \cup {s}, !.loadError = @ \ {s},
                                  !.error = FALSE]]

\* Mutant: a read that answers after the deletion is committed.
CommitDetail_resurrects(c, s, row) ==
    Hydrated(SetRow(c, s, Merge(row, c.st.rows[s])), s)

\* commitHydratedSession.
CommitDetail(c, s, row) ==
    IF s \in c.st.tombstones THEN c
    ELSE Hydrated(SetRow(c, s, Merge(row, c.st.rows[s])), s)

\* reconnect, up to its await: the cursor it will resume from is taken now.
BeginReconnect(c, s) ==
    IF c.str.reconnect.active THEN c
    ELSE [c EXCEPT !.str.reconnect =
            [active |-> TRUE, superseded |-> FALSE, session |-> s,
             cursor |-> StreamCursor(c), reply |-> Asked]]

\* markStreamReconnected: a healthy stream restarts parked recovery, unless it
\* has an error to clear first.
StreamReconnected(c) ==
    LET superseding == [c EXCEPT !.str.reconnect.superseded = @ \/ c.str.reconnect.active]
    IN  IF c.st.connection = "ready" /\ ~c.st.error
        THEN IF Owed(c)
             THEN StartPass([superseding EXCEPT !.rec.attempt = 0])
             ELSE superseding
        ELSE [superseding EXCEPT !.st.connection = "ready", !.st.error = FALSE]

\* Mutant: the residents are not read again.
ObserveResync_directoriesOnly(c, frame) ==
    IF c.str.kind = "reconnect" /\ ~c.str.resyncObserved
    THEN QueueRecovery([c EXCEPT !.str.resyncObserved = TRUE], {}, Directories)
    ELSE [c EXCEPT !.lo.unsignalled = @ \cup (frame.after + 1) .. frame.head]

\* The sessions a signal misses: those whose hydrate was answered before it are
\* not among the residents yet, and a signal that asks for nothing at all does
\* not supersede the pass that read one.
Crossed(c) ==
    {s \in Sessions \ c.st.hydrated :
        \/ c.ft[s].kind = "detail"
        \/ c.st.hydrated \cup Directories = {} /\ c.rec.reply[s].kind = "detail"}

\* A resync snapshot reaches the stream's handler.  Only a stream made by
\* reconnect() looks at the mark, and only the first time.
ObserveResync(c, frame) ==
    IF c.str.kind = "reconnect" /\ ~c.str.resyncObserved
    THEN QueueRecovery(
           [c EXCEPT !.str.resyncObserved = TRUE,
                     !.lo.crossed = @ \cup Crossed(c)],
           c.st.hydrated, Directories)
    ELSE [c EXCEPT !.lo.unsignalled = @ \cup (frame.after + 1) .. frame.head]

\* commitEvents on a snapshot: it moves the session's cursor and has its
\* transcript read again.  A snapshot's own sequence, one above the head it was
\* taken at, is left out: only a cursor beyond that head drops it.
ApplySnapshot(c, s, head) ==
    IF s \in c.st.tombstones \/ head < c.st.cursor[s] THEN c
    ELSE Restore(SetRow(c, s, [c.st.rows[s] EXCEPT !.last = head]), s)

\* commitEvents on an event: a cursor that is already past it drops it, and a
\* row that was evicted is read again.
ApplyTurn(c, s, n) ==
    IF s \in c.st.tombstones \/ n <= c.st.cursor[s] THEN c
    ELSE LET applied == SetRow(c, s, [seen |-> c.st.rows[s].seen \cup {n}, last |-> n])
         IN  IF c.st.rows[s] = NoRow /\ c.st.cursor[s] >= 0
             THEN Restore(applied, s) ELSE applied

ApplyDeletion(c, s, n) ==
    IF s \in c.st.tombstones \/ n <= c.st.cursor[s] THEN c
    ELSE [CommitDeletion(c, s) EXCEPT !.st.cursor[s] = n]
-----------------------------------------------------------------------------
(* The daemon. *)

PageUnchanged == UNCHANGED <<store, recovery, stream, fetch, lists, lost>>

Publish(s) ==
    /\ s \notin daemon.gone
    /\ LogHead < MaxSequence
    /\ daemon' = [daemon EXCEPT !.log = Append(@, Turn(s))]
    /\ PageUnchanged /\ UNCHANGED faults

\* This page or another one deletes a session.
DeleteSession(s) ==
    /\ s \notin daemon.gone
    /\ LogHead < MaxSequence
    /\ daemon' = [daemon EXCEPT !.log = Append(@, Deletion(s)), !.gone = @ \cup {s}]
    /\ PageUnchanged /\ UNCHANGED faults

\* The replay log evicts its oldest event.
ForgetEvent ==
    /\ daemon.forgotten < LogHead
    /\ daemon' = [daemon EXCEPT !.forgotten = @ + 1]
    /\ PageUnchanged /\ Fault

\* The daemon is replaced, and every connection to it ends.
Restart ==
    /\ daemon.epoch < MaxEpoch
    /\ daemon' = [daemon EXCEPT !.epoch = @ + 1, !.log = <<>>, !.forgotten = 0]
    /\ stream' = [stream EXCEPT !.up = FALSE, !.frame = NoFrame]
    /\ UNCHANGED <<store, recovery, fetch, lists, lost, faults>>
-----------------------------------------------------------------------------
(* The stream. *)

\* The connection ends.  A stream with an owner's onDisconnect also has the
\* store reconnect; frames in flight are lost.
Disconnect ==
    /\ stream.up
    /\ LET down == [Page EXCEPT !.str.up = FALSE, !.str.frame = NoFrame]
       IN  IF stream.kind = "cluster" THEN Becomes(down)
           ELSE \E s \in IF store.selected = NoSession THEN Sessions
                         ELSE {store.selected} :
                   Becomes(BeginReconnect(down, s))
    /\ UNCHANGED daemon /\ Fault

\* What the daemon answers to a subscription it cannot replay: a snapshot of
\* its active session, or nothing when it has none left.
ResyncFrames(after) ==
    {[session |-> s, head |-> LogHead, after |-> after] :
        s \in Sessions \ daemon.gone}

\* The stream's connection is made, by its own retry or for the first time:
\* the daemon replays what follows the cursor or says that it cannot, and a
\* new lifetime is verified and announced, from its head on.
Connect ==
    /\ ~stream.up
    /\ LET up == [StreamReconnected(Page) EXCEPT !.str.up = TRUE]
           moved == ApplyEpochChange([up EXCEPT !.str.epoch = daemon.epoch,
                                                !.str.cursor = LogHead], daemon.epoch)
       IN  \/ /\ stream.epoch = daemon.epoch
              /\ stream.cursor >= daemon.forgotten
              /\ Becomes(up)
           \/ /\ stream.epoch = daemon.epoch
              /\ stream.cursor < daemon.forgotten
              /\ \/ \E f \in ResyncFrames(stream.cursor) :
                       Becomes([up EXCEPT !.str.frame = f])
                 \/ /\ ResyncFrames(stream.cursor) = {}
                    /\ Becomes([up EXCEPT !.str.cursor = LogHead, !.lo.unsignalled =
                                  @ \cup (stream.cursor + 1) .. LogHead])
           \/ /\ stream.epoch # daemon.epoch
              /\ \/ \E f \in ResyncFrames(LogHead) :
                       Becomes([moved EXCEPT !.str.frame = f])
                 \/ /\ ResyncFrames(LogHead) = {}
                    /\ Becomes(moved)
    /\ UNCHANGED <<daemon, faults>>

\* The resync snapshot arrives before any event that follows it.
ReceiveResync ==
    /\ stream.up
    /\ stream.frame # NoFrame
    /\ LET f == stream.frame
           c == [Page EXCEPT !.str.frame = NoFrame, !.str.cursor = f.head]
       IN  Becomes(ApplySnapshot(ObserveResync(c, f), f.session, f.head))
    /\ UNCHANGED <<daemon, faults>>

ReceiveEvent ==
    /\ stream.up
    /\ stream.frame = NoFrame
    /\ stream.epoch = daemon.epoch
    /\ stream.cursor < LogHead
    /\ LET n == stream.cursor + 1
           s == daemon.log[n].session
           c == [Page EXCEPT !.str.cursor = n]
       IN  \/ /\ daemon.log[n] = Turn(s)
              /\ Becomes(ApplyTurn(c, s, n))
           \/ /\ daemon.log[n] = Deletion(s)
              /\ Becomes(ApplyDeletion(c, s, n))
    /\ UNCHANGED <<daemon, faults>>

-----------------------------------------------------------------------------
(* The store's own reconnect. *)

\* The browser moved to another route to the same runtime.
SwitchTransport ==
    /\ store.selected # NoSession
    /\ Becomes(BeginReconnect(Page, store.selected))
    /\ UNCHANGED daemon /\ Fault

\* reconnectPiSession: the health of the daemon and a detail of one session.
ReconnectAnswered ==
    /\ stream.reconnect.reply = Asked
    /\ \E a \in Outcomes(stream.reconnect.session) :
          /\ AnsweredBy(a, Answer(stream.reconnect.session))
          /\ Becomes([Page EXCEPT !.str.reconnect.reply = a])
    /\ UNCHANGED daemon

\* Where the replacement stream resumes: from the store's own cursor while it
\* means something to the daemon.
ResumeCursor(r) ==
    IF store.epoch = r.reply.epoch /\ r.cursor >= 0
    THEN r.cursor ELSE r.reply.row.last

\* What it resumes past although the old stream has not delivered it.
Jumped(r) ==
    IF stream.epoch = r.reply.epoch
    THEN (stream.cursor + 1) .. (IF r.cursor >= 0 THEN r.cursor ELSE r.reply.row.last)
    ELSE {}

\* A reconnect the stream was faster than is dropped; otherwise the verified
\* lifetime, the new stream and the merged detail are taken over together.
ReconnectSettles ==
    /\ stream.reconnect.reply.kind \notin {"unasked", "asked"}
    /\ LET r == stream.reconnect
           done == [Page EXCEPT !.str.reconnect = NoReconnect]
           c == ApplyEpochChange(done, r.reply.epoch)
           resumed == SetRow(c, r.session, Merge(r.reply.row, c.st.rows[r.session]))
       IN  \/ /\ r.superseded
              /\ Becomes(done)
           \/ /\ ~r.superseded
              /\ r.reply.kind \in {"failed", "gone"}
              /\ Becomes([done EXCEPT !.st.connection = "error", !.st.error = TRUE])
           \/ /\ ~r.superseded
              /\ r.reply.kind = "detail"
              /\ Becomes([resumed EXCEPT
                    !.st = [resumed.st EXCEPT !.hydrated = @ \cup {r.session},
                                     !.connection = "ready", !.error = FALSE],
                    !.str = [kind |-> "reconnect", up |-> FALSE, epoch |-> r.reply.epoch,
                             cursor |-> ResumeCursor(r), frame |-> NoFrame,
                             resyncObserved |-> FALSE, reconnect |-> NoReconnect],
                    !.lo.jumped = @ \cup Jumped(r)])
    /\ UNCHANGED <<daemon, faults>>
-----------------------------------------------------------------------------
(* Reading, evicting and deleting transcripts. *)

IsHydrated(s) == s \in store.hydrated /\ store.rows[s] # NoRow

\* select.
Select(s) ==
    /\ s \notin store.tombstones
    /\ s # store.selected
    /\ LET c == [Page EXCEPT !.st.selected = s, !.st.error = FALSE]
       IN  Becomes(IF IsHydrated(s) THEN c ELSE Hydrate(c, s))
    /\ UNCHANGED <<daemon, faults>>

\* ensureHydrated, or select of the session that is selected.
EnsureHydrated(s) ==
    /\ ~IsHydrated(s)
    /\ fetch[s] = Unasked
    /\ Becomes(Hydrate(Page, s))
    /\ UNCHANGED <<daemon, faults>>

FetchAnswered(s) ==
    /\ fetch[s] = Asked
    /\ \E a \in Outcomes(s) :
          AnsweredBy(a, Answer(s)) /\ Becomes([Page EXCEPT !.ft[s] = a])
    /\ UNCHANGED daemon

\* A failed read is an error of its chat, which the next hydrate of that chat
\* clears (failSessionLoad); one that outlived its stream, or that was not
\* authorized, is an error of the page (reportError), which the next healthy
\* stream or selection clears.
FetchFails(c, s) ==
    {[c EXCEPT !.st.loadError = @ \cup {s}],
     [c EXCEPT !.st = [c.st EXCEPT !.connection = "error", !.error = TRUE],
               !.lo.reported = @ \cup {s}]}

\* hydrateUnshared after its await.
FetchSettles(s) ==
    /\ fetch[s].kind \notin {"unasked", "asked"}
    /\ LET c == [Page EXCEPT !.ft[s] = Unasked, !.st.restoring = @ \ {s}]
       IN  \/ /\ fetch[s].kind = "detail"
              /\ Becomes(IF fetch[s].epoch = store.epoch
                         THEN CommitDetail(c, s, fetch[s].row) ELSE c)
           \/ /\ fetch[s].kind = "gone"
              /\ Becomes(CommitDeletion(c, s))
           \/ /\ fetch[s].kind = "failed"
              /\ \E failed \in FetchFails(c, s) : Becomes(failed)
    /\ UNCHANGED <<daemon, faults>>

\* evictIdleTranscripts: a transcript that is not on display goes, its cursor
\* stays, and the private set of hydrated sessions keeps its name.  With it go
\* the live events that a read in flight, answered earlier, does not contain.
Evict(s) ==
    /\ Cardinality(Resident(Page)) > SoftCap
    /\ store.rows[s] # NoRow
    /\ s # store.selected
    /\ Becomes([Page EXCEPT !.st.rows[s] = NoRow,
                  !.lo.evicted = IF \E r \in {fetch[s], recovery.reply[s]} :
                                       /\ r.kind = "detail"
                                       /\ ~store.rows[s].seen \subseteq r.row.seen
                                 THEN @ \cup {s} ELSE @])
    /\ UNCHANGED daemon /\ Fault

\* remove() is answered, or a complete listing no longer has the session.
Remove(s) ==
    /\ s \in daemon.gone
    /\ s \notin store.tombstones
    /\ Becomes(CommitDeletion(Page, s))
    /\ UNCHANGED <<daemon, faults>>
-----------------------------------------------------------------------------
(* The recovery pass. *)

PassItemDone(c, x) == [c EXCEPT !.rec.todo = @ \ {x}]

\* A resident whose turn comes when there is nothing to read any more.
RecoverySkips(s) ==
    /\ recovery.stage = "residents"
    /\ s \in recovery.todo
    /\ recovery.reply[s] = Unasked
    /\ ~recovery.current \/ s \notin recovery.residents \/ s \in store.tombstones
    /\ LET c == PassItemDone(Page, s)
       IN  Becomes(IF recovery.current /\ s \in store.tombstones
                   THEN [c EXCEPT !.rec.residents = @ \ {s}] ELSE c)
    /\ UNCHANGED <<daemon, faults>>

RecoveryReads(s) ==
    /\ recovery.stage = "residents"
    /\ s \in recovery.todo
    /\ recovery.reply[s] = Unasked
    /\ recovery.current /\ s \in recovery.residents /\ s \notin store.tombstones
    /\ \E a \in Outcomes(s) :
          AnsweredBy(a, Answer(s)) /\ Becomes([Page EXCEPT !.rec.reply[s] = a])
    /\ UNCHANGED daemon

Drained(c, s) == [c EXCEPT !.rec.residents = @ \ {s}]

\* The read of a resident, after its await in a pass that is still current.  A
\* row that is newer than the read is left alone, and counts as recovered.  A
\* read that is older than the last signal covers nothing.
RecoveryVerdict(c, s, a) ==
    CASE s \in c.st.tombstones -> IF a.kind = "failed" THEN c ELSE Drained(c, s)
      [] s \notin c.st.tombstones /\ a.kind = "gone" -> Drained(CommitDeletion(c, s), s)
      [] s \notin c.st.tombstones /\ a.kind = "detail" /\ a.epoch = c.st.epoch ->
            IF c.st.rows[s].last <= a.row.last
            THEN Drained([CommitDetail(c, s, a.row)
                            EXCEPT !.rec.covered = @ \cup ({s} \ c.rec.stale)], s)
            ELSE Drained([c EXCEPT !.lo.overtaken = @ \cup {s}], s)
      [] OTHER -> c

RecoverySettles(s) ==
    /\ recovery.reply[s] # Unasked
    /\ LET c == PassItemDone([Page EXCEPT !.rec.reply[s] = Unasked], s)
           settled == IF recovery.current
                      THEN RecoveryVerdict(c, s, recovery.reply[s]) ELSE c
       IN  Becomes([settled EXCEPT !.rec.stale = @ \ {s}])
    /\ UNCHANGED <<daemon, faults>>

\* Mutant: a pass that leaves something undone is not tried again.
EndPass_once(c) ==
    LET idle == [c EXCEPT !.rec.stage = "idle", !.rec.todo = {}]
    IN  IF Owed(c) /\ ~c.rec.current THEN StartPass(idle)
        ELSE IF Owed(c) THEN [idle EXCEPT !.rec.attempt = @ + 1] ELSE idle

\* The finally block and what follows it: a superseded pass starts over, an
\* unfinished one waits for its timer, and the last one parks.
EndPass(c) ==
    LET idle == [c EXCEPT !.rec.stage = "idle", !.rec.todo = {}]
        attempt == c.rec.attempt + 1
    IN  CASE ~Owed(c) -> idle
          [] Owed(c) /\ ~c.rec.current -> StartPass(idle)
          [] OTHER -> [idle EXCEPT !.rec.attempt = attempt,
                                   !.rec.timer = attempt <= MaxAttempts]

\* The residents are done: a current pass goes on to the directories.
ResidentsDone ==
    /\ recovery.stage = "residents"
    /\ recovery.todo = {}
    /\ Becomes(IF recovery.current
               THEN [Page EXCEPT !.rec.stage = "directories",
                                 !.rec.todo = recovery.directories]
               ELSE EndPass(Page))
    /\ UNCHANGED <<daemon, faults>>

DirectoriesDone ==
    /\ recovery.stage = "directories"
    /\ recovery.todo = {}
    /\ Becomes(EndPass(Page))
    /\ UNCHANGED <<daemon, faults>>

RetryTimer ==
    /\ recovery.timer
    /\ Becomes(StartPass([Page EXCEPT !.rec.timer = FALSE]))
    /\ UNCHANGED <<daemon, faults>>
-----------------------------------------------------------------------------
(* refreshDirectoryCatalog, called by the pass and by others. *)

\* A newer call for a directory has the older one commit nothing.
BeginList(c, d, caller) ==
    [c EXCEPT !.ls[d] = [o \in Callers |->
                IF o = caller THEN [reply |-> Asked, latest |-> TRUE, fresh |-> TRUE]
                ELSE [@[o] EXCEPT !.latest = FALSE]],
              !.rec.failed = @ \ {d}]

RefreshDirectory(d) ==
    /\ lists[d]["other"] = NoList
    /\ Becomes(BeginList(Page, d, "other"))
    /\ UNCHANGED <<daemon, faults>>

PassLists(d) ==
    /\ recovery.stage = "directories"
    /\ d \in recovery.todo
    /\ lists[d]["pass"] = NoList
    /\ Becomes(IF recovery.current /\ d \in recovery.directories
               THEN BeginList(Page, d, "pass") ELSE PassItemDone(Page, d))
    /\ UNCHANGED <<daemon, faults>>

\* A listing is stamped with its daemon's lifetime; its rows are left out.
ListAnswered(d, caller) ==
    /\ lists[d][caller].reply = Asked
    /\ LET listed == [Read("detail") EXCEPT !.epoch = daemon.epoch]
       IN  \E a \in {Read("failed"), listed} :
              /\ AnsweredBy(a, listed)
              /\ Becomes([Page EXCEPT !.ls[d][caller].reply = a])
    /\ UNCHANGED daemon

ListCommits(list) ==
    /\ list.latest
    /\ list.reply.kind = "detail"
    /\ list.reply.epoch = store.epoch

\* The result of refreshDirectoryCatalog: a superseded call reports success.
ListOk(list) == ~list.latest \/ ListCommits(list)

\* A failure of the directory in focus is an error of the whole page.
ListSettles(d, caller) ==
    /\ lists[d][caller].reply \notin {Unasked, Asked}
    /\ LET list == lists[d][caller]
           settled == [Page EXCEPT !.ls[d][caller] = NoList]
           drains == caller = "pass" /\ recovery.current /\ ListOk(list)
           c == IF caller # "pass" THEN settled
                ELSE PassItemDone([settled EXCEPT !.rec.directories =
                                     IF drains THEN @ \ {d} ELSE @], d)
       IN  \/ /\ ListCommits(list)
              /\ Becomes([c EXCEPT !.rec.failed = @ \ {d},
                            !.rec.covered = IF list.fresh THEN @ \cup {d} ELSE @])
           \/ /\ ~ListCommits(list) /\ list.latest
              /\ \E focused \in BOOLEAN :
                    Becomes([c EXCEPT !.rec.failed = @ \cup {d},
                                      !.st.error = @ \/ focused])
           \/ /\ ~ListCommits(list) /\ ~list.latest
              /\ Becomes(c)
    /\ UNCHANGED <<daemon, faults>>
-----------------------------------------------------------------------------
\* A bootstrap attaches the stream together with the transcript it reads;
\* attachClusterStream attaches it alone.
Init ==
    /\ daemon = [epoch |-> 1, log |-> <<>>, forgotten |-> 0, gone |-> {}]
    /\ \E kind \in StreamKinds, s0 \in Sessions :
          LET first == IF kind = "bootstrap" THEN {s0} ELSE {}
              row(s) == IF s \in first THEN [seen |-> {0}, last |-> 0] ELSE NoRow
          IN  /\ store = [epoch |-> 1, rows |-> [s \in Sessions |-> row(s)],
                          cursor |-> [s \in Sessions |-> row(s).last],
                          hydrated |-> first, tombstones |-> {}, restoring |-> {},
                          loadError |-> {}, connection |-> "ready", error |-> FALSE,
                          selected |-> IF first = {} THEN NoSession ELSE s0]
              /\ stream = [kind |-> kind, up |-> TRUE, epoch |-> 1, cursor |-> 0,
                           frame |-> NoFrame, resyncObserved |-> FALSE,
                           reconnect |-> NoReconnect]
    /\ recovery = [residents |-> {}, directories |-> {}, stage |-> "idle",
                   current |-> FALSE, todo |-> {},
                   reply |-> [s \in Sessions |-> Unasked], attempt |-> 0,
                   timer |-> FALSE, failed |-> {}, stale |-> {},
                   covered |-> Sessions \cup Directories]
    /\ fetch = [s \in Sessions |-> Unasked]
    /\ lists = [d \in Directories |-> [o \in Callers |-> NoList]]
    /\ lost = NoLoss
    /\ faults = 0

DaemonSteps ==
    \/ \E s \in Sessions : Publish(s) \/ DeleteSession(s)
    \/ ForgetEvent
    \/ Restart

StreamSteps ==
    \/ Disconnect
    \/ Connect
    \/ ReceiveResync
    \/ ReceiveEvent
    \/ SwitchTransport
    \/ ReconnectAnswered
    \/ ReconnectSettles

TranscriptSteps == \E s \in Sessions :
    \/ Select(s)
    \/ EnsureHydrated(s)
    \/ FetchAnswered(s)
    \/ FetchSettles(s)
    \/ Evict(s)
    \/ Remove(s)

RecoverySteps ==
    \/ \E s \in Sessions : RecoverySkips(s) \/ RecoveryReads(s) \/ RecoverySettles(s)
    \/ ResidentsDone
    \/ DirectoriesDone
    \/ \E d \in Directories : PassLists(d)
    \/ \E d \in Directories : ListAnswered(d, "pass") \/ ListSettles(d, "pass")

OtherSteps ==
    \/ RetryTimer
    \/ \E d \in Directories : RefreshDirectory(d)
    \/ \E d \in Directories : ListAnswered(d, "other") \/ ListSettles(d, "other")

Next == DaemonSteps \/ StreamSteps \/ TranscriptSteps \/ RecoverySteps \/ OtherSteps

Spec == Init /\ [][Next]_vars

\* Every read answers or times out, and the retry timer fires.
Fairness == WF_vars(RecoverySteps) /\ WF_vars(RetryTimer)

FairSpec == Spec /\ Fairness
-----------------------------------------------------------------------------
(* Properties. *)

List == [reply : Reads, latest : BOOLEAN, fresh : BOOLEAN]

TypeOK ==
    /\ daemon.epoch \in Epochs
    /\ daemon.log \in Seq([session : Sessions, kind : {"turn", "deleted"}])
    /\ daemon.forgotten \in 0 .. LogHead
    /\ daemon.gone \subseteq Sessions
    /\ store \in [epoch : Epochs, rows : [Sessions -> Row],
                  cursor : [Sessions -> -1 .. MaxSequence],
                  hydrated : SUBSET Sessions, tombstones : SUBSET Sessions,
                  restoring : SUBSET Sessions, loadError : SUBSET Sessions,
                  selected : Sessions \cup {NoSession},
                  connection : {"ready", "error"}, error : BOOLEAN]
    /\ recovery \in [residents : SUBSET Sessions, directories : SUBSET Directories,
                     stage : {"idle", "residents", "directories"}, current : BOOLEAN,
                     todo : SUBSET (Sessions \cup Directories),
                     reply : [Sessions -> Reads], attempt : 0 .. MaxAttempts + 1,
                     timer : BOOLEAN, failed : SUBSET Directories,
                     stale : SUBSET Sessions,
                     covered : SUBSET (Sessions \cup Directories)]
    /\ stream.kind \in {"bootstrap", "cluster", "reconnect"}
    /\ stream.epoch \in Epochs /\ stream.cursor \in 0 .. MaxSequence
    /\ fetch \in [Sessions -> Reads]
    /\ lists \in [Directories -> [Callers -> List]]
    /\ lost \in Loss
    /\ faults \in 0 .. MaxFaults

\* Events of s, and its history (0), that the stream has passed and the
\* transcript lacks.
Missing(s) ==
    ({0} \cup {n \in 1 .. stream.cursor : n <= LogHead /\ daemon.log[n] = Turn(s)})
    \ store.rows[s].seen

\* A transcript that is not yet what it should be, with a read or an error to
\* show for it.
Unfinished(s) == s \in recovery.residents \cup store.loadError \/ fetch[s] # Unasked

\* The transcripts that something other than the stream's cursor left short.
GivenUp == lost.overtaken \cup lost.crossed \cup lost.evicted \cup lost.reported

\* A transcript that counts as hydrated is whole up to the stream's cursor, or
\* something is still owed for it.  Six ways past this are left open by the
\* code, and are recorded: a reconnect that resumes past undelivered events, a
\* resync no one looked at, a recovery read overtaken by a live event, a first
\* hydrate answered before a resync, an eviction under a read, and a read whose
\* failure the page reported as its own.
HydratedMeansWhole ==
    store.epoch = daemon.epoch =>
        \A s \in Sessions : IsHydrated(s) /\ s \notin store.tombstones =>
            \/ Missing(s) \subseteq lost.jumped \cup lost.unsignalled
            \/ Unfinished(s)
            \/ s \in GivenUp

\* What a contiguous replay "from the client's own cursor" is said to do: it
\* covers every missed event, so that no transcript lacks one without a resync.
ReplayCoversMissed ==
    store.epoch = daemon.epoch =>
        \A s \in Sessions : IsHydrated(s) /\ s \notin store.tombstones =>
            \/ Missing(s) \subseteq lost.unsignalled
            \/ Unfinished(s)
            \/ s \in GivenUp

\* No read, however late, takes away what the transcript already shows.
ReadsNeverErase ==
    [][\A s \in Sessions :
         (/\ store'.epoch = store.epoch
          /\ store.rows[s] # NoRow /\ store'.rows[s] # NoRow)
         => store.rows[s].seen \subseteq store'.rows[s].seen]_vars

\* A resident or directory leaves the recovery obligations only when it was
\* read after the last signal that asked for it.  A deleted session, a read
\* overtaken by a live event and a listing overtaken by a newer one, which is
\* in flight or marked failed, are the exceptions.
DrainedIsCovered ==
    /\ \A s \in Sessions : s \in recovery.residents \cup recovery.covered
                                 \cup store.tombstones \cup lost.overtaken
    /\ \A d \in Directories :
          \/ d \in recovery.directories \cup recovery.covered \cup recovery.failed
          \/ lists[d]["other"].latest /\ lists[d]["other"].fresh

\* Late hydrates, recovery reads and events never bring a deleted session back;
\* a reconnect's detail may.
DeletedStaysDeleted ==
    [][\A s \in store.tombstones :
         store.rows[s] = NoRow /\ store'.rows[s] # NoRow
         => stream.reconnect.session = s]_vars

\* Every obligation is drained in the end, or parked, after MaxAttempts failed
\* retries in a row.
Parked ==
    /\ recovery.stage = "idle" /\ ~recovery.timer
    /\ recovery.attempt > MaxAttempts

RecoveryEnds ==
    \A x \in Sessions \cup Directories :
        x \in recovery.residents \cup recovery.directories
        ~> x \notin recovery.residents \cup recovery.directories \/ Parked
=============================================================================
