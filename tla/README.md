# PiChamber: models and proofs

TLA+ models of the parts of PiChamber (`packages/web/server`, `packages/ui/src`)
that decide whether a user's sessions and messages survive lost connections,
restarts, several windows, several servers and several daemons. Each module is translated from
the source; `PROJECT.json` names, for every definition, the lines it stands for.

PiChamber is three layers. A *client* (browser page, desktop window, phone)
talks HTTP and one event stream to a *server*; the server owns a *session
daemon* process that runs the Pi agent sessions and outlives server restarts;
daemons share an *agent directory* of session files with other daemons and with
Pi itself.

## Inventory

| Component | State | Operations | Hard because |
|---|---|---|---|
| Replay log `session-replay.js` | retained lines, byte total; `sequence` in the daemon | append (with eviction), `canReplay`, replay | private frames consume sequence numbers, bounds by count and bytes, oversized lines |
| Client event stream `transport.ts`, `event-stream.js`, `routes.js` | cursor, epoch, retired epochs, probes, back-off | connect, receive, verify a foreign epoch, reconnect | every daemon lifetime numbers from 1 again; probes race frames and disconnects |
| Cross-process lock `cross-process-lock.js` | one lock file | create, claim, judge, steal, release | processes die at any await; read, judge and remove are separate |
| Send operations `send-operation-registry.js`, `sessionInput` | receipts, tombstones, pending claims | claim, settle, expire, evict, look up | lost answers, retries with another payload, restarts, three bounds |
| Queued follow-ups `messageQueueStore.ts`, `useQueuedMessageAutoSend.ts`, `ChatInput.tsx`, `client.ts` | queue and attempt marks per page, shared storage | queue, scan, send now, check status, take back | deferred persistence, two ways of delivery, uncertain outcomes, several pages |
| Session residency `session-daemon.js`, `session-lease.js`, `runtime-registry.js` | leases on disk, registry, active and dormant session, disposals in flight | open, create, fork, delete, ensure, idle disposal | every path awaits between reading and writing these |
| Session store `pi-session-store.ts`, `session-reconnect-coordinator.ts` | transcripts, per-session cursors, tombstones, hydrates in flight, recovery obligations | hydrate, commit events and deletions, reconnect, evict, recover | older reads against newer events; one cursor for many sessions; a miss is signalled once |
| Supervisor `supervisor.js`, `daemon-process.js` | operation lock, socket, state sidecar, the daemon's owner in memory | probe, claim, spawn, stop, replace, recover a stale socket | two servers of one profile; a daemon that boots, stops or is silent; files judged and removed by name |
| Pending input `pending-input.js`, `pi-session-catalog.ts`, `NeedsInputAlerts.tsx` | open dialogs; per page the rows, their markers, the alerts | open, settle, forget; event, stream snapshot, listing, detail, global list | five sources of one value that overtake each other |
| Session engines, extensions, `!cmd` | per-session processes | route, dialogs, run | callbacks into disposed runtimes |
| Pairing, relay, authentication | codes, keys, streams | redeem, revoke, multiplex | retries, revocation against open streams |
| Stores, attachments, terminal, browser, git, files | files and child processes | I/O | little shared protocol state |

How they interact: a page queues messages (queued follow-ups) and sends them with
an operation id; the server passes the request to its daemon, which claims the
operation (send operations), opens the session (residency, whose lease is taken
under the cross-process lock) and lets Pi run it; what Pi does is published
(replay log) and reaches every page (event stream), where it changes the session
store, the badge of a session that waits for its user, and the catalog row that
gates the queue. The daemon itself is found, claimed and replaced by the servers'
supervisors, under an operation lock of their own.

What makes each correct: a replay is complete or refused; a page never mistakes
another lifetime's events for this one's and never passes an event silently;
critical sections do not overlap; an intent runs at most once while its receipt
can be remembered; a queued message runs once, in order, or is still there; a
session is resident in one daemon, and its lease is given up with the runtime; a
hydrated transcript holds all that the stream has passed; a profile has one
daemon, and a stopped one leaves nothing behind; a badge says what the daemon's
index said at the sequence the page marks it with.

## Modules

| Module | Models | Notes |
|---|---|---|
| `SessionReplay` | the replay log and the daemon's `publish`/`publishSnapshot` | implements `ReplayLog` |
| `ReplayLog` | what the log promises: it retains a suffix | abstract; extended by `PiEventStream` |
| `PiEventStream` | `createPiEventStream` against a daemon that restarts | the daemon side is `ReplayLog`'s |
| `CrossProcessLock` | `withCrossProcessLock` | one action per await |
| `SendOperations` | the registry and the requests through it | time, eviction, restart |
| `QueuedDelivery` | one session's queue on every page | the daemon's receipts appear as `SendOperations` keeps them while nothing is evicted |
| `SessionResidency` | opening to disposing a session's runtime in several daemons | the lease operations are atomic, as `CrossProcessLock` makes them |
| `SessionStore` | one page's store against a daemon that restarts and forgets events | its stream does what `PiEventStream` is shown to do |
| `Supervisor` | servers, the daemon processes of one profile and the files between them | the operation lock is `CrossProcessLock`'s idea, reduced to its promise |
| `PendingInput` | the index, one page's copy of it, and the alerts | again over a stream with a cursor |
| `*_proofs` | theorems about the module they extend | those of `SessionReplay` and `CrossProcessLock` are in `Foundations_proofs` |
| `MC_*` | model values, functions and symmetry for TLC | bounds are in the `.cfg` files |

Correspondence, where it is not one action for one function:

- **SessionReplay.** `published` is a history variable. A line is its size.
  `Publish` is `publish` with `appendLine` and its evictions in one step, since
  the code is synchronous; `PublishSnapshot` consumes a number and appends nothing.
- **PiEventStream.** `wire` is the connection and the frames in it, `stream` the
  closure variables of `createPiEventStream`, `owner` what its callbacks were
  told. A frame of an unknown epoch starts a probe; probe and answer are
  separate steps, and the connection can be lost between any two. `wire.untold` is
  history: the subscription was answered with a snapshot that names no session, which
  the HTTP projection drops. `Publish` needs no session to be active, as in the code:
  deleting or renaming a stored session is published too.
- **CrossProcessLock.** `pc` is the await a call is at, `seen` what it last read.
  File age is reduced to one assumption, stated in the module: a live process
  writes its claim within `FRESH_LOCK_MS`.
- **SendOperations.** Map insertion order is the number an entry got when it was
  claimed. A request of an earlier daemon lifetime can arrive after a restart
  and is refused as stale.
- **QueuedDelivery.** `page[t]` is a page's memory, `disk` the storage all pages
  of the origin read when they load; a write to `disk` is `Flush`, or
  the page's death without it. `call` is the await each entry's send is at.
  Messages are numbered, and a queue is the set of its numbers: without reordering the
  code only appends at the end and removes, so the order of the queue is the order
  of the numbers.
- **SessionResidency.** A runtime is named by the request that created it. Each
  request record holds the await it is at. `history.lapsed` is set where a daemon
  gives up a lease under a runtime of its own, or registers one without a lease;
  `history.strays` where a lease is left behind; `history.forked` names the sessions
  that a fork left and reached, `history.snatched` the runtimes that a fork rebound to
  a new session while an idle disposal was tearing them down. The idle timer may be due
  whenever the session is idle-safe, because turn ends arm it as requests do.
- **SessionStore.** An event is its number and a transcript the set of numbers in
  it, 0 being the history from before this lifetime. `store` and `recovery` are
  the fields of `PiSessionStore`; an operator on `c` is the effect of one method
  on them, and an action is what runs between two awaits. `recovery.stale` and
  `recovery.covered` are history: reads in flight that are older than a signal, and what
  was read since the last one. A failed read (`FetchFails`) is an error of its chat, or,
  when it outlived its stream or was not authorized, an error of the page, which is
  cleared without that chat being read again. `stream.reconnect` is the store's own
  reconnect (a detail, then a new stream), `fetch[s]` the hydrate that all
  callers share, `lists[d]` the directory listings, by the recovery pass and by
  others. `lost` records the ways in which the code itself gives an event up.
- **Supervisor.** `pc[s]` is the await a server's call is at; a call is `start` or
  `stop`. `phase[d]` is a daemon process between its spawn and its exit: "leaving"
  has removed its socket, "cut" was ended by its own second stop. `claims` are the
  claims that a daemon has accepted and not answered; nothing bounds the write of the
  sidecar that they wait for. `late` is history: a claim outlasted the wait of its
  caller, and `orphaned`: a server died while its daemon booted.
- **PendingInput.** `page.rows[s]` is the catalog row's summary (a count and the
  oldest request), `page.marker[s]` the sequence it was sampled at
  (`pendingInputSequenceById`), `page.last[s]` the session's stream cursor.
  `fetch`, `list` and `detail` are the three reads in flight, `Receive` and `Snapshot`
  the two kinds of event that say what a session waits for. `missed`, `read`
  and `lapsed` are history: what the page skipped, what it read since, and
  whether anything told it; `unseated` the sessions whose row a listing dropped while
  their alert was up. A listing's summaries are adopted by a page that has a stream or
  attaches one next; a stream that the transport is connecting again still counts,
  so without a connection both cases are open (`adopting`).

## Runs

"Violates" runs check one sentence of the repository that the code does not keep.

| Run | Checks | Bounds |
|---|---|---|
| `foundations` | the lock: exclusion until a live owner's file is removed, every call ends; then the replay log: completeness of every replay, both retention bounds, eviction only under pressure, `ReplayLog` refinement | 3 processes with a call each: an owner, a waiter with a stale read, a newcomer; 2 sessions, 2 entries, 3 bytes, 5 numbers: a log that evicts by count, by bytes and by an oversized line, with a private frame between |
| `event_stream` | cursors belong to their epoch, the live epoch is never retired, order, no going back, a resumed cursor loses nothing unless the answer to it was dropped (`untold`); foreign frames are resolved | 3 lifetimes, so a probe can be two behind; 2 events in each |
| `send_operations` | at most once, accepted callers' payloads ran, receipts kept, every request answered | 4 requests on 2 operations, one of them with another payload; 1 receipt kept, 2 pending, a restart |
| `queued_delivery` | never twice, nothing dropped, in order, when a page may die unwritten; a queued message settles unless its page stays misled about the session | 2 messages, 2 lifetimes, 1 intervention (Send now or reload) |
| `session_residency` | one resident unless a lease lapsed, live runtimes, leases accounted for, dormant sessions reopen unless deleted | 2 daemons, 3 sessions (one stored), 3 requests, crashes: with three sessions one runtime can be forked twice |
| `session_store` | a hydrated transcript is whole, reads never erase, deletions stay | 2 sessions, 2 events, 1 lifetime, 2 faults, room for 1 transcript, so that selecting the other evicts |
| `session_store_recovery` | no obligation is drained uncovered; recovery ends | 1 session and 1 directory, 2 lifetimes, 2 faults, 1 retry |
| `session_store_jump` | violates "covers every missed event" | as `session_store`, with room for both transcripts |
| `supervisor` | one daemon, found again, ended only by its owner, stops completely; every call ends | 2 servers of 2 builds, 2 daemons, 1 fault |
| `supervisor_claims` | violates "only after the previous server PID is no longer live" | the same without a fault |
| `supervisor_shutdown` | violates "released after [...] daemon shutdown" | the same without a fault |
| `pending_input` | rows are as of their markers, badges true, misses fetched, alerts end (of deleted sessions too, unless a listing dropped the row), catching up | 1 session, 1 dialog, 2 lifetimes, 2 reads, 1 fault |

Where a hypothesis appears in a property's name or text ("unless lapsed", "unless
orphaned", an event recorded in `lost`), it names a history variable that one
particular step of the code sets, so what is excused is that step and nothing else.

More configurations are kept beside these, to be run by hand
(`tlc -config <name>.cfg MC_<module>`). These pass, on larger instances, and check
the modules' type invariants too:

| Configuration | Instance | Distinct states |
|---|---|---|
| `SendOperationsLarge` | 5 requests on 3 operations, a longer time to live; also the bounds of both Maps (`Bounded`) | 0.9 M |
| `QueuedDeliveryLarge` | two interventions | 10 M |
| `SessionStoreRestarts` | a daemon restart under two sessions | 6.6 M |
| `SupervisorFaults` | 3 daemons, 3 faults | |
| `PendingInputRequests` | two dialogs | |

These have a counterexample that is short to read (see "What the models say about
the code"): `PiEventStreamLoss`, `PiEventStreamUntold`, `CrossProcessLockSteal`,
`CrossProcessLockDead`, `SendOperationsOldest`, `QueuedDeliveryTabs`,
`QueuedDeliveryStuck`, `SessionResidencyLapse`, `SessionResidencyFork`,
`SessionResidencyDeleted`, `SupervisorStranded`,
`PendingInputDeleted`, `PendingInputAlerts`.

`MaxFaults` bounds, over a behaviour, the things nobody asks for: in the store lost
connections, transport switches, events the daemon forgets, failed reads and
evictions; in the supervisor crashes, signals from outside, time-outs and failed
boots; for pending input restarts, lost connections and failed fetches.
`MaxReads` bounds the listings and details, which may happen at any time.

Why the bounds are enough: each instance is the smallest in which the hazards
listed in `PROJECT.json` happen, each mutant of a mapped definition named there
is caught within it, and where a property is also proved the bound does not
matter. `CHECK_DEADLOCK FALSE` stands where a system ends in an ordinary way: the
bounded counters run out, or every call and request has been served.

Symmetry is used for messages, requests, sessions and daemons that nothing
distinguishes, and never in a liveness run.

### Fairness

- `PiEventStream!Fairness`: the page's event loop, one weak fairness of all that it has
  to handle: a frame that arrived, the answer of a probe, or the time-out of its fetch.
  Nothing obliges a connection to come back.
- `CrossProcessLock!Fairness`: the awaits of a live process settle and time
  passes; a call need not reach its deadline, so it is not the timeout that
  makes `EveryCallEnds` hold.
- `SendOperations!Fairness`: the daemon reads its sockets, and Pi's preflight
  settles (`runSessionInput` ends every path in `settle`).
- `QueuedDelivery!Fairness`: strong for the scanner, which React runs again at
  every change of the store or the catalog; weak for awaits, events and turn
  ends. Nothing obliges a page to read a wrong catalog row again (`Refresh`), as the
  code does so on some occasions only. `EntrySettles` therefore ends in a page that
  stays misled or in an entry that settled; `QueuedDeliveryStuck.cfg` checks it
  without that exception (`NeverBlocked`), which the code does not keep (finding 5).
- `SessionStore!Fairness`: a recovery pass goes on while it has work and its reads
  settle, and the retry timer fires. Nothing obliges the stream to come back.
- `Supervisor!FairSpec`: the awaits of a living server and of a living daemon
  settle, each within a time-out in the code, and a claim is written and answered, with
  no bound on when: its caller may have given it up by then (`LoseClaim`).
- `PendingInput!Fairness`: the stream comes back (it reconnects for ever), delivers
  what it has, and the list that was asked for answers or fails.

## Proofs

All with TLAPS, for every value of the constants allowed by the named assumptions.

- **SessionReplay.** `IndInv` = types and order, the log is the contiguous tail
  of what was broadcast (`ContiguousSuffix`), only published lines are retained
  and every number was assigned. `ReplayIsComplete` alone is not inductive: it
  says nothing of the events below the oldest retained one that the next
  eviction makes relevant. `Refinement` maps `retained` to the sequence numbers
  in the log: an append is an append followed by dropping a prefix. `RetentionBounded`
  and `EvictsOnlyUnderPressure` are about a recursive sum. The induction they need is
  done with least elements: a set of numbers at which a statement fails
  has a smallest one (`LeastNatural`, from the well-foundedness of `<`), and there it
  cannot fail. So the loop's totals exist, are what their equations say, add up over a push
  and over shifts, and decrease.
- **PiEventStream.** `PromiseLeavesNoHole` is about `ReplayLog` alone: any log that keeps
  a suffix serves every replayable cursor. With `Refinement`, the eviction policy can
  change without touching subscribers. The rest assumes only that there is a lifetime and an event
  (`StreamAssumption`). Three invariants, each with the one before: `EpochInv`, what the client knows of
  lifetimes (types; what it calls current, retired or probed was once alive, and
  nothing retired lives); `OrderInv`, that frames in flight are in order and
  beyond what was delivered of their lifetime; `LossInv`, that every event beyond
  the cursor of a subscription is on its way or covered by a resync frame that
  comes first, on every connection whose answer was not dropped (`untold`). `ResumedCursorLosesNothing` is not inductive: it speaks of the
  step that moves the cursor, and says nothing of the frames still on the wire, of a
  wire that was attached before the daemon died, or of a frame held behind a
  probe. The handlers call each other, so the proof treats each as a function of
  a client record, shows once that it keeps each part, and then goes through the
  steps.
- **CrossProcessLock.** `Ownership` (until a steal, whoever is between creating
  and removing the file owns it) is inductive and gives `ExclusionUnlessStolen`
  for any number of processes. It needs `LockAssumption` only.
- **SendOperations.** `IInv` adds to the types: entries belong to requests that
  claimed them, waiters wait for their own payload, every operation that ran is
  remembered as pending, accepted or as a tombstone, or was forgotten under
  pressure, and requests say the truth of what ran. The lemmas on shrinking show
  that expiry and eviction only move an operation along that chain; finiteness
  of operations and requests is assumed so that eviction counts mean something.
  `RunsAtMostOnce` and `AcceptanceIsTrue` follow. `BoundInv` adds that entries and
  tombstones are numbered apart, which is what makes "fewer than n came later" keep
  at most n (`TopIsSmall`) and, of a set that loses any, at least n (`TopIsLarge`):
  both Maps stay bounded (`StaysBounded`) and receipts stay (`ReceiptsStay`).
- **QueuedDelivery.** Under `OnePage`: with two pages of an origin the first two properties
  are false (finding 6). `MarksAreTrue`: while a message is queued, its mark names the one
  request of it that Pi has run or may still run, an unmarked one has none, and a
  page that has nothing to write is as its storage, which is what the next page
  finds. `NeverDeliveredTwice` is that without the queue. `NothingDropped` needs that what
  left the queue has run or was taken back, `FollowUpsInOrder` that what the
  scanner has passed sends no follow-up later.
- **SessionResidency.** `OneResidentUnlessLapsed` compares two daemons and is not
  inductive. `HoldersAreKnown` is: whoever has a session registered is alive and
  holds its lease, or lapsed, and so does every request between the awaits that
  lead to a registration. Two residents would then be two live holders of one
  file. `WholeInv` adds what the other three need, in six parts: what is registered is a
  live runtime of its session (`Registered`); an idle disposal tears down what was
  registered and holds the lease until it releases it (`Ending`); no request works on a session while an idle
  disposal of it is under way, except on a runtime that a fork has rebound (`Apt`);
  a lease of a live daemon belongs to a runtime or to a request that will
  register or release it (`Kept`); a dormant session was written, was deleted, was left
  by a fork, or is still registered or leaving (`Remembered`); and a request's runtime is its own (`Own`).
  `RequestsUseLiveRuntimes`, `LeaseAccounted` and `DormantReopensUnlessDeleted` follow.
  TLC checked `WholeInv` too, on one daemon with three requests and on the run's instance.
- **Supervisor.** Two invariants. `DiskIsTrue`: what the operation lock, the sidecar
  and the socket say of a daemon follows from its phase and from the await its
  server is at, so the next server that looks finds every daemon that is booting,
  running or half gone. One daemon, a running daemon found again, and a complete
  stop follow from it, without exception for a claim. The lemma `ClaimsAreTrue` adds, of
  a history in which no claim has outlasted its caller's wait (`~late`), that an accepted claim
  of a living server is awaited by it, is the only one, and is on a daemon that no other
  living server owns. `TerminatesOnlyItsOwn` follows for those histories. The specification
  has the other histories too; that a live server keeps what it owns is false in
  either kind (finding 13), so nothing of that sort is proved.
- **PendingInput.** `RowIsAsOf` looks at the page, and the page takes what it is told.
  `LogTellsTheIndex` is therefore about the daemon too: its log ends with what the index
  holds of each session, whatever publishes and however many events it takes. An answer sampled
  at a sequence then says what the log says there, and still does when it arrives,
  because logs only grow. Each handler of the page is shown to keep that fit,
  as a function, and then each step. `KInv` goes from what a row says to
  whether that is the latest: once what was missed has been read, a row shows what the
  index held at some sequence from the page's cursor on, or its session's deletion is still
  to come; every event received since the last miss is no newer than the row's marker;
  what was missed is owed by a fetch; and an alert stands for a row that needs its user, or for a session that is `unseated`.
  `BadgesTrue`, `MissIsFetched` and `AlertsEnd` follow.

- **SessionStore.** `StoreInv`, a statement about the page as one record, in two parts,
  and `Whole`, which rests on it.
  `RowsInv` is about transcripts. Every read that may still be merged is a prefix of
  what its session contains, up to the head at which it was answered, so two reads of one
  session and lifetime are ordered by their heads; a row is true and ordered with every
  such read. The merge then loses nothing, whichever of the two is newer
  (`ReadsNeverErase`). `DeletedStaysDeleted` follows from how each step changes a
  row: it goes, stays, or grows into a sound one, and only of a living session or by
  the reconnect. `Cover` is about obligations: what a current pass has in flight was
  asked for after the last signal, and of two listings of one directory the one that was
  superseded left the work to a fresh one or to one that is done
  (`DrainedIsCovered`). That induction did not go through at first:
  a recovery read that a live event overtakes is excused in `lost`, which starts over
  with the next daemon lifetime; the session is not hydrated then and nothing asks for it
  again. This takes a third lifetime and was beyond the instance. Nothing is shown of such
  a session any more, so the obligation is settled there, and the model's history says so
  now; `recovery.stale` was added to it, so that a read older than a signal covers nothing.
  Handlers are functions of the page here, so each has a lemma that says what
  it does, field by field, and each action a lemma that its outcome advances the page.
  `Whole` gives `HydratedMeansWhole`. That property speaks of a row at rest; it is not
  inductive, because a read that is merged may be all the row keeps, and a session that is
  owed a read may get one that is older than what it has. So `Whole` asks of each read in
  flight (a hydrate, a recovery read, a reconnect) what is then missing: every turn
  after the read's head that a cursor has passed is in the row or was given up (`Holds`).
  `Clocks` adds that no cursor and no frame is beyond the log, that a frame on the wire
  follows the stream's cursor, and that the detail a reconnect will take over is not
  older than where it resumes. All this is about one lifetime of the daemon: it holds
  while the page is in it, and a page that changes lifetimes forgets all it owed.

Only model-checked: liveness (fairness and ENABLED are beyond the prover). Every
invariant and every action property of a passing run is stated by a theorem.

## What the models say about the code

Disagreements between the code and what the repository says of it. Those with a
run are in `PROJECT.json` "findings" with their lines; the others have a
configuration to run by hand (`tlc -config <name>.cfg MC_<module>`).

1. After a resubscription adopted a new epoch, the cursor is forgotten, so a
   connection lost before the first frame loses events without a signal
   (`PiEventStreamLoss`).
2. When no session is active, an unservable cursor is answered by a frame that
   the HTTP projection drops, though session-daemon/DOCUMENTATION.md:52 promises
   "an authoritative `session.snapshot`": a daemon on which only a stored session was
   deleted or renamed has published and has none active (`PiEventStreamUntold`).
3. The lock's file is judged and removed by name: a late waiter can remove the
   next owner's file, without a dead owner (`CrossProcessLockSteal`) or with one,
   though cross-process-lock.js:52 says "a live owner never is [stolen]"
   (`CrossProcessLockDead`).
4. Receipts are evicted in the order of the claims, so an operation accepted late
   can lose its receipt as it is accepted; send-operation-registry.js:32 says
   "oldest evicted" of accepted receipts (`SendOperationsOldest`).
5. A send that fails leaves the catalog row busy (pi-session-store.ts:2741) and the
   queue behind it waits, though messageQueueStore.ts:81 says that a failed entry
   "never blocks later unrelated entries" (`QueuedDeliveryStuck`).
6. Two pages of an origin can deliver one queued message twice
   (`QueuedDeliveryTabs`).
7. A runtime started to answer for a directory has no lease
   (`SessionResidencyLapse`).
8. Forking leaves the lease of the source behind (session-daemon.js:4523), though
   DOCUMENTATION.md:35 says it is released on "replacement" (`SessionResidencyFork`).
9. A deleted session stays the one to reopen, so a request for its directory
   fails instead of starting a session (`SessionResidencyDeleted`).
10. Every detail read sets its session's cursor to the head of the global
    sequence and the reconnect resumes from the highest cursor, so events of other
    sessions in between are skipped, though sync/DOCUMENTATION.md:60 says that a
    replay from the client's own cursor "covers every missed event"
    (`session_store_jump`).
11. Every supervised stop signals the daemon that has just accepted its shutdown, and
    the second stop ends the process in the middle of the first
    (`supervisor_shutdown`).
12. A socket that a daemon leaves before its sidecar is written can not be verified
    as stale by any later start, though DOCUMENTATION.md says that a probe after a
    crash "re-runs supervised startup" (`SupervisorStranded`).
13. `runtime.claim` looks at the owner, awaits the sidecar and assigns: a claim whose
    server exits meanwhile is assigned after the next server's, so a dead server owns
    a live one's daemon, though session-daemon/DOCUMENTATION.md:46 says that ownership transfers
    "only after the previous server PID is no longer live" (`supervisor_claims`).
14. A global pending-input list asked for before a deletion brings the row back
    (pi-session-store.ts:1349 does not look at tombstones), though the comment at
    pi-session-store.ts:868 says that late completions "cannot resurrect the row"
    (`PendingInputDeleted`).
15. The alert of a deleted session stays up when a listing had dropped its row
    before, though NeedsInputAlerts.tsx:277 says it "cannot linger forever"
    (`PendingInputAlerts`).

More hazards were found that the properties name as exceptions, since no sentence of
the repository speaks of them:

- *Residency.* A start reads `dormantSession` again after its await, so when it fails it
  can give up the lease of another, resident session; an idle disposal gives up
  the lease that a start has taken again meanwhile, because a start does not wait
  for it as an open does. A fork moves
  a runtime to a new session without asking whether an idle disposal of it is under
  way; an open of the new session then adopts the runtime and works on it while it
  is torn down, though session-daemon.js:1517 promises to wait "instead of
  adopting a runtime that disposal is about to tear down". It takes two forks of one
  runtime (`snatched`; `RequestsUseLiveRuntimes` without that disjunct is
  violated on the run's instance). A session that was never written, was forked
  and lost the fork's result to a deletion stays dormant without a file (`forked`).
  Both were found by a proof that would not go through and are beyond two sessions.
  Seen in the code and not modelled: a start can collide
  with a runtime that an open registered (session-daemon.js:882) and leave its own
  behind; `dispose` removes by key after an await (runtime-registry.js:93);
  recreating runtimes (session-daemon.js:847) clears the registry under an activation.
- *Store.* `lost` has one field for each way: a replay miss that reaches a stream of a
  bootstrap or of `attachClusterStream`, which do not look for its mark
  (pi-session-store.ts:3527 is the reconnect's handler); a recovery read overtaken by
  a newer event of its session, which counts as recovered without being committed
  (:786); a first hydrate answered before the miss, which no recovery is queued
  for; an eviction while an event is in flight; a reconnect that resumes past it; a failed
  read that is reported for the whole page. Also, a
  superseded listing returns success and drains the directory (:1495), a
  reconnect merges rows without looking at tombstones (:3585), and a stream that comes
  back while the page shows an error does not restart a parked recovery.
- *Supervisor.* A server that dies while its daemon boots leaves a daemon that nothing
  on disk names (`orphaned`), and the next start spawns a second; a start reports a
  ready daemon before it owns it; the daemon's last `rm` of the endpoint goes by
  name and can remove its successor's socket.
- *Pending input.* The global list sets no marker for a row it does not name, so an older
  listing brings the badge back (`Reopens`); the misses of bootstrap and cluster
  streams leave badges as they are (`lapsed`); a live `opened` alert is never raised
  when a listing overtakes the event; a fork's lookup of its directory falls back to the
  default one; deleting a session whose row is gone emits no `cleared` (`unseated`).
- *Streams.* A stream's response headers are flushed before the subscription succeeds
  (routes.js:1855), so a client sees an open stream that fails at once; a switch
  of runtimes (pi-session-store.ts:826) leaves passes of the old one to find out.

## Not modelled

`PROJECT.json` "components" gives the reason for each part. In short: the contents of
transcripts and events (data), cryptography, child processes and files (I/O),
React components, and the relay host, which no entry point of the code starts.

Left out of the modelled parts:

- *SessionResidency*: several directories in one daemon, session engines, runtime
  recreation and stop; an unreadable lease file.
- *QueuedDelivery*: reordering, `requeueWithNewIntent`, attachments, several sessions.
- *SessionStore*: what rows contain, cadence batching of events, catalog rows and their
  persistence, session-tree navigation, older history pages, bootstrap itself,
  runtime switches, the cap on tombstones (4096). A snapshot's own number, the null
  epoch of an old daemon and an orphaned hydrate after an epoch change are left
  out; the cursor after a change is the head as it was announced. Recency of use
  is a free choice of what to evict, two reads at a time are all that are due at
  once, and a deletion leaves the next selection to the user.
- *Supervisor*: credentials, legacy cleanup, Windows pipes. A probe is one step, a
  signal arrives at once, a dead daemon's name may be used again, and two claims that
  write through one temporary file are two atomic writes.
- *PendingInput*: the kind of a request, engine summaries, the cap of 99, the 404 latch,
  metadata backfill, runtime switches. The dialogs of a session are the index (a dialog
  opened while its session is being deleted is forgotten by the index and can not
  be answered). A listing or a detail is sampled when it is asked for; it
  omits deleted sessions only. A batch is handled event by event, except that what is
  batched with a deletion is skipped.

## What is left

1. `SessionResidency`: runtime recreation, stop, failed-create cleanup.
2. The turn lifecycle of a session (`publishSessionEvent`) and the busy state of its row.
3. Session engines behind the router, as a second implementation of the contract that
   `SessionResidency` shows for Pi's runtimes.
