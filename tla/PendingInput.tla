---------------------------- MODULE PendingInput ----------------------------
(***************************************************************************)
(* "Input needed": the daemon's index of the sessions that wait for their  *)
(* user, the copy of it that one page keeps in its catalog rows, and the   *)
(* alerts that the page raises.                                            *)
(*                                                                         *)
(* The index is derived from the open dialogs of each session and every    *)
(* change of it is an event.  The page learns it from those events, stream *)
(* snapshots, directory listings, details and the global list, which       *)
(* overtake each other, and orders them by the sequence each was sampled   *)
(* at.  The stream delivers the events after its cursor in order, or says  *)
(* that it cannot.                                                         *)
(***************************************************************************)
EXTENDS Integers, Sequences, FiniteSets, FiniteSetsExt

CONSTANTS
    Sessions,
    MaxRequests,    \* bound: dialogs opened
    MaxEpoch,       \* bound: daemon lifetimes
    MaxReads,       \* bound: listings and details read
    MaxFaults       \* bound: restarts, connection losses and failed fetches

ASSUME InputAssumption ==
    /\ IsFiniteSet(Sessions)
    /\ MaxRequests \in Nat /\ MaxEpoch \in Nat \ {0}
    /\ MaxReads \in Nat /\ MaxFaults \in Nat

VARIABLES
    daemon,     \* epoch, the log of each epoch, open dialogs, phase of each session
    page,       \* the store's connection, rows, markers, tombstones, and alerts
    fetch,      \* the global list in flight, and whether it is to be read again
    list,       \* the directory listing in flight
    detail,     \* the detail read in flight
    missed,     \* history: the highest event of its epoch that the page skipped
    read,       \* history: the sequence it has read the list at since, -1 if none
    lapsed,     \* history: a miss that nothing signalled, or whose fetch failed
    unseated,   \* history: the sessions whose row a listing dropped under an alert
    reads,      \* the listings and details so far
    faults      \* the faults so far

vars ==
    <<daemon, page, fetch, list, detail, missed, read, lapsed, unseated, reads, faults>>

Epochs == 1 .. MaxEpoch
Requests == 1 .. MaxRequests

\* A pending-input summary.  Requests are numbered in the order they open.
Pending(requests) ==
    [count |-> Cardinality(requests),
     since |-> IF requests = {} THEN 0 ELSE Min(requests)]

Null == [count |-> 0, since |-> 0]
Unknown == [count |-> -1, since |-> 0]
NoRow == [count |-> -2, since |-> 0]
Needing(value) == value.count > 0
Known(value) == value.count >= 0

Input(s, value) == [session |-> s, kind |-> "input", pending |-> value]
Deleted(s) == [session |-> s, kind |-> "deleted", pending |-> Null]

Log == daemon.log[daemon.epoch]
LogHead == Len(Log)
Index(s) == Pending(daemon.open[s])
Gone == {s \in Sessions : daemon.phase[s] = "gone"}

\* The index as of the n-th event of an epoch.
AsOf(epoch, n, s) ==
    LET about == {i \in 1 .. n : daemon.log[epoch][i].session = s}
    IN  IF about = {} THEN Null ELSE daemon.log[epoch][Max(about)].pending
-----------------------------------------------------------------------------
(* The daemon.                                                             *)

Publish(d, events) == [d EXCEPT !.log[d.epoch] = @ \o events]

\* open and close: maybePublish says what it has not said yet.
Change(s, requests) ==
    LET d == [daemon EXCEPT !.open[s] = requests]
    IN  IF Pending(requests) = Index(s) THEN d
        ELSE Publish(d, <<Input(s, Pending(requests))>>)

OtherThanPage ==
    <<daemon, fetch, list, detail, missed, read, lapsed, unseated, reads, faults>>

PageSide == <<page, fetch, list, detail, missed, read, lapsed, unseated, reads, faults>>

\* dialog(): also from an extension whose runtime is being closed.
OpenRequest(s) ==
    /\ s \notin Gone
    /\ \E r \in Requests :
          /\ r = Cardinality(Requests) - daemon.left + 1
          /\ daemon' = [Change(s, daemon.open[s] \cup {r}) EXCEPT !.left = @ - 1]
    /\ UNCHANGED PageSide

\* It is answered, times out or is aborted.
Settle(s) ==
    /\ \E r \in daemon.open[s] : daemon' = Change(s, daemon.open[s] \ {r})
    /\ UNCHANGED PageSide

\* cancelPendingExtensionDialogs: one after the other, oldest first.
Cancelled(s) ==
    LET open == daemon.open[s]
        After(i) == {r \in open : Cardinality({q \in open : q <= r}) > i}
    IN  Publish([daemon EXCEPT !.open[s] = {}],
                [i \in 1 .. Cardinality(open) |-> Input(s, Pending(After(i)))])

Reload(s) ==
    /\ daemon.open[s] # {}
    /\ daemon' = Cancelled(s)
    /\ UNCHANGED PageSide

\* A deletion, or the idle timer, which leaves a session with requests alone.
BeginClose(s) ==
    /\ daemon.phase[s] = "live"
    /\ daemon' = [Cancelled(s) EXCEPT !.phase[s] = "closing"]
    /\ UNCHANGED PageSide

\* The session is deleted and forgotten, or it was only put away, or not even that.
EndClose(s) ==
    /\ daemon.phase[s] = "closing"
    /\ \/ daemon' = [daemon EXCEPT !.phase[s] = "live"]
       \/ daemon' = Publish([daemon EXCEPT !.phase[s] = "gone", !.open[s] = {}],
                            <<Deleted(s)>>)
    /\ UNCHANGED PageSide

Fault ==
    /\ faults < MaxFaults
    /\ faults' = faults + 1

\* The dialogs die with the process.
Restart ==
    /\ daemon.epoch < MaxEpoch
    /\ Fault
    /\ daemon' = [daemon EXCEPT !.epoch = @ + 1,
                                !.open = [s \in Sessions |-> {}],
                                !.phase = [s \in Sessions |->
                                             IF @[s] = "gone" THEN "gone" ELSE "live"]]
    /\ page' = [page EXCEPT !.attached = FALSE]
    /\ UNCHANGED <<fetch, list, detail, missed, read, lapsed, unseated, reads>>

Read ==
    /\ reads < MaxReads
    /\ reads' = reads + 1

\* What the daemon answers a read with: its index, and the sequence it holds at.
Answer == [epoch |-> daemon.epoch, sequence |-> LogHead,
           pending |-> [s \in Sessions |-> Index(s)], gone |-> Gone]
NoAnswer == [epoch |-> 0, sequence |-> 0,
             pending |-> [s \in Sessions |-> Null], gone |-> {}]
-----------------------------------------------------------------------------
(* The page: handlers as functions of its state c.                         *)

\* applyPendingInputObservation: an empty session does not make a row.
Observe(rows, s, value) ==
    IF rows[s] = NoRow /\ value = Null THEN rows ELSE [rows EXCEPT ![s] = value]

\* Mutant: whatever comes last wins.
Accepts_always(c, s, n) == TRUE

\* acceptPendingInputSequence.
Accepts(c, s, n) == n >= c.marker[s]

Cleared(c, sessions) ==
    [c EXCEPT !.opened = @ \ sessions, !.raised = @ \ sessions]

\* The alert of an opened session, unless the user looks at it or it is old.
Opened(c, s, alert) ==
    [c EXCEPT !.opened = @ \cup {s}, !.raised = IF alert THEN @ \cup {s} ELSE @]

\* A detail or a snapshot of s, sampled at n: the session's cursor jumps there.
Sampled(c, s, n, value) ==
    LET d == IF Accepts(c, s, n)
             THEN [c EXCEPT !.marker[s] = n, !.rows = Observe(@, s, value)] ELSE c
    IN  [d EXCEPT !.last[s] = Max({@, n})]

\* A session.input event reaches the catalog, and the transitions it stands for.
ApplyInput(c, s, n, value, alert) ==
    IF ~Accepts(c, s, n) THEN c
    ELSE LET d == [c EXCEPT !.marker[s] = n, !.rows = Observe(c.rows, s, value)]
         IN  IF Needing(value) /\ ~Needing(c.rows[s]) THEN Opened(d, s, alert)
             ELSE IF value = Null /\ (Needing(c.rows[s]) \/ c.rows[s] = NoRow)
                  THEN Cleared(d, {s})
             ELSE d

\* commitDeletion.
CommitDeletion(c, s) ==
    LET d == [c EXCEPT !.tombstones = @ \cup {s}, !.rows[s] = NoRow, !.marker[s] = -1]
    IN  IF Needing(c.rows[s]) THEN Cleared(d, {s}) ELSE d

\* resetForEpochChange: what the retired daemon asked for is over.
ResetForEpoch(c, epoch) ==
    [Cleared(c, {s \in Sessions : Needing(c.rows[s])}
                \cup {s \in c.opened : c.rows[s] = NoRow})
       EXCEPT !.epoch = epoch,
              !.rows = [s \in Sessions |-> IF @[s] = NoRow THEN NoRow ELSE Unknown],
              !.marker = [s \in Sessions |-> -1],
              !.last = [s \in Sessions |-> -1]]

\* Mutant: the alerts are left to the transitions.
Reconciled_not(c) == c

\* NeedsInputAlerts looks again whenever the set of needing sessions changes: a
\* row known to be clear takes its alert down.
Reconciled(c) ==
    LET NeedingRows(rows) == {<<s, rows[s]>> : s \in {t \in Sessions : Needing(rows[t])}}
    IN  IF NeedingRows(c.rows) = NeedingRows(page.rows) THEN c
        ELSE [c EXCEPT !.raised = {s \in @ : c.rows[s] # Null}]

Becomes(c) == page' = Reconciled(c)

\* Mutant: a trigger that finds a fetch in flight is content with it.
Refreshed_coalesced(f) ==
    IF f.step # "idle" THEN f ELSE [f EXCEPT !.step = "asked"]

\* refreshPendingInputList.
Refreshed(f) ==
    IF f.step # "idle" THEN [f EXCEPT !.again = TRUE]
    ELSE [f EXCEPT !.step = "asked"]

NoFetch == [step |-> "idle", again |-> FALSE, answer |-> NoAnswer]

\* Mutant: the fetch that was asked for meanwhile is forgotten.
Finished_content(f) == NoFetch

\* The fetch has settled, one way or the other.
Finished(f) ==
    IF f.again THEN [NoFetch EXCEPT !.step = "asked"] ELSE NoFetch

\* streamCursor.
StreamCursor == Max({page.last[s] : s \in Sessions} \cup {-1})
-----------------------------------------------------------------------------
(* Its connection.                                                         *)

\* The bootstrap has heard the epoch from health: it fetches, and then attaches.
Open ==
    /\ page.epoch = 0
    /\ page' = [page EXCEPT !.epoch = daemon.epoch]
    /\ fetch' = Refreshed(fetch)
    /\ UNCHANGED <<daemon, list, detail, missed, read, lapsed, unseated, reads, faults>>

Disconnect ==
    /\ page.attached
    /\ Fault
    /\ page' = [page EXCEPT !.attached = FALSE]
    /\ UNCHANGED <<daemon, fetch, list, detail, missed, read, lapsed, unseated, reads>>

\* History: a list that covers the n-th event is in flight.
Covered(n) == fetch.step = "asked" \/ fetch.answer.sequence >= n

\* The transport connects again from its own cursor, or ("store") reconnect()
\* makes a new stream from the cursor of the store.  The events after the cursor
\* are replayed if they are retained.  A resync is noticed once on each stream
\* that reconnect() made.
Attach(store, retained) ==
    LET changed == page.epoch # daemon.epoch
        cursor == IF store \/ page.at = -1 THEN StreamCursor ELSE page.at
        resync == changed \/ ~retained \/ cursor = -1
        at == IF resync THEN LogHead ELSE cursor
        signals == store \/ page.signals
        c == [page EXCEPT !.attached = TRUE, !.at = at,
                          !.signals = signals /\ ~resync]
        skips == changed \/ at > page.at
        kept == IF changed \/ (skips /\ page.at # -1) THEN -1 ELSE read
        heard == changed \/ store \/ (resync /\ signals)
    IN  /\ page.epoch # 0 /\ ~page.attached
        /\ store => page.at # -1
        /\ Becomes(IF changed THEN ResetForEpoch(c, daemon.epoch) ELSE c)
        /\ fetch' = IF changed THEN Refreshed(NoFetch)
                    ELSE IF heard THEN Refreshed(fetch)
                    ELSE fetch
        /\ missed' = IF skips THEN at ELSE missed
        /\ read' = kept
        /\ lapsed' = (~heard /\ (lapsed \/ (skips /\ kept < at /\ ~Covered(at))))
        /\ UNCHANGED <<daemon, list, detail, unseated, reads, faults>>

Connect == Open \/ \E store, retained \in BOOLEAN : Attach(store, retained)

\* commitEvents, for the next event of the log.  An event that comes in one
\* batch with its session's deletion is skipped.
Receive ==
    LET n == page.at + 1
        e == Log[n]
        s == e.session
        c == [page EXCEPT !.at = n]
        d == [c EXCEPT !.last[s] = n]
    IN  /\ page.attached /\ page.at < LogHead
        /\ IF s \in page.tombstones \/ n <= page.last[s] THEN Becomes(c)
           ELSE IF e.kind = "deleted" THEN Becomes(CommitDeletion(d, s))
           ELSE \/ \E alert \in BOOLEAN : Becomes(ApplyInput(d, s, n, e.pending, alert))
                \/ /\ \E i \in n + 1 .. LogHead : Log[i] = Deleted(s)
                   /\ Becomes(c)
        /\ UNCHANGED OtherThanPage

\* session.snapshot, the first frame of a stream that starts anew: the summary of
\* one session as it was then.  No transition comes with it.
Snapshot(s) ==
    /\ page.attached
    /\ s \notin page.tombstones
    /\ s \in Gone => \E i \in page.at + 1 .. LogHead : Log[i] = Deleted(s)
    /\ Becomes(Sampled(page, s, page.at, AsOf(page.epoch, page.at, s)))
    /\ UNCHANGED OtherThanPage

\* The user opens the session or swipes its toast away.
DismissAlert(s) ==
    /\ s \in page.raised
    /\ page' = [page EXCEPT !.raised = @ \ {s}]
    /\ UNCHANGED OtherThanPage

\* Its own remove(), an INVALID_SESSION or the missed-deletion baseline tells it.
NoticeGone(s) ==
    /\ page.epoch # 0 /\ s \in Gone \ page.tombstones
    /\ Becomes(CommitDeletion(page, s))
    /\ UNCHANGED OtherThanPage
-----------------------------------------------------------------------------
(* Its reads.                                                              *)

\* sessions.pendingInput.
AnswerFetch ==
    /\ fetch.step = "asked"
    /\ fetch' = [fetch EXCEPT !.step = "answered", !.answer = Answer]
    /\ UNCHANGED <<daemon, page, list, detail, missed, read, lapsed, unseated>>
    /\ UNCHANGED <<reads, faults>>

\* applyPendingInputListToCatalog: the sessions it names need input, and a row
\* that needs input is clear when it is not named.
ApplyPendingList(c, answer) ==
    LET Named(s) == Needing(answer.pending[s])
        adopted == {s \in Sessions : /\ Named(s) \/ Needing(c.rows[s])
                                     /\ Accepts(c, s, answer.sequence)}
    IN  [c EXCEPT !.rows = [s \in Sessions |->
                              IF s \in adopted THEN answer.pending[s] ELSE @[s]],
                  !.marker = [s \in Sessions |->
                                IF s \in adopted THEN answer.sequence ELSE @[s]]]

CommitFetch ==
    /\ fetch.step = "answered"
    /\ LET answer == fetch.answer
           current == answer.epoch = page.epoch
       IN  /\ IF current THEN Becomes(ApplyPendingList(page, answer)) ELSE UNCHANGED page
           /\ read' = IF current THEN answer.sequence ELSE read
    /\ fetch' = Finished(fetch)
    /\ UNCHANGED <<daemon, list, detail, missed, lapsed, unseated, reads, faults>>

\* It keeps what it has, until the next trigger.
FailFetch ==
    /\ fetch.step # "idle"
    /\ Fault
    /\ fetch' = Finished(fetch)
    /\ lapsed' = (lapsed \/ ~fetch.again)
    /\ UNCHANGED <<daemon, page, list, detail, missed, read, unseated, reads>>

\* History: an answer from before the miss, or before the list was read when there
\* was no stream yet, that still changes a row, which it can where the fetch left
\* no marker, opens the miss again.
Reopens(answer, c) ==
    LET stale == /\ c.rows # page.rows
                 /\ answer.sequence < missed
                    \/ (page.at = -1 /\ answer.sequence < read)
    IN  /\ read' = IF stale THEN -1 ELSE read
        /\ lapsed' = (lapsed \/ stale)
        /\ UNCHANGED missed

\* refreshDirectoryCatalog: the rows as they are when it starts are its baseline.
AskList ==
    /\ page.epoch # 0
    /\ list.answer = NoAnswer
    /\ Read
    /\ list' = [answer |-> Answer, baseline |-> page.rows]
    /\ UNCHANGED <<daemon, page, fetch, detail, missed, read, lapsed, unseated, faults>>

NoList == [answer |-> NoAnswer, baseline |-> [s \in Sessions |-> NoRow]]

\* Mutant: the markers stay where they were.
ApplyList_forgetful(c, answer, baseline, adopting) ==
    LET removed == {s \in Sessions : s \in c.tombstones
                                     \/ (c.rows[s] = NoRow /\ baseline[s] # NoRow)}
        listed == Sessions \ (answer.gone \cup removed)
        dropped == {s \in answer.gone : c.rows[s] = baseline[s]}
        adopted == {s \in listed : adopting /\ Accepts(c, s, answer.sequence)}
    IN  [c EXCEPT !.rows = [s \in Sessions |->
                              IF s \in adopted THEN answer.pending[s]
                              ELSE IF s \in dropped THEN NoRow
                              ELSE IF s \in listed /\ @[s] = NoRow THEN Unknown
                              ELSE @[s]]]

\* applyDirectoryListWithReconciliation: a listed session has a row, one that the
\* page removed meanwhile stays removed, and a row that is not listed goes unless
\* it has changed since the listing began.  Its summaries are adopted by a page that
\* has a stream, if only one that connects again, or that attaches one next.
ApplyList(c, answer, baseline, adopting) ==
    LET removed == {s \in Sessions : s \in c.tombstones
                                     \/ (c.rows[s] = NoRow /\ baseline[s] # NoRow)}
        listed == Sessions \ (answer.gone \cup removed)
        dropped == {s \in answer.gone : c.rows[s] = baseline[s]}
        adopted == {s \in listed : adopting /\ Accepts(c, s, answer.sequence)}
    IN  [c EXCEPT !.rows = [s \in Sessions |->
                              IF s \in adopted THEN answer.pending[s]
                              ELSE IF s \in dropped THEN NoRow
                              ELSE IF s \in listed /\ @[s] = NoRow THEN Unknown
                              ELSE @[s]],
                  !.marker = [s \in Sessions |->
                                IF s \in adopted THEN answer.sequence ELSE @[s]]]

\* History: the rows that go while their alert is up.
Unseats(c) == {s \in page.raised : page.rows[s] # NoRow /\ c.rows[s] = NoRow}

\* Without a connection there may be such a stream or none.
CommitList ==
    /\ list.answer # NoAnswer
    /\ \E adopting \in BOOLEAN :
          LET answer == list.answer
              c == IF answer.epoch = page.epoch
                   THEN ApplyList(page, answer, list.baseline, adopting) ELSE page
          IN  /\ page.attached => adopting
              /\ Becomes(c) /\ Reopens(answer, c)
              /\ unseated' = unseated \cup Unseats(c)
    /\ list' = NoList
    /\ UNCHANGED <<daemon, fetch, detail, reads, faults>>

\* getSession.
AskDetail(s) ==
    /\ page.epoch # 0
    /\ detail.answer = NoAnswer
    /\ s \notin Gone \cup page.tombstones
    /\ Read
    /\ detail' = [session |-> s, answer |-> Answer]
    /\ UNCHANGED <<daemon, page, fetch, list, missed, read, lapsed, unseated, faults>>

NoDetail == [session |-> "none", answer |-> NoAnswer]

\* commitHydratedSession: the session's row exists from now on.
ApplyDetail(c, s, answer) ==
    [Sampled(c, s, answer.sequence, answer.pending[s])
        EXCEPT !.rows[s] = IF @ = NoRow THEN Unknown ELSE @]

CommitDetail ==
    /\ detail.answer # NoAnswer
    /\ LET s == detail.session
           answer == detail.answer
           c == IF s \in page.tombstones \/ answer.epoch # page.epoch
                THEN page ELSE ApplyDetail(page, s, answer)
       IN  Becomes(c) /\ Reopens(answer, c)
    /\ detail' = NoDetail
    /\ UNCHANGED <<daemon, fetch, list, unseated, reads, faults>>
-----------------------------------------------------------------------------
Init ==
    /\ daemon = [epoch |-> 1, log |-> [e \in Epochs |-> <<>>],
                 open |-> [s \in Sessions |-> {}],
                 phase |-> [s \in Sessions |-> "live"], left |-> MaxRequests]
    /\ page = [epoch |-> 0, attached |-> FALSE, at |-> -1, signals |-> FALSE,
               rows |-> [s \in Sessions |-> NoRow],
               marker |-> [s \in Sessions |-> -1], last |-> [s \in Sessions |-> -1],
               tombstones |-> {}, opened |-> {}, raised |-> {}]
    /\ fetch = NoFetch
    /\ list = NoList
    /\ detail = NoDetail
    /\ missed = 0
    /\ read = -1
    /\ lapsed = FALSE
    /\ unseated = {}
    /\ reads = 0
    /\ faults = 0

Next ==
    \/ \E s \in Sessions :
          \/ OpenRequest(s) \/ Settle(s) \/ Reload(s)
          \/ BeginClose(s) \/ EndClose(s)
          \/ Snapshot(s) \/ DismissAlert(s) \/ NoticeGone(s) \/ AskDetail(s)
    \/ Restart \/ Connect \/ Disconnect \/ Receive
    \/ AnswerFetch \/ CommitFetch \/ FailFetch
    \/ AskList \/ CommitList \/ CommitDetail

Spec == Init /\ [][Next]_vars

\* The page connects and connects again, frames arrive, and a read is answered
\* or fails.
Fairness ==
    /\ WF_vars(Connect)
    /\ WF_vars(Receive)
    /\ WF_vars(AnswerFetch \/ CommitFetch)

FairSpec == Spec /\ Fairness
-----------------------------------------------------------------------------
(* Properties.                                                             *)

Values == [count : -2 .. MaxRequests, since : 0 .. MaxRequests]

\* The state is of its type, and no marker or cursor of the page is ahead of its
\* daemon, which would make it refuse everything that is new.
TypeOK ==
    /\ daemon.epoch \in Epochs /\ daemon.left \in 0 .. MaxRequests
    /\ \A s \in Sessions :
          /\ daemon.open[s] \subseteq Requests
          /\ daemon.phase[s] \in {"live", "closing", "gone"}
          /\ page.rows[s] \in Values
          /\ {page.marker[s], page.last[s], page.at} \subseteq
                -1 .. IF page.epoch = 0 THEN -1 ELSE Len(daemon.log[page.epoch])
    /\ page.epoch \in 0 .. daemon.epoch
    /\ page.raised \cup page.opened \cup page.tombstones \cup unseated \subseteq Sessions
    /\ fetch.step \in {"idle", "asked", "answered"} /\ fetch.again \in BOOLEAN

\* Whichever source it came from and whatever overtook it, what a row says of its
\* session is what the daemon's index said at the sequence the row is marked with.
RowIsAsOf ==
    \A s \in Sessions :
        Known(page.rows[s]) =>
            /\ page.marker[s] >= 0
            /\ page.rows[s] = AsOf(page.epoch, page.marker[s], s)

CaughtUp == page.attached /\ page.at = LogHead /\ read >= missed

Shown(s) == IF Needing(page.rows[s]) THEN page.rows[s] ELSE Null

\* A page that has every event, or has read the list since it missed some, shows
\* exactly the sessions that wait for the user, reads in flight or not.
BadgesTrue ==
    CaughtUp => \A s \in Sessions \ page.tombstones : Shown(s) = Index(s)

\* What the page missed is being fetched, unless nothing told it of the miss or
\* the fetch failed.
MissIsFetched ==
    read < missed /\ page.attached => fetch.step # "idle" \/ lapsed

\* The alert of a session that does not wait any more, be it deleted, is taken down,
\* whether an event, a read or the deletion told the page, unless a listing without
\* the session took its row away first.
AlertsEnd ==
    CaughtUp => \A s \in page.raised \ unseated : Needing(Index(s))

\* A page with a signal catches up, again and again.
CatchesUp == []<>(CaughtUp \/ lapsed)

\* A committed deletion is final: no late answer brings the session back.
DeletedStaysDeleted ==
    \A s \in page.tombstones : page.rows[s] = NoRow

\* "So those toasts and OS notifications cannot linger forever": every alert whose
\* session does not wait any more is taken down.
DeletedAlertsEnd ==
    CaughtUp => \A s \in page.raised : Needing(Index(s))
=============================================================================
