---------------------------- MODULE QueuedDelivery ----------------------------
(***************************************************************************)
(* Queued follow-ups of one session, from the page that queued them to Pi. *)
(* A page keeps the queue in memory, persists it with a deferred write to  *)
(* storage that every page of the origin shares, and delivers an entry in  *)
(* one of two ways: the scanner sends the oldest one as a follow-up when   *)
(* the session's row says it is idle, or the user sends one now, as a      *)
(* steer.  An entry is marked with its attempt before anything can deliver *)
(* it, and the mark only goes when the outcome is certain.                 *)
(*                                                                         *)
(* The daemon keeps one receipt per kind, message and epoch (see           *)
(* SendOperations); a request can reach it after its page is gone.         *)
(*                                                                         *)
(* Messages are numbered in the order they are queued, so that a queue is  *)
(* the set of its messages: entries are appended and leave, no more.       *)
(***************************************************************************)
EXTENDS Naturals, Sequences, FiniteSets

CONSTANTS
    MaxMessages,  \* bound: messages queued
    Tabs,       \* pages of one origin
    MaxQueue,   \* MAX_MESSAGES_PER_QUEUE
    MayCrash,   \* may a page die before its deferred write?
    MaxEpoch,   \* bound: daemon lifetimes explored
    MaxInterventions  \* bound: times the user sends now or a page is loaded again

ASSUME QueueAssumption ==
    /\ MaxMessages \in Nat
    /\ MaxQueue \in Nat \ {0}
    /\ MaxEpoch \in Nat \ {0}
    /\ MaxInterventions \in Nat
    /\ MayCrash \in BOOLEAN

VARIABLES
    page,       \* per tab: queue store, sends in progress, catalog row
    disk,       \* the persisted queue
    daemon,     \* its epoch and whether the session's turn runs
    request,    \* what became of each send
    history     \* messages queued, run, taken back; interventions; lost writes

vars == <<page, disk, daemon, request, history>>

Messages == 1 .. MaxMessages
Epochs == 1 .. MaxEpoch
NoEpoch == 0
Kinds == {"followUp", "steer"}
NoAttempt == [kind |-> "none", epoch |-> NoEpoch]
NoCall == [step |-> "none", kind |-> "none", epoch |-> NoEpoch]

\* One send: the key of its receipt.
Sends == [message : Messages, kind : Kinds, epoch : Epochs]
Send(m, c) == [message |-> m, kind |-> c.kind, epoch |-> c.epoch]

Blank == [attempt |-> NoAttempt, failed |-> FALSE]
EmptyQueue == [queue |-> {}, entry |-> [m \in Messages |-> Blank]]

\* A page as it starts with what storage holds.
Loaded(stored) ==
    [queue |-> stored.queue, entry |-> stored.entry, dirty |-> FALSE,
     call |-> [m \in Messages |-> NoCall], epoch |-> NoEpoch, row |-> "unknown",
     pending |-> FALSE, news |-> FALSE]

Stored(p) == [queue |-> p.queue, entry |-> p.entry]

\* The row that an authoritative read or a lifecycle event gives.
TrueRow == IF daemon.busy THEN "busy" ELSE "idle"

-----------------------------------------------------------------------------
(* What a page does to its store. *)

\* Every set of the store schedules a write.
Sets(t, p) == page' = [page EXCEPT ![t] = [p EXCEPT !.dirty = TRUE]]
Only(t, p) == page' = [page EXCEPT ![t] = p]

\* claim and markDeliveryAttempt.
Attempted(p, m, kind) ==
    [p EXCEPT !.entry[m] = [attempt |-> [kind |-> kind, epoch |-> p.epoch], failed |-> FALSE],
              !.call[m] = [step |-> "marked", kind |-> kind, epoch |-> p.epoch]]

\* completeQueuedSend: only a confirmed acceptance removes an entry.
Completed(p, m) ==
    [p EXCEPT !.queue = @ \ {m}, !.entry[m] = Blank,
              !.call[m] = NoCall]

\* An uncertain outcome: the attempt stays with the entry.
Held(p, m) == [p EXCEPT !.call[m] = NoCall, !.pending = FALSE]

\* markSendFailed.
Rejected(p, m) ==
    [p EXCEPT !.call[m] = NoCall, !.pending = FALSE,
              !.entry[m] = [attempt |-> NoAttempt, failed |-> TRUE]]

Unattempted(p, m) == p.call[m] = NoCall /\ p.entry[m].attempt = NoAttempt

\* Mutant: the scanner passes over an entry whose delivery is uncertain.
Candidates_skipsHeld(p) ==
    {m \in p.queue :
        /\ Unattempted(p, m) /\ ~p.entry[m].failed
        /\ \A n \in p.queue : n < m => ~Unattempted(p, n) \/ p.entry[n].failed}

\* Mutant: a failed entry holds those behind it.
Candidates_behindFailed(p) ==
    {m \in p.queue : /\ Unattempted(p, m) /\ ~p.entry[m].failed
                     /\ \A n \in p.queue : m <= n}

\* getAutoSendCandidate: the oldest entry, but for failed ones; an entry being
\* sent or uncertain holds those behind it.
Candidates(p) ==
    {m \in p.queue :
        /\ Unattempted(p, m) /\ ~p.entry[m].failed
        /\ \A n \in p.queue : n < m => Unattempted(p, n) /\ p.entry[n].failed}

-----------------------------------------------------------------------------
(* The user and the scanner. *)

\* The bounded count of what the user does to a queue that would drain by itself.
Intervenes(loses) ==
    /\ history.interventions < MaxInterventions
    /\ history' = [history EXCEPT !.interventions = @ + 1, !.lost = @ \cup loses]

\* addToQueue: a new entry goes last.
Enqueue(t, m) ==
    /\ m = history.added + 1
    /\ Cardinality(page[t].queue) < MaxQueue
    /\ Sets(t, [page[t] EXCEPT !.queue = @ \cup {m}])
    /\ history' = [history EXCEPT !.added = m]
    /\ UNCHANGED <<disk, daemon, request>>

\* removeFromQueue, and popToInput, which hands the text back to the composer.
TakeBack(t, m) ==
    /\ m \in page[t].queue
    /\ page[t].call[m] = NoCall
    /\ Sets(t, Completed(page[t], m))
    /\ history' = [history EXCEPT !.removed = @ \cup {m}]
    /\ UNCHANGED <<disk, daemon, request>>

\* clearQueue: entries being sent or uncertain stay.
Clear(t) ==
    LET p       == page[t]
        dropped == {m \in p.queue : Unattempted(p, m)}
    IN  /\ dropped # {}
        /\ Sets(t, [p EXCEPT !.queue = @ \ dropped,
                             !.entry = [m \in Messages |->
                                          IF m \in dropped THEN Blank ELSE p.entry[m]]])
        /\ history' = [history EXCEPT !.removed = @ \cup dropped]
        /\ UNCHANGED <<disk, daemon, request>>

\* dispatchSessionQueue up to its await.
AutoSend(t) ==
    /\ page[t].row = "idle"
    /\ page[t].epoch # NoEpoch
    /\ \A m \in Messages : page[t].call[m].kind # "followUp"
    /\ \E m \in Candidates(page[t]) : Sets(t, Attempted(page[t], m, "followUp"))
    /\ UNCHANGED <<disk, daemon, request, history>>

\* Mutant: the claim does not look at a persisted attempt.
SendNow_anyEntry(t, m) ==
    /\ m \in page[t].queue
    /\ page[t].call[m] = NoCall
    /\ page[t].epoch # NoEpoch
    /\ Sets(t, [page[t] EXCEPT !.call[m] = [NoCall EXCEPT !.step = "claimed"]])
    /\ Intervenes({})
    /\ UNCHANGED <<disk, daemon, request>>

\* Send now claims the entry; a failed one may be claimed again.
SendNow(t, m) ==
    /\ m \in page[t].queue
    /\ Unattempted(page[t], m)
    /\ page[t].epoch # NoEpoch
    /\ Sets(t, [page[t] EXCEPT !.call[m] = [NoCall EXCEPT !.step = "claimed"]])
    /\ Intervenes({})
    /\ UNCHANGED <<disk, daemon, request>>

\* The composer gives up before it marks the attempt, or marks it.
Abandon(t, m) ==
    /\ page[t].call[m].step = "claimed"
    /\ Sets(t, [page[t] EXCEPT !.call[m] = NoCall])
    /\ UNCHANGED <<disk, daemon, request, history>>

MarkSteer(t, m) ==
    /\ page[t].call[m].step = "claimed"
    /\ Sets(t, Attempted(page[t], m, "steer"))
    /\ UNCHANGED <<disk, daemon, request, history>>

-----------------------------------------------------------------------------
(* The send. *)

\* prompt: the row turns busy before the request goes out, and the request only
\* goes out under the epoch of its attempt.
Post(t, m) ==
    LET p == page[t]
        c == p.call[m]
        s == Send(m, c)
        busy == [p EXCEPT !.row = IF @ = "unknown" THEN @ ELSE "busy", !.pending = TRUE]
    IN  /\ c.step = "marked"
        /\ \/ /\ c.epoch = p.epoch
              /\ Only(t, [busy EXCEPT !.call[m].step = "posted"])
              /\ request' = [request EXCEPT ![s] = IF @ \in {"none", "refused"} THEN "sent" ELSE @]
           \/ /\ c.epoch # p.epoch
              /\ Sets(t, Held(busy, m))
              /\ UNCHANGED request
        /\ UNCHANGED <<disk, daemon, history>>

\* The daemon claims the operation, or finds its epoch gone.
Receive(s) ==
    /\ request[s] = "sent"
    /\ request' = [request EXCEPT ![s] = IF s.epoch = daemon.epoch THEN "executing" ELSE "stale"]
    /\ UNCHANGED <<page, disk, daemon, history>>

\* Pi starts a turn with it or queues it behind the one that runs.
Run(s) ==
    /\ request[s] = "executing"
    /\ request' = [request EXCEPT ![s] = "accepted"]
    /\ daemon' = [daemon EXCEPT !.busy = TRUE]
    /\ page' = [t \in Tabs |-> [page[t] EXCEPT !.news = TRUE]]
    /\ history' = [history EXCEPT !.ran = Append(@, s)]
    /\ UNCHANGED disk

\* A refusal publishes nothing.
Refuse(s) ==
    /\ request[s] = "executing"
    /\ request' = [request EXCEPT ![s] = "refused"]
    /\ UNCHANGED <<page, disk, daemon, history>>

TurnEnds ==
    /\ daemon.busy
    /\ daemon' = [daemon EXCEPT !.busy = FALSE]
    /\ page' = [t \in Tabs |-> [page[t] EXCEPT !.news = TRUE]]
    /\ UNCHANGED <<disk, request, history>>

\* A new daemon: its turn, its receipts and its events are gone.
Restart ==
    /\ daemon.epoch < MaxEpoch
    /\ daemon' = [epoch |-> daemon.epoch + 1, busy |-> FALSE]
    /\ request' = [s \in Sends |-> IF request[s] \in {"executing", "accepted", "refused"}
                                   THEN "gone" ELSE request[s]]
    /\ page' = [t \in Tabs |-> [page[t] EXCEPT !.news = FALSE]]
    /\ UNCHANGED <<disk, history>>

\* The page's handling of a send whose outcome it learns.
Answered(p, m, outcome) ==
    CASE outcome = "accepted" /\ p.call[m].epoch = p.epoch -> Completed(p, m)
      [] outcome = "refused" -> Rejected(p, m)
      [] OTHER -> Held(p, m)

Answer(t, m) ==
    LET outcome == request[Send(m, page[t].call[m])]
    IN  /\ page[t].call[m].step = "posted"
        /\ outcome \in {"accepted", "refused", "stale"}
        /\ Sets(t, Answered(page[t], m, outcome))
        /\ UNCHANGED <<disk, daemon, request, history>>

\* The response is lost, late, or an error that says nothing of the outcome.
LoseAnswer(t, m) ==
    /\ page[t].call[m].step = "posted"
    /\ Only(t, [page[t] EXCEPT !.call[m].step = "lookup"])
    /\ UNCHANGED <<disk, daemon, request, history>>

\* The receipt lookup of sendWithReceipt; failing it leaves the send uncertain.
Lookup(t, m) ==
    LET s == Send(m, page[t].call[m])
    IN  /\ page[t].call[m].step = "lookup"
        /\ \/ request[s] = "accepted" /\ Sets(t, Answered(page[t], m, "accepted"))
           \/ Sets(t, Held(page[t], m))
        /\ UNCHANGED <<disk, daemon, request, history>>

\* Mutant: any receipt is taken for an acceptance.
Check_anyReceipt(t, m) ==
    LET a == page[t].entry[m].attempt
    IN  /\ m \in page[t].queue
        /\ page[t].call[m] = NoCall
        /\ a # NoAttempt /\ a.epoch = page[t].epoch
        /\ request[Send(m, a)] # "none"
        /\ Sets(t, Completed(page[t], m))
        /\ UNCHANGED <<disk, daemon, request, history>>

\* Check status: only an accepted receipt removes the entry.
Check(t, m) ==
    LET a == page[t].entry[m].attempt
    IN  /\ m \in page[t].queue
        /\ page[t].call[m] = NoCall
        /\ a # NoAttempt /\ a.epoch = page[t].epoch
        /\ request[Send(m, a)] = "accepted"
        /\ Sets(t, Completed(page[t], m))
        /\ UNCHANGED <<disk, daemon, request, history>>

-----------------------------------------------------------------------------
(* The page's view of the session, and its storage. *)

\* A health probe verifies the live epoch; what ran on the old one has ended.
ObserveEpoch(t) ==
    /\ page[t].epoch # daemon.epoch
    /\ Only(t, [page[t] EXCEPT !.epoch = daemon.epoch,
                  !.row = IF @ = "busy" /\ ~page[t].pending THEN "idle" ELSE @])
    /\ UNCHANGED <<disk, daemon, request, history>>

\* A lifecycle event of the session arrives.
HearNews(t) ==
    /\ page[t].news
    /\ Only(t, [page[t] EXCEPT !.news = FALSE, !.pending = FALSE,
                               !.row = IF @ = "unknown" THEN @ ELSE TrueRow])
    /\ UNCHANGED <<disk, daemon, request, history>>

\* The scanner demands the state of a session it knows nothing of.
Hydrate(t) ==
    /\ page[t].row = "unknown"
    /\ page[t].queue # {}
    /\ Only(t, [page[t] EXCEPT !.row = TrueRow])
    /\ UNCHANGED <<disk, daemon, request, history>>

\* Any later list or detail read; a prompt still being sent owns its row.
Refresh(t) ==
    /\ page[t].row \in {"idle", "busy"} /\ page[t].row # TrueRow
    /\ \A m \in Messages : page[t].call[m].step \notin {"posted", "lookup"}
    /\ Only(t, [page[t] EXCEPT !.row = TrueRow, !.pending = FALSE])
    /\ UNCHANGED <<disk, daemon, request, history>>

Flush(t) ==
    /\ page[t].dirty
    /\ disk' = Stored(page[t])
    /\ Only(t, [page[t] EXCEPT !.dirty = FALSE])
    /\ UNCHANGED <<daemon, request, history>>

\* A page goes away, writing what is deferred, and comes back.
Reload(t) ==
    LET stored == IF page[t].dirty THEN Stored(page[t]) ELSE disk
    IN  /\ Intervenes({})
        /\ disk' = stored
        /\ Only(t, Loaded(stored))
        /\ UNCHANGED <<daemon, request>>

\* What storage does not hold as the page does.
Unwritten(t) ==
    {m \in Messages : \/ page[t].entry[m] # disk.entry[m]
                      \/ (m \in page[t].queue) # (m \in disk.queue)}

\* It dies with a write deferred.
Crash(t) ==
    /\ MayCrash
    /\ page[t].dirty
    /\ Only(t, Loaded(disk))
    /\ Intervenes(Unwritten(t))
    /\ UNCHANGED <<disk, daemon, request>>

-----------------------------------------------------------------------------
Init ==
    /\ disk = EmptyQueue
    /\ page = [t \in Tabs |-> Loaded(EmptyQueue)]
    /\ daemon \in [epoch : {1}, busy : BOOLEAN]
    /\ request = [s \in Sends |-> "none"]
    /\ history = [added |-> 0, removed |-> {}, ran |-> <<>>,
                  interventions |-> 0, lost |-> {}]

User(t, m) ==
    \/ Enqueue(t, m)
    \/ TakeBack(t, m)
    \/ SendNow(t, m)
    \/ Abandon(t, m)
    \/ Check(t, m)

Deliver(t, m) ==
    \/ MarkSteer(t, m)
    \/ Post(t, m)
    \/ Answer(t, m)
    \/ LoseAnswer(t, m)
    \/ Lookup(t, m)

Next ==
    \/ \E t \in Tabs, m \in Messages : User(t, m) \/ Deliver(t, m)
    \/ \E t \in Tabs :
          \/ AutoSend(t)
          \/ Clear(t)
          \/ ObserveEpoch(t)
          \/ HearNews(t)
          \/ Hydrate(t)
          \/ Refresh(t)
          \/ Flush(t)
          \/ Reload(t)
          \/ Crash(t)
    \/ \E s \in Sends : Receive(s) \/ Run(s) \/ Refuse(s)
    \/ TurnEnds
    \/ Restart

Spec == Init /\ [][Next]_vars

\* The scanner runs again at every change of the store or the catalog, so no
\* sequence of changes starves it; the awaits of a send settle, events and health
\* probes arrive, and turns end.
Fairness ==
    /\ \A t \in Tabs :
          /\ SF_vars(AutoSend(t))
          /\ WF_vars(ObserveEpoch(t))
          /\ WF_vars(HearNews(t))
          /\ WF_vars(Hydrate(t))
          /\ \A m \in Messages :
                /\ WF_vars(Abandon(t, m) \/ Deliver(t, m))
    /\ \A s \in Sends : WF_vars(Receive(s)) /\ WF_vars(Run(s) \/ Refuse(s))
    /\ WF_vars(TurnEnds)

FairSpec == Spec /\ Fairness
-----------------------------------------------------------------------------
(* Properties. *)

Attempts == [kind : Kinds, epoch : Epochs] \cup {NoAttempt}
Calls == [step : {"claimed"}, kind : {"none"}, epoch : {NoEpoch}]
         \cup [step : {"marked", "posted", "lookup"}, kind : Kinds, epoch : Epochs]
         \cup {NoCall}
Entries == [Messages -> [attempt : Attempts, failed : BOOLEAN]]

\* An entry that is being sent is in the queue and carries its attempt, and a
\* failed entry carries none.
TypeOK ==
    /\ disk.queue \subseteq 1 .. history.added /\ disk.entry \in Entries
    /\ daemon \in [epoch : Epochs, busy : BOOLEAN]
    /\ request \in [Sends -> {"none", "sent", "executing", "accepted", "refused",
                              "stale", "gone"}]
    /\ history.added \in 0 .. MaxMessages /\ history.removed \subseteq 1 .. history.added
    /\ history.ran \in Seq(Sends)
    /\ \A t \in Tabs :
          /\ page[t].queue \subseteq 1 .. history.added
          /\ page[t].entry \in Entries /\ page[t].call \in [Messages -> Calls]
          /\ page[t].epoch \in Epochs \cup {NoEpoch}
          /\ page[t].row \in {"unknown", "idle", "busy"}
          /\ \A m \in Messages :
                /\ page[t].call[m].step \in {"marked", "posted", "lookup"} =>
                      /\ m \in page[t].queue
                      /\ page[t].entry[m].attempt = [kind |-> page[t].call[m].kind,
                                                     epoch |-> page[t].call[m].epoch]
                /\ page[t].entry[m].failed => page[t].entry[m].attempt = NoAttempt

RunsOf(m) == {i \in DOMAIN history.ran : history.ran[i].message = m}

\* "the same follow-up is never delivered twice": through lost answers, reloads
\* and daemon restarts, by whichever of the two ways, no message runs twice
\* unless a page died before it had written what it last did to its entry.
NeverDeliveredTwice ==
    \A m \in Messages \ history.lost : \A i, j \in RunsOf(m) : i = j

\* No message is lost: until Pi ran it or the user took it back, it is in the
\* queue of its page.
NothingDropped ==
    \A m \in (1 .. history.added) \ history.lost :
        \/ m \in history.removed
        \/ RunsOf(m) # {}
        \/ \E t \in Tabs : m \in page[t].queue

\* Follow-ups that the scanner sent run in the order they were queued, whichever
\* answers were lost in between.
FollowUpsInOrder ==
    \A i, j \in DOMAIN history.ran :
        LET a == history.ran[i]
            b == history.ran[j]
        IN  /\ i < j /\ a.kind = "followUp" /\ b.kind = "followUp"
            /\ b.message \notin history.removed \cup history.lost
            => a.message < b.message

\* It left the queue, is shown as failed, or waits behind an uncertain delivery.
Settled(t, m) ==
    \/ m \notin page[t].queue
    \/ page[t].entry[m].failed
    \/ \E n \in page[t].queue : /\ page[t].entry[n].attempt # NoAttempt
                                  /\ page[t].call[n] = NoCall

\* The page takes the session for busy when it is not, and no event will tell:
\* a send that failed leaves the row so (the catch of prompt).
Misled(t) == page[t].row = "busy" /\ ~daemon.busy /\ ~page[t].news

\* A queued message does not wait for ever: it settles, unless from some moment
\* on its page is misled for good.
EntrySettles ==
    \A t \in Tabs, m \in Messages :
        m \in page[t].queue ~> (Settled(t, m) \/ []Misled(t))

\* What messageQueueStore.ts:81 says of a failed entry, that it "never blocks
\* later unrelated entries", comes to this without the exception.  It does not
\* hold: nothing is bound to read the row again.
NeverBlocked ==
    \A t \in Tabs, m \in Messages : m \in page[t].queue ~> Settled(t, m)

=============================================================================
