---------------------------- MODULE PiEventStream ----------------------------
(***************************************************************************)
(* One client stream (createPiEventStream in transport.ts) of a daemon's   *)
(* event broadcast, across lost connections and daemon restarts.           *)
(*                                                                         *)
(* The daemon numbers its events anew in every lifetime, named by a random *)
(* stream epoch.  The stream resumes with a cursor and the epoch it was    *)
(* taken under; a frame of another epoch is believed only after a health   *)
(* probe of the live daemon, and frames that arrive meanwhile are dropped. *)
(*                                                                         *)
(* `owner` is what the stream has told its owner: the epoch it announced,  *)
(* the frames delivered under it, and the sequence number `base` up to     *)
(* which the owner was told to rebuild its state from reads.  Epochs are   *)
(* opaque to the client, which only compares them; they grow here so that  *)
(* properties can order lifetimes.                                         *)
(***************************************************************************)
EXTENDS ReplayLog, Sequences, FiniteSets

CONSTANTS
    MaxEpoch        \* daemon lifetimes explored

ASSUME StreamAssumption == MaxEpoch \in Nat \ {0}

VARIABLES
    epoch,      \* the live daemon's streamEpoch
    activity,   \* what its snapshots describe: no session ("none") or one ("held")
    wire,       \* the connection: its subscription, its frames in flight
    stream,     \* the closure state of createPiEventStream
    owner       \* what the owner has been told

vars == <<sequence, retained, broadcast, epoch, activity, wire, stream, owner>>

Epochs == 1 .. MaxEpoch
NoEpoch == 0
NoSequence == -1        \* `lastSequence === undefined`

Frame == [kind : {"event", "snapshot", "resync"},
          epoch : Epochs, sequence : 1 .. MaxSequence]
NoFrame == [kind |-> "none", epoch |-> NoEpoch, sequence |-> 0]

\* Answers of GET /api/pi/runtime; "failed" is unavailable or timed out.
Health == [state : {"ready"}, epoch : Epochs]
          \cup [state : {"pending", "failed", "unauthorized"}, epoch : {NoEpoch}]
NoHealth == [state |-> "pending", epoch |-> NoEpoch]

NoWire == [open |-> FALSE, ready |-> FALSE, attached |-> FALSE, ended |-> FALSE,
           cursor |-> NoSequence, epoch |-> NoEpoch, frames |-> <<>>,
           untold |-> FALSE]
NoProbe == [kind |-> "none", frame |-> NoFrame, reference |-> NoEpoch,
            current |-> FALSE, health |-> NoHealth]
NoPending == [frame |-> NoFrame, current |-> FALSE]

-----------------------------------------------------------------------------
(* The daemon. *)

\* publish: every open subscription of this daemon gets the frame.
DeliverToWire(frame) ==
    wire' = IF wire.attached /\ ~wire.ended
            THEN [wire EXCEPT !.frames = Append(@, frame)]
            ELSE wire

EventFrame(n) == [kind |-> "event", epoch |-> epoch, sequence |-> n]

\* An event names its session, which need not be the active one: a stored
\* session is deleted or renamed on a daemon that has opened none.
Publish ==
    /\ Broadcast
    /\ DeliverToWire(EventFrame(sequence + 1))
    /\ UNCHANGED <<epoch, activity, stream, owner>>

\* A snapshot written to some other subscriber.
PrivateSnapshot ==
    /\ NumberSnapshot
    /\ UNCHANGED <<epoch, activity, wire, stream, owner>>

\* A session is opened or created: it becomes the daemon's active one.
Activate ==
    /\ activity # "held"
    /\ activity' = "held"
    /\ UNCHANGED <<sequence, retained, broadcast, epoch, wire, stream, owner>>

\* The active session is deleted, or its runtime idles out before its file ever
\* existed: the daemon forgets it and publishes session.deleted.
Forget ==
    /\ activity = "held"
    /\ activity' = "none"
    /\ Broadcast
    /\ DeliverToWire(EventFrame(sequence + 1))
    /\ UNCHANGED <<epoch, stream, owner>>

\* The daemon process is replaced: a new epoch, an empty log, and every
\* subscription of the old process ends once its frames have been read.
Restart ==
    /\ epoch < MaxEpoch
    /\ epoch' = epoch + 1
    /\ sequence' = 0
    /\ retained' = {}
    /\ broadcast' = {}
    /\ activity' = "none"
    /\ wire' = [wire EXCEPT !.ended = wire.attached]
    /\ UNCHANGED <<stream, owner>>

\* The frame a subscriber that cannot be replayed gets: a private snapshot of
\* the active session, which the HTTP projection drops when there is none.
AttachSnapshot(resync) ==
    IF activity = "held"
    THEN <<[kind |-> IF resync THEN "resync" ELSE "snapshot",
            epoch |-> epoch, sequence |-> sequence + 1]>>
    ELSE <<>>

\* The one way to put a set of events in order.
InOrder(events) ==
    {q \in [1 .. Cardinality(events) -> events] :
        \A i, j \in DOMAIN q : i < j => q[i] < q[j]}

\* `untold` remembers an answer that the projection dropped: the subscriber is
\* attached and healthy, and nothing tells it whether its cursor was served.
Attached(frames, untold) ==
    wire' = [wire EXCEPT !.attached = TRUE, !.frames = @ \o frames,
                         !.untold = untold]

Replay ==
    /\ \E missed \in InOrder(EventsAfter(wire.cursor)) :
          Attached([i \in DOMAIN missed |-> EventFrame(missed[i])], FALSE)
    /\ UNCHANGED <<sequence, retained, broadcast>>

\* Mutant: the snapshot does not say that the cursor was not served.
Attach_plainSnapshot ==
    /\ wire.open /\ ~wire.attached
    /\ LET replay == /\ wire.cursor # NoSequence /\ wire.epoch = epoch
                     /\ CanReplayFrom(wire.cursor)
       IN  \/ replay /\ Replay
           \/ /\ ~replay
              /\ NumberSnapshot
              /\ Attached(AttachSnapshot(FALSE), activity = "none")
    /\ UNCHANGED <<epoch, activity, stream, owner>>

\* The daemon answers a subscription: it replays the events after the cursor,
\* or writes a snapshot that tells a cursor it was not served.
Attach ==
    /\ wire.open /\ ~wire.attached
    /\ LET known  == wire.cursor # NoSequence
           resync == known \/ wire.epoch \notin {NoEpoch, epoch}
           replay == known /\ wire.epoch = epoch /\ CanReplayFrom(wire.cursor)
       IN  \/ replay /\ Replay
           \/ /\ ~replay
              /\ NumberSnapshot
              /\ Attached(AttachSnapshot(resync), activity = "none")
    /\ UNCHANGED <<epoch, activity, stream, owner>>
-----------------------------------------------------------------------------
(* The stream's handlers, as functions of c = [s |-> stream, o |-> owner]. *)

Reference(s) == IF s.currentEpoch # NoEpoch THEN s.currentEpoch ELSE s.ownerEpoch

MaxOf(a, b) == IF a > b THEN a ELSE b

\* invalidateConnection: no callback of the old connection is current any more.
Invalidate(c, phase) ==
    [c EXCEPT !.s.phase = phase, !.s.probe.current = FALSE,
              !.s.pending.current = FALSE, !.s.deferred = FALSE]

\* onEpochChange(e): the owner drops what it knows and reads again from now on.
Announce(c, e) ==
    [c EXCEPT !.o = [epoch |-> e, delivered |-> <<>>,
                     base |-> IF e = epoch THEN sequence ELSE 0]]

\* The tail of handleEvent.  A resync snapshot has the owner read again.
Deliver(c, f) ==
    [c EXCEPT !.s.lastSequence = MaxOf(@, f.sequence),
              !.o.delivered = Append(@, f),
              !.o.base = IF f.kind = "resync" THEN MaxOf(@, f.sequence) ELSE @]

Probe(c, kind, f) ==
    [c EXCEPT !.s.probe = [kind |-> kind, frame |-> f, current |-> TRUE,
                           reference |-> Reference(c.s), health |-> NoHealth]]

\* Mutant: a frame of another epoch is adopted on sight.
HandleEvent_trustsFrame(c, f) ==
    IF f.epoch = c.s.currentEpoch THEN Deliver(c, f)
    ELSE Deliver([Announce(c, f.epoch) EXCEPT !.s.currentEpoch = f.epoch], f)

\* Mutant: a foreign frame is delivered while it is being verified.
HandleEvent_deliversForeign(c, f) ==
    LET reference == Reference(c.s)
    IN  CASE f.epoch = c.s.currentEpoch -> Deliver(c, f)
          [] f.epoch # c.s.currentEpoch /\ f.epoch \in c.s.retired -> c
          [] f.epoch # c.s.currentEpoch /\ f.epoch \notin c.s.retired
             /\ reference \in {NoEpoch, f.epoch} ->
                Deliver([IF reference = NoEpoch THEN Announce(c, f.epoch) ELSE c
                         EXCEPT !.s.currentEpoch = f.epoch], f)
          [] OTHER ->
                IF c.s.probe.kind = "none" THEN Deliver(Probe(c, "foreign", f), f)
                ELSE Deliver(c, f)

\* handleEvent: the frame is delivered when its epoch is the stream's or the
\* first one seen; a foreign epoch waits for a probe, a retired one is dropped.
HandleEvent(c, f) ==
    LET reference == Reference(c.s)
    IN  CASE f.epoch = c.s.currentEpoch -> Deliver(c, f)
          [] f.epoch # c.s.currentEpoch /\ f.epoch \in c.s.retired -> c
          [] f.epoch # c.s.currentEpoch /\ f.epoch \notin c.s.retired
             /\ reference \in {NoEpoch, f.epoch} ->
                Deliver([IF reference = NoEpoch THEN Announce(c, f.epoch) ELSE c
                         EXCEPT !.s.currentEpoch = f.epoch], f)
          [] OTHER ->
                IF c.s.probe.kind = "none" THEN Probe(c, "foreign", f)
                ELSE IF c.s.pending.frame # NoFrame THEN c
                ELSE [c EXCEPT !.s.pending = [frame |-> f, current |-> TRUE]]

\* verifyEpochAfterResubscribe, up to its await.
VerifyAfterResubscribe(c) ==
    CASE Reference(c.s) = NoEpoch -> c
      [] Reference(c.s) # NoEpoch /\ c.s.probe.kind # "none" ->
            [c EXCEPT !.s.deferred = TRUE]
      [] OTHER -> Probe(c, "resubscribe", NoFrame)

RunDeferred(c) ==
    IF c.s.deferred
    THEN VerifyAfterResubscribe([c EXCEPT !.s.deferred = FALSE])
    ELSE c

Adopt(c, e, cursor) ==
    Announce([c EXCEPT !.s.retired = @ \cup {c.s.probe.reference},
                       !.s.currentEpoch = e, !.s.lastSequence = cursor], e)

Retire(c, e) == [c EXCEPT !.s.retired = @ \cup {e}]

\* Mutant: any healthy daemon confirms the frame's epoch.
ForeignVerdict_anyHealthy(c) ==
    LET probe == c.s.probe
    IN  CASE ~probe.current -> c
          [] probe.current /\ probe.health.state = "ready" ->
                Deliver(Adopt(c, probe.frame.epoch, probe.frame.sequence), probe.frame)
          [] OTHER -> Invalidate(c, "backoff")

\* Mutant: an unconfirmed frame is dropped and the connection kept.
ForeignVerdict_keepsConnection(c) ==
    LET probe == c.s.probe
    IN  CASE ~probe.current -> c
          [] probe.current /\ probe.health.state = "ready" ->
                IF probe.health.epoch = probe.frame.epoch
                THEN Deliver(Adopt(c, probe.frame.epoch, probe.frame.sequence), probe.frame)
                ELSE Retire(c, probe.frame.epoch)
          [] OTHER -> c

\* The try block of verifyForeignEpoch after its await.
ForeignVerdict(c) ==
    LET probe == c.s.probe
    IN  CASE ~probe.current -> c
          [] probe.current /\ probe.health.state = "ready" ->
                IF probe.health.epoch = probe.frame.epoch
                THEN Deliver(Adopt(c, probe.frame.epoch, probe.frame.sequence), probe.frame)
                ELSE Retire(c, probe.frame.epoch)
          [] probe.current /\ probe.health.state = "unauthorized" ->
                Invalidate(c, "stopped")
          [] OTHER -> Invalidate(c, "backoff")

\* Mutant: the cursor of the retired lifetime is kept.
ResubscribeVerdict_keepsCursor(c) ==
    LET probe == c.s.probe
    IN  IF /\ probe.current /\ probe.health.state = "ready"
           /\ probe.health.epoch \notin {probe.reference} \cup c.s.retired
        THEN Adopt(c, probe.health.epoch, c.s.lastSequence)
        ELSE c

\* The try block of verifyEpochAfterResubscribe after its await.
ResubscribeVerdict(c) ==
    LET probe == c.s.probe
    IN  IF /\ probe.current /\ probe.health.state = "ready"
           /\ probe.health.epoch \notin {probe.reference} \cup c.s.retired
           /\ Reference(c.s) = probe.reference
        THEN Adopt(c, probe.health.epoch, NoSequence)
        ELSE c

ProbeDone(c) == [c EXCEPT !.s.probe = NoProbe, !.s.pending = NoPending]

ForeignProbeEnds(c) == RunDeferred(ProbeDone(ForeignVerdict(c)))

\* The resubscribe probe hands on the foreign frame it held back.
ResubscribeProbeEnds(c) ==
    LET held == c.s.pending
        done == ProbeDone(ResubscribeVerdict(c))
    IN  RunDeferred(IF held.current THEN HandleEvent(done, held.frame) ELSE done)

\* markReady: the response headers of a connection have arrived.
MarkReady(c) ==
    LET probed == IF c.s.hasBeenReady THEN VerifyAfterResubscribe(c) ELSE c
    IN  [probed EXCEPT !.s.hasBeenReady = TRUE]
-----------------------------------------------------------------------------
(* The stream's steps. *)

Client == [s |-> stream, o |-> owner]

\* A handler's outcome; a disconnect closes the connection.
Becomes(c, connection) ==
    /\ stream' = c.s
    /\ owner' = c.o
    /\ wire' = IF c.s.phase = "open" THEN connection ELSE NoWire
    /\ UNCHANGED <<sequence, retained, broadcast, epoch, activity>>

\* connect: a new connection, subscribed with the cursor and its epoch.
Connect ==
    /\ stream.phase = "backoff"
    /\ Becomes([Client EXCEPT !.s.phase = "open"],
               [NoWire EXCEPT !.open = TRUE, !.cursor = stream.lastSequence,
                              !.epoch = Reference(stream)])

\* handleDisconnect for any reason but authorization: a closed, refused or
\* silent connection, server backpressure, reconnect() or a system resume.
\* Frames still in flight are lost.
Disconnect ==
    /\ stream.phase = "open"
    /\ Becomes(Invalidate(Client, "backoff"), NoWire)

\* The server answered 401 or 403: only reconnect() tries again.
AuthorizationLost ==
    /\ stream.phase = "open"
    /\ Becomes(Invalidate(Client, "stopped"), NoWire)

Reconnect ==
    /\ stream.phase = "stopped"
    /\ Becomes(Invalidate(Client, "backoff"), NoWire)

Dispose ==
    /\ stream.phase # "disposed"
    /\ Becomes(Invalidate(Client, "disposed"), NoWire)

ConnectionReady ==
    /\ stream.phase = "open"
    /\ ~wire.ready
    /\ Becomes(MarkReady(Client), [wire EXCEPT !.ready = TRUE])

Receive ==
    /\ stream.phase = "open"
    /\ wire.ready
    /\ wire.frames # <<>>
    /\ Becomes(HandleEvent(Client, Head(wire.frames)),
               [wire EXCEPT !.frames = Tail(@)])

\* The health endpoint answers for the daemon that is live at that moment.
ProbeAnswered ==
    /\ stream.probe.kind # "none"
    /\ stream.probe.health = NoHealth
    /\ \E answer \in {[state |-> "ready", epoch |-> epoch]}
                     \cup [state : {"failed", "unauthorized"}, epoch : {NoEpoch}] :
          Becomes([Client EXCEPT !.s.probe.health = answer], wire)

ProbeSettles ==
    /\ stream.probe.health # NoHealth
    /\ \/ /\ stream.probe.kind = "foreign"
          /\ Becomes(ForeignProbeEnds(Client), wire)
       \/ /\ stream.probe.kind = "resubscribe"
          /\ Becomes(ResubscribeProbeEnds(Client), wire)

\* The owner health-verified epoch 1 at its head, or knows nothing yet.
Init ==
    /\ LogInit
    /\ epoch = 1
    /\ activity = "none"
    /\ wire = NoWire
    /\ \E known \in {NoEpoch, 1} :
          /\ stream = [phase |-> "backoff", currentEpoch |-> NoEpoch,
                       ownerEpoch |-> known, hasBeenReady |-> FALSE,
                       lastSequence |-> IF known = NoEpoch THEN NoSequence ELSE 0,
                       retired |-> {}, probe |-> NoProbe, pending |-> NoPending,
                       deferred |-> FALSE]
          /\ owner = [epoch |-> known, base |-> 0, delivered |-> <<>>]

Daemon ==
    \/ Publish
    \/ PrivateSnapshot
    \/ Activate
    \/ Forget
    \/ Restart
    \/ Attach

Next ==
    \/ Daemon
    \/ Connect
    \/ Disconnect
    \/ AuthorizationLost
    \/ Reconnect
    \/ Dispose
    \/ ConnectionReady
    \/ Receive
    \/ ProbeAnswered
    \/ ProbeSettles

Spec == Init /\ [][Next]_vars

\* Every promise handler runs, and a probe answers or times out.
Fairness == WF_vars(Receive \/ ProbeAnswered \/ ProbeSettles)

FairSpec == Spec /\ Fairness
-----------------------------------------------------------------------------
(* Properties. *)

Wires ==
    [open : BOOLEAN, ready : BOOLEAN, attached : BOOLEAN, ended : BOOLEAN,
     untold : BOOLEAN, cursor : -1 .. MaxSequence, epoch : 0 .. MaxEpoch,
     frames : Seq(Frame)]

Probes ==
    [kind : {"none", "foreign", "resubscribe"}, frame : Frame \cup {NoFrame},
     reference : 0 .. MaxEpoch, current : BOOLEAN, health : Health]

Streams ==
    [phase : {"backoff", "open", "stopped", "disposed"},
     currentEpoch : 0 .. MaxEpoch, ownerEpoch : 0 .. MaxEpoch,
     hasBeenReady : BOOLEAN, lastSequence : -1 .. MaxSequence,
     retired : SUBSET Epochs, deferred : BOOLEAN, probe : Probes,
     pending : [frame : Frame \cup {NoFrame}, current : BOOLEAN]]

Owners ==
    [epoch : 0 .. MaxEpoch, base : 0 .. MaxSequence, delivered : Seq(Frame)]

TypeOK ==
    /\ sequence \in 0 .. MaxSequence
    /\ retained \subseteq broadcast
    /\ broadcast \subseteq 1 .. sequence
    /\ epoch \in Epochs
    /\ activity \in {"none", "held"}
    /\ wire \in Wires /\ stream \in Streams /\ owner \in Owners
    /\ wire.open = (stream.phase = "open")

\* The cursor always belongs to the lifetime it will be sent with: it never
\* runs ahead of that daemon's counter, and it is never sent without an epoch,
\* which the daemon would refuse.
CursorBelongsToItsEpoch ==
    /\ Reference(stream) = epoch => stream.lastSequence <= sequence
    /\ wire.cursor # NoSequence => wire.epoch # NoEpoch

\* The live daemon's epoch is never retired, whatever the probes raced with:
\* if it were, every later frame would be dropped for good.
LiveEpochNeverRetired == epoch \notin stream.retired

\* The owner only gets frames of the lifetime last announced to it, each once
\* and in the daemon's order.
DeliveredInOrder ==
    /\ \A i \in 1 .. Len(owner.delivered) : owner.delivered[i].epoch = owner.epoch
    /\ \A i, j \in 1 .. Len(owner.delivered) :
          i < j => owner.delivered[i].sequence < owner.delivered[j].sequence

\* A stream that moved to a newer lifetime never goes back to an older one.
EpochMovesForward == [][stream'.currentEpoch >= stream.currentEpoch]_vars

\* Events the cursor has passed that were neither delivered nor covered by a
\* signal to read again.
Lost ==
    IF owner.epoch # epoch THEN {}
    ELSE {e \in broadcast :
            /\ owner.base < e /\ e <= stream.lastSequence
            /\ \A i \in 1 .. Len(owner.delivered) : owner.delivered[i].sequence # e}

\* The documented guarantee (session-daemon/DOCUMENTATION.md: a reconnect
\* replays the missed suffix or gets an authoritative snapshot): the cursor
\* never passes an event its owner neither got nor was told to read again.
NoSilentLoss == Lost = {}

\* What every resumed connection would then be promised.  It does not hold: a
\* daemon without an active session answers with a snapshot that never arrives.
ResumeNeverLoses == [][Lost' \subseteq Lost \/ wire.cursor = NoSequence]_vars

\* The part of it the code keeps: a connection that subscribed with a cursor
\* never loses an event, whatever is lost on the way, restarts meanwhile or
\* waits for a probe, unless the very answer to its subscription was dropped.
ResumedCursorLosesNothing ==
    [][Lost' \subseteq Lost \/ wire.cursor = NoSequence \/ wire.untold]_vars

\* A frame of another lifetime is never left unresolved: the stream moves to
\* it, retires it, or drops the connection to start over.
ForeignFrameResolved ==
    \A e \in Epochs :
        (/\ wire.ready /\ wire.frames # <<>> /\ Head(wire.frames).epoch = e
         /\ stream.probe.kind = "none")
        ~> (stream.currentEpoch = e \/ e \in stream.retired \/ stream.phase # "open")
=============================================================================
