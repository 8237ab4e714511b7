------------------------ MODULE PiEventStream_proofs ------------------------
(***************************************************************************)
(* What is proved of PiEventStream, for every bound on sequence numbers    *)
(* and daemon lifetimes, and first of the promise of the log it follows,   *)
(* which any eviction policy keeps (SessionReplay implements it).          *)
(*                                                                         *)
(* The inductive invariant of the stream has three parts, each of which    *)
(* uses the ones before it:                                                *)
(*                                                                         *)
(*   EpochInv  what the stream, its probe and its wire know is about       *)
(*             lifetimes the daemon really had and counters it reached;    *)
(*   OrderInv  frames in flight, held back by a probe and delivered are in *)
(*             the daemon's order, and nothing is in flight before the     *)
(*             daemon has answered the subscription;                       *)
(*   LossInv   every event beyond the cursor is on its way to the owner or *)
(*             covered by a signal to read again.                          *)
(*                                                                         *)
(* The handlers are functions of a client, so each part is first shown to  *)
(* be kept by every handler (of any client that satisfies it) and then by  *)
(* every step.                                                             *)
(***************************************************************************)
EXTENDS PiEventStream, FiniteSetTheorems, TLAPS

-----------------------------------------------------------------------------
(* The daemon's log, of which the stream only knows the promise: it is enough *)
(* for a gap-free replay.                                                     *)

\* What is retained is a suffix of what was broadcast.
IsSuffix ==
    /\ sequence \in Nat
    /\ retained \subseteq broadcast
    /\ broadcast \subseteq 0 .. sequence
    /\ \A oldest \in retained, e \in broadcast : e >= oldest => e \in retained

\* Any evicted prefix leaves every replayable cursor with all it missed.
THEOREM PromiseLeavesNoHole == LogSpec => []NoHole
<1>1. LogInit => IsSuffix
  BY DEF LogInit, IsSuffix
<1>2. IsSuffix /\ [LogNext]_logVars => IsSuffix'
  <2> SUFFICES ASSUME IsSuffix, [LogNext]_logVars PROVE IsSuffix'
    OBVIOUS
  <2>1. CASE Broadcast
    <3>1. PICK oldest \in 0 .. sequence + 2 :
             retained' = {e \in retained \cup {sequence + 1} : e >= oldest}
      BY <2>1 DEF Broadcast
    <3>2. sequence' = sequence + 1 /\ broadcast' = broadcast \cup {sequence + 1}
      BY <2>1 DEF Broadcast
    <3>3. /\ sequence \in Nat /\ retained \subseteq broadcast
          /\ broadcast \subseteq 0 .. sequence
      BY DEF IsSuffix
    <3>4. ASSUME NEW o \in retained', NEW e \in broadcast', e >= o
          PROVE  e \in retained'
      <4>1. o >= oldest /\ o \in 0 .. sequence + 1 /\ e \in 0 .. sequence + 1
        BY <3>1, <3>2, <3>3
      <4>2. e >= oldest
        BY <3>4, <4>1
      <4>3. CASE e = sequence + 1
        BY <3>1, <4>2, <4>3
      <4>4. CASE e # sequence + 1
        <5>1. e \in broadcast /\ e <= sequence /\ o \in retained
          BY <3>1, <3>2, <3>3, <3>4, <4>1, <4>4
        <5>2. QED
          BY <3>1, <3>4, <4>2, <5>1 DEF IsSuffix
      <4>5. QED
        BY <4>3, <4>4
    <3>5. retained' \subseteq broadcast' /\ sequence' \in Nat
      <4>1. retained' \subseteq retained \cup {sequence + 1}
        BY <3>1
      <4>2. QED
        BY <3>2, <3>3, <4>1
    <3>6. broadcast' \subseteq 0 .. sequence'
      BY <3>2, <3>3
    <3>7. QED
      BY <3>4, <3>5, <3>6 DEF IsSuffix
  <2>2. CASE NumberSnapshot
    BY <2>2 DEF IsSuffix, NumberSnapshot
  <2>3. CASE UNCHANGED logVars
    BY <2>3 DEF IsSuffix, logVars
  <2>4. QED
    BY <2>1, <2>2, <2>3 DEF LogNext
<1>3. IsSuffix => NoHole
  <2> SUFFICES ASSUME IsSuffix, NEW cursor \in 0 .. sequence, CanReplayFrom(cursor)
               PROVE  EventsAfter(cursor) = {e \in broadcast : e > cursor}
    BY DEF NoHole
  <2>1. PICK oldest \in retained : cursor >= oldest - 1
    BY DEF CanReplayFrom
  <2>2. \A e \in broadcast : e > cursor => e \in retained
    BY <2>1 DEF IsSuffix
  <2>3. QED
    BY <2>2 DEF EventsAfter, IsSuffix
<1>4. QED
  BY <1>1, <1>2, <1>3, PTL DEF LogSpec

-----------------------------------------------------------------------------
(* The stream. *)

\* The stream's closure state with what its owner has been told.
Clients == [s : Streams, o : Owners]

\* A frame that some daemon lifetime really numbered.
Past(f) == f.epoch <= epoch /\ (f.epoch = epoch => f.sequence <= sequence)

\* The counters of the live daemon.
Counting == sequence \in 0 .. MaxSequence /\ epoch \in Epochs

\* What the stream knows is about daemon lifetimes up to the live one, and its
\* cursor is no further than their counters.
Knows(c) ==
    /\ c \in Clients
    /\ \A e \in c.s.retired : e < epoch
    /\ c.s.currentEpoch <= epoch /\ c.s.ownerEpoch <= epoch
    /\ c.o.epoch = Reference(c.s)
    /\ Reference(c.s) = NoEpoch => c.s.lastSequence = NoSequence
    /\ Reference(c.s) = epoch => c.s.lastSequence <= sequence
    /\ Past(c.s.pending.frame)
    /\ c.s.pending.current => c.s.pending.frame \in Frame

\* What a probe compares with is still what the stream knows, and its answer
\* is from a lifetime no older than what it is compared with.
Probing(c) ==
    /\ Past(c.s.probe.frame)
    /\ c.s.probe.kind # "none" =>
          c.s.probe.reference = Reference(c.s) /\ Reference(c.s) # NoEpoch
    /\ c.s.probe.kind = "foreign" =>
          c.s.probe.frame \in Frame /\ c.s.probe.frame.epoch # Reference(c.s)
    /\ c.s.probe.kind # "none" /\ c.s.probe.health.state = "ready" =>
          /\ Reference(c.s) <= c.s.probe.health.epoch
          /\ c.s.probe.health.epoch <= epoch
          /\ c.s.probe.frame.epoch <= c.s.probe.health.epoch
\* Two intermediate results of HandleEvent: the first epoch seen is announced
\* and becomes the stream's; a foreign frame is held back behind a probe.
Moved(c, f) ==
    [IF Reference(c.s) = NoEpoch THEN Announce(c, f.epoch) ELSE c
     EXCEPT !.s.currentEpoch = f.epoch]

Held(c, f) == [c EXCEPT !.s.pending = [frame |-> f, current |-> TRUE]]
-----------------------------------------------------------------------------
(* What each handler does to the fields. *)

LEMMA FrameType ==
  ASSUME NEW f \in Frame
  PROVE  /\ f.epoch \in 1 .. MaxEpoch
         /\ f.sequence \in 1 .. MaxSequence
         /\ f.kind \in {"event", "snapshot", "resync"}
  BY DEF Frame, Epochs

LEMMA NoFrameType == NoFrame.epoch = 0 /\ NoFrame.sequence = 0
  BY DEF NoFrame, NoEpoch

\* The types of the fields that the arithmetic is about.
LEMMA FieldTypes ==
  ASSUME NEW c \in Clients
  PROVE  /\ c.s.currentEpoch \in 0 .. MaxEpoch
         /\ c.s.ownerEpoch \in 0 .. MaxEpoch
         /\ Reference(c.s) \in 0 .. MaxEpoch
         /\ c.s.lastSequence \in -1 .. MaxSequence
         /\ c.s.retired \in SUBSET Epochs
         /\ c.s.probe \in Probes
         /\ c.s.probe.frame \in Frame \cup {NoFrame}
         /\ c.s.pending.frame \in Frame \cup {NoFrame}
         /\ c.s.pending.current \in BOOLEAN
         /\ c.s.probe.current \in BOOLEAN
         /\ c.s.probe.health \in Health
         /\ c.o.base \in 0 .. MaxSequence
         /\ c.o.epoch \in 0 .. MaxEpoch
         /\ c.o.delivered \in Seq(Frame)
  BY Zenon DEF Clients, Streams, Owners, Probes, Reference

LEMMA HealthType ==
  ASSUME NEW h \in Health
  PROVE  /\ h.epoch \in 0 .. MaxEpoch
         /\ h.state = "ready" => h.epoch \in Epochs
  BY StreamAssumption DEF Health, Epochs, NoEpoch

LEMMA MaxInRange ==
  ASSUME NEW m \in -1 .. MaxSequence, NEW n \in -1 .. MaxSequence
  PROVE  /\ MaxOf(m, n) \in -1 .. MaxSequence
         /\ m \in 0 .. MaxSequence => MaxOf(m, n) \in 0 .. MaxSequence
  BY DEF MaxOf

LEMMA InvalidateFields ==
  ASSUME NEW c \in Clients, NEW p \in {"backoff", "open", "stopped", "disposed"}
  PROVE  /\ Invalidate(c, p) \in Clients
         /\ Invalidate(c, p).o = c.o
         /\ Invalidate(c, p).s.phase = p
         /\ Invalidate(c, p).s.currentEpoch = c.s.currentEpoch
         /\ Invalidate(c, p).s.ownerEpoch = c.s.ownerEpoch
         /\ Invalidate(c, p).s.lastSequence = c.s.lastSequence
         /\ Invalidate(c, p).s.retired = c.s.retired
         /\ Invalidate(c, p).s.probe = [c.s.probe EXCEPT !.current = FALSE]
         /\ Invalidate(c, p).s.pending = [c.s.pending EXCEPT !.current = FALSE]
  BY Zenon DEF Invalidate, Clients, Streams, Owners, Probes

LEMMA DeliverFields ==
  ASSUME NEW c \in Clients, NEW f \in Frame
  PROVE  /\ Deliver(c, f) \in Clients
         /\ Deliver(c, f).s = [c.s EXCEPT !.lastSequence = MaxOf(@, f.sequence)]
         /\ Deliver(c, f).o.epoch = c.o.epoch
         /\ Deliver(c, f).o.delivered = Append(c.o.delivered, f)
         /\ Deliver(c, f).o.base =
               IF f.kind = "resync" THEN MaxOf(c.o.base, f.sequence) ELSE c.o.base
  <1>1. Append(c.o.delivered, f) \in Seq(Frame)
    BY DEF Clients, Owners
  <1>2. /\ MaxOf(c.s.lastSequence, f.sequence) \in -1 .. MaxSequence
        /\ (IF f.kind = "resync" THEN MaxOf(c.o.base, f.sequence) ELSE c.o.base)
              \in 0 .. MaxSequence
    <2>1. /\ f.sequence \in -1 .. MaxSequence
          /\ c.s.lastSequence \in -1 .. MaxSequence
          /\ c.o.base \in 0 .. MaxSequence /\ c.o.base \in -1 .. MaxSequence
      BY FieldTypes, FrameType, MaxSequenceAssumption
    <2> QED
      BY <2>1, MaxInRange, Zenon
  <1> QED
    BY <1>1, <1>2, Zenon DEF Deliver, Clients, Streams, Owners

LEMMA ProbeFields ==
  ASSUME NEW c \in Clients, NEW kind \in {"foreign", "resubscribe"},
         NEW f \in Frame \cup {NoFrame}
  PROVE  /\ Probe(c, kind, f) \in Clients
         /\ Probe(c, kind, f).o = c.o
         /\ Probe(c, kind, f).s =
              [c.s EXCEPT !.probe = [kind |-> kind, frame |-> f, current |-> TRUE,
                                     reference |-> Reference(c.s), health |-> NoHealth]]
  <1>1. NoHealth \in Health
    BY DEF NoHealth, Health
  <1>2. [kind |-> kind, frame |-> f, current |-> TRUE,
         reference |-> Reference(c.s), health |-> NoHealth] \in Probes
    BY <1>1, FieldTypes, Zenon DEF Probes
  <1> QED
    BY <1>2, Zenon DEF Probe, Clients, Streams

LEMMA AnnounceFields ==
  ASSUME Counting, NEW c \in Clients, NEW e \in 0 .. MaxEpoch
  PROVE  /\ Announce(c, e) \in Clients
         /\ Announce(c, e).s = c.s
         /\ Announce(c, e).o.epoch = e
         /\ Announce(c, e).o.delivered = <<>>
         /\ Announce(c, e).o.base = IF e = epoch THEN sequence ELSE 0
  <1>1. (IF e = epoch THEN sequence ELSE 0) \in 0 .. MaxSequence
    BY MaxSequenceAssumption DEF Counting
  <1>2. <<>> \in Seq(Frame)
    OBVIOUS
  <1> QED
    BY <1>1, <1>2, Zenon DEF Announce, Clients, Owners

LEMMA MoveFields ==
  ASSUME NEW c \in Clients, NEW e \in 0 .. MaxEpoch
  PROVE  /\ [c EXCEPT !.s.currentEpoch = e] \in Clients
         /\ [c EXCEPT !.s.currentEpoch = e].o = c.o
         /\ [c EXCEPT !.s.currentEpoch = e].s = [c.s EXCEPT !.currentEpoch = e]
  BY Zenon DEF Clients, Streams

LEMMA DeferFields ==
  ASSUME NEW c \in Clients, NEW b \in BOOLEAN
  PROVE  /\ [c EXCEPT !.s.deferred = b] \in Clients
         /\ [c EXCEPT !.s.deferred = b].o = c.o
         /\ [c EXCEPT !.s.deferred = b].s = [c.s EXCEPT !.deferred = b]
  BY Zenon DEF Clients, Streams

LEMMA HeldFields ==
  ASSUME NEW c \in Clients, NEW f \in Frame
  PROVE  /\ Held(c, f) \in Clients
         /\ Held(c, f).o = c.o
         /\ Held(c, f).s = [c.s EXCEPT !.pending = [frame |-> f, current |-> TRUE]]
  <1>1. [frame |-> f, current |-> TRUE] \in [frame : Frame \cup {NoFrame}, current : BOOLEAN]
    OBVIOUS
  <1> QED
    BY <1>1, Zenon DEF Held, Clients, Streams

LEMMA RetireFields ==
  ASSUME NEW c \in Clients, NEW e \in Epochs
  PROVE  /\ Retire(c, e) \in Clients
         /\ Retire(c, e).o = c.o
         /\ Retire(c, e).s = [c.s EXCEPT !.retired = @ \cup {e}]
  <1>1. c.s.retired \cup {e} \in SUBSET Epochs
    BY FieldTypes
  <1> QED
    BY <1>1, Zenon DEF Retire, Clients, Streams

LEMMA AdoptFields ==
  ASSUME Counting, NEW c \in Clients, c.s.probe.reference \in Epochs,
         NEW e \in 0 .. MaxEpoch, NEW n \in -1 .. MaxSequence
  PROVE  /\ Adopt(c, e, n) \in Clients
         /\ Adopt(c, e, n).s.retired = c.s.retired \cup {c.s.probe.reference}
         /\ Adopt(c, e, n).s.currentEpoch = e
         /\ Adopt(c, e, n).s.ownerEpoch = c.s.ownerEpoch
         /\ Adopt(c, e, n).s.lastSequence = n
         /\ Adopt(c, e, n).s.probe = c.s.probe
         /\ Adopt(c, e, n).s.pending = c.s.pending
         /\ Adopt(c, e, n).s.phase = c.s.phase
         /\ Adopt(c, e, n).o.epoch = e
         /\ Adopt(c, e, n).o.delivered = <<>>
         /\ Adopt(c, e, n).o.base = IF e = epoch THEN sequence ELSE 0
  <1> DEFINE d == [c EXCEPT !.s.retired = @ \cup {c.s.probe.reference},
                            !.s.currentEpoch = e, !.s.lastSequence = n]
  <1>1. c.s.retired \cup {c.s.probe.reference} \in SUBSET Epochs
    BY FieldTypes
  <1>2. d \in Clients
    BY <1>1, Zenon DEF Clients, Streams
  <1>3. /\ d.s.retired = c.s.retired \cup {c.s.probe.reference}
        /\ d.s.currentEpoch = e /\ d.s.ownerEpoch = c.s.ownerEpoch
        /\ d.s.lastSequence = n /\ d.s.probe = c.s.probe
        /\ d.s.pending = c.s.pending /\ d.s.phase = c.s.phase
    BY Zenon DEF Clients, Streams
  <1> QED
    BY <1>2, <1>3, AnnounceFields, Zenon DEF Adopt

LEMMA DoneFields ==
  ASSUME NEW c \in Clients
  PROVE  /\ ProbeDone(c) \in Clients
         /\ ProbeDone(c).o = c.o
         /\ ProbeDone(c).s = [c.s EXCEPT !.probe = NoProbe, !.pending = NoPending]
         /\ ProbeDone(c).s.probe.kind = "none"
         /\ ~ProbeDone(c).s.pending.current
  <1>1. NoProbe \in Probes
    BY StreamAssumption DEF NoProbe, Probes, Health, NoHealth, NoEpoch
  <1>2. NoPending \in [frame : Frame \cup {NoFrame}, current : BOOLEAN]
    BY DEF NoPending
  <1>3. NoProbe.kind = "none" /\ ~NoPending.current
    BY DEF NoProbe, NoPending
  <1> QED
    BY <1>1, <1>2, <1>3, Zenon DEF ProbeDone, Clients, Streams

\* The epoch the stream refers to is a matter of two fields.
LEMMA SameReference ==
  ASSUME NEW s, NEW t, s.currentEpoch = t.currentEpoch, s.ownerEpoch = t.ownerEpoch
  PROVE  Reference(s) = Reference(t)
  BY DEF Reference
-----------------------------------------------------------------------------
(* Every handler keeps Knows and Probing, and the epoch never goes back. *)

LEMMA DeliverKnows ==
  ASSUME Counting, NEW c, Knows(c), NEW f \in Frame, Past(f), f.epoch = Reference(c.s)
  PROVE  /\ Knows(Deliver(c, f))
         /\ Probing(c) => Probing(Deliver(c, f))
         /\ Deliver(c, f).s.currentEpoch = c.s.currentEpoch
         /\ Deliver(c, f).s.phase = c.s.phase
  <1> DEFINE d == Deliver(c, f)
  <1>1. c \in Clients /\ c.s \in Streams
    BY Zenon DEF Knows, Clients
  <1>2. /\ d \in Clients
        /\ d.s = [c.s EXCEPT !.lastSequence = MaxOf(@, f.sequence)]
        /\ d.o.epoch = c.o.epoch
    BY <1>1, DeliverFields
  <1>3. /\ d.s.retired = c.s.retired /\ d.s.currentEpoch = c.s.currentEpoch
        /\ d.s.ownerEpoch = c.s.ownerEpoch /\ d.s.pending = c.s.pending
        /\ d.s.probe = c.s.probe /\ d.s.phase = c.s.phase
        /\ d.s.lastSequence = MaxOf(c.s.lastSequence, f.sequence)
    BY <1>1, <1>2, Zenon DEF Streams
  <1> HIDE DEF d
  <1>r. Reference(d.s) = Reference(c.s)
    BY <1>3, SameReference
  <1>4. Reference(d.s) = NoEpoch => d.s.lastSequence = NoSequence
    BY <1>r, FrameType DEF NoEpoch
  <1>5. Reference(d.s) = epoch => d.s.lastSequence <= sequence
    BY <1>1, <1>3, <1>r, FrameType, FieldTypes DEF Knows, Past, MaxOf, Counting
  <1>6. Knows(d)
    BY <1>1, <1>2, <1>3, <1>r, <1>4, <1>5, Zenon DEF Knows
  <1>7. Probing(c) => Probing(d)
    BY <1>3, <1>r, Zenon DEF Probing
  <1> QED
    BY <1>3, <1>6, <1>7 DEF d

\* Moving to the epoch of a frame, announcing it when it is the first one.
LEMMA MoveKnows ==
  ASSUME Counting, NEW c, Knows(c), NEW f \in Frame, Past(f),
         c.s.currentEpoch # f.epoch, Reference(c.s) \in {NoEpoch, f.epoch}
  PROVE  /\ Knows(Moved(c, f))
         /\ Probing(c) => Probing(Moved(c, f))
         /\ Reference(Moved(c, f).s) = f.epoch
         /\ c.s.currentEpoch = NoEpoch /\ Moved(c, f).s.currentEpoch = f.epoch
         /\ Moved(c, f).s.lastSequence = c.s.lastSequence
         /\ Moved(c, f).s.probe = c.s.probe
         /\ Moved(c, f).s.pending = c.s.pending
         /\ Moved(c, f).s.phase = c.s.phase
         /\ Moved(c, f).o.delivered =
               IF Reference(c.s) = NoEpoch THEN <<>> ELSE c.o.delivered
         /\ Reference(c.s) # NoEpoch => Moved(c, f).o = c.o
         /\ Reference(c.s) = NoEpoch =>
               Moved(c, f).o.base = IF f.epoch = epoch THEN sequence ELSE 0
  <1> DEFINE a == IF Reference(c.s) = NoEpoch THEN Announce(c, f.epoch) ELSE c
             d == Moved(c, f)
  <1>0. f.epoch \in 1 .. MaxEpoch /\ f.epoch \in 0 .. MaxEpoch /\ f.epoch # NoEpoch
    BY FrameType DEF NoEpoch
  <1>1. c \in Clients /\ c.s \in Streams
    BY Zenon DEF Knows, Clients
  <1>2. a \in Clients /\ a.s = c.s /\ a.o.epoch = f.epoch
        /\ a.o.delivered = IF Reference(c.s) = NoEpoch THEN <<>> ELSE c.o.delivered
    BY <1>0, <1>1, AnnounceFields, Zenon DEF Knows
  <1>o. Reference(c.s) # NoEpoch => a.o = c.o
    BY Zenon
  <1>b. Reference(c.s) = NoEpoch => a.o.base = IF f.epoch = epoch THEN sequence ELSE 0
    BY <1>0, <1>1, AnnounceFields, Zenon
  <1>a. d = [a EXCEPT !.s.currentEpoch = f.epoch]
    BY DEF Moved
  <1> HIDE DEF a, d
  <1>3. d \in Clients /\ d.o = a.o /\ d.s = [c.s EXCEPT !.currentEpoch = f.epoch]
    BY <1>0, <1>2, <1>a, MoveFields, Zenon
  <1>4. /\ d.s.retired = c.s.retired /\ d.s.currentEpoch = f.epoch
        /\ d.s.ownerEpoch = c.s.ownerEpoch /\ d.s.pending = c.s.pending
        /\ d.s.probe = c.s.probe /\ d.s.lastSequence = c.s.lastSequence
        /\ d.s.phase = c.s.phase
    BY <1>1, <1>3, Zenon DEF Streams
  <1>r. Reference(d.s) = f.epoch
    BY <1>0, <1>4 DEF Reference
  <1>5. Reference(d.s) = epoch => d.s.lastSequence <= sequence
    <2>1. CASE Reference(c.s) = NoEpoch
      BY <2>1, <1>4, MaxSequenceAssumption DEF Knows, NoSequence, Counting
    <2>2. CASE Reference(c.s) = f.epoch
      BY <2>2, <1>4, <1>r DEF Knows
    <2> QED
      BY <2>1, <2>2
  <1>6. c.s.currentEpoch = NoEpoch
    BY <1>0 DEF Reference
  <1>7. d.s.currentEpoch <= epoch /\ d.s.ownerEpoch <= epoch
    BY <1>4 DEF Knows, Past
  <1>8. Knows(d)
    BY <1>0, <1>1, <1>2, <1>3, <1>4, <1>r, <1>5, <1>7, Zenon DEF Knows
  <1>9. ASSUME Probing(c) PROVE Probing(d)
    <2>1. c.s.probe.kind \in {"none", "foreign", "resubscribe"}
      BY <1>1, Zenon DEF Streams, Probes
    <2>2. c.s.probe.kind # "none" => Reference(c.s) = f.epoch
      BY <1>9, Zenon DEF Probing
    <2> QED
      BY <1>0, <1>4, <1>r, <1>9, <2>1, <2>2, Zenon DEF Probing
  <1> QED
    BY <1>2, <1>o, <1>b, <1>3, <1>4, <1>r, <1>6, <1>8, <1>9, Zenon DEF d

LEMMA ProbeKnows ==
  ASSUME Counting, NEW c, Knows(c), NEW kind \in {"foreign", "resubscribe"},
         NEW f \in Frame \cup {NoFrame}, Past(f), Reference(c.s) # NoEpoch,
         kind = "foreign" => f \in Frame /\ f.epoch # Reference(c.s)
  PROVE  /\ Knows(Probe(c, kind, f))
         /\ Probing(Probe(c, kind, f))
         /\ Probe(c, kind, f).s.currentEpoch = c.s.currentEpoch
         /\ Probe(c, kind, f).s.phase = c.s.phase
  <1> DEFINE d == Probe(c, kind, f)
             p == [kind |-> kind, frame |-> f, current |-> TRUE,
                   reference |-> Reference(c.s), health |-> NoHealth]
  <1>1. c \in Clients /\ c.s \in Streams
    BY Zenon DEF Knows, Clients
  <1>2. d \in Clients /\ d.o = c.o /\ d.s = [c.s EXCEPT !.probe = p]
    BY <1>1, ProbeFields
  <1>3. /\ d.s.retired = c.s.retired /\ d.s.currentEpoch = c.s.currentEpoch
        /\ d.s.ownerEpoch = c.s.ownerEpoch /\ d.s.pending = c.s.pending
        /\ d.s.probe = p /\ d.s.lastSequence = c.s.lastSequence
        /\ d.s.phase = c.s.phase
    BY <1>1, <1>2, Zenon DEF Streams
  <1>5. /\ d.s.probe.kind = kind /\ d.s.probe.frame = f
        /\ d.s.probe.reference = Reference(c.s)
        /\ d.s.probe.health.state # "ready"
    BY <1>3 DEF NoHealth
  <1> HIDE DEF d
  <1>r. Reference(d.s) = Reference(c.s)
    BY <1>3, SameReference
  <1>4. Knows(d)
    BY <1>2, <1>3, <1>r, Zenon DEF Knows
  <1>6. Probing(d)
    BY <1>5, <1>r, Zenon DEF Probing
  <1> QED
    BY <1>3, <1>4, <1>6 DEF d

LEMMA HandleEventKnows ==
  ASSUME Counting, NEW c, Knows(c), Probing(c), NEW f \in Frame, Past(f)
  PROVE  /\ Knows(HandleEvent(c, f))
         /\ Probing(HandleEvent(c, f))
         /\ HandleEvent(c, f).s.currentEpoch >= c.s.currentEpoch
         /\ HandleEvent(c, f).s.phase = c.s.phase
  <1>0. c \in Clients /\ c.s \in Streams /\ c.s.currentEpoch \in Int /\ f.epoch \in 1 .. MaxEpoch
    BY FieldTypes, FrameType DEF Knows, Clients
  <1>1. CASE f.epoch = c.s.currentEpoch
    <2>1. HandleEvent(c, f) = Deliver(c, f)
      BY <1>1 DEF HandleEvent
    <2>2. f.epoch = Reference(c.s)
      BY <1>0, <1>1 DEF Reference, NoEpoch
    <2> QED
      BY <1>0, <2>1, <2>2, DeliverKnows
  <1>2. CASE f.epoch # c.s.currentEpoch /\ f.epoch \in c.s.retired
    BY <1>0, <1>2 DEF HandleEvent
  <1>3. CASE /\ f.epoch # c.s.currentEpoch /\ f.epoch \notin c.s.retired
             /\ Reference(c.s) \in {NoEpoch, f.epoch}
    <2> DEFINE d == Moved(c, f)
    <2>1. HandleEvent(c, f) = Deliver(d, f)
      BY <1>3 DEF HandleEvent, Moved
    <2>2. /\ Knows(d) /\ Probing(d) /\ Reference(d.s) = f.epoch
          /\ c.s.currentEpoch = NoEpoch /\ d.s.currentEpoch = f.epoch
          /\ d.s.phase = c.s.phase
      BY <1>3, MoveKnows
    <2> HIDE DEF d
    <2>3. /\ Knows(Deliver(d, f)) /\ Probing(Deliver(d, f))
          /\ Deliver(d, f).s.currentEpoch = f.epoch
          /\ Deliver(d, f).s.phase = d.s.phase
      BY <2>2, DeliverKnows
    <2> QED
      BY <1>0, <2>1, <2>2, <2>3 DEF NoEpoch
  <1>4. CASE /\ f.epoch # c.s.currentEpoch /\ f.epoch \notin c.s.retired
             /\ Reference(c.s) \notin {NoEpoch, f.epoch}
    <2>1. CASE c.s.probe.kind = "none"
      <3>1. HandleEvent(c, f) = Probe(c, "foreign", f)
        BY <1>4, <2>1 DEF HandleEvent
      <3> QED
        BY <1>0, <1>4, <3>1, ProbeKnows
    <2>2. CASE c.s.probe.kind # "none" /\ c.s.pending.frame # NoFrame
      BY <1>0, <1>4, <2>2 DEF HandleEvent
    <2>3. CASE c.s.probe.kind # "none" /\ c.s.pending.frame = NoFrame
      <3> DEFINE d == Held(c, f)
      <3>1. HandleEvent(c, f) = d
        BY <1>4, <2>3 DEF HandleEvent, Held
      <3> HIDE DEF d
      <3>2. /\ d \in Clients /\ d.o = c.o
            /\ d.s = [c.s EXCEPT !.pending = [frame |-> f, current |-> TRUE]]
        BY <1>0, HeldFields DEF d
      <3>3. /\ d.s.retired = c.s.retired /\ d.s.currentEpoch = c.s.currentEpoch
            /\ d.s.ownerEpoch = c.s.ownerEpoch
            /\ d.s.pending = [frame |-> f, current |-> TRUE]
            /\ d.s.probe = c.s.probe /\ d.s.lastSequence = c.s.lastSequence
            /\ d.s.phase = c.s.phase
        BY <1>0, <3>2, Zenon DEF Streams
      <3>r. d.s.pending.frame = f
        BY <3>3
      <3>s. Reference(d.s) = Reference(c.s)
        BY <3>3, SameReference
      <3>4. Knows(d)
        BY <3>2, <3>3, <3>r, <3>s, Zenon DEF Knows
      <3>5. Probing(d)
        BY <3>3, <3>s, Zenon DEF Probing
      <3> QED
        BY <1>0, <3>1, <3>3, <3>4, <3>5
    <2> QED
      BY <2>1, <2>2, <2>3
  <1> QED
    BY <1>1, <1>2, <1>3, <1>4

\* d differs from c in nothing but the probe and the connection's own flags.
Unmoved(c, d) ==
    /\ d.o = c.o
    /\ d.s.currentEpoch = c.s.currentEpoch /\ d.s.ownerEpoch = c.s.ownerEpoch
    /\ d.s.lastSequence = c.s.lastSequence /\ d.s.retired = c.s.retired
    /\ d.s.pending = c.s.pending

LEMMA UnmovedKnows ==
  ASSUME NEW c, NEW d \in Clients, Knows(c), Unmoved(c, d)
  PROVE  Knows(d) /\ Reference(d.s) = Reference(c.s)
  <1>1. Reference(d.s) = Reference(c.s)
    BY SameReference DEF Unmoved
  <1> QED
    BY <1>1, Zenon DEF Knows, Unmoved

LEMMA ClientOf ==
  ASSUME NEW c, Knows(c)
  PROVE  c \in Clients /\ c.s \in Streams /\ c.o \in Owners
  BY Zenon DEF Knows, Clients

LEMMA VerifyKnows ==
  ASSUME Counting, NEW c, Knows(c), Probing(c)
  PROVE  /\ Knows(VerifyAfterResubscribe(c))
         /\ Probing(VerifyAfterResubscribe(c))
         /\ Unmoved(c, VerifyAfterResubscribe(c))
         /\ \/ VerifyAfterResubscribe(c).s.probe = c.s.probe
            \/ VerifyAfterResubscribe(c).s.probe.kind = "resubscribe"
         /\ VerifyAfterResubscribe(c).s.phase = c.s.phase
  <1>0. c \in Clients /\ c.s \in Streams
    BY ClientOf
  <1>1. CASE Reference(c.s) = NoEpoch
    BY <1>1 DEF VerifyAfterResubscribe, Unmoved
  <1>2. CASE Reference(c.s) # NoEpoch /\ c.s.probe.kind # "none"
    <2> DEFINE d == [c EXCEPT !.s.deferred = TRUE]
    <2>1. VerifyAfterResubscribe(c) = d
      BY <1>2 DEF VerifyAfterResubscribe
    <2>2. d \in Clients /\ d.o = c.o /\ d.s = [c.s EXCEPT !.deferred = TRUE]
      BY <1>0, DeferFields, Zenon
    <2> HIDE DEF d
    <2>3. /\ Unmoved(c, d) /\ d.s.probe = c.s.probe /\ d.s.phase = c.s.phase
      BY <1>0, <2>2, Zenon DEF Streams, Unmoved
    <2>4. Knows(d) /\ Reference(d.s) = Reference(c.s)
      BY <2>2, <2>3, UnmovedKnows
    <2>5. Probing(d)
      BY <2>3, <2>4, Zenon DEF Probing
    <2> QED
      BY <2>1, <2>3, <2>4, <2>5
  <1>3. CASE Reference(c.s) # NoEpoch /\ c.s.probe.kind = "none"
    <2> DEFINE d == Probe(c, "resubscribe", NoFrame)
    <2>1. VerifyAfterResubscribe(c) = d
      BY <1>3 DEF VerifyAfterResubscribe
    <2>2. Past(NoFrame)
      BY NoFrameType DEF Past, Counting, Epochs
    <2>3. Knows(d) /\ Probing(d)
      BY <1>3, <2>2, ProbeKnows
    <2>4. /\ d.o = c.o
          /\ d.s = [c.s EXCEPT !.probe = [kind |-> "resubscribe", frame |-> NoFrame,
                       current |-> TRUE, reference |-> Reference(c.s), health |-> NoHealth]]
      BY <1>0, ProbeFields
    <2> HIDE DEF d
    <2>5. Unmoved(c, d) /\ d.s.phase = c.s.phase
      BY <1>0, <2>4, Zenon DEF Streams, Unmoved
    <2>6. d.s.probe.kind = "resubscribe"
      <3>1. d.s.probe = [kind |-> "resubscribe", frame |-> NoFrame, current |-> TRUE,
                         reference |-> Reference(c.s), health |-> NoHealth]
        BY <1>0, <2>4, Zenon DEF Streams
      <3> QED
        BY <3>1
    <2> QED
      BY <2>1, <2>3, <2>5, <2>6
  <1> QED
    BY <1>1, <1>2, <1>3

LEMMA DeferredKnows ==
  ASSUME Counting, NEW c, Knows(c), Probing(c)
  PROVE  /\ Knows(RunDeferred(c))
         /\ Probing(RunDeferred(c))
         /\ Unmoved(c, RunDeferred(c))
         /\ \/ RunDeferred(c).s.probe = c.s.probe
            \/ RunDeferred(c).s.probe.kind = "resubscribe"
         /\ RunDeferred(c).s.phase = c.s.phase
  <1>1. CASE ~c.s.deferred
    BY <1>1 DEF RunDeferred, Unmoved
  <1>2. CASE c.s.deferred
    <2> DEFINE d == [c EXCEPT !.s.deferred = FALSE]
               v == VerifyAfterResubscribe(d)
    <2>1. RunDeferred(c) = v
      BY <1>2 DEF RunDeferred
    <2>2. d \in Clients /\ d.o = c.o /\ d.s = [c.s EXCEPT !.deferred = FALSE]
      BY ClientOf, DeferFields, Zenon
    <2> HIDE DEF d
    <2>3. Unmoved(c, d) /\ d.s.probe = c.s.probe /\ d.s.phase = c.s.phase
      BY <2>2, ClientOf, Zenon DEF Streams, Unmoved
    <2>4. Knows(d) /\ Reference(d.s) = Reference(c.s)
      BY <2>2, <2>3, UnmovedKnows
    <2>5. Probing(d)
      BY <2>3, <2>4, Zenon DEF Probing
    <2>6. /\ Knows(v) /\ Probing(v) /\ Unmoved(d, v) /\ v.s.phase = d.s.phase
          /\ v.s.probe = d.s.probe \/ v.s.probe.kind = "resubscribe"
      BY <2>4, <2>5, VerifyKnows
    <2>7. Unmoved(c, v)
      BY <2>3, <2>6, Zenon DEF Unmoved
    <2> QED
      BY <2>1, <2>3, <2>6, <2>7
  <1> QED
    BY <1>1, <1>2

LEMMA ReadyKnows ==
  ASSUME Counting, NEW c, Knows(c), Probing(c)
  PROVE  /\ Knows(MarkReady(c))
         /\ Probing(MarkReady(c))
         /\ Unmoved(c, MarkReady(c))
         /\ \/ MarkReady(c).s.probe = c.s.probe
            \/ MarkReady(c).s.probe.kind = "resubscribe"
         /\ MarkReady(c).s.phase = c.s.phase
  <1> DEFINE v == IF c.s.hasBeenReady THEN VerifyAfterResubscribe(c) ELSE c
             d == MarkReady(c)
  <1>1. /\ Knows(v) /\ Probing(v) /\ Unmoved(c, v) /\ v.s.phase = c.s.phase
        /\ v.s.probe = c.s.probe \/ v.s.probe.kind = "resubscribe"
    BY VerifyKnows DEF Unmoved
  <1>2. d = [v EXCEPT !.s.hasBeenReady = TRUE]
    BY DEF MarkReady
  <1> HIDE DEF v, d
  <1>v. v \in Clients
    BY <1>1, ClientOf
  <1>3. /\ d \in Clients /\ Unmoved(v, d)
        /\ d.s.probe = v.s.probe /\ d.s.phase = v.s.phase
    BY <1>v, <1>2, Zenon DEF Clients, Streams, Unmoved
  <1>4. Knows(d) /\ Reference(d.s) = Reference(v.s)
    BY <1>1, <1>3, UnmovedKnows
  <1>5. Probing(d)
    BY <1>1, <1>3, <1>4, Zenon DEF Probing
  <1>6. Unmoved(c, d)
    BY <1>1, <1>3, Zenon DEF Unmoved
  <1> QED
    BY <1>1, <1>3, <1>4, <1>5, <1>6 DEF d

LEMMA InvalidateKnows ==
  ASSUME Counting, NEW c, Knows(c), NEW p \in {"backoff", "open", "stopped", "disposed"}
  PROVE  /\ Knows(Invalidate(c, p))
         /\ Probing(c) => Probing(Invalidate(c, p))
         /\ Reference(Invalidate(c, p).s) = Reference(c.s)
         /\ Invalidate(c, p).s.currentEpoch = c.s.currentEpoch
         /\ Invalidate(c, p).s.phase = p
  <1> DEFINE d == Invalidate(c, p)
  <1>1. /\ d \in Clients /\ d.o = c.o
        /\ d.s.phase = p
        /\ d.s.currentEpoch = c.s.currentEpoch /\ d.s.ownerEpoch = c.s.ownerEpoch
        /\ d.s.lastSequence = c.s.lastSequence /\ d.s.retired = c.s.retired
        /\ d.s.probe = [c.s.probe EXCEPT !.current = FALSE]
        /\ d.s.pending = [c.s.pending EXCEPT !.current = FALSE]
    BY ClientOf, InvalidateFields
  <1> HIDE DEF d
  <1>2. /\ d.s.pending.frame = c.s.pending.frame /\ ~d.s.pending.current
        /\ d.s.probe.kind = c.s.probe.kind /\ d.s.probe.frame = c.s.probe.frame
        /\ d.s.probe.reference = c.s.probe.reference
        /\ d.s.probe.health = c.s.probe.health
    BY <1>1, ClientOf, Zenon DEF Streams, Probes
  <1>3. Reference(d.s) = Reference(c.s)
    BY <1>1, SameReference
  <1>4. Knows(d)
    BY <1>1, <1>2, <1>3, Zenon DEF Knows
  <1>5. Probing(c) => Probing(d)
    BY <1>2, <1>3, Zenon DEF Probing
  <1> QED
    BY <1>1, <1>3, <1>4, <1>5 DEF d

\* Once the probe is gone nothing is left to be checked about it.
LEMMA DoneKnows ==
  ASSUME Counting, NEW c, Knows(c)
  PROVE  /\ Knows(ProbeDone(c))
         /\ Probing(ProbeDone(c))
         /\ Reference(ProbeDone(c).s) = Reference(c.s)
         /\ ProbeDone(c).s.currentEpoch = c.s.currentEpoch
         /\ ProbeDone(c).s.phase = c.s.phase
  <1> DEFINE d == ProbeDone(c)
  <1>1. /\ d \in Clients /\ d.o = c.o
        /\ d.s = [c.s EXCEPT !.probe = NoProbe, !.pending = NoPending]
        /\ d.s.probe.kind = "none" /\ ~d.s.pending.current
    BY ClientOf, DoneFields
  <1> HIDE DEF d
  <1>2. /\ d.s.currentEpoch = c.s.currentEpoch /\ d.s.ownerEpoch = c.s.ownerEpoch
        /\ d.s.lastSequence = c.s.lastSequence /\ d.s.retired = c.s.retired
        /\ d.s.probe = NoProbe /\ d.s.pending = NoPending
        /\ d.s.phase = c.s.phase
    BY <1>1, ClientOf, Zenon DEF Streams
  <1>3. Past(NoFrame) /\ d.s.probe.frame = NoFrame /\ d.s.pending.frame = NoFrame
    BY <1>2, NoFrameType DEF Past, Counting, Epochs, NoProbe, NoPending
  <1>4. Reference(d.s) = Reference(c.s)
    BY <1>2, SameReference
  <1>5. Knows(d)
    BY <1>1, <1>2, <1>3, <1>4, Zenon DEF Knows
  <1>6. Probing(d)
    BY <1>1, <1>3, Zenon DEF Probing
  <1> QED
    BY <1>2, <1>4, <1>5, <1>6 DEF d

\* Adopting an epoch that is newer than the reference and not ahead of the
\* live daemon: the retired one is older, and the cursor is the new epoch's.
LEMMA AdoptKnows ==
  ASSUME Counting, NEW c, Knows(c), NEW e \in Epochs, NEW n \in -1 .. MaxSequence,
         c.s.probe.reference = Reference(c.s), Reference(c.s) # NoEpoch,
         Reference(c.s) < e, e <= epoch, e = epoch => n <= sequence
  PROVE  /\ Knows(Adopt(c, e, n))
         /\ Reference(Adopt(c, e, n).s) = e
         /\ Adopt(c, e, n).s.currentEpoch = e
         /\ Adopt(c, e, n).s.lastSequence = n
         /\ Adopt(c, e, n).s.probe = c.s.probe
         /\ Adopt(c, e, n).s.pending = c.s.pending
         /\ Adopt(c, e, n).s.phase = c.s.phase
         /\ Adopt(c, e, n).o.delivered = <<>>
         /\ Adopt(c, e, n).o.base = IF e = epoch THEN sequence ELSE 0
         /\ Adopt(c, e, n).o.epoch = e
         /\ e > c.s.currentEpoch
  <1> DEFINE d == Adopt(c, e, n)
  <1>0. /\ c \in Clients /\ c.s \in Streams /\ e \in 0 .. MaxEpoch /\ e # NoEpoch
        /\ Reference(c.s) \in Epochs /\ c.s.currentEpoch \in 0 .. MaxEpoch
        /\ epoch \in Epochs
    BY ClientOf, FieldTypes DEF Epochs, NoEpoch, Counting
  <1>1. /\ d \in Clients /\ d.o.epoch = e /\ d.o.delivered = <<>>
        /\ d.o.base = IF e = epoch THEN sequence ELSE 0
        /\ d.s.currentEpoch = e /\ d.s.ownerEpoch = c.s.ownerEpoch
        /\ d.s.lastSequence = n
        /\ d.s.retired = c.s.retired \cup {c.s.probe.reference}
        /\ d.s.probe = c.s.probe /\ d.s.pending = c.s.pending
        /\ d.s.phase = c.s.phase
    BY <1>0, AdoptFields
  <1> HIDE DEF d
  <1>2. d.s.retired = c.s.retired \cup {Reference(c.s)}
    BY <1>1
  <1>3. Reference(d.s) = e
    BY <1>0, <1>1 DEF Reference
  <1>4. \A r \in d.s.retired : r < epoch
    BY <1>0, <1>2 DEF Knows, Epochs
  <1>5. e > c.s.currentEpoch
    BY <1>0 DEF Reference, Epochs, NoEpoch
  <1>6. Knows(d)
    BY <1>0, <1>1, <1>2, <1>3, <1>4, Zenon DEF Knows
  <1> QED
    BY <1>1, <1>2, <1>3, <1>5, <1>6 DEF d

LEMMA RetireKnows ==
  ASSUME Counting, NEW c, Knows(c), NEW e \in Epochs, e < epoch
  PROVE  /\ Knows(Retire(c, e))
         /\ Retire(c, e).o = c.o
         /\ Retire(c, e).s.currentEpoch = c.s.currentEpoch
         /\ Retire(c, e).s.ownerEpoch = c.s.ownerEpoch
         /\ Retire(c, e).s.lastSequence = c.s.lastSequence
         /\ Retire(c, e).s.probe = c.s.probe
         /\ Retire(c, e).s.phase = c.s.phase
  <1> DEFINE d == Retire(c, e)
  <1>1. d \in Clients /\ d.o = c.o /\ d.s = [c.s EXCEPT !.retired = @ \cup {e}]
    BY ClientOf, RetireFields
  <1> HIDE DEF d
  <1>2. /\ d.s.currentEpoch = c.s.currentEpoch /\ d.s.ownerEpoch = c.s.ownerEpoch
        /\ d.s.lastSequence = c.s.lastSequence /\ d.s.retired = c.s.retired \cup {e}
        /\ d.s.probe = c.s.probe /\ d.s.pending = c.s.pending
        /\ d.s.phase = c.s.phase
    BY <1>1, ClientOf, Zenon DEF Streams
  <1>3. Reference(d.s) = Reference(c.s)
    BY <1>2, SameReference
  <1>4. \A r \in d.s.retired : r < epoch
    BY <1>2 DEF Knows
  <1>5. Knows(d)
    BY <1>1, <1>2, <1>3, <1>4, Zenon DEF Knows
  <1> QED
    BY <1>1, <1>2, <1>5 DEF d

\* The verdict on a foreign frame.
LEMMA ForeignVerdictKnows ==
  ASSUME Counting, NEW c, Knows(c), Probing(c), c.s.probe.kind = "foreign"
  PROVE  /\ Knows(ForeignVerdict(c))
         /\ ForeignVerdict(c).s.currentEpoch >= c.s.currentEpoch
         /\ ForeignVerdict(c).s.phase \in {c.s.phase, "backoff", "stopped"}
  <1> DEFINE probe == c.s.probe
             f == c.s.probe.frame
  <1>0. /\ c \in Clients /\ c.s \in Streams /\ c.s.currentEpoch \in 0 .. MaxEpoch
        /\ f \in Frame /\ f.epoch \in 1 .. MaxEpoch /\ f.sequence \in 1 .. MaxSequence
        /\ f.epoch \in Epochs /\ f.sequence \in -1 .. MaxSequence
        /\ Reference(c.s) \in 0 .. MaxEpoch /\ probe.health.epoch \in 0 .. MaxEpoch
        /\ epoch \in Epochs
    BY ClientOf, FieldTypes, FrameType, HealthType DEF Probing, Epochs, Counting
  <1>1. CASE ~probe.current
    BY <1>0, <1>1 DEF ForeignVerdict
  <1>2. CASE /\ probe.current /\ probe.health.state = "ready"
             /\ probe.health.epoch = f.epoch
    <2>1. ForeignVerdict(c) = Deliver(Adopt(c, f.epoch, f.sequence), f)
      BY <1>2 DEF ForeignVerdict
    <2>2. /\ c.s.probe.reference = Reference(c.s) /\ Reference(c.s) # NoEpoch
          /\ Reference(c.s) < f.epoch /\ f.epoch <= epoch
          /\ f.epoch = epoch => f.sequence <= sequence
      BY <1>0, <1>2 DEF Probing, Past, Epochs
    <2> DEFINE d == Adopt(c, f.epoch, f.sequence)
    <2>3. /\ Knows(d) /\ Reference(d.s) = f.epoch
          /\ d.s.currentEpoch = f.epoch /\ f.epoch > c.s.currentEpoch
          /\ d.s.phase = c.s.phase
      BY <1>0, <2>2, AdoptKnows
    <2> HIDE DEF d
    <2>4. /\ Knows(Deliver(d, f)) /\ Deliver(d, f).s.currentEpoch = f.epoch
          /\ Deliver(d, f).s.phase = d.s.phase
      BY <1>0, <2>3, DeliverKnows DEF Probing
    <2> QED
      BY <1>0, <2>1, <2>3, <2>4 DEF d
  <1>3. CASE /\ probe.current /\ probe.health.state = "ready"
             /\ probe.health.epoch # f.epoch
    <2>1. ForeignVerdict(c) = Retire(c, f.epoch)
      BY <1>3 DEF ForeignVerdict
    <2>2. f.epoch < epoch
      BY <1>0, <1>3 DEF Probing, Epochs
    <2> QED
      BY <1>0, <2>1, <2>2, RetireKnows
  <1>4. CASE probe.current /\ probe.health.state # "ready"
    <2>1. ForeignVerdict(c) \in {Invalidate(c, "stopped"), Invalidate(c, "backoff")}
      BY <1>4 DEF ForeignVerdict
    <2> QED
      BY <1>0, <2>1, InvalidateKnows
  <1> QED
    BY <1>1, <1>2, <1>3, <1>4

LEMMA ForeignEndsKnows ==
  ASSUME Counting, NEW c, Knows(c), Probing(c), c.s.probe.kind = "foreign"
  PROVE  /\ Knows(ForeignProbeEnds(c)) /\ Probing(ForeignProbeEnds(c))
         /\ ForeignProbeEnds(c).s.currentEpoch >= c.s.currentEpoch
         /\ ForeignProbeEnds(c).s.phase \in {c.s.phase, "backoff", "stopped"}
  <1> DEFINE v == ForeignVerdict(c)
             d == ProbeDone(v)
  <1>1. /\ Knows(v) /\ v.s.currentEpoch >= c.s.currentEpoch
        /\ v.s.phase \in {c.s.phase, "backoff", "stopped"}
    BY ForeignVerdictKnows
  <1> HIDE DEF v
  <1>2. /\ Knows(d) /\ Probing(d) /\ d.s.currentEpoch = v.s.currentEpoch
        /\ d.s.phase = v.s.phase
    BY <1>1, DoneKnows
  <1> HIDE DEF d
  <1>3. /\ Knows(RunDeferred(d)) /\ Probing(RunDeferred(d))
        /\ RunDeferred(d).s.currentEpoch = d.s.currentEpoch
        /\ RunDeferred(d).s.phase = d.s.phase
    BY <1>2, DeferredKnows DEF Unmoved
  <1> QED
    BY <1>1, <1>2, <1>3 DEF ForeignProbeEnds, d, v

\* The verdict on a resubscription: the live lifetime is adopted, its log from
\* the start, or nothing happens.
LEMMA ResubscribeVerdictKnows ==
  ASSUME Counting, NEW c, Knows(c), Probing(c), c.s.probe.kind = "resubscribe"
  PROVE  /\ Knows(ResubscribeVerdict(c))
         /\ ResubscribeVerdict(c).s.currentEpoch >= c.s.currentEpoch
         /\ \/ ResubscribeVerdict(c) = c
            \/ /\ ResubscribeVerdict(c).s.lastSequence = NoSequence
               /\ ResubscribeVerdict(c).o.delivered = <<>>
               /\ ResubscribeVerdict(c).s.phase = c.s.phase
  <1> DEFINE e == c.s.probe.health.epoch
  <1>0. /\ c.s.currentEpoch \in 0 .. MaxEpoch /\ Reference(c.s) \in 0 .. MaxEpoch
        /\ NoSequence \in -1 .. MaxSequence /\ NoSequence <= sequence
        /\ c.s.probe.health \in Health
        /\ c.s.probe.health.state = "ready" => e \in Epochs
    BY ClientOf, FieldTypes, HealthType, MaxSequenceAssumption
       DEF Epochs, Counting, NoSequence
  <1>1. CASE /\ c.s.probe.current /\ c.s.probe.health.state = "ready"
             /\ e \notin {c.s.probe.reference} \cup c.s.retired
             /\ Reference(c.s) = c.s.probe.reference
    <2>1. ResubscribeVerdict(c) = Adopt(c, e, NoSequence)
      BY <1>1 DEF ResubscribeVerdict
    <2>2. /\ e \in Epochs /\ Reference(c.s) # NoEpoch
          /\ Reference(c.s) < e /\ e <= epoch
      BY <1>0, <1>1 DEF Probing, Epochs
    <2>3. /\ Knows(Adopt(c, e, NoSequence))
          /\ Adopt(c, e, NoSequence).s.currentEpoch = e
          /\ Adopt(c, e, NoSequence).s.lastSequence = NoSequence
          /\ Adopt(c, e, NoSequence).s.phase = c.s.phase
          /\ Adopt(c, e, NoSequence).o.delivered = <<>>
          /\ e > c.s.currentEpoch
      BY <1>0, <1>1, <2>2, AdoptKnows
    <2> QED
      BY <1>0, <2>1, <2>2, <2>3 DEF Epochs
  <1>2. CASE ~(/\ c.s.probe.current /\ c.s.probe.health.state = "ready"
               /\ e \notin {c.s.probe.reference} \cup c.s.retired
               /\ Reference(c.s) = c.s.probe.reference)
    <2>1. ResubscribeVerdict(c) = c
      BY <1>2 DEF ResubscribeVerdict
    <2> QED
      BY <1>0, <2>1
  <1> QED
    BY <1>1, <1>2

LEMMA ResubscribeEndsKnows ==
  ASSUME Counting, NEW c, Knows(c), Probing(c), c.s.probe.kind = "resubscribe"
  PROVE  /\ Knows(ResubscribeProbeEnds(c)) /\ Probing(ResubscribeProbeEnds(c))
         /\ ResubscribeProbeEnds(c).s.currentEpoch >= c.s.currentEpoch
         /\ ResubscribeProbeEnds(c).s.phase = c.s.phase
  <1> DEFINE held == c.s.pending
             v == ResubscribeVerdict(c)
             d == ProbeDone(v)
             h == IF held.current THEN HandleEvent(d, held.frame) ELSE d
  <1>1. Knows(v) /\ v.s.currentEpoch >= c.s.currentEpoch /\ v.s.phase = c.s.phase
    BY ResubscribeVerdictKnows
  <1> HIDE DEF v
  <1>2. /\ Knows(d) /\ Probing(d) /\ d.s.currentEpoch = v.s.currentEpoch
        /\ d.s.phase = v.s.phase
    BY <1>1, DoneKnows
  <1> HIDE DEF d
  <1>3. held.current => held.frame \in Frame /\ Past(held.frame)
    BY DEF Knows
  <1>t. /\ c.s.currentEpoch \in 0 .. MaxEpoch /\ v.s.currentEpoch \in 0 .. MaxEpoch
    BY <1>1, ClientOf, FieldTypes
  <1>4. /\ Knows(h) /\ Probing(h) /\ h.s.currentEpoch >= d.s.currentEpoch
        /\ h.s.phase = d.s.phase
    <2>1. CASE held.current
      BY <2>1, <1>2, <1>3, HandleEventKnows
    <2>2. CASE ~held.current
      BY <2>2, <1>2, <1>t
    <2> QED
      BY <2>1, <2>2
  <1>h. ResubscribeProbeEnds(c) = RunDeferred(h)
    BY DEF ResubscribeProbeEnds, h, d, v
  <1> HIDE DEF h
  <1>5. /\ Knows(RunDeferred(h)) /\ Probing(RunDeferred(h))
        /\ RunDeferred(h).s.currentEpoch = h.s.currentEpoch
        /\ RunDeferred(h).s.phase = h.s.phase
    BY <1>4, DeferredKnows DEF Unmoved
  <1>6. h.s.currentEpoch \in 0 .. MaxEpoch
    BY <1>4, ClientOf, FieldTypes
  <1> QED
    BY <1>1, <1>2, <1>t, <1>4, <1>5, <1>6, <1>h
-----------------------------------------------------------------------------
(* The inductive invariant, the part that is about epochs and cursors. *)

WireKnows ==
    /\ \A i \in 1 .. Len(wire.frames) : Past(wire.frames[i])
    /\ wire.cursor # NoSequence => wire.epoch # NoEpoch

EpochInv ==
    /\ TypeOK
    /\ Knows(Client)
    /\ Probing(Client)
    /\ WireKnows

\* The order a set of events is replayed in is a sequence of them.
LEMMA InOrderType ==
  ASSUME NEW S, IsFiniteSet(S), S \subseteq Nat, NEW q \in InOrder(S)
  PROVE  /\ q \in Seq(S)
         /\ Len(q) \in Nat
         /\ \A i \in 1 .. Len(q) : q[i] \in S
         /\ \A i, j \in 1 .. Len(q) : i < j => q[i] < q[j]
  <1>1. Cardinality(S) \in Nat
    BY FS_CardinalityType
  <1>2. q \in [1 .. Cardinality(S) -> S]
    BY DEF InOrder
  <1>3. q \in Seq(S)
    BY <1>1, <1>2
  <1>4. DOMAIN q = 1 .. Len(q) /\ Len(q) \in Nat
    BY <1>3
  <1> QED
    BY <1>3, <1>4 DEF InOrder

\* What a replay sends.
LEMMA ReplayFrames ==
  ASSUME TypeOK, NEW missed \in InOrder(EventsAfter(wire.cursor))
  PROVE  LET q == [i \in DOMAIN missed |-> EventFrame(missed[i])]
         IN  /\ q \in Seq(Frame)
             /\ \A i \in 1 .. Len(q) :
                   /\ q[i].epoch = epoch
                   /\ q[i].sequence \in broadcast
                   /\ q[i].sequence <= sequence
                   /\ wire.cursor < q[i].sequence
             /\ \A i, j \in 1 .. Len(q) : i < j => q[i].sequence < q[j].sequence
  <1> DEFINE S == EventsAfter(wire.cursor)
             q == [i \in DOMAIN missed |-> EventFrame(missed[i])]
  <1>0. /\ sequence \in 0 .. MaxSequence /\ MaxSequence \in Nat /\ epoch \in Epochs
        /\ wire.cursor \in Int
    BY MaxSequenceAssumption DEF TypeOK, Wires
  <1>1. S \subseteq 1 .. sequence /\ S \subseteq broadcast
        /\ \A e \in S : e > wire.cursor
    BY DEF EventsAfter, TypeOK
  <1>2. IsFiniteSet(S)
    <2>1. IsFiniteSet(1 .. sequence)
      BY <1>0, FS_Interval
    <2> QED
      BY <1>1, <2>1, FS_Subset
  <1>3. S \subseteq Nat /\ \A e \in S : e \in 1 .. MaxSequence /\ e <= sequence
    BY <1>0, <1>1
  <1>4. /\ missed \in Seq(S) /\ Len(missed) \in Nat
        /\ \A i \in 1 .. Len(missed) : missed[i] \in S
        /\ \A i, j \in 1 .. Len(missed) : i < j => missed[i] < missed[j]
    BY <1>2, <1>3, InOrderType
  <1> HIDE DEF S
  <1>5. DOMAIN missed = 1 .. Len(missed)
    BY <1>4
  <1>6. \A i \in 1 .. Len(missed) :
           /\ EventFrame(missed[i]) \in Frame
           /\ EventFrame(missed[i]).epoch = epoch
           /\ EventFrame(missed[i]).sequence = missed[i]
    BY <1>0, <1>3, <1>4 DEF EventFrame, Frame
  <1>7. q \in Seq(Frame) /\ Len(q) = Len(missed)
    BY <1>4, <1>5, <1>6
  <1>8. \A i \in 1 .. Len(q) : q[i] = EventFrame(missed[i])
    BY <1>5, <1>7
  <1> HIDE DEF q
  <1>9. \A i \in 1 .. Len(q) :
           /\ q[i].epoch = epoch
           /\ q[i].sequence \in broadcast
           /\ q[i].sequence <= sequence
           /\ wire.cursor < q[i].sequence
    BY <1>0, <1>1, <1>3, <1>4, <1>6, <1>7, <1>8
  <1>10. \A i, j \in 1 .. Len(q) : i < j => q[i].sequence < q[j].sequence
    BY <1>4, <1>6, <1>7, <1>8
  <1> QED
    BY <1>7, <1>9, <1>10 DEF q

\* What a snapshot sends.
LEMMA SnapshotFrames ==
  ASSUME TypeOK, sequence < MaxSequence, NEW resync \in BOOLEAN
  PROVE  LET q == AttachSnapshot(resync)
         IN  /\ q \in Seq(Frame) /\ Len(q) \in {0, 1}
             /\ \A i \in 1 .. Len(q) : q[i].epoch = epoch /\ q[i].sequence = sequence + 1
  <1> DEFINE f == [kind |-> IF resync THEN "resync" ELSE "snapshot",
                   epoch |-> epoch, sequence |-> sequence + 1]
  <1>1. f \in Frame /\ f.epoch = epoch /\ f.sequence = sequence + 1
    BY MaxSequenceAssumption DEF Frame, TypeOK
  <1>2. AttachSnapshot(resync) = IF activity = "held" THEN <<f>> ELSE <<>>
    BY DEF AttachSnapshot
  <1> HIDE DEF f
  <1>3. CASE activity = "held"
    BY <1>1, <1>2, <1>3
  <1>4. CASE activity # "held"
    BY <1>2, <1>4
  <1> QED
    BY <1>3, <1>4

LEMMA NoWireType ==
  /\ NoWire \in Wires
  /\ NoWire.open = FALSE /\ NoWire.attached = FALSE
  /\ NoWire.frames = <<>> /\ NoWire.cursor = NoSequence
  <1>1. <<>> \in Seq(Frame)
    OBVIOUS
  <1>2. NoSequence \in -1 .. MaxSequence /\ NoEpoch \in 0 .. MaxEpoch
    BY MaxSequenceAssumption, StreamAssumption DEF NoSequence, NoEpoch
  <1>3. NoWire \in Wires
    BY <1>1, <1>2, Zenon DEF NoWire, Wires
  <1> QED
    BY <1>3 DEF NoWire

LEMMA InitEpochInv == Init => EpochInv
  <1> SUFFICES ASSUME Init PROVE EpochInv
    OBVIOUS
  <1> USE MaxSequenceAssumption, StreamAssumption
  <1>1. PICK known \in {NoEpoch, 1} :
          /\ stream = [phase |-> "backoff", currentEpoch |-> NoEpoch,
                       ownerEpoch |-> known, hasBeenReady |-> FALSE,
                       lastSequence |-> IF known = NoEpoch THEN NoSequence ELSE 0,
                       retired |-> {}, probe |-> NoProbe, pending |-> NoPending,
                       deferred |-> FALSE]
          /\ owner = [epoch |-> known, base |-> 0, delivered |-> <<>>]
    BY DEF Init
  <1>2. /\ known \in 0 .. MaxEpoch /\ 0 \in 0 .. MaxSequence
        /\ (IF known = NoEpoch THEN NoSequence ELSE 0) \in -1 .. MaxSequence
        /\ NoEpoch \in 0 .. MaxEpoch
    BY DEF NoEpoch, NoSequence
  <1>3. NoProbe \in Probes
    BY DEF NoProbe, Probes, Health, NoHealth, NoEpoch
  <1>4. NoPending \in [frame : Frame \cup {NoFrame}, current : BOOLEAN]
    BY DEF NoPending
  <1>5. <<>> \in Seq(Frame)
    OBVIOUS
  <1>6. stream \in Streams
    BY <1>1, <1>2, <1>3, <1>4, Zenon DEF Streams
  <1>7. owner \in Owners
    BY <1>1, <1>2, <1>5, Zenon DEF Owners
  <1>8. /\ epoch = 1 /\ sequence = 0 /\ epoch \in Epochs /\ wire = NoWire
        /\ retained = {} /\ broadcast = {} /\ activity = "none"
    BY DEF Init, LogInit, Epochs
  <1>9. wire \in Wires /\ wire.open = (stream.phase = "open")
    BY <1>1, <1>8, NoWireType DEF NoWire
  <1>10. TypeOK
    BY <1>6, <1>7, <1>8, <1>9 DEF TypeOK
  <1>11. Past(NoFrame)
    BY <1>8, NoFrameType DEF Past
  <1>12. /\ stream.retired = {} /\ stream.currentEpoch = NoEpoch
         /\ stream.ownerEpoch = known
         /\ stream.lastSequence = IF known = NoEpoch THEN NoSequence ELSE 0
         /\ stream.pending = NoPending /\ stream.probe = NoProbe
         /\ owner.epoch = known
    BY <1>1
  <1>13. Reference(stream) = known
    BY <1>12 DEF Reference
  <1>14. Client \in Clients /\ Client.s = stream /\ Client.o = owner
    BY <1>6, <1>7 DEF Client, Clients
  <1>15. Knows(Client)
    <2>1. known <= epoch /\ NoEpoch <= epoch /\ (known = epoch => stream.lastSequence <= sequence)
      BY <1>8, <1>12 DEF NoEpoch
    <2>2. NoPending.frame = NoFrame /\ ~NoPending.current
      BY DEF NoPending
    <2> QED
      BY <1>11, <1>12, <1>13, <1>14, <2>1, <2>2 DEF Knows
  <1>16. Probing(Client)
    BY <1>11, <1>12, <1>14 DEF Probing, NoProbe
  <1>17. WireKnows
    BY <1>8 DEF WireKnows, NoWire
  <1> QED
    BY <1>10, <1>15, <1>16, <1>17 DEF EpochInv

LEMMA CountingHere ==
  ASSUME EpochInv
  PROVE  /\ Counting /\ Knows(Client) /\ Probing(Client)
         /\ Client \in Clients /\ Client.s = stream /\ Client.o = owner
         /\ stream \in Streams /\ owner \in Owners /\ wire \in Wires
         /\ epoch \in Epochs /\ sequence \in 0 .. MaxSequence
  BY DEF EpochInv, TypeOK, Client, Counting, Knows

\* A handler that leaves a client which knows no more than it should keeps
\* the invariant.
LEMMA BecomesKeeps ==
  ASSUME EpochInv, NEW d, Knows(d), Probing(d), NEW w \in Wires, d.s.phase = "open" => w.open = TRUE,
         \A i \in 1 .. Len(w.frames) : Past(w.frames[i]),
         w.cursor # NoSequence => w.epoch # NoEpoch,
         Becomes(d, w)
  PROVE  EpochInv'
  <1>1. d \in Clients /\ d.s \in Streams /\ d.o \in Owners
    BY ClientOf
  <1>2. /\ stream' = d.s /\ owner' = d.o
        /\ wire' = IF d.s.phase = "open" THEN w ELSE NoWire
        /\ UNCHANGED <<sequence, retained, broadcast, epoch, activity>>
    BY DEF Becomes
  <1>3. /\ wire' \in Wires /\ wire'.open = (stream'.phase = "open")
        /\ \A i \in 1 .. Len(wire'.frames) : Past(wire'.frames[i])
        /\ wire'.cursor # NoSequence => wire'.epoch # NoEpoch
    <2>1. CASE d.s.phase = "open"
      BY <1>2, <2>1, Zenon
    <2>2. CASE d.s.phase # "open"
      <3>1. wire' = NoWire
        BY <1>2, <2>2
      <3> QED
        <4>1. wire' \in Wires /\ wire'.frames = <<>> /\ wire'.cursor = NoSequence
          BY <3>1, NoWireType
        <4>2. wire'.open = FALSE /\ stream'.phase # "open"
          BY <1>2, <2>2, <3>1, NoWireType
        <4>3. wire'.open = (stream'.phase = "open")
          BY <4>2
        <4>4. 1 .. Len(wire'.frames) = {}
          BY <4>1
        <4> QED
          BY <4>1, <4>3, <4>4
    <2> QED
      BY <2>1, <2>2
  <1>4. TypeOK'
    BY <1>1, <1>2, <1>3 DEF EpochInv, TypeOK
  <1>5. WireKnows'
    BY <1>2, <1>3 DEF WireKnows, Past
  <1>6. Client' = [s |-> d.s, o |-> d.o]
    BY <1>2 DEF Client
  <1>7. Client'.s = d.s /\ Client'.o = d.o /\ Client' \in Clients
    BY <1>1, <1>6 DEF Clients
  <1>8. Knows(Client)'
    BY <1>2, <1>7 DEF Knows, Past
  <1>9. Probing(Client)'
    BY <1>2, <1>7 DEF Probing, Past
  <1> QED
    BY <1>4, <1>5, <1>8, <1>9 DEF EpochInv

\* Past in the state after the step, of a frame of the state before it.
PastNext(f) == f.epoch <= epoch' /\ (f.epoch = epoch' => f.sequence <= sequence')

\* So does the daemon when only its counters move on.
LEMMA KnowsLater ==
  ASSUME EpochInv, UNCHANGED <<stream, owner>>, epoch' \in Int, sequence' \in Int,
         epoch' > epoch \/ (epoch' = epoch /\ sequence' >= sequence)
  PROVE  /\ Knows(Client)' /\ Probing(Client)'
         /\ \A f \in Frame : Past(f) => PastNext(f)
  <1>1. /\ Client' = Client /\ Counting /\ Knows(Client) /\ Probing(Client)
        /\ epoch \in Int /\ sequence \in Int
    BY CountingHere DEF Client, Epochs
  <1> DEFINE c == Client
  <1>2. /\ c.s.currentEpoch \in Int /\ c.s.ownerEpoch \in Int
        /\ Reference(c.s) \in Int /\ c.s.lastSequence \in Int
        /\ c.s.retired \subseteq Int
        /\ c.s.probe.health \in Health /\ c.s.probe.health.epoch \in Int
        /\ c.s.probe.frame \in Frame \cup {NoFrame}
        /\ c.s.pending.frame \in Frame \cup {NoFrame}
    BY <1>1, CountingHere, FieldTypes, HealthType DEF Epochs
  <1>3. \A f \in Frame \cup {NoFrame} : Past(f) => Past(f)'
    <2> SUFFICES ASSUME NEW f \in Frame \cup {NoFrame}, Past(f) PROVE Past(f)'
      OBVIOUS
    <2>1. f.epoch \in Int /\ f.sequence \in Int
      BY FrameType, NoFrameType
    <2> QED
      BY <1>1, <2>1 DEF Past
  <1>4. Reference(c.s) <= epoch
    BY <1>1 DEF Knows, Reference
  <1> HIDE DEF c
  <1>5. Knows(c)'
    <2>1. Past(c.s.pending.frame)'
      BY <1>1, <1>2, <1>3 DEF Knows, c
    <2> QED
      BY <1>1, <1>2, <1>4, <2>1 DEF Knows, c
  <1>6. Probing(c)'
    <2>1. Past(c.s.probe.frame)'
      BY <1>1, <1>2, <1>3 DEF Probing, c
    <2> QED
      BY <1>1, <1>2, <1>4, <2>1 DEF Probing, c
  <1>7. \A f \in Frame : Past(f) => PastNext(f)
    BY <1>3 DEF Past, PastNext
  <1> QED
    BY <1>5, <1>6, <1>7 DEF c

\* One step of the daemon: a frame it numbers is written to the wire.
LEMMA DeliverToWireKeeps ==
  ASSUME EpochInv, NEW f \in Frame, f.epoch = epoch, f.sequence = sequence + 1,
         epoch' = epoch, sequence' = sequence + 1, UNCHANGED stream,
         DeliverToWire(f), \A g \in Frame : Past(g) => PastNext(g)
  PROVE  /\ wire' \in Wires /\ wire'.open = (stream'.phase = "open")
         /\ WireKnows'
  <1>0. /\ wire \in Wires /\ wire.open = (stream.phase = "open") /\ WireKnows
        /\ wire.frames \in Seq(Frame) /\ sequence \in Int /\ epoch \in Int
    BY CountingHere DEF EpochInv, TypeOK, Wires, Epochs
  <1>1. PastNext(f)
    BY <1>0 DEF PastNext
  <1>2. CASE wire.attached /\ ~wire.ended
    <2> DEFINE w == [wire EXCEPT !.frames = Append(@, f)]
    <2>1. wire' = w
      BY <1>2 DEF DeliverToWire
    <2>2. Append(wire.frames, f) \in Seq(Frame)
      BY <1>0
    <2>3. /\ w \in Wires /\ w.frames = Append(wire.frames, f)
          /\ w.open = wire.open /\ w.cursor = wire.cursor /\ w.epoch = wire.epoch
      BY <1>0, <2>2, Zenon DEF Wires
    <2> HIDE DEF w
    <2>4. \A i \in 1 .. Len(w.frames) : PastNext(w.frames[i])
      <3> SUFFICES ASSUME NEW i \in 1 .. Len(w.frames) PROVE PastNext(w.frames[i])
        OBVIOUS
      <3>1. CASE i \in 1 .. Len(wire.frames)
        <4>1. w.frames[i] = wire.frames[i] /\ wire.frames[i] \in Frame
          BY <1>0, <2>3, <3>1
        <4>2. Past(wire.frames[i])
          BY <1>0, <3>1 DEF WireKnows
        <4> QED
          BY <4>1, <4>2
      <3>2. CASE i \notin 1 .. Len(wire.frames)
        <4>1. w.frames[i] = f
          BY <1>0, <2>3, <3>2
        <4> QED
          BY <1>1, <4>1
      <3> QED
        BY <3>1, <3>2
    <2>5. WireKnows'
      BY <1>0, <2>1, <2>3, <2>4 DEF WireKnows, Past, PastNext
    <2> QED
      BY <1>0, <2>1, <2>3, <2>5
  <1>3. CASE ~(wire.attached /\ ~wire.ended)
    <2>1. wire' = wire
      BY <1>3 DEF DeliverToWire
    <2>2. \A i \in 1 .. Len(wire.frames) : wire.frames[i] \in Frame /\ Past(wire.frames[i])
      BY <1>0 DEF WireKnows
    <2>3. WireKnows'
      BY <1>0, <2>1, <2>2 DEF WireKnows, Past, PastNext
    <2> QED
      BY <1>0, <2>1, <2>3
  <1> QED
    BY <1>2, <1>3

LEMMA WireLater ==
  ASSUME EpochInv, wire'.frames = wire.frames, wire'.cursor = wire.cursor,
         wire'.epoch = wire.epoch, \A g \in Frame : Past(g) => PastNext(g)
  PROVE  WireKnows'
  <1>1. wire.frames \in Seq(Frame) /\ WireKnows
    BY CountingHere DEF EpochInv, Wires
  <1>2. \A i \in 1 .. Len(wire.frames) : wire.frames[i] \in Frame /\ Past(wire.frames[i])
    BY <1>1 DEF WireKnows
  <1> QED
    BY <1>1, <1>2 DEF WireKnows, Past, PastNext

LEMMA DaemonKeeps == EpochInv /\ Daemon => EpochInv'
  <1> SUFFICES ASSUME EpochInv, Daemon PROVE EpochInv'
    OBVIOUS
  <1>0. /\ TypeOK /\ MaxSequence \in Nat /\ sequence \in 0 .. MaxSequence
        /\ epoch \in Epochs /\ stream \in Streams /\ owner \in Owners /\ wire \in Wires
        /\ epoch \in Int /\ wire.frames \in Seq(Frame)
    BY MaxSequenceAssumption DEF EpochInv, TypeOK, Wires, Epochs
  <1>1. CASE Publish \/ Forget
    <2>1. /\ sequence < MaxSequence /\ sequence' = sequence + 1
          /\ broadcast' = broadcast \cup {sequence + 1}
          /\ retained' \subseteq retained \cup {sequence + 1}
          /\ DeliverToWire(EventFrame(sequence + 1))
          /\ UNCHANGED <<epoch, stream, owner>> /\ activity' \in {activity, "none"}
      BY <1>1 DEF Publish, Forget, Broadcast
    <2>2. /\ EventFrame(sequence + 1) \in Frame /\ EventFrame(sequence + 1).epoch = epoch
          /\ EventFrame(sequence + 1).sequence = sequence + 1
      BY <1>0, <2>1 DEF EventFrame, Frame
    <2>3. /\ Knows(Client)' /\ Probing(Client)'
          /\ \A f \in Frame : Past(f) => PastNext(f)
      BY <1>0, <2>1, KnowsLater
    <2>4. wire' \in Wires /\ wire'.open = (stream'.phase = "open") /\ WireKnows'
      BY <2>1, <2>2, <2>3, DeliverToWireKeeps
    <2>5. TypeOK'
      BY <1>0, <2>1, <2>4 DEF TypeOK
    <2> QED
      BY <2>3, <2>4, <2>5 DEF EpochInv
  <1>2. CASE PrivateSnapshot
    <2>1. /\ sequence < MaxSequence /\ sequence' = sequence + 1
          /\ UNCHANGED <<retained, broadcast, epoch, activity, wire, stream, owner>>
      BY <1>2 DEF PrivateSnapshot, NumberSnapshot
    <2>2. /\ Knows(Client)' /\ Probing(Client)'
          /\ \A f \in Frame : Past(f) => PastNext(f)
      BY <1>0, <2>1, KnowsLater
    <2>3. WireKnows'
      BY <2>1, <2>2, WireLater
    <2>4. TypeOK'
      BY <1>0, <2>1 DEF TypeOK
    <2> QED
      BY <2>2, <2>3, <2>4 DEF EpochInv
  <1>3. CASE Activate
    <2>1. /\ activity' = "held"
          /\ UNCHANGED <<sequence, retained, broadcast, epoch, wire, stream, owner>>
      BY <1>3 DEF Activate
    <2>2. /\ Knows(Client)' /\ Probing(Client)'
          /\ \A f \in Frame : Past(f) => PastNext(f)
      BY <1>0, <2>1, KnowsLater
    <2>3. WireKnows'
      BY <2>1, <2>2, WireLater
    <2>4. TypeOK'
      BY <1>0, <2>1 DEF TypeOK
    <2> QED
      BY <2>2, <2>3, <2>4 DEF EpochInv
  <1>4. CASE Restart
    <2>1. /\ epoch < MaxEpoch /\ epoch' = epoch + 1 /\ sequence' = 0
          /\ retained' = {} /\ broadcast' = {} /\ activity' = "none"
          /\ wire' = [wire EXCEPT !.ended = wire.attached]
          /\ UNCHANGED <<stream, owner>>
      BY <1>4 DEF Restart
    <2>2. /\ Knows(Client)' /\ Probing(Client)'
          /\ \A f \in Frame : Past(f) => PastNext(f)
      BY <1>0, <2>1, KnowsLater
    <2>3. /\ wire' \in Wires /\ wire'.frames = wire.frames /\ wire'.open = wire.open
          /\ wire'.cursor = wire.cursor /\ wire'.epoch = wire.epoch
      BY <1>0, <2>1, Zenon DEF Wires
    <2>4. WireKnows'
      BY <2>2, <2>3, WireLater
    <2>5. epoch' \in Epochs
      BY <1>0, <2>1, StreamAssumption DEF Epochs
    <2>6. TypeOK'
      BY <1>0, <2>1, <2>3, <2>5 DEF TypeOK
    <2> QED
      BY <2>2, <2>4, <2>6 DEF EpochInv
  <1>5. CASE Attach
    <2>0. /\ wire.open /\ ~wire.attached
          /\ UNCHANGED <<epoch, activity, stream, owner>>
      BY <1>5 DEF Attach
    <2>1. PICK frames \in Seq(Frame) :
             /\ \E untold \in BOOLEAN : Attached(frames, untold)
             /\ \A i \in 1 .. Len(frames) : frames[i].epoch = epoch /\ frames[i].sequence <= sequence'
             /\ sequence' \in {sequence, sequence + 1} /\ sequence' \in 0 .. MaxSequence
             /\ UNCHANGED <<retained, broadcast>>
      <3>1. CASE \E missed \in InOrder(EventsAfter(wire.cursor)) :
                    /\ Attached([i \in DOMAIN missed |-> EventFrame(missed[i])], FALSE)
                    /\ UNCHANGED <<sequence, retained, broadcast>>
        BY <1>0, <3>1, ReplayFrames
      <3>2. CASE /\ NumberSnapshot
                 /\ \E resync, untold \in BOOLEAN : Attached(AttachSnapshot(resync), untold)
        <4>1. PICK resync \in BOOLEAN, untold \in BOOLEAN :
                 Attached(AttachSnapshot(resync), untold)
          BY <3>2
        <4>2. sequence < MaxSequence /\ sequence' = sequence + 1 /\ UNCHANGED <<retained, broadcast>>
          BY <3>2 DEF NumberSnapshot
        <4> DEFINE q == AttachSnapshot(resync)
        <4>3. /\ q \in Seq(Frame)
              /\ \A i \in 1 .. Len(q) : q[i].epoch = epoch /\ q[i].sequence = sequence + 1
          BY <1>0, <4>2, SnapshotFrames
        <4> HIDE DEF q
        <4>4. \A i \in 1 .. Len(q) : q[i].epoch = epoch /\ q[i].sequence <= sequence'
          BY <1>0, <4>2, <4>3
        <4> QED
          BY <1>0, <4>1, <4>2, <4>3, <4>4 DEF q
      <3> QED
        BY <1>5, <3>1, <3>2 DEF Attach, Replay
    <2>2. /\ Knows(Client)' /\ Probing(Client)'
          /\ \A f \in Frame : Past(f) => PastNext(f)
      BY <1>0, <2>0, <2>1, KnowsLater
    <2>3. wire.frames \o frames \in Seq(Frame)
      BY <1>0
    <2>4. /\ wire' \in Wires /\ wire'.frames = wire.frames \o frames
          /\ wire'.open = wire.open /\ wire'.cursor = wire.cursor /\ wire'.epoch = wire.epoch
      <3>1. PICK untold \in BOOLEAN : Attached(frames, untold)
        BY <2>1
      <3> QED
        BY <1>0, <2>3, <3>1, Zenon DEF Wires, Attached
    <2>5. \A i \in 1 .. Len(wire'.frames) : PastNext(wire'.frames[i])
      <3> SUFFICES ASSUME NEW i \in 1 .. Len(wire.frames \o frames)
                   PROVE  PastNext((wire.frames \o frames)[i])
        BY <2>4
      <3>1. CASE i \in 1 .. Len(wire.frames)
        <4>1. /\ (wire.frames \o frames)[i] = wire.frames[i]
              /\ wire.frames[i] \in Frame /\ Past(wire.frames[i])
          BY <1>0, <3>1 DEF EpochInv, WireKnows
        <4> QED
          BY <2>2, <4>1
      <3>2. CASE i \notin 1 .. Len(wire.frames)
        <4> DEFINE k == i - Len(wire.frames)
        <4>1. k \in 1 .. Len(frames) /\ (wire.frames \o frames)[i] = frames[k]
          BY <1>0, <3>2
        <4> QED
          BY <1>0, <2>0, <2>1, <4>1 DEF PastNext
      <3> QED
        BY <3>1, <3>2
    <2>6. WireKnows'
      BY <2>4, <2>5 DEF EpochInv, WireKnows, Past, PastNext
    <2>7. retained' \subseteq broadcast' /\ broadcast' \subseteq 1 .. sequence'
      BY <1>0, <2>1 DEF TypeOK
    <2>8. wire'.open = (stream'.phase = "open")
      BY <1>0, <2>0, <2>4, Zenon DEF TypeOK
    <2>9. TypeOK'
      BY <1>0, <2>0, <2>1, <2>4, <2>7, <2>8 DEF TypeOK
    <2> QED
      BY <2>2, <2>6, <2>9 DEF EpochInv
  <1> QED
    BY <1>1, <1>2, <1>3, <1>4, <1>5 DEF Daemon

\* Every step keeps the invariant and never takes the epoch back.
LEMMA NextEpochInv ==
  EpochInv /\ [Next]_vars => EpochInv' /\ stream'.currentEpoch >= stream.currentEpoch
  <1> SUFFICES ASSUME EpochInv, [Next]_vars
               PROVE  EpochInv' /\ stream'.currentEpoch >= stream.currentEpoch
    OBVIOUS
  <1> DEFINE c == Client
             Forward == stream'.currentEpoch >= stream.currentEpoch
  <1>0. /\ Counting /\ Knows(c) /\ Probing(c) /\ c \in Clients
        /\ c.s = stream /\ c.o = owner /\ stream \in Streams /\ wire \in Wires
        /\ stream.currentEpoch \in 0 .. MaxEpoch
    BY CountingHere, FieldTypes
  <1>f. /\ wire.frames \in Seq(Frame)
        /\ \A i \in 1 .. Len(wire.frames) : Past(wire.frames[i])
        /\ wire.cursor # NoSequence => wire.epoch # NoEpoch
        /\ wire.open = (stream.phase = "open")
    BY <1>0 DEF EpochInv, WireKnows, TypeOK, Wires
  <1>n. /\ NoWire \in Wires /\ Len(NoWire.frames) = 0 /\ NoWire.cursor = NoSequence
    BY NoWireType
  <1> HIDE DEF c
  <1>1. CASE Daemon
    <2>1. UNCHANGED stream
      <3>1. Attach => UNCHANGED stream
        BY DEF Attach
      <3>2. Restart => UNCHANGED stream
        BY DEF Restart
      <3>3. PrivateSnapshot \/ Activate \/ Forget => UNCHANGED stream
        BY DEF PrivateSnapshot, Activate, Forget
      <3>4. Publish => UNCHANGED stream
        BY DEF Publish
      <3> QED
        BY <1>1, <3>1, <3>2, <3>3, <3>4 DEF Daemon
    <2> QED
      BY <1>0, <1>1, <2>1, DaemonKeeps
  <1>2. CASE Connect
    <2> DEFINE d == [c EXCEPT !.s.phase = "open"]
               w == [NoWire EXCEPT !.open = TRUE, !.cursor = stream.lastSequence,
                                   !.epoch = Reference(stream)]
    <2>1. Becomes(d, w)
      BY <1>2 DEF Connect, c
    <2>2. d \in Clients /\ Unmoved(c, d) /\ d.s.probe = c.s.probe
      BY <1>0, Zenon DEF Clients, Streams, Unmoved
    <2>3. Knows(d) /\ Reference(d.s) = Reference(c.s)
      BY <1>0, <2>2, UnmovedKnows
    <2>4. Probing(d)
      BY <1>0, <2>2, <2>3, Zenon DEF Probing
    <2>5. stream.lastSequence \in -1 .. MaxSequence /\ Reference(stream) \in 0 .. MaxEpoch
      BY <1>0, FieldTypes
    <2>6. w \in Wires /\ w.open = TRUE /\ w.frames = NoWire.frames
          /\ w.cursor = stream.lastSequence /\ w.epoch = Reference(stream)
      BY <1>n, <2>5, Zenon DEF Wires
    <2>7. w.cursor # NoSequence => w.epoch # NoEpoch
      BY <1>0, <2>6 DEF Knows
    <2>8. stream' = d.s
      BY <2>1 DEF Becomes
    <2> HIDE DEF d, w
    <2>9. \A i \in 1 .. Len(w.frames) : Past(w.frames[i])
      BY <1>n, <2>6
    <2>10. EpochInv'
      BY <2>1, <2>3, <2>4, <2>6, <2>7, <2>9, BecomesKeeps
    <2> QED
      BY <1>0, <2>2, <2>8, <2>10 DEF Unmoved
  <1>3. ASSUME NEW p \in {"backoff", "stopped", "disposed"},
               Becomes(Invalidate(Client, p), NoWire)
        PROVE  EpochInv' /\ Forward
    <2> DEFINE d == Invalidate(c, p)
    <2>0. p \in {"backoff", "open", "stopped", "disposed"}
      OBVIOUS
    <2>1. /\ Knows(d) /\ Probing(d) /\ d.s.currentEpoch = c.s.currentEpoch
          /\ d.s.phase = p
      BY <1>0, <2>0, InvalidateKnows
    <2>2. d.s.phase # "open"
      BY <2>1
    <2>3. Becomes(d, NoWire) /\ stream' = d.s
      BY <1>3 DEF Becomes, c
    <2> HIDE DEF d
    <2>4. EpochInv'
      <3>1. \A i \in 1 .. Len(NoWire.frames) : Past(NoWire.frames[i])
        BY <1>n
      <3> QED
        BY <1>n, <2>1, <2>2, <2>3, <3>1, BecomesKeeps
    <2> QED
      BY <1>0, <2>1, <2>3, <2>4
  <1>4. CASE Disconnect \/ AuthorizationLost \/ Reconnect \/ Dispose
    BY <1>3, <1>4 DEF Disconnect, AuthorizationLost, Reconnect, Dispose
  <1>5. CASE ConnectionReady
    <2> DEFINE d == MarkReady(c)
               w == [wire EXCEPT !.ready = TRUE]
    <2>1. Becomes(d, w) /\ stream' = d.s /\ stream.phase = "open"
      BY <1>5 DEF ConnectionReady, Becomes, c
    <2>2. Knows(d) /\ Probing(d) /\ d.s.currentEpoch = c.s.currentEpoch
      BY <1>0, ReadyKnows DEF Unmoved
    <2>3. /\ w \in Wires /\ w.open = wire.open /\ w.frames = wire.frames
          /\ w.cursor = wire.cursor /\ w.epoch = wire.epoch
      BY <1>0, Zenon DEF Wires
    <2> HIDE DEF d, w
    <2>4. EpochInv'
      BY <1>f, <2>1, <2>2, <2>3, BecomesKeeps
    <2> QED
      BY <1>0, <2>1, <2>2, <2>4
  <1>6. CASE Receive
    <2> DEFINE f == Head(wire.frames)
               d == HandleEvent(c, f)
               w == [wire EXCEPT !.frames = Tail(@)]
    <2>1. Becomes(d, w) /\ stream' = d.s /\ stream.phase = "open" /\ wire.frames # <<>>
      BY <1>6 DEF Receive, Becomes, c
    <2>2. /\ f = wire.frames[1] /\ f \in Frame /\ Len(wire.frames) \in Nat
          /\ Tail(wire.frames) \in Seq(Frame) /\ Len(wire.frames) > 0
          /\ Len(Tail(wire.frames)) = Len(wire.frames) - 1
          /\ \A i \in 1 .. Len(Tail(wire.frames)) : Tail(wire.frames)[i] = wire.frames[i + 1]
      BY <1>f, <2>1
    <2>3. Past(f)
      BY <1>f, <2>2
    <2>4. Knows(d) /\ Probing(d) /\ d.s.currentEpoch >= c.s.currentEpoch
      BY <1>0, <2>2, <2>3, HandleEventKnows
    <2>5. /\ w \in Wires /\ w.open = wire.open /\ w.frames = Tail(wire.frames)
          /\ w.cursor = wire.cursor /\ w.epoch = wire.epoch
      BY <1>0, <2>2, Zenon DEF Wires
    <2>6. \A i \in 1 .. Len(Tail(wire.frames)) : Past(Tail(wire.frames)[i])
      BY <1>f, <2>2
    <2> HIDE DEF d, w
    <2>7. EpochInv'
      BY <1>f, <2>1, <2>4, <2>5, <2>6, BecomesKeeps
    <2> QED
      BY <1>0, <2>1, <2>4, <2>7
  <1>7. CASE ProbeAnswered
    <2>1. PICK answer \in {[state |-> "ready", epoch |-> epoch]}
                     \cup [state : {"failed", "unauthorized"}, epoch : {NoEpoch}] :
             Becomes([c EXCEPT !.s.probe.health = answer], wire)
      BY <1>7 DEF ProbeAnswered, c
    <2> DEFINE d == [c EXCEPT !.s.probe.health = answer]
    <2>2. answer \in Health /\ (answer.state = "ready" => answer.epoch = epoch)
      BY <1>0 DEF Health, Counting
    <2>3. d \in Clients /\ Unmoved(c, d) /\ d.s.probe = [c.s.probe EXCEPT !.health = answer]
      BY <1>0, <2>2, Zenon DEF Clients, Streams, Probes, Unmoved
    <2>4. Becomes(d, wire) /\ stream' = d.s
      BY <2>1 DEF Becomes
    <2>o. (stream.phase = "open" => wire.open = TRUE) /\ d.s.phase = stream.phase
      <3>1. d.s.phase = c.s.phase
        BY <1>0, Zenon DEF Clients, Streams
      <3> QED
        BY <1>0, <1>f, <3>1
    <2> HIDE DEF d
    <2>5. Knows(d) /\ Reference(d.s) = Reference(c.s)
      BY <1>0, <2>3, UnmovedKnows
    <2>6. /\ d.s.probe.kind = c.s.probe.kind /\ d.s.probe.frame = c.s.probe.frame
          /\ d.s.probe.reference = c.s.probe.reference /\ d.s.probe.health = answer
      BY <1>0, <2>3, Zenon DEF Streams, Probes
    <2>7. /\ Reference(c.s) <= epoch
      BY <1>0 DEF Knows, Reference
    <2>8. c.s.probe.frame.epoch <= epoch
      BY <1>0 DEF Probing, Past
    <2>9. epoch <= epoch
      BY <1>0 DEF Counting, Epochs
    <2>10. Probing(d)
      BY <1>0, <2>2, <2>5, <2>6, <2>7, <2>8, <2>9, Zenon DEF Probing
    <2>11. EpochInv'
      BY <1>0, <1>f, <2>4, <2>5, <2>10, <2>o, BecomesKeeps
    <2> QED
      BY <1>0, <2>3, <2>4, <2>11 DEF Unmoved
  <1>8. CASE ProbeSettles
    <2>1. PICK d : /\ Becomes(d, wire)
                   /\ \/ c.s.probe.kind = "foreign" /\ d = ForeignProbeEnds(c)
                      \/ c.s.probe.kind = "resubscribe" /\ d = ResubscribeProbeEnds(c)
      BY <1>8, <1>0 DEF ProbeSettles, c
    <2>2. /\ Knows(d) /\ Probing(d) /\ d.s.currentEpoch >= c.s.currentEpoch
          /\ d.s.phase \in {c.s.phase, "backoff", "stopped"}
      BY <1>0, <2>1, ForeignEndsKnows, ResubscribeEndsKnows
    <2>3. d.s.phase = "open" => wire.open = TRUE
      BY <1>0, <1>f, <2>2
    <2>4. EpochInv'
      BY <1>0, <1>f, <2>1, <2>2, <2>3, BecomesKeeps
    <2>5. stream' = d.s
      BY <2>1 DEF Becomes
    <2> QED
      BY <1>0, <2>2, <2>4, <2>5
  <1>9. CASE UNCHANGED vars
    <2>1. UNCHANGED <<sequence, retained, broadcast, epoch, activity, wire, stream, owner>>
      BY <1>9 DEF vars
    <2> QED
      BY <1>0, <2>1 DEF EpochInv, TypeOK, Knows, Probing, Past, WireKnows, Client
  <1> QED
    BY <1>1, <1>2, <1>4, <1>5, <1>6, <1>7, <1>8, <1>9 DEF Next
-----------------------------------------------------------------------------

LEMMA EpochInvHolds == Spec => []EpochInv
  <1>1. EpochInv /\ [Next]_vars => EpochInv'
    BY NextEpochInv
  <1> QED
    BY InitEpochInv, <1>1, PTL DEF Spec

\* The stream's state is well-formed in every run of createPiEventStream
\* against a daemon that restarts: a closed connection has no wire, and the
\* cursor and epoch it keeps are ones some daemon issued.
THEOREM StreamTyped == Spec => []TypeOK
  <1>1. EpochInv => TypeOK
    BY DEF EpochInv
  <1> QED
    BY EpochInvHolds, <1>1, PTL

\* handleEvent drops the frames of a retired epoch for good; whatever order
\* probes, restarts and frames come in, the live daemon's is never retired.
THEOREM LiveEpochSafe == Spec => []LiveEpochNeverRetired
  <1>1. EpochInv => LiveEpochNeverRetired
    BY CountingHere DEF Knows, LiveEpochNeverRetired, Epochs
  <1> QED
    BY EpochInvHolds, <1>1, PTL

\* The cursor connect sends was taken in the epoch it is sent with, so it can
\* never claim events that lifetime has not numbered yet.
THEOREM CursorSafe == Spec => []CursorBelongsToItsEpoch
  <1>1. EpochInv => CursorBelongsToItsEpoch
    BY CountingHere DEF EpochInv, Knows, WireKnows, CursorBelongsToItsEpoch
  <1> QED
    BY EpochInvHolds, <1>1, PTL

\* Adopting an epoch after a probe, or seeing a first one, never takes the
\* stream back to a daemon lifetime older than the one it was on.
THEOREM EpochsForward == Spec => EpochMovesForward
  <1>1. EpochInv /\ [Next]_vars => [stream'.currentEpoch >= stream.currentEpoch]_vars
    BY NextEpochInv
  <1> QED
    BY EpochInvHolds, <1>1, PTL DEF Spec, EpochMovesForward
-----------------------------------------------------------------------------
(* The inductive invariant, the part that is about the order of frames. *)

\* What the owner got is of the epoch announced to it, in order, and no
\* further than the cursor.
Delivering(c) ==
    /\ \A i \in 1 .. Len(c.o.delivered) :
          /\ c.o.delivered[i].epoch = c.o.epoch
          /\ c.o.delivered[i].sequence <= c.s.lastSequence
    /\ \A i, j \in 1 .. Len(c.o.delivered) :
          i < j => c.o.delivered[i].sequence < c.o.delivered[j].sequence

\* f comes before the frames of its epoch in q.
Below(f, q) ==
    \A i \in 1 .. Len(q) : q[i].epoch = f.epoch => f.sequence < q[i].sequence

\* The frames in flight are beyond the cursor.
Fresh(c, q) ==
    \A i \in 1 .. Len(q) :
        q[i].epoch = Reference(c.s) => c.s.lastSequence < q[i].sequence

\* A frame is held back, by the probe it started or behind another one.
ProbingFrame(c) == c.s.probe.kind = "foreign" /\ c.s.probe.current
Attending(c) == ProbingFrame(c) \/ c.s.pending.current

\* The frames held back come before the ones in flight and are not of the
\* stream's epoch.
HeldBack(c, q) ==
    /\ ProbingFrame(c) => Below(c.s.probe.frame, q)
    /\ c.s.pending.current =>
          /\ Below(c.s.pending.frame, q)
          /\ c.s.pending.frame.epoch # Reference(c.s)
          /\ c.s.probe.kind # "none"

Ordered(c, q) == Delivering(c) /\ Fresh(c, q) /\ HeldBack(c, q)

LEMMA UnmovedOrdered ==
  ASSUME NEW c, NEW d, NEW q, Ordered(c, q), Unmoved(c, d),
         \/ d.s.probe = c.s.probe
         \/ d.s.probe.kind = "resubscribe"
  PROVE  /\ Ordered(d, q)
         /\ Attending(d) => Attending(c)
         /\ Reference(d.s) = Reference(c.s)
  <1>1. Reference(d.s) = Reference(c.s)
    BY SameReference DEF Unmoved
  <1>2. Delivering(d) /\ Fresh(d, q)
    BY <1>1, Zenon DEF Ordered, Unmoved, Delivering, Fresh
  <1>3. ProbingFrame(d) => ProbingFrame(c) /\ d.s.probe = c.s.probe
    BY DEF ProbingFrame
  <1>4. d.s.probe.kind = "none" => c.s.probe.kind = "none"
    OBVIOUS
  <1>5. HeldBack(d, q)
    BY <1>1, <1>3, <1>4, Zenon DEF Ordered, Unmoved, HeldBack
  <1>6. Attending(d) => Attending(c)
    BY <1>3, Zenon DEF Attending, Unmoved
  <1> QED
    BY <1>1, <1>2, <1>5, <1>6 DEF Ordered

\* Delivering a frame that is beyond everything delivered.
LEMMA DeliverOrdered ==
  ASSUME NEW c \in Clients, Delivering(c), NEW f \in Frame, f.epoch = c.o.epoch,
         f.epoch = Reference(c.s), NEW q \in Seq(Frame), Below(f, q),
         c.s.lastSequence <= f.sequence,
         \A i \in 1 .. Len(c.o.delivered) : c.o.delivered[i].sequence < f.sequence
  PROVE  /\ Delivering(Deliver(c, f)) /\ Fresh(Deliver(c, f), q)
         /\ Deliver(c, f).s.probe = c.s.probe /\ Deliver(c, f).s.pending = c.s.pending
         /\ Reference(Deliver(c, f).s) = Reference(c.s)
  <1> DEFINE d == Deliver(c, f)
  <1>0. /\ c.o.delivered \in Seq(Frame) /\ f.sequence \in Int /\ c.s.lastSequence \in Int
        /\ c.s \in Streams
    <2>1. c.s \in Streams
      BY Zenon DEF Clients
    <2>2. c.s.lastSequence \in -1 .. MaxSequence /\ c.o.delivered \in Seq(Frame)
      BY FieldTypes
    <2>3. f.sequence \in 1 .. MaxSequence
      BY FrameType
    <2> QED
      BY <2>1, <2>2, <2>3
  <1>1. /\ d.s = [c.s EXCEPT !.lastSequence = MaxOf(@, f.sequence)]
        /\ d.o.epoch = c.o.epoch
        /\ d.o.delivered = Append(c.o.delivered, f)
    BY DeliverFields
  <1> HIDE DEF d
  <1>2. /\ d.s.lastSequence = MaxOf(c.s.lastSequence, f.sequence)
        /\ d.s.currentEpoch = c.s.currentEpoch /\ d.s.ownerEpoch = c.s.ownerEpoch
        /\ d.s.probe = c.s.probe /\ d.s.pending = c.s.pending
    BY <1>0, <1>1, Zenon DEF Streams
  <1>3. d.s.lastSequence = f.sequence
    BY <1>0, <1>2 DEF MaxOf
  <1>4. Reference(d.s) = Reference(c.s)
    BY <1>2, SameReference
  <1>5. Fresh(d, q)
    BY <1>3, <1>4 DEF Fresh, Below
  <1> DEFINE m == Len(c.o.delivered)
  <1>6. /\ m \in Nat /\ Len(d.o.delivered) = m + 1
        /\ \A i \in 1 .. m : d.o.delivered[i] = c.o.delivered[i] /\ c.o.delivered[i] \in Frame
        /\ d.o.delivered[m + 1] = f
    BY <1>0, <1>1
  <1>7. \A i \in 1 .. m : c.o.delivered[i].sequence \in Int
    BY <1>6, FrameType
  <1>8. Delivering(d)
    <2>1. ASSUME NEW i \in 1 .. Len(d.o.delivered)
          PROVE  /\ d.o.delivered[i].epoch = d.o.epoch
                 /\ d.o.delivered[i].sequence <= d.s.lastSequence
      <3>1. CASE i \in 1 .. m
        <4>1. /\ d.o.delivered[i] = c.o.delivered[i]
              /\ c.o.delivered[i].epoch = c.o.epoch
              /\ c.o.delivered[i].sequence < f.sequence
              /\ c.o.delivered[i].sequence \in Int
          BY <1>6, <1>7, <3>1 DEF Delivering
        <4> QED
          BY <1>0, <1>1, <1>3, <4>1
      <3>2. CASE i = m + 1
        <4>1. d.o.delivered[i] = f
          BY <1>6, <3>2
        <4>2. f.sequence <= f.sequence
          BY <1>0
        <4> QED
          BY <1>1, <1>3, <4>1, <4>2
      <3> QED
        BY <1>6, <2>1, <3>1, <3>2
    <2>2. ASSUME NEW i \in 1 .. Len(d.o.delivered), NEW j \in 1 .. Len(d.o.delivered), i < j
          PROVE  d.o.delivered[i].sequence < d.o.delivered[j].sequence
      <3>1. i \in 1 .. m
        BY <1>6, <2>2
      <3>2. CASE j \in 1 .. m
        BY <1>6, <2>2, <3>1, <3>2 DEF Delivering
      <3>3. CASE j = m + 1
        BY <1>6, <3>1, <3>3
      <3> QED
        BY <1>6, <3>2, <3>3
    <2> QED
      BY <2>1, <2>2 DEF Delivering
  <1> QED
    BY <1>2, <1>4, <1>5, <1>8 DEF d

\* handleEvent keeps the order: the frame it is given is ahead of the cursor
\* and behind the frames still in flight.
LEMMA HandleEventOrdered ==
  ASSUME Counting, NEW c, Knows(c), Probing(c), NEW q \in Seq(Frame), Ordered(c, q),
         NEW f \in Frame, Past(f), Below(f, q),
         f.epoch = Reference(c.s) => c.s.lastSequence < f.sequence
  PROVE  Ordered(HandleEvent(c, f), q)
  <1>0. /\ c \in Clients /\ c.s \in Streams /\ c.o.epoch = Reference(c.s)
        /\ c.s.lastSequence \in Int /\ f.sequence \in 1 .. MaxSequence
        /\ f.epoch \in 1 .. MaxEpoch
        /\ c.o.delivered \in Seq(Frame)
    BY ClientOf, FieldTypes, FrameType DEF Knows
  <1>d. \A i \in 1 .. Len(c.o.delivered) : c.o.delivered[i].sequence \in Int
    <2>1. \A i \in 1 .. Len(c.o.delivered) : c.o.delivered[i] \in Frame
      BY <1>0
    <2> QED
      BY <2>1, FrameType
  <1>1. CASE f.epoch = c.s.currentEpoch
    <2>1. HandleEvent(c, f) = Deliver(c, f)
      BY <1>1 DEF HandleEvent
    <2>2. f.epoch = Reference(c.s)
      BY <1>0, <1>1 DEF Reference, NoEpoch
    <2>3. /\ c.s.lastSequence <= f.sequence
          /\ \A i \in 1 .. Len(c.o.delivered) : c.o.delivered[i].sequence < f.sequence
      BY <1>0, <1>d, <2>2 DEF Ordered, Delivering
    <2> DEFINE d == Deliver(c, f)
    <2>4. /\ Delivering(d) /\ Fresh(d, q) /\ d.s.probe = c.s.probe
          /\ d.s.pending = c.s.pending /\ Reference(d.s) = Reference(c.s)
      BY <1>0, <2>2, <2>3, DeliverOrdered DEF Ordered
    <2> HIDE DEF d
    <2>5. HeldBack(d, q)
      BY <2>4, Zenon DEF Ordered, HeldBack, ProbingFrame
    <2> QED
      BY <2>1, <2>4, <2>5 DEF Ordered, d
  <1>2. CASE f.epoch # c.s.currentEpoch /\ f.epoch \in c.s.retired
    BY <1>2 DEF HandleEvent
  <1>3. CASE /\ f.epoch # c.s.currentEpoch /\ f.epoch \notin c.s.retired
             /\ Reference(c.s) \in {NoEpoch, f.epoch}
    <2> DEFINE m == Moved(c, f)
               d == Deliver(m, f)
    <2>1. HandleEvent(c, f) = d
      BY <1>3 DEF HandleEvent, Moved
    <2>2. /\ Knows(m) /\ Reference(m.s) = f.epoch
          /\ m.s.lastSequence = c.s.lastSequence
          /\ m.s.probe = c.s.probe /\ m.s.pending = c.s.pending
          /\ m.o.delivered = IF Reference(c.s) = NoEpoch THEN <<>> ELSE c.o.delivered
      BY <1>3, MoveKnows
    <2> HIDE DEF m
    <2>3. m \in Clients /\ m.o.epoch = f.epoch
      BY <2>2, ClientOf DEF Knows
    <2>4. /\ Delivering(m) /\ m.s.lastSequence <= f.sequence
          /\ \A i \in 1 .. Len(m.o.delivered) : m.o.delivered[i].sequence < f.sequence
      <3>1. CASE Reference(c.s) = NoEpoch
        <4>1. m.o.delivered = <<>> /\ c.s.lastSequence = NoSequence
          BY <2>2, <3>1 DEF Knows
        <4> QED
          BY <1>0, <2>2, <4>1 DEF Delivering, NoSequence
      <3>2. CASE Reference(c.s) # NoEpoch
        <4>1. m.o.delivered = c.o.delivered /\ Reference(c.s) = f.epoch
          BY <1>3, <2>2, <3>2
        <4> QED
          BY <1>0, <1>d, <2>2, <2>3, <4>1 DEF Ordered, Delivering
      <3> QED
        BY <3>1, <3>2
    <2>5. /\ Delivering(d) /\ Fresh(d, q) /\ d.s.probe = m.s.probe
          /\ d.s.pending = m.s.pending /\ Reference(d.s) = Reference(m.s)
      BY <2>2, <2>3, <2>4, DeliverOrdered
    <2> HIDE DEF d
    <2>6. HeldBack(d, q)
      <3>1. ProbingFrame(d) => Below(d.s.probe.frame, q)
        BY <2>2, <2>5, Zenon DEF Ordered, HeldBack, ProbingFrame
      <3>2. ASSUME d.s.pending.current
            PROVE  /\ Below(d.s.pending.frame, q) /\ d.s.probe.kind # "none"
                   /\ d.s.pending.frame.epoch # Reference(d.s)
        <4>1. /\ Below(c.s.pending.frame, q) /\ c.s.probe.kind # "none"
              /\ c.s.pending.frame.epoch # Reference(c.s)
          BY <2>2, <2>5, <3>2 DEF Ordered, HeldBack
        <4>2. Reference(c.s) = f.epoch
          BY <1>3, <4>1 DEF Probing
        <4> QED
          BY <2>2, <2>5, <4>1, <4>2
      <3> QED
        BY <3>1, <3>2 DEF HeldBack
    <2> QED
      BY <2>1, <2>5, <2>6 DEF Ordered
  <1>4. CASE /\ f.epoch # c.s.currentEpoch /\ f.epoch \notin c.s.retired
             /\ Reference(c.s) \notin {NoEpoch, f.epoch}
    <2>1. CASE c.s.probe.kind = "none"
      <3> DEFINE d == Probe(c, "foreign", f)
      <3>1. HandleEvent(c, f) = d
        BY <1>4, <2>1 DEF HandleEvent
      <3>2. /\ d.o = c.o
            /\ d.s = [c.s EXCEPT !.probe =
                  [kind |-> "foreign", frame |-> f, current |-> TRUE,
                   reference |-> Reference(c.s), health |-> NoHealth]]
        BY <1>0, ProbeFields
      <3> HIDE DEF d
      <3>3. Unmoved(c, d)
        BY <1>0, <3>2, Zenon DEF Streams, Unmoved
      <3>4. d.s.probe.frame = f
        <4>1. d.s.probe = [kind |-> "foreign", frame |-> f, current |-> TRUE,
                           reference |-> Reference(c.s), health |-> NoHealth]
          BY <1>0, <3>2, Zenon DEF Streams
        <4> QED
          BY <4>1
      <3>5. Reference(d.s) = Reference(c.s)
        BY <3>3, SameReference DEF Unmoved
      <3>6. ~c.s.pending.current
        BY <2>1 DEF Ordered, HeldBack
      <3>7. Delivering(d) /\ Fresh(d, q)
        BY <3>3, <3>5, Zenon DEF Ordered, Unmoved, Delivering, Fresh
      <3>8. HeldBack(d, q)
        BY <3>3, <3>4, <3>6, Zenon DEF HeldBack, Unmoved
      <3> QED
        BY <3>1, <3>7, <3>8 DEF Ordered
    <2>2. CASE c.s.probe.kind # "none" /\ c.s.pending.frame # NoFrame
      BY <1>4, <2>2 DEF HandleEvent
    <2>3. CASE c.s.probe.kind # "none" /\ c.s.pending.frame = NoFrame
      <3> DEFINE d == Held(c, f)
      <3>1. HandleEvent(c, f) = d
        BY <1>4, <2>3 DEF HandleEvent, Held
      <3>2. d.o = c.o /\ d.s = [c.s EXCEPT !.pending = [frame |-> f, current |-> TRUE]]
        BY <1>0, HeldFields
      <3> HIDE DEF d
      <3>3. /\ d.s.currentEpoch = c.s.currentEpoch /\ d.s.ownerEpoch = c.s.ownerEpoch
            /\ d.s.pending = [frame |-> f, current |-> TRUE]
            /\ d.s.probe = c.s.probe /\ d.s.lastSequence = c.s.lastSequence
        BY <1>0, <3>2, Zenon DEF Streams
      <3>4. d.s.pending.frame = f
        BY <3>3
      <3>5. Reference(d.s) = Reference(c.s)
        BY <3>3, SameReference
      <3>6. Delivering(d) /\ Fresh(d, q)
        BY <3>2, <3>3, <3>5, Zenon DEF Ordered, Delivering, Fresh
      <3>7. f.epoch # Reference(d.s)
        BY <1>4, <3>5
      <3>8. HeldBack(d, q)
        BY <2>3, <3>3, <3>4, <3>7, Zenon DEF Ordered, HeldBack, ProbingFrame
      <3> QED
        BY <3>1, <3>6, <3>8 DEF Ordered
    <2> QED
      BY <2>1, <2>2, <2>3
  <1> QED
    BY <1>1, <1>2, <1>3, <1>4

\* A probe that ends leaves nothing held back.
LEMMA DoneOrdered ==
  ASSUME NEW c \in Clients, NEW q, Delivering(c), Fresh(c, q)
  PROVE  /\ Ordered(ProbeDone(c), q) /\ ~Attending(ProbeDone(c))
         /\ Reference(ProbeDone(c).s) = Reference(c.s)
         /\ ProbeDone(c).s.lastSequence = c.s.lastSequence
  <1> DEFINE d == ProbeDone(c)
  <1>1. /\ d.o = c.o /\ d.s.probe.kind = "none" /\ ~d.s.pending.current
        /\ d.s = [c.s EXCEPT !.probe = NoProbe, !.pending = NoPending]
    BY DoneFields
  <1> HIDE DEF d
  <1>2. /\ d.s.currentEpoch = c.s.currentEpoch /\ d.s.ownerEpoch = c.s.ownerEpoch
        /\ d.s.lastSequence = c.s.lastSequence
    BY <1>1, Zenon DEF Clients, Streams
  <1>3. Reference(d.s) = Reference(c.s)
    BY <1>2, SameReference
  <1>4. Delivering(d) /\ Fresh(d, q)
    BY <1>1, <1>2, <1>3, Zenon DEF Delivering, Fresh
  <1>5. HeldBack(d, q) /\ ~Attending(d)
    BY <1>1 DEF HeldBack, Attending, ProbingFrame
  <1> QED
    BY <1>2, <1>3, <1>4, <1>5 DEF Ordered, d

LEMMA InvalidateOrdered ==
  ASSUME NEW c \in Clients, NEW p \in {"backoff", "open", "stopped", "disposed"},
         NEW q, Ordered(c, q)
  PROVE  /\ Ordered(Invalidate(c, p), q) /\ ~Attending(Invalidate(c, p))
         /\ Reference(Invalidate(c, p).s) = Reference(c.s)
         /\ Invalidate(c, p).s.lastSequence = c.s.lastSequence
  <1> DEFINE d == Invalidate(c, p)
  <1>1. /\ d.o = c.o
        /\ d.s.currentEpoch = c.s.currentEpoch /\ d.s.ownerEpoch = c.s.ownerEpoch
        /\ d.s.lastSequence = c.s.lastSequence
        /\ d.s.probe = [c.s.probe EXCEPT !.current = FALSE]
        /\ d.s.pending = [c.s.pending EXCEPT !.current = FALSE]
    BY InvalidateFields
  <1> HIDE DEF d
  <1>2. ~d.s.pending.current /\ ~d.s.probe.current
    BY <1>1, Zenon DEF Clients, Streams, Probes
  <1>3. Reference(d.s) = Reference(c.s)
    BY <1>1, SameReference
  <1>4. Delivering(d) /\ Fresh(d, q)
    BY <1>1, <1>3, Zenon DEF Ordered, Delivering, Fresh
  <1>5. HeldBack(d, q) /\ ~Attending(d)
    BY <1>2 DEF HeldBack, Attending, ProbingFrame
  <1> QED
    BY <1>1, <1>3, <1>4, <1>5 DEF Ordered, d

LEMMA ForeignVerdictOrdered ==
  ASSUME Counting, NEW c, Knows(c), Probing(c), c.s.probe.kind = "foreign",
         NEW q \in Seq(Frame), Ordered(c, q)
  PROVE  /\ Delivering(ForeignVerdict(c)) /\ Fresh(ForeignVerdict(c), q)
         /\ ~c.s.probe.current => ForeignVerdict(c) = c
  <1> DEFINE probe == c.s.probe
             f == c.s.probe.frame
  <1>0. /\ c \in Clients /\ f \in Frame /\ f.epoch \in Epochs
        /\ f.sequence \in -1 .. MaxSequence
        /\ Reference(c.s) \in 0 .. MaxEpoch /\ epoch \in Epochs
        /\ probe.health.epoch \in 0 .. MaxEpoch /\ f.epoch \in 1 .. MaxEpoch
    BY ClientOf, FieldTypes, FrameType, HealthType DEF Probing, Epochs, Counting
  <1>1. CASE ~probe.current
    BY <1>1 DEF ForeignVerdict, Ordered
  <1>2. CASE /\ probe.current /\ probe.health.state = "ready"
             /\ probe.health.epoch = f.epoch
    <2> DEFINE d == Adopt(c, f.epoch, f.sequence)
    <2>1. ForeignVerdict(c) = Deliver(d, f)
      BY <1>2 DEF ForeignVerdict
    <2>2. /\ c.s.probe.reference = Reference(c.s) /\ Reference(c.s) # NoEpoch
          /\ Reference(c.s) < f.epoch /\ f.epoch <= epoch
          /\ f.epoch = epoch => f.sequence <= sequence
      BY <1>0, <1>2 DEF Probing, Past, Epochs
    <2>3. /\ Knows(d) /\ Reference(d.s) = f.epoch /\ d.o.delivered = <<>>
          /\ d.s.lastSequence = f.sequence
      BY <1>0, <2>2, AdoptKnows
    <2> HIDE DEF d
    <2>4. /\ d \in Clients /\ d.o.epoch = f.epoch /\ Delivering(d)
          /\ d.s.lastSequence <= f.sequence
      BY <1>0, <2>3, ClientOf DEF Knows, Delivering
    <2>5. Below(f, q)
      BY <1>2 DEF Ordered, HeldBack, ProbingFrame, Attending
    <2>6. \A i \in 1 .. Len(d.o.delivered) : d.o.delivered[i].sequence < f.sequence
      BY <2>3
    <2> QED
      BY <1>0, <1>2, <2>1, <2>3, <2>4, <2>5, <2>6, DeliverOrdered
  <1>3. CASE /\ probe.current /\ probe.health.state = "ready"
             /\ probe.health.epoch # f.epoch
    <2> DEFINE d == Retire(c, f.epoch)
    <2>1. ForeignVerdict(c) = d
      BY <1>3 DEF ForeignVerdict
    <2>2. f.epoch < epoch
      BY <1>0, <1>3 DEF Probing, Epochs
    <2>3. /\ d.o = c.o /\ d.s.currentEpoch = c.s.currentEpoch
          /\ d.s.ownerEpoch = c.s.ownerEpoch /\ d.s.lastSequence = c.s.lastSequence
      BY <1>0, <2>2, RetireKnows
    <2> HIDE DEF d
    <2>4. Reference(d.s) = Reference(c.s)
      BY <2>3, SameReference
    <2> QED
      BY <1>3, <2>1, <2>3, <2>4, Zenon DEF Ordered, Delivering, Fresh
  <1>4. CASE probe.current /\ probe.health.state # "ready"
    <2>1. ForeignVerdict(c) \in {Invalidate(c, "stopped"), Invalidate(c, "backoff")}
      BY <1>4 DEF ForeignVerdict
    <2> QED
      BY <1>0, <1>4, <2>1, InvalidateOrdered DEF Ordered
  <1> QED
    BY <1>1, <1>2, <1>3, <1>4

LEMMA ForeignEndsOrdered ==
  ASSUME Counting, NEW c, Knows(c), Probing(c), c.s.probe.kind = "foreign",
         NEW q \in Seq(Frame), Ordered(c, q)
  PROVE  /\ Ordered(ForeignProbeEnds(c), q)
         /\ ~Attending(ForeignProbeEnds(c))
         /\ ~Attending(c) =>
              /\ Reference(ForeignProbeEnds(c).s) = Reference(c.s)
              /\ ForeignProbeEnds(c).s.lastSequence = c.s.lastSequence
  <1> DEFINE v == ForeignVerdict(c)
             d == ProbeDone(v)
             r == RunDeferred(d)
  <1>1. /\ Knows(v) /\ Delivering(v) /\ Fresh(v, q)
        /\ ~c.s.probe.current => v = c
    BY ForeignVerdictKnows, ForeignVerdictOrdered
  <1> HIDE DEF v
  <1>2. /\ Knows(d) /\ Probing(d) /\ Ordered(d, q) /\ ~Attending(d)
        /\ Reference(d.s) = Reference(v.s) /\ d.s.lastSequence = v.s.lastSequence
    BY <1>1, ClientOf, DoneKnows, DoneOrdered
  <1> HIDE DEF d
  <1>3. /\ Unmoved(d, r)
        /\ r.s.probe = d.s.probe \/ r.s.probe.kind = "resubscribe"
    BY <1>2, DeferredKnows
  <1>h. ForeignProbeEnds(c) = r
    BY DEF ForeignProbeEnds, r, d, v
  <1> HIDE DEF r
  <1>4. Ordered(r, q) /\ ~Attending(r) /\ Reference(r.s) = Reference(d.s)
    BY <1>2, <1>3, UnmovedOrdered
  <1>5. r.s.lastSequence = d.s.lastSequence
    BY <1>3 DEF Unmoved
  <1>6. ~Attending(c) => ~c.s.probe.current
    BY DEF Attending, ProbingFrame
  <1> QED
    BY <1>1, <1>2, <1>4, <1>5, <1>6, <1>h

LEMMA ResubscribeEndsOrdered ==
  ASSUME Counting, NEW c, Knows(c), Probing(c), c.s.probe.kind = "resubscribe",
         NEW q \in Seq(Frame), Ordered(c, q)
  PROVE  /\ Ordered(ResubscribeProbeEnds(c), q)
         /\ ~Attending(c) =>
              /\ ~Attending(ResubscribeProbeEnds(c))
              /\ \/ ResubscribeProbeEnds(c).s.lastSequence = NoSequence
                 \/ /\ Reference(ResubscribeProbeEnds(c).s) = Reference(c.s)
                    /\ ResubscribeProbeEnds(c).s.lastSequence = c.s.lastSequence
  <1> DEFINE held == c.s.pending
             f == c.s.pending.frame
             v == ResubscribeVerdict(c)
             d == ProbeDone(v)
             h == IF held.current THEN HandleEvent(d, held.frame) ELSE d
             r == RunDeferred(h)
  <1>1. /\ Knows(v)
        /\ \/ v = c
           \/ v.s.lastSequence = NoSequence /\ v.o.delivered = <<>>
    BY ResubscribeVerdictKnows
  <1>r. ResubscribeProbeEnds(c) = r
    BY DEF ResubscribeProbeEnds, r, h, d, v
  <1> HIDE DEF v
  <1>2. Delivering(v) /\ Fresh(v, q)
    <2>1. CASE v = c
      BY <2>1 DEF Ordered
    <2>2. CASE v.s.lastSequence = NoSequence /\ v.o.delivered = <<>>
      <3>1. \A i \in 1 .. Len(q) : NoSequence < q[i].sequence
        <4>1. \A i \in 1 .. Len(q) : q[i] \in Frame
          OBVIOUS
        <4> QED
          BY <4>1, FrameType DEF NoSequence
      <3> QED
        BY <2>2, <3>1 DEF Delivering, Fresh
    <2> QED
      BY <1>1, <2>1, <2>2
  <1>3. /\ Knows(d) /\ Probing(d) /\ Ordered(d, q) /\ ~Attending(d)
        /\ Reference(d.s) = Reference(v.s) /\ d.s.lastSequence = v.s.lastSequence
    BY <1>1, <1>2, ClientOf, DoneKnows, DoneOrdered
  <1> HIDE DEF d
  <1>4. /\ Knows(h) /\ Probing(h) /\ Ordered(h, q)
        /\ ~held.current => h = d
    <2>1. CASE held.current
      <3>1. f \in Frame /\ Past(f) /\ Below(f, q) /\ f.epoch # Reference(c.s)
        BY <2>1 DEF Knows, Ordered, HeldBack
      <3>2. f.epoch = Reference(d.s) => d.s.lastSequence < f.sequence
        <4>1. ASSUME f.epoch = Reference(d.s) PROVE d.s.lastSequence = NoSequence
          BY <1>1, <1>3, <3>1, <4>1
        <4>2. NoSequence < f.sequence
          BY <3>1, FrameType DEF NoSequence
        <4> QED
          BY <4>1, <4>2
      <3>3. h = HandleEvent(d, f)
        BY <2>1
      <3> QED
        BY <1>3, <2>1, <3>1, <3>2, <3>3, HandleEventKnows, HandleEventOrdered
    <2>2. CASE ~held.current
      BY <1>3, <2>2
    <2> QED
      BY <2>1, <2>2
  <1> HIDE DEF h
  <1>5. /\ Unmoved(h, r)
        /\ r.s.probe = h.s.probe \/ r.s.probe.kind = "resubscribe"
    BY <1>4, DeferredKnows
  <1> HIDE DEF r
  <1>6. /\ Ordered(r, q) /\ (Attending(r) => Attending(h))
        /\ Reference(r.s) = Reference(h.s) /\ r.s.lastSequence = h.s.lastSequence
    BY <1>4, <1>5, UnmovedOrdered DEF Unmoved
  <1>7. ASSUME ~Attending(c)
        PROVE  /\ ~Attending(r)
               /\ \/ r.s.lastSequence = NoSequence
                  \/ Reference(r.s) = Reference(c.s) /\ r.s.lastSequence = c.s.lastSequence
    <2>1. h = d
      BY <1>4, <1>7 DEF Attending
    <2> QED
      BY <1>1, <1>3, <1>6, <2>1
  <1> QED
    BY <1>6, <1>7, <1>r

\* The frames of one lifetime are in flight in the daemon's order.
InFlight(q) ==
    \A i, j \in 1 .. Len(q) :
        i < j /\ q[i].epoch = q[j].epoch => q[i].sequence < q[j].sequence

\* Before the daemon has answered a subscription nothing is in flight or held
\* back, and the cursor it was sent is as far as the stream got.
Subscribed(c, w) ==
    ~w.attached =>
        /\ w.frames = <<>> /\ ~Attending(c)
        /\ w.open => \/ c.s.lastSequence = NoSequence
                     \/ /\ w.epoch = Reference(c.s)
                        /\ c.s.lastSequence <= w.cursor

OrderInv ==
    /\ Ordered(Client, wire.frames)
    /\ InFlight(wire.frames)
    /\ Subscribed(Client, wire)
    /\ wire.attached => wire.open

LEMMA InitOrderInv == Init => OrderInv
  <1> SUFFICES ASSUME Init PROVE OrderInv
    OBVIOUS
  <1>1. /\ wire = NoWire /\ owner.delivered = <<>> /\ Client.s = stream /\ Client.o = owner
        /\ stream.probe = NoProbe /\ stream.pending = NoPending
    BY DEF Init, Client
  <1>2. /\ wire.frames = <<>> /\ ~wire.open /\ ~wire.attached
    BY <1>1, NoWireType
  <1>3. NoProbe.kind = "none" /\ ~NoPending.current
    BY DEF NoProbe, NoPending
  <1>4. ~Attending(Client) /\ HeldBack(Client, wire.frames)
    BY <1>1, <1>3 DEF Attending, ProbingFrame, HeldBack
  <1>5. Delivering(Client) /\ Fresh(Client, wire.frames)
    BY <1>1, <1>2 DEF Delivering, Fresh
  <1> QED
    BY <1>2, <1>4, <1>5 DEF OrderInv, Ordered, InFlight, Subscribed

\* Frames numbered after everything the stream knows keep the order.
LEMMA ExtendOrdered ==
  ASSUME EpochInv, OrderInv, NEW p \in Seq(Frame),
         \A i \in 1 .. Len(p) : p[i].epoch = epoch,
         \A i \in 1 .. Len(p) : sequence < p[i].sequence,
         \A i, j \in 1 .. Len(p) : i < j => p[i].sequence < p[j].sequence
  PROVE  Ordered(Client, wire.frames \o p) /\ InFlight(wire.frames \o p)
  <1> DEFINE q == wire.frames
             r == q \o p
             n == Len(q)
             c == Client
  <1>0. /\ q \in Seq(Frame) /\ sequence \in Int /\ epoch \in Int
        /\ Knows(c) /\ Probing(c) /\ c \in Clients
    BY CountingHere DEF Wires, Epochs
  <1>1. /\ r \in Seq(Frame) /\ n \in Nat /\ Len(p) \in Nat /\ Len(r) = n + Len(p)
        /\ \A i \in 1 .. n : r[i] = q[i] /\ q[i] \in Frame
        /\ \A i \in n + 1 .. Len(r) : r[i] = p[i - n] /\ i - n \in 1 .. Len(p)
        /\ \A i \in 1 .. Len(p) : p[i] \in Frame
    BY <1>0
  <1>t. \A f \in Frame \cup {NoFrame} : f.epoch \in Int /\ f.sequence \in Int
    BY FrameType, NoFrameType
  <1> HIDE DEF r
  <1>2. \A i \in n + 1 .. Len(r) : r[i].epoch = epoch /\ sequence < r[i].sequence
    BY <1>1
  <1>s. \A i \in 1 .. Len(r) : i \notin 1 .. n => i \in n + 1 .. Len(r)
    BY <1>1
  <1>3. Fresh(c, r)
    <2> SUFFICES ASSUME NEW i \in 1 .. Len(r), r[i].epoch = Reference(c.s)
                 PROVE  c.s.lastSequence < r[i].sequence
      BY DEF Fresh
    <2>1. CASE i \in 1 .. n
      BY <1>1, <2>1 DEF OrderInv, Ordered, Fresh
    <2>2. CASE i \in n + 1 .. Len(r)
      <3>1. c.s.lastSequence \in Int /\ r[i].sequence \in Int
        BY <1>0, <1>1, <1>t, <2>2, FieldTypes
      <3> QED
        BY <1>0, <1>2, <2>2, <3>1 DEF Knows
    <2> QED
      BY <1>s, <2>1, <2>2
  <1>4. ASSUME NEW f \in Frame \cup {NoFrame}, Past(f), Below(f, q) PROVE Below(f, r)
    <2> SUFFICES ASSUME NEW i \in 1 .. Len(r), r[i].epoch = f.epoch
                 PROVE  f.sequence < r[i].sequence
      BY DEF Below
    <2>1. CASE i \in 1 .. n
      BY <1>1, <1>4, <2>1 DEF Below
    <2>2. CASE i \in n + 1 .. Len(r)
      <3>1. f.sequence \in Int /\ r[i].sequence \in Int
        BY <1>1, <1>t, <2>2
      <3> QED
        BY <1>0, <1>2, <1>4, <2>2, <3>1 DEF Past
    <2> QED
      BY <1>s, <2>1, <2>2
  <1>5. HeldBack(c, r)
    <2>1. /\ c.s.probe.frame \in Frame \cup {NoFrame} /\ Past(c.s.probe.frame)
          /\ c.s.pending.frame \in Frame \cup {NoFrame} /\ Past(c.s.pending.frame)
      BY <1>0, FieldTypes DEF Knows, Probing
    <2> QED
      BY <1>4, <2>1, Zenon DEF OrderInv, Ordered, HeldBack
  <1>6. InFlight(r)
    <2> SUFFICES ASSUME NEW i \in 1 .. Len(r), NEW j \in 1 .. Len(r), i < j,
                        r[i].epoch = r[j].epoch
                 PROVE  r[i].sequence < r[j].sequence
      BY DEF InFlight
    <2>1. CASE j \in 1 .. n
      <3>1. i \in 1 .. n
        BY <1>1, <2>1
      <3> QED
        BY <1>1, <2>1, <3>1 DEF OrderInv, InFlight
    <2>2. CASE j \in n + 1 .. Len(r) /\ i \in 1 .. n
      <3>1. Past(q[i]) /\ r[i] = q[i] /\ q[i].sequence \in Int /\ r[j] \in Frame
        BY <1>1, <1>t, <2>2 DEF EpochInv, WireKnows
      <3>2. r[j].sequence \in Int /\ r[j].epoch = epoch /\ sequence < r[j].sequence
        BY <1>2, <1>t, <2>2, <3>1
      <3> QED
        BY <1>0, <3>1, <3>2 DEF Past
    <2>3. CASE j \in n + 1 .. Len(r) /\ i \in n + 1 .. Len(r)
      <3>1. /\ i - n \in 1 .. Len(p) /\ j - n \in 1 .. Len(p) /\ i - n < j - n
            /\ r[i] = p[i - n] /\ r[j] = p[j - n]
        BY <1>1, <2>3
      <3> QED
        BY <3>1
    <2> QED
      BY <1>s, <2>1, <2>2, <2>3
  <1> QED
    BY <1>3, <1>5, <1>6 DEF OrderInv, Ordered, r

\* The daemon's steps.
LEMMA DaemonOrdered ==
  ASSUME EpochInv, OrderInv, Daemon PROVE OrderInv'
  <1>0. /\ TypeOK /\ sequence \in Int /\ epoch \in Int /\ wire \in Wires
        /\ wire.frames \in Seq(Frame) /\ Knows(Client) /\ Client \in Clients
        /\ wire.attached \in BOOLEAN /\ MaxSequence \in Nat /\ sequence \in 0 .. MaxSequence
        /\ epoch \in Epochs /\ wire.cursor \in Int
    BY CountingHere, MaxSequenceAssumption DEF EpochInv, Wires, Epochs
  <1>1. UNCHANGED <<stream, owner>> /\ Client' = Client
    BY DEF Daemon, Publish, PrivateSnapshot, Activate, Forget, Restart, Attach, Client
  <1>2. ASSUME wire'.frames = wire.frames, wire'.attached = wire.attached,
               wire'.open = wire.open, wire'.epoch = wire.epoch, wire'.cursor = wire.cursor
        PROVE  OrderInv'
    BY <1>1, <1>2 DEF OrderInv, Subscribed
  <1>3. CASE Publish \/ Forget
    <2> DEFINE f == EventFrame(sequence + 1)
    <2>1. sequence < MaxSequence /\ DeliverToWire(f)
      BY <1>3 DEF Publish, Forget, Broadcast
    <2>2. f \in Frame /\ f.epoch = epoch /\ f.sequence = sequence + 1
      BY <1>0, <2>1 DEF EventFrame, Frame
    <2> HIDE DEF f
    <2>3. CASE wire.attached /\ ~wire.ended
      <3>1. wire' = [wire EXCEPT !.frames = Append(@, f)]
        BY <2>1, <2>3 DEF DeliverToWire
      <3>2. /\ wire'.frames = Append(wire.frames, f) /\ wire'.attached = wire.attached
            /\ wire'.open = wire.open
        BY <1>0, <3>1, Zenon DEF Wires
      <3>3. /\ Append(wire.frames, f) = wire.frames \o <<f>> /\ <<f>> \in Seq(Frame)
            /\ Len(<<f>>) = 1 /\ <<f>>[1] = f
        BY <1>0, <2>2
      <3>4. Ordered(Client, wire.frames \o <<f>>) /\ InFlight(wire.frames \o <<f>>)
        <4> DEFINE p == <<f>>
        <4>1. /\ p \in Seq(Frame)
              /\ \A i \in 1 .. Len(p) : p[i].epoch = epoch
              /\ \A i \in 1 .. Len(p) : sequence < p[i].sequence
              /\ \A i, j \in 1 .. Len(p) : i < j => p[i].sequence < p[j].sequence
          BY <1>0, <2>2, <3>3
        <4> HIDE DEF p
        <4>2. Ordered(Client, wire.frames \o p) /\ InFlight(wire.frames \o p)
          BY <4>1, ExtendOrdered
        <4> QED
          BY <4>2 DEF p
      <3> QED
        BY <1>1, <2>3, <3>2, <3>3, <3>4 DEF OrderInv, Subscribed
    <2>4. CASE ~(wire.attached /\ ~wire.ended)
      BY <1>2, <2>1, <2>4 DEF DeliverToWire
    <2> QED
      BY <2>3, <2>4
  <1>4. CASE PrivateSnapshot \/ Activate
    BY <1>2, <1>4 DEF PrivateSnapshot, Activate
  <1>5. CASE Restart
    <2>1. wire' = [wire EXCEPT !.ended = wire.attached]
      BY <1>5 DEF Restart
    <2>2. /\ wire'.frames = wire.frames /\ wire'.attached = wire.attached
          /\ wire'.open = wire.open /\ wire'.epoch = wire.epoch
          /\ wire'.cursor = wire.cursor
      BY <1>0, <2>1, Zenon DEF Wires
    <2> QED
      BY <1>2, <2>2
  <1>6. CASE Attach
    <2>1. /\ wire.open /\ ~wire.attached /\ wire.frames = <<>> /\ ~Attending(Client)
      BY <1>6 DEF Attach, OrderInv, Subscribed
    <2>2. ASSUME NEW p \in Seq(Frame), NEW untold, Attached(p, untold), Ordered(Client, p),
                 InFlight(p)
          PROVE  OrderInv'
      <3>1. wire' = [wire EXCEPT !.attached = TRUE, !.frames = wire.frames \o p,
                                 !.untold = untold]
        BY <2>2 DEF Attached
      <3>2. wire'.frames = wire.frames \o p /\ wire'.attached = TRUE /\ wire'.open = wire.open
        BY <1>0, <3>1, Zenon DEF Wires
      <3>3. wire.frames \o p = p
        BY <2>1
      <3> QED
        BY <1>1, <2>1, <2>2, <3>2, <3>3 DEF OrderInv, Subscribed
    <2>3. CASE \E missed \in InOrder(EventsAfter(wire.cursor)) :
                  /\ Attached([i \in DOMAIN missed |-> EventFrame(missed[i])], FALSE)
                  /\ wire.epoch = epoch
      <3>1. PICK missed \in InOrder(EventsAfter(wire.cursor)) :
                  /\ Attached([i \in DOMAIN missed |-> EventFrame(missed[i])], FALSE)
                  /\ wire.epoch = epoch
        BY <2>3
      <3> DEFINE p == [i \in DOMAIN missed |-> EventFrame(missed[i])]
      <3>2. /\ p \in Seq(Frame)
            /\ \A i \in 1 .. Len(p) : p[i].epoch = epoch /\ wire.cursor < p[i].sequence
            /\ \A i, j \in 1 .. Len(p) : i < j => p[i].sequence < p[j].sequence
        BY <1>0, ReplayFrames
      <3>3. Attached(p, FALSE)
        BY <3>1
      <3> HIDE DEF p
      <3>4. Fresh(Client, p)
        <4> SUFFICES ASSUME NEW i \in 1 .. Len(p), p[i].epoch = Reference(Client.s)
                     PROVE  Client.s.lastSequence < p[i].sequence
          BY DEF Fresh
        <4>1. p[i] \in Frame
          BY <3>2
        <4>2. /\ p[i].sequence \in 1 .. MaxSequence
              /\ Client.s.lastSequence \in Int /\ wire.cursor < p[i].sequence
          BY <1>0, <3>2, <4>1, FrameType, FieldTypes
        <4>3. Client.s.lastSequence = NoSequence \/ Client.s.lastSequence <= wire.cursor
          BY <2>1 DEF OrderInv, Subscribed
        <4> QED
          BY <1>0, <4>2, <4>3 DEF NoSequence
      <3>5. HeldBack(Client, p)
        BY <2>1 DEF HeldBack, Attending
      <3>6. InFlight(p)
        BY <3>2 DEF InFlight
      <3> QED
        BY <2>2, <3>2, <3>3, <3>4, <3>5, <3>6 DEF OrderInv, Ordered
    <2>4. CASE /\ NumberSnapshot
               /\ \E resync, untold \in BOOLEAN : Attached(AttachSnapshot(resync), untold)
      <3>1. PICK resync \in BOOLEAN, untold \in BOOLEAN :
               Attached(AttachSnapshot(resync), untold)
        BY <2>4
      <3> DEFINE p == AttachSnapshot(resync)
      <3>2. sequence < MaxSequence
        BY <2>4 DEF NumberSnapshot
      <3>3. /\ p \in Seq(Frame) /\ Len(p) \in {0, 1}
            /\ \A i \in 1 .. Len(p) : p[i].epoch = epoch /\ p[i].sequence = sequence + 1
        BY <1>0, <3>2, SnapshotFrames
      <3> HIDE DEF p
      <3>4. /\ \A i \in 1 .. Len(p) : sequence < p[i].sequence
            /\ \A i, j \in 1 .. Len(p) : i < j => p[i].sequence < p[j].sequence
        BY <1>0, <3>3
      <3>5. wire.frames \o p = p
        BY <2>1, <3>3
      <3>6. Ordered(Client, p) /\ InFlight(p)
        <4>1. Ordered(Client, wire.frames \o p) /\ InFlight(wire.frames \o p)
          BY <3>3, <3>4, ExtendOrdered
        <4> QED
          BY <3>5, <4>1
      <3> QED
        BY <2>2, <3>1, <3>3, <3>6 DEF p
    <2> QED
      BY <1>6, <2>3, <2>4 DEF Attach, Replay
  <1> QED
    BY <1>3, <1>4, <1>5, <1>6 DEF Daemon

\* A handler's outcome keeps the order when the client and the connection it
\* leaves do.
LEMMA BecomesOrdered ==
  ASSUME NEW d, NEW w, Becomes(d, w),
         d.s.phase = "open" =>
            /\ Ordered(d, w.frames) /\ InFlight(w.frames) /\ Subscribed(d, w) /\ w.open = TRUE,
         d.s.phase # "open" => Ordered(d, <<>>) /\ ~Attending(d)
  PROVE  OrderInv'
  <1>1. /\ Client' = [s |-> d.s, o |-> d.o]
        /\ wire' = IF d.s.phase = "open" THEN w ELSE NoWire
    BY DEF Becomes, Client
  <1>2. /\ Client'.s = d.s /\ Client'.o = d.o
    BY <1>1
  <1>3. \A q : Ordered(d, q) => Ordered(Client', q)
    BY <1>2, Zenon DEF Ordered, Delivering, Fresh, HeldBack, ProbingFrame
  <1>4. Attending(Client') = Attending(d)
    BY <1>2, Zenon DEF Attending, ProbingFrame
  <1>5. CASE d.s.phase = "open"
    <2>1. wire' = w
      BY <1>1, <1>5
    <2>2. Subscribed(Client', w)
      BY <1>2, <1>4, <1>5 DEF Subscribed
    <2> QED
      BY <1>3, <1>5, <2>1, <2>2 DEF OrderInv
  <1>6. CASE d.s.phase # "open"
    <2>1. wire' = NoWire
      BY <1>1, <1>6
    <2>2. /\ wire'.frames = <<>> /\ wire'.open = FALSE /\ wire'.attached = FALSE
      BY <2>1, NoWireType
    <2>3. Ordered(Client', <<>>) /\ ~Attending(Client')
      BY <1>3, <1>4, <1>6
    <2> QED
      BY <2>2, <2>3 DEF OrderInv, InFlight, Subscribed
  <1> QED
    BY <1>5, <1>6

LEMMA NextOrderInv == EpochInv /\ OrderInv /\ [Next]_vars => OrderInv'
  <1> SUFFICES ASSUME EpochInv, OrderInv, [Next]_vars PROVE OrderInv'
    OBVIOUS
  <1> DEFINE c == Client
             q == wire.frames
  <1>0. /\ Counting /\ Knows(c) /\ Probing(c) /\ c \in Clients
        /\ c.s = stream /\ c.o = owner /\ stream \in Streams /\ wire \in Wires
        /\ q \in Seq(Frame) /\ wire.attached \in BOOLEAN
        /\ (wire.open = (stream.phase = "open"))
    BY CountingHere DEF EpochInv, TypeOK, Wires
  <1>1. /\ Ordered(c, q) /\ InFlight(q) /\ Subscribed(c, wire)
        /\ wire.attached => wire.open
    BY DEF OrderInv
  <1>m. \A d, r : Ordered(d, r) => Ordered(d, <<>>)
    BY DEF Ordered, Fresh, HeldBack, Below
  <1>n. InFlight(<<>>)
    BY DEF InFlight
  <1> HIDE DEF c
  <1>2. CASE Daemon
    BY <1>2, DaemonOrdered
  <1>3. CASE Connect
    <2> DEFINE d == [c EXCEPT !.s.phase = "open"]
               w == [NoWire EXCEPT !.open = TRUE, !.cursor = stream.lastSequence,
                                   !.epoch = Reference(stream)]
    <2>1. Becomes(d, w) /\ stream.phase = "backoff"
      BY <1>3 DEF Connect, c
    <2>2. Unmoved(c, d) /\ d.s.probe = c.s.probe /\ d.s.phase = "open"
      BY <1>0, Zenon DEF Clients, Streams, Unmoved
    <2>3. w.open = TRUE /\ w.attached = NoWire.attached /\ w.frames = NoWire.frames
          /\ w.cursor = stream.lastSequence /\ w.epoch = Reference(stream)
      BY NoWireType, Zenon DEF Wires
    <2> HIDE DEF d, w
    <2>4. ~wire.attached
      BY <1>0, <1>1, <2>1
    <2>5. Ordered(c, <<>>) /\ ~Attending(c)
      BY <1>1, <1>m, <2>4 DEF Subscribed
    <2>6. Ordered(d, <<>>) /\ ~Attending(d) /\ Reference(d.s) = Reference(c.s)
      BY <2>2, <2>5, UnmovedOrdered
    <2>7. stream.lastSequence \in Int
      BY <1>0, FieldTypes
    <2>8. d.s.lastSequence <= w.cursor
      BY <1>0, <2>2, <2>3, <2>7 DEF Unmoved
    <2>9. w.frames = <<>>
      BY <2>3, NoWireType
    <2>10. Subscribed(d, w)
      BY <1>0, <2>3, <2>6, <2>8, <2>9 DEF Subscribed
    <2> QED
      BY <1>n, <2>1, <2>2, <2>3, <2>6, <2>9, <2>10, BecomesOrdered
  <1>4. ASSUME NEW p \in {"backoff", "stopped", "disposed"},
               Becomes(Invalidate(Client, p), NoWire)
        PROVE  OrderInv'
    <2>0. p \in {"backoff", "open", "stopped", "disposed"}
      OBVIOUS
    <2> DEFINE d == Invalidate(c, p)
    <2>1. d.s.phase = p
      BY <1>0, <2>0, InvalidateFields
    <2>2. Ordered(d, q) /\ ~Attending(d)
      BY <1>0, <1>1, <2>0, InvalidateOrdered
    <2>3. Becomes(d, NoWire)
      BY <1>4 DEF c
    <2> HIDE DEF d
    <2>4. Ordered(d, <<>>) /\ d.s.phase # "open"
      BY <1>m, <2>1, <2>2
    <2> QED
      BY <2>2, <2>3, <2>4, BecomesOrdered
  <1>5. CASE Disconnect \/ AuthorizationLost \/ Reconnect \/ Dispose
    BY <1>4, <1>5 DEF Disconnect, AuthorizationLost, Reconnect, Dispose
  <1>6. CASE ConnectionReady
    <2> DEFINE d == MarkReady(c)
               w == [wire EXCEPT !.ready = TRUE]
    <2>1. Becomes(d, w) /\ stream.phase = "open"
      BY <1>6 DEF ConnectionReady, c
    <2>2. /\ Unmoved(c, d) /\ d.s.phase = c.s.phase
          /\ d.s.probe = c.s.probe \/ d.s.probe.kind = "resubscribe"
      BY <1>0, ReadyKnows
    <2>3. /\ w.open = wire.open /\ w.frames = wire.frames /\ w.attached = wire.attached
          /\ w.cursor = wire.cursor /\ w.epoch = wire.epoch
      BY <1>0, Zenon DEF Wires
    <2> HIDE DEF d, w
    <2>4. /\ Ordered(d, q) /\ (Attending(d) => Attending(c))
          /\ Reference(d.s) = Reference(c.s)
      BY <1>1, <2>2, UnmovedOrdered
    <2>5. Subscribed(d, w)
      BY <1>1, <2>2, <2>3, <2>4 DEF Subscribed, Unmoved
    <2>6. d.s.phase = "open" /\ w.open = TRUE
      BY <1>0, <2>1, <2>2, <2>3
    <2> QED
      BY <1>1, <2>1, <2>3, <2>4, <2>5, <2>6, BecomesOrdered
  <1>7. CASE Receive
    <2> DEFINE f == Head(wire.frames)
               t == Tail(wire.frames)
               d == HandleEvent(c, f)
               w == [wire EXCEPT !.frames = Tail(@)]
    <2>1. Becomes(d, w) /\ stream.phase = "open" /\ wire.frames # <<>>
      BY <1>7 DEF Receive, c
    <2>2. /\ f = q[1] /\ f \in Frame /\ Len(q) \in Nat /\ 1 \in 1 .. Len(q)
          /\ t \in Seq(Frame) /\ Len(t) = Len(q) - 1
          /\ \A i \in 1 .. Len(t) : t[i] = q[i + 1] /\ i + 1 \in 1 .. Len(q) /\ 1 < i + 1
      BY <1>0, <2>1
    <2>3. /\ w.open = wire.open /\ w.frames = t /\ w.attached = wire.attached
      BY <1>0, Zenon DEF Wires
    <2> HIDE DEF w, f, t
    <2>4. Past(f) /\ (f.epoch = Reference(c.s) => c.s.lastSequence < f.sequence)
      BY <1>1, <2>2 DEF EpochInv, WireKnows, Ordered, Fresh
    <2>5. Below(f, t)
      BY <1>1, <2>2 DEF InFlight, Below
    <2>6. InFlight(t)
      <3> SUFFICES ASSUME NEW i \in 1 .. Len(t), NEW j \in 1 .. Len(t), i < j,
                          t[i].epoch = t[j].epoch
                   PROVE  t[i].sequence < t[j].sequence
        BY DEF InFlight
      <3>1. /\ i + 1 \in 1 .. Len(q) /\ j + 1 \in 1 .. Len(q) /\ i + 1 < j + 1
            /\ t[i] = q[i + 1] /\ t[j] = q[j + 1]
        BY <2>2
      <3> QED
        BY <1>1, <3>1 DEF InFlight
    <2>7. Ordered(c, t)
      <3>1. \A g : Below(g, q) => Below(g, t)
        BY <2>2 DEF Below
      <3>2. Fresh(c, t)
        BY <1>1, <2>2 DEF Ordered, Fresh
      <3> QED
        BY <1>1, <3>1, <3>2, Zenon DEF Ordered, HeldBack
    <2>8. Ordered(d, t)
      BY <1>0, <2>2, <2>4, <2>5, <2>7, HandleEventOrdered
    <2>9. d.s.phase = "open"
      BY <1>0, <2>1, <2>2, <2>4, HandleEventKnows
    <2>10. wire.attached
      BY <1>1, <2>1 DEF Subscribed
    <2>11. Subscribed(d, w) /\ w.open = TRUE
      BY <1>0, <2>1, <2>3, <2>10 DEF Subscribed
    <2> HIDE DEF d
    <2> QED
      BY <2>1, <2>3, <2>6, <2>8, <2>9, <2>11, BecomesOrdered
  <1>8. CASE ProbeAnswered
    <2>1. PICK answer : Becomes([c EXCEPT !.s.probe.health = answer], wire)
      BY <1>8 DEF ProbeAnswered, c
    <2> DEFINE d == [c EXCEPT !.s.probe.health = answer]
    <2>2. /\ Unmoved(c, d) /\ d.s.probe.kind = c.s.probe.kind
          /\ d.s.probe.frame = c.s.probe.frame /\ d.s.probe.current = c.s.probe.current
          /\ d.s.phase = c.s.phase
      BY <1>0, Zenon DEF Clients, Streams, Probes, Unmoved
    <2>3. Becomes(d, wire)
      BY <2>1
    <2> HIDE DEF d
    <2>4. Reference(d.s) = Reference(c.s)
      BY <2>2, SameReference DEF Unmoved
    <2>5. Delivering(d) /\ Fresh(d, q)
      BY <1>1, <2>2, <2>4, Zenon DEF Ordered, Unmoved, Delivering, Fresh
    <2>6. HeldBack(d, q)
      BY <1>1, <2>2, <2>4, Zenon DEF Ordered, Unmoved, HeldBack, ProbingFrame
    <2>7. Attending(d) = Attending(c)
      BY <2>2, Zenon DEF Unmoved, Attending, ProbingFrame
    <2>8. Ordered(d, q)
      BY <2>5, <2>6 DEF Ordered
    <2>9. Subscribed(d, wire)
      BY <1>1, <2>2, <2>4, <2>7 DEF Subscribed, Unmoved
    <2>10. d.s.phase = "open" => wire.open = TRUE
      BY <1>0, <2>2
    <2>11. d.s.phase # "open" => Ordered(d, <<>>) /\ ~Attending(d)
      <3>1. d.s.phase # "open" => ~wire.attached
        BY <1>0, <1>1, <2>2
      <3> QED
        BY <1>1, <1>m, <2>7, <2>8, <3>1 DEF Subscribed
    <2> QED
      BY <1>1, <2>3, <2>8, <2>9, <2>10, <2>11, BecomesOrdered
  <1>9. CASE ProbeSettles
    <2>1. PICK d : /\ Becomes(d, wire)
                   /\ \/ c.s.probe.kind = "foreign" /\ d = ForeignProbeEnds(c)
                      \/ c.s.probe.kind = "resubscribe" /\ d = ResubscribeProbeEnds(c)
      BY <1>9, <1>0 DEF ProbeSettles, c
    <2>2. d.s.phase \in {c.s.phase, "backoff", "stopped"}
      BY <1>0, <2>1, ForeignEndsKnows, ResubscribeEndsKnows
    <2>3. /\ Ordered(d, q)
          /\ c.s.probe.kind = "foreign" => ~Attending(d)
          /\ ~Attending(c) =>
                /\ ~Attending(d)
                /\ \/ d.s.lastSequence = NoSequence
                   \/ Reference(d.s) = Reference(c.s) /\ d.s.lastSequence = c.s.lastSequence
      <3>1. CASE c.s.probe.kind = "foreign" /\ d = ForeignProbeEnds(c)
        BY <1>0, <1>1, <3>1, ForeignEndsOrdered
      <3>2. CASE c.s.probe.kind = "resubscribe" /\ d = ResubscribeProbeEnds(c)
        BY <1>0, <1>1, <3>2, ResubscribeEndsOrdered
      <3> QED
        BY <2>1, <3>1, <3>2
    <2>4. Subscribed(d, wire)
      BY <1>1, <2>3 DEF Subscribed
    <2>5. d.s.phase = "open" => wire.open = TRUE
      BY <1>0, <2>2
    <2>6. d.s.phase # "open" => ~Attending(d)
      <3>1. CASE c.s.probe.kind = "foreign"
        BY <2>3, <3>1
      <3>2. CASE c.s.probe.kind = "resubscribe"
        <4>1. d.s.phase = c.s.phase
          BY <1>0, <2>1, <3>2, ResubscribeEndsKnows
        <4>2. d.s.phase # "open" => ~wire.attached
          BY <1>0, <1>1, <4>1
        <4> QED
          BY <1>1, <2>3, <4>2 DEF Subscribed
      <3> QED
        BY <2>1, <3>1, <3>2
    <2>7. Ordered(d, <<>>)
      BY <1>m, <2>3
    <2> QED
      BY <1>1, <2>1, <2>3, <2>4, <2>5, <2>6, <2>7, BecomesOrdered
  <1>10. CASE UNCHANGED vars
    <2>1. wire' = wire /\ Client' = Client
      BY <1>10 DEF vars, Client
    <2> QED
      BY <2>1 DEF OrderInv
  <1> QED
    BY <1>2, <1>3, <1>5, <1>6, <1>7, <1>8, <1>9, <1>10 DEF Next

\* The owner gets the frames of the lifetime announced to it each once and in
\* the daemon's order, across reconnections, restarts and frames that a probe
\* held back.
THEOREM DeliveryOrdered == Spec => []DeliveredInOrder
  <1>1. OrderInv => DeliveredInOrder
    BY DEF OrderInv, Ordered, Delivering, Client, DeliveredInOrder
  <1>2. EpochInv /\ OrderInv /\ [Next]_vars => OrderInv'
    BY NextOrderInv
  <1> QED
    BY InitOrderInv, EpochInvHolds, <1>1, <1>2, PTL DEF Spec
-----------------------------------------------------------------------------
(* The inductive invariant, the part that is about lost events. *)

\* Events the cursor of c has passed without its owner being told.
LostOf(c) ==
    IF c.o.epoch # epoch THEN {}
    ELSE {e \in broadcast :
            /\ c.o.base < e /\ e <= c.s.lastSequence
            /\ \A i \in 1 .. Len(c.o.delivered) : c.o.delivered[i].sequence # e}

\* f brings the event e, or has the owner read the state that follows it.
Brings(f, e) ==
    /\ f.epoch = epoch
    /\ f.sequence = e \/ (f.kind = "resync" /\ e <= f.sequence)

\* Every event beyond the cursor is on its way.
Covered(c, q) ==
    c.o.epoch = epoch =>
        \A e \in broadcast :
            c.o.base < e /\ c.s.lastSequence < e =>
                \E i \in 1 .. Len(q) : Brings(q[i], e)

\* The owner was told to read again after everything broadcast so far.
Rebuilt(c) == c.o.epoch = epoch => sequence <= c.o.base

\* The owner was told nothing and the cursor stayed.
Quiet(c, d) == d.o = c.o /\ d.s.lastSequence = c.s.lastSequence

LEMMA RebuiltCovers ==
  ASSUME TypeOK, NEW c \in Clients, Rebuilt(c), NEW q
  PROVE  LostOf(c) = {} /\ Covered(c, q)
  <1>0. c.o.base \in 0 .. MaxSequence
    BY FieldTypes
  <1>s. sequence \in 0 .. MaxSequence /\ broadcast \subseteq 1 .. sequence
    BY Zenon DEF TypeOK
  <1>b. c.o.base \in Int
    BY <1>0, MaxSequenceAssumption
  <1>i. sequence \in Int
    BY <1>s, MaxSequenceAssumption
  <1>1. ASSUME NEW e \in broadcast PROVE e \in Int /\ e <= sequence
    BY <1>s, <1>i
  <1>2. ASSUME c.o.epoch = epoch, NEW e \in broadcast
        PROVE  ~(c.o.base < e)
    <2>1. sequence <= c.o.base
      BY <1>2 DEF Rebuilt
    <2> QED
      BY <1>b, <1>i, <1>1, <2>1
  <1> QED
    BY <1>2 DEF LostOf, Covered

LEMMA QuietKeeps ==
  ASSUME NEW c, NEW d, Quiet(c, d)
  PROVE  /\ LostOf(d) = LostOf(c)
         /\ \A q : Covered(c, q) => Covered(d, q)
         /\ Rebuilt(c) => Rebuilt(d)
  BY Zenon DEF Quiet, LostOf, Covered, Rebuilt

\* Delivering the next frame in flight loses nothing that is on its way.
LEMMA DeliverLoses ==
  ASSUME TypeOK, NEW c \in Clients, Delivering(c), NEW f \in Frame, NEW t \in Seq(Frame),
         f.epoch = c.o.epoch, c.s.lastSequence < f.sequence, Below(f, t),
         \A i \in 1 .. Len(t) : t[i].kind # "resync"
  PROVE  /\ Rebuilt(c) => Rebuilt(Deliver(c, f))
         /\ Covered(c, <<f>> \o t) =>
               LostOf(Deliver(c, f)) \subseteq LostOf(c) /\ Covered(Deliver(c, f), t)
  <1> DEFINE d == Deliver(c, f)
  <1>0. /\ c.o.base \in Int /\ sequence \in Int /\ broadcast \subseteq Int
        /\ c.s.lastSequence \in Int /\ f.sequence \in Int /\ c.o.delivered \in Seq(Frame)
        /\ c.s \in Streams
    <2>1. c.s \in Streams
      BY Zenon DEF Clients
    <2>2. f.sequence \in 1 .. MaxSequence
      BY FrameType
    <2>3. /\ c.s.lastSequence \in -1 .. MaxSequence /\ c.o.base \in 0 .. MaxSequence
          /\ c.o.delivered \in Seq(Frame)
      BY FieldTypes
    <2> QED
      BY <2>1, <2>2, <2>3 DEF TypeOK
  <1>1. /\ d.o.epoch = c.o.epoch /\ d.o.delivered = Append(c.o.delivered, f)
        /\ d.o.base = IF f.kind = "resync" THEN MaxOf(c.o.base, f.sequence) ELSE c.o.base
        /\ d.s = [c.s EXCEPT !.lastSequence = MaxOf(@, f.sequence)]
    BY DeliverFields
  <1> HIDE DEF d
  <1>2. d.s.lastSequence = MaxOf(c.s.lastSequence, f.sequence)
    BY <1>0, <1>1, Zenon DEF Streams
  <1>3. d.s.lastSequence = f.sequence
    BY <1>0, <1>2 DEF MaxOf
  <1>4. /\ c.o.base <= d.o.base /\ d.o.base \in Int
        /\ f.kind = "resync" => f.sequence <= d.o.base
    BY <1>0, <1>1 DEF MaxOf
  <1>5. Rebuilt(c) => Rebuilt(d)
    BY <1>0, <1>1, <1>4 DEF Rebuilt
  <1>6. ASSUME Covered(c, <<f>> \o t)
        PROVE  LostOf(d) \subseteq LostOf(c) /\ Covered(d, t)
    <2> DEFINE q == <<f>> \o t
               m == Len(c.o.delivered)
    <2>1. /\ Len(q) = Len(t) + 1 /\ q[1] = f /\ Len(t) \in Nat
          /\ \A i \in 1 .. Len(q) : i # 1 => q[i] = t[i - 1] /\ i - 1 \in 1 .. Len(t)
      OBVIOUS
    <2>2. /\ m \in Nat /\ Len(d.o.delivered) = m + 1 /\ d.o.delivered[m + 1] = f
          /\ \A i \in 1 .. m : d.o.delivered[i] = c.o.delivered[i]
      BY <1>0, <1>1
    <2> HIDE DEF q, m
    <2>3. ASSUME d.o.epoch = epoch, NEW e \in broadcast, d.o.base < e, c.s.lastSequence < e
          PROVE  f.sequence = e \/ \E i \in 1 .. Len(t) : t[i].epoch = epoch /\ t[i].sequence = e
      <3>1. c.o.base < e /\ e \in Int
        BY <1>0, <1>4, <2>3
      <3>2. PICK i \in 1 .. Len(q) : Brings(q[i], e)
        BY <1>1, <1>6, <2>3, <3>1 DEF Covered, q
      <3>3. CASE i = 1
        BY <1>0, <1>4, <2>1, <2>3, <3>1, <3>2, <3>3 DEF Brings
      <3>4. CASE i # 1
        BY <2>1, <3>2, <3>4 DEF Brings
      <3> QED
        BY <3>3, <3>4
    <2>4. LostOf(d) \subseteq LostOf(c)
      <3> SUFFICES ASSUME d.o.epoch = epoch, NEW e \in broadcast, d.o.base < e,
                          e <= d.s.lastSequence,
                          \A i \in 1 .. Len(d.o.delivered) : d.o.delivered[i].sequence # e
                   PROVE  e \in LostOf(c)
        BY DEF LostOf
      <3>1. e # f.sequence /\ \A i \in 1 .. m : c.o.delivered[i].sequence # e
        BY <2>2
      <3>2. c.o.base < e /\ e \in Int /\ c.o.epoch = epoch
        BY <1>0, <1>1, <1>4
      <3>3. e <= c.s.lastSequence
        <4> SUFFICES ASSUME c.s.lastSequence < e PROVE FALSE
          BY <1>0, <3>2
        <4>1. PICK i \in 1 .. Len(t) : t[i].epoch = epoch /\ t[i].sequence = e
          BY <2>3, <3>1
        <4>2. f.sequence < t[i].sequence
          BY <1>1, <4>1 DEF Below
        <4> QED
          BY <1>0, <1>3, <3>2, <4>1, <4>2
      <3> QED
        BY <3>1, <3>2, <3>3 DEF LostOf, m
    <2>5. Covered(d, t)
      <3> SUFFICES ASSUME d.o.epoch = epoch, NEW e \in broadcast, d.o.base < e,
                          d.s.lastSequence < e
                   PROVE  \E i \in 1 .. Len(t) : Brings(t[i], e)
        BY DEF Covered
      <3>1. c.s.lastSequence < e /\ e # f.sequence
        BY <1>0, <1>3
      <3> QED
        BY <2>3, <3>1 DEF Brings
    <2> QED
      BY <2>4, <2>5
  <1> QED
    BY <1>5, <1>6 DEF d

\* A frame that is not of the live lifetime, or not for what the owner knows,
\* can be dropped.
LEMMA SkipForeign ==
  ASSUME NEW c, NEW f \in Frame, NEW t \in Seq(Frame),
         f.epoch # epoch \/ c.o.epoch # epoch, Covered(c, <<f>> \o t)
  PROVE  Covered(c, t)
  <1> DEFINE q == <<f>> \o t
  <1> SUFFICES ASSUME c.o.epoch = epoch, NEW e \in broadcast, c.o.base < e,
                      c.s.lastSequence < e
               PROVE  \E i \in 1 .. Len(t) : Brings(t[i], e)
    BY DEF Covered
  <1>1. PICK i \in 1 .. Len(q) : Brings(q[i], e)
    BY DEF Covered
  <1>2. i # 1
    BY <1>1 DEF Brings
  <1>3. q[i] = t[i - 1] /\ i - 1 \in 1 .. Len(t)
    BY <1>2
  <1> QED
    BY <1>1, <1>3

\* handleEvent loses nothing: what it does not deliver is of another lifetime.
LEMMA HandleEventLoses ==
  ASSUME TypeOK, NEW c, Knows(c), Delivering(c),
         NEW f \in Frame, Past(f), NEW t \in Seq(Frame), Below(f, t),
         f.epoch = Reference(c.s) => c.s.lastSequence < f.sequence,
         \A i \in 1 .. Len(t) : t[i].kind # "resync"
  PROVE  /\ Covered(c, <<f>> \o t) =>
              LostOf(HandleEvent(c, f)) \subseteq LostOf(c) /\ Covered(HandleEvent(c, f), t)
         /\ f.epoch # epoch => LostOf(HandleEvent(c, f)) \subseteq LostOf(c)
         /\ Rebuilt(c) => Rebuilt(HandleEvent(c, f))
         /\ Reference(c.s) \notin {NoEpoch, f.epoch} => Quiet(c, HandleEvent(c, f))
  <1>0. /\ c \in Clients /\ c.s \in Streams /\ c.o.epoch = Reference(c.s) /\ Counting
        /\ f.epoch \in 1 .. MaxEpoch /\ f.epoch # NoEpoch
    BY ClientOf, FrameType DEF Knows, TypeOK, Counting, NoEpoch
  <1>1. CASE f.epoch = c.s.currentEpoch
    <2> DEFINE d == Deliver(c, f)
    <2>1. HandleEvent(c, f) = d
      BY <1>1 DEF HandleEvent
    <2>2. f.epoch = Reference(c.s)
      BY <1>0, <1>1 DEF Reference
    <2>3. /\ Rebuilt(c) => Rebuilt(d)
          /\ Covered(c, <<f>> \o t) => LostOf(d) \subseteq LostOf(c) /\ Covered(d, t)
      BY <1>0, <2>2, DeliverLoses
    <2>4. d.o.epoch = f.epoch
      BY <1>0, <2>2, DeliverFields
    <2> HIDE DEF d
    <2>5. f.epoch # epoch => LostOf(d) = {}
      BY <2>4 DEF LostOf
    <2> QED
      BY <2>1, <2>2, <2>3, <2>5
  <1>2. ASSUME NEW d, HandleEvent(c, f) = d, Quiet(c, d),
               f.epoch # epoch \/ c.o.epoch # epoch
        PROVE  /\ Covered(c, <<f>> \o t) => LostOf(d) \subseteq LostOf(c) /\ Covered(d, t)
               /\ f.epoch # epoch => LostOf(d) \subseteq LostOf(c)
               /\ Rebuilt(c) => Rebuilt(d)
    <2>1. /\ LostOf(d) = LostOf(c) /\ (Rebuilt(c) => Rebuilt(d))
          /\ Covered(c, t) => Covered(d, t)
      BY <1>2, QuietKeeps
    <2>2. Covered(c, <<f>> \o t) => Covered(c, t)
      BY <1>2, SkipForeign
    <2> QED
      BY <2>1, <2>2
  <1>3. CASE f.epoch # c.s.currentEpoch /\ f.epoch \in c.s.retired
    <2>1. HandleEvent(c, f) = c /\ Quiet(c, c)
      BY <1>3 DEF HandleEvent, Quiet
    <2>2. f.epoch < epoch
      BY <1>3 DEF Knows
    <2>3. f.epoch # epoch
      BY <1>0, <2>2
    <2> QED
      BY <1>2, <2>1, <2>3
  <1>4. CASE /\ f.epoch # c.s.currentEpoch /\ f.epoch \notin c.s.retired
             /\ Reference(c.s) \in {NoEpoch, f.epoch}
    <2> DEFINE m == Moved(c, f)
               d == Deliver(m, f)
    <2>1. HandleEvent(c, f) = d
      BY <1>4 DEF HandleEvent, Moved
    <2>2. /\ Knows(m) /\ Reference(m.s) = f.epoch
          /\ m.s.lastSequence = c.s.lastSequence
          /\ Reference(c.s) # NoEpoch => m.o = c.o
          /\ Reference(c.s) = NoEpoch =>
                /\ m.o.delivered = <<>>
                /\ m.o.base = IF f.epoch = epoch THEN sequence ELSE 0
      BY <1>0, <1>4, MoveKnows
    <2> HIDE DEF m
    <2>3. m \in Clients /\ m.o.epoch = f.epoch
      BY <2>2, ClientOf DEF Knows
    <2>4. Delivering(m) /\ m.s.lastSequence < f.sequence
      <3>1. CASE Reference(c.s) = NoEpoch
        <4>1. m.o.delivered = <<>> /\ m.s.lastSequence = NoSequence
          BY <2>2, <3>1 DEF Knows
        <4> QED
          BY <4>1, FrameType DEF Delivering, NoSequence
      <3>2. CASE Reference(c.s) # NoEpoch
        BY <1>4, <2>2, <3>2, Zenon DEF Delivering
      <3> QED
        BY <3>1, <3>2
    <2>5. /\ Rebuilt(m) => Rebuilt(d)
          /\ Covered(m, <<f>> \o t) => LostOf(d) \subseteq LostOf(m) /\ Covered(d, t)
      BY <2>3, <2>4, DeliverLoses
    <2>6. d \in Clients /\ d.o.epoch = f.epoch
      BY <2>3, DeliverFields
    <2> HIDE DEF d
    <2>7. f.epoch # epoch => LostOf(d) = {}
      BY <2>6 DEF LostOf
    <2>8. CASE Reference(c.s) = NoEpoch
      <3>1. Rebuilt(m)
        <4>1. sequence <= sequence
          BY <1>0 DEF Counting
        <4> QED
          BY <2>2, <2>3, <2>8, <4>1 DEF Rebuilt
      <3>2. LostOf(d) = {} /\ Covered(d, t)
        BY <2>5, <2>6, <3>1, RebuiltCovers
      <3> QED
        BY <2>1, <2>5, <2>8, <3>1, <3>2
    <2>9. CASE Reference(c.s) = f.epoch
      <3>1. Quiet(c, m)
        BY <1>0, <2>2, <2>9 DEF Quiet
      <3>2. /\ LostOf(m) = LostOf(c) /\ (Rebuilt(c) => Rebuilt(m))
            /\ Covered(c, <<f>> \o t) => Covered(m, <<f>> \o t)
        BY <3>1, QuietKeeps
      <3> QED
        BY <2>1, <2>5, <2>7, <2>9, <3>2
    <2> QED
      BY <1>4, <2>8, <2>9
  <1>5. CASE /\ f.epoch # c.s.currentEpoch /\ f.epoch \notin c.s.retired
             /\ Reference(c.s) \notin {NoEpoch, f.epoch}
    <2>1. Quiet(c, HandleEvent(c, f))
      <3>1. CASE c.s.probe.kind = "none"
        <4>1. HandleEvent(c, f) = Probe(c, "foreign", f)
          BY <1>5, <3>1 DEF HandleEvent
        <4>2. /\ Probe(c, "foreign", f).o = c.o
              /\ Probe(c, "foreign", f).s.lastSequence = c.s.lastSequence
          BY <1>0, Zenon DEF Probe, Clients, Streams
        <4> QED
          BY <4>1, <4>2 DEF Quiet
      <3>2. CASE c.s.probe.kind # "none" /\ c.s.pending.frame # NoFrame
        BY <1>5, <3>2 DEF HandleEvent, Quiet
      <3>3. CASE c.s.probe.kind # "none" /\ c.s.pending.frame = NoFrame
        <4>1. HandleEvent(c, f) = Held(c, f)
          BY <1>5, <3>3 DEF HandleEvent, Held
        <4>2. Held(c, f).o = c.o /\ Held(c, f).s.lastSequence = c.s.lastSequence
          BY <1>0, Zenon DEF Held, Clients, Streams
        <4> QED
          BY <4>1, <4>2 DEF Quiet
      <3> QED
        BY <3>1, <3>2, <3>3
    <2>2. f.epoch # epoch \/ c.o.epoch # epoch
      BY <1>0, <1>5
    <2> QED
      BY <1>2, <2>1, <2>2
  <1> QED
    BY <1>1, <1>3, <1>4, <1>5

LEMMA DeliverRebuilt ==
  ASSUME Counting, NEW c \in Clients, NEW f \in Frame, Rebuilt(c)
  PROVE  Rebuilt(Deliver(c, f))
  <1>1. /\ Deliver(c, f).o.epoch = c.o.epoch
        /\ Deliver(c, f).o.base =
              IF f.kind = "resync" THEN MaxOf(c.o.base, f.sequence) ELSE c.o.base
    BY DeliverFields
  <1>2. c.o.base \in Int /\ f.sequence \in Int /\ sequence \in Int
    BY FieldTypes, FrameType DEF Counting
  <1> QED
    BY <1>1, <1>2 DEF Rebuilt, MaxOf

\* An adopted epoch is announced, which has the owner read again.
LEMMA AdoptRebuilt ==
  ASSUME Counting, NEW c \in Clients, c.s.probe.reference \in Epochs,
         NEW e \in Epochs, NEW n \in -1 .. MaxSequence
  PROVE  Rebuilt(Adopt(c, e, n))
  <1>1. e \in 0 .. MaxEpoch /\ sequence <= sequence
    BY DEF Epochs, Counting
  <1>2. /\ Adopt(c, e, n).o.epoch = e
        /\ Adopt(c, e, n).o.base = IF e = epoch THEN sequence ELSE 0
    BY <1>1, AdoptFields
  <1> QED
    BY <1>1, <1>2 DEF Rebuilt

LEMMA QuietThen ==
  ASSUME NEW c, NEW d, NEW r, Quiet(d, r), Quiet(c, d) \/ Rebuilt(d)
  PROVE  Quiet(c, r) \/ Rebuilt(r)
  <1>1. Rebuilt(d) => Rebuilt(r)
    BY QuietKeeps
  <1> QED
    BY <1>1 DEF Quiet

LEMMA UnmovedQuiet ==
  ASSUME NEW c, NEW d, Unmoved(c, d)
  PROVE  Quiet(c, d)
  BY DEF Unmoved, Quiet

LEMMA ForeignVerdictLoses ==
  ASSUME Counting, NEW c, Knows(c), Probing(c), c.s.probe.kind = "foreign"
  PROVE  Quiet(c, ForeignVerdict(c)) \/ Rebuilt(ForeignVerdict(c))
  <1> DEFINE f == c.s.probe.frame
             probe == c.s.probe
  <1>0. /\ c \in Clients /\ f \in Frame /\ f.epoch \in Epochs
        /\ f.sequence \in -1 .. MaxSequence
        /\ c.s.probe.reference \in Epochs
    <2>1. c \in Clients /\ f \in Frame
      BY ClientOf DEF Probing
    <2>2. c.s.probe.reference = Reference(c.s) /\ Reference(c.s) # NoEpoch
      BY DEF Probing
    <2> QED
      BY <2>1, <2>2, FieldTypes, FrameType DEF Epochs, NoEpoch
  <1>1. CASE ~probe.current
    BY <1>1 DEF ForeignVerdict, Quiet
  <1>2. CASE /\ probe.current /\ probe.health.state = "ready"
             /\ probe.health.epoch = f.epoch
    <2> DEFINE d == Adopt(c, f.epoch, f.sequence)
    <2>1. ForeignVerdict(c) = Deliver(d, f)
      BY <1>2 DEF ForeignVerdict
    <2>2. Rebuilt(d)
      BY <1>0, AdoptRebuilt
    <2>3. d \in Clients
      BY <1>0, AdoptFields DEF Epochs
    <2> QED
      BY <1>0, <2>1, <2>2, <2>3, DeliverRebuilt
  <1>3. CASE /\ probe.current /\ probe.health.state = "ready"
             /\ probe.health.epoch # f.epoch
    <2>1. ForeignVerdict(c) = Retire(c, f.epoch)
      BY <1>3 DEF ForeignVerdict
    <2>2. /\ Retire(c, f.epoch).o = c.o
          /\ Retire(c, f.epoch).s.lastSequence = c.s.lastSequence
      BY <1>0, Zenon DEF Retire, Clients, Streams
    <2> QED
      BY <2>1, <2>2 DEF Quiet
  <1>4. CASE probe.current /\ probe.health.state # "ready"
    <2>1. ForeignVerdict(c) \in {Invalidate(c, "stopped"), Invalidate(c, "backoff")}
      BY <1>4 DEF ForeignVerdict
    <2>2. Quiet(c, Invalidate(c, "stopped")) /\ Quiet(c, Invalidate(c, "backoff"))
      BY <1>0, InvalidateFields DEF Quiet
    <2> QED
      BY <2>1, <2>2
  <1> QED
    BY <1>1, <1>2, <1>3, <1>4

LEMMA DoneQuiet ==
  ASSUME NEW c \in Clients
  PROVE  Quiet(c, ProbeDone(c))
  <1>1. ProbeDone(c).o = c.o /\ ProbeDone(c).s.lastSequence = c.s.lastSequence
    BY Zenon DEF ProbeDone, Clients, Streams
  <1> QED
    BY <1>1 DEF Quiet

LEMMA ForeignEndsLoses ==
  ASSUME Counting, NEW c, Knows(c), Probing(c), c.s.probe.kind = "foreign"
  PROVE  Quiet(c, ForeignProbeEnds(c)) \/ Rebuilt(ForeignProbeEnds(c))
  <1> DEFINE v == ForeignVerdict(c)
             d == ProbeDone(v)
             r == RunDeferred(d)
  <1>1. Knows(v) /\ (Quiet(c, v) \/ Rebuilt(v))
    BY ForeignVerdictKnows, ForeignVerdictLoses
  <1>r. ForeignProbeEnds(c) = r
    BY DEF ForeignProbeEnds
  <1> HIDE DEF v
  <1>2. Knows(d) /\ Probing(d) /\ Quiet(v, d)
    BY <1>1, ClientOf, DoneKnows, DoneQuiet
  <1> HIDE DEF d
  <1>3. Quiet(d, r)
    BY <1>2, DeferredKnows, UnmovedQuiet
  <1> HIDE DEF r
  <1> QED
    BY <1>1, <1>2, <1>3, <1>r, QuietThen

\* The end of a resubscription's probe; when no frame was held back the stream
\* is where it was or on a newer epoch.
LEMMA ResubscribeEndsLoses ==
  ASSUME TypeOK, NEW c, Knows(c), Probing(c), c.s.probe.kind = "resubscribe",
         NEW q \in Seq(Frame), Ordered(c, q)
  PROVE  /\ \/ Quiet(c, ResubscribeProbeEnds(c))
            \/ Rebuilt(ResubscribeProbeEnds(c))
         /\ ~Attending(c) =>
              \/ /\ Reference(ResubscribeProbeEnds(c).s) = Reference(c.s)
                 /\ ResubscribeProbeEnds(c).s.lastSequence = c.s.lastSequence
              \/ Reference(c.s) < Reference(ResubscribeProbeEnds(c).s)
  <1> DEFINE held == c.s.pending
             f == c.s.pending.frame
             e == c.s.probe.health.epoch
             v == ResubscribeVerdict(c)
             d == ProbeDone(v)
             h == IF held.current THEN HandleEvent(d, f) ELSE d
             r == RunDeferred(h)
  <1>0. /\ Counting /\ c \in Clients /\ Reference(c.s) \in Epochs
        /\ c.s.probe.reference = Reference(c.s) /\ Reference(c.s) # NoEpoch
        /\ NoSequence \in -1 .. MaxSequence /\ NoSequence <= sequence
        /\ c.s.probe.health \in Health
        /\ c.s.probe.health.state = "ready" => e \in Epochs
    BY ClientOf, FieldTypes, HealthType, MaxSequenceAssumption
       DEF Counting, TypeOK, Probing, Epochs, NoEpoch, NoSequence
  <1>r. ResubscribeProbeEnds(c) = r
    BY DEF ResubscribeProbeEnds
  <1>1. /\ Knows(v) /\ Delivering(v)
        /\ \/ v = c
           \/ /\ v.s.lastSequence = NoSequence /\ Rebuilt(v)
              /\ Reference(c.s) < Reference(v.s)
    <2>1. CASE v = c
      BY <2>1 DEF Ordered
    <2>2. CASE v # c
      <3>1. /\ c.s.probe.health.state = "ready" /\ e # c.s.probe.reference
            /\ v = Adopt(c, e, NoSequence)
        BY <2>2 DEF ResubscribeVerdict
      <3>2. e \in Epochs /\ Reference(c.s) < e /\ e <= epoch
        BY <1>0, <3>1 DEF Probing, Epochs
      <3>3. /\ Knows(v) /\ Reference(v.s) = e /\ v.s.lastSequence = NoSequence
            /\ v.o.delivered = <<>>
        BY <1>0, <3>1, <3>2, AdoptKnows
      <3>4. Rebuilt(v)
        BY <1>0, <3>1, <3>2, AdoptRebuilt
      <3>5. Delivering(v)
        BY <3>3 DEF Delivering
      <3> QED
        BY <3>2, <3>3, <3>4, <3>5
    <2> QED
      BY <2>1, <2>2
  <1> HIDE DEF v
  <1>2. /\ Knows(d) /\ Probing(d) /\ Quiet(v, d) /\ Delivering(d)
        /\ Reference(d.s) = Reference(v.s)
    <2>1. Knows(d) /\ Probing(d) /\ Quiet(v, d) /\ Reference(d.s) = Reference(v.s)
      BY <1>0, <1>1, ClientOf, DoneKnows, DoneQuiet
    <2>2. Delivering(d)
      BY <1>1, <2>1, Zenon DEF Quiet, Delivering
    <2> QED
      BY <2>1, <2>2
  <1> HIDE DEF d
  <1>3. Quiet(c, d) \/ Rebuilt(d)
    <2>1. Quiet(c, v) \/ Rebuilt(v)
      BY <1>1 DEF Quiet
    <2> QED
      BY <1>2, <2>1, QuietThen
  <1>4. /\ Knows(h) /\ Probing(h) /\ (~held.current => h = d)
        /\ Quiet(c, h) \/ Rebuilt(h)
    <2>1. CASE held.current
      <3>1. f \in Frame /\ Past(f) /\ f.epoch # Reference(c.s)
        BY <2>1 DEF Knows, Ordered, HeldBack
      <3>2. h = HandleEvent(d, f)
        BY <2>1
      <3>3. f.epoch = Reference(d.s) => d.s.lastSequence < f.sequence
        <4>1. ASSUME f.epoch = Reference(d.s) PROVE d.s.lastSequence = NoSequence
          BY <1>1, <1>2, <3>1, <4>1 DEF Quiet
        <4>2. NoSequence < f.sequence
          BY <3>1, FrameType DEF NoSequence
        <4> QED
          BY <4>1, <4>2
      <3>4. Knows(h) /\ Probing(h)
        BY <1>0, <1>2, <3>1, <3>2, HandleEventKnows
      <3> DEFINE t == <<>>
      <3>5. /\ t \in Seq(Frame) /\ Below(f, t)
            /\ \A i \in 1 .. Len(t) : t[i].kind # "resync"
        BY DEF Below
      <3> HIDE DEF t
      <3>6. /\ Rebuilt(d) => Rebuilt(h)
            /\ Reference(d.s) \notin {NoEpoch, f.epoch} => Quiet(d, h)
        BY <1>2, <3>1, <3>2, <3>3, <3>5, HandleEventLoses
      <3>7. CASE v = c
        <4>1. Quiet(d, h)
          BY <1>0, <1>2, <3>1, <3>6, <3>7
        <4> QED
          BY <1>3, <2>1, <3>4, <4>1, QuietThen
      <3>8. CASE Rebuilt(v)
        <4>1. Rebuilt(d)
          BY <1>2, <3>8, QuietKeeps
        <4> QED
          BY <2>1, <3>4, <3>6, <4>1
      <3> QED
        BY <1>1, <3>7, <3>8
    <2>2. CASE ~held.current
      BY <1>2, <1>3, <2>2
    <2> QED
      BY <2>1, <2>2
  <1> HIDE DEF h
  <1>5. Unmoved(h, r) /\ Quiet(h, r)
    BY <1>0, <1>4, DeferredKnows, UnmovedQuiet
  <1> HIDE DEF r
  <1>6. Quiet(c, r) \/ Rebuilt(r)
    BY <1>4, <1>5, QuietThen
  <1>7. ASSUME ~Attending(c)
        PROVE  \/ Reference(r.s) = Reference(c.s) /\ r.s.lastSequence = c.s.lastSequence
               \/ Reference(c.s) < Reference(r.s)
    <2>1. h = d
      BY <1>4, <1>7 DEF Attending
    <2>2. Reference(r.s) = Reference(d.s) /\ r.s.lastSequence = d.s.lastSequence
      BY <1>5, <2>1, SameReference DEF Unmoved
    <2> QED
      BY <1>1, <1>2, <2>2 DEF Quiet
  <1> QED
    BY <1>6, <1>7, <1>r

\* Replaying in order leaves none of the events out.
LEMMA InOrderCovers ==
  ASSUME NEW S, IsFiniteSet(S), S \subseteq Nat, NEW q \in InOrder(S), NEW e \in S
  PROVE  \E i \in DOMAIN q : q[i] = e
  <1> DEFINE n == Cardinality(S)
  <1>1. /\ n \in Nat /\ q \in [1 .. n -> S] /\ DOMAIN q = 1 .. n
        /\ \A i, j \in 1 .. n : i < j => q[i] < q[j]
    BY FS_CardinalityType DEF InOrder
  <1>2. q \in Injection(1 .. n, S)
    <2>1. ASSUME NEW i \in 1 .. n, NEW j \in 1 .. n, q[i] = q[j] PROVE i = j
      <3>1. q[i] \in Nat /\ q[j] \in Nat
        BY <1>1
      <3>2. ~(i < j) /\ ~(j < i)
        BY <1>1, <2>1, <3>1
      <3> QED
        BY <1>1, <3>2
    <2> QED
      BY <1>1, <2>1 DEF Injection, IsInjective
  <1>3. IsFiniteSet(1 .. n) /\ Cardinality(1 .. n) = n
    BY <1>1, FS_Interval
  <1>4. q \in Surjection(1 .. n, S)
    BY <1>2, <1>3, FS_Injection
  <1> QED
    BY <1>1, <1>4 DEF Surjection

\* The log keeps a suffix of the broadcast events.
Suffix == \A m \in retained : \A e \in broadcast : m < e => e \in retained

\* Only the first frame of a connection tells of a cursor not served.
ResyncFirst(q) == \A i \in 1 .. Len(q) : q[i].kind = "resync" => i = 1

\* Until the daemon answers, the cursor it was sent is where the stream is, or
\* the stream has moved on to a later lifetime.
Caught(c, w) ==
    w.open /\ ~w.attached =>
        /\ w.epoch <= Reference(c.s)
        /\ w.epoch = Reference(c.s) => w.cursor = c.s.lastSequence

\* A connection that has ended brings nothing of the live lifetime.
Ended(w) ==
    w.ended => /\ w.attached
               /\ \A i \in 1 .. Len(w.frames) : w.frames[i].epoch # epoch

\* What is in flight to a connection that was told whether its cursor was
\* served covers everything beyond it.
Resumed(c, w) ==
    w.attached /\ ~w.ended /\ ~w.untold /\ w.cursor # NoSequence =>
        Covered(c, w.frames)

LossInv ==
    /\ Suffix
    /\ ResyncFirst(wire.frames)
    /\ Ended(wire)
    /\ Caught(Client, wire)
    /\ Resumed(Client, wire)

LEMMA InitLossInv == Init => LossInv
  <1> SUFFICES ASSUME Init PROVE LossInv
    OBVIOUS
  <1>1. /\ wire = NoWire /\ retained = {} /\ broadcast = {} /\ activity = "none"
    BY DEF Init, LogInit
  <1>2. /\ wire.frames = <<>> /\ ~wire.open /\ ~wire.attached /\ ~wire.ended
    BY <1>1, NoWireType DEF NoWire
  <1> QED
    BY <1>1, <1>2 DEF LossInv, Suffix, ResyncFirst, Ended, Caught, Resumed

\* What a resumed cursor is answered with covers everything beyond it.
LEMMA ReplayCovers ==
  ASSUME EpochInv, LossInv, NEW c \in Clients, c.o.epoch = Reference(c.s),
         wire.open, ~wire.attached, Caught(c, wire), wire.epoch = epoch,
         CanReplayFrom(wire.cursor), NEW missed \in InOrder(EventsAfter(wire.cursor))
  PROVE  Covered(c, [i \in DOMAIN missed |-> EventFrame(missed[i])])
  <1> DEFINE S == EventsAfter(wire.cursor)
             q == [i \in DOMAIN missed |-> EventFrame(missed[i])]
  <1>0. /\ sequence \in Int /\ wire.cursor \in Int /\ broadcast \subseteq 1 .. sequence
        /\ retained \subseteq broadcast
    BY CountingHere DEF EpochInv, TypeOK, Wires
  <1>1. S \subseteq 1 .. sequence
    BY <1>0 DEF EventsAfter
  <1>2. IsFiniteSet(S) /\ S \subseteq Nat
    <2>1. IsFiniteSet(1 .. sequence)
      BY <1>0, FS_Interval
    <2> QED
      BY <1>0, <1>1, <2>1, FS_Subset
  <1>3. q \in Seq(Frame)
    BY ReplayFrames DEF EpochInv
  <1>4. DOMAIN q = DOMAIN missed /\ DOMAIN q = 1 .. Len(q)
    BY <1>3
  <1> SUFFICES ASSUME c.o.epoch = epoch, NEW e \in broadcast, c.s.lastSequence < e
               PROVE  \E i \in 1 .. Len(q) : Brings(q[i], e)
    BY DEF Covered
  <1>5. wire.cursor < e
    BY DEF Caught
  <1>6. e \in retained
    <2>1. PICK oldest \in retained : wire.cursor >= oldest - 1
      BY DEF CanReplayFrom
    <2>2. oldest = e \/ oldest < e
      BY <1>0, <1>5, <2>1
    <2> QED
      BY <2>1, <2>2 DEF LossInv, Suffix
  <1>7. e \in S
    BY <1>5, <1>6 DEF EventsAfter
  <1>8. PICK i \in DOMAIN missed : missed[i] = e
    BY <1>2, <1>7, InOrderCovers
  <1>9. q[i] = EventFrame(e)
    BY <1>8
  <1> QED
    BY <1>4, <1>8, <1>9 DEF Brings, EventFrame

\* So does the snapshot written to a cursor that is not served.
LEMMA SnapshotCovers ==
  ASSUME EpochInv, LossInv, NEW c, activity = "held"
  PROVE  Covered(c, AttachSnapshot(TRUE)) /\ ResyncFirst(AttachSnapshot(TRUE))
  <1> DEFINE f == [kind |-> "resync", epoch |-> epoch, sequence |-> sequence + 1]
  <1>1. sequence \in Int /\ \A e \in broadcast : e \in Int /\ e <= sequence
    BY CountingHere DEF EpochInv, TypeOK
  <1>2. AttachSnapshot(TRUE) = <<f>>
    BY DEF AttachSnapshot
  <1>3. \A e \in broadcast : Brings(f, e)
    BY <1>1 DEF Brings
  <1> HIDE DEF f
  <1>4. Len(<<f>>) = 1 /\ <<f>>[1] = f
    OBVIOUS
  <1>5. Covered(c, <<f>>)
    BY <1>3, <1>4 DEF Covered
  <1>6. ResyncFirst(<<f>>)
    BY <1>4 DEF ResyncFirst
  <1> QED
    BY <1>2, <1>5, <1>6

LEMMA LostHere == Lost = LostOf(Client)
  BY Zenon DEF Lost, LostOf, Client

\* A new event reaches every connection that is not behind a restart.
LEMMA PublishLoses ==
  ASSUME EpochInv, LossInv, Publish \/ Forget
  PROVE  LossInv' /\ Lost' \subseteq Lost
  <1> DEFINE n == sequence + 1
             f == EventFrame(n)
             q == wire.frames
             c == Client
  <1>1. /\ sequence' = n /\ broadcast' = broadcast \cup {n}
        /\ DeliverToWire(f) /\ UNCHANGED <<epoch, stream, owner>>
    BY DEF Publish, Forget, Broadcast
  <1>2. PICK oldest \in 0 .. sequence + 2 :
           retained' = {e \in retained \cup {n} : e >= oldest}
    BY DEF Publish, Forget, Broadcast
  <1>0. /\ sequence \in Int /\ \A e \in broadcast : e \in Int /\ e <= sequence
        /\ retained \subseteq broadcast /\ q \in Seq(Frame) /\ wire \in Wires
        /\ Knows(c) /\ c.s.lastSequence \in Int /\ c.o.base \in Int
        /\ epoch \in Epochs /\ sequence \in 0 .. MaxSequence
    BY CountingHere, FieldTypes DEF EpochInv, TypeOK, Wires
  <1>c. Client' = c /\ Client' = Client
    BY <1>1 DEF Client
  <1>3. Suffix'
    BY <1>0, <1>1, <1>2 DEF LossInv, Suffix
  <1>5. \/ /\ wire.attached /\ ~wire.ended
           /\ wire'.frames = Append(q, f) /\ wire'.attached = wire.attached
           /\ wire'.ended = wire.ended /\ wire'.open = wire.open
           /\ wire'.cursor = wire.cursor /\ wire'.epoch = wire.epoch
           /\ wire'.untold = wire.untold
        \/ wire' = wire /\ ~(wire.attached /\ ~wire.ended)
    <2>1. CASE wire.attached /\ ~wire.ended
      <3>1. wire' = [wire EXCEPT !.frames = Append(q, f)]
        BY <1>1, <2>1 DEF DeliverToWire
      <3> QED
        BY <1>0, <2>1, <3>1, Zenon DEF Wires
    <2>2. CASE ~(wire.attached /\ ~wire.ended)
      BY <1>1, <2>2 DEF DeliverToWire
    <2> QED
      BY <2>1, <2>2
  <1>f. f.epoch = epoch /\ f.sequence = n /\ f.kind = "event" /\ f \in Frame
    <2>1. sequence < MaxSequence
      BY DEF Publish, Forget, Broadcast
    <2> QED
      BY <1>0, <2>1, MaxSequenceAssumption DEF EventFrame, Frame
  <1>l. Lost' \subseteq Lost
    <2> SUFFICES ASSUME NEW e \in Lost' PROVE e \in Lost
      OBVIOUS
    <2>1. /\ owner.epoch = epoch /\ e \in broadcast' /\ owner.base < e
          /\ e <= stream.lastSequence
          /\ \A i \in 1 .. Len(owner.delivered) : owner.delivered[i].sequence # e
      BY <1>1 DEF Lost
    <2>2. c.s.lastSequence <= sequence
      BY <1>0, <2>1 DEF Knows, Client
    <2>3. e # n
      BY <1>0, <2>1, <2>2 DEF Client
    <2> QED
      BY <1>1, <2>1, <2>3 DEF Lost
  <1> HIDE DEF f, c
  <1>6. CASE wire' = wire /\ ~(wire.attached /\ ~wire.ended)
    <2>1. ResyncFirst(wire.frames)' /\ Ended(wire)' /\ Caught(Client, wire)'
      BY <1>1, <1>c, <1>6 DEF LossInv, ResyncFirst, Ended, Caught
    <2>2. Resumed(Client, wire)'
      BY <1>1, <1>c, <1>6 DEF Resumed
    <2> QED
      BY <1>3, <1>l, <2>1, <2>2 DEF LossInv
  <1>7. CASE /\ wire.attached /\ ~wire.ended
             /\ wire'.frames = Append(q, f) /\ wire'.attached = wire.attached
             /\ wire'.ended = wire.ended /\ wire'.open = wire.open
             /\ wire'.cursor = wire.cursor /\ wire'.epoch = wire.epoch
             /\ wire'.untold = wire.untold
    <2> DEFINE r == Append(q, f)
    <2>1. /\ Len(r) = Len(q) + 1 /\ Len(q) \in Nat /\ r[Len(q) + 1] = f
          /\ \A i \in 1 .. Len(q) : r[i] = q[i] /\ i \in 1 .. Len(r)
          /\ Len(q) + 1 \in 1 .. Len(r)
          /\ \A i \in 1 .. Len(r) : i \in 1 .. Len(q) \/ i = Len(q) + 1
      BY <1>0, <1>f
    <2> HIDE DEF r
    <2>2. ResyncFirst(r)
      BY <1>f, <2>1 DEF LossInv, ResyncFirst
    <2>3. ResyncFirst(wire.frames)'
      BY <1>7, <2>2 DEF ResyncFirst, r
    <2>4. Ended(wire)' /\ Caught(Client, wire)'
      BY <1>1, <1>c, <1>7 DEF LossInv, Ended, Caught
    <2>5. ASSUME wire.cursor # NoSequence, ~wire.untold, c.o.epoch = epoch,
                 NEW e \in broadcast', c.o.base < e, c.s.lastSequence < e
          PROVE  \E i \in 1 .. Len(r) : Brings(r[i], e)
      <3>1. CASE e = n
        BY <1>f, <2>1, <3>1 DEF Brings
      <3>2. CASE e \in broadcast
        <4>1. PICK i \in 1 .. Len(q) : Brings(q[i], e)
          BY <1>7, <2>5, <3>2 DEF LossInv, Resumed, Covered, c
        <4> QED
          BY <2>1, <4>1
      <3> QED
        BY <1>1, <2>5, <3>1, <3>2
    <2>6. Resumed(Client, wire)'
      <3> SUFFICES ASSUME wire.cursor # NoSequence, ~wire.untold, c.o.epoch = epoch,
                          NEW e \in broadcast', c.o.base < e, c.s.lastSequence < e
                   PROVE  \E i \in 1 .. Len(r) :
                              /\ r[i].epoch = epoch
                              /\ \/ r[i].sequence = e
                                 \/ r[i].kind = "resync" /\ e <= r[i].sequence
        BY <1>1, <1>c, <1>7 DEF Resumed, Covered, Brings, r
      <3> QED
        BY <2>5 DEF Brings
    <2> QED
      BY <1>3, <1>l, <2>3, <2>4, <2>6 DEF LossInv
  <1> QED
    BY <1>5, <1>6, <1>7

LEMMA AttachLoses ==
  ASSUME EpochInv, OrderInv, LossInv, Attach
  PROVE  LossInv' /\ Lost' \subseteq Lost
  <1>0. /\ wire.open /\ ~wire.attached /\ ~wire.ended /\ wire.frames = <<>>
        /\ UNCHANGED <<epoch, activity, stream, owner, retained, broadcast>>
        /\ wire \in Wires /\ Client \in Clients /\ Client.o.epoch = Reference(Client.s)
        /\ Client' = Client
    <2>1. wire.open /\ ~wire.attached /\ UNCHANGED <<epoch, activity, stream, owner>>
      BY DEF Attach
    <2>2. UNCHANGED <<retained, broadcast>>
      BY DEF Attach, Replay, NumberSnapshot
    <2>3. ~wire.ended /\ wire.frames = <<>>
      BY <2>1 DEF OrderInv, Subscribed, LossInv, Ended
    <2>4. wire \in Wires /\ Client \in Clients /\ Client.o.epoch = Reference(Client.s)
      BY CountingHere DEF Knows
    <2>5. Client' = Client
      BY <2>1 DEF Client
    <2> QED BY <2>1, <2>2, <2>3, <2>4, <2>5
  <1>a. activity \in {"none", "held"}
    BY DEF EpochInv, TypeOK
  <1>1. Lost' \subseteq Lost
    BY <1>0 DEF Lost
  <1>2. Suffix'
    BY <1>0 DEF LossInv, Suffix
  <1>3. ASSUME NEW p \in Seq(Frame), NEW untold, Attached(p, untold), ResyncFirst(p),
               ~untold /\ wire.cursor # NoSequence => Covered(Client, p)
        PROVE  LossInv'
    <2>1. wire' = [wire EXCEPT !.attached = TRUE, !.frames = wire.frames \o p,
                               !.untold = untold]
      BY <1>3 DEF Attached
    <2>2. wire.frames \o p = p
      BY <1>0
    <2>3. /\ wire'.frames = p /\ wire'.attached = TRUE /\ wire'.ended = wire.ended
          /\ wire'.cursor = wire.cursor /\ wire'.untold = untold
      BY <1>0, <2>1, <2>2, Zenon DEF Wires
    <2>4. ResyncFirst(wire.frames)'
      BY <1>3, <2>3 DEF ResyncFirst
    <2>5. Ended(wire)' /\ Caught(Client, wire)'
      BY <1>0, <2>3 DEF Ended, Caught
    <2>6. Resumed(Client, wire)'
      BY <1>0, <1>3, <2>3 DEF Resumed, Covered, Brings
    <2> QED
      BY <1>2, <2>4, <2>5, <2>6 DEF LossInv
  <1>4. CASE /\ wire.epoch = epoch /\ CanReplayFrom(wire.cursor)
             /\ \E missed \in InOrder(EventsAfter(wire.cursor)) :
                   Attached([i \in DOMAIN missed |-> EventFrame(missed[i])], FALSE)
    <2>1. PICK missed \in InOrder(EventsAfter(wire.cursor)) :
             Attached([i \in DOMAIN missed |-> EventFrame(missed[i])], FALSE)
      BY <1>4
    <2> DEFINE p == [i \in DOMAIN missed |-> EventFrame(missed[i])]
    <2>2. p \in Seq(Frame)
      BY ReplayFrames DEF EpochInv
    <2>3. ResyncFirst(p)
      <3>1. \A i \in 1 .. Len(p) : p[i].kind = "event"
        <4>1. DOMAIN p = 1 .. Len(p)
          BY <2>2
        <4> QED
          BY <4>1 DEF EventFrame
      <3> QED
        BY <3>1 DEF ResyncFirst
    <2>4. Covered(Client, p)
      BY <1>0, <1>4, ReplayCovers DEF LossInv
    <2> QED
      BY <1>1, <1>3, <2>1, <2>2, <2>3, <2>4
  <1>5. CASE /\ NumberSnapshot
             /\ Attached(AttachSnapshot(\/ wire.cursor # NoSequence
                                        \/ wire.epoch \notin {NoEpoch, epoch}),
                         activity = "none")
    <2> DEFINE resync == wire.cursor # NoSequence \/ wire.epoch \notin {NoEpoch, epoch}
               p == AttachSnapshot(resync)
    <2>1. sequence < MaxSequence
      BY <1>5 DEF NumberSnapshot
    <2>2. resync \in BOOLEAN
      OBVIOUS
    <2>3. p \in Seq(Frame) /\ Len(p) \in {0, 1}
      BY <2>1, <2>2, SnapshotFrames DEF EpochInv
    <2>4. Attached(p, activity = "none")
      BY <1>5
    <2>5. wire.cursor # NoSequence => p = AttachSnapshot(TRUE)
      <3>1. wire.cursor # NoSequence => resync = TRUE
        OBVIOUS
      <3> QED
        BY <3>1
    <2> HIDE DEF p, resync
    <2>6. ResyncFirst(p)
      BY <2>3 DEF ResyncFirst
    <2>7. activity # "none" /\ wire.cursor # NoSequence => Covered(Client, p)
      BY <1>a, <2>5, SnapshotCovers
    <2> QED
      BY <1>1, <1>3, <2>3, <2>4, <2>6, <2>7
  <1> QED
    BY <1>4, <1>5 DEF Attach, Replay

LEMMA DaemonLoses ==
  ASSUME EpochInv, OrderInv, LossInv, Daemon
  PROVE  LossInv' /\ Lost' \subseteq Lost
  <1>1. CASE PrivateSnapshot \/ Activate
    <2>1. /\ UNCHANGED <<retained, broadcast, epoch, wire, stream, owner>>
          /\ activity' \in {activity, "held"}
      BY <1>1 DEF PrivateSnapshot, NumberSnapshot, Activate
    <2>2. Client' = Client
      BY <2>1 DEF Client
    <2>3. Lost' = Lost
      BY <2>1 DEF Lost
    <2> QED
      BY <2>1, <2>2, <2>3
         DEF LossInv, Suffix, ResyncFirst, Ended, Caught, Resumed, Covered, Brings
  <1>2. CASE Restart
    <2>0. /\ wire \in Wires /\ epoch \in Int /\ epoch' = epoch + 1
          /\ retained' = {} /\ broadcast' = {} /\ activity' = "none"
          /\ wire' = [wire EXCEPT !.ended = wire.attached] /\ Client' = Client
      BY <1>2, CountingHere DEF Restart, Client, Epochs
    <2>1. /\ wire'.ended = wire.attached /\ wire'.attached = wire.attached
          /\ wire'.frames = wire.frames /\ wire'.open = wire.open
          /\ wire'.epoch = wire.epoch /\ wire'.cursor = wire.cursor
          /\ wire'.untold = wire.untold /\ wire.attached \in BOOLEAN /\ wire.frames \in Seq(Frame)
      BY <2>0, Zenon DEF Wires
    <2>2. Lost' = {}
      BY <2>0 DEF Lost
    <2>3. \A i \in 1 .. Len(wire.frames) : wire.frames[i].epoch # epoch'
      <3> SUFFICES ASSUME NEW i \in 1 .. Len(wire.frames) PROVE wire.frames[i].epoch # epoch'
        OBVIOUS
      <3>1. wire.frames[i].epoch <= epoch /\ wire.frames[i] \in Frame
        BY <2>1 DEF EpochInv, WireKnows, Past
      <3>2. wire.frames[i].epoch \in 1 .. MaxEpoch
        BY <3>1, FrameType
      <3> QED
        BY <2>0, <3>1, <3>2
    <2> QED
      BY <2>0, <2>1, <2>2, <2>3
         DEF LossInv, Suffix, ResyncFirst, Ended, Caught, Resumed
  <1> QED
    BY <1>1, <1>2, PublishLoses, AttachLoses DEF Daemon

\* A handler's outcome keeps the invariant when it does and its connection does.
LEMMA BecomesLoses ==
  ASSUME LossInv, NEW d, NEW w, Becomes(d, w),
         d.s.phase = "open" =>
            ResyncFirst(w.frames) /\ Ended(w) /\ Caught(d, w) /\ Resumed(d, w)
  PROVE  /\ LossInv'
         /\ LostOf(d) \subseteq Lost => Lost' \subseteq Lost
  <1>1. /\ stream' = d.s /\ owner' = d.o
        /\ wire' = IF d.s.phase = "open" THEN w ELSE NoWire
        /\ UNCHANGED <<retained, broadcast, epoch, activity>>
    BY DEF Becomes
  <1>2. Client'.s = d.s /\ Client'.o = d.o
    BY <1>1 DEF Client
  <1>3. Lost' = LostOf(d)
    BY <1>1, Zenon DEF Lost, LostOf
  <1>4. Suffix'
    BY <1>1 DEF LossInv, Suffix
  <1>5. CASE d.s.phase = "open"
    <2>1. wire' = w
      BY <1>1, <1>5
    <2>2. ResyncFirst(wire.frames)' /\ Ended(wire)' /\ Caught(Client, wire)'
      BY <1>1, <1>2, <1>5, <2>1 DEF ResyncFirst, Ended, Caught
    <2>3. Resumed(Client, wire)'
      BY <1>1, <1>2, <1>5, <2>1 DEF Resumed, Covered, Brings
    <2> QED
      BY <1>3, <1>4, <2>2, <2>3 DEF LossInv
  <1>6. CASE d.s.phase # "open"
    <2>1. wire' = NoWire
      BY <1>1, <1>6
    <2>2. /\ wire'.frames = <<>> /\ ~wire'.open /\ ~wire'.attached /\ ~wire'.ended
      BY <2>1, NoWireType DEF NoWire
    <2> QED
      BY <1>3, <1>4, <2>2 DEF LossInv, ResyncFirst, Ended, Caught, Resumed
  <1> QED
    BY <1>5, <1>6

\* A step that tells the owner nothing, or to read everything again, keeps it.
LEMMA QuietLoses ==
  ASSUME EpochInv, LossInv, NEW d \in Clients, NEW w, Becomes(d, w),
         Quiet(Client, d) \/ Rebuilt(d),
         d.s.phase = "open" =>
            /\ w.frames = wire.frames /\ w.ended = wire.ended
            /\ w.attached = wire.attached /\ w.cursor = wire.cursor
            /\ w.untold = wire.untold
            /\ Caught(d, w)
  PROVE  LossInv' /\ Lost' \subseteq Lost
  <1>1. LostOf(d) \subseteq Lost /\ (Covered(Client, wire.frames) => Covered(d, wire.frames))
    <2>1. CASE Quiet(Client, d)
      BY <2>1, LostHere, QuietKeeps
    <2>2. CASE Rebuilt(d)
      BY <2>2, RebuiltCovers DEF EpochInv
    <2> QED
      BY <2>1, <2>2
  <1>2. ASSUME d.s.phase = "open"
        PROVE  ResyncFirst(w.frames) /\ Ended(w) /\ Caught(d, w) /\ Resumed(d, w)
    BY <1>1, <1>2 DEF LossInv, Ended, Resumed
  <1> QED
    BY <1>1, <1>2, BecomesLoses

LEMMA NextLossInv ==
  EpochInv /\ OrderInv /\ LossInv /\ [Next]_vars =>
      LossInv' /\ (Lost' \subseteq Lost \/ wire.cursor = NoSequence \/ wire.untold)
  <1> SUFFICES ASSUME EpochInv, OrderInv, LossInv, [Next]_vars
               PROVE  LossInv' /\ (Lost' \subseteq Lost \/ wire.cursor = NoSequence \/ wire.untold)
    OBVIOUS
  <1> DEFINE c == Client
             q == wire.frames
  <1>0. /\ Counting /\ Knows(c) /\ Probing(c) /\ c \in Clients
        /\ c.s = stream /\ c.o = owner /\ wire \in Wires /\ q \in Seq(Frame)
        /\ (wire.open = (stream.phase = "open")) /\ TypeOK
        /\ Ordered(c, q) /\ InFlight(q) /\ Subscribed(c, wire)
        /\ wire.attached => wire.open
    BY CountingHere DEF EpochInv, TypeOK, Wires, OrderInv
  <1>1. CASE Daemon
    BY <1>1, DaemonLoses
  <1>2. CASE Connect
    <2> DEFINE d == [c EXCEPT !.s.phase = "open"]
               w == [NoWire EXCEPT !.open = TRUE, !.cursor = stream.lastSequence,
                                   !.epoch = Reference(stream)]
    <2>1. Becomes(d, w)
      BY <1>2 DEF Connect
    <2>2. d \in Clients /\ Unmoved(c, d)
      BY <1>0, Zenon DEF Clients, Streams, Unmoved
    <2>3. /\ w.attached = NoWire.attached /\ w.frames = NoWire.frames
          /\ w.ended = NoWire.ended
          /\ w.cursor = stream.lastSequence /\ w.epoch = Reference(stream)
      BY NoWireType, Zenon DEF Wires
    <2>4. ~w.attached /\ w.frames = <<>> /\ ~w.ended
      BY <2>3, NoWireType DEF NoWire
    <2> HIDE DEF d, w
    <2>5. /\ Reference(d.s) = Reference(c.s) /\ d.s.lastSequence = c.s.lastSequence
          /\ Quiet(c, d)
      BY <2>2, SameReference, UnmovedQuiet DEF Unmoved
    <2>6. Reference(stream) \in Int
      BY <1>0, FieldTypes
    <2>7. Caught(d, w)
      BY <1>0, <2>3, <2>5, <2>6 DEF Caught
    <2>8. ResyncFirst(w.frames) /\ Ended(w) /\ Resumed(d, w)
      BY <2>4 DEF ResyncFirst, Ended, Resumed
    <2>9. LostOf(d) \subseteq Lost
      BY <2>5, LostHere, QuietKeeps
    <2> QED
      BY <2>1, <2>7, <2>8, <2>9, BecomesLoses
  <1>3. ASSUME NEW p \in {"backoff", "stopped", "disposed"},
               Becomes(Invalidate(Client, p), NoWire)
        PROVE  LossInv' /\ Lost' \subseteq Lost
    <2> DEFINE d == Invalidate(c, p)
    <2>1. p \in {"backoff", "open", "stopped", "disposed"} /\ p # "open"
      OBVIOUS
    <2>2. d \in Clients /\ d.s.phase = p /\ Quiet(c, d)
      BY <1>0, <2>1, InvalidateFields DEF Quiet
    <2> HIDE DEF d
    <2> QED
      BY <1>3, <2>1, <2>2, QuietLoses DEF d
  <1>4. CASE Disconnect \/ AuthorizationLost \/ Reconnect \/ Dispose
    BY <1>3, <1>4 DEF Disconnect, AuthorizationLost, Reconnect, Dispose
  <1>5. CASE ConnectionReady
    <2> DEFINE d == MarkReady(c)
               w == [wire EXCEPT !.ready = TRUE]
    <2>1. Becomes(d, w)
      BY <1>5 DEF ConnectionReady
    <2>2. Knows(d) /\ Unmoved(c, d)
      BY <1>0, ReadyKnows
    <2>3. /\ w.frames = wire.frames /\ w.attached = wire.attached /\ w.ended = wire.ended
          /\ w.cursor = wire.cursor /\ w.epoch = wire.epoch /\ w.open = wire.open
          /\ w.untold = wire.untold
      BY <1>0, Zenon DEF Wires
    <2> HIDE DEF d, w
    <2>4. /\ Reference(d.s) = Reference(c.s) /\ d.s.lastSequence = c.s.lastSequence
          /\ Quiet(c, d) /\ d \in Clients
      BY <2>2, ClientOf, SameReference, UnmovedQuiet DEF Unmoved
    <2>5. Caught(d, w)
      BY <2>3, <2>4 DEF LossInv, Caught
    <2> QED
      BY <2>1, <2>3, <2>4, <2>5, QuietLoses
  <1>6. CASE Receive
    <2> DEFINE f == Head(wire.frames)
               t == Tail(wire.frames)
               d == HandleEvent(c, f)
               w == [wire EXCEPT !.frames = Tail(@)]
    <2>1. Becomes(d, w) /\ wire.frames # <<>>
      BY <1>6 DEF Receive
    <2>2. /\ f = q[1] /\ f \in Frame /\ Len(q) \in Nat /\ 1 \in 1 .. Len(q)
          /\ t \in Seq(Frame) /\ Len(t) = Len(q) - 1 /\ q = <<f>> \o t
          /\ \A i \in 1 .. Len(t) : t[i] = q[i + 1] /\ i + 1 \in 1 .. Len(q) /\ 1 < i + 1
      BY <1>0, <2>1
    <2>3. /\ w.frames = t /\ w.attached = wire.attached /\ w.ended = wire.ended
          /\ w.cursor = wire.cursor /\ w.untold = wire.untold
      BY <1>0, Zenon DEF Wires
    <2> HIDE DEF w, f, t
    <2>4. Past(f) /\ (f.epoch = Reference(c.s) => c.s.lastSequence < f.sequence)
      BY <1>0, <2>2 DEF EpochInv, WireKnows, Ordered, Fresh
    <2>5. Below(f, t)
      BY <1>0, <2>2 DEF InFlight, Below
    <2>6. \A i \in 1 .. Len(t) : t[i].kind # "resync"
      <3> SUFFICES ASSUME NEW i \in 1 .. Len(t) PROVE t[i].kind # "resync"
        OBVIOUS
      <3>1. i + 1 \in 1 .. Len(q) /\ i + 1 # 1 /\ t[i] = q[i + 1]
        BY <2>2
      <3> QED
        BY <3>1 DEF LossInv, ResyncFirst
    <2>7. /\ Covered(c, q) => LostOf(d) \subseteq LostOf(c) /\ Covered(d, t)
          /\ f.epoch # epoch => LostOf(d) \subseteq LostOf(c)
      BY <1>0, <2>2, <2>4, <2>5, <2>6, HandleEventLoses DEF Ordered
    <2> HIDE DEF d
    <2>8. wire.attached
      BY <1>0, <2>1 DEF Subscribed
    <2>9. ResyncFirst(w.frames) /\ Ended(w) /\ Caught(d, w)
      <3>1. ResyncFirst(t)
        BY <2>6 DEF ResyncFirst
      <3> QED
        BY <2>2, <2>3, <2>8, <3>1 DEF LossInv, Ended, Caught
    <2>10. Resumed(d, w)
      BY <2>3, <2>7 DEF LossInv, Resumed
    <2>11. LostOf(d) \subseteq Lost \/ wire.cursor = NoSequence \/ wire.untold
      <3>1. CASE wire.ended
        BY <2>2, <2>7, <3>1, LostHere DEF LossInv, Ended
      <3>2. CASE ~wire.ended
        BY <2>7, <2>8, <3>2, LostHere DEF LossInv, Resumed
      <3> QED
        BY <3>1, <3>2
    <2> QED
      BY <2>1, <2>9, <2>10, <2>11, BecomesLoses
  <1>7. CASE ProbeAnswered
    <2>1. PICK answer \in {[state |-> "ready", epoch |-> epoch]}
                     \cup [state : {"failed", "unauthorized"}, epoch : {NoEpoch}] :
             Becomes([c EXCEPT !.s.probe.health = answer], wire)
      BY <1>7 DEF ProbeAnswered
    <2> DEFINE d == [c EXCEPT !.s.probe.health = answer]
    <2>2. answer \in Health
      BY <1>0 DEF Health, Counting
    <2>3. d \in Clients /\ Unmoved(c, d)
      BY <1>0, <2>2, Zenon DEF Clients, Streams, Probes, Unmoved
    <2>4. Becomes(d, wire)
      BY <2>1
    <2> HIDE DEF d
    <2>5. /\ Reference(d.s) = Reference(c.s) /\ d.s.lastSequence = c.s.lastSequence
          /\ Quiet(c, d)
      BY <2>3, SameReference, UnmovedQuiet DEF Unmoved
    <2>6. Caught(d, wire)
      BY <2>5 DEF LossInv, Caught
    <2> QED
      BY <2>3, <2>4, <2>5, <2>6, QuietLoses
  <1>8. CASE ProbeSettles
    <2>1. PICK d : /\ Becomes(d, wire)
                   /\ \/ c.s.probe.kind = "foreign" /\ d = ForeignProbeEnds(c)
                      \/ c.s.probe.kind = "resubscribe" /\ d = ResubscribeProbeEnds(c)
      BY <1>8, <1>0 DEF ProbeSettles
    <2>2. d \in Clients
      BY <1>0, <2>1, ForeignEndsKnows, ResubscribeEndsKnows, ClientOf
    <2>3. Quiet(c, d) \/ Rebuilt(d)
      BY <1>0, <2>1, ForeignEndsLoses, ResubscribeEndsLoses
    <2>4. ~Attending(c) =>
             \/ Reference(d.s) = Reference(c.s) /\ d.s.lastSequence = c.s.lastSequence
             \/ Reference(c.s) < Reference(d.s)
      BY <1>0, <2>1, ForeignEndsOrdered, ResubscribeEndsLoses
    <2>5. Caught(d, wire)
      <3> SUFFICES ASSUME wire.open, ~wire.attached
                   PROVE  /\ wire.epoch <= Reference(d.s)
                          /\ wire.epoch = Reference(d.s) => wire.cursor = d.s.lastSequence
        BY DEF Caught
      <3>1. /\ wire.epoch <= Reference(c.s)
            /\ wire.epoch = Reference(c.s) => wire.cursor = c.s.lastSequence
        BY DEF LossInv, Caught
      <3>2. ~Attending(c)
        BY <1>0 DEF Subscribed
      <3>3. wire.epoch \in Int /\ Reference(c.s) \in Int /\ Reference(d.s) \in Int
        BY <1>0, <2>2, FieldTypes DEF Wires
      <3> QED
        BY <2>4, <3>1, <3>2, <3>3
    <2> QED
      BY <2>1, <2>2, <2>3, <2>5, QuietLoses
  <1>9. CASE UNCHANGED vars
    <2>1. /\ UNCHANGED <<retained, broadcast, epoch, activity, wire, stream, owner>>
          /\ Client' = Client
      BY <1>9 DEF vars, Client
    <2> QED
      BY <2>1 DEF LossInv, Suffix, ResyncFirst, Ended, Caught, Resumed,
                  Covered, Brings, Lost
  <1> QED
    BY <1>1, <1>2, <1>4, <1>5, <1>6, <1>7, <1>8, <1>9 DEF Next

\* A connection that subscribed with a cursor never takes the owner past an
\* event it neither got nor was told to read again, whatever is lost on the
\* way, restarts meanwhile or waits for a probe, unless the snapshot that
\* answered its subscription was dropped for want of a session.
THEOREM ResumeLosesNothing == Spec => ResumedCursorLosesNothing
  <1> DEFINE Inv == EpochInv /\ OrderInv /\ LossInv
  <1>1. Init => Inv
    BY InitEpochInv, InitOrderInv, InitLossInv
  <1>2. Inv /\ [Next]_vars => Inv'
    BY NextEpochInv, NextOrderInv, NextLossInv
  <1>3. Inv /\ [Next]_vars => [Lost' \subseteq Lost \/ wire.cursor = NoSequence \/ wire.untold]_vars
    BY NextLossInv
  <1> QED
    BY <1>1, <1>2, <1>3, PTL DEF Spec, ResumedCursorLosesNothing
=============================================================================
