---------------------------- MODULE SessionReplay ----------------------------
(***************************************************************************)
(* The daemon's replay log (session-replay.js) driven by the two callers   *)
(* that assign sequence numbers: `publish` broadcasts an event and appends *)
(* it, `publishSnapshot` numbers a private frame and appends nothing.      *)
(*                                                                         *)
(* A wire line is its encoded size: its text never matters here.  The      *)
(* history variable `published` remembers every broadcast event, so that a *)
(* replay can be compared with what a subscriber should have received.     *)
(***************************************************************************)
EXTENDS Integers, Sequences

CONSTANTS
    Sessions,       \* session ids
    LineSizes,      \* encoded sizes a line can have
    MaxEvents,      \* retained events ceiling (1024 in the code)
    MaxBytes,       \* retained bytes ceiling (8 MiB in the code)
    MaxSequence     \* bound on the sequence counter, for model checking

ASSUME ReplayAssumption ==
    /\ LineSizes \subseteq Nat \ {0}
    /\ MaxEvents \in Nat \ {0}
    /\ MaxBytes \in Nat
    /\ MaxSequence \in Nat

VARIABLES
    sequence,       \* last sequence number assigned
    entries,        \* retained events, oldest first
    retainedBytes,  \* running total of their encoded sizes
    published       \* history: every event ever broadcast

vars == <<sequence, entries, retainedBytes, published>>

Entry == [sequence : Nat, sessionId : Sessions, bytes : LineSizes]

\* `requestedSessionId` is optional; a subscriber without one hears them all.
AnySession == "any session"

-----------------------------------------------------------------------------
(* The log's operations. *)

\* What is left of `total` after the k oldest entries of s are shifted out.
BytesAfterShifts(s, total) ==
    LET left[k \in 0 .. Len(s)] ==
          IF k = 0 THEN total ELSE left[k - 1] - s[k].bytes
    IN  left

\* Mutant: whole entries are shifted out until the bytes are below the ceiling.
StopsAfter_strictBytes(s, total, k) ==
    \/ k = Len(s)
    \/ /\ Len(s) - k <= MaxEvents
       /\ BytesAfterShifts(s, total)[k] < MaxBytes

\* The eviction loop stops after k shifts: the bounds hold, or nothing is left.
StopsAfter(s, total, k) ==
    \/ k = Len(s)
    \/ /\ Len(s) - k <= MaxEvents
       /\ BytesAfterShifts(s, total)[k] <= MaxBytes

\* A line that fits is pushed, then entries are shifted out, oldest first, just
\* until both bounds hold.
AppendFitting(entry) ==
    LET pushed == Append(entries, entry)
        total  == retainedBytes + entry.bytes
    IN  \E k \in 0 .. Len(pushed) :
          /\ StopsAfter(pushed, total, k)
          /\ \A j \in 0 .. k - 1 : ~StopsAfter(pushed, total, j)
          /\ entries' = SubSeq(pushed, k + 1, Len(pushed))
          /\ retainedBytes' = BytesAfterShifts(pushed, total)[k]

\* Mutant: an oversized line leaves the older suffix around its hole.
AppendLine_keepsSuffix(entry) ==
    IF entry.bytes > MaxBytes
    THEN UNCHANGED <<entries, retainedBytes>>
    ELSE AppendFitting(entry)

\* Mutant: the log is emptied and the running byte total is not.
AppendLine_keepsTotal(entry) ==
    IF entry.bytes > MaxBytes
    THEN entries' = <<>> /\ UNCHANGED retainedBytes
    ELSE AppendFitting(entry)

\* append: an oversized line empties the log instead of entering it.
AppendLine(entry) ==
    IF entry.bytes > MaxBytes
    THEN /\ entries' = <<>>
         /\ retainedBytes' = 0
    ELSE AppendFitting(entry)

CanReplay(fromSequence, latestSequence) ==
    /\ entries # <<>>
    /\ fromSequence >= entries[1].sequence - 1
    /\ fromSequence <= latestSequence

LinesAfter(fromSequence, requested) ==
    {i \in 1 .. Len(entries) :
        /\ entries[i].sequence > fromSequence
        /\ requested = AnySession \/ entries[i].sessionId = requested}

-----------------------------------------------------------------------------
Init ==
    /\ sequence = 0
    /\ entries = <<>>
    /\ retainedBytes = 0
    /\ published = {}

\* publish: number the event, append it, broadcast it.
Publish(s, size) ==
    /\ sequence < MaxSequence
    /\ sequence' = sequence + 1
    /\ LET entry == [sequence |-> sequence + 1, sessionId |-> s, bytes |-> size]
       IN  /\ AppendLine(entry)
           /\ published' = published \cup {entry}

\* publishSnapshot: the frame takes a number and never enters the log.
PublishSnapshot ==
    /\ sequence < MaxSequence
    /\ sequence' = sequence + 1
    /\ UNCHANGED <<entries, retainedBytes, published>>

Next ==
    \/ \E s \in Sessions, size \in LineSizes : Publish(s, size)
    \/ PublishSnapshot

Spec == Init /\ [][Next]_vars
-----------------------------------------------------------------------------
(* Properties. *)

\* Type invariant, with the count bound.
TypeOK ==
    /\ sequence \in 0 .. MaxSequence
    /\ entries \in Seq(Entry)
    /\ Len(entries) <= MaxEvents
    /\ published \subseteq Entry

\* The replay contract: whenever `canReplay` accepts a cursor, the lines it
\* then writes are exactly the broadcast events after the cursor, for every
\* cursor and every session filter, although private snapshots leave numeric
\* gaps, eviction cut the log's head and an oversized line emptied it.
ReplayIsComplete ==
    \A from \in 0 .. MaxSequence, requested \in Sessions \cup {AnySession} :
        CanReplay(from, sequence) =>
            {entries[i] : i \in LinesAfter(from, requested)} =
            {p \in published : /\ p.sequence > from
                               /\ requested \in {AnySession, p.sessionId}}

\* The retained suffix stays in broadcast order, so a replay is in order too.
ReplayIsOrdered ==
    \A i, j \in 1 .. Len(entries) :
        i < j => entries[i].sequence < entries[j].sequence

\* Both bounds hold and the running total is the sum it stands for: a
\* shift or a clear that forgot the total would evict for ever or never.
RetentionBounded ==
    /\ Len(entries) <= MaxEvents
    /\ retainedBytes \in 0 .. MaxBytes
    /\ BytesAfterShifts(entries, retainedBytes)[Len(entries)] = 0

\* Eviction only under pressure: an append drops the oldest entry only when
\* keeping it would break a bound, or when the appended line is oversized.
EvictsOnlyUnderPressure ==
    [][\A k \in 1 .. Len(entries) :
          (\A i \in DOMAIN entries' : entries'[i] # entries[k]) =>
             LET new == CHOOSE p \in published' : p.sequence = sequence'
             IN  \/ Len(entries) + 1 - k + 1 > MaxEvents
                 \/ BytesAfterShifts(entries, retainedBytes)[k - 1] + new.bytes
                        > MaxBytes
      ]_vars
-----------------------------------------------------------------------------
\* Counting bytes and entries implements the promise that the log is always
\* some suffix of what was broadcast.
Promise == INSTANCE ReplayLog WITH
    retained  <- {entries[i].sequence : i \in 1 .. Len(entries)},
    broadcast <- {p.sequence : p \in published}

\* Every append and every private snapshot is a step the promise allows.
ImplementsReplayLog == Promise!LogSpec
=============================================================================
