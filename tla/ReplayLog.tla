------------------------------ MODULE ReplayLog ------------------------------
(***************************************************************************)
(* What the replay log promises its users, whatever evicts it: it retains  *)
(* some suffix of the broadcast events, so a cursor at or after the event  *)
(* just before the oldest retained one can be replayed without a hole.     *)
(* SessionReplay implements this specification with counts and bytes.      *)
(* An event is its sequence number.                                        *)
(***************************************************************************)
EXTENDS Integers

CONSTANT MaxSequence    \* bound on the sequence counter

ASSUME MaxSequenceAssumption == MaxSequence \in Nat

VARIABLES
    sequence,   \* last number assigned to an event or a private snapshot
    retained,   \* events that can still be replayed
    broadcast   \* history: every event of this daemon lifetime

logVars == <<sequence, retained, broadcast>>

\* A cursor can be replayed when it is at or after the event just before the
\* oldest retained one, and not ahead of the log.
CanReplayFrom(cursor) ==
    /\ \E oldest \in retained :
          /\ \A e \in retained : oldest <= e
          /\ cursor >= oldest - 1
    /\ cursor <= sequence

EventsAfter(cursor) == {e \in retained : e > cursor}

\* What a replayable cursor gets is every event broadcast after it.
NoHole ==
    \A cursor \in 0 .. sequence :
        CanReplayFrom(cursor) => EventsAfter(cursor) = {e \in broadcast : e > cursor}

LogInit ==
    /\ sequence = 0
    /\ retained = {}
    /\ broadcast = {}

\* An event is numbered and broadcast; any prefix of the log may go.
Broadcast ==
    /\ sequence < MaxSequence
    /\ sequence' = sequence + 1
    /\ broadcast' = broadcast \cup {sequence + 1}
    /\ \E oldest \in 0 .. sequence + 2 :
          retained' = {e \in retained \cup {sequence + 1} : e >= oldest}

\* A private snapshot takes a number and is not retained.
NumberSnapshot ==
    /\ sequence < MaxSequence
    /\ sequence' = sequence + 1
    /\ UNCHANGED <<retained, broadcast>>

LogNext == Broadcast \/ NumberSnapshot

LogSpec == LogInit /\ [][LogNext]_logVars
=============================================================================
